------------------------------ MODULE MC_Retention ------------------------------
(***************************************************************************)
(* One workspace with an owner a and an administrator b, who is also the   *)
(* compliance administrator; c has no membership yet; the other workspace  *)
(* id is free to be created.                                               *)
(***************************************************************************)
EXTENDS Retention, TLC

CONSTANTS a, b, c, w1, w2

MCInitialMembers == {[ws |-> w1, account |-> a, role |-> "owner"],
                     [ws |-> w1, account |-> b, role |-> "admin"]}

RequestSymmetry == Permutations(Request)
================================================================================
