------------------------------- MODULE MC_Outbox -------------------------------
(***************************************************************************)
(* Two rows and two replicas: enough for a batch of two that one slow      *)
(* worker holds while the other claims the same rows again, and for marks  *)
(* of a stale claim over a newer one.  Two attempts make the second claim  *)
(* the last; the fault is a lost claim, a lost mark or a crash.            *)
(***************************************************************************)
EXTENDS Outbox
================================================================================
