-------------------------------- MODULE Register -------------------------------
(***************************************************************************)
(* What a numbered configuration document of a workspace promises: its     *)
(* revisions are a log.  A replacement appends one entry, the current      *)
(* document is the last entry, an entry never changes, and a caller who is *)
(* told a revision is its only author.  The deletion of the workspace      *)
(* removes the whole log, and nothing is appended afterwards.              *)
(***************************************************************************)
EXTENDS Naturals, Sequences

CONSTANTS Caller,      (* requests                                          *)
          Document     (* what a revision may hold                          *)

VARIABLES log,         (* the entries, the first one being revision 1       *)
          told,        (* <<caller, revision>>: what callers were answered  *)
          closed       (* the workspace is gone                             *)

vars == <<log, told, closed>>

Entry == [by : Caller, document : Document]

Init == log = <<>> /\ told = {} /\ closed = FALSE

\* The log grows by one entry, and its author is told the number or nothing.
Replace ==
  /\ ~closed
  /\ Len(log') = Len(log) + 1
  /\ SubSeq(log', 1, Len(log)) = log
  /\ log'[Len(log')] \in Entry
  /\ told' \in {told, told \cup {<<log'[Len(log')].by, Len(log')>>}}
  /\ UNCHANGED closed

Close ==
  /\ ~closed
  /\ closed' = TRUE
  /\ log' = <<>>
  /\ UNCHANGED told

Next == Replace \/ Close

Spec == Init /\ [][Next]_vars
================================================================================
