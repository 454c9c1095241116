------------------------------ MODULE AtLeastOnce ------------------------------
(***************************************************************************)
(* What the durable outbox promises to the code that enqueues an event and *)
(* to the handler that receives it, with no row, lease, batch or worker:   *)
(* an accepted event is tried again and again until it is retired, and it  *)
(* is retired by an acknowledgement of a delivery or, once it was tried    *)
(* Limit times, by being abandoned (the dead letters).  A delivery may be  *)
(* repeated, even after the event is retired; a try may not start then.    *)
(***************************************************************************)
EXTENDS Naturals

CONSTANTS Event,      (* the events that can be accepted                    *)
          Limit       (* tries before an event may be abandoned             *)

VARIABLES accepted,   (* events committed with the mutation that made them  *)
          tries,      (* times each event was handed to a worker            *)
          delivered,  (* events some handler call has completed             *)
          acked,      (* events retired after a delivery                    *)
          abandoned   (* events retired as dead letters                     *)

vars == <<accepted, tries, delivered, acked, abandoned>>

Retired == acked \cup abandoned

Init ==
  /\ accepted = {}
  /\ tries = [e \in Event |-> 0]
  /\ delivered = {}
  /\ acked = {}
  /\ abandoned = {}

Accept(e) ==
  /\ e \notin accepted
  /\ accepted' = accepted \cup {e}
  /\ UNCHANGED <<tries, delivered, acked, abandoned>>

Try(S) ==
  /\ S \subseteq accepted \ Retired
  /\ tries' = [e \in Event |-> IF e \in S THEN tries[e] + 1 ELSE tries[e]]
  /\ UNCHANGED <<accepted, delivered, acked, abandoned>>

Deliver(e) ==
  /\ tries[e] > 0
  /\ delivered' = delivered \cup {e}
  /\ UNCHANGED <<accepted, tries, acked, abandoned>>

Acknowledge(e) ==
  /\ e \in delivered
  /\ acked' = acked \cup {e}
  /\ UNCHANGED <<accepted, tries, delivered, abandoned>>

Abandon(e) ==
  /\ tries[e] >= Limit
  /\ abandoned' = abandoned \cup {e}
  /\ UNCHANGED <<accepted, tries, delivered, acked>>

Next ==
  \/ \E S \in SUBSET Event : Try(S)
  \/ \E e \in Event : Accept(e) \/ Deliver(e) \/ Acknowledge(e) \/ Abandon(e)

Spec == Init /\ [][Next]_vars
================================================================================
