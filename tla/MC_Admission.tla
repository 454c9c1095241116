------------------------------ MODULE MC_Admission -----------------------------
(***************************************************************************)
(* Two replicas; on one of them two publications of the same content meet  *)
(* a device list; three requests share one address.                        *)
(***************************************************************************)
EXTENDS Admission

CONSTANTS one, two, office, home, digest

Ask(kind, address, replica) ==
  [kind |-> kind, address |-> address, replica |-> replica, digest |-> digest]

MCInput ==
  [upload  |-> Ask("publish", office, one),
   again   |-> Ask("publish", home, one),
   devices |-> Ask("list", office, one),
   me      |-> Ask("query", office, two)]

MCRequest == DOMAIN MCInput
================================================================================
