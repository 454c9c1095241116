------------------------------- MODULE MC_Devices ------------------------------
(***************************************************************************)
(* A client that repeats a registration, another that uses its key, and    *)
(* one that renames a device; two pings; manifests that add, change and    *)
(* drop a package.                                                         *)
(***************************************************************************)
EXTENDS Devices

CONSTANTS x, y, z, p, q, d1, d2, n1, n2, k1, k2, ping

Packages(a, b) == [r \in Package |-> IF r = p THEN a ELSE b]

MCRegistration ==
  {[key |-> k1, id |-> NoId, name |-> n1, list |-> NoList],
   [key |-> k2, id |-> x, name |-> n2, list |-> Packages(d2, Absent)],
   [key |-> k1, id |-> x, name |-> n1, list |-> NoList]}

MCManifests == {Packages(d1, Absent), Packages(Absent, d1)}

MCNewest == Packages(d2, Absent)

MCTarget == [h \in Ping |-> x]
================================================================================
