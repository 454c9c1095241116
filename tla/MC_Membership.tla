----------------------------- MODULE MC_Membership -----------------------------
(***************************************************************************)
(* An owner, an administrator and a user without membership who has the    *)
(* owner's address; the calls are the ones that meet one another.          *)
(***************************************************************************)
EXTENDS Membership

CONSTANTS olga, adam, uma, mail, other

MCEmailOf == [x \in User |-> IF x = adam THEN other ELSE mail]

MCInitialRole == [x \in User |-> IF x = olga THEN "owner" ELSE IF x = adam THEN "admin" ELSE NoRole]

Ask(kind, by, on, r, life, id) ==
  [kind |-> kind, by |-> by, on |-> on, role |-> r, email |-> mail, life |-> life, id |-> id]

MCCall ==
  {Ask("add", adam, uma, "viewer", 1, 1), Ask("add", adam, uma, "owner", 1, 1),
   Ask("update", adam, uma, "admin", 1, 1), Ask("remove", olga, adam, "viewer", 1, 1), Ask("remove", adam, uma, "viewer", 1, 1),
   Ask("invite", adam, uma, "admin", 1, 1), Ask("invite", olga, uma, "viewer", 1, 1),
   Ask("revoke", adam, uma, "viewer", 1, 1), Ask("claim", uma, uma, "viewer", 1, 1), Ask("claim", olga, olga, "viewer", 1, 1),
   Ask("delete", olga, olga, "viewer", 1, 1), Ask("leave", adam, adam, "viewer", 1, 1), Ask("leave", uma, uma, "viewer", 1, 1),
   Ask("list", adam, adam, "viewer", 1, 1)}
================================================================================
