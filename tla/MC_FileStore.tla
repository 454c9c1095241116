----------------------------- MODULE MC_FileStore -----------------------------
(***************************************************************************)
(* One workspace w1 with an owner a and a release that waits for approval; *)
(* the calls of each file that meet one another.                           *)
(***************************************************************************)
EXTENDS FileStore, TLC

Ask(kind, ws, key, value, at) == [kind |-> kind, ws |-> ws, key |-> key, value |-> value, at |-> at]

MCText == STRING

MCInitialDoc ==
  [EmptyDoc EXCEPT
     !.workspaces = {[id |-> "w1", slug |-> "s1"]},
     !.memberships = {[ws |-> "w1", key |-> "a", role |-> "owner"]},
     !.invitations = {[ws |-> "w1", key |-> "i1", email |-> "mail", expires |-> 1, revoked |-> FALSE, accepted |-> None]},
     !.releases = {[ws |-> "w1", key |-> "r1", status |-> "pending_approval"]},
     !.devices = {[ws |-> "w1", key |-> "d1", packages |-> "old"]},
     !.events = {[ws |-> "w1", key |-> "e1", attempts |-> 0, available |-> 0, processed |-> FALSE, dead |-> FALSE]}]

MCMenus ==
  [workspaces |->
     {{Ask("create", "w2", "b", "s2", 0), Ask("create", "w3", "b", "s2", 0),
       Ask("add", "w2", "c", "viewer", 0), Ask("drop", "w2", "none", "none", 0)},
      {Ask("add", "w1", "b", "viewer", 0), Ask("update", "w1", "b", "admin", 0),
       Ask("remove", "w1", "b", "admin", 0), Ask("drop", "w1", "none", "none", 0)},
      {Ask("invite", "w1", "i2", "mail", 0), Ask("invite", "w1", "i3", "mail", 1),
       Ask("revoke", "w1", "i1", "none", 0), Ask("claim", "w1", "i1", "b", 0),
       Ask("revise", "w1", "policy", "none", 1)}},
   packages |->
     {{Ask("publish", "w1", "r1", "approved", 0), Ask("publish", "w1", "r2", "approved", 0)},
      {Ask("publish", "w1", "r2", "approved", 0), Ask("approve", "w1", "r1", "none", 0)},
      {Ask("approve", "w1", "r1", "none", 0), Ask("clear", "w1", "none", "none", 0)}},
   devices |->
     {{Ask("register", "w1", "d2", "new", 0), Ask("heartbeat", "w1", "d2", "newer", 0)}},
   audit |-> {{Ask("append", "w1", "t1", "none", 0)}},
   outbox |->
     {{Ask("enqueue", "w1", "e2", "none", 0), Ask("take", "w1", "none", "none", 1),
       Ask("processed", "w1", "e1", "none", 0),
       Ask("failed", "w1", "e1", "none", 0), Ask("dead", "w1", "e1", "none", 0)}}]
================================================================================
