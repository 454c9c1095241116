----------------------------- MODULE RetentionProofs -----------------------------
(***************************************************************************)
(* Proofs about Retention for any accounts, workspaces, administrators and *)
(* number of transactions.                                                 *)
(***************************************************************************)
EXTENDS Retention, TLAPS

USE TargetsAssumption, AdminAssumption, OpAssumption

-------------------------------------------------------------------------------
(* The inductive invariant.                                                *)

\* The part of TypeOK that transactions in progress can disturb.
ControlTyped ==
  /\ issued \subseteq Workspace
  /\ erased \subseteq Account
  /\ pc \in [Request -> {"new", "running", "done"}]
  /\ op \in [Request -> Op \cup {NoOp}]
  /\ at \in [Request -> 1 .. 8]
  /\ DOMAIN locks = Request
  /\ \A r \in Request : Running(r) <=> op[r] # NoOp
  /\ \A r \in Request : Running(r) => at[r] <= Len(Steps(op[r])) + 1
  /\ \A r \in Request : pc[r] = "new" => at[r] = 1
  /\ \A r \in Request : at[r] = 1 => locks[r] = {}

\* Requests run what the use cases let through.
OpsAreAsked ==
  \A r \in Request : Running(r) =>
    /\ op[r].kind \in {"place", "release"} => op[r].by \in Account /\ op[r].on \in Target
    /\ op[r].kind = "release" => op[r].hold \in Request
    /\ op[r].kind = "delete_account" =>
         op[r].on \in Account /\ op[r].by = op[r].on /\ op[r].account = op[r].on
    /\ op[r].kind = "create" =>
         op[r].on \in issued /\ op[r].by \in Account /\ op[r].account = op[r].by
    /\ op[r].kind = "delete_workspace" => op[r].on \in Workspace /\ op[r].by \in Account
    /\ op[r].kind \in {"add", "remove"} =>
         op[r].on \in Workspace /\ op[r].by \in Account /\ op[r].account \in Account

\* No two requests hold conflicting locks.
LocksExclude ==
  \A r, s \in Request : r # s => \A l \in locks[r], k \in locks[s] : ~Conflict(l, k)

\* A request past a statement holds what the statement locked.
LocksTaken ==
  \A r \in Request : Running(r) =>
    /\ op[r].kind = "place" =>
         /\ at[r] > 1 => Has(r, <<"retention">>)
         /\ at[r] > 2 => Has(r, <<"target", op[r].on>>)
    /\ op[r].kind = "prune" =>
         /\ at[r] > 1 => Has(r, <<"retention">>)
         /\ at[r] = 2 => locks[r] = {Exclusive(<<"retention">>)}
    /\ op[r].kind = "delete_account" =>
         /\ at[r] > 1 => Has(r, <<"account", op[r].on>>)
         /\ at[r] > 2 => Has(r, <<"target", op[r].on>>)
    /\ op[r].kind = "delete_workspace" =>
         /\ at[r] > 2 => Has(r, <<"target", op[r].on>>)
         /\ at[r] > 4 => Has(r, <<"workspace", op[r].on>>)
    /\ op[r].kind = "create" => (at[r] > 1 => Has(r, <<"account", op[r].account>>))
    /\ op[r].kind = "add" =>
         (at[r] > 3 => Shared(<<"workspace", op[r].on>>) \in locks[r])
    /\ op[r].kind = "remove" =>
         (at[r] > 2 => Shared(<<"workspace", op[r].on>>) \in locks[r])

\* Audit events have ids of their own, of requests that have ended; so do locked ones.
IdsAreDone ==
  /\ \A e, f \in events : e.id = f.id => e = f
  /\ \A e \in events : pc[e.id] = "done"
  /\ \A r, s \in Request : Has(r, <<"event", s>>) => pc[s] = "done"

\* What a request has read remains true until it ends.
ReadsOf(r) ==
  /\ op[r].kind = "place" /\ at[r] > 3 => op[r].on \in live \cup accounts
  /\ op[r].kind = "add" /\ at[r] > 3 => op[r].on \in live
  /\ op[r].kind = "remove" /\ at[r] > 2 => op[r].on \in live
  /\ op[r].kind = "delete_workspace" /\ at[r] > 3 => ~Held(op[r].on)
  /\ op[r].kind = "delete_account" /\ at[r] > 3 => ~Held(op[r].on) /\ ~Owns(op[r].on)
  /\ op[r].kind = "delete_account" /\ at[r] > 6 =>
       \A e \in events : e.about = op[r].on => Has(r, <<"event", e.id>>)
  /\ op[r].kind = "delete_account" /\ at[r] > 5 =>
       \A h \in holds : h.target = op[r].on => Has(r, <<"hold", h.id>>)
  /\ op[r].kind = "prune" /\ at[r] > 2 =>
       \A e \in events : Has(r, <<"event", e.id>>) =>
         ~e.tombstone /\ \A h \in holds : ~Covers(h, e)

ReadsHold == \A r \in Request : Running(r) => ReadsOf(r)

\* The workspace that a request creates is new to all others, so a member who is being
\* removed, and was no owner when the role was read, does not become one.
RemovalsSpareOwners ==
  \A r \in Request : Running(r) =>
    /\ op[r].kind = "create" =>
         /\ op[r].on \notin live
         /\ \A s \in Request \ {r} :
              Running(s) /\ op[s].kind \in {"create", "remove"} => op[s].on # op[r].on
    /\ op[r].kind = "remove" =>
         /\ op[r].on \in issued
         /\ \A m \in members :
              m.ws = op[r].on /\ m.account = op[r].account => m.role # "owner"

Control == ControlTyped /\ OpsAreAsked /\ LocksExclude /\ LocksTaken

IInv ==
  /\ TypeOK
  /\ Control
  /\ IdsAreDone
  /\ ReadsHold
  /\ HoldTargetsExist
  /\ OwnersKept
  /\ RemovalsSpareOwners

-------------------------------------------------------------------------------
(* Transactions in progress.                                               *)

\* The statements of each kind of request, one by one.
LEMMA Programs ==
  ASSUME NEW o
  PROVE  /\ o.kind = "place" =>
              /\ Len(Steps(o)) = 3
              /\ Steps(o)[1] = "retention" /\ Steps(o)[2] = "target"
              /\ Steps(o)[3] = "check"
         /\ o.kind = "release" =>
              /\ Len(Steps(o)) = 3
              /\ Steps(o)[1] = "hold_row" /\ Steps(o)[2] = "check"
              /\ Steps(o)[3] = "target"
         /\ o.kind = "prune" =>
              /\ Len(Steps(o)) = 2
              /\ Steps(o)[1] = "retention" /\ Steps(o)[2] = "choose"
         /\ o.kind = "delete_account" =>
              /\ Len(Steps(o)) = 7
              /\ Steps(o)[1] = "account" /\ Steps(o)[2] = "target"
              /\ Steps(o)[3] = "check" /\ Steps(o)[4] = "audit_rows"
              /\ Steps(o)[5] = "hold_rows" /\ Steps(o)[6] = "metadata_rows"
              /\ Steps(o)[7] = "member_rows"
         /\ o.kind = "delete_workspace" =>
              /\ Len(Steps(o)) = 6
              /\ Steps(o)[1] = "reference" /\ Steps(o)[2] = "target"
              /\ Steps(o)[3] = "check" /\ Steps(o)[4] = "delete"
              /\ Steps(o)[5] = "member_rows" /\ Steps(o)[6] = "audit_rows"
         /\ o.kind = "create" =>
              /\ Len(Steps(o)) = 1
              /\ Steps(o)[1] = "account"
         /\ o.kind = "add" =>
              /\ Len(Steps(o)) = 3
              /\ Steps(o)[1] = "account" /\ Steps(o)[2] = "insert_row"
              /\ Steps(o)[3] = "reference"
         /\ o.kind = "remove" =>
              /\ Len(Steps(o)) = 2
              /\ Steps(o)[1] = "delete_row" /\ Steps(o)[2] = "reference"
  <1>1. ASSUME o.kind = "place"
        PROVE  /\ Len(Steps(o)) = 3
               /\ Steps(o)[1] = "retention" /\ Steps(o)[2] = "target"
               /\ Steps(o)[3] = "check"
    <2>1. Steps(o) = PlaceSteps
      BY <1>1 DEF Steps
    <2>2. /\ Len(PlaceSteps) = 3
          /\ PlaceSteps[1] = "retention" /\ PlaceSteps[2] = "target"
          /\ PlaceSteps[3] = "check"
      BY DEF PlaceSteps
    <2>3. QED
      BY <2>1, <2>2
  <1>2. ASSUME o.kind = "release"
        PROVE  /\ Len(Steps(o)) = 3
               /\ Steps(o)[1] = "hold_row" /\ Steps(o)[2] = "check"
               /\ Steps(o)[3] = "target"
    <2>1. Steps(o) = ReleaseSteps
      BY <1>2 DEF Steps
    <2>2. /\ Len(ReleaseSteps) = 3
          /\ ReleaseSteps[1] = "hold_row" /\ ReleaseSteps[2] = "check"
          /\ ReleaseSteps[3] = "target"
      BY DEF ReleaseSteps
    <2>3. QED
      BY <2>1, <2>2
  <1>3. ASSUME o.kind = "prune"
        PROVE  /\ Len(Steps(o)) = 2
               /\ Steps(o)[1] = "retention" /\ Steps(o)[2] = "choose"
    <2>1. Steps(o) = PruneSteps
      BY <1>3 DEF Steps
    <2>2. /\ Len(PruneSteps) = 2
          /\ PruneSteps[1] = "retention" /\ PruneSteps[2] = "choose"
      BY DEF PruneSteps
    <2>3. QED
      BY <2>1, <2>2
  <1>4. ASSUME o.kind = "delete_account"
        PROVE  /\ Len(Steps(o)) = 7
               /\ Steps(o)[1] = "account" /\ Steps(o)[2] = "target"
               /\ Steps(o)[3] = "check" /\ Steps(o)[4] = "audit_rows"
               /\ Steps(o)[5] = "hold_rows" /\ Steps(o)[6] = "metadata_rows"
               /\ Steps(o)[7] = "member_rows"
    <2>1. Steps(o) = DeleteAccountSteps
      BY <1>4 DEF Steps
    <2>2. /\ Len(DeleteAccountSteps) = 7
          /\ DeleteAccountSteps[1] = "account" /\ DeleteAccountSteps[2] = "target"
          /\ DeleteAccountSteps[3] = "check" /\ DeleteAccountSteps[4] = "audit_rows"
          /\ DeleteAccountSteps[5] = "hold_rows" /\ DeleteAccountSteps[6] = "metadata_rows"
          /\ DeleteAccountSteps[7] = "member_rows"
      BY DEF DeleteAccountSteps
    <2>3. QED
      BY <2>1, <2>2
  <1>5. ASSUME o.kind = "delete_workspace"
        PROVE  /\ Len(Steps(o)) = 6
               /\ Steps(o)[1] = "reference" /\ Steps(o)[2] = "target"
               /\ Steps(o)[3] = "check" /\ Steps(o)[4] = "delete"
               /\ Steps(o)[5] = "member_rows" /\ Steps(o)[6] = "audit_rows"
    <2>1. Steps(o) = DeleteWorkspaceSteps
      BY <1>5 DEF Steps
    <2>2. /\ Len(DeleteWorkspaceSteps) = 6
          /\ DeleteWorkspaceSteps[1] = "reference" /\ DeleteWorkspaceSteps[2] = "target"
          /\ DeleteWorkspaceSteps[3] = "check" /\ DeleteWorkspaceSteps[4] = "delete"
          /\ DeleteWorkspaceSteps[5] = "member_rows" /\ DeleteWorkspaceSteps[6] = "audit_rows"
      BY DEF DeleteWorkspaceSteps
    <2>3. QED
      BY <2>1, <2>2
  <1>6. ASSUME o.kind = "create"
        PROVE  /\ Len(Steps(o)) = 1
               /\ Steps(o)[1] = "account"
    <2>1. Steps(o) = CreateSteps
      BY <1>6 DEF Steps
    <2>2. /\ Len(CreateSteps) = 1
          /\ CreateSteps[1] = "account"
      BY DEF CreateSteps
    <2>3. QED
      BY <2>1, <2>2
  <1>7. ASSUME o.kind = "add"
        PROVE  /\ Len(Steps(o)) = 3
               /\ Steps(o)[1] = "account" /\ Steps(o)[2] = "insert_row"
               /\ Steps(o)[3] = "reference"
    <2>1. Steps(o) = AddSteps
      BY <1>7 DEF Steps
    <2>2. /\ Len(AddSteps) = 3
          /\ AddSteps[1] = "account" /\ AddSteps[2] = "insert_row"
          /\ AddSteps[3] = "reference"
      BY DEF AddSteps
    <2>3. QED
      BY <2>1, <2>2
  <1>8. ASSUME o.kind = "remove"
        PROVE  /\ Len(Steps(o)) = 2
               /\ Steps(o)[1] = "delete_row" /\ Steps(o)[2] = "reference"
    <2>1. Steps(o) = RemoveSteps
      BY <1>8 DEF Steps
    <2>2. /\ Len(RemoveSteps) = 2
          /\ RemoveSteps[1] = "delete_row" /\ RemoveSteps[2] = "reference"
      BY DEF RemoveSteps
    <2>3. QED
      BY <2>1, <2>2
  <1>9. QED
    BY <1>1, <1>2, <1>3, <1>4, <1>5, <1>6, <1>7, <1>8

\* How many statements each kind of request has: never more than seven.
LEMMA ProgramLength ==
  ASSUME NEW o \in Op
  PROVE  /\ o.kind \in {"place", "release", "add"} => Len(Steps(o)) = 3
         /\ o.kind \in {"prune", "remove"} => Len(Steps(o)) = 2
         /\ o.kind = "delete_account" => Len(Steps(o)) = 7
         /\ o.kind = "delete_workspace" => Len(Steps(o)) = 6
         /\ o.kind = "create" => Len(Steps(o)) = 1
         /\ Len(Steps(o)) \in 1 .. 7
  <1> DEFINE k == o.kind
             n == Len(Steps(o))
  <1>1. k \in Kinds
    BY DEF Op
  <1>2. /\ k = "place" => n = 3
        /\ k = "release" => n = 3
        /\ k = "prune" => n = 2
        /\ k = "delete_account" => n = 7
        /\ k = "delete_workspace" => n = 6
        /\ k = "create" => n = 1
        /\ k = "add" => n = 3
        /\ k = "remove" => n = 2
    BY Programs, Zenon
  <1> HIDE DEF k, n
  <1>3. /\ k \in {"place", "release", "add"} => n = 3
        /\ k \in {"prune", "remove"} => n = 2
        /\ k = "delete_account" => n = 7
        /\ k = "delete_workspace" => n = 6
        /\ k = "create" => n = 1
        /\ n \in 1 .. 7
    BY <1>1, <1>2 DEF Kinds
  <1>4. QED
    BY <1>3 DEF k, n

\* A request that commits is past its last statement.
LEMMA AtCommit ==
  ASSUME TypeOK, NEW r \in Request, NEW kind, Commits(r, kind)
  PROVE  /\ kind = "place" => at[r] = 4
         /\ kind = "release" => at[r] = 4
         /\ kind = "prune" => at[r] = 3
         /\ kind = "delete_account" => at[r] = 8
         /\ kind = "delete_workspace" => at[r] = 7
         /\ kind = "create" => at[r] = 2
         /\ kind = "add" => at[r] = 4
         /\ kind = "remove" => at[r] = 3
  <1> DEFINE n == Len(Steps(op[r]))
  <1>1. op[r].kind = kind /\ at[r] \in Nat
    BY DEF Commits, TypeOK
  <1>2. op[r] \in Op
    BY DEF Commits, TypeOK
  <1>3. n \in 1 .. 7 /\ at[r] = n + 1
    BY <1>1, <1>2, ProgramLength DEF Commits, Pending, TypeOK, Running
  <1>4. /\ kind \in {"place", "release", "add"} => n = 3
        /\ kind \in {"prune", "remove"} => n = 2
        /\ kind = "delete_account" => n = 7
        /\ kind = "delete_workspace" => n = 6
        /\ kind = "create" => n = 1
    BY <1>1, <1>2, ProgramLength
  <1> HIDE DEF n
  <1>5. QED
    BY <1>3, <1>4

\* A request with a statement to go can advance.
LEMMA Advance ==
  ASSUME TypeOK, NEW r \in Request, Pending(r)
  PROVE  /\ Running(r) /\ op[r] \in Op /\ op[r].kind \in Kinds
         /\ at[r] \in 1 .. 7 /\ at[r] <= Len(Steps(op[r]))
         /\ at[r] + 1 \in 1 .. 8 /\ at[r] + 1 <= Len(Steps(op[r])) + 1
  <1> DEFINE n == Len(Steps(op[r]))
  <1>1. Running(r) /\ op[r] \in Op /\ at[r] \in 1 .. 8 /\ at[r] <= n
    BY DEF Pending, TypeOK
  <1>2. n \in 1 .. 7 /\ op[r].kind \in Kinds
    BY <1>1, ProgramLength DEF Op
  <1> HIDE DEF n
  <1>3. at[r] \in 1 .. 7 /\ at[r] + 1 \in 1 .. 8 /\ at[r] + 1 <= n + 1
    BY <1>1, <1>2
  <1>4. QED
    BY <1>1, <1>2, <1>3 DEF n

\* The statement choose is the second of the pruning.
LEMMA ChooseAt ==
  ASSUME TypeOK, NEW r \in Request, Pending(r), Statement(r) = "choose"
  PROVE  op[r].kind = "prune" /\ at[r] = 2
  <1> DEFINE k == op[r].kind
             n == Len(Steps(op[r]))
             here == Steps(op[r])[at[r]]
  <1>1. k \in Kinds /\ at[r] \in 1 .. 7 /\ at[r] <= n /\ here = "choose"
    BY Advance DEF Statement
  <1>2. CASE k \in {"place", "release", "add"}
    <2>1. n = 3
      BY <1>2, Programs
    <2>2. at[r] = 1 \/ at[r] = 2 \/ at[r] = 3
      BY <1>1, <2>1
    <2>3. QED
      BY <1>1, <1>2, <2>2, Programs
  <1>3. CASE k \in {"delete_account", "delete_workspace"}
    <2>1. at[r] = 1 \/ at[r] = 2 \/ at[r] = 3 \/ at[r] = 4 \/ at[r] = 5 \/ at[r] = 6
          \/ at[r] = 7
      BY <1>1
    <2>2. QED
      BY <1>1, <1>3, <2>1, Programs
  <1>4. CASE k = "create"
    <2>1. n = 1
      BY <1>4, Programs
    <2>2. at[r] = 1
      BY <1>1, <2>1
    <2>3. QED
      BY <1>1, <1>4, <2>2, Programs
  <1>5. CASE k = "prune"
    <2>1. n = 2
      BY <1>5, Programs
    <2>2. at[r] = 1 \/ at[r] = 2
      BY <1>1, <2>1
    <2>3. QED
      BY <1>1, <1>5, <2>2, Programs
  <1>6. CASE k = "remove"
    <2>1. n = 2
      BY <1>6, Programs
    <2>2. at[r] = 1 \/ at[r] = 2
      BY <1>1, <2>1
    <2>3. QED
      BY <1>1, <1>6, <2>2, Programs
  <1>7. QED
    BY <1>1, <1>2, <1>3, <1>4, <1>5, <1>6 DEF Kinds

\* Two requests do not both hold a lock exclusively, nor one so and one shared.
LEMMA Exclusion ==
  ASSUME LocksExclude, NEW r \in Request, NEW s \in Request, NEW x, Has(r, x),
         Has(s, x) \/ Shared(x) \in locks[s]
  PROVE  r = s
  BY DEF LocksExclude, Has, Conflict, Exclusive, Shared

\* The end of a transaction frees its locks and disturbs no other.
LEMMA EndsControl ==
  ASSUME ControlTyped, OpsAreAsked, LocksExclude, LocksTaken, NEW r \in Request, Ends(r),
         UNCHANGED issued, erased' \subseteq Account
  PROVE  Control'
  <1>1. /\ DOMAIN locks' = Request /\ locks'[r] = {}
        /\ \A s \in Request \ {r} : locks'[s] = locks[s]
    BY DEF Ends, ControlTyped
  <1>2. ~Running(r)' /\ \A s \in Request \ {r} :
          (Running(s)' <=> Running(s)) /\ op'[s] = op[s] /\ at'[s] = at[s]
    BY DEF Ends, ControlTyped, Running
  <1>3. op'[r] = NoOp /\ at'[r] = 1
    BY DEF Ends, ControlTyped
  <1>4. ControlTyped'
    BY <1>1, <1>2, <1>3 DEF Ends, ControlTyped
  <1>5. OpsAreAsked'
    BY <1>2 DEF OpsAreAsked
  <1>6. LocksExclude'
    BY <1>1 DEF LocksExclude
  <1>7. LocksTaken'
    BY <1>1, <1>2 DEF LocksTaken, Has
  <1>8. QED
    BY <1>4, <1>5, <1>6, <1>7 DEF Control

\* What is authorized is well formed.
LEMMA AuthorizedOps ==
  ASSUME TypeOK, HoldTargetsExist, NEW o \in Authorized
  PROVE  /\ o \in Op
         /\ o.kind \in {"place", "release"} => o.by \in Account /\ o.on \in Target
         /\ o.kind = "release" => o.hold \in Request
         /\ o.kind = "delete_account" => o.on \in Account /\ o.by = o.on /\ o.account = o.on
         /\ o.kind = "create" => o.on \in Workspace /\ o.by \in Account /\ o.account = o.by
         /\ o.kind = "delete_workspace" => o.on \in Workspace /\ o.by \in Account
         /\ o.kind \in {"add", "remove"} =>
              o.on \in Workspace /\ o.by \in Account /\ o.account \in Account
  <1>1. CASE o \in {Ask("place", a, t, Nobody, Nobody) : a \in Admin, t \in Account \cup issued}
    BY <1>1 DEF Ask, Op, Kinds, Target, TypeOK
  <1>2. CASE o \in {Ask("release", p[1], p[2].target, Nobody, p[2].id) :
                      p \in Admin \X {h \in holds : h.active}}
    <2>1. PICK a \in Admin, h \in holds :
            h.active /\ o = Ask("release", a, h.target, Nobody, h.id)
      BY <1>2
    <2>2. h.target \in Target /\ h.id \in Request
      BY <2>1 DEF TypeOK, HoldTargetsExist, Hold, Target
    <2>3. QED
      BY <2>1, <2>2 DEF Ask, Op, Kinds, Target
  <1>3. CASE o = Ask("prune", Nobody, Nobody, Nobody, Nobody)
    BY <1>3 DEF Ask, Op, Kinds
  <1>4. CASE o \in {Ask("delete_account", a, a, a, Nobody) : a \in Account}
    BY <1>4 DEF Ask, Op, Kinds, Target
  <1>5. CASE o \in {Ask("create", a, ws, a, Nobody) : a \in Account, ws \in Workspace \ issued}
    BY <1>5 DEF Ask, Op, Kinds, Target
  <1>6. CASE o \in {Ask("delete_workspace", m.account, m.ws, Nobody, Nobody) :
                      m \in {x \in members : x.role = "owner"}}
    BY <1>6 DEF Ask, Op, Kinds, Target, TypeOK
  <1>7. CASE o \in {Ask("add", p[1].account, p[1].ws, p[2], Nobody) :
                      p \in {x \in members : x.role # "viewer"} \X Account}
    <2>1. PICK m \in members, a \in Account : o = Ask("add", m.account, m.ws, a, Nobody)
      BY <1>7
    <2>2. m.account \in Account /\ m.ws \in Workspace
      BY <2>1 DEF TypeOK
    <2>3. QED
      BY <2>1, <2>2 DEF Ask, Op, Kinds, Target
  <1>8. CASE o \in {Ask("remove", t[1], t[2], t[3], Nobody) :
                      t \in {x \in Account \X live \X Account :
                              /\ x[1] \in Users(x[2], {"owner", "admin"})
                              /\ x[3] \in Users(x[2], Roles) \ Users(x[2], {"owner"})}}
    <2>1. PICK a \in Account, ws \in live, b \in Account : o = Ask("remove", a, ws, b, Nobody)
      BY <1>8
    <2>2. ws \in Workspace
      BY <2>1 DEF TypeOK
    <2>3. QED
      BY <2>1, <2>2 DEF Ask, Op, Kinds, Target
  <1>9. QED
    BY <1>1, <1>2, <1>3, <1>4, <1>5, <1>6, <1>7, <1>8 DEF Authorized

\* A removal names a member who is no owner; a creation names a new workspace.
LEMMA AuthorizedMutations ==
  ASSUME TypeOK, NEW o \in Authorized
  PROVE  /\ o.kind = "create" => o.on \in Workspace \ issued
         /\ o.kind = "remove" =>
              /\ o.on \in live
              /\ \A m \in members : m.ws = o.on /\ m.account = o.account => m.role # "owner"
  <1>1. ASSUME o.kind = "create" PROVE o.on \in Workspace \ issued
    <2>1. PICK a \in Account, ws \in Workspace \ issued : o = Ask("create", a, ws, a, Nobody)
      BY <1>1 DEF Authorized, Ask
    <2>2. QED
      BY <2>1 DEF Ask
  <1>2. ASSUME o.kind = "remove"
        PROVE  /\ o.on \in live
               /\ \A m \in members : m.ws = o.on /\ m.account = o.account => m.role # "owner"
    <2>1. PICK a \in Account, ws \in live, b \in Account :
            b \notin Users(ws, {"owner"}) /\ o = Ask("remove", a, ws, b, Nobody)
      BY <1>2 DEF Authorized, Ask
    <2>2. o.on = ws /\ o.account = b
      BY <2>1 DEF Ask
    <2>3. QED
      BY <2>1, <2>2 DEF Users
  <1>3. QED
    BY <1>1, <1>2

\* A request that begins holds nothing yet.
LEMMA BeginControl ==
  ASSUME TypeOK, Control, HoldTargetsExist, NEW r \in Request, Begin(r)
  PROVE  Control'
  <1>1. PICK o \in Authorized :
          /\ op' = [op EXCEPT ![r] = o]
          /\ issued' = IF o.kind = "create" THEN issued \cup {o.on} ELSE issued
          /\ erased' = erased \ {o.by}
    BY DEF Begin
  <1>2. /\ pc[r] = "new" /\ at[r] = 1
        /\ pc' = [pc EXCEPT ![r] = "running"] /\ UNCHANGED <<at, locks>>
    BY DEF Begin, Control, ControlTyped
  <1>3. /\ op'[r] = o /\ at'[r] = 1 /\ o \in Op /\ o # NoOp
        /\ \A s \in Request \ {r} : (Running(s)' <=> Running(s)) /\ op'[s] = op[s]
    BY <1>1, <1>2, AuthorizedOps DEF Control, ControlTyped, Running
  <1>4. issued \subseteq issued' /\ issued' \subseteq Workspace /\ erased' \subseteq Account
        /\ (o.kind = "create" => o.on \in issued')
    BY <1>1, AuthorizedOps DEF Control, ControlTyped
  <1>5. ControlTyped'
    <2>1. 1 <= Len(Steps(o)) + 1
      BY <1>3, ProgramLength
    <2>2. \A s \in Request : (Running(s) <=> op[s] # NoOp)' /\
            (Running(s) => at[s] <= Len(Steps(op[s])) + 1)'
      BY <1>2, <1>3, <2>1 DEF Control, ControlTyped, Running
    <2>3. QED
      BY <1>1, <1>2, <1>3, <1>4, <2>2 DEF Control, ControlTyped
  <1>6. OpsAreAsked'
    <2>1. ASSUME NEW s \in Request, s # r, Running(s)' PROVE Running(s) /\ op'[s] = op[s]
      BY <1>3, <2>1
    <2>2. QED
      BY <1>3, <1>4, <2>1, AuthorizedOps DEF Control, OpsAreAsked
  <1>7. LocksExclude'
    BY <1>2 DEF Control, LocksExclude
  <1>8. LocksTaken'
    <2>1. ASSUME NEW s \in Request, Running(s)', s # r PROVE Running(s) /\ op'[s] = op[s]
      BY <1>3, <2>1
    <2>2. ~(at'[r] > 1) /\ ~(at'[r] > 2) /\ ~(at'[r] > 3) /\ ~(at'[r] > 4) /\ at'[r] # 2
      BY <1>3
    <2>3. QED
      BY <1>2, <2>1, <2>2 DEF Control, LocksTaken, Has
  <1>9. QED
    BY <1>5, <1>6, <1>7, <1>8 DEF Control

\* What the locking statements of LocksTaken ask for.
LEMMA Needs ==
  ASSUME NEW o
  PROVE  /\ Need(o, "retention") = {Exclusive(<<"retention">>)}
         /\ Exclusive(<<"account", o.account>>) \in Need(o, "account")
         /\ Exclusive(<<"target", o.on>>) \in Need(o, "target")
         /\ Shared(<<"workspace", o.on>>) \in Need(o, "reference")
         /\ Exclusive(<<"workspace", o.on>>) \in Need(o, "delete")
  BY DEF Need

\* A statement that may go on clashes with nobody's locks.
LEMMA ExecuteControl ==
  ASSUME TypeOK, Control, NEW r \in Request, Execute(r)
  PROVE  Control'
  <1> DEFINE new == Need(op[r], Statement(r))
  <1>1. /\ locks' = [locks EXCEPT ![r] = @ \cup new]
        /\ at' = [at EXCEPT ![r] = @ + 1]
        /\ UNCHANGED <<pc, op, issued, erased>>
    BY DEF Execute
  <1>2. /\ DOMAIN locks' = Request /\ locks'[r] = locks[r] \cup new
        /\ \A s \in Request \ {r} : locks'[s] = locks[s] /\ at'[s] = at[s]
        /\ at'[r] = at[r] + 1
    BY <1>1 DEF Control, ControlTyped
  <1>3. Running(r) /\ at[r] \in Nat /\ op[r] \in Op
    BY Advance DEF Execute
  <1>4. at'[r] <= Len(Steps(op[r])) + 1 /\ at'[r] \in 1 .. 8
    BY <1>2, Advance DEF Execute
  <1>5. ControlTyped'
    BY <1>1, <1>2, <1>3, <1>4 DEF Control, ControlTyped, Running
  <1>6. OpsAreAsked'
    BY <1>1 DEF Control, OpsAreAsked, Running
  <1>7. ASSUME NEW s \in Request, s # r, NEW l \in new, NEW k \in locks[s]
        PROVE  ~Conflict(l, k) /\ ~Conflict(k, l)
    BY <1>7 DEF Execute, Waits, Conflict
  <1>8. LocksExclude'
    BY <1>2, <1>7 DEF Control, LocksExclude
  <1>9. LocksTaken'
    <2>1. ASSUME NEW s \in Request, Running(s)', s # r
          PROVE  Running(s) /\ op'[s] = op[s] /\ at'[s] = at[s] /\ locks'[s] = locks[s]
      BY <1>1, <1>2, <2>1 DEF Running
    <2> DEFINE o == op[r]
               Now(x) == Exclusive(x) \in new
               Holds(x) == Has(r, x) \/ Now(x)
    <2>0. o.kind \in {"place", "prune"} /\ at[r] = 1 => new = {Exclusive(<<"retention">>)}
      <3>1. o.kind \in {"place", "prune"} /\ at[r] = 1 => Statement(r) = "retention"
        BY Programs DEF Statement
      <3>2. QED
        BY <3>1, Needs
    <2>2. o.kind = "place" => /\ at[r] = 1 => Now(<<"retention">>)
                              /\ at[r] = 2 => Now(<<"target", o.on>>)
      BY <2>0, Programs, Needs DEF Statement
    <2>3. o.kind = "prune" => (at[r] = 1 => Now(<<"retention">>))
      BY <2>0
    <2>4. o.kind = "delete_account" => /\ at[r] = 1 => Now(<<"account", o.account>>)
                                       /\ at[r] = 2 => Now(<<"target", o.on>>)
      BY Programs, Needs DEF Statement
    <2>5. o.kind = "delete_workspace" => /\ at[r] = 2 => Now(<<"target", o.on>>)
                                         /\ at[r] = 4 => Now(<<"workspace", o.on>>)
      BY Programs, Needs DEF Statement
    <2>6. o.kind = "create" => (at[r] = 1 => Now(<<"account", o.account>>))
      BY Programs, Needs DEF Statement
    <2>7. /\ o.kind = "add" => (at[r] = 3 => Shared(<<"workspace", o.on>>) \in new)
          /\ o.kind = "remove" => (at[r] = 2 => Shared(<<"workspace", o.on>>) \in new)
      BY Programs, Needs DEF Statement
    <2>8. o.kind = "delete_account" => o.account = o.on
      BY <1>3 DEF Control, OpsAreAsked
    <2>9. \A x : Has(r, x)' <=> Holds(x)
      BY <1>2 DEF Has
    <2>10. Shared(<<"workspace", o.on>>) \in locks'[r] <=>
             Shared(<<"workspace", o.on>>) \in locks[r] \cup new
      BY <1>2
    <2>11. \A n \in {1, 2, 3, 4} : at'[r] > n <=> at[r] > n \/ at[r] = n
      BY <1>2, <1>3
    <2>12. /\ o.kind = "place" =>
                 /\ at'[r] > 1 => Holds(<<"retention">>)
                 /\ at'[r] > 2 => Holds(<<"target", o.on>>)
           /\ o.kind = "prune" => (at'[r] > 1 => Holds(<<"retention">>))
           /\ o.kind = "delete_account" =>
                 /\ at'[r] > 1 => Holds(<<"account", o.on>>)
                 /\ at'[r] > 2 => Holds(<<"target", o.on>>)
           /\ o.kind = "delete_workspace" =>
                 /\ at'[r] > 2 => Holds(<<"target", o.on>>)
                 /\ at'[r] > 4 => Holds(<<"workspace", o.on>>)
           /\ o.kind = "create" => (at'[r] > 1 => Holds(<<"account", o.account>>))
           /\ o.kind = "add" =>
                 (at'[r] > 3 => Shared(<<"workspace", o.on>>) \in locks[r] \cup new)
           /\ o.kind = "remove" =>
                 (at'[r] > 2 => Shared(<<"workspace", o.on>>) \in locks[r] \cup new)
      BY <1>3, <2>2, <2>3, <2>4, <2>5, <2>6, <2>7, <2>8, <2>11 DEF Control, LocksTaken
    <2>13. o.kind = "prune" /\ at'[r] = 2 => locks'[r] = {Exclusive(<<"retention">>)}
      <3>1. at'[r] = 2 => at[r] = 1 /\ locks[r] = {}
        BY <1>2, <1>3 DEF Control, ControlTyped
      <3>2. QED
        BY <1>2, <2>0, <3>1
    <2> HIDE DEF Holds
    <2>14. QED
      BY <1>1, <2>1, <2>9, <2>10, <2>12, <2>13 DEF Control, LocksTaken, Has
  <1>10. QED
    BY <1>5, <1>6, <1>8, <1>9 DEF Control

\* The choice of the events to prune takes locks that nobody has.
LEMMA ChooseControl ==
  ASSUME TypeOK, Control, NEW r \in Request, Choose(r)
  PROVE  Control'
  <1>1. PICK old \in SUBSET {e \in events : Prunable(e)} :
          locks' = [locks EXCEPT ![r] = @ \cup {Exclusive(<<"event", e.id>>) : e \in old}]
    BY DEF Choose
  <1> DEFINE new == {Exclusive(<<"event", e.id>>) : e \in old}
  <1>2. at' = [at EXCEPT ![r] = @ + 1] /\ UNCHANGED <<pc, op, issued, erased>>
    BY DEF Choose
  <1>3. /\ DOMAIN locks' = Request /\ locks'[r] = locks[r] \cup new
        /\ \A s \in Request \ {r} : locks'[s] = locks[s] /\ at'[s] = at[s]
        /\ at'[r] = at[r] + 1
    BY <1>1, <1>2 DEF Control, ControlTyped
  <1>4. Running(r) /\ at[r] \in Nat /\ op[r] \in Op
    BY Advance DEF Choose
  <1>5. at'[r] <= Len(Steps(op[r])) + 1 /\ at'[r] \in 1 .. 8
    BY <1>3, Advance DEF Choose
  <1>6. ControlTyped'
    BY <1>2, <1>3, <1>4, <1>5 DEF Control, ControlTyped, Running
  <1>7. OpsAreAsked'
    BY <1>2 DEF Control, OpsAreAsked, Running
  <1>8. ASSUME NEW s \in Request, s # r, NEW l \in new, NEW k \in locks[s]
        PROVE  ~Conflict(l, k) /\ ~Conflict(k, l)
    BY <1>8 DEF Prunable, Locked, Conflict, Exclusive
  <1> HIDE DEF new
  <1>9. LocksExclude'
    BY <1>3, <1>8 DEF Control, LocksExclude
  <1>10. op[r].kind = "prune" /\ at[r] = 2
    BY ChooseAt DEF Choose
  <1>11. LocksTaken'
    <2>1. ASSUME NEW s \in Request, Running(s)', s # r
          PROVE  Running(s) /\ op'[s] = op[s] /\ at'[s] = at[s] /\ locks'[s] = locks[s]
      BY <1>2, <1>3, <2>1 DEF Running
    <2>2. Has(r, <<"retention">>) /\ op'[r].kind = "prune" /\ at'[r] = 3
      <3>1. op[r].kind = "prune" => (at[r] > 1 => Has(r, <<"retention">>))
        BY <1>4 DEF Control, LocksTaken
      <3>2. at[r] > 1 /\ op' = op
        BY <1>2, <1>10
      <3>3. QED
        BY <1>3, <1>10, <3>1, <3>2
    <2>3. Has(r, <<"retention">>)'
      BY <1>3, <2>2 DEF Has
    <2>4. QED
      BY <2>1, <2>2, <2>3 DEF Control, LocksTaken, Has
  <1>12. QED
    BY <1>6, <1>7, <1>9, <1>11 DEF Control

-------------------------------------------------------------------------------
(* What requests have read.                                                *)

\* The row locks that a statement asks for, and who asks for any.
LEMMA RowNeeds ==
  ASSUME NEW o, NEW step, NEW x, Exclusive(<<"event", x>>) \in Need(o, step)
  PROVE  \E e \in events : e.id = x
  BY DEF Need, Exclusive, Shared, AuditRows, MetadataRows

\* A lock statement asks for the rows a deletion has to anonymise.
LEMMA DeletionNeeds ==
  ASSUME NEW o, o.kind = "delete_account"
  PROVE  /\ \A e \in events : e.about = o.on =>
              Exclusive(<<"event", e.id>>) \in Need(o, "metadata_rows")
         /\ \A h \in holds : h.target = o.on =>
              Exclusive(<<"hold", h.id>>) \in Need(o, "hold_rows")
  BY DEF Need, MetadataRows, HoldRows

\* A request that begins has read nothing.
LEMMA BeginReads ==
  ASSUME IInv, NEW r \in Request, Begin(r)
  PROVE  ReadsHold' /\ IdsAreDone'
  <1>1. /\ pc' = [pc EXCEPT ![r] = "running"] /\ pc[r] = "new" /\ at'[r] = 1
        /\ UNCHANGED <<tables, at, locks>>
        /\ \A s \in Request \ {r} : op'[s] = op[s] /\ pc'[s] = pc[s]
    BY DEF Begin, IInv, Control, ControlTyped
  <1>2. ASSUME NEW s \in Request, s # r, Running(s)' PROVE Running(s) /\ op'[s] = op[s]
    BY <1>1, <1>2 DEF Running
  <1>3. ReadsHold'
    <2>1. ~(at'[r] > 2) /\ ~(at'[r] > 3) /\ ~(at'[r] > 5) /\ ~(at'[r] > 6)
      BY <1>1
    <2>2. QED
      BY <1>1, <1>2, <2>1 DEF IInv, ReadsHold, ReadsOf, Has, Held, Owns, Covers, tables
  <1>4. \A s \in Request : pc[s] = "done" => pc'[s] = "done"
    BY <1>1 DEF IInv, Control, ControlTyped
  <1>5. IdsAreDone'
    BY <1>1, <1>4 DEF IInv, IdsAreDone, Has, tables, TypeOK, Event
  <1>6. QED
    BY <1>3, <1>5

\* A statement adds what it reads to what holds.
LEMMA ExecuteReads ==
  ASSUME IInv, NEW r \in Request, Execute(r)
  PROVE  ReadsHold' /\ IdsAreDone'
  <1> DEFINE new == Need(op[r], Statement(r))
  <1> USE DEF IInv
  <1>1. /\ locks'[r] = locks[r] \cup new /\ at'[r] = at[r] + 1
        /\ \A s \in Request \ {r} : locks'[s] = locks[s] /\ at'[s] = at[s]
        /\ UNCHANGED <<tables, pc, op>>
    BY DEF Execute, Control, ControlTyped
  <1>2. IdsAreDone'
    <2>1. ASSUME NEW s \in Request, NEW x \in Request, Has(s, <<"event", x>>)' PROVE pc[x] = "done"
      <3>1. CASE Has(s, <<"event", x>>)
        BY <3>1 DEF IdsAreDone
      <3>2. CASE ~Has(s, <<"event", x>>)
        <4>1. s = r /\ Exclusive(<<"event", x>>) \in new
          BY <1>1, <2>1, <3>2 DEF Has
        <4>2. QED
          BY <4>1, RowNeeds DEF IdsAreDone
      <3>3. QED
        BY <3>1, <3>2
    <2>2. QED
      BY <1>1, <2>1 DEF IdsAreDone, tables
  <1> DEFINE o == op[r]
  <1>3. Running(r) /\ at[r] \in 1 .. 7 /\ at[r] <= Len(Steps(o))
    BY Advance DEF Execute
  <1>4. \A x : Has(r, x)' <=> Has(r, x) \/ Exclusive(x) \in new
    BY <1>1 DEF Has
  <1>5. /\ o.kind \in {"place", "delete_account", "delete_workspace"} /\ at[r] = 3
             => Permitted(o)
        /\ o.kind = "add" /\ at[r] = 3 => o.on \in live
        /\ o.kind = "remove" /\ at[r] = 2 => o.on \in live
    <2>1. /\ o.kind \in {"place", "delete_account", "delete_workspace"} /\ at[r] = 3
               => Statement(r) = "check"
          /\ o.kind = "add" /\ at[r] = 3 => Statement(r) = "reference"
          /\ o.kind = "remove" /\ at[r] = 2 => Statement(r) = "reference"
      BY Programs DEF Statement
    <2>2. /\ Accepts(o, Statement(r))
          /\ Accepts(o, "check") <=> Permitted(o)
          /\ Accepts(o, "reference") <=> o.on \in live
      BY DEF Execute, Accepts
    <2>3. QED
      BY <2>1, <2>2
  <1>6. /\ Permitted(o) /\ o.kind = "place" => o.on \in live \cup accounts
        /\ Permitted(o) /\ o.kind = "delete_workspace" => ~Held(o.on)
        /\ Permitted(o) /\ o.kind = "delete_account" => ~Held(o.on) /\ ~Owns(o.on)
    BY DEF Permitted
  <1>7. o.kind = "delete_account" => /\ at[r] = 6 => new = Need(o, "metadata_rows")
                                     /\ at[r] = 5 => new = Need(o, "hold_rows")
    BY Programs DEF Statement
  <1>8. ~(o.kind = "prune" /\ at'[r] > 2)
    <2>1. o.kind = "prune" => at[r] = 1 \/ at[r] = 2
      <3> DEFINE n == Len(Steps(o))
      <3>1. o.kind = "prune" => n = 2
        BY Programs
      <3>2. at[r] \in 1 .. 7 /\ at[r] <= n
        BY <1>3
      <3> HIDE DEF n
      <3>3. QED
        BY <3>1, <3>2
    <2>2. o.kind = "prune" /\ at[r] = 2 => Statement(r) = "choose"
      BY Programs DEF Statement
    <2>3. QED
      BY <1>1, <2>1, <2>2 DEF Execute
  <1>9. \A n \in 1 .. 7 : at'[r] > n <=> at[r] > n \/ at[r] = n
    BY <1>1, <1>3
  <1>10. /\ o.kind = "place" /\ at'[r] > 3 => o.on \in live \cup accounts
         /\ o.kind = "add" /\ at'[r] > 3 => o.on \in live
         /\ o.kind = "remove" /\ at'[r] > 2 => o.on \in live
         /\ o.kind = "delete_workspace" /\ at'[r] > 3 => ~Held(o.on)
         /\ o.kind = "delete_account" /\ at'[r] > 3 => ~Held(o.on) /\ ~Owns(o.on)
    BY <1>3, <1>5, <1>6, <1>9 DEF ReadsHold, ReadsOf
  <1>11. /\ o.kind = "delete_account" /\ at'[r] > 6 =>
              \A e \in events : e.about = o.on => Has(r, <<"event", e.id>>)'
         /\ o.kind = "delete_account" /\ at'[r] > 5 =>
              \A h \in holds : h.target = o.on => Has(r, <<"hold", h.id>>)'
    <2> HIDE DEF new
    <2> QED
      BY <1>3, <1>4, <1>7, <1>9, DeletionNeeds DEF ReadsHold, ReadsOf
  <1>12. ASSUME NEW s \in Request, s # r, Running(s)'
         PROVE  Running(s) /\ at'[s] = at[s] /\ op'[s] = op[s] /\ \A x : Has(s, x)' <=> Has(s, x)
    BY <1>1, <1>12 DEF Running, Has
  <1>13. ReadsHold'
    BY <1>1, <1>8, <1>10, <1>11, <1>12 DEF ReadsHold, ReadsOf, tables, Held, Owns, Covers
  <1>14. QED
    BY <1>2, <1>13

\* The events chosen for pruning are not tombstones and nothing holds them.
LEMMA ChooseReads ==
  ASSUME IInv, NEW r \in Request, Choose(r)
  PROVE  ReadsHold' /\ IdsAreDone'
  <1> USE DEF IInv
  <1>1. PICK old \in SUBSET {e \in events : Prunable(e)} :
          locks' = [locks EXCEPT ![r] = @ \cup {Exclusive(<<"event", e.id>>) : e \in old}]
    BY DEF Choose
  <1>2. op[r].kind = "prune" /\ at[r] = 2 /\ Running(r)
    BY ChooseAt, Advance DEF Choose
  <1>3. locks[r] = {Exclusive(<<"retention">>)}
    BY <1>2 DEF Control, LocksTaken
  <1>4. /\ locks'[r] = locks[r] \cup {Exclusive(<<"event", e.id>>) : e \in old}
        /\ at' = [at EXCEPT ![r] = @ + 1]
        /\ \A s \in Request \ {r} : locks'[s] = locks[s] /\ at'[s] = at[s]
        /\ UNCHANGED <<tables, pc, op>>
    BY <1>1 DEF Choose, Control, ControlTyped
  <1>5. ASSUME NEW x, Has(r, <<"event", x>>)' PROVE \E e \in old : e.id = x
    <2>1. Exclusive(<<"event", x>>) \in locks'[r]
      BY <1>5 DEF Has
    <2>2. Exclusive(<<"event", x>>) # Exclusive(<<"retention">>)
      BY DEF Exclusive
    <2>3. PICK e \in old : Exclusive(<<"event", x>>) = Exclusive(<<"event", e.id>>)
      BY <1>3, <1>4, <2>1, <2>2
    <2>4. QED
      BY <2>3 DEF Exclusive
  <1>6. IdsAreDone'
    BY <1>1, <1>4, <1>5 DEF IdsAreDone, tables, Has
  <1>7. ASSUME NEW e \in events, Has(r, <<"event", e.id>>)'
        PROVE  ~e.tombstone /\ \A h \in holds : ~Covers(h, e)
    <2>1. PICK f \in old : f.id = e.id
      BY <1>5, <1>7
    <2>2. f = e
      BY <1>1, <2>1 DEF IdsAreDone
    <2>3. QED
      BY <1>1, <2>2 DEF Prunable
  <1>8. ASSUME NEW s \in Request, s # r, Running(s)'
        PROVE  Running(s) /\ at'[s] = at[s] /\ op'[s] = op[s] /\ \A x : Has(s, x)' <=> Has(s, x)
    BY <1>4, <1>8 DEF Running, Has
  <1>9. ReadsHold'
    BY <1>2, <1>4, <1>7, <1>8 DEF ReadsHold, ReadsOf, tables, Held, Owns, Covers
  <1>10. QED
    BY <1>6, <1>9
-------------------------------------------------------------------------------
(* Commits.                                                                *)

\* The fields of a hold that is released.
LEMMA Released ==
  ASSUME NEW h \in Hold, NEW by \in Account
  PROVE  LET g == [h EXCEPT !.active = FALSE, !.releasedBy = by]
         IN g \in Hold /\ g.id = h.id /\ g.target = h.target /\ ~g.active
  BY DEF Hold

\* The fields of an event that forgets an account.
LEMMA Forgotten ==
  ASSUME NEW e \in Event, NEW gone
  PROVE  [e EXCEPT !.actor = Unless(@, gone), !.about = Unless(@, gone)]
           = [id |-> e.id, tombstone |-> e.tombstone, ws |-> e.ws,
              actor |-> Unless(e.actor, gone), about |-> Unless(e.about, gone)]
  <1> DEFINE f == [e EXCEPT !.actor = Unless(@, gone)]
  <1>1. f = [id |-> e.id, tombstone |-> e.tombstone, ws |-> e.ws,
             actor |-> Unless(e.actor, gone), about |-> e.about]
    BY DEF Event
  <1>2. [e EXCEPT !.actor = Unless(@, gone), !.about = Unless(@, gone)]
          = [f EXCEPT !.about = Unless(@, gone)]
    OBVIOUS
  <1> HIDE DEF f
  <1>3. QED
    BY <1>1, <1>2

\* The fields of a hold that forgets an account.
LEMMA Anonymized ==
  ASSUME NEW h \in Hold, NEW gone
  PROVE  [h EXCEPT !.placedBy = Unless(@, gone), !.releasedBy = Unless(@, gone),
                   !.target = IF h.active THEN @ ELSE Unless(@, gone)]
           = [id |-> h.id, active |-> h.active,
              target |-> IF h.active THEN h.target ELSE Unless(h.target, gone),
              placedBy |-> Unless(h.placedBy, gone),
              releasedBy |-> Unless(h.releasedBy, gone)]
  <1> DEFINE f == [h EXCEPT !.placedBy = Unless(@, gone)]
             g == [f EXCEPT !.releasedBy = Unless(@, gone)]
  <1>1. f = [id |-> h.id, active |-> h.active, target |-> h.target,
             placedBy |-> Unless(h.placedBy, gone), releasedBy |-> h.releasedBy]
    BY DEF Hold
  <1>2. [h EXCEPT !.placedBy = Unless(@, gone), !.releasedBy = Unless(@, gone),
                  !.target = IF h.active THEN @ ELSE Unless(@, gone)]
          = [g EXCEPT !.target = IF h.active THEN @ ELSE Unless(@, gone)]
    OBVIOUS
  <1> HIDE DEF f
  <1>3. g = [id |-> h.id, active |-> h.active, target |-> h.target,
             placedBy |-> Unless(h.placedBy, gone), releasedBy |-> Unless(h.releasedBy, gone)]
    BY <1>1
  <1> HIDE DEF g
  <1>4. QED
    BY <1>2, <1>3

\* A request past a statement is past those before it.
LEMMA Later ==
  ASSUME ControlTyped, NEW s \in Request
  PROVE  /\ at[s] > 2 => at[s] > 1
         /\ at[s] > 3 => at[s] > 2
         /\ at[s] > 4 => at[s] > 3
         /\ at[s] > 5 => at[s] > 4
         /\ at[s] > 6 => at[s] > 5
  BY DEF ControlTyped

\* The end of a transaction leaves the others as they were.
LEMMA Others ==
  ASSUME ControlTyped, NEW r \in Request, Running(r), Ends(r)
  PROVE  /\ \A s \in Request : Running(s)' =>
              /\ s # r /\ Running(s) /\ op'[s] = op[s] /\ at'[s] = at[s]
              /\ \A x : Has(s, x)' <=> Has(s, x)
         /\ \A s \in Request : \A x : Has(s, x)' => Has(s, x)
         /\ pc[r] # "done" /\ pc'[r] = "done"
         /\ \A s \in Request : pc[s] = "done" => pc'[s] = "done"
  <1>1. /\ locks'[r] = {} /\ pc'[r] = "done" /\ pc[r] = "running"
        /\ \A s \in Request \ {r} :
             locks'[s] = locks[s] /\ pc'[s] = pc[s] /\ op'[s] = op[s] /\ at'[s] = at[s]
    BY DEF Ends, ControlTyped, Running
  <1>2. ASSUME NEW s \in Request, Running(s)'
        PROVE  s # r /\ Running(s) /\ op'[s] = op[s] /\ at'[s] = at[s] /\ locks'[s] = locks[s]
    BY <1>1, <1>2 DEF Running
  <1>3. \A s \in Request : \A x : Has(s, x)' => Has(s, x)
    BY <1>1 DEF Has
  <1>4. QED
    BY <1>1, <1>2, <1>3 DEF Has

\* A transaction that ends adds at most one event, with an id that no event has.
LEMMA IdsKept ==
  ASSUME IInv, NEW r \in Request, Running(r), Ends(r), NEW t, t.id = r,
         \A f \in events' : f = t \/ \E e \in events : e.id = f.id,
         \A e, f \in events' \ {t} : e.id = f.id => e = f
  PROVE  IdsAreDone'
  <1>1. /\ \A s \in Request : \A x : Has(s, x)' => Has(s, x)
        /\ pc[r] # "done" /\ pc'[r] = "done"
        /\ \A s \in Request : pc[s] = "done" => pc'[s] = "done"
    BY Others DEF IInv, Control
  <1>2. \A e \in events : e.id \in Request /\ pc[e.id] = "done"
    BY DEF IInv, IdsAreDone, TypeOK, Event
  <1>3. \A e, f \in events' : e.id = f.id => e = f
    BY <1>1, <1>2 DEF IInv, IdsAreDone
  <1>4. \A e \in events' : pc'[e.id] = "done"
    BY <1>1, <1>2
  <1>5. QED
    BY <1>1, <1>3, <1>4 DEF IInv, IdsAreDone

\* A transaction that makes no owner but that of the workspace it creates.
LEMMA EndSpares ==
  ASSUME IInv, NEW r \in Request, Running(r), Ends(r), UNCHANGED issued,
         \A ws \in live' : ws \in live \/ (op[r].kind = "create" /\ ws = op[r].on),
         \A m \in members' : \/ m \in members \/ m.role # "owner"
                             \/ op[r].kind = "create" /\ m.ws = op[r].on
  PROVE  RemovalsSpareOwners'
  <1> USE DEF IInv
  <1>1. ASSUME NEW s \in Request, Running(s)' PROVE s # r /\ Running(s) /\ op'[s] = op[s]
    BY <1>1, Others DEF Control
  <1>2. ASSUME NEW s \in Request, Running(s)', op[s].kind \in {"create", "remove"}
        PROVE  op[r].kind = "create" => op[s].on # op[r].on
    BY <1>1, <1>2 DEF RemovalsSpareOwners
  <1>3. ASSUME NEW s \in Request, Running(s)', op[s].kind = "create"
        PROVE  /\ op[s].on \notin live'
               /\ \A q \in Request \ {s} :
                    Running(q)' /\ op[q].kind \in {"create", "remove"} => op[q].on # op[s].on
    BY <1>1, <1>2, <1>3 DEF RemovalsSpareOwners
  <1>4. ASSUME NEW s \in Request, Running(s)', op[s].kind = "remove"
        PROVE  /\ op[s].on \in issued'
               /\ \A m \in members' :
                    m.ws = op[s].on /\ m.account = op[s].account => m.role # "owner"
    BY <1>1, <1>2, <1>4 DEF RemovalsSpareOwners
  <1>5. QED
    BY <1>1, <1>3, <1>4 DEF RemovalsSpareOwners

\* The reads of others remain true when a transaction ends without writing.
LEMMA AbortInv ==
  ASSUME IInv, NEW r \in Request, Abort(r)
  PROVE  IInv'
  <1> USE DEF IInv
  <1>1. Running(r) /\ Ends(r) /\ UNCHANGED <<tables, issued, erased>>
    BY DEF Abort
  <1>2. Control'
    BY <1>1, EndsControl DEF Control, ControlTyped
  <1>3. /\ \A s \in Request : Running(s)' =>
              /\ s # r /\ Running(s) /\ op'[s] = op[s] /\ at'[s] = at[s]
              /\ \A x : Has(s, x)' <=> Has(s, x)
        /\ \A s \in Request : \A x : Has(s, x)' => Has(s, x)
        /\ \A s \in Request : pc[s] = "done" => pc'[s] = "done"
    BY <1>1, Others DEF Control
  <1>4. TypeOK'
    BY <1>1, <1>2 DEF TypeOK, Control, ControlTyped, tables
  <1>5. IdsAreDone'
    BY <1>1, <1>3 DEF IdsAreDone, tables, TypeOK, Event
  <1>6. ReadsHold'
    BY <1>1, <1>3 DEF ReadsHold, ReadsOf, tables, Held, Owns, Covers
  <1>7. HoldTargetsExist' /\ OwnersKept'
    BY <1>1 DEF HoldTargetsExist, OwnersKept, tables
  <1>8. RemovalsSpareOwners'
    BY <1>1, EndSpares DEF tables
  <1>9. QED
    BY <1>2, <1>4, <1>5, <1>6, <1>7, <1>8

\* The lock of its target and the lock of retention protect what others have read
\* from a new hold.
LEMMA CreateLegalHoldInv ==
  ASSUME IInv, NEW r \in Request, CreateLegalHold(r)
  PROVE  IInv'
  <1> USE DEF IInv
  <1> DEFINE o == op[r]
             t == Tombstone(r, o.by, o.on)
             hold == [id |-> r, target |-> o.on, active |-> TRUE,
                      placedBy |-> o.by, releasedBy |-> Nobody]
  <1>1. /\ Running(r) /\ Ends(r) /\ o.kind = "place" /\ at[r] = 4
        /\ holds' = holds \cup {hold} /\ events' = events \cup {t}
        /\ UNCHANGED <<live, accounts, members, issued, erased>>
    BY AtCommit DEF CreateLegalHold, Commits
  <1>2. Control'
    BY <1>1, EndsControl DEF Control, ControlTyped
  <1>3. /\ \A s \in Request : Running(s)' =>
              /\ s # r /\ Running(s) /\ op'[s] = op[s] /\ at'[s] = at[s]
              /\ \A x : Has(s, x)' <=> Has(s, x)
        /\ pc[r] # "done"
    BY <1>1, Others DEF Control
  <1>4. /\ Has(r, <<"retention">>) /\ Has(r, <<"target", o.on>>)
        /\ o.on \in live \cup accounts /\ o.by \in Account /\ o.on \in Target
    <2>1. at[r] > 1 /\ at[r] > 2 /\ at[r] > 3
      BY <1>1
    <2>2. Has(r, <<"retention">>) /\ Has(r, <<"target", o.on>>)
      BY <1>1, <2>1 DEF Control, LocksTaken
    <2>3. QED
      BY <1>1, <2>1, <2>2 DEF Control, OpsAreAsked, ReadsHold, ReadsOf
  <1>5. TypeOK'
    <2>1. hold \in Hold /\ t \in Event /\ t.ws = Nobody
      BY <1>4 DEF Hold, Event, Tombstone
    <2>2. QED
      BY <1>1, <1>2, <2>1 DEF TypeOK, Control, ControlTyped
  <1>6. IdsAreDone'
    <2>1. t.id = r
      BY DEF Tombstone
    <2> HIDE DEF t
    <2>2. QED
      BY <1>1, <2>1, IdsKept DEF IdsAreDone
  <1>7. ASSUME NEW s \in Request, Running(s)'
        PROVE  /\ op[s].kind \in {"delete_account", "delete_workspace"} /\ at[s] > 2
                    => op[s].on # o.on
               /\ ~(op[s].kind = "prune" /\ at[s] > 1)
    <2>1. s # r /\ Running(s)
      BY <1>3, <1>7
    <2>2. /\ op[s].kind \in {"delete_account", "delete_workspace"} /\ at[s] > 2
               => Has(s, <<"target", op[s].on>>)
          /\ op[s].kind = "prune" /\ at[s] > 1 => Has(s, <<"retention">>)
      BY <2>1 DEF Control, LocksTaken
    <2>3. QED
      BY <1>4, <2>1, <2>2, Exclusion DEF Control
  <1>8. ReadsHold'
    <2>1. \A s \in Request : \A e : e = t => ~Has(s, <<"event", e.id>>)
      BY <1>3 DEF IdsAreDone, Tombstone
    <2>2. t.about = o.on /\ hold.target = o.on
      BY DEF Tombstone
    <2> HIDE DEF t, hold
    <2> SUFFICES ASSUME NEW s \in Request, Running(s)'
                 PROVE  ReadsOf(s)'
      BY DEF ReadsHold
    <2>3. ReadsOf(s) /\ op'[s] = op[s] /\ at'[s] = at[s]
          /\ (\A x : Has(s, x)' <=> Has(s, x))
      BY <1>3 DEF ReadsHold
    <2>4. QED
      BY <1>1, <1>7, <2>1, <2>2, <2>3, Later DEF Control, ReadsOf, Held, Owns
  <1>9. HoldTargetsExist' /\ OwnersKept'
    <2>1. t.about = o.on /\ hold.target = o.on /\ (o.on \in Account => o.on \in accounts)
      BY <1>4 DEF Tombstone, TypeOK
    <2>2. QED
      BY <1>1, <1>4, <2>1 DEF HoldTargetsExist, OwnersKept
  <1>10. RemovalsSpareOwners'
    BY <1>1, EndSpares
  <1>11. QED
    BY <1>2, <1>5, <1>6, <1>8, <1>9, <1>10

\* A hold that is released covers less.
LEMMA ReleaseLegalHoldInv ==
  ASSUME IInv, NEW r \in Request, ReleaseLegalHold(r)
  PROVE  IInv'
  <1> USE DEF IInv
  <1> DEFINE o == op[r]
             t == Tombstone(r, o.by, Nobody)
             Image(h) == IF h.id = o.hold
                         THEN [h EXCEPT !.active = FALSE, !.releasedBy = o.by]
                         ELSE h
  <1>1. /\ Running(r) /\ Ends(r) /\ o.kind = "release"
        /\ holds' = {Image(h) : h \in holds} /\ events' = events \cup {t}
        /\ UNCHANGED <<live, accounts, members, issued, erased>>
    BY DEF ReleaseLegalHold, Commits
  <1>2. Control'
    BY <1>1, EndsControl DEF Control, ControlTyped
  <1>3. /\ \A s \in Request : Running(s)' =>
              /\ s # r /\ Running(s) /\ op'[s] = op[s] /\ at'[s] = at[s]
              /\ \A x : Has(s, x)' <=> Has(s, x)
        /\ pc[r] # "done"
    BY <1>1, Others DEF Control
  <1>4. o.by \in Account
    BY <1>1 DEF Control, OpsAreAsked
  <1>5. ASSUME NEW h \in holds
        PROVE  /\ Image(h) \in Hold /\ Image(h).id = h.id
               /\ Image(h).target = h.target /\ (Image(h).active => h.active)
    <2>1. h \in Hold
      BY DEF TypeOK
    <2>2. QED
      BY <1>4, <2>1, Released
  <1>6. t \in Event /\ t.ws = Nobody /\ t.about = Nobody /\ t.id = r
    BY <1>4 DEF Event, Tombstone
  <1> HIDE DEF Image, t
  <1>7. TypeOK'
    BY <1>1, <1>2, <1>5, <1>6 DEF TypeOK, Control, ControlTyped
  <1>8. IdsAreDone'
    BY <1>1, <1>6, IdsKept DEF IdsAreDone
  <1>9. ReadsHold'
    <2> SUFFICES ASSUME NEW s \in Request, Running(s)'
                 PROVE  ReadsOf(s)'
      BY DEF ReadsHold
    <2>1. ReadsOf(s) /\ op'[s] = op[s] /\ at'[s] = at[s] /\ (\A x : Has(s, x)' <=> Has(s, x))
          /\ OpsAreAsked /\ Running(s) /\ op[s] \in Op
      BY <1>3 DEF ReadsHold, Control, TypeOK
    <2>2. ~Has(s, <<"event", t.id>>)
      BY <1>3, <1>6 DEF IdsAreDone
    <2>3. op[s].kind = "delete_account" => op[s].on # Nobody
      BY <2>1 DEF OpsAreAsked
    <2>4. QED
      BY <1>1, <1>5, <1>6, <2>1, <2>2, <2>3 DEF ReadsOf, Held, Owns, Covers
  <1>10. HoldTargetsExist' /\ OwnersKept'
    BY <1>1, <1>5, <1>6 DEF HoldTargetsExist, OwnersKept
  <1>11. RemovalsSpareOwners'
    BY <1>1, EndSpares
  <1>12. QED
    BY <1>2, <1>7, <1>8, <1>9, <1>10, <1>11

\* Pruning only removes events.
LEMMA PruneAuditEventsInv ==
  ASSUME IInv, NEW r \in Request, PruneAuditEvents(r)
  PROVE  IInv'
  <1> USE DEF IInv
  <1>1. /\ Running(r) /\ Ends(r) /\ events' \subseteq events
        /\ UNCHANGED <<live, accounts, members, holds, issued, erased>>
    BY DEF PruneAuditEvents, Commits
  <1>2. Control'
    BY <1>1, EndsControl DEF Control, ControlTyped
  <1>3. /\ \A s \in Request : Running(s)' =>
              /\ s # r /\ Running(s) /\ op'[s] = op[s] /\ at'[s] = at[s]
              /\ \A x : Has(s, x)' <=> Has(s, x)
        /\ \A s \in Request : \A x : Has(s, x)' => Has(s, x)
        /\ \A s \in Request : pc[s] = "done" => pc'[s] = "done"
    BY <1>1, Others DEF Control
  <1>4. TypeOK'
    BY <1>1, <1>2 DEF TypeOK, Control, ControlTyped
  <1>5. IdsAreDone'
    BY <1>1, <1>3 DEF IdsAreDone, TypeOK, Event
  <1>6. ReadsHold'
    <2> SUFFICES ASSUME NEW s \in Request, Running(s)'
                 PROVE  ReadsOf(s)'
      BY DEF ReadsHold
    <2>1. ReadsOf(s) /\ op'[s] = op[s] /\ at'[s] = at[s] /\ (\A x : Has(s, x)' <=> Has(s, x))
      BY <1>3 DEF ReadsHold
    <2>2. QED
      BY <1>1, <2>1 DEF ReadsOf, Held, Owns, Covers
  <1>7. HoldTargetsExist' /\ OwnersKept'
    BY <1>1 DEF HoldTargetsExist, OwnersKept
  <1>8. RemovalsSpareOwners'
    BY <1>1, EndSpares
  <1>9. QED
    BY <1>2, <1>4, <1>5, <1>6, <1>7, <1>8

\* A workspace and its owner appear together; the lock of the owner's account excludes
\* a deletion of that account which has read that it owns nothing.
LEMMA CreateWorkspaceInv ==
  ASSUME IInv, NEW r \in Request, CreateWorkspace(r)
  PROVE  IInv'
  <1> USE DEF IInv
  <1> DEFINE o == op[r]
             t == Record(r, o.on, Nobody)
             owner == [ws |-> o.on, account |-> o.by, role |-> "owner"]
  <1>1. /\ Running(r) /\ Ends(r) /\ o.kind = "create" /\ at[r] = 2
        /\ live' = live \cup {o.on} /\ accounts' = accounts \cup {o.by}
        /\ members' = members \cup {owner} /\ events' = events \cup {t}
        /\ UNCHANGED <<holds, issued, erased>>
    BY AtCommit DEF CreateWorkspace, Commits
  <1>2. Control'
    BY <1>1, EndsControl DEF Control, ControlTyped
  <1>3. /\ \A s \in Request : Running(s)' =>
              /\ s # r /\ Running(s) /\ op'[s] = op[s] /\ at'[s] = at[s]
              /\ \A x : Has(s, x)' <=> Has(s, x)
        /\ pc[r] # "done"
    BY <1>1, Others DEF Control
  <1>4. o.on \in issued /\ o.by \in Account /\ Has(r, <<"account", o.by>>)
    <2>1. o.on \in issued /\ o.by \in Account /\ o.account = o.by
      BY <1>1 DEF Control, OpsAreAsked
    <2>2. at[r] > 1
      BY <1>1
    <2>3. QED
      BY <1>1, <2>1, <2>2 DEF Control, LocksTaken
  <1>5. t \in Event /\ t.ws = o.on /\ t.about = Nobody /\ t.id = r
    BY <1>4 DEF Event, Record, TypeOK
  <1>6. owner.ws = o.on /\ owner.account = o.by /\ owner.role = "owner"
    OBVIOUS
  <1>7. members' \subseteq [ws : live', account : accounts', role : Roles]
    BY <1>1 DEF TypeOK, Roles
  <1> HIDE DEF t, owner
  <1>8. TypeOK'
    BY <1>1, <1>2, <1>4, <1>5, <1>7 DEF TypeOK, Control, ControlTyped
  <1>9. IdsAreDone'
    BY <1>1, <1>5, IdsKept DEF IdsAreDone
  <1>10. ReadsHold'
    <2> SUFFICES ASSUME NEW s \in Request, Running(s)'
                 PROVE  ReadsOf(s)'
      BY DEF ReadsHold
    <2>1. ReadsOf(s) /\ op'[s] = op[s] /\ at'[s] = at[s] /\ (\A x : Has(s, x)' <=> Has(s, x))
          /\ Running(s) /\ s # r
      BY <1>3 DEF ReadsHold
    <2>2. ~Has(s, <<"event", t.id>>)
      BY <1>3, <1>5 DEF IdsAreDone
    <2>3. op[s].kind = "delete_account" => op[s].on # Nobody
      BY <2>1 DEF OpsAreAsked, Control
    <2>4. op[s].kind = "delete_account" /\ at[s] > 3 => op[s].on # o.by
      <3>1. op[s].kind = "delete_account" /\ at[s] > 3 => Has(s, <<"account", op[s].on>>)
        BY <2>1, Later DEF Control, LocksTaken
      <3>2. QED
        BY <1>4, <2>1, <3>1, Exclusion DEF Control
    <2>5. QED
      BY <1>1, <1>5, <1>6, <2>1, <2>2, <2>3, <2>4, Later DEF Control, ReadsOf, Held, Owns
  <1>11. HoldTargetsExist' /\ OwnersKept'
    BY <1>1, <1>5, <1>6 DEF HoldTargetsExist, OwnersKept
  <1>12. RemovalsSpareOwners'
    BY <1>1, <1>6, EndSpares
  <1>13. QED
    BY <1>2, <1>8, <1>9, <1>10, <1>11, <1>12

\* A member is added to a workspace that is there, and is no owner.
LEMMA AddMemberInv ==
  ASSUME IInv, NEW r \in Request, AddMember(r)
  PROVE  IInv'
  <1> USE DEF IInv
  <1> DEFINE o == op[r]
             t == Record(r, o.on, Nobody)
  <1>1. PICK role \in Roles \ {"owner"} :
          members' = members \cup {[ws |-> o.on, account |-> o.account, role |-> role]}
    BY DEF AddMember
  <1> DEFINE m == [ws |-> o.on, account |-> o.account, role |-> role]
  <1>2. /\ Running(r) /\ Ends(r) /\ o.kind = "add" /\ at[r] = 4
        /\ accounts' = accounts \cup {o.account}
        /\ members' = members \cup {m} /\ events' = events \cup {t}
        /\ UNCHANGED <<live, holds, issued, erased>>
    BY <1>1, AtCommit DEF AddMember, Commits
  <1>3. Control'
    BY <1>2, EndsControl DEF Control, ControlTyped
  <1>4. /\ \A s \in Request : Running(s)' =>
              /\ s # r /\ Running(s) /\ op'[s] = op[s] /\ at'[s] = at[s]
              /\ \A x : Has(s, x)' <=> Has(s, x)
        /\ pc[r] # "done"
    BY <1>2, Others DEF Control
  <1>5. o.on \in live /\ o.by \in Account /\ o.account \in Account
    <2>1. at[r] > 3
      BY <1>2
    <2>2. QED
      BY <1>2, <2>1 DEF Control, OpsAreAsked, ReadsHold, ReadsOf
  <1>6. t \in Event /\ t.ws = o.on /\ t.about = Nobody /\ t.id = r
    BY <1>5 DEF Event, Record, TypeOK
  <1>7. m.role # "owner" /\ m \in [ws : live', account : accounts', role : Roles]
    BY <1>2, <1>5
  <1> HIDE DEF t, m
  <1>8. TypeOK'
    BY <1>2, <1>3, <1>5, <1>6, <1>7 DEF TypeOK, Control, ControlTyped
  <1>9. IdsAreDone'
    BY <1>2, <1>6, IdsKept DEF IdsAreDone
  <1>10. ReadsHold'
    <2> SUFFICES ASSUME NEW s \in Request, Running(s)'
                 PROVE  ReadsOf(s)'
      BY DEF ReadsHold
    <2>1. ReadsOf(s) /\ op'[s] = op[s] /\ at'[s] = at[s] /\ (\A x : Has(s, x)' <=> Has(s, x))
          /\ Running(s)
      BY <1>4 DEF ReadsHold
    <2>2. ~Has(s, <<"event", t.id>>)
      BY <1>4, <1>6 DEF IdsAreDone
    <2>3. op[s].kind = "delete_account" => op[s].on # Nobody
      BY <2>1 DEF OpsAreAsked, Control
    <2>4. QED
      BY <1>2, <1>6, <1>7, <2>1, <2>2, <2>3 DEF ReadsOf, Held, Owns
  <1>11. HoldTargetsExist' /\ OwnersKept'
    BY <1>2, <1>6 DEF HoldTargetsExist, OwnersKept
  <1>12. RemovalsSpareOwners'
    BY <1>2, <1>7, EndSpares
  <1>13. QED
    BY <1>3, <1>8, <1>9, <1>10, <1>11, <1>12

\* A removed member is no owner.
LEMMA RemoveMemberInv ==
  ASSUME IInv, NEW r \in Request, RemoveMember(r)
  PROVE  IInv'
  <1> USE DEF IInv
  <1> DEFINE o == op[r]
             t == Record(r, o.on, Nobody)
  <1>1. /\ Running(r) /\ Ends(r) /\ o.kind = "remove" /\ at[r] = 3
        /\ members' = members \ RowOf(o) /\ events' = events \cup {t}
        /\ UNCHANGED <<live, accounts, holds, issued, erased>>
    BY AtCommit DEF RemoveMember, Commits
  <1>2. Control'
    BY <1>1, EndsControl DEF Control, ControlTyped
  <1>3. /\ \A s \in Request : Running(s)' =>
              /\ s # r /\ Running(s) /\ op'[s] = op[s] /\ at'[s] = at[s]
              /\ \A x : Has(s, x)' <=> Has(s, x)
        /\ pc[r] # "done"
    BY <1>1, Others DEF Control
  <1>4. o.on \in live /\ o.by \in Account
    <2>1. at[r] > 2
      BY <1>1
    <2>2. QED
      BY <1>1, <2>1 DEF Control, OpsAreAsked, ReadsHold, ReadsOf
  <1>5. t \in Event /\ t.ws = o.on /\ t.about = Nobody /\ t.id = r
    BY <1>4 DEF Event, Record, TypeOK
  <1>6. \A m \in RowOf(o) : m.role # "owner"
    BY <1>1 DEF RowOf, RemovalsSpareOwners
  <1> HIDE DEF t
  <1>7. TypeOK'
    BY <1>1, <1>2, <1>4, <1>5 DEF TypeOK, Control, ControlTyped
  <1>8. IdsAreDone'
    BY <1>1, <1>5, IdsKept DEF IdsAreDone
  <1>9. ReadsHold'
    <2> SUFFICES ASSUME NEW s \in Request, Running(s)'
                 PROVE  ReadsOf(s)'
      BY DEF ReadsHold
    <2>1. ReadsOf(s) /\ op'[s] = op[s] /\ at'[s] = at[s] /\ (\A x : Has(s, x)' <=> Has(s, x))
          /\ Running(s)
      BY <1>3 DEF ReadsHold
    <2>2. ~Has(s, <<"event", t.id>>)
      BY <1>3, <1>5 DEF IdsAreDone
    <2>3. op[s].kind = "delete_account" => op[s].on # Nobody
      BY <2>1 DEF OpsAreAsked, Control
    <2>4. QED
      BY <1>1, <1>5, <2>1, <2>2, <2>3 DEF ReadsOf, Held, Owns
  <1>10. HoldTargetsExist' /\ OwnersKept'
    BY <1>1, <1>5, <1>6 DEF HoldTargetsExist, OwnersKept
  <1>11. RemovalsSpareOwners'
    BY <1>1, EndSpares
  <1>12. QED
    BY <1>2, <1>7, <1>8, <1>9, <1>10, <1>11

\* The events of a deleted workspace remain; no active hold names the workspace.
LEMMA DeleteWorkspaceInv ==
  ASSUME IInv, NEW r \in Request, DeleteWorkspace(r)
  PROVE  IInv'
  <1> USE DEF IInv
  <1> DEFINE o == op[r]
             t == Tombstone(r, o.by, Nobody)
             Image(e) == [e EXCEPT !.ws = Unless(@, o.on)]
  <1>1. /\ Running(r) /\ Ends(r) /\ o.kind = "delete_workspace" /\ at[r] = 7
        /\ live' = live \ {o.on} /\ members' = {m \in members : m.ws # o.on}
        /\ events' = {Image(e) : e \in events} \cup {t}
        /\ UNCHANGED <<accounts, holds, issued, erased>>
    BY AtCommit DEF DeleteWorkspace, Commits
  <1>2. Control'
    BY <1>1, EndsControl DEF Control, ControlTyped
  <1>3. /\ \A s \in Request : Running(s)' =>
              /\ s # r /\ Running(s) /\ op'[s] = op[s] /\ at'[s] = at[s]
              /\ \A x : Has(s, x)' <=> Has(s, x)
        /\ pc[r] # "done"
    BY <1>1, Others DEF Control
  <1>4. /\ o.on \in Workspace /\ o.by \in Account /\ ~Held(o.on)
        /\ Has(r, <<"target", o.on>>) /\ Has(r, <<"workspace", o.on>>)
    <2>1. at[r] > 2 /\ at[r] > 3 /\ at[r] > 4
      BY <1>1
    <2>2. Has(r, <<"target", o.on>>) /\ Has(r, <<"workspace", o.on>>)
      BY <1>1, <2>1 DEF Control, LocksTaken
    <2>3. QED
      BY <1>1, <2>1, <2>2 DEF Control, OpsAreAsked, ReadsHold, ReadsOf
  <1>5. ASSUME NEW e \in events
        PROVE  /\ Image(e) \in Event /\ Image(e).id = e.id /\ Image(e).about = e.about
               /\ Image(e).actor = e.actor /\ Image(e).tombstone = e.tombstone
               /\ Image(e).ws = Unless(e.ws, o.on) /\ Image(e).ws \in live' \cup {Nobody}
    <2>1. e \in Event /\ e.ws \in live \cup {Nobody}
      BY DEF TypeOK
    <2>2. Image(e) = [id |-> e.id, tombstone |-> e.tombstone, ws |-> Unless(e.ws, o.on),
                      actor |-> e.actor, about |-> e.about]
      BY <2>1 DEF Event
    <2>3. Unless(e.ws, o.on) \in Workspace \cup {Nobody}
      BY <2>1 DEF Event, Unless
    <2>4. QED
      BY <1>1, <2>1, <2>2, <2>3 DEF Event, Unless
  <1>6. t \in Event /\ t.ws = Nobody /\ t.about = Nobody /\ t.id = r
    BY <1>4 DEF Event, Tombstone
  <1> HIDE DEF Image, t
  <1>7. TypeOK'
    <2>1. members' \subseteq [ws : live', account : accounts', role : Roles]
      BY <1>1 DEF TypeOK
    <2>2. events' \subseteq Event /\ \A e \in events' : e.ws \in live' \cup {Nobody}
      BY <1>1, <1>5, <1>6
    <2>3. QED
      BY <1>1, <1>2, <2>1, <2>2 DEF TypeOK, Control, ControlTyped
  <1>8. IdsAreDone'
    <2>1. \A f \in events' : f = t \/ \E e \in events : e.id = f.id
      BY <1>1, <1>5
    <2>2. \A e, f \in events' \ {t} : e.id = f.id => e = f
      BY <1>1, <1>5 DEF IdsAreDone
    <2>3. QED
      BY <1>1, <1>6, <2>1, <2>2, IdsKept
  <1>9. ReadsHold'
    <2> SUFFICES ASSUME NEW s \in Request, Running(s)'
                 PROVE  ReadsOf(s)'
      BY DEF ReadsHold
    <2>1. ReadsOf(s) /\ op'[s] = op[s] /\ at'[s] = at[s] /\ (\A x : Has(s, x)' <=> Has(s, x))
          /\ Running(s) /\ s # r
      BY <1>3 DEF ReadsHold
    <2>2. ~Has(s, <<"event", t.id>>)
      BY <1>3, <1>6 DEF IdsAreDone
    <2>3. op[s].kind = "delete_account" => op[s].on # Nobody
      BY <2>1 DEF OpsAreAsked, Control
    <2>4. op[s].kind = "place" /\ at[s] > 3 => op[s].on # o.on
      <3>1. op[s].kind = "place" /\ at[s] > 3 => Has(s, <<"target", op[s].on>>)
        BY <2>1, Later DEF Control, LocksTaken
      <3>2. QED
        BY <1>4, <2>1, <3>1, Exclusion DEF Control
    <2>5. op[s].kind = "add" /\ at[s] > 3 => op[s].on # o.on
      <3>1. op[s].kind = "add" /\ at[s] > 3 => Shared(<<"workspace", op[s].on>>) \in locks[s]
        BY <2>1, Later DEF Control, LocksTaken
      <3>2. QED
        BY <1>4, <2>1, <3>1, Exclusion DEF Control
    <2>6. op[s].kind = "remove" /\ at[s] > 2 => op[s].on # o.on
      <3>1. op[s].kind = "remove" /\ at[s] > 2 => Shared(<<"workspace", op[s].on>>) \in locks[s]
        BY <2>1 DEF Control, LocksTaken
      <3>2. QED
        BY <1>4, <2>1, <3>1, Exclusion DEF Control
    <2>7. \A h \in holds : h.active => h.target # Nobody
      BY DEF HoldTargetsExist, TypeOK
    <2>8. \A h \in holds, e \in events : Covers(h, Image(e)) => Covers(h, e)
      BY <1>5, <2>7 DEF Covers, Unless
    <2>9. QED
      BY <1>1, <1>5, <1>6, <2>1, <2>2, <2>3, <2>4, <2>5, <2>8, <2>6 DEF ReadsOf, Held, Owns
  <1>10. HoldTargetsExist' /\ OwnersKept'
    BY <1>1, <1>4, <1>5, <1>6 DEF HoldTargetsExist, OwnersKept, Held
  <1>11. RemovalsSpareOwners'
    BY <1>1, EndSpares
  <1>12. QED
    BY <1>2, <1>7, <1>8, <1>9, <1>10, <1>11

\* A deleted account owns nothing, no active hold names it, and the rows that name it
\* are locked by its deletion.
LEMMA DeleteAccountInv ==
  ASSUME IInv, NEW r \in Request, DeleteAccount(r)
  PROVE  IInv'
  <1> USE DEF IInv
  <1> DEFINE o == op[r]
             gone == o.on
             t == Tombstone(r, Nobody, Nobody)
             Forget(e) == [e EXCEPT !.actor = Unless(@, gone), !.about = Unless(@, gone)]
             Anonymize(h) == [h EXCEPT !.placedBy = Unless(@, gone),
                                       !.releasedBy = Unless(@, gone),
                                       !.target = IF h.active THEN @ ELSE Unless(@, gone)]
             Image(e) == IF Has(r, <<"event", e.id>>) THEN Forget(e) ELSE e
             HoldImage(h) == IF Has(r, <<"hold", h.id>>) THEN Anonymize(h) ELSE h
  <1>1. /\ Running(r) /\ Ends(r) /\ o.kind = "delete_account" /\ at[r] = 8
        /\ accounts' = accounts \ {gone} /\ members' = {m \in members : m.account # gone}
        /\ events' = {Image(e) : e \in events} \cup {t}
        /\ holds' = {HoldImage(h) : h \in holds}
        /\ erased' = erased \cup {gone}
        /\ UNCHANGED <<live, issued>>
    BY AtCommit DEF DeleteAccount, Commits
  <1>2. gone \in Account
    BY <1>1 DEF Control, OpsAreAsked
  <1>3. Control'
    <2>1. erased' \subseteq Account
      BY <1>1, <1>2 DEF Control, ControlTyped
    <2>2. QED
      BY <1>1, <2>1, EndsControl DEF Control
  <1>4. /\ \A s \in Request : Running(s)' =>
              /\ s # r /\ Running(s) /\ op'[s] = op[s] /\ at'[s] = at[s]
              /\ \A x : Has(s, x)' <=> Has(s, x)
        /\ pc[r] # "done"
    BY <1>1, Others DEF Control
  <1>5. /\ ~Held(gone) /\ ~Owns(gone) /\ Has(r, <<"target", gone>>)
        /\ \A e \in events : e.about = gone => Has(r, <<"event", e.id>>)
        /\ \A h \in holds : h.target = gone => Has(r, <<"hold", h.id>>)
    <2>0. at[r] = 8
      BY <1>1
    <2>1. at[r] > 2 /\ at[r] > 3 /\ at[r] > 5 /\ at[r] > 6
      BY <2>0
    <2>2. Has(r, <<"target", gone>>)
      BY <1>1, <2>1 DEF Control, LocksTaken
    <2>3. QED
      BY <1>1, <2>1, <2>2 DEF ReadsHold, ReadsOf
  <1>6. ASSUME NEW e \in events
        PROVE  /\ Image(e) \in Event /\ Image(e).id = e.id /\ Image(e).ws = e.ws
               /\ Image(e).tombstone = e.tombstone
               /\ Image(e).about = Unless(e.about, gone)
               /\ Image(e).actor \in {e.actor, Unless(e.actor, gone)}
    <2>1. e \in Event
      BY DEF TypeOK
    <2>2. Forget(e) = [id |-> e.id, tombstone |-> e.tombstone, ws |-> e.ws,
                       actor |-> Unless(e.actor, gone), about |-> Unless(e.about, gone)]
      BY <2>1, Forgotten
    <2>3. /\ Unless(e.actor, gone) \in Account \cup {Nobody}
          /\ Unless(e.about, gone) \in Target \cup {Nobody}
      BY <2>1 DEF Event, Unless
    <2>4. ~Has(r, <<"event", e.id>>) => e.about = Unless(e.about, gone)
      BY <1>5 DEF Unless
    <2>5. Forget(e) \in Event
      BY <2>1, <2>2, <2>3 DEF Event
    <2>6. QED
      BY <2>1, <2>2, <2>4, <2>5
  <1>7. ASSUME NEW h \in holds
        PROVE  /\ HoldImage(h) \in Hold /\ HoldImage(h).id = h.id
               /\ HoldImage(h).active = h.active
               /\ HoldImage(h).target = Unless(h.target, gone)
    <2>1. h \in Hold
      BY DEF TypeOK
    <2>2. Anonymize(h) = [id |-> h.id, active |-> h.active,
                          target |-> IF h.active THEN h.target ELSE Unless(h.target, gone),
                          placedBy |-> Unless(h.placedBy, gone),
                          releasedBy |-> Unless(h.releasedBy, gone)]
      BY <2>1, Anonymized
    <2>3. /\ Unless(h.placedBy, gone) \in Account \cup {Nobody}
          /\ Unless(h.releasedBy, gone) \in Account \cup {Nobody}
          /\ Unless(h.target, gone) \in Target \cup {Nobody}
      BY <2>1 DEF Hold, Unless
    <2>4. ~Has(r, <<"hold", h.id>>) \/ h.active => h.target = Unless(h.target, gone)
      BY <1>5 DEF Unless, Held
    <2>5. Anonymize(h) \in Hold
      BY <2>1, <2>2, <2>3 DEF Hold
    <2>6. QED
      BY <2>1, <2>2, <2>4, <2>5
  <1>8. t \in Event /\ t.ws = Nobody /\ t.about = Nobody /\ t.id = r
    BY DEF Event, Tombstone
  <1> HIDE DEF Image, HoldImage, t
  <1>9. TypeOK'
    <2>1. members' \subseteq [ws : live', account : accounts', role : Roles]
      BY <1>1 DEF TypeOK
    <2>2. events' \subseteq Event /\ \A e \in events' : e.ws \in live' \cup {Nobody}
      BY <1>1, <1>6, <1>8 DEF TypeOK
    <2>3. holds' \subseteq Hold
      BY <1>1, <1>7
    <2>4. QED
      BY <1>1, <1>3, <2>1, <2>2, <2>3 DEF TypeOK, Control, ControlTyped
  <1>10. IdsAreDone'
    <2>1. \A f \in events' : f = t \/ \E e \in events : e.id = f.id
      BY <1>1, <1>6
    <2>2. \A e, f \in events' \ {t} : e.id = f.id => e = f
      BY <1>1, <1>6 DEF IdsAreDone
    <2>3. QED
      BY <1>1, <1>8, <2>1, <2>2, IdsKept
  <1>11. ReadsHold'
    <2> SUFFICES ASSUME NEW s \in Request, Running(s)'
                 PROVE  ReadsOf(s)'
      BY DEF ReadsHold
    <2>1. ReadsOf(s) /\ op'[s] = op[s] /\ at'[s] = at[s] /\ (\A x : Has(s, x)' <=> Has(s, x))
          /\ Running(s) /\ s # r
      BY <1>4 DEF ReadsHold
    <2>2. ~Has(s, <<"event", t.id>>)
      BY <1>4, <1>8 DEF IdsAreDone
    <2>3. op[s].kind \in {"delete_account", "delete_workspace"} => op[s].on # Nobody
      BY <2>1 DEF OpsAreAsked, Control
    <2>4. op[s].kind = "place" /\ at[s] > 3 => op[s].on # gone
      <3>1. op[s].kind = "place" /\ at[s] > 3 => Has(s, <<"target", op[s].on>>)
        BY <2>1, Later DEF Control, LocksTaken
      <3>2. QED
        BY <1>5, <2>1, <3>1, Exclusion DEF Control
    <2>5. \A h \in holds : /\ h.active => h.target # Nobody /\ h.target # gone
                           /\ h.active => HoldImage(h).target = h.target
      BY <1>5, <1>7 DEF HoldTargetsExist, TypeOK, Held, Unless
    <2>6. \A h \in holds, e \in events : Covers(HoldImage(h), Image(e)) => Covers(h, e)
      BY <1>6, <1>7, <2>5 DEF Covers, Unless
    <2>7. \A x \in Target : (Held(x))' => Held(x)
      BY <1>1, <1>7, <2>5 DEF Held
    <2>8. op[s].kind \in {"delete_account", "delete_workspace"} => op[s].on \in Target
      BY <2>1 DEF OpsAreAsked, Control, Target
    <2>9. (\A e \in events : Image(e).about = op[s].on /\ op[s].on # Nobody => e.about = op[s].on)
          /\ (\A h \in holds : HoldImage(h).target = op[s].on /\ op[s].on # Nobody
                => h.target = op[s].on)
      BY <1>6, <1>7 DEF Unless
    <2>10. QED
      BY <1>1, <1>6, <1>7, <1>8, <2>1, <2>2, <2>3, <2>4, <2>6, <2>7, <2>8, <2>9
         DEF ReadsOf, Owns
  <1>12. HoldTargetsExist'
    <2>1. \A h \in holds : h.active => h.target # gone
      BY <1>5 DEF Held
    <2>2. Nobody \notin Account
      OBVIOUS
    <2>3. QED
      BY <1>1, <1>6, <1>7, <1>8, <2>1, <2>2 DEF HoldTargetsExist, Unless
  <1>13. OwnersKept'
    BY <1>1, <1>5 DEF OwnersKept, Owns
  <1>14. RemovalsSpareOwners'
    BY <1>1, EndSpares
  <1>15. QED
    BY <1>3, <1>9, <1>10, <1>11, <1>12, <1>13, <1>14

\* A request that begins creates a workspace no other has named, or removes a member
\* who is no owner of a workspace that exists.
LEMMA BeginSpares ==
  ASSUME IInv, NEW r \in Request, Begin(r)
  PROVE  RemovalsSpareOwners'
  <1> USE DEF IInv
  <1>1. PICK o \in Authorized :
          /\ op' = [op EXCEPT ![r] = o]
          /\ issued' = IF o.kind = "create" THEN issued \cup {o.on} ELSE issued
    BY DEF Begin
  <1>2. op'[r] = o /\ ~Running(r) /\ UNCHANGED <<live, members>> /\ issued \subseteq issued'
    BY <1>1 DEF Begin, Running, Control, ControlTyped, tables
  <1>3. ASSUME NEW s \in Request, s # r PROVE (Running(s)' <=> Running(s)) /\ op'[s] = op[s]
    BY <1>1, <1>3 DEF Begin, Running, Control, ControlTyped
  <1>4. /\ o.kind = "create" => o.on \notin issued /\ o.on \notin live
        /\ o.kind = "remove" =>
             /\ o.on \in live /\ o.on \in issued
             /\ \A m \in members : m.ws = o.on /\ m.account = o.account => m.role # "owner"
    BY AuthorizedMutations DEF TypeOK
  <1>5. ASSUME NEW s \in Request, s # r, Running(s), op[s].kind \in {"create", "remove"}
        PROVE  op[s].on \in issued
    BY <1>5 DEF Control, OpsAreAsked, RemovalsSpareOwners
  <1>6. ASSUME NEW s \in Request, s # r, Running(s), op[s].kind \in {"create", "remove"}
        PROVE  /\ o.kind = "create" => op[s].on # o.on
               /\ o.kind = "remove" /\ op[s].kind = "create" => op[s].on # o.on
    BY <1>4, <1>5, <1>6 DEF RemovalsSpareOwners
  <1>7. ASSUME NEW s \in Request, Running(s)', op'[s].kind = "create"
        PROVE  /\ op'[s].on \notin live
               /\ \A q \in Request \ {s} :
                    Running(q)' /\ op'[q].kind \in {"create", "remove"} => op'[q].on # op'[s].on
    BY <1>2, <1>3, <1>4, <1>6, <1>7 DEF RemovalsSpareOwners
  <1>8. ASSUME NEW s \in Request, Running(s)', op'[s].kind = "remove"
        PROVE  /\ op'[s].on \in issued'
               /\ \A m \in members :
                    m.ws = op'[s].on /\ m.account = op'[s].account => m.role # "owner"
    BY <1>2, <1>3, <1>4, <1>8 DEF RemovalsSpareOwners
  <1>9. QED
    BY <1>2, <1>7, <1>8 DEF RemovalsSpareOwners

\* A statement of a transaction in progress changes no table.
LEMMA ProgressInv ==
  ASSUME IInv, NEW r \in Request, Begin(r) \/ Execute(r) \/ Choose(r)
  PROVE  IInv'
  <1> USE DEF IInv
  <1>1. UNCHANGED tables /\ issued \subseteq issued'
    BY DEF Begin, Execute, Choose
  <1>2. Control' /\ ReadsHold' /\ IdsAreDone'
    BY BeginControl, ExecuteControl, ChooseControl, BeginReads, ExecuteReads, ChooseReads
  <1>3. TypeOK'
    BY <1>1, <1>2 DEF TypeOK, Control, ControlTyped, tables
  <1>4. HoldTargetsExist' /\ OwnersKept'
    BY <1>1 DEF HoldTargetsExist, OwnersKept, tables
  <1>5. RemovalsSpareOwners'
    <2>1. CASE Execute(r) \/ Choose(r)
      BY <2>1 DEF RemovalsSpareOwners, Execute, Choose, Running, tables
    <2>2. CASE Begin(r)
      BY <2>2, BeginSpares
    <2>3. QED
      BY <2>1, <2>2
  <1>6. QED
    BY <1>2, <1>3, <1>4, <1>5

-------------------------------------------------------------------------------
(* The theorems.                                                           *)

\* The initial tables are empty but for workspaces with their owners.
LEMMA InitInv == Init => IInv
  <1> SUFFICES ASSUME Init PROVE IInv
    OBVIOUS
  <1>1. /\ \A m \in members : m.ws \in live /\ m.account \in accounts /\ m.role \in Roles
                              /\ m \in Membership
        /\ live \subseteq Workspace /\ accounts \subseteq Account
    BY MembersAssumption DEF Init, Membership
  <1>2. members \subseteq [ws : live, account : accounts, role : Roles]
    BY <1>1 DEF Membership
  <1>3. \A r \in Request : ~Running(r) /\ op[r] = NoOp /\ locks[r] = {} /\ at[r] = 1
    BY DEF Init, Running
  <1>4. TypeOK
    <2>1. /\ pc \in [Request -> {"new", "running", "done"}]
          /\ op \in [Request -> Op \cup {NoOp}]
          /\ at \in [Request -> 1 .. 8]
      BY DEF Init
    <2>2. events = {} /\ holds = {} /\ erased = {} /\ issued = live
      BY DEF Init
    <2>3. QED
      BY <1>1, <1>2, <1>3, <2>1, <2>2 DEF TypeOK
  <1>5. Control
    BY <1>1, <1>3 DEF Init, Control, ControlTyped, OpsAreAsked, LocksExclude, LocksTaken
  <1>6. IdsAreDone /\ ReadsHold /\ HoldTargetsExist
    BY <1>3 DEF Init, IdsAreDone, Has, ReadsHold, HoldTargetsExist
  <1>7. OwnersKept /\ RemovalsSpareOwners
    BY <1>3, MembersAssumption DEF Init, OwnersKept, RemovalsSpareOwners
  <1>8. QED
    BY <1>4, <1>5, <1>6, <1>7 DEF IInv

\* The invariant is inductive.
LEMMA NextInv == IInv /\ [Next]_vars => IInv'
  <1> SUFFICES ASSUME IInv, [Next]_vars PROVE IInv'
    OBVIOUS
  <1>1. CASE UNCHANGED vars
    <2>1. UNCHANGED tables /\ UNCHANGED <<issued, pc, op, at, locks, erased>>
      BY <1>1 DEF vars, control
    <2>2. Control'
      <3>1. ControlTyped'
        BY <2>1 DEF IInv, Control, ControlTyped, Running
      <3>2. OpsAreAsked'
        BY <2>1 DEF IInv, Control, OpsAreAsked, Running
      <3>3. LocksExclude' /\ LocksTaken'
        BY <2>1 DEF IInv, Control, LocksExclude, LocksTaken, Running, Has
      <3>4. QED
        BY <3>1, <3>2, <3>3 DEF Control
    <2>3. TypeOK'
      BY <2>1, <2>2 DEF IInv, TypeOK, Control, ControlTyped, tables
    <2>4. IdsAreDone' /\ HoldTargetsExist' /\ OwnersKept'
      BY <2>1 DEF IInv, IdsAreDone, HoldTargetsExist, OwnersKept, tables, Has
    <2>5. ReadsHold'
      BY <2>1 DEF IInv, ReadsHold, ReadsOf, tables, Running, Has, Held, Owns, Covers
    <2>6. RemovalsSpareOwners'
      BY <2>1 DEF IInv, RemovalsSpareOwners, tables, Running
    <2>7. QED
      BY <2>2, <2>3, <2>4, <2>5, <2>6 DEF IInv
  <1>2. ASSUME NEW r \in Request, Step(r)
        PROVE  IInv'
    BY <1>2, ProgressInv, AbortInv, CreateLegalHoldInv, ReleaseLegalHoldInv,
       PruneAuditEventsInv, DeleteAccountInv, DeleteWorkspaceInv, CreateWorkspaceInv,
       AddMemberInv, RemoveMemberInv DEF Step
  <1>3. QED
    BY <1>1, <1>2 DEF Next

\* The inductive invariant holds in every behaviour.
THEOREM Invariance == Spec => []IInv
  BY InitInv, NextInv, PTL DEF Spec

\* Rows are well formed and their foreign keys name rows that exist, whatever the
\* order of the transactions.
THEOREM TypeCorrect == Spec => []TypeOK
  <1>1. IInv => TypeOK
    BY DEF IInv
  <1>2. QED
    BY Invariance, <1>1, PTL

\* What is under an active hold exists: a deletion and a new hold of its target do not
\* both succeed, for any number of concurrent requests.
THEOREM HoldsHaveTargets == Spec => []HoldTargetsExist
  <1>1. IInv => HoldTargetsExist
    BY DEF IInv
  <1>2. QED
    BY Invariance, <1>1, PTL

\* Every workspace has an owner, whatever accounts are deleted meanwhile.
THEOREM WorkspacesHaveOwners == Spec => []OwnersKept
  <1>1. IInv => OwnersKept
    BY DEF IInv
  <1>2. QED
    BY Invariance, <1>1, PTL

\* The two parts of HeldEventsKept, for one step.
HeldStep ==
  /\ \A h \in holds, e \in events :
       Covers(h, e) /\ (\E g \in holds' : g.id = h.id /\ g.active)
         => \E f \in events' : f.id = e.id /\ Covers(h, f)
  /\ \A e \in events : e.tombstone => \E f \in events' : f.id = e.id /\ f.tombstone

\* A step that keeps every event as it is, or adds to them, removes none.
LEMMA GrowKeeps ==
  ASSUME events \subseteq events'
  PROVE  HeldStep
  BY DEF HeldStep

\* What a pruning locked is not covered by a hold and is no tombstone.
LEMMA PruneKeeps ==
  ASSUME IInv, NEW r \in Request, PruneAuditEvents(r)
  PROVE  HeldStep
  <1>1. /\ Running(r) /\ op[r].kind = "prune" /\ at[r] = 3
        /\ events' = {e \in events : ~Has(r, <<"event", e.id>>)}
    BY AtCommit DEF PruneAuditEvents, Commits, IInv
  <1>2. at[r] > 2
    BY <1>1
  <1>3. \A e \in events : Has(r, <<"event", e.id>>) =>
          ~e.tombstone /\ \A h \in holds : ~Covers(h, e)
    BY <1>1, <1>2 DEF IInv, ReadsHold, ReadsOf
  <1>4. QED
    BY <1>1, <1>3 DEF HeldStep

\* A deletion changes the events of a target that no active hold names.
LEMMA DeleteAccountKeeps ==
  ASSUME IInv, NEW r \in Request, DeleteAccount(r)
  PROVE  HeldStep
  <1> DEFINE gone == op[r].on
             Forget(e) == [e EXCEPT !.actor = Unless(@, gone), !.about = Unless(@, gone)]
             Image(e) == IF Has(r, <<"event", e.id>>) THEN Forget(e) ELSE e
  <1>1. /\ Running(r) /\ op[r].kind = "delete_account" /\ at[r] = 8
        /\ events' = {Image(e) : e \in events} \cup {Tombstone(r, Nobody, Nobody)}
    BY AtCommit DEF DeleteAccount, Commits, IInv
  <1>2. ~Held(gone)
    <2>1. at[r] = 8
      BY <1>1
    <2>2. at[r] > 3
      BY <2>1
    <2>3. QED
      BY <1>1, <2>2 DEF IInv, ReadsHold, ReadsOf
  <1>3. ASSUME NEW e \in events
        PROVE  /\ Image(e).id = e.id /\ Image(e).tombstone = e.tombstone /\ Image(e).ws = e.ws
               /\ Image(e).actor \in {e.actor, Unless(e.actor, gone)}
    <2>1. e \in Event
      BY DEF IInv, TypeOK
    <2>2. Forget(e) = [id |-> e.id, tombstone |-> e.tombstone, ws |-> e.ws,
                       actor |-> Unless(e.actor, gone), about |-> Unless(e.about, gone)]
      BY <2>1, Forgotten
    <2>3. QED
      BY <2>2
  <1> HIDE DEF Image
  <1>4. \A h \in holds, e \in events : Covers(h, e) => Covers(h, Image(e))
    BY <1>2, <1>3 DEF Covers, Held, Unless
  <1>5. \A e \in events : Image(e) \in events'
    BY <1>1
  <1>6. QED
    BY <1>3, <1>4, <1>5 DEF HeldStep

\* Likewise for a workspace.
LEMMA DeleteWorkspaceKeeps ==
  ASSUME IInv, NEW r \in Request, DeleteWorkspace(r)
  PROVE  HeldStep
  <1> DEFINE gone == op[r].on
             Image(e) == [e EXCEPT !.ws = Unless(@, gone)]
  <1>1. /\ Running(r) /\ op[r].kind = "delete_workspace" /\ at[r] = 7
        /\ events' = {Image(e) : e \in events} \cup {Tombstone(r, op[r].by, Nobody)}
    BY AtCommit DEF DeleteWorkspace, Commits, IInv
  <1>2. ~Held(gone)
    <2>1. at[r] = 7
      BY <1>1
    <2>2. at[r] > 3
      BY <2>1
    <2>3. QED
      BY <1>1, <2>2 DEF IInv, ReadsHold, ReadsOf
  <1>3. ASSUME NEW e \in events
        PROVE  /\ Image(e).id = e.id /\ Image(e).tombstone = e.tombstone
               /\ Image(e).actor = e.actor /\ Image(e).ws = Unless(e.ws, gone)
    <2>1. e \in Event
      BY DEF IInv, TypeOK
    <2>2. QED
      BY <2>1 DEF Event
  <1> HIDE DEF Image
  <1>4. \A h \in holds, e \in events : Covers(h, e) => Covers(h, Image(e))
    BY <1>2, <1>3 DEF Covers, Held, Unless
  <1>5. \A e \in events : Image(e) \in events'
    BY <1>1
  <1>6. QED
    BY <1>3, <1>4, <1>5 DEF HeldStep

\* While a hold is active no step removes an event it covers or takes it out of its
\* cover, and no step ever removes a tombstone.
THEOREM HeldEventsArePreserved == Spec => HeldEventsKept
  <1>1. ASSUME IInv, [Next]_vars
        PROVE  [HeldStep]_vars
    <2>1. CASE UNCHANGED vars
      BY <2>1
    <2>2. ASSUME NEW r \in Request, Step(r)
          PROVE  HeldStep
      <3>1. CASE Begin(r) \/ Execute(r) \/ Choose(r) \/ Abort(r)
        BY <3>1, GrowKeeps DEF Begin, Execute, Choose, Abort, tables
      <3>2. CASE \/ CreateLegalHold(r) \/ ReleaseLegalHold(r)
                 \/ CreateWorkspace(r) \/ AddMember(r) \/ RemoveMember(r)
        BY <3>2, GrowKeeps
           DEF CreateLegalHold, ReleaseLegalHold, CreateWorkspace, AddMember, RemoveMember
      <3>3. QED
        BY <1>1, <2>2, <3>1, <3>2, PruneKeeps, DeleteAccountKeeps, DeleteWorkspaceKeeps DEF Step
    <2>3. QED
      BY <1>1, <2>1, <2>2 DEF Next
  <1>2. IInv /\ [Next]_vars => [HeldStep]_vars
    BY <1>1
  <1>3. QED
    BY Invariance, <1>2, PTL DEF Spec, HeldEventsKept, HeldStep

-------------------------------------------------------------------------------
(* Waiting in a circle.                                                    *)

\* Holds have ids of their own, of requests that have ended.
HoldsAreDone ==
  /\ \A g, h \in holds : g.id = h.id => g = h
  /\ \A h \in holds : pc[h.id] = "done"

\* All that a request can hold when it may still have to wait for a deletion; and
\* the one target, and the one workspace, that a deletion locks.
FewLocks(r) ==
  /\ op[r].kind = "place" /\ at[r] \in 1 .. 2 => locks[r] \subseteq {Exclusive(<<"retention">>)}
  /\ op[r].kind = "release" /\ at[r] \in 1 .. 3 =>
       locks[r] \subseteq {Exclusive(<<"hold", op[r].hold>>)}
  /\ op[r].kind = "release" /\ at[r] \in 2 .. 4 => Has(r, <<"hold", op[r].hold>>)
  /\ op[r].kind = "add" /\ at[r] \in 1 .. 3 =>
       locks[r] \subseteq {Exclusive(<<"account", op[r].account>>)}
  /\ op[r].kind = "remove" /\ at[r] \in 1 .. 2 =>
       locks[r] \subseteq {Exclusive(<<"member", op[r].on, op[r].account>>)}
  /\ op[r].kind = "delete_account" =>
       \A l \in locks[r], x \in Target : l.object = <<"target", x>> => x = op[r].on
  /\ op[r].kind \in {"delete_account", "delete_workspace"} =>
       \A l \in locks[r], x \in Workspace : l.object = <<"workspace", x>> =>
         op[r].kind = "delete_workspace" /\ x = op[r].on

LocksAreFew == \A r \in Request : Running(r) => FewLocks(r)

\* The hold to release: unless another request has released it, it is active and its
\* target is the one that the release locks.  Past its check the hold is active.
Releases(r, h) ==
  /\ h.id = op[r].hold
  /\ h.active => h.target = op[r].on
  /\ at[r] \in 3 .. 4 => h.active

ReleasesFindHolds ==
  \A r \in Request :
    Running(r) /\ op[r].kind = "release" => \E h \in holds : Releases(r, h)

Waiting == HoldsAreDone /\ LocksAreFew /\ ReleasesFindHolds

\* What statements lock, object by object.
LEMMA NeedObjects ==
  ASSUME NEW o, NEW step, NEW l \in Need(o, step)
  PROVE  /\ l.object = <<"retention">> => step = "retention"
         /\ \A x : l.object = <<"account", x>> => step = "account"
         /\ \A x : l.object = <<"target", x>> => step = "target" /\ x = o.on
         /\ \A x : l.object = <<"hold", x>> =>
              step = "hold_row" \/ (step = "hold_rows" /\ \E h \in HoldRows(o) : h.id = x)
         /\ \A x : l.object = <<"workspace", x>> => step \in {"reference", "delete"} /\ x = o.on
  <1> USE DEF Exclusive, Shared
  <1>1. CASE step = "retention"
    BY <1>1 DEF Need
  <1>2. CASE step = "account"
    BY <1>2 DEF Need
  <1>3. CASE step = "target"
    BY <1>3 DEF Need
  <1>4. CASE step \in {"reference", "delete"}
    BY <1>4 DEF Need
  <1>5. CASE step = "hold_row"
    BY <1>5 DEF Need
  <1>6. CASE step \in {"audit_rows", "metadata_rows"}
    <2>1. \E x : l.object = <<"event", x>>
      BY <1>6 DEF Need
    <2>2. QED
      BY <1>6, <2>1
  <1>7. CASE step = "hold_rows"
    <2>1. PICK h \in HoldRows(o) : l = Exclusive(<<"hold", h.id>>)
      BY <1>7 DEF Need
    <2>2. QED
      BY <1>7, <2>1
  <1>8. CASE step \in {"member_rows", "insert_row", "delete_row"}
    <2>1. \E x, y : l.object = <<"member", x, y>>
      BY <1>8 DEF Need
    <2>2. QED
      BY <2>1
  <1>9. QED
    BY <1>1, <1>2, <1>3, <1>4, <1>5, <1>6, <1>7, <1>8 DEF Need

\* Statements that lock one thing, and a check, which locks nothing.
LEMMA NeedsOne ==
  ASSUME NEW o
  PROVE  /\ Need(o, "account") = {Exclusive(<<"account", o.account>>)}
         /\ Need(o, "target") = {Exclusive(<<"target", o.on>>)}
         /\ Need(o, "hold_row") = {Exclusive(<<"hold", o.hold>>)}
         /\ Need(o, "reference") = {Shared(<<"workspace", o.on>>)}
         /\ RowOf(o) = {} => Need(o, "insert_row") = {}
         /\ Need(o, "delete_row") \subseteq {Exclusive(<<"member", o.on, o.account>>)}
         /\ Need(o, "check") = {} /\ Need(o, "choose") = {}
  BY DEF Need, RowOf

\* A request that neither deletes nor is done locking, and holds something, waits for
\* a target or for the row of a workspace and holds one lock of another sort; or it
\* adds a member, and holds an account.
LEMMA HoldingWaiter ==
  ASSUME TypeOK, Control, LocksAreFew, NEW r \in Request, NEW s, Waits(r, s), locks[r] # {},
         op[r].kind \notin {"delete_account", "delete_workspace"}
  PROVE  \/ /\ op[r].kind = "place" /\ Need(op[r], Statement(r)) = {Exclusive(<<"target", op[r].on>>)}
            /\ locks[r] \subseteq {Exclusive(<<"retention">>)}
         \/ /\ op[r].kind = "release" /\ at[r] = 3
            /\ Need(op[r], Statement(r)) = {Exclusive(<<"target", op[r].on>>)}
            /\ locks[r] \subseteq {Exclusive(<<"hold", op[r].hold>>)}
         \/ /\ op[r].kind = "add"
            /\ locks[r] \subseteq {Exclusive(<<"account", op[r].account>>)}
         \/ /\ op[r].kind = "remove"
            /\ Need(op[r], Statement(r)) = {Shared(<<"workspace", op[r].on>>)}
            /\ locks[r] \subseteq {Exclusive(<<"member", op[r].on, op[r].account>>)}
  <1> DEFINE k == op[r].kind
             n == Len(Steps(op[r]))
             here == Steps(op[r])[at[r]]
  <1>1. /\ Running(r) /\ k \in Kinds /\ at[r] \in 1 .. 7 /\ at[r] <= n
        /\ Need(op[r], here) # {}
    BY Advance DEF Waits, Statement
  <1>2. at[r] # 1
    BY DEF Control, ControlTyped
  <1>3. here # "check" /\ here # "choose"
    BY <1>1, NeedsOne
  <1>4. Statement(r) = here /\ FewLocks(r)
    BY <1>1 DEF Statement, LocksAreFew
  <1>5. CASE k = "place"
    <2>1. n = 3
      BY <1>5, Programs
    <2>2. at[r] = 2 \/ at[r] = 3
      BY <1>1, <1>2, <2>1
    <2>3. at[r] = 2 /\ here = "target"
      BY <1>3, <1>5, <2>2, Programs
    <2>4. at[r] \in 1 .. 2
      BY <2>3
    <2>5. locks[r] \subseteq {Exclusive(<<"retention">>)}
      BY <1>4, <1>5, <2>4 DEF FewLocks
    <2>6. Need(op[r], Statement(r)) = {Exclusive(<<"target", op[r].on>>)}
      BY <1>4, <2>3, NeedsOne
    <2>7. QED
      BY <1>5, <2>3, <2>5, <2>6
  <1>6. CASE k = "release"
    <2>1. n = 3
      BY <1>6, Programs
    <2>2. at[r] = 2 \/ at[r] = 3
      BY <1>1, <1>2, <2>1
    <2>3. at[r] = 3 /\ here = "target"
      BY <1>3, <1>6, <2>2, Programs
    <2>4. at[r] \in 1 .. 3
      BY <2>3
    <2>5. locks[r] \subseteq {Exclusive(<<"hold", op[r].hold>>)}
      BY <1>4, <1>6, <2>4 DEF FewLocks
    <2>6. Need(op[r], Statement(r)) = {Exclusive(<<"target", op[r].on>>)}
      BY <1>4, <2>3, NeedsOne
    <2>7. QED
      BY <1>6, <2>3, <2>5, <2>6
  <1>7. CASE k = "add"
    <2>1. n = 3
      BY <1>7, Programs
    <2>2. at[r] = 2 \/ at[r] = 3
      BY <1>1, <1>2, <2>1
    <2>3. locks[r] \subseteq {Exclusive(<<"account", op[r].account>>)}
      <3>1. at[r] \in 1 .. 3
        BY <2>2
      <3>2. QED
        BY <1>4, <1>7, <3>1 DEF FewLocks
    <2>4. QED
      BY <1>7, <2>3
  <1>8. CASE k = "prune"
    <2>1. n = 2
      BY <1>8, Programs
    <2>2. at[r] = 2
      BY <1>1, <1>2, <2>1
    <2>3. QED
      BY <1>3, <1>8, <2>2, Programs
  <1>9. CASE k = "create"
    <2>1. n = 1
      BY <1>9, Programs
    <2>2. QED
      BY <1>1, <1>2, <2>1
  <1>10. CASE k = "remove"
    <2>1. n = 2
      BY <1>10, Programs
    <2>2. at[r] = 2
      BY <1>1, <1>2, <2>1
    <2>3. here = "reference"
      BY <1>10, <2>2, Programs
    <2>4. at[r] \in 1 .. 2
      BY <2>2
    <2>5. locks[r] \subseteq {Exclusive(<<"member", op[r].on, op[r].account>>)}
      BY <1>4, <1>10, <2>4 DEF FewLocks
    <2>6. Need(op[r], Statement(r)) = {Shared(<<"workspace", op[r].on>>)}
      BY <1>4, <2>3, NeedsOne
    <2>7. QED
      BY <1>10, <2>5, <2>6
  <1>11. QED
    BY <1>1, <1>5, <1>6, <1>7, <1>8, <1>9, <1>10 DEF Kinds

\* The statements of deletions.
LEMMA DeletionPrograms ==
  ASSUME TypeOK, NEW d \in Request, Pending(d),
         op[d].kind \in {"delete_account", "delete_workspace"}
  PROVE  /\ Statement(d) \notin {"retention", "hold_row"}
         /\ Statement(d) = "hold_rows" => op[d].kind = "delete_account" /\ at[d] = 5
         /\ Statement(d) = "account" => at[d] = 1
         /\ op[d].kind = "delete_account" => Statement(d) \notin {"reference", "delete"}
  <1> DEFINE n == Len(Steps(op[d]))
  <1>1. at[d] \in 1 .. 7 /\ at[d] <= n
    BY Advance
  <1>2. CASE op[d].kind = "delete_account"
    <2>1. at[d] = 1 \/ at[d] = 2 \/ at[d] = 3 \/ at[d] = 4 \/ at[d] = 5 \/ at[d] = 6 \/ at[d] = 7
      BY <1>1
    <2>2. QED
      BY <1>2, <2>1, Programs DEF Statement
  <1>3. CASE op[d].kind = "delete_workspace"
    <2>1. n = 6
      BY <1>3, Programs
    <2>2. at[d] = 1 \/ at[d] = 2 \/ at[d] = 3 \/ at[d] = 4 \/ at[d] = 5 \/ at[d] = 6
      BY <1>1, <2>1
    <2>3. QED
      BY <1>3, <2>2, Programs DEF Statement
  <1>4. QED
    BY <1>2, <1>3

\* The lock of an account comes first.
LEMMA AccountFirst ==
  ASSUME TypeOK, NEW r \in Request, Pending(r), Statement(r) = "account"
  PROVE  at[r] = 1
  <1> DEFINE k == op[r].kind
             n == Len(Steps(op[r]))
             here == Steps(op[r])[at[r]]
  <1>1. k \in Kinds /\ at[r] \in 1 .. 7 /\ at[r] <= n /\ here = "account"
    BY Advance DEF Statement
  <1>2. CASE k \in {"delete_account", "delete_workspace"}
    BY <1>2, DeletionPrograms
  <1>3. CASE k \in {"place", "release", "add"}
    <2>1. n = 3
      BY <1>3, Programs
    <2>2. at[r] = 1 \/ at[r] = 2 \/ at[r] = 3
      BY <1>1, <2>1
    <2>3. QED
      BY <1>1, <1>3, <2>2, Programs
  <1>4. CASE k \in {"prune", "remove"}
    <2>1. n = 2
      BY <1>4, Programs
    <2>2. at[r] = 1 \/ at[r] = 2
      BY <1>1, <2>1
    <2>3. QED
      BY <1>1, <1>4, <2>2, Programs
  <1>5. CASE k = "create"
    <2>1. n = 1
      BY <1>5, Programs
    <2>2. QED
      BY <1>1, <2>1
  <1>6. QED
    BY <1>1, <1>2, <1>3, <1>4, <1>5 DEF Kinds

\* The deletion d finds the row of a member locked whom r is removing from the
\* workspace that d deletes.
Crossed(d, r) ==
  op[d].kind = "delete_workspace" /\ op[r].kind = "remove" /\ op[r].on = op[d].on

\* But for that, a deletion and a request of another kind do not wait for each other:
\* nothing that deletes asks for the lock of retention, for an account when it holds
\* anything, or for the row of an active hold of its target, and it locks no workspace
\* but the one it deletes.
LEMMA NoCircleOfTwo ==
  ASSUME IInv, Waiting, NEW d \in Request, NEW s \in Request, Waits(d, s), Waits(s, d),
         op[d].kind \in {"delete_account", "delete_workspace"},
         op[s].kind \notin {"delete_account", "delete_workspace"},
         ~Crossed(d, s)
  PROVE  FALSE
  <1> USE DEF IInv, Waiting
  <1>1. PICK l \in Need(op[d], Statement(d)), k \in locks[s] : l.object = k.object
    BY DEF Waits, Conflict
  <1>2. PICK m \in Need(op[s], Statement(s)), j \in locks[d] : m.object = j.object
    BY DEF Waits, Conflict
  <1>3. Pending(d) /\ Pending(s) /\ Running(d) /\ Running(s)
    BY DEF Waits, Pending
  <1>4. /\ Statement(d) \notin {"retention", "hold_row"}
        /\ Statement(d) = "hold_rows" => op[d].kind = "delete_account" /\ at[d] = 5
        /\ Statement(d) = "account" => at[d] = 1
    BY <1>3, DeletionPrograms
  <1>5. at[d] # 1
    BY <1>2 DEF Control, ControlTyped
  <1>6. CASE k = Exclusive(<<"retention">>)
    <2>1. l.object = <<"retention">>
      BY <1>1, <1>6 DEF Exclusive
    <2>2. QED
      BY <1>4, <2>1, NeedObjects
  <1>7. CASE k = Exclusive(<<"account", op[s].account>>)
    <2>1. l.object = <<"account", op[s].account>>
      BY <1>1, <1>7 DEF Exclusive
    <2>2. QED
      BY <1>4, <1>5, <2>1, NeedObjects
  <1>8. CASE /\ op[s].kind = "release" /\ at[s] = 3
             /\ Need(op[s], Statement(s)) = {Exclusive(<<"target", op[s].on>>)}
             /\ k = Exclusive(<<"hold", op[s].hold>>)
    <2>1. l.object = <<"hold", op[s].hold>>
      BY <1>1, <1>8 DEF Exclusive
    <2>2. op[d].kind = "delete_account" /\ at[d] = 5
      BY <1>4, <2>1, NeedObjects
    <2>3. ~Held(op[d].on)
      <3>1. at[d] > 3
        BY <2>2
      <3>2. QED
        BY <1>3, <2>2, <3>1 DEF ReadsHold, ReadsOf
    <2>4. op[s].on \in Target
      BY <1>3, <1>8 DEF Control, OpsAreAsked
    <2>5. j.object = <<"target", op[s].on>>
      BY <1>2, <1>8 DEF Exclusive
    <2>6. op[s].on = op[d].on
      BY <1>3, <2>2, <2>4, <2>5 DEF LocksAreFew, FewLocks
    <2>7. PICK h \in holds : Releases(s, h)
      BY <1>3, <1>8 DEF ReleasesFindHolds
    <2>8. h.active /\ h.target = op[s].on
      BY <1>8, <2>7 DEF Releases
    <2>9. QED
      BY <2>3, <2>6, <2>8 DEF Held
  <1>9. CASE /\ op[s].kind = "remove"
             /\ Need(op[s], Statement(s)) = {Shared(<<"workspace", op[s].on>>)}
    <2>1. op[s].on \in Workspace
      BY <1>3, <1>9 DEF Control, OpsAreAsked
    <2>2. j.object = <<"workspace", op[s].on>>
      BY <1>2, <1>9 DEF Shared
    <2>3. op[d].kind = "delete_workspace" /\ op[s].on = op[d].on
      BY <1>3, <2>1, <2>2 DEF LocksAreFew, FewLocks
    <2>4. QED
      BY <1>9, <2>3 DEF Crossed
  <1>10. QED
    BY <1>6, <1>7, <1>8, <1>9, HoldingWaiter, <1>1

\* Requests that all wait for one another include two deletions, or one that deletes
\* the workspace of a member who is being removed.
LEMMA CirclesTakeDeletions ==
  ASSUME IInv, Waiting
  PROVE  DeadlocksAreOfDeletions
  <1> DEFINE Deletes(r) == op[r].kind \in {"delete_account", "delete_workspace"}
  <1> SUFFICES ASSUME NEW S \in SUBSET {r \in Request : Pending(r)}, S # {},
                      \A r \in S : \E s \in S : Waits(r, s)
               PROVE  \E d, r \in S : d # r /\ Deletes(d) /\ (Deletes(r) \/ Crossed(d, r))
    BY DEF DeadlocksAreOfDeletions, Crossed
  <1> USE DEF IInv, Waiting
  <1>1. ASSUME NEW s \in S, NEW t \in S, Waits(s, t), locks[s] # {}
        PROVE  op[t].kind # "add" /\ locks[t] # {}
    <2>1. PICK l \in Need(op[s], Statement(s)), k \in locks[t] : l.object = k.object
      BY <1>1 DEF Waits, Conflict
    <2>2. PICK u \in S : Waits(t, u)
      OBVIOUS
    <2>3. ASSUME op[t].kind = "add" PROVE FALSE
      <3>1. k = Exclusive(<<"account", op[t].account>>)
        BY <2>1, <2>2, <2>3, HoldingWaiter
      <3>2. l.object = <<"account", op[t].account>>
        BY <2>1, <3>1 DEF Exclusive
      <3>3. Statement(s) = "account"
        BY <3>2, NeedObjects
      <3>4. at[s] = 1
        BY <1>1, <3>3, AccountFirst DEF Waits
      <3>5. QED
        BY <1>1, <3>4 DEF Control, ControlTyped
    <2>4. QED
      BY <2>1, <2>3
  <1>2. ASSUME NEW s \in S, NEW t \in S, Waits(s, t), ~Deletes(s), locks[s] # {},
               op[s].kind # "add"
        PROVE  Deletes(t)
    <2> SUFFICES ASSUME ~Deletes(t) PROVE FALSE
      OBVIOUS
    <2>1. PICK l \in Need(op[s], Statement(s)), k \in locks[t] : l.object = k.object
      BY <1>2 DEF Waits, Conflict
    <2>2. PICK u \in S : Waits(t, u)
      OBVIOUS
    <2>3. \/ locks[t] \subseteq {Exclusive(<<"retention">>)}
          \/ locks[t] \subseteq {Exclusive(<<"hold", op[t].hold>>)}
          \/ locks[t] \subseteq {Exclusive(<<"account", op[t].account>>)}
          \/ locks[t] \subseteq {Exclusive(<<"member", op[t].on, op[t].account>>)}
      <3>1. locks[t] # {}
        BY <2>1
      <3>2. QED
        BY <2>2, <3>1, HoldingWaiter
    <2>4. \/ Need(op[s], Statement(s)) = {Exclusive(<<"target", op[s].on>>)}
          \/ Need(op[s], Statement(s)) = {Shared(<<"workspace", op[s].on>>)}
      BY <1>2, HoldingWaiter
    <2>5. \/ k.object = <<"retention">>
          \/ k.object = <<"hold", op[t].hold>>
          \/ k.object = <<"account", op[t].account>>
          \/ k.object = <<"member", op[t].on, op[t].account>>
      BY <2>1, <2>3 DEF Exclusive
    <2>6. l.object = <<"target", op[s].on>> \/ l.object = <<"workspace", op[s].on>>
      BY <2>1, <2>4 DEF Exclusive, Shared
    <2>7. QED
      BY <2>1, <2>5, <2>6
  <1>3. PICK d \in S : Deletes(d) /\ locks[d] # {}
    <2>1. PICK q \in S : TRUE
      OBVIOUS
    <2>2. PICK r \in S : Waits(q, r)
      OBVIOUS
    <2>3. PICK s \in S : Waits(r, s)
      OBVIOUS
    <2>4. PICK t \in S : Waits(s, t)
      OBVIOUS
    <2>5. locks[r] # {}
      BY <2>2 DEF Waits
    <2>6. op[s].kind # "add" /\ locks[s] # {}
      BY <1>1, <2>3, <2>5
    <2>7. locks[t] # {}
      BY <1>1, <2>4, <2>6
    <2>8. Deletes(s) \/ Deletes(t)
      BY <1>2, <2>4, <2>6
    <2>9. QED
      BY <2>6, <2>7, <2>8
  <1>4. PICK s \in S : Waits(d, s)
    OBVIOUS
  <1>5. d # s /\ locks[s] # {} /\ op[s].kind # "add"
    BY <1>1, <1>3, <1>4 DEF Waits
  <1>6. CASE Deletes(s) \/ Crossed(d, s)
    BY <1>3, <1>5, <1>6
  <1>7. CASE ~Deletes(s) /\ ~Crossed(d, s)
    <2>1. PICK t \in S : Waits(s, t)
      OBVIOUS
    <2>2. Deletes(t)
      BY <1>2, <1>5, <1>7, <2>1
    <2>3. t # d
      BY <1>3, <1>4, <1>7, <2>1, NoCircleOfTwo
    <2>4. QED
      BY <1>3, <2>2, <2>3
  <1>8. QED
    BY <1>6, <1>7

\* A request that begins holds nothing, and the hold it asks to release is there.
LEMMA BeginWaiting ==
  ASSUME IInv, Waiting, NEW r \in Request, Begin(r)
  PROVE  Waiting'
  <1> USE DEF IInv, Waiting
  <1>1. PICK o \in Authorized : op' = [op EXCEPT ![r] = o]
    BY DEF Begin
  <1>2. /\ pc[r] = "new" /\ at[r] = 1 /\ locks[r] = {} /\ op'[r] = o
        /\ pc' = [pc EXCEPT ![r] = "running"] /\ UNCHANGED <<tables, at, locks>>
    BY <1>1 DEF Begin, Control, ControlTyped
  <1>3. ASSUME NEW s \in Request, s # r, Running(s)' PROVE Running(s) /\ op'[s] = op[s]
    BY <1>1, <1>2, <1>3 DEF Running, Control, ControlTyped
  <1>4. HoldsAreDone'
    BY <1>2 DEF HoldsAreDone, tables, TypeOK, Hold
  <1>5. LocksAreFew'
    <2>1. FewLocks(r)'
      BY <1>2 DEF FewLocks
    <2>2. ASSUME NEW s \in Request, s # r, Running(s)' PROVE FewLocks(s)'
      BY <1>2, <1>3, <2>2 DEF LocksAreFew, FewLocks, Has
    <2>3. QED
      BY <2>1, <2>2 DEF LocksAreFew
  <1>6. ReleasesFindHolds'
    <2>1. ASSUME o.kind = "release" PROVE \E h \in holds : Releases(r, h)'
      <3>1. PICK p \in Admin \X {h \in holds : h.active} :
              o = Ask("release", p[1], p[2].target, Nobody, p[2].id)
        BY <2>1 DEF Authorized, Ask
      <3>2. p[2] \in holds /\ p[2].active /\ p[2].id = o.hold /\ p[2].target = o.on
        BY <3>1 DEF Ask
      <3>3. Releases(r, p[2])'
        BY <1>2, <3>2 DEF Releases
      <3>4. QED
        BY <3>2, <3>3
    <2>2. ASSUME NEW s \in Request, s # r, Running(s)', op'[s].kind = "release"
          PROVE  \E h \in holds : Releases(s, h)'
      BY <1>2, <1>3, <2>2 DEF ReleasesFindHolds, Releases
    <2>3. QED
      BY <1>2, <2>1, <2>2 DEF ReleasesFindHolds, tables
  <1>7. QED
    BY <1>4, <1>5, <1>6

\* The first locks are the only ones until the next locking statement; the check of a
\* release finds its hold active.
LEMMA ExecuteWaiting ==
  ASSUME IInv, Waiting, NEW r \in Request, Execute(r)
  PROVE  Waiting'
  <1> USE DEF IInv, Waiting
  <1> DEFINE o == op[r]
             new == Need(o, Statement(r))
  <1>1. /\ locks'[r] = locks[r] \cup new /\ at'[r] = at[r] + 1
        /\ \A s \in Request \ {r} : locks'[s] = locks[s] /\ at'[s] = at[s]
        /\ UNCHANGED <<tables, pc, op>>
        /\ Statement(r) = "check" => Permitted(o)
        /\ Statement(r) = "insert_row" => RowOf(o) = {}
    BY DEF Execute, Control, ControlTyped, Accepts
  <1>2. Running(r) /\ at[r] \in 1 .. 7
    BY Advance DEF Execute
  <1>3. at[r] = 1 => locks[r] = {}
    BY DEF Control, ControlTyped
  <1>4. FewLocks(r) /\ Statement(r) = Steps(o)[at[r]]
    BY <1>2 DEF LocksAreFew, Statement
  <1>5. HoldsAreDone'
    BY <1>1 DEF HoldsAreDone, tables
  <1>6. o.kind = "release" => /\ at[r] = 1 => Statement(r) = "hold_row"
                              /\ at[r] = 2 => Statement(r) = "check"
    BY <1>4, Programs
  <1>7. FewLocks(r)'
    <2>1. ASSUME o.kind = "place", at'[r] \in 1 .. 2
          PROVE  locks'[r] \subseteq {Exclusive(<<"retention">>)}
      <3>1. at[r] = 1
        BY <1>1, <1>2, <2>1
      <3>2. new = {Exclusive(<<"retention">>)}
        <4>1. Steps(o)[1] = "retention"
          BY <2>1, Programs
        <4>2. Statement(r) = "retention"
          BY <1>4, <3>1, <4>1
        <4>3. QED
          BY <4>2, Needs
      <3>3. QED
        BY <1>1, <1>3, <3>1, <3>2
    <2>2. ASSUME o.kind = "add", at'[r] \in 1 .. 3
          PROVE  locks'[r] \subseteq {Exclusive(<<"account", o.account>>)}
      <3>1. CASE at[r] = 1
        <4>1. Statement(r) = "account"
          BY <1>4, <2>2, <3>1, Programs
        <4>2. new = {Exclusive(<<"account", o.account>>)}
          BY <4>1, NeedsOne
        <4>3. QED
          BY <1>1, <1>3, <3>1, <4>2
      <3>2. CASE at[r] = 2
        <4>1. Statement(r) = "insert_row"
          BY <1>4, <2>2, <3>2, Programs
        <4>2. new = {}
          BY <1>1, <4>1, NeedsOne
        <4>3. at[r] \in 1 .. 3
          BY <3>2
        <4>4. QED
          BY <1>1, <1>4, <2>2, <4>2, <4>3 DEF FewLocks
      <3>3. QED
        BY <1>1, <1>2, <2>2, <3>1, <3>2
    <2>3. ASSUME o.kind = "remove", at'[r] \in 1 .. 2
          PROVE  locks'[r] \subseteq {Exclusive(<<"member", o.on, o.account>>)}
      <3>1. at[r] = 1
        BY <1>1, <1>2, <2>3
      <3>2. Statement(r) = "delete_row"
        BY <1>4, <2>3, <3>1, Programs
      <3>3. new \subseteq {Exclusive(<<"member", o.on, o.account>>)}
        BY <3>2, NeedsOne
      <3>4. QED
        BY <1>1, <1>3, <3>1, <3>3
    <2>4. ASSUME o.kind \in {"delete_account", "delete_workspace"},
                 NEW l \in locks'[r], NEW x \in Workspace, l.object = <<"workspace", x>>
          PROVE  o.kind = "delete_workspace" /\ x = o.on
      <3>1. CASE l \in locks[r]
        BY <1>4, <2>4, <3>1 DEF FewLocks
      <3>2. CASE l \in new
        <4>1. Statement(r) \in {"reference", "delete"} /\ x = o.on
          BY <2>4, <3>2, NeedObjects
        <4>2. Pending(r)
          BY DEF Execute
        <4>3. QED
          BY <2>4, <4>1, <4>2, DeletionPrograms
      <3>3. QED
        BY <1>1, <2>4, <3>1, <3>2
    <2>5. ASSUME o.kind = "release"
          PROVE  /\ at'[r] \in 1 .. 3 => locks'[r] \subseteq {Exclusive(<<"hold", o.hold>>)}
                 /\ at'[r] \in 2 .. 4 => Exclusive(<<"hold", o.hold>>) \in locks'[r]
      <3>1. CASE at[r] = 1
        <4>1. new = {Exclusive(<<"hold", o.hold>>)}
          BY <1>6, <2>5, <3>1, NeedsOne
        <4>2. QED
          BY <1>1, <1>3, <3>1, <4>1
      <3>2. CASE at[r] = 2
        <4>1. new = {}
          BY <1>6, <2>5, <3>2, NeedsOne
        <4>2. at[r] \in 1 .. 3 /\ at[r] \in 2 .. 4
          BY <3>2
        <4>3. QED
          BY <1>1, <1>4, <2>5, <4>1, <4>2 DEF FewLocks, Has
      <3>3. CASE at[r] > 2
        <4>1. at'[r] \notin 1 .. 3 /\ (at'[r] \in 2 .. 4 => at[r] \in 2 .. 4)
          BY <1>1, <1>2, <3>3
        <4>2. QED
          BY <1>1, <1>4, <2>5, <4>1 DEF FewLocks, Has
      <3>4. QED
        BY <1>2, <3>1, <3>2, <3>3
    <2>6. ASSUME o.kind = "delete_account", NEW l \in locks'[r], NEW x \in Target,
                 l.object = <<"target", x>>
          PROVE  x = o.on
      <3>1. CASE l \in locks[r]
        BY <1>4, <2>6, <3>1 DEF FewLocks
      <3>2. CASE l \in new
        BY <2>6, <3>2, NeedObjects
      <3>3. QED
        BY <1>1, <2>6, <3>1, <3>2
    <2>7. QED
      BY <1>1, <2>1, <2>2, <2>3, <2>4, <2>5, <2>6 DEF FewLocks, Has
  <1>8. ASSUME NEW s \in Request, s # r, Running(s)'
        PROVE  /\ Running(s) /\ op'[s] = op[s] /\ at'[s] = at[s] /\ locks'[s] = locks[s]
    BY <1>1, <1>8 DEF Running
  <1>9. LocksAreFew'
    <2>1. ASSUME NEW s \in Request, s # r, Running(s)' PROVE FewLocks(s)'
      BY <1>8, <2>1 DEF LocksAreFew, FewLocks, Has
    <2>2. QED
      BY <1>7, <2>1 DEF LocksAreFew
  <1>10. ASSUME o.kind = "release" PROVE \E h \in holds : Releases(r, h)'
    <2>1. PICK h \in holds : Releases(r, h)
      BY <1>2, <1>10 DEF ReleasesFindHolds
    <2>2. at[r] = 2 => h.active
      <3>1. at[r] = 2 => \E g \in holds : g.id = o.hold /\ g.active
        BY <1>1, <1>6, <1>10 DEF Permitted
      <3>2. QED
        BY <2>1, <3>1 DEF Releases, HoldsAreDone
    <2>3. at'[r] \in 3 .. 4 => at[r] \in 3 .. 4 \/ at[r] = 2
      BY <1>1, <1>2
    <2>4. QED
      BY <1>1, <2>1, <2>2, <2>3 DEF Releases
  <1>11. ReleasesFindHolds'
    <2>1. ASSUME NEW s \in Request, s # r, Running(s)', op'[s].kind = "release"
          PROVE  \E h \in holds : Releases(s, h)'
      BY <1>8, <2>1 DEF ReleasesFindHolds, Releases
    <2>2. QED
      BY <1>1, <1>10, <2>1 DEF ReleasesFindHolds, tables
  <1>12. QED
    BY <1>5, <1>9, <1>11

\* A pruning locks events only.
LEMMA ChooseWaiting ==
  ASSUME IInv, Waiting, NEW r \in Request, Choose(r)
  PROVE  Waiting'
  <1> USE DEF IInv, Waiting
  <1>1. op[r].kind = "prune"
    BY ChooseAt DEF Choose
  <1>2. /\ \A s \in Request \ {r} : locks'[s] = locks[s] /\ at'[s] = at[s]
        /\ UNCHANGED <<tables, pc, op>>
    BY DEF Choose, Control, ControlTyped
  <1>3. HoldsAreDone'
    BY <1>2 DEF HoldsAreDone, tables
  <1>4. LocksAreFew'
    BY <1>1, <1>2 DEF LocksAreFew, FewLocks, Running, Has
  <1>5. ReleasesFindHolds'
    BY <1>1, <1>2 DEF ReleasesFindHolds, Releases, Running, tables
  <1>6. QED
    BY <1>3, <1>4, <1>5

\* A transaction that ends leaves the locks of the others alone; what it writes to a
\* hold another one is releasing is a change that its target survives.
LEMMA EndWaiting ==
  ASSUME IInv, Waiting, NEW r \in Request, Running(r), Ends(r),
         HoldsAreDone',
         \A s \in Request, h \in holds :
           s # r /\ Running(s) /\ op[s].kind = "release" /\ Releases(s, h)
             => \E g \in holds' : /\ g.id = h.id
                                  /\ g.active => h.active /\ g.target = h.target
                                  /\ h.active /\ at[s] \in 3 .. 4 => g.active
  PROVE  Waiting'
  <1> USE DEF IInv, Waiting
  <1>1. ASSUME NEW s \in Request, Running(s)'
        PROVE  s # r /\ Running(s) /\ op'[s] = op[s] /\ at'[s] = at[s] /\ locks'[s] = locks[s]
    BY <1>1 DEF Ends, Control, ControlTyped, Running
  <1>2. LocksAreFew'
    <2>1. ASSUME NEW s \in Request, Running(s)' PROVE FewLocks(s)'
      BY <1>1, <2>1 DEF LocksAreFew, FewLocks, Has
    <2>2. QED
      BY <2>1 DEF LocksAreFew
  <1>3. ReleasesFindHolds'
    <2>1. ASSUME NEW s \in Request, Running(s)', op'[s].kind = "release"
          PROVE  \E g \in holds' : Releases(s, g)'
      <3>1. /\ s # r /\ Running(s) /\ op[s].kind = "release"
            /\ op'[s] = op[s] /\ at'[s] = at[s]
        BY <1>1, <2>1
      <3>2. PICK h \in holds : Releases(s, h)
        BY <3>1 DEF ReleasesFindHolds
      <3>3. PICK g \in holds' : /\ g.id = h.id
                                /\ g.active => h.active /\ g.target = h.target
                                /\ h.active /\ at[s] \in 3 .. 4 => g.active
        BY <3>1, <3>2
      <3>4. Releases(s, g)'
        BY <3>1, <3>2, <3>3 DEF Releases
      <3>5. QED
        BY <3>4
    <2>2. QED
      BY <2>1 DEF ReleasesFindHolds
  <1>4. QED
    BY <1>2, <1>3

\* A transaction that does not write holds.
LEMMA QuietEndWaiting ==
  ASSUME IInv, Waiting, NEW r \in Request, Running(r), Ends(r), UNCHANGED holds
  PROVE  Waiting'
  <1>1. \A s \in Request : pc[s] = "done" => pc'[s] = "done"
    BY Others DEF IInv, Control
  <1>2. HoldsAreDone'
    BY <1>1 DEF Waiting, HoldsAreDone, IInv, TypeOK, Hold
  <1>3. QED
    BY <1>2, EndWaiting

\* A new hold has the id of the request that placed it.
LEMMA CreateLegalHoldWaiting ==
  ASSUME IInv, Waiting, NEW r \in Request, CreateLegalHold(r)
  PROVE  Waiting'
  <1> DEFINE hold == [id |-> r, target |-> op[r].on, active |-> TRUE,
                      placedBy |-> op[r].by, releasedBy |-> Nobody]
  <1>1. Running(r) /\ Ends(r) /\ holds' = holds \cup {hold}
    BY DEF CreateLegalHold, Commits
  <1>2. /\ \A s \in Request : pc[s] = "done" => pc'[s] = "done"
        /\ pc[r] # "done" /\ pc'[r] = "done"
    BY <1>1, Others DEF IInv, Control
  <1>3. hold.id = r
    OBVIOUS
  <1> HIDE DEF hold
  <1>4. HoldsAreDone'
    BY <1>1, <1>2, <1>3 DEF Waiting, HoldsAreDone, IInv, TypeOK, Hold
  <1>5. QED
    BY <1>1, <1>4, EndWaiting

\* Two releases of a hold exclude each other from its row on.
LEMMA ReleaseLegalHoldWaiting ==
  ASSUME IInv, Waiting, NEW r \in Request, ReleaseLegalHold(r)
  PROVE  Waiting'
  <1> DEFINE Image(h) == IF h.id = op[r].hold
                           THEN [h EXCEPT !.active = FALSE, !.releasedBy = op[r].by]
                           ELSE h
  <1>1. /\ Running(r) /\ Ends(r) /\ op[r].kind = "release" /\ at[r] = 4
        /\ holds' = {Image(h) : h \in holds}
    BY AtCommit DEF ReleaseLegalHold, Commits, IInv
  <1>2. \A s \in Request : pc[s] = "done" => pc'[s] = "done"
    BY <1>1, Others DEF IInv, Control
  <1>3. ASSUME NEW h \in holds
        PROVE  /\ Image(h).id = h.id /\ Image(h).target = h.target
               /\ Image(h).active => h.active /\ Image(h) = h
               /\ h.id # op[r].hold => Image(h) = h
    <2>1. h \in Hold /\ op[r].by \in Account
      BY <1>1 DEF IInv, TypeOK, Control, OpsAreAsked
    <2>2. QED
      BY <2>1, Released
  <1> HIDE DEF Image
  <1>4. HoldsAreDone'
    BY <1>1, <1>2, <1>3 DEF Waiting, HoldsAreDone, IInv, TypeOK, Hold
  <1>5. ASSUME NEW s \in Request, s # r, Running(s), op[s].kind = "release", at[s] \in 3 .. 4
        PROVE  op[s].hold # op[r].hold
    <2>1. at[r] \in 2 .. 4 /\ at[s] \in 2 .. 4
      BY <1>1, <1>5
    <2>2. Has(r, <<"hold", op[r].hold>>) /\ Has(s, <<"hold", op[s].hold>>)
      BY <1>1, <1>5, <2>1 DEF Waiting, LocksAreFew, FewLocks
    <2>3. QED
      BY <1>5, <2>2, Exclusion DEF IInv, Control
  <1>6. ASSUME NEW s \in Request, NEW h \in holds, s # r, Running(s),
               op[s].kind = "release", Releases(s, h)
        PROVE  \E g \in holds' : /\ g.id = h.id
                                 /\ g.active => h.active /\ g.target = h.target
                                 /\ h.active /\ at[s] \in 3 .. 4 => g.active
    <2>1. Image(h) \in holds'
      BY <1>1
    <2>2. at[s] \in 3 .. 4 => Image(h) = h
      BY <1>3, <1>5, <1>6 DEF Releases
    <2>3. QED
      BY <1>3, <2>1, <2>2
  <1>7. QED
    BY <1>1, <1>4, <1>6, EndWaiting

\* The deletion of an account leaves the target of an active hold.
LEMMA DeleteAccountWaiting ==
  ASSUME IInv, Waiting, NEW r \in Request, DeleteAccount(r)
  PROVE  Waiting'
  <1> DEFINE gone == op[r].on
             Anonymize(h) == [h EXCEPT !.placedBy = Unless(@, gone),
                                       !.releasedBy = Unless(@, gone),
                                       !.target = IF h.active THEN @ ELSE Unless(@, gone)]
             Image(h) == IF Has(r, <<"hold", h.id>>) THEN Anonymize(h) ELSE h
  <1>1. Running(r) /\ Ends(r) /\ holds' = {Image(h) : h \in holds}
    BY DEF DeleteAccount, Commits
  <1>2. \A s \in Request : pc[s] = "done" => pc'[s] = "done"
    BY <1>1, Others DEF IInv, Control
  <1>3. ASSUME NEW h \in holds
        PROVE  /\ Image(h).id = h.id /\ Image(h).active = h.active
               /\ h.active => Image(h).target = h.target
    <2>1. h \in Hold
      BY DEF IInv, TypeOK
    <2>2. Anonymize(h) = [id |-> h.id, active |-> h.active,
                          target |-> IF h.active THEN h.target ELSE Unless(h.target, gone),
                          placedBy |-> Unless(h.placedBy, gone),
                          releasedBy |-> Unless(h.releasedBy, gone)]
      BY <2>1, Anonymized
    <2> HIDE DEF Anonymize
    <2>3. QED
      BY <2>2
  <1> HIDE DEF Image
  <1>4. HoldsAreDone'
    BY <1>1, <1>2, <1>3 DEF Waiting, HoldsAreDone, IInv, TypeOK, Hold
  <1>5. \A h \in holds : \E g \in holds' : /\ g.id = h.id /\ g.active = h.active
                                           /\ g.active => g.target = h.target
    BY <1>1, <1>3
  <1>6. QED
    BY <1>1, <1>4, <1>5, EndWaiting

\* What requests wait for, for every step.
LEMMA NextWaiting == IInv /\ Waiting /\ [Next]_vars => Waiting'
  <1> SUFFICES ASSUME IInv, Waiting, [Next]_vars PROVE Waiting'
    OBVIOUS
  <1>1. CASE UNCHANGED vars
    <2>1. UNCHANGED <<holds, pc, op, at, locks>>
      BY <1>1 DEF vars, tables, control
    <2>2. HoldsAreDone' /\ ReleasesFindHolds'
      BY <2>1 DEF Waiting, HoldsAreDone, ReleasesFindHolds, Releases, Running
    <2>3. LocksAreFew'
      BY <2>1 DEF Waiting, LocksAreFew, FewLocks, Running, Has
    <2>4. QED
      BY <2>2, <2>3 DEF Waiting
  <1>2. ASSUME NEW r \in Request, Step(r)
        PROVE  Waiting'
    <2>1. CASE Begin(r) \/ Execute(r) \/ Choose(r)
      BY <2>1, BeginWaiting, ExecuteWaiting, ChooseWaiting
    <2>2. CASE Abort(r)
      BY <2>2, QuietEndWaiting DEF Abort, tables
    <2>3. CASE \/ PruneAuditEvents(r) \/ DeleteWorkspace(r) \/ CreateWorkspace(r)
               \/ AddMember(r) \/ RemoveMember(r)
      BY <2>3, QuietEndWaiting
         DEF PruneAuditEvents, DeleteWorkspace, CreateWorkspace, AddMember, RemoveMember, Commits
    <2>4. CASE CreateLegalHold(r) \/ ReleaseLegalHold(r) \/ DeleteAccount(r)
      BY <2>4, CreateLegalHoldWaiting, ReleaseLegalHoldWaiting, DeleteAccountWaiting
    <2>5. QED
      BY <1>2, <2>1, <2>2, <2>3, <2>4 DEF Step
  <1>3. QED
    BY <1>1, <1>2 DEF Next

\* Whatever the number of requests, those that wait in a circle include two deletions,
\* or the deletion of a workspace and the removal of one of its members.
THEOREM CirclesAreOfDeletions == Spec => []DeadlocksAreOfDeletions
  <1>1. Init => Waiting
    BY DEF Init, Waiting, HoldsAreDone, LocksAreFew, ReleasesFindHolds, Running
  <1>2. IInv /\ Waiting => DeadlocksAreOfDeletions
    BY CirclesTakeDeletions
  <1>3. QED
    BY Invariance, NextWaiting, <1>1, <1>2, PTL DEF Spec
================================================================================
