------------------------------- MODULE Retention -------------------------------
(***************************************************************************)
(* Legal holds, the deletion of accounts and workspaces, and the pruning   *)
(* of old audit events, in PostgreSQL.  Each request is one transaction in *)
(* read-committed mode.  It takes locks one statement after the other,     *)
(* decides on what it reads in between, writes, and commits; its writes    *)
(* show at the commit, when its locks go.                                  *)
(*                                                                         *)
(* Three mutations of a workspace meet the deletions, one for each order   *)
(* of locks: creating a workspace takes an account, adding a member an     *)
(* account and then a reference to the workspace, and removing a member    *)
(* locks a row of the workspace before the audit event references it.  A   *)
(* change of a role and the creation, the revocation and the claim of an   *)
(* invitation (after the account) lock a row before the reference too.     *)
(* The rows of invitations and the references to rows of users are not     *)
(* modelled.                                                               *)
(*                                                                         *)
(* Locks are advisory (of an account, of the target of a hold, of all      *)
(* pruning) or of rows.  PostgreSQL aborts one of the transactions that    *)
(* wait in a circle; like every error this is Abort.                       *)
(***************************************************************************)
EXTENDS Naturals, Sequences

CONSTANTS Account,         (* user ids                                      *)
          Workspace,       (* workspace ids                                 *)
          Request,         (* transactions, each run once; also the ids of  *)
                           (* the audit event or the hold it inserts        *)
          Admin,           (* AGENTX_COMPLIANCE_ADMIN_IDS                   *)
          InitialMembers,  (* memberships at the start                      *)
          Nobody,          (* SQL NULL                                      *)
          NoOp             (* a request that is not running                 *)

\* A developer may do no more here than a viewer.
Roles == {"owner", "admin", "viewer"}
Membership == [ws : Workspace, account : Account, role : Roles]

ASSUME TargetsAssumption == Account \cap Workspace = {} /\ Nobody \notin Account \cup Workspace
ASSUME AdminAssumption == Admin \subseteq Account
ASSUME MembersAssumption ==
  /\ InitialMembers \subseteq Membership
  /\ \A m \in InitialMembers : \E o \in InitialMembers : o.ws = m.ws /\ o.role = "owner"

VARIABLES live,      (* rows of workspaces                                  *)
          accounts,  (* rows of users                                       *)
          members,   (* rows of memberships                                 *)
          events,    (* rows of audit_events                                *)
          holds,     (* rows of legal_holds                                 *)
          issued,    (* workspace ids handed out                            *)
          pc,        (* per request: new, running or done                   *)
          op,        (* per request: what it does                           *)
          at,        (* per request: its next statement                     *)
          locks,     (* per request: the locks it holds                     *)
          erased     (* history: deleted accounts that asked nothing since  *)

tables == <<live, accounts, members, events, holds>>
control == <<pc, op, at, locks>>
vars == <<tables, issued, control, erased>>

Target == Account \cup Workspace
Kinds == {"place", "release", "prune", "delete_account", "delete_workspace", "create",
          "add", "remove"}

\* on is the target of a hold or of a deletion, or the workspace of a mutation;
\* account is whose advisory lock it takes, or who is removed; hold is the hold to
\* release.
Op == [kind : Kinds, by : Account \cup {Nobody}, on : Target \cup {Nobody},
       account : Account \cup {Nobody}, hold : Request \cup {Nobody}]

ASSUME OpAssumption == NoOp \notin Op

Ask(kind, by, on, account, hold) ==
  [kind |-> kind, by |-> by, on |-> on, account |-> account, hold |-> hold]

\* A tombstone records a hold or a deletion; about is the target in its metadata.
Event == [id : Request, tombstone : BOOLEAN, ws : Workspace \cup {Nobody},
          actor : Account \cup {Nobody}, about : Target \cup {Nobody}]
Hold == [id : Request, target : Target \cup {Nobody}, active : BOOLEAN,
         placedBy : Account \cup {Nobody}, releasedBy : Account \cup {Nobody}]

Init ==
  /\ live = {m.ws : m \in InitialMembers}
  /\ accounts = {m.account : m \in InitialMembers}
  /\ members = InitialMembers
  /\ events = {}
  /\ holds = {}
  /\ issued = live
  /\ pc = [r \in Request |-> "new"]
  /\ op = [r \in Request |-> NoOp]
  /\ at = [r \in Request |-> 1]
  /\ locks = [r \in Request |-> {}]
  /\ erased = {}

-------------------------------------------------------------------------------
(* The statements of a transaction, up to the writes of its commit.        *)

MutPlaceStepsNoRetention == <<"target", "check">>

MutPlaceStepsNoTarget == <<"retention", "check">>

PlaceSteps == <<"retention", "target", "check">>

ReleaseSteps == <<"hold_row", "check", "target">>

PruneSteps == <<"retention", "choose">>

MutDeleteAccountSteps ==
  <<"account", "target", "audit_rows", "hold_rows", "metadata_rows", "check", "member_rows">>

DeleteAccountSteps ==
  <<"account", "target", "check", "audit_rows", "hold_rows", "metadata_rows", "member_rows">>

DeleteWorkspaceSteps ==
  <<"reference", "target", "check", "delete", "member_rows", "audit_rows">>

MutCreateSteps == <<>>

CreateSteps == <<"account">>

\* The unique index is checked when the row is inserted, its foreign key at the end
\* of the statement.
AddSteps == <<"account", "insert_row", "reference">>

\* No lock comes first: the row is deleted, then the audit event references its workspace.
RemoveSteps == <<"delete_row", "reference">>

Steps(o) ==
  CASE o.kind = "place" -> PlaceSteps
    [] o.kind = "release" -> ReleaseSteps
    [] o.kind = "prune" -> PruneSteps
    [] o.kind = "delete_account" -> DeleteAccountSteps
    [] o.kind = "delete_workspace" -> DeleteWorkspaceSteps
    [] o.kind = "create" -> CreateSteps
    [] o.kind = "add" -> AddSteps
    [] o.kind = "remove" -> RemoveSteps

Exclusive(object) == [object |-> object, shared |-> FALSE]
Shared(object) == [object |-> object, shared |-> TRUE]

Conflict(l, k) == l.object = k.object /\ ~(l.shared /\ k.shared)

Held(target) == \E h \in holds : h.active /\ h.target = target

Owns(account) == \E m \in members : m.account = account /\ m.role = "owner"

\* The rows that a deletion updates or deletes besides its own.
AuditRows(o) == {e \in events : o.on \in {e.ws, e.actor}}

MetadataRows(o) == {e \in events : e.about = o.on}

HoldRows(o) == {h \in holds : o.on \in {h.target, h.placedBy, h.releasedBy}}

MemberRows(o) == {m \in members : o.on \in {m.ws, m.account}}

\* The row with the key that an addition inserts or a removal deletes.
RowOf(o) == {m \in members : m.ws = o.on /\ m.account = o.account}

\* What a statement has to lock.
Need(o, step) ==
  CASE step = "retention" -> {Exclusive(<<"retention">>)}
    [] step = "account" -> {Exclusive(<<"account", o.account>>)}
    [] step = "target" -> {Exclusive(<<"target", o.on>>)}
    [] step = "reference" -> {Shared(<<"workspace", o.on>>)}
    [] step = "delete" -> {Exclusive(<<"workspace", o.on>>)}
    [] step = "hold_row" -> {Exclusive(<<"hold", o.hold>>)}
    [] step = "audit_rows" -> {Exclusive(<<"event", e.id>>) : e \in AuditRows(o)}
    [] step = "metadata_rows" -> {Exclusive(<<"event", e.id>>) : e \in MetadataRows(o)}
    [] step = "hold_rows" -> {Exclusive(<<"hold", h.id>>) : h \in HoldRows(o)}
    [] step = "member_rows" ->
         {Exclusive(<<"member", m.ws, m.account>>) : m \in MemberRows(o)}
    [] step \in {"insert_row", "delete_row"} ->
         {Exclusive(<<"member", m.ws, m.account>>) : m \in RowOf(o)}
    [] OTHER -> {}

\* What the request reads before it writes: the target and its holds, the memberships
\* of an account to delete.
Permitted(o) ==
  CASE o.kind = "place" -> o.on \in live \cup accounts /\ ~Held(o.on)
    [] o.kind = "release" -> \E h \in holds : h.id = o.hold /\ h.active
    [] o.kind = "delete_account" -> ~Held(o.on) /\ ~Owns(o.on)
    [] o.kind = "delete_workspace" -> o.on \in live /\ ~Held(o.on)
    [] OTHER -> TRUE

\* A statement that does not find what it should ends in an error: a check, a foreign
\* key, a unique key, or no row to delete.
Accepts(o, step) ==
  CASE step = "check" -> Permitted(o)
    [] step = "reference" -> o.on \in live
    [] step = "insert_row" -> RowOf(o) = {}
    [] step = "delete_row" -> RowOf(o) # {}
    [] OTHER -> TRUE

Running(r) == pc[r] = "running"
Statement(r) == Steps(op[r])[at[r]]
Pending(r) == Running(r) /\ at[r] <= Len(Steps(op[r]))

\* Request r waits for request s.
Waits(r, s) ==
  /\ r # s
  /\ Pending(r)
  /\ \E l \in Need(op[r], Statement(r)), k \in locks[s] : Conflict(l, k)

Locked(object) == \E r \in Request : \E l \in locks[r] : l.object = object

-------------------------------------------------------------------------------
(* Requests.                                                               *)

\* What the use cases let through to a transaction: an authenticated account may
\* delete itself or create a workspace, a compliance administrator handles holds,
\* and a membership read before the transaction authorizes the rest.  Owners are not
\* removed.
Users(ws, roles) == {m.account : m \in {x \in members : x.ws = ws /\ x.role \in roles}}

Authorized ==
  {Ask("place", a, t, Nobody, Nobody) : a \in Admin, t \in Account \cup issued}
  \cup {Ask("release", p[1], p[2].target, Nobody, p[2].id) :
          p \in Admin \X {h \in holds : h.active}}
  \cup {Ask("prune", Nobody, Nobody, Nobody, Nobody)}
  \cup {Ask("delete_account", a, a, a, Nobody) : a \in Account}
  \cup {Ask("create", a, ws, a, Nobody) : a \in Account, ws \in Workspace \ issued}
  \cup {Ask("delete_workspace", m.account, m.ws, Nobody, Nobody) :
          m \in {x \in members : x.role = "owner"}}
  \cup {Ask("add", p[1].account, p[1].ws, p[2], Nobody) :
          p \in {x \in members : x.role # "viewer"} \X Account}
  \cup {Ask("remove", t[1], t[2], t[3], Nobody) :
          t \in {x \in Account \X live \X Account :
                  /\ x[1] \in Users(x[2], {"owner", "admin"})
                  /\ x[3] \in Users(x[2], Roles) \ Users(x[2], {"owner"})}}

Begin(r) ==
  /\ pc[r] = "new"
  /\ \E o \in Authorized :
       /\ op' = [op EXCEPT ![r] = o]
       /\ issued' = IF o.kind = "create" THEN issued \cup {o.on} ELSE issued
       /\ erased' = erased \ {o.by}
  /\ pc' = [pc EXCEPT ![r] = "running"]
  /\ UNCHANGED <<tables, at, locks>>

\* The request locks what its next statement needs; a statement refuses by aborting.
Execute(r) ==
  /\ Pending(r)
  /\ Statement(r) # "choose"
  /\ Accepts(op[r], Statement(r))
  /\ \A s \in Request : ~Waits(r, s)
  /\ locks' = [locks EXCEPT ![r] = @ \cup Need(op[r], Statement(r))]
  /\ at' = [at EXCEPT ![r] = @ + 1]
  /\ UNCHANGED <<tables, issued, pc, op, erased>>

Covers(h, e) == h.active /\ h.target \in {e.ws, e.actor}

\* FOR UPDATE SKIP LOCKED; which events are old enough is left open, and the batch
\* limit with it.
Prunable(e) ==
  /\ ~e.tombstone
  /\ \A h \in holds : ~Covers(h, e)
  /\ ~Locked(<<"event", e.id>>)

Choose(r) ==
  /\ Pending(r)
  /\ Statement(r) = "choose"
  /\ \E old \in SUBSET {e \in events : Prunable(e)} :
       locks' = [locks EXCEPT ![r] = @ \cup {Exclusive(<<"event", e.id>>) : e \in old}]
  /\ at' = [at EXCEPT ![r] = @ + 1]
  /\ UNCHANGED <<tables, issued, pc, op, erased>>

-------------------------------------------------------------------------------
(* Commits.                                                                *)

Ends(r) ==
  /\ pc' = [pc EXCEPT ![r] = "done"]
  /\ op' = [op EXCEPT ![r] = NoOp]
  /\ at' = [at EXCEPT ![r] = 1]
  /\ locks' = [locks EXCEPT ![r] = {}]

Commits(r, kind) ==
  /\ Running(r)
  /\ op[r].kind = kind
  /\ ~Pending(r)
  /\ Ends(r)

Has(r, object) == Exclusive(object) \in locks[r]

Record(r, ws, about) ==
  [id |-> r, tombstone |-> FALSE, ws |-> ws, actor |-> op[r].by, about |-> about]

Tombstone(r, actor, about) ==
  [id |-> r, tombstone |-> TRUE, ws |-> Nobody, actor |-> actor, about |-> about]

CreateLegalHold(r) ==
  /\ Commits(r, "place")
  /\ holds' = holds \cup {[id |-> r, target |-> op[r].on, active |-> TRUE,
                            placedBy |-> op[r].by, releasedBy |-> Nobody]}
  /\ events' = events \cup {Tombstone(r, op[r].by, op[r].on)}
  /\ UNCHANGED <<live, accounts, members, issued, erased>>

ReleaseLegalHold(r) ==
  /\ Commits(r, "release")
  /\ holds' = {IF h.id = op[r].hold
                THEN [h EXCEPT !.active = FALSE, !.releasedBy = op[r].by]
                ELSE h : h \in holds}
  /\ events' = events \cup {Tombstone(r, op[r].by, Nobody)}
  /\ UNCHANGED <<live, accounts, members, issued, erased>>

PruneAuditEvents(r) ==
  /\ Commits(r, "prune")
  /\ events' = {e \in events : ~Has(r, <<"event", e.id>>)}
  /\ UNCHANGED <<live, accounts, members, holds, issued, erased>>

Unless(value, gone) == IF value = gone THEN Nobody ELSE value

\* Every reference that the statements found goes; the deletion of the users row
\* cascades to all memberships.
DeleteAccount(r) ==
  LET gone == op[r].on
      Forget(e) == [e EXCEPT !.actor = Unless(@, gone), !.about = Unless(@, gone)]
      Anonymize(h) == [h EXCEPT !.placedBy = Unless(@, gone), !.releasedBy = Unless(@, gone),
                                !.target = IF h.active THEN @ ELSE Unless(@, gone)]
  IN /\ Commits(r, "delete_account")
     /\ accounts' = accounts \ {gone}
     /\ members' = {m \in members : m.account # gone}
     /\ events' = {IF Has(r, <<"event", e.id>>) THEN Forget(e) ELSE e : e \in events}
                  \cup {Tombstone(r, Nobody, Nobody)}
     /\ holds' = {IF Has(r, <<"hold", h.id>>) THEN Anonymize(h) ELSE h : h \in holds}
     /\ erased' = erased \cup {gone}
     /\ UNCHANGED <<live, issued>>

MutDeleteWorkspace(r) ==
  /\ Commits(r, "delete_workspace")
  /\ live' = live \ {op[r].on}
  /\ members' = {m \in members : m.ws # op[r].on}
  /\ events' = events \cup {Tombstone(r, op[r].by, Nobody)}
  /\ UNCHANGED <<accounts, holds, issued, erased>>

\* Memberships cascade; events stay and lose their workspace.
DeleteWorkspace(r) ==
  /\ Commits(r, "delete_workspace")
  /\ live' = live \ {op[r].on}
  /\ members' = {m \in members : m.ws # op[r].on}
  /\ events' = {[e EXCEPT !.ws = Unless(@, op[r].on)] : e \in events}
               \cup {Tombstone(r, op[r].by, Nobody)}
  /\ UNCHANGED <<accounts, holds, issued, erased>>

CreateWorkspace(r) ==
  /\ Commits(r, "create")
  /\ live' = live \cup {op[r].on}
  /\ accounts' = accounts \cup {op[r].by}
  /\ members' = members \cup {[ws |-> op[r].on, account |-> op[r].by, role |-> "owner"]}
  /\ events' = events \cup {Record(r, op[r].on, Nobody)}
  /\ UNCHANGED <<holds, issued, erased>>

AddMember(r) ==
  /\ Commits(r, "add")
  /\ accounts' = accounts \cup {op[r].account}
  /\ \E role \in Roles \ {"owner"} :
       members' = members \cup {[ws |-> op[r].on, account |-> op[r].account, role |-> role]}
  /\ events' = events \cup {Record(r, op[r].on, Nobody)}
  /\ UNCHANGED <<live, holds, issued, erased>>

RemoveMember(r) ==
  /\ Commits(r, "remove")
  /\ members' = members \ RowOf(op[r])
  /\ events' = events \cup {Record(r, op[r].on, Nobody)}
  /\ UNCHANGED <<live, accounts, holds, issued, erased>>

\* A refusal, an error, the end of the client, or PostgreSQL's choice in a deadlock.
Abort(r) ==
  /\ Running(r)
  /\ Ends(r)
  /\ UNCHANGED <<tables, issued, erased>>

Step(r) ==
  \/ Begin(r) \/ Execute(r) \/ Choose(r) \/ Abort(r)
  \/ CreateLegalHold(r) \/ ReleaseLegalHold(r) \/ PruneAuditEvents(r)
  \/ DeleteAccount(r) \/ DeleteWorkspace(r) \/ CreateWorkspace(r)
  \/ AddMember(r) \/ RemoveMember(r)

Next == \E r \in Request : Step(r)

Spec == Init /\ [][Next]_vars

-------------------------------------------------------------------------------
(* Properties.                                                             *)

\* Rows are well formed and their foreign keys name rows that exist: memberships
\* and audit events a workspace, memberships an account (migrations 001, 006).
TypeOK ==
  /\ live \subseteq issued /\ issued \subseteq Workspace
  /\ accounts \subseteq Account
  /\ members \subseteq [ws : live, account : accounts, role : Roles]
  /\ events \subseteq Event /\ \A e \in events : e.ws \in live \cup {Nobody}
  /\ holds \subseteq Hold
  /\ pc \in [Request -> {"new", "running", "done"}]
  /\ op \in [Request -> Op \cup {NoOp}]
  /\ at \in [Request -> 1 .. 8]
  /\ \A r \in Request : Running(r) <=> op[r] # NoOp
  /\ \A r \in Request : Running(r) => at[r] <= Len(Steps(op[r])) + 1
  /\ erased \subseteq Account

\* "deletion cannot race a new hold" (docs/OPERATIONS.md:75): what is under an
\* active hold exists, and no hold or record of one, released ones included, still
\* names an account that was deleted.
HoldTargetsExist ==
  /\ \A h \in holds : h.active => h.target \in live \cup accounts
  /\ \A h \in holds : h.target \in Account => h.target \in accounts
  /\ \A e \in events : e.about \in Account => e.about \in accounts

\* "Events attributed to an account or Workspace under active hold are preserved, as
\* are [...] tombstones" (docs/OPERATIONS.md:77): while a hold is active no step
\* removes an event it covers or takes it out of its cover, and none removes a
\* tombstone.
HeldEventsKept ==
  [][/\ \A h \in holds, e \in events :
          Covers(h, e) /\ (\E g \in holds' : g.id = h.id /\ g.active)
            => \E f \in events' : f.id = e.id /\ Covers(h, f)
     /\ \A e \in events : e.tombstone => \E f \in events' : f.id = e.id /\ f.tombstone]_vars

\* A workspace always has an owner: the check of an account's ownership and the
\* creation of a workspace by it exclude each other (lockAccount), and what is removed
\* on a role read before the transaction is still not the membership of an owner.
OwnersKept == \A ws \in live : \E m \in members : m.ws = ws /\ m.role = "owner"

\* Requests wait in a circle only around a deletion.  A single one is enough where it
\* deletes a workspace and the row of a member who is being removed is locked before
\* the audit event references the workspace; around any other circle there are two.
\* An account under a hold is not deleted before the release of the hold has all its
\* locks.
DeadlocksAreOfDeletions ==
  LET Deletes(r) == op[r].kind \in {"delete_account", "delete_workspace"}
      Crossed(d, r) ==
        op[d].kind = "delete_workspace" /\ op[r].kind = "remove" /\ op[r].on = op[d].on
  IN \A S \in SUBSET {r \in Request : Pending(r)} :
       S # {} /\ (\A r \in S : \E s \in S : Waits(r, s))
         => \E d, r \in S : d # r /\ Deletes(d) /\ (Deletes(r) \/ Crossed(d, r))

\* What the deletion of an account promises (docs/OPERATIONS.md:62, "anonymizes
\* retained actor references"): no audit event or hold names an account that was
\* deleted and has asked for nothing since.
ErasedAccountsAreAnonymous ==
  /\ \A e \in events : e.actor \notin erased
  /\ \A h \in holds : erased \cap {h.placedBy, h.releasedBy} = {}
================================================================================
