------------------------------ MODULE Membership ------------------------------
(***************************************************************************)
(* The members of one workspace and the invitations to it, in PostgreSQL   *)
(* and in the JSON files that replace it when no database is configured.   *)
(* A request is authorized and reads what it decides on first; the change  *)
(* it makes comes later, in one transaction or under the mutex of the      *)
(* file.  With PostgreSQL the change and its outbox event commit together; *)
(* with files the event is written afterwards, or never.  Members are      *)
(* listed page by page, each page a request of its own.  The outbox worker *)
(* mails every invitation that is still pending when its event is handled, *)
(* if a mail server is configured, and drops the event if none is.         *)
(*                                                                         *)
(* Transactions on the same rows are serialized by the rows' locks, the    *)
(* unique indexes and the account's lock, so a commit is one step.  Legal  *)
(* holds, which can refuse a deletion, are in Retention.                   *)
(***************************************************************************)
EXTENDS Naturals, Sequences, FiniteSets, SequencesExt

CONSTANTS User,          (* user ids                                        *)
          Email,         (* canonical addresses                             *)
          EmailOf,       (* the verified address in each user's token; two  *)
                         (* users may share one                             *)
          InitialRole,   (* memberships at the start                        *)
          Call,          (* the requests clients may send                   *)
          MaxRequests,   (* bound: requests; also names what each inserts   *)
          MaxTime,       (* bound: the clock                                *)
          PageSize,      (* the limit of a listing                          *)
          MaxAttempts,   (* attempts before a dead letter (8 in the code)   *)
          MaxFaults,     (* bound: deliveries that fail                     *)
          Stores,        (* the stores considered                           *)
          NoRole,        (* no membership                                   *)
          NoInvitation   (* no row                                          *)

VARIABLES store,         (* where the data is, chosen when the server starts *)
          smtp,          (* a mail server is configured                     *)
          now,           (* the clock                                       *)
          alive,         (* the row of the workspace                        *)
          accounts,      (* rows of users; unused by the files              *)
          role,          (* per user: the role of the membership            *)
          rows,          (* the members in the order a listing shows them   *)
          invitations,   (* per request: the invitation it created          *)
          call,          (* the requests begun, in order                    *)
          stage,         (* per request: what it does next                  *)
          at,            (* per request: the time it has stamped            *)
          listing,       (* per request: the pages it has read              *)
          jobs,          (* per invitation: its event in the outbox         *)
          tries,         (* per invitation: failed deliveries               *)
          mailed,        (* invitations the mail server has accepted        *)
          faults,        (* failures so far                                 *)
          raced          (* history: a member was being added when the      *)
                         (* workspace was deleted                           *)

config == <<store, smtp>>
tables == <<alive, accounts, role, rows, invitations>>
requests == <<call, stage, at, listing>>
outbox == <<jobs, tries, mailed>>
vars == <<config, now, tables, requests, outbox, faults, raced>>

Roles == {"viewer", "developer", "admin", "owner"}

\* memberRole: what a request may grant.
Grantable == Roles \ {"owner"}

Rank == [viewer |-> 1, developer |-> 2, admin |-> 3, owner |-> 4]

Allows(r, required) == Rank[r] >= Rank[required]

Required == [add |-> "admin", update |-> "admin", remove |-> "admin", invite |-> "admin",
             revoke |-> "admin", delete |-> "owner", list |-> "viewer"]

Kinds == DOMAIN Required \cup {"claim", "leave"}

Request == 1..MaxRequests

\* on is the member to change; role, email and life describe what is granted;
\* id is the invitation to revoke or claim.
Calls == [kind : Kinds, by : User, on : User, role : Roles, email : Email,
          life : Nat \ {0}, id : Request]

Invitation == [email : Email, role : Grantable, expires : Nat,
               revoked : BOOLEAN, accepted : BOOLEAN]

\* got of the members there at the start were read, the next page begins after
\* offset, and total is the count that came with the current one.  moved says
\* that a member went, or came in between a count and its page.
Listing == [offset : Nat, total : Nat, start : SUBSET User, got : SUBSET User, moved : BOOLEAN]

ASSUME StoresAssumption == Stores \subseteq {"postgres", "file"}
ASSUME EmailAssumption == EmailOf \in [User -> Email]
ASSUME BoundsAssumption ==
  MaxRequests \in Nat /\ MaxTime \in Nat /\ MaxAttempts \in Nat \ {0} /\ MaxFaults \in Nat /\ PageSize \in Nat \ {0}
ASSUME CallAssumption == Call \subseteq Calls
ASSUME RoleAssumption ==
  /\ NoRole \notin Roles
  /\ InitialRole \in [User -> Roles \cup {NoRole}]
  /\ IsFiniteSet({u \in User : InitialRole[u] # NoRole})
  /\ \E u \in User : \A v \in User : InitialRole[v] = "owner" <=> v = u
ASSUME InvitationAssumption == NoInvitation \notin Invitation

Init ==
  /\ store \in Stores
  /\ smtp \in BOOLEAN
  /\ now = 0
  /\ alive = TRUE
  /\ accounts = {u \in User : InitialRole[u] # NoRole}
  /\ role = InitialRole
  /\ rows = SetToSeq({u \in User : InitialRole[u] # NoRole})
  /\ invitations = [i \in Request |-> NoInvitation]
  /\ call = <<>>
  /\ stage = [i \in Request |-> "idle"]
  /\ at = [i \in Request |-> 0]
  /\ listing = [i \in Request |-> [offset |-> 0, total |-> 0, start |-> {}, got |-> {}, moved |-> FALSE]]
  /\ jobs = [i \in Request |-> "none"]
  /\ tries = [i \in Request |-> 0]
  /\ mailed = {}
  /\ faults = 0
  /\ raced = FALSE

Fault == faults < MaxFaults /\ faults' = faults + 1

\* Open is neither revoked nor accepted: the predicate of the unique index.
Open(i) == invitations[i] # NoInvitation /\ ~invitations[i].revoked /\ ~invitations[i].accepted

\* SetStatus leaves "pending".
Pending(i, time) == Open(i) /\ invitations[i].expires > time

-------------------------------------------------------------------------------
(* Requests: what each reads before it changes anything.                   *)

\* The row of memberships, read from the pool outside any transaction.
Member(u) == role[u] # NoRole

Authorized(c) == Member(c.by) /\ Allows(role[c.by], Required[c.kind])

\* InvitationForEmail, and the status ClaimInvitation looks at.
ShownToClaimant(c) == Pending(c.id, now) /\ invitations[c.id].email = EmailOf[c.by]

Valid(c) == c.kind \in {"add", "update", "invite"} => c.role \in Grantable

First(c) == CASE c.kind \in {"update", "remove"} -> "reading"
              [] c.kind = "list" -> "counting"
              [] OTHER -> "changing"

\* A request that passes its first check; one that does not changes nothing.
Begin(c) ==
  LET i == Len(call) + 1 IN
  /\ i \in Request
  /\ c.kind = "leave" => store = "postgres"
  /\ c.kind \in DOMAIN Required => Authorized(c)
  /\ c.kind = "claim" => ShownToClaimant(c)
  /\ Valid(c)
  /\ call' = Append(call, c)
  /\ stage' = [stage EXCEPT ![i] = First(c)]
  /\ at' = [at EXCEPT ![i] = now]
  /\ listing' = [listing EXCEPT ![i].start = IF c.kind = "list" THEN ToSet(rows) ELSE {}]
  /\ UNCHANGED <<config, now, tables, outbox, faults, raced>>

\* UpdateMemberRole and RemoveMember look at the member they are to change,
\* then stamp the time.
ReadMember(i) ==
  /\ stage[i] = "reading"
  /\ Member(call[i].on) /\ role[call[i].on] # "owner"
  /\ stage' = [stage EXCEPT ![i] = "changing"]
  /\ at' = [at EXCEPT ![i] = now]
  /\ UNCHANGED <<config, now, tables, call, listing, outbox, faults, raced>>

\* A request that is refused, fails or is given up changes nothing more: it
\* stays at the stage it has reached.
Finish(i, s) ==
  /\ stage' = [stage EXCEPT ![i] = s]
  /\ at' = [at EXCEPT ![i] = 0]
  /\ UNCHANGED <<config, now, call, faults>>

Changing(i, kind) == stage[i] = "changing" /\ call[i].kind = kind

-------------------------------------------------------------------------------
(* The changes.                                                            *)

\* The elements of S, each of them once, in some order.
Orders(S) == Injection(1..Cardinality(S), S)

Before(s, u, v) == \E p, q \in DOMAIN s : p < q /\ s[p] = u /\ s[q] = v

\* A row takes its place by created_at, which its request stamped earlier; the
\* file appends it.
InsertRow(u) ==
  /\ \E p \in 1..Len(rows) + 1 :
       /\ store = "file" => p = Len(rows) + 1
       /\ rows' = InsertAt(rows, p, u)
  /\ listing' = [i \in Request |->
       IF stage[i] = "fetching" THEN [listing[i] EXCEPT !.moved = TRUE] ELSE listing[i]]

MutRemoveRows(gone) == UNCHANGED <<rows, listing>>

\* The others keep their order; listings in progress miss something.
RemoveRows(gone) ==
  IF ToSet(rows) \cap gone = {} THEN UNCHANGED <<rows, listing>>
  ELSE /\ rows' \in Orders(ToSet(rows) \ gone)
       /\ \A p, q \in DOMAIN rows' : p < q => Before(rows, rows'[p], rows'[q])
       /\ listing' = [i \in Request |->
            IF stage[i] \in {"counting", "fetching", "paging"}
            THEN [listing[i] EXCEPT !.moved = TRUE] ELSE listing[i]]

MutVacant(u) == TRUE

\* The primary key, or the search of the file.
Vacant(u) == role[u] = NoRole

\* ensureUser or upsertVerifiedUser, then the insert into memberships.
InsertMember(u, r) ==
  /\ Vacant(u)
  /\ role' = [role EXCEPT ![u] = r]
  /\ accounts' = accounts \cup {u}
  /\ InsertRow(u)

MutReferenced == TRUE

\* The foreign key refuses a member of a workspace that is gone; the file does
\* not look for the workspace.
Referenced == store = "postgres" => alive

AddMember(i) ==
  /\ Changing(i, "add")
  /\ Referenced
  /\ InsertMember(call[i].on, call[i].role)
  /\ Finish(i, "done")
  /\ UNCHANGED <<alive, invitations, outbox, raced>>

SetRole(u, r) ==
  /\ Member(u)
  /\ role' = [role EXCEPT ![u] = r]

UpdateMemberRole(i) ==
  /\ Changing(i, "update")
  /\ SetRole(call[i].on, call[i].role)
  /\ Finish(i, "done")
  /\ UNCHANGED <<alive, accounts, rows, invitations, listing, outbox, raced>>

DropMember(u) ==
  /\ Member(u)
  /\ role' = [role EXCEPT ![u] = NoRole]
  /\ RemoveRows({u})

RemoveMember(i) ==
  /\ Changing(i, "remove")
  /\ DropMember(call[i].on)
  /\ Finish(i, "done")
  /\ UNCHANGED <<alive, accounts, invitations, outbox, raced>>

\* created_by and revoked_by reference users, whose row may be gone.
KnownCaller(i) == store = "postgres" => call[i].by \in accounts

\* Open invitations to an address, those that have expired for request i aside.
OpenFor(i) ==
  {j \in Request : Open(j) /\ invitations[j].email = call[i].email /\ invitations[j].expires > at[i]}

MutExpiredFor(i) == {}

\* Expired ones are revoked first, so that the index has room for the new row.
ExpiredFor(i) ==
  {j \in Request : Open(j) /\ invitations[j].email = call[i].email /\ invitations[j].expires <= at[i]}

InsertInvitation(i) ==
  /\ alive
  /\ KnownCaller(i)
  /\ OpenFor(i) = {}
  /\ invitations' = [j \in Request |->
       IF j = i
       THEN [email |-> call[i].email, role |-> call[i].role, expires |-> at[i] + call[i].life,
             revoked |-> FALSE, accepted |-> FALSE]
       ELSE IF j \in ExpiredFor(i) THEN [invitations[j] EXCEPT !.revoked = TRUE] ELSE invitations[j]]

\* mutate: with PostgreSQL the event is enqueued in the same transaction.
CreateInvitation(i) ==
  /\ Changing(i, "invite")
  /\ InsertInvitation(i)
  /\ IF store = "postgres"
     THEN jobs' = [jobs EXCEPT ![i] = "queued"] /\ Finish(i, "done")
     ELSE Finish(i, "announcing") /\ UNCHANGED jobs
  /\ UNCHANGED <<alive, accounts, role, rows, listing, tries, mailed, raced>>

\* With files the audit event and the outbox event follow the change, unless the
\* server stops or a write fails in between.
Announce(i) ==
  /\ stage[i] = "announcing"
  /\ jobs' = [jobs EXCEPT ![i] = "queued"]
  /\ Finish(i, "done")
  /\ UNCHANGED <<tables, listing, tries, mailed, raced>>

RevokeRow(i) ==
  /\ Pending(call[i].id, at[i])
  /\ KnownCaller(i)
  /\ invitations' = [invitations EXCEPT ![call[i].id].revoked = TRUE]

RevokeInvitation(i) ==
  /\ Changing(i, "revoke")
  /\ RevokeRow(i)
  /\ Finish(i, "done")
  /\ UNCHANGED <<alive, accounts, role, rows, listing, outbox, raced>>

MutClaimable(i) == invitations[call[i].id] # NoInvitation /\ invitations[call[i].id].expires > at[i]

\* SELECT ... FOR UPDATE: still pending at the time the request stamped.
Claimable(i) == Pending(call[i].id, at[i])

ClaimRow(i) ==
  /\ Claimable(i)
  /\ InsertMember(call[i].by, invitations[call[i].id].role)
  /\ invitations' = [invitations EXCEPT ![call[i].id].accepted = TRUE]

ClaimInvitation(i) ==
  /\ Changing(i, "claim")
  /\ ClaimRow(i)
  /\ Finish(i, "done")
  /\ UNCHANGED <<alive, outbox, raced>>

\* The cascade of the foreign keys, or the filters of the file.
DropWorkspace ==
  /\ alive
  /\ alive' = FALSE
  /\ role' = [u \in User |-> NoRole]
  /\ RemoveRows(User)
  /\ invitations' = [j \in Request |-> NoInvitation]

DeleteWorkspace(i) ==
  /\ Changing(i, "delete")
  /\ DropWorkspace
  /\ raced' = \E j \in Request : Changing(j, "add")
  /\ Finish(i, "done")
  /\ UNCHANGED <<accounts, outbox>>

\* An account that owns nothing goes with its membership and with the
\* invitations to its address.
DeleteAccount(i) ==
  LET u == call[i].by IN
  /\ Changing(i, "leave")
  /\ role[u] # "owner"
  /\ role' = [role EXCEPT ![u] = NoRole]
  /\ RemoveRows({u})
  /\ accounts' = accounts \ {u}
  /\ invitations' = [j \in Request |->
       IF invitations[j] # NoInvitation /\ invitations[j].email = EmailOf[u]
       THEN NoInvitation ELSE invitations[j]]
  /\ Finish(i, "done")
  /\ UNCHANGED <<alive, outbox, raced>>

-------------------------------------------------------------------------------
(* Listing the members page by page.                                       *)

\* Every further page is authorized again.
AuthorizePage(i) ==
  /\ stage[i] = "paging"
  /\ Authorized(call[i])
  /\ stage' = [stage EXCEPT ![i] = "counting"]
  /\ UNCHANGED <<config, now, tables, call, at, listing, outbox, faults, raced>>

\* SELECT COUNT(*), a statement of its own.
CountMembers(i) ==
  /\ store = "postgres"
  /\ stage[i] = "counting"
  /\ listing' = [listing EXCEPT ![i].total = Len(rows)]
  /\ stage' = [stage EXCEPT ![i] = "fetching"]
  /\ UNCHANGED <<config, now, tables, call, at, outbox, faults, raced>>

MutMore(offset, n, total) == offset + n + 1 < total

\* writeRepositoryPage hands out a cursor to the next page.
More(offset, n, total) == offset + n < total

\* LIMIT and OFFSET, or PageSlice.
Page(offset) == {rows[k] : k \in (offset + 1)..(offset + PageSize) \cap DOMAIN rows}

FetchMembers(i) ==
  LET l == listing[i]
      total == IF store = "file" THEN Len(rows) ELSE l.total
      page == Page(l.offset)
      next == l.offset + Cardinality(page) IN
  /\ stage[i] = IF store = "file" THEN "counting" ELSE "fetching"
  /\ listing' = [listing EXCEPT ![i].got = @ \cup page, ![i].offset = next]
  /\ stage' = [stage EXCEPT ![i] = IF More(l.offset, Cardinality(page), total) THEN "paging" ELSE "done"]
  /\ UNCHANGED <<config, now, tables, call, at, outbox, faults, raced>>

-------------------------------------------------------------------------------
(* The outbox worker and the mail.                                         *)

MutGivesUp(n) == n + 1 >= MaxAttempts - 1

\* attempts has reached the limit: the event is dead-lettered.
GivesUp(n) == n + 1 >= MaxAttempts

\* The handler returns an error.
HandlerFails(i) ==
  /\ tries' = [tries EXCEPT ![i] = @ + 1]
  /\ jobs' = [jobs EXCEPT ![i] = IF GivesUp(tries[i]) THEN "dead" ELSE "queued"]

\* Without a mail server there is no InvitationDeliveryHandler: the event is
\* acknowledged with a warning, whatever became of the invitation.
SkipInvitation(i) ==
  /\ jobs[i] = "queued"
  /\ ~smtp
  /\ jobs' = [jobs EXCEPT ![i] = "processed"]
  /\ UNCHANGED <<config, now, tables, requests, tries, mailed, faults, raced>>

\* Handle loads the invitation: an error if it is gone, nothing to do unless it
\* is pending.
LoadInvitation(i) ==
  /\ jobs[i] = "queued"
  /\ smtp
  /\ IF invitations[i] = NoInvitation
     THEN HandlerFails(i)
     ELSE /\ jobs' = [jobs EXCEPT ![i] = IF Pending(i, now) THEN "loaded" ELSE "processed"]
          /\ UNCHANGED tries
  /\ UNCHANGED <<config, now, tables, requests, mailed, faults, raced>>

SendInvitation(i) ==
  /\ jobs[i] = "loaded"
  /\ jobs' = [jobs EXCEPT ![i] = "processed"]
  /\ mailed' = mailed \cup {i}
  /\ UNCHANGED <<config, now, tables, requests, tries, faults, raced>>

\* The session with the mail server fails, before or after it took the message,
\* or the worker stops.
SendFails(i) ==
  /\ jobs[i] = "loaded"
  /\ Fault
  /\ HandlerFails(i)
  /\ mailed' \in {mailed, mailed \cup {i}}
  /\ UNCHANGED <<config, now, tables, requests, raced>>

Tick ==
  /\ now < MaxTime
  /\ now' = now + 1
  /\ UNCHANGED <<config, tables, requests, outbox, faults, raced>>

-------------------------------------------------------------------------------
Change(i) ==
  \/ AddMember(i) \/ UpdateMemberRole(i) \/ RemoveMember(i)
  \/ CreateInvitation(i) \/ Announce(i)
  \/ RevokeInvitation(i) \/ ClaimInvitation(i)
  \/ DeleteWorkspace(i) \/ DeleteAccount(i)

List(i) == AuthorizePage(i) \/ CountMembers(i) \/ FetchMembers(i)

Deliver(i) == SkipInvitation(i) \/ LoadInvitation(i) \/ SendInvitation(i) \/ SendFails(i)

Next ==
  \/ Tick
  \/ \E c \in Call : Begin(c)
  \/ \E i \in Request : ReadMember(i) \/ Change(i) \/ List(i) \/ Deliver(i)

Spec == Init /\ [][Next]_vars

\* The worker loop runs as long as the server does: a queued event is handled and
\* a loaded invitation sent.  Nothing is assumed of clients.
Fairness ==
  \A i \in Request :
    WF_vars(SkipInvitation(i) \/ LoadInvitation(i)) /\ WF_vars(SendInvitation(i))

FairSpec == Spec /\ Fairness

-------------------------------------------------------------------------------
Stages == {"idle", "reading", "changing", "announcing", "counting", "fetching", "paging", "done"}

\* Types, and that a listing shows each membership once: the rows are in step
\* with the roles through every insert, removal and cascade.
TypeOK ==
  /\ store \in Stores
  /\ smtp \in BOOLEAN
  /\ now \in 0..MaxTime
  /\ alive \in BOOLEAN
  /\ accounts \subseteq User
  /\ role \in [User -> Roles \cup {NoRole}]
  /\ rows \in Seq(User)
  /\ ToSet(rows) = {u \in User : role[u] # NoRole}
  /\ \A p, q \in DOMAIN rows : rows[p] = rows[q] => p = q
  /\ invitations \in [Request -> Invitation \cup {NoInvitation}]
  /\ call \in Seq(Call) /\ Len(call) <= MaxRequests
  /\ stage \in [Request -> Stages]
  /\ \A i \in Request : stage[i] = "idle" <=> i > Len(call)
  /\ at \in [Request -> 0..MaxTime]
  /\ listing \in [Request -> Listing]
  /\ jobs \in [Request -> {"none", "queued", "loaded", "processed", "dead"}]
  /\ tries \in [Request -> Nat]
  /\ mailed \subseteq Request
  /\ faults \in 0..MaxFaults
  /\ raced \in BOOLEAN

\* A workspace keeps its owner, and only one: the role is checked before the
\* transaction that changes it, and an owner may claim an invitation like anyone.
OwnerKept == alive => \E u \in User : \A v \in User : role[v] = "owner" <=> v = u

\* At most one invitation to an address is open, whatever expired, was claimed
\* or revoked while it was created.
OneOpenInvitation ==
  \A i, j \in Request :
    Open(i) /\ Open(j) /\ invitations[i].email = invitations[j].email => i = j

\* Of the requests that claim or revoke an invitation at most one is told that it
\* succeeded, also when two users have the same address.
SettledOnce ==
  \A i, j \in DOMAIN call :
    /\ stage[i] = "done" /\ stage[j] = "done"
    /\ call[i].kind \in {"claim", "revoke"} /\ call[j].kind \in {"claim", "revoke"}
    /\ call[i].id = call[j].id
    => i = j

\* Nobody is a member of a deleted workspace or invited to it.  Only the file
\* lets a member in that was being added when the workspace went, and that
\* member may then add others.
GoneIsGone ==
  ~alive /\ ~(store = "file" /\ raced) =>
    /\ \A u \in User : role[u] = NoRole
    /\ \A i \in Request : invitations[i] = NoInvitation

\* A listing read to its end shows every member who was there throughout, unless
\* a member went meanwhile or came between a count and its page.
ListingIsComplete ==
  \A i \in DOMAIN call :
    call[i].kind = "list" /\ stage[i] = "done" /\ ~listing[i].moved => listing[i].start \subseteq listing[i].got

\* Where a mail server is configured, an invitation its creator was told of is
\* mailed while it is pending: its event is in the outbox, and fewer than
\* MaxAttempts failures do not stop it.  A hosted server has one, unless staging
\* allows undelivered invitations; with files there usually is none, and nothing
\* is promised then.
InvitationsAreMailed ==
  \A i \in Request :
    smtp /\ stage[i] = "done" /\ Pending(i, now) ~> i \in mailed \/ ~Pending(i, now)
===============================================================================
