--------------------------- MODULE MembershipProofs ---------------------------
(***************************************************************************)
(* Proofs about Membership for any users, addresses, initial members and   *)
(* requests, any clock, and any number of requests and faults.             *)
(***************************************************************************)
EXTENDS Membership, FiniteSetTheorems, TLAPS

USE StoresAssumption, EmailAssumption, BoundsAssumption, CallAssumption, RoleAssumption, InvitationAssumption
USE DEF config

-------------------------------------------------------------------------------
(* The inductive invariant.                                                *)

\* The part of TypeOK that the properties below rest on.
ControlTyped ==
  /\ store \in Stores
  /\ smtp \in BOOLEAN
  /\ now \in Nat
  /\ alive \in BOOLEAN
  /\ role \in [User -> Roles \cup {NoRole}]
  /\ invitations \in [Request -> Invitation \cup {NoInvitation}]
  /\ call \in Seq(Call) /\ Len(call) <= MaxRequests
  /\ stage \in [Request -> Stages]
  /\ \A i \in Request : stage[i] = "idle" <=> i > Len(call)
  /\ at \in [Request -> Nat]

\* A request is where its kind leads it, and grants what may be granted.
StagesFit ==
  \A i \in Request : stage[i] # "idle" =>
    /\ call[i] \in Call
    /\ Valid(call[i])
    /\ stage[i] = "reading" => call[i].kind \in {"update", "remove"}
    /\ stage[i] = "announcing" => call[i].kind = "invite"
    /\ stage[i] \in {"counting", "fetching", "paging"} => call[i].kind = "list"

ControlInv == ControlTyped /\ StagesFit

\* Who is to be changed or removed is no owner, and nobody has become one since.
TargetsAreNoOwners ==
  \A i \in Request :
    stage[i] = "changing" /\ call[i].kind \in {"update", "remove"} => role[call[i].on] # "owner"

OwnerInv == OwnerKept /\ TargetsAreNoOwners

\* A row of invitations comes from a request to invite that has made its change.
RowsAreCreated ==
  \A j \in Request : invitations[j] # NoInvitation =>
    call[j].kind = "invite" /\ stage[j] \in {"announcing", "done"}

\* Who was told that an invitation is settled has settled it for good.
Settled(i) == stage[i] = "done" /\ call[i].kind \in {"claim", "revoke"}

SettledForGood ==
  \A i \in Request : Settled(i) =>
    LET j == call[i].id IN call[j].kind = "invite" /\ stage[j] \in {"announcing", "done"} /\ ~Open(j)

SettleInv == RowsAreCreated /\ SettledForGood /\ SettledOnce

\* With files, nobody is being added to a deleted workspace unless it was so at
\* the deletion.
NoneIsAdded ==
  ~alive /\ store = "file" /\ ~raced => \A i \in Request : ~Changing(i, "add")

GoneInv == GoneIsGone /\ NoneIsAdded

-------------------------------------------------------------------------------
(* Requests and steps.                                                     *)

LEMMA Vocabulary ==
  /\ Grantable \subseteq Roles /\ "owner" \notin Grantable /\ "owner" \in Roles
  /\ NoRole \notin Roles /\ NoRole # "owner"
  /\ Request \subseteq Nat
  BY DEF Grantable, Roles, Request

\* What steps other than those of clients leave alone.
Elsewhere == now' \in {now, now + 1} /\ UNCHANGED <<config, tables, call, stage, at, raced>>

LEMMA Steps ==
  ASSUME [Next]_vars
  PROVE  \/ \E c \in Call : Begin(c)
         \/ \E i \in Request : ReadMember(i) \/ Change(i) \/ List(i)
         \/ Elsewhere
  <1>1. ASSUME NEW i \in Request, Deliver(i) PROVE Elsewhere
    BY <1>1 DEF Deliver, SkipInvitation, LoadInvitation, SendInvitation, SendFails, Elsewhere, requests
  <1>2. CASE Tick \/ UNCHANGED vars
    BY <1>2 DEF Tick, vars, Elsewhere, requests, tables
  <1>3. QED
    BY <1>1, <1>2 DEF Next

\* What a request does to itself when it begins.
LEMMA BeginEffect ==
  ASSUME ControlTyped, NEW c \in Call, Begin(c)
  PROVE  LET i == Len(call) + 1 IN
         /\ i \in Request /\ stage[i] = "idle"
         /\ call' \in Seq(Call) /\ Len(call') = i /\ call'[i] = c
         /\ \A j \in Request : stage[j] # "idle" => call'[j] = call[j] /\ j # i
         /\ stage' = [stage EXCEPT ![i] = First(c)] /\ stage'[i] = First(c)
         /\ at' = [at EXCEPT ![i] = now]
         /\ Valid(c) /\ UNCHANGED <<config, now, tables, raced>>
  <1>1. call \in Seq(Call) /\ Len(call) \in Nat
    BY DEF ControlTyped
  <1>2. call' = Append(call, c)
    BY DEF Begin
  <1>3. call' \in Seq(Call) /\ Len(call') = Len(call) + 1 /\ call'[Len(call) + 1] = c
        /\ \A j \in 1..Len(call) : call'[j] = call[j]
    BY <1>1, <1>2
  <1>4. \A j \in Request : stage[j] # "idle" => j \in 1..Len(call)
    BY <1>1 DEF ControlTyped, Request
  <1>5. QED
    BY <1>1, <1>3, <1>4 DEF Begin, ControlTyped, Request

\* What a request that changes something does to itself.
LEMMA ChangeEffect ==
  ASSUME ControlTyped, NEW i \in Request, Change(i)
  PROVE  /\ stage[i] \in {"changing", "announcing"}
         /\ stage' = [stage EXCEPT ![i] = "done"] \/ stage' = [stage EXCEPT ![i] = "announcing"]
         /\ stage'[i] = "announcing" => call[i].kind = "invite" /\ stage[i] = "changing"
         /\ at' = [at EXCEPT ![i] = 0]
         /\ UNCHANGED <<config, now, call>>
  BY DEF Change, AddMember, UpdateMemberRole, RemoveMember, CreateInvitation, Announce, RevokeInvitation,
         ClaimInvitation, DeleteWorkspace, DeleteAccount, Finish, Changing, ControlTyped

LEMMA ListEffect ==
  ASSUME ControlTyped, NEW i \in Request, List(i)
  PROVE  /\ stage[i] \in {"counting", "fetching", "paging"}
         /\ \E s \in {"counting", "fetching", "paging", "done"} : stage' = [stage EXCEPT ![i] = s]
         /\ UNCHANGED <<config, now, tables, call, at, raced>>
  BY DEF List, AuthorizePage, CountMembers, FetchMembers

LEMMA ReadEffect ==
  ASSUME ControlTyped, NEW i \in Request, ReadMember(i)
  PROVE  /\ stage[i] = "reading" /\ role[call[i].on] # "owner"
         /\ stage' = [stage EXCEPT ![i] = "changing"]
         /\ at' = [at EXCEPT ![i] = now]
         /\ UNCHANGED <<config, now, tables, call, raced>>
  BY DEF ReadMember

LEMMA AnnouncesInvitation ==
  ASSUME ControlInv, NEW i \in Request, Announce(i)
  PROVE  call[i].kind = "invite"
  BY DEF Announce, ControlInv, StagesFit

\* Of the changes, only these touch roles, and only these invitations.
LEMMA UntouchedRoles ==
  ASSUME NEW i \in Request, CreateInvitation(i) \/ Announce(i) \/ RevokeInvitation(i)
  PROVE  UNCHANGED <<alive, role>>
  BY DEF CreateInvitation, Announce, RevokeInvitation, tables

LEMMA UntouchedInvitations ==
  ASSUME NEW i \in Request, AddMember(i) \/ UpdateMemberRole(i) \/ RemoveMember(i) \/ Announce(i)
  PROVE  UNCHANGED <<alive, invitations>>
  BY DEF AddMember, UpdateMemberRole, RemoveMember, Announce, tables

-------------------------------------------------------------------------------
(* Control.                                                                *)

LEMMA ControlInit == Init => ControlInv
  BY DEF Init, ControlInv, ControlTyped, StagesFit, Request, Stages

\* A row that a request writes is one.
LEMMA RowsAreTyped ==
  ASSUME ControlInv, NEW i \in Request, Change(i)
  PROVE  /\ alive' \in BOOLEAN
         /\ role' \in [User -> Roles \cup {NoRole}]
         /\ invitations' \in [Request -> Invitation \cup {NoInvitation}]
  <1> USE DEF ControlInv, ControlTyped
  <1>0. stage[i] # "idle" /\ call[i] \in Calls /\ Valid(call[i])
    BY ChangeEffect DEF StagesFit
  <1>1. CASE AddMember(i)
    BY <1>0, <1>1 DEF AddMember, InsertMember, Calls
  <1>2. CASE UpdateMemberRole(i)
    BY <1>0, <1>2 DEF UpdateMemberRole, SetRole, Calls
  <1>3. CASE RemoveMember(i)
    BY <1>3 DEF RemoveMember, DropMember
  <1>4. CASE CreateInvitation(i)
    <2>1. call[i].email \in Email /\ call[i].role \in Grantable /\ call[i].life \in Nat /\ at[i] \in Nat
      BY <1>0, <1>4 DEF CreateInvitation, Changing, Valid, Calls
    <2> DEFINE new == [email |-> call[i].email, role |-> call[i].role, expires |-> at[i] + call[i].life,
                       revoked |-> FALSE, accepted |-> FALSE]
    <2>2. new \in Invitation
      BY <2>1 DEF Invitation
    <2>3. \A j \in ExpiredFor(i) : j \in Request /\ [invitations[j] EXCEPT !.revoked = TRUE] \in Invitation
      <3> SUFFICES ASSUME NEW j \in ExpiredFor(i)
                   PROVE  j \in Request /\ [invitations[j] EXCEPT !.revoked = TRUE] \in Invitation
        OBVIOUS
      <3>1. j \in Request /\ invitations[j] \in Invitation
        BY DEF ExpiredFor, Open
      <3>2. [invitations[j] EXCEPT !.revoked = TRUE] \in Invitation
        BY <3>1 DEF Invitation
      <3>3. QED
        BY <3>1, <3>2
    <2>4. invitations' = [j \in Request |->
             IF j = i THEN new
             ELSE IF j \in ExpiredFor(i) THEN [invitations[j] EXCEPT !.revoked = TRUE] ELSE invitations[j]]
      BY <1>4 DEF CreateInvitation, InsertInvitation
    <2> HIDE DEF new
    <2>5. invitations' \in [Request -> Invitation \cup {NoInvitation}]
      BY <2>2, <2>3, <2>4
    <2>6. QED
      BY <1>4, <2>5 DEF CreateInvitation
  <1>5. CASE Announce(i)
    BY <1>5 DEF Announce, tables
  <1>6. CASE RevokeInvitation(i)
    <2>1. invitations[call[i].id] \in Invitation
      BY <1>0, <1>6 DEF RevokeInvitation, RevokeRow, Pending, Open, Calls
    <2>2. [invitations[call[i].id] EXCEPT !.revoked = TRUE] \in Invitation
      BY <2>1 DEF Invitation
    <2>3. QED
      BY <1>6, <2>2 DEF RevokeInvitation, RevokeRow
  <1>7. CASE ClaimInvitation(i)
    <2>1. invitations[call[i].id] \in Invitation
      BY <1>0, <1>7 DEF ClaimInvitation, ClaimRow, Claimable, Pending, Open, Calls
    <2>2. /\ [invitations[call[i].id] EXCEPT !.accepted = TRUE] \in Invitation
          /\ invitations[call[i].id].role \in Roles
      BY <2>1, Vocabulary DEF Invitation
    <2>3. QED
      BY <1>7, <2>2 DEF ClaimInvitation, ClaimRow, InsertMember
  <1>8. CASE DeleteWorkspace(i)
    BY <1>8 DEF DeleteWorkspace, DropWorkspace
  <1>9. CASE DeleteAccount(i)
    BY <1>9 DEF DeleteAccount
  <1>10. QED
    BY <1>1, <1>2, <1>3, <1>4, <1>5, <1>6, <1>7, <1>8, <1>9 DEF Change

\* A request that moves to a stage of its kind leaves every request at one.
LEMMA MoveFits ==
  ASSUME ControlInv, NEW i \in Request, NEW s \in Stages \ {"idle", "reading"},
         stage[i] # "idle", stage' = [stage EXCEPT ![i] = s], UNCHANGED call,
         s = "announcing" => call[i].kind = "invite",
         s \in {"counting", "fetching", "paging"} => call[i].kind = "list"
  PROVE  /\ stage' \in [Request -> Stages]
         /\ \A j \in Request : stage'[j] = "idle" <=> j > Len(call')
         /\ StagesFit'
  <1> USE DEF ControlInv, ControlTyped
  <1>1. stage'[i] = s /\ \A j \in Request : j # i => stage'[j] = stage[j]
    OBVIOUS
  <1>2. \A j \in Request : stage'[j] = "idle" <=> stage[j] = "idle"
    BY <1>1
  <1>3. StagesFit'
    <2> SUFFICES ASSUME NEW j \in Request, stage'[j] # "idle"
                 PROVE  /\ call[j] \in Call
                        /\ Valid(call[j])
                        /\ stage'[j] = "reading" => call[j].kind \in {"update", "remove"}
                        /\ stage'[j] = "announcing" => call[j].kind = "invite"
                        /\ stage'[j] \in {"counting", "fetching", "paging"} => call[j].kind = "list"
      BY DEF StagesFit, Valid
    <2>1. call[j] \in Call /\ Valid(call[j])
      BY <1>2 DEF StagesFit
    <2>2. CASE j = i
      BY <1>1, <2>1, <2>2
    <2>3. CASE j # i
      BY <1>1, <2>1, <2>3 DEF StagesFit
    <2>4. QED
      BY <2>2, <2>3
  <1>4. QED
    BY <1>2, <1>3

LEMMA ControlPreserved == ControlInv /\ [Next]_vars => ControlInv'
  <1> SUFFICES ASSUME ControlInv, [Next]_vars PROVE ControlInv'
    OBVIOUS
  <1> USE DEF ControlInv, ControlTyped, tables
  <1>1. ASSUME NEW c \in Call, Begin(c) PROVE ControlInv'
    <2> DEFINE i == Len(call) + 1
    <2>1. /\ i \in Request /\ stage[i] = "idle"
          /\ call' \in Seq(Call) /\ Len(call') = i /\ call'[i] = c
          /\ \A j \in Request : stage[j] # "idle" => call'[j] = call[j] /\ j # i
          /\ stage' = [stage EXCEPT ![i] = First(c)] /\ stage'[i] = First(c)
          /\ at' = [at EXCEPT ![i] = now]
          /\ Valid(c) /\ UNCHANGED <<config, now, tables, raced>>
      BY <1>1, BeginEffect
    <2>2. First(c) \in Stages /\ First(c) # "idle"
      BY DEF First, Stages
    <2>3. First(c) = "reading" => c.kind \in {"update", "remove"}
      BY DEF First
    <2>4. First(c) # "announcing" /\ First(c) \notin {"fetching", "paging"} /\ (First(c) = "counting" => c.kind = "list")
      BY DEF First
    <2>5. Len(call) \in Nat /\ Request \subseteq Nat
      BY DEF Request
    <2> HIDE DEF i
    <2>6. \A j \in Request : j # i => stage'[j] = stage[j]
      BY <2>1
    <2>7. \A j \in Request : stage'[j] = "idle" <=> j > i
      BY <2>1, <2>2, <2>5, <2>6 DEF i
    <2>8. StagesFit'
      <3> SUFFICES ASSUME NEW j \in Request, stage'[j] # "idle"
                   PROVE  /\ call'[j] \in Call
                          /\ Valid(call'[j])
                          /\ stage'[j] = "reading" => call'[j].kind \in {"update", "remove"}
                          /\ stage'[j] = "announcing" => call'[j].kind = "invite"
                          /\ stage'[j] \in {"counting", "fetching", "paging"} => call'[j].kind = "list"
        BY DEF StagesFit, Valid
      <3>1. CASE j = i
        BY <2>1, <2>2, <2>3, <2>4, <3>1
      <3>2. CASE j # i
        BY <2>1, <2>6, <3>2 DEF StagesFit
      <3>3. QED
        BY <3>1, <3>2
    <2>9. stage' \in [Request -> Stages] /\ at' \in [Request -> Nat]
      BY <2>1, <2>2
    <2>10. UNCHANGED <<config, now, alive, role, invitations>>
      BY <2>1
    <2>11. \A j \in Request : stage'[j] = "idle" <=> j > Len(call')
      BY <2>1, <2>7
    <2>12. Len(call') <= MaxRequests
      BY <2>1 DEF Request
    <2>13. QED
      BY <2>1, <2>8, <2>9, <2>10, <2>11, <2>12
  <1>2. ASSUME NEW i \in Request, ReadMember(i) PROVE ControlInv'
    <2>1. /\ stage[i] = "reading" /\ stage' = [stage EXCEPT ![i] = "changing"]
          /\ at' = [at EXCEPT ![i] = now]
          /\ UNCHANGED <<config, now, tables, call, raced>>
      BY <1>2, ReadEffect
    <2>2. /\ stage' \in [Request -> Stages]
          /\ \A j \in Request : stage'[j] = "idle" <=> j > Len(call')
          /\ StagesFit'
      BY <2>1, MoveFits DEF Stages
    <2>3. QED
      BY <2>1, <2>2
  <1>3. ASSUME NEW i \in Request, Change(i) PROVE ControlInv'
    <2>1. PICK s \in {"done", "announcing"} : stage' = [stage EXCEPT ![i] = s]
      BY <1>3, ChangeEffect
    <2>2. /\ stage[i] # "idle" /\ at' = [at EXCEPT ![i] = 0]
          /\ stage'[i] = "announcing" => call[i].kind = "invite"
          /\ UNCHANGED <<config, now, call>>
      BY <1>3, ChangeEffect
    <2>3. s \in Stages \ {"idle", "reading"} /\ (s = "announcing" => call[i].kind = "invite")
      BY <2>1, <2>2 DEF Stages
    <2>4. /\ stage' \in [Request -> Stages]
          /\ \A j \in Request : stage'[j] = "idle" <=> j > Len(call')
          /\ StagesFit'
      BY <2>1, <2>2, <2>3, MoveFits
    <2>5. alive' \in BOOLEAN /\ role' \in [User -> Roles \cup {NoRole}]
          /\ invitations' \in [Request -> Invitation \cup {NoInvitation}]
      BY <1>3, RowsAreTyped
    <2>6. QED
      BY <2>2, <2>4, <2>5
  <1>4. ASSUME NEW i \in Request, List(i) PROVE ControlInv'
    <2>1. PICK s \in {"counting", "fetching", "paging", "done"} : stage' = [stage EXCEPT ![i] = s]
      BY <1>4, ListEffect
    <2>2. /\ stage[i] \in {"counting", "fetching", "paging"}
          /\ UNCHANGED <<config, now, tables, call, at, raced>>
      BY <1>4, ListEffect
    <2>3. call[i].kind = "list" /\ s \in Stages \ {"idle", "reading"}
      BY <2>2 DEF StagesFit, Stages
    <2>4. /\ stage' \in [Request -> Stages]
          /\ \A j \in Request : stage'[j] = "idle" <=> j > Len(call')
          /\ StagesFit'
      BY <2>1, <2>2, <2>3, MoveFits
    <2>5. QED
      BY <2>2, <2>4
  <1>5. CASE Elsewhere
    BY <1>5 DEF Elsewhere, StagesFit, Valid
  <1>6. QED
    BY <1>1, <1>2, <1>3, <1>4, <1>5, Steps

LEMMA ControlInvariant == Spec => []ControlInv
  <1>1. QED
    BY ControlInit, ControlPreserved, PTL DEF Spec

-------------------------------------------------------------------------------
(* The owner.                                                              *)

\* Nobody becomes an owner; while the workspace is there, no owner goes.
LEMMA OwnersStay ==
  ASSUME ControlInv, OwnerInv, [Next]_vars, NEW u \in User
  PROVE  /\ role'[u] = "owner" => role[u] = "owner"
         /\ alive' => alive /\ (role[u] = "owner" => role'[u] = "owner")
  <1> DEFINE Stays == /\ role'[u] = "owner" => role[u] = "owner"
                      /\ alive' => alive /\ (role[u] = "owner" => role'[u] = "owner")
  <1> USE Vocabulary DEF ControlInv, ControlTyped
  <1>1. ASSUME UNCHANGED <<alive, role>> PROVE Stays
    BY <1>1
  <1>2. ASSUME NEW i \in Request, Change(i) PROVE Stays
    <2>0. call[i] \in Calls /\ Valid(call[i]) /\ TargetsAreNoOwners
      BY <1>2, ChangeEffect DEF StagesFit, OwnerInv
    <2>1. CASE AddMember(i)
      BY <2>0, <2>1 DEF AddMember, InsertMember, Vacant, Changing, Valid, Calls
    <2>2. CASE UpdateMemberRole(i)
      <3>1. call[i].on \in User /\ call[i].role # "owner" /\ role[call[i].on] # "owner"
        BY <2>0, <2>2 DEF UpdateMemberRole, Changing, Valid, Calls, TargetsAreNoOwners
      <3>2. alive' = alive /\ role' = [role EXCEPT ![call[i].on] = call[i].role]
        BY <2>2 DEF UpdateMemberRole, SetRole
      <3>3. QED
        BY <3>1, <3>2
    <2>3. CASE RemoveMember(i)
      BY <2>0, <2>3 DEF RemoveMember, DropMember, Changing, Calls, TargetsAreNoOwners
    <2>4. CASE CreateInvitation(i) \/ Announce(i) \/ RevokeInvitation(i)
      BY <1>1, <2>4, UntouchedRoles
    <2>5. CASE ClaimInvitation(i)
      <3>1. invitations[call[i].id] \in Invitation
        BY <2>0, <2>5 DEF ClaimInvitation, ClaimRow, Claimable, Pending, Open, Calls
      <3>2. invitations[call[i].id].role # "owner"
        BY <3>1 DEF Invitation
      <3>3. QED
        BY <2>0, <2>5, <3>2 DEF ClaimInvitation, ClaimRow, InsertMember, Vacant, Calls
    <2>6. CASE DeleteWorkspace(i)
      BY <2>6 DEF DeleteWorkspace, DropWorkspace
    <2>7. CASE DeleteAccount(i)
      BY <2>0, <2>7 DEF DeleteAccount, Calls
    <2>8. QED
      BY <1>2, <2>1, <2>2, <2>3, <2>4, <2>5, <2>6, <2>7 DEF Change
  <1>3. ASSUME NEW c \in Call, Begin(c) PROVE Stays
    BY <1>1, <1>3 DEF Begin, tables
  <1>4. ASSUME NEW i \in Request, ReadMember(i) \/ List(i) PROVE Stays
    BY <1>1, <1>4, ReadEffect, ListEffect DEF tables
  <1>5. CASE Elsewhere
    BY <1>1, <1>5 DEF Elsewhere, tables
  <1>6. QED
    BY <1>2, <1>3, <1>4, <1>5, Steps

LEMMA TargetsPreserved ==
  ASSUME ControlInv, OwnerInv, [Next]_vars, NEW i \in Request,
         stage'[i] = "changing", call'[i].kind \in {"update", "remove"}
  PROVE  role'[call'[i].on] # "owner"
  <1> USE DEF ControlInv, ControlTyped
  <1>1. ASSUME call'[i] = call[i], call[i] \in Call, role[call[i].on] # "owner"
        PROVE  role'[call'[i].on] # "owner"
    BY <1>1, OwnersStay DEF Calls
  <1>2. CASE stage[i] = "changing" /\ call'[i] = call[i]
    BY <1>1, <1>2 DEF StagesFit, OwnerInv, TargetsAreNoOwners
  <1>3. ASSUME NEW c \in Call, Begin(c) PROVE role'[call'[i].on] # "owner"
    <2>1. stage[i] # "idle" => stage'[i] = stage[i] /\ call'[i] = call[i]
      BY <1>3, BeginEffect
    <2>2. stage[i] = "idle" => FALSE
      <3> SUFFICES ASSUME stage[i] = "idle" PROVE FALSE
        OBVIOUS
      <3>1. i = Len(call) + 1 /\ stage'[i] = First(c) /\ call'[i] = c
        BY <1>3, BeginEffect
      <3>2. QED
        BY <3>1 DEF First
    <2>3. QED
      BY <1>2, <2>1, <2>2
  <1>4. ASSUME NEW j \in Request, ReadMember(j) PROVE role'[call'[i].on] # "owner"
    <2>1. CASE j = i
      BY <1>1, <1>4, <2>1, ReadEffect DEF StagesFit
    <2>2. CASE j # i
      BY <1>2, <1>4, <2>2, ReadEffect
    <2>3. QED
      BY <2>1, <2>2
  <1>5. ASSUME NEW j \in Request, Change(j) \/ List(j) PROVE role'[call'[i].on] # "owner"
    BY <1>2, <1>5, ChangeEffect, ListEffect
  <1>6. CASE Elsewhere
    BY <1>2, <1>6 DEF Elsewhere
  <1>7. QED
    BY <1>3, <1>4, <1>5, <1>6, Steps

LEMMA OwnerPreserved == ControlInv /\ OwnerInv /\ [Next]_vars => OwnerInv'
  <1> SUFFICES ASSUME ControlInv, OwnerInv, [Next]_vars PROVE OwnerInv'
    OBVIOUS
  <1>1. OwnerKept'
    BY OwnersStay DEF OwnerInv, OwnerKept
  <1>2. TargetsAreNoOwners'
    BY TargetsPreserved DEF TargetsAreNoOwners
  <1>3. QED
    BY <1>1, <1>2 DEF OwnerInv

\* A workspace keeps its owner, and only one.
THEOREM OwnerIsKept == Spec => []OwnerKept
  <1>1. Init => OwnerInv
    BY DEF Init, OwnerInv, OwnerKept, TargetsAreNoOwners
  <1>2. OwnerInv => OwnerKept
    BY DEF OwnerInv
  <1>3. QED
    BY <1>1, <1>2, ControlInvariant, OwnerPreserved, PTL DEF Spec

-------------------------------------------------------------------------------
(* Invitations.                                                            *)

\* A request that was told of its change stays so, and so does one that is only
\* to announce it.
LEMMA MadeStaysMade ==
  ASSUME ControlInv, [Next]_vars, NEW j \in Request, stage[j] \in {"announcing", "done"}
  PROVE  /\ call'[j] = call[j]
         /\ stage'[j] \in {"announcing", "done"}
         /\ stage[j] = "done" => stage'[j] = "done"
  <1> USE DEF ControlInv, ControlTyped
  <1>1. ASSUME NEW c \in Call, Begin(c) PROVE call'[j] = call[j] /\ stage'[j] = stage[j]
    BY <1>1, BeginEffect
  <1>2. ASSUME NEW i \in Request, ReadMember(i) \/ List(i) PROVE call'[j] = call[j] /\ stage'[j] = stage[j]
    BY <1>2, ReadEffect, ListEffect
  <1>3. ASSUME NEW i \in Request, Change(i)
        PROVE  call'[j] = call[j] /\ (stage'[j] = stage[j] \/ (stage[j] = "announcing" /\ stage'[j] = "done"))
    BY <1>3, ChangeEffect
  <1>4. CASE Elsewhere
    BY <1>4 DEF Elsewhere
  <1>5. QED
    BY <1>1, <1>2, <1>3, <1>4, Steps

LEMMA CreatesWhileChanging ==
  ASSUME NEW j \in Request, CreateInvitation(j)
  PROVE  stage[j] = "changing"
  BY DEF CreateInvitation, Changing

\* A row is new only if its own request inserts it; any other keeps its address,
\* and is not opened again.
LEMMA RowsStay ==
  ASSUME ControlInv, [Next]_vars, NEW j \in Request, invitations'[j] # NoInvitation, ~CreateInvitation(j)
  PROVE  /\ invitations[j] # NoInvitation
         /\ invitations'[j].email = invitations[j].email
         /\ Open(j)' => Open(j)
  <1> DEFINE Stays == /\ invitations[j] # NoInvitation
                      /\ invitations'[j].email = invitations[j].email
                      /\ Open(j)' => Open(j)
  <1> USE DEF ControlInv, ControlTyped
  <1>1. ASSUME UNCHANGED invitations PROVE Stays
    BY <1>1 DEF Open
  <1>2. ASSUME NEW i \in Request, Change(i) PROVE Stays
    <2>0. call[i] \in Calls
      BY <1>2, ChangeEffect DEF StagesFit
    <2>1. CASE AddMember(i) \/ UpdateMemberRole(i) \/ RemoveMember(i) \/ Announce(i)
      BY <1>1, <2>1, UntouchedInvitations
    <2>2. CASE CreateInvitation(i)
      <3>1. i # j
        BY <2>2
      <3>2. \/ invitations'[j] = invitations[j]
            \/ j \in ExpiredFor(i) /\ invitations'[j] = [invitations[j] EXCEPT !.revoked = TRUE]
        BY <2>2, <3>1 DEF CreateInvitation, InsertInvitation
      <3>3. CASE invitations'[j] = invitations[j]
        BY <3>3 DEF Open
      <3>4. CASE j \in ExpiredFor(i) /\ invitations'[j] = [invitations[j] EXCEPT !.revoked = TRUE]
        <4>1. invitations[j] # NoInvitation /\ invitations[j] \in Invitation
          BY <3>4 DEF ExpiredFor, Open
        <4>2. invitations'[j].email = invitations[j].email /\ invitations'[j].revoked
          BY <3>4, <4>1 DEF Invitation
        <4>3. QED
          BY <4>1, <4>2 DEF Open
      <3>5. QED
        BY <3>2, <3>3, <3>4
    <2>3. ASSUME RevokeInvitation(i) \/ ClaimInvitation(i) PROVE Stays
      <3> DEFINE id == call[i].id
      <3>1. id \in Request /\ Open(id) /\ invitations[id] \in Invitation
        BY <2>0, <2>3 DEF RevokeInvitation, RevokeRow, ClaimInvitation, ClaimRow, Claimable, Pending, Open, Calls
      <3>2. \/ invitations' = [invitations EXCEPT ![id] = [invitations[id] EXCEPT !.revoked = TRUE]]
            \/ invitations' = [invitations EXCEPT ![id] = [invitations[id] EXCEPT !.accepted = TRUE]]
        BY <2>3 DEF RevokeInvitation, RevokeRow, ClaimInvitation, ClaimRow
      <3> HIDE DEF id
      <3>3. CASE j = id
        <4>1. \/ invitations'[j] = [invitations[id] EXCEPT !.revoked = TRUE]
              \/ invitations'[j] = [invitations[id] EXCEPT !.accepted = TRUE]
          BY <3>2, <3>3
        <4>2. invitations'[j].email = invitations[j].email
          BY <3>1, <3>3, <4>1 DEF Invitation
        <4>3. QED
          BY <3>1, <3>3, <4>2 DEF Open
      <3>4. CASE j # id
        <4>1. invitations'[j] = invitations[j]
          BY <3>2, <3>4
        <4>2. QED
          BY <4>1 DEF Open
      <3>5. QED
        BY <3>3, <3>4
    <2>4. ASSUME DeleteWorkspace(i) \/ DeleteAccount(i) PROVE Stays
      <3>1. invitations'[j] = invitations[j]
        BY <2>4 DEF DeleteWorkspace, DropWorkspace, DeleteAccount
      <3>2. QED
        BY <3>1 DEF Open
    <2>5. QED
      BY <1>2, <2>1, <2>2, <2>3, <2>4 DEF Change
  <1>3. ASSUME NEW c \in Call, Begin(c) PROVE Stays
    BY <1>1, <1>3 DEF Begin, tables
  <1>4. ASSUME NEW i \in Request, ReadMember(i) \/ List(i) PROVE Stays
    BY <1>1, <1>4, ReadEffect, ListEffect DEF tables
  <1>5. CASE Elsewhere
    BY <1>1, <1>5 DEF Elsewhere, tables
  <1>6. QED
    BY <1>2, <1>3, <1>4, <1>5, Steps

LEMMA OneOpenPreserved == ControlInv /\ OneOpenInvitation /\ [Next]_vars => OneOpenInvitation'
  <1> SUFFICES ASSUME ControlInv, OneOpenInvitation, [Next]_vars,
                      NEW i \in Request, NEW j \in Request, Open(i)', Open(j)',
                      invitations'[i].email = invitations'[j].email
               PROVE  i = j
    BY DEF OneOpenInvitation, Open
  <1>1. ASSUME NEW k \in Request, NEW l \in Request, k # l, CreateInvitation(k), Open(l)',
               invitations'[k].email = invitations'[l].email
        PROVE  FALSE
    <2>1. /\ invitations'[k].email = call[k].email
          /\ l \notin ExpiredFor(k) => invitations'[l] = invitations[l]
          /\ l \in ExpiredFor(k) => invitations'[l] = [invitations[l] EXCEPT !.revoked = TRUE]
      BY <1>1 DEF CreateInvitation, InsertInvitation
    <2>2. l \notin ExpiredFor(k)
      <3> SUFFICES ASSUME l \in ExpiredFor(k) PROVE FALSE
        OBVIOUS
      <3>1. invitations[l] \in Invitation /\ invitations'[l] = [invitations[l] EXCEPT !.revoked = TRUE]
        BY <2>1 DEF ExpiredFor, Open, ControlInv, ControlTyped
      <3>2. invitations'[l].revoked
        BY <3>1 DEF Invitation
      <3>3. QED
        BY <1>1, <3>2 DEF Open
    <2>3. Open(l) /\ invitations[l].email = call[k].email
      BY <1>1, <2>1, <2>2 DEF Open
    <2>4. invitations[l].expires \in Nat /\ at[k] \in Nat
      BY <2>3 DEF Open, Invitation, ControlInv, ControlTyped
    <2>5. l \in OpenFor(k)
      BY <2>2, <2>3, <2>4 DEF OpenFor, ExpiredFor
    <2>6. QED
      BY <1>1, <2>5 DEF CreateInvitation, InsertInvitation
  <1>2. CASE ~CreateInvitation(i) /\ ~CreateInvitation(j)
    <2>1. invitations'[i] # NoInvitation /\ invitations'[j] # NoInvitation
      BY DEF Open
    <2>2. /\ Open(i) /\ invitations'[i].email = invitations[i].email
          /\ Open(j) /\ invitations'[j].email = invitations[j].email
      BY <1>2, <2>1, RowsStay
    <2>3. QED
      BY <2>2 DEF OneOpenInvitation
  <1>3. QED
    BY <1>1, <1>2

\* At most one invitation to an address is open.
THEOREM OneIsOpen == Spec => []OneOpenInvitation
  <1>1. Init => OneOpenInvitation
    BY DEF Init, OneOpenInvitation, Open
  <1>2. QED
    BY <1>1, ControlInvariant, OneOpenPreserved, PTL DEF Spec

\* What a request does that is told it has settled an invitation.
LEMMA Settles ==
  ASSUME ControlInv, [Next]_vars, NEW i \in Request, ~Settled(i), Settled(i)'
  PROVE  /\ call[i] \in Calls /\ Open(call[i].id) /\ ~Open(call[i].id)'
         /\ UNCHANGED call
         /\ \A j \in Request : j # i => stage'[j] = stage[j]
  <1> USE DEF ControlInv, ControlTyped
  <1>1. ASSUME NEW c \in Call, Begin(c) PROVE FALSE
    <2>1. /\ stage[i] # "idle" => call'[i] = call[i] /\ stage'[i] = stage[i]
          /\ stage[i] = "idle" => stage'[i] # "done"
      BY <1>1, BeginEffect DEF First
    <2>2. QED
      BY <2>1 DEF Settled
  <1>2. ASSUME NEW j \in Request, ReadMember(j) PROVE FALSE
    BY <1>2, ReadEffect DEF Settled
  <1>3. ASSUME NEW j \in Request, List(j) PROVE FALSE
    <2>0. /\ stage[j] \in {"counting", "fetching", "paging"} /\ call' = call
          /\ \E s \in {"counting", "fetching", "paging", "done"} : stage' = [stage EXCEPT ![j] = s]
      BY <1>3, ListEffect
    <2>1. call[j].kind = "list" /\ call' = call /\ (j # i => stage'[i] = stage[i])
      BY <2>0 DEF StagesFit
    <2>2. QED
      BY <2>1 DEF Settled
  <1>4. CASE Elsewhere
    BY <1>4 DEF Elsewhere, Settled
  <1>5. ASSUME NEW j \in Request, Change(j)
        PROVE  /\ call[i] \in Calls /\ Open(call[i].id) /\ ~Open(call[i].id)'
               /\ UNCHANGED call
               /\ \A k \in Request : k # i => stage'[k] = stage[k]
    <2>1. UNCHANGED call /\ \A k \in Request : k # j => stage'[k] = stage[k]
      BY <1>5, ChangeEffect
    <2>2. j = i /\ call[i] \in Calls /\ call[i].kind \in {"claim", "revoke"}
      BY <1>5, <2>1, ChangeEffect DEF Settled, StagesFit
    <2>3. RevokeInvitation(i) \/ ClaimInvitation(i)
      BY <1>5, <2>2, AnnouncesInvitation DEF Change, AddMember, UpdateMemberRole, RemoveMember, CreateInvitation, DeleteWorkspace,
         DeleteAccount, Changing
    <2> DEFINE id == call[i].id
    <2>4. id \in Request /\ Open(id) /\ invitations[id] \in Invitation
      BY <2>2, <2>3 DEF RevokeInvitation, RevokeRow, ClaimInvitation, ClaimRow, Claimable, Pending, Open, Calls
    <2>5. \/ invitations' = [invitations EXCEPT ![id] = [invitations[id] EXCEPT !.revoked = TRUE]]
          \/ invitations' = [invitations EXCEPT ![id] = [invitations[id] EXCEPT !.accepted = TRUE]]
      BY <2>3 DEF RevokeInvitation, RevokeRow, ClaimInvitation, ClaimRow
    <2> HIDE DEF id
    <2>6. \/ invitations'[id] = [invitations[id] EXCEPT !.revoked = TRUE]
          \/ invitations'[id] = [invitations[id] EXCEPT !.accepted = TRUE]
      BY <2>4, <2>5
    <2>7. invitations'[id].revoked \/ invitations'[id].accepted
      BY <2>4, <2>6 DEF Invitation
    <2>8. id' = id
      BY <2>1 DEF id
    <2>9. ~(Open(id)')
      BY <2>7, <2>8 DEF Open
    <2>10. QED
      BY <2>1, <2>2, <2>4, <2>9 DEF id
  <1>6. QED
    BY <1>1, <1>2, <1>3, <1>4, <1>5, Steps

LEMMA SettlePreserved == ControlInv /\ SettleInv /\ [Next]_vars => SettleInv'
  <1> SUFFICES ASSUME ControlInv, SettleInv, [Next]_vars PROVE SettleInv'
    OBVIOUS
  <1> USE DEF ControlInv, ControlTyped
  <1>1. RowsAreCreated'
    <2> SUFFICES ASSUME NEW j \in Request, invitations'[j] # NoInvitation
                 PROVE  call'[j].kind = "invite" /\ stage'[j] \in {"announcing", "done"}
      BY DEF RowsAreCreated
    <2>1. CASE CreateInvitation(j)
      BY <2>1, ChangeEffect DEF Change, CreateInvitation, Changing
    <2>2. CASE ~CreateInvitation(j)
      <3>1. call[j].kind = "invite" /\ stage[j] \in {"announcing", "done"}
        BY <2>2, RowsStay DEF SettleInv, RowsAreCreated
      <3>2. QED
        BY <3>1, MadeStaysMade
    <2>3. QED
      BY <2>1, <2>2
  <1>2. ASSUME NEW i \in Request, Settled(i)
        PROVE  /\ call'[i] = call[i] /\ Settled(i)'
               /\ call[i] \in Calls /\ call[i].id \in Request
               /\ call'[call[i].id].kind = "invite" /\ stage'[call[i].id] \in {"announcing", "done"}
               /\ ~Open(call[i].id) /\ ~Open(call[i].id)'
    <2> DEFINE j == call[i].id
    <2>1. call'[i] = call[i] /\ stage'[i] = "done"
      BY <1>2, MadeStaysMade DEF Settled
    <2>2. call[i] \in Calls /\ j \in Request
      BY <1>2 DEF Settled, StagesFit, Calls
    <2>3. call[j].kind = "invite" /\ stage[j] \in {"announcing", "done"} /\ ~Open(j)
      BY <1>2 DEF SettleInv, SettledForGood
    <2>4. j' = j
      BY <2>1
    <2> HIDE DEF j
    <2>5. call'[j] = call[j] /\ stage'[j] \in {"announcing", "done"}
      BY <2>2, <2>3, MadeStaysMade
    <2>6. ~CreateInvitation(j)
      BY <2>2, <2>3, CreatesWhileChanging
    <2>7. ~(invitations'[j] # NoInvitation /\ ~invitations'[j].revoked /\ ~invitations'[j].accepted)
      BY <2>2, <2>3, <2>6, RowsStay, <2>4 DEF Open
    <2>8. QED
      BY <1>2, <2>1, <2>2, <2>3, <2>4, <2>5, <2>7 DEF j, Settled, Open
  <1>3. ASSUME NEW i \in Request, Settled(i)', ~Settled(i)
        PROVE  /\ UNCHANGED call
               /\ call[i].id \in Request /\ Open(call[i].id) /\ ~Open(call[i].id)'
               /\ call'[call[i].id].kind = "invite" /\ stage'[call[i].id] \in {"announcing", "done"}
               /\ \A k \in Request : k # i => stage'[k] = stage[k]
    <2>1. /\ call[i] \in Calls /\ Open(call[i].id) /\ ~Open(call[i].id)'
          /\ UNCHANGED call
          /\ \A k \in Request : k # i => stage'[k] = stage[k]
      BY <1>3, Settles
    <2>2. call[i].id \in Request /\ invitations[call[i].id] # NoInvitation
      BY <2>1 DEF Calls, Open
    <2>3. call[call[i].id].kind = "invite" /\ stage[call[i].id] \in {"announcing", "done"}
      BY <2>2 DEF SettleInv, RowsAreCreated
    <2>4. QED
      BY <2>1, <2>2, <2>3, MadeStaysMade
  <1>4. SettledForGood'
    <2> SUFFICES ASSUME NEW i \in Request, Settled(i)'
                 PROVE  /\ call'[call'[i].id].kind = "invite"
                        /\ stage'[call'[i].id] \in {"announcing", "done"}
                        /\ ~Open(call[i].id)'
      BY DEF SettledForGood
    <2>1. CASE Settled(i)
      BY <1>2, <2>1
    <2>2. CASE ~Settled(i)
      BY <1>3, <2>2
    <2>3. QED
      BY <2>1, <2>2
  <1>5. SettledOnce'
    <2> SUFFICES ASSUME NEW i \in DOMAIN call', NEW j \in DOMAIN call', Settled(i)', Settled(j)',
                        call'[i].id = call'[j].id
                 PROVE  i = j
      BY DEF SettledOnce, Settled
    <2>0. i \in Request /\ j \in Request
      <3>1. call' \in Seq(Call) /\ Len(call') <= MaxRequests
        BY ControlPreserved
      <3>2. DOMAIN call' = 1..Len(call') /\ Len(call') \in Nat
        BY <3>1
      <3>3. QED
        BY <3>1, <3>2 DEF Request
    <2>1. CASE Settled(i) /\ Settled(j)
      <3>1. call[i].id = call[j].id
        BY <1>2, <2>0, <2>1
      <3>2. i \in DOMAIN call /\ j \in DOMAIN call
        BY <2>0, <2>1 DEF Settled, Request
      <3>3. QED
        BY <2>1, <3>1, <3>2 DEF SettleInv, SettledOnce, Settled
    <2>2. ASSUME NEW k \in Request, NEW l \in Request, ~Settled(k), Settled(k)', Settled(l)', k # l,
                 call'[k].id = call'[l].id
          PROVE  FALSE
      <3>1. Open(call[k].id) /\ UNCHANGED call /\ stage'[l] = stage[l]
        BY <1>3, <2>2
      <3>2. Settled(l)
        BY <2>2, <3>1 DEF Settled
      <3>3. ~Open(call[l].id)
        BY <1>2, <3>2
      <3>4. QED
        BY <2>2, <3>1, <3>3
    <2>3. QED
      BY <2>0, <2>1, <2>2
  <1>6. QED
    BY <1>1, <1>4, <1>5 DEF SettleInv

\* At most one request is told that it has claimed or revoked an invitation.
THEOREM InvitationsAreSettledOnce == Spec => []SettledOnce
  <1>1. Init => SettleInv
    BY DEF Init, SettleInv, RowsAreCreated, SettledForGood, SettledOnce, Settled
  <1>2. SettleInv => SettledOnce
    BY DEF SettleInv
  <1>3. QED
    BY <1>1, <1>2, ControlInvariant, SettlePreserved, PTL DEF Spec

-------------------------------------------------------------------------------
(* The workspace that is gone.                                             *)

LEMMA GonePreserved == ControlInv /\ GoneInv /\ [Next]_vars => GoneInv'
  <1> SUFFICES ASSUME ControlInv, GoneInv, [Next]_vars PROVE GoneInv'
    OBVIOUS
  <1> USE DEF ControlInv, ControlTyped
  <1>1. ASSUME NEW i \in Request, Change(i) PROVE GoneInv'
    <2>0. /\ call[i] \in Calls
          /\ UNCHANGED <<store, call>>
          /\ \A j \in Request : stage'[j] = "changing" => stage[j] = "changing"
      BY <1>1, ChangeEffect DEF StagesFit
    <2>1. ASSUME UNCHANGED <<alive, raced>> PROVE NoneIsAdded'
      BY <2>0, <2>1 DEF GoneInv, NoneIsAdded, Changing
    <2> DEFINE Gone == ~alive /\ ~(store = "file" /\ raced)
               Empty == (\A u \in User : role[u] = NoRole) /\ (\A j \in Request : invitations[j] = NoInvitation)
    <2>2. ASSUME UNCHANGED <<alive, raced>>, Gone /\ Empty => Empty' PROVE GoneInv'
      BY <2>0, <2>1, <2>2 DEF GoneInv, GoneIsGone
    <2>3. CASE AddMember(i)
      <3>1. UNCHANGED <<alive, raced>> /\ Referenced /\ Changing(i, "add")
        BY <2>3 DEF AddMember
      <3>2. ~Gone
        BY <3>1 DEF GoneInv, NoneIsAdded, Referenced
      <3>3. QED
        BY <2>2, <3>1, <3>2
    <2>4. CASE UpdateMemberRole(i)
      <3>1. UNCHANGED <<alive, raced>> /\ role[call[i].on] # NoRole
        BY <2>4 DEF UpdateMemberRole, SetRole, Member
      <3>2. ~Empty
        BY <2>0, <3>1 DEF Calls
      <3>3. QED
        BY <2>2, <3>1, <3>2
    <2>5. CASE RemoveMember(i)
      BY <2>2, <2>5 DEF RemoveMember, DropMember
    <2>6. CASE CreateInvitation(i)
      BY <2>2, <2>6 DEF CreateInvitation, InsertInvitation
    <2>7. CASE Announce(i)
      BY <2>2, <2>7 DEF Announce, tables
    <2>8. CASE RevokeInvitation(i) \/ ClaimInvitation(i)
      <3>1. UNCHANGED <<alive, raced>> /\ call[i].id \in Request /\ invitations[call[i].id] # NoInvitation
        BY <2>0, <2>8 DEF RevokeInvitation, RevokeRow, ClaimInvitation, ClaimRow, Claimable, Pending, Open, Calls
      <3>2. QED
        BY <2>2, <3>1
    <2>9. CASE DeleteWorkspace(i)
      <3>1. Empty' /\ (raced' <=> \E j \in Request : Changing(j, "add"))
        BY <2>9 DEF DeleteWorkspace, DropWorkspace
      <3>2. QED
        BY <2>0, <3>1 DEF GoneInv, GoneIsGone, NoneIsAdded, Changing
    <2>10. CASE DeleteAccount(i)
      <3>1. /\ UNCHANGED <<alive, raced>>
            /\ role' = [role EXCEPT ![call[i].by] = NoRole]
            /\ \A j \in Request : invitations'[j] \in {invitations[j], NoInvitation}
        BY <2>10 DEF DeleteAccount
      <3>2. QED
        BY <2>0, <2>2, <3>1
    <2>11. QED
      BY <1>1, <2>3, <2>4, <2>5, <2>6, <2>7, <2>8, <2>9, <2>10 DEF Change
  <1>2. ASSUME UNCHANGED <<config, tables, raced>>,
               \A i \in Request : Changing(i, "add")' => Changing(i, "add") \/ \E u \in User : role[u] # NoRole
        PROVE  GoneInv'
    BY <1>2 DEF GoneInv, GoneIsGone, NoneIsAdded, tables
  <1>3. ASSUME NEW c \in Call, Begin(c) PROVE GoneInv'
    <2>1. ASSUME NEW i \in Request, Changing(i, "add")' PROVE Changing(i, "add") \/ \E u \in User : role[u] # NoRole
      <3>1. CASE stage[i] # "idle"
        BY <1>3, <2>1, <3>1, BeginEffect DEF Changing
      <3>2. CASE stage[i] = "idle"
        <4>1. i = Len(call) + 1 /\ call'[i] = c
          BY <1>3, <2>1, <3>2, BeginEffect DEF Changing
        <4>2. c.kind = "add" /\ c.by \in User
          BY <2>1, <4>1 DEF Changing, Calls
        <4>3. role[c.by] # NoRole
          BY <1>3, <4>2 DEF Begin, Required, Authorized, Member
        <4>4. QED
          BY <4>2, <4>3
      <3>3. QED
        BY <3>1, <3>2
    <2>2. QED
      BY <1>2, <1>3, <2>1 DEF Begin
  <1>4. ASSUME NEW i \in Request, ReadMember(i) PROVE GoneInv'
    <2>1. call[i].kind \in {"update", "remove"}
      BY <1>4, ReadEffect DEF StagesFit
    <2>2. \A j \in Request : Changing(j, "add")' => Changing(j, "add")
      BY <1>4, <2>1, ReadEffect DEF Changing
    <2>3. QED
      BY <1>2, <1>4, <2>2, ReadEffect
  <1>5. ASSUME NEW i \in Request, List(i) PROVE GoneInv'
    <2>1. \A j \in Request : Changing(j, "add")' => Changing(j, "add")
      BY <1>5, ListEffect DEF Changing
    <2>2. QED
      BY <1>2, <1>5, <2>1, ListEffect
  <1>6. CASE Elsewhere
    BY <1>2, <1>6 DEF Elsewhere, Changing
  <1>7. QED
    BY <1>1, <1>3, <1>4, <1>5, <1>6, Steps

\* Nobody is a member of a deleted workspace or invited to it.
THEOREM DeletedIsEmpty == Spec => []GoneIsGone
  <1>1. Init => GoneInv
    BY DEF Init, GoneInv, GoneIsGone, NoneIsAdded
  <1>2. GoneInv => GoneIsGone
    BY DEF GoneInv
  <1>3. QED
    BY <1>1, <1>2, ControlInvariant, GonePreserved, PTL DEF Spec

-------------------------------------------------------------------------------
(* The list of members.                                                    *)

LEMMA OrdersList ==
  ASSUME NEW S, IsFiniteSet(S), NEW s \in Orders(S)
  PROVE  /\ s \in Seq(S) /\ Len(s) = Cardinality(S) /\ Cardinality(S) \in Nat
         /\ ToSet(s) = S
         /\ \A p, q \in DOMAIN s : s[p] = s[q] => p = q
  <1> DEFINE n == Cardinality(S)
  <1>1. n \in Nat
    BY FS_CardinalityType
  <1>2. s \in Injection(1..n, S) /\ s \in [1..n -> S]
    BY DEF Orders, Injection
  <1>3. IsFiniteSet(1..n) /\ Cardinality(1..n) = n
    BY <1>1, FS_Interval
  <1>4. s \in Surjection(1..n, S)
    BY <1>2, <1>3, FS_Injection
  <1>5. \A v \in S : \E p \in DOMAIN s : s[p] = v
    BY <1>4 DEF Surjection
  <1>6. s \in Seq(S) /\ Len(s) = n /\ DOMAIN s = 1..n
    BY <1>1, <1>2
  <1>7. ToSet(s) = S
    BY <1>5, <1>2 DEF ToSet
  <1>8. \A p, q \in DOMAIN s : s[p] = s[q] => p = q
    BY <1>2 DEF Injection, IsInjective
  <1> QED BY <1>1, <1>6, <1>7, <1>8

LEMMA AnOrder ==
  ASSUME NEW S, IsFiniteSet(S)
  PROVE  SetToSeq(S) \in Orders(S)
  <1> DEFINE n == Cardinality(S)
  <1>1. PICK f \in Bijection(1..n, S) : TRUE
    BY FS_CardinalityType DEF ExistsBijection
  <1>2. f \in [1..n -> S] /\ IsInjective(f)
    BY <1>1 DEF Bijection, Injection
  <1>3. SetToSeq(S) \in [1..n -> S] /\ IsInjective(SetToSeq(S))
    BY <1>2 DEF SetToSeq
  <1> QED BY <1>3 DEF Orders, Injection

LEMMA Inserted ==
  ASSUME NEW s \in Seq(User), NEW u \in User, NEW p \in 1..Len(s) + 1
  PROVE  /\ InsertAt(s, p, u) \in Seq(User)
         /\ Len(InsertAt(s, p, u)) = Len(s) + 1
         /\ \A k \in 1..p-1 : InsertAt(s, p, u)[k] = s[k]
         /\ InsertAt(s, p, u)[p] = u
         /\ \A k \in (p + 1)..(Len(s) + 1) : InsertAt(s, p, u)[k] = s[k - 1]
  <1> DEFINE a == SubSeq(s, 1, p - 1)
             b == SubSeq(s, p, Len(s))
  <1>1. a \in Seq(User) /\ Len(a) = p - 1 /\ \A k \in 1..p-1 : a[k] = s[k]
    OBVIOUS
  <1>2. b \in Seq(User) /\ Len(b) = Len(s) - p + 1 /\ \A k \in 1..(Len(s) - p + 1) : b[k] = s[p + k - 1]
    OBVIOUS
  <1>3. InsertAt(s, p, u) = a \o <<u>> \o b
    BY DEF InsertAt
  <1> HIDE DEF a, b
  <1> DEFINE c == a \o <<u>>
  <1>4. c \in Seq(User) /\ Len(c) = p /\ (\A k \in 1..p-1 : c[k] = s[k]) /\ c[p] = u
    BY <1>1
  <1> HIDE DEF c
  <1> DEFINE t == c \o b
  <1>5. t \in Seq(User) /\ Len(t) = Len(s) + 1 /\ (\A k \in 1..p : t[k] = c[k])
        /\ \A k \in (p + 1)..(Len(s) + 1) : t[k] = b[k - p]
    BY <1>2, <1>4
  <1>6. \A k \in (p + 1)..(Len(s) + 1) : t[k] = s[k - 1]
    <2> SUFFICES ASSUME NEW k \in (p + 1)..(Len(s) + 1) PROVE t[k] = s[k - 1]
      OBVIOUS
    <2>1. k - p \in 1..(Len(s) - p + 1) /\ p + (k - p) - 1 = k - 1
      OBVIOUS
    <2> QED BY <1>2, <1>5, <2>1
  <1>7. InsertAt(s, p, u) = t
    BY <1>3 DEF c
  <1> HIDE DEF t
  <1> QED BY <1>4, <1>5, <1>6, <1>7

-------------------------------------------------------------------------------
\* The part of TypeOK that is about the list of members.
ListTyped ==
  /\ rows \in Seq(User)
  /\ ToSet(rows) = {u \in User : role[u] # NoRole}
  /\ \A p, q \in DOMAIN rows : rows[p] = rows[q] => p = q
  /\ listing \in [Request -> Listing]

LEMMA ListInit == Init => ListTyped
  <1> SUFFICES ASSUME Init PROVE ListTyped
    OBVIOUS
  <1> DEFINE S == {u \in User : InitialRole[u] # NoRole}
  <1>1. rows = SetToSeq(S) /\ S = {u \in User : role[u] # NoRole}
    BY DEF Init
  <1>2. rows \in Orders(S)
    BY <1>1, AnOrder
  <1>3. rows \in Seq(S) /\ ToSet(rows) = S /\ \A p, q \in DOMAIN rows : rows[p] = rows[q] => p = q
    BY <1>2, OrdersList
  <1>4. rows \in Seq(User)
    BY <1>3
  <1>5. listing \in [Request -> Listing]
    BY DEF Init, Listing
  <1> QED BY <1>1, <1>3, <1>4, <1>5 DEF ListTyped

\* A new row is that of a new member, wherever it takes its place.
LEMMA InsertKeepsList ==
  ASSUME ControlTyped, ListTyped, NEW u \in User, NEW r \in Roles, InsertMember(u, r)
  PROVE  /\ ListTyped' /\ u \notin ToSet(rows) /\ Len(rows') = Len(rows) + 1
         /\ \E p \in 1..Len(rows) + 1 :
              /\ \A k \in 1..p-1 : rows'[k] = rows[k]
              /\ rows'[p] = u
              /\ \A k \in (p + 1)..(Len(rows) + 1) : rows'[k] = rows[k - 1]
  <1>1. PICK p \in 1..Len(rows) + 1 : rows' = InsertAt(rows, p, u)
    BY DEF InsertMember, InsertRow
  <1>2. /\ rows' \in Seq(User) /\ Len(rows') = Len(rows) + 1
        /\ \A k \in 1..p-1 : rows'[k] = rows[k]
        /\ rows'[p] = u
        /\ \A k \in (p + 1)..(Len(rows) + 1) : rows'[k] = rows[k - 1]
    <2> DEFINE t == InsertAt(rows, p, u)
    <2>1. /\ t \in Seq(User) /\ Len(t) = Len(rows) + 1
          /\ \A k \in 1..p-1 : t[k] = rows[k]
          /\ t[p] = u
          /\ \A k \in (p + 1)..(Len(rows) + 1) : t[k] = rows[k - 1]
      <3>1. rows \in Seq(User)
        BY DEF ListTyped
      <3> QED BY <3>1, Inserted
    <2>2. rows' = t
      BY <1>1
    <2> HIDE DEF t
    <2> QED BY <2>1, <2>2
  <1>3. u \notin ToSet(rows) /\ \A k \in DOMAIN rows : rows[k] # u
    BY DEF InsertMember, Vacant, ListTyped, ToSet
  <1>4. \A v \in User : role'[v] = IF v = u THEN r ELSE role[v]
    BY DEF InsertMember, ControlTyped
  <1>5. Len(rows) \in Nat /\ p \in Nat /\ DOMAIN rows = 1..Len(rows) /\ DOMAIN rows' = 1..(Len(rows) + 1)
    BY <1>2 DEF ListTyped
  <1>6. \A j \in DOMAIN rows' : \/ j = p /\ rows'[j] = u
                                \/ j < p /\ j \in DOMAIN rows /\ rows'[j] = rows[j]
                                \/ j > p /\ j - 1 \in DOMAIN rows /\ rows'[j] = rows[j - 1]
    BY <1>2, <1>5
  <1>7. \A j, q \in DOMAIN rows' : rows'[j] = rows'[q] => j = q
    <2> SUFFICES ASSUME NEW j \in DOMAIN rows', NEW q \in DOMAIN rows', rows'[j] = rows'[q]
                 PROVE  j = q
      OBVIOUS
    <2>1. \A k, l \in DOMAIN rows : rows[k] = rows[l] => k = l
      BY DEF ListTyped
    <2> QED BY <1>3, <1>5, <1>6, <2>1
  <1>8. ToSet(rows') = {v \in User : role'[v] # NoRole}
    <2>1. ASSUME NEW v \in ToSet(rows') PROVE v \in User /\ role'[v] # NoRole
      <3>1. PICK j \in DOMAIN rows' : v = rows'[j]
        BY <2>1 DEF ToSet
      <3>2. v = u \/ v \in ToSet(rows)
        BY <1>6, <3>1 DEF ToSet
      <3> QED BY <1>4, <3>2, Vocabulary DEF ListTyped
    <2>2. ASSUME NEW v \in User, role'[v] # NoRole PROVE v \in ToSet(rows')
      <3>1. CASE v = u
        BY <1>2, <1>5, <3>1 DEF ToSet
      <3>2. CASE v # u
        <4>1. v \in ToSet(rows)
          BY <1>4, <2>2, <3>2 DEF ListTyped
        <4>2. PICK j \in DOMAIN rows : v = rows[j]
          BY <4>1 DEF ToSet
        <4>3. CASE j < p
          <5>1. j \in DOMAIN rows' /\ rows'[j] = v
            BY <1>2, <1>5, <4>2, <4>3
          <5> QED BY <5>1 DEF ToSet
        <4>4. CASE j >= p
          <5>1. j + 1 \in DOMAIN rows' /\ rows'[j + 1] = v
            BY <1>2, <1>5, <4>2, <4>4
          <5> QED BY <5>1 DEF ToSet
        <4> QED BY <1>5, <4>3, <4>4
      <3> QED BY <3>1, <3>2
    <2> QED BY <2>1, <2>2
  <1>9. listing' \in [Request -> Listing]
    <2>1. \A l \in Listing : [l EXCEPT !.moved = TRUE] \in Listing
      BY DEF Listing
    <2> QED BY <2>1 DEF InsertMember, InsertRow, ListTyped
  <1> QED BY <1>2, <1>3, <1>7, <1>8, <1>9 DEF ListTyped

\* The rows of those who go, and no others.
LEMMA RemoveKeepsList ==
  ASSUME ControlTyped, ListTyped, NEW gone, RemoveRows(gone),
         \A v \in User : role'[v] = IF v \in gone THEN NoRole ELSE role[v]
  PROVE  ListTyped'
  <1>1. CASE ToSet(rows) \cap gone = {}
    <2>1. UNCHANGED <<rows, listing>>
      BY <1>1 DEF RemoveRows
    <2>2. \A v \in User : role[v] # NoRole <=> role'[v] # NoRole
      BY <1>1 DEF ListTyped
    <2>3. {v \in User : role[v] # NoRole} = {v \in User : role'[v] # NoRole}
      BY <2>2
    <2> QED BY <2>1, <2>3 DEF ListTyped
  <1>2. CASE ToSet(rows) \cap gone # {}
    <2> DEFINE S == ToSet(rows) \ gone
    <2>1. rows' \in Orders(S)
          /\ listing' = [i \in Request |->
               IF stage[i] \in {"counting", "fetching", "paging"}
               THEN [listing[i] EXCEPT !.moved = TRUE] ELSE listing[i]]
      BY <1>2 DEF RemoveRows
    <2>2. IsFiniteSet(S)
      <3>1. rows \in Surjection(1..Len(rows), ToSet(rows))
        <4>1. rows \in [1..Len(rows) -> User] /\ DOMAIN rows = 1..Len(rows)
          BY DEF ListTyped
        <4>2. rows \in [1..Len(rows) -> ToSet(rows)]
          BY <4>1 DEF ToSet
        <4> QED BY <4>1, <4>2 DEF Surjection, ToSet
      <3>2. IsFiniteSet(1..Len(rows))
        <4>1. Len(rows) \in Int /\ 1 \in Int
          BY DEF ListTyped
        <4> QED BY ONLY <4>1, FS_Interval
      <3>3. IsFiniteSet(ToSet(rows))
        BY <3>1, <3>2, FS_Surjection
      <3> QED BY <3>3, FS_Subset
    <2>3. /\ rows' \in Seq(S) /\ ToSet(rows') = S
          /\ \A p, q \in DOMAIN rows' : rows'[p] = rows'[q] => p = q
      BY <2>1, <2>2, OrdersList
    <2>4. S = {v \in User : role'[v] # NoRole}
      BY DEF ListTyped
    <2>5. rows' \in Seq(User)
      BY <2>3, <2>4
    <2>6. listing' \in [Request -> Listing]
      <3>1. \A l \in Listing : [l EXCEPT !.moved = TRUE] \in Listing
        BY DEF Listing
      <3> QED BY <2>1, <3>1 DEF ListTyped
    <2> QED BY <2>3, <2>4, <2>5, <2>6 DEF ListTyped
  <1> QED BY <1>1, <1>2

LEMMA PageBound ==
  ASSUME ListTyped, NEW o \in Nat
  PROVE  Page(o) \subseteq User /\ Cardinality(Page(o)) \in Nat /\ Cardinality(Page(o)) <= PageSize
  <1> DEFINE K == (o + 1)..(o + PageSize) \cap DOMAIN rows
             f == [k \in K |-> rows[k]]
  <1>0. o + 1 \in Int /\ o + PageSize \in Int /\ PageSize \in Nat \ {0}
    OBVIOUS
  <1>1. IsFiniteSet((o + 1)..(o + PageSize)) /\ Cardinality((o + 1)..(o + PageSize)) = PageSize
    <2> DEFINE a == o + 1
               b == o + PageSize
    <2>1. a \in Int /\ b \in Int /\ ~(a > b) /\ b - a + 1 = PageSize
      BY <1>0
    <2> HIDE DEF a, b
    <2>2. IsFiniteSet(a..b) /\ Cardinality(a..b) = IF a > b THEN 0 ELSE b - a + 1
      BY <2>1, FS_Interval
    <2> QED BY <2>1, <2>2 DEF a, b
  <1>2. IsFiniteSet(K) /\ Cardinality(K) <= PageSize /\ Cardinality(K) \in Nat
    BY <1>1, FS_Subset, FS_CardinalityType
  <1>3. Page(o) = {rows[k] : k \in K}
    BY DEF Page
  <1>4. f \in Surjection(K, Page(o))
    BY <1>3 DEF Surjection
  <1>5. IsFiniteSet(Page(o)) /\ Cardinality(Page(o)) <= Cardinality(K)
    BY <1>2, <1>4, FS_Surjection
  <1>6. Cardinality(Page(o)) \in Nat
    BY <1>5, FS_CardinalityType
  <1>7. Page(o) \subseteq User
    BY <1>3 DEF ListTyped
  <1> QED BY <1>2, <1>5, <1>6, <1>7

\* What a page does to its listing.
LEMMA FetchEffect ==
  ASSUME ControlTyped, ListTyped, NEW i \in Request, FetchMembers(i)
  PROVE  LET o == listing[i].offset
             c == Cardinality(Page(o)) IN
         /\ o \in Nat /\ c \in Nat /\ c <= PageSize
         /\ listing' \in [Request -> Listing]
         /\ listing'[i] = [listing[i] EXCEPT !.got = listing[i].got \cup Page(o), !.offset = o + c]
         /\ \A j \in Request \ {i} : listing'[j] = listing[j] /\ stage'[j] = stage[j]
         /\ stage[i] \in {"counting", "fetching"}
         /\ stage[i] = IF store = "file" THEN "counting" ELSE "fetching"
         /\ stage'[i] = IF o + c < (IF store = "file" THEN Len(rows) ELSE listing[i].total)
                        THEN "paging" ELSE "done"
         /\ UNCHANGED <<role, rows, call>>
  <1> DEFINE o == listing[i].offset
             c == Cardinality(Page(o))
             l == [listing[i] EXCEPT !.got = listing[i].got \cup Page(o), !.offset = o + c]
  <1>1. listing[i] \in Listing /\ o \in Nat
    BY DEF ListTyped, Listing
  <1>2. Page(o) \subseteq User /\ c \in Nat /\ c <= PageSize
    BY <1>1, PageBound
  <1>3. l \in Listing
    <2>1. \A m \in Listing, X \in SUBSET User, n \in Nat :
            [m EXCEPT !.got = m.got \cup X, !.offset = n] \in Listing
      BY DEF Listing
    <2>2. o + c \in Nat
      BY <1>1, <1>2
    <2> QED BY <1>1, <1>2, <2>1, <2>2
  <1>4. listing' = [listing EXCEPT ![i] = l]
    BY <1>1 DEF FetchMembers, ListTyped, Listing
  <1>5. /\ listing' \in [Request -> Listing] /\ listing'[i] = l
        /\ \A j \in Request \ {i} : listing'[j] = listing[j]
    BY <1>3, <1>4 DEF ListTyped
  <1>6. /\ \A j \in Request \ {i} : stage'[j] = stage[j]
        /\ stage'[i] = IF o + c < (IF store = "file" THEN Len(rows) ELSE listing[i].total)
                       THEN "paging" ELSE "done"
    BY DEF FetchMembers, More, ControlTyped
  <1> QED BY <1>1, <1>2, <1>5, <1>6 DEF FetchMembers, tables

\* What happens to the members: one comes, some go, or they stay.
Comes == \E u \in User, r \in Roles : InsertMember(u, r)

Goes == \E gone \in SUBSET User :
          RemoveRows(gone) /\ \A v \in User : role'[v] = IF v \in gone THEN NoRole ELSE role[v]

Stays == UNCHANGED <<rows, listing>> /\ \A v \in User : role'[v] # NoRole <=> role[v] # NoRole

LEMMA MembersStep ==
  ASSUME ControlInv, NEW i \in Request, Change(i)
  PROVE  call[i].kind # "list" /\ (Comes \/ Goes \/ Stays)
  <1>1. stage[i] # "idle" /\ call[i] \in Calls
    BY ChangeEffect DEF ControlInv, StagesFit
  <1>2. call[i].on \in User /\ call[i].by \in User /\ call[i].role \in Roles /\ call[i].id \in Request
    BY <1>1 DEF Calls
  <1>3. CASE AddMember(i)
    BY <1>2, <1>3 DEF AddMember, Changing, Comes
  <1>4. CASE UpdateMemberRole(i)
    BY <1>2, <1>4 DEF UpdateMemberRole, Changing, SetRole, Member, ControlInv, ControlTyped, Stays
  <1>5. CASE RemoveMember(i)
    <2>1. RemoveRows({call[i].on}) /\ role' = [role EXCEPT ![call[i].on] = NoRole] /\ call[i].kind # "list"
      BY <1>5 DEF RemoveMember, DropMember, Changing
    <2>2. \A v \in User : role'[v] = IF v \in {call[i].on} THEN NoRole ELSE role[v]
      BY <2>1 DEF ControlInv, ControlTyped
    <2>3. {call[i].on} \in SUBSET User
      BY <1>2
    <2> QED BY <2>1, <2>2, <2>3 DEF Goes
  <1>6. CASE CreateInvitation(i) \/ RevokeInvitation(i)
    BY <1>6 DEF CreateInvitation, RevokeInvitation, Changing, Stays
  <1>7. CASE Announce(i)
    BY <1>7, AnnouncesInvitation DEF Announce, tables, Stays
  <1>8. CASE ClaimInvitation(i)
    <2>1. invitations[call[i].id] \in Invitation
      BY <1>2, <1>8 DEF ClaimInvitation, ClaimRow, Claimable, Pending, Open, ControlInv, ControlTyped
    <2>2. invitations[call[i].id].role \in Roles
      BY <2>1, Vocabulary DEF Invitation
    <2>3. InsertMember(call[i].by, invitations[call[i].id].role) /\ call[i].kind # "list"
      BY <1>8 DEF ClaimInvitation, ClaimRow, Changing
    <2> QED BY <1>2, <2>2, <2>3 DEF Comes
  <1>9. CASE DeleteWorkspace(i)
    <2>1. RemoveRows(User) /\ call[i].kind # "list" /\ \A v \in User : role'[v] = NoRole
      BY <1>9 DEF DeleteWorkspace, DropWorkspace, Changing
    <2> QED BY <2>1 DEF Goes
  <1>10. CASE DeleteAccount(i)
    <2>1. RemoveRows({call[i].by}) /\ role' = [role EXCEPT ![call[i].by] = NoRole] /\ call[i].kind # "list"
      BY <1>10 DEF DeleteAccount, Changing
    <2>2. \A v \in User : role'[v] = IF v \in {call[i].by} THEN NoRole ELSE role[v]
      BY <2>1 DEF ControlInv, ControlTyped
    <2>3. {call[i].by} \in SUBSET User
      BY <1>2
    <2> QED BY <2>1, <2>2, <2>3 DEF Goes
  <1> QED BY <1>1, <1>3, <1>4, <1>5, <1>6, <1>7, <1>8, <1>9, <1>10 DEF Change

\* Steps that have nothing to do with members or listings.
LEMMA OthersLeaveLists ==
  ASSUME Tick \/ UNCHANGED vars \/ \E i \in Request : Deliver(i)
  PROVE  UNCHANGED <<config, role, rows, call, stage, at, listing, alive, accounts, raced>>
  BY DEF Tick, vars, Deliver, SkipInvitation, LoadInvitation, SendInvitation, SendFails, tables, requests

LEMMA ListTypedPreserved == ControlInv /\ ListTyped /\ [Next]_vars => ListTyped'
  <1> SUFFICES ASSUME ControlInv, ListTyped, [Next]_vars PROVE ListTyped'
    OBVIOUS
  <1> USE DEF ControlInv
  <1>0. ASSUME UNCHANGED <<role, rows>>, listing' \in [Request -> Listing] PROVE ListTyped'
    BY <1>0 DEF ListTyped
  <1>1. CASE Tick \/ UNCHANGED vars \/ \E i \in Request : Deliver(i)
    BY <1>0, <1>1, OthersLeaveLists DEF ListTyped
  <1>2. ASSUME NEW c \in Call, Begin(c) PROVE ListTyped'
    <2> DEFINE n == Len(call) + 1
               st == IF c.kind = "list" THEN ToSet(rows) ELSE {}
    <2>1. n \in Request /\ listing' = [listing EXCEPT ![n].start = st] /\ UNCHANGED <<role, rows>>
      BY <1>2 DEF Begin, tables
    <2>2. st \in SUBSET User
      BY DEF ListTyped
    <2>3. \A l \in Listing : [l EXCEPT !.start = st] \in Listing
      BY <2>2 DEF Listing
    <2> HIDE DEF n, st
    <2>4. listing' \in [Request -> Listing]
      BY <2>1, <2>3 DEF ListTyped
    <2> QED BY <1>0, <2>1, <2>4
  <1>3. ASSUME NEW i \in Request, ReadMember(i) \/ AuthorizePage(i) PROVE ListTyped'
    BY <1>0, <1>3 DEF ReadMember, AuthorizePage, tables, ListTyped
  <1>4. ASSUME NEW i \in Request, CountMembers(i) PROVE ListTyped'
    <2>1. Len(rows) \in Nat
      BY DEF ListTyped
    <2>2. \A l \in Listing : [l EXCEPT !.total = Len(rows)] \in Listing
      BY <2>1 DEF Listing
    <2>3. listing' \in [Request -> Listing]
      BY <1>4, <2>2 DEF CountMembers, ListTyped
    <2> QED BY <1>0, <1>4, <2>3 DEF CountMembers, tables
  <1>5. ASSUME NEW i \in Request, FetchMembers(i) PROVE ListTyped'
    BY <1>0, <1>5, FetchEffect
  <1>6. ASSUME NEW i \in Request, Change(i) PROVE ListTyped'
    <2>1. CASE Stays
      <3>1. {v \in User : role[v] # NoRole} = {v \in User : role'[v] # NoRole}
        BY <2>1 DEF Stays
      <3> QED BY <2>1, <3>1 DEF ListTyped, Stays
    <2>2. CASE Comes
      BY <2>2, InsertKeepsList DEF Comes
    <2>3. CASE Goes
      BY <2>3, RemoveKeepsList DEF Goes
    <2> QED BY <1>6, <2>1, <2>2, <2>3, MembersStep
  <1> QED BY <1>1, <1>2, <1>3, <1>4, <1>5, <1>6 DEF Next, List

\* The rest of TypeOK.
OtherwiseTyped ==
  /\ now \in 0..MaxTime
  /\ accounts \subseteq User
  /\ at \in [Request -> 0..MaxTime]
  /\ jobs \in [Request -> {"none", "queued", "loaded", "processed", "dead"}]
  /\ tries \in [Request -> Nat]
  /\ mailed \subseteq Request
  /\ faults \in 0..MaxFaults
  /\ raced \in BOOLEAN

LEMMA OtherwiseInit == Init => OtherwiseTyped
  <1> SUFFICES ASSUME Init PROVE OtherwiseTyped
    OBVIOUS
  <1>1. 0 \in 0..MaxTime /\ 0 \in 0..MaxFaults
    OBVIOUS
  <1>2. now \in 0..MaxTime /\ faults \in 0..MaxFaults /\ raced \in BOOLEAN
    BY <1>1 DEF Init
  <1>3. at \in [Request -> 0..MaxTime]
    BY <1>1 DEF Init
  <1>4. /\ accounts \subseteq User /\ mailed \subseteq Request
        /\ jobs \in [Request -> {"none", "queued", "loaded", "processed", "dead"}]
        /\ tries \in [Request -> Nat]
    BY DEF Init
  <1> QED BY <1>2, <1>3, <1>4 DEF OtherwiseTyped

LEMMA OtherwisePreserved == ControlInv /\ OtherwiseTyped /\ [Next]_vars => OtherwiseTyped'
  <1> SUFFICES ASSUME ControlInv, OtherwiseTyped, [Next]_vars PROVE OtherwiseTyped'
    OBVIOUS
  <1> USE DEF OtherwiseTyped
  <1>0. 0 \in 0..MaxTime
    OBVIOUS
  <1>1. CASE Tick \/ UNCHANGED vars
    BY <1>1 DEF Tick, vars, tables, requests, outbox
  <1>2. ASSUME NEW c \in Call, Begin(c) PROVE OtherwiseTyped'
    BY <1>2 DEF Begin, tables, outbox
  <1>3. ASSUME NEW i \in Request, ReadMember(i) PROVE OtherwiseTyped'
    BY <1>3 DEF ReadMember, tables, outbox
  <1>4. ASSUME NEW i \in Request, List(i) PROVE OtherwiseTyped'
    BY <1>4 DEF List, AuthorizePage, CountMembers, FetchMembers, tables, outbox
  <1>5. ASSUME NEW i \in Request, Deliver(i) PROVE OtherwiseTyped'
    <2>1. UNCHANGED <<now, accounts, at, raced>>
      BY <1>5 DEF Deliver, SkipInvitation, LoadInvitation, SendInvitation, SendFails, tables, requests
    <2>2. jobs' \in [Request -> {"none", "queued", "loaded", "processed", "dead"}]
      BY <1>5 DEF Deliver, SkipInvitation, LoadInvitation, SendInvitation, SendFails, HandlerFails
    <2>3. tries' \in [Request -> Nat]
      BY <1>5 DEF Deliver, SkipInvitation, LoadInvitation, SendInvitation, SendFails, HandlerFails
    <2>4. mailed' \subseteq Request
      BY <1>5 DEF Deliver, SkipInvitation, LoadInvitation, SendInvitation, SendFails
    <2>5. faults' \in 0..MaxFaults
      BY <1>5 DEF Deliver, SkipInvitation, LoadInvitation, SendInvitation, SendFails, Fault
    <2> QED BY <2>1, <2>2, <2>3, <2>4, <2>5
  <1>6. ASSUME NEW i \in Request, Change(i) PROVE OtherwiseTyped'
    <2>1. at' = [at EXCEPT ![i] = 0] /\ now' = now
      BY <1>6, ChangeEffect DEF ControlInv
    <2>2. at' \in [Request -> 0..MaxTime] /\ now' \in 0..MaxTime
      BY <1>0, <2>1
    <2>3. call[i].on \in User /\ call[i].by \in User
      <3>1. call[i] \in Calls
        BY <1>6, ChangeEffect DEF ControlInv, StagesFit
      <3> QED BY <3>1 DEF Calls
    <2>4. accounts' \subseteq User
      BY <1>6, <2>3 DEF Change, AddMember, UpdateMemberRole, RemoveMember, CreateInvitation, Announce,
        RevokeInvitation, ClaimInvitation, DeleteWorkspace, DeleteAccount, InsertMember, ClaimRow, tables
    <2>5. /\ jobs' \in [Request -> {"none", "queued", "loaded", "processed", "dead"}]
          /\ UNCHANGED <<tries, mailed>>
      BY <1>6 DEF Change, AddMember, UpdateMemberRole, RemoveMember, CreateInvitation, Announce,
        RevokeInvitation, ClaimInvitation, DeleteWorkspace, DeleteAccount, outbox
    <2>6. faults' = faults /\ raced' \in BOOLEAN
      BY <1>6 DEF Change, AddMember, UpdateMemberRole, RemoveMember, CreateInvitation, Announce,
        RevokeInvitation, ClaimInvitation, DeleteWorkspace, DeleteAccount, Finish
    <2> QED BY <2>2, <2>4, <2>5, <2>6
  <1> QED BY <1>1, <1>2, <1>3, <1>4, <1>5, <1>6 DEF Next

LEMMA ListInvariant == Spec => [](ControlInv /\ ListTyped /\ OtherwiseTyped)
  <1>1. Init => ControlInv /\ ListTyped /\ OtherwiseTyped
    BY ControlInit, ListInit, OtherwiseInit
  <1>2. ControlInv /\ ListTyped /\ OtherwiseTyped /\ [Next]_vars => (ControlInv /\ ListTyped /\ OtherwiseTyped)'
    BY ControlPreserved, ListTypedPreserved, OtherwisePreserved
  <1>3. QED
    BY <1>1, <1>2, PTL DEF Spec

\* The state is well formed; in particular the list of members has one row of each
\* membership and no other, in both stores, whatever joins, leaves and cascades.
THEOREM MembersAreListed == Spec => []TypeOK
  <1>1. ControlInv /\ ListTyped /\ OtherwiseTyped => TypeOK
    BY DEF ControlInv, ControlTyped, ListTyped, OtherwiseTyped, TypeOK
  <1>2. QED
    BY <1>1, ListInvariant, PTL

-------------------------------------------------------------------------------
(* Listings.                                                               *)

\* Of those there at the start, the pages read so far have shown everybody whose
\* row is before the next page.
Shown(i) ==
  /\ listing[i].start \subseteq ToSet(rows)
  /\ \A k \in DOMAIN rows :
       k <= listing[i].offset /\ rows[k] \in listing[i].start => rows[k] \in listing[i].got

ListingFits(i) ==
  /\ stage[i] = "idle" => listing[i].offset = 0
  /\ stage[i] # "idle" /\ call[i].kind = "list" /\ ~listing[i].moved =>
       /\ stage[i] \in {"counting", "fetching", "paging", "done"}
       /\ stage[i] # "done" => Shown(i)
       /\ stage[i] = "fetching" => listing[i].total = Len(rows)
       /\ stage[i] = "done" => listing[i].start \subseteq listing[i].got

ListingsFit == \A i \in Request : ListingFits(i)

LEMMA ListingsFitInit == Init => ListingsFit
  BY DEF Init, ListingsFit, ListingFits

LEMMA ListingUntouched ==
  ASSUME NEW j \in Request, ListingFits(j),
         UNCHANGED <<rows, stage[j], listing[j]>>, stage[j] # "idle" => call'[j] = call[j]
  PROVE  ListingFits(j)'
  BY DEF ListingFits, Shown, ToSet

\* Who comes takes a row after those already read, or shifts them to later pages.
LEMMA ComesFits ==
  ASSUME ControlInv, ListTyped, NEW j \in Request, ListingFits(j), Comes,
         stage'[j] = stage[j], stage[j] # "idle" => call'[j] = call[j]
  PROVE  ListingFits(j)'
  <1>1. PICK u \in User, r \in Roles : InsertMember(u, r)
    BY DEF Comes
  <1>2. PICK p \in 1..Len(rows) + 1 :
              /\ \A k \in 1..p-1 : rows'[k] = rows[k]
              /\ rows'[p] = u
              /\ \A k \in (p + 1)..(Len(rows) + 1) : rows'[k] = rows[k - 1]
    BY <1>1, InsertKeepsList DEF ControlInv
  <1>3. ListTyped' /\ u \notin ToSet(rows) /\ Len(rows') = Len(rows) + 1
    BY <1>1, InsertKeepsList DEF ControlInv
  <1>4. listing'[j] = IF stage[j] = "fetching" THEN [listing[j] EXCEPT !.moved = TRUE] ELSE listing[j]
    BY <1>1 DEF InsertMember, InsertRow
  <1>5. listing[j] \in Listing
    BY DEF ListTyped
  <1>6. CASE stage[j] = "fetching"
    BY <1>4, <1>5, <1>6 DEF ListingFits, Listing
  <1>7. CASE stage[j] # "fetching"
    <2>1. listing'[j] = listing[j]
      BY <1>4, <1>7
    <2>2. ASSUME Shown(j) PROVE Shown(j)'
      <3>1. listing[j].start \subseteq ToSet(rows')
        <4>1. ASSUME NEW v \in ToSet(rows) PROVE v \in ToSet(rows')
          <5>1. PICK k \in DOMAIN rows : v = rows[k]
            BY DEF ToSet
          <5>2. k \in 1..Len(rows) /\ DOMAIN rows' = 1..(Len(rows) + 1) /\ Len(rows) \in Nat
            BY <1>3 DEF ListTyped
          <5>3. CASE k < p
            <6>1. k \in DOMAIN rows' /\ rows'[k] = v
              BY <1>2, <5>1, <5>2, <5>3
            <6> QED BY <6>1 DEF ToSet
          <5>4. CASE k >= p
            <6>1. k + 1 \in DOMAIN rows' /\ rows'[k + 1] = v
              BY <1>2, <5>1, <5>2, <5>4
            <6> QED BY <6>1 DEF ToSet
          <5> QED BY <5>2, <5>3, <5>4
        <4> QED BY <2>2, <4>1 DEF Shown
      <3>2. ASSUME NEW k \in DOMAIN rows', k <= listing[j].offset, rows'[k] \in listing[j].start
            PROVE  rows'[k] \in listing[j].got
        <4>1. k \in 1..(Len(rows) + 1) /\ Len(rows) \in Nat /\ DOMAIN rows = 1..Len(rows)
              /\ listing[j].offset \in Nat
          BY <1>3, <1>5 DEF ListTyped, Listing
        <4>2. rows'[k] # u
          BY <1>3, <2>2, <3>2 DEF Shown
        <4>3. CASE k < p
          <5>1. k \in DOMAIN rows /\ rows'[k] = rows[k]
            BY <1>2, <4>1, <4>3
          <5> QED BY <2>2, <3>2, <5>1 DEF Shown
        <4>4. CASE k > p
          <5>1. k - 1 \in DOMAIN rows /\ rows'[k] = rows[k - 1] /\ k - 1 <= listing[j].offset
            BY <1>2, <3>2, <4>1, <4>4
          <5> QED BY <2>2, <3>2, <5>1 DEF Shown
        <4> QED BY <1>2, <4>1, <4>2, <4>3, <4>4
      <3> QED BY <2>1, <3>1, <3>2 DEF Shown, ToSet
    <2> QED BY <1>7, <2>1, <2>2 DEF ListingFits
  <1> QED BY <1>6, <1>7

\* Who goes makes those listings exempt that are not at their end.
LEMMA GoesFits ==
  ASSUME ControlInv, ListTyped, NEW j \in Request, ListingFits(j), Goes,
         stage'[j] = stage[j], stage[j] # "idle" => call'[j] = call[j]
  PROVE  ListingFits(j)'
  <1>1. PICK gone : RemoveRows(gone)
    BY DEF Goes
  <1>2. listing[j] \in Listing
    BY DEF ListTyped
  <1>3. CASE UNCHANGED <<rows, listing>>
    BY <1>3, ListingUntouched
  <1>4. CASE listing'[j] = IF stage[j] \in {"counting", "fetching", "paging"}
                           THEN [listing[j] EXCEPT !.moved = TRUE] ELSE listing[j]
    BY <1>2, <1>4 DEF ListingFits, Listing
  <1> QED BY <1>1, <1>3, <1>4 DEF RemoveRows

\* A page takes the listing on, and the last one shows the rest.
LEMMA FetchFits ==
  ASSUME ControlInv, ListTyped, NEW i \in Request, ListingFits(i), FetchMembers(i)
  PROVE  ListingFits(i)'
  <1> DEFINE l == listing[i]
             o == l.offset
             c == Cardinality(Page(o))
  <1>1. /\ o \in Nat /\ c \in Nat /\ c <= PageSize
        /\ listing'[i] = [l EXCEPT !.got = l.got \cup Page(o), !.offset = o + c]
        /\ stage[i] \in {"counting", "fetching"}
        /\ stage[i] = IF store = "file" THEN "counting" ELSE "fetching"
        /\ stage'[i] = IF o + c < (IF store = "file" THEN Len(rows) ELSE l.total) THEN "paging" ELSE "done"
        /\ UNCHANGED <<role, rows, call>>
    BY FetchEffect DEF ControlInv
  <1>2. l \in Listing
    BY DEF ListTyped
  <1>3. /\ listing'[i].start = l.start /\ listing'[i].moved = l.moved
        /\ listing'[i].got = l.got \cup Page(o) /\ listing'[i].offset = o + c
    BY <1>1, <1>2 DEF Listing
  <1> SUFFICES ASSUME call[i].kind = "list", ~l.moved
               PROVE  /\ stage'[i] # "done" => Shown(i)'
                      /\ stage'[i] = "done" => l.start \subseteq l.got \cup Page(o)
    BY <1>1, <1>3 DEF ListingFits
  <1>4. Shown(i) /\ (stage[i] = "fetching" => l.total = Len(rows))
    BY <1>1 DEF ListingFits
  <1>5. DOMAIN rows = 1..Len(rows) /\ Len(rows) \in Nat
    BY DEF ListTyped
  <1> HIDE DEF c
  <1>6. ASSUME NEW k \in DOMAIN rows, k <= o + c, rows[k] \in l.start
        PROVE  rows[k] \in l.got \cup Page(o)
    <2>1. CASE k <= o
      BY <1>4, <1>6, <2>1 DEF Shown
    <2>2. CASE k > o
      <3>1. k \in (o + 1)..(o + PageSize) \cap DOMAIN rows
        BY <1>1, <1>5, <1>6, <2>2
      <3> QED BY <3>1 DEF Page
    <2> QED BY <1>1, <1>5, <2>1, <2>2
  <1>7. Shown(i)'
    BY <1>1, <1>3, <1>4, <1>6 DEF Shown, ToSet
  <1>8. ASSUME stage'[i] = "done", NEW u \in l.start PROVE u \in l.got \cup Page(o)
    <2>1. ~(o + c < Len(rows))
      BY <1>1, <1>4, <1>8
    <2>2. PICK k \in DOMAIN rows : u = rows[k]
      BY <1>4, <1>8 DEF Shown, ToSet
    <2>3. k <= o + c
      BY <1>1, <1>5, <2>1
    <2> QED BY <1>6, <1>8, <2>2, <2>3
  <1> QED BY <1>7, <1>8

LEMMA ListingsFitPreserved == ControlInv /\ ListTyped /\ ListingsFit /\ [Next]_vars => ListingsFit'
  <1> SUFFICES ASSUME ControlInv, ListTyped, ListingsFit, [Next]_vars, NEW j \in Request
               PROVE  ListingFits(j)'
    BY DEF ListingsFit
  <1>0. ListingFits(j) /\ listing[j] \in Listing
    BY DEF ListingsFit, ListTyped
  <1>1. CASE Tick \/ UNCHANGED vars \/ \E i \in Request : Deliver(i)
    BY <1>0, <1>1, OthersLeaveLists, ListingUntouched
  <1>2. ASSUME NEW c \in Call, Begin(c) PROVE ListingFits(j)'
    <2> DEFINE n == Len(call) + 1
               st == IF c.kind = "list" THEN ToSet(rows) ELSE {}
    <2>1. /\ n \in Request /\ stage[n] = "idle" /\ call'[n] = c /\ stage'[n] = First(c)
          /\ \A q \in Request : stage[q] # "idle" => call'[q] = call[q] /\ q # n
          /\ stage' = [stage EXCEPT ![n] = First(c)]
          /\ UNCHANGED rows
      BY <1>2, BeginEffect DEF ControlInv, tables
    <2>2. listing' = [listing EXCEPT ![n].start = st]
      BY <1>2 DEF Begin
    <2> HIDE DEF n, st
    <2>3. CASE j # n
      <3>1. UNCHANGED <<rows, stage[j], listing[j]>>
        BY <2>1, <2>2, <2>3 DEF ControlInv, ControlTyped, ListTyped
      <3> QED BY <1>0, <2>1, <3>1, ListingUntouched
    <2>4. CASE j = n
      <3>1. listing'[j] = [listing[j] EXCEPT !.start = st]
        BY <2>2, <2>4 DEF ListTyped
      <3>2. listing'[j].offset = 0 /\ listing'[j].start = st
        BY <1>0, <2>1, <2>4, <3>1 DEF ListingFits, Listing
      <3>3. stage'[j] # "idle" /\ (c.kind = "list" => stage'[j] = "counting" /\ st = ToSet(rows))
        BY <2>1, <2>4 DEF First, st
      <3>4. c.kind = "list" => Shown(j)'
        BY <2>1, <3>2, <3>3 DEF Shown, ToSet, ListTyped
      <3> QED BY <2>1, <2>4, <3>3, <3>4 DEF ListingFits
    <2> QED BY <2>3, <2>4
  <1>3. ASSUME NEW i \in Request, ReadMember(i) PROVE ListingFits(j)'
    <2>1. UNCHANGED <<rows, listing, call>> /\ stage[i] = "reading" /\ stage' = [stage EXCEPT ![i] = "changing"]
      BY <1>3 DEF ReadMember, tables
    <2>2. call[i].kind # "list"
      BY <2>1 DEF ControlInv, StagesFit
    <2>3. CASE j = i
      BY <2>1, <2>2, <2>3 DEF ListingFits, ControlInv, ControlTyped
    <2>4. CASE j # i
      BY <1>0, <2>1, <2>4, ListingUntouched
    <2> QED BY <2>3, <2>4
  <1>4. ASSUME NEW i \in Request, AuthorizePage(i) PROVE ListingFits(j)'
    <2>1. UNCHANGED <<rows, listing, call>> /\ stage[i] = "paging" /\ stage' = [stage EXCEPT ![i] = "counting"]
      BY <1>4 DEF AuthorizePage, tables
    <2>3. CASE j = i
      BY <1>0, <2>1, <2>3 DEF ListingFits, Shown, ToSet, ControlInv, ControlTyped
    <2>4. CASE j # i
      BY <1>0, <2>1, <2>4, ListingUntouched
    <2> QED BY <2>3, <2>4
  <1>5. ASSUME NEW i \in Request, CountMembers(i) PROVE ListingFits(j)'
    <2>1. /\ UNCHANGED <<rows, call>> /\ stage[i] = "counting" /\ stage' = [stage EXCEPT ![i] = "fetching"]
          /\ listing' = [listing EXCEPT ![i].total = Len(rows)]
      BY <1>5 DEF CountMembers, tables
    <2>3. CASE j = i
      <3>1. listing'[j] = [listing[j] EXCEPT !.total = Len(rows)] /\ stage'[j] = "fetching"
        BY <2>1, <2>3 DEF ListTyped, ControlInv, ControlTyped
      <3>2. /\ listing'[j].total = Len(rows) /\ listing'[j].start = listing[j].start
            /\ listing'[j].got = listing[j].got /\ listing'[j].offset = listing[j].offset
            /\ listing'[j].moved = listing[j].moved
        BY <1>0, <3>1 DEF Listing
      <3> QED BY <1>0, <2>1, <2>3, <3>1, <3>2 DEF ListingFits, Shown, ToSet
    <2>4. CASE j # i
      <3>1. UNCHANGED <<rows, stage[j], listing[j], call>>
        BY <2>1, <2>4 DEF ListTyped, ControlInv, ControlTyped
      <3> QED BY <1>0, <3>1, ListingUntouched
    <2> QED BY <2>3, <2>4
  <1>6. ASSUME NEW i \in Request, FetchMembers(i) PROVE ListingFits(j)'
    <2>1. CASE j = i
      BY <1>0, <1>6, <2>1, FetchFits
    <2>2. CASE j # i
      <3>1. UNCHANGED <<rows, stage[j], listing[j], call>>
        BY <1>6, <2>2, FetchEffect DEF ControlInv
      <3> QED BY <1>0, <3>1, ListingUntouched
    <2> QED BY <2>1, <2>2
  <1>7. ASSUME NEW i \in Request, Change(i) PROVE ListingFits(j)'
    <2>1. /\ call[i].kind # "list" /\ (Comes \/ Goes \/ Stays)
          /\ call' = call /\ stage[i] # "idle" /\ stage'[i] # "idle"
          /\ j # i => stage'[j] = stage[j]
      BY <1>7, MembersStep, ChangeEffect DEF ControlInv, ControlTyped
    <2>2. CASE j = i
      BY <2>1, <2>2 DEF ListingFits
    <2>3. CASE j # i
      BY <1>0, <2>1, <2>3, ComesFits, GoesFits, ListingUntouched DEF Stays
    <2> QED BY <2>2, <2>3
  <1> QED BY <1>1, <1>2, <1>3, <1>4, <1>5, <1>6, <1>7 DEF Next, List

\* Page by page, with members coming at any moment and in any place, who was there
\* throughout is shown.
THEOREM ListingsAreComplete == Spec => []ListingIsComplete
  <1>1. Init => ListingsFit
    BY ListingsFitInit
  <1>2. ControlInv /\ ListTyped /\ ListingsFit /\ [Next]_vars => ListingsFit'
    BY ListingsFitPreserved
  <1>3. ControlInv /\ ListingsFit => ListingIsComplete
    <2> SUFFICES ASSUME ControlInv, ListingsFit, NEW i \in DOMAIN call,
                        call[i].kind = "list", stage[i] = "done", ~listing[i].moved
                 PROVE  listing[i].start \subseteq listing[i].got
      BY DEF ListingIsComplete
    <2>1. i \in Request
      BY DEF ControlInv, ControlTyped, Request
    <2> QED BY <2>1 DEF ListingsFit, ListingFits
  <1>4. QED
    BY <1>1, <1>2, <1>3, ListInvariant, PTL DEF Spec
================================================================================
