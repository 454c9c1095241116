---------------------------- MODULE FileStoreProofs ----------------------------
(***************************************************************************)
(* Theorems about the JSON files, for any number of calls, faults and rows.*)
(*                                                                         *)
(* Three arguments.  Each call takes a document that keeps to the keys to  *)
(* another one, if the ids it makes are new to the document; so whatever   *)
(* the server reads, has in memory or writes keeps to them, in whatever    *)
(* order it was made.  The mutexes exclude each other's calls, so as long  *)
(* as no unlocked call has overlapped one, there is one call at a time     *)
(* that is between reading and renaming: the name it writes under is its   *)
(* own, and what it saves contains what is stored.  And the processes whose*)
(* changes are in a document are those that were answered ok, or whose     *)
(* change WorkspaceRepo kept when it could not save it.                    *)
(***************************************************************************)
EXTENDS FileStore, TLAPS

\* What the next document may hold that the one before did not.
Follows(e, d, c) ==
  /\ e \in Document /\ Consistent(e)
  /\ \A v \in e.invitations : \/ \E u \in d.invitations : u.key = v.key
                              \/ c.kind = "invite" /\ v.key = c.key
  /\ \A m \in e.memberships : \/ \E u \in d.memberships : u.ws = m.ws
                              \/ m.ws = c.ws

\* What a call relies on: the ids it makes are not in the document.
New(d, c) ==
  /\ c.kind = "invite" => \A v \in d.invitations : v.key # c.key
  /\ c.kind = "create" => \A m \in d.memberships : m.ws # c.ws

-------------------------------------------------------------------------------
(* The changes, kind by kind.                                              *)

Memberships == [ws : Text, key : Text, role : Text]

Invitations == [ws : Text, key : Text, email : Text, expires : Nat,
                revoked : BOOLEAN, accepted : Text \cup {None}]

\* The fields that Consistent and Follows speak of, one replaced.
LEMMA OtherMemberships ==
  ASSUME NEW d \in Document, NEW S \in SUBSET Memberships,
         NEW e, e = [d EXCEPT !.memberships = S]
  PROVE  /\ e \in Document /\ e.memberships = S
         /\ e.invitations = d.invitations /\ e.releases = d.releases /\ e.devices = d.devices
BY DEF Document, Memberships

LEMMA OtherInvitations ==
  ASSUME NEW d \in Document, NEW S \in SUBSET Invitations,
         NEW e, e = [d EXCEPT !.invitations = S]
  PROVE  /\ e \in Document /\ e.invitations = S
         /\ e.memberships = d.memberships /\ e.releases = d.releases /\ e.devices = d.devices
BY DEF Document, Invitations

\* Rows put in the place of those of one key keep the keys unique.
LEMMA RewrittenKeys ==
  ASSUME NEW S, KeysAreUnique(S), NEW c, NEW T,
         \A t \in T : \E x \in Rows(S, c) : t.ws = x.ws /\ t.key = x.key,
         \A t, u \in T : t = u
  PROVE  KeysAreUnique(Rewrite(S, c, T))
BY DEF KeysAreUnique, Rewrite, Rows

LEMMA ChangesMembers ==
  ASSUME NEW d \in Document, Consistent(d), NEW c \in CallRecord, New(d, c),
         c.kind \in {"create", "add", "update", "remove"}, Change(d, c) # Refused
  PROVE  Follows(Change(d, c), d, c)
<1> DEFINE M == d.memberships
           e == Change(d, c)
<1>0. M \in SUBSET Memberships /\ KeysAreUnique(M) /\ c.ws \in Text /\ c.key \in Text /\ c.value \in Text
  BY DEF Document, Memberships, Consistent, CallRecord
<1> SUFFICES Follows(e, d, c)
  OBVIOUS
<1> HIDE DEF e
<1>1. ASSUME NEW S \in SUBSET Memberships, KeysAreUnique(S), e = [d EXCEPT !.memberships = S],
             \A m \in S : m \in M \/ m.ws = c.ws
      PROVE  Follows(e, d, c)
  <2>1. /\ e \in Document /\ e.memberships = S
        /\ e.invitations = d.invitations /\ e.releases = d.releases /\ e.devices = d.devices
    BY <1>1, OtherMemberships
  <2> QED BY <1>1, <2>1 DEF Follows, Consistent
<1>2. CASE c.kind = "create"
  <2> DEFINE w == [id |-> c.ws, slug |-> c.value]
             m == [ws |-> c.ws, key |-> c.key, role |-> "owner"]
             W == d.workspaces \cup {w}
             S == M \cup {m}
  <2>1. e = [d EXCEPT !.workspaces = W, !.memberships = S]
    BY <1>2 DEF e, Change, Create
  <2>2. W \in SUBSET [id : Text, slug : Text]
    <3>1. w \in [id : Text, slug : Text]
      BY <1>0
    <3> QED BY <3>1 DEF Document
  <2>3. S \in SUBSET Memberships
    <3>1. m \in Memberships
      BY <1>0, TextAssumption DEF Memberships
    <3> QED BY <1>0, <3>1
  <2>4. KeysAreUnique(S) /\ \A x \in S : x \in M \/ x.ws = c.ws
    <3>1. \A x \in M : x.ws # m.ws
      BY <1>2 DEF New
    <3> QED BY <1>0, <3>1 DEF KeysAreUnique
  <2> HIDE DEF W, S
  <2>5. /\ e \in Document /\ e.memberships = S
        /\ e.invitations = d.invitations /\ e.releases = d.releases /\ e.devices = d.devices
    BY <2>1, <2>2, <2>3 DEF Document, Memberships
  <2> QED BY <2>4, <2>5 DEF Follows, Consistent
<1>3. CASE c.kind = "add"
  <2> DEFINE m == [ws |-> c.ws, key |-> c.key, role |-> c.value]
             S == M \cup {m}
  <2>1. e = [d EXCEPT !.memberships = S] /\ Rows(M, c) = {}
    BY <1>3 DEF e, Change, AddMember
  <2>2. m \in Memberships
    BY <1>0 DEF Memberships
  <2>3. S \in SUBSET Memberships /\ KeysAreUnique(S)
    BY <1>0, <2>1, <2>2 DEF KeysAreUnique, Rows
  <2> QED BY <1>1, <2>1, <2>3
<1>4. CASE c.kind = "update"
  <2> DEFINE T == {[m EXCEPT !.role = c.value] : m \in Rows(M, c)}
             S == Rewrite(M, c, T)
  <2>1. e = [d EXCEPT !.memberships = S]
    BY <1>4 DEF e, Change, UpdateMemberRole
  <2>2. \A m \in Rows(M, c) : LET t == [m EXCEPT !.role = c.value]
                              IN  t \in Memberships /\ t.ws = c.ws /\ t.key = c.key /\ t.ws = m.ws /\ t.key = m.key
    BY <1>0 DEF Rows, Memberships
  <2>3. \A m, n \in Rows(M, c) : m = n
    BY <1>0 DEF Rows, KeysAreUnique
  <2>4. KeysAreUnique(S)
    <3>1. \A t \in T : \E x \in Rows(M, c) : t.ws = x.ws /\ t.key = x.key
      BY <2>2
    <3>2. \A t, u \in T : t = u
      BY <2>3
    <3> HIDE DEF T
    <3> QED BY <1>0, <3>1, <3>2, RewrittenKeys
  <2>5. S \in SUBSET Memberships /\ \A m \in S : m \in M \/ m.ws = c.ws
    BY <1>0, <2>2 DEF Rewrite
  <2> QED BY <1>1, <2>1, <2>4, <2>5
<1>5. CASE c.kind = "remove"
  <2> DEFINE S == M \ Rows(M, c)
  <2>1. e = [d EXCEPT !.memberships = S]
    BY <1>5 DEF e, Change, RemoveMember
  <2>2. S \in SUBSET Memberships /\ KeysAreUnique(S)
    BY <1>0 DEF KeysAreUnique
  <2> QED BY <1>1, <2>1, <2>2
<1> QED BY <1>2, <1>3, <1>4, <1>5

\* What Consistent says of the invitations.
InvitationsOK(S) ==
  /\ KeysAreUnique(S)
  /\ \A v, w \in S : v.ws = w.ws /\ v.email = w.email /\ Open(v) /\ Open(w) => v = w
  /\ \A v \in S : v.revoked => v.accepted = None

\* A row revoked, or accepted by a user, is a row with the same key.
LEMMA ClosedRow ==
  ASSUME NEW v \in Invitations, NEW x \in Text
  PROVE  /\ LET r == [v EXCEPT !.revoked = TRUE]
            IN  /\ r \in Invitations /\ r.ws = v.ws /\ r.key = v.key /\ r.email = v.email
                /\ r.revoked = TRUE /\ r.accepted = v.accepted
         /\ LET r == [v EXCEPT !.accepted = x]
            IN  /\ r \in Invitations /\ r.ws = v.ws /\ r.key = v.key /\ r.email = v.email
                /\ r.revoked = v.revoked /\ r.accepted = x
BY DEF Invitations

LEMMA InviteKeeps ==
  ASSUME NEW I \in SUBSET Invitations, InvitationsOK(I), NEW c \in CallRecord,
         \A v \in I : v.key # c.key
  PROVE  LET open == {v \in I : v.ws = c.ws /\ v.email = c.value /\ Open(v)}
             S == (I \ open) \cup {[v EXCEPT !.revoked = TRUE] : v \in open}
                    \cup {[ws |-> c.ws, key |-> c.key, email |-> c.value, expires |-> c.at + 1,
                           revoked |-> FALSE, accepted |-> None]}
         IN  /\ S \in SUBSET Invitations /\ InvitationsOK(S)
             /\ \A v \in S : v.key = c.key \/ \E u \in I : u.key = v.key
<1> DEFINE open == {v \in I : v.ws = c.ws /\ v.email = c.value /\ Open(v)}
           R == {[v EXCEPT !.revoked = TRUE] : v \in open}
           n == [ws |-> c.ws, key |-> c.key, email |-> c.value, expires |-> c.at + 1,
                 revoked |-> FALSE, accepted |-> None]
           S == (I \ open) \cup R \cup {n}
<1>1. n \in Invitations /\ n.ws = c.ws /\ n.key = c.key /\ n.email = c.value
      /\ n.revoked = FALSE /\ n.accepted = None
  BY DEF Invitations, CallRecord
<1>2. \A r \in R : \E v \in open : /\ r \in Invitations /\ r.ws = v.ws /\ r.key = v.key
                                   /\ r.email = v.email /\ r.revoked = TRUE
                                   /\ r.accepted = v.accepted
                                   /\ r = [v EXCEPT !.revoked = TRUE]
  <2> SUFFICES ASSUME NEW v \in open
               PROVE  LET r == [v EXCEPT !.revoked = TRUE]
                      IN  /\ r \in Invitations /\ r.ws = v.ws /\ r.key = v.key
                          /\ r.email = v.email /\ r.revoked = TRUE
                          /\ r.accepted = v.accepted
    OBVIOUS
  <2> QED BY ClosedRow DEF Invitations
<1>3. \A v \in open : v \in I /\ v.accepted = None /\ v.ws = c.ws /\ v.email = c.value
  BY DEF Open
<1>4. \A v \in I \ open : ~ (v.ws = c.ws /\ v.email = c.value /\ Open(v))
  OBVIOUS
<1>5. \A x \in S : x \in I \ open \/ x \in R \/ x = n
  OBVIOUS
<1>6. S \in SUBSET Invitations
  BY <1>1, <1>2
<1> HIDE DEF n, R, open, S
<1>7. KeysAreUnique(S)
  <2> SUFFICES ASSUME NEW x \in S, NEW y \in S, x.ws = y.ws, x.key = y.key PROVE x = y
    BY DEF KeysAreUnique
  <2>1. \A v, w \in I : v.ws = w.ws /\ v.key = w.key => v = w
    BY DEF InvitationsOK, KeysAreUnique
  <2>2. CASE x = n \/ y = n
    BY <1>1, <1>2, <1>3, <1>5, <2>2
  <2>3. CASE x \in I \ open /\ y \in I \ open
    BY <2>1, <2>3
  <2>4. CASE x \in R /\ y \in I \ open
    BY <1>2, <1>3, <2>1, <2>4
  <2>5. CASE x \in I \ open /\ y \in R
    BY <1>2, <1>3, <2>1, <2>5
  <2>6. CASE x \in R /\ y \in R
    <3>1. PICK v \in open : /\ x.ws = v.ws /\ x.key = v.key
                            /\ x = [v EXCEPT !.revoked = TRUE]
      BY <1>2, <2>6
    <3>2. PICK w \in open : /\ y.ws = w.ws /\ y.key = w.key
                            /\ y = [w EXCEPT !.revoked = TRUE]
      BY <1>2, <2>6
    <3>3. v = w
      BY <1>3, <2>1, <3>1, <3>2
    <3> QED BY <3>1, <3>2, <3>3
  <2> QED BY <1>5, <2>2, <2>3, <2>4, <2>5, <2>6
<1>8. \A v, w \in S : v.ws = w.ws /\ v.email = w.email /\ Open(v) /\ Open(w) => v = w
  BY <1>1, <1>2, <1>4, <1>5 DEF InvitationsOK, Open
<1>9. \A v \in S : v.revoked => v.accepted = None
  BY <1>1, <1>2, <1>3, <1>5 DEF InvitationsOK
<1>10. \A v \in S : v.key = c.key \/ \E u \in I : u.key = v.key
  BY <1>1, <1>2, <1>3, <1>5
<1> QED BY <1>6, <1>7, <1>8, <1>9, <1>10 DEF InvitationsOK, S, R, n, open

\* Revoking and accepting close the one row of the key.
LEMMA CloseKeeps ==
  ASSUME NEW I \in SUBSET Invitations, InvitationsOK(I), NEW c \in CallRecord,
         \E v \in Rows(I, c) : Open(v),
         NEW T, \/ T = {[v EXCEPT !.revoked = TRUE] : v \in Rows(I, c)}
                \/ T = {[v EXCEPT !.accepted = c.value] : v \in Rows(I, c)}
  PROVE  /\ Rewrite(I, c, T) \in SUBSET Invitations /\ InvitationsOK(Rewrite(I, c, T))
         /\ \A v \in Rewrite(I, c, T) : \E u \in I : u.key = v.key
<1>1. PICK v \in Rows(I, c) : Open(v)
  OBVIOUS
<1>2. Rows(I, c) = {v} /\ v \in I /\ v \in Invitations /\ v.revoked = FALSE /\ v.accepted = None
  BY <1>1 DEF Rows, InvitationsOK, KeysAreUnique, Open, Invitations
<1>3. PICK r : /\ T = {r} /\ r \in Invitations /\ r.ws = v.ws /\ r.key = v.key /\ r.email = v.email
               /\ (r.revoked = TRUE /\ r.accepted = None) \/ r.revoked = FALSE
  <2>1. c.value \in Text
    BY DEF CallRecord
  <2>2. CASE T = {[v EXCEPT !.revoked = TRUE]}
    BY <1>2, <2>1, <2>2, ClosedRow
  <2>3. CASE T = {[v EXCEPT !.accepted = c.value]}
    <3> DEFINE a == [v EXCEPT !.accepted = c.value]
    <3>1. /\ a \in Invitations /\ a.ws = v.ws /\ a.key = v.key /\ a.email = v.email
          /\ a.revoked = v.revoked
      BY <1>2, <2>1 DEF Invitations
    <3> HIDE DEF a
    <3>2. T = {a}
      BY <2>3 DEF a
    <3> QED BY <1>2, <3>1, <3>2
  <2>4. CASE T = {[x EXCEPT !.revoked = TRUE] : x \in Rows(I, c)}
    <3>1. T = {[x EXCEPT !.revoked = TRUE] : x \in {v}}
      BY <1>2, <2>4
    <3> QED BY <2>2, <3>1
  <2>5. CASE T = {[x EXCEPT !.accepted = c.value] : x \in Rows(I, c)}
    <3>1. T = {[x EXCEPT !.accepted = c.value] : x \in {v}}
      BY <1>2, <2>5
    <3> QED BY <2>3, <3>1
  <2> QED BY <2>4, <2>5
<1> DEFINE S == Rewrite(I, c, T)
<1>4. S = (I \ {v}) \cup {r}
  BY <1>2, <1>3 DEF Rewrite
<1>5. S \in SUBSET Invitations
  BY <1>2, <1>3, <1>4
<1> HIDE DEF S
<1>6. KeysAreUnique(S)
  BY <1>2, <1>3, <1>4 DEF KeysAreUnique, InvitationsOK
<1>7. \A x, y \in S : x.ws = y.ws /\ x.email = y.email /\ Open(x) /\ Open(y) => x = y
  BY <1>1, <1>2, <1>3, <1>4 DEF InvitationsOK
<1>8. \A x \in S : x.revoked => x.accepted = None
  BY <1>2, <1>3, <1>4 DEF InvitationsOK
<1>9. \A x \in S : \E u \in I : u.key = x.key
  BY <1>2, <1>3, <1>4
<1> QED BY <1>5, <1>6, <1>7, <1>8, <1>9 DEF InvitationsOK, S

LEMMA ChangesInvitations ==
  ASSUME NEW d \in Document, Consistent(d), NEW c \in CallRecord, New(d, c),
         c.kind \in {"invite", "revoke", "claim", "drop"}, Change(d, c) # Refused
  PROVE  Follows(Change(d, c), d, c)
<1> DEFINE M == d.memberships
           I == d.invitations
           e == Change(d, c)
<1> SUFFICES Follows(e, d, c)
  OBVIOUS
<1> HIDE DEF e
<1>0. /\ I \in SUBSET Invitations /\ InvitationsOK(I) /\ M \in SUBSET Memberships /\ KeysAreUnique(M)
      /\ c.ws \in Text /\ c.key \in Text /\ c.value \in Text
  BY DEF Document, Invitations, Memberships, Consistent, InvitationsOK, CallRecord
<1>1. ASSUME NEW S \in SUBSET Invitations, InvitationsOK(S), e = [d EXCEPT !.invitations = S],
             \A v \in S : (c.kind = "invite" /\ v.key = c.key) \/ \E u \in I : u.key = v.key
      PROVE  Follows(e, d, c)
  <2>1. /\ e \in Document /\ e.invitations = S
        /\ e.memberships = d.memberships /\ e.releases = d.releases /\ e.devices = d.devices
    BY <1>1, OtherInvitations
  <2> QED BY <1>1, <2>1 DEF Follows, Consistent, InvitationsOK
<1>2. CASE c.kind = "invite"
  <2> DEFINE open == {v \in I : v.ws = c.ws /\ v.email = c.value /\ Open(v)}
             S == (I \ open) \cup {[v EXCEPT !.revoked = TRUE] : v \in open}
                    \cup {[ws |-> c.ws, key |-> c.key, email |-> c.value, expires |-> c.at + 1,
                           revoked |-> FALSE, accepted |-> None]}
  <2>1. e = [d EXCEPT !.invitations = S]
    BY <1>2 DEF e, Change, CreateInvitation
  <2>2. \A v \in I : v.key # c.key
    BY <1>2 DEF New
  <2>3. /\ S \in SUBSET Invitations /\ InvitationsOK(S)
        /\ \A v \in S : v.key = c.key \/ \E u \in I : u.key = v.key
    <3> HIDE DEF I
    <3> QED BY <1>0, <2>2, InviteKeeps
  <2> HIDE DEF S
  <2> QED BY <1>1, <1>2, <2>1, <2>3
<1>3. CASE c.kind = "revoke"
  <2> DEFINE T == {[v EXCEPT !.revoked = TRUE] : v \in Rows(I, c)}
             S == Rewrite(I, c, T)
  <2>1. e = [d EXCEPT !.invitations = S] /\ \E v \in Rows(I, c) : Open(v)
    BY <1>3 DEF e, Change, RevokeInvitation
  <2>2. /\ S \in SUBSET Invitations /\ InvitationsOK(S)
        /\ \A v \in S : \E u \in I : u.key = v.key
    <3>1. T = {[v EXCEPT !.revoked = TRUE] : v \in Rows(I, c)}
      OBVIOUS
    <3> HIDE DEF T, I
    <3> QED BY <1>0, <2>1, <3>1, CloseKeeps
  <2> HIDE DEF S
  <2> QED BY <1>1, <2>1, <2>2
<1>4. CASE c.kind = "claim"
  <2> DEFINE T == {[v EXCEPT !.accepted = c.value] : v \in Rows(I, c)}
             V == Rewrite(I, c, T)
             m == [ws |-> c.ws, key |-> c.value, role |-> "viewer"]
             S == M \cup {m}
  <2>1. /\ e = [d EXCEPT !.invitations = V, !.memberships = S]
        /\ \E v \in Rows(I, c) : Open(v)
        /\ ~ \E x \in M : x.ws = c.ws /\ x.key = c.value
    BY <1>4 DEF e, Change, ClaimInvitation
  <2>2. /\ V \in SUBSET Invitations /\ InvitationsOK(V)
        /\ \A v \in V : \E u \in I : u.key = v.key
    <3>1. T = {[v EXCEPT !.accepted = c.value] : v \in Rows(I, c)}
      OBVIOUS
    <3> HIDE DEF T, I
    <3> QED BY <1>0, <2>1, <3>1, CloseKeeps
  <2>3. S \in SUBSET Memberships
    <3>1. m \in Memberships
      BY <1>0, TextAssumption DEF Memberships
    <3> QED BY <1>0, <3>1
  <2>4. KeysAreUnique(S) /\ \A x \in S : x \in M \/ x.ws = c.ws
    BY <1>0, <2>1 DEF KeysAreUnique
  <2> HIDE DEF V, S
  <2>5. /\ e \in Document /\ e.invitations = V /\ e.memberships = S
        /\ e.releases = d.releases /\ e.devices = d.devices
    BY <2>1, <2>2, <2>3 DEF Document, Memberships, Invitations
  <2> QED BY <2>2, <2>4, <2>5 DEF Follows, Consistent, InvitationsOK
<1>5. CASE c.kind = "drop"
  <2> DEFINE W == {w \in d.workspaces : w.id # c.ws}
             S == {x \in M : x.ws # c.ws}
             V == {v \in I : v.ws # c.ws}
             R == {x \in d.revisions : x.ws # c.ws}
  <2>1. e = [d EXCEPT !.workspaces = W, !.memberships = S, !.invitations = V, !.revisions = R]
    BY <1>5 DEF e, Change, DeleteWorkspace
  <2>2. W \subseteq d.workspaces /\ S \subseteq M /\ V \subseteq I /\ R \subseteq d.revisions
    OBVIOUS
  <2> HIDE DEF W, S, V, R
  <2>3. /\ e \in Document /\ e.invitations = V /\ e.memberships = S
        /\ e.releases = d.releases /\ e.devices = d.devices
    BY <2>1, <2>2 DEF Document
  <2>4. KeysAreUnique(S)
    BY <1>0, <2>2 DEF KeysAreUnique
  <2>5. InvitationsOK(V)
    BY <1>0, <2>2 DEF KeysAreUnique, InvitationsOK
  <2> QED BY <2>2, <2>3, <2>4, <2>5 DEF Follows, Consistent, InvitationsOK
<1> QED BY <1>2, <1>3, <1>4, <1>5

\* The other files, and the revisions, have no ids and no rows of members.
LEMMA FollowsOthers ==
  ASSUME NEW d \in Document, Consistent(d), NEW c, NEW e \in Document,
         e.memberships = d.memberships, e.invitations = d.invitations,
         KeysAreUnique(e.releases), KeysAreUnique(e.devices)
  PROVE  Follows(e, d, c)
BY DEF Follows, Consistent

Releases == [ws : Text, key : Text, status : Text]

Devices == [ws : Text, key : Text, packages : Text]

Events == [ws : Text, key : Text, attempts : Nat, available : Nat, processed : BOOLEAN, dead : BOOLEAN]

LEMMA ChangesReleases ==
  ASSUME NEW d \in Document, Consistent(d), NEW c \in CallRecord,
         c.kind \in {"publish", "approve", "clear"}, Change(d, c) # Refused
  PROVE  Follows(Change(d, c), d, c)
<1> DEFINE L == d.releases
           e == Change(d, c)
<1> SUFFICES Follows(e, d, c)
  OBVIOUS
<1> HIDE DEF e
<1>0. /\ L \in SUBSET Releases /\ KeysAreUnique(L) /\ KeysAreUnique(d.devices)
      /\ c.ws \in Text /\ c.key \in Text /\ c.value \in Text
  BY DEF Document, Releases, Consistent, CallRecord
<1>1. ASSUME NEW S \in SUBSET Releases, KeysAreUnique(S), e = [d EXCEPT !.releases = S]
      PROVE  Follows(e, d, c)
  <2>1. /\ e \in Document /\ e.releases = S
        /\ e.memberships = d.memberships /\ e.invitations = d.invitations /\ e.devices = d.devices
    BY <1>1 DEF Document, Releases
  <2> QED BY <1>0, <1>1, <2>1, FollowsOthers
<1>2. CASE c.kind = "publish"
  <2> DEFINE r == [ws |-> c.ws, key |-> c.key, status |-> c.value]
             S == L \cup {r}
  <2>1. e = [d EXCEPT !.releases = S] /\ Rows(L, c) = {}
    BY <1>2 DEF e, Change, SaveRelease
  <2>2. r \in Releases
    BY <1>0 DEF Releases
  <2>3. S \in SUBSET Releases /\ KeysAreUnique(S)
    BY <1>0, <2>1, <2>2 DEF KeysAreUnique, Rows
  <2> QED BY <1>1, <2>1, <2>3
<1>3. CASE c.kind = "approve"
  <2> DEFINE T == {[x EXCEPT !.status = "approved"] : x \in Rows(L, c)}
             S == Rewrite(L, c, T)
  <2>1. e = [d EXCEPT !.releases = S]
    BY <1>3 DEF e, Change, ApproveRelease
  <2>2. \A x \in Rows(L, c) : LET t == [x EXCEPT !.status = "approved"]
                              IN  t \in Releases /\ t.ws = x.ws /\ t.key = x.key
    BY <1>0, TextAssumption DEF Rows, Releases
  <2>3. \A x, y \in Rows(L, c) : x = y
    BY <1>0 DEF Rows, KeysAreUnique
  <2>4. KeysAreUnique(S)
    <3>1. \A t \in T : \E x \in Rows(L, c) : t.ws = x.ws /\ t.key = x.key
      BY <2>2
    <3>2. \A t, u \in T : t = u
      BY <2>3
    <3> HIDE DEF T
    <3> QED BY <1>0, <3>1, <3>2, RewrittenKeys
  <2>5. S \in SUBSET Releases
    BY <1>0, <2>2 DEF Rewrite
  <2> QED BY <1>1, <2>1, <2>4, <2>5
<1>4. CASE c.kind = "clear"
  <2> DEFINE S == {x \in L : x.ws # c.ws}
  <2>1. e = [d EXCEPT !.releases = S]
    BY <1>4 DEF e, Change, RemoveWorkspaceReleases
  <2>2. S \in SUBSET Releases /\ KeysAreUnique(S)
    BY <1>0 DEF KeysAreUnique
  <2> QED BY <1>1, <2>1, <2>2
<1> QED BY <1>2, <1>3, <1>4

LEMMA ChangesDevices ==
  ASSUME NEW d \in Document, Consistent(d), NEW c \in CallRecord,
         c.kind \in {"register", "heartbeat"}, Change(d, c) # Refused
  PROVE  Follows(Change(d, c), d, c)
<1> DEFINE L == d.devices
           e == Change(d, c)
<1> SUFFICES Follows(e, d, c)
  OBVIOUS
<1> HIDE DEF e
<1>0. /\ L \in SUBSET Devices /\ KeysAreUnique(L) /\ KeysAreUnique(d.releases)
      /\ c.ws \in Text /\ c.key \in Text /\ c.value \in Text
  BY DEF Document, Devices, Consistent, CallRecord
<1>1. ASSUME NEW S \in SUBSET Devices, KeysAreUnique(S), e = [d EXCEPT !.devices = S]
      PROVE  Follows(e, d, c)
  <2>1. /\ e \in Document /\ e.devices = S
        /\ e.memberships = d.memberships /\ e.invitations = d.invitations /\ e.releases = d.releases
    BY <1>1 DEF Document, Devices
  <2> QED BY <1>0, <1>1, <2>1, FollowsOthers
<1>2. CASE c.kind = "register"
  <2> DEFINE r == [ws |-> c.ws, key |-> c.key, packages |-> c.value]
             S == (L \ Rows(L, c)) \cup {r}
  <2>1. e = [d EXCEPT !.devices = S]
    BY <1>2 DEF e, Change, SaveDevice
  <2>2. r \in Devices
    BY <1>0 DEF Devices
  <2>3. S \in SUBSET Devices /\ KeysAreUnique(S)
    BY <1>0, <2>2 DEF KeysAreUnique, Rows
  <2> QED BY <1>1, <2>1, <2>3
<1>3. CASE c.kind = "heartbeat"
  <2> DEFINE T == {[x EXCEPT !.packages = c.value] : x \in Rows(L, c)}
             S == Rewrite(L, c, T)
  <2>1. e = [d EXCEPT !.devices = S]
    BY <1>3 DEF e, Change, Heartbeat
  <2>2. \A x \in Rows(L, c) : LET t == [x EXCEPT !.packages = c.value]
                              IN  t \in Devices /\ t.ws = x.ws /\ t.key = x.key
    BY <1>0 DEF Rows, Devices
  <2>3. \A x, y \in Rows(L, c) : x = y
    BY <1>0 DEF Rows, KeysAreUnique
  <2>4. KeysAreUnique(S)
    <3>1. \A t \in T : \E x \in Rows(L, c) : t.ws = x.ws /\ t.key = x.key
      BY <2>2
    <3>2. \A t, u \in T : t = u
      BY <2>3
    <3> HIDE DEF T
    <3> QED BY <1>0, <3>1, <3>2, RewrittenKeys
  <2>5. S \in SUBSET Devices
    BY <1>0, <2>2 DEF Rewrite
  <2> QED BY <1>1, <2>1, <2>4, <2>5
<1> QED BY <1>2, <1>3

LEMMA ChangesLogs ==
  ASSUME NEW d \in Document, Consistent(d), NEW c \in CallRecord,
         c.kind \in {"revise", "append"}, Change(d, c) # Refused
  PROVE  Follows(Change(d, c), d, c)
<1> DEFINE e == Change(d, c)
<1> SUFFICES Follows(e, d, c)
  OBVIOUS
<1> HIDE DEF e
<1>0. /\ c.ws \in Text /\ c.key \in Text /\ c.at \in Nat
      /\ KeysAreUnique(d.releases) /\ KeysAreUnique(d.devices)
  BY DEF CallRecord, Consistent
<1>1. CASE c.kind = "revise"
  <2> DEFINE S == d.revisions \cup {[ws |-> c.ws, key |-> c.key, revision |-> c.at]}
  <2>1. e = [d EXCEPT !.revisions = S]
    BY <1>1 DEF e, Change, SaveRevision
  <2>2. S \in SUBSET [ws : Text, key : Text, revision : Nat]
    <3>1. [ws |-> c.ws, key |-> c.key, revision |-> c.at] \in [ws : Text, key : Text, revision : Nat]
      BY <1>0
    <3> QED BY <3>1 DEF Document
  <2> HIDE DEF S
  <2>3. /\ e \in Document /\ e.releases = d.releases /\ e.devices = d.devices
        /\ e.memberships = d.memberships /\ e.invitations = d.invitations
    BY <2>1, <2>2 DEF Document
  <2> QED BY <1>0, <2>3, FollowsOthers
<1>2. CASE c.kind = "append"
  <2> DEFINE S == Append(d.trail, [ws |-> c.ws, key |-> c.key])
  <2>1. e = [d EXCEPT !.trail = S]
    BY <1>2 DEF e, Change, AppendAudit
  <2>2. S \in Seq([ws : Text, key : Text])
    <3>1. [ws |-> c.ws, key |-> c.key] \in [ws : Text, key : Text]
      BY <1>0
    <3>2. d.trail \in Seq([ws : Text, key : Text])
      BY DEF Document
    <3> QED BY <3>1, <3>2
  <2> HIDE DEF S
  <2>3. /\ e \in Document /\ e.releases = d.releases /\ e.devices = d.devices
        /\ e.memberships = d.memberships /\ e.invitations = d.invitations
    BY <2>1, <2>2 DEF Document
  <2> QED BY <1>0, <2>3, FollowsOthers
<1> QED BY <1>1, <1>2

LEMMA ChangesEvents ==
  ASSUME NEW d \in Document, Consistent(d), NEW c \in CallRecord,
         c.kind \in {"enqueue", "take", "processed", "failed", "dead"}, Change(d, c) # Refused
  PROVE  Follows(Change(d, c), d, c)
<1> DEFINE E == d.events
           e == Change(d, c)
<1> SUFFICES Follows(e, d, c)
  OBVIOUS
<1> HIDE DEF e
<1>0. /\ E \in SUBSET Events /\ c.ws \in Text /\ c.key \in Text /\ c.at \in Nat
      /\ KeysAreUnique(d.releases) /\ KeysAreUnique(d.devices)
  BY DEF Document, Events, CallRecord, Consistent
<1>1. ASSUME NEW S \in SUBSET Events, e = [d EXCEPT !.events = S]
      PROVE  Follows(e, d, c)
  <2>1. /\ e \in Document /\ e.releases = d.releases /\ e.devices = d.devices
        /\ e.memberships = d.memberships /\ e.invitations = d.invitations
    BY <1>1 DEF Document, Events
  <2> QED BY <1>0, <2>1, FollowsOthers
<1>2. \A v \in Events : /\ [v EXCEPT !.attempts = @ + 1] \in Events
                        /\ [v EXCEPT !.processed = TRUE] \in Events
                        /\ [v EXCEPT !.available = c.at + 1] \in Events
                        /\ [v EXCEPT !.dead = TRUE] \in Events
  <2> SUFFICES ASSUME NEW v \in Events
               PROVE  /\ [v EXCEPT !.attempts = @ + 1] \in Events
                      /\ [v EXCEPT !.processed = TRUE] \in Events
                      /\ [v EXCEPT !.available = c.at + 1] \in Events
                      /\ [v EXCEPT !.dead = TRUE] \in Events
    OBVIOUS
  <2>1. [v EXCEPT !.attempts = @ + 1] \in Events
    BY DEF Events
  <2>2. [v EXCEPT !.processed = TRUE] \in Events /\ [v EXCEPT !.dead = TRUE] \in Events
    BY DEF Events
  <2>3. [v EXCEPT !.available = c.at + 1] \in Events
    BY <1>0 DEF Events
  <2> QED BY <2>1, <2>2, <2>3
<1>3. CASE c.kind = "enqueue"
  <2> DEFINE n == [ws |-> c.ws, key |-> c.key, attempts |-> 0, available |-> c.at,
                   processed |-> FALSE, dead |-> FALSE]
             S == E \cup {n}
  <2>1. e = [d EXCEPT !.events = S]
    BY <1>3 DEF e, Change, Enqueue
  <2>2. n \in Events
    BY <1>0 DEF Events
  <2>3. S \in SUBSET Events
    BY <1>0, <2>2
  <2> QED BY <1>1, <2>1, <2>3
<1>4. CASE c.kind = "take"
  <2> DEFINE due == {v \in E : Due(v, c.at)}
             S == (E \ due) \cup {[v EXCEPT !.attempts = @ + 1] : v \in due}
  <2>1. e = [d EXCEPT !.events = S]
    BY <1>4 DEF e, Change, Claim
  <2>2. S \in SUBSET Events
    BY <1>0, <1>2
  <2> HIDE DEF S
  <2> QED BY <1>1, <2>1, <2>2
<1>5. ASSUME NEW T \in SUBSET Events, e = [d EXCEPT !.events = Rewrite(@, c, T)]
      PROVE  Follows(e, d, c)
  <2>1. Rewrite(E, c, T) \in SUBSET Events
    BY <1>0, <1>5 DEF Rewrite
  <2>2. e = [d EXCEPT !.events = Rewrite(E, c, T)]
    BY <1>5
  <2> QED BY <1>1, <2>1, <2>2
<1>6. CASE c.kind = "processed"
  <2> DEFINE T == {[v EXCEPT !.processed = TRUE] : v \in Rows(E, c)}
  <2>1. e = [d EXCEPT !.events = Rewrite(@, c, T)]
    BY <1>6 DEF e, Change, Mark, MarkProcessed
  <2>2. T \in SUBSET Events
    BY <1>0, <1>2 DEF Rows
  <2> HIDE DEF T
  <2> QED BY <1>5, <2>1, <2>2
<1>7. CASE c.kind = "failed"
  <2> DEFINE T == {[v EXCEPT !.available = c.at + 1] : v \in Rows(E, c)}
  <2>1. e = [d EXCEPT !.events = Rewrite(@, c, T)]
    BY <1>7 DEF e, Change, Mark, MarkFailed
  <2>2. T \in SUBSET Events
    BY <1>0, <1>2 DEF Rows
  <2> HIDE DEF T
  <2> QED BY <1>5, <2>1, <2>2
<1>8. CASE c.kind = "dead"
  <2> DEFINE T == {[v EXCEPT !.dead = TRUE] : v \in Rows(E, c)}
  <2>1. e = [d EXCEPT !.events = Rewrite(@, c, T)]
    BY <1>8 DEF e, Change, Mark, MarkDeadLetter
  <2>2. T \in SUBSET Events
    BY <1>0, <1>2 DEF Rows
  <2> HIDE DEF T
  <2> QED BY <1>5, <2>1, <2>2
<1> QED BY <1>3, <1>4, <1>6, <1>7, <1>8

\* Each call that is not refused takes a document that keeps to the keys to
\* another one, and puts no ids into it but its own.  The list of kinds is that of
\* the operations of the five repositories: none of them checks a key it does not
\* write, and each of them checks those it does.
THEOREM ChangesKeepConsistency ==
  ASSUME NEW d \in Document, Consistent(d), NEW c \in CallRecord, New(d, c),
         Change(d, c) # Refused
  PROVE  Follows(Change(d, c), d, c)
BY ChangesMembers, ChangesInvitations, ChangesReleases, ChangesDevices, ChangesLogs, ChangesEvents
DEF CallRecord, Kinds

-------------------------------------------------------------------------------
(* What every step keeps.                                                  *)

\* A document keeps to the keys, and its ids are those of the start or of calls
\* whose changes it contains.
Good(h, pcs, calls) ==
  /\ Consistent(h.doc)
  /\ \A q \in h.made : pcs[q] \notin {"idle", "waiting"}
  /\ \A v \in h.doc.invitations :
       \/ \E u \in InitialDoc.invitations : u.key = v.key
       \/ \E q \in h.made : calls[q].kind = "invite" /\ calls[q].key = v.key
  /\ \A m \in h.doc.memberships :
       \/ \E u \in InitialDoc.memberships : u.ws = m.ws
       \/ \E q \in h.made : calls[q].ws = m.ws

DocumentsGood ==
  /\ Good(memory, pc, call)
  /\ \A n \in Inode : Unreadable(content[n]) \/ Good(content[n], pc, call)
  /\ \A p \in Process : image[p] # None => Good(image[p], pc, call)

\* No two calls make one id, and none names what a call at hand will create.
IdsApart ==
  /\ \A p \in Process : call[p] = None <=> pc[p] = "idle"
  /\ \A p, q \in Process :
       p # q /\ call[p] # None /\ call[q] # None =>
         /\ call[p].kind = "invite" /\ call[q].kind = "invite" => call[p].key # call[q].key
         /\ call[p].kind = "create" /\ pc[p] = "waiting" => call[q].ws # call[p].ws

\* An inode has a name, or somebody writes to it, only after the call that made
\* it; the two names are of two inodes; the mutex is with the call that needs it.
Opened == {p \in Process : pc[p] \in {"writing", "renaming", "done"}}

NamesApart ==
  /\ tmp \in Opened \cup {None}
  /\ path \in Opened \cup {Initial, None}
  /\ tmp # None => tmp # path
  /\ \A p \in Process : pc[p] \in {"writing", "renaming"} => fd[p] \in Opened
  /\ \A p \in Process : Saving(p) /\ Locks(call[p]) => holder = p

Kept == TypeOK /\ DocumentsGood /\ IdsApart /\ NamesApart

-------------------------------------------------------------------------------
(* While no unlocked call has overlapped another.                          *)

\* The calls whose changes may be stored.
Answered == {q \in Process : told[q] = "ok" \/ (file = "workspaces" /\ q \in early)}

Serial ==
  /\ \A p, q \in Process : Saving(p) /\ Saving(q) => p = q
  /\ \A p \in Process : pc[p] \in {"writing", "renaming"} => fd[p] = tmp
  /\ \A p \in Process : pc[p] = "writing" => content[tmp] = Empty
  /\ \A p \in Process : pc[p] = "renaming" => content[tmp] = image[p]
  /\ \A p \in Process : Saving(p) => /\ Stored.made \cup {p} \subseteq image[p].made
                                     /\ image[p].made \subseteq Answered \cup {p}
  /\ ~Unreadable(Stored)
  /\ Stored.made \subseteq Answered
  /\ \A p \in Process : told[p] = "ok" => p \in Stored.made
  /\ path = None =>
       memory.made \subseteq {q \in Process : file = "workspaces" /\ (q \in early \/ Saving(q))}

SerialUnlessOverlapped == ~overlapped => Serial

-------------------------------------------------------------------------------
(* Documents in hand.                                                      *)

LEMMA HoldingType ==
  ASSUME NEW d \in Document, NEW S \in SUBSET Process
  PROVE  /\ Holding(d, S) \in Holdings /\ Holding(d, S).doc = d /\ Holding(d, S).made = S
         /\ ~Unreadable(Holding(d, S)) /\ Holding(d, S) # None
<1>1. Holding(d, S) \in Holdings /\ Holding(d, S).doc = d /\ Holding(d, S).made = S
  BY DEF Holding, Holdings
<1> QED BY <1>1, NoneAssumption DEF Unreadable

LEMMA EmptyDocument ==
  /\ EmptyDoc \in Document /\ Consistent(EmptyDoc)
  /\ EmptyDoc.invitations = {} /\ EmptyDoc.memberships = {}
<1>1. <<>> \in Seq([ws : Text, key : Text])
  OBVIOUS
<1>2. EmptyDoc \in Document
  BY <1>1 DEF EmptyDoc, Document
<1>3. Consistent(EmptyDoc)
  BY DEF EmptyDoc, Consistent, KeysAreUnique
<1> QED BY <1>2, <1>3 DEF EmptyDoc

LEMMA NothingHeld ==
  ASSUME NEW pcs, NEW calls
  PROVE  Holding(EmptyDoc, {}) \in Holdings /\ Good(Holding(EmptyDoc, {}), pcs, calls)
         /\ Holding(EmptyDoc, {}).made = {} /\ ~Unreadable(Holding(EmptyDoc, {}))
<1>1. /\ Holding(EmptyDoc, {}) \in Holdings
      /\ Holding(EmptyDoc, {}).doc = EmptyDoc /\ Holding(EmptyDoc, {}).made = {}
      /\ ~Unreadable(Holding(EmptyDoc, {}))
  BY EmptyDocument, HoldingType
<1> HIDE DEF Holding
<1> QED BY <1>1, EmptyDocument DEF Good

\* What calls do elsewhere leaves a document good.
LEMMA GoodStays ==
  ASSUME NEW h \in Holdings, NEW pcs, NEW calls, NEW pcs2, NEW calls2, Good(h, pcs, calls),
         \A q \in Process : pcs[q] \notin {"idle", "waiting"} =>
           pcs2[q] \notin {"idle", "waiting"} /\ calls2[q] = calls[q]
  PROVE  Good(h, pcs2, calls2)
<1>1. \A q \in h.made : /\ pcs2[q] \notin {"idle", "waiting"} /\ calls2[q] = calls[q]
  BY DEF Good, Holdings
<1> QED BY <1>1 DEF Good

LEMMA DocumentsStay ==
  ASSUME TypeOK, DocumentsGood,
         memory' = memory \/ Good(memory', pc', call'),
         \A n \in Inode : \/ content'[n] = content[n]
                          \/ Unreadable(content'[n])
                          \/ Good(content'[n], pc', call'),
         \A p \in Process : \/ image'[p] = image[p]
                            \/ image'[p] = None
                            \/ Good(image'[p], pc', call'),
         \A q \in Process : pc[q] \notin {"idle", "waiting"} =>
           pc'[q] \notin {"idle", "waiting"} /\ call'[q] = call[q]
  PROVE  DocumentsGood'
<1>1. \A h \in Holdings : Good(h, pc, call) => Good(h, pc', call')
  BY GoodStays
<1>2. Good(memory', pc', call')
  BY <1>1 DEF TypeOK, DocumentsGood
<1>3. \A n \in Inode : Unreadable(content'[n]) \/ Good(content'[n], pc', call')
  BY <1>1 DEF TypeOK, DocumentsGood, Unreadable
<1>4. \A p \in Process : image'[p] # None => Good(image'[p], pc', call')
  BY <1>1 DEF TypeOK, DocumentsGood
<1>5. \A n : Unreadable(n)' = Unreadable(n)
  BY DEF Unreadable
<1> QED BY <1>2, <1>3, <1>4 DEF DocumentsGood, Unreadable

-------------------------------------------------------------------------------
(* Types, ids and names, step by step.                                     *)

LEMMA KeptInit == Init => Kept
<1> SUFFICES ASSUME Init PROVE Kept
  OBVIOUS
<1> DEFINE start == Holding(InitialDoc, {})
<1>1. /\ start \in Holdings /\ start.doc = InitialDoc /\ start.made = {} /\ ~Unreadable(start)
  BY InitialAssumption, HoldingType
<1> HIDE DEF start
<1>2. Good(start, pc, call)
  BY <1>1, InitialAssumption DEF Good
<1>3. content = [n \in Inode |-> IF n = Initial THEN start ELSE Empty]
  BY DEF Init, start
<1>4. memory \in Holdings /\ Good(memory, pc, call)
  BY NothingHeld DEF Init
<1>5. TypeOK
  <2>1. content \in [Inode -> Holdings \cup {Empty, Torn}]
    BY <1>1, <1>3
  <2>2. \A q \in Process : pc[q] = "idle" /\ call[q] = None /\ fd[q] = None /\ image[q] = None
                            /\ told[q] = "nothing"
    BY DEF Init
  <2>3. path \in Inode \cup {None} /\ tmp \in Inode \cup {None} /\ holder = None
    BY DEF Init, Inode
  <2>5. faults \in 0..MaxFaults
    BY BoundsAssumption DEF Init
  <2>6. early \subseteq Process /\ overlapped \in BOOLEAN
    BY DEF Init
  <2>4. /\ pc \in [Process -> {"idle", "waiting", "opening", "writing", "renaming", "done"}]
        /\ call \in [Process -> menu \cup {None}]
        /\ fd \in [Process -> Inode \cup {None}]
        /\ image \in [Process -> Holdings \cup {None}]
        /\ told \in [Process -> {"nothing", "ok", "refused", "failed", "lost"}]
    BY DEF Init
  <2> QED BY <1>4, <2>1, <2>2, <2>3, <2>4, <2>5, <2>6 DEF Init, TypeOK, Saving
<1>6. DocumentsGood
  BY <1>1, <1>2, <1>3, <1>4 DEF Init, DocumentsGood, Unreadable
<1>7. IdsApart /\ NamesApart
  BY DEF Init, IdsApart, NamesApart, Opened, Saving
<1> QED BY <1>5, <1>6, <1>7 DEF Kept

LEMMA KeptBegin ==
  ASSUME Kept, NEW p \in Process, NEW c \in menu, Begin(p, c)
  PROVE  Kept'
<1> USE DEF Kept
<1>0. /\ pc[p] = "idle" /\ call[p] = None /\ told[p] = "nothing"
      /\ c \in CallRecord /\ c # None
      /\ \A q \in Process : q \in Begun <=> call[q] # None
  BY CallAssumption, NoneAssumption DEF Begin, TypeOK, IdsApart, Begun
<1>1. /\ pc' \in [Process -> {"idle", "waiting", "opening", "writing", "renaming", "done"}]
      /\ call' \in [Process -> menu \cup {None}]
      /\ pc'[p] = "waiting" /\ call'[p] = c
      /\ \A q \in Process \ {p} : pc'[q] = pc[q] /\ call'[q] = call[q]
      /\ UNCHANGED <<setting, disk, memory, holder, fd, image, told, faults, history>>
  BY DEF Begin, TypeOK
<1>2. \A q \in Process : Saving(q)' = Saving(q)
  BY <1>0, <1>1 DEF Saving
<1>3. \A q \in Process : Saving(q) => q # p
  BY <1>0 DEF Saving
<1>4. TypeOK'
  <2>1. holder' # None => Saving(holder)' /\ Locks(call[holder])'
    BY <1>1, <1>2, <1>3 DEF TypeOK, Locks, setting
  <2>2. \A q \in Process : (told'[q] = "nothing" <=> pc'[q] # "done") /\ (Saving(q)' <=> image'[q] # None)
    BY <1>0, <1>1, <1>2 DEF TypeOK
  <2> QED BY <1>1, <2>1, <2>2 DEF TypeOK, setting, disk, history
<1>5. DocumentsGood'
  <2>1. \A q \in Process : pc[q] \notin {"idle", "waiting"} =>
           pc'[q] \notin {"idle", "waiting"} /\ call'[q] = call[q]
    BY <1>0, <1>1
  <2>2. /\ memory' = memory
        /\ \A n \in Inode : content'[n] = content[n]
        /\ \A q \in Process : image'[q] = image[q]
    BY <1>1 DEF disk
  <2> QED BY <2>1, <2>2, DocumentsStay
<1>6. IdsApart'
  <2>1. \A q \in Process : call'[q] = None <=> pc'[q] = "idle"
    BY <1>0, <1>1 DEF IdsApart
  <2>2. \A q \in Process \ {p} : call[q] # None =>
          /\ c.kind = "invite" => call[q].key # c.key
          /\ c.kind = "create" => call[q].ws # c.ws
          /\ call[q].kind = "create" /\ pc[q] = "waiting" => call[q].ws # c.ws
    BY <1>0 DEF Begin, Fresh
  <2> QED BY <1>1, <2>1, <2>2 DEF IdsApart
<1>7. NamesApart'
  <2>1. Opened' = Opened
    BY <1>0, <1>1 DEF Opened
  <2>2. \A q \in Process : Saving(q)' /\ Locks(call[q])' => holder' = q
    BY <1>1, <1>2, <1>3 DEF NamesApart, Locks, setting
  <2> QED BY <1>0, <1>1, <2>1, <2>2 DEF NamesApart, disk
<1> QED BY <1>4, <1>5, <1>6, <1>7

\* The steps of a call that has begun leave the calls, and everyone else's place.
LEMMA IdsStay ==
  ASSUME IdsApart, call' = call,
         \A q \in Process : /\ pc'[q] = "idle" <=> pc[q] = "idle"
                            /\ pc'[q] = "waiting" => pc[q] = "waiting"
  PROVE  IdsApart'
BY DEF IdsApart

LEMMA SourceGood ==
  ASSUME TypeOK, DocumentsGood, ~Unreadable(Source)
  PROVE  Source \in Holdings /\ Good(Source, pc, call)
BY DEF TypeOK, DocumentsGood, Source, Unreadable

\* What Load saves, when it saves something.
Loaded(p) == Holding(Change(Source.doc, call[p]), Source.made \cup {p})

LEMMA LoadedGood ==
  ASSUME Kept, NEW p \in Process, pc[p] = "waiting",
         ~Unreadable(Source), Change(Source.doc, call[p]) # Refused,
         NEW pcs, pcs[p] \notin {"idle", "waiting"}, \A q \in Process \ {p} : pcs[q] = pc[q]
  PROVE  /\ Loaded(p) \in Holdings /\ Loaded(p).made = Source.made \cup {p}
         /\ Loaded(p) # None /\ ~Unreadable(Loaded(p))
         /\ Good(Loaded(p), pcs, call)
<1> DEFINE d == Source.doc
           c == call[p]
           e == Change(d, c)
<1>1. Source \in Holdings /\ Good(Source, pc, call) /\ d \in Document /\ Source.made \in SUBSET Process
  BY SourceGood DEF Kept, Holdings
<1>2. c \in menu /\ c \in CallRecord /\ c # None /\ menu \in Menus[file] /\ file \in File
  <2>1. c \in menu /\ menu \in Menus[file] /\ file \in File
    BY DEF Kept, TypeOK, IdsApart
  <2> QED BY <2>1, CallAssumption, NoneAssumption
<1>3. \A q \in Source.made : /\ q \in Process /\ q # p /\ pc[q] \notin {"idle", "waiting"}
                             /\ call[q] # None /\ pcs[q] = pc[q]
  BY <1>1 DEF Good, Kept, IdsApart
<1>4. New(d, c)
  <2>1. ASSUME c.kind = "invite", NEW v \in d.invitations PROVE v.key # c.key
    <3>1. CASE \E u \in InitialDoc.invitations : u.key = v.key
      BY <1>2, <2>1, <3>1, IdAssumption
    <3>2. CASE \E q \in Source.made : call[q].kind = "invite" /\ call[q].key = v.key
      BY <1>2, <1>3, <2>1, <3>2 DEF Kept, IdsApart
    <3> QED BY <1>1, <2>1, <3>1, <3>2 DEF Good
  <2>2. ASSUME c.kind = "create", NEW m \in d.memberships PROVE m.ws # c.ws
    <3>1. CASE \E u \in InitialDoc.memberships : u.ws = m.ws
      BY <1>2, <2>2, <3>1, IdAssumption
    <3>2. CASE \E q \in Source.made : call[q].ws = m.ws
      BY <1>2, <1>3, <2>2, <3>2 DEF Kept, IdsApart
    <3> QED BY <1>1, <2>2, <3>1, <3>2 DEF Good
  <2> QED BY <2>1, <2>2 DEF New
<1>5. Consistent(d) /\ e # Refused
  BY <1>1 DEF Good
<1> HIDE DEF e, d, c
<1>6. Follows(e, d, c)
  BY <1>1, <1>2, <1>4, <1>5, ChangesKeepConsistency DEF e
<1>7. /\ Loaded(p) \in Holdings /\ Loaded(p).doc = e /\ Loaded(p).made = Source.made \cup {p}
      /\ Loaded(p) # None /\ ~Unreadable(Loaded(p))
  <2>1. e \in Document /\ Source.made \cup {p} \in SUBSET Process
    BY <1>1, <1>6 DEF Follows
  <2>2. Loaded(p) = Holding(e, Source.made \cup {p})
    BY DEF Loaded, e, d, c
  <2> QED BY <2>1, <2>2, HoldingType
<1>8. Good(Loaded(p), pcs, call)
  <2>1. \A q \in Source.made \cup {p} : pcs[q] \notin {"idle", "waiting"}
    BY <1>3
  <2>2. ASSUME NEW v \in e.invitations
        PROVE  \/ \E u \in InitialDoc.invitations : u.key = v.key
               \/ \E q \in Source.made \cup {p} : call[q].kind = "invite" /\ call[q].key = v.key
    <3>1. CASE c.kind = "invite" /\ v.key = c.key
      BY <3>1 DEF c
    <3>2. CASE \E u \in d.invitations : u.key = v.key
      BY <1>1, <3>2 DEF Good, d
    <3> QED BY <1>6, <3>1, <3>2 DEF Follows
  <2>3. ASSUME NEW m \in e.memberships
        PROVE  \/ \E u \in InitialDoc.memberships : u.ws = m.ws
               \/ \E q \in Source.made \cup {p} : call[q].ws = m.ws
    <3>1. CASE m.ws = c.ws
      BY <3>1 DEF c
    <3>2. CASE \E u \in d.memberships : u.ws = m.ws
      BY <1>1, <3>2 DEF Good, d
    <3> QED BY <1>6, <3>1, <3>2 DEF Follows
  <2> QED BY <1>6, <1>7, <2>1, <2>2, <2>3 DEF Good, Follows
<1> QED BY <1>7, <1>8

\* A step that moves one call on, among the places where it has begun.
Moves(p, from, to) ==
  /\ pc[p] \in from /\ pc' = [pc EXCEPT ![p] = to]
  /\ call' = call /\ file' = file /\ menu' = menu

LEMMA Others ==
  ASSUME TypeOK, NEW p \in Process, NEW from, NEW to, Moves(p, from, to),
         to \in {"opening", "writing", "renaming", "done"},
         pc[p] \notin {"idle", "done"}, to = "opening" => pc[p] = "waiting"
  PROVE  /\ pc' \in [Process -> {"idle", "waiting", "opening", "writing", "renaming", "done"}]
         /\ pc'[p] = to
         /\ \A q \in Process \ {p} : pc'[q] = pc[q] /\ (Saving(q)' <=> Saving(q))
         /\ \A q \in Process : pc[q] \notin {"idle", "waiting"} =>
              pc'[q] \notin {"idle", "waiting"} /\ call'[q] = call[q]
         /\ \A q \in Process : (Locks(call[q])' <=> Locks(call[q]))
         /\ Saving(p)' <=> to # "done"
         /\ IdsApart => IdsApart'
         /\ Opened \subseteq Opened' /\ (to # "opening" => p \in Opened')
<1>1. /\ pc' \in [Process -> {"idle", "waiting", "opening", "writing", "renaming", "done"}]
      /\ pc'[p] = to
      /\ \A q \in Process \ {p} : pc'[q] = pc[q]
  BY DEF Moves, TypeOK
<1>2. IdsApart => IdsApart'
  BY <1>1, IdsStay DEF Moves
<1>3. /\ \A q \in Process \ {p} : Saving(q)' <=> Saving(q)
      /\ Saving(p)' <=> to # "done"
  BY <1>1 DEF Saving
<1>4. \A q \in Process : (Locks(call[q])' <=> Locks(call[q]))
  <2>1. call' = call /\ file' = file
    BY DEF Moves
  <2> QED BY <2>1 DEF Locks
<1>5. Opened \subseteq Opened' /\ (to # "opening" => p \in Opened')
  <2>1. \A q \in Process : q \in Opened <=> pc[q] \in {"writing", "renaming", "done"}
    BY DEF Opened
  <2>2. \A q \in Process : q \in Opened' <=> pc'[q] \in {"writing", "renaming", "done"}
    BY DEF Opened
  <2>3. Opened \subseteq Process
    BY DEF Opened
  <2>4. ASSUME NEW q \in Opened PROVE q \in Opened'
    BY <1>1, <2>1, <2>2, <2>3
  <2> QED BY <1>1, <2>2, <2>4
<1>6. \A q \in Process : pc[q] \notin {"idle", "waiting"} =>
        pc'[q] \notin {"idle", "waiting"} /\ call'[q] = call[q]
  BY <1>1 DEF Moves
<1> QED BY <1>1, <1>2, <1>3, <1>4, <1>5, <1>6

\* What a call does when it returns.
LEMMA ReturnEffects ==
  ASSUME Kept, NEW p \in Process, pc[p] \notin {"idle", "done"},
         NEW answer \in {"ok", "refused", "failed"}, Return(p, answer),
         UNCHANGED <<setting, call>>
  PROVE  /\ pc' \in [Process -> {"idle", "waiting", "opening", "writing", "renaming", "done"}]
         /\ fd' \in [Process -> Inode \cup {None}]
         /\ image' \in [Process -> Holdings \cup {None}]
         /\ told' \in [Process -> {"nothing", "ok", "refused", "failed", "lost"}]
         /\ holder' \in Process \cup {None}
         /\ holder' # None => Saving(holder)' /\ Locks(call[holder])'
         /\ \A q \in Process : (told'[q] = "nothing" <=> pc'[q] # "done") /\ (Saving(q)' <=> image'[q] # None)
         /\ \A q \in Process : image'[q] = image[q] \/ image'[q] = None
         /\ \A q \in Process : pc[q] \notin {"idle", "waiting"} =>
              pc'[q] \notin {"idle", "waiting"} /\ call'[q] = call[q]
         /\ IdsApart'
         /\ Opened \subseteq Opened' /\ p \in Opened'
         /\ \A q \in Process : pc'[q] \in {"writing", "renaming"} => fd'[q] \in Opened'
         /\ \A q \in Process : Saving(q)' /\ Locks(call[q])' => holder' = q
         /\ pc'[p] = "done" /\ \A q \in Process \ {p} : pc'[q] = pc[q] /\ told'[q] = told[q]
                                                        /\ image'[q] = image[q] /\ fd'[q] = fd[q]
         /\ told'[p] = answer /\ told[p] = "nothing" /\ ~Saving(p)'
<1> USE DEF Kept
<1>1. Moves(p, {pc[p]}, "done")
  BY DEF Moves, Return, setting
<1>2. /\ pc' \in [Process -> {"idle", "waiting", "opening", "writing", "renaming", "done"}]
      /\ pc'[p] = "done" /\ ~Saving(p)'
      /\ \A q \in Process \ {p} : pc'[q] = pc[q] /\ (Saving(q)' <=> Saving(q))
      /\ \A q \in Process : pc[q] \notin {"idle", "waiting"} =>
           pc'[q] \notin {"idle", "waiting"} /\ call'[q] = call[q]
      /\ \A q \in Process : (Locks(call[q])' <=> Locks(call[q]))
      /\ IdsApart' /\ Opened \subseteq Opened' /\ p \in Opened'
  BY <1>1, Others
<1>3. /\ fd' \in [Process -> Inode \cup {None}] /\ image' \in [Process -> Holdings \cup {None}]
      /\ told' \in [Process -> {"nothing", "ok", "refused", "failed", "lost"}]
      /\ fd'[p] = None /\ image'[p] = None /\ told'[p] = answer /\ told[p] = "nothing"
      /\ \A q \in Process \ {p} : fd'[q] = fd[q] /\ image'[q] = image[q] /\ told'[q] = told[q]
  BY DEF Return, TypeOK
<1>4. holder' = IF holder = p THEN None ELSE holder
  BY DEF Return, Release
<1>5. holder' # None => Saving(holder)' /\ Locks(call[holder])'
  <2> SUFFICES ASSUME holder' # None PROVE Saving(holder)' /\ Locks(call[holder])'
    OBVIOUS
  <2>1. holder' = holder /\ holder \in Process \ {p} /\ Saving(holder) /\ Locks(call[holder])
    BY <1>4 DEF TypeOK
  <2>2. Saving(holder)' <=> Saving(holder)
    BY <1>2, <2>1 DEF Saving
  <2>3. Locks(call[holder])' <=> Locks(call[holder])
    BY <2>1 DEF Locks, setting
  <2> QED BY <2>1, <2>2, <2>3
<1>6. \A q \in Process : Saving(q)' /\ Locks(call[q])' => holder' = q
  BY <1>2, <1>4 DEF NamesApart
<1>7. \A q \in Process : pc'[q] \in {"writing", "renaming"} => fd'[q] \in Opened'
  BY <1>2, <1>3 DEF NamesApart
<1>8. \A q \in Process : (told'[q] = "nothing" <=> pc'[q] # "done") /\ (Saving(q)' <=> image'[q] # None)
  BY <1>2, <1>3 DEF TypeOK
<1>9. holder' \in Process \cup {None}
  BY <1>4 DEF TypeOK
<1> QED BY <1>2, <1>3, <1>5, <1>6, <1>7, <1>8, <1>9

LEMMA KeptLoad ==
  ASSUME Kept, NEW p \in Process, Load(p)
  PROVE  Kept'
<1> USE DEF Kept
<1>0. /\ pc[p] = "waiting" /\ Free(p) /\ ~Saving(p) /\ told[p] = "nothing" /\ image[p] = None
      /\ UNCHANGED <<setting, disk, call, faults, early>>
  BY DEF Load, Saving, TypeOK
<1>1. ASSUME NEW a \in {"refused", "failed"}, Return(p, a), UNCHANGED <<memory, overlapped>>
      PROVE  Kept'
  <2>1. DocumentsGood'
    <3>1. /\ memory' = memory /\ \A n \in Inode : content'[n] = content[n]
          /\ \A q \in Process : image'[q] = image[q] \/ image'[q] = None
          /\ \A q \in Process : pc[q] \notin {"idle", "waiting"} =>
               pc'[q] \notin {"idle", "waiting"} /\ call'[q] = call[q]
      BY <1>0, <1>1, ReturnEffects DEF disk
    <3> QED BY <3>1, DocumentsStay
  <2>2. TypeOK'
    BY <1>0, <1>1, ReturnEffects DEF TypeOK, disk, setting
  <2>3. IdsApart' /\ NamesApart'
    BY <1>0, <1>1, ReturnEffects DEF NamesApart, disk
  <2> QED BY <2>1, <2>2, <2>3
<1>2. CASE /\ ~Unreadable(Source) /\ Change(Source.doc, call[p]) # Refused
           /\ image' = [image EXCEPT ![p] = Loaded(p)]
           /\ memory' = IF file = "workspaces" THEN Loaded(p) ELSE memory
           /\ holder' = IF Locks(call[p]) THEN p ELSE holder
           /\ pc' = [pc EXCEPT ![p] = "opening"]
           /\ overlapped' \in BOOLEAN
           /\ UNCHANGED <<fd, told>>
  <2>1. Moves(p, {"waiting"}, "opening")
    BY <1>0, <1>2 DEF Moves, setting
  <2>2. /\ pc' \in [Process -> {"idle", "waiting", "opening", "writing", "renaming", "done"}]
        /\ pc'[p] = "opening" /\ Saving(p)'
        /\ \A q \in Process \ {p} : pc'[q] = pc[q] /\ (Saving(q)' <=> Saving(q))
        /\ \A q \in Process : pc[q] \notin {"idle", "waiting"} =>
             pc'[q] \notin {"idle", "waiting"} /\ call'[q] = call[q]
        /\ \A q \in Process : (Locks(call[q])' <=> Locks(call[q]))
        /\ IdsApart' /\ Opened \subseteq Opened'
    BY <1>0, <2>1, Others
  <2>3. /\ Loaded(p) \in Holdings /\ Loaded(p) # None /\ Good(Loaded(p), pc', call')
    <3>1. Good(Loaded(p), pc', call) /\ Loaded(p) \in Holdings /\ Loaded(p) # None
      BY <1>0, <1>2, <2>2, LoadedGood
    <3> QED BY <1>0, <3>1
  <2> HIDE DEF Loaded
  <2>4. /\ image' \in [Process -> Holdings \cup {None}] /\ image'[p] = Loaded(p)
        /\ \A q \in Process \ {p} : image'[q] = image[q]
        /\ memory' \in Holdings
    BY <1>2, <2>3 DEF TypeOK
  <2>5. DocumentsGood'
    <3>1. /\ memory' = memory \/ Good(memory', pc', call')
          /\ \A n \in Inode : content'[n] = content[n]
          /\ \A q \in Process : image'[q] = image[q] \/ Good(image'[q], pc', call')
      BY <1>0, <1>2, <2>3, <2>4 DEF disk
    <3> QED BY <2>2, <3>1, DocumentsStay
  <2>6. holder' \in Process \cup {None} /\ (holder' # None => Saving(holder)' /\ Locks(call[holder])')
    <3>1. CASE Locks(call[p])
      BY <1>2, <2>2, <3>1 DEF Locks
    <3>2. CASE ~Locks(call[p])
      <4>1. holder' = holder /\ (holder # None => holder \in Process \ {p} /\ Saving(holder) /\ Locks(call[holder]))
        BY <1>0, <1>2, <3>2 DEF TypeOK
      <4> QED BY <1>0, <2>2, <4>1 DEF Saving, Locks, setting, TypeOK
    <3> QED BY <3>1, <3>2
  <2>7. \A q \in Process : (told'[q] = "nothing" <=> pc'[q] # "done") /\ (Saving(q)' <=> image'[q] # None)
    BY <1>0, <1>2, <2>2, <2>3, <2>4 DEF TypeOK
  <2>8. TypeOK'
    <3>1. /\ UNCHANGED <<file, menu, path, tmp, content, call, fd, told, faults, early>>
          /\ overlapped' \in BOOLEAN
      BY <1>0, <1>2 DEF disk, setting
    <3> QED BY <2>2, <2>4, <2>6, <2>7, <3>1 DEF TypeOK
  <2>9. NamesApart'
    <3>1. ASSUME NEW q \in Process, Saving(q)', Locks(call[q])' PROVE holder' = q
      <4>1. CASE q = p
        BY <1>2, <2>2, <3>1, <4>1
      <4>2. CASE q # p
        <5>1. holder = q
          BY <2>2, <3>1, <4>2 DEF NamesApart
        <5>2. holder # None
          BY <5>1, NoneAssumption DEF Inode
        <5> QED BY <1>0, <1>2, <5>1, <5>2 DEF Free
      <4> QED BY <4>1, <4>2
    <3>2. \A q \in Process : pc'[q] \in {"writing", "renaming"} => fd'[q] \in Opened'
      BY <1>2, <2>2 DEF NamesApart
    <3> QED BY <1>0, <2>2, <3>1, <3>2 DEF NamesApart, disk
  <2> QED BY <2>2, <2>5, <2>8, <2>9
<1>3. CASE Unreadable(Source) \/ Change(Source.doc, call[p]) = Refused
  <2>1. Return(p, IF Unreadable(Source) THEN "failed" ELSE "refused") /\ UNCHANGED <<memory, overlapped>>
    BY <1>3 DEF Load
  <2> QED BY <1>1, <2>1
<1>4. CASE ~ (Unreadable(Source) \/ Change(Source.doc, call[p]) = Refused)
  BY <1>2, <1>4 DEF Load, Loaded, TypeOK
<1> QED BY <1>3, <1>4

LEMMA KeptOpenTmp ==
  ASSUME Kept, NEW p \in Process, OpenTmp(p)
  PROVE  Kept'
<1> USE DEF Kept
<1>0. /\ pc[p] = "opening" /\ Saving(p) /\ told[p] = "nothing"
      /\ fd' = [fd EXCEPT ![p] = Target(p)] /\ tmp' = Target(p)
      /\ content' = [content EXCEPT ![Target(p)] = Empty]
      /\ UNCHANGED <<file, menu, path, memory, holder, call, image, told, faults, overlapped, early>>
  BY DEF OpenTmp, Saving, TypeOK, setting, history
<1>1. Moves(p, {"opening"}, "writing")
  BY <1>0 DEF OpenTmp, Moves
<1>2. /\ pc' \in [Process -> {"idle", "waiting", "opening", "writing", "renaming", "done"}]
      /\ pc'[p] = "writing" /\ Saving(p)'
      /\ \A q \in Process \ {p} : pc'[q] = pc[q] /\ (Saving(q)' <=> Saving(q))
      /\ \A q \in Process : pc[q] \notin {"idle", "waiting"} =>
           pc'[q] \notin {"idle", "waiting"} /\ call'[q] = call[q]
      /\ \A q \in Process : (Locks(call[q])' <=> Locks(call[q]))
      /\ IdsApart' /\ Opened \subseteq Opened' /\ p \in Opened'
  BY <1>0, <1>1, Others
<1>3. /\ Target(p) \in Inode /\ Target(p) \in Opened' /\ Target(p) # path /\ Target(p) # None
  <2>1. p \in Inode /\ p # None /\ p # Initial
    BY NoneAssumption DEF Inode
  <2>2. p \notin Opened /\ p # path
    BY <1>0, <2>1 DEF Opened, NamesApart
  <2> QED BY <1>2, <2>1, <2>2 DEF Target, NamesApart, TypeOK
<1> HIDE DEF Target
<1>4. /\ content' \in [Inode -> Holdings \cup {Empty, Torn}]
      /\ \A n \in Inode : content'[n] = content[n] \/ Unreadable(content'[n])
      /\ fd' \in [Process -> Inode \cup {None}]
      /\ fd'[p] = Target(p) /\ \A q \in Process \ {p} : fd'[q] = fd[q]
  BY <1>0, <1>3 DEF TypeOK, Unreadable
<1>5. TypeOK'
  <2>1. holder' # None => Saving(holder)' /\ Locks(call[holder])'
    BY <1>0, <1>2 DEF TypeOK, Saving, Locks
  <2>2. \A q \in Process : (told'[q] = "nothing" <=> pc'[q] # "done") /\ (Saving(q)' <=> image'[q] # None)
    BY <1>0, <1>2 DEF TypeOK
  <2> QED BY <1>0, <1>2, <1>3, <1>4, <2>1, <2>2 DEF TypeOK
<1>6. DocumentsGood'
  <2>1. memory' = memory /\ \A q \in Process : image'[q] = image[q]
    BY <1>0
  <2> QED BY <1>2, <1>4, <2>1, DocumentsStay
<1>7. NamesApart'
  <2>1. \A q \in Process : pc'[q] \in {"writing", "renaming"} => fd'[q] \in Opened'
    BY <1>2, <1>3, <1>4 DEF NamesApart
  <2>2. \A q \in Process : Saving(q)' /\ Locks(call[q])' => holder' = q
    BY <1>0, <1>2 DEF NamesApart
  <2> QED BY <1>0, <1>2, <1>3, <2>1, <2>2 DEF NamesApart
<1> QED BY <1>2, <1>5, <1>6, <1>7

LEMMA KeptWrite ==
  ASSUME Kept, NEW p \in Process, Write(p)
  PROVE  Kept'
<1> USE DEF Kept
<1>0. /\ pc[p] = "writing" /\ Saving(p) /\ told[p] = "nothing" /\ image[p] # None
      /\ UNCHANGED <<file, menu, path, tmp, memory, holder, call, fd, image, told, faults, overlapped, early>>
  BY DEF Write, Saving, TypeOK, setting, history
<1>1. Moves(p, {"writing"}, "renaming")
  BY <1>0 DEF Write, Moves
<1>2. /\ pc' \in [Process -> {"idle", "waiting", "opening", "writing", "renaming", "done"}]
      /\ pc'[p] = "renaming" /\ Saving(p)'
      /\ \A q \in Process \ {p} : pc'[q] = pc[q] /\ (Saving(q)' <=> Saving(q))
      /\ \A q \in Process : pc[q] \notin {"idle", "waiting"} =>
           pc'[q] \notin {"idle", "waiting"} /\ call'[q] = call[q]
      /\ \A q \in Process : (Locks(call[q])' <=> Locks(call[q]))
      /\ IdsApart' /\ Opened \subseteq Opened' /\ p \in Opened'
  BY <1>0, <1>1, Others
<1>3. PICK bytes \in {image[p], Torn} : content' = [content EXCEPT ![fd[p]] = bytes]
  BY DEF Write
<1>4. image[p] \in Holdings /\ Good(image[p], pc, call)
  BY <1>0 DEF TypeOK, DocumentsGood
<1>5. Good(image[p], pc', call')
  BY <1>2, <1>4, GoodStays
<1>6. /\ content' \in [Inode -> Holdings \cup {Empty, Torn}]
      /\ \A n \in Inode : \/ content'[n] = content[n]
                          \/ Unreadable(content'[n])
                          \/ Good(content'[n], pc', call')
  BY <1>3, <1>4, <1>5 DEF TypeOK, Unreadable
<1>7. TypeOK'
  <2>1. holder' # None => Saving(holder)' /\ Locks(call[holder])'
    BY <1>0, <1>2 DEF TypeOK, Saving, Locks
  <2>2. \A q \in Process : (told'[q] = "nothing" <=> pc'[q] # "done") /\ (Saving(q)' <=> image'[q] # None)
    BY <1>0, <1>2 DEF TypeOK
  <2> QED BY <1>0, <1>2, <1>6, <2>1, <2>2 DEF TypeOK
<1>8. DocumentsGood'
  <2>1. memory' = memory /\ \A q \in Process : image'[q] = image[q]
    BY <1>0
  <2> QED BY <1>2, <1>6, <2>1, DocumentsStay
<1>9. NamesApart'
  <2>1. \A q \in Process : pc'[q] \in {"writing", "renaming"} => fd'[q] \in Opened'
    BY <1>0, <1>2 DEF NamesApart
  <2>2. \A q \in Process : Saving(q)' /\ Locks(call[q])' => holder' = q
    BY <1>0, <1>2 DEF NamesApart
  <2> QED BY <1>0, <1>2, <2>1, <2>2 DEF NamesApart
<1> QED BY <1>2, <1>7, <1>8, <1>9

LEMMA KeptWriteFails ==
  ASSUME Kept, NEW p \in Process, WriteFails(p)
  PROVE  Kept'
<1> USE DEF Kept
<1>0. /\ pc[p] = "writing" /\ Return(p, "failed")
      /\ faults' = faults + 1 /\ faults < MaxFaults
      /\ content' = [content EXCEPT ![fd[p]] = Torn]
      /\ early' \in {early, early \cup {p}}
      /\ UNCHANGED <<file, menu, path, tmp, memory, call, overlapped>>
  BY DEF WriteFails, setting
<1>1. /\ content' \in [Inode -> Holdings \cup {Empty, Torn}]
      /\ \A n \in Inode : content'[n] = content[n] \/ Unreadable(content'[n])
  BY <1>0 DEF TypeOK, Unreadable
<1>2. faults' \in 0..MaxFaults /\ early' \subseteq Process
  BY <1>0, BoundsAssumption DEF TypeOK
<1>3. TypeOK'
  BY <1>0, <1>1, <1>2, ReturnEffects DEF TypeOK, setting
<1>4. DocumentsGood'
  <2>1. /\ \A q \in Process : image'[q] = image[q] \/ image'[q] = None
        /\ \A q \in Process : pc[q] \notin {"idle", "waiting"} =>
             pc'[q] \notin {"idle", "waiting"} /\ call'[q] = call[q]
    BY <1>0, ReturnEffects DEF setting
  <2> QED BY <1>0, <1>1, <2>1, DocumentsStay
<1>5. IdsApart' /\ NamesApart'
  BY <1>0, ReturnEffects DEF NamesApart, setting
<1> QED BY <1>3, <1>4, <1>5

LEMMA KeptRename ==
  ASSUME Kept, NEW p \in Process, Rename(p)
  PROVE  Kept'
<1> USE DEF Kept
<1>0. /\ pc[p] = "renaming"
      /\ UNCHANGED <<file, menu, content, memory, call, faults, overlapped, early>>
  BY DEF Rename, setting, history
<1>1. PICK a \in {"ok", "failed"} : Return(p, a)
  BY DEF Rename
<1>2. \/ UNCHANGED <<path, tmp>>
      \/ tmp # None /\ path' = tmp /\ tmp' = None
  BY DEF Rename
<1>3. TypeOK'
  BY <1>0, <1>1, <1>2, ReturnEffects DEF TypeOK, setting
<1>4. DocumentsGood'
  <2>1. /\ \A q \in Process : image'[q] = image[q] \/ image'[q] = None
        /\ \A q \in Process : pc[q] \notin {"idle", "waiting"} =>
             pc'[q] \notin {"idle", "waiting"} /\ call'[q] = call[q]
    BY <1>0, <1>1, ReturnEffects DEF setting
  <2>2. memory' = memory /\ \A n \in Inode : content'[n] = content[n]
    BY <1>0
  <2> QED BY <2>1, <2>2, DocumentsStay
<1>5. IdsApart' /\ NamesApart'
  BY <1>0, <1>1, <1>2, ReturnEffects DEF NamesApart, setting
<1> QED BY <1>3, <1>4, <1>5

LEMMA KeptRestart ==
  ASSUME Kept, Restart
  PROVE  Kept'
<1> USE DEF Kept
<1>0. /\ faults' = faults + 1 /\ faults < MaxFaults /\ holder' = None
      /\ memory' = Holding(EmptyDoc, {})
      /\ UNCHANGED <<file, menu, path, tmp, content, call, overlapped, early>>
  BY DEF Restart, setting, disk, history
<1>1. /\ pc' \in [Process -> {"idle", "waiting", "opening", "writing", "renaming", "done"}]
      /\ told' \in [Process -> {"nothing", "ok", "refused", "failed", "lost"}]
      /\ image' \in [Process -> Holdings \cup {None}]
      /\ fd' \in [Process -> Inode \cup {None}]
      /\ \A q \in Process : /\ image'[q] = None
                            /\ pc'[q] = IF pc[q] = "idle" THEN "idle" ELSE "done"
                            /\ told'[q] = IF told[q] = "nothing" /\ pc[q] # "idle" THEN "lost" ELSE told[q]
  BY DEF Restart, TypeOK
<1>2. /\ memory' \in Holdings /\ Good(memory', pc', call')
  BY <1>0, NothingHeld
<1>3. faults' \in 0..MaxFaults
  BY <1>0, BoundsAssumption DEF TypeOK
<1>4. \A q \in Process : ~Saving(q)' /\ (told'[q] = "nothing" <=> pc'[q] # "done")
  BY <1>1 DEF Saving, TypeOK
<1>5. TypeOK'
  BY <1>0, <1>1, <1>2, <1>3, <1>4 DEF TypeOK
<1>6. DocumentsGood'
  <2>1. /\ \A q \in Process : pc[q] \notin {"idle", "waiting"} =>
             pc'[q] \notin {"idle", "waiting"} /\ call'[q] = call[q]
        /\ \A n \in Inode : content'[n] = content[n]
    BY <1>0, <1>1
  <2> QED BY <1>1, <1>2, <2>1, DocumentsStay
<1>7. IdsApart'
  BY <1>0, <1>1, IdsStay
<1>8. NamesApart'
  <2>1. ASSUME NEW q \in Opened PROVE q \in Opened'
    BY <1>1, <2>1 DEF Opened
  <2> QED BY <1>0, <1>1, <1>4, <2>1 DEF NamesApart
<1> QED BY <1>5, <1>6, <1>7, <1>8

LEMMA KeptStays == Kept /\ [Next]_vars => Kept'
<1> SUFFICES ASSUME Kept, [Next]_vars PROVE Kept'
  OBVIOUS
<1>1. CASE UNCHANGED vars
  <2>1. UNCHANGED <<file, menu, path, tmp, content, memory, holder, pc, call, fd, image, told,
                    faults, overlapped, early>>
    BY <1>1 DEF vars, setting, disk, process, history
  <2> QED BY <2>1 DEF Kept, TypeOK, DocumentsGood, Good, IdsApart, NamesApart, Opened, Saving, Locks, Unreadable
<1>2. CASE Restart
  BY <1>2, KeptRestart
<1>3. ASSUME NEW p \in Process, (\E c \in menu : Begin(p, c)) \/ Step(p) \/ WriteFails(p)
      PROVE  Kept'
  BY <1>3, KeptBegin, KeptLoad, KeptOpenTmp, KeptWrite, KeptRename, KeptWriteFails DEF Step
<1> QED BY <1>1, <1>2, <1>3 DEF Next

-------------------------------------------------------------------------------
\* Every variable keeps its type, and the mutex is with a call that is between
\* reading and renaming: it is taken by one that then saves, and no way out of a
\* call leaves it locked.
THEOREM TypesAreKept == Spec => []TypeOK
<1>1. Init => Kept
  BY KeptInit
<1>2. Kept /\ [Next]_vars => Kept'
  BY KeptStays
<1>3. Kept => TypeOK
  BY DEF Kept
<1> QED BY <1>1, <1>2, <1>3, PTL DEF Spec

\* The file keeps to the keys, whatever overlaps: every document that is ever
\* written was made from a document that was read whole.
THEOREM DocumentsAreConsistent == Spec => []DocumentIsConsistent
<1>1. Init => Kept
  BY KeptInit
<1>2. Kept /\ [Next]_vars => Kept'
  BY KeptStays
<1>3. Kept => DocumentIsConsistent
  <2> SUFFICES ASSUME Kept PROVE DocumentIsConsistent
    OBVIOUS
  <2>1. CASE path = None
    BY <2>1, NothingHeld DEF DocumentIsConsistent, Stored, Good
  <2>2. CASE path # None
    BY <2>2 DEF DocumentIsConsistent, Stored, Good, Kept, DocumentsGood, TypeOK
  <2> QED BY <2>1, <2>2
<1> QED BY <1>1, <1>2, <1>3, PTL DEF Spec

-------------------------------------------------------------------------------
(* One call at a time, step by step.                                       *)

LEMMA StoredType ==
  ASSUME TypeOK
  PROVE  /\ Stored.made = IF path = None THEN {} ELSE content[path].made
         /\ ~Unreadable(Stored) => Stored \in Holdings
<1>1. Holding(EmptyDoc, {}) \in Holdings /\ Holding(EmptyDoc, {}).made = {}
  BY NothingHeld
<1> QED BY <1>1 DEF Stored, TypeOK, Unreadable

LEMMA StoredStays ==
  ASSUME path' = path, path # None => content'[path] = content[path]
  PROVE  Stored' = Stored /\ (Unreadable(Stored)' <=> Unreadable(Stored))
<1>1. Stored' = Stored
  BY DEF Stored
<1> QED BY <1>1 DEF Unreadable

LEMMA AnsweredAre ==
  /\ \A q : q \in Answered <=> q \in Process /\ (told[q] = "ok" \/ (file = "workspaces" /\ q \in early))
  /\ \A q : q \in Answered' <=> q \in Process /\ (told'[q] = "ok" \/ (file' = "workspaces" /\ q \in early'))
BY DEF Answered

\* A step after which the same call is saving, at the same place, or none is, and
\* that leaves the file and what was acknowledged, is harmless.
LEMMA SerialStays ==
  ASSUME TypeOK, Serial, path' = path, path # None => content'[path] = content[path],
         file' = file, early \subseteq early',
         \A q \in Process : told'[q] = "ok" <=> told[q] = "ok",
         \A q \in Process : Saving(q)' => Saving(q) /\ image'[q] = image[q],
         \A q \in Process : pc'[q] \in {"writing", "renaming"} => fd'[q] = tmp',
         \A q \in Process : pc'[q] = "writing" => content'[tmp'] = Empty,
         \A q \in Process : pc'[q] = "renaming" => content'[tmp'] = image'[q],
         \/ memory'.made = {}
         \/ memory' = memory /\ \A q \in Process : Saving(q) => Saving(q)' \/ (path = None => q \in early')
  PROVE  Serial'
<1>1. Stored' = Stored /\ (Unreadable(Stored)' <=> Unreadable(Stored))
  BY StoredStays
<1>2. \A q \in Answered : q \in Answered'
  BY AnsweredAre
<1>3. \A q, r \in Process : Saving(q)' /\ Saving(r)' => q = r
  BY DEF Serial
<1>4. ASSUME NEW q \in Process, Saving(q)'
      PROVE  /\ Stored'.made \cup {q} \subseteq image'[q].made
             /\ image'[q].made \subseteq Answered' \cup {q}
  BY <1>1, <1>2, <1>4 DEF Serial
<1>5. ~Unreadable(Stored)' /\ Stored'.made \subseteq Answered'
  BY <1>1, <1>2 DEF Serial
<1>6. \A q \in Process : told'[q] = "ok" => q \in Stored'.made
  BY <1>1 DEF Serial
<1>7. path' = None =>
        memory'.made \subseteq {q \in Process : file' = "workspaces" /\ (q \in early' \/ Saving(q)')}
  <2>1. CASE memory'.made = {}
    BY <2>1
  <2>2. CASE memory' = memory /\ \A q \in Process : Saving(q) => Saving(q)' \/ (path = None => q \in early')
    <3> SUFFICES ASSUME path = None, NEW q \in memory.made
                 PROVE  q \in Process /\ file' = "workspaces" /\ (q \in early' \/ Saving(q)')
      BY <2>2
    <3>1. q \in Process /\ file = "workspaces" /\ (q \in early \/ Saving(q))
      BY DEF Serial
    <3> QED BY <2>2, <3>1
  <2> QED BY <2>1, <2>2
<1> QED BY <1>3, <1>4, <1>5, <1>6, <1>7 DEF Serial

LEMMA SerialInit == Init => Serial
<1> SUFFICES ASSUME Init PROVE Serial
  OBVIOUS
<1>1. /\ \A p \in Process : ~Saving(p) /\ pc[p] = "idle" /\ told[p] = "nothing"
      /\ memory.made = {}
  BY NothingHeld DEF Init, Saving
<1>2. ~Unreadable(Stored) /\ Stored.made = {}
  <2>1. CASE path = None
    BY <2>1, NothingHeld DEF Stored
  <2>2. CASE path = Initial /\ path # None
    <3>1. content[path] = Holding(InitialDoc, {})
      BY <2>2 DEF Init, Inode
    <3> QED BY <2>2, <3>1, InitialAssumption, HoldingType DEF Stored
  <2> QED BY <2>1, <2>2 DEF Init
<1> QED BY <1>1, <1>2 DEF Serial

\* The mutexes: a call that reads while no unlocked call overlaps is alone.
LEMMA LoadsAlone ==
  ASSUME Kept, NEW p \in Process, Free(p),
         \A q \in Process : Saving(q) => Locks(call[p]) /\ Locks(call[q])
  PROVE  \A q \in Process : ~Saving(q)
<1> SUFFICES ASSUME NEW q \in Process, Saving(q) PROVE FALSE
  OBVIOUS
<1>1. Locks(call[p]) /\ Locks(call[q]) /\ holder = q
  BY DEF Kept, NamesApart
<1>2. q # None
  BY NoneAssumption DEF Inode
<1> QED BY <1>1, <1>2 DEF Free

\* What a call that reads alone saves, contains what is stored, and only that and
\* what memory kept of failed saves.
LEMMA SerialLoad ==
  ASSUME Kept, SerialUnlessOverlapped, NEW p \in Process, Load(p), ~overlapped'
  PROVE  Serial'
<1>0. /\ pc[p] = "waiting" /\ Free(p) /\ ~Saving(p) /\ told[p] = "nothing"
      /\ UNCHANGED <<file, menu, path, tmp, content, call, faults, early>>
  BY DEF Load, Saving, TypeOK, Kept, setting, disk
<1>1. CASE Unreadable(Source) \/ Change(Source.doc, call[p]) = Refused
  <2>1. PICK a \in {"refused", "failed"} : Return(p, a)
    BY <1>1 DEF Load
  <2>2. memory' = memory /\ overlapped' = overlapped
    BY <1>1 DEF Load
  <2>3. /\ pc'[p] = "done" /\ told'[p] # "ok" /\ ~Saving(p)'
        /\ \A q \in Process \ {p} : pc'[q] = pc[q] /\ told'[q] = told[q]
                                    /\ image'[q] = image[q] /\ fd'[q] = fd[q]
    BY <1>0, <2>1, ReturnEffects DEF setting
  <2>4. \A q \in Process : (Saving(q)' <=> Saving(q)) /\ (Saving(q) => q # p)
    BY <1>0, <2>3 DEF Saving
  <2> QED BY <1>0, <2>2, <2>3, <2>4, SerialStays DEF Serial, SerialUnlessOverlapped, Kept
<1>2. CASE ~ (Unreadable(Source) \/ Change(Source.doc, call[p]) = Refused)
  <2>1. /\ image' = [image EXCEPT ![p] = Loaded(p)]
        /\ memory' = IF file = "workspaces" THEN Loaded(p) ELSE memory
        /\ pc' = [pc EXCEPT ![p] = "opening"]
        /\ overlapped' = (overlapped \/ \E q \in Process :
                              Saving(q) /\ ~(Locks(call[p]) /\ Locks(call[q])))
        /\ UNCHANGED <<fd, told>>
    BY <1>2 DEF Load, Loaded
  <2>2. ~overlapped /\ \A q \in Process : Saving(q) => Locks(call[p]) /\ Locks(call[q])
    BY <2>1
  <2>3. Serial /\ \A q \in Process : ~Saving(q)
    BY <1>0, <2>2, LoadsAlone DEF SerialUnlessOverlapped
  <2>4. /\ pc'[p] = "opening" /\ Saving(p)' /\ image'[p] = Loaded(p)
        /\ \A q \in Process \ {p} : pc'[q] = pc[q] /\ ~Saving(q)'
    BY <2>1, <2>3 DEF Saving, Kept, TypeOK
  <2>5. Loaded(p).made = Source.made \cup {p}
    BY <1>0, <1>2, <2>4, LoadedGood DEF Kept
  <2> HIDE DEF Loaded
  <2>6. Stored' = Stored /\ (Unreadable(Stored)' <=> Unreadable(Stored))
    BY <1>0, StoredStays
  <2>7. \A q : q \in Answered' <=> q \in Answered
    BY <1>0, <2>1, AnsweredAre
  <2>8. /\ Stored.made \subseteq Source.made
        /\ \A q \in Source.made : q \in Answered
    <3>1. CASE path = None
      <4>1. Stored.made = {} /\ Source = memory
        BY <3>1, StoredType DEF Kept, Source
      <4>2. \A q \in memory.made : q \in Process /\ file = "workspaces" /\ q \in early
        BY <2>3, <3>1 DEF Serial
      <4> QED BY <4>1, <4>2, AnsweredAre
    <3>2. CASE path # None
      BY <2>3, <3>2 DEF Source, Stored, Serial
    <3> QED BY <3>1, <3>2
  <2>9. path' = None =>
          memory'.made \subseteq {q \in Process : file' = "workspaces" /\ (q \in early' \/ Saving(q)')}
    <3> SUFFICES ASSUME path = None, NEW q \in memory'.made
                 PROVE  q \in Process /\ file' = "workspaces" /\ (q \in early' \/ Saving(q)')
      BY <1>0
    <3>1. \A r \in memory.made : r \in Process /\ file = "workspaces" /\ r \in early
      BY <2>3 DEF Serial
    <3>2. CASE file = "workspaces"
      <4>1. q \in memory.made \/ q = p
        BY <2>1, <2>5, <3>2 DEF Source
      <4> QED BY <1>0, <2>4, <3>1, <3>2, <4>1
    <3>3. CASE file # "workspaces"
      BY <2>1, <3>1, <3>3
    <3> QED BY <3>2, <3>3
  <2>10. \A q \in Process : Saving(q)' => q = p
    BY <2>4
  <2>11. \A q \in Process : pc'[q] \notin {"writing", "renaming"}
    BY <2>3, <2>4 DEF Saving
  <2>12. /\ Stored'.made \cup {p} \subseteq image'[p].made
         /\ image'[p].made \subseteq Answered' \cup {p}
    BY <2>4, <2>5, <2>6, <2>7, <2>8
  <2>13. ~Unreadable(Stored)' /\ Stored'.made \subseteq Answered'
    BY <2>3, <2>6, <2>7 DEF Serial
  <2>14. \A q \in Process : told'[q] = "ok" => q \in Stored'.made
    BY <2>1, <2>3, <2>6 DEF Serial
  <2> QED BY <2>9, <2>10, <2>11, <2>12, <2>13, <2>14 DEF Serial
<1> QED BY <1>1, <1>2

\* The one call that saves opens a .tmp file that is not the file.
LEMMA SerialOpenTmp ==
  ASSUME Kept, Serial, NEW p \in Process, OpenTmp(p)
  PROVE  Serial'
<1>0. /\ pc[p] = "opening" /\ Saving(p)
      /\ fd' = [fd EXCEPT ![p] = Target(p)] /\ tmp' = Target(p)
      /\ content' = [content EXCEPT ![Target(p)] = Empty]
      /\ pc' = [pc EXCEPT ![p] = "writing"]
      /\ UNCHANGED <<file, path, memory, image, told, early>>
  BY DEF OpenTmp, Saving, setting, history
<1>1. Target(p) \in Inode /\ Target(p) # path
  <2>1. p \in Inode /\ p # None /\ p # Initial
    BY NoneAssumption DEF Inode
  <2>2. p # path
    BY <1>0, <2>1 DEF Kept, Opened, NamesApart
  <2> QED BY <2>1, <2>2 DEF Target, Kept, NamesApart, TypeOK
<1> HIDE DEF Target
<1>2. /\ \A q \in Process : q # p => ~Saving(q)
  BY <1>0 DEF Serial
<1>3. /\ pc'[p] = "writing" /\ fd'[p] = tmp' /\ content'[tmp'] = Empty
      /\ \A q \in Process \ {p} : pc'[q] = pc[q] /\ fd'[q] = fd[q]
      /\ path # None => content'[path] = content[path]
  BY <1>0, <1>1 DEF Kept, TypeOK
<1>4. /\ \A q \in Process : Saving(q)' <=> q = p
      /\ \A q \in Process : pc'[q] \in {"writing", "renaming"} => q = p
  BY <1>0, <1>2, <1>3 DEF Saving
<1> QED BY <1>0, <1>2, <1>3, <1>4, SerialStays DEF Kept

\* It writes all of its document there.
LEMMA SerialWrite ==
  ASSUME Kept, Serial, NEW p \in Process, Write(p)
  PROVE  Serial'
<1>0. /\ pc[p] = "writing" /\ Saving(p)
      /\ pc' = [pc EXCEPT ![p] = "renaming"]
      /\ UNCHANGED <<file, path, tmp, memory, fd, image, told, early>>
  BY DEF Write, Saving, setting, history
<1>1. fd[p] = tmp /\ content[tmp] = Empty /\ tmp # None /\ tmp # path /\ tmp \in Inode
  <2>1. fd[p] = tmp /\ content[tmp] = Empty /\ fd[p] \in Opened
    BY <1>0 DEF Serial, Kept, NamesApart
  <2>2. tmp \in Process /\ tmp \in Inode /\ tmp # None
    BY <2>1, NoneAssumption DEF Opened, Inode
  <2> QED BY <2>1, <2>2 DEF Kept, NamesApart
<1>2. content' = [content EXCEPT ![tmp] = image[p]]
  BY <1>1 DEF Write
<1>3. /\ pc'[p] = "renaming" /\ content'[tmp'] = image'[p]
      /\ \A q \in Process \ {p} : pc'[q] = pc[q]
      /\ path # None => content'[path] = content[path]
  BY <1>0, <1>1, <1>2 DEF Kept, TypeOK
<1>4. /\ \A q \in Process : Saving(q)' <=> q = p
      /\ \A q \in Process : pc'[q] \in {"writing", "renaming"} => q = p
      /\ \A q \in Process : Saving(q) => q = p
  BY <1>0, <1>3 DEF Saving, Serial
<1> QED BY <1>0, <1>1, <1>3, <1>4, SerialStays DEF Kept

\* Or it fails and is gone; what it changed stays in memory only.
LEMMA SerialWriteFails ==
  ASSUME Kept, Serial, NEW p \in Process, WriteFails(p)
  PROVE  Serial'
<1>0. /\ pc[p] = "writing" /\ Saving(p) /\ Return(p, "failed")
      /\ content' = [content EXCEPT ![fd[p]] = Torn]
      /\ early' = IF path = None THEN early \cup {p} ELSE early
      /\ UNCHANGED <<file, menu, path, tmp, memory, call, overlapped>>
  BY DEF WriteFails, Saving, setting
<1>1. fd[p] = tmp /\ tmp # path
  <2>1. fd[p] = tmp /\ fd[p] \in Opened
    BY <1>0 DEF Serial, Kept, NamesApart
  <2>2. tmp # None
    BY <2>1, NoneAssumption DEF Opened, Inode
  <2> QED BY <2>1, <2>2 DEF Kept, NamesApart
<1>2. path # None => content'[path] = content[path]
  BY <1>0, <1>1 DEF Kept, TypeOK
<1>3. /\ pc'[p] = "done" /\ told'[p] = "failed" /\ told[p] = "nothing" /\ ~Saving(p)'
      /\ \A q \in Process \ {p} : pc'[q] = pc[q] /\ told'[q] = told[q]
  BY <1>0, ReturnEffects DEF setting
<1>4. /\ \A q \in Process : Saving(q) => q = p
      /\ \A q \in Process : ~Saving(q)' /\ pc'[q] \notin {"writing", "renaming"}
      /\ \A q \in Process : told'[q] = "ok" <=> told[q] = "ok"
  BY <1>0, <1>3 DEF Saving, Serial
<1> QED BY <1>0, <1>2, <1>4, SerialStays DEF Kept

\* Or it renames what it wrote: that is then the file, with its change.
LEMMA SerialRename ==
  ASSUME Kept, Serial, NEW p \in Process, Rename(p)
  PROVE  Serial'
<1>0. /\ pc[p] = "renaming" /\ Saving(p)
      /\ UNCHANGED <<file, menu, content, memory, call, early>>
  BY DEF Rename, Saving, setting, history
<1>1. fd[p] = tmp /\ content[tmp] = image[p] /\ tmp # None
  <2>1. fd[p] = tmp /\ content[tmp] = image[p] /\ fd[p] \in Opened
    BY <1>0 DEF Serial, Kept, NamesApart
  <2> QED BY <2>1, NoneAssumption DEF Opened, Inode
<1>2. Return(p, "ok") /\ path' = tmp /\ tmp' = None
  BY <1>1 DEF Rename
<1>3. /\ pc'[p] = "done" /\ told'[p] = "ok" /\ ~Saving(p)'
      /\ \A q \in Process \ {p} : pc'[q] = pc[q] /\ told'[q] = told[q]
  BY <1>0, <1>2, ReturnEffects DEF setting
<1>4. Stored' = image[p] /\ image[p] \in Holdings
  BY <1>0, <1>1, <1>2 DEF Stored, Kept, TypeOK
<1>5. ~Unreadable(Stored)'
  BY <1>4, NoneAssumption DEF Unreadable
<1>6. \A q \in Answered \cup {p} : q \in Answered'
  BY <1>0, <1>3, AnsweredAre
<1>7. Stored.made \cup {p} \subseteq Stored'.made /\ Stored'.made \subseteq Answered'
  BY <1>0, <1>4, <1>6 DEF Serial
<1>8. \A q \in Process : told'[q] = "ok" => q \in Stored'.made
  BY <1>3, <1>7 DEF Serial
<1>9. \A q \in Process : ~Saving(q)' /\ pc'[q] \notin {"writing", "renaming"}
  BY <1>0, <1>3 DEF Saving, Serial
<1> QED BY <1>1, <1>2, <1>5, <1>7, <1>8, <1>9 DEF Serial

LEMMA SerialRestart ==
  ASSUME Kept, Serial, Restart
  PROVE  Serial'
<1>1. /\ UNCHANGED <<file, path, content, early>>
      /\ memory' = Holding(EmptyDoc, {})
      /\ \A q \in Process : /\ pc'[q] \in {"idle", "done"}
                            /\ told'[q] = "ok" <=> told[q] = "ok"
  BY DEF Restart, setting, disk, history, Kept, TypeOK
<1>2. memory'.made = {}
  BY <1>1, NothingHeld
<1>3. \A q \in Process : ~Saving(q)'
  BY <1>1 DEF Saving
<1> QED BY <1>1, <1>2, <1>3, SerialStays DEF Kept

LEMMA SerialityStays ==
  Kept /\ SerialUnlessOverlapped /\ [Next]_vars => SerialUnlessOverlapped'
<1> SUFFICES ASSUME Kept, SerialUnlessOverlapped, [Next]_vars, ~overlapped' PROVE Serial'
  BY DEF SerialUnlessOverlapped
<1>1. CASE UNCHANGED vars
  <2>1. UNCHANGED <<file, menu, path, tmp, content, memory, holder, pc, call, fd, image, told,
                    faults, overlapped, early>>
    BY <1>1 DEF vars, setting, disk, process, history
  <2>2. \A q \in Process : Saving(q)' <=> Saving(q)
    BY <2>1 DEF Saving
  <2>3. Serial
    BY <2>1 DEF SerialUnlessOverlapped
  <2> QED BY <2>1, <2>2, <2>3, SerialStays DEF Kept, Serial
<1>2. CASE Restart
  BY <1>2, SerialRestart DEF SerialUnlessOverlapped, Restart, history
<1>3. ASSUME NEW p \in Process, NEW c \in menu, Begin(p, c)
      PROVE  Serial'
  <2>1. /\ UNCHANGED <<file, path, tmp, content, memory, image, told, fd, overlapped, early>>
        /\ \A q \in Process : /\ Saving(q)' <=> Saving(q)
                              /\ pc'[q] \in {"writing", "renaming"} => pc'[q] = pc[q]
    BY <1>3 DEF Begin, Saving, Kept, TypeOK, setting, disk, history
  <2>2. Serial
    BY <2>1 DEF SerialUnlessOverlapped
  <2> QED BY <2>1, <2>2, SerialStays DEF Kept, Serial
<1>4. ASSUME NEW p \in Process, Load(p)
      PROVE  Serial'
  BY <1>4, SerialLoad
<1>5. ASSUME NEW p \in Process, OpenTmp(p) \/ Write(p) \/ Rename(p) \/ WriteFails(p)
      PROVE  Serial'
  <2>1. overlapped' = overlapped
    BY <1>5 DEF OpenTmp, Write, Rename, WriteFails, history
  <2>2. Serial
    BY <2>1 DEF SerialUnlessOverlapped
  <2> QED BY <1>5, <2>2, SerialOpenTmp, SerialWrite, SerialRename, SerialWriteFails
<1> QED BY <1>1, <1>2, <1>3, <1>4, <1>5 DEF Next, Step

-------------------------------------------------------------------------------
\* Unless an unlocked call overlapped another one, the file is a whole document
\* whenever the server stops.
THEOREM FilesAreReadable == Spec => []FileIsReadable
<1>1. Init => Kept /\ SerialUnlessOverlapped
  BY KeptInit, SerialInit DEF SerialUnlessOverlapped
<1>2. Kept /\ SerialUnlessOverlapped /\ [Next]_vars => (Kept /\ SerialUnlessOverlapped)'
  BY KeptStays, SerialityStays
<1>3. SerialUnlessOverlapped => FileIsReadable
  BY DEF SerialUnlessOverlapped, Serial, FileIsReadable
<1> QED BY <1>1, <1>2, <1>3, PTL DEF Spec

\* With the same reservation, no acknowledged change is lost: the read of a call
\* and its rename have no other rename between them.
THEOREM AcknowledgedAreStored == Spec => []AcknowledgedIsStored
<1>1. Init => Kept /\ SerialUnlessOverlapped
  BY KeptInit, SerialInit DEF SerialUnlessOverlapped
<1>2. Kept /\ SerialUnlessOverlapped /\ [Next]_vars => (Kept /\ SerialUnlessOverlapped)'
  BY KeptStays, SerialityStays
<1>3. SerialUnlessOverlapped => AcknowledgedIsStored
  BY DEF SerialUnlessOverlapped, Serial, AcknowledgedIsStored, IsStored
<1> QED BY <1>1, <1>2, <1>3, PTL DEF Spec

\* And no change that was answered with an error comes into the file later, but
\* one that WorkspaceRepo kept in memory because there was no file yet.
THEOREM RefusedAreNotStored == Spec => []RefusedIsNotStored
<1>1. Init => Kept /\ SerialUnlessOverlapped
  BY KeptInit, SerialInit DEF SerialUnlessOverlapped
<1>2. Kept /\ SerialUnlessOverlapped /\ [Next]_vars => (Kept /\ SerialUnlessOverlapped)'
  BY KeptStays, SerialityStays
<1>3. SerialUnlessOverlapped => RefusedIsNotStored
  <2> SUFFICES ASSUME SerialUnlessOverlapped, ~overlapped, NEW p \in Process,
                      told[p] \in {"refused", "failed"}, IsStored(p)
               PROVE  file = "workspaces" /\ p \in early
    BY DEF RefusedIsNotStored
  <2>1. p \in Answered
    BY DEF SerialUnlessOverlapped, Serial, IsStored
  <2> QED BY <2>1 DEF Answered
<1> QED BY <1>1, <1>2, <1>3, PTL DEF Spec

\* The files whose calls all take the mutex.
Guarded == file \in {"workspaces", "outbox"}

\* What the other theorems say with a reservation, without it.
SafeFile ==
  /\ ~Unreadable(Stored)
  /\ \A p \in Process : told[p] = "ok" => IsStored(p)
  /\ \A p \in Process :
       told[p] \in {"refused", "failed"} /\ IsStored(p) => file = "workspaces" /\ p \in early

LEMMA GuardedNeverOverlap ==
  (Guarded => ~overlapped) /\ [Next]_vars => (Guarded => ~overlapped)'
<1> SUFFICES ASSUME Guarded => ~overlapped, [Next]_vars, Guarded' PROVE ~overlapped'
  OBVIOUS
<1>1. Guarded
  BY DEF Next, Begin, Step, Load, OpenTmp, Write, Rename, WriteFails, Restart, setting, vars,
         Guarded
<1>2. ASSUME NEW p \in Process, Load(p) PROVE ~overlapped'
  <2>1. /\ \A q \in Process : Locks(call[p]) /\ Locks(call[q])
        /\ ~overlapped
    BY <1>1 DEF Guarded, Locks
  <2>2. \/ overlapped' = overlapped
        \/ overlapped' = (overlapped \/ \E q \in Process :
                            Saving(q) /\ ~(Locks(call[p]) /\ Locks(call[q])))
    BY <1>2 DEF Load
  <2> QED BY <2>1, <2>2
<1>3. ASSUME ~\E p \in Process : Load(p) PROVE overlapped' = overlapped
  BY <1>3 DEF Next, Begin, Step, OpenTmp, Write, Rename, WriteFails, Restart, history, vars
<1> QED BY <1>1, <1>2, <1>3

\* workspaces.json and outbox.json are whole documents whenever the server stops, keep
\* what was acknowledged and hold nothing that was refused, whatever calls race: each of
\* their calls takes the mutex, so none overlaps another.
THEOREM GuardedFilesAreSafe == Spec => [](Guarded => SafeFile)
<1>1. Init => (Guarded => ~overlapped)
  BY DEF Init
<1>2. FileIsReadable /\ AcknowledgedIsStored /\ RefusedIsNotStored /\ (Guarded => ~overlapped)
        => (Guarded => SafeFile)
  BY DEF FileIsReadable, AcknowledgedIsStored, RefusedIsNotStored, SafeFile
<1> QED
  BY <1>1, <1>2, GuardedNeverOverlap, FilesAreReadable, AcknowledgedAreStored,
     RefusedAreNotStored, PTL DEF Spec
================================================================================
