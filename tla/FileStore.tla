------------------------------- MODULE FileStore -------------------------------
(***************************************************************************)
(* The JSON files that stand in for the database when none is configured.  *)
(* An operation reads the whole file, changes the document in memory,      *)
(* writes all of it to <file>.tmp and renames that over the file.          *)
(* workspaces.json and outbox.json have a mutex; packages.json only while  *)
(* a release is published; devices.json and audit.json have none.  The     *)
(* server may stop between any two system calls, and a write may fail.     *)
(*                                                                         *)
(* A behaviour is about one of the files: they share nothing.  An open     *)
(* file keeps its inode when another process renames it, so what is        *)
(* written goes where the name went.  The loss of unsynced pages in a      *)
(* power failure is not modelled.                                          *)
(***************************************************************************)
EXTENDS Naturals, Sequences, FiniteSets

CONSTANTS MaxCalls,   (* bound: calls, each of a request of its own         *)
          File,       (* the files considered                               *)
          Menus,      (* bound: per file, sets of calls that are made in    *)
                      (* one behaviour                                      *)
          Text,       (* ids, addresses and other values of columns         *)
          InitialDoc, (* the document before the first call                 *)
          MaxFaults,  (* bound: stops and failed writes                     *)
          Initial,    (* the inode of the file at the start                 *)
          Empty,      (* no bytes                                           *)
          Torn,       (* bytes that are no document                         *)
          Refused,    (* a call that returns an error and changes nothing   *)
          None        (* no inode, no process, an unset column              *)

VARIABLES file,       (* the file this behaviour is about                   *)
          menu,       (* the calls that may be made                         *)
          path,       (* the inode under its name, None if it is missing    *)
          tmp,        (* the inode under the name of the .tmp file          *)
          content,    (* per inode: what it holds                           *)
          memory,     (* the slices WorkspaceRepo keeps between its calls   *)
          holder,     (* the process that has the mutex                     *)
          pc,         (* per process: its next step                         *)
          call,       (* per process: the call it makes                     *)
          fd,         (* per process: the inode it writes                   *)
          image,      (* per process: the document it saves                 *)
          told,       (* per process: the answer                            *)
          faults,     (* stops and failed writes so far                     *)
          overlapped, (* history: two calls were between read and rename at *)
                      (* once, and one of them took no mutex                *)
          early       (* history: processes whose save failed while there   *)
                      (* was no file yet                                    *)

disk == <<path, tmp, content>>
process == <<pc, call, fd, image, told>>
history == <<overlapped, early>>
setting == <<file, menu>>
vars == <<setting, disk, memory, holder, process, faults, history>>

Kinds == {"create", "add", "update", "remove", "invite", "revoke", "claim", "drop", "revise",
          "publish", "approve", "clear", "register", "heartbeat", "append",
          "enqueue", "take", "processed", "failed", "dead"}

\* Which columns a kind uses, Change says.
CallRecord == [kind : Kinds, ws : Text, key : Text, value : Text, at : Nat]

\* Requests in the order they begin; each also names the inode it creates.
Process == 1..MaxCalls

\* A document and, as history, the processes whose changes it contains.  An
\* inode may also be empty or hold bytes that are no document.
Inode == Process \cup {Initial}

EmptyDoc == [workspaces |-> {}, memberships |-> {}, invitations |-> {}, revisions |-> {},
             releases |-> {}, devices |-> {}, trail |-> <<>>, events |-> {}]

\* The rows of each file, all under one name here.  Of equal revisions one row
\* stands for all: nothing here counts them.
Document ==
  [workspaces : SUBSET [id : Text, slug : Text],
   memberships : SUBSET [ws : Text, key : Text, role : Text],
   invitations : SUBSET [ws : Text, key : Text, email : Text, expires : Nat,
                         revoked : BOOLEAN, accepted : Text \cup {None}],
   revisions : SUBSET [ws : Text, key : Text, revision : Nat],
   releases : SUBSET [ws : Text, key : Text, status : Text],
   devices : SUBSET [ws : Text, key : Text, packages : Text],
   trail : Seq([ws : Text, key : Text]),
   events : SUBSET [ws : Text, key : Text, attempts : Nat, available : Nat,
                    processed : BOOLEAN, dead : BOOLEAN]]

Holdings == [doc : Document, made : SUBSET Process]

Open(v) == ~v.revoked /\ v.accepted = None

KeysAreUnique(S) == \A x, y \in S : x.ws = y.ws /\ x.key = y.key => x = y

\* The files have no keys or indexes: what a database would enforce.
Consistent(d) ==
  /\ KeysAreUnique(d.memberships)
  /\ KeysAreUnique(d.invitations)
  /\ KeysAreUnique(d.releases)
  /\ KeysAreUnique(d.devices)
  /\ \A v, w \in d.invitations : v.ws = w.ws /\ v.email = w.email /\ Open(v) /\ Open(w) => v = w
  /\ \A v \in d.invitations : v.revoked => v.accepted = None

ASSUME FileAssumption == File \subseteq {"workspaces", "packages", "devices", "audit", "outbox"}
ASSUME TextAssumption == {"owner", "viewer", "approved"} \subseteq Text
ASSUME CallAssumption == \A f \in File : \A m \in Menus[f] : m \subseteq CallRecord
ASSUME BoundsAssumption == MaxCalls \in Nat /\ MaxFaults \in Nat
ASSUME NoneAssumption == /\ Initial \notin Process /\ None \notin Inode
                         /\ None \notin CallRecord /\ None \notin Holdings
                         /\ Empty \notin Holdings /\ Torn \notin Holdings
ASSUME InitialAssumption == InitialDoc \in Document /\ Consistent(InitialDoc)
\* The ids a call makes are random: none is there at the start.
ASSUME IdAssumption ==
  \A f \in File : \A m \in Menus[f] : \A c \in m :
    /\ c.kind = "invite" => \A v \in InitialDoc.invitations : v.key # c.key
    /\ c.kind = "create" => \A x \in InitialDoc.memberships : x.ws # c.ws

Holding(doc, ps) == [doc |-> doc, made |-> ps]

\* A document is there at the start, or the server has never saved one.
Init ==
  /\ file \in File
  /\ menu \in Menus[file]
  /\ path \in {Initial, None}
  /\ tmp = None
  /\ content = [n \in Inode |-> IF n = Initial THEN Holding(InitialDoc, {}) ELSE Empty]
  /\ memory = Holding(EmptyDoc, {})
  /\ holder = None
  /\ pc = [p \in Process |-> "idle"]
  /\ call = [p \in Process |-> None]
  /\ fd = [p \in Process |-> None]
  /\ image = [p \in Process |-> None]
  /\ told = [p \in Process |-> "nothing"]
  /\ faults = 0
  /\ overlapped = FALSE
  /\ early = {}

-------------------------------------------------------------------------------
(* What the calls do to a document; Refused is the error each may return.  *)

\* The row with c's key among the rows of c's workspace.
Rows(S, c) == {x \in S : x.ws = c.ws /\ x.key = c.key}

\* S with other rows in the place of c's.
Rewrite(S, c, changed) == (S \ Rows(S, c)) \cup changed

Create(d, c) ==
  IF \E w \in d.workspaces : w.slug = c.value THEN Refused
  ELSE [d EXCEPT !.workspaces = @ \cup {[id |-> c.ws, slug |-> c.value]},
                 !.memberships = @ \cup {[ws |-> c.ws, key |-> c.key, role |-> "owner"]}]

MutAddMember(d, c) ==
  [d EXCEPT !.memberships = @ \cup {[ws |-> c.ws, key |-> c.key, role |-> c.value]}]

AddMember(d, c) ==
  IF Rows(d.memberships, c) # {} THEN Refused
  ELSE [d EXCEPT !.memberships = @ \cup {[ws |-> c.ws, key |-> c.key, role |-> c.value]}]

UpdateMemberRole(d, c) ==
  IF Rows(d.memberships, c) = {} THEN Refused
  ELSE [d EXCEPT !.memberships = Rewrite(@, c, {[m EXCEPT !.role = c.value] : m \in Rows(@, c)})]

RemoveMember(d, c) ==
  IF Rows(d.memberships, c) = {} THEN Refused
  ELSE [d EXCEPT !.memberships = @ \ Rows(@, c)]

\* key is the invitation's id, value the address, at the time of the call; it
\* expires one later.
CreateInvitation(d, c) ==
  LET open == {v \in d.invitations : v.ws = c.ws /\ v.email = c.value /\ Open(v)} IN
  IF c.ws \notin {w.id : w \in d.workspaces} \/ \E v \in open : v.expires > c.at THEN Refused
  ELSE [d EXCEPT !.invitations =
         (@ \ open) \cup {[v EXCEPT !.revoked = TRUE] : v \in open}
           \cup {[ws |-> c.ws, key |-> c.key, email |-> c.value, expires |-> c.at + 1,
                  revoked |-> FALSE, accepted |-> None]}]

RevokeInvitation(d, c) ==
  LET pending == {v \in Rows(d.invitations, c) : Open(v) /\ v.expires > c.at} IN
  IF pending = {} THEN Refused
  ELSE [d EXCEPT !.invitations = Rewrite(@, c, {[v EXCEPT !.revoked = TRUE] : v \in Rows(@, c)})]

\* value is the user who claims.
ClaimInvitation(d, c) ==
  LET pending == {v \in Rows(d.invitations, c) : Open(v) /\ v.expires > c.at} IN
  IF pending = {} \/ \E m \in d.memberships : m.ws = c.ws /\ m.key = c.value THEN Refused
  ELSE [d EXCEPT !.invitations = Rewrite(@, c, {[v EXCEPT !.accepted = c.value] : v \in Rows(@, c)}),
                 !.memberships = @ \cup {[ws |-> c.ws, key |-> c.value, role |-> "viewer"]}]

DeleteWorkspace(d, c) ==
  IF c.ws \notin {w.id : w \in d.workspaces} THEN Refused
  ELSE [d EXCEPT !.workspaces = {w \in @ : w.id # c.ws},
                 !.memberships = {m \in @ : m.ws # c.ws},
                 !.invitations = {v \in @ : v.ws # c.ws},
                 !.revisions = {x \in @ : x.ws # c.ws}]

\* SavePolicy and SaveManifest append whatever revision they are given.
SaveRevision(d, c) ==
  [d EXCEPT !.revisions = @ \cup {[ws |-> c.ws, key |-> c.key, revision |-> c.at]}]

\* key is name and version; value the status the policy gives it.
SaveRelease(d, c) ==
  IF Rows(d.releases, c) # {} THEN Refused
  ELSE [d EXCEPT !.releases = @ \cup {[ws |-> c.ws, key |-> c.key, status |-> c.value]}]

ApproveRelease(d, c) ==
  IF ~\E x \in Rows(d.releases, c) : x.status = "pending_approval" THEN Refused
  ELSE [d EXCEPT !.releases = Rewrite(@, c, {[x EXCEPT !.status = "approved"] : x \in Rows(@, c)})]

RemoveWorkspaceReleases(d, c) == [d EXCEPT !.releases = {x \in @ : x.ws # c.ws}]

\* The record is replaced whole, a package list the request left out is lost.
SaveDevice(d, c) ==
  [d EXCEPT !.devices = (@ \ Rows(@, c)) \cup {[ws |-> c.ws, key |-> c.key, packages |-> c.value]}]

Heartbeat(d, c) ==
  IF Rows(d.devices, c) = {} THEN Refused
  ELSE [d EXCEPT !.devices = Rewrite(@, c, {[x EXCEPT !.packages = c.value] : x \in Rows(@, c)})]

AppendAudit(d, c) == [d EXCEPT !.trail = Append(@, [ws |-> c.ws, key |-> c.key])]

Enqueue(d, c) ==
  [d EXCEPT !.events = @ \cup {[ws |-> c.ws, key |-> c.key, attempts |-> 0, available |-> c.at,
                                processed |-> FALSE, dead |-> FALSE]}]

Due(v, now) == ~v.processed /\ ~v.dead /\ v.available <= now

\* Claim counts an attempt of each event it hands out, sets no lease, and saves
\* nothing when there are none.
Claim(d, c) ==
  LET due == {v \in d.events : Due(v, c.at)} IN
  IF due = {} THEN Refused
  ELSE [d EXCEPT !.events = (@ \ due) \cup {[v EXCEPT !.attempts = @ + 1] : v \in due}]

Mark(d, c, marked) ==
  IF Rows(d.events, c) = {} THEN Refused ELSE [d EXCEPT !.events = Rewrite(@, c, marked)]

MarkProcessed(d, c) == Mark(d, c, {[v EXCEPT !.processed = TRUE] : v \in Rows(d.events, c)})

MarkFailed(d, c) == Mark(d, c, {[v EXCEPT !.available = c.at + 1] : v \in Rows(d.events, c)})

MarkDeadLetter(d, c) == Mark(d, c, {[v EXCEPT !.dead = TRUE] : v \in Rows(d.events, c)})

Change(d, c) ==
  CASE c.kind = "create" -> Create(d, c)
    [] c.kind = "add" -> AddMember(d, c)
    [] c.kind = "update" -> UpdateMemberRole(d, c)
    [] c.kind = "remove" -> RemoveMember(d, c)
    [] c.kind = "invite" -> CreateInvitation(d, c)
    [] c.kind = "revoke" -> RevokeInvitation(d, c)
    [] c.kind = "claim" -> ClaimInvitation(d, c)
    [] c.kind = "drop" -> DeleteWorkspace(d, c)
    [] c.kind = "revise" -> SaveRevision(d, c)
    [] c.kind = "publish" -> SaveRelease(d, c)
    [] c.kind = "approve" -> ApproveRelease(d, c)
    [] c.kind = "clear" -> RemoveWorkspaceReleases(d, c)
    [] c.kind = "register" -> SaveDevice(d, c)
    [] c.kind = "heartbeat" -> Heartbeat(d, c)
    [] c.kind = "append" -> AppendAudit(d, c)
    [] c.kind = "enqueue" -> Enqueue(d, c)
    [] c.kind = "take" -> Claim(d, c)
    [] c.kind = "processed" -> MarkProcessed(d, c)
    [] c.kind = "failed" -> MarkFailed(d, c)
    [] c.kind = "dead" -> MarkDeadLetter(d, c)

-------------------------------------------------------------------------------
(* The calls.                                                              *)

\* mu of the workspaces and of the outbox; lifecycleMu around a publication.
Locks(c) == file \in {"workspaces", "outbox"} \/ c.kind = "publish"

MutFree(p) == TRUE

Free(p) == Locks(call[p]) => holder = None

\* Between reading the file and renaming the new one over it.
Saving(p) == pc[p] \in {"opening", "writing", "renaming"}

Begun == {q \in Process : call[q] # None}

\* Ids are random: none is made twice, and nobody names the workspace of a call
\* that creates one before that call has returned.
Fresh(c) ==
  /\ c.kind \in {"invite", "enqueue"} => \A q \in Begun : call[q].key # c.key
  /\ c.kind = "create" => \A q \in Begun : call[q].ws # c.ws
  /\ \A q \in Begun : call[q].kind = "create" /\ call[q].ws = c.ws => pc[q] = "done"

Begin(p, c) ==
  /\ pc[p] = "idle"
  /\ \A q \in 1..(p - 1) : pc[q] # "idle"
  /\ Fresh(c)
  /\ pc' = [pc EXCEPT ![p] = "waiting"]
  /\ call' = [call EXCEPT ![p] = c]
  /\ UNCHANGED <<setting, disk, memory, holder, fd, image, told, faults, history>>

MutRelease(p, answer) == IF holder = p /\ answer # "failed" THEN None ELSE holder

\* The deferred Unlock.
Release(p, answer) == IF holder = p THEN None ELSE holder

Return(p, answer) ==
  /\ told' = [told EXCEPT ![p] = answer]
  /\ pc' = [pc EXCEPT ![p] = "done"]
  /\ holder' = Release(p, answer)
  /\ image' = [image EXCEPT ![p] = None]
  /\ fd' = [fd EXCEPT ![p] = None]

MutSource == IF path = None \/ memory.made # {} THEN memory ELSE content[path]

\* load: a missing file is an empty document, but WorkspaceRepo goes on with
\* what it has in memory.
Source == IF path = None THEN memory ELSE content[path]

Unreadable(s) == s \in {Empty, Torn}

\* The mutex, ReadFile and Unmarshal, and the change in memory.
Load(p) ==
  /\ pc[p] = "waiting"
  /\ Free(p)
  /\ IF Unreadable(Source) \/ Change(Source.doc, call[p]) = Refused
     THEN /\ Return(p, IF Unreadable(Source) THEN "failed" ELSE "refused")
          /\ UNCHANGED <<memory, overlapped>>
     ELSE LET new == Holding(Change(Source.doc, call[p]), Source.made \cup {p}) IN
          /\ image' = [image EXCEPT ![p] = new]
          /\ memory' = IF file = "workspaces" THEN new ELSE memory
          /\ holder' = IF Locks(call[p]) THEN p ELSE holder
          /\ pc' = [pc EXCEPT ![p] = "opening"]
          /\ overlapped' = (overlapped \/ \E q \in Process :
                              Saving(q) /\ ~(Locks(call[p]) /\ Locks(call[q])))
          /\ UNCHANGED <<fd, told>>
  /\ UNCHANGED <<setting, disk, call, faults, early>>

MutTarget(p) == IF path = None THEN p ELSE path

\* The inode WriteFile opens: the one named .tmp, or a new one.
Target(p) == IF tmp = None THEN p ELSE tmp

\* O_CREATE and O_TRUNC.
OpenTmp(p) ==
  /\ pc[p] = "opening"
  /\ fd' = [fd EXCEPT ![p] = Target(p)]
  /\ tmp' = Target(p)
  /\ content' = [content EXCEPT ![Target(p)] = Empty]
  /\ pc' = [pc EXCEPT ![p] = "writing"]
  /\ UNCHANGED <<setting, path, memory, holder, call, image, told, faults, history>>

\* Over bytes that another process wrote meanwhile, a longer tail may remain.
Write(p) ==
  /\ pc[p] = "writing"
  /\ \E bytes \in {image[p], Torn} :
       /\ content[fd[p]] = Empty => bytes = image[p]
       /\ content' = [content EXCEPT ![fd[p]] = bytes]
  /\ pc' = [pc EXCEPT ![p] = "renaming"]
  /\ UNCHANGED <<setting, path, tmp, memory, holder, call, fd, image, told, faults, history>>

\* No space, or no permission.
WriteFails(p) ==
  /\ pc[p] = "writing"
  /\ faults < MaxFaults /\ faults' = faults + 1
  /\ content' = [content EXCEPT ![fd[p]] = Torn]
  /\ early' = IF path = None THEN early \cup {p} ELSE early
  /\ Return(p, "failed")
  /\ UNCHANGED <<setting, path, tmp, memory, call, overlapped>>

\* The .tmp file may have been renamed by another process already.
Rename(p) ==
  /\ pc[p] = "renaming"
  /\ IF tmp = None
     THEN Return(p, "failed") /\ UNCHANGED <<path, tmp>>
     ELSE Return(p, "ok") /\ path' = tmp /\ tmp' = None
  /\ UNCHANGED <<setting, content, memory, call, faults, history>>

\* The server stops and starts again: the files stay as they are.
Restart ==
  /\ faults < MaxFaults /\ faults' = faults + 1
  /\ pc' = [p \in Process |-> IF pc[p] = "idle" THEN "idle" ELSE "done"]
  /\ told' = [p \in Process |-> IF told[p] = "nothing" /\ pc[p] # "idle" THEN "lost" ELSE told[p]]
  /\ memory' = Holding(EmptyDoc, {})
  /\ holder' = None
  /\ image' = [p \in Process |-> None]
  /\ fd' = [p \in Process |-> None]
  /\ UNCHANGED <<setting, disk, call, history>>

Step(p) == Load(p) \/ OpenTmp(p) \/ Write(p) \/ Rename(p)

Next ==
  \/ Restart
  \/ \E p \in Process :
       \/ \E c \in menu : Begin(p, c)
       \/ Step(p)
       \/ WriteFails(p)

Spec == Init /\ [][Next]_vars

\* A goroutine that can run does, and sync.Mutex does not starve a waiter.
Fairness == \A p \in Process : SF_vars(Step(p))

FairSpec == Spec /\ Fairness

-------------------------------------------------------------------------------
Stored == IF path = None THEN Holding(EmptyDoc, {}) ELSE content[path]

IsStored(p) == ~Unreadable(Stored) /\ p \in Stored.made

\* Types, and that the mutex is held by a call that is being made.
TypeOK ==
  /\ file \in File /\ menu \in Menus[file]
  /\ path \in Inode \cup {None}
  /\ tmp \in Inode \cup {None}
  /\ content \in [Inode -> Holdings \cup {Empty, Torn}]
  /\ memory \in Holdings
  /\ holder \in Process \cup {None}
  /\ holder # None => Saving(holder) /\ Locks(call[holder])
  /\ pc \in [Process -> {"idle", "waiting", "opening", "writing", "renaming", "done"}]
  /\ call \in [Process -> menu \cup {None}]
  /\ fd \in [Process -> Inode \cup {None}]
  /\ image \in [Process -> Holdings \cup {None}]
  /\ told \in [Process -> {"nothing", "ok", "refused", "failed", "lost"}]
  /\ \A p \in Process : (told[p] = "nothing" <=> pc[p] # "done") /\ (Saving(p) <=> image[p] # None)
  /\ faults \in 0..MaxFaults
  /\ overlapped \in BOOLEAN
  /\ early \subseteq Process

\* Whenever the server stops, the file it leaves behind is a whole document, as
\* long as no unlocked call overlapped another.
FileIsReadable == ~overlapped => ~Unreadable(Stored)

\* A change that was acknowledged is in the file and stays there, with the same
\* reservation: the mutexes serialize whole read-change-rename sequences.
AcknowledgedIsStored ==
  ~overlapped => \A p \in Process : told[p] = "ok" => IsStored(p)

\* A change that was answered with an error is not in the file, nor comes in with
\* a later one, except what WorkspaceRepo kept in memory while it had no file.
RefusedIsNotStored ==
  ~overlapped =>
    \A p \in Process :
      told[p] \in {"refused", "failed"} /\ IsStored(p) => file = "workspaces" /\ p \in early

\* The files have no keys or indexes, the calls keep to them: one membership for a
\* user, one open invitation for an address, one release of a version, one record
\* of a device, in every document that is ever saved, lost updates included.
DocumentIsConsistent == Unreadable(Stored) \/ Consistent(Stored.doc)

\* Every call is answered or dies with the server: no error path keeps the mutex.
EveryCallReturns == \A p \in Process : pc[p] = "waiting" ~> pc[p] = "done"
===============================================================================
