------------------------------- MODULE Revisions -------------------------------
(***************************************************************************)
(* The policy and the manifest of one workspace, and the releases they     *)
(* govern, in PostgreSQL.  A replacement reads the current revision from   *)
(* the pool and inserts the next one in a later transaction; what keeps    *)
(* two of them apart is the unique index on the revision alone.  A manifest*)
(* looks its releases up before that, one by one.  A publication reads the *)
(* policy, uploads, and commits a release with the status that the policy  *)
(* asked for.  Approval, in one transaction, makes a pending release       *)
(* downloadable.                                                           *)
(*                                                                         *)
(* What an upload and its failure do to the object store, and the keys     *)
(* that make a publication idempotent, are in ArtifactLifecycle; who may   *)
(* send a request is in Membership.                                        *)
(***************************************************************************)
EXTENDS Naturals, FiniteSets, FiniteSetsExt

CONSTANTS Release,       (* [name, version]                                 *)
          Digest,        (* SHA-256 digests                                 *)
          Request,       (* requests, each sent once or not at all          *)
          Input,         (* what each of them asks                          *)
          MaxRequests,   (* bound: requests that are sent                   *)
          MaxFaults,     (* bound: failures of the database and restarts    *)
          RequireApproval, RequireSignature,   (* the settings of a policy   *)
          NoRelease      (* no row                                          *)

VARIABLES alive,         (* the row of the workspace                        *)
          rows,          (* per register: the rows of its table             *)
          releases,      (* per name and version: its row                   *)
          announced,     (* per release: release.approved events            *)
          verifier,      (* a signature verifier is configured              *)
          stage,         (* per request: what it does next                  *)
          todo,          (* per request: manifest entries still to look up  *)
          base,          (* per request: the revision it has read           *)
          status,        (* per request: the status its release will have   *)
          answer,        (* per request: what the client was told           *)
          served,        (* digests whose content was sent to a client      *)
          since,         (* history: the policy when the request began      *)
          until,         (* history: the policy when its release was saved  *)
          faults         (* faults so far                                   *)

tables == <<alive, rows, releases, announced>>
locals == <<stage, todo, base, status, answer>>
vars == <<tables, verifier, locals, served, since, until, faults>>

Registers == {"policy", "manifest"}
Settings == {RequireApproval, RequireSignature}

\* A policy is the set of its settings that are true.
Policy == SUBSET Settings
Manifest == SUBSET [release : Release, digest : Digest]

\* document is what a replacement brings; the other fields are a release to
\* publish, approve or download.
Calls == [kind : Registers \cup {"publish", "approve", "download", "artifact"},
          document : Policy \cup Manifest, release : Release, digest : Digest, signed : BOOLEAN]

Statuses == {"published", "pending_approval", "approved"}
Answers == {"none", "ok", "refused", "failed"}
Stages == {"idle", "checking", "reading", "saving", "opening", "done"}

Row == [revision : Nat \ {0}, document : Policy \cup Manifest, by : Request]
ReleaseRow == [digest : Digest, status : Statuses, signed : BOOLEAN, by : Request]

ASSUME ReleaseAssumption == NoRelease \notin ReleaseRow /\ \A r \in Release : {"name", "version"} \subseteq DOMAIN r
ASSUME InputAssumption ==
  /\ Input \in [Request -> Calls]
  /\ \A i \in Request : /\ Input[i].kind = "policy" => Input[i].document \in Policy
                        /\ Input[i].kind = "manifest" => Input[i].document \in Manifest
ASSUME BoundsAssumption == MaxRequests \in Nat /\ MaxFaults \in Nat

Init ==
  /\ alive = TRUE
  /\ rows = [g \in Registers |-> {}]
  /\ releases = [r \in Release |-> NoRelease]
  /\ announced = [r \in Release |-> 0]
  /\ verifier \in BOOLEAN
  /\ stage = [i \in Request |-> "idle"]
  /\ todo = [i \in Request |-> {}]
  /\ base = [i \in Request |-> 0]
  /\ status = [i \in Request |-> "published"]
  /\ answer = [i \in Request |-> "none"]
  /\ served = {}
  /\ since = [i \in Request |-> 0]
  /\ until = [i \in Request |-> 0]
  /\ faults = 0

Fault == faults < MaxFaults /\ faults' = faults + 1

-------------------------------------------------------------------------------
(* The tables.                                                             *)

\* ORDER BY revision DESC LIMIT 1; without a row the revision is 0.
Latest(g) == Max({0} \cup {r.revision : r \in rows[g]})

\* The settings of revision n; revision 0 is the empty document.
PolicyAt(n) == UNION {r.document : r \in {x \in rows["policy"] : x.revision = n}}

MutVacant(g, n) == alive

\* The unique index and the foreign key let revision n in.
Vacant(g, n) == alive /\ \A r \in rows[g] : r.revision # n

MutSaveRow(g, i) ==
  rows' = [rows EXCEPT ![g] = @ \cup {[revision |-> base[i], document |-> Input[i].document, by |-> i]}]

SaveRow(g, i) ==
  rows' = [rows EXCEPT ![g] = @ \cup {[revision |-> base[i] + 1, document |-> Input[i].document, by |-> i]}]

MutPublic(r) == releases[r] # NoRelease

\* There, and not held back for approval.
Public(r) == releases[r] # NoRelease /\ releases[r].status # "pending_approval"

-------------------------------------------------------------------------------
(* Requests.                                                               *)

\* The checks that need no look at the database.
Valid(c) ==
  /\ c.kind = "policy" => (RequireSignature \in c.document => verifier)
  /\ c.kind = "manifest" => \A d, e \in c.document : d.release.name = e.release.name => d = e

First(c) == CASE c.kind = "manifest" -> "checking"
              [] c.kind \in {"policy", "publish"} -> "reading"
              [] c.kind = "approve" -> "saving"
              [] OTHER -> "opening"

\* A request that passes them; one that does not changes nothing.
Begin(i) ==
  LET c == Input[i] IN
  /\ stage[i] = "idle"
  /\ Cardinality({j \in Request : stage[j] # "idle"}) < MaxRequests
  /\ alive
  /\ Valid(c)
  /\ stage' = [stage EXCEPT ![i] = First(c)]
  /\ todo' = [todo EXCEPT ![i] = IF c.kind = "manifest" THEN c.document ELSE {}]
  /\ since' = [since EXCEPT ![i] = IF c.kind = "publish" THEN Latest("policy") ELSE 0]
  /\ UNCHANGED <<tables, verifier, base, status, answer, served, until, faults>>

At(i, kind, step) == stage[i] = step /\ Input[i].kind = kind

\* The handler of i goes on at the step.
Goto(i, step) ==
  /\ stage' = [stage EXCEPT ![i] = step]
  /\ UNCHANGED answer

\* The handler of i returns.
Answer(i, a) ==
  /\ stage' = [stage EXCEPT ![i] = "done"]
  /\ answer' = [answer EXCEPT ![i] = a]

-------------------------------------------------------------------------------
(* Replacing a policy or a manifest.                                       *)

\* FindReleaseForWorkspace for one entry of the manifest.
LookUp(i) ==
  /\ At(i, "manifest", "checking")
  /\ \E e \in todo[i] :
       IF Public(e.release) /\ releases[e.release].digest = e.digest
         THEN Goto(i, "checking") /\ todo' = [todo EXCEPT ![i] = @ \ {e}]
         ELSE Answer(i, "refused") /\ UNCHANGED todo
  /\ UNCHANGED <<tables, verifier, base, status, served, since, until, faults>>

ReadRevision(i, g) ==
  /\ todo[i] = {}
  /\ base' = [base EXCEPT ![i] = Latest(g)]
  /\ Goto(i, "saving")
  /\ UNCHANGED <<tables, verifier, todo, status, served, since, until, faults>>

\* The transaction of the row, its audit event and its outbox event.
Insert(i, g) ==
  /\ IF Vacant(g, base[i] + 1) THEN SaveRow(g, i) /\ Answer(i, "ok")
                               ELSE UNCHANGED rows /\ Answer(i, "failed")
  /\ UNCHANGED <<alive, releases, announced, verifier, todo, base, status, served, since, until, faults>>

\* The transaction is rolled back, or its commit is not acknowledged.
InsertFails(i, g) ==
  /\ Fault
  /\ \/ UNCHANGED rows
     \/ Vacant(g, base[i] + 1) /\ SaveRow(g, i)
  /\ Answer(i, "failed")
  /\ UNCHANGED <<alive, releases, announced, verifier, todo, base, status, served, since, until>>

ReplacePolicy(i) ==
  \/ At(i, "policy", "reading") /\ ReadRevision(i, "policy")
  \/ At(i, "policy", "saving") /\ (Insert(i, "policy") \/ InsertFails(i, "policy"))

ReplaceManifest(i) ==
  \/ LookUp(i)
  \/ At(i, "manifest", "checking") /\ ReadRevision(i, "manifest")
  \/ At(i, "manifest", "saving") /\ (Insert(i, "manifest") \/ InsertFails(i, "manifest"))

-------------------------------------------------------------------------------
(* Publishing, approving and downloading a release.                        *)

MutReleaseStatus(document) == "published"

ReleaseStatus(document) ==
  IF RequireApproval \in document THEN "pending_approval" ELSE "published"

\* releaseStatus and preparePayload: the policy is read once.  A verifier asks
\* for a signature whatever the policy says; a policy that asks for one while no
\* verifier is configured refuses every release.  A signature is kept with the
\* release only if a verifier has seen it.
ReadPolicy(i) ==
  LET document == PolicyAt(Latest("policy")) IN
  /\ At(i, "publish", "reading")
  /\ IF /\ RequireSignature \in document => verifier
        /\ verifier => Input[i].signed
       THEN Goto(i, "saving") /\ status' = [status EXCEPT ![i] = ReleaseStatus(document)]
       ELSE Answer(i, IF Input[i].signed THEN "failed" ELSE "refused") /\ UNCHANGED status
  /\ UNCHANGED <<tables, verifier, todo, base, served, since, until, faults>>

SaveRelease(i) ==
  /\ releases' = [releases EXCEPT ![Input[i].release] =
                    [digest |-> Input[i].digest, status |-> status[i], signed |-> verifier, by |-> i]]
  /\ until' = [until EXCEPT ![i] = Latest("policy")]

\* saveReleaseTx after the upload: a version is inserted once.
Commit(i) ==
  /\ At(i, "publish", "saving")
  /\ IF alive /\ releases[Input[i].release] = NoRelease
       THEN SaveRelease(i) /\ Answer(i, "ok")
       ELSE UNCHANGED <<releases, until>> /\ Answer(i, IF alive THEN "refused" ELSE "failed")
  /\ UNCHANGED <<alive, rows, announced, verifier, todo, base, status, served, since, faults>>

MutApprovable(r) == releases[r] # NoRelease

\* The predicate of the UPDATE.
Approvable(r) == releases[r] # NoRelease /\ releases[r].status = "pending_approval"

ApproveRow(r) ==
  /\ Approvable(r)
  /\ releases' = [releases EXCEPT ![r].status = "approved"]
  /\ announced' = [announced EXCEPT ![r] = @ + 1]

\* The status and its event in one transaction, which may fail, or commit
\* without the caller learning of it.
Approve(i) ==
  LET r == Input[i].release IN
  /\ At(i, "approve", "saving")
  /\ \/ ApproveRow(r) /\ Answer(i, "ok") /\ UNCHANGED faults
     \/ ApproveRow(r) /\ Answer(i, "failed") /\ Fault
     \/ /\ UNCHANGED <<releases, announced>>
        /\ \/ ~Approvable(r) /\ Answer(i, "refused") /\ UNCHANGED faults
           \/ Answer(i, "failed") /\ Fault
  /\ UNCHANGED <<alive, rows, verifier, todo, base, status, served, since, until>>

\* The releases a download may find: by digest it is any one that has it.
Found(c) ==
  IF c.kind = "download" THEN {c.release} \ {r \in Release : releases[r] = NoRelease}
                         ELSE {r \in Release : releases[r] # NoRelease /\ releases[r].digest = c.digest}

Open(i) ==
  /\ stage[i] = "opening"
  /\ \/ \E r \in Found(Input[i]) :
          IF Public(r) THEN served' = served \cup {releases[r].digest} /\ Answer(i, "ok")
                       ELSE Answer(i, "refused") /\ UNCHANGED served
     \/ Found(Input[i]) = {} /\ Answer(i, "refused") /\ UNCHANGED served
  /\ UNCHANGED <<tables, verifier, todo, base, status, since, until, faults>>

-------------------------------------------------------------------------------
(* The workspace is deleted with all its rows.                             *)
DeleteWorkspace ==
  /\ alive
  /\ alive' = FALSE
  /\ rows' = [g \in Registers |-> {}]
  /\ releases' = [r \in Release |-> NoRelease]
  /\ UNCHANGED <<announced, verifier, locals, served, since, until, faults>>

\* The server stops, and starts with or without a verifier: requests are lost.
Restart ==
  /\ Fault
  /\ verifier' \in BOOLEAN
  /\ stage' = [i \in Request |-> IF stage[i] = "idle" THEN "idle" ELSE "done"]
  /\ UNCHANGED <<tables, todo, base, status, answer, served, since, until>>

Handle(i) ==
  ReplacePolicy(i) \/ ReplaceManifest(i) \/ ReadPolicy(i) \/ Commit(i) \/ Approve(i) \/ Open(i)

Next ==
  \/ \E i \in Request : Begin(i) \/ Handle(i)
  \/ DeleteWorkspace
  \/ Restart

Spec == Init /\ [][Next]_vars

-------------------------------------------------------------------------------
(* Properties.                                                             *)

TypeOK ==
  /\ alive \in BOOLEAN
  /\ rows \in [Registers -> SUBSET Row]
  /\ releases \in [Release -> ReleaseRow \cup {NoRelease}]
  /\ announced \in [Release -> Nat]
  /\ verifier \in BOOLEAN
  /\ stage \in [Request -> Stages]
  /\ todo \in [Request -> Manifest]
  /\ base \in [Request -> Nat]
  /\ status \in [Request -> Statuses]
  /\ answer \in [Request -> Answers]
  /\ served \subseteq Digest
  /\ since \in [Request -> Nat]
  /\ until \in [Request -> Nat]
  /\ faults \in 0..MaxFaults

\* The revisions of the policy in force while a release was being published.
Meanwhile(r) == since[releases[r].by]..until[releases[r].by]

\* A release was let out, or held back, by a policy that was in force at some
\* moment of its publication: once a policy that asks for approval or for a
\* signature is answered, no publication that begins afterwards escapes it
\* (releaseStatus reads the policy before the upload, the release is saved after
\* it).
GateFollowsThePolicy ==
  alive => \A r \in Release : releases[r] # NoRelease =>
    /\ releases[r].status = "published" => \E n \in Meanwhile(r) : RequireApproval \notin PolicyAt(n)
    /\ releases[r].status = "pending_approval" => \E n \in Meanwhile(r) : RequireApproval \in PolicyAt(n)
    /\ ~releases[r].signed => \E n \in Meanwhile(r) : RequireSignature \notin PolicyAt(n)

Downloadable(r) == releases[r] # NoRelease /\ releases[r].status \in {"published", "approved"}

\* What is held back for approval stays inside: a client is sent no content that
\* only such releases have, and no revision of the manifest names one; every
\* entry of one can be downloaded and has the digest the entry names.
PendingStaysInside ==
  alive =>
    /\ \A d \in served : \E r \in Release : Downloadable(r) /\ releases[r].digest = d
    /\ \A m \in rows["manifest"] : \A e \in m.document :
         Downloadable(e.release) /\ releases[e.release].digest = e.digest

\* A release is approved, and its approval announced, once, however many
\* administrators approve it at the same time, and only one that a policy has
\* held back.
ApprovedOnce ==
  alive => \A r \in Release :
    /\ announced[r] = IF releases[r] # NoRelease /\ releases[r].status = "approved" THEN 1 ELSE 0
    /\ announced[r] # 0 => \E n \in Meanwhile(r) : RequireApproval \in PolicyAt(n)

\* A register as the log of its revisions, and the answers that named one.
LogOf(g) ==
  [n \in 1..Latest(g) |->
     LET r == CHOOSE x \in rows[g] : x.revision = n IN [by |-> r.by, document |-> r.document]]

Replacing(g) == {i \in Request : Input[i].kind = g}

Documents(g) == {Input[i].document : i \in Replacing(g)}

ToldOf(g) == {<<i, base[i] + 1>> : i \in {j \in Replacing(g) : answer[j] = "ok"}}

Policies == INSTANCE Register WITH
  Caller <- Replacing("policy"), Document <- Documents("policy"),
  log <- LogOf("policy"), told <- ToldOf("policy"), closed <- ~alive

Manifests == INSTANCE Register WITH
  Caller <- Replacing("manifest"), Document <- Documents("manifest"),
  log <- LogOf("manifest"), told <- ToldOf("manifest"), closed <- ~alive

\* Whatever the interleaving of the reads and the inserts of several
\* administrators, policies and manifests are logs: no revision is skipped,
\* overwritten or told to two of them.
KeepsRegisters == Policies!Spec /\ Manifests!Spec
================================================================================
