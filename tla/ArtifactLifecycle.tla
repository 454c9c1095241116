--------------------------- MODULE ArtifactLifecycle ---------------------------
(***************************************************************************)
(* The life of an uploaded artifact in the hosted (PostgreSQL and object   *)
(* store) deployment: the idempotent publication of a release, the         *)
(* clean-up of a failed one, the deletion of a workspace and the worker's  *)
(* artifact.cleanup handler.  The database and the object store share no   *)
(* transaction.  What relates them is the digest lock, a session advisory  *)
(* lock on a connection of its own: a publication holds it from its upload *)
(* to the commit of the reference, a clean-up from its check of the        *)
(* references to the removal of the object.                                *)
(*                                                                         *)
(* Cleanup jobs are the events of topic artifact.cleanup.  They follow the *)
(* promise of AtLeastOnce: an open job may be in the hands of several      *)
(* workers at once, is retired by an acknowledgement, and may be buried    *)
(* as a dead letter once a try of it failed.                               *)
(***************************************************************************)
EXTENDS Naturals

CONSTANTS Workspace,   (* ids of workspaces                                 *)
          Digest,      (* SHA-256 digests, the object keys of the store     *)
          Request,     (* publish requests, each run once                   *)
          Worker,      (* worker loops that run the cleanup handler         *)
          Inputs,      (* what requests ask: [ws, key, version, digest]     *)
          Faults,      (* kinds of fault that may happen                    *)
          MaxFaults,   (* bound: faults in a behaviour                      *)
          Free,        (* nobody holds a digest lock                        *)
          NoJob        (* an idle worker has no job                         *)

FaultKinds == {"cancel", "put", "save", "commit", "delete", "enqueue", "mark",
               "crash", "session"}

Process == Request \cup Worker

Job == [by : Workspace \cup Request, digest : Digest]

ASSUME InputsAssumption == Inputs \subseteq [ws : Workspace, key : STRING, version : STRING,
                                             digest : Digest]
ASSUME ProcessAssumption == Request \cap Worker = {} /\ Free \notin Process
ASSUME JobAssumption == NoJob \notin Job /\ Workspace \cap Request = {}
ASSUME FaultsAssumption == Faults \subseteq FaultKinds /\ MaxFaults \in Nat

VARIABLES live,        (* rows of workspaces                                *)
          releases,    (* rows of releases with their artifacts row         *)
          keys,        (* rows of idempotency_keys                          *)
          objects,     (* digests the object store holds                    *)
          lock,        (* per digest: who holds its advisory lock           *)
          pc,          (* per process: what it does next                    *)
          input,       (* per request: its workspace, key, version, digest  *)
          cancelled,   (* requests whose context is done                    *)
          answer,      (* per request: what the caller was told             *)
          job,         (* per worker: the cleanup job at hand               *)
          open,        (* cleanup jobs neither acknowledged nor buried      *)
          buried,      (* cleanup jobs that are dead letters                *)
          deleting,    (* workspaces whose deletion is in progress          *)
          candidates,  (* per workspace: the digests its deletion has read  *)
          leaked,      (* history: objects left behind by a known cause     *)
          unguarded,   (* history: digests whose lock's session was lost    *)
          faults       (* faults so far                                     *)

tables == <<live, releases, keys>>
outbox == <<open, buried>>
deletion == <<deleting, candidates>>
calls == <<input, cancelled, answer, job>>
history == <<leaked, unguarded>>
vars == <<tables, objects, lock, pc, calls, outbox, deletion, history, faults>>

RequestSteps == {"new", "put", "save", "cleanup", "check", "remove", "enqueue",
                 "answered", "crashed"}
WorkerSteps == {"idle", "cleanup", "check", "remove", "ack", "nack"}
Answers == {"none", "created", "replayed", "upload_failed", "failed"}

Init ==
  /\ live = Workspace
  /\ releases = {}
  /\ keys = {}
  /\ objects = {}
  /\ lock = [d \in Digest |-> Free]
  /\ pc = [p \in Process |-> IF p \in Request THEN "new" ELSE "idle"]
  /\ input \in [Request -> Inputs]
  /\ cancelled = {}
  /\ answer = [r \in Request |-> "none"]
  /\ job = [w \in Worker |-> NoJob]
  /\ open = {}
  /\ buried = {}
  /\ deleting = {}
  /\ candidates = [ws \in Workspace |-> {}]
  /\ leaked = {}
  /\ unguarded = {}
  /\ faults = 0

-------------------------------------------------------------------------------
DigestOf(p) == IF p \in Request THEN input[p].digest ELSE job[p].digest

DigestsOf(ws) == {rel.digest : rel \in {x \in releases : x.ws = ws}}

ArtifactReferenced(d) == \E rel \in releases : rel.digest = d

Fault(kind) ==
  /\ kind \in Faults
  /\ faults < MaxFaults
  /\ faults' = faults + 1

\* A call that takes the request's context fails once it is done; otherwise the
\* failure is a fault of the given kind.
CallFails(p, kind) ==
  IF p \in cancelled THEN UNCHANGED faults ELSE Fault(kind)

\* The deferred unlock: a session that was lost has nothing left to release.
Unlock(p) ==
  lock' = [lock EXCEPT ![DigestOf(p)] = IF @ = p THEN Free ELSE @]

\* The error of the deferred unlock joins the result of the locked operation.
Ends(p, ok, failed) ==
  pc' = [pc EXCEPT ![p] = IF lock[DigestOf(p)] = p THEN ok ELSE failed]

Goto(p, step) == pc' = [pc EXCEPT ![p] = step]

\* pg_advisory_lock on the digest; the locked operation starts at step.
Acquire(p, step) ==
  /\ lock[DigestOf(p)] = Free
  /\ lock' = [lock EXCEPT ![DigestOf(p)] = p]
  /\ Goto(p, step)

-------------------------------------------------------------------------------
(* The publication of a release.                                           *)

StartPublish(r) ==
  /\ pc[r] = "new"
  /\ Acquire(r, "put")
  /\ UNCHANGED <<tables, objects, calls, outbox, deletion, history, faults>>

MutPut(r) ==
  /\ pc[r] = "put"
  /\ r \notin cancelled
  /\ objects' = objects \cup {input[r].digest}
  /\ Unlock(r)
  /\ Goto(r, "save")
  /\ UNCHANGED <<tables, calls, outbox, deletion, history, faults>>

Put(r) ==
  /\ pc[r] = "put"
  /\ r \notin cancelled
  /\ objects' = objects \cup {input[r].digest}
  /\ Goto(r, "save")
  /\ UNCHANGED <<tables, lock, calls, outbox, deletion, history, faults>>

\* PutObject returns an error: stored stays false and no clean-up follows, even
\* if the store has kept the object.
PutFails(r) ==
  /\ pc[r] = "put"
  /\ CallFails(r, "put")
  /\ \/ UNCHANGED <<objects, leaked>>
     \/ /\ objects' = objects \cup {input[r].digest}
        /\ leaked' = leaked \cup {input[r].digest}
  /\ Unlock(r)
  /\ Goto(r, "answered")
  /\ answer' = [answer EXCEPT ![r] = "upload_failed"]
  /\ UNCHANGED <<tables, input, cancelled, job, outbox, deletion, unguarded>>

Release(r) ==
  [ws |-> input[r].ws, version |-> input[r].version, digest |-> input[r].digest]

\* The keys row of the request's workspace and key, if there is one.
KeyRows(r) == {k \in keys : k.ws = input[r].ws /\ k.key = input[r].key}

\* The fingerprint of the stored request equals that of this one.
Replays(r) == input[r] \in KeyRows(r)

MutInsertable(r) ==
  /\ input[r].ws \in live
  /\ \A rel \in releases : rel.ws = input[r].ws => rel.version # input[r].version

\* No row stands in the way of the new release and its workspace is there.
Insertable(r) ==
  /\ KeyRows(r) = {}
  /\ input[r].ws \in live
  /\ \A rel \in releases : rel.ws = input[r].ws => rel.version # input[r].version

Insert(r) ==
  /\ releases' = releases \cup {Release(r)}
  /\ keys' = keys \cup {input[r]}
  /\ UNCHANGED live

SaveCreates(r) ==
  /\ pc[r] = "save"
  /\ r \notin cancelled
  /\ Insertable(r)
  /\ Insert(r)
  /\ Unlock(r)
  /\ Ends(r, "answered", "cleanup")
  /\ answer' = [answer EXCEPT ![r] = IF pc'[r] = "answered" THEN "created" ELSE @]
  /\ UNCHANGED <<objects, input, cancelled, job, outbox, deletion, history, faults>>

SaveReplays(r) ==
  /\ pc[r] = "save"
  /\ r \notin cancelled
  /\ Replays(r)
  /\ Unlock(r)
  /\ Ends(r, "answered", "cleanup")
  /\ answer' = [answer EXCEPT ![r] = IF pc'[r] = "answered" THEN "replayed" ELSE @]
  /\ UNCHANGED <<tables, objects, input, cancelled, job, outbox, deletion, history, faults>>

\* Used key, taken version or deleted workspace: an error after the upload.
SaveRejects(r) ==
  /\ pc[r] = "save"
  /\ ~Replays(r)
  /\ ~Insertable(r)
  /\ Unlock(r)
  /\ Goto(r, "cleanup")
  /\ UNCHANGED <<tables, objects, calls, outbox, deletion, history, faults>>

SaveFails(r) ==
  /\ pc[r] = "save"
  /\ CallFails(r, "save")
  /\ Unlock(r)
  /\ Goto(r, "cleanup")
  /\ UNCHANGED <<tables, objects, calls, outbox, deletion, history>>

\* The commit happens and its acknowledgement is lost.
SaveCommitUnknown(r) ==
  /\ pc[r] = "save"
  /\ CallFails(r, "commit")
  /\ Insertable(r)
  /\ Insert(r)
  /\ Unlock(r)
  /\ Goto(r, "cleanup")
  /\ UNCHANGED <<objects, calls, outbox, deletion, history>>

Save(r) ==
  SaveCreates(r) \/ SaveReplays(r) \/ SaveRejects(r) \/ SaveFails(r) \/ SaveCommitUnknown(r)

\* The client disconnects: net/http ends the context of the request.
Cancel(r) ==
  /\ pc[r] \in {"put", "save", "cleanup", "check", "remove", "enqueue"}
  /\ r \notin cancelled
  /\ Fault("cancel")
  /\ cancelled' = cancelled \cup {r}
  /\ UNCHANGED <<tables, objects, lock, pc, input, answer, job, outbox, deletion, history>>

-------------------------------------------------------------------------------
(* The clean-up of one digest: by the request whose publication failed, or *)
(* by a worker's handler of an artifact.cleanup job.                       *)

\* What an error of the clean-up leads to: the request enqueues a job, the
\* worker reports a failed attempt.
Failed(p) == IF p \in Request THEN "enqueue" ELSE "nack"
Cleaned(p) == IF p \in Request THEN "answered" ELSE "ack"

\* A request whose clean-up succeeded returns the error that led to it.
Finish(p) ==
  /\ Ends(p, Cleaned(p), Failed(p))
  /\ answer' = IF pc'[p] = "answered" THEN [answer EXCEPT ![p] = "failed"] ELSE answer

LockForCleanup(p) ==
  /\ pc[p] = "cleanup"
  /\ p \notin cancelled
  /\ Acquire(p, "check")
  /\ UNCHANGED <<tables, objects, calls, outbox, deletion, history, faults>>

LockForCleanupFails(p) ==
  /\ pc[p] = "cleanup"
  /\ CallFails(p, "delete")
  /\ Goto(p, Failed(p))
  /\ UNCHANGED <<tables, objects, lock, calls, outbox, deletion, history>>

\* ArtifactReferenced finds a release of some workspace: the object stays.
KeepReferenced(p) ==
  /\ pc[p] = "check"
  /\ p \notin cancelled
  /\ ArtifactReferenced(DigestOf(p))
  /\ Unlock(p)
  /\ Finish(p)
  /\ UNCHANGED <<tables, objects, input, cancelled, job, outbox, deletion, history, faults>>

FindUnreferenced(p) ==
  /\ pc[p] = "check"
  /\ p \notin cancelled
  /\ ~ArtifactReferenced(DigestOf(p))
  /\ Goto(p, "remove")
  /\ UNCHANGED <<tables, objects, lock, calls, outbox, deletion, history, faults>>

RemoveObject(p) ==
  /\ pc[p] = "remove"
  /\ p \notin cancelled
  /\ objects' = objects \ {DigestOf(p)}
  /\ leaked' = leaked \ {DigestOf(p)}
  /\ Unlock(p)
  /\ Finish(p)
  /\ UNCHANGED <<tables, input, cancelled, job, outbox, deletion, faults, unguarded>>

\* The check or the removal returns an error; a removal may have happened.
CheckOrRemoveFails(p) ==
  /\ pc[p] \in {"check", "remove"}
  /\ CallFails(p, "delete")
  /\ \/ UNCHANGED <<objects, leaked>>
     \/ /\ pc[p] = "remove"
        /\ objects' = objects \ {DigestOf(p)}
        /\ leaked' = leaked \ {DigestOf(p)}
  /\ Unlock(p)
  /\ Goto(p, Failed(p))
  /\ UNCHANGED <<tables, calls, outbox, deletion, unguarded>>

Cleanup(p) ==
  \/ LockForCleanup(p) \/ LockForCleanupFails(p)
  \/ KeepReferenced(p) \/ FindUnreferenced(p)
  \/ RemoveObject(p) \/ CheckOrRemoveFails(p)

\* The request's own clean-up failed: a durable job takes over.
EnqueueCleanup(r) ==
  /\ pc[r] = "enqueue"
  /\ r \notin cancelled
  /\ open' = open \cup {[by |-> r, digest |-> input[r].digest]}
  /\ Goto(r, "answered")
  /\ answer' = [answer EXCEPT ![r] = "failed"]
  /\ UNCHANGED <<tables, objects, lock, input, cancelled, job, buried, deletion, history, faults>>

\* That insert uses the context of the request as well.
EnqueueCleanupFails(r) ==
  /\ pc[r] = "enqueue"
  /\ CallFails(r, "enqueue")
  /\ leaked' = leaked \cup {input[r].digest}
  /\ Goto(r, "answered")
  /\ answer' = [answer EXCEPT ![r] = "failed"]
  /\ UNCHANGED <<tables, objects, lock, input, cancelled, job, outbox, deletion, unguarded>>

Publish(r) ==
  \/ Put(r) \/ PutFails(r) \/ Save(r)
  \/ Cleanup(r) \/ EnqueueCleanup(r) \/ EnqueueCleanupFails(r)

-------------------------------------------------------------------------------
(* The worker's side of a cleanup job.                                     *)

Take(w) ==
  /\ pc[w] = "idle"
  /\ \E j \in open : job' = [job EXCEPT ![w] = j]
  /\ Goto(w, "cleanup")
  /\ UNCHANGED <<tables, objects, lock, input, cancelled, answer, outbox, deletion, history, faults>>

Rest(w) ==
  /\ Goto(w, "idle")
  /\ job' = [job EXCEPT ![w] = NoJob]

Acknowledge(w) ==
  /\ pc[w] = "ack"
  /\ open' = open \ {job[w]}
  /\ Rest(w)
  /\ UNCHANGED <<tables, objects, lock, input, cancelled, answer, buried, deletion, history, faults>>

MutRetry(w) ==
  /\ pc[w] = "nack"
  /\ open' = open \ {job[w]}
  /\ Rest(w)
  /\ UNCHANGED <<tables, objects, lock, input, cancelled, answer, buried, deletion, history, faults>>

\* A failed attempt: the job is tried again later.
Retry(w) ==
  /\ pc[w] = "nack"
  /\ Rest(w)
  /\ UNCHANGED <<tables, objects, lock, input, cancelled, answer, outbox, deletion, history, faults>>

\* A failed attempt past the retry limit: the job becomes a dead letter.
Bury(w) ==
  /\ pc[w] = "nack"
  /\ open' = open \ {job[w]}
  /\ buried' = buried \cup {job[w]}
  /\ Rest(w)
  /\ UNCHANGED <<tables, objects, lock, input, cancelled, answer, deletion, history, faults>>

MarkLost(w) ==
  /\ pc[w] \in {"ack", "nack"}
  /\ Fault("mark")
  /\ Rest(w)
  /\ UNCHANGED <<tables, objects, lock, input, cancelled, answer, outbox, deletion, history>>

Work(w) == Take(w) \/ Cleanup(w) \/ Acknowledge(w) \/ Retry(w) \/ Bury(w) \/ MarkLost(w)

-------------------------------------------------------------------------------
(* The deletion of a workspace, one transaction in read-committed mode.    *)

\* DigestsForWorkspace: a snapshot of the references, without a lock.
ReadCandidates(ws) ==
  /\ ws \in live \ deleting
  /\ deleting' = deleting \cup {ws}
  /\ candidates' = [candidates EXCEPT ![ws] = DigestsOf(ws)]
  /\ UNCHANGED <<tables, objects, lock, pc, calls, outbox, history, faults>>

MutDeleteWorkspace(ws) ==
  /\ ws \in deleting
  /\ live' = live \ {ws}
  /\ releases' = {rel \in releases : rel.ws # ws}
  /\ open' = open \cup [by : {ws}, digest : candidates[ws]]
  /\ leaked' = leaked \cup (DigestsOf(ws) \ candidates[ws])
  /\ deleting' = deleting \ {ws}
  /\ candidates' = [candidates EXCEPT ![ws] = {}]
  /\ UNCHANGED <<keys, objects, lock, pc, calls, buried, faults, unguarded>>

\* DELETE FROM workspaces with its cascades, and a job for each candidate read:
\* a reference committed since the read is dropped without a job.
DeleteWorkspace(ws) ==
  /\ ws \in deleting
  /\ live' = live \ {ws}
  /\ releases' = {rel \in releases : rel.ws # ws}
  /\ keys' = {k \in keys : k.ws # ws}
  /\ open' = open \cup [by : {ws}, digest : candidates[ws]]
  /\ leaked' = leaked \cup (DigestsOf(ws) \ candidates[ws])
  /\ deleting' = deleting \ {ws}
  /\ candidates' = [candidates EXCEPT ![ws] = {}]
  /\ UNCHANGED <<objects, lock, pc, calls, buried, faults, unguarded>>

\* An active legal hold or any error rolls the transaction back.
AbortDeletion(ws) ==
  /\ ws \in deleting
  /\ deleting' = deleting \ {ws}
  /\ candidates' = [candidates EXCEPT ![ws] = {}]
  /\ UNCHANGED <<tables, objects, lock, pc, calls, outbox, history, faults>>

-------------------------------------------------------------------------------
(* Stops and lost sessions.                                                *)

MutFreeLock(p) == UNCHANGED lock

\* A stop of the replica ends the session, which frees its advisory lock.
FreeLock(p) == IF lock[DigestOf(p)] = p THEN Unlock(p) ELSE UNCHANGED lock

\* The replica stops during a request; an upload under way may be complete.
CrashRequest(r) ==
  /\ pc[r] \in {"put", "save", "cleanup", "check", "remove", "enqueue"}
  /\ Fault("crash")
  /\ FreeLock(r)
  /\ \/ UNCHANGED <<objects, leaked>> /\ pc[r] = "put"
     \/ /\ objects' = IF pc[r] = "put" THEN objects \cup {input[r].digest} ELSE objects
        /\ leaked' = leaked \cup {input[r].digest}
  /\ Goto(r, "crashed")
  /\ UNCHANGED <<tables, calls, outbox, deletion, unguarded>>

\* The replica stops while its worker has a job: the lease will run out.
CrashWorker(w) ==
  /\ pc[w] # "idle"
  /\ Fault("crash")
  /\ FreeLock(w)
  /\ Rest(w)
  /\ UNCHANGED <<tables, objects, input, cancelled, answer, outbox, deletion, history>>

\* The connection that holds an advisory lock is lost; its holder goes on.
LoseSession(d) ==
  /\ lock[d] # Free
  /\ Fault("session")
  /\ lock' = [lock EXCEPT ![d] = Free]
  /\ unguarded' = unguarded \cup {d}
  /\ UNCHANGED <<tables, objects, pc, calls, outbox, deletion, leaked>>

-------------------------------------------------------------------------------
Next ==
  \/ \E r \in Request : StartPublish(r) \/ Publish(r) \/ Cancel(r) \/ CrashRequest(r)
  \/ \E w \in Worker : Work(w) \/ CrashWorker(w)
  \/ \E ws \in Workspace : ReadCandidates(ws) \/ DeleteWorkspace(ws) \/ AbortDeletion(ws)
  \/ \E d \in Digest : LoseSession(d)

Spec == Init /\ [][Next]_vars

\* A request that has begun and a live worker take their next step; nobody owes
\* a new request, a deletion or a fault.
Fairness ==
  /\ \A r \in Request : WF_vars(Publish(r))
  /\ \A w \in Worker : WF_vars(Work(w))

FairSpec == Spec /\ Fairness

-------------------------------------------------------------------------------
\* Tables, store, calls and jobs are well formed: a release or a key belongs to a
\* live workspace, only a started request is cancelled, an idle worker has no job.
TypeOK ==
  /\ live \subseteq Workspace
  /\ releases \subseteq [ws : live, version : STRING, digest : Digest]
  /\ keys \subseteq {k \in Inputs : k.ws \in live}
  /\ objects \subseteq Digest
  /\ lock \in [Digest -> Process \cup {Free}]
  /\ pc \in [Process -> RequestSteps \cup WorkerSteps]
  /\ \A r \in Request : pc[r] \in RequestSteps
  /\ \A w \in Worker : pc[w] \in WorkerSteps
  /\ input \in [Request -> Inputs]
  /\ cancelled \subseteq Request
  /\ answer \in [Request -> Answers]
  /\ job \in [Worker -> Job \cup {NoJob}]
  /\ \A w \in Worker : pc[w] = "idle" <=> job[w] = NoJob
  /\ open \subseteq Job
  /\ buried \subseteq Job
  /\ deleting \subseteq live
  /\ candidates \in [Workspace -> SUBSET Digest]
  /\ leaked \subseteq Digest
  /\ unguarded \subseteq Digest
  /\ faults \in 0 .. MaxFaults

\* Every committed release can be downloaded: a clean-up never removes an object
\* that a publication is about to reference or has referenced, as long as the
\* session of the digest's lock was never lost.
NoDanglingReference == \A rel \in releases : rel.digest \in objects \cup unguarded

\* Some request that has uploaded d has not decided what becomes of it.
InFlight(d) ==
  \E r \in Request :
    /\ input[r].digest = d
    /\ pc[r] \in {"save", "cleanup", "check", "remove", "enqueue"}

HasJob(d) == \E j \in open \cup buried : j.digest = d

\* An object that nothing references is somebody's to remove, or was left behind
\* by one of four causes: an upload whose error hides that it was stored, a stop of
\* the replica, a failed enqueue of the clean-up, or a release published while its
\* workspace was being deleted.
OrphansAreExplained ==
  \A d \in objects : ArtifactReferenced(d) \/ InFlight(d) \/ HasJob(d) \/ d \in leaked

\* One key, one release: requests of one workspace and key that succeeded asked for
\* the same version and digest, and only one of them created the release.
KeyIsOneRelease ==
  \A q, r \in Request :
    /\ q # r
    /\ input[q].ws = input[r].ws /\ input[q].key = input[r].key
    /\ answer[q] \in {"created", "replayed"} /\ answer[r] \in {"created", "replayed"}
    => /\ input[q] = input[r]
       /\ ~(answer[q] = "created" /\ answer[r] = "created")

\* Left to the requests and workers, an orphan is removed or referenced again, unless
\* it leaked or its job became a dead letter.
OrphansAreCollected ==
  \A d \in Digest :
    (d \in objects /\ ~ArtifactReferenced(d)) ~>
      \/ d \notin objects \/ ArtifactReferenced(d) \/ d \in leaked
      \/ \E j \in buried : j.digest = d

\* OPERATIONS.md: the deletion of a workspace enqueues a clean-up for every digest
\* the workspace references.
DeletionEnqueuesEveryDigest ==
  [][\A ws \in live \ live' : \A d \in DigestsOf(ws) :
       [by |-> ws, digest |-> d] \in open']_vars

\* OPERATIONS.md: only an unreferenced object is deleted.
RemovesOnlyUnreferenced ==
  [][\A d \in objects \ objects' : ~ArtifactReferenced(d)]_vars

\* PRODUCTION_READINESS.md: after a failed publication the uploaded object is cleaned
\* up or a job for it is enqueued.
FailedPublishIsCleanedUp ==
  \A r \in Request : answer[r] = "failed" =>
    LET d == input[r].digest IN
      d \in objects => ArtifactReferenced(d) \/ InFlight(d) \/ HasJob(d)
================================================================================
