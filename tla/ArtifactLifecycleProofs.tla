------------------------ MODULE ArtifactLifecycleProofs ------------------------
(***************************************************************************)
(* Proofs about ArtifactLifecycle for any set of workspaces, digests,      *)
(* publish requests and workers, whatever the requests ask and whatever    *)
(* faults happen.                                                          *)
(***************************************************************************)
EXTENDS ArtifactLifecycle, TLAPS

USE InputsAssumption, ProcessAssumption, JobAssumption, FaultsAssumption

\* The initial state is well formed.
LEMMA InitTyped == Init => TypeOK
  BY DEF Init, TypeOK, Process, RequestSteps, WorkerSteps, Answers, Job

\* The part of TypeOK about the processes, and the one about everything else.
PcTyped ==
  /\ pc \in [Process -> RequestSteps \cup WorkerSteps]
  /\ \A r \in Request : pc[r] \in RequestSteps
  /\ \A w \in Worker : pc[w] \in WorkerSteps
  /\ job \in [Worker -> Job \cup {NoJob}]
  /\ \A w \in Worker : pc[w] = "idle" <=> job[w] = NoJob

LockTyped == lock \in [Digest -> Process \cup {Free}]

\* Locking and unlocking keep the lock typed.
LEMMA LockStep ==
  ASSUME TypeOK, NEW p \in Process,
         \/ Unlock(p) \/ FreeLock(p) \/ UNCHANGED lock
         \/ Acquire(p, "put") \/ Acquire(p, "check")
  PROVE  LockTyped'
  BY DEF TypeOK, Unlock, FreeLock, Acquire, LockTyped

\* A request goes on to a step of a request.
LEMMA RequestStep ==
  ASSUME TypeOK, NEW r \in Request, UNCHANGED job,
         \E s \in RequestSteps : Goto(r, s)
  PROVE  PcTyped'
  BY DEF TypeOK, Process, PcTyped, Goto

\* A worker at work goes on with its job, or gets or drops one.
LEMMA WorkerStep ==
  ASSUME TypeOK, NEW w \in Worker,
         \/ \E s \in WorkerSteps \ {"idle"} : Goto(w, s) /\ UNCHANGED job /\ pc[w] # "idle"
         \/ \E s \in WorkerSteps \ {"idle"}, j \in Job : Goto(w, s) /\ job' = [job EXCEPT ![w] = j]
         \/ Rest(w)
  PROVE  PcTyped'
  BY DEF TypeOK, Process, PcTyped, Goto, Rest, WorkerSteps

\* The choice that the end of a locked operation makes.
LEMMA EndsSomewhere ==
  ASSUME NEW p, NEW ok, NEW failed, Ends(p, ok, failed)
  PROVE  Goto(p, ok) \/ Goto(p, failed)
  BY DEF Ends, Goto

\* A step of a request keeps everything well formed.
LEMMA RequestTyped ==
  ASSUME TypeOK, NEW r \in Request,
         StartPublish(r) \/ Put(r) \/ PutFails(r) \/ Save(r) \/ EnqueueCleanup(r)
           \/ EnqueueCleanupFails(r) \/ Cancel(r) \/ CrashRequest(r)
  PROVE  TypeOK'
  <1> r \in Process /\ r \notin Worker
    BY DEF Process
  <1> USE DEF tables, outbox, deletion, calls, history, RequestSteps
  <1>1. CASE StartPublish(r)
    <2>1. LockTyped'
      BY <1>1, LockStep DEF StartPublish
    <2>2. PcTyped'
      BY <1>1, RequestStep DEF StartPublish, Acquire
    <2>3. QED
      BY <1>1, <2>1, <2>2 DEF StartPublish, TypeOK, PcTyped, LockTyped
  <1>2. CASE Put(r)
    <2>1. LockTyped'
      BY <1>2, LockStep DEF Put
    <2>2. PcTyped'
      BY <1>2, RequestStep DEF Put
    <2>3. QED
      BY <1>2, <2>1, <2>2 DEF Put, TypeOK, PcTyped, LockTyped
  <1>3. CASE PutFails(r)
    <2>1. LockTyped'
      BY <1>3, LockStep DEF PutFails
    <2>2. PcTyped'
      BY <1>3, RequestStep DEF PutFails
    <2>3. answer' \in [Request -> Answers]
      BY <1>3 DEF PutFails, TypeOK, Answers
    <2>4. objects' \subseteq Digest /\ leaked' \subseteq Digest
      BY <1>3 DEF PutFails, TypeOK
    <2>5. faults' \in 0 .. MaxFaults
      BY <1>3 DEF PutFails, TypeOK, CallFails, Fault
    <2>6. QED
      BY <1>3, <2>1, <2>2, <2>3, <2>4, <2>5 DEF PutFails, TypeOK, PcTyped, LockTyped
  <1>4. CASE Save(r)
    <2>1. CASE SaveCreates(r)
      <3>1. LockTyped'
        BY <2>1, LockStep DEF SaveCreates
      <3>2. PcTyped'
        BY <2>1, RequestStep, EndsSomewhere DEF SaveCreates
      <3>3. answer' \in [Request -> Answers]
        BY <2>1 DEF SaveCreates, TypeOK, Answers
      <3>4. /\ releases' \subseteq [ws : live', version : STRING, digest : Digest]
            /\ keys' \subseteq {k \in Inputs : k.ws \in live'}
        BY <2>1 DEF SaveCreates, TypeOK, Insert, Insertable, Release
      <3>5. QED
        BY <2>1, <3>1, <3>2, <3>3, <3>4 DEF SaveCreates, Insert, TypeOK, PcTyped, LockTyped
    <2>2. CASE SaveReplays(r)
      <3>1. LockTyped'
        BY <2>2, LockStep DEF SaveReplays
      <3>2. PcTyped'
        BY <2>2, RequestStep, EndsSomewhere DEF SaveReplays
      <3>3. answer' \in [Request -> Answers]
        BY <2>2 DEF SaveReplays, TypeOK, Answers
      <3>4. QED
        BY <2>2, <3>1, <3>2, <3>3 DEF SaveReplays, TypeOK, PcTyped, LockTyped
    <2>3. CASE SaveRejects(r)
      <3>1. LockTyped'
        BY <2>3, LockStep DEF SaveRejects
      <3>2. PcTyped'
        BY <2>3, RequestStep DEF SaveRejects
      <3>3. QED
        BY <2>3, <3>1, <3>2 DEF SaveRejects, TypeOK, PcTyped, LockTyped
    <2>4. CASE SaveFails(r)
      <3>1. LockTyped'
        BY <2>4, LockStep DEF SaveFails
      <3>2. PcTyped'
        BY <2>4, RequestStep DEF SaveFails
      <3>3. faults' \in 0 .. MaxFaults
        BY <2>4 DEF SaveFails, TypeOK, CallFails, Fault
      <3>4. QED
        BY <2>4, <3>1, <3>2, <3>3 DEF SaveFails, TypeOK, PcTyped, LockTyped
    <2>5. CASE SaveCommitUnknown(r)
      <3>1. LockTyped'
        BY <2>5, LockStep DEF SaveCommitUnknown
      <3>2. PcTyped'
        BY <2>5, RequestStep DEF SaveCommitUnknown
      <3>3. /\ releases' \subseteq [ws : live', version : STRING, digest : Digest]
            /\ keys' \subseteq {k \in Inputs : k.ws \in live'}
        BY <2>5 DEF SaveCommitUnknown, TypeOK, Insert, Insertable, Release
      <3>4. faults' \in 0 .. MaxFaults
        BY <2>5 DEF SaveCommitUnknown, TypeOK, CallFails, Fault
      <3>5. QED
        BY <2>5, <3>1, <3>2, <3>3, <3>4 DEF SaveCommitUnknown, Insert, TypeOK, PcTyped, LockTyped
    <2>6. QED
      BY <1>4, <2>1, <2>2, <2>3, <2>4, <2>5 DEF Save
  <1>5. CASE EnqueueCleanup(r)
    <2>1. LockTyped'
      BY <1>5, LockStep DEF EnqueueCleanup
    <2>2. PcTyped'
      BY <1>5, RequestStep DEF EnqueueCleanup
    <2>3. answer' \in [Request -> Answers]
      BY <1>5 DEF EnqueueCleanup, TypeOK, Answers
    <2>4. open' \subseteq Job
      BY <1>5 DEF EnqueueCleanup, TypeOK, Job
    <2>5. QED
      BY <1>5, <2>1, <2>2, <2>3, <2>4 DEF EnqueueCleanup, TypeOK, PcTyped, LockTyped
  <1>6. CASE EnqueueCleanupFails(r)
    <2>1. LockTyped'
      BY <1>6, LockStep DEF EnqueueCleanupFails
    <2>2. PcTyped'
      BY <1>6, RequestStep DEF EnqueueCleanupFails
    <2>3. answer' \in [Request -> Answers]
      BY <1>6 DEF EnqueueCleanupFails, TypeOK, Answers
    <2>4. faults' \in 0 .. MaxFaults
      BY <1>6 DEF EnqueueCleanupFails, TypeOK, CallFails, Fault
    <2>5. QED
      BY <1>6, <2>1, <2>2, <2>3, <2>4 DEF EnqueueCleanupFails, TypeOK, PcTyped, LockTyped
  <1>7. CASE Cancel(r)
    BY <1>7 DEF Cancel, TypeOK, Fault
  <1>8. CASE CrashRequest(r)
    <2>1. LockTyped'
      BY <1>8, LockStep DEF CrashRequest
    <2>2. PcTyped'
      BY <1>8, RequestStep DEF CrashRequest
    <2>3. objects' \subseteq Digest /\ leaked' \subseteq Digest
      BY <1>8 DEF CrashRequest, TypeOK
    <2>4. faults' \in 0 .. MaxFaults
      BY <1>8 DEF CrashRequest, TypeOK, Fault
    <2>5. QED
      BY <1>8, <2>1, <2>2, <2>3, <2>4 DEF CrashRequest, TypeOK, PcTyped, LockTyped
  <1>9. QED
    BY <1>1, <1>2, <1>3, <1>4, <1>5, <1>6, <1>7, <1>8

\* So does a step of the clean-up of a failed publication or of a worker's job.
LEMMA CleanupTyped ==
  ASSUME TypeOK, NEW p \in Process, Cleanup(p)
  PROVE  TypeOK'
  <1> USE DEF tables, outbox, deletion, calls, history
  <1>1. pc[p] # "idle"
    BY DEF Cleanup, LockForCleanup, LockForCleanupFails, KeepReferenced, FindUnreferenced,
           RemoveObject, CheckOrRemoveFails
  <1>2. ASSUME NEW s \in {"check", "remove", Failed(p), Cleaned(p)}, Goto(p, s), UNCHANGED job
        PROVE  PcTyped'
    <2>1. CASE p \in Request
      BY <1>2, <2>1, RequestStep DEF Failed, Cleaned, RequestSteps
    <2>2. CASE p \in Worker
      BY <1>1, <1>2, <2>2, WorkerStep DEF Failed, Cleaned, WorkerSteps
    <2>3. QED
      BY <2>1, <2>2 DEF Process
  <1>3. ASSUME Finish(p), UNCHANGED job PROVE PcTyped' /\ answer' \in [Request -> Answers]
    BY <1>2, <1>3, EndsSomewhere DEF Finish, TypeOK, Answers
  <1>4. CASE LockForCleanup(p)
    <2>1. LockTyped'
      BY <1>4, LockStep DEF LockForCleanup
    <2>2. PcTyped'
      BY <1>4, <1>2 DEF LockForCleanup, Acquire
    <2>3. QED
      BY <1>4, <2>1, <2>2 DEF LockForCleanup, TypeOK, PcTyped, LockTyped
  <1>5. CASE LockForCleanupFails(p)
    <2>1. PcTyped'
      BY <1>5, <1>2 DEF LockForCleanupFails
    <2>2. faults' \in 0 .. MaxFaults
      BY <1>5 DEF LockForCleanupFails, CallFails, Fault, TypeOK
    <2>3. QED
      BY <1>5, <2>1, <2>2 DEF LockForCleanupFails, TypeOK, PcTyped, LockTyped
  <1>6. CASE KeepReferenced(p)
    <2>1. LockTyped'
      BY <1>6, LockStep DEF KeepReferenced
    <2>2. PcTyped' /\ answer' \in [Request -> Answers]
      BY <1>6, <1>3 DEF KeepReferenced
    <2>3. QED
      BY <1>6, <2>1, <2>2 DEF KeepReferenced, TypeOK, PcTyped, LockTyped
  <1>7. CASE FindUnreferenced(p)
    <2>1. PcTyped'
      BY <1>7, <1>2 DEF FindUnreferenced
    <2>2. QED
      BY <1>7, <2>1 DEF FindUnreferenced, TypeOK, PcTyped, LockTyped
  <1>8. CASE RemoveObject(p)
    <2>1. LockTyped'
      BY <1>8, LockStep DEF RemoveObject
    <2>2. PcTyped' /\ answer' \in [Request -> Answers]
      BY <1>8, <1>3 DEF RemoveObject
    <2>3. QED
      BY <1>8, <2>1, <2>2 DEF RemoveObject, TypeOK, PcTyped, LockTyped
  <1>9. CASE CheckOrRemoveFails(p)
    <2>1. LockTyped'
      BY <1>9, LockStep DEF CheckOrRemoveFails
    <2>2. PcTyped'
      BY <1>9, <1>2 DEF CheckOrRemoveFails
    <2>3. objects' \subseteq Digest /\ leaked' \subseteq Digest
      BY <1>9 DEF CheckOrRemoveFails, TypeOK
    <2>4. faults' \in 0 .. MaxFaults
      BY <1>9 DEF CheckOrRemoveFails, CallFails, Fault, TypeOK
    <2>5. QED
      BY <1>9, <2>1, <2>2, <2>3, <2>4 DEF CheckOrRemoveFails, TypeOK, PcTyped, LockTyped
  <1>10. QED
    BY <1>4, <1>5, <1>6, <1>7, <1>8, <1>9 DEF Cleanup

\* And a step of a worker that takes or reports a job, or stops.
LEMMA WorkerTyped ==
  ASSUME TypeOK, NEW w \in Worker,
         Take(w) \/ Acknowledge(w) \/ Retry(w) \/ Bury(w) \/ MarkLost(w) \/ CrashWorker(w)
  PROVE  TypeOK'
  <1> w \in Process
    BY DEF Process
  <1> USE DEF tables, outbox, deletion, calls, history
  <1>1. PcTyped'
    <2>1. CASE Take(w)
      BY <2>1, WorkerStep DEF Take, TypeOK, WorkerSteps
    <2>2. CASE Rest(w)
      BY <2>2, WorkerStep
    <2>3. QED
      BY <2>1, <2>2 DEF Acknowledge, Retry, Bury, MarkLost, CrashWorker
  <1>2. CASE Take(w)
    BY <1>1, <1>2 DEF Take, TypeOK, PcTyped
  <1>3. ASSUME pc[w] \in {"ack", "nack"} PROVE job[w] \in Job
    BY <1>3 DEF TypeOK
  <1>4. CASE Acknowledge(w)
    BY <1>1, <1>4 DEF Acknowledge, TypeOK, PcTyped
  <1>5. CASE Retry(w)
    BY <1>1, <1>5 DEF Retry, TypeOK, PcTyped
  <1>6. CASE Bury(w)
    BY <1>1, <1>3, <1>6 DEF Bury, TypeOK, PcTyped
  <1>7. CASE MarkLost(w)
    BY <1>1, <1>7 DEF MarkLost, Fault, TypeOK, PcTyped
  <1>8. CASE CrashWorker(w)
    <2>1. LockTyped'
      BY <1>8, LockStep DEF CrashWorker
    <2>2. QED
      BY <1>1, <1>8, <2>1 DEF CrashWorker, Fault, TypeOK, PcTyped, LockTyped
  <1>9. QED
    BY <1>2, <1>4, <1>5, <1>6, <1>7, <1>8

\* Every step preserves the well-formedness of tables, store, calls and jobs.
LEMMA TypePreserved == TypeOK /\ [Next]_vars => TypeOK'
  <1> SUFFICES ASSUME TypeOK, [Next]_vars PROVE TypeOK'
    OBVIOUS
  <1> USE DEF tables, outbox, deletion, calls, history
  <1>1. ASSUME NEW r \in Request, StartPublish(r) \/ Publish(r) \/ Cancel(r) \/ CrashRequest(r)
        PROVE  TypeOK'
    BY <1>1, RequestTyped, CleanupTyped DEF Publish, Process
  <1>2. ASSUME NEW w \in Worker, Work(w) \/ CrashWorker(w)
        PROVE  TypeOK'
    BY <1>2, WorkerTyped, CleanupTyped DEF Work, Process
  <1>3. ASSUME NEW ws \in Workspace, ReadCandidates(ws)
        PROVE  TypeOK'
    BY <1>3 DEF ReadCandidates, DigestsOf, TypeOK
  <1>4. ASSUME NEW ws \in Workspace, DeleteWorkspace(ws)
        PROVE  TypeOK'
    <2>1. [by : {ws}, digest : candidates[ws]] \subseteq Job
      BY DEF TypeOK, Job
    <2>2. leaked' \subseteq Digest
      BY <1>4 DEF DeleteWorkspace, DigestsOf, TypeOK
    <2>3. releases' \subseteq [ws : live', version : STRING, digest : Digest]
      BY <1>4 DEF DeleteWorkspace, TypeOK
    <2>4. QED
      BY <1>4, <2>1, <2>2, <2>3 DEF DeleteWorkspace, TypeOK
  <1>5. ASSUME NEW ws \in Workspace, AbortDeletion(ws)
        PROVE  TypeOK'
    BY <1>5 DEF AbortDeletion, TypeOK
  <1>6. ASSUME NEW d \in Digest, LoseSession(d)
        PROVE  TypeOK'
    BY <1>6 DEF LoseSession, Fault, TypeOK
  <1>7. CASE UNCHANGED vars
    BY <1>7 DEF vars, TypeOK
  <1>8. QED
    BY <1>1, <1>2, <1>3, <1>4, <1>5, <1>6, <1>7 DEF Next

\* Tables, store, calls and jobs are always well formed.
THEOREM TypeCorrect == Spec => []TypeOK
  BY InitTyped, TypePreserved, PTL DEF Spec
-------------------------------------------------------------------------------
\* A process between its lock and its unlock holds the lock of its digest, unless
\* the session of that lock was lost.
LockHeld ==
  \A p \in Process : pc[p] \in {"put", "save", "check", "remove"} =>
    lock[DigestOf(p)] = p \/ DigestOf(p) \in unguarded

\* A reference is inserted after the upload, an object is removed after the check.
StoredFirst ==
  \A r \in Request : pc[r] = "save" => input[r].digest \in objects \cup unguarded

RemovalChecked ==
  \A p \in Process : pc[p] = "remove" =>
    ~ArtifactReferenced(DigestOf(p)) \/ DigestOf(p) \in unguarded

ReferenceInv == LockHeld /\ StoredFirst /\ RemovalChecked /\ NoDanglingReference

\* A key names one request, and a caller told of success has its key recorded for
\* as long as the workspace lives.
KeysUnique == \A j, k \in keys : j.ws = k.ws /\ j.key = k.key => j = k

Told(r) == answer[r] \in {"created", "replayed"}

ToldHasKey == \A r \in Request : Told(r) /\ input[r].ws \in live => input[r] \in keys

KeyInv == KeysUnique /\ ToldHasKey /\ KeyIsOneRelease

\* A recorded key has its release.
KeysHaveReleases ==
  \A k \in keys : [ws |-> k.ws, version |-> k.version, digest |-> k.digest] \in releases

\* A job is only made as the last act of its request or of its workspace, so that
\* no job comes back after it was retired.
Made(j) == /\ j.by \in Request => pc[j.by] = "answered"
           /\ j.by \in Workspace => j.by \notin live

JobsMade ==
  /\ \A j \in open \cup buried : Made(j)
  /\ \A w \in Worker : pc[w] # "idle" => Made(job[w])

\* A job for d that no worker is about to retire.
Pending(d) ==
  \E j \in open \cup buried :
    /\ j.digest = d
    /\ \A w \in Worker : pc[w] = "ack" => job[w] # j

Explained ==
  \A d \in objects : ArtifactReferenced(d) \/ InFlight(d) \/ Pending(d) \/ d \in leaked

OrphanInv == KeysHaveReleases /\ JobsMade /\ Explained

-------------------------------------------------------------------------------
\* What a step of one process does to what the invariants relate.
StepOf(p) ==
  \/ p \in Request /\ (StartPublish(p) \/ Publish(p) \/ Cancel(p) \/ CrashRequest(p))
  \/ p \in Worker /\ (Work(p) \/ CrashWorker(p))

Locked == {"put", "save", "check", "remove"}

\* The others keep their place, their digest and their call.
OthersStay(p) ==
  /\ UNCHANGED <<input, unguarded, live>>
  /\ \A q \in Process \ {p} : pc'[q] = pc[q] /\ DigestOf(q)' = DigestOf(q)

\* The lock is taken to get between lock and unlock, and given back to leave.
LockMoves(p) ==
  \/ /\ UNCHANGED lock
     /\ pc'[p] \in Locked => pc[p] \in Locked /\ DigestOf(p)' = DigestOf(p)
  \/ (Unlock(p) \/ FreeLock(p)) /\ pc'[p] \notin Locked
  \/ (Acquire(p, "put") \/ Acquire(p, "check")) /\ pc[p] # "idle" /\ DigestOf(p)' = DigestOf(p)

\* An object goes in the remove step only, a release comes in the save step only.
DataMoves(p) ==
  /\ \/ objects \subseteq objects'
     \/ pc[p] = "remove" /\ pc'[p] \notin Locked /\ objects' = objects \ {DigestOf(p)}
  /\ \/ releases' = releases
     \/ /\ p \in Request /\ pc[p] = "save" /\ pc'[p] \notin Locked
        /\ releases' = releases \cup {Release(p)}
  /\ p \in Request /\ pc'[p] = "save" => pc[p] = "save" \/ input[p].digest \in objects'
  /\ pc'[p] = "remove" =>
       /\ DigestOf(p)' = DigestOf(p)
       /\ pc[p] = "remove" \/ ~ArtifactReferenced(DigestOf(p))

\* The transaction that saves the release, and its failures, inside the lock.
LEMMA SaveStep ==
  ASSUME TypeOK, NEW r \in Request, Save(r)
  PROVE  OthersStay(r) /\ LockMoves(r) /\ DataMoves(r)
  <1> r \in Process /\ r \notin Worker
    BY DEF Process
  <1> USE DEF tables, calls, history
  <1>1. CASE SaveCreates(r)
    <2>1. OthersStay(r)
      BY <1>1 DEF SaveCreates, Insert, Ends, OthersStay, TypeOK, DigestOf, Process
    <2>2. pc'[r] \notin Locked
      BY <1>1 DEF SaveCreates, Ends, TypeOK, Locked
    <2>3. QED
      BY <1>1, <2>1, <2>2 DEF SaveCreates, Insert, LockMoves, DataMoves, Locked
  <1>2. CASE SaveReplays(r)
    <2>1. OthersStay(r)
      BY <1>2 DEF SaveReplays, Ends, OthersStay, TypeOK, DigestOf, Process
    <2>2. pc'[r] \notin Locked
      BY <1>2 DEF SaveReplays, Ends, TypeOK, Locked
    <2>3. QED
      BY <1>2, <2>1, <2>2 DEF SaveReplays, LockMoves, DataMoves, Locked
  <1>3. CASE SaveRejects(r) \/ SaveFails(r)
    <2>1. OthersStay(r)
      BY <1>3 DEF SaveRejects, SaveFails, Goto, OthersStay, TypeOK, DigestOf, Process
    <2>2. pc'[r] \notin Locked
      BY <1>3 DEF SaveRejects, SaveFails, Goto, TypeOK, Locked
    <2>3. QED
      BY <1>3, <2>1, <2>2 DEF SaveRejects, SaveFails, LockMoves, DataMoves, Locked
  <1>4. CASE SaveCommitUnknown(r)
    <2>1. OthersStay(r)
      BY <1>4 DEF SaveCommitUnknown, Insert, Goto, OthersStay, TypeOK, DigestOf, Process
    <2>2. pc'[r] \notin Locked
      BY <1>4 DEF SaveCommitUnknown, Goto, TypeOK, Locked
    <2>3. QED
      BY <1>4, <2>1, <2>2 DEF SaveCommitUnknown, Insert, LockMoves, DataMoves, Locked
  <1>5. QED
    BY <1>1, <1>2, <1>3, <1>4 DEF Save

\* The other steps of a request, its cancellation and its stop.
LEMMA UploadStep ==
  ASSUME TypeOK, NEW r \in Request,
         StartPublish(r) \/ Put(r) \/ PutFails(r) \/ EnqueueCleanup(r)
           \/ EnqueueCleanupFails(r) \/ Cancel(r) \/ CrashRequest(r)
  PROVE  OthersStay(r) /\ LockMoves(r) /\ DataMoves(r)
  <1> r \in Process /\ r \notin Worker
    BY DEF Process
  <1> USE DEF tables, calls, history
  <1>1. OthersStay(r)
    BY DEF StartPublish, Acquire, Put, PutFails, EnqueueCleanup, EnqueueCleanupFails, Cancel,
           CrashRequest, Goto, OthersStay, TypeOK, DigestOf, Process
  <1>2. CASE StartPublish(r)
    BY <1>1, <1>2 DEF StartPublish, Acquire, Goto, TypeOK, OthersStay, LockMoves, DataMoves,
                      DigestOf
  <1>3. CASE Put(r)
    BY <1>1, <1>3 DEF Put, Goto, TypeOK, OthersStay, LockMoves, DataMoves, DigestOf, Locked
  <1>4. CASE PutFails(r)
    BY <1>1, <1>4 DEF PutFails, Goto, TypeOK, LockMoves, DataMoves, Locked
  <1>5. CASE EnqueueCleanup(r) \/ EnqueueCleanupFails(r)
    BY <1>1, <1>5 DEF EnqueueCleanup, EnqueueCleanupFails, Goto, TypeOK, LockMoves, DataMoves,
                      Locked
  <1>6. CASE Cancel(r)
    BY <1>1, <1>6 DEF Cancel, OthersStay, LockMoves, DataMoves, DigestOf
  <1>7. CASE CrashRequest(r)
    BY <1>1, <1>7 DEF CrashRequest, Goto, TypeOK, LockMoves, DataMoves, Locked
  <1>8. QED
    BY <1>2, <1>3, <1>4, <1>5, <1>6, <1>7

\* The clean-up of a failed publication or of a worker's job.
LEMMA CleanupStep ==
  ASSUME TypeOK, NEW p \in Process, Cleanup(p)
  PROVE  OthersStay(p) /\ LockMoves(p) /\ DataMoves(p)
  <1> USE DEF tables, calls, history
  <1>1. UNCHANGED <<input, unguarded, live, job, releases>>
    BY DEF Cleanup, LockForCleanup, LockForCleanupFails, KeepReferenced, FindUnreferenced,
           RemoveObject, CheckOrRemoveFails
  <1>2. \A q \in Process : DigestOf(q)' = DigestOf(q)
    BY <1>1 DEF DigestOf
  <1>3. \E s \in {"check", "remove", Failed(p), Cleaned(p)} : Goto(p, s)
    BY EndsSomewhere DEF Cleanup, LockForCleanup, LockForCleanupFails, KeepReferenced,
       FindUnreferenced, RemoveObject, CheckOrRemoveFails, Acquire, Finish
  <1>4. OthersStay(p)
    BY <1>1, <1>2, <1>3 DEF OthersStay, Goto, TypeOK
  <1>5. {Failed(p), Cleaned(p)} \cap Locked = {} /\ "idle" \notin {Failed(p), Cleaned(p)}
    BY DEF Failed, Cleaned, Locked
  <1>6. ASSUME Finish(p) PROVE pc'[p] \in {Failed(p), Cleaned(p)}
    BY <1>6, EndsSomewhere DEF Finish, Goto, TypeOK
  <1>7. CASE LockForCleanup(p)
    BY <1>1, <1>2, <1>4, <1>7 DEF LockForCleanup, Acquire, Goto, TypeOK, LockMoves, DataMoves
  <1>8. CASE LockForCleanupFails(p)
    BY <1>1, <1>4, <1>5, <1>8 DEF LockForCleanupFails, Goto, TypeOK, LockMoves, DataMoves, Locked
  <1>9. CASE KeepReferenced(p)
    BY <1>1, <1>4, <1>5, <1>6, <1>9 DEF KeepReferenced, LockMoves, DataMoves, Locked
  <1>10. CASE FindUnreferenced(p)
    BY <1>1, <1>2, <1>4, <1>10 DEF FindUnreferenced, Goto, TypeOK, LockMoves, DataMoves, Locked
  <1>11. CASE RemoveObject(p)
    BY <1>1, <1>4, <1>5, <1>6, <1>11 DEF RemoveObject, LockMoves, DataMoves, Locked
  <1>12. CASE CheckOrRemoveFails(p)
    <2>1. pc'[p] = Failed(p)
      BY <1>12 DEF CheckOrRemoveFails, Goto, TypeOK
    <2>2. QED
      BY <1>1, <1>4, <1>5, <1>12, <2>1 DEF CheckOrRemoveFails, LockMoves, DataMoves, Locked
  <1>13. QED
    BY <1>7, <1>8, <1>9, <1>10, <1>11, <1>12 DEF Cleanup

\* What a worker does outside the clean-up moves no object and no reference.
LEMMA JobStep ==
  ASSUME TypeOK, NEW w \in Worker,
         Take(w) \/ Acknowledge(w) \/ Retry(w) \/ Bury(w) \/ MarkLost(w) \/ CrashWorker(w)
  PROVE  OthersStay(w) /\ LockMoves(w) /\ DataMoves(w)
  <1> w \in Process /\ w \notin Request
    BY DEF Process
  <1> USE DEF tables, calls, history
  <1>1. OthersStay(w)
    BY DEF Take, Acknowledge, Retry, Bury, MarkLost, CrashWorker, Rest, Goto, OthersStay, TypeOK,
           DigestOf, Process
  <1>2. pc'[w] \notin Locked
    BY DEF Take, Acknowledge, Retry, Bury, MarkLost, CrashWorker, Rest, Goto, TypeOK, Locked
  <1>3. UNCHANGED <<releases, objects>> /\ (UNCHANGED lock \/ FreeLock(w))
    BY DEF Take, Acknowledge, Retry, Bury, MarkLost, CrashWorker
  <1>4. QED
    BY <1>1, <1>2, <1>3 DEF LockMoves, DataMoves, Locked

\* Every step of a process is of that shape.
LEMMA ProcessStep ==
  ASSUME TypeOK, NEW p \in Process, StepOf(p)
  PROVE  OthersStay(p) /\ LockMoves(p) /\ DataMoves(p)
  BY SaveStep, UploadStep, CleanupStep, JobStep DEF StepOf, Publish, Work

\* A process at work has a digest.
LEMMA DigestTyped ==
  ASSUME TypeOK, NEW p \in Process, pc[p] # "idle"
  PROVE  DigestOf(p) \in Digest
  BY DEF TypeOK, DigestOf, Process, Job

\* The lock keeps its holder out of the way of every other process.
LEMMA LockPreserved ==
  ASSUME TypeOK, LockHeld, NEW p \in Process, OthersStay(p), LockMoves(p)
  PROVE  LockHeld'
  <1> SUFFICES ASSUME NEW q \in Process, pc'[q] \in Locked, DigestOf(q)' \notin unguarded
               PROVE  lock'[DigestOf(q)'] = q
    BY DEF LockHeld, Locked, OthersStay
  <1> q # Free
    OBVIOUS
  <1>1. CASE q # p
    <2>1. pc[q] \in Locked /\ DigestOf(q)' = DigestOf(q) /\ lock[DigestOf(q)] = q
      BY <1>1 DEF OthersStay, LockHeld, Locked
    <2>2. DigestOf(q) \in Digest
      BY <2>1, DigestTyped DEF Locked
    <2>3. QED
      BY <1>1, <2>1, <2>2 DEF LockMoves, Unlock, FreeLock, Acquire, TypeOK
  <1>2. CASE q = p
    <2>1. CASE UNCHANGED lock /\ pc[p] \in Locked /\ DigestOf(p)' = DigestOf(p)
      BY <1>2, <2>1 DEF LockHeld, Locked, OthersStay
    <2>2. CASE (Acquire(p, "put") \/ Acquire(p, "check")) /\ pc[p] # "idle"
               /\ DigestOf(p)' = DigestOf(p)
      BY <1>2, <2>2, DigestTyped DEF Acquire, TypeOK
    <2>3. QED
      BY <1>2, <2>1, <2>2 DEF LockMoves
  <1>3. QED
    BY <1>1, <1>2

\* Two processes inside the lock of one digest are the same one.
LEMMA Exclusion ==
  ASSUME LockHeld, NEW p \in Process, NEW q \in Process, pc[p] \in Locked, pc[q] \in Locked,
         DigestOf(p) = DigestOf(q), DigestOf(p) \notin unguarded
  PROVE  p = q
  BY DEF LockHeld, Locked

\* A process step removes no object in use and adds no reference to one that goes.
LEMMA DataPreserved ==
  ASSUME TypeOK, ReferenceInv, NEW p \in Process, OthersStay(p), DataMoves(p)
  PROVE  StoredFirst' /\ RemovalChecked' /\ NoDanglingReference'
  <1>1. \A d \in objects \ objects' :
          pc[p] = "remove" /\ pc'[p] \notin Locked /\ d = DigestOf(p)
    BY DEF DataMoves
  <1>2. \A rel \in releases' \ releases :
          /\ p \in Request /\ pc[p] = "save" /\ pc'[p] \notin Locked
          /\ rel.digest = DigestOf(p)
    BY DEF DataMoves, Release, DigestOf
  <1>3. unguarded' = unguarded /\ input' = input
    BY DEF OthersStay
  <1>4. StoredFirst'
    <2> SUFFICES ASSUME NEW r \in Request, pc'[r] = "save", input[r].digest \notin unguarded
                 PROVE  input[r].digest \in objects'
      BY <1>3 DEF StoredFirst
    <2> r \in Process /\ DigestOf(r) = input[r].digest
      BY DEF Process, DigestOf
    <2>1. CASE r = p /\ pc[p] # "save"
      BY <2>1 DEF DataMoves
    <2>2. CASE pc[r] = "save"
      <3>1. input[r].digest \in objects
        BY <2>2 DEF ReferenceInv, StoredFirst
      <3>2. input[r].digest \notin objects \ objects'
        BY <1>1, <2>2, Exclusion DEF ReferenceInv, Locked
      <3>3. QED
        BY <3>1, <3>2
    <2>3. QED
      BY <2>1, <2>2 DEF OthersStay
  <1>5. RemovalChecked'
    <2> SUFFICES ASSUME NEW q \in Process, pc'[q] = "remove", DigestOf(q)' \notin unguarded,
                        NEW rel \in releases', rel.digest = DigestOf(q)'
                 PROVE  FALSE
      BY <1>3 DEF RemovalChecked, ArtifactReferenced
    <2>1. DigestOf(q)' = DigestOf(q)
      BY DEF OthersStay, DataMoves
    <2>2. ~ArtifactReferenced(DigestOf(q))
      BY <2>1 DEF OthersStay, DataMoves, ReferenceInv, RemovalChecked
    <2>3. rel \in releases' \ releases
      BY <2>1, <2>2 DEF ArtifactReferenced
    <2>4. q # p /\ pc[q] = "remove"
      BY <1>2, <2>3 DEF OthersStay, Locked
    <2>5. QED
      BY <1>2, <2>1, <2>3, <2>4, Exclusion DEF ReferenceInv, Locked
  <1>6. NoDanglingReference'
    <2> SUFFICES ASSUME NEW rel \in releases', rel.digest \notin unguarded
                 PROVE  rel.digest \in objects'
      BY <1>3 DEF NoDanglingReference
    <2>1. CASE rel \in releases
      <3>1. rel.digest \in objects /\ ArtifactReferenced(rel.digest)
        BY <2>1 DEF ReferenceInv, NoDanglingReference, ArtifactReferenced
      <3>2. QED
        BY <1>1, <3>1 DEF ReferenceInv, RemovalChecked
    <2>2. CASE rel \notin releases
      <3>1. pc[p] = "save" /\ rel.digest = input[p].digest /\ p \in Request
        BY <1>2, <2>2 DEF DigestOf
      <3>2. rel.digest \in objects
        BY <3>1 DEF ReferenceInv, StoredFirst
      <3>3. QED
        BY <1>1, <3>1, <3>2
    <2>3. QED
      BY <2>1, <2>2
  <1>7. QED
    BY <1>4, <1>5, <1>6

\* Processes, deletions and lost sessions preserve the reference invariant.
LEMMA ReferencePreserved == TypeOK /\ ReferenceInv /\ [Next]_vars => ReferenceInv'
  <1> SUFFICES ASSUME TypeOK, ReferenceInv, [Next]_vars PROVE ReferenceInv'
    OBVIOUS
  <1> USE DEF tables, calls, history
  <1>1. ASSUME NEW p \in Process, StepOf(p) PROVE ReferenceInv'
    BY <1>1, ProcessStep, LockPreserved, DataPreserved DEF ReferenceInv
  <1>2. ASSUME NEW ws \in Workspace,
               ReadCandidates(ws) \/ DeleteWorkspace(ws) \/ AbortDeletion(ws)
        PROVE  ReferenceInv'
    <2>1. UNCHANGED <<pc, lock, input, job, objects, unguarded>> /\ releases' \subseteq releases
      BY <1>2 DEF ReadCandidates, DeleteWorkspace, AbortDeletion
    <2>2. \A p \in Process : DigestOf(p)' = DigestOf(p)
      BY <2>1 DEF DigestOf
    <2>3. QED
      BY <2>1, <2>2 DEF ReferenceInv, LockHeld, StoredFirst, RemovalChecked,
                        NoDanglingReference, ArtifactReferenced
  <1>3. ASSUME NEW d \in Digest, LoseSession(d) PROVE ReferenceInv'
    <2>1. UNCHANGED <<pc, input, job, objects, releases>> /\ unguarded' = unguarded \cup {d}
          /\ \A c \in Digest \ {d} : lock'[c] = lock[c]
      BY <1>3 DEF LoseSession, TypeOK
    <2>2. \A p \in Process : DigestOf(p)' = DigestOf(p)
      BY <2>1 DEF DigestOf
    <2>3. LockHeld'
      BY <2>1, <2>2, DigestTyped DEF ReferenceInv, LockHeld
    <2>4. QED
      BY <2>1, <2>2, <2>3 DEF ReferenceInv, StoredFirst, RemovalChecked, NoDanglingReference,
                              ArtifactReferenced
  <1>4. CASE UNCHANGED vars
    <2>1. \A p \in Process : DigestOf(p)' = DigestOf(p)
      BY <1>4 DEF DigestOf, vars
    <2>2. QED
      BY <1>4, <2>1 DEF vars, ReferenceInv, LockHeld, StoredFirst, RemovalChecked,
                        NoDanglingReference, ArtifactReferenced
  <1>5. QED
    BY <1>1, <1>2, <1>3, <1>4 DEF Next, StepOf, Process

\* Every committed release of a digest whose lock was never lost can be downloaded.
THEOREM ReferencesAreStored == Spec => []NoDanglingReference
  <1>1. Init => ReferenceInv
    BY DEF Init, ReferenceInv, LockHeld, StoredFirst, RemovalChecked, NoDanglingReference,
           Process
  <1>2. ReferenceInv => NoDanglingReference
    BY DEF ReferenceInv
  <1>3. QED
    BY <1>1, <1>2, TypeCorrect, ReferencePreserved, PTL DEF Spec

\* What OPERATIONS.md says of the clean-up ("only an unreferenced object is deleted"),
\* with the exception that the code needs: the lock of the digest lost its session.
RemovedUnlessUnguarded ==
  \A d \in objects \ objects' : ArtifactReferenced(d) => d \in unguarded

\* Whoever removes an object, in a clean-up, a job or an attempt that fails half-way,
\* removes one that nothing references at that moment, unless a session was lost: what
\* the check found is still true when the removal happens.
THEOREM RemovalsAreOfUnreferenced == Spec => [][RemovedUnlessUnguarded]_vars
  <1>1. ASSUME TypeOK, ReferenceInv, [Next]_vars
        PROVE  [RemovedUnlessUnguarded]_vars
    <2>1. ASSUME NEW p \in Process, StepOf(p) PROVE RemovedUnlessUnguarded
      <3>1. \A d \in objects \ objects' : pc[p] = "remove" /\ d = DigestOf(p)
        BY <1>1, <2>1, ProcessStep DEF DataMoves
      <3>2. QED
        BY <1>1, <3>1 DEF ReferenceInv, RemovalChecked, RemovedUnlessUnguarded
    <2>2. ASSUME NEW ws \in Workspace,
                 ReadCandidates(ws) \/ DeleteWorkspace(ws) \/ AbortDeletion(ws)
          PROVE  objects' = objects
      BY <2>2 DEF ReadCandidates, DeleteWorkspace, AbortDeletion
    <2>3. ASSUME NEW d \in Digest, LoseSession(d) PROVE objects' = objects
      BY <2>3 DEF LoseSession
    <2>4. objects' = objects => RemovedUnlessUnguarded
      BY DEF RemovedUnlessUnguarded
    <2>5. QED
      BY <1>1, <2>1, <2>2, <2>3, <2>4 DEF Next, StepOf, Process
  <1>2. Init => ReferenceInv
    BY DEF Init, ReferenceInv, LockHeld, StoredFirst, RemovalChecked, NoDanglingReference,
           Process
  <1>3. TypeOK /\ ReferenceInv /\ [Next]_vars => [RemovedUnlessUnguarded]_vars
    BY <1>1
  <1>4. QED
    BY <1>2, <1>3, TypeCorrect, ReferencePreserved, PTL DEF Spec

-------------------------------------------------------------------------------
\* Apart from an insertion, a replay and a deletion, no step tells a caller of
\* success or touches what success rests on.
Silent ==
  /\ UNCHANGED <<live, releases, keys, input>>
  /\ \A r \in Request : Told(r)' => answer'[r] = answer[r]

\* Every step is silent, a replay, an insertion or a deletion.
LEMMA SilentSteps ==
  ASSUME TypeOK, [Next]_vars
  PROVE  \/ Silent
         \/ \E r \in Request : SaveReplays(r) \/ SaveCreates(r) \/ SaveCommitUnknown(r)
         \/ \E ws \in Workspace : DeleteWorkspace(ws)
  <1> USE DEF tables, calls, Silent, Told
  <1>1. ASSUME NEW p \in Process, Cleanup(p) PROVE Silent
    <2>1. UNCHANGED <<live, releases, keys, input>>
      BY <1>1 DEF Cleanup, LockForCleanup, LockForCleanupFails, KeepReferenced,
                  FindUnreferenced, RemoveObject, CheckOrRemoveFails
    <2>2. UNCHANGED answer \/ answer' = [answer EXCEPT ![p] = "failed"]
      BY <1>1 DEF Cleanup, LockForCleanup, LockForCleanupFails, KeepReferenced,
                  FindUnreferenced, RemoveObject, CheckOrRemoveFails, Finish
    <2>3. QED
      BY <2>1, <2>2 DEF TypeOK
  <1>2. ASSUME NEW r \in Request,
               \/ StartPublish(r) \/ Put(r) \/ PutFails(r) \/ SaveRejects(r) \/ SaveFails(r)
               \/ EnqueueCleanup(r) \/ EnqueueCleanupFails(r) \/ Cancel(r) \/ CrashRequest(r)
        PROVE  Silent
    BY <1>2 DEF StartPublish, Put, PutFails, SaveRejects, SaveFails, EnqueueCleanup,
                EnqueueCleanupFails, Cancel, CrashRequest, TypeOK
  <1>3. ASSUME NEW w \in Worker,
               \/ Take(w) \/ Acknowledge(w) \/ Retry(w) \/ Bury(w) \/ MarkLost(w)
               \/ CrashWorker(w)
        PROVE  Silent
    BY <1>3 DEF Take, Acknowledge, Retry, Bury, MarkLost, CrashWorker
  <1>4. ASSUME NEW ws \in Workspace, ReadCandidates(ws) \/ AbortDeletion(ws) PROVE Silent
    BY <1>4 DEF ReadCandidates, AbortDeletion
  <1>5. ASSUME NEW d \in Digest, LoseSession(d) PROVE Silent
    BY <1>5 DEF LoseSession
  <1>6. CASE UNCHANGED vars
    BY <1>6 DEF vars
  <1>7. QED
    BY <1>1, <1>2, <1>3, <1>4, <1>5, <1>6 DEF Next, Publish, Save, Work, Process

\* Every step preserves what a key stands for.
LEMMA KeyPreserved == TypeOK /\ KeyInv /\ [Next]_vars => KeyInv'
  <1> SUFFICES ASSUME TypeOK, KeyInv, [Next]_vars PROVE KeyInv'
    OBVIOUS
  <1> USE DEF tables, calls
  <1>1. CASE Silent
    <2>1. \A r \in Request : Told(r)' => Told(r) /\ answer'[r] = answer[r]
      BY <1>1 DEF Silent, Told
    <2>2. KeysUnique' /\ ToldHasKey'
      BY <1>1, <2>1 DEF Silent, KeyInv, KeysUnique, ToldHasKey
    <2>3. KeyIsOneRelease'
      BY <1>1, <2>1 DEF Silent, KeyInv, KeyIsOneRelease, Told
    <2>4. QED
      BY <2>2, <2>3 DEF KeyInv
  <1>2. ASSUME NEW r \in Request, SaveReplays(r) PROVE KeyInv'
    <2>1. /\ UNCHANGED <<live, keys, input>> /\ input[r] \in keys
          /\ \A q \in Request \ {r} : answer'[q] = answer[q]
          /\ answer'[r] \in {answer[r], "replayed"}
      BY <1>2 DEF SaveReplays, Replays, KeyRows, TypeOK
    <2>2. KeysUnique' /\ ToldHasKey'
      BY <2>1 DEF KeyInv, KeysUnique, ToldHasKey, Told
    <2>3. ASSUME NEW q \in Request, q # r, Told(q), input[q].ws = input[r].ws,
                 input[q].key = input[r].key
          PROVE  input[q] = input[r]
      BY <2>1, <2>3 DEF KeyInv, KeysUnique, ToldHasKey, TypeOK
    <2>4. KeyIsOneRelease'
      BY <2>1, <2>3 DEF KeyInv, KeyIsOneRelease, Told
    <2>5. QED
      BY <2>2, <2>4 DEF KeyInv
  <1>3. ASSUME NEW r \in Request, SaveCreates(r) \/ SaveCommitUnknown(r) PROVE KeyInv'
    <2>1. /\ UNCHANGED <<live, input>> /\ keys' = keys \cup {input[r]}
          /\ KeyRows(r) = {} /\ input[r].ws \in live
          /\ \A q \in Request \ {r} : answer'[q] = answer[q]
          /\ answer'[r] \in {answer[r], "created"}
      BY <1>3 DEF SaveCreates, SaveCommitUnknown, Insertable, Insert, TypeOK
    <2>2. \A k \in keys : ~(k.ws = input[r].ws /\ k.key = input[r].key)
      BY <2>1 DEF KeyRows
    <2>3. KeysUnique' /\ ToldHasKey'
      BY <2>1, <2>2 DEF KeyInv, KeysUnique, ToldHasKey, Told
    <2>4. \A q \in Request : Told(q) => ~(input[q].ws = input[r].ws /\ input[q].key = input[r].key)
      BY <2>1, <2>2 DEF KeyInv, ToldHasKey
    <2>5. KeyIsOneRelease'
      BY <2>1, <2>4 DEF KeyInv, KeyIsOneRelease, Told
    <2>6. QED
      BY <2>3, <2>5 DEF KeyInv
  <1>4. ASSUME NEW ws \in Workspace, DeleteWorkspace(ws) PROVE KeyInv'
    <2>1. /\ UNCHANGED <<input, answer>> /\ live' = live \ {ws}
          /\ keys' = {k \in keys : k.ws # ws}
      BY <1>4 DEF DeleteWorkspace
    <2>2. QED
      BY <2>1 DEF KeyInv, KeysUnique, ToldHasKey, KeyIsOneRelease, Told
  <1>5. QED
    BY <1>1, <1>2, <1>3, <1>4, SilentSteps

\* An idempotency key stands for one release: whoever succeeds with it is told of the
\* same release, and one of them at most created it.
THEOREM KeysAreOneRelease == Spec => []KeyIsOneRelease
  <1>1. Init => KeyInv
    BY DEF Init, KeyInv, KeysUnique, ToldHasKey, KeyIsOneRelease, Told
  <1>2. KeyInv => KeyIsOneRelease
    BY DEF KeyInv
  <1>3. QED
    BY <1>1, <1>2, TypeCorrect, KeyPreserved, PTL DEF Spec

-------------------------------------------------------------------------------
\* Every recorded key keeps its release: both come and go together.
LEMMA KeysHaveReleasesPreserved ==
  TypeOK /\ KeysHaveReleases /\ [Next]_vars => KeysHaveReleases'
  <1> SUFFICES ASSUME TypeOK, KeysHaveReleases, [Next]_vars PROVE KeysHaveReleases'
    OBVIOUS
  <1> USE DEF tables, calls
  <1>1. CASE Silent
    BY <1>1 DEF Silent, KeysHaveReleases
  <1>2. ASSUME NEW r \in Request, SaveReplays(r) PROVE KeysHaveReleases'
    BY <1>2 DEF SaveReplays, KeysHaveReleases
  <1>3. ASSUME NEW r \in Request, SaveCreates(r) \/ SaveCommitUnknown(r)
        PROVE  KeysHaveReleases'
    BY <1>3 DEF SaveCreates, SaveCommitUnknown, Insert, Release, KeysHaveReleases
  <1>4. ASSUME NEW ws \in Workspace, DeleteWorkspace(ws) PROVE KeysHaveReleases'
    BY <1>4 DEF DeleteWorkspace, KeysHaveReleases
  <1>5. QED
    BY <1>1, <1>2, <1>3, <1>4, SilentSteps

\* An answered request never moves again.
LEMMA AnsweredIsFinal ==
  ASSUME NEW r \in Request, StepOf(r)
  PROVE  pc[r] # "answered"
  BY DEF StepOf, Publish, Cancel, CrashRequest, StartPublish, Put, PutFails, Save, SaveCreates,
         SaveReplays, SaveRejects, SaveFails, SaveCommitUnknown, Cleanup, LockForCleanup,
         LockForCleanupFails, KeepReferenced, FindUnreferenced, RemoveObject,
         CheckOrRemoveFails, EnqueueCleanup, EnqueueCleanupFails, Process

\* Steps that neither make nor take a job.
LEMMA JobsStay ==
  ASSUME TypeOK, NEW p \in Process, StepOf(p),
         p \in Request => ~EnqueueCleanup(p), p \in Worker => ~Take(p)
  PROVE  /\ open' \cup buried' \subseteq open \cup buried \cup {job[w] : w \in Worker \cap {p}}
         /\ p \in Worker => pc[p] # "idle"
         /\ \A w \in Worker : pc'[w] # "idle" => pc[w] # "idle" /\ job'[w] = job[w]
  <1> USE DEF outbox, calls
  <1>1. ASSUME UNCHANGED <<open, buried, job>>, p \in Worker => pc[p] # "idle"
        PROVE  /\ open' \cup buried' \subseteq open \cup buried
               /\ \A w \in Worker : pc'[w] # "idle" => pc[w] # "idle" /\ job'[w] = job[w]
    BY <1>1, ProcessStep DEF OthersStay, Process
  <1>2. CASE p \in Request
    <2>1. UNCHANGED <<open, buried, job>>
      BY <1>2 DEF StepOf, Publish, StartPublish, Put, PutFails, EnqueueCleanupFails, Cancel,
                  CrashRequest, Save, SaveCreates, SaveReplays, SaveRejects, SaveFails,
                  SaveCommitUnknown, Cleanup, LockForCleanup, LockForCleanupFails,
                  KeepReferenced, FindUnreferenced, RemoveObject, CheckOrRemoveFails
    <2>2. QED
      BY <1>1, <1>2, <2>1
  <1>3. CASE p \in Worker /\ Cleanup(p)
    <2>1. UNCHANGED <<open, buried, job>> /\ pc[p] # "idle"
      BY <1>3 DEF Cleanup, LockForCleanup, LockForCleanupFails, KeepReferenced,
                  FindUnreferenced, RemoveObject, CheckOrRemoveFails
    <2>2. QED
      BY <1>1, <2>1
  <1>4. CASE p \in Worker /\ (Acknowledge(p) \/ Retry(p) \/ Bury(p) \/ MarkLost(p) \/ CrashWorker(p))
    <2>1. Rest(p) /\ pc[p] # "idle"
      BY <1>4 DEF Acknowledge, Retry, Bury, MarkLost, CrashWorker
    <2>2. open' \cup buried' \subseteq open \cup buried \cup {job[p]}
      BY <1>4 DEF Acknowledge, Retry, Bury, MarkLost, CrashWorker
    <2>3. \A w \in Worker : pc'[w] # "idle" => pc[w] # "idle" /\ job'[w] = job[w]
      BY <1>4, <2>1 DEF Rest, Goto, TypeOK, Process
    <2>4. QED
      BY <1>4, <2>1, <2>2, <2>3
  <1>5. QED
    BY <1>2, <1>3, <1>4 DEF StepOf, Work, Process

\* Every job was made by a request or a workspace that makes no more.
LEMMA JobsPreserved == TypeOK /\ JobsMade /\ [Next]_vars => JobsMade'
  <1> SUFFICES ASSUME TypeOK, JobsMade, [Next]_vars PROVE JobsMade'
    OBVIOUS
  <1> USE DEF outbox, calls, tables
  <1>1. ASSUME NEW p \in Process, StepOf(p), NEW j, Made(j) PROVE Made(j)'
    <2>1. j.by \in Request => pc'[j.by] = "answered"
      BY <1>1, AnsweredIsFinal, ProcessStep DEF Made, OthersStay, Process
    <2>2. UNCHANGED live
      BY <1>1, ProcessStep DEF OthersStay
    <2>3. QED
      BY <1>1, <2>1, <2>2 DEF Made
  <1>2. ASSUME NEW r \in Request, EnqueueCleanup(r) PROVE JobsMade'
    <2>1. StepOf(r) /\ r \in Process
      BY <1>2 DEF StepOf, Publish, Process
    <2>2. pc' = [pc EXCEPT ![r] = "answered"] /\ UNCHANGED <<buried, job>>
          /\ open' = open \cup {[by |-> r, digest |-> input[r].digest]}
      BY <1>2 DEF EnqueueCleanup, Goto
    <2>3. ASSUME NEW j, j.by = r PROVE Made(j)'
      <3>1. pc'[r] = "answered" /\ r \notin Workspace
        BY <2>2 DEF TypeOK, Process
      <3>2. QED
        BY <2>3, <3>1 DEF Made
    <2>4. \A w \in Worker : pc'[w] # "idle" => pc[w] # "idle"
      BY <2>2 DEF TypeOK, Process
    <2>5. QED
      BY <1>1, <2>1, <2>2, <2>3, <2>4 DEF JobsMade
  <1>3. ASSUME NEW w \in Worker, Take(w) PROVE JobsMade'
    <2>1. StepOf(w) /\ w \in Process
      BY <1>3 DEF StepOf, Work, Process
    <2>2. PICK j \in open : job' = [job EXCEPT ![w] = j]
      BY <1>3 DEF Take
    <2>3. UNCHANGED <<open, buried>> /\ pc' = [pc EXCEPT ![w] = "cleanup"]
      BY <1>3 DEF Take, Goto
    <2>4. \A v \in Worker \ {w} : pc'[v] = pc[v] /\ job'[v] = job[v]
      BY <2>2, <2>3 DEF TypeOK, Process
    <2>5. job'[w] = j
      BY <2>2 DEF TypeOK
    <2>6. QED
      BY <1>1, <2>1, <2>2, <2>3, <2>4, <2>5 DEF JobsMade
  <1>4. ASSUME NEW p \in Process, StepOf(p),
               p \in Request => ~EnqueueCleanup(p), p \in Worker => ~Take(p)
        PROVE  JobsMade'
    BY <1>1, <1>4, JobsStay DEF JobsMade
  <1>5. ASSUME NEW ws \in Workspace,
               ReadCandidates(ws) \/ DeleteWorkspace(ws) \/ AbortDeletion(ws)
        PROVE  JobsMade'
    <2>1. live' \subseteq live /\ UNCHANGED <<pc, job>>
      BY <1>5 DEF ReadCandidates, DeleteWorkspace, AbortDeletion
    <2>2. \A j \in (open' \cup buried') \ (open \cup buried) : j.by = ws /\ ws \notin live'
      BY <1>5 DEF ReadCandidates, DeleteWorkspace, AbortDeletion
    <2>3. QED
      BY <2>1, <2>2 DEF JobsMade, Made
  <1>6. CASE UNCHANGED vars \/ \E d \in Digest : LoseSession(d)
    BY <1>6 DEF vars, LoseSession, JobsMade, Made
  <1>7. QED
    BY <1>2, <1>3, <1>4, <1>5, <1>6 DEF Next, StepOf, Process

\* A job that is pending stays so if it is kept and no worker gets to its retirement.
LEMMA PendingStays ==
  ASSUME NEW d, Pending(d),
         \A j \in open \cup buried :
           (\A w \in Worker : pc[w] = "ack" => job[w] # j) => j \in open' \cup buried',
         \A w \in Worker : pc'[w] = "ack" => pc[w] = "ack" /\ job'[w] = job[w]
  PROVE  Pending(d)'
  BY DEF Pending

\* A request in flight that did not move is in flight still.
LEMMA InFlightStays ==
  ASSUME NEW d, NEW p, OthersStay(p), InFlight(d), p \in Request => input[p].digest # d
  PROVE  InFlight(d)'
  <1>1. PICK r \in Request :
          input[r].digest = d /\ pc[r] \in {"save", "cleanup", "check", "remove", "enqueue"}
    BY DEF InFlight
  <1>2. pc'[r] = pc[r] /\ input' = input
    BY <1>1 DEF OthersStay, Process
  <1>3. QED
    BY <1>1, <1>2 DEF InFlight

\* A save turns an upload into a reference, or keeps it in flight for the clean-up.
LEMMA SaveExplained ==
  ASSUME TypeOK, Explained, KeysHaveReleases, NEW r \in Request, Save(r)
  PROVE  Explained'
  <1> USE DEF tables, calls, history, outbox
  <1>. PICK dr : dr = input[r].digest
    OBVIOUS
  <1>1. OthersStay(r) /\ r \in Process /\ r \notin Worker
    BY SaveStep DEF Process
  <1>2. UNCHANGED <<objects, open, buried, job, leaked>> /\ releases \subseteq releases'
    BY DEF Save, SaveCreates, SaveReplays, SaveRejects, SaveFails, SaveCommitUnknown, Insert
  <1>3. \A w \in Worker : pc'[w] = pc[w]
    BY <1>1 DEF OthersStay, Process
  <1>4. ASSUME NEW d \in objects', ArtifactReferenced(d) \/ Pending(d)
        PROVE  ArtifactReferenced(d)' \/ Pending(d)'
    BY <1>2, <1>3, <1>4, PendingStays DEF ArtifactReferenced
  <1>5. ArtifactReferenced(dr)' \/ InFlight(dr)'
    <2>1. CASE SaveCreates(r) \/ SaveCommitUnknown(r)
      <3>1. Release(r) \in releases' /\ Release(r).digest = dr
        BY <2>1 DEF SaveCreates, SaveCommitUnknown, Insert, Release
      <3>2. QED
        BY <3>1 DEF ArtifactReferenced
    <2>2. CASE SaveReplays(r)
      <3>1. input[r] \in keys /\ releases' = releases
        BY <2>2 DEF SaveReplays, Replays, KeyRows
      <3>2. QED
        BY <3>1 DEF KeysHaveReleases, ArtifactReferenced
    <2>3. CASE SaveRejects(r) \/ SaveFails(r)
      <3>1. pc'[r] = "cleanup" /\ input' = input
        BY <2>3 DEF SaveRejects, SaveFails, Goto, TypeOK, Process
      <3>2. QED
        BY <3>1 DEF InFlight
    <2>4. QED
      BY <2>1, <2>2, <2>3 DEF Save
  <1>6. QED
    BY <1>1, <1>2, <1>4, <1>5, InFlightStays DEF Explained

\* An upload is in flight, and what ends it without a save leaves a job or a leak.
LEMMA UploadExplained ==
  ASSUME TypeOK, Explained, JobsMade, NEW r \in Request,
         StartPublish(r) \/ Put(r) \/ PutFails(r) \/ EnqueueCleanup(r)
           \/ EnqueueCleanupFails(r) \/ Cancel(r) \/ CrashRequest(r)
  PROVE  Explained'
  <1> USE DEF tables, calls, history, outbox
  <1>. PICK dr : dr = input[r].digest
    OBVIOUS
  <1>1. OthersStay(r) /\ r \in Process /\ r \notin Worker
    BY UploadStep DEF Process
  <1>2. UNCHANGED <<buried, job, releases, input>> /\ open \subseteq open' /\ leaked \subseteq leaked'
        /\ objects' \subseteq objects \cup {dr}
    BY DEF StartPublish, Put, PutFails, EnqueueCleanup, EnqueueCleanupFails, Cancel, CrashRequest
  <1>3. \A w \in Worker : pc'[w] = pc[w]
    BY <1>1 DEF OthersStay, Process
  <1>4. ASSUME NEW d \in objects', ArtifactReferenced(d) \/ Pending(d) \/ d \in leaked
        PROVE  ArtifactReferenced(d)' \/ Pending(d)' \/ d \in leaked'
    BY <1>2, <1>3, <1>4, PendingStays DEF ArtifactReferenced
  <1>5. \/ dr \in objects' => dr \in objects /\ (InFlight(dr) => InFlight(dr)')
        \/ InFlight(dr)' \/ dr \in leaked' \/ Pending(dr)'
    <2>1. CASE Put(r)
      <3>1. pc'[r] = "save" /\ input' = input
        BY <1>1, <2>1 DEF Put, Goto, TypeOK
      <3>2. QED
        BY <3>1 DEF InFlight
    <2>2. CASE \/ StartPublish(r) \/ PutFails(r) \/ Cancel(r)
               \/ CrashRequest(r) /\ dr \notin leaked'
      <3>1. \/ pc[r] \in {"new", "put"}
            \/ pc' = pc
        BY <2>2 DEF StartPublish, PutFails, Cancel, CrashRequest
      <3>2. \A q \in Request : pc[q] \in {"save", "cleanup", "check", "remove", "enqueue"}
              => pc'[q] = pc[q]
        BY <1>1, <3>1 DEF OthersStay, Process
      <3>3. InFlight(dr) => InFlight(dr)'
        BY <1>2, <3>2 DEF InFlight
      <3>4. objects' = objects \/ dr \in leaked'
        BY <2>2 DEF StartPublish, PutFails, Cancel, CrashRequest
      <3>5. QED
        BY <3>3, <3>4
    <2>3. CASE EnqueueCleanup(r)
      <3>1. [by |-> r, digest |-> dr] \in open' /\ pc[r] = "enqueue"
        BY <2>3 DEF EnqueueCleanup
      <3>2. ASSUME NEW w \in Worker, pc'[w] = "ack", job'[w] = [by |-> r, digest |-> dr]
            PROVE  FALSE
        BY <1>2, <1>3, <3>1, <3>2 DEF JobsMade, Made
      <3>3. Pending(dr)'
        BY <3>1, <3>2 DEF Pending
      <3>4. QED
        BY <3>3
    <2>4. CASE EnqueueCleanupFails(r)
      BY <2>4 DEF EnqueueCleanupFails
    <2>5. QED
      BY <2>1, <2>2, <2>3, <2>4
  <1>6. ASSUME NEW d \in objects', d # dr
        PROVE  ArtifactReferenced(d)' \/ InFlight(d)' \/ Pending(d)' \/ d \in leaked'
    BY <1>1, <1>2, <1>4, <1>6, InFlightStays DEF Explained
  <1>7. dr \in objects' =>
          ArtifactReferenced(dr)' \/ InFlight(dr)' \/ Pending(dr)' \/ dr \in leaked'
    BY <1>4, <1>5 DEF Explained
  <1>8. QED
    BY <1>6, <1>7 DEF Explained

\* A clean-up that succeeds leaves a referenced object or none; one that fails goes on.
LEMMA CleanupExplained ==
  ASSUME TypeOK, Explained, NEW p \in Process, Cleanup(p)
  PROVE  Explained'
  <1> USE DEF tables, calls, history, outbox
  <1>. PICK dp : dp = DigestOf(p)
    OBVIOUS
  <1>1. OthersStay(p)
    BY CleanupStep
  <1>2. /\ UNCHANGED <<open, buried, job, releases, input>> /\ objects' \subseteq objects
        /\ \A d \in objects' : d \in leaked => d \in leaked'
    BY DEF Cleanup, LockForCleanup, LockForCleanupFails, KeepReferenced, FindUnreferenced,
           RemoveObject, CheckOrRemoveFails
  <1>3. \/ ArtifactReferenced(dp)' \/ dp \notin objects'
        \/ pc'[p] \in {"check", "remove", "enqueue", "nack"}
    BY EndsSomewhere
       DEF Cleanup, LockForCleanup, LockForCleanupFails, KeepReferenced, FindUnreferenced,
           RemoveObject, CheckOrRemoveFails, Acquire, Goto, Failed, TypeOK, ArtifactReferenced
  <1>4. p \in Request => pc'[p] # "nack"
    BY CleanupTyped DEF TypeOK, RequestSteps
  <1>5. ASSUME NEW d \in objects', d # dp, Pending(d) PROVE Pending(d)'
    <2>1. PICK j \in open \cup buried :
            j.digest = d /\ \A w \in Worker : pc[w] = "ack" => job[w] # j
      BY <1>5 DEF Pending
    <2>2. \A w \in Worker : pc'[w] = "ack" => job[w] # j
      BY <1>1, <1>5, <2>1 DEF OthersStay, DigestOf, Process
    <2>3. QED
      BY <1>2, <2>1, <2>2 DEF Pending
  <1>6. ASSUME dp \in objects', pc'[p] \in {"check", "remove", "enqueue", "nack"}
        PROVE  ArtifactReferenced(dp)' \/ InFlight(dp)' \/ Pending(dp)' \/ dp \in leaked'
    <2>1. CASE p \in Request
      BY <1>2, <1>4, <1>6, <2>1 DEF InFlight, DigestOf
    <2>2. CASE p \in Worker
      <3>1. \A w \in Worker : pc'[w] = "ack" => pc[w] = "ack" /\ job'[w] = job[w]
        BY <1>1, <1>2, <1>6 DEF OthersStay, Process
      <3>2. Pending(dp) => Pending(dp)'
        BY <1>2, <3>1, PendingStays
      <3>3. InFlight(dp) => InFlight(dp)'
        BY <1>1, <2>2, InFlightStays
      <3>4. QED
        BY <1>2, <1>6, <3>2, <3>3 DEF Explained, ArtifactReferenced
    <2>3. QED
      BY <2>1, <2>2 DEF Process
  <1>7. ASSUME NEW d \in objects', d # dp
        PROVE  ArtifactReferenced(d)' \/ InFlight(d)' \/ Pending(d)' \/ d \in leaked'
    <2>1. InFlight(d) => InFlight(d)'
      BY <1>1, <1>7, InFlightStays DEF DigestOf
    <2>2. QED
      BY <1>2, <1>5, <1>7, <2>1 DEF Explained, ArtifactReferenced
  <1>8. QED
    BY <1>3, <1>6, <1>7 DEF Explained

\* A worker retires a job only after the clean-up that the job asks for.
LEMMA JobExplained ==
  ASSUME TypeOK, Explained, NEW w \in Worker,
         Take(w) \/ Acknowledge(w) \/ Retry(w) \/ Bury(w) \/ MarkLost(w) \/ CrashWorker(w)
  PROVE  Explained'
  <1> USE DEF tables, calls, history, outbox
  <1>1. OthersStay(w) /\ w \notin Request /\ w \in Process
    BY JobStep DEF Process
  <1>2. UNCHANGED <<objects, releases, leaked>>
    BY DEF Take, Acknowledge, Retry, Bury, MarkLost, CrashWorker
  <1>3. pc'[w] # "ack" /\ \A v \in Worker \ {w} : job'[v] = job[v]
    <2>1. CASE Take(w)
      BY <1>1, <2>1 DEF Take, Goto, TypeOK
    <2>2. CASE Rest(w)
      BY <1>1, <2>2 DEF Rest, Goto, TypeOK
    <2>3. QED
      BY <2>1, <2>2 DEF Acknowledge, Retry, Bury, MarkLost, CrashWorker
  <1>4. \A v \in Worker : pc'[v] = "ack" => pc[v] = "ack" /\ job'[v] = job[v]
    BY <1>1, <1>3 DEF OthersStay, Process
  <1>5. \A j \in open \cup buried :
          (\A v \in Worker : pc[v] = "ack" => job[v] # j) => j \in open' \cup buried'
    BY DEF Take, Acknowledge, Retry, Bury, MarkLost, CrashWorker
  <1>6. \A d : Pending(d) => Pending(d)'
    BY <1>4, <1>5, PendingStays
  <1>7. \A d : InFlight(d) => InFlight(d)'
    BY <1>1, InFlightStays
  <1>8. QED
    BY <1>2, <1>6, <1>7 DEF Explained, ArtifactReferenced

\* A deletion makes a fresh job, or a leak, for each reference that it drops.
LEMMA DeletionExplained ==
  ASSUME TypeOK, Explained, JobsMade, NEW ws \in Workspace,
         ReadCandidates(ws) \/ DeleteWorkspace(ws) \/ AbortDeletion(ws)
  PROVE  Explained'
  <1> USE DEF tables, calls, history, outbox
  <1>1. UNCHANGED <<pc, job, objects, input, buried>> /\ open \subseteq open' /\ leaked \subseteq leaked'
    BY DEF ReadCandidates, DeleteWorkspace, AbortDeletion
  <1>2. \A d : InFlight(d) => InFlight(d)'
    BY <1>1 DEF InFlight
  <1>3. \A d : Pending(d) => Pending(d)'
    BY <1>1, PendingStays
  <1>4. ASSUME NEW d, ArtifactReferenced(d)
        PROVE  ArtifactReferenced(d)' \/ Pending(d)' \/ d \in leaked'
    <2>1. CASE ReadCandidates(ws) \/ AbortDeletion(ws)
      BY <1>4, <2>1 DEF ReadCandidates, AbortDeletion, ArtifactReferenced
    <2>2. CASE DeleteWorkspace(ws)
      <3>1. PICK rel \in releases : rel.digest = d
        BY <1>4 DEF ArtifactReferenced
      <3>2. CASE rel.ws # ws
        BY <2>2, <3>1, <3>2 DEF DeleteWorkspace, ArtifactReferenced
      <3>3. CASE rel.ws = ws /\ d \in candidates[ws]
        <4>1. [by |-> ws, digest |-> d] \in open' /\ ws \in live
          BY <2>2, <3>3 DEF DeleteWorkspace, TypeOK
        <4>2. ASSUME NEW w \in Worker, pc'[w] = "ack", job'[w] = [by |-> ws, digest |-> d]
              PROVE  FALSE
          BY <1>1, <4>1, <4>2 DEF JobsMade, Made
        <4>3. QED
          BY <4>1, <4>2 DEF Pending
      <3>4. CASE rel.ws = ws /\ d \notin candidates[ws]
        BY <2>2, <3>1, <3>4 DEF DeleteWorkspace, DigestsOf
      <3>5. QED
        BY <3>2, <3>3, <3>4
    <2>3. QED
      BY <2>1, <2>2
  <1>5. QED
    BY <1>1, <1>2, <1>3, <1>4 DEF Explained

\* No step loses track of an object.
LEMMA ExplainedPreserved ==
  TypeOK /\ OrphanInv /\ [Next]_vars => Explained'
  <1> SUFFICES ASSUME TypeOK, OrphanInv, [Next]_vars PROVE Explained'
    OBVIOUS
  <1> USE DEF OrphanInv
  <1>1. ASSUME NEW r \in Request, StartPublish(r) \/ Publish(r) \/ Cancel(r) \/ CrashRequest(r)
        PROVE  Explained'
    BY <1>1, SaveExplained, UploadExplained, CleanupExplained DEF Publish, Process
  <1>2. ASSUME NEW w \in Worker, Work(w) \/ CrashWorker(w) PROVE Explained'
    BY <1>2, JobExplained, CleanupExplained DEF Work, Process
  <1>3. CASE UNCHANGED vars \/ \E d \in Digest : LoseSession(d)
    BY <1>3 DEF vars, LoseSession, tables, calls, outbox, history, Explained, Pending,
                ArtifactReferenced, InFlight
  <1>4. QED
    BY <1>1, <1>2, <1>3, DeletionExplained DEF Next

\* An object that nothing references is in flight, has a job, or leaked in one of the
\* known ways: no interleaving and no fault loses track of it otherwise.
THEOREM OrphansExplained == Spec => []OrphansAreExplained
  <1>1. Init => OrphanInv
    BY DEF Init, OrphanInv, KeysHaveReleases, JobsMade, Explained, Process
  <1>2. TypeOK /\ OrphanInv /\ [Next]_vars => OrphanInv'
    BY KeysHaveReleasesPreserved, JobsPreserved, ExplainedPreserved DEF OrphanInv
  <1>3. OrphanInv => OrphansAreExplained
    BY DEF OrphanInv, Explained, Pending, OrphansAreExplained, HasJob
  <1>4. QED
    BY <1>1, <1>2, <1>3, TypeCorrect, PTL DEF Spec

================================================================================
