-------------------------------- MODULE Outbox --------------------------------
(***************************************************************************)
(* The PostgreSQL outbox and the workers that drain it, one worker for     *)
(* each server replica.  A row is committed together with the mutation     *)
(* that made it; a worker claims a batch of available rows (one UPDATE ... *)
(* RETURNING that counts an attempt and pushes available_at five minutes   *)
(* ahead), runs the handler of each and marks the row processed, failed    *)
(* (available again later) or dead-lettered.  The marks are unconditional  *)
(* updates by id: a worker that overran its lease still writes them.       *)
(*                                                                         *)
(* Time is abstracted: available_at <= clock_timestamp() is membership of  *)
(* the set due, and Elapse lets the lease or the retry delay of a row run  *)
(* out at any moment, so a worker may be slower than its lease.            *)
(***************************************************************************)
EXTENDS Naturals, FiniteSets

CONSTANTS Event,        (* the rows that can be enqueued                    *)
          Worker,       (* replicas, each with one worker loop              *)
          Batch,        (* LIMIT of a claim (50 in the code)                *)
          MaxAttempts,  (* attempts before a dead letter (8 in the code)    *)
          MaxFaults,    (* bound: crashes, lost claims and lost marks       *)
          NoEvent       (* a worker with no event at hand                   *)

ASSUME BatchAssumption == Batch \in Nat \ {0}
ASSUME MaxAttemptsAssumption == MaxAttempts \in Nat \ {0}
ASSUME MaxFaultsAssumption == MaxFaults \in Nat
ASSUME NoEventAssumption == NoEvent \notin Event
ASSUME WorkerAssumption == IsFiniteSet(Worker)

VARIABLES enqueued,     (* rows committed to the table                      *)
          attempts,     (* column attempts                                  *)
          processed,    (* rows with processed_at set                       *)
          dead,         (* rows with dead_lettered_at set                   *)
          due,          (* unretired rows with available_at in the past     *)
          todo,         (* per worker: claimed events not handled yet       *)
          seen,         (* per worker: attempts as returned by its claim    *)
          current,      (* per worker: the event handled, not marked yet    *)
          outcome,      (* per worker: what the handler of current returned *)
          delivered,    (* events whose handler returned nil at least once  *)
          faults        (* infrastructure faults so far                     *)

rows == <<enqueued, attempts, processed, dead, due>>
loops == <<todo, seen, current, outcome>>
vars == <<rows, loops, delivered, faults>>

Outcomes == {"none", "ok", "error"}

Init ==
  /\ enqueued = {}
  /\ attempts = [e \in Event |-> 0]
  /\ processed = {}
  /\ dead = {}
  /\ due = {}
  /\ todo = [w \in Worker |-> {}]
  /\ seen = [w \in Worker |-> [e \in Event |-> 0]]
  /\ current = [w \in Worker |-> NoEvent]
  /\ outcome = [w \in Worker |-> "none"]
  /\ delivered = {}
  /\ faults = 0

Retired == processed \cup dead

\* The events worker w took in its last claim and has not marked.
Held(w) == todo[w] \cup ({current[w]} \ {NoEvent})

Idle(w) == todo[w] = {} /\ current[w] = NoEvent

Fault == faults < MaxFaults /\ faults' = faults + 1

\* OutboxRepo.Enqueue inside the mutation's transaction, once it commits.
Enqueue(e) ==
  /\ e \notin enqueued
  /\ enqueued' = enqueued \cup {e}
  /\ due' = due \cup {e}
  /\ UNCHANGED <<attempts, processed, dead, loops, delivered, faults>>

\* available_at of an unretired row passes: lease or backoff is over.
MutElapseBelowLimit(e) ==
  /\ e \in enqueued \ (Retired \cup due)
  /\ attempts[e] < MaxAttempts
  /\ due' = due \cup {e}
  /\ UNCHANGED <<enqueued, attempts, processed, dead, loops, delivered, faults>>

Elapse(e) ==
  /\ e \in enqueued \ (Retired \cup due)
  /\ due' = due \cup {e}
  /\ UNCHANGED <<enqueued, attempts, processed, dead, loops, delivered, faults>>

\* Rows another worker's mark may have locked: SKIP LOCKED passes them by.
Lockable(w) == {current[v] : v \in Worker \ {w}} \cap due

\* The candidates CTE: as many available rows as LIMIT allows.
Candidates(w, S) ==
  \E skipped \in SUBSET Lockable(w) :
    /\ S \subseteq due \ skipped
    /\ \/ Cardinality(S) = Batch
       \/ Cardinality(S) < Batch /\ S = due \ skipped

MutClaimRowsNoCount(S) ==
  /\ due' = due \ S
  /\ UNCHANGED <<enqueued, attempts, processed, dead>>

\* The UPDATE of the claim: one more attempt and a lease on each row of S.
ClaimRows(S) ==
  /\ attempts' = [e \in Event |-> IF e \in S THEN attempts[e] + 1 ELSE attempts[e]]
  /\ due' = due \ S
  /\ UNCHANGED <<enqueued, processed, dead>>

Claim(w) ==
  /\ Idle(w)
  /\ \E S \in SUBSET due \ {{}} :
       /\ Candidates(w, S)
       /\ ClaimRows(S)
       /\ todo' = [todo EXCEPT ![w] = S]
       /\ seen' = [seen EXCEPT ![w] = [e \in Event |-> IF e \in S THEN attempts'[e] ELSE 0]]
  /\ UNCHANGED <<current, outcome, delivered, faults>>

\* The claim commits and its result never reaches the worker: connection or
\* context lost while the rows are read.
ClaimLost(w) ==
  /\ Idle(w)
  /\ Fault
  /\ \E S \in SUBSET due \ {{}} : Candidates(w, S) /\ ClaimRows(S)
  /\ UNCHANGED <<loops, delivered>>

\* w.Handler for the next event of the batch, in any order of the batch.
Handle(w) ==
  /\ current[w] = NoEvent
  /\ \E e \in todo[w], result \in {"ok", "error"} :
       /\ todo' = [todo EXCEPT ![w] = @ \ {e}]
       /\ current' = [current EXCEPT ![w] = e]
       /\ outcome' = [outcome EXCEPT ![w] = result]
       /\ delivered' = IF result = "ok" THEN delivered \cup {e} ELSE delivered
  /\ UNCHANGED <<rows, seen, faults>>

\* The worker goes on to the next event of its batch.
Proceed(w) ==
  /\ current' = [current EXCEPT ![w] = NoEvent]
  /\ outcome' = [outcome EXCEPT ![w] = "none"]
  /\ UNCHANGED <<todo, seen, delivered>>

MutExhausted(w) == seen[w][current[w]] > MaxAttempts

MutExhaustedEarly(w) == seen[w][current[w]] + 1 >= MaxAttempts

\* event.Attempts >= maxAttempts, on the attempts the claim returned.
Exhausted(w) == seen[w][current[w]] >= MaxAttempts

MarkProcessed(w) ==
  /\ outcome[w] = "ok"
  /\ processed' = processed \cup {current[w]}
  /\ due' = due \ {current[w]}
  /\ Proceed(w)
  /\ UNCHANGED <<enqueued, attempts, dead, faults>>

MarkFailed(w) ==
  /\ outcome[w] = "error"
  /\ ~Exhausted(w)
  /\ due' = due \ {current[w]}
  /\ Proceed(w)
  /\ UNCHANGED <<enqueued, attempts, processed, dead, faults>>

MutMarkDeadLetter(w) ==
  /\ outcome[w] = "error"
  /\ Exhausted(w)
  /\ dead' = dead \cup {current[w]}
  /\ Proceed(w)
  /\ UNCHANGED <<enqueued, attempts, processed, due, faults>>

MarkDeadLetter(w) ==
  /\ outcome[w] = "error"
  /\ Exhausted(w)
  /\ dead' = dead \cup {current[w]}
  /\ due' = due \ {current[w]}
  /\ Proceed(w)
  /\ UNCHANGED <<enqueued, attempts, processed, faults>>

Mark(w) == MarkProcessed(w) \/ MarkFailed(w) \/ MarkDeadLetter(w)

\* The mark fails: it is logged, the row keeps its lease, the loop goes on.
MarkLost(w) ==
  /\ current[w] # NoEvent
  /\ Fault
  /\ Proceed(w)
  /\ UNCHANGED rows

\* The replica stops before its marks; its next loop starts with no batch.
Crash(w) ==
  /\ ~Idle(w)
  /\ Fault
  /\ todo' = [todo EXCEPT ![w] = {}]
  /\ current' = [current EXCEPT ![w] = NoEvent]
  /\ outcome' = [outcome EXCEPT ![w] = "none"]
  /\ UNCHANGED <<rows, seen, delivered>>

Next ==
  \/ \E e \in Event : Enqueue(e) \/ Elapse(e)
  \/ \E w \in Worker : Claim(w) \/ ClaimLost(w) \/ Handle(w) \/ Mark(w)
                         \/ MarkLost(w) \/ Crash(w)

\* The clock runs; every live worker polls once a second, its handlers
\* return and its statements complete.  Faults and mutations owe nothing.
Fairness ==
  /\ \A e \in Event : WF_vars(Elapse(e))
  /\ \A w \in Worker : WF_vars(Claim(w)) /\ WF_vars(Handle(w)) /\ WF_vars(Mark(w))

Spec == Init /\ [][Next]_vars

FairSpec == Spec /\ Fairness

-------------------------------------------------------------------------------
\* The columns and the loops are well formed: only committed rows are claimed,
\* a retired row is never available, an event at hand has left the batch.
TypeOK ==
  /\ enqueued \subseteq Event
  /\ attempts \in [Event -> Nat]
  /\ processed \subseteq enqueued
  /\ dead \subseteq enqueued
  /\ due \subseteq enqueued \ Retired
  /\ todo \in [Worker -> SUBSET enqueued]
  /\ seen \in [Worker -> [Event -> Nat]]
  /\ current \in [Worker -> enqueued \cup {NoEvent}]
  /\ outcome \in [Worker -> Outcomes]
  /\ \A w \in Worker : /\ current[w] \notin todo[w]
                       /\ current[w] = NoEvent <=> outcome[w] = "none"
  /\ delivered \subseteq enqueued
  /\ faults \in 0 .. MaxFaults

\* Two workers that hold the same event hold it from different claims: a row is
\* claimed by one replica only, and again only when its lease is over.
DistinctClaims ==
  \A v, w \in Worker : \A e \in Held(v) \cap Held(w) :
    v # w => seen[v][e] # seen[w][e]

\* The retry limit bounds the attempts in spite of overrun leases and of workers
\* that stop: past the limit there is at most one claim for each other worker
\* and for each fault, since any of them that reports retires the event.
RetryLimit ==
  \A e \in Event : attempts[e] < MaxAttempts + Cardinality(Worker) + faults

\* The outbox keeps the promise of AtLeastOnce: no attempt starts after a row is
\* retired, processed_at is set only on a delivered event, dead_lettered_at only
\* after MaxAttempts attempts, and neither is ever taken back.
Promise == INSTANCE AtLeastOnce
             WITH Limit <- MaxAttempts, accepted <- enqueued, tries <- attempts,
                  acked <- processed, abandoned <- dead

KeepsPromise == Promise!Spec

\* Every committed row is eventually processed or dead-lettered, whatever worker
\* claimed it and stopped.
EventuallyRetired == \A e \in Event : e \in enqueued ~> e \in Retired
===============================================================================
