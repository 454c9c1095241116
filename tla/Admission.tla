------------------------------- MODULE Admission -------------------------------
(***************************************************************************)
(* What a request passes before its handler does anything, and what it     *)
(* occupies while it does: the rate limit of the client's address, and the *)
(* connections of the replica's pool.  With PostgreSQL the replicas count  *)
(* requests in a table, one row per address and minute of the clock, and   *)
(* the limiter itself needs a connection; without it one server counts in  *)
(* memory, in a minute that begins with whoever comes first.               *)
(*                                                                         *)
(* Most handlers use one connection at a time, for a statement or for a    *)
(* transaction, and give it back whatever happens: they appear here as one *)
(* query.  Two do not.  A device list keeps its connection while it reads  *)
(* the packages of each device over another.  A publication keeps the      *)
(* connection of its digest lock, and has it while it still waits for the  *)
(* lock, and saves its release over another.  What the locked operations   *)
(* do is in ArtifactLifecycle.                                             *)
(***************************************************************************)
EXTENDS Naturals, FiniteSets

CONSTANTS Replica,       (* processes of the server                         *)
          Request,       (* requests, each sent once or not at all          *)
          Input,         (* the handler, address, replica, digest of each   *)
          Address,       (* client addresses                                *)
          Digest,        (* digests that are locked                         *)
          PoolSize,      (* connections of a replica                        *)
          Limit,         (* requests per address and minute                 *)
          Minute,        (* ticks of the clock in a minute                  *)
          MaxTime,       (* bound: the clock                                *)
          MaxFaults,     (* bound: failures and clients that go away        *)
          Stores,        (* the stores considered                           *)
          Nobody         (* no session has the lock                         *)

VARIABLES store,         (* where the data is                               *)
          now,           (* the clock                                       *)
          counts,        (* per address: requests counted in the window     *)
          window,        (* the start of the window                         *)
          step,          (* per request: what it does next                  *)
          held,          (* per request: it keeps a connection              *)
          lock,          (* per digest: whose session has its lock          *)
          admitted,      (* history: per request: when it was let in        *)
          faults         (* faults so far                                   *)

limiter == <<counts, window, admitted>>
vars == <<store, now, limiter, step, held, lock, faults>>

Kinds == {"query", "list", "publish"}

ASSUME InputAssumption ==
  Input \in [Request -> [kind : Kinds, address : Address, replica : Replica, digest : Digest]]
ASSUME BoundsAssumption ==
  /\ PoolSize \in Nat \ {0} /\ Limit \in Nat \ {0} /\ Minute \in Nat \ {0}
  /\ MaxTime \in Nat /\ MaxFaults \in Nat
ASSUME RequestAssumption == IsFiniteSet(Request)
ASSUME StoresAssumption == Stores \subseteq {"postgres", "file"} /\ Nobody \notin Request

Init ==
  /\ store \in Stores
  /\ now = 0
  /\ counts = [a \in Address |-> 0]
  /\ window = 0
  /\ step = [r \in Request |-> "new"]
  /\ held = [r \in Request |-> FALSE]
  /\ lock = [d \in Digest |-> Nobody]
  /\ admitted = [r \in Request |-> MaxTime + 1]
  /\ faults = 0

Fault == faults < MaxFaults /\ faults' = faults + 1

-------------------------------------------------------------------------------
(* The pool and the locks.                                                 *)

\* Connections of a replica that nobody has.
Idle(rep) == PoolSize - Cardinality({r \in Request : Input[r].replica = rep /\ held[r]})

\* A connection can be had, or none is needed.
Connected(r) == store = "postgres" => Idle(Input[r].replica) > 0

Goto(r, s) == step' = [step EXCEPT ![r] = s]

\* pool.Acquire, or rows that stay open.
Take(r) == Connected(r) /\ held' = [held EXCEPT ![r] = TRUE]

MutGiveBack(r) == held' = [held EXCEPT ![r] = FALSE] /\ UNCHANGED lock

\* The deferred calls: the lock is released with its own context, the connection
\* goes back to the pool.
GiveBack(r) ==
  /\ held' = [held EXCEPT ![r] = FALSE]
  /\ lock' = [d \in Digest |-> IF lock[d] = r THEN Nobody ELSE lock[d]]

-------------------------------------------------------------------------------
(* The limiter.                                                            *)

MutStart == now

\* The window of a request: the minute of the clock, or the one in memory, which
\* starts anew with the first request that comes a minute after its start.
Start ==
  IF store = "postgres" THEN now - (now % Minute)
  ELSE IF now - window >= Minute THEN now ELSE window

\* What the address has in this window; rows of older windows are never read again.
Counted(a) == IF Start = window THEN counts[a] ELSE 0

\* The upsert and its answer, or the same under the mutex.
Count(r) ==
  /\ step[r] = "new"
  /\ Connected(r)
  /\ counts' = [a \in Address |-> Counted(a) + IF a = Input[r].address THEN 1 ELSE 0]
  /\ window' = Start
  /\ IF counts'[Input[r].address] <= Limit
       THEN Goto(r, "counted") /\ admitted' = [admitted EXCEPT ![r] = now]
       ELSE Goto(r, "done") /\ UNCHANGED admitted
  /\ UNCHANGED <<store, now, held, lock, faults>>

\* The authorization, one query; without PostgreSQL no handler uses a pool.
Authorize(r) ==
  /\ step[r] = "counted"
  /\ Connected(r)
  /\ Goto(r, IF store = "file" THEN "done" ELSE Input[r].kind)
  /\ UNCHANGED <<store, now, limiter, held, lock, faults>>

-------------------------------------------------------------------------------
(* What handlers occupy.                                                   *)

Query(r) ==
  /\ step[r] = "query"
  /\ Connected(r)
  /\ Goto(r, "done")
  /\ UNCHANGED <<store, now, limiter, held, lock, faults>>

OpenList(r) ==
  /\ step[r] = "list"
  /\ Take(r)
  /\ Goto(r, "nested")
  /\ UNCHANGED <<store, now, limiter, lock, faults>>

\* installedPackages asks the pool again while the rows of the list are open.
ReadPackages(r) ==
  /\ step[r] = "nested"
  /\ Connected(r)
  /\ GiveBack(r)
  /\ Goto(r, "done")
  /\ UNCHANGED <<store, now, limiter, faults>>

\* WithArtifactReferenceLock takes its connection, for the publication and again
\* for the clean-up of a failed one.
TakeSession(r) ==
  \E s \in {<<"publish", "lock">>, <<"cleanup", "relock">>} :
    /\ step[r] = s[1]
    /\ Take(r)
    /\ Goto(r, s[2])
    /\ UNCHANGED <<store, now, limiter, lock, faults>>

\* pg_advisory_lock: it waits on the connection it will keep.
TakeLock(r) ==
  \E s \in {<<"lock", "save">>, <<"relock", "check">>} :
    /\ step[r] = s[1]
    /\ lock[Input[r].digest] = Nobody
    /\ lock' = [lock EXCEPT ![Input[r].digest] = r]
    /\ Goto(r, s[2])
    /\ UNCHANGED <<store, now, limiter, held, faults>>

\* The upload and the transaction of the release, which may fail.
SaveRelease(r) ==
  /\ step[r] = "save"
  /\ Connected(r)
  /\ GiveBack(r)
  /\ \/ Goto(r, "done") /\ UNCHANGED faults
     \/ Goto(r, "cleanup") /\ Fault
  /\ UNCHANGED <<store, now, limiter>>

\* ArtifactReferenced, and the removal.
Check(r) ==
  /\ step[r] = "check"
  /\ Connected(r)
  /\ GiveBack(r)
  /\ Goto(r, "done")
  /\ UNCHANGED <<store, now, limiter, faults>>

\* The client goes away while its request waits: the wait returns an error, and
\* so does the clean-up that would follow.
Cancel(r) ==
  /\ step[r] \notin {"new", "done"}
  /\ Fault
  /\ GiveBack(r)
  /\ Goto(r, "done")
  /\ UNCHANGED <<store, now, limiter>>

\* Bound: the clock stands still once every request has come.
Tick ==
  /\ now < MaxTime
  /\ \E r \in Request : step[r] = "new"
  /\ now' = now + 1
  /\ UNCHANGED <<store, limiter, step, held, lock, faults>>

-------------------------------------------------------------------------------
Handle(r) ==
  \/ Authorize(r) \/ Query(r) \/ OpenList(r) \/ ReadPackages(r)
  \/ TakeSession(r) \/ TakeLock(r) \/ SaveRelease(r) \/ Check(r)

Next == Tick \/ \E r \in Request : Count(r) \/ Handle(r) \/ Cancel(r)

\* The pool serves those who wait for a connection in turn, and so does
\* PostgreSQL those who wait for a lock.
Fairness == \A r \in Request : SF_vars(Handle(r))

Spec == Init /\ [][Next]_vars /\ Fairness

-------------------------------------------------------------------------------
(* Properties.                                                             *)

\* Wherever a minute begins, no address has more than twice the limit admitted
\* in it, by all replicas together: the boundary of two windows lies in it, never
\* two boundaries.
BurstIsBounded ==
  \A a \in Address, t \in 0..MaxTime :
    Cardinality({r \in Request : /\ Input[r].address = a
                                 /\ t <= admitted[r] /\ admitted[r] < t + Minute
                                 /\ admitted[r] <= MaxTime}) <= 2 * Limit

\* The requests that were let in end, and leave the locks and connections they
\* had, unless all connections of some replica are in the hands of requests that
\* need a second one or the lock of one that does: nothing but that makes the
\* server hang, and fewer such requests than connections never do.
Serving == {r \in Request : step[r] \notin {"new", "done"}}

EndsUnlessExhausted ==
  Serving # {} ~> (Serving = {} \/ \E rep \in Replica : Idle(rep) = 0)
================================================================================
