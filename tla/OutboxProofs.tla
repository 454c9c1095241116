------------------------------ MODULE OutboxProofs ------------------------------
(***************************************************************************)
(* Proofs about Outbox for any set of rows and replicas, any batch size,   *)
(* retry limit and number of faults.                                       *)
(***************************************************************************)
EXTENDS Outbox, FiniteSetTheorems, TLAPS

\* A claim in a worker's hands carries a positive attempt number that no later
\* claim of the row has, and the newest claim's number is the row's column.
ClaimsCounted ==
  \A w \in Worker : \A e \in Held(w) :
    seen[w][e] > 0 /\ seen[w][e] <= attempts[e]

\* A worker about to mark a row processed has seen its handler succeed.
OutcomeIsReal ==
  \A w \in Worker : outcome[w] = "ok" => current[w] \in delivered

IInv == TypeOK /\ ClaimsCounted /\ DistinctClaims /\ OutcomeIsReal

\* The initial state satisfies the inductive invariant.
LEMMA InitInvariant == Init => IInv
  BY NoEventAssumption, MaxFaultsAssumption
  DEF Init, IInv, TypeOK, ClaimsCounted, DistinctClaims, OutcomeIsReal, Held, Retired,
      Outcomes

\* What the UPDATE of a claim does to the columns it writes.
LEMMA ClaimRowsEffect ==
  ASSUME TypeOK, NEW S \in SUBSET due, ClaimRows(S)
  PROVE  /\ attempts' \in [Event -> Nat]
         /\ \A e \in Event : attempts[e] <= attempts'[e]
         /\ \A e \in S : attempts'[e] = attempts[e] + 1
         /\ due' = due \ S
         /\ enqueued' = enqueued /\ processed' = processed /\ dead' = dead
  BY DEF TypeOK, ClaimRows, Retired

\* Every step preserves the well-formedness of columns and loops.
LEMMA TypePreserved == TypeOK /\ [Next]_vars => TypeOK'
  <1> SUFFICES ASSUME TypeOK, [Next]_vars PROVE TypeOK'
    OBVIOUS
  <1> USE NoEventAssumption, MaxFaultsAssumption
  <1>1. CASE \E e \in Event : Enqueue(e)
    BY <1>1 DEF Enqueue, TypeOK, Retired, loops
  <1>2. CASE \E e \in Event : Elapse(e)
    BY <1>2 DEF Elapse, TypeOK, Retired, loops
  <1>3. ASSUME NEW w \in Worker, Claim(w) PROVE TypeOK'
    <2>1. PICK S \in SUBSET due \ {{}} :
            /\ ClaimRows(S)
            /\ todo' = [todo EXCEPT ![w] = S]
            /\ seen' = [seen EXCEPT ![w] = [e \in Event |-> IF e \in S THEN attempts'[e] ELSE 0]]
      BY <1>3 DEF Claim
    <2>2. attempts' \in [Event -> Nat]
      BY <2>1, ClaimRowsEffect
    <2>3. seen' \in [Worker -> [Event -> Nat]]
      BY <2>1, <2>2 DEF TypeOK
    <2>4. UNCHANGED <<enqueued, processed, dead, current, outcome, delivered, faults>>
      BY <1>3, <2>1 DEF Claim, ClaimRows
    <2>5. todo' \in [Worker -> SUBSET enqueued] /\ due' \subseteq enqueued \ Retired
      BY <2>1, ClaimRowsEffect DEF TypeOK
    <2>6. \A v \in Worker : current[v] \notin todo'[v]
      BY <1>3, <2>1, NoEventAssumption DEF Claim, Idle, TypeOK
    <2>7. QED
      BY <2>2, <2>3, <2>4, <2>5, <2>6 DEF TypeOK, Retired
  <1>4. ASSUME NEW w \in Worker, ClaimLost(w) PROVE TypeOK'
    <2>1. PICK S \in SUBSET due \ {{}} : ClaimRows(S)
      BY <1>4 DEF ClaimLost
    <2>2. attempts' \in [Event -> Nat] /\ due' \subseteq due
          /\ UNCHANGED <<enqueued, processed, dead>>
      BY <2>1, ClaimRowsEffect
    <2>3. faults' \in 0 .. MaxFaults /\ UNCHANGED <<todo, seen, current, outcome, delivered>>
      BY <1>4 DEF ClaimLost, Fault, TypeOK, loops
    <2>4. QED
      BY <2>2, <2>3 DEF TypeOK, Retired
  <1>5. ASSUME NEW w \in Worker, Handle(w) PROVE TypeOK'
    BY <1>5 DEF Handle, TypeOK, Retired, rows, Outcomes
  <1>6. ASSUME NEW w \in Worker, Mark(w) PROVE TypeOK'
    <2>1. CASE MarkProcessed(w)
      BY <2>1 DEF MarkProcessed, Proceed, TypeOK, Retired, Outcomes
    <2>2. CASE MarkFailed(w)
      BY <2>2 DEF MarkFailed, Proceed, TypeOK, Retired, Outcomes
    <2>3. CASE MarkDeadLetter(w)
      BY <2>3 DEF MarkDeadLetter, Proceed, TypeOK, Retired, Outcomes
    <2>4. QED
      BY <1>6, <2>1, <2>2, <2>3 DEF Mark
  <1>7. ASSUME NEW w \in Worker, MarkLost(w) PROVE TypeOK'
    BY <1>7 DEF MarkLost, Fault, Proceed, TypeOK, Retired, Outcomes, rows
  <1>8. ASSUME NEW w \in Worker, Crash(w) PROVE TypeOK'
    BY <1>8 DEF Crash, Fault, TypeOK, Retired, Outcomes, rows
  <1>9. CASE UNCHANGED vars
    BY <1>9 DEF vars, rows, loops, TypeOK, Retired
  <1> QED
    BY <1>1, <1>2, <1>3, <1>4, <1>5, <1>6, <1>7, <1>8, <1>9 DEF Next

\* The columns and the worker loops are always well formed.
THEOREM TypeCorrect == Spec => []TypeOK
  <1>1. Init => TypeOK
    BY InitInvariant DEF IInv
  <1>2. QED
    BY <1>1, TypePreserved, PTL DEF Spec

\* A step other than a claim leaves the attempt numbers alone and hands no worker
\* an event it did not hold.
LEMMA OtherStepsShrinkHeld ==
  ASSUME TypeOK, NEW w \in Worker, Handle(w) \/ Mark(w) \/ MarkLost(w) \/ Crash(w)
  PROVE  /\ attempts' = attempts /\ seen' = seen
         /\ \A v \in Worker : Held(v)' \subseteq Held(v)
  <1> USE NoEventAssumption DEF Held, TypeOK
  <1>1. CASE Handle(w)
    BY <1>1 DEF Handle, rows
  <1>2. CASE Mark(w)
    BY <1>2 DEF Mark, MarkProcessed, MarkFailed, MarkDeadLetter, Proceed
  <1>3. CASE MarkLost(w)
    BY <1>3 DEF MarkLost, Proceed, rows
  <1>4. CASE Crash(w)
    BY <1>4 DEF Crash, rows
  <1>5. QED
    BY <1>1, <1>2, <1>3, <1>4

\* The attempt numbers stay positive, bounded by their column, and distinct.
LEMMA ClaimsPreserved ==
  TypeOK /\ TypeOK' /\ ClaimsCounted /\ DistinctClaims /\ [Next]_vars
    => ClaimsCounted' /\ DistinctClaims'
  <1> SUFFICES ASSUME TypeOK, TypeOK', ClaimsCounted, DistinctClaims, [Next]_vars
               PROVE  ClaimsCounted' /\ DistinctClaims'
    OBVIOUS
  <1>1. ASSUME attempts' = attempts, seen' = seen,
               \A v \in Worker : Held(v)' \subseteq Held(v)
        PROVE  ClaimsCounted' /\ DistinctClaims'
    BY <1>1 DEF ClaimsCounted, DistinctClaims
  <1>2. CASE \E e \in Event : Enqueue(e) \/ Elapse(e)
    BY <1>1, <1>2 DEF Enqueue, Elapse, loops, Held
  <1>3. ASSUME NEW w \in Worker, Claim(w)
        PROVE  ClaimsCounted' /\ DistinctClaims'
    <2>1. PICK S \in SUBSET due \ {{}} :
            /\ ClaimRows(S)
            /\ todo' = [todo EXCEPT ![w] = S]
            /\ seen' = [seen EXCEPT ![w] = [e \in Event |-> IF e \in S THEN attempts'[e] ELSE 0]]
      BY <1>3 DEF Claim
    <2>2. /\ \A e \in Event : attempts[e] <= attempts'[e]
          /\ \A e \in S : attempts'[e] = attempts[e] + 1
      BY <2>1, ClaimRowsEffect
    <2>3. S \subseteq Event /\ current' = current
      BY <1>3 DEF TypeOK, Claim
    <2>4. Held(w)' = S /\ \A e \in S : seen'[w][e] = attempts[e] + 1
      BY <1>3, <2>1, <2>2, <2>3, NoEventAssumption DEF Held, Claim, Idle, TypeOK
    <2>5. \A v \in Worker \ {w} : Held(v)' = Held(v) /\ seen'[v] = seen[v]
      BY <2>1, <2>3 DEF Held, TypeOK
    <2>6. \A v \in Worker : Held(v) \subseteq Event
      BY NoEventAssumption DEF Held, TypeOK
    <2>7. ClaimsCounted'
      <3> SUFFICES ASSUME NEW v \in Worker, NEW e \in Held(v)'
                   PROVE  seen'[v][e] > 0 /\ seen'[v][e] <= attempts'[e]
        BY DEF ClaimsCounted
      <3>1. CASE v = w
        BY <3>1, <2>2, <2>3, <2>4 DEF TypeOK
      <3>2. CASE v # w
        <4>1. e \in Held(v) /\ e \in Event /\ seen'[v][e] = seen[v][e]
          BY <3>2, <2>5, <2>6
        <4>2. /\ seen[v][e] \in Nat /\ attempts[e] \in Nat /\ attempts'[e] \in Nat
              /\ attempts[e] <= attempts'[e]
          BY <4>1, <2>2 DEF TypeOK
        <4>3. QED
          BY <4>1, <4>2 DEF ClaimsCounted
      <3>3. QED
        BY <3>1, <3>2
    <2>8. DistinctClaims'
      <3> SUFFICES ASSUME NEW u \in Worker, NEW v \in Worker, u # v,
                          NEW e \in Held(u)' \cap Held(v)'
                   PROVE  seen'[u][e] # seen'[v][e]
        BY DEF DistinctClaims
      <3>1. \A x \in Worker \ {w} :
              e \in Held(x)' => e \in Event /\ seen'[x][e] = seen[x][e] /\ seen[x][e] <= attempts[e]
        BY <2>5, <2>6 DEF ClaimsCounted
      <3>2. \A x \in Worker : e \in Event => seen[x][e] \in Nat /\ attempts[e] \in Nat
        BY DEF TypeOK
      <3>3. CASE u = w
        BY <3>1, <3>2, <3>3, <2>4
      <3>4. CASE v = w
        BY <3>1, <3>2, <3>4, <2>4
      <3>5. CASE u # w /\ v # w
        BY <3>5, <2>5 DEF DistinctClaims
      <3>6. QED
        BY <3>3, <3>4, <3>5
    <2>9. QED
      BY <2>7, <2>8
  <1>4. ASSUME NEW w \in Worker, ClaimLost(w)
        PROVE  ClaimsCounted' /\ DistinctClaims'
    <2>1. PICK S \in SUBSET due \ {{}} : ClaimRows(S)
      BY <1>4 DEF ClaimLost
    <2>2. \A e \in Event : attempts[e] <= attempts'[e] /\ attempts'[e] \in Nat
      BY <2>1, ClaimRowsEffect
    <2>3. seen' = seen /\ \A v \in Worker : Held(v)' = Held(v)
      BY <1>4 DEF ClaimLost, loops, Held
    <2>4. \A v \in Worker : Held(v) \subseteq Event
      BY NoEventAssumption DEF Held, TypeOK
    <2>5. ClaimsCounted'
      <3> SUFFICES ASSUME NEW v \in Worker, NEW e \in Held(v)
                   PROVE  seen[v][e] > 0 /\ seen[v][e] <= attempts'[e]
        BY <2>3 DEF ClaimsCounted
      <3>1. e \in Event /\ seen[v][e] \in Nat /\ attempts[e] \in Nat
        BY <2>4 DEF TypeOK
      <3>2. QED
        BY <3>1, <2>2 DEF ClaimsCounted
    <2>6. DistinctClaims'
      BY <2>3 DEF DistinctClaims
    <2>7. QED
      BY <2>5, <2>6
  <1>5. ASSUME NEW w \in Worker, Handle(w) \/ Mark(w) \/ MarkLost(w) \/ Crash(w)
        PROVE  ClaimsCounted' /\ DistinctClaims'
    BY <1>1, <1>5, OtherStepsShrinkHeld
  <1>6. CASE UNCHANGED vars
    BY <1>1, <1>6 DEF vars, rows, loops, Held
  <1>7. QED
    BY <1>2, <1>3, <1>4, <1>5, <1>6 DEF Next

\* Only a handler that succeeded makes a worker's outcome ok.
LEMMA OutcomePreserved ==
  TypeOK /\ OutcomeIsReal /\ [Next]_vars => OutcomeIsReal'
  <1> SUFFICES ASSUME TypeOK, OutcomeIsReal, [Next]_vars PROVE OutcomeIsReal'
    OBVIOUS
  <1> USE DEF OutcomeIsReal, TypeOK
  <1>1. ASSUME UNCHANGED <<current, outcome, delivered>> PROVE OutcomeIsReal'
    BY <1>1
  <1>2. CASE \E e \in Event : Enqueue(e) \/ Elapse(e)
    BY <1>1, <1>2 DEF Enqueue, Elapse, loops
  <1>3. ASSUME NEW w \in Worker, Claim(w) \/ ClaimLost(w) PROVE OutcomeIsReal'
    BY <1>1, <1>3 DEF Claim, ClaimLost, loops
  <1>4. ASSUME NEW w \in Worker, Handle(w) PROVE OutcomeIsReal'
    BY <1>4 DEF Handle
  <1>5. ASSUME NEW w \in Worker, Mark(w) \/ MarkLost(w) PROVE OutcomeIsReal'
    BY <1>5 DEF Mark, MarkProcessed, MarkFailed, MarkDeadLetter, MarkLost, Proceed
  <1>6. ASSUME NEW w \in Worker, Crash(w) PROVE OutcomeIsReal'
    BY <1>6 DEF Crash
  <1>7. CASE UNCHANGED vars
    BY <1>1, <1>7 DEF vars, rows, loops
  <1>8. QED
    BY <1>2, <1>3, <1>4, <1>5, <1>6, <1>7 DEF Next

\* The conjunction is inductive, hence holds in every reachable state.
THEOREM Invariant == Spec => []IInv
  <1>1. IInv /\ [Next]_vars => IInv'
    BY TypePreserved, ClaimsPreserved, OutcomePreserved DEF IInv
  <1>2. QED
    BY <1>1, InitInvariant, PTL DEF Spec

\* No two replicas ever hold the same row from the same claim, for any number of
\* rows and replicas and any batch size.
THEOREM ClaimsAreDistinct == Spec => []DistinctClaims
  <1>1. IInv => DistinctClaims
    BY DEF IInv
  <1>2. QED
    BY <1>1, Invariant, PTL

\* The rows start as the abstract promise does.
LEMMA PromiseInit == Init => Promise!Init
  BY DEF Init, Promise!Init

\* Every step of rows and workers is a step of the promise, or none of its own.
LEMMA PromiseStep == IInv /\ [Next]_vars => [Promise!Next]_Promise!vars
  <1> SUFFICES ASSUME IInv, [Next]_vars PROVE [Promise!Next]_Promise!vars
    OBVIOUS
  <1> USE DEF IInv
  <1>1. ASSUME NEW e \in Event, Enqueue(e) PROVE Promise!Next
    <2>1. Promise!Accept(e)
      BY <1>1 DEF Enqueue, Promise!Accept
    <2>2. QED
      BY <2>1 DEF Promise!Next
  <1>2. ASSUME NEW e \in Event, Elapse(e) PROVE UNCHANGED Promise!vars
    BY <1>2 DEF Elapse, Promise!vars
  <1>3. ASSUME NEW w \in Worker, Claim(w) \/ ClaimLost(w) PROVE Promise!Next
    <2>1. PICK S \in SUBSET due : ClaimRows(S)
      BY <1>3 DEF Claim, ClaimLost
    <2>2. delivered' = delivered
      BY <1>3 DEF Claim, ClaimLost
    <2>3. S \in SUBSET Event /\ S \subseteq enqueued \ Promise!Retired
      BY DEF TypeOK, Retired, Promise!Retired
    <2>4. Promise!Try(S)
      BY <2>1, <2>2, <2>3 DEF Promise!Try, ClaimRows
    <2>5. QED
      BY <2>3, <2>4 DEF Promise!Next
  <1>4. ASSUME NEW w \in Worker, Handle(w) PROVE [Promise!Next]_Promise!vars
    <2>1. PICK e \in todo[w], result \in {"ok", "error"} :
            delivered' = IF result = "ok" THEN delivered \cup {e} ELSE delivered
      BY <1>4 DEF Handle
    <2>2. UNCHANGED <<enqueued, attempts, processed, dead>>
      BY <1>4 DEF Handle, rows
    <2>3. CASE result = "ok"
      <3>1. e \in Event /\ e \in Held(w)
        BY DEF TypeOK, Held
      <3>2. seen[w][e] \in Nat /\ attempts[e] \in Nat
            /\ seen[w][e] > 0 /\ seen[w][e] <= attempts[e]
        BY <3>1 DEF TypeOK, ClaimsCounted
      <3>3. attempts[e] > 0
        BY <3>2
      <3>4. Promise!Deliver(e)
        BY <2>1, <2>2, <2>3, <3>3 DEF Promise!Deliver
      <3>5. QED
        BY <3>1, <3>4 DEF Promise!Next
    <2>4. CASE result # "ok"
      BY <2>1, <2>2, <2>4 DEF Promise!vars
    <2>5. QED
      BY <2>3, <2>4
  <1>5. ASSUME NEW w \in Worker, Mark(w) PROVE [Promise!Next]_Promise!vars
    <2>1. ASSUME outcome[w] # "none"
          PROVE  current[w] \in Event /\ current[w] \in Held(w)
      BY <2>1 DEF TypeOK, Held
    <2>2. CASE MarkProcessed(w)
      <3>1. current[w] \in Event /\ current[w] \in delivered
        BY <2>1, <2>2 DEF MarkProcessed, OutcomeIsReal
      <3>2. Promise!Acknowledge(current[w])
        BY <2>2, <3>1 DEF MarkProcessed, Proceed, Promise!Acknowledge
      <3>3. QED
        BY <3>1, <3>2 DEF Promise!Next
    <2>3. CASE MarkFailed(w)
      BY <2>3 DEF MarkFailed, Proceed, Promise!vars
    <2>4. CASE MarkDeadLetter(w)
      <3> DEFINE e == current[w]
      <3>1. e \in Event /\ e \in Held(w) /\ seen[w][e] >= MaxAttempts
        BY <2>1, <2>4 DEF MarkDeadLetter, Exhausted
      <3>2. attempts[e] \in Nat /\ seen[w][e] \in Nat /\ seen[w][e] <= attempts[e]
        BY <3>1 DEF TypeOK, ClaimsCounted
      <3>3. attempts[e] >= MaxAttempts
        BY <3>1, <3>2, MaxAttemptsAssumption
      <3>4. Promise!Abandon(e)
        BY <2>4, <3>3 DEF MarkDeadLetter, Proceed, Promise!Abandon
      <3>5. QED
        BY <3>1, <3>4 DEF Promise!Next
    <2>5. QED
      BY <1>5, <2>2, <2>3, <2>4 DEF Mark
  <1>6. ASSUME NEW w \in Worker, MarkLost(w) \/ Crash(w) PROVE UNCHANGED Promise!vars
    BY <1>6 DEF MarkLost, Crash, Proceed, rows, Promise!vars
  <1>7. CASE UNCHANGED vars
    BY <1>7 DEF vars, rows, loops, Promise!vars
  <1>8. QED
    BY <1>1, <1>2, <1>3, <1>4, <1>5, <1>6, <1>7 DEF Next

\* The outbox and its workers implement AtLeastOnce: attempts stop at retirement,
\* processed means delivered, dead-lettered means tried MaxAttempts times.
THEOREM OutboxKeepsPromise == Spec => KeepsPromise
  <1>1. QED
    BY Invariant, PromiseInit, PromiseStep, PTL DEF Spec, KeepsPromise, Promise!Spec

-------------------------------------------------------------------------------
(* The retry limit.                                                        *)

\* The workers that have an event in hand and will retire it if they report: their
\* claim has used up the attempts.
LastHolders(e) == {w \in Worker : e \in Held(w) /\ seen[w][e] >= MaxAttempts}

\* Past the limit, each attempt of a row that is not retired is one in the hands of
\* such a worker, or one that a fault has taken from it.
AttemptsExplained ==
  \A e \in Event \ Retired : attempts[e] < MaxAttempts + Cardinality(LastHolders(e)) + faults

LimitInv == AttemptsExplained /\ RetryLimit

LEMMA HoldersAreCounted ==
  ASSUME NEW S \in SUBSET Worker
  PROVE  /\ IsFiniteSet(S) /\ Cardinality(S) \in Nat /\ Cardinality(S) <= Cardinality(Worker)
         /\ Cardinality(Worker) \in Nat
  BY WorkerAssumption, FS_Subset, FS_CardinalityType

\* What a step may do to the attempts of an event without passing the limit.
LEMMA LimitKept ==
  ASSUME TypeOK, TypeOK', NEW e \in Event, e \notin Retired,
         attempts[e] < MaxAttempts + Cardinality(LastHolders(e)) + faults,
         \/ attempts'[e] = attempts[e] /\ faults' = faults /\ LastHolders(e) \subseteq LastHolders(e)'
         \/ /\ attempts'[e] \in {attempts[e], attempts[e] + 1} /\ faults' = faults + 1
            /\ attempts'[e] = attempts[e] + 1 => LastHolders(e) \subseteq LastHolders(e)'
            /\ \E w \in Worker : LastHolders(e) \ {w} \subseteq LastHolders(e)'
         \/ /\ attempts'[e] = attempts[e] + 1 /\ faults' = faults
            /\ attempts'[e] < MaxAttempts
               \/ \E w \in Worker \ LastHolders(e) : LastHolders(e)' = LastHolders(e) \cup {w}
  PROVE  attempts'[e] < MaxAttempts + Cardinality(LastHolders(e)') + faults'
  <1> DEFINE old == LastHolders(e)
             new == LastHolders(e)'
  <1>1. /\ IsFiniteSet(old) /\ Cardinality(old) \in Nat
        /\ IsFiniteSet(new) /\ Cardinality(new) \in Nat
    BY HoldersAreCounted DEF LastHolders
  <1> HIDE DEF old, new
  <1>2. attempts[e] \in Nat /\ attempts'[e] \in Nat /\ faults \in Nat /\ faults' \in Nat /\ MaxAttempts \in Nat
    BY MaxAttemptsAssumption, MaxFaultsAssumption DEF TypeOK
  <1>3. old \subseteq new => Cardinality(old) <= Cardinality(new)
    BY <1>1, FS_Subset
  <1>4. \A w : old \ {w} \subseteq new => Cardinality(old) <= Cardinality(new) + 1
    <2> SUFFICES ASSUME NEW w, old \ {w} \subseteq new PROVE Cardinality(old) <= Cardinality(new) + 1
      OBVIOUS
    <2>1. /\ IsFiniteSet(old \ {w})
          /\ Cardinality(old \ {w}) = IF w \in old THEN Cardinality(old) - 1 ELSE Cardinality(old)
      BY <1>1, FS_RemoveElement
    <2>2. Cardinality(old \ {w}) <= Cardinality(new) /\ Cardinality(old \ {w}) \in Nat
      BY <1>1, <2>1, FS_Subset, FS_CardinalityType
    <2>3. QED
      BY <1>1, <2>1, <2>2
  <1>5. \A w : w \notin old /\ new = old \cup {w} => Cardinality(new) = Cardinality(old) + 1
    BY <1>1, FS_AddElement
  <1>6. attempts[e] < MaxAttempts + Cardinality(old) + faults
    BY DEF old
  <1>7. \/ attempts'[e] = attempts[e] /\ faults' = faults /\ old \subseteq new
        \/ /\ attempts'[e] \in {attempts[e], attempts[e] + 1} /\ faults' = faults + 1
           /\ attempts'[e] = attempts[e] + 1 => old \subseteq new
           /\ \E w \in Worker : old \ {w} \subseteq new
        \/ /\ attempts'[e] = attempts[e] + 1 /\ faults' = faults
           /\ attempts'[e] < MaxAttempts \/ \E w \in Worker \ old : new = old \cup {w}
    BY DEF old, new
  <1>8. attempts'[e] < MaxAttempts + Cardinality(new) + faults'
    BY <1>1, <1>2, <1>3, <1>4, <1>5, <1>6, <1>7
  <1>9. QED
    BY <1>8 DEF new

LEMMA LimitPreserved ==
  TypeOK /\ TypeOK' /\ LimitInv /\ [Next]_vars => LimitInv'
  <1> SUFFICES ASSUME TypeOK, TypeOK', LimitInv, [Next]_vars PROVE LimitInv'
    OBVIOUS
  <1> DEFINE Kept(e) == attempts'[e] < MaxAttempts + Cardinality(LastHolders(e)') + faults'
  <1>1. \A w \in Worker : Held(w) \subseteq Event
    BY NoEventAssumption DEF Held, TypeOK
  <1>2. ASSUME NEW e \in Event, e \notin Retired
        PROVE  attempts[e] < MaxAttempts + Cardinality(LastHolders(e)) + faults
    BY <1>2 DEF LimitInv, AttemptsExplained
  <1>3. ASSUME NEW e \in Event, e \notin Retired',
               attempts'[e] = attempts[e], seen' = seen, faults' = faults, processed \cup dead \subseteq processed' \cup dead',
               \A w \in Worker : e \in Held(w) => e \in Held(w)' \/ seen[w][e] < MaxAttempts
        PROVE  Kept(e)
    <2>1. LastHolders(e) \subseteq LastHolders(e)'
      BY <1>3, MaxAttemptsAssumption DEF LastHolders, TypeOK
    <2>2. QED
      BY <1>2, <1>3, <2>1, LimitKept DEF Retired
  <1>4. ASSUME NEW x \in Event, Enqueue(x) \/ Elapse(x), NEW e \in Event, e \notin Retired' PROVE Kept(e)
    BY <1>3, <1>4 DEF Enqueue, Elapse, loops, Held
  <1>5. ASSUME NEW w \in Worker, Claim(w), NEW e \in Event, e \notin Retired' PROVE Kept(e)
    <2>1. PICK S \in SUBSET due \ {{}} :
            /\ ClaimRows(S)
            /\ todo' = [todo EXCEPT ![w] = S]
            /\ seen' = [seen EXCEPT ![w] = [x \in Event |-> IF x \in S THEN attempts'[x] ELSE 0]]
      BY <1>5 DEF Claim
    <2>2. current' = current /\ faults' = faults /\ UNCHANGED <<processed, dead>>
      BY <1>5, <2>1 DEF Claim, ClaimRows
    <2>3. e \notin Held(w)
      BY <1>5, NoEventAssumption DEF Claim, Idle, Held, TypeOK
    <2>4. \A v \in Worker \ {w} : Held(v)' = Held(v) /\ seen'[v] = seen[v]
      BY <2>1, <2>2 DEF Held, TypeOK
    <2>5. e \in S => attempts'[e] = attempts[e] + 1 /\ e \in Held(w)' /\ seen'[w][e] = attempts'[e]
      BY <2>1 DEF ClaimRows, Held, TypeOK
    <2>6. e \notin S => attempts'[e] = attempts[e]
      BY <2>1 DEF ClaimRows
    <2>7. LastHolders(e) \subseteq LastHolders(e)' /\ w \notin LastHolders(e)
      BY <2>3, <2>4 DEF LastHolders
    <2>8. e \in S => attempts'[e] < MaxAttempts \/ LastHolders(e)' = LastHolders(e) \cup {w}
      BY <2>4, <2>5, MaxAttemptsAssumption DEF LastHolders, TypeOK
    <2>9. e \notin Retired
      BY <1>5, <2>2 DEF Retired
    <2>10. QED
      BY <1>2, <2>2, <2>5, <2>6, <2>7, <2>8, <2>9, LimitKept
  <1>6. ASSUME NEW w \in Worker, ClaimLost(w), NEW e \in Event, e \notin Retired' PROVE Kept(e)
    <2>1. PICK S \in SUBSET due \ {{}} : ClaimRows(S)
      BY <1>6 DEF ClaimLost
    <2>2. faults' = faults + 1 /\ UNCHANGED <<processed, dead, todo, current, seen>>
      BY <1>6, <2>1 DEF ClaimLost, Fault, ClaimRows, loops
    <2>3. attempts'[e] \in {attempts[e], attempts[e] + 1}
      BY <2>1 DEF ClaimRows
    <2>4. LastHolders(e)' = LastHolders(e) /\ e \notin Retired
      BY <1>6, <2>2 DEF LastHolders, Held, Retired
    <2>5. QED
      BY <1>2, <1>6, <2>2, <2>3, <2>4, LimitKept
  <1>7. ASSUME NEW w \in Worker, Handle(w), NEW e \in Event, e \notin Retired' PROVE Kept(e)
    <2>1. Held(w)' = Held(w) /\ \A v \in Worker \ {w} : Held(v)' = Held(v)
      BY <1>7, NoEventAssumption DEF Handle, Held, TypeOK
    <2>2. QED
      BY <1>3, <1>7, <2>1 DEF Handle, rows
  <1>8. ASSUME NEW w \in Worker, Mark(w), NEW e \in Event, e \notin Retired' PROVE Kept(e)
    <2>1. \A v \in Worker \ {w} : Held(v)' = Held(v)
      BY <1>8 DEF Mark, MarkProcessed, MarkFailed, MarkDeadLetter, Proceed, Held, TypeOK
    <2>2. e \in Held(w) /\ e # current[w] => e \in Held(w)'
      BY <1>8 DEF Mark, MarkProcessed, MarkFailed, MarkDeadLetter, Proceed, Held, TypeOK
    <2>3. e = current[w] => seen[w][e] < MaxAttempts
      BY <1>8, MaxAttemptsAssumption
      DEF Mark, MarkProcessed, MarkFailed, MarkDeadLetter, Exhausted, Retired, TypeOK
    <2>4. QED
      BY <1>3, <1>8, <2>1, <2>2, <2>3 DEF Mark, MarkProcessed, MarkFailed, MarkDeadLetter, Proceed
  <1>9. ASSUME NEW w \in Worker, MarkLost(w) \/ Crash(w), NEW e \in Event, e \notin Retired' PROVE Kept(e)
    <2>1. faults' = faults + 1 /\ UNCHANGED <<rows, seen>>
      BY <1>9 DEF MarkLost, Crash, Fault, Proceed
    <2>2. \A v \in Worker \ {w} : Held(v)' = Held(v)
      BY <1>9 DEF MarkLost, Crash, Proceed, Held, TypeOK
    <2>3. LastHolders(e) \ {w} \subseteq LastHolders(e)'
      BY <2>1, <2>2 DEF LastHolders
    <2>4. attempts'[e] = attempts[e] /\ attempts[e] \in Nat /\ e \notin Retired
      BY <1>9, <2>1 DEF rows, Retired, TypeOK
    <2>5. QED
      BY <1>2, <2>1, <2>3, <2>4, LimitKept
  <1>10. ASSUME UNCHANGED vars, NEW e \in Event, e \notin Retired' PROVE Kept(e)
    BY <1>3, <1>10 DEF vars, rows, loops, Held
  <1>11. AttemptsExplained'
    BY <1>4, <1>5, <1>6, <1>7, <1>8, <1>9, <1>10 DEF Next, AttemptsExplained
  <1>12. RetryLimit'
    <2> SUFFICES ASSUME NEW e \in Event
                 PROVE  attempts'[e] < MaxAttempts + Cardinality(Worker) + faults'
      BY DEF RetryLimit
    <2>1. /\ attempts[e] \in Nat /\ attempts'[e] \in Nat /\ faults \in Nat /\ faults' \in Nat
          /\ MaxAttempts \in Nat /\ Cardinality(Worker) \in Nat
      BY HoldersAreCounted, MaxAttemptsAssumption, MaxFaultsAssumption DEF TypeOK
    <2>2. CASE e \notin Retired'
      <3>1. attempts'[e] < MaxAttempts + Cardinality(LastHolders(e)') + faults'
        BY <1>11, <2>2 DEF AttemptsExplained
      <3>2. Cardinality(LastHolders(e)') \in Nat /\ Cardinality(LastHolders(e)') <= Cardinality(Worker)
        BY HoldersAreCounted DEF LastHolders
      <3>3. QED
        BY <2>1, <3>1, <3>2
    <2>3. CASE attempts'[e] = attempts[e] /\ faults <= faults'
      BY <2>1, <2>3 DEF LimitInv, RetryLimit
    <2>4. e \in Retired' => attempts'[e] = attempts[e] /\ faults <= faults'
      <3>1. ASSUME NEW S \in SUBSET due, ClaimRows(S), e \in Retired' PROVE attempts'[e] = attempts[e]
        BY <3>1 DEF ClaimRows, Retired, TypeOK
      <3>2. QED
        BY <2>1, <3>1 DEF Next, Enqueue, Elapse, Claim, ClaimLost, Handle, Mark, MarkProcessed, MarkFailed,
           MarkDeadLetter, MarkLost, Crash, Proceed, Fault, rows, vars
    <2>5. QED
      BY <2>2, <2>3, <2>4
  <1>13. QED
    BY <1>11, <1>12 DEF LimitInv

\* The attempts of a row stay below the limit, one for each replica and one for
\* each fault.
THEOREM RetriesAreLimited == Spec => []RetryLimit
  <1>1. Init => LimitInv
    <2> SUFFICES ASSUME Init, NEW e \in Event
                 PROVE  /\ attempts[e] < MaxAttempts + Cardinality(LastHolders(e)) + faults
                        /\ attempts[e] < MaxAttempts + Cardinality(Worker) + faults
      BY DEF LimitInv, AttemptsExplained, RetryLimit
    <2>1. attempts[e] = 0 /\ faults = 0 /\ MaxAttempts \in Nat \ {0}
      BY MaxAttemptsAssumption DEF Init
    <2>2. Cardinality(LastHolders(e)) \in Nat /\ Cardinality(Worker) \in Nat
      BY HoldersAreCounted DEF LastHolders
    <2>3. QED
      BY <2>1, <2>2
  <1>2. LimitInv => RetryLimit
    BY DEF LimitInv
  <1>3. QED
    BY <1>1, <1>2, TypeCorrect, LimitPreserved, PTL DEF Spec
================================================================================
