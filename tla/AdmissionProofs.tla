---------------------------- MODULE AdmissionProofs ----------------------------
(***************************************************************************)
(* The rate limit, for any limit, any length of a window, and any number   *)
(* of replicas, addresses and requests.                                    *)
(*                                                                         *)
(* The limiter forgets a window as soon as the next one begins, and a      *)
(* minute chosen anywhere may lie across the boundary.  So the invariant   *)
(* speaks of three sets of admissions of an address: those of the current  *)
(* window, which the counter bounds, those less than a minute before it,   *)
(* which were all in one older window, and those of any minute.            *)
(***************************************************************************)
EXTENDS Admission, FiniteSetTheorems, TLAPS

\* The requests of an address let in, by these times, from lo on and before hi.
AdmittedIn(times, a, lo, hi) ==
  {r \in Request : /\ Input[r].address = a
                   /\ lo <= times[r] /\ times[r] < hi
                   /\ times[r] <= MaxTime}

Types ==
  /\ store \in Stores
  /\ now \in 0..MaxTime
  /\ counts \in [Address -> Nat]
  /\ window \in Nat
  /\ DOMAIN step = Request
  /\ admitted \in [Request -> 0..(MaxTime + 1)]

\* Where the window is: it has begun, with PostgreSQL at a minute of the clock.
WindowPlaced ==
  /\ window <= now
  /\ store = "postgres" => \E k \in Nat : window = Minute * k

\* Nobody is let in before counted, later than now, or later than the window.
AdmittedBefore ==
  /\ \A r \in Request : step[r] = "new" => admitted[r] = MaxTime + 1
  /\ \A r \in Request : admitted[r] <= MaxTime => admitted[r] <= now /\ admitted[r] < window + Minute

\* The counter bounds what the current window has let in.
ThisWindow ==
  \A a \in Address :
    /\ Cardinality(AdmittedIn(admitted, a, window, window + Minute)) <= counts[a]
    /\ Cardinality(AdmittedIn(admitted, a, window, window + Minute)) <= Limit

\* What was let in less than a minute before the current window is bounded too.
LastMinute ==
  \A a \in Address, t \in Nat :
    t + Minute > window => Cardinality(AdmittedIn(admitted, a, t, window)) <= Limit

AnyMinute ==
  \A a \in Address, t \in Nat : Cardinality(AdmittedIn(admitted, a, t, t + Minute)) <= 2 * Limit

Bounded == Types /\ WindowPlaced /\ AdmittedBefore /\ ThisWindow /\ LastMinute /\ AnyMinute

-------------------------------------------------------------------------------
(* Sets of requests, and the next window.                                  *)

LEMMA AdmittedFinite ==
  ASSUME NEW a, NEW lo, NEW hi
  PROVE  /\ IsFiniteSet(AdmittedIn(admitted, a, lo, hi))
         /\ Cardinality(AdmittedIn(admitted, a, lo, hi)) \in Nat
<1>1. AdmittedIn(admitted, a, lo, hi) \in SUBSET Request
  BY DEF AdmittedIn
<1> QED BY <1>1, RequestAssumption, FS_Subset, FS_CardinalityType

\* A smaller set of requests has no more of them.
LEMMA Fewer ==
  ASSUME NEW S \in SUBSET Request, NEW T \in SUBSET S
  PROVE  /\ IsFiniteSet(S) /\ IsFiniteSet(T)
         /\ Cardinality(S) \in Nat /\ Cardinality(T) \in Nat
         /\ Cardinality(T) <= Cardinality(S)
<1>1. IsFiniteSet(S)
  BY RequestAssumption, FS_Subset
<1>2. IsFiniteSet(T) /\ Cardinality(T) <= Cardinality(S)
  BY <1>1, FS_Subset
<1> QED BY <1>1, <1>2, FS_CardinalityType

\* The minute of the clock is not after now, ends after now, and is either the
\* minute of an earlier moment or begins when that one has ended.
LEMMA MinuteOfTheClock ==
  ASSUME NEW m \in Nat \ {0}, NEW n \in Nat, NEW k \in Nat, m * k <= n
  PROVE  /\ n - (n % m) \in Nat
         /\ n - (n % m) <= n /\ n < n - (n % m) + m
         /\ \E j \in Nat : n - (n % m) = m * j
         /\ n - (n % m) = m * k \/ n - (n % m) >= m * k + m
<1> DEFINE j == n \div m
           a == m * j
           b == m * k
           x == n % m
<1>1. j \in Nat /\ a \in Nat /\ b \in Nat /\ x \in 0..(m - 1) /\ n = a + x /\ b <= n
  OBVIOUS
<1>2. ASSUME NEW p \in Nat, NEW q \in Nat, q >= p + 1 PROVE m * q >= m * p + m
  <2>1. m * q >= m * (p + 1)
    BY <1>2
  <2> QED BY <2>1
<1>3. k >= j + 1 => b >= a + m
  BY <1>1, <1>2
<1>4. j >= k + 1 => a >= b + m
  BY <1>1, <1>2
<1>5. j = k => a = b
  OBVIOUS
<1>6. n - x = a /\ (a = b \/ a >= b + m)
  <2> HIDE DEF j, a, b, x
  <2> QED BY <1>1, <1>3, <1>4, <1>5
<1>7. n - x = m * j
  BY <1>6
<1> HIDE DEF j, a, b
<1>8. n - x \in Nat /\ n - x <= n /\ n < n - x + m
  BY <1>1
<1> QED BY <1>1, <1>6, <1>7, <1>8 DEF b

\* The window of a request is the current one, or begins when that has ended.
LEMMA NextWindow ==
  ASSUME Types, WindowPlaced
  PROVE  /\ Start \in Nat /\ Start <= now /\ now < Start + Minute
         /\ Start = window \/ Start >= window + Minute
         /\ store = "postgres" => \E k \in Nat : Start = Minute * k
<1>0. now \in Nat /\ window \in Nat /\ Minute \in Nat \ {0} /\ window <= now
  BY BoundsAssumption DEF Types, WindowPlaced
<1>1. CASE store = "postgres"
  <2>1. PICK k \in Nat : window = Minute * k
    BY <1>1 DEF WindowPlaced
  <2>2. Start = now - (now % Minute)
    BY <1>1 DEF Start
  <2> QED BY <1>0, <2>1, <2>2, MinuteOfTheClock
<1>2. CASE store # "postgres"
  <2>1. Start = IF now - window >= Minute THEN now ELSE window
    BY <1>2 DEF Start
  <2> QED BY <1>0, <1>2, <2>1
<1> QED BY <1>1, <1>2

-------------------------------------------------------------------------------
(* The steps.                                                              *)

LEMMA BoundedInit == Init => Bounded
<1> SUFFICES ASSUME Init PROVE Bounded
  OBVIOUS
<1>1. Types /\ WindowPlaced /\ AdmittedBefore
  <2>1. 0 \in Nat /\ 0 = Minute * 0
    BY BoundsAssumption
  <2> QED BY <2>1, BoundsAssumption DEF Init, Types, WindowPlaced, AdmittedBefore
<1>2. \A a, lo, hi : Cardinality(AdmittedIn(admitted, a, lo, hi)) = 0
  <2>1. \A a, lo, hi : AdmittedIn(admitted, a, lo, hi) = {}
    BY BoundsAssumption DEF Init, AdmittedIn
  <2> QED BY <2>1, FS_EmptySet
<1> QED BY <1>1, <1>2, BoundsAssumption DEF Init, Bounded, ThisWindow, LastMinute, AnyMinute

\* The steps of the handlers and of the clock count nothing and admit nobody.
LEMMA OthersCountNothing ==
  ASSUME Bounded,
         \/ Tick
         \/ \E r \in Request : Handle(r) \/ Cancel(r)
         \/ UNCHANGED vars
  PROVE  Bounded'
<1>1. /\ UNCHANGED <<store, counts, window, admitted>>
      /\ now' \in 0..MaxTime /\ now <= now'
      /\ DOMAIN step' = Request
      /\ \A r \in Request : step'[r] = "new" => step[r] = "new"
  <2> USE DEF Bounded, Types, limiter, Goto
  <2>0. now \in 0..MaxTime /\ now <= now
    BY BoundsAssumption
  <2>1. CASE Tick
    BY <2>1, BoundsAssumption DEF Tick
  <2>2. ASSUME NEW r \in Request, Authorize(r) \/ Query(r) \/ OpenList(r) \/ ReadPackages(r)
        PROVE  <1>1!:
    <3>1. Input[r].kind \in Kinds
      BY InputAssumption
    <3> QED BY <2>0, <2>2, <3>1 DEF Authorize, Query, OpenList, ReadPackages, Kinds
  <2>3. ASSUME NEW r \in Request, TakeSession(r) \/ TakeLock(r) \/ SaveRelease(r) \/ Check(r)
        PROVE  <1>1!:
    BY <2>0, <2>3 DEF TakeSession, TakeLock, SaveRelease, Check
  <2>4. ASSUME NEW r \in Request, Cancel(r)
        PROVE  <1>1!:
    BY <2>0, <2>4 DEF Cancel
  <2>5. CASE UNCHANGED vars
    BY <2>0, <2>5 DEF vars
  <2> QED BY <2>1, <2>2, <2>3, <2>4, <2>5 DEF Handle
<1>2. \A a, lo, hi : AdmittedIn(admitted', a, lo, hi) = AdmittedIn(admitted, a, lo, hi)
  BY <1>1 DEF AdmittedIn
<1>3. Types' /\ WindowPlaced'
  BY <1>1, BoundsAssumption DEF Bounded, Types, WindowPlaced
<1>4. AdmittedBefore'
  BY <1>1, BoundsAssumption DEF Bounded, Types, AdmittedBefore
<1>5. ThisWindow' /\ LastMinute' /\ AnyMinute'
  BY <1>1, <1>2 DEF Bounded, ThisWindow, LastMinute, AnyMinute
<1> QED BY <1>3, <1>4, <1>5 DEF Bounded

LEMMA CountBounds ==
  ASSUME Bounded, NEW r \in Request, Count(r)
  PROVE  Bounded'
<1> DEFINE b == Input[r].address
<1> USE DEF Bounded
<1>0. /\ Minute \in Nat \ {0} /\ Limit \in Nat \ {0} /\ MaxTime \in Nat
      /\ now \in Nat /\ now <= MaxTime /\ window \in Nat
      /\ b \in Address
  BY BoundsAssumption, InputAssumption DEF Types
<1>1. /\ window' = Start /\ UNCHANGED <<store, now>>
      /\ window' \in Nat /\ window' <= now /\ now < window' + Minute
      /\ window' = window \/ window' >= window + Minute
  BY NextWindow DEF Count
<1>2. /\ counts' \in [Address -> Nat]
      /\ \A a \in Address : counts'[a] = Counted(a) + IF a = b THEN 1 ELSE 0
      /\ \A a \in Address : Counted(a) \in Nat
  BY DEF Count, Counted, Types
<1>3. /\ admitted' \in [Request -> 0..(MaxTime + 1)]
      /\ \A q \in Request \ {r} : admitted'[q] = admitted[q]
      /\ admitted[r] = MaxTime + 1
      /\ admitted'[r] = admitted[r] \/ (admitted'[r] = now /\ counts'[b] <= Limit)
  BY <1>0 DEF Count, Types, AdmittedBefore
<1>4. Types'
  BY <1>1, <1>2, <1>3 DEF Types, Count, Goto
<1>5. WindowPlaced'
  BY <1>1, NextWindow DEF WindowPlaced, Count
<1>6. AdmittedBefore'
  <2>1. \A q \in Request : step'[q] = "new" => q # r /\ step[q] = "new"
    BY DEF Count, Goto, Types
  <2>2. \A q \in Request : admitted[q] \in Nat
    BY <1>0 DEF Types
  <2> QED BY <1>0, <1>1, <1>3, <2>1, <2>2 DEF AdmittedBefore
\* What the step adds to a set of admissions.
<1>7. ASSUME NEW a, NEW lo \in Nat, NEW hi \in Nat
      PROVE  /\ AdmittedIn(admitted', a, lo, hi) \subseteq AdmittedIn(admitted, a, lo, hi) \cup {r}
             /\ AdmittedIn(admitted', a, lo, hi) # AdmittedIn(admitted, a, lo, hi)
                  => a = b /\ now < hi /\ counts'[b] <= Limit
  BY <1>0, <1>3 DEF AdmittedIn
<1>8. ThisWindow'
  <2> SUFFICES ASSUME NEW a \in Address
               PROVE  /\ Cardinality(AdmittedIn(admitted', a, window', window' + Minute)) <= counts'[a]
                      /\ Cardinality(AdmittedIn(admitted', a, window', window' + Minute)) <= Limit
    BY DEF ThisWindow
  <2> DEFINE S == AdmittedIn(admitted, a, window', window' + Minute)
             T == AdmittedIn(admitted', a, window', window' + Minute)
  <2>1. IsFiniteSet(S) /\ Cardinality(S) \in Nat
    BY AdmittedFinite
  <2>2. Cardinality(S) <= Counted(a) /\ Cardinality(S) <= Limit
    <3>1. CASE window' = window
      BY <1>1, <3>1 DEF ThisWindow, Counted
    <3>2. CASE window' >= window + Minute
      <4>1. S = {}
        <5>1. \A q \in Request : admitted[q] <= MaxTime => ~ (window' <= admitted[q])
          BY <1>0, <1>1, <3>2 DEF AdmittedBefore, Types
        <5> QED BY <5>1 DEF AdmittedIn
      <4> QED BY <4>1, <1>0, <1>2, FS_EmptySet
    <3> QED BY <1>1, <3>1, <3>2
  <2>3. CASE T = S
    BY <1>2, <2>1, <2>2, <2>3
  <2>4. CASE T # S
    <3>1. T \subseteq S \cup {r} /\ a = b /\ counts'[b] <= Limit
      BY <1>0, <1>1, <1>7, <2>4
    <3>2. IsFiniteSet(S \cup {r})
          /\ (Cardinality(S \cup {r}) = Cardinality(S) \/ Cardinality(S \cup {r}) = Cardinality(S) + 1)
      BY <2>1, FS_AddElement
    <3>3. Cardinality(T) <= Cardinality(S \cup {r}) /\ IsFiniteSet(T)
      BY <3>1, <3>2, FS_Subset
    <3>4. Cardinality(T) \in Nat /\ Cardinality(T) <= Cardinality(S) + 1
      BY <2>1, <3>2, <3>3, FS_CardinalityType
    <3>5. counts'[a] = Counted(a) + 1 /\ counts'[a] <= Limit /\ Counted(a) \in Nat
      BY <1>2, <3>1
    <3> HIDE DEF S, T
    <3>6. Cardinality(T) <= counts'[a] /\ Cardinality(T) <= Limit
      BY <1>0, <2>1, <2>2, <3>4, <3>5
    <3> QED BY <3>6 DEF T
  <2> QED BY <2>3, <2>4
<1>9. LastMinute'
  <2> SUFFICES ASSUME NEW a \in Address, NEW t \in Nat, t + Minute > window'
               PROVE  Cardinality(AdmittedIn(admitted', a, t, window')) <= Limit
    BY DEF LastMinute
  <2>1. AdmittedIn(admitted', a, t, window') = AdmittedIn(admitted, a, t, window')
    BY <1>0, <1>1, <1>7
  <2>2. CASE window' = window
    BY <2>1, <2>2 DEF LastMinute
  <2>3. CASE window' >= window + Minute
    <3>1. AdmittedIn(admitted, a, t, window') \in SUBSET AdmittedIn(admitted, a, window, window + Minute)
      <4> SUFFICES ASSUME NEW q \in Request, t <= admitted[q], admitted[q] <= MaxTime
                   PROVE  window <= admitted[q] /\ admitted[q] < window + Minute
        BY DEF AdmittedIn
      <4>1. admitted[q] \in Nat
        BY <1>0 DEF Types
      <4> QED BY <1>0, <1>1, <2>3, <4>1 DEF AdmittedBefore
    <3>2. AdmittedIn(admitted, a, window, window + Minute) \in SUBSET Request
      BY DEF AdmittedIn
    <3>3. Cardinality(AdmittedIn(admitted, a, window, window + Minute)) <= Limit
      BY DEF ThisWindow
    <3> QED BY <1>0, <2>1, <3>1, <3>2, <3>3, Fewer
  <2> QED BY <1>1, <2>2, <2>3
<1>10. AnyMinute'
  <2> SUFFICES ASSUME NEW a \in Address, NEW t \in Nat
               PROVE  Cardinality(AdmittedIn(admitted', a, t, t + Minute)) <= 2 * Limit
    BY DEF AnyMinute
  <2>0. t + Minute \in Nat
    BY <1>0
  <2>1. CASE t + Minute <= window'
    <3>1. AdmittedIn(admitted', a, t, t + Minute) = AdmittedIn(admitted, a, t, t + Minute)
      BY <1>0, <1>1, <1>7, <2>0, <2>1
    <3> QED BY <3>1 DEF AnyMinute
  <2>2. CASE t + Minute > window'
    <3> DEFINE S == AdmittedIn(admitted', a, t, window')
               T == AdmittedIn(admitted', a, window', window' + Minute)
    <3>1. AdmittedIn(admitted', a, t, t + Minute) \subseteq S \cup T
      <4> SUFFICES ASSUME NEW q \in Request, admitted'[q] <= MaxTime
                   PROVE  admitted'[q] < window' \/ (window' <= admitted'[q] /\ admitted'[q] < window' + Minute)
        BY DEF AdmittedIn
      <4>1. admitted'[q] \in Nat
        BY <1>0, <1>3
      <4> QED BY <1>1, <1>6, <4>1 DEF AdmittedBefore
    <3>2. S \in SUBSET Request /\ T \in SUBSET Request
      BY DEF AdmittedIn
    <3>3. IsFiniteSet(S) /\ IsFiniteSet(T)
      BY <3>2, Fewer
    <3>4. Cardinality(S) <= Limit
      BY <1>9, <2>2 DEF LastMinute
    <3>5. Cardinality(T) <= Limit
      BY <1>8 DEF ThisWindow
    <3> HIDE DEF S, T
    <3>6. /\ IsFiniteSet(S \cup T)
          /\ Cardinality(S \cup T) = Cardinality(S) + Cardinality(T) - Cardinality(S \cap T)
      BY <3>3, FS_Union
    <3>7. Cardinality(S) \in Nat /\ Cardinality(T) \in Nat /\ Cardinality(S \cap T) \in Nat
      BY <3>3, FS_CardinalityType, FS_Subset
    <3>8. /\ Cardinality(AdmittedIn(admitted', a, t, t + Minute)) <= Cardinality(S \cup T)
          /\ IsFiniteSet(AdmittedIn(admitted', a, t, t + Minute))
      BY <3>1, <3>6, FS_Subset
    <3>9. Cardinality(AdmittedIn(admitted', a, t, t + Minute)) \in Nat
      BY <3>8, FS_CardinalityType
    <3> QED BY <1>0, <3>4, <3>5, <3>6, <3>7, <3>8, <3>9
  <2> QED BY <1>0, <1>1, <2>0, <2>1, <2>2
<1> QED BY <1>4, <1>5, <1>6, <1>8, <1>9, <1>10

LEMMA BoundedInvariant == Spec => []Bounded
<1>1. Bounded /\ [Next]_vars => Bounded'
  BY CountBounds, OthersCountNothing DEF Next
<1> QED BY BoundedInit, <1>1, PTL DEF Spec

\* Whichever replicas count the requests of an address, and whether the minutes
\* are those of the clock or begin when somebody comes, no minute admits more than
\* twice the limit.
THEOREM BurstsAreBounded == Spec => []BurstIsBounded
<1>1. Bounded => BurstIsBounded
  <2> SUFFICES ASSUME Bounded, NEW a \in Address, NEW t \in 0..MaxTime
               PROVE  Cardinality({r \in Request : /\ Input[r].address = a
                                                   /\ t <= admitted[r] /\ admitted[r] < t + Minute
                                                   /\ admitted[r] <= MaxTime}) <= 2 * Limit
    BY DEF BurstIsBounded
  <2>1. Cardinality(AdmittedIn(admitted, a, t, t + Minute)) <= 2 * Limit
    BY BoundsAssumption DEF Bounded, AnyMinute
  <2> QED BY <2>1 DEF AdmittedIn
<1> QED BY <1>1, BoundedInvariant, PTL
================================================================================
