---------------------------- MODULE RevisionsProofs ----------------------------
(***************************************************************************)
(* Proofs about Revisions for any releases, digests and requests, any      *)
(* number of them sent, and any number of faults.                          *)
(***************************************************************************)
EXTENDS Revisions, Sequences, TLAPS

USE ReleaseAssumption, InputAssumption, BoundsAssumption

-------------------------------------------------------------------------------
(* The inductive invariant.                                                *)

\* The rows of a register are numbered from 1 without gaps or duplicates, and
\* go with the workspace.
Numbered ==
  \A g \in Registers :
    /\ Latest(g) \in Nat
    /\ \A r \in rows[g] : r.revision \in 1..Latest(g)
    /\ \A n \in 1..Latest(g) : \E r \in rows[g] : r.revision = n
    /\ \A r, s \in rows[g] : r.revision = s.revision => r = s
    /\ ~alive => rows[g] = {}

\* A revision that was read existed.
BaseWasRead ==
  \A i \in Request :
    alive /\ stage[i] = "saving" /\ Input[i].kind \in Registers => base[i] <= Latest(Input[i].kind)

Unanswered == \A i \in Request : stage[i] # "done" => answer[i] = "none"

\* Only a download opens content.
OpeningIsDownload ==
  \A i \in Request : stage[i] = "opening" => Input[i].kind \notin Registers

LogInv == TypeOK /\ Numbered /\ BaseWasRead /\ Unanswered /\ OpeningIsDownload

-------------------------------------------------------------------------------
(* Lemmas about the operators.                                             *)

LEMMA MaxIs ==
  ASSUME NEW S \in SUBSET Nat, NEW n \in S, \A m \in S : m <= n
  PROVE  Max(S) = n
  <1>1. \A x \in S : (\A y \in S : x >= y) <=> x = n
    OBVIOUS
  <1>2. QED
    BY <1>1 DEF Max

\* What the latest revision is, before and after a step.
LEMMA LatestIs ==
  ASSUME NEW g, NEW n \in Nat, \A r \in rows[g] : r.revision \in 1..n,
         n = 0 \/ \E r \in rows[g] : r.revision = n
  PROVE  Latest(g) = n
  <1> DEFINE S == {0} \cup {r.revision : r \in rows[g]}
  <1>1. S \in SUBSET Nat /\ n \in S /\ \A m \in S : m <= n
    OBVIOUS
  <1>2. QED
    BY <1>1, MaxIs DEF Latest

LEMMA NextLatestIs ==
  ASSUME NEW g, NEW n \in Nat, \A r \in rows'[g] : r.revision \in 1..n,
         n = 0 \/ \E r \in rows'[g] : r.revision = n
  PROVE  Latest(g)' = n
  <1> DEFINE S == {0} \cup {r.revision : r \in rows'[g]}
  <1>1. S \in SUBSET Nat /\ n \in S /\ \A m \in S : m <= n
    OBVIOUS
  <1>2. Latest(g)' = Max(S)
    BY DEF Latest
  <1>3. QED
    BY <1>1, <1>2, MaxIs

\* A row is inserted as the next revision of its register: what the index lets in
\* is neither a number that exists nor one that leaves a gap.
LEMMA RowIsNext ==
  ASSUME LogInv, NEW g \in Registers, NEW i \in Request, At(i, g, "saving"),
         Vacant(g, base[i] + 1), SaveRow(g, i)
  PROVE  /\ base[i] = Latest(g)
         /\ rows'[g] = rows[g] \cup {[revision |-> Latest(g) + 1, document |-> Input[i].document, by |-> i]}
         /\ \A h \in Registers : h # g => rows'[h] = rows[h] /\ Latest(h)' = Latest(h)
         /\ Latest(g)' = Latest(g) + 1
  <1>1. base[i] \in Nat /\ Latest(g) \in Nat /\ base[i] <= Latest(g)
    BY DEF LogInv, TypeOK, Numbered, BaseWasRead, At, Vacant
  <1>2. base[i] = Latest(g)
    <2>1. \A n \in 1..Latest(g) : n # base[i] + 1
      BY DEF LogInv, Numbered, Vacant
    <2>2. base[i] + 1 \notin 1..Latest(g)
      BY <2>1
    <2>3. QED
      BY <1>1, <2>2
  <1>3. rows'[g] = rows[g] \cup {[revision |-> Latest(g) + 1, document |-> Input[i].document, by |-> i]}
    BY <1>2 DEF LogInv, TypeOK, SaveRow
  <1>4. \A h \in Registers : h # g => rows'[h] = rows[h]
    BY DEF LogInv, TypeOK, SaveRow
  <1>5. \A h \in Registers : h # g => Latest(h)' = Latest(h)
    BY <1>4 DEF Latest
  <1>6. Latest(g)' = Latest(g) + 1
    <2> DEFINE n == Latest(g)
               new == [revision |-> n + 1, document |-> Input[i].document, by |-> i]
    <2>0. /\ n \in Nat
          /\ \A r \in rows[g] : r.revision \in 1..n
          /\ rows'[g] = rows[g] \cup {new}
          /\ new.revision = n + 1
      BY <1>1, <1>3 DEF LogInv, Numbered
    <2> HIDE DEF n, new
    <2>1. \A r \in rows'[g] : r.revision \in 1..(n + 1)
      BY <2>0
    <2>2. \E r \in rows'[g] : r.revision = n + 1
      BY <2>0
    <2>3. QED
      BY <2>0, <2>1, <2>2, NextLatestIs DEF n
  <1>7. QED
    BY <1>2, <1>3, <1>4, <1>5, <1>6

-------------------------------------------------------------------------------
(* The steps, policies and manifests together.                             *)

Reading(i, g) ==
  /\ Input[i].kind = g
  /\ stage[i] = IF g = "manifest" THEN "checking" ELSE "reading"
  /\ ReadRevision(i, g)

\* The row is in, whether the caller learns of it or not.
Inserting(i, g) ==
  /\ At(i, g, "saving")
  /\ Vacant(g, base[i] + 1)
  /\ SaveRow(g, i)
  /\ \/ Answer(i, "ok") /\ UNCHANGED faults
     \/ Answer(i, "failed") /\ Fault
  /\ UNCHANGED <<alive, releases, announced, verifier, todo, base, status, served, since, until>>

NotInserting(i, g) ==
  /\ At(i, g, "saving")
  /\ Answer(i, "failed")
  /\ Fault \/ UNCHANGED faults
  /\ UNCHANGED <<alive, rows, releases, announced, verifier, todo, base, status, served, since, until>>

LEMMA Steps ==
  ASSUME [Next]_vars
  PROVE  \/ \E i \in Request, g \in Registers : Reading(i, g) \/ Inserting(i, g) \/ NotInserting(i, g)
         \/ \E i \in Request : Begin(i) \/ LookUp(i) \/ ReadPolicy(i) \/ Commit(i) \/ Approve(i) \/ Open(i)
         \/ DeleteWorkspace \/ Restart \/ UNCHANGED vars
  <1>1. ASSUME NEW i \in Request, NEW g \in Registers, At(i, g, "saving"), Insert(i, g) \/ InsertFails(i, g)
        PROVE  Inserting(i, g) \/ NotInserting(i, g)
    BY <1>1 DEF Insert, InsertFails, Inserting, NotInserting
  <1>2. "policy" \in Registers /\ "manifest" \in Registers
    BY DEF Registers
  <1>3. QED
    BY <1>1, <1>2 DEF Next, Handle, ReplacePolicy, ReplaceManifest, Reading, At

-------------------------------------------------------------------------------
(* Types and numbers.                                                      *)

LEMMA LogInit == Init => LogInv
  <1> SUFFICES ASSUME Init PROVE LogInv
    OBVIOUS
  <1>1. TypeOK
    BY DEF Init, TypeOK, Registers, Stages, Answers, Statuses, Manifest
  <1>2. \A g \in Registers : rows[g] = {}
    BY DEF Init
  <1>3. \A g \in Registers : Latest(g) = 0
    BY <1>2, LatestIs
  <1>4. QED
    BY <1>1, <1>2, <1>3 DEF Init, LogInv, Numbered, BaseWasRead, Unanswered, OpeningIsDownload

LEMMA TypePreserved == LogInv /\ [Next]_vars => TypeOK'
  <1> SUFFICES ASSUME LogInv, [Next]_vars PROVE TypeOK'
    OBVIOUS
  <1> USE DEF LogInv, TypeOK, tables, locals, vars, Stages, Answers, Statuses
  <1>1. ASSUME NEW i \in Request, NEW g \in Registers, Reading(i, g) PROVE TypeOK'
    BY <1>1 DEF Reading, ReadRevision, Numbered, Goto
  <1>2. ASSUME NEW i \in Request, NEW g \in Registers, Inserting(i, g) PROVE TypeOK'
    <2>1. rows' \in [Registers -> SUBSET Row]
      <3>1. [revision |-> base[i] + 1, document |-> Input[i].document, by |-> i] \in Row
        BY DEF Row, Calls
      <3>2. QED
        BY <1>2, <3>1 DEF Inserting, SaveRow
    <2>2. QED
      BY <1>2, <2>1 DEF Inserting, Answer, Fault
  <1>3. ASSUME NEW i \in Request, NEW g \in Registers, NotInserting(i, g) PROVE TypeOK'
    BY <1>3 DEF NotInserting, Answer, Fault
  <1>4. ASSUME NEW i \in Request, Begin(i) PROVE TypeOK'
    <2>1. stage' \in [Request -> Stages]
      BY <1>4 DEF Begin, First
    <2>2. todo' \in [Request -> Manifest]
      BY <1>4 DEF Begin, Manifest
    <2>3. since' \in [Request -> Nat]
      BY <1>4 DEF Begin, Numbered, Registers
    <2>4. QED
      BY <1>4, <2>1, <2>2, <2>3 DEF Begin
  <1>5. ASSUME NEW i \in Request, LookUp(i) PROVE TypeOK'
    BY <1>5 DEF LookUp, Goto, Answer, Manifest
  <1>6. ASSUME NEW i \in Request, ReadPolicy(i) PROVE TypeOK'
    BY <1>6 DEF ReadPolicy, Goto, Answer, ReleaseStatus
  <1>7. ASSUME NEW i \in Request, Commit(i) PROVE TypeOK'
    <2>1. [digest |-> Input[i].digest, status |-> status[i], signed |-> verifier, by |-> i] \in ReleaseRow
      BY DEF ReleaseRow, Calls
    <2>2. Latest("policy") \in Nat
      BY DEF Numbered, Registers
    <2>3. CASE SaveRelease(i)
      BY <1>7, <2>1, <2>2, <2>3 DEF Commit, SaveRelease, Answer
    <2>4. CASE ~SaveRelease(i)
      BY <1>7, <2>4 DEF Commit, Answer
    <2>5. QED
      BY <2>3, <2>4
  <1>8. ASSUME NEW i \in Request, Approve(i) PROVE TypeOK'
    <2> DEFINE r == Input[i].release
    <2>1. r \in Release
      BY DEF Calls
    <2>2. CASE ApproveRow(r)
      <3>1. [releases[r] EXCEPT !.status = "approved"] \in ReleaseRow
        <4>1. releases[r] \in ReleaseRow
          BY <2>1, <2>2 DEF ApproveRow, Approvable
        <4>2. QED
          BY <4>1 DEF ReleaseRow
      <3>2. releases' \in [Release -> ReleaseRow \cup {NoRelease}] /\ announced' \in [Release -> Nat]
        BY <2>1, <2>2, <3>1 DEF ApproveRow
      <3>3. QED
        BY <1>8, <3>2 DEF Approve, Answer, Fault
    <2>3. CASE ~ApproveRow(r)
      BY <1>8, <2>3 DEF Approve, Answer, Fault
    <2>4. QED
      BY <2>2, <2>3
  <1>9. ASSUME NEW i \in Request, Open(i) PROVE TypeOK'
    <2>1. served' \subseteq Digest
      BY <1>9 DEF Open, Public, Found, ReleaseRow, Calls
    <2>2. QED
      BY <1>9, <2>1 DEF Open, Answer
  <1>10. CASE DeleteWorkspace
    BY <1>10 DEF DeleteWorkspace
  <1>11. CASE Restart
    BY <1>11 DEF Restart, Fault
  <1>12. CASE UNCHANGED vars
    BY <1>12
  <1>13. QED
    BY <1>1, <1>2, <1>3, <1>4, <1>5, <1>6, <1>7, <1>8, <1>9, <1>10, <1>11, <1>12, Steps

\* Apart from the insertion of a row and the deletion of the workspace, steps leave
\* the registers alone.
LEMMA RowsSteps ==
  ASSUME LogInv, [Next]_vars
  PROVE  \/ \E i \in Request, g \in Registers : Inserting(i, g)
         \/ DeleteWorkspace
         \/ rows' = rows /\ alive' = alive
  BY Steps DEF Reading, ReadRevision, NotInserting, Begin, LookUp, ReadPolicy, Commit, Approve, Open,
               Restart, vars, tables

LEMMA NumberedPreserved == LogInv /\ [Next]_vars => Numbered'
  <1> SUFFICES ASSUME LogInv, [Next]_vars PROVE Numbered'
    OBVIOUS
  <1>1. ASSUME NEW i \in Request, NEW h \in Registers, Inserting(i, h) PROVE Numbered'
    <2>1. /\ rows'[h] = rows[h] \cup {[revision |-> Latest(h) + 1, document |-> Input[i].document, by |-> i]}
          /\ \A g \in Registers : g # h => rows'[g] = rows[g] /\ Latest(g)' = Latest(g)
          /\ Latest(h)' = Latest(h) + 1
      BY <1>1, RowIsNext DEF Inserting
    <2>2. alive /\ alive'
      BY <1>1 DEF Inserting, Vacant
    <2>3. ASSUME NEW g \in Registers, g # h
          PROVE  /\ Latest(g)' \in Nat
                 /\ \A r \in rows'[g] : r.revision \in 1..Latest(g)'
                 /\ \A n \in 1..Latest(g)' : \E r \in rows'[g] : r.revision = n
                 /\ \A r, s \in rows'[g] : r.revision = s.revision => r = s
      BY <2>1, <2>3 DEF LogInv, Numbered
    <2>4. /\ Latest(h)' \in Nat
          /\ \A r \in rows'[h] : r.revision \in 1..Latest(h)'
          /\ \A n \in 1..Latest(h)' : \E r \in rows'[h] : r.revision = n
          /\ \A r, s \in rows'[h] : r.revision = s.revision => r = s
      <3> DEFINE n == Latest(h)
                 new == [revision |-> n + 1, document |-> Input[i].document, by |-> i]
      <3>1. /\ n \in Nat
            /\ \A r \in rows[h] : r.revision \in 1..n
            /\ \A m \in 1..n : \E r \in rows[h] : r.revision = m
            /\ \A r, s \in rows[h] : r.revision = s.revision => r = s
        BY DEF LogInv, Numbered
      <3>2. rows'[h] = rows[h] \cup {new} /\ new.revision = n + 1 /\ Latest(h)' = n + 1
        BY <2>1
      <3> HIDE DEF n, new
      <3>3. \A m \in 1..(n + 1) : m = n + 1 \/ m \in 1..n
        BY <3>1
      <3>4. QED
        BY <3>1, <3>2, <3>3
    <2>5. QED
      BY <2>2, <2>3, <2>4 DEF Numbered
  <1>2. CASE DeleteWorkspace
    <2>1. \A g \in Registers : rows'[g] = {}
      BY <1>2 DEF DeleteWorkspace
    <2>2. \A g \in Registers : Latest(g)' = 0
      BY <2>1, NextLatestIs
    <2>3. QED
      BY <2>1, <2>2 DEF Numbered
  <1>3. CASE rows' = rows /\ alive' = alive
    BY <1>3 DEF LogInv, Numbered, Latest
  <1>4. QED
    BY <1>1, <1>2, <1>3, RowsSteps

\* While the workspace is there its registers only grow.
LEMMA LatestGrows ==
  ASSUME LogInv, [Next]_vars, alive', NEW g \in Registers
  PROVE  alive /\ Latest(g) <= Latest(g)'
  <1>1. Latest(g) \in Nat
    BY DEF LogInv, Numbered
  <1>2. ASSUME NEW i \in Request, NEW h \in Registers, Inserting(i, h)
        PROVE  alive /\ Latest(g) <= Latest(g)'
    BY <1>1, <1>2, RowIsNext DEF Inserting, Vacant
  <1>3. CASE rows' = rows /\ alive' = alive
    BY <1>1, <1>3 DEF Latest
  <1>4. QED
    BY <1>2, <1>3, RowsSteps DEF DeleteWorkspace

LEMMA BasePreserved == LogInv /\ TypeOK' /\ Numbered' /\ [Next]_vars => BaseWasRead'
  <1> SUFFICES ASSUME LogInv, TypeOK', Numbered', [Next]_vars, alive',
                      NEW i \in Request, stage'[i] = "saving", Input[i].kind \in Registers
               PROVE  base'[i] <= Latest(Input[i].kind)'
    BY DEF BaseWasRead
  <1> DEFINE g == Input[i].kind
  <1>1. alive /\ Latest(g) <= Latest(g)' /\ Latest(g) \in Nat /\ Latest(g)' \in Nat
    BY LatestGrows DEF LogInv, Numbered
  <1>2. CASE stage[i] = "saving" /\ base'[i] = base[i]
    BY <1>1, <1>2 DEF LogInv, BaseWasRead, TypeOK
  <1>3. CASE ReadRevision(i, g)
    BY <1>1, <1>3 DEF ReadRevision, LogInv, TypeOK
  <1>4. (stage[i] = "saving" /\ base'[i] = base[i]) \/ ReadRevision(i, g)
    <2>1. "publish" \notin Registers /\ "approve" \notin Registers
      BY DEF Registers
    <2>2. ASSUME NEW j \in Request, NEW h \in Registers, Reading(j, h)
          PROVE  (stage[i] = "saving" /\ base'[i] = base[i]) \/ ReadRevision(i, g)
      BY <2>2 DEF Reading, ReadRevision, Goto, LogInv, TypeOK
    <2>3. ASSUME NEW j \in Request, NEW h \in Registers, Inserting(j, h) \/ NotInserting(j, h)
          PROVE  stage[i] = "saving" /\ base'[i] = base[i]
      BY <2>3 DEF Inserting, NotInserting, Answer, LogInv, TypeOK
    <2>4. ASSUME NEW j \in Request, Begin(j) \/ LookUp(j) \/ ReadPolicy(j) \/ Commit(j) \/ Approve(j) \/ Open(j)
          PROVE  stage[i] = "saving" /\ base'[i] = base[i]
      BY <2>1, <2>4 DEF Begin, First, LookUp, ReadPolicy, Commit, Approve, Open, At, Goto, Answer, LogInv, TypeOK, Registers
    <2>5. CASE DeleteWorkspace \/ Restart \/ UNCHANGED vars
      BY <2>5 DEF DeleteWorkspace, Restart, vars, locals, LogInv, TypeOK
    <2>6. QED
      BY <2>2, <2>3, <2>4, <2>5, Steps
  <1>5. QED
    BY <1>2, <1>3, <1>4

LEMMA UnansweredPreserved == LogInv /\ [Next]_vars => Unanswered'
  <1> SUFFICES ASSUME LogInv, [Next]_vars, NEW i \in Request, stage'[i] # "done"
               PROVE  answer'[i] = "none"
    BY DEF Unanswered
  <1> USE DEF LogInv, TypeOK, Unanswered, Goto, Answer
  <1>1. ASSUME NEW j \in Request, NEW g \in Registers, Reading(j, g) \/ Inserting(j, g) \/ NotInserting(j, g)
        PROVE  answer'[i] = "none"
    BY <1>1 DEF Reading, ReadRevision, Inserting, NotInserting
  <1>2. ASSUME NEW j \in Request, Begin(j) \/ LookUp(j) \/ ReadPolicy(j) \/ Commit(j) \/ Approve(j) \/ Open(j)
        PROVE  answer'[i] = "none"
    BY <1>2 DEF Begin, LookUp, ReadPolicy, Commit, Approve, Open, At
  <1>3. CASE DeleteWorkspace \/ Restart \/ UNCHANGED vars
    BY <1>3 DEF DeleteWorkspace, Restart, vars, locals
  <1>4. QED
    BY <1>1, <1>2, <1>3, Steps

LEMMA OpeningPreserved == LogInv /\ [Next]_vars => OpeningIsDownload'
  <1> SUFFICES ASSUME LogInv, [Next]_vars, NEW i \in Request, stage'[i] = "opening", stage[i] # "opening"
               PROVE  Input[i].kind \notin Registers
    BY DEF LogInv, OpeningIsDownload
  <1> USE DEF LogInv, TypeOK, Goto, Answer
  <1>1. ASSUME NEW j \in Request, Begin(j) PROVE Input[i].kind \notin Registers
    BY <1>1 DEF Begin, First, Registers
  <1>2. ASSUME NEW j \in Request, NEW g \in Registers, Reading(j, g) \/ Inserting(j, g) \/ NotInserting(j, g)
        PROVE  FALSE
    BY <1>2 DEF Reading, ReadRevision, Inserting, NotInserting
  <1>3. ASSUME NEW j \in Request, LookUp(j) \/ ReadPolicy(j) \/ Commit(j) \/ Approve(j) \/ Open(j)
        PROVE  FALSE
    BY <1>3 DEF LookUp, ReadPolicy, Commit, Approve, Open
  <1>4. CASE DeleteWorkspace \/ Restart \/ UNCHANGED vars
    BY <1>4 DEF DeleteWorkspace, Restart, vars, locals
  <1>5. QED
    BY <1>1, <1>2, <1>3, <1>4, Steps

LEMMA LogPreserved == LogInv /\ [Next]_vars => LogInv'
  BY TypePreserved, NumberedPreserved, BasePreserved, UnansweredPreserved, OpeningPreserved DEF LogInv

LEMMA LogInvariant == Spec => []LogInv
  <1>1. QED
    BY LogInit, LogPreserved, PTL DEF Spec

\* The tables, the requests and the history are always well formed.
THEOREM TypeCorrect == Spec => []TypeOK
  <1>1. LogInv => TypeOK
    BY DEF LogInv
  <1>2. QED
    BY <1>1, LogInvariant, PTL

-------------------------------------------------------------------------------
(* Registers are logs.                                                     *)

Entries == [by : Request, document : Policy \cup Manifest]

LEMMA FunctionIsSequence ==
  ASSUME NEW S, NEW n \in Nat, NEW f \in [1..n -> S]
  PROVE  f \in Seq(S) /\ Len(f) = n
  OBVIOUS

LEMMA LogIsSequence ==
  ASSUME LogInv, NEW g \in Registers
  PROVE  /\ Latest(g) \in Nat
         /\ LogOf(g) \in Seq(Entries)
         /\ Len(LogOf(g)) = Latest(g)
         /\ \A r \in rows[g] : LogOf(g)[r.revision] = [by |-> r.by, document |-> r.document]
  <1> DEFINE n == Latest(g)
             pick(m) == CHOOSE x \in rows[g] : x.revision = m
  <1>1. /\ n \in Nat
        /\ \A r \in rows[g] : r.revision \in 1..n
        /\ \A m \in 1..n : \E r \in rows[g] : r.revision = m
        /\ \A r, s \in rows[g] : r.revision = s.revision => r = s
        /\ rows[g] \in SUBSET Row
    BY DEF LogInv, Numbered, TypeOK
  <1>2. LogOf(g) = [m \in 1..n |-> [by |-> pick(m).by, document |-> pick(m).document]]
    BY DEF LogOf
  <1> HIDE DEF n
  <1>3. \A m \in 1..n : pick(m) \in rows[g] /\ pick(m).revision = m
    BY <1>1
  <1>4. \A r \in rows[g] : pick(r.revision) = r
    BY <1>1, <1>3
  <1> HIDE DEF pick
  <1>5. \A m \in 1..n : pick(m) \in Row
    BY <1>1, <1>3
  <1>6. LogOf(g) \in [1..n -> Entries]
    BY <1>2, <1>5 DEF Row, Entries
  <1>7. \A r \in rows[g] : LogOf(g)[r.revision] = [by |-> r.by, document |-> r.document]
    BY <1>1, <1>2, <1>4
  <1>8. LogOf(g) \in Seq(Entries) /\ Len(LogOf(g)) = n
    BY <1>1, <1>6, FunctionIsSequence
  <1>9. QED
    BY <1>1, <1>7, <1>8 DEF n

\* The same of the next state.
LogDescribes(g) ==
  /\ LogOf(g) \in Seq(Entries)
  /\ Len(LogOf(g)) = Latest(g)
  /\ \A r \in rows[g] : LogOf(g)[r.revision] = [by |-> r.by, document |-> r.document]

LEMMA NextLogIsSequence ==
  ASSUME NEW g \in Registers
  PROVE  LogInv' => LogDescribes(g)'
  <1>1. LogInv => LogDescribes(g)
    BY LogIsSequence DEF LogDescribes
  <1>2. QED
    BY <1>1, PTL

\* After an insertion the log is the old one with an entry of the author.
LEMMA LogGrows ==
  ASSUME LogInv, LogInv', NEW g \in Registers, NEW i \in Request, Inserting(i, g)
  PROVE  /\ Len(LogOf(g)') = Len(LogOf(g)) + 1
         /\ SubSeq(LogOf(g)', 1, Len(LogOf(g))) = LogOf(g)
         /\ LogOf(g)'[Len(LogOf(g)')] = [by |-> i, document |-> Input[i].document]
         /\ Len(LogOf(g)') = base[i] + 1
  <1> DEFINE n == Latest(g)
             new == [revision |-> n + 1, document |-> Input[i].document, by |-> i]
             old == LogOf(g)
             log == LogOf(g)'
  <1>1. /\ n \in Nat /\ old \in Seq(Entries) /\ Len(old) = n
        /\ \A r \in rows[g] : old[r.revision] = [by |-> r.by, document |-> r.document]
        /\ \A m \in 1..n : \E r \in rows[g] : r.revision = m
    BY LogIsSequence DEF LogInv, Numbered
  <1>2. base[i] = n /\ rows'[g] = rows[g] \cup {new} /\ Latest(g)' = n + 1
    BY RowIsNext DEF Inserting
  <1>3. \A r \in rows'[g] : log[r.revision] = [by |-> r.by, document |-> r.document]
    BY NextLogIsSequence DEF LogDescribes
  <1>4. log \in Seq(Entries) /\ Len(log) = Latest(g)'
    BY NextLogIsSequence DEF LogDescribes
  <1>5. new.revision = n + 1 /\ new.by = i /\ new.document = Input[i].document
    OBVIOUS
  <1> HIDE DEF n, new, old, log
  <1>6. Len(log) = n + 1 /\ log[n + 1] = [by |-> i, document |-> Input[i].document]
    BY <1>2, <1>3, <1>4, <1>5
  <1>7. ASSUME NEW m \in 1..n PROVE log[m] = old[m]
    <2>1. PICK r \in rows[g] : r.revision = m
      BY <1>1
    <2>2. r \in rows'[g]
      BY <1>2
    <2>3. QED
      BY <1>1, <1>3, <2>1, <2>2
  <1>8. SubSeq(log, 1, n) = old
    BY <1>1, <1>4, <1>6, <1>7
  <1>9. QED
    BY <1>1, <1>2, <1>6, <1>8 DEF n, old, log

LEMMA ToldStays ==
  ASSUME NEW g, \A j \in Replacing(g) : answer'[j] = "ok" <=> answer[j] = "ok",
         \A j \in Replacing(g) : answer[j] = "ok" => base'[j] = base[j]
  PROVE  ToldOf(g)' = ToldOf(g)
  <1>1. ToldOf(g)' = {<<i, base'[i] + 1>> : i \in {j \in Replacing(g) : answer'[j] = "ok"}}
    BY DEF ToldOf, Replacing
  <1>2. {j \in Replacing(g) : answer'[j] = "ok"} = {j \in Replacing(g) : answer[j] = "ok"}
    OBVIOUS
  <1>3. QED
    BY <1>1, <1>2 DEF ToldOf

LEMMA ToldGrows ==
  ASSUME LogInv, NEW g, NEW i \in Replacing(g), answer' = [answer EXCEPT ![i] = "ok"], base' = base
  PROVE  ToldOf(g)' = ToldOf(g) \cup {<<i, base[i] + 1>>}
  <1>1. ToldOf(g)' = {<<k, base[k] + 1>> : k \in {j \in Replacing(g) : answer'[j] = "ok"}}
    BY DEF ToldOf, Replacing
  <1>2. {j \in Replacing(g) : answer'[j] = "ok"} = {j \in Replacing(g) : answer[j] = "ok"} \cup {i}
    BY DEF LogInv, TypeOK, Replacing
  <1>3. QED
    BY <1>1, <1>2 DEF ToldOf

\* A row is appended; its author is answered with its number, or not at all.
Appends(g) ==
  /\ alive /\ alive'
  /\ Len(LogOf(g)') = Len(LogOf(g)) + 1
  /\ SubSeq(LogOf(g)', 1, Len(LogOf(g))) = LogOf(g)
  /\ LogOf(g)'[Len(LogOf(g)')] \in [by : Replacing(g), document : Documents(g)]
  /\ ToldOf(g)' \in {ToldOf(g), ToldOf(g) \cup {<<LogOf(g)'[Len(LogOf(g)')].by, Len(LogOf(g)')>>}}

Closes(g) == alive /\ ~alive' /\ LogOf(g)' = <<>> /\ ToldOf(g)' = ToldOf(g)

LEMMA RegisterSteps ==
  ASSUME LogInv, LogInv', [Next]_vars, NEW g \in Registers
  PROVE  \/ Appends(g)
         \/ Closes(g)
         \/ LogOf(g)' = LogOf(g) /\ ToldOf(g)' = ToldOf(g) /\ alive' = alive
  <1> USE DEF Answer, Goto
  <1>1. ASSUME NEW i \in Request, Inserting(i, g) PROVE Appends(g)
    <2>1. /\ Len(LogOf(g)') = Len(LogOf(g)) + 1
          /\ SubSeq(LogOf(g)', 1, Len(LogOf(g))) = LogOf(g)
          /\ LogOf(g)'[Len(LogOf(g)')] = [by |-> i, document |-> Input[i].document]
          /\ Len(LogOf(g)') = base[i] + 1
      BY <1>1, LogGrows
    <2>2. i \in Replacing(g) /\ Input[i].document \in Documents(g)
      BY <1>1 DEF Inserting, At, Replacing, Documents
    <2>3. ToldOf(g)' \in {ToldOf(g), ToldOf(g) \cup {<<i, base[i] + 1>>}}
      <3>1. CASE answer' = [answer EXCEPT ![i] = "ok"]
        BY <1>1, <2>2, <3>1, ToldGrows DEF Inserting
      <3>2. CASE answer' = [answer EXCEPT ![i] = "failed"]
        <4>1. answer[i] = "none"
          BY <1>1 DEF Inserting, At, LogInv, Unanswered
        <4>2. QED
          BY <1>1, <3>2, <4>1, ToldStays DEF Inserting, LogInv, TypeOK, Replacing
      <3>3. QED
        BY <1>1, <3>1, <3>2 DEF Inserting
    <2>4. QED
      BY <1>1, <2>1, <2>2, <2>3 DEF Appends, Inserting, Vacant
  <1>2. ASSUME NEW i \in Request, NEW h \in Registers, h # g, Inserting(i, h)
        PROVE  LogOf(g)' = LogOf(g) /\ ToldOf(g)' = ToldOf(g) /\ alive' = alive
    <2>1. rows'[g] = rows[g] /\ Latest(g)' = Latest(g)
      BY <1>2, RowIsNext DEF Inserting
    <2>2. ToldOf(g)' = ToldOf(g)
      BY <1>2, ToldStays DEF Inserting, At, LogInv, TypeOK, Replacing
    <2>3. QED
      BY <1>2, <2>1, <2>2 DEF LogOf, Inserting
  <1>3. CASE DeleteWorkspace
    <2>1. rows'[g] = {}
      BY <1>3 DEF DeleteWorkspace
    <2>2. Latest(g)' = 0
      BY <2>1, NextLatestIs
    <2>3. LogOf(g)' = <<>>
      BY <2>2 DEF LogOf
    <2>4. ToldOf(g)' = ToldOf(g)
      BY <1>3, ToldStays DEF DeleteWorkspace, locals
    <2>5. QED
      BY <1>3, <2>3, <2>4 DEF Closes, DeleteWorkspace
  <1>4. ASSUME rows' = rows, alive' = alive
        PROVE  LogOf(g)' = LogOf(g) /\ ToldOf(g)' = ToldOf(g) /\ alive' = alive
    <2>1. LogOf(g)' = LogOf(g)
      BY <1>4 DEF LogOf, Latest
    <2>2. ToldOf(g)' = ToldOf(g)
      <3>1. CASE \E i \in Request, h \in Registers : Inserting(i, h)
        <4>1. PICK i \in Request, h \in Registers : Inserting(i, h)
          BY <3>1
        <4>2. Latest(h) \in Nat /\ Latest(h)' = Latest(h) + 1
          BY <4>1, RowIsNext DEF Inserting, LogInv, Numbered
        <4>3. Latest(h)' = Latest(h)
          BY <1>4 DEF Latest
        <4>4. QED
          BY <4>2, <4>3
      <3>2. ASSUME NEW i \in Request, NEW h \in Registers, Reading(i, h) PROVE ToldOf(g)' = ToldOf(g)
        <4>1. answer[i] = "none" /\ answer' = answer /\ \A j \in Request \ {i} : base'[j] = base[j]
          BY <3>2 DEF Reading, ReadRevision, LogInv, Unanswered, TypeOK
        <4>2. QED
          BY <4>1, ToldStays DEF Replacing
      <3>3. ASSUME NEW i \in Request, NEW h \in Registers, NotInserting(i, h) PROVE ToldOf(g)' = ToldOf(g)
        <4>1. answer[i] = "none" /\ answer' = [answer EXCEPT ![i] = "failed"] /\ base' = base
          BY <3>3 DEF NotInserting, At, LogInv, Unanswered
        <4>2. QED
          BY <4>1, ToldStays DEF Replacing, LogInv, TypeOK
      <3>4. ASSUME NEW i \in Request, LookUp(i) PROVE ToldOf(g)' = ToldOf(g)
        <4>1. answer[i] = "none" /\ answer' \in {answer, [answer EXCEPT ![i] = "refused"]} /\ base' = base
          BY <3>4 DEF LookUp, At, LogInv, Unanswered
        <4>2. QED
          BY <4>1, ToldStays DEF Replacing, LogInv, TypeOK
      <3>5. ASSUME NEW i \in Request, Begin(i) PROVE ToldOf(g)' = ToldOf(g)
        BY <3>5, ToldStays DEF Begin
      <3>6. ASSUME NEW i \in Request, ReadPolicy(i) \/ Commit(i) \/ Approve(i) \/ Open(i)
            PROVE ToldOf(g)' = ToldOf(g)
        <4>1. i \notin Replacing(g)
          BY <3>6 DEF ReadPolicy, Commit, Approve, Open, At, LogInv, OpeningIsDownload, Replacing, Registers
        <4>2. base' = base /\ \A j \in Request \ {i} : answer'[j] = answer[j]
          BY <3>6 DEF ReadPolicy, Commit, Approve, Open, LogInv, TypeOK
        <4>3. QED
          BY <4>1, <4>2, ToldStays DEF Replacing
      <3>7. CASE DeleteWorkspace \/ Restart \/ UNCHANGED vars
        BY <3>7, ToldStays DEF DeleteWorkspace, Restart, vars, locals
      <3>8. QED
        BY <3>1, <3>2, <3>3, <3>4, <3>5, <3>6, <3>7, Steps
    <2>3. QED
      BY <1>4, <2>1, <2>2
  <1>5. QED
    BY <1>1, <1>2, <1>3, <1>4, RowsSteps

LEMMA RegistersInit == Init => Policies!Init /\ Manifests!Init
  <1> SUFFICES ASSUME Init PROVE Policies!Init /\ Manifests!Init
    OBVIOUS
  <1>1. \A g \in Registers : Latest(g) = 0
    BY LatestIs DEF Init
  <1>2. \A g \in Registers : LogOf(g) = <<>> /\ ToldOf(g) = {}
    BY <1>1 DEF Init, LogOf, ToldOf, Replacing
  <1>3. QED
    BY <1>2 DEF Init, Policies!Init, Manifests!Init, Registers

LEMMA RegistersStep ==
  LogInv /\ LogInv' /\ [Next]_vars
    => [Policies!Next]_(Policies!vars) /\ [Manifests!Next]_(Manifests!vars)
  <1> SUFFICES ASSUME LogInv, LogInv', [Next]_vars
               PROVE  [Policies!Next]_(Policies!vars) /\ [Manifests!Next]_(Manifests!vars)
    OBVIOUS
  <1>1. "policy" \in Registers /\ "manifest" \in Registers
    BY DEF Registers
  <1>2. [Policies!Next]_(Policies!vars)
    <2>1. Appends("policy") => Policies!Replace
      BY DEF Appends, Policies!Replace, Policies!Entry
    <2>2. Closes("policy") => Policies!Close
      BY DEF Closes, Policies!Close
    <2>3. QED
      BY <1>1, <2>1, <2>2, RegisterSteps DEF Policies!Next, Policies!vars
  <1>3. [Manifests!Next]_(Manifests!vars)
    <2>1. Appends("manifest") => Manifests!Replace
      BY DEF Appends, Manifests!Replace, Manifests!Entry
    <2>2. Closes("manifest") => Manifests!Close
      BY DEF Closes, Manifests!Close
    <2>3. QED
      BY <1>1, <2>1, <2>2, RegisterSteps DEF Manifests!Next, Manifests!vars
  <1>4. QED
    BY <1>2, <1>3

\* However reads and inserts of several administrators interleave, policies and
\* manifests are logs.
THEOREM RegistersAreLogs == Spec => KeepsRegisters
  <1>1. QED
    BY LogInvariant, RegistersInit, RegistersStep, PTL
       DEF Spec, KeepsRegisters, Policies!Spec, Manifests!Spec

-------------------------------------------------------------------------------
(* Releases follow the policy.                                             *)

\* Some policy in force from revision a to b had the setting, or had it not.
Asked(setting, a, b) == \E n \in a..b : setting \in PolicyAt(n)
NotAsked(setting, a, b) == \E n \in a..b : setting \notin PolicyAt(n)

\* What a publication carries from its read of the policy to its commit.
CarriesPolicy(i) ==
  LET now == Latest("policy") IN
  /\ stage[i] \in {"reading", "saving"} => since[i] <= now
  /\ stage[i] = "saving" =>
       /\ status[i] \in {"published", "pending_approval"}
       /\ status[i] = "published" => NotAsked(RequireApproval, since[i], now)
       /\ status[i] = "pending_approval" => Asked(RequireApproval, since[i], now)
       /\ ~verifier => NotAsked(RequireSignature, since[i], now)

\* What a saved release keeps of it; an approved one was held back before.
KeepsPolicy(r) ==
  LET i == releases[r].by IN
  /\ stage[i] = "done"
  /\ until[i] <= Latest("policy")
  /\ releases[r].status = "published" => NotAsked(RequireApproval, since[i], until[i])
  /\ releases[r].status # "published" => Asked(RequireApproval, since[i], until[i])
  /\ ~releases[r].signed => NotAsked(RequireSignature, since[i], until[i])

GateInv ==
  alive => /\ \A i \in Request : Input[i].kind = "publish" => CarriesPolicy(i)
           /\ \A r \in Release : releases[r] # NoRelease => KeepsPolicy(r)

\* Revisions of the policy never change while the workspace is there.
LEMMA PolicyStays ==
  ASSUME LogInv, [Next]_vars, alive', NEW n \in 0..Latest("policy")
  PROVE  PolicyAt(n)' = PolicyAt(n)
  <1>1. "policy" \in Registers
    BY DEF Registers
  <1>2. ASSUME NEW i \in Request, NEW h \in Registers, Inserting(i, h)
        PROVE  {x \in rows'["policy"] : x.revision = n} = {x \in rows["policy"] : x.revision = n}
    <2> DEFINE k == Latest("policy")
               new == [revision |-> k + 1, document |-> Input[i].document, by |-> i]
    <2>1. k \in Nat /\ n \in 0..k
      BY <1>1 DEF LogInv, Numbered
    <2>2. rows'["policy"] = rows["policy"] \/ rows'["policy"] = rows["policy"] \cup {new}
      BY <1>1, <1>2, RowIsNext DEF Inserting
    <2>3. new.revision = k + 1
      OBVIOUS
    <2> HIDE DEF k, new
    <2>4. new.revision # n
      BY <2>1, <2>3
    <2>5. QED
      BY <2>2, <2>4
  <1>3. ASSUME {x \in rows'["policy"] : x.revision = n} = {x \in rows["policy"] : x.revision = n}
        PROVE  PolicyAt(n)' = PolicyAt(n)
    BY <1>3 DEF PolicyAt
  <1>4. QED
    BY <1>2, <1>3, RowsSteps DEF DeleteWorkspace

LEMMA GateInit == Init => GateInv
  <1> SUFFICES ASSUME Init PROVE GateInv
    OBVIOUS
  <1>1. \A i \in Request : stage[i] = "idle"
    BY DEF Init
  <1>2. \A r \in Release : releases[r] = NoRelease
    BY DEF Init
  <1>3. QED
    BY <1>1, <1>2 DEF GateInv, CarriesPolicy

\* A publication at the same stage as before carries what it carried.
LEMMA CarriesStays ==
  ASSUME LogInv, LogInv', [Next]_vars, alive', NEW i \in Request, CarriesPolicy(i),
         stage'[i] = stage[i], since'[i] = since[i], status'[i] = status[i], verifier' = verifier
  PROVE  CarriesPolicy(i)'
  <1>1. /\ Latest("policy") \in Nat /\ Latest("policy")' \in Nat
        /\ Latest("policy") <= Latest("policy")' /\ since[i] \in Nat
    BY LatestGrows DEF LogInv, Numbered, Registers, TypeOK
  <1>2. /\ Asked(RequireApproval, since[i], Latest("policy"))
             => \E n \in since'[i]..Latest("policy")' : RequireApproval \in PolicyAt(n)'
        /\ NotAsked(RequireApproval, since[i], Latest("policy"))
             => \E n \in since'[i]..Latest("policy")' : RequireApproval \notin PolicyAt(n)'
        /\ NotAsked(RequireSignature, since[i], Latest("policy"))
             => \E n \in since'[i]..Latest("policy")' : RequireSignature \notin PolicyAt(n)'
    <2>1. \A n \in since[i]..Latest("policy") :
            PolicyAt(n)' = PolicyAt(n) /\ n \in since'[i]..Latest("policy")'
      BY <1>1, PolicyStays
    <2>2. QED
      BY <2>1 DEF Asked, NotAsked
  <1>3. QED
    BY <1>1, <1>2 DEF CarriesPolicy, Asked, NotAsked

\* So does a release that is not touched.
LEMMA KeepsStays ==
  ASSUME LogInv, LogInv', [Next]_vars, alive', NEW r \in Release, releases[r] # NoRelease, KeepsPolicy(r),
         releases'[r] # NoRelease, releases'[r].by = releases[r].by,
         releases'[r].status = "published" <=> releases[r].status = "published",
         releases'[r].signed = releases[r].signed,
         stage'[releases[r].by] = "done",
         since'[releases[r].by] = since[releases[r].by],
         until'[releases[r].by] = until[releases[r].by]
  PROVE  KeepsPolicy(r)'
  <1> DEFINE i == releases[r].by
  <1>1. i \in Request /\ since[i] \in Nat /\ until[i] \in Nat
    BY DEF LogInv, TypeOK, ReleaseRow
  <1>2. /\ Latest("policy") \in Nat /\ Latest("policy")' \in Nat /\ Latest("policy") <= Latest("policy")'
        /\ until[i] <= Latest("policy")
    BY LatestGrows DEF LogInv, Numbered, Registers, KeepsPolicy
  <1>3. \A n \in since[i]..until[i] : PolicyAt(n)' = PolicyAt(n)
    BY <1>1, <1>2, PolicyStays
  <1>4. QED
    BY <1>1, <1>2, <1>3 DEF KeepsPolicy, Asked, NotAsked

\* A request that was answered does nothing more.
LEMMA DoneStays ==
  ASSUME LogInv, [Next]_vars, NEW i \in Request, stage[i] = "done"
  PROVE  stage'[i] = "done" /\ since'[i] = since[i] /\ until'[i] = until[i]
  <1> USE DEF LogInv, TypeOK, Goto, Answer
  <1>1. ASSUME NEW j \in Request, NEW g \in Registers, Reading(j, g) \/ Inserting(j, g) \/ NotInserting(j, g)
        PROVE  stage'[i] = "done" /\ since'[i] = since[i] /\ until'[i] = until[i]
    BY <1>1 DEF Reading, ReadRevision, Inserting, NotInserting, At
  <1>2. ASSUME NEW j \in Request, Begin(j) \/ LookUp(j) \/ ReadPolicy(j) \/ Approve(j) \/ Open(j)
        PROVE  stage'[i] = "done" /\ since'[i] = since[i] /\ until'[i] = until[i]
    BY <1>2 DEF Begin, LookUp, ReadPolicy, Approve, Open, At
  <1>3. ASSUME NEW j \in Request, Commit(j)
        PROVE  stage'[i] = "done" /\ since'[i] = since[i] /\ until'[i] = until[i]
    BY <1>3 DEF Commit, At, SaveRelease
  <1>4. CASE DeleteWorkspace \/ Restart \/ UNCHANGED vars
    BY <1>4 DEF DeleteWorkspace, Restart, vars, locals
  <1>5. QED
    BY <1>1, <1>2, <1>3, <1>4, Steps

\* Publications in progress carry a policy of their time.
LEMMA CarriesPreserved ==
  ASSUME LogInv, LogInv', GateInv, [Next]_vars, alive', NEW i \in Request, Input[i].kind = "publish"
  PROVE  CarriesPolicy(i)'
  <1>1. alive /\ CarriesPolicy(i)
    BY LatestGrows DEF GateInv, Registers
  <1>2. ASSUME stage'[i] \notin {"reading", "saving"} PROVE CarriesPolicy(i)'
    BY <1>2 DEF CarriesPolicy
  <1>3. CASE stage'[i] = stage[i] /\ since'[i] = since[i] /\ status'[i] = status[i] /\ verifier' = verifier
    BY <1>1, <1>3, CarriesStays
  <1>4. CASE Begin(i)
    <2>1. stage'[i] = "reading" /\ since'[i] = Latest("policy")
      BY <1>4 DEF Begin, First, LogInv, TypeOK
    <2>2. Latest("policy") \in Nat /\ Latest("policy")' = Latest("policy")
      BY <1>4 DEF Begin, tables, Latest, LogInv, Numbered, Registers
    <2>3. QED
      BY <2>1, <2>2 DEF CarriesPolicy
  <1>5. CASE ReadPolicy(i) /\ stage'[i] = "saving"
    <2>0. PICK n : n = Latest("policy")
      OBVIOUS
    <2>1. /\ RequireSignature \in PolicyAt(n) => verifier
          /\ status'[i] = ReleaseStatus(PolicyAt(n))
          /\ verifier' = verifier /\ since'[i] = since[i]
      BY <1>5, <2>0 DEF ReadPolicy, Goto, Answer, LogInv, TypeOK
    <2>2. since[i] \in Nat /\ n \in Nat /\ since[i] <= n
      BY <1>1, <1>5, <2>0 DEF ReadPolicy, At, CarriesPolicy, LogInv, Numbered, Registers, TypeOK
    <2>3. Latest("policy")' = n /\ PolicyAt(n)' = PolicyAt(n)
      BY <1>5, <2>0 DEF ReadPolicy, tables, Latest, PolicyAt
    <2>4. n \in since'[i]..Latest("policy")'
      BY <2>1, <2>2, <2>3
    <2>5. /\ status'[i] = "published" => NotAsked(RequireApproval, since[i], Latest("policy"))'
          /\ status'[i] = "pending_approval" => Asked(RequireApproval, since[i], Latest("policy"))'
          /\ status'[i] \in {"published", "pending_approval"}
          /\ ~verifier' => NotAsked(RequireSignature, since[i], Latest("policy"))'
      BY <2>1, <2>3, <2>4 DEF ReleaseStatus, Asked, NotAsked
    <2>6. QED
      BY <2>1, <2>2, <2>3, <2>5 DEF CarriesPolicy
  <1>6. ASSUME NEW j \in Request, NEW g \in Registers, Reading(j, g) \/ Inserting(j, g) \/ NotInserting(j, g)
        PROVE  CarriesPolicy(i)'
    <2>1. j # i
      BY <1>6 DEF Reading, Inserting, NotInserting, At, Registers
    <2>2. QED
      BY <1>3, <1>6, <2>1 DEF Reading, ReadRevision, Inserting, NotInserting, Goto, Answer, LogInv, TypeOK
  <1>7. ASSUME NEW j \in Request, Begin(j) \/ LookUp(j) \/ ReadPolicy(j) \/ Commit(j) \/ Approve(j) \/ Open(j)
        PROVE  CarriesPolicy(i)'
    <2>1. CASE j = i
      <3>1. CASE LookUp(j) \/ Commit(j) \/ Approve(j) \/ Open(j)
        BY <1>2, <2>1, <3>1 DEF LookUp, Commit, Approve, Open, At, Answer, LogInv, TypeOK
      <3>2. CASE ReadPolicy(j) /\ stage'[i] # "saving"
        BY <1>2, <2>1, <3>2 DEF ReadPolicy, Goto, Answer, LogInv, TypeOK
      <3>3. QED
        BY <1>4, <1>5, <1>7, <2>1, <3>1, <3>2
    <2>2. CASE j # i
      <3> USE DEF Goto, Answer, LogInv, TypeOK
      <3>1. CASE Begin(j)
        BY <1>3, <2>2, <3>1 DEF Begin
      <3>2. CASE LookUp(j) \/ Approve(j) \/ Open(j)
        BY <1>3, <2>2, <3>2 DEF LookUp, Approve, Open
      <3>3. CASE ReadPolicy(j)
        BY <1>3, <2>2, <3>3 DEF ReadPolicy
      <3>4. CASE Commit(j)
        BY <1>3, <2>2, <3>4 DEF Commit, SaveRelease
      <3>5. QED
        BY <1>7, <3>1, <3>2, <3>3, <3>4
    <2>3. QED
      BY <2>1, <2>2
  <1>8. CASE Restart
    BY <1>2, <1>8 DEF Restart, LogInv, TypeOK
  <1>9. CASE DeleteWorkspace \/ UNCHANGED vars
    BY <1>3, <1>9 DEF DeleteWorkspace, vars, locals
  <1>10. QED
    BY <1>6, <1>7, <1>8, <1>9, Steps

\* What a step does to the row of a release.
LEMMA ReleaseSteps ==
  ASSUME LogInv, [Next]_vars, alive', NEW r \in Release
  PROVE  \/ releases'[r] = releases[r]
         \/ \E i \in Request :
              /\ Input[i].kind = "publish" /\ Input[i].release = r /\ stage[i] = "saving" /\ stage'[i] = "done"
              /\ releases[r] = NoRelease
              /\ releases'[r] = [digest |-> Input[i].digest, status |-> status[i], signed |-> verifier, by |-> i]
              /\ since'[i] = since[i] /\ until'[i] = Latest("policy") /\ rows' = rows
         \/ /\ Approvable(r)
            /\ releases'[r] = [releases[r] EXCEPT !.status = "approved"]
  <1> USE DEF LogInv, TypeOK
  <1>1. ASSUME NEW i \in Request, Commit(i), r = Input[i].release, SaveRelease(i), releases[r] = NoRelease
        PROVE  /\ Input[i].kind = "publish" /\ stage[i] = "saving" /\ stage'[i] = "done"
               /\ releases'[r] = [digest |-> Input[i].digest, status |-> status[i], signed |-> verifier, by |-> i]
               /\ since'[i] = since[i] /\ until'[i] = Latest("policy") /\ rows' = rows
    BY <1>1 DEF Commit, At, SaveRelease, Answer
  <1>2. ASSUME NEW i \in Request, Commit(i)
        PROVE  releases'[r] = releases[r] \/ (r = Input[i].release /\ SaveRelease(i) /\ releases[r] = NoRelease)
    BY <1>2 DEF Commit, SaveRelease
  <1>3. ASSUME NEW i \in Request, Approve(i)
        PROVE  releases'[r] = releases[r] \/ (Approvable(r) /\ releases'[r] = [releases[r] EXCEPT !.status = "approved"])
    BY <1>3 DEF Approve, ApproveRow
  <1>4. releases' = releases \/ \E i \in Request : Commit(i) \/ Approve(i)
    <2>1. ASSUME NEW i \in Request, NEW g \in Registers, Reading(i, g) \/ Inserting(i, g) \/ NotInserting(i, g)
          PROVE  releases' = releases
      BY <2>1 DEF Reading, ReadRevision, Inserting, NotInserting, tables
    <2>2. ASSUME NEW i \in Request, Begin(i) \/ LookUp(i) \/ ReadPolicy(i) \/ Open(i)
          PROVE  releases' = releases
      BY <2>2 DEF Begin, LookUp, ReadPolicy, Open, tables
    <2>3. CASE Restart \/ UNCHANGED vars
      BY <2>3 DEF Restart, vars, tables
    <2>4. ~DeleteWorkspace
      BY DEF DeleteWorkspace
    <2> HIDE DEF LogInv, TypeOK
    <2>5. QED
      BY <2>1, <2>2, <2>3, <2>4, Steps
  <1> HIDE DEF LogInv, TypeOK
  <1>5. CASE releases' = releases
    BY <1>5
  <1>6. CASE \E i \in Request : Approve(i)
    BY <1>3, <1>6
  <1>7. CASE \E i \in Request : Commit(i)
    <2>1. PICK i \in Request : Commit(i)
      BY <1>7
    <2>2. CASE releases'[r] # releases[r]
      <3>1. r = Input[i].release /\ SaveRelease(i) /\ releases[r] = NoRelease
        BY <1>2, <2>1, <2>2
      <3>2. QED
        BY <1>1, <2>1, <3>1
    <2>3. QED
      BY <2>2
  <1>8. QED
    BY <1>4, <1>5, <1>6, <1>7

LEMMA KeepsPreserved ==
  ASSUME LogInv, LogInv', GateInv, [Next]_vars, alive', NEW r \in Release, releases'[r] # NoRelease
  PROVE  KeepsPolicy(r)'
  <1>1. alive
    BY LatestGrows DEF Registers
  <1>2. CASE releases'[r] = releases[r]
    <2>1. KeepsPolicy(r) /\ stage[releases[r].by] = "done" /\ releases[r].by \in Request
      BY <1>1, <1>2 DEF GateInv, KeepsPolicy, LogInv, TypeOK, ReleaseRow
    <2>2. QED
      BY <1>2, <2>1, DoneStays, KeepsStays
  <1>3. CASE Approvable(r) /\ releases'[r] = [releases[r] EXCEPT !.status = "approved"]
    <2>1. releases[r] \in ReleaseRow /\ releases[r].status = "pending_approval" /\ releases[r] # NoRelease
      BY <1>3 DEF Approvable, LogInv, TypeOK
    <2>2. /\ releases'[r].status = "approved" /\ releases'[r].by = releases[r].by
          /\ releases'[r].signed = releases[r].signed
      BY <1>3, <2>1 DEF ReleaseRow
    <2>3. KeepsPolicy(r) /\ stage[releases[r].by] = "done" /\ releases[r].by \in Request
      BY <1>1, <2>1 DEF GateInv, KeepsPolicy, ReleaseRow
    <2>4. QED
      BY <2>1, <2>2, <2>3, DoneStays, KeepsStays
  <1>4. ASSUME NEW i \in Request,
               Input[i].kind = "publish", stage[i] = "saving", stage'[i] = "done",
               releases'[r] = [digest |-> Input[i].digest, status |-> status[i], signed |-> verifier, by |-> i],
               since'[i] = since[i], until'[i] = Latest("policy"), rows' = rows
        PROVE  KeepsPolicy(r)'
    <2> DEFINE n == Latest("policy")
    <2>1. n \in Nat /\ n' = n /\ \A m : PolicyAt(m)' = PolicyAt(m)
      BY <1>4 DEF LogInv, Numbered, Registers, Latest, PolicyAt
    <2>2. /\ status[i] \in {"published", "pending_approval"}
          /\ status[i] = "published" => NotAsked(RequireApproval, since[i], n)
          /\ status[i] = "pending_approval" => Asked(RequireApproval, since[i], n)
          /\ ~verifier => NotAsked(RequireSignature, since[i], n)
      BY <1>1, <1>4 DEF GateInv, CarriesPolicy
    <2>3. /\ releases'[r].by = i /\ releases'[r].status = status[i] /\ releases'[r].signed = verifier
      BY <1>4
    <2>4. /\ \A x : NotAsked(x, since[i], n) => NotAsked(x, since[i], until[i])'
          /\ \A x : Asked(x, since[i], n) => Asked(x, since[i], until[i])'
      BY <1>4, <2>1 DEF Asked, NotAsked
    <2> HIDE DEF n
    <2>5. until'[i] <= Latest("policy")'
      BY <1>4, <2>1 DEF n
    <2>6. QED
      BY <1>4, <2>2, <2>3, <2>4, <2>5 DEF KeepsPolicy, NotAsked, Asked
  <1>5. QED
    BY <1>2, <1>3, <1>4, ReleaseSteps

LEMMA GatePreserved == LogInv /\ LogInv' /\ GateInv /\ [Next]_vars => GateInv'
  BY CarriesPreserved, KeepsPreserved DEF GateInv

LEMMA GateInvariant == Spec => []GateInv
  <1>1. QED
    BY LogInvariant, GateInit, GatePreserved, PTL DEF Spec

\* A release is let out or held back by a policy that was in force at some moment of
\* its publication.
THEOREM ReleasesFollowPolicies == Spec => []GateFollowsThePolicy
  <1>1. GateInv => GateFollowsThePolicy
    BY DEF GateInv, KeepsPolicy, GateFollowsThePolicy, Meanwhile, Asked, NotAsked
  <1>2. QED
    BY <1>1, GateInvariant, PTL

-------------------------------------------------------------------------------
(* What is held back stays inside.                                         *)

\* A manifest request has found what it no longer has to look up.
FoundInside(i) ==
  Input[i].kind = "manifest" =>
    /\ stage[i] \in {"checking", "saving"} =>
         \A e \in Input[i].document \ todo[i] : Downloadable(e.release) /\ releases[e.release].digest = e.digest
    /\ stage[i] = "saving" => todo[i] = {}

InsideInv ==
  /\ PendingStaysInside
  /\ alive => /\ \A i \in Request : FoundInside(i)
              /\ \A m \in rows["manifest"] : m.document \in Manifest

LEMMA PublicIsDownloadable ==
  ASSUME LogInv, NEW r \in Release
  PROVE  Public(r) <=> Downloadable(r)
  BY DEF LogInv, TypeOK, ReleaseRow, Statuses, Public, Downloadable

\* A release that may be downloaded stays so, with its content.
LEMMA DownloadableStays ==
  ASSUME LogInv, [Next]_vars, alive', NEW r \in Release, Downloadable(r)
  PROVE  Downloadable(r)' /\ releases'[r].digest = releases[r].digest
  <1>1. releases[r] # NoRelease /\ releases[r].status # "pending_approval"
    BY DEF Downloadable
  <1>2. releases'[r] = releases[r]
    BY <1>1, ReleaseSteps DEF Approvable
  <1>3. QED
    BY <1>2 DEF Downloadable

\* Entries of a manifest name releases.
LEMMA EntryIsRelease ==
  ASSUME LogInv, NEW i \in Request, Input[i].kind = "manifest", NEW e \in Input[i].document
  PROVE  e.release \in Release
  BY DEF Manifest

LEMMA ServedInside ==
  ASSUME LogInv, InsideInv, [Next]_vars, alive', NEW d \in served'
  PROVE  \E r \in Release : Downloadable(r)' /\ releases'[r].digest = d
  <1>1. alive
    BY LatestGrows DEF Registers
  <1>2. ASSUME NEW r \in Release, Downloadable(r), releases[r].digest = d
        PROVE  \E x \in Release : Downloadable(x)' /\ releases'[x].digest = d
    BY <1>2, DownloadableStays
  <1>3. CASE d \in served
    BY <1>1, <1>2, <1>3 DEF InsideInv, PendingStaysInside
  <1>4. ASSUME NEW i \in Request, Open(i), d \notin served
        PROVE  \E r \in Release : Downloadable(r) /\ releases[r].digest = d
    <2>1. PICK r \in Found(Input[i]) : Public(r) /\ served' = served \cup {releases[r].digest}
      BY <1>4 DEF Open
    <2>2. r \in Release
      BY DEF Found, Calls
    <2>3. QED
      BY <1>4, <2>1, <2>2, PublicIsDownloadable
  <1>5. served' = served \/ \E i \in Request : Open(i)
    BY Steps DEF Reading, ReadRevision, Inserting, NotInserting, Begin, LookUp, ReadPolicy, Commit, Approve,
                 DeleteWorkspace, Restart, vars
  <1>6. QED
    BY <1>2, <1>3, <1>4, <1>5

LEMMA FoundPreserved ==
  ASSUME LogInv, InsideInv, [Next]_vars, alive', NEW i \in Request, Input[i].kind = "manifest"
  PROVE  FoundInside(i)'
  <1>1. alive /\ FoundInside(i)
    BY LatestGrows DEF Registers, InsideInv
  <1>2. \A e \in Input[i].document : Downloadable(e.release) =>
          Downloadable(e.release)' /\ releases'[e.release].digest = releases[e.release].digest
    BY EntryIsRelease, DownloadableStays
  <1>3. CASE stage'[i] = stage[i] /\ todo'[i] = todo[i]
    BY <1>1, <1>2, <1>3 DEF FoundInside
  <1>4. CASE stage'[i] \notin {"checking", "saving"}
    BY <1>4 DEF FoundInside
  <1>5. CASE LookUp(i) /\ stage'[i] = "checking"
    <2>1. PICK e \in todo[i] : /\ Public(e.release) /\ releases[e.release].digest = e.digest
                               /\ todo' = [todo EXCEPT ![i] = @ \ {e}]
      BY <1>5 DEF LookUp, Answer, LogInv, TypeOK
    <2>2. e.release \in Release
      BY <2>1 DEF LogInv, TypeOK, Manifest
    <2>3. Downloadable(e.release)' /\ releases'[e.release].digest = e.digest
      BY <2>1, <2>2, PublicIsDownloadable, DownloadableStays
    <2>4. todo'[i] = todo[i] \ {e} /\ stage[i] = "checking"
      BY <1>5, <2>1 DEF LookUp, At, LogInv, TypeOK
    <2>5. QED
      BY <1>1, <1>2, <1>5, <2>3, <2>4 DEF FoundInside
  <1>6. ASSUME NEW g \in Registers, Reading(i, g) PROVE FoundInside(i)'
    <2>1. stage[i] = "checking" /\ todo[i] = {} /\ todo'[i] = {}
      BY <1>6 DEF Reading, ReadRevision
    <2>2. QED
      BY <1>1, <1>2, <2>1 DEF FoundInside
  <1>7. CASE Begin(i)
    BY <1>7 DEF Begin, First, FoundInside, LogInv, TypeOK
  <1>8. ASSUME NEW j \in Request, NEW g \in Registers, Reading(j, g) \/ Inserting(j, g) \/ NotInserting(j, g)
        PROVE  FoundInside(i)'
    <2> USE DEF Goto, Answer, LogInv, TypeOK
    <2>1. CASE j # i
      BY <1>3, <1>8, <2>1 DEF Reading, ReadRevision, Inserting, NotInserting
    <2>2. CASE j = i
      BY <1>4, <1>6, <1>8, <2>2 DEF Inserting, NotInserting
    <2>3. QED
      BY <2>1, <2>2
  <1>9. ASSUME NEW j \in Request, Begin(j) \/ LookUp(j) \/ ReadPolicy(j) \/ Commit(j) \/ Approve(j) \/ Open(j)
        PROVE  FoundInside(i)'
    <2> USE DEF Goto, Answer, LogInv, TypeOK
    <2>1. CASE j # i
      BY <1>3, <1>9, <2>1 DEF Begin, LookUp, ReadPolicy, Commit, Approve, Open
    <2>2. CASE j = i /\ LookUp(i)
      BY <1>4, <1>5, <2>2 DEF LookUp
    <2>3. CASE j = i /\ (ReadPolicy(i) \/ Commit(i) \/ Approve(i) \/ Open(i))
      BY <1>4, <2>3 DEF ReadPolicy, Commit, Approve, Open, At
    <2>4. QED
      BY <1>7, <1>9, <2>1, <2>2, <2>3
  <1>10. CASE Restart
    BY <1>4, <1>10 DEF Restart, LogInv, TypeOK
  <1>11. CASE DeleteWorkspace \/ UNCHANGED vars
    BY <1>3, <1>11 DEF DeleteWorkspace, vars, locals
  <1>12. QED
    BY <1>8, <1>9, <1>10, <1>11, Steps

\* The rows of manifests are those of requests that have found all they name.
LEMMA ManifestsInside ==
  ASSUME LogInv, InsideInv, [Next]_vars, alive', NEW m \in rows'["manifest"]
  PROVE  /\ m.document \in Manifest
         /\ \A e \in m.document : Downloadable(e.release)' /\ releases'[e.release].digest = e.digest
  <1>1. alive /\ "manifest" \in Registers
    BY LatestGrows DEF Registers
  <1>2. m.document \in Manifest
        /\ \A e \in m.document : Downloadable(e.release) /\ releases[e.release].digest = e.digest
    <2>1. CASE m \in rows["manifest"]
      BY <1>1, <2>1 DEF InsideInv, PendingStaysInside
    <2>2. ASSUME NEW i \in Request, Inserting(i, "manifest"), m.document = Input[i].document
          PROVE  m.document \in Manifest
                 /\ \A e \in m.document : Downloadable(e.release) /\ releases[e.release].digest = e.digest
      BY <1>1, <2>2 DEF Inserting, At, InsideInv, FoundInside
    <2>3. ASSUME NEW i \in Request, NEW g \in Registers, Inserting(i, g)
          PROVE  m \in rows["manifest"] \/ (g = "manifest" /\ m.document = Input[i].document)
      BY <1>1, <2>3, RowIsNext DEF Inserting
    <2>4. QED
      BY <1>1, <2>1, <2>2, <2>3, RowsSteps DEF DeleteWorkspace
  <1>3. \A e \in m.document : e.release \in Release
    BY <1>2 DEF Manifest
  <1>4. QED
    BY <1>2, <1>3, DownloadableStays

LEMMA InsideInit == Init => InsideInv
  <1> SUFFICES ASSUME Init PROVE InsideInv
    OBVIOUS
  <1>1. rows["manifest"] = {} /\ served = {} /\ \A i \in Request : stage[i] = "idle"
    BY DEF Init, Registers
  <1>2. QED
    BY <1>1 DEF InsideInv, PendingStaysInside, FoundInside

LEMMA InsidePreserved == LogInv /\ InsideInv /\ [Next]_vars => InsideInv'
  <1> SUFFICES ASSUME LogInv, InsideInv, [Next]_vars, alive' PROVE InsideInv'
    BY DEF InsideInv, PendingStaysInside
  <1>1. PendingStaysInside'
    BY ServedInside, ManifestsInside DEF PendingStaysInside
  <1>2. \A i \in Request : FoundInside(i)'
    <2>1. ASSUME NEW i \in Request, Input[i].kind # "manifest" PROVE FoundInside(i)'
      BY <2>1 DEF FoundInside
    <2>2. QED
      BY <2>1, FoundPreserved
  <1>3. QED
    BY <1>1, <1>2, ManifestsInside DEF InsideInv

\* No client is sent content that is held back for approval, and no manifest names
\* it.
THEOREM PendingInside == Spec => []PendingStaysInside
  <1>1. InsideInv => PendingStaysInside
    BY DEF InsideInv
  <1>2. QED
    BY <1>1, LogInvariant, InsideInit, InsidePreserved, PTL DEF Spec

-------------------------------------------------------------------------------
(* A release is approved once.                                             *)

\* A release that is not there was never approved.
CountedInv ==
  alive => \A r \in Release :
    announced[r] = IF releases[r] # NoRelease /\ releases[r].status = "approved" THEN 1 ELSE 0

LEMMA CountedPreserved == LogInv /\ GateInv /\ CountedInv /\ [Next]_vars => CountedInv'
  <1> SUFFICES ASSUME LogInv, GateInv, CountedInv, [Next]_vars, alive', NEW r \in Release
               PROVE  announced'[r] = IF releases'[r] # NoRelease /\ releases'[r].status = "approved" THEN 1 ELSE 0
    BY DEF CountedInv
  <1>1. alive
    BY LatestGrows DEF Registers
  <1>2. announced[r] = IF releases[r] # NoRelease /\ releases[r].status = "approved" THEN 1 ELSE 0
    BY <1>1 DEF CountedInv
  <1>3. CASE announced'[r] = announced[r] /\ releases'[r] = releases[r]
    BY <1>2, <1>3
  <1>4. ASSUME NEW i \in Request, Commit(i)
        PROVE  announced'[r] = IF releases'[r] # NoRelease /\ releases'[r].status = "approved" THEN 1 ELSE 0
    <2>1. announced' = announced
      BY <1>4 DEF Commit
    <2>2. CASE releases'[r] # releases[r]
      <3>1. r = Input[i].release /\ releases[r] = NoRelease /\ SaveRelease(i)
        BY <1>4, <2>2 DEF Commit, SaveRelease, LogInv, TypeOK
      <3>2. releases'[r].status = status[i]
        BY <3>1 DEF SaveRelease, LogInv, TypeOK
      <3>3. status[i] # "approved"
        BY <1>1, <1>4 DEF Commit, At, GateInv, CarriesPolicy
      <3>4. QED
        BY <1>2, <2>1, <3>1, <3>2, <3>3
    <2>3. QED
      BY <1>3, <2>1, <2>2
  <1>5. ASSUME NEW i \in Request, Approve(i)
        PROVE  announced'[r] = IF releases'[r] # NoRelease /\ releases'[r].status = "approved" THEN 1 ELSE 0
    <2>1. CASE r = Input[i].release /\ ApproveRow(r)
      <3>1. releases[r] \in ReleaseRow /\ releases[r].status = "pending_approval"
        BY <2>1 DEF ApproveRow, Approvable, LogInv, TypeOK
      <3>2. releases'[r] = [releases[r] EXCEPT !.status = "approved"] /\ announced'[r] = announced[r] + 1
        BY <2>1 DEF ApproveRow, LogInv, TypeOK
      <3>3. releases'[r].status = "approved" /\ releases'[r] \in ReleaseRow
        BY <3>1, <3>2 DEF ReleaseRow, Statuses
      <3>4. QED
        BY <1>2, <3>1, <3>2, <3>3
    <2>2. CASE ~(r = Input[i].release /\ ApproveRow(r))
      <3>1. announced'[r] = announced[r] /\ releases'[r] = releases[r]
        BY <1>5, <2>2 DEF Approve, ApproveRow, LogInv, TypeOK
      <3>2. QED
        BY <1>3, <3>1
    <2>3. QED
      BY <2>1, <2>2
  <1>6. ASSUME NEW i \in Request, NEW g \in Registers, Reading(i, g) \/ Inserting(i, g) \/ NotInserting(i, g)
        PROVE  announced' = announced /\ releases' = releases
    BY <1>6 DEF Reading, ReadRevision, Inserting, NotInserting, tables
  <1>7. ASSUME NEW i \in Request, Begin(i) \/ LookUp(i) \/ ReadPolicy(i) \/ Open(i)
        PROVE  announced' = announced /\ releases' = releases
    BY <1>7 DEF Begin, LookUp, ReadPolicy, Open, tables
  <1>8. CASE Restart \/ UNCHANGED vars
    BY <1>3, <1>8 DEF Restart, vars, tables
  <1>9. ~DeleteWorkspace
    BY DEF DeleteWorkspace
  <1>10. QED
    BY <1>3, <1>4, <1>5, <1>6, <1>7, <1>8, <1>9, Steps

\* A release is approved and announced once, and only one that a policy has held
\* back.
THEOREM ApprovedAtMostOnce == Spec => []ApprovedOnce
  <1>1. Init => CountedInv
    BY DEF Init, CountedInv
  <1>2. GateInv /\ CountedInv => ApprovedOnce
    BY DEF GateInv, KeepsPolicy, CountedInv, ApprovedOnce, Meanwhile, Asked
  <1>3. QED
    BY <1>1, <1>2, LogInvariant, GateInvariant, CountedPreserved, PTL DEF Spec
================================================================================
