----------------------------- MODULE DevicesProofs -----------------------------
(***************************************************************************)
(* Theorems about the devices of a workspace.                              *)
(*                                                                         *)
(* The invariants of Devices say little of each other: what a key has made *)
(* is counted against the rows of keys and the keys lost, what is stored   *)
(* against what clients have said, and a plan against the device it was    *)
(* computed from.  They need one thing in common, which is Reading: a call *)
(* that has read a device has a device in its hands.                       *)
(***************************************************************************)
EXTENDS Devices, FiniteSetTheorems, TLAPS

\* What a call between its first read and its last write relies on.
Reading ==
  /\ \A d \in Device : devices[d] = NoDevice <=> said[d] = NoDevice
  /\ \A h \in Client : stage[h] = "saving" => /\ found[h] # NoDevice
                                              /\ devices[DeviceOf(h)] # NoDevice
  /\ \A d \in Managed : stage[d] = "planning" => devices[d] # NoDevice

\* A heartbeat that nobody has overtaken has in its hands what is stored.
UpToDate ==
  \A h \in Client : stage[h] = "saving" /\ h \notin overtaken => found[h] = devices[DeviceOf(h)]

\* Each key has made at most one device for its row, and one for each time that a
\* server which keeps the rows in memory has lost it or never had it.
Counting ==
  \A k \in Key :
    /\ IsFiniteSet(made[k])
    /\ Cardinality(made[k]) <= forgotten[k] + (IF \E r \in keys : r.key = k THEN 1 ELSE 0)
    /\ store # "file" => forgotten[k] = 0

\* A plan is that of the manifest and the device it was computed from.
Planned ==
  \A d \in Managed : stage[d] = "planned" =>
    found[d] # NoDevice /\ plan[d] = Actions(desired[d], found[d].list)

-------------------------------------------------------------------------------
(* The types.                                                              *)

LEMMA Clients ==
  /\ Client = Ping \cup Managed
  /\ \A h \in Client : DeviceOf(h) \in Device
  /\ \A d \in Managed : d \in Client /\ d \notin Ping /\ DeviceOf(d) = d
  /\ \A h \in Ping : h \in Client /\ DeviceOf(h) = Target[h]
BY NamesAssumption, InputsAssumption DEF Client, DeviceOf

LEMMA KeptIsAList ==
  ASSUME TypeOK, NEW d \in Device, NEW list \in List \cup {NoList}
  PROVE  Kept(d, list) \in List
BY DEF TypeOK, Kept, Empty, List, Summary

LEMMA ActionsAreActions ==
  ASSUME NEW want \in List, NEW got \in List
  PROVE  Actions(want, got) \in SUBSET Action
BY DEF Actions, Wanted, Unwanted, Action, List

LEMMA ApplyIsAList ==
  ASSUME NEW actions \in SUBSET Action, NEW list \in List
  PROVE  Apply(actions, list) \in List
<1> SUFFICES ASSUME NEW p \in Package
             PROVE  (IF \E a \in actions : a.package = p
                       THEN (CHOOSE a \in actions : a.package = p).to ELSE list[p]) \in Digest \cup {Absent}
  BY DEF Apply, List
<1>1. CASE \E a \in actions : a.package = p
  <2>1. (CHOOSE a \in actions : a.package = p) \in actions
    BY <1>1
  <2> QED BY <1>1, <2>1 DEF Action
<1>2. CASE ~ \E a \in actions : a.package = p
  BY <1>2 DEF List
<1> QED BY <1>1, <1>2

LEMMA TypesInit == Init => TypeOK /\ Reading /\ UpToDate /\ Planned
BY BoundsAssumption, NamesAssumption, InputsAssumption
DEF Init, TypeOK, Reading, UpToDate, Planned, Empty, List, Client

TypesStep == TypeOK' /\ Reading'

\* A registration that fails after the device is stored stores what another does.
LEMMA Stored ==
  ASSUME NEW c, NEW d, RegisterNew(c, d) \/ RegisterFails(c, d)
  PROVE  StoreNew(c, d)
BY DEF RegisterNew, RegisterFails

LEMMA RegisterTypes ==
  ASSUME TypeOK, Reading, NEW c \in Registration, Register(c)
  PROVE  TypesStep
<1>0. /\ c.key \in Key /\ c.name \in Name /\ c.list \in List \cup {NoList}
  BY InputsAssumption DEF Registrations
<1>1. CASE RegisterAgain(c)
  BY <1>1 DEF Register, RegisterAgain, TypesStep, TypeOK, Reading, manifests, agents, history, DeviceOf
<1>2. ASSUME NEW d \in Device, RegisterNew(c, d) \/ RegisterFails(c, d),
             UNCHANGED <<store, manifests, stage, found, agents>>
      PROVE  TypesStep
  <2>0. StoreNew(c, d)
    BY <1>2, Stored
  <2> USE <1>0, <1>2, <2>0
  <2>1. Kept(d, c.list) \in List
    BY KeptIsAList
  <2>2. SaidList(c, d) \in List
    BY DEF SaidList, TypeOK, Empty, List, Summary
  <2>3. devices' \in [Device -> Summary \cup {NoDevice}] /\ devices'[d] # NoDevice
        /\ \A x \in Device \ {d} : devices'[x] = devices[x]
    <3>1. [name |-> c.name, list |-> Kept(d, c.list)] \in Summary
      BY <2>1 DEF Summary
    <3> QED BY <3>1, NamesAssumption DEF StoreNew, Save, TypeOK
  <2>4. said' \in [Device -> Summary \cup {NoDevice}] /\ said'[d] # NoDevice
        /\ \A x \in Device \ {d} : said'[x] = said[x]
    <3>1. [name |-> c.name, list |-> SaidList(c, d)] \in Summary
      BY <2>2 DEF Summary
    <3> QED BY <3>1, NamesAssumption DEF StoreNew, TypeOK
  <2>5. \A k \in keys' : k.key \in Key /\ k.device \in Device /\ devices'[k.device] # NoDevice
    <3> SUFFICES ASSUME NEW k \in keys'
                 PROVE  k.key \in Key /\ k.device \in Device /\ devices'[k.device] # NoDevice
      OBVIOUS
    <3>1. CASE k \in keys
      BY <3>1, <2>3 DEF TypeOK
    <3>2. CASE k = [key |-> c.key, fingerprint |-> Fingerprint(c), device |-> d]
      BY <3>2, <2>3
    <3> QED BY <3>1, <3>2 DEF RegisterNew, RegisterFails
  <2>6. made' \in [Key -> SUBSET Device] /\ stale' \in [Device -> SUBSET {"name", "list"}]
    BY DEF StoreNew, TypeOK
  <2>7. overtaken' \subseteq Client
    BY DEF StoreNew, TypeOK, Readers
  <2>10. forgotten' \in [Key -> Nat] /\ faults' \in 0..MaxFaults
    BY BoundsAssumption DEF RegisterNew, RegisterFails, Fault, TypeOK
  <2>8. TypeOK'
    BY <2>3, <2>4, <2>5, <2>6, <2>7, <2>10 DEF TypeOK, manifests, agents
  <2>9. Reading'
    <3>1. \A x \in Device : devices'[x] = NoDevice <=> said'[x] = NoDevice
      BY <2>3, <2>4 DEF Reading
    <3>2. \A h \in Client : stage'[h] = "saving" => found'[h] # NoDevice /\ devices'[DeviceOf(h)] # NoDevice
      BY <2>3, Clients DEF Reading
    <3>3. \A m \in Managed : stage'[m] = "planning" => devices'[m] # NoDevice
      BY <2>3, NamesAssumption DEF Reading
    <3>4. \A h : DeviceOf(h)' = DeviceOf(h)
      BY DEF DeviceOf
    <3> QED BY <3>1, <3>2, <3>3, <3>4 DEF Reading
  <2> QED BY <2>8, <2>9 DEF TypesStep
<1> QED BY <1>1, <1>2 DEF Register

LEMMA ReadDeviceTypes ==
  ASSUME TypeOK, Reading, NEW h \in Client, ReadDevice(h)
  PROVE  TypesStep
<1>1. DeviceOf(h) \in Device /\ \A g : DeviceOf(g)' = DeviceOf(g)
  BY Clients DEF DeviceOf
<1>2. found' \in [Client -> Summary \cup {NoDevice}] /\ found'[h] # NoDevice
      /\ \A g \in Client \ {h} : found'[g] = found[g]
  BY <1>1 DEF ReadDevice, TypeOK
<1>3. stage' \in [Client -> {"idle", "planning", "planned", "installed", "saving", "done"}]
      /\ stage'[h] = "saving" /\ \A g \in Client \ {h} : stage'[g] = stage[g]
  BY DEF ReadDevice, TypeOK
<1>4. TypeOK'
  BY <1>2, <1>3 DEF ReadDevice, TypeOK, tables, manifests, agents, history
<1>5. Reading'
  BY <1>1, <1>2, <1>3, Clients DEF ReadDevice, Reading, tables, history
<1> QED BY <1>4, <1>5 DEF TypesStep

LEMMA SaveHeartbeatTypes ==
  ASSUME TypeOK, Reading, NEW h \in Client, SaveHeartbeat(h)
  PROVE  TypesStep
<1> DEFINE d == DeviceOf(h)
           list == IF h \in Ping THEN ReadBack(found[h].list) ELSE disk[d]
<1>1. d \in Device /\ \A g : DeviceOf(g)' = DeviceOf(g)
  BY Clients DEF DeviceOf
<1>2. found[h] \in Summary /\ devices[d] # NoDevice /\ said[d] \in Summary
  BY <1>1 DEF SaveHeartbeat, TypeOK, Reading
<1>3. list \in List \cup {NoList}
  BY <1>2, Clients DEF ReadBack, Summary, TypeOK, Client
<1>4. h \notin Ping => list \in List
  BY Clients DEF TypeOK, Client
<1> HIDE DEF d, list
<1>5. /\ Save(d, found[h].name, list)
      /\ said' = IF h \in Ping THEN said ELSE [said EXCEPT ![d].list = list]
      /\ overtaken' = (overtaken \cup Readers(d)) \ {h}
      /\ stage' = [stage EXCEPT ![h] = IF h \in Ping THEN "done" ELSE "idle"]
      /\ found' = [found EXCEPT ![h] = NoDevice]
      /\ UNCHANGED <<store, manifests, keys, agents, made, forgotten, faults>>
  BY DEF SaveHeartbeat, d, list
<1>6. devices' \in [Device -> Summary \cup {NoDevice}] /\ devices'[d] # NoDevice
      /\ \A x \in Device \ {d} : devices'[x] = devices[x]
  <2>1. [name |-> found[h].name, list |-> Kept(d, list)] \in Summary
    BY <1>1, <1>2, <1>3, KeptIsAList DEF Summary
  <2> QED BY <2>1, <1>1, <1>5, NamesAssumption DEF Save, TypeOK
<1>7. said' \in [Device -> Summary \cup {NoDevice}] /\ said'[d] # NoDevice
      /\ \A x \in Device \ {d} : said'[x] = said[x]
  <2>1. CASE h \in Ping
    BY <2>1, <1>2, <1>5, NamesAssumption DEF TypeOK
  <2>2. CASE h \notin Ping
    <3>1. [said[d] EXCEPT !.list = list] \in Summary
      BY <2>2, <1>2, <1>4 DEF Summary
    <3> QED BY <3>1, <2>2, <1>1, <1>5, NamesAssumption DEF TypeOK
  <2> QED BY <2>1, <2>2
<1>8. stale' \in [Device -> SUBSET {"name", "list"}]
  <2>1. \E S \in SUBSET {"name", "list"} : stale' = [stale EXCEPT ![d] = S]
    <3> DEFINE S == (IF h \in Ping THEN stale[d] ELSE stale[d] \ {"list"})
                      \cup (IF h \in overtaken THEN {"name"} \cup (IF h \in Ping THEN {"list"} ELSE {}) ELSE {})
    <3>1. stale' = [stale EXCEPT ![d] = S]
      BY DEF SaveHeartbeat, d
    <3>2. S \in SUBSET {"name", "list"}
      BY <1>1 DEF TypeOK
    <3> QED BY <3>1, <3>2
  <2> QED BY <2>1 DEF TypeOK
<1>9. /\ stage' \in [Client -> {"idle", "planning", "planned", "installed", "saving", "done"}]
      /\ stage'[h] \in {"idle", "done"}
      /\ \A g \in Client \ {h} : stage'[g] = stage[g]
      /\ found' \in [Client -> Summary \cup {NoDevice}]
      /\ \A g \in Client \ {h} : found'[g] = found[g]
  BY <1>5 DEF TypeOK
<1>10. TypeOK'
  <2>1. overtaken' \subseteq Client
    BY <1>5 DEF TypeOK, Readers
  <2>2. \A k \in keys' : k.key \in Key /\ k.device \in Device /\ devices'[k.device] # NoDevice
    BY <1>5, <1>6 DEF TypeOK
  <2> QED BY <1>5, <1>6, <1>7, <1>8, <1>9, <2>1, <2>2 DEF TypeOK, manifests, agents
<1>11. Reading'
  BY <1>1, <1>6, <1>7, <1>9, Clients, NamesAssumption DEF Reading
<1> QED BY <1>10, <1>11 DEF TypesStep

LEMMA LoopTypes ==
  ASSUME TypeOK, Reading, NEW d \in Managed, ReadManifest(d) \/ Plan(d) \/ Install(d)
  PROVE  TypesStep
<1>0. d \in Client /\ d \in Device /\ \A g : DeviceOf(g)' = DeviceOf(g)
  BY Clients, NamesAssumption DEF DeviceOf
<1>1. CASE ReadManifest(d)
  <2>1. stage' \in [Client -> {"idle", "planning", "planned", "installed", "saving", "done"}]
        /\ stage'[d] = "planning" /\ \A g \in Client \ {d} : stage'[g] = stage[g]
    BY <1>0, <1>1 DEF ReadManifest, TypeOK
  <2>2. TypeOK'
    BY <1>1, <2>1 DEF ReadManifest, TypeOK, tables, manifests, history
  <2>3. Reading'
    BY <1>0, <1>1, <2>1, Clients DEF ReadManifest, Reading, tables, history
  <2> QED BY <2>2, <2>3 DEF TypesStep
<1>2. CASE Plan(d)
  <2>1. stage' \in [Client -> {"idle", "planning", "planned", "installed", "saving", "done"}]
        /\ stage'[d] = "planned" /\ \A g \in Client \ {d} : stage'[g] = stage[g]
    BY <1>0, <1>2 DEF Plan, TypeOK
  <2>2. devices[d] \in Summary /\ desired[d] \in List
    BY <1>0, <1>2 DEF Plan, Reading, TypeOK
  <2>3. plan' \in [Managed -> SUBSET Action]
    <3>1. Actions(desired[d], devices[d].list) \in SUBSET Action
      BY <2>2, ActionsAreActions DEF Summary
    <3> QED BY <1>2, <3>1 DEF Plan, TypeOK
  <2>4. found' \in [Client -> Summary \cup {NoDevice}]
        /\ \A g \in Client \ {d} : found'[g] = found[g]
    BY <1>0, <1>2, <2>2 DEF Plan, TypeOK
  <2>5. TypeOK'
    BY <1>2, <2>1, <2>3, <2>4 DEF Plan, TypeOK, tables, manifests, history
  <2>6. Reading'
    BY <1>0, <1>2, <2>1, <2>4, Clients DEF Plan, Reading, tables, history
  <2> QED BY <2>5, <2>6 DEF TypesStep
<1>3. CASE Install(d)
  <2>1. /\ stage' \in [Client -> {"idle", "planning", "planned", "installed", "saving", "done"}]
        /\ stage'[d] = "installed"
        /\ \A g \in Client \ {d} : stage'[g] = stage[g]
        /\ found' \in [Client -> Summary \cup {NoDevice}]
        /\ \A g \in Client \ {d} : found'[g] = found[g]
    BY <1>0, <1>3 DEF Install, TypeOK
  <2>2. disk' \in [Managed -> List]
    <3>1. Apply(plan[d], disk[d]) \in List
      BY ApplyIsAList DEF TypeOK
    <3> QED BY <1>3, <3>1 DEF Install, TypeOK
  <2>3. desired' \in [Managed -> List] /\ plan' \in [Managed -> SUBSET Action]
    BY <1>3 DEF Install, TypeOK, Empty, List
  <2>4. TypeOK'
    BY <1>3, <2>1, <2>2, <2>3 DEF Install, TypeOK, tables, manifests, history
  <2>5. Reading'
    BY <1>0, <1>3, <2>1, Clients DEF Install, Reading, tables, history
  <2> QED BY <2>4, <2>5 DEF TypesStep
<1> QED BY <1>1, <1>2, <1>3

LEMMA OtherTypes ==
  ASSUME TypeOK, Reading,
         \/ \E m \in Manifests : SaveManifest(m)
         \/ \E d \in Managed, p \in Package : Tamper(d, p)
         \/ Restart
         \/ UNCHANGED vars
  PROVE  TypesStep
<1>0. \A g : DeviceOf(g)' = DeviceOf(g)
  BY DEF DeviceOf
<1>1. ASSUME NEW m \in Manifests, SaveManifest(m)
      PROVE  TypesStep
  <2>1. TypeOK'
    BY <1>1, BoundsAssumption, InputsAssumption DEF SaveManifest, TypeOK, agents, history
  <2>2. Reading'
    BY <1>0, <1>1 DEF SaveManifest, Reading, agents, history
  <2> QED BY <2>1, <2>2 DEF TypesStep
<1>2. ASSUME NEW d \in Managed, NEW p \in Package, Tamper(d, p)
      PROVE  TypesStep
  <2>1. disk' \in [Managed -> List]
    <3>1. PICK x \in {Absent, Newest[p]} : disk' = [disk EXCEPT ![d][p] = x]
      BY <1>2 DEF Tamper
    <3>2. x \in Digest \cup {Absent}
      BY InputsAssumption DEF List
    <3>3. [disk[d] EXCEPT ![p] = x] \in List
      BY <3>2 DEF TypeOK, List
    <3> QED BY <3>1, <3>3 DEF TypeOK
  <2>2. faults' \in 0..MaxFaults
    BY <1>2, BoundsAssumption DEF Tamper, Fault, TypeOK
  <2>3. TypeOK'
    BY <1>2, <2>1, <2>2 DEF Tamper, TypeOK, tables, manifests, history
  <2>4. Reading'
    BY <1>0, <1>2 DEF Tamper, Reading, tables, history
  <2> QED BY <2>3, <2>4 DEF TypesStep
<1>3. CASE Restart
  <2>1. faults' \in 0..MaxFaults
    BY <1>3, BoundsAssumption DEF Restart, Fault, TypeOK
  <2>2. stage' \in [Client -> {"idle", "planning", "planned", "installed", "saving", "done"}]
        /\ \A g \in Client : stage'[g] \notin {"planning", "saving"}
    BY <1>3 DEF Restart, TypeOK
  <2>3. found' \in [Client -> Summary \cup {NoDevice}] /\ desired' \in [Managed -> List]
    BY <1>3, Clients DEF Restart, TypeOK, Empty, List
  <2>4. keys' \subseteq keys /\ forgotten' \in [Key -> Nat]
    BY <1>3 DEF Restart, TypeOK
  <2>5. TypeOK'
    BY <1>3, <2>1, <2>2, <2>3, <2>4 DEF Restart, TypeOK, manifests
  <2>6. Reading'
    BY <1>0, <1>3, <2>2, Clients DEF Restart, Reading
  <2> QED BY <2>5, <2>6 DEF TypesStep
<1>4. CASE UNCHANGED vars
  BY <1>0, <1>4 DEF vars, TypesStep, TypeOK, Reading, tables, manifests, agents, history
<1> QED BY <1>1, <1>2, <1>3, <1>4

LEMMA TypesKept == TypeOK /\ Reading /\ [Next]_vars => TypesStep
<1> SUFFICES ASSUME TypeOK, Reading, [Next]_vars PROVE TypesStep
  OBVIOUS
<1>1. CASE \E c \in Registration : Register(c)
  BY <1>1, RegisterTypes
<1>2. CASE \E h \in Ping : ReadDevice(h) \/ SaveHeartbeat(h)
  BY <1>2, Clients, ReadDeviceTypes, SaveHeartbeatTypes
<1>3. CASE \E d \in Managed : Agent(d)
  BY <1>3, Clients, ReadDeviceTypes, SaveHeartbeatTypes, LoopTypes DEF Agent
<1>4. CASE \/ \E m \in Manifests : SaveManifest(m)
           \/ \E d \in Managed, p \in Package : Tamper(d, p)
           \/ Restart
           \/ UNCHANGED vars
  BY <1>4, OtherTypes
<1> QED BY <1>1, <1>2, <1>3, <1>4 DEF Next

LEMMA TypesInvariant == Spec => [](TypeOK /\ Reading)
<1>1. Init => TypeOK /\ Reading
  BY TypesInit
<1>2. TypeOK /\ Reading /\ [Next]_vars => TypeOK' /\ Reading'
  BY TypesKept DEF TypesStep
<1> QED BY <1>1, <1>2, PTL DEF Spec

\* Whatever clients send, and however their calls, the agents and the restarts of
\* the server interleave, the rows and what is in the hands of each call have
\* their types, and a row of a key names a device that exists.
THEOREM TypesAreKept == Spec => []TypeOK
BY TypesInvariant, PTL

-------------------------------------------------------------------------------
(* One device for a key.                                                   *)

LEMMA CountingInit == Init => Counting
BY FS_EmptySet, BoundsAssumption DEF Init, Counting

LEMMA CountingRegister ==
  ASSUME TypeOK, Counting, NEW c \in Registration, Register(c)
  PROVE  Counting'
<1>1. CASE RegisterAgain(c)
  BY <1>1 DEF Register, RegisterAgain, Counting, history
<1>2. ASSUME NEW d \in Device, RegisterNew(c, d) \/ RegisterFails(c, d), UNCHANGED store
      PROVE  Counting'
  <2> SUFFICES ASSUME NEW k \in Key
               PROVE  /\ IsFiniteSet(made'[k])
                      /\ Cardinality(made'[k]) <= forgotten'[k]
                                                    + (IF \E r \in keys' : r.key = k THEN 1 ELSE 0)
                      /\ store # "file" => forgotten'[k] = 0
    BY <1>2 DEF Counting
  <2>0. c.key \in Key /\ forgotten[k] \in Nat
    BY InputsAssumption DEF Registrations, TypeOK
  <2>1. CASE k = c.key
    <3>1. ~ \E r \in keys : r.key = k
      BY <1>2, <2>1, Stored DEF StoreNew, KeyRows
    <3>2. made'[k] = made[k] \cup {d}
      BY <1>2, <2>1, Stored DEF StoreNew, TypeOK
    <3>3. IsFiniteSet(made[k]) /\ Cardinality(made[k]) <= forgotten[k] /\ (store # "file" => forgotten[k] = 0)
      BY <2>0, <3>1 DEF Counting
    <3>4. Cardinality(made[k]) \in Nat
      BY <3>3, FS_CardinalityType
    <3>5. /\ IsFiniteSet(made'[k])
          /\ Cardinality(made'[k]) = Cardinality(made[k])
               \/ Cardinality(made'[k]) = Cardinality(made[k]) + 1
      BY <3>2, <3>3, FS_AddElement
    <3>6. CASE RegisterNew(c, d)
      <4> DEFINE row == [key |-> c.key, fingerprint |-> Fingerprint(c), device |-> d]
      <4>1. row \in keys' /\ row.key = k /\ forgotten' = forgotten
        BY <2>1, <3>6 DEF RegisterNew
      <4> HIDE DEF row
      <4> QED BY <2>0, <3>3, <3>4, <3>5, <4>1
    <3>7. CASE RegisterFails(c, d)
      <4>1. forgotten'[k] = forgotten[k] + 1 /\ store = "file" /\ keys' = keys
        BY <2>1, <3>7 DEF RegisterFails, TypeOK
      <4> QED BY <2>0, <3>1, <3>3, <3>4, <3>5, <4>1
    <3> QED BY <1>2, <3>6, <3>7
  <2>2. CASE k # c.key
    <3>1. made'[k] = made[k]
      BY <1>2, <2>2, Stored DEF StoreNew, TypeOK
    <3>2. (\E r \in keys' : r.key = k) <=> (\E r \in keys : r.key = k)
      BY <1>2, <2>2 DEF RegisterNew, RegisterFails
    <3>3. forgotten'[k] = forgotten[k]
      BY <1>2, <2>2 DEF RegisterNew, RegisterFails, TypeOK
    <3> QED BY <3>1, <3>2, <3>3 DEF Counting
  <2> QED BY <2>1, <2>2
<1> QED BY <1>1, <1>2 DEF Register

LEMMA CountingRestart ==
  ASSUME TypeOK, Counting, Restart
  PROVE  Counting'
<1> SUFFICES ASSUME NEW k \in Key
             PROVE  /\ IsFiniteSet(made[k])
                    /\ Cardinality(made[k]) <= forgotten'[k]
                                                  + (IF \E r \in keys' : r.key = k THEN 1 ELSE 0)
                    /\ store # "file" => forgotten'[k] = 0
  BY DEF Restart, Counting
<1>1. /\ IsFiniteSet(made[k])
      /\ Cardinality(made[k]) <= forgotten[k] + (IF \E r \in keys : r.key = k THEN 1 ELSE 0)
      /\ store # "file" => forgotten[k] = 0
  BY DEF Counting
<1>2. Cardinality(made[k]) \in Nat /\ forgotten[k] \in Nat
  BY <1>1, FS_CardinalityType DEF TypeOK
<1>3. CASE store = "file"
  <2>1. keys' = {} /\ forgotten'[k] = IF \E r \in keys : r.key = k THEN forgotten[k] + 1 ELSE forgotten[k]
    BY <1>3 DEF Restart
  <2> QED BY <1>1, <1>2, <1>3, <2>1
<1>4. CASE store # "file"
  <2>1. keys' = keys /\ forgotten'[k] = forgotten[k]
    BY <1>4 DEF Restart
  <2> QED BY <1>1, <1>4, <2>1
<1> QED BY <1>3, <1>4

LEMMA CountingKept == TypeOK /\ Counting /\ [Next]_vars => Counting'
<1> SUFFICES ASSUME TypeOK, Counting, [Next]_vars PROVE Counting'
  OBVIOUS
<1>1. CASE \E c \in Registration : Register(c)
  BY <1>1, CountingRegister
<1>2. CASE Restart
  BY <1>2, CountingRestart
<1>3. CASE \/ \E h \in Client : ReadDevice(h) \/ SaveHeartbeat(h)
           \/ \E d \in Managed : ReadManifest(d) \/ Plan(d) \/ Install(d)
           \/ \E m \in Manifests : SaveManifest(m)
           \/ \E d \in Managed, p \in Package : Tamper(d, p)
           \/ UNCHANGED vars
  <2>1. UNCHANGED <<store, keys, made, forgotten>>
    BY <1>3 DEF ReadDevice, SaveHeartbeat, ReadManifest, Plan, Install, SaveManifest, Tamper,
                vars, tables, history
  <2> QED BY <2>1 DEF Counting
<1> QED BY <1>1, <1>2, <1>3, Clients DEF Next, Agent

\* For any number of clients that repeat their registrations at any moment, a key
\* makes at most one device in PostgreSQL; with files, one more for each time that
\* a restart has lost the key or a failed audit or outbox event has kept it from
\* being noted.
THEOREM KeysMakeOneDevice == Spec => []KeyIsOneDevice
<1>1. Init => Counting
  BY CountingInit
<1>2. TypeOK /\ Counting /\ [Next]_vars => Counting'
  BY CountingKept
<1>3. TypeOK /\ Counting => KeyIsOneDevice
  <2> SUFFICES ASSUME TypeOK, Counting, NEW k \in Key
               PROVE  Cardinality(made[k]) <= 1 + (IF store = "file" THEN forgotten[k] ELSE 0)
    BY DEF KeyIsOneDevice
  <2>1. Cardinality(made[k]) \in Nat /\ forgotten[k] \in Nat
    BY FS_CardinalityType DEF Counting, TypeOK
  <2>2. /\ Cardinality(made[k]) <= forgotten[k] + (IF \E r \in keys : r.key = k THEN 1 ELSE 0)
        /\ store # "file" => forgotten[k] = 0
    BY DEF Counting
  <2> QED BY <2>1, <2>2
<1> QED BY <1>1, <1>2, <1>3, TypesAreKept, PTL DEF Spec

-------------------------------------------------------------------------------
(* What is stored is what was last said.                                   *)

LEMMA SummaryInit == Init => UpToDate /\ SummaryIsTheLatest
BY TypesInit DEF Init, SummaryIsTheLatest

LEMMA SummaryRegister ==
  ASSUME TypeOK, Reading, UpToDate, SummaryIsTheLatest, NEW c \in Registration, Register(c)
  PROVE  UpToDate' /\ SummaryIsTheLatest'
<1>0. \A g : DeviceOf(g)' = DeviceOf(g)
  BY DEF DeviceOf
<1>1. CASE RegisterAgain(c)
  BY <1>0, <1>1 DEF Register, RegisterAgain, history, UpToDate, SummaryIsTheLatest
<1>2. ASSUME NEW d \in Device, RegisterNew(c, d) \/ RegisterFails(c, d), UNCHANGED <<store, stage, found>>
      PROVE  UpToDate' /\ SummaryIsTheLatest'
  <2>0. StoreNew(c, d) /\ UNCHANGED <<store, stage, found>>
    BY <1>2, Stored
  <2>1. /\ devices'[d] = [name |-> c.name, list |-> Kept(d, c.list)]
        /\ said'[d] = [name |-> c.name, list |-> SaidList(c, d)]
        /\ \A x \in Device \ {d} : /\ devices'[x] = devices[x] /\ said'[x] = said[x]
                                   /\ stale'[x] = stale[x]
        /\ stale'[d] = IF c.list = NoList /\ store = "postgres" THEN stale[d] \ {"name"} ELSE {}
    BY <2>0 DEF StoreNew, Save, TypeOK
  <2>2. "list" \notin stale'[d] => Kept(d, c.list) = SaidList(c, d)
    <3>1. CASE c.list # NoList
      BY <3>1 DEF Kept, SaidList
    <3>2. CASE c.list = NoList /\ store # "postgres"
      BY <3>2 DEF Kept, SaidList
    <3>3. CASE c.list = NoList /\ store = "postgres"
      <4>1. "list" \notin stale'[d] => "list" \notin stale[d]
        BY <3>3, <2>1
      <4>2. devices[d] = NoDevice <=> said[d] = NoDevice
        BY DEF Reading
      <4> QED BY <3>3, <4>1, <4>2 DEF Kept, SaidList, SummaryIsTheLatest
    <3> QED BY <3>1, <3>2, <3>3
  <2>3. SummaryIsTheLatest'
    BY <2>0, <2>1, <2>2 DEF SummaryIsTheLatest
  <2>4. UpToDate'
    <3> SUFFICES ASSUME NEW h \in Client, stage[h] = "saving", h \notin overtaken'
                 PROVE  found[h] = devices'[DeviceOf(h)]
      BY <1>0, <2>0 DEF UpToDate
    <3>1. DeviceOf(h) # d /\ h \notin overtaken
      BY <2>0 DEF StoreNew, Readers
    <3> QED BY <2>1, <3>1, Clients DEF UpToDate
  <2> QED BY <2>3, <2>4
<1> QED BY <1>1, <1>2 DEF Register

LEMMA SummaryHeartbeat ==
  ASSUME TypeOK, Reading, UpToDate, SummaryIsTheLatest, NEW h \in Client, SaveHeartbeat(h)
  PROVE  UpToDate' /\ SummaryIsTheLatest'
<1> DEFINE d == DeviceOf(h)
           list == IF h \in Ping THEN ReadBack(found[h].list) ELSE disk[d]
<1>0. d \in Device /\ \A g : DeviceOf(g)' = DeviceOf(g)
  BY Clients DEF DeviceOf
<1>1. /\ found[h] \in Summary /\ devices[d] \in Summary /\ said[d] \in Summary
      /\ h \notin overtaken => found[h] = devices[d]
  BY <1>0 DEF SaveHeartbeat, TypeOK, Reading, UpToDate
<1>2. /\ devices'[d] = [name |-> found[h].name, list |-> Kept(d, list)]
      /\ \A x \in Device \ {d} : devices'[x] = devices[x]
  BY <1>0 DEF SaveHeartbeat, Save, TypeOK
<1>3. /\ "name" \in stale'[d] \/ h \notin overtaken
      /\ h \in Ping => "list" \in stale'[d] \/ h \notin overtaken
      /\ h \in Ping => stale[d] \subseteq stale'[d]
      /\ stale[d] \ {"list"} \subseteq stale'[d]
      /\ \A x \in Device \ {d} : stale'[x] = stale[x]
  BY <1>0 DEF SaveHeartbeat, TypeOK
<1>4. /\ h \in Ping => said' = said
      /\ h \notin Ping => said'[d] = [said[d] EXCEPT !.list = list]
      /\ \A x \in Device \ {d} : said'[x] = said[x]
  BY <1>0 DEF SaveHeartbeat, TypeOK
<1>5. "name" \notin stale'[d] => devices'[d].name = said'[d].name
  <2> SUFFICES ASSUME "name" \notin stale'[d] PROVE devices'[d].name = said'[d].name
    OBVIOUS
  <2>1. h \notin overtaken /\ "name" \notin stale[d]
    BY <1>3
  <2>2. found[h].name = said[d].name
    BY <1>0, <1>1, <2>1, NamesAssumption DEF SummaryIsTheLatest
  <2>3. said'[d].name = said[d].name
    BY <1>1, <1>4 DEF Summary
  <2> QED BY <1>2, <2>2, <2>3
<1>6. "list" \notin stale'[d] => devices'[d].list = said'[d].list
  <2>1. CASE h \in Ping
    <3> SUFFICES ASSUME "list" \notin stale'[d] PROVE devices'[d].list = said[d].list
      BY <1>4, <2>1
    <3>1. h \notin overtaken /\ "list" \notin stale[d]
      BY <1>3, <2>1
    <3>2. found[h] = devices[d] /\ devices[d].list = said[d].list
      BY <1>0, <1>1, <3>1, NamesAssumption DEF SummaryIsTheLatest
    <3>3. list = IF devices[d].list = Empty THEN NoList ELSE devices[d].list
      BY <2>1, <3>2 DEF ReadBack
    <3>4. Kept(d, list) = devices[d].list
      BY <1>1, <3>3, NamesAssumption DEF Kept, Summary
    <3> QED BY <1>2, <3>2, <3>4
  <2>2. CASE h \notin Ping
    <3>1. list \in List
      BY <1>0, <2>2, Clients DEF Client, TypeOK
    <3>2. Kept(d, list) = list
      BY <3>1, NamesAssumption DEF Kept
    <3>3. said'[d].list = list
      BY <1>1, <1>4, <2>2 DEF Summary
    <3> QED BY <1>2, <3>2, <3>3
  <2> QED BY <2>1, <2>2
<1>7. SummaryIsTheLatest'
  BY <1>2, <1>3, <1>4, <1>5, <1>6 DEF SummaryIsTheLatest
<1>8. UpToDate'
  <2> SUFFICES ASSUME NEW g \in Client, stage'[g] = "saving", g \notin overtaken'
               PROVE  found'[g] = devices'[DeviceOf(g)]
    BY <1>0 DEF UpToDate
  <2>1. g # h /\ stage[g] = "saving" /\ found'[g] = found[g]
    BY DEF SaveHeartbeat, TypeOK
  <2>2. DeviceOf(g) # d /\ g \notin overtaken
    BY <2>1 DEF SaveHeartbeat, Readers
  <2> QED BY <1>2, <2>1, <2>2, Clients DEF UpToDate
<1> QED BY <1>7, <1>8

LEMMA SummaryKept ==
  TypeOK /\ Reading /\ UpToDate /\ SummaryIsTheLatest /\ [Next]_vars
    => UpToDate' /\ SummaryIsTheLatest'
<1> SUFFICES ASSUME TypeOK, Reading, UpToDate, SummaryIsTheLatest, [Next]_vars
             PROVE  UpToDate' /\ SummaryIsTheLatest'
  OBVIOUS
<1>0. \A g : DeviceOf(g)' = DeviceOf(g)
  BY DEF DeviceOf
<1>1. CASE \E c \in Registration : Register(c)
  BY <1>1, SummaryRegister
<1>2. CASE \E h \in Client : SaveHeartbeat(h)
  BY <1>2, SummaryHeartbeat
<1>3. ASSUME UNCHANGED <<devices, said, stale>> PROVE SummaryIsTheLatest'
  BY <1>3 DEF SummaryIsTheLatest
<1>4. ASSUME NEW h \in Client, ReadDevice(h) PROVE UpToDate' /\ SummaryIsTheLatest'
  <2>1. UpToDate'
    BY <1>0, <1>4 DEF ReadDevice, UpToDate, TypeOK, tables, history
  <2> QED BY <1>3, <1>4, <2>1 DEF ReadDevice, tables, history
<1>5. ASSUME NEW d \in Managed, ReadManifest(d) \/ Plan(d) \/ Install(d)
      PROVE  UpToDate' /\ SummaryIsTheLatest'
  <2>1. d \in Client
    BY Clients
  <2>2. UpToDate'
    BY <1>0, <1>5, <2>1 DEF ReadManifest, Plan, Install, UpToDate, TypeOK, tables, history
  <2> QED BY <1>3, <1>5, <2>2 DEF ReadManifest, Plan, Install, tables, history
<1>6. CASE \/ \E m \in Manifests : SaveManifest(m)
           \/ \E d \in Managed, p \in Package : Tamper(d, p)
           \/ UNCHANGED vars
  <2>1. UNCHANGED <<devices, stage, found, said, overtaken, stale>>
    BY <1>6 DEF SaveManifest, Tamper, vars, tables, history
  <2> QED BY <1>0, <2>1 DEF UpToDate, SummaryIsTheLatest
<1>7. CASE Restart
  <2>1. UpToDate'
    BY <1>7 DEF Restart, UpToDate
  <2> QED BY <1>3, <1>7, <2>1 DEF Restart
<1> QED BY <1>1, <1>2, <1>4, <1>5, <1>6, <1>7, Clients DEF Next, Agent

\* A heartbeat between whose read and write nothing was said of the device writes
\* back what was there; so the name and the packages known of a device are the
\* last that were said unless such a heartbeat was overtaken.
THEOREM SummariesAreTheLatest == Spec => []SummaryIsTheLatest
<1>1. Init => UpToDate /\ SummaryIsTheLatest
  BY SummaryInit
<1>2. TypeOK /\ Reading /\ UpToDate /\ SummaryIsTheLatest /\ [Next]_vars
        => UpToDate' /\ SummaryIsTheLatest'
  BY SummaryKept
<1> QED BY <1>1, <1>2, TypesInvariant, PTL DEF Spec

-------------------------------------------------------------------------------
(* Plans.                                                                  *)

\* The actions of a plan are one per package that differs.
LEMMA OneActionEach ==
  ASSUME NEW want \in List, NEW got \in List, NEW p \in Package
  PROVE  /\ want[p] = got[p] => \A a \in Actions(want, got) : a.package # p
         /\ want[p] # got[p] => /\ \E a \in Actions(want, got) : a.package = p
                                /\ \A a \in Actions(want, got) : a.package = p => a.to = want[p]
<1>1. \A a \in Actions(want, got) : a.package = p => want[p] # got[p] /\ a.to = want[p]
  BY DEF Actions, Wanted, Unwanted
<1>2. ASSUME want[p] # got[p]
      PROVE  \E a \in Actions(want, got) : a.package = p
  <2>1. CASE want[p] # Absent
    <3>1. [package |-> p, kind |-> IF got[p] = Absent THEN "install" ELSE "update", to |-> want[p]]
            \in Wanted(want, got)
      BY <1>2, <2>1 DEF Wanted
    <3> QED BY <3>1 DEF Actions
  <2>2. CASE want[p] = Absent
    <3>1. [package |-> p, kind |-> "remove", to |-> Absent] \in Unwanted(want, got)
      BY <1>2, <2>2 DEF Unwanted
    <3> QED BY <3>1 DEF Actions
  <2> QED BY <2>1, <2>2
<1> QED BY <1>1, <1>2

\* The drift that an action of each kind remedies.
Remedied == [install |-> "missing", update |-> "changed", remove |-> "extra"]

LEMMA ActionsAreDrift ==
  ASSUME NEW want \in List, NEW got \in List
  PROVE  Calculate(want, got) = {<<a.package, Remedied[a.kind]>> : a \in Actions(want, got)}
<1>1. ASSUME NEW a \in Actions(want, got)
      PROVE  <<a.package, Remedied[a.kind]>> \in Calculate(want, got)
  <2>1. CASE a \in Wanted(want, got)
    <3>1. PICK p \in Package :
            /\ want[p] # Absent /\ want[p] # got[p]
            /\ a = [package |-> p, kind |-> IF got[p] = Absent THEN "install" ELSE "update", to |-> want[p]]
      BY <2>1 DEF Wanted
    <3>2. Remedied[a.kind] = Kind(want[p], got[p]) /\ a.package = p
      BY <3>1 DEF Remedied, Kind
    <3> QED BY <3>1, <3>2 DEF Calculate
  <2>2. CASE a \in Unwanted(want, got)
    <3>1. PICK p \in Package :
            want[p] = Absent /\ got[p] # Absent /\ a = [package |-> p, kind |-> "remove", to |-> Absent]
      BY <2>2 DEF Unwanted
    <3>2. Remedied[a.kind] = Kind(want[p], got[p]) /\ a.package = p
      BY <3>1 DEF Remedied, Kind
    <3> QED BY <3>1, <3>2 DEF Calculate
  <2> QED BY <2>1, <2>2 DEF Actions
<1>2. ASSUME NEW item \in Calculate(want, got)
      PROVE  \E a \in Actions(want, got) : item = <<a.package, Remedied[a.kind]>>
  <2>1. PICK p \in Package : want[p] # got[p] /\ item = <<p, Kind(want[p], got[p])>>
    BY DEF Calculate
  <2>2. PICK a \in Actions(want, got) : a.package = p
    BY <2>1, OneActionEach
  <2>3. \E q \in Package : want[q] # got[q] /\ <<a.package, Remedied[a.kind]>> = <<q, Kind(want[q], got[q])>>
    BY <1>1 DEF Calculate
  <2>4. <<a.package, Remedied[a.kind]>> = <<p, Kind(want[p], got[p])>>
    BY <2>2, <2>3
  <2> QED BY <2>1, <2>4
<1> QED BY <1>1, <1>2

\* What drift finds and what a plan changes are two different computations in the
\* code.  They agree: a plan installs exactly the packages that drift calls missing,
\* updates those it calls changed and removes those it calls extra, which the
\* manifest does not name; a package that is as the manifest wants it keeps its
\* version, and a device that follows the plan has no drift left.
THEOREM PlansMeetDrift ==
  ASSUME NEW want \in List, NEW got \in List
  PROVE  /\ Apply(Actions(want, got), got) = want
         /\ Calculate(want, Apply(Actions(want, got), got)) = {}
         /\ {a.package : a \in Actions(want, got)} = {item[1] : item \in Calculate(want, got)}
         /\ Calculate(want, got) = {<<a.package, Remedied[a.kind]>> : a \in Actions(want, got)}
         /\ \A a \in Actions(want, got) : want[a.package] # got[a.package] /\ a.to = want[a.package]
<1>1. Apply(Actions(want, got), got) = want
  <2> SUFFICES ASSUME NEW p \in Package
               PROVE  (IF \E a \in Actions(want, got) : a.package = p
                         THEN (CHOOSE a \in Actions(want, got) : a.package = p).to
                         ELSE got[p]) = want[p]
    BY DEF Apply, List
  <2>1. CASE want[p] = got[p]
    BY <2>1, OneActionEach
  <2>2. CASE want[p] # got[p]
    <3>1. \E a \in Actions(want, got) : a.package = p
      BY <2>2, OneActionEach
    <3> DEFINE b == CHOOSE a \in Actions(want, got) : a.package = p
    <3>2. b \in Actions(want, got) /\ b.package = p
      BY <3>1
    <3> QED BY <2>2, <3>1, <3>2, OneActionEach
  <2> QED BY <2>1, <2>2
<1>2. Calculate(want, want) = {}
  BY DEF Calculate
<1>3. \A p \in Package : (\E a \in Actions(want, got) : a.package = p)
                           <=> (\E item \in Calculate(want, got) : item[1] = p)
  <2> SUFFICES ASSUME NEW p \in Package
               PROVE  (\E a \in Actions(want, got) : a.package = p)
                        <=> (\E item \in Calculate(want, got) : item[1] = p)
    OBVIOUS
  <2>1. (\E a \in Actions(want, got) : a.package = p) <=> want[p] # got[p]
    BY OneActionEach
  <2>2. (\E item \in Calculate(want, got) : item[1] = p) => want[p] # got[p]
    BY DEF Calculate
  <2>3. want[p] # got[p] => <<p, Kind(want[p], got[p])>> \in Calculate(want, got)
    BY DEF Calculate
  <2> QED BY <2>1, <2>2, <2>3
<1>4. /\ \A a \in Actions(want, got) : a.package \in Package
      /\ \A item \in Calculate(want, got) : item[1] \in Package
  BY ActionsAreActions DEF Action, Calculate
<1>5. \A a \in Actions(want, got) : want[a.package] # got[a.package] /\ a.to = want[a.package]
  BY <1>4, OneActionEach
<1> QED BY <1>1, <1>2, <1>3, <1>4, <1>5, ActionsAreDrift

LEMMA PlannedKept == TypeOK /\ Reading /\ Planned /\ [Next]_vars => Planned'
<1> SUFFICES ASSUME TypeOK, Reading, Planned, [Next]_vars PROVE Planned'
  OBVIOUS
<1> USE DEF Planned, TypeOK
<1>1. CASE \/ \E c \in Registration : Register(c)
           \/ \E m \in Manifests : SaveManifest(m)
           \/ \E d \in Managed, p \in Package : Tamper(d, p)
           \/ UNCHANGED vars
  BY <1>1 DEF Register, SaveManifest, Tamper, vars, agents
<1>2. ASSUME NEW h \in Client, ReadDevice(h) \/ SaveHeartbeat(h) PROVE Planned'
  BY <1>2, Clients DEF ReadDevice, SaveHeartbeat, agents
<1>3. ASSUME NEW d \in Managed, ReadManifest(d) \/ Install(d) PROVE Planned'
  BY <1>3, Clients DEF ReadManifest, Install
<1>4. ASSUME NEW d \in Managed, Plan(d) PROVE Planned'
  <2>1. devices[d] # NoDevice
    BY <1>4 DEF Plan, Reading
  <2> QED BY <1>4, <2>1, Clients DEF Plan
<1>5. CASE Restart
  BY <1>5, Clients DEF Restart
<1> QED BY <1>1, <1>2, <1>3, <1>4, <1>5, Clients DEF Next, Agent

\* Whatever happens between an agent's call and its work, the plan in its hands
\* changes what drift would show of the device it was made for, no more and no
\* less, and leaves nothing of it.
THEOREM PlansRemedyDrift == Spec => []PlanRemediesDrift
<1>1. Init => Planned
  BY TypesInit
<1>2. TypeOK /\ Reading /\ Planned /\ [Next]_vars => Planned'
  BY PlannedKept
<1>3. TypeOK /\ Planned => PlanRemediesDrift
  <2> SUFFICES ASSUME TypeOK, Planned, NEW d \in Managed, stage[d] = "planned"
               PROVE  /\ Calculate(desired[d], Apply(plan[d], found[d].list)) = {}
                      /\ {a.package : a \in plan[d]}
                           = {item[1] : item \in Calculate(desired[d], found[d].list)}
    BY DEF PlanRemediesDrift
  <2> DEFINE want == desired[d]
             got == found[d].list
  <2>1. want \in List /\ got \in List /\ plan[d] = Actions(want, got)
    BY Clients DEF TypeOK, Planned, Summary
  <2> HIDE DEF want, got
  <2>2. /\ Calculate(want, Apply(Actions(want, got), got)) = {}
        /\ {a.package : a \in Actions(want, got)} = {item[1] : item \in Calculate(want, got)}
    BY <2>1, PlansMeetDrift
  <2>3. /\ Calculate(want, Apply(plan[d], got)) = {}
        /\ {a.package : a \in plan[d]} = {item[1] : item \in Calculate(want, got)}
    BY <2>1, <2>2
  <2> QED BY <2>3 DEF want, got
<1> QED BY <1>1, <1>2, <1>3, TypesInvariant, PTL DEF Spec
================================================================================
