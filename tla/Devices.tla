-------------------------------- MODULE Devices --------------------------------
(***************************************************************************)
(* The devices of one workspace: their registration under idempotency      *)
(* keys, the heartbeats that replace what the server knows of a device,    *)
(* and the loop that keeps a device in line with the manifest: an agent    *)
(* asks for a plan, installs what it says and reports what is installed.   *)
(* The server computes a plan, and the drift it shows to the team, from    *)
(* the last report alone.  A heartbeat reads the device first and writes   *)
(* back, later, whatever the client has left out.                          *)
(*                                                                         *)
(* With PostgreSQL a registration, its audit event, its outbox event and   *)
(* its key commit together under the lock of the key.  With files the      *)
(* device is stored first, the events follow, and the key is noted last,   *)
(* in the memory of the server: if an event cannot be written the call     *)
(* fails, and the device is there without its key.                         *)
(* How the file itself can lose an update is in FileStore, what a manifest *)
(* may name in Revisions.  The agent is not part of the server.            *)
(***************************************************************************)
EXTENDS Naturals, FiniteSets

CONSTANTS Device,        (* device ids                                      *)
          Managed,       (* the devices that run an agent                   *)
          Name,          (* display names                                   *)
          Package, Digest,
          Key,           (* values of Idempotency-Key                       *)
          Registration,  (* the registrations clients may send, and repeat  *)
          Manifests,     (* manifests an administrator may save             *)
          Newest,        (* the newest release of each package              *)
          Ping,          (* heartbeats without packages, each sent once     *)
          Target,        (* the device of each of them                      *)
          MaxRevisions,  (* bound: manifests saved                          *)
          MaxFaults,     (* bound: restarts, registrations that fail, and   *)
                         (* changes made on a device by hand                *)
          Stores,        (* the stores considered                           *)
          Absent,        (* the digest of a package that is not there       *)
          NoDevice,      (* no row                                          *)
          NoId, NoList   (* a field the client has left out                 *)

VARIABLES store,         (* where the data is                               *)
          revision,      (* the number of the current manifest, or 0        *)
          manifest,      (* the current manifest                            *)
          devices,       (* per id: the name and the packages known of it   *)
          keys,          (* rows of idempotency_keys, or the map of them    *)
          stage,         (* per heartbeat and agent: what it does next      *)
          found,         (* per heartbeat and agent: the device it has read *)
          desired,       (* per agent: the manifest its plan is made for    *)
          plan,          (* per agent: the actions it was given             *)
          disk,          (* per device: what is installed on it             *)
          made,          (* history: ids registered under each key          *)
          forgotten,     (* history: how often the server has stored a      *)
                         (* device under each key and not kept the key      *)
          said,          (* history: per id: what clients last said of it   *)
          overtaken,     (* history: heartbeats that have read a summary    *)
                         (* which was replaced meanwhile                    *)
          stale,         (* history: per id: fields such a heartbeat wrote  *)
          faults         (* faults so far                                   *)

manifests == <<revision, manifest>>
tables == <<manifests, devices, keys>>
agents == <<desired, plan, disk>>
history == <<made, forgotten, said, overtaken, stale>>
vars == <<store, tables, stage, found, agents, history, faults>>

\* A list of installed packages, and a manifest.
List == [Package -> Digest \cup {Absent}]
Empty == [p \in Package |-> Absent]
Summary == [name : Name, list : List]
Registrations == [key : Key, id : Device \cup {NoId}, name : Name, list : List \cup {NoList}]
Action == [package : Package, kind : {"install", "update", "remove"}, to : Digest \cup {Absent}]

\* An agent is known by its device.
Client == Ping \cup Managed

Chosen == {c.id : c \in Registration} \ {NoId}

ASSUME StoresAssumption == Stores \subseteq {"postgres", "file"}
ASSUME NamesAssumption == Ping \cap Device = {} /\ Managed \subseteq Device /\ NoId \notin Device /\ NoList \notin List /\ NoDevice \notin Summary
ASSUME InputsAssumption == /\ Registration \subseteq Registrations
                           /\ Manifests \subseteq List /\ Newest \in List
                           /\ Target \in [Ping -> Device]
ASSUME BoundsAssumption == MaxRevisions \in Nat /\ MaxFaults \in Nat

Init ==
  /\ store \in Stores
  /\ revision = 0
  /\ manifest = Empty
  /\ devices = [d \in Device |-> NoDevice]
  /\ keys = {}
  /\ stage = [h \in Client |-> "idle"]
  /\ found = [h \in Client |-> NoDevice]
  /\ desired = [d \in Managed |-> Empty]
  /\ plan = [d \in Managed |-> {}]
  /\ disk = [d \in Managed |-> Empty]
  /\ made = [k \in Key |-> {}]
  /\ forgotten = [k \in Key |-> 0]
  /\ said = [d \in Device |-> NoDevice]
  /\ overtaken = {}
  /\ stale = [d \in Device |-> {}]
  /\ faults = 0

Fault == faults < MaxFaults /\ faults' = faults + 1

DeviceOf(h) == IF h \in Ping THEN Target[h] ELSE h

-------------------------------------------------------------------------------
(* Drift and plans.                                                        *)

MutExpected == IF revision <= 1 THEN Newest ELSE manifest

\* What drift compares with: the newest releases while no manifest is saved,
\* although a plan is then made for an empty one.
Expected == IF revision = 0 THEN Newest ELSE manifest

Kind(want, got) ==
  IF got = Absent THEN "missing" ELSE IF want = Absent THEN "extra" ELSE "changed"

Calculate(want, got) == {<<p, Kind(want[p], got[p])>> : p \in {q \in Package : want[q] # got[q]}}

\* The drift shown to the team: one item per device and package that differ.
DriftItems ==
  {x \in Device \X (Package \X {"missing", "changed", "extra"}) :
     devices[x[1]] # NoDevice /\ x[2] \in Calculate(Expected, devices[x[1]].list)}

Wanted(want, got) ==
  {[package |-> p, kind |-> IF got[p] = Absent THEN "install" ELSE "update", to |-> want[p]] :
     p \in {q \in Package : want[q] # Absent /\ want[q] # got[q]}}

Unwanted(want, got) ==
  {[package |-> p, kind |-> "remove", to |-> Absent] :
     p \in {q \in Package : want[q] = Absent /\ got[q] # Absent}}

MutActions(want, got) == Wanted(want, got)

Actions(want, got) == Wanted(want, got) \cup Unwanted(want, got)

Apply(actions, list) ==
  [p \in Package |-> IF \E a \in actions : a.package = p
                       THEN (CHOOSE a \in actions : a.package = p).to ELSE list[p]]

-------------------------------------------------------------------------------
(* What the server stores of a device.                                     *)

MutKept(d, list) == IF list = NoList THEN Empty ELSE list

MutUnchecked(d, list) == list

\* The packages after a save.  A row keeps its packages if the list is nil; the
\* entry of a file is replaced.
Kept(d, list) ==
  IF list # NoList THEN list
  ELSE IF store = "postgres" /\ devices[d] # NoDevice THEN devices[d].list ELSE Empty

\* An empty list reads back as nil.
ReadBack(list) == IF list = Empty THEN NoList ELSE list

Save(d, name, list) == devices' = [devices EXCEPT ![d] = [name |-> name, list |-> Kept(d, list)]]

\* The heartbeats of d that have read it and not yet saved it.
Readers(d) == {h \in Client : DeviceOf(h) = d /\ stage[h] = "saving"}

-------------------------------------------------------------------------------
(* Registration.                                                           *)

\* nil and empty lists have the same encoding.
Fingerprint(c) == [id |-> c.id, name |-> c.name, list |-> IF c.list = NoList THEN Empty ELSE c.list]

MutKeyRows(c) == {k \in keys : k.key = c.key /\ k.fingerprint = Fingerprint(c)}

KeyRows(c) == {k \in keys : k.key = c.key}

\* The id a registration will have: if it names none, one nobody has used.
NewId(c, d) == IF c.id = NoId THEN d \notin Chosen /\ devices[d] = NoDevice ELSE d = c.id

\* A registration replaces the summary; with PostgreSQL one without packages
\* says nothing of them.
SaidList(c, d) ==
  IF c.list # NoList THEN c.list
  ELSE IF store = "postgres" /\ said[d] # NoDevice THEN said[d].list ELSE Empty

StoreNew(c, d) ==
  /\ KeyRows(c) = {}
  /\ NewId(c, d)
  /\ Save(d, c.name, c.list)
  /\ made' = [made EXCEPT ![c.key] = @ \cup {d}]
  /\ said' = [said EXCEPT ![d] = [name |-> c.name, list |-> SaidList(c, d)]]
  /\ stale' = [stale EXCEPT ![d] = IF c.list = NoList /\ store = "postgres" THEN @ \ {"name"} ELSE {}]
  /\ overtaken' = overtaken \cup Readers(d)

RegisterNew(c, d) ==
  /\ StoreNew(c, d)
  /\ keys' = keys \cup {[key |-> c.key, fingerprint |-> Fingerprint(c), device |-> d]}
  /\ UNCHANGED <<forgotten, faults>>

\* mutateWorkspace fails after the device is in its file, at the audit event or
\* at the outbox event: the key is not noted.
RegisterFails(c, d) ==
  /\ store = "file"
  /\ Fault
  /\ StoreNew(c, d)
  /\ forgotten' = [forgotten EXCEPT ![c.key] = @ + 1]
  /\ UNCHANGED keys

\* The call is answered with the device of the key, or refused.
RegisterAgain(c) == KeyRows(c) # {} /\ UNCHANGED <<devices, keys, history, faults>>

\* RegisterForWorkspaceIdempotent: one transaction, or one stay under the mutex.
\* Whether the client sees the answer or not, it may send the request again.
Register(c) ==
  /\ RegisterAgain(c) \/ \E d \in Device : RegisterNew(c, d) \/ RegisterFails(c, d)
  /\ UNCHANGED <<store, manifests, stage, found, agents>>

-------------------------------------------------------------------------------
(* Heartbeats.                                                             *)

\* HeartbeatForWorkspace lists the devices; h is a ping, or an agent that has
\* installed its plan.
ReadDevice(h) ==
  /\ stage[h] = IF h \in Ping THEN "idle" ELSE "installed"
  /\ devices[DeviceOf(h)] # NoDevice
  /\ found' = [found EXCEPT ![h] = devices[DeviceOf(h)]]
  /\ stage' = [stage EXCEPT ![h] = "saving"]
  /\ UNCHANGED <<store, tables, agents, history, faults>>

\* A field that the client leaves out is written as it was read.  With files the
\* events follow here too; if one cannot be written the call fails with the device
\* stored, and the client is where an answer would have taken it.
SaveHeartbeat(h) ==
  LET d == DeviceOf(h)
      list == IF h \in Ping THEN ReadBack(found[h].list) ELSE disk[d]
      behind == IF h \in overtaken THEN {"name"} \cup (IF h \in Ping THEN {"list"} ELSE {}) ELSE {}
  IN /\ stage[h] = "saving"
     /\ Save(d, found[h].name, list)
     /\ said' = IF h \in Ping THEN said ELSE [said EXCEPT ![d].list = list]
     /\ stale' = [stale EXCEPT ![d] = (IF h \in Ping THEN @ ELSE @ \ {"list"}) \cup behind]
     /\ overtaken' = (overtaken \cup Readers(d)) \ {h}
     /\ stage' = [stage EXCEPT ![h] = IF h \in Ping THEN "done" ELSE "idle"]
     /\ found' = [found EXCEPT ![h] = NoDevice]
     /\ UNCHANGED <<store, manifests, keys, agents, made, forgotten, faults>>

-------------------------------------------------------------------------------
(* The agent of a device, and who else changes what it works on.           *)

\* Plan reads the manifest first.
ReadManifest(d) ==
  /\ stage[d] = "idle"
  /\ devices[d] # NoDevice
  /\ desired' = [desired EXCEPT ![d] = manifest]
  /\ stage' = [stage EXCEPT ![d] = "planning"]
  /\ UNCHANGED <<store, tables, found, plan, disk, history, faults>>

\* Then it lists the devices, and compares.
Plan(d) ==
  /\ stage[d] = "planning"
  /\ found' = [found EXCEPT ![d] = devices[d]]
  /\ plan' = [plan EXCEPT ![d] = Actions(desired[d], devices[d].list)]
  /\ stage' = [stage EXCEPT ![d] = "planned"]
  /\ UNCHANGED <<store, tables, desired, disk, history, faults>>

Install(d) ==
  /\ stage[d] = "planned"
  /\ disk' = [disk EXCEPT ![d] = Apply(plan[d], @)]
  /\ stage' = [stage EXCEPT ![d] = "installed"]
  /\ found' = [found EXCEPT ![d] = NoDevice]
  /\ desired' = [desired EXCEPT ![d] = Empty]
  /\ plan' = [plan EXCEPT ![d] = {}]
  /\ UNCHANGED <<store, tables, history, faults>>

SaveManifest(m) ==
  /\ revision < MaxRevisions
  /\ revision' = revision + 1
  /\ manifest' = m
  /\ UNCHANGED <<store, devices, keys, stage, found, agents, history, faults>>

\* A user removes a package, or installs its newest release, by hand.
Tamper(d, p) ==
  /\ Fault
  /\ \E x \in {Absent, Newest[p]} : disk' = [disk EXCEPT ![d][p] = x]
  /\ UNCHANGED <<store, tables, stage, found, desired, plan, history>>

\* The server restarts: calls at hand are lost, and so is the map of keys.  An
\* agent whose call fails starts over.
Restart ==
  /\ Fault
  /\ keys' = IF store = "file" THEN {} ELSE keys
  /\ forgotten' = [k \in Key |->
       IF \E r \in keys \ keys' : r.key = k THEN forgotten[k] + 1 ELSE forgotten[k]]
  /\ stage' = [h \in Client |-> IF stage[h] \in {"planning", "saving"}
                                 THEN (IF h \in Ping THEN "done" ELSE "idle") ELSE stage[h]]
  /\ found' = [h \in Client |-> IF stage[h] = "saving" THEN NoDevice ELSE found[h]]
  /\ desired' = [d \in Managed |-> IF stage[d] = "planning" THEN Empty ELSE desired[d]]
  /\ overtaken' = {}
  /\ UNCHANGED <<store, manifests, devices, plan, disk, made, said, stale>>

-------------------------------------------------------------------------------
Agent(d) == ReadManifest(d) \/ Plan(d) \/ Install(d) \/ ReadDevice(d) \/ SaveHeartbeat(d)

Next ==
  \/ \E c \in Registration : Register(c)
  \/ \E h \in Ping : ReadDevice(h) \/ SaveHeartbeat(h)
  \/ \E d \in Managed : Agent(d)
  \/ \E m \in Manifests : SaveManifest(m)
  \/ \E d \in Managed, p \in Package : Tamper(d, p)
  \/ Restart

\* An agent runs its loop again and again.
Fairness == \A d \in Managed : WF_vars(Agent(d))

Spec == Init /\ [][Next]_vars /\ Fairness

-------------------------------------------------------------------------------
(* Properties.                                                             *)

TypeOK ==
  /\ store \in Stores
  /\ revision \in 0..MaxRevisions
  /\ manifest \in List
  /\ devices \in [Device -> Summary \cup {NoDevice}]
  /\ \A k \in keys : k.key \in Key /\ k.device \in Device /\ devices[k.device] # NoDevice
  /\ stage \in [Client -> {"idle", "planning", "planned", "installed", "saving", "done"}]
  /\ found \in [Client -> Summary \cup {NoDevice}]
  /\ desired \in [Managed -> List]
  /\ plan \in [Managed -> SUBSET Action]
  /\ disk \in [Managed -> List]
  /\ made \in [Key -> SUBSET Device]
  /\ forgotten \in [Key -> Nat]
  /\ said \in [Device -> Summary \cup {NoDevice}]
  /\ overtaken \subseteq Client
  /\ stale \in [Device -> SUBSET {"name", "list"}]
  /\ faults \in 0..MaxFaults

\* However often a client repeats a registration, its key makes one device with
\* PostgreSQL.  With files it makes another one only where the server has stored a
\* device and not kept the key: it has restarted since (the map of keys is not
\* written to a file), or the audit or outbox event of the registration failed.
KeyIsOneDevice ==
  \A k \in Key :
    Cardinality(made[k]) <= 1 + (IF store = "file" THEN forgotten[k] ELSE 0)

\* What the server knows of a device is what clients have last said of it: its
\* name and its packages are older only if a heartbeat that left them out has
\* read them before they were replaced and written them afterwards.
SummaryIsTheLatest ==
  \A d \in Device : devices[d] # NoDevice =>
    /\ "name" \notin stale[d] => devices[d].name = said[d].name
    /\ "list" \notin stale[d] => devices[d].list = said[d].list

\* A plan is neither too short nor too long: a device that is as the server
\* believes it to be has no drift from the manifest of the plan afterwards, and
\* no package that was right is touched.
PlanRemediesDrift ==
  \A d \in Managed : stage[d] = "planned" =>
    /\ Calculate(desired[d], Apply(plan[d], found[d].list)) = {}
    /\ {a.package : a \in plan[d]} = {item[1] : item \in Calculate(desired[d], found[d].list)}

\* Once a manifest is saved and nobody changes it any more, the agents bring
\* their devices in line with it: the team sees no drift of one, whatever was lost,
\* written back or changed by hand before.
EventuallyConverged ==
  <>[](revision > 0 => \A item \in DriftItems : item[1] \notin Managed)
================================================================================
