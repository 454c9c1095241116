# A TLA+ verification of agentx-server

agentx-server is the control plane of the AgentX registry: workspaces publish
content-addressed packages (gzip Skill archives), devices report what they have
installed, administrators set a team manifest and a policy. It is a Go program
that runs as one or more replicas of one binary. Hosted deployments keep their
tables in PostgreSQL and the archives in an S3 store; the local mode keeps JSON
files and a directory.

This directory models the parts of it whose correctness depends on orders of
events that tests hardly reach, checks the models with TLC on small instances and
proves the central properties for all instances with TLAPS.

```
tlc -workers 2 -config MC_Outbox.cfg MC_Outbox        # model-check one run
tlapm OutboxProofs.tla                                # check the proofs of a module
```

## 1. Inventory

| Component | State it keeps | Operations that change it | Talks to |
|---|---|---|---|
| outbox and worker (`internal/repo/postgres/outbox.go`, `internal/job/worker.go`) | table `outbox`: attempts, available_at, processed_at, dead_lettered_at; the batch in a worker's hands | Enqueue (inside the mutation's transaction), Claim, MarkProcessed, MarkFailed, MarkDeadLetter | every use case enqueues; the worker calls the handler of the topic |
| artifact cleanup (`internal/job/artifact_cleanup.go`) | none of its own | Handle: lock digest, check references, remove object | package repository, artifact store |
| registry (`internal/usecase/registry`) | releases, idempotency keys, objects of the store | PublishForWorkspaceIdempotent, cleanupFailedPublish, Approve, unscoped Publish | package repository, store, policy, outbox |
| workspace (`internal/usecase/workspace`) | workspaces, memberships, invitations | Create, Delete, AddMember, UpdateMemberRole, RemoveMember, CreateInvitation, RevokeInvitation, ClaimInvitation; List page by page | repositories, outbox, audit |
| invitation delivery (`internal/job/invitation_delivery.go`) | none of its own | Handle: load the invitation, send it if it is pending; without a mail server the event is acknowledged unread | workspace repository, mail server |
| legal holds (`internal/usecase/legalhold`, `postgres/legal_hold.go`) | `legal_holds` | Create, Release | deletion of accounts and workspaces, pruning |
| account (`internal/usecase/account`, `postgres/account.go`) | users and every reference to one | DeleteAccount (Export reads) | legal holds |
| audit retention (`internal/job/audit_retention.go`) | `audit_events` | PruneAuditEvents in bounded batches | legal holds |
| policy, manifest (`internal/usecase/{policy,manifest}`) | revisions | Replace: read the current revision, insert the next | registry, reconcile, drift |
| device (`internal/usecase/device`) | devices with their packages, keys of registrations | Register (idempotent), Heartbeat (reads the device, then writes all of it) | outbox, audit |
| drift, reconcile | none | pure functions of devices, releases, manifest; the agent on a device carries a plan out | device agents |
| rate limiters (`postgres/rate_limit.go`, `http/observability.go`) | counters for fixed windows | Allow | every request, the connection pool |
| connection pool (`pgxpool`, external) | connections of a replica | acquired by statements, transactions, open rows, digest locks | every PostgreSQL call |
| file repositories (`internal/repo/file`) | five JSON files, a mutex for two of them | the same contracts as PostgreSQL, without transactions across files | |
| HTTP controllers, auth, config, preflight, telemetry, signatures, SMTP | configuration | decode, verify, observe | everything |

What is hard about it: the database and the object store share no transaction; a
request's context ends when its client disconnects (`ContextWithFallback`), in
the middle of a multi-step operation; replicas stop between any two steps;
outbox events are delivered more than once and by several replicas at the same
time when a lease runs out; PostgreSQL runs in read-committed mode, so a value
read in a transaction may be stale when used; advisory locks belong to a
connection and vanish with it. `PROJECT.json` lists each hazard at its line, with
the properties that would catch it going wrong or where the plan covers it.

What makes each component correct:

* outbox: a committed event is never lost, is retired by a mark that follows a
  delivery or after the attempts are used up, attempts are bounded;
* artifact lifecycle: a committed release can always be downloaded; an object
  that nothing references is removed in the end; one idempotency key makes one
  release;
* workspaces: exactly one owner, one open invitation for an address, an invitation is
  claimed or revoked at most once and only while pending, and mailed where a mail server is
  configured; a listing read to its end is complete;
* legal holds: what is under an active hold exists, no event it covers is pruned or leaves
  its cover, and the records of holds and deletions stay;
* revisions: strictly increasing without gaps or duplicates; a release follows a policy
  that was in force while it was published; a pending one is named by no manifest, not
  downloaded and approved once;
* devices: a key makes one device, the server knows what clients last said, a plan
  removes the drift it was made for, devices converge;
* files: always whole, and what was acknowledged is in them;
* account deletion: no trace of the identity stays behind or comes back;
* admission: no minute admits more than twice the limit, and the pool does not hang.

## 2. Modules

| Module | Models |
|---|---|
| `AtLeastOnce` | abstract: what the outbox promises, without rows, leases, batches or workers |
| `Outbox` | the table and one worker loop for each replica; implements `AtLeastOnce` |
| `OutboxProofs` | theorems about `Outbox` |
| `ArtifactLifecycle` | publication, clean-up of a failed one, deletion of a workspace, the cleanup job |
| `ArtifactLifecycleProofs` | theorems about `ArtifactLifecycle` |
| `Retention` | legal holds, deletion of accounts and workspaces, pruning of audit events, and the mutations they meet |
| `RetentionProofs` | theorems about `Retention` |
| `Membership` | members, invitations, their delivery and the paged listing of one workspace, with both stores |
| `MembershipProofs` | theorems about `Membership` |
| `Register` | abstract: a numbered document is a log |
| `Revisions` | policies, manifests, publication status, approval and downloads in PostgreSQL; implements `Register` twice |
| `RevisionsProofs` | theorems about `Revisions`, with the refinement of `Register` |
| `Devices` | registration, heartbeats, drift, plans and the agents that follow them |
| `DevicesProofs` | theorems about `Devices`, and that drift and plan agree |
| `FileStore` | the five JSON files, system call by system call |
| `FileStoreProofs` | theorems about `FileStore` |
| `Admission` | rate limits, connections of the pools, the digest lock's session |
| `AdmissionProofs` | the theorem about the rate limit |
| `MC_*` | the instances that TLC checks |

An operator whose name starts with `Mut` is a plausible bug of the definition that
follows it. No specification uses it; it shows that a property can fail.

### Outbox

Variables are the columns (`attempts`, `processed`, `dead`), the set `due` of
unretired rows with `available_at` in the past, and for each worker the rest of its
batch (`todo`), the attempts its claim returned (`seen`), the event at hand
(`current`) and what the handler said (`outcome`). `Claim` is the one
`UPDATE ... RETURNING`; `FOR UPDATE SKIP LOCKED` shows as candidates that may be
skipped while another worker's mark has their row locked. Time is gone: `Elapse`
makes a leased or rescheduled row available at any moment, so it covers every
length of lease and backoff and a worker that outlives its lease. The marks are
unconditional updates by id, as in the code: a late worker's mark lands on a row
that was claimed again. `ClaimLost`, `MarkLost` and `Crash` are the failures. The
order of a batch and of `available_at` is left open (`RETURNING` promises no
order), so the model does not favour older rows; for liveness that means it
relies on the fairness of claims only while rows compete for a full batch, and
the instance's batch holds all rows.

### ArtifactLifecycle

Tables are sets of rows (`live`, `releases`, `keys`), the store is the set of
digests it holds, `lock` maps a digest to the process that holds its advisory
lock. A request runs `StartPublish` (validation is done, the lock is granted),
`Put`, `Save` (one transaction: replay, insert or reject), and on an error after the
upload `Cleanup` and perhaps `EnqueueCleanup`. A worker `Take`s an open job and
runs the same `Cleanup`, which the code writes twice with the same steps
(`cleanupFailedPublish` and `ArtifactCleanupHandler.Handle`). The deletion of a
workspace reads the digests (`ReadCandidates`) and later deletes and enqueues
(`DeleteWorkspace`): two statements of one read-committed transaction, with the
foreign keys that serialise the delete with an insert of a release.

Cleanup jobs behave as `AtLeastOnce` allows: an open job can be with several workers,
can be buried after any failed try (the retry limit is `Outbox`'s subject). This
is how the two modules fit together: `Outbox` is shown to implement the promise,
and `ArtifactLifecycle` relies on no more than the promise.

`Cancel` ends a request's context: from then on each of its calls fails
(`CallFails`), except the unlock, which has a context of its own. Every error can
hide an effect where the code cannot know: an upload that was stored, a removal
that happened, a commit whose answer was lost. `leaked` and `unguarded` are history
variables; nothing reads them but the properties.

Abstractions: one request is one call of `PublishForWorkspaceIdempotent`, with a name
fixed and the payload reduced to its digest; the record compared by fingerprint
is workspace, key, version and digest. Requests made without
PostgreSQL, the older non-idempotent `PublishForWorkspace`, and effects the store
carries out after it has reported an error are outside the module. A transaction
that waits for another is a transaction that runs after it. One deletion of a
workspace runs at a time: the second would wait for the first one's locks and then
find nothing.

### Retention

A request is one transaction: a sequence of statements, given by `Steps` for each
kind, and then its writes in one commit action. The statements name what they
lock (`Need`): the advisory locks of the code (an account, the target of a hold,
all pruning) and the rows that are updated, deleted or referenced. `locks` is the set of
locks a request holds, shared ones for the key-share lock that an insert takes on the
workspace it references. `Execute` runs a statement that need not wait, and a `check`
statement only when what it reads permits the request; reads see the committed
tables, as in read-committed mode. `Choose` is the DELETE of the pruning with
`FOR UPDATE SKIP LOCKED`. The commits (`CreateLegalHold`, `DeleteAccount`, ...) write;
`DeleteAccount` rewrites only the rows that its earlier statements found and locked, so
rows committed since then escape it as they do in the code. `DeleteWorkspace` sets
the workspace of audit events to NULL (migration 006) and drops memberships.
`Abort` is every other end: a refusal, an error, a client that goes away, the victim of a
deadlock. `Authorized` lists the requests that the use cases let through at `Begin`, by
the memberships at that time; nothing checks them again.

Abstractions: a statement locks all its rows at once, or waits for all of them.
The three updates of `legal_holds` in `DeleteAccount` are one statement. Which events are
old enough to prune, and the limit of a batch, are left open: the pruning takes any
subset of what it may take. Slugs, invitations, reasons and outbox payloads are left out,
and so is `resource_id`, where the event of an added member keeps that account's
id for good. `erased` is a history variable that only a property reads.

Three mutations stand for all that meet the deletions, one for each order of locks. Creating
a workspace takes an account's lock alone. Adding a member takes an account's lock, inserts a row,
and references the workspace. Removing one (`RemoveMember`) locks a row of the workspace first
and references the workspace afterwards, with its audit event; a change of a role, and the creation
and revocation of an invitation, do the same, and a claim does it after the account's lock. The
rows of invitations are not among the locks, nor are references to rows of `users`: with respect to
the deletion of the workspace, whose cascade takes those rows as it takes memberships, the
removal has their order, but a circle that needs one of those rows is not explored.

### Membership

A request is authorized and makes its other checks at `Begin`, by tables it reads outside
any transaction (`Authorize`, `InvitationForEmail`); `UpdateMemberRole` and `RemoveMember`
read the member as well (`ReadMember`) and stamp the time; the change comes later, in one
step. That step is a transaction in PostgreSQL, whose row locks, unique indexes and foreign
keys serialise it, and a stay under the mutex with files. So everything read before may
be stale, and the time a request goes by (`at`) may be past. The two stores, chosen in
`Init`, differ where the code does: a deleted workspace (`Referenced`), the outbox
event after the change instead of with it (`Announce`), the count and the page of a
listing as two statements or one (`CountMembers`, `FetchMembers`), and where a member
appears in it (`InsertRow`: by `created_at`, or at the end). Whether a mail server is
configured (`smtp`) is chosen in `Init` too. With one the worker loads an invitation and
sends it (`LoadInvitation`, `SendInvitation`, `SendFails`); without one it acknowledges
the event and nothing is mailed (`SkipInvitation`). A hosted server refuses to start without,
unless `AGENTX_ALLOW_UNDELIVERED_INVITATIONS` is set for isolated staging; a local one with
files starts without, and usually has none.

Abstractions: one workspace; a refused or failed request stops where it is, since it
changes nothing. An event of an invitation is in one worker's hands at a time, that several
may have it is `Outbox`'s subject; only the event that mails is kept. `DeleteAccount` is
reduced to what it does to members and invitations; holds are in `Retention`.
`AddMember` is an operation of the service that no route leads to; it is modelled because
the tests and the repository contract use it. `rows` is the order in which the members are
listed: a removal leaves an order of the others in which each keeps its place before the
next (`Orders`, `Before`). `moved` and `raced` are history.

### Revisions and Register

`Register` is a log: a replacement appends, an author is told his number or nothing, the
deletion closes it. In `Revisions` a replacement reads the current revision (`ReadRevision`)
and inserts the next (`Insert`) with nothing in between but the unique index, and a
manifest looks up its entries one at a time before that (`LookUp`). A publication reads the
policy (`ReadPolicy`) and commits after its upload (`Commit`); `Approve` updates a pending
row and enqueues its event; `Open` is a download, by digest of any release that has it.
Failures roll back or hide a commit; `Restart` loses requests and may change whether a
signature verifier is configured. `since` and `until` are history: the policy when a
publication began, and when it was saved.

Abstractions: what a policy says is the set of its settings; a manifest is a set of
entries; signatures are given or not, and good when given. Audit and outbox events
of replacements commit with the row and are left out. With files nothing checks
a revision for uniqueness (`SaveRevision` in `FileStore`), so `KeepsRegisters` is a
promise of PostgreSQL alone.

### Devices

A registration is one step (`Register`); repeating it is the same action again. With
PostgreSQL the device and its key commit together (`RegisterNew`). With files the device is
saved, then the audit event and the outbox event, and the key is noted last: if one of the
events fails the client gets an error, the device stays, and the key does not
(`RegisterFails`). A heartbeat whose events fail leaves its device saved too, and its
client where an answer would have left it. A heartbeat reads the device (`ReadDevice`) and saves it later with what it has
read in the place of what the client left out (`SaveHeartbeat`); `Kept` and `ReadBack` are
the treatment of nil and empty lists, which differs between the stores. `Calculate`,
`Expected` and `Actions` are drift and plan. The plan reads manifest and device one after
the other (`ReadManifest`, `Plan`). `Install`, `Tamper` and the agent's repetition are not
in this repository: they stand for a client that does what a plan says and for a user who
does not. `said`, `overtaken`, `stale`, `made` and `forgotten` (how often a device was
stored and its key not kept) are history.

Abstractions: a list of packages is a function of the package, one version each;
manifests and the newest releases are constants of the instance. Agent and
status columns follow the same read and write as the name and are left out.

### FileStore

A behaviour concerns one of the five files; the files share nothing. `Load` is the mutex,
if the call takes one, the read, and the change of the document in memory (`Change`, with an
operator for each call of the repositories). Saving is three system calls: `OpenTmp`
truncates `<file>.tmp`, `Write` fills the inode it has opened, `Rename` moves whatever
has the name `.tmp` by then. An open file stays open under a new name, so a call without
mutex may write into the document another has just put in place. `Restart` may come
between any two calls, `WriteFails` leaves torn bytes. `WorkspaceRepo` keeps its slices and
goes on with them as long as there is no file (`Source`). `overlapped` and `early` are
history.

Abstractions: `fsync` is absent from the code, and so is what a loss of power does from the
model. Of the events, `Claim` takes all that are due; the code's limit of 50 is left out.
Rows that are equal in every column are one row, which happens only to revisions. Ids the
code makes at random are new (`Fresh`, `IdAssumption`), and the id of a workspace is known
to other calls only when the call that creates it has returned.

### Admission

`Count` is the limiter (one upsert in PostgreSQL for all replicas, a map under a mutex
without), then a request occupies connections of its replica's pool: one at a time
(`Query`), a second one while rows are open (`OpenList`, `ReadPackages`), a second one
while it holds the session of a digest lock (`TakeSession`, `TakeLock`, `SaveRelease`,
`Check`). Every other handler is `Query`. Counters of earlier windows are never read
again and are not kept. There is one clock: with PostgreSQL the windows are those of the
database's (`clock_timestamp()` in the upsert), whichever replica asks; the limiter in
memory goes by the clock of its server, which is then the only one.

## 3. Runs

| Run | Question | Result |
|---|---|---|
| `outbox` | rows, replicas and faults against the promise and the retry limit | holds |
| `artifact_lifecycle` | all processes, one fault of any kind | holds |
| `retention` | holds, deletions, pruning and mutations, statement by statement | holds |
| `membership` | members, invitations and listings under three racing requests, both stores | holds |
| `revisions` | replacements, publications, approvals and downloads against the log and the policy | holds |
| `devices` | repeated registrations, stale heartbeats and the agents' loop, both stores | holds |
| `file_store` | each JSON file under overlapping calls, stops and failed writes | holds |
| `admission` | rate limits and the pool, two replicas, both stores | holds |
| `deletion_race` | does a deletion enqueue a job for every digest of the workspace? | no |
| `cancelled_publish` | is a failed publication always cleaned up or enqueued? | no |
| `lost_session` | does a clean-up remove only unreferenced objects? | no, when a lock's session is lost |
| `erased_identity` | does the deletion of an account leave no actor reference behind? | no, calls under way bring it back |

`outbox`: two rows, two replicas, a batch of two, a limit of two attempts, one fault.
Two replicas are enough for every overlap of a stale and a fresh claim; a limit
of two lets the second claim be the last, so both marks of a failure meet; one
batch holds both rows, so a crash takes two with it.

* `DistinctClaims`: workers with the same event hold different claims of it.
* `RetryLimit`: attempts stay below the limit plus the number of workers and
  faults. The limit itself is not a bound: claims already under way and claims
  nobody handled come on top.
* `KeepsPromise`: refinement of `AtLeastOnce` by the columns.
* `EventuallyRetired`: every committed row is processed or dead-lettered.

`artifact_lifecycle`: two requests over four inputs (retry, same key for another
version, another key for the same version, another workspace), two workers, one
shared digest, one fault of any of nine kinds. One digest is where processes
meet: nothing in the code relates two digests, since locks, checks, removals and jobs
are each of one digest. Two requests make the races of publication with
publication and of publication with clean-up; the second worker makes a job run
twice at once. With two faults and one worker the safety properties and
the inductive invariants hold as well (739 000 states, not part of the runs for
its time), and the proofs have no bound at all.

* `NoDanglingReference`: a committed release has its object, unless the session of
  the digest's lock was lost (`lost_session` shows why that exception is needed).
* `OrphansAreExplained`: an unreferenced object is in a request's hands, has a job, or
  leaked by one of four causes: an upload reported as failed, a stop of the
  replica, a clean-up that could not be enqueued, the deletion race. A fifth way
  would violate it.
* `KeyIsOneRelease`: one key, one payload, one creation.
* `OrphansAreCollected`: an orphan is removed or referenced again in the end,
  unless leaked or its job is a dead letter.

`retention`: any three transactions, three accounts (an owner, an administrator who is also
the compliance administrator, an outsider), one workspace that exists and one id
that is free. Two transactions make each race of a hold with a deletion, of a hold with a
pruning, of a creation with a deletion; the third one prepares what they race about (the
hold to be released, the event to be pruned) or closes a circle of waits. Any four
transactions hold the properties as well (2.4 million states, not a run for its time), and
the proofs have no bound.

* `HoldTargetsExist`: what is under an active hold exists, and neither holds nor their
  records name an account that was deleted.
* `HeldEventsKept`: while a hold is active no step removes an event it covers or
  moves it out of its cover, and tombstones stay.
* `OwnersKept`: a workspace has an owner, although the owner's account may be deleted
  while it creates one.
* `DeadlocksAreOfDeletions`: requests that wait in a circle include two deletions, or the
  deletion of a workspace and the removal of a member of it. The circles of two that exist are
  two deletions of one workspace, the deletion of a member's account with the deletion of the
  workspace, and a removal with the deletion of the workspace: it has the workspace and
  cascades to the membership, whose row the removal has locked before its audit event
  references the workspace. `ReleaseLegalHold` locks the hold before the target, the
  deletions lock in the other order, and no circle comes of it, because a deletion whose
  check has passed finds no active hold to wait for.

`membership`: an owner, an administrator, and a user without membership who has the owner's
address; any three of fourteen requests, which may repeat; a clock of two instants, pages
of one member, two attempts, one failed delivery, with and without a mail server. Three
requests are an action that prepares (an invitation), and two that race about it. Time 0 and
1 are before and after the expiry of an invitation. With pages of one member a listing takes
three pages, between which members come and go.

* `OwnerKept`: one owner, whatever roles were read before the change.
* `OneOpenInvitation`: for an address, while others expire, are claimed or revoked.
* `SettledOnce`: one claim or revocation of an invitation succeeds, also for two users with
  one address.
* `GoneIsGone`: a deleted workspace has no members or invitations. With files a member
  who was being added when the workspace went does get in; nothing looks for the workspace.
* `ListingIsComplete`: pages miss a member only after a removal, or an arrival between a
  count and its page: the two causes there are.
* `InvitationsAreMailed`: where a mail server is configured, an invitation that its creator
  was told of is sent or ceases to be pending. Without one nothing is promised; the run has
  both. (`docs/OPERATIONS.md:58` says that the repository sends no invitation email; with a
  mail server the code does.) With files a stop before `Announce` loses the event, but then the
  creator was told of an error.

`revisions`: four of eleven requests (two policies, two publications with the same digest,
three manifests, two approvals, two downloads), one fault. Two policies race with
each other and with a publication, two approvals with each other and a manifest or download.

* `GateFollowsThePolicy`: the status of a release, and whether it is signed, follow a policy
  that was in force at some moment of its publication. Not the policy at its commit: a
  stricter policy that comes during the upload does not count.
* `PendingStaysInside`: nothing held back is served or named by a manifest. What is served
  by digest is content that some release may hand out.
* `ApprovedOnce`: one approval, one event, and only of what a policy held back.
* `KeepsRegisters`: both registers implement `Register`. The loser of a race is
  refused by the index and its client told of an internal error.

`devices`: one managed device, two ids for generated ones, two packages, two keys,
three registrations that may repeat for ever, one heartbeat that leaves fields out, two
manifests, one fault. Registrations with the same key and other content, and a
registration that renames a device during a heartbeat, are among them.

* `KeyIsOneDevice`: with PostgreSQL a key makes one device. With files it makes another one
  for each time a device was stored and the key not kept: a restart, or a registration that
  failed at its audit or outbox event.
* `SummaryIsTheLatest`: what the server holds is what was last said, except for a field
  that a heartbeat left out, read before it was replaced, and wrote after.
* `PlanRemediesDrift`: a plan removes the drift from the manifest it was made for, and the
  packages it names are those in drift; among them are the ones it removes because the
  manifest does not name them.
* `EventuallyConverged`: once manifests and hands are still, a managed device shows no
  drift. The server's compare list and the plan agree only when a manifest exists: before
  the first one drift compares with the newest releases and plans with nothing.

`file_store`: three calls of one file, from a menu of those that meet one another, one
stop or failed write, with or without a file at the start. Three calls are what a lost
update and a rename of another's half-written file need, and a third that reads the result.
The calls of `workspaces.json` come in three menus (workspaces, members, invitations) and
those of `packages.json` in three: they touch different rows of the document, and the calls
of one menu meet on the same ones.

* `FileIsReadable`, `AcknowledgedIsStored`: with the mutex always, without it unless two
  calls overlapped. `devices.json`, `audit.json` and most calls of `packages.json` have none.
* `RefusedIsNotStored`: a change answered with an error is not in the file, nor comes in
  with a later one, but for the slices in memory before the first file exists.
* `DocumentIsConsistent`: keys are unique in every document, lost updates included.
* `EveryCallReturns`: no error path keeps the mutex.

`admission`: two publications of one content and a device list on one replica, a query on
the other; three of the four from one address; pools of two, a limit of one, a minute of
three ticks, two windows, one fault. A pool of two is the smallest in which one locked
publication can finish and two can exhaust it.

* `BurstIsBounded`: an address gets at most twice the limit in any minute, across
  replicas. Once the limit would be wrong: windows are fixed.
* `EndsUnlessExhausted`: admitted requests end, and with them their locks and
  connections, unless a pool runs empty. Each connection may then be held by one that needs
  a second, and nothing but a client that gives up frees it: a limit on publications
  below the size of the pool would.

The four violation runs state what the documentation says:

* `deletion_race` needs no fault: read the digests, publish, delete.
* `cancelled_publish` needs one disconnect between the upload and the commit.
  `cleanupFailedPublish` gets the context that has ended, so its lock, check,
  delete and enqueue all fail.
* `lost_session` needs the lock's connection to break between the check of the
  references and the removal while another publication commits.
* `erased_identity` needs a creation by the account that waits for the account's lock
  while the deletion runs. It then inserts the user row again and an audit event with the
  identity as its actor. Only calls that began before the deletion count: the property
  exempts accounts that ask for something afterwards.

TLC's deadlock check is off: the systems may come to rest, with all requests
answered and all rows retired. Circles of waits are the subject of
`DeadlocksAreOfDeletions`, a property of its own, since `Abort` is always possible.

## 4. Fairness

`Outbox!Fairness`: the clock runs (`Elapse`); a worker polls every second for ever
(`Worker.Run`), its handler returns and its statement ends. All three are weak: each
stays enabled until it happens. Nothing is assumed of faults (bounded by
`MaxFaults`), of new events, or of a handler's success: a row that always fails is
retired as a dead letter, and `EventuallyRetired` shows it.

`ArtifactLifecycle!Fairness`: a request that has begun takes its next step, and so does
a worker. No one owes a publication, a deletion or a disconnect. Weak fairness
of `Publish` and `Work` is enough for the digest lock because a process blocked on
it waits for a holder whose own step is enabled, and PostgreSQL grants advisory
locks in the order of the requests; in the model requests run once, so
they cannot overtake a worker for ever.

`Membership!Fairness`: the worker loop handles queued events and sends what it has loaded, as
in `Outbox`, weakly, since nothing but time can take the step away. Requests owe nothing: a
client may stop anywhere.

`FileStore!Fairness`: strong for each call's next step. `Load` waits for the mutex, which
others may take again and again; `sync.Mutex` hands over to a goroutine that
has waited a millisecond, so it does not starve.

`Devices!Fairness`: weak, for the loop of each agent. This is an assumption about programs
outside the repository: `EventuallyConverged` says what the server does for an agent that keeps
asking and reporting.

`Admission!Fairness`: strong for each handler's next step. The pool keeps those who wait
in a queue, PostgreSQL those who wait for a lock. Nothing is assumed of arrivals, clients
or the clock.

`Retention` and `Revisions` assume no fairness; their properties are all of safety.

## 5. Proofs

`OutboxProofs` proves for any set of events, any finite set of workers, any batch, limit
and number of faults:

* `TypeCorrect`, `ClaimsAreDistinct`: `Spec => []TypeOK`, `Spec => []DistinctClaims`.
* `OutboxKeepsPromise`: `Spec => KeepsPromise`. Each action maps to an action of the
  promise or to a stutter: both claims to `Try`, the handler's success to
  `Deliver`, the marks to `Acknowledge` and `Abandon`.

They follow from an inductive invariant `IInv`: the attempts a worker has seen are
positive for what it holds and never more than the row's; two holders of an event
have seen different attempts, and, if a row is available again, all its holders' claims
are in the past; a success at hand is a delivered event. `DistinctClaims`
alone is not inductive: a claim must be known to return a number nobody has.

* `RetriesAreLimited` (`RetryLimit`), from `AttemptsExplained`, which counts: each attempt
  of an open row beyond the limit is that of a worker which holds a last claim of it
  (`LastHolders`) or of a fault. A worker is a last holder once: what it reports retires
  the row, and what it does not report is a fault.

`ArtifactLifecycleProofs` proves for any workspaces, digests, requests, workers, inputs
and any number of faults:

* `TypeCorrect`;
* `ReferencesAreStored` (`NoDanglingReference`), from `ReferenceInv`: between its upload
  and its commit a request holds the digest's lock (`LockHeld`) and the object is
  there (`StoredFirst`); a process about to remove an object holds the lock and
  nothing references it (`RemovalChecked`), each unless the session was lost;
* `RemovalsAreOfUnreferenced`, from the same invariant: whatever is removed is referenced by
  nothing at that moment, with the same exception. It is the positive side of
  `lost_session`, for every fault but that one;
* `KeysAreOneRelease` (`KeyIsOneRelease`), from `KeyInv`: the keys of a workspace are
  unique and whoever was told of a success finds its input among them as long as the
  workspace lives;
* `OrphansExplained` (`OrphansAreExplained`), from `OrphanInv`: what deletions have
  read, what requests hold and what jobs hold together account for every object.

`RetentionProofs` proves for any accounts, workspaces, administrators and number of
transactions:

* `TypeCorrect`, `HoldsHaveTargets` (`HoldTargetsExist`), `WorkspacesHaveOwners`
  (`OwnersKept`), `HeldEventsArePreserved` (`HeldEventsKept`).

The argument is that of two-phase locking, made explicit. `LocksExclude`: conflicting locks
have one holder. `LocksTaken`: a transaction past a statement has what the statement
locked. `ReadsHold`: what a transaction has read is true until it ends. The last is what
the safety properties need and is inductive only with the other two: each commit that would
make a read false needs a lock that the reader has (`Exclusion`). A new hold meets the
target's lock of a deletion and the retention lock of a pruning; a creation meets the
account's lock of a deletion; a deletion of a workspace meets the shared row lock of an
addition. `IdsAreDone` says that events have ids of their own, of requests that have
ended, so that a lock on an event names one event. For
`WorkspacesHaveOwners` it takes besides that who is being removed was no owner when the
request was authorized and has not become one (`RemovalsSpareOwners`).

* `CirclesAreOfDeletions` (`DeadlocksAreOfDeletions`), from `Waiting`: what a request
  holds while it can still wait is one lock for each kind but the deletions
  (`LocksAreFew`), and a release that is past its check releases an active hold whose
  target it locks (`ReleasesFindHolds`). An addition that can still wait for a
  workspace holds nothing but its account, which nobody asks for when it holds anything
  (`AccountFirst`). So any other request that holds something and is no deletion waits for a
  target or a workspace row, and only deletions that wait hold those. A deletion and such a
  request do not wait for each other (`NoCircleOfTwo`), unless the one deletes the
  workspace and the other removes a member of it (`Crossed`): a deletion asks neither for
  the retention lock nor for an account's when it holds anything, and for the row of a hold
  only when no active hold has its target.

`RevisionsProofs` proves for any releases, digests and requests and any number of faults:

* `TypeCorrect`;
* `RegistersAreLogs` (`KeepsRegisters`): policies and manifests implement `Register`. It
  rests on `LogInv`: revisions are numbered without gaps (`Numbered`), a request has
  read a revision that existed (`BaseWasRead`), so that the row the unique index lets
  in is the next one (`RowIsNext`), and only who has ended has an answer;
* `ReleasesFollowPolicies` (`GateFollowsThePolicy`), from `GateInv`: what a publication
  carries from its read of the policy (`CarriesPolicy`) is what the release keeps
  (`KeepsPolicy`), the policy being one in force between its begin and its commit;
* `PendingInside` (`PendingStaysInside`), from `InsideInv`: what a request has
  found may be downloaded and stays so until the request ends (`FoundInside`,
  `DownloadableStays`);
* `ApprovedAtMostOnce` (`ApprovedOnce`), from `CountedInv`: announcements are counted
  with the statuses.

`MembershipProofs` proves for any users, addresses, initial members with one owner, and
requests, in PostgreSQL and in files:

* `OwnerIsKept` (`OwnerKept`), from `OwnerInv`: a request that is about to change or remove
  a member looked at the role outside its transaction; that is enough because nobody
  can become an owner (`OwnersStay`), so who was none then is none now
  (`TargetsAreNoOwners`);
* `OneIsOpen` (`OneOpenInvitation`), which is inductive once a row is known to stay
  closed (`RowsStay`);
* `InvitationsAreSettledOnce` (`SettledOnce`), from `SettleInv`: a row comes from a request
  that has committed and cannot insert it again (`RowsAreCreated`), so what a client
  was told is settled stays closed (`SettledForGood`) and no second request finds it pending;
* `DeletedIsEmpty` (`GoneIsGone`), from `GoneInv`: with files, nobody is being added after
  the deletion unless it was so at the deletion (`NoneIsAdded`), as a new addition
  would need a member to authorize it;
* `MembersAreListed` (`TypeOK`), from `ListTyped`: the listed rows are an order of the
  finite set of those who have a role. An insertion anywhere and a removal of any set
  keep it one (`InsertKeepsList`, `RemoveKeepsList`);
* `ListingsAreComplete` (`ListingIsComplete`), from `ListingsFit`: while nothing has moved
  the list, who was there at the start is in the pages already shown or stands behind
  them, and the count bounds the places.

All rest on `ControlInv`: a request is at a stage of its kind and grants what may be granted.

`DevicesProofs` proves for any devices, packages, keys, calls, manifests and faults, with
both stores:

* `TypesAreKept` (`TypeOK`), from `Reading`: a call between its read and its write has a
  device in its hands, and devices do not go;
* `KeysMakeOneDevice` (`KeyIsOneDevice`), from `Counting`: a key has made at most one device
  for its row and, with files, one for each time its row was lost or not written;
* `SummariesAreTheLatest` (`SummaryIsTheLatest`), from `UpToDate`: what a heartbeat has
  read is what is stored, unless a write has overtaken it;
* `PlansMeetDrift`, a fact of the two algorithms, for all lists: a plan installs what drift
  calls missing, updates what it calls changed and removes what it calls extra, nothing
  more (`ActionsAreDrift`), and following it leaves the wanted list and no drift;
* `PlansRemedyDrift` (`PlanRemediesDrift`), from that and `Planned`: the plan in an
  agent's hands is the one for the manifest and list it was made from.

`FileStoreProofs` proves for any number of calls, any file, menus, ids, first document and
number of faults:

* `ChangesKeepConsistency`: each of the twenty changes turns a consistent document into a
  consistent one, when the ids it makes are new to it;
* `TypesAreKept`, `DocumentsAreConsistent` (`TypeOK`, `DocumentIsConsistent`), from `Kept`:
  every document in a file, in memory or in hand is consistent and has only rows of the
  start and of calls it contains (`DocumentsGood`), so an id that is new to all calls is new
  to it (`IdsApart`); the two names are of two inodes, and whoever needs the mutex while
  saving has it (`NamesApart`). No reservation about overlapping calls;
* `FilesAreReadable`, `AcknowledgedAreStored`, `RefusedAreNotStored`, from
  `SerialUnlessOverlapped`: one call at a time is saving and writes the inode that is named
  `.tmp`; what it saves contains what is stored; and what is stored comes from calls that
  were answered with success or failed before there was a file (`Answered`);
* `GuardedFilesAreSafe`: for `workspaces.json` and `outbox.json`, whose calls all take the
  mutex, the last three hold with no reservation (`SafeFile`).

`AdmissionProofs` proves for any limit, length of a window, replicas, addresses and finite set
of requests:

* `BurstsAreBounded` (`BurstIsBounded`). The limiter forgets a window as soon as the next
  one begins, while a minute may lie across the boundary. So `Bounded` speaks of the
  admissions of an address in the current window, which the counter bounds (`ThisWindow`),
  of those less than a minute before it, which were all in one older window
  (`LastMinute`), and of those of any minute (`AnyMinute`).

The assumptions are the named ASSUMEs on the constants; TLC evaluates them on each
run. The invariants were checked with TLC before they were proved.

Every safety invariant and action property that a passing run checks is a theorem.
Model-checked only are the liveness properties (`EventuallyRetired`, `OrphansAreCollected`,
`InvitationsAreMailed`, `EveryCallReturns`, `EventuallyConverged`, `EndsUnlessExhausted`):
liveness under fairness is beyond the prover.

## 6. Not modelled, and the plan

Not modelled:

* Authentication, signatures, configuration, preflight, migration commands and telemetry:
  sequential, external or cryptographic; table tests cover them. Decoding and encoding of
  HTTP requests and the wording of errors.
* The unscoped endpoints of local installations (publish, register, heartbeat, drift), which
  hosted deployments refuse, and the idempotency entries of `packages.json`, which only they
  use. The directory of artifacts in local mode: a file for each digest, renamed into place.
* Payloads of outbox events, and how `DeleteAccount` rewrites them.
* A loss of power, which may undo a rename or leave it without its data.

Known limits of the code that the models show or that were met on the way, none of them
against a statement of the documentation:

* With files, two administrators may both save one revision, and calls without a mutex
  lose each other's updates.
* The loser of two concurrent replacements gets an internal error, not a conflict.
* Content that one release publishes and another one holds back is found under either, so a
  download by digest may be refused although another release hands it out.
* Two holders of one outbox event may mark it processed and dead-lettered;
  `AtLeastOnce` allows it.
* `Retry-After` is rounded to the nearest second, so it may name a moment just before the
  window ends.

The plan, most important first:

1. An abstract specification of a document that is read and replaced whole, which
   `FileStore` implements while no calls overlap.
2. An abstract specification of the limiter as a count in any minute, with `Admission`
   shown to stay within it.
3. A theorem on what is left of the four disagreements: which steps, and only which, leave
   a digest without a job or an identity behind.
