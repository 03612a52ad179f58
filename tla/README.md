# Mindline: specifications, checks and proofs

Mindline is a local program that turns captured messages and links into a
private library, answers questions from it, and delivers approved knowledge to
Product Brain. It is one Go binary, a local service and a directory of files.
Almost everything hard about it happens because a command was interrupted
between two durable writes, because two handlers or two processes met at one
document, or because a remote side answered late. This directory models those
parts in TLA+, checks them with TLC and proves the most important results with
TLAPS. Paths below are under `src/internal/` unless they say otherwise.

## 1. The system

### 1.1 Components, their state and what makes them correct

Component names are those of `PROJECT.json`, which lists every component with
its sources, its status and, when it is left out, why.

| component | state it keeps | operations | hard | correct when |
| --- | --- | --- | --- | --- |
| resource queue `resourcequeue/store.go` | one JSON document: a job per resource, budget counters, the generation | enqueue, sync and prune the membership, rebuild, claim, consume, close, charge wall time, requeue, finish, settle a remainder, recover, open a next or retry generation | caps that must hold over crashes, retries and generations; a fetch that reports more than it reserved | reservations balance, no cap is passed, nothing spent comes back, acquired work is not redone |
| queue runner `resourcequeue/runner.go`, resource pipeline `resourcepipeline/pipeline.go` | none: they drive the queue and the library | run, continue, retry, reconcile, recover, delete and rebuild; the drain loop | two durable documents written one after the other; captures arriving between two steps | the library is written first, a fetch is funded, the loop ends |
| canonical library `personalmemory/repository.go` | a library snapshot, an outcome per resource, fingerprints of imports | import, merge an enrichment, curate | replays; relations superseded under a run; readings that arrive out of order | a merge takes effect or is refused; a capture never goes back |
| ingestion controller `ingestioncontroller` | an import ledger | reconcile an envelope, import it, account for it | a crash between the import and its ledger; units that overlap | a complete ledger is right |
| approved delivery `productbrain/approved_delivery_*.go` | approval, state of each operation, attempts, active run, sealed runs, history, receipt, cancellation | deliver, resume, reconcile, cancel | a request that may be applied late or never be seen again; a crash between any two writes; a cancellation by another process | every send was reserved for it, never more than approved, none after the cancellation |
| plan-only delivery `productbrain/delivery.go`, `delivery_store.go` | a journal, sealed runs, a summary | deliver | a death between an answer and the count of it | the next invocation takes up what it finds, and counts what was made once |
| delivery lock `productbrain/delivery_store.go` | a lock file with the process that made it | acquire, release, take over the lock of a dead process | create, read, probe and remove are separate steps | one process delivers at a time |
| activation `activationapp` | the state file, an authority artifact per commit, a run journal; in memory the connection, the preview and the delivery in flight | import, save strategy, freeze, prove, review, connect, preview, approve, resume, cancel, disconnect, judge, confirm, start | three writes per commit; handlers that release the mutex for the network; a start after a crash at any of them | the journal never refers to what is gone; an approval stays while it is delivered; a drain is confirmed on evidence only |
| orchestration, sampling and readiness `orchestration` | an event-sourced aggregate: stage, plan, authority references | transitions, drift check, readiness | completion is re-derived at a start | stages only advance, under one plan |
| control documents `controlrun`, `controlsettings`, `privateio` | a document and its backup | save under the revision that was read, recover | a crash between backup and replacement; two browsers | no lost update, recovery goes back at most one version |
| run selection, run journal and lease `activationapp/run_selection.go`, `runjournal` | the selected run; per run a lease file, a journal, a state file | create, select, open, recover a run; append under a version; acquire, renew, release | a run is created in four documents; a holder suspended beyond its lease | a run opens as it was configured; one writer's appends |
| Slack acquisition `acquisition/slack`, source connection `activationapp/source.go` | request budget, page checkpoint, window and inventory of a run | connect, disconnect, drain | requests that overlap a switch of run; a crash between a reservation and its settlement; rate limits | budgets cover what was asked; a run is drained through its own window |
| integration sessions `integrations` | secrets in memory, one per provider | open, use, revoke, replace, shut down | a call that holds a copy while its session is revoked | no credential outlives its connection |
| agent state `agentstate` | a database, three recovery files, markers | save, judge, reverse, connect a project, upgrade, recover | the files are written after the database; a recovery moves and rebuilds several files | recovery loses nothing that was acknowledged |
| local service `localservice` | installed binary and skill, receipt, service definition, rollback manifest; a semantic index and its worker | install, roll back, restart, uninstall, lease; index, search | a rollback that fails in the middle; workers that overlap | one version of everything; a ready index is one that was proved |
| control UI `controlui` | sessions, one-time gestures | pair, preview, approve, command | a gesture offered for an older preview | each gesture is used at most once |
| operator channel `operatorchannel` | pending requests | ask, dispatch, cancel | a reply against a cancellation | a reply answers its own request only |
| founder review records | records created once | record | two recorders | one record per subject |
| resource fetch, source adapters | none | fetch a page under limits, normalise an export | - | stay within their grant |
| documents, processing and routing, pipeline, ranking, recall evaluation, assurance, observability, semantic operations, Product Brain proposals, command line | none that outlives a call, or receipts written once | text heuristics, ranking, reports | - | functions of their inputs |

### 1.2 How they interact

Captures reach the library through the ingestion controller, or through
`personal-memory import-slack` in a process of its own. The resource pipeline
keeps the queue's membership equal to what the library refers to, drains the
queue, and writes each outcome first to the library and then to the queue.

Activation is a program of its own. A stable control app creates or selects a
run and opens it under a lease; the control UI calls its handlers, which hold
one mutex; each durable step is an artifact, a journal append and a replacement
of the state file, in that order. Connecting and draining the Slack source,
preview, approval, resumption and connection release the mutex while they talk
to a remote side. The drain takes its credential from the session registry and
charges every call to a durable ledger. Delivery has a store of its own, which
the app reads back; plan-only delivery is a command of its own over the same
kind of directory. The lease keeps a second app out of a run, the delivery lock
a second delivery out of a directory.

The local service answers agents from the library: it has the agent state
database, an index worker, and an installation that other commands replace
under it.

## 2. The modules

| module | models | how |
| --- | --- | --- |
| `ResourceQueue` | `resourcequeue/store.go` | Every operation loads the document, changes it and replaces it under one lock, so every operation is one action. `items`, `counters`, `generation`, `kind`, `closed` and `migrated` are the document. |
| `ResourcePipeline` | `runner.go`, `pipeline.go`, `MergeEnrichment` of `repository.go` | Instantiates `ResourceQueue` as `Queue` and drives it, one action per durable write: `pc` is the place in the command, `work` the batch it holds; `library`, `reach` and `imports` are the canonical side. `Crash` is enabled wherever a command is under way, `Environment` is a capture, a promotion, a supersession or a curation meanwhile. |
| `Ingestion` | `ingestioncontroller/controller.go`, `ledger.go`, the import half of `repository.go`, what the Slack adapter makes of a message | `source` is Slack, whose messages are edited and deleted while it is read; a reading may have dates or not, unknown authors and other descriptions; `readings` are units; `apply` is the Apply in progress, one action per durable step; `DirectImport` is the other command on the same library. |
| `DeliveryAuthority` | what approved delivery promises of one approval | Abstract: attempts are counted, a permit is given, used once or forfeited, and none is given after the revocation. |
| `ApprovedDelivery` | `approved_delivery_runtime.go`, `approved_delivery_store.go` | One action per durable write or request. `state`, `runs`, `active`, `receipt`, `authority` and `cancelled` are files, `mem` is the invocation's copy, `remote`, `applied` and `inflight` the destination. `Authority == INSTANCE DeliveryAuthority WITH ...` is the refinement mapping. |
| `DeliveryLock` | `acquireDeliveryLock` | One action per system call, any number of processes. |
| `PlanDelivery` | `delivery.go`, the run store of `delivery_store.go` | Extends `DeliveryLock`: what the holder does between two writes of the journal is one action. `journal`, `sealed` and `summary` are files, `debris` says that a process died while it sealed and left its temporary file among the sealed runs, `mem` the run in memory, `dest`, `flying` and `made` the destination. |
| `ActivationState` | the pure side of activation: what resets clear, what `validatePersistedState` accepts, what the journal's references must agree with, readiness | Operators over a state record and a journal record, with the aggregate's transitions. |
| `ActivationRun` | `app.go`, `proof.go`, `delivery.go`, the start | A handler is a list of durable steps (`Commit`, `Refer`, `Move`) that runs to its end, is refused at a step, or is cut short after any of a step's writes. Handlers that release the mutex are two actions with the captured values in `session`. |
| `ControlDocument` | `privateio`'s replacement with a backup, `controlrun`, `controlsettings` | Operators over a pair of files: what is on disk after each rename, what a repository shows, what a save or a recovery accepts. |
| `RunControl` | `run_selection.go`, `settings.go`, the lease and journal of `runjournal`, the commit of `app.go` | Several processes over one control root. A handler is a program counter (`at`, `task`) because another process may come in between; `stale` counts what was appended under a lost lease, `leftover` says of a run that a process died while it wrote in its directory. |
| `SlackDrain` | `source.go`, `slack_source_connection.go`, `session_registry.go`, `slack/budget.go`, `checkpoint.go`, `http_client.go` | One action per stretch under the mutex, per ledger write and per answer. `wire` is what Slack was really asked for and really gave, `thrown` included: what it gave in bodies that were read and refused, or beyond what a page had reserved. A request works in the directory it reads after it dropped the mutex. |
| `AgentState` | what the agent database holds and what each operation makes of it | Operators over a database value. |
| `AgentRecovery` | `agentstate`'s files, start, upgrade and recovery | Extends `AgentState`; one action per durable write or rename, of a mutation or of a start; the quarantine of a lost database is three renames, and `sides` are its log and index; `told` is what callers were told. |
| `LocalService` | `install.go`, `rollback.go`, `evaluation_lease.go`, `launchd.go` | An operation computes the list of its steps from what is on disk; a step may fail with or without its effect, after which the steps done are undone; the process may end between two. |
| `SemanticIndex` | the index of `server.go`, what `hybrid.go` embeds on the way | One action per stretch under a mutex or per call; workers carry the generation that supersedes them. |
| `ResourceQueueProofs`, `ApprovedDeliveryProofs`, `PlanDeliveryProofs`, `RunControlProofs`, `LocalServiceProofs`, `ResourcePipelineProofs`, `SlackDrainProofs`, `AgentRecoveryProofs` | | Theorems and proofs. |
| `MC...` | | The sets, sequences, symmetries and additional bounds of the instances. |

Definitions whose comment begins with "Mutant" are not behaviour of the code:
each is a plausible bug in the definition that follows it, and the project
records which property it breaks. The `TypeOK` of a module is proved where the
module has a proof of it and can be added to any cfg by hand.

### Abstractions

* A fingerprint is the value it is taken of; a file is replaced whole or not at
  all, but a process that dies while replacing may leave its temporary file,
  which makes some directories unreadable (`debris` in both deliveries, `leftover`
  in activation and in `RunControl`, `litter` in the rollback directory).
* Budgets and revisions are small numbers. The queue's arithmetic saturates at
  the caps, so no machine integer comes near its width. Of the Slack ledger,
  requests, items and retries are kept: cost moves with requests, and bytes, which
  are settled at what was read, are left out.
* A fetch reports any usage within what the HTTP client could have used, and
  any outcome; pages, texts, scores, vectors and rankings are left out. An
  embedding is the text it was made of.
* Expiry of an approval is an event that happens at any time, once. A lease that
  is not renewed is found live or expired.
* `ApprovedDelivery` takes the delivery lock as exclusive; `DeliveryLock` shows
  when it is, and `PlanDelivery` is built on it. `ActivationRun` takes the run's
  lease as exclusive; `RunControl` shows how far it is. `ActivationRun` takes
  Product Brain's delivery as a store that binds its first approval, seals runs
  and obeys a cancellation: the part of `ApprovedDelivery` the app reads back.
* In `ActivationRun` a handler that keeps the mutex is one action: only the
  delivery store moves meanwhile, and no step of such a handler reads it.
  Consents and reviews are compared by what they name and not by their
  timestamps. The connection generation and the state's fingerprint are only
  ever compared with an earlier value of themselves, so a captured one is a flag
  that falls when either moves on; that a state is sealed twice with the same
  content and timestamps is left out.
* In `PlanDelivery` entries and relations go the same way, entries first. The
  history file is left out: it is rebuilt from the sealed runs whenever it
  differs. The destination never makes a second object of an identity.
* In `RunControl` a browser's page dies with its process, an append's expected
  version is a flag that falls when somebody else appends, and the load of a run
  is one with the acquisition of its lease.
* In `SlackDrain` a request's settlement is one with its answer, a window
  belongs to one run, and what a failed commit leaves is `ActivationRun`'s. The
  two reads of the runtime root after the mutex is dropped (`source.go:106` and
  `:115`) are one step. The probe of a connect has a budget of its own in memory
  (`slack_source_connection.go:23`) and is left out.
* In `Ingestion` the revision number of the library stands for its fingerprint,
  and looking at a ledger's status is one with saving it. `import-slack` reads
  its messages without author classes. The content hash of a capture is the
  record the model builds of it: state, text, date, whether it is withheld, and
  `detail`, one of two values, for all the rest the hash covers: the author's
  name, the permalink or the lack of one, the attachments
  (`personalmemory/capture.go:137`). A message of any state may have a
  date (`acquisition/slack/native_batch.go:76` asks only that it is later than the
  message). The thread parent of a message does not change.
* In `SemanticIndex` worker slots are only names, a service that is closing
  takes no new request, and the status handler, which changes nothing, is left
  out.

## 3. The runs

All run with two TLC workers within five minutes, most within one.

| run | asks | instance |
| --- | --- | --- |
| `queue` | Is the store right under every operation in every order? No budget is passed (`WithinBudget`), no path leaks or repeats a reservation (`ReservationBalanced`), nothing consumed is refunded while a generation lasts (`NoRefund`). | 2 resources; cap of 1 resource, 3 requests, 1 redirect, 1 byte, 1 unit of wall time, 2 attempts; 2 generations |
| `pipeline_two` | Is every fetch funded (`FetchIsFunded`) when two resources compete, commands crash and the library changes? | 2 resources, 1 generation, 1 attempt, 2 requests |
| `pipeline_one` | Does the pipeline use the store within its contract (`QueueContract`: every step is a step of the store or none), write the library first (`CanonicalFirst`), and does every command end (`CommandsEnd`)? | 1 resource, 2 generations, 2 attempts, all commands, all changes |
| `delivery` | Does delivery implement its authority (`AuthorityImplemented`), tell one story in its documents whatever crashed (`RecordsAgree`), send entries before their relations (`DeliveredInOrder`), and send nothing without a permit or a gesture (`SendIsAuthorisedOrReplays`)? | an entry and a relation, 2 attempts, 3 invocations, cancellation, expiry, crashes anywhere, a destination that loses what it applied |
| `plan_delivery` | Does the lock exclude while nobody has died (`ExclusiveAmongTheLiving`), what does no later invocation get past (`ResumableButForFour`), and is the summary true (`SummaryIsTrue`)? | 2 processes, 1 death, also while sealing, 2 operations, 3 runs, 2 faults |
| `activation` | Does a run survive being cut anywhere, and do overlapping handlers respect each other (`StateIsDurable`, `ProofIsOfItsPlan`, `AnswersAreCurrent`, `ConfirmsOnEvidence`)? | 2 strategies, an inventory that is reviewed and an empty one, 2 approvals, 2 sealed runs, 1 proof of recovery, 1 fault; any number of connections and restarts |
| `control` | Is a save lost or a backup wrong (`DocumentsAreKept`), is a run born and kept openable (`RunsAreWhole`), and what can a process do whose lease was taken (`StaleIsOneCommit`, `LeaseIsTheHolders`)? | 2 processes, 2 runs, 1 draft; two saves, or one with two authorities or transitions; 1 allowed transition, 1 fault |
| `slack` | Does the ledger cover what Slack was asked and what a drain went on with (`LedgerCoversTheWire`), is a credential left behind (`NoLeaseIsLeft`), is a run drained through its own window (`WindowIsOfTheSource`), are its pages kept until they are adopted (`ProgressUntilAdoption`)? | 2 requests, 2 runs, 2 channels, 1 page, 2 calls, 1 item, 1 retry, 2 sessions, 2 switches, 2 faults; refused and oversized answers |
| `ingestion` | Is a complete ledger right (`CompleteIsHeld`), is anything new refused (`NewsIsAccepted`), does a capture go back (`CapturesNeverGoBack`), is any content forgotten (`HistoryIsKept`)? | 3 messages, one of which is edited twice and deleted; 2 overlapping windows; 3 readings, or 2 and a fault, or 1 and two; 1 reading is dated otherwise, has an unknown author or another description |
| `agent` | Is anything lost that was acknowledged (`ToldIsKept`), does a handle resolve to what a recovery restores (`ResolveIsDurable`), why is a start refused (`RefusalsAreKnown`), is a database ever opened beside the log of a lost one (`NoForeignLog`)? | 1 scope, lens, agent, search and handle; 3 scoped and 2 legacy keys, 3 judgments, 2 faults |
| `service` | Is what is installed and what is kept for a rollback whole (`InstallationsAreWhole`), is there a way on after one fault (`WayOut`), does a refused operation restore what was there (`RefusedChangesNothing`)? | 3 versions, 2 configurations, 2 faults |
| `semantic` | Is a ready index proved (`ReadyIsProven`), does one worker work (`OneWorkerAtWork`), does the index become ready and stay so (`BecomesReady`)? | 1 document that changes once, 2 requests, 2 workers, 1 fault |

Some of these are conjunctions of parts that are named in their modules.
`RecordsAgree`: the active run is the one the state knows, every attempt is in
the record of its run and a receipt is of the state it is beside. `DeliveredInOrder`: relations
after their entries, and everything before completion. `StateIsDurable`: the
journal's latest reference can be read back, whichever write was the last;
between completed handlers memory, file, artifact and references are one state.
`ProofIsOfItsPlan`: the journal completes no proof whose reviews, route and queue
it cannot restore, and a plan does not change after its proof has begun, even if
a freeze was cut short and the strategy saved again. `AnswersAreCurrent`: no
handler withdraws an approval under its delivery, and a preview that returns late
puts back no batch of an older route. `InstallationsAreWhole`: an installation
that was not cut short is of one version, and the backup is the installation
before it. `RunsAreWhole`: a created run has the settings its user quoted, and a run no
commit of which was broken can be opened again, unless a process died while it
wrote in the run's directory. `ResumableButForFour` names the three journals and
the one file that end a delivery directory. `LedgerCoversTheWire`: no call is sent
that was not charged, and the items charged are no fewer than those the drains
went on with and those a lost answer may have brought. `CompleteIsHeld`: what the
envelope of a complete ledger ends with is in the library, which is at least as
new. `NewsIsAccepted`: a unit that has nothing older to tell, and whose dates say
so, is imported whatever the library has been through.

### Bounds and why they are enough

Two resources are what it takes for one to be claimed while another is queued,
for a remainder to be a proper part of the queue and for a budget to be spent by
one and missed by the other; with a cap of one resource and of three requests at
two a fetch, every cap is reached, crossed in a reported usage, and refused. Two
attempts give a retry and an exhausted job; two generations give a carry-over and
what is forgotten in it. Delivery has one entry and the relation that depends on
it; its third invocation resumes what the second one left after the first was
interrupted, and its attempts run out. In activation two approvals let one be
replaced by another and two runs let a receipt be replaced by the next; two
strategies let the plan drift; the two inventories are the one that has items, of
which one is reviewed by hand and one automatically, and the one that has none.
One fault is a crash, a failed write or a lost lease at any point; what follows
it runs to its end.

Two operations of plan-only delivery let one be done when the other fails; three
runs are an interrupted one, one that takes up what it left, and a replay of it;
two faults are a request that is lost and an edit, or a failed write after one.
Two processes and one death let a second process find the lock of a dead one;
that two of them race for it takes three, for which there is a configuration
below.

Two processes over a control root are a user with two browsers, or a suspended
holder and its successor; two runs let the selection move; two
saves, or one and what a process does with a run, let each overtake the other. Two Slack requests let a
connect be overtaken by another, by a disconnect and by a switch of run; two
calls are a whole drain, and with one retry a budget that ends before its page;
two sessions let one be replaced; two faults are a crash and a window that ends,
or a failed save. The thread of the ingestion has a message that is original,
edited, edited again and deleted, read in every order, beside an empty one and a
parent that a window lacks; readings and faults share a bound, and two readings
and a fault are an envelope of two units that is cut short. Three versions let a rollback be told from a
reinstallation; two faults cut a restoration short. Two faults of the agent
state lose the database and cut its quarantine or its recovery short. Two workers let one be
superseded, and one change of the library makes the older one's readings stale.

Every bound is a constant in a guard (`Max...`), but for two constraints.
`StillWhenRead` of `MCIngestion` lets the messages of Slack alone once nothing
more is read, when they matter to nothing. With `FewSaves` of `MCRunControl` a
behaviour has two saves, or one save and two authorities or transitions. Two saves followed by the work of a run are not
reached by the run; the theorems of `RunControlProofs` cover them, as they hold
for all values of the constants.

### Deadlock

TLC looks for deadlock in the runs of the queue and the pipeline. It does not in
the others, where what happens is bounded: invocations, faults, saves, readings
and calls run out. In activation, agent state and plan-only delivery the system
may also really stop, with a run, a database or a directory that cannot be taken
up again; the properties and section 5 say when.

### Fairness

`CommandsEnd` needs `FairSpec == Spec /\ WF_vars(Command \/ Work)`. A command is
one goroutine that never waits for another; its fetch and its sleeps are bounded
by the run's context, and locks are released by processes that do the same.
Captures and crashes have no fairness: a command must end although they may
happen again and again, the crash being one way to end.

`BecomesReady` needs weak fairness of each worker's and each request's next step,
which are goroutines whose calls to the provider have deadlines; of `Asks`, since
only requests restart a worker and an agent that never asks again is owed no
index; of `Closed`, an orderly shutdown that ends in a new process; and of
`ProviderUp`, an outage that ends. Changes of the library, faults and clients
that leave have none.

## 4. What is proved

`ResourceQueueProofs`, from `ProfileAssumption` (a finite set of resources and
caps that the profile's validation accepts):

* `QueueInvariant`: `Spec => []QueueInv`, where `QueueInv` is `TypeOK`,
  `OneInFlight`, `Held`, `NoneHeld`, `WithinBudget`, `AttemptsBounded` and
  `ClaimIsFunded`. `ReservationBalanced` is not in it: it says that a counter is
  the sum over all jobs, and a sum over a set cannot be taken apart by the
  prover. Since one job at most is in flight, the sum is that job's share or
  nothing, which is what `Held` and `NoneHeld` say; `Balanced` leads back to the
  sum. There is one lemma per operation of the store.
* `WellFormed`, `Accounting` and `Claims`: the invariants, for every
  profile and every set of resources.
* `UsageStays` and `AcquiredStays`: the action properties `NoRefund` and
  `SuccessIsFinal`, operation by operation. The first needs the invariant: a
  usage that crosses a cap is pinned to it, which is no refund only because the
  counter was not beyond it.

`ResourcePipelineProofs`, from `PipelineAssumption` (the same of the profile):

* `QueueIsSound`: the queue the pipeline is written over is the queue whose
  invariant was proved above, operator by operator, so what is proved of it holds.
* `ContractKept`: `Spec => QueueContract`, the refinement. A step of a command is
  an operation of the store or leaves its document alone, because of where the
  command is: `PipelineInv` says that between two operations nothing is in flight
  (`Resting`), and that a drain past its claim has the one job in flight in hand
  (`InHand`), which a crash leaves for `Recover` to find.
* `PipelineBudget`, `FetchesAreFunded` and `LibraryLeads`: the caps hold under the
  pipeline too, a request is sent only for a funded job, and the queue says no
  outcome that the library did not hold first. The last needs `Recorded`: the
  batch of a job about to be finished has been merged, and whatever outcome the
  library shows came with a batch or from a curated enrichment.

`ApprovedDeliveryProofs`, of approved delivery, from `OutboxAssumption` (a finite set of operations,
what each depends on, and the bounds):

* `DeliveryInvariant`: `Spec => []DeliveryInv`. `TypeOK` is not inductive by
  itself. `CopyCounts` says how far an invocation's copy may be from the durable
  state: equal in length, and one ahead only after a reservation whose write
  failed. `PermitIsFresh` says that while an invocation reserves it holds the
  ordering lock and no cancellation is durable, and that the attempt about to be
  sent was never sent. `WithinAttempts` and `CallFits` bound the attempts and say
  what an invocation is about at each step.
* `DeliveryWellFormed`: `TypeOK`, for every outbox.
* `DeliveryKeepsAuthority`: `Spec => AuthorityImplemented`. The durable
  reservation is `Grant`, a reservation whose write failed is `Forfeit`, the
  request is `Spend`, the end of an invocation `Abandon`, `cancellation.json`
  `Revoke`; everything else is a stutter. One lemma per group of actions.
* `DocumentsAgree`: `RecordsAgree`, from `RecordInv`. An invocation's copy
  continues the durable attempts (`CopyAgrees`), every attempt is of a sealed run
  or of the one that is open (`OpenAttempts`), and the active run is the
  invocation's own from its opening to its sealing (`ActiveFits`). Marking an
  attempt changes neither its operation nor its run (`SameStory`), so the attempts
  a run is sealed with are those the durable state names for it.
* `DeliveriesAreInOrder` and `SendsAreAuthorised`, from `OrderInv`: an operation
  that either copy of the state calls confirmed was applied (`Truthful`), where a
  request is about to be sent what it needs was applied (`SendFits`), and without
  a gesture a delivery is cancelled or has nothing left to send (`GestureFits`).

The second part of `ApprovedDeliveryProofs` is about `ActivationRun`, from
`ActivationAssumption` (there is an inventory and a strategy, and what an inventory
selects is finite), `BoundsAssumption` (the bounds are numbers) and
`AbsenceAssumption` (no route, state or receipt is called "None"):

* `RunInvariant`: `RunSpec => [](RunInv /\ Typed)`; TLC checked `RunInv` first
  (1 362 277 states). None of the properties is inductive, because each speaks of
  what is there between handlers, and a handler may end anywhere. `RunInv` says of
  the disk that a start can restore it (`Sound`): the latest reference has its
  artifact, and the state behind it has the plan and the reviews the stage asks for
  (`Bound`). It says of the app that it may be ahead of the disk by what the handler
  at work has not written (`Ahead`), and, as long as nothing was cut short, that
  memory, file and journal hold one state, with which the references agree
  (`Faithful`). A delivery in flight still has its approval.
* A handler is a list of any length, and the prover has no induction over lists. The
  argument is by the step: one that fits where it begins (`Fits`, `Good`) keeps the
  disk sound after any number of its writes (`StepKeeps`), so wherever a list of such
  steps ends, the run can be started again (`EndsSound`). That the disk after the
  first step is where the rest begins (`FirstStep`) is the absence of a least
  position at which the two differ, from the well-foundedness of the numbers. With
  that, each handler is taken apart step by step (`FirstSafe`, `FirstEnds`), one
  lemma per handler; what a list that ran to its end leaves in agreement is carried
  along it by naming the domains it has still to commit (`Partly`).
* `StatesAreDurable`: `StateIsDurable`; `ProofsAreOfTheirPlan`: `ProofIsOfItsPlan`;
  `LateAnswersAreCurrent`: `AnswersAreCurrent`; and `RunTypesHold`: `RunTypeOK`, for
  any inventories, strategies, reviewed items, approvals and faults.
* `ConfirmedOnEvidence`: `ConfirmsOnEvidence`. Only the confirmation moves the
  journal to the confirmed drain: every other handler's list, and the start's, is
  `Quiet`, and a quiet list that runs to its end leaves the stage unconfirmed
  (`QuietEnds`). The confirmation asks for the evidence of the state in memory, and
  as long as nothing was cut short that is the state behind the journal, whose
  verdict is the journal's by `Faithful`.

`PlanDeliveryProofs`, from `DeathsAssumption` (a finite set of processes, none of
them called "nobody") and `PlanAssumption`:

* `LockExcludes`: `Spec => []ExclusiveAmongTheLiving`, of the lock by itself. The
  invariant says, while nobody is dead, that no process comes to remove a file
  that is not its own and that a process which writes or holds has its own file at
  the path. The condition cannot be dropped: `MCDeliveryLockTakeover.cfg` violates
  the rest.
* `DeliveriesKeepTheLock`: `PlanSpec => Spec` of the lock. A step of `Deliver`
  releases the lock or leaves it alone, and the rest are the lock's own steps.
* `DeliveriesExclude`: so plan-only deliveries exclude each other, for any number
  of processes, operations, runs and faults, as long as nobody has died.
* `RunsAreResumable`: `PlanSpec /\ []MutualExclusion => []ResumableButForFour`,
  for any number of processes, operations and runs. The hypothesis is there
  because after a death three processes may break the lock; with the two processes
  and the one death of the run it holds always. The invariant `PlanInv` says that
  the sealed runs have each number once (`Numbered`), that the journal is absent,
  that of the next run or that of the last one (`Left`), and what the holder knows
  of it at each of its places (`Stands`). TLC checked it first (2 385 152 states).
  That an open run has a first operation still to be delivered, the least of a set
  of numbers, is taken from the well-foundedness of strict subsets.
* `SummariesAreTrue`: `PlanSpec /\ []MutualExclusion => []SummaryIsTrue`, under the
  same hypothesis. The invariant `Reckoned`, which TLC checked first, says that an
  object that was made is counted by one run at most, a sealed one, that of the
  journal or the one at hand, and an operation about to be sent by none, so no count
  exceeds what was made. The number of writes is a sum over the sealed runs, a fold
  with a choice in it: `SumIsClaimed` takes it apart by giving the function that
  counts what the runs claim, showing that it satisfies the fold's equation on every
  set of runs, and comparing the two on the well-founded strict subsets.

`RunControlProofs`, from `ControlAssumption` (finite sets of processes, runs and
drafts, and "None" is no document, damaged file, problem or state):

* `RunInvariant`: `Spec => []RunInv`. Besides the shapes of what it talks about,
  the invariant is `OneCommit`: a process has appended no authority under a lost
  lease, or one, and then it owns no lease of its run and is in the middle of no
  further commit. It is inductive because a commit passes a renewal, which asks
  for the lease, and because whoever acquires a lease again, or leaves its run,
  starts counting anew. Each operation is shown to move leases (`LeasesMove`),
  counts (`CountsMove`) and processes (`AppsMove`) only as the invariant allows.
* `OneStaleCommit`: `StaleIsOneCommit`, for any number of processes and runs.
* `LeasesAreKept`: `LeaseIsTheHolders`; nobody but its holder changes a lease
  that is renewed in time.
* `DocumentsStay`: `DocumentsAreKept`, from `DocInv`. Equal revisions are the same
  document because every save draws a generation that no document on disk or in a
  browser has (`Distinct`), so a save under the revision somebody saw replaces what
  he saw. `FilesFit` says what the backup is. The attempt to prove it found the
  model wrong: the history the property speaks of was written by a save that failed
  before its first rename, which TLC could not show within one fault; it now moves
  with the files alone.
* `RunsStayWhole`: `RunsAreWhole`, from `WholeInv`. The owner of a run knows every
  authority its journal holds, but for the one it is about to commit (`Agrees`);
  without that a later commit would name a state that lacks an earlier authority.
  `Fits` says what a handler may be committing where it stands, and `Configured`
  that the settings of a new run, once committed, are the quoted ones until it is
  selected. What closes a run that was never broken is said exactly: the temporary
  file of a process that died in an append or a lease write, and nothing else. TLC
  checked `DocInv` and `WholeInv` on the run (1 573 753 states) before they were
  proved.

`LocalServiceProofs`, of the local service. Of the lifecycle, from
`ServiceAssumption` (the bound of faults is a number, and what is absent or
truncated is no version, configuration, receipt or manifest):

* `ServiceInvariant`: `Spec => []ServiceInv`. The properties speak of the states
  between operations; what makes them inductive is where the steps an operation has
  left lead. Going forward they take the artifacts to what the operation makes of
  what it found (`Takes`, `Completes` in `Ahead`), and what has changed so far is on
  record (`OnRecord`), so that the list a failure computes from the record leads
  back to what was found (`TakesBack`, `UndoSuits`); undoing, the rest leads back as
  far as no step of the restoration has failed (`Back`), and so does the service
  (`ServiceBack`), which is stopped before any artifact is put back and started after
  the last. What a step cut short leaves depends on the order of the rest (`Goes`):
  a plist is truncated only once the configuration and the receipt are there, a skill
  is written only after its binary, the receipt and the configuration are removed
  last (`Midway`). TLC checked `ServiceInv` before it was proved (744 593 states).
  The proof found that the model's `CASE` for the predecessor had overlapping arms,
  of which TLA+ leaves the choice open and TLC takes the first; it says `IF` now.
* `InstallationsStayWhole`: `InstallationsAreWhole`, `ThereIsAWayOut`: `WayOut`,
  `RefusalsChangeNothing`: `RefusedChangesNothing`, `LeasesFreeze`: `LeaseFreezes`,
  for any versions, configurations and number of faults.

Of the semantic index, from `SemanticAssumption` (the bounds are numbers, and
there is a worker):

* `IndexInvariant`: `Spec => []IndexInv`: the status is ready only for a
  fingerprint that a worker of this process proved (`ReadyIsProven`), a worker
  past its last check has proved what it indexes (`Proved`), the worker a
  building status waits for is there and uncancelled (`Watched`), and every other
  one is cancelled (`Superseded`). A late worker does no harm because the
  generation it was given is no longer the current one.
* `ReadyProven` and `OneWorker`: the two checked invariants, for any number of
  documents, requests and workers.

`SlackDrainProofs`, from `DrainAssumption` (the bounds are numbers, and no run and
no channel is called "None"), of the Slack drain:

* `DrainInvariant`: `Spec => []DrainInv`, which TLC checked first (2 742 320
  states). `Rooted` says that a drain whose lease lives works in the directory of
  the run it was started for, although it reads the root without the mutex.
* `BudgetIsCharged`: `LedgerCoversTheWire`, for any number of items in a refused
  body or in a page that has more than it reserved: these are `thrown`, and
  `AllIsCharged` of section 5, which counts them, is false. What a drain went on
  with is below what was charged only because each call that was sent and not
  answered holds a page's items of the charge (`CoveredAt`), and a call whose answer
  was lost keeps them; a settlement gives back its own share alone. That the
  calls under way are finitely many is part of the invariant and follows from the
  budget, not from an assumption about the requests.
* `LeasesAreUsed`: `NoLeaseIsLeft`, inductive with the types.
* `WindowsAreOfTheSource`: what the app is connected with is the source of its
  run, and a connect that nothing outdated expects the source that its run still
  has (`Sourced`), for every run no connect of another run was adopted by.
* `PagesAreKept`: `ProgressUntilAdoption`. Until a request of another run reaches a
  run, the manifest in its directory is its own, and so is the inventory it adopted
  (`Manifested`).
* `DrainWellTyped`: `TypeOK`; that a ledger never falls below zero needs the above.

and of the ingestion, from `IngestionAssumption` (the constants' shapes) and
`AbsentAssumption` (no record is called "Absent"), for any messages, windows, thread
parents, edits, readings and faults, and envelopes of one or two units as in the
model:

* `AdoptionInvariant`: `AdoptionSpec => []AdoptionInv`, which TLC checked first, with
  three readings (1 859 949 states) and with two and two faults (463 739). A unit
  holds what was to be seen when it was read (`Seen`), a record what was to be seen at
  some time (`Recorded`); a batch that was imported left each of its records, now
  current or in the history, or what may come after it (`Holds`, `Follows`), and what
  the history holds is followed by what is current; the batches of an adoption past
  its import, and of a complete ledger, were imported (`Adopted`). `Follows` is
  transitive and `Succeeds`, what one import does, is not: an undated edit is followed
  by its own date.
* `CapturesGoForward`: `CapturesNeverGoBack`, `HistoryStays`: `HistoryIsKept`. What an
  import does to one record is stated once for any batches (`RecordMoves`) and shown
  for one and for two, whichever of them was imported before (`ImportOfOne`,
  `ImportOfTwo`). The fold over the batches is unrolled by `ImportsOne` and
  `ImportsTwo`, which give it its function as a witness.
* `CompleteAdoptionsAreHeld`: `CompleteIsHeld`.
* `NewsIsNeverRefused`: `NewsIsAccepted`. A content of the history is refused; that
  news is not among them is what the order of the history (`Follows`) is for.
* `AdoptionTypes`: `AdoptionTypeOK`.

`AgentRecoveryProofs`, from `AgentStateAssumption`, `ConnectionAssumption` and
`RecoveryAssumption` (a lens has a scope, the kinds of object are apart, the
verdicts are the code's, and an absent value, a missing database and a corrupt one
are none of the values):

* `AgentInvariant`: `Spec => []AgentInv`, which TLC checked first (2 470 561
  states). None of the five properties is inductive, because a property of an open
  store depends on what a start makes of the files, and a start may be cut short
  anywhere. `Placed` says what database there is at each place of a process.
  `Marked` is what a recovery finds under its marker: the files it began with, and
  a database that is still unusable and not moved away, or lost, or promoted and in
  agreement with every file. `Staged` says that the stage is made of the files and
  that the files are written as the stage has them, so a recovery begun anew builds
  the same stage. Each of the steps of a start has its case in each lemma;
  the mutations are reduced to two kinds first (`Mutated`, `Connects`), by the
  lemmas that every one of them lets a half of the database grow.
* `ToldStays`: `ToldIsKept`, from `Kept`: not only the database but every file and
  the stage keeps what was told, and a file is missing only when nothing that it
  would hold was told; so whichever copy a start takes, nothing is forgotten.
* `ResolvesDurably`: `ResolveIsDurable`, from `Durable`.
* `FeedbackIsBalanced`: `FeedbackBalances`, from the same of the stage
  (`Balances`). An original under a free key and the reversal of one that nothing
  has reversed leave the feedback balanced (`OriginalBalances`,
  `ReversalBalances`), for any set of keys.
* `NoLogIsForeign`: `NoForeignLog`, from `Beside`: a log or an index of a lost
  database is there only where a marker is, which was written before the first of
  the three renames and is removed after the last, so a start that finds it goes on
  with the quarantine.
* `RefusalsKnown`: `RefusalsAreKnown`. Of the seven places where a start gives up,
  `RecoverAdopts` is shown never to, because what was adopted has its file
  (`Marked`); a projection without its search reaches no file (`Searched`), so
  what is refused for it is the legacy file alone. TLC finds `RecoveryResumes`,
  which forbids one of the five reasons, violated (section 5).

Only checked, and why: `CommandsEnd` and `BecomesReady`, the two liveness
properties, since fairness and `ENABLED` are beyond the prover. Every other property
of a run is stated by a theorem. `SuccessIsFinal`, `FeedbackBalances` and
`LeaseFreezes`, which each hang on one guard, are in no run and are proved
(`AcquiredStays`, `FeedbackIsBalanced`, `LeasesFreeze`).

## 5. Where the code and its documents disagree

Each of these was met while modelling. Where the first column names a run, its
configuration with the property in place of its own (`RemainderIsCommitted` and
`TextIsNotWithdrawn` are temporal, the others invariants) ends with a
counterexample, the shortest way to the disagreement, within seconds. The three
that need other bounds have a configuration, for instance
`tlc -config MCIngestionOverlap.cfg MCIngestion`. What remains true is a property
of a run above, in parentheses. A specification file without a directory is in
`src/.productbrain/specs/`.

| run or configuration | of module | property | what is said | what the code does |
| --- | --- | --- | --- | --- |
| `pipeline_one` | `MCResourcePipeline` | `RemainderIsCommitted` | `resourcequeue/store.go:503`: a remainder is settled only when it was committed canonically | `personalmemory/repository.go:437`: a batch that was merged in an earlier generation is skipped as a replay although the library moved on, and the queue settles it |
| `pipeline_one` | `MCResourcePipeline` | `FinishAccepted` | `resourcequeue/runner.go:495`: a job that capacity ended can be finished directly | `runner.go:497`: a job whose claim blocked it for its attempts has attempts on record; finishing it is refused and the drain stops (`CommandsEnd`: it does end) |
| `delivery` | `MCApprovedDelivery` | `SendIsAuthorised` | `productbrain/approved_delivery_runtime.go:199`: a completed replay does not get to the reservation | line 100 exempts it from the gesture, and when the destination no longer shows an entry it reserves and sends (`SendIsAuthorisedOrReplays`) |
| `MCDeliveryLockTakeover` | `MCPlanDelivery` | `MutualExclusion` | `src/.productbrain/plans/2026-07-14-wp-45-context-lens-slack-routing-plan.md:200`: the lock of a proven-dead process only is taken over | `productbrain/delivery_store.go:92` removes whatever is at the path: a process that read the dead one's file removes the file of a living one (`ExclusiveAmongTheLiving`) |
| `plan_delivery` | `MCPlanDelivery` | `AlwaysResumable` | `2026-07-14-wp-45-context-lens-slack-routing.md:428`: after a crash between any steps the next lock holder seals the journal as interrupted and starts recovery | three journals, and the temporary file of a process that died while sealing, are refused for ever (`ResumableButForFour`), see below |
| `activation` | `MCActivationRun` | `CleanRunsRestart` | `2026-07-14-trusted-slack-product-brain-activation.md:215`: after a restart a run becomes `credential_required` | `activationapp/delivery.go:94`: a preview after a resumption clears the approval that the consent to resume names, and `state_validation.go:228` refuses the state at the next start |
| `activation` | `MCActivationRun` | `FounderReviewBindsReceipt` | the same file, line 183: a founder review is bound to its exact receipt | `activationapp/delivery.go:255`: a partial receipt may be judged while its delivery is resumed, and the verdict stays when the receipt is replaced (`ConfirmsOnEvidence`) |
| `control` | `MCRunControl` | `StaleLeaseHasNoEffect` | the same file, line 322: a stale lease blocks with no side effect | `orchestration/service.go:55`: no append asks for the lease; a holder suspended after its renewal appends once more (`StaleIsOneCommit`) |
| `control` | `MCRunControl` | `CleanRunsOpen` | the same file, line 215: after a restart a run becomes `credential_required` | `runjournal/store.go:193` refuses a directory with a file it does not know, and a crash in an append (`:126`) or in a lease write (`lease.go:81`, `:114`) leaves a temporary one: the run is never opened again (`RunsAreWhole`) |
| `slack` | `MCSlackDrain` | `AllIsCharged` | `README.md:105`: acquisition has a cumulative budget of resources | `acquisition/slack/http_client.go:350`: a body that was read and then refused is settled at no items; `:390` with `budget.go:115`: a page with more items than it reserved stays charged for what it reserved (`LedgerCoversTheWire`) |
| `slack` | `MCSlackDrain` | `RejectionEndsTheLease` | `integrations/session_registry.go:170`: a rejection by the provider cancels the callback's context | `acquisition/slack/http_client.go:337` reads a 401, a 403 or `invalid_auth` after `Use` has returned nil: the registry never hears of it and the lease stays |
| `MCSlackReconnect` | `MCSlackDrain` | `ReconnectsKeepTheWindow` | `activationapp/types.go:118`: reconnects and retries use this exact denominator | `run_selection.go:193` clears the connection without moving the generation that `source.go:60` compares: a connect begun under one run is adopted by the next, whose state no longer loads (`WindowIsOfTheSource`) |
| `MCIngestionOverlap` | `MCIngestion` | `RecoveringIsInterrupted` | `ingestioncontroller/controller.go:285`: a failure midway leaves a truthful partial receipt and not the recovering marker | line 278 adds up an excluded message once per unit; when two units hold it `validLedger` refuses the complete ledger after the import, and it stays "recovering" for every retry |
| `ingestion` | `MCIngestion` | `TextIsNotWithdrawn` | `2026-07-27-wp-48-complete-slack-recall.md:191`: a repeated identity is unchanged or a truthful edit or deletion | `personalmemory/repository.go:344`: a reading whose author lookup failed replaces the text by its placeholder, and every later import of the text is stale (`CapturesNeverGoBack`, `HistoryIsKept`) |
| `agent` | `MCAgentRecovery` | `RecoveryResumes` | `2026-08-11-persistent-project-connections-v1.md:74`: an interrupted recovery resumes safely | `agentstate/recovery.go:849` removes the binding before the marker; cut between the two, every later start is refused (`RefusalsAreKnown`) |
| `semantic` | `MCSemanticIndex` | `ReadyIsEmbedded` | `localservice/server.go:360`: a recorded fingerprint is rechecked once per lifetime, so that a ready index has every current document embedded | `personalmemory/search.go:205` and `:510` against `:577`, `agentstate/store.go:257`: a legacy search stores the vector of its own text under the id that the compact index uses, and a slow pass over an older snapshot overwrites too (`ReadyIsProven`) |

The three journals and the file of `ResumableButForFour` (`productbrain/`): (1) the journal
written after an answer (`delivery.go:271`) says that the answer was received,
and the caller counts it later (`:188`); a process that dies in between leaves a
journal whose counters `validateDeliveryRunOperations` refuses. (2) An object
that is found to differ before anything was sent is blocked as
"readback_mismatch" without an observed mutation, which the same function
refuses (`delivery_store.go:295`): the run is not sealed, now or ever. (3)
`sealInterruptedJournal` writes the run as interrupted and then removes the
journal, which says running; cut between the two, the two differ and the journal
"conflicts with sealed authority" (`:230`). (4) A process that dies while it writes
a sealed run leaves `.mindline-private-*` among the sealed runs
(`delivery_store.go:257`, `privateio.go:375`), and every later load refuses a
directory with a file that is no run (`delivery_store.go:195`).

What else the models showed, without a document that says otherwise:

* Agent state: a start is also refused when judgments are left of a legacy lens
  that was deleted (`Orphaned`, at the first upgrade), and when a project was
  connected in a context whose own file was never written and the database is
  then lost (`Dangling`).
* Local service: after two faults there may be no way on, with an empty service
  definition and an abandoned file in the rollback directory (`WayOut` is for
  one). An uninstallation that fails after a rollback leaves the service stopped,
  because the receipt says "rolled_back". A first installation that is cut
  between binary and skill never installs the skill when it is repeated. One
  that is repeated after a crash may back up a pair of different versions.
  launchd may start the candidate's binary during an installation whose
  restoration does not touch the service.
* Control: after a crash the lease is held until it expires, so that a restart
  shows an incompatible run; selecting it again is the way out, and so it is when
  the save of a selection fails after its rename. A selection that is damaged
  while a run is open blocks create, select and recover until a restart. A
  failed commit that is followed by a commit of another authority makes the run
  impossible to load.
* Slack: a drain that ends after a switch of run writes its manifest into the
  new run's directory, which the scope gate (`activationapp/app.go:1152`) finds
  later, and clears the checkpoint of the old one, which was never adopted. The
  wall budget of a window ends for good twenty minutes after its first use. A
  drain policy that is edited after the first request makes the ledger refuse.
  `DrainSlackSource` reads the registry after it dropped the mutex, and the root,
  which harms nothing while its lease lives (`Rooted`).
* Ingestion: an edited capture that was imported withheld or undated can never be
  replaced by the same edit retained or dated, an edit that is read again after its
  author took another name is refused as a conflict without chronology
  (`personalmemory/repository.go:201`), and a record that was described anew is
  refused as a historical revision once its description is back (`:198`): the
  invariant `PresentIsAccepted` of `Ingestion` fails in the run for these
  (`NewsIsAccepted`). A failure after the import leaves
  an incomplete ledger whose fingerprint "after" is the one before it.
* Semantic index: `Close` waits for the latest generation's worker only. Two
  requests with stale readings may cancel a newer worker; the next request
  starts it again.

## 6. What is not modelled, and the plan

Pure functions (documents, processing and routing, ranking, evaluation,
proposals, outboxes and their preflight, adapters but for the Slack capture) and
writers of reports have no interleaving and no state that outlives a call: tests
over their inputs reach what a model would. They are the larger part of the
repository by lines, with the command line, so the share of lines that the models
stand for stays low however completely the stateful part is modelled. The
transport, the HTTP client, parsing and rendering are outside.

Left for later, in this order:

1. The operator channel: dispatch of replies against cancellation. A frame the
   pump has already read can reach a later request after a cancellation, because
   a `select` takes either branch (`operatorchannel/channel.go:162`).
2. The sessions and pairing of the control UI.
3. Founder review records: create-once under a lock.
4. Content artifacts and the merge of two libraries in `personalmemory`; edges
   and curation beyond what reachability needs.
5. Pause and cancel of an aggregate (`orchestration`), which the app never calls.

Done, in this order: the queue, because its budgets are what everything that
fetches relies on; the pipeline over it; approved delivery, which changes
somebody else's data, with its abstract specification; its lock; activation,
which composes a journal, artifacts, the state file and delivery; then the
control root with its lease, the agent state and its recovery, the local service
and its index, the Slack drain with its sessions, the ingestion, and plan-only
delivery over the lock.

The hazards none of the properties covers are listed in `PROJECT.json` with the
reason.
