-------------------------- MODULE ResourcePipeline --------------------------
(***************************************************************************)
(* The resource pipeline: internal/resourcepipeline/pipeline.go driving    *)
(* internal/resourcequeue/runner.go over the derived queue (ResourceQueue) *)
(* and the canonical library (internal/personalmemory/repository.go).      *)
(*                                                                         *)
(* The queue and the library are two durable documents.  Every action      *)
(* writes at most one of them, and a crash may fall between any two        *)
(* actions.  Commands exclude each other by the operation lock, so one     *)
(* command counter pc is enough; the library, which has a lock of its own, *)
(* changes under a running command.                                        *)
(***************************************************************************)
EXTENDS Integers, FiniteSets

CONSTANTS Resources, MaxResources, MaxRequests, MaxAttempts, MaxRedirects,
          MaxBytes, MaxWall, MaxUsage, MaxGeneration,
          FetchReasons,   \* the reasons a fetch may be blocked for
          Commands,       \* the commands the operator gives
          Changes         \* how the library changes under a command

VARIABLES
  items, counters, generation, kind, closed, migrated,   \* the queue document
  library,    \* canonical outcome of each resource
  reach,      \* how the library reaches each resource
  imports,    \* EnrichmentImports: the batches merged so far
  pc,         \* where the running command is; volatile
  work        \* the batch in hand: resources and their outcome; volatile

Queue == INSTANCE ResourceQueue

queueVars == <<items, counters, generation, kind, closed, migrated>>
libraryVars == <<library, reach, imports>>
vars == <<queueVars, libraryVars, pc, work>>

ASSUME PipelineAssumption ==
  /\ Resources \subseteq Nat
  /\ {MaxResources, MaxRequests, MaxAttempts, MaxBytes, MaxWall} \subseteq Nat \ {0}
  /\ {MaxRedirects, MaxUsage, MaxGeneration} \subseteq Nat
  /\ FetchReasons \subseteq Queue!BlockedReasons
  /\ Commands \subseteq {"run", "continue", "unreachable", "rate_limited",
                         "reconcile", "recover", "delete"}
  /\ Changes \subseteq {"discover", "promote", "supersede", "curate"}

-----------------------------------------------------------------------------
(* The canonical library.                                                  *)

Acquired == {"complete", "partial"}
Outcomes == Acquired \cup Queue!BlockedReasons

\* "reference": only a generic extracted link names it.  "history": the relation
\* that leads to it survives in a superseded revision only.
Reach == {"none", "reference", "history", "current"}

Processable == {r \in Resources : reach[r] \in {"history", "current"}}

Batch(ids, outcome) == [ids |-> ids, outcome |-> outcome]
NoWork == Batch({}, "none")

\* A merge must reach its resources through current relations, unless it only
\* writes off a resource the library already names.
Accepted(batch) ==
  \A r \in batch.ids :
    \/ reach[r] = "current"
    \/ reach[r] # "none" /\ batch.outcome = "manual_processing_required"

\* A batch that has ever been merged before is taken as a replay.
Replayed(batch) == batch \in imports

Mergeable(batch) == Replayed(batch) \/ Accepted(batch)

MergeEnrichment(batch) ==
  /\ Mergeable(batch)
  /\ library' = IF Replayed(batch)
                  THEN library
                  ELSE [r \in Resources |-> IF r \in batch.ids THEN batch.outcome
                                                               ELSE library[r]]
  /\ imports' = imports \cup {batch}
  /\ UNCHANGED reach

\* Captures and curated enrichments arrive under the library's own lock.
Discover(r) ==
  /\ reach[r] = "none"
  /\ \E how \in {"reference", "current"} : reach' = [reach EXCEPT ![r] = how]
  /\ library' = [library EXCEPT ![r] = "not_attempted"]
  /\ UNCHANGED <<imports, queueVars, pc, work>>

Promote(r) ==
  /\ reach[r] \in {"reference", "history"}
  /\ reach' = [reach EXCEPT ![r] = "current"]
  /\ UNCHANGED <<library, imports, queueVars, pc, work>>

Supersede(r) ==
  /\ reach[r] = "current"
  /\ reach' = [reach EXCEPT ![r] = "history"]
  /\ UNCHANGED <<library, imports, queueVars, pc, work>>

Curate(r) ==
  /\ reach[r] = "current"
  /\ library[r] # "complete"
  /\ library' = [library EXCEPT ![r] = "complete"]
  /\ UNCHANGED <<reach, imports, queueVars, pc, work>>

-----------------------------------------------------------------------------
(* The commands.                                                           *)

Goto(step) == pc' = step /\ work' = NoWork
Hold(step, batch) == pc' = step /\ work' = batch

\* MaxGeneration bounds the commands that may open a generation.
Start(command) ==
  /\ pc = "idle"
  /\ generation < MaxGeneration \/ command = "recover"
  /\ Goto(command)
  /\ UNCHANGED <<queueVars, libraryVars>>

\* derivedQueueState
DerivedJob(r) ==
  IF r \notin Processable THEN Queue!Absent
  ELSE CASE library[r] = "not_attempted" -> Queue!Job("queued", "none")
         [] library[r] \in Acquired -> Queue!Job(library[r], "none")
         [] OTHER -> Queue!Job("blocked", library[r])

RebuildCurrent == Queue!Rebuild([r \in Resources |-> DerivedJob(r)])

QueueIsEmpty == \A r \in Resources : items[r] = Queue!Absent

Run ==
  /\ pc = "run"
  /\ IF QueueIsEmpty THEN RebuildCurrent ELSE Queue!SyncMembership(Processable)
  /\ Goto("drain")
  /\ UNCHANGED libraryVars

Continue ==
  /\ pc = "continue"
  /\ IF QueueIsEmpty THEN RebuildCurrent ELSE Queue!PruneMembership(Processable)
  /\ Goto("continue.recover")
  /\ UNCHANGED libraryVars

ContinueRecover ==
  /\ pc = "continue.recover"
  /\ Queue!Recover
  /\ Goto("continue.open")
  /\ UNCHANGED libraryVars

\* Mutant: the generation opens over work that can still run.
ContinueOpenAnyway ==
  /\ pc = "continue.open"
  /\ Queue!OpenGeneration("continuation")
  /\ UNCHANGED items
  /\ Goto("continue.adopt")
  /\ UNCHANGED libraryVars

ContinueOpen ==
  /\ pc = "continue.open"
  /\ IF Queue!CanStartNextGeneration THEN Queue!StartNextGeneration
                                     ELSE UNCHANGED queueVars
  /\ Goto("continue.adopt")
  /\ UNCHANGED libraryVars

ContinueAdopt ==
  /\ pc = "continue.adopt"
  /\ Queue!SyncMembership(Processable)
  /\ Goto("drain")
  /\ UNCHANGED libraryVars

RetryRecover(reason) ==
  /\ pc = reason
  /\ Queue!Recover
  /\ Hold("retry.open", Batch({}, reason))
  /\ UNCHANGED libraryVars

\* Unrelated active work refuses the retry; the retry's own work resumes.
RetryOpen ==
  LET active == Queue!HasActive(Resources)
      opens == ~active /\ Queue!CanStartRetryGeneration(work.outcome)
  IN /\ pc = "retry.open"
     /\ IF opens THEN Queue!StartRetryGeneration(work.outcome)
                 ELSE UNCHANGED queueVars
     /\ Goto(IF active /\ kind # work.outcome THEN "idle" ELSE "drain")
     /\ UNCHANGED libraryVars

ReferenceOnly ==
  {r \in Resources : reach[r] = "reference" /\ library[r] = "not_attempted"}

Reconcile ==
  /\ pc = "reconcile"
  /\ IF ReferenceOnly # {}
       THEN MergeEnrichment(Batch(ReferenceOnly, "manual_processing_required"))
       ELSE UNCHANGED libraryVars
  /\ Goto("rebuild")
  /\ UNCHANGED queueVars

RecoverOnly ==
  /\ pc = "recover"
  /\ Queue!Recover
  /\ Goto("idle")
  /\ UNCHANGED libraryVars

DeleteQueue ==
  /\ pc = "delete"
  /\ Queue!Delete
  /\ Goto("rebuild")
  /\ UNCHANGED libraryVars

RebuildQueue ==
  /\ pc = "rebuild"
  /\ RebuildCurrent
  /\ Goto("idle")
  /\ UNCHANGED libraryVars

-----------------------------------------------------------------------------
(* Runner.Drain                                                            *)

Drain ==
  /\ pc = "drain"
  /\ Queue!Recover
  /\ Goto(IF counters.wall >= MaxWall THEN "idle" ELSE "loop")
  /\ UNCHANGED libraryVars

\* The elapsed time is charged before any work; an exhausted wall budget or a
\* cancelled context ends the drain.
LoopTop(floor) ==
  /\ pc = "loop"
  /\ Queue!ChargeRunWallFloor(floor)
  /\ \/ counters'.wall < MaxWall /\ Goto("next")
     \/ Goto("idle")
  /\ UNCHANGED libraryVars

\* Every way out of the drain charges the elapsed time once more.
Exit(floor) ==
  /\ pc = "exit"
  /\ Queue!ChargeRunWallFloor(floor)
  /\ Goto("idle")
  /\ UNCHANGED libraryVars

\* Mutant: the remainder is settled in the queue only.
SettleRemainderDerivedOnly ==
  LET batch == Batch(Queue!BudgetRemainder, "run_budget_deferred")
  IN /\ pc = "next"
     /\ batch.ids # {}
     /\ Hold("terminalize", batch)
     /\ UNCHANGED <<queueVars, libraryVars>>

\* settleBudgetRemainder: the canonical batch first, the derived jobs after it.  A
\* refused merge, a busy library or a cancelled context ends the drain.
SettleRemainder ==
  LET batch == Batch(Queue!BudgetRemainder, "run_budget_deferred")
  IN /\ pc = "next"
     /\ batch.ids # {}
     /\ \/ MergeEnrichment(batch) /\ Hold("terminalize", batch)
        \/ Goto("exit") /\ UNCHANGED libraryVars
     /\ UNCHANGED queueVars

\* Mutant: the settled remainder stays queued.
TerminalizeNothing ==
  /\ pc = "terminalize"
  /\ Goto("loop")
  /\ UNCHANGED <<queueVars, libraryVars>>

Terminalize ==
  /\ pc = "terminalize"
  /\ Queue!TerminalizeBudgetRemainder(work.ids)
  /\ Goto("loop")
  /\ UNCHANGED libraryVars

NothingQueued ==
  /\ pc = "next"
  /\ Queue!InState("queued") = {}
  /\ Goto("exit")
  /\ UNCHANGED <<queueVars, libraryVars>>

\* ClaimNext.  The remainder has just been settled, so no claim is deferred.
ClaimExhausted(r) ==
  /\ pc = "next"
  /\ Queue!BudgetRemainder = {}
  /\ Queue!ClaimExhausted(r)
  /\ Hold("merge", Batch({r}, "budget_exhausted"))
  /\ UNCHANGED libraryVars

Claim(r) ==
  /\ pc = "next"
  /\ Queue!BudgetRemainder = {}
  /\ Queue!Claim(r)
  /\ Hold("fetch", Batch({r}, "none"))
  /\ UNCHANGED libraryVars

\* The library cannot be read for the target: the job stays in flight, unless the
\* context was cancelled as well.
TargetFails(r) ==
  /\ pc = "fetch" /\ work.ids = {r}
  /\ UNCHANGED queueVars \/ Queue!Requeue(r)
  /\ Goto("exit")
  /\ UNCHANGED libraryVars

\* What a fetch may report: never more requests than it was granted.
Usage(r) == {u \in Queue!Usage : u.requests <= items[r].reserved}

\* The next resource does not fit what is left of a narrowed byte budget.
FetchCloses(r, u) ==
  /\ pc = "fetch" /\ work.ids = {r}
  /\ Queue!ConsumeAndCloseGeneration(r, u)
  /\ Goto("loop")
  /\ UNCHANGED libraryVars

FetchCancelled(r, u) ==
  /\ pc = "fetch" /\ work.ids = {r}
  /\ Queue!Consume(r, u)
  /\ Hold("stop", work)
  /\ UNCHANGED libraryVars

\* A complete result without content is refused and leaves the job in flight.
FetchBroken(r, u) ==
  /\ pc = "fetch" /\ work.ids = {r}
  /\ ~Queue!Exhausts(r, u)
  /\ Queue!Consume(r, u)
  /\ Goto("exit")
  /\ UNCHANGED libraryVars

FetchEnds(r, u, outcome) ==
  /\ pc = "fetch" /\ work.ids = {r}
  /\ Queue!Consume(r, u)
  /\ Hold("merge", Batch({r}, IF Queue!Exhausts(r, u) THEN "run_budget_deferred"
                                                      ELSE outcome))
  /\ UNCHANGED libraryVars

\* A transient failure with an attempt to spare waits before it is requeued.
FetchTransient(r, u) ==
  /\ pc = "fetch" /\ work.ids = {r}
  /\ ~Queue!Exhausts(r, u)
  /\ items[r].attempts < MaxAttempts
  /\ Queue!Consume(r, u)
  /\ Hold("delay", work)
  /\ UNCHANGED libraryVars

Delay(r, wall) ==
  LET u == [requests |-> 0, bytes |-> 0, wall |-> wall]
  IN /\ pc = "delay" /\ work.ids = {r}
     /\ Queue!Consume(r, u)
     /\ IF Queue!Exhausts(r, u)
          THEN Hold("merge", Batch({r}, "run_budget_deferred"))
          ELSE Hold("sleep", work)
     /\ UNCHANGED libraryVars

\* The sleep ends, or is cancelled and ends the drain.
RequeueAfterSleep(r) ==
  /\ pc = "sleep" /\ work.ids = {r}
  /\ Queue!Requeue(r)
  /\ Goto("loop") \/ Goto("exit")
  /\ UNCHANGED libraryVars

RequeueAndStop(r) ==
  /\ pc = "stop" /\ work.ids = {r}
  /\ Queue!Requeue(r)
  /\ Goto("exit")
  /\ UNCHANGED libraryVars

Merge ==
  /\ pc = "merge"
  /\ MergeEnrichment(work)
  /\ Hold("finish", work)
  /\ UNCHANGED queueVars

\* Mutant: the written-off page is not merged before the job finishes.
MergeWritesOffUnmerged ==
  /\ pc = "merge"
  /\ work.outcome \in Acquired
  /\ Hold("finish", [work EXCEPT !.outcome = "manual_processing_required"])
  /\ UNCHANGED <<queueVars, libraryVars>>

\* A fetched page the library does not accept is written off instead.
MergeWritesOff ==
  /\ pc = "merge"
  /\ work.outcome \in Acquired
  /\ Hold("merge", [work EXCEPT !.outcome = "manual_processing_required"])
  /\ UNCHANGED <<queueVars, libraryVars>>

\* Any other refusal, or a busy library, ends the drain with the job in flight.
MergeFails ==
  /\ pc = "merge"
  /\ Goto("exit")
  /\ UNCHANGED <<queueVars, libraryVars>>

QueueState(outcome) == IF outcome \in Acquired THEN outcome ELSE "blocked"
QueueReason(outcome) == IF outcome \in Acquired THEN "none" ELSE outcome

\* finishQueueItem: a job blocked before its first attempt is already terminal.
Finished(r) == items[r].attempts = 0 /\ work.outcome \notin Acquired

FinishJob(r) ==
  /\ pc = "finish" /\ work.ids = {r}
  /\ IF Finished(r)
       THEN UNCHANGED queueVars
       ELSE Queue!Finish(r, QueueState(work.outcome), QueueReason(work.outcome))
  /\ Goto("loop")
  /\ UNCHANGED libraryVars

FinishRefused(r) ==
  /\ pc = "finish" /\ work.ids = {r}
  /\ ~Finished(r) /\ ~Queue!CanFinish(r)
  /\ Goto("exit")
  /\ UNCHANGED <<queueVars, libraryVars>>

Crash ==
  /\ pc # "idle"
  /\ Goto("idle")
  /\ UNCHANGED <<queueVars, libraryVars>>

-----------------------------------------------------------------------------
\* The first command meets any library of captured resources and the queue of an
\* earlier version, or none.
Init ==
  /\ reach \in [Resources -> Reach \ {"history"}]
  /\ library = [r \in Resources |->
                  IF reach[r] = "none" THEN "missing" ELSE "not_attempted"]
  /\ imports = {}
  /\ Queue!Init
  /\ \A r \in Resources : reach[r] = "none" => items[r] = Queue!Absent
  /\ pc = "idle"
  /\ work = NoWork

Environment ==
  \E r \in Resources :
    \/ "discover" \in Changes /\ Discover(r)
    \/ "promote" \in Changes /\ Promote(r)
    \/ "supersede" \in Changes /\ Supersede(r)
    \/ "curate" \in Changes /\ Curate(r)

Fetch(r) ==
  \/ \E u \in Usage(r) :
       \/ FetchCloses(r, u)
       \/ FetchCancelled(r, u)
       \/ FetchBroken(r, u)
       \/ FetchTransient(r, u)
       \/ \E outcome \in Acquired \cup FetchReasons : FetchEnds(r, u, outcome)
  \/ \E wall \in 1 .. MaxUsage : Delay(r, wall)
  \/ TargetFails(r)

Command ==
  \/ Run
  \/ Continue \/ ContinueRecover \/ ContinueOpen \/ ContinueAdopt
  \/ \E reason \in Queue!RetryReasons : RetryRecover(reason)
  \/ RetryOpen
  \/ Reconcile \/ RecoverOnly \/ DeleteQueue \/ RebuildQueue

Work ==
  \/ Drain
  \/ \E floor \in 0 .. MaxWall : LoopTop(floor) \/ Exit(floor)
  \/ SettleRemainder \/ Terminalize \/ NothingQueued
  \/ \E r \in Resources :
       \/ ClaimExhausted(r) \/ Claim(r) \/ Fetch(r)
       \/ RequeueAfterSleep(r) \/ RequeueAndStop(r)
       \/ FinishJob(r) \/ FinishRefused(r)
  \/ Merge \/ MergeWritesOff \/ MergeFails

Next ==
  \/ \E command \in Commands : Start(command)
  \/ Command
  \/ Work
  \/ Crash
  \/ Environment

Spec == Init /\ [][Next]_vars

\* A command that runs keeps taking steps: it is one goroutine, and the fetch
\* and the sleep it waits for are bounded by the run context.
FairSpec == Spec /\ WF_vars(Command \/ Work)

-----------------------------------------------------------------------------
(* Properties.                                                             *)

Steps == {"idle", "run", "continue", "continue.recover", "continue.open",
          "continue.adopt", "unreachable", "rate_limited", "retry.open",
          "reconcile", "recover", "rebuild", "delete", "drain", "loop", "next",
          "exit", "terminalize", "fetch", "delay", "sleep", "stop", "merge",
          "finish"}

TypeOK ==
  /\ Queue!TypeOK
  /\ reach \in [Resources -> Reach]
  /\ library \in [Resources -> Outcomes \cup {"missing", "not_attempted"}]
  /\ \A r \in Resources : reach[r] = "none" <=> library[r] = "missing"
  /\ imports \subseteq [ids : SUBSET Resources, outcome : Outcomes]
  /\ pc \in Steps
  /\ work \in [ids : SUBSET Resources, outcome : Outcomes \cup {"none"}]

\* The pipeline uses the store only in ways its contract allows: one claim at a
\* time, whatever command a crash interrupted and whatever command follows.
QueueContract == Queue!Spec

\* The caps of the profile hold under every command and crash.
PipelineWithinBudget == Queue!ReservationBalanced /\ Queue!WithinBudget

\* The canonical write precedes the derived one: a job is complete, partial or
\* written off only if the library holds, or once held, that outcome.  Jobs
\* blocked by the claim itself are the exception (budget_exhausted).
Committed(r, outcome) ==
  \/ library[r] = outcome
  \/ \E batch \in imports : r \in batch.ids /\ batch.outcome = outcome

CanonicalFirst ==
  \A r \in Resources :
    LET outcome == IF items[r].state = "blocked" THEN items[r].reason
                                                 ELSE items[r].state
    IN items[r].state \in Queue!Terminal /\ outcome # "budget_exhausted"
         => Committed(r, outcome)

\* A request is sent only for a job that is durably in flight, counted as an
\* attempt, funded by a reservation, in a generation with budget to spare: the
\* refusals of queueFetcher.Fetch for an empty allowance are never taken.
FetchIsFunded ==
  pc = "fetch" =>
    \A r \in work.ids :
      /\ items[r].state = "processing"
      /\ items[r].attempts \in 1 .. MaxAttempts
      /\ items[r].reserved \in 1 .. MaxRedirects + 1
      /\ ~closed /\ counters.bytes < MaxBytes /\ counters.wall < MaxWall

\* Every command ends: the drain loop runs out of claims, budget or jobs.
CommandsEnd == pc # "idle" ~> pc = "idle"

\* store.go:503 TerminalizeBudgetRemainder "advances only the exact queued
\* identities that were already committed canonically as run-budget-deferred": the
\* canonical write that precedes it has taken effect.
RemainderIsCommitted ==
  [][pc = "next" /\ pc' = "terminalize"
       => \A r \in work'.ids : library'[r] = "run_budget_deferred"]_vars

\* runner.go:495 "A capacity terminal item was never marked processing; persist it
\* directly after canonical readback has succeeded": finishing is never refused.
FinishAccepted ==
  pc = "finish" => \A r \in work.ids : Finished(r) \/ Queue!CanFinish(r)

=============================================================================
