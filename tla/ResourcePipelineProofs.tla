----------------------- MODULE ResourcePipelineProofs -----------------------
(***************************************************************************)
(* Proofs about ResourcePipeline for every profile, every set of resources *)
(* and every choice of commands: the pipeline is a client the queue's      *)
(* contract allows for, so what is proved of the queue holds under it; a   *)
(* fetch is always funded; and the library knows an outcome before the     *)
(* queue does.                                                             *)
(***************************************************************************)
EXTENDS ResourcePipeline, TLAPS

\* The queue again, with what is proved of it.
Proved == INSTANCE ResourceQueueProofs

-----------------------------------------------------------------------------
(* The queue and the proved queue are the same specification.              *)

\* The profile is one the queue accepts.
LEMMA Profile ==
  /\ Resources \subseteq Nat
  /\ MaxResources \in Nat \ {0} /\ MaxRequests \in Nat \ {0} /\ MaxAttempts \in Nat \ {0}
  /\ MaxRedirects \in Nat /\ MaxBytes \in Nat \ {0} /\ MaxWall \in Nat \ {0}
  /\ MaxUsage \in Nat /\ MaxGeneration \in Nat
BY PipelineAssumption

\* The queue of the pipeline begins as the queue that was proved about,
LEMMA SameInit == Queue!Init <=> Proved!Init
BY DEF Queue!Init, Proved!Init, Queue!LegacyJob, Proved!LegacyJob,
   Queue!Absent, Proved!Absent, Queue!Job, Proved!Job, Queue!NoUse, Proved!NoUse

\* and has its steps.
LEMMA SameNext == Queue!Next <=> Proved!Next
BY DEF Queue!ClaimNext, Proved!ClaimNext,
   Queue!ClaimExhausted, Proved!ClaimExhausted,
   Queue!ClaimDeferred, Proved!ClaimDeferred, Queue!Claim, Proved!Claim,
   Queue!Claimable, Proved!Claimable, Queue!IsNext, Proved!IsNext,
   Queue!InState, Proved!InState, Queue!BudgetDefersItem, Proved!BudgetDefersItem,
   Queue!AggregateExhausted, Proved!AggregateExhausted,
   Queue!GlobalBudgetExhausted, Proved!GlobalBudgetExhausted,
   Queue!BlockJob, Proved!BlockJob, Queue!Take, Proved!Take,
   Queue!Reservation, Proved!Reservation, Queue!Least, Proved!Least,
   Queue!Work, Proved!Work, Queue!Usage, Proved!Usage,
   Queue!Consume, Proved!Consume,
   Queue!ConsumeAndCloseGeneration, Proved!ConsumeAndCloseGeneration,
   Queue!Settled, Proved!Settled, Queue!Overdraws, Proved!Overdraws,
   Queue!Crosses, Proved!Crosses, Queue!Requeue, Proved!Requeue,
   Queue!Finish, Proved!Finish, Queue!CanFinish, Proved!CanFinish,
   Queue!BlockedReasons, Proved!BlockedReasons,
   Queue!RetryReasons, Proved!RetryReasons, Queue!Membership, Proved!Membership,
   Queue!Enqueue, Proved!Enqueue, Queue!SyncMembership, Proved!SyncMembership,
   Queue!AdoptMembership, Proved!AdoptMembership,
   Queue!AdoptIntoNewGeneration, Proved!AdoptIntoNewGeneration,
   Queue!HasMissing, Proved!HasMissing, Queue!HasActive, Proved!HasActive,
   Queue!ReservedBy, Proved!ReservedBy, Queue!ReservedIn, Proved!ReservedIn,
   Queue!PruneMembership, Proved!PruneMembership,
   Queue!OpenGeneration, Proved!OpenGeneration,
   Queue!DeferredJob, Proved!DeferredJob, Queue!Settle, Proved!Settle,
   Queue!TerminalizeBudgetRemainder, Proved!TerminalizeBudgetRemainder,
   Queue!RebuildJob, Proved!RebuildJob, Queue!Rebuild, Proved!Rebuild,
   Queue!Delete, Proved!Delete, Queue!Recover, Proved!Recover,
   Queue!StartNextGeneration, Proved!StartNextGeneration,
   Queue!CanStartNextGeneration, Proved!CanStartNextGeneration,
   Queue!EligibleNext, Proved!EligibleNext,
   Queue!StartRetryGeneration, Proved!StartRetryGeneration,
   Queue!CanStartRetryGeneration, Proved!CanStartRetryGeneration,
   Queue!EligibleRetry, Proved!EligibleRetry,
   Queue!ChargeRunWallFloor, Proved!ChargeRunWallFloor, Queue!Absent, Proved!Absent,
   Queue!Job, Proved!Job, Queue!NoUse, Proved!NoUse, Queue!Next, Proved!Next

\* What is proved of the queue holds of it here.
THEOREM QueueIsSound == Queue!Spec => []Proved!QueueInv
<1>1. Queue!Init => Proved!Init
  BY SameInit
<1>2. [Queue!Next]_Queue!queueVars => [Proved!Next]_Proved!queueVars
  BY SameNext DEF Queue!queueVars, Proved!queueVars
<1>3. Proved!Spec => []Proved!QueueInv
  BY Profile, Proved!QueueInvariant
<1>4. QED
  BY <1>1, <1>2, <1>3, PTL DEF Queue!Spec, Proved!Spec

-----------------------------------------------------------------------------
(* The invariant: what the step a command has reached says of the queue    *)
(* and of the batch in hand.                                               *)

\* No job is in flight.
Resting == \A r \in Resources : items[r].state # "processing"

\* The batch in hand is r alone, and no other job is in flight.
InHand(r) ==
  /\ work.ids = {r}
  /\ \A s \in Resources : items[s].state = "processing" => s = r

Position ==
  /\ pc \in {"loop", "next", "terminalize"} => Resting
  /\ pc \in {"fetch", "delay", "sleep", "stop"} =>
       \E r \in Resources : InHand(r) /\ items[r].state = "processing"
  /\ pc \in {"merge", "finish"} =>
       /\ \E r \in Resources : InHand(r) /\ items[r].state \in {"processing", "blocked"}
       /\ work.outcome \in Outcomes
  /\ pc = "terminalize" => work.outcome = "run_budget_deferred"
  /\ pc = "retry.open" => work.outcome \in Queue!RetryReasons

\* The canonical batch has been merged when the derived jobs are about to follow,
\* and only a curated enrichment gives the library an outcome without a batch.
Recorded ==
  /\ pc \in {"terminalize", "finish"} => work \in imports
  /\ \A r \in Resources :
       library[r] \in Outcomes \ {"complete"} =>
         \E batch \in imports : r \in batch.ids /\ batch.outcome = library[r]

LibraryOK ==
  /\ reach \in [Resources -> Reach]
  /\ library \in [Resources -> Outcomes \cup {"missing", "not_attempted"}]
  /\ \A r \in Resources : reach[r] = "none" <=> library[r] = "missing"
  /\ imports \subseteq [ids : SUBSET Resources, outcome : Outcomes]
  /\ pc \in Steps
  /\ work \in [ids : SUBSET Resources, outcome : Outcomes \cup {"none"}]

PipelineInv ==
  /\ Proved!QueueInv
  /\ LibraryOK
  /\ Position
  /\ Recorded
  /\ FetchIsFunded
  /\ CanonicalFirst

\* What the invariant of the queue says in this module's words.
LEMMA QueueFacts ==
  ASSUME Proved!QueueInv
  PROVE  /\ Queue!TypeOK /\ Queue!OneInFlight /\ Queue!WithinBudget
         /\ Queue!AttemptsBounded /\ Queue!ClaimIsFunded
BY DEF Proved!QueueInv, Queue!TypeOK, Proved!TypeOK, Queue!OneInFlight, Proved!OneInFlight,
   Queue!WithinBudget, Proved!WithinBudget, Queue!AttemptsBounded, Proved!AttemptsBounded,
   Queue!ClaimIsFunded, Proved!ClaimIsFunded, Queue!InState, Proved!InState,
   Queue!Item, Proved!Item, Queue!Counters, Proved!Counters, Queue!Kinds, Proved!Kinds,
   Queue!RetryReasons, Proved!RetryReasons, Queue!BlockedReasons, Proved!BlockedReasons,
   Queue!Terminal, Proved!Terminal, Queue!Absent, Proved!Absent, Queue!Job, Proved!Job

-----------------------------------------------------------------------------
(* Every step of the pipeline is a step of the queue or leaves it alone.   *)

\* The jobs that derivedQueueState builds.
LEMMA DerivedJobs ==
  ASSUME LibraryOK
  PROVE  [r \in Resources |-> DerivedJob(r)]
           \in [Resources -> Queue!RebuildJob \cup {Queue!Absent}]
<1> SUFFICES ASSUME NEW r \in Resources
             PROVE  DerivedJob(r) \in Queue!RebuildJob \cup {Queue!Absent}
  OBVIOUS
<1>1. CASE r \notin Processable
  BY <1>1 DEF DerivedJob
<1>2. CASE r \in Processable /\ library[r] = "not_attempted"
  BY <1>2 DEF DerivedJob, Queue!RebuildJob, Acquired
<1>3. CASE r \in Processable /\ library[r] \in Acquired
  BY <1>3 DEF DerivedJob, Queue!RebuildJob, Acquired
<1>4. CASE r \in Processable /\ library[r] \notin Acquired \cup {"not_attempted"}
  <2>1. library[r] \in Queue!BlockedReasons
    BY <1>4 DEF LibraryOK, Processable, Outcomes
  <2>2. DerivedJob(r) = Queue!Job("blocked", library[r])
    BY <1>4 DEF DerivedJob, Acquired
  <2>3. QED
    BY <2>1, <2>2 DEF Queue!RebuildJob
<1>5. QED
  BY <1>1, <1>2, <1>3, <1>4

\* Each command is one operation of the queue, or leaves it alone: a rebuild,
LEMMA RebuildIsQueueStep ==
  ASSUME LibraryOK, RebuildCurrent
  PROVE  Queue!Next
BY DerivedJobs DEF RebuildCurrent, Queue!Next

\* a change of membership,
LEMMA MembershipIsQueueStep ==
  ASSUME Queue!SyncMembership(Processable) \/ Queue!PruneMembership(Processable)
  PROVE  Queue!Next
<1>1. Processable \in SUBSET Resources
  BY DEF Processable
<1>2. QED
  BY <1>1 DEF Queue!Next, Queue!Membership

\* The commands.
LEMMA CommandIsQueueStep ==
  ASSUME LibraryOK, Position, Command
  PROVE  Queue!Next \/ UNCHANGED queueVars
<1>1. CASE Run
  BY <1>1, RebuildIsQueueStep, MembershipIsQueueStep DEF Run
<1>2. CASE Continue
  BY <1>2, RebuildIsQueueStep, MembershipIsQueueStep DEF Continue
<1>3. CASE ContinueRecover
  BY <1>3 DEF ContinueRecover, Queue!Next
<1>4. CASE ContinueOpen
  BY <1>4 DEF ContinueOpen, Queue!Next
<1>5. CASE ContinueAdopt
  BY <1>5, MembershipIsQueueStep DEF ContinueAdopt
<1>6. CASE \E reason \in Queue!RetryReasons : RetryRecover(reason)
  BY <1>6 DEF RetryRecover, Queue!Next
<1>7. CASE RetryOpen
  <2>1. work.outcome \in Queue!RetryReasons
    BY <1>7 DEF RetryOpen, Position
  <2>2. Queue!StartRetryGeneration(work.outcome) \/ UNCHANGED queueVars
    BY <1>7 DEF RetryOpen
  <2>3. QED
    BY <2>1, <2>2 DEF Queue!Next
<1>8. CASE Reconcile
  BY <1>8 DEF Reconcile
<1>9. CASE RecoverOnly
  BY <1>9 DEF RecoverOnly, Queue!Next
<1>10. CASE DeleteQueue
  BY <1>10 DEF DeleteQueue, Queue!Next
<1>11. CASE RebuildQueue
  BY <1>11, RebuildIsQueueStep DEF RebuildQueue
<1>12. QED
  BY <1>1, <1>2, <1>3, <1>4, <1>5, <1>6, <1>7, <1>8, <1>9, <1>10, <1>11 DEF Command

\* A settlement of what a fetch may report is one the queue allows for.
LEMMA ConsumeIsQueueStep ==
  ASSUME NEW r \in Resources, NEW u \in Queue!Usage,
         Queue!Consume(r, u) \/ Queue!ConsumeAndCloseGeneration(r, u)
  PROVE  Queue!Next
BY DEF Queue!Next, Queue!Work

\* an item that is put back,
LEMMA RequeueIsQueueStep ==
  ASSUME NEW r \in Resources, Queue!Requeue(r)
  PROVE  Queue!Next
BY DEF Queue!Next, Queue!Work

\* a fetch and what it consumed,
LEMMA FetchIsQueueStep ==
  ASSUME NEW r \in Resources, Fetch(r)
  PROVE  Queue!Next \/ UNCHANGED queueVars
<1>1. ASSUME NEW u \in Usage(r),
             \/ FetchCloses(r, u) \/ FetchCancelled(r, u) \/ FetchBroken(r, u)
             \/ FetchTransient(r, u)
             \/ \E outcome \in Acquired \cup FetchReasons : FetchEnds(r, u, outcome)
      PROVE  Queue!Next
  <2>1. u \in Queue!Usage
    BY DEF Usage
  <2>2. QED
    BY <1>1, <2>1, ConsumeIsQueueStep
       DEF FetchCloses, FetchCancelled, FetchBroken, FetchTransient, FetchEnds
<1>2. ASSUME NEW wall \in 1 .. MaxUsage, Delay(r, wall)
      PROVE  Queue!Next
  <2> DEFINE u == [requests |-> 0, bytes |-> 0, wall |-> wall]
  <2>1. u \in Queue!Usage
    BY Profile DEF Queue!Usage
  <2>2. Queue!Consume(r, u)
    BY <1>2 DEF Delay
  <2>3. QED
    BY <2>1, <2>2, ConsumeIsQueueStep
<1>3. CASE TargetFails(r)
  BY <1>3, RequeueIsQueueStep DEF TargetFails
<1>4. QED
  BY <1>1, <1>2, <1>3 DEF Fetch

\* A job is claimed only while none is in flight, as ClaimNext demands.
LEMMA ClaimIsQueueStep ==
  ASSUME Position, NEW r \in Resources, ClaimExhausted(r) \/ Claim(r)
  PROVE  Queue!Next
<1>1. Queue!InState("processing") = {}
  BY DEF ClaimExhausted, Claim, Position, Resting, Queue!InState
<1>2. QED
  BY <1>1 DEF ClaimExhausted, Claim, Queue!ClaimNext, Queue!Next

\* the end of a job,
LEMMA FinishIsQueueStep ==
  ASSUME Position, NEW r \in Resources, FinishJob(r)
  PROVE  Queue!Next \/ UNCHANGED queueVars
<1>1. CASE Finished(r)
  BY <1>1 DEF FinishJob
<1>2. CASE ~Finished(r) /\ work.outcome \in Acquired
  <2>1. Queue!Finish(r, work.outcome, "none")
    BY <1>2 DEF FinishJob, QueueState, QueueReason
  <2>2. QED
    BY <1>2, <2>1 DEF Acquired, Queue!Work, Queue!Next
<1>3. CASE ~Finished(r) /\ work.outcome \notin Acquired
  <2>1. Queue!Finish(r, "blocked", work.outcome)
    BY <1>3 DEF FinishJob, QueueState, QueueReason
  <2>2. work.outcome \in Queue!BlockedReasons
    BY <1>3 DEF FinishJob, Position, Outcomes
  <2>3. QED
    BY <2>1, <2>2 DEF Queue!Work, Queue!Next
<1>4. QED
  BY <1>1, <1>2, <1>3

\* and so every step of the work.
LEMMA WorkIsQueueStep ==
  ASSUME LibraryOK, Position, Work
  PROVE  Queue!Next \/ UNCHANGED queueVars
<1>1. CASE Drain
  BY <1>1 DEF Drain, Queue!Next
<1>2. ASSUME NEW floor \in 0 .. MaxWall, LoopTop(floor) \/ Exit(floor)
      PROVE  Queue!Next
  <2>1. floor \in 0 .. MaxWall + 1
    BY Profile
  <2>2. Queue!ChargeRunWallFloor(floor)
    BY <1>2 DEF LoopTop, Exit
  <2>3. QED
    BY <2>1, <2>2 DEF Queue!Next
<1>3. CASE SettleRemainder \/ NothingQueued \/ Merge \/ MergeWritesOff \/ MergeFails
  BY <1>3 DEF SettleRemainder, NothingQueued, Merge, MergeWritesOff, MergeFails
<1>4. CASE Terminalize
  <2>1. work.ids \in SUBSET Resources
    BY DEF LibraryOK
  <2>2. Queue!TerminalizeBudgetRemainder(work.ids)
    BY <1>4 DEF Terminalize
  <2>3. QED
    BY <2>1, <2>2 DEF Queue!Settle, Queue!Next
<1>5. ASSUME NEW r \in Resources, ClaimExhausted(r) \/ Claim(r)
      PROVE  Queue!Next
  BY <1>5, ClaimIsQueueStep
<1>6. ASSUME NEW r \in Resources, Fetch(r)
      PROVE  Queue!Next \/ UNCHANGED queueVars
  BY <1>6, FetchIsQueueStep
<1>7. ASSUME NEW r \in Resources, RequeueAfterSleep(r) \/ RequeueAndStop(r)
      PROVE  Queue!Next
  BY <1>7, RequeueIsQueueStep DEF RequeueAfterSleep, RequeueAndStop
<1>8. ASSUME NEW r \in Resources, FinishJob(r)
      PROVE  Queue!Next \/ UNCHANGED queueVars
  BY <1>8, FinishIsQueueStep
<1>9. ASSUME NEW r \in Resources, FinishRefused(r)
      PROVE  UNCHANGED queueVars
  BY <1>9 DEF FinishRefused
<1>10. QED
  BY <1>1, <1>2, <1>3, <1>4, <1>5, <1>6, <1>7, <1>8, <1>9 DEF Work

\* A step of the pipeline, whatever it is.
LEMMA StepIsQueueStep ==
  ASSUME LibraryOK, Position, [Next]_vars
  PROVE  [Queue!Next]_queueVars
<1>1. CASE \E command \in Commands : Start(command)
  BY <1>1 DEF Start
<1>2. CASE Crash
  BY <1>2 DEF Crash
<1>3. CASE Environment
  BY <1>3 DEF Environment, Discover, Promote, Supersede, Curate
<1>4. CASE UNCHANGED vars
  BY <1>4 DEF vars
<1>5. QED
  BY <1>1, <1>2, <1>3, <1>4, CommandIsQueueStep, WorkIsQueueStep DEF Next

\* The invariant of the queue is kept with it.
LEMMA QueueKeeps ==
  ASSUME Proved!QueueInv, LibraryOK, Position, [Next]_vars
  PROVE  Proved!QueueInv'
<1>1. [Queue!Next]_queueVars
  BY StepIsQueueStep
<1>2. [Proved!Next]_Proved!queueVars
  BY <1>1, SameNext DEF queueVars, Proved!queueVars
<1>3. QED
  BY <1>2, Profile, Proved!NextKeeps

-----------------------------------------------------------------------------
(* The library: it stays well formed, batches are never forgotten and an   *)
(* outcome is either curated or that of a batch.                           *)

\* What the environment changes is one resource of the library.
LEMMA EnvironmentKeepsLibrary ==
  ASSUME LibraryOK, Environment
  PROVE  LibraryOK'
<1> USE DEF LibraryOK, Reach, Outcomes, Acquired
<1>0. PICK r \in Resources : Discover(r) \/ Promote(r) \/ Supersede(r) \/ Curate(r)
  BY DEF Environment
<1>1. CASE Discover(r)
  BY <1>1 DEF Discover
<1>2. CASE Promote(r)
  BY <1>2 DEF Promote
<1>3. CASE Supersede(r)
  BY <1>3 DEF Supersede
<1>4. CASE Curate(r)
  BY <1>4 DEF Curate
<1>5. QED
  BY <1>0, <1>1, <1>2, <1>3, <1>4

\* A merge of a batch with an outcome.
LEMMA MergeKeepsLibrary ==
  ASSUME LibraryOK, NEW batch \in [ids : SUBSET Resources, outcome : Outcomes],
         MergeEnrichment(batch), pc' \in Steps,
         work' \in [ids : SUBSET Resources, outcome : Outcomes \cup {"none"}]
  PROVE  LibraryOK'
<1>1. \A r \in batch.ids : reach[r] # "none" \/ batch \in imports
  BY DEF MergeEnrichment, Mergeable, Replayed, Accepted
<1>2. CASE Replayed(batch)
  BY <1>2 DEF MergeEnrichment, LibraryOK
<1>3. CASE ~Replayed(batch)
  <2>1. \A r \in batch.ids : reach[r] # "none"
    BY <1>1, <1>3 DEF Replayed
  <2>2. batch.outcome \notin {"missing", "not_attempted"}
    BY DEF Outcomes, Acquired, Queue!BlockedReasons, Queue!RetryReasons
  <2>3. library' = [r \in Resources |-> IF r \in batch.ids THEN batch.outcome
                                                           ELSE library[r]]
    BY <1>3 DEF MergeEnrichment
  <2>4. library' \in [Resources -> Outcomes \cup {"missing", "not_attempted"}]
    BY <2>3 DEF LibraryOK
  <2>5. \A r \in Resources : reach'[r] = "none" <=> library'[r] = "missing"
    BY <2>1, <2>2, <2>3 DEF LibraryOK, MergeEnrichment
  <2>6. QED
    BY <2>4, <2>5 DEF LibraryOK, MergeEnrichment
<1>4. QED
  BY <1>2, <1>3

\* The batches a command merges.
LEMMA MergedBatches ==
  ASSUME LibraryOK, Position
  PROVE  /\ Batch(ReferenceOnly, "manual_processing_required")
              \in [ids : SUBSET Resources, outcome : Outcomes]
         /\ Batch(Queue!BudgetRemainder, "run_budget_deferred")
              \in [ids : SUBSET Resources, outcome : Outcomes]
         /\ pc = "merge" => work \in [ids : SUBSET Resources, outcome : Outcomes]
<1>1. {"manual_processing_required", "run_budget_deferred"} \subseteq Outcomes
  BY DEF Outcomes, Queue!BlockedReasons
<1>2. ReferenceOnly \subseteq Resources /\ Queue!BudgetRemainder \subseteq Resources
  BY DEF ReferenceOnly, Queue!BudgetRemainder, Queue!InState
<1>3. QED
  BY <1>1, <1>2 DEF Batch, LibraryOK, Position

\* A step that leaves the library alone goes to a step with a batch.
LEMMA MoveKeepsLibrary ==
  ASSUME LibraryOK, UNCHANGED libraryVars, pc' \in Steps,
         work' \in [ids : SUBSET Resources, outcome : Outcomes \cup {"none"}]
  PROVE  LibraryOK'
BY DEF LibraryOK, libraryVars

\* A step that only goes on keeps the library's types,
LEMMA GotoKeepsLibrary ==
  ASSUME LibraryOK, UNCHANGED libraryVars, NEW step \in Steps, Goto(step)
  PROVE  LibraryOK'
<1>1. work' \in [ids : SUBSET Resources, outcome : Outcomes \cup {"none"}]
  BY DEF Goto, NoWork, Batch
<1>2. QED
  BY <1>1, MoveKeepsLibrary DEF Goto

\* and so does a command,
LEMMA CommandKeepsLibrary ==
  ASSUME LibraryOK, Position, Command
  PROVE  LibraryOK'
<1>1. ASSUME NEW reason \in Queue!RetryReasons, RetryRecover(reason)
      PROVE  LibraryOK'
  <2>1. work' \in [ids : SUBSET Resources, outcome : Outcomes \cup {"none"}]
    BY <1>1 DEF RetryRecover, Hold, Batch, Outcomes, Queue!BlockedReasons
  <2>2. QED
    BY <1>1, <2>1, MoveKeepsLibrary DEF RetryRecover, Hold, Steps
<1>2. CASE Reconcile
  <2>1. pc' = "rebuild" /\ work' = NoWork
    BY <1>2 DEF Reconcile, Goto
  <2>2. work' \in [ids : SUBSET Resources, outcome : Outcomes \cup {"none"}] /\ pc' \in Steps
    BY <2>1 DEF NoWork, Batch, Steps
  <2>3. QED
    BY <1>2, <2>2, MoveKeepsLibrary, MergeKeepsLibrary, MergedBatches DEF Reconcile
<1>3. CASE \/ Run \/ Continue \/ ContinueRecover \/ ContinueOpen \/ ContinueAdopt
           \/ RetryOpen \/ RecoverOnly \/ DeleteQueue \/ RebuildQueue
  <2>1. UNCHANGED libraryVars /\ \E step \in Steps : Goto(step)
    BY <1>3 DEF Run, Continue, ContinueRecover, ContinueOpen, ContinueAdopt, RetryOpen,
       RecoverOnly, DeleteQueue, RebuildQueue, Steps
  <2>2. QED
    BY <2>1, GotoKeepsLibrary
<1>4. QED
  BY <1>1, <1>2, <1>3 DEF Command

\* the work,
LEMMA WorkKeepsLibrary ==
  ASSUME LibraryOK, Position, Work
  PROVE  LibraryOK'
<1> DEFINE Held == [ids : SUBSET Resources, outcome : Outcomes \cup {"none"}]
<1>1. CASE SettleRemainder
  <2> DEFINE batch == Batch(Queue!BudgetRemainder, "run_budget_deferred")
  <2>1. CASE MergeEnrichment(batch) /\ Hold("terminalize", batch)
    <3>1. batch \in [ids : SUBSET Resources, outcome : Outcomes]
      BY MergedBatches
    <3>2. pc' \in Steps /\ work' \in Held
      BY <2>1, <3>1 DEF Hold, Steps
    <3>3. QED
      BY <2>1, <3>1, <3>2, MergeKeepsLibrary
  <2>2. CASE Goto("exit") /\ UNCHANGED libraryVars
    BY <2>2, GotoKeepsLibrary DEF Steps
  <2>3. QED
    BY <1>1, <2>1, <2>2 DEF SettleRemainder
<1>2. CASE Merge
  <2>1. pc' \in Steps /\ work' \in Held
    BY <1>2 DEF Merge, Hold, Steps, LibraryOK
  <2>2. QED
    BY <1>2, <2>1, MergeKeepsLibrary, MergedBatches DEF Merge
<1>3. CASE MergeWritesOff
  <2>1. pc' \in Steps /\ work' \in Held
    BY <1>3 DEF MergeWritesOff, Hold, Steps, LibraryOK, Outcomes, Queue!BlockedReasons
  <2>2. QED
    BY <1>3, <2>1, MoveKeepsLibrary DEF MergeWritesOff
<1>4. ASSUME NEW r \in Resources, Fetch(r) \/ ClaimExhausted(r) \/ Claim(r)
      PROVE  LibraryOK'
  <2> DEFINE Kept == Acquired \cup FetchReasons
                       \cup {"none", "run_budget_deferred", "budget_exhausted"}
  <2>1. \A outcome \in Kept : Batch({r}, outcome) \in Held
    BY PipelineAssumption DEF Batch, Outcomes, Queue!BlockedReasons
  <2>2. UNCHANGED libraryVars
    BY <1>4 DEF Fetch, ClaimExhausted, Claim, FetchCloses, FetchCancelled, FetchBroken,
       FetchEnds, FetchTransient, Delay, TargetFails
  <2>3. pc' \in Steps
    BY <1>4 DEF Fetch, ClaimExhausted, Claim, FetchCloses, FetchCancelled, FetchBroken,
       FetchEnds, FetchTransient, Delay, TargetFails, Goto, Hold, Steps
  <2>4. work' \in {work, NoWork} \/ \E outcome \in Kept : work' = Batch({r}, outcome)
    BY <1>4 DEF Fetch, ClaimExhausted, Claim, FetchCloses, FetchCancelled, FetchBroken,
       FetchEnds, FetchTransient, Delay, TargetFails, Goto, Hold
  <2>5. NoWork \in Held /\ work \in Held
    BY DEF NoWork, Batch, LibraryOK
  <2> HIDE DEF Held, Kept
  <2>6. work' \in Held
    BY <2>1, <2>4, <2>5
  <2> USE DEF Held
  <2>7. QED
    BY <2>2, <2>3, <2>6, MoveKeepsLibrary
<1>5. CASE \/ Drain \/ Terminalize \/ NothingQueued \/ MergeFails
           \/ \E floor \in 0 .. MaxWall : LoopTop(floor) \/ Exit(floor)
           \/ \E r \in Resources : \/ RequeueAfterSleep(r) \/ RequeueAndStop(r)
                                   \/ FinishJob(r) \/ FinishRefused(r)
  <2>1. UNCHANGED libraryVars /\ \E step \in Steps : Goto(step)
    BY <1>5 DEF Drain, Terminalize, NothingQueued, MergeFails, LoopTop, Exit,
       RequeueAfterSleep, RequeueAndStop, FinishJob, FinishRefused, Steps
  <2>2. QED
    BY <2>1, GotoKeepsLibrary
<1>6. QED
  BY <1>1, <1>2, <1>3, <1>4, <1>5 DEF Work

\* and every step.
LEMMA LibraryKeeps ==
  ASSUME LibraryOK, Position, [Next]_vars
  PROVE  LibraryOK'
<1>1. ASSUME NEW command \in Commands, Start(command)
      PROVE  LibraryOK'
  <2>1. command \in Steps
    BY PipelineAssumption DEF Steps
  <2>2. QED
    BY <1>1, <2>1, GotoKeepsLibrary DEF Start
<1>2. CASE Crash
  BY <1>2, GotoKeepsLibrary DEF Crash, Steps
<1>3. CASE UNCHANGED vars
  BY <1>3 DEF vars, libraryVars, LibraryOK
<1>4. QED
  BY <1>1, <1>2, <1>3, CommandKeepsLibrary, WorkKeepsLibrary, EnvironmentKeepsLibrary
     DEF Next

-----------------------------------------------------------------------------
(* The position: who is in flight at each step of a drain.                 *)

\* The steps that say nothing of the queue.
Elsewhere == {"idle", "run", "continue", "continue.recover", "continue.open",
              "continue.adopt", "unreachable", "rate_limited", "reconcile",
              "recover", "rebuild", "delete", "drain", "exit"}

\* Away from a job there is nothing to say of the position.
LEMMA ElsewherePosition ==
  ASSUME pc' \in Elsewhere
  PROVE  Position'
BY DEF Elsewhere, Position

\* A position holds until its job or its place changes.
LEMMA UnmovedPosition ==
  ASSUME Position, UNCHANGED <<items, pc, work>>
  PROVE  Position'
BY DEF Position, Resting, InHand

\* The loop is entered with nothing in flight.
LEMMA RestingPosition ==
  ASSUME pc' \in {"loop", "next"}, Resting'
  PROVE  Position'
BY DEF Position

\* A step about the one job in hand, which stays in flight.
LEMMA InFlightPosition ==
  ASSUME NEW r \in Resources, work'.ids = {r}, items'[r].state = "processing",
         \A s \in Resources : items'[s].state = "processing" => s = r,
         \/ pc' \in {"fetch", "delay", "sleep", "stop"}
         \/ pc' \in {"merge", "finish"} /\ work'.outcome \in Outcomes
  PROVE  Position'
BY DEF Position, InHand

\* A command begins with nothing in flight.
LEMMA CommandPosition ==
  ASSUME Position, Command
  PROVE  Position'
<1>1. ASSUME NEW reason \in Queue!RetryReasons, RetryRecover(reason)
      PROVE  Position'
  <2>1. pc' = "retry.open" /\ work'.outcome = reason
    BY <1>1 DEF RetryRecover, Hold, Batch
  <2>2. QED
    BY <2>1 DEF Position
<1>2. CASE RetryOpen
  BY <1>2, ElsewherePosition DEF RetryOpen, Goto, Elsewhere
<1>3. CASE \/ Run \/ Continue \/ ContinueRecover \/ ContinueOpen \/ ContinueAdopt
           \/ Reconcile \/ RecoverOnly \/ DeleteQueue \/ RebuildQueue
  <2>1. pc' \in Elsewhere
    BY <1>3 DEF Run, Continue, ContinueRecover, ContinueOpen, ContinueAdopt, Reconcile,
       RecoverOnly, DeleteQueue, RebuildQueue, Goto, Elsewhere
  <2>2. QED
    BY <2>1, ElsewherePosition
<1>4. QED
  BY <1>1, <1>2, <1>3 DEF Command

\* What the fetch of r does with the job: it stays in flight or is requeued.
LEMMA FetchPosition ==
  ASSUME Queue!TypeOK, Position, NEW r \in Resources, Fetch(r)
  PROVE  Position'
<1>1. /\ work.ids = {r} /\ items[r].state = "processing"
      /\ \A s \in Resources : items[s].state = "processing" => s = r
  BY DEF Position, InHand, Fetch, FetchCloses, FetchCancelled, FetchBroken, FetchTransient,
     FetchEnds, Delay, TargetFails
<1>2. items \in [Resources -> Queue!Item]
  BY DEF Queue!TypeOK
<1>3. ASSUME NEW u, Queue!Consume(r, u)
      PROVE  /\ items'[r].state = "processing"
             /\ \A s \in Resources : items'[s].state = "processing" => s = r
  BY <1>1, <1>2, <1>3 DEF Queue!Consume, Queue!Item
<1>4. ASSUME NEW u \in Usage(r), FetchCloses(r, u)
      PROVE  Position'
  <2>1. items' = [items EXCEPT ![r].reserved = 0, ![r].state = "queued"]
    BY <1>4 DEF FetchCloses, Queue!ConsumeAndCloseGeneration
  <2>2. Resting'
    BY <1>1, <1>2, <2>1 DEF Resting, Queue!Item
  <2>3. QED
    BY <1>4, <2>2, RestingPosition DEF FetchCloses, Goto
<1>5. ASSUME NEW u \in Usage(r), FetchCancelled(r, u) \/ FetchTransient(r, u)
      PROVE  Position'
  BY <1>1, <1>3, <1>5, InFlightPosition DEF FetchCancelled, FetchTransient, Hold
<1>6. ASSUME NEW u \in Usage(r), FetchBroken(r, u)
      PROVE  Position'
  BY <1>6, ElsewherePosition DEF FetchBroken, Goto, Elsewhere
<1>7. ASSUME NEW u \in Usage(r), NEW outcome \in Acquired \cup FetchReasons,
             FetchEnds(r, u, outcome)
      PROVE  Position'
  <2>1. work'.ids = {r} /\ work'.outcome \in {outcome, "run_budget_deferred"}
    BY <1>7 DEF FetchEnds, Hold, Batch
  <2>2. work'.outcome \in Outcomes
    BY <2>1, PipelineAssumption DEF Outcomes, Queue!BlockedReasons
  <2>3. pc' = "merge" /\ Queue!Consume(r, u)
    BY <1>7 DEF FetchEnds, Hold
  <2>4. QED
    BY <1>3, <2>1, <2>2, <2>3, InFlightPosition
<1>8. ASSUME NEW wall \in 1 .. MaxUsage, Delay(r, wall)
      PROVE  Position'
  <2> DEFINE u == [requests |-> 0, bytes |-> 0, wall |-> wall]
  <2>1. Queue!Consume(r, u)
    BY <1>8 DEF Delay
  <2>2. \/ pc' = "sleep" /\ work' = work
        \/ pc' = "merge" /\ work' = Batch({r}, "run_budget_deferred")
    BY <1>8 DEF Delay, Hold
  <2>3. work'.ids = {r} /\ (pc' = "merge" => work'.outcome \in Outcomes)
    BY <1>1, <2>2 DEF Batch, Outcomes, Queue!BlockedReasons
  <2>4. QED
    BY <1>3, <2>1, <2>2, <2>3, InFlightPosition
<1>9. CASE TargetFails(r)
  BY <1>9, ElsewherePosition DEF TargetFails, Goto, Elsewhere
<1>10. QED
  BY <1>4, <1>5, <1>6, <1>7, <1>8, <1>9 DEF Fetch

\* A claim leaves the one job in flight in hand.
LEMMA ClaimPosition ==
  ASSUME Queue!TypeOK, Position, NEW r \in Resources, ClaimExhausted(r) \/ Claim(r)
  PROVE  Position'
<1>1. Resting /\ items \in [Resources -> Queue!Item]
  BY DEF Position, ClaimExhausted, Claim, Queue!TypeOK
<1>2. CASE Claim(r)
  <2>1. /\ items'[r].state = "processing"
        /\ \A s \in Resources : items'[s].state = "processing" => s = r
    BY <1>1, <1>2 DEF Claim, Queue!Claim, Queue!Take, Resting, Queue!Item
  <2>2. QED
    BY <1>2, <2>1, InFlightPosition DEF Claim, Hold, Batch
<1>3. CASE ClaimExhausted(r)
  <2>1. items' = [items EXCEPT ![r].state = "blocked", ![r].reason = "budget_exhausted"]
    BY <1>3 DEF ClaimExhausted, Queue!ClaimExhausted, Queue!BlockJob
  <2>2. /\ items'[r].state = "blocked"
        /\ \A s \in Resources : items'[s].state # "processing"
    BY <1>1, <2>1 DEF Resting, Queue!Item
  <2>3. pc' = "merge" /\ work'.ids = {r} /\ work'.outcome \in Outcomes
    BY <1>3 DEF ClaimExhausted, Hold, Batch, Outcomes, Queue!BlockedReasons
  <2>4. QED
    BY <2>2, <2>3 DEF Position, InHand
<1>4. QED
  BY <1>2, <1>3

\* Finishing or requeueing the job in hand leaves none in flight.
LEMMA LeavePosition ==
  ASSUME Queue!TypeOK, Queue!ClaimIsFunded, Position, NEW r \in Resources,
         \/ RequeueAfterSleep(r) \/ RequeueAndStop(r) \/ FinishJob(r) \/ FinishRefused(r)
  PROVE  Position'
<1>1. /\ work.ids = {r}
      /\ \A s \in Resources : items[s].state = "processing" => s = r
  BY DEF Position, InHand, RequeueAfterSleep, RequeueAndStop, FinishJob, FinishRefused
<1>2. items \in [Resources -> Queue!Item]
  BY DEF Queue!TypeOK
<1>3. ASSUME Queue!Requeue(r)
      PROVE  Resting'
  BY <1>1, <1>2, <1>3 DEF Queue!Requeue, Resting, Queue!Item
<1>4. CASE RequeueAfterSleep(r)
  BY <1>3, <1>4, RestingPosition, ElsewherePosition DEF RequeueAfterSleep, Goto, Elsewhere
<1>5. CASE RequeueAndStop(r) \/ FinishRefused(r)
  BY <1>5, ElsewherePosition DEF RequeueAndStop, FinishRefused, Goto, Elsewhere
<1>6. CASE FinishJob(r)
  <2>1. CASE Finished(r)
    <3>1. items[r].state # "processing"
      BY <2>1 DEF Finished, Queue!ClaimIsFunded, Queue!InState
    <3>2. items' = items
      BY <1>6, <2>1 DEF FinishJob, queueVars
    <3>3. QED
      BY <1>1, <1>6, <3>1, <3>2, RestingPosition DEF FinishJob, Goto, Resting
  <2>2. CASE ~Finished(r)
    <3>1. items' = [items EXCEPT ![r].state = QueueState(work.outcome),
                                 ![r].reason = QueueReason(work.outcome)]
      BY <1>6, <2>2 DEF FinishJob, Queue!Finish
    <3>2. QueueState(work.outcome) # "processing"
      BY DEF QueueState, Acquired
    <3>3. Resting'
      BY <1>1, <1>2, <3>1, <3>2 DEF Resting, Queue!Item
    <3>4. QED
      BY <1>6, <3>3, RestingPosition DEF FinishJob, Goto
  <2>3. QED
    BY <2>1, <2>2
<1>7. QED
  BY <1>4, <1>5, <1>6

\* The work keeps it in hand until its job is settled.
LEMMA WorkPosition ==
  ASSUME Queue!TypeOK, Queue!ClaimIsFunded, LibraryOK, Position, Work
  PROVE  Position'
<1>0. items \in [Resources -> Queue!Item]
  BY DEF Queue!TypeOK
<1>1. CASE Drain
  <2>1. Resting'
    BY <1>0, <1>1 DEF Drain, Queue!Recover, Resting, Queue!Item
  <2>2. QED
    BY <1>1, <2>1, RestingPosition, ElsewherePosition DEF Drain, Goto, Elsewhere
<1>2. ASSUME NEW floor \in 0 .. MaxWall, LoopTop(floor)
      PROVE  Position'
  <2>1. Resting'
    BY <1>2 DEF LoopTop, Queue!ChargeRunWallFloor, Position, Resting
  <2>2. QED
    BY <1>2, <2>1, RestingPosition, ElsewherePosition DEF LoopTop, Goto, Elsewhere
<1>3. CASE SettleRemainder
  <2>1. CASE Goto("exit")
    BY <2>1, ElsewherePosition DEF Goto, Elsewhere
  <2>2. CASE Hold("terminalize", Batch(Queue!BudgetRemainder, "run_budget_deferred"))
    <3>1. pc' = "terminalize" /\ work'.outcome = "run_budget_deferred" /\ Resting'
      BY <1>3, <2>2 DEF SettleRemainder, Hold, Batch, Position, Resting, queueVars
    <3>2. QED
      BY <3>1 DEF Position
  <2>3. QED
    BY <1>3, <2>1, <2>2 DEF SettleRemainder
<1>4. CASE Terminalize
  <2>1. Resting'
    BY <1>0, <1>4 DEF Terminalize, Queue!TerminalizeBudgetRemainder, Position, Resting,
       Queue!Item
  <2>2. QED
    BY <1>4, <2>1, RestingPosition DEF Terminalize, Goto
<1>5. CASE NothingQueued \/ MergeFails \/ \E floor \in 0 .. MaxWall : Exit(floor)
  BY <1>5, ElsewherePosition DEF NothingQueued, MergeFails, Exit, Goto, Elsewhere
<1>6. CASE Merge \/ MergeWritesOff
  <2>1. PICK r \in Resources : InHand(r) /\ items[r].state \in {"processing", "blocked"}
    BY <1>6 DEF Merge, MergeWritesOff, Position
  <2>2. /\ items' = items /\ work'.ids = work.ids /\ pc' \in {"merge", "finish"}
        /\ work'.outcome \in {work.outcome, "manual_processing_required"}
    BY <1>6 DEF Merge, MergeWritesOff, Hold, queueVars, LibraryOK
  <2>3. work'.outcome \in Outcomes
    BY <1>6, <2>2 DEF Merge, MergeWritesOff, Position, Outcomes, Queue!BlockedReasons
  <2>4. QED
    BY <2>1, <2>2, <2>3 DEF Position, InHand
<1>7. QED
  BY <1>1, <1>2, <1>3, <1>4, <1>5, <1>6, FetchPosition, ClaimPosition, LeavePosition
     DEF Work

\* Every step keeps the position.
LEMMA PositionKeeps ==
  ASSUME Queue!TypeOK, Queue!ClaimIsFunded, LibraryOK, Position, [Next]_vars
  PROVE  Position'
<1>1. ASSUME NEW command \in Commands, Start(command)
      PROVE  Position'
  BY <1>1, PipelineAssumption, ElsewherePosition DEF Start, Goto, Elsewhere
<1>2. CASE Crash
  BY <1>2, ElsewherePosition DEF Crash, Goto, Elsewhere
<1>3. CASE Environment \/ UNCHANGED vars
  BY <1>3, UnmovedPosition
     DEF Environment, Discover, Promote, Supersede, Curate, queueVars, vars
<1>4. QED
  BY <1>1, <1>2, <1>3, CommandPosition, WorkPosition DEF Next

-----------------------------------------------------------------------------
(* Outcomes have a batch: library, imports and the batch in hand.          *)

\* The library does not gain an outcome without a batch.
LEMMA MergeRecorded ==
  ASSUME LibraryOK, Recorded, NEW batch \in [ids : SUBSET Resources, outcome : Outcomes],
         MergeEnrichment(batch), pc' \in {"terminalize", "finish"} => work' = batch
  PROVE  Recorded'
<1>1. imports' = imports \cup {batch}
  BY DEF MergeEnrichment
<1>2. ASSUME NEW r \in Resources, library'[r] \in Outcomes \ {"complete"}
      PROVE  \E b \in imports' : r \in b.ids /\ b.outcome = library'[r]
  <2>1. CASE library'[r] = library[r]
    BY <1>1, <1>2, <2>1 DEF Recorded
  <2>2. CASE library'[r] # library[r]
    <3>1. r \in batch.ids /\ library'[r] = batch.outcome
      BY <2>2 DEF MergeEnrichment, LibraryOK
    <3>2. QED
      BY <1>1, <3>1
  <2>3. QED
    BY <2>1, <2>2
<1>3. QED
  BY <1>1, <1>2 DEF Recorded

\* A step that merges nothing.
LEMMA MovedRecorded ==
  ASSUME Recorded, UNCHANGED libraryVars,
         pc' \in {"terminalize", "finish"} => pc' = pc /\ work' = work
  PROVE  Recorded'
BY DEF Recorded, libraryVars

\* What others merge leaves the batch of a job on record.
LEMMA EnvironmentRecorded ==
  ASSUME LibraryOK, Recorded, Environment
  PROVE  Recorded'
<1>0. PICK r \in Resources : Discover(r) \/ Promote(r) \/ Supersede(r) \/ Curate(r)
  BY DEF Environment
<1>1. imports' = imports /\ pc' = pc /\ work' = work
  BY <1>0 DEF Discover, Promote, Supersede, Curate
<1>2. \A s \in Resources : library'[s] \in {library[s], "not_attempted", "complete"}
  BY <1>0 DEF Discover, Promote, Supersede, Curate, LibraryOK
<1>3. "not_attempted" \notin Outcomes
  BY DEF Outcomes, Acquired, Queue!BlockedReasons, Queue!RetryReasons
<1>4. QED
  BY <1>1, <1>2, <1>3 DEF Recorded

\* Every step keeps it on record.
LEMMA RecordedKeeps ==
  ASSUME LibraryOK, Position, Recorded, [Next]_vars
  PROVE  Recorded'
<1>1. ASSUME NEW command \in Commands, Start(command)
      PROVE  Recorded'
  BY <1>1, PipelineAssumption, MovedRecorded DEF Start, Goto
<1>2. CASE Crash \/ UNCHANGED vars
  BY <1>2, MovedRecorded DEF Crash, Goto, vars
<1>3. CASE Reconcile
  <2>1. pc' = "rebuild"
    BY <1>3 DEF Reconcile, Goto
  <2>2. QED
    BY <1>3, <2>1, MovedRecorded, MergeRecorded, MergedBatches DEF Reconcile
<1>4. ASSUME NEW reason \in Queue!RetryReasons, RetryRecover(reason)
      PROVE  Recorded'
  BY <1>4, MovedRecorded DEF RetryRecover, Hold
<1>5. CASE \/ Run \/ Continue \/ ContinueRecover \/ ContinueOpen \/ ContinueAdopt
           \/ RetryOpen \/ RecoverOnly \/ DeleteQueue \/ RebuildQueue
  BY <1>5, MovedRecorded DEF Run, Continue, ContinueRecover, ContinueOpen, ContinueAdopt,
     RetryOpen, RecoverOnly, DeleteQueue, RebuildQueue, Goto
<1>6. CASE SettleRemainder
  <2> DEFINE batch == Batch(Queue!BudgetRemainder, "run_budget_deferred")
  <2>1. CASE MergeEnrichment(batch) /\ Hold("terminalize", batch)
    <3>1. batch \in [ids : SUBSET Resources, outcome : Outcomes]
      BY MergedBatches
    <3>2. QED
      BY <2>1, <3>1, MergeRecorded DEF Hold
  <2>2. CASE Goto("exit") /\ UNCHANGED libraryVars
    BY <2>2, MovedRecorded DEF Goto
  <2>3. QED
    BY <1>6, <2>1, <2>2 DEF SettleRemainder
<1>7. CASE Merge
  BY <1>7, MergeRecorded, MergedBatches DEF Merge, Hold
<1>8. ASSUME NEW r \in Resources, Fetch(r)
      PROVE  Recorded'
  BY <1>8, MovedRecorded DEF Fetch, FetchCloses, FetchCancelled, FetchBroken,
     FetchTransient, FetchEnds, Delay, TargetFails, Goto, Hold
<1>9. CASE \/ Drain \/ Terminalize \/ NothingQueued \/ MergeWritesOff \/ MergeFails
           \/ \E floor \in 0 .. MaxWall : LoopTop(floor) \/ Exit(floor)
           \/ \E r \in Resources :
                \/ ClaimExhausted(r) \/ Claim(r) \/ RequeueAfterSleep(r)
                \/ RequeueAndStop(r) \/ FinishJob(r) \/ FinishRefused(r)
  BY <1>9, MovedRecorded DEF Drain, Terminalize, NothingQueued, MergeWritesOff, MergeFails,
     LoopTop, Exit, ClaimExhausted, Claim, RequeueAfterSleep, RequeueAndStop, FinishJob,
     FinishRefused, Goto, Hold, libraryVars
<1>10. QED
  BY <1>1, <1>2, <1>3, <1>4, <1>5, <1>6, <1>7, <1>8, <1>9, EnvironmentRecorded
     DEF Next, Command, Work

-----------------------------------------------------------------------------
(* A fetch is funded when its job is claimed, and nothing but the fetch    *)
(* itself changes the queue until it ends.                                 *)

\* A claim reserves what its request will use.
LEMMA ClaimFunds ==
  ASSUME Queue!TypeOK, NEW r \in Resources, Claim(r)
  PROVE  FetchIsFunded'
<1>1. /\ items' = [items EXCEPT ![r].state = "processing", ![r].attempts = @ + 1,
                                ![r].reserved = Queue!Reservation]
      /\ items[r].attempts < MaxAttempts /\ closed' = closed
      /\ counters'.bytes = counters.bytes /\ counters'.wall = counters.wall
      /\ work' = Batch({r}, "none")
  BY DEF Claim, Hold, Queue!Claim, Queue!Claimable, Queue!Take, Queue!TypeOK, Queue!Counters
<1>2. /\ ~closed /\ counters.bytes < MaxBytes /\ counters.wall < MaxWall
      /\ counters.requests + counters.reserved < MaxRequests
  BY Profile DEF Claim, Queue!Claim, Queue!Claimable, Queue!BudgetDefersItem,
     Queue!AggregateExhausted, Queue!TypeOK, Queue!Counters
<1>3. Queue!Reservation \in 1 .. MaxRedirects + 1
  BY <1>2, Profile DEF Queue!Reservation, Queue!Least, Queue!TypeOK, Queue!Counters
<1>4. items[r] \in Queue!Item
  BY DEF Queue!TypeOK
<1>5. items'[r] = [items[r] EXCEPT !.state = "processing", !.attempts = @ + 1,
                                   !.reserved = Queue!Reservation]
  BY <1>1 DEF Queue!TypeOK
<1>6. /\ items'[r].state = "processing" /\ items'[r].attempts = items[r].attempts + 1
      /\ items'[r].reserved = Queue!Reservation
  BY <1>4, <1>5 DEF Queue!Item
<1>7. items'[r].attempts \in 1 .. MaxAttempts
  <2>1. items[r].attempts \in Nat
    BY <1>4 DEF Queue!Item
  <2>2. QED
    BY <1>1, <1>6, <2>1, Profile
<1>8. QED
  BY <1>1, <1>2, <1>3, <1>6, <1>7 DEF FetchIsFunded, Batch

\* Every step keeps a request funded.
LEMMA FundedKeeps ==
  ASSUME Queue!TypeOK, LibraryOK, Position, FetchIsFunded, [Next]_vars
  PROVE  FetchIsFunded'
<1>1. ASSUME pc' # "fetch"
      PROVE  FetchIsFunded'
  BY <1>1 DEF FetchIsFunded
<1>2. CASE Environment \/ UNCHANGED vars
  BY <1>2 DEF FetchIsFunded, Environment, Discover, Promote, Supersede, Curate, vars, queueVars
<1>3. ASSUME NEW r \in Resources, Claim(r)
      PROVE  FetchIsFunded'
  BY <1>3, ClaimFunds
<1>4. CASE (\E command \in Commands : Start(command)) \/ Crash
  BY <1>1, <1>4, PipelineAssumption DEF Start, Crash, Goto
<1>5. CASE Command
  BY <1>1, <1>5 DEF Command, Run, Continue, ContinueRecover, ContinueOpen, ContinueAdopt,
     RetryRecover, RetryOpen, Reconcile, RecoverOnly, DeleteQueue, RebuildQueue, Goto, Hold
<1>6. ASSUME NEW r \in Resources, Fetch(r)
      PROVE  FetchIsFunded'
  BY <1>1, <1>6 DEF Fetch, FetchCloses, FetchCancelled, FetchBroken, FetchTransient,
     FetchEnds, Delay, TargetFails, Goto, Hold
<1>7. CASE \/ Drain \/ SettleRemainder \/ Terminalize \/ NothingQueued
           \/ Merge \/ MergeWritesOff \/ MergeFails
           \/ \E floor \in 0 .. MaxWall : LoopTop(floor) \/ Exit(floor)
           \/ \E r \in Resources :
                \/ ClaimExhausted(r) \/ RequeueAfterSleep(r) \/ RequeueAndStop(r)
                \/ FinishJob(r) \/ FinishRefused(r)
  BY <1>1, <1>7 DEF Drain, SettleRemainder, Terminalize, NothingQueued, Merge,
     MergeWritesOff, MergeFails, LoopTop, Exit, ClaimExhausted, RequeueAfterSleep,
     RequeueAndStop, FinishJob, FinishRefused, Goto, Hold
<1>8. QED
  BY <1>2, <1>3, <1>4, <1>5, <1>6, <1>7 DEF Next, Work

-----------------------------------------------------------------------------
(* The library knows an outcome before the queue does.                     *)

Outcome(job) == IF job.state = "blocked" THEN job.reason ELSE job.state

\* The jobs CanonicalFirst speaks of.
Ended(job) == job.state \in Queue!Terminal /\ Outcome(job) # "budget_exhausted"

\* Job by job, the outcome is in a batch, or is that of a curated enrichment.
LEMMA EndedJobs ==
  CanonicalFirst <=> \A r \in Resources : Ended(items[r]) => Committed(r, Outcome(items[r]))
BY DEF CanonicalFirst, Ended, Outcome

\* No job ends but as it ended already, or at the limit of its attempts.
NoneEnds ==
  \A r \in Resources :
    Ended(items'[r]) => Ended(items[r]) /\ Outcome(items'[r]) = Outcome(items[r])

\* No batch that was merged is forgotten.
LEMMA ImportsGrow ==
  ASSUME [Next]_vars
  PROVE  imports \subseteq imports'
<1>1. CASE Environment \/ UNCHANGED vars
  BY <1>1 DEF Environment, Discover, Promote, Supersede, Curate, vars, libraryVars
<1>2. CASE (\E command \in Commands : Start(command)) \/ Crash
  BY <1>2 DEF Start, Crash, libraryVars
<1>3. CASE Command
  BY <1>3 DEF Command, Run, Continue, ContinueRecover, ContinueOpen, ContinueAdopt,
     RetryRecover, RetryOpen, Reconcile, RecoverOnly, DeleteQueue, RebuildQueue,
     MergeEnrichment, libraryVars
<1>4. ASSUME NEW r \in Resources, Fetch(r)
      PROVE  imports \subseteq imports'
  BY <1>4 DEF Fetch, FetchCloses, FetchCancelled, FetchBroken, FetchTransient,
     FetchEnds, Delay, TargetFails, libraryVars
<1>5. CASE \/ Drain \/ SettleRemainder \/ Terminalize \/ NothingQueued
           \/ Merge \/ MergeWritesOff \/ MergeFails
           \/ \E floor \in 0 .. MaxWall : LoopTop(floor) \/ Exit(floor)
           \/ \E r \in Resources :
                \/ ClaimExhausted(r) \/ Claim(r) \/ RequeueAfterSleep(r)
                \/ RequeueAndStop(r) \/ FinishJob(r) \/ FinishRefused(r)
  BY <1>5 DEF Drain, SettleRemainder, Terminalize, NothingQueued, Merge, MergeWritesOff,
     MergeFails, LoopTop, Exit, ClaimExhausted, Claim, RequeueAfterSleep, RequeueAndStop,
     FinishJob, FinishRefused, MergeEnrichment, libraryVars
<1>6. QED
  BY <1>1, <1>2, <1>3, <1>4, <1>5 DEF Next, Work

\* A merge only ever concerns jobs that are not complete.
LEMMA CompleteStays ==
  ASSUME LibraryOK, Position, [Next]_vars,
         NEW r \in Resources, items[r].state = "complete", library[r] = "complete"
  PROVE  library'[r] = "complete"
<1>0. ASSUME UNCHANGED library
      PROVE  library'[r] = "complete"
  BY <1>0
<1>1. CASE Environment
  BY <1>1 DEF Environment, Discover, Promote, Supersede, Curate, LibraryOK
<1>2. ASSUME NEW batch, MergeEnrichment(batch), r \notin batch.ids
      PROVE  library'[r] = "complete"
  BY <1>2 DEF MergeEnrichment
<1>3. CASE Reconcile
  <2>1. r \notin ReferenceOnly
    BY DEF ReferenceOnly
  <2>2. QED
    BY <1>2, <1>3, <2>1 DEF Reconcile, Batch, libraryVars
<1>4. CASE SettleRemainder
  <2>1. r \notin Queue!BudgetRemainder
    BY DEF Queue!BudgetRemainder, Queue!InState
  <2>2. QED
    BY <1>2, <1>4, <2>1 DEF SettleRemainder, Batch, libraryVars
<1>5. CASE Merge
  <2>1. r \notin work.ids
    BY <1>5 DEF Merge, Position, InHand
  <2>2. QED
    BY <1>2, <1>5, <2>1 DEF Merge
<1>6. CASE (\E command \in Commands : Start(command)) \/ Crash \/ UNCHANGED vars
  BY <1>0, <1>6 DEF Start, Crash, vars, libraryVars
<1>7. CASE \/ Run \/ Continue \/ ContinueRecover \/ ContinueOpen \/ ContinueAdopt
           \/ RetryOpen \/ RecoverOnly \/ DeleteQueue \/ RebuildQueue
           \/ \E reason \in Queue!RetryReasons : RetryRecover(reason)
  BY <1>0, <1>7 DEF Run, Continue, ContinueRecover, ContinueOpen, ContinueAdopt,
     RetryOpen, RecoverOnly, DeleteQueue, RebuildQueue, RetryRecover, libraryVars
<1>8. ASSUME NEW s \in Resources, Fetch(s)
      PROVE  library'[r] = "complete"
  BY <1>0, <1>8 DEF Fetch, FetchCloses, FetchCancelled, FetchBroken, FetchTransient,
     FetchEnds, Delay, TargetFails, libraryVars
<1>9. CASE \/ Drain \/ Terminalize \/ NothingQueued \/ MergeWritesOff \/ MergeFails
           \/ \E floor \in 0 .. MaxWall : LoopTop(floor) \/ Exit(floor)
           \/ \E s \in Resources :
                \/ ClaimExhausted(s) \/ Claim(s) \/ RequeueAfterSleep(s)
                \/ RequeueAndStop(s) \/ FinishJob(s) \/ FinishRefused(s)
  BY <1>0, <1>9 DEF Drain, Terminalize, NothingQueued, MergeWritesOff, MergeFails, LoopTop,
     Exit, ClaimExhausted, Claim, RequeueAfterSleep, RequeueAndStop, FinishJob,
     FinishRefused, libraryVars
<1>10. QED
  BY <1>1, <1>3, <1>4, <1>5, <1>6, <1>7, <1>8, <1>9 DEF Next, Command, Work

\* What is committed for an ended job stays committed.
LEMMA CommittedStays ==
  ASSUME Queue!TypeOK, LibraryOK, Position, Recorded, [Next]_vars,
         NEW r \in Resources, Ended(items[r]), NEW outcome, outcome = Outcome(items[r]),
         Committed(r, outcome)
  PROVE  \/ library'[r] = outcome
         \/ \E batch \in imports' : r \in batch.ids /\ batch.outcome = outcome
<1>1. outcome \in Outcomes
  BY DEF Outcome, Ended, Outcomes, Acquired, Queue!Terminal, Queue!TypeOK, Queue!Item
<1>2. CASE \E batch \in imports : r \in batch.ids /\ batch.outcome = outcome
  BY <1>2, ImportsGrow
<1>3. CASE library[r] = outcome /\ outcome # "complete"
  BY <1>1, <1>2, <1>3 DEF Recorded
<1>4. CASE library[r] = outcome /\ outcome = "complete"
  <2>1. items[r].state = "complete"
    BY <1>4 DEF Ended, Outcome, Queue!TypeOK, Queue!Item, Queue!BlockedReasons,
       Queue!RetryReasons
  <2>2. QED
    BY <1>4, <2>1, CompleteStays
<1>5. QED
  BY <1>2, <1>3, <1>4 DEF Committed

\* So a step that ends no job keeps the order of the two writes.
LEMMA NoneEndsKeeps ==
  ASSUME Queue!TypeOK, LibraryOK, Position, Recorded, CanonicalFirst, [Next]_vars, NoneEnds
  PROVE  CanonicalFirst'
<1> SUFFICES ASSUME NEW r \in Resources, Ended(items'[r])
             PROVE  \/ library'[r] = Outcome(items'[r])
                    \/ \E batch \in imports' :
                         r \in batch.ids /\ batch.outcome = Outcome(items'[r])
  BY DEF CanonicalFirst, Ended, Outcome, Committed
<1>1. Ended(items[r]) /\ Outcome(items'[r]) = Outcome(items[r])
  BY DEF NoneEnds
<1>2. Committed(r, Outcome(items[r]))
  BY <1>1, EndedJobs
<1>3. QED
  BY <1>1, <1>2, CommittedStays

\* The operations of the queue that end no job.
LEMMA MembershipEndsNone ==
  ASSUME Queue!TypeOK, NEW ids \in SUBSET Resources,
         Queue!SyncMembership(ids) \/ Queue!PruneMembership(ids)
  PROVE  NoneEnds
<1>1. \A r \in Resources : items'[r] \in {items[r], Queue!Absent, Queue!Job("queued", "none")}
  BY DEF Queue!SyncMembership, Queue!AdoptMembership, Queue!AdoptIntoNewGeneration,
     Queue!PruneMembership
<1>2. ~Ended(Queue!Absent) /\ ~Ended(Queue!Job("queued", "none"))
  BY DEF Ended, Queue!Absent, Queue!Job, Queue!Terminal
<1>3. QED
  BY <1>1, <1>2 DEF NoneEnds

\* The operations that say no outcome: a recovery,
LEMMA RecoverEndsNone ==
  ASSUME Queue!TypeOK, Queue!Recover
  PROVE  NoneEnds
<1> SUFFICES ASSUME NEW r \in Resources, Ended(items'[r])
             PROVE  items'[r] = items[r]
  BY DEF NoneEnds
<1>1. items[r] \in Queue!Item
  BY DEF Queue!TypeOK
<1>2. CASE items[r].state = "processing"
  <2>1. items'[r].state = "queued"
    BY <1>1, <1>2 DEF Queue!Recover, Queue!Item
  <2>2. QED
    BY <2>1 DEF Ended, Queue!Terminal
<1>3. CASE items[r].state # "processing"
  BY <1>3 DEF Queue!Recover
<1>4. QED
  BY <1>2, <1>3

\* a new generation,
LEMMA GenerationEndsNone ==
  ASSUME Queue!TypeOK,
         Queue!StartNextGeneration \/ \E reason : Queue!StartRetryGeneration(reason)
  PROVE  NoneEnds
<1> SUFFICES ASSUME NEW r \in Resources, items'[r] # items[r]
             PROVE  items'[r].state = "queued"
  BY DEF NoneEnds, Ended, Queue!Terminal
<1>1. items[r] \in Queue!Item
  BY DEF Queue!TypeOK
<1>2. CASE Queue!StartNextGeneration
  BY <1>1, <1>2 DEF Queue!StartNextGeneration, Queue!Item
<1>3. CASE \E reason : Queue!StartRetryGeneration(reason)
  BY <1>3 DEF Queue!StartRetryGeneration, Queue!Job
<1>4. QED
  BY <1>2, <1>3

\* A step about one job that leaves it in flight, queued or at its limit.
LEMMA OneJobEndsNone ==
  ASSUME Queue!TypeOK, NEW r \in Resources,
         \A s \in Resources : s # r => items'[s] = items[s],
         ~Ended(items'[r])
  PROVE  NoneEnds
BY DEF NoneEnds

\* a claim,
LEMMA ClaimEndsNone ==
  ASSUME Queue!TypeOK, NEW r \in Resources, Queue!Claim(r) \/ Queue!ClaimExhausted(r)
  PROVE  NoneEnds
<1>1. items[r] \in Queue!Item /\ items \in [Resources -> Queue!Item]
  BY DEF Queue!TypeOK
<1>2. CASE Queue!Claim(r)
  <2>1. items'[r].state = "processing"
    BY <1>1, <1>2 DEF Queue!Claim, Queue!Take, Queue!Item
  <2>2. \A s \in Resources : s # r => items'[s] = items[s]
    BY <1>1, <1>2 DEF Queue!Claim, Queue!Take
  <2>3. QED
    BY <2>1, <2>2, OneJobEndsNone DEF Ended, Queue!Terminal
<1>3. CASE Queue!ClaimExhausted(r)
  <2>1. items'[r].state = "blocked" /\ items'[r].reason = "budget_exhausted"
    BY <1>1, <1>3 DEF Queue!ClaimExhausted, Queue!BlockJob, Queue!Item
  <2>2. \A s \in Resources : s # r => items'[s] = items[s]
    BY <1>1, <1>3 DEF Queue!ClaimExhausted, Queue!BlockJob
  <2>3. QED
    BY <2>1, <2>2, OneJobEndsNone DEF Ended, Outcome
<1>4. QED
  BY <1>2, <1>3

\* a settlement,
LEMMA SettleEndsNone ==
  ASSUME Queue!TypeOK, NEW r \in Resources,
         \/ Queue!Requeue(r)
         \/ \E u : Queue!Consume(r, u) \/ Queue!ConsumeAndCloseGeneration(r, u)
  PROVE  NoneEnds
<1>1. items[r] \in Queue!Item /\ items \in [Resources -> Queue!Item]
  BY DEF Queue!TypeOK
<1>2. items'[r].state \in {"processing", "queued"}
  BY <1>1 DEF Queue!Requeue, Queue!Consume, Queue!ConsumeAndCloseGeneration, Queue!Item
<1>3. \A s \in Resources : s # r => items'[s] = items[s]
  BY <1>1 DEF Queue!Requeue, Queue!Consume, Queue!ConsumeAndCloseGeneration
<1>4. QED
  BY <1>2, <1>3, OneJobEndsNone DEF Ended, Queue!Terminal

\* and whatever leaves the items alone.
LEMMA UnchangedEndsNone ==
  ASSUME UNCHANGED items
  PROVE  NoneEnds
BY DEF NoneEnds

\* The three that do: what they end is committed.
LEMMA RebuildCommits ==
  ASSUME LibraryOK, RebuildCurrent, UNCHANGED libraryVars
  PROVE  CanonicalFirst'
<1> SUFFICES ASSUME NEW r \in Resources, Ended(items'[r])
             PROVE  library'[r] = Outcome(items'[r])
  BY DEF CanonicalFirst, Ended, Outcome, Committed
<1>1. items'[r] = DerivedJob(r)
  BY DEF RebuildCurrent, Queue!Rebuild
<1>2. r \in Processable /\ library[r] # "not_attempted"
  BY <1>1 DEF DerivedJob, Ended, Queue!Absent, Queue!Job, Queue!Terminal
<1>3. CASE library[r] \in Acquired
  BY <1>1, <1>2, <1>3 DEF DerivedJob, Outcome, Queue!Job, Acquired, libraryVars
<1>4. CASE library[r] \notin Acquired
  BY <1>1, <1>2, <1>4 DEF DerivedJob, Outcome, Queue!Job, Acquired, libraryVars
<1>5. QED
  BY <1>3, <1>4

\* A job that is given up has its outcome in the library first.
LEMMA TerminalizeCommits ==
  ASSUME Queue!TypeOK, LibraryOK, Position, Recorded, CanonicalFirst, [Next]_vars, Terminalize
  PROVE  CanonicalFirst'
<1> SUFFICES ASSUME NEW r \in Resources, Ended(items'[r])
             PROVE  \/ library'[r] = Outcome(items'[r])
                    \/ \E batch \in imports' :
                         r \in batch.ids /\ batch.outcome = Outcome(items'[r])
  BY DEF CanonicalFirst, Ended, Outcome, Committed
<1>1. items[r] \in Queue!Item
  BY DEF Queue!TypeOK
<1>2. CASE r \in work.ids
  <2>1. Outcome(items'[r]) = "run_budget_deferred"
    BY <1>1, <1>2 DEF Terminalize, Queue!TerminalizeBudgetRemainder, Outcome, Queue!Item
  <2>2. work \in imports' /\ work.outcome = "run_budget_deferred"
    BY DEF Terminalize, Recorded, Position, libraryVars
  <2>3. QED
    BY <1>2, <2>1, <2>2
<1>3. CASE r \notin work.ids
  <2>1. items'[r] = items[r]
    BY <1>3 DEF Terminalize, Queue!TerminalizeBudgetRemainder
  <2>2. Committed(r, Outcome(items[r]))
    BY <2>1, EndedJobs
  <2>3. QED
    BY <2>1, <2>2, CommittedStays
<1>4. QED
  BY <1>2, <1>3

\* So has one that was fetched.
LEMMA FinishCommits ==
  ASSUME Queue!TypeOK, LibraryOK, Position, Recorded, CanonicalFirst, [Next]_vars,
         NEW s \in Resources, FinishJob(s), ~Finished(s)
  PROVE  CanonicalFirst'
<1> SUFFICES ASSUME NEW r \in Resources, Ended(items'[r])
             PROVE  \/ library'[r] = Outcome(items'[r])
                    \/ \E batch \in imports' :
                         r \in batch.ids /\ batch.outcome = Outcome(items'[r])
  BY DEF CanonicalFirst, Ended, Outcome, Committed
<1>1. items \in [Resources -> Queue!Item]
  BY DEF Queue!TypeOK
<1>2. items' = [items EXCEPT ![s].state = QueueState(work.outcome),
                             ![s].reason = QueueReason(work.outcome)]
  BY DEF FinishJob, Queue!Finish
<1>3. CASE r = s
  <2>1. /\ items'[r].state = QueueState(work.outcome)
        /\ items'[r].reason = QueueReason(work.outcome)
    BY <1>1, <1>2, <1>3 DEF Queue!Item
  <2>2. Outcome(items'[r]) = work.outcome
    BY <2>1 DEF Outcome, QueueState, QueueReason, Acquired
  <2>3. work \in imports' /\ r \in work.ids
    BY <1>3 DEF FinishJob, Recorded, libraryVars
  <2>4. QED
    BY <2>2, <2>3
<1>4. CASE r # s
  <2>1. items'[r] = items[r]
    BY <1>1, <1>2, <1>4
  <2>2. Committed(r, Outcome(items[r]))
    BY <2>1, EndedJobs
  <2>3. QED
    BY <2>1, <2>2, CommittedStays
<1>5. QED
  BY <1>3, <1>4

\* Every step says no outcome the library does not hold.
LEMMA CanonicalKeeps ==
  ASSUME Queue!TypeOK, LibraryOK, Position, Recorded, CanonicalFirst, [Next]_vars
  PROVE  CanonicalFirst'
<1>1. CASE (\E command \in Commands : Start(command)) \/ Crash \/ Environment \/ UNCHANGED vars
  BY <1>1, UnchangedEndsNone, NoneEndsKeeps
     DEF Start, Crash, Environment, Discover, Promote, Supersede, Curate, queueVars, vars
<1>2. ASSUME RebuildCurrent, UNCHANGED libraryVars
      PROVE  CanonicalFirst'
  BY <1>2, RebuildCommits
<1>3. ASSUME Queue!SyncMembership(Processable) \/ Queue!PruneMembership(Processable)
      PROVE  CanonicalFirst'
  <2>1. Processable \in SUBSET Resources
    BY DEF Processable
  <2>2. QED
    BY <1>3, <2>1, MembershipEndsNone, NoneEndsKeeps
<1>4. ASSUME Queue!Recover
      PROVE  CanonicalFirst'
  BY <1>4, RecoverEndsNone, NoneEndsKeeps
<1>5. CASE Run \/ Continue \/ ContinueAdopt \/ RebuildQueue
  BY <1>2, <1>3, <1>5 DEF Run, Continue, ContinueAdopt, RebuildQueue
<1>6. CASE \/ ContinueRecover \/ RecoverOnly \/ Drain
           \/ \E reason \in Queue!RetryReasons : RetryRecover(reason)
  BY <1>4, <1>6 DEF ContinueRecover, RecoverOnly, Drain, RetryRecover
<1>7. CASE ContinueOpen \/ RetryOpen
  <2>1. \/ Queue!StartNextGeneration
        \/ \E reason : Queue!StartRetryGeneration(reason)
        \/ UNCHANGED items
    BY <1>7 DEF ContinueOpen, RetryOpen, queueVars
  <2>2. QED
    BY <2>1, GenerationEndsNone, UnchangedEndsNone, NoneEndsKeeps
<1>8. CASE DeleteQueue
  <2>1. \A r \in Resources : items'[r].state = "absent"
    BY <1>8 DEF DeleteQueue, Queue!Delete, Queue!Absent, Queue!Job
  <2>2. QED
    BY <2>1, NoneEndsKeeps DEF NoneEnds, Ended, Queue!Terminal
<1>9. CASE \/ Reconcile \/ SettleRemainder \/ NothingQueued
           \/ Merge \/ MergeWritesOff \/ MergeFails
           \/ \E r \in Resources : FinishRefused(r)
           \/ \E floor \in 0 .. MaxWall : LoopTop(floor) \/ Exit(floor)
  <2>1. UNCHANGED items
    BY <1>9 DEF Reconcile, SettleRemainder, NothingQueued, Merge, MergeWritesOff, MergeFails,
       FinishRefused, LoopTop, Exit, Queue!ChargeRunWallFloor, queueVars
  <2>2. QED
    BY <2>1, UnchangedEndsNone, NoneEndsKeeps
<1>10. CASE Terminalize
  BY <1>10, TerminalizeCommits
<1>11. ASSUME NEW r \in Resources, ClaimExhausted(r) \/ Claim(r)
       PROVE  CanonicalFirst'
  BY <1>11, ClaimEndsNone, NoneEndsKeeps DEF ClaimExhausted, Claim
<1>12. ASSUME NEW r \in Resources, Fetch(r) \/ RequeueAfterSleep(r) \/ RequeueAndStop(r)
       PROVE  CanonicalFirst'
  <2>1. \/ Queue!Requeue(r) \/ UNCHANGED items
        \/ \E u : Queue!Consume(r, u) \/ Queue!ConsumeAndCloseGeneration(r, u)
    BY <1>12 DEF Fetch, FetchCloses, FetchCancelled, FetchBroken, FetchTransient, FetchEnds,
       Delay, TargetFails, RequeueAfterSleep, RequeueAndStop, queueVars
  <2>2. QED
    BY <2>1, SettleEndsNone, UnchangedEndsNone, NoneEndsKeeps
<1>13. ASSUME NEW r \in Resources, FinishJob(r)
       PROVE  CanonicalFirst'
  <2>1. CASE Finished(r)
    BY <1>13, <2>1, UnchangedEndsNone, NoneEndsKeeps DEF FinishJob, queueVars
  <2>2. QED
    BY <1>13, <2>1, FinishCommits
<1>14. QED
  BY <1>1, <1>5, <1>6, <1>7, <1>8, <1>9, <1>10, <1>11, <1>12, <1>13 DEF Next, Command, Work

-----------------------------------------------------------------------------
(* The theorems.                                                           *)

\* The pipeline's invariant holds at first.
LEMMA InitEstablishes ==
  ASSUME Init
  PROVE  PipelineInv
<1>1. Proved!QueueInv
  BY Profile, SameInit, Proved!InitEstablishes DEF Init
<1>2. LibraryOK
  BY DEF Init, LibraryOK, Reach, Outcomes, Steps, NoWork, Batch
<1>3. Position /\ FetchIsFunded
  BY DEF Init, Position, FetchIsFunded
<1>4. Recorded
  <2>1. {"missing", "not_attempted"} \cap Outcomes = {}
    BY DEF Outcomes, Acquired, Queue!BlockedReasons, Queue!RetryReasons
  <2>2. QED
    BY <2>1 DEF Init, Recorded
<1>5. CanonicalFirst
  <2>1. ASSUME NEW r \in Resources
        PROVE  ~Ended(items[r])
    BY DEF Init, Queue!Init, Queue!LegacyJob, Queue!Absent, Queue!Job, Ended, Outcome,
       Queue!Terminal
  <2>2. QED
    BY <2>1, EndedJobs
<1>6. QED
  BY <1>1, <1>2, <1>3, <1>4, <1>5 DEF PipelineInv

\* Every step preserves it.
LEMMA NextKeeps ==
  ASSUME PipelineInv, [Next]_vars
  PROVE  PipelineInv'
<1>1. /\ Queue!TypeOK /\ Queue!ClaimIsFunded
      /\ LibraryOK /\ Position /\ Recorded /\ FetchIsFunded /\ CanonicalFirst
  BY QueueFacts DEF PipelineInv
<1>2. Proved!QueueInv'
  BY QueueKeeps DEF PipelineInv
<1>3. LibraryOK' /\ Position' /\ Recorded'
  BY <1>1, LibraryKeeps, PositionKeeps, RecordedKeeps
<1>4. FetchIsFunded' /\ CanonicalFirst'
  BY <1>1, FundedKeeps, CanonicalKeeps
<1>5. QED
  BY <1>2, <1>3, <1>4 DEF PipelineInv

\* The invariant of the pipeline: the documents and the command counter are well
\* formed, and each step of a drain finds the job it is about in flight alone.
THEOREM PipelineInvariant == Spec => []PipelineInv
<1>1. Init => PipelineInv
  BY InitEstablishes
<1>2. PipelineInv /\ [Next]_vars => PipelineInv'
  BY NextKeeps
<1>3. QED
  BY <1>1, <1>2, PTL DEF Spec

\* Every module variable has its type (Store.Validate of the queue document, the
\* outcomes and relations of the library, the steps of a command).
THEOREM PipelineWellFormed == Spec => []TypeOK
<1>1. PipelineInv => TypeOK
  BY QueueFacts DEF PipelineInv, LibraryOK, TypeOK
<1>2. QED
  BY <1>1, PipelineInvariant, PTL

\* The pipeline implements the queue's specification: whatever command follows a
\* crash, the store is used one claim at a time and only by operations it allows,
\* so all that is proved of the queue alone holds of it under the pipeline.
THEOREM ContractKept == Spec => QueueContract
<1>1. Init => Queue!Init
  BY DEF Init
<1>2. PipelineInv /\ [Next]_vars => [Queue!Next]_Queue!queueVars
  BY StepIsQueueStep DEF PipelineInv, queueVars, Queue!queueVars
<1>3. QED
  BY <1>1, <1>2, PipelineInvariant, PTL DEF Spec, QueueContract, Queue!Spec

\* No command, crash or change of the library takes a generation over its caps, and
\* the reservation counter is what the jobs in flight hold.
THEOREM PipelineBudget == Spec => []PipelineWithinBudget
<1>1. PipelineInv => PipelineWithinBudget
  <2>1. ASSUME Proved!QueueInv
        PROVE  Proved!ReservationBalanced
    BY <2>1, Profile, Proved!Balanced
  <2>2. Proved!ReservationBalanced => Queue!ReservationBalanced
    BY DEF Queue!ReservationBalanced, Proved!ReservationBalanced, Queue!ReservedBy,
       Proved!ReservedBy, Queue!ReservedIn, Proved!ReservedIn
  <2>3. QED
    BY <2>1, <2>2, QueueFacts DEF PipelineInv, PipelineWithinBudget
<1>2. QED
  BY <1>1, PipelineInvariant, PTL

\* A request is only sent for a job that is durably in flight, counted, funded and
\* within the budget of an open generation (queueFetcher.Fetch never refuses it).
THEOREM FetchesAreFunded == Spec => []FetchIsFunded
<1>1. PipelineInv => FetchIsFunded
  BY DEF PipelineInv
<1>2. QED
  BY <1>1, PipelineInvariant, PTL

\* The queue says complete, partial or written off only where the canonical library
\* holds, or once merged, that outcome, however crashes fall between the two writes.
THEOREM LibraryLeads == Spec => []CanonicalFirst
<1>1. PipelineInv => CanonicalFirst
  BY DEF PipelineInv
<1>2. QED
  BY <1>1, PipelineInvariant, PTL

=============================================================================
