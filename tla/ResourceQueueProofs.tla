------------------------ MODULE ResourceQueueProofs ------------------------
(***************************************************************************)
(* Proofs about ResourceQueue for every profile and every set of           *)
(* resources: the document stays well formed and no generation's           *)
(* consumption passes a cap.                                               *)
(***************************************************************************)
EXTENDS ResourceQueue, TLAPS

-----------------------------------------------------------------------------
(* What a reservation adds up to.                                          *)

\* If at most r of S reserves anything, S reserves what r does.
LEMMA ReservedOne ==
  ASSUME NEW jobs, NEW S, NEW r \in S,
         \A s \in S : s # r => jobs[s].reserved = 0
  PROVE  ReservedIn(jobs, S) = jobs[r].reserved
<1>1. CASE jobs[r].reserved = 0
  BY <1>1 DEF ReservedIn
<1>2. CASE jobs[r].reserved # 0
  <2>1. \A s \in S : jobs[s].reserved # 0 => s = r
    OBVIOUS
  <2>2. (CHOOSE s \in S : jobs[s].reserved # 0) = r
    BY <1>2, <2>1
  <2>3. QED
    BY <1>2, <2>2 DEF ReservedIn
<1>3. QED
  BY <1>1, <1>2

\* A set of jobs of which none reserves anything.
LEMMA ReservedNone ==
  ASSUME NEW jobs, NEW S, \A s \in S : jobs[s].reserved = 0
  PROVE  ReservedIn(jobs, S) = 0
BY DEF ReservedIn

-----------------------------------------------------------------------------
(* The inductive invariant.  ReservationBalanced speaks of a sum; Held and *)
(* NoneHeld say the same job by job, which is what a step preserves.       *)

Held ==
  \A r \in Resources :
    items[r].state = "processing" => counters.reserved = items[r].reserved

NoneHeld ==
  (\A r \in Resources : items[r].state # "processing") => counters.reserved = 0

QueueInv ==
  /\ TypeOK
  /\ OneInFlight
  /\ Held
  /\ NoneHeld
  /\ WithinBudget
  /\ AttemptsBounded
  /\ ClaimIsFunded

\* What a set of jobs reserves, from the invariant: the reservation of the job in
\* flight if the set has it, and nothing otherwise.
LEMMA ReservedByInFlight ==
  ASSUME TypeOK, OneInFlight, NEW S \in SUBSET Resources,
         NEW r \in S, items[r].state = "processing"
  PROVE  ReservedBy(S) = items[r].reserved
<1>1. \A s \in S : s # r => items[s].reserved = 0
  BY DEF TypeOK, OneInFlight, InState
<1>2. QED
  BY <1>1, ReservedOne DEF ReservedBy

\* With none in flight the set reserves nothing.
LEMMA ReservedByIdle ==
  ASSUME TypeOK, NEW S \in SUBSET Resources,
         \A r \in S : items[r].state # "processing"
  PROVE  ReservedBy(S) = 0
<1>1. \A r \in S : items[r].reserved = 0
  BY DEF TypeOK
<1>2. QED
  BY <1>1, ReservedNone DEF ReservedBy

\* Both cases as one equation on the counter.
LEMMA ReservedShare ==
  ASSUME QueueInv, NEW S \in SUBSET Resources
  PROVE  ReservedBy(S) = IF \E r \in S : items[r].state = "processing"
                           THEN counters.reserved ELSE 0
<1>1. CASE \E r \in S : items[r].state = "processing"
  <2>1. PICK r \in S : items[r].state = "processing"
    BY <1>1
  <2>2. ReservedBy(S) = items[r].reserved
    BY <2>1, ReservedByInFlight DEF QueueInv
  <2>3. QED
    BY <2>1, <2>2 DEF QueueInv, Held
<1>2. CASE \A r \in S : items[r].state # "processing"
  BY <1>2, ReservedByIdle DEF QueueInv
<1>3. QED
  BY <1>1, <1>2

\* The job-by-job form implies the sum.
LEMMA Balanced ==
  ASSUME QueueInv
  PROVE  ReservationBalanced
<1>1. ReservedBy(Resources) = IF \E r \in Resources : items[r].state = "processing"
                                THEN counters.reserved ELSE 0
  BY ReservedShare
<1>2. QED
  BY <1>1 DEF QueueInv, NoneHeld, ReservationBalanced

-----------------------------------------------------------------------------
(* The operations that leave nothing in flight and start from no use.      *)

Idle(job) ==
  /\ job \in Item
  /\ job.state # "processing"
  /\ job.state # "blocked" <=> job.reason = "none"
  /\ job.state = "absent" => job = Absent
  /\ job.reserved = 0
  /\ job.attempts <= MaxAttempts

\* The jobs that operations make from nothing are idle.
LEMMA NewJobsAreIdle ==
  /\ Idle(Absent)
  /\ Idle(Job("queued", "none"))
  /\ Idle(LegacyJob)
  /\ \A job \in RebuildJob : Idle(job)
<1>1. Idle(Absent) /\ Idle(Job("queued", "none")) /\ Idle(LegacyJob)
  BY ProfileAssumption
  DEF Idle, Absent, Job, LegacyJob, Item, Terminal, BlockedReasons, RetryReasons
<1>2. ASSUME NEW job \in RebuildJob
      PROVE  Idle(job)
  <2>1. CASE job \in {Job("queued", "none"), Job("complete", "none"), Job("partial", "none")}
    BY <2>1, ProfileAssumption DEF Idle, Absent, Job, Item, Terminal
  <2>2. CASE job \in {Job("blocked", reason) : reason \in BlockedReasons}
    <3>1. PICK reason \in BlockedReasons : job = Job("blocked", reason)
      BY <2>2
    <3>2. reason # "none"
      BY DEF BlockedReasons, RetryReasons
    <3>3. QED
      BY <3>1, <3>2, ProfileAssumption DEF Idle, Absent, Job, Item, Terminal
  <2>3. QED
    BY <2>1, <2>2 DEF RebuildJob
<1>3. QED
  BY <1>1, <1>2

\* A job that is not in flight is idle.
LEMMA RestingJobsAreIdle ==
  ASSUME QueueInv, NEW r \in Resources, items[r].state # "processing"
  PROVE  Idle(items[r])
BY DEF QueueInv, TypeOK, AttemptsBounded, Idle

\* The document as an operation leaves it that starts from no use.
LEMMA StartFromNoUse ==
  ASSUME items' = [r \in Resources |-> items'[r]],
         \A r \in Resources : Idle(items'[r]),
         counters' = NoUse,
         generation' \in 0 .. MaxGeneration, kind' \in Kinds,
         closed' \in BOOLEAN, migrated' \in BOOLEAN
  PROVE  QueueInv'
<1>1. items' \in [Resources -> Item]
  BY DEF Idle
<1>2. counters' \in Counters
  BY DEF NoUse, Counters
<1>3. TypeOK'
  BY <1>1, <1>2 DEF TypeOK, Idle
<1>4. OneInFlight' /\ Held' /\ ClaimIsFunded'
  BY DEF OneInFlight, Held, ClaimIsFunded, InState, Idle
<1>5. NoneHeld' /\ WithinBudget'
  BY ProfileAssumption DEF NoneHeld, WithinBudget, NoUse
<1>6. AttemptsBounded'
  BY DEF AttemptsBounded, Idle
<1>7. QED
  BY <1>3, <1>4, <1>5, <1>6 DEF QueueInv

\* Opening a generation over idle jobs.
LEMMA OpenOverIdle ==
  ASSUME QueueInv, NEW k \in Kinds, OpenGeneration(k),
         items' = [r \in Resources |-> items'[r]],
         \A r \in Resources : Idle(items'[r])
  PROVE  QueueInv'
<1>1. generation' \in 0 .. MaxGeneration
  BY ProfileAssumption DEF QueueInv, TypeOK, OpenGeneration
<1>2. counters' = NoUse /\ kind' = k /\ closed' = FALSE /\ migrated' = TRUE
  BY DEF OpenGeneration
<1>3. kind' \in Kinds
  BY <1>2
<1>4. closed' \in BOOLEAN /\ migrated' \in BOOLEAN
  BY <1>2
<1>5. QED
  BY <1>1, <1>2, <1>3, <1>4, StartFromNoUse

\* Adopting new work into a generation of its own preserves the invariant.
LEMMA AdoptIntoNewGenerationKeeps ==
  ASSUME QueueInv, NEW ids \in SUBSET Resources, AdoptIntoNewGeneration(ids)
  PROVE  QueueInv'
<1>1. \A r \in ids : items[r].state # "processing"
  BY DEF AdoptIntoNewGeneration, HasActive
<1>2. ASSUME NEW r \in Resources
      PROVE  Idle(items'[r])
  <2>1. items'[r] \in {Absent, Job("queued", "none")} \/ (r \in ids /\ items'[r] = items[r])
    BY DEF AdoptIntoNewGeneration
  <2>2. QED
    BY <1>1, <2>1, NewJobsAreIdle, RestingJobsAreIdle
<1>3. items' = [r \in Resources |-> items'[r]]
  BY DEF AdoptIntoNewGeneration
<1>4. OpenGeneration("continuation") /\ "continuation" \in Kinds
  BY DEF AdoptIntoNewGeneration, Kinds
<1>5. QED
  BY <1>2, <1>3, <1>4, OpenOverIdle

\* Rebuilding the queue from the canonical library establishes the invariant.
LEMMA RebuildKeeps ==
  ASSUME QueueInv, NEW jobs \in [Resources -> RebuildJob \cup {Absent}], Rebuild(jobs)
  PROVE  QueueInv'
<1>1. \A r \in Resources : Idle(items'[r])
  BY NewJobsAreIdle DEF Rebuild
<1>2. items' = [r \in Resources |-> items'[r]]
  BY DEF Rebuild
<1>3. counters' = NoUse /\ generation' \in 0 .. MaxGeneration
  BY DEF Rebuild, QueueInv, TypeOK
<1>4. kind' \in Kinds
  BY DEF Rebuild, Kinds
<1>5. closed' \in BOOLEAN /\ migrated' \in BOOLEAN
  BY DEF Rebuild
<1>6. QED
  BY <1>1, <1>2, <1>3, <1>4, <1>5, StartFromNoUse

\* Deleting the queue establishes the invariant.
LEMMA DeleteKeeps ==
  ASSUME QueueInv, Delete
  PROVE  QueueInv'
<1>1. \A r \in Resources : Idle(items'[r])
  BY NewJobsAreIdle DEF Delete
<1>2. items' = [r \in Resources |-> items'[r]]
  BY DEF Delete
<1>3. counters' = NoUse
  BY DEF Delete
<1>4. generation' \in 0 .. MaxGeneration /\ kind' \in Kinds
  BY ProfileAssumption DEF Delete, Kinds
<1>5. closed' \in BOOLEAN /\ migrated' \in BOOLEAN
  BY DEF Delete
<1>6. QED
  BY <1>1, <1>2, <1>3, <1>4, <1>5, StartFromNoUse

\* A deferred job that is queued again with its attempts kept is still idle.
LEMMA StartNextKeeps ==
  ASSUME QueueInv, StartNextGeneration
  PROVE  QueueInv'
<1>1. \A r \in Resources : items[r].state # "processing"
  BY DEF StartNextGeneration, CanStartNextGeneration, InState
<1>2. \A r \in EligibleNext : items[r].state = "blocked"
  BY DEF EligibleNext, DeferredJob
<1>3. ASSUME NEW r \in Resources
      PROVE  Idle(items'[r])
  <2>1. Idle(items[r])
    BY <1>1, RestingJobsAreIdle
  <2>2. CASE r \in EligibleNext
    <3>1. items'[r] = [items[r] EXCEPT !.state = "queued", !.reason = "none", !.reserved = 0]
      BY <2>2 DEF StartNextGeneration
    <3>2. QED
      BY <2>1, <3>1 DEF Idle, Item, Absent, Job
  <2>3. CASE r \notin EligibleNext
    BY <2>1, <2>3 DEF StartNextGeneration
  <2>4. QED
    BY <2>2, <2>3
<1>4. items' = [r \in Resources |-> items'[r]]
  BY DEF StartNextGeneration
<1>5. OpenGeneration("continuation") /\ "continuation" \in Kinds
  BY DEF StartNextGeneration, Kinds
<1>6. QED
  BY <1>3, <1>4, <1>5, OpenOverIdle

\* A retry queues the blocked jobs of one reason as new.
LEMMA StartRetryKeeps ==
  ASSUME QueueInv, NEW reason \in RetryReasons, StartRetryGeneration(reason)
  PROVE  QueueInv'
<1>1. \A r \in Resources : items[r].state # "processing"
  BY DEF StartRetryGeneration, CanStartRetryGeneration, HasActive
<1>2. ASSUME NEW r \in Resources
      PROVE  Idle(items'[r])
  <2>1. items'[r] \in {items[r], Job("queued", "none")}
    BY DEF StartRetryGeneration
  <2>2. QED
    BY <1>1, <2>1, NewJobsAreIdle, RestingJobsAreIdle
<1>3. items' = [r \in Resources |-> items'[r]]
  BY DEF StartRetryGeneration
<1>4. OpenGeneration(reason) /\ reason \in Kinds
  BY DEF StartRetryGeneration, Kinds
<1>5. QED
  BY <1>2, <1>3, <1>4, OpenOverIdle

-----------------------------------------------------------------------------
(* The other operations preserve the invariant.                            *)

\* A resource that enters the queue holds nothing.
LEMMA EnqueueKeeps ==
  ASSUME QueueInv, NEW ids \in SUBSET Resources, Enqueue(ids)
  PROVE  QueueInv'
<1>1. TypeOK'
  BY ProfileAssumption
  DEF QueueInv, Enqueue, TypeOK, Item, Counters, Kinds, BlockedReasons,
      RetryReasons, Absent, Job
<1>2. OneInFlight' /\ Held' /\ NoneHeld'
  BY ProfileAssumption
  DEF QueueInv, OneInFlight, Held, NoneHeld, InState, Enqueue, TypeOK, Item,
      Counters, Kinds, BlockedReasons, RetryReasons, Absent, Job
<1>3. WithinBudget'
  BY ProfileAssumption
  DEF QueueInv, WithinBudget, Held, NoneHeld, Enqueue, TypeOK, Item, Counters,
      Kinds, BlockedReasons, RetryReasons, Absent, Job
<1>4. AttemptsBounded' /\ ClaimIsFunded'
  BY ProfileAssumption
  DEF QueueInv, AttemptsBounded, ClaimIsFunded, InState, Enqueue, TypeOK, Item,
      Counters, Kinds, BlockedReasons, RetryReasons, Absent, Job
<1>5. QED
  BY <1>1, <1>2, <1>3, <1>4 DEF QueueInv

\* A job that leaves the queue takes its reservation out of the counter.
LEMMA PruneMembershipKeeps ==
  ASSUME QueueInv, NEW ids \in SUBSET Resources, PruneMembership(ids)
  PROVE  QueueInv'
<1>a. ReservedBy(Resources \ ids) =
        IF \E r \in Resources \ ids : items[r].state = "processing"
          THEN counters.reserved ELSE 0
  BY ReservedShare
<1>1. TypeOK'
  <2>1. items' \in [Resources -> Item]
    BY <1>a, ProfileAssumption
    DEF QueueInv, PruneMembership, TypeOK, Item, Counters, Kinds, BlockedReasons,
        RetryReasons, Absent, Job
  <2>2. counters' \in Counters
    BY <1>a, ProfileAssumption
    DEF QueueInv, WithinBudget, Held, NoneHeld, PruneMembership, TypeOK, Item,
        Counters, Kinds, BlockedReasons, RetryReasons, Absent, Job
  <2>3. /\ generation' \in 0 .. MaxGeneration /\ kind' \in Kinds
        /\ closed' \in BOOLEAN /\ migrated' \in BOOLEAN
    BY <1>a, ProfileAssumption
    DEF QueueInv, PruneMembership, TypeOK, Item, Counters, Kinds, BlockedReasons,
        RetryReasons, Absent, Job
  <2>4. \A r \in Resources :
          /\ items'[r].state # "blocked" <=> items'[r].reason = "none"
          /\ items'[r].state # "processing" => items'[r].reserved = 0
          /\ items'[r].state = "absent" => items'[r] = Absent
    BY <1>a, ProfileAssumption
    DEF QueueInv, PruneMembership, TypeOK, Item, Counters, Kinds, BlockedReasons,
        RetryReasons, Absent, Job
  <2>5. QED
    BY <2>1, <2>2, <2>3, <2>4 DEF TypeOK
<1>2. OneInFlight' /\ Held' /\ NoneHeld'
  BY <1>a, ProfileAssumption
  DEF QueueInv, OneInFlight, Held, NoneHeld, InState, PruneMembership, TypeOK, Item,
      Counters, Kinds, BlockedReasons, RetryReasons, Absent, Job
<1>3. WithinBudget'
  BY <1>a, ProfileAssumption
  DEF QueueInv, WithinBudget, Held, NoneHeld, PruneMembership, TypeOK, Item,
      Counters, Kinds, BlockedReasons, RetryReasons, Absent, Job
<1>4. AttemptsBounded' /\ ClaimIsFunded'
  BY <1>a, ProfileAssumption
  DEF QueueInv, AttemptsBounded, ClaimIsFunded, InState, PruneMembership, TypeOK,
      Item, Counters, Kinds, BlockedReasons, RetryReasons, Absent, Job
<1>5. QED
  BY <1>1, <1>2, <1>3, <1>4 DEF QueueInv

\* So it does when other jobs join in the same write.
LEMMA AdoptMembershipKeeps ==
  ASSUME QueueInv, NEW ids \in SUBSET Resources, AdoptMembership(ids)
  PROVE  QueueInv'
<1>a. ReservedBy(Resources \ ids) =
        IF \E r \in Resources \ ids : items[r].state = "processing"
          THEN counters.reserved ELSE 0
  BY ReservedShare
<1>1. TypeOK'
  <2>1. items' \in [Resources -> Item]
    BY <1>a, ProfileAssumption
    DEF QueueInv, AdoptMembership, TypeOK, Item, Counters, Kinds, BlockedReasons,
        RetryReasons, Absent, Job
  <2>2. counters' \in Counters
    BY <1>a, ProfileAssumption
    DEF QueueInv, WithinBudget, Held, NoneHeld, AdoptMembership, TypeOK, Item,
        Counters, Kinds, BlockedReasons, RetryReasons, Absent, Job
  <2>3. /\ generation' \in 0 .. MaxGeneration /\ kind' \in Kinds
        /\ closed' \in BOOLEAN /\ migrated' \in BOOLEAN
    BY <1>a, ProfileAssumption
    DEF QueueInv, AdoptMembership, TypeOK, Item, Counters, Kinds, BlockedReasons,
        RetryReasons, Absent, Job
  <2>4. \A r \in Resources :
          /\ items'[r].state # "blocked" <=> items'[r].reason = "none"
          /\ items'[r].state # "processing" => items'[r].reserved = 0
          /\ items'[r].state = "absent" => items'[r] = Absent
    BY <1>a, ProfileAssumption
    DEF QueueInv, AdoptMembership, TypeOK, Item, Counters, Kinds, BlockedReasons,
        RetryReasons, Absent, Job
  <2>5. QED
    BY <2>1, <2>2, <2>3, <2>4 DEF TypeOK
<1>2. OneInFlight' /\ Held' /\ NoneHeld'
  BY <1>a, ProfileAssumption
  DEF QueueInv, OneInFlight, Held, NoneHeld, InState, AdoptMembership, TypeOK, Item,
      Counters, Kinds, BlockedReasons, RetryReasons, Absent, Job
<1>3. WithinBudget'
  BY <1>a, ProfileAssumption
  DEF QueueInv, WithinBudget, Held, NoneHeld, AdoptMembership, TypeOK, Item,
      Counters, Kinds, BlockedReasons, RetryReasons, Absent, Job
<1>4. AttemptsBounded' /\ ClaimIsFunded'
  BY <1>a, ProfileAssumption
  DEF QueueInv, AttemptsBounded, ClaimIsFunded, InState, AdoptMembership, TypeOK,
      Item, Counters, Kinds, BlockedReasons, RetryReasons, Absent, Job
<1>5. QED
  BY <1>1, <1>2, <1>3, <1>4 DEF QueueInv

\* A claim refused for its attempts changes no counter.
LEMMA ClaimExhaustedKeeps ==
  ASSUME QueueInv, NEW r \in Resources, ClaimExhausted(r)
  PROVE  QueueInv'
<1>1. TypeOK'
  BY ProfileAssumption
  DEF QueueInv, ClaimExhausted, BlockJob, IsNext, TypeOK, Item, Counters, Kinds,
      BlockedReasons, RetryReasons, Absent, Job
<1>2. OneInFlight' /\ Held' /\ NoneHeld'
  BY ProfileAssumption
  DEF QueueInv, OneInFlight, Held, NoneHeld, InState, ClaimExhausted, BlockJob,
      IsNext, TypeOK, Item, Counters, Kinds, BlockedReasons, RetryReasons, Absent,
      Job
<1>3. WithinBudget'
  BY ProfileAssumption
  DEF QueueInv, WithinBudget, Held, NoneHeld, ClaimExhausted, BlockJob, IsNext,
      TypeOK, Item, Counters, Kinds, BlockedReasons, RetryReasons, Absent, Job
<1>4. AttemptsBounded' /\ ClaimIsFunded'
  BY ProfileAssumption
  DEF QueueInv, AttemptsBounded, ClaimIsFunded, InState, ClaimExhausted, BlockJob,
      IsNext, TypeOK, Item, Counters, Kinds, BlockedReasons, RetryReasons, Absent,
      Job
<1>5. QED
  BY <1>1, <1>2, <1>3, <1>4 DEF QueueInv

\* Nor does a claim that the budget defers.
LEMMA ClaimDeferredKeeps ==
  ASSUME QueueInv, NEW r \in Resources, ClaimDeferred(r)
  PROVE  QueueInv'
<1>1. TypeOK'
  BY ProfileAssumption
  DEF QueueInv, ClaimDeferred, BlockJob, IsNext, TypeOK, Item, Counters, Kinds,
      BlockedReasons, RetryReasons, Absent, Job
<1>2. OneInFlight' /\ Held' /\ NoneHeld'
  BY ProfileAssumption
  DEF QueueInv, OneInFlight, Held, NoneHeld, InState, ClaimDeferred, BlockJob,
      IsNext, TypeOK, Item, Counters, Kinds, BlockedReasons, RetryReasons, Absent,
      Job
<1>3. WithinBudget'
  BY ProfileAssumption
  DEF QueueInv, WithinBudget, Held, NoneHeld, ClaimDeferred, BlockJob, IsNext,
      TypeOK, Item, Counters, Kinds, BlockedReasons, RetryReasons, Absent, Job
<1>4. AttemptsBounded' /\ ClaimIsFunded'
  BY ProfileAssumption
  DEF QueueInv, AttemptsBounded, ClaimIsFunded, InState, ClaimDeferred, BlockJob,
      IsNext, TypeOK, Item, Counters, Kinds, BlockedReasons, RetryReasons, Absent,
      Job
<1>5. QED
  BY <1>1, <1>2, <1>3, <1>4 DEF QueueInv

\* A claim reserves no more requests than the generation has left.
LEMMA ClaimKeeps ==
  ASSUME QueueInv, NEW r \in Resources, InState("processing") = {}, Claim(r)
  PROVE  QueueInv'
<1>1. TypeOK'
  BY ProfileAssumption
  DEF QueueInv, Claim, Claimable, Take, Reservation, IsNext, BudgetDefersItem,
      AggregateExhausted, Least, TypeOK,
      Item, Counters, Kinds, BlockedReasons, RetryReasons, Absent, Job
<1>2. OneInFlight' /\ Held' /\ NoneHeld'
  BY ProfileAssumption
  DEF QueueInv, OneInFlight, Held, NoneHeld, InState, Claim, Claimable, Take,
      Reservation, IsNext,
      BudgetDefersItem, AggregateExhausted, Least, TypeOK, Item, Counters, Kinds,
      BlockedReasons, RetryReasons, Absent, Job
<1>3. WithinBudget'
  BY ProfileAssumption
  DEF QueueInv, WithinBudget, Held, NoneHeld, Claim, Claimable, Take, Reservation,
      IsNext, BudgetDefersItem,
      AggregateExhausted, Least, TypeOK, Item, Counters, Kinds, BlockedReasons,
      RetryReasons, Absent, Job
<1>4. AttemptsBounded' /\ ClaimIsFunded'
  BY ProfileAssumption
  DEF QueueInv, AttemptsBounded, ClaimIsFunded, InState, Claim, Claimable, Take,
      Reservation, IsNext,
      BudgetDefersItem, AggregateExhausted, Least, TypeOK, Item, Counters, Kinds,
      BlockedReasons, RetryReasons, Absent, Job
<1>5. QED
  BY <1>1, <1>2, <1>3, <1>4 DEF QueueInv

\* Settling usage: the counters stay within the budget whatever the adapter reports,
\* and the reservation of the job in flight, the only one, is returned.
LEMMA SettledKeeps ==
  ASSUME QueueInv, NEW r \in Resources, NEW u \in Usage, items[r].state = "processing",
         NEW c, c = Settled(r, u)
  PROVE  /\ c \in Counters
         /\ c.reserved = 0
         /\ c.requests <= MaxRequests
         /\ c.bytes <= MaxBytes
         /\ c.wall <= MaxWall
         /\ c.processed <= MaxResources
<1>1. /\ counters \in Counters
      /\ counters.reserved = items[r].reserved
      /\ counters.requests + counters.reserved <= MaxRequests
      /\ counters.bytes <= MaxBytes
      /\ counters.wall <= MaxWall
      /\ counters.processed <= MaxResources
  BY DEF QueueInv, TypeOK, Held, WithinBudget
<1>2. u.requests \in Nat /\ u.bytes \in Nat /\ u.wall \in Nat
  BY ProfileAssumption DEF Usage
<1>c. counters \in Counters
  BY <1>1
<1>r. counters.reserved - items[r].reserved = 0
  BY <1>1 DEF Counters
<1>3. CASE Overdraws(r, u)
  <2>1. c = [counters EXCEPT !.reserved = 0, !.requests = MaxRequests]
    BY <1>3, <1>r DEF Settled
  <2>2. MaxRequests \in Nat
    BY ProfileAssumption
  <2>3. /\ c \in Counters
        /\ c.reserved = 0
        /\ c.requests = MaxRequests
        /\ c.bytes = counters.bytes
        /\ c.wall = counters.wall
        /\ c.processed = counters.processed
    <3>1. [counters EXCEPT !.reserved = 0, !.requests = MaxRequests] \in Counters
      BY <1>c, <2>2 DEF Counters
    <3>2. c \in Counters
      BY <3>1, <2>1
    <3>3. /\ c.reserved = 0
          /\ c.requests = MaxRequests
          /\ c.bytes = counters.bytes
          /\ c.wall = counters.wall
          /\ c.processed = counters.processed
      BY <1>c, <2>2, <2>1 DEF Counters
    <3>4. QED
      BY <3>2, <3>3
  <2>4. QED
    BY <1>1, <2>2, <2>3
<1>4. CASE ~Overdraws(r, u) /\ Crosses(u)
  <2>1. c =
          [counters EXCEPT !.reserved = 0,
                           !.requests = Least(MaxRequests, counters.requests + u.requests),
                           !.bytes = Least(MaxBytes, counters.bytes + u.bytes),
                           !.wall = Least(MaxWall, counters.wall + u.wall)]
    BY <1>4, <1>r DEF Settled
  <2>2. \A cap, n \in Nat : Least(cap, n) \in Nat /\ Least(cap, n) <= cap
    BY DEF Least
  <2>3. /\ MaxRequests \in Nat /\ MaxBytes \in Nat /\ MaxWall \in Nat
        /\ counters.requests + u.requests \in Nat
        /\ counters.bytes + u.bytes \in Nat
        /\ counters.wall + u.wall \in Nat
    BY <1>1, <1>2, ProfileAssumption DEF Counters
  <2>4. /\ Least(MaxRequests, counters.requests + u.requests) \in Nat
        /\ Least(MaxRequests, counters.requests + u.requests) <= MaxRequests
        /\ Least(MaxBytes, counters.bytes + u.bytes) \in Nat
        /\ Least(MaxBytes, counters.bytes + u.bytes) <= MaxBytes
        /\ Least(MaxWall, counters.wall + u.wall) \in Nat
        /\ Least(MaxWall, counters.wall + u.wall) <= MaxWall
    BY <2>2, <2>3
  <2>5. /\ c \in Counters
        /\ c.reserved = 0
        /\ c.requests = Least(MaxRequests, counters.requests + u.requests)
        /\ c.bytes = Least(MaxBytes, counters.bytes + u.bytes)
        /\ c.wall = Least(MaxWall, counters.wall + u.wall)
        /\ c.processed = counters.processed
    <3>1. [counters EXCEPT !.reserved = 0, !.requests = Least(MaxRequests, counters.requests + u.requests),
                           !.bytes = Least(MaxBytes, counters.bytes + u.bytes), !.wall = Least(MaxWall, counters.wall + u.wall)] \in Counters
      BY <1>c, <2>4 DEF Counters
    <3>2. c \in Counters
      BY <3>1, <2>1
    <3>3. /\ c.reserved = 0
          /\ c.requests = Least(MaxRequests, counters.requests + u.requests)
          /\ c.bytes = Least(MaxBytes, counters.bytes + u.bytes)
          /\ c.wall = Least(MaxWall, counters.wall + u.wall)
          /\ c.processed = counters.processed
      BY <1>c, <2>4, <2>1 DEF Counters
    <3>4. QED
      BY <3>2, <3>3
  <2>6. QED
    BY <1>1, <2>4, <2>5
<1>5. CASE ~Overdraws(r, u) /\ ~Crosses(u)
  <2>1. u.requests <= items[r].reserved
    BY <1>1, <1>2, <1>5 DEF Overdraws, Counters
  <2>2. c =
          [counters EXCEPT !.reserved = 0,
                           !.requests = counters.requests + u.requests,
                           !.bytes = Least(MaxBytes, counters.bytes + u.bytes),
                           !.wall = Least(MaxWall, counters.wall + u.wall)]
    BY <1>5, <1>r DEF Settled
  <2>3. /\ Least(MaxBytes, counters.bytes + u.bytes) = counters.bytes + u.bytes
        /\ Least(MaxWall, counters.wall + u.wall) = counters.wall + u.wall
        /\ counters.bytes + u.bytes <= MaxBytes
        /\ counters.wall + u.wall <= MaxWall
    BY <1>1, <1>2, <1>5, ProfileAssumption DEF Crosses, Counters, Least
  <2>4. /\ counters.requests + u.requests \in Nat
        /\ counters.bytes + u.bytes \in Nat
        /\ counters.wall + u.wall \in Nat
        /\ counters.requests + u.requests <= MaxRequests
    BY <1>1, <1>2, <2>1, ProfileAssumption DEF Counters
  <2>c. c = [counters EXCEPT !.reserved = 0,
                             !.requests = counters.requests + u.requests,
                             !.bytes = counters.bytes + u.bytes,
                             !.wall = counters.wall + u.wall]
    BY <2>2, <2>3
  <2>5. /\ c \in Counters
        /\ c.reserved = 0
        /\ c.requests = counters.requests + u.requests
        /\ c.bytes = counters.bytes + u.bytes
        /\ c.wall = counters.wall + u.wall
        /\ c.processed = counters.processed
    <3>1. [counters EXCEPT !.reserved = 0, !.requests = counters.requests + u.requests,
                           !.bytes = counters.bytes + u.bytes, !.wall = counters.wall + u.wall] \in Counters
      BY <1>c, <2>4 DEF Counters
    <3>2. c \in Counters
      BY <3>1, <2>c
    <3>3. /\ c.reserved = 0
          /\ c.requests = counters.requests + u.requests
          /\ c.bytes = counters.bytes + u.bytes
          /\ c.wall = counters.wall + u.wall
          /\ c.processed = counters.processed
      BY <1>c, <2>4, <2>c DEF Counters
    <3>4. QED
      BY <3>2, <3>3
  <2>6. QED
    BY <1>1, <2>3, <2>4, <2>5
<1>6. QED
  BY <1>3, <1>4, <1>5

\* Settling a fetch preserves the invariant.
LEMMA ConsumeKeeps ==
  ASSUME QueueInv, NEW r \in Resources, NEW u \in Usage, Consume(r, u)
  PROVE  QueueInv'
<1>0. items[r].state = "processing"
  BY DEF Consume
<1>1. /\ counters' \in Counters
      /\ counters'.reserved = 0
      /\ WithinBudget'
  <2>1. counters' = Settled(r, u)
    BY DEF Consume
  <2>2. /\ counters' \in Counters
        /\ counters'.reserved = 0
        /\ counters'.requests <= MaxRequests
        /\ counters'.bytes <= MaxBytes
        /\ counters'.wall <= MaxWall
        /\ counters'.processed <= MaxResources
    BY <1>0, <2>1, SettledKeeps
  <2>3. QED
    BY <2>2 DEF WithinBudget, Counters
<1>2. /\ items' = [items EXCEPT ![r].reserved = 0]
      /\ items' \in [Resources -> Item]
  BY <1>0 DEF Consume, QueueInv, TypeOK, Item
<1>3. TypeOK'
  BY <1>0, <1>1, <1>2 DEF Consume, QueueInv, TypeOK, Item, Absent, Job
<1>4. OneInFlight' /\ Held' /\ NoneHeld'
  BY <1>0, <1>1, <1>2 DEF QueueInv, TypeOK, OneInFlight, Held, NoneHeld, InState, Item
<1>5. AttemptsBounded' /\ ClaimIsFunded'
  BY <1>0, <1>2, ProfileAssumption
  DEF QueueInv, TypeOK, AttemptsBounded, ClaimIsFunded, InState, Item
<1>6. QED
  BY <1>1, <1>3, <1>4, <1>5 DEF QueueInv

\* So does settling it in the write that closes the generation.
LEMMA ConsumeAndCloseKeeps ==
  ASSUME QueueInv, NEW r \in Resources, NEW u \in Usage, ConsumeAndCloseGeneration(r, u)
  PROVE  QueueInv'
<1>0. items[r].state = "processing"
  BY DEF ConsumeAndCloseGeneration
<1>1. /\ counters' \in Counters
      /\ counters'.reserved = 0
      /\ WithinBudget'
  <2>1. counters' = Settled(r, u)
    BY DEF ConsumeAndCloseGeneration
  <2>2. /\ counters' \in Counters
        /\ counters'.reserved = 0
        /\ counters'.requests <= MaxRequests
        /\ counters'.bytes <= MaxBytes
        /\ counters'.wall <= MaxWall
        /\ counters'.processed <= MaxResources
    BY <1>0, <2>1, SettledKeeps
  <2>3. QED
    BY <2>2 DEF WithinBudget, Counters
<1>2. /\ items' = [items EXCEPT ![r].reserved = 0, ![r].state = "queued"]
      /\ items' \in [Resources -> Item]
  BY <1>0 DEF ConsumeAndCloseGeneration, QueueInv, TypeOK, Item
<1>3. TypeOK'
  BY <1>0, <1>1, <1>2 DEF ConsumeAndCloseGeneration, QueueInv, TypeOK, Item, Absent, Job
<1>4. OneInFlight' /\ Held' /\ NoneHeld'
  BY <1>0, <1>1, <1>2 DEF QueueInv, TypeOK, OneInFlight, Held, NoneHeld, InState, Item
<1>5. AttemptsBounded' /\ ClaimIsFunded'
  BY <1>0, <1>2, ProfileAssumption
  DEF QueueInv, TypeOK, AttemptsBounded, ClaimIsFunded, InState, Item
<1>6. QED
  BY <1>1, <1>3, <1>4, <1>5 DEF QueueInv

\* The wall floor is capped where it is charged.
LEMMA ChargeWallKeeps ==
  ASSUME QueueInv, NEW floor \in 0 .. MaxWall + 1, ChargeRunWallFloor(floor)
  PROVE  QueueInv'
<1>1. TypeOK'
  BY ProfileAssumption
  DEF QueueInv, ChargeRunWallFloor, Least, TypeOK, Item, Counters, Kinds,
      BlockedReasons, RetryReasons, Absent, Job
<1>2. OneInFlight' /\ Held' /\ NoneHeld'
  BY ProfileAssumption
  DEF QueueInv, OneInFlight, Held, NoneHeld, InState, ChargeRunWallFloor, Least,
      TypeOK, Item, Counters, Kinds, BlockedReasons, RetryReasons, Absent, Job
<1>3. WithinBudget'
  BY ProfileAssumption
  DEF QueueInv, WithinBudget, Held, NoneHeld, ChargeRunWallFloor, Least, TypeOK,
      Item, Counters, Kinds, BlockedReasons, RetryReasons, Absent, Job
<1>4. AttemptsBounded' /\ ClaimIsFunded'
  BY ProfileAssumption
  DEF QueueInv, AttemptsBounded, ClaimIsFunded, InState, ChargeRunWallFloor, Least,
      TypeOK, Item, Counters, Kinds, BlockedReasons, RetryReasons, Absent, Job
<1>5. QED
  BY <1>1, <1>2, <1>3, <1>4 DEF QueueInv

\* A job in flight, requeued.
LEMMA RequeuedIsIdle ==
  ASSUME NEW job \in Item, job.reason = "none", job.attempts <= MaxAttempts,
         NEW k, k = [job EXCEPT !.state = "queued", !.reserved = 0]
  PROVE  Idle(k)
<1>1. k \in Item
  BY DEF Item
<1>2. QED
  BY <1>1 DEF Idle, Item

\* Recovery requeues what was in flight and returns what it had reserved.
LEMMA RecoverKeeps ==
  ASSUME QueueInv, Recover
  PROVE  QueueInv'
<1>1. ReservedBy(InState("processing")) = counters.reserved
  <2>1. InState("processing") \in SUBSET Resources
    BY DEF InState
  <2>2. ReservedBy(InState("processing")) =
          IF \E r \in InState("processing") : items[r].state = "processing"
            THEN counters.reserved ELSE 0
    BY <2>1, ReservedShare
  <2>3. QED
    BY <2>2 DEF InState, QueueInv, NoneHeld
<1>2. counters \in Counters
  BY DEF QueueInv, TypeOK
<1>3. counters' = [counters EXCEPT !.reserved = 0]
  <2>1. counters.reserved - counters.reserved = 0
    BY <1>2 DEF Counters
  <2>2. counters' = [counters EXCEPT !.reserved = counters.reserved - counters.reserved]
    BY <1>1 DEF Recover
  <2>3. QED
    BY <2>1, <2>2
<1>4. ASSUME NEW r \in Resources
      PROVE  Idle(items'[r])
  <2>1. CASE items[r].state = "processing"
    <3>1. items'[r] = [items[r] EXCEPT !.state = "queued", !.reserved = 0]
      BY <2>1 DEF Recover
    <3>2. /\ items[r] \in Item
          /\ items[r].reason = "none"
          /\ items[r].attempts <= MaxAttempts
      BY <2>1 DEF QueueInv, TypeOK, AttemptsBounded
    <3>3. QED
      BY <3>1, <3>2, RequeuedIsIdle
  <2>2. CASE items[r].state # "processing"
    BY <2>2, RestingJobsAreIdle DEF Recover
  <2>3. QED
    BY <2>1, <2>2
<1>5. items' = [r \in Resources |-> items'[r]]
  BY DEF Recover
<1>6. TypeOK'
  <2>1. items' \in [Resources -> Item]
    BY <1>4, <1>5 DEF Idle
  <2>2. counters' \in Counters
    BY <1>2, <1>3 DEF Counters
  <2>3. QED
    BY <1>4, <2>1, <2>2 DEF Recover, QueueInv, TypeOK, Idle
<1>7. OneInFlight' /\ Held' /\ ClaimIsFunded'
  BY <1>4 DEF OneInFlight, Held, ClaimIsFunded, InState, Idle
<1>8. NoneHeld' /\ WithinBudget'
  <2>1. /\ counters'.reserved = 0
        /\ counters'.requests = counters.requests
        /\ counters'.bytes = counters.bytes
        /\ counters'.wall = counters.wall
        /\ counters'.processed = counters.processed
    BY <1>2, <1>3 DEF Counters
  <2>2. WithinBudget /\ counters.requests <= counters.requests + counters.reserved
    BY <1>2 DEF QueueInv, Counters
  <2>3. QED
    BY <1>2, <2>1, <2>2, ProfileAssumption DEF NoneHeld, WithinBudget, Counters
<1>9. AttemptsBounded'
  BY <1>4 DEF AttemptsBounded, Idle
<1>10. QED
  BY <1>6, <1>7, <1>8, <1>9 DEF QueueInv

\* Requeueing one job returns what that job had reserved.
LEMMA RequeueKeeps ==
  ASSUME QueueInv, NEW r \in Resources, Requeue(r)
  PROVE  QueueInv'
<1>1. TypeOK'
  <2>1. items' \in [Resources -> Item]
    <3>1. PICK i : i = items[r]
      OBVIOUS
    <3>2. i \in Item /\ items \in [Resources -> Item]
      BY <3>1 DEF QueueInv, TypeOK
    <3>3. [i EXCEPT !.state = "queued", !.reserved = 0] \in Item
      BY <3>2 DEF Item
    <3>4. items' = [items EXCEPT ![r] = [i EXCEPT !.state = "queued", !.reserved = 0]]
      BY <3>1, <3>2 DEF Requeue
    <3> QED BY <3>2, <3>3, <3>4
  <2>2. counters' \in Counters
    BY ProfileAssumption
    DEF QueueInv, WithinBudget, Held, NoneHeld, Requeue, TypeOK, Item, Counters,
        Kinds, BlockedReasons, RetryReasons, Absent, Job
  <2>3. /\ generation' \in 0 .. MaxGeneration /\ kind' \in Kinds
        /\ closed' \in BOOLEAN /\ migrated' \in BOOLEAN
    BY ProfileAssumption
    DEF QueueInv, Requeue, TypeOK, Item, Counters, Kinds, BlockedReasons,
        RetryReasons, Absent, Job
  <2>4. \A q \in Resources :
          /\ items'[q].state # "blocked" <=> items'[q].reason = "none"
          /\ items'[q].state # "processing" => items'[q].reserved = 0
          /\ items'[q].state = "absent" => items'[q] = Absent
    BY ProfileAssumption
    DEF QueueInv, Requeue, TypeOK, Item, Counters, Kinds, BlockedReasons,
        RetryReasons, Absent, Job
  <2>5. QED
    BY <2>1, <2>2, <2>3, <2>4 DEF TypeOK
<1>2. OneInFlight' /\ Held' /\ NoneHeld'
  BY ProfileAssumption
  DEF QueueInv, OneInFlight, Held, NoneHeld, InState, Requeue, TypeOK, Item,
      Counters, Kinds, BlockedReasons, RetryReasons, Absent, Job
<1>3. WithinBudget'
  BY ProfileAssumption
  DEF QueueInv, WithinBudget, Held, NoneHeld, Requeue, TypeOK, Item, Counters,
      Kinds, BlockedReasons, RetryReasons, Absent, Job
<1>4. AttemptsBounded' /\ ClaimIsFunded'
  BY ProfileAssumption
  DEF QueueInv, AttemptsBounded, ClaimIsFunded, InState, Requeue, TypeOK, Item,
      Counters, Kinds, BlockedReasons, RetryReasons, Absent, Job
<1>5. QED
  BY <1>1, <1>2, <1>3, <1>4 DEF QueueInv

\* A job finishes only when its usage is settled, so nothing stays reserved.
LEMMA FinishKeeps ==
  ASSUME QueueInv, NEW r \in Resources, NEW state \in Terminal,
         NEW reason \in BlockedReasons \cup {"none"},
         state = "blocked" <=> reason # "none", Finish(r, state, reason)
  PROVE  QueueInv'
<1>1. /\ items[r] \in Item
      /\ items[r].state = "processing" /\ items[r].reserved = 0
      /\ counters.reserved = 0
  BY DEF Finish, CanFinish, QueueInv, TypeOK, Held
<1>2. /\ items' = [items EXCEPT ![r] = items'[r]]
      /\ items'[r] = [items[r] EXCEPT !.state = state, !.reason = reason]
  BY DEF Finish, QueueInv, TypeOK
<1>3. Idle(items'[r])
  <2>1. state \in {"complete", "partial", "blocked"}
    BY DEF Terminal
  <2>2. items[r].attempts <= MaxAttempts
    BY DEF QueueInv, AttemptsBounded
  <2>3. items'[r] \in Item
    BY <1>1, <1>2 DEF Item
  <2>4. QED
    BY <1>1, <1>2, <2>1, <2>2, <2>3 DEF Idle, Item
<1>4. TypeOK'
  BY <1>2, <1>3 DEF Finish, QueueInv, TypeOK, Idle
<1>5. OneInFlight' /\ Held' /\ NoneHeld' /\ ClaimIsFunded'
  BY <1>1, <1>2, <1>3 DEF Finish, QueueInv, TypeOK, OneInFlight, Held, NoneHeld,
     ClaimIsFunded, InState, Idle
<1>6. WithinBudget' /\ AttemptsBounded'
  BY <1>2, <1>3 DEF Finish, QueueInv, TypeOK, WithinBudget, AttemptsBounded, Idle
<1>7. QED
  BY <1>4, <1>5, <1>6 DEF QueueInv

\* Settling the remainder of a spent generation touches queued jobs only.
LEMMA TerminalizeKeeps ==
  ASSUME QueueInv, NEW ids \in SUBSET Resources, TerminalizeBudgetRemainder(ids)
  PROVE  QueueInv'
<1>1. ASSUME NEW r \in Resources
      PROVE  \/ items'[r] = items[r]
             \/ items[r].state = "queued" /\ Idle(items'[r])
  <2>1. CASE r \in ids
    <3>1. /\ items[r].state = "queued"
          /\ items'[r] = [items[r] EXCEPT !.state = "blocked", !.reason = "run_budget_deferred"]
      BY <2>1 DEF TerminalizeBudgetRemainder
    <3>2. Idle(items[r])
      BY <3>1, RestingJobsAreIdle
    <3>3. items'[r] \in Item
      BY <3>1, <3>2 DEF Idle, Item, Terminal, BlockedReasons
    <3>4. QED
      BY <3>1, <3>2, <3>3 DEF Idle, Item
  <2>2. CASE r \notin ids
    BY <2>2 DEF TerminalizeBudgetRemainder
  <2>3. QED
    BY <2>1, <2>2
<1>2. items' = [r \in Resources |-> items'[r]]
  BY DEF TerminalizeBudgetRemainder
<1>3. UNCHANGED <<counters, generation, kind, closed, migrated>>
  BY DEF TerminalizeBudgetRemainder
<1>4. TypeOK'
  <2>1. items' \in [Resources -> Item]
    BY <1>1, <1>2 DEF QueueInv, TypeOK, Idle
  <2>2. QED
    BY <1>1, <1>3, <2>1 DEF QueueInv, TypeOK, Idle
<1>5. OneInFlight' /\ Held' /\ ClaimIsFunded'
  BY <1>1, <1>3 DEF QueueInv, OneInFlight, Held, ClaimIsFunded, InState, Idle
<1>6. NoneHeld'
  BY <1>1, <1>3 DEF QueueInv, NoneHeld, Idle
<1>7. WithinBudget' /\ AttemptsBounded'
  BY <1>1, <1>3 DEF QueueInv, WithinBudget, AttemptsBounded, Idle
<1>8. QED
  BY <1>4, <1>5, <1>6, <1>7 DEF QueueInv

-----------------------------------------------------------------------------
(* The specification.                                                      *)

\* The invariant holds of the queue a store finds first.
LEMMA InitEstablishes ==
  ASSUME Init
  PROVE  QueueInv
<1>1. \A r \in Resources : Idle(items[r])
  BY NewJobsAreIdle DEF Init
<1>2. items \in [Resources -> Item]
  BY <1>1 DEF Init, Idle
<1>3. counters = NoUse /\ counters \in Counters
  BY DEF Init, NoUse, Counters
<1>4. generation \in 0 .. MaxGeneration /\ kind \in Kinds
  BY ProfileAssumption DEF Init, Kinds
<1>5. closed \in BOOLEAN /\ migrated \in BOOLEAN
  BY DEF Init
<1>6. TypeOK
  BY <1>1, <1>2, <1>3, <1>4, <1>5 DEF TypeOK, Idle
<1>7. OneInFlight /\ Held /\ ClaimIsFunded /\ AttemptsBounded
  BY <1>1 DEF OneInFlight, Held, ClaimIsFunded, AttemptsBounded, InState, Idle
<1>8. NoneHeld /\ WithinBudget
  BY <1>3, ProfileAssumption DEF NoneHeld, WithinBudget, NoUse
<1>9. QED
  BY <1>6, <1>7, <1>8 DEF QueueInv

\* Every step preserves it.
LEMMA NextKeeps ==
  ASSUME QueueInv, [Next]_queueVars
  PROVE  QueueInv'
<1>1. CASE ClaimNext
  BY <1>1, ClaimExhaustedKeeps, ClaimDeferredKeeps, ClaimKeeps DEF ClaimNext
<1>2. ASSUME NEW r \in Resources, Work(r)
      PROVE  QueueInv'
  <2>1. ASSUME NEW u \in Usage, Consume(r, u) \/ ConsumeAndCloseGeneration(r, u)
        PROVE  QueueInv'
    BY <2>1, ConsumeKeeps, ConsumeAndCloseKeeps
  <2>2. CASE Requeue(r)
    BY <2>2, RequeueKeeps
  <2>3. ASSUME NEW state \in {"complete", "partial"}, Finish(r, state, "none")
        PROVE  QueueInv'
    <3>1. state \in Terminal /\ state # "blocked"
      BY DEF Terminal
    <3>2. QED
      BY <2>3, <3>1, FinishKeeps
  <2>4. ASSUME NEW reason \in BlockedReasons, Finish(r, "blocked", reason)
        PROVE  QueueInv'
    <3>1. "blocked" \in Terminal /\ reason # "none"
      BY DEF Terminal, BlockedReasons, RetryReasons
    <3>2. QED
      BY <2>4, <3>1, FinishKeeps
  <2>5. QED
    BY <1>2, <2>1, <2>2, <2>3, <2>4 DEF Work
<1>3. CASE Membership
  BY <1>3, EnqueueKeeps, AdoptMembershipKeeps, AdoptIntoNewGenerationKeeps,
     PruneMembershipKeeps DEF Membership, SyncMembership
<1>4. CASE Settle
  BY <1>4, TerminalizeKeeps DEF Settle
<1>5. CASE \E jobs \in [Resources -> RebuildJob \cup {Absent}] : Rebuild(jobs)
  BY <1>5, RebuildKeeps
<1>6. CASE Delete
  BY <1>6, DeleteKeeps
<1>7. CASE Recover
  BY <1>7, RecoverKeeps
<1>8. CASE StartNextGeneration
  BY <1>8, StartNextKeeps
<1>9. CASE \E reason \in RetryReasons : StartRetryGeneration(reason)
  BY <1>9, StartRetryKeeps
<1>10. CASE \E floor \in 0 .. MaxWall + 1 : ChargeRunWallFloor(floor)
  BY <1>10, ChargeWallKeeps
<1>11. CASE UNCHANGED queueVars
  BY <1>11 DEF queueVars, QueueInv, TypeOK, OneInFlight, Held, NoneHeld,
     WithinBudget, AttemptsBounded, ClaimIsFunded, InState
<1>12. QED
  BY <1>1, <1>2, <1>3, <1>4, <1>5, <1>6, <1>7, <1>8, <1>9, <1>10, <1>11 DEF Next

\* The inductive invariant holds of every reachable document.
THEOREM QueueInvariant == Spec => []QueueInv
<1>1. Init => QueueInv
  BY InitEstablishes
<1>2. QueueInv /\ [Next]_queueVars => QueueInv'
  BY NextKeeps
<1>3. QED
  BY <1>1, <1>2, PTL DEF Spec

\* The document a store persists always passes its own validation, with at most one
\* job in flight.
THEOREM WellFormed == Spec => [](TypeOK /\ OneInFlight)
<1>1. QueueInv => TypeOK /\ OneInFlight
  BY DEF QueueInv
<1>2. QED
  BY <1>1, QueueInvariant, PTL

\* No generation passes a cap of its profile, and the reservation counter is what
\* the jobs in flight hold, for every profile and every set of resources.
THEOREM Accounting == Spec => [](WithinBudget /\ ReservationBalanced)
<1>1. QueueInv => WithinBudget /\ ReservationBalanced
  BY Balanced DEF QueueInv
<1>2. QED
  BY <1>1, QueueInvariant, PTL

\* No resource is claimed more often than the profile allows, and what is in flight
\* was counted and is funded.
THEOREM Claims == Spec => [](AttemptsBounded /\ ClaimIsFunded)
<1>1. QueueInv => AttemptsBounded /\ ClaimIsFunded
  BY DEF QueueInv
<1>2. QED
  BY <1>1, QueueInvariant, PTL

-----------------------------------------------------------------------------
(* What a step may never do.                                               *)

Grows ==
  /\ counters'.requests >= counters.requests
  /\ counters'.bytes >= counters.bytes
  /\ counters'.wall >= counters.wall
  /\ counters'.processed >= counters.processed

\* The usage of one fetch is added up to the caps and never taken from.
LEMMA SettledGrows ==
  ASSUME QueueInv, NEW r \in Resources, NEW u \in Usage, counters' = Settled(r, u)
  PROVE  Grows
<1>1. /\ counters \in Counters /\ counters.requests <= MaxRequests
      /\ counters.bytes <= MaxBytes /\ counters.wall <= MaxWall
  BY ProfileAssumption DEF QueueInv, TypeOK, WithinBudget, Counters
<1>2. /\ u.requests \in Nat /\ u.bytes \in Nat /\ u.wall \in Nat
  BY ProfileAssumption DEF Usage
<1>3. CASE Overdraws(r, u)
  BY <1>1, <1>3, ProfileAssumption DEF Settled, Grows, Counters
<1>4. CASE ~Overdraws(r, u)
  BY <1>1, <1>2, <1>4, ProfileAssumption DEF Settled, Grows, Counters, Least
<1>5. QED
  BY <1>3, <1>4

\* Only a new generation, a rebuild and a deletion start the counters again.
LEMMA StepKeepsUsage ==
  ASSUME QueueInv, Next
  PROVE  Grows \/ generation' = generation + 1 \/ Forgets
<1>1. counters \in Counters /\ items \in [Resources -> Item]
  BY DEF QueueInv, TypeOK
<1>2. CASE ClaimNext
  <2>1. PICK r \in Resources : ClaimExhausted(r) \/ ClaimDeferred(r) \/ Claim(r)
    BY <1>2 DEF ClaimNext
  <2>2. CASE ClaimExhausted(r) \/ ClaimDeferred(r)
    <3>1. UNCHANGED counters
      BY <2>2 DEF ClaimExhausted, ClaimDeferred
    <3>2. QED
      BY <1>1, <3>1 DEF Counters, Grows
  <2>3. CASE Claim(r)
    <3>1. counters' = [counters EXCEPT
                         !.processed = IF items[r].attempts = 0 THEN @ + 1 ELSE @,
                         !.attempts = @ + 1,
                         !.reserved = @ + Reservation]
      BY <2>3 DEF Claim, Take
    <3>2. QED
      BY <1>1, <3>1 DEF Counters, Grows
  <2>4. QED
    BY <2>1, <2>2, <2>3
<1>3. ASSUME NEW r \in Resources, Work(r)
      PROVE  Grows
  <2>1. ASSUME NEW u \in Usage, Consume(r, u) \/ ConsumeAndCloseGeneration(r, u)
        PROVE  Grows
    BY <2>1, SettledGrows DEF Consume, ConsumeAndCloseGeneration
  <2>2. CASE Requeue(r)
    BY <1>1, <2>2 DEF Requeue, Counters, Grows
  <2>3. ASSUME NEW state, NEW reason, Finish(r, state, reason)
        PROVE  Grows
    BY <1>1, <2>3 DEF Finish, Counters, Grows
  <2>4. QED
    BY <1>3, <2>1, <2>2, <2>3 DEF Work
<1>4. ASSUME NEW ids \in SUBSET Resources,
             Enqueue(ids) \/ SyncMembership(ids) \/ PruneMembership(ids)
      PROVE  Grows \/ generation' = generation + 1
  BY <1>1, <1>4 DEF Enqueue, SyncMembership, AdoptMembership,
     AdoptIntoNewGeneration, OpenGeneration, PruneMembership, Counters, Grows
<1>5. CASE Settle
  <2>1. UNCHANGED counters
    BY <1>5 DEF Settle, TerminalizeBudgetRemainder
  <2>2. QED
    BY <1>1, <2>1 DEF Counters, Grows
<1>6. ASSUME NEW jobs \in [Resources -> RebuildJob \cup {Absent}], Rebuild(jobs)
      PROVE  Forgets
  BY <1>6 DEF Rebuild, RebuildJob, Absent, Job, Forgets
<1>7. CASE Delete
  BY <1>7 DEF Delete, Absent, Job, Forgets
<1>8. CASE Recover
  <2>1. counters' = [counters EXCEPT
                       !.reserved = @ - ReservedBy(InState("processing"))]
    BY <1>8 DEF Recover
  <2>2. QED
    BY <1>1, <2>1 DEF Counters, Grows
<1>9. CASE StartNextGeneration
  <2>1. OpenGeneration("continuation")
    BY <1>9 DEF StartNextGeneration
  <2>2. QED
    BY <2>1 DEF OpenGeneration
<1>10. ASSUME NEW reason \in RetryReasons, StartRetryGeneration(reason)
       PROVE  generation' = generation + 1
  BY <1>10 DEF StartRetryGeneration, OpenGeneration
<1>11. ASSUME NEW floor \in 0 .. MaxWall + 1, ChargeRunWallFloor(floor)
       PROVE  Grows
  <2>1. counters.wall <= MaxWall /\ MaxWall \in Nat
    BY ProfileAssumption DEF QueueInv, WithinBudget
  <2>2. QED
    BY <1>1, <1>11, <2>1 DEF ChargeRunWallFloor, Least, Counters, Grows
<1>12. QED
  BY <1>2, <1>3, <1>4, <1>5, <1>6, <1>7, <1>8, <1>9, <1>10, <1>11
     DEF Next, Membership

\* Nothing a generation has consumed comes back while it lasts, whatever a fetch
\* reports and whichever claims are recovered, requeued or pruned.
THEOREM UsageStays == Spec => NoRefund
<1>1. QueueInv /\ [Next]_queueVars
      => [ \/ counters'.requests >= counters.requests
              /\ counters'.bytes >= counters.bytes
              /\ counters'.wall >= counters.wall
              /\ counters'.processed >= counters.processed
           \/ generation' = generation + 1
           \/ Forgets ]_queueVars
  BY StepKeepsUsage DEF Grows
<1>2. QED
  BY <1>1, QueueInvariant, PTL DEF Spec, NoRefund

Acquired(r) == items[r].state \in {"complete", "partial"}

\* An operation leaves an acquired job alone, removes it with its resource, or
\* starts the whole queue again.
LEMMA StepKeepsAcquired ==
  ASSUME QueueInv, Next, NEW r \in Resources, Acquired(r)
  PROVE  items'[r] \in {items[r], Absent} \/ Forgets
<1> USE DEF Acquired
<1>1. items \in [Resources -> Item] /\ items[r] # Absent
  BY DEF QueueInv, TypeOK, Absent, Job
<1>2. CASE ClaimNext
  BY <1>1, <1>2 DEF ClaimNext, ClaimExhausted, ClaimDeferred, Claim, Claimable,
     IsNext, Take, BlockJob
<1>3. ASSUME NEW s \in Resources, Work(s)
      PROVE  items'[r] = items[r]
  BY <1>1, <1>3 DEF Work, Consume, ConsumeAndCloseGeneration, Requeue, Finish,
     CanFinish
<1>4. ASSUME NEW ids \in SUBSET Resources,
             Enqueue(ids) \/ SyncMembership(ids) \/ PruneMembership(ids)
      PROVE  items'[r] \in {items[r], Absent}
  BY <1>1, <1>4 DEF Enqueue, SyncMembership, AdoptMembership,
     AdoptIntoNewGeneration, DeferredJob, PruneMembership
<1>5. CASE Settle
  <2>1. PICK ids \in SUBSET Resources : TerminalizeBudgetRemainder(ids)
    BY <1>5 DEF Settle
  <2>2. r \notin ids
    BY <2>1 DEF TerminalizeBudgetRemainder
  <2>3. items'[r] = items[r]
    BY <2>1, <2>2 DEF TerminalizeBudgetRemainder
  <2>4. QED
    BY <2>3
<1>6. ASSUME NEW jobs \in [Resources -> RebuildJob \cup {Absent}], Rebuild(jobs)
      PROVE  Forgets
  BY <1>6 DEF Rebuild, RebuildJob, Absent, Job, Forgets
<1>7. CASE Delete
  BY <1>7 DEF Delete
<1>8. CASE Recover
  <2>1. items[r].state # "processing"
    OBVIOUS
  <2>2. items'[r] = items[r]
    BY <1>8, <2>1 DEF Recover
  <2>3. QED
    BY <2>2
<1>9. CASE StartNextGeneration
  <2>1. r \notin EligibleNext
    BY DEF EligibleNext, DeferredJob
  <2>2. items'[r] = items[r]
    BY <1>9, <2>1 DEF StartNextGeneration
  <2>3. QED
    BY <2>2
<1>10. ASSUME NEW reason \in RetryReasons, StartRetryGeneration(reason)
       PROVE  items'[r] = items[r]
  BY <1>1, <1>10 DEF StartRetryGeneration, EligibleRetry
<1>11. ASSUME NEW floor \in 0 .. MaxWall + 1, ChargeRunWallFloor(floor)
       PROVE  items'[r] = items[r]
  BY <1>11 DEF ChargeRunWallFloor
<1>12. QED
  BY <1>2, <1>3, <1>4, <1>5, <1>6, <1>7, <1>8, <1>9, <1>10, <1>11
     DEF Next, Membership

\* Acquired work is never taken up again, by no operation but the ones that start
\* the queue anew.
THEOREM AcquiredStays == Spec => SuccessIsFinal
<1>1. QueueInv /\ [Next]_queueVars
      => [ \A r \in Resources :
             items[r].state \in {"complete", "partial"}
               => items'[r] \in {items[r], Absent} \/ Forgets ]_queueVars
  BY StepKeepsAcquired DEF Acquired
<1>2. QED
  BY <1>1, QueueInvariant, PTL DEF Spec, SuccessIsFinal

=============================================================================
