--------------------------- MODULE ResourceQueue ---------------------------
(***************************************************************************)
(* The derived resource queue: internal/resourcequeue/store.go.            *)
(*                                                                         *)
(* The queue is one JSON document.  Every operation of the Store loads it, *)
(* changes it and replaces it atomically under an advisory lock, so every  *)
(* operation is one action here and the variables are the document.  The   *)
(* bytes that a fetch downloads, decodes, extracts and stores are four     *)
(* counters the code treats alike; they are one counter, "bytes".          *)
(***************************************************************************)
EXTENDS Integers, FiniteSets

CONSTANTS
  Resources,        \* canonical resource ids, ordered as the code sorts them
  MaxResources,     \* resources one generation may start
  MaxRequests,      \* network requests one generation may make
  MaxAttempts,      \* claims of one resource
  MaxRedirects,     \* redirects of one fetch: a fetch is at most this + 1 requests
  MaxBytes,         \* bytes one generation may fetch
  MaxWall,          \* wall seconds one generation may run
  MaxUsage,         \* bound: bytes or wall seconds one fetch reports
  MaxGeneration     \* bound: generations opened in one behaviour

ASSUME ProfileAssumption ==
  /\ Resources \subseteq Nat
  /\ MaxResources \in Nat \ {0}
  /\ MaxRequests \in Nat \ {0}
  /\ MaxAttempts \in Nat \ {0}
  /\ MaxRedirects \in Nat
  /\ MaxBytes \in Nat \ {0}
  /\ MaxWall \in Nat \ {0}
  /\ MaxUsage \in Nat
  /\ MaxGeneration \in Nat

VARIABLES
  items,        \* the job of each resource, or Absent
  counters,     \* what the current generation has consumed and reserved
  generation,
  kind,         \* what opened the generation; a retry is named by its reason
  closed,       \* GenerationClosed
  migrated      \* LegacyBudgetMigrationComplete

queueVars == <<items, counters, generation, kind, closed, migrated>>

-----------------------------------------------------------------------------
RetryReasons == {"unreachable", "rate_limited"}

\* "manual_processing_required" also stands for the seven other permanent
\* reasons, which no operation of the queue tells apart.
BlockedReasons ==
  RetryReasons \cup
    {"budget_exhausted", "run_budget_deferred", "manual_processing_required"}

Kinds == {"none", "continuation"} \cup RetryReasons

Terminal == {"complete", "partial", "blocked"}

Item == [state : {"absent", "queued", "processing"} \cup Terminal,
         reason : BlockedReasons \cup {"none"},
         attempts : Nat,
         reserved : Nat]

Counters == [processed : Nat, requests : Nat, attempts : Nat, reserved : Nat,
             bytes : Nat, wall : Nat]

Usage == [requests : 0 .. MaxRedirects + 2, bytes : 0 .. MaxUsage,
          wall : 0 .. MaxUsage]

Job(state, reason) ==
  [state |-> state, reason |-> reason, attempts |-> 0, reserved |-> 0]
Absent == Job("absent", "none")
NoUse == [processed |-> 0, requests |-> 0, attempts |-> 0, reserved |-> 0,
          bytes |-> 0, wall |-> 0]

Least(a, b) == IF a < b THEN a ELSE b

InState(state) == {r \in Resources : items[r].state = state}

\* The requests that the jobs of S reserve.  The code adds them up; at most one job
\* is in flight (OneInFlight), so at most one of them is not zero.
ReservedIn(jobs, S) ==
  IF \E r \in S : jobs[r].reserved # 0
    THEN jobs[CHOOSE r \in S : jobs[r].reserved # 0].reserved
    ELSE 0

ReservedBy(S) == ReservedIn(items, S)

-----------------------------------------------------------------------------
(* The two readings of an exhausted budget.                                *)

AggregateExhausted ==
  \/ closed
  \/ counters.requests + counters.reserved >= MaxRequests
  \/ counters.bytes >= MaxBytes
  \/ counters.wall >= MaxWall

GlobalBudgetExhausted ==
  AggregateExhausted \/ counters.processed >= MaxResources

\* A job that has been claimed before does not count against MaxResources.

BudgetDefersItem(r) ==
  \/ AggregateExhausted
  \/ counters.processed >= MaxResources /\ items[r].attempts = 0

BudgetRemainder ==
  IF GlobalBudgetExhausted
    THEN {r \in InState("queued") : BudgetDefersItem(r)}
    ELSE {}

-----------------------------------------------------------------------------
(* Membership.                                                             *)

Enqueue(ids) ==
  /\ items' = [r \in Resources |->
                 IF r \in ids /\ items[r] = Absent THEN Job("queued", "none")
                                                   ELSE items[r]]
  /\ UNCHANGED <<counters, generation, kind, closed, migrated>>

\* Before run_budget_deferred existed, a job the budget never reached was
\* blocked as budget_exhausted without an attempt.
DeferredJob(r) ==
  /\ items[r].state = "blocked"
  /\ \/ items[r].reason = "run_budget_deferred"
     \/ ~migrated /\ items[r].reason = "budget_exhausted" /\ items[r].attempts = 0

OpenGeneration(k) ==
  /\ generation < MaxGeneration
  /\ generation' = generation + 1
  /\ kind' = k
  /\ closed' = FALSE
  /\ counters' = NoUse
  /\ migrated' = TRUE

HasActive(ids) == \E r \in ids : items[r].state \in {"queued", "processing"}
HasMissing(ids) == \E r \in ids : items[r] = Absent

\* Mutant: a removed job keeps its reservation in the counter.
PruneMembershipLeaks(ids) ==
  /\ items' = [r \in Resources |-> IF r \in ids THEN items[r] ELSE Absent]
  /\ UNCHANGED <<counters, generation, kind, closed, migrated>>

PruneMembership(ids) ==
  LET released == ReservedBy(Resources \ ids)
  IN /\ released <= counters.reserved
     /\ items' = [r \in Resources |-> IF r \in ids THEN items[r] ELSE Absent]
     /\ counters' = [counters EXCEPT !.reserved = @ - released]
     /\ UNCHANGED <<generation, kind, closed, migrated>>

\* New work joins a queue that is still active, or has nothing new to join.
AdoptMembership(ids) ==
  LET released == ReservedBy(Resources \ ids)
  IN /\ HasMissing(ids) => HasActive(ids)
     /\ released <= counters.reserved
     /\ items' = [r \in Resources |->
                    IF r \notin ids THEN Absent
                    ELSE IF items[r] = Absent THEN Job("queued", "none")
                    ELSE items[r]]
     /\ counters' = [counters EXCEPT !.reserved = @ - released]
     /\ kind' = IF HasMissing(ids) /\ kind \in RetryReasons THEN "none" ELSE kind
     /\ UNCHANGED <<generation, closed, migrated>>

\* New work meets a terminal queue: it opens a generation of its own, which
\* takes the deferred jobs along with their attempts forgotten.
AdoptIntoNewGeneration(ids) ==
  /\ HasMissing(ids) /\ ~HasActive(ids)
  /\ ReservedBy(Resources \ ids) <= counters.reserved
  /\ items' = [r \in Resources |->
                 IF r \notin ids THEN Absent
                 ELSE IF items[r] = Absent \/ DeferredJob(r)
                        THEN Job("queued", "none")
                 ELSE items[r]]
  /\ OpenGeneration("continuation")

SyncMembership(ids) == AdoptMembership(ids) \/ AdoptIntoNewGeneration(ids)

\* The jobs a canonical library gives rise to: nothing is in flight and no
\* attempt is known.
RebuildJob == {Job("queued", "none"), Job("complete", "none"), Job("partial", "none")}
              \cup {Job("blocked", reason) : reason \in BlockedReasons}

Rebuild(jobs) ==
  /\ items' = jobs
  /\ counters' = NoUse
  /\ kind' = "none"
  /\ closed' = FALSE
  /\ migrated' = TRUE
  /\ UNCHANGED generation

\* The file and its backup are removed; the next load finds an empty queue.
Delete ==
  /\ items' = [r \in Resources |-> Absent]
  /\ counters' = NoUse
  /\ generation' = 0
  /\ kind' = "none"
  /\ closed' = FALSE
  /\ migrated' = FALSE

-----------------------------------------------------------------------------
(* Claiming: the queued job with the least resource id.                    *)

IsNext(r) ==
  /\ items[r].state = "queued"
  /\ \A s \in InState("queued") : r <= s

BlockJob(r, reason) ==
  items' = [items EXCEPT ![r].state = "blocked", ![r].reason = reason]

ClaimExhausted(r) ==
  /\ IsNext(r)
  /\ items[r].attempts >= MaxAttempts
  /\ BlockJob(r, "budget_exhausted")
  /\ UNCHANGED <<counters, generation, kind, closed, migrated>>

ClaimDeferred(r) ==
  /\ IsNext(r)
  /\ items[r].attempts < MaxAttempts
  /\ BudgetDefersItem(r)
  /\ BlockJob(r, "run_budget_deferred")
  /\ UNCHANGED <<counters, generation, kind, closed, migrated>>

\* What is left of a fetch's worth of requests.
Reservation ==
  Least(MaxRedirects + 1, MaxRequests - counters.requests - counters.reserved)

Take(r, reservation) ==
  /\ items' = [items EXCEPT ![r].state = "processing",
                            ![r].attempts = @ + 1,
                            ![r].reserved = reservation]
  /\ counters' = [counters EXCEPT
                    !.processed = IF items[r].attempts = 0 THEN @ + 1 ELSE @,
                    !.attempts = @ + 1,
                    !.reserved = @ + reservation]
  /\ UNCHANGED <<generation, kind, closed, migrated>>

Claimable(r) ==
  /\ IsNext(r)
  /\ items[r].attempts < MaxAttempts
  /\ ~BudgetDefersItem(r)

\* Mutants: the limit on attempts is one too high; a claim reserves everything that
\* is left.
ClaimUnlimited(r) ==
  /\ IsNext(r) /\ items[r].attempts <= MaxAttempts /\ ~BudgetDefersItem(r)
  /\ Take(r, Reservation)
ClaimReservesAll(r) ==
  Claimable(r) /\ Take(r, MaxRequests - counters.requests - counters.reserved)

Claim(r) == Claimable(r) /\ Take(r, Reservation)

-----------------------------------------------------------------------------
(* Settling what a fetch has used.                                         *)

Overdraws(r, u) == u.requests > items[r].reserved \/ u.requests > MaxRedirects + 1

Crosses(u) ==
  \/ counters.bytes + u.bytes > MaxBytes
  \/ counters.wall + u.wall > MaxWall

Exhausts(r, u) == Overdraws(r, u) \/ Crosses(u)

\* Mutant: the bytes and the wall time are added without the caps.
SettledUncapped(r, u) ==
  [counters EXCEPT !.reserved = @ - items[r].reserved,
                   !.requests = Least(MaxRequests, @ + u.requests),
                   !.bytes = @ + u.bytes,
                   !.wall = @ + u.wall]

Settled(r, u) ==
  IF Overdraws(r, u)
    THEN [counters EXCEPT !.reserved = @ - items[r].reserved,
                          !.requests = MaxRequests]
    ELSE [counters EXCEPT
            !.reserved = @ - items[r].reserved,
            !.requests = IF Crosses(u) THEN Least(MaxRequests, @ + u.requests)
                                       ELSE @ + u.requests,
            !.bytes = Least(MaxBytes, @ + u.bytes),
            !.wall = Least(MaxWall, @ + u.wall)]

Consume(r, u) ==
  /\ items[r].state = "processing"
  /\ counters' = Settled(r, u)
  /\ items' = [items EXCEPT ![r].reserved = 0]
  /\ UNCHANGED <<generation, kind, closed, migrated>>

\* One durable write settles the usage, requeues the job and closes.
ConsumeAndCloseGeneration(r, u) ==
  /\ ~closed
  /\ items[r].state = "processing"
  /\ counters' = Settled(r, u)
  /\ items' = [items EXCEPT ![r].reserved = 0, ![r].state = "queued"]
  /\ closed' = TRUE
  /\ UNCHANGED <<generation, kind, migrated>>

\* Mutant: the floor replaces what has been charged.
SetRunWallFloor(floor) ==
  /\ counters' = [counters EXCEPT !.wall = Least(MaxWall, floor)]
  /\ UNCHANGED <<items, generation, kind, closed, migrated>>

ChargeRunWallFloor(floor) ==
  /\ counters' = [counters EXCEPT
                    !.wall = IF floor <= @ THEN @ ELSE Least(MaxWall, floor)]
  /\ UNCHANGED <<items, generation, kind, closed, migrated>>

-----------------------------------------------------------------------------
(* Leaving the processing and the queued states.                           *)

\* Mutant: the requeued jobs give nothing back.
RecoverLeaks ==
  /\ items' = [r \in Resources |->
                 IF items[r].state = "processing"
                   THEN [items[r] EXCEPT !.state = "queued", !.reserved = 0]
                   ELSE items[r]]
  /\ UNCHANGED <<counters, generation, kind, closed, migrated>>

Recover ==
  /\ counters' = [counters EXCEPT !.reserved = @ - ReservedBy(InState("processing"))]
  /\ items' = [r \in Resources |->
                 IF items[r].state = "processing"
                   THEN [items[r] EXCEPT !.state = "queued", !.reserved = 0]
                   ELSE items[r]]
  /\ UNCHANGED <<generation, kind, closed, migrated>>

\* Mutant: the requeued job keeps its reservation.
RequeueKeepsReservation(r) ==
  /\ items[r].state = "processing"
  /\ items' = [items EXCEPT ![r].state = "queued"]
  /\ UNCHANGED <<counters, generation, kind, closed, migrated>>

Requeue(r) ==
  /\ items[r].state = "processing"
  /\ counters' = [counters EXCEPT !.reserved = @ - items[r].reserved]
  /\ items' = [items EXCEPT ![r].state = "queued", ![r].reserved = 0]
  /\ UNCHANGED <<generation, kind, closed, migrated>>

CanFinish(r) == items[r].state = "processing" /\ items[r].reserved = 0

Finish(r, state, reason) ==
  /\ CanFinish(r)
  /\ items' = [items EXCEPT ![r].state = state, ![r].reason = reason]
  /\ UNCHANGED <<counters, generation, kind, closed, migrated>>

TerminalizeBudgetRemainder(ids) ==
  /\ GlobalBudgetExhausted
  /\ \A r \in ids : items[r].state = "queued" /\ BudgetDefersItem(r)
  /\ items' = [r \in Resources |->
                 IF r \in ids
                   THEN [items[r] EXCEPT !.state = "blocked",
                                         !.reason = "run_budget_deferred"]
                   ELSE items[r]]
  /\ UNCHANGED <<counters, generation, kind, closed, migrated>>

-----------------------------------------------------------------------------
(* Opening the next generation.                                            *)

EligibleNext == {r \in Resources : DeferredJob(r)}

CanStartNextGeneration ==
  /\ InState("processing") = {}
  /\ InState("queued") # {} =>
       GlobalBudgetExhausted /\ \A r \in InState("queued") : BudgetDefersItem(r)
  /\ EligibleNext # {} \/ InState("queued") # {}

\* The attempts of the deferred jobs are kept.
StartNextGeneration ==
  /\ CanStartNextGeneration
  /\ items' = [r \in Resources |->
                 IF r \in EligibleNext
                   THEN [items[r] EXCEPT !.state = "queued", !.reason = "none",
                                         !.reserved = 0]
                   ELSE items[r]]
  /\ OpenGeneration("continuation")

EligibleRetry(reason) ==
  {r \in Resources : items[r].state = "blocked" /\ items[r].reason = reason}

CanStartRetryGeneration(reason) ==
  /\ ~HasActive(Resources)
  /\ kind # reason
  /\ EligibleRetry(reason) # {}

StartRetryGeneration(reason) ==
  /\ CanStartRetryGeneration(reason)
  /\ items' = [r \in Resources |->
                 IF r \in EligibleRetry(reason) THEN Job("queued", "none")
                                                ELSE items[r]]
  /\ OpenGeneration(reason)

-----------------------------------------------------------------------------
(* The store as its clients use it: every pipeline operation holds the     *)
(* operation lock and the runner works on one claim at a time.             *)

\* A queue an earlier version persisted may hold jobs it blocked unattempted.
LegacyJob == Job("blocked", "budget_exhausted")

Init ==
  /\ items \in [Resources -> {Absent, LegacyJob}]
  /\ counters = NoUse
  /\ generation = 0
  /\ kind = "none"
  /\ closed = FALSE
  /\ migrated = FALSE

\* Mutant: two runners at once, without the operation lock.
ClaimNextWithoutLock ==
  \E r \in Resources : ClaimExhausted(r) \/ ClaimDeferred(r) \/ Claim(r)

ClaimNext ==
  /\ InState("processing") = {}
  /\ \E r \in Resources : ClaimExhausted(r) \/ ClaimDeferred(r) \/ Claim(r)

Work(r) ==
  \/ \E u \in Usage : Consume(r, u) \/ ConsumeAndCloseGeneration(r, u)
  \/ Requeue(r)
  \/ \E state \in {"complete", "partial"} : Finish(r, state, "none")
  \/ \E reason \in BlockedReasons : Finish(r, "blocked", reason)

Membership ==
  \E ids \in SUBSET Resources :
    Enqueue(ids) \/ SyncMembership(ids) \/ PruneMembership(ids)

Settle == \E ids \in SUBSET Resources : TerminalizeBudgetRemainder(ids)

Next ==
  \/ ClaimNext
  \/ \E r \in Resources : Work(r)
  \/ Membership
  \/ Settle
  \/ \E jobs \in [Resources -> RebuildJob \cup {Absent}] : Rebuild(jobs)
  \/ Delete
  \/ Recover
  \/ StartNextGeneration
  \/ \E reason \in RetryReasons : StartRetryGeneration(reason)
  \/ \E floor \in 0 .. MaxWall + 1 : ChargeRunWallFloor(floor)

Spec == Init /\ [][Next]_queueVars

-----------------------------------------------------------------------------
(* Properties.                                                             *)

\* The persisted document satisfies Validate: a reason belongs to a blocked job
\* only and a reservation to a job in flight only.
TypeOK ==
  /\ items \in [Resources -> Item]
  /\ counters \in Counters
  /\ generation \in 0 .. MaxGeneration
  /\ kind \in Kinds
  /\ closed \in BOOLEAN
  /\ migrated \in BOOLEAN
  /\ \A r \in Resources :
       /\ items[r].state # "blocked" <=> items[r].reason = "none"
       /\ items[r].state # "processing" => items[r].reserved = 0
       /\ items[r].state = "absent" => items[r] = Absent

\* No two jobs are in flight.
OneInFlight ==
  \A r, s \in InState("processing") : r = s

\* The reservation counter is exactly what the jobs in flight hold: no path
\* through a claim, a settlement, a recovery or a removal leaks or repeats one.
ReservationBalanced == counters.reserved = ReservedBy(Resources)

\* No generation's consumption ever passes a cap of the sealed profile, whatever
\* usage the adapters report.
WithinBudget ==
  /\ counters.requests + counters.reserved <= MaxRequests
  /\ counters.bytes <= MaxBytes
  /\ counters.wall <= MaxWall
  /\ counters.processed <= MaxResources

\* Neither recoveries nor requeues nor generations let one resource be claimed
\* more often than the profile allows.
AttemptsBounded ==
  \A r \in Resources : items[r].attempts <= MaxAttempts

\* A job in flight has been counted as an attempt, and before its usage is
\* settled it holds at least one request and no more than one fetch can use.
ClaimIsFunded ==
  \A r \in InState("processing") :
    items[r].attempts >= 1 /\ items[r].reserved <= MaxRedirects + 1

\* Consumed budget is never refunded: a counter of what was used only falls when
\* a generation opens or when the queue is rebuilt or deleted, which leaves no
\* attempt on record.
Forgets == \A r \in Resources : items'[r].attempts = 0
NoRefund ==
  [][\/ counters'.requests >= counters.requests
        /\ counters'.bytes >= counters.bytes
        /\ counters'.wall >= counters.wall
        /\ counters'.processed >= counters.processed
     \/ generation' = generation + 1
     \/ Forgets]_queueVars

\* Acquired work is never taken up again: a complete or partial job stays as it
\* is until the queue is rebuilt or deleted or the resource leaves it.
SuccessIsFinal ==
  [][\A r \in Resources :
       items[r].state \in {"complete", "partial"}
         => items'[r] \in {items[r], Absent} \/ Forgets]_queueVars

=============================================================================
