----------------------- MODULE ApprovedDeliveryProofs -----------------------
(***************************************************************************)
(* Proofs about ApprovedDelivery for every outbox, every number of         *)
(* attempts and every destination: the documents stay well formed and tell *)
(* one story, delivery implements the authority it was given, and what it  *)
(* sends follows the batch and a human gesture.                            *)
(*                                                                         *)
(* The second part is about ActivationRun, the app that hands its          *)
(* approvals to that store: for every set of inventories, strategies and   *)
(* items and every number of approvals, deliveries, proofs and faults, the *)
(* state in memory, in the file and behind the journal stays one state,    *)
(* wherever a handler is cut short, and is the one the run was bound to.   *)
(***************************************************************************)
EXTENDS ApprovedDelivery, ActivationRun, SequenceTheorems, WellFoundedInduction,
        NaturalsInduction, TLAPS

-----------------------------------------------------------------------------
(* The inductive invariant.  The copy of the state that an invocation      *)
(* works on counts the attempts that are durable; only what a failed       *)
(* reservation leaves to be saved may be one ahead.                        *)

CopyCounts ==
  /\ pc \in {"authorise", "initialize"} => state = NoState
  /\ pc \notin {"idle", "authorise", "initialize", "finish"} =>
       Len(mem.attempts) = Len(state.attempts)
  /\ pc = "finish" =>
       Len(mem.attempts) \in {Len(state.attempts), Len(state.attempts) + 1}

WithinAttempts ==
  Len(state.attempts) <= MaxAttempts /\ Len(mem.attempts) <= MaxAttempts

CallFits ==
  /\ pc \in {"order", "reserve", "mutate", "record", "readback"} =>
       call.at \in Operations
  /\ pc \in {"finish", "seal"} => call.result \in RunOutcomes

\* The ordering lock keeps the cancellation out until the reservation is durable, and
\* the attempt reserved is one that was not sent.
PermitIsFresh ==
  /\ pc = "reserve" => ordering = "delivery" /\ ~cancelled
  /\ pc = "mutate" => Len(mem.attempts) # 0 /\ Len(mem.attempts) \notin sent

DeliveryInv == TypeOK /\ CopyCounts /\ WithinAttempts /\ CallFits /\ PermitIsFresh

-----------------------------------------------------------------------------
(* What the operators on a state keep.                                     *)

\* A fresh state is well formed and has no attempt.
LEMMA FreshTyped ==
  ASSUME NEW status \in Statuses
  PROVE  /\ Fresh(status) \in DeliveryState
         /\ [Fresh(status) EXCEPT !.cancelled = TRUE] \in DeliveryState
         /\ Len(Fresh(status).attempts) = 0
         /\ Len([Fresh(status) EXCEPT !.cancelled = TRUE].attempts) = 0
<1>1. [o \in Operations |-> "pending"] \in [Operations -> OperationStates]
  BY DEF OperationStates
<1>2. <<>> \in Seq(Attempt) /\ Len(<<>>) = 0
  OBVIOUS
<1>3. Fresh(status) \in DeliveryState
  BY <1>1, <1>2 DEF Fresh, DeliveryState
<1>4. [Fresh(status) EXCEPT !.cancelled = TRUE] \in DeliveryState
  BY <1>3 DEF DeliveryState
<1>5. /\ Fresh(status).attempts = <<>>
      /\ [Fresh(status) EXCEPT !.cancelled = TRUE].attempts = <<>>
  BY DEF Fresh
<1>6. QED
  BY <1>2, <1>3, <1>4, <1>5

\* What a status, an operation or an observation changes is no attempt.
LEMMA SetStatusTyped ==
  ASSUME NEW s \in DeliveryState, NEW status \in Statuses
  PROVE  /\ SetStatus(s, status) \in DeliveryState
         /\ SetStatus(s, status).attempts = s.attempts
BY DEF SetStatus, DeliveryState

\* Setting an operation leaves a state of delivery, with the same attempts.
LEMMA SetOperationTyped ==
  ASSUME NEW s \in DeliveryState, NEW o \in Operations, NEW value \in OperationStates
  PROVE  /\ SetOperation(s, o, value) \in DeliveryState
         /\ SetOperation(s, o, value).attempts = s.attempts
BY DEF SetOperation, DeliveryState

\* Marking an attempt changes its outcome and counts none.
LEMMA MarkAttemptTyped ==
  ASSUME NEW s \in DeliveryState, NEW o \in Operations, NEW outcome \in AttemptOutcomes
  PROVE  /\ MarkAttempt(s, o, outcome) \in DeliveryState
         /\ Len(MarkAttempt(s, o, outcome).attempts) = Len(s.attempts)
<1>. DEFINE n == Latest(s, o)
            marked == [s.attempts EXCEPT ![n].outcome = outcome]
<1>1. s.attempts \in Seq(Attempt)
  BY DEF DeliveryState
<1>2. marked \in Seq(Attempt) /\ Len(marked) = Len(s.attempts)
  <2>. DEFINE q == s.attempts
              e == [q[n] EXCEPT !.outcome = outcome]
  <2>1. marked = [q EXCEPT ![n] = e]
    OBVIOUS
  <2>2. CASE n \in 1 .. Len(q)
    <3>1. q[n] \in Attempt
      BY <1>1, <2>2
    <3>2. e \in Attempt
      BY <3>1 DEF Attempt
    <3>. HIDE DEF e, n
    <3>3. QED
      BY <1>1, <2>1, <2>2, <3>2, ExceptSeq
  <2>3. CASE n \notin 1 .. Len(q)
    <3>. HIDE DEF e, n
    <3>1. marked = q
      BY <1>1, <2>1, <2>3
    <3>2. QED
      BY <1>1, <3>1
  <2>4. QED
    BY <2>2, <2>3
<1>3. CASE Attempted(s, o)
  <2>1. MarkAttempt(s, o, outcome) = [s EXCEPT !.attempts = marked]
    BY <1>3 DEF MarkAttempt, DeliveryState
  <2>2. QED
    BY <1>2, <2>1 DEF DeliveryState
<1>4. CASE ~Attempted(s, o)
  BY <1>4 DEF MarkAttempt
<1>5. QED
  BY <1>3, <1>4

\* So does noting what was observed of one.
LEMMA ObservedTyped ==
  ASSUME TypeOK, NEW o \in Operations, NEW seen \in {"error", "conflict", "observed", "absent"}
  PROVE  /\ Observed(o, seen) \in DeliveryState
         /\ Observed(o, seen).attempts = mem.attempts
<1>1. mem \in DeliveryState
  BY DEF TypeOK
<1>2. SetOperation(mem, o, "blocked") \in DeliveryState
  BY <1>1, SetOperationTyped DEF OperationStates
<1>3. CASE seen = "error"
  BY <1>1, <1>3 DEF Observed
<1>4. CASE seen = "conflict"
  <2>1. SetOperation(mem, o, "blocked").attempts = mem.attempts
    BY <1>1, SetOperationTyped DEF OperationStates
  <2>2. Observed(o, seen) = SetStatus(SetOperation(mem, o, "blocked"), "blocked")
    BY <1>4 DEF Observed
  <2>3. QED
    BY <1>2, <2>1, <2>2, SetStatusTyped DEF Statuses
<1>5. CASE seen = "observed"
  <2>1. Observed(o, seen) = SetOperation(mem, o, "acknowledged")
    BY <1>5 DEF Observed
  <2>2. "acknowledged" \in OperationStates
    BY DEF OperationStates
  <2>3. /\ SetOperation(mem, o, "acknowledged") \in DeliveryState
        /\ SetOperation(mem, o, "acknowledged").attempts = mem.attempts
    BY <1>1, <2>2, SetOperationTyped
  <2>4. QED
    BY <2>1, <2>3
<1>6. CASE seen = "absent"
  <2>1. PICK value \in {"not_observed", "pending"} :
          Observed(o, seen) = SetOperation(mem, o, value)
    BY <1>6 DEF Observed
  <2>2. value \in OperationStates
    BY DEF OperationStates
  <2>3. QED
    BY <1>1, <2>1, <2>2, SetOperationTyped
<1>7. QED
  BY <1>3, <1>4, <1>5, <1>6

\* A reservation counts one attempt more.
LEMMA ReservedTyped ==
  ASSUME NEW s \in DeliveryState, NEW o \in Operations, runs \in Seq(SealedRun)
  PROVE  /\ Reserved(s, o) \in DeliveryState
         /\ Len(Reserved(s, o).attempts) = Len(s.attempts) + 1
<1>1. [op |-> o, run |-> Len(runs) + 1, outcome |-> "reserved"] \in Attempt
  BY DEF Attempt, AttemptOutcomes
<1>2. s.attempts \in Seq(Attempt)
  BY DEF DeliveryState
<1>. DEFINE longer == Append(s.attempts, [op |-> o, run |-> Len(runs) + 1, outcome |-> "reserved"])
<1>3. longer \in Seq(Attempt) /\ Len(longer) = Len(s.attempts) + 1
  BY <1>1, <1>2
<1>. DEFINE op == [s.op EXCEPT ![o] = "reserved"]
<1>4. op \in [Operations -> OperationStates]
  BY DEF DeliveryState, OperationStates
<1>5. s.unique \cup {o} \in SUBSET Operations
  BY DEF DeliveryState
<1>6. Reserved(s, o) = [s EXCEPT !.status = "delivering", !.op = op,
                                 !.unique = s.unique \cup {o}, !.attempts = longer]
  BY DEF Reserved, DeliveryState
<1>7. "delivering" \in Statuses
  BY DEF Statuses
<1>. HIDE DEF longer, op
<1>. DEFINE unique == s.unique \cup {o}
<1>8. unique \in SUBSET Operations
  BY <1>5
<1>. HIDE DEF unique
<1>9. [s EXCEPT !.status = "delivering", !.op = op, !.unique = unique,
                !.attempts = longer] \in DeliveryState
  BY <1>3, <1>4, <1>7, <1>8 DEF DeliveryState
<1>10. [s EXCEPT !.status = "delivering", !.op = op, !.unique = unique,
                 !.attempts = longer].attempts = longer
  BY DEF DeliveryState
<1>11. QED
  BY <1>3, <1>6, <1>9, <1>10 DEF unique

-----------------------------------------------------------------------------
(* The steps of an invocation.                                             *)

\* A step that writes nothing: the copy, the step and the call must fit.
LEMMA LocalStep ==
  ASSUME DeliveryInv, Local,
         mem' \in DeliveryState, pc' \in Steps, call' \in Calls,
         Len(mem'.attempts) <= MaxAttempts,
         CopyCounts', CallFits', pc' # "reserve", pc' # "mutate"
  PROVE  DeliveryInv'
BY DEF DeliveryInv, TypeOK, WithinAttempts, PermitIsFresh, Local, Keep, durable,
       destination

\* What is left to do after the last operation, or after a failure.
LEMMA FinishStep ==
  ASSUME DeliveryInv, NEW s \in DeliveryState, NEW outcome \in RunOutcomes,
         pc \notin {"idle", "authorise", "initialize", "finish"},
         Len(s.attempts) = Len(mem.attempts), Finish(s, outcome), Local
  PROVE  DeliveryInv'
<1>1. call' \in Calls /\ call'.result = outcome
  BY DEF Finish, DeliveryInv, TypeOK, Calls
<1>2. pc' = "finish" /\ mem' = s
  BY DEF Finish, Goto
<1>3. UNCHANGED state
  BY DEF Local, durable
<1>4. CopyCounts' /\ CallFits' /\ Len(mem'.attempts) <= MaxAttempts
  BY <1>1, <1>2, <1>3 DEF DeliveryInv, CopyCounts, CallFits, WithinAttempts
<1>5. QED
  BY <1>1, <1>2, <1>4, LocalStep DEF Steps

\* A step that makes the state durable.
LEMMA SaveStep ==
  ASSUME DeliveryInv, NEW s \in DeliveryState, NEW step \in Steps, SaveState(step, s), Keep,
         Len(s.attempts) <= MaxAttempts, Len(state.attempts) <= Len(s.attempts),
         step \notin {"authorise", "initialize", "reserve", "mutate"},
         call' \in Calls, CallFits'
  PROVE  DeliveryInv'
<1>1. /\ state' = s /\ mem' = s /\ pc' = step /\ receipt' = FALSE
      /\ UNCHANGED <<authority, runs, active, debris, destination>>
  BY DEF SaveState, Persist, Goto
<1>2. DOMAIN state.attempts \subseteq DOMAIN s.attempts
  BY DEF DeliveryInv, TypeOK, DeliveryState
<1>3. TypeOK'
  BY <1>1, <1>2 DEF DeliveryInv, TypeOK, Keep, destination
<1>4. Len(s.attempts) \in Nat
  BY DEF DeliveryState
<1>5. CopyCounts' /\ WithinAttempts' /\ PermitIsFresh'
  BY <1>1, <1>4 DEF CopyCounts, WithinAttempts, PermitIsFresh
<1>6. QED
  BY <1>3, <1>5 DEF DeliveryInv

\* Opening an invocation.
LEMMA OpenSteps ==
  ASSUME DeliveryInv, Open
  PROVE  DeliveryInv'
<1>1. ASSUME NEW mode \in Modes, Begin(mode)  PROVE DeliveryInv'
  <2>1. NoCall \in Calls /\ NoState \in DeliveryState
    BY FreshTyped DEF NoCall, Calls, NoState, Statuses
  <2>2. call' \in Calls
    <3>1. \E gesture \in BOOLEAN :
            \/ call' = [NoCall EXCEPT !.mode = mode, !.gesture = gesture]
            \/ call' = [NoCall EXCEPT !.mode = mode]
      BY <1>1 DEF Begin
    <3>2. QED
      BY <2>1, <3>1 DEF Calls
  <2>3. /\ mem' \in {NoState, state} /\ pc' \in {"authorise", "initialize", "resume"}
        /\ pc' = "resume" => mem' = state
        /\ pc' # "resume" => state = NoState
        /\ invocations' = invocations + 1 /\ invocations < MaxInvocations
        /\ UNCHANGED <<durable, cancelled, ordering, expired, destination>>
    BY <1>1 DEF Begin, Goto
  <2>4. invocations' \in 0 .. MaxInvocations
    BY <2>3, OutboxAssumption DEF DeliveryInv, TypeOK
  <2>5. TypeOK'
    BY <2>1, <2>2, <2>3, <2>4 DEF DeliveryInv, TypeOK, durable, destination, Steps
  <2>6. Len(NoState.attempts) = 0
    BY FreshTyped DEF NoState, Statuses
  <2>7. QED
    BY <2>3, <2>5, <2>6, OutboxAssumption DEF DeliveryInv, CopyCounts, WithinAttempts,
       CallFits, PermitIsFresh, durable, destination
<1>2. CASE SealAuthority
  BY <1>2 DEF SealAuthority, Keep, destination, Goto, DeliveryInv, TypeOK, CopyCounts,
     WithinAttempts, CallFits, PermitIsFresh, Steps
<1>3. CASE Initialize
  <2>1. PICK s \in DeliveryState : SaveState("resume", s) /\ Len(s.attempts) = 0
    BY <1>3, FreshTyped DEF Initialize, Statuses
  <2>2. state = NoState
    BY <1>3 DEF Initialize, DeliveryInv, CopyCounts
  <2>3. Len(state.attempts) = 0
    BY <2>2, FreshTyped DEF NoState, Statuses
  <2>4. call' \in Calls /\ CallFits'
    BY <1>3, <2>1 DEF Initialize, DeliveryInv, TypeOK, SaveState, Goto, CallFits
  <2>5. QED
    BY <1>3, <2>1, <2>3, <2>4, SaveStep, OutboxAssumption DEF Initialize, Steps
<1>4. CASE Resume
  <2>1. mem' \in DeliveryState /\ mem'.attempts = mem.attempts
    BY <1>4 DEF Resume, Goto, Refreshed, DeliveryInv, TypeOK, DeliveryState, Statuses
  <2>2. call' \in Calls
    BY <1>4 DEF Resume, DeliveryInv, TypeOK, Calls
  <2>3. QED
    BY <1>4, <2>1, <2>2, LocalStep
       DEF Resume, Goto, Local, durable, DeliveryInv, CopyCounts, CallFits,
           WithinAttempts, Steps
<1>5. CASE SealInterrupted
  <2>1. runs' \in Seq(SealedRun)
    BY <1>5 DEF SealInterrupted, AppendRun, AttemptsOfRun, SealedRun, RunOutcomes,
       DeliveryInv, TypeOK, DeliveryState
  <2>2. /\ receipt' = FALSE /\ Keep
        /\ UNCHANGED <<authority, state, active, debris, destination, pc, mem, call>>
    BY <1>5 DEF SealInterrupted
  <2>3. TypeOK'
    BY <2>1, <2>2 DEF Keep, destination, DeliveryInv, TypeOK
  <2>4. CopyCounts' /\ WithinAttempts' /\ CallFits'
    BY <2>2 DEF DeliveryInv, CopyCounts, WithinAttempts, CallFits
  <2>5. PermitIsFresh'
    BY <2>2 DEF Keep, destination, DeliveryInv, PermitIsFresh
  <2>6. QED
    BY <2>3, <2>4, <2>5 DEF DeliveryInv
<1>6. CASE RemoveActive
  BY <1>6 DEF RemoveActive, NoRun, Keep, destination, DeliveryInv, TypeOK, CopyCounts,
     WithinAttempts, CallFits, PermitIsFresh
<1>7. CASE OpenRun
  BY <1>7 DEF OpenRun, Recovering, Goto, Keep, destination, DeliveryInv, TypeOK, CopyCounts,
     WithinAttempts, CallFits, PermitIsFresh, Steps
<1>8. CASE StartRun
  <2>1. PICK s \in DeliveryState : SaveState("plan", s) /\ s.attempts = mem.attempts
    BY <1>8, SetStatusTyped DEF StartRun, DeliveryInv, TypeOK, Statuses
  <2>2. call' \in Calls /\ CallFits'
    BY <1>8, <2>1 DEF StartRun, DeliveryInv, TypeOK, SaveState, Goto, CallFits
  <2>3. Len(s.attempts) = Len(state.attempts) /\ Len(state.attempts) \in Nat
    BY <1>8, <2>1 DEF StartRun, DeliveryInv, TypeOK, CopyCounts, DeliveryState
  <2>4. QED
    BY <1>8, <2>1, <2>2, <2>3, SaveStep
       DEF StartRun, Steps, DeliveryInv, WithinAttempts
<1>9. CASE Plan
  <2>1. mem \in DeliveryState /\ SetStatus(mem, "cancelled") \in DeliveryState
    BY SetStatusTyped DEF DeliveryInv, TypeOK, Statuses
  <2>2. SetStatus(mem, "cancelled").attempts = mem.attempts
    BY <2>1, SetStatusTyped DEF Statuses
  <2>3. CASE \E s \in {mem, SetStatus(mem, "cancelled")}, outcome \in RunOutcomes :
               Finish(s, outcome)
    BY <1>9, <2>1, <2>2, <2>3, FinishStep DEF Plan
  <2>4. CASE Goto("observe", mem) /\ call' = [call EXCEPT !.at = 1]
    <3>1. call' \in Calls
      BY <2>4 DEF DeliveryInv, TypeOK, Calls
    <3>2. QED
      BY <1>9, <2>1, <2>4, <3>1, LocalStep
         DEF Plan, Goto, Local, durable, DeliveryInv, CopyCounts, CallFits,
             WithinAttempts, Steps
  <2>5. QED
    BY <1>9, <2>3, <2>4 DEF Plan, RunOutcomes
<1>10. QED
  BY <1>1, <1>2, <1>3, <1>4, <1>5, <1>6, <1>7, <1>8, <1>9 DEF Open

\* The call moves on to the next operation, or stays where it is.
LEMMA AdvanceTyped ==
  ASSUME DeliveryInv, Advance
  PROVE  call' \in Calls
BY DEF DeliveryInv, TypeOK, Advance, Calls

\* What is acknowledged has as many attempts as before.
LEMMA AcknowledgedTyped ==
  ASSUME DeliveryInv, NEW o \in Operations
  PROVE  LET s == MarkAttempt(Observed(o, "observed"), o, "acknowledged")
         IN s \in DeliveryState /\ Len(s.attempts) = Len(mem.attempts)
<1>1. PICK r : r = Observed(o, "observed")
  OBVIOUS
<1>2. r \in DeliveryState /\ r.attempts = mem.attempts
  BY <1>1, ObservedTyped DEF DeliveryInv
<1>3. "acknowledged" \in AttemptOutcomes
  BY DEF AttemptOutcomes
<1>4. /\ MarkAttempt(r, o, "acknowledged") \in DeliveryState
      /\ Len(MarkAttempt(r, o, "acknowledged").attempts) = Len(r.attempts)
  BY <1>2, <1>3, MarkAttemptTyped
<1>5. QED
  BY <1>1, <1>2, <1>4

\* An operation that the destination shows is acknowledged, attempted or not.
LEMMA AcknowledgeStep ==
  ASSUME DeliveryInv, NEW o \in Operations, Acknowledge(o, "observe"),
         pc \in {"observe", "readback"}
  PROVE  DeliveryInv'
<1>. DEFINE s == MarkAttempt(Observed(o, "observed"), o, "acknowledged")
<1>1. s \in DeliveryState /\ Len(s.attempts) = Len(mem.attempts)
  BY AcknowledgedTyped
<1>2. SaveState("observe", s) /\ Keep /\ Advance
  BY DEF Acknowledge
<1>. HIDE DEF s
<1>3. pc' = "observe"
  BY <1>2 DEF SaveState, Goto
<1>4. call' \in Calls /\ CallFits'
  BY <1>2, <1>3, AdvanceTyped DEF CallFits
<1>5. Len(s.attempts) = Len(state.attempts) /\ Len(s.attempts) \in Nat
  BY <1>1 DEF DeliveryInv, CopyCounts, DeliveryState
<1>6. QED
  BY <1>1, <1>2, <1>4, <1>5, SaveStep DEF Steps, DeliveryInv, WithinAttempts

\* What an observation that ends the invocation leaves.
LEMMA ObservedEnds ==
  ASSUME DeliveryInv, NEW o \in Operations, NEW seen \in {"error", "conflict", "absent"},
         NEW status \in Statuses, NEW value \in OperationStates
  PROVE  LET s == Observed(o, seen)
         IN \A t \in {s, SetStatus(s, status), SetStatus(SetOperation(s, o, value), status)} :
              t \in DeliveryState /\ t.attempts = mem.attempts
<1>. DEFINE s == Observed(o, seen)
<1>1. s \in DeliveryState /\ s.attempts = mem.attempts
  BY ObservedTyped DEF DeliveryInv
<1>. HIDE DEF s
<1>2. SetOperation(s, o, value) \in DeliveryState /\ SetOperation(s, o, value).attempts = s.attempts
  BY <1>1, SetOperationTyped
<1>3. QED
  BY <1>1, <1>2, SetStatusTyped DEF s

\* Looking at the destination keeps the invariant.
LEMMA ObserveSteps ==
  ASSUME DeliveryInv, Observe
  PROVE  DeliveryInv'
<1>1. CASE Skip
  <2>1. mem \in DeliveryState
    BY DEF DeliveryInv, TypeOK
  <2>2. QED
    BY <1>1, <2>1, AdvanceTyped, LocalStep
       DEF Skip, AtOperation, Local, durable, DeliveryInv, CopyCounts, CallFits,
           WithinAttempts, TypeOK
<1>2. CASE ObserveAcknowledged
  BY <1>2, AcknowledgeStep DEF ObserveAcknowledged, AtOperation
<1>3. ASSUME NEW o \in Operations, NEW seen \in {"error", "conflict"}, ObserveFails(o, seen)
      PROVE  DeliveryInv'
  <2>. DEFINE s == Observed(o, seen)
  <2>1. \A t \in {s, SetStatus(s, "blocked"), SetStatus(SetOperation(s, o, "ambiguous"), "ambiguous")} :
          t \in DeliveryState /\ t.attempts = mem.attempts
    BY ObservedEnds DEF Statuses, OperationStates
  <2>2. \E t \in {s, SetStatus(s, "blocked"), SetStatus(SetOperation(s, o, "ambiguous"), "ambiguous")},
           outcome \in {"failed", "ambiguous"} : Finish(t, outcome)
    BY <1>3 DEF ObserveFails
  <2>3. pc = "observe" /\ Local
    BY <1>3 DEF ObserveFails, AtOperation
  <2>4. QED
    BY <2>1, <2>2, <2>3, FinishStep DEF RunOutcomes
<1>4. ASSUME NEW o \in Operations, ObserveAbsent(o)
      PROVE  DeliveryInv'
  <2>. DEFINE s == Observed(o, "absent")
  <2>1. /\ s \in DeliveryState /\ s.attempts = mem.attempts
        /\ SetStatus(s, "ambiguous") \in DeliveryState
        /\ SetStatus(s, "ambiguous").attempts = mem.attempts
    BY ObservedEnds DEF Statuses, OperationStates
  <2>2. pc = "observe" /\ Local /\ call.at = o
    BY <1>4 DEF ObserveAbsent, AtOperation
  <2>3. CASE Finish(SetStatus(s, "ambiguous"), "reconciled")
    BY <2>1, <2>2, <2>3, FinishStep DEF RunOutcomes
  <2>4. CASE Goto("observe", s) /\ Advance
    BY <2>1, <2>2, <2>4, AdvanceTyped, LocalStep
       DEF Goto, Local, durable, DeliveryInv, CopyCounts, CallFits, WithinAttempts, Steps
  <2>5. CASE Goto("order", s) /\ UNCHANGED call
    BY <2>1, <2>2, <2>5, LocalStep
       DEF Goto, Local, durable, DeliveryInv, TypeOK, CopyCounts, CallFits,
           WithinAttempts, Steps
  <2>6. QED
    BY <1>4, <2>3, <2>4, <2>5 DEF ObserveAbsent
<1>5. QED
  BY <1>1, <1>2, <1>3, <1>4 DEF Observe

\* Reserving: before the reservation is durable nothing can cancel, after it the
\* attempt that is reserved was never sent.
LEMMA ReserveSteps ==
  ASSUME DeliveryInv, Order \/ OrderFails \/ Reserve \/ ReserveRefused \/ ReserveFails
  PROVE  DeliveryInv'
<1>. DEFINE o == call.at
<1>0. mem \in DeliveryState /\ Len(mem.attempts) \in Nat /\ call \in Calls /\ runs \in Seq(SealedRun)
  BY DEF DeliveryInv, TypeOK, DeliveryState
<1>1. CASE Order
  <2>1. /\ SetStatus(Refreshed(mem), "cancelled") \in DeliveryState
        /\ SetStatus(Refreshed(mem), "cancelled").attempts = mem.attempts
    BY <1>0 DEF SetStatus, Refreshed, DeliveryState, Statuses
  <2>2. CASE Goto("reserve", mem) /\ ordering' = "delivery" /\ UNCHANGED call /\ ~cancelled
    BY <1>0, <1>1, <2>2 DEF Order, Goto, durable, destination, DeliveryInv, TypeOK, CopyCounts,
       WithinAttempts, CallFits, PermitIsFresh, Steps
  <2>3. CASE (\E s \in {mem, SetStatus(Refreshed(mem), "cancelled")},
                outcome \in {"cancelled", "failed"} : Finish(s, outcome)) /\ UNCHANGED ordering
    <3>1. Local
      BY <1>1, <2>3 DEF Order, Local, Keep
    <3>2. QED
      BY <1>0, <1>1, <2>1, <2>3, <3>1, FinishStep DEF Order, RunOutcomes
  <2>4. QED
    BY <1>1, <2>2, <2>3 DEF Order
<1>2. CASE OrderFails
  BY <1>0, <1>2, FinishStep DEF OrderFails, RunOutcomes
<1>3. ASSUME pc = "reserve"
      PROVE  /\ o \in Operations /\ Len(mem.attempts) = Len(state.attempts)
             /\ Reserved(mem, o) \in DeliveryState
             /\ Len(Reserved(mem, o).attempts) = Len(mem.attempts) + 1
  BY <1>0, <1>3, ReservedTyped DEF DeliveryInv, CallFits, CopyCounts
<1>4. sent \subseteq 1 .. Len(state.attempts)
  BY DEF DeliveryInv, TypeOK, DeliveryState
<1>5. CASE Reserve
  <2>. DEFINE s == Reserved(mem, o)
  <2>1. /\ state' = s /\ mem' = s /\ pc' = "mutate" /\ receipt' = FALSE /\ ordering' = "free"
        /\ UNCHANGED <<authority, runs, active, debris, remote, applied, sent, inflight,
                       cancelled, expired, invocations, call>>
    BY <1>5 DEF Reserve, SaveState, Persist, Goto, destination
  <2>2. /\ s \in DeliveryState /\ Len(s.attempts) = Len(state.attempts) + 1
        /\ Len(s.attempts) <= MaxAttempts
    BY <1>0, <1>3, <1>5, OutboxAssumption DEF Reserve, OutOfAttempts
  <2>. HIDE DEF s
  <2>3. sent \subseteq DOMAIN s.attempts /\ Len(s.attempts) \notin sent
    BY <1>0, <1>3, <1>4, <1>5, <2>2 DEF Reserve, DeliveryState
  <2>4. TypeOK'
    BY <2>1, <2>2, <2>3 DEF DeliveryInv, TypeOK, Steps
  <2>5. QED
    BY <1>0, <1>3, <1>5, <2>1, <2>2, <2>3, <2>4
       DEF Reserve, DeliveryInv, CopyCounts, WithinAttempts, CallFits, PermitIsFresh
<1>6. CASE ReserveRefused
  <2>1. pc = "reserve" /\ o \in Operations
    BY <1>3, <1>6 DEF ReserveRefused
  <2>. DEFINE op == [mem.op EXCEPT ![o] = "blocked"]
              unique == mem.unique \cup {o}
              s == [mem EXCEPT !.status = "blocked", !.op = op, !.unique = unique]
  <2>2. op \in [Operations -> OperationStates] /\ unique \in SUBSET Operations
    BY <1>0, <2>1 DEF DeliveryState, OperationStates
  <2>3. s = [mem EXCEPT !.status = "blocked", !.op[o] = "blocked", !.unique = @ \cup {o}]
    BY <1>0 DEF DeliveryState
  <2>4. s \in DeliveryState /\ s.attempts = mem.attempts
    <3>. HIDE DEF op, unique
    <3>1. QED
      BY <1>0, <2>2 DEF DeliveryState, Statuses
  <2>5. Finish(s, "failed")
    BY <1>6, <2>3 DEF ReserveRefused
  <2>. HIDE DEF s
  <2>6. /\ mem' = s /\ pc' = "finish" /\ call' \in Calls /\ call'.result = "failed"
    BY <1>0, <2>5 DEF Finish, Goto, Calls, RunOutcomes
  <2>7. QED
    BY <1>0, <1>3, <1>6, <2>1, <2>4, <2>6
       DEF ReserveRefused, durable, destination, DeliveryInv, TypeOK, CopyCounts,
           WithinAttempts, CallFits, PermitIsFresh, Steps, RunOutcomes
<1>7. CASE ReserveFails
  <2>1. pc = "reserve" /\ o \in Operations
    BY <1>3, <1>7 DEF ReserveFails
  <2>. DEFINE r == Reserved(mem, o)
  <2>2. /\ r \in DeliveryState /\ Len(r.attempts) = Len(state.attempts) + 1
        /\ Len(r.attempts) <= MaxAttempts
    BY <1>0, <1>3, <1>7, OutboxAssumption DEF ReserveFails, OutOfAttempts
  <2>3. Finish([r EXCEPT !.status = "blocked", !.op[o] = "blocked"], "failed")
    BY <1>7 DEF ReserveFails
  <2>4. /\ state' \in {state, r} /\ receipt' \in {receipt, FALSE} /\ ordering' = "free"
        /\ UNCHANGED <<authority, runs, active, debris, remote, applied, sent, inflight,
                       cancelled, expired, invocations>>
    BY <1>7 DEF ReserveFails, Persist, destination
  <2>. HIDE DEF r
  <2>. DEFINE op == [r.op EXCEPT ![o] = "blocked"]
              s == [r EXCEPT !.status = "blocked", !.op = op]
  <2>5. op \in [Operations -> OperationStates]
    BY <2>1, <2>2 DEF DeliveryState, OperationStates
  <2>6. s = [r EXCEPT !.status = "blocked", !.op[o] = "blocked"]
    BY <2>2 DEF DeliveryState
  <2>7. s \in DeliveryState /\ s.attempts = r.attempts
    <3>. HIDE DEF op
    <3>1. QED
      BY <2>2, <2>5 DEF DeliveryState, Statuses
  <2>8. /\ mem' = s /\ pc' = "finish" /\ call' \in Calls /\ call'.result = "failed"
    BY <1>0, <2>3, <2>6 DEF Finish, Goto, Calls, RunOutcomes
  <2>. HIDE DEF s
  <2>9. sent \subseteq DOMAIN r.attempts
    BY <1>0, <1>3, <1>4, <2>1, <2>2 DEF DeliveryState
  <2>10. TypeOK'
    BY <2>2, <2>4, <2>7, <2>8, <2>9 DEF DeliveryInv, TypeOK, Steps
  <2>11. QED
    BY <1>0, <1>3, <2>1, <2>2, <2>4, <2>7, <2>8, <2>10
       DEF DeliveryInv, CopyCounts, WithinAttempts, CallFits, PermitIsFresh, RunOutcomes
<1>8. QED
  BY <1>1, <1>2, <1>5, <1>6, <1>7

\* Sending, and what comes back.
LEMMA SendSteps ==
  ASSUME DeliveryInv, Send
  PROVE  DeliveryInv'
<1>0. mem \in DeliveryState /\ Len(mem.attempts) \in Nat /\ call \in Calls
  BY DEF DeliveryInv, TypeOK, DeliveryState
<1>1. CASE Order \/ OrderFails \/ Reserve \/ ReserveRefused \/ ReserveFails
  BY <1>1, ReserveSteps
<1>2. ASSUME NEW response \in Responses, Mutate(response)  PROVE DeliveryInv'
  <2>. DEFINE n == Len(mem.attempts)
  <2>1. /\ pc = "mutate" /\ pc' = "record" /\ mem' = mem
        /\ sent' = sent \cup {n} /\ inflight' \subseteq inflight \cup {n}
        /\ call' = [call EXCEPT !.result = response]
        /\ Keep /\ UNCHANGED <<durable, remote, applied>>
    BY <1>2 DEF Mutate, Goto
  <2>2. n = Len(state.attempts) /\ n # 0
    BY <2>1 DEF DeliveryInv, CopyCounts, PermitIsFresh
  <2>3. n \in DOMAIN state.attempts
    BY <1>0, <2>2 DEF DeliveryInv, TypeOK, DeliveryState
  <2>4. inflight' \subseteq sent' /\ sent' \subseteq DOMAIN state'.attempts
    BY <1>2, <2>1, <2>3 DEF Mutate, DeliveryInv, TypeOK, durable
  <2>5. call' \in Calls /\ call'.at = call.at
    BY <1>0, <2>1 DEF Calls
  <2>6. TypeOK'
    BY <2>1, <2>4, <2>5 DEF DeliveryInv, TypeOK, Steps, Keep, durable
  <2>7. QED
    BY <2>1, <2>5, <2>6 DEF durable, Keep, DeliveryInv, CopyCounts, WithinAttempts, CallFits, PermitIsFresh
<1>3. CASE Record
  <2>. DEFINE o == call.at
  <2>1. pc = "record" /\ o \in Operations
    BY <1>3 DEF Record, DeliveryInv, CallFits
  <2>2. PICK outcome \in AttemptOutcomes, value \in OperationStates :
          SaveState("readback", SetOperation(MarkAttempt(mem, o, outcome), o, value))
    BY <1>3 DEF Record, AttemptOutcomes, OperationStates
  <2>. DEFINE s == SetOperation(MarkAttempt(mem, o, outcome), o, value)
  <2>3. s \in DeliveryState /\ Len(s.attempts) = Len(mem.attempts)
    BY <1>0, <2>1, MarkAttemptTyped, SetOperationTyped
  <2>. HIDE DEF s
  <2>4. SaveState("readback", s) /\ pc' = "readback"
    BY <2>2 DEF s, SaveState, Goto
  <2>5. call' \in Calls /\ CallFits'
    BY <1>0, <1>3, <2>1, <2>4 DEF Record, CallFits
  <2>6. QED
    BY <1>0, <1>3, <2>1, <2>3, <2>4, <2>5, SaveStep
       DEF Record, DeliveryInv, CopyCounts, WithinAttempts, Steps
<1>4. CASE ReadbackAcknowledged
  BY <1>4, AcknowledgeStep DEF ReadbackAcknowledged, AtOperation
<1>5. ASSUME NEW o \in Operations, ReadbackAbsent(o)  PROVE DeliveryInv'
  <2>. DEFINE r == Observed(o, "absent")
              s == MarkAttempt(r, o, "not_observed")
  <2>1. r \in DeliveryState /\ r.attempts = mem.attempts
    BY ObservedTyped DEF DeliveryInv
  <2>. HIDE DEF r
  <2>2. s \in DeliveryState /\ Len(s.attempts) = Len(mem.attempts)
    <3>1. "not_observed" \in AttemptOutcomes
      BY DEF AttemptOutcomes
    <3>2. s \in DeliveryState /\ Len(s.attempts) = Len(r.attempts)
      BY <2>1, <3>1, MarkAttemptTyped
    <3>3. QED
      BY <2>1, <3>2
  <2>. HIDE DEF s
  <2>3. \A status \in {"ambiguous", "approved"} :
          SetStatus(s, status) \in DeliveryState /\ SetStatus(s, status).attempts = s.attempts
    BY <2>2, SetStatusTyped DEF Statuses
  <2>4. \E status \in {"ambiguous", "approved"}, outcome \in {"ambiguous", "failed"} :
          Finish(SetStatus(s, status), outcome)
    BY <1>5 DEF ReadbackAbsent, r, s
  <2>5. pc = "readback" /\ Local
    BY <1>5 DEF ReadbackAbsent, AtOperation
  <2>6. QED
    BY <2>2, <2>3, <2>4, <2>5, FinishStep DEF RunOutcomes
<1>6. ASSUME NEW o \in Operations, NEW seen \in {"error", "conflict"}, ReadbackFails(o, seen)
      PROVE  DeliveryInv'
  <2>. DEFINE s == Observed(o, seen)
              marked == MarkAttempt(s, o, "ambiguous")
              t == SetOperation(marked, o, "ambiguous")
  <2>1. s \in DeliveryState /\ s.attempts = mem.attempts
    BY ObservedTyped DEF DeliveryInv
  <2>. HIDE DEF s
  <2>2. marked \in DeliveryState /\ Len(marked.attempts) = Len(mem.attempts)
    <3>1. "ambiguous" \in AttemptOutcomes
      BY DEF AttemptOutcomes
    <3>2. marked \in DeliveryState /\ Len(marked.attempts) = Len(s.attempts)
      BY <2>1, <3>1, MarkAttemptTyped
    <3>3. QED
      BY <2>1, <3>2
  <2>. HIDE DEF marked
  <2>3. t \in DeliveryState /\ Len(t.attempts) = Len(mem.attempts)
    BY <2>2, SetOperationTyped DEF OperationStates
  <2>. HIDE DEF t
  <2>4. /\ SetStatus(s, "blocked") \in DeliveryState
        /\ Len(SetStatus(s, "blocked").attempts) = Len(mem.attempts)
        /\ SetStatus(t, "ambiguous") \in DeliveryState
        /\ Len(SetStatus(t, "ambiguous").attempts) = Len(mem.attempts)
    BY <2>1, <2>3, SetStatusTyped DEF Statuses
  <2>5. \/ Finish(SetStatus(s, "blocked"), "failed")
        \/ Finish(SetStatus(t, "ambiguous"), "ambiguous")
    BY <1>6 DEF ReadbackFails, s, t, marked
  <2>6. pc = "readback" /\ Local
    BY <1>6 DEF ReadbackFails, AtOperation
  <2>7. QED
    BY <2>4, <2>5, <2>6, FinishStep DEF RunOutcomes
<1>7. QED
  BY <1>1, <1>2, <1>3, <1>4, <1>5, <1>6 DEF Send

\* Closing an invocation, whether it ends or is ended.
LEMMA CloseSteps ==
  ASSUME DeliveryInv, Close
  PROVE  DeliveryInv'
<1>0. mem \in DeliveryState /\ Len(mem.attempts) \in Nat /\ Len(state.attempts) \in Nat
  BY DEF DeliveryInv, TypeOK, DeliveryState
<1>1. NoState \in DeliveryState /\ Len(NoState.attempts) = 0 /\ NoCall \in Calls
  BY FreshTyped DEF NoState, Statuses, NoCall, Calls
<1>2. CASE Conclude
  <2>1. \A status \in {"cancelled", "completed", "approved"} :
          SetStatus(mem, status) \in DeliveryState /\ SetStatus(mem, status).attempts = mem.attempts
    BY <1>0, SetStatusTyped DEF Statuses
  <2>2. \E status \in {"cancelled", "completed", "approved"}, outcome \in RunOutcomes :
          Finish(SetStatus(mem, status), outcome)
    BY <1>2 DEF Conclude, RunOutcomes
  <2>3. pc = "observe" /\ Local
    BY <1>2 DEF Conclude
  <2>4. QED
    BY <2>1, <2>2, <2>3, FinishStep
<1>3. CASE SaveFinal
  <2>1. call' \in Calls /\ CallFits'
    BY <1>3 DEF SaveFinal, SaveState, Goto, DeliveryInv, TypeOK, CallFits
  <2>2. QED
    BY <1>0, <1>3, <2>1, SaveStep
       DEF SaveFinal, DeliveryInv, CopyCounts, WithinAttempts, Steps
<1>4. CASE SealRun
  <2>1. call.result \in RunOutcomes /\ invocations \in Nat
    BY <1>4, OutboxAssumption DEF SealRun, DeliveryInv, CallFits, TypeOK
  <2>2. runs' \in Seq(SealedRun)
    BY <1>0, <1>4, <2>1
       DEF SealRun, AppendRun, AttemptsOfRun, SealedRun, DeliveryInv, TypeOK, DeliveryState
  <2>3. QED
    BY <1>4, <2>2 DEF SealRun, Goto, Keep, destination, DeliveryInv, TypeOK, CopyCounts,
       WithinAttempts, CallFits, PermitIsFresh, Steps
<1>5. CASE CloseRun
  BY <1>5 DEF CloseRun, NoRun, Goto, Keep, destination, DeliveryInv, TypeOK, CopyCounts,
     WithinAttempts, CallFits, PermitIsFresh, Steps
<1>6. CASE WriteReceipt
  BY <1>1, <1>6, OutboxAssumption DEF WriteReceipt, Goto, Keep, destination, DeliveryInv, TypeOK, CopyCounts,
     WithinAttempts, CallFits, PermitIsFresh, Steps
<1>7. CASE Stop
  BY <1>1, <1>7, OutboxAssumption DEF Stop, Goto, durable, destination, DeliveryInv, TypeOK, CopyCounts,
     WithinAttempts, CallFits, PermitIsFresh, Steps
<1>8. CASE StopSealing
  BY <1>1, <1>8, OutboxAssumption DEF StopSealing, Goto, Keep, destination, DeliveryInv, TypeOK, CopyCounts,
     WithinAttempts, CallFits, PermitIsFresh, Steps
<1>9. QED
  BY <1>2, <1>3, <1>4, <1>5, <1>6, <1>7, <1>8 DEF Close

\* So do cancellation, expiry, time and the destination.
LEMMA WorldSteps ==
  ASSUME DeliveryInv, World
  PROVE  DeliveryInv'
<1>1. CASE Cancel
  BY <1>1 DEF Cancel, durable, destination, DeliveryInv, TypeOK, CopyCounts, WithinAttempts,
     CallFits, PermitIsFresh
<1>2. CASE Expire
  BY <1>2 DEF Expire, durable, destination, DeliveryInv, TypeOK, CopyCounts, WithinAttempts,
     CallFits, PermitIsFresh
<1>3. ASSUME NEW n \in inflight, Apply(n)  PROVE DeliveryInv'
  <2>0. state.attempts[n].op \in Operations
    <3>1. state.attempts \in Seq(Attempt) /\ n \in DOMAIN state.attempts
      BY DEF DeliveryInv, TypeOK, DeliveryState
    <3>2. state.attempts[n] \in Attempt
      BY <3>1
    <3>3. QED
      BY <3>2 DEF Attempt
  <2>1. /\ remote' \in [Operations -> {"none", "same", "other"}]
        /\ applied' \subseteq Operations /\ inflight' \subseteq sent'
    BY <1>3, <2>0 DEF Apply, DeliveryInv, TypeOK
  <2>2. UNCHANGED <<durable, cancelled, ordering, expired, sent, pc, mem, call, invocations>>
    BY <1>3 DEF Apply
  <2>3. QED
    BY <2>1, <2>2 DEF durable, DeliveryInv, TypeOK, CopyCounts, WithinAttempts, CallFits,
       PermitIsFresh
<1>4. ASSUME NEW o \in Operations, Occupy(o) \/ Lose(o)  PROVE DeliveryInv'
  BY <1>4 DEF Occupy, Lose, durable, DeliveryInv, TypeOK, CopyCounts, WithinAttempts,
     CallFits, PermitIsFresh
<1>5. QED
  BY <1>1, <1>2, <1>3, <1>4 DEF World

-----------------------------------------------------------------------------
(* The theorems.                                                           *)

\* It holds at first, and every step keeps it.
LEMMA InitInv ==
  ASSUME Init
  PROVE  DeliveryInv
<1>1. NoState \in DeliveryState /\ NoState.attempts = <<>> /\ NoCall \in Calls
  BY FreshTyped DEF NoState, Fresh, Statuses, NoCall, Calls
<1>2. <<>> \in Seq(SealedRun) /\ Len(NoState.attempts) = 0
  BY <1>1
<1>3. TypeOK
  <2>1. [o \in Operations |-> "none"] \in [Operations -> {"none", "same", "other"}]
    OBVIOUS
  <2>2. NoRun \in [sequence : Nat, invocation : Nat] /\ 0 \in 0 .. MaxInvocations
    BY OutboxAssumption DEF NoRun
  <2>3. QED
    BY <1>1, <1>2, <2>1, <2>2 DEF Init, TypeOK, Steps
<1>4. QED
  BY <1>2, <1>3, OutboxAssumption
     DEF Init, DeliveryInv, CopyCounts, WithinAttempts, CallFits, PermitIsFresh

\* Every step preserves the invariant.
LEMMA StepInv ==
  ASSUME DeliveryInv, [Next]_vars
  PROVE  DeliveryInv'
<1>1. CASE Next
  BY <1>1, OpenSteps, ObserveSteps, SendSteps, CloseSteps, WorldSteps DEF Next
<1>2. CASE UNCHANGED vars
  BY <1>2 DEF vars, durable, destination, DeliveryInv, TypeOK, CopyCounts, WithinAttempts,
     CallFits, PermitIsFresh
<1>3. QED
  BY <1>1, <1>2

\* For every outbox, every approval and every destination, what a delivery makes durable
\* is of the form its own validation accepts, whatever crashes.
THEOREM DeliveryInvariant == Spec => []DeliveryInv
<1>1. Init => DeliveryInv
  BY InitInv
<1>2. DeliveryInv /\ [Next]_vars => DeliveryInv'
  BY StepInv
<1>3. QED
  BY <1>1, <1>2, PTL DEF Spec

\* Whatever crashes and fails, the documents of a delivery stay of the form that
\* validateApprovedState accepts (approved_delivery_store.go:50).
THEOREM DeliveryWellFormed == Spec => []TypeOK
<1>1. DeliveryInv => TypeOK
  BY DEF DeliveryInv
<1>2. QED
  BY <1>1, DeliveryInvariant, PTL

\* How a step changes what the authority sees.
Permit == IF pc = "mutate" THEN Len(mem.attempts) ELSE 0
Seen == <<Len(state.attempts), Permit, sent, cancelled>>

\* A step that counts no attempt, sends nothing and cancels nothing at most gives up the
\* permit.
LEMMA QuietStep ==
  ASSUME Len(state'.attempts) = Len(state.attempts), UNCHANGED <<sent, cancelled>>,
         pc' # "mutate"
  PROVE  Authority!Next
BY DEF Authority!Abandon, Authority!Next

\* Group by group, every step is a step of the authority or none.
LEMMA OpenRefines ==
  ASSUME DeliveryInv, Open
  PROVE  Authority!Next
<1>1. Len(state'.attempts) = Len(state.attempts)
  <2>1. CASE Initialize
    <3>1. state = NoState
      BY <2>1 DEF Initialize, DeliveryInv, CopyCounts
    <3>2. Len(state'.attempts) = 0
      BY <2>1, FreshTyped DEF Initialize, SaveState, Persist, Statuses
    <3>3. QED
      BY <3>1, <3>2, FreshTyped DEF NoState, Statuses
  <2>2. CASE StartRun
    <3>1. \E status \in Statuses : state' = mem \/ state' = SetStatus(mem, status)
      BY <2>2 DEF StartRun, SaveState, Persist, Statuses
    <3>2. state'.attempts = mem.attempts
      BY <3>1, SetStatusTyped DEF DeliveryInv, TypeOK
    <3>3. QED
      BY <2>2, <3>2 DEF StartRun, DeliveryInv, CopyCounts
  <2>3. CASE ~(Initialize \/ StartRun)
    BY <2>3 DEF Open, Begin, SealAuthority, Resume, SealInterrupted, RemoveActive, OpenRun,
       Plan, Local, durable
  <2>4. QED
    BY <2>1, <2>2, <2>3
<1>2. UNCHANGED <<sent, cancelled>> /\ pc' # "mutate"
  BY DEF Open, Begin, SealAuthority, Initialize, Resume, SealInterrupted, RemoveActive,
     OpenRun, StartRun, Plan, Recovering, Finish, SaveState, Goto, Local, Keep, destination
<1>3. QED
  BY <1>1, <1>2, QuietStep

\* What is acknowledged because it was there already counts no attempt and sends nothing.
LEMMA AcknowledgeRefines ==
  ASSUME DeliveryInv, NEW o \in Operations, Acknowledge(o, "observe"),
         pc \in {"observe", "readback"}
  PROVE  Authority!Next
<1>. DEFINE s == MarkAttempt(Observed(o, "observed"), o, "acknowledged")
<1>1. Len(s.attempts) = Len(state.attempts)
  <2>1. s \in DeliveryState /\ Len(s.attempts) = Len(mem.attempts)
    BY AcknowledgedTyped
  <2>. HIDE DEF s
  <2>2. QED
    BY <2>1 DEF DeliveryInv, CopyCounts
<1>2. state' = s /\ pc' = "observe" /\ UNCHANGED <<sent, cancelled>>
  BY DEF Acknowledge, SaveState, Persist, Goto, Keep, destination
<1>3. QED
  BY <1>1, <1>2, QuietStep

\* Every outcome of a look at the destination is a step of the authority.
LEMMA ObserveRefines ==
  ASSUME DeliveryInv, Observe
  PROVE  Authority!Next
<1>1. CASE ObserveAcknowledged
  BY <1>1, AcknowledgeRefines DEF ObserveAcknowledged, AtOperation
<1>2. CASE ~ObserveAcknowledged
  <2>1. UNCHANGED <<state, sent, cancelled>> /\ pc' # "mutate"
    BY <1>2 DEF Observe, Skip, ObserveFails, ObserveAbsent, AtOperation, Finish, Goto, Local,
       Keep, durable, destination
  <2>2. QED
    BY <2>1, QuietStep
<1>3. QED
  BY <1>1, <1>2

\* A durable reservation is the permit, a request that leaves uses it up, and a
\* reservation that could not be made durable is counted without one.
LEMMA SendRefines ==
  ASSUME DeliveryInv, Send
  PROVE  Authority!Next
<1>0. mem \in DeliveryState /\ Len(mem.attempts) \in Nat /\ Len(state.attempts) \in Nat
  BY DEF DeliveryInv, TypeOK, DeliveryState
<1>1. CASE Reserve \/ ReserveFails
  <2>1. /\ pc = "reserve" /\ ~cancelled /\ call.at \in Operations
        /\ Len(mem.attempts) = Len(state.attempts) /\ Len(mem.attempts) < MaxAttempts
    BY <1>0, <1>1, OutboxAssumption
       DEF Reserve, ReserveFails, OutOfAttempts, DeliveryInv, CopyCounts, CallFits, PermitIsFresh
  <2>2. Len(Reserved(mem, call.at).attempts) = Len(state.attempts) + 1
    BY <1>0, <2>1, ReservedTyped DEF DeliveryInv, TypeOK
  <2>3. CASE Reserve
    BY <2>1, <2>2, <2>3
       DEF Reserve, SaveState, Persist, Goto, destination, Authority!Grant, Authority!Count,
           Authority!Next
  <2>4. CASE ReserveFails
    <3>1. pc' = "finish" /\ UNCHANGED <<sent, cancelled>>
      BY <2>4 DEF ReserveFails, Finish, Goto, destination
    <3>2. CASE UNCHANGED state
      BY <3>1, <3>2, QuietStep
    <3>3. CASE state' = Reserved(mem, call.at)
      BY <2>1, <2>2, <3>1, <3>3
         DEF Authority!Forfeit, Authority!Count, Authority!Next
    <3>4. QED
      BY <2>4, <3>2, <3>3 DEF ReserveFails, Persist
  <2>5. QED
    BY <1>1, <2>3, <2>4
<1>2. ASSUME NEW response \in Responses, Mutate(response)  PROVE Authority!Next
  <2>1. /\ pc = "mutate" /\ pc' = "record" /\ sent' = sent \cup {Len(mem.attempts)}
        /\ UNCHANGED <<state, cancelled>>
    BY <1>2 DEF Mutate, Goto, Keep, durable
  <2>2. Len(mem.attempts) # 0 /\ Len(mem.attempts) \notin sent
    BY <2>1 DEF DeliveryInv, PermitIsFresh
  <2>3. QED
    BY <2>1, <2>2 DEF Authority!Spend, Authority!Next
<1>3. CASE Record
  <2>1. PICK outcome \in AttemptOutcomes, value \in OperationStates :
          state' = SetOperation(MarkAttempt(mem, call.at, outcome), call.at, value)
    BY <1>3 DEF Record, SaveState, Persist, AttemptOutcomes, OperationStates
  <2>2. call.at \in Operations /\ Len(mem.attempts) = Len(state.attempts)
    BY <1>3 DEF Record, DeliveryInv, CallFits, CopyCounts
  <2>3. Len(state'.attempts) = Len(mem.attempts)
    BY <1>0, <2>1, <2>2, MarkAttemptTyped, SetOperationTyped
  <2>4. QED
    BY <1>3, <2>2, <2>3, QuietStep DEF Record, SaveState, Goto, Keep, destination
<1>4. CASE ReadbackAcknowledged
  BY <1>4, AcknowledgeRefines DEF ReadbackAcknowledged, AtOperation
<1>5. CASE Order
  BY <1>5, QuietStep DEF Order, Finish, Goto, durable, destination
<1>6. CASE OrderFails
  BY <1>6, QuietStep DEF OrderFails, Finish, Goto, Local, Keep, durable, destination
<1>7. CASE ReserveRefused
  BY <1>7, QuietStep DEF ReserveRefused, Finish, Goto, durable, destination
<1>8. ASSUME NEW o \in Operations, NEW seen \in {"error", "conflict"},
             ReadbackAbsent(o) \/ ReadbackFails(o, seen)
      PROVE  Authority!Next
  BY <1>8, QuietStep
     DEF ReadbackAbsent, ReadbackFails, Finish, Goto, Local, Keep, durable, destination
<1>9. ASSUME NEW o \in Operations, ReadbackAbsent(o)  PROVE Authority!Next
  BY <1>9, QuietStep DEF ReadbackAbsent, Finish, Goto, Local, Keep, durable, destination
<1>10. QED
  BY <1>1, <1>2, <1>3, <1>4, <1>5, <1>6, <1>7, <1>8, <1>9 DEF Send

\* The end of an invocation is one, also where it saves a reservation that was never sent.
LEMMA CloseRefines ==
  ASSUME DeliveryInv, Close
  PROVE  Authority!Next
<1>0. Len(mem.attempts) \in Nat /\ Len(state.attempts) \in Nat
  BY DEF DeliveryInv, TypeOK, DeliveryState
<1>1. UNCHANGED <<sent, cancelled>> /\ pc' # "mutate"
  BY DEF Close, Conclude, SaveFinal, SealRun, CloseRun, WriteReceipt, Stop, StopSealing,
     Finish, SaveState, Goto, Local, Keep, durable, destination
<1>2. CASE SaveFinal
  <2>1. /\ pc = "finish" /\ state' = mem /\ Len(mem.attempts) <= MaxAttempts
        /\ Len(mem.attempts) \in {Len(state.attempts), Len(state.attempts) + 1}
    BY <1>2 DEF SaveFinal, SaveState, Persist, DeliveryInv, CopyCounts, WithinAttempts
  <2>2. CASE Len(mem.attempts) = Len(state.attempts)
    BY <1>1, <2>1, <2>2, QuietStep
  <2>3. CASE Len(mem.attempts) = Len(state.attempts) + 1
    BY <1>0, <1>1, <2>1, <2>3, OutboxAssumption
       DEF Authority!Forfeit, Authority!Count, Authority!Next
  <2>4. QED
    BY <2>1, <2>2, <2>3
<1>3. CASE ~SaveFinal
  <2>1. UNCHANGED state
    BY <1>3 DEF Close, Conclude, SealRun, CloseRun, WriteReceipt, Stop, StopSealing,
       Local, durable
  <2>2. QED
    BY <1>1, <2>1, QuietStep
<1>4. QED
  BY <1>2, <1>3

\* What others do revokes the authority or leaves it alone.
LEMMA WorldRefines ==
  ASSUME World
  PROVE  Authority!Next \/ UNCHANGED Seen
<1>1. CASE Cancel
  BY <1>1 DEF Cancel, durable, destination, Authority!Revoke, Authority!Next
<1>2. CASE ~Cancel
  BY <1>2 DEF World, Expire, Apply, Occupy, Lose, durable, destination, Seen, Permit
<1>3. QED
  BY <1>1, <1>2

\* For every outbox, every approval and every destination: a request leaves only for an
\* attempt that was durably reserved for it, each attempt once, never more than the
\* approval allows, and none that was reserved after the cancellation was durable.
THEOREM DeliveryKeepsAuthority == Spec => AuthorityImplemented
<1>1. Init => Authority!Init
  <2>1. NoState.attempts = <<>>
    BY DEF NoState, Fresh
  <2>2. QED
    BY <2>1 DEF Init, Authority!Init
<1>2. DeliveryInv /\ [Next]_vars => [Authority!Next]_Seen
  <2>1. ASSUME DeliveryInv, Next  PROVE Authority!Next \/ UNCHANGED Seen
    BY <2>1, OpenRefines, ObserveRefines, SendRefines, CloseRefines, WorldRefines DEF Next
  <2>2. UNCHANGED vars => UNCHANGED Seen
    BY DEF vars, durable, destination, Seen, Permit
  <2>3. QED
    BY <2>1, <2>2
<1>3. QED
  BY <1>1, <1>2, DeliveryInvariant, PTL DEF Spec, AuthorityImplemented, Authority!Spec, Seen, Permit

-----------------------------------------------------------------------------
(* What the documents tell of the runs.  The copy of an invocation agrees  *)
(* with the durable state on every attempt but one that is still to be     *)
(* saved, and an attempt of no sealed run is of the one that is open.      *)

\* Two sequences of attempts for the same operations in the same runs.
SameStory(a, b) ==
  /\ Len(a) = Len(b)
  /\ \A i \in DOMAIN a : a[i].op = b[i].op /\ a[i].run = b[i].run

\* What comes after the durable attempts belongs to the run that is open.
Continues(attempts) ==
  /\ Len(state.attempts) <= Len(attempts)
  /\ \A i \in DOMAIN attempts :
       IF i \in DOMAIN state.attempts
         THEN /\ attempts[i].op = state.attempts[i].op
              /\ attempts[i].run = state.attempts[i].run
         ELSE attempts[i].run = Len(runs) + 1 /\ active.sequence = Len(runs) + 1

CopyAgrees ==
  pc \notin {"idle", "authorise", "initialize"} => Continues(mem.attempts)

OpenAttempts ==
  \A i \in DOMAIN state.attempts :
    \/ state.attempts[i].run \in DOMAIN runs
    \/ state.attempts[i].run = Len(runs) + 1 /\ active.sequence = Len(runs) + 1

\* The steps between the opening and the sealing of a run.
Running == {"open", "plan", "observe", "order", "reserve", "mutate", "record",
            "readback", "finish", "seal"}

ActiveFits ==
  /\ pc \in Running => active = [sequence |-> Len(runs) + 1, invocation |-> invocations]
  /\ pc = "close" => /\ active = [sequence |-> Len(runs), invocation |-> invocations]
                     /\ Len(runs) # 0 /\ runs[Len(runs)].invocation = invocations
  /\ pc = "receipt" => active = NoRun

RecordInv == RecordsAgree /\ CopyAgrees /\ OpenAttempts /\ ActiveFits

-----------------------------------------------------------------------------
(* What the operators on a state tell of its attempts.                     *)

\* Marking an attempt rewrites no story, and nothing else of the state.
LEMMA MarkAttemptStory ==
  ASSUME NEW s \in DeliveryState, NEW o \in Operations, NEW outcome \in AttemptOutcomes
  PROVE  LET t == MarkAttempt(s, o, outcome)
         IN /\ SameStory(t.attempts, s.attempts)
            /\ t.op = s.op /\ t.status = s.status /\ t.cancelled = s.cancelled
<1>. DEFINE n == Latest(s, o)
            q == s.attempts
            marked == [q EXCEPT ![n].outcome = outcome]
<1>1. q \in Seq(Attempt)
  BY DEF DeliveryState
<1>2. SameStory(marked, q)
  <2>. DEFINE e == [q[n] EXCEPT !.outcome = outcome]
  <2>1. marked = [q EXCEPT ![n] = e]
    OBVIOUS
  <2>2. CASE n \in 1 .. Len(q)
    <3>1. q[n] \in Attempt
      BY <1>1, <2>2
    <3>2. e \in Attempt /\ e.op = q[n].op /\ e.run = q[n].run
      BY <3>1 DEF Attempt
    <3>. HIDE DEF e, n
    <3>3. QED
      BY <1>1, <2>1, <2>2, <3>2, ExceptSeq DEF SameStory
  <2>3. CASE n \notin 1 .. Len(q)
    <3>. HIDE DEF e, n
    <3>1. marked = q
      BY <1>1, <2>1, <2>3
    <3>2. QED
      BY <3>1 DEF SameStory
  <2>4. QED
    BY <2>2, <2>3
<1>3. CASE Attempted(s, o)
  <2>1. MarkAttempt(s, o, outcome) = [s EXCEPT !.attempts = marked]
    BY <1>3 DEF MarkAttempt, DeliveryState
  <2>. HIDE DEF marked, q
  <2>2. /\ [s EXCEPT !.attempts = marked].attempts = marked
        /\ \A f \in {"op", "status", "cancelled"} : [s EXCEPT !.attempts = marked][f] = s[f]
    BY DEF DeliveryState
  <2>3. QED
    BY <1>2, <2>1, <2>2 DEF q
<1>4. CASE ~Attempted(s, o)
  BY <1>4 DEF MarkAttempt, SameStory
<1>5. QED
  BY <1>3, <1>4

\* A reservation adds an attempt of the run that is open.
LEMMA ReservedStory ==
  ASSUME NEW s \in DeliveryState, NEW o \in Operations, runs \in Seq(SealedRun)
  PROVE  LET t == Reserved(s, o)
         IN /\ t.status = "delivering" /\ t.cancelled = s.cancelled
            /\ t.op = [s.op EXCEPT ![o] = "reserved"]
            /\ t.attempts = Append(s.attempts,
                 [op |-> o, run |-> Len(runs) + 1, outcome |-> "reserved"])
<1>. DEFINE longer == Append(s.attempts, [op |-> o, run |-> Len(runs) + 1, outcome |-> "reserved"])
            op == [s.op EXCEPT ![o] = "reserved"]
<1>1. Reserved(s, o) = [s EXCEPT !.status = "delivering", !.op = op,
                                 !.unique = s.unique \cup {o}, !.attempts = longer]
  BY DEF Reserved, DeliveryState
<1>. HIDE DEF longer, op
<1>2. LET t == [s EXCEPT !.status = "delivering", !.op = op,
                         !.unique = s.unique \cup {o}, !.attempts = longer]
      IN /\ t.status = "delivering" /\ t.cancelled = s.cancelled
         /\ t.op = op /\ t.attempts = longer
  BY DEF DeliveryState
<1>3. QED
  BY <1>1, <1>2 DEF longer, op

-----------------------------------------------------------------------------
(* The steps of an invocation, on the runs.                                *)

\* While a run is open, a copy of the same story continues the durable one.
LEMMA SameStoryContinues ==
  ASSUME DeliveryInv, RecordInv, pc \notin {"idle", "authorise", "initialize"},
         NEW s \in DeliveryState, SameStory(s.attempts, mem.attempts)
  PROVE  Continues(s.attempts)
BY DEF DeliveryInv, TypeOK, DeliveryState, RecordInv, CopyAgrees, Continues, SameStory

\* A state that continues the durable one may replace it.
LEMMA RecordSaved ==
  ASSUME DeliveryInv, RecordInv, Continues(state'.attempts), state' \in DeliveryState,
         UNCHANGED <<runs, active>>, ~receipt',
         CopyAgrees', ActiveFits'
  PROVE  RecordInv'
<1>1. ActiveRunMatches'
  BY DEF RecordInv, RecordsAgree, ActiveRunMatches
<1>2. state.attempts \in Seq(Attempt) /\ state'.attempts \in Seq(Attempt) /\ runs \in Seq(SealedRun)
  BY DEF DeliveryInv, TypeOK, DeliveryState
<1>3. RunsAttributed'
  <2>. SUFFICES ASSUME NEW n \in DOMAIN runs
                PROVE  AttemptsOfRun(state', n) = AttemptsOfRun(state, n)
    BY DEF RecordInv, RecordsAgree, RunsAttributed, AttemptsOfRun
  <2>1. n # Len(runs) + 1
    BY <1>2
  <2>2. \A i : i \in DOMAIN state'.attempts /\ state'.attempts[i].run = n
               <=> i \in DOMAIN state.attempts /\ state.attempts[i].run = n
    BY <1>2, <2>1 DEF Continues
  <2>3. QED
    BY <2>2 DEF AttemptsOfRun
<1>4. OpenAttempts'
  BY <1>2 DEF RecordInv, OpenAttempts, Continues
<1>5. QED
  BY <1>1, <1>3, <1>4 DEF RecordInv, RecordsAgree, ReceiptIsWhole

\* A step that makes nothing durable.
LEMMA RecordLocal ==
  ASSUME DeliveryInv, RecordInv, UNCHANGED <<state, runs, active, receipt, invocations>>,
         pc \notin {"idle", "authorise", "initialize"},
         mem' \in DeliveryState, SameStory(mem'.attempts, mem.attempts),
         pc' \in Running => pc \in Running, pc' \notin {"close", "receipt"}
  PROVE  RecordInv' /\ Continues(state'.attempts)
<1>0. Continues(mem'.attempts)
  BY SameStoryContinues
<1>1. Continues(state'.attempts)
  BY DEF Continues, DeliveryInv, TypeOK, DeliveryState
<1>2. CopyAgrees'
  BY <1>0 DEF CopyAgrees, Continues
<1>3. ActiveFits'
  BY DEF RecordInv, ActiveFits
<1>4. QED
  BY <1>1, <1>2, <1>3
     DEF RecordInv, RecordsAgree, ActiveRunMatches, RunsAttributed, AttemptsOfRun,
         ReceiptIsWhole, OpenAttempts

\* A step that makes the copy durable.
LEMMA RecordSave ==
  ASSUME DeliveryInv, RecordInv, NEW s \in DeliveryState, NEW step \in Running,
         SaveState(step, s), Keep, pc \in Running, Continues(s.attempts)
  PROVE  RecordInv' /\ Continues(state'.attempts)
<1>1. /\ state' = s /\ mem' = s /\ pc' = step /\ receipt' = FALSE
      /\ UNCHANGED <<runs, active, invocations>>
  BY DEF SaveState, Persist, Goto, Keep
<1>2. Continues(s.attempts)'
  BY <1>1 DEF Continues, DeliveryState
<1>3. CopyAgrees' /\ ActiveFits'
  BY <1>1, <1>2 DEF CopyAgrees, Continues, RecordInv, ActiveFits, Running
<1>4. QED
  BY <1>1, <1>3, RecordSaved

\* Sealing the run that is open takes in every attempt of it.
LEMMA RecordSealed ==
  ASSUME DeliveryInv, RecordInv, NEW outcome \in RunOutcomes,
         AppendRun(mem, outcome, active.invocation),
         pc \in {"recover", "seal"}, active.sequence = Len(runs) + 1,
         UNCHANGED <<state, active, mem, invocations>>, ~receipt',
         pc' = IF pc = "seal" THEN "close" ELSE "recover"
  PROVE  RecordInv' /\ Continues(state'.attempts)
<1>. DEFINE n == Len(runs) + 1
            run == [outcome |-> outcome, invocation |-> active.invocation,
                    attempts |-> AttemptsOfRun(mem, n)]
<1>1. /\ state.attempts \in Seq(Attempt) /\ mem.attempts \in Seq(Attempt)
      /\ runs \in Seq(SealedRun) /\ Len(mem.attempts) = Len(state.attempts)
      /\ active \in [sequence : Nat, invocation : Nat]
  BY DEF DeliveryInv, TypeOK, DeliveryState, CopyCounts
<1>2. runs' = Append(runs, run)
  BY DEF AppendRun
<1>3. run \in SealedRun
  BY <1>1 DEF SealedRun, AttemptsOfRun
<1>4. run.attempts = AttemptsOfRun(state, n) /\ run.invocation = active.invocation
  BY <1>1 DEF AttemptsOfRun, RecordInv, CopyAgrees, Continues
<1>. HIDE DEF run
<1>5. /\ DOMAIN runs' = 1 .. n /\ Len(runs') = n /\ runs'[n] = run
      /\ \A i \in DOMAIN runs : runs'[i] = runs[i]
      /\ DOMAIN runs = 1 .. Len(runs) /\ n \in Nat /\ n # 0
  BY <1>1, <1>2, <1>3
<1>6. ActiveRunMatches'
  BY <1>4, <1>5 DEF ActiveRunMatches
<1>7. RunsAttributed'
  <2>. SUFFICES ASSUME NEW i \in DOMAIN runs'
                PROVE  runs'[i].attempts = AttemptsOfRun(state, i)
    BY DEF RunsAttributed, AttemptsOfRun
  <2>1. CASE i = n
    BY <1>4, <1>5, <2>1
  <2>2. CASE i # n
    BY <1>5, <2>2 DEF RecordInv, RecordsAgree, RunsAttributed
  <2>3. QED
    BY <2>1, <2>2
<1>8. OpenAttempts'
  BY <1>5 DEF RecordInv, OpenAttempts
<1>9. CopyAgrees'
  BY <1>1, <1>5 DEF RecordInv, CopyAgrees, Continues
<1>10. ActiveFits'
  BY <1>1, <1>4, <1>5 DEF RecordInv, ActiveFits, Running
<1>11. Continues(state'.attempts)
  BY <1>1 DEF Continues
<1>12. QED
  BY <1>6, <1>7, <1>8, <1>9, <1>10, <1>11 DEF RecordInv, RecordsAgree, ReceiptIsWhole

\* An active run gives way to none only when it was sealed.
LEMMA RecordClosed ==
  ASSUME DeliveryInv, RecordInv, UNCHANGED <<state, runs, receipt, mem, invocations>>,
         active.sequence \in DOMAIN runs, active' = NoRun,
         pc \in {"recover", "close"}, pc' = IF pc = "close" THEN "receipt" ELSE "recover"
  PROVE  RecordInv' /\ Continues(state'.attempts)
<1>1. /\ state.attempts \in Seq(Attempt) /\ runs \in Seq(SealedRun) /\ mem.attempts \in Seq(Attempt)
      /\ Len(mem.attempts) = Len(state.attempts)
  BY DEF DeliveryInv, TypeOK, DeliveryState, CopyCounts
<1>2. active.sequence # Len(runs) + 1
  BY <1>1
<1>3. OpenAttempts'
  BY <1>2 DEF RecordInv, OpenAttempts
<1>4. CopyAgrees' /\ Continues(state'.attempts)
  BY <1>1 DEF RecordInv, CopyAgrees, Continues
<1>5. ActiveFits' /\ ActiveRunMatches'
  BY DEF ActiveFits, Running, ActiveRunMatches
<1>6. QED
  BY <1>3, <1>4, <1>5 DEF RecordInv, RecordsAgree, RunsAttributed, AttemptsOfRun, ReceiptIsWhole

\* Outside of an invocation, and before it has read the state, there is no copy.
LEMMA RecordOutside ==
  ASSUME DeliveryInv, RecordInv, UNCHANGED <<state, runs, active, receipt>>,
         pc' \in {"idle", "authorise", "initialize", "resume"},
         pc' = "resume" => mem' = state
  PROVE  RecordInv' /\ Continues(state'.attempts)
<1>1. Continues(state.attempts)
  BY DEF DeliveryInv, TypeOK, DeliveryState, Continues
<1>2. CopyAgrees' /\ ActiveFits'
  BY <1>1 DEF CopyAgrees, Continues, ActiveFits, Running
<1>3. QED
  BY <1>1, <1>2
     DEF RecordInv, RecordsAgree, ActiveRunMatches, RunsAttributed, AttemptsOfRun,
         ReceiptIsWhole, OpenAttempts

-----------------------------------------------------------------------------
(* Every step keeps the records.                                           *)

\* Opening an invocation seals what a crash left before it opens a run.
LEMMA OpenRecords ==
  ASSUME DeliveryInv, RecordInv, Open
  PROVE  RecordInv' /\ Continues(state'.attempts)
<1>0. mem \in DeliveryState /\ state \in DeliveryState /\ runs \in Seq(SealedRun)
  BY DEF DeliveryInv, TypeOK
<1>1. ASSUME NEW mode \in Modes, Begin(mode)
      PROVE  RecordInv' /\ Continues(state'.attempts)
  BY <1>1, RecordOutside DEF Begin, Goto, durable
<1>2. CASE SealAuthority
  BY <1>2, RecordOutside DEF SealAuthority, Goto
<1>3. CASE Initialize
  <2>1. PICK s \in DeliveryState : SaveState("resume", s) /\ Len(s.attempts) = 0
    BY <1>3, FreshTyped DEF Initialize, Statuses
  <2>2. Len(state.attempts) = 0
    BY <1>3, FreshTyped DEF Initialize, DeliveryInv, CopyCounts, NoState, Statuses
  <2>3. /\ state' = s /\ mem' = s /\ pc' = "resume" /\ receipt' = FALSE
        /\ UNCHANGED <<runs, active>>
    BY <2>1 DEF SaveState, Persist, Goto
  <2>4. Continues(s.attempts) /\ CopyAgrees' /\ ActiveFits'
    BY <2>1, <2>2, <2>3 DEF Continues, CopyAgrees, ActiveFits, Running, DeliveryState
  <2>5. QED
    BY <2>3, <2>4, RecordSaved
<1>4. CASE Resume
  <2>1. mem' \in DeliveryState /\ mem'.attempts = mem.attempts
    BY <1>0, <1>4 DEF Resume, Goto, Refreshed, DeliveryState, Statuses
  <2>2. QED
    BY <1>4, <2>1, RecordLocal DEF Resume, Goto, Local, Keep, durable, SameStory, Running
<1>5. CASE SealInterrupted
  BY <1>5, RecordSealed DEF SealInterrupted, Recovering, Keep, RunOutcomes
<1>6. CASE RemoveActive
  BY <1>6, RecordClosed DEF RemoveActive, Recovering, Keep
<1>7. CASE OpenRun
  <2>1. /\ active = NoRun /\ active' = [sequence |-> Len(runs) + 1, invocation |-> invocations]
        /\ pc = "recover" /\ pc' = "open" /\ UNCHANGED <<state, mem, runs, receipt, invocations>>
    BY <1>7 DEF OpenRun, Recovering, Goto, Keep
  <2>2. \A i \in DOMAIN state.attempts : state.attempts[i].run \in DOMAIN runs
    BY <1>0, <2>1 DEF RecordInv, OpenAttempts, NoRun
  <2>3. Continues(state'.attempts) /\ CopyAgrees'
    <3>1. Len(mem.attempts) = Len(state.attempts)
      BY <2>1 DEF DeliveryInv, CopyCounts
    <3>2. QED
      BY <1>0, <2>1, <3>1 DEF RecordInv, CopyAgrees, Continues, DeliveryState
  <2>4. OpenAttempts' /\ ActiveRunMatches' /\ ActiveFits'
    BY <2>1, <2>2 DEF OpenAttempts, ActiveRunMatches, ActiveFits, Running
  <2>5. QED
    BY <2>1, <2>3, <2>4
       DEF RecordInv, RecordsAgree, RunsAttributed, AttemptsOfRun, ReceiptIsWhole
<1>8. CASE StartRun
  <2>1. PICK s \in DeliveryState : SaveState("plan", s) /\ s.attempts = mem.attempts
    BY <1>0, <1>8, SetStatusTyped DEF StartRun, Statuses
  <2>2. QED
    BY <1>8, <2>1, RecordSave DEF StartRun, Running, RecordInv, CopyAgrees
<1>9. CASE Plan
  <2>1. mem' \in DeliveryState /\ mem'.attempts = mem.attempts
    BY <1>0, <1>9, SetStatusTyped DEF Plan, Finish, Goto, Statuses
  <2>2. pc = "plan" /\ pc' \in {"finish", "observe"} /\ Local
    BY <1>9 DEF Plan, Finish, Goto
  <2>3. QED
    BY <2>1, <2>2, RecordLocal DEF Local, Keep, durable, SameStory, Running
<1>10. QED
  BY <1>1, <1>2, <1>3, <1>4, <1>5, <1>6, <1>7, <1>8, <1>9 DEF Open

\* An operation is acknowledged in the attempt it was sent by.
LEMMA AcknowledgeRecords ==
  ASSUME DeliveryInv, RecordInv, NEW o \in Operations, Acknowledge(o, "observe"),
         pc \in {"observe", "readback"}
  PROVE  RecordInv' /\ Continues(state'.attempts)
<1>. DEFINE r == Observed(o, "observed")
            s == MarkAttempt(r, o, "acknowledged")
<1>1. r \in DeliveryState /\ r.attempts = mem.attempts
  BY ObservedTyped DEF DeliveryInv
<1>2. SaveState("observe", s) /\ Keep
  BY DEF Acknowledge
<1>. HIDE DEF r
<1>3. s \in DeliveryState /\ SameStory(s.attempts, r.attempts)
  BY <1>1, MarkAttemptTyped, MarkAttemptStory DEF AttemptOutcomes
<1>. HIDE DEF s
<1>4. Continues(s.attempts)
  BY <1>1, <1>3, SameStoryContinues
<1>5. QED
  BY <1>2, <1>3, <1>4, RecordSave DEF Running

\* Looking at the destination tells no other story.
LEMMA ObserveRecords ==
  ASSUME DeliveryInv, RecordInv, Observe
  PROVE  RecordInv' /\ Continues(state'.attempts)
<1>0. mem \in DeliveryState
  BY DEF DeliveryInv, TypeOK
<1>1. CASE Skip
  BY <1>0, <1>1, RecordLocal DEF Skip, AtOperation, Local, Keep, durable, SameStory, Running
<1>2. CASE ObserveAcknowledged
  BY <1>2, AcknowledgeRecords DEF ObserveAcknowledged, AtOperation
<1>3. ASSUME NEW o \in Operations, NEW seen \in {"error", "conflict"}, ObserveFails(o, seen)
      PROVE  RecordInv' /\ Continues(state'.attempts)
  <2>. DEFINE s == Observed(o, seen)
  <2>1. \A t \in {s, SetStatus(s, "blocked"), SetStatus(SetOperation(s, o, "ambiguous"), "ambiguous")} :
          t \in DeliveryState /\ t.attempts = mem.attempts
    BY ObservedEnds DEF Statuses, OperationStates
  <2>2. /\ mem' \in {s, SetStatus(s, "blocked"), SetStatus(SetOperation(s, o, "ambiguous"), "ambiguous")}
        /\ pc = "observe" /\ pc' = "finish" /\ Local
    BY <1>3 DEF ObserveFails, AtOperation, Finish, Goto
  <2>3. mem' \in DeliveryState /\ mem'.attempts = mem.attempts
    BY <2>1, <2>2
  <2>4. QED
    BY <2>2, <2>3, RecordLocal DEF Local, Keep, durable, SameStory, Running
<1>4. ASSUME NEW o \in Operations, ObserveAbsent(o)
      PROVE  RecordInv' /\ Continues(state'.attempts)
  <2>. DEFINE s == Observed(o, "absent")
  <2>1. \A t \in {s, SetStatus(s, "ambiguous")} : t \in DeliveryState /\ t.attempts = mem.attempts
    BY ObservedEnds DEF Statuses, OperationStates
  <2>2. /\ mem' \in {s, SetStatus(s, "ambiguous")}
        /\ pc = "observe" /\ pc' \in {"observe", "order", "finish"} /\ Local
    BY <1>4 DEF ObserveAbsent, AtOperation, Finish, Goto
  <2>3. mem' \in DeliveryState /\ mem'.attempts = mem.attempts
    BY <2>1, <2>2
  <2>4. QED
    BY <2>2, <2>3, RecordLocal DEF Local, Keep, durable, SameStory, Running
<1>5. QED
  BY <1>1, <1>2, <1>3, <1>4 DEF Observe

\* The attempt that is reserved belongs to the run that is open.
LEMMA ReserveRecords ==
  ASSUME DeliveryInv, RecordInv, Reserve \/ ReserveFails
  PROVE  /\ RecordInv' /\ Continues(state'.attempts)
         /\ pc' = "mutate" => /\ Len(state'.attempts) # 0
                              /\ state'.attempts[Len(state'.attempts)].op = call.at
<1>. DEFINE o == call.at
            r == Reserved(mem, o)
            a == [op |-> o, run |-> Len(runs) + 1, outcome |-> "reserved"]
<1>1. /\ mem \in DeliveryState /\ state \in DeliveryState /\ runs \in Seq(SealedRun)
      /\ mem.attempts \in Seq(Attempt) /\ state.attempts \in Seq(Attempt)
  BY DEF DeliveryInv, TypeOK, DeliveryState
<1>2. /\ pc = "reserve" /\ o \in Operations /\ Len(mem.attempts) = Len(state.attempts)
      /\ active.sequence = Len(runs) + 1
  BY DEF Reserve, ReserveFails, DeliveryInv, CallFits, CopyCounts, RecordInv, ActiveFits, Running
<1>3. r \in DeliveryState /\ r.attempts = Append(mem.attempts, a)
  BY <1>1, <1>2, ReservedTyped, ReservedStory
<1>4. a \in Attempt
  BY <1>1, <1>2 DEF Attempt, AttemptOutcomes
<1>. HIDE DEF r
<1>5. Continues(mem.attempts)
  BY <1>2 DEF RecordInv, CopyAgrees
<1>6. Continues(Append(mem.attempts, a))
  <2>. DEFINE q == Append(mem.attempts, a)
              n == Len(mem.attempts)
  <2>1. /\ DOMAIN q = 1 .. n + 1 /\ Len(q) = n + 1 /\ q[n + 1] = a /\ n \in Nat
        /\ \A i \in 1 .. n : q[i] = mem.attempts[i]
        /\ DOMAIN mem.attempts = 1 .. n /\ DOMAIN state.attempts = 1 .. n
    BY <1>1, <1>2, <1>4
  <2>. HIDE DEF q
  <2>2. QED
    BY <1>2, <1>5, <2>1 DEF Continues
<1>7. /\ Len(r.attempts) = Len(mem.attempts) + 1 /\ r.attempts[Len(r.attempts)].op = o
      /\ Len(r.attempts) # 0
  BY <1>1, <1>3, <1>4
<1>8. CASE Reserve
  <2>1. SaveState("mutate", r) /\ UNCHANGED invocations
    BY <1>8 DEF Reserve, r
  <2>2. /\ state' = r /\ mem' = r /\ pc' = "mutate" /\ receipt' = FALSE
        /\ UNCHANGED <<runs, active, invocations>>
    BY <2>1 DEF SaveState, Persist, Goto
  <2>3. CopyAgrees'
    BY <2>2, <1>3 DEF CopyAgrees, Continues, DeliveryState
  <2>4. ActiveFits'
    BY <1>2, <2>2 DEF RecordInv, ActiveFits, Running
  <2>5. RecordInv'
    BY <1>3, <1>6, <2>2, <2>3, <2>4, RecordSaved
  <2>6. QED
    BY <1>3, <1>6, <1>7, <2>2, <2>5
<1>9. CASE ReserveFails
  <2>1. /\ Persist(r) \/ UNCHANGED <<state, receipt>>
        /\ mem' = [r EXCEPT !.status = "blocked", !.op[o] = "blocked"] /\ pc' = "finish"
        /\ UNCHANGED <<runs, active, invocations>>
    BY <1>9 DEF ReserveFails, r, Finish, Goto
  <2>2. mem'.attempts = r.attempts
    BY <1>3, <2>1 DEF DeliveryState
  <2>3. ActiveFits'
    BY <1>2, <2>1 DEF RecordInv, ActiveFits, Running
  <2>4. CASE Persist(r)
    <3>1. state' = r /\ receipt' = FALSE
      BY <2>4 DEF Persist
    <3>2. CopyAgrees'
      BY <1>3, <2>1, <2>2, <3>1 DEF CopyAgrees, Continues, DeliveryState
    <3>3. RecordInv'
      BY <1>3, <1>6, <2>1, <2>3, <3>1, <3>2, RecordSaved
    <3>4. QED
      BY <1>3, <1>6, <2>1, <3>1, <3>3
  <2>5. CASE UNCHANGED <<state, receipt>>
    <3>1. CopyAgrees'
      BY <1>3, <1>6, <2>1, <2>2, <2>5 DEF CopyAgrees, Continues
    <3>2. Continues(state'.attempts)
      BY <1>1, <2>5 DEF Continues
    <3>3. QED
      BY <2>1, <2>3, <2>5, <3>1, <3>2
         DEF RecordInv, RecordsAgree, ActiveRunMatches, RunsAttributed, AttemptsOfRun,
             ReceiptIsWhole, OpenAttempts
  <2>6. QED
    BY <2>1, <2>4, <2>5
<1>10. QED
  BY <1>8, <1>9

\* Nor does sending, whatever comes back.
LEMMA SendRecords ==
  ASSUME DeliveryInv, RecordInv, Send
  PROVE  RecordInv' /\ Continues(state'.attempts)
<1>0. mem \in DeliveryState
  BY DEF DeliveryInv, TypeOK
<1>1. CASE Reserve \/ ReserveFails
  BY <1>1, ReserveRecords
<1>2. CASE Order
  <2>1. /\ mem' \in {mem, SetStatus(Refreshed(mem), "cancelled")} /\ pc = "order"
        /\ pc' \in {"finish", "reserve"} /\ UNCHANGED <<durable, invocations>>
    BY <1>2 DEF Order, Finish, Goto
  <2>2. mem' \in DeliveryState /\ mem'.attempts = mem.attempts
    BY <1>0, <2>1 DEF SetStatus, Refreshed, DeliveryState, Statuses
  <2>3. QED
    BY <2>1, <2>2, RecordLocal DEF durable, SameStory, Running
<1>3. CASE OrderFails
  BY <1>0, <1>3, RecordLocal DEF OrderFails, Finish, Goto, Local, Keep, durable, SameStory, Running
<1>4. CASE ReserveRefused
  <2>. DEFINE op == [mem.op EXCEPT ![call.at] = "blocked"]
              unique == mem.unique \cup {call.at}
              s == [mem EXCEPT !.status = "blocked", !.op = op, !.unique = unique]
  <2>1. call.at \in Operations /\ pc = "reserve"
    BY <1>4 DEF ReserveRefused, DeliveryInv, CallFits
  <2>2. op \in [Operations -> OperationStates] /\ unique \in SUBSET Operations
    BY <1>0, <2>1 DEF DeliveryState, OperationStates
  <2>3. mem' = s /\ pc' = "finish" /\ UNCHANGED <<durable, invocations>>
    BY <1>0, <1>4 DEF ReserveRefused, Finish, Goto, DeliveryState
  <2>4. s \in DeliveryState /\ s.attempts = mem.attempts
    <3>. HIDE DEF op, unique
    <3>1. QED
      BY <1>0, <2>2 DEF DeliveryState, Statuses
  <2>. HIDE DEF s
  <2>5. QED
    BY <2>1, <2>3, <2>4, RecordLocal DEF durable, SameStory, Running
<1>5. ASSUME NEW response \in Responses, Mutate(response)
      PROVE  RecordInv' /\ Continues(state'.attempts)
  BY <1>0, <1>5, RecordLocal DEF Mutate, Goto, Keep, durable, SameStory, Running
<1>6. CASE Record
  <2>. DEFINE o == call.at
  <2>1. pc = "record" /\ o \in Operations
    BY <1>6 DEF Record, DeliveryInv, CallFits
  <2>2. PICK outcome \in AttemptOutcomes, value \in OperationStates :
          SaveState("readback", SetOperation(MarkAttempt(mem, o, outcome), o, value))
    BY <1>6 DEF Record, AttemptOutcomes, OperationStates
  <2>. DEFINE r == MarkAttempt(mem, o, outcome)
              s == SetOperation(r, o, value)
  <2>3. r \in DeliveryState /\ SameStory(r.attempts, mem.attempts)
    BY <1>0, <2>1, MarkAttemptTyped, MarkAttemptStory
  <2>. HIDE DEF r
  <2>4. s \in DeliveryState /\ s.attempts = r.attempts
    BY <2>1, <2>3, SetOperationTyped
  <2>5. SaveState("readback", s)
    BY <2>2 DEF r
  <2>. HIDE DEF s
  <2>6. Continues(s.attempts)
    BY <2>1, <2>3, <2>4, SameStoryContinues
  <2>7. QED
    BY <1>6, <2>1, <2>4, <2>5, <2>6, RecordSave DEF Record, Running
<1>7. CASE ReadbackAcknowledged
  BY <1>7, AcknowledgeRecords DEF ReadbackAcknowledged, AtOperation
<1>8. ASSUME NEW o \in Operations, ReadbackAbsent(o)
      PROVE  RecordInv' /\ Continues(state'.attempts)
  <2>. DEFINE r == Observed(o, "absent")
              s == MarkAttempt(r, o, "not_observed")
  <2>1. r \in DeliveryState /\ r.attempts = mem.attempts
    BY ObservedTyped DEF DeliveryInv
  <2>2. \E status \in {"ambiguous", "approved"} : mem' = SetStatus(s, status)
    BY <1>8 DEF ReadbackAbsent, Finish, Goto
  <2>. HIDE DEF r
  <2>3. s \in DeliveryState /\ SameStory(s.attempts, r.attempts)
    BY <2>1, MarkAttemptTyped, MarkAttemptStory DEF AttemptOutcomes
  <2>. HIDE DEF s
  <2>4. mem' \in DeliveryState /\ mem'.attempts = s.attempts
    BY <2>2, <2>3, SetStatusTyped DEF Statuses
  <2>5. pc = "readback" /\ pc' = "finish" /\ Local
    BY <1>8 DEF ReadbackAbsent, AtOperation, Finish, Goto
  <2>6. QED
    BY <2>1, <2>3, <2>4, <2>5, RecordLocal DEF Local, Keep, durable, Running
<1>9. ASSUME NEW o \in Operations, NEW seen \in {"error", "conflict"}, ReadbackFails(o, seen)
      PROVE  RecordInv' /\ Continues(state'.attempts)
  <2>. DEFINE r == Observed(o, seen)
              s == MarkAttempt(r, o, "ambiguous")
              t == SetOperation(s, o, "ambiguous")
  <2>1. r \in DeliveryState /\ r.attempts = mem.attempts
    BY ObservedTyped DEF DeliveryInv
  <2>2. mem' = SetStatus(r, "blocked") \/ mem' = SetStatus(t, "ambiguous")
    BY <1>9 DEF ReadbackFails, Finish, Goto
  <2>. HIDE DEF r
  <2>3. s \in DeliveryState /\ SameStory(s.attempts, r.attempts)
    BY <2>1, MarkAttemptTyped, MarkAttemptStory DEF AttemptOutcomes
  <2>. HIDE DEF s
  <2>4. t \in DeliveryState /\ t.attempts = s.attempts
    BY <2>3, SetOperationTyped DEF OperationStates
  <2>. HIDE DEF t
  <2>5. mem' \in DeliveryState /\ SameStory(mem'.attempts, mem.attempts)
    BY <2>1, <2>2, <2>3, <2>4, SetStatusTyped DEF Statuses, SameStory
  <2>6. pc = "readback" /\ pc' = "finish" /\ Local
    BY <1>9 DEF ReadbackFails, AtOperation, Finish, Goto
  <2>7. QED
    BY <2>5, <2>6, RecordLocal DEF Local, Keep, durable, Running
<1>10. QED
  BY <1>1, <1>2, <1>3, <1>4, <1>5, <1>6, <1>7, <1>8, <1>9 DEF Send

\* A run is sealed with all of its attempts before its active document is removed, and
\* the receipt is written after.
LEMMA CloseRecords ==
  ASSUME DeliveryInv, RecordInv, Close
  PROVE  RecordInv' /\ Continues(state'.attempts)
<1>0. /\ mem \in DeliveryState /\ state.attempts \in Seq(Attempt) /\ runs \in Seq(SealedRun)
      /\ mem.attempts \in Seq(Attempt)
  BY DEF DeliveryInv, TypeOK, DeliveryState
<1>1. CASE Conclude
  <2>1. mem' \in DeliveryState /\ mem'.attempts = mem.attempts
    BY <1>0, <1>1, SetStatusTyped DEF Conclude, Finish, Goto, Statuses
  <2>2. pc = "observe" /\ pc' = "finish" /\ Local
    BY <1>1 DEF Conclude, Finish, Goto
  <2>3. QED
    BY <2>1, <2>2, RecordLocal DEF Local, Keep, durable, SameStory, Running
<1>2. CASE SaveFinal
  <2>1. pc = "finish" /\ Continues(mem.attempts)
    BY <1>2 DEF SaveFinal, RecordInv, CopyAgrees
  <2>2. QED
    BY <1>0, <1>2, <2>1, RecordSave DEF SaveFinal, Running
<1>3. CASE SealRun
  <2>1. active = [sequence |-> Len(runs) + 1, invocation |-> invocations] /\ pc = "seal"
    BY <1>3 DEF SealRun, RecordInv, ActiveFits, Running
  <2>2. call.result \in RunOutcomes
    BY <1>3 DEF SealRun, DeliveryInv, CallFits
  <2>3. QED
    BY <1>3, <2>1, <2>2, RecordSealed DEF SealRun, Goto, Keep
<1>4. CASE CloseRun
  <2>1. active.sequence \in DOMAIN runs /\ pc = "close"
    BY <1>0, <1>4 DEF CloseRun, RecordInv, ActiveFits
  <2>2. QED
    BY <1>4, <2>1, RecordClosed DEF CloseRun, Goto, Keep
<1>5. CASE WriteReceipt
  <2>1. active = NoRun /\ UNCHANGED <<state, runs, active>> /\ pc' = "idle"
    BY <1>5 DEF WriteReceipt, Goto, RecordInv, ActiveFits
  <2>2. \A i \in DOMAIN state.attempts : state.attempts[i].run \in DOMAIN runs
    BY <1>0, <2>1 DEF RecordInv, OpenAttempts, NoRun
  <2>3. Continues(state'.attempts)
    BY <1>0, <2>1 DEF Continues
  <2>4. CopyAgrees' /\ ActiveFits'
    BY <2>1 DEF CopyAgrees, ActiveFits, Running
  <2>5. QED
    BY <2>1, <2>2, <2>3, <2>4
       DEF RecordInv, RecordsAgree, ActiveRunMatches, RunsAttributed, AttemptsOfRun,
           ReceiptIsWhole, OpenAttempts
<1>6. CASE Stop \/ StopSealing
  BY <1>6, RecordOutside DEF Stop, StopSealing, Goto, durable
<1>7. QED
  BY <1>1, <1>2, <1>3, <1>4, <1>5, <1>6 DEF Close

\* The world around an invocation writes none of the documents.
LEMMA WorldRecords ==
  ASSUME DeliveryInv, RecordInv, World \/ UNCHANGED vars
  PROVE  RecordInv' /\ Continues(state'.attempts)
<1>1. UNCHANGED <<state, runs, active, receipt, pc, mem, invocations>>
  BY DEF World, Cancel, Expire, Apply, Occupy, Lose, durable, vars
<1>2. Continues(state'.attempts)
  BY <1>1 DEF DeliveryInv, TypeOK, DeliveryState, Continues
<1>3. QED
  BY <1>1, <1>2
     DEF RecordInv, RecordsAgree, ActiveRunMatches, RunsAttributed, AttemptsOfRun,
         ReceiptIsWhole, OpenAttempts, CopyAgrees, Continues, ActiveFits

\* Every step preserves what is on record, and continues the durable attempts.
LEMMA StepRecords ==
  ASSUME DeliveryInv, RecordInv, [Next]_vars
  PROVE  RecordInv' /\ Continues(state'.attempts)
BY OpenRecords, ObserveRecords, SendRecords, CloseRecords, WorldRecords DEF Next

\* There is nothing on record at first.
LEMMA InitRecords ==
  ASSUME Init
  PROVE  RecordInv
<1>1. NoState.attempts = <<>> /\ runs = <<>> /\ active = NoRun /\ ~receipt /\ pc = "idle"
  BY DEF Init, NoState, Fresh
<1>2. state.attempts = <<>>
  BY <1>1 DEF Init
<1>3. QED
  BY <1>1, <1>2
     DEF RecordInv, RecordsAgree, ActiveRunMatches, RunsAttributed, ReceiptIsWhole,
         OpenAttempts, CopyAgrees, ActiveFits, Running

\* Wherever a crash falls, and whatever fails, the durable state, the active run, the
\* sealed runs and the receipt tell one story of the attempts
\* (sealInterruptedApprovedRun, sealApprovedRun and buildApprovedReceipt,
\* approved_delivery_store.go:355-437).
THEOREM DocumentsAgree == Spec => []RecordsAgree
<1>1. Init => DeliveryInv /\ RecordInv
  BY InitInv, InitRecords
<1>2. DeliveryInv /\ RecordInv /\ [Next]_vars => (DeliveryInv /\ RecordInv)'
  BY StepInv, StepRecords
<1>3. RecordInv => RecordsAgree
  BY DEF RecordInv
<1>4. QED
  BY <1>1, <1>2, <1>3, PTL DEF Spec

-----------------------------------------------------------------------------
(* What the copies of the state tell of the destination.                   *)

\* An acknowledged operation was applied, all of them were in a completed delivery,
\* and a cancelled one remembers its cancellation.
Truthful(s) ==
  /\ \A o \in Operations : s.op[o] = "acknowledged" => o \in applied
  /\ s.status = "completed" => Operations \subseteq applied
  /\ s.status = "cancelled" => s.cancelled

\* Where a request is about to be sent, what it needs was applied, it is not known
\* to be cancelled, and it is the last attempt that was reserved.
SendFits ==
  /\ pc \in {"order", "reserve", "mutate"} =>
       /\ Ends[call.at] \subseteq applied
       /\ ~mem.cancelled /\ call.mode = "deliver"
  /\ pc = "mutate" =>
       /\ Len(state.attempts) # 0
       /\ state.attempts[Len(state.attempts)].op = call.at

\* The steps of an invocation after it has asked for the gesture it needs.
Delivering == {"recover", "open", "plan", "observe", "order", "reserve", "mutate",
               "record", "readback"}

\* Without a gesture of its own a delivery is cancelled or has nothing left to send.
GestureFits ==
  pc \in Delivering /\ call.mode = "deliver" /\ ~call.gesture
    => mem.cancelled \/ Operations \subseteq applied

\* What the destination shows as ours it has applied.
ShownIsApplied == \A o \in Operations : remote[o] = "same" => o \in applied

OrderInv ==
  ShownIsApplied /\ Truthful(state) /\ Truthful(mem) /\ SendFits /\ GestureFits
    /\ RelationsAfterEntries

\* Marking an attempt, setting a status or an operation keeps a state truthful when
\* what it sets is, and forgets no cancellation.
LEMMA MarkedTruthful ==
  ASSUME NEW s \in DeliveryState, NEW o \in Operations, NEW outcome \in AttemptOutcomes,
         Truthful(s)
  PROVE  /\ Truthful(MarkAttempt(s, o, outcome))
         /\ MarkAttempt(s, o, outcome).cancelled = s.cancelled
BY MarkAttemptStory DEF Truthful

\* A status that is true keeps a copy of the state truthful.
LEMMA StatusTruthful ==
  ASSUME NEW s \in DeliveryState, NEW status \in Statuses, Truthful(s),
         status = "completed" => Operations \subseteq applied,
         status = "cancelled" => s.cancelled
  PROVE  /\ Truthful(SetStatus(s, status))
         /\ SetStatus(s, status).cancelled = s.cancelled
BY DEF Truthful, SetStatus, DeliveryState

\* So does an operation that is called confirmed after it was applied.
LEMMA OperationTruthful ==
  ASSUME NEW s \in DeliveryState, NEW o \in Operations, NEW value \in OperationStates,
         Truthful(s), value = "acknowledged" => o \in applied
  PROVE  /\ Truthful(SetOperation(s, o, value))
         /\ SetOperation(s, o, value).cancelled = s.cancelled
BY DEF Truthful, SetOperation, DeliveryState

\* What is observed is acknowledged only when the destination shows it.
LEMMA ObservedTruthful ==
  ASSUME DeliveryInv, OrderInv, NEW o \in Operations, NEW seen \in Observations(o),
         seen \in {"error", "conflict", "observed", "absent"}
  PROVE  /\ Truthful(Observed(o, seen))
         /\ Observed(o, seen).cancelled = mem.cancelled
         /\ seen = "absent" => Ends[o] \subseteq applied
<1>0. mem \in DeliveryState /\ Truthful(mem) /\ Ends[o] \subseteq Operations
  BY OutboxAssumption DEF DeliveryInv, TypeOK, OrderInv
<1>1. CASE seen = "error"
  BY <1>0, <1>1 DEF Observed
<1>2. CASE seen = "conflict"
  <2>1. /\ SetOperation(mem, o, "blocked") \in DeliveryState
        /\ Truthful(SetOperation(mem, o, "blocked"))
        /\ SetOperation(mem, o, "blocked").cancelled = mem.cancelled
    BY <1>0, OperationTruthful, SetOperationTyped DEF OperationStates
  <2>2. Observed(o, seen) = SetStatus(SetOperation(mem, o, "blocked"), "blocked")
    BY <1>2 DEF Observed
  <2>3. QED
    BY <1>2, <2>1, <2>2, StatusTruthful DEF Statuses
<1>3. CASE seen = "observed"
  <2>1. o \in applied
    BY <1>3 DEF Observations, OrderInv, ShownIsApplied, DeliveryInv, TypeOK
  <2>2. Observed(o, seen) = SetOperation(mem, o, "acknowledged")
    BY <1>3 DEF Observed
  <2>3. QED
    BY <1>0, <1>3, <2>1, <2>2, OperationTruthful DEF OperationStates
<1>4. CASE seen = "absent"
  <2>1. PICK value \in {"not_observed", "pending"} :
          Observed(o, seen) = SetOperation(mem, o, value)
    BY <1>4 DEF Observed
  <2>2. \A e \in Ends[o] : mem.op[e] = "acknowledged"
    BY <1>4 DEF Observations
  <2>3. Ends[o] \subseteq applied
    BY <1>0, <2>2 DEF Truthful
  <2>4. QED
    BY <1>0, <2>1, <2>3, OperationTruthful DEF OperationStates
<1>5. QED
  BY <1>1, <1>2, <1>3, <1>4

-----------------------------------------------------------------------------
(* The steps of an invocation, on the destination.                         *)

\* While nothing is sent, the attempts that were keep their operations.
LEMMA SentKept ==
  ASSUME DeliveryInv, RelationsAfterEntries, Continues(state'.attempts), state' \in DeliveryState,
         UNCHANGED sent, applied \subseteq applied'
  PROVE  RelationsAfterEntries'
<1>1. sent \subseteq DOMAIN state.attempts /\ DOMAIN state.attempts \subseteq DOMAIN state'.attempts
  BY DEF DeliveryInv, TypeOK, DeliveryState, Continues
<1>2. \A n \in sent : state'.attempts[n].op = state.attempts[n].op
  BY <1>1 DEF Continues
<1>3. QED
  BY <1>2 DEF RelationsAfterEntries

\* A step of an invocation that reaches neither the destination nor the order of what
\* is sent there.
LEMMA OrderKept ==
  ASSUME DeliveryInv, OrderInv, Continues(state'.attempts), state' \in DeliveryState,
         UNCHANGED destination, Truthful(mem'), Truthful(state'),
         pc' \notin {"order", "reserve", "mutate"},
         pc' \in Delivering =>
           /\ pc \in Delivering /\ call'.mode = call.mode /\ call'.gesture = call.gesture
           /\ mem.cancelled => mem'.cancelled
  PROVE  OrderInv'
<1>1. RelationsAfterEntries'
  BY SentKept DEF OrderInv, destination
<1>2. ShownIsApplied' /\ Truthful(mem)' /\ Truthful(state)'
  BY DEF OrderInv, ShownIsApplied, Truthful, destination
<1>3. SendFits' /\ GestureFits'
  BY DEF OrderInv, SendFits, GestureFits, destination
<1>4. QED
  BY <1>1, <1>2, <1>3 DEF OrderInv

\* A truthful copy may be made durable.
LEMMA OrderSaved ==
  ASSUME DeliveryInv, OrderInv, Continues(state'.attempts), NEW s \in DeliveryState,
         NEW step \in Steps, SaveState(step, s), Truthful(s),
         step \notin {"order", "reserve", "mutate"},
         step \in Delivering =>
           /\ pc \in Delivering /\ call'.mode = call.mode /\ call'.gesture = call.gesture
           /\ mem.cancelled => s.cancelled
  PROVE  OrderInv'
BY OrderKept DEF SaveState, Persist, Goto

\* What is left to do is made durable by later steps.
LEMMA OrderFinish ==
  ASSUME DeliveryInv, OrderInv, Continues(state'.attempts), NEW s \in DeliveryState,
         NEW outcome \in RunOutcomes, Finish(s, outcome), Truthful(s), UNCHANGED <<state, destination>>
  PROVE  OrderInv'
BY OrderKept DEF Finish, Goto, Delivering, OrderInv, DeliveryInv, TypeOK

-----------------------------------------------------------------------------
(* Every step keeps the order.                                             *)

\* Opening an invocation: what resumes a delivery without a gesture finds it ended.
LEMMA OpenOrder ==
  ASSUME DeliveryInv, RecordInv, OrderInv, Open
  PROVE  OrderInv'
<1>0. /\ mem \in DeliveryState /\ state \in DeliveryState /\ Truthful(mem) /\ Truthful(state)
      /\ state' \in DeliveryState /\ mem' \in DeliveryState /\ Continues(state'.attempts)
  BY OpenSteps, OpenRecords DEF DeliveryInv, TypeOK, OrderInv
<1>00. UNCHANGED destination
  BY DEF Open, Begin, SealAuthority, Initialize, Resume, SealInterrupted, RemoveActive,
     OpenRun, StartRun, Plan, SaveState, Local
<1>1. Truthful(NoState)
  BY DEF NoState, Fresh, Truthful
<1>2. ASSUME NEW mode \in Modes, Begin(mode)  PROVE OrderInv'
  BY <1>0, <1>00, <1>1, <1>2, OrderKept DEF Begin, Goto, Delivering, durable
<1>3. CASE SealAuthority
  BY <1>0, <1>00, <1>3, OrderKept DEF SealAuthority, Goto, Delivering
<1>4. CASE Initialize
  <2>1. PICK s : SaveState("resume", s)
                 /\ s \in {[Fresh("cancelled") EXCEPT !.cancelled = TRUE], Fresh("approved")}
    BY <1>4 DEF Initialize
  <2>2. Truthful(s) /\ state' = s /\ mem' = s /\ pc' = "resume"
    BY <2>1 DEF Fresh, Truthful, SaveState, Persist, Goto
  <2>3. QED
    BY <1>0, <1>00, <2>2, OrderKept DEF Delivering
<1>5. CASE Resume
  <2>1. /\ mem' = Refreshed(mem) /\ pc' = "recover" /\ UNCHANGED state
        /\ call' = [call EXCEPT !.gesture = @ \/ NeedsGesture]
    BY <1>5 DEF Resume, Goto, Local, durable
  <2>2. Truthful(mem') /\ (mem.cancelled => mem'.cancelled)
    BY <1>0, <2>1 DEF Refreshed, Truthful, DeliveryState
  <2>3. RelationsAfterEntries' /\ ShownIsApplied' /\ Truthful(mem)' /\ Truthful(state)' /\ SendFits'
    BY <1>0, <1>00, <2>1, <2>2, SentKept
       DEF OrderInv, ShownIsApplied, Truthful, SendFits, destination
  <2>4. GestureFits'
    <3>. SUFFICES ASSUME call'.mode = "deliver", ~call'.gesture
                  PROVE  mem'.cancelled \/ Operations \subseteq applied'
      BY DEF GestureFits
    <3>1. call \in Calls
      BY DEF DeliveryInv, TypeOK
    <3>2. call.mode = "deliver" /\ ~call.gesture /\ ~NeedsGesture
      BY <2>1, <3>1 DEF Calls
    <3>3. mem.status \in {"completed", "cancelled"}
      BY <3>2 DEF NeedsGesture
    <3>4. QED
      BY <1>0, <1>00, <2>2, <3>3 DEF Truthful, destination
  <2>5. QED
    BY <2>3, <2>4 DEF OrderInv
<1>6. CASE SealInterrupted \/ RemoveActive \/ OpenRun
  <2>1. /\ UNCHANGED <<state, mem, call>> /\ pc = "recover" /\ pc' \in {"recover", "open"}
    BY <1>6 DEF SealInterrupted, RemoveActive, OpenRun, Recovering, Goto
  <2>2. QED
    BY <1>0, <1>00, <2>1, OrderKept DEF Delivering
<1>7. CASE StartRun
  <2>1. PICK s \in {mem, SetStatus(mem, "delivering")} : SaveState("plan", s)
    BY <1>7 DEF StartRun
  <2>2. s \in DeliveryState /\ Truthful(s) /\ s.cancelled = mem.cancelled
    BY <1>0, StatusTruthful, SetStatusTyped DEF Statuses
  <2>3. pc = "open" /\ UNCHANGED call
    BY <1>7 DEF StartRun
  <2>4. QED
    BY <1>0, <2>1, <2>2, <2>3, OrderSaved DEF Delivering, Steps
<1>8. CASE Plan
  <2>0. UNCHANGED state
    BY <1>8 DEF Plan, Local, durable
  <2>1. CASE \E outcome \in RunOutcomes : Finish(mem, outcome)
    BY <1>0, <1>00, <2>0, <2>1, OrderFinish
  <2>2. CASE mem.cancelled /\ Finish(SetStatus(mem, "cancelled"), "cancelled")
    <3>1. SetStatus(mem, "cancelled") \in DeliveryState /\ Truthful(SetStatus(mem, "cancelled"))
      BY <1>0, <2>2, StatusTruthful, SetStatusTyped DEF Statuses
    <3>2. QED
      BY <1>0, <1>00, <2>0, <2>2, <3>1, OrderFinish DEF RunOutcomes
  <2>3. CASE Goto("observe", mem) /\ call' = [call EXCEPT !.at = 1]
    <3>1. call'.mode = call.mode /\ call'.gesture = call.gesture /\ pc = "plan"
      BY <1>8, <2>3 DEF Plan, DeliveryInv, TypeOK, Calls
    <3>2. QED
      BY <1>0, <1>00, <2>0, <2>3, <3>1, OrderKept DEF Goto, Delivering
  <2>4. QED
    BY <1>8, <2>1, <2>2, <2>3 DEF Plan, RunOutcomes
<1>9. QED
  BY <1>2, <1>3, <1>4, <1>5, <1>6, <1>7, <1>8 DEF Open

\* Only what the destination shows is acknowledged.
LEMMA AcknowledgeOrder ==
  ASSUME DeliveryInv, RecordInv, OrderInv, NEW o \in Operations, Acknowledge(o, "observe"),
         pc \in {"observe", "readback"}
  PROVE  OrderInv'
<1>. DEFINE r == Observed(o, "observed")
            s == MarkAttempt(r, o, "acknowledged")
<1>1. r \in DeliveryState /\ Truthful(r) /\ r.cancelled = mem.cancelled
  BY ObservedTyped, ObservedTruthful DEF Acknowledge, DeliveryInv
<1>2. SaveState("observe", s) /\ Advance
  BY DEF Acknowledge
<1>. HIDE DEF r
<1>3. s \in DeliveryState /\ Truthful(s) /\ s.cancelled = mem.cancelled
  BY <1>1, MarkAttemptTyped, MarkedTruthful DEF AttemptOutcomes
<1>. HIDE DEF s
<1>4. call'.mode = call.mode /\ call'.gesture = call.gesture
  BY <1>2 DEF Advance, DeliveryInv, TypeOK, Calls
<1>5. Continues(state'.attempts)
  BY AcknowledgeRecords
<1>6. QED
  BY <1>2, <1>3, <1>4, <1>5, OrderSaved DEF Delivering, Steps

\* Nothing is sent of which the destination does not show the ends.
LEMMA ObserveOrder ==
  ASSUME DeliveryInv, RecordInv, OrderInv, Observe
  PROVE  OrderInv'
<1>0. /\ mem \in DeliveryState /\ state \in DeliveryState /\ Truthful(mem) /\ Truthful(state)
      /\ Continues(state'.attempts) /\ call \in Calls
  BY ObserveRecords DEF DeliveryInv, TypeOK, OrderInv
<1>1. CASE Skip
  BY <1>0, <1>1, OrderKept
     DEF Skip, AtOperation, Advance, Local, durable, Delivering, Calls
<1>2. CASE ObserveAcknowledged
  BY <1>2, AcknowledgeOrder DEF ObserveAcknowledged, AtOperation
<1>3. ASSUME NEW o \in Operations, NEW seen \in {"error", "conflict"}, ObserveFails(o, seen)
      PROVE  OrderInv'
  <2>. DEFINE s == Observed(o, seen)
              t == SetOperation(s, o, "ambiguous")
  <2>1. s \in DeliveryState /\ Truthful(s)
    BY <1>3, ObservedTyped, ObservedTruthful DEF ObserveFails, DeliveryInv
  <2>2. \/ Finish(SetStatus(s, "blocked"), "failed")
        \/ Finish(SetStatus(t, "ambiguous"), "ambiguous")
        \/ Finish(s, "ambiguous")
    BY <1>3 DEF ObserveFails
  <2>. HIDE DEF s
  <2>3. t \in DeliveryState /\ Truthful(t)
    BY <2>1, SetOperationTyped, OperationTruthful DEF OperationStates
  <2>. HIDE DEF t
  <2>4. \A u \in {SetStatus(s, "blocked"), SetStatus(t, "ambiguous"), s} :
          u \in DeliveryState /\ Truthful(u)
    BY <2>1, <2>3, SetStatusTyped, StatusTruthful DEF Statuses
  <2>5. UNCHANGED <<state, destination>>
    BY <1>3 DEF ObserveFails, Local, durable
  <2>6. QED
    BY <1>0, <2>2, <2>4, <2>5, OrderFinish DEF RunOutcomes
<1>4. ASSUME NEW o \in Operations, ObserveAbsent(o)
      PROVE  OrderInv'
  <2>. DEFINE s == Observed(o, "absent")
  <2>1. /\ s \in DeliveryState /\ Truthful(s) /\ s.cancelled = mem.cancelled
        /\ Ends[o] \subseteq applied
    BY <1>4, ObservedTyped, ObservedTruthful DEF ObserveAbsent, DeliveryInv
  <2>2. pc = "observe" /\ call.at = o /\ UNCHANGED <<state, destination>>
    BY <1>4 DEF ObserveAbsent, AtOperation, Local, durable
  <2>3. CASE Finish(SetStatus(s, "ambiguous"), "reconciled")
    <3>1. SetStatus(s, "ambiguous") \in DeliveryState /\ Truthful(SetStatus(s, "ambiguous"))
      BY <2>1, SetStatusTyped, StatusTruthful DEF Statuses
    <3>2. QED
      BY <1>0, <2>2, <2>3, <3>1, OrderFinish DEF RunOutcomes
  <2>4. CASE Goto("observe", s) /\ Advance
    BY <1>0, <2>1, <2>2, <2>4, OrderKept DEF Goto, Advance, Delivering, Calls
  <2>5. CASE ~mem.cancelled /\ call.mode = "deliver" /\ Goto("order", s) /\ UNCHANGED call
    <3>. HIDE DEF s
    <3>1. RelationsAfterEntries' /\ ShownIsApplied' /\ Truthful(state)' /\ Truthful(mem)'
      BY <1>0, <2>1, <2>2, <2>5, SentKept
         DEF OrderInv, ShownIsApplied, Truthful, Goto, destination
    <3>2. SendFits' /\ GestureFits'
      BY <2>1, <2>2, <2>5 DEF OrderInv, SendFits, GestureFits, Goto, Delivering, destination
    <3>3. QED
      BY <3>1, <3>2 DEF OrderInv
  <2>6. QED
    BY <1>4, <2>3, <2>4, <2>5 DEF ObserveAbsent
<1>5. QED
  BY <1>1, <1>2, <1>3, <1>4 DEF Observe

\* From the check of the cancellation to the request, what it needs stays applied.
LEMMA ReserveOrder ==
  ASSUME DeliveryInv, RecordInv, OrderInv,
         Order \/ OrderFails \/ Reserve \/ ReserveRefused \/ ReserveFails
  PROVE  OrderInv'
<1>0. /\ mem \in DeliveryState /\ state \in DeliveryState /\ Truthful(mem) /\ Truthful(state)
      /\ state' \in DeliveryState /\ Continues(state'.attempts) /\ call \in Calls
      /\ runs \in Seq(SealedRun)
  BY ReserveSteps, SendRecords DEF Send, DeliveryInv, TypeOK, OrderInv
<1>1. CASE Order
  <2>0. UNCHANGED <<state, destination>> /\ pc = "order"
    BY <1>1 DEF Order, durable
  <2>1. CASE Finish(SetStatus(Refreshed(mem), "cancelled"), "cancelled") /\ cancelled
    <3>1. Refreshed(mem) \in DeliveryState /\ Truthful(Refreshed(mem)) /\ Refreshed(mem).cancelled
      BY <1>0, <2>1 DEF Refreshed, Truthful, DeliveryState, Statuses
    <3>. DEFINE s == SetStatus(Refreshed(mem), "cancelled")
    <3>2. s \in DeliveryState /\ Truthful(s)
      BY <3>1, SetStatusTyped, StatusTruthful DEF Statuses
    <3>. HIDE DEF s
    <3>3. Finish(s, "cancelled")
      BY <2>1 DEF s
    <3>4. QED
      BY <1>0, <2>0, <3>2, <3>3, OrderFinish DEF RunOutcomes
  <2>2. CASE Finish(mem, "failed")
    BY <1>0, <2>0, <2>2, OrderFinish DEF RunOutcomes
  <2>3. CASE Goto("reserve", mem) /\ UNCHANGED call
    <3>1. RelationsAfterEntries' /\ ShownIsApplied' /\ Truthful(state)' /\ Truthful(mem)'
      BY <1>0, <2>0, <2>3, SentKept
         DEF OrderInv, ShownIsApplied, Truthful, Goto, destination
    <3>2. SendFits' /\ GestureFits'
      BY <2>0, <2>3 DEF OrderInv, SendFits, GestureFits, Goto, Delivering, destination
    <3>3. QED
      BY <3>1, <3>2 DEF OrderInv
  <2>4. QED
    BY <1>1, <2>1, <2>2, <2>3 DEF Order
<1>2. CASE OrderFails
  BY <1>0, <1>2, OrderFinish DEF OrderFails, Local, durable, RunOutcomes
<1>3. CASE ReserveRefused
  <2>. DEFINE op == [mem.op EXCEPT ![call.at] = "blocked"]
              unique == mem.unique \cup {call.at}
              s == [mem EXCEPT !.status = "blocked", !.op = op, !.unique = unique]
  <2>1. call.at \in Operations /\ pc = "reserve"
    BY <1>3 DEF ReserveRefused, DeliveryInv, CallFits
  <2>2. /\ op \in [Operations -> OperationStates] /\ unique \in SUBSET Operations
        /\ \A o \in Operations : op[o] = "acknowledged" => mem.op[o] = "acknowledged"
    BY <1>0, <2>1 DEF DeliveryState, OperationStates
  <2>3. Finish(s, "failed") /\ UNCHANGED <<state, destination>>
    BY <1>0, <1>3 DEF ReserveRefused, DeliveryState, durable
  <2>4. s \in DeliveryState /\ Truthful(s)
    <3>. HIDE DEF op, unique
    <3>1. s \in DeliveryState /\ s.op = op /\ s.status = "blocked"
      BY <1>0, <2>2 DEF DeliveryState, Statuses
    <3>. HIDE DEF s
    <3>2. QED
      BY <1>0, <2>2, <3>1 DEF Truthful
  <2>. HIDE DEF s
  <2>5. QED
    BY <1>0, <2>3, <2>4, OrderFinish DEF RunOutcomes
<1>4. ASSUME pc = "reserve"
      PROVE  /\ call.at \in Operations
             /\ Reserved(mem, call.at) \in DeliveryState /\ Truthful(Reserved(mem, call.at))
             /\ Reserved(mem, call.at).cancelled = mem.cancelled
  <2>. DEFINE o == call.at
              r == Reserved(mem, o)
              op == [mem.op EXCEPT ![o] = "reserved"]
  <2>1. o \in Operations
    BY <1>4 DEF DeliveryInv, CallFits
  <2>. HIDE DEF o
  <2>2. r \in DeliveryState /\ r.status = "delivering" /\ r.op = op /\ r.cancelled = mem.cancelled
    <3>1. r \in DeliveryState
      BY <1>0, <2>1, ReservedTyped
    <3>2. r.status = "delivering" /\ r.op = op /\ r.cancelled = mem.cancelled
      BY <1>0, <2>1, ReservedStory
    <3> QED BY <3>1, <3>2
  <2>3. \A e \in Operations : op[e] = "acknowledged" => mem.op[e] = "acknowledged"
    BY <1>0, <2>1 DEF DeliveryState
  <2>. HIDE DEF r, op
  <2>4. Truthful(r)
    BY <1>0, <2>2, <2>3 DEF Truthful
  <2>5. QED
    BY <2>1, <2>2, <2>4 DEF r, o
<1>5. CASE Reserve
  <2>. DEFINE r == Reserved(mem, call.at)
  <2>1. /\ pc = "reserve" /\ pc' = "mutate" /\ mem' = r /\ state' = r
        /\ UNCHANGED <<destination, call>>
    BY <1>5 DEF Reserve, SaveState, Persist, Goto
  <2>2. r \in DeliveryState /\ Truthful(r) /\ r.cancelled = mem.cancelled
    BY <1>4, <2>1
  <2>. HIDE DEF r
  <2>3. RelationsAfterEntries' /\ ShownIsApplied' /\ Truthful(state)' /\ Truthful(mem)'
    BY <1>0, <2>1, <2>2, SentKept
       DEF OrderInv, ShownIsApplied, Truthful, destination
  <2>4. Len(state'.attempts) # 0 /\ state'.attempts[Len(state'.attempts)].op = call.at
    BY <1>5, <2>1, ReserveRecords
  <2>5. SendFits' /\ GestureFits'
    BY <2>1, <2>2, <2>4 DEF OrderInv, SendFits, GestureFits, Delivering, destination
  <2>6. QED
    BY <2>3, <2>5 DEF OrderInv
<1>6. CASE ReserveFails
  <2>. DEFINE r == Reserved(mem, call.at)
              op == [r.op EXCEPT ![call.at] = "blocked"]
              s == [r EXCEPT !.status = "blocked", !.op = op]
  <2>1. /\ state' = r \/ state' = state
        /\ UNCHANGED destination
        /\ mem' = [r EXCEPT !.status = "blocked", !.op[call.at] = "blocked"] /\ pc' = "finish"
    BY <1>6 DEF ReserveFails, Persist, Finish, Goto
  <2>2. pc = "reserve"
    BY <1>6 DEF ReserveFails
  <2>3. call.at \in Operations /\ r \in DeliveryState /\ Truthful(r)
    BY <1>4, <2>2
  <2>. HIDE DEF r
  <2>4. /\ op \in [Operations -> OperationStates]
        /\ \A o \in Operations : op[o] = "acknowledged" => r.op[o] = "acknowledged"
    BY <2>3 DEF DeliveryState, OperationStates
  <2>5. mem' = s
    BY <2>1, <2>3 DEF DeliveryState
  <2>. HIDE DEF op
  <2>6. s.op = op /\ s.status = "blocked"
    BY <2>3 DEF DeliveryState
  <2>. HIDE DEF s
  <2>7. Truthful(mem')
    BY <2>3, <2>4, <2>5, <2>6 DEF Truthful
  <2>8. Truthful(state')
    BY <1>0, <2>1, <2>3
  <2>9. QED
    BY <1>0, <2>1, <2>7, <2>8, OrderKept DEF Delivering
<1>7. QED
  BY <1>1, <1>2, <1>3, <1>5, <1>6

\* The request that leaves is of the attempt reserved last, and its ends were applied.
LEMMA SendOrder ==
  ASSUME DeliveryInv, RecordInv, OrderInv, Send
  PROVE  OrderInv'
<1>0. /\ mem \in DeliveryState /\ state \in DeliveryState /\ Truthful(mem) /\ Truthful(state)
      /\ Continues(state'.attempts) /\ call \in Calls
  BY SendRecords DEF DeliveryInv, TypeOK, OrderInv
<1>1. CASE Order \/ OrderFails \/ Reserve \/ ReserveRefused \/ ReserveFails
  BY <1>1, ReserveOrder
<1>2. ASSUME NEW response \in Responses, Mutate(response)  PROVE OrderInv'
  <2>. DEFINE n == Len(mem.attempts)
  <2>1. /\ pc = "mutate" /\ pc' = "record" /\ mem' = mem /\ sent' = sent \cup {n}
        /\ call' = [call EXCEPT !.result = response] /\ UNCHANGED <<state, remote, applied>>
    BY <1>2 DEF Mutate, Goto, durable
  <2>2. n = Len(state.attempts)
    BY <2>1 DEF DeliveryInv, CopyCounts
  <2>3. RelationsAfterEntries'
    BY <2>1, <2>2 DEF OrderInv, RelationsAfterEntries, SendFits
  <2>4. call'.mode = call.mode /\ call'.gesture = call.gesture
    BY <1>0, <2>1 DEF Calls
  <2>5. SendFits' /\ GestureFits'
    BY <2>1, <2>4 DEF OrderInv, SendFits, GestureFits, Delivering
  <2>6. ShownIsApplied' /\ Truthful(mem)' /\ Truthful(state)'
    BY <2>1 DEF OrderInv, ShownIsApplied, Truthful
  <2>7. QED
    BY <2>3, <2>5, <2>6 DEF OrderInv
<1>3. CASE Record
  <2>. DEFINE o == call.at
  <2>1. pc = "record" /\ o \in Operations /\ UNCHANGED call
    BY <1>3 DEF Record, DeliveryInv, CallFits
  <2>2. PICK outcome \in AttemptOutcomes, value \in OperationStates \ {"acknowledged"} :
          SaveState("readback", SetOperation(MarkAttempt(mem, o, outcome), o, value))
    BY <1>3 DEF Record, AttemptOutcomes, OperationStates
  <2>. DEFINE r == MarkAttempt(mem, o, outcome)
              s == SetOperation(r, o, value)
  <2>3. r \in DeliveryState /\ Truthful(r) /\ r.cancelled = mem.cancelled
    BY <1>0, <2>1, MarkAttemptTyped, MarkedTruthful
  <2>4. SaveState("readback", s)
    BY <2>2
  <2>. HIDE DEF r
  <2>5. s \in DeliveryState /\ Truthful(s) /\ s.cancelled = mem.cancelled
    BY <2>1, <2>2, <2>3, SetOperationTyped, OperationTruthful
  <2>. HIDE DEF s
  <2>6. QED
    BY <1>0, <2>1, <2>4, <2>5, OrderSaved DEF Delivering, Steps
<1>4. CASE ReadbackAcknowledged
  BY <1>4, AcknowledgeOrder DEF ReadbackAcknowledged, AtOperation
<1>5. ASSUME NEW o \in Operations, ReadbackAbsent(o)  PROVE OrderInv'
  <2>. DEFINE r == Observed(o, "absent")
              s == MarkAttempt(r, o, "not_observed")
  <2>1. r \in DeliveryState /\ Truthful(r)
    BY <1>5, ObservedTyped, ObservedTruthful DEF ReadbackAbsent, DeliveryInv
  <2>2. \E status \in {"ambiguous", "approved"}, outcome \in {"ambiguous", "failed"} :
          Finish(SetStatus(s, status), outcome)
    BY <1>5 DEF ReadbackAbsent
  <2>. HIDE DEF r
  <2>3. s \in DeliveryState /\ Truthful(s)
    BY <2>1, MarkAttemptTyped, MarkedTruthful DEF AttemptOutcomes
  <2>. HIDE DEF s
  <2>4. \A status \in {"ambiguous", "approved"} :
          SetStatus(s, status) \in DeliveryState /\ Truthful(SetStatus(s, status))
    BY <2>3, SetStatusTyped, StatusTruthful DEF Statuses
  <2>5. UNCHANGED <<state, destination>>
    BY <1>5 DEF ReadbackAbsent, Local, durable
  <2>6. QED
    BY <1>0, <2>2, <2>4, <2>5, OrderFinish DEF RunOutcomes
<1>6. ASSUME NEW o \in Operations, NEW seen \in {"error", "conflict"}, ReadbackFails(o, seen)
      PROVE  OrderInv'
  <2>. DEFINE r == Observed(o, seen)
              s == MarkAttempt(r, o, "ambiguous")
              t == SetOperation(s, o, "ambiguous")
  <2>1. r \in DeliveryState /\ Truthful(r)
    BY <1>6, ObservedTyped, ObservedTruthful DEF ReadbackFails, DeliveryInv
  <2>2. \/ Finish(SetStatus(r, "blocked"), "failed")
        \/ Finish(SetStatus(t, "ambiguous"), "ambiguous")
    BY <1>6 DEF ReadbackFails
  <2>. HIDE DEF r
  <2>3. s \in DeliveryState /\ Truthful(s)
    BY <2>1, MarkAttemptTyped, MarkedTruthful DEF AttemptOutcomes
  <2>. HIDE DEF s
  <2>4. t \in DeliveryState /\ Truthful(t)
    BY <2>3, SetOperationTyped, OperationTruthful DEF OperationStates
  <2>. HIDE DEF t
  <2>5. \A u \in {SetStatus(r, "blocked"), SetStatus(t, "ambiguous")} :
          u \in DeliveryState /\ Truthful(u)
    BY <2>1, <2>4, SetStatusTyped, StatusTruthful DEF Statuses
  <2>6. UNCHANGED <<state, destination>>
    BY <1>6 DEF ReadbackFails, Local, durable
  <2>7. QED
    BY <1>0, <2>2, <2>5, <2>6, OrderFinish DEF RunOutcomes
<1>7. QED
  BY <1>1, <1>2, <1>3, <1>4, <1>5, <1>6 DEF Send

\* A delivery is called completed when everything is acknowledged.
LEMMA CloseOrder ==
  ASSUME DeliveryInv, RecordInv, OrderInv, Close
  PROVE  OrderInv'
<1>0. /\ mem \in DeliveryState /\ state \in DeliveryState /\ Truthful(mem) /\ Truthful(state)
      /\ Continues(state'.attempts)
  BY CloseRecords DEF DeliveryInv, TypeOK, OrderInv
<1>1. CASE Conclude
  <2>. DEFINE all == \A o \in Operations : mem.op[o] = "acknowledged"
  <2>1. PICK status \in {"cancelled", "completed", "approved"}, outcome \in RunOutcomes :
          /\ Finish(SetStatus(mem, status), outcome)
          /\ status = "cancelled" => mem.cancelled
          /\ status = "completed" => all
    BY <1>1 DEF Conclude, RunOutcomes
  <2>2. all => Operations \subseteq applied
    BY <1>0 DEF Truthful
  <2>3. SetStatus(mem, status) \in DeliveryState /\ Truthful(SetStatus(mem, status))
    BY <1>0, <2>1, <2>2, SetStatusTyped, StatusTruthful DEF Statuses
  <2>4. UNCHANGED <<state, destination>>
    BY <1>1 DEF Conclude, Local, durable
  <2>5. QED
    BY <1>0, <2>1, <2>3, <2>4, OrderFinish
<1>2. CASE SaveFinal
  BY <1>0, <1>2, OrderSaved DEF SaveFinal, Delivering, Steps
<1>3. CASE SealRun \/ CloseRun \/ WriteReceipt \/ Stop \/ StopSealing
  <2>1. UNCHANGED <<state, destination>> /\ mem' \in {mem, NoState} /\ pc' \in {"close", "receipt", "idle"}
    BY <1>3 DEF SealRun, CloseRun, WriteReceipt, Stop, StopSealing, Goto, durable
  <2>2. Truthful(NoState)
    BY DEF NoState, Fresh, Truthful
  <2>3. QED
    BY <1>0, <2>1, <2>2, OrderKept DEF Delivering
<1>4. QED
  BY <1>1, <1>2, <1>3 DEF Close

\* The destination remembers what it applied, also what it loses.
LEMMA WorldOrder ==
  ASSUME DeliveryInv, RecordInv, OrderInv, World \/ UNCHANGED vars
  PROVE  OrderInv'
<1>1. UNCHANGED <<state, sent, pc, mem, call>> /\ state' \in DeliveryState /\ Continues(state'.attempts)
  BY WorldRecords
     DEF DeliveryInv, TypeOK, World, Cancel, Expire, Apply, Occupy, Lose, durable, destination, vars
<1>2. applied \subseteq applied' /\ ShownIsApplied'
  <2>1. ASSUME NEW n \in inflight, Apply(n)  PROVE applied \subseteq applied' /\ ShownIsApplied'
    BY <2>1 DEF Apply, DeliveryInv, TypeOK, OrderInv, ShownIsApplied
  <2>2. ASSUME NEW o \in Operations, Occupy(o) \/ Lose(o)
        PROVE  applied \subseteq applied' /\ ShownIsApplied'
    BY <2>2 DEF Occupy, Lose, DeliveryInv, TypeOK, OrderInv, ShownIsApplied
  <2>3. CASE Cancel \/ Expire \/ UNCHANGED vars
    BY <2>3 DEF Cancel, Expire, destination, vars, OrderInv, ShownIsApplied
  <2>4. QED
    BY <2>1, <2>2, <2>3 DEF World
<1>3. Truthful(mem)' /\ Truthful(state)' /\ SendFits' /\ GestureFits'
  BY <1>1, <1>2 DEF OrderInv, Truthful, SendFits, GestureFits
<1>4. RelationsAfterEntries'
  BY <1>1, <1>2, SentKept DEF OrderInv
<1>5. QED
  BY <1>2, <1>3, <1>4 DEF OrderInv

\* Every step preserves the order.
LEMMA StepOrder ==
  ASSUME DeliveryInv, RecordInv, OrderInv, [Next]_vars
  PROVE  OrderInv'
BY OpenOrder, ObserveOrder, SendOrder, CloseOrder, WorldOrder DEF Next

\* The order holds at first.
LEMMA InitOrder ==
  ASSUME Init
  PROVE  OrderInv
BY DEF Init, OrderInv, ShownIsApplied, Truthful, SendFits, GestureFits, Delivering,
   RelationsAfterEntries, NoState, Fresh

\* It holds always, with the invariant it needs.
LEMMA DeliveryOrder == Spec => [](DeliveryInv /\ OrderInv)
<1>1. Init => DeliveryInv /\ RecordInv /\ OrderInv
  BY InitInv, InitRecords, InitOrder
<1>2. DeliveryInv /\ RecordInv /\ OrderInv /\ [Next]_vars => (DeliveryInv /\ RecordInv /\ OrderInv)'
  BY StepInv, StepRecords, StepOrder
<1>3. QED
  BY <1>1, <1>2, PTL DEF Spec

\* Whatever the destination applies, loses or gives to someone else, a relation is sent
\* only after both its entries were applied, and a delivery whose state.json reads as
\* completed had all of its operations applied (reconcileApprovedOperation,
\* approved_delivery_runtime.go:409-475).
THEOREM DeliveriesAreInOrder == Spec => []DeliveredInOrder
<1>1. OrderInv => DeliveredInOrder
  BY DEF OrderInv, Truthful, DeliveredInOrder, CompletedIsDelivered
<1>2. QED
  BY <1>1, DeliveryOrder, PTL

\* Nothing is reserved or sent without the gesture that authorised this invocation,
\* unless everything was applied already (approved_delivery_runtime.go:100-105).
THEOREM SendsAreAuthorised == Spec => []SendIsAuthorisedOrReplays
<1>1. OrderInv => SendIsAuthorisedOrReplays
  BY DEF OrderInv, SendFits, GestureFits, Delivering, SendIsAuthorisedOrReplays, SendIsAuthorised
<1>2. QED
  BY <1>1, DeliveryOrder, PTL

-----------------------------------------------------------------------------
(* The activation run.  The inductive invariant: a disk from which the run *)
(* can be started again, an app that may be ahead of it by what the        *)
(* handler at work has not written, and, as long as nothing was cut short, *)
(* one state in memory, in the file and behind the journal.                *)

\* The number of the stage a journal has reached.
Reach(j) == StageNumber(j.stage)

\* A state of which no part is older than the plan or the route it belongs to.
Coherent(s) ==
  /\ s \in States
  /\ s.outbox # None => s.outbox = s.route
  /\ s.plan = None => ~s.processed /\ ~s.confirmed
  /\ s.plan # None => s.inventory \in Inventories

\* A journal, and a disk.
IsJournal(j) ==
  /\ j = [stage |-> j.stage, plan |-> j.plan, refs |-> j.refs, latest |-> j.latest]
  /\ \E n \in DOMAIN Stages : j.stage = Stages[n]
  /\ j.plan \in {None} \cup Plans /\ DOMAIN j.refs = Domains
  /\ j.refs = [x \in Domains |-> j.refs[x]]
IsDisk(d) ==
  /\ d = [journal |-> d.journal, artifacts |-> d.artifacts, file |-> d.file]
  /\ IsJournal(d.journal) /\ d.artifacts \subseteq States

\* What the run is bound to: the plan of the latest state counts from the selection
\* of the proof on, and is that of the run from the start of the proof on; a
\* completed proof is a reviewed one.
Bound(d, s) ==
  /\ s.plan # None => Reach(d.journal) >= 5
  /\ Reach(d.journal) >= 6 => s.plan \in {None, d.journal.plan}
  /\ Reach(d.journal) >= 7 => /\ d.journal.plan # None
                              /\ s.plan = d.journal.plan /\ Reviewed(s)

\* A disk from which the run can be started again.
Sound(d) ==
  /\ IsDisk(d)
  /\ d.file # None => Coherent(d.file) /\ d.journal.latest # None
  /\ d.journal.latest # None =>
       /\ d.journal.latest \in d.artifacts
       /\ Coherent(d.journal.latest) /\ Bound(d, d.journal.latest)
  /\ Reach(d.journal) >= 7 => d.journal.latest # None

\* A state of the app over such a disk, which may be ahead of it.
Ahead(d, s) ==
  /\ Coherent(s) /\ Bound(d, s)
  /\ d.journal.latest # None /\ d.journal.latest.plan # None
       => s.plan = d.journal.latest.plan

\* A state nothing was cut short of: the journal refers to its artifacts, a route is
\* that of a completed proof, and a verdict is the one the journal has.
Faithful(d, s) ==
  /\ Agrees(s, d.journal)
  /\ s.route # None => Reach(d.journal) >= 7
  /\ s.founder # None => d.journal.refs["founder_review"] = s.founder

RunInv ==
  /\ Sound(disk)
  /\ up => Ahead(disk, app)
  /\ ~up => app = EmptyState /\ session.flight = None
  /\ ~cut /\ up => /\ app = disk.file /\ app = journal.latest /\ Faithful(disk, app)
  /\ ~cut /\ journal.latest # None => Faithful(disk, journal.latest)
  /\ ~cut /\ session.flight # None =>
       /\ Reach(journal) >= 7 /\ app.approval = session.flight.approval
  /\ session.flight # None /\ session.flight.opened /\ session.flight.receipt = None
       => store.open
  /\ store.open => store.runs < MaxRuns

\* Each stage has its place in the order as its number.
LEMMA StageNumbers ==
  /\ DOMAIN Stages = 1..8
  /\ \A n \in 1..8 : StageNumber(Stages[n]) = n
<1>1. DOMAIN Stages = 1..8
  BY DEF Stages
<1>2. \A m, n \in 1..8 : Stages[m] = Stages[n] => m = n
  BY DEF Stages
<1>3. ASSUME NEW n \in 1..8 PROVE StageNumber(Stages[n]) = n
  BY <1>1, <1>2 DEF StageNumber
<1> QED BY <1>1, <1>3

\* The stages by their numbers, and the completed ones.
LEMMA StageNames ==
  ASSUME NEW j, IsJournal(j)
  PROVE  /\ Reach(j) \in 1..8 /\ j.stage = Stages[Reach(j)]
         /\ j.stage \in Completed <=> Reach(j) >= 7
         /\ j.stage \in {"none", "configured", "inventorying"} <=> Reach(j) <= 3
         /\ j.stage = "proof_selected" <=> Reach(j) = 5
         /\ j.stage = "proof_processing" <=> Reach(j) = 6
         /\ j.stage = "proof_complete" <=> Reach(j) = 7
         /\ j.stage = "drain_confirmed" <=> Reach(j) = 8
<1>1. PICK n \in 1..8 : j.stage = Stages[n]
  BY StageNumbers DEF IsJournal
<1>2. Reach(j) = n
  BY <1>1, StageNumbers DEF Reach
<1> QED BY <1>1, <1>2 DEF Stages, Completed

\* The numbers of the stages the handlers move to.
LEMMA NumbersOfStages ==
  /\ StageNumber("configured") = 2 /\ StageNumber("inventorying") = 3
  /\ StageNumber("inventory_frozen") = 4 /\ StageNumber("proof_selected") = 5
  /\ StageNumber("proof_processing") = 6 /\ StageNumber("proof_complete") = 7
  /\ StageNumber("drain_confirmed") = 8
<1>1. /\ Stages[2] = "configured" /\ Stages[3] = "inventorying"
      /\ Stages[4] = "inventory_frozen" /\ Stages[5] = "proof_selected"
      /\ Stages[6] = "proof_processing" /\ Stages[7] = "proof_complete"
      /\ Stages[8] = "drain_confirmed"
  BY DEF Stages
<1>2. \A n \in 1..8 : StageNumber(Stages[n]) = n
  BY StageNumbers
<1>3. 2 \in 1..8 /\ 3 \in 1..8 /\ 4 \in 1..8 /\ 5 \in 1..8 /\ 6 \in 1..8 /\ 7 \in 1..8 /\ 8 \in 1..8
  OBVIOUS
<1> QED BY <1>1, <1>2, <1>3

-----------------------------------------------------------------------------
(* What the steps write.                                                   *)

\* The disk after n + 1 whole steps is that after n of them and the next one.
LEMMA DoneNext ==
  ASSUME NEW d, NEW steps, Len(steps) \in Nat
  PROVE  /\ Done(d, steps)[0] = d
         /\ \A n \in 1..Len(steps) :
              Done(d, steps)[n] = Whole(Done(d, steps)[n - 1], steps[n])
<1> DEFINE Runs(f, k) ==
             f = [n \in 0..k |-> IF n = 0 THEN d ELSE Whole(f[n - 1], steps[n])]
           Bad == {k \in Nat : ~ \E f : Runs(f, k)}
<1>1. Bad = {}
  <2>1. SUFFICES ASSUME Bad # {} PROVE FALSE
    OBVIOUS
  <2>2. Bad \subseteq Nat
    OBVIOUS
  <2>3. \E k \in Bad : \A m \in Bad : ~(<<m, k>> \in OpToRel(<, Nat))
    BY <2>1, <2>2, NatLessThanWellFounded, WFMin
  <2>4. PICK k \in Bad : \A m \in Bad : ~(m < k)
    BY <2>2, <2>3 DEF OpToRel
  <2>5. CASE k = 0
    <3>1. Runs([n \in 0..0 |-> d], 0)
      OBVIOUS
    <3> QED BY <2>4, <2>5, <3>1
  <2>6. CASE k # 0
    <3>1. k - 1 \in Nat /\ k - 1 \notin Bad /\ k \in Nat
      <4>1. k \in Nat /\ k - 1 \in Nat /\ k - 1 < k
        BY <2>2, <2>4, <2>6
      <4> HIDE DEF Bad
      <4> QED BY <2>4, <4>1
    <3>2. PICK f : Runs(f, k - 1)
      BY <3>1
    <3>3. PICK g : g = [n \in 0..k |-> IF n = k THEN Whole(f[k - 1], steps[k]) ELSE f[n]]
      OBVIOUS
    <3>4. ASSUME NEW n \in 0..k
          PROVE  g[n] = IF n = 0 THEN d ELSE Whole(g[n - 1], steps[n])
      <4>1. CASE n = k
        BY <2>6, <3>1, <3>3, <4>1
      <4>2. CASE n # k /\ n # 0
        <5>1. n \in 0..(k - 1) /\ n - 1 \in 0..(k - 1) /\ n - 1 # k
          BY <3>1, <4>2
        <5>2. g[n] = f[n] /\ g[n - 1] = f[n - 1]
          BY <3>1, <3>3, <4>2, <5>1
        <5>3. f[n] = Whole(f[n - 1], steps[n])
          BY <3>2, <4>2, <5>1
        <5> QED BY <4>2, <5>2, <5>3
      <4>3. CASE n # k /\ n = 0
        BY <3>1, <3>2, <3>3, <4>3
      <4> QED BY <4>1, <4>2, <4>3
    <3>5. Runs(g, k)
      <4>1. DOMAIN g = 0..k /\ g = [n \in 0..k |-> g[n]]
        BY <3>3
      <4> QED BY <3>4, <4>1
    <3> QED BY <2>4, <3>5
  <2> QED BY <2>5, <2>6
<1>2. \E f : Runs(f, Len(steps))
  BY <1>1
<1>3. Runs(Done(d, steps), Len(steps))
  BY <1>2 DEF Done
<1> QED BY <1>3

\* How many writes each kind of step has, and which.
LEMMA Orders ==
  /\ \A x, v, s : /\ WriteOrder(Commit(x, v, s)) = <<"artifact", "journal", "file">>
                  /\ Len(WriteOrder(Commit(x, v, s))) = 3
                  /\ WriteOrder(Refer(x, v, s)) = <<"journal">>
                  /\ Len(WriteOrder(Refer(x, v, s))) = 1
  /\ \A step : step.do = "move" => /\ WriteOrder(step) = <<"journal">>
                                   /\ Len(WriteOrder(step)) = 1
<1>1. \A x, v, s : /\ WriteOrder(Commit(x, v, s)) = <<"artifact", "journal", "file">>
                  /\ WriteOrder(Refer(x, v, s)) = <<"journal">>
  BY DEF WriteOrder, Commit, Refer
<1>2. \A step : step.do = "move" => WriteOrder(step) = <<"journal">>
  BY DEF WriteOrder
<1>3. Len(<<"artifact", "journal", "file">>) = 3 /\ Len(<<"journal">>) = 1
  OBVIOUS
<1> QED BY <1>1, <1>2, <1>3

\* The journal with a step.
LEMMA LoggedJournal ==
  ASSUME NEW j, IsJournal(j), NEW x, NEW v, NEW s, NEW l, l = Referenced(j, x, v, s)
  PROVE  /\ IsJournal(l) /\ l.stage = j.stage /\ l.plan = j.plan /\ l.latest = s
         /\ \A y \in Domains : l.refs[y] = IF y = x THEN v ELSE j.refs[y]
         /\ Reach(l) = Reach(j)
<1>1. PICK stage, plan, refs, latest :
        /\ j = [stage |-> stage, plan |-> plan, refs |-> refs, latest |-> latest]
        /\ refs = [y \in Domains |-> refs[y]]
  BY DEF IsJournal
<1>2. PICK r : r = IF x \in Domains THEN [refs EXCEPT ![x] = v] ELSE refs
  OBVIOUS
<1>3. l = [stage |-> stage, plan |-> plan, refs |-> r, latest |-> s]
  BY <1>1, <1>2 DEF Referenced
<1>4. r = [y \in Domains |-> IF y = x THEN v ELSE refs[y]]
  BY <1>1, <1>2
<1>5. l.stage = j.stage /\ l.plan = j.plan /\ l.latest = s /\ l.refs = r /\ j.refs = refs
  BY <1>1, <1>3
<1>6. IsJournal(l)
  <2>1. l = [stage |-> l.stage, plan |-> l.plan, refs |-> l.refs, latest |-> l.latest]
    BY <1>3
  <2>2. DOMAIN l.refs = Domains /\ l.refs = [y \in Domains |-> l.refs[y]]
    BY <1>4, <1>5
  <2> QED BY <1>5, <2>1, <2>2 DEF IsJournal
<1> QED BY <1>4, <1>5, <1>6 DEF Reach

\* A transition the journal accepts leads to the next stage and keeps the references.
LEMMA MovedJournal ==
  ASSUME NEW j, IsJournal(j), NEW to, NEW plan \in {None} \cup Plans,
         NEW n \in 1..8, to = Stages[n], NEW l, l = Transitioned(j, to, plan)
  PROVE  /\ IsJournal(l) /\ l.stage = to /\ l.latest = j.latest /\ l.refs = j.refs
         /\ l.plan = IF j.plan = None THEN plan ELSE j.plan
         /\ Reach(l) = n
<1>1. PICK stage, p, refs, latest :
        j = [stage |-> stage, plan |-> p, refs |-> refs, latest |-> latest]
  BY DEF IsJournal
<1>2. PICK q : q = IF p = None THEN plan ELSE p
  OBVIOUS
<1>3. l = [stage |-> to, plan |-> q, refs |-> refs, latest |-> latest]
  BY <1>1, <1>2 DEF Transitioned
<1>4. /\ l.stage = to /\ l.latest = j.latest /\ l.refs = j.refs /\ l.plan = q
      /\ p = j.plan
  BY <1>1, <1>3
<1>5. l.plan = IF j.plan = None THEN plan ELSE j.plan
  BY <1>2, <1>4
<1>6. IsJournal(l)
  <2>1. l = [stage |-> l.stage, plan |-> l.plan, refs |-> l.refs, latest |-> l.latest]
    BY <1>3
  <2>2. q \in {None} \cup Plans
    BY <1>2, <1>4 DEF IsJournal
  <2>3. \E m \in DOMAIN Stages : l.stage = Stages[m]
    BY <1>4, StageNumbers
  <2> QED BY <1>4, <2>1, <2>2, <2>3 DEF IsJournal
<1> QED BY <1>4, <1>5, <1>6, StageNumbers DEF Reach

\* What a prefix of the writes of a commit leaves on disk.
LEMMA CommitWrites ==
  ASSUME NEW d, IsDisk(d), NEW x, NEW v, NEW s \in States, NEW k \in 0..3
  PROVE  LET w == Written(d, Commit(x, v, s), k)
         IN /\ IsDisk(w)
            /\ \/ /\ w.journal = d.journal /\ w.file = d.file
                  /\ d.journal.latest \in d.artifacts => d.journal.latest \in w.artifacts
               \/ /\ w.journal = Referenced(d.journal, x, v, s)
                  /\ s \in w.artifacts /\ w.file \in {d.file, s}
            /\ k = 3 => w.journal = Referenced(d.journal, x, v, s) /\ w.file = s
<1>1. SUFFICES ASSUME NEW w, w = Written(d, Commit(x, v, s), k)
               PROVE  /\ IsDisk(w)
                      /\ \/ /\ w.journal = d.journal /\ w.file = d.file
                            /\ d.journal.latest \in d.artifacts
                                 => d.journal.latest \in w.artifacts
                         \/ /\ w.journal = Referenced(d.journal, x, v, s)
                            /\ s \in w.artifacts /\ w.file \in {d.file, s}
                      /\ k = 3 => /\ w.journal = Referenced(d.journal, x, v, s)
                                  /\ w.file = s
  OBVIOUS
<1> DEFINE c == Commit(x, v, s)
           what == {WriteOrder(c)[j] : j \in 1..k}
<1>2. /\ "artifact" \in what <=> k >= 1
      /\ "journal" \in what <=> k >= 2
      /\ "file" \in what <=> k >= 3
  <2>1. WriteOrder(c) = <<"artifact", "journal", "file">>
    BY Orders
  <2> HIDE DEF c
  <2>2. k = 0 \/ k = 1 \/ k = 2 \/ k = 3
    OBVIOUS
  <2>3. CASE k = 0
    BY <2>1, <2>3
  <2>4. CASE k = 1
    BY <2>1, <2>4
  <2>5. CASE k = 2
    BY <2>1, <2>5
  <2>6. CASE k = 3
    BY <2>1, <2>6
  <2> QED BY <2>2, <2>3, <2>4, <2>5, <2>6
<1>3. c.state = s /\ Logged(d.journal, c) = Referenced(d.journal, x, v, s)
  BY DEF Commit, Logged
<1>4. PICK l : l = Referenced(d.journal, x, v, s)
  OBVIOUS
<1>5. IsJournal(l) /\ l.latest = s
  BY <1>4, LoggedJournal DEF IsDisk
<1>6. PICK e : e = Write(d, c, what)
  OBVIOUS
<1>7. w = [e EXCEPT !.artifacts = @ \cap {e.journal.latest}]
  BY <1>1, <1>6 DEF Written, Needed
<1> HIDE DEF c, what
<1>8. e = [journal |-> IF k >= 2 THEN l ELSE d.journal,
           artifacts |-> d.artifacts \cup (IF k >= 1 THEN {s} ELSE {}),
           file |-> IF k >= 3 THEN s ELSE d.file]
  BY <1>2, <1>3, <1>4, <1>6 DEF Write
<1>9. /\ w = [journal |-> w.journal, artifacts |-> w.artifacts, file |-> w.file]
      /\ w.journal = (IF k >= 2 THEN l ELSE d.journal)
      /\ w.file = (IF k >= 3 THEN s ELSE d.file)
      /\ w.artifacts = (d.artifacts \cup (IF k >= 1 THEN {s} ELSE {}))
                         \cap {w.journal.latest}
  BY <1>7, <1>8
<1>10. IsDisk(w)
  BY <1>5, <1>9 DEF IsDisk
<1>11. CASE k >= 2
  BY <1>4, <1>5, <1>9, <1>10, <1>11
<1>12. CASE ~(k >= 2)
  BY <1>9, <1>10, <1>12
<1> QED BY <1>11, <1>12

\* A step that only writes the journal, with and without its write.
LEMMA JournalWrites ==
  ASSUME NEW d, IsDisk(d), NEW step, WriteOrder(step) = <<"journal">>,
         IsJournal(Logged(d.journal, step)), NEW k \in 0..1,
         NEW w, w = Written(d, step, k)
  PROVE  /\ IsDisk(w) /\ w.file = d.file
         /\ w.journal = IF k = 1 THEN Logged(d.journal, step) ELSE d.journal
         /\ w.journal.latest \in d.artifacts => w.journal.latest \in w.artifacts
<1> DEFINE what == {WriteOrder(step)[j] : j \in 1..k}
<1>1. /\ "artifact" \notin what /\ "file" \notin what
      /\ "journal" \in what <=> k = 1
  <2>1. k = 0 \/ k = 1
    OBVIOUS
  <2>2. CASE k = 0
    BY <2>2
  <2>3. CASE k = 1
    BY <2>3
  <2> QED BY <2>1, <2>2, <2>3
<1>2. PICK l : l = Logged(d.journal, step)
  OBVIOUS
<1>3. PICK e : e = Write(d, step, what)
  OBVIOUS
<1>4. w = [e EXCEPT !.artifacts = @ \cap {e.journal.latest}]
  BY <1>3 DEF Written, Needed
<1> HIDE DEF what
<1>5. e = [journal |-> IF k = 1 THEN l ELSE d.journal,
           artifacts |-> d.artifacts \cup {}, file |-> d.file]
  BY <1>1, <1>2, <1>3 DEF Write
<1>6. /\ w = [journal |-> w.journal, artifacts |-> w.artifacts, file |-> w.file]
      /\ w.journal = (IF k = 1 THEN l ELSE d.journal) /\ w.file = d.file
      /\ w.artifacts = d.artifacts \cap {w.journal.latest}
  BY <1>4, <1>5
<1> QED BY <1>2, <1>6 DEF IsDisk

-----------------------------------------------------------------------------
(* What a step keeps.                                                      *)

\* A step that fits: a reference without an artifact is to the state that is already
\* the latest, a transition of the proof is of the plan of its state, and a proof is
\* completed over its reviewed state.
Fits(d, step) ==
  \/ \E x, v : step = Commit(x, v, step.state)
  \/ /\ \E x, v : step = Refer(x, v, step.state)
     /\ d.journal.latest = step.state
  \/ /\ step.do = "move" /\ step.plan \in {None} \cup Plans
     /\ \E n \in 2..8 : step.to = Stages[n]
     /\ StageNumber(step.to) >= 6 => step.plan = step.state.plan
     /\ StageNumber(step.to) = 7 => /\ d.journal.latest = step.state
                                    /\ Reviewed(step.state)

Good(d, step) == Sound(d) /\ Ahead(d, step.state) /\ Fits(d, step)

\* Only the stage and the plan of the journal bind a state.
LEMMA BoundAlike ==
  ASSUME NEW d, NEW e, Reach(e.journal) = Reach(d.journal),
         e.journal.plan = d.journal.plan, NEW s, Bound(d, s)
  PROVE  Bound(e, s)
  BY DEF Bound

\* A disk of the same journal and file, with the artifact of its latest reference.
LEMMA SoundAlike ==
  ASSUME NEW d, Sound(d), NEW e, IsDisk(e), e.journal = d.journal, e.file = d.file,
         d.journal.latest \in d.artifacts => d.journal.latest \in e.artifacts
  PROVE  Sound(e) /\ \A s : Ahead(d, s) => Ahead(e, s)
  BY DEF Sound, Ahead, Bound

\* Whatever of its writes a commit gets to, the run can be started again from it.
LEMMA CommitKeeps ==
  ASSUME NEW d, Sound(d), NEW s, Ahead(d, s), NEW x, NEW v, NEW k \in 0..3,
         NEW w, w = Written(d, Commit(x, v, s), k)
  PROVE  Sound(w) /\ Ahead(w, s)
<1>1. s \in States /\ s # None /\ IsDisk(d) /\ IsJournal(d.journal)
  BY AbsenceAssumption DEF Ahead, Coherent, Sound, IsDisk
<1>2. PICK l : l = Referenced(d.journal, x, v, s)
  OBVIOUS
<1>3. l.plan = d.journal.plan /\ l.latest = s /\ Reach(l) = Reach(d.journal)
  BY <1>1, <1>2, LoggedJournal
<1>4. /\ IsDisk(w)
      /\ \/ /\ w.journal = d.journal /\ w.file = d.file
            /\ d.journal.latest \in d.artifacts => d.journal.latest \in w.artifacts
         \/ w.journal = l /\ s \in w.artifacts /\ w.file \in {d.file, s}
  <2>1. /\ IsDisk(w)
        /\ \/ /\ w.journal = d.journal /\ w.file = d.file
              /\ d.journal.latest \in d.artifacts => d.journal.latest \in w.artifacts
           \/ /\ w.journal = Referenced(d.journal, x, v, s)
              /\ s \in w.artifacts /\ w.file \in {d.file, s}
    BY <1>1, CommitWrites, Z3
  <2> QED BY <1>2, <2>1
<1>5. CASE /\ w.journal = d.journal /\ w.file = d.file
           /\ d.journal.latest \in d.artifacts => d.journal.latest \in w.artifacts
  BY <1>4, <1>5, SoundAlike
<1>6. CASE w.journal = l /\ s \in w.artifacts /\ w.file \in {d.file, s}
  <2>1. Bound(w, s) /\ Coherent(s)
    BY <1>3, <1>6, BoundAlike DEF Ahead
  <2>2. Sound(w)
    BY <1>1, <1>3, <1>4, <1>6, <2>1 DEF Sound
  <2> QED BY <1>3, <1>6, <2>1, <2>2 DEF Ahead
<1> QED BY <1>4, <1>5, <1>6

\* So it is of a reference to the latest state.
LEMMA ReferenceKeeps ==
  ASSUME NEW d, Sound(d), NEW s, Ahead(d, s), d.journal.latest = s, NEW x, NEW v,
         NEW k \in 0..1, NEW w, w = Written(d, Refer(x, v, s), k)
  PROVE  Sound(w) /\ Ahead(w, s)
<1>1. PICK step : step = Refer(x, v, s)
  OBVIOUS
<1>2. PICK l : l = Referenced(d.journal, x, v, s)
  OBVIOUS
<1>3. l = Logged(d.journal, step) /\ WriteOrder(step) = <<"journal">>
  BY <1>1, <1>2, Orders DEF Logged, Refer
<1>4. IsJournal(l) /\ l.plan = d.journal.plan /\ l.latest = s /\ Reach(l) = Reach(d.journal)
  BY <1>2, LoggedJournal DEF Sound, IsDisk
<1>5. /\ IsDisk(w) /\ w.file = d.file /\ w.journal \in {l, d.journal}
      /\ w.journal.latest \in d.artifacts => w.journal.latest \in w.artifacts
  BY <1>1, <1>3, <1>4, JournalWrites DEF Sound
<1>6. /\ w.journal.latest = s /\ w.journal.plan = d.journal.plan
      /\ Reach(w.journal) = Reach(d.journal)
  BY <1>4, <1>5
<1>7. Bound(w, s)
  BY <1>6, BoundAlike DEF Ahead
<1> QED BY <1>5, <1>6, <1>7 DEF Sound, Ahead

\* And of a transition that the journal accepts.
LEMMA MoveKeeps ==
  ASSUME NEW d, NEW step, step.do = "move", Good(d, step), Admits(d, step),
         NEW k \in 0..1, NEW w, w = Written(d, step, k)
  PROVE  /\ Sound(w) /\ Ahead(w, step.state)
         /\ k = 1 => /\ Reach(w.journal) = Reach(d.journal) + 1
                     /\ w.journal.stage = step.to
                     /\ w.journal.latest = d.journal.latest
                     /\ w.journal.refs = d.journal.refs /\ w.file = d.file
<1>1. /\ step.plan \in {None} \cup Plans
      /\ StageNumber(step.to) >= 6 => step.plan = step.state.plan
      /\ StageNumber(step.to) = 7 => /\ d.journal.latest = step.state
                                     /\ Reviewed(step.state)
  BY DEF Good, Fits, Commit, Refer
<1>2. PICK n \in 2..8 : step.to = Stages[n]
  BY DEF Good, Fits, Commit, Refer
<1>3. StageNumber(step.to) = n
  BY <1>2, StageNumbers
<1>4. PICK j : j = d.journal
  OBVIOUS
<1>5. IsDisk(d) /\ IsJournal(j) /\ Sound(d) /\ Ahead(d, step.state)
  BY <1>4 DEF Good, Sound, IsDisk
<1>6. step.plan # None /\ j.plan \in {None, step.plan} /\ n = Reach(j) + 1
  BY <1>3, <1>4 DEF Admits, Accepts, Reach
<1>7. PICK l : l = Transitioned(j, step.to, step.plan)
  OBVIOUS
<1>8. /\ IsJournal(l) /\ l.stage = step.to /\ l.latest = j.latest /\ l.refs = j.refs
      /\ l.plan = step.plan /\ Reach(l) = n
  BY <1>1, <1>2, <1>5, <1>6, <1>7, MovedJournal
<1>9. l = Logged(j, step) /\ WriteOrder(step) = <<"journal">>
  BY <1>7, Orders DEF Logged
<1>10. /\ IsDisk(w) /\ w.file = d.file
       /\ w.journal = IF k = 1 THEN l ELSE j
       /\ w.journal.latest \in d.artifacts => w.journal.latest \in w.artifacts
  BY <1>4, <1>5, <1>8, <1>9, JournalWrites
<1>11. CASE k = 0
  BY <1>4, <1>5, <1>10, <1>11, SoundAlike
<1>12. CASE k = 1
  <2>1. w.journal = l /\ Reach(j) \in 1..8 /\ l.latest = j.latest
    BY <1>5, <1>8, <1>10, <1>12, StageNames
  <2>2. ASSUME NEW s, Bound(d, s), Coherent(s), s.plan \in {None, step.state.plan},
               n = 7 => s = step.state
        PROVE  Bound(w, s)
    <3>1. /\ s.plan # None => Reach(j) >= 5
          /\ Reach(j) >= 6 => s.plan \in {None, j.plan}
          /\ Reach(j) >= 7 => j.plan # None /\ s.plan = j.plan /\ Reviewed(s)
      BY <1>4, <2>2 DEF Bound
    <3>2. n >= 6 => s.plan \in {None, step.plan}
      BY <1>1, <1>3, <2>2
    <3>3. n >= 7 => s.plan = step.plan /\ Reviewed(s)
      <4>1. CASE n = 7
        BY <1>1, <1>3, <2>2, <4>1
      <4>2. CASE n >= 8
        BY <1>6, <2>1, <3>1, <4>2
      <4> QED BY <4>1, <4>2
    <3> QED BY <1>6, <1>8, <2>1, <3>1, <3>2, <3>3 DEF Bound
  <2>3. Bound(w, step.state) /\ Coherent(step.state)
    BY <1>5, <2>2 DEF Ahead
  <2>4. j.latest # None => Coherent(j.latest) /\ Bound(w, j.latest)
    <3>1. SUFFICES ASSUME j.latest # None
                   PROVE  Coherent(j.latest) /\ Bound(w, j.latest)
      OBVIOUS
    <3>2. /\ Coherent(j.latest) /\ Bound(d, j.latest)
          /\ j.latest.plan \in {None, step.state.plan}
      BY <1>4, <1>5, <3>1 DEF Sound, Ahead
    <3>3. n = 7 => j.latest = step.state
      BY <1>1, <1>3, <1>4
    <3> QED BY <2>2, <3>2, <3>3
  <2>5. n >= 7 => j.latest # None
    <3>1. CASE n = 7
      BY <1>1, <1>3, <1>4, <1>5, <3>1, AbsenceAssumption DEF Ahead, Coherent
    <3>2. CASE n >= 8
      BY <1>4, <1>5, <1>6, <2>1, <3>2 DEF Sound
    <3> QED BY <3>1, <3>2
  <2>6. Sound(w)
    BY <1>4, <1>5, <1>8, <1>10, <2>1, <2>4, <2>5 DEF Sound
  <2>7. Ahead(w, step.state)
    BY <1>4, <1>5, <2>1, <2>3 DEF Ahead
  <2> QED BY <1>4, <1>6, <1>8, <1>10, <2>1, <2>6, <2>7
<1> QED BY <1>11, <1>12

\* A step that fits keeps the run sound, whatever of its writes it gets to.
LEMMA StepKeeps ==
  ASSUME NEW d, NEW step, Good(d, step), Admits(d, step),
         NEW k \in 0..Len(WriteOrder(step))
  PROVE  Sound(Written(d, step, k)) /\ Ahead(Written(d, step, k), step.state)
<1>1. Sound(d) /\ Ahead(d, step.state)
  BY DEF Good
<1>2. PICK s : s = step.state
  OBVIOUS
<1>3. CASE \E x, v : step = Commit(x, v, s)
  <2>1. PICK x, v : step = Commit(x, v, s)
    BY <1>3
  <2>2. k \in 0..3
    BY <2>1, Orders
  <2> QED BY <1>1, <1>2, <2>1, <2>2, CommitKeeps
<1>4. CASE (\E x, v : step = Refer(x, v, s)) /\ d.journal.latest = s
  <2>1. PICK x, v : step = Refer(x, v, s)
    BY <1>4
  <2>2. k \in 0..1
    BY <2>1, Orders
  <2> QED BY <1>1, <1>2, <1>4, <2>1, <2>2, ReferenceKeeps
<1>5. CASE step.do = "move"
  <2>1. k \in 0..1
    BY <1>5, Orders
  <2> QED BY <1>5, <2>1, MoveKeeps
<1> QED BY <1>2, <1>3, <1>4, <1>5 DEF Good, Fits

\* The steps of a handler fit, each where those before it lead.
Safe(d, steps) ==
  \A n \in DOMAIN steps :
    (\A m \in 1..n - 1 : Admits(Done(d, steps)[m - 1], steps[m]))
      => Good(Done(d, steps)[n - 1], steps[n])
IsList(steps) == \E S : steps \in Seq(S)

\* The positions of a list of steps.
LEMMA Lists ==
  ASSUME NEW steps, IsList(steps)
  PROVE  Len(steps) \in Nat /\ DOMAIN steps = 1..Len(steps)
  BY DEF IsList

\* Wherever a handler of such steps ends, the run can be started again, and the app
\* is on from there.
LEMMA EndsSound ==
  ASSUME NEW d, NEW s, Sound(d), Ahead(d, s), NEW steps, IsList(steps), Safe(d, steps)
  PROVE  /\ (\A n \in DOMAIN steps : Admits(Done(d, steps)[n - 1], steps[n]))
              => /\ Sound(Done(d, steps)[Len(steps)])
                 /\ Len(steps) = 0 => Ahead(Done(d, steps)[Len(steps)], s)
                 /\ Len(steps) # 0 => Ahead(Done(d, steps)[Len(steps)],
                                            steps[Len(steps)].state)
         /\ \A n \in Reached(d, steps) :
              /\ Good(Done(d, steps)[n - 1], steps[n])
              /\ Admits(Done(d, steps)[n - 1], steps[n]) =>
                   \A k \in 0..Len(WriteOrder(steps[n])) :
                     /\ Sound(Written(Done(d, steps)[n - 1], steps[n], k))
                     /\ Ahead(Written(Done(d, steps)[n - 1], steps[n], k), steps[n].state)
<1>1. PICK f : f = Done(d, steps)
  OBVIOUS
<1>2. f[0] = d /\ \A n \in 1..Len(steps) : f[n] = Whole(f[n - 1], steps[n])
  BY <1>1, DoneNext, Lists
<1>3. ASSUME NEW n \in Reached(d, steps)
      PROVE  /\ Good(f[n - 1], steps[n])
             /\ Admits(f[n - 1], steps[n]) =>
                  \A k \in 0..Len(WriteOrder(steps[n])) :
                    /\ Sound(Written(f[n - 1], steps[n], k))
                    /\ Ahead(Written(f[n - 1], steps[n], k), steps[n].state)
  <2>1. Good(f[n - 1], steps[n])
    BY <1>1 DEF Safe, Reached
  <2> QED BY <2>1, StepKeeps
<1>4. ASSUME \A n \in DOMAIN steps : Admits(f[n - 1], steps[n])
      PROVE  /\ Sound(f[Len(steps)])
             /\ Len(steps) = 0 => Ahead(f[Len(steps)], s)
             /\ Len(steps) # 0 => Ahead(f[Len(steps)], steps[Len(steps)].state)
  <2>1. CASE Len(steps) = 0
    BY <1>2, <2>1
  <2>2. CASE Len(steps) # 0
    <3>1. Len(steps) \in Nat /\ Len(steps) # 0
      BY <2>2, Lists
    <3>2. PICK n : n = Len(steps)
      OBVIOUS
    <3>3. n \in 1..Len(steps)
      BY <3>1, <3>2
    <3>4. n \in Reached(d, steps) /\ Admits(f[n - 1], steps[n])
      BY <1>1, <1>4, <3>2, <3>3, Lists DEF Reached
    <3>5. f[n] = Written(f[n - 1], steps[n], Len(WriteOrder(steps[n])))
      BY <1>2, <3>3 DEF Whole
    <3>6. Len(WriteOrder(steps[n])) \in 0..Len(WriteOrder(steps[n]))
      BY DEF WriteOrder
    <3> QED BY <1>3, <2>2, <3>2, <3>4, <3>5, <3>6
  <2> QED BY <2>1, <2>2
<1> QED BY <1>1, <1>3, <1>4

\* The steps all admitted, and the disk after them.
Admitted(d, steps) ==
  \A n \in DOMAIN steps : Admits(Done(d, steps)[n - 1], steps[n])
End(d, steps) == Done(d, steps)[Len(steps)]

\* The empty list ends where it starts.
LEMMA NoSteps ==
  ASSUME NEW d
  PROVE  /\ IsList(<< >>) /\ Safe(d, << >>) /\ End(d, << >>) = d
         /\ Len(<< >>) = 0
<1>1. << >> \in Seq({}) /\ Len(<< >>) = 0 /\ DOMAIN << >> = {}
  OBVIOUS
<1>2. Done(d, << >>)[0] = d
  BY <1>1, DoneNext
<1> QED BY <1>1, <1>2 DEF IsList, Safe, End

\* A list of steps, one at a time.
IsFirst(c, rest, steps) == steps = <<c>> \o rest

\* The positions of a list whose first step is set apart.
LEMMA FirstList ==
  ASSUME NEW c, NEW rest, IsList(rest), NEW steps, IsFirst(c, rest, steps)
  PROVE  /\ IsList(steps) /\ Len(steps) = Len(rest) + 1
         /\ steps[1] = c
         /\ \A n \in 1..Len(rest) : steps[n + 1] = rest[n]
<1>1. PICK S : rest \in Seq(S)
  BY DEF IsList
<1>2. rest \in Seq(S \cup {c}) /\ <<c>> \in Seq(S \cup {c})
  BY <1>1
<1>3. /\ steps \in Seq(S \cup {c}) /\ Len(steps) = Len(rest) + 1 /\ steps[1] = c
      /\ \A n \in 1..Len(rest) : steps[n + 1] = rest[n]
  BY <1>2 DEF IsFirst
<1> QED BY <1>3 DEF IsList

\* What a list leads to is what its rest leads to after the first step.
LEMMA FirstStep ==
  ASSUME NEW d, NEW c, NEW rest, IsList(rest), NEW steps, IsFirst(c, rest, steps)
  PROVE  \A n \in 0..Len(rest) :
           Done(d, steps)[n + 1] = Done(Whole(d, c), rest)[n]
<1>1. /\ Len(steps) = Len(rest) + 1 /\ steps[1] = c
      /\ \A n \in 1..Len(rest) : steps[n + 1] = rest[n]
      /\ Len(rest) \in Nat /\ Len(steps) \in Nat
  BY FirstList, Lists
<1>2. PICK f : f = Done(d, steps)
  OBVIOUS
<1>3. PICK g : g = Done(Whole(d, c), rest)
  OBVIOUS
<1>4. f[0] = d /\ \A n \in 1..Len(steps) : f[n] = Whole(f[n - 1], steps[n])
  <2>1. /\ Done(d, steps)[0] = d
        /\ \A n \in 1..Len(steps) :
             Done(d, steps)[n] = Whole(Done(d, steps)[n - 1], steps[n])
    <3>1. Len(steps) \in Nat
      BY <1>1
    <3> QED BY <3>1, DoneNext
  <2> QED BY <1>2, <2>1
<1>5. g[0] = Whole(d, c) /\ \A n \in 1..Len(rest) : g[n] = Whole(g[n - 1], rest[n])
  BY <1>1, <1>3, DoneNext
<1> DEFINE Bad == {n \in Nat : n <= Len(rest) /\ f[n + 1] # g[n]}
<1>6. Bad = {}
  <2>1. SUFFICES ASSUME Bad # {} PROVE FALSE
    OBVIOUS
  <2>2. Bad \subseteq Nat
    OBVIOUS
  <2>3. \E k \in Bad : \A m \in Bad : ~(<<m, k>> \in OpToRel(<, Nat))
    BY <2>1, <2>2, NatLessThanWellFounded, WFMin
  <2>4. PICK k \in Bad : \A m \in Bad : ~(m < k)
    BY <2>2, <2>3 DEF OpToRel
  <2>5. k \in Nat /\ k <= Len(rest) /\ f[k + 1] # g[k]
    BY <2>4
  <2>6. CASE k = 0
    <3>1. f[1] = Whole(f[0], steps[1])
      BY <1>1, <1>4
    <3> QED BY <1>1, <1>4, <1>5, <2>5, <2>6, <3>1
  <2>7. CASE k # 0
    <3>1. k \in 1..Len(rest) /\ k + 1 \in 1..Len(steps) /\ (k + 1) - 1 = k
          /\ k - 1 \in Nat /\ k - 1 < k /\ (k - 1) + 1 = k
      BY <1>1, <2>5, <2>7
    <3>2. f[k] = g[k - 1]
      <4>1. k - 1 \notin Bad
        <5> HIDE DEF Bad
        <5> QED BY <2>4, <3>1
      <4> QED BY <1>1, <2>5, <3>1, <4>1
    <3>3. f[k + 1] = Whole(f[k], steps[k + 1]) /\ g[k] = Whole(g[k - 1], rest[k])
      BY <1>4, <1>5, <3>1
    <3> QED BY <1>1, <2>5, <3>1, <3>2, <3>3
  <2> QED BY <2>6, <2>7
<1>7. ASSUME NEW n \in 0..Len(rest) PROVE f[n + 1] = g[n]
  <2>1. n \in Nat /\ n <= Len(rest) /\ n \notin Bad
    BY <1>1, <1>6
  <2> QED BY <2>1
<1> QED BY <1>2, <1>3, <1>7

\* The rest of a list is safe where the first of it leads, and its end is that of the
\* rest from there.
LEMMA FirstSafe ==
  ASSUME NEW d, NEW c, NEW rest, IsList(rest), NEW steps, IsFirst(c, rest, steps),
         Good(d, c), Admits(d, c) => Safe(Whole(d, c), rest)
  PROVE  Safe(d, steps)
<1>1. \A n \in 0..Len(rest) :
        Done(d, steps)[n + 1] = Done(Whole(d, c), rest)[n]
  BY FirstStep
<1>2. /\ IsList(steps) /\ Len(steps) = Len(rest) + 1 /\ steps[1] = c
      /\ \A n \in 1..Len(rest) : steps[n + 1] = rest[n]
  BY FirstList
<1>3. /\ Len(rest) \in Nat /\ DOMAIN rest = 1..Len(rest)
      /\ Len(steps) \in Nat /\ DOMAIN steps = 1..Len(steps)
  BY <1>2, Lists
<1>4. PICK f : f = Done(d, steps)
  OBVIOUS
<1>5. PICK g : g = Done(Whole(d, c), rest)
  OBVIOUS
<1>6. f[0] = d
  BY <1>3, <1>4, DoneNext
<1>7. \A n \in 0..Len(rest) : f[n + 1] = g[n]
  BY <1>1, <1>4, <1>5
<1>8. SUFFICES ASSUME NEW n \in DOMAIN steps,
                      \A m \in 1..n - 1 : Admits(f[m - 1], steps[m])
               PROVE  Good(f[n - 1], steps[n])
  BY <1>4 DEF Safe
<1>9. CASE n = 1
  BY <1>2, <1>6, <1>9
<1>10. CASE n # 1
  <2>1. PICK k : k = n - 1
    OBVIOUS
  <2>2. k \in 1..Len(rest) /\ n = k + 1 /\ k - 1 \in 0..Len(rest) /\ (k - 1) + 1 = k
    BY <1>2, <1>3, <1>10, <2>1
  <2>3. Admits(d, c)
    <3>1. 1 \in 1..n - 1
      BY <2>2
    <3> QED BY <1>2, <1>6, <1>8, <3>1
  <2>4. ASSUME NEW m \in 1..k - 1 PROVE Admits(g[m - 1], rest[m])
    <3>1. m + 1 \in 1..n - 1 /\ m \in 1..Len(rest) /\ (m + 1) - 1 = m /\ (m - 1) + 1 = m
          /\ m - 1 \in 0..Len(rest)
      BY <1>3, <2>2
    <3>2. Admits(f[(m + 1) - 1], steps[m + 1])
      BY <1>8, <3>1
    <3>3. f[m] = g[m - 1]
      BY <1>7, <3>1
    <3> QED BY <1>2, <3>1, <3>2, <3>3
  <2>5. Good(g[k - 1], rest[k])
    BY <1>3, <1>5, <2>2, <2>3, <2>4 DEF Safe
  <2>6. f[k] = g[k - 1]
    BY <1>7, <2>2
  <2>7. steps[n] = rest[k] /\ n - 1 = k
    BY <1>2, <2>1, <2>2
  <2> QED BY <2>5, <2>6, <2>7
<1> QED BY <1>9, <1>10

\* A list is admitted, ends and closes as its rest does after the first step.
LEMMA FirstEnds ==
  ASSUME NEW d, NEW c, NEW rest, IsList(rest), NEW steps, IsFirst(c, rest, steps)
  PROVE  /\ IsList(steps) /\ Len(steps) # 0
         /\ Admitted(d, steps) => Admits(d, c) /\ Admitted(Whole(d, c), rest)
         /\ End(d, steps) = End(Whole(d, c), rest)
         /\ steps[Len(steps)] = IF Len(rest) = 0 THEN c ELSE rest[Len(rest)]
<1>1. \A n \in 0..Len(rest) :
        Done(d, steps)[n + 1] = Done(Whole(d, c), rest)[n]
  BY FirstStep
<1>2. /\ IsList(steps) /\ Len(steps) = Len(rest) + 1 /\ steps[1] = c
      /\ \A n \in 1..Len(rest) : steps[n + 1] = rest[n]
  BY FirstList
<1>3. /\ Len(rest) \in Nat /\ DOMAIN rest = 1..Len(rest)
      /\ Len(steps) \in Nat /\ DOMAIN steps = 1..Len(steps)
  BY <1>2, Lists
<1>4. PICK f : f = Done(d, steps)
  OBVIOUS
<1>5. PICK g : g = Done(Whole(d, c), rest)
  OBVIOUS
<1>6. f[0] = d
  BY <1>3, <1>4, DoneNext
<1>7. \A n \in 0..Len(rest) : f[n + 1] = g[n]
  BY <1>1, <1>4, <1>5
<1>8. ASSUME Admitted(d, steps) PROVE Admits(d, c) /\ Admitted(Whole(d, c), rest)
  <2>1. \A n \in 1..Len(steps) : Admits(f[n - 1], steps[n])
    BY <1>3, <1>4, <1>8 DEF Admitted
  <2>2. Admits(d, c)
    <3>1. 1 \in 1..Len(steps) /\ 1 - 1 = 0
      BY <1>2, <1>3
    <3>2. Admits(f[1 - 1], steps[1])
      BY <2>1, <3>1
    <3> QED BY <1>2, <1>6, <3>1, <3>2
  <2>3. ASSUME NEW m \in 1..Len(rest) PROVE Admits(g[m - 1], rest[m])
    <3>1. m + 1 \in 1..Len(steps) /\ (m + 1) - 1 = m /\ (m - 1) + 1 = m
          /\ m - 1 \in 0..Len(rest)
      BY <1>2, <1>3
    <3>2. Admits(f[(m + 1) - 1], steps[m + 1])
      BY <2>1, <3>1
    <3>3. f[m] = g[m - 1]
      BY <1>7, <3>1
    <3> QED BY <1>2, <3>1, <3>2, <3>3
  <2> QED BY <1>3, <1>5, <2>2, <2>3 DEF Admitted
<1>9. End(d, steps) = End(Whole(d, c), rest)
  <2>1. Len(rest) \in 0..Len(rest)
    BY <1>3
  <2> QED BY <1>1, <1>2, <2>1 DEF End
<1>10. steps[Len(steps)] = IF Len(rest) = 0 THEN c ELSE rest[Len(rest)]
  BY <1>2, <1>3
<1> QED BY <1>2, <1>3, <1>8, <1>9, <1>10

-----------------------------------------------------------------------------
(* The states the handlers make.                                           *)

\* What the two resets take back, and what they leave.
LEMMA DestinationReset ==
  ASSUME NEW s \in States, NEW t, t = ResetDestination(s)
  PROVE  /\ t \in States
         /\ t.inventory = s.inventory /\ t.strategy = s.strategy /\ t.plan = s.plan
         /\ t.reviewed = s.reviewed /\ t.processed = s.processed
         /\ t.reviews = s.reviews /\ t.route = s.route
         /\ t.destination = s.destination
         /\ t.outbox = None /\ ~t.preview /\ t.approval = None /\ t.resume = None
         /\ t.delivery = None /\ ~t.cancelled /\ t.founder = None
         /\ t.recovery = None /\ ~t.confirmed
  BY DEF ResetDestination, States

\* What a reset of the proof takes back besides.
LEMMA ProofReset ==
  ASSUME NEW s \in States, NEW t, t = ResetProof(s)
  PROVE  /\ t \in States
         /\ t.inventory = s.inventory /\ t.strategy = s.strategy /\ t.plan = None
         /\ ~t.reviewed /\ ~t.processed /\ t.reviews = {} /\ t.route = None
         /\ t.destination = s.destination
         /\ t.outbox = None /\ ~t.preview /\ t.approval = None /\ t.resume = None
         /\ t.delivery = None /\ ~t.cancelled /\ t.founder = None
         /\ t.recovery = None /\ ~t.confirmed
<1>1. PICK u : u = [s EXCEPT !.plan = None, !.reviewed = FALSE,
                             !.processed = FALSE, !.reviews = {},
                             !.route = None]
  OBVIOUS
<1>2. /\ u \in States
      /\ u.inventory = s.inventory /\ u.strategy = s.strategy /\ u.plan = None
      /\ ~u.reviewed /\ ~u.processed /\ u.reviews = {} /\ u.route = None
      /\ u.destination = s.destination
  BY <1>1 DEF States
<1>3. t = ResetDestination(u)
  BY <1>1 DEF ResetProof
<1> QED BY <1>2, <1>3, DestinationReset

\* The artifact a state has in each domain.
LEMMA AuthorityOfState ==
  ASSUME NEW s, NEW a, a = CurrentAuthority(s)
  PROVE  /\ a["inventory"] = s.inventory /\ a["strategy"] = s.strategy
         /\ a["destination"] = (IF s.destination THEN s.destination ELSE None)
         /\ a["queue"] = Queue(s)
         /\ a["processing"] = (IF s.processed THEN s.plan ELSE None)
         /\ a["review"] = (IF s.reviews = {} THEN None ELSE s.reviews)
         /\ a["outbox"] = s.outbox /\ a["approval"] = s.approval
         /\ a["cancellation"] = (IF s.cancelled THEN s.cancelled ELSE None)
         /\ a["delivery"] = s.delivery /\ a["delivery_resume"] = s.resume
         /\ a["founder_review"] = s.founder /\ a["recovery"] = s.recovery
         /\ a["drain_confirmation"] = (IF s.confirmed THEN Queue(s) ELSE None)
  BY DEF CurrentAuthority, Domains

\* Outside some domains, the artifacts of a state are those of another or absent.
SameBut(m, s, X) ==
  \A x \in Domains \ X : CurrentAuthority(s)[x] \in {None, CurrentAuthority(m)[x]}

\* Field by field, when one state differs from another in no other domain.
LEMMA SameWhen ==
  ASSUME NEW m \in States, NEW s \in States, NEW X,
         "inventory" \notin X => s.inventory = m.inventory,
         "strategy" \notin X => s.strategy = m.strategy,
         "destination" \notin X => s.destination = m.destination,
         "queue" \notin X => s.plan = None \/ Queue(s) = Queue(m),
         "processing" \notin X => \/ ~s.processed
                                  \/ m.processed /\ s.plan = m.plan,
         "review" \notin X => s.reviews = {} \/ s.reviews = m.reviews,
         "outbox" \notin X => s.outbox \in {None, m.outbox},
         "approval" \notin X => s.approval \in {None, m.approval},
         "cancellation" \notin X => (s.cancelled => m.cancelled),
         "delivery" \notin X => s.delivery \in {None, m.delivery},
         "delivery_resume" \notin X => s.resume \in {None, m.resume},
         "founder_review" \notin X => s.founder \in {None, m.founder},
         "recovery" \notin X => s.recovery \in {None, m.recovery},
         "drain_confirmation" \notin X
           => (s.confirmed => m.confirmed /\ Queue(s) = Queue(m))
  PROVE  SameBut(m, s, X)
<1>1. PICK a : a = CurrentAuthority(m)
  OBVIOUS
<1>2. PICK b : b = CurrentAuthority(s)
  OBVIOUS
<1>3. {m.destination, s.destination, m.cancelled, s.cancelled, m.processed, s.processed,
       m.confirmed, s.confirmed} \subseteq BOOLEAN
  BY DEF States
<1>4. s.plan = None => Queue(s) = None
  BY DEF Queue
<1>5. ASSUME NEW x \in Domains \ X PROVE b[x] \in {None, a[x]}
  <2>1. CASE x = "inventory"
    BY <1>1, <1>2, <2>1, AuthorityOfState
  <2>2. CASE x = "strategy"
    BY <1>1, <1>2, <2>2, AuthorityOfState
  <2>3. CASE x = "destination"
    BY <1>1, <1>2, <2>3, AuthorityOfState
  <2>4. CASE x = "queue"
    BY <1>1, <1>2, <1>4, <1>5, <2>4, AuthorityOfState
  <2>5. CASE x = "processing"
    BY <1>1, <1>2, <1>3, <1>5, <2>5, AuthorityOfState
  <2>6. CASE x = "review"
    BY <1>1, <1>2, <1>5, <2>6, AuthorityOfState
  <2>7. CASE x = "outbox"
    BY <1>1, <1>2, <1>5, <2>7, AuthorityOfState
  <2>8. CASE x = "approval"
    BY <1>1, <1>2, <1>5, <2>8, AuthorityOfState
  <2>9. CASE x = "cancellation"
    BY <1>1, <1>2, <1>3, <1>5, <2>9, AuthorityOfState
  <2>10. CASE x = "delivery"
    BY <1>1, <1>2, <1>5, <2>10, AuthorityOfState
  <2>11. CASE x = "delivery_resume"
    BY <1>1, <1>2, <1>5, <2>11, AuthorityOfState
  <2>12. CASE x = "founder_review"
    BY <1>1, <1>2, <1>5, <2>12, AuthorityOfState
  <2>13. CASE x = "recovery"
    BY <1>1, <1>2, <1>5, <2>13, AuthorityOfState
  <2>14. CASE x = "drain_confirmation"
    BY <1>1, <1>2, <1>3, <1>5, <2>14, AuthorityOfState
  <2> QED BY <2>1, <2>2, <2>3, <2>4, <2>5, <2>6, <2>7, <2>8, <2>9, <2>10, <2>11, <2>12,
             <2>13, <2>14 DEF Domains
<1> QED BY <1>1, <1>2, <1>5 DEF SameBut

-----------------------------------------------------------------------------
(* What the state and the journal say of each other, step by step.         *)

\* The state agrees with the journal but for the domains still to be committed.
Partly(d, s, X) ==
  \A x \in Domains \ X :
    CurrentAuthority(s)[x] # None /\ d.journal.refs[x] # None
      => CurrentAuthority(s)[x] = d.journal.refs[x]

\* A start asks for agreement in every domain.
LEMMA PartlyAgrees ==
  ASSUME NEW d, NEW s
  PROVE  Agrees(s, d.journal) <=> Partly(d, s, {})
  BY DEF Agrees, Partly

\* A state that differs in domains still to be committed agrees in the others.
LEMMA PartlySame ==
  ASSUME NEW d, NEW m, NEW s, NEW X, NEW Y, Partly(d, m, Y), Y \subseteq X,
         SameBut(m, s, X)
  PROVE  Partly(d, s, X)
<1>1. PICK a : a = CurrentAuthority(m)
  OBVIOUS
<1>2. PICK b : b = CurrentAuthority(s)
  OBVIOUS
<1>3. \A x \in Domains \ X : b[x] \in {None, a[x]}
  BY <1>1, <1>2 DEF SameBut
<1>4. \A x \in Domains \ Y :
        a[x] # None /\ d.journal.refs[x] # None => a[x] = d.journal.refs[x]
  BY <1>1 DEF Partly
<1>5. ASSUME NEW x \in Domains \ X, b[x] # None, d.journal.refs[x] # None
      PROVE  b[x] = d.journal.refs[x]
  BY <1>3, <1>4, <1>5
<1> QED BY <1>2, <1>5 DEF Partly

\* A whole commit, a whole reference and a whole transition.
LEMMA CommitDone ==
  ASSUME NEW d, IsDisk(d), NEW s \in States, NEW x, NEW v,
         NEW w, w = Whole(d, Commit(x, v, s))
  PROVE  /\ w.file = s /\ w.journal.latest = s /\ Reach(w.journal) = Reach(d.journal)
         /\ \A y \in Domains : w.journal.refs[y] = IF y = x THEN v ELSE d.journal.refs[y]
<1>1. w = Written(d, Commit(x, v, s), 3)
  BY Orders DEF Whole
<1>2. 3 \in 0..3
  OBVIOUS
<1>3. /\ Written(d, Commit(x, v, s), 3).journal = Referenced(d.journal, x, v, s)
      /\ Written(d, Commit(x, v, s), 3).file = s
  BY <1>2, CommitWrites, Z3
<1>4. w.journal = Referenced(d.journal, x, v, s) /\ w.file = s
  BY <1>1, <1>3
<1> QED BY <1>4, LoggedJournal DEF IsDisk

\* A whole reference without an artifact.
LEMMA ReferenceDone ==
  ASSUME NEW d, IsDisk(d), NEW s \in States, NEW x, NEW v,
         NEW w, w = Whole(d, Refer(x, v, s))
  PROVE  /\ w.file = d.file /\ w.journal.latest = s /\ Reach(w.journal) = Reach(d.journal)
         /\ \A y \in Domains : w.journal.refs[y] = IF y = x THEN v ELSE d.journal.refs[y]
<1>1. PICK step : step = Refer(x, v, s)
  OBVIOUS
<1>2. WriteOrder(step) = <<"journal">> /\ Len(WriteOrder(step)) = 1
  BY <1>1, Orders
<1>3. PICK l : l = Referenced(d.journal, x, v, s)
  OBVIOUS
<1>4. Logged(d.journal, step) = l
  BY <1>1, <1>3 DEF Logged, Refer
<1>5. /\ IsJournal(l) /\ l.latest = s /\ Reach(l) = Reach(d.journal)
      /\ \A y \in Domains : l.refs[y] = IF y = x THEN v ELSE d.journal.refs[y]
  BY <1>3, LoggedJournal DEF IsDisk
<1>6. w = Written(d, step, 1) /\ 1 \in 0..1
  BY <1>1, <1>2 DEF Whole
<1>7. w.file = d.file /\ w.journal = l
  BY <1>2, <1>4, <1>5, <1>6, JournalWrites
<1> QED BY <1>5, <1>7

\* A whole transition.
LEMMA MoveDone ==
  ASSUME NEW d, NEW step, step.do = "move", Good(d, step), Admits(d, step),
         NEW w, w = Whole(d, step)
  PROVE  /\ w.file = d.file /\ w.journal.latest = d.journal.latest
         /\ w.journal.refs = d.journal.refs
         /\ Reach(w.journal) = Reach(d.journal) + 1
         /\ w.journal.stage = step.to
<1>1. Len(WriteOrder(step)) = 1
  BY Orders
<1>2. w = Written(d, step, 1) /\ 1 \in 0..1
  BY <1>1 DEF Whole
<1> QED BY <1>2, MoveKeeps

\* A commit settles its own domain.
LEMMA PartlyCommitted ==
  ASSUME NEW d, NEW w, NEW s, NEW X, NEW x, NEW v, Partly(d, s, X),
         \A y \in Domains : w.journal.refs[y] = IF y = x THEN v ELSE d.journal.refs[y],
         x \in Domains => CurrentAuthority(s)[x] \in {None, v}
  PROVE  Partly(w, s, X \ {x})
<1>1. PICK b : b = CurrentAuthority(s)
  OBVIOUS
<1>2. PICK q : q = w.journal.refs
  OBVIOUS
<1>3. PICK r : r = d.journal.refs
  OBVIOUS
<1>4. ASSUME NEW y \in Domains \ (X \ {x}), b[y] # None, q[y] # None
      PROVE  b[y] = q[y]
  <2>1. CASE y = x
    BY <1>1, <1>2, <1>4, <2>1
  <2>2. CASE y # x
    <3>1. q[y] = r[y] /\ y \in Domains \ X
      BY <1>2, <1>3, <1>4, <2>2
    <3>2. b[y] # None /\ r[y] # None => b[y] = r[y]
      BY <1>1, <1>3, <3>1 DEF Partly
    <3> QED BY <1>4, <3>1, <3>2
  <2> QED BY <2>1, <2>2
<1> QED BY <1>1, <1>2, <1>4 DEF Partly

\* A commit of the last domain leaves none to be committed.
LEMMA PartlySettled ==
  ASSUME NEW d, NEW w, NEW s, NEW x, NEW v, Partly(d, s, {x}),
         \A y \in Domains : w.journal.refs[y] = IF y = x THEN v ELSE d.journal.refs[y],
         x \in Domains => CurrentAuthority(s)[x] \in {None, v}
  PROVE  Partly(w, s, {})
<1>1. PICK X : X = {x}
  OBVIOUS
<1>2. Partly(d, s, X)
  BY <1>1
<1>3. Partly(w, s, X \ {x})
  <2> HIDE <1>1
  <2> QED BY <1>2, PartlyCommitted
<1>4. X \ {x} = {}
  BY <1>1
<1> QED BY <1>3, <1>4

\* A transition leaves the references alone.
LEMMA PartlyMoved ==
  ASSUME NEW d, NEW w, NEW s, NEW X, Partly(d, s, X), w.journal.refs = d.journal.refs
  PROVE  Partly(w, s, X)
  BY DEF Partly

-----------------------------------------------------------------------------
(* What a handler has to do.                                               *)

\* The app has moved on over the same disk, and no further than the plan it had.
LEMMA StaysAhead ==
  ASSUME NEW d, NEW m, Ahead(d, m), NEW s, Coherent(s), s.plan = m.plan,
         Reach(d.journal) >= 7 => /\ s.route = m.route /\ s.reviews = m.reviews
                                  /\ s.inventory = m.inventory
  PROVE  Ahead(d, s)
  BY DEF Ahead, Bound, Reviewed

\* Its steps fit and, done over a run of which nothing was cut short, leave such a run:
\* the state in the file and behind the journal, in agreement with it, and the approval
\* of a delivery under way.
Leads(d, steps, flight) ==
  /\ IsList(steps) /\ Len(steps) # 0 /\ Safe(d, steps)
  /\ ~cut /\ Admitted(d, steps) =>
       LET e == End(d, steps)
           s == steps[Len(steps)].state
       IN /\ e.file = s /\ e.journal.latest = s /\ Faithful(e, s)
          /\ flight # None => Reach(e.journal) >= 7 /\ s.approval = flight.approval

\* What else has its type.
Typed ==
  /\ session \in Sessions /\ store \in Stores
  /\ approvals \in 0..MaxApprovals /\ proofs \in 0..MaxProofs /\ faults \in 0..MaxFaults
  /\ {leftover, up, lost, cut} \subseteq BOOLEAN

\* A session whose delivery, when it is at its run, has the store open.
Flies(s) ==
  /\ s \in Sessions
  /\ s.flight # None /\ s.flight.opened /\ s.flight.receipt = None => store.open

\* A commit that seals the state anew leaves the delivery under way alone.
LEMMA ResealedFlies ==
  ASSUME NEW s, Flies(s), NEW steps, NEW n
  PROVE  Flies(Resealed(s, steps, n)) /\ Resealed(s, steps, n).flight = s.flight
<1>1. PICK t : t = Resealed(s, steps, n)
  OBVIOUS
<1>2. CASE t = s
  BY <1>1, <1>2
<1>3. CASE t # s
  <2>1. s.connecting # None /\ t = [s EXCEPT !.connecting.current = FALSE]
    BY <1>1, <1>3 DEF Resealed
  <2>2. t \in Sessions /\ t.flight = s.flight
    BY <2>1 DEF Flies, Sessions
  <2> QED BY <1>1, <2>2 DEF Flies
<1> QED BY <1>2, <1>3

\* A new session has no delivery under way.
LEMMA NoFlight ==
  NewSession \in Sessions /\ NewSession.flight = None /\ Flies(NewSession)
<1>1. NewSession \in Sessions /\ NewSession.flight = None
  BY DEF NewSession, Sessions
<1> QED BY <1>1 DEF Flies

\* How a handler ends keeps the invariant.
LEMMA FinishKeeps ==
  ASSUME NEW d, Sound(d), NEW m, Ahead(d, m), NEW steps, NEW after, Flies(after),
         Leads(d, steps, after.flight), Finishes(d, steps, after), cut \in BOOLEAN,
         store'.open = store.open, store'.runs = store.runs,
         store.open => store.runs < MaxRuns
  PROVE  RunInv' /\ session' \in Sessions
<1>1. /\ Admitted(d, steps) /\ disk' = End(d, steps) /\ up' = TRUE /\ cut' = cut
      /\ session' = Resealed(after, steps, Len(steps))
  BY DEF Finishes, Admitted, End
<1>2. Len(steps) # 0 /\ IsList(steps) /\ Safe(d, steps)
  BY DEF Leads
<1>3. app' = steps[Len(steps)].state
  <2>1. steps # << >>
    BY <1>2, NoSteps
  <2> QED BY <2>1 DEF Finishes, Last
<1>4. PICK s : s = steps[Len(steps)].state
  OBVIOUS
<1>5. PICK e : e = End(d, steps)
  OBVIOUS
<1>6. Sound(e) /\ Ahead(e, s)
  BY <1>1, <1>2, <1>4, <1>5, EndsSound DEF Admitted, End
<1>7. ~cut => /\ e.file = s /\ e.journal.latest = s /\ Faithful(e, s)
              /\ after.flight # None => /\ Reach(e.journal) >= 7
                                        /\ s.approval = after.flight.approval
  BY <1>1, <1>4, <1>5 DEF Leads
<1>8. disk' = e /\ app' = s
  BY <1>1, <1>3, <1>4, <1>5
<1>9. PICK t : t = Resealed(after, steps, Len(steps))
  OBVIOUS
<1>10. session' = t /\ Flies(t) /\ t.flight = after.flight
  BY <1>1, <1>9, ResealedFlies
<1>11. Sound(disk') /\ Ahead(disk', app') /\ up' = TRUE
  BY <1>1, <1>6, <1>8
<1>12. ~cut' => /\ app' = disk'.file /\ app' = disk'.journal.latest
                /\ Faithful(disk', app') /\ Faithful(disk', disk'.journal.latest)
                /\ session'.flight # None =>
                     /\ Reach(disk'.journal) >= 7
                     /\ app'.approval = session'.flight.approval
  BY <1>1, <1>7, <1>8, <1>10
<1>13. session'.flight # None /\ session'.flight.opened /\ session'.flight.receipt = None
         => store'.open
  BY <1>10 DEF Flies
<1>14. session' \in Sessions
  BY <1>10 DEF Flies
<1>15. store'.open => store'.runs < MaxRuns
  OBVIOUS
<1> QED BY <1>11, <1>12, <1>13, <1>14, <1>15 DEF RunInv, journal

\* A handler that was refused or cut short, with the process still there.
LEMMA FailureKeeps ==
  ASSUME NEW d, Sound(d), NEW m, Ahead(d, m), NEW steps, IsList(steps), Safe(d, steps),
         NEW begun, Flies(begun), NEW i, NEW n \in DOMAIN steps, Fails(n, steps), up = TRUE,
         session' = Resealed(begun, steps, i),
         \/ IsRefused(d, steps, n)
         \/ \E k \in 0..Len(WriteOrder(steps[n])) : IsCut(d, steps, n, k, FALSE),
         store'.open = store.open, store'.runs = store.runs,
         store.open => store.runs < MaxRuns
  PROVE  RunInv' /\ session' \in Sessions
<1>1. cut' = TRUE /\ up' = TRUE /\ app' = steps[n].state
  BY DEF Fails, IsRefused, IsCut
<1>2. Sound(disk') /\ Ahead(disk', app')
  <2>1. CASE IsRefused(d, steps, n)
    <3>1. n \in Reached(d, steps) /\ disk' = Done(d, steps)[n - 1]
      BY <2>1 DEF IsRefused
    <3>2. Good(Done(d, steps)[n - 1], steps[n])
      BY <3>1, EndsSound
    <3> QED BY <1>1, <3>1, <3>2 DEF Good
  <2>2. CASE \E k \in 0..Len(WriteOrder(steps[n])) : IsCut(d, steps, n, k, FALSE)
    <3>1. PICK k \in 0..Len(WriteOrder(steps[n])) : IsCut(d, steps, n, k, FALSE)
      BY <2>2
    <3>2. /\ n \in Reached(d, steps) /\ Admits(Done(d, steps)[n - 1], steps[n])
          /\ disk' = Written(Done(d, steps)[n - 1], steps[n], k)
      BY <3>1 DEF IsCut
    <3>3. /\ Sound(Written(Done(d, steps)[n - 1], steps[n], k))
          /\ Ahead(Written(Done(d, steps)[n - 1], steps[n], k), steps[n].state)
      BY <3>2, EndsSound
    <3> QED BY <1>1, <3>2, <3>3
  <2> QED BY <2>1, <2>2
<1>3. Flies(session')
  BY ResealedFlies
<1>4. /\ session' \in Sessions
      /\ session'.flight # None /\ session'.flight.opened /\ session'.flight.receipt = None
           => store'.open
  BY <1>3 DEF Flies
<1> QED BY <1>1, <1>2, <1>4 DEF RunInv, journal

\* A process that ended, in a handler or at its start.
LEMMA CrashKeeps ==
  ASSUME Sound(disk'), cut' = TRUE, ProcessEnds,
         store'.open = store.open, store'.runs = store.runs,
         store.open => store.runs < MaxRuns
  PROVE  RunInv' /\ session' \in Sessions
<1>1. up' = FALSE /\ app' = EmptyState /\ session' = NewSession
  BY DEF ProcessEnds
<1>2. session' \in Sessions /\ session'.flight = None
  BY <1>1, NoFlight
<1> QED BY <1>1, <1>2 DEF RunInv, journal

\* A crash leaves a disk from which the run can be started again.
LEMMA CrashesSound ==
  ASSUME NEW d, Sound(d), NEW m, Ahead(d, m), NEW steps, IsList(steps), Safe(d, steps),
         Crashes(d, steps)
  PROVE  Sound(disk') /\ cut' = TRUE /\ ProcessEnds
<1>1. PICK n \in DOMAIN steps : \E k \in 0..Len(WriteOrder(steps[n])) : \E leaves \in BOOLEAN :
        IsCut(d, steps, n, k, leaves) /\ ProcessEnds
  BY DEF Crashes
<1>2. PICK k \in 0..Len(WriteOrder(steps[n])) : \E leaves \in BOOLEAN :
        IsCut(d, steps, n, k, leaves) /\ ProcessEnds
  BY <1>1
<1>3. /\ n \in Reached(d, steps) /\ Admits(Done(d, steps)[n - 1], steps[n])
      /\ disk' = Written(Done(d, steps)[n - 1], steps[n], k) /\ cut' = TRUE
      /\ ProcessEnds
  BY <1>2 DEF IsCut
<1>4. Sound(Written(Done(d, steps)[n - 1], steps[n], k))
  BY <1>3, EndsSound
<1> QED BY <1>3, <1>4

\* So does whatever a handler of the running app comes to.
LEMMA HandleKeeps ==
  ASSUME RunInv, Typed, NEW steps, NEW begun, Flies(begun), NEW after, Flies(after),
         Leads(disk, steps, after.flight), Handle(steps, begun, after),
         store'.open = store.open, store'.runs = store.runs
  PROVE  RunInv' /\ session' \in Sessions
<1>1. /\ up = TRUE /\ Sound(disk) /\ Ahead(disk, app) /\ cut \in BOOLEAN
      /\ store.open => store.runs < MaxRuns
  BY DEF Handle, RunInv, Typed
<1>2. IsList(steps) /\ Safe(disk, steps)
  BY DEF Leads
<1>3. CASE Finishes(disk, steps, after)
  BY <1>1, <1>3, FinishKeeps
<1>4. CASE Crashes(disk, steps)
  <2>1. Sound(disk') /\ cut' = TRUE /\ ProcessEnds
    BY <1>1, <1>2, <1>4, CrashesSound
  <2> QED BY <1>1, <2>1, CrashKeeps
<1>5. CASE \E n \in DOMAIN steps :
             /\ Fails(n, steps)
             /\ \/ /\ IsRefused(disk, steps, n)
                   /\ session' = Resealed(begun, steps, n - 1)
                \/ /\ \E k \in 0..Len(WriteOrder(steps[n])) :
                        IsCut(disk, steps, n, k, FALSE)
                   /\ session' = Resealed(begun, steps, n)
  <2>1. PICK n \in DOMAIN steps :
             /\ Fails(n, steps)
             /\ \/ /\ IsRefused(disk, steps, n)
                   /\ session' = Resealed(begun, steps, n - 1)
                \/ /\ \E k \in 0..Len(WriteOrder(steps[n])) :
                        IsCut(disk, steps, n, k, FALSE)
                   /\ session' = Resealed(begun, steps, n)
    BY <1>5
  <2>2. PICK i : session' = Resealed(begun, steps, i)
    BY <2>1
  <2> QED BY <1>1, <1>2, <2>1, <2>2, FailureKeeps
<1> QED BY <1>3, <1>4, <1>5 DEF Handle

-----------------------------------------------------------------------------
(* Lists of several steps.                                                 *)

\* A whole step that fits and is admitted.
LEMMA WholeKeeps ==
  ASSUME NEW d, NEW c, Good(d, c), Admits(d, c), NEW w, w = Whole(d, c)
  PROVE  Sound(w) /\ Ahead(w, c.state)
<1>1. Len(WriteOrder(c)) \in 0..Len(WriteOrder(c))
  BY DEF WriteOrder
<1> QED BY <1>1, StepKeeps DEF Whole

\* The last step of a list.
LEMMA OneStep ==
  ASSUME NEW d, NEW c, Good(d, c), NEW flight, NEW e, e = Whole(d, c),
         ~cut /\ Admits(d, c) =>
           /\ e.file = c.state /\ e.journal.latest = c.state /\ Faithful(e, c.state)
           /\ flight # None => /\ Reach(e.journal) >= 7
                               /\ c.state.approval = flight.approval
  PROVE  Leads(d, <<c>>, flight)
<1>1. PICK steps : steps = <<c>>
  OBVIOUS
<1>2. IsFirst(c, << >>, steps)
  <2>1. <<c>> = <<c>> \o << >>
    OBVIOUS
  <2> QED BY <1>1, <2>1 DEF IsFirst
<1>3. IsList(<< >>) /\ Safe(Whole(d, c), << >>) /\ End(Whole(d, c), << >>) = Whole(d, c)
      /\ Len(<< >>) = 0
  BY NoSteps
<1>4. Safe(d, steps)
  BY <1>2, <1>3, FirstSafe
<1>5. /\ IsList(steps) /\ Len(steps) # 0 /\ (Admitted(d, steps) => Admits(d, c))
      /\ End(d, steps) = Whole(d, c) /\ steps[Len(steps)] = c
  BY <1>2, <1>3, FirstEnds
<1> QED BY <1>1, <1>4, <1>5 DEF Leads

\* A step before the last.
LEMMA NextStep ==
  ASSUME NEW d, NEW c, Good(d, c), NEW flight, NEW rest, IsList(rest), Len(rest) # 0,
         Admits(d, c) => Leads(Whole(d, c), rest, flight),
         NEW steps, IsFirst(c, rest, steps)
  PROVE  Leads(d, steps, flight)
<1>1. Admits(d, c) => Safe(Whole(d, c), rest)
  BY DEF Leads
<1>2. Safe(d, steps)
  BY <1>1, FirstSafe
<1>3. /\ IsList(steps) /\ Len(steps) # 0
      /\ Admitted(d, steps) => Admits(d, c) /\ Admitted(Whole(d, c), rest)
      /\ End(d, steps) = End(Whole(d, c), rest)
  BY FirstEnds
<1>4. steps[Len(steps)] = IF Len(rest) = 0 THEN c ELSE rest[Len(rest)]
  BY FirstEnds
<1>5. steps[Len(steps)] = rest[Len(rest)]
  BY <1>4
<1> QED BY <1>2, <1>3, <1>5 DEF Leads

\* A commit before the last step, of a state that the run may have.
LEMMA Committed ==
  ASSUME NEW d, Sound(d), NEW s, Ahead(d, s), NEW x, NEW v,
         NEW w, w = Whole(d, Commit(x, v, s))
  PROVE  /\ Good(d, Commit(x, v, s)) /\ Sound(w) /\ Ahead(w, s)
         /\ w.file = s /\ w.journal.latest = s /\ Reach(w.journal) = Reach(d.journal)
         /\ \A y \in Domains : w.journal.refs[y] = IF y = x THEN v ELSE d.journal.refs[y]
<1>1. PICK c : c = Commit(x, v, s)
  OBVIOUS
<1>2. c.state = s /\ Good(d, c)
  BY <1>1 DEF Good, Fits, Commit
<1>3. IsDisk(d) /\ s \in States
  BY DEF Sound, Ahead, Coherent
<1>4. /\ w.file = s /\ w.journal.latest = s /\ Reach(w.journal) = Reach(d.journal)
      /\ \A y \in Domains : w.journal.refs[y] = IF y = x THEN v ELSE d.journal.refs[y]
  BY <1>3, CommitDone
<1>5. Sound(w) /\ Ahead(w, s)
  <2>1. w = Written(d, Commit(x, v, s), 3)
    BY Orders DEF Whole
  <2>2. 3 \in 0..3
    OBVIOUS
  <2> QED BY <2>1, <2>2, CommitKeeps
<1> QED BY <1>1, <1>2, <1>4, <1>5

\* A commit that may be the last step: it commits what was still to be committed.
Closing(d, s, x, v, flight) ==
  /\ Partly(d, s, {x})
  /\ x \in Domains => CurrentAuthority(s)[x] \in {None, v}
  /\ s.route # None => Reach(d.journal) >= 7
  /\ s.founder # None => \/ x = "founder_review" /\ v = s.founder
                         \/ /\ x # "founder_review"
                            /\ d.journal.refs["founder_review"] = s.founder
  /\ flight # None => Reach(d.journal) >= 7 /\ s.approval = flight.approval

\* With the last domain committed, nothing is left to be.
LEMMA ClosingSettles ==
  ASSUME NEW d, NEW s, NEW x, NEW v, NEW flight, Closing(d, s, x, v, flight),
         NEW e, Reach(e.journal) = Reach(d.journal),
         \A y \in Domains : e.journal.refs[y] = IF y = x THEN v ELSE d.journal.refs[y]
  PROVE  /\ Faithful(e, s)
         /\ flight # None => Reach(e.journal) >= 7 /\ s.approval = flight.approval
<1>1. Partly(e, s, {})
  <2>1. Partly(d, s, {x}) /\ (x \in Domains => CurrentAuthority(s)[x] \in {None, v})
    BY DEF Closing
  <2> QED BY <2>1, PartlySettled
<1>2. Agrees(s, e.journal)
  BY <1>1, PartlyAgrees
<1>3. "founder_review" \in Domains
  BY DEF Domains
<1> QED BY <1>2, <1>3 DEF Faithful, Closing

\* What such a commit leaves behind is durable.
LEMMA CommitEnds ==
  ASSUME NEW d, Sound(d), NEW s, Ahead(d, s), NEW x, NEW v, NEW flight,
         ~cut => Closing(d, s, x, v, flight),
         NEW e, e = Whole(d, Commit(x, v, s))
  PROVE  /\ Good(d, Commit(x, v, s))
         /\ ~cut => /\ e.file = s /\ e.journal.latest = s /\ Faithful(e, s)
                    /\ flight # None => /\ Reach(e.journal) >= 7
                                        /\ s.approval = flight.approval
<1>1. /\ Good(d, Commit(x, v, s)) /\ e.file = s /\ e.journal.latest = s
      /\ Reach(e.journal) = Reach(d.journal)
      /\ \A y \in Domains : e.journal.refs[y] = IF y = x THEN v ELSE d.journal.refs[y]
  BY Committed
<1>2. ~cut => /\ Faithful(e, s)
              /\ flight # None => Reach(e.journal) >= 7 /\ s.approval = flight.approval
  BY <1>1, ClosingSettles
<1> QED BY <1>1, <1>2

\* So it may end a list.
LEMMA LastCommit ==
  ASSUME NEW d, Sound(d), NEW s, Ahead(d, s), NEW x, NEW v, NEW flight,
         ~cut => Closing(d, s, x, v, flight)
  PROVE  Leads(d, <<Commit(x, v, s)>>, flight)
<1>1. PICK e : e = Whole(d, Commit(x, v, s))
  OBVIOUS
<1>2. /\ Good(d, Commit(x, v, s))
      /\ ~cut => /\ e.file = s /\ e.journal.latest = s /\ Faithful(e, s)
                 /\ flight # None => /\ Reach(e.journal) >= 7
                                     /\ s.approval = flight.approval
  BY <1>1, CommitEnds
<1>3. PICK c : c = Commit(x, v, s)
  OBVIOUS
<1>4. c.state = s /\ e = Whole(d, c) /\ Good(d, c)
  BY <1>1, <1>2, <1>3 DEF Commit
<1>5. Leads(d, <<c>>, flight)
  BY <1>2, <1>4, OneStep
<1> QED BY <1>3, <1>5

\* A transition to a completed stage as the last step.
LEMMA LastMove ==
  ASSUME NEW d, NEW step, step.do = "move", Good(d, step), NEW s, step.state = s,
         StageNumber(step.to) >= 7, NEW flight,
         ~cut /\ Admits(d, step) =>
           /\ d.file = s /\ d.journal.latest = s /\ Agrees(s, d.journal)
           /\ s.founder # None => d.journal.refs["founder_review"] = s.founder
           /\ flight # None => s.approval = flight.approval
  PROVE  Leads(d, <<step>>, flight)
<1>1. PICK e : e = Whole(d, step)
  OBVIOUS
<1>2. Admits(d, step) =>
        /\ e.file = d.file /\ e.journal.latest = d.journal.latest
        /\ e.journal.refs = d.journal.refs /\ e.journal.stage = step.to
  BY <1>1, MoveDone
<1>3. Admits(d, step) => Reach(e.journal) >= 7
  BY <1>2 DEF Reach
<1>4. ~cut /\ Admits(d, step) => Faithful(e, s)
  BY <1>2, <1>3 DEF Faithful, Agrees
<1> QED BY <1>1, <1>2, <1>3, <1>4, OneStep

\* A reference to the state that is already the latest may end a list as well.
LEMMA LastReference ==
  ASSUME NEW d, Sound(d), NEW s, Ahead(d, s), d.journal.latest = s, NEW x, NEW v,
         NEW flight,
         ~cut => d.file = s /\ Closing(d, s, x, v, flight)
  PROVE  Leads(d, <<Refer(x, v, s)>>, flight)
<1>1. PICK c : c = Refer(x, v, s)
  OBVIOUS
<1>2. PICK e : e = Whole(d, c)
  OBVIOUS
<1>3. c.state = s /\ Good(d, c)
  BY <1>1 DEF Refer, Good, Fits
<1>4. IsDisk(d) /\ s \in States
  BY DEF Sound, Ahead, Coherent
<1>5. /\ e.file = d.file /\ e.journal.latest = s /\ Reach(e.journal) = Reach(d.journal)
      /\ \A y \in Domains : e.journal.refs[y] = IF y = x THEN v ELSE d.journal.refs[y]
  BY <1>1, <1>2, <1>4, ReferenceDone
<1>6. ~cut => /\ Faithful(e, s)
              /\ flight # None => Reach(e.journal) >= 7 /\ s.approval = flight.approval
  BY <1>5, ClosingSettles
<1>7. Leads(d, <<c>>, flight)
  BY <1>2, <1>3, <1>5, <1>6, OneStep
<1> QED BY <1>1, <1>7

\* A list that is one commit, from a run of which nothing was cut short.
LEMMA OneCommit ==
  ASSUME NEW d, Sound(d), NEW m, NEW s, Ahead(d, s), NEW x, NEW v, NEW flight,
         ~cut => /\ Faithful(d, m) /\ SameBut(m, s, {x})
                 /\ x \in Domains => CurrentAuthority(s)[x] \in {None, v}
                 /\ s.route # None => m.route # None
                 /\ s.founder # None => \/ x = "founder_review" /\ v = s.founder
                                        \/ x # "founder_review" /\ s.founder = m.founder
                 /\ flight # None => /\ Reach(d.journal) >= 7
                                     /\ s.approval = flight.approval
  PROVE  Leads(d, <<Commit(x, v, s)>>, flight)
<1>1. ~cut => Closing(d, s, x, v, flight)
  <2>1. SUFFICES ASSUME ~cut PROVE Closing(d, s, x, v, flight)
    OBVIOUS
  <2>2. Partly(d, m, {}) /\ {} \subseteq {x}
    BY <2>1, PartlyAgrees DEF Faithful
  <2>3. Partly(d, s, {x})
    BY <2>1, <2>2, PartlySame
  <2> QED BY <2>1, <2>3 DEF Closing, Faithful
<1> QED BY <1>1, LastCommit

-----------------------------------------------------------------------------
(* The handlers of one commit.                                             *)

\* What the invariant says while the process runs.
LEMMA AtWork ==
  ASSUME RunInv, Typed, up
  PROVE  /\ Sound(disk) /\ Ahead(disk, app) /\ Coherent(app) /\ app \in States
         /\ journal = disk.journal /\ IsJournal(journal) /\ Reach(journal) \in 1..8
         /\ ~cut => Faithful(disk, app)
         /\ ~cut /\ session.flight # None =>
              /\ Reach(journal) >= 7 /\ app.approval = session.flight.approval
         /\ Flies(session)
         /\ Reach(journal) >= 7 => app.plan # None /\ Reviewed(app)
         /\ app.plan # None => Reach(journal) >= 5
         /\ session \in Sessions /\ store \in Stores
<1>1. Sound(disk) /\ Ahead(disk, app) /\ Coherent(app) /\ app \in States
  BY DEF RunInv, Ahead, Coherent
<1>2. journal = disk.journal /\ IsJournal(journal)
  BY <1>1 DEF journal, Sound, IsDisk
<1>3. Flies(session)
  BY DEF RunInv, Flies, Typed
<1>4. /\ ~cut => Faithful(disk, app)
      /\ ~cut /\ session.flight # None =>
           /\ Reach(journal) >= 7 /\ app.approval = session.flight.approval
  BY DEF RunInv
<1>5. /\ Reach(journal) >= 7 => app.plan # None /\ Reviewed(app)
      /\ app.plan # None => Reach(journal) >= 5
  BY <1>1, <1>2 DEF Ahead, Bound
<1> QED BY <1>1, <1>2, <1>3, <1>4, <1>5, StageNames DEF Typed

\* importInventory: one commit of a state without a plan.
LEMMA ImportKeeps ==
  ASSUME RunInv, Typed, NEW i \in Inventories, Import(i)
  PROVE  RunInv' /\ session' \in Sessions
<1>1. up
  BY DEF Import, Perform, Handle
<1>2. PICK s0 : s0 = [app EXCEPT !.inventory = i]
  OBVIOUS
<1>3. PICK s : s = ResetProof(s0)
  OBVIOUS
<1>4. app \in States /\ Reach(journal) <= 3 /\ app.plan = None /\ journal = disk.journal
  BY <1>1, AtWork, StageNames DEF Import
<1>5. s0 \in States /\ s0.inventory = i /\ s0.strategy = app.strategy
      /\ s0.destination = app.destination
  BY <1>2, <1>4 DEF States
<1>6. /\ s \in States /\ s.inventory = i /\ s.strategy = app.strategy /\ s.plan = None
      /\ ~s.processed /\ s.reviews = {} /\ s.route = None /\ s.destination = app.destination
      /\ s.outbox = None /\ s.approval = None /\ s.resume = None /\ s.delivery = None
      /\ ~s.cancelled /\ s.founder = None /\ s.recovery = None /\ ~s.confirmed
  BY <1>3, <1>5, ProofReset
<1>7. Coherent(s)
  BY <1>6 DEF Coherent
<1>8. Ahead(disk, s)
  BY <1>1, <1>4, <1>6, <1>7, AtWork, StaysAhead
<1>9. SameBut(app, s, {"inventory"})
  BY <1>4, <1>6, SameWhen
<1>10. CurrentAuthority(s)["inventory"] = i
  BY <1>6, AuthorityOfState
<1>11. Leads(disk, <<Commit("inventory", i, s)>>, session.flight)
  BY <1>1, <1>4, <1>6, <1>8, <1>9, <1>10, AtWork, OneCommit
<1>12. Handle(<<Commit("inventory", i, s)>>, session, session)
  BY <1>2, <1>3 DEF Import, Perform
<1> QED BY <1>1, <1>11, <1>12, AtWork, HandleKeeps DEF Import

\* saveStrategy: the same for the strategy.
LEMMA SaveStrategyKeeps ==
  ASSUME RunInv, Typed, NEW t \in Strategies, SaveStrategy(t)
  PROVE  RunInv' /\ session' \in Sessions
<1>1. up
  BY DEF SaveStrategy, Perform, Handle
<1>2. PICK s0 : s0 = [app EXCEPT !.strategy = t]
  OBVIOUS
<1>3. PICK s : s = ResetProof(s0)
  OBVIOUS
<1>4. app \in States /\ app.plan = None /\ journal = disk.journal
  BY <1>1, AtWork DEF SaveStrategy
<1>5. s0 \in States /\ s0.inventory = app.inventory /\ s0.strategy = t
      /\ s0.destination = app.destination
  BY <1>2, <1>4 DEF States
<1>6. /\ s \in States /\ s.inventory = app.inventory /\ s.strategy = t /\ s.plan = None
      /\ ~s.processed /\ s.reviews = {} /\ s.route = None /\ s.destination = app.destination
      /\ s.outbox = None /\ s.approval = None /\ s.resume = None /\ s.delivery = None
      /\ ~s.cancelled /\ s.founder = None /\ s.recovery = None /\ ~s.confirmed
  BY <1>3, <1>5, ProofReset
<1>7. Coherent(s)
  BY <1>6 DEF Coherent
<1>8. ~(Reach(journal) >= 7)
  BY <1>1, <1>4, AtWork
<1>9. Ahead(disk, s)
  BY <1>1, <1>4, <1>6, <1>7, <1>8, AtWork, StaysAhead
<1>10. SameBut(app, s, {"strategy"})
  BY <1>4, <1>6, SameWhen
<1>11. CurrentAuthority(s)["strategy"] = t
  BY <1>6, AuthorityOfState
<1>12. Leads(disk, <<Commit("strategy", t, s)>>, session.flight)
  BY <1>1, <1>4, <1>6, <1>8, <1>9, <1>10, <1>11, AtWork, OneCommit
<1>13. Handle(<<Commit("strategy", t, s)>>, session, session)
  BY <1>2, <1>3 DEF SaveStrategy, Perform
<1> QED BY <1>1, <1>12, <1>13, AtWork, HandleKeeps DEF SaveStrategy

\* PreviewBatch: the outbox committed is that of the route it was compiled from.
LEMMA FinishPreviewKeeps ==
  ASSUME RunInv, Typed, FinishPreview
  PROVE  RunInv' /\ session' \in Sessions
<1>1. up /\ session.flight = None /\ session.previewing.route = app.route
      /\ session.previewing # None
  BY DEF FinishPreview, Handle, PreviewStands
<1>2. PICK s : s = [app EXCEPT !.outbox = session.previewing.route,
                               !.preview = TRUE, !.approval = None,
                               !.delivery = None, !.founder = None]
  OBVIOUS
<1>3. app \in States /\ journal = disk.journal
  BY <1>1, AtWork
<1>4. /\ s \in States /\ s.inventory = app.inventory /\ s.strategy = app.strategy
      /\ s.plan = app.plan /\ s.reviewed = app.reviewed
      /\ s.processed = app.processed /\ s.reviews = app.reviews /\ s.route = app.route
      /\ s.destination = app.destination /\ s.outbox = app.route
      /\ s.approval = None /\ s.resume = app.resume /\ s.delivery = None
      /\ s.cancelled = app.cancelled /\ s.founder = None /\ s.recovery = app.recovery
      /\ s.confirmed = app.confirmed
  <2>1. s = [app EXCEPT !.outbox = app.route, !.preview = TRUE, !.approval = None,
                        !.delivery = None, !.founder = None]
    BY <1>1, <1>2
  <2>2. app.route \in {None} \cup Routes
    BY <1>3 DEF States
  <2>3. s \in States
    BY <1>3, <2>1, <2>2 DEF States
  <2> QED BY <1>3, <2>1, <2>3 DEF States
<1>5. Coherent(s)
  BY <1>1, <1>4, AtWork DEF Coherent
<1>6. Ahead(disk, s)
  BY <1>1, <1>4, <1>5, AtWork, StaysAhead
<1>7. SameBut(app, s, {"outbox"})
  <2>1. Queue(s) = Queue(app)
    BY <1>4 DEF Queue
  <2> QED BY <1>3, <1>4, <2>1, SameWhen
<1>8. CurrentAuthority(s)["outbox"] = s.outbox
  BY AuthorityOfState
<1>9. PICK begun : begun = [session EXCEPT !.previewing = None, !.offered = FALSE]
  OBVIOUS
<1>10. PICK after : after = [begun EXCEPT !.offered = TRUE]
  OBVIOUS
<1>11. /\ begun \in Sessions /\ begun.flight = None
       /\ after \in Sessions /\ after.flight = None
  BY <1>1, <1>9, <1>10 DEF Typed, Sessions
<1>12. Flies(begun) /\ Flies(after)
  BY <1>11 DEF Flies
<1>13. Leads(disk, <<Commit("outbox", s.outbox, s)>>, after.flight)
  BY <1>1, <1>4, <1>6, <1>7, <1>8, <1>11, AtWork, OneCommit
<1>14. Handle(<<Commit("outbox", s.outbox, s)>>, begun, after)
  BY <1>2, <1>9, <1>10 DEF FinishPreview
<1> QED BY <1>12, <1>13, <1>14, HandleKeeps DEF FinishPreview

\* ApproveAndDeliver: the zero receipt, or the approval and a delivery that names it.
LEMMA ApproveKeeps ==
  ASSUME RunInv, Typed, Approve
  PROVE  RunInv' /\ session' \in Sessions
<1>1. up /\ app.outbox # None /\ approvals < MaxApprovals /\ approvals' = approvals + 1
      /\ store' = store
  BY DEF Approve, Approvable, Handle
<1>2. app \in States /\ journal = disk.journal /\ session \in Sessions
  BY <1>1, AtWork
<1>3. approvals' \in 1..MaxApprovals
  BY <1>1, BoundsAssumption DEF Typed
<1>4. PICK after : after = Approved
  OBVIOUS
<1>5. after \in Sessions /\ after.flight = session.flight
  BY <1>2, <1>4 DEF Approved, Sessions
<1>6. Flies(after)
  BY <1>1, <1>5, AtWork DEF Flies
<1>7. CASE app.outbox = "empty" /\
           Handle(<<Commit("delivery", ZeroReceipt(approvals'),
                           [app EXCEPT !.delivery = ZeroReceipt(approvals')])>>,
                  Approved, Approved)
  <2>1. PICK r : r = ZeroReceipt(approvals')
    OBVIOUS
  <2>2. r \in Receipts
    BY <1>3, <2>1, BoundsAssumption DEF ZeroReceipt, Receipts
  <2>3. PICK s : s = [app EXCEPT !.delivery = r]
    OBVIOUS
  <2>4. /\ s \in States /\ s.inventory = app.inventory /\ s.strategy = app.strategy
        /\ s.plan = app.plan /\ s.reviewed = app.reviewed
        /\ s.processed = app.processed /\ s.reviews = app.reviews /\ s.route = app.route
        /\ s.destination = app.destination /\ s.outbox = app.outbox
        /\ s.approval = app.approval /\ s.resume = app.resume /\ s.delivery = r
        /\ s.cancelled = app.cancelled /\ s.founder = app.founder
        /\ s.recovery = app.recovery /\ s.confirmed = app.confirmed
    BY <1>2, <2>2, <2>3 DEF States
  <2>5. Coherent(s)
    BY <1>1, <2>4, AtWork DEF Coherent
  <2>6. Ahead(disk, s)
    BY <1>1, <2>4, <2>5, AtWork, StaysAhead
  <2>7. SameBut(app, s, {"delivery"})
    <3>1. Queue(s) = Queue(app)
      BY <2>4 DEF Queue
    <3> QED BY <1>2, <2>4, <3>1, SameWhen
  <2>8. CurrentAuthority(s)["delivery"] = r
    BY <2>4, AuthorityOfState
  <2>9. Leads(disk, <<Commit("delivery", r, s)>>, after.flight)
    BY <1>1, <1>2, <1>5, <2>4, <2>6, <2>7, <2>8, AtWork, OneCommit
  <2>10. Handle(<<Commit("delivery", r, s)>>, after, after)
    BY <1>4, <1>7, <2>1, <2>3
  <2> QED BY <1>1, <1>6, <2>9, <2>10, HandleKeeps
<1>8. CASE /\ app.outbox = "drafts" /\ session.flight = None
           /\ Handle(<<Commit("approval", approvals',
                              [app EXCEPT !.approval = approvals'])>>,
                     Approved, Launched(Approved, approvals'))
  <2>1. PICK a : a = approvals'
    OBVIOUS
  <2>2. PICK s : s = [app EXCEPT !.approval = a]
    OBVIOUS
  <2>3. /\ s \in States /\ s.inventory = app.inventory /\ s.strategy = app.strategy
        /\ s.plan = app.plan /\ s.reviewed = app.reviewed
        /\ s.processed = app.processed /\ s.reviews = app.reviews /\ s.route = app.route
        /\ s.destination = app.destination /\ s.outbox = app.outbox
        /\ s.approval = a /\ s.resume = app.resume /\ s.delivery = app.delivery
        /\ s.cancelled = app.cancelled /\ s.founder = app.founder
        /\ s.recovery = app.recovery /\ s.confirmed = app.confirmed
    BY <1>2, <1>3, <2>1, <2>2 DEF States
  <2>4. Coherent(s)
    BY <1>1, <2>3, AtWork DEF Coherent
  <2>5. Ahead(disk, s)
    BY <1>1, <2>3, <2>4, AtWork, StaysAhead
  <2>6. SameBut(app, s, {"approval"})
    <3>1. Queue(s) = Queue(app)
      BY <2>3 DEF Queue
    <3> QED BY <1>2, <2>3, <3>1, SameWhen
  <2>7. CurrentAuthority(s)["approval"] = a
    BY <2>3, AuthorityOfState
  <2>8. ~cut => Reach(disk.journal) >= 7
    BY <1>1, <1>2, AtWork DEF Coherent, Faithful
  <2>9. PICK on : on = Launched(after, a)
    OBVIOUS
  <2>10. on \in Sessions /\ on.flight.opened = FALSE /\ on.flight.approval = a
    BY <1>3, <1>5, <2>1, <2>9 DEF Sessions, Launched
  <2>11. Flies(on)
    BY <2>10 DEF Flies
  <2>12. Leads(disk, <<Commit("approval", a, s)>>, on.flight)
    BY <1>1, <1>2, <2>3, <2>5, <2>6, <2>7, <2>8, <2>10, AtWork, OneCommit
  <2>13. Handle(<<Commit("approval", a, s)>>, after, on)
    BY <1>4, <1>8, <2>1, <2>2, <2>9
  <2> QED BY <1>1, <1>6, <2>11, <2>12, <2>13, HandleKeeps
<1> QED BY <1>7, <1>8 DEF Approve

\* ResumeDelivery: the consent, and a delivery that names the approval the state has.
LEMMA ResumeDeliveryKeeps ==
  ASSUME RunInv, Typed, ResumeDelivery
  PROVE  RunInv' /\ session' \in Sessions
<1>1. /\ up /\ app.approval # None /\ app.outbox = "drafts" /\ session.flight = None
      /\ store' = store
  BY DEF ResumeDelivery, Handle
<1>2. app \in States /\ journal = disk.journal /\ session \in Sessions
  BY <1>1, AtWork
<1>3. PICK a : a = app.approval
  OBVIOUS
<1>4. a \in 1..MaxApprovals
  BY <1>1, <1>2, <1>3 DEF States
<1>5. PICK s : s = [app EXCEPT !.resume = a]
  OBVIOUS
<1>6. /\ s \in States /\ s.inventory = app.inventory /\ s.strategy = app.strategy
      /\ s.plan = app.plan /\ s.reviewed = app.reviewed
      /\ s.processed = app.processed /\ s.reviews = app.reviews /\ s.route = app.route
      /\ s.destination = app.destination /\ s.outbox = app.outbox
      /\ s.approval = app.approval /\ s.resume = a /\ s.delivery = app.delivery
      /\ s.cancelled = app.cancelled /\ s.founder = app.founder
      /\ s.recovery = app.recovery /\ s.confirmed = app.confirmed
  BY <1>2, <1>4, <1>5 DEF States
<1>7. Coherent(s)
  BY <1>1, <1>6, AtWork DEF Coherent
<1>8. Ahead(disk, s)
  BY <1>1, <1>6, <1>7, AtWork, StaysAhead
<1>9. SameBut(app, s, {"delivery_resume"})
  <2>1. Queue(s) = Queue(app)
    BY <1>6 DEF Queue
  <2> QED BY <1>2, <1>6, <2>1, SameWhen
<1>10. CurrentAuthority(s)["delivery_resume"] = a
  BY <1>6, AuthorityOfState
<1>11. ~cut => Reach(disk.journal) >= 7
  <2>1. app.route = "drafts" /\ "drafts" # None
    BY <1>1, AtWork, AbsenceAssumption DEF Coherent, Routes
  <2> QED BY <1>1, <1>2, <2>1, AtWork DEF Faithful
<1>12. PICK on : on = Launched(session, a)
  OBVIOUS
<1>13. /\ on \in Sessions /\ on.flight.opened = FALSE /\ on.flight.approval = a
  BY <1>2, <1>4, <1>12 DEF Sessions, Launched
<1>14. Flies(on) /\ Flies(session)
  BY <1>1, <1>13, AtWork DEF Flies
<1>15. Leads(disk, <<Commit("delivery_resume", a, s)>>, on.flight)
  BY <1>1, <1>2, <1>3, <1>6, <1>8, <1>9, <1>10, <1>11, <1>13, AtWork, OneCommit
<1>16. Handle(<<Commit("delivery_resume", a, s)>>, session, on)
  BY <1>3, <1>5, <1>12 DEF ResumeDelivery
<1> QED BY <1>1, <1>14, <1>15, <1>16, HandleKeeps

\* The end of a delivery: its receipt.
LEMMA LinkReceiptKeeps ==
  ASSUME RunInv, Typed, LinkReceipt
  PROVE  RunInv' /\ session' \in Sessions
<1>1. /\ up /\ session.flight # None /\ session.flight.receipt # None /\ store' = store
  BY DEF LinkReceipt, Handle
<1>2. app \in States /\ journal = disk.journal /\ session \in Sessions
  BY <1>1, AtWork
<1>3. PICK r : r = session.flight.receipt
  OBVIOUS
<1>4. r \in Receipts
  BY <1>1, <1>2, <1>3 DEF Sessions
<1>5. PICK s : s = [app EXCEPT !.delivery = r]
  OBVIOUS
<1>6. /\ s \in States /\ s.inventory = app.inventory /\ s.strategy = app.strategy
      /\ s.plan = app.plan /\ s.reviewed = app.reviewed
      /\ s.processed = app.processed /\ s.reviews = app.reviews /\ s.route = app.route
      /\ s.destination = app.destination /\ s.outbox = app.outbox
      /\ s.approval = app.approval /\ s.resume = app.resume /\ s.delivery = r
      /\ s.cancelled = app.cancelled /\ s.founder = app.founder
      /\ s.recovery = app.recovery /\ s.confirmed = app.confirmed
  BY <1>2, <1>4, <1>5 DEF States
<1>7. Coherent(s)
  BY <1>1, <1>6, AtWork DEF Coherent
<1>8. Ahead(disk, s)
  BY <1>1, <1>6, <1>7, AtWork, StaysAhead
<1>9. SameBut(app, s, {"delivery"})
  <2>1. Queue(s) = Queue(app)
    BY <1>6 DEF Queue
  <2> QED BY <1>2, <1>6, <2>1, SameWhen
<1>10. CurrentAuthority(s)["delivery"] = r
  BY <1>6, AuthorityOfState
<1>11. PICK after : after = [session EXCEPT !.flight = None]
  OBVIOUS
<1>12. after \in Sessions /\ after.flight = None
  BY <1>2, <1>11 DEF Sessions
<1>13. Flies(after)
  BY <1>12 DEF Flies
<1>14. Leads(disk, <<Commit("delivery", r, s)>>, after.flight)
  BY <1>1, <1>2, <1>6, <1>8, <1>9, <1>10, <1>12, AtWork, OneCommit
<1>15. Handle(<<Commit("delivery", r, s)>>, after, after)
  BY <1>3, <1>5, <1>11 DEF LinkReceipt
<1> QED BY <1>1, <1>13, <1>14, <1>15, HandleKeeps

\* CancelApproval: the cancellation.
LEMMA CancelDeliveryKeeps ==
  ASSUME RunInv, Typed, CancelDelivery
  PROVE  RunInv' /\ session' \in Sessions
<1>1. up /\ store' = [store EXCEPT !.cancelled = app.approval]
  BY DEF CancelDelivery
<1>2. app \in States /\ journal = disk.journal /\ session \in Sessions /\ store \in Stores
  BY <1>1, AtWork
<1>3. store'.open = store.open /\ store'.runs = store.runs
  BY <1>1, <1>2 DEF Stores
<1>4. PICK s : s = [app EXCEPT !.cancelled = TRUE]
  OBVIOUS
<1>5. /\ s \in States /\ s.inventory = app.inventory /\ s.strategy = app.strategy
      /\ s.plan = app.plan /\ s.reviewed = app.reviewed
      /\ s.processed = app.processed /\ s.reviews = app.reviews /\ s.route = app.route
      /\ s.destination = app.destination /\ s.outbox = app.outbox
      /\ s.approval = app.approval /\ s.resume = app.resume /\ s.delivery = app.delivery
      /\ s.cancelled = TRUE /\ s.founder = app.founder
      /\ s.recovery = app.recovery /\ s.confirmed = app.confirmed
  BY <1>2, <1>4 DEF States
<1>6. Coherent(s)
  BY <1>1, <1>5, AtWork DEF Coherent
<1>7. Ahead(disk, s)
  BY <1>1, <1>5, <1>6, AtWork, StaysAhead
<1>8. SameBut(app, s, {"cancellation"})
  <2>1. Queue(s) = Queue(app)
    BY <1>5 DEF Queue
  <2> QED BY <1>2, <1>5, <2>1, SameWhen
<1>9. PICK v : v = TRUE
  OBVIOUS
<1>10. CurrentAuthority(s)["cancellation"] = v
  <2>1. CurrentAuthority(s)["cancellation"] = s.cancelled
    BY <1>5, AuthorityOfState
  <2> QED BY <1>5, <1>9, <2>1
<1>11. Leads(disk, <<Commit("cancellation", v, s)>>, session.flight)
  BY <1>1, <1>2, <1>5, <1>7, <1>8, <1>10, AtWork, OneCommit
<1>12. Handle(<<Commit("cancellation", v, s)>>, session, session)
  BY <1>4, <1>9 DEF CancelDelivery, Perform
<1> QED BY <1>1, <1>3, <1>11, <1>12, AtWork, HandleKeeps

-----------------------------------------------------------------------------
(* The handlers of two commits.                                            *)

\* Two states over one that nothing was cut short of, each of which commits one domain.
Settling(d, m, s, x, v, t, y, u, flight) ==
  /\ Faithful(d, m) /\ SameBut(m, s, {x}) /\ SameBut(s, t, {y})
  /\ x \in Domains => CurrentAuthority(s)[x] \in {None, v}
  /\ y \in Domains => CurrentAuthority(t)[y] \in {None, u}
  /\ s.route # None => m.route # None
  /\ t.founder # None => \/ x = "founder_review" /\ v = t.founder
                         \/ x # "founder_review" /\ t.founder = m.founder
  /\ flight # None => Reach(d.journal) >= 7 /\ t.approval = flight.approval

\* With the first of the two committed, the second may be the last step.
LEMMA SettlingCloses ==
  ASSUME NEW d, NEW m, NEW s, NEW x, NEW v, NEW t, NEW y, NEW u, NEW flight,
         Settling(d, m, s, x, v, t, y, u, flight), y # "founder_review", t.route = s.route,
         NEW w, Reach(w.journal) = Reach(d.journal),
         \A z \in Domains : w.journal.refs[z] = IF z = x THEN v ELSE d.journal.refs[z]
  PROVE  Closing(w, t, y, u, flight)
<1>1. Partly(d, s, {x})
  <2>1. Partly(d, m, {}) /\ {} \subseteq {x} /\ SameBut(m, s, {x})
    BY PartlyAgrees DEF Settling, Faithful
  <2> QED BY <2>1, PartlySame
<1>2. Partly(w, s, {})
  <2>1. x \in Domains => CurrentAuthority(s)[x] \in {None, v}
    BY DEF Settling
  <2> QED BY <1>1, <2>1, PartlySettled
<1>3. Partly(w, t, {y})
  <2>1. SameBut(s, t, {y}) /\ {} \subseteq {y}
    BY DEF Settling
  <2> QED BY <1>2, <2>1, PartlySame
<1>4. t.founder # None => w.journal.refs["founder_review"] = t.founder
  <2>1. "founder_review" \in Domains
    BY DEF Domains
  <2> QED BY <2>1 DEF Settling, Faithful
<1>5. /\ t.route # None => Reach(w.journal) >= 7
      /\ y \in Domains => CurrentAuthority(t)[y] \in {None, u}
      /\ flight # None => Reach(w.journal) >= 7 /\ t.approval = flight.approval
  BY DEF Settling, Faithful
<1> QED BY <1>3, <1>4, <1>5 DEF Closing

\* Two commits, from a run of which nothing was cut short: the first of some domain,
\* the second of another and of a state that differs in it alone.
LEMMA TwoCommits ==
  ASSUME NEW d, Sound(d), NEW m, NEW s, Ahead(d, s), NEW x, NEW v, NEW t, NEW y, NEW u,
         NEW flight,
         Coherent(t), t.plan = s.plan,
         t.route = s.route, t.reviews = s.reviews, t.inventory = s.inventory,
         ~cut => Settling(d, m, s, x, v, t, y, u, flight),
         y # "founder_review"
  PROVE  Leads(d, <<Commit(x, v, s)>> \o <<Commit(y, u, t)>>, flight)
<1>1. PICK w : w = Whole(d, Commit(x, v, s))
  OBVIOUS
<1>2. /\ Good(d, Commit(x, v, s)) /\ Sound(w) /\ Ahead(w, s)
      /\ Reach(w.journal) = Reach(d.journal)
      /\ \A z \in Domains : w.journal.refs[z] = IF z = x THEN v ELSE d.journal.refs[z]
  BY <1>1, Committed
<1>3. Ahead(w, t)
  BY <1>2, StaysAhead
<1>4. ~cut => Closing(w, t, y, u, flight)
  BY <1>2, SettlingCloses
<1>5. PICK c : c = Commit(y, u, t)
  OBVIOUS
<1>6. Leads(w, <<c>>, flight)
  <2>1. Leads(w, <<Commit(y, u, t)>>, flight)
    BY <1>2, <1>3, <1>4, LastCommit
  <2> QED BY <1>5, <2>1
<1>7. PICK rest : rest = <<c>>
  OBVIOUS
<1>8. PICK b : b = Commit(x, v, s)
  OBVIOUS
<1>9. PICK steps : steps = <<b>> \o rest
  OBVIOUS
<1>10. IsFirst(b, rest, steps) /\ IsList(rest) /\ Len(rest) # 0
  BY <1>6, <1>7, <1>9 DEF IsFirst, Leads
<1>11. Leads(d, steps, flight)
  BY <1>1, <1>2, <1>6, <1>7, <1>8, <1>10, NextStep
<1> QED BY <1>5, <1>7, <1>8, <1>9, <1>11

\* A list of two steps, one after the other.
LEMMA TwoSteps ==
  ASSUME NEW b, NEW c
  PROVE  <<b>> \o <<c>> = <<b, c>>
<1>1. <<b>> \in Seq({b, c}) /\ <<c>> \in Seq({b, c}) /\ <<b, c>> \in Seq({b, c})
  OBVIOUS
<1>2. PICK f : f = <<b>> \o <<c>>
  OBVIOUS
<1>3. f \in Seq({b, c}) /\ Len(f) = 2 /\ f[1] = b /\ f[2] = c
  BY <1>1, <1>2
<1>4. f = [i \in 1..2 |-> f[i]]
  BY <1>3
<1>5. <<b, c>> = [i \in 1..2 |-> <<b, c>>[i]]
  OBVIOUS
<1>6. \A i \in 1..2 : f[i] = <<b, c>>[i]
  BY <1>3
<1> QED BY <1>2, <1>4, <1>5, <1>6

\* RecordFounderReview: the verdict is referred to before the recovery proof is.
LEMMA FounderReviewKeeps ==
  ASSUME RunInv, Typed, FounderReview
  PROVE  RunInv' /\ session' \in Sessions
<1>1. /\ up /\ app.delivery # None /\ proofs < MaxProofs /\ proofs' = proofs + 1
      /\ store' = store
  BY DEF FounderReview, Perform, Handle
<1>2. app \in States /\ journal = disk.journal /\ session \in Sessions
  BY <1>1, AtWork
<1>3. PICK p : p = proofs'
  OBVIOUS
<1>4. p \in 1..MaxProofs
  BY <1>1, <1>3, BoundsAssumption DEF Typed
<1>5. PICK s : s = [app EXCEPT !.founder = app.delivery]
  OBVIOUS
<1>6. /\ s \in States /\ s.inventory = app.inventory /\ s.strategy = app.strategy
      /\ s.plan = app.plan /\ s.reviewed = app.reviewed
      /\ s.processed = app.processed /\ s.reviews = app.reviews /\ s.route = app.route
      /\ s.destination = app.destination /\ s.outbox = app.outbox
      /\ s.approval = app.approval /\ s.resume = app.resume /\ s.delivery = app.delivery
      /\ s.cancelled = app.cancelled /\ s.founder = app.delivery
      /\ s.recovery = app.recovery /\ s.confirmed = app.confirmed
  BY <1>2, <1>5 DEF States
<1>7. PICK t : t = [s EXCEPT !.recovery = p]
  OBVIOUS
<1>8. /\ t \in States /\ t.inventory = app.inventory /\ t.strategy = app.strategy
      /\ t.plan = app.plan /\ t.reviewed = app.reviewed
      /\ t.processed = app.processed /\ t.reviews = app.reviews /\ t.route = app.route
      /\ t.destination = app.destination /\ t.outbox = app.outbox
      /\ t.approval = app.approval /\ t.resume = app.resume /\ t.delivery = app.delivery
      /\ t.cancelled = app.cancelled /\ t.founder = app.delivery
      /\ t.recovery = p /\ t.confirmed = app.confirmed
  BY <1>4, <1>6, <1>7 DEF States
<1>9. Coherent(s) /\ Coherent(t)
  BY <1>1, <1>6, <1>8, AtWork DEF Coherent
<1>10. Ahead(disk, s)
  BY <1>1, <1>6, <1>9, AtWork, StaysAhead
<1>11. Queue(s) = Queue(app) /\ Queue(t) = Queue(s)
  BY <1>6, <1>8 DEF Queue
<1>12. SameBut(app, s, {"founder_review"})
  BY <1>2, <1>6, <1>11, SameWhen
<1>13. SameBut(s, t, {"recovery"})
  BY <1>6, <1>8, <1>11, SameWhen
<1>14. CurrentAuthority(s)["founder_review"] = s.founder
       /\ CurrentAuthority(t)["recovery"] = p
  BY <1>8, AuthorityOfState
<1>15. /\ ~cut => Faithful(disk, app)
       /\ ~cut /\ session.flight # None =>
            Reach(disk.journal) >= 7 /\ t.approval = session.flight.approval
  BY <1>1, <1>2, <1>8, AtWork
<1>16. PICK f : f = s.founder
  OBVIOUS
<1>17. Leads(disk, <<Commit("founder_review", f, s)>> \o <<Commit("recovery", p, t)>>,
             session.flight)
  <2>1. ~cut => Settling(disk, app, s, "founder_review", f, t, "recovery", p, session.flight)
    BY <1>6, <1>8, <1>12, <1>13, <1>14, <1>15, <1>16 DEF Settling
  <2>2. Sound(disk)
    BY <1>1, AtWork
  <2>3. /\ t.plan = s.plan /\ t.route = s.route /\ t.reviews = s.reviews
        /\ t.inventory = s.inventory
    BY <1>6, <1>8
  <2> QED BY <1>9, <1>10, <2>1, <2>2, <2>3, TwoCommits
<1>18. Handle(<<Commit("founder_review", f, s)>> \o <<Commit("recovery", p, t)>>,
              session, session)
  <2>1. Handle(<<Commit("founder_review", f, s), Commit("recovery", p, t)>>,
               session, session)
    BY <1>3, <1>5, <1>7, <1>16 DEF FounderReview, Perform
  <2>2. PICK b, c : b = Commit("founder_review", f, s) /\ c = Commit("recovery", p, t)
    OBVIOUS
  <2>3. <<b>> \o <<c>> = <<b, c>>
    BY TwoSteps
  <2> QED BY <2>1, <2>2, <2>3
<1> QED BY <1>1, <1>17, <1>18, AtWork, HandleKeeps

\* A state with its destination connected, and one without its preview and approval.
Connected(s) == [s EXCEPT !.destination = TRUE]
Unapproved(s) == [s EXCEPT !.preview = FALSE, !.approval = None]

\* The destination is connected.
LEMMA DestinationSet ==
  ASSUME NEW s \in States, NEW t, t = Connected(s)
  PROVE  /\ t \in States /\ t.inventory = s.inventory /\ t.strategy = s.strategy
         /\ t.plan = s.plan /\ t.reviewed = s.reviewed
         /\ t.processed = s.processed /\ t.reviews = s.reviews /\ t.route = s.route
         /\ t.destination /\ t.outbox = s.outbox
         /\ t.approval = s.approval /\ t.resume = s.resume /\ t.delivery = s.delivery
         /\ t.cancelled = s.cancelled /\ t.founder = s.founder
         /\ t.recovery = s.recovery /\ t.confirmed = s.confirmed
  BY DEF States, Connected

\* The preview and the approval of it are dropped.
LEMMA ApprovalDropped ==
  ASSUME NEW s \in States, NEW t, t = Unapproved(s)
  PROVE  /\ t \in States /\ t.inventory = s.inventory /\ t.strategy = s.strategy
         /\ t.plan = s.plan /\ t.reviewed = s.reviewed
         /\ t.processed = s.processed /\ t.reviews = s.reviews /\ t.route = s.route
         /\ t.destination = s.destination /\ t.outbox = s.outbox
         /\ t.approval = None /\ t.resume = s.resume /\ t.delivery = s.delivery
         /\ t.cancelled = s.cancelled /\ t.founder = s.founder
         /\ t.recovery = s.recovery /\ t.confirmed = s.confirmed
  BY DEF States, Unapproved

\* A destination is connected and the approval, with its preview, dropped: one record.
LEMMA DestinationCleared ==
  ASSUME NEW s \in States
  PROVE  [s EXCEPT !.destination = TRUE, !.preview = FALSE, !.approval = None]
           = Unapproved(Connected(s))
  BY DEF States, Connected, Unapproved

\* ConnectDestination: the destination and, after a reconciliation, its receipt.
LEMMA FinishConnectKeeps ==
  ASSUME RunInv, Typed, FinishConnect, session.flight = None /\ session.connecting.current
  PROVE  RunInv' /\ session' \in Sessions
<1>1. PICK c : c = session.connecting
  OBVIOUS
<1>2. PICK s : s = IF c.clear
                   THEN [app EXCEPT !.destination = TRUE, !.preview = FALSE,
                                    !.approval = None]
                   ELSE [app EXCEPT !.destination = TRUE]
  OBVIOUS
<1>3. PICK after : after = [Outdated([session EXCEPT !.connecting = None])
                              EXCEPT !.connected = TRUE]
  OBVIOUS
<1>4. PICK link : link = IF c.receipt = None THEN <<>>
                         ELSE <<Commit("delivery", c.receipt,
                                       [s EXCEPT !.delivery = c.receipt])>>
  OBVIOUS
<1>5. /\ c # None /\ store' = store
      /\ Handle(<<Commit("destination", TRUE, s)>> \o link, after, after)
  BY <1>1, <1>2, <1>3, <1>4 DEF FinishConnect
<1>6. up /\ session.flight = None
  BY <1>5 DEF Handle
<1>7. app \in States /\ journal = disk.journal /\ session \in Sessions
  BY <1>6, AtWork
<1>8. c.receipt \in {None} \cup Receipts /\ c.clear \in BOOLEAN
  BY <1>1, <1>5, <1>7 DEF Sessions
<1>9. /\ s \in States /\ s.inventory = app.inventory /\ s.strategy = app.strategy
      /\ s.plan = app.plan /\ s.reviewed = app.reviewed
      /\ s.processed = app.processed /\ s.reviews = app.reviews /\ s.route = app.route
      /\ s.destination /\ s.outbox = app.outbox
      /\ s.approval \in {None, app.approval} /\ s.resume = app.resume
      /\ s.delivery = app.delivery
      /\ s.cancelled = app.cancelled /\ s.founder = app.founder
      /\ s.recovery = app.recovery /\ s.confirmed = app.confirmed
  <2>1. CASE c.clear
    <3>1. PICK u : u = Connected(app)
      OBVIOUS
    <3>2. /\ u \in States /\ u.inventory = app.inventory /\ u.strategy = app.strategy
          /\ u.plan = app.plan /\ u.reviewed = app.reviewed
          /\ u.processed = app.processed /\ u.reviews = app.reviews
          /\ u.route = app.route /\ u.destination /\ u.outbox = app.outbox
          /\ u.resume = app.resume /\ u.delivery = app.delivery
          /\ u.cancelled = app.cancelled /\ u.founder = app.founder
          /\ u.recovery = app.recovery /\ u.confirmed = app.confirmed
      <4>1. app \in States
        BY <1>7
      <4> QED BY <3>1, <4>1, DestinationSet
    <3>3. s = Unapproved(u)
      BY <1>2, <1>7, <2>1, <3>1, DestinationCleared
    <3>4. /\ s \in States /\ s.inventory = u.inventory /\ s.strategy = u.strategy
          /\ s.plan = u.plan /\ s.reviewed = u.reviewed
          /\ s.processed = u.processed /\ s.reviews = u.reviews
          /\ s.route = u.route /\ s.destination = u.destination /\ s.outbox = u.outbox
          /\ s.approval = None /\ s.resume = u.resume /\ s.delivery = u.delivery
          /\ s.cancelled = u.cancelled /\ s.founder = u.founder
          /\ s.recovery = u.recovery /\ s.confirmed = u.confirmed
      <4>1. u \in States
        BY <3>2
      <4> QED BY <3>3, <4>1, ApprovalDropped
    <3> QED BY <3>2, <3>4
  <2>2. CASE ~c.clear
    <3>1. s = Connected(app)
      BY <1>2, <2>2 DEF Connected
    <3>2. app \in States
      BY <1>7
    <3>3. /\ s \in States /\ s.inventory = app.inventory /\ s.strategy = app.strategy
          /\ s.plan = app.plan /\ s.reviewed = app.reviewed
          /\ s.processed = app.processed /\ s.reviews = app.reviews
          /\ s.route = app.route /\ s.destination /\ s.outbox = app.outbox
          /\ s.approval = app.approval /\ s.resume = app.resume
          /\ s.delivery = app.delivery /\ s.cancelled = app.cancelled
          /\ s.founder = app.founder /\ s.recovery = app.recovery
          /\ s.confirmed = app.confirmed
      BY <3>1, <3>2, DestinationSet
    <3> QED BY <3>3
  <2> QED BY <2>1, <2>2
<1>10. Coherent(s)
  BY <1>6, <1>9, AtWork DEF Coherent
<1>11. Ahead(disk, s)
  BY <1>6, <1>9, <1>10, AtWork, StaysAhead
<1>12. SameBut(app, s, {"destination"})
  <2>1. Queue(s) = Queue(app)
    BY <1>9 DEF Queue
  <2> QED BY <1>7, <1>9, <2>1, SameWhen
<1>13. PICK v : v = TRUE
  OBVIOUS
<1>14. CurrentAuthority(s)["destination"] = v
  <2>1. CurrentAuthority(s)["destination"] = s.destination
    BY <1>9, AuthorityOfState
  <2> QED BY <1>9, <1>13, <2>1
<1>15. after \in Sessions /\ after.flight = None
  <2>1. PICK p : p = IF session.previewing = None THEN None
                     ELSE [session.previewing EXCEPT !.current = FALSE]
    OBVIOUS
  <2>2. p \in {None} \cup [route : {None} \cup Routes, current : BOOLEAN]
    BY <1>7, <2>1 DEF Sessions
  <2>3. after = [session EXCEPT !.connecting = None, !.previewing = p, !.connected = TRUE]
    <3>1. PICK q : q = [session EXCEPT !.connecting = None]
      OBVIOUS
    <3>2. q.connecting = None /\ q.previewing = session.previewing
      BY <1>7, <3>1 DEF Sessions
    <3>3. Outdated(q) = [q EXCEPT !.previewing = p, !.connecting = None]
      BY <2>1, <3>2 DEF Outdated
    <3> QED BY <1>3, <1>7, <3>1, <3>3 DEF Sessions
  <2> QED BY <1>7, <2>2, <2>3 DEF Sessions
<1>16. Flies(after)
  BY <1>15 DEF Flies
<1>17. CASE c.receipt = None
  <2>1. Leads(disk, <<Commit("destination", v, s)>>, after.flight)
    BY <1>6, <1>7, <1>9, <1>11, <1>12, <1>14, <1>15, AtWork, OneCommit
  <2>2. PICK b : b = Commit("destination", v, s)
    OBVIOUS
  <2>3. <<b>> \o << >> = <<b>>
    OBVIOUS
  <2>4. Handle(<<b>>, after, after)
    BY <1>4, <1>5, <1>13, <1>17, <2>2, <2>3
  <2> QED BY <1>5, <1>16, <2>1, <2>2, <2>4, HandleKeeps
<1>18. CASE c.receipt # None
  <2>1. PICK r : r = c.receipt
    OBVIOUS
  <2>2. PICK t : t = [s EXCEPT !.delivery = r]
    OBVIOUS
  <2>3. r \in Receipts
    BY <1>8, <1>18, <2>1
  <2>4. /\ t \in States /\ t.inventory = s.inventory /\ t.strategy = s.strategy
        /\ t.plan = s.plan /\ t.reviewed = s.reviewed
        /\ t.processed = s.processed /\ t.reviews = s.reviews /\ t.route = s.route
        /\ t.destination = s.destination /\ t.outbox = s.outbox
        /\ t.approval = s.approval /\ t.resume = s.resume /\ t.delivery = r
        /\ t.cancelled = s.cancelled /\ t.founder = s.founder
        /\ t.recovery = s.recovery /\ t.confirmed = s.confirmed
    <3>1. s \in States
      BY <1>9
    <3> QED BY <2>2, <2>3, <3>1 DEF States
  <2>5. Coherent(t)
    BY <1>10, <2>4 DEF Coherent
  <2>6. SameBut(s, t, {"delivery"})
    <3>1. Queue(t) = Queue(s)
      BY <2>4 DEF Queue
    <3> QED BY <1>9, <2>4, <3>1, SameWhen
  <2>7. CurrentAuthority(t)["delivery"] = r
    BY <2>4, AuthorityOfState
  <2>8. ~cut => Faithful(disk, app)
    BY <1>6, AtWork
  <2>9. Leads(disk, <<Commit("destination", v, s)>> \o <<Commit("delivery", r, t)>>,
              after.flight)
    <3>1. ~cut => Settling(disk, app, s, "destination", v, t, "delivery", r, after.flight)
      BY <1>9, <1>12, <1>14, <1>15, <2>4, <2>6, <2>7, <2>8 DEF Settling
    <3>2. Sound(disk)
      BY <1>6, AtWork
    <3>3. /\ t.plan = s.plan /\ t.route = s.route /\ t.reviews = s.reviews
          /\ t.inventory = s.inventory
      BY <2>4
    <3> QED BY <1>11, <2>5, <3>1, <3>2, <3>3, TwoCommits
  <2>10. Handle(<<Commit("destination", v, s)>> \o <<Commit("delivery", r, t)>>,
                after, after)
    BY <1>4, <1>5, <1>13, <1>18, <2>1, <2>2
  <2> QED BY <1>5, <1>16, <2>9, <2>10, HandleKeeps
<1> QED BY <1>17, <1>18

-----------------------------------------------------------------------------
(* The handlers of the proof.                                              *)

\* A list of three steps, one after the other two.
LEMMA ThreeSteps ==
  ASSUME NEW a, NEW b, NEW c
  PROVE  <<a>> \o <<b, c>> = <<a, b, c>>
<1>1. /\ <<a>> \in Seq({a, b, c}) /\ <<b, c>> \in Seq({a, b, c})
      /\ <<a, b, c>> \in Seq({a, b, c})
  OBVIOUS
<1>2. PICK f : f = <<a>> \o <<b, c>>
  OBVIOUS
<1>3. f \in Seq({a, b, c}) /\ Len(f) = 3 /\ f[1] = a /\ f[2] = b /\ f[3] = c
  BY <1>1, <1>2
<1>4. f = [i \in 1..3 |-> f[i]]
  BY <1>3
<1>5. <<a, b, c>> = [i \in 1..3 |-> <<a, b, c>>[i]]
  OBVIOUS
<1>6. \A i \in 1..3 : f[i] = <<a, b, c>>[i]
  BY <1>3
<1> QED BY <1>2, <1>4, <1>5, <1>6

\* The transition that completes a proof, over its reviewed state.
LEMMA Completes ==
  ASSUME NEW d, Sound(d), NEW s, Ahead(d, s), d.journal.latest = s, Reviewed(s),
         NEW step, step = Move("proof_complete", s)
  PROVE  /\ step.do = "move" /\ step.state = s /\ StageNumber(step.to) = 7
         /\ Good(d, step)
         /\ Admits(d, step) => Reach(d.journal) = 6
<1>1. /\ step.do = "move" /\ step.state = s /\ step.plan = s.plan
      /\ step.to = "proof_complete"
  BY DEF Move
<1>2. s.plan \in {None} \cup Plans
  BY DEF Ahead, Coherent, States
<1>3. StageNumber(step.to) = 7
  BY <1>1, NumbersOfStages
<1>4. 7 \in 2..8 /\ step.to = Stages[7]
  BY <1>1 DEF Stages
<1>5. Good(d, step)
  BY <1>1, <1>2, <1>3, <1>4 DEF Good, Fits
<1>6. Reach(d.journal) \in 1..8
  BY StageNames DEF Sound, IsDisk
<1>7. Admits(d, step) => Reach(d.journal) = 6
  BY <1>1, <1>3, <1>6 DEF Admits, Accepts, Reach
<1> QED BY <1>1, <1>3, <1>5, <1>7

\* The reviewed queue, the reviews and then the transition complete the proof of a sound run.
LEMMA CompletionLeads ==
  ASSUME NEW d, Sound(d), NEW s, NEW route, NEW done,
         done = ResetDestination([s EXCEPT !.route = route, !.reviewed = TRUE]),
         Ahead(d, done), Reviewed(done), done.founder = None, NEW flight,
         ~cut => Partly(d, done, {"queue", "review"}),
         ~cut /\ Reach(d.journal) = 6 => flight = None
  PROVE  Leads(d, Completion(s, route), flight)
<1>1. PICK q : q = Queue(done)
  OBVIOUS
<1>2. PICK r : r = done.reviews
  OBVIOUS
<1>3. PICK c : c = Commit("queue", q, done)
  OBVIOUS
<1>4. PICK b : b = Commit("review", r, done)
  OBVIOUS
<1>5. PICK m : m = Move("proof_complete", done)
  OBVIOUS
<1>6. Completion(s, route) = <<c, b, m>>
  BY <1>1, <1>2, <1>3, <1>4, <1>5 DEF Completion
<1>7. PICK d1 : d1 = Whole(d, Commit("queue", q, done))
  OBVIOUS
<1>8. /\ Good(d, c) /\ Sound(d1) /\ Ahead(d1, done) /\ d1 = Whole(d, c)
      /\ Reach(d1.journal) = Reach(d.journal)
      /\ \A y \in Domains : d1.journal.refs[y] = IF y = "queue" THEN q ELSE d.journal.refs[y]
  BY <1>3, <1>7, Committed
<1>9. PICK d2 : d2 = Whole(d1, Commit("review", r, done))
  OBVIOUS
<1>10. /\ Good(d1, b) /\ Sound(d2) /\ Ahead(d2, done) /\ d2 = Whole(d1, b)
       /\ d2.file = done /\ d2.journal.latest = done
       /\ Reach(d2.journal) = Reach(d1.journal)
       /\ \A y \in Domains : d2.journal.refs[y] = IF y = "review" THEN r ELSE d1.journal.refs[y]
  BY <1>4, <1>8, <1>9, Committed
<1>11. CurrentAuthority(done)["queue"] = q /\ CurrentAuthority(done)["review"] \in {None, r}
  BY <1>1, <1>2, AuthorityOfState
<1>12. ~cut => Agrees(done, d2.journal)
  <2>1. SUFFICES ASSUME ~cut PROVE Agrees(done, d2.journal)
    OBVIOUS
  <2>2. PICK X : X = {"queue", "review"}
    OBVIOUS
  <2>3. Partly(d, done, X)
    BY <2>1, <2>2
  <2>4. Partly(d1, done, X \ {"queue"})
    <3>1. \A y \in Domains :
            d1.journal.refs[y] = IF y = "queue" THEN q ELSE d.journal.refs[y]
      BY <1>8
    <3>2. "queue" \in Domains => CurrentAuthority(done)["queue"] \in {None, q}
      BY <1>11
    <3> QED BY <2>3, <3>1, <3>2, PartlyCommitted
  <2>5. Partly(d2, done, {})
    <3>1. \A y \in Domains :
            d2.journal.refs[y] = IF y = "review" THEN r ELSE d1.journal.refs[y]
      BY <1>10
    <3>2. "review" \in Domains => CurrentAuthority(done)["review"] \in {None, r}
      BY <1>11
    <3>3. X \ {"queue"} = {"review"}
      BY <2>2
    <3> QED BY <2>4, <3>1, <3>2, <3>3, PartlySettled
  <2> QED BY <2>5, PartlyAgrees
<1>13. /\ m.do = "move" /\ m.state = done /\ StageNumber(m.to) = 7 /\ Good(d2, m)
       /\ Admits(d2, m) => Reach(d2.journal) = 6
  BY <1>5, <1>10, Completes
<1>14. ~cut /\ Admits(d2, m) => flight = None
  BY <1>8, <1>10, <1>13
<1>15. Leads(d2, <<m>>, flight)
  BY <1>10, <1>12, <1>13, <1>14, LastMove
<1>16. PICK last : last = <<m>>
  OBVIOUS
<1>17. PICK rest : rest = <<b, m>>
  OBVIOUS
<1>18. IsFirst(b, last, rest) /\ IsList(last) /\ Len(last) # 0
  BY <1>15, <1>16, <1>17, TwoSteps DEF IsFirst, Leads
<1>19. Leads(d1, rest, flight)
  BY <1>10, <1>15, <1>16, <1>18, NextStep
<1>20. PICK steps : steps = <<c, b, m>>
  OBVIOUS
<1>21. IsFirst(c, rest, steps) /\ IsList(rest) /\ Len(rest) # 0
  BY <1>17, <1>19, <1>20, ThreeSteps DEF IsFirst, Leads
<1>22. Leads(d, steps, flight)
  BY <1>8, <1>19, <1>21, NextStep
<1> QED BY <1>6, <1>20, <1>22

\* ReviewProofItem: one review, or the completion.
LEMMA ReviewItemKeeps ==
  ASSUME RunInv, Typed, NEW item \in Items, NEW route \in Routes, ReviewItem(item, route)
  PROVE  RunInv' /\ session' \in Sessions
<1>1. /\ up /\ app.processed /\ item \in Selected[app.inventory] \ app.reviews
      /\ store' = store
  BY DEF ReviewItem, Perform, Handle
<1>2. /\ app \in States /\ journal = disk.journal /\ session \in Sessions
      /\ Reach(disk.journal) \in 1..8
  BY <1>1, AtWork
<1>3. app.plan # None /\ app.inventory \in Inventories
  BY <1>1, <1>2, AtWork DEF Coherent
<1>4. Reach(disk.journal) <= 6
  BY <1>1, <1>2, AtWork DEF Reviewed
<1>5. ~cut => session.flight = None /\ Faithful(disk, app)
  BY <1>1, <1>2, <1>4, AtWork
<1>6. PICK s : s = [app EXCEPT !.reviews = @ \cup {item}]
  OBVIOUS
<1>7. /\ s \in States /\ s.inventory = app.inventory /\ s.strategy = app.strategy
      /\ s.plan = app.plan /\ s.reviewed = app.reviewed
      /\ s.processed = app.processed /\ s.reviews = app.reviews \cup {item}
      /\ s.route = app.route /\ s.destination = app.destination
  BY <1>2, <1>6 DEF States
<1>8. CASE s.reviews = Selected[app.inventory]
  <2>1. PICK u : u = [s EXCEPT !.route = route, !.reviewed = TRUE]
    OBVIOUS
  <2>2. /\ u \in States /\ u.inventory = app.inventory /\ u.strategy = app.strategy
        /\ u.plan = app.plan /\ u.reviewed = TRUE
        /\ u.processed = app.processed /\ u.reviews = s.reviews
        /\ u.route = route /\ u.destination = app.destination
    BY <1>7, <2>1 DEF States
  <2>3. PICK done : done = ResetDestination(u)
    OBVIOUS
  <2>4. /\ done \in States
        /\ done.inventory = app.inventory /\ done.strategy = app.strategy
        /\ done.plan = app.plan /\ done.processed = app.processed
        /\ done.reviews = s.reviews /\ done.route = route
        /\ done.destination = app.destination
        /\ done.outbox = None /\ done.approval = None /\ done.resume = None
        /\ done.delivery = None /\ ~done.cancelled /\ done.founder = None
        /\ done.recovery = None /\ ~done.confirmed
    BY <2>2, <2>3, DestinationReset
  <2>5. Coherent(done)
    BY <1>1, <1>3, <2>4 DEF Coherent
  <2>6. Ahead(disk, done)
    BY <1>1, <1>2, <1>4, <2>4, <2>5, AtWork, StaysAhead
  <2>7. Reviewed(done)
    BY <1>8, <2>4, AbsenceAssumption DEF Reviewed
  <2>8. SameBut(app, done, {"queue", "review"})
    BY <1>2, <2>4, SameWhen
  <2>9. ~cut => Partly(disk, done, {"queue", "review"})
    <3>1. SUFFICES ASSUME ~cut PROVE Partly(disk, done, {"queue", "review"})
      OBVIOUS
    <3>2. Partly(disk, app, {})
      BY <1>5, <3>1, PartlyAgrees DEF Faithful
    <3>3. {} \subseteq {"queue", "review"}
      OBVIOUS
    <3> QED BY <2>8, <3>2, <3>3, PartlySame
  <2>10. Sound(disk)
    BY <1>1, AtWork
  <2>11. Leads(disk, Completion(s, route), session.flight)
    BY <1>5, <2>1, <2>3, <2>4, <2>6, <2>7, <2>9, <2>10, CompletionLeads
  <2>12. Handle(Completion(s, route), session, session)
    BY <1>6, <1>8 DEF ReviewItem, Perform
  <2> QED BY <1>1, <2>11, <2>12, AtWork, HandleKeeps
<1>9. CASE s.reviews # Selected[app.inventory]
  <2>1. PICK t : t = ResetDestination(s)
    OBVIOUS
  <2>2. /\ t \in States
        /\ t.inventory = app.inventory /\ t.strategy = app.strategy
        /\ t.plan = app.plan /\ t.reviewed = app.reviewed
        /\ t.processed = app.processed
        /\ t.reviews = s.reviews /\ t.route = app.route
        /\ t.destination = app.destination
        /\ t.outbox = None /\ t.approval = None /\ t.resume = None
        /\ t.delivery = None /\ ~t.cancelled /\ t.founder = None
        /\ t.recovery = None /\ ~t.confirmed
    BY <1>7, <2>1, DestinationReset
  <2>3. Coherent(t)
    BY <1>1, <1>3, <2>2 DEF Coherent
  <2>4. Ahead(disk, t)
    BY <1>1, <1>2, <1>4, <2>2, <2>3, AtWork, StaysAhead
  <2>5. Queue(t) = Queue(app)
    BY <2>2 DEF Queue
  <2>6. SameBut(app, t, {"review"})
    BY <1>2, <2>2, <2>5, SameWhen
  <2>7. PICK r : r = s.reviews
    OBVIOUS
  <2>8. CurrentAuthority(t)["review"] \in {None, r}
    BY <2>2, <2>7, AuthorityOfState
  <2>9. Leads(disk, <<Commit("review", r, t)>>, session.flight)
    BY <1>1, <1>2, <1>5, <2>2, <2>4, <2>6, <2>8, AtWork, OneCommit
  <2>10. Handle(<<Commit("review", r, t)>>, session, session)
    BY <1>6, <1>9, <2>1, <2>7 DEF ReviewItem, Perform
  <2> QED BY <1>1, <2>9, <2>10, AtWork, HandleKeeps
<1> QED BY <1>8, <1>9

\* A reference before the last step.
LEMMA ReferenceMade ==
  ASSUME NEW d, Sound(d), NEW s, Ahead(d, s), d.journal.latest = s, NEW x, NEW v
  PROVE  /\ Good(d, Refer(x, v, s)) /\ Sound(Whole(d, Refer(x, v, s)))
         /\ Ahead(Whole(d, Refer(x, v, s)), s)
<1>1. PICK c : c = Refer(x, v, s)
  OBVIOUS
<1>2. c.state = s /\ Good(d, c)
  BY <1>1 DEF Refer, Good, Fits
<1>3. PICK w : w = Whole(d, Refer(x, v, s))
  OBVIOUS
<1>4. w = Written(d, Refer(x, v, s), 1)
  BY <1>3, Orders DEF Whole
<1>5. 1 \in 0..1
  OBVIOUS
<1>6. Sound(w) /\ Ahead(w, s)
  BY <1>4, <1>5, ReferenceKeeps
<1> QED BY <1>1, <1>2, <1>3, <1>6

\* What follows the processing of a proof: nothing is sampled, all of it is routed to
\* manual support, some of it, or none.
AfterProcessing(s, items, auto) ==
  CASE items = {} -> <<Refer("queue", Queue(s), s), Move("proof_complete", s)>>
    [] items # {} /\ auto = items -> Completion(s, "empty")
    [] auto \notin {{}, items} -> <<Commit("review", auto, s)>>
    [] OTHER -> <<>>

\* A proof without items is completed over the queue alone.
LEMMA EmptyProofLeads ==
  ASSUME NEW w, Sound(w), NEW s, Ahead(w, s), w.file = s, w.journal.latest = s,
         Reviewed(s), s.founder = None, NEW flight,
         ~cut => flight = None /\ Partly(w, s, {"queue"})
  PROVE  Leads(w, <<Refer("queue", Queue(s), s), Move("proof_complete", s)>>, flight)
<1>1. PICK q : q = Queue(s)
  OBVIOUS
<1>2. PICK w2 : w2 = Whole(w, Refer("queue", q, s))
  OBVIOUS
<1>3. /\ Good(w, Refer("queue", q, s)) /\ Sound(w2) /\ Ahead(w2, s)
      /\ w2.file = s /\ w2.journal.latest = s
      /\ \A y \in Domains : w2.journal.refs[y] = IF y = "queue" THEN q ELSE w.journal.refs[y]
  <2>1. /\ Good(w, Refer("queue", q, s)) /\ Sound(Whole(w, Refer("queue", q, s)))
        /\ Ahead(Whole(w, Refer("queue", q, s)), s)
    BY ReferenceMade
  <2>2. IsDisk(w) /\ s \in States
    BY DEF Sound, Ahead, Coherent
  <2>3. /\ w2.file = w.file /\ w2.journal.latest = s
        /\ \A y \in Domains :
             w2.journal.refs[y] = IF y = "queue" THEN q ELSE w.journal.refs[y]
    BY <1>2, <2>2, ReferenceDone
  <2> QED BY <1>2, <2>1, <2>3
<1>4. ~cut => Agrees(s, w2.journal)
  <2>1. CurrentAuthority(s)["queue"] = q
    BY <1>1, AuthorityOfState
  <2>2. PICK X : X = {"queue"}
    OBVIOUS
  <2>3. ~cut => Partly(w, s, X)
    BY <2>2
  <2>4. ~cut => Partly(w2, s, X \ {"queue"})
    BY <1>3, <2>1, <2>3, PartlyCommitted
  <2>5. X \ {"queue"} = {}
    BY <2>2
  <2> QED BY <2>4, <2>5, PartlyAgrees
<1>5. PICK m : m = Move("proof_complete", s)
  OBVIOUS
<1>6. m.do = "move" /\ m.state = s /\ StageNumber(m.to) = 7 /\ Good(w2, m)
  BY <1>3, <1>5, Completes
<1>7. Leads(w2, <<m>>, flight)
  BY <1>3, <1>4, <1>6, LastMove
<1>8. PICK c : c = Refer("queue", q, s)
  OBVIOUS
<1>9. PICK last : last = <<m>>
  OBVIOUS
<1>10. PICK steps : steps = <<c, m>>
  OBVIOUS
<1>11. IsFirst(c, last, steps) /\ IsList(last) /\ Len(last) # 0
  BY <1>7, <1>9, <1>10, TwoSteps DEF IsFirst, Leads
<1>12. Leads(w, steps, flight)
  BY <1>2, <1>3, <1>7, <1>8, <1>9, <1>11, NextStep
<1> QED BY <1>1, <1>5, <1>8, <1>10, <1>12

\* A state whose route is chosen.
Routed(s, route) == [s EXCEPT !.route = route, !.reviewed = TRUE]

\* A route is chosen and its review over.
LEMMA RouteSet ==
  ASSUME NEW s \in States, NEW route \in Routes, NEW t, t = Routed(s, route)
  PROVE  /\ t \in States /\ t.inventory = s.inventory /\ t.strategy = s.strategy
         /\ t.plan = s.plan /\ t.processed = s.processed /\ t.reviews = s.reviews
         /\ t.route = route /\ t.destination = s.destination
  BY DEF States, Routed

\* The processing of a proof and what its items call for after it.
LEMMA ProcessedLeads ==
  ASSUME NEW d, Sound(d), NEW s, Ahead(d, s), Reach(d.journal) <= 6,
         NEW items, items = Selected[s.inventory], NEW auto, auto = items \cap Manual,
         s.reviews = auto, s.founder = None, s.processed, s.plan # None,
         s.route = IF items = {} THEN "empty" ELSE None, NEW flight,
         ~cut => /\ flight = None
                 /\ items = {} => Partly(d, s, {"processing", "queue"})
                 /\ items # {} => Partly(d, s, {"processing", "review"})
                 /\ items # {} /\ auto = {} => Partly(d, s, {"processing"})
  PROVE  Leads(d, <<Commit("processing", s.plan, s)>> \o AfterProcessing(s, items, auto),
               flight)
<1>1. PICK p : p = s.plan
  OBVIOUS
<1>2. PICK w : w = Whole(d, Commit("processing", p, s))
  OBVIOUS
<1>3. /\ Good(d, Commit("processing", p, s)) /\ Sound(w) /\ Ahead(w, s)
      /\ w.file = s /\ w.journal.latest = s /\ Reach(w.journal) <= 6
      /\ \A y \in Domains :
           w.journal.refs[y] = IF y = "processing" THEN p ELSE d.journal.refs[y]
  BY <1>2, Committed
<1>4. s \in States /\ Coherent(s) /\ s.inventory \in Inventories
  BY DEF Ahead, Coherent
<1>5. CurrentAuthority(s)["processing"] = p
  BY <1>1, AuthorityOfState
<1>6. ASSUME NEW X, Partly(d, s, X) PROVE Partly(w, s, X \ {"processing"})
  BY <1>3, <1>5, <1>6, PartlyCommitted
<1>7. PICK rest : rest = AfterProcessing(s, items, auto)
  OBVIOUS
<1>8. PICK c : c = Commit("processing", p, s)
  OBVIOUS
<1>9. ASSUME Leads(w, rest, flight) PROVE Leads(d, <<c>> \o rest, flight)
  <2>1. PICK steps : steps = <<c>> \o rest
    OBVIOUS
  <2>2. IsFirst(c, rest, steps) /\ IsList(rest) /\ Len(rest) # 0
    BY <1>9, <2>1 DEF IsFirst, Leads
  <2>3. Leads(d, steps, flight)
    BY <1>2, <1>3, <1>8, <1>9, <2>2, NextStep
  <2> QED BY <2>1, <2>3
<1>10. CASE items = {}
  <2>1. rest = <<Refer("queue", Queue(s), s), Move("proof_complete", s)>>
    BY <1>7, <1>10 DEF AfterProcessing
  <2>2. Reviewed(s)
    BY <1>10, AbsenceAssumption DEF Reviewed, Routes
  <2>3. ~cut => Partly(w, s, {"queue"})
    <3>1. {"processing", "queue"} \ {"processing"} = {"queue"}
      OBVIOUS
    <3> QED BY <1>6, <1>10, <3>1
  <2>4. Leads(w, rest, flight)
    BY <1>3, <2>1, <2>2, <2>3, EmptyProofLeads
  <2> QED BY <1>1, <1>7, <1>8, <1>9, <2>4
<1>11. ~cut /\ items # {} => Partly(w, s, {"review"})
  <2>1. {"processing", "review"} \ {"processing"} = {"review"}
    OBVIOUS
  <2> QED BY <1>6, <2>1
<1>12. CASE items # {} /\ auto = items
  <2>1. rest = Completion(s, "empty")
    BY <1>7, <1>12 DEF AfterProcessing
  <2>2. PICK route : route = "empty"
    OBVIOUS
  <2>3. route \in Routes
    BY <2>2 DEF Routes
  <2>4. PICK u : u = [s EXCEPT !.route = route, !.reviewed = TRUE]
    OBVIOUS
  <2>5. /\ u \in States /\ u.inventory = s.inventory /\ u.strategy = s.strategy
        /\ u.plan = s.plan /\ u.processed = s.processed /\ u.reviews = s.reviews
        /\ u.route = route /\ u.destination = s.destination
    <3>1. PICK a : a = s
      OBVIOUS
    <3>2. a \in States /\ u = Routed(a, route)
      BY <1>4, <2>4, <3>1 DEF Routed
    <3>3. /\ u \in States /\ u.inventory = a.inventory /\ u.strategy = a.strategy
          /\ u.plan = a.plan /\ u.processed = a.processed /\ u.reviews = a.reviews
          /\ u.route = route /\ u.destination = a.destination
      BY <2>3, <3>2, RouteSet
    <3> QED BY <3>1, <3>3
  <2>6. PICK done : done = ResetDestination(u)
    OBVIOUS
  <2>7. /\ done \in States
        /\ done.inventory = s.inventory /\ done.strategy = s.strategy
        /\ done.plan = s.plan /\ done.processed = s.processed
        /\ done.reviews = s.reviews /\ done.route = route
        /\ done.destination = s.destination
        /\ done.outbox = None /\ done.approval = None /\ done.resume = None
        /\ done.delivery = None /\ ~done.cancelled /\ done.founder = None
        /\ done.recovery = None /\ ~done.confirmed
    <3>1. u \in States
      BY <2>5
    <3>2. /\ done \in States
          /\ done.inventory = u.inventory /\ done.strategy = u.strategy
          /\ done.plan = u.plan /\ done.processed = u.processed
          /\ done.reviews = u.reviews /\ done.route = u.route
          /\ done.destination = u.destination
          /\ done.outbox = None /\ done.approval = None /\ done.resume = None
          /\ done.delivery = None /\ ~done.cancelled /\ done.founder = None
          /\ done.recovery = None /\ ~done.confirmed
      BY <2>6, <3>1, DestinationReset
    <3> QED BY <2>5, <3>2
  <2>8. Coherent(done)
    BY <1>4, <2>7 DEF Coherent
  <2>9. Reach(w.journal) \in 1..8
    BY <1>3, StageNames DEF Sound, IsDisk
  <2>10. Ahead(w, done)
    BY <1>3, <2>7, <2>8, <2>9, StaysAhead
  <2>11. Reviewed(done)
    BY <1>12, <2>3, <2>7, AbsenceAssumption DEF Reviewed
  <2>12. SameBut(s, done, {"queue", "review"})
    BY <1>4, <2>7, SameWhen
  <2>13. ~cut => Partly(w, done, {"queue", "review"})
    <3>1. {"review"} \subseteq {"queue", "review"}
      OBVIOUS
    <3> QED BY <1>11, <1>12, <2>12, <3>1, PartlySame
  <2>14. Leads(w, Completion(s, route), flight)
    BY <1>3, <2>4, <2>6, <2>7, <2>10, <2>11, <2>13, CompletionLeads
  <2> QED BY <1>1, <1>7, <1>8, <1>9, <2>1, <2>2, <2>14
<1>13. CASE auto \notin {{}, items}
  <2>1. rest = <<Commit("review", auto, s)>> /\ items # {} /\ s.route = None
    <3>1. items # {}
      BY <1>13
    <3> QED BY <1>7, <1>13, <3>1 DEF AfterProcessing
  <2>2. CurrentAuthority(s)["review"] = auto
    BY <1>13, AuthorityOfState
  <2>3. Leads(w, <<Commit("review", auto, s)>>, flight)
    BY <1>3, <1>11, <2>1, <2>2, LastCommit DEF Closing
  <2> QED BY <1>1, <1>7, <1>8, <1>9, <2>1, <2>3
<1>14. CASE items # {} /\ auto = {}
  <2>1. rest = << >> /\ s.route = None
    BY <1>7, <1>14 DEF AfterProcessing
  <2>2. Leads(d, <<Commit("processing", p, s)>>, flight)
    BY <1>5, <1>14, <2>1, LastCommit DEF Closing
  <2>3. <<c>> \o << >> = <<c>>
    OBVIOUS
  <2> QED BY <1>1, <1>7, <1>8, <2>1, <2>2, <2>3
<1> QED BY <1>10, <1>12, <1>13, <1>14

\* Lists of one, two and three steps.
LEMMA ShortLists ==
  ASSUME NEW a, NEW b, NEW c
  PROVE  IsList(<<a>>) /\ IsList(<<a, b>>) /\ IsList(<<a, b, c>>)
<1>1. /\ <<a>> \in Seq({a, b, c}) /\ <<a, b>> \in Seq({a, b, c})
      /\ <<a, b, c>> \in Seq({a, b, c})
  OBVIOUS
<1> QED BY <1>1 DEF IsList

\* So is what comes after the processing.
LEMMA AfterProcessingList ==
  ASSUME NEW s, NEW items, NEW auto, auto \subseteq items
  PROVE  IsList(AfterProcessing(s, items, auto))
<1>1. PICK rest : rest = AfterProcessing(s, items, auto)
  OBVIOUS
<1>2. CASE items = {}
  <2>1. rest = <<Refer("queue", Queue(s), s), Move("proof_complete", s)>>
    BY <1>1, <1>2 DEF AfterProcessing
  <2> QED BY <1>1, <2>1, ShortLists
<1>3. CASE items # {} /\ auto = items
  <2>1. rest = Completion(s, "empty")
    BY <1>1, <1>3 DEF AfterProcessing
  <2>2. \E a, b, c : Completion(s, "empty") = <<a, b, c>>
    BY DEF Completion
  <2> QED BY <1>1, <2>1, <2>2, ShortLists
<1>4. CASE auto \notin {{}, items}
  <2>1. items # {}
    BY <1>4
  <2>2. rest = <<Commit("review", auto, s)>>
    BY <1>1, <1>4, <2>1 DEF AfterProcessing
  <2> QED BY <1>1, <2>2, ShortLists
<1>5. CASE items # {} /\ auto = {}
  <2>1. rest = << >>
    BY <1>1, <1>5 DEF AfterProcessing
  <2> QED BY <1>1, <2>1, NoSteps
<1> QED BY <1>2, <1>3, <1>4, <1>5

\* StartProof: the transition to processing, then the processing.
LEMMA StartProofKeeps ==
  ASSUME RunInv, Typed, StartProof
  PROVE  RunInv' /\ session' \in Sessions
<1>1. PICK items : items = Selected[app.inventory]
  OBVIOUS
<1>2. PICK auto : auto = items \cap Manual
  OBVIOUS
<1>3. PICK u : u = [app EXCEPT !.processed = TRUE, !.reviews = auto,
                               !.route = IF items = {} THEN "empty" ELSE None,
                               !.reviewed = @ \/ items = {}]
  OBVIOUS
<1>4. PICK s : s = ResetDestination(u)
  OBVIOUS
<1>5. PICK begin : begin = IF journal.stage = "proof_selected"
                           THEN <<Move("proof_processing", app)>> ELSE <<>>
  OBVIOUS
<1>6. PICK rest : rest = AfterProcessing(s, items, auto)
  OBVIOUS
<1>7. PICK c : c = Commit("processing", s.plan, s)
  OBVIOUS
<1>8. /\ Handle(begin \o <<c>> \o rest, session, session)
      /\ app.plan # None /\ journal.stage \in {"proof_selected", "proof_processing"}
      /\ store' = store
  BY <1>1, <1>2, <1>3, <1>4, <1>5, <1>6, <1>7 DEF StartProof, Perform, AfterProcessing
<1>9. up
  BY <1>8 DEF Handle
<1>10. /\ app \in States /\ journal = disk.journal /\ session \in Sessions
       /\ Sound(disk) /\ Ahead(disk, app) /\ IsJournal(journal)
  BY <1>9, AtWork
<1>11. /\ Reach(disk.journal) <= 6
       /\ Reach(disk.journal) = 5 \/ Reach(disk.journal) = 6
       /\ journal.stage = "proof_selected" <=> Reach(disk.journal) = 5
  BY <1>8, <1>10, StageNames
<1>12. app.inventory \in Inventories /\ Coherent(app)
  BY <1>8, <1>9, AtWork DEF Coherent
<1>13. /\ u \in States /\ u.inventory = app.inventory /\ u.strategy = app.strategy
       /\ u.plan = app.plan /\ u.processed = TRUE /\ u.reviews = auto
       /\ u.route = (IF items = {} THEN "empty" ELSE None)
       /\ u.destination = app.destination
       /\ items # {} => u.reviewed = app.reviewed
  <2>1. auto \in SUBSET Items
    BY <1>1, <1>2, <1>12 DEF Items
  <2>2. PICK r : r = IF items = {} THEN "empty" ELSE None
    OBVIOUS
  <2>3. r \in {None} \cup Routes
    BY <2>2 DEF Routes
  <2>4. PICK b : b = (app.reviewed \/ items = {})
    OBVIOUS
  <2>5. app.reviewed \in BOOLEAN
    BY <1>10 DEF States
  <2>6. b \in BOOLEAN /\ (items # {} => b = app.reviewed)
    BY <2>4, <2>5
  <2>7. u = [app EXCEPT !.processed = TRUE, !.reviews = auto, !.route = r,
                        !.reviewed = b]
    BY <1>3, <2>2, <2>4
  <2>8. /\ u \in States /\ u.inventory = app.inventory /\ u.strategy = app.strategy
        /\ u.plan = app.plan /\ u.processed = TRUE /\ u.reviews = auto
        /\ u.route = r /\ u.destination = app.destination /\ u.reviewed = b
    BY <1>10, <2>1, <2>3, <2>6, <2>7 DEF States
  <2> QED BY <2>2, <2>6, <2>8
<1>14. /\ s \in States
       /\ s.inventory = app.inventory /\ s.strategy = app.strategy
       /\ s.plan = app.plan /\ s.processed /\ s.reviews = auto
       /\ s.route = (IF items = {} THEN "empty" ELSE None)
       /\ s.destination = app.destination
       /\ items # {} => s.reviewed = app.reviewed
       /\ s.outbox = None /\ s.approval = None /\ s.resume = None
       /\ s.delivery = None /\ ~s.cancelled /\ s.founder = None
       /\ s.recovery = None /\ ~s.confirmed
  BY <1>4, <1>13, DestinationReset
<1>15. Coherent(s)
  BY <1>8, <1>12, <1>14 DEF Coherent
<1>16. /\ items = {} => SameBut(app, s, {"processing", "queue"})
       /\ items # {} => SameBut(app, s, {"processing", "review"})
       /\ items # {} /\ auto = {} => SameBut(app, s, {"processing"})
  <2>1. items = {} => s.reviews = {}
    BY <1>2, <1>14
  <2>2. items # {} => Queue(s) = Queue(app)
    BY <1>14 DEF Queue
  <2>3. ASSUME items = {} PROVE SameBut(app, s, {"processing", "queue"})
    BY <1>10, <1>14, <2>1, <2>3, SameWhen
  <2>4. ASSUME items # {} PROVE SameBut(app, s, {"processing", "review"})
    BY <1>10, <1>14, <2>2, <2>4, SameWhen
  <2>5. ASSUME items # {}, auto = {} PROVE SameBut(app, s, {"processing"})
    BY <1>10, <1>14, <2>2, <2>5, SameWhen
  <2> QED BY <2>3, <2>4, <2>5
<1>17. ~cut => session.flight = None /\ Partly(disk, app, {})
  BY <1>9, <1>10, <1>11, AtWork, PartlyAgrees DEF Faithful
<1>18. ASSUME NEW d, Sound(d), Ahead(d, app), Reach(d.journal) <= 6,
              ~cut => Partly(d, app, {})
       PROVE  Leads(d, <<c>> \o rest, session.flight)
  <2>1. Reach(d.journal) \in 1..8
    BY <1>18, StageNames DEF Sound, IsDisk
  <2>2. Ahead(d, s)
    BY <1>14, <1>15, <1>18, <2>1, StaysAhead
  <2>3. ASSUME NEW X, SameBut(app, s, X), ~cut PROVE Partly(d, s, X)
    <3>1. {} \subseteq X
      OBVIOUS
    <3> QED BY <1>18, <2>3, <3>1, PartlySame
  <2>4. ~cut => /\ session.flight = None
                /\ items = {} => Partly(d, s, {"processing", "queue"})
                /\ items # {} => Partly(d, s, {"processing", "review"})
                /\ items # {} /\ auto = {} => Partly(d, s, {"processing"})
    BY <1>16, <1>17, <2>3
  <2>5. items = Selected[s.inventory] /\ s.plan # None
    BY <1>1, <1>8, <1>14
  <2>6. Leads(d, <<Commit("processing", s.plan, s)>> \o AfterProcessing(s, items, auto),
              session.flight)
    BY <1>2, <1>14, <1>18, <2>2, <2>4, <2>5, ProcessedLeads
  <2> QED BY <1>6, <1>7, <2>6
<1>19. IsList(rest)
  BY <1>2, <1>6, AfterProcessingList
<1>20. CASE Reach(disk.journal) = 6
  <2>1. begin = << >>
    BY <1>5, <1>11, <1>20
  <2>2. << >> \o <<c>> = <<c>>
    OBVIOUS
  <2>3. Leads(disk, <<c>> \o rest, session.flight)
    BY <1>10, <1>11, <1>17, <1>18
  <2>4. Handle(<<c>> \o rest, session, session)
    BY <1>8, <2>1, <2>2
  <2> QED BY <1>8, <1>9, <2>3, <2>4, AtWork, HandleKeeps
<1>21. CASE Reach(disk.journal) = 5
  <2>1. PICK m : m = Move("proof_processing", app)
    OBVIOUS
  <2>2. begin = <<m>>
    BY <1>5, <1>11, <1>21, <2>1
  <2>3. PICK tail : tail = <<c>> \o rest
    OBVIOUS
  <2>4. IsList(tail) /\ Len(tail) # 0
    <3>1. IsFirst(c, rest, tail)
      BY <2>3 DEF IsFirst
    <3>2. IsList(tail) /\ Len(tail) = Len(rest) + 1 /\ Len(rest) \in Nat
      BY <1>19, <3>1, FirstList, Lists
    <3> QED BY <3>2
  <2>5. (<<m>> \o <<c>>) \o rest = <<m>> \o tail
    <3>1. PICK S : rest \in Seq(S)
      BY <1>19 DEF IsList
    <3>2. PICK T : T = S \cup {m, c}
      OBVIOUS
    <3>3. rest \in Seq(T) /\ <<m>> \in Seq(T) /\ <<c>> \in Seq(T)
      BY <3>1, <3>2
    <3> QED BY <2>3, <3>3, ConcatAssociative
  <2>6. /\ m.do = "move" /\ m.state = app /\ m.plan = app.plan /\ m.to = "proof_processing"
    BY <2>1 DEF Move
  <2>7. Good(disk, m)
    <3>1. StageNumber(m.to) = 6 /\ m.to = Stages[6] /\ 6 \in 2..8
      BY <2>6, NumbersOfStages DEF Stages
    <3>2. m.plan \in {None} \cup Plans
      BY <1>10, <2>6 DEF States
    <3> QED BY <1>10, <2>6, <3>1, <3>2 DEF Good, Fits
  <2>8. PICK w : w = Whole(disk, m)
    OBVIOUS
  <2>9. ASSUME Admits(disk, m) PROVE Leads(w, tail, session.flight)
    <3>1. Sound(w) /\ Ahead(w, app)
      BY <2>6, <2>7, <2>8, <2>9, WholeKeeps
    <3>2. w.journal.refs = disk.journal.refs /\ Reach(w.journal) = Reach(disk.journal) + 1
      BY <2>6, <2>7, <2>8, <2>9, MoveDone
    <3>3. ~cut => Partly(w, app, {})
      BY <1>17, <3>2, PartlyMoved
    <3> QED BY <1>18, <1>21, <2>3, <3>1, <3>2, <3>3
  <2>10. PICK steps : steps = <<m>> \o tail
    OBVIOUS
  <2>11. IsFirst(m, tail, steps)
    BY <2>10 DEF IsFirst
  <2>12. Leads(disk, steps, session.flight)
    BY <2>4, <2>7, <2>8, <2>9, <2>11, NextStep
  <2>13. Handle(steps, session, session)
    BY <1>8, <2>2, <2>5, <2>10
  <2> QED BY <1>8, <1>9, <2>12, <2>13, AtWork, HandleKeeps
<1> QED BY <1>11, <1>20, <1>21

\* A list with a step after it.
IsLast(moves, c, steps) == steps = moves \o <<c>>

\* The positions of a list whose last step is set apart.
LEMMA LastList ==
  ASSUME NEW moves, NEW c, IsList(moves), NEW steps, IsLast(moves, c, steps)
  PROVE  /\ IsList(steps) /\ Len(steps) = Len(moves) + 1
         /\ steps[Len(moves) + 1] = c
         /\ \A n \in 1..Len(moves) : steps[n] = moves[n]
<1>1. PICK S : moves \in Seq(S)
  BY DEF IsList
<1>2. PICK T : T = S \cup {c}
  OBVIOUS
<1>3. moves \in Seq(T) /\ <<c>> \in Seq(T)
  BY <1>1, <1>2
<1>4. /\ steps \in Seq(T) /\ Len(steps) = Len(moves) + 1 /\ steps[Len(moves) + 1] = c
      /\ \A n \in 1..Len(moves) : steps[n] = moves[n]
  BY <1>3 DEF IsLast
<1> QED BY <1>4 DEF IsList

\* The transitions that lead to a selected proof.
LEMMA FreezeKeeps ==
  ASSUME RunInv, Typed, Freeze
  PROVE  RunInv' /\ session' \in Sessions
<1>1. PICK plan : plan = [inventory |-> app.inventory, strategy |-> app.strategy]
  OBVIOUS
<1>2. PICK s : s = [app EXCEPT !.plan = plan]
  OBVIOUS
<1>3. PICK at : at = StageNumber(journal.stage)
  OBVIOUS
<1>4. PICK moves : moves = [n \in 1..5 - at |-> [Move(Stages[at + n], s) EXCEPT !.state = app]]
  OBVIOUS
<1>5. PICK q : q = Queue(s)
  OBVIOUS
<1>6. PICK c : c = Commit("queue", q, s)
  OBVIOUS
<1>7. PICK steps : steps = moves \o <<c>>
  OBVIOUS
<1>8. /\ Handle(steps, session, session) /\ at <= 5 /\ store' = store
      /\ app.inventory # None /\ app.strategy # None /\ app.plan = None
  BY <1>1, <1>2, <1>3, <1>4, <1>5, <1>6, <1>7 DEF Freeze, Perform
<1>9. up
  BY <1>8 DEF Handle
<1>10. /\ app \in States /\ journal = disk.journal /\ session \in Sessions
       /\ Sound(disk) /\ Ahead(disk, app) /\ Coherent(app)
       /\ Reach(disk.journal) = at /\ at \in 1..5
  <2>1. Reach(journal) = at
    BY <1>3 DEF Reach
  <2> QED BY <1>8, <1>9, <2>1, AtWork
<1>11. /\ app.inventory \in Inventories /\ app.strategy \in Strategies
       /\ plan \in Plans /\ ~app.processed /\ ~app.confirmed
  <2>1. app.inventory \in Inventories /\ app.strategy \in Strategies
    BY <1>8, <1>10 DEF States
  <2>2. plan \in Plans
    BY <1>1, <2>1 DEF Plans
  <2> QED BY <1>8, <1>10, <2>1, <2>2 DEF Coherent
<1>12. /\ s \in States /\ s.inventory = app.inventory /\ s.strategy = app.strategy
       /\ s.plan = plan /\ s.reviewed = app.reviewed
       /\ s.processed = app.processed /\ s.reviews = app.reviews /\ s.route = app.route
       /\ s.destination = app.destination /\ s.outbox = app.outbox
       /\ s.approval = app.approval /\ s.resume = app.resume /\ s.delivery = app.delivery
       /\ s.cancelled = app.cancelled /\ s.founder = app.founder
       /\ s.recovery = app.recovery /\ s.confirmed = app.confirmed
  BY <1>2, <1>10, <1>11 DEF States
<1>13. Coherent(s)
  BY <1>10, <1>11, <1>12 DEF Coherent
<1>14. SameBut(app, s, {"queue"})
  BY <1>10, <1>11, <1>12, SameWhen
<1>15. PICK len : len = 5 - at
  OBVIOUS
<1>16. /\ len \in Nat /\ at + len = 5
       /\ IsList(moves) /\ Len(moves) = len
       /\ \A n \in 1..len :
            /\ moves[n].do = "move" /\ moves[n].to = Stages[at + n]
            /\ moves[n].plan = plan /\ moves[n].state = app
  <2>1. len \in Nat /\ at + len = 5
    BY <1>10, <1>15
  <2>2. moves = [n \in 1..len |-> [Move(Stages[at + n], s) EXCEPT !.state = app]]
    BY <1>4, <1>15
  <2>3. PICK T : T = {moves[n] : n \in 1..len}
    OBVIOUS
  <2>4. moves \in [1..len -> T]
    BY <2>2, <2>3
  <2>5. moves \in Seq(T) /\ Len(moves) = len
    BY <2>1, <2>4
  <2>6. ASSUME NEW n \in 1..len
        PROVE  /\ moves[n].do = "move" /\ moves[n].to = Stages[at + n]
               /\ moves[n].plan = plan /\ moves[n].state = app
    <3>1. moves[n] = [Move(Stages[at + n], s) EXCEPT !.state = app]
      BY <2>2
    <3> QED BY <1>12, <3>1 DEF Move
  <2> QED BY <2>1, <2>5, <2>6 DEF IsList
<1>17. /\ IsList(steps) /\ Len(steps) = len + 1 /\ steps[len + 1] = c
       /\ \A n \in 1..len : steps[n] = moves[n]
  <2>1. IsLast(moves, c, steps)
    BY <1>7 DEF IsLast
  <2>2. IsList(moves) /\ Len(moves) = len
    BY <1>16
  <2>3. /\ IsList(steps) /\ Len(steps) = Len(moves) + 1
        /\ steps[Len(moves) + 1] = c
    BY <2>1, <2>2, LastList
  <2>4. \A n \in 1..Len(moves) : steps[n] = moves[n]
    BY <2>1, <2>2, LastList
  <2> QED BY <2>2, <2>3, <2>4
<1>18. PICK f : f = Done(disk, steps)
  OBVIOUS
<1>19. f[0] = disk /\ \A n \in 1..len + 1 : f[n] = Whole(f[n - 1], steps[n])
  <2>1. Len(steps) \in Nat
    BY <1>16, <1>17
  <2> QED BY <1>17, <1>18, <2>1, DoneNext
<1>20. ASSUME NEW d, NEW n \in 1..len, Sound(d), Ahead(d, app)
       PROVE  Good(d, moves[n])
  <2>1. at + n \in 2..8 /\ at + n <= 5
    BY <1>10, <1>16
  <2>2. StageNumber(moves[n].to) = at + n
    BY <1>16, <2>1, StageNumbers
  <2> QED BY <1>11, <1>16, <1>20, <2>1, <2>2 DEF Good, Fits
<1> DEFINE Adm(n) == \A m \in 1..n : Admits(f[m - 1], steps[m])
           Led(n) == /\ Sound(f[n]) /\ Ahead(f[n], app) /\ Reach(f[n].journal) = at + n
                     /\ f[n].journal.refs = disk.journal.refs
                     /\ f[n].journal.latest = disk.journal.latest
           Bad == {n \in Nat : n <= len /\ Adm(n) /\ ~Led(n)}
<1>21. Bad = {}
  <2>1. SUFFICES ASSUME Bad # {} PROVE FALSE
    OBVIOUS
  <2>2. Bad \subseteq Nat
    OBVIOUS
  <2>3. \E k \in Bad : \A m \in Bad : ~(<<m, k>> \in OpToRel(<, Nat))
    BY <2>1, <2>2, NatLessThanWellFounded, WFMin
  <2>4. PICK k \in Bad : \A m \in Bad : ~(m < k)
    BY <2>2, <2>3 DEF OpToRel
  <2>5. k \in Nat /\ k <= len /\ Adm(k) /\ ~Led(k)
    BY <2>4
  <2>6. CASE k = 0
    <3>1. Led(0)
      BY <1>10, <1>19
    <3> QED BY <2>5, <2>6, <3>1
  <2>7. CASE k # 0
    <3>1. /\ k \in 1..len /\ k \in 1..len + 1 /\ k - 1 \in Nat /\ k - 1 <= len
          /\ k - 1 < k /\ (k - 1) + 1 = k
      BY <1>16, <2>5, <2>7
    <3>2. Adm(k - 1)
      <4>1. 1..k - 1 \subseteq 1..k
        BY <3>1
      <4> QED BY <2>5, <4>1
    <3>3. Led(k - 1)
      <4>1. k - 1 \notin Bad
        <5> HIDE DEF Bad
        <5> QED BY <2>4, <3>1
      <4> QED BY <3>1, <3>2, <4>1
    <3>4. Admits(f[k - 1], moves[k]) /\ f[k] = Whole(f[k - 1], moves[k])
      <4>1. k \in 1..k
        BY <3>1
      <4> QED BY <1>17, <1>19, <2>5, <3>1, <4>1
    <3>5. PICK d : d = f[k - 1]
      OBVIOUS
    <3>6. /\ Sound(d) /\ Ahead(d, app) /\ Reach(d.journal) = at + (k - 1)
          /\ d.journal.refs = disk.journal.refs
          /\ d.journal.latest = disk.journal.latest
          /\ Admits(d, moves[k]) /\ f[k] = Whole(d, moves[k])
      BY <3>3, <3>4, <3>5
    <3>7. Good(d, moves[k]) /\ moves[k].do = "move" /\ moves[k].state = app
      BY <1>16, <1>20, <3>1, <3>6
    <3> HIDE DEF Adm, Led, Bad
    <3>8. Sound(f[k]) /\ Ahead(f[k], app)
      BY <3>6, <3>7, WholeKeeps
    <3>9. /\ Reach(f[k].journal) = Reach(d.journal) + 1
          /\ f[k].journal.refs = d.journal.refs
          /\ f[k].journal.latest = d.journal.latest
      BY <3>6, <3>7, MoveDone
    <3>10. Reach(f[k].journal) = at + k
      BY <1>10, <3>1, <3>6, <3>9
    <3>11. Led(k)
      BY <3>6, <3>8, <3>9, <3>10 DEF Led
    <3> QED BY <2>5, <3>11
  <2> QED BY <2>6, <2>7
<1>22. ASSUME NEW n \in 0..len, Adm(n) PROVE Led(n)
  <2>1. n \in Nat /\ n <= len /\ n \notin Bad
    BY <1>16, <1>21
  <2> QED BY <1>22, <2>1
<1>23. ASSUME NEW d, Sound(d), Ahead(d, app), Reach(d.journal) = 5,
              d.journal.latest = disk.journal.latest,
              d.journal.refs = disk.journal.refs
       PROVE  Ahead(d, s) /\ (~cut => Closing(d, s, "queue", q, session.flight))
  <2>1. Bound(d, s)
    BY <1>23 DEF Bound
  <2>2. d.journal.latest # None /\ d.journal.latest.plan # None => FALSE
    BY <1>8, <1>10, <1>23 DEF Ahead
  <2>3. Ahead(d, s)
    BY <1>13, <2>1, <2>2 DEF Ahead
  <2>4. ASSUME ~cut PROVE Closing(d, s, "queue", q, session.flight)
    <3>1. Faithful(disk, app) /\ app.route = None /\ session.flight = None
      BY <1>9, <1>10, <2>4, AtWork DEF Faithful
    <3>2. Partly(d, app, {}) /\ {} \subseteq {"queue"}
      BY <1>23, <3>1, PartlyAgrees, PartlyMoved DEF Faithful
    <3>3. Partly(d, s, {"queue"})
      BY <1>14, <3>2, PartlySame
    <3>4. CurrentAuthority(s)["queue"] = q
      BY <1>5, AuthorityOfState
    <3>5. s.founder # None => d.journal.refs["founder_review"] = s.founder
      BY <1>12, <1>23, <3>1 DEF Faithful
    <3> QED BY <1>12, <3>1, <3>3, <3>4, <3>5 DEF Closing
  <2> QED BY <2>3, <2>4
<1>24. Adm(len) => Good(f[len], c)
  <2>1. SUFFICES ASSUME Adm(len) PROVE Good(f[len], c)
    OBVIOUS
  <2>2. Led(len)
    BY <1>16, <1>22, <2>1
  <2>3. PICK d : d = f[len]
    OBVIOUS
  <2>4. /\ Sound(d) /\ Ahead(d, app) /\ Reach(d.journal) = 5
        /\ d.journal.latest = disk.journal.latest
        /\ d.journal.refs = disk.journal.refs
    BY <1>16, <2>2, <2>3
  <2>5. Ahead(d, s)
    BY <1>23, <2>4
  <2>6. c.state = s
    BY <1>6 DEF Commit
  <2> QED BY <1>6, <2>3, <2>4, <2>5, <2>6 DEF Good, Fits
<1>25. Safe(disk, steps)
  <2>1. SUFFICES ASSUME NEW n \in DOMAIN steps,
                        \A m \in 1..n - 1 : Admits(f[m - 1], steps[m])
                 PROVE  Good(f[n - 1], steps[n])
    BY <1>18 DEF Safe
  <2>2. n \in 1..len + 1 /\ n - 1 \in 0..len
    BY <1>16, <1>17, Lists
  <2>3. Adm(n - 1)
    BY <2>1
  <2>4. CASE n = len + 1
    <3>1. n - 1 = len
      BY <1>16, <2>4
    <3> QED BY <1>17, <1>24, <2>3, <2>4, <3>1
  <2>5. CASE n # len + 1
    <3>1. n \in 1..len
      BY <1>16, <2>2, <2>5
    <3>2. Led(n - 1)
      BY <1>22, <2>2, <2>3
    <3> QED BY <1>17, <1>20, <3>1, <3>2
  <2> QED BY <2>4, <2>5
<1>26. ASSUME ~cut, Admitted(disk, steps)
       PROVE  /\ End(disk, steps).file = s /\ End(disk, steps).journal.latest = s
              /\ Faithful(End(disk, steps), s)
              /\ session.flight # None =>
                   /\ Reach(End(disk, steps).journal) >= 7
                   /\ s.approval = session.flight.approval
  <2>1. Adm(len)
    <3>1. DOMAIN steps = 1..len + 1
      BY <1>17, Lists
    <3>2. 1..len \subseteq 1..len + 1
      BY <1>16
    <3> QED BY <1>18, <1>26, <3>1, <3>2 DEF Admitted
  <2>2. Led(len)
    BY <1>16, <1>22, <2>1
  <2>3. PICK d : d = f[len]
    OBVIOUS
  <2>4. /\ Sound(d) /\ Ahead(d, app) /\ Reach(d.journal) = 5
        /\ d.journal.latest = disk.journal.latest
        /\ d.journal.refs = disk.journal.refs
    BY <1>16, <2>2, <2>3
  <2>5. Ahead(d, s) /\ Closing(d, s, "queue", q, session.flight)
    BY <1>23, <1>26, <2>4
  <2>6. PICK e : e = Whole(d, Commit("queue", q, s))
    OBVIOUS
  <2>7. /\ e.file = s /\ e.journal.latest = s /\ Faithful(e, s)
        /\ session.flight # None => /\ Reach(e.journal) >= 7
                                    /\ s.approval = session.flight.approval
    BY <1>26, <2>4, <2>5, <2>6, CommitEnds
  <2>8. End(disk, steps) = e
    <3>1. len + 1 \in 1..len + 1 /\ (len + 1) - 1 = len
      BY <1>16
    <3> QED BY <1>6, <1>17, <1>18, <1>19, <2>3, <2>6, <3>1 DEF End
  <2> QED BY <2>7, <2>8
<1>27. Len(steps) # 0 /\ steps[Len(steps)].state = s
  <2>1. c.state = s
    BY <1>6 DEF Commit
  <2> QED BY <1>16, <1>17, <2>1
<1>28. Leads(disk, steps, session.flight)
  <2> HIDE DEF Adm, Led, Bad
  <2> QED BY <1>17, <1>25, <1>26, <1>27 DEF Leads
<1> QED BY <1>8, <1>9, <1>28, AtWork, HandleKeeps

\* confirm_experimental_drain: the transition, the confirmation and the readiness.
LEMMA ConfirmDrainKeeps ==
  ASSUME RunInv, Typed, ConfirmDrain
  PROVE  RunInv' /\ session' \in Sessions
<1>1. PICK s : s = [app EXCEPT !.confirmed = TRUE]
  OBVIOUS
<1>2. PICK move : move = IF journal.stage = "drain_confirmed" THEN <<>>
                         ELSE <<Move("drain_confirmed", app)>>
  OBVIOUS
<1>3. PICK q : q = Queue(s)
  OBVIOUS
<1>4. PICK c : c = Commit("drain_confirmation", q, s)
  OBVIOUS
<1>5. PICK r : r = Refer("readiness", "ready", s)
  OBVIOUS
<1>6. PICK tail : tail = <<c, r>>
  OBVIOUS
<1>7. /\ Handle(move \o tail, session, session) /\ ReadyToConfirm(app, journal)
      /\ store' = store
  BY <1>1, <1>2, <1>3, <1>4, <1>5, <1>6 DEF ConfirmDrain, Perform
<1>8. up /\ app.plan # None
  BY <1>7 DEF Handle, ReadyToConfirm, ProofReady
<1>9. /\ app \in States /\ journal = disk.journal /\ session \in Sessions
      /\ Sound(disk) /\ Ahead(disk, app) /\ Coherent(app) /\ IsJournal(journal)
      /\ Reach(disk.journal) \in 1..8
  BY <1>8, AtWork
<1>10. /\ s \in States /\ s.inventory = app.inventory /\ s.strategy = app.strategy
       /\ s.plan = app.plan /\ s.reviewed = app.reviewed
       /\ s.processed = app.processed /\ s.reviews = app.reviews /\ s.route = app.route
       /\ s.destination = app.destination /\ s.outbox = app.outbox
       /\ s.approval = app.approval /\ s.resume = app.resume /\ s.delivery = app.delivery
       /\ s.cancelled = app.cancelled /\ s.founder = app.founder
       /\ s.recovery = app.recovery /\ s.confirmed = TRUE
  BY <1>1, <1>9 DEF States
<1>11. Coherent(s)
  BY <1>8, <1>9, <1>10 DEF Coherent
<1>12. SameBut(app, s, {"drain_confirmation"})
  <2>1. Queue(s) = Queue(app)
    BY <1>10 DEF Queue
  <2> QED BY <1>9, <1>10, <2>1, SameWhen
<1>13. CurrentAuthority(s)["drain_confirmation"] = q
  BY <1>3, <1>10, AuthorityOfState
<1>14. ~cut => /\ Faithful(disk, app) /\ Partly(disk, app, {})
               /\ session.flight # None =>
                    Reach(disk.journal) >= 7 /\ app.approval = session.flight.approval
  BY <1>8, <1>9, AtWork, PartlyAgrees DEF Faithful
<1>15. ASSUME NEW d, Sound(d), Ahead(d, app), d.journal.refs = disk.journal.refs,
              Reach(d.journal) >= Reach(disk.journal)
       PROVE  Leads(d, tail, session.flight)
  <2>1. Reach(d.journal) \in 1..8
    BY <1>15, StageNames DEF Sound, IsDisk
  <2>2. Ahead(d, s)
    BY <1>10, <1>11, <1>15, StaysAhead
  <2>3. PICK w : w = Whole(d, Commit("drain_confirmation", q, s))
    OBVIOUS
  <2>4. /\ Good(d, Commit("drain_confirmation", q, s)) /\ Sound(w) /\ Ahead(w, s)
        /\ w.file = s /\ w.journal.latest = s /\ Reach(w.journal) = Reach(d.journal)
        /\ \A y \in Domains :
             w.journal.refs[y] = IF y = "drain_confirmation" THEN q ELSE d.journal.refs[y]
    BY <1>15, <2>2, <2>3, Committed
  <2>5. ~cut => Partly(w, s, {"readiness"})
    <3>1. SUFFICES ASSUME ~cut PROVE Partly(w, s, {"readiness"})
      OBVIOUS
    <3>2. Partly(d, app, {}) /\ {} \subseteq {"drain_confirmation"}
      BY <1>14, <1>15, <3>1, PartlyMoved
    <3>3. PICK X : X = {"drain_confirmation"}
      OBVIOUS
    <3>4. Partly(d, s, X)
      BY <1>12, <3>2, <3>3, PartlySame
    <3>5. Partly(w, s, {})
      BY <1>13, <2>4, <3>3, <3>4, PartlySettled
    <3> QED BY <3>5 DEF Partly
  <2>6. ~cut => /\ s.route # None => Reach(w.journal) >= 7
                /\ s.founder # None => w.journal.refs["founder_review"] = s.founder
                /\ session.flight # None => /\ Reach(w.journal) >= 7
                                            /\ s.approval = session.flight.approval
    <3>1. "founder_review" \in Domains
      BY DEF Domains
    <3> QED BY <1>9, <1>10, <1>14, <1>15, <2>1, <2>4, <3>1 DEF Faithful
  <2>7. "readiness" \notin Domains
    BY DEF Domains
  <2>8. ~cut => Closing(w, s, "readiness", "ready", session.flight)
    BY <2>5, <2>6, <2>7 DEF Closing
  <2>9. Leads(w, <<Refer("readiness", "ready", s)>>, session.flight)
    BY <2>4, <2>8, LastReference
  <2>10. PICK last : last = <<r>>
    OBVIOUS
  <2>11. IsFirst(c, last, tail) /\ IsList(last) /\ Len(last) # 0
    BY <1>5, <1>6, <2>9, <2>10, TwoSteps DEF IsFirst, Leads
  <2> QED BY <1>4, <1>5, <2>3, <2>4, <2>9, <2>10, <2>11, NextStep
<1>16. Leads(disk, tail, session.flight)
  BY <1>9, <1>15
<1>17. IsList(tail) /\ Len(tail) # 0
  BY <1>16 DEF Leads
<1>18. CASE move = << >>
  <2>1. << >> \o tail = tail
    BY <1>17, ConcatEmptySeq DEF IsList
  <2> QED BY <1>7, <1>8, <1>16, <1>18, <2>1, AtWork, HandleKeeps
<1>19. CASE move = <<Move("drain_confirmed", app)>>
  <2>1. PICK m : m = Move("drain_confirmed", app)
    OBVIOUS
  <2>2. PICK steps : steps = <<m>> \o tail
    OBVIOUS
  <2>3. m.do = "move" /\ m.state = app /\ m.plan = app.plan /\ m.to = "drain_confirmed"
    BY <2>1 DEF Move
  <2>4. Good(disk, m)
    <3>1. StageNumber(m.to) = 8 /\ m.to = Stages[8] /\ 8 \in 2..8
      BY <2>3, NumbersOfStages DEF Stages
    <3>2. m.plan \in {None} \cup Plans
      BY <1>9, <2>3 DEF States
    <3> QED BY <1>9, <2>3, <3>1, <3>2 DEF Good, Fits
  <2>5. PICK w : w = Whole(disk, m)
    OBVIOUS
  <2>6. ASSUME Admits(disk, m) PROVE Leads(w, tail, session.flight)
    <3>1. Sound(w) /\ Ahead(w, app)
      BY <2>3, <2>4, <2>5, <2>6, WholeKeeps
    <3>2. w.journal.refs = disk.journal.refs /\ Reach(w.journal) = Reach(disk.journal) + 1
      BY <2>3, <2>4, <2>5, <2>6, MoveDone
    <3> QED BY <1>9, <1>15, <3>1, <3>2
  <2>7. IsFirst(m, tail, steps)
    BY <2>2 DEF IsFirst
  <2>8. Leads(disk, steps, session.flight)
    BY <1>17, <2>4, <2>5, <2>6, <2>7, NextStep
  <2> QED BY <1>7, <1>8, <1>19, <2>1, <2>2, <2>8, AtWork, HandleKeeps
<1> QED BY <1>2, <1>18, <1>19

-----------------------------------------------------------------------------
(* The start of the process.                                               *)

\* New: the restored state, an interrupted completion and the pre-live authorization.
LEMMA StartKeeps ==
  ASSUME RunInv, Typed, Start
  PROVE  RunInv' /\ session' \in Sessions
<1>1. PICK s : s = Loaded
  OBVIOUS
<1>2. PICK d : d = Restored
  OBVIOUS
<1>3. PICK steps : steps = StartSteps(s)
  OBVIOUS
<1>4. /\ up = FALSE /\ StartAccepted /\ store' = store
      /\ \/ Finishes(d, steps, NewSession)
         \/ ProcessEnds /\ \E n \in DOMAIN steps : IsRefused(d, steps, n)
         \/ Crashes(d, steps)
  BY <1>1, <1>2, <1>3 DEF Start, Typed
<1>5. /\ Sound(disk) /\ IsDisk(disk) /\ journal = disk.journal /\ IsJournal(journal)
      /\ store.open => store.runs < MaxRuns
      /\ cut \in BOOLEAN
  BY DEF RunInv, Sound, IsDisk, journal, Typed
<1>6. Sound(d) /\ d.journal = disk.journal /\ d.artifacts = disk.artifacts
      /\ d.file = (IF journal.latest # None THEN journal.latest ELSE None)
  <2>1. CASE journal.latest = None
    <3>1. disk.file = None /\ ~Restores
      BY <1>5, <2>1 DEF Sound, Restores
    <3> QED BY <1>2, <1>5, <2>1, <3>1 DEF Restored
  <2>2. CASE journal.latest # None /\ disk.file = journal.latest
    BY <1>2, <1>5, <2>2 DEF Restored, Restores
  <2>3. CASE journal.latest # None /\ disk.file # journal.latest
    <3>1. d = [disk EXCEPT !.file = journal.latest]
      BY <1>2, <2>3 DEF Restored, Restores
    <3>2. d = [journal |-> disk.journal, artifacts |-> disk.artifacts,
               file |-> journal.latest]
      BY <1>5, <3>1 DEF IsDisk
    <3>3. IsDisk(d)
      BY <1>5, <3>2 DEF IsDisk
    <3>4. Sound(d)
      BY <1>5, <2>3, <3>2, <3>3 DEF Sound, Bound
    <3> QED BY <2>3, <3>2, <3>4
  <2> QED BY <2>1, <2>2, <2>3
<1>7. EmptyState \in States
  BY DEF EmptyState, States
<1>8. s = (IF journal.latest = None THEN EmptyState ELSE journal.latest)
  BY <1>1, <1>2, <1>6 DEF Loaded
<1>9. Coherent(EmptyState) /\ EmptyState.plan = None /\ EmptyState.route = None
      /\ EmptyState.founder = None
  BY <1>7 DEF Coherent, EmptyState
<1>10. Ahead(d, s)
  <2>1. CASE journal.latest = None
    <3>1. ~(Reach(d.journal) >= 7)
      BY <1>5, <1>6, <2>1 DEF Sound
    <3> QED BY <1>5, <1>6, <1>8, <1>9, <2>1, <3>1 DEF Ahead, Bound
  <2>2. CASE journal.latest # None
    BY <1>5, <1>6, <1>8, <2>2 DEF Sound, Ahead
  <2> QED BY <2>1, <2>2
<1>11. ~cut => /\ Agrees(s, d.journal)
               /\ s.route # None => Reach(d.journal) >= 7
               /\ s.founder # None => d.journal.refs["founder_review"] = s.founder
  <2>1. Agrees(s, journal)
    BY <1>1, <1>4 DEF StartAccepted
  <2>2. CASE journal.latest = None
    BY <1>5, <1>6, <1>8, <1>9, <2>1, <2>2
  <2>3. CASE journal.latest # None
    BY <1>5, <1>6, <1>8, <2>1, <2>3 DEF RunInv, Faithful
  <2> QED BY <2>2, <2>3
<1>12. PICK c : c = Commit("pre_live_authorization", "receipt", s)
  OBVIOUS
<1>13. "pre_live_authorization" \notin Domains /\ "founder_review" \in Domains
  BY DEF Domains
<1>14. ASSUME NEW w, Sound(w), Ahead(w, s), w.journal.refs = d.journal.refs,
              Reach(w.journal) >= Reach(d.journal)
       PROVE  Leads(w, <<c>>, None)
  <2>1. Reach(w.journal) \in 1..8 /\ Reach(d.journal) \in 1..8
    BY <1>6, <1>14, StageNames DEF Sound, IsDisk
  <2>2. ~cut => Closing(w, s, "pre_live_authorization", "receipt", None)
    <3>1. ASSUME ~cut
          PROVE  Partly(w, s, {"pre_live_authorization"})
      BY <1>11, <1>14, <3>1 DEF Partly, Agrees
    <3> QED BY <1>11, <1>13, <1>14, <2>1, <3>1 DEF Closing
  <2>3. Leads(w, <<Commit("pre_live_authorization", "receipt", s)>>, None)
    BY <1>14, <2>2, LastCommit
  <2> QED BY <1>12, <2>3
<1>15. Leads(d, <<c>>, None)
  <2>1. Reach(d.journal) \in 1..8
    BY <1>6, StageNames DEF Sound, IsDisk
  <2> QED BY <1>6, <1>10, <1>14, <2>1
<1>16. Leads(d, steps, None)
  <2>1. CASE ~(journal.stage = "proof_processing" /\ s.plan # None /\ Reviewed(s))
    <3>1. steps = << >> \o <<c>>
      BY <1>3, <1>12, <2>1 DEF StartSteps
    <3>2. << >> \o <<c>> = <<c>>
      OBVIOUS
    <3> QED BY <1>15, <3>1, <3>2
  <2>2. CASE journal.stage = "proof_processing" /\ s.plan # None /\ Reviewed(s)
    <3>1. PICK m : m = Move("proof_complete", s)
      OBVIOUS
    <3>2. PICK tail : tail = <<c>>
      OBVIOUS
    <3>3. IsFirst(m, tail, steps)
      BY <1>3, <1>12, <2>2, <3>1, <3>2 DEF StartSteps, IsFirst
    <3>4. d.journal.latest = s
      BY <1>6, <1>5, <1>8, <1>9, <2>2
    <3>5. m.do = "move" /\ m.state = s /\ Good(d, m)
      BY <1>6, <1>10, <2>2, <3>1, <3>4, Completes
    <3>6. PICK w : w = Whole(d, m)
      OBVIOUS
    <3>7. ASSUME Admits(d, m) PROVE Leads(w, tail, None)
      <4>1. Sound(w) /\ Ahead(w, s)
        BY <3>5, <3>6, <3>7, WholeKeeps
      <4>2. w.journal.refs = d.journal.refs /\ Reach(w.journal) = Reach(d.journal) + 1
        BY <3>5, <3>6, <3>7, MoveDone
      <4>3. Reach(d.journal) \in 1..8
        BY <1>6, StageNames DEF Sound, IsDisk
      <4> QED BY <1>14, <3>2, <4>1, <4>2, <4>3
    <3>8. IsList(tail) /\ Len(tail) # 0
      BY <1>15, <3>2 DEF Leads
    <3> QED BY <3>3, <3>5, <3>6, <3>7, <3>8, NextStep
  <2> QED BY <2>1, <2>2
<1>17. CASE Finishes(d, steps, NewSession)
  BY <1>4, <1>5, <1>6, <1>10, <1>16, <1>17, NoFlight, FinishKeeps
<1>18. IsList(steps) /\ Safe(d, steps)
  BY <1>16 DEF Leads
<1>19. CASE ProcessEnds /\ \E n \in DOMAIN steps : IsRefused(d, steps, n)
  <2>1. PICK n \in DOMAIN steps : IsRefused(d, steps, n)
    BY <1>19
  <2>2. n \in Reached(d, steps) /\ disk' = Done(d, steps)[n - 1] /\ cut' = TRUE
    BY <2>1 DEF IsRefused
  <2>3. Good(Done(d, steps)[n - 1], steps[n])
    BY <1>6, <1>10, <1>18, <2>2, EndsSound
  <2>4. Sound(disk')
    BY <2>2, <2>3 DEF Good
  <2> QED BY <1>4, <1>5, <1>19, <2>2, <2>4, CrashKeeps
<1>20. CASE Crashes(d, steps)
  <2>1. Sound(disk') /\ cut' = TRUE /\ ProcessEnds
    BY <1>6, <1>10, <1>18, <1>20, CrashesSound
  <2> QED BY <1>4, <1>5, <2>1, CrashKeeps
<1> QED BY <1>4, <1>17, <1>19, <1>20

-----------------------------------------------------------------------------
(* What leaves the disk and the state as they are.                         *)

\* Of a session that changes, the delivery may end but not turn into another.
LEMMA IdleKeeps ==
  ASSUME RunInv, disk' = disk, up' = up, app' = app, cut' = TRUE \/ cut' = cut,
         session'.flight # None =>
           /\ session.flight # None
           /\ session'.flight.approval = session.flight.approval
           /\ session'.flight.opened /\ session'.flight.receipt = None => store'.open,
         store'.open => store'.runs < MaxRuns
  PROVE  RunInv'
  BY DEF RunInv, journal

\* The delivery of a session with other fields is the delivery it had.
LEMMA SameFlight ==
  ASSUME RunInv, Typed, disk' = disk, up' = up, app' = app, cut' = TRUE \/ cut' = cut,
         store' = store, session' \in Sessions, session'.flight = session.flight
  PROVE  RunInv' /\ session' \in Sessions /\ store' \in Stores
<1>1. session.flight # None /\ session.flight.opened /\ session.flight.receipt = None
        => store.open
  BY DEF RunInv
<1>2. store.open => store.runs < MaxRuns
  BY DEF RunInv
<1>3. RunInv'
  BY <1>1, <1>2, IdleKeeps
<1> QED BY <1>3 DEF Typed

\* The previews and connections that come and go with the session.
LEMMA SessionKeeps ==
  ASSUME RunInv, Typed,
         \/ LoseLease \/ StartPreview \/ DropPreview \/ Disconnect \/ StartConnect
         \/ FinishConnect /\ ~(session.flight = None /\ session.connecting.current)
  PROVE  RunInv' /\ session' \in Sessions /\ store' \in Stores
<1>1. /\ disk' = disk /\ up' = up /\ app' = app /\ store' = store
      /\ cut' = TRUE \/ cut' = cut
  <2>1. CASE LoseLease
    BY <2>1 DEF LoseLease
  <2>2. CASE StartPreview \/ DropPreview \/ Disconnect \/ StartConnect
    BY <2>2 DEF StartPreview, DropPreview, Disconnect, StartConnect
  <2>3. CASE FinishConnect /\ ~(session.flight = None /\ session.connecting.current)
    <3>1. /\ UNCHANGED <<disk, leftover, up, app, lost, faults>> /\ store' = store
          /\ cut' = (cut \/ session.connecting.receipt # None)
      BY <2>3 DEF FinishConnect
    <3>2. cut \in BOOLEAN
      BY DEF Typed
    <3> QED BY <3>1, <3>2
  <2> QED BY <2>1, <2>2, <2>3
<1>2. session \in Sessions
  BY DEF Typed
<1>3. session' \in Sessions /\ session'.flight = session.flight
  <2>1. CASE LoseLease
    BY <1>2, <2>1 DEF LoseLease
  <2>2. CASE StartPreview
    <3>1. session' = [session EXCEPT !.previewing = [route |-> app.route, current |-> TRUE]]
          /\ up
      BY <2>2 DEF StartPreview
    <3>2. app.route \in {None} \cup Routes
      BY <3>1, AtWork DEF States
    <3> QED BY <1>2, <3>1, <3>2 DEF Sessions
  <2>3. CASE DropPreview
    BY <1>2, <2>3 DEF DropPreview, Sessions
  <2>4. CASE Disconnect
    <3>1. PICK p : p = IF session.previewing = None THEN None
                       ELSE [session.previewing EXCEPT !.current = FALSE]
      OBVIOUS
    <3>2. PICK c : c = IF session.connecting = None THEN None
                       ELSE [session.connecting EXCEPT !.current = FALSE]
      OBVIOUS
    <3>3. p \in {None} \cup [route : {None} \cup Routes, current : BOOLEAN]
      BY <1>2, <3>1 DEF Sessions
    <3>4. c \in {None} \cup [current : BOOLEAN, verified : BOOLEAN,
                             clear : BOOLEAN, receipt : {None} \cup Receipts]
      BY <1>2, <3>2 DEF Sessions
    <3>5. Outdated(session) = [session EXCEPT !.previewing = p, !.connecting = c]
      BY <3>1, <3>2 DEF Outdated
    <3>6. session' = [session EXCEPT !.previewing = p, !.connecting = c,
                                     !.connected = FALSE]
      BY <1>2, <2>4, <3>5 DEF Disconnect, Sessions
    <3> QED BY <1>2, <3>3, <3>4, <3>6 DEF Sessions
  <2>5. CASE StartConnect
    <3>1. session' = [session EXCEPT !.connecting =
                        [current |-> TRUE, verified |-> FALSE, clear |-> FALSE,
                         receipt |-> None]]
      BY <2>5 DEF StartConnect, Connecting
    <3> QED BY <1>2, <3>1 DEF Sessions
  <2>6. CASE FinishConnect /\ ~(session.flight = None /\ session.connecting.current)
    <3>1. session' = [session EXCEPT !.connecting = None]
      BY <2>6 DEF FinishConnect, Connecting
    <3> QED BY <1>2, <3>1 DEF Sessions
  <2> QED BY <2>1, <2>2, <2>3, <2>4, <2>5, <2>6
<1> QED BY <1>1, <1>3, SameFlight

\* Close, or the end of the process.
LEMMA ExitKeeps ==
  ASSUME RunInv, Typed, Exit
  PROVE  RunInv' /\ session' \in Sessions /\ store' \in Stores
<1>1. /\ disk' = disk /\ up' = FALSE /\ app' = EmptyState /\ session' = NewSession
      /\ store' = store
      /\ cut' = (cut \/ session.flight # None \/ session.connecting # None)
  BY DEF Exit, ProcessEnds
<1>2. cut \in BOOLEAN /\ store' \in Stores
  BY <1>1 DEF Typed
<1>3. ~cut' => ~cut
  BY <1>1, <1>2
<1>4. RunInv'
  BY <1>1, <1>3, NoFlight DEF RunInv, journal
<1> QED BY <1>1, <1>2, <1>4, NoFlight

-----------------------------------------------------------------------------
(* The approved delivery store as the app sees it.                         *)

\* A receipt that is sealed is one of the receipts.
LEMMA SealedReceipt ==
  ASSUME NEW s \in Stores, s.runs < MaxRuns, NEW status \in {"completed", "partial"},
         NEW t, t = SealedBy(s, status)
  PROVE  t \in Stores /\ ~t.open /\ t.receipt \in Receipts
<1>1. PICK r : r = [approval |-> s.approval, run |-> s.runs + 1, status |-> status]
  OBVIOUS
<1>2. s.runs + 1 \in 0..MaxRuns /\ s.runs + 1 \in 1..MaxApprovals + MaxRuns
  BY BoundsAssumption DEF Stores
<1>3. r \in Receipts
  BY <1>1, <1>2 DEF Stores, Receipts
<1>4. t = [s EXCEPT !.open = FALSE, !.runs = @ + 1, !.receipt = r]
  BY <1>1 DEF SealedBy
<1> QED BY <1>2, <1>3, <1>4 DEF Stores

\* A store that is opened is a store.
LEMMA OpenedStore ==
  ASSUME store \in Stores, NEW a \in 1..MaxApprovals, Opens(a), NEW t, t = Opened(a)
  PROVE  t \in Stores /\ t.open = TRUE /\ t.runs < MaxRuns
<1>1. store.open \in BOOLEAN /\ store.runs \in 0..MaxRuns /\ MaxRuns \in Nat
  BY BoundsAssumption DEF Stores
<1>2. PICK n : n = IF store.open THEN store.runs + 1 ELSE store.runs
  OBVIOUS
<1>3. n \in 0..MaxRuns /\ n < MaxRuns
  BY <1>1, <1>2 DEF Opens
<1>4. PICK b : b = (store.cancelled # None /\ ~IsCompleted(store.receipt))
  OBVIOUS
<1>5. b \in BOOLEAN
  BY <1>4
<1>6. t = [store EXCEPT !.approval = a, !.open = TRUE, !.runs = n, !.barred = b]
  BY <1>2, <1>4 DEF Opened
<1> QED BY <1>3, <1>5, <1>6 DEF Stores

\* The delivery under way opens its run, seals it or fails.
LEMMA FlightKeeps ==
  ASSUME RunInv, Typed,
         \/ FlightOpens \/ FlightFails
         \/ \E status \in {"completed", "partial"} : FlightSeals(status)
  PROVE  RunInv' /\ session' \in Sessions /\ store' \in Stores
<1>1. session \in Sessions /\ store \in Stores /\ session.flight # None
  BY DEF Typed, FlightOpens, FlightFails, FlightSeals
<1>2. PICK f : f = session.flight
  OBVIOUS
<1>3. f \in [approval : 1..MaxApprovals, opened : BOOLEAN,
             receipt : {None} \cup Receipts]
  BY <1>1, <1>2 DEF Sessions
<1>4. /\ f.opened /\ f.receipt = None => store.open
      /\ store.open => store.runs < MaxRuns
  BY <1>1, <1>2 DEF RunInv
<1>5. CASE FlightOpens
  <2>1. /\ store' = Opened(f.approval) /\ Opens(f.approval)
        /\ session' = [session EXCEPT !.flight.opened = TRUE]
        /\ disk' = disk /\ up' = up /\ app' = app /\ cut' = cut
    BY <1>2, <1>5 DEF FlightOpens
  <2>2. store' \in Stores /\ store'.open = TRUE /\ store'.runs < MaxRuns
    BY <1>1, <1>3, <2>1, OpenedStore
  <2>3. session' \in Sessions /\ session'.flight.approval = f.approval
    <3>1. PICK g : g = [f EXCEPT !.opened = TRUE]
      OBVIOUS
    <3>2. g \in [approval : 1..MaxApprovals, opened : BOOLEAN,
                 receipt : {None} \cup Receipts] /\ g.approval = f.approval
      BY <1>3, <3>1
    <3>3. session' = [session EXCEPT !.flight = g]
      BY <1>2, <2>1, <3>1
    <3> QED BY <1>1, <3>2, <3>3 DEF Sessions
  <2> QED BY <1>1, <1>2, <2>1, <2>2, <2>3, IdleKeeps
<1>6. CASE \E status \in {"completed", "partial"} : FlightSeals(status)
  <2>1. PICK status \in {"completed", "partial"} : FlightSeals(status)
    BY <1>6
  <2>2. /\ f.opened /\ f.receipt = None /\ store' = SealedBy(store, status)
        /\ session' = [session EXCEPT !.flight.receipt = store'.receipt]
        /\ disk' = disk /\ up' = up /\ app' = app /\ cut' = cut
    BY <1>2, <2>1 DEF FlightSeals
  <2>3. store' \in Stores /\ ~store'.open /\ store'.receipt \in Receipts
    BY <1>1, <1>4, <2>2, SealedReceipt
  <2>4. session' \in Sessions /\ session'.flight.approval = f.approval
        /\ session'.flight.receipt = store'.receipt
    <3>1. PICK g : g = [f EXCEPT !.receipt = store'.receipt]
      OBVIOUS
    <3>2. g \in [approval : 1..MaxApprovals, opened : BOOLEAN,
                 receipt : {None} \cup Receipts] /\ g.approval = f.approval
          /\ g.receipt = store'.receipt
      BY <1>3, <2>3, <3>1
    <3>3. session' = [session EXCEPT !.flight = g]
      BY <1>2, <2>2, <3>1
    <3> QED BY <1>1, <3>2, <3>3 DEF Sessions
  <2>5. store'.receipt # None
    BY <2>3, AbsenceAssumption
  <2> QED BY <1>1, <1>2, <2>2, <2>3, <2>4, <2>5, IdleKeeps
<1>7. CASE FlightFails
  <2>1. /\ session' = [session EXCEPT !.flight = None]
        /\ store' = store \/ store' = [store EXCEPT !.approval = f.approval]
        /\ disk' = disk /\ up' = up /\ app' = app /\ cut' = (cut \/ f.opened)
    BY <1>2, <1>7 DEF FlightFails
  <2>2. session' \in Sessions /\ session'.flight = None
    BY <1>1, <2>1 DEF Sessions
  <2>3. store' \in Stores /\ store'.open = store.open /\ store'.runs = store.runs
    BY <1>1, <1>3, <2>1 DEF Stores
  <2>4. cut' = TRUE \/ cut' = cut
    BY <1>3, <2>1 DEF Typed
  <2> QED BY <1>4, <2>1, <2>2, <2>3, <2>4, IdleKeeps
<1> QED BY <1>5, <1>6, <1>7

\* A connection reads the authority of the approval back.
LEMMA ReconcileKeeps ==
  ASSUME RunInv, Typed, NEW status \in {"completed", "partial"}, Reconcile(status)
  PROVE  RunInv' /\ session' \in Sessions /\ store' \in Stores
<1>1. /\ session \in Sessions /\ store \in Stores /\ cut \in BOOLEAN
      /\ store.open => store.runs < MaxRuns
  BY DEF Typed, RunInv
<1>2. disk' = disk /\ up' = up /\ app' = app
  BY DEF Reconcile
<1>3. PICK c : c = session.connecting
  OBVIOUS
<1>4. c \in [current : BOOLEAN, verified : BOOLEAN,
             clear : BOOLEAN, receipt : {None} \cup Receipts]
  BY <1>1, <1>3 DEF Reconcile, Sessions
<1>5. ASSUME NEW k \in {None} \cup [current : BOOLEAN, verified : BOOLEAN,
                                    clear : BOOLEAN, receipt : {None} \cup Receipts],
             session' = [session EXCEPT !.connecting = k]
      PROVE  session' \in Sessions /\ session'.flight = session.flight
  BY <1>1, <1>5 DEF Sessions
<1>6. ASSUME NEW clear \in BOOLEAN, NEW r \in {None} \cup Receipts,
             session' = [session EXCEPT !.connecting =
                           [c EXCEPT !.verified = TRUE, !.clear = clear, !.receipt = r]]
      PROVE  session' \in Sessions /\ session'.flight = session.flight
  <2>1. PICK k : k = [c EXCEPT !.verified = TRUE, !.clear = clear, !.receipt = r]
    OBVIOUS
  <2>2. k \in {None} \cup [current : BOOLEAN, verified : BOOLEAN,
                           clear : BOOLEAN, receipt : {None} \cup Receipts]
    BY <1>4, <1>6, <2>1
  <2> QED BY <1>5, <1>6, <2>1, <2>2
<1>7. CASE /\ store' = store /\ cut' = cut
           /\ \E clear \in BOOLEAN :
                session' = [session EXCEPT !.connecting =
                              [c EXCEPT !.verified = TRUE, !.clear = clear, !.receipt = None]]
  <2>1. session' \in Sessions /\ session'.flight = session.flight
    BY <1>6, <1>7
  <2> QED BY <1>2, <1>7, <2>1, SameFlight
<1>8. CASE store' = store /\ cut' = cut /\ session' = [session EXCEPT !.connecting = None]
  <2>1. session' \in Sessions /\ session'.flight = session.flight
    BY <1>5, <1>8
  <2> QED BY <1>2, <1>8, <2>1, SameFlight
<1>9. CASE /\ app.approval # None /\ ~DeliveryRuns /\ Opens(app.approval)
           /\ store' = SealedBy(Opened(app.approval), status)
           /\ \/ /\ session' = [session EXCEPT !.connecting =
                                  [c EXCEPT !.verified = TRUE, !.clear = FALSE,
                                            !.receipt = store'.receipt]]
                 /\ cut' = cut
              \/ session' = [session EXCEPT !.connecting = None] /\ cut' = TRUE
  <2>1. PICK t : t = Opened(app.approval)
    OBVIOUS
  <2>2. app.approval \in 1..MaxApprovals
    <3>1. app \in States
      <4>1. CASE up
        BY <4>1, AtWork
      <4>2. CASE ~up
        BY <1>9, <4>2 DEF RunInv, EmptyState
      <4> QED BY <4>1, <4>2
    <3> QED BY <1>9, <3>1 DEF States
  <2>3. t \in Stores /\ t.runs < MaxRuns
    BY <1>1, <1>9, <2>1, <2>2, OpenedStore
  <2>4. store' \in Stores /\ ~store'.open /\ store'.receipt \in Receipts
    BY <1>9, <2>1, <2>3, SealedReceipt
  <2>5. session' \in Sessions /\ session'.flight = session.flight
    <3>1. FALSE \in BOOLEAN
      OBVIOUS
    <3>2. CASE session' = [session EXCEPT !.connecting = None]
      BY <1>5, <3>2
    <3>3. CASE session' = [session EXCEPT !.connecting =
                             [c EXCEPT !.verified = TRUE, !.clear = FALSE,
                                       !.receipt = store'.receipt]]
      BY <1>6, <2>4, <3>1, <3>3
    <3> QED BY <1>9, <3>2, <3>3
  <2>6. ~(session.flight # None /\ session.flight.opened /\ session.flight.receipt = None)
    BY <1>9 DEF DeliveryRuns
  <2>7. cut' = TRUE \/ cut' = cut
    BY <1>9
  <2>8. RunInv'
    BY <1>2, <2>4, <2>5, <2>6, <2>7, IdleKeeps
  <2> QED BY <2>4, <2>5, <2>8
<1> QED
  <2>1. \/ /\ store' = store /\ cut' = cut
           /\ session' = [session EXCEPT !.connecting =
                [session.connecting EXCEPT !.verified = TRUE, !.clear = FALSE,
                                           !.receipt = None]]
        \/ /\ store' = store /\ cut' = cut
           /\ session' = [session EXCEPT !.connecting =
                [session.connecting EXCEPT !.verified = TRUE, !.clear = TRUE,
                                           !.receipt = None]]
        \/ /\ app.approval # None /\ ~DeliveryRuns /\ Opens(app.approval)
           /\ store' = SealedBy(Opened(app.approval), status)
           /\ \/ /\ session' = [session EXCEPT !.connecting =
                       [session.connecting EXCEPT !.verified = TRUE, !.clear = FALSE,
                                                  !.receipt = store'.receipt]]
                 /\ cut' = cut
              \/ session' = [session EXCEPT !.connecting = None] /\ cut' = TRUE
        \/ store' = store /\ cut' = cut /\ session' = [session EXCEPT !.connecting = None]
    BY DEF Reconcile, Connecting
  <2>2. TRUE \in BOOLEAN /\ FALSE \in BOOLEAN
    OBVIOUS
  <2> QED BY <1>3, <1>7, <1>8, <1>9, <2>1, <2>2

-----------------------------------------------------------------------------
(* The types.                                                              *)

\* However a handler ends, the flags and the count of faults keep their types.
LEMMA HandleTypes ==
  ASSUME Typed, NEW steps, NEW begun, NEW after, Handle(steps, begun, after)
  PROVE  {leftover', up', lost', cut'} \subseteq BOOLEAN /\ faults' \in 0..MaxFaults
<1>1. /\ {leftover, up, lost, cut} \subseteq BOOLEAN /\ faults \in 0..MaxFaults
      /\ MaxFaults \in Nat
  BY BoundsAssumption DEF Typed
<1>2. CASE Finishes(disk, steps, after)
  BY <1>1, <1>2 DEF Finishes
<1>3. ASSUME NEW n, NEW k, NEW leaves \in BOOLEAN, IsCut(disk, steps, n, k, leaves)
      PROVE  leftover' \in BOOLEAN /\ cut' \in BOOLEAN /\ faults' \in 0..MaxFaults
  <2>1. leftover' = (leftover \/ leaves) /\ cut' = TRUE /\ faults' = faults + 1
        /\ faults < MaxFaults
    BY <1>3 DEF IsCut
  <2> QED BY <1>1, <2>1
<1>4. CASE \E n \in DOMAIN steps :
             /\ Fails(n, steps)
             /\ \/ IsRefused(disk, steps, n)
                \/ \E k \in 0..Len(WriteOrder(steps[n])) : IsCut(disk, steps, n, k, FALSE)
  <2>1. up' = up /\ lost' = lost
    BY <1>4 DEF Fails
  <2>2. leftover' \in BOOLEAN /\ cut' \in BOOLEAN /\ faults' \in 0..MaxFaults
    <3>1. CASE \E n \in DOMAIN steps : IsRefused(disk, steps, n)
      BY <1>1, <3>1 DEF IsRefused
    <3>2. CASE \E n \in DOMAIN steps : \E k \in 0..Len(WriteOrder(steps[n])) :
                 IsCut(disk, steps, n, k, FALSE)
      <4>1. FALSE \in BOOLEAN
        OBVIOUS
      <4> QED BY <1>3, <3>2, <4>1
    <3> QED BY <1>4, <3>1, <3>2
  <2> QED BY <1>1, <2>1, <2>2
<1>5. CASE Crashes(disk, steps)
  <2>1. up' = FALSE /\ lost' = FALSE
    BY <1>5 DEF Crashes, ProcessEnds
  <2>2. leftover' \in BOOLEAN /\ cut' \in BOOLEAN /\ faults' \in 0..MaxFaults
    BY <1>3, <1>5 DEF Crashes
  <2> QED BY <2>1, <2>2
<1> QED BY <1>2, <1>4, <1>5 DEF Handle

\* So they do at a start.
LEMMA StartTypes ==
  ASSUME Typed, Start
  PROVE  {leftover', up', lost', cut'} \subseteq BOOLEAN /\ faults' \in 0..MaxFaults
<1>1. /\ {leftover, up, lost, cut} \subseteq BOOLEAN /\ faults \in 0..MaxFaults
      /\ MaxFaults \in Nat
  BY BoundsAssumption DEF Typed
<1>2. PICK steps : /\ steps = StartSteps(Loaded)
                   /\ \/ Finishes(Restored, steps, NewSession)
                      \/ /\ ProcessEnds
                         /\ \E n \in DOMAIN steps : IsRefused(Restored, steps, n)
                      \/ Crashes(Restored, steps)
  BY DEF Start
<1>3. CASE Finishes(Restored, steps, NewSession)
  BY <1>1, <1>3 DEF Finishes
<1>4. CASE ProcessEnds /\ \E n \in DOMAIN steps : IsRefused(Restored, steps, n)
  BY <1>1, <1>4 DEF ProcessEnds, IsRefused
<1>5. CASE Crashes(Restored, steps)
  <2>1. up' = FALSE /\ lost' = FALSE
    BY <1>5 DEF Crashes, ProcessEnds
  <2>2. PICK n, k : \E leaves \in BOOLEAN : IsCut(Restored, steps, n, k, leaves)
    BY <1>5 DEF Crashes
  <2>3. PICK leaves \in BOOLEAN : IsCut(Restored, steps, n, k, leaves)
    BY <2>2
  <2>4. leftover' = (leftover \/ leaves) /\ cut' = TRUE /\ faults' = faults + 1
        /\ faults < MaxFaults
    BY <2>3 DEF IsCut
  <2>5. leftover' \in BOOLEAN /\ cut' \in BOOLEAN /\ faults' \in 0..MaxFaults
    BY <1>1, <2>4
  <2> QED BY <2>1, <2>5
<1> QED BY <1>2, <1>3, <1>4, <1>5

\* With the session, the store and the counters, that is every type.
LEMMA HandledTypes ==
  ASSUME Typed, \E steps, begun, after : Handle(steps, begun, after),
         session' \in Sessions, store' \in Stores,
         approvals' \in 0..MaxApprovals, proofs' \in 0..MaxProofs
  PROVE  Typed'
<1>1. PICK steps, begun, after : Handle(steps, begun, after)
  OBVIOUS
<1>2. {leftover', up', lost', cut'} \subseteq BOOLEAN /\ faults' \in 0..MaxFaults
  BY <1>1, HandleTypes
<1> QED BY <1>2 DEF Typed

\* The handlers up to the proof.
LEMMA PrepareKeeps ==
  ASSUME RunInv, Typed, Prepare
  PROVE  RunInv' /\ Typed'
<1>1. /\ store \in Stores /\ approvals \in 0..MaxApprovals /\ proofs \in 0..MaxProofs
  BY DEF Typed
<1>2. CASE \E i \in Inventories : Import(i)
  <2>1. PICK i \in Inventories : Import(i)
    BY <1>2
  <2>2. RunInv' /\ session' \in Sessions
    BY <2>1, ImportKeeps
  <2>3. /\ store' = store /\ approvals' = approvals /\ proofs' = proofs
        /\ \E steps, begun, after : Handle(steps, begun, after)
    BY <2>1 DEF Import, Perform, bounds
  <2> QED BY <1>1, <2>2, <2>3, HandledTypes
<1>3. CASE \E t \in Strategies : SaveStrategy(t)
  <2>1. PICK t \in Strategies : SaveStrategy(t)
    BY <1>3
  <2>2. RunInv' /\ session' \in Sessions
    BY <2>1, SaveStrategyKeeps
  <2>3. /\ store' = store /\ approvals' = approvals /\ proofs' = proofs
        /\ \E steps, begun, after : Handle(steps, begun, after)
    BY <2>1 DEF SaveStrategy, Perform, bounds
  <2> QED BY <1>1, <2>2, <2>3, HandledTypes
<1>4. CASE Freeze
  <2>1. RunInv' /\ session' \in Sessions
    BY <1>4, FreezeKeeps
  <2>2. /\ store' = store /\ approvals' = approvals /\ proofs' = proofs
        /\ \E steps, begun, after : Handle(steps, begun, after)
    BY <1>4 DEF Freeze, Perform, bounds
  <2> QED BY <1>1, <2>1, <2>2, HandledTypes
<1>5. CASE StartProof
  <2>1. RunInv' /\ session' \in Sessions
    BY <1>5, StartProofKeeps
  <2>2. /\ store' = store /\ approvals' = approvals /\ proofs' = proofs
        /\ \E steps, begun, after : Handle(steps, begun, after)
    BY <1>5 DEF StartProof, Perform, bounds
  <2> QED BY <1>1, <2>1, <2>2, HandledTypes
<1>6. CASE \E item \in Items : \E route \in Routes : ReviewItem(item, route)
  <2>1. PICK item \in Items : \E route \in Routes : ReviewItem(item, route)
    BY <1>6
  <2>2. PICK route \in Routes : ReviewItem(item, route)
    BY <2>1
  <2>3. RunInv' /\ session' \in Sessions
    BY <2>2, ReviewItemKeeps
  <2>4. /\ store' = store /\ approvals' = approvals /\ proofs' = proofs
        /\ \E steps, begun, after : Handle(steps, begun, after)
    BY <2>2 DEF ReviewItem, Perform, bounds
  <2> QED BY <1>1, <2>3, <2>4, HandledTypes
<1> QED BY <1>2, <1>3, <1>4, <1>5, <1>6 DEF Prepare

\* The answers of Product Brain and what the session alone is about.
LEMMA QuietKeeps ==
  ASSUME RunInv, Typed,
         \/ LoseLease \/ StartPreview \/ DropPreview \/ Disconnect \/ StartConnect
         \/ FinishConnect /\ ~(session.flight = None /\ session.connecting.current)
         \/ Exit \/ FlightOpens \/ FlightFails
         \/ \E status \in {"completed", "partial"} : FlightSeals(status)
         \/ \E status \in {"completed", "partial"} : Reconcile(status)
  PROVE  RunInv' /\ Typed'
<1>1. RunInv' /\ session' \in Sessions /\ store' \in Stores
  BY SessionKeeps, ExitKeeps, FlightKeeps, ReconcileKeeps
<1>2. /\ {leftover, up, lost, cut} \subseteq BOOLEAN
      /\ faults \in 0..MaxFaults /\ MaxFaults \in Nat
      /\ session \in Sessions /\ approvals \in 0..MaxApprovals /\ proofs \in 0..MaxProofs
  BY BoundsAssumption DEF Typed
<1>3. approvals' = approvals /\ proofs' = proofs /\ leftover' = leftover
  BY DEF LoseLease, StartPreview, DropPreview, Disconnect, StartConnect, FinishConnect,
         Exit, FlightOpens, FlightFails, FlightSeals, Reconcile, bounds
<1>4. {up', lost', cut'} \subseteq BOOLEAN /\ faults' \in 0..MaxFaults
  <2>1. CASE LoseLease
    BY <1>2, <2>1 DEF LoseLease
  <2>2. CASE StartPreview \/ DropPreview \/ Disconnect \/ StartConnect
    BY <1>2, <2>2 DEF StartPreview, DropPreview, Disconnect, StartConnect
  <2>3. CASE FinishConnect /\ ~(session.flight = None /\ session.connecting.current)
    <3>1. /\ UNCHANGED <<disk, leftover, up, app, lost, faults>>
          /\ cut' = (cut \/ session.connecting.receipt # None)
      BY <2>3 DEF FinishConnect
    <3> QED BY <1>2, <3>1
  <2>4. CASE Exit
    BY <1>2, <2>4 DEF Exit, ProcessEnds
  <2>5. CASE FlightOpens
    BY <1>2, <2>5 DEF FlightOpens
  <2>6. CASE FlightFails
    <3>1. /\ up' = up /\ lost' = lost /\ faults' = faults
          /\ cut' = (cut \/ session.flight.opened) /\ session.flight # None
      BY <2>6 DEF FlightFails
    <3>2. session.flight.opened \in BOOLEAN
      BY <1>2, <3>1 DEF Sessions
    <3> QED BY <1>2, <3>1, <3>2
  <2>7. CASE \E status \in {"completed", "partial"} : FlightSeals(status)
    BY <1>2, <2>7 DEF FlightSeals
  <2>8. CASE \E status \in {"completed", "partial"} : Reconcile(status)
    <3>1. up' = up /\ lost' = lost /\ faults' = faults
      BY <2>8 DEF Reconcile
    <3>2. cut' = cut \/ cut' = TRUE
      BY <2>8 DEF Reconcile
    <3> QED BY <1>2, <3>1, <3>2
  <2> QED BY <2>1, <2>2, <2>3, <2>4, <2>5, <2>6, <2>7, <2>8
<1> QED BY <1>1, <1>2, <1>3, <1>4 DEF Typed

\* The handlers of the delivery.
LEMMA DeliverKeeps ==
  ASSUME RunInv, Typed,
         \/ FinishPreview \/ Approve \/ ResumeDelivery \/ LinkReceipt \/ CancelDelivery
         \/ FinishConnect /\ session.flight = None /\ session.connecting.current
         \/ FounderReview \/ ConfirmDrain
  PROVE  RunInv' /\ Typed'
<1>1. RunInv' /\ session' \in Sessions
  BY FinishPreviewKeeps, ApproveKeeps, ResumeDeliveryKeeps, LinkReceiptKeeps,
     CancelDeliveryKeeps, FinishConnectKeeps, FounderReviewKeeps, ConfirmDrainKeeps
<1>2. /\ approvals \in 0..MaxApprovals /\ proofs \in 0..MaxProofs /\ store \in Stores
      /\ MaxApprovals \in Nat /\ MaxProofs \in Nat
  BY BoundsAssumption DEF Typed
<1>3. \E steps, begun, after : Handle(steps, begun, after)
  <2>1. CASE FinishPreview
    BY <2>1 DEF FinishPreview
  <2>2. CASE Approve
    BY <2>2 DEF Approve
  <2>3. CASE ResumeDelivery
    BY <2>3 DEF ResumeDelivery
  <2>4. CASE LinkReceipt
    BY <2>4 DEF LinkReceipt
  <2>5. CASE CancelDelivery
    BY <2>5 DEF CancelDelivery, Perform
  <2>6. CASE FinishConnect /\ session.flight = None /\ session.connecting.current
    BY <2>6 DEF FinishConnect
  <2>7. CASE FounderReview
    BY <2>7 DEF FounderReview, Perform
  <2>8. CASE ConfirmDrain
    BY <2>8 DEF ConfirmDrain, Perform
  <2> QED BY <2>1, <2>2, <2>3, <2>4, <2>5, <2>6, <2>7, <2>8
<1>4. approvals' \in 0..MaxApprovals /\ proofs' \in 0..MaxProofs
  <2>1. CASE Approve
    BY <1>2, <2>1 DEF Approve
  <2>2. CASE FounderReview
    BY <1>2, <2>2 DEF FounderReview
  <2>3. CASE ~Approve /\ ~FounderReview
    <3>1. approvals' = approvals /\ proofs' = proofs
      BY <2>3 DEF FinishPreview, ResumeDelivery, LinkReceipt, CancelDelivery,
                  FinishConnect, ConfirmDrain, bounds
    <3> QED BY <1>2, <3>1
  <2> QED BY <2>1, <2>2, <2>3
<1>5. store' \in Stores
  <2>1. CASE CancelDelivery
    <3>1. store' = [store EXCEPT !.cancelled = app.approval] /\ up /\ app.approval # None
      BY <2>1 DEF CancelDelivery
    <3>2. app.approval \in 1..MaxApprovals
      BY <3>1, AtWork DEF States
    <3> QED BY <1>2, <3>1, <3>2 DEF Stores
  <2>2. CASE ~CancelDelivery
    <3>1. store' = store
      BY <2>2 DEF FinishPreview, Approve, ResumeDelivery, LinkReceipt,
                  FinishConnect, FounderReview, ConfirmDrain
    <3> QED BY <1>2, <3>1
  <2> QED BY <2>1, <2>2
<1> QED BY <1>1, <1>3, <1>4, <1>5, HandledTypes

\* Every step keeps the invariant.
LEMMA RunStep ==
  ASSUME RunInv, Typed, [RunNext]_runVars
  PROVE  RunInv' /\ Typed'
<1>1. CASE UNCHANGED runVars
  BY <1>1 DEF runVars, RunInv, Typed, journal, Sound, Ahead, Faithful
<1>2. CASE Start
  <2>1. RunInv' /\ session' \in Sessions
    BY <1>2, StartKeeps
  <2>2. {leftover', up', lost', cut'} \subseteq BOOLEAN /\ faults' \in 0..MaxFaults
    BY <1>2, StartTypes
  <2>3. store' = store /\ approvals' = approvals /\ proofs' = proofs
    BY <1>2 DEF Start, bounds
  <2> QED BY <2>1, <2>2, <2>3 DEF Typed
<1>3. CASE Prepare
  BY <1>3, PrepareKeeps
<1>4. CASE \/ LoseLease \/ StartPreview \/ DropPreview \/ Disconnect \/ StartConnect
           \/ FinishConnect /\ ~(session.flight = None /\ session.connecting.current)
           \/ Exit \/ FlightOpens \/ FlightFails
           \/ \E status \in {"completed", "partial"} : FlightSeals(status)
           \/ \E status \in {"completed", "partial"} : Reconcile(status)
  BY <1>4, QuietKeeps
<1>5. CASE \/ FinishPreview \/ Approve \/ ResumeDelivery \/ LinkReceipt \/ CancelDelivery
           \/ FinishConnect /\ session.flight = None /\ session.connecting.current
           \/ FounderReview \/ ConfirmDrain
  BY <1>5, DeliverKeeps
<1> QED BY <1>1, <1>2, <1>3, <1>4, <1>5 DEF RunNext, Deliver, Connect

\* A fresh directory has it.
LEMMA RunStarts == RunInit => RunInv /\ Typed
<1>1. SUFFICES ASSUME RunInit PROVE RunInv /\ Typed
  OBVIOUS
<1>2. /\ disk = EmptyDisk /\ up = FALSE /\ app = EmptyState /\ session = NewSession
      /\ store = EmptyStore /\ approvals = 0 /\ proofs = 0 /\ faults = 0
      /\ leftover = FALSE /\ lost = FALSE /\ cut = FALSE
  BY <1>1 DEF RunInit
<1>3. IsJournal(EmptyJournal) /\ Reach(EmptyJournal) = 1 /\ EmptyJournal.latest = None
  <2>1. 1 \in DOMAIN Stages /\ Stages[1] = "none" /\ StageNumber(Stages[1]) = 1
    BY StageNumbers DEF Stages
  <2>2. PICK refs : refs = [x \in Domains |-> None]
    OBVIOUS
  <2>3. EmptyJournal = [stage |-> "none", plan |-> None, refs |-> refs, latest |-> None]
    BY <2>2 DEF EmptyJournal
  <2> QED BY <2>1, <2>2, <2>3 DEF IsJournal, Reach
<1>4. Sound(disk)
  BY <1>2, <1>3 DEF EmptyDisk, Sound, IsDisk
<1>5. store \in Stores /\ ~store.open
  BY <1>2, BoundsAssumption DEF EmptyStore, Stores
<1>6. session \in Sessions /\ session.flight = None
  BY <1>2, NoFlight
<1>7. /\ disk.journal.latest = None /\ up = FALSE /\ cut = FALSE /\ store.open = FALSE
      /\ app = EmptyState /\ session.flight = None
  BY <1>2, <1>3, <1>6 DEF EmptyDisk, EmptyStore
<1>8. RunInv
  <2>1. /\ Sound(disk)
        /\ up => Ahead(disk, app)
        /\ ~up => app = EmptyState /\ session.flight = None
    BY <1>4, <1>7
  <2>2. /\ ~cut /\ up => /\ app = disk.file /\ app = journal.latest /\ Faithful(disk, app)
        /\ ~cut /\ journal.latest # None => Faithful(disk, journal.latest)
    BY <1>7 DEF journal
  <2>3. /\ ~cut /\ session.flight # None =>
             /\ Reach(journal) >= 7 /\ app.approval = session.flight.approval
        /\ session.flight # None /\ session.flight.opened /\ session.flight.receipt = None
             => store.open
        /\ store.open => store.runs < MaxRuns
    BY <1>7
  <2> QED BY <2>1, <2>2, <2>3 DEF RunInv
<1>9. approvals \in 0..MaxApprovals /\ proofs \in 0..MaxProofs /\ faults \in 0..MaxFaults
  BY <1>2, BoundsAssumption
<1>10. {leftover, up, lost, cut} \subseteq BOOLEAN
  BY <1>2
<1> QED BY <1>5, <1>6, <1>8, <1>9, <1>10 DEF Typed

\* So it holds throughout.
LEMMA RunInvariant == RunSpec => [](RunInv /\ Typed)
<1>1. RunInit => RunInv /\ Typed
  BY RunStarts
<1>2. (RunInv /\ Typed) /\ [RunNext]_runVars => (RunInv /\ Typed)'
  BY RunStep
<1> QED BY <1>1, <1>2, PTL DEF RunSpec

-----------------------------------------------------------------------------
(* The theorems.                                                           *)

\* The state of an app that does not run.
LEMMA EmptyIsAState == EmptyState \in States /\ EmptyState.outbox = None
<1>1. EmptyState \in States
  BY DEF EmptyState, States
<1>2. EmptyState.outbox = None
  BY DEF EmptyState
<1> QED BY <1>1, <1>2

\* Every variable has its type, in particular every state of the app that was ever
\* written to the state file, to an artifact or into memory (persistedState of
\* internal/activationapp).
THEOREM RunTypesHold == RunSpec => []RunTypeOK
<1>1. RunInv /\ Typed => RunTypeOK
  <2>1. SUFFICES ASSUME RunInv, Typed PROVE RunTypeOK
    OBVIOUS
  <2>2. Sound(disk) /\ IsDisk(disk) /\ IsJournal(journal) /\ journal = disk.journal
    BY <2>1 DEF RunInv, Sound, IsDisk, journal
  <2>3. app \in States
    <3>1. up \in BOOLEAN
      BY <2>1 DEF Typed
    <3>2. CASE up
      BY <2>1, <3>2, AtWork
    <3>3. CASE ~up
      BY <2>1, <3>3, EmptyIsAState DEF RunInv
    <3> QED BY <3>1, <3>2, <3>3
  <2>4. /\ disk.file \in {None} \cup States /\ journal.latest \in {None} \cup States
        /\ disk.artifacts \subseteq States
    BY <2>2 DEF Sound, IsDisk, Coherent
  <2>5. /\ \E n \in DOMAIN Stages : journal.stage = Stages[n]
        /\ journal.plan \in {None} \cup Plans /\ DOMAIN journal.refs = Domains
    BY <2>2 DEF IsJournal
  <2> QED BY <2>1, <2>3, <2>4, <2>5 DEF RunTypeOK, Typed
<1> QED BY <1>1, RunInvariant, PTL

\* The state in memory, the state file, the artifact and the reference of the journal
\* never drift apart for good: whatever the journal refers to can be restored wherever
\* commitAuthorityLocked, a transition or the process was cut short, and after handlers
\* that ran to their end all of them are the same and agree.
THEOREM StatesAreDurable == RunSpec => []StateIsDurable
<1>1. RunInv /\ Typed => StateIsDurable
  <2>1. SUFFICES ASSUME RunInv, Typed PROVE StateIsDurable
    OBVIOUS
  <2>2. ProjectionIsKept
    BY <2>1 DEF RunInv, Sound, ProjectionIsKept, journal
  <2>3. MemoryIsDurable
    BY <2>1 DEF RunInv, MemoryIsDurable
  <2>4. ReferencesAgree
    BY <2>1 DEF RunInv, Faithful, ReferencesAgree, journal
  <2> QED BY <2>2, <2>3, <2>4 DEF StateIsDurable
<1> QED BY <1>1, RunInvariant, PTL

\* A proof that the journal completes is a reviewed one and of the plan it was frozen
\* with, and from the start of the proof on no durable state has another plan, across cut
\* freezes, saves of the strategy and restarts (HandleCommand, completeProofReviewsLocked,
\* reconcileRunProjection).
THEOREM ProofsAreOfTheirPlan == RunSpec => []ProofIsOfItsPlan
<1>1. RunInv /\ Typed => ProofIsOfItsPlan
  <2>1. SUFFICES ASSUME RunInv, Typed PROVE ProofIsOfItsPlan
    OBVIOUS
  <2>2. Sound(disk) /\ IsJournal(journal) /\ journal = disk.journal
    BY <2>1 DEF RunInv, Sound, IsDisk, journal
  <2>3. /\ Reach(journal) \in 1..8
        /\ journal.stage \in Completed <=> Reach(journal) >= 7
    BY <2>2, StageNames
  <2>4. CompletedProofIsReviewed
    BY <2>2, <2>3 DEF Sound, Bound, CompletedProofIsReviewed
  <2>5. ProofKeepsItsPlan
    BY <2>2, <2>3, NumbersOfStages DEF Sound, Bound, ProofKeepsItsPlan, Reach
  <2> QED BY <2>4, <2>5 DEF ProofIsOfItsPlan
<1> QED BY <1>1, RunInvariant, PTL

\* An answer that comes back late changes nothing it was not asked for: while Product
\* Brain is written to, memory and journal name the approval the delivery acts on
\* (deliveryInFlight), and the outbox in memory is compiled from the route in memory
\* (PreviewBatch looks at the route again when the preflight is back).
THEOREM LateAnswersAreCurrent == RunSpec => []AnswersAreCurrent
<1>1. RunInv /\ Typed => AnswersAreCurrent
  <2>1. SUFFICES ASSUME RunInv, Typed PROVE AnswersAreCurrent
    OBVIOUS
  <2>2. FlightIsApproved
    BY <2>1 DEF RunInv, FlightIsApproved
  <2>3. OutboxIsOfTheRoute
    <3>1. CASE up
      BY <2>1, <3>1, AtWork DEF Coherent, OutboxIsOfTheRoute
    <3>2. CASE ~up
      BY <2>1, <3>2, EmptyIsAState DEF RunInv, OutboxIsOfTheRoute
    <3> QED BY <3>1, <3>2
  <2> QED BY <2>2, <2>3 DEF AnswersAreCurrent
<1> QED BY <1>1, RunInvariant, PTL

\* Lists of steps without a transition to the confirmed drain.
Confirms(step) == step.do = "move" /\ step.to = "drain_confirmed"
Quiet(steps) == IsList(steps) /\ \A n \in DOMAIN steps : ~Confirms(steps[n])

\* Short lists of such steps.
LEMMA QuietLists ==
  /\ Quiet(<< >>)
  /\ \A a : ~Confirms(a) => Quiet(<<a>>)
  /\ \A a, b : ~Confirms(a) /\ ~Confirms(b) => Quiet(<<a, b>>)
  /\ \A a, b, c : ~Confirms(a) /\ ~Confirms(b) /\ ~Confirms(c) => Quiet(<<a, b, c>>)
<1>1. Quiet(<< >>)
  BY NoSteps DEF Quiet
<1>2. ASSUME NEW a, ~Confirms(a) PROVE Quiet(<<a>>)
  <2>1. PICK steps : steps = <<a>>
    OBVIOUS
  <2>2. DOMAIN steps = 1..1 /\ steps[1] = a
    BY <2>1
  <2>3. \A n \in 1..1 : steps[n] \in {a}
    BY <2>2
  <2>4. IsList(steps)
    BY <2>1, ShortLists
  <2>5. \A n \in DOMAIN steps : ~Confirms(steps[n])
    BY <1>2, <2>2, <2>3
  <2> QED BY <2>1, <2>4, <2>5 DEF Quiet
<1>3. ASSUME NEW a, NEW b, ~Confirms(a), ~Confirms(b) PROVE Quiet(<<a, b>>)
  <2>1. PICK steps : steps = <<a, b>>
    OBVIOUS
  <2>2. DOMAIN steps = 1..2 /\ steps[1] = a /\ steps[2] = b
    BY <2>1
  <2>3. \A n \in 1..2 : steps[n] \in {a, b}
    BY <2>2
  <2>4. IsList(steps)
    BY <2>1, ShortLists
  <2>5. \A n \in DOMAIN steps : ~Confirms(steps[n])
    BY <1>3, <2>2, <2>3
  <2> QED BY <2>1, <2>4, <2>5 DEF Quiet
<1>4. ASSUME NEW a, NEW b, NEW c, ~Confirms(a), ~Confirms(b), ~Confirms(c)
      PROVE  Quiet(<<a, b, c>>)
  <2>1. PICK steps : steps = <<a, b, c>>
    OBVIOUS
  <2>2. DOMAIN steps = 1..3 /\ steps[1] = a /\ steps[2] = b /\ steps[3] = c
    BY <2>1
  <2>3. \A n \in 1..3 : steps[n] \in {a, b, c}
    BY <2>2
  <2>4. IsList(steps)
    BY <2>1, ShortLists
  <2>5. \A n \in DOMAIN steps : ~Confirms(steps[n])
    BY <1>4, <2>2, <2>3
  <2> QED BY <2>1, <2>4, <2>5 DEF Quiet
<1> QED BY <1>1, <1>2, <1>3, <1>4

\* Two such lists, one after the other.
LEMMA QuietBoth ==
  ASSUME NEW first, Quiet(first), NEW rest, Quiet(rest)
  PROVE  Quiet(first \o rest)
<1>1. PICK S : first \in Seq(S)
  BY DEF Quiet, IsList
<1>2. PICK T : rest \in Seq(T)
  BY DEF Quiet, IsList
<1>3. PICK U : U = S \cup T
  OBVIOUS
<1>4. first \in Seq(U) /\ rest \in Seq(U)
  BY <1>1, <1>2, <1>3
<1>5. PICK both : both = first \o rest
  OBVIOUS
<1>6. both \in Seq(U) /\ Len(both) = Len(first) + Len(rest)
  BY <1>4, <1>5
<1>7. ASSUME NEW n \in DOMAIN both PROVE ~Confirms(both[n])
  <2>1. n \in 1..Len(both) /\ Len(first) \in Nat /\ Len(rest) \in Nat
    BY <1>4, <1>6
  <2>2. CASE n <= Len(first)
    <3>1. n \in DOMAIN first /\ both[n] = first[n]
      BY <1>4, <1>5, <2>1, <2>2
    <3> QED BY <3>1 DEF Quiet
  <2>3. CASE n > Len(first)
    <3>1. n - Len(first) \in DOMAIN rest /\ both[n] = rest[n - Len(first)]
      BY <1>4, <1>5, <1>6, <2>1, <2>3
    <3> QED BY <3>1 DEF Quiet
  <2> QED BY <2>1, <2>2, <2>3
<1> QED BY <1>5, <1>6, <1>7 DEF Quiet, IsList

\* A commit and a reference are no transitions; these are, to another stage.
LEMMA QuietSteps ==
  /\ \A x, v, s : ~Confirms(Commit(x, v, s)) /\ ~Confirms(Refer(x, v, s))
  /\ \A s : ~Confirms(Move("proof_processing", s)) /\ ~Confirms(Move("proof_complete", s))
  BY DEF Confirms, Commit, Refer, Move

\* After such a step the drain is no more confirmed than before it.
Unconfirmed(d) ==
  /\ d.journal = [stage |-> d.journal.stage, plan |-> d.journal.plan,
                  refs |-> d.journal.refs, latest |-> d.journal.latest]
  /\ d.journal.stage # "drain_confirmed"

LEMMA WholeUnconfirmed ==
  ASSUME NEW d, Unconfirmed(d), NEW step, ~Confirms(step), NEW w, w = Whole(d, step)
  PROVE  Unconfirmed(w)
<1>1. PICK j : j = d.journal
  OBVIOUS
<1>2. PICK l : l = Logged(j, step)
  OBVIOUS
<1>3. /\ l = [stage |-> l.stage, plan |-> l.plan, refs |-> l.refs, latest |-> l.latest]
      /\ l.stage # "drain_confirmed"
  <2>1. /\ j = [stage |-> j.stage, plan |-> j.plan, refs |-> j.refs, latest |-> j.latest]
        /\ j.stage # "drain_confirmed"
    BY <1>1 DEF Unconfirmed
  <2>2. CASE step.do = "move"
    <3>1. l = [j EXCEPT !.stage = step.to, !.plan = IF @ = None THEN step.plan ELSE @]
      BY <1>2, <2>2 DEF Logged, Transitioned
    <3>2. step.to # "drain_confirmed"
      BY <2>2 DEF Confirms
    <3> QED BY <2>1, <3>1, <3>2
  <2>3. CASE step.do # "move"
    <3>1. PICK refs : refs = IF step.domain \in Domains
                             THEN [j.refs EXCEPT ![step.domain] = step.value] ELSE j.refs
      OBVIOUS
    <3>2. l = [j EXCEPT !.refs = refs, !.latest = step.state]
      BY <1>2, <2>1, <2>3, <3>1 DEF Logged, Referenced
    <3> QED BY <2>1, <3>2
  <2> QED BY <2>2, <2>3
<1>4. w.journal \in {j, l}
  <2>1. PICK what : what = {WriteOrder(step)[i] : i \in 1..Len(WriteOrder(step))}
    OBVIOUS
  <2>2. PICK u : u = Write(d, step, what)
    OBVIOUS
  <2>3. u.journal = IF "journal" \in what THEN l ELSE j
    BY <1>1, <1>2, <2>2 DEF Write
  <2>4. w.journal = u.journal
    <3>1. w = [u EXCEPT !.artifacts = @ \cap {u.journal.latest}]
      BY <2>1, <2>2 DEF Whole, Written, Needed
    <3>2. \E A, f : u = [journal |-> u.journal, artifacts |-> A, file |-> f]
      BY <2>2 DEF Write
    <3> QED BY <3>1, <3>2
  <2> QED BY <2>3, <2>4
<1> QED BY <1>1, <1>3, <1>4 DEF Unconfirmed

\* Nor is it after a list of such steps.
LEMMA QuietEnds ==
  ASSUME NEW d, Unconfirmed(d), NEW steps, Quiet(steps)
  PROVE  Unconfirmed(Done(d, steps)[Len(steps)])
<1>1. Len(steps) \in Nat /\ DOMAIN steps = 1..Len(steps)
  BY Lists DEF Quiet
<1>2. PICK f : f = Done(d, steps)
  OBVIOUS
<1>3. f[0] = d /\ \A n \in 1..Len(steps) : f[n] = Whole(f[n - 1], steps[n])
  BY <1>1, <1>2, DoneNext
<1> DEFINE Bad == {n \in Nat : n <= Len(steps) /\ ~Unconfirmed(f[n])}
<1>4. Bad = {}
  <2>1. SUFFICES ASSUME Bad # {} PROVE FALSE
    OBVIOUS
  <2>2. Bad \subseteq Nat
    OBVIOUS
  <2>3. \E k \in Bad : \A m \in Bad : ~(<<m, k>> \in OpToRel(<, Nat))
    BY <2>1, <2>2, NatLessThanWellFounded, WFMin
  <2>4. PICK k \in Bad : \A m \in Bad : ~(m < k)
    BY <2>2, <2>3 DEF OpToRel
  <2>5. k \in Nat /\ k <= Len(steps) /\ ~Unconfirmed(f[k])
    BY <2>4
  <2>6. k # 0
    BY <1>3, <2>5
  <2>7. k \in 1..Len(steps) /\ k - 1 \in Nat /\ k - 1 < k /\ k - 1 <= Len(steps)
    BY <1>1, <2>5, <2>6
  <2>8. Unconfirmed(f[k - 1])
    <3>1. k - 1 \notin Bad
      <4> HIDE DEF Bad
      <4> QED BY <2>4, <2>7
    <3> QED BY <2>7, <3>1
  <2>9. f[k] = Whole(f[k - 1], steps[k]) /\ ~Confirms(steps[k])
    BY <1>1, <1>3, <2>7 DEF Quiet
  <2>10. Unconfirmed(f[k])
    <3> HIDE DEF Bad
    <3> QED BY <2>8, <2>9, WholeUnconfirmed
  <2> QED BY <2>5, <2>10
<1>5. Len(steps) \notin Bad
  BY <1>4
<1> QED BY <1>1, <1>2, <1>5

\* Nor when a handler of such steps comes to its end.
LEMMA QuietFinishes ==
  ASSUME NEW d, Unconfirmed(d), NEW steps, Quiet(steps), NEW after,
         Finishes(d, steps, after)
  PROVE  journal'.stage # "drain_confirmed"
<1>1. disk' = Done(d, steps)[Len(steps)]
  BY DEF Finishes
<1>2. Unconfirmed(disk')
  BY <1>1, QuietEnds
<1> QED BY <1>2 DEF Unconfirmed, journal

\* A handler that was not cut short came to its end.
LEMMA HandlesWhole ==
  ASSUME NEW steps, NEW begun, NEW after, Handle(steps, begun, after), ~cut'
  PROVE  up /\ ~cut /\ Finishes(disk, steps, after)
<1>1. Finishes(disk, steps, after) => ~cut
  BY DEF Finishes
<1>2. ~Finishes(disk, steps, after) => cut'
  BY DEF Handle, IsRefused, IsCut, Crashes
<1> QED BY <1>1, <1>2 DEF Handle

\* So none of them that was not cut short confirms the drain.
LEMMA QuietHandles ==
  ASSUME NEW steps, Quiet(steps), NEW begun, NEW after, Handle(steps, begun, after),
         ~cut', Unconfirmed(disk)
  PROVE  journal'.stage # "drain_confirmed"
  BY HandlesWhole, QuietFinishes

\* The completion of a proof is such a list.
LEMMA CompletionQuiet ==
  ASSUME NEW s, NEW route
  PROVE  Quiet(Completion(s, route))
<1>1. PICK done : done = ResetDestination([s EXCEPT !.route = route, !.reviewed = TRUE])
  OBVIOUS
<1>2. PICK a : a = Commit("queue", Queue(done), done)
  OBVIOUS
<1>3. PICK b : b = Commit("review", done.reviews, done)
  OBVIOUS
<1>4. PICK c : c = Move("proof_complete", done)
  OBVIOUS
<1>5. Completion(s, route) = <<a, b, c>>
  BY <1>1, <1>2, <1>3, <1>4 DEF Completion
<1>6. ~Confirms(a) /\ ~Confirms(b) /\ ~Confirms(c)
  BY <1>2, <1>3, <1>4, QuietSteps
<1>7. Quiet(<<a, b, c>>)
  BY <1>6, QuietLists
<1> QED BY <1>5, <1>7

\* No handler but the confirmation confirms the drain.
LEMMA PrepareConfirmsNothing ==
  ASSUME RunInv, Prepare, ~cut', Unconfirmed(disk)
  PROVE  journal'.stage # "drain_confirmed"
<1>1. CASE \E i \in Inventories : Import(i)
  <2>1. PICK i \in Inventories : Import(i)
    BY <1>1
  <2>2. PICK s : s = ResetProof([app EXCEPT !.inventory = i])
    OBVIOUS
  <2>3. PICK c : c = Commit("inventory", i, s)
    OBVIOUS
  <2>4. Handle(<<c>>, session, session)
    BY <2>1, <2>2, <2>3 DEF Import, Perform
  <2>5. ~Confirms(c)
    BY <2>3, QuietSteps
  <2>6. Quiet(<<c>>)
    BY <2>5, QuietLists
  <2> QED BY <2>4, <2>6, QuietHandles
<1>2. CASE \E t \in Strategies : SaveStrategy(t)
  <2>1. PICK t \in Strategies : SaveStrategy(t)
    BY <1>2
  <2>2. PICK s : s = ResetProof([app EXCEPT !.strategy = t])
    OBVIOUS
  <2>3. PICK c : c = Commit("strategy", t, s)
    OBVIOUS
  <2>4. Handle(<<c>>, session, session)
    BY <2>1, <2>2, <2>3 DEF SaveStrategy, Perform
  <2>5. ~Confirms(c)
    BY <2>3, QuietSteps
  <2>6. Quiet(<<c>>)
    BY <2>5, QuietLists
  <2> QED BY <2>4, <2>6, QuietHandles
<1>3. CASE Freeze /\ IsJournal(journal)
  <2>1. PICK plan : plan = [inventory |-> app.inventory, strategy |-> app.strategy]
    OBVIOUS
  <2>2. PICK s : s = [app EXCEPT !.plan = plan]
    OBVIOUS
  <2>3. PICK at : at = StageNumber(journal.stage)
    OBVIOUS
  <2>4. PICK len : len = 5 - at
    OBVIOUS
  <2>5. PICK moves : moves = [n \in 1..len |-> [Move(Stages[at + n], s) EXCEPT !.state = app]]
    OBVIOUS
  <2>6. PICK c : c = Commit("queue", Queue(s), s)
    OBVIOUS
  <2>7. Handle(moves \o <<c>>, session, session) /\ at <= 5
    BY <1>3, <2>1, <2>2, <2>3, <2>4, <2>5, <2>6 DEF Freeze, Perform
  <2>8. at \in 1..5 /\ len \in Nat
    BY <1>3, <2>3, <2>4, <2>7, StageNames DEF Reach
  <2>9. ASSUME NEW n \in 1..len PROVE ~Confirms(moves[n])
    <3>1. moves[n] = [Move(Stages[at + n], s) EXCEPT !.state = app]
      BY <2>5
    <3>2. moves[n].to = Stages[at + n]
      BY <3>1 DEF Move
    <3>3. at + n \in 2..5
      BY <2>4, <2>8
    <3>4. Stages[at + n] # "drain_confirmed"
      BY <3>3 DEF Stages
    <3> QED BY <3>2, <3>4 DEF Confirms
  <2>10. Quiet(moves)
    <3>1. PICK T : T = {moves[n] : n \in 1..len}
      OBVIOUS
    <3>2. moves \in [1..len -> T]
      BY <2>5, <3>1
    <3>3. moves \in Seq(T) /\ DOMAIN moves = 1..len
      BY <2>8, <3>2
    <3> QED BY <2>9, <3>3 DEF Quiet, IsList
  <2>11. Quiet(<<c>>)
    <3>1. ~Confirms(c)
      BY <2>6, QuietSteps
    <3> QED BY <3>1, QuietLists
  <2>12. Quiet(moves \o <<c>>)
    BY <2>10, <2>11, QuietBoth
  <2> QED BY <2>7, <2>12, QuietHandles
<1>4. CASE StartProof
  <2>1. PICK items : items = Selected[app.inventory]
    OBVIOUS
  <2>2. PICK auto : auto = items \cap Manual
    OBVIOUS
  <2>3. PICK s : s = ResetDestination(
                       [app EXCEPT !.processed = TRUE, !.reviews = auto,
                                   !.route = IF items = {} THEN "empty" ELSE None,
                                   !.reviewed = @ \/ items = {}])
    OBVIOUS
  <2>4. PICK begin : begin = IF journal.stage = "proof_selected"
                             THEN <<Move("proof_processing", app)>> ELSE <<>>
    OBVIOUS
  <2>5. PICK rest : rest = AfterProcessing(s, items, auto)
    OBVIOUS
  <2>6. PICK c : c = Commit("processing", s.plan, s)
    OBVIOUS
  <2>7. Handle((begin \o <<c>>) \o rest, session, session)
    BY <1>4, <2>1, <2>2, <2>3, <2>4, <2>5, <2>6 DEF StartProof, Perform, AfterProcessing
  <2>8. Quiet(begin)
    <3>1. PICK m : m = Move("proof_processing", app)
      OBVIOUS
    <3>2. ~Confirms(m)
      BY <3>1, QuietSteps
    <3>3. Quiet(<<m>>) /\ Quiet(<< >>)
      BY <3>2, QuietLists
    <3> QED BY <2>4, <3>1, <3>3
  <2>9. Quiet(<<c>>)
    <3>1. ~Confirms(c)
      BY <2>6, QuietSteps
    <3> QED BY <3>1, QuietLists
  <2>10. Quiet(rest)
    <3>1. PICK a : a = Refer("queue", Queue(s), s)
      OBVIOUS
    <3>2. PICK b : b = Move("proof_complete", s)
      OBVIOUS
    <3>3. PICK r : r = Commit("review", auto, s)
      OBVIOUS
    <3>4. ~Confirms(a) /\ ~Confirms(b) /\ ~Confirms(r)
      BY <3>1, <3>2, <3>3, QuietSteps
    <3>5. Quiet(<<a, b>>) /\ Quiet(<<r>>) /\ Quiet(<< >>)
      BY <3>4, QuietLists
    <3>6. Quiet(Completion(s, "empty"))
      BY CompletionQuiet
    <3>7. CASE items = {}
      <4>1. rest = <<a, b>>
        BY <2>2, <2>5, <3>1, <3>2, <3>7 DEF AfterProcessing
      <4> QED BY <3>5, <4>1
    <3>8. CASE items # {} /\ auto = items
      <4>1. rest = Completion(s, "empty")
        BY <2>5, <3>8 DEF AfterProcessing
      <4> QED BY <3>6, <4>1
    <3>9. CASE auto \notin {{}, items}
      <4>1. items # {}
        BY <2>2, <3>9
      <4>2. rest = <<r>>
        BY <2>5, <3>3, <3>9, <4>1 DEF AfterProcessing
      <4> QED BY <3>5, <4>2
    <3>10. CASE items # {} /\ auto = {}
      <4>1. rest = << >>
        BY <2>5, <3>10 DEF AfterProcessing
      <4> QED BY <3>5, <4>1
    <3> QED BY <3>7, <3>8, <3>9, <3>10
  <2>11. Quiet(begin \o <<c>>)
    BY <2>8, <2>9, QuietBoth
  <2>12. Quiet((begin \o <<c>>) \o rest)
    BY <2>10, <2>11, QuietBoth
  <2> QED BY <2>7, <2>12, QuietHandles
<1>5. CASE \E item \in Items : \E route \in Routes : ReviewItem(item, route)
  <2>1. PICK item \in Items : \E route \in Routes : ReviewItem(item, route)
    BY <1>5
  <2>2. PICK route \in Routes : ReviewItem(item, route)
    BY <2>1
  <2>3. PICK s : s = [app EXCEPT !.reviews = @ \cup {item}]
    OBVIOUS
  <2>4. PICK r : r = Commit("review", s.reviews, ResetDestination(s))
    OBVIOUS
  <2>5. \/ Handle(Completion(s, route), session, session)
        \/ Handle(<<r>>, session, session)
    BY <2>2, <2>3, <2>4 DEF ReviewItem, Perform
  <2>6. ~Confirms(r)
    BY <2>4, QuietSteps
  <2>7. Quiet(<<r>>)
    BY <2>6, QuietLists
  <2>8. Quiet(Completion(s, route))
    BY CompletionQuiet
  <2> QED BY <2>5, <2>7, <2>8, QuietHandles
<1>6. IsJournal(journal)
  BY DEF RunInv, Sound, IsDisk, journal
<1> QED BY <1>1, <1>2, <1>3, <1>4, <1>5, <1>6 DEF Prepare

\* A commit is quiet.
LEMMA QuietCommit ==
  ASSUME NEW x, NEW v, NEW s
  PROVE  Quiet(<<Commit(x, v, s)>>)
<1>1. PICK c : c = Commit(x, v, s)
  OBVIOUS
<1>2. ~Confirms(c)
  BY <1>1, QuietSteps
<1>3. Quiet(<<c>>)
  BY <1>2, QuietLists
<1> QED BY <1>1, <1>3

\* Nor do the handlers of the delivery.
LEMMA DeliverConfirmsNothing ==
  ASSUME \/ FinishPreview \/ Approve \/ ResumeDelivery \/ LinkReceipt \/ CancelDelivery
         \/ FinishConnect /\ session.flight = None /\ session.connecting.current
         \/ FounderReview,
         ~cut', Unconfirmed(disk)
  PROVE  journal'.stage # "drain_confirmed"
<1>1. SUFFICES \E steps : Quiet(steps) /\ \E begun, after : Handle(steps, begun, after)
  BY QuietHandles
<1>2. ASSUME \E x, v, s : \E begun, after : Handle(<<Commit(x, v, s)>>, begun, after)
      PROVE  \E steps : Quiet(steps) /\ \E begun, after : Handle(steps, begun, after)
  <2>1. PICK x, v, s : \E begun, after : Handle(<<Commit(x, v, s)>>, begun, after)
    BY <1>2
  <2>2. Quiet(<<Commit(x, v, s)>>)
    BY QuietCommit
  <2> QED BY <2>1, <2>2
<1>3. CASE FinishPreview
  BY <1>2, <1>3 DEF FinishPreview
<1>4. CASE Approve
  BY <1>2, <1>4 DEF Approve
<1>5. CASE ResumeDelivery
  BY <1>2, <1>5 DEF ResumeDelivery
<1>6. CASE LinkReceipt
  BY <1>2, <1>6 DEF LinkReceipt
<1>7. CASE CancelDelivery
  BY <1>2, <1>7 DEF CancelDelivery, Perform
<1>8. CASE FinishConnect /\ session.flight = None /\ session.connecting.current
  <2>1. PICK s, r, t, link, begun :
          /\ Handle(<<Commit("destination", TRUE, s)>> \o link, begun, begun)
          /\ link \in {<< >>, <<Commit("delivery", r, t)>>}
    BY <1>8 DEF FinishConnect
  <2>2. Quiet(link)
    BY <2>1, QuietCommit, QuietLists
  <2>3. Quiet(<<Commit("destination", TRUE, s)>>)
    BY QuietCommit
  <2>4. Quiet(<<Commit("destination", TRUE, s)>> \o link)
    BY <2>2, <2>3, QuietBoth
  <2> QED BY <2>1, <2>4
<1>9. CASE FounderReview
  <2>1. PICK f, s, t : Handle(<<Commit("founder_review", f, s),
                                Commit("recovery", proofs', t)>>, session, session)
    BY <1>9 DEF FounderReview, Perform
  <2>2. PICK a : a = Commit("founder_review", f, s)
    OBVIOUS
  <2>3. PICK b : b = Commit("recovery", proofs', t)
    OBVIOUS
  <2>4. ~Confirms(a) /\ ~Confirms(b)
    BY <2>2, <2>3, QuietSteps
  <2>5. Quiet(<<a, b>>)
    BY <2>4, QuietLists
  <2> QED BY <2>1, <2>2, <2>3, <2>5
<1> QED BY <1>3, <1>4, <1>5, <1>6, <1>7, <1>8, <1>9

\* Nor does a start, which may complete an interrupted proof.
LEMMA StartConfirmsNothing ==
  ASSUME Start, ~cut', Unconfirmed(disk)
  PROVE  journal'.stage # "drain_confirmed"
<1>1. PICK s : s = Loaded
  OBVIOUS
<1>2. PICK d : d = Restored
  OBVIOUS
<1>3. PICK steps : steps = StartSteps(s)
  OBVIOUS
<1>4. Finishes(d, steps, NewSession)
  <2>1. \/ Finishes(d, steps, NewSession)
        \/ ProcessEnds /\ \E n \in DOMAIN steps : IsRefused(d, steps, n)
        \/ Crashes(d, steps)
    BY <1>1, <1>2, <1>3 DEF Start
  <2>2. ~(\E n \in DOMAIN steps : IsRefused(d, steps, n)) /\ ~Crashes(d, steps)
    BY DEF IsRefused, IsCut, Crashes
  <2> QED BY <2>1, <2>2
<1>5. Unconfirmed(d)
  <2>1. CASE d = disk
    BY <2>1
  <2>2. CASE d = [disk EXCEPT !.file = journal.latest]
    <3>1. d.journal = disk.journal
      BY <2>2
    <3> QED BY <3>1 DEF Unconfirmed
  <2> QED BY <1>2, <2>1, <2>2 DEF Restored
<1>6. Quiet(steps)
  <2>1. PICK m : m = Move("proof_complete", s)
    OBVIOUS
  <2>2. ~Confirms(m)
    BY <2>1, QuietSteps
  <2>3. Quiet(<<m>>) /\ Quiet(<< >>)
    BY <2>2, QuietLists
  <2>4. PICK first, last :
          /\ first \in {<< >>, <<m>>} /\ steps = first \o last
          /\ last = <<Commit("pre_live_authorization", "receipt", s)>>
    BY <1>3, <2>1 DEF StartSteps
  <2>5. Quiet(last)
    BY <2>4, QuietCommit
  <2> QED BY <2>3, <2>4, <2>5, QuietBoth
<1> QED BY <1>4, <1>5, <1>6, QuietFinishes

\* The journal confirms a drain only over a durable state in which the founder judged a
\* delivery that was completed or had nothing to deliver, and the recovery was proved, as
\* long as every handler ran to its end (confirm_experimental_drain).
THEOREM ConfirmedOnEvidence == RunSpec => ConfirmsOnEvidence
<1> DEFINE Confirmation ==
             journal.stage # "drain_confirmed" /\ journal'.stage = "drain_confirmed"
               /\ ~cut'
             => /\ journal.latest # None /\ TrustedActivation(journal.latest)
                /\ journal.latest.recovery # None
                /\ journal.refs["founder_review"] = journal.latest.founder
<1>1. (RunInv /\ Typed) /\ [RunNext]_runVars => [Confirmation]_runVars
  <2>1. SUFFICES ASSUME RunInv, Typed, RunNext, journal.stage # "drain_confirmed",
                        journal'.stage = "drain_confirmed", ~cut'
                 PROVE  /\ journal.latest # None /\ TrustedActivation(journal.latest)
                        /\ journal.latest.recovery # None
                        /\ journal.refs["founder_review"] = journal.latest.founder
    OBVIOUS
  <2>2. Unconfirmed(disk)
    <3>1. IsJournal(disk.journal)
      BY <2>1 DEF RunInv, Sound, IsDisk
    <3> QED BY <2>1, <3>1 DEF Unconfirmed, IsJournal, journal
  <2>3. ConfirmDrain
    <3>1. ~Start
      BY <2>1, <2>2, StartConfirmsNothing
    <3>2. ~Prepare
      BY <2>1, <2>2, PrepareConfirmsNothing
    <3>3. ~(\/ FinishPreview \/ Approve \/ ResumeDelivery \/ LinkReceipt \/ CancelDelivery
            \/ FinishConnect /\ session.flight = None /\ session.connecting.current
            \/ FounderReview)
      BY <2>1, <2>2, DeliverConfirmsNothing
    <3>4. ~(\/ LoseLease \/ StartPreview \/ DropPreview \/ Disconnect \/ StartConnect
            \/ FinishConnect /\ ~(session.flight = None /\ session.connecting.current)
            \/ Exit \/ FlightOpens \/ FlightFails
            \/ \E status \in {"completed", "partial"} : FlightSeals(status)
            \/ \E status \in {"completed", "partial"} : Reconcile(status))
      <4>1. disk' # disk
        BY <2>1 DEF journal
      <4> QED BY <4>1 DEF LoseLease, StartPreview, DropPreview, Disconnect, StartConnect,
                          FinishConnect, Exit, FlightOpens, FlightFails, FlightSeals,
                          Reconcile
    <3> QED BY <2>1, <3>1, <3>2, <3>3, <3>4 DEF RunNext, Deliver, Connect
  <2>4. ReadyToConfirm(app, journal)
    BY <2>3 DEF ConfirmDrain
  <2>5. up /\ ~cut
    <3>1. PICK steps : Handle(steps, session, session)
      BY <2>3 DEF ConfirmDrain, Perform
    <3> QED BY <2>1, <3>1, HandlesWhole
  <2>6. app = journal.latest /\ app \in States /\ Faithful(disk, app)
    BY <2>1, <2>5, AtWork DEF RunInv
  <2>7. journal.latest # None
    BY <2>6, AbsenceAssumption
  <2>8. /\ TrustedActivation(app) /\ app.recovery # None /\ app.founder # None
    BY <2>4 DEF ReadyToConfirm, TrustedActivation
  <2>9. journal.refs["founder_review"] = app.founder
    BY <2>6, <2>8 DEF Faithful, journal
  <2> QED BY <2>6, <2>7, <2>8, <2>9
<1> QED BY <1>1, RunInvariant, PTL DEF RunSpec, ConfirmsOnEvidence
=============================================================================
