-------------------------- MODULE ApprovedDelivery --------------------------
(***************************************************************************)
(* Approved delivery to Product Brain:                                     *)
(* internal/productbrain/approved_delivery_runtime.go and _store.go.       *)
(*                                                                         *)
(* An invocation holds the delivery lock, works on a copy of the state and *)
(* makes it durable at fixed points; it may stop between any two of them.  *)
(* Cancellation comes from another process and shares only the ordering    *)
(* lock with it.  The destination applies a request when it pleases, or    *)
(* never.  history.json is a projection of the sealed runs and the receipt *)
(* a projection of the state and the runs: of the receipt only whether it  *)
(* reads as current is kept.                                               *)
(***************************************************************************)
EXTENDS Integers, Sequences, SequencesExt, FiniteSets

CONSTANTS
  Operations,       \* the operations of the outbox, in order
  Ends,             \* the entries a relation joins; none for an entry
  MaxAttempts,      \* MaximumMutationAttempts of the approval
  MaxInvocations    \* bound: invocations in one behaviour

ASSUME OutboxAssumption ==
  /\ Operations # {} /\ Operations = 1 .. Cardinality(Operations)
  /\ Ends \in [Operations -> SUBSET Operations]
  /\ \A o \in Operations : \A e \in Ends[o] : Ends[e] = {}
  /\ MaxAttempts \in Nat
  /\ MaxInvocations \in Nat

VARIABLES
  authority,    \* authority.json is sealed
  cancelled,    \* cancellation.json is sealed
  state,        \* state.json
  runs,         \* the sealed runs
  active,       \* .active.json
  debris,       \* a dead process's temporary file lies among the sealed runs
  receipt,      \* receipt.json reads as current
  ordering,     \* who holds the ordering lock
  expired,      \* the approval's window has passed
  remote,       \* what the destination shows for each operation
  applied,      \* history: the operations it has applied, though it may lose them
  sent,         \* the attempts whose request has left
  inflight,     \* those the destination may still apply
  pc, mem, call,    \* the invocation: its step, its copy of the state, itself
  invocations

durable == <<authority, state, runs, active, debris, receipt>>
destination == <<remote, applied, sent, inflight>>
vars == <<durable, cancelled, ordering, expired, destination, pc, mem, call,
          invocations>>

-----------------------------------------------------------------------------
(* The state of a delivery.                                                *)

Statuses == {"absent", "approved", "delivering", "ambiguous", "completed",
             "cancelled", "blocked"}
OperationStates == {"pending", "reserved", "not_observed", "ambiguous",
                    "acknowledged", "blocked"}
AttemptOutcomes == {"reserved", "not_observed", "ambiguous", "acknowledged",
                    "rejected"}
RunOutcomes == {"completed", "failed", "ambiguous", "interrupted", "cancelled",
                "reconciled"}
Modes == {"deliver", "reconcile"}
Responses == {"ok", "maybe", "rejected"}

Fresh(status) ==
  [status |-> status, cancelled |-> FALSE,
   op |-> [o \in Operations |-> "pending"], unique |-> {}, attempts |-> <<>>]
NoState == Fresh("absent")
NoCall == [mode |-> "none", gesture |-> FALSE, at |-> 0, result |-> "none"]
NoRun == [sequence |-> 0, invocation |-> 0]

\* Attempts are numbered across the operations; MutationAttempts is how many.
Attempts(s, o) == {n \in DOMAIN s.attempts : s.attempts[n].op = o}
Attempted(s, o) == Attempts(s, o) # {}
\* Mutant: the first attempt of the operation is taken for its last.
LatestIsFirst(s, o) == CHOOSE n \in Attempts(s, o) : \A m \in Attempts(s, o) : m >= n
Latest(s, o) == CHOOSE n \in Attempts(s, o) : \A m \in Attempts(s, o) : m <= n

MarkAttempt(s, o, outcome) ==
  IF Attempted(s, o) THEN [s EXCEPT !.attempts[Latest(s, o)].outcome = outcome]
                     ELSE s

SetOperation(s, o, value) == [s EXCEPT !.op[o] = value]
SetStatus(s, status) == [s EXCEPT !.status = status]

Unresolved(s) == {o \in Operations : Attempted(s, o) /\ s.op[o] # "acknowledged"}
AttemptsOfRun(s, n) == {i \in DOMAIN s.attempts : s.attempts[i].run = n}

-----------------------------------------------------------------------------
Goto(step, s) == pc' = step /\ mem' = s
Keep == UNCHANGED <<cancelled, ordering, expired, invocations>>
Local == Keep /\ UNCHANGED <<durable, destination>>

\* Mutant: a receipt is read without comparing it with the state.
PersistUnderReceipt(s) == state' = s /\ UNCHANGED receipt
Persist(s) == state' = s /\ receipt' = FALSE
SaveState(step, s) ==
  /\ Persist(s)
  /\ Goto(step, s)
  /\ UNCHANGED <<authority, runs, active, debris, destination>>

\* finish: what is left to do is to make the state, the run and the receipt durable.
Finish(s, outcome) == Goto("finish", s) /\ call' = [call EXCEPT !.result = outcome]

\* refreshApprovedCancellation
Refreshed(s) ==
  IF ~cancelled THEN s
  ELSE [s EXCEPT !.cancelled = TRUE,
                 !.status = IF @ = "completed" THEN @ ELSE "cancelled"]

-----------------------------------------------------------------------------
(* Opening an invocation.                                                  *)

\* The first delivery consumes the human gesture that the approval was given by.
Begin(mode) ==
  /\ pc = "idle"
  /\ invocations < MaxInvocations
  /\ invocations' = invocations + 1
  /\ IF state = NoState /\ ~authority
       THEN /\ mode = "deliver" /\ ~expired
            /\ Goto("authorise", NoState)
            /\ call' = [NoCall EXCEPT !.mode = mode, !.gesture = TRUE]
       ELSE /\ Goto(IF state = NoState THEN "initialize" ELSE "resume", state)
            /\ call' = [NoCall EXCEPT !.mode = mode]
  /\ UNCHANGED <<durable, cancelled, ordering, expired, destination>>

SealAuthority ==
  /\ pc = "authorise"
  /\ authority' = TRUE
  /\ Goto("initialize", mem)
  /\ Keep /\ UNCHANGED <<state, runs, active, debris, receipt, destination, call>>

Initialize ==
  /\ pc = "initialize"
  /\ SaveState("resume", IF cancelled
                           THEN [Fresh("cancelled") EXCEPT !.cancelled = TRUE]
                           ELSE Fresh("approved"))
  /\ Keep /\ UNCHANGED call

\* Resuming an authority sealed by an earlier invocation takes a gesture of its own,
\* unless the delivery has ended.
\* Mutant: a delivery that a crash interrupted is taken as authorised.
NeedsGestureUnlessRunning ==
  /\ call.mode = "deliver" /\ ~call.gesture
  /\ mem.status \notin {"completed", "cancelled", "delivering"}
NeedsGesture ==
  call.mode = "deliver" /\ ~call.gesture /\ mem.status \notin {"completed", "cancelled"}

Resume ==
  /\ pc = "resume"
  /\ call' = [call EXCEPT !.gesture = @ \/ NeedsGesture]
  /\ Goto("recover", Refreshed(mem))
  /\ Local

AppendRun(s, outcome, invocation) ==
  runs' = Append(runs, [outcome |-> outcome, invocation |-> invocation,
                        attempts |-> AttemptsOfRun(s, Len(runs) + 1)])

\* The runs are read first: anything among them that is not a run refuses them all.
Recovering == pc = "recover" /\ ~debris

\* Mutant: the interrupted run is sealed as it was opened, without its attempts.
SealInterruptedAsOpened ==
  /\ Recovering
  /\ active # NoRun /\ active.sequence = Len(runs) + 1
  /\ runs' = Append(runs, [outcome |-> "interrupted", invocation |-> active.invocation,
                           attempts |-> {}])
  /\ receipt' = FALSE
  /\ Keep
  /\ UNCHANGED <<authority, state, active, debris, destination, pc, mem, call>>

\* Mutant: the interrupted run is sealed under the invocation that recovers it.
SealInterruptedAnew ==
  /\ Recovering
  /\ active # NoRun /\ active.sequence = Len(runs) + 1
  /\ AppendRun(mem, "interrupted", invocations)
  /\ receipt' = FALSE
  /\ Keep
  /\ UNCHANGED <<authority, state, active, debris, destination, pc, mem, call>>

SealInterrupted ==
  /\ Recovering
  /\ active # NoRun /\ active.sequence = Len(runs) + 1
  /\ AppendRun(mem, "interrupted", active.invocation)
  /\ receipt' = FALSE
  /\ Keep
  /\ UNCHANGED <<authority, state, active, debris, destination, pc, mem, call>>

\* The run was sealed before the crash, or just now.
RemoveActive ==
  /\ Recovering
  /\ active.sequence \in DOMAIN runs
  /\ runs[active.sequence].invocation = active.invocation
  /\ active' = NoRun
  /\ Keep
  /\ UNCHANGED <<authority, state, runs, debris, receipt, destination, pc, mem, call>>

OpenRun ==
  /\ Recovering
  /\ active = NoRun
  /\ active' = [sequence |-> Len(runs) + 1, invocation |-> invocations]
  /\ Goto("open", mem)
  /\ Keep /\ UNCHANGED <<authority, state, runs, debris, receipt, destination, call>>

StartRun ==
  /\ pc = "open"
  /\ SaveState("plan", IF mem.status \in {"cancelled", "completed"}
                         THEN mem ELSE SetStatus(mem, "delivering"))
  /\ Keep /\ UNCHANGED call

Plan ==
  /\ pc = "plan"
  /\ \/ mem.cancelled /\ mem.status = "completed" /\ Finish(mem, "completed")
     \/ /\ mem.cancelled /\ mem.status # "completed" /\ Unresolved(mem) = {}
        /\ Finish(SetStatus(mem, "cancelled"), "cancelled")
     \/ /\ mem.cancelled => mem.status # "completed" /\ Unresolved(mem) # {}
        /\ \/ Finish(mem, "failed")         \* the preconditions do not hold
           \/ Goto("observe", mem) /\ call' = [call EXCEPT !.at = 1]
  /\ Local

-----------------------------------------------------------------------------
(* Reconciling an operation with what the destination shows.               *)

Observations(o) ==
  {"error"} \cup
    IF \E e \in Ends[o] : mem.op[e] # "acknowledged" THEN {}
    ELSE CASE remote[o] = "none"  -> {"absent"}
           [] remote[o] = "same"  -> {"observed"}
           [] remote[o] = "other" -> {"conflict"}

\* What reconcileApprovedOperation leaves in the state.
Observed(o, seen) ==
  CASE seen = "error"    -> mem
    [] seen = "conflict" -> SetStatus(SetOperation(mem, o, "blocked"), "blocked")
    [] seen = "observed" -> SetOperation(mem, o, "acknowledged")
    [] seen = "absent"   -> SetOperation(mem, o, IF Attempted(mem, o)
                                                   THEN "not_observed"
                                                   ELSE "pending")

AtOperation(step) == pc = step /\ call.at \in Operations
Advance == call' = [call EXCEPT !.at = @ + 1]

Skips(o) == (mem.cancelled \/ call.mode = "reconcile") /\ ~Attempted(mem, o)

Skip ==
  /\ AtOperation("observe")
  /\ Skips(call.at)
  /\ Advance
  /\ Local /\ UNCHANGED <<pc, mem>>

Acknowledge(o, step) ==
  /\ "observed" \in Observations(o)
  /\ SaveState(step, MarkAttempt(Observed(o, "observed"), o, "acknowledged"))
  /\ Advance
  /\ Keep

ObserveAcknowledged ==
  /\ AtOperation("observe") /\ ~Skips(call.at)
  /\ Acknowledge(call.at, "observe")

ObserveFails(o, seen) ==
  /\ AtOperation("observe") /\ call.at = o /\ ~Skips(o)
  /\ seen \in Observations(o) \cap {"error", "conflict"}
  /\ LET s == Observed(o, seen)
     IN IF s.op[o] = "blocked"
          THEN Finish(SetStatus(s, "blocked"), "failed")
          ELSE Finish(IF Attempted(s, o)
                        THEN SetStatus(SetOperation(s, o, "ambiguous"), "ambiguous")
                        ELSE s, "ambiguous")
  /\ Local

\* Nothing is there: only a delivery that is not cancelled goes on to send.
ObserveAbsent(o) ==
  LET s == Observed(o, "absent")
  IN /\ AtOperation("observe") /\ call.at = o /\ ~Skips(o)
     /\ "absent" \in Observations(o)
     /\ \/ mem.cancelled /\ Goto("observe", s) /\ Advance
        \/ /\ ~mem.cancelled /\ call.mode = "reconcile"
           /\ Finish(SetStatus(s, "ambiguous"), "reconciled")
        \/ /\ ~mem.cancelled /\ call.mode = "deliver"
           /\ Goto("order", s) /\ UNCHANGED call
     /\ Local

-----------------------------------------------------------------------------
(* Reserving and sending an attempt.                                       *)

\* The ordering lock is held from the check of the cancellation to the durable
\* reservation.
Order ==
  /\ pc = "order"
  /\ ordering = "free"
  /\ IF cancelled
       THEN /\ Finish(SetStatus(Refreshed(mem), "cancelled"), "cancelled")
            /\ UNCHANGED ordering
       ELSE IF expired
         THEN Finish(mem, "failed") /\ UNCHANGED ordering
         ELSE /\ Goto("reserve", mem)
              /\ ordering' = "delivery"
              /\ UNCHANGED call
  /\ UNCHANGED <<durable, cancelled, expired, destination, invocations>>

OrderFails ==
  /\ pc = "order"
  /\ Finish(mem, "failed")
  /\ Local

OutOfAttempts == Len(mem.attempts) >= MaxAttempts

Reserved(s, o) ==
  [s EXCEPT !.status = "delivering",
            !.op[o] = "reserved",
            !.unique = @ \cup {o},
            !.attempts = Append(@, [op |-> o, run |-> Len(runs) + 1,
                                    outcome |-> "reserved"])]

\* Mutant: the reservation is not written before the request leaves.
ReserveInMemory ==
  /\ pc = "reserve"
  /\ ~OutOfAttempts
  /\ Goto("mutate", Reserved(mem, call.at))
  /\ ordering' = "free"
  /\ UNCHANGED <<durable, destination, cancelled, expired, invocations, call>>

Reserve ==
  /\ pc = "reserve"
  /\ ~OutOfAttempts
  /\ SaveState("mutate", Reserved(mem, call.at))
  /\ ordering' = "free"
  /\ UNCHANGED <<cancelled, expired, invocations, call>>

\* Mutant: the run ends with the status of the state, not with an outcome.
ReserveRefusedBlocks ==
  /\ pc = "reserve"
  /\ OutOfAttempts
  /\ Finish([mem EXCEPT !.status = "blocked", !.op[call.at] = "blocked",
                        !.unique = @ \cup {call.at}], "blocked")
  /\ ordering' = "free"
  /\ UNCHANGED <<durable, cancelled, expired, destination, invocations>>

ReserveRefused ==
  /\ pc = "reserve"
  /\ OutOfAttempts
  /\ Finish([mem EXCEPT !.status = "blocked", !.op[call.at] = "blocked",
                        !.unique = @ \cup {call.at}], "failed")
  /\ ordering' = "free"
  /\ UNCHANGED <<durable, cancelled, expired, destination, invocations>>

\* The write fails, before or after the document is replaced; the copy that holds
\* the attempt is saved with what is left to do.
ReserveFails ==
  LET s == Reserved(mem, call.at)
  IN /\ pc = "reserve"
     /\ ~OutOfAttempts
     /\ Persist(s) \/ UNCHANGED <<state, receipt>>
     /\ Finish([s EXCEPT !.status = "blocked", !.op[call.at] = "blocked"], "failed")
     /\ ordering' = "free"
     /\ UNCHANGED <<authority, runs, active, debris, cancelled, expired, destination,
                    invocations>>

\* A response that says the request was refused means it; any other failure may
\* hide a request that is applied later.
Mutate(response) ==
  LET n == Len(mem.attempts)
  IN /\ pc = "mutate"
     /\ sent' = sent \cup {n}
     /\ inflight' = IF response = "rejected" THEN inflight ELSE inflight \cup {n}
     /\ Goto("record", mem)
     /\ call' = [call EXCEPT !.result = response]
     /\ Keep /\ UNCHANGED <<durable, remote, applied>>

Record ==
  LET rejected == call.result = "rejected"
  IN /\ pc = "record"
     /\ SaveState("readback",
          SetOperation(MarkAttempt(mem, call.at,
                                   IF rejected THEN "rejected" ELSE "ambiguous"),
                       call.at,
                       IF rejected THEN "not_observed" ELSE "ambiguous"))
     /\ Keep /\ UNCHANGED call

ReadbackAcknowledged ==
  /\ AtOperation("readback")
  /\ Acknowledge(call.at, "observe")

ReadbackFails(o, seen) ==
  LET s == Observed(o, seen)
  IN /\ AtOperation("readback") /\ call.at = o
     /\ seen \in Observations(o) \cap {"error", "conflict"}
     /\ IF s.op[o] = "blocked"
          THEN Finish(SetStatus(s, "blocked"), "failed")
          ELSE Finish(SetStatus(SetOperation(MarkAttempt(s, o, "ambiguous"),
                                             o, "ambiguous"), "ambiguous"),
                      "ambiguous")
     /\ Local

\* Mutant: a response is taken for a readback.
ReadbackAbsentTrusts(o) ==
  LET s == MarkAttempt(Observed(o, "absent"), o, "not_observed")
  IN /\ AtOperation("readback") /\ call.at = o
     /\ "absent" \in Observations(o)
     /\ IF call.result = "ok"
          THEN /\ SaveState("observe", MarkAttempt(Observed(o, "observed"), o,
                                                   "acknowledged"))
               /\ Advance /\ Keep
          ELSE Finish(SetStatus(s, "approved"), "failed") /\ Local

ReadbackAbsent(o) ==
  LET s == MarkAttempt(Observed(o, "absent"), o, "not_observed")
  IN /\ AtOperation("readback") /\ call.at = o
     /\ "absent" \in Observations(o)
     /\ IF call.result = "ok" THEN Finish(SetStatus(s, "ambiguous"), "ambiguous")
                              ELSE Finish(SetStatus(s, "approved"), "failed")
     /\ Local

-----------------------------------------------------------------------------
(* Closing an invocation.                                                  *)

\* Mutant: what is not blocked is taken as delivered.
ConcludeUnlessBlocked ==
  /\ pc = "observe" /\ call.at \notin Operations
  /\ LET all == \A o \in Operations : mem.op[o] # "blocked"
     IN CASE mem.cancelled -> Finish(SetStatus(mem, "cancelled"), "cancelled")
          [] all /\ ~mem.cancelled ->
               Finish(SetStatus(mem, "completed"),
                      IF call.mode = "deliver" THEN "completed" ELSE "reconciled")
          [] OTHER -> Finish(SetStatus(mem, "approved"), "reconciled")
  /\ Local

Conclude ==
  /\ pc = "observe" /\ call.at \notin Operations
  /\ LET all == \A o \in Operations : mem.op[o] = "acknowledged"
     IN CASE mem.cancelled -> Finish(SetStatus(mem, "cancelled"), "cancelled")
          [] all /\ ~mem.cancelled ->
               Finish(SetStatus(mem, "completed"),
                      IF call.mode = "deliver" THEN "completed" ELSE "reconciled")
          [] OTHER -> Finish(SetStatus(mem, "approved"), "reconciled")
  /\ Local

SaveFinal ==
  /\ pc = "finish"
  /\ SaveState("seal", mem)
  /\ Keep /\ UNCHANGED call

SealRun ==
  /\ pc = "seal"
  /\ AppendRun(mem, call.result, invocations)
  /\ Goto("close", mem)
  /\ receipt' = FALSE
  /\ Keep /\ UNCHANGED <<authority, state, active, debris, destination, call>>

CloseRun ==
  /\ pc = "close"
  /\ active' = NoRun
  /\ Goto("receipt", mem)
  /\ Keep /\ UNCHANGED <<authority, state, runs, debris, receipt, destination, call>>

WriteReceipt ==
  /\ pc = "receipt"
  /\ receipt' = TRUE
  /\ Goto("idle", NoState) /\ call' = NoCall
  /\ Keep /\ UNCHANGED <<authority, state, runs, active, debris, destination>>

\* The process dies, or a read, a write or a gesture is refused and the invocation
\* returns: what is durable stays, the locks are released.
Stop ==
  /\ pc # "idle"
  /\ Goto("idle", NoState) /\ call' = NoCall
  /\ ordering' = "free"
  /\ UNCHANGED <<durable, cancelled, expired, destination, invocations>>

Sealing == pc = "seal" \/ (Recovering /\ active.sequence = Len(runs) + 1)

\* It dies while it seals a run: WriteFile has made its temporary file, and what
\* would have removed it is gone.
StopSealing ==
  /\ Sealing
  /\ Goto("idle", NoState) /\ call' = NoCall
  /\ debris' = TRUE
  /\ Keep /\ UNCHANGED <<authority, state, runs, active, receipt, destination>>

-----------------------------------------------------------------------------
(* The world around an invocation.                                         *)

\* Mutant: cancellation does not take the ordering lock.
CancelUnordered ==
  /\ ~cancelled
  /\ cancelled' = TRUE
  /\ UNCHANGED <<durable, ordering, expired, destination, pc, mem, call, invocations>>

\* CancelApproved
Cancel ==
  /\ ordering = "free"
  /\ ~cancelled
  /\ cancelled' = TRUE
  /\ UNCHANGED <<durable, ordering, expired, destination, pc, mem, call, invocations>>

Expire ==
  /\ ~expired
  /\ expired' = TRUE
  /\ UNCHANGED <<durable, cancelled, ordering, destination, pc, mem, call, invocations>>

\* The destination applies a request: identities are unique there.
Apply(n) ==
  LET o == state.attempts[n].op
  IN /\ n \in inflight
     /\ inflight' = inflight \ {n}
     /\ remote' = [remote EXCEPT ![o] = IF @ = "none" THEN "same" ELSE @]
     /\ applied' = IF remote[o] = "none" THEN applied \cup {o} ELSE applied
     /\ UNCHANGED <<durable, cancelled, ordering, expired, sent, pc, mem, call,
                    invocations>>

\* Someone else takes the name or the identity.
Occupy(o) ==
  /\ remote[o] = "none"
  /\ remote' = [remote EXCEPT ![o] = "other"]
  /\ UNCHANGED <<durable, cancelled, ordering, expired, applied, sent, inflight, pc,
                 mem, call, invocations>>

Lose(o) ==
  /\ remote[o] = "same"
  /\ remote' = [remote EXCEPT ![o] = "none"]
  /\ UNCHANGED <<durable, cancelled, ordering, expired, applied, sent, inflight, pc,
                 mem, call, invocations>>

Init ==
  /\ authority = FALSE /\ cancelled = FALSE
  /\ state = NoState
  /\ runs = <<>> /\ active = NoRun
  /\ debris = FALSE /\ receipt = FALSE
  /\ ordering = "free" /\ expired = FALSE
  /\ remote = [o \in Operations |-> "none"]
  /\ applied = {} /\ sent = {} /\ inflight = {}
  /\ pc = "idle" /\ mem = NoState /\ call = NoCall
  /\ invocations = 0

Open ==
  \/ \E mode \in Modes : Begin(mode)
  \/ SealAuthority \/ Initialize \/ Resume
  \/ SealInterrupted \/ RemoveActive \/ OpenRun \/ StartRun \/ Plan

Observe ==
  \/ Skip \/ ObserveAcknowledged
  \/ \E o \in Operations :
       ObserveAbsent(o) \/ \E seen \in {"error", "conflict"} : ObserveFails(o, seen)

Send ==
  \/ Order \/ OrderFails \/ Reserve \/ ReserveRefused \/ ReserveFails
  \/ \E response \in Responses : Mutate(response)
  \/ Record \/ ReadbackAcknowledged
  \/ \E o \in Operations :
       ReadbackAbsent(o) \/ \E seen \in {"error", "conflict"} : ReadbackFails(o, seen)

Close ==
  \/ Conclude \/ SaveFinal \/ SealRun \/ CloseRun \/ WriteReceipt
  \/ Stop \/ StopSealing

World ==
  \/ Cancel \/ Expire
  \/ \E n \in inflight : Apply(n)
  \/ \E o \in Operations : Occupy(o) \/ Lose(o)

Next == Open \/ Observe \/ Send \/ Close \/ World

Spec == Init /\ [][Next]_vars

-----------------------------------------------------------------------------
(* Properties.                                                             *)

\* The documents are of the shapes validateApprovedState and loadApprovedHistory
\* accept, and the copy of an open invocation is one of them too.
Attempt == [op : Operations, run : Nat, outcome : AttemptOutcomes]
SealedRun == [outcome : RunOutcomes, invocation : Nat, attempts : SUBSET Nat]
Steps == {"idle", "authorise", "initialize", "resume", "recover", "open", "plan",
          "observe", "order", "reserve", "mutate", "record", "readback", "finish",
          "seal", "close", "receipt"}
Calls == [mode : Modes \cup {"none"}, gesture : BOOLEAN, at : Nat,
          result : RunOutcomes \cup Responses \cup {"none"}]
DeliveryState ==
  [status : Statuses, cancelled : BOOLEAN, op : [Operations -> OperationStates],
   unique : SUBSET Operations, attempts : Seq(Attempt)]

TypeOK ==
  /\ authority \in BOOLEAN /\ cancelled \in BOOLEAN /\ debris \in BOOLEAN
  /\ receipt \in BOOLEAN /\ expired \in BOOLEAN
  /\ state \in DeliveryState /\ mem \in DeliveryState
  /\ runs \in Seq(SealedRun)
  /\ active \in [sequence : Nat, invocation : Nat]
  /\ ordering \in {"free", "delivery"}
  /\ remote \in [Operations -> {"none", "same", "other"}]
  /\ applied \subseteq Operations
  /\ sent \subseteq DOMAIN state.attempts /\ inflight \subseteq sent
  /\ pc \in Steps /\ call \in Calls
  /\ invocations \in 0 .. MaxInvocations

\* A crash at any point leaves an active run that the next invocation can seal or
\* has seen sealed: never the one that approved_delivery_store.go refuses with
\* "active approved delivery run mismatch".
ActiveRunMatches ==
  active # NoRun =>
    \/ active.sequence = Len(runs) + 1
    \/ /\ active.sequence \in DOMAIN runs
       /\ runs[active.sequence].invocation = active.invocation

\* Every reserved attempt is in the sealed record of its run, also of a run that a
\* crash interrupted, and in no other.
RunsAttributed ==
  \A n \in DOMAIN runs : runs[n].attempts = AttemptsOfRun(state, n)

\* A receipt that reads as current accounts for every attempt: none of them is of a
\* run that is still open.
ReceiptIsWhole ==
  receipt =>
    \A n \in DOMAIN state.attempts : state.attempts[n].run \in DOMAIN runs

\* Wherever a crash falls between the durable writes, state, active run, run
\* records and receipt tell one story: no attempt is lost, counted twice or
\* left out of what a later invocation reads.
RecordsAgree == ActiveRunMatches /\ RunsAttributed /\ ReceiptIsWhole

\* A relation is sent only after both its entries were applied.
RelationsAfterEntries ==
  \A n \in sent : Ends[state.attempts[n].op] \subseteq applied

\* A delivery that reads as completed has had everything applied, whatever the
\* destination did with it since.
CompletedIsDelivered ==
  state.status = "completed" => Operations \subseteq applied

\* What the destination holds follows the batch: entries before their relations,
\* and everything before the delivery reads as completed.
DeliveredInOrder == RelationsAfterEntries /\ CompletedIsDelivered

\* Only an invocation that consumed a gesture reserves or sends.
SendIsAuthorised == pc \in {"reserve", "mutate"} => call.gesture

\* The one exception: the replay of a completed delivery may send again.
SendIsAuthorisedOrReplays == SendIsAuthorised \/ Operations \subseteq applied

\* Approved delivery implements the authority it was given: the reservation that is
\* durable before the send is the permit, and cancellation.json revokes.
Authority ==
  INSTANCE DeliveryAuthority WITH
    counted <- Len(state.attempts),
    permit <- IF pc = "mutate" THEN Len(mem.attempts) ELSE 0,
    spent <- sent,
    revoked <- cancelled
AuthorityImplemented == Authority!Spec
=============================================================================
