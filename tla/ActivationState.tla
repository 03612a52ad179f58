-------------------------- MODULE ActivationState --------------------------
(***************************************************************************)
(* What an activation run keeps: the persisted state of                    *)
(* internal/activationapp and the aggregate that internal/orchestration    *)
(* rebuilds from the run journal.  Everything here is a value or a         *)
(* function of values; ActivationRun has the steps.                        *)
(*                                                                         *)
(* A fingerprint is the value it is taken of, so two artifacts have the    *)
(* same fingerprint when they are equal.  Plan, Sample and Queue are made  *)
(* and dropped together and are kept as `plan', with `reviewed' for the    *)
(* state of the queue's selected items.                                    *)
(***************************************************************************)
EXTENDS Integers, Sequences, FiniteSets

CONSTANTS
  None,           \* an absent artifact
  Inventories,    \* the inventories that may be imported
  Strategies,     \* the strategies that may be saved
  Selected,       \* the items the proof samples from each inventory
  Manual          \* the items whose proposal is routed to manual support

ASSUME ActivationAssumption ==
  /\ Inventories # {} /\ Strategies # {}
  /\ None \notin Inventories \cup Strategies
  /\ DOMAIN Selected = Inventories
  /\ \A i \in Inventories : IsFiniteSet(Selected[i])

Items == UNION {Selected[i] : i \in Inventories}

-----------------------------------------------------------------------------
(* The persisted state.                                                    *)

EmptyState ==
  [inventory |-> None, strategy |-> None, plan |-> None, reviewed |-> FALSE,
   processed |-> FALSE, reviews |-> {}, route |-> None, destination |-> FALSE,
   outbox |-> None, preview |-> FALSE, approval |-> None, resume |-> None,
   delivery |-> None, cancelled |-> FALSE, founder |-> None,
   recovery |-> None, confirmed |-> FALSE]

\* A route compiles to a batch with drafts or, when nothing was promoted, to an
\* empty one; the receipt of an empty batch is the app's own.
Routes == {"empty", "drafts"}
ZeroReceipt(n) == [approval |-> None, run |-> n, status |-> "zero"]

ResetDestination(s) ==
  [s EXCEPT !.outbox = None, !.preview = FALSE, !.approval = None,
            !.delivery = None, !.cancelled = FALSE, !.founder = None,
            !.recovery = None, !.confirmed = FALSE, !.resume = None]

ResetProof(s) ==
  ResetDestination([s EXCEPT !.plan = None, !.reviewed = FALSE,
                             !.processed = FALSE, !.reviews = {},
                             !.route = None])

-----------------------------------------------------------------------------
(* The aggregate of the run journal.                                       *)

Domains == {"inventory", "strategy", "destination", "queue", "processing",
            "review", "outbox", "approval", "cancellation", "delivery",
            "delivery_resume", "founder_review", "recovery",
            "drain_confirmation"}

\* The stages the app drives a run through, in order; it never pauses, cancels
\* or starts the drain.
Stages == <<"none", "configured", "inventorying", "inventory_frozen",
            "proof_selected", "proof_processing", "proof_complete",
            "drain_confirmed">>
StageNumber(stage) == CHOOSE n \in DOMAIN Stages : Stages[n] = stage
Completed == {"proof_complete", "drain_confirmed"}

EmptyJournal ==
  [stage |-> "none", plan |-> None, refs |-> [d \in Domains |-> None],
   latest |-> None]

\* Mutant: a command may carry a plan the run was not configured with.
AcceptsAnyPlan(journal, to, plan) ==
  /\ plan # None
  /\ StageNumber(to) = StageNumber(journal.stage) + 1
Accepts(journal, to, plan) ==
  /\ plan # None
  /\ journal.plan \in {None, plan}
  /\ StageNumber(to) = StageNumber(journal.stage) + 1

Transitioned(journal, to, plan) ==
  [journal EXCEPT !.stage = to, !.plan = IF @ = None THEN plan ELSE @]

Referenced(journal, domain, value, state) ==
  [journal EXCEPT !.refs = IF domain \in Domains
                           THEN [@ EXCEPT ![domain] = value] ELSE @,
                  !.latest = state]

-----------------------------------------------------------------------------
(* What the state and the journal say of each other.                       *)

\* The queue projection and the state of its selected items.
Queue(s) == IF s.plan = None THEN None ELSE <<s.plan.inventory, s.reviewed>>

CurrentAuthority(s) ==
  [d \in Domains |->
    CASE d = "inventory" -> s.inventory
      [] d = "strategy" -> s.strategy
      [] d = "destination" -> IF s.destination THEN s.destination ELSE None
      [] d = "queue" -> Queue(s)
      [] d = "processing" -> IF s.processed THEN s.plan ELSE None
      [] d = "review" -> IF s.reviews = {} THEN None ELSE s.reviews
      [] d = "outbox" -> s.outbox
      [] d = "approval" -> s.approval
      [] d = "cancellation" -> IF s.cancelled THEN s.cancelled ELSE None
      [] d = "delivery" -> s.delivery
      [] d = "delivery_resume" -> s.resume
      [] d = "founder_review" -> s.founder
      [] d = "recovery" -> s.recovery
      [] d = "drain_confirmation" -> IF s.confirmed THEN Queue(s) ELSE None]

\* A start refuses a state one of whose artifacts is not the one the journal
\* refers to; an artifact only one of the two knows is passed over.
Agrees(s, journal) ==
  LET current == CurrentAuthority(s)
  IN \A d \in Domains : current[d] # None /\ journal.refs[d] # None
                          => current[d] = journal.refs[d]

Reviewed(s) == s.route # None /\ s.reviews = Selected[s.inventory]

\* What the persisted state is held to when it is loaded; `sealed' is the
\* receipt Product Brain reads back, `withdrawn' its cancellation.
ValidState(s, sealed, withdrawn) ==
  /\ s.plan # None =>
       s.plan = [inventory |-> s.inventory, strategy |-> s.strategy]
  /\ s.plan # None /\ s.route = None => ~s.reviewed
  /\ s.route # None => s.processed /\ s.reviews = Selected[s.inventory]
  /\ s.delivery # None /\ s.delivery.status # "zero" => s.delivery = sealed
  /\ s.cancelled => withdrawn
  /\ s.recovery # None => s.plan # None
  /\ s.confirmed => s.plan # None
  /\ s.resume # None => s.resume = s.approval

\* A delivery the founder judged, of a batch with drafts or without.
TrustedActivation(s) ==
  /\ s.founder # None /\ s.delivery # None
  /\ s.delivery.status \in {"zero", "completed"}
  /\ (s.delivery.status = "zero") = (s.founder.status = "zero")

ConfirmationValid(s, journal) ==
  /\ s.confirmed /\ s.plan # None
  /\ journal.refs["drain_confirmation"] = Queue(s)

\* Everything the experimental drain waits for but the delivery.
ProofReady(s) ==
  /\ s.plan # None /\ Reviewed(s) /\ s.reviewed
  /\ s.outbox # None /\ s.preview

Confirmed(s, journal) ==
  journal.stage = "drain_confirmed" /\ ConfirmationValid(s, journal)

\* Mutant: a delivery is as good as a judged delivery.
ReadyUnjudged(s, journal) ==
  /\ ProofReady(s)
  /\ s.recovery # None /\ journal.refs["recovery"] = s.recovery
  /\ ~Confirmed(s, journal)
\* Every condition of the experimental drain holds but its confirmation.
ReadyToConfirm(s, journal) ==
  /\ ProofReady(s)
  /\ s.recovery # None /\ journal.refs["recovery"] = s.recovery
  /\ TrustedActivation(s)
  /\ ~Confirmed(s, journal)
=============================================================================
