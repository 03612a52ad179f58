--------------------------- MODULE ActivationRun ---------------------------
(***************************************************************************)
(* One activation run of internal/activationapp: the mutex-held handlers   *)
(* that import, freeze, prove, review, preview, approve, deliver and       *)
(* confirm; the journal, the authority artifacts and the state file they   *)
(* write in that order; and the handlers that let go of the mutex while    *)
(* they talk to Product Brain.                                             *)
(*                                                                         *)
(* A handler is a list of durable steps done with the mutex held.  It runs *)
(* to its end, is refused at a step, or is cut short after any of a step's *)
(* writes by an error or by the end of the process.  Only the store of     *)
(* ApprovedDelivery, kept here to the part the app reads back, moves       *)
(* meanwhile; no step reads it, so a handler is one action.                *)
(***************************************************************************)
EXTENDS ActivationState, SequencesExt

CONSTANTS
  MaxApprovals,   \* gestures that approve a batch
  MaxRuns,        \* delivery runs the store seals
  MaxProofs,      \* recovery proofs
  MaxFaults       \* handlers cut short and leases lost

ASSUME BoundsAssumption ==
  {MaxApprovals, MaxRuns, MaxProofs, MaxFaults} \subseteq Nat

VARIABLES
  disk,       \* journal, artifacts and state file
  leftover,   \* an abandoned temporary file beside the journal
  up,         \* the process runs
  app,        \* App.state
  session,    \* what dies with the process besides app
  lost,       \* leaseErr: the lease could not be renewed
  store,      \* the approved delivery store under product-brain/
  approvals, proofs, faults,  \* counters of the bounds
  cut         \* a handler or a delivery did not run to its end

runVars == <<disk, leftover, up, app, session, lost, store,
            approvals, proofs, faults, cut>>

journal == disk.journal
bounds == <<approvals, proofs>>

EmptyDisk == [journal |-> EmptyJournal, artifacts |-> {}, file |-> None]

NewSession == [connected |-> FALSE, previewing |-> None, offered |-> FALSE,
               connecting |-> None, flight |-> None]

EmptyStore == [approval |-> None, cancelled |-> None, runs |-> 0,
               open |-> FALSE, barred |-> FALSE, receipt |-> None]

RunInit ==
  /\ disk = EmptyDisk /\ leftover = FALSE
  /\ up = FALSE /\ app = EmptyState /\ session = NewSession /\ lost = FALSE
  /\ store = EmptyStore
  /\ approvals = 0 /\ proofs = 0 /\ faults = 0 /\ cut = FALSE

-----------------------------------------------------------------------------
(* Durable steps.                                                          *)

Commit(domain, value, s) ==
  [do |-> "commit", domain |-> domain, value |-> value, state |-> s]
Refer(domain, value, s) ==
  [do |-> "record", domain |-> domain, value |-> value, state |-> s]
Move(to, s) == [do |-> "move", to |-> to, plan |-> s.plan, state |-> s]

Logged(log, step) ==
  IF step.do = "move" THEN Transitioned(log, step.to, step.plan)
  ELSE Referenced(log, step.domain, step.value, step.state)

Write(d, step, what) ==
  [journal |-> IF "journal" \in what THEN Logged(d.journal, step) ELSE d.journal,
   artifacts |-> d.artifacts \cup (IF "artifact" \in what THEN {step.state} ELSE {}),
   file |-> IF "file" \in what THEN step.state ELSE d.file]

\* Mutant: the journal refers to an artifact that is written after it.
WriteOrderJournalFirst(step) ==
  IF step.do = "commit" THEN <<"journal", "artifact", "file">>
  ELSE <<"journal">>
\* Mutant: a commit leaves the state file to the next one.
WriteOrderNoFile(step) ==
  IF step.do = "commit" THEN <<"artifact", "journal">> ELSE <<"journal">>
WriteOrder(step) ==
  IF step.do = "commit" THEN <<"artifact", "journal", "file">>
  ELSE <<"journal">>

\* Artifacts are never removed; of those the journal has left behind nothing
\* is read again.
Needed(d) == [d EXCEPT !.artifacts = @ \cap {d.journal.latest}]

\* The first k of a step's writes, and a step with all of them.
Written(d, step, k) == Needed(Write(d, step, {WriteOrder(step)[j] : j \in 1..k}))
Whole(d, step) == Written(d, step, Len(WriteOrder(step)))

\* The disk after each number of whole steps.
Done(d, steps) ==
  LET done[n \in 0..Len(steps)] ==
        IF n = 0 THEN d ELSE Whole(done[n - 1], steps[n])
  IN done

Admits(d, step) ==
  IF step.do = "move" THEN Accepts(d.journal, step.to, step.plan) ELSE ~lost

\* The steps the handler gets to: all before it were admitted and done.
Reached(d, steps) ==
  {n \in DOMAIN steps : \A m \in 1..n - 1 : Admits(Done(d, steps)[m - 1], steps[m])}

-----------------------------------------------------------------------------
(* How a handler ends.  `after' is the session when all steps are done,    *)
(* `begun' when the handler returns an error.                              *)

\* A commit seals the state anew; a connection under verification was asked for
\* under the seal before.
Resealed(s, steps, n) ==
  IF s.connecting # None
     /\ \E m \in 1..n : steps[m].do = "commit" /\ steps[m].state # app
  THEN [s EXCEPT !.connecting.current = FALSE] ELSE s

ProcessEnds ==
  /\ up' = FALSE /\ app' = EmptyState /\ session' = NewSession
  /\ lost' = FALSE

Finishes(d, steps, after) ==
  /\ \A n \in DOMAIN steps : Admits(Done(d, steps)[n - 1], steps[n])
  /\ disk' = Done(d, steps)[Len(steps)]
  /\ app' = IF steps = <<>> THEN app ELSE Last(steps).state
  /\ up' = TRUE /\ session' = Resealed(after, steps, Len(steps))
  /\ UNCHANGED <<leftover, lost, faults, cut>>

Fails(n, steps) == app' = steps[n].state /\ UNCHANGED <<up, lost>>

IsRefused(d, steps, n) ==
  /\ n \in Reached(d, steps) /\ ~Admits(Done(d, steps)[n - 1], steps[n])
  /\ disk' = Done(d, steps)[n - 1]
  /\ cut' = TRUE
  /\ UNCHANGED <<leftover, faults>>

\* After k of the writes of step n; a process that ends while it replaces the
\* journal may leave its temporary file.
IsCut(d, steps, n, k, leaves) ==
  /\ faults < MaxFaults /\ faults' = faults + 1
  /\ n \in Reached(d, steps) /\ Admits(Done(d, steps)[n - 1], steps[n])
  /\ disk' = Written(Done(d, steps)[n - 1], steps[n], k)
  /\ leftover' = (leftover \/ leaves)
  /\ cut' = TRUE

Crashes(d, steps) ==
  \E n \in DOMAIN steps : \E k \in 0..Len(WriteOrder(steps[n])) :
    \E leaves \in BOOLEAN :
      /\ leaves => /\ k < Len(WriteOrder(steps[n]))
                   /\ WriteOrder(steps[n])[k + 1] = "journal"
      /\ IsCut(d, steps, n, k, leaves) /\ ProcessEnds

Handle(steps, begun, after) ==
  /\ up
  /\ \/ Finishes(disk, steps, after)
     \/ \E n \in DOMAIN steps :
          /\ Fails(n, steps)
          /\ \/ /\ IsRefused(disk, steps, n)
                /\ session' = Resealed(begun, steps, n - 1)
             \/ /\ \E k \in 0..Len(WriteOrder(steps[n])) :
                     IsCut(disk, steps, n, k, FALSE)
                /\ session' = Resealed(begun, steps, n)
     \/ Crashes(disk, steps)

Perform(steps) == Handle(steps, session, session)

-----------------------------------------------------------------------------
(* The process.                                                            *)

Sealed == IF store.open THEN None ELSE store.receipt
Valid(s) == ValidState(s, Sealed, store.cancelled # None)

Restores == journal.latest # None /\ disk.file # journal.latest
Restored == IF Restores THEN [disk EXCEPT !.file = journal.latest] ELSE disk
Loaded == IF Restored.file = None THEN EmptyState ELSE Restored.file

\* The conditions under which New returns an app.
StartAccepted ==
  /\ ~leftover
  /\ disk.file # None => Valid(disk.file)
  /\ Restores => journal.latest \in disk.artifacts /\ Valid(journal.latest)
  /\ Agrees(Loaded, journal)
  /\ journal.stage \in Completed => Loaded.route # None

\* A proof whose last review was kept is completed; then the pre-live
\* authorization is committed again.
StartSteps(s) ==
  (IF journal.stage = "proof_processing" /\ s.plan # None /\ Reviewed(s)
   THEN <<Move("proof_complete", s)>> ELSE <<>>)
  \o <<Commit("pre_live_authorization", "receipt", s)>>

Start ==
  /\ ~up /\ StartAccepted
  /\ LET steps == StartSteps(Loaded)
     IN \/ Finishes(Restored, steps, NewSession)
        \/ ProcessEnds /\ \E n \in DOMAIN steps : IsRefused(Restored, steps, n)
        \/ Crashes(Restored, steps)
  /\ UNCHANGED <<store, bounds>>

\* Close, or the end of the process: a delivery under way is abandoned.
Exit ==
  /\ up /\ ProcessEnds
  /\ cut' = (cut \/ session.flight # None \/ session.connecting # None)
  /\ UNCHANGED <<disk, leftover, store, bounds, faults>>

LoseLease ==
  /\ up /\ ~lost /\ faults < MaxFaults
  /\ lost' = TRUE /\ faults' = faults + 1 /\ cut' = TRUE
  /\ UNCHANGED <<disk, leftover, up, app, session, store, bounds>>

-----------------------------------------------------------------------------
(* Inventory, strategy, freeze and proof.                                  *)

Import(i) ==
  /\ journal.stage \in {"none", "configured", "inventorying"}
  /\ LET s == ResetProof([app EXCEPT !.inventory = i])
     IN Perform(<<Commit("inventory", i, s)>>)
  /\ UNCHANGED <<store, bounds>>

SaveStrategy(t) ==
  /\ app.plan = None
  /\ LET s == ResetProof([app EXCEPT !.strategy = t])
     IN Perform(<<Commit("strategy", t, s)>>)
  /\ UNCHANGED <<store, bounds>>

\* The four transitions that lead to a selected proof, from the one the run
\* has reached, and the queue.
Freeze ==
  /\ app.inventory # None /\ app.strategy # None /\ app.plan = None
  /\ LET plan == [inventory |-> app.inventory, strategy |-> app.strategy]
         s == [app EXCEPT !.plan = plan]
         at == StageNumber(journal.stage)
         moves == [n \in 1..5 - at |->
                    [Move(Stages[at + n], s) EXCEPT !.state = app]]
     IN /\ at <= 5
        /\ Perform(moves \o <<Commit("queue", Queue(s), s)>>)
  /\ UNCHANGED <<store, bounds>>

\* Mutant: the transition comes before what it rests on.
CompletionMovesFirst(s, route) ==
  LET done == ResetDestination([s EXCEPT !.route = route, !.reviewed = TRUE])
  IN <<Move("proof_complete", done), Commit("queue", Queue(done), done),
       Commit("review", done.reviews, done)>>
\* Mutant: the reviewed queue is kept but not referred to.
CompletionDropsQueue(s, route) ==
  LET done == ResetDestination([s EXCEPT !.route = route, !.reviewed = TRUE])
  IN <<Commit("review", done.reviews, done), Move("proof_complete", done)>>
\* The route, the reviewed queue, the reviews and the transition.
Completion(s, route) ==
  LET done == ResetDestination([s EXCEPT !.route = route, !.reviewed = TRUE])
  IN <<Commit("queue", Queue(done), done),
       Commit("review", done.reviews, done), Move("proof_complete", done)>>

StartProof ==
  /\ app.plan # None /\ journal.stage \in {"proof_selected", "proof_processing"}
  /\ LET items == Selected[app.inventory]
         auto == items \cap Manual
         s == ResetDestination(
                [app EXCEPT !.processed = TRUE, !.reviews = auto,
                            !.route = IF items = {} THEN "empty" ELSE None,
                            !.reviewed = @ \/ items = {}])
         begin == IF journal.stage = "proof_selected"
                  THEN <<Move("proof_processing", app)>> ELSE <<>>
         rest == CASE items = {} -> <<Refer("queue", Queue(s), s),
                                      Move("proof_complete", s)>>
                   [] items # {} /\ auto = items -> Completion(s, "empty")
                   [] auto \notin {{}, items} -> <<Commit("review", auto, s)>>
                   [] OTHER -> <<>>
     IN Perform(begin \o <<Commit("processing", s.plan, s)>> \o rest)
  /\ UNCHANGED <<store, bounds>>

ReviewItem(item, route) ==
  /\ app.processed /\ ~app.preview
  /\ item \in Selected[app.inventory] \ app.reviews
  /\ LET s == [app EXCEPT !.reviews = @ \cup {item}]
         partial == ResetDestination(s)
     IN Perform(IF s.reviews = Selected[app.inventory]
                THEN Completion(s, route)
                ELSE <<Commit("review", s.reviews, partial)>>)
  /\ UNCHANGED <<store, bounds>>

-----------------------------------------------------------------------------
(* Preview.  The outbox is compiled with the mutex held and the preflight  *)
(* made without it; a preview that a later one replaces ends with an error.*)

StartPreview ==
  /\ up /\ session.flight = None /\ app.route # None /\ session.connected
  /\ session' = [session EXCEPT !.previewing =
                   [route |-> app.route, current |-> TRUE]]
  /\ UNCHANGED <<disk, leftover, up, app, lost, store, bounds, faults, cut>>

\* Mutant: the route is not looked at again when the preflight is back.
PreviewStandsForAnyRoute ==
  /\ session.flight = None /\ session.connected
  /\ session.previewing.current
\* Mutant: nor is the delivery flag.
PreviewStandsInFlight ==
  /\ session.connected
  /\ session.previewing.current
  /\ app.route = session.previewing.route
PreviewStands ==
  /\ session.flight = None /\ session.connected
  /\ session.previewing.current
  /\ app.route = session.previewing.route

FinishPreview ==
  /\ session.previewing # None /\ PreviewStands
  /\ LET s == [app EXCEPT !.outbox = session.previewing.route,
                          !.preview = TRUE, !.approval = None,
                          !.delivery = None, !.founder = None]
         begun == [session EXCEPT !.previewing = None, !.offered = FALSE]
     IN Handle(<<Commit("outbox", s.outbox, s)>>, begun,
               [begun EXCEPT !.offered = TRUE])
  /\ UNCHANGED <<store, bounds>>

DropPreview ==
  /\ session.previewing # None
  /\ session' = [session EXCEPT !.previewing = None]
  /\ UNCHANGED <<disk, leftover, up, app, lost, store, bounds, faults, cut>>

-----------------------------------------------------------------------------
(* Approval and delivery.                                                  *)

\* The control server offers the gesture once for every preview it returned.
Approvable ==
  /\ session.offered /\ session.connected
  /\ app.preview /\ app.outbox # None

Approved == [session EXCEPT !.offered = FALSE]
Launched(s, a) ==
  [s EXCEPT !.flight = [approval |-> a, opened |-> FALSE, receipt |-> None]]

Approve ==
  /\ Approvable /\ approvals < MaxApprovals
  /\ approvals' = approvals + 1
  /\ \/ /\ app.outbox = "empty"
        /\ LET receipt == ZeroReceipt(approvals')
           IN Handle(<<Commit("delivery", receipt,
                              [app EXCEPT !.delivery = receipt])>>,
                     Approved, Approved)
     \/ /\ app.outbox = "drafts" /\ session.flight = None
        /\ Handle(<<Commit("approval", approvals',
                           [app EXCEPT !.approval = approvals'])>>,
                  Approved, Launched(Approved, approvals'))
  /\ UNCHANGED <<store, proofs>>

\* The consent names the approval it resumes.
ResumeDelivery ==
  /\ session.flight = None /\ session.connected
  /\ app.approval # None /\ app.outbox = "drafts"
  /\ app.delivery # None => app.delivery.status # "completed"
  /\ Handle(<<Commit("delivery_resume", app.approval,
                     [app EXCEPT !.resume = app.approval])>>,
            session, Launched(session, app.approval))
  /\ UNCHANGED <<store, bounds>>

IsCompleted(r) == r # None /\ r.status = "completed"

\* The store is bound to its first approval and obeys only its cancellation.
Binds(a) == store.approval \in {None, a}
Opens(a) ==
  /\ Binds(a) /\ store.cancelled \in {None, a}
  /\ store.runs + (IF store.open THEN 2 ELSE 1) <= MaxRuns

\* An interrupted run is sealed before the next one starts.
Opened(a) ==
  [store EXCEPT !.approval = a, !.open = TRUE,
                !.runs = IF store.open THEN @ + 1 ELSE @,
                !.barred = store.cancelled # None /\ ~IsCompleted(store.receipt)]
\* Mutant: a receipt is numbered by the runs sealed before it.
SealedByEarlier(opened, status) ==
  LET receipt == [approval |-> opened.approval, run |-> opened.runs,
                  status |-> status]
  IN [opened EXCEPT !.open = FALSE, !.runs = @ + 1, !.receipt = receipt]
SealedBy(opened, status) ==
  LET receipt == [approval |-> opened.approval, run |-> opened.runs + 1,
                  status |-> status]
  IN [opened EXCEPT !.open = FALSE, !.runs = @ + 1, !.receipt = receipt]
MayEnd(opened, status) == opened.barred => status = "partial"

FlightOpens ==
  /\ session.flight # None /\ ~session.flight.opened
  /\ Opens(session.flight.approval)
  /\ store' = Opened(session.flight.approval)
  /\ session' = [session EXCEPT !.flight.opened = TRUE]
  /\ UNCHANGED <<disk, leftover, up, app, lost, bounds, faults, cut>>

FlightSeals(status) ==
  /\ session.flight # None /\ session.flight.opened
  /\ session.flight.receipt = None /\ MayEnd(store, status)
  /\ store' = SealedBy(store, status)
  /\ session' = [session EXCEPT !.flight.receipt = store'.receipt]
  /\ UNCHANGED <<disk, leftover, up, app, lost, bounds, faults, cut>>

\* An error without a receipt: before the run, which may have bound the store,
\* or in it, which leaves it open.
FlightFails ==
  /\ session.flight # None /\ session.flight.receipt = None
  /\ \/ UNCHANGED store
     \/ /\ Binds(session.flight.approval)
        /\ store' = [store EXCEPT !.approval = session.flight.approval]
  /\ session' = [session EXCEPT !.flight = None]
  /\ cut' = (cut \/ session.flight.opened)
  /\ UNCHANGED <<disk, leftover, up, app, lost, bounds, faults>>

LinkReceipt ==
  /\ session.flight # None /\ session.flight.receipt # None
  /\ LET receipt == session.flight.receipt
         after == [session EXCEPT !.flight = None]
     IN Handle(<<Commit("delivery", receipt,
                        [app EXCEPT !.delivery = receipt])>>, after, after)
  /\ UNCHANGED <<store, bounds>>

CancelDelivery ==
  /\ up /\ app.approval # None
  /\ store.cancelled \in {None, app.approval} /\ Binds(app.approval)
  /\ store' = [store EXCEPT !.cancelled = app.approval]
  /\ Perform(<<Commit("cancellation", TRUE, [app EXCEPT !.cancelled = TRUE])>>)
  /\ UNCHANGED bounds

-----------------------------------------------------------------------------
(* The destination connection.                                             *)

\* connectionGeneration moves on: what was captured of it no longer stands.
Outdated(s) ==
  LET old(captured) == IF captured = None THEN None
                       ELSE [captured EXCEPT !.current = FALSE]
  IN [s EXCEPT !.previewing = old(@), !.connecting = old(@)]

Disconnect ==
  /\ up /\ session.connected
  /\ session' = [Outdated(session) EXCEPT !.connected = FALSE]
  /\ UNCHANGED <<disk, leftover, up, app, lost, store, bounds, faults, cut>>

Connecting(connecting) ==
  session' = [session EXCEPT !.connecting = connecting]

StartConnect ==
  /\ up /\ session.flight = None /\ session.connecting = None
  /\ Connecting([current |-> TRUE, verified |-> FALSE, clear |-> FALSE,
                 receipt |-> None])
  /\ UNCHANGED <<disk, leftover, up, app, lost, store, bounds, faults, cut>>

DeliveryRuns ==
  /\ session.flight # None
  /\ session.flight.opened /\ session.flight.receipt = None

\* The approval's authority is read back: it may be missing, end in a new
\* receipt, or fail with or without one.
Reconcile(status) ==
  /\ session.connecting # None /\ ~session.connecting.verified
  /\ LET a == app.approval
         is(clear, receipt) ==
           Connecting([session.connecting EXCEPT !.verified = TRUE,
                         !.clear = clear, !.receipt = receipt])
     IN \/ /\ a = None \/ app.outbox # "drafts"
           /\ is(FALSE, None) /\ UNCHANGED <<store, cut>>
        \/ /\ a # None /\ app.outbox = "drafts" /\ store.approval = None
           /\ is(TRUE, None) /\ UNCHANGED <<store, cut>>
        \/ /\ a # None /\ app.outbox = "drafts" /\ store.approval = a
           /\ ~DeliveryRuns /\ Opens(a) /\ MayEnd(Opened(a), status)
           /\ store' = SealedBy(Opened(a), status)
           /\ \/ is(FALSE, store'.receipt) /\ UNCHANGED cut
              \/ Connecting(None) /\ cut' = TRUE
        \/ Connecting(None) /\ UNCHANGED <<store, cut>>
  /\ UNCHANGED <<disk, leftover, up, app, lost, bounds, faults>>

FinishConnect ==
  /\ session.connecting # None /\ session.connecting.verified
  /\ LET c == session.connecting
         stands == session.flight = None /\ c.current
         s == IF c.clear
              THEN [app EXCEPT !.destination = TRUE, !.preview = FALSE,
                               !.approval = None]
              ELSE [app EXCEPT !.destination = TRUE]
         after == [Outdated([session EXCEPT !.connecting = None])
                     EXCEPT !.connected = TRUE]
         link == IF c.receipt = None THEN <<>>
                 ELSE <<Commit("delivery", c.receipt,
                               [s EXCEPT !.delivery = c.receipt])>>
     IN \/ /\ stands
           /\ Handle(<<Commit("destination", TRUE, s)>> \o link, after, after)
        \/ /\ ~stands /\ Connecting(None)
           /\ cut' = (cut \/ c.receipt # None)
           /\ UNCHANGED <<disk, leftover, up, app, lost, faults>>
  /\ UNCHANGED <<store, bounds>>

-----------------------------------------------------------------------------
(* The founder's verdict and the confirmation of the drain.                *)

\* The recovery proof rereads the journal the first commit has just written,
\* so it finds the queue it looks for.
FounderReview ==
  /\ app.delivery # None /\ proofs < MaxProofs
  /\ proofs' = proofs + 1
  /\ LET s == [app EXCEPT !.founder = app.delivery]
     IN Perform(<<Commit("founder_review", s.founder, s),
                  Commit("recovery", proofs',
                         [s EXCEPT !.recovery = proofs'])>>)
  /\ UNCHANGED <<store, approvals>>

ConfirmDrain ==
  /\ ReadyToConfirm(app, journal)
  /\ LET s == [app EXCEPT !.confirmed = TRUE]
         move == IF journal.stage = "drain_confirmed" THEN <<>>
                 ELSE <<Move("drain_confirmed", app)>>
     IN Perform(move \o <<Commit("drain_confirmation", Queue(s), s),
                          Refer("readiness", "ready", s)>>)
  /\ UNCHANGED <<store, bounds>>

-----------------------------------------------------------------------------

Prepare ==
  \/ \E i \in Inventories : Import(i)
  \/ \E t \in Strategies : SaveStrategy(t)
  \/ Freeze
  \/ StartProof
  \/ \E item \in Items, route \in Routes : ReviewItem(item, route)

Deliver ==
  \/ StartPreview \/ FinishPreview \/ DropPreview
  \/ Approve \/ ResumeDelivery \/ CancelDelivery
  \/ FlightOpens \/ FlightFails \/ LinkReceipt
  \/ \E status \in {"completed", "partial"} : FlightSeals(status)

Connect ==
  \/ Disconnect \/ StartConnect \/ FinishConnect
  \/ \E status \in {"completed", "partial"} : Reconcile(status)

RunNext ==
  \/ Start \/ Exit \/ LoseLease
  \/ Prepare \/ Deliver \/ Connect
  \/ FounderReview \/ ConfirmDrain

RunSpec == RunInit /\ [][RunNext]_runVars

-----------------------------------------------------------------------------
(* Properties.                                                             *)

Plans == [inventory : Inventories, strategy : Strategies]
Receipts ==
  [approval : {None} \cup 1..MaxApprovals, run : 1..MaxApprovals + MaxRuns,
   status : {"zero", "partial", "completed"}]

States ==
  [inventory : {None} \cup Inventories, strategy : {None} \cup Strategies,
   plan : {None} \cup Plans,
   reviewed : BOOLEAN, processed : BOOLEAN, reviews : SUBSET Items,
   route : {None} \cup Routes, destination : BOOLEAN,
   outbox : {None} \cup Routes, preview : BOOLEAN,
   approval : {None} \cup 1..MaxApprovals,
   resume : {None} \cup 1..MaxApprovals,
   delivery : {None} \cup Receipts, cancelled : BOOLEAN,
   founder : {None} \cup Receipts, recovery : {None} \cup 1..MaxProofs,
   confirmed : BOOLEAN]

Sessions ==
  [connected : BOOLEAN, offered : BOOLEAN,
   previewing : {None} \cup [route : {None} \cup Routes, current : BOOLEAN],
   connecting : {None} \cup [current : BOOLEAN, verified : BOOLEAN,
                            clear : BOOLEAN, receipt : {None} \cup Receipts],
   flight : {None} \cup [approval : 1..MaxApprovals, opened : BOOLEAN,
                        receipt : {None} \cup Receipts]]

Stores ==
  [approval : {None} \cup 1..MaxApprovals, cancelled : {None} \cup 1..MaxApprovals,
   runs : 0..MaxRuns, open : BOOLEAN, barred : BOOLEAN,
   receipt : {None} \cup Receipts]

\* No route, no state and no receipt is taken for an absent one.
ASSUME AbsenceAssumption == None \notin Routes \cup States \cup Receipts

\* Every variable has its type: the app's state, in memory, in the file and
\* behind the journal, and the receipts of the store.
RunTypeOK ==
  /\ app \in States /\ disk.file \in {None} \cup States
  /\ journal.latest \in {None} \cup States /\ disk.artifacts \subseteq States
  /\ \E n \in DOMAIN Stages : journal.stage = Stages[n]
  /\ journal.plan \in {None} \cup Plans /\ DOMAIN journal.refs = Domains
  /\ session \in Sessions /\ store \in Stores
  /\ {leftover, up, lost, cut} \subseteq BOOLEAN
  /\ approvals \in 0..MaxApprovals /\ proofs \in 0..MaxProofs
  /\ faults \in 0..MaxFaults

\* A start can always restore what the journal refers to: wherever a handler
\* was cut short, the artifact of the latest reference is on disk
\* (commitAuthorityLocked writes it before the journal).
ProjectionIsKept == journal.latest # None => journal.latest \in disk.artifacts

\* The journal never completes a proof whose reviews, route and reviewed queue
\* it cannot restore, whatever was cut short and however often the run was
\* started again (completeProofReviewsLocked, startProofLocked and the
\* completion in reconcileRunProjection).
CompletedProofIsReviewed ==
  journal.stage \in Completed =>
    /\ journal.latest # None /\ Reviewed(journal.latest)
    /\ journal.latest.plan = journal.plan

\* From the start of the proof on, a state the journal refers to has no plan
\* but the one the run was configured with, even when a freeze was cut short
\* and the strategy saved again before the next one (HandleCommand refuses a
\* drift).
ProofKeepsItsPlan ==
  /\ StageNumber(journal.stage) >= StageNumber("proof_processing")
  /\ journal.latest # None
  => journal.latest.plan \in {None, journal.plan}

\* A proof that completes is a reviewed one, and of the plan it was frozen with,
\* across cut freezes, saves of the strategy and restarts.
ProofIsOfItsPlan == CompletedProofIsReviewed /\ ProofKeepsItsPlan

\* While Product Brain is being written to, the app's state and the durable
\* one still name the approval the delivery acts on: no handler that runs
\* meanwhile may withdraw or replace it (deliveryInFlight).
FlightIsApproved ==
  session.flight # None /\ ~cut =>
    /\ app.approval = session.flight.approval
    /\ journal.latest.approval = session.flight.approval

\* Between handlers that all ran to their end, memory, the file and the
\* artifact the journal refers to are the same state.
MemoryIsDurable ==
  up /\ ~cut => /\ app = disk.file
                /\ app = journal.latest

\* As long as every handler ran to its end, the artifacts of the durable state
\* are the ones the journal refers to, so that reconcileRunProjection finds no
\* conflict.
ReferencesAgree ==
  ~cut /\ journal.latest # None => Agrees(journal.latest, journal)

\* Memory, the state file, the artifact and the journal never drift apart: what
\* the journal refers to can be restored wherever a handler was cut short, and
\* between handlers that ran to their end all four agree.
StateIsDurable == ProjectionIsKept /\ MemoryIsDurable /\ ReferencesAgree

\* An outbox in memory is the compiled form of the route in memory: a preview
\* whose preflight came back after the proof was started again does not put
\* back a batch of the old route (PreviewBatch).
OutboxIsOfTheRoute == app.outbox # None => app.outbox = app.route

\* Answers that come back late change nothing they were not asked for: neither
\* the approval a delivery in flight acts on nor the batch of a newer route.
AnswersAreCurrent == FlightIsApproved /\ OutboxIsOfTheRoute

\* The journal confirms a drain only over a durable state in which the founder
\* judged a completed delivery and the recovery was proved, as long as every
\* handler ran to its end (confirm_experimental_drain).
ConfirmsOnEvidence ==
  [][ journal.stage # "drain_confirmed" /\ journal'.stage = "drain_confirmed"
        /\ ~cut'
      => /\ journal.latest # None /\ TrustedActivation(journal.latest)
         /\ journal.latest.recovery # None
         /\ journal.refs["founder_review"] = journal.latest.founder ]_runVars

\* A process that stopped after handlers that all ran to their end can be
\* started again: New accepts the run it left.
CleanRunsRestart == ~up /\ ~cut => StartAccepted

\* The verdict the run keeps is about the receipt it keeps.
FounderReviewBindsReceipt ==
  journal.latest # None /\ journal.latest.founder # None
  => journal.latest.founder = journal.latest.delivery
=============================================================================
