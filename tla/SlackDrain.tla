----------------------------- MODULE SlackDrain -----------------------------
(***************************************************************************)
(* How a run's Slack channel is connected and drained: the requests of     *)
(* internal/activationapp/source.go, the session registry they take their  *)
(* credential from, the durable budget that every call to Slack is charged *)
(* to, and the checkpoint of the drain.                                    *)
(*                                                                         *)
(* A request holds the app's mutex only at its two ends, and talks to      *)
(* Slack in between; other requests, a disconnect and a change of run come *)
(* there.  A window stands for the channel and the interval that a run     *)
(* reserves; the interval ends at the time of the reservation, so a window *)
(* belongs to one run.  Of the budget's totals, requests, items and        *)
(* retries are kept; the cost moves with the requests, and the bytes are   *)
(* left out.  The probe of a connect is left out as well: it is charged    *)
(* to a budget in memory that goes when it ends.                           *)
(***************************************************************************)
EXTENDS Naturals

CONSTANTS
  None,
  Runs, Channels,
  Requests,        \* HTTP requests a browser may have under way
  MaxCalls, MaxItems, MaxRetries,  \* the budget of a run's drain policy
  PageItems,       \* the limit a page is asked for
  Pages,           \* pages the window has
  MaxSessions, MaxSwitches, MaxFaults

ASSUME DrainAssumption ==
  /\ None \notin Runs \cup Channels
  /\ {MaxCalls, MaxItems, PageItems, Pages} \subseteq Nat \ {0}
  /\ {MaxRetries, MaxSessions, MaxSwitches, MaxFaults} \subseteq Nat

VARIABLES
  app,         \* the process: its run, its connection, the run it is opening
  drawn, live, \* the leases its registries gave out, and those in force
  runs,        \* what each run's directory holds
  jobs,        \* the requests under way
  switches, faults,
  wire,        \* what Slack was asked for and gave, by run; `thrown': some of it
               \* was read, or was more than asked for, and no charge is left for it
  crossed      \* runs reached by a request that began under another

leases == <<drawn, live>>
vars == <<app, drawn, live, runs, jobs, switches, faults, wire, crossed>>

NoLedger == [calls |-> 0, items |-> 0, retries |-> 0, open |-> TRUE]
NewRun == [source |-> None, window |-> None, inventory |-> None, frozen |-> FALSE,
           ledger |-> NoLedger, checkpoint |-> "none"]
NoJob == [at |-> "idle", run |-> None, ref |-> 0, channel |-> None, expected |-> None,
          current |-> FALSE, page |-> 0, dir |-> None, path |-> None, file |-> None]
NotConnected == [ref |-> 0, channel |-> None]
NewApp == [run |-> None, conn |-> NotConnected, target |-> None]

Init ==
  /\ app = NewApp
  /\ drawn = 0 /\ live = {}
  /\ runs = [r \in Runs |-> NewRun]
  /\ jobs = [q \in Requests |-> NoJob]
  /\ switches = 0 /\ faults = 0
  /\ wire = [r \in Runs |-> [calls |-> 0, items |-> 0, thrown |-> FALSE]]
  /\ crossed = {}

Fault == faults < MaxFaults /\ faults' = faults + 1
NoFault == UNCHANGED faults

\* The app's mutex is free: it is held only while a run is being opened.
Unlocked == app.target = None

\* The directory that a request reads as the app's, without the mutex: that of the
\* run, or, while one is being opened, none yet or that of the one being opened.
Roots == IF Unlocked THEN {app.run} ELSE {None, app.target}

\* Go(q, j): the request goes on as j.  Fail(q): it answers an error.
Go(q, j) == jobs' = [jobs EXCEPT ![q] = j]
Fail(q) == Go(q, NoJob)

\* The connection's generation moves: who read it before has read a stale one.
Outdated(js) == [q \in Requests |-> [js[q] EXCEPT !.current = FALSE]]

-----------------------------------------------------------------------------
(* The durable budget.                                                     *)

HasRoom(ledger, items) ==
  /\ ledger.open
  /\ ledger.calls + 1 <= MaxCalls
  /\ ledger.items + items <= MaxItems

Reserved(ledger, items) ==
  [ledger EXCEPT !.calls = @ + 1, !.items = @ + items]

\* A reservation of `items' that brought `actual'; it is forgotten with it.
Settled(ledger, items, actual) ==
  [ledger EXCEPT !.items = @ - (items - actual)]

MayRetry(ledger) == ledger.open /\ ledger.retries + 1 <= MaxRetries

\* The wall time of the window ends for good, however often it was restarted.
Expire(r) ==
  /\ runs[r].ledger.calls > 0 /\ runs[r].ledger.open
  /\ Fault
  /\ runs' = [runs EXCEPT ![r].ledger.open = FALSE]
  /\ UNCHANGED <<app, leases, jobs, switches, wire, crossed>>

-----------------------------------------------------------------------------
(* Connecting and disconnecting the source.                                *)

StartConnect(q, channel) ==
  /\ Unlocked /\ jobs[q].at = "idle"
  /\ app.run # None
  /\ Go(q, [NoJob EXCEPT !.at = "probe", !.run = app.run, !.channel = channel,
                         !.expected = runs[app.run].source, !.current = TRUE])
  /\ UNCHANGED <<app, leases, runs, switches, faults, wire, crossed>>

\* Slack names the workspace, and the credential is kept under a reference.
Register(q) ==
  /\ jobs[q].at = "probe"
  /\ \/ Fail(q) /\ UNCHANGED leases
     \/ /\ drawn < MaxSessions
        /\ drawn' = drawn + 1
        /\ live' = live \cup {drawn + 1}
        /\ Go(q, [jobs[q] EXCEPT !.at = "verified", !.ref = drawn + 1])
  /\ UNCHANGED <<app, runs, switches, faults, wire, crossed>>

\* A bug: what other requests connected meanwhile is not looked at.
AdoptableAnyTime(j) ==
  /\ j.expected \in {None, j.channel}
  /\ app.run # None => ~runs[app.run].frozen

\* The candidate is the one that its run expected, and nothing moved meanwhile.
Adoptable(j) ==
  /\ j.expected \in {None, j.channel}
  /\ j.current
  /\ app.run # None => ~runs[app.run].frozen

\* A bug: the connect that lost is only told so.
RefusedIsKept(j) == live

Refused(j) == live \ {j.ref}

\* With no run open, every run that may be opened next is reached.
Crossed(j) ==
  IF app.run = j.run THEN crossed
  ELSE crossed \cup {j.run} \cup (IF app.run = None THEN Runs ELSE {app.run})

\* With no run open the commit fails, and the connection stays all the same.
Adopt(q) ==
  /\ jobs[q].at = "verified" /\ Unlocked
  /\ LET j == jobs[q]
     IN \/ /\ ~Adoptable(j)
           /\ live' = Refused(j)
           /\ Fail(q)
           /\ UNCHANGED <<app, runs, crossed>>
        \/ /\ Adoptable(j)
           /\ live' = live \ {app.conn.ref}
           /\ app' = [app EXCEPT !.conn = [ref |-> j.ref, channel |-> j.channel]]
           /\ runs' = IF app.run = None THEN runs
                      ELSE [runs EXCEPT ![app.run].source = j.channel]
           /\ crossed' = Crossed(j)
           /\ jobs' = Outdated([jobs EXCEPT ![q] = NoJob])
  /\ UNCHANGED <<drawn, switches, faults, wire>>

Disconnect ==
  /\ Unlocked /\ app.conn # NotConnected
  /\ live' = live \ {app.conn.ref}
  /\ app' = [app EXCEPT !.conn = NotConnected]
  /\ jobs' = Outdated(jobs)
  /\ UNCHANGED <<drawn, runs, switches, faults, wire, crossed>>

-----------------------------------------------------------------------------
(* Draining the source.                                                    *)

\* The first drain of a run reserves its window; every other one has to match.
StartDrain(q) ==
  /\ Unlocked /\ jobs[q].at = "idle"
  /\ app.run # None /\ app.conn # NotConnected /\ ~runs[app.run].frozen
  /\ LET r == app.run
         channel == app.conn.channel
     IN /\ runs[r].window \in {None, channel}
        /\ runs' = [runs EXCEPT ![r].window = channel]
        /\ Go(q, [NoJob EXCEPT !.at = "root", !.run = r, !.ref = app.conn.ref])
  /\ UNCHANGED <<app, leases, switches, faults, wire, crossed>>

\* The mutex is dropped; the stores of the progress and of the budget are made in
\* the app's directory.  With "" for it, they are in the working directory.
OpenStores(q) ==
  /\ jobs[q].at = "root"
  /\ \/ Fail(q)
     \/ \E root \in Roots : Go(q, [jobs[q] EXCEPT !.at = "call", !.dir = root])
  /\ UNCHANGED <<app, leases, runs, switches, faults, wire, crossed>>

\* In another directory, what is kept of the window is not what its run keeps.
Ledger(j) == IF j.dir = j.run THEN runs[j.run].ledger ELSE NoLedger
Kept(j, ledger) ==
  IF j.dir = j.run THEN [runs EXCEPT ![j.run].ledger = ledger] ELSE runs
Reached(j, progress) ==
  IF j.dir = j.run THEN [runs EXCEPT ![j.run].checkpoint = progress] ELSE runs

Asked(j) == IF j.page = 0 THEN 0 ELSE PageItems

\* auth.test brings no items; a page, any number: one too many stands for more.
Carried(j) == IF j.page = 0 THEN {0} ELSE 0..PageItems + 1

\* A call is charged with all it may bring before the registry gives the secret
\* out, and Registry.Use gives it only of a lease that is live.
Call(q) ==
  /\ jobs[q].at = "call"
  /\ LET j == jobs[q]
         ledger == Ledger(j)
         charged == Reserved(ledger, Asked(j))
     IN \/ /\ ~HasRoom(ledger, Asked(j))
           /\ Fail(q) /\ UNCHANGED <<runs, wire>>
        \/ /\ HasRoom(ledger, Asked(j))
           /\ \/ /\ j.ref \in live
                 /\ runs' = Kept(j, charged)
                 /\ wire' = [wire EXCEPT ![j.run].calls = @ + 1]
                 /\ Go(q, [j EXCEPT !.at = "sent"])
              \/ /\ j.ref \notin live
                 /\ runs' = Kept(j, Settled(charged, Asked(j), 0))
                 /\ Fail(q) /\ UNCHANGED wire
  /\ UNCHANGED <<app, leases, switches, faults, crossed>>

\* How a call ends.  "page": what was asked for is handed on.  "lost": there is no
\* answer to read, its charge cannot be settled, or it has more items than were
\* reserved.  The others are read and not counted: Slack says to wait, rejects the
\* credential, or answers what cannot be used (a status, a scope, a bad body).
Verdicts == {"page", "lost", "limited", "rejected", "refused"}

\* A bug: what was lost is settled at nothing.
ChargedForAnswers(ledger, j, verdict, carried) ==
  Settled(ledger, Asked(j), IF verdict = "page" THEN carried ELSE 0)

\* What an answer leaves charged: one that was lost stays charged whole.
Charged(ledger, j, verdict, carried) ==
  CASE verdict = "lost" -> ledger
    [] verdict = "page" -> Settled(ledger, Asked(j), carried)
    [] OTHER -> Settled(ledger, Asked(j), 0)

\* Of the items an answer carried, those that a charge is kept for.
Owed(j, verdict, carried) ==
  IF verdict \notin {"page", "lost"} THEN 0
  ELSE IF carried > Asked(j) THEN Asked(j) ELSE carried

\* Told to wait, the client asks again while its retries last, unless the wait is
\* too long or is given up.  A rejection is read after Registry.Use returned.
Answer(q) ==
  /\ jobs[q].at = "sent"
  /\ LET j == jobs[q]
     IN \E verdict \in Verdicts, carried \in Carried(j) :
          LET ledger == Charged(Ledger(j), j, verdict, carried)
              owed == Owed(j, verdict, carried)
          IN /\ verdict = "page" => carried <= Asked(j)
             /\ wire' = [wire EXCEPT ![j.run].items = @ + owed,
                                     ![j.run].thrown = @ \/ owed # carried]
             /\ \/ /\ verdict = "limited" /\ MayRetry(ledger)
                   /\ runs' = Kept(j, [ledger EXCEPT !.retries = @ + 1])
                   /\ Go(q, [j EXCEPT !.at = "call"])
                \/ /\ runs' = Kept(j, ledger)
                   /\ CASE verdict = "page" -> Go(q, [j EXCEPT !.at = "save"])
                        [] verdict = "rejected" -> Go(q, [j EXCEPT !.at = "rejected"])
                        [] OTHER -> Fail(q)
  /\ UNCHANGED <<app, leases, switches, faults, crossed>>

Rejected(q) ==
  /\ jobs[q].at = "rejected"
  /\ Fail(q)
  /\ UNCHANGED <<app, leases, runs, switches, faults, wire, crossed>>

\* A drain begins at page one, whatever an earlier one had reached.
Progress(j) == IF j.page = Pages THEN "complete" ELSE "history"

SaveProgress(q) ==
  /\ jobs[q].at = "save"
  /\ LET j == jobs[q]
     IN \/ /\ runs' = Reached(j, Progress(j))
           /\ NoFault
           /\ Go(q, IF j.page = Pages THEN [j EXCEPT !.at = "manifest"]
                    ELSE [j EXCEPT !.at = "call", !.page = @ + 1])
        \/ Fault /\ Fail(q) /\ UNCHANGED runs
  /\ UNCHANGED <<app, leases, switches, wire, crossed>>

\* The directory is read once more, for the path.  Whoever is about to read the
\* file that is there reads this manifest.
WriteManifest(q) ==
  /\ jobs[q].at = "manifest"
  /\ \E root \in Roots :
       jobs' = [x \in Requests |->
         IF x = q THEN [jobs[q] EXCEPT !.at = "import", !.path = root, !.file = jobs[q].run]
         ELSE IF jobs[x].at = "import" /\ jobs[x].path = root
              THEN [jobs[x] EXCEPT !.file = jobs[q].run]
              ELSE jobs[x]]
  /\ crossed' = Crossed(jobs[q])
  /\ UNCHANGED <<app, leases, runs, switches, faults, wire>>

\* ImportExternalInventory: the run that is open now gets what the file holds.
Import(q) ==
  /\ jobs[q].at = "import" /\ Unlocked
  /\ LET j == jobs[q]
         r == app.run
     IN \/ /\ r = None \/ runs[r].frozen
           /\ Fail(q) /\ UNCHANGED <<runs, crossed>>
        \/ /\ r # None /\ ~runs[r].frozen
           /\ runs' = [runs EXCEPT ![r].inventory = j.file]
           /\ crossed' = Crossed(j)
           /\ Go(q, [j EXCEPT !.at = "clear"])
  /\ UNCHANGED <<app, leases, switches, faults, wire>>

\* A bug: progress is forgotten once the manifest is written.
MayClearEarly(j) == j.at \in {"import", "clear"}

\* Progress is forgotten only by the request whose manifest was imported.
MayClear(j) == j.at = "clear"

ClearProgress(q) ==
  /\ MayClear(jobs[q])
  /\ runs' = Reached(jobs[q], "none")
  /\ Fail(q)
  /\ UNCHANGED <<app, leases, switches, faults, wire, crossed>>

-----------------------------------------------------------------------------
(* The life of runs and of the process.                                    *)

\* A state file whose window is not of its source is refused.
Loadable(r) == runs[r].window \in {None, runs[r].source}

\* The run under way is closed: its connection and its registry end with it.
OpenRun(r) ==
  /\ Unlocked /\ app.run # r
  /\ switches < MaxSwitches /\ switches' = switches + 1
  /\ IF app.run = None
     THEN app' = [app EXCEPT !.target = r] /\ UNCHANGED live
     ELSE app' = [NewApp EXCEPT !.target = r] /\ live' = {}
  /\ UNCHANGED <<drawn, runs, jobs, faults, wire, crossed>>

\* One that fails to load is closed again, with whatever was connected.
OpenedRun ==
  /\ ~Unlocked
  /\ IF Loadable(app.target)
     THEN app' = [app EXCEPT !.run = app.target, !.target = None] /\ UNCHANGED live
     ELSE app' = NewApp /\ live' = {}
  /\ UNCHANGED <<drawn, runs, jobs, switches, faults, wire, crossed>>

\* The rest of the activation freezes a sample of what was imported.
Freeze ==
  /\ Unlocked /\ app.run # None
  /\ runs[app.run].inventory # None /\ ~runs[app.run].frozen
  /\ runs' = [runs EXCEPT ![app.run].frozen = TRUE]
  /\ UNCHANGED <<app, leases, jobs, switches, faults, wire, crossed>>

Crash ==
  /\ Fault
  /\ app' = NewApp
  /\ live' = {}
  /\ jobs' = [q \in Requests |-> NoJob]
  /\ UNCHANGED <<drawn, runs, switches, wire, crossed>>

Connecting(q) ==
  \/ \E channel \in Channels : StartConnect(q, channel)
  \/ Register(q) \/ Adopt(q)

Calling(q) ==
  Call(q) \/ Answer(q) \/ Rejected(q)

Draining(q) ==
  \/ StartDrain(q) \/ OpenStores(q) \/ Calling(q) \/ SaveProgress(q)
  \/ WriteManifest(q) \/ Import(q) \/ ClearProgress(q)

Next ==
  \/ \E q \in Requests : Connecting(q) \/ Draining(q)
  \/ \E r \in Runs : OpenRun(r) \/ Expire(r)
  \/ Disconnect \/ OpenedRun \/ Freeze \/ Crash

Spec == Init /\ [][Next]_vars

-----------------------------------------------------------------------------
(* Properties.                                                             *)

TypeOK ==
  /\ app.run \in Runs \cup {None} /\ app.target \in Runs \cup {None}
  /\ app.conn.ref \in 0..drawn /\ drawn \in 0..MaxSessions
  /\ live \subseteq 1..drawn
  /\ \A r \in Runs :
       /\ {runs[r].source, runs[r].window} \subseteq Channels \cup {None}
       /\ runs[r].ledger.items \in 0..MaxItems
  /\ \A q \in Requests : jobs[q].run \in Runs \cup {None} /\ jobs[q].page \in 0..Pages
  /\ crossed \subseteq Runs

(* However calls fail, are retried, run side by side, change directory or   *)
(* are cut by a crash, a run's budget is charged for every call that was    *)
(* really made for it, for every item a drain went on with, and for what a  *)
(* lost answer may have brought of what was asked for, and stays within its *)
(* bounds (slack/budget.go:92, http_client.go:318).                         *)
LedgerCoversTheWire ==
  \A r \in Runs :
    LET ledger == runs[r].ledger
    IN /\ wire[r].calls <= ledger.calls /\ ledger.calls <= MaxCalls
       /\ wire[r].items <= ledger.items /\ ledger.items <= MaxItems
       /\ ledger.retries <= MaxRetries

(* The budgets are "cumulative" (README.md:105): no item that Slack gave is  *)
(* without a charge.  Some are: a body that is read and then refused is     *)
(* settled at no items (http_client.go:350), and a page that has more than  *)
(* was asked for stays charged for what was (http_client.go:390,            *)
(* budget.go:115).                                                          *)
AllIsCharged == \A r \in Runs : ~wire[r].thrown

(* A live lease is the one the app is connected with or a candidate that a  *)
(* request is still verifying: no connect that lost a race, no disconnect   *)
(* and no change of run leaves a usable credential behind                   *)
(* (source.go:40, session_registry.go:224).                                 *)
NoLeaseIsLeft ==
  \A ref \in live :
      \/ ref = app.conn.ref
      \/ \E q \in Requests : jobs[q].at = "verified" /\ jobs[q].ref = ref

(* The window a run reserved is of the channel that the run knows as its    *)
(* source, unless a request that began under another run ended under it     *)
(* (source.go:49, state_validation.go:40).                                  *)
WindowIsOfTheSource ==
  \A r \in Runs \ crossed : Loadable(r)

(* "Reconnects and retries must use this exact denominator" (types.go:118): *)
(* no reconnect leaves a run with a window of another channel.  A connect   *)
(* that ends after a change of run does: the change does not touch the      *)
(* generation that the connect compares.                                    *)
ReconnectsKeepTheWindow == \A r \in Runs : Loadable(r)

(* "Revocation, disconnect, provider rejection [...]" end a lease           *)
(* (session_registry.go:170): a request that answers that Slack rejected    *)
(* its credential has ended the lease.  It has not: the status is read when *)
(* Registry.Use has already returned without an error (http_client.go:337). *)
RejectionEndsTheLease ==
  \A q \in Requests : jobs[q].at = "rejected" => jobs[q].ref \notin live

(* The pages a drain counted are forgotten only when the run whose window   *)
(* they fill has an inventory of that window (source.go:144).               *)
ProgressUntilAdoption ==
  [][\A r \in Runs \ crossed' :
       runs[r].checkpoint # "none" /\ runs'[r].checkpoint = "none"
         => runs[r].inventory = r]_vars
=============================================================================
