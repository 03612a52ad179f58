-------------------------- MODULE SlackDrainProofs --------------------------
(***************************************************************************)
(* What TLAPS proves of what is drained from Slack and of its adoption:    *)
(* of SlackDrain, for any number of requests, runs, channels and sessions, *)
(* any budget and any number of pages, that the budget covers the calls    *)
(* that were sent and the items a drain went on with, no usable credential *)
(* is left behind, a run's window is of its source, and pages are forgotten*)
(* only after their inventory was adopted; of Ingestion, for any messages, *)
(* windows, edits and readings, that no capture goes back, none is         *)
(* forgotten, a complete ledger is held and no news is refused.            *)
(*                                                                         *)
(* What makes them inductive, of the drain: a drain whose lease lives      *)
(* reads its own run's directory; the calls under way hold a part of the   *)
(* budget that no answer has used yet; a connect that nothing outdated has *)
(* the source that its run still has; and until a request reaches a run it *)
(* did not begin under, the manifest it left is its own. Of the adoption:  *)
(* what is recorded was to be seen; every batch that was imported left its *)
(* records or what follows them; and every content in a record's history   *)
(* is followed by the current one.                                         *)
(***************************************************************************)
EXTENDS SlackDrain, Ingestion, FiniteSetTheorems, TLAPS

Places ==
  {"idle", "probe", "verified", "root", "call", "sent", "save", "rejected", "manifest",
   "import", "clear"}
Ledgers == [calls : Nat, items : Int, retries : Nat, open : BOOLEAN]
RunStates ==
  [source : Channels \cup {None}, window : Channels \cup {None},
   inventory : Runs \cup {None}, frozen : BOOLEAN, ledger : Ledgers,
   checkpoint : {"none", "history", "complete"}]
JobStates ==
  [at : Places, run : Runs \cup {None}, ref : 0..MaxSessions,
   channel : Channels \cup {None}, expected : Channels \cup {None},
   current : BOOLEAN, page : 0..Pages, dir : Runs \cup {None},
   path : Runs \cup {None}, file : Runs \cup {None}]
AppStates ==
  [run : Runs \cup {None}, target : Runs \cup {None},
   conn : [ref : 0..MaxSessions, channel : Channels \cup {None}]]

Given == [calls : Nat, items : Nat, thrown : BOOLEAN]

Typed ==
  /\ drawn \in 0..MaxSessions /\ live \subseteq 1..drawn
  /\ app \in AppStates
  /\ runs \in [Runs -> RunStates]
  /\ jobs \in [Requests -> JobStates]
  /\ switches \in Nat /\ faults \in Nat
  /\ wire \in [Runs -> Given]
  /\ crossed \subseteq Runs

\* A request under way belongs to a run, a run is opened when none is open, and
\* no reference is known that was not given out.
Placed ==
  /\ \A q \in Requests :
       /\ jobs[q].at # "idle" => jobs[q].run \in Runs
       /\ jobs[q].ref <= drawn
  /\ app.target # None => app.run = None
  /\ app.conn.ref <= drawn

\* A drain whose lease still lives reads its own run's directory: to open another
\* run ends the leases first.
Rooted ==
  \A q \in Requests :
    /\ jobs[q].at \in {"root", "call", "sent", "save"} /\ jobs[q].ref \in live =>
         app.run = jobs[q].run
    /\ jobs[q].at = "call" /\ jobs[q].ref \in live => jobs[q].dir = jobs[q].run
    /\ jobs[q].at \in {"sent", "save"} => jobs[q].dir = jobs[q].run

\* The calls for a page that were sent and not answered.
Sent(r) ==
  {q \in Requests : jobs[q].at = "sent" /\ jobs[q].run = r /\ jobs[q].page # 0}
\* What the budget was charged for them is not used up by what came.
CoveredAt(r) ==
  LET ledger == runs[r].ledger
  IN /\ wire[r].calls <= ledger.calls /\ ledger.calls <= MaxCalls
     /\ ledger.items <= MaxItems /\ ledger.retries <= MaxRetries
     /\ IsFiniteSet(Sent(r))
     /\ wire[r].items + PageItems * Cardinality(Sent(r)) <= ledger.items
Covered == \A r \in Runs : CoveredAt(r)

\* What the app is connected with is the source of its run, and the source that
\* a connect took for granted is still the one, unless it was outdated.
Sourced ==
  /\ \A q \in Requests :
       jobs[q].at \in {"probe", "verified"} /\ jobs[q].current =>
         jobs[q].expected = runs[jobs[q].run].source
  /\ app.conn # NotConnected =>
       IF app.run = None THEN Runs \subseteq crossed
       ELSE app.run \in crossed \/ runs[app.run].source = app.conn.channel

\* The manifest a request reads is its own, and so is the inventory it adopted.
Manifested ==
  \A q \in Requests :
    jobs[q].run \notin crossed =>
      /\ jobs[q].at = "import" => jobs[q].path = jobs[q].run /\ jobs[q].file = jobs[q].run
      /\ jobs[q].at = "clear" => runs[jobs[q].run].inventory = jobs[q].run

DrainInv ==
  Typed /\ Placed /\ Rooted /\ Covered /\ NoLeaseIsLeft /\ Sourced /\ WindowIsOfTheSource
  /\ Manifested
-----------------------------------------------------------------------------
(* Types.                                                                  *)

\* The bounds are numbers.
LEMMA Bounds ==
  /\ MaxCalls \in Nat \ {0} /\ MaxItems \in Nat \ {0} /\ PageItems \in Nat \ {0}
  /\ Pages \in Nat \ {0} /\ MaxRetries \in Nat /\ MaxSessions \in Nat
  /\ MaxSwitches \in Nat /\ MaxFaults \in Nat
BY DrainAssumption


\* What a new process and a new request hold.
LEMMA NewTyped ==
  /\ NoJob \in JobStates /\ NoJob.at = "idle" /\ NoJob.ref = 0 /\ NoJob.page = 0
  /\ NewApp \in AppStates /\ NewApp.run = None /\ NewApp.target = None
  /\ NewApp.conn = NotConnected /\ NotConnected.ref = 0
  /\ NotConnected.channel = None
BY Bounds DEF NoJob, JobStates, Places, NewApp, AppStates, NotConnected

\* The types hold at first.
LEMMA InitTyped == Init => Typed /\ Placed
<1> SUFFICES ASSUME Init PROVE Typed /\ Placed
  OBVIOUS
<1>1. app \in AppStates /\ drawn \in 0..MaxSessions
  BY DrainAssumption DEF Init, AppStates, NewApp, NotConnected
<1>2. runs \in [Runs -> RunStates]
  BY DEF Init, RunStates, NewRun, NoLedger, Ledgers
<1>3. jobs \in [Requests -> JobStates]
  BY DrainAssumption DEF Init, JobStates, NoJob, Places
<1>4. wire \in [Runs -> Given]
  BY DEF Init, Given
<1>5. Typed
  BY <1>1, <1>2, <1>3, <1>4 DEF Init, Typed
<1> QED BY <1>5, NewTyped DEF Init, Placed


\* What a request under way holds.
LEMMA UnderWay ==
  ASSUME Typed, Placed, NEW q \in Requests
  PROVE  /\ jobs[q] \in JobStates /\ jobs[q].ref \in 0..MaxSessions
         /\ jobs[q].ref <= drawn /\ drawn \in Nat /\ drawn \in 0..MaxSessions
         /\ jobs[q].channel \in Channels \cup {None}
         /\ jobs[q].at # "idle" => jobs[q].run \in Runs
BY Bounds DEF Typed, Placed, JobStates

\* A request that goes on as another of its kind.
LEMMA GoTyped ==
  ASSUME Typed, Placed, NEW q \in Requests, NEW j \in JobStates, Go(q, j),
         j.at # "idle" => j.run \in Runs, j.ref <= drawn',
         drawn' \in 0..MaxSessions, drawn <= drawn',
         app' \in AppStates, app'.target # None => app'.run = None,
         app'.conn.ref <= drawn'
  PROVE  jobs' \in [Requests -> JobStates] /\ Placed'
<1>1. jobs' \in [Requests -> JobStates]
  BY DEF Go, Typed
<1>2. \A x \in Requests : jobs'[x] = jobs[x] \/ jobs'[x] = j
  BY DEF Go, Typed
<1>3. \A x \in Requests : jobs[x].ref <= drawn'
  BY DEF Placed, Typed, JobStates
<1> QED BY <1>1, <1>2, <1>3 DEF Placed

\* A request that fails leaves the types.
LEMMA FailTyped ==
  ASSUME Typed, Placed, NEW q \in Requests, Fail(q), UNCHANGED <<app, drawn>>
  PROVE  jobs' \in [Requests -> JobStates] /\ Placed'
BY GoTyped, NewTyped, Bounds DEF Fail, Typed, Placed, AppStates

\* The connection moves on, and every request is outdated.
LEMMA OutdatedTyped ==
  ASSUME Typed, Placed, NEW js \in [Requests -> JobStates], jobs' = Outdated(js),
         \A q \in Requests : js[q] = jobs[q] \/ js[q] = NoJob,
         UNCHANGED drawn, app' \in AppStates, app'.target # None => app'.run = None,
         app'.conn.ref <= drawn
  PROVE  jobs' \in [Requests -> JobStates] /\ Placed'
<1>1. \A q \in Requests : [js[q] EXCEPT !.current = FALSE] \in JobStates
  BY DEF JobStates
<1>2. jobs' = [q \in Requests |-> [js[q] EXCEPT !.current = FALSE]]
  BY DEF Outdated
<1>3. jobs' \in [Requests -> JobStates]
  BY <1>1, <1>2
<1>4. \A q \in Requests :
        /\ jobs'[q].at = js[q].at /\ jobs'[q].run = js[q].run
        /\ jobs'[q].ref = js[q].ref
  BY <1>2 DEF JobStates
<1> QED BY <1>3, <1>4, NewTyped, Bounds DEF Placed, Typed

\* Reserving, settling and retrying leave a ledger,
LEMMA LedgerMoves ==
  ASSUME NEW l \in Ledgers, NEW n \in Nat, NEW m \in Nat
  PROVE  /\ Reserved(l, n) \in Ledgers /\ Settled(l, n, m) \in Ledgers
         /\ [l EXCEPT !.retries = @ + 1] \in Ledgers
<1>1. l.calls \in Nat /\ l.items \in Int /\ l.retries \in Nat
  BY DEF Ledgers
<1>2. l.calls + 1 \in Nat /\ l.items + n \in Int /\ l.items - (n - m) \in Int
      /\ l.retries + 1 \in Nat
  BY <1>1
<1>3. Reserved(l, n) \in Ledgers
  BY <1>2 DEF Ledgers, Reserved
<1>4. Settled(l, n, m) \in Ledgers
  BY <1>2 DEF Ledgers, Settled
<1>5. [l EXCEPT !.retries = @ + 1] \in Ledgers
  BY <1>2 DEF Ledgers
<1> QED BY <1>3, <1>4, <1>5

\* and so does charging an answer.
LEMMA ChargedTyped ==
  ASSUME NEW l \in Ledgers, NEW j \in JobStates, NEW items \in Nat,
         NEW verdict \in Verdicts
  PROVE  Charged(l, j, verdict, items) \in Ledgers
<1>1. Asked(j) \in Nat
  BY Bounds DEF Asked
<1> QED BY <1>1, LedgerMoves DEF Charged

\* A run with another ledger is a run.
LEMMA LedgerTyped ==
  ASSUME Typed, NEW r \in Runs, NEW l \in Ledgers
  PROVE  [runs EXCEPT ![r].ledger = l] \in [Runs -> RunStates]
<1>1. [runs[r] EXCEPT !.ledger = l] \in RunStates
  BY DEF Typed, RunStates
<1> QED BY <1>1 DEF Typed

\* The ledger a request finds, wherever it looks, and what it leaves of the runs.
LEMMA LedgerFound ==
  ASSUME Typed, NEW j \in JobStates, j.run \in Runs
  PROVE  Ledger(j) \in Ledgers
<1>1. NoLedger \in Ledgers
  BY DEF NoLedger, Ledgers
<1> QED BY <1>1 DEF Ledger, Typed, RunStates

LEMMA KeptTyped ==
  ASSUME Typed, NEW j \in JobStates, j.run \in Runs, NEW l \in Ledgers
  PROVE  Kept(j, l) \in [Runs -> RunStates]
BY LedgerTyped DEF Kept, Typed

\* In its run's directory a request finds and leaves its run's ledger, elsewhere not.
LEMMA KeptIs ==
  ASSUME NEW j
  PROVE  /\ j.dir = j.run =>
              /\ Ledger(j) = runs[j.run].ledger
              /\ \A l : Kept(j, l) = [runs EXCEPT ![j.run].ledger = l]
         /\ j.dir # j.run => \A l : Kept(j, l) = runs
BY DEF Ledger, Kept

\* The app's directory is one of its runs' or none.
LEMMA RootTyped == ASSUME Typed PROVE Roots \subseteq Runs \cup {None}
BY DEF Roots, Typed, AppStates

\* What is owed of an answer is some of what it carried, and of what was asked for.
LEMMA OwedIs ==
  ASSUME NEW j \in JobStates, NEW verdict \in Verdicts, NEW carried \in Carried(j)
  PROVE  /\ Asked(j) \in Nat /\ carried \in Nat /\ Owed(j, verdict, carried) \in Nat
         /\ Owed(j, verdict, carried) <= Asked(j)
<1>1. Asked(j) \in Nat /\ carried \in Nat
  BY Bounds DEF Asked, Carried
<1> QED BY <1>1 DEF Owed

\* Every step preserves the types.
LEMMA TypedNext ==
  ASSUME Typed, Placed, [Next]_vars
  PROVE  Typed' /\ Placed'
<1> USE Bounds, NewTyped
<1>1. CASE UNCHANGED vars
  BY <1>1 DEF vars, leases, Typed, Placed
<1>2. ASSUME NEW q \in Requests, NEW c \in Channels, StartConnect(q, c)
      PROVE  Typed' /\ Placed'
  <2>1. app.run \in Runs /\ runs[app.run].source \in Channels \cup {None}
    BY <1>2 DEF StartConnect, AppStates, RunStates, Typed
  <2> DEFINE j == [NoJob EXCEPT !.at = "probe", !.run = app.run, !.channel = c,
                         !.expected = runs[app.run].source, !.current = TRUE]
  <2>2. j \in JobStates /\ j.run \in Runs /\ j.ref = 0
    BY <2>1 DEF JobStates, Places
  <2>3. Go(q, j)
    BY <1>2 DEF StartConnect
  <2> HIDE DEF j
  <2>4. jobs' \in [Requests -> JobStates] /\ Placed'
    BY <1>2, <2>2, <2>3, GoTyped DEF StartConnect, leases, Typed, Placed
  <2> QED BY <1>2, <2>4 DEF StartConnect, leases, Typed
<1>3. ASSUME NEW q \in Requests, Register(q) PROVE Typed' /\ Placed'
  <2>1. CASE Fail(q) /\ UNCHANGED leases
    <3>1. jobs' \in [Requests -> JobStates] /\ Placed'
      BY <1>3, <2>1, FailTyped DEF Register, leases
    <3> QED BY <1>3, <2>1, <3>1 DEF Register, leases, Typed
  <2>2. CASE drawn < MaxSessions /\ drawn' = drawn + 1
    <3> DEFINE j == [jobs[q] EXCEPT !.at = "verified", !.ref = drawn + 1]
    <3>1. j \in JobStates /\ j.run \in Runs /\ j.ref = drawn + 1
      <4>1. jobs[q].run \in Runs /\ drawn + 1 \in 0..MaxSessions
        BY <1>3, <2>2, UnderWay DEF Register
      <4> QED BY <4>1, UnderWay DEF JobStates, Places
    <3>2. Go(q, j) /\ live' = live \cup {drawn + 1}
      BY <1>3, <2>2 DEF Register, Fail, Typed, leases
    <3> HIDE DEF j
    <3>3. jobs' \in [Requests -> JobStates] /\ Placed'
      BY <1>3, <2>2, <3>1, <3>2, GoTyped DEF Register, Typed, Placed, AppStates
    <3> QED BY <1>3, <2>2, <3>2, <3>3 DEF Register, Typed
  <2> QED BY <1>3, <2>1, <2>2 DEF Register
<1>4. ASSUME NEW q \in Requests, Adopt(q) PROVE Typed' /\ Placed'
  <2>1. jobs[q].run \in Runs
    BY <1>4, UnderWay DEF Adopt
  <2>2. CASE Fail(q) /\ live' = Refused(jobs[q]) /\ UNCHANGED <<app, runs, crossed>>
    <3>1. jobs' \in [Requests -> JobStates] /\ Placed'
      BY <1>4, <2>2, FailTyped DEF Adopt
    <3> QED BY <1>4, <2>2, <3>1 DEF Adopt, Refused, Typed
  <2> DEFINE a == [app EXCEPT !.conn = [ref |-> jobs[q].ref, channel |-> jobs[q].channel]]
             js == [jobs EXCEPT ![q] = NoJob]
             rs == [runs EXCEPT ![app.run].source = jobs[q].channel]
  <2>3. CASE /\ live' = live \ {app.conn.ref} /\ app' = a
             /\ runs' = IF app.run = None THEN runs ELSE rs
             /\ crossed' = Crossed(jobs[q]) /\ jobs' = Outdated(js)
    <3>1. a \in AppStates /\ a.target = app.target /\ a.run = app.run
          /\ a.conn.ref = jobs[q].ref
      BY UnderWay DEF AppStates, Typed
    <3>2. js \in [Requests -> JobStates]
          /\ \A x \in Requests : js[x] = jobs[x] \/ js[x] = NoJob
      BY DEF Typed
    <3>3. UNCHANGED <<drawn, switches, faults, wire>>
      BY <1>4 DEF Adopt
    <3>4. app.run # None => app.run \in Runs
      BY DEF Typed, AppStates
    <3>5. rs \in [Runs -> RunStates]
      <4>1. \A r \in Runs : [runs[r] EXCEPT !.source = jobs[q].channel] \in RunStates
        BY UnderWay DEF Typed, RunStates
      <4> QED BY <4>1 DEF Typed
    <3>6. crossed' \subseteq Runs
      BY <2>1, <2>3, <3>4 DEF Crossed, Typed
    <3> HIDE DEF a, js, rs
    <3>7. jobs' \in [Requests -> JobStates] /\ Placed'
      BY <2>3, <3>1, <3>2, <3>3, OutdatedTyped, UnderWay DEF Placed
    <3> QED BY <2>3, <3>1, <3>3, <3>5, <3>6, <3>7 DEF Typed
  <2> QED BY <1>4, <2>2, <2>3 DEF Adopt
<1>5. ASSUME NEW q \in Requests, StartDrain(q) PROVE Typed' /\ Placed'
  <2>1. app.run \in Runs /\ app.conn.channel \in Channels \cup {None}
        /\ app.conn.ref \in 0..MaxSessions
    BY <1>5 DEF StartDrain, AppStates, Typed
  <2> DEFINE j == [NoJob EXCEPT !.at = "root", !.run = app.run, !.ref = app.conn.ref]
  <2>2. j \in JobStates /\ j.run \in Runs /\ j.ref = app.conn.ref
    BY <2>1 DEF JobStates, Places
  <2>3. Go(q, j)
    BY <1>5 DEF StartDrain
  <2> HIDE DEF j
  <2>4. jobs' \in [Requests -> JobStates] /\ Placed'
    BY <1>5, <2>2, <2>3, GoTyped DEF StartDrain, leases, Typed, Placed
  <2>5. runs' \in [Runs -> RunStates]
    BY <1>5, <2>1 DEF StartDrain, RunStates, Typed
  <2> QED BY <1>5, <2>4, <2>5 DEF StartDrain, leases, Typed
<1>6. ASSUME NEW q \in Requests, Call(q) PROVE Typed' /\ Placed'
  <2> DEFINE j == jobs[q]
             charged == Reserved(Ledger(j), Asked(j))
             given == Settled(charged, Asked(j), 0)
  <2>1. j.run \in Runs /\ j \in JobStates /\ wire[j.run] \in Given
    BY <1>6, UnderWay DEF Call, Typed
  <2>2. Ledger(j) \in Ledgers /\ Asked(j) \in Nat
    BY <2>1, LedgerFound, Bounds DEF Asked
  <2>3. charged \in Ledgers /\ given \in Ledgers
    BY <2>2, LedgerMoves
  <2>4. /\ jobs' \in [Requests -> JobStates] /\ Placed'
        /\ UNCHANGED <<app, leases, switches, faults, crossed>>
    <3>1. UNCHANGED <<app, leases, switches, faults, crossed>>
      BY <1>6 DEF Call
    <3>2. CASE Fail(q)
      BY <3>1, <3>2, FailTyped DEF leases
    <3>3. CASE Go(q, [j EXCEPT !.at = "sent"])
      <4>1. [j EXCEPT !.at = "sent"] \in JobStates
        BY <2>1 DEF JobStates, Places
      <4> QED BY <2>1, <3>1, <3>3, <4>1, GoTyped, UnderWay DEF leases, Typed, Placed, JobStates
    <3> QED BY <1>6, <3>1, <3>2, <3>3 DEF Call
  <2>5. runs' \in {runs, Kept(j, charged), Kept(j, given)}
    BY <1>6 DEF Call
  <2>6. wire' = wire \/ wire' = [wire EXCEPT ![j.run].calls = @ + 1]
    BY <1>6 DEF Call
  <2>7. runs' \in [Runs -> RunStates]
    <3>1. Kept(j, charged) \in [Runs -> RunStates] /\ Kept(j, given) \in [Runs -> RunStates]
      BY <2>1, <2>3, KeptTyped
    <3> QED BY <2>5, <3>1 DEF Typed
  <2> HIDE DEF j, charged, given
  <2>8. wire' \in [Runs -> Given]
    BY <2>1, <2>6 DEF Typed, Given
  <2> QED BY <2>4, <2>7, <2>8 DEF Typed, leases
<1>7. ASSUME NEW q \in Requests, Answer(q) PROVE Typed' /\ Placed'
  <2> DEFINE j == jobs[q]
  <2>1. j.run \in Runs /\ j \in JobStates /\ wire[j.run] \in Given
    BY <1>7, UnderWay DEF Answer, Typed
  <2>2. PICK verdict \in Verdicts, carried \in Carried(j) :
          LET ledger == Charged(Ledger(j), j, verdict, carried)
              owed == Owed(j, verdict, carried)
          IN /\ wire' = [wire EXCEPT ![j.run].items = @ + owed,
                                     ![j.run].thrown = @ \/ owed # carried]
             /\ \/ /\ runs' = Kept(j, [ledger EXCEPT !.retries = @ + 1])
                   /\ Go(q, [j EXCEPT !.at = "call"])
                \/ /\ runs' = Kept(j, ledger)
                   /\ CASE verdict = "page" -> Go(q, [j EXCEPT !.at = "save"])
                        [] verdict = "rejected" -> Go(q, [j EXCEPT !.at = "rejected"])
                        [] OTHER -> Fail(q)
    BY <1>7 DEF Answer
  <2> DEFINE ledger == Charged(Ledger(j), j, verdict, carried)
             owed == Owed(j, verdict, carried)
  <2>3. ledger \in Ledgers /\ [ledger EXCEPT !.retries = @ + 1] \in Ledgers /\ owed \in Nat
    <3>1. Asked(j) \in Nat /\ carried \in Nat /\ owed \in Nat
      BY <2>1, OwedIs
    <3>2. Ledger(j) \in Ledgers
      BY <2>1, LedgerFound
    <3> QED BY <2>1, <3>1, <3>2, ChargedTyped, LedgerMoves
  <2>4. runs' \in {Kept(j, ledger), Kept(j, [ledger EXCEPT !.retries = @ + 1])}
    BY <2>2
  <2>5. runs' \in [Runs -> RunStates]
    <3>1. /\ Kept(j, ledger) \in [Runs -> RunStates]
          /\ Kept(j, [ledger EXCEPT !.retries = @ + 1]) \in [Runs -> RunStates]
      BY <2>1, <2>3, KeptTyped
    <3> QED BY <2>4, <3>1
  <2>6. wire' \in [Runs -> Given]
    <3>1. wire' = [wire EXCEPT ![j.run].items = @ + owed,
                               ![j.run].thrown = @ \/ owed # carried]
      BY <2>2
    <3>2. wire[j.run].items + owed \in Nat
      BY <2>1, <2>3 DEF Given
    <3>3. (wire[j.run].thrown \/ owed # carried) \in BOOLEAN
      OBVIOUS
    <3> QED BY <2>1, <3>1, <3>2, <3>3 DEF Typed, Given
  <2>7. UNCHANGED <<app, leases, switches, faults, crossed>>
    BY <1>7 DEF Answer
  <2>8. Fail(q) \/ \E at \in {"call", "save", "rejected"} : Go(q, [j EXCEPT !.at = at])
    BY <2>2
  <2>9. \A at \in Places : [j EXCEPT !.at = at] \in JobStates
    BY <2>1 DEF JobStates
  <2>10. jobs' \in [Requests -> JobStates] /\ Placed'
    <3>1. CASE Fail(q)
      BY <2>7, <3>1, FailTyped DEF leases
    <3>2. ASSUME NEW at \in {"call", "save", "rejected"}, Go(q, [j EXCEPT !.at = at])
          PROVE  jobs' \in [Requests -> JobStates] /\ Placed'
      <4>1. [j EXCEPT !.at = at] \in JobStates
        BY <2>9 DEF Places
      <4>2. [j EXCEPT !.at = at].run = j.run /\ [j EXCEPT !.at = at].ref = j.ref
        BY <2>1 DEF JobStates
      <4> DEFINE k == [j EXCEPT !.at = at]
      <4>3. k \in JobStates /\ k.run \in Runs /\ k.ref <= drawn /\ Go(q, k)
        BY <2>1, <3>2, <4>1, <4>2, UnderWay
      <4> HIDE DEF k
      <4> QED BY <2>7, <4>3, GoTyped DEF leases, Typed, Placed
    <3> QED BY <2>8, <3>1, <3>2
  <2> QED BY <2>5, <2>6, <2>7, <2>10 DEF Typed, leases
<1>8. ASSUME NEW q \in Requests, Rejected(q) PROVE Typed' /\ Placed'
  BY <1>8, FailTyped DEF Rejected, leases, Typed
<1>9. ASSUME NEW q \in Requests, SaveProgress(q) PROVE Typed' /\ Placed'
  <2>1. jobs[q].run \in Runs /\ UNCHANGED <<app, leases, switches, wire, crossed>>
    BY <1>9, UnderWay DEF SaveProgress
  <2>2. runs' \in [Runs -> RunStates]
    <3>1. \A c \in {"complete", "history"} :
            [runs[jobs[q].run] EXCEPT !.checkpoint = c] \in RunStates
      BY <2>1 DEF Typed, RunStates
    <3>2. runs' = runs
          \/ \E c \in {"complete", "history"} :
               runs' = [runs EXCEPT ![jobs[q].run].checkpoint = c]
      BY <1>9 DEF SaveProgress, Progress, Reached
    <3> QED BY <2>1, <3>1, <3>2 DEF Typed
  <2>3. faults' \in Nat
    BY <1>9 DEF SaveProgress, Fault, NoFault, Typed
  <2>4. jobs' \in [Requests -> JobStates] /\ Placed'
    <3>1. CASE Fail(q)
      BY <2>1, <3>1, FailTyped DEF leases
    <3>2. ASSUME NEW k, Go(q, k),
                 \/ k = [jobs[q] EXCEPT !.at = "manifest"]
                 \/ /\ jobs[q].page # Pages
                    /\ k = [jobs[q] EXCEPT !.at = "call", !.page = @ + 1]
          PROVE  jobs' \in [Requests -> JobStates] /\ Placed'
      <4>1. jobs[q].page \in 0..Pages
        BY UnderWay DEF JobStates
      <4>2. k \in JobStates /\ k.run = jobs[q].run /\ k.ref = jobs[q].ref
        <5>1. jobs[q].page # Pages => jobs[q].page + 1 \in 0..Pages
          BY <4>1
        <5> DEFINE j == jobs[q]
        <5>2. /\ [j EXCEPT !.at = "manifest"] \in JobStates
              /\ \A n \in 0..Pages : [j EXCEPT !.at = "call", !.page = n] \in JobStates
          BY UnderWay DEF JobStates, Places
        <5>3. k \in JobStates
          BY <3>2, <5>1, <5>2
        <5>4. CASE k = [jobs[q] EXCEPT !.at = "manifest"]
          BY <5>3, <5>4, UnderWay DEF JobStates
        <5>5. CASE k = [jobs[q] EXCEPT !.at = "call", !.page = @ + 1]
          BY <5>3, <5>5, UnderWay DEF JobStates
        <5> QED BY <3>2, <5>4, <5>5
      <4>3. k.run \in Runs /\ k.ref <= drawn
        <5>1. jobs[q].ref <= drawn
          BY UnderWay
        <5> QED BY <2>1, <4>2, <5>1
      <4>4. UNCHANGED <<app, drawn>>
        BY <2>1 DEF leases
      <4>5. /\ k.ref <= drawn' /\ drawn' \in 0..MaxSessions /\ drawn <= drawn'
            /\ app' \in AppStates /\ (app'.target # None => app'.run = None)
            /\ app'.conn.ref <= drawn'
        BY <4>3, <4>4, Bounds DEF Typed, Placed
      <4> QED BY <3>2, <4>2, <4>3, <4>5, GoTyped DEF Typed, Placed
    <3> QED BY <1>9, <3>1, <3>2 DEF SaveProgress
  <2> QED BY <2>1, <2>2, <2>3, <2>4 DEF leases, Typed
<1>10. ASSUME NEW q \in Requests, WriteManifest(q) PROVE Typed' /\ Placed'
  <2>1. jobs[q].run \in Runs /\ app.run \in Runs \cup {None}
        /\ UNCHANGED <<app, leases, runs, switches, faults, wire>>
    BY <1>10, UnderWay DEF WriteManifest, Typed, AppStates
  <2>0. PICK root \in Runs \cup {None} :
          jobs' = [x \in Requests |->
            IF x = q THEN [jobs[q] EXCEPT !.at = "import", !.path = root,
                                          !.file = jobs[q].run]
            ELSE IF jobs[x].at = "import" /\ jobs[x].path = root
                 THEN [jobs[x] EXCEPT !.file = jobs[q].run]
                 ELSE jobs[x]]
    BY <1>10, RootTyped DEF WriteManifest
  <2>2. \A x \in Requests :
          LET k == jobs'[x]
          IN /\ k \in JobStates /\ k.run = jobs[x].run /\ k.ref = jobs[x].ref
             /\ jobs[x].at = "idle" => k.at = "idle"
    <3>1. [jobs[q] EXCEPT !.at = "import", !.path = root, !.file = jobs[q].run]
            \in JobStates
      BY <2>1, UnderWay DEF JobStates, Places
    <3>2. \A x \in Requests : [jobs[x] EXCEPT !.file = jobs[q].run] \in JobStates
      BY <2>1, UnderWay DEF JobStates
    <3>3. ASSUME NEW x \in Requests PROVE
            \/ x = q /\ jobs'[x] = [jobs[q] EXCEPT !.at = "import", !.path = root,
                                                   !.file = jobs[q].run]
            \/ jobs'[x] = [jobs[x] EXCEPT !.file = jobs[q].run]
            \/ jobs'[x] = jobs[x]
      BY <2>0
    <3>4. jobs[q].at = "manifest"
      BY <1>10 DEF WriteManifest
    <3>5. \A x \in Requests : jobs[x] \in JobStates
      BY UnderWay
    <3>6. \A f : \A x \in Requests :
            LET k == [jobs[x] EXCEPT !.file = f]
            IN k.run = jobs[x].run /\ k.ref = jobs[x].ref /\ k.at = jobs[x].at
      BY <3>5 DEF JobStates
    <3>7. LET k == [jobs[q] EXCEPT !.at = "import", !.path = root, !.file = jobs[q].run]
          IN k.run = jobs[q].run /\ k.ref = jobs[q].ref
      BY <3>5 DEF JobStates
    <3> TAKE x \in Requests
    <3>8. CASE x = q /\ jobs'[x] = [jobs[q] EXCEPT !.at = "import", !.path = root,
                                                   !.file = jobs[q].run]
      BY <3>1, <3>4, <3>7, <3>8
    <3>9. CASE jobs'[x] = [jobs[x] EXCEPT !.file = jobs[q].run]
      BY <3>2, <3>6, <3>9
    <3> QED BY <3>3, <3>5, <3>8, <3>9
  <2>3. jobs' \in [Requests -> JobStates]
    <3>1. DOMAIN jobs' = Requests /\ jobs' = [x \in DOMAIN jobs' |-> jobs'[x]]
      BY <2>0
    <3> QED BY <2>2, <3>1
  <2>4. Placed'
    BY <2>1, <2>2 DEF Placed, leases
  <2>5. crossed' \subseteq Runs
    BY <1>10, <2>1 DEF WriteManifest, Crossed, Typed
  <2> QED BY <2>1, <2>3, <2>4, <2>5 DEF leases, Typed
<1>11. ASSUME NEW q \in Requests, Import(q) PROVE Typed' /\ Placed'
  <2>1. jobs[q].run \in Runs /\ app.run \in Runs \cup {None}
        /\ UNCHANGED <<app, leases, switches, faults, wire>>
    BY <1>11, UnderWay DEF Import, Typed, AppStates
  <2>2. runs' \in [Runs -> RunStates]
    <3>0. jobs[q].file \in Runs \cup {None}
      BY UnderWay DEF JobStates
    <3>1. \A r \in Runs : [runs[r] EXCEPT !.inventory = jobs[q].file] \in RunStates
      BY <3>0 DEF Typed, RunStates
    <3>2. \/ runs' = runs
          \/ app.run # None /\ runs' = [runs EXCEPT ![app.run].inventory = jobs[q].file]
      BY <1>11 DEF Import
    <3> QED BY <2>1, <3>1, <3>2 DEF Typed
  <2>3. crossed' \subseteq Runs
    BY <1>11, <2>1 DEF Import, Crossed, Typed
  <2>4. jobs' \in [Requests -> JobStates] /\ Placed'
    <3>1. CASE Fail(q)
      BY <2>1, <3>1, FailTyped DEF leases
    <3>2. CASE Go(q, [jobs[q] EXCEPT !.at = "clear"])
      <4> DEFINE k == [jobs[q] EXCEPT !.at = "clear"]
      <4>1. k \in JobStates /\ k.run = jobs[q].run /\ k.ref = jobs[q].ref
        BY UnderWay DEF JobStates, Places
      <4> HIDE DEF k
      <4>2. k.run \in Runs /\ k.ref <= drawn /\ Go(q, k)
        BY <2>1, <3>2, <4>1, UnderWay DEF k
      <4> QED BY <2>1, <4>1, <4>2, GoTyped DEF leases, Typed, Placed
    <3> QED BY <1>11, <3>1, <3>2 DEF Import
  <2> QED BY <2>1, <2>2, <2>3, <2>4 DEF leases, Typed
<1>12. ASSUME NEW q \in Requests, ClearProgress(q) PROVE Typed' /\ Placed'
  <2>1. jobs[q].run \in Runs /\ UNCHANGED <<app, leases, switches, faults, wire, crossed>>
    BY <1>12, UnderWay DEF ClearProgress, MayClear
  <2>2. runs' \in [Runs -> RunStates]
    <3>1. [runs[jobs[q].run] EXCEPT !.checkpoint = "none"] \in RunStates
      BY <2>1 DEF Typed, RunStates
    <3> QED BY <1>12, <2>1, <3>1 DEF ClearProgress, Reached, Typed
  <2>3. jobs' \in [Requests -> JobStates] /\ Placed'
    BY <1>12, <2>1, FailTyped DEF ClearProgress, leases
  <2> QED BY <2>1, <2>2, <2>3 DEF leases, Typed
<1>13. ASSUME NEW r \in Runs, OpenRun(r) PROVE Typed' /\ Placed'
  <2>1. app' \in AppStates /\ app'.run = None /\ app'.conn.ref <= drawn
    <3>1. \A a \in AppStates : [a EXCEPT !.target = r] \in AppStates
                               /\ [a EXCEPT !.target = r].conn = a.conn
                               /\ [a EXCEPT !.target = r].run = a.run
      BY DEF AppStates
    <3>2. app \in AppStates /\ app.conn.ref <= drawn /\ drawn \in Nat
      BY DEF Typed, Placed
    <3>3. \/ app' = [app EXCEPT !.target = r] /\ app.run = None
          \/ app' = [NewApp EXCEPT !.target = r]
      BY <1>13 DEF OpenRun
    <3>4. CASE app' = [app EXCEPT !.target = r] /\ app.run = None
      BY <3>1, <3>2, <3>4
    <3>5. CASE app' = [NewApp EXCEPT !.target = r]
      <4>1. app' \in AppStates /\ app'.conn = NewApp.conn /\ app'.run = NewApp.run
        BY <3>1, <3>5, NewTyped
      <4> QED BY <3>2, <4>1
    <3> QED BY <3>3, <3>4, <3>5
  <2>2. UNCHANGED <<drawn, runs, jobs, faults, wire, crossed>> /\ switches' \in Nat
        /\ live' \subseteq live
    BY <1>13 DEF OpenRun, Typed
  <2> QED BY <2>1, <2>2 DEF Typed, Placed
<1>14. ASSUME NEW r \in Runs, Expire(r) PROVE Typed' /\ Placed'
  <2>1. runs' \in [Runs -> RunStates]
    <3>1. [runs[r].ledger EXCEPT !.open = FALSE] \in Ledgers
      <4>1. PICK m : m = runs[r].ledger
        OBVIOUS
      <4>2. m \in Ledgers
        BY <4>1 DEF Typed, RunStates
      <4>3. [m EXCEPT !.open = FALSE] \in Ledgers
        BY <4>2 DEF Ledgers
      <4> QED BY <4>1, <4>3
    <3> DEFINE l == [runs[r].ledger EXCEPT !.open = FALSE]
    <3>2. runs' = [runs EXCEPT ![r].ledger = l]
      BY <1>14 DEF Expire
    <3> HIDE DEF l
    <3> QED BY <3>1, <3>2, LedgerTyped DEF l
  <2> QED BY <1>14, <2>1 DEF Expire, Fault, leases, Typed, Placed
<1>15. CASE Disconnect
  <2>1. app' \in AppStates /\ app'.target = app.target /\ app'.run = app.run
        /\ app'.conn = NotConnected
    BY <1>15 DEF Disconnect, Typed, AppStates
  <2>2. jobs' \in [Requests -> JobStates] /\ Placed'
    BY <1>15, <2>1, OutdatedTyped DEF Disconnect, Typed, Placed
  <2> QED BY <1>15, <2>1, <2>2 DEF Disconnect, Typed
<1>16. CASE OpenedRun
  <2>1. app' \in AppStates /\ app'.target = None /\ app'.conn.ref <= drawn
        /\ live' \subseteq live
    <3>1. app \in AppStates /\ app.conn.ref <= drawn /\ drawn \in Nat
          /\ app.target \in Runs \cup {None}
      BY DEF Typed, Placed, AppStates
    <3> DEFINE a == [app EXCEPT !.run = app.target, !.target = None]
    <3>2. a \in AppStates /\ a.target = None /\ a.conn = app.conn
      BY <3>1 DEF AppStates
    <3>3. (app' = a /\ live' = live) \/ (app' = NewApp /\ live' = {})
      BY <1>16 DEF OpenedRun
    <3> HIDE DEF a
    <3> QED BY <3>1, <3>2, <3>3
  <2> QED BY <1>16, <2>1 DEF OpenedRun, Typed, Placed
<1>17. CASE Freeze
  <2>1. runs' \in [Runs -> RunStates]
    <3>1. PICK r : r = app.run
      OBVIOUS
    <3>2. PICK m : m = runs[r]
      OBVIOUS
    <3>3. r \in Runs /\ runs' = [runs EXCEPT ![r] = [m EXCEPT !.frozen = TRUE]]
      BY <1>17, <3>1, <3>2 DEF Freeze, Typed, AppStates
    <3>4. m \in RunStates
      BY <3>2, <3>3 DEF Typed
    <3>5. [m EXCEPT !.frozen = TRUE] \in RunStates
      BY <3>4 DEF RunStates
    <3> QED BY <3>3, <3>5 DEF Typed
  <2> QED BY <1>17, <2>1 DEF Freeze, leases, Typed, Placed
<1>18. CASE Crash
  BY <1>18 DEF Crash, Fault, Typed, Placed
<1>19. ASSUME NEW q \in Requests, OpenStores(q) PROVE Typed' /\ Placed'
  <2>1. jobs[q].run \in Runs /\ UNCHANGED <<app, leases, runs, switches, faults, wire, crossed>>
    BY <1>19, UnderWay DEF OpenStores
  <2>2. jobs' \in [Requests -> JobStates] /\ Placed'
    <3>1. CASE Fail(q)
      BY <2>1, <3>1, FailTyped DEF leases
    <3>2. ASSUME NEW root \in Roots, NEW k, Go(q, k),
                 k = [jobs[q] EXCEPT !.at = "call", !.dir = root]
          PROVE  jobs' \in [Requests -> JobStates] /\ Placed'
      <4>1. root \in Runs \cup {None}
        BY RootTyped
      <4>2. k \in JobStates /\ k.run = jobs[q].run /\ k.ref = jobs[q].ref
        BY <3>2, <4>1, UnderWay DEF JobStates, Places
      <4>3. k \in JobStates /\ k.run \in Runs /\ k.ref <= drawn' /\ Go(q, k)
        BY <2>1, <3>2, <4>2, UnderWay DEF leases
      <4>4. /\ drawn' \in 0..MaxSessions /\ drawn <= drawn' /\ app' \in AppStates
            /\ app'.target # None => app'.run = None
            /\ app'.conn.ref <= drawn'
        BY <2>1, UnderWay DEF leases, Typed, Placed
      <4> QED BY <4>3, <4>4, GoTyped
    <3> QED BY <1>19, <3>1, <3>2 DEF OpenStores
  <2> QED BY <2>1, <2>2 DEF leases, Typed
<1> QED BY <1>1, <1>2, <1>3, <1>4, <1>5, <1>6, <1>7, <1>8, <1>9, <1>10, <1>11, <1>12,
     <1>13, <1>14, <1>15, <1>16, <1>17, <1>18, <1>19 DEF Next, Connecting, Draining, Calling
-----------------------------------------------------------------------------
(* Where the ledger of a drain is.                                         *)

\* A step that opens no run, and gives out no lease that a request knows.
LEMMA RootedStays ==
  ASSUME Placed, Rooted, app'.run = app.run,
         \A q \in Requests :
           /\ jobs[q].ref \in live' => jobs[q].ref \in live
           /\ jobs'[q].at \in {"root", "call", "sent", "save"} =>
                /\ jobs'[q].at = jobs[q].at
                /\ jobs'[q].ref = jobs[q].ref /\ jobs'[q].run = jobs[q].run
                /\ jobs'[q].dir = jobs[q].dir
  PROVE  Rooted'
BY DEF Rooted

\* A request that goes on as k, while the app stays.
LEMMA GoRooted ==
  ASSUME Typed, Rooted, NEW q \in Requests, NEW k, Go(q, k), UNCHANGED <<app, live>>,
         k.at \in {"root", "call", "sent", "save"} /\ k.ref \in live => app.run = k.run,
         k.at = "call" /\ k.ref \in live => k.dir = k.run,
         k.at \in {"sent", "save"} => k.dir = k.run
  PROVE  Rooted'
<1>1. \A x \in Requests : jobs'[x] = IF x = q THEN k ELSE jobs[x]
  BY DEF Go, Typed
<1> QED BY <1>1 DEF Rooted

\* Every step keeps it.
LEMMA RootedNext == ASSUME Typed, Placed, Rooted, [Next]_vars PROVE Rooted'
<1>1. CASE UNCHANGED vars
  BY <1>1 DEF vars, leases, Rooted
<1>2. ASSUME NEW q \in Requests, Fail(q), UNCHANGED <<app, live>> PROVE Rooted'
  BY <1>2, GoRooted, NewTyped DEF Fail
<1>3. ASSUME NEW q \in Requests, NEW k, Go(q, k), k.at \notin {"root", "call", "sent", "save"},
             UNCHANGED <<app, live>>
      PROVE  Rooted'
  BY <1>3, GoRooted
<1>4. ASSUME NEW q \in Requests, NEW c \in Channels, StartConnect(q, c) PROVE Rooted'
  <2>1. [NoJob EXCEPT !.at = "probe", !.run = app.run, !.channel = c,
                      !.expected = runs[app.run].source, !.current = TRUE].at = "probe"
    BY NewTyped DEF JobStates
  <2> QED BY <1>3, <1>4, <2>1 DEF StartConnect, leases
<1>5. ASSUME NEW q \in Requests, Register(q) PROVE Rooted'
  <2>1. CASE Fail(q) /\ UNCHANGED leases
    BY <1>2, <1>5, <2>1 DEF Register, leases
  <2>2. CASE live' = live \cup {drawn + 1}
             /\ Go(q, [jobs[q] EXCEPT !.at = "verified", !.ref = drawn + 1])
    <3>1. \A x \in Requests : x # q => jobs'[x] = jobs[x]
      BY <2>2 DEF Go, Typed
    <3>2. jobs'[q].at = "verified"
      BY <2>2 DEF Go, Typed, JobStates
    <3>3. \A x \in Requests : jobs[x].ref # drawn + 1
      <4> TAKE x \in Requests
      <4>1. jobs[x].ref \in Int /\ jobs[x].ref <= drawn /\ drawn \in Int
        BY UnderWay, Bounds
      <4> QED BY <4>1
    <3>4. UNCHANGED app
      BY <1>5 DEF Register
    <3> QED BY <2>2, <3>1, <3>2, <3>3, <3>4, RootedStays
  <2> QED BY <1>5, <2>1, <2>2 DEF Register
<1>6. ASSUME NEW q \in Requests, Adopt(q) PROVE Rooted'
  <2>1. CASE Fail(q) /\ live' = Refused(jobs[q]) /\ UNCHANGED app
    <3>1. \A x \in Requests : jobs'[x] = jobs[x] \/ jobs'[x].at = "idle"
      BY <2>1, NewTyped DEF Fail, Go, Typed
    <3>2. \A x \in live' : x \in live
      BY <2>1 DEF Refused
    <3> QED BY <2>1, <3>1, <3>2, RootedStays
  <2>2. CASE /\ live' = live \ {app.conn.ref}
             /\ app' = [app EXCEPT !.conn = [ref |-> jobs[q].ref, channel |-> jobs[q].channel]]
             /\ jobs' = Outdated([jobs EXCEPT ![q] = NoJob])
    <3>1. PICK js : js = [jobs EXCEPT ![q] = NoJob]
      OBVIOUS
    <3>2. \A x \in Requests : js[x] \in JobStates /\ (js[x] = jobs[x] \/ js[x].at = "idle")
      BY <3>1, NewTyped DEF Typed
    <3>3. \A x \in Requests : jobs'[x] = [js[x] EXCEPT !.current = FALSE]
      BY <2>2, <3>1 DEF Outdated
    <3>4. \A x \in Requests : /\ jobs'[x].at = js[x].at /\ jobs'[x].run = js[x].run
                              /\ jobs'[x].ref = js[x].ref /\ jobs'[x].dir = js[x].dir
      BY <3>2, <3>3 DEF JobStates
    <3>5. app'.run = app.run
      BY <2>2 DEF Typed, AppStates
    <3>6. \A x \in live' : x \in live
      BY <2>2
    <3>7. \A x \in Requests : jobs'[x].at \in {"root", "call", "sent", "save"} =>
            /\ jobs'[x].at = jobs[x].at /\ jobs'[x].ref = jobs[x].ref
            /\ jobs'[x].run = jobs[x].run /\ jobs'[x].dir = jobs[x].dir
      BY <3>2, <3>4
    <3> QED BY <3>5, <3>6, <3>7, RootedStays
  <2> QED BY <1>6, <2>1, <2>2 DEF Adopt
<1>7. ASSUME NEW q \in Requests, StartDrain(q) PROVE Rooted'
  <2>1. PICK k : k = [NoJob EXCEPT !.at = "root", !.run = app.run, !.ref = app.conn.ref]
    OBVIOUS
  <2>2. k.at = "root" /\ k.run = app.run
    BY <2>1, NewTyped DEF JobStates
  <2> QED BY <1>7, <2>1, <2>2, GoRooted DEF StartDrain, leases
<1>8. ASSUME NEW q \in Requests, OpenStores(q) PROVE Rooted'
  <2>1. CASE Fail(q)
    BY <1>2, <1>8, <2>1 DEF OpenStores, leases
  <2>2. ASSUME NEW root \in Roots, Go(q, [jobs[q] EXCEPT !.at = "call", !.dir = root])
        PROVE  Rooted'
    <3>1. PICK k : k = [jobs[q] EXCEPT !.at = "call", !.dir = root]
      OBVIOUS
    <3>2. k.at = "call" /\ k.ref = jobs[q].ref /\ k.run = jobs[q].run /\ k.dir = root
      BY <3>1, UnderWay DEF JobStates
    <3>3. jobs[q].at = "root" /\ jobs[q].run # None
      BY <1>8, UnderWay, DrainAssumption DEF OpenStores
    <3>4. k.ref \in live => app.run = k.run
      BY <3>2, <3>3 DEF Rooted
    <3>5. app.run # None => root = app.run
      BY DEF Roots, Unlocked, Placed
    <3> QED BY <1>8, <2>2, <3>1, <3>2, <3>3, <3>4, <3>5, GoRooted DEF OpenStores, leases
  <2> QED BY <1>8, <2>1, <2>2 DEF OpenStores
<1>9. ASSUME NEW q \in Requests, Call(q) PROVE Rooted'
  <2>1. CASE Fail(q)
    BY <1>2, <1>9, <2>1 DEF Call, leases
  <2>2. CASE jobs[q].ref \in live /\ Go(q, [jobs[q] EXCEPT !.at = "sent"])
    <3>1. PICK k : k = [jobs[q] EXCEPT !.at = "sent"]
      OBVIOUS
    <3>2. k.at = "sent" /\ k.ref = jobs[q].ref /\ k.run = jobs[q].run /\ k.dir = jobs[q].dir
      BY <3>1, UnderWay DEF JobStates
    <3>3. app.run = jobs[q].run /\ jobs[q].dir = jobs[q].run
      BY <1>9, <2>2 DEF Call, Rooted
    <3> QED BY <1>9, <2>2, <3>1, <3>2, <3>3, GoRooted DEF Call, leases
  <2> QED BY <1>9, <2>1, <2>2 DEF Call
<1>10. ASSUME NEW q \in Requests, Answer(q) PROVE Rooted'
  <2>1. \/ Fail(q)
        \/ \E at \in {"call", "save", "rejected"} : Go(q, [jobs[q] EXCEPT !.at = at])
    BY <1>10 DEF Answer
  <2>2. CASE Fail(q)
    BY <1>2, <1>10, <2>2 DEF Answer, leases
  <2>3. ASSUME NEW at \in {"call", "save", "rejected"}, Go(q, [jobs[q] EXCEPT !.at = at])
        PROVE  Rooted'
    <3>1. PICK k : k = [jobs[q] EXCEPT !.at = at]
      OBVIOUS
    <3>2. k.at = at /\ k.ref = jobs[q].ref /\ k.run = jobs[q].run /\ k.dir = jobs[q].dir
      BY <3>1, UnderWay DEF JobStates
    <3>3. jobs[q].dir = jobs[q].run /\ (jobs[q].ref \in live => app.run = jobs[q].run)
      BY <1>10 DEF Answer, Rooted
    <3> QED BY <1>10, <2>3, <3>1, <3>2, <3>3, GoRooted DEF Answer, leases
  <2> QED BY <2>1, <2>2, <2>3
<1>11. ASSUME NEW q \in Requests, SaveProgress(q) PROVE Rooted'
  <2>1. UNCHANGED <<app, live>>
    BY <1>11 DEF SaveProgress, leases
  <2>2. CASE Fail(q)
    BY <1>2, <2>1, <2>2
  <2>3. CASE Go(q, [jobs[q] EXCEPT !.at = "manifest"])
    <3>1. [jobs[q] EXCEPT !.at = "manifest"].at = "manifest"
      BY UnderWay DEF JobStates
    <3> QED BY <1>3, <2>1, <2>3, <3>1
  <2>4. CASE Go(q, [jobs[q] EXCEPT !.at = "call", !.page = @ + 1])
    <3>1. PICK k : k = [jobs[q] EXCEPT !.at = "call", !.page = @ + 1]
      OBVIOUS
    <3>2. k.at = "call" /\ k.ref = jobs[q].ref /\ k.run = jobs[q].run /\ k.dir = jobs[q].dir
      BY <3>1, UnderWay DEF JobStates
    <3>3. jobs[q].dir = jobs[q].run /\ (jobs[q].ref \in live => app.run = jobs[q].run)
      BY <1>11 DEF SaveProgress, Rooted
    <3> QED BY <2>1, <2>4, <3>1, <3>2, <3>3, GoRooted
  <2> QED BY <1>11, <2>2, <2>3, <2>4 DEF SaveProgress
<1>12. ASSUME NEW q \in Requests, Rejected(q) \/ ClearProgress(q) PROVE Rooted'
  BY <1>2, <1>12 DEF Rejected, ClearProgress, leases
<1>13. ASSUME NEW q \in Requests, WriteManifest(q) PROVE Rooted'
  <2>1. \A x \in Requests : jobs'[x].at \in {"root", "call", "sent", "save"} => jobs'[x] = jobs[x]
    BY <1>13 DEF WriteManifest, Typed, JobStates
  <2> QED BY <1>13, <2>1, RootedStays DEF WriteManifest, leases
<1>14. ASSUME NEW q \in Requests, Import(q) PROVE Rooted'
  <2>1. [jobs[q] EXCEPT !.at = "clear"].at = "clear"
    BY UnderWay DEF JobStates
  <2> QED BY <1>2, <1>3, <1>14, <2>1 DEF Import, leases
<1>15. ASSUME NEW r \in Runs, OpenRun(r) PROVE Rooted'
  <2>1. jobs' = jobs
    BY <1>15 DEF OpenRun
  <2>2. CASE app.run = None /\ app' = [app EXCEPT !.target = r] /\ live' = live
    <3>1. app'.run = app.run
      BY <2>2 DEF Typed, AppStates
    <3> QED BY <2>1, <2>2, <3>1, RootedStays
  <2>3. CASE live' = {}
    BY <2>1, <2>3 DEF Rooted
  <2> QED BY <1>15, <2>2, <2>3 DEF OpenRun
<1>16. CASE OpenedRun
  <2>1. jobs' = jobs /\ (live' = live \/ live' = {})
    BY <1>16 DEF OpenedRun
  <2>2. app.run = None
    BY <1>16 DEF OpenedRun, Unlocked, Placed
  <2>3. \A q \in Requests :
          jobs[q].at \in {"root", "call", "sent", "save"} => jobs[q].ref \notin live
    <3>1. \A q \in Requests : jobs[q].at # "idle" => jobs[q].run # None
      BY DrainAssumption DEF Placed
    <3> QED BY <2>2, <3>1 DEF Rooted
  <2> QED BY <2>1, <2>3 DEF Rooted
<1>17. CASE Disconnect
  <2>1. \A x \in Requests : /\ jobs'[x].at = jobs[x].at /\ jobs'[x].run = jobs[x].run
                            /\ jobs'[x].ref = jobs[x].ref /\ jobs'[x].dir = jobs[x].dir
    BY <1>17 DEF Disconnect, Outdated, Typed, JobStates
  <2>2. app'.run = app.run /\ live' \subseteq live
    BY <1>17 DEF Disconnect, Typed, AppStates
  <2> QED BY <2>1, <2>2, RootedStays
<1>18. ASSUME Freeze \/ \E r \in Runs : Expire(r) PROVE Rooted'
  BY <1>18 DEF Freeze, Expire, leases, Rooted
<1>19. CASE Crash
  BY <1>19, NewTyped DEF Crash, Rooted
<1> QED BY <1>1, <1>4, <1>5, <1>6, <1>7, <1>8, <1>9, <1>10, <1>11, <1>12, <1>13, <1>14,
     <1>15, <1>16, <1>17, <1>18, <1>19 DEF Next, Connecting, Draining, Calling
-----------------------------------------------------------------------------
(* The budget.                                                             *)

\* The items of so many pages, for the prover.
LEMMA Times ==
  ASSUME NEW p \in Nat, NEW m \in Nat, NEW n \in Nat
  PROVE  /\ p * n \in Nat /\ p * (n + 1) = p * n + p
         /\ m <= n => p * m <= p * n
OBVIOUS

\* No call is sent, and what was charged and what came stays.
Quiet ==
  /\ wire' = wire
  /\ \A r \in Runs :
       LET old == runs[r].ledger
           new == runs'[r].ledger
       IN new.calls = old.calls /\ new.items = old.items /\ new.retries = old.retries
  /\ \A q \in Requests : jobs'[q].at = "sent" =>
       /\ jobs[q].at = "sent" /\ jobs'[q].run = jobs[q].run
       /\ jobs'[q].page = jobs[q].page

\* A step that neither calls nor answers leaves the wire covered.
LEMMA QuietCovered == ASSUME Covered, Typed, Quiet PROVE Covered'
<1> SUFFICES ASSUME NEW r \in Runs PROVE CoveredAt(r)'
  BY DEF Covered
<1>0. CoveredAt(r)
  BY DEF Covered
<1>1. Sent(r)' \in SUBSET Sent(r)
  BY DEF Quiet, Sent
<1>2. IsFiniteSet(Sent(r))
  BY <1>0 DEF CoveredAt
<1>3. IsFiniteSet(Sent(r)') /\ Cardinality(Sent(r)') <= Cardinality(Sent(r))
  BY <1>1, <1>2, FS_Subset
<1>4. Cardinality(Sent(r)') \in Nat /\ Cardinality(Sent(r)) \in Nat
  BY <1>2, <1>3, FS_CardinalityType
<1> DEFINE m == PageItems * Cardinality(Sent(r)')
           n == PageItems * Cardinality(Sent(r))
<1>5. m \in Nat /\ n \in Nat /\ m <= n
  BY <1>3, <1>4, Bounds, Times
<1>6. wire[r].items \in Nat /\ runs[r].ledger.items \in Int
  BY DEF Typed, Given, RunStates, Ledgers
<1>7. wire[r].items + n <= runs[r].ledger.items
  BY <1>0 DEF CoveredAt
<1> HIDE DEF m, n
<1>8. wire'[r].items + m <= runs'[r].ledger.items
  BY <1>5, <1>6, <1>7 DEF Quiet
<1> QED BY <1>0, <1>3, <1>8 DEF Quiet, CoveredAt, m

\* A request that sends nothing.
LEMMA GoQuiet ==
  ASSUME Typed, NEW q \in Requests, NEW j, Go(q, j), j.at # "sent", wire' = wire,
         \A r \in Runs :
           LET old == runs[r].ledger
               new == runs'[r].ledger
           IN /\ new.calls = old.calls /\ new.items = old.items
              /\ new.retries = old.retries
  PROVE  Quiet
BY DEF Quiet, Go, Typed

\* A step that charges one run.
LEMMA OneRun ==
  ASSUME Covered, NEW o \in Runs, CoveredAt(o)',
         \A r \in Runs \ {o} :
           /\ runs'[r].ledger = runs[r].ledger /\ wire'[r] = wire[r]
           /\ Sent(r)' = Sent(r)
  PROVE  Covered'
<1> SUFFICES ASSUME NEW r \in Runs, r # o PROVE CoveredAt(r)'
  BY DEF Covered
<1> QED BY DEF Covered, CoveredAt

\* What a request that goes on as k makes of the calls that were sent.
LEMMA SentMoves ==
  ASSUME Typed, NEW q \in Requests, NEW k, Go(q, k), k.run = jobs[q].run \/ k.at # "sent",
         NEW r \in Runs
  PROVE  /\ Sent(r)' = IF k.at = "sent" /\ k.page # 0 /\ k.run = r
                        THEN Sent(r) \cup {q} ELSE Sent(r) \ {q}
         /\ q \in Sent(r) <=> jobs[q].at = "sent" /\ jobs[q].run = r /\ jobs[q].page # 0
BY DEF Sent, Go, Typed

\* What a call for a page holds of the budget is a page's items.
LEMMA Held ==
  ASSUME Typed, Covered, NEW q \in Requests, NEW o \in Runs, jobs[q].run = o
  PROVE  /\ IsFiniteSet(Sent(o)) /\ PageItems * Cardinality(Sent(o)) \in Nat
         /\ Asked(jobs[q]) \in Nat
         /\ q \notin Sent(o) /\ jobs[q].page # 0 =>
              PageItems * Cardinality(Sent(o) \cup {q})
                = PageItems * Cardinality(Sent(o)) + Asked(jobs[q])
         /\ q \in Sent(o) =>
              PageItems * Cardinality(Sent(o) \ {q})
                = PageItems * Cardinality(Sent(o)) - Asked(jobs[q])
<1>1. IsFiniteSet(Sent(o)) /\ Cardinality(Sent(o)) \in Nat
  BY FS_CardinalityType DEF Covered, CoveredAt
<1>2. Asked(jobs[q]) \in Nat /\ PageItems * Cardinality(Sent(o)) \in Nat
  BY <1>1, Bounds, Times DEF Asked
<1>3. ASSUME q \notin Sent(o), jobs[q].page # 0
      PROVE  PageItems * Cardinality(Sent(o) \cup {q})
                = PageItems * Cardinality(Sent(o)) + Asked(jobs[q])
  <2>1. Cardinality(Sent(o) \cup {q}) = Cardinality(Sent(o)) + 1
    BY <1>1, <1>3, FS_AddElement
  <2> QED BY <1>1, <1>3, <2>1, Bounds, Times DEF Asked
<1>4. ASSUME q \in Sent(o)
      PROVE  PageItems * Cardinality(Sent(o) \ {q})
                = PageItems * Cardinality(Sent(o)) - Asked(jobs[q])
  <2>1. IsFiniteSet(Sent(o) \ {q}) /\ Cardinality(Sent(o) \ {q}) \in Nat
        /\ Cardinality(Sent(o)) = Cardinality(Sent(o) \ {q}) + 1
    <3>1. IsFiniteSet(Sent(o) \ {q})
          /\ Cardinality(Sent(o) \ {q}) = Cardinality(Sent(o)) - 1
      BY <1>1, <1>4, FS_RemoveElement
    <3> QED BY <1>1, <3>1, FS_CardinalityType
  <2>2. Asked(jobs[q]) = PageItems
    BY <1>4 DEF Sent, Asked
  <2>3. PageItems * (Cardinality(Sent(o) \ {q}) + 1)
          = PageItems * Cardinality(Sent(o) \ {q}) + PageItems
        /\ PageItems * Cardinality(Sent(o) \ {q}) \in Nat
    BY <2>1, Bounds, Times
  <2> QED BY <2>1, <2>2, <2>3, Bounds
<1> QED BY <1>1, <1>2, <1>3, <1>4

\* One run's budget: `held' is what the calls under way hold.
LEMMA RunCharged ==
  ASSUME Typed, NEW o \in Runs, CoveredAt(o), NEW calls \in Nat, NEW came \in Nat,
         NEW held \in Int, NEW l \in Ledgers, l = runs'[o].ledger,
         wire'[o].calls = wire[o].calls + calls,
         l.calls >= runs[o].ledger.calls + calls, l.calls <= MaxCalls,
         wire'[o].items = wire[o].items + came,
         l.items >= runs[o].ledger.items + came + held, l.items <= MaxItems,
         l.retries <= MaxRetries,
         IsFiniteSet(Sent(o)'), PageItems * Cardinality(Sent(o)) \in Nat,
         PageItems * Cardinality(Sent(o)') = PageItems * Cardinality(Sent(o)) + held
  PROVE  CoveredAt(o)'
<1>1. /\ wire[o].calls \in Nat /\ wire[o].items \in Nat
      /\ runs[o].ledger.calls \in Nat /\ runs[o].ledger.items \in Int
      /\ l.calls \in Nat /\ l.items \in Int
  BY DEF Typed, Given, RunStates, Ledgers
<1>2. /\ wire[o].calls <= runs[o].ledger.calls
      /\ wire[o].items + PageItems * Cardinality(Sent(o)) <= runs[o].ledger.items
  BY DEF CoveredAt
<1>3. wire'[o].calls <= l.calls
  BY <1>1, <1>2, Bounds
<1>4. wire'[o].items + PageItems * Cardinality(Sent(o)') <= l.items
  BY <1>1, <1>2
<1> QED BY <1>3, <1>4 DEF CoveredAt

\* A call reserves what its page may bring.
LEMMA CallCovered ==
  ASSUME Typed, Placed, Rooted, Covered, NEW q \in Requests, Call(q)
  PROVE  Covered'
<1> PICK j : j = jobs[q]
  OBVIOUS
<1> PICK o : o = j.run
  OBVIOUS
<1> PICK n : n = Asked(j)
  OBVIOUS
<1> PICK ledger : ledger = runs[o].ledger
  OBVIOUS
<1>1. /\ o \in Runs /\ j \in JobStates /\ j.at = "call" /\ n \in Nat
      /\ ledger \in Ledgers /\ ledger.calls \in Nat /\ ledger.items \in Int
  <2>1. o \in Runs /\ j \in JobStates /\ j.at = "call"
    BY UnderWay DEF Call
  <2> QED BY <2>1, Bounds DEF Typed, RunStates, Ledgers, Asked
<1>2. PICK charged : charged = Reserved(ledger, n)
  OBVIOUS
<1>3. PICK given : given = Settled(charged, n, 0)
  OBVIOUS
<1>4. /\ charged \in Ledgers /\ charged.calls = ledger.calls + 1
      /\ charged.items = ledger.items + n /\ charged.retries = ledger.retries
      /\ given \in Ledgers /\ given.calls = ledger.calls + 1
      /\ given.items = ledger.items /\ given.retries = ledger.retries
  <2>1. charged \in Ledgers /\ given \in Ledgers
    BY <1>1, <1>2, <1>3, LedgerMoves
  <2>2. charged.calls = ledger.calls + 1 /\ charged.items = ledger.items + n
        /\ charged.retries = ledger.retries
    BY <1>1, <1>2 DEF Reserved, Ledgers
  <2>3. given.calls = charged.calls /\ given.items = charged.items - (n - 0)
        /\ given.retries = charged.retries
    BY <1>3, <2>1 DEF Settled, Ledgers
  <2> QED BY <1>1, <2>1, <2>2, <2>3
<1>5. HasRoom(ledger, n) => charged.calls <= MaxCalls /\ charged.items <= MaxItems
  BY <1>4 DEF HasRoom
<1>6. \A r \in Runs : q \notin Sent(r)
  BY <1>1 DEF Sent
<1>7. /\ CoveredAt(o) /\ ledger.retries <= MaxRetries /\ ledger.items <= MaxItems
  BY <1>1 DEF Covered, CoveredAt
<1>8. /\ IsFiniteSet(Sent(o)) /\ PageItems * Cardinality(Sent(o)) \in Nat
      /\ j.page # 0 => PageItems * Cardinality(Sent(o) \cup {q})
                         = PageItems * Cardinality(Sent(o)) + n
  BY <1>1, <1>6, Held
<1>9. CASE Fail(q) /\ UNCHANGED <<runs, wire>>
  BY <1>9, GoQuiet, QuietCovered, NewTyped DEF Fail
<1>10. CASE /\ HasRoom(ledger, n)
            /\ runs' = [runs EXCEPT ![o].ledger = charged]
            /\ wire' = [wire EXCEPT ![o].calls = @ + 1]
            /\ Go(q, [j EXCEPT !.at = "sent"])
  <2>1. PICK k : k = [j EXCEPT !.at = "sent"]
    OBVIOUS
  <2>2. k.at = "sent" /\ k.run = o /\ k.page = j.page /\ Go(q, k)
    BY <1>1, <1>10, <2>1 DEF JobStates
  <2>3. \A r \in Runs : Sent(r)' = IF j.page # 0 /\ r = o THEN Sent(r) \cup {q} ELSE Sent(r)
    <3>1. \A r \in Runs : Sent(r) \ {q} = Sent(r)
      BY <1>6
    <3> TAKE r \in Runs
    <3>2. Sent(r)' = IF k.at = "sent" /\ k.page # 0 /\ k.run = r
                     THEN Sent(r) \cup {q} ELSE Sent(r) \ {q}
      BY <2>2, SentMoves
    <3> QED BY <2>2, <3>1, <3>2
  <2>4. /\ runs'[o].ledger = charged
        /\ wire'[o].calls = wire[o].calls + 1 /\ wire'[o].items = wire[o].items + 0
        /\ \A r \in Runs \ {o} : runs'[r].ledger = runs[r].ledger /\ wire'[r] = wire[r]
    BY <1>1, <1>10 DEF Typed, Given, RunStates
  <2>5. /\ IsFiniteSet(Sent(o)')
        /\ PageItems * Cardinality(Sent(o)') = PageItems * Cardinality(Sent(o)) + n
    <3>1. CASE j.page = 0
      <4>1. n = 0 /\ Sent(o)' = Sent(o)
        BY <1>1, <2>3, <3>1 DEF Asked
      <4> QED BY <1>8, <4>1
    <3>2. CASE j.page # 0
      <4>1. Sent(o)' = Sent(o) \cup {q}
        BY <1>1, <2>3, <3>2
      <4> QED BY <1>8, <3>2, <4>1, FS_AddElement
    <3> QED BY <3>1, <3>2
  <2>6. CoveredAt(o)'
    <3>1. /\ charged.calls >= runs[o].ledger.calls + 1 /\ charged.calls <= MaxCalls
          /\ charged.items >= runs[o].ledger.items + 0 + n /\ charged.items <= MaxItems
          /\ charged.retries <= MaxRetries
      BY <1>1, <1>4, <1>5, <1>7, <1>10 DEF Typed, RunStates, Ledgers
    <3>2. o \in Runs /\ n \in Int /\ charged \in Ledgers /\ charged = runs'[o].ledger
      BY <1>1, <1>4, <2>4
    <3>3. wire'[o].calls = wire[o].calls + 1 /\ wire'[o].items = wire[o].items + 0
      BY <2>4
    <3>4. CoveredAt(o)
      BY <1>7
    <3> QED BY <1>8, <2>5, <3>1, <3>2, <3>3, <3>4, RunCharged
  <2> QED BY <1>1, <2>3, <2>4, <2>6, OneRun
<1>11. CASE /\ HasRoom(ledger, n) /\ wire' = wire /\ Fail(q)
            /\ runs' = [runs EXCEPT ![o].ledger = given]
  <2>1. \A r \in Runs : Sent(r)' = Sent(r)
    <3>1. \A r \in Runs : Sent(r) \ {q} = Sent(r)
      BY <1>6
    <3> QED BY <1>11, <3>1, SentMoves, NewTyped DEF Fail
  <2>2. /\ runs'[o].ledger = given
        /\ wire'[o].calls = wire[o].calls + 0 /\ wire'[o].items = wire[o].items + 0
        /\ \A r \in Runs \ {o} : runs'[r].ledger = runs[r].ledger
    BY <1>1, <1>11 DEF Typed, Given, RunStates
  <2>3. CoveredAt(o)'
    <3>1. PageItems * Cardinality(Sent(o)') = PageItems * Cardinality(Sent(o)) + 0
      BY <1>1, <1>8, <2>1
    <3>2. given.calls = charged.calls /\ given.items = ledger.items
      BY <1>4
    <3>3. /\ given.calls >= runs[o].ledger.calls + 0
          /\ given.items >= runs[o].ledger.items + 0 + 0
      BY <1>1, <1>4 DEF Typed, RunStates, Ledgers
    <3>4. given.calls <= MaxCalls /\ given.items <= MaxItems /\ given.retries <= MaxRetries
      BY <1>4, <1>5, <1>7, <1>11
    <3>5. IsFiniteSet(Sent(o)')
      BY <1>1, <1>8, <2>1
    <3>6. o \in Runs /\ given \in Ledgers /\ given = runs'[o].ledger
      BY <1>1, <1>4, <2>2
    <3>7. wire'[o].calls = wire[o].calls + 0 /\ wire'[o].items = wire[o].items + 0
      BY <2>2
    <3>8. CoveredAt(o) /\ PageItems * Cardinality(Sent(o)) \in Nat
      BY <1>7, <1>8
    <3> QED BY <3>1, <3>3, <3>4, <3>5, <3>6, <3>7, <3>8, RunCharged
  <2> QED BY <1>1, <1>11, <2>1, <2>2, <2>3, OneRun
<1>12. CASE j.dir = o
  <2>1. Ledger(j) = ledger /\ \A l : Kept(j, l) = [runs EXCEPT ![o].ledger = l]
    BY <1>12, KeptIs
  <2> QED BY <1>2, <1>3, <1>9, <1>10, <1>11, <2>1 DEF Call
<1>13. CASE j.dir # o
  <2>1. j.ref \notin live /\ \A l : Kept(j, l) = runs
    BY <1>1, <1>13, KeptIs DEF Rooted
  <2>2. Fail(q) /\ UNCHANGED <<runs, wire>>
    BY <2>1 DEF Call
  <2> QED BY <1>9, <2>2
<1> QED BY <1>12, <1>13

\* An answer gives back its own share alone.
LEMMA AnswerCovered ==
  ASSUME Typed, Placed, Rooted, Covered, NEW q \in Requests, Answer(q)
  PROVE  Covered'
<1> PICK j : j = jobs[q]
  OBVIOUS
<1> PICK o : o = j.run
  OBVIOUS
<1> PICK n : n = Asked(j)
  OBVIOUS
<1> PICK ledger : ledger = runs[o].ledger
  OBVIOUS
<1>1. /\ o \in Runs /\ j \in JobStates /\ j.at = "sent" /\ n \in Nat
      /\ ledger \in Ledgers /\ ledger.calls \in Nat /\ ledger.items \in Int
      /\ ledger.retries \in Nat
  <2>1. o \in Runs /\ j \in JobStates /\ j.at = "sent"
    BY UnderWay DEF Answer
  <2> QED BY <2>1, Bounds DEF Typed, RunStates, Ledgers, Asked
<1>0. Ledger(j) = ledger /\ \A l : Kept(j, l) = [runs EXCEPT ![o].ledger = l]
  <2>1. j.dir = j.run
    BY <1>1 DEF Rooted
  <2> QED BY <2>1, KeptIs
<1>2. PICK verdict \in Verdicts, carried \in Carried(j) :
        LET charged == Charged(Ledger(j), j, verdict, carried)
            owed == Owed(j, verdict, carried)
        IN /\ verdict = "page" => carried <= Asked(j)
           /\ wire' = [wire EXCEPT ![j.run].items = @ + owed,
                                   ![j.run].thrown = @ \/ owed # carried]
           /\ \/ /\ MayRetry(charged)
                 /\ runs' = Kept(j, [charged EXCEPT !.retries = @ + 1])
                 /\ Go(q, [j EXCEPT !.at = "call"])
              \/ /\ runs' = Kept(j, charged)
                 /\ CASE verdict = "page" -> Go(q, [j EXCEPT !.at = "save"])
                      [] verdict = "rejected" -> Go(q, [j EXCEPT !.at = "rejected"])
                      [] OTHER -> Fail(q)
  <2> DEFINE Ends(k) ==
        \E verdict \in Verdicts, carried \in Carried(k) :
          LET charged == Charged(Ledger(k), k, verdict, carried)
              owed == Owed(k, verdict, carried)
          IN /\ verdict = "page" => carried <= Asked(k)
             /\ wire' = [wire EXCEPT ![k.run].items = @ + owed,
                                     ![k.run].thrown = @ \/ owed # carried]
             /\ \/ /\ MayRetry(charged)
                   /\ runs' = Kept(k, [charged EXCEPT !.retries = @ + 1])
                   /\ Go(q, [k EXCEPT !.at = "call"])
                \/ /\ runs' = Kept(k, charged)
                   /\ CASE verdict = "page" -> Go(q, [k EXCEPT !.at = "save"])
                        [] verdict = "rejected" -> Go(q, [k EXCEPT !.at = "rejected"])
                        [] OTHER -> Fail(q)
  <2>1. Ends(jobs[q])
    BY DEF Answer
  <2> HIDE DEF Ends
  <2>2. Ends(j)
    BY <2>1
  <2> QED BY <2>2 DEF Ends
<1> PICK items : items = Owed(j, verdict, carried)
  OBVIOUS
<1>3. PICK charged : charged = Charged(ledger, j, verdict, carried)
  OBVIOUS
<1>16. \/ MayRetry(charged) /\ runs' = Kept(j, [charged EXCEPT !.retries = @ + 1])
      \/ runs' = Kept(j, charged)
  BY <1>0, <1>2, <1>3
<1>4. items \in Nat /\ items <= n /\ carried \in Nat
  BY <1>1, OwedIs
\* What is charged covers what came, without what the call had held.
<1>5. /\ charged \in Ledgers /\ charged.calls = ledger.calls
      /\ charged.retries = ledger.retries /\ charged.items <= ledger.items
      /\ ledger.items + items - n <= charged.items
  <2>1. \A m \in Nat : LET l == Settled(ledger, n, m)
                       IN /\ l.calls = ledger.calls /\ l.retries = ledger.retries
                          /\ l.items = ledger.items - (n - m)
    BY <1>1 DEF Settled, Ledgers
  <2>2. charged \in Ledgers
    BY <1>1, <1>3, <1>4, ChargedTyped
  <2>3. CASE verdict = "lost"
    BY <1>1, <1>3, <1>4, <2>2, <2>3 DEF Charged
  <2>4. CASE verdict = "page"
    <3>1. charged = Settled(ledger, n, carried) /\ items = carried
      BY <1>1, <1>2, <1>3, <1>4, <2>4 DEF Charged, Owed
    <3> QED BY <1>1, <1>4, <2>1, <2>2, <3>1
  <2>5. CASE verdict \notin {"lost", "page"}
    <3>0. verdict # "lost" /\ verdict # "page"
      BY <2>5
    <3>1. charged = Settled(ledger, n, 0)
      BY <1>3, <3>0 DEF Charged
    <3>3. items = 0
      BY <2>5 DEF Owed
    <3> QED BY <1>1, <2>1, <2>2, <3>1, <3>3
  <2> QED BY <2>3, <2>4, <2>5
<1>6. /\ CoveredAt(o) /\ ledger.calls <= MaxCalls /\ ledger.retries <= MaxRetries
      /\ ledger.items <= MaxItems
  BY <1>1 DEF Covered, CoveredAt
<1>7. PICK l \in Ledgers :
        /\ runs' = [runs EXCEPT ![o].ledger = l]
        /\ l.calls = charged.calls /\ l.items = charged.items
        /\ l.retries <= MaxRetries
  <2>1. CASE MayRetry(charged) /\ runs' = Kept(j, [charged EXCEPT !.retries = @ + 1])
    <3>1. PICK l : l = [charged EXCEPT !.retries = @ + 1]
      OBVIOUS
    <3>2. l \in Ledgers /\ l.calls = charged.calls /\ l.items = charged.items
          /\ l.retries = charged.retries + 1
      BY <1>5, <3>1, LedgerMoves DEF Ledgers
    <3>3. charged.retries + 1 <= MaxRetries
      BY <2>1 DEF MayRetry
    <3> QED BY <1>0, <2>1, <3>1, <3>2, <3>3
  <2>2. CASE runs' = Kept(j, charged)
    BY <1>0, <1>5, <1>6, <2>2
  <2> QED BY <1>16, <2>1, <2>2
<1>8. PICK k : Go(q, k) /\ k.at # "sent"
  <2>1. [j EXCEPT !.at = "call"].at = "call" /\ [j EXCEPT !.at = "save"].at = "save"
        /\ [j EXCEPT !.at = "rejected"].at = "rejected"
    BY <1>1 DEF JobStates
  <2> QED BY <1>2, <2>1, NewTyped DEF Fail
<1>9. \A r \in Runs : Sent(r)' = Sent(r) \ {q}
  BY <1>8, SentMoves
<1>10. \A r \in Runs : q \in Sent(r) <=> r = o /\ j.page # 0
  BY <1>1 DEF Sent
<1>11. \A r \in Runs \ {o} : Sent(r)' = Sent(r)
  <2> TAKE r \in Runs \ {o}
  <2>1. q \notin Sent(r)
    BY <1>10
  <2> QED BY <1>9, <2>1
<1>12. /\ IsFiniteSet(Sent(o)') /\ PageItems * Cardinality(Sent(o)) \in Nat
       /\ PageItems * Cardinality(Sent(o)') = PageItems * Cardinality(Sent(o)) + (0 - n)
  <2>1. /\ IsFiniteSet(Sent(o)) /\ PageItems * Cardinality(Sent(o)) \in Nat
        /\ q \in Sent(o) => PageItems * Cardinality(Sent(o) \ {q})
                              = PageItems * Cardinality(Sent(o)) - n
    BY <1>1, Held
  <2>2. Sent(o)' = Sent(o) \ {q}
    BY <1>1, <1>9
  <2>3. CASE j.page = 0
    <3>1. n = 0 /\ Sent(o)' = Sent(o)
      BY <1>1, <1>10, <2>2, <2>3 DEF Asked
    <3> QED BY <2>1, <3>1
  <2>4. CASE j.page # 0
    <3>1. q \in Sent(o)
      BY <1>1, <1>10, <2>4
    <3>2. PageItems * Cardinality(Sent(o)') = PageItems * Cardinality(Sent(o)) - n
      BY <2>1, <2>2, <3>1
    <3>3. IsFiniteSet(Sent(o)')
      BY <2>1, <2>2, FS_RemoveElement
    <3> QED BY <1>1, <2>1, <3>2, <3>3
  <2> QED BY <2>3, <2>4
<1>13. /\ runs'[o].ledger = l
       /\ wire'[o].calls = wire[o].calls + 0 /\ wire'[o].items = wire[o].items + items
       /\ \A r \in Runs \ {o} : runs'[r].ledger = runs[r].ledger /\ wire'[r] = wire[r]
  BY <1>1, <1>2, <1>7 DEF Typed, RunStates, Given
<1>14. l.calls >= ledger.calls + 0 /\ l.items >= ledger.items + items + (0 - n)
       /\ l.calls <= MaxCalls /\ l.items <= MaxItems
  <2>1. l.calls \in Nat /\ l.items \in Int
    BY <1>7 DEF Ledgers
  <2> QED BY <1>1, <1>4, <1>5, <1>6, <1>7, <2>1, Bounds
<1>15. CoveredAt(o)'
  BY <1>1, <1>4, <1>6, <1>7, <1>12, <1>13, <1>14, RunCharged
<1> QED BY <1>1, <1>11, <1>13, <1>15, OneRun

\* Every other step sends nothing and charges nothing.
LEMMA OthersQuiet ==
  ASSUME Typed, Placed
  PROVE  /\ \A q \in Requests :
              /\ (\E c \in Channels : StartConnect(q, c)) => Quiet
              /\ Register(q) \/ Adopt(q) \/ StartDrain(q) \/ OpenStores(q) => Quiet
              /\ Rejected(q) \/ SaveProgress(q) => Quiet
              /\ WriteManifest(q) \/ Import(q) \/ ClearProgress(q) => Quiet
         /\ \A r \in Runs : OpenRun(r) \/ Expire(r) => Quiet
         /\ Disconnect \/ OpenedRun \/ Freeze \/ Crash => Quiet
<1>1. \A q \in Requests, at \in Places \ {"sent"} : jobs[q] \in JobStates
        /\ [jobs[q] EXCEPT !.at = at].at = at
  BY DEF Typed, JobStates
<1>2. ASSUME NEW q \in Requests PROVE
        /\ (\E c \in Channels : StartConnect(q, c)) => Quiet
        /\ Register(q) \/ StartDrain(q) \/ OpenStores(q) => Quiet
        /\ Rejected(q) \/ SaveProgress(q) => Quiet
        /\ Import(q) \/ ClearProgress(q) => Quiet
  <2> DEFINE Same == \A r \in Runs : runs'[r].ledger = runs[r].ledger
  <2>1. ASSUME Fail(q), wire' = wire, Same PROVE Quiet
    BY <2>1, GoQuiet, NewTyped DEF Fail
  <2>2. ASSUME NEW k, Go(q, k), k.at # "sent", wire' = wire, Same PROVE Quiet
    BY <2>2, GoQuiet
  <2>3. ASSUME NEW c \in Channels, StartConnect(q, c) PROVE Quiet
    <3>1. [NoJob EXCEPT !.at = "probe", !.run = app.run, !.channel = c,
                        !.expected = runs[app.run].source, !.current = TRUE].at = "probe"
      BY NewTyped DEF JobStates
    <3> QED BY <2>2, <2>3, <3>1 DEF StartConnect
  <2>4. ASSUME Register(q) PROVE Quiet
    <3>1. [jobs[q] EXCEPT !.at = "verified", !.ref = drawn + 1].at = "verified"
      BY DEF Typed, JobStates
    <3> QED BY <2>1, <2>2, <2>4, <3>1 DEF Register
  <2>5. ASSUME StartDrain(q) PROVE Quiet
    <3>1. [NoJob EXCEPT !.at = "root", !.run = app.run, !.ref = app.conn.ref].at = "root"
      BY NewTyped DEF JobStates
    <3>2. Same
      BY <2>5 DEF StartDrain, Typed, RunStates
    <3> QED BY <2>2, <2>5, <3>1, <3>2 DEF StartDrain
  <2>6. ASSUME Rejected(q) PROVE Quiet
    BY <2>1, <2>6 DEF Rejected
  <2>7. ASSUME SaveProgress(q) PROVE Quiet
    <3>1. /\ [jobs[q] EXCEPT !.at = "manifest"].at = "manifest"
          /\ [jobs[q] EXCEPT !.at = "call", !.page = @ + 1].at = "call"
      BY DEF Typed, JobStates
    <3>2. Same /\ wire' = wire
      BY <2>7 DEF SaveProgress, Reached, Typed, RunStates
    <3>3. \/ Fail(q) \/ Go(q, [jobs[q] EXCEPT !.at = "manifest"])
          \/ Go(q, [jobs[q] EXCEPT !.at = "call", !.page = @ + 1])
      BY <2>7 DEF SaveProgress
    <3> QED BY <2>1, <2>2, <3>1, <3>2, <3>3
  <2>8. ASSUME Import(q) PROVE Quiet
    <3>1. [jobs[q] EXCEPT !.at = "clear"].at = "clear"
      BY DEF Typed, JobStates
    <3>2. Same /\ wire' = wire
      BY <2>8 DEF Import, Typed, RunStates
    <3>3. Fail(q) \/ Go(q, [jobs[q] EXCEPT !.at = "clear"])
      BY <2>8 DEF Import
    <3> QED BY <2>1, <2>2, <3>1, <3>2, <3>3
  <2>9. ASSUME ClearProgress(q) PROVE Quiet
    <3>1. Same
      BY <2>9 DEF ClearProgress, Reached, Typed, RunStates
    <3> QED BY <2>1, <2>9, <3>1 DEF ClearProgress
  <2>10. ASSUME OpenStores(q) PROVE Quiet
    <3>1. \A root : [jobs[q] EXCEPT !.at = "call", !.dir = root].at = "call"
      BY DEF Typed, JobStates
    <3>2. Fail(q) \/ \E root \in Roots : Go(q, [jobs[q] EXCEPT !.at = "call", !.dir = root])
      BY <2>10 DEF OpenStores
    <3> QED BY <2>1, <2>2, <2>10, <3>1, <3>2 DEF OpenStores
  <2> QED BY <2>3, <2>4, <2>5, <2>6, <2>7, <2>8, <2>9, <2>10
<1>3. ASSUME NEW q \in Requests, Adopt(q) PROVE Quiet
  <2>1. CASE Fail(q) /\ UNCHANGED runs
    BY <1>3, <2>1, GoQuiet, NewTyped DEF Adopt, Fail
  <2>2. CASE /\ jobs' = Outdated([jobs EXCEPT ![q] = NoJob])
             /\ runs' = IF app.run = None THEN runs
                        ELSE [runs EXCEPT ![app.run].source = jobs[q].channel]
    <3>1. \A r \in Runs : runs'[r].ledger = runs[r].ledger
      BY <2>2 DEF Typed, RunStates
    <3>2. PICK js : js = [jobs EXCEPT ![q] = NoJob]
      OBVIOUS
    <3>3. \A x \in Requests : js[x] \in JobStates /\ (js[x].at = "sent" => js[x] = jobs[x])
      BY <3>2, NewTyped DEF Typed
    <3>4. \A x \in Requests : jobs'[x] = [js[x] EXCEPT !.current = FALSE]
      BY <2>2, <3>2 DEF Outdated
    <3>5. \A x \in Requests : jobs'[x].at = js[x].at /\ jobs'[x].run = js[x].run
                              /\ jobs'[x].page = js[x].page
      BY <3>3, <3>4 DEF JobStates
    <3> QED BY <1>3, <3>1, <3>3, <3>5 DEF Adopt, Quiet
  <2> QED BY <1>3, <2>1, <2>2 DEF Adopt
<1>4. ASSUME NEW q \in Requests, WriteManifest(q) PROVE Quiet
  <2>1. \A x \in Requests : jobs'[x].at = "sent" =>
          jobs[x].at = "sent" /\ jobs'[x].run = jobs[x].run /\ jobs'[x].page = jobs[x].page
    BY <1>4 DEF WriteManifest, Typed, JobStates
  <2> QED BY <1>4, <2>1 DEF WriteManifest, Quiet
<1>5. ASSUME NEW r \in Runs, OpenRun(r) \/ Expire(r) PROVE Quiet
  BY <1>5 DEF OpenRun, Expire, Quiet, Typed, RunStates, Ledgers
<1>6. ASSUME Disconnect PROVE Quiet
  BY <1>6 DEF Disconnect, Quiet, Outdated, Typed, JobStates
<1>7. ASSUME OpenedRun \/ Freeze \/ Crash PROVE Quiet
  BY <1>7, NewTyped DEF OpenedRun, Freeze, Crash, Quiet, Typed, RunStates
<1> QED BY <1>2, <1>3, <1>4, <1>5, <1>6, <1>7

\* Every step leaves the wire covered.
LEMMA CoveredNext ==
  ASSUME Typed, Placed, Rooted, Covered, [Next]_vars
  PROVE  Covered'
<1>1. CASE UNCHANGED vars
  BY <1>1, QuietCovered DEF Quiet, vars
<1>2. ASSUME NEW q \in Requests, Call(q) \/ Answer(q) PROVE Covered'
  BY <1>2, CallCovered, AnswerCovered
<1> QED BY <1>1, <1>2, OthersQuiet, QuietCovered DEF Next, Connecting, Draining, Calling
-----------------------------------------------------------------------------
(* Leases, windows and manifests.                                          *)

\* Who is connected, what runs hold of their source, and who is past a connect or
\* a manifest stays; a request may end, or go on with its calls.
Calm ==
  /\ app' = app /\ live' = live /\ crossed' = crossed
  /\ \A r \in Runs :
       /\ runs'[r].source = runs[r].source /\ runs'[r].window = runs[r].window
       /\ runs'[r].inventory = runs[r].inventory
  /\ \A q \in Requests :
       \/ jobs'[q] = jobs[q]
       \/ /\ jobs[q].at # "verified"
          /\ jobs'[q].at \notin {"probe", "verified", "import", "clear"}

Linked == NoLeaseIsLeft /\ Sourced /\ WindowIsOfTheSource /\ Manifested

\* A calm step leaves what is connected.
LEMMA CalmLinked == ASSUME Typed, Typed', Placed, Linked, Calm PROVE Linked'
<1>1. NoLeaseIsLeft'
  BY DEF Calm, Linked, NoLeaseIsLeft
<1>2. Sourced'
  <2>1. ASSUME NEW q \in Requests, jobs'[q].at \in {"probe", "verified"}, jobs'[q].current
        PROVE  jobs'[q].expected = runs'[jobs'[q].run].source
    <3>1. jobs'[q] = jobs[q] /\ jobs[q].run \in Runs
      BY <2>1 DEF Calm, Placed
    <3> QED BY <2>1, <3>1 DEF Calm, Linked, Sourced
  <2>2. app.run # None => app.run \in Runs
    BY DEF Typed, AppStates
  <2>3. app'.conn # NotConnected =>
          IF app'.run = None THEN Runs \subseteq crossed'
          ELSE app'.run \in crossed' \/ runs'[app'.run].source = app'.conn.channel
    BY <2>2 DEF Calm, Linked, Sourced
  <2> QED BY <2>1, <2>3 DEF Sourced
<1>3. WindowIsOfTheSource'
  BY DEF Calm, Linked, WindowIsOfTheSource, Loadable
<1>4. Manifested'
  <2> SUFFICES ASSUME NEW q \in Requests, jobs'[q].run \notin crossed'
               PROVE  /\ jobs'[q].at = "import" =>
                           jobs'[q].path = jobs'[q].run /\ jobs'[q].file = jobs'[q].run
                      /\ jobs'[q].at = "clear" =>
                           runs'[jobs'[q].run].inventory = jobs'[q].run
    BY DEF Manifested
  <2>1. CASE jobs'[q].at \in {"import", "clear"}
    <3>1. jobs'[q] = jobs[q] /\ jobs[q].run \in Runs /\ crossed' = crossed
      BY <2>1 DEF Calm, Placed
    <3> QED BY <2>1, <3>1 DEF Calm, Linked, Manifested
  <2> QED BY <2>1
<1> QED BY <1>1, <1>2, <1>3, <1>4 DEF Linked

\* A request that goes on elsewhere than to a connect or a manifest.
LEMMA GoCalm ==
  ASSUME Typed, NEW q \in Requests, NEW k, Go(q, k), jobs[q].at # "verified",
         k.at \notin {"probe", "verified", "import", "clear"},
         UNCHANGED <<app, live, crossed>>,
         \A r \in Runs :
           /\ runs'[r].source = runs[r].source /\ runs'[r].window = runs[r].window
           /\ runs'[r].inventory = runs[r].inventory
  PROVE  Calm
BY DEF Calm, Go, Typed

\* The calls of a drain and its progress are calm,
LEMMA CallsCalm ==
  ASSUME Typed, Placed, NEW q \in Requests,
         \/ OpenStores(q) \/ Call(q) \/ Answer(q) \/ Rejected(q)
         \/ SaveProgress(q) \/ ClearProgress(q)
  PROVE  Calm
<1>1. PICK at \in {"root", "call", "sent", "rejected", "save", "clear"} : jobs[q].at = at
  BY DEF OpenStores, Call, Answer, Rejected, SaveProgress, ClearProgress, MayClear
<1>2. UNCHANGED <<app, live, crossed>>
  BY DEF OpenStores, Call, Answer, Rejected, SaveProgress, ClearProgress, leases
<1>3. \A r \in Runs :
        /\ runs'[r].source = runs[r].source /\ runs'[r].window = runs[r].window
        /\ runs'[r].inventory = runs[r].inventory
  <2>1. \/ runs' = runs
        \/ \E o, l : runs' = [runs EXCEPT ![o].ledger = l]
        \/ \E o, c : runs' = [runs EXCEPT ![o].checkpoint = c]
    BY DEF OpenStores, Call, Answer, Rejected, SaveProgress, ClearProgress, Kept, Reached
  <2> QED BY <2>1 DEF Typed, RunStates
<1>4. \/ Fail(q)
      \/ \E to \in {"sent", "call", "save", "rejected", "manifest"} :
           \/ Go(q, [jobs[q] EXCEPT !.at = to])
           \/ Go(q, [jobs[q] EXCEPT !.at = to, !.page = @ + 1])
           \/ \E root : Go(q, [jobs[q] EXCEPT !.at = to, !.dir = root])
  BY DEF OpenStores, Call, Answer, Rejected, SaveProgress, ClearProgress
<1>5. \A to : /\ [jobs[q] EXCEPT !.at = to].at = to
              /\ [jobs[q] EXCEPT !.at = to, !.page = @ + 1].at = to
              /\ \A root : [jobs[q] EXCEPT !.at = to, !.dir = root].at = to
  BY DEF Typed, JobStates
<1>6. CASE Fail(q)
  BY <1>1, <1>2, <1>3, <1>6, GoCalm, NewTyped DEF Fail
<1>7. ASSUME NEW to \in {"sent", "call", "save", "rejected", "manifest"},
             NEW k, Go(q, k), k.at = to
      PROVE  Calm
  <2>1. jobs[q].at # "verified" /\ k.at \notin {"probe", "verified", "import", "clear"}
    BY <1>1, <1>7
  <2> QED BY <1>2, <1>3, <1>7, <2>1, GoCalm
<1>8. ASSUME NEW to \in {"sent", "call", "save", "rejected", "manifest"},
             \/ Go(q, [jobs[q] EXCEPT !.at = to])
             \/ Go(q, [jobs[q] EXCEPT !.at = to, !.page = @ + 1])
             \/ \E root : Go(q, [jobs[q] EXCEPT !.at = to, !.dir = root])
      PROVE  Calm
  <2>1. CASE Go(q, [jobs[q] EXCEPT !.at = to])
    BY <1>5, <1>7, <2>1
  <2>2. CASE Go(q, [jobs[q] EXCEPT !.at = to, !.page = @ + 1])
    BY <1>5, <1>7, <2>2
  <2>3. ASSUME NEW root, NEW k, k = [jobs[q] EXCEPT !.at = to, !.dir = root], Go(q, k)
        PROVE  Calm
    <3>1. k.at = to
      BY <1>5, <2>3
    <3> QED BY <1>7, <2>3, <3>1
  <2> QED BY <1>8, <2>1, <2>2, <2>3
<1> QED BY <1>4, <1>6, <1>8

\* and so are a freeze and an expiry.
LEMMA OthersCalm ==
  ASSUME Typed, Freeze \/ \E r \in Runs : Expire(r)
  PROVE  Calm
<1>1. UNCHANGED <<app, live, crossed, jobs>>
  BY DEF Freeze, Expire, leases
<1>2. \/ \E o : runs' = [runs EXCEPT ![o].frozen = TRUE]
      \/ \E o : runs' = [runs EXCEPT ![o].ledger.open = FALSE]
  BY DEF Freeze, Expire
<1> QED BY <1>1, <1>2 DEF Calm, Typed, RunStates

\* What a step makes of the leases, where the connection stays.
LEMMA LeasesStay ==
  ASSUME NoLeaseIsLeft, app'.conn = app.conn, live' \subseteq live,
         \A q \in Requests : jobs[q].at = "verified" =>
           jobs'[q].at = "verified" /\ jobs'[q].ref = jobs[q].ref
  PROVE  NoLeaseIsLeft'
BY DEF NoLeaseIsLeft

\* What it makes of the sources, where they stay.
LEMMA SourcesStay ==
  ASSUME Typed, Placed, Sourced, UNCHANGED app, crossed \subseteq crossed',
         \A r \in Runs : runs'[r].source = runs[r].source,
         \A q \in Requests : jobs'[q].at \in {"probe", "verified"} /\ jobs'[q].current =>
           \/ /\ jobs[q].at \in {"probe", "verified"} /\ jobs[q].current
              /\ jobs'[q].run = jobs[q].run /\ jobs'[q].expected = jobs[q].expected
           \/ jobs'[q].run \in Runs /\ jobs'[q].expected = runs[jobs'[q].run].source
  PROVE  Sourced'
<1>1. ASSUME NEW q \in Requests, jobs'[q].at \in {"probe", "verified"}, jobs'[q].current
      PROVE  jobs'[q].expected = runs'[jobs'[q].run].source
  <2>1. jobs[q].at # "idle" => jobs[q].run \in Runs
    BY DEF Placed
  <2> QED BY <1>1, <2>1 DEF Sourced
<1>2. app.run # None => app.run \in Runs
  BY DEF Typed, AppStates
<1>3. app'.conn # NotConnected =>
        IF app'.run = None THEN Runs \subseteq crossed'
        ELSE app'.run \in crossed' \/ runs'[app'.run].source = app'.conn.channel
  BY <1>2 DEF Sourced
<1> QED BY <1>1, <1>3 DEF Sourced

\* A window stays of its source unless a run is crossed.
LEMMA WindowsStay ==
  ASSUME WindowIsOfTheSource, crossed \subseteq crossed',
         \A r \in Runs \ crossed' :
           runs'[r].source = runs[r].source /\ runs'[r].window = runs[r].window
  PROVE  WindowIsOfTheSource'
BY DEF WindowIsOfTheSource, Loadable

\* And of the manifests.
LEMMA ManifestsStay ==
  ASSUME Placed, Manifested, crossed \subseteq crossed',
         \A r \in Runs \ crossed' :
           runs'[r].inventory = runs[r].inventory \/ runs'[r].inventory = r,
         \A q \in Requests : jobs'[q].at \in {"import", "clear"} =>
           /\ jobs[q].at = jobs'[q].at /\ jobs'[q].run = jobs[q].run
           /\ jobs'[q].path = jobs[q].path /\ jobs'[q].file = jobs[q].file
  PROVE  Manifested'
<1> SUFFICES ASSUME NEW q \in Requests, jobs'[q].run \notin crossed',
                    jobs'[q].at \in {"import", "clear"}
             PROVE  /\ jobs'[q].at = "import" =>
                         jobs'[q].path = jobs'[q].run /\ jobs'[q].file = jobs'[q].run
                    /\ jobs'[q].at = "clear" =>
                         runs'[jobs'[q].run].inventory = jobs'[q].run
  BY DEF Manifested
<1>1. jobs[q].run \in Runs
  BY DEF Placed
<1> QED BY <1>1 DEF Manifested

\* Each of the others keeps what is connected of the run's source: a connect that starts,
LEMMA StartConnectLinked ==
  ASSUME Typed, Placed, Linked, NEW q \in Requests, NEW c \in Channels, StartConnect(q, c)
  PROVE  Linked'
<1>1. PICK k : /\ k = [NoJob EXCEPT !.at = "probe", !.run = app.run, !.channel = c,
                             !.expected = runs[app.run].source, !.current = TRUE]
  OBVIOUS
<1>2. k.at = "probe" /\ k.run = app.run /\ k.expected = runs[app.run].source
  BY <1>1, NewTyped DEF JobStates
<1>3. /\ jobs[q].at = "idle" /\ app.run \in Runs
      /\ UNCHANGED <<app, live, runs, crossed>>
      /\ \A x \in Requests : jobs'[x] = IF x = q THEN k ELSE jobs[x]
  BY <1>1 DEF StartConnect, Go, leases, Typed, AppStates
<1>4. NoLeaseIsLeft'
  BY <1>3, LeasesStay DEF Linked
<1>5. Sourced'
  BY <1>2, <1>3, SourcesStay DEF Linked
<1>6. WindowIsOfTheSource'
  BY <1>3, WindowsStay DEF Linked
<1>7. Manifested'
  BY <1>2, <1>3, ManifestsStay DEF Linked
<1> QED BY <1>4, <1>5, <1>6, <1>7 DEF Linked

\* its registration,
LEMMA RegisterLinked ==
  ASSUME Typed, Placed, Linked, NEW q \in Requests, Register(q)
  PROVE  Linked'
<1>1. CASE Fail(q) /\ UNCHANGED leases
  BY <1>1, GoCalm, CalmLinked, TypedNext, NewTyped
     DEF Register, Fail, leases, Next, Connecting
<1>2. CASE /\ live' = live \cup {drawn + 1}
           /\ Go(q, [jobs[q] EXCEPT !.at = "verified", !.ref = drawn + 1])
  <2>1. PICK k : k = [jobs[q] EXCEPT !.at = "verified", !.ref = drawn + 1]
    OBVIOUS
  <2>2. k.at = "verified" /\ k.ref = drawn + 1 /\ k.run = jobs[q].run
        /\ k.expected = jobs[q].expected /\ k.current = jobs[q].current
    BY <2>1 DEF Typed, JobStates
  <2>3. /\ jobs[q].at = "probe" /\ UNCHANGED <<app, runs, crossed>>
        /\ \A x \in Requests : jobs'[x] = IF x = q THEN k ELSE jobs[x]
    BY <1>2, <2>1 DEF Register, Go, Typed
  <2>4. NoLeaseIsLeft'
    BY <1>2, <2>2, <2>3 DEF Linked, NoLeaseIsLeft
  <2>5. Sourced'
    BY <2>2, <2>3, SourcesStay DEF Linked
  <2>6. WindowIsOfTheSource'
    BY <2>3, WindowsStay DEF Linked
  <2>7. Manifested'
    BY <2>2, <2>3, ManifestsStay DEF Linked
  <2> QED BY <2>4, <2>5, <2>6, <2>7 DEF Linked
<1> QED BY <1>1, <1>2 DEF Register

\* a drain that starts,
LEMMA StartDrainLinked ==
  ASSUME Typed, Placed, Linked, NEW q \in Requests, StartDrain(q)
  PROVE  Linked'
<1>1. PICK k : k = [NoJob EXCEPT !.at = "root", !.run = app.run, !.ref = app.conn.ref]
  OBVIOUS
<1>2. k.at = "root"
  BY <1>1, NewTyped DEF JobStates
<1>3. /\ jobs[q].at = "idle" /\ app.run \in Runs /\ app.run # None
      /\ app.conn # NotConnected
      /\ UNCHANGED <<app, live, crossed>>
      /\ \A x \in Requests : jobs'[x] = IF x = q THEN k ELSE jobs[x]
      /\ runs' = [runs EXCEPT ![app.run].window = app.conn.channel]
  BY <1>1 DEF StartDrain, Go, leases, Typed, AppStates
<1>4. \A r \in Runs :
        /\ runs'[r].source = runs[r].source /\ runs'[r].inventory = runs[r].inventory
        /\ runs'[r].window = IF r = app.run THEN app.conn.channel ELSE runs[r].window
  BY <1>3 DEF Typed, RunStates
<1>5. NoLeaseIsLeft'
  BY <1>3, LeasesStay DEF Linked
<1>6. Sourced'
  BY <1>2, <1>3, <1>4, SourcesStay DEF Linked
<1>7. WindowIsOfTheSource'
  BY <1>3, <1>4 DEF Linked, WindowIsOfTheSource, Loadable, Sourced
<1>8. Manifested'
  BY <1>2, <1>3, <1>4, ManifestsStay DEF Linked
<1> QED BY <1>5, <1>6, <1>7, <1>8 DEF Linked

\* the adoption of what was connected,
LEMMA AdoptLinked ==
  ASSUME Typed, Placed, Linked, NEW q \in Requests, Adopt(q)
  PROVE  Linked'
<1>1. /\ jobs[q].at = "verified" /\ jobs[q].run \in Runs /\ jobs[q] \in JobStates
      /\ app.run # None => app.run \in Runs
  BY UnderWay DEF Adopt, Typed, AppStates
<1>2. CASE /\ live' = Refused(jobs[q]) /\ Fail(q) /\ UNCHANGED <<app, runs, crossed>>
  <2>1. \A x \in Requests : jobs'[x] = IF x = q THEN NoJob ELSE jobs[x]
    BY <1>2 DEF Fail, Go, Typed
  <2>2. NoLeaseIsLeft'
    BY <1>2, <2>1 DEF Linked, NoLeaseIsLeft, Refused
  <2>3. Sourced'
    BY <1>2, <2>1, NewTyped, SourcesStay DEF Linked
  <2>4. WindowIsOfTheSource'
    BY <1>2, WindowsStay DEF Linked
  <2>5. Manifested'
    BY <1>2, <2>1, NewTyped, ManifestsStay DEF Linked
  <2> QED BY <2>2, <2>3, <2>4, <2>5 DEF Linked
<1>3. CASE /\ Adoptable(jobs[q])
           /\ live' = live \ {app.conn.ref}
           /\ app' = [app EXCEPT !.conn = [ref |-> jobs[q].ref, channel |-> jobs[q].channel]]
           /\ runs' = IF app.run = None THEN runs
                      ELSE [runs EXCEPT ![app.run].source = jobs[q].channel]
           /\ crossed' = Crossed(jobs[q])
           /\ jobs' = Outdated([jobs EXCEPT ![q] = NoJob])
  <2>1. /\ app'.run = app.run
        /\ app'.conn.ref = jobs[q].ref /\ app'.conn.channel = jobs[q].channel
    BY <1>3 DEF Typed, AppStates
  <2>2. \A x \in Requests :
          /\ jobs'[x].at = (IF x = q THEN "idle" ELSE jobs[x].at)
          /\ ~jobs'[x].current
          /\ x # q => /\ jobs'[x].run = jobs[x].run /\ jobs'[x].ref = jobs[x].ref
                      /\ jobs'[x].path = jobs[x].path /\ jobs'[x].file = jobs[x].file
    <3>1. PICK js : js = [jobs EXCEPT ![q] = NoJob]
      OBVIOUS
    <3>2. \A x \in Requests : js[x] \in JobStates /\ js[x] = IF x = q THEN NoJob ELSE jobs[x]
      BY <3>1, NewTyped DEF Typed
    <3>3. \A x \in Requests : jobs'[x] = [js[x] EXCEPT !.current = FALSE]
      BY <1>3, <3>1 DEF Outdated
    <3>4. \A x \in Requests :
            /\ jobs'[x].at = js[x].at /\ jobs'[x].run = js[x].run /\ jobs'[x].ref = js[x].ref
            /\ jobs'[x].path = js[x].path /\ jobs'[x].file = js[x].file /\ ~jobs'[x].current
      <4>1. ASSUME NEW j \in JobStates, NEW k, k = [j EXCEPT !.current = FALSE]
            PROVE  /\ k.at = j.at /\ k.run = j.run /\ k.ref = j.ref
                   /\ k.path = j.path /\ k.file = j.file /\ ~k.current
        BY <4>1 DEF JobStates
      <4> QED BY <3>2, <3>3, <4>1
    <3> QED BY <3>2, <3>4, NewTyped
  <2>3. \A r \in Runs :
          /\ runs'[r].window = runs[r].window /\ runs'[r].inventory = runs[r].inventory
          /\ runs'[r].source = IF r = app.run THEN jobs[q].channel ELSE runs[r].source
    BY <1>1, <1>3, DrainAssumption DEF Typed, RunStates
  <2>4. /\ crossed \subseteq crossed'
        /\ app.run = None => Runs \subseteq crossed'
        /\ app.run # None /\ app.run # jobs[q].run => app.run \in crossed'
    BY <1>1, <1>3, DrainAssumption DEF Crossed
  <2>5. NoLeaseIsLeft'
    <3> SUFFICES ASSUME NEW ref \in live', ref # app'.conn.ref
                 PROVE  \E x \in Requests : jobs'[x].at = "verified" /\ jobs'[x].ref = ref
      BY DEF NoLeaseIsLeft
    <3>1. PICK x \in Requests : jobs[x].at = "verified" /\ jobs[x].ref = ref
      BY <1>3 DEF Linked, NoLeaseIsLeft
    <3>2. x # q
      BY <2>1, <3>1
    <3> QED BY <2>2, <3>1, <3>2
  <2>6. Sourced'
    BY <1>1, <2>1, <2>2, <2>3, <2>4 DEF Sourced
  \* What the run expected is what it has, and its window is of that.
  <2>7. app.run # None /\ app.run \notin crossed' =>
          /\ jobs[q].run = app.run
          /\ runs[app.run].source \in {None, jobs[q].channel}
    BY <1>1, <1>3, <2>4 DEF Adoptable, Linked, Sourced
  <2>8. WindowIsOfTheSource'
    <3> SUFFICES ASSUME NEW r \in Runs, r \notin crossed' PROVE Loadable(r)'
      BY DEF WindowIsOfTheSource
    <3>1. runs[r].window \in {None, runs[r].source}
      BY <2>4 DEF Linked, WindowIsOfTheSource, Loadable
    <3>2. CASE r = app.run
      BY <2>3, <2>7, <3>1, <3>2, DrainAssumption DEF Loadable
    <3> QED BY <2>3, <3>1, <3>2 DEF Loadable
  <2>9. Manifested'
    BY <2>2, <2>3, <2>4, ManifestsStay DEF Linked
  <2> QED BY <2>5, <2>6, <2>8, <2>9 DEF Linked
<1> QED BY <1>2, <1>3 DEF Adopt

\* a disconnection,
LEMMA DisconnectLinked ==
  ASSUME Typed, Placed, Linked, Disconnect
  PROVE  Linked'
<1>1. /\ app'.run = app.run /\ app'.conn = NotConnected
      /\ live' = live \ {app.conn.ref} /\ UNCHANGED <<runs, crossed>>
  BY DEF Disconnect, Typed, AppStates
<1>2. \A x \in Requests :
        /\ jobs'[x].at = jobs[x].at /\ ~jobs'[x].current
        /\ jobs'[x].run = jobs[x].run /\ jobs'[x].ref = jobs[x].ref
        /\ jobs'[x].path = jobs[x].path /\ jobs'[x].file = jobs[x].file
  BY DEF Disconnect, Outdated, Typed, JobStates
<1>3. NoLeaseIsLeft'
  BY <1>1, <1>2 DEF Linked, NoLeaseIsLeft
<1>4. Sourced'
  BY <1>1, <1>2 DEF Sourced
<1>5. WindowIsOfTheSource'
  BY <1>1, WindowsStay DEF Linked
<1>6. Manifested'
  BY <1>1, <1>2, ManifestsStay DEF Linked
<1> QED BY <1>3, <1>4, <1>5, <1>6 DEF Linked

\* the manifest of a drain,
LEMMA WriteManifestLinked ==
  ASSUME Typed, Placed, Linked, NEW q \in Requests, WriteManifest(q)
  PROVE  Linked'
<1>1. /\ jobs[q].at = "manifest" /\ jobs[q].run \in Runs
      /\ UNCHANGED <<app, live, runs>> /\ crossed' = Crossed(jobs[q])
      /\ app.run # None => app.run \in Runs
  BY UnderWay DEF WriteManifest, leases, Typed, AppStates
<1>2. /\ crossed \subseteq crossed'
      /\ app.run = None => Runs \subseteq crossed'
      /\ app.run # None /\ app.run # jobs[q].run =>
           app.run \in crossed' /\ jobs[q].run \in crossed'
  BY <1>1, DrainAssumption DEF Crossed
<1>0. PICK root \in Roots :
        jobs' = [x \in Requests |->
          IF x = q THEN [jobs[q] EXCEPT !.at = "import", !.path = root, !.file = jobs[q].run]
          ELSE IF jobs[x].at = "import" /\ jobs[x].path = root
               THEN [jobs[x] EXCEPT !.file = jobs[q].run]
               ELSE jobs[x]]
  BY DEF WriteManifest
<1>8. app.run # None => root = app.run
  BY DEF Roots, Unlocked, Placed
<1>3. ASSUME NEW x \in Requests PROVE
        /\ x = q => /\ jobs'[x].at = "import" /\ jobs'[x].run = jobs[q].run
                    /\ jobs'[x].path = root /\ jobs'[x].file = jobs[q].run
        /\ x # q => /\ jobs'[x].at = jobs[x].at /\ jobs'[x].run = jobs[x].run
                    /\ jobs'[x].ref = jobs[x].ref /\ jobs'[x].path = jobs[x].path
                    /\ jobs'[x].current = jobs[x].current
                    /\ jobs'[x].expected = jobs[x].expected
                    /\ \/ jobs'[x].file = jobs[x].file
                       \/ jobs[x].path = root /\ jobs'[x].file = jobs[q].run
  BY <1>0 DEF Typed, JobStates
<1>4. NoLeaseIsLeft'
  BY <1>1, <1>3, LeasesStay DEF Linked
<1>5. Sourced'
  BY <1>1, <1>2, <1>3, SourcesStay DEF Linked
<1>6. WindowIsOfTheSource'
  BY <1>1, <1>2, WindowsStay DEF Linked
<1>7. Manifested'
  <2> SUFFICES ASSUME NEW x \in Requests, jobs'[x].run \notin crossed',
                      jobs'[x].at \in {"import", "clear"}
               PROVE  /\ jobs'[x].at = "import" =>
                           jobs'[x].path = jobs'[x].run /\ jobs'[x].file = jobs'[x].run
                      /\ jobs'[x].at = "clear" =>
                           runs'[jobs'[x].run].inventory = jobs'[x].run
    BY DEF Manifested
  <2>1. CASE x = q
    BY <1>1, <1>2, <1>3, <1>8, <2>1
  <2>2. CASE x # q
    <3>1. jobs[x].run \in Runs /\ jobs[x].run \notin crossed
      BY <1>2, <1>3, <2>2 DEF Placed
    <3>2. CASE jobs[x].at = "import"
      BY <1>1, <1>2, <1>3, <1>8, <2>2, <3>1, <3>2 DEF Linked, Manifested
    <3>3. CASE jobs[x].at = "clear"
      BY <1>1, <1>3, <2>2, <3>1, <3>3 DEF Linked, Manifested
    <3> QED BY <1>3, <2>2, <3>2, <3>3
  <2> QED BY <2>1, <2>2
<1> QED BY <1>4, <1>5, <1>6, <1>7 DEF Linked

\* its import,
LEMMA ImportLinked ==
  ASSUME Typed, Placed, Linked, NEW q \in Requests, Import(q)
  PROVE  Linked'
<1>1. /\ jobs[q].at = "import" /\ jobs[q].run \in Runs
      /\ UNCHANGED <<app, live>>
      /\ app.run # None => app.run \in Runs
  BY UnderWay DEF Import, leases, Typed, AppStates
<1>2. CASE Fail(q) /\ UNCHANGED <<runs, crossed>>
  <2>1. \A x \in Requests : jobs'[x] = IF x = q THEN NoJob ELSE jobs[x]
    BY <1>2 DEF Fail, Go, Typed
  <2>2. NoLeaseIsLeft'
    BY <1>1, <2>1, LeasesStay DEF Linked
  <2>3. Sourced'
    BY <1>1, <1>2, <2>1, NewTyped, SourcesStay DEF Linked
  <2>4. WindowIsOfTheSource'
    BY <1>2, WindowsStay DEF Linked
  <2>5. Manifested'
    BY <1>2, <2>1, NewTyped, ManifestsStay DEF Linked
  <2> QED BY <2>2, <2>3, <2>4, <2>5 DEF Linked
<1>3. CASE /\ app.run # None
           /\ runs' = [runs EXCEPT ![app.run].inventory = jobs[q].file]
           /\ crossed' = Crossed(jobs[q])
           /\ Go(q, [jobs[q] EXCEPT !.at = "clear"])
  <2>1. \A x \in Requests :
          /\ jobs'[x].at = (IF x = q THEN "clear" ELSE jobs[x].at)
          /\ jobs'[x].run = jobs[x].run /\ jobs'[x].ref = jobs[x].ref
          /\ jobs'[x].path = jobs[x].path /\ jobs'[x].file = jobs[x].file
          /\ jobs'[x].current = jobs[x].current
          /\ jobs'[x].expected = jobs[x].expected
    BY <1>3 DEF Go, Typed, JobStates
  <2>2. \A r \in Runs :
          /\ runs'[r].window = runs[r].window /\ runs'[r].source = runs[r].source
          /\ runs'[r].inventory = IF r = app.run THEN jobs[q].file ELSE runs[r].inventory
    BY <1>1, <1>3 DEF Typed, RunStates
  <2>3. /\ crossed \subseteq crossed'
        /\ app.run # jobs[q].run => app.run \in crossed' /\ jobs[q].run \in crossed'
    BY <1>1, <1>3 DEF Crossed
  <2>4. app.run \notin crossed' => jobs[q].run = app.run /\ jobs[q].file = app.run
    BY <1>1, <2>3 DEF Linked, Manifested
  <2>5. NoLeaseIsLeft'
    BY <1>1, <2>1, LeasesStay DEF Linked
  <2>6. Sourced'
    BY <1>1, <2>1, <2>2, <2>3, SourcesStay DEF Linked
  <2>7. WindowIsOfTheSource'
    BY <2>2, <2>3, WindowsStay DEF Linked
  <2>8. Manifested'
    <3> SUFFICES ASSUME NEW x \in Requests, jobs'[x].run \notin crossed',
                        jobs'[x].at \in {"import", "clear"}
                 PROVE  /\ jobs'[x].at = "import" =>
                             jobs'[x].path = jobs'[x].run /\ jobs'[x].file = jobs'[x].run
                        /\ jobs'[x].at = "clear" =>
                             runs'[jobs'[x].run].inventory = jobs'[x].run
      BY DEF Manifested
    <3>1. jobs[x].run \in Runs /\ jobs[x].run \notin crossed
      BY <1>1, <2>1, <2>3 DEF Placed
    <3>2. CASE x = q
      BY <2>1, <2>2, <2>3, <2>4, <3>1, <3>2
    <3>3. CASE x # q
      BY <2>1, <2>2, <2>3, <2>4, <3>1, <3>3 DEF Linked, Manifested
    <3> QED BY <3>2, <3>3
  <2> QED BY <2>5, <2>6, <2>7, <2>8 DEF Linked
<1> QED BY <1>2, <1>3 DEF Import

\* a run that is opened,
LEMMA OpenRunLinked ==
  ASSUME Typed, Placed, Linked, NEW r \in Runs, OpenRun(r)
  PROVE  Linked'
<1>1. /\ UNCHANGED <<runs, jobs, crossed>>
      /\ \/ app.run = None /\ app'.conn = app.conn /\ app'.run = None /\ live' = live
         \/ app'.conn = NotConnected /\ app'.run = None /\ live' = {}
  BY NewTyped DEF OpenRun, Typed, AppStates
<1>2. NoLeaseIsLeft'
  BY <1>1 DEF Linked, NoLeaseIsLeft
<1>3. Sourced'
  BY <1>1 DEF Linked, Sourced
<1>4. WindowIsOfTheSource' /\ Manifested'
  BY <1>1, WindowsStay, ManifestsStay DEF Linked
<1> QED BY <1>2, <1>3, <1>4 DEF Linked

\* one that has been,
LEMMA OpenedRunLinked ==
  ASSUME Typed, Placed, Linked, OpenedRun
  PROVE  Linked'
<1>1. /\ UNCHANGED <<runs, jobs, crossed>> /\ app.run = None
      /\ \/ app'.conn = app.conn /\ app'.run \in Runs /\ live' = live
         \/ app'.conn = NotConnected /\ app'.run = None /\ live' = {}
  BY NewTyped DEF OpenedRun, Unlocked, Placed, Typed, AppStates
<1>2. NoLeaseIsLeft'
  BY <1>1 DEF Linked, NoLeaseIsLeft
<1>3. Sourced'
  BY <1>1 DEF Linked, Sourced
<1>4. WindowIsOfTheSource' /\ Manifested'
  BY <1>1, WindowsStay, ManifestsStay DEF Linked
<1> QED BY <1>2, <1>3, <1>4 DEF Linked

\* and a crash.
LEMMA CrashLinked ==
  ASSUME Typed, Placed, Linked, Crash
  PROVE  Linked'
<1>1. /\ UNCHANGED <<runs, crossed>> /\ live' = {} /\ app'.conn = NotConnected
      /\ \A q \in Requests : jobs'[q].at = "idle"
  BY NewTyped DEF Crash
<1>2. NoLeaseIsLeft' /\ Sourced'
  BY <1>1 DEF NoLeaseIsLeft, Sourced
<1>3. WindowIsOfTheSource' /\ Manifested'
  BY <1>1, WindowsStay, ManifestsStay DEF Linked
<1> QED BY <1>2, <1>3 DEF Linked
-----------------------------------------------------------------------------
(* The invariant, and what follows from it.                                *)

\* Every step keeps it.
LEMMA LinkedNext ==
  ASSUME Typed, Placed, Linked, Typed', [Next]_vars
  PROVE  Linked'
<1>1. CASE UNCHANGED vars
  BY <1>1, CalmLinked DEF vars, leases, Calm
<1>2. ASSUME NEW q \in Requests, Connecting(q) \/ Draining(q) PROVE Linked'
  BY <1>2, CallsCalm, CalmLinked, StartConnectLinked, RegisterLinked, AdoptLinked,
     StartDrainLinked, WriteManifestLinked, ImportLinked
     DEF Connecting, Draining, Calling
<1>3. ASSUME NEW r \in Runs, OpenRun(r) \/ Expire(r) PROVE Linked'
  BY <1>3, OpenRunLinked, OthersCalm, CalmLinked
<1> QED BY <1>1, <1>2, <1>3, DisconnectLinked, OpenedRunLinked, CrashLinked,
     OthersCalm, CalmLinked DEF Next

\* The invariant holds at first.
LEMMA DrainInvInit == Init => DrainInv
<1> SUFFICES ASSUME Init PROVE DrainInv
  OBVIOUS
<1>1. Typed /\ Placed
  BY InitTyped
<1>5. Rooted
  BY NewTyped DEF Init, Rooted
<1>2. /\ app = NewApp /\ live = {}
      /\ \A q \in Requests : jobs[q].at = "idle"
      /\ \A r \in Runs : /\ runs[r].ledger = NoLedger /\ runs[r].window = None
                         /\ wire[r].calls = 0 /\ wire[r].items = 0
  BY NewTyped DEF Init, NewRun
<1>3. Covered
  <2> SUFFICES ASSUME NEW r \in Runs PROVE CoveredAt(r)
    BY DEF Covered
  <2>1. Sent(r) = {}
    BY <1>2 DEF Sent
  <2>2. IsFiniteSet(Sent(r)) /\ PageItems * Cardinality(Sent(r)) = 0
    <3>1. IsFiniteSet(Sent(r)) /\ Cardinality(Sent(r)) = 0
      BY <2>1, FS_EmptySet
    <3> QED BY <3>1, Bounds
  <2> QED BY <1>2, <2>2, Bounds DEF CoveredAt, NoLedger
<1>4. NoLeaseIsLeft /\ Sourced /\ WindowIsOfTheSource /\ Manifested
  BY <1>2, NewTyped DEF NoLeaseIsLeft, Sourced, WindowIsOfTheSource, Loadable, Manifested
<1> QED BY <1>1, <1>3, <1>4, <1>5 DEF DrainInv

\* Every reachable state of the drain satisfies the invariant.
THEOREM DrainInvariant == Spec => []DrainInv
<1>1. DrainInv /\ [Next]_vars => DrainInv'
  <2> SUFFICES ASSUME DrainInv, [Next]_vars PROVE DrainInv'
    OBVIOUS
  <2>1. Typed /\ Placed /\ Rooted /\ Covered /\ Linked
    BY DEF DrainInv, Linked
  <2>2. Typed' /\ Placed'
    BY <2>1, TypedNext
  <2>3. Covered'
    BY <2>1, CoveredNext
  <2>4. Linked'
    BY <2>1, <2>2, LinkedNext
  <2>5. Rooted'
    BY <2>1, RootedNext
  <2> QED BY <2>2, <2>3, <2>4, <2>5 DEF DrainInv, Linked
<1> QED BY <1>1, DrainInvInit, PTL DEF Spec

\* However many requests there are, the calls that were sent and the items that a
\* drain went on with are charged to the run's budget and within it: each call is
\* charged before it is sent (slack/budget.go), and what it may bring stays charged
\* until its answer is settled (slack/http_client.go).  The rest that Slack gave came
\* with answers that were refused after they were read, and is what `thrown` says.
THEOREM BudgetIsCharged == Spec => []LedgerCoversTheWire
<1>1. DrainInv => LedgerCoversTheWire
  <2> SUFFICES ASSUME DrainInv, NEW r \in Runs PROVE
        LET ledger == runs[r].ledger
        IN /\ wire[r].calls <= ledger.calls /\ ledger.calls <= MaxCalls
           /\ wire[r].items <= ledger.items /\ ledger.items <= MaxItems
           /\ ledger.retries <= MaxRetries
    BY DEF LedgerCoversTheWire
  <2>1. CoveredAt(r)
    BY DEF DrainInv, Covered
  <2>2. Cardinality(Sent(r)) \in Nat
    BY <2>1, FS_CardinalityType DEF CoveredAt
  <2>3. PageItems * Cardinality(Sent(r)) \in Nat
    BY <2>2, Bounds, Times
  <2>4. wire[r].items \in Nat /\ runs[r].ledger.items \in Int
    BY DEF DrainInv, Typed, Given, RunStates, Ledgers
  <2> QED BY <2>1, <2>3, <2>4 DEF CoveredAt
<1> QED BY <1>1, DrainInvariant, PTL

\* The state has its types, the item totals among them: they stay between nothing
\* and the budget.
THEOREM DrainWellTyped == Spec => []TypeOK
<1>1. DrainInv /\ LedgerCoversTheWire => TypeOK
  <2> SUFFICES ASSUME DrainInv, LedgerCoversTheWire PROVE TypeOK
    OBVIOUS
  <2>1. Typed /\ Placed
    BY DEF DrainInv
  <2>2. app.conn.ref \in 0..drawn
    BY <2>1, Bounds DEF Typed, Placed, AppStates
  <2>3. \A r \in Runs : runs[r].ledger.items \in 0..MaxItems
    BY <2>1, Bounds DEF Typed, Given, RunStates, Ledgers, LedgerCoversTheWire
  <2>4. \A r \in Runs : {runs[r].source, runs[r].window} \subseteq Channels \cup {None}
    BY <2>1 DEF Typed, RunStates
  <2>5. \A q \in Requests : jobs[q].run \in Runs \cup {None} /\ jobs[q].page \in 0..Pages
    BY <2>1 DEF Typed, JobStates
  <2>6. app.run \in Runs \cup {None} /\ app.target \in Runs \cup {None}
    BY <2>1 DEF Typed, AppStates
  <2> QED BY <2>1, <2>2, <2>3, <2>4, <2>5, <2>6 DEF TypeOK, Typed
<1> QED BY <1>1, DrainInvariant, BudgetIsCharged, PTL

\* Whoever connects, disconnects or opens another run, however they interleave:
\* the registry serves no credential but the one in use and those that a request
\* is still verifying (activationapp/source.go, slack/session_registry.go).
THEOREM LeasesAreUsed == Spec => []NoLeaseIsLeft
<1>1. DrainInv => NoLeaseIsLeft
  BY DEF DrainInv
<1> QED BY <1>1, DrainInvariant, PTL

\* The window a run reserved stays that of its source, for a run that no request
\* of another run has reached (activationapp/source.go, state_validation.go).
THEOREM WindowsAreOfTheSource == Spec => []WindowIsOfTheSource
<1>1. DrainInv => WindowIsOfTheSource
  BY DEF DrainInv
<1> QED BY <1>1, DrainInvariant, PTL

\* Only the request whose own manifest the run adopted forgets the pages that were
\* counted (activationapp/source.go).
THEOREM PagesAreKept == Spec => ProgressUntilAdoption
<1>1. ASSUME DrainInv, [Next]_vars, NEW r \in Runs \ crossed',
             runs[r].checkpoint # "none", runs'[r].checkpoint = "none"
      PROVE  runs[r].inventory = r
  <2>1. Typed /\ Placed /\ Manifested
    BY <1>1 DEF DrainInv
  <2>2. runs \in [Runs -> RunStates]
    BY <2>1 DEF Typed
  <2>3. CASE \E q \in Requests : ClearProgress(q)
    <3>1. PICK q \in Requests : ClearProgress(q)
      BY <2>3
    <3>2. /\ jobs[q].at = "clear" /\ crossed' = crossed
          /\ runs' # runs => runs' = [runs EXCEPT ![jobs[q].run].checkpoint = "none"]
      BY <3>1 DEF ClearProgress, MayClear, Reached
    <3>3. r = jobs[q].run
      BY <1>1, <2>2, <3>2
    <3> QED BY <1>1, <2>1, <3>2, <3>3 DEF Manifested
  <2>4. CASE \E q \in Requests : SaveProgress(q)
    <3>1. PICK q \in Requests : SaveProgress(q)
      BY <2>4
    <3>2. runs' = runs \/ \E c \in {"complete", "history"} :
                            runs' = [runs EXCEPT ![jobs[q].run].checkpoint = c]
      BY <3>1 DEF SaveProgress, Progress, Reached
    <3> QED BY <1>1, <2>2, <3>2 DEF RunStates
  <2>5. CASE \/ runs' = runs
             \/ \E o, x : \/ runs' = [runs EXCEPT ![o].source = x]
                          \/ runs' = [runs EXCEPT ![o].window = x]
                          \/ runs' = [runs EXCEPT ![o].inventory = x]
                          \/ runs' = [runs EXCEPT ![o].frozen = x]
                          \/ runs' = [runs EXCEPT ![o].ledger = x]
                          \/ runs' = [runs EXCEPT ![o].ledger.open = x]
    BY <1>1, <2>2, <2>5 DEF RunStates
  <2>6. ASSUME NEW q \in Requests,
               \/ Connecting(q) \/ StartDrain(q) \/ OpenStores(q) \/ Calling(q)
               \/ WriteManifest(q) \/ Import(q)
        PROVE  runs[r].inventory = r
    <3>1. \/ runs' = runs
          \/ \E o, x : \/ runs' = [runs EXCEPT ![o].source = x]
                       \/ runs' = [runs EXCEPT ![o].window = x]
                       \/ runs' = [runs EXCEPT ![o].inventory = x]
                       \/ runs' = [runs EXCEPT ![o].ledger = x]
      BY <2>6 DEF Connecting, Calling, StartConnect, Register, Adopt, StartDrain,
         OpenStores, Call, Answer, Rejected, WriteManifest, Import, Kept
    <3> QED BY <2>5, <3>1
  <2>7. ASSUME \/ \E o \in Runs : OpenRun(o) \/ Expire(o)
               \/ Disconnect \/ OpenedRun \/ Freeze \/ Crash \/ UNCHANGED vars
        PROVE  runs[r].inventory = r
    <3>1. \/ runs' = runs
          \/ \E o, x : \/ runs' = [runs EXCEPT ![o].frozen = x]
                       \/ runs' = [runs EXCEPT ![o].ledger.open = x]
      BY <2>7 DEF OpenRun, Expire, Disconnect, OpenedRun, Freeze, Crash, vars
    <3> QED BY <2>5, <3>1
  <2> QED BY <1>1, <2>3, <2>4, <2>6, <2>7 DEF Next, Draining
<1>2. DrainInv /\ [Next]_vars =>
        [\A r \in Runs \ crossed' :
           runs[r].checkpoint # "none" /\ runs'[r].checkpoint = "none"
             => runs[r].inventory = r]_vars
  BY <1>1
<1> QED BY <1>2, DrainInvariant, PTL DEF Spec, ProgressUntilAdoption

-----------------------------------------------------------------------------
(* What the library holds of Slack, and what an adoption under way knows.  *)

Messages == [state : States, edits : 0..MaxEdits, revAt : 0..MaxEdits + 1, detail : 0..1,
             class : {"user", "non_user", "unknown"}]
\* What a reading may have seen of a message, and a record may say of it.
Seen(id, message) ==
  /\ message \in Messages
  /\ \/ message.state = "original" /\ message.edits = 0
     \/ /\ message.state = "edited"
        /\ message.edits \in 1..source[id].edits
        /\ message.revAt \in {0, message.edits}
     \/ message.state = "deleted" /\ source[id].deleted /\ message.edits = 0
Recorded(id, c) ==
  /\ c \in Contents
  /\ \/ c.state = "original" /\ c.edits = 0
     \/ /\ c.state = "edited" /\ source[id].edits > 0
        /\ c.revAt \in 0..source[id].edits
        /\ IF c.withheld THEN c.edits = 0
                         ELSE c.edits \in 1..source[id].edits /\ c.revAt \in {0, c.edits}
     \/ c.state = "deleted" /\ source[id].deleted /\ c.edits = 0

\* What an import, or the next unit of an envelope, may put in place of a content,
Succeeds(prior, next) ==
  \/ prior = next
  \/ /\ Rank[prior.state] <= Rank[next.state]
     /\ prior.state = "edited" /\ next.state = "edited" =>
          /\ prior.revAt < next.revAt
          /\ prior.revAt = 0 /\ ~prior.withheld => prior.edits <= next.revAt
\* and what is in its place after some.  An undated edit that was retained is
\* followed by its own date, or by a later one.
Follows(prior, next) ==
  /\ Rank[prior.state] <= Rank[next.state]
  /\ prior.state = "edited" /\ next.state = "edited" =>
       /\ prior.revAt <= next.revAt
       /\ prior.revAt = 0 /\ ~prior.withheld => next = prior \/ prior.edits <= next.revAt

UnitFits(u) ==
  /\ DOMAIN u.messages \subseteq Ids
  /\ \A id \in DOMAIN u.messages : Seen(id, u.messages[id])

\* A batch that was imported left each of its records, or what follows it.
Holds(lib, batch) ==
  /\ DOMAIN batch.records \subseteq Ids
  /\ \A id \in DOMAIN batch.records :
       /\ lib.current[id] # Absent
       /\ batch.records[id] \in {lib.current[id]} \cup lib.history[id]
       /\ Follows(batch.records[id], lib.current[id])

LibraryShape(lib) ==
  /\ lib.current \in [Ids -> Contents \cup {Absent}]
  /\ lib.history \in [Ids -> SUBSET Contents]
  /\ lib.revision \in Nat
Holding(lib) ==
  \A id \in Ids :
    /\ lib.current[id] # Absent => Recorded(id, lib.current[id])
    /\ \A c \in lib.history[id] :
         Recorded(id, c) /\ lib.current[id] # Absent /\ Follows(c, lib.current[id])
LibraryFits(lib) ==
  /\ LibraryShape(lib) /\ Holding(lib)
  /\ \A batch \in lib.imports : Holds(lib, batch)

EnvelopeFits(e) ==
  \/ \E u \in readings : e = <<u>>
  \/ \E u, v \in readings : e = <<u, v>>
Adopted(e) == \A i \in DOMAIN Captures(e) : Captures(e)[i] \in library.imports

ApplyShape ==
  apply = [phase |-> apply.phase,
           ledger |-> [state |-> apply.ledger.state, envelope |-> apply.ledger.envelope,
                       before |-> apply.ledger.before, after |-> apply.ledger.after]]
ApplyFits ==
  apply # Idle =>
    /\ ApplyShape
    /\ apply.phase \in {"import", "readback", "status", "complete", "failing"}
    /\ EnvelopeFits(apply.ledger.envelope)
    /\ apply.ledger.before \in Nat /\ apply.ledger.before <= library.revision
    /\ apply.phase = "import" =>
         OverlapsAgree(apply.ledger.envelope) /\ Captures(apply.ledger.envelope) # <<>>
    /\ apply.phase \in {"readback", "status", "complete"} => Adopted(apply.ledger.envelope)
    /\ apply.ledger.state = IF apply.phase = "complete" THEN "complete" ELSE "recovering"
    /\ apply.phase = "complete" =>
         /\ apply.ledger.after \in Nat /\ apply.ledger.before <= apply.ledger.after
         /\ apply.ledger.after <= library.revision

LedgerFits ==
  /\ ledgerFile.state \in {"none", "recovering", "incomplete", "complete"}
  /\ ledgerFile.state = "complete" =>
       /\ EnvelopeFits(ledgerFile.envelope) /\ Adopted(ledgerFile.envelope)
       /\ ledgerFile.before \in Nat /\ ledgerFile.after \in Nat
       /\ ledgerFile.before <= ledgerFile.after /\ ledgerFile.after <= library.revision

AdoptionInv ==
  /\ source \in [Ids -> Versions]
  /\ \A u \in readings : UnitFits(u)
  /\ LibraryFits(library) /\ ApplyFits /\ LedgerFits

-----------------------------------------------------------------------------
(* Contents.                                                               *)

LEMMA Ranks ==
  /\ Rank["original"] = 0 /\ Rank["edited"] = 1 /\ Rank["deleted"] = 2
BY DEF Rank, States

LEMMA NotAbsent ==
  ASSUME NEW id, NEW c, Recorded(id, c)
  PROVE  c # Absent
BY AbsentAssumption DEF Recorded

\* What Slack is read for is what it holds, as far as the reading shows it,
LEMMA MessageIsSeen ==
  ASSUME source \in [Ids -> Versions], NEW id \in Ids, NEW dating, NEW unknown,
         NEW redescribed
  PROVE  Seen(id, Message(id, dating, unknown, redescribed))
<1> DEFINE v == source[id]
<1>0. MaxEdits \in Nat
  BY IngestionAssumption
<1>1. v.edits \in 0..MaxEdits /\ v.deleted \in BOOLEAN
  BY DEF Versions
<1>2. CASE v.deleted
  BY <1>0, <1>1, <1>2 DEF Seen, Message, Messages, States
<1>3. CASE ~v.deleted /\ v.edits > 0
  BY <1>0, <1>1, <1>3 DEF Seen, Message, Messages, States
<1>4. CASE ~v.deleted /\ ~(v.edits > 0)
  BY <1>0, <1>1, <1>4 DEF Seen, Message, Messages, States
<1> QED BY <1>2, <1>3, <1>4

\* and what is captured of it may be recorded.
LEMMA CaptureIsRecorded ==
  ASSUME source \in [Ids -> Versions], NEW id \in Ids, NEW message, Seen(id, message),
         NEW withheld \in BOOLEAN
  PROVE  Recorded(id, Capture(message, withheld))
<1>0. MaxEdits \in Nat
  BY IngestionAssumption
<1>1. source[id].edits \in 0..MaxEdits
  BY DEF Versions
<1>2. /\ message.edits \in 0..MaxEdits /\ message.revAt \in 0..MaxEdits + 1
      /\ message.detail \in 0..1 /\ message.state \in States
  BY DEF Seen, Messages
<1> DEFINE c == Capture(message, withheld)
<1>3. c.state = message.state /\ c.revAt = message.revAt /\ c.withheld = withheld
      /\ c.edits = IF withheld THEN 0 ELSE message.edits
  BY DEF Capture
<1>4. c \in Contents
  BY <1>0, <1>2 DEF Capture, Contents
<1> HIDE DEF c
<1>5. Recorded(id, c)
  BY <1>0, <1>1, <1>2, <1>3, <1>4 DEF Seen, Recorded
<1> QED BY <1>5 DEF c

LEMMA FollowsItself ==
  ASSUME NEW id, NEW c, Recorded(id, c)
  PROVE  Follows(c, c)
<1>1. c.state \in States /\ c.revAt \in Int
  BY IngestionAssumption DEF Recorded, Contents
<1> QED BY <1>1, Ranks DEF Follows, States

LEMMA SuccessorFollows ==
  ASSUME NEW id, NEW p, NEW n, Recorded(id, p), Recorded(id, n), Succeeds(p, n)
  PROVE  Follows(p, n)
<1>1. p.revAt \in Int /\ n.revAt \in Int
  BY IngestionAssumption DEF Recorded, Contents
<1>2. CASE p = n
  BY <1>2, FollowsItself
<1>3. CASE p # n
  BY <1>1, <1>3 DEF Follows, Succeeds
<1> QED BY <1>2, <1>3

LEMMA FollowsOn ==
  ASSUME NEW id, NEW p, NEW c, NEW n, Recorded(id, p), Recorded(id, c), Recorded(id, n),
         Follows(p, c), Follows(c, n)
  PROVE  Follows(p, n)
<1>1. /\ p.state \in States /\ c.state \in States /\ n.state \in States
      /\ p.revAt \in Int /\ c.revAt \in Int /\ n.revAt \in Int
      /\ p.edits \in Int /\ c.edits \in Int /\ n.edits \in Int
  BY IngestionAssumption DEF Recorded, Contents
<1>2. Rank[p.state] <= Rank[n.state]
  BY <1>1, Ranks DEF Follows, States
<1>3. ASSUME p.state = "edited", n.state = "edited"
      PROVE  /\ p.revAt <= n.revAt
             /\ p.revAt = 0 /\ ~p.withheld => n = p \/ p.edits <= n.revAt
  <2>1. c.state = "edited"
    BY <1>1, <1>3, Ranks DEF Follows, States
  <2> QED BY <1>1, <1>3, <2>1 DEF Follows
<1> QED BY <1>2, <1>3 DEF Follows

LEMMA FollowerIsNotOlder ==
  ASSUME source \in [Ids -> Versions], NEW id \in Ids, NEW p, NEW n,
         Recorded(id, p), Recorded(id, n), Follows(p, n)
  PROVE  NotOlder(p, n)
<1>1. /\ p.revAt \in Int /\ n.revAt \in Int /\ p.edits \in Int /\ n.edits \in Int
      /\ p.withheld \in BOOLEAN /\ n.withheld \in BOOLEAN
  BY IngestionAssumption DEF Recorded, Contents
<1>2. source[id].edits \in Int
  BY IngestionAssumption DEF Versions
<1>3. ASSUME p.state = "edited", n.state = "edited", ~p.withheld, ~n.withheld
      PROVE  p.edits <= n.edits
  <2>1. p.edits \in 1..source[id].edits /\ p.revAt \in {0, p.edits}
    BY <1>3 DEF Recorded
  <2>2. n.edits \in 1..source[id].edits /\ n.revAt \in {0, n.edits}
    BY <1>3 DEF Recorded
  <2> QED BY <1>1, <1>2, <1>3, <2>1, <2>2 DEF Follows
<1> QED BY <1>3 DEF Follows, NotOlder

\* What no import refuses succeeds the record.
LEMMA UnrefusedSucceeds ==
  ASSUME NEW id, NEW p, NEW n, Recorded(id, p), Recorded(id, n),
         ~ConflictingEdit(p, n), ~(p.state = "edited" /\ n.state = "original"),
         ~Resurrects(p, n)
  PROVE  Succeeds(p, n)
<1>1. /\ p.revAt \in Int /\ n.revAt \in Int /\ p.edits \in Int /\ n.edits \in Int
      /\ p.revAt >= 0
      /\ p.withheld \in BOOLEAN /\ n.withheld \in BOOLEAN
      /\ p.state \in States /\ n.state \in States
      /\ DOMAIN p = {"state", "edits", "revAt", "detail", "withheld"}
  BY IngestionAssumption DEF Recorded, Contents
<1>2. Rank[p.state] <= Rank[n.state]
  BY <1>1, Ranks DEF Resurrects, IsDeletedCapture, States
<1>3. ASSUME p.state = "edited", n.state = "edited"
      PROVE  /\ p.revAt < n.revAt
             /\ p.revAt = 0 /\ ~p.withheld => p.edits <= n.revAt
  <2>1. CASE NewerRevision(n, p)
    BY <1>1, <2>1 DEF NewerRevision
  <2>2. CASE LegacyRevisionAttachment(p, n)
    <3>1. p.revAt = 0 /\ n.revAt > 0 /\ [p EXCEPT !.revAt = n.revAt] = n
      BY <2>2 DEF LegacyRevisionAttachment
    <3>2. n.edits = p.edits /\ n.withheld = p.withheld
      BY <3>1, <1>1
    <3>3. ~n.withheld => n.revAt \in {0, n.edits}
      BY <1>3 DEF Recorded
    <3> QED BY <1>1, <3>1, <3>2, <3>3
  <2> QED BY <1>3, <2>1, <2>2 DEF ConflictingEdit
<1> QED BY <1>2, <1>3 DEF Succeeds

\* So does, in the next unit of an envelope, what was reconciled with the last.
LEMMA OverlapSucceeds ==
  ASSUME source \in [Ids -> Versions], NEW id \in Ids, NEW before, NEW after,
         Seen(id, before), Seen(id, after),
         before = after \/ TruthfulTransition(before, after), NEW withheld \in BOOLEAN
  PROVE  Succeeds(Capture(before, withheld), Capture(after, withheld))
<1>1. CASE before = after
  BY <1>1 DEF Succeeds
<1>2. CASE TruthfulTransition(before, after)
  <2> DEFINE p == Capture(before, withheld)
             n == Capture(after, withheld)
  <2>1. p.state = before.state /\ n.state = after.state
        /\ p.revAt = before.revAt /\ n.revAt = after.revAt
    BY DEF Capture
  <2>2. before.revAt \in Int /\ after.revAt \in Int
        /\ before.state \in States /\ after.state \in States
    BY IngestionAssumption DEF Seen, Messages
  <2> HIDE DEF p, n
  <2>3. Rank[p.state] <= Rank[n.state]
    BY <1>2, <2>1, <2>2, Ranks DEF TruthfulTransition, States
  <2>4. p.state = "edited" /\ n.state = "edited" => p.revAt < n.revAt /\ p.revAt # 0
    BY <1>2, <2>1, <2>2 DEF TruthfulTransition, NewerRevision
  <2>5. Succeeds(p, n)
    BY <2>3, <2>4 DEF Succeeds
  <2> QED BY <2>5 DEF p, n
<1> QED BY <1>1, <1>2

\* Slack only moves on: what was seen and recorded of it stays so.
Moves == /\ source \in [Ids -> Versions] /\ source' \in [Ids -> Versions]
         /\ \A id \in Ids : /\ source[id].edits <= source'[id].edits
                            /\ source[id].deleted => source'[id].deleted
LEMMA SeenStays ==
  ASSUME Moves, NEW id \in Ids, NEW message, Seen(id, message)
  PROVE  Seen(id, message)'
<1>1. source[id].edits \in Int /\ source'[id].edits \in Int
  BY IngestionAssumption DEF Moves, Versions
<1> QED BY <1>1 DEF Seen, Moves
LEMMA RecordedStays ==
  ASSUME Moves, NEW id \in Ids, NEW c, Recorded(id, c)
  PROVE  Recorded(id, c)'
<1>1. source[id].edits \in Int /\ source'[id].edits \in Int
  BY IngestionAssumption DEF Moves, Versions
<1>2. MaxEdits \in Nat
  BY IngestionAssumption
<1>3. c.edits \in Int /\ c.revAt \in Int
  BY <1>2 DEF Recorded, Contents
<1> QED BY <1>1, <1>3 DEF Recorded, Moves

-----------------------------------------------------------------------------
(* An import of one batch, and of two.                                     *)

\* The greatest place of one and of two.
LEMMA GreatestPlace ==
  Max({1}) = 1 /\ Max({2}) = 2 /\ Max({1, 2}) = 2
BY DEF Max

\* One batch is applied to the library,
LEMMA ImportsOne ==
  ASSUME NEW lib, NEW a, NEW final, final = FinalContent(lib, <<a>>)
  PROVE  Imported(lib, <<a>>) = ApplyCaptureBatch([lib |-> lib, touched |-> {}], a, final).lib
<1> DEFINE B == <<a>>
           base == [lib |-> lib, touched |-> {}]
           Step(st, i) == ApplyCaptureBatch(st, B[i], final)
           Iterates(f) == f = [s \in SUBSET (DOMAIN B) |->
                             IF s = {} THEN base ELSE Step(f[s \ {Max(s)}], Max(s))]
           iter == CHOOSE f : Iterates(f)
<1>1. Imported(lib, B) = iter[DOMAIN B].lib
  BY DEF Imported, FoldLeft, MapThenFoldSet
<1>2. DOMAIN B = {1} /\ B[1] = a
  OBVIOUS
<1> HIDE DEF B, base
<1>3. \A f : Iterates(f) =>
        f[{1}] = Step(f[{}], 1) /\ f[{}] = base
  <2> TAKE f
  <2> HAVE Iterates(f)
  <2>1. \A s \in SUBSET {1} : f[s] = IF s = {} THEN base ELSE Step(f[s \ {Max(s)}], Max(s))
    <3> HIDE DEF Step
    <3> QED BY <1>2
  <2>2. {1} \ {Max({1})} = {} /\ Max({1}) = 1
    BY GreatestPlace
  <2> HIDE DEF Step, Iterates
  <2> QED BY <2>1, <2>2
<1>4. \E f : Iterates(f)
  <2> DEFINE g == [s \in SUBSET {1} |-> IF s = {} THEN base ELSE Step(base, 1)]
  <2>1. \A s \in SUBSET {1} : s = {} \/ s = {1}
    OBVIOUS
  <2> HIDE DEF Step
  <2>g. g[{}] = base /\ g[{1}] = Step(base, 1)
    OBVIOUS
  <2> HIDE DEF g
  <2>2. \A s \in SUBSET {1} :
          g[s] = IF s = {} THEN base ELSE Step(g[s \ {Max(s)}], Max(s))
    <3> TAKE s \in SUBSET {1}
    <3>1. CASE s = {}
      BY <2>g, <3>1
    <3>2. CASE s = {1}
      <4>1. {1} \ {Max({1})} = {} /\ {1} # {}
        BY GreatestPlace
      <4> QED BY <2>g, <3>2, <4>1, GreatestPlace
    <3> QED BY <2>1, <3>1, <3>2
  <2>3. g = [s \in SUBSET {1} |-> g[s]]
    BY Zenon DEF g
  <2>4. g = [s \in SUBSET {1} |-> IF s = {} THEN base ELSE Step(g[s \ {Max(s)}], Max(s))]
    BY <2>2, <2>3
  <2> QED BY <1>2, <2>4
<1> HIDE DEF Iterates
<1>5. Iterates(iter)
  BY <1>4
<1> HIDE DEF iter
<1>6. iter[{1}] = Step(base, 1)
  <2> HIDE DEF Step
  <2> QED BY <1>3, <1>5
<1> QED BY <1>1, <1>2, <1>6 DEF B, base

\* two one after the other.
LEMMA ImportsTwo ==
  ASSUME NEW lib, NEW a, NEW b, NEW final, final = FinalContent(lib, <<a, b>>)
  PROVE  Imported(lib, <<a, b>>) =
           ApplyCaptureBatch(ApplyCaptureBatch([lib |-> lib, touched |-> {}], a, final),
                             b, final).lib
<1> DEFINE B == <<a, b>>
           base == [lib |-> lib, touched |-> {}]
           Step(st, i) == ApplyCaptureBatch(st, B[i], final)
           Iterates(f) == f = [s \in SUBSET (DOMAIN B) |->
                             IF s = {} THEN base ELSE Step(f[s \ {Max(s)}], Max(s))]
           iter == CHOOSE f : Iterates(f)
<1>1. Imported(lib, B) = iter[DOMAIN B].lib
  BY DEF Imported, FoldLeft, MapThenFoldSet
<1>2. DOMAIN B = {1, 2} /\ B[1] = a /\ B[2] = b
  OBVIOUS
<1> HIDE DEF B, base
<1>t. {1} \ {Max({1})} = {} /\ {2} \ {Max({2})} = {} /\ {1, 2} \ {Max({1, 2})} = {1}
      /\ {1, 2} # {} /\ {1} # {}
  BY GreatestPlace
<1>3. \A f : Iterates(f) =>
        /\ f[{1, 2}] = Step(f[{1}], 2)
        /\ f[{1}] = Step(f[{}], 1) /\ f[{}] = base
  <2> TAKE f
  <2> HAVE Iterates(f)
  <2>1. \A s \in SUBSET {1, 2} :
          f[s] = IF s = {} THEN base ELSE Step(f[s \ {Max(s)}], Max(s))
    <3> HIDE DEF Step
    <3> QED BY <1>2
  <2> HIDE DEF Step, Iterates
  <2>2. f[{1, 2}] = Step(f[{1}], 2)
    BY <2>1, <1>t, GreatestPlace
  <2>3. f[{1}] = Step(f[{}], 1)
    BY <2>1, <1>t, GreatestPlace
  <2> QED BY <2>1, <2>2, <2>3
<1>4. \E f : Iterates(f)
  <2> DEFINE g == [s \in SUBSET {1, 2} |->
                     IF s = {} THEN base
                     ELSE IF s = {1} THEN Step(base, 1)
                     ELSE IF s = {2} THEN Step(base, 2) ELSE Step(Step(base, 1), 2)]
  <2>1. \A s \in SUBSET {1, 2} : s = {} \/ s = {1} \/ s = {2} \/ s = {1, 2}
    OBVIOUS
  <2> HIDE DEF Step
  <2>g. g[{}] = base /\ g[{1}] = Step(base, 1) /\ g[{2}] = Step(base, 2)
        /\ g[{1, 2}] = Step(Step(base, 1), 2)
    OBVIOUS
  <2> HIDE DEF g
  <2>2. \A s \in SUBSET {1, 2} :
          g[s] = IF s = {} THEN base ELSE Step(g[s \ {Max(s)}], Max(s))
    <3> TAKE s \in SUBSET {1, 2}
    <3>1. CASE s = {}
      BY <2>g, <3>1
    <3>2. CASE s = {1}
      BY <2>g, <1>t, GreatestPlace, <3>2
    <3>3. CASE s = {2}
      BY <2>g, <1>t, GreatestPlace, <3>3
    <3>4. CASE s = {1, 2}
      BY <2>g, <1>t, GreatestPlace, <3>4
    <3> QED BY <2>1, <3>1, <3>2, <3>3, <3>4
  <2>3. g = [s \in SUBSET {1, 2} |-> g[s]]
    BY Zenon DEF g
  <2>4. g = [s \in SUBSET {1, 2} |->
               IF s = {} THEN base ELSE Step(g[s \ {Max(s)}], Max(s))]
    BY <2>2, <2>3
  <2> QED BY <1>2, <2>4
<1> HIDE DEF Iterates
<1>5. Iterates(iter)
  BY <1>4
<1> HIDE DEF iter
<1>6. iter[{1, 2}] = Step(Step(base, 1), 2)
  <2> HIDE DEF Step
  <2> QED BY <1>3, <1>5
<1> QED BY <1>1, <1>2, <1>6 DEF B, base

-----------------------------------------------------------------------------
(* What an envelope imports.                                               *)

\* Of one unit its batch, unless all of it is excluded,
LEMMA CapturesOne ==
  ASSUME NEW a
  PROVE  Captures(<<a>>) = WithCapture(<<>>, a)
<1> DEFINE B == <<a>>
           base == <<>>
           Step(st, i) == WithCapture(st, B[i])
           Iterates(f) == f = [s \in SUBSET (DOMAIN B) |->
                             IF s = {} THEN base ELSE Step(f[s \ {Max(s)}], Max(s))]
           iter == CHOOSE f : Iterates(f)
<1>1. Captures(B) = iter[DOMAIN B]
  BY DEF Captures, FoldLeft, MapThenFoldSet
<1>2. DOMAIN B = {1} /\ B[1] = a
  OBVIOUS
<1> HIDE DEF B, base
<1>3. \A f : Iterates(f) =>
        f[{1}] = Step(f[{}], 1) /\ f[{}] = base
  <2> TAKE f
  <2> HAVE Iterates(f)
  <2>1. \A s \in SUBSET {1} : f[s] = IF s = {} THEN base ELSE Step(f[s \ {Max(s)}], Max(s))
    <3> HIDE DEF Step
    <3> QED BY <1>2
  <2>2. {1} \ {Max({1})} = {} /\ Max({1}) = 1
    BY GreatestPlace
  <2> HIDE DEF Step, Iterates
  <2> QED BY <2>1, <2>2
<1>4. \E f : Iterates(f)
  <2> DEFINE g == [s \in SUBSET {1} |-> IF s = {} THEN base ELSE Step(base, 1)]
  <2>1. \A s \in SUBSET {1} : s = {} \/ s = {1}
    OBVIOUS
  <2> HIDE DEF Step
  <2>g. g[{}] = base /\ g[{1}] = Step(base, 1)
    OBVIOUS
  <2> HIDE DEF g
  <2>2. \A s \in SUBSET {1} :
          g[s] = IF s = {} THEN base ELSE Step(g[s \ {Max(s)}], Max(s))
    <3> TAKE s \in SUBSET {1}
    <3>1. CASE s = {}
      BY <2>g, <3>1
    <3>2. CASE s = {1}
      <4>1. {1} \ {Max({1})} = {} /\ {1} # {}
        BY GreatestPlace
      <4> QED BY <2>g, <3>2, <4>1, GreatestPlace
    <3> QED BY <2>1, <3>1, <3>2
  <2>3. g = [s \in SUBSET {1} |-> g[s]]
    BY Zenon DEF g
  <2>4. g = [s \in SUBSET {1} |-> IF s = {} THEN base ELSE Step(g[s \ {Max(s)}], Max(s))]
    BY <2>2, <2>3
  <2> QED BY <1>2, <2>4
<1> HIDE DEF Iterates
<1>5. Iterates(iter)
  BY <1>4
<1> HIDE DEF iter
<1>6. iter[{1}] = Step(base, 1)
  <2> HIDE DEF Step
  <2> QED BY <1>3, <1>5
<1> QED BY <1>1, <1>2, <1>6 DEF B, base

\* of two both, unless all of one is excluded.
LEMMA CapturesTwo ==
  ASSUME NEW a, NEW b
  PROVE  Captures(<<a, b>>) = WithCapture(WithCapture(<<>>, a), b)
<1> DEFINE B == <<a, b>>
           base == <<>>
           Step(st, i) == WithCapture(st, B[i])
           Iterates(f) == f = [s \in SUBSET (DOMAIN B) |->
                             IF s = {} THEN base ELSE Step(f[s \ {Max(s)}], Max(s))]
           iter == CHOOSE f : Iterates(f)
<1>1. Captures(B) = iter[DOMAIN B]
  BY DEF Captures, FoldLeft, MapThenFoldSet
<1>2. DOMAIN B = {1, 2} /\ B[1] = a /\ B[2] = b
  OBVIOUS
<1> HIDE DEF B, base
<1>t. {1} \ {Max({1})} = {} /\ {2} \ {Max({2})} = {} /\ {1, 2} \ {Max({1, 2})} = {1}
      /\ {1, 2} # {} /\ {1} # {}
  BY GreatestPlace
<1>3. \A f : Iterates(f) =>
        /\ f[{1, 2}] = Step(f[{1}], 2)
        /\ f[{1}] = Step(f[{}], 1) /\ f[{}] = base
  <2> TAKE f
  <2> HAVE Iterates(f)
  <2>1. \A s \in SUBSET {1, 2} :
          f[s] = IF s = {} THEN base ELSE Step(f[s \ {Max(s)}], Max(s))
    <3> HIDE DEF Step
    <3> QED BY <1>2
  <2> HIDE DEF Step, Iterates
  <2>2. f[{1, 2}] = Step(f[{1}], 2)
    BY <2>1, <1>t, GreatestPlace
  <2>3. f[{1}] = Step(f[{}], 1)
    BY <2>1, <1>t, GreatestPlace
  <2> QED BY <2>1, <2>2, <2>3
<1>4. \E f : Iterates(f)
  <2> DEFINE g == [s \in SUBSET {1, 2} |->
                     IF s = {} THEN base
                     ELSE IF s = {1} THEN Step(base, 1)
                     ELSE IF s = {2} THEN Step(base, 2) ELSE Step(Step(base, 1), 2)]
  <2>1. \A s \in SUBSET {1, 2} : s = {} \/ s = {1} \/ s = {2} \/ s = {1, 2}
    OBVIOUS
  <2> HIDE DEF Step
  <2>g. g[{}] = base /\ g[{1}] = Step(base, 1) /\ g[{2}] = Step(base, 2)
        /\ g[{1, 2}] = Step(Step(base, 1), 2)
    OBVIOUS
  <2> HIDE DEF g
  <2>2. \A s \in SUBSET {1, 2} :
          g[s] = IF s = {} THEN base ELSE Step(g[s \ {Max(s)}], Max(s))
    <3> TAKE s \in SUBSET {1, 2}
    <3>1. CASE s = {}
      BY <2>g, <3>1
    <3>2. CASE s = {1}
      BY <2>g, <1>t, GreatestPlace, <3>2
    <3>3. CASE s = {2}
      BY <2>g, <1>t, GreatestPlace, <3>3
    <3>4. CASE s = {1, 2}
      BY <2>g, <1>t, GreatestPlace, <3>4
    <3> QED BY <2>1, <3>1, <3>2, <3>3, <3>4
  <2>3. g = [s \in SUBSET {1, 2} |-> g[s]]
    BY Zenon DEF g
  <2>4. g = [s \in SUBSET {1, 2} |->
               IF s = {} THEN base ELSE Step(g[s \ {Max(s)}], Max(s))]
    BY <2>2, <2>3
  <2> QED BY <1>2, <2>4
<1> HIDE DEF Iterates
<1>5. Iterates(iter)
  BY <1>4
<1> HIDE DEF iter
<1>6. iter[{1, 2}] = Step(Step(base, 1), 2)
  <2> HIDE DEF Step
  <2> QED BY <1>3, <1>5
<1> QED BY <1>1, <1>2, <1>6 DEF B, base

-----------------------------------------------------------------------------
(* One import.                                                             *)

\* What one batch does to one record.
LEMMA Applied ==
  ASSUME NEW st, NEW batch, NEW final, NEW id \in Ids
  PROVE  LET touches == id \in DOMAIN batch.records
                        /\ (batch \in st.lib.imports => id \in st.touched)
             t == ApplyCaptureBatch(st, batch, final)
         IN  /\ t.lib.current[id] = IF touches THEN batch.records[id] ELSE st.lib.current[id]
             /\ t.lib.history[id] =
                  st.lib.history[id] \cup
                    IF touches /\ st.lib.current[id] \notin {Absent, final[id], batch.records[id]}
                    THEN {st.lib.current[id]} ELSE {}
<1> DEFINE existing == batch \in st.lib.imports
           keys == DOMAIN batch.records
           applied == IF existing THEN keys \cap st.touched ELSE keys
           changed == {i \in applied : st.lib.current[i] # batch.records[i]}
           superseded == {i \in changed : st.lib.current[i] \notin {Absent, final[i]}}
           next == [lib |-> [current  |-> [i \in Ids |-> IF i \in changed THEN batch.records[i]
                                                         ELSE st.lib.current[i]],
                             history  |-> [i \in Ids |-> st.lib.history[i] \cup
                                        (IF i \in superseded THEN {st.lib.current[i]} ELSE {})],
                             imports  |-> st.lib.imports \cup {batch},
                             revision |-> st.lib.revision + 1],
                    touched |-> IF existing THEN st.touched ELSE st.touched \cup keys]
           touches == id \in DOMAIN batch.records /\ (batch \in st.lib.imports => id \in st.touched)
           t == ApplyCaptureBatch(st, batch, final)
<1>1. t = IF existing /\ changed = {} THEN st ELSE next
  BY DEF ApplyCaptureBatch
<1>2. id \in applied <=> touches
  OBVIOUS
<1>3. id \in changed <=> touches /\ st.lib.current[id] # batch.records[id]
  BY <1>2
<1>4. id \in superseded <=>
        touches /\ st.lib.current[id] \notin {Absent, final[id], batch.records[id]}
  BY <1>3
<1>5. /\ next.lib.current[id] = IF id \in changed THEN batch.records[id] ELSE st.lib.current[id]
      /\ next.lib.history[id] = st.lib.history[id] \cup
           (IF id \in superseded THEN {st.lib.current[id]} ELSE {})
  <2> HIDE DEF changed, superseded
  <2> QED OBVIOUS
<1> HIDE DEF existing, applied, superseded, next, touches, t
<1>6. id \in superseded => id \in changed
  BY <1>3, <1>4
<1> HIDE DEF changed
<1>7. CASE existing /\ changed = {}
  BY <1>1, <1>3, <1>4, <1>6, <1>7 DEF touches, t
<1>8. CASE ~(existing /\ changed = {})
  BY <1>1, <1>3, <1>4, <1>5, <1>8 DEF touches, t
<1> QED BY <1>7, <1>8

\* What it does to the rest of the library.
LEMMA AppliedRest ==
  ASSUME NEW st, NEW batch, NEW final, st.lib.revision \in Nat
  PROVE  LET t == ApplyCaptureBatch(st, batch, final)
         IN  /\ t.lib.imports = st.lib.imports \cup {batch}
             /\ t.lib.revision \in Nat /\ st.lib.revision <= t.lib.revision
             /\ batch \in st.lib.imports => t.touched = st.touched
             /\ batch \notin st.lib.imports => t.touched = st.touched \cup DOMAIN batch.records
<1> DEFINE existing == batch \in st.lib.imports
           keys == DOMAIN batch.records
           applied == IF existing THEN keys \cap st.touched ELSE keys
           changed == {i \in applied : st.lib.current[i] # batch.records[i]}
           superseded == {i \in changed : st.lib.current[i] \notin {Absent, final[i]}}
           current == [i \in Ids |-> IF i \in changed THEN batch.records[i] ELSE st.lib.current[i]]
           history == [i \in Ids |-> st.lib.history[i] \cup
                                        (IF i \in superseded THEN {st.lib.current[i]} ELSE {})]
           next == [lib |-> [current  |-> current, history  |-> history,
                             imports  |-> st.lib.imports \cup {batch},
                             revision |-> st.lib.revision + 1],
                    touched |-> IF existing THEN st.touched ELSE st.touched \cup keys]
           t == ApplyCaptureBatch(st, batch, final)
<1>1. t = IF existing /\ changed = {} THEN st ELSE next
  BY DEF ApplyCaptureBatch
<1> HIDE DEF current, history, changed, t
<1>2. CASE existing /\ changed = {}
  BY <1>1, <1>2 DEF t
<1>3. CASE ~(existing /\ changed = {})
  <2>1. /\ next.lib.imports = st.lib.imports \cup {batch}
        /\ next.lib.revision = st.lib.revision + 1
        /\ next.touched = IF existing THEN st.touched ELSE st.touched \cup keys
    OBVIOUS
  <2> HIDE DEF next
  <2> QED BY <1>1, <1>3, <2>1 DEF t
<1> QED BY <1>2, <1>3

\* The library keeps its shape.
Records(batch) == DOMAIN batch.records \subseteq Ids
                  /\ \A id \in DOMAIN batch.records : Recorded(id, batch.records[id])
LEMMA AppliedShape ==
  ASSUME NEW st, NEW batch, NEW final, LibraryShape(st.lib), Records(batch)
  PROVE  LibraryShape(ApplyCaptureBatch(st, batch, final).lib)
<1> DEFINE existing == batch \in st.lib.imports
           keys == DOMAIN batch.records
           applied == IF existing THEN keys \cap st.touched ELSE keys
           changed == {i \in applied : st.lib.current[i] # batch.records[i]}
           superseded == {i \in changed : st.lib.current[i] \notin {Absent, final[i]}}
           current == [i \in Ids |-> IF i \in changed THEN batch.records[i] ELSE st.lib.current[i]]
           history == [i \in Ids |-> st.lib.history[i] \cup
                                        (IF i \in superseded THEN {st.lib.current[i]} ELSE {})]
           next == [lib |-> [current  |-> current, history  |-> history,
                             imports  |-> st.lib.imports \cup {batch},
                             revision |-> st.lib.revision + 1],
                    touched |-> IF existing THEN st.touched ELSE st.touched \cup keys]
           t == ApplyCaptureBatch(st, batch, final)
<1>1. t = IF existing /\ changed = {} THEN st ELSE next
  BY DEF ApplyCaptureBatch
<1>2. current \in [Ids -> Contents \cup {Absent}]
  <2>1. \A i \in changed : batch.records[i] \in Contents
    BY DEF Records, Recorded
  <2> HIDE DEF changed
  <2> QED BY <2>1 DEF LibraryShape
<1>3. history \in [Ids -> SUBSET Contents]
  <2>1. \A i \in Ids : i \in superseded => st.lib.current[i] \in Contents
    BY DEF LibraryShape
  <2> HIDE DEF superseded
  <2> QED BY <2>1 DEF LibraryShape
<1> HIDE DEF current, history, changed
<1>4. next.lib.current = current /\ next.lib.history = history
      /\ next.lib.revision = st.lib.revision + 1
  OBVIOUS
<1> HIDE DEF next
<1>5. LibraryShape(next.lib)
  BY <1>2, <1>3, <1>4 DEF LibraryShape
<1> QED BY <1>1, <1>5

\* What a sequence of at most two batches ends with: the keys of the new ones,
LEMMA FinalOfOne ==
  ASSUME NEW lib, NEW a
  PROVE  /\ \A id : id \in EnvelopeKeys(lib, <<a>>) <=>
                      id \in DOMAIN a.records /\ a \notin lib.imports
         /\ \A id \in EnvelopeKeys(lib, <<a>>) : FinalContent(lib, <<a>>)[id] = a.records[id]
<1>1. DOMAIN <<a>> = {1} /\ <<a>>[1] = a
  OBVIOUS
<1>2. \A id : id \in EnvelopeKeys(lib, <<a>>) <=> id \in DOMAIN a.records /\ a \notin lib.imports
  <2> DEFINE B == <<a>>
  <2>1. DOMAIN B = {1} /\ B[1] = a
    OBVIOUS
  <2> HIDE DEF B
  <2>2. \A id : id \in EnvelopeKeys(lib, B) <=> id \in DOMAIN a.records /\ a \notin lib.imports
    BY <2>1 DEF EnvelopeKeys
  <2> QED BY <2>2 DEF B
<1>3. \A id \in DOMAIN a.records : LastWith(<<a>>, id) = 1
  <2> DEFINE B == <<a>>
  <2>1. DOMAIN B = {1} /\ B[1] = a
    OBVIOUS
  <2> HIDE DEF B
  <2>2. \A id \in DOMAIN a.records : LastWith(B, id) = 1
    BY <2>1 DEF LastWith
  <2> QED BY <2>2 DEF B
<1>4. \A id \in EnvelopeKeys(lib, <<a>>) :
        FinalContent(lib, <<a>>)[id] = <<a>>[LastWith(<<a>>, id)].records[id]
  BY DEF FinalContent
<1> QED BY <1>1, <1>2, <1>3, <1>4

\* and of a key of both the record of the second.
LEMMA FinalOfTwo ==
  ASSUME NEW lib, NEW a, NEW b
  PROVE  /\ \A id : id \in EnvelopeKeys(lib, <<a, b>>) <=>
                      \/ id \in DOMAIN a.records /\ a \notin lib.imports
                      \/ id \in DOMAIN b.records /\ b \notin lib.imports
         /\ \A id \in EnvelopeKeys(lib, <<a, b>>) :
              /\ LastWith(<<a, b>>, id) = IF id \in DOMAIN b.records THEN 2 ELSE 1
              /\ FinalContent(lib, <<a, b>>)[id] =
                   IF id \in DOMAIN b.records THEN b.records[id] ELSE a.records[id]
<1> DEFINE B == <<a, b>>
<1>1. DOMAIN B = {1, 2} /\ B[1] = a /\ B[2] = b
  OBVIOUS
<1> HIDE DEF B
<1>2. \A id : id \in EnvelopeKeys(lib, B) <=>
                \/ id \in DOMAIN a.records /\ a \notin lib.imports
                \/ id \in DOMAIN b.records /\ b \notin lib.imports
  BY <1>1 DEF EnvelopeKeys
<1>3. \A id \in DOMAIN b.records : LastWith(B, id) = 2
  <2> TAKE id \in DOMAIN b.records
  <2>1. 2 \in DOMAIN B /\ id \in DOMAIN B[2].records
        /\ \A j \in DOMAIN B : id \in DOMAIN B[j].records => j <= 2
    BY <1>1
  <2>2. \A i \in DOMAIN B :
          (\A j \in DOMAIN B : id \in DOMAIN B[j].records => j <= i) => i = 2
    BY <1>1
  <2> QED BY <2>1, <2>2 DEF LastWith
<1>4. \A id \in DOMAIN a.records \ DOMAIN b.records : LastWith(B, id) = 1
  <2> TAKE id \in DOMAIN a.records \ DOMAIN b.records
  <2>1. 1 \in DOMAIN B /\ id \in DOMAIN B[1].records
        /\ \A j \in DOMAIN B : id \in DOMAIN B[j].records => j <= 1
    BY <1>1
  <2>2. \A i \in DOMAIN B : id \in DOMAIN B[i].records => i = 1
    BY <1>1
  <2> QED BY <2>1, <2>2 DEF LastWith
<1>5. \A id \in EnvelopeKeys(lib, B) : FinalContent(lib, B)[id] = B[LastWith(B, id)].records[id]
  BY DEF FinalContent
<1>6. \A id \in EnvelopeKeys(lib, B) :
        /\ LastWith(B, id) = IF id \in DOMAIN b.records THEN 2 ELSE 1
        /\ FinalContent(lib, B)[id] =
             IF id \in DOMAIN b.records THEN b.records[id] ELSE a.records[id]
  BY <1>1, <1>2, <1>3, <1>4, <1>5
<1> QED BY <1>2, <1>6 DEF B

\* What is not refused succeeds what there is.
LEMMA Unrefused ==
  ASSUME NEW lib, NEW batches, NEW id \in EnvelopeKeys(lib, batches), ~Stale(lib, batches),
         lib.current[id] # Absent, Recorded(id, lib.current[id]),
         Recorded(id, FinalContent(lib, batches)[id])
  PROVE  Succeeds(lib.current[id], FinalContent(lib, batches)[id])
<1> DEFINE p == lib.current[id]
           n == FinalContent(lib, batches)[id]
<1>1. p = n \/ (~ConflictingEdit(p, n) /\ ~(p.state = "edited" /\ n.state = "original")
               /\ ~Resurrects(p, n))
  BY DEF Stale
<1>2. CASE p = n
  BY <1>2 DEF Succeeds
<1>3. CASE p # n
  BY <1>1, <1>3, UnrefusedSucceeds
<1> QED BY <1>2, <1>3

\* The batches of an envelope, and what their import does to the library.
Importable(batches) ==
  \/ \E a : batches = <<a>> /\ Records(a)
  \/ \E a, b : /\ batches = <<a, b>> /\ Records(a) /\ Records(b)
               /\ \A id \in DOMAIN a.records \cap DOMAIN b.records :
                    Succeeds(a.records[id], b.records[id])
RecordMoves(lib, next, id) ==
  /\ next.current[id] # Absent => Recorded(id, next.current[id])
  /\ lib.current[id] # Absent =>
       next.current[id] # Absent /\ Succeeds(lib.current[id], next.current[id])
  /\ lib.history[id] \subseteq next.history[id]
  /\ lib.current[id] \in {Absent, next.current[id]} \cup next.history[id]
  /\ \A c \in next.history[id] :
       \/ c \in lib.history[id]
       \/ c # Absent /\ c = lib.current[id]
       \/ next.current[id] # Absent /\ Recorded(id, c) /\ Succeeds(c, next.current[id])
\* The records of a new batch are had, and succeeded by the current ones.
Had(next, batch) ==
  \A id \in DOMAIN batch.records :
    /\ next.current[id] # Absent
    /\ batch.records[id] \in {next.current[id]} \cup next.history[id]
    /\ Succeeds(batch.records[id], next.current[id])
ImportMoves(lib, next, batches) ==
  /\ LibraryShape(next) /\ lib.revision <= next.revision
  /\ \A x : x \in next.imports <=> x \in lib.imports \/ \E i \in DOMAIN batches : x = batches[i]
  /\ \A id \in Ids : RecordMoves(lib, next, id)
  /\ \A i \in DOMAIN batches : batches[i] \notin lib.imports =>
       Records(batches[i]) /\ Had(next, batches[i])

LEMMA ImportOfOne ==
  ASSUME NEW lib, LibraryShape(lib), Holding(lib), NEW a, Records(a), ~Stale(lib, <<a>>)
  PROVE  ImportMoves(lib, Imported(lib, <<a>>), <<a>>)
<1> DEFINE B == <<a>>
           final == FinalContent(lib, B)
           st == [lib |-> lib, touched |-> {}]
           t == ApplyCaptureBatch(st, a, final)
           next == Imported(lib, B)
           Touches(id) == id \in DOMAIN a.records /\ a \notin lib.imports
<1>1. next = t.lib
  BY ImportsOne
<1>2. st.lib = lib /\ st.touched = {}
  OBVIOUS
<1>3. DOMAIN B = {1} /\ B[1] = a
  OBVIOUS
<1>f. \A id : id \in EnvelopeKeys(lib, B) <=> Touches(id)
  BY FinalOfOne
<1>g. \A id \in EnvelopeKeys(lib, B) : final[id] = a.records[id]
  BY FinalOfOne
<1> HIDE DEF st, B, final, t, next
<1>4. LibraryShape(next)
  BY <1>1, <1>2, AppliedShape DEF t
<1>5. next.imports = lib.imports \cup {a} /\ lib.revision <= next.revision
  BY <1>1, <1>2, AppliedRest DEF t, LibraryShape
<1>6. \A id \in Ids :
        /\ next.current[id] = IF Touches(id) THEN a.records[id] ELSE lib.current[id]
        /\ next.history[id] = lib.history[id] \cup
             IF Touches(id) /\ lib.current[id] \notin {Absent, final[id], a.records[id]}
             THEN {lib.current[id]} ELSE {}
  <2> TAKE id \in Ids
  <2>1. Touches(id) <=> id \in DOMAIN a.records /\ (a \in lib.imports => id \in {})
    OBVIOUS
  <2> HIDE DEF Touches
  <2> QED BY <1>1, <1>2, <2>1, Applied DEF t
<1>7. \A id \in Ids : RecordMoves(lib, next, id)
  <2> TAKE id \in Ids
  <2>1. CASE ~Touches(id)
    <3>1. next.current[id] = lib.current[id] /\ next.history[id] = lib.history[id]
      BY <1>6, <2>1
    <3> QED BY <3>1 DEF RecordMoves, Succeeds, Holding
  <2>2. CASE Touches(id)
    <3>1. id \in EnvelopeKeys(lib, B) /\ final[id] = a.records[id]
      BY <1>f, <1>g, <2>2
    <3>2. Recorded(id, a.records[id]) /\ a.records[id] # Absent
      BY <2>2, NotAbsent DEF Records
    <3>3. lib.current[id] # Absent => Succeeds(lib.current[id], a.records[id])
      BY <3>1, <3>2, Unrefused DEF Holding, B, final
    <3>4. next.current[id] = a.records[id]
          /\ next.history[id] = lib.history[id] \cup
               IF lib.current[id] \notin {Absent, a.records[id]} THEN {lib.current[id]} ELSE {}
      BY <1>6, <2>2, <3>1
    <3> QED BY <3>2, <3>3, <3>4 DEF RecordMoves
  <2> QED BY <2>1, <2>2
<1>8. a \notin lib.imports => Had(next, a)
  <2>1. SUFFICES ASSUME a \notin lib.imports, NEW id \in DOMAIN a.records
                 PROVE  /\ next.current[id] = a.records[id] /\ a.records[id] # Absent
    BY DEF Had, Succeeds
  <2>2. id \in Ids /\ Recorded(id, a.records[id])
    BY DEF Records
  <2> QED BY <1>6, <2>1, <2>2, NotAbsent
<1>9. ImportMoves(lib, next, B)
  BY <1>3, <1>4, <1>5, <1>7, <1>8 DEF ImportMoves
<1> QED BY <1>9 DEF next, B

LEMMA ImportOfTwo ==
  ASSUME NEW lib, LibraryShape(lib), Holding(lib), NEW a, NEW b, Records(a), Records(b),
         \A id \in DOMAIN a.records \cap DOMAIN b.records :
           Succeeds(a.records[id], b.records[id]),
         ~Stale(lib, <<a, b>>)
  PROVE  ImportMoves(lib, Imported(lib, <<a, b>>), <<a, b>>)
<1> DEFINE B == <<a, b>>
           final == FinalContent(lib, B)
           st == [lib |-> lib, touched |-> {}]
           t == ApplyCaptureBatch(st, a, final)
           z == ApplyCaptureBatch(t, b, final)
           next == Imported(lib, B)
           InA(id) == id \in DOMAIN a.records /\ a \notin lib.imports
           InB(id) == id \in DOMAIN b.records /\ (b \in lib.imports => InA(id))
           Key(id) == \/ id \in DOMAIN a.records /\ a \notin lib.imports
                      \/ id \in DOMAIN b.records /\ b \notin lib.imports
<1>1. next = z.lib
  BY ImportsTwo
<1>2. st.lib = lib /\ st.touched = {}
  OBVIOUS
<1>3. DOMAIN B = {1, 2} /\ B[1] = a /\ B[2] = b
  OBVIOUS
<1>f. \A id : id \in EnvelopeKeys(lib, B) <=> Key(id)
  BY FinalOfTwo
<1>g. \A id \in EnvelopeKeys(lib, B) :
        final[id] = IF id \in DOMAIN b.records THEN b.records[id] ELSE a.records[id]
  BY FinalOfTwo
<1> HIDE DEF st, B, final, t, z, next
<1>s. LibraryShape(t.lib)
  BY <1>2, AppliedShape DEF t
<1>r. /\ t.lib.imports = lib.imports \cup {a} /\ lib.revision <= t.lib.revision
      /\ t.lib.revision \in Nat
      /\ t.touched = IF a \in lib.imports THEN {} ELSE DOMAIN a.records
  <2>1. st.lib.revision \in Nat
    BY <1>2 DEF LibraryShape
  <2>2. /\ t.lib.imports = st.lib.imports \cup {a}
        /\ t.lib.revision \in Nat /\ st.lib.revision <= t.lib.revision
        /\ a \in st.lib.imports => t.touched = st.touched
        /\ a \notin st.lib.imports => t.touched = st.touched \cup DOMAIN a.records
    BY <2>1, AppliedRest DEF t
  <2> QED BY <1>2, <2>2
<1>4. LibraryShape(next)
  BY <1>1, <1>s, AppliedShape DEF z
<1>5. next.imports = lib.imports \cup {a} \cup {b} /\ lib.revision <= next.revision
  <2>1. next.imports = t.lib.imports \cup {b} /\ t.lib.revision <= next.revision
        /\ next.revision \in Nat
    <3>1. t.lib.revision \in Nat
      BY <1>r
    <3> QED BY <1>1, <3>1, AppliedRest DEF z
  <2>2. lib.revision \in Nat
    BY DEF LibraryShape
  <2> QED BY <1>r, <2>1, <2>2
<1>6. \A id \in Ids :
        /\ t.lib.current[id] = IF InA(id) THEN a.records[id] ELSE lib.current[id]
        /\ t.lib.history[id] = lib.history[id] \cup
             IF InA(id) /\ lib.current[id] \notin {Absent, final[id], a.records[id]}
             THEN {lib.current[id]} ELSE {}
  <2> TAKE id \in Ids
  <2>1. InA(id) <=> id \in DOMAIN a.records /\ (a \in lib.imports => id \in {})
    OBVIOUS
  <2> HIDE DEF InA
  <2> QED BY <1>2, <2>1, Applied DEF t
<1>7. \A id \in Ids :
        /\ next.current[id] = IF InB(id) THEN b.records[id] ELSE t.lib.current[id]
        /\ next.history[id] = t.lib.history[id] \cup
             IF InB(id) /\ t.lib.current[id] \notin {Absent, final[id], b.records[id]}
             THEN {t.lib.current[id]} ELSE {}
  <2> TAKE id \in Ids
  <2>1. InB(id) <=> id \in DOMAIN b.records /\ (b \in t.lib.imports => id \in t.touched)
    BY <1>r
  <2> HIDE DEF InB
  <2> QED BY <1>1, <2>1, Applied DEF z
<1>8. \A id \in Ids : ~Key(id) =>
        next.current[id] = lib.current[id] /\ next.history[id] = lib.history[id]
  BY <1>6, <1>7
<1>9. ASSUME NEW id \in Ids, Key(id), id \notin DOMAIN b.records
      PROVE  /\ InA(id) /\ final[id] = a.records[id]
             /\ next.current[id] = a.records[id]
             /\ next.history[id] = lib.history[id] \cup
                  IF lib.current[id] \notin {Absent, a.records[id]} THEN {lib.current[id]} ELSE {}
  <2>1. InA(id) /\ ~InB(id) /\ final[id] = a.records[id]
    BY <1>f, <1>g, <1>9
  <2> QED BY <1>6, <1>7, <2>1
<1>10. ASSUME NEW id \in Ids, Key(id), id \in DOMAIN b.records
       PROVE  /\ final[id] = b.records[id]
              /\ next.current[id] = b.records[id]
              /\ lib.history[id] \subseteq next.history[id]
              /\ \A c \in next.history[id] :
                   \/ c \in lib.history[id]
                   \/ c # Absent /\ c = lib.current[id]
                   \/ InA(id) /\ c = a.records[id]
              /\ lib.current[id] \in {Absent, b.records[id]} \cup next.history[id]
              /\ InA(id) => a.records[id] \in {b.records[id]} \cup next.history[id]
  <2>1. InB(id) /\ final[id] = b.records[id]
    BY <1>f, <1>g, <1>10
  <2>2. InA(id) => a.records[id] # Absent
    BY NotAbsent DEF Records
  <2>3. CASE InA(id)
    <3>1. t.lib.current[id] = a.records[id]
          /\ t.lib.history[id] = lib.history[id] \cup
               IF lib.current[id] \notin {Absent, b.records[id], a.records[id]}
               THEN {lib.current[id]} ELSE {}
      BY <1>6, <2>1, <2>3
    <3>2. next.current[id] = b.records[id]
          /\ next.history[id] = t.lib.history[id] \cup
               IF a.records[id] \notin {Absent, b.records[id]} THEN {a.records[id]} ELSE {}
      BY <1>7, <2>1, <3>1
    <3> HIDE DEF InA
    <3> QED BY <2>1, <2>2, <2>3, <3>1, <3>2
  <2>4. CASE ~InA(id)
    <3>1. t.lib.current[id] = lib.current[id] /\ t.lib.history[id] = lib.history[id]
      BY <1>6, <2>4
    <3>2. next.current[id] = b.records[id]
          /\ next.history[id] = lib.history[id] \cup
               IF lib.current[id] \notin {Absent, b.records[id]} THEN {lib.current[id]} ELSE {}
      BY <1>7, <2>1, <3>1
    <3> HIDE DEF InA
    <3> QED BY <2>1, <2>4, <3>2
  <2> QED BY <2>3, <2>4
<1>11. \A id \in Ids : Key(id) =>
         /\ Recorded(id, next.current[id]) /\ next.current[id] # Absent
         /\ lib.current[id] # Absent => Succeeds(lib.current[id], next.current[id])
  <2> TAKE id \in Ids
  <2> HAVE Key(id)
  <2>1. next.current[id] = final[id] /\ Recorded(id, final[id])
    BY <1>9, <1>10 DEF Records
  <2>2. lib.current[id] # Absent => Succeeds(lib.current[id], final[id])
    BY <1>f, <2>1, Unrefused DEF Holding, B, final
  <2> QED BY <2>1, <2>2, NotAbsent
<1>12. \A id \in Ids : RecordMoves(lib, next, id)
  <2> TAKE id \in Ids
  <2>1. CASE ~Key(id)
    <3>1. next.current[id] = lib.current[id] /\ next.history[id] = lib.history[id]
      BY <1>8, <2>1
    <3> QED BY <3>1 DEF RecordMoves, Succeeds, Holding
  <2>2. CASE Key(id) /\ id \notin DOMAIN b.records
    <3> HIDE DEF Key, InA
    <3> QED BY <1>9, <1>11, <2>2 DEF RecordMoves
  <2>3. CASE Key(id) /\ id \in DOMAIN b.records
    <3>1. InA(id) => Recorded(id, a.records[id]) /\ Succeeds(a.records[id], b.records[id])
      BY <2>3 DEF Records
    <3> HIDE DEF Key, InA
    <3> QED BY <1>10, <1>11, <2>3, <3>1 DEF RecordMoves
  <2> QED BY <2>1, <2>2, <2>3
<1>13. a \notin lib.imports => Had(next, a)
  <2>1. SUFFICES ASSUME a \notin lib.imports, NEW id \in DOMAIN a.records
                 PROVE  /\ next.current[id] # Absent
                        /\ a.records[id] \in {next.current[id]} \cup next.history[id]
                        /\ Succeeds(a.records[id], next.current[id])
    BY DEF Had
  <2>2. id \in Ids /\ Key(id) /\ InA(id)
    BY <2>1 DEF Records
  <2>3. CASE id \in DOMAIN b.records
    <3>1. Succeeds(a.records[id], b.records[id])
      BY <2>3
    <3> HIDE DEF Key, InA
    <3> QED BY <1>10, <1>11, <2>2, <2>3, <3>1
  <2>4. CASE id \notin DOMAIN b.records
    <3> HIDE DEF Key, InA
    <3>1. next.current[id] = a.records[id] /\ next.current[id] # Absent
      BY <1>9, <1>11, <2>2, <2>4
    <3> QED BY <3>1 DEF Succeeds
  <2> QED BY <2>3, <2>4
<1>14. b \notin lib.imports => Had(next, b)
  <2>1. SUFFICES ASSUME b \notin lib.imports, NEW id \in DOMAIN b.records
                 PROVE  next.current[id] # Absent /\ next.current[id] = b.records[id]
    BY DEF Had, Succeeds
  <2>2. id \in Ids /\ Key(id)
    BY <2>1 DEF Records
  <2> HIDE DEF Key, InA
  <2> QED BY <1>10, <1>11, <2>2
<1>15. ImportMoves(lib, next, B)
  BY <1>3, <1>4, <1>5, <1>12, <1>13, <1>14 DEF ImportMoves
<1> QED BY <1>15 DEF next, B

\* An import leaves the library fit.
LEMMA MovesFit ==
  ASSUME source \in [Ids -> Versions], NEW lib, LibraryFits(lib), NEW next, NEW batches,
         ImportMoves(lib, next, batches)
  PROVE  LibraryFits(next)
<1>1. LibraryShape(next)
  BY DEF ImportMoves
<1>2. ASSUME NEW id \in Ids
      PROVE  /\ next.current[id] # Absent => Recorded(id, next.current[id])
             /\ \A c \in next.history[id] : Recorded(id, c)
  BY DEF ImportMoves, RecordMoves, LibraryFits, Holding
<1>3. ASSUME NEW id \in Ids, NEW c \in next.history[id]
      PROVE  next.current[id] # Absent /\ Follows(c, next.current[id])
  <2> DEFINE p == lib.current[id]
             n == next.current[id]
  <2>1. RecordMoves(lib, next, id) /\ Recorded(id, c)
    BY <1>2, <1>3 DEF ImportMoves
  <2>2. \/ c \in lib.history[id]
        \/ c # Absent /\ c = p
        \/ n # Absent /\ Succeeds(c, n)
    BY <1>3, <2>1 DEF RecordMoves
  <2>3. n # Absent => Recorded(id, n)
    BY <1>2
  <2>4. p # Absent => Recorded(id, p) /\ n # Absent /\ Succeeds(p, n)
    BY <2>1 DEF RecordMoves, LibraryFits, Holding
  <2>5. c \in lib.history[id] => p # Absent /\ Follows(c, p)
    BY DEF LibraryFits, Holding
  <2> HIDE DEF p, n
  <2>6. CASE n # Absent /\ Succeeds(c, n)
    BY <2>1, <2>3, <2>6, SuccessorFollows DEF n
  <2>7. CASE c # Absent /\ c = p
    BY <2>1, <2>3, <2>4, <2>7, SuccessorFollows DEF n
  <2>8. CASE c \in lib.history[id]
    <3>1. Recorded(id, p) /\ Recorded(id, n) /\ Follows(c, p) /\ Follows(p, n)
      BY <2>3, <2>4, <2>5, <2>8, SuccessorFollows
    <3>2. Follows(c, n)
      BY <2>1, <3>1, FollowsOn
    <3> QED BY <2>4, <2>5, <2>8, <3>2 DEF n
  <2> QED BY <2>2, <2>6, <2>7, <2>8
<1>4. ASSUME NEW batch \in next.imports
      PROVE  Holds(next, batch)
  <2>1. CASE batch \in lib.imports
    <3>1. Holds(lib, batch)
      BY <2>1 DEF LibraryFits
    <3>2. SUFFICES ASSUME NEW id \in DOMAIN batch.records
                   PROVE  /\ next.current[id] # Absent
                          /\ batch.records[id] \in {next.current[id]} \cup next.history[id]
                          /\ Follows(batch.records[id], next.current[id])
      BY <3>1 DEF Holds
    <3> DEFINE r == batch.records[id]
    <3>3. id \in Ids /\ lib.current[id] # Absent
          /\ r \in {lib.current[id]} \cup lib.history[id] /\ Follows(r, lib.current[id])
      BY <3>1 DEF Holds
    <3>4. RecordMoves(lib, next, id)
      BY <3>3 DEF ImportMoves
    <3>5. Recorded(id, r) /\ Recorded(id, lib.current[id])
      BY <3>3 DEF LibraryFits, Holding
    <3> HIDE DEF r
    <3>6. next.current[id] # Absent /\ Succeeds(lib.current[id], next.current[id])
      BY <3>3, <3>4 DEF RecordMoves
    <3>7. Recorded(id, next.current[id])
      BY <3>3, <3>6, <1>2
    <3>8. Follows(lib.current[id], next.current[id])
      BY <3>5, <3>6, <3>7, SuccessorFollows
    <3>9. Follows(r, next.current[id])
      BY <3>3, <3>5, <3>7, <3>8, FollowsOn
    <3>10. r \in {next.current[id]} \cup next.history[id]
      BY <3>3, <3>4 DEF RecordMoves
    <3> QED BY <3>6, <3>9, <3>10 DEF r
  <2>2. CASE batch \notin lib.imports
    <3>1. PICK i \in DOMAIN batches : batch = batches[i]
      BY <2>2 DEF ImportMoves
    <3>2. Records(batch) /\ Had(next, batch)
      BY <2>2, <3>1 DEF ImportMoves
    <3>3. ASSUME NEW id \in DOMAIN batch.records
          PROVE  Follows(batch.records[id], next.current[id])
      <4>1. id \in Ids /\ Recorded(id, batch.records[id])
        BY <3>2 DEF Records
      <4>2. next.current[id] # Absent /\ Succeeds(batch.records[id], next.current[id])
        BY <3>2 DEF Had
      <4>3. Recorded(id, next.current[id])
        BY <4>1, <4>2, <1>2
      <4> QED BY <4>1, <4>2, <4>3, SuccessorFollows
    <3> QED BY <3>2, <3>3 DEF Holds, Had, Records
  <2> QED BY <2>1, <2>2
<1> QED BY <1>1, <1>2, <1>3, <1>4 DEF LibraryFits, Holding

LEMMA ImportFits ==
  ASSUME source \in [Ids -> Versions], NEW lib, LibraryFits(lib), NEW batches,
         Importable(batches), ~Stale(lib, batches)
  PROVE  LibraryFits(Imported(lib, batches)) /\ ImportMoves(lib, Imported(lib, batches), batches)
<1>1. LibraryShape(lib) /\ Holding(lib)
  BY DEF LibraryFits
<1>2. ImportMoves(lib, Imported(lib, batches), batches)
  BY <1>1, ImportOfOne, ImportOfTwo DEF Importable
<1> QED BY <1>2, MovesFit

-----------------------------------------------------------------------------
(* The library across a step.                                              *)

LEMMA SameSource ==
  ASSUME source' = source, NEW id, NEW c
  PROVE  Recorded(id, c)' <=> Recorded(id, c)
BY DEF Recorded

LEMMA FitsAfter ==
  ASSUME source' = source, NEW next, library' = next, LibraryFits(next)
  PROVE  LibraryFits(library)'
<1>1. LibraryShape(library)'
  BY DEF LibraryFits, LibraryShape
<1>2. Holding(library)'
  <2> SUFFICES ASSUME NEW id \in Ids
               PROVE  /\ library'.current[id] # Absent => Recorded(id, library.current[id])'
                      /\ \A c \in library'.history[id] :
                           /\ Recorded(id, c)' /\ library'.current[id] # Absent
                           /\ Follows(c, library'.current[id])
    BY DEF Holding, Follows
  <2>1. \A c : Recorded(id, c)' <=> Recorded(id, c)
    BY SameSource
  <2> QED BY <2>1 DEF LibraryFits, Holding
<1>3. (\A batch \in library.imports : Holds(library, batch))'
  BY DEF LibraryFits, Holds
<1> QED BY <1>1, <1>2, <1>3 DEF LibraryFits

-----------------------------------------------------------------------------
(* What is read and captured fits.                                         *)

LEMMA UnitIsCaptured ==
  ASSUME source \in [Ids -> Versions], NEW u, UnitFits(u)
  PROVE  /\ Records(CaptureBatchForAdoption(u)) /\ Records(CaptureBatchFromNative(u))
         /\ \A id \in DOMAIN CaptureBatchForAdoption(u).records :
              /\ id \in DOMAIN u.messages /\ DispositionFor(u.messages[id]) # "exclude"
              /\ CaptureBatchForAdoption(u).records[id] =
                   Capture(u.messages[id], DispositionFor(u.messages[id]) = "withhold")
<1> DEFINE kept == {id \in DOMAIN u.messages : DispositionFor(u.messages[id]) # "exclude"}
           records == [id \in kept |-> Capture(u.messages[id],
                                              DispositionFor(u.messages[id]) = "withhold")]
           native == [id \in DOMAIN u.messages |-> Capture(u.messages[id], FALSE)]
<1>1. /\ CaptureBatchForAdoption(u).records = records
      /\ CaptureBatchFromNative(u).records = native
  BY DEF CaptureBatchForAdoption, CaptureBatchFromNative
<1>2. \A id \in DOMAIN u.messages : \A withheld \in BOOLEAN :
        id \in Ids /\ Recorded(id, Capture(u.messages[id], withheld))
  BY CaptureIsRecorded DEF UnitFits
<1>3. DOMAIN records = kept /\ kept \subseteq DOMAIN u.messages /\ DOMAIN native = DOMAIN u.messages
      /\ \A id \in kept : DispositionFor(u.messages[id]) # "exclude"
  OBVIOUS
<1>4. \A id \in kept : \E withheld \in BOOLEAN :
        /\ withheld = (DispositionFor(u.messages[id]) = "withhold")
        /\ records[id] = Capture(u.messages[id], withheld)
  OBVIOUS
<1>5. \A id \in DOMAIN native : \E withheld \in BOOLEAN :
        native[id] = Capture(u.messages[id], withheld)
  OBVIOUS
<1>6. \A id \in kept : records[id] = Capture(u.messages[id],
                                              DispositionFor(u.messages[id]) = "withhold")
  OBVIOUS
<1> HIDE DEF kept, records, native
<1>7. \A id \in kept : Recorded(id, records[id])
  BY <1>2, <1>3, <1>4
<1>8. \A id \in DOMAIN native : Recorded(id, native[id])
  BY <1>2, <1>3, <1>5
<1>9. DOMAIN u.messages \subseteq Ids
  BY DEF UnitFits
<1>10. Records(CaptureBatchForAdoption(u))
  BY <1>1, <1>3, <1>7, <1>9 DEF Records
<1>11. Records(CaptureBatchFromNative(u))
  BY <1>1, <1>3, <1>8, <1>9 DEF Records
<1> QED BY <1>1, <1>3, <1>6, <1>10, <1>11

LEMMA AppendToOne ==
  ASSUME NEW x, NEW y
  PROVE  Append(<<x>>, y) = <<x, y>>
<1> DEFINE S == {x, y}
<1>1. <<x>> \in Seq(S) /\ y \in S /\ Len(<<x>>) = 1 /\ <<x>>[1] = x
  OBVIOUS
<1>2. <<x, y>> \in Seq(S) /\ Len(<<x, y>>) = 2 /\ <<x, y>>[1] = x /\ <<x, y>>[2] = y
  OBVIOUS
<1> HIDE DEF S
<1>3. /\ Append(<<x>>, y) \in Seq(S) /\ Len(Append(<<x>>, y)) = 2
      /\ Append(<<x>>, y)[1] = x /\ Append(<<x>>, y)[2] = y
  BY <1>1
<1>4. \A s, t \in Seq(S) : Len(s) = 2 /\ Len(t) = 2 /\ s[1] = t[1] /\ s[2] = t[2] => s = t
  OBVIOUS
<1> QED BY <1>2, <1>3, <1>4

\* The captures of an envelope are importable.
LEMMA EnvelopeImports ==
  ASSUME source \in [Ids -> Versions], \A u \in readings : UnitFits(u),
         NEW e, EnvelopeFits(e), OverlapsAgree(e), Captures(e) # <<>>
  PROVE  Importable(Captures(e))
<1> DEFINE Batch(u) == CaptureBatchForAdoption(u)
           Empty(u) == DOMAIN CaptureBatchForAdoption(u).records = {}
<1>1. ASSUME NEW u \in readings, e = <<u>>
      PROVE  Importable(Captures(e))
  <2>1. Captures(e) = IF Empty(u) THEN <<>> ELSE Append(<<>>, Batch(u))
    BY <1>1, CapturesOne DEF WithCapture
  <2>2. Append(<<>>, Batch(u)) = <<Batch(u)>>
    OBVIOUS
  <2>3. Records(Batch(u))
    BY UnitIsCaptured
  <2> HIDE DEF Batch, Empty
  <2> QED BY <2>1, <2>2, <2>3 DEF Importable
<1>2. ASSUME NEW u \in readings, NEW v \in readings, e = <<u, v>>
      PROVE  Importable(Captures(e))
  <2>1. Captures(e) = IF Empty(u) THEN IF Empty(v) THEN <<>> ELSE Append(<<>>, Batch(v))
                      ELSE IF Empty(v) THEN Append(<<>>, Batch(u))
                           ELSE Append(Append(<<>>, Batch(u)), Batch(v))
    <3>1. Captures(e) = WithCapture(WithCapture(<<>>, u), v)
      BY <1>2, CapturesTwo
    <3>2. WithCapture(<<>>, u) = IF Empty(u) THEN <<>> ELSE Append(<<>>, Batch(u))
      BY DEF WithCapture
    <3>3. \A s : WithCapture(s, v) = IF Empty(v) THEN s ELSE Append(s, Batch(v))
      BY DEF WithCapture
    <3> HIDE DEF Batch, Empty
    <3> QED BY <3>1, <3>2, <3>3
  <2>2. /\ Append(<<>>, Batch(v)) = <<Batch(v)>>
        /\ Append(<<>>, Batch(u)) = <<Batch(u)>>
        /\ Append(<<Batch(u)>>, Batch(v)) = <<Batch(u), Batch(v)>>
    <3>1. \A x : Append(<<>>, x) = <<x>>
      OBVIOUS
    <3> HIDE DEF Batch
    <3>2. Append(<<Batch(u)>>, Batch(v)) = <<Batch(u), Batch(v)>>
      BY AppendToOne, Zenon
    <3> QED BY <3>1, <3>2
  <2>3. Records(Batch(u)) /\ Records(Batch(v))
    BY UnitIsCaptured
  <2>4. ASSUME NEW id \in DOMAIN Batch(u).records \cap DOMAIN Batch(v).records
        PROVE  Succeeds(Batch(u).records[id], Batch(v).records[id])
    <3> DEFINE before == u.messages[id]
               after == v.messages[id]
    <3>1. /\ id \in DOMAIN u.messages /\ id \in DOMAIN v.messages
          /\ Batch(u).records[id] = Capture(before, DispositionFor(before) = "withhold")
          /\ Batch(v).records[id] = Capture(after, DispositionFor(after) = "withhold")
      BY UnitIsCaptured
    <3>2. id \in Ids /\ Seen(id, before) /\ Seen(id, after)
      BY <3>1 DEF UnitFits
    <3>3. /\ DispositionFor(before) = DispositionFor(after)
          /\ before = after \/ TruthfulTransition(before, after)
      <4>1. DOMAIN e = {1, 2} /\ e[1] = u /\ e[2] = v
        BY <1>2
      <4>2. Occurs(e, id) = {1, 2}
        BY <3>1, <4>1 DEF Occurs
      <4>3. \A k \in Occurs(e, id) : k <= 1 \/ 2 <= k
        BY <4>2
      <4> HIDE DEF before, after
      <4>4. LET b == e[1].messages[id]
                a == e[2].messages[id]
            IN  DispositionFor(b) = DispositionFor(a) /\ (b = a \/ TruthfulTransition(b, a))
        BY <3>2, <4>2, <4>3 DEF OverlapsAgree
      <4> QED BY <4>1, <4>4 DEF before, after
    <3> HIDE DEF before, after
    <3>4. PICK withheld \in BOOLEAN : withheld = (DispositionFor(before) = "withhold")
      OBVIOUS
    <3>5. Succeeds(Capture(before, withheld), Capture(after, withheld))
      BY <3>2, <3>3, OverlapSucceeds
    <3>6. withheld = (DispositionFor(after) = "withhold")
      BY <3>3, <3>4
    <3>7. Batch(u).records[id] = Capture(before, withheld)
      BY <3>1, <3>4 DEF Capture
    <3>8. Batch(v).records[id] = Capture(after, withheld)
      BY <3>1, <3>6 DEF Capture
    <3> HIDE DEF Batch
    <3> QED BY <3>5, <3>7, <3>8
  <2>5. CASE Empty(u)
    <3> HIDE DEF Batch, Empty
    <3> QED BY <2>1, <2>2, <2>3, <2>5 DEF Importable
  <2>6. CASE ~Empty(u) /\ Empty(v)
    <3> HIDE DEF Batch, Empty
    <3> QED BY <2>1, <2>2, <2>3, <2>6 DEF Importable
  <2>7. CASE ~Empty(u) /\ ~Empty(v)
    <3>1. Captures(e) = <<Batch(u), Batch(v)>>
      BY <2>1, <2>2, <2>7
    <3>2. \A id \in DOMAIN Batch(u).records \cap DOMAIN Batch(v).records :
            Succeeds(Batch(u).records[id], Batch(v).records[id])
      BY <2>4
    <3> HIDE DEF Batch, Empty
    <3> QED BY <2>3, <3>1, <3>2 DEF Importable
  <2> QED BY <2>5, <2>6, <2>7
<1> QED BY <1>1, <1>2 DEF EnvelopeFits

\* What a reading sees fits.
LEMMA ReadingFits ==
  ASSUME source \in [Ids -> Versions], NEW w \in DOMAIN Windows, NEW dating,
         NEW unknown, NEW redescribed
  PROVE  UnitFits(ReadingOf(w, dating, unknown, redescribed))
<1> DEFINE u == ReadingOf(w, dating, unknown, redescribed)
<1>1. u.messages = [id \in Windows[w] |-> Message(id, dating, unknown, redescribed)]
  BY DEF ReadingOf
<1>2. Windows[w] \subseteq Ids
  BY IngestionAssumption
<1>3. DOMAIN u.messages = Windows[w]
      /\ \A id \in Windows[w] : u.messages[id] = Message(id, dating, unknown, redescribed)
  BY <1>1
<1>4. \A id \in Windows[w] : Seen(id, Message(id, dating, unknown, redescribed))
  BY <1>2, MessageIsSeen
<1> HIDE DEF u
<1>5. UnitFits(u)
  BY <1>2, <1>3, <1>4 DEF UnitFits
<1> QED BY <1>5 DEF u

\* The library when Slack has moved on and the library has not,
LEMMA FitsThoughMoved ==
  ASSUME Moves, UNCHANGED library, LibraryFits(library)
  PROVE  LibraryFits(library)'
<1>1. Holding(library)'
  <2> SUFFICES ASSUME NEW id \in Ids
               PROVE  /\ library.current[id] # Absent => Recorded(id, library.current[id])'
                      /\ \A c \in library.history[id] :
                           /\ Recorded(id, c)' /\ library.current[id] # Absent
                           /\ Follows(c, library.current[id])
    BY DEF Holding, Follows
  <2>1. \A c : Recorded(id, c) => Recorded(id, c)'
    BY RecordedStays
  <2> QED BY <2>1 DEF LibraryFits, Holding
<1>2. LibraryShape(library)'
  BY DEF LibraryFits, LibraryShape
<1>3. (\A batch \in library.imports : Holds(library, batch))'
  BY DEF LibraryFits, Holds
<1> QED BY <1>1, <1>2, <1>3 DEF LibraryFits

LEMMA UnitsThoughMoved ==
  ASSUME Moves, UNCHANGED readings, \A u \in readings : UnitFits(u)
  PROVE  \A u \in readings' : UnitFits(u)'
BY SeenStays DEF UnitFits

\* what is under way when the library has only grown,
Grown ==
  /\ readings \subseteq readings' /\ library.imports \subseteq library'.imports
  /\ library.revision \in Nat /\ library'.revision \in Nat
  /\ library.revision <= library'.revision
LEMMA EnvelopeStays ==
  ASSUME Grown, NEW e, EnvelopeFits(e)
  PROVE  EnvelopeFits(e)'
BY DEF Grown, EnvelopeFits
LEMMA LedgerStays ==
  ASSUME Grown, LedgerFits, UNCHANGED ledgerFile
  PROVE  LedgerFits'
<1>1. PICK e : e = ledgerFile.envelope
  OBVIOUS
<1>2. EnvelopeFits(e) => EnvelopeFits(e)'
  BY EnvelopeStays
<1>3. Adopted(e) => Adopted(e)'
  BY DEF Adopted, Grown
<1>4. ledgerFile.state = "complete" => EnvelopeFits(e) /\ Adopted(e)
  BY <1>1 DEF LedgerFits
<1>5. ledgerFile.state = "complete" =>
        /\ ledgerFile.before \in Nat /\ ledgerFile.after \in Nat
        /\ ledgerFile.before <= ledgerFile.after /\ ledgerFile.after <= library'.revision
  BY DEF LedgerFits, Grown
<1>6. ledgerFile.state = "complete" =>
        EnvelopeFits(ledgerFile.envelope)' /\ Adopted(ledgerFile.envelope)'
  BY <1>1, <1>2, <1>3, <1>4 DEF EnvelopeFits, Adopted
<1> QED BY <1>5, <1>6 DEF LedgerFits
LEMMA ApplyStays ==
  ASSUME Grown, ApplyFits, UNCHANGED apply
  PROVE  ApplyFits'
<1> SUFFICES ASSUME apply # Idle PROVE ApplyFits'
  BY DEF ApplyFits, Idle
<1>1. PICK e : e = apply.ledger.envelope
  OBVIOUS
<1>2. EnvelopeFits(e)'
  BY <1>1, EnvelopeStays DEF ApplyFits
<1>3. Adopted(e) => Adopted(e)'
  BY DEF Adopted, Grown
<1>4. EnvelopeFits(apply.ledger.envelope)'
  BY <1>1, <1>2 DEF EnvelopeFits
<1>5. apply.phase \in {"readback", "status", "complete"} => Adopted(apply.ledger.envelope)'
  BY <1>1, <1>3 DEF Adopted, ApplyFits
<1>6. ApplyShape'
  BY DEF ApplyFits, ApplyShape
<1>7. /\ apply.ledger.before \in Nat /\ apply.ledger.before <= library'.revision
      /\ apply.phase = "complete" =>
           /\ apply.ledger.after \in Nat /\ apply.ledger.before <= apply.ledger.after
           /\ apply.ledger.after <= library'.revision
  BY DEF ApplyFits, Grown
<1> QED BY <1>4, <1>5, <1>6, <1>7 DEF ApplyFits, OverlapsAgree, Captures
\* and what is not about Slack or the readings when neither moves.
LEMMA UnitsStay ==
  ASSUME UNCHANGED <<source, readings>>, \A u \in readings : UnitFits(u)
  PROVE  \A u \in readings' : UnitFits(u)'
BY DEF UnitFits, Seen

-----------------------------------------------------------------------------
(* Every step.                                                             *)

LibraryMoves ==
  \E lib, next, batches : lib = library /\ next = library' /\ ImportMoves(lib, next, batches)

LEMMA ImportStep ==
  ASSUME AdoptionInv, NEW batches, Importable(batches), ~Stale(library, batches),
         library' = Imported(library, batches), UNCHANGED <<source, readings>>
  PROVE  /\ LibraryFits(library)' /\ Grown /\ LibraryMoves
         /\ \A i \in DOMAIN batches : batches[i] \in library'.imports
<1>1. PICK lib : lib = library
  OBVIOUS
<1>2. PICK next : next = Imported(library, batches)
  OBVIOUS
<1>3. source \in [Ids -> Versions] /\ LibraryFits(lib)
  BY <1>1 DEF AdoptionInv
<1>4. ~Stale(lib, batches) /\ next = Imported(lib, batches)
  BY <1>1, <1>2
<1>5. LibraryFits(next) /\ ImportMoves(lib, next, batches)
  BY <1>3, <1>4, ImportFits
<1>6. library' = next
  BY <1>2
<1>7. LibraryFits(library)'
  BY <1>5, <1>6, FitsAfter
<1>8. \A x : x \in next.imports <=> x \in lib.imports \/ \E i \in DOMAIN batches : x = batches[i]
  BY <1>5 DEF ImportMoves
<1>9. lib.revision \in Nat /\ next.revision \in Nat /\ lib.revision <= next.revision
  BY <1>3, <1>5 DEF ImportMoves, LibraryFits, LibraryShape
<1>10. Grown
  BY <1>1, <1>6, <1>8, <1>9 DEF Grown
<1>11. LibraryMoves
  BY <1>1, <1>5, <1>6 DEF LibraryMoves
<1> QED BY <1>6, <1>7, <1>8, <1>10, <1>11

\* When nothing is imported the library only stays.
LEMMA NoImport ==
  ASSUME AdoptionInv, UNCHANGED <<source, library>>, readings \subseteq readings'
  PROVE  LibraryFits(library)' /\ Grown
<1>1. PICK lib : lib = library
  OBVIOUS
<1>2. LibraryFits(lib) /\ library' = lib
  BY <1>1 DEF AdoptionInv
<1>3. lib.revision \in Nat
  BY <1>2 DEF LibraryFits, LibraryShape
<1> QED BY <1>1, <1>2, <1>3, FitsAfter DEF Grown

LEMMA InitFits ==
  AdoptionInit => AdoptionInv
<1> SUFFICES ASSUME AdoptionInit PROVE AdoptionInv
  OBVIOUS
<1>1. source \in [Ids -> Versions]
  <2>1. [edits |-> 0, deleted |-> FALSE] \in Versions
    BY IngestionAssumption DEF Versions
  <2> QED BY <2>1 DEF AdoptionInit
<1>2. /\ library.current = [id \in Ids |-> Absent] /\ library.history = [id \in Ids |-> {}]
      /\ library.imports = {} /\ library.revision = 0
  BY DEF AdoptionInit
<1>3. LibraryFits(library)
  BY <1>2 DEF LibraryFits, LibraryShape, Holding
<1>4. ApplyFits /\ LedgerFits /\ readings = {}
  BY DEF AdoptionInit, ApplyFits, LedgerFits, NoAdoption
<1> QED BY <1>1, <1>3, <1>4 DEF AdoptionInv

LEMMA SlackMoves ==
  ASSUME AdoptionInv, NEW id \in Ids, Edit(id) \/ Delete(id)
  PROVE  AdoptionInv'
<1>1. source \in [Ids -> Versions] /\ MaxEdits \in Nat
  BY IngestionAssumption DEF AdoptionInv
<1>2. source[id].edits \in 0..MaxEdits /\ source[id].deleted \in BOOLEAN
  BY <1>1 DEF Versions
<1>3. UNCHANGED <<readings, library, apply, ledgerFile>> /\ ~source[id].deleted
  BY DEF Edit, Delete
<1>4. /\ source' \in [Ids -> Versions]
      /\ \A i \in Ids \ {id} : source'[i] = source[i]
      /\ \/ /\ source'[id].edits = source[id].edits + 1
            /\ source'[id].deleted = source[id].deleted
         \/ source'[id].edits = source[id].edits /\ source'[id].deleted = TRUE
  <2>1. CASE Edit(id)
    <3>1. source' = [source EXCEPT ![id].edits = @ + 1] /\ source[id].edits < MaxEdits
      BY <2>1 DEF Edit
    <3>2. [source[id] EXCEPT !.edits = source[id].edits + 1] \in Versions
      BY <1>1, <1>2, <3>1 DEF Versions
    <3>3. source'[id] = [source[id] EXCEPT !.edits = source[id].edits + 1]
      BY <1>1, <3>1
    <3>4. source'[id].edits = source[id].edits + 1 /\ source'[id].deleted = source[id].deleted
      BY <1>1, <3>3 DEF Versions
    <3> QED BY <1>1, <3>1, <3>2, <3>4
  <2>2. CASE Delete(id)
    <3>1. source' = [source EXCEPT ![id].deleted = TRUE]
      BY <2>2 DEF Delete
    <3>2. [source[id] EXCEPT !.deleted = TRUE] \in Versions
      BY <1>1, <1>2 DEF Versions
    <3>3. source'[id] = [source[id] EXCEPT !.deleted = TRUE]
      BY <1>1, <3>1
    <3>4. source'[id].edits = source[id].edits /\ source'[id].deleted = TRUE
      BY <1>1, <3>3 DEF Versions
    <3> QED BY <1>1, <3>1, <3>2, <3>4
  <2> QED BY <2>1, <2>2
<1>5. Moves
  <2>1. \A i \in Ids : source[i].edits \in Int
    BY <1>1 DEF Versions
  <2> QED BY <1>1, <1>2, <1>3, <1>4, <2>1 DEF Moves
<1>7. LibraryFits(library)'
  BY <1>3, <1>5, FitsThoughMoved DEF AdoptionInv
<1>8. \A u \in readings' : UnitFits(u)'
  BY <1>3, <1>5, UnitsThoughMoved DEF AdoptionInv
<1>9. Grown
  BY <1>3 DEF Grown, AdoptionInv, LibraryFits, LibraryShape
<1>10. ApplyFits' /\ LedgerFits'
  BY <1>3, <1>9, ApplyStays, LedgerStays DEF AdoptionInv
<1> QED BY <1>4, <1>7, <1>8, <1>10 DEF AdoptionInv

LEMMA ReadKeepsFit ==
  ASSUME AdoptionInv, NEW w \in DOMAIN Windows, Read(w)
  PROVE  AdoptionInv'
<1>1. PICK dating \in Datings, unknown \in SUBSET (Windows[w] \cap Doubtful),
           redescribed \in SUBSET (Windows[w] \cap Changing) :
        readings' = readings \cup {ReadingOf(w, dating, unknown, redescribed)}
  BY DEF Read
<1>2. UNCHANGED <<source, library, apply, ledgerFile>>
  BY DEF Read
<1>3. UnitFits(ReadingOf(w, dating, unknown, redescribed))
  BY ReadingFits DEF AdoptionInv
<1>4. PICK unit : unit = ReadingOf(w, dating, unknown, redescribed)
  OBVIOUS
<1>5. readings' = readings \cup {unit} /\ UnitFits(unit)
  BY <1>1, <1>3, <1>4
<1>6. \A u : UnitFits(u)' <=> UnitFits(u)
  BY <1>2 DEF UnitFits, Seen
<1>7. \A u \in readings' : UnitFits(u)'
  BY <1>5, <1>6 DEF AdoptionInv
<1>8. LibraryFits(library)' /\ Grown
  BY <1>2, <1>5, NoImport
<1>9. ApplyFits' /\ LedgerFits'
  BY <1>2, <1>8, ApplyStays, LedgerStays DEF AdoptionInv
<1>10. source' \in [Ids -> Versions]
  BY <1>2 DEF AdoptionInv
<1> QED BY <1>7, <1>8, <1>9, <1>10 DEF AdoptionInv

LEMMA DirectImportFits ==
  ASSUME AdoptionInv, NEW unit \in readings, DirectImport(unit)
  PROVE  AdoptionInv' /\ LibraryMoves
<1>1. PICK batch : batch = CaptureBatchFromNative(unit)
  OBVIOUS
<1>2. ~Stale(library, <<batch>>) /\ library' = Imported(library, <<batch>>)
  BY <1>1 DEF DirectImport
<1>3. UNCHANGED <<source, readings, apply, ledgerFile>>
  BY DEF DirectImport
<1>4. Importable(<<batch>>)
  <2>1. Records(batch)
    BY <1>1, UnitIsCaptured DEF AdoptionInv
  <2> QED BY <2>1 DEF Importable
<1>5. LibraryFits(library)' /\ Grown /\ LibraryMoves
  BY <1>2, <1>3, <1>4, ImportStep
<1>6. \A u \in readings' : UnitFits(u)'
  BY <1>3, UnitsStay DEF AdoptionInv
<1>7. ApplyFits' /\ LedgerFits'
  BY <1>3, <1>5, ApplyStays, LedgerStays DEF AdoptionInv
<1>8. source' \in [Ids -> Versions]
  BY <1>3 DEF AdoptionInv
<1> QED BY <1>5, <1>6, <1>7, <1>8 DEF AdoptionInv

\* Apply.
LEMMA PhaseSet ==
  ASSUME ApplyShape, NEW p, NEW ledger, ledger = apply.ledger,
         apply' = [apply EXCEPT !.phase = p]
  PROVE  apply'.phase = p /\ apply'.ledger = ledger /\ ApplyShape' /\ apply' # Idle
<1>1. /\ DOMAIN apply = {"phase", "ledger"}
      /\ apply.ledger = [state |-> apply.ledger.state, envelope |-> apply.ledger.envelope,
                         before |-> apply.ledger.before, after |-> apply.ledger.after]
  BY DEF ApplyShape
<1>2. apply'.phase = p /\ apply'.ledger = apply.ledger /\ DOMAIN apply' = {"phase", "ledger"}
  BY <1>1
<1>3. apply' = [phase |-> apply'.phase, ledger |-> apply'.ledger]
  BY <1>1
<1>4. apply' # Idle
  <2>1. DOMAIN Idle = {"phase"}
    BY DEF Idle
  <2> QED BY <1>2, <2>1
<1>5. ApplyShape'
  BY <1>1, <1>2, <1>3 DEF ApplyShape
<1> QED BY <1>2, <1>4, <1>5

\* What changes in an adoption under way is its place.
LEMMA PlaceFits ==
  ASSUME ApplyFits, apply # Idle, NEW p \in {"readback", "status", "failing"},
         apply.phase # "complete",
         apply' = [apply EXCEPT !.phase = p], Grown,
         NEW e, e = apply.ledger.envelope, p # "failing" => Adopted(e)'
  PROVE  ApplyFits'
<1>2. PICK ledger : ledger = apply.ledger
  OBVIOUS
<1>3. apply'.phase = p /\ apply'.ledger = ledger /\ ApplyShape'
  BY <1>2, PhaseSet DEF ApplyFits
<1>1. apply'.ledger.envelope = e
  BY <1>2, <1>3
<1>4. EnvelopeFits(e)'
  BY EnvelopeStays DEF ApplyFits
<1>5. EnvelopeFits(apply.ledger.envelope)'
  BY <1>1, <1>4 DEF EnvelopeFits
<1>6. Adopted(e)' => Adopted(apply.ledger.envelope)'
  BY <1>1 DEF Adopted
<1>7. /\ ledger.before \in Nat /\ ledger.before <= library'.revision
      /\ ledger.state = "recovering"
  BY <1>2 DEF ApplyFits, Grown
<1>8. /\ apply'.phase \in {"import", "readback", "status", "complete", "failing"}
      /\ apply'.phase \notin {"import", "complete"}
      /\ apply'.phase \in {"readback", "status", "complete"} => p # "failing"
  BY <1>3
<1>9. apply'.phase \in {"readback", "status", "complete"} => Adopted(apply.ledger.envelope)'
  BY <1>6, <1>8
<1>10. /\ apply'.ledger.before \in Nat /\ apply'.ledger.before <= library'.revision
       /\ apply'.ledger.state = "recovering"
  BY <1>3, <1>7
<1> QED BY <1>3, <1>5, <1>8, <1>9, <1>10 DEF ApplyFits

LEMMA BeginFits ==
  ASSUME AdoptionInv, NEW e \in Envelopes, ApplyBegin(e)
  PROVE  AdoptionInv'
<1> DEFINE begun == [state |-> "recovering", envelope |-> e,
                     before |-> library.revision, after |-> library.revision]
<1>1. UNCHANGED <<source, readings, library>>
  BY DEF ApplyBegin
<1>2. LibraryFits(library)' /\ Grown
  BY <1>1, NoImport
<1>3. (\A u \in readings' : UnitFits(u)') /\ source' \in [Ids -> Versions]
  BY <1>1, UnitsStay DEF AdoptionInv
<1>4. EnvelopeFits(e)'
  <2>1. EnvelopeFits(e)
    BY DEF Envelopes, EnvelopeFits
  <2> QED BY <1>2, <2>1, EnvelopeStays
<1>5. \/ /\ ledgerFile' = begun
         /\ apply' = [ledger |-> begun,
                      phase |-> IF ~Reconciled(e) THEN "failing"
                                ELSE IF Captures(e) = <<>> THEN "status" ELSE "import"]
      \/ apply' = Idle /\ ledgerFile' \in {ledgerFile, begun}
  BY DEF ApplyBegin, SaveLedger, SaveLedgerFails
<1>6. LedgerFits'
  <2>1. CASE ledgerFile' = ledgerFile
    BY <1>2, <2>1, LedgerStays DEF AdoptionInv
  <2>2. CASE ledgerFile' = begun
    <3>1. ledgerFile'.state = "recovering"
      BY <2>2
    <3> QED BY <3>1 DEF LedgerFits
  <2> QED BY <1>5, <2>1, <2>2
<1>7. ApplyFits'
  <2>1. CASE apply' = Idle
    BY <2>1 DEF ApplyFits, Idle
  <2>2. CASE apply' # Idle
    <3> DEFINE p == IF ~Reconciled(e) THEN "failing"
                    ELSE IF Captures(e) = <<>> THEN "status" ELSE "import"
    <3>1. apply' = [ledger |-> begun, phase |-> p]
      BY <1>5, <2>2
    <3>2. p \in {"import", "status", "failing"}
          /\ (p = "import" => OverlapsAgree(e) /\ Captures(e) # <<>>)
          /\ (p = "status" => Captures(e) = <<>>)
      BY DEF Reconciled
    <3> HIDE DEF p
    <3>3. /\ apply'.phase = p /\ apply'.ledger.envelope = e
          /\ apply'.ledger.state = "recovering" /\ apply'.ledger.before = library.revision
      BY <3>1
    <3>4. ApplyShape'
      BY <3>1 DEF ApplyShape
    <3>5. library.revision \in Nat /\ library.revision <= library'.revision
      BY <1>2 DEF Grown
    <3>6. p = "status" => Adopted(e)'
      BY <3>2 DEF Adopted
    <3>7. p \in {"readback", "status", "complete"} => p = "status"
      BY <3>2
    <3>8. p # "complete" /\ p \in {"import", "readback", "status", "complete", "failing"}
      BY <3>2
    <3>9. EnvelopeFits(apply.ledger.envelope)'
      BY <1>4, <3>3 DEF EnvelopeFits
    <3>10. apply'.phase \in {"readback", "status", "complete"} => Adopted(apply.ledger.envelope)'
      BY <3>3, <3>6, <3>7 DEF Adopted
    <3>11. apply'.phase = "import" => OverlapsAgree(apply'.ledger.envelope)
                                      /\ Captures(apply'.ledger.envelope) # <<>>
      BY <3>2, <3>3
    <3>12. /\ apply'.ledger.before \in Nat /\ apply'.ledger.before <= library'.revision
           /\ apply'.ledger.state = "recovering" /\ apply'.phase # "complete"
           /\ apply'.phase \in {"import", "readback", "status", "complete", "failing"}
      BY <1>1, <3>3, <3>5, <3>8
    <3> QED BY <3>4, <3>9, <3>10, <3>11, <3>12 DEF ApplyFits
  <2> QED BY <2>1, <2>2
<1> QED BY <1>2, <1>3, <1>6, <1>7 DEF AdoptionInv

LEMMA ApplyImportFits ==
  ASSUME AdoptionInv, ApplyImport
  PROVE  AdoptionInv' /\ (library' = library \/ LibraryMoves)
<1>1. UNCHANGED <<source, readings, ledgerFile>> /\ apply.phase = "import" /\ apply # Idle
  BY DEF ApplyImport, Idle
<1>2. PICK e : e = apply.ledger.envelope
  OBVIOUS
<1>3. PICK batches : batches = Captures(e)
  OBVIOUS
<1>4. Importable(batches)
  BY <1>1, <1>2, <1>3, EnvelopeImports DEF AdoptionInv, ApplyFits
<1>5. (\A u \in readings' : UnitFits(u)') /\ source' \in [Ids -> Versions]
  BY <1>1, UnitsStay DEF AdoptionInv
<1>6. \/ /\ ~Stale(library, batches) /\ library' = Imported(library, batches)
         /\ apply' = [apply EXCEPT !.phase = "readback"]
      \/ /\ \/ library' = library
            \/ ~Stale(library, batches) /\ library' = Imported(library, batches)
         /\ apply' = [apply EXCEPT !.phase = "failing"]
  BY <1>2, <1>3 DEF ApplyImport
<1>7. CASE library' = library /\ apply' = [apply EXCEPT !.phase = "failing"]
  <2>1. LibraryFits(library)' /\ Grown
    BY <1>1, <1>7, NoImport
  <2>2. ApplyFits'
    BY <1>1, <1>2, <1>7, <2>1, PlaceFits DEF AdoptionInv
  <2>3. LedgerFits'
    BY <1>1, <2>1, LedgerStays DEF AdoptionInv
  <2> QED BY <1>5, <1>7, <2>1, <2>2, <2>3 DEF AdoptionInv
<1>8. CASE /\ ~Stale(library, batches) /\ library' = Imported(library, batches)
           /\ apply' = [apply EXCEPT !.phase = "readback"]
              \/ apply' = [apply EXCEPT !.phase = "failing"]
  <2>1. LibraryFits(library)' /\ Grown /\ LibraryMoves
        /\ \A i \in DOMAIN batches : batches[i] \in library'.imports
    BY <1>1, <1>4, <1>8, ImportStep
  <2>2. Adopted(e)'
    BY <1>3, <2>1 DEF Adopted
  <2>3. ApplyFits'
    BY <1>1, <1>2, <1>8, <2>1, <2>2, PlaceFits DEF AdoptionInv
  <2>4. LedgerFits'
    BY <1>1, <2>1, LedgerStays DEF AdoptionInv
  <2> QED BY <1>5, <2>1, <2>3, <2>4 DEF AdoptionInv
<1> QED BY <1>6, <1>7, <1>8

\* Without an import.
LEMMA ApplyRestFits ==
  ASSUME AdoptionInv, ApplyReadback \/ ApplyStatus \/ ApplyComplete \/ ApplyFail \/ AdoptionCrash
  PROVE  AdoptionInv'
<1>1. UNCHANGED <<source, readings, library>>
  BY DEF ApplyReadback, ApplyStatus, ApplyComplete, ApplyFail, AdoptionCrash
<1>2. LibraryFits(library)' /\ Grown
  BY <1>1, NoImport
<1>3. (\A u \in readings' : UnitFits(u)') /\ source' \in [Ids -> Versions]
  BY <1>1, UnitsStay DEF AdoptionInv
<1>4. PICK e : e = apply.ledger.envelope
  OBVIOUS
<1>5. apply' = Idle => ApplyFits'
  BY DEF ApplyFits, Idle
<1>6. ledgerFile' = ledgerFile => LedgerFits'
  BY <1>2, LedgerStays DEF AdoptionInv
<1>7. ledgerFile'.state = "incomplete" => LedgerFits'
  BY DEF LedgerFits
<1>8. PICK ledger : ledger = apply.ledger
  OBVIOUS
<1>9. Adopted(e) => Adopted(e)'
  BY <1>1 DEF Adopted
<1>10. ASSUME apply # Idle, apply.phase # "complete", NEW p \in {"readback", "status", "failing"},
              apply' = [apply EXCEPT !.phase = p], p # "failing" => Adopted(e)
       PROVE  ApplyFits'
  BY <1>2, <1>4, <1>9, <1>10, PlaceFits DEF AdoptionInv
<1>11. CASE ApplyReadback
  <2>1. apply.phase = "readback" /\ apply # Idle /\ ledgerFile' = ledgerFile
    BY <1>11 DEF ApplyReadback, Idle
  <2>2. Adopted(e)
    BY <1>4, <2>1 DEF AdoptionInv, ApplyFits
  <2>3. \E p \in {"status", "failing"} : apply' = [apply EXCEPT !.phase = p]
    BY <1>11 DEF ApplyReadback
  <2>4. ApplyFits'
    BY <1>10, <2>1, <2>2, <2>3
  <2> QED BY <1>2, <1>3, <1>6, <2>1, <2>4 DEF AdoptionInv
<1>12. CASE ApplyStatus
  <2>1. apply.phase = "status" /\ apply # Idle /\ ledgerFile' = ledgerFile
    BY <1>12 DEF ApplyStatus, Idle
  <2>2. Adopted(e) /\ EnvelopeFits(e)
    BY <1>4, <2>1 DEF AdoptionInv, ApplyFits
  <2>3. CASE apply' = [apply EXCEPT !.phase = "failing"]
    <3>1. ApplyFits'
      BY <1>10, <2>1, <2>2, <2>3
    <3> QED BY <1>2, <1>3, <1>6, <2>1, <3>1 DEF AdoptionInv
  <2>4. CASE apply' = [phase |-> "complete",
                       ledger |-> [ledger EXCEPT !.state = "complete", !.after = library.revision]]
    <3>1. ledger = [state |-> ledger.state, envelope |-> e,
                    before |-> ledger.before, after |-> ledger.after]
          /\ ledger.before \in Nat /\ ledger.before <= library.revision
      BY <1>4, <1>8, <2>1 DEF AdoptionInv, ApplyFits, ApplyShape
    <3>2. library.revision \in Nat /\ library'.revision = library.revision
      BY <1>1, <1>2 DEF Grown
    <3>3. [ledger EXCEPT !.state = "complete", !.after = library.revision] =
            [state |-> "complete", envelope |-> e, before |-> ledger.before,
             after |-> library.revision]
      <4>1. PICK s, b, a : ledger = [state |-> s, envelope |-> e, before |-> b, after |-> a]
        BY <3>1
      <4>2. ledger.before = b
        BY <4>1
      <4>3. \A x, d : d = [state |-> "complete", envelope |-> e, before |-> b, after |-> a] =>
              [d EXCEPT !.after = x] =
                [state |-> "complete", envelope |-> e, before |-> b, after |-> x]
        OBVIOUS
      <4>4. [ledger EXCEPT !.state = "complete"] =
              [state |-> "complete", envelope |-> e, before |-> b, after |-> a]
        BY <4>1
      <4> QED BY <4>2, <4>3, <4>4, Zenon
    <3>4. apply' = [phase |-> "complete",
                    ledger |-> [state |-> "complete", envelope |-> e, before |-> ledger.before,
                                after |-> library.revision]]
      BY <2>4, <3>3
    <3>5. /\ apply'.phase = "complete" /\ apply'.ledger.envelope = e
          /\ apply'.ledger.state = "complete" /\ apply'.ledger.before = ledger.before
          /\ apply'.ledger.after = library.revision
      BY <3>4
    <3>6. ApplyShape'
      BY <3>4 DEF ApplyShape
    <3>7. EnvelopeFits(e)'
      BY <1>2, <2>2, EnvelopeStays
    <3>8. EnvelopeFits(apply.ledger.envelope)' /\ Adopted(apply.ledger.envelope)'
      BY <1>9, <2>2, <3>5, <3>7 DEF EnvelopeFits, Adopted
    <3>9. ApplyFits'
      BY <3>1, <3>2, <3>5, <3>6, <3>8 DEF ApplyFits
    <3> QED BY <1>2, <1>3, <1>6, <2>1, <3>9 DEF AdoptionInv
  <2> QED BY <1>8, <1>12, <2>3, <2>4 DEF ApplyStatus
<1>13. CASE ApplyComplete
  <2>1. apply.phase = "complete" /\ apply # Idle /\ apply' = Idle
    BY <1>13 DEF ApplyComplete, Idle
  <2>2. ledgerFile' = ledgerFile \/ ledgerFile' = ledger
    BY <1>8, <1>13 DEF ApplyComplete, SaveLedgerFails
  <2>3. ledgerFile' = ledger => LedgerFits'
    <3>1. /\ EnvelopeFits(e) /\ Adopted(e) /\ ledger.before \in Nat /\ ledger.after \in Nat
          /\ ledger.before <= ledger.after /\ ledger.after <= library.revision
          /\ ledger.state = "complete" /\ ledger.envelope = e
      BY <1>4, <1>8, <2>1 DEF AdoptionInv, ApplyFits
    <3>2. EnvelopeFits(e)' /\ Adopted(e)'
      BY <1>2, <1>9, <3>1, EnvelopeStays
    <3>3. SUFFICES ASSUME ledgerFile' = ledger PROVE LedgerFits'
      OBVIOUS
    <3>4. EnvelopeFits(ledgerFile.envelope)' /\ Adopted(ledgerFile.envelope)'
      BY <3>1, <3>2, <3>3 DEF EnvelopeFits, Adopted
    <3> QED BY <1>1, <3>1, <3>3, <3>4 DEF LedgerFits
  <2> QED BY <1>2, <1>3, <1>5, <1>6, <2>1, <2>2, <2>3 DEF AdoptionInv
<1>14. CASE ApplyFail
  <2>1. apply.phase = "failing" /\ apply # Idle /\ apply' = Idle
    BY <1>14 DEF ApplyFail, Idle
  <2>2. ledgerFile' = ledgerFile \/ ledgerFile' = [NoAdoption EXCEPT !.state = "incomplete"]
    BY <1>14 DEF ApplyFail, SaveLedger, SaveLedgerFails
  <2>3. [NoAdoption EXCEPT !.state = "incomplete"].state = "incomplete"
    BY DEF NoAdoption
  <2> QED BY <1>2, <1>3, <1>5, <1>6, <1>7, <2>1, <2>2, <2>3 DEF AdoptionInv
<1>15. CASE AdoptionCrash
  <2>1. apply' = Idle /\ ledgerFile' = ledgerFile
    BY <1>15 DEF AdoptionCrash
  <2> QED BY <1>2, <1>3, <1>5, <1>6, <2>1 DEF AdoptionInv
<1> QED BY <1>11, <1>12, <1>13, <1>14, <1>15

\* All of them together.
LEMMA StepFits ==
  ASSUME AdoptionInv, [AdoptionNext]_adoptionVars
  PROVE  AdoptionInv' /\ (library' = library \/ LibraryMoves)
<1>1. CASE \E id \in Changing : Edit(id) \/ Delete(id)
  <2>1. PICK id \in Changing : Edit(id) \/ Delete(id)
    BY <1>1
  <2>2. id \in Ids
    BY IngestionAssumption
  <2>3. library' = library
    BY <2>1 DEF Edit, Delete
  <2> QED BY <2>1, <2>2, <2>3, SlackMoves
<1>2. CASE \E w \in DOMAIN Windows : Read(w)
  BY <1>2, ReadKeepsFit DEF Read
<1>3. CASE \E unit \in readings : DirectImport(unit)
  BY <1>3, DirectImportFits
<1>4. CASE \E e \in Envelopes : ApplyBegin(e)
  BY <1>4, BeginFits DEF ApplyBegin
<1>5. CASE ApplyImport
  BY <1>5, ApplyImportFits
<1>6. CASE ApplyReadback \/ ApplyStatus \/ ApplyComplete \/ ApplyFail \/ AdoptionCrash
  <2>1. library' = library
    BY <1>6 DEF ApplyReadback, ApplyStatus, ApplyComplete, ApplyFail, AdoptionCrash
  <2> QED BY <1>6, <2>1, ApplyRestFits
<1>7. CASE UNCHANGED adoptionVars
  <2>1. UNCHANGED <<source, readings, library, apply, ledgerFile>>
    BY <1>7 DEF adoptionVars
  <2>2. LibraryFits(library)' /\ Grown
    BY <2>1, NoImport
  <2>3. (\A u \in readings' : UnitFits(u)') /\ source' \in [Ids -> Versions]
    BY <2>1, UnitsStay DEF AdoptionInv
  <2>4. ApplyFits' /\ LedgerFits'
    BY <2>1, <2>2, ApplyStays, LedgerStays DEF AdoptionInv
  <2> QED BY <2>1, <2>2, <2>3, <2>4 DEF AdoptionInv
<1> QED BY <1>1, <1>2, <1>3, <1>4, <1>5, <1>6, <1>7 DEF AdoptionNext, ApplyStep

\* Every reachable state of the adoption satisfies the invariant: records hold what
\* was to be seen, and every imported batch left its records or what follows them
\* (personalmemory/repository.go, ingestioncontroller/controller.go).
THEOREM AdoptionInvariant ==
  AdoptionSpec => []AdoptionInv
<1>1. AdoptionInv /\ [AdoptionNext]_adoptionVars => AdoptionInv'
  BY StepFits
<1> QED BY InitFits, <1>1, PTL DEF AdoptionSpec

\* An envelope has two batches at most.
LEMMA EnvelopeHasTwo ==
  ASSUME NEW e, EnvelopeFits(e)
  PROVE  \E n \in {0, 1, 2} : DOMAIN Captures(e) = 1..n
<1>1. \A b : DOMAIN <<b>> = 1..1
  OBVIOUS
<1>2. \A a, b : DOMAIN <<a, b>> = 1..2
  OBVIOUS
<1>3. DOMAIN <<>> = 1..0
  OBVIOUS
<1>4. ASSUME NEW u \in readings, e = <<u>>
      PROVE  \E n \in {0, 1, 2} : DOMAIN Captures(e) = 1..n
  <2>1. Captures(e) = <<>> \/ \E b : Captures(e) = Append(<<>>, b)
    BY <1>4, CapturesOne DEF WithCapture
  <2>2. \A b : Append(<<>>, b) = <<b>>
    OBVIOUS
  <2> QED BY <1>1, <1>3, <2>1, <2>2
<1>5. ASSUME NEW u \in readings, NEW v \in readings, e = <<u, v>>
      PROVE  \E n \in {0, 1, 2} : DOMAIN Captures(e) = 1..n
  <2>1. Captures(e) = WithCapture(WithCapture(<<>>, u), v)
    BY <1>5, CapturesTwo
  <2>2. \A s : WithCapture(s, u) = s \/ \E b : WithCapture(s, u) = Append(s, b)
    BY DEF WithCapture
  <2>3. \A s : WithCapture(s, v) = s \/ \E b : WithCapture(s, v) = Append(s, b)
    BY DEF WithCapture
  <2>4. \A b : Append(<<>>, b) = <<b>>
    OBVIOUS
  <2>5. CASE WithCapture(<<>>, u) = <<>>
    <3>1. Captures(e) = <<>> \/ \E b : Captures(e) = <<b>>
      BY <2>1, <2>3, <2>4, <2>5
    <3> QED BY <1>1, <1>3, <3>1
  <2>6. CASE WithCapture(<<>>, u) # <<>>
    <3>1. PICK b : WithCapture(<<>>, u) = <<b>>
      BY <2>2, <2>4, <2>6
    <3>2. CASE Captures(e) = <<b>>
      BY <1>1, <3>2
    <3>3. CASE Captures(e) # <<b>>
      <4>1. PICK c : Captures(e) = Append(<<b>>, c)
        BY <2>1, <2>3, <3>1, <3>3
      <4>2. Append(<<b>>, c) = <<b, c>>
        BY AppendToOne, Zenon
      <4> QED BY <1>2, <4>1, <4>2
    <3> QED BY <3>2, <3>3
  <2> QED BY <2>5, <2>6
<1> QED BY <1>4, <1>5 DEF EnvelopeFits

-----------------------------------------------------------------------------
(* The theorems.                                                           *)

LEMMA ShapesFit ==
  AdoptionInv => AdoptionTypeOK
<1> SUFFICES ASSUME AdoptionInv PROVE AdoptionTypeOK
  OBVIOUS
<1>1. apply.phase \in {"idle", "import", "readback", "status", "complete", "failing"}
  BY DEF AdoptionInv, ApplyFits, Idle
<1> QED BY <1>1 DEF AdoptionInv, LibraryFits, LibraryShape, LedgerFits, AdoptionTypeOK

\* Every file and process keeps its shape.
THEOREM AdoptionTypes ==
  AdoptionSpec => []AdoptionTypeOK
BY AdoptionInvariant, ShapesFit, PTL

LEMMA MovesForward ==
  ASSUME AdoptionInv, library' = library \/ LibraryMoves, NEW id \in Ids
  PROVE  /\ library.current[id] # Absent =>
              library'.current[id] # Absent /\ NotOlder(library.current[id], library'.current[id])
         /\ ({library.current[id]} \cup library.history[id]) \ {Absent}
              \subseteq {library'.current[id]} \cup library'.history[id]
<1>1. library.current[id] # Absent => Recorded(id, library.current[id])
  BY DEF AdoptionInv, LibraryFits, Holding
<1>2. CASE library' = library
  <2>1. library.current[id] # Absent => NotOlder(library.current[id], library.current[id])
    BY <1>1, FollowsItself, FollowerIsNotOlder DEF AdoptionInv
  <2> QED BY <1>2, <2>1
<1>3. CASE LibraryMoves
  <2>1. PICK lib, next, batches :
          lib = library /\ next = library' /\ ImportMoves(lib, next, batches)
    BY <1>3 DEF LibraryMoves
  <2>2. RecordMoves(lib, next, id)
    BY <2>1 DEF ImportMoves
  <2>3. lib.current[id] # Absent =>
          next.current[id] # Absent /\ NotOlder(lib.current[id], next.current[id])
    <3>1. SUFFICES ASSUME lib.current[id] # Absent
                   PROVE  next.current[id] # Absent /\ NotOlder(lib.current[id], next.current[id])
      OBVIOUS
    <3>2. /\ Recorded(id, lib.current[id]) /\ Recorded(id, next.current[id])
          /\ next.current[id] # Absent /\ Succeeds(lib.current[id], next.current[id])
      BY <1>1, <2>1, <2>2, <3>1 DEF RecordMoves
    <3>3. Follows(lib.current[id], next.current[id])
      BY <3>2, SuccessorFollows
    <3> QED BY <3>2, <3>3, FollowerIsNotOlder DEF AdoptionInv
  <2>4. ({lib.current[id]} \cup lib.history[id]) \ {Absent}
          \subseteq {next.current[id]} \cup next.history[id]
    BY <2>2 DEF RecordMoves
  <2> QED BY <2>1, <2>3, <2>4
<1> QED BY <1>2, <1>3

\* A capture never goes back, whatever is imported in whatever order.
THEOREM CapturesGoForward ==
  AdoptionSpec => CapturesNeverGoBack
<1>1. AdoptionInv /\ [AdoptionNext]_adoptionVars =>
        [\A id \in Ids : library.current[id] # Absent =>
            /\ library'.current[id] # Absent
            /\ NotOlder(library.current[id], library'.current[id])]_library
  BY StepFits, MovesForward
<1> QED BY AdoptionInvariant, <1>1, PTL DEF AdoptionSpec, CapturesNeverGoBack

\* Every content a record has had is kept.
THEOREM HistoryStays ==
  AdoptionSpec => HistoryIsKept
<1>1. AdoptionInv /\ [AdoptionNext]_adoptionVars =>
        [\A id \in Ids : ({library.current[id]} \cup library.history[id]) \ {Absent}
            \subseteq {library'.current[id]} \cup library'.history[id]]_library
  BY StepFits, MovesForward
<1> QED BY AdoptionInvariant, <1>1, PTL DEF AdoptionSpec, HistoryIsKept

LEMMA CompleteHeld ==
  ASSUME AdoptionInv
  PROVE  CompleteIsHeld
<1> SUFFICES ASSUME ledgerFile.state = "complete" PROVE CompleteIsHeld
  BY DEF CompleteIsHeld
<1>1. PICK e : e = ledgerFile.envelope
  OBVIOUS
<1>2. PICK batches : batches = Captures(e)
  OBVIOUS
<1>3. \A i \in DOMAIN batches : Holds(library, batches[i])
  BY <1>1, <1>2 DEF AdoptionInv, LedgerFits, Adopted, LibraryFits
<1>4. CapturesCurrent(library, batches)
  BY <1>3 DEF CapturesCurrent, Holds
<1>5. ASSUME NEW i \in DOMAIN batches, NEW id \in DOMAIN batches[i].records
      PROVE  NotOlder(batches[i].records[id], library.current[id])
  <2>1. /\ id \in Ids /\ library.current[id] # Absent
        /\ batches[i].records[id] \in {library.current[id]} \cup library.history[id]
        /\ Follows(batches[i].records[id], library.current[id])
    BY <1>3 DEF Holds
  <2>2. Recorded(id, batches[i].records[id]) /\ Recorded(id, library.current[id])
    BY <2>1 DEF AdoptionInv, LibraryFits, Holding
  <2> QED BY <2>1, <2>2, FollowerIsNotOlder DEF AdoptionInv
<1>6. \A id \in UNION {DOMAIN batches[i].records : i \in DOMAIN batches} :
        LastWith(batches, id) \in DOMAIN batches
        /\ id \in DOMAIN batches[LastWith(batches, id)].records
  <2>1. \E n \in {0, 1, 2} : DOMAIN batches = 1..n
    BY <1>1, <1>2, EnvelopeHasTwo DEF AdoptionInv, LedgerFits
  <2>2. TAKE id \in UNION {DOMAIN batches[i].records : i \in DOMAIN batches}
  <2>3. \E i \in DOMAIN batches : id \in DOMAIN batches[i].records
    OBVIOUS
  <2>4. \E i \in DOMAIN batches :
          /\ id \in DOMAIN batches[i].records
          /\ \A j \in DOMAIN batches : id \in DOMAIN batches[j].records => j <= i
    <3>1. CASE 2 \in DOMAIN batches /\ id \in DOMAIN batches[2].records
      BY <2>1, <3>1
    <3>2. CASE ~(2 \in DOMAIN batches /\ id \in DOMAIN batches[2].records)
      <4>1. \A i \in DOMAIN batches : id \in DOMAIN batches[i].records => i = 1
        BY <2>1, <3>2
      <4> QED BY <2>3, <4>1
    <3> QED BY <3>1, <3>2
  <2> QED BY <2>4 DEF LastWith
<1>7. ledgerFile.before <= ledgerFile.after /\ ledgerFile.after <= library.revision
  BY DEF AdoptionInv, LedgerFits
<1> QED BY <1>1, <1>2, <1>4, <1>5, <1>6, <1>7 DEF CompleteIsHeld

\* A complete ledger is right about the library, whatever else is imported
\* (ingestioncontroller/controller.go).
THEOREM CompleteAdoptionsAreHeld ==
  AdoptionSpec => []CompleteIsHeld
<1>1. AdoptionInv => CompleteIsHeld
  BY CompleteHeld
<1> QED BY AdoptionInvariant, <1>1, PTL

\* What is news to a record none of its contents has told: none is followed by it
\* and none is in its history.
LEMMA NewsIsNew ==
  ASSUME LibraryFits(library), NEW id \in Ids, NEW next, Recorded(id, next),
         IsNews(library.current[id], next), library.current[id] # next
  PROVE  /\ next \notin library.history[id]
         /\ library.current[id] # Absent =>
              /\ ~ConflictingEdit(library.current[id], next)
              /\ ~(library.current[id].state = "edited" /\ next.state = "original")
              /\ ~Resurrects(library.current[id], next)
<1>1. PICK c : c = library.current[id]
  OBVIOUS
<1>2. CASE c = Absent
  BY <1>1, <1>2 DEF LibraryFits, Holding
<1>3. CASE c # Absent
  <2>1. Recorded(id, c)
    BY <1>1, <1>3 DEF LibraryFits, Holding
  <2>2. /\ c.state \in States /\ next.state \in States
        /\ c.revAt \in Int /\ next.revAt \in Int /\ c.revAt >= 0
    BY <2>1, IngestionAssumption DEF Recorded, Contents
  <2>3. \/ Rank[c.state] < Rank[next.state]
        \/ /\ c.state = "edited" /\ next.state = "edited"
           /\ 0 < c.revAt /\ c.revAt < next.revAt
    BY <1>1, <1>3 DEF IsNews
  <2>4. ~Follows(next, c)
    BY <2>2, <2>3, Ranks DEF Follows, States
  <2>5. next \notin library.history[id]
    BY <1>1, <2>4 DEF LibraryFits, Holding
  <2>6. ~ConflictingEdit(c, next)
    BY <2>2, <2>3, Ranks DEF ConflictingEdit, NewerRevision
  <2>7. ~(c.state = "edited" /\ next.state = "original")
    BY <2>2, <2>3, Ranks
  <2>8. ~Resurrects(c, next)
    BY <2>2, <2>3, Ranks DEF Resurrects, IsDeletedCapture, States
  <2> QED BY <1>1, <2>5, <2>6, <2>7, <2>8
<1> QED BY <1>2, <1>3

LEMMA NewsAccepted ==
  ASSUME AdoptionInv
  PROVE  NewsIsAccepted
<1>1. SUFFICES ASSUME NEW u \in readings, NEW batch, batch = CaptureBatchForAdoption(u),
                      \A id \in DOMAIN batch.records :
                        IsNews(library.current[id], batch.records[id]),
                      Stale(library, <<batch>>)
               PROVE  FALSE
  BY DEF NewsIsAccepted
<1>2. PICK batches : batches = <<batch>>
  OBVIOUS
<1>3. PICK id \in EnvelopeKeys(library, batches) :
        LET prior == library.current[id]
            final == FinalContent(library, batches)[id]
        IN  /\ prior # final
            /\ \/ batches[LastWith(batches, id)] \in library.imports
               \/ /\ prior # Absent
                  /\ \/ final \in library.history[id]
                     \/ ConflictingEdit(prior, final)
                     \/ prior.state = "edited" /\ final.state = "original"
                     \/ Resurrects(prior, final)
  BY <1>1, <1>2 DEF Stale
<1>4. id \in DOMAIN batch.records /\ batch \notin library.imports
      /\ FinalContent(library, batches)[id] = batch.records[id]
  BY <1>2, <1>3, FinalOfOne
<1>5. batches[LastWith(batches, id)] = batch
  <2>1. DOMAIN batches = {1} /\ batches[1] = batch
    BY <1>2
  <2>2. LastWith(batches, id) = 1
    BY <1>4, <2>1 DEF LastWith
  <2> QED BY <2>1, <2>2
<1>6. id \in Ids /\ Recorded(id, batch.records[id])
  <2>1. Records(batch)
    BY <1>1, UnitIsCaptured DEF AdoptionInv
  <2> QED BY <1>4, <2>1 DEF Records
<1>7. PICK next : next = batch.records[id]
  OBVIOUS
<1>8. library.current[id] # next /\ IsNews(library.current[id], next)
  BY <1>1, <1>3, <1>4, <1>7
<1>9. /\ library.current[id] # Absent
      /\ \/ next \in library.history[id]
         \/ ConflictingEdit(library.current[id], next)
         \/ library.current[id].state = "edited" /\ next.state = "original"
         \/ Resurrects(library.current[id], next)
  BY <1>3, <1>4, <1>5, <1>7
<1> QED BY <1>6, <1>7, <1>8, <1>9, NewsIsNew DEF AdoptionInv

\* What an import refuses as stale or conflicting has nothing new to tell, whatever
\* the library has been through (personalmemory/repository.go).
THEOREM NewsIsNeverRefused ==
  AdoptionSpec => []NewsIsAccepted
<1>1. AdoptionInv => NewsIsAccepted
  BY NewsAccepted
<1> QED BY AdoptionInvariant, <1>1, PTL
=============================================================================
