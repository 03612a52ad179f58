-------------------------- MODULE RunControlProofs --------------------------
(***************************************************************************)
(* What TLAPS proves of RunControl, for any number of processes, runs and  *)
(* drafts.                                                                 *)
(*                                                                         *)
(* RunInv: a lease that is renewed is its holder's, and a process whose    *)
(* lease was taken commits at most one more authority.  Once a process has *)
(* committed under a lost lease, it owns no lease of its run and is in the *)
(* middle of no further commit.  That is inductive because a commit passes *)
(* through a renewal, which asks for the lease, and because a process that *)
(* acquires a lease again starts counting again.                           *)
(*                                                                         *)
(* DocInv: a control document is replaced only by who saw it, and its      *)
(* backup is what was current last or before.  Every document that is on   *)
(* disk or in a browser was saved under a generation of its own, so that   *)
(* equal revisions are the same document.                                  *)
(*                                                                         *)
(* WholeInv: a run is configured before it is selected, and loads unless a *)
(* commit of it was broken by another.  Its owner knows every authority    *)
(* the journal holds but the one he is about to commit, and what he works  *)
(* on fits the place of the handler he is at.                              *)
(***************************************************************************)
EXTENDS RunControl, TLAPS

AppFields == {"up", "run", "lost", "mem", "at", "task"}
TaskFields == {"goal", "target", "prior", "expected", "quoted", "domain",
               "current"}
RunFields == {"lease", "journal", "file", "clean", "leftover"}
LeaseFields == {"owner", "live", "known"}

AppTyped(a) == DOMAIN a = AppFields /\ DOMAIN a.task = TaskFields
LeaseTyped(l) == l # None => DOMAIN l = LeaseFields /\ l.owner \in Processes
RunTyped(run) == DOMAIN run = RunFields /\ LeaseTyped(run.lease)
Count == [authority : Nat, moves : Nat]

\* In the middle of a commit, after the renewal and before the append.
Committing(a) == a.at \in {"read", "append"} /\ a.task.domain # "move"
Owns(p) ==
  /\ apps[p].run \in Reserved /\ Lease(apps[p].run) # None
  /\ Lease(apps[p].run).owner = p

OneCommit(p) ==
  \/ stale[p].authority = 0
  \/ stale[p].authority = 1 /\ ~Owns(p) /\ ~Committing(apps[p])

RunInv ==
  /\ DOMAIN apps = Processes
  /\ \A p \in Processes : AppTyped(apps[p])
  /\ Reserved \subseteq RunIds
  /\ \A r \in Reserved : RunTyped(runs[r])
  /\ stale \in [Processes -> Count]
  /\ faults \in Nat
  /\ \A p \in Processes : OneCommit(p)

\* Faults are counted.
LEMMA FaultIsCounted ==
  ASSUME RunInv, Fault
  PROVE  faults' \in Nat /\ faults' # faults
BY DEF RunInv, Fault

-----------------------------------------------------------------------------
(* What a step of one process may do to the processes, the leases and the  *)
(* counts.                                                                 *)

AppsMove(p) ==
  /\ DOMAIN apps' = Processes
  /\ AppTyped(apps'[p])
  /\ \A q \in Processes \ {p} :
       /\ AppTyped(apps'[q])
       /\ apps'[q].run = apps[q].run /\ apps'[q].at = apps[q].at
       /\ apps'[q].task.domain = apps[q].task.domain

\* A lease stays, is dropped by its holder or when nobody renews it, is taken
\* when nobody renews it, or is hit by a fault.
LeaseMoves(p, r) ==
  \/ runs'[r].lease = runs[r].lease
  \/ /\ runs'[r].lease = None
     /\ \/ Holds(p, r) /\ apps'[p] # apps[p]
        \/ ~Renewing(r)
  \/ /\ runs'[r].lease.owner = p
     /\ ~Renewing(r) /\ stale'[p] = NotStale
  \/ /\ runs[r].lease # None
     /\ runs'[r].lease.owner = runs[r].lease.owner
     /\ faults' # faults

LeasesMove(p) ==
  /\ Reserved \subseteq DOMAIN runs' /\ DOMAIN runs' \subseteq RunIds
  /\ \A r \in DOMAIN runs' : RunTyped(runs'[r])
  /\ \A r \in DOMAIN runs' \ Reserved : runs'[r].lease = None
  /\ \A r \in Reserved : LeaseMoves(p, r)

\* A count starts again, stays where no commit is begun without the lease, or
\* moves with the commit that ends.
CountsMove(p) ==
  /\ stale' \in [Processes -> Count]
  /\ \A q \in Processes \ {p} : stale'[q] = stale[q]
  /\ \/ stale'[p] = NotStale
     \/ /\ stale'[p].authority = stale[p].authority
        /\ apps'[p].run = apps[p].run \/ apps'[p].run = None
        /\ Committing(apps'[p]) =>
             Committing(apps[p]) \/ Holds(p, apps[p].run)
     \/ /\ stale'[p].authority = stale[p].authority + 1
        /\ Committing(apps[p]) /\ ~Committing(apps'[p])
        /\ apps'[p].run = apps[p].run
        /\ DOMAIN runs' = Reserved /\ ~Owns(p)
        /\ \A r \in Reserved : runs'[r].lease = runs[r].lease

Moves(p) == AppsMove(p) /\ LeasesMove(p) /\ CountsMove(p)
FaultsMove == UNCHANGED faults \/ Fault

RenewedIsKept ==
  \A r \in RunIds :
    Renewing(r) /\ Lease(r)' # Lease(r) =>
      apps'[Lease(r).owner] # apps[Lease(r).owner] \/ faults' # faults

\* Such a step keeps the invariant and whatever lease is renewed.
LEMMA MovesKeep ==
  ASSUME RunInv, NEW p \in Processes, Moves(p), FaultsMove
  PROVE  RunInv' /\ RenewedIsKept
<1> USE DEF Moves
<1>1. DOMAIN apps' = Processes /\ \A q \in Processes : AppTyped(apps'[q])
  BY DEF AppsMove
<1>2. /\ DOMAIN runs' \subseteq RunIds
      /\ \A r \in DOMAIN runs' : RunTyped(runs'[r])
  BY DEF LeasesMove
<1>3. stale' \in [Processes -> Count]
  BY DEF CountsMove
<1>4. ASSUME NEW q \in Processes, q # p, Owns(q)'
      PROVE  Owns(q)
  <2>1. apps'[q].run = apps[q].run
    BY <1>4 DEF AppsMove
  <2> DEFINE r == apps[q].run
  <2>2. r \in DOMAIN runs' /\ runs'[r].lease # None /\ runs'[r].lease.owner = q
    BY <1>4, <2>1 DEF Owns, Lease, Reserved
  <2>3. r \in Reserved
    BY <2>2 DEF LeasesMove
  <2>4. LeaseMoves(p, r)
    BY <2>3 DEF LeasesMove
  <2>5. runs[r].lease # None /\ runs[r].lease.owner = q
    BY <2>2, <2>4, <1>4 DEF LeaseMoves
  <2> QED BY <2>3, <2>5 DEF Owns, Lease
<1>5. ASSUME NEW q \in Processes, q # p
      PROVE  OneCommit(q)'
  <2>1. stale'[q] = stale[q]
    BY <1>5 DEF CountsMove
  <2>2. Committing(apps'[q]) => Committing(apps[q])
    BY <1>5 DEF AppsMove, Committing
  <2>3. OneCommit(q)
    BY DEF RunInv
  <2> QED BY <1>4, <1>5, <2>1, <2>2, <2>3 DEF OneCommit
<1>6. OneCommit(p)'
  <2>1. OneCommit(p) /\ stale[p] \in Count
    BY DEF RunInv
  <2>2. CASE stale'[p] = NotStale
    BY <2>2 DEF OneCommit, NotStale
  <2>3. CASE /\ stale'[p].authority = stale[p].authority
             /\ apps'[p].run = apps[p].run \/ apps'[p].run = None
             /\ Committing(apps'[p]) => Committing(apps[p]) \/ Holds(p, apps[p].run)
             /\ stale'[p] # NotStale
    <3>1. CASE stale[p].authority = 0
      BY <2>3, <3>1 DEF OneCommit
    <3>2. CASE stale[p].authority # 0
      <4>1. stale[p].authority = 1 /\ ~Owns(p) /\ ~Committing(apps[p])
        BY <2>1, <3>2 DEF OneCommit
      <4>2. ~Holds(p, apps[p].run)
        BY <4>1 DEF Holds, Owns, Lease, Reserved
      <4>3. ~Committing(apps'[p])
        BY <2>3, <4>1, <4>2
      <4>4. ASSUME Owns(p)' PROVE FALSE
        <5> DEFINE r == apps[p].run
        <5>1. r \in DOMAIN runs' /\ runs'[r].lease # None /\ runs'[r].lease.owner = p
          <6>1. apps'[p].run \in DOMAIN runs' /\ apps'[p].run # None
            BY <4>4, <1>2, ControlAssumption DEF Owns, Reserved
          <6> QED BY <4>4, <2>3, <6>1 DEF Owns, Lease
        <5>2. r \in Reserved
          BY <5>1 DEF LeasesMove
        <5>3. LeaseMoves(p, r)
          BY <5>2 DEF LeasesMove
        <5>4. runs[r].lease # None /\ runs[r].lease.owner = p
          BY <5>1, <5>3, <2>3 DEF LeaseMoves
        <5> QED BY <5>2, <5>4, <4>1 DEF Owns, Lease
      <4> QED BY <4>1, <4>3, <4>4, <2>3 DEF OneCommit
    <3> QED BY <3>1, <3>2
  <2>4. CASE /\ stale'[p].authority = stale[p].authority + 1
             /\ Committing(apps[p]) /\ ~Committing(apps'[p])
             /\ apps'[p].run = apps[p].run
             /\ DOMAIN runs' = Reserved /\ ~Owns(p)
             /\ \A r \in Reserved : runs'[r].lease = runs[r].lease
    <3>1. stale'[p].authority = 1
      BY <2>1, <2>4 DEF OneCommit
    <3>2. ~Owns(p)'
      BY <2>4 DEF Owns, Lease, Reserved
    <3> QED BY <2>4, <3>1, <3>2 DEF OneCommit
  <2> QED BY <2>2, <2>3, <2>4 DEF CountsMove
<1>7. RunInv'
  <2>1. faults' \in Nat
    BY FaultIsCounted DEF FaultsMove, RunInv
  <2> QED BY <1>1, <1>2, <1>3, <1>5, <1>6, <2>1 DEF RunInv, Reserved
<1>8. ASSUME NEW r \in RunIds, Renewing(r), Lease(r)' # Lease(r)
      PROVE  apps'[Lease(r).owner] # apps[Lease(r).owner] \/ faults' # faults
  <2>1. r \in Reserved
    BY <1>8 DEF Renewing
  <2>2. LeaseMoves(p, r) /\ runs'[r].lease # runs[r].lease
    BY <1>8, <2>1 DEF LeasesMove, Lease
  <2> QED BY <1>8, <2>2 DEF LeaseMoves, Holds, Lease
<1> QED BY <1>7, <1>8 DEF RenewedIsKept

-----------------------------------------------------------------------------
(* The shapes of the steps.                                                *)

\* Leases are left alone.
LEMMA LeasesStay ==
  ASSUME RunInv, NEW p \in Processes, DOMAIN runs' = Reserved,
         \A r \in Reserved : /\ DOMAIN runs'[r] = DOMAIN runs[r]
                             /\ runs'[r].lease = runs[r].lease
  PROVE  LeasesMove(p)
BY DEF RunInv, LeasesMove, LeaseMoves, RunTyped, LeaseTyped, Reserved

\* A step that touches no run moves no lease.
LEMMA RunsStay ==
  ASSUME RunInv, NEW p \in Processes, UNCHANGED runs
  PROVE  LeasesMove(p)
BY LeasesStay DEF Reserved

\* A process that dies while it writes leaves a file and no lease of another.
LEMMA LeftoverStays ==
  ASSUME RunInv, NEW p \in Processes, NEW r \in Reserved,
         runs' = [runs EXCEPT ![r].leftover = TRUE]
  PROVE  LeasesMove(p)
<1>1. DOMAIN runs' = Reserved
  BY DEF Reserved
<1>2. \A q \in Reserved : DOMAIN runs[q] = RunFields
  BY DEF RunInv, RunTyped
<1>3. \A q \in Reserved : q # r => runs'[q] = runs[q]
  BY DEF Reserved
<1>4. runs'[r].lease = runs[r].lease /\ DOMAIN runs'[r] = RunFields
  BY <1>2 DEF Reserved, RunFields
<1>5. \A q \in Reserved : /\ DOMAIN runs'[q] = DOMAIN runs[q]
                          /\ runs'[q].lease = runs[q].lease
  BY <1>2, <1>3, <1>4
<1> QED BY <1>1, <1>5, LeasesStay

\* A run's lease is removed by its holder, who goes on to something else, or
\* when nobody renews it.
LEMMA LeaseDropped ==
  ASSUME RunInv, NEW p \in Processes, NEW r \in Reserved,
         runs' = [runs EXCEPT ![r].lease = None],
         \/ Holds(p, r) /\ apps'[p] # apps[p]
         \/ ~Renewing(r)
  PROVE  LeasesMove(p)
<1>1. DOMAIN runs' = Reserved
  BY DEF Reserved
<1>2. \A q \in Reserved : DOMAIN runs[q] = RunFields
  BY DEF RunInv, RunTyped
<1>3. \A q \in Reserved : q # r => runs'[q] = runs[q]
  BY DEF Reserved
<1>4. runs'[r].lease = None /\ DOMAIN runs'[r] = RunFields
  BY <1>2 DEF Reserved, RunFields
<1> QED BY <1>1, <1>3, <1>4 DEF RunInv, LeasesMove, LeaseMoves, RunTyped, LeaseTyped

\* Releasing a lease removes the holder's own, or nothing.
LEMMA LeaseReleased ==
  ASSUME RunInv, NEW p \in Processes, NEW r, runs' = Released(p, r),
         apps'[p] # apps[p]
  PROVE  LeasesMove(p)
<1>1. CASE Holds(p, r)
  BY <1>1, LeaseDropped DEF Released, Holds
<1>2. CASE ~Holds(p, r)
  BY <1>2, RunsStay DEF Released
<1> QED BY <1>1, <1>2

\* One process goes on to something else.
LEMMA OneApp ==
  ASSUME RunInv, NEW p \in Processes, NEW a, AppTyped(a),
         apps' = [apps EXCEPT ![p] = a]
  PROVE  AppsMove(p) /\ apps'[p] = a
BY DEF RunInv, AppsMove

\* It stays with its run and begins no commit without the lease.
LEMMA CountsStay ==
  ASSUME RunInv, NEW p \in Processes, UNCHANGED stale,
         apps'[p].run = apps[p].run,
         Committing(apps'[p]) => Committing(apps[p]) \/ Holds(p, apps[p].run)
  PROVE  CountsMove(p)
BY DEF RunInv, CountsMove

\* A process that leaves its run has no stale commit on record.
LEMMA CountsRestart ==
  ASSUME RunInv, NEW p \in Processes, Left(p)
  PROVE  CountsMove(p) /\ stale'[p] = NotStale
<1>1. NotStale \in Count
  BY DEF NotStale, Count
<1> QED BY <1>1 DEF RunInv, CountsMove, Left

\* A process that is down or idle has the form of an app.
LEMMA DownTyped == AppTyped(Down) /\ Down.up = FALSE /\ Down.at = "idle"
BY DEF AppTyped, Down, NoTask, AppFields, TaskFields

\* A process that goes idle is a process, of the same run and committing nothing.
LEMMA IdleTyped ==
  ASSUME NEW a, AppTyped(a)
  PROVE  /\ AppTyped(Idle(a)) /\ Idle(a).at = "idle" /\ Idle(a).run = a.run
         /\ ~Committing(Idle(a))
BY DEF AppTyped, Idle, NoTask, AppFields, TaskFields, Committing

\* A failed activation: the app it leaves is typed and in no commit.
LEMMA UndoneTyped ==
  ASSUME RunInv, NEW p \in Processes
  PROVE  /\ AppTyped(Undone(p)) /\ Undone(p).at \in {"acquire", "idle"}
<1> DEFINE b == Inactive(apps[p])
<1>1. AppTyped(apps[p])
  BY DEF RunInv
<1>2. AppTyped(b)
  <2>1. DOMAIN b = AppFields
    BY <1>1 DEF AppTyped, Inactive
  <2>2. b.task = apps[p].task
    BY <1>1 DEF AppTyped, Inactive, AppFields
  <2> QED BY <1>1, <2>1, <2>2 DEF AppTyped
<1>3. AppTyped(Idle(b)) /\ Idle(b).at = "idle"
  <2> HIDE DEF b
  <2> QED BY <1>2, IdleTyped
<1>4. ASSUME NEW t
      PROVE  LET c == [b EXCEPT !.at = "acquire", !.task =
                         [NoTask EXCEPT !.goal = "restore", !.target = t]]
             IN AppTyped(c) /\ c.at = "acquire"
  <2> HIDE DEF b
  <2> DEFINE k == [NoTask EXCEPT !.goal = "restore", !.target = t]
             c == [b EXCEPT !.at = "acquire", !.task = k]
  <2>1. DOMAIN k = TaskFields
    BY DEF NoTask, TaskFields
  <2> HIDE DEF k
  <2>2. DOMAIN c = AppFields /\ c.task = k /\ c.at = "acquire"
    BY <1>2 DEF AppTyped, AppFields
  <2>3. AppTyped(c) /\ c.at = "acquire"
    BY <2>1, <2>2 DEF AppTyped
  <2> QED BY <2>3 DEF k
<1> QED BY <1>3, <1>4 DEF Undone

\* Giving up an opening goes back to the run before, or to none.
LEMMA UndoMoves ==
  ASSUME RunInv, NEW p \in Processes, Undo(p)
  PROVE  /\ AppsMove(p) /\ CountsMove(p)
         /\ apps'[p].at \in {"acquire", "idle"}
<1>1. AppTyped(Undone(p)) /\ Undone(p).at \in {"acquire", "idle"}
  BY UndoneTyped
<1>2. AppsMove(p) /\ apps'[p] = Undone(p)
  BY <1>1, OneApp DEF Undo
<1>3. CountsMove(p)
  BY CountsRestart DEF Undo
<1> QED BY <1>1, <1>2, <1>3

\* The app goes idle, and the run's mark of a broken commit is all that moves.
LEMMA IdleMoves ==
  ASSUME RunInv, NEW p \in Processes, UNCHANGED stale,
         apps' = [apps EXCEPT ![p] = Idle(@)]
  PROVE  AppsMove(p) /\ CountsMove(p)
<1>1. AppTyped(apps[p]) /\ apps' = [apps EXCEPT ![p] = Idle(apps[p])]
  BY DEF RunInv
<1>2. /\ AppTyped(Idle(apps[p])) /\ Idle(apps[p]).run = apps[p].run
      /\ ~Committing(Idle(apps[p]))
  BY <1>1, IdleTyped
<1>3. AppsMove(p) /\ apps'[p] = Idle(apps[p])
  BY <1>1, <1>2, OneApp
<1> QED BY <1>2, <1>3, CountsStay

\* A failure anywhere in an operation ends it and releases what it took.
LEMMA FailedMoves ==
  ASSUME RunInv, NEW p \in Processes, Failed(p),
         apps[p].at \notin {"acquire", "idle"}
  PROVE  Moves(p)
<1>1. CASE apps[p].task.goal = "work"
  <2>1. AppsMove(p) /\ CountsMove(p)
    BY <1>1, IdleMoves DEF Failed
  <2>2. LeasesMove(p)
    <3> DEFINE r == apps[p].run
               x == runs[r].clean /\ apps[p].task.domain = "move"
    <3>1. runs' = [runs EXCEPT ![r].clean = x]
      BY <1>1 DEF Failed
    <3> HIDE DEF r, x
    <3>2. DOMAIN runs' = Reserved
      BY <3>1 DEF Reserved
    <3>3. \A q \in Reserved : q # r => runs'[q] = runs[q]
      BY <3>1 DEF Reserved
    <3>4. r \in Reserved => /\ DOMAIN runs'[r] = DOMAIN runs[r]
                            /\ runs'[r].lease = runs[r].lease
      <4>1. SUFFICES ASSUME r \in Reserved
                     PROVE  /\ DOMAIN runs'[r] = DOMAIN runs[r]
                            /\ runs'[r].lease = runs[r].lease
        OBVIOUS
      <4>2. DOMAIN runs[r] = RunFields
        BY <4>1 DEF RunInv, RunTyped
      <4> QED BY <3>1, <4>1, <4>2 DEF Reserved, RunFields
    <3> QED BY <3>2, <3>3, <3>4, LeasesStay
  <2> QED BY <2>1, <2>2 DEF Moves
<1>2. CASE apps[p].task.goal # "work"
  <2>1. runs' = Released(p, apps[p].run) /\ Undo(p)
    BY <1>2 DEF Failed
  <2>2. /\ AppsMove(p) /\ CountsMove(p)
        /\ apps'[p].at \in {"acquire", "idle"}
    BY <2>1, UndoMoves
  <2>3. apps'[p] # apps[p]
    BY <2>2
  <2>4. LeasesMove(p)
    BY <2>1, <2>3, LeaseReleased
  <2> QED BY <2>2, <2>4 DEF Moves
<1> QED BY <1>1, <1>2

\* A step that changes no lease and no count, and lets one process go on.
LEMMA OneGoesOn ==
  ASSUME RunInv, NEW p \in Processes, UNCHANGED <<runs, stale>>,
         NEW a, apps' = [apps EXCEPT ![p] = a], AppTyped(a),
         a.run = apps[p].run,
         Committing(a) => Committing(apps[p]) \/ Holds(p, apps[p].run)
  PROVE  Moves(p)
<1>1. AppsMove(p) /\ apps'[p] = a
  BY OneApp
<1>2. CountsMove(p)
  BY <1>1, CountsStay
<1> QED BY <1>1, <1>2, RunsStay DEF Moves

\* Looking at the documents moves nobody.
LEMMA NobodyGoesOn ==
  ASSUME RunInv, NEW p \in Processes, UNCHANGED <<runs, stale, apps>>
  PROVE  Moves(p)
<1>1. AppsMove(p)
  BY DEF RunInv, AppsMove
<1>2. CountsMove(p)
  BY CountsStay
<1> QED BY <1>1, <1>2, RunsStay DEF Moves

\* The outcome of a save: what the app becomes when it succeeds and when it
\* fails keeps the run and is in no commit.
LEMMA OutcomeMoves ==
  ASSUME RunInv, NEW p \in Processes, UNCHANGED runs,
         NEW then, AppTyped(then), then.run = apps[p].run,
         Committing(then) => Committing(apps[p]),
         NEW otherwise, AppTyped(otherwise), otherwise.run = apps[p].run,
         Committing(otherwise) => Committing(apps[p]),
         \/ apps' = [apps EXCEPT ![p] = then] /\ UNCHANGED stale
         \/ apps' = [apps EXCEPT ![p] = otherwise] /\ UNCHANGED stale
         \/ /\ apps' = [apps EXCEPT ![p] = Down]
            /\ stale' = [stale EXCEPT ![p] = NotStale]
  PROVE  Moves(p)
<1>1. CASE apps' = [apps EXCEPT ![p] = then] /\ UNCHANGED stale
  BY <1>1, OneGoesOn
<1>2. CASE apps' = [apps EXCEPT ![p] = otherwise] /\ UNCHANGED stale
  BY <1>2, OneGoesOn
<1>3. CASE /\ apps' = [apps EXCEPT ![p] = Down]
           /\ stale' = [stale EXCEPT ![p] = NotStale]
  BY <1>3, OneApp, DownTyped, CountsRestart, RunsStay DEF Moves, Left
<1> QED BY <1>1, <1>2, <1>3

\* A process that ends has no run and no count.
LEMMA EndMoves ==
  ASSUME RunInv, NEW p \in Processes, apps' = [apps EXCEPT ![p] = Down], Left(p)
  PROVE  AppsMove(p) /\ CountsMove(p) /\ apps'[p] = Down
BY OneApp, DownTyped, CountsRestart

\* One process goes on with its run: only the fields that matter are asked for.
LEMMA StepGoesOn ==
  ASSUME RunInv, NEW p \in Processes, LeasesMove(p), UNCHANGED stale,
         DOMAIN apps' = Processes,
         \A q \in Processes \ {p} : apps'[q] = apps[q],
         AppTyped(apps'[p]), apps'[p].run = apps[p].run,
         Committing(apps'[p]) => Committing(apps[p]) \/ Holds(p, apps[p].run)
  PROVE  Moves(p)
<1>1. AppsMove(p)
  BY DEF RunInv, AppsMove
<1>2. CountsMove(p)
  BY CountsStay
<1> QED BY <1>1, <1>2 DEF Moves

-----------------------------------------------------------------------------
(* The steps.                                                              *)

\* Saving or recovering the settings leaves leases and runs alone.
LEMMA SettingsStep ==
  ASSUME RunInv, NEW p \in Processes
  PROVE  /\ \A draft \in Drafts : SaveSettings(p, draft) => Moves(p)
         /\ \A restore \in BOOLEAN : RecoverSettings(p, restore) => Moves(p)
<1>1. AppTyped(apps[p])
  BY DEF RunInv
<1>2. ASSUME NEW draft \in Drafts, SaveSettings(p, draft) PROVE Moves(p)
  <2>1. UNCHANGED runs
    BY <1>2 DEF SaveSettings
  <2>2. \/ apps' = [apps EXCEPT ![p] = apps[p]] /\ UNCHANGED stale
        \/ /\ apps' = [apps EXCEPT ![p] = Down]
           /\ stale' = [stale EXCEPT ![p] = NotStale]
    BY <1>2, Zenon DEF SaveSettings, Outcome
  <2> QED BY <1>1, <2>1, <2>2, OutcomeMoves
<1>3. ASSUME NEW restore \in BOOLEAN, RecoverSettings(p, restore) PROVE Moves(p)
  <2>1. UNCHANGED runs
    BY <1>3 DEF RecoverSettings
  <2>2. \/ apps' = [apps EXCEPT ![p] = apps[p]] /\ UNCHANGED stale
        \/ /\ apps' = [apps EXCEPT ![p] = Down]
           /\ stale' = [stale EXCEPT ![p] = NotStale]
    BY <1>3, Zenon DEF RecoverSettings, Outcome
  <2> QED BY <1>1, <2>1, <2>2, OutcomeMoves
<1> QED BY <1>2, <1>3

\* Saving, choosing or recovering the selection takes no lease yet.
LEMMA SelectionStep ==
  ASSUME RunInv, NEW p \in Processes
  PROVE  /\ Select(p) => Moves(p)
         /\ \A r \in RunIds : SelectRun(p, r) => Moves(p)
         /\ \A r \in RunIds \cup {None} : RecoverRunSelection(p, r) => Moves(p)
<1> DEFINE a == apps[p]
           Opened(place, r) ==
             [a EXCEPT !.at = place,
                       !.task = [NoTask EXCEPT !.goal = "open", !.target = r]]
<1>1. AppTyped(a) /\ AppTyped(Idle(a)) /\ Idle(a).run = a.run
      /\ ~Committing(Idle(a))
  BY IdleTyped DEF RunInv
<1>2. ASSUME NEW place, NEW r, place \notin {"read", "append"}
      PROVE  /\ AppTyped(Opened(place, r)) /\ Opened(place, r).run = a.run
             /\ ~Committing(Opened(place, r))
  <2> DEFINE t == [NoTask EXCEPT !.goal = "open", !.target = r]
  <2>1. DOMAIN t = TaskFields
    BY DEF NoTask, TaskFields
  <2>2. Opened(place, r) = [a EXCEPT !.at = place, !.task = t]
    OBVIOUS
  <2> HIDE DEF t, a, Opened
  <2>3. /\ DOMAIN Opened(place, r) = AppFields /\ Opened(place, r).task = t
        /\ Opened(place, r).at = place /\ Opened(place, r).run = a.run
    BY <1>1, <2>2 DEF AppTyped, AppFields
  <2>4. AppTyped(Opened(place, r))
    BY <2>1, <2>3 DEF AppTyped
  <2> QED BY <1>2, <2>3, <2>4 DEF Committing
<1>3. ASSUME Select(p) PROVE Moves(p)
  <2> DEFINE b == [a EXCEPT !.at = "back"]
  <2>1. UNCHANGED runs
    BY <1>3 DEF Select
  <2>2. \/ apps' = [apps EXCEPT ![p] = Idle(a)] /\ UNCHANGED stale
        \/ apps' = [apps EXCEPT ![p] = b] /\ UNCHANGED stale
        \/ /\ apps' = [apps EXCEPT ![p] = Down]
           /\ stale' = [stale EXCEPT ![p] = NotStale]
    BY <1>3, Zenon DEF Select, CompareAndSwap, Outcome
  <2>3. AppTyped(b) /\ b.run = a.run /\ ~Committing(b)
    BY <1>1 DEF AppTyped, AppFields, Committing
  <2> HIDE DEF b
  <2> QED BY <1>1, <2>1, <2>2, <2>3, OutcomeMoves
<1>4. ASSUME NEW r \in RunIds, SelectRun(p, r) PROVE Moves(p)
  <2> DEFINE b == Opened("leave", r)
  <2>1. UNCHANGED runs
    BY <1>4 DEF SelectRun
  <2>2. \/ apps' = [apps EXCEPT ![p] = b] /\ UNCHANGED stale
        \/ apps' = [apps EXCEPT ![p] = a] /\ UNCHANGED stale
        \/ /\ apps' = [apps EXCEPT ![p] = Down]
           /\ stale' = [stale EXCEPT ![p] = NotStale]
    BY <1>4, Zenon DEF SelectRun, CompareAndSwap, Outcome
  <2>3. AppTyped(b) /\ b.run = a.run /\ ~Committing(b)
    BY <1>2
  <2> HIDE DEF b
  <2> QED BY <1>1, <2>1, <2>2, <2>3, OutcomeMoves
<1>5. ASSUME NEW r \in RunIds \cup {None}, RecoverRunSelection(p, r)
      PROVE  Moves(p)
  <2> DEFINE b == IF r = None THEN a ELSE Opened("acquire", r)
  <2>1. UNCHANGED runs
    BY <1>5 DEF RecoverRunSelection
  <2>2. \/ apps' = [apps EXCEPT ![p] = b] /\ UNCHANGED stale
        \/ apps' = [apps EXCEPT ![p] = a] /\ UNCHANGED stale
        \/ /\ apps' = [apps EXCEPT ![p] = Down]
           /\ stale' = [stale EXCEPT ![p] = NotStale]
    BY <1>5, Zenon DEF RecoverRunSelection, Outcome
  <2>3. AppTyped(b) /\ b.run = a.run /\ (Committing(b) => Committing(a))
    BY <1>1, <1>2
  <2> HIDE DEF b
  <2> QED BY <1>1, <2>1, <2>2, <2>3, OutcomeMoves
<1> QED BY <1>3, <1>4, <1>5

\* The renewal that fails, and the owner kept from renewing: faults.
LEMMA LeaseHit ==
  ASSUME RunInv, NEW p \in Processes, NEW r \in Reserved, runs[r].lease # None,
         faults' # faults,
         NEW l, DOMAIN l = LeaseFields, l.owner = runs[r].lease.owner,
         runs' = [runs EXCEPT ![r].lease = l]
  PROVE  LeasesMove(p)
<1>1. DOMAIN runs' = Reserved
  BY DEF Reserved
<1>2. \A q \in Reserved : DOMAIN runs[q] = RunFields
  BY DEF RunInv, RunTyped
<1>3. \A q \in Reserved : q # r => runs'[q] = runs[q]
  BY DEF Reserved
<1>4. runs'[r].lease = l /\ DOMAIN runs'[r] = RunFields
  BY <1>2 DEF Reserved, RunFields
<1>5. LeaseTyped(runs[r].lease)
  BY DEF RunInv, RunTyped
<1>6. LeaseTyped(l)
  BY <1>5 DEF LeaseTyped
<1> QED BY <1>1, <1>3, <1>4, <1>6 DEF RunInv, LeasesMove, LeaseMoves, RunTyped

\* A renewal keeps the holder's lease, or finds it taken.
LEMMA RenewStep ==
  ASSUME RunInv, NEW p \in Processes, Renew(p)
  PROVE  Moves(p)
<1> DEFINE a == apps[p]
           r == apps[p].run
<1>1. /\ DOMAIN apps' = Processes /\ \A q \in Processes \ {p} : apps'[q] = apps[q]
      /\ AppTyped(apps'[p]) /\ apps'[p].run = a.run
      /\ apps'[p].at = a.at /\ apps'[p].task = a.task
  <2>1. apps' = [apps EXCEPT ![p].lost = TRUE]
    BY DEF Renew
  <2>2. AppTyped(a) /\ DOMAIN apps = Processes
    BY DEF RunInv
  <2> QED BY <2>1, <2>2 DEF AppTyped, AppFields
<1>2. LeasesMove(p)
  <2>1. CASE UNCHANGED runs
    BY <2>1, RunsStay
  <2>2. CASE runs' = [runs EXCEPT ![r].lease.known = FALSE]
    <3>1. r \in Reserved /\ runs[r].lease # None
      BY DEF Renew, Renewable, Holds, Lease
    <3>2. faults' # faults
      BY FaultIsCounted DEF Renew
    <3> DEFINE l == [runs[r].lease EXCEPT !.known = FALSE]
    <3>3. DOMAIN runs[r].lease = LeaseFields /\ DOMAIN runs[r] = RunFields
      BY <3>1 DEF RunInv, RunTyped, LeaseTyped
    <3>4. DOMAIN l = LeaseFields /\ l.owner = runs[r].lease.owner /\ l.known = FALSE
      BY <3>3 DEF LeaseFields
    <3>5. runs' = [runs EXCEPT ![r].lease = l]
      BY <2>2, <3>1, <3>3
    <3> HIDE DEF l, r
    <3> QED BY <3>1, <3>2, <3>4, <3>5, LeaseHit
  <2> QED BY <2>1, <2>2 DEF Renew
<1>3. UNCHANGED stale /\ (Committing(apps'[p]) => Committing(a))
  BY <1>1 DEF Renew, Committing
<1> QED BY <1>1, <1>2, <1>3, StepGoesOn

\* A lease is acquired when it is free or when nobody renews it.
LEMMA AcquireStep ==
  ASSUME RunInv, NEW p \in Processes, Acquire(p)
  PROVE  Moves(p)
<1> DEFINE a == apps[p]
           r == a.task.target
           state == Restored(runs[r])
           l == [owner |-> p, live |-> TRUE, known |-> TRUE]
<1>1. AppTyped(a) /\ DOMAIN apps = Processes
  BY DEF RunInv
<1>2. /\ DOMAIN apps' = Processes /\ \A q \in Processes \ {p} : apps'[q] = apps[q]
      /\ AppTyped(apps'[p])
  <2> DEFINE t == [a.task EXCEPT !.domain = "pre_live"]
  <2>1. DOMAIN t = TaskFields
    BY <1>1 DEF AppTyped
  <2>2. apps' = [apps EXCEPT ![p].run = r, ![p].lost = FALSE,
                   ![p].mem = state, ![p].at = "renew",
                   ![p].task.domain = "pre_live"]
    BY Zenon DEF Acquire
  <2> HIDE DEF state
  <2>3. DOMAIN apps'[p] = AppFields /\ apps'[p].task = t
    BY <1>1, <2>2 DEF AppTyped, AppFields
  <2>4. DOMAIN apps' = Processes /\ \A q \in Processes \ {p} : apps'[q] = apps[q]
    BY <1>1, <2>2
  <2> QED BY <2>1, <2>3, <2>4 DEF AppTyped
<1>3. AppsMove(p)
  BY <1>2 DEF RunInv, AppsMove
<1>4. CountsMove(p) /\ stale'[p] = NotStale
  BY CountsRestart DEF Acquire
<1>5. LeasesMove(p)
  <2> DEFINE f == IF runs[r].journal.latest # None THEN state ELSE runs[r].file
  <2>1. r \in Reserved /\ ~Renewing(r)
    BY DEF Acquire, Free
  <2>2. runs' = [runs EXCEPT ![r].lease = l, ![r].file = f]
    BY Zenon DEF Acquire
  <2> HIDE DEF r, f, l, state
  <2>3. DOMAIN runs[r] = RunFields
    BY <2>1 DEF RunInv, RunTyped
  <2>4. DOMAIN runs' = Reserved /\ \A q \in Reserved : q # r => runs'[q] = runs[q]
    BY <2>2 DEF Reserved
  <2>5. runs'[r].lease = l /\ DOMAIN runs'[r] = RunFields
    BY <2>1, <2>2, <2>3 DEF Reserved, RunFields
  <2>6. LeaseTyped(l) /\ l.owner = p
    BY DEF LeaseTyped, LeaseFields, l
  <2>7. LeaseMoves(p, r)
    BY <1>4, <2>1, <2>5, <2>6 DEF LeaseMoves
  <2>8. \A q \in Reserved : RunTyped(runs'[q]) /\ LeaseMoves(p, q)
    BY <2>4, <2>5, <2>6, <2>7 DEF RunInv, RunTyped, LeaseMoves
  <2> QED BY <2>4, <2>8 DEF LeasesMove, RunInv
<1> QED BY <1>3, <1>4, <1>5 DEF Moves

\* An opening that is refused leaves no lease of its own behind.
LEMMA ActivationRefused ==
  ASSUME RunInv, NEW p \in Processes, AcquireRefused(p) \/ LoadRefused(p)
  PROVE  Moves(p)
<1>1. AppsMove(p) /\ CountsMove(p)
  BY UndoMoves DEF AcquireRefused, LoadRefused
<1>2. LeasesMove(p)
  <2>1. CASE AcquireRefused(p)
    BY <2>1, RunsStay DEF AcquireRefused
  <2>2. CASE LoadRefused(p)
    BY <2>2, LeaseDropped DEF LoadRefused, Free
  <2> QED BY <2>1, <2>2
<1> QED BY <1>1, <1>2 DEF Moves

\* A commit renews the lease before it reads the journal it will append to.
LEMMA CommitStep ==
  ASSUME RunInv, NEW p \in Processes
  PROVE  /\ RenewForCommit(p) => Moves(p)
         /\ ReadJournal(p) => Moves(p)
         /\ WriteState(p) => Moves(p)
<1> DEFINE a == apps[p]
<1>1. AppTyped(a) /\ DOMAIN apps = Processes
  BY DEF RunInv
<1>2. ASSUME RenewForCommit(p) PROVE Moves(p)
  <2>1. apps' = [apps EXCEPT ![p].at = "read"]
    BY <1>2 DEF RenewForCommit, Go
  <2>2. /\ DOMAIN apps' = Processes /\ \A q \in Processes \ {p} : apps'[q] = apps[q]
        /\ AppTyped(apps'[p]) /\ apps'[p].run = a.run
    BY <1>1, <2>1 DEF AppTyped, AppFields
  <2>3. Holds(p, a.run) /\ UNCHANGED stale /\ LeasesMove(p)
    BY <1>2, RunsStay DEF RenewForCommit, Renewable
  <2> QED BY <2>2, <2>3, StepGoesOn
<1>3. ASSUME ReadJournal(p) PROVE Moves(p)
  <2> DEFINE t == [a.task EXCEPT !.current = TRUE]
  <2>1. apps' = [apps EXCEPT ![p].at = "append", ![p].task.current = TRUE]
    BY <1>3 DEF ReadJournal
  <2>2. DOMAIN t = TaskFields /\ t.domain = a.task.domain
    BY <1>1 DEF AppTyped, TaskFields
  <2>3. /\ DOMAIN apps' = Processes /\ \A q \in Processes \ {p} : apps'[q] = apps[q]
        /\ DOMAIN apps'[p] = AppFields /\ apps'[p].run = a.run
        /\ apps'[p].task = t
    BY <1>1, <2>1 DEF AppTyped, AppFields
  <2>4. AppTyped(apps'[p]) /\ apps'[p].task.domain = a.task.domain
    BY <2>2, <2>3 DEF AppTyped
  <2>5. a.at = "read" /\ UNCHANGED stale /\ LeasesMove(p)
    BY <1>3, RunsStay DEF ReadJournal
  <2>6. Committing(apps'[p]) => Committing(a)
    BY <2>4, <2>5 DEF Committing
  <2> QED BY <2>3, <2>4, <2>5, <2>6, StepGoesOn
<1>4. ASSUME WriteState(p) PROVE Moves(p)
  <2> DEFINE b == AfterCommit(p)
  <2>1. AppTyped(b) /\ b.run = a.run /\ ~Committing(b)
    <3>1. CASE a.task.goal = "create"
      BY <1>1, <3>1 DEF AfterCommit, AppTyped, AppFields, Committing
    <3>2. CASE a.task.goal # "create"
      BY <1>1, <3>2, IdleTyped DEF AfterCommit
    <3> QED BY <3>1, <3>2
  <2> HIDE DEF b
  <2>2. apps' = [apps EXCEPT ![p] = b] /\ UNCHANGED stale
    BY <1>4 DEF WriteState, b
  <2>3. /\ DOMAIN apps' = Processes /\ \A q \in Processes \ {p} : apps'[q] = apps[q]
        /\ apps'[p] = b
    BY <1>1, <2>2
  <2>4. LeasesMove(p)
    <3> DEFINE r == a.run
               m == a.mem
    <3>1. runs' = [runs EXCEPT ![r].file = m]
      BY <1>4 DEF WriteState
    <3> HIDE DEF r, m
    <3>2. \A q \in Reserved : DOMAIN runs[q] = RunFields
      BY DEF RunInv, RunTyped
    <3>3. \A q \in Reserved : /\ DOMAIN runs'[q] = DOMAIN runs[q]
                              /\ runs'[q].lease = runs[q].lease
      <4>1. \A q \in Reserved : q # r => runs'[q] = runs[q]
        BY <3>1 DEF Reserved
      <4>2. r \in Reserved => /\ DOMAIN runs'[r] = DOMAIN runs[r]
                              /\ runs'[r].lease = runs[r].lease
        BY <3>1, <3>2 DEF Reserved, RunFields
      <4> QED BY <4>1, <4>2
    <3>4. DOMAIN runs' = Reserved
      BY <3>1 DEF Reserved
    <3> QED BY <3>3, <3>4, LeasesStay
  <2> QED BY <2>1, <2>2, <2>3, <2>4, StepGoesOn
<1> QED BY <1>2, <1>3, <1>4

\* An append under a lost lease is the one commit that its renewal allowed.
LEMMA AppendStep ==
  ASSUME RunInv, NEW p \in Processes, AppendEvent(p)
  PROVE  Moves(p)
<1> DEFINE a == apps[p]
           r == apps[p].run
           b == AfterAppend(p)
<1>1. \A q \in Processes : AppTyped(apps[q])
  BY DEF RunInv
<1>2. AppTyped(b) /\ b.run = a.run /\ ~Committing(b)
  <2>1. CASE a.task.domain = "move"
    BY <1>1, <2>1, IdleTyped DEF AfterAppend
  <2>2. CASE a.task.domain # "move"
    BY <1>1, <2>2 DEF AfterAppend, AppTyped, AppFields, Committing
  <2> QED BY <2>1, <2>2
<1>3. /\ DOMAIN apps' = Processes /\ apps'[p] = b
      /\ \A q \in Processes \ {p} :
           \/ apps'[q] = apps[q]
           \/ apps'[q] = [apps[q] EXCEPT !.task.current = FALSE]
  <2> HIDE DEF b
  <2>1. apps' = [q \in Processes |->
          CASE q = p -> b
            [] q # p /\ apps[q].run = r -> [apps[q] EXCEPT !.task.current = FALSE]
            [] OTHER -> apps[q]]
    BY Zenon DEF AppendEvent, b
  <2>2. DOMAIN apps' = Processes /\ apps'[p] = b
    BY <2>1
  <2>3. ASSUME NEW q \in Processes \ {p}
        PROVE  \/ apps'[q] = apps[q]
               \/ apps'[q] = [apps[q] EXCEPT !.task.current = FALSE]
    <3>1. CASE apps[q].run = r
      BY <2>1, <3>1
    <3>2. CASE apps[q].run # r
      BY <2>1, <3>2
    <3> QED BY <3>1, <3>2
  <2> QED BY <2>2, <2>3
<1>4. AppsMove(p)
  <2>1. ASSUME NEW q \in Processes \ {p},
               apps'[q] = [apps[q] EXCEPT !.task.current = FALSE]
        PROVE  /\ AppTyped(apps'[q])
               /\ apps'[q].run = apps[q].run /\ apps'[q].at = apps[q].at
               /\ apps'[q].task.domain = apps[q].task.domain
    <3> DEFINE t == [apps[q].task EXCEPT !.current = FALSE]
    <3>1. DOMAIN t = TaskFields /\ t.domain = apps[q].task.domain
      BY <1>1 DEF AppTyped, TaskFields
    <3>2. /\ DOMAIN apps'[q] = AppFields /\ apps'[q].task = t
          /\ apps'[q].run = apps[q].run /\ apps'[q].at = apps[q].at
      BY <1>1, <2>1 DEF AppTyped, AppFields
    <3> QED BY <3>1, <3>2 DEF AppTyped
  <2> HIDE DEF b
  <2> QED BY <1>1, <1>2, <1>3, <2>1 DEF AppsMove
<1>5. /\ DOMAIN runs' = Reserved
      /\ \A q \in Reserved : /\ DOMAIN runs'[q] = DOMAIN runs[q]
                             /\ runs'[q].lease = runs[q].lease
  <2> DEFINE j == Appended(runs[r].journal, p)
             c == runs[r].clean /\ Counted(p) = stale
  <2>1. runs' = [runs EXCEPT ![r].journal = j, ![r].clean = c]
    BY Zenon DEF AppendEvent
  <2> HIDE DEF r, j, c
  <2>2. \A q \in Reserved : DOMAIN runs[q] = RunFields
    BY DEF RunInv, RunTyped
  <2>3. \A q \in Reserved : q # r => runs'[q] = runs[q]
    BY <2>1 DEF Reserved
  <2>4. r \in Reserved => /\ DOMAIN runs'[r] = DOMAIN runs[r]
                          /\ runs'[r].lease = runs[r].lease
    BY <2>1, <2>2 DEF Reserved, RunFields
  <2>5. DOMAIN runs' = Reserved
    BY <2>1 DEF Reserved
  <2> QED BY <2>3, <2>4, <2>5
<1>6. LeasesMove(p)
  BY <1>5, LeasesStay
<1>7. CountsMove(p)
  <2>1. stale' = Counted(p) /\ a.at = "append"
    BY DEF AppendEvent
  <2>2. stale \in [Processes -> Count]
    BY DEF RunInv
  <2>3. CASE Lease(r) # None /\ Lease(r).owner = p
    <3>1. UNCHANGED stale
      BY <2>1, <2>3 DEF Counted
    <3> QED BY <1>2, <1>3, <3>1, CountsStay
  <2>4. CASE ~(Lease(r) # None /\ Lease(r).owner = p) /\ a.task.domain = "move"
    <3>1. stale' = [stale EXCEPT ![p].moves = @ + 1]
      BY <2>1, <2>4 DEF Counted
    <3>2. /\ stale' \in [Processes -> Count]
          /\ \A q \in Processes \ {p} : stale'[q] = stale[q]
          /\ stale'[p].authority = stale[p].authority
      BY <2>2, <3>1 DEF Count
    <3> QED BY <1>2, <1>3, <3>2 DEF CountsMove
  <2>5. CASE ~(Lease(r) # None /\ Lease(r).owner = p) /\ a.task.domain # "move"
    <3>1. stale' = [stale EXCEPT ![p].authority = @ + 1]
      BY <2>1, <2>5 DEF Counted
    <3>2. /\ stale' \in [Processes -> Count]
          /\ \A q \in Processes \ {p} : stale'[q] = stale[q]
          /\ stale'[p].authority = stale[p].authority + 1
      BY <2>2, <3>1 DEF Count
    <3>3. Committing(a)
      BY <2>1, <2>5 DEF Committing
    <3>4. ~Owns(p)
      BY <2>5 DEF Owns
    <3> HIDE DEF b
    <3> QED BY <1>2, <1>3, <1>5, <3>2, <3>3, <3>4 DEF CountsMove
  <2> QED BY <2>3, <2>4, <2>5
<1> QED BY <1>4, <1>6, <1>7 DEF Moves

\* A handler begins with the app idle: none of them is a commit yet, but the
\* transition, which asks for no lease and is counted apart.
LEMMA HandlerStep ==
  ASSUME RunInv, NEW p \in Processes
  PROVE  /\ Work(p) => Moves(p)
         /\ Transition(p) => Moves(p)
         /\ Apply(p) => Moves(p)
         /\ SelectRefused(p) => Moves(p)
<1> DEFINE a == apps[p]
<1>1. AppTyped(a) /\ DOMAIN apps = Processes
  BY DEF RunInv
<1>2. ASSUME Work(p) PROVE Moves(p)
  <2> DEFINE t == [NoTask EXCEPT !.goal = "work", !.domain = "source"]
  <2>1. DOMAIN t = TaskFields
    BY DEF NoTask, TaskFields
  <2>2. apps' = [apps EXCEPT ![p].mem.source = work + 1, ![p].at = "renew",
                             ![p].task = t]
    BY <1>2, Zenon DEF Work
  <2> HIDE DEF t
  <2>3. /\ DOMAIN apps' = Processes /\ \A q \in Processes \ {p} : apps'[q] = apps[q]
        /\ DOMAIN apps'[p] = AppFields /\ apps'[p].run = a.run
        /\ apps'[p].task = t /\ apps'[p].at = "renew"
    BY <1>1, <2>2 DEF AppTyped, AppFields
  <2>4. UNCHANGED stale /\ LeasesMove(p)
    BY <1>2, RunsStay DEF Work
  <2> QED BY <2>1, <2>3, <2>4, StepGoesOn DEF AppTyped, Committing
<1>3. ASSUME Transition(p) PROVE Moves(p)
  <2> DEFINE t == [NoTask EXCEPT !.goal = "work", !.domain = "move"]
  <2>1. DOMAIN t = TaskFields /\ t.domain = "move"
    BY DEF NoTask, TaskFields
  <2>2. apps' = [apps EXCEPT ![p].at = "read", ![p].task = t]
    BY <1>3, Zenon DEF Transition
  <2> HIDE DEF t
  <2>3. /\ DOMAIN apps' = Processes /\ \A q \in Processes \ {p} : apps'[q] = apps[q]
        /\ DOMAIN apps'[p] = AppFields /\ apps'[p].run = a.run
        /\ apps'[p].task = t
    BY <1>1, <2>2 DEF AppTyped, AppFields
  <2>4. UNCHANGED stale /\ LeasesMove(p)
    BY <1>3, RunsStay DEF Transition
  <2> QED BY <2>1, <2>3, <2>4, StepGoesOn DEF AppTyped, Committing
<1>4. ASSUME Apply(p) PROVE Moves(p)
  <2> DEFINE t == [a.task EXCEPT !.domain = "strategy"]
  <2>1. DOMAIN t = TaskFields
    BY <1>1 DEF AppTyped
  <2>2. apps' = [apps EXCEPT ![p].mem.strategy = settings.current,
                             ![p].at = "renew", ![p].task.domain = "strategy"]
    BY <1>4, Zenon DEF Apply
  <2>3. /\ DOMAIN apps' = Processes /\ \A q \in Processes \ {p} : apps'[q] = apps[q]
        /\ DOMAIN apps'[p] = AppFields /\ apps'[p].run = a.run
        /\ apps'[p].task = t /\ apps'[p].at = "renew"
    BY <1>1, <2>2 DEF AppTyped, AppFields
  <2>4. UNCHANGED stale /\ LeasesMove(p)
    BY <1>4, RunsStay DEF Apply
  <2> HIDE DEF t
  <2> QED BY <2>1, <2>3, <2>4, StepGoesOn DEF AppTyped, Committing
<1>5. ASSUME SelectRefused(p) PROVE Moves(p)
  <2>1. apps' = [apps EXCEPT ![p].at = "back"]
    BY <1>5 DEF SelectRefused, Go
  <2>2. /\ DOMAIN apps' = Processes /\ \A q \in Processes \ {p} : apps'[q] = apps[q]
        /\ AppTyped(apps'[p]) /\ apps'[p].run = a.run /\ apps'[p].at = "back"
    BY <1>1, <2>1 DEF AppTyped, AppFields
  <2>3. UNCHANGED stale /\ LeasesMove(p)
    BY <1>5, RunsStay DEF SelectRefused
  <2> QED BY <2>2, <2>3, StepGoesOn DEF Committing
<1> QED BY <1>2, <1>3, <1>4, <1>5

\* Whatever fails in an opening or a commit, nobody else's lease is touched.
LEMMA FailureStep ==
  ASSUME RunInv, NEW p \in Processes,
         \/ CommitRefused(p) \/ ReadRefused(p) \/ AppendRefused(p)
         \/ WriteStateFails(p) \/ ApplyRefused(p) \/ Back(p)
  PROVE  Moves(p)
<1>1. Failed(p) /\ apps[p].at \notin {"acquire", "idle"}
  BY DEF CommitRefused, ReadRefused, AppendRefused, WriteStateFails, ApplyRefused,
     Back
<1> QED BY <1>1, FailedMoves

\* The run that a creation reserves has no lease yet.
LEMMA CreateStep ==
  ASSUME RunInv, NEW p \in Processes, NEW r \in RunIds, CreateRun(p, r)
  PROVE  Moves(p)
<1> DEFINE a == apps[p]
           t == [NoTask EXCEPT !.goal = "create", !.target = r,
                   !.prior = ShownSelection(p).content,
                   !.quoted = seen[p].settings,
                   !.expected = seen[p].selection]
<1>1. AppTyped(a) /\ DOMAIN apps = Processes
  BY DEF RunInv
<1>2. DOMAIN t = TaskFields
  BY DEF NoTask, TaskFields
<1>3. apps' = [apps EXCEPT ![p].at = "leave", ![p].task = t]
  BY Zenon DEF CreateRun
<1>4. /\ DOMAIN apps' = Processes /\ \A q \in Processes \ {p} : apps'[q] = apps[q]
      /\ AppTyped(apps'[p]) /\ apps'[p].run = a.run /\ apps'[p].at = "leave"
  <2> HIDE DEF t
  <2> QED BY <1>1, <1>2, <1>3 DEF AppTyped, AppFields
<1>5. UNCHANGED stale
  BY DEF CreateRun
<1>6. LeasesMove(p)
  <2>1. runs' = [q \in Reserved \cup {r} |-> IF q = r THEN NewRun ELSE runs[q]]
        /\ r \notin Reserved
    BY Zenon DEF CreateRun
  <2>2. DOMAIN NewRun = RunFields /\ NewRun.lease = None
    BY DEF NewRun, RunFields
  <2>3. RunTyped(NewRun)
    BY <2>2 DEF RunTyped, LeaseTyped
  <2> QED BY <2>1, <2>2, <2>3 DEF RunInv, LeasesMove, LeaseMoves
<1> QED BY <1>4, <1>5, <1>6, StepGoesOn DEF Committing

\* Starting, leaving, closing and dying concern the process alone.
LEMMA ProcessStep ==
  ASSUME RunInv, NEW p \in Processes
  PROVE  /\ Leave(p) => Moves(p)
         /\ Start(p) => Moves(p)
         /\ Close(p) => Moves(p)
         /\ Crash(p) => Moves(p)
<1> DEFINE a == apps[p]
<1>1. AppTyped(a) /\ DOMAIN apps = Processes
  BY DEF RunInv
<1>2. ASSUME Leave(p) PROVE Moves(p)
  <2> DEFINE b == [Inactive(a) EXCEPT !.at = "acquire"]
  <2>1. AppTyped(b) /\ b.at = "acquire"
    BY <1>1 DEF Inactive, AppTyped, AppFields
  <2>2. apps' = [apps EXCEPT ![p] = b] /\ a.at = "leave"
    BY <1>2 DEF Leave
  <2> HIDE DEF b
  <2>3. AppsMove(p) /\ apps'[p] # a
    BY <2>1, <2>2, OneApp
  <2>4. CountsMove(p) /\ LeasesMove(p)
    BY <1>2, <2>3, CountsRestart, LeaseReleased DEF Leave
  <2> QED BY <2>3, <2>4 DEF Moves
<1>3. ASSUME Start(p) PROVE Moves(p)
  <2> DEFINE r == IF IsSaved(selection.current) THEN selection.current.content
                  ELSE None
             fresh == [Down EXCEPT !.up = TRUE]
             t == [NoTask EXCEPT !.goal = "open", !.target = r]
             b == [fresh EXCEPT !.at = "acquire", !.task = t]
             c == IF r = None THEN fresh ELSE b
  <2>1. apps' = [apps EXCEPT ![p] = c]
    BY <1>3, Zenon DEF Start
  <2>2. AppTyped(fresh) /\ fresh.at = "idle" /\ fresh.run = None
    BY DEF Down, NoTask, AppTyped, AppFields, TaskFields
  <2>3. DOMAIN t = TaskFields
    BY DEF NoTask, TaskFields
  <2> HIDE DEF r, t, fresh
  <2>4. AppTyped(b) /\ b.at = "acquire"
    BY <2>2, <2>3 DEF AppTyped, AppFields
  <2>5. AppTyped(c)
    BY <2>2, <2>4
  <2> HIDE DEF c, b
  <2>6. AppsMove(p)
    BY <2>1, <2>5, OneApp
  <2>7. apps'[p] = c /\ c.run = None /\ ~Committing(c)
    BY <2>1, <2>2, <2>4, <2>5, OneApp DEF c, b, Committing, AppTyped, AppFields
  <2>8. UNCHANGED <<runs, stale>>
    BY <1>3 DEF Start
  <2>9. CountsMove(p)
    BY <2>7, <2>8 DEF RunInv, CountsMove
  <2> QED BY <2>6, <2>8, <2>9, RunsStay DEF Moves
<1>4. ASSUME Close(p) PROVE Moves(p)
  <2>1. AppsMove(p) /\ CountsMove(p) /\ apps'[p] = Down
    BY <1>4, EndMoves DEF Close
  <2>2. apps'[p] # a
    BY <1>4, <2>1, DownTyped DEF Close
  <2>3. LeasesMove(p)
    BY <1>4, <2>2, LeaseReleased DEF Close
  <2> QED BY <2>1, <2>3 DEF Moves
<1>5. ASSUME Crash(p) PROVE Moves(p)
  BY <1>5, EndMoves, RunsStay, LeftoverStays DEF Crash, Moves
<1> QED BY <1>2, <1>3, <1>4, <1>5

-----------------------------------------------------------------------------
(* Every step.                                                             *)

\* Each action counts a fault or leaves the count.
LEMMA FaultsStep ==
  ASSUME NEW p \in Processes,
         \/ Documents(p) \/ Activation(p) \/ Selection(p)
         \/ Start(p) \/ Close(p) \/ Crash(p)
  PROVE  FaultsMove
<1>1. CASE Documents(p)
  BY <1>1, Zenon DEF Documents, View, SaveSettings, RecoverSettings, Outcome,
     NoFault, FaultsMove
<1>2. CASE Activation(p)
  <2>1. CASE Acquire(p) \/ AcquireRefused(p) \/ LoadRefused(p) \/ Renew(p)
    BY <2>1, Zenon DEF Acquire, AcquireRefused, LoadRefused, Renew, FaultsMove
  <2>2. CASE RenewForCommit(p) \/ CommitRefused(p) \/ ReadJournal(p)
             \/ ReadRefused(p) \/ AppendEvent(p) \/ AppendRefused(p)
    BY <2>2, Zenon DEF RenewForCommit, CommitRefused, ReadJournal,
       ReadRefused, AppendEvent, AppendRefused, NoFault, FaultsMove
  <2>3. CASE WriteState(p) \/ WriteStateFails(p) \/ Work(p) \/ Transition(p)
    BY <2>3, Zenon DEF WriteState, WriteStateFails, Work, Transition, FaultsMove
  <2> QED BY <1>2, <2>1, <2>2, <2>3, Zenon DEF Activation
<1>3. CASE Selection(p)
  <2>1. ASSUME NEW r \in RunIds, CreateRun(p, r) PROVE FaultsMove
    BY <2>1, Zenon DEF CreateRun, FaultsMove
  <2>2. ASSUME NEW r \in RunIds, SelectRun(p, r) PROVE FaultsMove
    BY <2>2, Zenon DEF SelectRun, CompareAndSwap, Outcome, NoFault, FaultsMove
  <2>3. ASSUME NEW r \in RunIds \cup {None}, RecoverRunSelection(p, r)
        PROVE  FaultsMove
    BY <2>3, Zenon DEF RecoverRunSelection, Outcome, NoFault, FaultsMove
  <2>4. CASE Select(p)
    BY <2>4, Zenon DEF Select, CompareAndSwap, Outcome, NoFault, FaultsMove
  <2>5. CASE Leave(p) \/ Apply(p) \/ ApplyRefused(p) \/ SelectRefused(p) \/ Back(p)
    BY <2>5, Zenon DEF Leave, Apply, ApplyRefused, SelectRefused, Back, NoFault,
       FaultsMove
  <2> QED BY <1>3, <2>1, <2>2, <2>3, <2>4, <2>5, Zenon DEF Selection
<1>4. CASE Start(p) \/ Close(p) \/ Crash(p)
  BY <1>4, Zenon DEF Start, Close, Crash, FaultsMove
<1> QED BY <1>1, <1>2, <1>3, <1>4

\* Every operation of a process is one of the moves above.
LEMMA EveryMove ==
  ASSUME RunInv, NEW p \in Processes,
         \/ Documents(p) \/ Activation(p) \/ Selection(p)
         \/ Start(p) \/ Close(p) \/ Crash(p)
  PROVE  Moves(p)
<1>1. CASE Documents(p)
  <2>1. ASSUME View(p) PROVE Moves(p)
    BY <2>1, NobodyGoesOn DEF View
  <2> QED BY <1>1, <2>1, SettingsStep, Zenon DEF Documents
<1>2. CASE Activation(p)
  BY <1>2, AcquireStep, ActivationRefused, RenewStep, CommitStep, AppendStep,
     HandlerStep, FailureStep, Zenon DEF Activation
<1>3. CASE Selection(p)
  BY <1>3, CreateStep, SelectionStep, HandlerStep, FailureStep, ProcessStep,
     Zenon DEF Selection
<1>4. CASE Start(p) \/ Close(p) \/ Crash(p)
  BY <1>4, ProcessStep
<1> QED BY <1>1, <1>2, <1>3, <1>4

\* The invariant holds before anything was saved, and every step keeps it.
LEMMA RunInvInit == Init => RunInv
<1>1. AppTyped(Down) /\ Down.at = "idle"
  BY DownTyped
<1>2. NotStale \in Count /\ NotStale.authority = 0
  BY DEF NotStale, Count
<1> QED BY <1>1, <1>2 DEF Init, RunInv, Reserved, OneCommit

\* Every step preserves the invariant and keeps a lease that is renewed.
LEMMA RunInvNext ==
  ASSUME RunInv, [Next]_vars
  PROVE  RunInv' /\ RenewedIsKept
<1>1. CASE UNCHANGED vars
  BY <1>1 DEF vars, RunInv, Reserved, OneCommit, Owns, Lease, Committing,
     RunTyped, LeaseTyped, AppTyped, RenewedIsKept
<1>2. ASSUME NEW p \in Processes,
             \/ Documents(p) \/ Activation(p) \/ Selection(p)
             \/ Start(p) \/ Close(p) \/ Crash(p)
      PROVE  RunInv' /\ RenewedIsKept
  BY <1>2, EveryMove, FaultsStep, MovesKeep
<1>3. ASSUME NEW r \in RunIds, Expire(r)
      PROVE  RunInv' /\ RenewedIsKept
  <2> DEFINE l == [runs[r].lease EXCEPT !.live = FALSE]
             p == runs[r].lease.owner
  <2>1. r \in Reserved /\ runs[r].lease # None
    BY <1>3 DEF Expire, Renewing, Lease
  <2>2. DOMAIN runs[r].lease = LeaseFields /\ DOMAIN runs[r] = RunFields
        /\ p \in Processes
    BY <2>1 DEF RunInv, RunTyped, LeaseTyped
  <2>3. DOMAIN l = LeaseFields /\ l.owner = runs[r].lease.owner
    BY <2>2 DEF LeaseFields
  <2>4. faults' # faults /\ FaultsMove
    BY <1>3, FaultIsCounted DEF Expire, FaultsMove
  <2>5. runs' = [runs EXCEPT ![r].lease = l]
    BY <1>3, <2>1, <2>2 DEF Expire
  <2> HIDE DEF l, p
  <2>6. LeasesMove(p)
    BY <2>1, <2>2, <2>3, <2>4, <2>5, LeaseHit
  <2>7. UNCHANGED <<apps, stale>>
    BY <1>3 DEF Expire
  <2>8. Moves(p)
    BY <2>2, <2>6, <2>7, StepGoesOn DEF RunInv
  <2> QED BY <2>2, <2>4, <2>8, MovesKeep
<1>4. CASE Damage
  <2>1. UNCHANGED <<runs, apps, stale>> /\ FaultsMove
    BY <1>4, Zenon DEF Damage, FaultsMove
  <2>2. faults' \in Nat
    BY <2>1, FaultIsCounted DEF FaultsMove, RunInv
  <2> QED BY <2>1, <2>2 DEF RunInv, Reserved, OneCommit, Owns, Lease, Committing,
          RunTyped, LeaseTyped, AppTyped, RenewedIsKept
<1> QED BY <1>1, <1>2, <1>3, <1>4 DEF Next

-----------------------------------------------------------------------------
(* What a reader should know of.                                           *)

\* Every reachable state satisfies the invariant: in particular, whoever has
\* committed under a lease that another took owns no lease of its run and is in
\* no further commit (commitAuthority renews before it appends,
\* internal/activationapp/app.go).
THEOREM RunInvariant == Spec => []RunInv
<1>1. RunInv /\ [Next]_vars => RunInv'
  BY RunInvNext
<1> QED BY <1>1, RunInvInit, PTL DEF Spec

\* For any number of processes: a process whose lease was taken commits at most
\* one more authority, the one it had renewed the lease for.
THEOREM OneStaleCommit == Spec => []StaleIsOneCommit
<1>1. RunInv => StaleIsOneCommit
  <2>1. RunInv => \A p \in Processes : OneCommit(p)
    BY DEF RunInv
  <2> QED BY <2>1 DEF StaleIsOneCommit, OneCommit
<1> QED BY <1>1, RunInvariant, PTL

\* For any number of processes and runs: nobody but its holder changes or
\* removes a lease that is renewed in time, whatever is created, selected,
\* recovered, opened or closed meanwhile (internal/runjournal/lease.go).
THEOREM LeasesAreKept == Spec => LeaseIsTheHolders
<1>1. RunInv /\ [Next]_vars =>
        [\A r \in RunIds :
           Renewing(r) /\ Lease(r)' # Lease(r) =>
             \/ apps'[Lease(r).owner] # apps[Lease(r).owner]
             \/ faults' # faults]_vars
  BY RunInvNext DEF RenewedIsKept
<1> QED BY <1>1, RunInvariant, PTL DEF Spec, LeaseIsTheHolders
-----------------------------------------------------------------------------
(* What a step makes of the process that takes it.                         *)

Alike(t, u) ==
  /\ t.goal = u.goal /\ t.expected = u.expected
  /\ t.quoted = u.quoted /\ t.domain = u.domain
Same(b, a) ==
  b.run = a.run /\ b.mem = a.mem /\ b.at = a.at /\ Alike(b.task, a.task)

\* The process has this run and state, goes on there and has a task like this one;
\* nobody else does.
Turns(p, run, mem, at, t) ==
  /\ \A q \in Processes \ {p} : Same(apps'[q], apps[q])
  /\ apps'[p].run = run /\ apps'[p].mem = mem /\ apps'[p].at = at
  /\ Alike(apps'[p].task, t)
\* It keeps its run and its state.
Goes(p, at, t) == Turns(p, apps[p].run, apps[p].mem, at, t)
Stays(p) == Goes(p, apps[p].at, apps[p].task)
Empties(p, at, t) == Turns(p, None, EmptyState, at, t)
\* It is idle, on its way to the run before, or ends.
GivesUp(p) ==
  \E at \in {"idle", "acquire"} : \E t :
    /\ Empties(p, at, t)
    /\ t.goal \in {"none", "restore"} /\ t.domain = "none" /\ t.expected = None
Opening(r) == [NoTask EXCEPT !.goal = "open", !.target = r]

\* A step that sets one process is a turn of it.
LEMMA OneTurns ==
  ASSUME RunInv, NEW p \in Processes, NEW a,
         apps' = [apps EXCEPT ![p] = a]
  PROVE  Turns(p, a.run, a.mem, a.at, a.task)
BY DEF RunInv, Turns, Same, Alike

\* A step that sets none leaves every process where it stands.
LEMMA NobodyTurns ==
  ASSUME RunInv, NEW p \in Processes, apps' = apps
  PROVE  Stays(p)
BY DEF RunInv, Goes, Stays, Turns, Same, Alike

\* Going idle is a turn.
LEMMA IdleTurns ==
  ASSUME RunInv, NEW p \in Processes, apps' = [apps EXCEPT ![p] = Idle(apps[p])]
  PROVE  Goes(p, "idle", NoTask)
<1>1. /\ Idle(apps[p]).run = apps[p].run /\ Idle(apps[p]).mem = apps[p].mem
      /\ Idle(apps[p]).at = "idle" /\ Idle(apps[p]).task = NoTask
  BY DEF RunInv, AppTyped, AppFields, Idle
<1> QED BY <1>1, OneTurns DEF Goes

\* Undoing a creation gives the run up,
LEMMA UndoTurns ==
  ASSUME RunInv, NEW p \in Processes, Undo(p)
  PROVE  GivesUp(p)
<1> DEFINE b == Inactive(apps[p])
           t == [NoTask EXCEPT !.goal = "restore", !.target = apps[p].task.prior]
           c == [b EXCEPT !.at = "acquire", !.task = t]
<1>1. DOMAIN b = AppFields /\ b.run = None /\ b.mem = EmptyState
  BY DEF RunInv, AppTyped, AppFields, Inactive
<1>2. t.goal = "restore" /\ t.domain = "none" /\ t.expected = None
  BY DEF NoTask
<1>3. NoTask.goal = "none" /\ NoTask.domain = "none" /\ NoTask.expected = None
  BY DEF NoTask
<1>4. apps' = [apps EXCEPT ![p] = c] \/ apps' = [apps EXCEPT ![p] = Idle(b)]
  BY Zenon DEF Undo, Undone
<1> HIDE DEF b, t
<1>5. CASE apps' = [apps EXCEPT ![p] = c]
  <2>1. c.run = None /\ c.mem = EmptyState /\ c.at = "acquire" /\ c.task = t
    BY <1>1 DEF AppFields
  <2> HIDE DEF c
  <2>2. Empties(p, "acquire", t)
    BY <1>5, <2>1, OneTurns DEF Empties
  <2> QED BY <1>2, <2>2 DEF GivesUp
<1>6. CASE apps' = [apps EXCEPT ![p] = Idle(b)]
  <2>1. /\ Idle(b).run = None /\ Idle(b).mem = EmptyState
        /\ Idle(b).at = "idle" /\ Idle(b).task = NoTask
    BY <1>1 DEF AppFields, Idle
  <2>2. Empties(p, "idle", NoTask)
    BY <1>6, <2>1, OneTurns DEF Empties
  <2> QED BY <1>3, <2>2 DEF GivesUp
<1> QED BY <1>4, <1>5, <1>6

\* and so does the end of a process.
LEMMA EndTurns ==
  ASSUME RunInv, NEW p \in Processes, apps' = [apps EXCEPT ![p] = Down]
  PROVE  GivesUp(p)
<1>1. /\ Down.run = None /\ Down.mem = EmptyState /\ Down.at = "idle"
      /\ Down.task = NoTask
  BY DEF Down
<1>2. NoTask.goal = "none" /\ NoTask.domain = "none" /\ NoTask.expected = None
  BY DEF NoTask
<1>3. Empties(p, "idle", NoTask)
  BY <1>1, OneTurns DEF Empties
<1> QED BY <1>2, <1>3 DEF GivesUp

\* A commit that failed is dropped, or its run is given up.
LEMMA FailedTurns ==
  ASSUME RunInv, NEW p \in Processes, Failed(p)
  PROVE  IF apps[p].task.goal = "work" THEN Goes(p, "idle", NoTask) ELSE GivesUp(p)
<1>1. apps' = [apps EXCEPT ![p] = Idle(@)] => apps' = [apps EXCEPT ![p] = Idle(apps[p])]
  BY DEF RunInv
<1> QED BY <1>1, IdleTurns, UndoTurns DEF Failed

\* The process opens a run that is chosen.
LEMMA OpeningTurns ==
  ASSUME RunInv, NEW p \in Processes, NEW at, NEW r,
         apps' = [apps EXCEPT ![p] =
                    [apps[p] EXCEPT !.at = at,
                       !.task = [NoTask EXCEPT !.goal = "open", !.target = r]]]
  PROVE  Goes(p, at, Opening(r))
<1> DEFINE t == Opening(r)
           b == [apps[p] EXCEPT !.at = at, !.task = t]
<1>1. apps' = [apps EXCEPT ![p] = b]
  BY DEF Opening
<1> HIDE DEF t
<1>2. b.run = apps[p].run /\ b.mem = apps[p].mem /\ b.at = at /\ b.task = t
  BY DEF RunInv, AppTyped, AppFields
<1> HIDE DEF b
<1>3. Turns(p, b.run, b.mem, b.at, b.task)
  BY <1>1, OneTurns
<1>4. Goes(p, at, t)
  BY <1>2, <1>3 DEF Goes
<1> QED BY <1>4 DEF t

\* The turns of taking up a run.
LEMMA ActivationTurns ==
  ASSUME RunInv, NEW p \in Processes
  PROVE  /\ Acquire(p) =>
              Turns(p, apps[p].task.target, Restored(runs[apps[p].task.target]),
                    "renew", [apps[p].task EXCEPT !.domain = "pre_live"])
         /\ AcquireRefused(p) \/ LoadRefused(p) => GivesUp(p)
         /\ Renew(p) => Stays(p)
         /\ RenewForCommit(p) => Goes(p, "read", apps[p].task)
         /\ ReadJournal(p) => Goes(p, "append", apps[p].task)
<1> DEFINE a == apps[p]
<1>1. AppTyped(a) /\ DOMAIN apps = Processes
  BY DEF RunInv
<1>2. ASSUME Acquire(p)
      PROVE  Turns(p, a.task.target, Restored(runs[a.task.target]),
                   "renew", [a.task EXCEPT !.domain = "pre_live"])
  <2> DEFINE r == a.task.target
             state == Restored(runs[r])
             t == [a.task EXCEPT !.domain = "pre_live"]
  <2>1. apps' = [apps EXCEPT ![p].run = r, ![p].lost = FALSE,
                   ![p].mem = state, ![p].at = "renew",
                   ![p].task.domain = "pre_live"]
    BY <1>2, Zenon DEF Acquire
  <2> HIDE DEF state, r
  <2>2. /\ apps'[p].run = r /\ apps'[p].mem = state /\ apps'[p].at = "renew"
        /\ apps'[p].task = t
        /\ \A q \in Processes \ {p} : apps'[q] = apps[q]
    BY <1>1, <2>1 DEF AppTyped, AppFields
  <2> HIDE DEF t
  <2>3. Turns(p, r, state, "renew", t)
    BY <2>2 DEF Turns, Same, Alike
  <2> QED BY <2>3 DEF r, state, t
<1>3. ASSUME AcquireRefused(p) \/ LoadRefused(p) PROVE GivesUp(p)
  BY <1>3, UndoTurns DEF AcquireRefused, LoadRefused
<1>4. ASSUME Renew(p) PROVE Stays(p)
  <2>1. apps' = [apps EXCEPT ![p].lost = TRUE]
    BY <1>4 DEF Renew
  <2> QED BY <1>1, <2>1 DEF AppTyped, AppFields, Stays, Goes, Turns, Same, Alike
<1>5. ASSUME RenewForCommit(p) PROVE Goes(p, "read", a.task)
  <2>1. apps' = [apps EXCEPT ![p].at = "read"]
    BY <1>5 DEF RenewForCommit, Go
  <2> QED BY <1>1, <2>1 DEF AppTyped, AppFields, Goes, Turns, Same, Alike
<1>6. ASSUME ReadJournal(p) PROVE Goes(p, "append", a.task)
  <2>1. apps' = [apps EXCEPT ![p].at = "append", ![p].task.current = TRUE]
    BY <1>6 DEF ReadJournal
  <2> QED BY <1>1, <2>1 DEF AppTyped, AppFields, TaskFields, Goes, Turns, Same, Alike
<1> QED BY <1>2, <1>3, <1>4, <1>5, <1>6

\* The turns of a commit.
LEMMA CommitTurns ==
  ASSUME RunInv, NEW p \in Processes
  PROVE  /\ AppendEvent(p) => IF apps[p].task.domain = "move"
                              THEN Goes(p, "idle", NoTask)
                              ELSE Goes(p, "file", apps[p].task)
         /\ WriteState(p) =>
              IF apps[p].task.goal # "create" THEN Goes(p, "idle", NoTask)
              ELSE IF apps[p].task.domain = "pre_live"
                   THEN Goes(p, "apply", apps[p].task)
                   ELSE Goes(p, "select", apps[p].task)
         /\ Work(p) => Turns(p, apps[p].run, [apps[p].mem EXCEPT !.source = work + 1],
                             "renew", [NoTask EXCEPT !.goal = "work",
                                                     !.domain = "source"])
         /\ Transition(p) => Goes(p, "read", [NoTask EXCEPT !.goal = "work",
                                                            !.domain = "move"])
<1> DEFINE a == apps[p]
<1>1. AppTyped(a) /\ DOMAIN apps = Processes
  BY DEF RunInv
<1>2. ASSUME AppendEvent(p)
      PROVE  IF a.task.domain = "move" THEN Goes(p, "idle", NoTask)
             ELSE Goes(p, "file", a.task)
  <2> DEFINE b == AfterAppend(p)
             r == apps[p].run
  <2>1. /\ apps'[p] = b
        /\ \A q \in Processes \ {p} :
             \/ apps'[q] = apps[q]
             \/ apps'[q] = [apps[q] EXCEPT !.task.current = FALSE]
    <3>1. apps' = [q \in Processes |->
            CASE q = p -> b
              [] q # p /\ apps[q].run = r -> [apps[q] EXCEPT !.task.current = FALSE]
              [] OTHER -> apps[q]]
      BY <1>2, Zenon DEF AppendEvent
    <3> HIDE DEF b, r
    <3>2. apps'[p] = b
      BY <3>1
    <3>3. ASSUME NEW q \in Processes \ {p}
          PROVE  \/ apps'[q] = apps[q]
                 \/ apps'[q] = [apps[q] EXCEPT !.task.current = FALSE]
      <4>1. CASE apps[q].run = r
        BY <3>1, <4>1
      <4>2. CASE apps[q].run # r
        BY <3>1, <4>2
      <4> QED BY <4>1, <4>2
    <3> QED BY <3>2, <3>3
  <2>2. \A q \in Processes \ {p} : Same(apps'[q], apps[q])
    <3> HIDE DEF b
    <3>1. ASSUME NEW q \in Processes \ {p}
          PROVE  Same(apps'[q], apps[q])
      <4>1. AppTyped(apps[q])
        BY DEF RunInv
      <4>2. CASE apps'[q] = apps[q]
        BY <4>2 DEF Same, Alike
      <4>3. CASE apps'[q] = [apps[q] EXCEPT !.task.current = FALSE]
        BY <4>1, <4>3 DEF AppTyped, AppFields, TaskFields, Same, Alike
      <4> QED BY <2>1, <4>2, <4>3
    <3> QED BY <3>1
  <2>3. CASE a.task.domain = "move"
    <3>1. b = Idle(a)
      BY <2>3 DEF AfterAppend
    <3>2. b.run = a.run /\ b.mem = a.mem /\ b.at = "idle" /\ b.task = NoTask
      BY <1>1, <3>1 DEF AppTyped, AppFields, Idle
    <3> HIDE DEF b
    <3>3. Goes(p, "idle", NoTask)
      BY <2>1, <2>2, <3>2 DEF Goes, Turns, Alike
    <3> QED BY <2>3, <3>3
  <2>4. CASE a.task.domain # "move"
    <3>1. b.run = a.run /\ b.mem = a.mem /\ b.at = "file" /\ b.task = a.task
      BY <1>1, <2>4 DEF AppTyped, AppFields, AfterAppend
    <3> HIDE DEF b
    <3>2. Goes(p, "file", a.task)
      BY <2>1, <2>2, <3>1 DEF Goes, Turns, Alike
    <3> QED BY <2>4, <3>2
  <2> QED BY <2>3, <2>4
<1>3. ASSUME WriteState(p)
      PROVE  IF a.task.goal # "create" THEN Goes(p, "idle", NoTask)
             ELSE IF a.task.domain = "pre_live" THEN Goes(p, "apply", a.task)
                  ELSE Goes(p, "select", a.task)
  <2>1. apps' = [apps EXCEPT ![p] = AfterCommit(p)]
    BY <1>3 DEF WriteState
  <2>2. CASE a.task.goal # "create"
    <3>1. apps' = [apps EXCEPT ![p] = Idle(apps[p])]
      BY <2>1, <2>2 DEF AfterCommit
    <3> QED BY <2>2, <3>1, IdleTurns
  <2>3. CASE a.task.goal = "create"
    <3> DEFINE b == AfterCommit(p)
    <3>1. /\ b.run = a.run /\ b.mem = a.mem /\ b.task = a.task
          /\ b.at = IF a.task.domain = "pre_live" THEN "apply" ELSE "select"
      BY <1>1, <2>3 DEF AppTyped, AppFields, AfterCommit
    <3> HIDE DEF b
    <3>2. Turns(p, b.run, b.mem, b.at, b.task)
      BY <2>1, OneTurns DEF b
    <3>3. CASE a.task.domain = "pre_live"
      <4>1. Goes(p, "apply", a.task)
        BY <3>1, <3>2, <3>3 DEF Goes
      <4> QED BY <2>3, <3>3, <4>1
    <3>4. CASE a.task.domain # "pre_live"
      <4>1. Goes(p, "select", a.task)
        BY <3>1, <3>2, <3>4 DEF Goes
      <4> QED BY <2>3, <3>4, <4>1
    <3> QED BY <3>3, <3>4
  <2> QED BY <2>2, <2>3
<1>4. ASSUME Work(p)
      PROVE  Turns(p, a.run, [a.mem EXCEPT !.source = work + 1], "renew",
                   [NoTask EXCEPT !.goal = "work", !.domain = "source"])
  <2> DEFINE t == [NoTask EXCEPT !.goal = "work", !.domain = "source"]
  <2>1. apps' = [apps EXCEPT ![p].mem.source = work + 1, ![p].at = "renew",
                             ![p].task = t]
    BY <1>4, Zenon DEF Work
  <2> HIDE DEF t
  <2>2. Turns(p, a.run, [a.mem EXCEPT !.source = work + 1], "renew", t)
    BY <1>1, <2>1 DEF AppTyped, AppFields, Turns, Same, Alike
  <2> QED BY <2>2 DEF t
<1>5. ASSUME Transition(p)
      PROVE  Goes(p, "read", [NoTask EXCEPT !.goal = "work", !.domain = "move"])
  <2> DEFINE t == [NoTask EXCEPT !.goal = "work", !.domain = "move"]
  <2>1. apps' = [apps EXCEPT ![p].at = "read", ![p].task = t]
    BY <1>5, Zenon DEF Transition
  <2> HIDE DEF t
  <2>2. Goes(p, "read", t)
    BY <1>1, <2>1 DEF AppTyped, AppFields, Goes, Turns, Same, Alike
  <2> QED BY <2>2 DEF t
<1> QED BY <1>2, <1>3, <1>4, <1>5

Creating(p, r) ==
  [NoTask EXCEPT !.goal = "create", !.target = r,
                 !.prior = ShownSelection(p).content, !.quoted = seen[p].settings,
                 !.expected = seen[p].selection]

\* The turns of creating and selecting a run.
LEMMA SelectionTurns ==
  ASSUME RunInv, NEW p \in Processes
  PROVE  /\ \A r \in RunIds : CreateRun(p, r) => Goes(p, "leave", Creating(p, r))
         /\ Leave(p) => Empties(p, "acquire", apps[p].task)
         /\ Apply(p) => Turns(p, apps[p].run,
                              [apps[p].mem EXCEPT !.strategy = settings.current],
                              "renew", [apps[p].task EXCEPT !.domain = "strategy"])
         /\ SelectRefused(p) => Goes(p, "back", apps[p].task)
         /\ Close(p) \/ Crash(p) => GivesUp(p)
         /\ Start(p) => \E at \in {"idle", "acquire"} : \E t :
              /\ Empties(p, at, t)
              /\ t.goal \in {"none", "open"} /\ t.domain = "none" /\ t.expected = None
<1> DEFINE a == apps[p]
<1>1. AppTyped(a) /\ DOMAIN apps = Processes
  BY DEF RunInv
<1>2. ASSUME NEW r \in RunIds, CreateRun(p, r)
      PROVE  Goes(p, "leave", Creating(p, r))
  <2>1. apps' = [apps EXCEPT ![p].at = "leave", ![p].task = Creating(p, r)]
    BY <1>2, Zenon DEF CreateRun, Creating
  <2> QED BY <1>1, <2>1 DEF AppTyped, AppFields, Goes, Turns, Same, Alike
<1>3. ASSUME Leave(p) PROVE Empties(p, "acquire", a.task)
  <2> DEFINE b == [Inactive(a) EXCEPT !.at = "acquire"]
  <2>1. apps' = [apps EXCEPT ![p] = b]
    BY <1>3 DEF Leave
  <2>2. b.run = None /\ b.mem = EmptyState /\ b.at = "acquire" /\ b.task = a.task
    BY <1>1 DEF AppTyped, AppFields, Inactive
  <2> HIDE DEF b
  <2> QED BY <2>1, <2>2, OneTurns DEF Empties
<1>4. ASSUME Apply(p)
      PROVE  Turns(p, a.run, [a.mem EXCEPT !.strategy = settings.current],
                   "renew", [a.task EXCEPT !.domain = "strategy"])
  <2>1. apps' = [apps EXCEPT ![p].mem.strategy = settings.current,
                             ![p].at = "renew", ![p].task.domain = "strategy"]
    BY <1>4, Zenon DEF Apply
  <2> QED BY <1>1, <2>1 DEF AppTyped, AppFields, Turns, Same, Alike
<1>5. ASSUME SelectRefused(p) PROVE Goes(p, "back", a.task)
  <2>1. apps' = [apps EXCEPT ![p].at = "back"]
    BY <1>5 DEF SelectRefused, Go
  <2> QED BY <1>1, <2>1 DEF AppTyped, AppFields, Goes, Turns, Same, Alike
<1>6. ASSUME Close(p) \/ Crash(p) PROVE GivesUp(p)
  BY <1>6, EndTurns DEF Close, Crash
<1>7. ASSUME Start(p)
      PROVE  \E at \in {"idle", "acquire"} : \E t :
               /\ Empties(p, at, t)
               /\ t.goal \in {"none", "open"} /\ t.domain = "none" /\ t.expected = None
  <2> DEFINE r == IF IsSaved(selection.current) THEN selection.current.content
                  ELSE None
             fresh == [Down EXCEPT !.up = TRUE]
             t == Opening(r)
             b == [fresh EXCEPT !.at = "acquire", !.task = t]
  <2>1. apps' = [apps EXCEPT ![p] = IF r = None THEN fresh ELSE b]
    BY <1>7, Zenon DEF Start, Opening
  <2>2. /\ fresh.at = "idle" /\ fresh.run = None /\ fresh.mem = EmptyState
        /\ fresh.task = NoTask /\ DOMAIN fresh = AppFields
    BY DEF Down, AppFields
  <2>3. t.goal = "open" /\ t.domain = "none" /\ t.expected = None
    BY DEF NoTask, Opening
  <2>4. NoTask.goal = "none" /\ NoTask.domain = "none" /\ NoTask.expected = None
    BY DEF NoTask
  <2> HIDE DEF r, t, fresh
  <2>5. b.at = "acquire" /\ b.run = None /\ b.mem = EmptyState /\ b.task = t
    BY <2>2 DEF AppFields
  <2> HIDE DEF b
  <2>6. CASE r = None
    <3>1. Empties(p, "idle", NoTask)
      BY <2>1, <2>2, <2>6, OneTurns DEF Empties
    <3> QED BY <2>4, <3>1
  <2>7. CASE r # None
    <3>1. Empties(p, "acquire", t)
      BY <2>1, <2>5, <2>7, OneTurns DEF Empties
    <3> QED BY <2>3, <3>1
  <2> QED BY <2>6, <2>7
<1> QED BY <1>2, <1>3, <1>4, <1>5, <1>6, <1>7
-----------------------------------------------------------------------------
(* Control documents.                                                      *)

FilesOnDisk ==
  [current : {None} \cup SavedDocuments \cup DamagedFiles,
   backup : {None} \cup SavedDocuments]
\* What a process shows of a document, or expects of it.
Shows(p, content) ==
  {None, Document(0, p, content)} \cup SavedDocuments \cup Problems

\* The backup is what was current last or before, and what is current was saved
\* last, whatever is damaged.
FilesFit(files, t) ==
  /\ files \in FilesOnDisk /\ DOMAIN t = {"last", "before"}
  /\ files.current = None => files.backup = None
  /\ files.current \in SavedDocuments => t.last = files.current
  /\ files.backup # None => files.backup \in {t.last, t.before}

\* A generation is of one document, and was drawn.
Distinct(known, n) ==
  /\ \A d \in known \cap SavedDocuments : d.generation <= n
  /\ \A d, e \in known \cap SavedDocuments :
       d.generation = e.generation => d = e

SelectionsKnown ==
  {selection.current, selection.backup}
    \cup UNION {{seen[p].selection, apps[p].task.expected} : p \in Processes}
SettingsKnown ==
  {settings.current, settings.backup} \cup {seen[p].settings : p \in Processes}

\* A creation remembers the selection that its user saw.
Expects(p) ==
  /\ apps[p].task.expected \in Shows(p, None)
  /\ apps[p].task.goal = "create" => apps[p].task.expected # None
  /\ apps[p].at = "select" => apps[p].task.goal = "create"
Sees(p) ==
  /\ DOMAIN seen[p] = {"selection", "settings"}
  /\ seen[p].selection \in Shows(p, None)
  /\ seen[p].settings \in Shows(p, "defaults")

DocInv ==
  /\ ~overwritten /\ drawn \in Nat
  /\ DOMAIN trail = {"selection", "settings"} /\ DOMAIN seen = Processes
  /\ FilesFit(selection, trail.selection) /\ FilesFit(settings, trail.settings)
  /\ Distinct(SelectionsKnown, drawn) /\ Distinct(SettingsKnown, drawn)
  /\ \A p \in Processes : Expects(p) /\ Sees(p)

\* The documents tell themselves apart.
LEMMA DocumentKinds ==
  /\ \A d \in SavedDocuments :
       /\ d # None /\ IsSaved(d) /\ ~IsDamaged(d) /\ ~IsProblem(d)
       /\ d \notin DamagedFiles /\ d \notin Problems
       /\ d.version \in Nat \ {0} /\ d.generation \in Nat
       /\ d.content \in RunIds \cup Drafts \cup {None, "defaults"}
  /\ \A d \in DamagedFiles : d # None /\ ~IsSaved(d) /\ IsDamaged(d)
  /\ \A d \in Problems : d # None /\ IsProblem(d) /\ d \notin SavedDocuments
  /\ \A p, c : /\ Document(0, p, c) \notin SavedDocuments
               /\ Document(0, p, c).version = 0
               /\ ~IsProblem(Document(0, p, c))
  /\ \A v \in Nat \ {0}, g \in Nat,
        c \in RunIds \cup Drafts \cup {None, "defaults"} :
       /\ Document(v, g, c) \in SavedDocuments
       /\ Document(v, g, c).generation = g
<1>1. \A d \in SavedDocuments :
       /\ d # None /\ IsSaved(d) /\ ~IsDamaged(d) /\ ~IsProblem(d)
       /\ d \notin DamagedFiles /\ d \notin Problems
       /\ d.version \in Nat \ {0} /\ d.generation \in Nat
       /\ d.content \in RunIds \cup Drafts \cup {None, "defaults"}
  <2>1. TAKE d \in SavedDocuments
  <2>2. DOMAIN d = {"version", "generation", "content"} /\ d.version \in Nat \ {0}
        /\ d.generation \in Nat
        /\ d.content \in RunIds \cup Drafts \cup {None, "defaults"}
    BY DEF SavedDocuments
  <2>3. d # None
    BY ControlAssumption
  <2>4. d \notin DamagedFiles
    <3>1. \A e \in DamagedFiles : DOMAIN e = {"damage"}
      BY DEF DamagedFiles
    <3> QED BY <2>2, <3>1
  <2>5. d \notin Problems
    <3>1. \A e \in Problems : DOMAIN e = {"problem", "backup"}
      BY DEF Problems
    <3> QED BY <2>2, <3>1
  <2>6. IsSaved(d) /\ ~IsDamaged(d) /\ ~IsProblem(d)
    BY <2>2, <2>3 DEF IsSaved, IsDamaged, IsProblem
  <2> QED BY <2>2, <2>3, <2>4, <2>5, <2>6
<1>2. \A d \in DamagedFiles : d # None /\ ~IsSaved(d) /\ IsDamaged(d)
  <2>1. TAKE d \in DamagedFiles
  <2>2. DOMAIN d = {"damage"} /\ d # None
    BY ControlAssumption DEF DamagedFiles
  <2> QED BY <2>2 DEF IsSaved, IsDamaged
<1>3. \A d \in Problems : d # None /\ IsProblem(d) /\ d \notin SavedDocuments
  <2>1. TAKE d \in Problems
  <2>2. DOMAIN d = {"problem", "backup"} /\ d # None
    BY ControlAssumption DEF Problems
  <2> QED BY <1>1, <2>2 DEF IsProblem
<1>4. \A p, c : /\ Document(0, p, c) \notin SavedDocuments
                /\ Document(0, p, c).version = 0
                /\ ~IsProblem(Document(0, p, c))
  BY <1>1 DEF Document, IsProblem
<1>5. \A v \in Nat \ {0}, g \in Nat,
         c \in RunIds \cup Drafts \cup {None, "defaults"} :
        /\ Document(v, g, c) \in SavedDocuments
        /\ Document(v, g, c).generation = g
  BY DEF Document, SavedDocuments
<1> QED BY <1>1, <1>2, <1>3, <1>4, <1>5

\* What is shown is the default, the document, or the problem.
LEMMA ShownIs ==
  ASSUME NEW files, NEW t, FilesFit(files, t), NEW p, NEW c
  PROVE  LET shown == Shown(files, p, c)
         IN /\ shown \in Shows(p, c)
            /\ shown \in SavedDocuments => shown = files.current
            /\ \/ files.current = None /\ shown = Document(0, p, c)
               \/ files.current \in SavedDocuments /\ shown = files.current
               \/ files.current \in DamagedFiles /\ IsProblem(shown)
<1>1. CASE files.current = None
  BY <1>1, DocumentKinds DEF Shown, Shows
<1>2. CASE files.current \in SavedDocuments
  BY <1>2, DocumentKinds DEF Shown, Shows
<1>3. CASE files.current \in DamagedFiles
  <2>1. Shown(files, p, c) = [problem |-> files.current, backup |-> files.backup]
    BY <1>3, DocumentKinds DEF Shown
  <2>2. Shown(files, p, c) \in Problems
    BY <1>3, <2>1 DEF Problems, FilesFit, FilesOnDisk
  <2> QED BY <1>3, <2>2, DocumentKinds DEF Shows
<1> QED BY <1>1, <1>2, <1>3 DEF FilesFit, FilesOnDisk

\* A save that finds the revision it expects replaces the document it expects.
LEMMA RevisionIsOfTheDocument ==
  ASSUME NEW files, NEW t, FilesFit(files, t), NEW p, NEW c, NEW known, NEW n,
         Distinct(known, n), files.current \in known,
         NEW expected \in known, expected \in Shows(p, c), expected # None,
         MaySave(Shown(files, p, c), expected)
  PROVE  expected = Shown(files, p, c)
<1> DEFINE shown == Shown(files, p, c)
<1>1. ~IsProblem(shown) /\ ~IsProblem(expected)
      /\ shown.version = expected.version /\ shown.generation = expected.generation
  BY DEF MaySave, Revision
<1>2. expected = Document(0, p, c) \/ expected \in SavedDocuments
  BY <1>1, DocumentKinds DEF Shows
<1>3. \/ shown = Document(0, p, c)
      \/ files.current \in SavedDocuments /\ shown = files.current
  BY <1>1, ShownIs
<1> HIDE DEF shown
<1>4. CASE shown = Document(0, p, c)
  <2>1. expected \notin SavedDocuments
    BY <1>1, <1>4, DocumentKinds
  <2> QED BY <1>2, <1>4, <2>1 DEF shown
<1>5. CASE files.current \in SavedDocuments /\ shown = files.current
  <2>1. expected \in SavedDocuments
    BY <1>1, <1>2, <1>5, DocumentKinds
  <2> QED BY <1>1, <1>5, <2>1 DEF Distinct, shown
<1> QED BY <1>3, <1>4, <1>5

\* A replacement, up to whichever of its renames.
LEMMA SaveFits ==
  ASSUME NEW files, NEW t, FilesFit(files, t), NEW p, NEW c,
         ~IsProblem(Shown(files, p, c)), NEW next \in SavedDocuments,
         NEW n \in DOMAIN Replaced(files, Prior(Shown(files, p, c)), next), NEW u,
         u = IF n = Len(Replaced(files, Prior(Shown(files, p, c)), next))
             THEN Trailed(t, files, next) ELSE t
  PROVE  LET after == Replaced(files, Prior(Shown(files, p, c)), next)[n]
         IN /\ FilesFit(after, u)
            /\ {after.current, after.backup} \subseteq
                 {None, files.current, files.backup, next}
<1> DEFINE shown == Shown(files, p, c)
           states == Replaced(files, Prior(shown), next)
<1>0. next # None /\ next \notin DamagedFiles
  BY DocumentKinds
<1>1. Trailed(t, files, next) = [last |-> next, before |-> t.last]
  <2>1. ~IsProblem(Shown(files, 0, None))
    <3>1. files.current = None \/ files.current \in SavedDocuments
      BY ShownIs
    <3> QED BY <3>1, DocumentKinds DEF Shown
  <2> QED BY <2>1 DEF Trailed
<1>2. CASE files.current = None
  <2>1. shown = Document(0, p, c)
    BY <1>2, DocumentKinds DEF Shown
  <2>2. Prior(shown) = None
    BY <2>1, DocumentKinds DEF Prior
  <2>3. states = <<Files(next, files.backup)>>
    BY <2>2 DEF Replaced
  <2> HIDE DEF states, shown
  <2>4. n = 1 /\ Len(states) = 1 /\ states[n] = Files(next, files.backup)
    BY <2>3 DEF states, shown
  <2>5. u = [last |-> next, before |-> t.last]
    BY <1>1, <2>4 DEF states, shown
  <2>6. FilesFit(Files(next, files.backup), u)
    BY <1>0, <1>2, <2>5 DEF FilesFit, FilesOnDisk, Files
  <2>7. FilesFit(states[n], u) /\ {states[n].current, states[n].backup} \subseteq
           {None, files.current, files.backup, next}
    BY <2>4, <2>6 DEF Files
  <2> QED BY <2>7 DEF states, shown
<1>3. CASE files.current \in SavedDocuments
  <2>1. shown = files.current /\ t.last = files.current
    BY <1>3, DocumentKinds DEF Shown, FilesFit
  <2>2. Prior(shown) = files.current /\ files.current # None
    BY <1>3, <2>1, DocumentKinds DEF Prior
  <2>3. states = <<Files(files.current, files.current), Files(next, files.current)>>
    BY <2>2 DEF Replaced
  <2> HIDE DEF states, shown
  <2>4. Len(states) = 2 /\ n \in {1, 2}
        /\ states[1] = Files(files.current, files.current)
        /\ states[2] = Files(next, files.current)
    BY <2>3 DEF states, shown
  <2>5. u = IF n = 2 THEN [last |-> next, before |-> t.last] ELSE t
    BY <1>1, <2>4 DEF states, shown
  <2>6. FilesFit(Files(files.current, files.current), t)
    BY <1>3, <2>1, <2>2 DEF FilesFit, FilesOnDisk, Files
  <2>7. FilesFit(Files(next, files.current), [last |-> next, before |-> t.last])
    BY <1>0, <1>3, <2>1, <2>2 DEF FilesFit, FilesOnDisk, Files
  <2>8. FilesFit(states[n], u)
    <3>1. CASE n = 1
      BY <2>4, <2>5, <2>6, <3>1
    <3>2. CASE n = 2
      BY <2>4, <2>5, <2>7, <3>2
    <3> QED BY <2>4, <3>1, <3>2
  <2>9. {states[n].current, states[n].backup} \subseteq
           {None, files.current, files.backup, next}
    BY <2>4 DEF Files
  <2> QED BY <2>8, <2>9 DEF states, shown
<1> QED BY <1>2, <1>3, ShownIs

\* A recovery renames once and keeps the backup.
LEMMA RecoveryFits ==
  ASSUME NEW files, NEW t, FilesFit(files, t), IsProblem(Shown(files, 0, None)),
         NEW next \in SavedDocuments
  PROVE  LET states == Replaced(files, None, next)
         IN /\ Len(states) = 1
            /\ FilesFit(states[1], Trailed(t, files, next))
            /\ {states[1].current, states[1].backup} \subseteq {files.backup, next}
<1> DEFINE states == Replaced(files, None, next)
           after == Files(next, files.backup)
<1>1. Len(states) = 1 /\ states[1] = after
  BY DEF Replaced
<1>2. Trailed(t, files, next) =
        [last |-> next,
         before |-> IF files.backup # t.last THEN t.before ELSE t.last]
  BY DEF Trailed
<1>3. next # None /\ next \notin DamagedFiles
  BY DocumentKinds
<1>4. FilesFit(after, Trailed(t, files, next))
  BY <1>2, <1>3 DEF FilesFit, FilesOnDisk, Files
<1> QED BY <1>1, <1>4 DEF Files
-----------------------------------------------------------------------------
(* What a step does to what is expected, shown and kept.                   *)

\* An expectation is kept, dropped, or taken from what the process shows.
Expecting(q) ==
  LET t == apps'[q].task
  IN /\ t.expected \in {apps[q].task.expected, None, seen[q].selection}
     /\ t.goal = "create" => t.expected # None
     /\ apps'[q].at = "select" => t.goal = "create"

\* A turn expects the selection as it was, or as its process has seen it.
LEMMA TurnsExpecting ==
  ASSUME DocInv, NEW p \in Processes, NEW run, NEW mem, NEW at, NEW t,
         Turns(p, run, mem, at, t),
         t.expected \in {apps[p].task.expected, None, seen[p].selection},
         t.goal = "create" => t.expected # None,
         at = "select" => t.goal = "create"
  PROVE  \A q \in Processes : Expecting(q)
<1>1. Expecting(p)
  BY DEF Turns, Alike, Expecting
<1>2. ASSUME NEW q \in Processes \ {p} PROVE Expecting(q)
  <2>1. Expects(q)
    BY DEF DocInv
  <2> QED BY <2>1 DEF Turns, Same, Alike, Expects, Expecting
<1> QED BY <1>1, <1>2

\* So does a process that goes on.
LEMMA GoesExpecting ==
  ASSUME DocInv, NEW p \in Processes, NEW at, NEW t,
         Goes(p, at, t) \/ Empties(p, at, t),
         t.expected \in {apps[p].task.expected, None, seen[p].selection},
         t.goal = "create" => t.expected # None,
         at = "select" => t.goal = "create"
  PROVE  \A q \in Processes : Expecting(q)
BY TurnsExpecting DEF Goes, Empties

\* A process that goes on with its task, has none, opens a run or gives up.
LEMMA TaskExpecting ==
  ASSUME DocInv, NEW p \in Processes
  PROVE  /\ Stays(p) => \A q \in Processes : Expecting(q)
         /\ \A at : at # "select" /\ (\/ Goes(p, at, apps[p].task)
                                      \/ Empties(p, at, apps[p].task))
              => \A q \in Processes : Expecting(q)
         /\ \A at : at # "select" /\ Goes(p, at, NoTask)
              => \A q \in Processes : Expecting(q)
         /\ \A at, r : at # "select" /\ Goes(p, at, Opening(r))
              => \A q \in Processes : Expecting(q)
         /\ GivesUp(p) => \A q \in Processes : Expecting(q)
<1>1. Expects(p)
  BY DEF DocInv
<1>2. Stays(p) => \A q \in Processes : Expecting(q)
  BY <1>1, GoesExpecting DEF Stays, Expects
<1>3. \A at : at # "select" /\ (\/ Goes(p, at, apps[p].task)
                                \/ Empties(p, at, apps[p].task))
        => \A q \in Processes : Expecting(q)
  BY <1>1, GoesExpecting DEF Expects
<1>4. NoTask.expected = None /\ NoTask.goal = "none"
  BY DEF NoTask
<1>5. \A r : Opening(r).expected = None /\ Opening(r).goal = "open"
  BY DEF NoTask, Opening
<1>6. \A at : at # "select" /\ Goes(p, at, NoTask) => \A q \in Processes : Expecting(q)
  BY <1>4, GoesExpecting
<1>7. \A at, r : at # "select" /\ Goes(p, at, Opening(r))
        => \A q \in Processes : Expecting(q)
  BY <1>5, GoesExpecting
<1>8. GivesUp(p) => \A q \in Processes : Expecting(q)
  <2>1. SUFFICES ASSUME NEW at \in {"idle", "acquire"}, NEW t, Empties(p, at, t),
                        t.goal \in {"none", "restore"}, t.expected = None
                 PROVE  \A q \in Processes : Expecting(q)
    BY DEF GivesUp
  <2> QED BY <2>1, GoesExpecting
<1> QED BY <1>2, <1>3, <1>6, <1>7, <1>8

\* What a process expects stays true while the documents stay.
LEMMA ExpectsKept ==
  ASSUME DocInv, NEW q \in Processes, Expecting(q)
  PROVE  Expects(q)'
<1>1. Expects(q) /\ Sees(q)
  BY DEF DocInv
<1> QED BY <1>1 DEF Expects, Sees, Expecting, Shows

\* Documents that were known stay apart, and from one that is drawn now.
LEMMA DistinctKept ==
  ASSUME NEW known, NEW n \in Nat, Distinct(known, n), NEW m \in Nat, NEW next,
         NEW after, n <= m,
         \A d \in after \cap SavedDocuments :
           d \in known \/ (d = next /\ m = n + 1 /\ next.generation = m)
  PROVE  Distinct(after, m)
<1>1. \A d \in SavedDocuments : d.generation \in Nat
  BY DocumentKinds
<1>2. \A d \in after \cap SavedDocuments : d.generation <= m
  BY <1>1 DEF Distinct
<1>3. ASSUME NEW d \in after \cap SavedDocuments, NEW e \in after \cap SavedDocuments,
             d.generation = e.generation
      PROVE  d = e
  <2>1. CASE d \in known /\ e \in known
    BY <1>3, <2>1 DEF Distinct
  <2>2. CASE d \in known /\ e \notin known
    BY <1>1, <1>3, <2>2 DEF Distinct
  <2>3. CASE d \notin known /\ e \in known
    BY <1>1, <1>3, <2>3 DEF Distinct
  <2>4. CASE d \notin known /\ e \notin known
    BY <2>4
  <2> QED BY <2>1, <2>2, <2>3, <2>4
<1> QED BY <1>2, <1>3 DEF Distinct

\* What a process sees: as before, nothing, what is shown now, or what it saved.
Looks(q, sel, set) ==
  /\ DOMAIN seen'[q] = {"selection", "settings"}
  /\ seen'[q].selection \in {seen[q].selection, None, ShownSelection(q)} \cup sel
  /\ seen'[q].settings \in {seen[q].settings, None, ShownSettings(q)} \cup set

\* A save under a generation nobody has keeps what everybody knows.
LEMMA KnownKept ==
  ASSUME DocInv, drawn' \in Nat, drawn <= drawn',
         NEW sel, NEW set, NEW next,
         \/ next \in SavedDocuments /\ drawn' = drawn + 1 /\ next.generation = drawn'
         \/ sel = {} /\ set = {},
         sel \subseteq {next}, set \subseteq {next},
         DOMAIN seen' = Processes,
         \A q \in Processes : Expecting(q) /\ Looks(q, sel, set),
         {selection.current, selection.backup}' \cap SavedDocuments \subseteq
           {selection.current, selection.backup} \cup sel,
         {settings.current, settings.backup}' \cap SavedDocuments \subseteq
           {settings.current, settings.backup} \cup set
  PROVE  /\ Distinct(SelectionsKnown, drawn)' /\ Distinct(SettingsKnown, drawn)'
         /\ \A q \in Processes : Expects(q)' /\ Sees(q)'
<1>1. /\ FilesFit(selection, trail.selection) /\ FilesFit(settings, trail.settings)
      /\ drawn \in Nat
      /\ \A q \in Processes : Sees(q) /\ Expects(q)
  BY DEF DocInv
<1>2. \A q \in Processes :
        /\ ShownSelection(q) \in Shows(q, None)
        /\ ShownSelection(q) \in SavedDocuments => ShownSelection(q) = selection.current
        /\ ShownSettings(q) \in Shows(q, "defaults")
        /\ ShownSettings(q) \in SavedDocuments => ShownSettings(q) = settings.current
  BY <1>1, ShownIs DEF ShownSelection, ShownSettings
<1>3. None \notin SavedDocuments
  BY ControlAssumption
<1>4. ASSUME NEW d \in SelectionsKnown', d \in SavedDocuments
      PROVE  d \in SelectionsKnown \/ d \in sel
  <2>1. CASE d \in {selection.current, selection.backup}'
    BY <1>4, <2>1 DEF SelectionsKnown
  <2>2. CASE \E q \in Processes : d \in {seen[q].selection, apps[q].task.expected}'
    <3>1. PICK q \in Processes : d \in {seen[q].selection, apps[q].task.expected}'
      BY <2>2
    <3>2. d \in {seen[q].selection, apps[q].task.expected, ShownSelection(q)} \cup sel
      BY <1>3, <1>4, <3>1 DEF Expecting, Looks
    <3> QED BY <1>2, <1>4, <3>2 DEF SelectionsKnown
  <2> QED BY <1>4, <2>1, <2>2 DEF SelectionsKnown
<1>5. ASSUME NEW d \in SettingsKnown', d \in SavedDocuments
      PROVE  d \in SettingsKnown \/ d \in set
  <2>1. CASE d \in {settings.current, settings.backup}'
    BY <1>5, <2>1 DEF SettingsKnown
  <2>2. CASE \E q \in Processes : d = seen'[q].settings
    <3>1. PICK q \in Processes : d = seen'[q].settings
      BY <2>2
    <3>2. d \in {seen[q].settings, ShownSettings(q)} \cup set
      BY <1>3, <1>5, <3>1 DEF Looks
    <3> QED BY <1>2, <1>5, <3>2 DEF SettingsKnown
  <2> QED BY <1>5, <2>1, <2>2 DEF SettingsKnown
<1>6. Distinct(SelectionsKnown', drawn')
  <2> DEFINE known == SelectionsKnown
             after == SelectionsKnown'
  <2>1. Distinct(known, drawn)
    BY DEF DocInv
  <2>2. \A d \in after \cap SavedDocuments :
          d \in known \/ (d = next /\ drawn' = drawn + 1 /\ next.generation = drawn')
    BY <1>4
  <2> HIDE DEF known, after
  <2>3. Distinct(after, drawn')
    BY <1>1, <2>1, <2>2, DistinctKept
  <2> QED BY <2>3 DEF after
<1>7. Distinct(SettingsKnown', drawn')
  <2> DEFINE known == SettingsKnown
             after == SettingsKnown'
  <2>1. Distinct(known, drawn)
    BY DEF DocInv
  <2>2. \A d \in after \cap SavedDocuments :
          d \in known \/ (d = next /\ drawn' = drawn + 1 /\ next.generation = drawn')
    BY <1>5
  <2> HIDE DEF known, after
  <2>3. Distinct(after, drawn')
    BY <1>1, <2>1, <2>2, DistinctKept
  <2> QED BY <2>3 DEF after
<1>8. ASSUME NEW q \in Processes PROVE Expects(q)' /\ Sees(q)'
  <2>1. Expects(q)'
    BY ExpectsKept
  <2>2. next \in SavedDocuments \/ (sel = {} /\ set = {})
    OBVIOUS
  <2>3. seen'[q].selection \in Shows(q, None)
    BY <1>1, <1>2, <2>2 DEF Looks, Sees, Shows
  <2>4. seen'[q].settings \in Shows(q, "defaults")
    BY <1>1, <1>2, <2>2 DEF Looks, Sees, Shows
  <2> QED BY <2>1, <2>3, <2>4 DEF Sees, Looks
<1> QED BY <1>6, <1>7, <1>8 DEF Distinct

\* No document is touched.
LEMMA QuietKeeps ==
  ASSUME DocInv, UNCHANGED documents, DOMAIN seen' = Processes,
         \A q \in Processes : Expecting(q) /\ Looks(q, {}, {})
  PROVE  DocInv'
<1>1. drawn \in Nat /\ drawn' = drawn /\ selection' = selection /\ settings' = settings
  BY DEF DocInv, documents
<1>2. /\ Distinct(SelectionsKnown, drawn)' /\ Distinct(SettingsKnown, drawn)'
      /\ \A q \in Processes : Expects(q)' /\ Sees(q)'
  BY <1>1, KnownKept
<1> QED BY <1>1, <1>2 DEF DocInv, documents, FilesFit

\* The settings are replaced, or the selection.
LEMMA SettingsKeep ==
  ASSUME DocInv, UNCHANGED selection, ~overwritten', drawn' = drawn + 1,
         NEW next \in SavedDocuments, next.generation = drawn + 1,
         DOMAIN seen' = Processes,
         \A q \in Processes : Expecting(q) /\ Looks(q, {}, {next}),
         DOMAIN trail' = DOMAIN trail, trail'.selection = trail.selection,
         FilesFit(settings', trail'.settings),
         {settings'.current, settings'.backup} \subseteq
           {None, settings.current, settings.backup, next}
  PROVE  DocInv'
<1>1. drawn \in Nat /\ drawn' \in Nat /\ drawn <= drawn' /\ next.generation = drawn'
  BY DEF DocInv
<1>2. {settings.current, settings.backup}' \cap SavedDocuments \subseteq
           {settings.current, settings.backup} \cup {next}
  BY ControlAssumption
<1>3. /\ Distinct(SelectionsKnown, drawn)' /\ Distinct(SettingsKnown, drawn)'
      /\ \A q \in Processes : Expects(q)' /\ Sees(q)'
  BY <1>1, <1>2, KnownKept
<1> QED BY <1>1, <1>3 DEF DocInv, FilesFit

\* A save of the selection keeps every document that was on record.
LEMMA SelectionKeep ==
  ASSUME DocInv, UNCHANGED settings, ~overwritten', drawn' = drawn + 1,
         NEW next \in SavedDocuments, next.generation = drawn + 1,
         DOMAIN seen' = Processes,
         \A q \in Processes : Expecting(q) /\ Looks(q, {next}, {}),
         DOMAIN trail' = DOMAIN trail, trail'.settings = trail.settings,
         FilesFit(selection', trail'.selection),
         {selection'.current, selection'.backup} \subseteq
           {None, selection.current, selection.backup, next}
  PROVE  DocInv'
<1>1. drawn \in Nat /\ drawn' \in Nat /\ drawn <= drawn' /\ next.generation = drawn'
  BY DEF DocInv
<1>2. {selection.current, selection.backup}' \cap SavedDocuments \subseteq
           {selection.current, selection.backup} \cup {next}
  BY ControlAssumption
<1>3. /\ Distinct(SelectionsKnown, drawn)' /\ Distinct(SettingsKnown, drawn)'
      /\ \A q \in Processes : Expects(q)' /\ Sees(q)'
  BY <1>1, <1>2, KnownKept
<1> QED BY <1>1, <1>3 DEF DocInv, FilesFit

\* A file is damaged.
LEMMA DamageKeeps ==
  ASSUME RunInv, DocInv, Damage
  PROVE  DocInv'
<1>1. Damaged(faults) \in DamagedFiles
  BY DEF Damaged, DamagedFiles, RunInv
<1>2. Damaged(faults) \notin SavedDocuments /\ Damaged(faults) # None
  BY <1>1, DocumentKinds
<1>3. UNCHANGED <<trail, overwritten, drawn, apps, seen>>
  BY DEF Damage
<1>4. \A q \in Processes : Expecting(q) /\ Looks(q, {}, {})
  BY <1>3 DEF DocInv, Sees, Expects, Expecting, Looks
<1> DEFINE hurt(files) == [files EXCEPT !.current = Damaged(faults)]
<1>5. \/ selection' = hurt(selection) /\ settings' = settings
      \/ settings' = hurt(settings) /\ selection' = selection
  BY Zenon DEF Damage
<1>6. ASSUME NEW files, NEW t, FilesFit(files, t)
      PROVE  /\ FilesFit(hurt(files), t)
             /\ {hurt(files).current, hurt(files).backup} \cap SavedDocuments
                  \subseteq {files.current, files.backup}
  <2>1. hurt(files) = Files(Damaged(faults), files.backup)
    BY <1>6 DEF FilesFit, FilesOnDisk, Files
  <2>2. FilesFit(Files(Damaged(faults), files.backup), t)
    BY <1>1, <1>2, <1>6 DEF FilesFit, FilesOnDisk, Files
  <2> QED BY <1>2, <2>1, <2>2 DEF Files
<1> HIDE DEF hurt
<1>7. FilesFit(selection', trail'.selection) /\ FilesFit(settings', trail'.settings)
  BY <1>3, <1>5, <1>6 DEF DocInv
<1>8. /\ {selection.current, selection.backup}' \cap SavedDocuments
           \subseteq {selection.current, selection.backup} \cup {}
      /\ {settings.current, settings.backup}' \cap SavedDocuments
           \subseteq {settings.current, settings.backup} \cup {}
  BY <1>5, <1>6 DEF DocInv
<1>9. drawn \in Nat /\ drawn' = drawn /\ DOMAIN seen' = Processes
  BY <1>3 DEF DocInv
<1>10. /\ Distinct(SelectionsKnown, drawn)' /\ Distinct(SettingsKnown, drawn)'
       /\ \A q \in Processes : Expects(q)' /\ Sees(q)'
  BY <1>4, <1>8, <1>9, KnownKept
<1> QED BY <1>3, <1>7, <1>9, <1>10 DEF DocInv

\* The document that a save or a recovery writes is a new one.
LEMMA NextIsNew ==
  ASSUME DocInv, NEW files, NEW t, FilesFit(files, t), NEW p, NEW c,
         NEW content \in RunIds \cup Drafts \cup {None, "defaults"}
  PROVE  LET shown == Shown(files, p, c)
             next == Following(shown, drawn + 1, content)
             recovered == Recovered(files, drawn + 1, content)
         IN /\ ~IsProblem(shown) =>
                 next \in SavedDocuments /\ next.generation = drawn + 1
            /\ recovered \in SavedDocuments /\ recovered.generation = drawn + 1
<1> DEFINE shown == Shown(files, p, c)
<1>1. drawn + 1 \in Nat
  BY DEF DocInv
<1>2. ASSUME ~IsProblem(shown)
      PROVE  LET next == Following(shown, drawn + 1, content)
             IN next \in SavedDocuments /\ next.generation = drawn + 1
  <2>1. \/ shown = Document(0, p, c)
        \/ files.current \in SavedDocuments /\ shown = files.current
    BY <1>2, ShownIs
  <2> HIDE DEF shown
  <2>2. shown.version + 1 \in Nat \ {0}
    BY <2>1, DocumentKinds
  <2> QED BY <1>1, <2>2, DocumentKinds DEF Following
<1>3. LET recovered == Recovered(files, drawn + 1, content)
      IN recovered \in SavedDocuments /\ recovered.generation = drawn + 1
  <2>1. files.backup = None \/ files.backup \in SavedDocuments
    BY DEF FilesFit, FilesOnDisk
  <2>2. RecoveredVersion(files) \in Nat \ {0}
    BY <2>1, DocumentKinds DEF RecoveredVersion, IsSaved
  <2> DEFINE v == RecoveredVersion(files)
  <2> HIDE DEF v
  <2>3. /\ Document(v, drawn + 1, content) \in SavedDocuments
        /\ Document(v, drawn + 1, content).generation = drawn + 1
    BY <1>1, <2>2, DocumentKinds DEF v
  <2> QED BY <2>3 DEF Recovered, v
<1> QED BY <1>2, <1>3

\* An outcome of a replacement of the settings, and of the selection.
LEMMA SettingsOutcome ==
  ASSUME RunInv, DocInv, NEW p \in Processes, NEW states, NEW n, NEW next,
         NEW then, NEW otherwise,
         Outcome(p, settings, states, n, "settings", next, then, otherwise)
  PROVE  /\ drawn' = drawn + 1 /\ settings' = states[n]
         /\ DOMAIN trail' = DOMAIN trail /\ trail'.selection = trail.selection
         /\ trail'.settings = IF n = Len(states)
                              THEN Trailed(trail.settings, settings, next)
                              ELSE trail.settings
         /\ DOMAIN seen' = Processes /\ \A q \in Processes : Looks(q, {}, {next})
<1>1. /\ drawn' = drawn + 1 /\ settings' = states[n]
      /\ trail' = IF n = Len(states)
                  THEN [trail EXCEPT !["settings"] = Trailed(@, settings, next)]
                  ELSE trail
      /\ \/ seen' = [seen EXCEPT ![p]["settings"] = next]
         \/ UNCHANGED seen
         \/ seen' = [seen EXCEPT ![p] = NothingSeen]
  BY Zenon DEF Outcome
<1>2. DOMAIN trail = {"selection", "settings"} /\ DOMAIN seen = Processes
      /\ \A q \in Processes : DOMAIN seen[q] = {"selection", "settings"}
  BY DEF DocInv, Sees
<1>3. /\ DOMAIN trail' = DOMAIN trail /\ trail'.selection = trail.selection
      /\ trail'.settings = IF n = Len(states)
                           THEN Trailed(trail.settings, settings, next)
                           ELSE trail.settings
  BY <1>1, <1>2
<1>4. DOMAIN seen' = Processes /\ \A q \in Processes : Looks(q, {}, {next})
  <2>1. CASE seen' = [seen EXCEPT ![p]["settings"] = next]
    BY <1>2, <2>1 DEF Looks
  <2>2. CASE UNCHANGED seen
    BY <1>2, <2>2 DEF Looks
  <2>3. CASE seen' = [seen EXCEPT ![p] = NothingSeen]
    BY <1>2, <2>3 DEF Looks, NothingSeen
  <2> QED BY <1>1, <2>1, <2>2, <2>3
<1> QED BY <1>1, <1>3, <1>4

\* What a save of the selection may come to.
LEMMA SelectionOutcome ==
  ASSUME RunInv, DocInv, NEW p \in Processes, NEW states, NEW n, NEW next,
         NEW then, NEW otherwise,
         Outcome(p, selection, states, n, "selection", next, then, otherwise)
  PROVE  /\ drawn' = drawn + 1 /\ selection' = states[n]
         /\ DOMAIN trail' = DOMAIN trail /\ trail'.settings = trail.settings
         /\ trail'.selection = IF n = Len(states)
                               THEN Trailed(trail.selection, selection, next)
                               ELSE trail.selection
         /\ DOMAIN seen' = Processes /\ \A q \in Processes : Looks(q, {next}, {})
<1>1. /\ drawn' = drawn + 1 /\ selection' = states[n]
      /\ trail' = IF n = Len(states)
                  THEN [trail EXCEPT !["selection"] = Trailed(@, selection, next)]
                  ELSE trail
      /\ \/ seen' = [seen EXCEPT ![p]["selection"] = next]
         \/ UNCHANGED seen
         \/ seen' = [seen EXCEPT ![p] = NothingSeen]
  BY Zenon DEF Outcome
<1>2. DOMAIN trail = {"selection", "settings"} /\ DOMAIN seen = Processes
      /\ \A q \in Processes : DOMAIN seen[q] = {"selection", "settings"}
  BY DEF DocInv, Sees
<1>3. /\ DOMAIN trail' = DOMAIN trail /\ trail'.settings = trail.settings
      /\ trail'.selection = IF n = Len(states)
                            THEN Trailed(trail.selection, selection, next)
                            ELSE trail.selection
  BY <1>1, <1>2
<1>4. DOMAIN seen' = Processes /\ \A q \in Processes : Looks(q, {next}, {})
  <2>1. CASE seen' = [seen EXCEPT ![p]["selection"] = next]
    BY <1>2, <2>1 DEF Looks
  <2>2. CASE UNCHANGED seen
    BY <1>2, <2>2 DEF Looks
  <2>3. CASE seen' = [seen EXCEPT ![p] = NothingSeen]
    BY <1>2, <2>3 DEF Looks, NothingSeen
  <2> QED BY <1>1, <2>1, <2>2, <2>3
<1> QED BY <1>1, <1>3, <1>4

\* A document that keeps what it says keeps the process, or ends it.
LEMMA OutcomeStays ==
  ASSUME RunInv, NEW p \in Processes,
         \/ apps' = [apps EXCEPT ![p] = apps[p]]
         \/ apps' = [apps EXCEPT ![p] = Down]
  PROVE  Stays(p) \/ GivesUp(p)
BY OneTurns, EndTurns DEF Stays, Goes

\* What a save or a recovery makes of the process.
LEMMA SavingTurns ==
  ASSUME RunInv, NEW p \in Processes
  PROVE  /\ \A draft \in Drafts : SaveSettings(p, draft) => Stays(p) \/ GivesUp(p)
         /\ \A restore \in BOOLEAN : RecoverSettings(p, restore) => Stays(p) \/ GivesUp(p)
         /\ Select(p) => \/ Goes(p, "idle", NoTask) \/ Goes(p, "back", apps[p].task)
                         \/ GivesUp(p)
         /\ \A r \in RunIds :
              SelectRun(p, r) => \/ Goes(p, "leave", Opening(r)) \/ Stays(p)
                                 \/ GivesUp(p)
         /\ \A r \in RunIds \cup {None} :
              RecoverRunSelection(p, r) =>
                \/ Goes(p, "acquire", Opening(r)) \/ Stays(p) \/ GivesUp(p)
<1>1. ASSUME NEW draft \in Drafts, SaveSettings(p, draft)
      PROVE  Stays(p) \/ GivesUp(p)
  <2>1. \/ apps' = [apps EXCEPT ![p] = apps[p]]
        \/ apps' = [apps EXCEPT ![p] = Down]
    BY <1>1, Zenon DEF SaveSettings, Outcome
  <2> QED BY <2>1, OutcomeStays
<1>2. ASSUME NEW restore \in BOOLEAN, RecoverSettings(p, restore)
      PROVE  Stays(p) \/ GivesUp(p)
  <2>1. \/ apps' = [apps EXCEPT ![p] = apps[p]]
        \/ apps' = [apps EXCEPT ![p] = Down]
    BY <1>2, Zenon DEF RecoverSettings, Outcome
  <2> QED BY <2>1, OutcomeStays
<1>3. ASSUME Select(p)
      PROVE  \/ Goes(p, "idle", NoTask) \/ Goes(p, "back", apps[p].task) \/ GivesUp(p)
  <2> DEFINE b == [apps[p] EXCEPT !.at = "back"]
  <2>1. \/ apps' = [apps EXCEPT ![p] = Idle(apps[p])]
        \/ apps' = [apps EXCEPT ![p] = b]
        \/ apps' = [apps EXCEPT ![p] = Down]
    BY <1>3, Zenon DEF Select, CompareAndSwap, Outcome
  <2>2. /\ b.run = apps[p].run /\ b.mem = apps[p].mem /\ b.at = "back"
        /\ b.task = apps[p].task
    BY DEF RunInv, AppTyped, AppFields
  <2> HIDE DEF b
  <2>3. ASSUME apps' = [apps EXCEPT ![p] = b]
        PROVE  Goes(p, "back", apps[p].task)
    <3>1. Turns(p, b.run, b.mem, b.at, b.task)
      BY <2>3, OneTurns
    <3> QED BY <2>2, <3>1 DEF Goes
  <2> QED BY <2>1, <2>3, IdleTurns, EndTurns
<1>4. ASSUME NEW r \in RunIds, SelectRun(p, r)
      PROVE  \/ Goes(p, "leave", Opening(r)) \/ Stays(p) \/ GivesUp(p)
  <2>1. \/ apps' = [apps EXCEPT ![p] = [apps[p] EXCEPT !.at = "leave",
                      !.task = [NoTask EXCEPT !.goal = "open", !.target = r]]]
        \/ apps' = [apps EXCEPT ![p] = apps[p]]
        \/ apps' = [apps EXCEPT ![p] = Down]
    BY <1>4, Zenon DEF SelectRun, CompareAndSwap, Outcome
  <2> QED BY <2>1, OpeningTurns, OutcomeStays, Zenon
<1>5. ASSUME NEW r \in RunIds \cup {None}, RecoverRunSelection(p, r)
      PROVE  \/ Goes(p, "acquire", Opening(r)) \/ Stays(p) \/ GivesUp(p)
  <2>1. \/ apps' = [apps EXCEPT ![p] = [apps[p] EXCEPT !.at = "acquire",
                      !.task = [NoTask EXCEPT !.goal = "open", !.target = r]]]
        \/ apps' = [apps EXCEPT ![p] = apps[p]]
        \/ apps' = [apps EXCEPT ![p] = Down]
    <3> DEFINE o == [apps[p] EXCEPT !.at = "acquire",
                       !.task = [NoTask EXCEPT !.goal = "open", !.target = r]]
               then == IF r = None THEN apps[p] ELSE o
    <3>1. \/ apps' = [apps EXCEPT ![p] = then]
          \/ apps' = [apps EXCEPT ![p] = apps[p]]
          \/ apps' = [apps EXCEPT ![p] = Down]
      BY <1>5, Zenon DEF RecoverRunSelection, Outcome
    <3> HIDE DEF o
    <3>2. then = o \/ then = apps[p]
      OBVIOUS
    <3> QED BY <3>1, <3>2 DEF o
  <2> QED BY <2>1, OpeningTurns, OutcomeStays, Zenon
<1> QED BY <1>1, <1>2, <1>3, <1>4, <1>5

\* The settings are saved over what was seen, or recovered.
LEMMA SettingsDocuments ==
  ASSUME RunInv, DocInv, NEW p \in Processes
  PROVE  /\ \A draft \in Drafts : SaveSettings(p, draft) => DocInv'
         /\ \A restore \in BOOLEAN : RecoverSettings(p, restore) => DocInv'
<1>1. /\ FilesFit(settings, trail.settings) /\ Sees(p)
      /\ Distinct(SettingsKnown, drawn) /\ ~overwritten
      /\ settings.current \in SettingsKnown /\ seen[p].settings \in SettingsKnown
  BY DEF DocInv, SettingsKnown
<1>2. ASSUME NEW draft \in Drafts, SaveSettings(p, draft) PROVE DocInv'
  <2> DEFINE shown == Shown(settings, p, "defaults")
             next == Following(shown, drawn + 1, draft)
             states == Replaced(settings, Prior(shown), next)
  <2>1. /\ seen[p].settings # None /\ MaySave(shown, seen[p].settings)
        /\ UNCHANGED <<selection, runs, work>>
    BY <1>2, Zenon DEF SaveSettings, ShownSettings
  <2>2. PICK n \in DOMAIN states :
          /\ Outcome(p, settings, states, n, "settings", next, apps[p], apps[p])
          /\ overwritten' =
               (overwritten \/ (n = Len(states) /\ seen[p].settings # shown))
    BY <1>2, Zenon DEF SaveSettings, ShownSettings
  <2>3. seen[p].settings = shown
    BY <1>1, <2>1, RevisionIsOfTheDocument DEF Sees
  <2>4. ~overwritten'
    BY <1>1, <2>2, <2>3
  <2>5. ~IsProblem(shown)
    BY <2>1 DEF MaySave
  <2>6. next \in SavedDocuments /\ next.generation = drawn + 1
    BY <1>1, <2>5, NextIsNew
  <2>7. \A q \in Processes : Expecting(q)
    BY <1>2, SavingTurns, TaskExpecting
  <2>8. /\ drawn' = drawn + 1 /\ settings' = states[n]
        /\ DOMAIN trail' = DOMAIN trail /\ trail'.selection = trail.selection
        /\ trail'.settings = IF n = Len(states)
                             THEN Trailed(trail.settings, settings, next)
                             ELSE trail.settings
        /\ DOMAIN seen' = Processes /\ \A q \in Processes : Looks(q, {}, {next})
    <3> HIDE DEF states, next
    <3> QED BY <2>2, SettingsOutcome
  <2>9. /\ FilesFit(states[n], trail'.settings)
        /\ {states[n].current, states[n].backup} \subseteq
             {None, settings.current, settings.backup, next}
    BY <1>1, <2>2, <2>5, <2>6, <2>8, SaveFits
  <2> HIDE DEF states, next, shown
  <2> QED BY <1>1, <2>1, <2>4, <2>6, <2>7, <2>8, <2>9, SettingsKeep
<1>3. ASSUME NEW restore \in BOOLEAN, RecoverSettings(p, restore) PROVE DocInv'
  <2> DEFINE content == IF restore THEN settings.backup.content ELSE "defaults"
             next == Recovered(settings, drawn + 1, content)
             states == Replaced(settings, None, next)
  <2>1. /\ MayRecover(Shown(settings, p, "defaults"), seen[p].settings)
        /\ restore => IsSaved(settings.backup)
        /\ Outcome(p, settings, states, 1, "settings", next, apps[p], apps[p])
        /\ UNCHANGED <<selection, runs, work, overwritten>>
    BY <1>3, Zenon DEF RecoverSettings, ShownSettings
  <2>2. IsProblem(Shown(settings, 0, None))
    <3>1. IsProblem(Shown(settings, p, "defaults"))
      BY <2>1 DEF MayRecover
    <3>2. settings.current \in DamagedFiles
      BY <1>1, <3>1, ShownIs, DocumentKinds
    <3>3. settings.current # None /\ settings.current \notin SavedDocuments
      BY <3>2, DocumentKinds
    <3> QED BY <1>1, <3>3, ShownIs
  <2>3. content \in RunIds \cup Drafts \cup {None, "defaults"}
    <3>1. CASE restore
      <4>1. settings.backup \in SavedDocuments
        BY <1>1, <2>1, <3>1 DEF FilesFit, FilesOnDisk, IsSaved
      <4> QED BY <3>1, <4>1, DocumentKinds
    <3>2. CASE ~restore
      BY <3>2
    <3> QED BY <3>1, <3>2
  <2> HIDE DEF content
  <2>4. next \in SavedDocuments /\ next.generation = drawn + 1
    BY <1>1, <2>3, NextIsNew
  <2>5. \A q \in Processes : Expecting(q)
    BY <1>3, SavingTurns, TaskExpecting
  <2>6. /\ drawn' = drawn + 1 /\ settings' = states[1]
        /\ DOMAIN trail' = DOMAIN trail /\ trail'.selection = trail.selection
        /\ trail'.settings = IF 1 = Len(states)
                             THEN Trailed(trail.settings, settings, next)
                             ELSE trail.settings
        /\ DOMAIN seen' = Processes /\ \A q \in Processes : Looks(q, {}, {next})
    <3> HIDE DEF states, next
    <3> QED BY <2>1, SettingsOutcome
  <2>7. /\ Len(states) = 1
        /\ FilesFit(states[1], Trailed(trail.settings, settings, next))
        /\ {states[1].current, states[1].backup} \subseteq {settings.backup, next}
    BY <1>1, <2>2, <2>4, RecoveryFits
  <2> HIDE DEF states, next
  <2> QED BY <1>1, <2>1, <2>4, <2>5, <2>6, <2>7, SettingsKeep
<1> QED BY <1>2, <1>3

\* A selection that is saved under a revision replaces the document of it.
LEMMA SwapKeeps ==
  ASSUME RunInv, DocInv, NEW p \in Processes,
         NEW expected \in SelectionsKnown, expected \in Shows(p, None), expected # None,
         MaySave(ShownSelection(p), expected),
         NEW r \in RunIds, NEW next, next = Following(ShownSelection(p), drawn + 1, r),
         NEW states, states = Replaced(selection, Prior(ShownSelection(p)), next),
         NEW n \in DOMAIN states, NEW then, NEW otherwise,
         Outcome(p, selection, states, n, "selection", next, then, otherwise),
         overwritten' = (overwritten \/ (n = Len(states) /\ expected # ShownSelection(p))),
         UNCHANGED settings, \A q \in Processes : Expecting(q)
  PROVE  DocInv'
<1> DEFINE shown == Shown(selection, p, None)
<1>1. /\ FilesFit(selection, trail.selection) /\ Distinct(SelectionsKnown, drawn)
      /\ selection.current \in SelectionsKnown /\ ~overwritten
  BY DEF DocInv, SelectionsKnown
<1>2. MaySave(shown, expected) /\ ~IsProblem(shown)
  BY DEF MaySave, ShownSelection
<1>3. expected = shown
  BY <1>1, <1>2, RevisionIsOfTheDocument
<1>4. ~overwritten'
  BY <1>1, <1>3 DEF ShownSelection
<1>5. next \in SavedDocuments /\ next.generation = drawn + 1
  BY <1>1, <1>2, NextIsNew DEF ShownSelection
<1>6. /\ drawn' = drawn + 1 /\ selection' = states[n]
      /\ DOMAIN trail' = DOMAIN trail /\ trail'.settings = trail.settings
      /\ trail'.selection = IF n = Len(states)
                            THEN Trailed(trail.selection, selection, next)
                            ELSE trail.selection
      /\ DOMAIN seen' = Processes /\ \A q \in Processes : Looks(q, {next}, {})
  BY SelectionOutcome
<1>7. /\ FilesFit(states[n], trail'.selection)
      /\ {states[n].current, states[n].backup} \subseteq
           {None, selection.current, selection.backup, next}
  BY <1>1, <1>2, <1>5, <1>6, SaveFits DEF ShownSelection
<1> QED BY <1>4, <1>5, <1>6, <1>7, SelectionKeep

\* The selection is saved by whoever creates or chooses a run, or recovered.
LEMMA SelectionDocuments ==
  ASSUME RunInv, DocInv, NEW p \in Processes
  PROVE  /\ Select(p) => DocInv'
         /\ \A r \in RunIds : SelectRun(p, r) => DocInv'
         /\ \A r \in RunIds \cup {None} : RecoverRunSelection(p, r) => DocInv'
<1>1. /\ FilesFit(selection, trail.selection) /\ Sees(p) /\ Expects(p)
      /\ seen[p].selection \in SelectionsKnown
      /\ apps[p].task.expected \in SelectionsKnown /\ ~overwritten
  BY DEF DocInv, SelectionsKnown
<1>2. ASSUME Select(p) PROVE DocInv'
  <2> DEFINE expected == apps[p].task.expected
             next == Following(ShownSelection(p), drawn + 1, apps[p].task.target)
             states == Replaced(selection, Prior(ShownSelection(p)), next)
  <2>1. /\ UNCHANGED settings /\ apps[p].at = "select"
        /\ MaySave(ShownSelection(p), expected) /\ apps[p].task.target \in Reserved
    BY <1>2, Zenon DEF Select, CompareAndSwap
  <2>2. expected # None /\ expected \in Shows(p, None) /\ expected \in SelectionsKnown
    BY <1>1, <2>1 DEF Expects, Sees
  <2>3. \A q \in Processes : Expecting(q)
    BY <1>2, SavingTurns, TaskExpecting
  <2>4. \E n \in DOMAIN states :
          /\ Outcome(p, selection, states, n, "selection", next,
                     Idle(apps[p]), [apps[p] EXCEPT !.at = "back"])
          /\ overwritten' =
               (overwritten \/ (n = Len(states) /\ expected # ShownSelection(p)))
    BY <1>2, Zenon DEF Select, CompareAndSwap
  <2>5. /\ next = Following(ShownSelection(p), drawn + 1, apps[p].task.target)
        /\ states = Replaced(selection, Prior(ShownSelection(p)), next)
        /\ apps[p].task.target \in RunIds
    BY <2>1 DEF RunInv
  <2> HIDE DEF next, states, expected
  <2> QED BY <2>1, <2>2, <2>3, <2>4, <2>5, SwapKeeps
<1>3. ASSUME NEW r \in RunIds, SelectRun(p, r) PROVE DocInv'
  <2> DEFINE expected == seen[p].selection
             next == Following(ShownSelection(p), drawn + 1, r)
             states == Replaced(selection, Prior(ShownSelection(p)), next)
  <2>1. /\ UNCHANGED settings /\ expected # None
        /\ MaySave(ShownSelection(p), expected) /\ r \in Reserved
    BY <1>3, Zenon DEF SelectRun, CompareAndSwap
  <2>2. expected # None /\ expected \in Shows(p, None) /\ expected \in SelectionsKnown
    BY <1>1, <2>1 DEF Expects, Sees
  <2>3. \A q \in Processes : Expecting(q)
    BY <1>3, SavingTurns, TaskExpecting
  <2>4. \E n \in DOMAIN states :
          /\ Outcome(p, selection, states, n, "selection", next,
                     [apps[p] EXCEPT !.at = "leave",
                        !.task = [NoTask EXCEPT !.goal = "open", !.target = r]],
                     apps[p])
          /\ overwritten' =
               (overwritten \/ (n = Len(states) /\ expected # ShownSelection(p)))
    BY <1>3, Zenon DEF SelectRun, CompareAndSwap
  <2>5. /\ next = Following(ShownSelection(p), drawn + 1, r)
        /\ states = Replaced(selection, Prior(ShownSelection(p)), next)
        /\ r \in RunIds
    BY <2>1 DEF RunInv
  <2> HIDE DEF next, states, expected
  <2> QED BY <2>1, <2>2, <2>3, <2>4, <2>5, SwapKeeps
<1>4. ASSUME NEW r \in RunIds \cup {None}, RecoverRunSelection(p, r)
      PROVE  DocInv'
  <2> DEFINE next == Recovered(selection, drawn + 1, r)
             states == Replaced(selection, None, next)
  <2>1. /\ MayRecover(Shown(selection, p, None), seen[p].selection)
        /\ \E then : Outcome(p, selection, states, 1, "selection", next, then, apps[p])
        /\ UNCHANGED <<settings, runs, work, overwritten>>
    BY <1>4, Zenon DEF RecoverRunSelection, ShownSelection
  <2>2. IsProblem(Shown(selection, 0, None))
    <3>1. IsProblem(Shown(selection, p, None))
      BY <2>1 DEF MayRecover
    <3>2. selection.current \in DamagedFiles
      BY <1>1, <3>1, ShownIs, DocumentKinds
    <3>3. selection.current # None /\ selection.current \notin SavedDocuments
      BY <3>2, DocumentKinds
    <3> QED BY <1>1, <3>3, ShownIs
  <2>3. next \in SavedDocuments /\ next.generation = drawn + 1
    BY <1>1, NextIsNew
  <2>4. \A q \in Processes : Expecting(q)
    BY <1>4, SavingTurns, TaskExpecting
  <2>5. /\ drawn' = drawn + 1 /\ selection' = states[1]
        /\ DOMAIN trail' = DOMAIN trail /\ trail'.settings = trail.settings
        /\ trail'.selection = IF 1 = Len(states)
                              THEN Trailed(trail.selection, selection, next)
                              ELSE trail.selection
        /\ DOMAIN seen' = Processes /\ \A q \in Processes : Looks(q, {next}, {})
    <3> HIDE DEF states, next
    <3> QED BY <2>1, SelectionOutcome
  <2>6. /\ Len(states) = 1
        /\ FilesFit(states[1], Trailed(trail.selection, selection, next))
        /\ {states[1].current, states[1].backup} \subseteq {selection.backup, next}
    BY <1>1, <2>2, <2>3, RecoveryFits
  <2> HIDE DEF states, next
  <2>7. ~overwritten'
    BY <1>1, <2>1
  <2> QED BY <2>1, <2>3, <2>4, <2>5, <2>6, <2>7, SelectionKeep
<1> QED BY <1>2, <1>3, <1>4

\* Every other operation of a process leaves the documents as they are.
LEMMA QuietStep ==
  ASSUME RunInv, DocInv, NEW p \in Processes,
         \/ View(p) \/ Activation(p) \/ Start(p) \/ Close(p) \/ Crash(p)
         \/ \E r \in RunIds : CreateRun(p, r)
         \/ Leave(p) \/ Apply(p) \/ ApplyRefused(p) \/ SelectRefused(p) \/ Back(p)
  PROVE  DocInv'
<1>1. /\ UNCHANGED documents
      /\ \/ UNCHANGED seen
         \/ seen' = [seen EXCEPT ![p] = NothingSeen]
         \/ seen' = [seen EXCEPT ![p] = [selection |-> ShownSelection(p),
                                         settings |-> ShownSettings(p)]]
  <2>1. CASE View(p)
    BY <2>1, Zenon DEF View
  <2>2. CASE Activation(p)
    <3>1. CASE Acquire(p) \/ AcquireRefused(p) \/ LoadRefused(p) \/ Renew(p)
      BY <3>1, Zenon DEF Acquire, AcquireRefused, LoadRefused, Renew
    <3>2. CASE RenewForCommit(p) \/ CommitRefused(p) \/ ReadJournal(p)
               \/ ReadRefused(p) \/ AppendEvent(p) \/ AppendRefused(p)
      BY <3>2, Zenon DEF RenewForCommit, CommitRefused, ReadJournal,
         ReadRefused, AppendEvent, AppendRefused
    <3>3. CASE WriteState(p) \/ WriteStateFails(p) \/ Work(p) \/ Transition(p)
      BY <3>3, Zenon DEF WriteState, WriteStateFails, Work, Transition
    <3> QED BY <2>2, <3>1, <3>2, <3>3, Zenon DEF Activation
  <2>3. CASE Start(p) \/ Close(p) \/ Crash(p)
    BY <2>3, Zenon DEF Start, Close, Crash
  <2>4. ASSUME NEW r \in RunIds, CreateRun(p, r)
        PROVE  UNCHANGED <<documents, seen>>
    BY <2>4, Zenon DEF CreateRun
  <2>5. CASE Leave(p) \/ Apply(p) \/ ApplyRefused(p) \/ SelectRefused(p) \/ Back(p)
    BY <2>5, Zenon DEF Leave, Apply, ApplyRefused, SelectRefused, Back
  <2> QED BY <2>1, <2>2, <2>3, <2>4, <2>5
<1>2. DOMAIN seen' = Processes /\ \A q \in Processes : Looks(q, {}, {})
  <2>1. DOMAIN seen = Processes
        /\ \A q \in Processes : DOMAIN seen[q] = {"selection", "settings"}
    BY DEF DocInv, Sees
  <2> QED BY <1>1, <2>1 DEF Looks, NothingSeen
<1>3. \A q \in Processes : Expecting(q)
  <2>1. Expects(p)
    BY DEF DocInv
  <2>2. ASSUME Failed(p) PROVE \A q \in Processes : Expecting(q)
    BY <2>2, FailedTurns, TaskExpecting
  <2>3. CASE View(p)
    BY <2>3, NobodyTurns, TaskExpecting DEF View
  <2>4. CASE Activation(p)
    <3>1. CASE Acquire(p)
      <4> DEFINE t == [apps[p].task EXCEPT !.domain = "pre_live"]
      <4>1. t.expected = apps[p].task.expected /\ t.goal = apps[p].task.goal
        BY DEF RunInv, AppTyped, TaskFields
      <4> HIDE DEF t
      <4>2. \E run, mem : Turns(p, run, mem, "renew", t)
        BY <3>1, ActivationTurns DEF t
      <4> QED BY <2>1, <4>1, <4>2, TurnsExpecting DEF Expects
    <3>2. CASE AcquireRefused(p) \/ LoadRefused(p) \/ Renew(p)
               \/ RenewForCommit(p) \/ ReadJournal(p)
      BY <3>2, ActivationTurns, TaskExpecting
    <3>3. CASE CommitRefused(p) \/ ReadRefused(p) \/ AppendRefused(p)
               \/ WriteStateFails(p)
      BY <2>2, <3>3 DEF CommitRefused, ReadRefused, AppendRefused, WriteStateFails
    <3>4. CASE AppendEvent(p)
      BY <3>4, CommitTurns, TaskExpecting
    <3>5. CASE WriteState(p)
      <4>1. CASE apps[p].task.goal # "create"
        BY <3>5, <4>1, CommitTurns, TaskExpecting
      <4>2. CASE apps[p].task.goal = "create"
        <5>1. \/ Goes(p, "apply", apps[p].task) \/ Goes(p, "select", apps[p].task)
          BY <3>5, <4>2, CommitTurns
        <5> QED BY <2>1, <4>2, <5>1, GoesExpecting DEF Expects
      <4> QED BY <4>1, <4>2
    <3>6. CASE Work(p)
      <4> DEFINE t == [NoTask EXCEPT !.goal = "work", !.domain = "source"]
      <4>1. t.expected = None /\ t.goal = "work"
        BY DEF NoTask
      <4> HIDE DEF t
      <4>2. \E run, mem : Turns(p, run, mem, "renew", t)
        BY <3>6, CommitTurns DEF t
      <4> QED BY <4>1, <4>2, TurnsExpecting
    <3>7. CASE Transition(p)
      <4> DEFINE t == [NoTask EXCEPT !.goal = "work", !.domain = "move"]
      <4>1. t.expected = None /\ t.goal = "work"
        BY DEF NoTask
      <4> HIDE DEF t
      <4>2. Goes(p, "read", t)
        BY <3>7, CommitTurns DEF t
      <4> QED BY <4>1, <4>2, GoesExpecting
    <3> QED BY <2>4, <3>1, <3>2, <3>3, <3>4, <3>5, <3>6, <3>7, Zenon DEF Activation
  <2>5. CASE Start(p)
    <3>1. PICK at \in {"idle", "acquire"} : \E t :
            /\ Empties(p, at, t)
            /\ t.goal \in {"none", "open"} /\ t.domain = "none" /\ t.expected = None
      BY <2>5, SelectionTurns
    <3> QED BY <3>1, GoesExpecting
  <2>6. CASE Close(p) \/ Crash(p) \/ Leave(p) \/ SelectRefused(p)
    BY <2>6, SelectionTurns, TaskExpecting
  <2>7. ASSUME NEW r \in RunIds, CreateRun(p, r)
        PROVE  \A q \in Processes : Expecting(q)
    <3>1. Goes(p, "leave", Creating(p, r)) /\ seen[p].selection # None
      BY <2>7, SelectionTurns DEF CreateRun
    <3>2. Creating(p, r).expected = seen[p].selection
      BY DEF Creating, NoTask
    <3> QED BY <3>1, <3>2, GoesExpecting
  <2>8. CASE Apply(p)
    <3> DEFINE t == [apps[p].task EXCEPT !.domain = "strategy"]
    <3>1. t.expected = apps[p].task.expected /\ t.goal = apps[p].task.goal
      BY DEF RunInv, AppTyped, TaskFields
    <3> HIDE DEF t
    <3>2. \E run, mem : Turns(p, run, mem, "renew", t)
      BY <2>8, SelectionTurns DEF t
    <3> QED BY <2>1, <3>1, <3>2, TurnsExpecting DEF Expects
  <2>9. CASE ApplyRefused(p) \/ Back(p)
    BY <2>2, <2>9 DEF ApplyRefused, Back
  <2> QED BY <2>3, <2>4, <2>5, <2>6, <2>7, <2>8, <2>9
<1> QED BY <1>1, <1>2, <1>3, QuietKeeps

\* Nothing is on record at first.
LEMMA DocInvInit == Init => DocInv
<1> SUFFICES ASSUME Init PROVE DocInv
  OBVIOUS
<1>1. /\ selection = NoFiles /\ drawn = 0 /\ overwritten = FALSE
      /\ apps = [p \in Processes |-> Down] /\ seen = [p \in Processes |-> NothingSeen]
      /\ trail = [selection |-> [last |-> None, before |-> None],
                  settings |-> [last |-> settings.current, before |-> None]]
      /\ \/ settings = NoFiles
         \/ \E draft \in Drafts : settings = Files(Document(1, 0, draft), None)
  BY DEF Init
<1>2. \/ settings.current = None
      \/ settings.current \in SavedDocuments /\ settings.current.generation = 0
  BY <1>1, DocumentKinds DEF NoFiles, Files
<1>3. settings.backup = None /\ settings = Files(settings.current, None)
      /\ selection = Files(None, None)
  BY <1>1 DEF NoFiles, Files
<1>4. None \notin SavedDocuments /\ None \notin DamagedFiles
  BY ControlAssumption
<1>5. FilesFit(settings, trail.settings)
  BY <1>1, <1>2, <1>3, <1>4, DocumentKinds DEF FilesFit, FilesOnDisk, Files
<1>6. FilesFit(selection, trail.selection)
  BY <1>1, <1>3, <1>4 DEF FilesFit, FilesOnDisk, Files
<1>7. Down.task = NoTask /\ NoTask.expected = None /\ NoTask.goal = "none"
      /\ Down.at = "idle"
  BY DEF Down, NoTask
<1>8. SelectionsKnown \subseteq {None} /\ SettingsKnown \subseteq {None, settings.current}
  BY <1>1, <1>3, <1>7 DEF SelectionsKnown, SettingsKnown, Files, NothingSeen
<1>9. Distinct(SelectionsKnown, drawn) /\ Distinct(SettingsKnown, drawn)
  BY <1>1, <1>2, <1>4, <1>8 DEF Distinct
<1>10. \A p \in Processes : Expects(p) /\ Sees(p)
  BY <1>1, <1>7 DEF Expects, Sees, Shows, NothingSeen
<1> QED BY <1>1, <1>5, <1>6, <1>9, <1>10 DEF DocInv

\* Every step preserves what is known of the documents.
LEMMA DocInvNext ==
  ASSUME RunInv, DocInv, [Next]_vars
  PROVE  DocInv'
<1>1. CASE UNCHANGED vars
  <2>1. DocInv' <=> DocInv
    BY <1>1 DEF vars, DocInv, SelectionsKnown, SettingsKnown, Expects, Sees
  <2> QED BY <2>1
<1>2. ASSUME NEW p \in Processes,
             \/ Documents(p) \/ Activation(p) \/ Selection(p)
             \/ Start(p) \/ Close(p) \/ Crash(p)
      PROVE  DocInv'
  <2>1. CASE Documents(p)
    BY <2>1, QuietStep, SettingsDocuments, Zenon DEF Documents
  <2>2. CASE Activation(p) \/ Start(p) \/ Close(p) \/ Crash(p)
    BY <2>2, QuietStep
  <2>3. CASE Selection(p)
    BY <2>3, QuietStep, SelectionDocuments, Zenon DEF Selection
  <2> QED BY <1>2, <2>1, <2>2, <2>3
<1>3. ASSUME NEW r \in RunIds, Expire(r) PROVE DocInv'
  <2>1. UNCHANGED <<selection, settings, trail, overwritten, drawn, apps, seen>>
    BY <1>3 DEF Expire, documents
  <2> QED BY <2>1 DEF DocInv, SelectionsKnown, SettingsKnown, Expects, Sees
<1>4. CASE Damage
  BY <1>4, DamageKeeps
<1> QED BY <1>1, <1>2, <1>3, <1>4 DEF Next

\* For any number of processes, saves and faults: whoever saves a document of
\* internal/controlrun or internal/controlsettings replaces the one that was shown
\* to him, and the backup of privateio's replacement is the document that was
\* current or the one before it, whatever is damaged.
THEOREM DocumentsStay == Spec => []DocumentsAreKept
<1>1. DocInv => DocumentsAreKept
  <2> SUFFICES ASSUME DocInv PROVE DocumentsAreKept
    OBVIOUS
  <2>1. FilesFit(selection, trail.selection) /\ FilesFit(settings, trail.settings)
        /\ ~overwritten
    BY DEF DocInv
  <2>2. \A d \in {<<selection, "selection">>, <<settings, "settings">>} :
          IsSaved(d[1].backup) =>
            d[1].backup \in {trail[d[2]].last, trail[d[2]].before}
    BY <2>1 DEF FilesFit, IsSaved
  <2> QED BY <2>1, <2>2 DEF DocumentsAreKept
<1>2. RunInv /\ DocInv /\ [Next]_vars => DocInv'
  BY DocInvNext
<1> QED BY <1>1, <1>2, DocInvInit, RunInvariant, PTL DEF Spec
-----------------------------------------------------------------------------
(* Whole runs.                                                             *)

RunKept(run) ==
  /\ DOMAIN run.journal = {"moves", "refs", "latest"}
  /\ DOMAIN run.journal.refs = Domains
  /\ run.journal.latest \in {None} \cup States /\ run.file \in {None} \cup States
  /\ run.clean \in BOOLEAN

\* What the journal named last has what the journal holds.
Whole(run) ==
  \A d \in Domains : run.journal.refs[d] # None =>
    /\ run.journal.latest # None
    /\ run.clean => run.journal.latest[d] = run.journal.refs[d]

Busy == {"renew", "read", "append"}
\* A process knows every authority the journal holds, but for the one it is about
\* to commit.
Agrees(a, j) ==
  \A d \in Domains : j.refs[d] # None =>
    a.mem[d] = j.refs[d] \/ (a.at \in Busy /\ a.task.domain = d)
\* After it committed the settings of a new run, they are what its user quoted.
Configured(a, j) ==
  a.at \in {"file", "select"} /\ a.task.domain = "strategy" =>
    /\ j.refs.strategy = a.task.quoted
    /\ j.latest.strategy = a.task.quoted
OwnerKnows(p) ==
  Owns(p) /\ runs[apps[p].run].clean =>
    /\ Agrees(apps[p], runs[apps[p].run].journal)
    /\ Configured(apps[p], runs[apps[p].run].journal)

\* What a handler commits where it stands.
Fits(at, t, mem) ==
  /\ at \in Busy \cup {"file"} => t.domain \in Domains \cup {"pre_live", "move"}
  /\ at = "leave" => t.domain = "none"
  /\ at = "apply" => t.goal = "create"
  /\ at = "select" => t.domain = "strategy"
  /\ t.goal = "create" => t.domain \in {"none", "pre_live", "strategy"}
  /\ t.domain = "strategy" => t.goal = "create" /\ mem.strategy = t.quoted
TaskFits(p) == Fits(apps[p].at, apps[p].task, apps[p].mem)

WholeInv ==
  /\ work \in Nat
  /\ \A r \in Reserved : RunKept(runs[r]) /\ Whole(runs[r])
  /\ \A p \in Processes :
       apps[p].mem \in States /\ TaskFits(p) /\ OwnerKnows(p)

\* The runs of a step that commits nothing: the journals stay, leases are dropped
\* or stay their owner's, a broken commit is marked and a new run is empty.
RunsKeep ==
  /\ Reserved \subseteq DOMAIN runs'
  /\ \A r \in Reserved :
       /\ runs'[r].journal = runs[r].journal
       /\ runs'[r].file \in {None} \cup States
       /\ runs'[r].clean \in BOOLEAN /\ (runs'[r].clean => runs[r].clean)
       /\ runs'[r].lease # None =>
            runs[r].lease # None /\ runs'[r].lease.owner = runs[r].lease.owner
  /\ \A r \in DOMAIN runs' \ Reserved : runs'[r] = NewRun

\* A state with another source or strategy is a state.
LEMMA StateKinds ==
  /\ EmptyState \in States /\ None \notin States
  /\ \A m \in States : DOMAIN m = Domains
  /\ \A m \in States, n \in Nat : [m EXCEPT !.source = n] \in States
  /\ \A m \in States, d \in {None} \cup SavedDocuments \cup DamagedFiles :
       [m EXCEPT !.strategy = d] \in States
<1>1. EmptyState \in States
  BY DEF EmptyState, States
<1>2. None \notin States
  BY ControlAssumption
<1>3. \A m \in States : DOMAIN m = Domains
  BY DEF States, Domains
<1>4. \A m \in States, n \in Nat : [m EXCEPT !.source = n] \in States
  BY DEF States
<1>5. \A m \in States, d \in {None} \cup SavedDocuments \cup DamagedFiles :
        [m EXCEPT !.strategy = d] \in States
  BY DEF States
<1> QED BY <1>1, <1>2, <1>3, <1>4, <1>5

\* A new run is whole.
LEMMA NewRunIsWhole == RunKept(NewRun) /\ Whole(NewRun)
<1>1. /\ NewRun.journal = EmptyJournal /\ NewRun.file = None /\ NewRun.clean = TRUE
      /\ EmptyJournal.refs = EmptyState /\ EmptyJournal.latest = None
      /\ DOMAIN EmptyJournal = {"moves", "refs", "latest"}
      /\ DOMAIN EmptyState = Domains /\ \A d \in Domains : EmptyState[d] = None
  BY DEF NewRun, EmptyJournal, EmptyState, Domains
<1> QED BY <1>1 DEF RunKept, Whole

-----------------------------------------------------------------------------
(* Steps that commit nothing.                                              *)

\* A step that keeps the runs keeps each of them whole, and its owner's journal.
LEMMA RunsAreKept ==
  ASSUME RunInv, WholeInv, RunsKeep
  PROVE  /\ \A r \in DOMAIN runs' : RunKept(runs'[r]) /\ Whole(runs'[r])
         /\ \A q \in Processes :
              Owns(q)' /\ apps'[q].run = apps[q].run =>
                /\ Owns(q)
                /\ runs'[apps[q].run].journal = runs[apps[q].run].journal
                /\ runs'[apps[q].run].clean => runs[apps[q].run].clean
<1>1. ASSUME NEW r \in DOMAIN runs' PROVE RunKept(runs'[r]) /\ Whole(runs'[r])
  <2>1. CASE r \in Reserved
    BY <2>1 DEF WholeInv, RunsKeep, RunKept, Whole
  <2>2. CASE r \notin Reserved
    BY <2>2, NewRunIsWhole DEF RunsKeep
  <2> QED BY <2>1, <2>2
<1>2. ASSUME NEW q \in Processes, Owns(q)', apps'[q].run = apps[q].run
      PROVE  /\ Owns(q)
             /\ runs'[apps[q].run].journal = runs[apps[q].run].journal
             /\ runs'[apps[q].run].clean => runs[apps[q].run].clean
  <2> DEFINE r == apps[q].run
  <2>1. r \in DOMAIN runs' /\ runs'[r].lease # None /\ runs'[r].lease.owner = q
    BY <1>2 DEF Owns, Lease, Reserved
  <2>2. r \in Reserved
    <3>1. NewRun.lease = None
      BY DEF NewRun
    <3> QED BY <2>1, <3>1 DEF RunsKeep
  <2> QED BY <2>1, <2>2 DEF Owns, Lease, RunsKeep
<1> QED BY <1>1, <1>2

\* Whatever the process that takes the step makes of itself.
LEMMA KeepsWhole ==
  ASSUME RunInv, WholeInv, RunsKeep, NEW p \in Processes, work' \in Nat,
         NEW run, NEW mem, NEW at, NEW t, Turns(p, run, mem, at, t),
         apps'[p].mem \in States, TaskFits(p)', OwnerKnows(p)'
  PROVE  WholeInv'
<1>1. ASSUME NEW q \in Processes, q # p
      PROVE  (apps[q].mem \in States /\ TaskFits(q) /\ OwnerKnows(q))'
  <2>1. Same(apps'[q], apps[q])
    BY <1>1 DEF Turns
  <2>2. apps[q].mem \in States /\ TaskFits(q) /\ OwnerKnows(q)
    BY DEF WholeInv
  <2>3. TaskFits(q)' /\ apps'[q].mem \in States
    BY <2>1, <2>2 DEF Same, Alike, TaskFits, Fits
  <2>4. OwnerKnows(q)'
    <3> SUFFICES ASSUME Owns(q)', runs'[apps'[q].run].clean
                 PROVE  /\ Agrees(apps'[q], runs'[apps'[q].run].journal)
                        /\ Configured(apps'[q], runs'[apps'[q].run].journal)
      BY DEF OwnerKnows
    <3> DEFINE r == apps[q].run
    <3>1. apps'[q].run = r
      BY <2>1 DEF Same
    <3>2. Owns(q) /\ runs'[r].journal = runs[r].journal /\ runs[r].clean
      BY <3>1, RunsAreKept
    <3>3. Agrees(apps[q], runs[r].journal) /\ Configured(apps[q], runs[r].journal)
      BY <2>2, <3>2 DEF OwnerKnows
    <3> HIDE DEF r
    <3>4. /\ Agrees(apps'[q], runs[r].journal)
          /\ Configured(apps'[q], runs[r].journal)
      BY <2>1, <3>3 DEF Same, Alike, Agrees, Configured
    <3> QED BY <3>1, <3>2, <3>4
  <2> QED BY <2>3, <2>4
<1>2. \A r \in DOMAIN runs' : RunKept(runs'[r]) /\ Whole(runs'[r])
  BY RunsAreKept
<1> QED BY <1>1, <1>2 DEF WholeInv, Reserved

\* A process that leaves its run owns no lease of it.
LEMMA EmptiesWhole ==
  ASSUME RunInv, RunInv', WholeInv, RunsKeep, NEW p \in Processes, work' \in Nat,
         NEW at, NEW t, Empties(p, at, t), at \in {"idle", "acquire"},
         t.domain # "strategy",
         t.goal = "create" => t.domain \in {"none", "pre_live", "strategy"}
  PROVE  WholeInv'
<1>1. /\ apps'[p].run = None /\ apps'[p].mem = EmptyState /\ apps'[p].at = at
      /\ Alike(apps'[p].task, t)
  BY DEF Empties, Turns
<1>2. apps'[p].mem \in States
  BY <1>1, StateKinds
<1>3. TaskFits(p)'
  BY <1>1 DEF TaskFits, Fits, Alike, Busy
<1>4. OwnerKnows(p)'
  <2>1. None \notin DOMAIN runs'
    BY ControlAssumption DEF RunInv, Reserved
  <2> QED BY <1>1, <2>1 DEF OwnerKnows, Owns, Reserved
<1> QED BY <1>2, <1>3, <1>4, KeepsWhole DEF Empties

\* A process that gives its run up leaves the runs whole.
LEMMA GivesUpWhole ==
  ASSUME RunInv, RunInv', WholeInv, RunsKeep, NEW p \in Processes, work' \in Nat,
         GivesUp(p)
  PROVE  WholeInv'
<1>1. PICK at \in {"idle", "acquire"} : \E t :
        /\ Empties(p, at, t)
        /\ t.goal \in {"none", "restore"} /\ t.domain = "none" /\ t.expected = None
  BY DEF GivesUp
<1> QED BY <1>1, EmptiesWhole

\* A process that goes on in its run: it leaves no commit of an authority behind,
\* unless the run is marked, and begins none.
LEMMA GoesWhole ==
  ASSUME RunInv, WholeInv, RunsKeep, NEW p \in Processes, work' \in Nat,
         NEW at, NEW t, Goes(p, at, t),
         apps[p].at \in Busy /\ apps[p].task.domain \in Domains =>
           \/ at \in Busy /\ t.domain = apps[p].task.domain
           \/ apps[p].run \in Reserved => ~runs'[apps[p].run].clean,
         at \in {"file", "select"} /\ t.domain = "strategy" =>
           /\ apps[p].at \in {"file", "select"} /\ apps[p].task.domain = "strategy"
           /\ t.quoted = apps[p].task.quoted,
         Fits(at, t, apps[p].mem)
  PROVE  WholeInv'
<1>1. /\ apps'[p].run = apps[p].run /\ apps'[p].mem = apps[p].mem /\ apps'[p].at = at
      /\ Alike(apps'[p].task, t)
  BY DEF Goes, Turns
<1>2. apps'[p].mem \in States /\ OwnerKnows(p) /\ TaskFits(p)'
  BY <1>1 DEF WholeInv, TaskFits, Fits, Alike
<1>3. OwnerKnows(p)'
  <2> SUFFICES ASSUME Owns(p)', runs'[apps'[p].run].clean
               PROVE  /\ Agrees(apps'[p], runs'[apps'[p].run].journal)
                      /\ Configured(apps'[p], runs'[apps'[p].run].journal)
    BY DEF OwnerKnows
  <2> DEFINE r == apps[p].run
  <2>1. Owns(p) /\ runs'[r].journal = runs[r].journal /\ runs[r].clean
    BY <1>1, RunsAreKept
  <2>2. Agrees(apps[p], runs[r].journal) /\ Configured(apps[p], runs[r].journal)
    BY <1>2, <2>1 DEF OwnerKnows
  <2>3. r \in Reserved /\ runs'[r].clean
    BY <1>1, <2>1 DEF Owns
  <2> HIDE DEF r
  <2>4. Agrees(apps'[p], runs[r].journal)
    BY <1>1, <2>2, <2>3 DEF Agrees, Alike, r
  <2>5. Configured(apps'[p], runs[r].journal)
    BY <1>1, <2>2 DEF Configured, Alike
  <2> QED BY <1>1, <2>1, <2>4, <2>5 DEF r
<1> QED BY <1>2, <1>3, KeepsWhole DEF Goes
-----------------------------------------------------------------------------
(* What the steps do to the runs.                                          *)

\* The steps that keep the runs: those that leave them alone,
LEMMA KeepUnchanged ==
  ASSUME RunInv, WholeInv, UNCHANGED runs
  PROVE  RunsKeep
BY DEF RunInv, WholeInv, RunKept, RunsKeep, Reserved

\* those that change one but for its journal,
LEMMA KeepOne ==
  ASSUME RunInv, WholeInv, NEW r, NEW x, runs' = [runs EXCEPT ![r] = x],
         r \in Reserved =>
           /\ x.journal = runs[r].journal /\ x.file \in {None} \cup States
           /\ x.clean \in BOOLEAN /\ (x.clean => runs[r].clean)
           /\ x.lease # None =>
                runs[r].lease # None /\ x.lease.owner = runs[r].lease.owner
  PROVE  RunsKeep
<1>1. DOMAIN runs' = Reserved /\ \A q \in Reserved : q # r => runs'[q] = runs[q]
  BY DEF Reserved
<1>2. r \in Reserved => runs'[r] = x
  BY DEF Reserved
<1> QED BY <1>1, <1>2 DEF WholeInv, RunKept, RunsKeep

\* a release,
LEMMA KeepReleased ==
  ASSUME RunInv, WholeInv, NEW p, NEW r,
         \/ runs' = Released(p, r)
         \/ runs' = [runs EXCEPT ![r].lease = None]
  PROVE  RunsKeep
<1>1. UNCHANGED runs \/ runs' = [runs EXCEPT ![r].lease = None]
  BY DEF Released
<1>2. CASE runs' = [runs EXCEPT ![r].lease = None]
  <2> DEFINE x == [runs[r] EXCEPT !.lease = None]
  <2>1. runs' = [runs EXCEPT ![r] = x]
    BY <1>2
  <2>2. r \in Reserved => DOMAIN runs[r] = RunFields /\ RunKept(runs[r])
    BY DEF RunInv, RunTyped, WholeInv
  <2>3. r \in Reserved =>
          /\ x.journal = runs[r].journal /\ x.file = runs[r].file
          /\ x.clean = runs[r].clean /\ x.lease = None
    BY <2>2 DEF RunFields
  <2> HIDE DEF x
  <2> QED BY <2>1, <2>2, <2>3, KeepOne DEF RunKept
<1> QED BY <1>1, <1>2, KeepUnchanged

\* a commit that failed,
LEMMA KeepFailed ==
  ASSUME RunInv, WholeInv, NEW p \in Processes, Failed(p)
  PROVE  /\ RunsKeep
         /\ IF apps[p].task.goal = "work"
            THEN apps[p].run \in Reserved =>
                   (runs'[apps[p].run].clean => apps[p].task.domain = "move")
            ELSE TRUE
<1>1. CASE apps[p].task.goal = "work"
  <2> DEFINE r == apps[p].run
             c == runs[r].clean /\ apps[p].task.domain = "move"
             x == [runs[r] EXCEPT !.clean = c]
  <2>1. runs' = [runs EXCEPT ![r].clean = c]
    BY <1>1 DEF Failed
  <2>2. r \in Reserved => DOMAIN runs[r] = RunFields /\ RunKept(runs[r])
    BY DEF RunInv, RunTyped, WholeInv
  <2>3. c \in BOOLEAN /\ (c => apps[p].task.domain = "move") /\ (c => runs[r].clean)
    OBVIOUS
  <2> HIDE DEF c
  <2>4. runs' = [runs EXCEPT ![r] = x]
    BY <2>1
  <2>5. r \in Reserved =>
          /\ x.journal = runs[r].journal /\ x.file = runs[r].file
          /\ x.clean = c /\ x.lease = runs[r].lease
    BY <2>2 DEF RunFields
  <2> HIDE DEF x, r
  <2>6. RunsKeep
    BY <2>2, <2>3, <2>4, <2>5, KeepOne DEF RunKept
  <2>7. r \in Reserved => (runs'[r].clean => apps[p].task.domain = "move")
    BY <2>3, <2>4, <2>5 DEF Reserved
  <2> QED BY <1>1, <2>6, <2>7 DEF r
<1>2. CASE apps[p].task.goal # "work"
  BY <1>2, KeepReleased DEF Failed
<1> QED BY <1>1, <1>2

\* a death that leaves a file,
LEMMA KeepLeftover ==
  ASSUME RunInv, WholeInv, NEW r \in Reserved,
         runs' = [runs EXCEPT ![r].leftover = TRUE]
  PROVE  RunsKeep
<1> DEFINE x == [runs[r] EXCEPT !.leftover = TRUE]
<1>1. runs' = [runs EXCEPT ![r] = x]
  OBVIOUS
<1>2. DOMAIN runs[r] = RunFields /\ RunKept(runs[r])
  BY DEF RunInv, RunTyped, WholeInv
<1>3. /\ x.journal = runs[r].journal /\ x.file = runs[r].file
      /\ x.clean = runs[r].clean /\ x.lease = runs[r].lease
  BY <1>2 DEF RunFields
<1> HIDE DEF x
<1> QED BY <1>1, <1>2, <1>3, KeepOne DEF RunKept

\* a state that is written,
LEMMA KeepWritten ==
  ASSUME RunInv, WholeInv, NEW p \in Processes, WriteState(p)
  PROVE  RunsKeep
<1> DEFINE r == apps[p].run
           m == apps[p].mem
           x == [runs[r] EXCEPT !.file = m]
<1>1. runs' = [runs EXCEPT ![r] = x]
  BY DEF WriteState
<1>2. r \in Reserved => DOMAIN runs[r] = RunFields /\ RunKept(runs[r])
  BY DEF RunInv, RunTyped, WholeInv
<1>3. m \in States
  BY DEF WholeInv
<1> HIDE DEF m
<1>4. r \in Reserved =>
        /\ x.journal = runs[r].journal /\ x.file = m
        /\ x.clean = runs[r].clean /\ x.lease = runs[r].lease
  BY <1>2 DEF RunFields
<1> HIDE DEF x, r
<1> QED BY <1>1, <1>2, <1>3, <1>4, KeepOne DEF RunKept

\* a lease that is lost or has expired,
LEMMA KeepRenewed ==
  ASSUME RunInv, WholeInv, NEW r \in Reserved, runs[r].lease # None,
         \/ runs' = [runs EXCEPT ![r].lease.known = FALSE]
         \/ runs' = [runs EXCEPT ![r].lease.live = FALSE]
  PROVE  RunsKeep
<1>1. DOMAIN runs[r] = RunFields /\ RunKept(runs[r]) /\ DOMAIN runs[r].lease = LeaseFields
  BY DEF RunInv, RunTyped, LeaseTyped, WholeInv
<1>2. \E l : /\ runs' = [runs EXCEPT ![r] = [runs[r] EXCEPT !.lease = l]]
             /\ l.owner = runs[r].lease.owner
  <2> DEFINE k == [runs[r].lease EXCEPT !.known = FALSE]
             e == [runs[r].lease EXCEPT !.live = FALSE]
  <2>1. k.owner = runs[r].lease.owner /\ e.owner = runs[r].lease.owner
    BY <1>1 DEF LeaseFields
  <2>2. \/ runs' = [runs EXCEPT ![r] = [runs[r] EXCEPT !.lease = k]]
        \/ runs' = [runs EXCEPT ![r] = [runs[r] EXCEPT !.lease = e]]
    OBVIOUS
  <2> HIDE DEF k, e
  <2> QED BY <2>1, <2>2
<1>3. PICK l : /\ runs' = [runs EXCEPT ![r] = [runs[r] EXCEPT !.lease = l]]
               /\ l.owner = runs[r].lease.owner
  BY <1>2
<1> DEFINE x == [runs[r] EXCEPT !.lease = l]
<1>4. /\ x.journal = runs[r].journal /\ x.file = runs[r].file
      /\ x.clean = runs[r].clean /\ x.lease = l
  BY <1>1 DEF RunFields
<1>5. runs' = [runs EXCEPT ![r] = x]
  BY <1>3
<1> HIDE DEF x
<1>6. /\ x.journal = runs[r].journal /\ x.file \in {None} \cup States
      /\ x.clean \in BOOLEAN /\ (x.clean => runs[r].clean)
      /\ x.lease # None =>
           runs[r].lease # None /\ x.lease.owner = runs[r].lease.owner
  BY <1>1, <1>3, <1>4 DEF RunKept
<1> QED BY <1>5, <1>6, KeepOne

\* and a new run.
LEMMA KeepCreated ==
  ASSUME RunInv, WholeInv, NEW p \in Processes, NEW r \in RunIds, CreateRun(p, r)
  PROVE  RunsKeep
<1>1. /\ runs' = [q \in Reserved \cup {r} |-> IF q = r THEN NewRun ELSE runs[q]]
      /\ r \notin Reserved
  BY Zenon DEF CreateRun
<1>2. DOMAIN runs' = Reserved \cup {r} /\ runs'[r] = NewRun
      /\ \A q \in Reserved : runs'[q] = runs[q]
  BY <1>1
<1> QED BY <1>2 DEF WholeInv, RunKept, RunsKeep
-----------------------------------------------------------------------------
(* The steps.                                                              *)

\* Going idle, when no commit of an authority is left behind.
LEMMA IdleWhole ==
  ASSUME RunInv, WholeInv, RunsKeep, NEW p \in Processes, work' \in Nat,
         Goes(p, "idle", NoTask),
         apps[p].at \in Busy /\ apps[p].task.domain \in Domains =>
           (apps[p].run \in Reserved => ~runs'[apps[p].run].clean)
  PROVE  WholeInv'
<1>1. NoTask.domain = "none" /\ NoTask.goal = "none"
  BY DEF NoTask
<1>2. Fits("idle", NoTask, apps[p].mem)
  BY <1>1 DEF Fits, Busy
<1> QED BY <1>1, <1>2, GoesWhole

\* A step that moves no process leaves the runs whole.
LEMMA StaysWhole ==
  ASSUME RunInv, WholeInv, RunsKeep, NEW p \in Processes, work' \in Nat, Stays(p)
  PROVE  WholeInv'
<1>1. Fits(apps[p].at, apps[p].task, apps[p].mem)
  BY DEF WholeInv, TaskFits
<1> QED BY <1>1, GoesWhole DEF Stays

\* A failure marks the run, if it was a handler's, or leaves it.
LEMMA FailureWhole ==
  ASSUME RunInv, RunInv', WholeInv, NEW p \in Processes, work' \in Nat, Failed(p)
  PROVE  WholeInv'
<1>1. RunsKeep
  BY KeepFailed
<1>2. CASE apps[p].task.goal = "work"
  <2>1. Goes(p, "idle", NoTask)
    BY <1>2, FailedTurns
  <2>2. apps[p].run \in Reserved =>
          (runs'[apps[p].run].clean => apps[p].task.domain = "move")
    BY <1>2, KeepFailed
  <2> QED BY <1>1, <2>1, <2>2, IdleWhole DEF Domains
<1>3. CASE apps[p].task.goal # "work"
  BY <1>1, <1>3, FailedTurns, GivesUpWhole
<1> QED BY <1>2, <1>3

\* Whoever opens a run knows what its journal holds.
LEMMA AcquireWhole ==
  ASSUME RunInv, WholeInv, NEW p \in Processes, Acquire(p)
  PROVE  WholeInv'
<1> DEFINE r == apps[p].task.target
           state == Restored(runs[r])
           t == [apps[p].task EXCEPT !.domain = "pre_live"]
           l == [owner |-> p, live |-> TRUE, known |-> TRUE]
           f == IF runs[r].journal.latest # None THEN state ELSE runs[r].file
<1>1. /\ r \in Reserved /\ ~Renewing(r) /\ work' = work
      /\ runs' = [runs EXCEPT ![r].lease = l, ![r].file = f]
  BY Zenon DEF Acquire, Free
<1>2. Turns(p, r, state, "renew", t)
  BY ActivationTurns
<1>3. RunKept(runs[r]) /\ Whole(runs[r]) /\ DOMAIN runs[r] = RunFields /\ work \in Nat
  BY <1>1 DEF WholeInv, RunInv, RunTyped
<1>4. state \in States
  BY <1>3, StateKinds DEF Restored, RunKept
<1>5. f \in {None} \cup States
  BY <1>3, <1>4 DEF RunKept
<1>6. t.domain = "pre_live" /\ t.goal = apps[p].task.goal
  BY DEF RunInv, AppTyped, TaskFields
<1>7. \A d \in Domains : runs[r].journal.refs[d] # None /\ runs[r].clean =>
        state[d] = runs[r].journal.refs[d]
  BY <1>3 DEF Whole, Restored
<1> HIDE DEF r, state, t, l, f
<1>8. /\ DOMAIN runs' = Reserved
      /\ \A q \in Reserved : q # r => runs'[q] = runs[q]
      /\ runs'[r].journal = runs[r].journal /\ runs'[r].clean = runs[r].clean
      /\ runs'[r].file = f /\ runs'[r].lease = l
  BY <1>1, <1>3 DEF Reserved, RunFields
<1>9. \A q \in DOMAIN runs' : RunKept(runs'[q]) /\ Whole(runs'[q])
  BY <1>3, <1>5, <1>8 DEF WholeInv, RunKept, Whole
<1>10. /\ apps'[p].run = r /\ apps'[p].mem = state /\ apps'[p].at = "renew"
       /\ Alike(apps'[p].task, t)
  BY <1>2 DEF Turns
<1>11. (apps[p].mem \in States /\ TaskFits(p) /\ OwnerKnows(p))'
  <2>1. TaskFits(p)'
    BY <1>6, <1>10 DEF TaskFits, Fits, Alike, Busy
  <2>2. runs[r].clean => Agrees(apps'[p], runs[r].journal)
    BY <1>7, <1>10 DEF Agrees
  <2>3. Configured(apps'[p], runs[r].journal)
    BY <1>10 DEF Configured
  <2>4. OwnerKnows(p)'
    BY <1>8, <1>10, <2>2, <2>3 DEF OwnerKnows
  <2> QED BY <1>4, <1>10, <2>1, <2>4
<1>12. ASSUME NEW q \in Processes, q # p
       PROVE  (apps[q].mem \in States /\ TaskFits(q) /\ OwnerKnows(q))'
  <2>1. Same(apps'[q], apps[q])
    BY <1>2, <1>12 DEF Turns
  <2>2. apps[q].mem \in States /\ TaskFits(q) /\ OwnerKnows(q)
    BY DEF WholeInv
  <2>3. TaskFits(q)' /\ apps'[q].mem \in States
    BY <2>1, <2>2 DEF Same, Alike, TaskFits, Fits
  <2>4. OwnerKnows(q)'
    <3> SUFFICES ASSUME Owns(q)', runs'[apps'[q].run].clean
                 PROVE  /\ Agrees(apps'[q], runs'[apps'[q].run].journal)
                        /\ Configured(apps'[q], runs'[apps'[q].run].journal)
      BY DEF OwnerKnows
    <3> DEFINE s == apps[q].run
    <3>1. apps'[q].run = s
      BY <2>1 DEF Same
    <3>2. s \in Reserved /\ runs'[s].lease.owner = q /\ runs'[s].lease # None
      BY <1>8, <3>1 DEF Owns, Lease, Reserved
    <3>3. s # r
      BY <1>8, <1>12, <3>2 DEF l
    <3>4. Owns(q) /\ runs'[s] = runs[s] /\ runs[s].clean
      BY <1>8, <3>1, <3>2, <3>3 DEF Owns, Lease
    <3>5. Agrees(apps[q], runs[s].journal) /\ Configured(apps[q], runs[s].journal)
      BY <2>2, <3>4 DEF OwnerKnows
    <3> HIDE DEF s
    <3>6. Agrees(apps'[q], runs[s].journal) /\ Configured(apps'[q], runs[s].journal)
      BY <2>1, <3>5 DEF Same, Alike, Agrees, Configured
    <3> QED BY <3>1, <3>4, <3>6
  <2> QED BY <2>3, <2>4
<1> QED BY <1>1, <1>3, <1>9, <1>11, <1>12 DEF WholeInv, Reserved

\* A handler changes the state and commits it next.
LEMMA WorkWhole ==
  ASSUME RunInv, WholeInv, NEW p \in Processes, Work(p)
  PROVE  WholeInv'
<1> DEFINE t == [NoTask EXCEPT !.goal = "work", !.domain = "source"]
           m == [apps[p].mem EXCEPT !.source = work + 1]
<1>1. Turns(p, apps[p].run, m, "renew", t)
  BY CommitTurns
<1>2. t.goal = "work" /\ t.domain = "source"
  BY DEF NoTask
<1>3. apps[p].mem \in States /\ OwnerKnows(p) /\ apps[p].at = "idle"
      /\ work + 1 \in Nat /\ work' = work + 1 /\ UNCHANGED runs
  BY DEF WholeInv, Work
<1>4. m \in States /\ m.strategy = apps[p].mem.strategy
  <2>1. m \in States
    BY <1>3, StateKinds
  <2>2. DOMAIN apps[p].mem = Domains
    BY <1>3, StateKinds
  <2> QED BY <2>1, <2>2 DEF Domains
<1> HIDE DEF t, m
<1>5. /\ apps'[p].run = apps[p].run /\ apps'[p].mem = m /\ apps'[p].at = "renew"
      /\ Alike(apps'[p].task, t)
  BY <1>1 DEF Turns
<1>6. TaskFits(p)'
  BY <1>2, <1>5 DEF TaskFits, Fits, Alike, Domains
<1>7. RunsKeep
  BY <1>3, KeepUnchanged
<1>8. OwnerKnows(p)'
  <2> SUFFICES ASSUME Owns(p)', runs'[apps'[p].run].clean
               PROVE  /\ Agrees(apps'[p], runs'[apps'[p].run].journal)
                      /\ Configured(apps'[p], runs'[apps'[p].run].journal)
    BY DEF OwnerKnows
  <2> DEFINE j == runs[apps[p].run].journal
  <2>1. Owns(p) /\ runs[apps[p].run].clean /\ runs'[apps'[p].run].journal = j
    BY <1>3, <1>5, <1>7, RunsAreKept
  <2>2. Agrees(apps[p], j)
    BY <1>3, <2>1 DEF OwnerKnows
  <2> HIDE DEF j
  <2>3. Agrees(apps'[p], j)
    BY <1>2, <1>3, <1>4, <1>5, <2>2 DEF Agrees, Alike, Busy, Domains
  <2>4. Configured(apps'[p], j)
    BY <1>5 DEF Configured
  <2> QED BY <2>1, <2>3, <2>4
<1> QED BY <1>1, <1>3, <1>4, <1>5, <1>6, <1>7, <1>8, KeepsWhole

\* The settings of a new run are the ones its user quoted.
LEMMA ApplyWhole ==
  ASSUME RunInv, DocInv, WholeInv, NEW p \in Processes, Apply(p)
  PROVE  WholeInv'
<1> DEFINE t == [apps[p].task EXCEPT !.domain = "strategy"]
           m == [apps[p].mem EXCEPT !.strategy = settings.current]
<1>1. Turns(p, apps[p].run, m, "renew", t)
  BY SelectionTurns
<1>2. t.goal = apps[p].task.goal /\ t.domain = "strategy"
      /\ t.quoted = apps[p].task.quoted
  BY DEF RunInv, AppTyped, TaskFields
<1>3. /\ apps[p].mem \in States /\ OwnerKnows(p) /\ apps[p].at = "apply"
      /\ TaskFits(p) /\ work \in Nat /\ work' = work /\ UNCHANGED runs
      /\ settings.current = apps[p].task.quoted
  BY Zenon DEF WholeInv, Apply, Applicable
<1>4. /\ m \in States /\ m.strategy = apps[p].task.quoted
      /\ m.source = apps[p].mem.source
  <2>1. settings.current \in {None} \cup SavedDocuments \cup DamagedFiles
    BY DEF DocInv, FilesFit, FilesOnDisk
  <2>2. m \in States
    BY <1>3, <2>1, StateKinds
  <2>3. DOMAIN apps[p].mem = Domains
    BY <1>3, StateKinds
  <2> QED BY <1>3, <2>2, <2>3 DEF Domains
<1> HIDE DEF t, m
<1>5. /\ apps'[p].run = apps[p].run /\ apps'[p].mem = m /\ apps'[p].at = "renew"
      /\ Alike(apps'[p].task, t)
  BY <1>1 DEF Turns
<1>6. TaskFits(p)'
  BY <1>2, <1>3, <1>4, <1>5 DEF TaskFits, Fits, Alike, Domains
<1>7. RunsKeep
  BY <1>3, KeepUnchanged
<1>8. OwnerKnows(p)'
  <2> SUFFICES ASSUME Owns(p)', runs'[apps'[p].run].clean
               PROVE  /\ Agrees(apps'[p], runs'[apps'[p].run].journal)
                      /\ Configured(apps'[p], runs'[apps'[p].run].journal)
    BY DEF OwnerKnows
  <2> DEFINE j == runs[apps[p].run].journal
  <2>1. Owns(p) /\ runs[apps[p].run].clean /\ runs'[apps'[p].run].journal = j
    BY <1>3, <1>5, <1>7, RunsAreKept
  <2>2. Agrees(apps[p], j)
    BY <1>3, <2>1 DEF OwnerKnows
  <2> HIDE DEF j
  <2>3. Agrees(apps'[p], j)
    BY <1>2, <1>3, <1>4, <1>5, <2>2 DEF Agrees, Alike, Busy, Domains
  <2>4. Configured(apps'[p], j)
    BY <1>5 DEF Configured
  <2> QED BY <2>1, <2>3, <2>4
<1> QED BY <1>1, <1>3, <1>4, <1>5, <1>6, <1>7, <1>8, KeepsWhole

\* An append by the owner keeps the run whole: what it names last has every
\* authority the journal holds. One by somebody else marks it.
LEMMA AppendWhole ==
  ASSUME RunInv, WholeInv, NEW p \in Processes, AppendEvent(p)
  PROVE  WholeInv'
<1> DEFINE r == apps[p].run
           d == apps[p].task.domain
           m == apps[p].mem
           j == runs[r].journal
           k == Appended(j, p)
           c == runs[r].clean /\ Counted(p) = stale
<1>1. /\ runs' = [runs EXCEPT ![r].journal = k, ![r].clean = c]
      /\ apps[p].at = "append" /\ work' = work
  BY Zenon DEF AppendEvent
<1>2. /\ apps'[p].run = r /\ apps'[p].mem = m
      /\ \A q \in Processes \ {p} : Same(apps'[q], apps[q])
      /\ IF d = "move" THEN apps'[p].at = "idle" /\ Alike(apps'[p].task, NoTask)
         ELSE apps'[p].at = "file" /\ Alike(apps'[p].task, apps[p].task)
  <2>1. IF d = "move" THEN Goes(p, "idle", NoTask)
                      ELSE Goes(p, "file", apps[p].task)
    BY CommitTurns
  <2> QED BY <2>1 DEF Goes, Turns
<1>3. /\ work \in Nat /\ m \in States /\ TaskFits(p) /\ OwnerKnows(p)
      /\ \A q \in Reserved : RunKept(runs[q]) /\ Whole(runs[q])
                             /\ DOMAIN runs[q] = RunFields
  BY DEF WholeInv, RunInv, RunTyped
<1>4. d \in Domains \cup {"pre_live", "move"}
  BY <1>1, <1>3 DEF TaskFits, Fits, Busy
<1>5. c \in BOOLEAN /\ (c => runs[r].clean)
  OBVIOUS
<1>6. ASSUME c, r \in Reserved PROVE Owns(p)
  <2>1. SUFFICES ASSUME ~(Lease(r) # None /\ Lease(r).owner = p) PROVE FALSE
    BY <1>6 DEF Owns
  <2>2. \/ stale = [stale EXCEPT ![p].moves = @ + 1]
        \/ stale = [stale EXCEPT ![p].authority = @ + 1]
    BY <1>6, <2>1, Zenon DEF Counted
  <2>3. stale \in [Processes -> Count]
    BY DEF RunInv
  <2>4. stale[p].moves \in Nat /\ stale[p].authority \in Nat
        /\ DOMAIN stale[p] = {"authority", "moves"}
    BY <2>3 DEF Count
  <2>5. CASE stale = [stale EXCEPT ![p].moves = @ + 1]
    <3>1. stale[p].moves = stale[p].moves + 1
      BY <2>3, <2>4, <2>5
    <3> QED BY <2>4, <3>1
  <2>6. CASE stale = [stale EXCEPT ![p].authority = @ + 1]
    <3>1. stale[p].authority = stale[p].authority + 1
      BY <2>3, <2>4, <2>6
    <3> QED BY <2>4, <3>1
  <2> QED BY <2>2, <2>5, <2>6
<1>7. m # None /\ DOMAIN m = Domains
  BY <1>3, StateKinds
<1>8. ASSUME r \in Reserved
      PROVE  /\ DOMAIN k = {"moves", "refs", "latest"} /\ DOMAIN k.refs = Domains
             /\ k.latest = IF d = "move" THEN j.latest ELSE m
             /\ \A e \in Domains :
                  k.refs[e] = IF e = d THEN m[d] ELSE j.refs[e]
  <2>1. DOMAIN j = {"moves", "refs", "latest"} /\ DOMAIN j.refs = Domains
    BY <1>3, <1>8 DEF RunKept
  <2>2. "move" \notin Domains /\ "pre_live" \notin Domains
    BY DEF Domains
  <2> HIDE DEF j
  <2>3. CASE d = "move"
    <3>1. k = [j EXCEPT !.moves = @ + 1]
      BY <2>3 DEF Appended
    <3> QED BY <2>1, <2>2, <2>3, <3>1
  <2>4. CASE d = "pre_live"
    <3>1. k = [j EXCEPT !.latest = m]
      BY <2>4 DEF Appended
    <3> QED BY <2>1, <2>2, <2>4, <3>1
  <2>5. CASE d \in Domains
    <3>1. k = [j EXCEPT !.latest = m, !.refs[d] = m[d]]
      BY <2>2, <2>5 DEF Appended
    <3> HIDE DEF k
    <3> QED BY <2>1, <2>2, <2>5, <3>1
  <2> QED BY <1>4, <2>3, <2>4, <2>5
<1> HIDE DEF k, c, j
<1>9. /\ DOMAIN runs' = Reserved
      /\ \A q \in Reserved : q # r => runs'[q] = runs[q]
      /\ r \in Reserved =>
           /\ runs'[r].journal = k /\ runs'[r].clean = c
           /\ runs'[r].file = runs[r].file /\ runs'[r].lease = runs[r].lease
  BY <1>1, <1>3 DEF Reserved, RunFields
<1>10. ASSUME r \in Reserved, c
       PROVE  /\ Agrees(apps[p], j)
              /\ \A e \in Domains : j.refs[e] # None => m[e] = j.refs[e] \/ e = d
  <2>1. OwnerKnows(p) /\ Owns(p) /\ runs[r].clean
    BY <1>3, <1>5, <1>6, <1>10
  <2> QED BY <2>1 DEF OwnerKnows, Agrees, j
<1>11. ASSUME r \in Reserved PROVE RunKept(runs'[r]) /\ Whole(runs'[r])
  <2>1. RunKept(runs[r]) /\ Whole(runs[r]) /\ runs[r].journal = j
    BY <1>3, <1>11 DEF j
  <2>2. RunKept(runs'[r])
    BY <1>3, <1>5, <1>8, <1>9, <1>11, <2>1 DEF RunKept
  <2>3. ASSUME NEW e \in Domains, k.refs[e] # None
        PROVE  k.latest # None /\ (c => k.latest[e] = k.refs[e])
    <3>1. CASE d = "move"
      <4>1. e # d
        BY <3>1 DEF Domains
      <4>2. k.refs[e] = j.refs[e] /\ k.latest = j.latest
        BY <1>8, <1>11, <3>1, <4>1
      <4> QED BY <1>5, <2>1, <2>3, <4>2 DEF Whole
    <3>2. CASE d # "move" /\ e = d
      BY <1>7, <1>8, <1>11, <3>2
    <3>3. CASE d # "move" /\ e # d
      BY <1>7, <1>8, <1>10, <1>11, <2>3, <3>3
    <3> QED BY <3>1, <3>2, <3>3
  <2>4. Whole(runs'[r])
    BY <1>9, <1>11, <2>3 DEF Whole
  <2> QED BY <2>2, <2>4
<1>12. \A q \in DOMAIN runs' : RunKept(runs'[q]) /\ Whole(runs'[q])
  BY <1>3, <1>9, <1>11
<1>13. apps'[p].mem \in States /\ TaskFits(p)'
  BY <1>2, <1>3, <1>4 DEF TaskFits, Fits, Alike, Busy, NoTask
<1>14. OwnerKnows(p)'
  <2> SUFFICES ASSUME Owns(p)', runs'[apps'[p].run].clean
               PROVE  /\ Agrees(apps'[p], runs'[apps'[p].run].journal)
                      /\ Configured(apps'[p], runs'[apps'[p].run].journal)
    BY DEF OwnerKnows
  <2>1. r \in Reserved /\ c /\ runs'[apps'[p].run].journal = k
    BY <1>2, <1>9 DEF Owns, Reserved
  <2>2. Agrees(apps'[p], k)
    <3> SUFFICES ASSUME NEW e \in Domains, k.refs[e] # None
                 PROVE  apps'[p].mem[e] = k.refs[e]
      BY DEF Agrees
    <3> QED BY <1>2, <1>8, <1>10, <2>1
  <2>3. Configured(apps'[p], k)
    <3> SUFFICES ASSUME apps'[p].at \in {"file", "select"},
                        apps'[p].task.domain = "strategy"
                 PROVE  k.refs.strategy = apps'[p].task.quoted
                        /\ k.latest.strategy = apps'[p].task.quoted
      BY DEF Configured
    <3>1. d = "strategy" /\ apps'[p].task.quoted = apps[p].task.quoted
      BY <1>2 DEF Alike
    <3>2. m["strategy"] = apps[p].task.quoted
      BY <1>3, <3>1 DEF TaskFits, Fits
    <3>3. k.refs["strategy"] = m["strategy"] /\ k.latest = m
      BY <1>8, <2>1, <3>1 DEF Domains
    <3> QED BY <3>1, <3>2, <3>3
  <2> QED BY <2>1, <2>2, <2>3
<1>15. ASSUME NEW q \in Processes, q # p
       PROVE  (apps[q].mem \in States /\ TaskFits(q) /\ OwnerKnows(q))'
  <2>1. Same(apps'[q], apps[q])
    BY <1>2, <1>15
  <2>2. apps[q].mem \in States /\ TaskFits(q) /\ OwnerKnows(q)
    BY DEF WholeInv
  <2>3. TaskFits(q)' /\ apps'[q].mem \in States
    BY <2>1, <2>2 DEF Same, Alike, TaskFits, Fits
  <2>4. OwnerKnows(q)'
    <3> SUFFICES ASSUME Owns(q)', runs'[apps'[q].run].clean
                 PROVE  /\ Agrees(apps'[q], runs'[apps'[q].run].journal)
                        /\ Configured(apps'[q], runs'[apps'[q].run].journal)
      BY DEF OwnerKnows
    <3> DEFINE s == apps[q].run
    <3>1. apps'[q].run = s
      BY <2>1 DEF Same
    <3>2. s \in Reserved /\ runs'[s].lease.owner = q /\ runs'[s].lease # None
      BY <1>9, <3>1 DEF Owns, Lease, Reserved
    <3>3. s # r
      <4> SUFFICES ASSUME s = r PROVE FALSE
        OBVIOUS
      <4>1. c
        BY <1>9, <3>1, <3>2
      <4>2. runs[r].lease.owner = q
        BY <1>9, <3>2
      <4>3. Owns(p)
        BY <1>6, <3>2, <4>1
      <4> QED BY <1>15, <4>2, <4>3 DEF Owns, Lease
    <3>4. Owns(q) /\ runs'[s] = runs[s] /\ runs[s].clean
      BY <1>9, <3>1, <3>2, <3>3 DEF Owns, Lease
    <3>5. Agrees(apps[q], runs[s].journal) /\ Configured(apps[q], runs[s].journal)
      BY <2>2, <3>4 DEF OwnerKnows
    <3> HIDE DEF s
    <3>6. Agrees(apps'[q], runs[s].journal) /\ Configured(apps'[q], runs[s].journal)
      BY <2>1, <3>5 DEF Same, Alike, Agrees, Configured
    <3> QED BY <3>1, <3>4, <3>6
  <2> QED BY <2>3, <2>4
<1> QED BY <1>1, <1>3, <1>12, <1>13, <1>14, <1>15 DEF WholeInv, Reserved

\* Openings that are refused, and commits that go on.
LEMMA ActivationWhole ==
  ASSUME RunInv, RunInv', WholeInv, NEW p \in Processes, Activation(p)
  PROVE  WholeInv'
<1>1. work \in Nat /\ TaskFits(p)
  BY DEF WholeInv
<1>2. CASE Acquire(p)
  BY <1>2, AcquireWhole
<1>3. CASE AcquireRefused(p) \/ LoadRefused(p)
  <2>1. work' \in Nat
    BY <1>1, <1>3 DEF AcquireRefused, LoadRefused
  <2>2. RunsKeep
    BY <1>3, KeepUnchanged, KeepReleased DEF AcquireRefused, LoadRefused
  <2> QED BY <1>3, <2>1, <2>2, ActivationTurns, GivesUpWhole
<1>4. CASE Renew(p)
  <2>1. work' \in Nat
    BY <1>1, <1>4 DEF Renew
  <2>2. RunsKeep
    <3>1. /\ apps[p].run \in Reserved /\ runs[apps[p].run].lease # None
          /\ \/ UNCHANGED runs
             \/ runs' = [runs EXCEPT ![apps[p].run].lease.known = FALSE]
      BY <1>4 DEF Renew, Renewable, Holds, Lease
    <3> QED BY <3>1, KeepUnchanged, KeepRenewed
  <2> QED BY <1>4, <2>1, <2>2, ActivationTurns, StaysWhole
<1>5. CASE RenewForCommit(p) \/ ReadJournal(p)
  <2> DEFINE at == IF apps[p].at = "renew" THEN "read" ELSE "append"
  <2>1. /\ work' \in Nat /\ UNCHANGED runs
        /\ Goes(p, at, apps[p].task) /\ apps[p].at \in Busy
    BY <1>1, <1>5, ActivationTurns DEF RenewForCommit, ReadJournal, Busy
  <2>2. at \in {"read", "append"}
    OBVIOUS
  <2> HIDE DEF at
  <2>3. Fits(at, apps[p].task, apps[p].mem)
    BY <1>1, <2>1, <2>2 DEF TaskFits, Fits
  <2> QED BY <2>1, <2>2, <2>3, KeepUnchanged, GoesWhole DEF Busy
<1>6. CASE CommitRefused(p) \/ ReadRefused(p) \/ AppendRefused(p)
           \/ WriteStateFails(p)
  <2>1. work' \in Nat /\ Failed(p)
    BY <1>1, <1>6 DEF CommitRefused, ReadRefused, AppendRefused, WriteStateFails
  <2> QED BY <2>1, FailureWhole
<1>7. CASE AppendEvent(p)
  BY <1>7, AppendWhole
<1>8. CASE WriteState(p)
  <2>1. work' \in Nat /\ RunsKeep /\ apps[p].at = "file"
    BY <1>1, <1>8, KeepWritten DEF WriteState
  <2>2. CASE apps[p].task.goal # "create"
    BY <1>8, <2>1, <2>2, CommitTurns, IdleWhole DEF Busy
  <2>3. CASE apps[p].task.goal = "create" /\ apps[p].task.domain = "pre_live"
    <3>1. Goes(p, "apply", apps[p].task)
      BY <1>8, <2>3, CommitTurns
    <3>2. Fits("apply", apps[p].task, apps[p].mem)
      BY <1>1, <2>3 DEF TaskFits, Fits, Busy
    <3> QED BY <2>1, <2>3, <3>1, <3>2, GoesWhole DEF Busy
  <2>4. CASE apps[p].task.goal = "create" /\ apps[p].task.domain # "pre_live"
    <3>1. Goes(p, "select", apps[p].task)
      BY <1>8, <2>4, CommitTurns
    <3>2. apps[p].task.domain = "strategy"
      BY <1>1, <2>1, <2>4 DEF TaskFits, Fits, Domains
    <3>3. Fits("select", apps[p].task, apps[p].mem)
      BY <1>1, <3>2 DEF TaskFits, Fits, Busy
    <3> QED BY <2>1, <2>4, <3>1, <3>3, GoesWhole DEF Busy
  <2> QED BY <2>2, <2>3, <2>4
<1>9. CASE Work(p)
  BY <1>9, WorkWhole
<1>10. CASE Transition(p)
  <2> DEFINE t == [NoTask EXCEPT !.goal = "work", !.domain = "move"]
  <2>1. t.goal = "work" /\ t.domain = "move"
    BY DEF NoTask
  <2>2. Goes(p, "read", t)
    BY <1>10, CommitTurns, Zenon
  <2>a. work' \in Nat /\ UNCHANGED runs /\ apps[p].at = "idle"
    BY <1>1, <1>10 DEF Transition
  <2> HIDE DEF t
  <2>3. Fits("read", t, apps[p].mem)
    BY <2>1 DEF Fits
  <2> QED BY <2>1, <2>2, <2>a, <2>3, KeepUnchanged, GoesWhole DEF Busy
<1> QED BY <1>2, <1>3, <1>4, <1>5, <1>6, <1>7, <1>8, <1>9, <1>10,
     Zenon DEF Activation

\* Whoever chooses, creates or recovers a run commits nothing, but for the settings.
LEMMA SelectionWhole ==
  ASSUME RunInv, RunInv', DocInv, WholeInv, NEW p \in Processes, Selection(p)
  PROVE  WholeInv'
<1>1. work \in Nat /\ TaskFits(p)
  BY DEF WholeInv
<1>2. \A r : Opening(r).goal = "open" /\ Opening(r).domain = "none"
  BY DEF Opening, NoTask
<1>3. \A at \in {"leave", "acquire"} : \A r : Fits(at, Opening(r), apps[p].mem)
  BY <1>2 DEF Fits, Busy
<1>4. ASSUME NEW r \in RunIds, CreateRun(p, r) PROVE WholeInv'
  <2>1. Goes(p, "leave", Creating(p, r)) /\ RunsKeep
        /\ work' \in Nat /\ apps[p].at = "idle"
    BY <1>1, <1>4, SelectionTurns, KeepCreated DEF CreateRun
  <2>2. Creating(p, r).goal = "create" /\ Creating(p, r).domain = "none"
    BY DEF Creating, NoTask
  <2>3. Fits("leave", Creating(p, r), apps[p].mem)
    BY <2>2 DEF Fits, Busy
  <2> QED BY <2>1, <2>3, GoesWhole DEF Busy
<1>5. ASSUME NEW r \in RunIds, SelectRun(p, r) PROVE WholeInv'
  <2>1. UNCHANGED runs /\ work' \in Nat /\ apps[p].at = "idle"
    BY <1>1, <1>5 DEF SelectRun
  <2>2. RunsKeep
    BY <2>1, KeepUnchanged
  <2>3. \/ Goes(p, "leave", Opening(r)) \/ Stays(p) \/ GivesUp(p)
    BY <1>5, SavingTurns
  <2>4. ASSUME Goes(p, "leave", Opening(r)) PROVE WholeInv'
    BY <1>3, <2>1, <2>2, <2>4, GoesWhole DEF Busy
  <2> QED BY <2>1, <2>2, <2>3, <2>4, StaysWhole, GivesUpWhole
<1>6. ASSUME NEW r \in RunIds \cup {None}, RecoverRunSelection(p, r) PROVE WholeInv'
  <2>1. UNCHANGED runs /\ work' \in Nat /\ apps[p].at = "idle"
    BY <1>1, <1>6 DEF RecoverRunSelection
  <2>2. RunsKeep
    BY <2>1, KeepUnchanged
  <2>3. \/ Goes(p, "acquire", Opening(r)) \/ Stays(p) \/ GivesUp(p)
    BY <1>6, SavingTurns
  <2>4. ASSUME Goes(p, "acquire", Opening(r)) PROVE WholeInv'
    BY <1>3, <2>1, <2>2, <2>4, GoesWhole DEF Busy
  <2> QED BY <2>1, <2>2, <2>3, <2>4, StaysWhole, GivesUpWhole
<1>7. CASE Leave(p)
  <2>1. Empties(p, "acquire", apps[p].task) /\ work' \in Nat /\ apps[p].at = "leave"
        /\ RunsKeep
    BY <1>1, <1>7, SelectionTurns, KeepReleased DEF Leave
  <2>2. apps[p].task.domain = "none"
    BY <1>1, <2>1 DEF TaskFits, Fits
  <2> QED BY <2>1, <2>2, EmptiesWhole
<1>8. CASE Apply(p)
  BY <1>8, ApplyWhole
<1>9. CASE ApplyRefused(p) \/ Back(p)
  <2>1. work' \in Nat /\ Failed(p)
    BY <1>1, <1>9 DEF ApplyRefused, Back
  <2> QED BY <2>1, FailureWhole
<1>10. ASSUME Goes(p, "back", apps[p].task), apps[p].at = "select",
              UNCHANGED <<runs, work>>
       PROVE  WholeInv'
  <2>1. Fits("back", apps[p].task, apps[p].mem)
    BY <1>1 DEF TaskFits, Fits, Busy
  <2> QED BY <1>1, <1>10, <2>1, KeepUnchanged, GoesWhole DEF Busy
<1>11. CASE Select(p)
  <2>1. UNCHANGED <<runs, work>> /\ apps[p].at = "select"
    BY <1>11 DEF Select
  <2>2. work' \in Nat /\ RunsKeep
    BY <1>1, <2>1, KeepUnchanged
  <2>3. \/ Goes(p, "idle", NoTask) \/ Goes(p, "back", apps[p].task) \/ GivesUp(p)
    BY <1>11, SavingTurns
  <2>4. ASSUME Goes(p, "idle", NoTask) PROVE WholeInv'
    BY <2>1, <2>2, <2>4, IdleWhole DEF Busy
  <2> QED BY <1>10, <2>1, <2>2, <2>3, <2>4, GivesUpWhole
<1>12. CASE SelectRefused(p)
  BY <1>10, <1>12, SelectionTurns DEF SelectRefused
<1> QED BY <1>4, <1>5, <1>6, <1>7, <1>8, <1>9, <1>11, <1>12, Zenon DEF Selection

\* There is no run at first.
LEMMA WholeInvInit == Init => WholeInv
<1> SUFFICES ASSUME Init PROVE WholeInv
  OBVIOUS
<1>1. /\ work = 0 /\ Reserved = {}
      /\ apps = [p \in Processes |-> Down]
  BY DEF Init, Reserved
<1>2. /\ Down.mem = EmptyState /\ Down.at = "idle" /\ Down.task = NoTask
      /\ NoTask.domain = "none" /\ NoTask.goal = "none"
  BY DEF Down, NoTask
<1>3. \A p \in Processes : apps[p].mem \in States /\ TaskFits(p) /\ OwnerKnows(p)
  BY <1>1, <1>2, StateKinds DEF TaskFits, Fits, Busy, OwnerKnows, Owns
<1> QED BY <1>1, <1>3 DEF WholeInv

\* Every step leaves the runs whole.
LEMMA WholeInvNext ==
  ASSUME RunInv, RunInv', DocInv, WholeInv, [Next]_vars
  PROVE  WholeInv'
<1>1. work \in Nat
  BY DEF WholeInv
<1>2. CASE UNCHANGED vars
  <2>1. WholeInv' <=> WholeInv
    BY <1>2 DEF vars, WholeInv, Reserved, TaskFits, OwnerKnows, Owns, Lease
  <2> QED BY <2>1
<1>3. ASSUME NEW p \in Processes,
             \/ Documents(p) \/ Activation(p) \/ Selection(p)
             \/ Start(p) \/ Close(p) \/ Crash(p)
      PROVE  WholeInv'
  <2>1. CASE Documents(p)
    <3>1. UNCHANGED <<runs, work>>
      BY <2>1, Zenon DEF Documents, View, SaveSettings, RecoverSettings
    <3>2. Stays(p) \/ GivesUp(p)
      <4>1. ASSUME View(p) PROVE Stays(p)
        BY <4>1, NobodyTurns DEF View
      <4> QED BY <2>1, <4>1, SavingTurns, Zenon DEF Documents
    <3>3. RunsKeep /\ work' \in Nat
      BY <1>1, <3>1, KeepUnchanged
    <3> QED BY <3>2, <3>3, StaysWhole, GivesUpWhole
  <2>2. CASE Start(p)
    <3>1. UNCHANGED <<runs, work>>
      BY <2>2, Zenon DEF Start
    <3>2. PICK at \in {"idle", "acquire"} : \E t :
            /\ Empties(p, at, t)
            /\ t.goal \in {"none", "open"} /\ t.domain = "none" /\ t.expected = None
      BY <2>2, SelectionTurns
    <3>3. RunsKeep /\ work' \in Nat
      BY <1>1, <3>1, KeepUnchanged
    <3> QED BY <3>2, <3>3, EmptiesWhole
  <2>3. CASE Close(p) \/ Crash(p)
    <3>1. /\ work' \in Nat
          /\ \/ UNCHANGED runs \/ runs' = Released(p, apps[p].run)
             \/ \E r \in Reserved : runs' = [runs EXCEPT ![r].leftover = TRUE]
      BY <1>1, <2>3 DEF Close, Crash
    <3>2. RunsKeep
      BY <3>1, KeepUnchanged, KeepReleased, KeepLeftover
    <3> QED BY <2>3, <3>1, <3>2, SelectionTurns, GivesUpWhole
  <2> QED BY <1>3, <2>1, <2>2, <2>3, ActivationWhole, SelectionWhole
<1>4. ASSUME NEW r \in RunIds, Expire(r) PROVE WholeInv'
  <2>1. /\ r \in Reserved /\ runs[r].lease # None /\ runs[r].lease.owner \in Processes
        /\ runs' = [runs EXCEPT ![r].lease.live = FALSE] /\ apps' = apps
        /\ work' \in Nat
    BY <1>1, <1>4 DEF Expire, Renewing, Lease, RunInv, RunTyped, LeaseTyped
  <2>2. RunsKeep
    BY <2>1, KeepRenewed
  <2> QED BY <2>1, <2>2, NobodyTurns, StaysWhole
<1>5. CASE Damage
  <2>1. UNCHANGED <<runs, work, apps>>
    BY <1>5, Zenon DEF Damage
  <2> QED BY <2>1 DEF WholeInv, Reserved, TaskFits, OwnerKnows, Owns, Lease
<1> QED BY <1>2, <1>3, <1>4, <1>5 DEF Next

\* For any number of processes and runs: a run that internal/activationapp is
\* about to select was made from the settings its user quoted, in the journal of
\* internal/runjournal and in the state it is restored from, and a run whose
\* commits none broke has, in the state it is restored from, every authority its
\* journal holds: it loads, and if validateRunDirectory refuses it, that is for
\* the temporary file of a process that died while it wrote there.
THEOREM RunsStayWhole == Spec => []RunsAreWhole
<1>1. WholeInv => RunsAreWhole
  <2> SUFFICES ASSUME WholeInv PROVE RunsAreWhole
    OBVIOUS
  <2>1. CreatedRunIsConfigured
    <3> SUFFICES ASSUME NEW p \in Processes, apps[p].at = "select",
                        Holds(p, apps[p].run), runs[apps[p].run].clean
                 PROVE  LET j == runs[apps[p].run].journal
                        IN /\ j.refs.strategy = apps[p].task.quoted
                           /\ j.latest.strategy = apps[p].task.quoted
      BY DEF CreatedRunIsConfigured
    <3>1. Owns(p) /\ TaskFits(p) /\ OwnerKnows(p)
      BY DEF WholeInv, Holds, Owns
    <3>2. apps[p].task.domain = "strategy"
      BY <3>1 DEF TaskFits, Fits
    <3> QED BY <3>1, <3>2 DEF OwnerKnows, Configured
  <2>2. RunsStayLoadable
    <3> SUFFICES ASSUME NEW r \in Reserved, runs[r].clean
                 PROVE  /\ \A d \in Domains :
                             runs[r].journal.refs[d] # None =>
                               Restored(runs[r])[d] = runs[r].journal.refs[d]
                        /\ Opens(r) \/ runs[r].leftover
      BY DEF RunsStayLoadable
    <3>1. Whole(runs[r])
      BY DEF WholeInv
    <3>2. \A d \in Domains : runs[r].journal.refs[d] # None =>
            Restored(runs[r])[d] = runs[r].journal.refs[d]
      BY <3>1 DEF Whole, Restored
    <3>3. Loads(runs[r])
      BY <3>2 DEF Loads, Conflicts
    <3> QED BY <3>2, <3>3 DEF Opens, Valid
  <2> QED BY <2>1, <2>2 DEF RunsAreWhole
<1>2. RunInv /\ RunInv' /\ DocInv /\ WholeInv /\ [Next]_vars => WholeInv'
  BY WholeInvNext
<1>3. RunInv /\ DocInv /\ [Next]_vars => DocInv'
  BY DocInvNext
<1> QED BY <1>1, <1>2, <1>3, WholeInvInit, DocInvInit, RunInvariant, PTL DEF Spec
=============================================================================
