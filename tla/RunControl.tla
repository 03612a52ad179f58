----------------------------- MODULE RunControl -----------------------------
(***************************************************************************)
(* The stable control app of internal/activationapp: which run it opens,   *)
(* how it creates, selects and recovers one, the settings a run is made    *)
(* from, and the lease, the journal and the state file of each run.        *)
(*                                                                         *)
(* Several processes may serve one control root, each with the documents   *)
(* a browser last saw of it.  A handler holds its own process's mutex, so  *)
(* it is a program counter; what another process does comes in between.    *)
(* Time is the expiry of a lease: free when nobody renews it, a fault when *)
(* its holder lives and was kept from renewing.                            *)
(***************************************************************************)
EXTENDS ControlDocument, Sequences, FiniteSets

CONSTANTS
  Processes, RunIds,
  Drafts,        \* settings a user may save
  MaxSaves,      \* generations drawn for documents
  MaxWork,       \* authorities that handlers commit
  MaxMoves,      \* transitions a run's journal takes
  MaxFaults      \* crashes, failed writes, damaged files, suspensions

\* A document that was saved, a file that was damaged, the problem that is shown of
\* it, and a run's state: the settings it was made from and the work done on it.
SavedDocuments ==
  [version : Nat \ {0}, generation : Nat,
   content : RunIds \cup Drafts \cup {None, "defaults"}]
DamagedFiles == [damage : Nat]
Problems == [problem : DamagedFiles, backup : {None} \cup SavedDocuments]
States == [strategy : {None} \cup SavedDocuments \cup DamagedFiles,
           source : {None} \cup Nat]

ASSUME ControlAssumption ==
  /\ IsFiniteSet(Processes) /\ IsFiniteSet(RunIds) /\ IsFiniteSet(Drafts)
  /\ None \notin RunIds \cup Drafts
  /\ None \notin SavedDocuments \cup DamagedFiles \cup Problems \cup States
  /\ {MaxSaves, MaxWork, MaxMoves, MaxFaults} \subseteq Nat

VARIABLES
  selection, settings,  \* the two control documents
  runs,                 \* the directory of each run that was reserved: its lease,
                        \* its journal, its state file, whether no commit was
                        \* broken, and a temporary file of a process that died
  apps,                 \* the processes
  seen,                 \* the documents each process's browser shows
  drawn, work, faults,  \* counters
  trail,                \* for each document, what was current last and before
  overwritten,          \* a save replaced what its user had not seen
  stale                 \* appended after another took the lease

vars == <<selection, settings, runs, apps, seen, drawn, work, faults,
          trail, overwritten, stale>>
documents == <<selection, settings, trail, overwritten, drawn>>

EmptyState == [strategy |-> None, source |-> None]
EmptyJournal == [moves |-> 0, refs |-> EmptyState, latest |-> None]
NewRun == [lease |-> None, journal |-> EmptyJournal, file |-> None,
           clean |-> TRUE, leftover |-> FALSE]
NoTask == [goal |-> "none", target |-> None, prior |-> None,
           expected |-> None, quoted |-> None, domain |-> "none",
           current |-> FALSE]
Down == [up |-> FALSE, run |-> None, lost |-> FALSE,
         mem |-> EmptyState, at |-> "idle", task |-> NoTask]
NothingSeen == [selection |-> None, settings |-> None]
NotStale == [authority |-> 0, moves |-> 0]

\* A control root nobody used, or one whose settings were saved.
Init ==
  /\ selection = NoFiles
  /\ settings \in {NoFiles} \cup
       {Files(Document(1, 0, draft), None) : draft \in Drafts}
  /\ runs = [r \in {} |-> NewRun]
  /\ apps = [p \in Processes |-> Down]
  /\ seen = [p \in Processes |-> NothingSeen]
  /\ drawn = 0 /\ work = 0 /\ faults = 0
  /\ trail = [selection |-> [last |-> None, before |-> None],
              settings |-> [last |-> settings.current, before |-> None]]
  /\ overwritten = FALSE
  /\ stale = [p \in Processes |-> NotStale]

Reserved == DOMAIN runs
ShownSelection(p) == Shown(selection, p, None)
ShownSettings(p) == Shown(settings, p, "defaults")

Fault == faults < MaxFaults /\ faults' = faults + 1
NoFault == UNCHANGED faults
Go(p, at) == apps' = [apps EXCEPT ![p].at = at]
Idle(a) == [a EXCEPT !.at = "idle", !.task = NoTask]

-----------------------------------------------------------------------------
(* Control documents.                                                      *)

\* What a save replaces was current before; what a recovery replaces is lost, unless
\* a save that was cut short had made it the backup.
Trailed(t, files, d) ==
  [last |-> d,
   before |-> IF IsProblem(Shown(files, 0, None)) /\ files.backup # t.last
                THEN t.before ELSE t.last]

\* A save or a recovery of `files' that shows `shown': done, or cut short after
\* one of its renames.  `then' is the app when it is told that it is done,
\* `otherwise' when it is told that it failed.
Outcome(p, files, states, n, name, next, then, otherwise) ==
  /\ drawn < MaxSaves /\ drawn' = drawn + 1
  /\ files' = states[n]
  /\ trail' = IF n = Len(states)
              THEN [trail EXCEPT ![name] = Trailed(@, files, next)]
              ELSE trail
  /\ \/ n = Len(states) /\ NoFault
        /\ apps' = [apps EXCEPT ![p] = then]
        /\ seen' = [seen EXCEPT ![p][name] = next]
        /\ UNCHANGED stale
     \/ Fault /\ apps' = [apps EXCEPT ![p] = otherwise] /\ UNCHANGED <<seen, stale>>
     \/ Fault /\ apps' = [apps EXCEPT ![p] = Down]
        /\ seen' = [seen EXCEPT ![p] = NothingSeen]
        /\ stale' = [stale EXCEPT ![p] = NotStale]

View(p) ==
  /\ apps[p].up
  /\ seen' = [seen EXCEPT ![p] = [selection |-> ShownSelection(p),
                                  settings |-> ShownSettings(p)]]
  /\ UNCHANGED <<documents, runs, apps, work, faults, stale>>

\* Settings are saved without the app's mutex.
SaveSettings(p, draft) ==
  /\ apps[p].up /\ seen[p].settings # None
  /\ LET shown == ShownSettings(p)
         next == Following(shown, drawn + 1, draft)
         states == Replaced(settings, Prior(shown), next)
     IN /\ MaySave(shown, seen[p].settings)
        /\ \E n \in DOMAIN states :
             /\ Outcome(p, settings, states, n, "settings", next, apps[p], apps[p])
             /\ overwritten' =
                  (overwritten \/ (n = Len(states) /\ seen[p].settings # shown))
  /\ UNCHANGED <<selection, runs, work>>

RecoverSettings(p, restore) ==
  /\ apps[p].up /\ MayRecover(ShownSettings(p), seen[p].settings)
  /\ restore => IsSaved(settings.backup)
  /\ LET next == Recovered(settings, drawn + 1,
                           IF restore THEN settings.backup.content ELSE "defaults")
         states == Replaced(settings, None, next)
     IN Outcome(p, settings, states, 1, "settings", next, apps[p], apps[p])
  /\ UNCHANGED <<selection, runs, work, overwritten>>

Damage ==
  /\ Fault
  /\ \/ /\ IsSaved(settings.current)
        /\ settings' = [settings EXCEPT !.current = Damaged(faults)]
        /\ UNCHANGED selection
     \/ /\ IsSaved(selection.current)
        /\ selection' = [selection EXCEPT !.current = Damaged(faults)]
        /\ UNCHANGED settings
  /\ UNCHANGED <<trail, overwritten, drawn, runs, apps, seen, work, stale>>

-----------------------------------------------------------------------------
(* Leases.                                                                 *)

Lease(r) == runs[r].lease
\* The file is the lease this process acquired or renewed last.
\* Mutant: any lease will do.
HoldsAny(p, r) == r \in Reserved /\ Lease(r) # None
Holds(p, r) ==
  /\ r \in Reserved /\ Lease(r) # None
  /\ Lease(r).owner = p /\ Lease(r).known
Renewable(p) == ~apps[p].lost /\ Holds(p, apps[p].run) /\ Lease(apps[p].run).live

\* The renewal that runs beside the handlers fails, before or after the lease
\* was replaced, and the failure is remembered.  (One that is refused changes
\* nothing: the next renewal would be refused too.)
Renew(p) ==
  /\ apps[p].up /\ apps[p].run # None /\ Renewable(p) /\ Fault
  /\ \/ UNCHANGED runs
     \/ runs' = [runs EXCEPT ![apps[p].run].lease.known = FALSE]
  /\ apps' = [apps EXCEPT ![p].lost = TRUE]
  /\ UNCHANGED <<documents, seen, work, stale>>

Renewing(r) ==
  /\ r \in Reserved /\ Lease(r) # None
  /\ apps[Lease(r).owner].run = r /\ Renewable(Lease(r).owner)

\* The owner is kept from renewing the lease in time.  A lease that nobody renews
\* is live or expired as whoever looks at it finds it.
Expire(r) ==
  /\ Renewing(r) /\ Fault
  /\ runs' = [runs EXCEPT ![r].lease.live = FALSE]
  /\ UNCHANGED <<documents, apps, seen, work, stale>>

\* Mutant: whatever lease there is is removed.
ReleasedAny(p, r) ==
  IF HoldsAny(p, r) THEN [runs EXCEPT ![r].lease = None] ELSE runs
Released(p, r) == IF Holds(p, r) THEN [runs EXCEPT ![r].lease = None] ELSE runs

Left(p) == stale' = [stale EXCEPT ![p] = NotStale]
Inactive(a) == [a EXCEPT !.run = None, !.lost = FALSE, !.mem = EmptyState]

-----------------------------------------------------------------------------
(* Activation of a run: lease, state file, journal, pre-live authority.    *)

\* What an activation, or a create that has activated its run, leaves behind
\* when it fails: nothing is active; a create goes back to the run before.
Undone(p) ==
  LET a == Inactive(apps[p])
  IN IF apps[p].task.goal = "create" /\ apps[p].task.prior # None
     THEN [a EXCEPT !.at = "acquire",
                    !.task = [NoTask EXCEPT !.goal = "restore",
                                            !.target = apps[p].task.prior]]
     ELSE Idle(a)
Undo(p) ==
  /\ apps' = [apps EXCEPT ![p] = Undone(p)]
  /\ Left(p)

Domains == {"strategy", "source"}
Conflicts(state, refs) ==
  \E d \in Domains : state[d] # None /\ refs[d] # None /\ state[d] # refs[d]
\* Mutant: the state file is taken as it is.
RestoredFile(run) == IF run.file = None THEN EmptyState ELSE run.file
\* The projection the journal names last replaces the state file.
Restored(run) ==
  IF run.journal.latest # None THEN run.journal.latest
  ELSE IF run.file = None THEN EmptyState ELSE run.file
Loads(run) == ~Conflicts(Restored(run), run.journal.refs)
\* The directory of the journal and the lease is refused with a file that is
\* neither; nothing ever removes one.
Valid(r) == r \in Reserved /\ ~runs[r].leftover

Free(r) == r \in Reserved /\ ~Renewing(r)
Held(r) == r \in Reserved => Lease(r) # None /\ Lease(r).live

\* The lease is acquired and the state restored; the authority that opened the
\* gate is committed next.
Acquire(p) ==
  LET r == apps[p].task.target
      state == Restored(runs[r])
  IN /\ apps[p].at = "acquire" /\ Valid(r) /\ Free(r) /\ Loads(runs[r])
     /\ runs' = [runs EXCEPT
          ![r].lease = [owner |-> p, live |-> TRUE, known |-> TRUE],
          ![r].file = IF runs[r].journal.latest # None THEN state ELSE @]
     /\ apps' = [apps EXCEPT ![p].run = r, ![p].lost = FALSE, ![p].mem = state,
                             ![p].at = "renew", ![p].task.domain = "pre_live"]
     /\ Left(p)
     /\ UNCHANGED <<documents, seen, work, faults>>

AcquireRefused(p) ==
  /\ apps[p].at = "acquire"
  /\ ~Valid(apps[p].task.target) \/ Held(apps[p].task.target)
  /\ Undo(p)
  /\ UNCHANGED <<documents, runs, seen, work, faults>>

LoadRefused(p) ==
  LET r == apps[p].task.target
  IN /\ apps[p].at = "acquire" /\ Valid(r) /\ Free(r) /\ ~Loads(runs[r])
     /\ runs' = [runs EXCEPT ![r].lease = None]
     /\ Undo(p)
     /\ UNCHANGED <<documents, seen, work, faults>>

-----------------------------------------------------------------------------
(* A commit: the lease is renewed and the artifact written, the journal is *)
(* read, appended to under the version that was read, and the state file   *)
(* follows.  A transition is the middle two only.  Reading and appending   *)
(* ask for a valid directory; renewing a lease does not.                   *)

Failed(p) ==
  IF apps[p].task.goal = "work"
  THEN /\ apps' = [apps EXCEPT ![p] = Idle(@)]
       /\ runs' = [runs EXCEPT ![apps[p].run].clean =
                     @ /\ apps[p].task.domain = "move"]
       /\ UNCHANGED stale
  ELSE runs' = Released(p, apps[p].run) /\ Undo(p)

RenewForCommit(p) ==
  /\ apps[p].at = "renew" /\ Renewable(p)
  /\ Go(p, "read")
  /\ UNCHANGED <<documents, runs, seen, work, faults, stale>>

CommitRefused(p) ==
  /\ apps[p].at = "renew" /\ ~Renewable(p)
  /\ Failed(p)
  /\ UNCHANGED <<documents, seen, work, faults>>

\* The journal can be read, and a transition is one the state machine allows as
\* it stands: MaxMoves of them in the life of a run.
Allowed(p) ==
  /\ Valid(apps[p].run)
  /\ apps[p].task.domain = "move" => runs[apps[p].run].journal.moves < MaxMoves

ReadJournal(p) ==
  /\ apps[p].at = "read" /\ Allowed(p)
  /\ apps' = [apps EXCEPT ![p].at = "append", ![p].task.current = TRUE]
  /\ UNCHANGED <<documents, runs, seen, work, faults, stale>>

ReadRefused(p) ==
  /\ apps[p].at = "read" /\ ~Allowed(p)
  /\ Failed(p)
  /\ UNCHANGED <<documents, seen, work, faults>>

\* The version that was read is the version still: nobody appended since.
Appendable(p) == Valid(apps[p].run) /\ apps[p].task.current

Appended(j, p) ==
  LET d == apps[p].task.domain
      m == apps[p].mem
  IN CASE d = "move" -> [j EXCEPT !.moves = @ + 1]
       [] d = "pre_live" -> [j EXCEPT !.latest = m]
       [] OTHER -> [j EXCEPT !.latest = m, !.refs[d] = m[d]]

\* After a transition the handler returns; after a commit it writes the file.
AfterAppend(p) ==
  IF apps[p].task.domain = "move" THEN Idle(apps[p])
  ELSE [apps[p] EXCEPT !.at = "file"]
Counted(p) ==
  IF Lease(apps[p].run) # None /\ Lease(apps[p].run).owner = p THEN stale
  ELSE IF apps[p].task.domain = "move"
       THEN [stale EXCEPT ![p].moves = @ + 1]
       ELSE [stale EXCEPT ![p].authority = @ + 1]

AppendEvent(p) ==
  LET r == apps[p].run
  IN /\ apps[p].at = "append" /\ Appendable(p)
     /\ runs' = [runs EXCEPT ![r].journal = Appended(@, p),
                             ![r].clean = @ /\ Counted(p) = stale]
     /\ apps' = [q \in Processes |->
          CASE q = p -> AfterAppend(p)
            [] q # p /\ apps[q].run = r -> [apps[q] EXCEPT !.task.current = FALSE]
            [] OTHER -> apps[q]]
     /\ stale' = Counted(p)
     /\ UNCHANGED <<documents, seen, work, faults>>

AppendRefused(p) ==
  /\ apps[p].at = "append"
  /\ \/ ~Appendable(p) /\ NoFault
     \/ Appendable(p) /\ Fault
  /\ Failed(p)
  /\ UNCHANGED <<documents, seen, work>>

\* What a commit was for: an activation ends, or a create goes on.
AfterCommit(p) ==
  LET a == apps[p]
  IN IF a.task.goal = "create"
     THEN [a EXCEPT !.at = IF a.task.domain = "pre_live" THEN "apply" ELSE "select"]
     ELSE Idle(a)

WriteState(p) ==
  /\ apps[p].at = "file"
  /\ runs' = [runs EXCEPT ![apps[p].run].file = apps[p].mem]
  /\ apps' = [apps EXCEPT ![p] = AfterCommit(p)]
  /\ UNCHANGED <<documents, seen, work, faults, stale>>

WriteStateFails(p) ==
  /\ apps[p].at = "file" /\ Fault
  /\ Failed(p)
  /\ UNCHANGED <<documents, seen, work>>

\* A handler of the run: it changes the state and commits it, or executes a
\* transition, which no lease is asked for.
Work(p) ==
  /\ apps[p].up /\ apps[p].at = "idle" /\ apps[p].run # None
  /\ work < MaxWork /\ work' = work + 1
  /\ apps' = [apps EXCEPT ![p].mem.source = work + 1, ![p].at = "renew",
                ![p].task = [NoTask EXCEPT !.goal = "work", !.domain = "source"]]
  /\ UNCHANGED <<documents, runs, seen, faults, stale>>

Transition(p) ==
  /\ apps[p].up /\ apps[p].at = "idle" /\ apps[p].run # None
  /\ work < MaxWork /\ work' = work + 1
  /\ apps' = [apps EXCEPT ![p].at = "read",
                ![p].task = [NoTask EXCEPT !.goal = "work", !.domain = "move"]]
  /\ UNCHANGED <<documents, runs, seen, faults, stale>>

-----------------------------------------------------------------------------
(* The selected run.                                                       *)

\* The revisions the user quotes are current, the active run is the selected
\* one, and a directory is made that no run had.
CreateRun(p, r) ==
  LET shown == ShownSelection(p)
      quoted == seen[p].settings
  IN /\ apps[p].up /\ apps[p].at = "idle" /\ seen[p].selection # None
     /\ MaySave(shown, seen[p].selection)
     /\ apps[p].run # None => apps[p].run = shown.content
     /\ IsSaved(settings.current) /\ quoted = settings.current
     /\ r \notin Reserved
     /\ runs' = [q \in Reserved \cup {r} |-> IF q = r THEN NewRun ELSE runs[q]]
     /\ apps' = [apps EXCEPT ![p].at = "leave",
                   ![p].task = [NoTask EXCEPT !.goal = "create", !.target = r,
                                  !.prior = shown.content, !.quoted = quoted,
                                  !.expected = seen[p].selection]]
  /\ UNCHANGED <<documents, seen, work, faults, stale>>

Leave(p) ==
  /\ apps[p].at = "leave"
  /\ runs' = Released(p, apps[p].run)
  /\ apps' = [apps EXCEPT ![p] = [Inactive(@) EXCEPT !.at = "acquire"]]
  /\ Left(p)
  /\ UNCHANGED <<documents, seen, work, faults>>

\* Mutant: the settings that are current are taken, whatever was quoted.
ApplicableAny(p) == IsSaved(settings.current)
Applicable(p) == settings.current = apps[p].task.quoted

\* The settings are read again and become the strategy of the new run.
Apply(p) ==
  /\ apps[p].at = "apply" /\ Applicable(p)
  /\ apps' = [apps EXCEPT ![p].mem.strategy = settings.current, ![p].at = "renew",
                          ![p].task.domain = "strategy"]
  /\ UNCHANGED <<documents, runs, seen, work, faults, stale>>

ApplyRefused(p) ==
  /\ apps[p].at = "apply" /\ ~Applicable(p)
  /\ Failed(p)
  /\ UNCHANGED <<documents, seen, work, faults>>

\* The selection under the revision that was read, and what becomes of the app
\* if it is told that it failed.
CompareAndSwap(p, expected, r, then, otherwise) ==
  LET shown == ShownSelection(p)
      next == Following(shown, drawn + 1, r)
      states == Replaced(selection, Prior(shown), next)
  IN /\ MaySave(shown, expected) /\ r \in Reserved
     /\ \E n \in DOMAIN states :
          /\ Outcome(p, selection, states, n, "selection", next, then, otherwise)
          /\ overwritten' = (overwritten \/ (n = Len(states) /\ expected # shown))

Select(p) ==
  /\ apps[p].at = "select"
  /\ CompareAndSwap(p, apps[p].task.expected, apps[p].task.target,
                    Idle(apps[p]), [apps[p] EXCEPT !.at = "back"])
  /\ UNCHANGED <<settings, runs, work>>

SelectRefused(p) ==
  /\ apps[p].at = "select"
  /\ \/ ~MaySave(ShownSelection(p), apps[p].task.expected) /\ NoFault
     \/ Fault
  /\ Go(p, "back")
  /\ UNCHANGED <<documents, runs, seen, work, stale>>

Back(p) ==
  /\ apps[p].at = "back"
  /\ Failed(p)
  /\ UNCHANGED <<documents, seen, work, faults>>

SelectRun(p, r) ==
  /\ apps[p].up /\ apps[p].at = "idle" /\ apps[p].run # r
  /\ seen[p].selection # None
  /\ CompareAndSwap(p, seen[p].selection, r,
       [apps[p] EXCEPT !.at = "leave",
                       !.task = [NoTask EXCEPT !.goal = "open", !.target = r]],
       apps[p])
  /\ UNCHANGED <<settings, runs, work>>

\* A problem whose revision can be read is recovered under that revision too;
\* whoever shows the problem shows its revision.
RecoverRunSelection(p, r) ==
  /\ apps[p].up /\ apps[p].at = "idle" /\ apps[p].run = None
  /\ MayRecover(ShownSelection(p), seen[p].selection)
  /\ r \in Reserved \cup {None}
  /\ LET next == Recovered(selection, drawn + 1, r)
         then == IF r = None THEN apps[p]
                 ELSE [apps[p] EXCEPT !.at = "acquire",
                         !.task = [NoTask EXCEPT !.goal = "open", !.target = r]]
     IN Outcome(p, selection, Replaced(selection, None, next), 1, "selection",
                next, then, apps[p])
  /\ UNCHANGED <<settings, runs, work, overwritten>>

-----------------------------------------------------------------------------
(* The process.                                                            *)

Start(p) ==
  /\ ~apps[p].up
  /\ LET fresh == [Down EXCEPT !.up = TRUE]
         r == IF IsSaved(selection.current) THEN selection.current.content ELSE None
     IN apps' = [apps EXCEPT ![p] =
          IF r = None THEN fresh
          ELSE [fresh EXCEPT !.at = "acquire",
                  !.task = [NoTask EXCEPT !.goal = "open", !.target = r]]]
  /\ UNCHANGED <<documents, runs, seen, work, faults, stale>>

Close(p) ==
  /\ apps[p].up /\ apps[p].at = "idle"
  /\ runs' = Released(p, apps[p].run)
  /\ apps' = [apps EXCEPT ![p] = Down]
  /\ Left(p)
  /\ seen' = [seen EXCEPT ![p] = NothingSeen]
  /\ UNCHANGED <<documents, work, faults>>

\* A process writes in the directory of a run's journal when it acquires the
\* lease, when it renews it, beside the handlers or for a commit, and when it
\* appends.
Writing(p, r) ==
  \/ apps[p].at = "acquire" /\ apps[p].task.target = r /\ Valid(r) /\ Free(r)
  \/ apps[p].run = r /\ Renewable(p)
  \/ apps[p].at = "append" /\ apps[p].run = r /\ Appendable(p)

\* A process that dies before it renames what it was writing leaves a temporary
\* file; a write that fails removes its own.
Crash(p) ==
  /\ apps[p].up /\ Fault
  /\ \/ UNCHANGED runs
     \/ \E r \in Reserved :
          Writing(p, r) /\ runs' = [runs EXCEPT ![r].leftover = TRUE]
  /\ apps' = [apps EXCEPT ![p] = Down]
  /\ Left(p)
  /\ seen' = [seen EXCEPT ![p] = NothingSeen]
  /\ UNCHANGED <<documents, work>>

Documents(p) ==
  \/ View(p)
  \/ \E draft \in Drafts : SaveSettings(p, draft)
  \/ \E restore \in BOOLEAN : RecoverSettings(p, restore)
Activation(p) ==
  \/ Acquire(p) \/ AcquireRefused(p) \/ LoadRefused(p)
  \/ Renew(p) \/ RenewForCommit(p) \/ CommitRefused(p)
  \/ ReadJournal(p) \/ ReadRefused(p) \/ AppendEvent(p) \/ AppendRefused(p)
  \/ WriteState(p) \/ WriteStateFails(p) \/ Work(p) \/ Transition(p)
Selection(p) ==
  \/ \E r \in RunIds : CreateRun(p, r) \/ SelectRun(p, r)
  \/ \E r \in RunIds \cup {None} : RecoverRunSelection(p, r)
  \/ Leave(p) \/ Apply(p) \/ ApplyRefused(p)
  \/ Select(p) \/ SelectRefused(p) \/ Back(p)
Next ==
  \/ \E p \in Processes :
       \/ Documents(p) \/ Activation(p) \/ Selection(p)
       \/ Start(p) \/ Close(p) \/ Crash(p)
  \/ \E r \in RunIds : Expire(r)
  \/ Damage

Spec == Init /\ [][Next]_vars

-----------------------------------------------------------------------------
(* Properties.                                                             *)

\* Nothing but a lease that is held refuses the run.
Opens(r) == Valid(r) /\ Loads(runs[r])

\* Whoever saves the selection or the settings replaces exactly the document
\* that was shown when the save was decided, whatever was saved, damaged and
\* recovered since; and whatever is damaged, the backup is the document that
\* was current or the one before it, so that a restored document loses one save.
DocumentsAreKept ==
  /\ ~overwritten
  /\ \A d \in {<<selection, "selection">>, <<settings, "settings">>} :
       IsSaved(d[1].backup) =>
         d[1].backup \in {trail[d[2]].last, trail[d[2]].before}

\* A run that is about to be selected was made from the settings its user
\* quoted, in its journal and in the state it would be restored from, unless
\* its lease was lost or an earlier holder appended to it on the way.
CreatedRunIsConfigured ==
  \A p \in Processes :
    apps[p].at = "select" /\ Holds(p, apps[p].run) /\ runs[apps[p].run].clean =>
      LET j == runs[apps[p].run].journal
      IN /\ j.refs.strategy = apps[p].task.quoted
         /\ j.latest.strategy = apps[p].task.quoted

\* What a run whose commits all succeeded or were cut short by a crash is restored
\* from has every authority its journal holds, so that it loads; the one thing it
\* can be refused for is the temporary file of a process that died while it wrote
\* in the run's directory.
RunsStayLoadable ==
  \A r \in Reserved : runs[r].clean =>
    /\ \A d \in Domains :
         runs[r].journal.refs[d] # None =>
           Restored(runs[r])[d] = runs[r].journal.refs[d]
    /\ Opens(r) \/ runs[r].leftover

\* A run is born with the settings its user quoted and keeps what its journal
\* holds, so that only such a death closes it.
RunsAreWhole == CreatedRunIsConfigured /\ RunsStayLoadable

\* A run no commit of which was broken can be opened again.
CleanRunsOpen == \A r \in Reserved : runs[r].clean => Opens(r)

\* A process whose lease another took commits at most one more authority, the
\* one it had renewed the lease for.
StaleIsOneCommit == \A p \in Processes : stale[p].authority <= 1

\* A lease that its owner renews in time is changed and removed by its owner
\* alone; everybody else waits.
LeaseIsTheHolders ==
  [][\A r \in RunIds :
       Renewing(r) /\ Lease(r)' # Lease(r) =>
         \/ apps'[Lease(r).owner] # apps[Lease(r).owner]
         \/ faults' # faults]_vars

\* A process whose lease was taken appends nothing to the run's journal.
StaleLeaseHasNoEffect == \A p \in Processes : stale[p] = NotStale

TypeOK ==
  /\ Reserved \subseteq RunIds
  /\ drawn \in 0..MaxSaves /\ work \in 0..MaxWork /\ faults \in 0..MaxFaults
  /\ \A p \in Processes :
       /\ apps[p].run \in Reserved \cup {None}
       /\ apps[p].at \in {"read", "append", "file", "apply", "select"}
            => apps[p].up /\ apps[p].run # None
  /\ \A r \in Reserved : Lease(r) # None => Lease(r).owner \in Processes
=============================================================================
