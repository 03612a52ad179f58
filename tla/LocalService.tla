---------------------------- MODULE LocalService ----------------------------
(***************************************************************************)
(* The lifecycle of the local agent in internal/localservice: install,     *)
(* restart, roll back and uninstall, each under one advisory lock, over the *)
(* files an installation consists of and the service launchd keeps alive.  *)
(*                                                                         *)
(* An operation is a list of steps computed from what it finds on disk.    *)
(* Each step may fail, with or without its effect, after which the steps   *)
(* done are undone in reverse; and the process may end between two steps,  *)
(* which releases the lock and undoes nothing.                             *)
(***************************************************************************)
EXTENDS Naturals, Sequences, SequencesExt

CONSTANTS
  None,
  Empty,      \* a plist that was truncated and never written
  Versions,   \* of the binary; a helper skill is the one of its version
  Configs,
  MaxFaults   \* failed steps, ended processes

Receipts == {"installing", "start_pending", "installed_not_started", "started",
             "restarted", "rolled_back"}

\* What a manifest names, and what an installation is known by.
Pairs == [binary : Versions, skill : Versions \cup {None}]

\* What is absent or truncated is no version, configuration, receipt or manifest.
ASSUME ServiceAssumption ==
  /\ MaxFaults \in Nat
  /\ None \notin Versions \cup Configs \cup Receipts \cup Pairs \cup {"whole"}
  /\ Empty \notin {None, "whole"}

VARIABLES
  disk,       \* the artifacts of the inventory
  litter,     \* an abandoned temporary file in the rollback directory
  service,    \* the job as launchd knows it, and the version that runs
  op,         \* the operation that holds lifecycle.lock
  lockFile,   \* lifecycle.lock exists
  peek,       \* the configuration a second process has read without the lock
  lease,      \* an evaluation holds the lock
  faults,
  cut,        \* an operation was cut short, or a service started under it,
              \* since the last one that completed
  previous    \* the installation before the last completed one

vars == <<disk, litter, service, op, lockFile, peek, lease, faults, cut, previous>>

Nothing == [config |-> None, receipt |-> None, binary |-> None, skill |-> None,
            launcher |-> None, manifest |-> None, oldBinary |-> None, oldSkill |-> None]

NoOperation == [kind |-> "none"]

Stopped == [loaded |-> FALSE, version |-> None]

Init ==
  /\ disk = Nothing /\ litter = FALSE /\ service = Stopped
  /\ op = NoOperation /\ lockFile = FALSE /\ peek = None /\ lease = FALSE
  /\ faults = 0 /\ cut = FALSE /\ previous = None

-----------------------------------------------------------------------------
(* Steps.                                                                  *)

Write(artifact, value) == [does |-> "write", what |-> artifact, to |-> value]
Do(what) == [does |-> what, what |-> None, to |-> None]
When(condition, steps) == IF condition THEN steps ELSE <<>>

\* restartLaunchAgent: kickstart of a job that is loaded, bootstrap of the plist
\* of one that is not.  Either runs the binary that is on disk.
CanStart == service.loaded \/ disk.launcher = "whole"
Started == [loaded |-> TRUE, version |-> disk.binary]

Installed(d) == [binary |-> d.binary, skill |-> d.skill]

\* Mutant: the manifest of the first backup stays.
PrepareRollbackKeepsManifest(d) ==
  <<Write("oldBinary", d.binary)>>
  \o When(d.skill # None \/ d.oldSkill # None, <<Write("oldSkill", d.skill)>>)
  \o When(d.manifest = None, <<Write("manifest", Installed(d))>>)

PrepareRollback(d) ==
  <<Write("oldBinary", d.binary)>>
  \o When(d.skill # None \/ d.oldSkill # None, <<Write("oldSkill", d.skill)>>)
  \o <<Write("manifest", Installed(d))>>

\* A skill the owner removed stays removed; only a first install writes it.
WritesSkill(d) == d.binary = None \/ d.skill # None

InstallSteps(d, v, c, start) ==
  When(d.binary # None, PrepareRollback(d))
  \o <<Write("config", c), Write("receipt", "installing"), Write("binary", v)>>
  \o When(WritesSkill(d), <<Write("skill", v)>>)
  \o <<Write("launcher", "whole"),
       Write("receipt", IF start THEN "start_pending" ELSE "installed_not_started")>>
  \o When(start, <<Do("start"), Do("smoke"), Write("receipt", "started")>>)

\* Mutant: the binary is restored and the skill is left to the owner.
RollbackStepsBinaryOnly(d) ==
  <<Do("stop"), Write("binary", d.manifest.binary), Do("start"), Do("ready"),
    Do("fingerprints"), Write("receipt", "rolled_back")>>

RollbackSteps(d) ==
  <<Do("stop")>>
  \o When(d.manifest.skill # None \/ d.skill # None, <<Write("skill", d.manifest.skill)>>)
  \o <<Write("binary", d.manifest.binary), Do("start"), Do("ready"), Do("fingerprints"),
       Write("receipt", "rolled_back")>>

RestartSteps == <<Do("start"), Write("receipt", "restarted")>>

Removal(d, a) == When(d[a] # None, <<Write(a, None)>>)

\* Mutant: the receipt goes first.
UninstallStepsReceiptFirst(d) ==
  <<Do("stop")>>
  \o Removal(d, "receipt") \o Removal(d, "binary") \o Removal(d, "skill")
  \o Removal(d, "launcher") \o Removal(d, "manifest") \o Removal(d, "oldBinary")
  \o Removal(d, "oldSkill") \o Removal(d, "config")
  \o <<Do("remove rollback directory")>>

UninstallSteps(d) ==
  <<Do("stop")>>
  \o Removal(d, "binary") \o Removal(d, "skill") \o Removal(d, "launcher")
  \o Removal(d, "manifest") \o Removal(d, "oldBinary") \o Removal(d, "oldSkill")
  \o Removal(d, "config") \o Removal(d, "receipt")
  \o <<Do("remove rollback directory")>>

\* The artifacts changed so far, put back in reverse.  The first write of an
\* artifact in the list is undone last, so each ends at what the inventory has.
UndoWrites(done, d) ==
  [i \in DOMAIN done |-> Write(Reverse(done)[i], d[Reverse(done)[i]])]

\* Mutant: the service is left as the failed candidate put it.
UndoStepsLeavesService(o) ==
  IF o.kind = "uninstall"
  THEN UndoWrites(o.done, o.before)
       \o When(o.before.receipt \in {"started", "restarted"}, <<Do("start")>>)
  ELSE UndoWrites(o.done, o.before)

\* Uninstall starts the service again by what the receipt says of it.
StartAgain(o) == When(o.before.receipt \in {"started", "restarted"}, <<Do("start")>>)

\* installTransaction.restore and, for Uninstall, the renames back.
UndoSteps(o) ==
  IF o.kind = "uninstall"
  THEN UndoWrites(o.done, o.before) \o StartAgain(o)
  ELSE When(o.touched, <<Do("stop")>>)
       \o UndoWrites(o.done, o.before)
       \o When(o.touched /\ o.wasLoaded, <<Do("start")>>)

-----------------------------------------------------------------------------
(* The lock and the start of an operation.                                 *)

Begin(kind, steps) ==
  /\ op' = [kind |-> kind, todo |-> steps, done |-> <<>>, before |-> disk,
            wasLoaded |-> service.loaded, touched |-> FALSE,
            undoing |-> FALSE, broken |-> FALSE]
  /\ lockFile' = TRUE
  /\ UNCHANGED <<disk, litter, service, lease, faults, cut, previous>>

Free == op = NoOperation /\ ~lease

\* beginInstallTransaction reads every artifact; an empty file is refused.
CanInventory == disk.launcher # Empty

CanInstall == CanInventory /\ ~(disk.binary = None /\ disk.skill # None)

Install(v, c, start) ==
  /\ Free /\ CanInstall
  /\ Begin("install", InstallSteps(disk, v, c, start))
  /\ UNCHANGED peek

\* loadConfigForLifecycle reads the configuration, takes the lock and reads it
\* again.
ReadConfig ==
  /\ peek = None /\ disk.config # None
  /\ peek' = disk.config
  /\ UNCHANGED <<disk, litter, service, op, lockFile, lease, faults, cut, previous>>

\* The lock is busy, the configuration changed meanwhile, or a check that
\* precedes the first change fails.
Refused ==
  /\ peek # None
  /\ peek' = None
  /\ UNCHANGED <<disk, litter, service, op, lockFile, lease, faults, cut, previous>>

Entered == peek # None /\ Free /\ disk.config = peek /\ disk.receipt # None

\* readRollbackArtifacts: the copies are those the manifest names; a copy of a skill
\* of which it says nothing is not read.
CanRollback ==
  /\ CanInventory /\ disk.manifest # None
  /\ disk.oldBinary = disk.manifest.binary
  /\ disk.manifest.skill # None => disk.oldSkill = disk.manifest.skill

Rollback ==
  /\ Entered /\ CanRollback /\ peek' = None
  /\ Begin("rollback", RollbackSteps(disk))

Restart ==
  /\ Entered /\ disk.receipt # "installing" /\ peek' = None
  /\ Begin("restart", RestartSteps)

CanUninstall == disk.config # None /\ disk.receipt # None /\ ~litter

Uninstall ==
  /\ Entered /\ CanUninstall /\ peek' = None
  /\ Begin("uninstall", UninstallSteps(disk))

AcquireLease ==
  /\ lockFile /\ Free /\ lease' = TRUE
  /\ UNCHANGED <<disk, litter, service, op, lockFile, peek, faults, cut, previous>>

CloseLease ==
  /\ lease /\ lease' = FALSE
  /\ UNCHANGED <<disk, litter, service, op, lockFile, peek, faults, cut, previous>>

-----------------------------------------------------------------------------
(* What a step does.                                                       *)

step == Head(op.todo)

\* Restart neither stops a service nor records that it has touched one.
Touches(s) == s.does \in {"start", "stop"}

Performed(s) ==
  /\ disk' = IF s.does = "write" THEN [disk EXCEPT ![s.what] = s.to] ELSE disk
  /\ service' = CASE s.does = "start" -> Started
                  [] s.does = "stop"  -> Stopped
                  [] OTHER            -> service

Recorded(o, s) ==
  [o EXCEPT !.done = IF s.does = "write" /\ ~o.undoing THEN Append(@, s.what) ELSE @,
            !.touched = @ \/ Touches(s)]

\* The next step succeeds.
Advance ==
  /\ op # NoOperation /\ op.todo # <<>>
  /\ step.does = "start" => CanStart
  /\ Performed(step)
  /\ op' = [Recorded(op, step) EXCEPT !.todo = Tail(@)]
  /\ UNCHANGED <<litter, lockFile, peek, lease, faults, cut, previous>>

\* What is left to do once a step has failed.  A failed stop of Uninstall has
\* changed nothing yet; Restart gives up.  While undoing, Install and Rollback
\* go on with the rest and Uninstall goes on with its restart only.
Abandon(o) ==
  IF o.undoing
  THEN [o EXCEPT !.broken = TRUE,
                 !.todo = IF o.kind = "uninstall" /\ step.does = "write"
                          THEN StartAgain(o)
                          ELSE Tail(@)]
  ELSE LET p == IF o.kind = "uninstall" THEN o ELSE Recorded(o, step)
       IN [p EXCEPT !.undoing = TRUE,
                    !.broken = o.kind = "restart",
                    !.todo = IF o.kind = "restart" \/ (o.kind = "uninstall" /\ step.does = "stop")
                             THEN <<>> ELSE UndoSteps(p)]

\* The next step fails: before its effect, or, if it is a write of the installer,
\* after it.  Starting a service whose plist is not there fails by itself.
Fail ==
  /\ op # NoOperation /\ op.todo # <<>>
  /\ \/ step.does = "start" /\ ~CanStart /\ faults' = faults
     \/ faults < MaxFaults /\ faults' = faults + 1
  /\ \/ UNCHANGED <<disk, service>>
     \/ op.kind # "uninstall" /\ (step.does = "start" => CanStart) /\ Performed(step)
  /\ op' = Abandon(op)
  /\ UNCHANGED <<litter, lockFile, peek, lease, cut, previous>>

OneVersion(pair) == pair.binary # None /\ pair.skill \in {None, pair.binary}

\* The end of an operation releases the lock.  What a completed installation
\* replaced is the one before it; it makes up for an operation that was cut short
\* if what it backed up is of one version.
End ==
  /\ op # NoOperation /\ op.todo = <<>>
  /\ op' = NoOperation
  /\ cut' = IF op.undoing THEN cut \/ op.broken
            ELSE /\ cut
                 /\ op.kind = "install" => ~OneVersion(op.before)
                 /\ op.kind # "uninstall"
  /\ previous' = IF op.undoing THEN previous
                 ELSE CASE op.kind = "install" /\ op.before.binary # None -> Installed(op.before)
                        [] op.kind = "uninstall" -> None
                        [] OTHER -> previous
  /\ UNCHANGED <<disk, litter, service, lockFile, peek, lease, faults>>

\* The process ends between two steps, or inside one that replaces a file of the
\* rollback directory or truncates the plist.
Crash ==
  /\ op # NoOperation /\ faults < MaxFaults /\ faults' = faults + 1
  /\ \/ UNCHANGED <<disk, litter>>
     \/ /\ op.todo # <<>> /\ step.does = "write" /\ op.kind # "uninstall"
        /\ step.what \in {"oldBinary", "oldSkill", "manifest"} /\ step.to # None
        /\ litter' = TRUE /\ UNCHANGED disk
     \/ /\ op.todo # <<>> /\ op.kind = "install" /\ ~op.undoing
        /\ step.does = "write" /\ step.what = "launcher"
        /\ disk' = [disk EXCEPT !.launcher = Empty] /\ UNCHANGED litter
  /\ op' = NoOperation /\ cut' = TRUE
  /\ UNCHANGED <<service, lockFile, peek, lease, previous>>

\* launchd starts the job again, or loads it at a login, with the binary that is
\* on disk; under an operation that may be one its restoration takes back without
\* a look at the service.
Respawn ==
  /\ \/ service.loaded /\ service.version # disk.binary
     \/ ~service.loaded /\ op = NoOperation /\ disk.launcher = "whole"
  /\ service' = Started
  /\ cut' = (cut \/ op # NoOperation)
  /\ UNCHANGED <<disk, litter, op, lockFile, peek, lease, faults, previous>>

\* The owner removes the helper skill.
RemoveSkill ==
  /\ Free /\ disk.skill # None
  /\ disk' = [disk EXCEPT !.skill = None]
  /\ UNCHANGED <<litter, service, op, lockFile, peek, lease, faults, cut, previous>>

Next ==
  \/ \E v \in Versions, c \in Configs, start \in BOOLEAN : Install(v, c, start)
  \/ ReadConfig \/ Refused \/ Rollback \/ Restart \/ Uninstall
  \/ AcquireLease \/ CloseLease
  \/ Advance \/ Fail \/ End \/ Crash
  \/ Respawn \/ RemoveSkill

Spec == Init /\ [][Next]_vars

-----------------------------------------------------------------------------
(* Properties.                                                             *)

\* An installation, a rollback or an uninstallation that fails and says that it
\* restored what was there has: every artifact is as it was, and so is the
\* service, which runs the binary that is on disk if it was touched.  Uninstall
\* starts the service again by what the receipt says of it, not by what it was.
RefusedChangesNothing ==
  [][op # NoOperation /\ op' = NoOperation /\ op.todo = <<>> /\ op.undoing /\ ~op.broken =>
       /\ disk = op.before
       /\ IF op.kind = "uninstall"
          THEN op.touched /\ op.before.receipt \in {"started", "restarted"} =>
                 service.loaded /\ service.version = disk.binary
          ELSE /\ service.loaded = op.wasLoaded
               /\ op.touched /\ service.loaded => service.version = disk.binary]_vars

\* Whatever attempts failed in between, the rollback directory holds the
\* installation before the current one, and its manifest names what is in it.
BackupIsThePredecessor ==
  op = NoOperation /\ ~cut =>
    IF previous = None
    THEN <<disk.manifest, disk.oldBinary, disk.oldSkill>> = <<None, None, None>>
    ELSE /\ disk.manifest = previous
         /\ [binary |-> disk.oldBinary, skill |-> disk.oldSkill] = previous

\* Between operations none of which was cut short there is nothing, or one whole
\* installation: binary and skill of one version, or no skill; and a receipt that
\* says the service was started is of a service that runs this binary.
CommittedIsWhole ==
  op = NoOperation /\ ~cut =>
    \/ disk = Nothing
    \/ /\ OneVersion(disk)
       /\ disk.config # None /\ disk.launcher = "whole"
       /\ disk.receipt \notin {None, "installing", "start_pending"}
       /\ disk.receipt \in {"started", "restarted"} =>
            service = [loaded |-> TRUE, version |-> disk.binary]

\* After any number of refused, failed or rolled back operations, the current
\* installation and the one kept for a rollback are each whole and the right one.
InstallationsAreWhole == BackupIsThePredecessor /\ CommittedIsWhole

\* Wherever one operation was cut short or one step failed, an installation or an
\* uninstallation is accepted and leads on.
WayOut == op = NoOperation /\ faults <= 1 => CanInstall \/ CanUninstall

\* While an evaluation holds its lease no operation replaces an artifact or
\* touches the service: what runs is what ran, or what launchd finds on disk.
LeaseFreezes ==
  [][lease => /\ \A a \in DOMAIN disk \ {"skill"} : disk'[a] = disk[a]
              /\ op' = NoOperation
              /\ service' \in {service, Started}]_vars
=============================================================================
