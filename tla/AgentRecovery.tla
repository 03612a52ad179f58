--------------------------- MODULE AgentRecovery ---------------------------
(***************************************************************************)
(* The durable side of internal/agentstate: the database, the three        *)
(* recovery files beside it, and the start that restores a lost database   *)
(* from them.                                                              *)
(*                                                                         *)
(* A mutation holds the store's mutex from its commit to its reply: the    *)
(* database is committed, the legacy file and the scoped file are written, *)
(* and only then is the caller told.  A project connection writes a file   *)
(* of its own.  `pc' is "idle" when the store is open and no mutation is   *)
(* under way, "closed" when there is no process, "refused" when a start    *)
(* gave up on what it found, and otherwise the next durable write.         *)
(*                                                                         *)
(* A start that finds the database unusable binds the recovery to the      *)
(* project file, leaves a marker, moves the database away and then what    *)
(* SQLite left beside it, its log and the log's index, builds a stage from *)
(* the files, writes the files again as the stage has them, promotes the   *)
(* stage, checks it and takes the marker away.  The process may die before *)
(* any of these, a write may fail, and the database may be lost whenever   *)
(* nobody has it open.                                                     *)
(***************************************************************************)
EXTENDS AgentState

CONSTANTS
  Missing, Corrupt,                     \* no database, and one that cannot be read
  MaxJudgments,                         \* bound on the judgments of both halves
  MaxFaults                             \* bound on crashes, failed writes and losses

\* What the legacy file, the marker, the binding and a pending mutation may hold.
LegacyFiles == [lens : BOOLEAN, judgments : [LegacyKeys -> Judgment(LegacyKeys) \cup {Null}]]
Markers == [legacy : BOOLEAN]
Bindings == [bound : BOOLEAN, conns : ConnectionStates]
Mutations == [kind : {"bind", "archive"}, digest : Digests]

ASSUME RecoveryAssumption ==
  /\ Missing # Corrupt /\ {Missing, Corrupt} \cap Databases = {}
  /\ Null \notin LegacyFiles \cup ScopedStates \cup ConnectionStates
               \cup Markers \cup Bindings \cup Mutations
  /\ MaxJudgments \in Nat /\ MaxFaults \in Nat

VARIABLES
  db,             \* Missing, Corrupt or the database
  legacyFile,     \* Null or [lens, judgments]
  scopedFile,     \* Null or a scoped half
  projectFile,    \* Null or the connections
  adopted,        \* the adoption marker of project connections
  marker,         \* Null or whether the recovery began with a legacy file
  binding,        \* Null, or what the recovery is bound to: Null or connections
  quarantined,    \* a database has been moved away under this marker
  sides,          \* what a database that was lost left beside it
  stage,          \* Null or the staged database
  pc,
  pending,        \* Null or the connection mutation whose file was not written
  told,           \* what callers have been told
  faults          \* how many faults have happened

files == <<legacyFile, scopedFile, projectFile>>
recovery == <<marker, binding, quarantined, sides, stage>>
vars == <<db, files, adopted, recovery, pc, pending, told, faults>>

Sides == {"log", "index"}

Sound == db \notin {Missing, Corrupt}
Unbound == [bound |-> FALSE, conns |-> NoConnections]
BoundTo(c) == [bound |-> TRUE, conns |-> c]

-----------------------------------------------------------------------------
(* The database a start may find: none, one of a binary that knew no       *)
(* scopes, or one whose recovery such a binary had begun.                  *)

Upgrades ==
  [lens : BOOLEAN, run : {TRUE},
   judgments : {NoJudgments} \cup
     {[NoJudgments EXCEPT ![k] = LegacyOriginal([actor |-> "owner", sign |-> 1])] : k \in LegacyKeys}]

Nothing == [scoped |-> EmptyScoped, judgments |-> NoJudgments, conns |-> NoConnections]

Init ==
  /\ \/ db = Missing /\ sides = {} /\ legacyFile = Null /\ marker = Null
     \/ \E l \in Upgrades :
          /\ legacyFile = LegacySnapshot(l)
          /\ \/ db = [EmptyDatabase EXCEPT !.legacy = l] /\ sides = {} /\ marker = Null
             \/ db = Corrupt /\ sides \in SUBSET Sides /\ marker = [legacy |-> TRUE]
  /\ scopedFile = Null /\ projectFile = Null
  /\ adopted = FALSE /\ binding = Null /\ quarantined = FALSE /\ stage = Null
  /\ pc = "closed" /\ pending = Null
  /\ told = [Nothing EXCEPT !.judgments = IF legacyFile = Null THEN @ ELSE legacyFile.judgments]
  /\ faults = 0

Goto(p) == pc' = p
Fault == faults < MaxFaults /\ faults' = faults + 1

-----------------------------------------------------------------------------
(* Mutations.                                                              *)

Unchanged(p) == UNCHANGED <<files, adopted, recovery, told, faults, p>>

\* The commit of a mutation of the scoped or the legacy half; the files follow.
Commit(d) ==
  /\ pc = "idle" /\ db' = d /\ Goto("legacy") /\ Unchanged(pending)

Scoped(s) == Commit([db EXCEPT !.scoped = s])
Legacy(l) == Commit([db EXCEPT !.legacy = l])

PutScope(o) == pc = "idle" /\ Scoped(Put(db.scoped, o))
PutScopedLens(o) == pc = "idle" /\ MayPut(db.scoped, o) /\ Scoped(Put(db.scoped, o))
PutAgentActor(o) == pc = "idle" /\ Scoped(Put(db.scoped, o))

\* Registering an agent that is archived is a conflict; one that is active is
\* written to the files again.
RegisterAgentActor(o) ==
  pc = "idle" /\ db.scoped.status[o] # "archived" /\ Scoped(Put(db.scoped, o))

ArchiveScope(o) == pc = "idle" /\ MayArchive(db.scoped, o) /\ Scoped(Archive(db.scoped, o))
ArchiveScopedLens(o) == pc = "idle" /\ MayArchive(db.scoped, o) /\ Scoped(Archive(db.scoped, o))
ArchiveAgentActor(o) == pc = "idle" /\ MayArchive(db.scoped, o) /\ Scoped(Archive(db.scoped, o))

SaveScopedRetrieval(r, c) ==
  /\ pc = "idle" /\ db.scoped.runs[r] = Null /\ Active(db.scoped, c)
  /\ Scoped([db.scoped EXCEPT !.runs[r] = c])

MayPass == Passed(db.scoped.feedback, Keys) + Passed(db.legacy.judgments, LegacyKeys) < MaxJudgments

ApplyScopedJudgment(k, r, v) ==
  /\ pc = "idle" /\ db.scoped.feedback[k] = Null /\ MayPass
  /\ MayJudge(db.scoped, r)
  /\ Scoped([db.scoped EXCEPT !.feedback[k] = Original(r, v)])

ReverseScopedJudgment(k, actor, j) ==
  /\ pc = "idle" /\ db.scoped.feedback[k] = Null /\ MayPass
  /\ MayReverse(db.scoped, actor, j)
  /\ Scoped([db.scoped EXCEPT !.feedback[k] = Reversal(db.scoped, j)])

\* Mutant: a replay is acknowledged from the database alone.
ReplayAcknowledged(k) ==
  /\ pc = "idle"
  /\ \/ k \in Keys /\ db.scoped.feedback[k] # Null
     \/ k \in LegacyKeys /\ db.legacy.judgments[k] # Null
  /\ told' = [told EXCEPT !.scoped = db.scoped, !.judgments = db.legacy.judgments]
  /\ UNCHANGED <<db, files, adopted, recovery, pc, pending, faults>>

\* The same key with the same request is written to the files again before it
\* is acknowledged: the insert may have outlived a file that was not written.
Replay(k) ==
  /\ pc = "idle"
  /\ \/ k \in Keys /\ db.scoped.feedback[k] # Null
     \/ k \in LegacyKeys /\ db.legacy.judgments[k] # Null
  /\ Commit(db)

PutLens == pc = "idle" /\ Legacy([db.legacy EXCEPT !.lens = TRUE])
DeleteLens == pc = "idle" /\ Legacy([db.legacy EXCEPT !.lens = FALSE])

\* A legacy search is written to the database alone.
SaveRetrieval ==
  /\ pc = "idle" /\ ~ db.legacy.run
  /\ db' = [db EXCEPT !.legacy.run = TRUE] /\ Goto("idle") /\ Unchanged(pending)

ApplyJudgment(k, v) ==
  /\ pc = "idle" /\ db.legacy.judgments[k] = Null /\ MayPass
  /\ db.legacy.run
  /\ Legacy([db.legacy EXCEPT !.judgments[k] = LegacyOriginal(v)])

ReverseJudgment(k, actor, j) ==
  /\ pc = "idle" /\ db.legacy.judgments[k] = Null /\ MayPass
  /\ MayReverseLegacy(db.legacy, j)
  /\ Legacy([db.legacy EXCEPT !.judgments[k] = LegacyReversal(db.legacy, actor, j)])

\* writeRecoverySnapshot: the legacy file, then the scoped file, then the reply.
WriteLegacyFile ==
  /\ pc = "legacy" /\ legacyFile' = LegacySnapshot(db.legacy) /\ Goto("scoped")
  /\ UNCHANGED <<db, scopedFile, projectFile, adopted, recovery, pending, told, faults>>

WriteScopedFile ==
  /\ pc = "scoped" /\ scopedFile' = db.scoped /\ Goto("idle")
  /\ told' = [told EXCEPT !.scoped = db.scoped, !.judgments = db.legacy.judgments]
  /\ UNCHANGED <<db, legacyFile, projectFile, adopted, recovery, pending, faults>>

-----------------------------------------------------------------------------
(* Project connections.                                                    *)

Pends(kind, h) == [kind |-> kind, digest |-> h]

\* Binding a free handle, or a handle that is bound to this context already.
\* While a mutation is pending only the same mutation is accepted, and it only
\* writes the file.
BindProjectConnection(h, c) ==
  /\ pc = "idle" /\ Active(db.scoped, c)
  /\ \/ pending = Null /\ db.conns[h] = Null /\ db' = Bind(db, c, h)
     \/ pending \in {Null, Pends("bind", h)} /\ db.conns[h] = [context |-> c, status |-> "active"]
        /\ UNCHANGED db
  /\ pending' = Pends("bind", h) /\ Goto("project")
  /\ UNCHANGED <<files, adopted, recovery, told, faults>>

ArchiveProjectConnection(h) ==
  /\ pc = "idle" /\ db.conns[h] # Null
  /\ pending \in {Null, Pends("archive", h)}
  /\ db' = Unbind(db, h) /\ pending' = Pends("archive", h) /\ Goto("project")
  /\ UNCHANGED <<files, adopted, recovery, told, faults>>

WriteProjectFile ==
  /\ pc = "project" /\ projectFile' = db.conns /\ pending' = Null /\ Goto("idle")
  /\ told' = [told EXCEPT !.conns = db.conns]
  /\ UNCHANGED <<db, legacyFile, scopedFile, adopted, recovery, faults>>

\* Mutant: the failed connection mutation is not remembered.
WriteFailsForgotten ==
  /\ Fault
  /\ pc \in {"legacy", "scoped", "project"} /\ Goto("idle") /\ pending' = Null
  /\ UNCHANGED <<db, files, adopted, recovery, told>>

\* A file is not written: the caller gets an error.  For a connection the
\* mutation stays pending.  In a start it is as if the process had died there.
WriteFails ==
  /\ Fault
  /\ pc \in {"legacy", "scoped", "project"} /\ Goto("idle")
  /\ UNCHANGED <<db, files, adopted, recovery, pending, told>>

Mutate ==
  \/ \E o \in Scopes : PutScope(o) \/ ArchiveScope(o)
  \/ \E o \in Lenses : PutScopedLens(o) \/ ArchiveScopedLens(o)
  \/ \E o \in Actors : PutAgentActor(o) \/ RegisterAgentActor(o) \/ ArchiveAgentActor(o)
  \/ \E r \in Runs, c \in Contexts : SaveScopedRetrieval(r, c)
  \/ \E k \in Keys :
       \/ \E r \in Runs, v \in Verdicts : ApplyScopedJudgment(k, r, v)
       \/ \E j \in Keys, actor \in Judges : ReverseScopedJudgment(k, actor, j)
  \/ \E k \in Keys \cup LegacyKeys : Replay(k)
  \/ PutLens \/ DeleteLens \/ SaveRetrieval
  \/ \E k \in LegacyKeys :
       \/ \E v \in Verdicts : ApplyJudgment(k, v)
       \/ \E j \in LegacyKeys, actor \in Judges : ReverseJudgment(k, actor, j)
  \/ \E h \in Digests : ArchiveProjectConnection(h) \/ \E c \in Contexts : BindProjectConnection(h, c)
  \/ WriteFails

SaveFiles == WriteLegacyFile \/ WriteScopedFile \/ WriteProjectFile

-----------------------------------------------------------------------------
(* Opening.                                                                *)

StartAt(p, m) == pc = p /\ Goto(m) /\ UNCHANGED <<pending, told, faults>>

\* No marker: the database is opened, and created when there is none.  A marker:
\* the recovery goes on.  What is initialised already is passed over.
Open ==
  /\ StartAt("closed", IF marker # Null THEN "resume"
                       ELSE IF db = Corrupt THEN "recover"
                       ELSE IF db # Missing /\ db.meta THEN "connections" ELSE "scoped_half")
  /\ db' = IF marker = Null /\ db = Missing THEN EmptyDatabase ELSE db
  /\ UNCHANGED <<files, adopted, recovery>>

\* Scoped rows without the schema row are an interrupted restore; it is not
\* repeated over them.
Restorable(d) == ~ d.meta /\ scopedFile # Null => d.scoped = EmptyScoped

Initialised(d) ==
  IF d.meta THEN d
  ELSE IF scopedFile # Null THEN [d EXCEPT !.scoped = scopedFile]
  ELSE [d EXCEPT !.scoped = Projected(d.legacy, d.scoped)]

OpenScopedHalf ==
  /\ StartAt("scoped_half", IF Restorable(db) THEN "scoped_meta" ELSE "refused")
  /\ db' = IF Restorable(db) THEN Initialised(db) ELSE db
  /\ UNCHANGED <<files, adopted, recovery>>

OpenScopedMeta ==
  /\ StartAt("scoped_meta", "connections")
  /\ db' = [db EXCEPT !.meta = TRUE]
  /\ UNCHANGED <<files, adopted, recovery>>

\* With their table the connections must be those of the file; without it they
\* are taken from the file.
Differs(d) == d.table /\ d.conns # projectFile
Inherited == IF projectFile = Null THEN NoConnections ELSE projectFile

OpenConnections ==
  /\ StartAt("connections",
       IF Differs(db) THEN "recover"
       ELSE IF ~ db.table /\ ~ Refers(db.scoped, Inherited) THEN "refused"
       ELSE IF projectFile = Null THEN "project_file"
       ELSE IF ~ adopted THEN "adopt" ELSE "open_legacy")
  /\ db' = IF db.table \/ ~ Refers(db.scoped, Inherited) THEN db
           ELSE [db EXCEPT !.table = TRUE, !.conns = Inherited]
  /\ UNCHANGED <<files, adopted, recovery>>

OpenProjectFile ==
  /\ StartAt("project_file", "adopt") /\ projectFile' = db.conns
  /\ UNCHANGED <<db, legacyFile, scopedFile, adopted, recovery>>

OpenAdopts ==
  /\ StartAt("adopt", "open_legacy") /\ adopted' = TRUE
  /\ UNCHANGED <<db, files, recovery>>

\* The files are written before the store is handed out.
OpenLegacyFile ==
  /\ StartAt("open_legacy", IF ValidScoped(db.scoped) THEN "open_scoped" ELSE "refused")
  /\ legacyFile' = LegacySnapshot(db.legacy)
  /\ UNCHANGED <<db, scopedFile, projectFile, adopted, recovery>>

OpenScopedFile ==
  /\ StartAt("open_scoped", "idle") /\ scopedFile' = db.scoped
  /\ UNCHANGED <<db, legacyFile, projectFile, adopted, recovery>>

-----------------------------------------------------------------------------
(* Recovering.                                                             *)

RecoverAdopts ==
  /\ StartAt("recover", IF adopted /\ projectFile = Null THEN "refused" ELSE "bind")
  /\ adopted' = (adopted \/ projectFile # Null)
  /\ UNCHANGED <<db, files, recovery>>

\* Mutant: the recovery is bound as if no connection had been adopted.
RecoverBindsUnadopted ==
  /\ StartAt("bind", "mark")
  /\ binding' = Unbound
  /\ UNCHANGED <<db, files, adopted, marker, quarantined, sides, stage>>

RecoverBinds ==
  /\ StartAt("bind", "mark")
  /\ binding' = IF projectFile = Null THEN Unbound ELSE BoundTo(projectFile)
  /\ UNCHANGED <<db, files, adopted, marker, quarantined, sides, stage>>

RecoverMarks ==
  /\ StartAt("mark", "inspect")
  /\ marker' = [legacy |-> legacyFile # Null] /\ quarantined' = FALSE
  /\ UNCHANGED <<db, files, adopted, binding, sides, stage>>

\* A recovery goes on only against the files it began with.
SameFiles ==
  /\ marker.legacy = (legacyFile # Null)
  /\ binding = Null => ~ adopted /\ projectFile = Null
  /\ binding # Null => projectFile = IF binding.bound THEN binding.conns
                                     ELSE IF projectFile = Null THEN Null ELSE NoConnections

Resume ==
  /\ StartAt("resume", IF SameFiles THEN "inspect" ELSE "refused")
  /\ binding' = IF SameFiles /\ binding = Null THEN Unbound ELSE binding
  /\ UNCHANGED <<db, files, adopted, marker, quarantined, sides, stage>>

\* The promoted database agrees with every file.
KnownLegacy == IF legacyFile = Null THEN LegacySnapshot(EmptyDatabase.legacy) ELSE legacyFile
Complete(d) ==
  /\ LegacySnapshot(d.legacy) = KnownLegacy
  /\ scopedFile # Null => d.scoped = scopedFile
  /\ projectFile # Null => d.conns = projectFile

Unusable == ~ Sound \/ Differs(db)

\* Mutant: what is not there is not moved away, nor what it left beside it.
InspectCorruptOnly ==
  /\ StartAt("inspect",
       IF Unusable THEN IF db = Missing THEN "stage" ELSE "move"
       ELSE IF Complete(db) THEN "unbind" ELSE "refused")
  /\ adopted' = (adopted \/ ~ Unusable)
  /\ UNCHANGED <<db, files, recovery>>

\* What is unusable, or gone, is to be moved away; what is complete only needs
\* its marker taken away.
Inspect ==
  /\ StartAt("inspect",
       IF Unusable THEN "move" ELSE IF Complete(db) THEN "unbind" ELSE "refused")
  /\ adopted' = (adopted \/ ~ Unusable)
  /\ UNCHANGED <<db, files, recovery>>

\* quarantineDatabase: the database is moved once, and then what is left beside
\* it.  What a recovery that was cut short moved already is passed over.
MoveDatabase ==
  /\ StartAt("move", IF db # Missing /\ quarantined THEN "refused" ELSE "move_log")
  /\ db' = IF quarantined THEN db ELSE Missing
  /\ quarantined' = TRUE
  /\ UNCHANGED <<files, adopted, marker, binding, sides, stage>>

MoveSide(side, p, m) ==
  /\ StartAt(p, m) /\ sides' = sides \ {side}
  /\ UNCHANGED <<db, files, adopted, marker, binding, quarantined, stage>>

MoveLog == MoveSide("log", "move_log", "move_index")
MoveIndex == MoveSide("index", "move_index", "stage")
Quarantine == MoveDatabase \/ MoveLog \/ MoveIndex

\* The stage is opened beside its own copy of the files, takes the legacy file
\* after that, and projects it when there was no scoped file.
Restored ==
  LET legacy == RestoredLegacy(KnownLegacy)
      rooted == Projected(EmptyDatabase.legacy, EmptyScoped)
  IN [legacy |-> legacy, meta |-> TRUE,
      scoped |-> IF scopedFile # Null THEN scopedFile ELSE Projected(legacy, rooted),
      table |-> TRUE, conns |-> Inherited]

Stageable == Refers(Restored.scoped, Inherited) /\ ValidScoped(Restored.scoped)

BuildStage ==
  /\ StartAt("stage", IF Stageable THEN "stage_scoped" ELSE "refused")
  /\ stage' = IF Stageable THEN Restored ELSE Null
  /\ UNCHANGED <<db, files, adopted, marker, binding, quarantined, sides>>

StageScopedFile ==
  /\ StartAt("stage_scoped", "stage_project") /\ scopedFile' = stage.scoped
  /\ UNCHANGED <<db, legacyFile, projectFile, adopted, recovery>>

StageProjectFile ==
  /\ StartAt("stage_project", "promote") /\ projectFile' = stage.conns
  /\ UNCHANGED <<db, legacyFile, scopedFile, adopted, recovery>>

Promote ==
  /\ StartAt("promote", "verify") /\ db' = stage /\ stage' = Null
  /\ UNCHANGED <<files, adopted, marker, binding, quarantined, sides>>

Verify ==
  /\ StartAt("verify", "unbind") /\ adopted' = TRUE
  /\ UNCHANGED <<db, files, recovery>>

RemoveBinding ==
  /\ StartAt("unbind", "unmark") /\ binding' = Null
  /\ UNCHANGED <<db, files, adopted, marker, quarantined, sides, stage>>

RemoveMarker ==
  /\ StartAt("unmark", "open_legacy") /\ marker' = Null /\ quarantined' = FALSE
  /\ UNCHANGED <<db, files, adopted, binding, sides, stage>>

Start ==
  \/ Open \/ OpenScopedHalf \/ OpenScopedMeta \/ OpenConnections \/ OpenProjectFile
  \/ OpenAdopts \/ OpenLegacyFile \/ OpenScopedFile
  \/ RecoverAdopts \/ RecoverBinds \/ RecoverMarks \/ Resume \/ Inspect
  \/ Quarantine \/ BuildStage
  \/ StageScopedFile \/ StageProjectFile \/ Promote \/ Verify \/ RemoveBinding \/ RemoveMarker

-----------------------------------------------------------------------------
(* The environment.                                                        *)

Close ==
  /\ pc = "idle" /\ Goto("closed") /\ pending' = Null
  /\ UNCHANGED <<db, files, adopted, recovery, told, faults>>

\* Who was refused may try again.
Retry ==
  /\ pc = "refused" /\ Goto("closed") /\ UNCHANGED <<db, files, adopted, recovery, pending, told, faults>>

Crash ==
  /\ pc \notin {"idle", "closed", "refused"}
  /\ Fault
  /\ Goto("closed") /\ pending' = Null /\ stage' = Null
  /\ UNCHANGED <<db, files, adopted, marker, binding, quarantined, sides, told>>

Lose ==
  /\ pc = "closed" /\ Sound
  /\ Fault
  /\ db' = Corrupt /\ sides' \in SUBSET Sides
  /\ UNCHANGED <<files, adopted, marker, binding, quarantined, stage, pc, pending, told>>

\* A binary that knows no scopes moves the three away and rebuilds the database it
\* understands from the legacy file.
PriorBinaryRebuilds ==
  /\ pc = "closed" /\ db = Corrupt /\ marker = Null /\ legacyFile # Null
  /\ db' = [EmptyDatabase EXCEPT !.legacy = RestoredLegacy(legacyFile)] /\ sides' = {}
  /\ UNCHANGED <<files, adopted, marker, binding, quarantined, stage, pc, pending, told, faults>>

Next ==
  \/ Mutate \/ SaveFiles \/ Start
  \/ Close \/ Retry \/ Crash \/ Lose \/ PriorBinaryRebuilds

Spec == Init /\ [][Next]_vars

-----------------------------------------------------------------------------
(* Properties.                                                             *)

Places == {"closed", "refused", "idle", "legacy", "scoped", "project",
  "scoped_half", "scoped_meta", "connections", "project_file", "adopt",
  "open_legacy", "open_scoped", "recover", "bind", "mark", "resume", "inspect",
  "move", "move_log", "move_index", "stage", "stage_scoped", "stage_project", "promote", "verify", "unbind", "unmark"}

TypeOK ==
  /\ db \in Databases \cup {Missing, Corrupt}
  /\ legacyFile \in LegacyFiles \cup {Null}
  /\ scopedFile \in ScopedStates \cup {Null}
  /\ projectFile \in ConnectionStates \cup {Null}
  /\ adopted \in BOOLEAN /\ quarantined \in BOOLEAN /\ sides \subseteq Sides
  /\ marker \in Markers \cup {Null}
  /\ binding \in Bindings \cup {Null}
  /\ stage \in Databases \cup {Null}
  /\ pc \in Places /\ faults \in 0 .. MaxFaults
  /\ pending \in Mutations \cup {Null}

\* Whatever callers were told, of objects, searches, feedback, judgments and
\* connections, an open store still has: a recovery, a restart, an upgrade and
\* the way back through a prior binary forget nothing that was acknowledged and
\* bring nothing back that was archived (feedback.go:86, scoped_feedback.go:46).
ToldIsKept ==
  pc = "idle" =>
    /\ KeepsScoped(db.scoped, told.scoped)
    /\ KeepsLegacy(db.legacy, told.judgments)
    /\ KeepsConnections(db.conns, told.conns)

\* What a handle resolves to is what a recovery would restore: outside a
\* pending mutation the connections of an open store are those of the file
\* (project_connection.go:260).
ResolveIsDurable == pc = "idle" /\ pending = Null => db.conns = projectFile

\* Feedback can be summed: every reversal takes back one original exactly, in
\* the database and in every copy a recovery may use.
FeedbackBalances ==
  /\ Sound => Balanced(db.scoped.feedback, Keys) /\ Balanced(db.legacy.judgments, LegacyKeys)
  /\ scopedFile # Null => Balanced(scopedFile.feedback, Keys)
  /\ legacyFile # Null => Balanced(legacyFile.judgments, LegacyKeys)

\* No database is ever opened, promoted or handed out beside the log of one that
\* was lost, which SQLite would replay into it: a quarantine that is cut between
\* its renames is completed before anything is staged (recovery.go:738).
NoForeignLog == Sound => sides = {}

\* The ways a start gives up.
Orphaned ==
  /\ scopedFile = Null /\ legacyFile # Null /\ ~ legacyFile.lens
  /\ \E k \in LegacyKeys : legacyFile.judgments[k] # Null
HalfRestored == Sound /\ marker = Null /\ ~ db.meta /\ scopedFile # Null /\ db.scoped # EmptyScoped
Dangling ==
  /\ projectFile # Null
  /\ ~ Refers(IF Sound THEN db.scoped ELSE IF scopedFile = Null THEN EmptyScoped ELSE scopedFile, projectFile)
LostTwice == marker # Null /\ db = Corrupt /\ quarantined
Unfinished == marker # Null /\ binding = Null /\ Sound /\ Complete(db)

\* A start is refused for a known reason only: a projection without its search,
\* a restore cut short before its schema row, a connection to a context whose
\* file was never written, a second loss in one recovery, and a recovery cut
\* short between its last two removals.
RefusalsAreKnown ==
  pc = "refused" => Orphaned \/ HalfRestored \/ Dangling \/ LostTwice \/ Unfinished

\* "Interrupted recovery resumes safely" (docs): a recovery whose database is
\* already promoted and agrees with every file is not refused.
RecoveryResumes == pc = "refused" => ~ Unfinished
=============================================================================
