-------------------------- MODULE ControlDocument --------------------------
(***************************************************************************)
(* A control document and its backup, as internal/controlrun and           *)
(* internal/controlsettings keep them over privateio's replacement with a  *)
(* backup: saved under the revision that was read, damaged by whatever     *)
(* damages files, recovered under the problem that was read.               *)
(*                                                                         *)
(* A save holds the advisory lock from its load to its reread, and whoever *)
(* finds the lock held is refused.  So a save is one step, with an outcome *)
(* for each place where it can fail or its process can end.                *)
(***************************************************************************)
EXTENDS Naturals

CONSTANT None

\* A document that was never saved has version 0 and the random generation of
\* the repository that read it.
Document(version, generation, content) ==
  [version |-> version, generation |-> generation, content |-> content]
Damaged(n) == [damage |-> n]

Files(current, backup) == [current |-> current, backup |-> backup]
NoFiles == Files(None, None)

Revision(d) == [version |-> d.version, generation |-> d.generation]
IsDamaged(d) == d # None /\ "damage" \in DOMAIN d
IsSaved(d) == d # None /\ "version" \in DOMAIN d /\ d.version > 0

\* What a repository shows: the default under its own generation, the document,
\* or the problem, whose fingerprint covers both files.
Shown(files, default, content) ==
  IF files.current = None THEN Document(0, default, content)
  ELSE IF IsDamaged(files.current)
       THEN [problem |-> files.current, backup |-> files.backup]
       ELSE files.current
IsProblem(s) == s # None /\ "problem" \in DOMAIN s

\* Mutant: the backup is made of the new document.
ReplacedBackingUpNext(files, prior, next) ==
  IF prior = None
  THEN <<Files(next, files.backup)>>
  ELSE <<Files(files.current, next), Files(next, next)>>
\* What is on disk after each rename of a replacement.
Replaced(files, prior, next) ==
  IF prior = None
  THEN <<Files(next, files.backup)>>
  ELSE <<Files(files.current, prior), Files(next, prior)>>

\* The reads that let a save go ahead, and what it writes.
\* Mutant: the version alone is compared.
MaySaveVersion(shown, expected) ==
  /\ ~IsProblem(shown) /\ ~IsProblem(expected)
  /\ shown.version = expected.version
MaySave(shown, expected) ==
  /\ ~IsProblem(shown) /\ ~IsProblem(expected)
  /\ Revision(shown) = Revision(expected)
Following(shown, generation, content) ==
  Document(shown.version + 1, generation, content)
Prior(shown) == IF shown.version > 0 THEN shown ELSE None

MayRecover(shown, seen) == IsProblem(shown) /\ IsProblem(seen) /\ shown = seen
\* A recovered document follows the backup in version; its generation is new.
RecoveredVersion(files) ==
  IF IsSaved(files.backup) THEN files.backup.version + 1 ELSE 1
Recovered(files, generation, content) ==
  Document(RecoveredVersion(files), generation, content)
=============================================================================
