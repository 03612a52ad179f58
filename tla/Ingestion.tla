------------------------------ MODULE Ingestion ------------------------------
(***************************************************************************)
(* The adoption of Slack captures into the personal evidence library:      *)
(* ingestioncontroller.Controller.Apply, which reconciles an envelope of   *)
(* units, imports it and accounts for it in a ledger, and the repository's *)
(* ImportManyWithinBudget, which `personal-memory import-slack` calls on   *)
(* the same library from a process of its own.                             *)
(*                                                                         *)
(* Slack is a source whose messages are edited and deleted while it is     *)
(* being read.  A unit is what one reading of a window saw.  Units are     *)
(* applied in any grouping, late, repeatedly and out of order: nothing in  *)
(* the program ties the order of its imports to the order of the readings. *)
(* A record's content hash is the record Capture builds here, where        *)
(* `detail` stands for all the hash covers besides the state, the text and *)
(* the date of a message: its author's name, its permalink or the lack of  *)
(* one, its attachments.  A batch's fingerprint is its window with its     *)
(* contents; the fingerprint of a library is its revision number, which    *)
(* every change of it increases.                                           *)
(***************************************************************************)
EXTENDS Integers, Sequences, FiniteSets, SequencesExt

CONSTANTS
    Ids,          \* native message identities of one channel
    Windows,      \* a sequence of sets of identities: the units' windows
    Artifacts,    \* identities of empty messages written by no user
    ParentOf,     \* [Ids -> Ids \cup {Nobody}]: the thread parent of a reply
    Nobody,
    Changing,     \* the identities whose message is edited, deleted or described anew
    Doubtful,     \* the identities whose author lookup may fail
    Absent,       \* an identity without a record
    MaxEdits,     \* edits of one message
    MaxReadings,  \* units read and things that went wrong, together
    MaxOdd,       \* failed author lookups, other descriptions, and units dated otherwise
    MaxAdoptionFaults  \* crashes, refused locks and failed writes or reads

ASSUME IngestionAssumption ==
    /\ Windows \in Seq(SUBSET Ids)
    /\ Artifacts \subseteq Ids /\ Doubtful \subseteq Ids /\ Changing \subseteq Ids \ Artifacts
    /\ ParentOf \in [Ids -> Ids \cup {Nobody}] /\ Nobody \notin Ids
    /\ {MaxEdits, MaxReadings, MaxOdd, MaxAdoptionFaults} \subseteq Nat

VARIABLES
    source,     \* what Slack holds of each message
    readings,   \* the units read so far
    odd,        \* what was odd in them
    library,    \* the library file: current, history, imports, revision
    apply,      \* the Apply in progress, or Idle
    ledgerFile, \* the ledger file
    adoptionFaults

adoptionVars == <<source, readings, odd, library, apply, ledgerFile, adoptionFaults>>

-----------------------------------------------------------------------------
(* Messages, their dispositions and the captures made of them.             *)

States == {"original", "edited", "deleted"}
Rank == [s \in States |-> CASE s = "original" -> 0 [] s = "edited" -> 1 [] s = "deleted" -> 2]

Versions == [edits : 0..MaxEdits, deleted : BOOLEAN]

\* Which messages a connector gives a RevisionTimestamp: a batch is valid with
\* none, and with one of any message that is later than the message.  Slack
\* dates edits; nothing compares the date of a message in another state.
Datings == {"none", "edits", "all"}

\* The native message a reading sees.  A connector may fail to look up authors,
\* and describes a message in one of two ways, whichever it meets.
Message(id, dating, unknown, redescribed) ==
    LET v == source[id]
        state == IF v.deleted THEN "deleted" ELSE IF v.edits > 0 THEN "edited" ELSE "original"
    IN  [state |-> state,
         edits |-> IF v.deleted THEN 0 ELSE v.edits,
         revAt |-> IF dating = "none" THEN 0
                   ELSE IF state = "edited" THEN v.edits
                   ELSE IF dating = "all" THEN v.edits + 1 ELSE 0,
         detail |-> IF id \in redescribed THEN 1 ELSE 0,
         class |-> IF id \in unknown THEN "unknown"
                   ELSE IF id \in Artifacts THEN "non_user" ELSE "user"]

ReadingOf(w, dating, unknown, redescribed) ==
    [window |-> w,
     messages |-> [id \in Windows[w] |-> Message(id, dating, unknown, redescribed)]]

DispositionFor(message) ==
    CASE message.class = "non_user" -> "exclude"
      [] message.class = "unknown"  -> "withhold"
      [] OTHER                      -> "retain"

\* NewCaptureRecord: a withheld or deleted message loses its text, so of its
\* edits the record keeps the revision date and the detail.
Capture(message, withheld) ==
    [state |-> message.state,
     edits |-> IF withheld THEN 0 ELSE message.edits,
     revAt |-> message.revAt,
     detail |-> message.detail,
     withheld |-> withheld]

Contents == [state : States, edits : 0..MaxEdits, revAt : 0..MaxEdits + 1, detail : 0..1,
             withheld : BOOLEAN]

ASSUME AbsentAssumption == Absent \notin Contents

\* What an envelope adopts of a unit: everything but the excluded.
CaptureBatchForAdoption(unit) ==
    LET kept == {id \in DOMAIN unit.messages : DispositionFor(unit.messages[id]) # "exclude"}
    IN  [window |-> unit.window,
         records |-> [id \in kept |-> Capture(unit.messages[id],
                                              DispositionFor(unit.messages[id]) = "withhold")]]

\* What import-slack makes of a native batch, which has no author classes.
CaptureBatchFromNative(unit) ==
    [window |-> unit.window,
     records |-> [id \in DOMAIN unit.messages |-> Capture(unit.messages[id], FALSE)]]

-----------------------------------------------------------------------------
(* The repository: one import of a sequence of batches under its lock.     *)

IsDeletedCapture(c) == c.state = "deleted"
\* Mutant: the two dates are compared the wrong way round.
NewerRevisionSwapped(candidate, prior) ==
    candidate.revAt > 0 /\ prior.revAt > 0 /\ candidate.revAt < prior.revAt
NewerRevision(candidate, prior) == candidate.revAt > 0 /\ prior.revAt > 0 /\ candidate.revAt > prior.revAt
\* Mutant: a date is attached to an undated edit of any content.
AnyRevisionAttachment(prior, candidate) ==
    /\ prior.revAt = 0 /\ candidate.revAt > 0
    /\ prior.state = "edited" /\ candidate.state = "edited"
LegacyRevisionAttachment(prior, candidate) ==
    /\ prior.revAt = 0 /\ candidate.revAt > 0
    /\ prior.state = "edited" /\ candidate.state = "edited"
    /\ [prior EXCEPT !.revAt = candidate.revAt] = candidate

\* The keys of the batches not imported before, and the last record of each.
EnvelopeKeys(lib, batches) ==
    UNION {DOMAIN batches[i].records : i \in {i \in DOMAIN batches : batches[i] \notin lib.imports}}
LastWith(batches, id) ==
    CHOOSE i \in DOMAIN batches :
        /\ id \in DOMAIN batches[i].records
        /\ \A j \in DOMAIN batches : id \in DOMAIN batches[j].records => j <= i
FinalContent(lib, batches) ==
    [id \in EnvelopeKeys(lib, batches) |-> batches[LastWith(batches, id)].records[id]]

ConflictingEdit(prior, final) ==
    /\ prior.state = "edited" /\ final.state = "edited"
    /\ ~LegacyRevisionAttachment(prior, final)
    /\ ~NewerRevision(final, prior)

\* Mutant: a deleted capture may come back.
ResurrectsNever(prior, final) == FALSE
Resurrects(prior, final) == IsDeletedCapture(prior) /\ ~IsDeletedCapture(final)

\* Why an import is refused: the content an envelope ends with is older than
\* the current one, or nothing tells that it is newer.
Stale(lib, batches) ==
    \E id \in EnvelopeKeys(lib, batches) :
        LET prior == lib.current[id]
            final == FinalContent(lib, batches)[id]
        IN  /\ prior # final
            /\ \/ batches[LastWith(batches, id)] \in lib.imports
               \/ /\ prior # Absent
                  /\ \/ final \in lib.history[id]
                     \/ ConflictingEdit(prior, final)
                     \/ prior.state = "edited" /\ final.state = "original"
                     \/ Resurrects(prior, final)

\* Mutant: an imported batch is never applied again, whatever came before it.
ApplyCaptureBatchOnce(st, batch, final) ==
    LET new == batch \notin st.lib.imports
        changed == {id \in DOMAIN batch.records : st.lib.current[id] # batch.records[id]}
    IN  IF ~new THEN st
        ELSE [lib |-> [current  |-> [id \in Ids |-> IF id \in changed THEN batch.records[id]
                                                    ELSE st.lib.current[id]],
                       history  |-> [id \in Ids |-> st.lib.history[id] \cup
                                        (IF id \in changed /\ st.lib.current[id] \notin {Absent, final[id]}
                                         THEN {st.lib.current[id]} ELSE {})],
                       imports  |-> st.lib.imports \cup {batch},
                       revision |-> st.lib.revision + 1],
              touched |-> st.touched \cup DOMAIN batch.records]

\* applyCaptureBatch.  A batch imported before touches only the keys an
\* earlier, new batch of the envelope has touched.  A superseded content goes
\* to the history unless the envelope ends with it.
ApplyCaptureBatch(st, batch, final) ==
    LET existing == batch \in st.lib.imports
        keys == DOMAIN batch.records
        applied == IF existing THEN keys \cap st.touched ELSE keys
        current == st.lib.current
        changed == {id \in applied : current[id] # batch.records[id]}
        superseded == {id \in changed : current[id] \notin {Absent, final[id]}}
    IN  IF existing /\ changed = {}
        THEN st
        ELSE [lib |-> [current  |-> [id \in Ids |-> IF id \in changed THEN batch.records[id]
                                                    ELSE current[id]],
                       history  |-> [id \in Ids |-> st.lib.history[id] \cup
                                        (IF id \in superseded THEN {current[id]} ELSE {})],
                       imports  |-> st.lib.imports \cup {batch},
                       revision |-> st.lib.revision + 1],
              touched |-> IF existing THEN st.touched ELSE st.touched \cup keys]

Imported(lib, batches) ==
    FoldLeft(LAMBDA st, batch : ApplyCaptureBatch(st, batch, FinalContent(lib, batches)),
             [lib |-> lib, touched |-> {}], batches).lib

CapturesCurrent(lib, batches) ==
    \A i \in DOMAIN batches : \A id \in DOMAIN batches[i].records :
        batches[i].records[id] \in {lib.current[id]} \cup lib.history[id]

-----------------------------------------------------------------------------
(* The controller: reconciliation of an envelope and its ledger.           *)

Occurs(e, id) == {i \in DOMAIN e : id \in DOMAIN e[i].messages}
Identities(e) == {id \in Ids : Occurs(e, id) # {}}

TruthfulTransition(before, after) ==
    /\ before.state # "deleted"
    /\ IF before.state = "edited" /\ after.state = "edited"
       THEN NewerRevision(after, before)
       ELSE after.state \in {"edited", "deleted"}

OverlapsAgree(e) ==
    \A id \in Ids : \A i, j \in Occurs(e, id) :
        i < j /\ (\A k \in Occurs(e, id) : k <= i \/ j <= k) =>
            LET before == e[i].messages[id]
                after == e[j].messages[id]
            IN  /\ before.class = after.class
                /\ DispositionFor(before) = DispositionFor(after)
                /\ before = after \/ TruthfulTransition(before, after)

LastMessage(e, id) ==
    LET last == CHOOSE i \in Occurs(e, id) : \A j \in Occurs(e, id) : j <= i
    IN  e[last].messages[id]

ParentsPresent(e) ==
    \A id \in Identities(e) :
        ParentOf[id] # Nobody =>
            /\ ParentOf[id] \in Identities(e)
            /\ DispositionFor(LastMessage(e, ParentOf[id])) # "exclude"

Reconciled(e) == OverlapsAgree(e) /\ ParentsPresent(e)

\* A unit of which everything is excluded is not imported.
WithCapture(batches, unit) ==
    LET batch == CaptureBatchForAdoption(unit)
    IN  IF DOMAIN batch.records = {} THEN batches ELSE Append(batches, batch)
Captures(e) == FoldLeft(WithCapture, <<>>, e)

\* validLedger of the finished ledger.  DeliveredCount and
\* CanonicalDeclaredCount add up units, StructuralExcludedCount counts
\* identities once: the equation fails when two units hold an excluded one.
Sum(e, Count(_)) == FoldLeft(LAMBDA total, unit : total + Count(unit), 0, e)
DeliveredCount(e) == Sum(e, LAMBDA unit : Cardinality(DOMAIN unit.messages))
CanonicalDeclaredCount(e) ==
    Sum(e, LAMBDA unit : Cardinality(DOMAIN CaptureBatchForAdoption(unit).records))
StructuralExcludedCount(e) ==
    Cardinality({id \in Identities(e) : DispositionFor(LastMessage(e, id)) = "exclude"})
ValidWhenComplete(e) ==
    DeliveredCount(e) = CanonicalDeclaredCount(e) + StructuralExcludedCount(e)

-----------------------------------------------------------------------------
Idle == [phase |-> "idle"]
NoAdoption == [state |-> "none", envelope |-> <<>>, before |-> 0, after |-> 0]

AdoptionInit ==
    /\ source = [id \in Ids |-> [edits |-> 0, deleted |-> FALSE]]
    /\ readings = {} /\ odd = 0 /\ adoptionFaults = 0
    /\ library = [current |-> [id \in Ids |-> Absent], history |-> [id \in Ids |-> {}],
                  imports |-> {}, revision |-> 0]
    /\ apply = Idle /\ ledgerFile = NoAdoption

\* Readings and faults share a bound.
MoreToCome == Cardinality(readings) + adoptionFaults < MaxReadings
CanFail == adoptionFaults < MaxAdoptionFaults /\ MoreToCome
AdoptionFault == CanFail /\ adoptionFaults' = adoptionFaults + 1

-----------------------------------------------------------------------------
(* Slack and its connector.                                                *)

Edit(id) ==
    /\ ~source[id].deleted /\ source[id].edits < MaxEdits
    /\ source' = [source EXCEPT ![id].edits = @ + 1]
    /\ UNCHANGED <<readings, odd, library, apply, ledgerFile, adoptionFaults>>

Delete(id) ==
    /\ ~source[id].deleted
    /\ source' = [source EXCEPT ![id].deleted = TRUE]
    /\ UNCHANGED <<readings, odd, library, apply, ledgerFile, adoptionFaults>>

Read(w) ==
    /\ MoreToCome
    /\ \E dating \in Datings, unknown \in SUBSET (Windows[w] \cap Doubtful),
          redescribed \in SUBSET (Windows[w] \cap Changing) :
        /\ odd' = odd + Cardinality({dating} \ {"edits"}) + Cardinality(unknown)
                      + Cardinality(redescribed)
        /\ odd' <= MaxOdd
        /\ readings' = readings \cup {ReadingOf(w, dating, unknown, redescribed)}
    /\ UNCHANGED <<source, library, apply, ledgerFile, adoptionFaults>>

-----------------------------------------------------------------------------
(* `personal-memory import-slack`: one native batch, one import.           *)

DirectImport(unit) ==
    LET batches == <<CaptureBatchFromNative(unit)>>
    IN  /\ ~Stale(library, batches)
        /\ library' = Imported(library, batches)
        /\ UNCHANGED <<source, readings, odd, apply, ledgerFile, adoptionFaults>>

-----------------------------------------------------------------------------
(* Apply.  Only the first two of its accesses to a file are one step: an    *)
(* import between them would move no more than the ledger's `before`.      *)

\* A save that fails has replaced the file or not.
SaveLedger(next) == ledgerFile' = next
SaveLedgerFails(next) == AdoptionFault /\ ledgerFile' \in {ledgerFile, next}

\* The advisory lock of the controller is held from here until Apply returns.
\* The ledger is saved "recovering", then the envelope is reconciled.
ApplyBegin(e) ==
    /\ apply = Idle
    /\ LET begun == [state |-> "recovering", envelope |-> e,
                     before |-> library.revision, after |-> library.revision]
       IN  \/ /\ SaveLedger(begun)
              /\ apply' = [ledger |-> begun,
                           phase |-> IF ~Reconciled(e) THEN "failing"
                                     ELSE IF Captures(e) = <<>> THEN "status" ELSE "import"]
              /\ UNCHANGED adoptionFaults
           \/ SaveLedgerFails(begun) /\ apply' = Idle
    /\ UNCHANGED <<source, readings, odd, library>>

\* Mutant: the error of the import is dropped, and nothing is read back.
ApplyImportDropsError ==
    /\ apply.phase = "import"
    /\ LET batches == Captures(apply.ledger.envelope)
       IN  \/ /\ ~Stale(library, batches)
              /\ library' = Imported(library, batches)
              /\ UNCHANGED adoptionFaults
           \/ AdoptionFault /\ UNCHANGED library
    /\ apply' = [apply EXCEPT !.phase = "status"]
    /\ UNCHANGED <<source, readings, odd, ledgerFile>>

\* A failed replacement of the library may have taken place nonetheless.
ApplyImport ==
    /\ apply.phase = "import"
    /\ LET batches == Captures(apply.ledger.envelope)
       IN  \/ /\ ~Stale(library, batches)
              /\ library' = Imported(library, batches)
              /\ apply' = [apply EXCEPT !.phase = "readback"]
              /\ UNCHANGED adoptionFaults
           \/ /\ Stale(library, batches)
              /\ apply' = [apply EXCEPT !.phase = "failing"]
              /\ UNCHANGED <<library, adoptionFaults>>
           \/ /\ AdoptionFault
              /\ \/ library' = library
                 \/ ~Stale(library, batches) /\ library' = Imported(library, batches)
              /\ apply' = [apply EXCEPT !.phase = "failing"]
    /\ UNCHANGED <<source, readings, odd, ledgerFile>>

ApplyReadback ==
    /\ apply.phase = "readback"
    /\ \/ /\ apply' = [apply EXCEPT !.phase =
                IF CapturesCurrent(library, Captures(apply.ledger.envelope))
                THEN "status" ELSE "failing"]
          /\ UNCHANGED adoptionFaults
       \/ AdoptionFault /\ apply' = [apply EXCEPT !.phase = "failing"]
    /\ UNCHANGED <<source, readings, odd, library, ledgerFile>>

ApplyStatus ==
    /\ apply.phase = "status"
    /\ \/ /\ apply' = [phase |-> "complete",
                        ledger |-> [apply.ledger EXCEPT !.state = "complete",
                                                        !.after = library.revision]]
          /\ UNCHANGED adoptionFaults
       \/ AdoptionFault /\ apply' = [apply EXCEPT !.phase = "failing"]
    /\ UNCHANGED <<source, readings, odd, library, ledgerFile>>

\* Save refuses a ledger whose equations fail, and Apply returns with the
\* "recovering" ledger of its start in place.
ApplyComplete ==
    /\ apply.phase = "complete"
    /\ \/ /\ ledgerFile' = IF ValidWhenComplete(apply.ledger.envelope) THEN apply.ledger ELSE ledgerFile
          /\ UNCHANGED adoptionFaults
       \/ /\ ValidWhenComplete(apply.ledger.envelope)
          /\ SaveLedgerFails(apply.ledger)
    /\ apply' = Idle
    /\ UNCHANGED <<source, readings, odd, library>>

\* The partial receipt counts what was reconciled, and nothing reads it back.
ApplyFail ==
    /\ apply.phase = "failing"
    /\ LET incomplete == [NoAdoption EXCEPT !.state = "incomplete"]
       IN  \/ SaveLedger(incomplete) /\ UNCHANGED adoptionFaults
           \/ SaveLedgerFails(incomplete)
    /\ apply' = Idle
    /\ UNCHANGED <<source, readings, odd, library>>

\* The process dies: its locks go with it, the files stay.
AdoptionCrash ==
    /\ apply # Idle
    /\ AdoptionFault
    /\ apply' = Idle
    /\ UNCHANGED <<source, readings, odd, library, ledgerFile>>

\* The descriptors that order the units of an envelope are the sender's, so the
\* units come in any order, and may be of one window.
Envelopes == {<<u>> : u \in readings} \cup {<<u, v>> : u, v \in readings}

ApplyStep ==
    \/ \E e \in Envelopes : ApplyBegin(e)
    \/ ApplyImport \/ ApplyReadback \/ ApplyStatus
    \/ ApplyComplete \/ ApplyFail

AdoptionNext ==
    \/ \E id \in Changing : Edit(id) \/ Delete(id)
    \/ \E w \in DOMAIN Windows : Read(w)
    \/ \E unit \in readings : DirectImport(unit)
    \/ ApplyStep
    \/ AdoptionCrash

AdoptionSpec == AdoptionInit /\ [][AdoptionNext]_adoptionVars

-----------------------------------------------------------------------------
(* Properties.                                                             *)

\* Every file and process of the model keeps its shape.
AdoptionTypeOK ==
    /\ source \in [Ids -> Versions]
    /\ library.current \in [Ids -> Contents \cup {Absent}]
    /\ library.history \in [Ids -> SUBSET Contents]
    /\ ledgerFile.state \in {"none", "recovering", "incomplete", "complete"}
    /\ apply.phase \in {"idle", "import", "readback", "status", "complete", "failing"}

NotOlder(prior, next) ==
    /\ Rank[prior.state] <= Rank[next.state]
    /\ prior.state = "edited" /\ next.state = "edited" =>
          /\ prior.revAt <= next.revAt
          /\ ~prior.withheld /\ ~next.withheld => prior.edits <= next.edits

\* Whatever is imported, in whatever order, by the controller or beside it, a
\* capture never goes back: a deleted message is not resurrected, an edited
\* one neither reverts to its original nor to an earlier edit
\* (repository.go:192-214).
CapturesNeverGoBack ==
    [][\A id \in Ids :
          library.current[id] # Absent =>
              /\ library'.current[id] # Absent
              /\ NotOlder(library.current[id], library'.current[id])]_library

\* Every content a record has had is the current one or in its history, also
\* when an envelope takes it through several contents or back to the first
\* (repository.go:336-344).
HistoryIsKept ==
    [][\A id \in Ids :
          ({library.current[id]} \cup library.history[id]) \ {Absent}
              \subseteq {library'.current[id]} \cup library'.history[id]]_library

\* A complete ledger tells the truth about a library others write to: each
\* capture its envelope ends with is in the library, and the record is at
\* least as new (controller.go:250-281).
CompleteIsHeld ==
    ledgerFile.state = "complete" =>
        LET batches == Captures(ledgerFile.envelope)
        IN  /\ ledgerFile.before <= ledgerFile.after /\ ledgerFile.after <= library.revision
            /\ CapturesCurrent(library, batches)
            /\ \A id \in UNION {DOMAIN batches[i].records : i \in DOMAIN batches} :
                  NotOlder(batches[LastWith(batches, id)].records[id], library.current[id])

\* A content that tells it is newer than the current one, or is the current one.
IsNews(prior, next) ==
    \/ prior \in {Absent, next}
    \/ Rank[prior.state] < Rank[next.state]
    \/ prior.state = "edited" /\ next.state = "edited" /\ 0 < prior.revAt /\ prior.revAt < next.revAt

\* What is refused as stale has nothing new to tell: a unit of which each
\* record is the current one, the first of its message, an edit or a deletion
\* of what was not, or an edit dated after a dated one, is imported, whatever
\* the library has been through (repository.go:189-215).
NewsIsAccepted ==
    \A u \in readings :
        LET batch == CaptureBatchForAdoption(u)
        IN  (\A id \in DOMAIN batch.records : IsNews(library.current[id], batch.records[id]))
            => ~Stale(library, <<batch>>)

\* What Slack holds now can always be imported, unless a record of its window
\* was last imported undated or withheld: not so.  An edit read again after its
\* author took another name is refused as a conflict without chronology
\* (repository.go:201-205), and any record that was described anew as a
\* historical revision once its description is back (repository.go:198-200).
PresentIsAccepted ==
    \A w \in DOMAIN Windows : \A redescribed \in SUBSET (Windows[w] \cap Changing) :
        LET batch == CaptureBatchForAdoption(ReadingOf(w, "edits", {}, redescribed))
        IN  (\A id \in DOMAIN batch.records :
                LET c == library.current[id]
                IN  c # Absent => ~c.withheld /\ (c.state = "edited" => c.revAt > 0))
            => ~Stale(library, <<batch>>)

\* controller.go:285-288: a reconciliation that fails persists a partial
\* receipt "instead of silently leaving the earlier recovering marker", so
\* without a crash or a failed write no Apply ends with that marker.
RecoveringIsInterrupted ==
    ledgerFile.state = "recovering" /\ apply = Idle => adoptionFaults > 0

\* The shape of complete Slack recall wants a repeated identity "unchanged or
\* a truthful edit/delete revision": a text is not replaced by the placeholder
\* of the same message.
TextIsNotWithdrawn ==
    [][\A id \in Ids :
          LET prior == library.current[id]
              next == library'.current[id]
          IN  prior # Absent /\ next # Absent /\ prior # next /\ next.withheld =>
                  prior.withheld \/ Rank[prior.state] < Rank[next.state]
                                 \/ NewerRevision(next, prior)]_library
=============================================================================
