---------------------------- MODULE PlanDelivery ----------------------------
(***************************************************************************)
(* Plan-only delivery: Deliver of internal/productbrain/delivery.go and    *)
(* the run store of delivery_store.go, under the lock of DeliveryLock.     *)
(*                                                                         *)
(* An invocation that holds the lock seals the journal it finds, opens a   *)
(* run, brings one operation after the other to the destination, and seals *)
(* the run; the journal is written before and after every request.  What   *)
(* happens between two writes is one step, with a death, a failed write or *)
(* a change at the destination before and after it.                        *)
(*                                                                         *)
(* Entries and relations go the same way, entries first; an operation is   *)
(* its place in that order.  The projection of the history is left out: it *)
(* is rebuilt from the sealed runs whenever it differs.  A temporary file  *)
(* is looked at only where it stops somebody: among the sealed runs, when  *)
(* the process that wrote it has died.                                     *)
(***************************************************************************)
EXTENDS DeliveryLock, FiniteSetsExt

CONSTANTS
  NumOperations,
  MaxRuns,     \* runs that are opened
  MaxFaults    \* failed writes and calls, late requests, edits by others

ASSUME PlanAssumption == {NumOperations, MaxRuns, MaxFaults} \subseteq Nat

Operations == 1..NumOperations

VARIABLES
  journal,     \* .delivery-active.json
  sealed,      \* the records of delivery-runs/
  summary,     \* delivery-summary.json
  debris,      \* a dead process's temporary file lies in delivery-runs/
  dest,        \* what the destination has for each operation
  flying,      \* operations of which an unanswered request may yet arrive
  made,        \* objects the destination made, ever
  at, mem,     \* where each holder is in Deliver, and its run
  faults

planVars == <<lock, pc, seen, journal, sealed, summary, debris, dest, flying, made,
              at, mem, faults>>
files == <<journal, sealed, summary, debris>>
world == <<dest, flying, made>>

NoRun == [n |-> 0]
NoSummary == [writes |-> 0, replay |-> FALSE]
Pending == [state |-> "pending", response |-> FALSE, observed |-> FALSE,
            why |-> "none"]
NewRun(p, n) ==
  [n |-> n, by |-> p, outcome |-> "running", created |-> 0,
   ops |-> [o \in Operations |-> Pending]]
Interrupted(run) == [run EXCEPT !.outcome = "interrupted"]

Open(run) == {o \in Operations : run.ops[o].state # "acknowledged"}
Current(run) == Min(Open(run))

PlanInit ==
  /\ Init
  /\ journal = NoRun /\ sealed = {} /\ summary = NoSummary /\ debris = FALSE
  /\ dest = [o \in Operations |-> "absent"] /\ flying = {} /\ made = 0
  /\ at = [p \in Processes |-> "start"] /\ mem = [p \in Processes |-> NoRun]
  /\ faults = 0

-----------------------------------------------------------------------------
(* What the run store accepts.                                             *)

\* The records are numbered without a gap, one of each number, and nothing else
\* lies beside them.
Consecutive == {run.n : run \in sealed} = 1..Cardinality(sealed)
Readable == ~debris /\ Consecutive

Mutated(op) == op.response \/ op.observed
ValidOperation(op) ==
  CASE op.state \in {"pending", "sending"} -> ~Mutated(op) /\ op.why = "none"
    [] op.state = "reconciling" -> ~op.observed /\ op.why = "none"
    [] op.state = "blocked" ->
         /\ op.why # "none"
         /\ op.observed <=> op.why = "mismatch"
         /\ op.response => op.why \in {"mismatch", "ambiguous"}
    [] op.state = "acknowledged" -> op.why = "none"
ValidRun(run) ==
  /\ \A o \in Operations : ValidOperation(run.ops[o])
  /\ run.created = Cardinality({o \in Operations : Mutated(run.ops[o])})

SealedAs(n) == CHOOSE run \in sealed : run.n = n
\* The journal that is found: nothing, a run that is sealed as it stands, or one
\* that can be sealed as interrupted.
AlreadySealed == journal # NoRun /\ journal.n <= Cardinality(sealed)
                 /\ journal = SealedAs(journal.n)
ToInterrupt == journal # NoRun /\ journal.n = Cardinality(sealed) + 1
               /\ ValidRun(journal)
Acceptable == journal = NoRun \/ AlreadySealed \/ ToInterrupt
Resumable == Readable /\ Acceptable

-----------------------------------------------------------------------------
(* Steps of the process that holds the lock.                               *)

Fault == faults < MaxFaults /\ faults' = faults + 1
NoFault == UNCHANGED faults
In(p, place) == pc[p] = "hold" /\ at[p] = place
Continue(p, place, run) ==
  /\ at' = [at EXCEPT ![p] = place]
  /\ mem' = [mem EXCEPT ![p] = run]
  /\ UNCHANGED <<lock, pc, seen>>
\* Deliver returns: the lock goes, and with it what the process knew.
Return(p) ==
  /\ Release(p)
  /\ at' = [at EXCEPT ![p] = "start"]
  /\ mem' = [mem EXCEPT ![p] = NoRun]

\* The directory, the binding or the snapshot of the preflight cannot be used,
\* or a document cannot be written: nothing else happens in this invocation.
GivesUp(p) ==
  /\ pc[p] = "hold" /\ at[p] # "check" /\ Fault
  /\ Return(p)
  /\ UNCHANGED <<files, world>>

Refuse(p) ==
  /\ In(p, "start") /\ ~Resumable
  /\ Return(p)
  /\ UNCHANGED <<files, world, faults>>

Resume(p) ==
  /\ In(p, "start") /\ Resumable
  /\ sealed' = IF ToInterrupt THEN sealed \cup {Interrupted(journal)} ELSE sealed
  /\ Continue(p, IF journal = NoRun THEN "open" ELSE "drop", NoRun)
  /\ UNCHANGED <<journal, summary, debris, world, faults>>

Drop(p) ==
  /\ In(p, "drop")
  /\ journal' = NoRun
  /\ Continue(p, "open", NoRun)
  /\ UNCHANGED <<sealed, summary, debris, world, faults>>

OpenRun(p) ==
  /\ In(p, "open") /\ Cardinality(sealed) < MaxRuns
  /\ LET run == NewRun(p, Cardinality(sealed) + 1)
     IN journal' = run /\ Continue(p, "check", run)
  /\ UNCHANGED <<sealed, summary, debris, world, faults>>

\* The workspace, the secrets and the collections are checked again.
Check(p) ==
  /\ In(p, "check")
  /\ \/ NoFault /\ journal' = mem[p]
        /\ Continue(p, IF Operations = {} THEN "close" ELSE "look",
             IF Operations = {} THEN [mem[p] EXCEPT !.outcome = "completed"]
                                ELSE mem[p])
     \/ Fault /\ UNCHANGED journal
        /\ Continue(p, "close", [mem[p] EXCEPT !.outcome = "failed"])
  /\ UNCHANGED <<sealed, summary, debris, world>>

With(run, state) == [run EXCEPT !.ops[Current(run)].state = state]
\* The run fails and the operation in the middle of it is blocked.
Blocked(run, why) ==
  [run EXCEPT !.outcome = "failed", !.ops[Current(run)].state = "blocked",
              !.ops[Current(run)].why = why]

\* What the destination has is looked up before anything is sent.
Look(p) ==
  LET run == With(mem[p], "reconciling")
      found == dest[Current(run)]
  IN /\ In(p, "look")
     /\ journal' = run
     /\ \/ NoFault /\ found = "same"
           /\ Continue(p, "keep", With(run, "acknowledged"))
        \/ NoFault /\ found = "absent" /\ Continue(p, "send", run)
        \/ NoFault /\ found = "other" /\ Continue(p, "close", Blocked(run, "mismatch"))
        \/ Fault /\ Continue(p, "close", Blocked(run, "remote"))
     /\ UNCHANGED <<sealed, summary, debris, world>>

\* The destination makes an object, as it was told or not.
Makes(o, as) ==
  /\ dest[o] = "absent"
  /\ dest' = [dest EXCEPT ![o] = as]
  /\ made' = made + 1

Send(p) ==
  LET run == With(mem[p], "sending")
      o == Current(run)
  IN /\ In(p, "send")
     /\ journal' = run
     /\ \/ NoFault /\ Makes(o, "same") /\ UNCHANGED flying
           /\ Continue(p, "note", [run EXCEPT !.ops[o].response = TRUE])
        \/ Fault /\ Makes(o, "other") /\ UNCHANGED flying
           /\ Continue(p, "note", [run EXCEPT !.ops[o].response = TRUE])
        \* No answer, or a refusal: the object may have been made or be made yet.
        \/ /\ Continue(p, "note", run)
           /\ \/ NoFault /\ dest[o] # "absent" /\ UNCHANGED world
              \/ Fault /\ Makes(o, "same") /\ UNCHANGED flying
              \/ Fault /\ flying' \in {flying, flying \cup {o}}
                 /\ UNCHANGED <<dest, made>>
     /\ UNCHANGED <<sealed, summary, debris>>

\* Mutant: what came back is not counted.
Uncounted(run) == run
Counted(run) == [run EXCEPT !.created = @ + 1]
Observed(run) == [run EXCEPT !.ops[Current(run)].observed = TRUE]

\* The answer is recorded, and what the destination has now is read.
Note(p) ==
  LET run == With(mem[p], "reconciling")
      o == Current(run)
      answered == run.ops[o].response
  IN /\ In(p, "note")
     /\ journal' = run
     /\ \/ /\ NoFault /\ dest[o] = "same"
           /\ Continue(p, "keep", With(Counted(Observed(run)), "acknowledged"))
        \/ /\ NoFault /\ dest[o] = "other"
           /\ Continue(p, "close", Blocked(Counted(Observed(run)), "mismatch"))
        \/ /\ NoFault /\ dest[o] = "absent"
           /\ Continue(p, "close", Blocked(run, "remote"))
        \/ /\ Fault
           /\ Continue(p, "close",
                Blocked(IF answered THEN Counted(run) ELSE run, "ambiguous"))
     /\ UNCHANGED <<sealed, summary, debris, world>>

Keep(p) ==
  /\ In(p, "keep")
  /\ journal' = mem[p]
  /\ IF Open(mem[p]) = {}
     THEN Continue(p, "close", [mem[p] EXCEPT !.outcome = "completed"])
     ELSE Continue(p, "look", mem[p])
  /\ UNCHANGED <<sealed, summary, debris, world, faults>>

Close(p) ==
  /\ In(p, "close")
  /\ journal' = mem[p]
  /\ Continue(p, "seal", mem[p])
  /\ UNCHANGED <<sealed, summary, debris, world, faults>>

Seal(p) ==
  /\ In(p, "seal") /\ ValidRun(mem[p])
  /\ sealed' = sealed \cup {mem[p]}
  /\ Continue(p, "remove", mem[p])
  /\ UNCHANGED <<journal, summary, debris, world, faults>>

SealRefused(p) ==
  /\ In(p, "seal") /\ ~ValidRun(mem[p])
  /\ Return(p)
  /\ UNCHANGED <<files, world, faults>>

RemoveJournal(p) ==
  /\ In(p, "remove")
  /\ journal' = NoRun
  /\ Continue(p, "project", mem[p])
  /\ UNCHANGED <<sealed, summary, debris, world, faults>>

Last(run) == run.n = Cardinality(sealed)
\* Mutant: a run that was cut short is a replay too.
ReplaysCutShort ==
  /\ Cardinality(sealed) >= 2
  /\ \A run \in sealed : Last(run) => run.created = 0
\* Nothing was made by the last of several runs, and it saw everything.
Replays ==
  /\ Cardinality(sealed) >= 2
  /\ \A run \in sealed : Last(run) =>
       run.outcome = "completed" /\ run.created = 0 /\ Open(run) = {}
CreatedBy(run) == run.created
Project(p) ==
  /\ In(p, "project")
  /\ summary' = [writes |-> MapThenSumSet(CreatedBy, sealed), replay |-> Replays]
  /\ Return(p)
  /\ UNCHANGED <<journal, sealed, debris, world, faults>>

-----------------------------------------------------------------------------
(* The lock, deaths and the destination.                                   *)

Locks(p) ==
  /\ \/ Begin(p) \/ Create(p) \/ Write(p) \/ WriteFails(p)
     \/ Read(p) \/ Probe(p) \/ Remove(p)
  /\ UNCHANGED <<files, world, at, mem, faults>>

\* The record that a process is writing among the sealed runs, at the start of its
\* invocation or at the end.
Sealing(p) ==
  {run \in {mem[p], Interrupted(journal)} :
     \/ run = mem[p] /\ In(p, "seal") /\ ValidRun(run)
     \/ run = Interrupted(journal) /\ In(p, "start") /\ Readable /\ ToInterrupt}

\* The request of a process that dies may have been sent, and a record that it was
\* sealing may have been linked or not, with the temporary file still there.
Dies(p) ==
  /\ Die(p)
  /\ \/ UNCHANGED <<journal, flying, sealed, debris>>
     \/ /\ In(p, "send")
        /\ journal' = With(mem[p], "sending")
        /\ flying' \in {flying, flying \cup {Current(mem[p])}}
        /\ UNCHANGED <<sealed, debris>>
     \/ /\ \E run \in Sealing(p) : sealed' \in {sealed, sealed \cup {run}}
        /\ debris' = TRUE
        /\ UNCHANGED <<journal, flying>>
  /\ at' = [at EXCEPT ![p] = "start"] /\ mem' = [mem EXCEPT ![p] = NoRun]
  /\ UNCHANGED <<summary, dest, made, faults>>

Arrive(o) ==
  /\ o \in flying /\ flying' = flying \ {o}
  /\ \/ Makes(o, "same")
     \/ dest[o] # "absent" /\ UNCHANGED <<dest, made>>
  /\ UNCHANGED <<lock, pc, seen, files, at, mem, faults>>

\* Somebody accepts or edits a draft.
Edit(o) ==
  /\ dest[o] = "same" /\ Fault
  /\ dest' = [dest EXCEPT ![o] = "other"]
  /\ UNCHANGED <<lock, pc, seen, files, flying, made, at, mem>>

Delivers(p) ==
  \/ GivesUp(p) \/ Refuse(p) \/ Resume(p) \/ Drop(p) \/ OpenRun(p) \/ Check(p)
  \/ Look(p) \/ Send(p) \/ Note(p) \/ Keep(p)
  \/ Close(p) \/ Seal(p) \/ SealRefused(p) \/ RemoveJournal(p) \/ Project(p)

PlanNext ==
  \/ \E p \in Processes : Locks(p) \/ Delivers(p) \/ Dies(p)
  \/ \E o \in Operations : Arrive(o) \/ Edit(o)

PlanSpec == PlanInit /\ [][PlanNext]_planVars

-----------------------------------------------------------------------------
(* Properties.                                                             *)

OperationRecords ==
  [state : {"pending", "sending", "reconciling", "blocked", "acknowledged"},
   response : BOOLEAN, observed : BOOLEAN,
   why : {"none", "mismatch", "ambiguous", "remote"}]
Runs ==
  [n : 1..MaxRuns, by : Processes, created : 0..NumOperations,
   outcome : {"running", "completed", "failed", "interrupted"},
   ops : [Operations -> OperationRecords]]

\* The documents and the destination are of the forms the code gives them.
TypeOK ==
  /\ journal \in {NoRun} \cup Runs /\ sealed \subseteq Runs
  /\ summary \in [writes : Nat, replay : BOOLEAN] /\ debris \in BOOLEAN
  /\ dest \in [Operations -> {"absent", "same", "other"}]
  /\ flying \subseteq Operations /\ made \in 0..NumOperations
  /\ mem \in [Processes -> {NoRun} \cup Runs]
  /\ faults \in 0..MaxFaults

\* The journals that no later invocation gets past: an answer was recorded and
\* the process ended before it was counted; an object that differed was found
\* before anything was sent; an interrupted run was sealed and its journal is
\* still there.
AnswerUncounted ==
  \E o \in Operations : LET op == journal.ops[o] IN
    op.state = "reconciling" /\ op.response /\ ValidRun(Counted(journal))
FoundDifferent ==
  \E o \in Operations : LET op == journal.ops[o] IN
    op.state = "blocked" /\ op.why = "mismatch" /\ ~Mutated(op)
SealedInterrupted == Interrupted(journal) \in sealed

RefusedForGood ==
  journal # NoRun /\ (AnswerUncounted \/ FoundDifferent \/ SealedInterrupted)

\* As long as the lock excludes: whatever died or failed at whichever step, the
\* next invocation can take up the directory, but for three kinds of journal and
\* for what a process left that died while it wrote among the sealed runs.  Even
\* then no record is missing or doubled, and what the journal holds is taken up
\* or one of the three once that file is gone.
ResumableButForFour ==
  /\ Resumable \/ RefusedForGood \/ (debris /\ Dead # {})
  /\ Consecutive /\ (Acceptable \/ RefusedForGood)

\* The summary never counts more writes than objects were made, and it calls
\* the last run a replay only when every operation has its object.
SummaryIsTrue ==
  /\ summary.writes <= made
  /\ summary.replay => \A o \in Operations : dest[o] # "absent"

\* "If a crash occurs between any steps, the next lock holder ... seals that
\* journal as interrupted, rebuilds projections, and starts recovery in a new
\* invocation" (2026-07-14-wp-45-context-lens-slack-routing.md:428).
AlwaysResumable == Resumable
=============================================================================
