------------------------- MODULE PlanDeliveryProofs -------------------------
(***************************************************************************)
(* The lock of a delivery directory excludes, for any number of processes, *)
(* as long as none of them has died.  What makes it inductive is that then *)
(* no process comes to remove a file that is not its own, and that a file  *)
(* is its maker's from the moment it is created, before it is written.     *)
(*                                                                         *)
(* Plan-only delivery keeps to the protocol of the lock: whatever an       *)
(* invocation does, the lock file and the processes move as DeliveryLock   *)
(* says or not at all, so what is proved of the lock holds of deliveries.  *)
(*                                                                         *)
(* While the lock excludes, the journal is that of the next run or of the  *)
(* last one wherever its holder stops, and wrong in three ways at most; the*)
(* fourth way to be refused for ever is the file of a seal cut short.      *)
(*                                                                         *)
(* And each object that was made is counted once at most: by a sealed run, *)
(* by the run of the journal or by the run at hand; so the summary, which  *)
(* adds the sealed runs up, counts no more than were made.                 *)
(***************************************************************************)
EXTENDS PlanDelivery, FiniteSetTheorems, WellFoundedInduction, TLAPS

Places == {"out", "create", "write", "hold", "read", "probe", "remove", "dead"}

Typed ==
  /\ pc \in [Processes -> Places]
  /\ seen \in [Processes -> Processes]
  /\ lock \in {NoLock} \cup [by : Processes, written : BOOLEAN]

\* Nobody removes, and a process that writes or holds has its file at the path.
OwnFile ==
  \A p \in Processes :
    /\ pc[p] # "remove"
    /\ pc[p] = "write" => lock = LockOf(p, FALSE)
    /\ pc[p] = "hold" => lock = LockOf(p, TRUE)

LockInv == Typed /\ (Dead = {} => OwnFile)

-----------------------------------------------------------------------------

\* A file has one maker.
LEMMA OneMaker ==
  ASSUME NEW p \in Processes, NEW q \in Processes,
         NEW v \in BOOLEAN, NEW w \in BOOLEAN, LockOf(p, v) = LockOf(q, w)
  PROVE p = q
BY DEF LockOf

\* The path of a maker is not free.
LEMMA MadeIsThere ==
  ASSUME NEW p \in Processes, NEW v \in BOOLEAN
  PROVE LockOf(p, v) # NoLock
BY DeathsAssumption DEF LockOf, NoLock

-----------------------------------------------------------------------------

\* It holds before any process has begun.
LEMMA InitLocks == Init => LockInv
BY DEF Init, LockInv, Typed, OwnFile, Places

\* A step of any process keeps its place, what it read and the file in their types.
LEMMA StepTyped ==
  ASSUME Typed, NEW p \in Processes,
         \/ Begin(p) \/ Create(p) \/ Write(p) \/ WriteFails(p)
         \/ Read(p) \/ Probe(p) \/ Remove(p) \/ Release(p) \/ Die(p)
  PROVE Typed'
<1>1. CASE Begin(p) \/ Probe(p) \/ Die(p)
  BY <1>1 DEF Typed, Places, Goto, Begin, Probe, Die
<1>2. CASE Create(p)
  <2>1. LockOf(p, FALSE) \in [by : Processes, written : BOOLEAN]
    BY DEF LockOf
  <2>2. lock' \in {NoLock} \cup [by : Processes, written : BOOLEAN]
    BY <1>2, <2>1 DEF Typed, Create
  <2>3. \E place \in Places : Goto(p, place)
    BY <1>2 DEF Places, Create
  <2> QED BY <1>2, <2>2, <2>3 DEF Typed, Goto, Create
<1>3. CASE Write(p)
  BY <1>3 DEF Typed, Places, Goto, Write, LockOf
<1>4. CASE WriteFails(p) \/ Remove(p) \/ Release(p)
  BY <1>4 DEF Typed, Places, Goto, WriteFails, Remove, Release
<1>5. CASE Read(p)
  BY <1>5, DeathsAssumption DEF Typed, Places, Goto, Read, NoLock
<1> QED BY <1>1, <1>2, <1>3, <1>4, <1>5

\* Who is dead stays dead, so if nobody is, nobody was.
LEMMA DeadStayDead ==
  ASSUME Typed, NEW p \in Processes,
         \/ Begin(p) \/ Create(p) \/ Write(p) \/ WriteFails(p)
         \/ Read(p) \/ Probe(p) \/ Remove(p) \/ Release(p) \/ Die(p),
         Dead' = {}
  PROVE Dead = {} /\ ~Die(p)
<1>1. PICK place : Goto(p, place)
  BY DEF Begin, Create, Write, WriteFails, Read, Probe, Remove, Release, Die
<1>2. pc[p] # "dead"
  BY DEF Begin, Create, Write, WriteFails, Read, Probe, Remove, Release, Die
<1>3. \A q \in Processes \ {p} : pc'[q] = pc[q]
  BY <1>1 DEF Typed, Goto
<1>4. Dead = {}
  BY <1>2, <1>3 DEF Dead
<1>5. Die(p) => pc'[p] = "dead"
  BY DEF Typed, Goto, Die
<1> QED BY <1>4, <1>5 DEF Dead

\* Every step preserves it.
LEMMA StepLocks ==
  ASSUME LockInv, [Next]_vars
  PROVE LockInv'
<1>1. CASE UNCHANGED vars
  BY <1>1 DEF LockInv, Typed, OwnFile, Dead, vars
<1>2. CASE Next
  <2>1. PICK p \in Processes :
          \/ Begin(p) \/ Create(p) \/ Write(p) \/ WriteFails(p)
          \/ Read(p) \/ Probe(p) \/ Remove(p) \/ Release(p) \/ Die(p)
    BY <1>2 DEF Next
  <2>2. Typed /\ Typed'
    BY <2>1, StepTyped DEF LockInv
  <2>3. ASSUME Dead' = {} PROVE OwnFile'
    <3>1. OwnFile /\ Dead = {} /\ ~Die(p)
      BY <2>1, <2>2, <2>3, DeadStayDead DEF LockInv
    <3>2. CASE Begin(p)
      BY <2>2, <3>1, <3>2 DEF Typed, OwnFile, Goto, Begin
    <3>3. CASE Create(p)
      BY <2>2, <3>1, <3>3, MadeIsThere DEF Typed, OwnFile, Goto, Create
    <3>4. CASE Write(p)
      <4>1. lock = LockOf(p, FALSE) /\ lock' = LockOf(p, TRUE)
        BY <3>1, <3>4 DEF OwnFile, Write, LockOf
      <4>2. \A q \in Processes \ {p} : pc[q] \notin {"write", "hold"}
        BY <3>1, <4>1, OneMaker DEF OwnFile
      <4> QED BY <2>2, <3>1, <3>4, <4>1, <4>2 DEF Typed, OwnFile, Goto, Write
    <3>5. CASE WriteFails(p)
      <4>1. pc[p] = "write" /\ pc' = [pc EXCEPT ![p] = "out"]
        BY <3>5 DEF WriteFails, Goto
      <4>2. \A q \in Processes \ {p} : pc[q] \notin {"write", "hold"}
        BY <3>1, <4>1, OneMaker DEF OwnFile
      <4> QED BY <2>2, <3>1, <4>1, <4>2 DEF Typed, OwnFile
    <3>6. CASE Read(p)
      BY <2>2, <3>1, <3>6 DEF Typed, OwnFile, Goto, Read
    <3>7. CASE Probe(p)
      BY <2>2, <3>1, <3>7 DEF Typed, OwnFile, Goto, Probe
    <3>8. CASE Remove(p)
      BY <3>1, <3>8 DEF OwnFile, Remove
    <3>9. CASE Release(p)
      <4>1. pc[p] = "hold" /\ pc' = [pc EXCEPT ![p] = "out"]
        BY <3>9 DEF Release, Goto
      <4>2. \A q \in Processes \ {p} : pc[q] \notin {"write", "hold"}
        BY <3>1, <4>1, OneMaker DEF OwnFile
      <4> QED BY <2>2, <3>1, <4>1, <4>2 DEF Typed, OwnFile
    <3> QED BY <2>1, <3>1, <3>2, <3>3, <3>4, <3>5, <3>6, <3>7, <3>8, <3>9
  <2> QED BY <2>2, <2>3 DEF LockInv
<1> QED BY <1>1, <1>2

\* As long as nobody has died one process at a time holds the lock of a delivery
\* directory, and the file at the path is its own (acquireDeliveryLock), however
\* many processes there are and whichever writes fail.
THEOREM LockExcludes == Spec => []ExclusiveAmongTheLiving
<1>1. LockInv => ExclusiveAmongTheLiving
  <2> SUFFICES ASSUME OwnFile
               PROVE /\ MutualExclusion
                     /\ \A p \in Holders : lock = LockOf(p, TRUE)
    BY DEF LockInv, ExclusiveAmongTheLiving
  <2>1. \A p \in Holders : lock = LockOf(p, TRUE)
    BY DEF OwnFile, Holders
  <2>2. MutualExclusion
    BY <2>1, OneMaker DEF MutualExclusion, Holders
  <2> QED BY <2>1, <2>2
<1> QED BY <1>1, InitLocks, StepLocks, PTL DEF Spec

-----------------------------------------------------------------------------

\* A step of Deliver either gives the lock back or leaves it alone.
LEMMA DeliversKeepTheLock ==
  ASSUME NEW p \in Processes, Delivers(p)
  PROVE Release(p) \/ UNCHANGED vars
<1>1. ASSUME NEW q \in Processes, NEW place, NEW run, Continue(q, place, run)
      PROVE UNCHANGED vars
  BY <1>1 DEF Continue, vars
<1>2. CASE GivesUp(p) \/ Refuse(p) \/ SealRefused(p) \/ Project(p)
  BY <1>2 DEF GivesUp, Refuse, SealRefused, Project, Return
<1>3. CASE Resume(p) \/ Drop(p)
  BY <1>1, <1>3, Zenon DEF Resume, Drop
<1>4. CASE OpenRun(p)
  BY <1>1, <1>4, Zenon DEF OpenRun
<1>5. CASE Check(p)
  BY <1>1, <1>5, Zenon DEF Check
<1>6. CASE Look(p)
  BY <1>1, <1>6, Zenon DEF Look
<1>7. CASE Send(p)
  BY <1>1, <1>7, Zenon DEF Send
<1>8. CASE Note(p)
  BY <1>1, <1>8, Zenon DEF Note
<1>9. CASE Keep(p)
  BY <1>1, <1>9, Zenon DEF Keep
<1>10. CASE Close(p) \/ Seal(p) \/ RemoveJournal(p)
  BY <1>1, <1>10, Zenon DEF Close, Seal, RemoveJournal
<1> QED
  BY <1>2, <1>3, <1>4, <1>5, <1>6, <1>7, <1>8, <1>9, <1>10 DEF Delivers

\* Every step of a delivery is a step of the lock or leaves it alone.
LEMMA StepsOfTheLock ==
  ASSUME [PlanNext]_planVars
  PROVE [Next]_vars
<1>1. CASE UNCHANGED planVars
  BY <1>1 DEF planVars, vars
<1>2. ASSUME NEW p \in Processes, Locks(p) \/ Dies(p)
      PROVE Next
  BY <1>2 DEF Locks, Dies, Next
<1>3. ASSUME NEW p \in Processes, Delivers(p)
      PROVE [Next]_vars
  BY <1>3, DeliversKeepTheLock DEF Next
<1>4. ASSUME NEW o \in Operations, Arrive(o) \/ Edit(o)
      PROVE UNCHANGED vars
  BY <1>4 DEF Arrive, Edit, vars
<1> QED
  BY <1>1, <1>2, <1>3, <1>4 DEF PlanNext

\* Deliveries implement the lock.
THEOREM DeliveriesKeepTheLock == PlanSpec => Spec
<1>1. PlanInit => Init
  BY DEF PlanInit
<1> QED
  BY <1>1, StepsOfTheLock, PTL DEF PlanSpec, Spec

\* For any number of processes, operations, runs and faults: as long as no
\* process has died, one invocation at a time is past the lock, and the lock
\* file is its own.
THEOREM DeliveriesExclude == PlanSpec => []ExclusiveAmongTheLiving
BY DeliveriesKeepTheLock, LockExcludes, PTL

-----------------------------------------------------------------------------
(* The journal that a holder leaves, wherever it stops.                    *)

Records ==
  [n : Nat, by : Processes, created : Nat,
   outcome : {"running", "completed", "failed", "interrupted"},
   ops : [Operations -> OperationRecords]]
Rooms == {"start", "drop", "open", "check", "look", "send", "note", "keep",
          "close", "seal", "remove", "project"}
AtWork == {"check", "look", "send", "note", "keep", "close", "seal"}

PlanTyped ==
  /\ journal \in {NoRun} \cup Records /\ sealed \subseteq Records
  /\ dest \in [Operations -> {"absent", "same", "other"}]
  /\ pc \in [Processes -> Places]
  /\ at \in [Processes -> Rooms]
  /\ mem \in [Processes -> {NoRun} \cup Records]

\* The sealed runs are numbered, one of each number.
Numbered ==
  /\ IsFiniteSet(sealed) /\ Consecutive
  /\ \A r, s \in sealed : r.n = s.n => r = s
NextNumber == Cardinality(sealed) + 1

Answerless(run) ==
  \E o \in Operations :
    /\ run.ops[o].state = "reconciling" /\ run.ops[o].response
    /\ ValidRun(Counted(run))
Different(run) ==
  \E o \in Operations :
    /\ run.ops[o].state = "blocked" /\ run.ops[o].why = "mismatch"
    /\ ~Mutated(run.ops[o])
\* What is found: no journal, that of the next run, or that of the last one.
Left ==
  \/ journal = NoRun
  \/ /\ journal.n = NextNumber
     /\ (ValidRun(journal) \/ Answerless(journal) \/ Different(journal))
  \/ /\ journal.n = Cardinality(sealed)
     /\ (journal \in sealed \/ Interrupted(journal) \in sealed)

\* The operations before and after the current one.
Settled(op) == op = Pending \/ (op.state = "acknowledged" /\ op.why = "none")
Written(run, S) == {o \in S : Mutated(run.ops[o])}
Clean(run) ==
  /\ \A o \in Operations : Settled(run.ops[o])
  /\ run.created = Cardinality(Written(run, Operations))
Around(run) ==
  /\ Open(run) # {}
  /\ \A o \in Operations \ {Current(run)} : Settled(run.ops[o])
  /\ run.created = Cardinality(Written(run, Operations \ {Current(run)}))

Asked == [Pending EXCEPT !.state = "reconciling"]
Told(answered) == [Pending EXCEPT !.state = "sending", !.response = answered]

\* What a holder knows where it stands.
Stands(place, run) ==
  place \in AtWork =>
    /\ run \in Records /\ run.n = NextNumber /\ journal.n = NextNumber
    /\ place \in {"check", "look", "keep"} => Clean(run)
    /\ place = "check" => \A o \in Operations : run.ops[o] = Pending
    /\ place = "look" => Open(run) # {}
    /\ place = "send" => Around(run) /\ run.ops[Current(run)] = Asked
    /\ place = "note" =>
         /\ Around(run)
         /\ \E answered \in BOOLEAN :
              /\ run.ops[Current(run)] = Told(answered)
              /\ answered => dest[Current(run)] # "absent"
    /\ place \in {"close", "seal"} => ValidRun(run) \/ Different(run)
    /\ place = "seal" => journal = run

PlanInv ==
  /\ PlanTyped /\ Numbered /\ Left
  /\ \A p \in Processes :
       IF pc[p] = "hold" THEN Stands(at[p], mem[p]) ELSE at[p] = "start"

-----------------------------------------------------------------------------
(* Numbers of operations and of runs.                                      *)

\* The bounds are numbers.
LEMMA PlanBounds ==
  NumOperations \in Nat /\ MaxRuns \in Nat /\ MaxFaults \in Nat
BY PlanAssumption

\* A set of operations has a least one: the operations below each of its members
\* are finitely many, and the smallest of those sets is empty.
LEMMA LeastOperation ==
  ASSUME NEW S \in SUBSET Operations, S # {}
  PROVE  Min(S) \in S
<1> DEFINE Below(x) == {y \in S : y < x}
           All == {Below(x) : x \in S}
<1>1. IsFiniteSet(Operations) /\ Operations \subseteq Nat
  BY PlanBounds, FS_Interval DEF Operations
<1>2. \A x \in S : Below(x) \in FiniteSubsetsOf(S)
  BY <1>1, FS_Subset DEF FiniteSubsetsOf
<1>3. All \subseteq FiniteSubsetsOf(S) /\ All # {}
  BY <1>2
<1>4. PICK B \in All : \A C \in All : <<C, B>> \notin StrictSubsetOrdering(S)
  BY <1>3, FS_StrictSubsetOrderingWellFounded, WFMin
<1>5. PICK x \in S : B = Below(x)
  BY <1>4
<1>6. ASSUME NEW y \in S, y < x PROVE FALSE
  <2>1. x \in Nat /\ y \in Nat /\ S \subseteq Nat
    BY <1>1, <1>6
  <2>2. \A z \in S : z < y => z < x
    BY <1>6, <2>1
  <2>3. Below(y) \subseteq Below(x)
    BY <2>2
  <2>4. y \in Below(x) /\ y \notin Below(y)
    BY <1>6, <2>1
  <2>5. <<Below(y), Below(x)>> \in StrictSubsetOrdering(S)
    BY <2>3, <2>4 DEF StrictSubsetOrdering
  <2> QED BY <1>4, <1>5, <2>5
<1>7. \A y \in S : x <= y
  <2>1. x \in Nat /\ \A y \in S : y \in Nat /\ ~(y < x)
    BY <1>1, <1>6
  <2> QED BY <2>1
<1> QED BY <1>7 DEF Min

\* The operation a run is at is one of those still to be delivered.
LEMMA CurrentIsOpen ==
  ASSUME NEW run, Open(run) # {}
  PROVE  Current(run) \in Open(run) /\ Current(run) \in Operations
BY LeastOperation DEF Current, Open

\* The operations of a run can be counted.
LEMMA FiniteOperations ==
  ASSUME NEW S \in SUBSET Operations
  PROVE  IsFiniteSet(S) /\ Cardinality(S) \in Nat
<1>1. IsFiniteSet(Operations)
  BY PlanBounds, FS_Interval DEF Operations
<1> QED BY <1>1, FS_Subset, FS_CardinalityType

\* An operation is written or not.
LEMMA WrittenCount ==
  ASSUME NEW run, NEW c \in Operations
  PROVE  Cardinality(Written(run, Operations)) =
           Cardinality(Written(run, Operations \ {c}))
             + (IF Mutated(run.ops[c]) THEN 1 ELSE 0)
<1> DEFINE W == Written(run, Operations \ {c})
<1>1. IsFiniteSet(W) /\ Cardinality(W) \in Nat /\ c \notin W
  BY FiniteOperations DEF Written
<1>2. CASE Mutated(run.ops[c])
  <2>1. Written(run, Operations) = W \cup {c}
    BY <1>2 DEF Written
  <2> QED BY <1>1, <1>2, <2>1, FS_AddElement
<1>3. CASE ~Mutated(run.ops[c])
  <2>1. Written(run, Operations) = W
    BY <1>3 DEF Written
  <2> QED BY <1>1, <1>3, <2>1
<1> QED BY <1>2, <1>3

-----------------------------------------------------------------------------
(* One operation of a run changes.                                         *)

\* An operation that is settled passes validation.
LEMMA SettledIsValid ==
  ASSUME NEW op, Settled(op)
  PROVE  ValidOperation(op)
<1>1. CASE op = Pending
  BY <1>1 DEF ValidOperation, Pending, Mutated
<1>2. CASE op.state = "acknowledged" /\ op.why = "none"
  BY <1>2 DEF ValidOperation
<1> QED BY <1>1, <1>2 DEF Settled

\* So does a run of such operations.
LEMMA CleanIsValid ==
  ASSUME NEW run, Clean(run)
  PROVE  ValidRun(run)
BY SettledIsValid DEF Clean, ValidRun, Written

\* All but one operation are settled, and the one is valid.
LEMMA AroundIsValid ==
  ASSUME NEW run, NEW c \in Operations,
         \A o \in Operations \ {c} : Settled(run.ops[o]),
         ValidOperation(run.ops[c]),
         run.created = Cardinality(Written(run, Operations \ {c}))
           + (IF Mutated(run.ops[c]) THEN 1 ELSE 0)
  PROVE  ValidRun(run)
<1>1. \A o \in Operations : ValidOperation(run.ops[o])
  BY SettledIsValid
<1>2. run.created = Cardinality(Written(run, Operations))
  BY WrittenCount
<1> QED BY <1>1, <1>2 DEF ValidRun, Written

\* A run is clean when its current operation is and the others are settled.
LEMMA AroundIsClean ==
  ASSUME NEW run, NEW c \in Operations,
         \A o \in Operations \ {c} : Settled(run.ops[o]),
         Settled(run.ops[c]),
         run.created = Cardinality(Written(run, Operations \ {c}))
           + (IF Mutated(run.ops[c]) THEN 1 ELSE 0)
  PROVE  Clean(run)
<1>1. \A o \in Operations : Settled(run.ops[o])
  OBVIOUS
<1>2. run.created = Cardinality(Written(run, Operations))
  BY WrittenCount
<1> QED BY <1>1, <1>2 DEF Clean

\* The run with another record for one operation, and another count.
Turned(run, c, op, created, r) ==
  /\ r \in Records /\ r.n = run.n /\ r.ops[c] = op /\ r.created = created
  /\ \A o \in Operations \ {c} : r.ops[o] = run.ops[o]

\* Turning one operation leaves what the others wrote, and what is still open.
LEMMA TurnedKeeps ==
  ASSUME NEW run, NEW c \in Operations, NEW op, NEW created, NEW r,
         Turned(run, c, op, created, r)
  PROVE  /\ Written(r, Operations \ {c}) = Written(run, Operations \ {c})
         /\ c \in Open(run) /\ op.state # "acknowledged" =>
              Open(r) = Open(run) /\ Current(r) = Current(run)
BY DEF Turned, Written, Open, Current

\* An operation turned twice is turned once.
LEMMA TurnedTwice ==
  ASSUME NEW run, NEW c, NEW op, NEW created, NEW r, Turned(run, c, op, created, r),
         NEW op2, NEW created2, NEW r2, Turned(r, c, op2, created2, r2)
  PROVE  Turned(run, c, op2, created2, r2)
BY DEF Turned

\* What Look, Send and Note make of a run.
LEMMA Turns ==
  ASSUME NEW run \in Records, Open(run) # {}
  PROVE  LET c == Current(run)
         IN /\ \A s \in {"pending", "sending", "reconciling", "blocked", "acknowledged"} :
                 Turned(run, c, [run.ops[c] EXCEPT !.state = s], run.created, With(run, s))
            /\ \A why \in {"mismatch", "ambiguous", "remote"} :
                 Turned(run, c, [run.ops[c] EXCEPT !.state = "blocked", !.why = why],
                        run.created, Blocked(run, why))
            /\ Turned(run, c, [run.ops[c] EXCEPT !.observed = TRUE], run.created,
                      Observed(run))
            /\ Turned(run, c, [run.ops[c] EXCEPT !.response = TRUE], run.created,
                      [run EXCEPT !.ops[c].response = TRUE])
            /\ Turned(run, c, run.ops[c], run.created + 1, Counted(run))
<1> DEFINE c == Current(run)
<1>1. c \in Operations /\ run.ops \in [Operations -> OperationRecords]
  BY CurrentIsOpen DEF Records
<1>2. run.ops[c] \in OperationRecords
  BY <1>1
<1>4. \A s \in {"pending", "sending", "reconciling", "blocked", "acknowledged"} :
        Turned(run, c, [run.ops[c] EXCEPT !.state = s], run.created, With(run, s))
  BY <1>1, <1>2 DEF Turned, Records, OperationRecords, With
<1>5. \A why \in {"mismatch", "ambiguous", "remote"} :
        Turned(run, c, [run.ops[c] EXCEPT !.state = "blocked", !.why = why],
               run.created, Blocked(run, why))
  BY <1>1, <1>2 DEF Turned, Records, OperationRecords, Blocked
<1>6. Turned(run, c, [run.ops[c] EXCEPT !.observed = TRUE], run.created, Observed(run))
  BY <1>1, <1>2 DEF Turned, Records, OperationRecords, Observed
<1>7. Turned(run, c, [run.ops[c] EXCEPT !.response = TRUE], run.created,
             [run EXCEPT !.ops[c].response = TRUE])
  BY <1>1, <1>2 DEF Turned, Records, OperationRecords
<1>8. Turned(run, c, run.ops[c], run.created + 1, Counted(run))
  BY <1>1, <1>2 DEF Turned, Records, OperationRecords, Counted
<1> QED BY <1>4, <1>5, <1>6, <1>7, <1>8

-----------------------------------------------------------------------------
(* What a step of a process keeps.                                         *)

\* The number of the next run is that of no sealed run.
LEMMA SealedCount ==
  ASSUME Numbered
  PROVE  /\ Cardinality(sealed) \in Nat /\ NextNumber \in Nat
         /\ NextNumber # 0 /\ NextNumber # Cardinality(sealed)
BY FS_CardinalityType DEF Numbered, NextNumber

\* A run that is sealed under the next number is the last one then.
LEMMA OneMoreIsSealed ==
  ASSUME Numbered, NEW run, run.n = NextNumber, sealed' = sealed \cup {run}
  PROVE  Numbered' /\ Cardinality(sealed') = NextNumber
<1>1. Cardinality(sealed) \in Nat
  BY SealedCount
<1>2. \A r \in sealed : r.n \in 1..Cardinality(sealed)
  BY DEF Numbered, Consecutive
<1>3. \A r \in sealed : r.n # run.n
  BY <1>1, <1>2 DEF NextNumber
<1>4. IsFiniteSet(sealed') /\ Cardinality(sealed') = NextNumber
  BY <1>3, FS_AddElement DEF Numbered, NextNumber
<1>5. {r.n : r \in sealed'} = {r.n : r \in sealed} \cup {NextNumber}
  OBVIOUS
<1>6. {r.n : r \in sealed'} = 1..NextNumber
  BY <1>1, <1>5 DEF Numbered, Consecutive, NextNumber
<1>7. Consecutive'
  BY <1>4, <1>6 DEF Consecutive
<1> QED BY <1>3, <1>4, <1>7 DEF Numbered

\* The holder goes on, and nobody else holds.
LEMMA GoesOn ==
  ASSUME PlanInv, MutualExclusion, NEW p \in Processes, pc[p] = "hold",
         NEW place \in Rooms, NEW run \in {NoRun} \cup Records, Continue(p, place, run),
         journal' \in {NoRun} \cup Records, sealed' \subseteq Records,
         dest' \in [Operations -> {"absent", "same", "other"}],
         Numbered', Left', Stands(place, run)'
  PROVE  PlanInv'
<1>1. /\ at' \in [Processes -> Rooms] /\ mem' \in [Processes -> {NoRun} \cup Records]
      /\ pc' = pc /\ at'[p] = place /\ mem'[p] = run
      /\ \A q \in Processes \ {p} : at'[q] = at[q]
  BY DEF PlanInv, PlanTyped, Continue
<1>2. PlanTyped'
  BY <1>1 DEF PlanInv, PlanTyped
<1>3. \A q \in Processes \ {p} : pc'[q] # "hold"
  BY <1>1 DEF MutualExclusion, Holders
<1>4. ASSUME NEW q \in Processes
      PROVE  (IF pc[q] = "hold" THEN Stands(at[q], mem[q]) ELSE at[q] = "start")'
  <2>1. CASE q = p
    BY <1>1, <2>1 DEF Stands
  <2>2. CASE q # p
    BY <1>1, <1>3, <2>2 DEF PlanInv
  <2> QED BY <2>1, <2>2
<1> QED BY <1>2, <1>4 DEF PlanInv

\* A process that is not where it was, and holds nothing, or came to hold.
LEMMA Elsewhere ==
  ASSUME PlanInv, NEW p \in Processes, NEW place \in Places, Goto(p, place),
         pc[p] # "hold" \/ place # "hold",
         \A q \in Processes \ {p} : at'[q] = at[q] /\ mem'[q] = mem[q],
         at' \in [Processes -> Rooms], mem' \in [Processes -> {NoRun} \cup Records],
         at'[p] = "start",
         UNCHANGED <<sealed, dest>>, journal' \in {NoRun} \cup Records,
         Left', (journal' = journal) \/ (\A q \in Processes \ {p} : pc[q] # "hold")
  PROVE  PlanInv'
<1>1. pc' \in [Processes -> Places] /\ \A q \in Processes \ {p} : pc'[q] = pc[q]
  BY DEF PlanInv, PlanTyped, Goto
<1>2. PlanTyped' /\ Numbered'
  BY <1>1 DEF PlanInv, PlanTyped, Numbered, Consecutive
<1>3. ASSUME NEW q \in Processes
      PROVE  (IF pc[q] = "hold" THEN Stands(at[q], mem[q]) ELSE at[q] = "start")'
  <2>1. CASE q = p
    BY <2>1 DEF Stands, AtWork
  <2>2. CASE q # p /\ pc[q] = "hold"
    <3>1. Stands(at[q], mem[q]) /\ at'[q] = at[q] /\ mem'[q] = mem[q] /\ pc'[q] = "hold"
      BY <1>1, <2>2 DEF PlanInv
    <3>2. journal' = journal
      BY <2>2
    <3> QED BY <3>1, <3>2 DEF Stands, NextNumber
  <2>3. CASE q # p /\ pc[q] # "hold"
    BY <1>1, <2>3 DEF PlanInv
  <2> QED BY <2>1, <2>2, <2>3
<1> QED BY <1>2, <1>3 DEF PlanInv

\* What the last invocation left stays while nobody touches it.
LEMMA LeftStays ==
  ASSUME Left, UNCHANGED <<journal, sealed>>
  PROVE  Left'
BY DEF Left, NextNumber

\* Whoever is not past the lock.
LEMMA LocksKeep ==
  ASSUME PlanInv, NEW p \in Processes, Locks(p)
  PROVE  PlanInv'
<1>1. PICK place \in Places : Goto(p, place)
  BY DEF Locks, Begin, Create, Write, WriteFails, Read, Probe, Remove, Places
<1>2. pc[p] # "hold"
  BY DEF Locks, Begin, Create, Write, WriteFails, Read, Probe, Remove
<1>3. UNCHANGED <<journal, sealed, dest, at, mem>>
  BY DEF Locks, files, world
<1>4. Left' /\ journal' \in {NoRun} \cup Records /\ at[p] = "start"
  BY <1>2, <1>3, LeftStays DEF PlanInv, PlanTyped
<1>5. at' \in [Processes -> Rooms] /\ mem' \in [Processes -> {NoRun} \cup Records]
  BY <1>3 DEF PlanInv, PlanTyped
<1> QED BY <1>1, <1>2, <1>3, <1>4, <1>5, Elsewhere

\* What the destination has does not become absent.
LEMMA WorldKeeps ==
  ASSUME PlanInv, NEW o \in Operations, Arrive(o) \/ Edit(o)
  PROVE  PlanInv'
<1>1. UNCHANGED <<pc, at, mem, journal, sealed>>
  BY DEF Arrive, Edit, files
<1>2. /\ dest' \in [Operations -> {"absent", "same", "other"}]
      /\ \A x \in Operations : dest[x] # "absent" => dest'[x] # "absent"
  BY DEF Arrive, Edit, Makes, PlanInv, PlanTyped
<1>3. PlanTyped' /\ Numbered' /\ Left'
  BY <1>1, <1>2, LeftStays DEF PlanInv, PlanTyped, Numbered, Consecutive
<1>4. ASSUME NEW q \in Processes
      PROVE  (IF pc[q] = "hold" THEN Stands(at[q], mem[q]) ELSE at[q] = "start")'
  <2>1. CASE pc[q] = "hold"
    <3>1. Stands(at[q], mem[q])
      BY <2>1 DEF PlanInv
    <3>2. Open(mem[q]) # {} => Current(mem[q]) \in Operations
      BY CurrentIsOpen
    <3> QED BY <1>1, <1>2, <2>1, <3>1, <3>2 DEF Stands, Around, NextNumber
  <2>2. CASE pc[q] # "hold"
    BY <1>1, <2>2 DEF PlanInv
  <2> QED BY <2>1, <2>2
<1> QED BY <1>3, <1>4 DEF PlanInv

-----------------------------------------------------------------------------
(* A holder at work.                                                       *)

\* A holder that writes the journal of its run goes on as the invariant has it.
LEMMA WorksOn ==
  ASSUME PlanInv, MutualExclusion, NEW p \in Processes, pc[p] = "hold",
         NEW place \in AtWork, NEW run \in Records, run.n = NextNumber,
         Continue(p, place, run),
         NEW j \in Records, journal' = j, j.n = NextNumber,
         ValidRun(j) \/ Answerless(j) \/ Different(j),
         UNCHANGED sealed, dest' \in [Operations -> {"absent", "same", "other"}],
         place \in {"check", "look", "keep"} => Clean(run),
         place = "check" => \A o \in Operations : run.ops[o] = Pending,
         place = "look" => Open(run) # {},
         place = "send" => Around(run) /\ run.ops[Current(run)] = Asked,
         place = "note" =>
           /\ Around(run)
           /\ \E answered \in BOOLEAN :
                /\ run.ops[Current(run)] = Told(answered)
                /\ answered => dest'[Current(run)] # "absent",
         place \in {"close", "seal"} => ValidRun(run) \/ Different(run),
         place = "seal" => j = run
  PROVE  PlanInv'
<1>1. place \in Rooms
  BY DEF AtWork, Rooms
<1>2. Numbered' /\ sealed' \subseteq Records /\ NextNumber' = NextNumber
  BY DEF PlanInv, PlanTyped, Numbered, Consecutive, NextNumber
<1>3. Left'
  BY <1>2 DEF Left
<1>4. Stands(place, run)'
  BY <1>2 DEF Stands
<1> QED BY <1>1, <1>2, <1>3, <1>4, GoesOn

\* What a holder knows of its run.
LEMMA Holding ==
  ASSUME PlanInv, NEW p \in Processes, pc[p] = "hold"
  PROVE  /\ Stands(at[p], mem[p])
         /\ at[p] \in AtWork => mem[p] \in Records /\ mem[p].n = NextNumber
         /\ at[p] \in {"look", "send", "note"} =>
              Open(mem[p]) # {} /\ Current(mem[p]) \in Operations
                /\ Current(mem[p]) \in Open(mem[p])
         /\ dest \in [Operations -> {"absent", "same", "other"}]
BY CurrentIsOpen DEF PlanInv, PlanTyped, Stands, AtWork, Around

\* Opening a run writes a journal the next invocation takes up.
LEMMA OpensRun ==
  ASSUME PlanInv, MutualExclusion, NEW p \in Processes, OpenRun(p)
  PROVE  PlanInv'
<1>1. PICK run : run = NewRun(p, NextNumber)
  OBVIOUS
<1>2. NextNumber \in Nat
  BY SealedCount DEF PlanInv
<1>3. run \in Records /\ run.n = NextNumber /\ run.created = 0
      /\ \A o \in Operations : run.ops[o] = Pending
  BY <1>1, <1>2 DEF NewRun, Records, OperationRecords, Pending
<1>4. Written(run, Operations) = {}
  BY <1>3 DEF Written, Mutated, Pending
<1>5. Clean(run)
  BY <1>3, <1>4, FS_EmptySet DEF Clean, Settled
<1>6. /\ pc[p] = "hold" /\ journal' = run /\ Continue(p, "check", run)
      /\ UNCHANGED <<sealed, dest>>
  BY <1>1 DEF OpenRun, In, NextNumber, world
<1>7. dest' \in [Operations -> {"absent", "same", "other"}] /\ "check" \in AtWork
  BY <1>6 DEF PlanInv, PlanTyped, AtWork
<1> QED BY <1>3, <1>5, <1>6, <1>7, CleanIsValid, WorksOn

\* Each step of Deliver keeps the invariant: the check of an operation,
LEMMA Checks ==
  ASSUME PlanInv, MutualExclusion, NEW p \in Processes, Check(p)
  PROVE  PlanInv'
<1>1. PICK m : m = mem[p]
  OBVIOUS
<1>2. pc[p] = "hold" /\ at[p] = "check" /\ UNCHANGED <<sealed, dest>>
  BY DEF Check, In, world
<1>3. /\ m \in Records /\ m.n = NextNumber /\ Clean(m)
      /\ journal.n = NextNumber /\ \A o \in Operations : m.ops[o] = Pending
      /\ dest' \in [Operations -> {"absent", "same", "other"}]
  BY <1>1, <1>2, Holding DEF Stands, AtWork
<1>4. \A outcome \in {"completed", "failed"} :
        LET r == [m EXCEPT !.outcome = outcome]
        IN r \in Records /\ r.n = m.n /\ r.ops = m.ops /\ r.created = m.created
  BY <1>3 DEF Records
<1>5. \A outcome \in {"completed", "failed"} : ValidRun([m EXCEPT !.outcome = outcome])
  BY <1>3, <1>4, CleanIsValid DEF ValidRun
<1>6. ValidRun(m)
  BY <1>3, CleanIsValid
<1>7. CASE journal' = m /\ Continue(p, "look", m) /\ Operations # {}
  <2>1. Open(m) # {}
    BY <1>3, <1>7 DEF Open, Pending
  <2> QED BY <1>2, <1>3, <1>6, <1>7, <2>1, WorksOn DEF AtWork
<1>8. CASE \E j \in Records : journal' = j /\ j.n = NextNumber
           /\ \E outcome \in {"completed", "failed"} :
                Continue(p, "close", [m EXCEPT !.outcome = outcome])
           /\ (ValidRun(j) \/ Answerless(j) \/ Different(j))
  <2>1. PICK j \in Records, outcome \in {"completed", "failed"} :
          /\ journal' = j /\ j.n = NextNumber
          /\ Continue(p, "close", [m EXCEPT !.outcome = outcome])
          /\ ValidRun(j) \/ Answerless(j) \/ Different(j)
    BY <1>8
  <2>2. PICK r : r = [m EXCEPT !.outcome = outcome]
    OBVIOUS
  <2>3. r \in Records /\ r.n = NextNumber /\ ValidRun(r)
    BY <1>3, <1>4, <1>5, <2>2
  <2>4. Continue(p, "close", r) /\ "close" \in AtWork
    BY <2>1, <2>2 DEF AtWork
  <2> QED BY <1>2, <1>3, <2>1, <2>3, <2>4, WorksOn
<1>9. journal # NoRun /\ journal \in Records
      /\ (ValidRun(journal) \/ Answerless(journal) \/ Different(journal))
  <2>1. journal # NoRun
    BY <1>3, SealedCount DEF NoRun, PlanInv
  <2>2. journal.n # Cardinality(sealed)
    BY <1>3, SealedCount DEF PlanInv
  <2> QED BY <2>1, <2>2 DEF PlanInv, PlanTyped, Left
<1>10. \/ journal' = m /\ Continue(p, "look", m) /\ Operations # {}
       \/ journal' = m /\ Continue(p, "close", [m EXCEPT !.outcome = "completed"])
       \/ journal' = journal /\ Continue(p, "close", [m EXCEPT !.outcome = "failed"])
  BY <1>1 DEF Check
<1> QED BY <1>3, <1>6, <1>7, <1>8, <1>9, <1>10

-----------------------------------------------------------------------------
(* One operation is asked for, sent and noted.                             *)

\* What Around says, turned.
LEMMA TurnedAround ==
  ASSUME NEW run \in Records, Around(run), NEW op \in OperationRecords,
         NEW created \in Nat, NEW r, Turned(run, Current(run), op, created, r)
  PROVE  LET c == Current(run)
         IN /\ r \in Records /\ r.n = run.n /\ r.ops[c] = op
            /\ \A o \in Operations \ {c} : Settled(r.ops[o])
            /\ op.state # "acknowledged" =>
                 /\ Open(r) # {} /\ Current(r) = c
                 /\ created = run.created => Around(r)
            /\ ValidOperation(op)
                 /\ created = run.created + (IF Mutated(op) THEN 1 ELSE 0) => ValidRun(r)
            /\ Settled(op)
                 /\ created = run.created + (IF Mutated(op) THEN 1 ELSE 0) => Clean(r)
<1> DEFINE c == Current(run)
<1>1. c \in Operations /\ c \in Open(run)
  BY CurrentIsOpen DEF Around
<1>2. /\ r \in Records /\ r.n = run.n /\ r.ops[c] = op /\ r.created = created
      /\ \A o \in Operations \ {c} : Settled(r.ops[o])
  BY DEF Turned, Around
<1>3. /\ Written(r, Operations \ {c}) = Written(run, Operations \ {c})
      /\ op.state # "acknowledged" => Open(r) = Open(run) /\ Current(r) = c
  BY <1>1, TurnedKeeps
<1>4. run.created = Cardinality(Written(r, Operations \ {c}))
  BY <1>3 DEF Around
<1>5. op.state # "acknowledged" /\ created = run.created => Around(r)
  BY <1>2, <1>3, <1>4 DEF Around
<1>6. ValidOperation(op)
        /\ created = run.created + (IF Mutated(op) THEN 1 ELSE 0) => ValidRun(r)
  BY <1>1, <1>2, <1>4, AroundIsValid
<1>7. Settled(op)
        /\ created = run.created + (IF Mutated(op) THEN 1 ELSE 0) => Clean(r)
  BY <1>1, <1>2, <1>4, AroundIsClean
<1> QED BY <1>1, <1>2, <1>3, <1>5, <1>6, <1>7 DEF Around

\* What is asked and told of an operation, and which of it validation accepts.
LEMMA OpRecords ==
  /\ Asked \in OperationRecords /\ \A b \in BOOLEAN : Told(b) \in OperationRecords
  /\ ~Mutated(Asked) /\ ValidOperation(Asked) /\ Asked.state = "reconciling"
  /\ \A b \in BOOLEAN : Told(b).state = "sending" /\ (Mutated(Told(b)) <=> b)
  /\ ValidOperation(Told(FALSE))
BY DEF Asked, Told, Pending, OperationRecords, Mutated, ValidOperation

\* The next operation of a clean run.
LEMMA LookTurns ==
  ASSUME NEW m \in Records, Clean(m), Open(m) # {}
  PROVE  LET run == With(m, "reconciling")
         IN /\ run \in Records /\ run.n = m.n /\ Around(run) /\ Current(run) = Current(m)
            /\ run.ops[Current(run)] = Asked /\ ValidRun(run)
<1> DEFINE c == Current(m)
<1>1. c \in Operations /\ c \in Open(m)
  BY CurrentIsOpen
<1>2. m.ops[c] = Pending
  BY <1>1 DEF Clean, Settled, Open
<1>3. m.created = Cardinality(Written(m, Operations \ {c})) /\ m.created \in Nat
  <2>1. ~Mutated(m.ops[c])
    BY <1>2 DEF Mutated, Pending
  <2>2. Cardinality(Written(m, Operations \ {c})) \in Nat
    BY FiniteOperations DEF Written
  <2> QED BY <1>1, <2>1, <2>2, WrittenCount DEF Clean
<1>4. Around(m)
  BY <1>1, <1>3 DEF Clean, Around
<1>5. Turned(m, c, Asked, m.created, With(m, "reconciling"))
  BY <1>2, Turns DEF Asked, Pending
<1> QED BY <1>3, <1>4, <1>5, TurnedAround, OpRecords

\* What the destination is found to have.
LEMMA AskedTurns ==
  ASSUME NEW run \in Records, Around(run), run.ops[Current(run)] = Asked
  PROVE  /\ LET r == With(run, "acknowledged")
            IN r \in Records /\ r.n = run.n /\ Clean(r)
         /\ LET r == Blocked(run, "mismatch")
            IN r \in Records /\ r.n = run.n /\ Different(r)
         /\ LET r == Blocked(run, "remote")
            IN r \in Records /\ r.n = run.n /\ ValidRun(r)
<1> DEFINE c == Current(run)
<1>1. c \in Operations /\ Open(run) # {} /\ run.created \in Nat
  BY CurrentIsOpen DEF Around, Records
<1>2. ASSUME NEW op \in OperationRecords, ~Mutated(op), NEW r,
             Turned(run, c, op, run.created, r)
      PROVE  /\ r \in Records /\ r.n = run.n /\ r.ops[c] = op
             /\ Settled(op) => Clean(r)
             /\ ValidOperation(op) => ValidRun(r)
  BY <1>1, <1>2, TurnedAround
<1>3. With(run, "acknowledged") \in Records /\ With(run, "acknowledged").n = run.n
      /\ Clean(With(run, "acknowledged"))
  <2>1. PICK op : op = [Asked EXCEPT !.state = "acknowledged"]
    OBVIOUS
  <2>2. op \in OperationRecords /\ ~Mutated(op) /\ Settled(op)
    BY <2>1 DEF Asked, Pending, OperationRecords, Mutated, Settled
  <2>3. Turned(run, c, op, run.created, With(run, "acknowledged"))
    BY <1>1, <2>1, Turns
  <2> QED BY <1>2, <2>2, <2>3
<1>4. Blocked(run, "mismatch") \in Records /\ Blocked(run, "mismatch").n = run.n
      /\ Different(Blocked(run, "mismatch"))
  <2>1. PICK op : op = [Asked EXCEPT !.state = "blocked", !.why = "mismatch"]
    OBVIOUS
  <2>2. op \in OperationRecords /\ ~Mutated(op) /\ op.state = "blocked"
        /\ op.why = "mismatch"
    BY <2>1 DEF Asked, Pending, OperationRecords, Mutated
  <2>3. Turned(run, c, op, run.created, Blocked(run, "mismatch"))
    BY <1>1, <2>1, Turns
  <2> QED BY <1>1, <1>2, <2>2, <2>3 DEF Different
<1>5. Blocked(run, "remote") \in Records /\ Blocked(run, "remote").n = run.n
      /\ ValidRun(Blocked(run, "remote"))
  <2>1. PICK op : op = [Asked EXCEPT !.state = "blocked", !.why = "remote"]
    OBVIOUS
  <2>2. op \in OperationRecords /\ ~Mutated(op) /\ ValidOperation(op)
    BY <2>1 DEF Asked, Pending, OperationRecords, Mutated, ValidOperation
  <2>3. Turned(run, c, op, run.created, Blocked(run, "remote"))
    BY <1>1, <2>1, Turns
  <2> QED BY <1>2, <2>2, <2>3
<1> QED BY <1>3, <1>4, <1>5

\* A request is about to go, and it is answered.
LEMMA SendTurns ==
  ASSUME NEW m \in Records, Around(m), m.ops[Current(m)] = Asked
  PROVE  LET run == With(m, "sending")
             told == [run EXCEPT !.ops[Current(run)].response = TRUE]
         IN /\ run \in Records /\ run.n = m.n /\ Around(run) /\ Current(run) = Current(m)
            /\ run.ops[Current(run)] = Told(FALSE) /\ ValidRun(run)
            /\ told \in Records /\ told.n = m.n /\ Around(told)
            /\ Current(told) = Current(m) /\ told.ops[Current(told)] = Told(TRUE)
<1> DEFINE c == Current(m)
           run == With(m, "sending")
           told == [run EXCEPT !.ops[Current(run)].response = TRUE]
<1>1. Open(m) # {} /\ m.created \in Nat
  BY DEF Around, Records
<1> HIDE DEF run, told
<1>u. PICK unanswered : unanswered = Told(FALSE)
  OBVIOUS
<1>v. PICK answered : answered = Told(TRUE)
  OBVIOUS
<1>t. /\ unanswered \in OperationRecords /\ answered \in OperationRecords
      /\ ~Mutated(unanswered) /\ ValidOperation(unanswered)
      /\ unanswered.state # "acknowledged" /\ answered.state # "acknowledged"
  BY <1>u, <1>v, OpRecords
<1>2. Turned(m, c, unanswered, m.created, run)
  <2>1. unanswered = [m.ops[c] EXCEPT !.state = "sending"]
    BY <1>u DEF Asked, Told, Pending
  <2>2. Turned(m, c, [m.ops[c] EXCEPT !.state = "sending"], m.created, With(m, "sending"))
    BY <1>1, Turns
  <2> QED BY <2>1, <2>2 DEF run
<1>3. /\ run \in Records /\ run.n = m.n /\ Around(run) /\ Current(run) = c
      /\ run.ops[c] = unanswered /\ ValidRun(run) /\ Open(run) # {}
  <2>1. m.created = m.created + (IF Mutated(unanswered) THEN 1 ELSE 0)
    BY <1>1, <1>t
  <2>2. unanswered.state # "acknowledged" => Around(run) /\ Open(run) # {} /\ Current(run) = c
    BY <1>1, <1>2, <1>t, TurnedAround
  <2>3. run \in Records /\ run.n = m.n /\ run.ops[c] = unanswered
    BY <1>2 DEF Turned
  <2>4. ValidRun(run)
    BY <1>1, <1>2, <1>t, <2>1, TurnedAround
  <2> QED BY <1>t, <2>2, <2>3, <2>4
<1>4. run.created = m.created
  BY <1>2 DEF Turned
<1>5. Turned(run, c, answered, m.created, told)
  <2>1. Turned(run, c, [run.ops[c] EXCEPT !.response = TRUE], run.created,
               [run EXCEPT !.ops[c].response = TRUE])
    BY <1>3, Turns
  <2>3. told = [run EXCEPT !.ops[c].response = TRUE]
    BY <1>3 DEF told
  <2>2. [run.ops[c] EXCEPT !.response = TRUE] = answered
    BY <1>3, <1>u, <1>v DEF Told, Pending
  <2> QED BY <1>3, <1>4, <2>1, <2>2, <2>3
<1>6. /\ told \in Records /\ told.n = m.n /\ Around(told) /\ Current(told) = c
      /\ told.ops[c] = answered
  <2>1. told \in Records /\ told.n = m.n /\ told.ops[c] = answered
    BY <1>3, <1>5 DEF Turned
  <2>2. answered.state # "acknowledged" => Around(told) /\ Current(told) = c
    BY <1>1, <1>3, <1>4, <1>5, <1>t, TurnedAround
  <2> QED BY <1>t, <2>1, <2>2
<1> QED BY <1>3, <1>6, <1>u, <1>v DEF run, told

\* What came back is read.
LEMMA NoteTurns ==
  ASSUME NEW m \in Records, Around(m), NEW answered \in BOOLEAN,
         m.ops[Current(m)] = Told(answered)
  PROVE  LET run == With(m, "reconciling")
         IN /\ run \in Records /\ run.n = m.n /\ Current(run) = Current(m)
            /\ run.ops[Current(m)].response = answered
            /\ ValidRun(run) \/ Answerless(run)
            /\ LET r == With(Counted(Observed(run)), "acknowledged")
               IN r \in Records /\ r.n = m.n /\ Clean(r)
            /\ LET r == Blocked(Counted(Observed(run)), "mismatch")
               IN r \in Records /\ r.n = m.n /\ ValidRun(r)
            /\ ~answered => LET r == Blocked(run, "remote")
                            IN r \in Records /\ r.n = m.n /\ ValidRun(r)
            /\ LET r == Blocked(IF answered THEN Counted(run) ELSE run, "ambiguous")
               IN r \in Records /\ r.n = m.n /\ ValidRun(r)
<1> DEFINE c == Current(m)
<1>1. Open(m) # {} /\ m.created \in Nat /\ m.created + 1 \in Nat /\ c \in Operations
  BY CurrentIsOpen DEF Around, Records
<1>2. PICK asked : asked = [Asked EXCEPT !.response = answered]
  OBVIOUS
<1>3. asked \in OperationRecords /\ (Mutated(asked) <=> answered)
      /\ asked.state = "reconciling" /\ asked.response = answered
      /\ ValidOperation(asked)
  BY <1>2 DEF Asked, Pending, OperationRecords, Mutated, ValidOperation
<1>4. PICK run : run = With(m, "reconciling")
  OBVIOUS
<1>5. Turned(m, c, asked, m.created, run)
  BY <1>1, <1>2, <1>4, Turns DEF Asked, Told, Pending
<1>6. ASSUME NEW r \in Records, NEW op \in OperationRecords, NEW created \in Nat,
             Turned(m, c, op, created, r), op.state # "acknowledged"
      PROVE  /\ Open(r) # {} /\ Current(r) = c /\ r.ops[c] = op /\ r.created = created
             /\ r.n = m.n
  BY <1>6, TurnedAround DEF Turned
<1>7. /\ run \in Records /\ Open(run) # {} /\ Current(run) = c /\ run.ops[c] = asked
      /\ run.created = m.created /\ run.n = m.n
  BY <1>1, <1>3, <1>5, <1>6 DEF Turned
<1>8. Turned(m, c, asked, m.created + 1, Counted(run))
  <2>1. Turned(run, c, asked, m.created + 1, Counted(run))
    BY <1>7, Turns
  <2> QED BY <1>5, <2>1, TurnedTwice
<1>9. ValidRun(run) \/ Answerless(run)
  <2>1. CASE answered
    <3>1. ValidRun(Counted(run))
      BY <1>1, <1>3, <1>8, <2>1, TurnedAround
    <3> QED BY <1>1, <1>3, <1>7, <2>1, <3>1 DEF Answerless
  <2>2. CASE ~answered
    BY <1>1, <1>3, <1>5, <2>2, TurnedAround
  <2> QED BY <2>1, <2>2
<1>10. PICK seen1 : seen1 = [asked EXCEPT !.observed = TRUE]
  OBVIOUS
<1>11. /\ seen1 \in OperationRecords /\ Mutated(seen1) /\ seen1.state = "reconciling"
       /\ [seen1 EXCEPT !.state = "acknowledged"] \in OperationRecords
       /\ Mutated([seen1 EXCEPT !.state = "acknowledged"])
       /\ Settled([seen1 EXCEPT !.state = "acknowledged"])
       /\ [seen1 EXCEPT !.state = "blocked", !.why = "mismatch"] \in OperationRecords
       /\ Mutated([seen1 EXCEPT !.state = "blocked", !.why = "mismatch"])
       /\ ValidOperation([seen1 EXCEPT !.state = "blocked", !.why = "mismatch"])
  BY <1>2, <1>10
     DEF Asked, Pending, OperationRecords, Mutated, ValidOperation, Settled
<1>12. PICK counted : counted = Counted(Observed(run))
  OBVIOUS
<1>13. Turned(m, c, seen1, m.created + 1, counted)
  <2>1. Turned(run, c, seen1, m.created, Observed(run))
    BY <1>7, <1>10, Turns
  <2>2. Turned(m, c, seen1, m.created, Observed(run))
    BY <1>5, <2>1, TurnedTwice
  <2>3. /\ Observed(run) \in Records /\ Open(Observed(run)) # {}
        /\ Current(Observed(run)) = c /\ Observed(run).ops[c] = seen1
        /\ Observed(run).created = m.created
    BY <1>1, <1>6, <1>11, <2>2 DEF Turned
  <2>4. Turned(Observed(run), c, seen1, m.created + 1, counted)
    BY <1>12, <2>3, Turns
  <2> QED BY <2>2, <2>4, TurnedTwice
<1>14. /\ counted \in Records /\ Open(counted) # {} /\ Current(counted) = c
       /\ counted.ops[c] = seen1 /\ counted.created = m.created + 1
  BY <1>1, <1>6, <1>11, <1>13 DEF Turned
<1>15. LET r == With(counted, "acknowledged")
       IN r \in Records /\ r.n = m.n /\ Clean(r)
  <2>1. Turned(m, c, [seen1 EXCEPT !.state = "acknowledged"], m.created + 1,
               With(counted, "acknowledged"))
    <3>1. Turned(counted, c, [seen1 EXCEPT !.state = "acknowledged"], m.created + 1,
                 With(counted, "acknowledged"))
      BY <1>14, Turns
    <3> QED BY <1>13, <3>1, TurnedTwice
  <2> QED BY <1>1, <1>11, <2>1, TurnedAround
<1>16. LET r == Blocked(counted, "mismatch")
       IN r \in Records /\ r.n = m.n /\ ValidRun(r)
  <2>1. Turned(m, c, [seen1 EXCEPT !.state = "blocked", !.why = "mismatch"],
               m.created + 1, Blocked(counted, "mismatch"))
    <3>1. Turned(counted, c, [seen1 EXCEPT !.state = "blocked", !.why = "mismatch"],
                 m.created + 1, Blocked(counted, "mismatch"))
      BY <1>14, Turns
    <3> QED BY <1>13, <3>1, TurnedTwice
  <2> QED BY <1>1, <1>11, <2>1, TurnedAround
<1>17. ASSUME NEW why \in {"remote", "ambiguous"}, ~answered
       PROVE  LET r == Blocked(run, why)
              IN r \in Records /\ r.n = m.n /\ ValidRun(r)
  <2>1. PICK op : op = [asked EXCEPT !.state = "blocked", !.why = why]
    OBVIOUS
  <2>2. op \in OperationRecords /\ ~Mutated(op) /\ ValidOperation(op)
    BY <1>2, <1>17, <2>1 DEF Asked, Pending, OperationRecords, Mutated, ValidOperation
  <2>3. Turned(m, c, op, m.created, Blocked(run, why))
    <3>1. Turned(run, c, op, m.created, Blocked(run, why))
      BY <1>7, <2>1, Turns
    <3> QED BY <1>5, <3>1, TurnedTwice
  <2> QED BY <1>1, <2>2, <2>3, TurnedAround
<1>18. answered => LET r == Blocked(Counted(run), "ambiguous")
                   IN r \in Records /\ r.n = m.n /\ ValidRun(r)
  <2> SUFFICES ASSUME answered
               PROVE  LET r == Blocked(Counted(run), "ambiguous")
                      IN r \in Records /\ r.n = m.n /\ ValidRun(r)
    OBVIOUS
  <2>1. PICK op : op = [asked EXCEPT !.state = "blocked", !.why = "ambiguous"]
    OBVIOUS
  <2>2. op \in OperationRecords /\ Mutated(op) /\ ValidOperation(op)
    BY <1>2, <2>1 DEF Asked, Pending, OperationRecords, Mutated, ValidOperation
  <2>3. /\ Counted(run) \in Records /\ Open(Counted(run)) # {}
        /\ Current(Counted(run)) = c /\ Counted(run).ops[c] = asked
        /\ Counted(run).created = m.created + 1
    BY <1>1, <1>3, <1>6, <1>8 DEF Turned
  <2>4. Turned(m, c, op, m.created + 1, Blocked(Counted(run), "ambiguous"))
    <3>1. Turned(Counted(run), c, op, m.created + 1, Blocked(Counted(run), "ambiguous"))
      BY <2>1, <2>3, Turns
    <3> QED BY <1>8, <3>1, TurnedTwice
  <2> QED BY <1>1, <2>2, <2>4, TurnedAround
<1> QED BY <1>3, <1>4, <1>7, <1>9, <1>12, <1>15, <1>16, <1>17, <1>18

-----------------------------------------------------------------------------
(* The steps of Deliver.                                                   *)

\* the look at the destination,
LEMMA Looks ==
  ASSUME PlanInv, MutualExclusion, NEW p \in Processes, Look(p)
  PROVE  PlanInv'
<1>1. PICK m : m = mem[p]
  OBVIOUS
<1>2. pc[p] = "hold" /\ at[p] = "look" /\ UNCHANGED <<sealed, dest>>
  BY DEF Look, In, world
<1>3. /\ m \in Records /\ m.n = NextNumber /\ Clean(m) /\ Open(m) # {}
      /\ dest' \in [Operations -> {"absent", "same", "other"}]
  BY <1>1, <1>2, Holding DEF Stands, AtWork
<1>4. PICK run : run = With(m, "reconciling")
  OBVIOUS
<1>5. /\ run \in Records /\ run.n = NextNumber /\ Around(run)
      /\ run.ops[Current(run)] = Asked /\ ValidRun(run)
  BY <1>3, <1>4, LookTurns
<1>6. \E place \in {"keep", "send", "close"}, r \in Records :
        /\ Continue(p, place, r) /\ r.n = NextNumber
        /\ place = "keep" => Clean(r)
        /\ place = "send" => r = run
        /\ place = "close" => ValidRun(r) \/ Different(r)
  <2>1. \/ Continue(p, "keep", With(run, "acknowledged"))
        \/ Continue(p, "send", run)
        \/ Continue(p, "close", Blocked(run, "mismatch"))
        \/ Continue(p, "close", Blocked(run, "remote"))
    BY <1>1, <1>4 DEF Look
  <2> QED BY <1>5, <2>1, AskedTurns
<1>7. PICK place \in {"keep", "send", "close"}, r \in Records :
        /\ Continue(p, place, r) /\ r.n = NextNumber
        /\ place = "keep" => Clean(r)
        /\ place = "send" => r = run
        /\ place = "close" => ValidRun(r) \/ Different(r)
  BY <1>6
<1>8. place \in AtWork /\ journal' = run
  BY <1>1, <1>4 DEF AtWork, Look
<1> QED BY <1>2, <1>3, <1>5, <1>7, <1>8, WorksOn

\* the request,
LEMMA Sends ==
  ASSUME PlanInv, MutualExclusion, NEW p \in Processes, Send(p)
  PROVE  PlanInv'
<1>1. PICK m : m = mem[p]
  OBVIOUS
<1>2. pc[p] = "hold" /\ at[p] = "send" /\ UNCHANGED sealed
  BY DEF Send, In
<1>3. /\ m \in Records /\ m.n = NextNumber /\ Around(m) /\ m.ops[Current(m)] = Asked
      /\ Current(m) \in Operations
      /\ dest \in [Operations -> {"absent", "same", "other"}]
  BY <1>1, <1>2, Holding DEF Stands, AtWork
<1>4. PICK run : run = With(m, "sending")
  OBVIOUS
<1>5. PICK told : told = [run EXCEPT !.ops[Current(run)].response = TRUE]
  OBVIOUS
<1>6. /\ run \in Records /\ run.n = NextNumber /\ Around(run) /\ Current(run) = Current(m)
      /\ run.ops[Current(run)] = Told(FALSE) /\ ValidRun(run)
      /\ told \in Records /\ told.n = NextNumber /\ Around(told)
      /\ Current(told) = Current(m) /\ told.ops[Current(told)] = Told(TRUE)
  BY <1>3, <1>4, <1>5, SendTurns
<1>7. journal' = run /\ "note" \in AtWork
  BY <1>1, <1>4 DEF Send, AtWork
<1>8. /\ dest' \in [Operations -> {"absent", "same", "other"}]
      /\ \/ Continue(p, "note", told) /\ dest'[Current(m)] # "absent"
         \/ Continue(p, "note", run)
  <2>1. \/ /\ Makes(Current(run), "same") \/ Makes(Current(run), "other")
           /\ Continue(p, "note", told)
        \/ /\ Makes(Current(run), "same") \/ UNCHANGED dest
           /\ Continue(p, "note", run)
    BY <1>1, <1>4, <1>5 DEF Send, world
  <2>2. ASSUME NEW as \in {"same", "other"}, Makes(Current(run), as)
        PROVE  /\ dest' \in [Operations -> {"absent", "same", "other"}]
               /\ dest'[Current(m)] # "absent"
    BY <1>3, <1>6, <2>2 DEF Makes
  <2> QED BY <1>3, <2>1, <2>2
<1>9. CASE Continue(p, "note", told) /\ dest'[Current(m)] # "absent"
  BY <1>2, <1>6, <1>7, <1>8, <1>9, WorksOn
<1>10. CASE Continue(p, "note", run)
  <2>1. PICK place : place = "note"
    OBVIOUS
  <2>2. place \in AtWork /\ Continue(p, place, run)
    BY <1>7, <1>10, <2>1
  <2>3. place \notin {"check", "look", "send", "keep", "close", "seal"}
    BY <2>1
  <2>4. \E answered \in BOOLEAN : /\ run.ops[Current(run)] = Told(answered)
                                  /\ answered => dest'[Current(run)] # "absent"
    BY <1>6
  <2>5. /\ run \in Records /\ run.n = NextNumber /\ Around(run) /\ ValidRun(run)
        /\ dest' \in [Operations -> {"absent", "same", "other"}]
    BY <1>6, <1>8
  <2> QED BY <1>2, <1>7, <2>2, <2>3, <2>4, <2>5, WorksOn
<1> QED BY <1>8, <1>9, <1>10

\* the note of its answer,
LEMMA Notes ==
  ASSUME PlanInv, MutualExclusion, NEW p \in Processes, Note(p)
  PROVE  PlanInv'
<1>1. PICK m : m = mem[p]
  OBVIOUS
<1>2. pc[p] = "hold" /\ at[p] = "note" /\ UNCHANGED <<sealed, dest>>
  BY DEF Note, In, world
<1>3. /\ m \in Records /\ m.n = NextNumber /\ Around(m)
      /\ dest' \in [Operations -> {"absent", "same", "other"}]
  BY <1>1, <1>2, Holding DEF Stands, AtWork
<1>4. PICK answered \in BOOLEAN :
        /\ m.ops[Current(m)] = Told(answered)
        /\ answered => dest[Current(m)] # "absent"
  BY <1>1, <1>2, Holding DEF Stands, AtWork
<1>5. PICK run : run = With(m, "reconciling")
  OBVIOUS
<1>6. /\ run \in Records /\ run.n = NextNumber /\ Current(run) = Current(m)
      /\ run.ops[Current(m)].response = answered
      /\ ValidRun(run) \/ Answerless(run)
  BY <1>3, <1>4, <1>5, NoteTurns
<1>7. \E place \in {"keep", "close"}, r \in Records :
        /\ Continue(p, place, r) /\ r.n = NextNumber
        /\ place = "keep" => Clean(r)
        /\ place = "close" => ValidRun(r)
  <2>1. \/ Continue(p, "keep", With(Counted(Observed(run)), "acknowledged"))
        \/ Continue(p, "close", Blocked(Counted(Observed(run)), "mismatch"))
        \/ Continue(p, "close", Blocked(run, "remote")) /\ ~answered
        \/ Continue(p, "close",
             Blocked(IF answered THEN Counted(run) ELSE run, "ambiguous"))
    BY <1>1, <1>4, <1>5, <1>6 DEF Note
  <2> QED BY <1>3, <1>4, <1>5, <2>1, NoteTurns
<1>8. PICK place \in {"keep", "close"}, r \in Records :
        /\ Continue(p, place, r) /\ r.n = NextNumber
        /\ place = "keep" => Clean(r)
        /\ place = "close" => ValidRun(r)
  BY <1>7
<1>9. place \in AtWork /\ journal' = run
  BY <1>1, <1>5 DEF AtWork, Note
<1> QED BY <1>2, <1>3, <1>6, <1>8, <1>9, WorksOn

\* the journal that is written of it,
LEMMA Keeps ==
  ASSUME PlanInv, MutualExclusion, NEW p \in Processes, Keep(p)
  PROVE  PlanInv'
<1>1. PICK m : m = mem[p]
  OBVIOUS
<1>2. pc[p] = "hold" /\ at[p] = "keep" /\ UNCHANGED <<sealed, dest>> /\ journal' = m
  BY <1>1 DEF Keep, In, world
<1>3. /\ m \in Records /\ m.n = NextNumber /\ Clean(m) /\ ValidRun(m)
      /\ dest' \in [Operations -> {"absent", "same", "other"}]
  BY <1>1, <1>2, Holding, CleanIsValid DEF Stands, AtWork
<1>4. CASE Open(m) # {}
  <2>1. Continue(p, "look", m) /\ "look" \in AtWork
    BY <1>1, <1>4 DEF Keep, AtWork
  <2> QED BY <1>2, <1>3, <1>4, <2>1, WorksOn
<1>5. CASE Open(m) = {}
  <2>1. PICK r : r = [m EXCEPT !.outcome = "completed"]
    OBVIOUS
  <2>2. r \in Records /\ r.n = m.n /\ r.ops = m.ops /\ r.created = m.created
    BY <1>3, <2>1 DEF Records
  <2>3. ValidRun(r)
    BY <1>3, <2>2 DEF ValidRun
  <2>4. Continue(p, "close", r) /\ "close" \in AtWork
    BY <1>1, <1>5, <2>1 DEF Keep, AtWork
  <2> QED BY <1>2, <1>3, <2>2, <2>3, <2>4, WorksOn
<1> QED BY <1>4, <1>5

\* the closing of the run,
LEMMA Closes ==
  ASSUME PlanInv, MutualExclusion, NEW p \in Processes, Close(p)
  PROVE  PlanInv'
<1>1. PICK m : m = mem[p]
  OBVIOUS
<1>2. /\ pc[p] = "hold" /\ at[p] = "close" /\ UNCHANGED <<sealed, dest>>
      /\ journal' = m /\ Continue(p, "seal", m) /\ "seal" \in AtWork
  BY <1>1 DEF Close, In, world, AtWork
<1>3. /\ m \in Records /\ m.n = NextNumber /\ (ValidRun(m) \/ Different(m))
      /\ dest' \in [Operations -> {"absent", "same", "other"}]
  BY <1>1, <1>2, Holding DEF Stands, AtWork
<1> QED BY <1>2, <1>3, WorksOn

\* its sealing,
LEMMA Seals ==
  ASSUME PlanInv, MutualExclusion, NEW p \in Processes, Seal(p)
  PROVE  PlanInv'
<1>1. PICK m : m = mem[p]
  OBVIOUS
<1>2. /\ pc[p] = "hold" /\ at[p] = "seal" /\ UNCHANGED <<journal, dest>>
      /\ sealed' = sealed \cup {m} /\ Continue(p, "remove", m)
  BY <1>1 DEF Seal, In, world
<1>3. /\ m \in Records /\ m.n = NextNumber /\ journal = m
      /\ dest' \in [Operations -> {"absent", "same", "other"}]
  BY <1>1, <1>2, Holding DEF Stands, AtWork
<1>4. Numbered' /\ Cardinality(sealed') = NextNumber
  BY <1>2, <1>3, OneMoreIsSealed DEF PlanInv
<1>5. Left' /\ sealed' \subseteq Records
  BY <1>2, <1>3, <1>4 DEF Left, PlanInv, PlanTyped
<1>6. Stands("remove", m)' /\ "remove" \in Rooms
  BY DEF Stands, AtWork, Rooms
<1> QED BY <1>2, <1>3, <1>4, <1>5, <1>6, GoesOn

\* The journal goes, or it is sealed: nothing is known of a run then.
LEMMA StandsIdle ==
  ASSUME NEW place \in {"open", "drop", "project"}, NEW run
  PROVE  Stands(place, run)' /\ place \in Rooms
BY DEF Stands, AtWork, Rooms

\* the removal of its journal,
LEMMA Removes ==
  ASSUME PlanInv, MutualExclusion, NEW p \in Processes, Drop(p) \/ RemoveJournal(p)
  PROVE  PlanInv'
<1>1. /\ pc[p] = "hold" /\ UNCHANGED <<sealed, dest>> /\ journal' = NoRun
  BY DEF Drop, RemoveJournal, In, world
<1>2. \E place \in {"open", "project"}, run \in {NoRun} \cup Records :
        Continue(p, place, run)
  BY DEF Drop, RemoveJournal, PlanInv, PlanTyped
<1>3. PICK place \in {"open", "project"}, run \in {NoRun} \cup Records :
        Continue(p, place, run)
  BY <1>2
<1>4. Left' /\ Numbered' /\ sealed' \subseteq Records
      /\ dest' \in [Operations -> {"absent", "same", "other"}]
  BY <1>1 DEF Left, PlanInv, PlanTyped, Numbered, Consecutive
<1> QED BY <1>1, <1>3, <1>4, StandsIdle, GoesOn

\* the resumption of a journal that was found,
LEMMA Resumes ==
  ASSUME PlanInv, MutualExclusion, NEW p \in Processes, Resume(p)
  PROVE  PlanInv'
<1>1. pc[p] = "hold" /\ UNCHANGED <<journal, dest>>
  BY DEF Resume, In, world
<1>2. PICK place \in {"open", "drop"} : Continue(p, place, NoRun)
  BY DEF Resume
<1>3. Numbered' /\ Left' /\ sealed' \subseteq Records
  <2>1. CASE ToInterrupt
    <3>1. PICK run : run = Interrupted(journal)
      OBVIOUS
    <3>2. journal \in Records /\ journal.n = NextNumber
      BY <2>1 DEF ToInterrupt, NextNumber, PlanInv, PlanTyped
    <3>3. run \in Records /\ run.n = NextNumber
      BY <3>1, <3>2 DEF Interrupted, Records
    <3>4. sealed' = sealed \cup {run}
      BY <2>1, <3>1 DEF Resume
    <3>5. Numbered' /\ Cardinality(sealed') = NextNumber
      BY <3>3, <3>4, OneMoreIsSealed DEF PlanInv
    <3>6. Left'
      BY <1>1, <3>1, <3>2, <3>4, <3>5 DEF Left
    <3> QED BY <3>3, <3>4, <3>5, <3>6 DEF PlanInv, PlanTyped
  <2>2. CASE ~ToInterrupt
    <3>1. UNCHANGED sealed
      BY <2>2 DEF Resume
    <3> QED BY <1>1, <3>1, LeftStays DEF PlanInv, PlanTyped, Numbered, Consecutive
  <2> QED BY <2>1, <2>2
<1>4. /\ journal' \in {NoRun} \cup Records
      /\ dest' \in [Operations -> {"absent", "same", "other"}]
  BY <1>1 DEF PlanInv, PlanTyped
<1> QED BY <1>1, <1>2, <1>3, <1>4, StandsIdle, GoesOn

\* and every way an invocation returns.
LEMMA ReturnsKeep ==
  ASSUME PlanInv, NEW p \in Processes,
         GivesUp(p) \/ Refuse(p) \/ SealRefused(p) \/ Project(p)
  PROVE  PlanInv'
<1>1. Return(p) /\ UNCHANGED <<journal, sealed, dest>>
  BY DEF GivesUp, Refuse, SealRefused, Project, files, world
<1>2. Goto(p, "out") /\ "out" \in Places
  BY <1>1 DEF Return, Release, Places
<1>3. /\ at' \in [Processes -> Rooms] /\ mem' \in [Processes -> {NoRun} \cup Records]
      /\ at'[p] = "start" /\ \A q \in Processes \ {p} : at'[q] = at[q] /\ mem'[q] = mem[q]
  BY <1>1 DEF Return, PlanInv, PlanTyped, Rooms
<1>4. Left' /\ journal' \in {NoRun} \cup Records
  BY <1>1, LeftStays DEF PlanInv, PlanTyped
<1> QED BY <1>1, <1>2, <1>3, <1>4, Elsewhere

\* What a process is sealing is the journal that lies there, as it stands or as
\* interrupted.
LEMMA SealingWhole ==
  ASSUME PlanInv, NEW p \in Processes, NEW run \in Sealing(p)
  PROVE  /\ pc[p] = "hold" /\ run \in Records /\ run.n = NextNumber
         /\ journal \in Records /\ journal.n = NextNumber /\ ValidRun(journal)
         /\ run = journal \/ run = Interrupted(journal)
         /\ run.ops = journal.ops /\ run.created = journal.created
<1>1. CASE run = mem[p] /\ In(p, "seal") /\ ValidRun(run)
  <2>1. pc[p] = "hold" /\ at[p] = "seal"
    BY <1>1 DEF In
  <2>2. mem[p] \in Records /\ mem[p].n = NextNumber /\ journal = mem[p]
    BY <2>1, Holding DEF Stands, AtWork
  <2> QED BY <1>1, <2>1, <2>2
<1>2. CASE run = Interrupted(journal) /\ In(p, "start") /\ ToInterrupt
  <2>1. journal \in Records /\ journal.n = NextNumber /\ ValidRun(journal)
    BY <1>2 DEF ToInterrupt, NextNumber, PlanInv, PlanTyped
  <2> QED BY <1>2, <2>1 DEF In, Interrupted, Records
<1> QED BY <1>1, <1>2 DEF Sealing

\* A process that dies over a record that it had linked leaves its journal behind.
LEMMA DiesOverSeal ==
  ASSUME PlanInv, MutualExclusion, NEW p \in Processes, Goto(p, "dead"),
         NEW run \in Sealing(p), sealed' = sealed \cup {run}, UNCHANGED <<journal, dest>>,
         \A q \in Processes \ {p} : at'[q] = at[q] /\ mem'[q] = mem[q],
         at' \in [Processes -> Rooms], mem' \in [Processes -> {NoRun} \cup Records],
         at'[p] = "start"
  PROVE  PlanInv'
<1>1. /\ pc[p] = "hold" /\ run \in Records /\ run.n = NextNumber
      /\ journal \in Records /\ journal.n = NextNumber
      /\ run = journal \/ run = Interrupted(journal)
  BY SealingWhole
<1>2. Numbered' /\ Cardinality(sealed') = NextNumber
  BY <1>1, OneMoreIsSealed DEF PlanInv
<1>3. Left'
  BY <1>1, <1>2 DEF Left
<1>4. pc' \in [Processes -> Places] /\ \A q \in Processes \ {p} : pc'[q] = pc[q]
  BY DEF PlanInv, PlanTyped, Goto, Places
<1>5. PlanTyped' /\ pc'[p] = "dead"
  BY <1>1, <1>4 DEF PlanInv, PlanTyped, Goto
<1>6. \A q \in Processes : pc'[q] # "hold"
  BY <1>1, <1>4, <1>5 DEF MutualExclusion, Holders
<1>7. \A q \in Processes : at'[q] = "start"
  BY <1>1, <1>4, <1>6 DEF PlanInv, MutualExclusion, Holders
<1> QED BY <1>2, <1>3, <1>5, <1>6, <1>7 DEF PlanInv

\* A process that dies leaves the journal it wrote last, or that of a request that
\* it was about to send, and the records without the one it was sealing or with it.
LEMMA DiesKeep ==
  ASSUME PlanInv, MutualExclusion, NEW p \in Processes, Dies(p)
  PROVE  PlanInv'
<1>1. Goto(p, "dead") /\ "dead" \in Places /\ UNCHANGED dest
  BY DEF Dies, Die, Places
<1>2. /\ at' \in [Processes -> Rooms] /\ mem' \in [Processes -> {NoRun} \cup Records]
      /\ at'[p] = "start" /\ \A q \in Processes \ {p} : at'[q] = at[q] /\ mem'[q] = mem[q]
  BY DEF Dies, PlanInv, PlanTyped, Rooms
<1>3. CASE UNCHANGED <<journal, sealed>>
  <2>1. Left' /\ journal' \in {NoRun} \cup Records
    BY <1>3, LeftStays DEF PlanInv, PlanTyped
  <2> QED BY <1>1, <1>2, <1>3, <2>1, Elsewhere
<1>4. CASE In(p, "send") /\ journal' = With(mem[p], "sending") /\ UNCHANGED sealed
  <2>1. PICK m : m = mem[p]
    OBVIOUS
  <2>2. pc[p] = "hold" /\ at[p] = "send"
    BY <1>4 DEF In
  <2>3. /\ m \in Records /\ m.n = NextNumber /\ Around(m)
        /\ m.ops[Current(m)] = Asked
    BY <2>1, <2>2, Holding DEF Stands, AtWork
  <2>4. PICK run : run = With(m, "sending")
    OBVIOUS
  <2>5. run \in Records /\ run.n = NextNumber /\ ValidRun(run) /\ journal' = run
    BY <1>4, <2>1, <2>3, <2>4, SendTurns
  <2>6. Left'
    BY <1>4, <2>5 DEF Left, NextNumber
  <2>7. \A q \in Processes \ {p} : pc[q] # "hold"
    BY <2>2 DEF MutualExclusion, Holders
  <2> QED BY <1>1, <1>2, <1>4, <2>5, <2>6, <2>7, Elsewhere
<1>5. CASE UNCHANGED journal /\ \E run \in Sealing(p) : sealed' = sealed \cup {run}
  <2>1. PICK run \in Sealing(p) : sealed' = sealed \cup {run}
    BY <1>5
  <2> QED BY <1>1, <1>2, <1>5, <2>1, DiesOverSeal
<1>6. \/ UNCHANGED <<journal, sealed>>
      \/ In(p, "send") /\ journal' = With(mem[p], "sending") /\ UNCHANGED sealed
      \/ UNCHANGED journal /\ \E run \in Sealing(p) : sealed' = sealed \cup {run}
  BY DEF Dies
<1> QED BY <1>3, <1>4, <1>5, <1>6

\* Every step preserves the invariant while the lock excludes.
LEMMA PlanInvNext ==
  ASSUME PlanInv, MutualExclusion, [PlanNext]_planVars
  PROVE  PlanInv'
<1>1. CASE UNCHANGED planVars
  <2>1. UNCHANGED <<journal, sealed, dest, pc, at, mem>>
    BY <1>1 DEF planVars
  <2> QED BY <2>1, LeftStays
          DEF PlanInv, PlanTyped, Numbered, Consecutive, Stands, NextNumber
<1>2. ASSUME NEW p \in Processes, Delivers(p)
      PROVE  PlanInv'
  BY <1>2, ReturnsKeep, Resumes, Removes, OpensRun, Checks, Looks, Sends, Notes, Keeps,
     Closes, Seals, Zenon DEF Delivers
<1> QED BY <1>1, <1>2, LocksKeep, DiesKeep, WorldKeeps DEF PlanNext

\* There is no run at first.
LEMMA PlanInvInit ==
  ASSUME PlanInit
  PROVE  PlanInv
<1>1. /\ journal = NoRun /\ sealed = {} /\ pc = [p \in Processes |-> "out"]
      /\ at = [p \in Processes |-> "start"] /\ mem = [p \in Processes |-> NoRun]
      /\ dest = [o \in Operations |-> "absent"]
  BY DEF PlanInit, Init
<1>2. PlanTyped
  BY <1>1 DEF PlanTyped, Places, Rooms
<1>3. Numbered
  <2>1. IsFiniteSet(sealed) /\ Cardinality(sealed) = 0
    BY <1>1, FS_EmptySet
  <2>2. {r.n : r \in sealed} = {} /\ 1..0 = {}
    BY <1>1
  <2> QED BY <1>1, <2>1, <2>2 DEF Numbered, Consecutive
<1> QED BY <1>1, <1>2, <1>3 DEF PlanInv, Left

\* What is left is taken up or is one of the three.
LEMMA LeftIsKnown ==
  ASSUME PlanInv
  PROVE  Consecutive /\ (Acceptable \/ RefusedForGood)
<1>1. Consecutive /\ Cardinality(sealed) \in Nat /\ NextNumber = Cardinality(sealed) + 1
  BY SealedCount DEF PlanInv, Numbered, NextNumber
<1>2. CASE journal = NoRun
  BY <1>1, <1>2 DEF Acceptable
<1>3. CASE journal # NoRun /\ journal.n = NextNumber
           /\ (ValidRun(journal) \/ Answerless(journal) \/ Different(journal))
  BY <1>1, <1>3
     DEF RefusedForGood, Acceptable, ToInterrupt, AnswerUncounted, Answerless,
         FoundDifferent, Different
<1>4. CASE journal # NoRun /\ journal.n = Cardinality(sealed) /\ journal \in sealed
  <2>1. SealedAs(journal.n) = journal
    BY <1>4 DEF SealedAs, PlanInv, Numbered
  <2> QED BY <1>1, <1>4, <2>1 DEF Acceptable, AlreadySealed
<1>5. CASE journal # NoRun /\ Interrupted(journal) \in sealed
  BY <1>1, <1>5 DEF RefusedForGood, SealedInterrupted
<1> QED BY <1>2, <1>3, <1>4, <1>5 DEF PlanInv, Left

\* What lies among the sealed runs is of a process that has died.
Littered == debris \in BOOLEAN /\ (debris => Dead # {})

\* No other step of a delivery leaves anything there.
LEMMA DeliversClean ==
  ASSUME NEW p \in Processes, Locks(p) \/ Delivers(p)
  PROVE  UNCHANGED debris
<1>1. CASE Locks(p) \/ GivesUp(p) \/ Refuse(p) \/ SealRefused(p)
  BY <1>1 DEF Locks, GivesUp, Refuse, SealRefused, files
<1>2. CASE Resume(p) \/ Drop(p) \/ OpenRun(p) \/ RemoveJournal(p) \/ Project(p)
  BY <1>2 DEF Resume, Drop, OpenRun, RemoveJournal, Project
<1>3. CASE Check(p) \/ Keep(p) \/ Close(p) \/ Seal(p)
  BY <1>3 DEF Check, Keep, Close, Seal
<1>4. CASE Look(p)
  BY <1>4, Zenon DEF Look
<1>5. CASE Send(p)
  BY <1>5, Zenon DEF Send
<1>6. CASE Note(p)
  BY <1>6, Zenon DEF Note
<1> QED BY <1>1, <1>2, <1>3, <1>4, <1>5, <1>6 DEF Delivers

\* Whoever is dead stays dead.
LEMMA LitteredNext ==
  ASSUME LockInv, Littered, [PlanNext]_planVars
  PROVE  Littered'
<1>1. CASE UNCHANGED planVars
  BY <1>1 DEF planVars, Littered, Dead
<1>2. CASE \E p \in Processes : Dies(p)
  <2>1. PICK p \in Processes : Dies(p)
    BY <1>2
  <2>2. Dead' # {}
    BY <2>1 DEF Dies, Die, Goto, Dead, LockInv, Typed
  <2>3. debris' \in BOOLEAN
    BY <2>1 DEF Dies, Littered
  <2> QED BY <2>2, <2>3 DEF Littered
<1>3. CASE UNCHANGED debris
  <2>1. [Next]_vars
    BY StepsOfTheLock
  <2>2. ASSUME Dead' = {} PROVE Dead = {}
    <3>1. CASE UNCHANGED vars
      BY <2>2, <3>1 DEF Dead, vars
    <3>2. CASE Next
      BY <2>2, <3>2, DeadStayDead DEF Next, LockInv
    <3> QED BY <2>1, <3>1, <3>2
  <2> QED BY <1>3, <2>2 DEF Littered
<1>4. CASE \E o \in Operations : Arrive(o) \/ Edit(o)
  <2>1. UNCHANGED debris
    BY <1>4 DEF Arrive, Edit, files
  <2> QED BY <1>3, <2>1
<1>5. CASE \E p \in Processes : Locks(p) \/ Delivers(p)
  BY <1>3, <1>5, DeliversClean
<1> QED BY <1>1, <1>2, <1>4, <1>5 DEF PlanNext

\* Whatever dies, fails, is late or is edited, for any number of processes,
\* operations and runs: as long as the lock excludes, the next invocation of Deliver
\* takes up the journal it finds, but for the three that validateDeliveryRunOperations
\* and sealInterruptedJournal refuse and for a process that died while it wrote among
\* the sealed runs, which reconstructDeliveryHistory refuses (delivery.go,
\* delivery_store.go).
THEOREM RunsAreResumable ==
  PlanSpec /\ []MutualExclusion => []ResumableButForFour
<1>1. PlanInit => PlanInv /\ LockInv /\ Littered
  BY PlanInvInit, InitLocks DEF PlanInit, Littered
<1>2. LockInv /\ [PlanNext]_planVars => LockInv'
  BY StepLocks, StepsOfTheLock
<1>3. PlanInv /\ Littered => ResumableButForFour
  BY LeftIsKnown DEF ResumableButForFour, Littered, Resumable, Readable
<1> QED BY <1>1, <1>2, <1>3, PlanInvNext, LitteredNext, PTL DEF PlanSpec

-----------------------------------------------------------------------------
(* What the sealed runs say was made.                                      *)

Present == {o \in Operations : dest[o] # "absent"}
\* No sealed run says it made the object of an operation.
Unclaimed(o) == \A r \in sealed : ~Mutated(r.ops[o])
\* What a run says was made is there, and no sealed run said so; what it says is
\* there is.
Honest(run) ==
  \A o \in Operations :
    /\ Mutated(run.ops[o]) => dest[o] # "absent" /\ Unclaimed(o)
    /\ run.ops[o].state = "acknowledged" => dest[o] # "absent"

Claims ==
  \A r \in sealed :
    /\ r.created = Cardinality(Written(r, Operations))
    /\ \A o \in Operations :
         Mutated(r.ops[o]) \/ r.ops[o].state = "acknowledged" => dest[o] # "absent"
    /\ \A s \in sealed \ {r}, o \in Operations :
         ~(Mutated(r.ops[o]) /\ Mutated(s.ops[o]))

\* Every object that was made is counted by one sealed run at most, by the run in
\* the journal or by the run at hand, and an operation about to be sent by none.
Reckoned ==
  /\ made = Cardinality(Present) /\ Claims
  /\ journal.n = NextNumber => Honest(journal)
  /\ \A p \in Processes : pc[p] = "hold" /\ at[p] \in AtWork =>
       /\ Honest(mem[p])
       /\ at[p] \in {"send", "note"} => Unclaimed(Current(mem[p]))
  /\ summary.writes \in Nat /\ SummaryIsTrue

-----------------------------------------------------------------------------
(* A sum over sealed runs.                                                 *)

\* Of those runs, all are numbered and say what no other of them says.
ClaimedBy(S) == {o \in Operations : \E r \in S : Mutated(r.ops[o])}
Apart(S) ==
  /\ IsFiniteSet(S)
  /\ \A r \in S :
       /\ r.created = Cardinality(Written(r, Operations))
       /\ \A s \in S \ {r}, o \in Operations :
            ~(Mutated(r.ops[o]) /\ Mutated(s.ops[o]))

\* Without one of them, what it says is missing.
LEMMA OneClaims ==
  ASSUME NEW S, Apart(S), NEW r \in S
  PROVE  /\ Cardinality(ClaimedBy(S)) = r.created + Cardinality(ClaimedBy(S \ {r}))
         /\ Apart(S \ {r})
<1> DEFINE W == Written(r, Operations)
           C == ClaimedBy(S \ {r})
<1>1. /\ IsFiniteSet(W) /\ Cardinality(W) \in Nat
      /\ IsFiniteSet(C) /\ Cardinality(C) \in Nat
  BY FiniteOperations DEF Written, ClaimedBy
<1>2. W \cap C = {}
  BY DEF Written, ClaimedBy, Apart
<1>3. ClaimedBy(S) = W \cup C
  BY DEF Written, ClaimedBy
<1>4. Cardinality(W \cup C) = Cardinality(W) + Cardinality(C)
  <2>1. Cardinality(W \cup C) =
          Cardinality(W) + Cardinality(C) - Cardinality(W \cap C)
    BY <1>1, FS_Union
  <2>2. Cardinality(W \cap C) = 0
    BY <1>2, FS_EmptySet
  <2> QED BY <1>1, <2>1, <2>2
<1>5. Apart(S \ {r})
  BY FS_Subset DEF Apart
<1> QED BY <1>3, <1>4, <1>5 DEF Apart

\* What goes over the runs of a set one by one and adds what each made counts the
\* operations they say were made.
LEMMA SumIsClaimed ==
  ASSUME NEW S, Apart(S)
  PROVE  MapThenSumSet(CreatedBy, S) = Cardinality(ClaimedBy(S))
<1> DEFINE One(s) == CHOOSE r \in s : TRUE
           Sums(f) == f = [s \in SUBSET S |->
                             IF s = {} THEN 0 ELSE One(s).created + f[s \ {One(s)}]]
           count == [s \in SUBSET S |-> Cardinality(ClaimedBy(s))]
           sum == CHOOSE f : Sums(f)
<1>1. ASSUME NEW s \in SUBSET S, s # {}
      PROVE  One(s) \in s /\ s \ {One(s)} \in SUBSET S
  BY <1>1
<1>2. \A s \in SUBSET S : Apart(s)
  BY FS_Subset DEF Apart
<1>3. Sums(count)
  <2>1. ASSUME NEW s \in SUBSET S, s # {}
        PROVE  count[s] = One(s).created + count[s \ {One(s)}]
    <3> HIDE DEF One
    <3> QED BY <1>1, <1>2, <2>1, OneClaims
  <2>2. count[{}] = 0
    <3>1. ClaimedBy({}) = {}
      BY DEF ClaimedBy
    <3> QED BY <3>1, FS_EmptySet
  <2> HIDE DEF One
  <2>3. count = [s \in SUBSET S |->
                   IF s = {} THEN 0 ELSE One(s).created + count[s \ {One(s)}]]
    <3>1. \A s \in SUBSET S :
            count[s] = IF s = {} THEN 0 ELSE One(s).created + count[s \ {One(s)}]
      BY <2>1, <2>2, Zenon
    <3>2. count = [s \in SUBSET S |-> count[s]]
      BY Zenon
    <3> HIDE DEF count
    <3> QED BY <3>1, <3>2
  <2> QED BY <2>3
<1>4. Sums(sum)
  <2> HIDE DEF Sums
  <2> QED BY <1>3
<1>5. MapThenSumSet(CreatedBy, S) = sum[S]
  BY DEF MapThenSumSet, MapThenFoldSet, CreatedBy
<1> HIDE DEF sum, count
<1>6. ASSUME NEW s \in SUBSET S
      PROVE  /\ sum[s] = IF s = {} THEN 0 ELSE One(s).created + sum[s \ {One(s)}]
             /\ count[s] = IF s = {} THEN 0 ELSE One(s).created + count[s \ {One(s)}]
  BY <1>3, <1>4
<1> HIDE DEF Sums
<1> DEFINE Wrong == {s \in SUBSET S : sum[s] # count[s]}
<1>7. Wrong = {}
  <2>1. SUFFICES ASSUME Wrong # {} PROVE FALSE
    OBVIOUS
  <2>2. Wrong \subseteq FiniteSubsetsOf(S)
    BY FS_Subset DEF Apart, FiniteSubsetsOf
  <2>3. PICK s \in Wrong : \A t \in Wrong : <<t, s>> \notin StrictSubsetOrdering(S)
    BY <2>1, <2>2, FS_StrictSubsetOrderingWellFounded, WFMin
  <2>4. s # {} /\ s \in SUBSET S /\ sum[s] # count[s]
    BY <1>6, <2>3
  <2>5. PICK t : t = s \ {One(s)}
    OBVIOUS
  <2>6. t \in SUBSET S /\ t # s /\ t \subseteq s
    BY <1>1, <2>4, <2>5
  <2>7. t \notin Wrong
    BY <2>3, <2>6 DEF StrictSubsetOrdering
  <2>8. sum[t] = count[t]
    BY <2>6, <2>7
  <2> HIDE DEF One
  <2> QED BY <1>6, <2>4, <2>5, <2>8
<1>8. sum[S] = count[S]
  BY <1>7
<1> QED BY <1>5, <1>8 DEF count

-----------------------------------------------------------------------------
(* What a step keeps of it.                                                *)

\* What the destination has stays there, and counting goes with it.
Grows ==
  /\ \A o \in Operations : dest[o] # "absent" => dest'[o] # "absent"
  /\ made' = Cardinality(Present') /\ made' >= made

\* Nothing there is nothing made.
LEMMA StaysCounted ==
  ASSUME Reckoned, UNCHANGED <<dest, made>>
  PROVE  Grows
BY FiniteOperations DEF Reckoned, Grows, Present

\* An object more is one more that was made.
LEMMA OneMoreIsMade ==
  ASSUME PlanInv, Reckoned, NEW o \in Operations, NEW as \in {"same", "other"},
         Makes(o, as)
  PROVE  Grows /\ dest'[o] # "absent"
<1>1. dest \in [Operations -> {"absent", "same", "other"}]
  BY DEF PlanInv, PlanTyped
<1>2. Present' = Present \cup {o} /\ o \notin Present
  BY <1>1 DEF Makes, Present
<1>3. IsFiniteSet(Present) /\ Cardinality(Present) \in Nat
  BY FiniteOperations DEF Present
<1>4. Cardinality(Present \cup {o}) = Cardinality(Present) + 1
  BY <1>2, <1>3, FS_AddElement
<1>5. made' = Cardinality(Present') /\ made' >= made
  BY <1>2, <1>3, <1>4 DEF Makes, Reckoned
<1>6. dest'[o] # "absent" /\ \A x \in Operations : dest[x] # "absent" => dest'[x] # "absent"
  BY <1>1 DEF Makes
<1> QED BY <1>5, <1>6 DEF Grows

\* The sealed runs, and the summary, are true as long as objects only come.
LEMMA ClaimsStay ==
  ASSUME Reckoned, Grows, UNCHANGED <<sealed, summary>>
  PROVE  Claims' /\ summary'.writes \in Nat /\ SummaryIsTrue'
<1>1. made \in Nat /\ made' \in Nat
  BY FiniteOperations DEF Reckoned, Grows, Present
<1>2. Claims'
  BY DEF Reckoned, Claims, Grows
<1> QED BY <1>1, <1>2 DEF Reckoned, Grows, SummaryIsTrue

\* So is a run that is not sealed.
LEMMA HonestStays ==
  ASSUME NEW run, Honest(run), Grows, UNCHANGED sealed
  PROVE  Honest(run)'
BY DEF Honest, Grows, Unclaimed

\* A run that says another thing of one operation.
Says(run, r, c, state, response, observed) ==
  /\ r \in Records /\ \A o \in Operations \ {c} : r.ops[o] = run.ops[o]
  /\ r.ops[c].state = state
  /\ r.ops[c].response = response /\ r.ops[c].observed = observed

\* What the steps of Deliver make a run say of its operation.
LEMMA StepsSay ==
  ASSUME NEW run \in Records, Open(run) # {}, NEW c, c = Current(run),
         NEW response, run.ops[c].response = response,
         NEW observed, run.ops[c].observed = observed
  PROVE  /\ \A s \in {"pending", "sending", "reconciling", "blocked", "acknowledged"} :
              Says(run, With(run, s), c, s, response, observed)
         /\ \A why \in {"mismatch", "ambiguous", "remote"} :
              Says(run, Blocked(run, why), c, "blocked", response, observed)
         /\ Says(run, Observed(run), c, run.ops[c].state, response, TRUE)
         /\ Says(run, [run EXCEPT !.ops[c].response = TRUE], c, run.ops[c].state, TRUE,
                 observed)
         /\ Says(run, Counted(run), c, run.ops[c].state, response, observed)
<1>1. /\ c \in Operations /\ run.ops[c] \in OperationRecords
      /\ run.ops \in [Operations -> OperationRecords]
  BY CurrentIsOpen DEF Records
<1>2. ASSUME NEW s \in {"pending", "sending", "reconciling", "blocked", "acknowledged"}
      PROVE  Says(run, With(run, s), c, s, response, observed)
  BY <1>1, <1>2 DEF Says, With, Records, OperationRecords
<1>3. ASSUME NEW why \in {"mismatch", "ambiguous", "remote"}
      PROVE  Says(run, Blocked(run, why), c, "blocked", response, observed)
  BY <1>1, <1>3 DEF Says, Blocked, Records, OperationRecords
<1>4. Says(run, Observed(run), c, run.ops[c].state, response, TRUE)
  BY <1>1 DEF Says, Observed, Records, OperationRecords
<1>5. Says(run, [run EXCEPT !.ops[c].response = TRUE], c, run.ops[c].state, TRUE, observed)
  BY <1>1 DEF Says, Records, OperationRecords
<1>6. Says(run, Counted(run), c, run.ops[c].state, response, observed)
  BY <1>1 DEF Says, Counted, Records, OperationRecords
<1> QED BY <1>2, <1>3, <1>4, <1>5, <1>6

\* The operation stays the one at hand until it is acknowledged, and what is said of
\* it twice is said of it once.
LEMMA SaysOn ==
  ASSUME NEW run, Open(run) # {}, NEW c, c = Current(run),
         NEW state, NEW response, NEW observed,
         NEW r, Says(run, r, c, state, response, observed)
  PROVE  /\ state # "acknowledged" => Open(r) # {} /\ Current(r) = c
         /\ \A s, b, d, x : Says(r, x, c, s, b, d) => Says(run, x, c, s, b, d)
<1>1. c \in Operations /\ c \in Open(run)
  BY CurrentIsOpen
<1>2. state # "acknowledged" => Open(r) = Open(run)
  BY <1>1 DEF Says, Open
<1> QED BY <1>2 DEF Says, Current

\* One operation of it changes: what is said of it now is so.
LEMMA SaysHonest ==
  ASSUME NEW run, Honest(run), Grows, UNCHANGED sealed,
         NEW c \in Operations, NEW state, NEW response, NEW observed,
         NEW r, Says(run, r, c, state, response, observed),
         response \/ observed =>
           Mutated(run.ops[c]) \/ (dest'[c] # "absent" /\ Unclaimed(c)),
         state = "acknowledged" => dest'[c] # "absent"
  PROVE  Honest(r)'
<1>1. ASSUME NEW o \in Operations \ {c}
      PROVE  /\ Mutated(r.ops[o]) => dest'[o] # "absent" /\ Unclaimed(o)'
             /\ r.ops[o].state = "acknowledged" => dest'[o] # "absent"
  BY DEF Says, Honest, Grows, Unclaimed
<1>2. /\ Mutated(r.ops[c]) => dest'[c] # "absent" /\ Unclaimed(c)'
      /\ r.ops[c].state = "acknowledged" => dest'[c] # "absent"
  <2>1. Mutated(r.ops[c]) => response \/ observed
    BY DEF Says, Mutated
  <2>2. Mutated(run.ops[c]) => dest'[c] # "absent" /\ Unclaimed(c)
    BY DEF Honest, Grows
  <2>3. Unclaimed(c) => Unclaimed(c)'
    BY DEF Unclaimed
  <2> QED BY <2>1, <2>2, <2>3 DEF Says
<1> QED BY <1>1, <1>2 DEF Honest

\* A holder that goes on with a run it is honest about.
LEMMA ReckonsOn ==
  ASSUME PlanInv, Reckoned, MutualExclusion, NEW p \in Processes, pc[p] = "hold",
         NEW place, NEW run, Continue(p, place, run),
         Grows, UNCHANGED <<sealed, summary>>,
         journal'.n = NextNumber => Honest(journal)',
         place \in AtWork => Honest(run)',
         place \in {"send", "note"} => Unclaimed(Current(run))
  PROVE  Reckoned'
<1>1. /\ pc' = pc /\ at'[p] = place /\ mem'[p] = run
      /\ \A q \in Processes \ {p} : pc[q] # "hold"
  BY DEF PlanInv, PlanTyped, Continue, MutualExclusion, Holders
<1>2. NextNumber' = NextNumber
  BY DEF NextNumber
<1>3. ASSUME NEW q \in Processes, pc'[q] = "hold", at'[q] \in AtWork
      PROVE  Honest(mem[q])' /\ (at'[q] \in {"send", "note"} => Unclaimed(Current(mem[q]))')
  BY <1>1, <1>3 DEF Unclaimed
<1> QED BY <1>2, <1>3, ClaimsStay DEF Reckoned, Grows

\* A process that holds nothing now, and leaves the others where they were.
LEMMA ReckonsElsewhere ==
  ASSUME PlanInv, Reckoned, NEW p \in Processes, NEW place, Goto(p, place),
         place = "hold" => at[p] = "start",
         \A q \in Processes \ {p} : at'[q] = at[q] /\ mem'[q] = mem[q],
         at'[p] = "start", UNCHANGED <<sealed, dest, made>>,
         Claims' /\ summary'.writes \in Nat /\ SummaryIsTrue',
         journal'.n = NextNumber => Honest(journal)'
  PROVE  Reckoned'
<1>1. pc'[p] = place /\ \A q \in Processes \ {p} : pc'[q] = pc[q]
  BY DEF PlanInv, PlanTyped, Goto
<1>2. NextNumber' = NextNumber /\ Grows
  BY StaysCounted DEF NextNumber
<1>3. ASSUME NEW q \in Processes, pc'[q] = "hold", at'[q] \in AtWork
      PROVE  Honest(mem[q])' /\ (at'[q] \in {"send", "note"} => Unclaimed(Current(mem[q]))')
  <2>1. q # p
    BY <1>3 DEF AtWork
  <2>2. pc[q] = "hold" /\ at[q] \in AtWork /\ at'[q] = at[q] /\ mem'[q] = mem[q]
    BY <1>1, <1>3, <2>1
  <2>3. Honest(mem[q]) /\ (at[q] \in {"send", "note"} => Unclaimed(Current(mem[q])))
    BY <2>2 DEF Reckoned
  <2> QED BY <1>2, <2>2, <2>3, HonestStays DEF Unclaimed
<1> QED BY <1>2, <1>3 DEF Reckoned, Grows

-----------------------------------------------------------------------------
(* The steps of Deliver.                                                   *)

\* Where the journal is that of the run at hand, as the run is.
LEMMA ReckonsWork ==
  ASSUME PlanInv, Reckoned, NEW p \in Processes, pc[p] = "hold", at[p] \in AtWork
  PROVE  /\ Honest(mem[p]) /\ Honest(journal) /\ mem[p] \in Records
         /\ at[p] \in {"look", "send", "note"} =>
              Open(mem[p]) # {} /\ Current(mem[p]) \in Operations
         /\ at[p] \in {"send", "note"} => Unclaimed(Current(mem[p]))
BY Holding DEF Reckoned, Stands

\* A run that says of each operation what another says is as honest.
LEMMA SameOperations ==
  ASSUME NEW run, NEW r, r.ops = run.ops, Honest(run)
  PROVE  Honest(r)
BY DEF Honest

\* A run is opened: it says nothing,
LEMMA OpensHonest ==
  ASSUME PlanInv, Reckoned, MutualExclusion, NEW p \in Processes, OpenRun(p)
  PROVE  Reckoned'
<1>1. PICK run : run = NewRun(p, NextNumber)
  OBVIOUS
<1>2. /\ pc[p] = "hold" /\ journal' = run /\ Continue(p, "check", run)
      /\ UNCHANGED <<sealed, summary, dest, made>>
  BY <1>1 DEF OpenRun, In, NextNumber, world
<1>3. \A o \in Operations : run.ops[o] = Pending
  BY <1>1 DEF NewRun
<1>4. Honest(run)'
  BY <1>3 DEF Honest, Pending, Mutated
<1> QED BY <1>2, <1>4, StaysCounted, ReckonsOn

\* checked,
LEMMA ChecksHonest ==
  ASSUME PlanInv, Reckoned, MutualExclusion, NEW p \in Processes, Check(p)
  PROVE  Reckoned'
<1>1. PICK m : m = mem[p]
  OBVIOUS
<1>2. /\ pc[p] = "hold" /\ at[p] = "check"
      /\ UNCHANGED <<sealed, summary, dest, made>> /\ journal' \in {m, journal}
  BY <1>1 DEF Check, In, world
<1>3. Honest(m) /\ Honest(journal) /\ m \in Records
  BY <1>1, <1>2, ReckonsWork DEF AtWork
<1>4. Grows /\ Honest(m)' /\ Honest(journal)'
  <2>1. Grows
    BY <1>2, StaysCounted
  <2>2. PICK j : j = journal
    OBVIOUS
  <2>3. Honest(m)' /\ Honest(j)'
    BY <1>2, <1>3, <2>1, <2>2, HonestStays
  <2>4. journal' \in {m, j}
    BY <1>2, <2>2
  <2> QED BY <2>1, <2>3, <2>4
<1>5. \E place \in {"close", "look"} : \E r :
        Continue(p, place, r) /\ r.ops = m.ops
  BY <1>1, <1>3 DEF Check, Records
<1>6. PICK place \in {"close", "look"} : \E r :
        Continue(p, place, r) /\ r.ops = m.ops
  BY <1>5
<1>6a. PICK r : Continue(p, place, r) /\ r.ops = m.ops
  BY <1>6
<1>7. Honest(r)'
  BY <1>4, <1>6a DEF Honest
<1> QED BY <1>2, <1>4, <1>6, <1>6a, <1>7, ReckonsOn

\* looked up: what is found is there, and what is not was made by no sealed run,
LEMMA LooksHonest ==
  ASSUME PlanInv, Reckoned, MutualExclusion, NEW p \in Processes, Look(p)
  PROVE  Reckoned'
<1>1. PICK m : m = mem[p]
  OBVIOUS
<1>2. /\ pc[p] = "hold" /\ at[p] = "look" /\ UNCHANGED <<sealed, summary, dest, made>>
  BY DEF Look, In, world
<1>3. PICK c : c = Current(m)
  OBVIOUS
<1>4. PICK run : run = With(m, "reconciling")
  OBVIOUS
<1>5. /\ Honest(m) /\ m \in Records /\ Open(m) # {} /\ c \in Operations
      /\ Grows /\ m.n = NextNumber /\ Clean(m)
  BY <1>1, <1>2, <1>3, ReckonsWork, Holding, StaysCounted DEF AtWork, Stands
<1>6. /\ run \in Records /\ Around(run) /\ Current(run) = c /\ run.ops[c] = Asked
      /\ run.n = NextNumber /\ Open(run) # {}
  BY <1>3, <1>4, <1>5, LookTurns DEF Around
<1>7. /\ m.ops[c].response = FALSE /\ m.ops[c].observed = FALSE
      /\ run.ops[c].response = FALSE /\ run.ops[c].observed = FALSE
  <2>1. run.ops[c].response = FALSE /\ run.ops[c].observed = FALSE
    BY <1>6 DEF Asked, Pending
  <2>2. m.ops[c] \in OperationRecords
    BY <1>5 DEF Records
  <2>3. Says(m, run, c, "reconciling", m.ops[c].response, m.ops[c].observed)
    BY <1>3, <1>4, <1>5, StepsSay
  <2> QED BY <2>1, <2>3 DEF Says
<1>8. Says(m, run, c, "reconciling", FALSE, FALSE)
  BY <1>3, <1>4, <1>5, <1>7, StepsSay
<1>9. Honest(run)' /\ Honest(run)
  <2>1. Honest(run)'
    BY <1>2, <1>5, <1>8, SaysHonest
  <2>2. Honest(run)
    BY <1>2, <2>1 DEF Honest, Unclaimed
  <2> QED BY <2>1, <2>2
<1>10. /\ Says(run, With(run, "acknowledged"), c, "acknowledged", FALSE, FALSE)
       /\ \A why \in {"mismatch", "ambiguous", "remote"} :
            Says(run, Blocked(run, why), c, "blocked", FALSE, FALSE)
  BY <1>6, <1>7, StepsSay
<1>11. dest[c] # "absent" => Honest(With(run, "acknowledged"))'
  BY <1>2, <1>5, <1>9, <1>10, SaysHonest
<1>12. ASSUME NEW why \in {"mismatch", "remote"}
       PROVE  Honest(Blocked(run, why))'
  BY <1>2, <1>5, <1>9, <1>10, SaysHonest
<1>13. dest[c] = "absent" => Unclaimed(c)
  BY <1>5 DEF Reckoned, Claims, Unclaimed
<1>14. \/ Continue(p, "keep", With(run, "acknowledged")) /\ dest[c] # "absent"
       \/ Continue(p, "send", run) /\ dest[c] = "absent"
       \/ Continue(p, "close", Blocked(run, "mismatch"))
       \/ Continue(p, "close", Blocked(run, "remote"))
  BY <1>1, <1>4, <1>6 DEF Look
<1>15. \E place \in {"keep", "send", "close"} : \E r :
         /\ Continue(p, place, r) /\ Honest(r)'
         /\ place = "send" => Unclaimed(Current(r))
  BY <1>6, <1>9, <1>11, <1>12, <1>13, <1>14
<1>16. PICK place \in {"keep", "send", "close"} : \E r :
         /\ Continue(p, place, r) /\ Honest(r)'
         /\ place = "send" => Unclaimed(Current(r))
  BY <1>15
<1>16a. PICK r :
          /\ Continue(p, place, r) /\ Honest(r)'
          /\ place = "send" => Unclaimed(Current(r))
  BY <1>16
<1>17. journal' = run
  BY <1>1, <1>4 DEF Look
<1> QED BY <1>2, <1>5, <1>9, <1>16, <1>16a, <1>17, ReckonsOn

\* sent: an answer is that of an object that was made for it,
LEMMA SendsHonest ==
  ASSUME PlanInv, Reckoned, MutualExclusion, NEW p \in Processes, Send(p)
  PROVE  Reckoned'
<1>1. PICK m : m = mem[p]
  OBVIOUS
<1>2. pc[p] = "hold" /\ at[p] = "send" /\ UNCHANGED <<sealed, summary>>
  BY DEF Send, In
<1>3. PICK c : c = Current(m)
  OBVIOUS
<1>4. PICK run : run = With(m, "sending")
  OBVIOUS
<1>5. PICK told : told = [run EXCEPT !.ops[c].response = TRUE]
  OBVIOUS
<1>6. /\ Honest(m) /\ m \in Records /\ Open(m) # {} /\ c \in Operations
      /\ Unclaimed(c) /\ Around(m) /\ m.ops[c] = Asked /\ m.created \in Nat
  BY <1>1, <1>2, <1>3, ReckonsWork, Holding DEF AtWork, Stands, Records
<1>7. Says(m, run, c, "sending", FALSE, FALSE)
  <2>1. m.ops[c].response = FALSE /\ m.ops[c].observed = FALSE
    BY <1>6 DEF Asked, Pending
  <2> QED BY <1>3, <1>4, <1>6, <2>1, StepsSay
<1>8. /\ Current(run) = c /\ Open(run) # {} /\ run \in Records
      /\ Says(m, told, c, "sending", TRUE, FALSE) /\ Current(told) = c
  <2>1. Current(run) = c /\ Open(run) # {} /\ run \in Records
    BY <1>3, <1>6, <1>7, SaysOn DEF Says
  <2>2. run.ops[c].state = "sending" /\ run.ops[c].response = FALSE
        /\ run.ops[c].observed = FALSE
    BY <1>7 DEF Says
  <2>3. Says(run, told, c, "sending", TRUE, FALSE)
    BY <1>5, <2>1, <2>2, StepsSay
  <2>4. Says(m, told, c, "sending", TRUE, FALSE)
    BY <1>3, <1>6, <1>7, <2>3, SaysOn
  <2>5. Open(told) = Open(m)
    BY <1>3, <1>6, <2>4, CurrentIsOpen DEF Says, Open
  <2>6. Current(told) = c
    BY <1>3, <2>5 DEF Current
  <2> QED BY <2>1, <2>4, <2>6
<1>9. Grows => Honest(run)' /\ (dest'[c] # "absent" => Honest(told)')
  BY <1>2, <1>6, <1>7, <1>8, SaysHonest
<1>10. /\ Grows
       /\ \/ Continue(p, "note", told) /\ dest'[c] # "absent"
          \/ Continue(p, "note", run)
  <2>1. \/ /\ Makes(c, "same") \/ Makes(c, "other")
           /\ Continue(p, "note", told)
        \/ /\ Makes(c, "same") \/ UNCHANGED <<dest, made>>
           /\ Continue(p, "note", run)
    BY <1>1, <1>3, <1>4, <1>5, <1>8 DEF Send, world
  <2> QED BY <1>6, <2>1, OneMoreIsMade, StaysCounted
<1>11. journal' = run
  BY <1>1, <1>4 DEF Send
<1>12. \E r \in {run, told} : Continue(p, "note", r) /\ Honest(r)'
  BY <1>9, <1>10
<1>13. PICK r \in {run, told} : Continue(p, "note", r) /\ Honest(r)'
  BY <1>12
<1>14. Unclaimed(Current(r))
  BY <1>6, <1>8, <1>13
<1> QED BY <1>2, <1>9, <1>10, <1>11, <1>13, <1>14, ReckonsOn

\* its answer noted: what comes to be counted was made after no sealed run had it,
LEMMA NotesHonest ==
  ASSUME PlanInv, Reckoned, MutualExclusion, NEW p \in Processes, Note(p)
  PROVE  Reckoned'
<1>1. PICK m : m = mem[p]
  OBVIOUS
<1>2. /\ pc[p] = "hold" /\ at[p] = "note" /\ UNCHANGED <<sealed, summary, dest, made>>
  BY DEF Note, In, world
<1>3. PICK c : c = Current(m)
  OBVIOUS
<1>4. PICK run : run = With(m, "reconciling")
  OBVIOUS
<1>5. /\ Honest(m) /\ m \in Records /\ Open(m) # {} /\ c \in Operations
      /\ Unclaimed(c) /\ Grows
  BY <1>1, <1>2, <1>3, ReckonsWork, StaysCounted DEF AtWork
<1>6. PICK answered \in BOOLEAN :
        /\ m.ops[c] = Told(answered)
        /\ answered => dest[c] # "absent"
  BY <1>1, <1>2, <1>3, Holding DEF Stands, AtWork
<1>7. m.ops[c].response = answered /\ m.ops[c].observed = FALSE
  BY <1>6 DEF Told, Pending
<1>8. Says(m, run, c, "reconciling", answered, FALSE)
  BY <1>3, <1>4, <1>5, <1>7, StepsSay
<1>9. run \in Records /\ Open(run) # {} /\ Current(run) = c
  BY <1>3, <1>5, <1>8, SaysOn DEF Says
<1>10. ASSUME NEW r, NEW state, NEW response, NEW observed,
              Says(m, r, c, state, response, observed),
              response \/ observed => answered \/ dest[c] # "absent",
              state = "acknowledged" => dest[c] # "absent"
       PROVE  Honest(r)'
  <2>1. response \/ observed => dest'[c] # "absent" /\ Unclaimed(c)
    BY <1>2, <1>5, <1>6, <1>10
  <2>2. state = "acknowledged" => dest'[c] # "absent"
    BY <1>2, <1>10
  <2> QED BY <1>2, <1>5, <1>10, <2>1, <2>2, SaysHonest
<1>11. Honest(run)'
  <2>1. run.ops[c].response \/ run.ops[c].observed => answered
    BY <1>8 DEF Says
  <2>2. Says(m, run, c, run.ops[c].state, run.ops[c].response, run.ops[c].observed)
        /\ run.ops[c].state # "acknowledged"
    BY <1>8 DEF Says
  <2> QED BY <1>10, <2>1, <2>2
<1>12. PICK seen1 : seen1 = Observed(run)
  OBVIOUS
<1>13. PICK counted : counted = Counted(seen1)
  OBVIOUS
<1>14. PICK noted : noted = IF answered THEN Counted(run) ELSE run
  OBVIOUS
<1>15. Says(m, seen1, c, "reconciling", answered, TRUE)
  <2>1. run.ops[c].state = "reconciling" /\ run.ops[c].response = answered
        /\ run.ops[c].observed = FALSE
    BY <1>8 DEF Says
  <2>2. Says(run, seen1, c, "reconciling", answered, TRUE)
    BY <1>9, <1>12, <2>1, StepsSay
  <2> QED BY <1>3, <1>5, <1>8, <2>2, SaysOn
<1>16. seen1 \in Records /\ Open(seen1) # {} /\ Current(seen1) = c
  BY <1>3, <1>5, <1>15, SaysOn DEF Says
<1>17. Says(m, counted, c, "reconciling", answered, TRUE)
  <2>1. seen1.ops[c].state = "reconciling" /\ seen1.ops[c].response = answered
        /\ seen1.ops[c].observed = TRUE
    BY <1>15 DEF Says
  <2>2. Says(seen1, counted, c, "reconciling", answered, TRUE)
    BY <1>13, <1>16, <2>1, StepsSay
  <2> QED BY <1>3, <1>5, <1>15, <2>2, SaysOn
<1>18. counted \in Records /\ Open(counted) # {} /\ Current(counted) = c
       /\ counted.ops[c].response = answered /\ counted.ops[c].observed = TRUE
  BY <1>3, <1>5, <1>17, SaysOn DEF Says
<1>19. dest[c] # "absent" => Honest(With(counted, "acknowledged"))'
  <2>1. PICK r : r = With(counted, "acknowledged")
    OBVIOUS
  <2>2. Says(counted, r, c, "acknowledged", answered, TRUE)
    BY <1>18, <2>1, StepsSay
  <2>3. Says(m, r, c, "acknowledged", answered, TRUE)
    BY <1>3, <1>5, <1>17, <2>2, SaysOn
  <2> QED BY <1>10, <2>1, <2>3
<1>20. dest[c] # "absent" => Honest(Blocked(counted, "mismatch"))'
  <2>1. PICK r : r = Blocked(counted, "mismatch")
    OBVIOUS
  <2>2. Says(counted, r, c, "blocked", answered, TRUE)
    BY <1>18, <2>1, StepsSay
  <2>3. Says(m, r, c, "blocked", answered, TRUE)
    BY <1>3, <1>5, <1>17, <2>2, SaysOn
  <2> QED BY <1>10, <2>1, <2>3
<1>21. Says(m, noted, c, "reconciling", answered, FALSE)
  <2>1. run.ops[c].state = "reconciling" /\ run.ops[c].response = answered
        /\ run.ops[c].observed = FALSE
    BY <1>8 DEF Says
  <2>2. Says(run, Counted(run), c, "reconciling", answered, FALSE)
    BY <1>9, <2>1, StepsSay
  <2>3. Says(m, Counted(run), c, "reconciling", answered, FALSE)
    BY <1>3, <1>5, <1>8, <2>2, SaysOn
  <2> QED BY <1>8, <1>14, <2>3
<1>22. noted \in Records /\ Open(noted) # {} /\ Current(noted) = c
       /\ noted.ops[c].response = answered /\ noted.ops[c].observed = FALSE
  BY <1>3, <1>5, <1>21, SaysOn DEF Says
<1>23. ASSUME NEW x \in {run, noted}, NEW why \in {"remote", "ambiguous"}
       PROVE  Honest(Blocked(x, why))'
  <2>1. PICK r : r = Blocked(x, why)
    OBVIOUS
  <2>2. x \in Records /\ Open(x) # {} /\ Current(x) = c
        /\ x.ops[c].response = answered /\ x.ops[c].observed = FALSE
        /\ Says(m, x, c, "reconciling", answered, FALSE)
    BY <1>8, <1>9, <1>21, <1>22, <1>23 DEF Says
  <2>3. Says(x, r, c, "blocked", answered, FALSE)
    BY <2>1, <2>2, StepsSay
  <2>4. Says(m, r, c, "blocked", answered, FALSE)
    BY <2>2, <2>3 DEF Says
  <2>5. r.ops[c].response \/ r.ops[c].observed => answered
    BY <2>4 DEF Says
  <2>6. Says(m, r, c, r.ops[c].state, r.ops[c].response, r.ops[c].observed)
        /\ r.ops[c].state # "acknowledged"
    BY <2>4 DEF Says
  <2> QED BY <1>10, <2>1, <2>5, <2>6
<1>24. \/ /\ Continue(p, "keep", With(counted, "acknowledged")) /\ dest[c] # "absent"
       \/ /\ Continue(p, "close", Blocked(counted, "mismatch")) /\ dest[c] # "absent"
       \/ Continue(p, "close", Blocked(run, "remote"))
       \/ Continue(p, "close", Blocked(noted, "ambiguous"))
  <2>1. run.ops[c].response = answered
    BY <1>8 DEF Says
  <2>2. noted = IF run.ops[c].response THEN Counted(run) ELSE run
    BY <1>14, <2>1
  <2>3. run.ops[Current(run)].response = run.ops[c].response
    BY <1>9
  <2> QED BY <1>1, <1>4, <1>9, <1>12, <1>13, <2>2, <2>3 DEF Note
<1>25. \E place \in {"keep", "close"} : \E r : Continue(p, place, r) /\ Honest(r)'
  BY <1>19, <1>20, <1>23, <1>24
<1>26. PICK place \in {"keep", "close"} : \E r : Continue(p, place, r) /\ Honest(r)'
  BY <1>25
<1>26a. PICK r : Continue(p, place, r) /\ Honest(r)'
  BY <1>26
<1>27. journal' = run
  BY <1>1, <1>4 DEF Note
<1> QED BY <1>2, <1>5, <1>11, <1>26, <1>26a, <1>27, ReckonsOn

\* kept in the journal, and the run closed,
LEMMA KeepsHonest ==
  ASSUME PlanInv, Reckoned, MutualExclusion, NEW p \in Processes, Keep(p) \/ Close(p)
  PROVE  Reckoned'
<1>1. PICK m : m = mem[p]
  OBVIOUS
<1>2. /\ pc[p] = "hold" /\ at[p] \in {"keep", "close"} /\ journal' = m
      /\ UNCHANGED <<sealed, summary, dest, made>>
  BY <1>1 DEF Keep, Close, In, world
<1>3. Honest(m) /\ m \in Records /\ Grows
  BY <1>1, <1>2, ReckonsWork, StaysCounted DEF AtWork
<1>4. \E place \in {"close", "look", "seal"} : \E r : Continue(p, place, r) /\ r.ops = m.ops
  BY <1>1, <1>3 DEF Keep, Close, Records
<1>5. PICK place \in {"close", "look", "seal"} : \E r :
        Continue(p, place, r) /\ r.ops = m.ops
  BY <1>4
<1>5a. PICK r : Continue(p, place, r) /\ r.ops = m.ops
  BY <1>5
<1>6. Honest(m)'
  BY <1>2, <1>3, HonestStays
<1>7. Honest(r)'
  BY <1>5a, <1>6 DEF Honest
<1> QED BY <1>2, <1>3, <1>5, <1>5a, <1>6, <1>7, ReckonsOn

\* A run that is honest and whose count is that of its answers is sealed.
LEMMA SealedHonest ==
  ASSUME PlanInv, Reckoned, UNCHANGED <<summary, dest, made>>, NEW run, Honest(run),
         run.created = Cardinality({o \in Operations : Mutated(run.ops[o])}),
         sealed' = sealed \cup {run}
  PROVE  Claims' /\ summary'.writes \in Nat /\ SummaryIsTrue'
<1>1. ASSUME NEW r \in sealed'
      PROVE  /\ r.created = Cardinality(Written(r, Operations))
             /\ \A o \in Operations :
                  Mutated(r.ops[o]) \/ r.ops[o].state = "acknowledged" =>
                    dest[o] # "absent"
  <2>1. CASE r = run
    BY <2>1 DEF Honest, Written
  <2>2. CASE r \in sealed
    BY <2>2 DEF Reckoned, Claims
  <2> QED BY <2>1, <2>2
<1>2. ASSUME NEW r \in sealed', NEW s \in sealed' \ {r}, NEW o \in Operations
      PROVE  ~(Mutated(r.ops[o]) /\ Mutated(s.ops[o]))
  <2>1. CASE r \in sealed /\ s \in sealed
    BY <1>2, <2>1 DEF Reckoned, Claims
  <2>2. CASE r = run /\ s \in sealed
    BY <2>2 DEF Honest, Unclaimed
  <2>3. CASE r \in sealed /\ s = run
    BY <2>3 DEF Honest, Unclaimed
  <2> QED BY <1>2, <2>1, <2>2, <2>3
<1>3. Claims'
  BY <1>1, <1>2 DEF Claims
<1> QED BY <1>3 DEF Reckoned, SummaryIsTrue

\* The journal is no longer that of the next run then.
LEMMA SealsOn ==
  ASSUME PlanInv, Reckoned, MutualExclusion, NEW p \in Processes, pc[p] = "hold",
         NEW place \in Rooms, place \notin AtWork, NEW run, Continue(p, place, run),
         UNCHANGED <<summary, dest, made>>, Claims', summary'.writes \in Nat,
         SummaryIsTrue', journal'.n = NextNumber' => Honest(journal)'
  PROVE  Reckoned'
<1>1. /\ pc' = pc /\ at'[p] = place /\ \A q \in Processes \ {p} : pc[q] # "hold"
  BY DEF PlanInv, PlanTyped, Continue, MutualExclusion, Holders
<1>2. \A q \in Processes : ~(pc'[q] = "hold" /\ at'[q] \in AtWork)
  BY <1>1
<1>3. made' = Cardinality(Present')
  BY DEF Reckoned, Present
<1> QED BY <1>2, <1>3 DEF Reckoned

\* sealed when its record is valid,
LEMMA SealsHonest ==
  ASSUME PlanInv, Reckoned, MutualExclusion, NEW p \in Processes, Seal(p)
  PROVE  Reckoned'
<1>1. PICK m : m = mem[p]
  OBVIOUS
<1>2. /\ pc[p] = "hold" /\ at[p] = "seal" /\ UNCHANGED <<journal, summary, dest, made>>
      /\ sealed' = sealed \cup {m} /\ Continue(p, "remove", m) /\ ValidRun(m)
  BY <1>1 DEF Seal, In, world
<1>3. Honest(m) /\ m.n = NextNumber /\ journal = m
  BY <1>1, <1>2, ReckonsWork, Holding DEF AtWork, Stands
<1>4. Claims' /\ summary'.writes \in Nat /\ SummaryIsTrue'
  BY <1>2, <1>3, SealedHonest DEF ValidRun
<1>5. Cardinality(sealed') = NextNumber /\ NextNumber \in Nat
  BY <1>2, <1>3, OneMoreIsSealed, SealedCount DEF PlanInv
<1>6. journal'.n # NextNumber'
  BY <1>2, <1>3, <1>5 DEF NextNumber
<1> QED BY <1>2, <1>4, <1>6, SealsOn DEF AtWork, Rooms

\* or found in the journal and sealed as interrupted,
LEMMA ResumesHonest ==
  ASSUME PlanInv, Reckoned, MutualExclusion, NEW p \in Processes, Resume(p)
  PROVE  Reckoned'
<1>1. pc[p] = "hold" /\ UNCHANGED <<journal, summary, dest, made>>
  BY DEF Resume, In, files, world
<1>2. PICK place \in {"open", "drop"} : Continue(p, place, NoRun)
  BY DEF Resume
<1>3. place \in Rooms /\ place \notin AtWork
  BY DEF Rooms, AtWork
<1>4. CASE ToInterrupt
  <2>1. PICK run : run = Interrupted(journal)
    OBVIOUS
  <2>2. journal \in Records /\ journal.n = NextNumber /\ ValidRun(journal)
    BY <1>4 DEF ToInterrupt, NextNumber, PlanInv, PlanTyped
  <2>3. run.n = NextNumber /\ run.ops = journal.ops /\ run.created = journal.created
    BY <2>1, <2>2 DEF Interrupted, Records
  <2>4. sealed' = sealed \cup {run}
    BY <1>4, <2>1 DEF Resume
  <2>5. Honest(run)
    BY <2>2, <2>3, SameOperations DEF Reckoned
  <2>6. Claims' /\ summary'.writes \in Nat /\ SummaryIsTrue'
    BY <1>1, <2>2, <2>3, <2>4, <2>5, SealedHonest DEF ValidRun
  <2>7. Cardinality(sealed') = NextNumber /\ NextNumber \in Nat
    BY <2>3, <2>4, OneMoreIsSealed, SealedCount DEF PlanInv
  <2>8. journal'.n # NextNumber'
    BY <1>1, <2>2, <2>7 DEF NextNumber
  <2> QED BY <1>1, <1>2, <1>3, <2>6, <2>8, SealsOn
<1>5. CASE ~ToInterrupt
  <2>1. UNCHANGED sealed
    BY <1>5 DEF Resume
  <2>2. journal'.n = NextNumber => Honest(journal)'
    BY <1>1, <2>1 DEF Reckoned, Honest, Unclaimed
  <2> QED BY <1>1, <1>2, <1>3, <2>1, <2>2, StaysCounted, ReckonsOn DEF AtWork
<1> QED BY <1>4, <1>5

\* and its journal removed.
LEMMA RemovesHonest ==
  ASSUME PlanInv, Reckoned, MutualExclusion, NEW p \in Processes,
         Drop(p) \/ RemoveJournal(p)
  PROVE  Reckoned'
<1>1. /\ pc[p] = "hold" /\ UNCHANGED <<sealed, summary, dest, made>> /\ journal' = NoRun
  BY DEF Drop, RemoveJournal, In, world
<1>2. PICK place \in {"open", "project"} : \E run : Continue(p, place, run)
  BY DEF Drop, RemoveJournal
<1>3. journal'.n # NextNumber
  BY <1>1, SealedCount DEF NoRun, PlanInv
<1> QED BY <1>1, <1>2, <1>3, StaysCounted, ReckonsOn DEF AtWork

\* The summary adds up what the sealed runs say, and no more was made; and the last
\* of them is a replay when what it acknowledged is everything.
LEMMA ProjectsTruth ==
  ASSUME PlanInv, Reckoned, NEW p \in Processes, Project(p)
  PROVE  summary'.writes \in Nat /\ SummaryIsTrue'
<1>1. UNCHANGED <<sealed, dest, made>>
  BY DEF Project, world
<1>2. /\ summary'.writes = MapThenSumSet(CreatedBy, sealed)
      /\ summary'.replay = Replays
  BY DEF Project
<1>3. Apart(sealed)
  BY DEF Apart, PlanInv, Numbered, Reckoned, Claims
<1>4. summary'.writes = Cardinality(ClaimedBy(sealed))
  BY <1>2, <1>3, SumIsClaimed
<1>5. Cardinality(ClaimedBy(sealed)) \in Nat /\ Cardinality(ClaimedBy(sealed)) <= made
  <2>1. ClaimedBy(sealed) \subseteq Present /\ Present \subseteq Operations
    BY DEF ClaimedBy, Present, Reckoned, Claims
  <2>2. IsFiniteSet(Present) /\ Cardinality(Present) \in Nat
    BY FiniteOperations DEF Present
  <2> QED BY <2>1, <2>2, FS_Subset, FS_CardinalityType DEF Reckoned
<1>6. ASSUME Replays, NEW o \in Operations PROVE dest[o] # "absent"
  <2>1. Cardinality(sealed) \in Nat /\ Cardinality(sealed) >= 2
    BY <1>6, SealedCount DEF Replays, PlanInv
  <2>2. Cardinality(sealed) \in {r.n : r \in sealed}
    BY <2>1 DEF PlanInv, Numbered, Consecutive
  <2>3. PICK r \in sealed : r.n = Cardinality(sealed)
    BY <2>2
  <2>4. Open(r) = {}
    BY <1>6, <2>3 DEF Replays, Last
  <2>5. r.ops[o].state = "acknowledged"
    BY <2>4 DEF Open
  <2> QED BY <2>5 DEF Reckoned, Claims
<1> QED BY <1>1, <1>2, <1>4, <1>5, <1>6 DEF SummaryIsTrue

\* An invocation returns,
LEMMA ReturnsHonest ==
  ASSUME PlanInv, Reckoned, NEW p \in Processes,
         GivesUp(p) \/ Refuse(p) \/ SealRefused(p) \/ Project(p)
  PROVE  Reckoned'
<1>1. Return(p) /\ UNCHANGED <<journal, sealed, dest, made>>
  BY DEF GivesUp, Refuse, SealRefused, Project, files, world
<1>2. /\ Goto(p, "out") /\ at'[p] = "start"
      /\ \A q \in Processes \ {p} : at'[q] = at[q] /\ mem'[q] = mem[q]
  BY <1>1 DEF Return, Release, PlanInv, PlanTyped
<1>3. summary'.writes \in Nat /\ SummaryIsTrue'
  <2>1. CASE Project(p)
    BY <2>1, ProjectsTruth
  <2>2. CASE GivesUp(p) \/ Refuse(p) \/ SealRefused(p)
    BY <1>1, <2>2 DEF GivesUp, Refuse, SealRefused, files, Reckoned, SummaryIsTrue
  <2> QED BY <2>1, <2>2
<1>4. Claims' /\ (journal'.n = NextNumber => Honest(journal)')
  BY <1>1 DEF Reckoned, Claims, Honest, Unclaimed
<1> QED BY <1>1, <1>2, <1>3, <1>4, ReckonsElsewhere

\* a process takes a step of the lock,
LEMMA LocksHonest ==
  ASSUME PlanInv, Reckoned, NEW p \in Processes, Locks(p)
  PROVE  Reckoned'
<1>1. PICK place \in Places : Goto(p, place)
  BY DEF Locks, Begin, Create, Write, WriteFails, Read, Probe, Remove, Places
<1>2. UNCHANGED <<journal, sealed, summary, dest, made, at, mem>> /\ at[p] = "start"
  BY DEF Locks, Begin, Create, Write, WriteFails, Read, Probe, Remove, files, world,
         PlanInv
<1>3. /\ Claims' /\ summary'.writes \in Nat /\ SummaryIsTrue'
      /\ journal'.n = NextNumber => Honest(journal)'
  BY <1>2 DEF Reckoned, Claims, Honest, Unclaimed, SummaryIsTrue
<1>4. \A q \in Processes \ {p} : at'[q] = at[q] /\ mem'[q] = mem[q]
  BY <1>2
<1> QED BY <1>1, <1>2, <1>3, <1>4, ReckonsElsewhere

\* or dies, perhaps over a request,
LEMMA DiesHonest ==
  ASSUME PlanInv, Reckoned, MutualExclusion, NEW p \in Processes, Dies(p)
  PROVE  Reckoned'
<1>1. /\ Goto(p, "dead") /\ at'[p] = "start" /\ UNCHANGED <<summary, dest, made>>
      /\ \A q \in Processes \ {p} : at'[q] = at[q] /\ mem'[q] = mem[q]
  BY DEF Dies, Die, PlanInv, PlanTyped
<1>2. ASSUME UNCHANGED sealed
      PROVE  Claims' /\ summary'.writes \in Nat /\ SummaryIsTrue' /\ Grows
  BY <1>1, <1>2, StaysCounted, ClaimsStay
<1>3. CASE UNCHANGED <<journal, sealed>>
  <2>1. journal'.n = NextNumber => Honest(journal)'
    BY <1>1, <1>3 DEF Reckoned, Honest, Unclaimed
  <2> QED BY <1>1, <1>2, <1>3, <2>1, ReckonsElsewhere
<1>4. CASE In(p, "send") /\ journal' = With(mem[p], "sending") /\ UNCHANGED sealed
  <2>1. PICK m : m = mem[p]
    OBVIOUS
  <2>2. PICK c : c = Current(m)
    OBVIOUS
  <2>3. pc[p] = "hold" /\ at[p] = "send"
    BY <1>4 DEF In
  <2>4. /\ Honest(m) /\ m \in Records /\ Open(m) # {} /\ c \in Operations
        /\ m.ops[c] = Asked
    BY <2>1, <2>2, <2>3, ReckonsWork, Holding DEF AtWork, Stands
  <2>5. PICK run : run = With(m, "sending")
    OBVIOUS
  <2>6. m.ops[c].response = FALSE /\ m.ops[c].observed = FALSE
    BY <2>4 DEF Asked, Pending
  <2>7. Says(m, run, c, "sending", FALSE, FALSE)
    BY <2>2, <2>4, <2>5, <2>6, StepsSay
  <2>8. Honest(run)'
    BY <1>1, <1>2, <1>4, <2>4, <2>7, SaysHonest
  <2>9. journal' = run
    BY <1>4, <2>1, <2>5
  <2> QED BY <1>1, <1>2, <1>4, <2>8, <2>9, ReckonsElsewhere
<1>5. CASE UNCHANGED journal /\ \E run \in Sealing(p) : sealed' = sealed \cup {run}
  <2>1. PICK run \in Sealing(p) : sealed' = sealed \cup {run}
    BY <1>5
  <2>2. /\ pc[p] = "hold" /\ run.n = NextNumber /\ journal.n = NextNumber
        /\ ValidRun(journal) /\ run.ops = journal.ops /\ run.created = journal.created
    BY SealingWhole
  <2>3. Honest(run)
    BY <2>2, SameOperations DEF Reckoned
  <2>4. Claims' /\ summary'.writes \in Nat /\ SummaryIsTrue'
    BY <1>1, <2>1, <2>2, <2>3, SealedHonest DEF ValidRun
  <2>5. Cardinality(sealed') = NextNumber /\ NextNumber \in Nat
    BY <2>1, <2>2, OneMoreIsSealed, SealedCount DEF PlanInv
  <2>6. journal'.n # NextNumber'
    BY <1>5, <2>2, <2>5 DEF NextNumber
  <2>7. \A q \in Processes : pc'[q] # "hold"
    BY <1>1, <2>2 DEF Goto, MutualExclusion, Holders, PlanInv, PlanTyped
  <2>8. made' = Cardinality(Present')
    BY <1>1 DEF Reckoned, Present
  <2> QED BY <2>4, <2>6, <2>7, <2>8 DEF Reckoned
<1>6. \/ UNCHANGED <<journal, sealed>>
      \/ In(p, "send") /\ journal' = With(mem[p], "sending") /\ UNCHANGED sealed
      \/ UNCHANGED journal /\ \E run \in Sealing(p) : sealed' = sealed \cup {run}
  BY DEF Dies
<1> QED BY <1>3, <1>4, <1>5, <1>6

\* and a late request arrives or somebody edits.
LEMMA WorldHonest ==
  ASSUME PlanInv, Reckoned, NEW o \in Operations, Arrive(o) \/ Edit(o)
  PROVE  Reckoned'
<1>1. UNCHANGED <<pc, at, mem, journal, sealed, summary>>
  BY DEF Arrive, Edit, files
<1>2. Grows
  <2>1. CASE Makes(o, "same") \/ UNCHANGED <<dest, made>>
    BY <2>1, OneMoreIsMade, StaysCounted
  <2>2. CASE Edit(o)
    <3>1. made' = made /\ Present' = Present
      BY <2>2 DEF Edit, Present, PlanInv, PlanTyped
    <3>2. \A x \in Operations : dest[x] # "absent" => dest'[x] # "absent"
      BY <2>2 DEF Edit, PlanInv, PlanTyped
    <3>3. Cardinality(Present) \in Nat
      BY FiniteOperations DEF Present
    <3> QED BY <3>1, <3>2, <3>3 DEF Grows, Reckoned
  <2> QED BY <2>1, <2>2 DEF Arrive
<1>3. /\ journal'.n = NextNumber' => Honest(journal)'
      /\ \A p \in Processes : pc'[p] = "hold" /\ at'[p] \in AtWork =>
           /\ Honest(mem[p])'
           /\ at'[p] \in {"send", "note"} => Unclaimed(Current(mem[p]))'
  BY <1>1, <1>2 DEF Reckoned, NextNumber, Honest, Unclaimed, Grows
<1> QED BY <1>1, <1>2, <1>3, ClaimsStay DEF Reckoned, Grows

\* Every step preserves it while the lock excludes.
LEMMA ReckonedNext ==
  ASSUME PlanInv, Reckoned, MutualExclusion, [PlanNext]_planVars
  PROVE  Reckoned'
<1>1. CASE UNCHANGED planVars
  BY <1>1 DEF planVars, Reckoned, Present, Claims, Honest, Unclaimed, NextNumber,
              SummaryIsTrue
<1>2. ASSUME NEW p \in Processes, Delivers(p)
      PROVE  Reckoned'
  BY <1>2, ReturnsHonest, ResumesHonest, RemovesHonest, OpensHonest, ChecksHonest,
     LooksHonest, SendsHonest, NotesHonest, KeepsHonest, SealsHonest, Zenon DEF Delivers
<1> QED BY <1>1, <1>2, LocksHonest, DiesHonest, WorldHonest DEF PlanNext

\* Nothing has been made at first.
LEMMA ReckonedInit ==
  ASSUME PlanInit
  PROVE  Reckoned
<1>1. /\ journal = NoRun /\ sealed = {} /\ made = 0 /\ summary = NoSummary
      /\ pc = [p \in Processes |-> "out"] /\ dest = [o \in Operations |-> "absent"]
  BY DEF PlanInit, Init
<1>2. Present = {} /\ Cardinality({}) = 0
  BY <1>1, FS_EmptySet DEF Present
<1>3. journal.n # NextNumber
  BY <1>1, <1>2 DEF NoRun, NextNumber
<1>4. summary.writes = 0 /\ summary.replay = FALSE
  BY <1>1 DEF NoSummary
<1> QED BY <1>1, <1>2, <1>3, <1>4 DEF Reckoned, Claims, SummaryIsTrue

\* For any number of processes, operations, runs and faults, as long as the lock
\* excludes: the summary of a delivery directory counts no more writes than objects
\* were made, whatever was answered late, twice or never, and it calls the last run a
\* replay only when the destination has an object of every operation
\* (rebuildDeliveryProjections and summarizeDelivery of delivery_store.go).
THEOREM SummariesAreTrue ==
  PlanSpec /\ []MutualExclusion => []SummaryIsTrue
<1>1. Reckoned => SummaryIsTrue
  BY DEF Reckoned
<1> QED BY <1>1, PlanInvInit, PlanInvNext, ReckonedInit, ReckonedNext, PTL DEF PlanSpec
=============================================================================
