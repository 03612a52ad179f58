----------------------------- MODULE DeliveryLock -----------------------------
(***************************************************************************)
(* The lock file of a delivery directory: acquireDeliveryLock in           *)
(* internal/productbrain/delivery_store.go.  A process creates the file,   *)
(* or finds it, reads who made it, asks whether that process lives, and    *)
(* removes the file of a dead one to try again.  All processes are on one  *)
(* host.                                                                   *)
(***************************************************************************)
EXTENDS Integers, FiniteSets

CONSTANTS
  Processes,
  MaxDeaths      \* bound: processes that die in one behaviour

ASSUME DeathsAssumption ==
  IsFiniteSet(Processes) /\ "nobody" \notin Processes /\ MaxDeaths \in Nat

VARIABLES
  lock,    \* the file at the path: who made it, and whether it was written
  pc,      \* what each process is about to do
  seen     \* whose file it read

vars == <<lock, pc, seen>>

NoLock == [by |-> "nobody", written |-> FALSE]
LockOf(p, written) == [by |-> p, written |-> written]

Holders == {p \in Processes : pc[p] = "hold"}
Dead == {p \in Processes : pc[p] = "dead"}

Goto(p, step) == pc' = [pc EXCEPT ![p] = step]

Begin(p) ==
  /\ pc[p] = "out"
  /\ Goto(p, "create")
  /\ UNCHANGED <<lock, seen>>

Create(p) ==
  /\ pc[p] = "create"
  /\ IF lock = NoLock THEN lock' = LockOf(p, FALSE) /\ Goto(p, "write")
                      ELSE UNCHANGED lock /\ Goto(p, "read")
  /\ UNCHANGED seen

\* The write goes to the file the process made, whatever is at the path now.
Write(p) ==
  /\ pc[p] = "write"
  /\ lock' = IF lock.by = p THEN LockOf(p, TRUE) ELSE lock
  /\ Goto(p, "hold")
  /\ UNCHANGED seen

WriteFails(p) ==
  /\ pc[p] = "write"
  /\ lock' = NoLock
  /\ Goto(p, "out")
  /\ UNCHANGED seen

\* A file that is gone or not yet written does not read as a lock.
Read(p) ==
  /\ pc[p] = "read"
  /\ IF lock.written THEN seen' = [seen EXCEPT ![p] = lock.by] /\ Goto(p, "probe")
                     ELSE UNCHANGED seen /\ Goto(p, "out")
  /\ UNCHANGED lock

\* Mutant: whoever made the file is taken for dead.
ProbeNobody(p) ==
  /\ pc[p] = "probe"
  /\ Goto(p, "remove")
  /\ UNCHANGED <<lock, seen>>

Probe(p) ==
  /\ pc[p] = "probe"
  /\ Goto(p, IF seen[p] \in Dead THEN "remove" ELSE "out")
  /\ UNCHANGED <<lock, seen>>

\* What is removed is the file at the path, not the file that was read.
Remove(p) ==
  /\ pc[p] = "remove"
  /\ Goto(p, IF lock = NoLock THEN "out" ELSE "create")
  /\ lock' = NoLock
  /\ UNCHANGED seen

Release(p) ==
  /\ pc[p] = "hold"
  /\ lock' = NoLock
  /\ Goto(p, "out")
  /\ UNCHANGED seen

Die(p) ==
  /\ pc[p] # "dead"
  /\ Cardinality(Dead) < MaxDeaths
  /\ Goto(p, "dead")
  /\ UNCHANGED <<lock, seen>>

Init ==
  /\ lock = NoLock
  /\ pc = [p \in Processes |-> "out"]
  /\ seen = [p \in Processes |-> p]

Next ==
  \E p \in Processes :
    \/ Begin(p) \/ Create(p) \/ Write(p) \/ WriteFails(p)
    \/ Read(p) \/ Probe(p) \/ Remove(p) \/ Release(p) \/ Die(p)

Spec == Init /\ [][Next]_vars

-----------------------------------------------------------------------------
\* One process at a time delivers.
MutualExclusion == \A p, q \in Holders : p = q

\* As long as nobody has died the lock excludes, and the file is its holder's.
ExclusiveAmongTheLiving ==
  Dead = {} =>
    /\ MutualExclusion
    /\ \A p \in Holders : lock = LockOf(p, TRUE)
=============================================================================
