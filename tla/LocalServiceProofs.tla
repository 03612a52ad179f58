------------------------- MODULE LocalServiceProofs -------------------------
(***************************************************************************)
(* The local agent of internal/localservice and the semantic index it      *)
(* serves, for any versions, configurations and number of faults, and for  *)
(* any library and number of workers.                                      *)
(*                                                                         *)
(* Of LocalService: what is installed, and what is kept for a rollback, is *)
(* whole; an operation that reports a restoration has restored; one fault  *)
(* leaves a way out.  What makes it inductive is where the steps that are  *)
(* left lead: forward, to what the operation makes of what it found;       *)
(* back, to what it found, as far as no step of the restoration failed;    *)
(* and in which order they stand, for what a step cut short leaves depends *)
(* on what comes after it.                                                 *)
(*                                                                         *)
(* Of SemanticIndex: a ready index was proved by this process, and one     *)
(* uncancelled worker is at work while it builds.  What makes it inductive *)
(* is that a worker past its embeddings has its fingerprint among the      *)
(* proven ones, and that semanticCancel is set exactly while the worker of *)
(* the latest generation runs.                                             *)
(***************************************************************************)
EXTENDS LocalService, SemanticIndex, TLAPS

\* The artifacts of an installation.
Artifacts == DOMAIN Nothing

\* What each artifact may be.
Of(a) ==
  CASE a = "config"   -> {None} \cup Configs
    [] a = "receipt"  -> {None} \cup Receipts
    [] a = "launcher" -> {None, Empty, "whole"}
    [] a = "manifest" -> {None} \cup Pairs
    [] OTHER          -> {None} \cup Versions

\* The inventory.
Disks ==
  [config : Of("config"), receipt : Of("receipt"), binary : Of("binary"),
   skill : Of("skill"), launcher : Of("launcher"), manifest : Of("manifest"),
   oldBinary : Of("oldBinary"), oldSkill : Of("oldSkill")]

\* The steps of an operation, and the operations.
Doings == {"start", "stop", "smoke", "ready", "fingerprints", "remove rollback directory"}
Steps ==
  (UNION {[does : {"write"}, what : {a}, to : Of(a)] : a \in Artifacts})
  \cup [does : Doings, what : {None}, to : {None}]

Operations ==
  [kind : {"install", "rollback", "restart", "uninstall"}, todo : Seq(Steps),
   done : Seq(Artifacts), before : Disks, wasLoaded : BOOLEAN, touched : BOOLEAN,
   undoing : BOOLEAN, broken : BOOLEAN]

\* What the variables hold.
ServiceTyped ==
  /\ disk \in Disks
  /\ service \in [loaded : BOOLEAN, version : {None} \cup Versions]
  /\ op \in {NoOperation} \cup Operations
  /\ peek \in {None} \cup Configs
  /\ previous \in {None} \cup Pairs
  /\ faults \in Nat
  /\ {litter, lockFile, lease, cut} \subseteq BOOLEAN

\* Which way an operation goes.
Operating == op # NoOperation
Forward == Operating /\ ~op.undoing
Undoing == Operating /\ op.undoing

\* An evaluation and an operation exclude each other.
Leased == lease => ~Operating

\* The step writes the artifact.
Writes(s, a) == s.does = "write" /\ s.what = a

\* The writes of a list of steps take the artifacts from d to e: the last write
\* of each counts.
Takes(todo, d, e) ==
  \A a \in Artifacts :
    /\ (\A i \in DOMAIN todo : ~Writes(todo[i], a)) => e[a] = d[a]
    /\ \A i \in DOMAIN todo :
         Writes(todo[i], a) /\ (\A j \in DOMAIN todo : j > i => ~Writes(todo[j], a))
           => todo[i].to = e[a]

\* A step of that kind is among them.
Has(todo, what) == \E i \in DOMAIN todo : todo[i].does = what

\* What an operation makes of the artifacts.
Completes(kind, b, e) ==
  CASE kind = "install" ->
         /\ e.binary \in Versions /\ e.skill \in {None, e.binary} /\ e.config # None
         /\ e.launcher = "whole" /\ e.receipt \in {"installed_not_started", "started"}
         /\ IF b.binary = None
            THEN <<e.manifest, e.oldBinary, e.oldSkill>> = <<b.manifest, b.oldBinary, b.oldSkill>>
            ELSE <<e.manifest, e.oldBinary, e.oldSkill>> = <<Installed(b), b.binary, b.skill>>
    [] kind = "rollback" ->
         /\ b.manifest \in Pairs
         /\ e = [b EXCEPT !.binary = b.manifest.binary, !.skill = b.manifest.skill,
                          !.receipt = "rolled_back"]
    [] kind = "restart" -> e = [b EXCEPT !.receipt = "restarted"]
    [] kind = "uninstall" -> e = Nothing

\* The order of the steps: which may come after which.
Goes(kind, s, t) ==
  /\ t.does # "stop"
  /\ s.does = "start" =>
       ~Writes(t, "launcher") /\ ~Writes(t, "binary")
  /\ kind = "install" =>
       /\ Writes(s, "skill") => ~Writes(t, "binary")
       /\ Writes(s, "launcher") =>
            ~Writes(t, "config") /\ t # Write("receipt", "installing")
  /\ kind = "uninstall" /\ s.does = "write" /\ s.what \in {"config", "receipt"} =>
       ~Writes(t, "binary") /\ ~Writes(t, "skill") /\ ~Writes(t, "launcher")

\* Which steps an operation has.
Belongs(kind, s) ==
  CASE kind = "install" ->
         \/ s.does \in {"start", "smoke"}
         \/ s.does = "write" /\ s.what \in {"oldBinary", "oldSkill", "manifest"}
         \/ s.does = "write" /\ s.to # None /\ s.what # "launcher"
         \/ s = Write("launcher", "whole")
    [] kind = "rollback" ->
         \/ s.does \in {"stop", "start", "ready", "fingerprints"}
         \/ Writes(s, "skill") \/ (Writes(s, "binary") /\ s.to # None)
         \/ Writes(s, "receipt")
    [] kind = "restart" -> s.does = "start" \/ s = Write("receipt", "restarted")
    [] kind = "uninstall" ->
         \/ s.does \in {"stop", "remove rollback directory"}
         \/ s.does = "write" /\ s.to = None

\* The service runs the binary that is on disk; the receipt says it was started.
Running == service = [loaded |-> TRUE, version |-> disk.binary]
SaysStarted(d) == d.receipt \in {"started", "restarted"}

\* The steps of a list stand in that order and belong to the operation.
InOrder(kind, todo) == \A i, j \in DOMAIN todo : i < j => Goes(kind, todo[i], todo[j])
AllBelong(kind, todo) == \A i \in DOMAIN todo : Belongs(kind, todo[i])

\* Going forward: where the rest of the steps leads, and in which order.
Ahead ==
  Forward =>
    /\ InOrder(op.kind, op.todo) /\ AllBelong(op.kind, op.todo)
    /\ \E e \in Disks :
         /\ Takes(op.todo, disk, e) /\ Completes(op.kind, op.before, e)
         /\ SaysStarted(e) =>
              \/ Has(op.todo, "start")
              \/ Running /\ \A i \in DOMAIN op.todo : ~Writes(op.todo[i], "binary")
    /\ (op.kind = "uninstall" /\ Has(op.todo, "stop")) => op.done = <<>> /\ ~op.touched
    /\ ~op.broken

\* What has changed so far is on record.
OnRecord ==
  Forward => \A a \in Artifacts :
    disk[a] # op.before[a] => \E i \in DOMAIN op.done : op.done[i] = a

\* A restoration stops first and starts last.
StopFirst(todo) ==
  \A i, j \in DOMAIN todo : i < j => todo[j].does # "stop" /\ todo[i].does # "start"
\* Undoing: the rest of the steps leads back, unless one of them failed.
Back ==
  Undoing =>
    /\ op.kind = "restart" =>
         /\ op.broken /\ op.todo = <<>>
         /\ disk.receipt \in {op.before.receipt, "restarted"}
         /\ \A a \in Artifacts \ {"receipt"} : disk[a] = op.before[a]
    /\ op.kind # "restart" =>
         (Takes(op.todo, disk, op.before) \/ (op.broken /\ faults >= 2))
    /\ StopFirst(op.todo)
    /\ op.kind = "uninstall" => ~Has(op.todo, "stop")
    /\ op.kind # "uninstall" /\ ~op.touched => ~Has(op.todo, "stop") /\ ~Has(op.todo, "start")

\* A service that no step has touched is as the operation found it.
Untouched == (Operating /\ ~op.touched) => service.loaded = op.wasLoaded

\* And the service is led back with them: stopped, then started if it was.
ServiceBack ==
  (Undoing /\ ~op.broken) =>
    IF op.kind = "uninstall"
    THEN (op.touched /\ SaysStarted(op.before)) =>
           (Has(op.todo, "start") \/ (op.todo = <<>> /\ Running))
    ELSE IF op.touched
    THEN \/ /\ Has(op.todo, "stop") \/ ~service.loaded
            /\ Has(op.todo, "start") <=> op.wasLoaded
         \/ (op.todo = <<>> /\ op.wasLoaded /\ Running)
    ELSE TRUE

\* A disk between operations none of which was cut short, and its backup.
WholeDisk(d) ==
  \/ d = Nothing
  \/ /\ OneVersion(d) /\ d.config # None /\ d.launcher = "whole"
     /\ d.receipt \notin {None, "installing", "start_pending"}
\* The rollback directory holds the installation before, as the manifest says.
BackedUp(d) ==
  IF previous = None
  THEN <<d.manifest, d.oldBinary, d.oldSkill>> = <<None, None, None>>
  ELSE /\ d.manifest = previous /\ OneVersion(previous)
       /\ [binary |-> d.oldBinary, skill |-> d.oldSkill] = previous

\* Since nothing was cut short: the disk is whole and backed up, or was when the
\* operation began, and a receipt that says started is of a service that runs.
Settled ==
  ~cut => IF Operating
          THEN /\ WholeDisk(op.before) /\ BackedUp(op.before)
               /\ SaysStarted(op.before) =>
                    op.wasLoaded /\ (~op.touched => service = [loaded |-> TRUE, version |-> op.before.binary])
          ELSE /\ WholeDisk(disk) /\ BackedUp(disk)
               /\ SaysStarted(disk) => Running

\* An installation with nothing missing; and before the first fault it is that,
\* or nothing, that every operation begins with and ends with.
Solid(d) == d.binary # None /\ d.config # None /\ d.launcher = "whole" /\ d.receipt # None

Faultless ==
  /\ litter => faults >= 1
  /\ faults = 0 =>
       IF Operating
       THEN /\ ~op.undoing
            /\ (op.before = Nothing /\ op.kind = "install") \/ Solid(op.before)
       ELSE disk = Nothing \/ Solid(disk)

\* What CanInstall and CanUninstall ask of the artifacts.
Installable(d) == d.launcher # Empty /\ ~(d.binary = None /\ d.skill # None)
Removable(d) == d.config # None /\ d.receipt # None

\* Where an operation going forward stands if it is cut short there.
Midway ==
  Forward =>
    /\ op.kind # "install" => op.before.receipt # None
    /\ CASE op.kind = "install" ->
           /\ Installable(disk)
           /\ disk.receipt # None \/ \E i \in DOMAIN op.todo : op.todo[i] = Write("receipt", "installing")
         [] op.kind = "rollback" ->
           /\ disk.launcher = op.before.launcher /\ op.before.launcher # Empty
           /\ op.before.binary # None => disk.binary # None
         [] op.kind = "restart" ->
           /\ disk.receipt \in {op.before.receipt, "restarted"}
           /\ \A a \in Artifacts \ {"receipt"} : disk[a] = op.before[a]
         [] op.kind = "uninstall" ->
           \/ Removable(disk)
           \/ disk.binary = None /\ disk.skill = None /\ disk.launcher # Empty

\* At most one fault: what is on disk, or was when the operation began, leads on.
WaysOut ==
  faults <= 1 => LET d == IF Operating THEN op.before ELSE disk
                 IN Installable(d) \/ (Removable(d) /\ ~litter)

\* The inductive invariant.
ServiceInv ==
  /\ ServiceTyped /\ Leased /\ Ahead /\ OnRecord /\ Back /\ Untouched /\ ServiceBack
  /\ Settled /\ Faultless /\ Midway /\ WaysOut

-----------------------------------------------------------------------------
\* The first step of a list and the rest of it.
LEMMA ListTail ==
    ASSUME NEW S, NEW s \in Seq(S), s # <<>>
    PROVE  /\ Head(s) = s[1] /\ Head(s) \in S /\ Tail(s) \in Seq(S)
           /\ 1 \in DOMAIN s
           /\ \A i \in DOMAIN Tail(s) : i + 1 \in DOMAIN s /\ i + 1 > 1 /\ Tail(s)[i] = s[i + 1]
           /\ \A i \in DOMAIN s : i = 1 \/ (i - 1 \in DOMAIN Tail(s) /\ Tail(s)[i - 1] = s[i])
           /\ DOMAIN s \subseteq Nat /\ DOMAIN Tail(s) \subseteq Nat
<1>1. /\ Len(s) \in Nat /\ DOMAIN s = 1..Len(s) /\ Len(s) >= 1
      /\ Tail(s) \in Seq(S) /\ Len(Tail(s)) = Len(s) - 1 /\ DOMAIN Tail(s) = 1..Len(s) - 1
      /\ \A i \in 1..Len(s) - 1 : Tail(s)[i] = s[i + 1]
      /\ Head(s) = s[1]
    OBVIOUS
<1> QED BY <1>1

\* Where the steps of two lists stand when one follows the other.
LEMMA ListJoin ==
    ASSUME NEW S, NEW s \in Seq(S), NEW t \in Seq(S)
    PROVE  /\ s \o t \in Seq(S)
           /\ \A i \in DOMAIN s : i \in DOMAIN (s \o t) /\ (s \o t)[i] = s[i]
           /\ \A i \in DOMAIN t : Len(s) + i \in DOMAIN (s \o t) /\ (s \o t)[Len(s) + i] = t[i]
           /\ \A i \in DOMAIN (s \o t) :
                \/ i \in DOMAIN s /\ (s \o t)[i] = s[i]
                \/ /\ i - Len(s) \in DOMAIN t /\ i > Len(s) /\ (s \o t)[i] = t[i - Len(s)]
           /\ Len(s) \in Nat /\ DOMAIN s = 1..Len(s) /\ DOMAIN t = 1..Len(t) /\ Len(t) \in Nat
           /\ DOMAIN (s \o t) = 1..Len(s) + Len(t)
<1>1. /\ Len(s) \in Nat /\ Len(t) \in Nat /\ DOMAIN s = 1..Len(s) /\ DOMAIN t = 1..Len(t)
      /\ s \o t \in Seq(S) /\ Len(s \o t) = Len(s) + Len(t) /\ DOMAIN (s \o t) = 1..Len(s) + Len(t)
      /\ \A i \in 1..Len(s) + Len(t) : (s \o t)[i] = IF i <= Len(s) THEN s[i] ELSE t[i - Len(s)]
    OBVIOUS
<1> QED BY <1>1

\* Once the first step of a list is done, the rest leads where the whole led.
LEMMA TakesTail ==
    ASSUME NEW S, NEW s \in Seq(S), s # <<>>, NEW d, NEW d2, NEW e, Takes(s, d, e),
           IF Head(s).does = "write"
           THEN \A a \in Artifacts : d2[a] = IF a = Head(s).what THEN Head(s).to ELSE d[a]
           ELSE \A a \in Artifacts : d2[a] = d[a]
    PROVE  Takes(Tail(s), d2, e)
<1>0. /\ Head(s) = s[1] /\ 1 \in DOMAIN s
      /\ \A i \in DOMAIN Tail(s) : i + 1 \in DOMAIN s /\ i + 1 > 1 /\ Tail(s)[i] = s[i + 1]
      /\ \A i \in DOMAIN s : i = 1 \/ (i - 1 \in DOMAIN Tail(s) /\ Tail(s)[i - 1] = s[i])
      /\ DOMAIN s \subseteq Nat /\ DOMAIN Tail(s) \subseteq Nat
    BY ListTail
<1>1. ASSUME NEW a \in Artifacts, \A i \in DOMAIN Tail(s) : ~Writes(Tail(s)[i], a)
      PROVE  e[a] = d2[a]
    <2>1. ASSUME NEW i \in DOMAIN s, i > 1 PROVE ~Writes(s[i], a)
        <3>1. i - 1 \in DOMAIN Tail(s) /\ Tail(s)[i - 1] = s[i]
            BY <1>0, <2>1
        <3> QED BY <1>1, <3>1
    <2>2. CASE Writes(s[1], a)
        <3>1. s[1].to = e[a]
            BY <1>0, <2>1, <2>2 DEF Takes
        <3> QED BY <1>0, <2>2, <3>1 DEF Writes
    <2>3. CASE ~Writes(s[1], a)
        <3>1. \A i \in DOMAIN s : ~Writes(s[i], a)
            BY <1>0, <2>1, <2>3
        <3>2. e[a] = d[a]
            BY <3>1 DEF Takes
        <3> QED BY <1>0, <2>3, <3>2 DEF Writes
    <2> QED BY <2>2, <2>3
<1>2. ASSUME NEW a \in Artifacts, NEW i \in DOMAIN Tail(s), Writes(Tail(s)[i], a),
             \A j \in DOMAIN Tail(s) : j > i => ~Writes(Tail(s)[j], a)
      PROVE  Tail(s)[i].to = e[a]
    <2>1. ASSUME NEW j \in DOMAIN s, j > i + 1 PROVE ~Writes(s[j], a)
        <3>1. j - 1 \in DOMAIN Tail(s) /\ Tail(s)[j - 1] = s[j] /\ j - 1 > i
            BY <1>0, <2>1
        <3> QED BY <1>2, <3>1
    <2> QED BY <1>0, <1>2, <2>1 DEF Takes
<1> QED BY <1>1, <1>2 DEF Takes

\* Lists one after the other lead where the second leads from where the first does.
LEMMA TakesJoin ==
    ASSUME NEW S, NEW s \in Seq(S), NEW t \in Seq(S), NEW d, NEW m, NEW e,
           Takes(s, d, m), Takes(t, m, e)
    PROVE  Takes(s \o t, d, e)
<1> DEFINE u == s \o t
<1>0. /\ \A i \in DOMAIN s : i \in DOMAIN u /\ u[i] = s[i]
      /\ \A i \in DOMAIN t : Len(s) + i \in DOMAIN u /\ u[Len(s) + i] = t[i]
      /\ \A i \in DOMAIN u :
                \/ i \in DOMAIN s /\ u[i] = s[i]
                \/ /\ i - Len(s) \in DOMAIN t /\ i > Len(s) /\ u[i] = t[i - Len(s)]
      /\ Len(s) \in Nat /\ DOMAIN s = 1..Len(s) /\ DOMAIN t = 1..Len(t) /\ Len(t) \in Nat
      /\ DOMAIN u = 1..Len(s) + Len(t)
    BY ListJoin
<1> HIDE DEF u
<1>1. ASSUME NEW a \in Artifacts, \A i \in DOMAIN u : ~Writes(u[i], a)
      PROVE  e[a] = d[a]
    <2>1. \A i \in DOMAIN s : ~Writes(s[i], a)
        BY <1>0, <1>1
    <2>2. \A i \in DOMAIN t : ~Writes(t[i], a)
        BY <1>0, <1>1
    <2> QED BY <2>1, <2>2 DEF Takes
<1>2. ASSUME NEW a \in Artifacts, NEW i \in DOMAIN u, Writes(u[i], a),
             \A j \in DOMAIN u : j > i => ~Writes(u[j], a)
      PROVE  u[i].to = e[a]
    <2>1. CASE i > Len(s)
        <3>1. i - Len(s) \in DOMAIN t /\ u[i] = t[i - Len(s)]
            BY <1>0, <2>1
        <3>2. \A j \in DOMAIN t : j > i - Len(s) => ~Writes(t[j], a)
            BY <1>0, <1>2, <2>1
        <3> QED BY <1>2, <3>1, <3>2 DEF Takes
    <2>2. CASE i <= Len(s)
        <3>1. i \in DOMAIN s /\ u[i] = s[i]
            BY <1>0, <2>2
        <3>2. \A j \in DOMAIN s : j > i => ~Writes(s[j], a)
            BY <1>0, <1>2
        <3>3. s[i].to = m[a]
            BY <1>2, <3>1, <3>2 DEF Takes
        <3>4. \A j \in DOMAIN t : ~Writes(t[j], a)
            BY <1>0, <1>2, <2>2
        <3>5. e[a] = m[a]
            BY <3>4 DEF Takes
        <3> QED BY <3>1, <3>3, <3>5
    <2> QED BY <1>0, <2>1, <2>2
<1> QED BY <1>1, <1>2 DEF Takes, u

\* No steps leave everything where it is.
LEMMA TakesNothing ==
    ASSUME NEW d, NEW e
    PROVE  Takes(<<>>, d, e) <=> \A a \in Artifacts : e[a] = d[a]
BY DEF Takes

\* One write moves its artifact.
LEMMA TakesWrite ==
    ASSUME NEW a \in Artifacts, NEW x, NEW d, NEW e,
           \A b \in Artifacts : e[b] = IF b = a THEN x ELSE d[b]
    PROVE  Takes(<<Write(a, x)>>, d, e)
BY DEF Takes, Writes, Write

\* What is not a write moves none.
LEMMA TakesDo ==
    ASSUME NEW what, what # "write", NEW d PROVE Takes(<<Do(what)>>, d, d)
BY DEF Takes, Writes, Do

\* Steps that are taken on a condition.
LEMMA TakesWhen ==
    ASSUME NEW s, NEW d, NEW e, NEW c \in BOOLEAN,
           IF c THEN Takes(s, d, e) ELSE \A a \in Artifacts : e[a] = d[a]
    PROVE  Takes(When(c, s), d, e)
BY DEF Takes, When

\* The writes that undo lead back to the inventory.
LEMMA TakesBack ==
    ASSUME NEW done \in Seq(Artifacts), NEW d, NEW b,
           \A a \in Artifacts : d[a] # b[a] => \E i \in DOMAIN done : done[i] = a
    PROVE  Takes(UndoWrites(done, b), d, b)
<1>0. /\ Len(done) \in Nat /\ DOMAIN done = 1..Len(done)
      /\ DOMAIN UndoWrites(done, b) = 1..Len(done)
      /\ \A i \in 1..Len(done) :
            /\ UndoWrites(done, b)[i] = Write(done[Len(done) - i + 1], b[done[Len(done) - i + 1]])
            /\ Len(done) - i + 1 \in 1..Len(done)
    BY DEF UndoWrites, Reverse
<1>1. ASSUME NEW a \in Artifacts, \A i \in DOMAIN UndoWrites(done, b) : ~Writes(UndoWrites(done, b)[i], a)
      PROVE  b[a] = d[a]
    <2>1. ASSUME NEW i \in DOMAIN done, done[i] = a PROVE FALSE
        <3>1. Len(done) - i + 1 \in 1..Len(done) /\ Len(done) - (Len(done) - i + 1) + 1 = i
            BY <1>0
        <3>2. Writes(UndoWrites(done, b)[Len(done) - i + 1], a)
            BY <1>0, <2>1, <3>1 DEF Write, Writes
        <3> QED BY <1>0, <1>1, <3>1, <3>2
    <2> QED BY <2>1
<1>2. ASSUME NEW a \in Artifacts, NEW i \in DOMAIN UndoWrites(done, b), Writes(UndoWrites(done, b)[i], a)
      PROVE  UndoWrites(done, b)[i].to = b[a]
    BY <1>0, <1>2 DEF Write, Writes
<1> QED BY <1>1, <1>2 DEF Takes

\* The rest of a list whose steps belong to an operation and are in its order.
LEMMA OrderTail ==
    ASSUME NEW S, NEW s \in Seq(S), s # <<>>, NEW kind, InOrder(kind, s), AllBelong(kind, s)
    PROVE  /\ InOrder(kind, Tail(s)) /\ AllBelong(kind, Tail(s)) /\ Belongs(kind, Head(s))
           /\ \A j \in DOMAIN Tail(s) : Goes(kind, Head(s), Tail(s)[j])
<1>0. /\ Head(s) = s[1] /\ 1 \in DOMAIN s
      /\ \A i \in DOMAIN Tail(s) : i + 1 \in DOMAIN s /\ i + 1 > 1 /\ Tail(s)[i] = s[i + 1]
      /\ DOMAIN s \subseteq Nat /\ DOMAIN Tail(s) \subseteq Nat
    BY ListTail
<1>1. \A i, j \in DOMAIN Tail(s) : i < j => i + 1 < j + 1
    BY <1>0
<1> QED BY <1>0, <1>1 DEF InOrder, AllBelong

\* One list after another.
LEMMA OrderJoin ==
    ASSUME NEW S, NEW s \in Seq(S), NEW t \in Seq(S), NEW kind,
           InOrder(kind, s), AllBelong(kind, s), InOrder(kind, t), AllBelong(kind, t),
           \A i \in DOMAIN s, j \in DOMAIN t : Goes(kind, s[i], t[j])
    PROVE  InOrder(kind, s \o t) /\ AllBelong(kind, s \o t)
<1> DEFINE u == s \o t
<1>0. /\ \A i \in DOMAIN u :
                \/ i \in DOMAIN s /\ u[i] = s[i]
                \/ /\ i - Len(s) \in DOMAIN t /\ i > Len(s) /\ u[i] = t[i - Len(s)]
      /\ Len(s) \in Nat /\ DOMAIN s = 1..Len(s) /\ DOMAIN t = 1..Len(t) /\ Len(t) \in Nat
      /\ DOMAIN u = 1..Len(s) + Len(t)
    BY ListJoin
<1> HIDE DEF u
<1>1. ASSUME NEW i \in DOMAIN u, NEW j \in DOMAIN u, i < j
      PROVE  Goes(kind, u[i], u[j])
    <2>1. CASE i > Len(s)
        <3>1. /\ i - Len(s) \in DOMAIN t /\ u[i] = t[i - Len(s)]
              /\ j - Len(s) \in DOMAIN t /\ u[j] = t[j - Len(s)]
              /\ i - Len(s) < j - Len(s)
            BY <1>0, <1>1, <2>1
        <3> QED BY <3>1 DEF InOrder
    <2>2. CASE j <= Len(s)
        BY <1>0, <1>1, <2>2 DEF InOrder
    <2>3. CASE i <= Len(s) /\ j > Len(s)
        BY <1>0, <1>1, <2>3
    <2> QED BY <1>0, <2>1, <2>2, <2>3
<1>2. \A i \in DOMAIN u : Belongs(kind, u[i])
    BY <1>0 DEF AllBelong
<1> QED BY <1>1, <1>2 DEF InOrder, AllBelong, u

\* A step is the first one or among the rest.
LEMMA HasTail ==
    ASSUME NEW S, NEW s \in Seq(S), s # <<>>, NEW x
    PROVE  Has(s, x) <=> (Head(s).does = x \/ Has(Tail(s), x))
<1>0. /\ Head(s) = s[1] /\ 1 \in DOMAIN s
      /\ \A i \in DOMAIN Tail(s) : i + 1 \in DOMAIN s /\ i + 1 > 1 /\ Tail(s)[i] = s[i + 1]
      /\ \A i \in DOMAIN s : i = 1 \/ (i - 1 \in DOMAIN Tail(s) /\ Tail(s)[i - 1] = s[i])
    BY ListTail
<1>1. ASSUME NEW i \in DOMAIN s, s[i].does = x
      PROVE  Head(s).does = x \/ Has(Tail(s), x)
    BY <1>0, <1>1 DEF Has
<1>2. ASSUME NEW i \in DOMAIN Tail(s), Tail(s)[i].does = x
      PROVE  Has(s, x)
    BY <1>0, <1>2 DEF Has
<1>3. Head(s).does = x => Has(s, x)
    BY <1>0 DEF Has
<1> QED BY <1>1, <1>2, <1>3 DEF Has

\* A step of two lists is in one of them.
LEMMA HasJoin ==
    ASSUME NEW S, NEW s \in Seq(S), NEW t \in Seq(S), NEW x
    PROVE  Has(s \o t, x) <=> (Has(s, x) \/ Has(t, x))
<1>0. /\ \A i \in DOMAIN s : i \in DOMAIN (s \o t) /\ (s \o t)[i] = s[i]
      /\ \A i \in DOMAIN t : Len(s) + i \in DOMAIN (s \o t) /\ (s \o t)[Len(s) + i] = t[i]
      /\ \A i \in DOMAIN (s \o t) :
                \/ i \in DOMAIN s /\ (s \o t)[i] = s[i]
                \/ /\ i - Len(s) \in DOMAIN t /\ i > Len(s) /\ (s \o t)[i] = t[i - Len(s)]
    BY ListJoin
<1>1. ASSUME NEW i \in DOMAIN (s \o t), (s \o t)[i].does = x
      PROVE  Has(s, x) \/ Has(t, x)
    BY <1>0, <1>1 DEF Has
<1>2. ASSUME NEW i \in DOMAIN s, s[i].does = x
      PROVE  Has(s \o t, x)
    BY <1>0, <1>2 DEF Has
<1>3. ASSUME NEW i \in DOMAIN t, t[i].does = x
      PROVE  Has(s \o t, x)
    BY <1>0, <1>3 DEF Has
<1> QED BY <1>1, <1>2, <1>3 DEF Has

\* The rest of a restoration.
LEMMA StopFirstTail ==
    ASSUME NEW S, NEW s \in Seq(S), s # <<>>, StopFirst(s)
    PROVE  /\ StopFirst(Tail(s)) /\ ~Has(Tail(s), "stop")
           /\ Head(s).does = "start" => Tail(s) = <<>>
<1>0. /\ Head(s) = s[1] /\ 1 \in DOMAIN s /\ Tail(s) \in Seq(S)
      /\ \A i \in DOMAIN Tail(s) : i + 1 \in DOMAIN s /\ i + 1 > 1 /\ Tail(s)[i] = s[i + 1]
      /\ DOMAIN s \subseteq Nat /\ DOMAIN Tail(s) \subseteq Nat
    BY ListTail
<1>1. \A i, j \in DOMAIN Tail(s) : i < j => i + 1 < j + 1
    BY <1>0
<1>2. StopFirst(Tail(s)) /\ ~Has(Tail(s), "stop")
    BY <1>0, <1>1 DEF StopFirst, Has
<1>3. Head(s).does = "start" => DOMAIN Tail(s) = {}
    BY <1>0 DEF StopFirst
<1>4. DOMAIN Tail(s) = {} => Tail(s) = <<>>
    BY <1>0
<1> QED BY <1>2, <1>3, <1>4

\* The restoration: stop, writes, start.
LEMMA StopFirstJoin ==
    ASSUME NEW S, NEW s \in Seq(S), NEW t \in Seq(S), StopFirst(s), StopFirst(t),
           ~Has(s, "start"), ~Has(t, "stop")
    PROVE  StopFirst(s \o t)
<1> DEFINE u == s \o t
<1>0. /\ \A i \in DOMAIN u :
                \/ i \in DOMAIN s /\ u[i] = s[i]
                \/ /\ i - Len(s) \in DOMAIN t /\ i > Len(s) /\ u[i] = t[i - Len(s)]
      /\ Len(s) \in Nat /\ DOMAIN s = 1..Len(s) /\ DOMAIN t = 1..Len(t) /\ Len(t) \in Nat
      /\ DOMAIN u = 1..Len(s) + Len(t)
    BY ListJoin
<1> HIDE DEF u
<1>1. ASSUME NEW i \in DOMAIN u, NEW j \in DOMAIN u, i < j
      PROVE  u[j].does # "stop" /\ u[i].does # "start"
    <2>1. CASE i > Len(s)
        <3>1. /\ i - Len(s) \in DOMAIN t /\ u[i] = t[i - Len(s)]
              /\ j - Len(s) \in DOMAIN t /\ u[j] = t[j - Len(s)]
              /\ i - Len(s) < j - Len(s)
            BY <1>0, <1>1, <2>1
        <3> QED BY <3>1 DEF StopFirst
    <2>2. CASE j <= Len(s)
        BY <1>0, <1>1, <2>2 DEF StopFirst
    <2>3. CASE i <= Len(s) /\ j > Len(s)
        BY <1>0, <1>1, <2>3 DEF Has
    <2> QED BY <1>0, <2>1, <2>2, <2>3
<1> QED BY <1>1 DEF StopFirst, u

\* Disks are functions on the artifacts.
LEMMA DisksAre ==
    ASSUME NEW d \in Disks
    PROVE  /\ \A a \in Artifacts : d[a] \in Of(a)
           /\ \A e \in Disks : (\A a \in Artifacts : e[a] = d[a]) => e = d
           /\ \A a \in Artifacts : \A x \in Of(a) : [d EXCEPT ![a] = x] \in Disks
           /\ DOMAIN d = Artifacts
BY DEF Disks, Artifacts, Nothing, Of

\* What the steps are made of.
LEMMA StepsAre ==
    /\ \A a \in Artifacts : \A x \in Of(a) : Write(a, x) \in Steps
    /\ \A w \in Doings : Do(w) \in Steps
    /\ \A s \in Steps : \/ s.does = "write" /\ s.what \in Artifacts /\ s.to \in Of(s.what)
                        \/ s.does \in Doings /\ s.does # "write"
<1>1. ASSUME NEW a \in Artifacts, NEW x \in Of(a) PROVE Write(a, x) \in Steps
    <2>1. Write(a, x) \in [does : {"write"}, what : {a}, to : Of(a)]
        BY DEF Write
    <2> QED BY <2>1, Zenon DEF Steps
<1>2. \A w \in Doings : Do(w) \in Steps
    BY DEF Steps, Do
<1>3. ASSUME NEW s \in Steps
      PROVE  \/ s.does = "write" /\ s.what \in Artifacts /\ s.to \in Of(s.what)
             \/ s.does \in Doings /\ s.does # "write"
    <2>1. CASE s \in [does : Doings, what : {None}, to : {None}]
        BY <2>1 DEF Doings
    <2>2. ASSUME NEW a \in Artifacts, s \in [does : {"write"}, what : {a}, to : Of(a)]
          PROVE  s.does = "write" /\ s.what \in Artifacts /\ s.to \in Of(s.what)
        BY <2>2
    <2> QED BY <2>1, <2>2 DEF Steps
<1> QED BY <1>1, <1>2, <1>3

\* Every step of a list is one of those.
Among(s, X) == \A i \in DOMAIN s : s[i] \in X

\* The steps of two lists are those of either.
LEMMA AmongJoin ==
    ASSUME NEW S, NEW s \in Seq(S), NEW t \in Seq(S), NEW X, Among(s, X), Among(t, X)
    PROVE  Among(s \o t, X)
<1>0. \A i \in DOMAIN (s \o t) :
                \/ i \in DOMAIN s /\ (s \o t)[i] = s[i]
                \/ /\ i - Len(s) \in DOMAIN t /\ i > Len(s) /\ (s \o t)[i] = t[i - Len(s)]
    BY ListJoin
<1> QED BY <1>0 DEF Among

\* Steps taken on a condition are those, or none.
LEMMA WhenIs ==
    ASSUME NEW S, NEW s \in Seq(S), NEW c \in BOOLEAN
    PROVE  /\ When(c, s) \in Seq(S)
           /\ \A X : Among(s, X) => Among(When(c, s), X)
           /\ \A x : Has(When(c, s), x) <=> (c /\ Has(s, x))
BY DEF When, Among, Has

\* The backup of what is installed.
LEMMA BackupLeads ==
    ASSUME NEW d \in Disks, d.binary # None
    PROVE  /\ PrepareRollback(d) \in Seq(Steps)
           /\ Among(PrepareRollback(d), {s \in Steps : s.does = "write" /\ s.what \in {"oldBinary", "oldSkill", "manifest"}})
           /\ Takes(PrepareRollback(d), d,
                    [d EXCEPT !.oldBinary = d.binary, !.oldSkill = d.skill, !.manifest = Installed(d)])
<1> DEFINE X == {s \in Steps : s.does = "write" /\ s.what \in {"oldBinary", "oldSkill", "manifest"}}
           d1 == [d EXCEPT !.oldBinary = d.binary]
           d2 == [d EXCEPT !.oldBinary = d.binary, !.oldSkill = d.skill]
           d3 == [d EXCEPT !.oldBinary = d.binary, !.oldSkill = d.skill, !.manifest = Installed(d)]
           p == <<Write("oldBinary", d.binary)>>
           q == <<Write("oldSkill", d.skill)>>
           w == When(d.skill # None \/ d.oldSkill # None, q)
           r == <<Write("manifest", Installed(d))>>
<1>1. /\ Write("oldBinary", d.binary) \in X /\ Write("oldSkill", d.skill) \in X
      /\ Write("manifest", Installed(d)) \in X
    <2>1. /\ d.binary \in Of("oldBinary") /\ d.skill \in Of("oldSkill") /\ Installed(d) \in Of("manifest")
          /\ {"oldBinary", "oldSkill", "manifest"} \subseteq Artifacts
        BY DEF Disks, Of, Installed, Pairs, Artifacts, Nothing
    <2> QED BY <2>1, StepsAre DEF Write
<1>2. p \in Seq(Steps) /\ q \in Seq(Steps) /\ r \in Seq(Steps) /\ Among(p, X) /\ Among(q, X) /\ Among(r, X)
    BY <1>1 DEF Among
<1>3. w \in Seq(Steps) /\ Among(w, X)
    BY <1>2, WhenIs
<1>4. p \o w \in Seq(Steps) /\ Among(p \o w, X)
    BY <1>2, <1>3, AmongJoin, ListJoin
<1>5. (p \o w) \o r \in Seq(Steps) /\ Among((p \o w) \o r, X)
    BY <1>2, <1>4, AmongJoin, ListJoin
<1>6. Takes(p, d, d1)
    BY TakesWrite DEF Disks, Artifacts, Nothing
<1>7. Takes(w, d1, d2)
    <2>1. Takes(q, d1, d2)
        BY TakesWrite DEF Disks, Artifacts, Nothing
    <2>2. ~(d.skill # None \/ d.oldSkill # None) => \A a \in Artifacts : d2[a] = d1[a]
        BY DEF Disks, Artifacts, Nothing
    <2> QED BY <2>1, <2>2, TakesWhen
<1>8. Takes(r, d2, d3)
    BY TakesWrite DEF Disks, Artifacts, Nothing
<1>9. Takes((p \o w) \o r, d, d3)
    BY <1>2, <1>3, <1>4, <1>6, <1>7, <1>8, TakesJoin
<1> QED BY <1>5, <1>9 DEF PrepareRollback

\* The steps of an installation lead to one, and are in its order.
LEMMA InstallSuits ==
    ASSUME NEW d \in Disks, NEW v \in Versions, NEW c \in Configs, NEW start \in BOOLEAN
    PROVE  LET s == InstallSteps(d, v, c, start)
           IN /\ s \in Seq(Steps) /\ InOrder("install", s) /\ AllBelong("install", s)
              /\ \E e \in Disks : /\ Takes(s, d, e) /\ Completes("install", d, e)
                                  /\ SaysStarted(e) => Has(s, "start")
              /\ \E i \in DOMAIN s : s[i] = Write("receipt", "installing")
<1> DEFINE Before == {s \in Steps : /\ s.does = "write" /\ s.what \notin {"skill", "launcher"}
                                    /\ \/ s.what \in {"oldBinary", "oldSkill", "manifest"}
                                       \/ s.to # None}
           Skill == {Write("skill", v)}
           last == IF start THEN "start_pending" ELSE "installed_not_started"
           Closing == {Write("launcher", "whole"), Write("receipt", last)}
           Starting == {Do("start"), Do("smoke"), Write("receipt", "started")}
           p == When(d.binary # None, PrepareRollback(d))
           q == <<Write("config", c), Write("receipt", "installing"), Write("binary", v)>>
           w == When(WritesSkill(d), <<Write("skill", v)>>)
           r == <<Write("launcher", "whole"), Write("receipt", last)>>
           t == When(start, <<Do("start"), Do("smoke"), Write("receipt", "started")>>)
           d1 == IF d.binary # None
                 THEN [d EXCEPT !.oldBinary = d.binary, !.oldSkill = d.skill, !.manifest = Installed(d)]
                 ELSE d
           d2 == [d1 EXCEPT !.config = c, !.receipt = "installing", !.binary = v]
           d3 == [d2 EXCEPT !.skill = IF WritesSkill(d) THEN v ELSE d.skill]
           d4 == [d3 EXCEPT !.launcher = "whole", !.receipt = last]
           d5 == [d4 EXCEPT !.receipt = IF start THEN "started" ELSE last]
<1>0. InstallSteps(d, v, c, start) = (((p \o q) \o w) \o r) \o t
    BY DEF InstallSteps
<1>1. /\ Write("config", c) \in Steps /\ Write("receipt", "installing") \in Steps
      /\ Write("binary", v) \in Steps /\ Write("skill", v) \in Steps
      /\ Write("launcher", "whole") \in Steps /\ Write("receipt", last) \in Steps
      /\ Do("start") \in Steps /\ Do("smoke") \in Steps /\ Write("receipt", "started") \in Steps
    <2>1. /\ c \in Of("config") /\ v \in Of("binary") /\ v \in Of("skill") /\ "whole" \in Of("launcher")
          /\ {"installing", last, "started"} \subseteq Of("receipt")
          /\ {"config", "receipt", "binary", "skill", "launcher"} \subseteq Artifacts
          /\ {"start", "smoke"} \subseteq Doings
        BY DEF Of, Receipts, Artifacts, Nothing, Doings
    <2> QED BY <2>1, StepsAre
<1>2. v # None /\ c # None /\ \A x \in Receipts : x # None
    BY ServiceAssumption
<1>3. p \in Seq(Steps) /\ Among(p, Before) /\ Takes(p, d, d1) /\ d1 \in Disks
    <2>1. CASE d.binary # None
        <3>1. PrepareRollback(d) \in Seq(Steps) /\ Among(PrepareRollback(d), Before)
            BY <2>1, BackupLeads DEF Among
        <3>2. d1 \in Disks
            <4>1. Installed(d) \in Pairs
                BY <2>1 DEF Disks, Of, Installed, Pairs
            <4> QED BY <4>1, <2>1 DEF Disks, Of
        <3> QED BY <2>1, <3>1, <3>2, BackupLeads, TakesWhen, WhenIs DEF When
    <2>2. CASE d.binary = None
        BY <2>2, TakesNothing DEF When, Among
    <2> QED BY <2>1, <2>2
<1>4. q \in Seq(Steps) /\ Among(q, Before) /\ Takes(q, d1, d2) /\ d2 \in Disks
    <2>1. /\ Write("config", c) \in Before /\ Write("receipt", "installing") \in Before
          /\ Write("binary", v) \in Before
        BY <1>1, <1>2 DEF Write, Receipts
    <2>2. q \in Seq(Steps) /\ Among(q, Before)
        BY <1>1, <2>1 DEF Among
    <2>3. d2 \in Disks
        BY <1>3 DEF Disks, Of, Receipts
    <2>4. Takes(q, d1, d2)
        <3>1. /\ DOMAIN q = 1..3 /\ q[1] = Write("config", c) /\ q[2] = Write("receipt", "installing")
              /\ q[3] = Write("binary", v)
            OBVIOUS
        <3>2. /\ \A a \in Artifacts : Writes(q[1], a) <=> a = "config"
              /\ \A a \in Artifacts : Writes(q[2], a) <=> a = "receipt"
              /\ \A a \in Artifacts : Writes(q[3], a) <=> a = "binary"
            BY <3>1 DEF Writes, Write
        <3>3. q[1].to = c /\ q[2].to = "installing" /\ q[3].to = v
            BY <3>1 DEF Write
        <3>4. /\ d2["config"] = c /\ d2["receipt"] = "installing" /\ d2["binary"] = v
              /\ \A a \in Artifacts : a \notin {"config", "receipt", "binary"} => d2[a] = d1[a]
            BY <1>3 DEF Disks, Artifacts, Nothing
        <3> HIDE DEF q, d2
        <3>5. 1..3 = {1, 2, 3}
            OBVIOUS
        <3> QED BY <3>1, <3>2, <3>3, <3>4, <3>5 DEF Takes
    <2> QED BY <2>2, <2>3, <2>4
<1>5. w \in Seq(Steps) /\ Among(w, Skill) /\ Takes(w, d2, d3) /\ d3 \in Disks
    <2>1. WritesSkill(d) \in BOOLEAN
        BY DEF WritesSkill
    <2>2. <<Write("skill", v)>> \in Seq(Steps) /\ Among(<<Write("skill", v)>>, Skill)
        BY <1>1 DEF Among
    <2>3. d3 \in Disks
        BY <1>4 DEF Disks, Of
    <2>4. WritesSkill(d) => Takes(<<Write("skill", v)>>, d2, d3)
        BY <1>4, TakesWrite DEF Disks, Artifacts, Nothing
    <2>5. ~WritesSkill(d) => \A a \in Artifacts : d3[a] = d2[a]
        BY <1>4 DEF Disks, Artifacts, Nothing
    <2> QED BY <2>1, <2>2, <2>3, <2>4, <2>5, TakesWhen, WhenIs
<1>6. r \in Seq(Steps) /\ Among(r, Closing) /\ Takes(r, d3, d4) /\ d4 \in Disks
    <2>1. r \in Seq(Steps) /\ Among(r, Closing)
        BY <1>1 DEF Among
    <2>2. d4 \in Disks
        <3>1. "whole" \in Of("launcher") /\ last \in Of("receipt")
            BY DEF Of, Receipts
        <3> HIDE DEF d3
        <3> QED BY <1>5, <3>1 DEF Disks
    <2>3. Takes(r, d3, d4)
        <3>1. DOMAIN r = {1, 2} /\ r[1] = Write("launcher", "whole") /\ r[2] = Write("receipt", last)
            OBVIOUS
        <3>2. /\ \A a \in Artifacts : Writes(r[1], a) <=> a = "launcher"
              /\ \A a \in Artifacts : Writes(r[2], a) <=> a = "receipt"
            BY <3>1 DEF Writes, Write
        <3>3. r[1].to = "whole" /\ r[2].to = last
            BY <3>1 DEF Write
        <3>4. /\ d4["launcher"] = "whole" /\ d4["receipt"] = last
              /\ \A a \in Artifacts : a \notin {"launcher", "receipt"} => d4[a] = d3[a]
            BY <1>5 DEF Disks, Artifacts, Nothing
        <3> HIDE DEF r, d3, d4
        <3> QED BY <3>1, <3>2, <3>3, <3>4 DEF Takes
    <2> QED BY <2>1, <2>2, <2>3
<1>7. t \in Seq(Steps) /\ Among(t, Starting) /\ Takes(t, d4, d5) /\ d5 \in Disks /\ (start => Has(t, "start"))
    <2> DEFINE x == <<Do("start"), Do("smoke"), Write("receipt", "started")>>
    <2>1. x \in Seq(Steps) /\ Among(x, Starting)
        BY <1>1 DEF Among
    <2>2. Has(x, "start")
        <3>1. 1 \in DOMAIN x /\ x[1].does = "start"
            BY DEF Do
        <3> QED BY <3>1 DEF Has
    <2>3. d5 \in Disks
        <3>1. "started" \in Of("receipt") /\ last \in Of("receipt")
            BY DEF Of, Receipts
        <3> HIDE DEF d4
        <3> QED BY <1>6, <3>1 DEF Disks
    <2>4. start => Takes(x, d4, d5)
        <3>1. /\ DOMAIN x = 1..3 /\ x[1] = Do("start") /\ x[2] = Do("smoke")
              /\ x[3] = Write("receipt", "started") /\ 1..3 = {1, 2, 3}
            OBVIOUS
        <3>2. /\ \A a \in Artifacts : ~Writes(x[1], a) /\ ~Writes(x[2], a)
              /\ \A a \in Artifacts : Writes(x[3], a) <=> a = "receipt"
            BY <3>1 DEF Writes, Write, Do
        <3>3. x[3].to = "started"
            BY <3>1 DEF Write
        <3>4. start => /\ d5["receipt"] = "started"
                       /\ \A a \in Artifacts : a # "receipt" => d5[a] = d4[a]
            BY <1>6 DEF Disks, Artifacts, Nothing
        <3> HIDE DEF x, d4, d5
        <3> QED BY <3>1, <3>2, <3>3, <3>4 DEF Takes
    <2>5. ~start => \A a \in Artifacts : d5[a] = d4[a]
        BY <1>6 DEF Disks, Artifacts, Nothing
    <2>6. t = When(start, x)
        OBVIOUS
    <2> HIDE DEF x, t, Starting, d4, d5
    <2> QED BY <2>6, <2>1, <2>2, <2>3, <2>4, <2>5, TakesWhen, WhenIs
<1>8. p \o q \in Seq(Steps) /\ (p \o q) \o w \in Seq(Steps) /\ ((p \o q) \o w) \o r \in Seq(Steps)
      /\ (((p \o q) \o w) \o r) \o t \in Seq(Steps)
    BY <1>3, <1>4, <1>5, <1>6, <1>7, ListJoin
<1>9. /\ Among(p \o q, Before) /\ Among((p \o q) \o w, Before \cup Skill)
      /\ Among(((p \o q) \o w) \o r, Before \cup Skill \cup Closing)
    <2>1. Among(p \o q, Before)
        BY <1>3, <1>4, AmongJoin
    <2>2. Among((p \o q) \o w, Before \cup Skill)
        <3>1. Among(p \o q, Before \cup Skill) /\ Among(w, Before \cup Skill)
            BY <1>5, <2>1 DEF Among
        <3> QED BY <3>1, <1>5, <1>8, AmongJoin
    <2>3. Among(((p \o q) \o w) \o r, Before \cup Skill \cup Closing)
        <3>1. Among((p \o q) \o w, Before \cup Skill \cup Closing) /\ Among(r, Before \cup Skill \cup Closing)
            BY <1>6, <2>2 DEF Among
        <3> QED BY <3>1, <1>6, <1>8, AmongJoin
    <2> QED BY <2>1, <2>2, <2>3
<1>10. Takes((((p \o q) \o w) \o r) \o t, d, d5)
    <2> HIDE DEF Before, Skill, Closing, Starting, p, q, w, r, t, d1, d2, d3, d4, d5
    <2>1. Takes(p \o q, d, d2)
        BY <1>3, <1>4, TakesJoin
    <2>2. Takes((p \o q) \o w, d, d3)
        BY <2>1, <1>5, <1>8, TakesJoin
    <2>3. Takes(((p \o q) \o w) \o r, d, d4)
        BY <2>2, <1>6, <1>8, TakesJoin
    <2> QED BY <2>3, <1>7, <1>8, TakesJoin
\* What may follow what.
<1>11. /\ \A x \in Before, y \in Before \cup Skill \cup Closing \cup Starting : Goes("install", x, y)
       /\ \A x \in Skill, y \in Skill \cup Closing \cup Starting : Goes("install", x, y)
       /\ \A x \in Starting, y \in Starting : Goes("install", x, y)
       /\ \A x \in Closing, y \in Starting : Goes("install", x, y)
    BY DEF Goes, Writes, Write, Do
<1>12. /\ \A x \in Before \cup Skill \cup Closing \cup Starting : Belongs("install", x)
    <2>1. v # None /\ last # None /\ "started" # None
        BY <1>2 DEF Receipts
    <2> QED BY <2>1 DEF Belongs, Write, Do
<1>13. InOrder("install", p) /\ InOrder("install", q) /\ InOrder("install", w) /\ InOrder("install", t)
    BY <1>3, <1>4, <1>5, <1>7, <1>11 DEF Among, InOrder
<1>14. AllBelong("install", p) /\ AllBelong("install", q) /\ AllBelong("install", w)
       /\ AllBelong("install", r) /\ AllBelong("install", t)
    BY <1>3, <1>4, <1>5, <1>6, <1>7, <1>12 DEF Among, AllBelong
<1>15. InOrder("install", r)
    <2>1. DOMAIN r = {1, 2} /\ r[1] = Write("launcher", "whole") /\ r[2] = Write("receipt", last)
        OBVIOUS
    <2>2. Goes("install", Write("launcher", "whole"), Write("receipt", last))
        BY DEF Goes, Writes, Write
    <2> HIDE DEF r
    <2> QED BY <2>1, <2>2 DEF InOrder
<1>16. InOrder("install", (((p \o q) \o w) \o r) \o t) /\ AllBelong("install", (((p \o q) \o w) \o r) \o t)
    <2> HIDE DEF Before, Skill, Closing, Starting, p, q, w, r, t
    <2>1. InOrder("install", p \o q) /\ AllBelong("install", p \o q)
        BY <1>3, <1>4, <1>11, <1>13, <1>14, OrderJoin DEF Among
    <2>2. InOrder("install", (p \o q) \o w) /\ AllBelong("install", (p \o q) \o w)
        BY <1>5, <1>8, <1>9, <1>11, <1>13, <1>14, <2>1, OrderJoin DEF Among
    <2>3. InOrder("install", ((p \o q) \o w) \o r) /\ AllBelong("install", ((p \o q) \o w) \o r)
        BY <1>6, <1>8, <1>9, <1>11, <1>14, <1>15, <2>2, OrderJoin DEF Among
    <2> QED BY <1>7, <1>8, <1>9, <1>11, <1>13, <1>14, <2>3, OrderJoin DEF Among
<1>17. Completes("install", d, d5)
    <2>1. WritesSkill(d) \/ d.skill = None
        BY DEF WritesSkill
    <2>2. /\ d5.binary = v /\ d5.skill = (IF WritesSkill(d) THEN v ELSE d.skill) /\ d5.config = c
          /\ d5.launcher = "whole" /\ d5.receipt = (IF start THEN "started" ELSE last)
          /\ d5.manifest = d1.manifest /\ d5.oldBinary = d1.oldBinary /\ d5.oldSkill = d1.oldSkill
        BY <1>3 DEF Disks
    <2>3. IF d.binary # None
          THEN d1.manifest = Installed(d) /\ d1.oldBinary = d.binary /\ d1.oldSkill = d.skill
          ELSE d1 = d
        BY DEF Disks
    <2> HIDE DEF d1, d5
    <2> QED BY <1>2, <2>1, <2>2, <2>3 DEF Completes
<1>18. SaysStarted(d5) => Has((((p \o q) \o w) \o r) \o t, "start")
    <2>1. d5.receipt = (IF start THEN "started" ELSE "installed_not_started")
        BY <1>6 DEF Disks
    <2>2. SaysStarted(d5) => start
        BY <2>1 DEF SaysStarted
    <2> HIDE DEF p, q, w, r, t, d5
    <2> QED BY <1>7, <1>8, <2>2, HasJoin
<1>19. \E i \in DOMAIN ((((p \o q) \o w) \o r) \o t) : ((((p \o q) \o w) \o r) \o t)[i] = Write("receipt", "installing")
    <2>1. 2 \in DOMAIN q /\ q[2] = Write("receipt", "installing")
        OBVIOUS
    <2> HIDE DEF Before, Skill, Closing, Starting, p, q, w, r, t, d1, d2, d3, d4, d5
    <2>2. \E i \in DOMAIN (p \o q) : (p \o q)[i] = Write("receipt", "installing")
        <3>1. p \in Seq(Steps) /\ q \in Seq(Steps)
            BY <1>3, <1>4
        <3>2. \A i \in DOMAIN q : Len(p) + i \in DOMAIN (p \o q) /\ (p \o q)[Len(p) + i] = q[i]
            BY <3>1, ListJoin
        <3> QED BY <2>1, <3>2
    <2>3. \E i \in DOMAIN ((p \o q) \o w) : ((p \o q) \o w)[i] = Write("receipt", "installing")
        BY <2>2, <1>5, <1>8, ListJoin
    <2>4. \E i \in DOMAIN (((p \o q) \o w) \o r) : (((p \o q) \o w) \o r)[i] = Write("receipt", "installing")
        BY <2>3, <1>6, <1>8, ListJoin
    <2> QED BY <2>4, <1>7, <1>8, ListJoin
<1> HIDE DEF p, q, w, r, t, d5
<1> QED BY <1>0, <1>7, <1>8, <1>10, <1>16, <1>17, <1>18, <1>19

\* The steps of a rollback lead to what the manifest names.
LEMMA RollbackSuits ==
    ASSUME NEW d \in Disks, d.manifest \in Pairs
    PROVE  LET s == RollbackSteps(d)
           IN /\ s \in Seq(Steps) /\ InOrder("rollback", s) /\ AllBelong("rollback", s)
              /\ \E e \in Disks : Takes(s, d, e) /\ Completes("rollback", d, e) /\ ~SaysStarted(e)
<1> DEFINE p == <<Do("stop")>>
           q == <<Write("skill", d.manifest.skill)>>
           w == When(d.manifest.skill # None \/ d.skill # None, q)
           r == <<Write("binary", d.manifest.binary), Do("start"), Do("ready"), Do("fingerprints"),
                  Write("receipt", "rolled_back")>>
           d1 == [d EXCEPT !.skill = d.manifest.skill]
           d2 == [d EXCEPT !.binary = d.manifest.binary, !.skill = d.manifest.skill,
                           !.receipt = "rolled_back"]
           Skill == {Write("skill", d.manifest.skill)}
           Rest == {Write("binary", d.manifest.binary), Do("start"), Do("ready"), Do("fingerprints"),
                    Write("receipt", "rolled_back")}
<1>0. RollbackSteps(d) = (p \o w) \o r
    BY DEF RollbackSteps
<1>1. d.manifest.binary \in Versions /\ d.manifest.skill \in {None} \cup Versions /\ d.manifest.binary # None
    BY ServiceAssumption DEF Pairs
<1>2. /\ Do("stop") \in Steps /\ Write("skill", d.manifest.skill) \in Steps
      /\ Write("binary", d.manifest.binary) \in Steps /\ Do("start") \in Steps /\ Do("ready") \in Steps
      /\ Do("fingerprints") \in Steps /\ Write("receipt", "rolled_back") \in Steps
    <2>1. /\ d.manifest.binary \in Of("binary") /\ d.manifest.skill \in Of("skill")
          /\ "rolled_back" \in Of("receipt")
          /\ {"receipt", "binary", "skill"} \subseteq Artifacts
          /\ {"stop", "start", "ready", "fingerprints"} \subseteq Doings
        BY <1>1 DEF Of, Receipts, Artifacts, Nothing, Doings
    <2> QED BY <2>1, StepsAre
<1>3. p \in Seq(Steps) /\ q \in Seq(Steps) /\ r \in Seq(Steps)
    BY <1>2
<1>4. w \in Seq(Steps) /\ Among(w, Skill) /\ Among(r, Rest)
    <2>1. Among(q, Skill) /\ Among(r, Rest)
        BY DEF Among
    <2> QED BY <1>3, <2>1, WhenIs
<1>5. d1 \in Disks /\ d2 \in Disks
    BY <1>1 DEF Disks, Of, Receipts
<1>6. Takes(p, d, d)
    BY TakesDo
<1>7. Takes(w, d, d1)
    <2>1. Takes(q, d, d1)
        BY TakesWrite DEF Disks, Artifacts, Nothing
    <2>2. ~(d.manifest.skill # None \/ d.skill # None) => \A a \in Artifacts : d1[a] = d[a]
        BY DEF Disks, Artifacts, Nothing
    <2> QED BY <2>1, <2>2, TakesWhen
<1>8. Takes(r, d1, d2)
    <2>1. /\ DOMAIN r = 1..5 /\ r[1] = Write("binary", d.manifest.binary) /\ r[2] = Do("start")
          /\ r[3] = Do("ready") /\ r[4] = Do("fingerprints") /\ r[5] = Write("receipt", "rolled_back")
          /\ 1..5 = {1, 2, 3, 4, 5}
        OBVIOUS
    <2>2. /\ \A a \in Artifacts : Writes(r[1], a) <=> a = "binary"
          /\ \A a \in Artifacts : ~Writes(r[2], a) /\ ~Writes(r[3], a) /\ ~Writes(r[4], a)
          /\ \A a \in Artifacts : Writes(r[5], a) <=> a = "receipt"
          /\ r[1].to = d.manifest.binary /\ r[5].to = "rolled_back"
        BY <2>1 DEF Writes, Write, Do
    <2>3. /\ d2["binary"] = d.manifest.binary /\ d2["receipt"] = "rolled_back"
          /\ \A a \in Artifacts : a \notin {"binary", "receipt"} => d2[a] = d1[a]
        BY DEF Disks, Artifacts, Nothing
    <2> HIDE DEF r, d1, d2
    <2> QED BY <2>1, <2>2, <2>3 DEF Takes
<1>9. /\ p \o w \in Seq(Steps) /\ (p \o w) \o r \in Seq(Steps) /\ Takes((p \o w) \o r, d, d2)
    <2> HIDE DEF p, w, r, d1, d2, Skill, Rest
    <2>1. p \o w \in Seq(Steps) /\ Takes(p \o w, d, d1)
        BY <1>3, <1>4, <1>6, <1>7, ListJoin, TakesJoin
    <2> QED BY <1>3, <1>8, <2>1, ListJoin, TakesJoin
<1>10. /\ \A x \in {Do("stop")} \cup Skill, y \in Skill \cup Rest : Goes("rollback", x, y)
       /\ \A x \in {Do("stop")} \cup Skill \cup Rest : Belongs("rollback", x)
    BY <1>1 DEF Goes, Belongs, Writes, Write, Do
<1>11. InOrder("rollback", p) /\ InOrder("rollback", w) /\ Among(p, {Do("stop")})
       /\ AllBelong("rollback", p) /\ AllBelong("rollback", w) /\ AllBelong("rollback", r)
    <2>1. DOMAIN p = {1} /\ p[1] = Do("stop")
        OBVIOUS
    <2>2. Among(p, {Do("stop")})
        BY <2>1 DEF Among
    <2> HIDE DEF p, w, r
    <2>3. InOrder("rollback", p)
        BY <2>1 DEF InOrder
    <2> QED BY <1>4, <1>10, <2>2, <2>3 DEF Among, InOrder, AllBelong
<1>12. InOrder("rollback", r)
    <2>1. /\ DOMAIN r = 1..5 /\ r[1] = Write("binary", d.manifest.binary) /\ r[2] = Do("start")
          /\ r[3] = Do("ready") /\ r[4] = Do("fingerprints") /\ r[5] = Write("receipt", "rolled_back")
          /\ 1..5 = {1, 2, 3, 4, 5}
        OBVIOUS
    <2>2. /\ \A x \in {Do("start"), Do("ready"), Do("fingerprints"), Write("receipt", "rolled_back")} :
             \A y \in {Do("start"), Do("ready"), Do("fingerprints"), Write("receipt", "rolled_back"),
                       Write("binary", d.manifest.binary)} :
                /\ Goes("rollback", y, x)
        BY DEF Goes, Writes, Write, Do
    <2> HIDE DEF r
    <2> QED BY <2>1, <2>2 DEF InOrder
<1>13. InOrder("rollback", (p \o w) \o r) /\ AllBelong("rollback", (p \o w) \o r)
    <2> HIDE DEF p, w, r, d1, d2, Skill, Rest
    <2>1. /\ InOrder("rollback", p \o w) /\ AllBelong("rollback", p \o w)
        BY <1>3, <1>4, <1>10, <1>11, OrderJoin DEF Among
    <2>2. Among(p \o w, {Do("stop")} \cup Skill)
        <3>1. Among(p, {Do("stop")} \cup Skill) /\ Among(w, {Do("stop")} \cup Skill)
            BY <1>4, <1>11 DEF Among
        <3> QED BY <1>3, <1>4, <3>1, AmongJoin
    <2> QED BY <1>3, <1>4, <1>9, <1>10, <1>11, <1>12, <2>1, <2>2, OrderJoin DEF Among
<1>14. Completes("rollback", d, d2) /\ ~SaysStarted(d2)
    <2>1. d2.receipt = "rolled_back"
        BY DEF Disks
    <2> QED BY <2>1 DEF Completes, SaysStarted
<1> HIDE DEF p, w, r, d2
<1> QED BY <1>0, <1>5, <1>9, <1>13, <1>14

\* The steps of a restart.
LEMMA RestartSuits ==
    ASSUME NEW d \in Disks
    PROVE  /\ RestartSteps \in Seq(Steps) /\ InOrder("restart", RestartSteps)
           /\ AllBelong("restart", RestartSteps)
           /\ \E e \in Disks : Takes(RestartSteps, d, e) /\ Completes("restart", d, e)
           /\ Has(RestartSteps, "start")
<1> DEFINE e == [d EXCEPT !.receipt = "restarted"]
<1>1. /\ DOMAIN RestartSteps = {1, 2} /\ RestartSteps[1] = Do("start")
      /\ RestartSteps[2] = Write("receipt", "restarted")
    BY DEF RestartSteps
<1>2. RestartSteps \in Seq(Steps)
    <2>1. /\ "receipt" \in Artifacts /\ "restarted" \in Of("receipt") /\ "start" \in Doings
        BY DEF Of, Receipts, Artifacts, Nothing, Doings
    <2>2. Do("start") \in Steps /\ Write("receipt", "restarted") \in Steps
        BY <2>1, StepsAre
    <2> QED BY <2>2 DEF RestartSteps
<1>3. e \in Disks
    BY DEF Disks, Of, Receipts
<1>4. Takes(RestartSteps, d, e)
    <2>1. /\ \A a \in Artifacts : ~Writes(RestartSteps[1], a)
          /\ \A a \in Artifacts : Writes(RestartSteps[2], a) <=> a = "receipt"
          /\ RestartSteps[2].to = "restarted"
        BY <1>1 DEF Writes, Write, Do
    <2>2. e["receipt"] = "restarted" /\ \A a \in Artifacts : a # "receipt" => e[a] = d[a]
        BY DEF Disks, Artifacts, Nothing
    <2> HIDE DEF e
    <2> QED BY <1>1, <2>1, <2>2 DEF Takes
<1>5. Goes("restart", Do("start"), Write("receipt", "restarted"))
    BY DEF Goes, Writes, Write, Do
<1>6. Belongs("restart", Do("start")) /\ Belongs("restart", Write("receipt", "restarted"))
    BY DEF Belongs, Do
<1>7. Has(RestartSteps, "start")
    BY <1>1 DEF Has, Do
<1> QED BY <1>1, <1>2, <1>3, <1>4, <1>5, <1>6, <1>7 DEF InOrder, AllBelong, Completes

\* The artifacts of a set removed, from what there was.
Removing(s, d, gone) ==
    /\ s \in Seq(Steps) /\ InOrder("uninstall", s) /\ AllBelong("uninstall", s)
    /\ Takes(s, d, [a \in Artifacts |-> IF a \in gone THEN None ELSE d[a]])
    /\ \A i \in DOMAIN s : s[i].does = "write" => s[i].what \in gone

\* One more of them.
LEMMA RemovesOneMore ==
    ASSUME NEW d \in Disks, NEW s, NEW gone, Removing(s, d, gone), NEW b \in Artifacts, b \notin gone,
           b \in {"binary", "skill", "launcher"} => "config" \notin gone /\ "receipt" \notin gone
    PROVE  Removing(s \o Removal(d, b), d, gone \cup {b})
<1> DEFINE t == Removal(d, b)
           m == [a \in Artifacts |-> IF a \in gone THEN None ELSE d[a]]
           e == [a \in Artifacts |-> IF a \in gone \cup {b} THEN None ELSE d[a]]
           X == {Write(b, None)}
<1>1. s \in Seq(Steps) /\ Takes(s, d, m) /\ InOrder("uninstall", s) /\ AllBelong("uninstall", s)
      /\ \A i \in DOMAIN s : s[i].does = "write" => s[i].what \in gone
    BY DEF Removing
<1>2. Write(b, None) \in Steps
    <2>1. None \in Of(b)
        BY DEF Of
    <2> QED BY <2>1, StepsAre
<1>3. <<Write(b, None)>> \in Seq(Steps) /\ Among(<<Write(b, None)>>, X)
    BY <1>2 DEF Among
<1>4. t \in Seq(Steps) /\ Among(t, X)
    BY <1>3, WhenIs DEF Removal
<1>5. Takes(t, m, e)
    <2>1. Takes(<<Write(b, None)>>, m, e)
        BY TakesWrite
    <2>2. ~(d[b] # None) => \A a \in Artifacts : e[a] = m[a]
        OBVIOUS
    <2> QED BY <2>1, <2>2, TakesWhen DEF Removal
<1>6. Takes(s \o t, d, e)
    BY <1>1, <1>4, <1>5, TakesJoin
<1>7. \A j \in DOMAIN t : t[j] = Write(b, None)
    BY <1>4 DEF Among
<1>8. ASSUME NEW x \in Steps, Belongs("uninstall", x), x.does = "write" => x.what \in gone
      PROVE  Goes("uninstall", x, Write(b, None))
    <2>1. Write(b, None).what = b /\ Write(b, None).does = "write"
        BY DEF Write
    <2>2. x.does # "start"
        BY <1>8 DEF Belongs
    <2>3. (x.does = "write" /\ x.what \in {"config", "receipt"}) => b \notin {"binary", "skill", "launcher"}
        BY <1>8
    <2> QED BY <2>1, <2>2, <2>3 DEF Goes, Writes
<1>9. Belongs("uninstall", Write(b, None)) /\ Goes("uninstall", Write(b, None), Write(b, None))
    <2>1. Write(b, None).what = b /\ Write(b, None).does = "write" /\ Write(b, None).to = None
        BY DEF Write
    <2>2. ~(b \in {"config", "receipt"} /\ b \in {"binary", "skill", "launcher"})
        OBVIOUS
    <2> QED BY <2>1, <2>2 DEF Goes, Writes, Belongs
<1> HIDE DEF t, m, e, X
<1>10. InOrder("uninstall", t) /\ AllBelong("uninstall", t)
    BY <1>7, <1>9 DEF InOrder, AllBelong
<1>11. \A i \in DOMAIN s : s[i] \in Steps
    BY <1>1
<1>12. InOrder("uninstall", s \o t) /\ AllBelong("uninstall", s \o t)
    <2>1. \A i \in DOMAIN s, j \in DOMAIN t : Goes("uninstall", s[i], t[j])
        BY <1>1, <1>7, <1>8, <1>11 DEF AllBelong
    <2> QED BY <1>1, <1>4, <1>10, <2>1, OrderJoin
<1>13. \A i \in DOMAIN (s \o t) : (s \o t)[i].does = "write" => (s \o t)[i].what \in gone \cup {b}
    <2>1. Write(b, None).what = b
        BY DEF Write
    <2>2. \A i \in DOMAIN (s \o t) :
                \/ i \in DOMAIN s /\ (s \o t)[i] = s[i]
                \/ /\ i - Len(s) \in DOMAIN t /\ i > Len(s) /\ (s \o t)[i] = t[i - Len(s)]
        BY <1>1, <1>4, ListJoin
    <2> QED BY <1>1, <1>7, <2>1, <2>2
<1>14. s \o t \in Seq(Steps)
    BY <1>1, <1>4, ListJoin
<1> QED BY <1>6, <1>12, <1>13, <1>14 DEF Removing, t, e

\* The steps of an uninstallation leave nothing.
LEMMA UninstallSuits ==
    ASSUME NEW d \in Disks
    PROVE  LET s == UninstallSteps(d)
           IN /\ s \in Seq(Steps) /\ InOrder("uninstall", s) /\ AllBelong("uninstall", s)
              /\ Takes(s, d, Nothing)
<1> DEFINE p == <<Do("stop")>>
           r == <<Do("remove rollback directory")>>
           s1 == p \o Removal(d, "binary")
           s2 == s1 \o Removal(d, "skill")
           s3 == s2 \o Removal(d, "launcher")
           s4 == s3 \o Removal(d, "manifest")
           s5 == s4 \o Removal(d, "oldBinary")
           s6 == s5 \o Removal(d, "oldSkill")
           s7 == s6 \o Removal(d, "config")
           s8 == s7 \o Removal(d, "receipt")
           f == [a \in Artifacts |-> IF a \in Artifacts THEN None ELSE d[a]]
<1>0. UninstallSteps(d) = s8 \o r
    BY DEF UninstallSteps
<1>1. p \in Seq(Steps) /\ r \in Seq(Steps)
    <2>1. Do("stop") \in Steps /\ Do("remove rollback directory") \in Steps
        BY StepsAre DEF Doings
    <2>2. \A x \in Steps : <<x>> \in Seq(Steps)
        OBVIOUS
    <2> QED BY <2>1, <2>2
<1>2. Removing(p, d, {})
    <2>0. DOMAIN p = {1} /\ p[1] = Do("stop")
        OBVIOUS
    <2> HIDE DEF p
    <2>1. DOMAIN p = {1} /\ p[1] = Do("stop") /\ p \in Seq(Steps)
        BY <1>1, <2>0
    <2>2. Takes(p, d, [a \in Artifacts |-> IF a \in {} THEN None ELSE d[a]])
        <3>1. \A a \in Artifacts : ~Writes(p[1], a)
            BY <2>1 DEF Writes, Do
        <3> QED BY <2>1, <3>1 DEF Takes
    <2>3. Belongs("uninstall", Do("stop")) /\ Do("stop").does # "write"
        BY DEF Belongs, Do
    <2> QED BY <2>1, <2>2, <2>3 DEF Removing, InOrder, AllBelong
<1> HIDE DEF p, s1, s2, s3, s4, s5, s6, s7, s8
<1>3. Artifacts = {"config", "receipt", "binary", "skill", "launcher", "manifest", "oldBinary", "oldSkill"}
    BY DEF Artifacts, Nothing
<1>4. Removing(s1, d, {} \cup {"binary"})
    BY <1>2, <1>3, RemovesOneMore DEF s1
<1>5. Removing(s2, d, {} \cup {"binary"} \cup {"skill"})
    BY <1>3, <1>4, RemovesOneMore DEF s2
<1>6. Removing(s3, d, {"binary", "skill", "launcher"})
    <2>1. {"binary", "skill", "launcher"} = {} \cup {"binary"} \cup {"skill"} \cup {"launcher"}
        OBVIOUS
    <2>2. Removing(s2 \o Removal(d, "launcher"), d, {} \cup {"binary"} \cup {"skill"} \cup {"launcher"})
        BY <1>3, <1>5, RemovesOneMore
    <2> QED BY <2>1, <2>2 DEF s3
<1>7. Removing(s4, d, {"binary", "skill", "launcher", "manifest"})
    <2>1. {"binary", "skill", "launcher", "manifest"} = {"binary", "skill", "launcher"} \cup {"manifest"}
        OBVIOUS
    <2>2. Removing(s3 \o Removal(d, "manifest"), d, {"binary", "skill", "launcher"} \cup {"manifest"})
        BY <1>3, <1>6, RemovesOneMore
    <2> QED BY <2>1, <2>2 DEF s4
<1>8. Removing(s5, d, {"binary", "skill", "launcher", "manifest", "oldBinary"})
    <2>1. {"binary", "skill", "launcher", "manifest", "oldBinary"}
              = {"binary", "skill", "launcher", "manifest"} \cup {"oldBinary"}
        OBVIOUS
    <2>2. Removing(s4 \o Removal(d, "oldBinary"), d, {"binary", "skill", "launcher", "manifest"} \cup {"oldBinary"})
        BY <1>3, <1>7, RemovesOneMore
    <2> QED BY <2>1, <2>2 DEF s5
<1>9. Removing(s6, d, Artifacts \ {"config", "receipt"})
    <2>1. Artifacts \ {"config", "receipt"}
              = {"binary", "skill", "launcher", "manifest", "oldBinary"} \cup {"oldSkill"}
        BY <1>3
    <2>2. Removing(s5 \o Removal(d, "oldSkill"), d, {"binary", "skill", "launcher", "manifest", "oldBinary"} \cup {"oldSkill"})
        BY <1>3, <1>8, RemovesOneMore
    <2> QED BY <2>1, <2>2 DEF s6
<1>10. Removing(s7, d, Artifacts \ {"receipt"})
    <2>1. Artifacts \ {"receipt"} = (Artifacts \ {"config", "receipt"}) \cup {"config"}
        BY <1>3
    <2>2. Removing(s6 \o Removal(d, "config"), d, (Artifacts \ {"config", "receipt"}) \cup {"config"})
        BY <1>3, <1>9, RemovesOneMore
    <2> QED BY <2>1, <2>2 DEF s7
<1>11. Removing(s8, d, Artifacts)
    <2>1. Artifacts = (Artifacts \ {"receipt"}) \cup {"receipt"}
        BY <1>3
    <2>2. Removing(s7 \o Removal(d, "receipt"), d, (Artifacts \ {"receipt"}) \cup {"receipt"})
        BY <1>3, <1>10, RemovesOneMore
    <2> QED BY <2>1, <2>2 DEF s8
<1>12. s8 \in Seq(Steps) /\ InOrder("uninstall", s8) /\ AllBelong("uninstall", s8) /\ Takes(s8, d, f)
    BY <1>11 DEF Removing
<1>13. f = Nothing
    BY DEF Nothing, Artifacts
<1>14. /\ r \in Seq(Steps) /\ DOMAIN r = {1} /\ r[1] = Do("remove rollback directory")
       /\ Takes(r, Nothing, Nothing)
    <2>1. DOMAIN r = {1} /\ r[1] = Do("remove rollback directory")
        OBVIOUS
    <2>2. Takes(r, Nothing, Nothing)
        BY TakesDo
    <2> HIDE DEF r
    <2> QED BY <1>1, <2>1, <2>2
<1>15. /\ Belongs("uninstall", Do("remove rollback directory"))
       /\ \A x : Goes("uninstall", x, Do("remove rollback directory"))
    BY DEF Belongs, Goes, Writes, Do
<1> HIDE DEF r, f
<1>16. InOrder("uninstall", r) /\ AllBelong("uninstall", r)
    BY <1>14, <1>15 DEF InOrder, AllBelong
<1>17. Takes(s8 \o r, d, Nothing)
    BY <1>12, <1>13, <1>14, TakesJoin
<1>18. InOrder("uninstall", s8 \o r) /\ AllBelong("uninstall", s8 \o r)
    <2>1. \A i \in DOMAIN s8, j \in DOMAIN r : Goes("uninstall", s8[i], r[j])
        BY <1>14, <1>15
    <2> QED BY <1>12, <1>14, <1>16, <2>1, OrderJoin
<1>19. s8 \o r \in Seq(Steps)
    BY <1>12, <1>14, ListJoin
<1> QED BY <1>0, <1>17, <1>18, <1>19

-----------------------------------------------------------------------------
\* It holds before anything is installed.
LEMMA InitService == Init => ServiceInv
<1> SUFFICES ASSUME Init PROVE ServiceInv
    OBVIOUS
<1>1. ~Operating /\ lease = FALSE /\ litter = FALSE /\ faults = 0 /\ disk = Nothing /\ previous = None
    BY DEF Init, Operating
<1>2. ServiceTyped
    <2>1. Nothing \in Disks
        BY DEF Nothing, Disks, Of
    <2> QED BY <2>1 DEF Init, ServiceTyped, Stopped
<1>3. Settled
    <2>1. "started" # None /\ "restarted" # None
        BY ServiceAssumption DEF Receipts
    <2>2. ~SaysStarted(Nothing)
        BY <2>1 DEF SaysStarted, Nothing
    <2>3. BackedUp(Nothing)
        BY <1>1 DEF BackedUp, Nothing
    <2> QED BY <1>1, <2>2, <2>3 DEF Settled, WholeDisk
<1>4. Faultless
    BY <1>1 DEF Faultless
<1>5. WaysOut
    BY <1>1, ServiceAssumption DEF WaysOut, Installable, Nothing
<1>6. Leased /\ Ahead /\ OnRecord /\ Back /\ Untouched /\ ServiceBack /\ Midway
    BY <1>1 DEF Leased, Ahead, OnRecord, Back, Untouched, ServiceBack, Midway, Forward, Undoing
<1> QED BY <1>2, <1>3, <1>4, <1>5, <1>6 DEF ServiceInv

\* The start of an operation.
LEMMA BeginKeeps ==
    ASSUME ServiceInv, Free, NEW kind \in {"install", "rollback", "restart", "uninstall"},
           NEW steps \in Seq(Steps), Begin(kind, steps), peek' \in {peek, None},
           InOrder(kind, steps), AllBelong(kind, steps),
           \E e \in Disks : /\ Takes(steps, disk, e) /\ Completes(kind, disk, e)
                            /\ SaysStarted(e) => Has(steps, "start"),
           kind = "install" =>
             /\ CanInstall
             /\ \E i \in DOMAIN steps : steps[i] = Write("receipt", "installing"),
           kind # "install" => disk.config # None /\ disk.receipt # None,
           kind = "rollback" => disk.launcher # Empty
    PROVE  ServiceInv'
<1>1. /\ op'.kind = kind /\ op'.todo = steps /\ op'.done = <<>> /\ op'.before = disk
      /\ op'.wasLoaded = service.loaded /\ op'.touched = FALSE /\ op'.undoing = FALSE /\ op'.broken = FALSE
      /\ op' = [kind |-> kind, todo |-> steps, done |-> <<>>, before |-> disk,
                wasLoaded |-> service.loaded, touched |-> FALSE, undoing |-> FALSE, broken |-> FALSE]
      /\ disk' = disk /\ litter' = litter /\ service' = service /\ lease' = lease /\ faults' = faults
      /\ cut' = cut /\ previous' = previous /\ lockFile' = TRUE
    BY DEF Begin
<1>2. op = NoOperation /\ ~lease /\ ~Operating
    BY DEF Free, Operating
<1>3. op' # NoOperation
    BY <1>1 DEF NoOperation
<1>4. Operating' /\ Forward' /\ ~Undoing'
    BY <1>1, <1>3 DEF Operating, Forward, Undoing
<1>5. ServiceTyped
    BY DEF ServiceInv
<1>6. ServiceTyped'
    <2>1. op' \in Operations
        <3>1. <<>> \in Seq(Artifacts) /\ disk \in Disks /\ service.loaded \in BOOLEAN
            BY <1>5 DEF ServiceTyped
        <3> QED BY <1>1, <3>1 DEF Operations
    <2> QED BY <1>1, <1>5, <2>1 DEF ServiceTyped
<1>7. Leased'
    BY <1>1, <1>2 DEF Leased
<1>8. Ahead'
    <2>1. op'.done = <<>> /\ ~op'.touched /\ ~op'.broken
        BY <1>1
    <2>2. InOrder(op'.kind, op'.todo) /\ AllBelong(op'.kind, op'.todo)
        BY <1>1
    <2>3. \E e \in Disks : /\ Takes(op'.todo, disk', e) /\ Completes(op'.kind, op'.before, e)
                           /\ SaysStarted(e) => Has(op'.todo, "start")
        BY <1>1
    <2> QED BY <2>1, <2>2, <2>3 DEF Ahead
<1>9. OnRecord'
    BY <1>1 DEF OnRecord
<1>10. Back' /\ ServiceBack'
    BY <1>4 DEF Back, ServiceBack
<1>11. Untouched'
    BY <1>1 DEF Untouched
<1>12. Settled'
    <2>1. ~cut => WholeDisk(disk) /\ BackedUp(disk) /\ (SaysStarted(disk) => Running)
        BY <1>2 DEF ServiceInv, Settled
    <2>2. BackedUp(disk) => BackedUp(disk)'
        BY <1>1 DEF BackedUp
    <2>3. Running => service = [loaded |-> TRUE, version |-> disk.binary] /\ service.loaded
        BY DEF Running
    <2> QED BY <1>1, <1>4, <2>1, <2>2, <2>3 DEF Settled
<1>13. Faultless'
    <2>1. /\ litter => faults >= 1
          /\ faults = 0 => disk = Nothing \/ Solid(disk)
        BY <1>2 DEF ServiceInv, Faultless
    <2>2. disk = Nothing => kind = "install"
        BY DEF Nothing
    <2> QED BY <1>1, <1>4, <2>1, <2>2 DEF Faultless
<1>14. Midway'
    <2>1. CASE kind = "install"
        BY <1>1, <2>1 DEF Midway, CanInstall, CanInventory, Installable
    <2>2. CASE kind = "rollback"
        BY <1>1, <2>2 DEF Midway
    <2>3. CASE kind = "restart"
        BY <1>1, <2>3 DEF Midway
    <2>4. CASE kind = "uninstall"
        BY <1>1, <2>4 DEF Midway, Removable
    <2> QED BY <2>1, <2>2, <2>3, <2>4
<1>15. WaysOut'
    BY <1>1, <1>2, <1>4 DEF ServiceInv, WaysOut
<1> QED BY <1>6, <1>7, <1>8, <1>9, <1>10, <1>11, <1>12, <1>13, <1>14, <1>15 DEF ServiceInv

\* An installation begins.
LEMMA InstallKeeps ==
    ASSUME ServiceInv, NEW v \in Versions, NEW c \in Configs, NEW start \in BOOLEAN, Install(v, c, start)
    PROVE  ServiceInv'
<1>1. disk \in Disks
    BY DEF ServiceInv, ServiceTyped
<1>2. PICK s : s = InstallSteps(disk, v, c, start)
    OBVIOUS
<1>3. /\ s \in Seq(Steps) /\ InOrder("install", s) /\ AllBelong("install", s)
      /\ \E e \in Disks : /\ Takes(s, disk, e) /\ Completes("install", disk, e)
                          /\ SaysStarted(e) => Has(s, "start")
      /\ \E i \in DOMAIN s : s[i] = Write("receipt", "installing")
    BY <1>1, <1>2, InstallSuits
<1>4. Begin("install", s) /\ Free /\ CanInstall /\ peek' = peek
    BY <1>2 DEF Install
<1> QED BY <1>3, <1>4, BeginKeeps

\* A rollback begins.
LEMMA RollbackKeeps == ASSUME ServiceInv, Rollback PROVE ServiceInv'
<1>1. disk \in Disks
    BY DEF ServiceInv, ServiceTyped
<1>2. PICK s : s = RollbackSteps(disk)
    OBVIOUS
<1>3. /\ Begin("rollback", s) /\ Free /\ CanRollback /\ disk.receipt # None /\ disk.config # None
      /\ peek' \in {peek, None}
    BY <1>2 DEF Rollback, Entered
<1>4. disk.manifest \in Pairs /\ disk.launcher # Empty
    BY <1>1, <1>3 DEF CanRollback, CanInventory, Disks, Of
<1>5. /\ s \in Seq(Steps) /\ InOrder("rollback", s) /\ AllBelong("rollback", s)
      /\ \E e \in Disks : Takes(s, disk, e) /\ Completes("rollback", disk, e) /\ ~SaysStarted(e)
    BY <1>1, <1>2, <1>4, RollbackSuits
<1> QED BY <1>3, <1>4, <1>5, BeginKeeps

\* A restart begins.
LEMMA RestartKeeps == ASSUME ServiceInv, Restart PROVE ServiceInv'
<1>1. disk \in Disks
    BY DEF ServiceInv, ServiceTyped
<1>2. /\ Begin("restart", RestartSteps) /\ Free /\ disk.receipt # None /\ disk.config # None
      /\ peek' \in {peek, None}
    BY DEF Restart, Entered
<1>3. /\ RestartSteps \in Seq(Steps) /\ InOrder("restart", RestartSteps)
      /\ AllBelong("restart", RestartSteps) /\ Has(RestartSteps, "start")
      /\ \E e \in Disks : Takes(RestartSteps, disk, e) /\ Completes("restart", disk, e)
    BY <1>1, RestartSuits
<1> QED BY <1>2, <1>3, BeginKeeps

\* An uninstallation begins.
LEMMA UninstallKeeps == ASSUME ServiceInv, Uninstall PROVE ServiceInv'
<1>1. disk \in Disks
    BY DEF ServiceInv, ServiceTyped
<1>2. PICK s : s = UninstallSteps(disk)
    OBVIOUS
<1>3. /\ Begin("uninstall", s) /\ Free /\ disk.receipt # None /\ disk.config # None
      /\ peek' \in {peek, None}
    BY <1>2 DEF Uninstall, Entered
<1>4. /\ s \in Seq(Steps) /\ InOrder("uninstall", s) /\ AllBelong("uninstall", s) /\ Takes(s, disk, Nothing)
    BY <1>1, <1>2, UninstallSuits
<1>5. Nothing \in Disks
    BY DEF Nothing, Disks, Of
<1>6. Completes("uninstall", disk, Nothing)
    BY DEF Completes
<1>7. ~SaysStarted(Nothing)
    BY ServiceAssumption DEF Receipts, SaysStarted, Nothing
<1> QED BY <1>3, <1>4, <1>5, <1>6, <1>7, BeginKeeps

\* A step that moves neither an artifact, nor the service, nor an operation.
LEMMA ReadersKeep ==
    ASSUME ServiceInv, ReadConfig \/ Refused \/ AcquireLease \/ CloseLease
    PROVE  ServiceInv'
<1>1. /\ disk' = disk /\ litter' = litter /\ service' = service /\ op' = op /\ faults' = faults
      /\ cut' = cut /\ previous' = previous
    BY DEF ReadConfig, Refused, AcquireLease, CloseLease
<1>2. ServiceTyped'
    BY <1>1 DEF ServiceInv, ServiceTyped, ReadConfig, Refused, AcquireLease, CloseLease, Disks, Of
<1>3. Leased'
    BY <1>1 DEF ServiceInv, Leased, Operating, Free, ReadConfig, Refused, AcquireLease, CloseLease
<1>4. Ahead' /\ OnRecord' /\ Back' /\ Untouched' /\ ServiceBack' /\ Midway'
    BY <1>1 DEF ServiceInv, Ahead, OnRecord, Back, Untouched, ServiceBack, Midway, Forward, Undoing,
                Operating, Running
<1>5. Settled' /\ Faultless' /\ WaysOut'
    BY <1>1 DEF ServiceInv, Settled, Faultless, WaysOut, Operating, Running, BackedUp
<1> QED BY <1>2, <1>3, <1>4, <1>5 DEF ServiceInv

\* launchd starts the job.
LEMMA RespawnKeeps == ASSUME ServiceInv, Respawn PROVE ServiceInv'
<1>1. /\ disk' = disk /\ litter' = litter /\ op' = op /\ faults' = faults /\ lease' = lease
      /\ previous' = previous /\ service' = [loaded |-> TRUE, version |-> disk.binary]
      /\ service'.loaded /\ Running'
      /\ Operating => service.loaded /\ cut' /\ ~Running
      /\ ~Operating => cut' = cut
    <2>1. service = [loaded |-> TRUE, version |-> disk.binary] => service.version = disk.binary /\ service.loaded
        OBVIOUS
    <2>2. Operating => service.loaded /\ service.version # disk.binary
        BY DEF Respawn, Operating
    <2>3. cut \in BOOLEAN
        BY DEF ServiceInv, ServiceTyped
    <2> QED BY <2>1, <2>2, <2>3 DEF Respawn, Started, Operating, Running
<1>2. ServiceTyped'
    <2>1. disk.binary \in {None} \cup Versions
        BY DEF ServiceInv, ServiceTyped, Disks, Of
    <2>2. service' \in [loaded : BOOLEAN, version : {None} \cup Versions]
        BY <1>1, <2>1
    <2>3. cut' \in BOOLEAN
        BY <1>1 DEF ServiceInv, ServiceTyped
    <2> QED BY <1>1, <2>2, <2>3 DEF ServiceInv, ServiceTyped, Respawn
<1>3. Leased' /\ OnRecord' /\ Back' /\ Midway'
    BY <1>1 DEF ServiceInv, Leased, OnRecord, Back, Midway, Forward, Undoing, Operating
<1>4. Ahead'
    BY <1>1 DEF ServiceInv, Ahead, Forward, Operating
<1>5. Untouched'
    <2>1. Operating => op \in Operations
        BY DEF ServiceInv, ServiceTyped, Operating
    <2>2. Operating => op.wasLoaded \in BOOLEAN
        BY <2>1 DEF Operations
    <2>3. service.loaded \in BOOLEAN
        BY DEF ServiceInv, ServiceTyped
    <2> QED BY <1>1, <2>2, <2>3 DEF ServiceInv, Untouched, Operating
<1>6. ServiceBack'
    BY <1>1 DEF ServiceInv, ServiceBack, Undoing, Operating
<1>7. Settled'
    BY <1>1 DEF ServiceInv, Settled, Operating, BackedUp
<1>8. Faultless' /\ WaysOut'
    BY <1>1 DEF ServiceInv, Faultless, WaysOut, Operating
<1> QED BY <1>2, <1>3, <1>4, <1>5, <1>6, <1>7, <1>8 DEF ServiceInv

\* The owner removes the skill.
LEMMA RemoveSkillKeeps == ASSUME ServiceInv, RemoveSkill PROVE ServiceInv'
<1>1. /\ disk \in Disks /\ ~Operating /\ ~Operating' /\ disk.skill # None /\ disk' = [disk EXCEPT !.skill = None]
      /\ litter' = litter /\ service' = service /\ op' = op /\ lockFile' = lockFile /\ peek' = peek
      /\ lease' = lease /\ faults' = faults /\ cut' = cut /\ previous' = previous
    BY DEF ServiceInv, ServiceTyped, RemoveSkill, Free, Operating
<1>2. /\ disk'.skill = None /\ disk'.config = disk.config /\ disk'.receipt = disk.receipt
      /\ disk'.binary = disk.binary /\ disk'.launcher = disk.launcher /\ disk'.manifest = disk.manifest
      /\ disk'.oldBinary = disk.oldBinary /\ disk'.oldSkill = disk.oldSkill /\ disk' \in Disks
    BY <1>1 DEF Disks, Of
<1>3. disk # Nothing
    BY <1>1 DEF Nothing
<1>4. ServiceTyped'
    BY <1>1, <1>2 DEF ServiceInv, ServiceTyped
<1>5. Leased' /\ Ahead' /\ OnRecord' /\ Back' /\ Untouched' /\ ServiceBack' /\ Midway'
    BY <1>1 DEF Leased, Ahead, OnRecord, Back, Untouched, ServiceBack, Midway, Forward, Undoing
<1>6. Settled'
    BY <1>1, <1>2, <1>3 DEF ServiceInv, Settled, WholeDisk, BackedUp, OneVersion, Running, SaysStarted
<1>7. Faultless'
    BY <1>1, <1>2, <1>3 DEF ServiceInv, Faultless, Solid
<1>8. WaysOut'
    BY <1>1, <1>2 DEF ServiceInv, WaysOut, Installable, Removable
<1> QED BY <1>4, <1>5, <1>6, <1>7, <1>8 DEF ServiceInv

\* The operation under way, and its next step.
LEMMA NextStep ==
    ASSUME ServiceTyped, Operating
    PROVE  /\ op \in Operations /\ disk \in Disks /\ op.before \in Disks /\ op.todo \in Seq(Steps)
           /\ op.done \in Seq(Artifacts) /\ op.wasLoaded \in BOOLEAN /\ op.touched \in BOOLEAN
           /\ op.undoing \in BOOLEAN /\ op.broken \in BOOLEAN
           /\ op.kind \in {"install", "rollback", "restart", "uninstall"}
           /\ op.todo # <<>> =>
                /\ step \in Steps
                /\ \/ step.does = "write" /\ step.what \in Artifacts /\ step.to \in Of(step.what)
                   \/ step.does \in Doings /\ step.does # "write"
           /\ Nothing \in Disks
<1>1. op \in Operations /\ disk \in Disks
    BY DEF ServiceTyped, Operating
<1>2. /\ op.before \in Disks /\ op.todo \in Seq(Steps)
      /\ op.done \in Seq(Artifacts) /\ op.wasLoaded \in BOOLEAN /\ op.touched \in BOOLEAN
      /\ op.undoing \in BOOLEAN /\ op.broken \in BOOLEAN
      /\ op.kind \in {"install", "rollback", "restart", "uninstall"}
    BY <1>1 DEF Operations
<1>3. op.todo # <<>> => Head(op.todo) \in Steps
    BY <1>2, ListTail
<1>4. Nothing \in Disks
    BY DEF Nothing, Disks, Of
<1> QED BY <1>1, <1>2, <1>3, <1>4, StepsAre DEF step

\* Where the steps lead, of what they no longer write.
LEMMA NoMoreWrites ==
    ASSUME NEW S, NEW s \in Seq(S), s # <<>>, NEW d, NEW e, Takes(s, d, e), NEW a \in Artifacts,
           ~Writes(Head(s), a), \A j \in DOMAIN Tail(s) : ~Writes(Tail(s)[j], a)
    PROVE  e[a] = d[a]
<1>1. /\ Head(s) = s[1]
      /\ \A i \in DOMAIN s : i = 1 \/ (i - 1 \in DOMAIN Tail(s) /\ Tail(s)[i - 1] = s[i])
    BY ListTail
<1>2. \A i \in DOMAIN s : ~Writes(s[i], a)
    BY <1>1
<1> QED BY <1>2 DEF Takes

\* The process ends.
LEMMA CrashKeeps == ASSUME ServiceInv, Crash PROVE ServiceInv'
<1>0. /\ Operating /\ ~Operating' /\ faults' = faults + 1 /\ faults \in Nat /\ faults' >= 1 /\ cut'
      /\ op' = NoOperation /\ service' = service /\ lockFile' = lockFile /\ peek' = peek /\ lease' = lease
      /\ previous' = previous /\ cut' = TRUE
    BY DEF Crash, ServiceInv, ServiceTyped, Operating
<1>1. /\ op \in Operations /\ disk \in Disks /\ op.before \in Disks /\ op.todo \in Seq(Steps)
      /\ op.kind \in {"install", "rollback", "restart", "uninstall"} /\ op.undoing \in BOOLEAN
    BY <1>0, NextStep DEF ServiceInv
<1>2. PICK empty : empty = [disk EXCEPT !.launcher = Empty]
    OBVIOUS
<1>3. /\ empty.launcher = Empty /\ empty.config = disk.config /\ empty.receipt = disk.receipt /\ empty \in Disks
    BY <1>1, <1>2 DEF Disks, Of
<1>4. \/ disk' = disk /\ litter' = litter
      \/ disk' = disk /\ litter' = TRUE /\ op.kind # "uninstall"
      \/ /\ op.todo # <<>> /\ op.kind = "install" /\ ~op.undoing /\ Writes(step, "launcher")
         /\ disk' = empty /\ litter' = litter
    BY <1>2 DEF Crash, Writes
<1>5. ServiceTyped'
    <2>1. litter \in BOOLEAN /\ lockFile \in BOOLEAN /\ lease \in BOOLEAN
        BY DEF ServiceInv, ServiceTyped
    <2>2. litter' \in BOOLEAN
        BY <1>4, <2>1
    <2>3. cut' \in BOOLEAN /\ lockFile' \in BOOLEAN /\ lease' \in BOOLEAN
        BY <1>0, <2>1
    <2>4. disk' \in Disks /\ faults' \in Nat
        BY <1>0, <1>1, <1>3, <1>4
    <2> QED BY <1>0, <2>2, <2>3, <2>4 DEF ServiceInv, ServiceTyped
<1>6. Leased' /\ Ahead' /\ OnRecord' /\ Back' /\ Untouched' /\ ServiceBack' /\ Midway'
    BY <1>0 DEF Leased, Ahead, OnRecord, Back, Untouched, ServiceBack, Midway, Forward, Undoing
<1>7. Settled' /\ Faultless'
    BY <1>0 DEF Settled, Faultless
<1>8. WaysOut'
    <2>1. SUFFICES ASSUME faults = 0 PROVE (Installable(disk) \/ (Removable(disk) /\ ~litter))'
        BY <1>0 DEF WaysOut
    <2>2. /\ ~litter /\ Forward
          /\ (op.before = Nothing /\ op.kind = "install") \/ Solid(op.before)
        BY <1>0, <2>1 DEF ServiceInv, Faultless, Forward
    <2>3. CASE op.kind = "install" /\ disk' = disk
        <3>1. Installable(disk)
            BY <2>2, <2>3 DEF ServiceInv, Midway
        <3> QED BY <2>3, <3>1 DEF Installable
    <2>4. CASE op.kind = "install" /\ disk' = empty /\ litter' = litter /\ op.todo # <<>> /\ Writes(step, "launcher")
        <3>1. InOrder(op.kind, op.todo) /\ AllBelong(op.kind, op.todo)
            BY <2>2 DEF ServiceInv, Ahead
        <3>2. \A j \in DOMAIN Tail(op.todo) : Goes("install", step, Tail(op.todo)[j])
            BY <1>1, <2>4, <3>1, OrderTail DEF step
        <3>3. \A j \in DOMAIN Tail(op.todo) :
                 ~Writes(Tail(op.todo)[j], "config") /\ Tail(op.todo)[j] # Write("receipt", "installing")
            BY <2>4, <3>2 DEF Goes
        <3>4. PICK e \in Disks : Takes(op.todo, disk, e) /\ Completes(op.kind, op.before, e)
            BY <2>2 DEF ServiceInv, Ahead
        <3>5. e["config"] = disk["config"]
            <4>1. "config" \in Artifacts /\ ~Writes(step, "config")
                BY <2>4 DEF Artifacts, Nothing, Writes
            <4> QED BY <1>1, <2>4, <3>3, <3>4, <4>1, NoMoreWrites DEF step
        <3>6. disk.config # None
            BY <2>4, <3>4, <3>5 DEF Completes
        <3>7. disk.receipt # None
            <4>1. \/ disk.receipt # None
                  \/ \E i \in DOMAIN op.todo : op.todo[i] = Write("receipt", "installing")
                BY <2>2, <2>4 DEF ServiceInv, Midway
            <4>2. \A i \in DOMAIN op.todo : op.todo[i] # Write("receipt", "installing")
                <5>1. step # Write("receipt", "installing")
                    BY <2>4 DEF Writes, Write
                <5>2. /\ Head(op.todo) = op.todo[1]
                      /\ \A i \in DOMAIN op.todo :
                            i = 1 \/ (i - 1 \in DOMAIN Tail(op.todo) /\ Tail(op.todo)[i - 1] = op.todo[i])
                    BY <1>1, <2>4, ListTail
                <5> QED BY <3>3, <5>1, <5>2 DEF step
            <4> QED BY <4>1, <4>2
        <3> QED BY <1>3, <2>2, <2>4, <3>6, <3>7 DEF Removable
    <2>5. CASE op.kind = "rollback"
        <3>1. /\ disk.launcher # Empty /\ disk.binary # None
            BY <2>2, <2>5 DEF ServiceInv, Midway, Solid
        <3>2. disk' = disk
            BY <1>4, <2>5
        <3> QED BY <3>1, <3>2 DEF Installable
    <2>6. CASE op.kind = "restart"
        <3>1. disk["launcher"] = op.before["launcher"] /\ disk["binary"] = op.before["binary"]
            <4>1. "launcher" \in Artifacts \ {"receipt"} /\ "binary" \in Artifacts \ {"receipt"}
                BY DEF Artifacts, Nothing
            <4> QED BY <2>2, <2>6, <4>1 DEF ServiceInv, Midway
        <3>2. disk' = disk
            BY <1>4, <2>6
        <3> QED BY <2>2, <2>6, <3>1, <3>2, ServiceAssumption DEF Installable, Solid
    <2>7. CASE op.kind = "uninstall"
        <3>1. Removable(disk) \/ Installable(disk)
            BY <2>2, <2>7 DEF ServiceInv, Midway, Installable
        <3>2. disk' = disk /\ litter' = litter
            BY <1>4, <2>7
        <3> QED BY <2>2, <3>1, <3>2 DEF Removable, Installable
    <2> QED BY <1>1, <1>4, <2>3, <2>4, <2>5, <2>6, <2>7
<1> QED BY <1>5, <1>6, <1>7, <1>8 DEF ServiceInv

\* With nothing left to do the artifacts are where the steps led.
LEMMA Arrived == ASSUME NEW d \in Disks, NEW e \in Disks, Takes(<<>>, d, e) PROVE d = e
BY TakesNothing, DisksAre

\* No step is left of none.
LEMMA NothingLeft == \A x : ~Has(<<>>, x)
BY DEF Has

\* What a completed operation leaves is whole, with the backup of what it replaced.
LEMMA CompletedIsWhole ==
    ASSUME NEW b \in Disks, NEW e \in Disks, NEW kind \in {"install", "rollback", "restart", "uninstall"},
           Completes(kind, b, e), kind # "install" => b.receipt # None
    PROVE  /\ kind = "install" => WholeDisk(e) /\ (b.binary # None => Installed(b) # None)
           /\ (kind = "rollback" /\ WholeDisk(b) /\ BackedUp(b)) => WholeDisk(e) /\ BackedUp(e) /\ ~SaysStarted(e)
           /\ (kind = "restart" /\ WholeDisk(b) /\ BackedUp(b)) => WholeDisk(e) /\ BackedUp(e)
           /\ kind = "uninstall" => e = Nothing
           /\ (Solid(b) \/ kind \in {"install", "uninstall"}) => e = Nothing \/ Solid(e)
<1>0. None \notin Versions /\ None \notin Receipts /\ None \notin Pairs
    BY ServiceAssumption
<1>1. CASE kind = "install"
    <2>1. /\ e.binary \in Versions /\ e.skill \in {None, e.binary} /\ e.config # None
          /\ e.launcher = "whole" /\ e.receipt \in {"installed_not_started", "started"}
        BY <1>1 DEF Completes
    <2>2. b.binary # None => Installed(b) \in Pairs
        BY DEF Installed, Pairs, Disks, Of
    <2> QED BY <1>0, <1>1, <2>1, <2>2 DEF WholeDisk, OneVersion, Solid, Receipts
<1>2. CASE kind = "rollback"
    <2>1. /\ b.manifest \in Pairs
          /\ e = [b EXCEPT !.binary = b.manifest.binary, !.skill = b.manifest.skill,
                           !.receipt = "rolled_back"]
        BY <1>2 DEF Completes
    <2>2. /\ e.binary = b.manifest.binary /\ e.skill = b.manifest.skill /\ e.receipt = "rolled_back"
          /\ e.config = b.config /\ e.launcher = b.launcher /\ e.manifest = b.manifest
          /\ e.oldBinary = b.oldBinary /\ e.oldSkill = b.oldSkill
        BY <2>1 DEF Disks
    <2>3. b.manifest.binary # None /\ "rolled_back" # None /\ b.manifest # None
        BY <1>0, <2>1 DEF Pairs, Receipts
    <2>4. b # Nothing
        BY <2>3 DEF Nothing
    <2>5. BackedUp(b) => previous # None /\ b.manifest = previous /\ OneVersion(b.manifest)
        BY <2>3 DEF BackedUp
    <2>6. BackedUp(b) => BackedUp(e)
        BY <2>2 DEF BackedUp
    <2>7. (WholeDisk(b) /\ BackedUp(b)) => WholeDisk(e)
        BY <2>2, <2>3, <2>4, <2>5 DEF WholeDisk, OneVersion
    <2>8. ~SaysStarted(e)
        BY <2>2 DEF SaysStarted
    <2>9. Solid(b) => Solid(e)
        BY <2>2, <2>3 DEF Solid
    <2> QED BY <1>2, <2>6, <2>7, <2>8, <2>9
<1>3. CASE kind = "restart"
    <2>1. e = [b EXCEPT !.receipt = "restarted"] /\ b # Nothing
        BY <1>3 DEF Completes, Nothing
    <2>2. /\ e.binary = b.binary /\ e.skill = b.skill /\ e.receipt = "restarted"
          /\ e.config = b.config /\ e.launcher = b.launcher /\ e.manifest = b.manifest
          /\ e.oldBinary = b.oldBinary /\ e.oldSkill = b.oldSkill
        BY <2>1 DEF Disks
    <2>3. "restarted" # None
        BY <1>0 DEF Receipts
    <2>4. BackedUp(b) => BackedUp(e)
        BY <2>2 DEF BackedUp
    <2>5. WholeDisk(b) => WholeDisk(e)
        BY <2>1, <2>2, <2>3 DEF WholeDisk, OneVersion
    <2>6. Solid(b) => Solid(e)
        BY <2>2, <2>3 DEF Solid
    <2> QED BY <1>3, <2>4, <2>5, <2>6
<1>4. CASE kind = "uninstall"
    BY <1>4 DEF Completes
<1> QED BY <1>1, <1>2, <1>3, <1>4

\* An operation ends.
LEMMA EndKeeps == ASSUME ServiceInv, End PROVE ServiceInv'
<1>0. /\ Operating /\ ~Operating' /\ op.todo = <<>>
      /\ op' = NoOperation /\ service' = service /\ lockFile' = lockFile /\ peek' = peek /\ lease' = lease
      /\ disk' = disk /\ litter' = litter /\ faults' = faults
      /\ cut' = IF op.undoing THEN cut \/ op.broken
                ELSE /\ cut
                     /\ op.kind = "install" => ~OneVersion(op.before)
                     /\ op.kind # "uninstall"
    BY DEF End, Operating
<1>1. /\ op \in Operations /\ disk \in Disks /\ op.before \in Disks
      /\ op.kind \in {"install", "rollback", "restart", "uninstall"} /\ op.undoing \in BOOLEAN
      /\ op.wasLoaded \in BOOLEAN /\ op.touched \in BOOLEAN /\ op.broken \in BOOLEAN
    BY <1>0, NextStep DEF ServiceInv
<1>2. cut \in BOOLEAN /\ service.loaded \in BOOLEAN /\ previous \in {None} \cup Pairs
    BY DEF ServiceInv, ServiceTyped
\* Going forward it is what the operation makes of what it found.
<1>3. ASSUME ~op.undoing
      PROVE  /\ Completes(op.kind, op.before, disk)
             /\ SaysStarted(disk) => Running
             /\ op.kind # "install" => op.before.receipt # None
    <2>1. Forward
        BY <1>0, <1>3 DEF Forward
    <2>2. PICK e \in Disks :
            /\ Takes(op.todo, disk, e) /\ Completes(op.kind, op.before, e)
            /\ SaysStarted(e) => Has(op.todo, "start") \/ Running
        BY <2>1 DEF ServiceInv, Ahead
    <2>3. e = disk
        BY <1>0, <1>1, <2>2, Arrived
    <2>4. op.kind # "install" => op.before.receipt # None
        BY <2>1 DEF ServiceInv, Midway
    <2> QED BY <1>0, <2>2, <2>3, <2>4, NothingLeft
\* Undoing it is what the operation found.
<1>4. ASSUME op.undoing, ~op.broken
      PROVE  /\ disk = op.before
             /\ op.kind = "uninstall" => ((op.touched /\ SaysStarted(op.before)) => Running)
             /\ (op.kind # "uninstall" /\ op.touched /\ op.wasLoaded) => Running
             /\ (op.kind # "uninstall" /\ op.touched /\ ~op.wasLoaded) => ~service.loaded
             /\ op.kind # "restart"
    <2>1. Undoing
        BY <1>0, <1>4 DEF Undoing
    <2>2. op.kind # "restart" /\ Takes(op.todo, disk, op.before)
        BY <1>4, <2>1 DEF ServiceInv, Back
    <2>3. disk = op.before
        BY <1>0, <1>1, <2>2, Arrived
    <2> QED BY <1>0, <1>4, <2>1, <2>2, <2>3, NothingLeft DEF ServiceInv, ServiceBack
<1>5. ServiceTyped'
    <2>1. cut' \in BOOLEAN
        BY <1>0, <1>1, <1>2
    <2>2. previous' \in {None} \cup Pairs
        <3>1. op.before.binary # None => Installed(op.before) \in Pairs
            BY <1>1 DEF Installed, Pairs, Disks, Of
        <3> QED BY <1>2, <3>1 DEF End
    <2> QED BY <1>0, <2>1, <2>2 DEF ServiceInv, ServiceTyped
<1>6. Leased' /\ Ahead' /\ OnRecord' /\ Back' /\ Untouched' /\ ServiceBack' /\ Midway'
    BY <1>0 DEF Leased, Ahead, OnRecord, Back, Untouched, ServiceBack, Midway, Forward, Undoing
<1>7. Settled'
    <2>1. SUFFICES ASSUME ~cut'
                   PROVE  WholeDisk(disk) /\ BackedUp(disk)' /\ (SaysStarted(disk) => Running)
        BY <1>0 DEF Settled, Running
    <2>2. ~cut => /\ WholeDisk(op.before) /\ BackedUp(op.before)
                  /\ SaysStarted(op.before) =>
                       op.wasLoaded /\ (~op.touched => service = [loaded |-> TRUE, version |-> op.before.binary])
        BY <1>0 DEF ServiceInv, Settled
    <2>3. CASE op.undoing
        <3>1. ~cut /\ ~op.broken /\ previous' = previous
            <4>1. cut' = (cut \/ op.broken)
                BY <1>0, <2>3
            <4>2. previous' = previous
                BY <2>3 DEF End
            <4> QED BY <2>1, <4>1, <4>2
        <3>2. BackedUp(disk) => BackedUp(disk)'
            BY <1>0, <3>1 DEF BackedUp
        <3>3. SaysStarted(disk) => Running
            <4>1. CASE op.touched
                BY <1>1, <1>4, <2>2, <2>3, <3>1, <4>1
            <4>2. CASE ~op.touched
                BY <1>4, <2>2, <2>3, <3>1, <4>2 DEF Running
            <4> QED BY <1>1, <4>1, <4>2
        <3> QED BY <1>4, <2>2, <2>3, <3>1, <3>2, <3>3
    <2>4. CASE ~op.undoing /\ op.kind = "install"
        <3>1. WholeDisk(disk) /\ (op.before.binary # None => Installed(op.before) # None)
            BY <1>1, <1>3, <2>4, CompletedIsWhole
        <3>2. Completes("install", op.before, disk)
            BY <1>3, <2>4
        <3>3. CASE op.before.binary = None
            <4>1. ~cut /\ previous' = previous
                BY <1>0, <1>2, <2>1, <2>4, <3>3 DEF End, OneVersion
            <4>2. <<disk.manifest, disk.oldBinary, disk.oldSkill>>
                      = <<op.before.manifest, op.before.oldBinary, op.before.oldSkill>>
                BY <3>2, <3>3 DEF Completes
            <4>3. /\ disk.manifest = op.before.manifest /\ disk.oldBinary = op.before.oldBinary
                  /\ disk.oldSkill = op.before.oldSkill
                BY <4>2
            <4>4. BackedUp(disk)'
                BY <1>0, <2>2, <4>1, <4>3 DEF BackedUp
            <4> QED BY <1>3, <2>4, <3>1, <4>4
        <3>4. CASE op.before.binary # None
            <4>1. previous' = Installed(op.before)
                BY <2>4, <3>4 DEF End
            <4>2. <<disk.manifest, disk.oldBinary, disk.oldSkill>>
                      = <<Installed(op.before), op.before.binary, op.before.skill>>
                BY <3>2, <3>4 DEF Completes
            <4>3. OneVersion(op.before)
                <5>1. op.before # Nothing
                    BY <3>4 DEF Nothing
                <5> QED BY <1>0, <1>2, <2>1, <2>2, <2>4, <5>1 DEF WholeDisk
            <4>4. OneVersion(Installed(op.before))
                BY <4>3 DEF OneVersion, Installed
            <4>5. BackedUp(disk)'
                <5>1. disk.manifest = Installed(op.before) /\ disk.oldBinary = op.before.binary
                      /\ disk.oldSkill = op.before.skill
                    BY <4>2
                <5> QED BY <1>0, <3>1, <3>4, <4>1, <4>4, <5>1 DEF BackedUp, Installed
            <4> QED BY <1>3, <2>4, <3>1, <4>5
        <3> QED BY <3>3, <3>4
    <2>5. CASE ~op.undoing /\ op.kind \in {"rollback", "restart"}
        <3>1. ~cut /\ previous' = previous
            BY <1>0, <1>2, <2>1, <2>5 DEF End
        <3>2. WholeDisk(disk) /\ BackedUp(disk)
            BY <1>1, <1>3, <2>2, <2>5, <3>1, CompletedIsWhole
        <3>3. BackedUp(disk)'
            BY <1>0, <3>1, <3>2 DEF BackedUp
        <3> QED BY <1>3, <2>5, <3>2, <3>3
    <2>6. CASE ~op.undoing /\ op.kind = "uninstall"
        <3>1. disk = Nothing /\ previous' = None
            BY <1>3, <2>6 DEF Completes, End
        <3>2. BackedUp(disk)'
            BY <1>0, <3>1 DEF BackedUp, Nothing
        <3> QED BY <1>3, <2>6, <3>1, <3>2 DEF WholeDisk
    <2> QED BY <1>1, <2>3, <2>4, <2>5, <2>6
<1>8. Faultless'
    <2>1. litter => faults >= 1
        BY DEF ServiceInv, Faultless
    <2>2. ASSUME faults = 0 PROVE disk = Nothing \/ Solid(disk)
        <3>1. ~op.undoing /\ (op.kind = "install" \/ Solid(op.before))
            BY <1>0, <2>2 DEF ServiceInv, Faultless
        <3> QED BY <1>1, <1>3, <3>1, CompletedIsWhole
    <2> QED BY <1>0, <2>1, <2>2 DEF Faultless
<1>9. WaysOut'
    <2>1. SUFFICES ASSUME faults <= 1 PROVE Installable(disk) \/ (Removable(disk) /\ ~litter)
        BY <1>0 DEF WaysOut
    <2>2. Installable(op.before) \/ (Removable(op.before) /\ ~litter)
        BY <1>0, <2>1 DEF ServiceInv, WaysOut
    <2>3. CASE op.undoing /\ op.kind # "restart"
        <3>1. Undoing /\ faults \in Nat
            BY <1>0, <2>3 DEF Undoing, ServiceInv, ServiceTyped
        <3>2. Takes(op.todo, disk, op.before)
            BY <2>1, <2>3, <3>1 DEF ServiceInv, Back
        <3>3. disk = op.before
            BY <1>0, <1>1, <3>2, Arrived
        <3> QED BY <2>2, <3>3
    <2>4. CASE op.kind = "restart"
        <3>1. disk.receipt \in {op.before.receipt, "restarted"} /\ \A a \in Artifacts \ {"receipt"} : disk[a] = op.before[a]
            BY <1>0, <1>1, <2>4 DEF ServiceInv, Back, Midway, Forward, Undoing
        <3>2. /\ disk["config"] = op.before["config"] /\ disk["binary"] = op.before["binary"]
              /\ disk["skill"] = op.before["skill"] /\ disk["launcher"] = op.before["launcher"]
            BY <3>1 DEF Artifacts, Nothing
        <3>3. op.before.receipt # None => disk.receipt # None
            BY <3>1, ServiceAssumption DEF Receipts
        <3> QED BY <2>2, <3>2, <3>3 DEF Installable, Removable
    <2>5. CASE ~op.undoing /\ op.kind = "install"
        BY <1>0, <1>1, <2>5 DEF ServiceInv, Midway, Forward
    <2>6. CASE ~op.undoing /\ op.kind = "rollback"
        <3>1. disk.launcher # Empty
            BY <1>0, <1>1, <2>6 DEF ServiceInv, Midway, Forward
        <3>2. disk.binary # None
            <4>1. /\ op.before.manifest \in Pairs
                  /\ disk = [op.before EXCEPT !.binary = op.before.manifest.binary,
                               !.skill = op.before.manifest.skill, !.receipt = "rolled_back"]
                BY <1>3, <2>6 DEF Completes
            <4> QED BY <1>1, <4>1, ServiceAssumption DEF Disks, Pairs
        <3> QED BY <3>1, <3>2 DEF Installable
    <2>7. CASE ~op.undoing /\ op.kind = "uninstall"
        <3>1. disk = Nothing
            BY <1>3, <2>7 DEF Completes
        <3> QED BY <3>1, ServiceAssumption DEF Installable, Nothing
    <2> QED BY <1>1, <2>3, <2>4, <2>5, <2>6, <2>7
<1> QED BY <1>5, <1>6, <1>7, <1>8, <1>9 DEF ServiceInv

-----------------------------------------------------------------------------
(* A step of an operation.                                                 *)

\* What a step does to the disk and the service.
LEMMA Performing ==
    ASSUME ServiceTyped, Operating, op.todo # <<>>, Performed(step)
    PROVE  /\ disk' \in Disks
           /\ step.does = "write" =>
                \A a \in Artifacts : disk'[a] = IF a = step.what THEN step.to ELSE disk[a]
           /\ step.does # "write" => disk' = disk
           /\ step.does = "start" => Running' /\ service'.loaded
           /\ step.does = "stop" => service' = Stopped /\ ~service'.loaded
           /\ step.does \notin {"start", "stop"} => service' = service
           /\ service' \in [loaded : BOOLEAN, version : {None} \cup Versions]
<1>1. /\ disk \in Disks
      /\ \/ step.does = "write" /\ step.what \in Artifacts /\ step.to \in Of(step.what)
         \/ step.does \in Doings /\ step.does # "write"
    BY NextStep
<1>2. ASSUME step.does = "write"
      PROVE  /\ disk' \in Disks
             /\ \A a \in Artifacts : disk'[a] = IF a = step.what THEN step.to ELSE disk[a]
    <2>1. disk' = [disk EXCEPT ![step.what] = step.to]
        BY <1>2 DEF Performed
    <2>2. step.what \in Artifacts /\ step.to \in Of(step.what)
        BY <1>1, <1>2
    <2>3. DOMAIN disk = Artifacts /\ disk' \in Disks
        BY <1>1, <2>1, <2>2, DisksAre
    <2>4. disk = [a \in Artifacts |-> disk[a]]
        BY <1>1, <2>3 DEF Disks, Artifacts, Nothing
    <2> QED BY <2>1, <2>2, <2>3, <2>4
<1>3. step.does # "write" => disk' = disk
    BY DEF Performed
<1>4. /\ step.does = "start" => service' = [loaded |-> TRUE, version |-> disk.binary] /\ disk' = disk
      /\ step.does = "stop" => service' = Stopped
      /\ step.does \notin {"start", "stop"} => service' = service
    BY DEF Performed, Started
<1>5. step.does = "start" => Running' /\ service'.loaded
    BY <1>4 DEF Running
<1>6. disk.binary \in {None} \cup Versions
    BY <1>1 DEF Disks, Of
<1>7. service' \in [loaded : BOOLEAN, version : {None} \cup Versions]
    <2>1. CASE step.does = "start"
        <3>1. service' = [loaded |-> TRUE, version |-> disk.binary]
            BY <1>4, <2>1
        <3> QED BY <1>6, <3>1
    <2>2. CASE step.does = "stop"
        <3>1. service' = [loaded |-> FALSE, version |-> None]
            BY <1>4, <2>2 DEF Stopped
        <3> QED BY <3>1
    <2>3. CASE step.does \notin {"start", "stop"}
        BY <1>4, <2>3 DEF ServiceTyped
    <2> QED BY <2>1, <2>2, <2>3
<1>8. ~Stopped.loaded
    BY DEF Stopped
<1> QED BY <1>1, <1>2, <1>3, <1>4, <1>5, <1>7, <1>8

\* What is recorded of it.
LEMMA Recording ==
    ASSUME NEW o \in Operations, NEW s \in Steps
    PROVE  /\ Recorded(o, s) \in Operations
           /\ Recorded(o, s).kind = o.kind /\ Recorded(o, s).todo = o.todo /\ Recorded(o, s).before = o.before
           /\ Recorded(o, s).wasLoaded = o.wasLoaded /\ Recorded(o, s).undoing = o.undoing
           /\ Recorded(o, s).broken = o.broken
           /\ Recorded(o, s).touched = (o.touched \/ Touches(s))
           /\ Recorded(o, s).done = IF s.does = "write" /\ ~o.undoing THEN Append(o.done, s.what) ELSE o.done
<1>1. s.does = "write" => s.what \in Artifacts
    BY StepsAre
<1>2. Touches(s) \in BOOLEAN
    BY DEF Touches
<1>3. PICK f : f = IF s.does = "write" /\ ~o.undoing THEN Append(o.done, s.what) ELSE o.done
    OBVIOUS
<1>4. f \in Seq(Artifacts)
    BY <1>1, <1>3 DEF Operations
<1>5. PICK g : g = (o.touched \/ Touches(s))
    OBVIOUS
<1>6. g \in BOOLEAN
    BY <1>2, <1>5 DEF Operations
<1>7. Recorded(o, s) = [o EXCEPT !.done = f, !.touched = g]
    BY <1>3, <1>5 DEF Recorded
<1>8. Recorded(o, s) \in Operations
    BY <1>4, <1>6, <1>7 DEF Operations
<1> QED BY <1>3, <1>5, <1>7, <1>8 DEF Operations

\* What is on record stays there, and what is added is.
LEMMA RecordHolds ==
    ASSUME NEW S, NEW done \in Seq(S), NEW b \in S
    PROVE  /\ Len(done) + 1 \in DOMAIN Append(done, b) /\ Append(done, b)[Len(done) + 1] = b
           /\ \A i \in DOMAIN done : i \in DOMAIN Append(done, b) /\ Append(done, b)[i] = done[i]
OBVIOUS

\* The next step succeeds.
LEMMA AdvanceKeeps == ASSUME ServiceInv, Advance PROVE ServiceInv'
<1>0. /\ Operating /\ op.todo # <<>> /\ Performed(step) /\ ServiceTyped
      /\ op' = [Recorded(op, step) EXCEPT !.todo = Tail(@)]
      /\ litter' = litter /\ lockFile' = lockFile /\ peek' = peek /\ lease' = lease
      /\ faults' = faults /\ cut' = cut /\ previous' = previous
    BY DEF Advance, Operating, ServiceInv
<1>1. /\ op \in Operations /\ disk \in Disks /\ op.before \in Disks /\ op.todo \in Seq(Steps)
      /\ op.done \in Seq(Artifacts) /\ op.wasLoaded \in BOOLEAN /\ op.touched \in BOOLEAN
      /\ op.undoing \in BOOLEAN /\ op.broken \in BOOLEAN
      /\ op.kind \in {"install", "rollback", "restart", "uninstall"}
      /\ step \in Steps
      /\ \/ step.does = "write" /\ step.what \in Artifacts /\ step.to \in Of(step.what)
         \/ step.does \in Doings /\ step.does # "write"
    BY <1>0, NextStep
<1>2. PICK rest : rest = Tail(op.todo)
    OBVIOUS
<1>3. /\ rest \in Seq(Steps)
      /\ \A i \in DOMAIN op.todo : op.todo[i] = step \/ \E j \in DOMAIN rest : rest[j] = op.todo[i]
      /\ \A j \in DOMAIN rest : \E i \in DOMAIN op.todo : op.todo[i] = rest[j]
    BY <1>0, <1>1, <1>2, ListTail DEF step
<1>4. /\ op'.kind = op.kind /\ op'.todo = rest /\ op'.before = op.before
      /\ op'.wasLoaded = op.wasLoaded /\ op'.undoing = op.undoing /\ op'.broken = op.broken
      /\ op'.touched = (op.touched \/ Touches(step))
      /\ op'.done = (IF step.does = "write" /\ ~op.undoing THEN Append(op.done, step.what) ELSE op.done)
      /\ op' \in Operations
    <2>1. PICK r : r = Recorded(op, step)
        OBVIOUS
    <2>2. r \in Operations /\ op' = [r EXCEPT !.todo = rest]
        <3>1. r \in Operations /\ r.todo = op.todo
            BY <1>1, <2>1, Recording
        <3> QED BY <1>0, <1>2, <2>1, <3>1
    <2>3. /\ op'.kind = r.kind /\ op'.todo = rest /\ op'.before = r.before
          /\ op'.wasLoaded = r.wasLoaded /\ op'.undoing = r.undoing /\ op'.broken = r.broken
          /\ op'.touched = r.touched /\ op'.done = r.done /\ op' \in Operations
        BY <1>3, <2>2 DEF Operations
    <2> QED BY <1>1, <2>1, <2>3, Recording
<1>5. op' # NoOperation /\ Operating' /\ (Forward' <=> Forward) /\ (Undoing' <=> Undoing)
    <2>1. op' # NoOperation
        BY <1>1, <1>4 DEF NoOperation
    <2> QED BY <1>0, <1>4, <2>1 DEF Operating, Forward, Undoing
<1>6. /\ disk' \in Disks
      /\ step.does = "write" => \A a \in Artifacts : disk'[a] = IF a = step.what THEN step.to ELSE disk[a]
      /\ step.does # "write" => disk' = disk
      /\ step.does = "start" => Running' /\ service'.loaded
      /\ step.does = "stop" => ~service'.loaded
      /\ step.does \notin {"start", "stop"} => service' = service
      /\ service' \in [loaded : BOOLEAN, version : {None} \cup Versions]
    BY <1>0, Performing
<1>7. ~op'.touched => ~op.touched /\ service' = service
    BY <1>1, <1>4, <1>6 DEF Touches
<1>8. ServiceTyped'
    BY <1>0, <1>4, <1>6 DEF ServiceTyped
<1>9. Leased'
    BY <1>0 DEF ServiceInv, Leased
<1>10. \A d \in Disks : Takes(op.todo, disk, d) => Takes(rest, disk', d)
    <2>1. IF Head(op.todo).does = "write"
          THEN \A a \in Artifacts : disk'[a] = IF a = Head(op.todo).what THEN Head(op.todo).to ELSE disk[a]
          ELSE \A a \in Artifacts : disk'[a] = disk[a]
        BY <1>6 DEF step
    <2> QED BY <1>0, <1>1, <1>2, <2>1, TakesTail
\* Forward.
<1>11. Forward => /\ InOrder(op.kind, op.todo) /\ AllBelong(op.kind, op.todo)
                  /\ InOrder(op.kind, rest) /\ AllBelong(op.kind, rest) /\ Belongs(op.kind, step)
                  /\ \A j \in DOMAIN rest : Goes(op.kind, step, rest[j])
    <2>1. Forward => InOrder(op.kind, op.todo) /\ AllBelong(op.kind, op.todo)
        BY DEF ServiceInv, Ahead
    <2> QED BY <1>0, <1>1, <1>2, <2>1, OrderTail DEF step
<1>12. Ahead'
    <2> SUFFICES ASSUME Forward PROVE Ahead'
        BY <1>5 DEF Ahead
    <2>1. PICK e \in Disks :
            /\ Takes(op.todo, disk, e) /\ Completes(op.kind, op.before, e)
            /\ SaysStarted(e) => \/ Has(op.todo, "start")
                                 \/ Running /\ \A i \in DOMAIN op.todo : ~Writes(op.todo[i], "binary")
        BY DEF ServiceInv, Ahead
    <2>2. ASSUME SaysStarted(e)
          PROVE  Has(rest, "start") \/ (Running' /\ \A i \in DOMAIN rest : ~Writes(rest[i], "binary"))
        <3>1. step.does # "stop"
            <4>1. op.kind \in {"install", "restart"}
                <5>1. op.kind # "rollback"
                    <6>1. op.kind = "rollback" => e.receipt = "rolled_back"
                        BY <1>1, <2>1 DEF Completes, Disks
                    <6> QED BY <2>2, <6>1 DEF SaysStarted
                <5>2. op.kind # "uninstall"
                    <6>1. op.kind = "uninstall" => e.receipt = None
                        BY <2>1 DEF Completes, Nothing
                    <6> QED BY <2>2, <6>1, ServiceAssumption DEF SaysStarted, Receipts
                <5> QED BY <1>1, <5>1, <5>2
            <4>2. op.kind = "install" => step.does # "stop"
                BY <1>11 DEF Belongs, Write
            <4>3. op.kind = "restart" => step.does # "stop"
                BY <1>11 DEF Belongs, Write
            <4> QED BY <4>1, <4>2, <4>3
        <3>2. CASE step.does = "start"
            BY <1>6, <1>11, <3>2 DEF Goes
        <3>3. CASE step.does # "start" /\ Has(op.todo, "start")
            BY <1>3, <3>3 DEF Has
        <3>4. CASE step.does # "start" /\ Running /\ \A i \in DOMAIN op.todo : ~Writes(op.todo[i], "binary")
            <4>1. service' = service
                BY <1>6, <3>1, <3>4
            <4>2. ~Writes(step, "binary")
                <5>1. 1 \in DOMAIN op.todo /\ op.todo[1] = step
                    BY <1>0, <1>1, ListTail DEF step
                <5> QED BY <3>4, <5>1
            <4>3. disk'["binary"] = disk["binary"]
                BY <1>6, <4>2 DEF Writes, Artifacts, Nothing
            <4> QED BY <1>3, <3>4, <4>1, <4>3 DEF Running
        <3> QED BY <2>1, <2>2, <3>2, <3>3, <3>4
    <2>3. ~Has(rest, "stop")
        BY <1>11 DEF Has, Goes
    <2>4. ~op'.broken
        BY <1>4 DEF ServiceInv, Ahead
    <2>5. Takes(rest, disk', e)
        BY <1>10, <2>1
    <2> QED BY <1>4, <1>11, <2>1, <2>2, <2>3, <2>4, <2>5 DEF Ahead
<1>13. OnRecord'
    <2> SUFFICES ASSUME Forward PROVE OnRecord'
        BY <1>5 DEF OnRecord
    <2>1. \A a \in Artifacts : disk[a] # op.before[a] => \E i \in DOMAIN op.done : op.done[i] = a
        BY DEF ServiceInv, OnRecord
    <2>2. CASE step.does = "write"
        <3>1. op'.done = Append(op.done, step.what)
            BY <1>4, <2>2 DEF Forward
        <3>2. \A a \in Artifacts : a # step.what => disk'[a] = disk[a]
            BY <1>6, <2>2
        <3>3. ASSUME NEW a \in Artifacts, disk'[a] # op.before[a]
              PROVE  \E i \in DOMAIN Append(op.done, step.what) : Append(op.done, step.what)[i] = a
            <4>1. a = step.what \/ \E i \in DOMAIN op.done : op.done[i] = a
                BY <2>1, <3>2, <3>3
            <4>2. PICK done \in Seq(Artifacts) : done = op.done
                BY <1>1
            <4>3. PICK b \in Artifacts : b = step.what
                BY <1>1, <2>2
            <4>4. a = b \/ \E i \in DOMAIN done : done[i] = a
                BY <4>1, <4>2, <4>3
            <4>5. \E i \in DOMAIN Append(done, b) : Append(done, b)[i] = a
                <5>1. /\ Len(done) + 1 \in DOMAIN Append(done, b) /\ Append(done, b)[Len(done) + 1] = b
                      /\ \A i \in DOMAIN done : i \in DOMAIN Append(done, b) /\ Append(done, b)[i] = done[i]
                    BY RecordHolds
                <5> QED BY <4>4, <5>1
            <4> QED BY <4>2, <4>3, <4>5
        <3> QED BY <1>4, <3>1, <3>3 DEF OnRecord
    <2>3. CASE step.does # "write"
        BY <1>4, <1>6, <2>1, <2>3 DEF OnRecord
    <2> QED BY <2>2, <2>3
<1>14. Midway'
    <2> SUFFICES ASSUME Forward PROVE Midway'
        BY <1>5 DEF Midway
    <2>1. op'.kind # "install" => op'.before.receipt # None
        BY <1>4 DEF ServiceInv, Midway
    <2>2. {"launcher", "binary", "skill", "receipt", "config"} \subseteq Artifacts
        BY DEF Artifacts, Nothing
    <2>3. PICK e \in Disks : Takes(op.todo, disk, e) /\ Completes(op.kind, op.before, e)
        BY DEF ServiceInv, Ahead
    <2>4. CASE op.kind = "install"
        <3>1. /\ Installable(disk)
              /\ disk.receipt # None \/ \E i \in DOMAIN op.todo : op.todo[i] = Write("receipt", "installing")
            BY <2>4 DEF ServiceInv, Midway
        <3>2. Belongs("install", step)
            BY <1>11, <2>4
        <3>3. disk'["launcher"] # Empty
            <4>1. Writes(step, "launcher") => step.to = "whole"
                BY <3>2 DEF Belongs, Writes, Write
            <4> QED BY <1>6, <2>2, <3>1, <4>1, ServiceAssumption DEF Installable, Writes
        <3>4. ~(disk'["binary"] = None /\ disk'["skill"] # None)
            <4>1. CASE Writes(step, "skill")
                <5>1. \A j \in DOMAIN rest : ~Writes(rest[j], "binary")
                    BY <1>11, <2>4, <4>1 DEF Goes
                <5>2. ~Writes(step, "binary")
                    BY <4>1 DEF Writes
                <5>3. e["binary"] = disk["binary"]
                    <6>1. PICK s : s = op.todo
                        OBVIOUS
                    <6>2. PICK a : a = "binary"
                        OBVIOUS
                    <6>3. s \in Seq(Steps) /\ s # <<>> /\ Takes(s, disk, e) /\ a \in Artifacts
                        BY <1>0, <1>1, <1>2, <2>2, <2>3, <6>1, <6>2
                    <6>4. ~Writes(Head(s), a) /\ \A j \in DOMAIN Tail(s) : ~Writes(Tail(s)[j], a)
                        BY <1>2, <5>1, <5>2, <6>1, <6>2 DEF step
                    <6>5. e[a] = disk[a]
                        BY <6>3, <6>4, NoMoreWrites
                    <6> QED BY <6>2, <6>5
                <5>4. e.binary # None
                    BY <2>3, <2>4, ServiceAssumption DEF Completes
                <5>5. disk'["binary"] = disk["binary"]
                    BY <1>6, <2>2, <5>2 DEF Writes
                <5> QED BY <5>3, <5>4, <5>5
            <4>2. CASE Writes(step, "binary")
                <5>1. step.to # None
                    BY <3>2, <4>2 DEF Belongs, Writes, Write
                <5> QED BY <1>6, <2>2, <4>2, <5>1 DEF Writes
            <4>3. CASE ~Writes(step, "skill") /\ ~Writes(step, "binary")
                <5>1. disk'["binary"] = disk["binary"] /\ disk'["skill"] = disk["skill"]
                    BY <1>6, <2>2, <4>3 DEF Writes
                <5> QED BY <3>1, <5>1 DEF Installable
            <4> QED BY <4>1, <4>2, <4>3
        <3>5. disk'["receipt"] # None \/ \E i \in DOMAIN rest : rest[i] = Write("receipt", "installing")
            <4>1. CASE Writes(step, "receipt")
                <5>1. step.to # None
                    BY <3>2, <4>1 DEF Belongs, Writes, Write
                <5> QED BY <1>6, <2>2, <4>1, <5>1 DEF Writes
            <4>2. CASE ~Writes(step, "receipt")
                <5>1. disk'["receipt"] = disk["receipt"] /\ step # Write("receipt", "installing")
                    BY <1>6, <2>2, <4>2 DEF Writes, Write
                <5> QED BY <1>3, <3>1, <5>1
            <4> QED BY <4>1, <4>2
        <3> QED BY <1>4, <2>1, <2>4, <3>3, <3>4, <3>5 DEF Midway, Installable
    <2>5. CASE op.kind = "rollback"
        <3>1. /\ disk.launcher = op.before.launcher /\ op.before.launcher # Empty
              /\ op.before.binary # None => disk.binary # None
            BY <2>5 DEF ServiceInv, Midway
        <3>2. ~Writes(step, "launcher") /\ (Writes(step, "binary") => step.to # None)
            BY <1>11, <2>5 DEF Belongs, Writes
        <3>3. disk'["launcher"] = disk["launcher"] /\ (disk'["binary"] = disk["binary"] \/ disk'["binary"] # None)
            BY <1>6, <2>2, <3>2 DEF Writes
        <3> QED BY <1>4, <2>1, <2>5, <3>1, <3>3 DEF Midway
    <2>6. CASE op.kind = "restart"
        <3>1. /\ disk.receipt \in {op.before.receipt, "restarted"}
              /\ \A a \in Artifacts \ {"receipt"} : disk[a] = op.before[a]
            BY <2>6 DEF ServiceInv, Midway
        <3>2. step.does = "start" \/ step = Write("receipt", "restarted")
            BY <1>11, <2>6 DEF Belongs
        <3>3. /\ disk'["receipt"] \in {op.before.receipt, "restarted"}
              /\ \A a \in Artifacts \ {"receipt"} : disk'[a] = op.before[a]
            BY <1>6, <2>2, <3>1, <3>2 DEF Write
        <3> QED BY <1>4, <2>1, <2>6, <3>3 DEF Midway
    <2>7. CASE op.kind = "uninstall"
        <3>1. Removable(disk) \/ (disk.binary = None /\ disk.skill = None /\ disk.launcher # Empty)
            BY <2>7 DEF ServiceInv, Midway
        <3>2. step.does = "write" => step.to = None
            BY <1>11, <2>7 DEF Belongs
        <3>3. CASE step.does = "write" /\ step.what \in {"config", "receipt"}
            <4>1. \A a \in {"binary", "skill", "launcher"} :
                    ~Writes(step, a) /\ \A j \in DOMAIN rest : ~Writes(rest[j], a)
                BY <1>11, <2>7, <3>3 DEF Goes, Writes
            <4>2. \A a \in {"binary", "skill", "launcher"} : e[a] = disk[a]
                BY <1>0, <1>1, <1>2, <2>2, <2>3, <4>1, NoMoreWrites DEF step
            <4>3. \A a \in {"binary", "skill", "launcher"} : disk'[a] = disk[a]
                BY <1>6, <2>2, <4>1 DEF Writes
            <4>4. e.binary = None /\ e.skill = None /\ e.launcher = None
                BY <2>3, <2>7 DEF Completes, Nothing
            <4>5. disk'["binary"] = None /\ disk'["skill"] = None /\ disk'["launcher"] = None
                BY <4>2, <4>3, <4>4
            <4> QED BY <1>4, <2>1, <2>7, <4>5, ServiceAssumption DEF Midway
        <3>4. CASE step.does = "write" /\ step.what \notin {"config", "receipt"}
            <4>1. \A a \in {"binary", "skill", "launcher"} : disk'[a] \in {disk[a], None}
                BY <1>6, <2>2, <3>2, <3>4
            <4>2. disk'["config"] = disk["config"] /\ disk'["receipt"] = disk["receipt"]
                BY <1>6, <2>2, <3>4
            <4>3. /\ disk'["binary"] \in {disk["binary"], None} /\ disk'["skill"] \in {disk["skill"], None}
                  /\ disk'["launcher"] \in {disk["launcher"], None}
                BY <4>1
            <4> QED BY <1>4, <2>1, <2>7, <3>1, <4>2, <4>3, ServiceAssumption DEF Midway, Removable
        <3>5. CASE step.does # "write"
            BY <1>4, <1>6, <2>1, <2>7, <3>1, <3>5 DEF Midway, Removable
        <3> QED BY <3>3, <3>4, <3>5
    <2> QED BY <1>1, <2>4, <2>5, <2>6, <2>7
\* Undoing.
<1>15. Undoing => /\ op.kind # "restart"
                  /\ StopFirst(rest) /\ ~Has(rest, "stop") /\ (step.does = "start" => rest = <<>>)
                  /\ op.kind = "uninstall" => step.does # "stop"
                  /\ (op.kind # "uninstall" /\ ~op.touched) => step.does \notin {"start", "stop"} /\ ~Has(rest, "start")
    <2>1. Undoing => /\ op.kind # "restart" /\ StopFirst(op.todo)
                     /\ op.kind = "uninstall" => ~Has(op.todo, "stop")
                     /\ (op.kind # "uninstall" /\ ~op.touched) => ~Has(op.todo, "stop") /\ ~Has(op.todo, "start")
        BY <1>0 DEF ServiceInv, Back
    <2>2. \A x : Has(op.todo, x) <=> (step.does = x \/ Has(rest, x))
        BY <1>0, <1>1, <1>2, HasTail DEF step
    <2>3. StopFirst(op.todo) => StopFirst(rest) /\ ~Has(rest, "stop") /\ (step.does = "start" => rest = <<>>)
        BY <1>0, <1>1, <1>2, StopFirstTail DEF step
    <2> QED BY <2>1, <2>2, <2>3
<1>16. Back'
    <2> SUFFICES ASSUME Undoing PROVE Back'
        BY <1>5 DEF Back
    <2>1. Takes(op.todo, disk, op.before) \/ (op.broken /\ faults >= 2)
        BY <1>15 DEF ServiceInv, Back
    <2>2. Takes(rest, disk', op.before) \/ (op.broken /\ faults >= 2)
        BY <1>1, <1>10, <2>1
    <2>3. ~op'.touched => ~op.touched
        BY <1>7
    <2> QED BY <1>0, <1>4, <1>15, <2>2, <2>3 DEF Back
<1>17. ServiceBack'
    <2> SUFFICES ASSUME Undoing, ~op.broken PROVE ServiceBack'
        BY <1>4, <1>5 DEF ServiceBack
    <2>1. \A x : Has(op.todo, x) <=> (step.does = x \/ Has(rest, x))
        BY <1>0, <1>1, <1>2, HasTail DEF step
    <2>2. CASE op.kind = "uninstall"
        <3>1. (op.touched /\ SaysStarted(op.before)) => Has(op.todo, "start")
            BY <1>0, <2>2 DEF ServiceInv, ServiceBack
        <3>2. SUFFICES ASSUME op'.touched, SaysStarted(op.before)
                       PROVE  Has(rest, "start") \/ (rest = <<>> /\ Running')
            BY <1>4, <2>2 DEF ServiceBack
        <3>3. CASE step.does = "start"
            BY <1>6, <1>15, <3>3
        <3>4. CASE step.does # "start"
            <4>1. op.touched
                BY <1>1, <1>4, <1>15, <2>2, <3>2, <3>4 DEF Touches
            <4> QED BY <2>1, <3>1, <3>2, <3>4, <4>1
        <3> QED BY <3>3, <3>4
    <2>3. CASE op.kind # "uninstall" /\ op.touched
        <3>1. /\ Has(op.todo, "stop") \/ ~service.loaded
              /\ Has(op.todo, "start") <=> op.wasLoaded
            BY <1>0, <2>3 DEF ServiceInv, ServiceBack
        <3>2. CASE step.does = "start"
            <4>1. op.wasLoaded /\ rest = <<>> /\ Running'
                BY <1>6, <1>15, <2>1, <3>1, <3>2
            <4> QED BY <1>4, <2>3, <4>1 DEF ServiceBack
        <3>3. CASE step.does # "start"
            <4>1. ~service'.loaded
                BY <1>6, <1>15, <2>1, <3>1, <3>3
            <4>2. Has(rest, "start") <=> op.wasLoaded
                BY <2>1, <3>1, <3>3
            <4> QED BY <1>4, <2>3, <4>1, <4>2 DEF ServiceBack
        <3> QED BY <3>2, <3>3
    <2>4. CASE op.kind # "uninstall" /\ ~op.touched
        <3>1. ~op'.touched
            BY <1>4, <1>15, <2>4 DEF Touches
        <3> QED BY <1>4, <2>4, <3>1 DEF ServiceBack
    <2> QED BY <2>2, <2>3, <2>4
\* Either way.
<1>18. Untouched'
    BY <1>0, <1>4, <1>5, <1>7 DEF ServiceInv, Untouched
<1>19. Settled'
    <2>1. ~cut => /\ WholeDisk(op.before) /\ BackedUp(op.before)
                  /\ SaysStarted(op.before) =>
                       op.wasLoaded /\ (~op.touched => service = [loaded |-> TRUE, version |-> op.before.binary])
        BY <1>0 DEF ServiceInv, Settled
    <2>2. BackedUp(op.before) => BackedUp(op.before)'
        BY <1>0, <1>4 DEF BackedUp
    <2> QED BY <1>0, <1>4, <1>5, <1>7, <2>1, <2>2 DEF Settled
<1>20. Faultless'
    BY <1>0, <1>4, <1>5 DEF ServiceInv, Faultless
<1>21. WaysOut'
    BY <1>0, <1>4, <1>5 DEF ServiceInv, WaysOut
<1> QED BY <1>8, <1>9, <1>12, <1>13, <1>14, <1>16, <1>17, <1>18, <1>19, <1>20, <1>21 DEF ServiceInv

-----------------------------------------------------------------------------
(* A step that fails.                                                      *)

\* The list that undoes an operation: it leads back, and treats the service last.
LEMMA UndoSuits ==
    ASSUME NEW o \in Operations, NEW d \in Disks,
           \A a \in Artifacts : d[a] # o.before[a] => \E i \in DOMAIN o.done : o.done[i] = a
    PROVE  /\ UndoSteps(o) \in Seq(Steps) /\ Takes(UndoSteps(o), d, o.before) /\ StopFirst(UndoSteps(o))
           /\ o.kind = "uninstall" =>
                /\ ~Has(UndoSteps(o), "stop")
                /\ SaysStarted(o.before) => Has(UndoSteps(o), "start")
           /\ o.kind # "uninstall" =>
                /\ Has(UndoSteps(o), "stop") <=> o.touched
                /\ Has(UndoSteps(o), "start") <=> (o.touched /\ o.wasLoaded)
<1> DEFINE u == UndoWrites(o.done, o.before)
           start == <<Do("start")>>
           stop == <<Do("stop")>>
<1>0. /\ o.before \in Disks /\ o.done \in Seq(Artifacts) /\ o.touched \in BOOLEAN /\ o.wasLoaded \in BOOLEAN
    BY DEF Operations
<1>1. /\ Len(o.done) \in Nat /\ DOMAIN o.done = 1..Len(o.done)
      /\ DOMAIN u = 1..Len(o.done)
      /\ \A i \in 1..Len(o.done) :
            /\ o.done[Len(o.done) - i + 1] \in Artifacts
            /\ u[i] = Write(o.done[Len(o.done) - i + 1], o.before[o.done[Len(o.done) - i + 1]])
    <2>1. PICK s \in Seq(Artifacts) : s = o.done
        BY <1>0
    <2>2. /\ Len(s) \in Nat /\ DOMAIN s = 1..Len(s) /\ DOMAIN UndoWrites(s, o.before) = 1..Len(s)
          /\ \A i \in 1..Len(s) :
                /\ Len(s) - i + 1 \in 1..Len(s)
                /\ UndoWrites(s, o.before)[i] = Write(s[Len(s) - i + 1], o.before[s[Len(s) - i + 1]])
        BY DEF UndoWrites, Reverse
    <2>3. \A i \in 1..Len(s) : s[Len(s) - i + 1] \in Artifacts
        BY <2>2
    <2> QED BY <2>1, <2>2, <2>3
<1>2. \A i \in DOMAIN u : u[i] \in Steps /\ u[i].does = "write"
    <2>1. \A a \in Artifacts : o.before[a] \in Of(a)
        BY <1>0, DisksAre
    <2>2. \A a \in Artifacts : Write(a, o.before[a]) \in Steps /\ Write(a, o.before[a]).does = "write"
        BY <2>1, StepsAre DEF Write
    <2> HIDE DEF u
    <2> QED BY <1>1, <2>2
<1>3. u \in Seq(Steps)
    <2> HIDE DEF u
    <2>1. u = [i \in 1..Len(o.done) |-> u[i]]
        <3>1. u = [i \in DOMAIN u |-> u[i]]
            BY DEF u, UndoWrites
        <3> QED BY <1>1, <3>1
    <2>2. PICK n \in Nat : n = Len(o.done)
        BY <1>1
    <2>3. u \in [1..n -> Steps]
        BY <1>1, <1>2, <2>1, <2>2
    <2> QED BY <2>3
<1>4. Takes(u, d, o.before)
    BY <1>0, TakesBack
<1>5. StopFirst(u) /\ ~Has(u, "stop") /\ ~Has(u, "start")
    BY <1>2 DEF StopFirst, Has
<1>6. /\ start \in Seq(Steps) /\ stop \in Seq(Steps) /\ StopFirst(start) /\ StopFirst(stop)
      /\ Has(start, "start") /\ ~Has(start, "stop") /\ Has(stop, "stop") /\ ~Has(stop, "start")
    <2>1. Do("start") \in Steps /\ Do("stop") \in Steps
        BY StepsAre DEF Doings
    <2>2. \A x \in Steps : <<x>> \in Seq(Steps) /\ DOMAIN <<x>> = {1} /\ <<x>>[1] = x
        OBVIOUS
    <2>3. /\ start \in Seq(Steps) /\ DOMAIN start = {1} /\ start[1] = Do("start")
          /\ stop \in Seq(Steps) /\ DOMAIN stop = {1} /\ stop[1] = Do("stop")
        BY <2>1, <2>2
    <2>4. Do("start").does = "start" /\ Do("stop").does = "stop"
        BY DEF Do
    <2> HIDE DEF start, stop
    <2> QED BY <2>3, <2>4 DEF StopFirst, Has
<1>7. \A c \in BOOLEAN :
        /\ When(c, start) \in Seq(Steps) /\ StopFirst(When(c, start)) /\ ~Has(When(c, start), "stop")
        /\ Has(When(c, start), "start") <=> c
        /\ When(c, stop) \in Seq(Steps) /\ StopFirst(When(c, stop)) /\ ~Has(When(c, stop), "start")
        /\ Has(When(c, stop), "stop") <=> c
        /\ Takes(When(c, start), o.before, o.before) /\ Takes(When(c, stop), d, d)
    <2> TAKE c \in BOOLEAN
    <2> HIDE DEF start, stop
    <2>1. /\ When(c, start) \in Seq(Steps) /\ ~Has(When(c, start), "stop") /\ (Has(When(c, start), "start") <=> c)
          /\ When(c, stop) \in Seq(Steps) /\ ~Has(When(c, stop), "start") /\ (Has(When(c, stop), "stop") <=> c)
        BY <1>6, WhenIs
    <2>2. StopFirst(When(c, start)) /\ StopFirst(When(c, stop))
        BY <1>6 DEF When, StopFirst
    <2>3. Takes(start, o.before, o.before) /\ Takes(stop, d, d)
        BY TakesDo DEF start, stop
    <2>4. Takes(When(c, start), o.before, o.before) /\ Takes(When(c, stop), d, d)
        BY <2>3, TakesWhen
    <2> QED BY <2>1, <2>2, <2>4
<1>8. CASE o.kind = "uninstall"
    <2>0. SaysStarted(o.before) \in BOOLEAN
        BY DEF SaysStarted
    <2>1. PICK c \in BOOLEAN : c = SaysStarted(o.before)
        BY <2>0
    <2>2. UndoSteps(o) = u \o When(c, start)
        BY <1>8, <2>1 DEF UndoSteps, StartAgain, SaysStarted
    <2> HIDE DEF u, start, stop
    <2>3. /\ When(c, start) \in Seq(Steps) /\ StopFirst(When(c, start)) /\ ~Has(When(c, start), "stop")
          /\ Has(When(c, start), "start") <=> c
          /\ Takes(When(c, start), o.before, o.before)
        BY <1>7
    <2>4. /\ u \o When(c, start) \in Seq(Steps) /\ Takes(u \o When(c, start), d, o.before)
          /\ StopFirst(u \o When(c, start))
          /\ \A x : Has(u \o When(c, start), x) <=> (Has(u, x) \/ Has(When(c, start), x))
        BY <1>3, <1>4, <1>5, <2>3, ListJoin, TakesJoin, StopFirstJoin, HasJoin
    <2> QED BY <1>5, <1>8, <2>1, <2>2, <2>3, <2>4
<1>9. CASE o.kind # "uninstall"
    <2>1. PICK c \in BOOLEAN : c = (o.touched /\ o.wasLoaded)
        BY <1>0
    <2>2. PICK v : v = When(o.touched, stop)
        OBVIOUS
    <2>3. UndoSteps(o) = (v \o u) \o When(c, start)
        BY <1>9, <2>1, <2>2 DEF UndoSteps
    <2> HIDE DEF u, start, stop
    <2>4. /\ When(c, start) \in Seq(Steps) /\ StopFirst(When(c, start)) /\ ~Has(When(c, start), "stop")
          /\ Has(When(c, start), "start") <=> c
          /\ Takes(When(c, start), o.before, o.before)
        BY <1>7
    <2>5. /\ v \in Seq(Steps) /\ StopFirst(v) /\ ~Has(v, "start") /\ (Has(v, "stop") <=> o.touched) /\ Takes(v, d, d)
        BY <1>0, <1>7, <2>2
    <2>6. /\ v \o u \in Seq(Steps) /\ Takes(v \o u, d, o.before) /\ StopFirst(v \o u)
          /\ \A x : Has(v \o u, x) <=> (Has(v, x) \/ Has(u, x))
        BY <1>3, <1>4, <1>5, <2>5, ListJoin, TakesJoin, StopFirstJoin, HasJoin
    <2>7. ~Has(v \o u, "start") /\ (Has(v \o u, "stop") <=> o.touched)
        BY <1>5, <2>5, <2>6
    <2>8. /\ (v \o u) \o When(c, start) \in Seq(Steps) /\ Takes((v \o u) \o When(c, start), d, o.before)
          /\ StopFirst((v \o u) \o When(c, start))
          /\ \A x : Has((v \o u) \o When(c, start), x) <=> (Has(v \o u, x) \/ Has(When(c, start), x))
        <3>1. PICK x : x = v \o u
            OBVIOUS
        <3>2. PICK y : y = When(c, start)
            OBVIOUS
        <3>3. /\ x \in Seq(Steps) /\ y \in Seq(Steps) /\ StopFirst(x) /\ StopFirst(y)
              /\ ~Has(x, "start") /\ ~Has(y, "stop")
              /\ Takes(x, d, o.before) /\ Takes(y, o.before, o.before)
            BY <2>4, <2>6, <2>7, <3>1, <3>2
        <3>4. x \o y \in Seq(Steps) /\ Takes(x \o y, d, o.before)
            BY <3>3, ListJoin, TakesJoin
        <3>5. StopFirst(x \o y) /\ \A z : Has(x \o y, z) <=> (Has(x, z) \/ Has(y, z))
            BY <3>3, StopFirstJoin, HasJoin
        <3> QED BY <3>1, <3>2, <3>4, <3>5
    <2> QED BY <1>9, <2>1, <2>3, <2>4, <2>7, <2>8
<1> QED BY <1>8, <1>9

\* A step that fails while the operation goes forward.
LEMMA ForwardFailKeeps == ASSUME ServiceInv, Fail, Forward PROVE ServiceInv'
<1>0. /\ Operating /\ op.todo # <<>> /\ ServiceTyped /\ ~op.undoing
      /\ \/ step.does = "start" /\ ~CanStart /\ faults' = faults
         \/ faults' = faults + 1
      /\ \/ UNCHANGED <<disk, service>>
         \/ op.kind # "uninstall" /\ Performed(step)
      /\ op' = Abandon(op)
      /\ litter' = litter /\ lockFile' = lockFile /\ peek' = peek /\ lease' = lease
      /\ cut' = cut /\ previous' = previous
    BY DEF Fail, Operating, Forward, ServiceInv
<1>1. /\ op \in Operations /\ disk \in Disks /\ op.before \in Disks /\ op.todo \in Seq(Steps)
      /\ op.done \in Seq(Artifacts) /\ op.wasLoaded \in BOOLEAN /\ op.touched \in BOOLEAN
      /\ op.kind \in {"install", "rollback", "restart", "uninstall"}
      /\ step \in Steps
      /\ \/ step.does = "write" /\ step.what \in Artifacts /\ step.to \in Of(step.what)
         \/ step.does \in Doings /\ step.does # "write"
    BY <1>0, NextStep
<1>2. PICK p : p = IF op.kind = "uninstall" THEN op ELSE Recorded(op, step)
    OBVIOUS
<1>3. /\ p \in Operations /\ p.kind = op.kind /\ p.before = op.before /\ p.wasLoaded = op.wasLoaded
      /\ p.undoing = op.undoing
      /\ op.kind = "uninstall" => p.touched = op.touched /\ p.done = op.done
      /\ op.kind # "uninstall" =>
           /\ p.touched = (op.touched \/ Touches(step))
           /\ p.done = IF step.does = "write" THEN Append(op.done, step.what) ELSE op.done
    BY <1>0, <1>1, <1>2, Recording
<1>4. PICK todo : todo = IF op.kind = "restart" \/ (op.kind = "uninstall" /\ step.does = "stop")
                         THEN <<>> ELSE UndoSteps(p)
    OBVIOUS
<1>5. PICK broken \in BOOLEAN : broken = (op.kind = "restart")
    OBVIOUS
<1>6. op' = [p EXCEPT !.undoing = TRUE, !.broken = broken, !.todo = todo]
    BY <1>0, <1>2, <1>4, <1>5 DEF Abandon
\* Where the disk and the service are left.
<1>7. /\ disk' \in Disks
      /\ \/ disk' = disk /\ service' = service
         \/ /\ op.kind # "uninstall"
            /\ step.does = "write" => \A a \in Artifacts : disk'[a] = IF a = step.what THEN step.to ELSE disk[a]
            /\ step.does # "write" => disk' = disk
            /\ step.does \notin {"start", "stop"} => service' = service
      /\ service' \in [loaded : BOOLEAN, version : {None} \cup Versions]
    <2>1. service \in [loaded : BOOLEAN, version : {None} \cup Versions]
        BY <1>0 DEF ServiceTyped
    <2>2. CASE UNCHANGED <<disk, service>>
        BY <1>1, <2>1, <2>2
    <2>3. CASE op.kind # "uninstall" /\ Performed(step)
        BY <1>0, <2>3, Performing
    <2> QED BY <1>0, <2>2, <2>3
<1>8. \A a \in Artifacts : disk'[a] # op.before[a] => \E i \in DOMAIN p.done : p.done[i] = a
    <2> TAKE a \in Artifacts
    <2> SUFFICES ASSUME disk'[a] # op.before[a] PROVE \E i \in DOMAIN p.done : p.done[i] = a
        OBVIOUS
    <2>1. disk[a] # op.before[a] => \E i \in DOMAIN op.done : op.done[i] = a
        BY DEF ServiceInv, OnRecord
    <2>2. CASE step.does = "write" /\ op.kind # "uninstall"
        <3>1. PICK done \in Seq(Artifacts) : done = op.done
            BY <1>1
        <3>2. PICK b \in Artifacts : b = step.what
            BY <1>1, <2>2
        <3>3. a = b \/ \E i \in DOMAIN done : done[i] = a
            BY <1>7, <2>1, <2>2, <3>1, <3>2
        <3>4. \E i \in DOMAIN Append(done, b) : Append(done, b)[i] = a
            <4>1. /\ Len(done) + 1 \in DOMAIN Append(done, b) /\ Append(done, b)[Len(done) + 1] = b
                  /\ \A i \in DOMAIN done : i \in DOMAIN Append(done, b) /\ Append(done, b)[i] = done[i]
                BY RecordHolds
            <4> QED BY <3>3, <4>1
        <3> QED BY <1>3, <2>2, <3>1, <3>2, <3>4
    <2>3. CASE ~(step.does = "write" /\ op.kind # "uninstall")
        <3>1. disk'[a] = disk[a] /\ p.done = op.done
            BY <1>3, <1>7, <2>3
        <3> QED BY <2>1, <3>1
    <2> QED BY <2>2, <2>3
<1>9. /\ UndoSteps(p) \in Seq(Steps) /\ Takes(UndoSteps(p), disk', op.before) /\ StopFirst(UndoSteps(p))
      /\ op.kind = "uninstall" =>
                /\ ~Has(UndoSteps(p), "stop")
                /\ SaysStarted(op.before) => Has(UndoSteps(p), "start")
      /\ op.kind # "uninstall" =>
                /\ Has(UndoSteps(p), "stop") <=> p.touched
                /\ Has(UndoSteps(p), "start") <=> (p.touched /\ op.wasLoaded)
    BY <1>3, <1>7, <1>8, UndoSuits
<1>10. /\ op'.kind = op.kind /\ op'.before = op.before /\ op'.wasLoaded = op.wasLoaded /\ op'.undoing = TRUE
       /\ op'.todo = todo /\ op'.broken = broken /\ op'.touched = p.touched /\ op' \in Operations
       /\ todo \in Seq(Steps)
    <2>1. todo \in Seq(Steps)
        BY <1>4, <1>9
    <2> QED BY <1>3, <1>6, <2>1 DEF Operations
<1>11. op' # NoOperation /\ Operating' /\ Undoing' /\ ~Forward'
    <2>1. op' # NoOperation
        BY <1>1, <1>10 DEF NoOperation
    <2> QED BY <1>10, <2>1 DEF Operating, Forward, Undoing
\* A service that is to be started has its plist, unless something failed before.
<1>12. faults \in Nat /\ faults' \in Nat /\ faults' >= 1 /\ (faults' <= 1 => faults <= 1)
    <2>1. faults \in Nat
        BY <1>0 DEF ServiceTyped
    <2>2. ASSUME step.does = "start", ~CanStart, faults = 0 PROVE FALSE
        <3>1. (op.before = Nothing /\ op.kind = "install") \/ Solid(op.before)
            BY <1>0, <2>2 DEF ServiceInv, Faultless
        <3>2. PICK e \in Disks : Takes(op.todo, disk, e) /\ Completes(op.kind, op.before, e)
            BY DEF ServiceInv, Ahead
        <3>3. /\ Belongs(op.kind, step)
              /\ \A j \in DOMAIN Tail(op.todo) : Goes(op.kind, step, Tail(op.todo)[j])
            <4>1. InOrder(op.kind, op.todo) /\ AllBelong(op.kind, op.todo)
                BY DEF ServiceInv, Ahead
            <4> QED BY <1>0, <1>1, <4>1, OrderTail DEF step
        <3>4. e["launcher"] = disk["launcher"]
            <4>1. ~Writes(step, "launcher") /\ \A j \in DOMAIN Tail(op.todo) : ~Writes(Tail(op.todo)[j], "launcher")
                BY <2>2, <3>3 DEF Goes, Writes
            <4>2. "launcher" \in Artifacts
                BY DEF Artifacts, Nothing
            <4> QED BY <1>0, <1>1, <3>2, <4>1, <4>2, NoMoreWrites DEF step
        <3>5. op.kind # "uninstall"
            BY <2>2, <3>3 DEF Belongs
        <3>6. e.launcher = "whole"
            <4>1. op.kind = "install" => e.launcher = "whole"
                BY <3>2 DEF Completes
            <4>2. op.kind \in {"rollback", "restart"} => e.launcher = op.before.launcher
                BY <1>1, <3>2 DEF Completes, Disks
            <4> QED BY <1>1, <3>1, <3>5, <4>1, <4>2 DEF Solid
        <3> QED BY <2>2, <3>4, <3>6 DEF CanStart
    <2> QED BY <1>0, <2>1, <2>2
<1>13. ~op'.touched => ~op.touched /\ service' = service
    BY <1>1, <1>3, <1>7, <1>10 DEF Touches
<1>14. ServiceTyped'
    BY <1>0, <1>7, <1>10, <1>12 DEF ServiceTyped
<1>15. Leased'
    BY <1>0 DEF ServiceInv, Leased
<1>16. Ahead' /\ OnRecord' /\ Midway'
    BY <1>11 DEF Ahead, OnRecord, Midway
<1>17. (op.kind = "uninstall" /\ step.does = "stop") => disk' = op.before /\ ~op'.touched
    <2> SUFFICES ASSUME op.kind = "uninstall", step.does = "stop" PROVE disk' = op.before /\ ~op'.touched
        OBVIOUS
    <2>1. Has(op.todo, "stop")
        BY <1>0, <1>1, HasTail DEF step
    <2>2. op.done = <<>> /\ ~op.touched
        BY <2>1 DEF ServiceInv, Ahead
    <2>3. \A a \in Artifacts : disk[a] = op.before[a]
        BY <2>2 DEF ServiceInv, OnRecord
    <2>4. disk = op.before
        BY <1>1, <2>3, DisksAre
    <2> QED BY <1>3, <1>7, <1>10, <2>2, <2>4
<1>18. Back'
    <2>1. CASE op.kind = "restart"
        <3>1. /\ disk.receipt \in {op.before.receipt, "restarted"}
              /\ \A a \in Artifacts \ {"receipt"} : disk[a] = op.before[a]
            BY <2>1 DEF ServiceInv, Midway
        <3>2. step.does # "write" \/ step = Write("receipt", "restarted")
            <4>1. InOrder(op.kind, op.todo) /\ AllBelong(op.kind, op.todo)
                BY DEF ServiceInv, Ahead
            <4>2. Belongs(op.kind, step)
                BY <1>0, <1>1, <4>1, OrderTail DEF step
            <4> QED BY <2>1, <4>2 DEF Belongs
        <3>3. "receipt" \in Artifacts
            BY DEF Artifacts, Nothing
        <3>4. /\ disk'["receipt"] \in {op.before.receipt, "restarted"}
              /\ \A a \in Artifacts \ {"receipt"} : disk'[a] = op.before[a]
            BY <1>7, <3>1, <3>2, <3>3 DEF Write
        <3>5. todo = <<>> /\ broken
            BY <1>4, <1>5, <2>1
        <3>6. StopFirst(<<>>) /\ \A x : ~Has(<<>>, x)
            BY DEF StopFirst, Has
        <3> QED BY <1>10, <2>1, <3>4, <3>5, <3>6 DEF Back
    <2>2. CASE op.kind = "uninstall" /\ step.does = "stop"
        <3>1. todo = <<>>
            BY <1>4, <2>2
        <3>2. Takes(<<>>, disk', op.before) /\ StopFirst(<<>>) /\ \A x : ~Has(<<>>, x)
            BY <1>17, <2>2, TakesNothing DEF StopFirst, Has
        <3> QED BY <1>10, <2>2, <3>1, <3>2 DEF Back
    <2>3. CASE op.kind # "restart" /\ ~(op.kind = "uninstall" /\ step.does = "stop")
        <3>1. todo = UndoSteps(p)
            BY <1>4, <2>3
        <3> QED BY <1>9, <1>10, <2>3, <3>1 DEF Back
    <2> QED BY <2>1, <2>2, <2>3
<1>19. ServiceBack'
    <2> SUFFICES ASSUME op.kind # "restart" PROVE ServiceBack'
        BY <1>5, <1>10 DEF ServiceBack
    <2>1. CASE op.kind = "uninstall"
        BY <1>4, <1>9, <1>10, <1>17, <2>1 DEF ServiceBack
    <2>2. CASE op.kind # "uninstall"
        <3>1. todo = UndoSteps(p)
            BY <1>4, <2>2
        <3>2. op'.touched => Has(todo, "stop") /\ (Has(todo, "start") <=> op.wasLoaded)
            BY <1>9, <1>10, <2>2, <3>1
        <3> QED BY <1>10, <2>2, <3>2 DEF ServiceBack
    <2> QED BY <2>1, <2>2
<1>20. Untouched'
    BY <1>0, <1>10, <1>11, <1>13 DEF ServiceInv, Untouched
<1>21. Settled'
    <2>1. ~cut => /\ WholeDisk(op.before) /\ BackedUp(op.before)
                  /\ SaysStarted(op.before) =>
                       op.wasLoaded /\ (~op.touched => service = [loaded |-> TRUE, version |-> op.before.binary])
        BY <1>0 DEF ServiceInv, Settled
    <2>2. BackedUp(op.before) => BackedUp(op.before)'
        BY <1>0, <1>10 DEF BackedUp
    <2> QED BY <1>0, <1>10, <1>11, <1>13, <2>1, <2>2 DEF Settled
<1>22. Faultless'
    BY <1>12 DEF Faultless
<1>23. WaysOut'
    BY <1>0, <1>10, <1>11, <1>12 DEF ServiceInv, WaysOut
<1> QED BY <1>14, <1>15, <1>16, <1>18, <1>19, <1>20, <1>21, <1>22, <1>23 DEF ServiceInv

\* A step that fails while the operation is undone.
LEMMA UndoingFailKeeps == ASSUME ServiceInv, Fail, Undoing PROVE ServiceInv'
<1>0. /\ Operating /\ op.todo # <<>> /\ ServiceTyped /\ op.undoing
      /\ \/ step.does = "start" /\ ~CanStart /\ faults' = faults
         \/ faults' = faults + 1
      /\ \/ UNCHANGED <<disk, service>>
         \/ op.kind # "uninstall" /\ (step.does = "start" => CanStart) /\ Performed(step)
      /\ op' = Abandon(op)
      /\ litter' = litter /\ lockFile' = lockFile /\ peek' = peek /\ lease' = lease
      /\ cut' = cut /\ previous' = previous
    BY DEF Fail, Operating, Undoing, ServiceInv
<1>1. /\ op \in Operations /\ disk \in Disks /\ op.before \in Disks /\ op.todo \in Seq(Steps)
      /\ op.done \in Seq(Artifacts) /\ op.wasLoaded \in BOOLEAN /\ op.touched \in BOOLEAN
      /\ op.kind \in {"install", "rollback", "restart", "uninstall"}
      /\ step \in Steps
      /\ \/ step.does = "write" /\ step.what \in Artifacts /\ step.to \in Of(step.what)
         \/ step.does \in Doings /\ step.does # "write"
    BY <1>0, NextStep
<1>2. PICK rest : rest = Tail(op.todo)
    OBVIOUS
<1>3. PICK todo : todo = IF op.kind = "uninstall" /\ step.does = "write" THEN StartAgain(op) ELSE rest
    OBVIOUS
<1>4. op' = [op EXCEPT !.broken = TRUE, !.todo = todo]
    BY <1>0, <1>2, <1>3 DEF Abandon
<1>5. /\ rest \in Seq(Steps)
      /\ StartAgain(op) \in Seq(Steps) /\ StopFirst(StartAgain(op)) /\ ~Has(StartAgain(op), "stop")
    <2>1. /\ <<Do("start")>> \in Seq(Steps) /\ StopFirst(<<Do("start")>>) /\ ~Has(<<Do("start")>>, "stop")
        <3>1. Do("start") \in Steps /\ Do("start").does = "start"
            BY StepsAre DEF Doings, Do
        <3>2. \A x \in Steps : <<x>> \in Seq(Steps) /\ DOMAIN <<x>> = {1} /\ <<x>>[1] = x
            OBVIOUS
        <3> QED BY <3>1, <3>2 DEF StopFirst, Has
    <2> QED BY <1>0, <1>1, <1>2, <2>1, ListTail DEF StartAgain, When, StopFirst, Has
<1>6. /\ op'.kind = op.kind /\ op'.before = op.before /\ op'.wasLoaded = op.wasLoaded /\ op'.undoing = op.undoing
      /\ op'.todo = todo /\ op'.broken = TRUE /\ op'.touched = op.touched /\ op' \in Operations
    BY <1>1, <1>3, <1>4, <1>5 DEF Operations
<1>7. op' # NoOperation /\ Operating' /\ Undoing' /\ ~Forward'
    <2>1. op' # NoOperation
        BY <1>1, <1>6 DEF NoOperation
    <2> QED BY <1>0, <1>6, <2>1 DEF Operating, Forward, Undoing
\* What is left of the list.
<1>8. /\ op.kind # "restart" /\ StopFirst(rest) /\ ~Has(rest, "stop")
      /\ (op.kind # "uninstall" /\ ~op.touched) => step.does \notin {"start", "stop"} /\ ~Has(rest, "start")
    <2>1. /\ op.kind # "restart" /\ StopFirst(op.todo)
          /\ (op.kind # "uninstall" /\ ~op.touched) => ~Has(op.todo, "stop") /\ ~Has(op.todo, "start")
        BY <1>0 DEF ServiceInv, Back, Undoing
    <2>2. \A x : Has(op.todo, x) <=> (step.does = x \/ Has(rest, x))
        BY <1>0, <1>1, <1>2, HasTail DEF step
    <2>3. StopFirst(rest) /\ ~Has(rest, "stop")
        BY <1>0, <1>1, <1>2, <2>1, StopFirstTail
    <2> QED BY <2>1, <2>2, <2>3
<1>9. /\ disk' \in Disks
      /\ ~op.touched => service' = service
      /\ service' \in [loaded : BOOLEAN, version : {None} \cup Versions]
    <2>1. service \in [loaded : BOOLEAN, version : {None} \cup Versions]
        BY <1>0 DEF ServiceTyped
    <2>2. CASE UNCHANGED <<disk, service>>
        BY <1>1, <2>1, <2>2
    <2>3. CASE op.kind # "uninstall" /\ Performed(step)
        BY <1>0, <1>8, <2>3, Performing
    <2> QED BY <1>0, <2>2, <2>3
\* It is the second failure, unless it is a start of a service that has no plist.
<1>10. faults \in Nat /\ faults' \in Nat /\ faults >= 1 /\ faults' >= faults
    BY <1>0 DEF ServiceTyped, ServiceInv, Faultless
<1>11. Takes(todo, disk', op.before) \/ faults' >= 2
    <2>1. CASE faults' = faults + 1
        BY <1>10, <2>1
    <2>2. CASE step.does = "start" /\ ~CanStart /\ faults' = faults
        <3>1. disk' = disk /\ todo = rest
            BY <1>0, <1>3, <2>2
        <3>2. Takes(op.todo, disk, op.before) \/ faults >= 2
            BY <1>0, <1>8 DEF ServiceInv, Back, Undoing
        <3>3. IF Head(op.todo).does = "write"
              THEN \A a \in Artifacts : disk'[a] = IF a = Head(op.todo).what THEN Head(op.todo).to ELSE disk[a]
              ELSE \A a \in Artifacts : disk'[a] = disk[a]
            BY <2>2, <3>1 DEF step
        <3>4. Takes(op.todo, disk, op.before) => Takes(rest, disk', op.before)
            BY <1>0, <1>1, <1>2, <3>3, TakesTail
        <3> QED BY <2>2, <3>1, <3>2, <3>4
    <2> QED BY <1>0, <2>1, <2>2
<1>12. ServiceTyped'
    BY <1>0, <1>6, <1>9, <1>10 DEF ServiceTyped
<1>13. Leased'
    BY <1>0 DEF ServiceInv, Leased
<1>14. Ahead' /\ OnRecord' /\ Midway'
    BY <1>7 DEF Ahead, OnRecord, Midway
<1>15. Back'
    <2>1. StopFirst(todo) /\ ~Has(todo, "stop")
        BY <1>3, <1>5, <1>8
    <2>2. (op.kind # "uninstall" /\ ~op.touched) => ~Has(todo, "start")
        BY <1>3, <1>8
    <2> QED BY <1>6, <1>8, <1>11, <2>1, <2>2 DEF Back
<1>16. ServiceBack'
    BY <1>6 DEF ServiceBack
<1>17. Untouched'
    BY <1>0, <1>6, <1>7, <1>9 DEF ServiceInv, Untouched
<1>18. Settled'
    <2>1. ~cut => /\ WholeDisk(op.before) /\ BackedUp(op.before)
                  /\ SaysStarted(op.before) =>
                       op.wasLoaded /\ (~op.touched => service = [loaded |-> TRUE, version |-> op.before.binary])
        BY <1>0 DEF ServiceInv, Settled
    <2>2. BackedUp(op.before) => BackedUp(op.before)'
        BY <1>0, <1>6 DEF BackedUp
    <2> QED BY <1>0, <1>6, <1>7, <1>9, <2>1, <2>2 DEF Settled
<1>19. Faultless'
    BY <1>10 DEF Faultless
<1>20. WaysOut'
    BY <1>0, <1>6, <1>7, <1>10 DEF ServiceInv, WaysOut
<1> QED BY <1>12, <1>13, <1>14, <1>15, <1>16, <1>17, <1>18, <1>19, <1>20 DEF ServiceInv

-----------------------------------------------------------------------------
\* A step that changes nothing.
LEMMA StutterKeeps == ASSUME ServiceInv, UNCHANGED vars PROVE ServiceInv'
<1>1. /\ disk' = disk /\ litter' = litter /\ service' = service /\ op' = op /\ faults' = faults
      /\ cut' = cut /\ previous' = previous /\ lease' = lease /\ peek' = peek /\ lockFile' = lockFile
    BY DEF vars
<1>2. ServiceTyped'
    BY <1>1 DEF ServiceInv, ServiceTyped
<1>3. Leased' /\ Ahead' /\ OnRecord' /\ Back' /\ Untouched' /\ ServiceBack' /\ Midway'
    BY <1>1 DEF ServiceInv, Leased, Ahead, OnRecord, Back, Untouched, ServiceBack, Midway, Forward, Undoing,
                Operating, Running
<1>4. Settled' /\ Faultless' /\ WaysOut'
    BY <1>1 DEF ServiceInv, Settled, Faultless, WaysOut, Operating, Running, BackedUp
<1> QED BY <1>2, <1>3, <1>4 DEF ServiceInv

\* Every state is in it: where the steps that are left lead, forward or back.
THEOREM ServiceInvariant == Spec => []ServiceInv
<1>1. ASSUME ServiceInv, [Next]_vars PROVE ServiceInv'
    <2>1. ASSUME NEW v \in Versions, NEW c \in Configs, NEW start \in BOOLEAN, Install(v, c, start)
          PROVE  ServiceInv'
        BY <1>1, <2>1, InstallKeeps
    <2>2. CASE Rollback
        BY <1>1, <2>2, RollbackKeeps
    <2>3. CASE Restart
        BY <1>1, <2>3, RestartKeeps
    <2>4. CASE Uninstall
        BY <1>1, <2>4, UninstallKeeps
    <2>5. CASE ReadConfig \/ Refused \/ AcquireLease \/ CloseLease
        BY <1>1, <2>5, ReadersKeep
    <2>6. CASE Advance
        BY <1>1, <2>6, AdvanceKeeps
    <2>7. CASE Fail
        <3>1. Operating
            BY <2>7 DEF Fail, Operating
        <3>2. Forward \/ Undoing
            BY <3>1 DEF Forward, Undoing
        <3> QED BY <1>1, <2>7, <3>2, ForwardFailKeeps, UndoingFailKeeps
    <2>8. CASE End
        BY <1>1, <2>8, EndKeeps
    <2>9. CASE Crash
        BY <1>1, <2>9, CrashKeeps
    <2>10. CASE Respawn
        BY <1>1, <2>10, RespawnKeeps
    <2>11. CASE RemoveSkill
        BY <1>1, <2>11, RemoveSkillKeeps
    <2>12. CASE UNCHANGED vars
        BY <1>1, <2>12, StutterKeeps
    <2> QED BY <1>1, <2>1, <2>2, <2>3, <2>4, <2>5, <2>6, <2>7, <2>8, <2>9, <2>10, <2>11, <2>12 DEF Next
<1> QED BY <1>1, InitService, PTL DEF Spec

\* After any number of refused, failed or rolled back operations, the current
\* installation and the one kept for a rollback are each whole and the right one.
THEOREM InstallationsStayWhole == Spec => []InstallationsAreWhole
<1>1. ASSUME ServiceInv PROVE InstallationsAreWhole
    <2>1. (op = NoOperation /\ ~cut) =>
             WholeDisk(disk) /\ BackedUp(disk) /\ (SaysStarted(disk) => Running)
        BY <1>1 DEF ServiceInv, Settled, Operating
    <2>2. ~SaysStarted(disk) <=> disk.receipt \notin {"started", "restarted"}
        BY DEF SaysStarted
    <2> QED BY <2>1, <2>2 DEF InstallationsAreWhole, BackupIsThePredecessor, CommittedIsWhole,
                               WholeDisk, BackedUp, Running
<1> QED BY <1>1, ServiceInvariant, PTL

\* Wherever one operation was cut short or one step failed, an installation or an
\* uninstallation is accepted and leads on.
THEOREM ThereIsAWayOut == Spec => []WayOut
<1>1. ASSUME ServiceInv PROVE WayOut
    <2>1. (op = NoOperation /\ faults <= 1) => Installable(disk) \/ (Removable(disk) /\ ~litter)
        BY <1>1 DEF ServiceInv, WaysOut, Operating
    <2> QED BY <2>1 DEF WayOut, CanInstall, CanInventory, CanUninstall, Installable, Removable
<1> QED BY <1>1, ServiceInvariant, PTL

\* An operation that fails and says that it restored what was there has: every
\* artifact, and the service.
THEOREM RefusalsChangeNothing == Spec => RefusedChangesNothing
<1> DEFINE Change ==
       op # NoOperation /\ op' = NoOperation /\ op.todo = <<>> /\ op.undoing /\ ~op.broken =>
       /\ disk = op.before
       /\ IF op.kind = "uninstall"
          THEN op.touched /\ op.before.receipt \in {"started", "restarted"} =>
                 service.loaded /\ service.version = disk.binary
          ELSE /\ service.loaded = op.wasLoaded
               /\ op.touched /\ service.loaded => service.version = disk.binary
<1>1. ASSUME ServiceInv PROVE Change
    <2> SUFFICES ASSUME Operating, op.todo = <<>>, op.undoing, ~op.broken
                 PROVE  /\ disk = op.before
                        /\ op.kind = "uninstall" =>
                             ((op.touched /\ SaysStarted(op.before)) => Running)
                        /\ op.kind # "uninstall" =>
                             /\ service.loaded = op.wasLoaded
                             /\ (op.touched /\ service.loaded) => Running
        <3>1. Running => service.loaded /\ service.version = disk.binary
            BY DEF Running
        <3> QED BY <3>1 DEF Operating, SaysStarted
    <2>1. disk \in Disks /\ op.before \in Disks /\ op.wasLoaded \in BOOLEAN /\ service.loaded \in BOOLEAN
          /\ op.touched \in BOOLEAN
        BY <1>1, NextStep DEF ServiceInv, ServiceTyped
    <2>2. Undoing
        BY DEF Undoing
    <2>3. op.kind # "restart" /\ Takes(op.todo, disk, op.before)
        BY <1>1, <2>2 DEF ServiceInv, Back
    <2>4. disk = op.before
        BY <2>1, <2>3, Arrived
    <2>5. op.kind = "uninstall" => ((op.touched /\ SaysStarted(op.before)) => Running)
        BY <1>1, <2>2, NothingLeft DEF ServiceInv, ServiceBack
    <2>6. CASE op.kind # "uninstall" /\ op.touched
        <3>1. (~service.loaded /\ ~op.wasLoaded) \/ (op.wasLoaded /\ Running)
            BY <1>1, <2>2, <2>6, NothingLeft DEF ServiceInv, ServiceBack
        <3>2. Running => service.loaded
            BY DEF Running
        <3> QED BY <2>1, <2>4, <2>6, <3>1, <3>2
    <2>7. CASE op.kind # "uninstall" /\ ~op.touched
        BY <1>1, <2>1, <2>4, <2>7 DEF ServiceInv, Untouched
    <2> QED BY <2>1, <2>4, <2>5, <2>6, <2>7
<1>2. ServiceInv => [Change]_vars
    BY <1>1
<1> QED BY <1>2, ServiceInvariant, PTL DEF RefusedChangesNothing

\* While an evaluation holds its lease no operation replaces an artifact or
\* touches the service.
THEOREM LeasesFreeze == Spec => LeaseFreezes
<1> DEFINE Frozen ==
       lease => /\ \A a \in DOMAIN disk \ {"skill"} : disk'[a] = disk[a]
                /\ op' = NoOperation
                /\ service' \in {service, Started}
<1>1. ASSUME ServiceInv, [Next]_vars PROVE [Frozen]_vars
    <2> SUFFICES ASSUME lease, Next PROVE Frozen
        BY <1>1
    <2>1. ~Operating /\ op = NoOperation
        BY <1>1 DEF ServiceInv, Leased, Operating
    <2>2. ReadConfig \/ Refused \/ CloseLease \/ Respawn \/ AcquireLease
        BY <2>1 DEF Next, Install, Rollback, Restart, Uninstall, Entered, Free, RemoveSkill,
                    Advance, Fail, End, Crash
    <2>3. /\ disk' = disk /\ op' = op /\ service' \in {service, Started}
        BY <2>2 DEF ReadConfig, Refused, CloseLease, Respawn, AcquireLease
    <2> QED BY <2>1, <2>3
<1> QED BY <1>1, ServiceInvariant, PTL DEF Spec, LeaseFreezes

-----------------------------------------------------------------------------
(***************************************************************************)
(* The semantic index.                                                     *)
(***************************************************************************)


Phases == Ending \cup {"free", "load", "lookup", "embed", "save", "warm", "check", "record"}
Past == {"warm", "check", "record", "ready"}

Typed ==
    /\ work \in [Workers -> Phases]
    /\ cancelled \in [Workers -> BOOLEAN]
    /\ DOMAIN expected = Workers
    /\ DOMAIN status = {"state", "of"}
    /\ current \in Workers /\ cancellable \in BOOLEAN /\ closing \in BOOLEAN

\* Who is past its embeddings has proved its fingerprint.
Proved == \A w \in Workers : work[w] \in Past => expected[w] \in proven

\* There is something to cancel exactly while the current worker runs, it is
\* not cancelled before a shutdown, and the status that builds is its own.
Watched ==
    /\ cancellable <=> work[current] # "free"
    /\ cancellable /\ ~closing => ~cancelled[current]
    /\ status.state = "building" =>
          cancellable /\ (work[current] # "stale" => expected[current] = status.of)

Superseded == \A w \in Workers \ {current} : work[w] # "free" => cancelled[w]

IndexInv == Typed /\ Proved /\ ReadyIsProven /\ Watched /\ Superseded

\* What the steps of requests and of the surroundings leave alone.
IndexUntouched == UNCHANGED <<index, work, expected, cancelled, proven>>
-----------------------------------------------------------------------------

\* It holds when the service starts.
LEMMA InitIndex == IndexInit => IndexInv
<1> SUFFICES ASSUME IndexInit PROVE IndexInv
    OBVIOUS
<1>1. 1 \in Workers
    BY SemanticAssumption DEF Workers
<1>2. Typed
    BY <1>1 DEF IndexInit, Typed, Phases
<1>3. work[current] = "free" /\ status.state = "stale" /\ ~cancellable
    BY <1>1 DEF IndexInit
<1>4. \A w \in Workers : work[w] = "free"
    BY DEF IndexInit
<1> QED BY <1>2, <1>3, <1>4 DEF IndexInv, Proved, ReadyIsProven, Watched, Superseded, Past

\* And in a process that replaces another.
LEMMA RestartIndex == ASSUME IndexInv, StartsAnew PROVE IndexInv'
BY DEF StartsAnew, IndexInv, Typed, Proved, ReadyIsProven, Watched, Superseded, Phases, Past, Ending, store

\* A step that touches none of it keeps it.
LEMMA IndexStaysUntouched == ASSUME IndexInv, IndexUntouched PROVE IndexInv'
BY DEF IndexUntouched, index, IndexInv, Typed, Proved, ReadyIsProven, Watched, Superseded

\* Steps of the surroundings and of a request that starts no worker.
LEMMA Others ==
    ASSUME \/ \E d \in Docs : LibraryChanges(d)
           \/ ProviderDown \/ ProviderUp
           \/ \E r \in Requests : \/ Asks(r) \/ ReadsState(r) \/ Keeps(r)
                                  \/ \E kind \in Kinds : Chooses(r, kind)
                                  \/ LooksUp(r) \/ Embeds(r) \/ Saves(r) \/ Leaves(r)
    PROVE IndexUntouched
BY DEF LibraryChanges, ProviderDown, ProviderUp, Asks, ReadsState, Keeps, Chooses, LooksUp,
       Embeds, Saves, Leaves, IndexUntouched, index, worker

\* A request that cannot read sets the status to unavailable.
LEMMA UnavailableIndex ==
    ASSUME IndexInv, NEW r \in Requests, Unavailable(r)
    PROVE IndexInv'
<1>1. UNCHANGED <<current, cancellable, closing, work, expected, cancelled, proven>>
    BY DEF Unavailable, worker
<1>2. status'.state = "unavailable" /\ DOMAIN status' = {"state", "of"}
    BY DEF Unavailable, IndexInv, Typed
<1> QED BY <1>1, <1>2 DEF IndexInv, Typed, Proved, ReadyIsProven, Watched, Superseded

\* A shutdown cancels the current worker, and is the only thing that does.
LEMMA CloseIndex == ASSUME IndexInv, Close PROVE IndexInv'
<1>1. UNCHANGED <<status, current, cancellable, work, expected, proven>> /\ closing'
    BY DEF Close
<1>2. /\ cancelled' \in [Workers -> BOOLEAN] /\ closing' \in BOOLEAN
      /\ \A w \in Workers : cancelled[w] => cancelled'[w]
    BY DEF Close, IndexInv, Typed
<1> QED BY <1>1, <1>2 DEF IndexInv, Typed, Proved, ReadyIsProven, Watched, Superseded

\* A new worker takes over: the one before it, if it runs, is cancelled.
LEMMA StartsWorkerIndex ==
    ASSUME IndexInv, NEW r \in Requests, NEW w \in Workers, StartsWorker(r, w)
    PROVE IndexInv'
<1>1. /\ work' = [work EXCEPT ![w] = "load"] /\ work[w] = "free"
      /\ expected' = [expected EXCEPT ![w] = asked[r].fp]
      /\ cancelled' = [v \in Workers |-> IF v = w THEN FALSE
                                         ELSE IF cancellable /\ v = current THEN TRUE
                                         ELSE cancelled[v]]
      /\ status' = [state |-> "building", of |-> asked[r].fp]
      /\ current' = w /\ cancellable' = TRUE
      /\ UNCHANGED <<closing, proven>>
    BY DEF StartsWorker, FreeSlot
<1>2. Typed'
    BY <1>1 DEF IndexInv, Typed, Phases
<1>3. /\ work'[w] = "load" /\ expected'[w] = asked[r].fp /\ cancelled'[w] = FALSE
      /\ \A v \in Workers \ {w} : work'[v] = work[v] /\ expected'[v] = expected[v]
    BY <1>1 DEF IndexInv, Typed
<1>4. \A v \in Workers \ {w} : cancelled'[v] = (cancelled[v] \/ (cancellable /\ v = current))
    BY <1>1 DEF IndexInv, Typed
<1>5. Superseded'
    BY <1>1, <1>3, <1>4 DEF IndexInv, Typed, Superseded, Watched
<1>6. Proved' /\ ReadyIsProven' /\ Watched'
    BY <1>1, <1>3 DEF IndexInv, Proved, ReadyIsProven, Watched, Past
<1> QED BY <1>2, <1>5, <1>6 DEF IndexInv

\* A step of a worker that moves to another phase short of its end.
LEMMA WorkerIndex ==
    ASSUME IndexInv, NEW w \in Workers, NEW phase \in Phases \ {"free"},
           work[w] \notin Ending \cup {"free"}, Moves(w, phase),
           UNCHANGED <<index, cancelled>>,
           DOMAIN expected' = Workers, \A v \in Workers \ {w} : expected'[v] = expected[v],
           phase # "stale" => expected'[w] = expected[w],
           proven \subseteq proven', phase \in Past => expected'[w] \in proven'
    PROVE IndexInv'
<1>1. /\ work' \in [Workers -> Phases] /\ work'[w] = phase
      /\ \A v \in Workers \ {w} : work'[v] = work[v]
    BY DEF Moves, IndexInv, Typed
<1>2. Typed'
    BY <1>1 DEF IndexInv, Typed, index
<1>3. Proved' /\ ReadyIsProven'
    BY <1>1 DEF IndexInv, Proved, ReadyIsProven, index
<1>4. Superseded'
    BY <1>1 DEF IndexInv, Superseded, index
<1>5. Watched'
    BY <1>1 DEF IndexInv, Watched, Typed, Ending, index
<1> QED BY <1>2, <1>3, <1>4, <1>5 DEF IndexInv

\* Each step of a worker is of that form, but its end.
LEMMA StepsIndex ==
    ASSUME IndexInv, NEW w \in Workers,
           \/ WorkerLoads(w) \/ WorkerLooksUp(w) \/ WorkerEmbeds(w) \/ WorkerSaves(w)
           \/ WorkerCannotSave(w) \/ WorkerWarms(w) \/ WorkerChecks(w) \/ WorkerRecords(w)
           \/ WorkerMeetsAnError(w)
    PROVE IndexInv'
<1> USE DEF Phases, Past, Ending
<1>0. DOMAIN expected = Workers /\ (work[w] \in Past => expected[w] \in proven)
    BY DEF IndexInv, Typed, Proved
<1>1. CASE WorkerLoads(w)
    <2>1. CASE library.fp = expected[w]
        BY <1>0, <1>1, <2>1, WorkerIndex DEF WorkerLoads
    <2>2. CASE library.fp # expected[w]
        <3>1. /\ DOMAIN expected' = Workers
              /\ \A v \in Workers \ {w} : expected'[v] = expected[v]
            BY <1>0, <1>1, <2>2 DEF WorkerLoads
        <3> QED BY <1>1, <2>2, <3>1, WorkerIndex DEF WorkerLoads
    <2> QED BY <2>1, <2>2
<1>2. CASE WorkerLooksUp(w)
    <2>1. CASE cancelled[w]
        BY <1>0, <1>2, <2>1, WorkerIndex DEF WorkerLooksUp
    <2>2. CASE ~cancelled[w] /\ Missing(missing[w]) = {}
        BY <1>0, <1>2, <2>2, WorkerIndex DEF WorkerLooksUp, Proves
    <2>3. CASE ~cancelled[w] /\ Missing(missing[w]) # {}
        BY <1>0, <1>2, <2>3, WorkerIndex DEF WorkerLooksUp
    <2> QED BY <2>1, <2>2, <2>3
<1>3. CASE WorkerEmbeds(w)
    BY <1>0, <1>3, WorkerIndex DEF WorkerEmbeds, Fails
<1>4. CASE WorkerSaves(w)
    <2>1. PICK doc \in missing[w] :
            IF missing[w] = {doc} THEN Moves(w, "warm") /\ Proves(w)
            ELSE UNCHANGED <<work, proven>>
        BY <1>4 DEF WorkerSaves
    <2>2. CASE missing[w] = {doc}
        BY <1>0, <1>4, <2>1, <2>2, WorkerIndex DEF WorkerSaves, Proves
    <2>3. CASE missing[w] # {doc}
        BY <1>4, <2>1, <2>3, IndexStaysUntouched DEF WorkerSaves, IndexUntouched
    <2> QED BY <2>2, <2>3
<1>5. CASE WorkerCannotSave(w)
    BY <1>0, <1>5, WorkerIndex DEF WorkerCannotSave, Fails
<1>6. CASE WorkerWarms(w)
    BY <1>0, <1>6, WorkerIndex DEF WorkerWarms, Fails
<1>7. CASE WorkerChecks(w)
    BY <1>0, <1>7, WorkerIndex DEF WorkerChecks
<1>8. CASE WorkerRecords(w)
    BY <1>0, <1>8, WorkerIndex DEF WorkerRecords
<1>9. CASE WorkerMeetsAnError(w)
    BY <1>0, <1>9, WorkerIndex DEF WorkerMeetsAnError, Fails
<1> QED BY <1>1, <1>2, <1>3, <1>4, <1>5, <1>6, <1>7, <1>8, <1>9

\* The end of a worker changes the status only if it is the current one.
LEMMA FinishIndex ==
    ASSUME IndexInv, NEW w \in Workers, WorkerFinishes(w)
    PROVE IndexInv'
<1>1. /\ work' = [work EXCEPT ![w] = "free"] /\ work[w] \in Ending
      /\ expected' = [expected EXCEPT ![w] = 0]
      /\ cancelled' = [cancelled EXCEPT ![w] = FALSE]
      /\ UNCHANGED <<current, closing, proven>>
    BY DEF WorkerFinishes, Ends, Moves, Ending
<1>2. IF w = current
      THEN status' = [state |-> work[w], of |-> expected[w]] /\ cancellable' = FALSE
      ELSE UNCHANGED <<status, cancellable>>
    BY DEF WorkerFinishes, IsCurrent
<1>3. /\ work' \in [Workers -> Phases] /\ work'[w] = "free"
      /\ \A v \in Workers \ {w} : work'[v] = work[v]
    BY <1>1 DEF IndexInv, Typed, Phases
<1>4. /\ DOMAIN expected' = Workers
      /\ \A v \in Workers \ {w} : expected'[v] = expected[v]
    BY <1>1 DEF IndexInv, Typed
<1>5. /\ cancelled' \in [Workers -> BOOLEAN]
      /\ \A v \in Workers \ {w} : cancelled'[v] = cancelled[v]
    BY <1>1 DEF IndexInv, Typed
<1>6. Proved' /\ Superseded'
    BY <1>1, <1>3, <1>4, <1>5 DEF IndexInv, Proved, Superseded, Past
<1>7. CASE w = current
    <2>1. status' = [state |-> work[w], of |-> expected[w]] /\ cancellable' = FALSE
        BY <1>2, <1>7
    <2>2. status'.state = work[w] /\ status'.of = expected[w]
        BY <2>1
    <2>3. DOMAIN status' = {"state", "of"}
        BY <2>1
    <2>4. Typed' /\ Watched'
        BY <1>1, <1>3, <1>4, <1>5, <1>7, <2>1, <2>2, <2>3 DEF IndexInv, Typed, Watched, Ending
    <2>5. ReadyIsProven'
        BY <1>1, <2>2 DEF IndexInv, Proved, ReadyIsProven, Past
    <2> QED BY <1>6, <2>4, <2>5 DEF IndexInv
<1>8. CASE w # current
    <2>1. Typed' /\ Watched'
        BY <1>1, <1>2, <1>3, <1>4, <1>5, <1>8 DEF IndexInv, Typed, Watched
    <2>2. ReadyIsProven'
        BY <1>1, <1>2, <1>8 DEF IndexInv, ReadyIsProven
    <2> QED BY <1>6, <2>1, <2>2 DEF IndexInv
<1> QED BY <1>7, <1>8

\* Every step keeps the invariant.
LEMMA NextIndex == ASSUME IndexInv, [IndexNext]_indexVars PROVE IndexInv'
<1>1. CASE \/ \E d \in Docs : LibraryChanges(d)
           \/ ProviderDown \/ ProviderUp
           \/ \E r \in Requests : \/ Asks(r) \/ ReadsState(r) \/ Keeps(r)
                                  \/ \E kind \in Kinds : Chooses(r, kind)
                                  \/ LooksUp(r) \/ Embeds(r) \/ Saves(r) \/ Leaves(r)
    <2>1. IndexUntouched
        BY <1>1, Others
    <2> QED BY <2>1, IndexStaysUntouched
<1>2. CASE ProcessDies \/ Closed
    BY <1>2, RestartIndex DEF ProcessDies, Closed
<1>3. CASE Close
    BY <1>3, CloseIndex
<1>4. CASE \E r \in Requests : Unavailable(r)
    BY <1>4, UnavailableIndex
<1>5. CASE \E r \in Requests : \E w \in Workers : StartsWorker(r, w)
    BY <1>5, StartsWorkerIndex
<1>6. CASE \E w \in Workers :
             \/ WorkerLoads(w) \/ WorkerLooksUp(w) \/ WorkerEmbeds(w) \/ WorkerSaves(w)
             \/ WorkerCannotSave(w) \/ WorkerWarms(w) \/ WorkerChecks(w) \/ WorkerRecords(w)
             \/ WorkerMeetsAnError(w)
    BY <1>6, StepsIndex
<1>7. CASE \E w \in Workers : WorkerFinishes(w)
    BY <1>7, FinishIndex
<1>8. CASE UNCHANGED indexVars
    <2>1. IndexUntouched
        BY <1>8 DEF indexVars, index, worker, IndexUntouched
    <2> QED BY <2>1, IndexStaysUntouched
<1> QED BY <1>1, <1>2, <1>3, <1>4, <1>5, <1>6, <1>7, <1>8 DEF IndexNext, RequestStep, WorkerStep

\* Whatever requests, workers, crashes and closings do, the status, the worker it
\* waits for and what this process has proved agree (server.go:394).
THEOREM IndexInvariant == IndexSpec => []IndexInv
<1>1. IndexInit => IndexInv
    BY InitIndex
<1>2. IndexInv /\ [IndexNext]_indexVars => IndexInv'
    BY NextIndex
<1> QED BY <1>1, <1>2, PTL DEF IndexSpec

\* A ready status is of a library whose documents this process has all found or
\* embedded, whatever an older process recorded and however workers overlap.
THEOREM ReadyProven == IndexSpec => []ReadyIsProven
<1>1. IndexInv => ReadyIsProven
    BY DEF IndexInv
<1> QED BY <1>1, IndexInvariant, PTL

\* While the index builds, the current worker runs for it uncancelled, and every
\* other worker is cancelled.
THEOREM OneWorker == IndexSpec => []OneWorkerAtWork
<1>1. IndexInv => OneWorkerAtWork
    BY DEF IndexInv, Watched, Superseded, OneWorkerAtWork
<1> QED BY <1>1, IndexInvariant, PTL
=============================================================================
