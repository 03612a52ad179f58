------------------------ MODULE AgentRecoveryProofs ------------------------
(***************************************************************************)
(* An open store of internal/agentstate has what its callers were told,    *)
(* resolves what its files say, balances its feedback, and a start is      *)
(* refused for one of the known reasons: for any number of objects,        *)
(* searches, judgments and connections, and wherever a process dies.       *)
(*                                                                         *)
(* What makes it inductive is what a recovery that was cut short anywhere  *)
(* finds under its marker, and that every copy, in the database, in the    *)
(* files and in the stage, keeps what was told and balances.               *)
(***************************************************************************)
EXTENDS AgentRecovery, TLAPS


-----------------------------------------------------------------------------
(* The invariant, part by part.                                            *)

\* Where the store is open, or all but open: the database has both its halves.
Serving == {"idle", "legacy", "scoped", "project", "project_file", "adopt",
            "open_legacy", "open_scoped", "verify", "unbind", "unmark"}
\* Where a recovery that has left its marker is.
Staging == {"stage_scoped", "stage_project", "promote"}
\* Where a promoted database is being settled.
Settling == {"verify", "unbind", "unmark"}
\* Where there is a marker.
Moving == {"move", "move_log", "move_index"}
Recovering == {"resume", "inspect", "stage"} \cup Moving \cup Staging \cup Settling

\* Both schema rows are there.
Whole(d) == d.meta /\ d.table

\* What callers were told is an object half, judgments and connections.
ToldTyped ==
  told \in [scoped : ScopedStates,
            judgments : [LegacyKeys -> Judgment(LegacyKeys) \cup {Null}],
            conns : ConnectionStates]

\* What the database, the marker and the stage are where a process is.
Placed ==
  /\ pc \in Serving => Sound /\ Whole(db)
  /\ pc \in {"scoped_half", "scoped_meta"} => Sound
  /\ pc = "connections" => Sound /\ db.meta
  /\ pc \in {"recover", "bind", "mark"} =>
       db # Missing /\ (Sound => Whole(db) /\ Differs(db))
  /\ pc \in Recovering => marker # Null
  /\ pc \notin Recovering \cup {"closed", "refused"} => marker = Null
  /\ pc \in {"mark", "inspect", "stage"} \cup Moving \cup Staging => binding # Null
  /\ pc = "move" => Unusable
  /\ pc \in {"move_log", "move_index", "stage"} \cup Staging => db = Missing /\ quarantined
  /\ pc \in Settling => quarantined
  /\ pending # Null => pc \in {"idle", "legacy", "scoped", "project"}
  /\ pc = "project" => pending # Null
  /\ db = Missing /\ marker = Null => legacyFile = Null

\* What a recovery that may be cut short anywhere finds under its marker: the
\* files it began with, and a database that was never moved away and is unusable,
\* or one that is lost, or one that agrees with every file.
BoundFile == IF binding.bound THEN binding.conns
             ELSE IF projectFile = Null THEN Null ELSE NoConnections
Marked ==
  /\ marker # Null =>
       /\ marker.legacy = (legacyFile # Null)
       /\ quarantined \/ (db # Missing /\ (Sound => Differs(db)))
       /\ Sound => Whole(db)
       /\ quarantined /\ Sound => db.conns = projectFile /\ Complete(db)
       /\ binding = Null =>
            (~ adopted /\ projectFile = Null) \/ (quarantined /\ db # Missing)
  /\ (marker # Null \/ pc = "mark") /\ binding # Null => projectFile = BoundFile
  /\ adopted => projectFile # Null

\* What a lost database left beside it is there with it, or until a recovery that
\* found it gone has moved it away too.
Beside ==
  /\ NoForeignLog
  /\ marker = Null /\ db = Missing => sides = {}
  /\ pc = "move_index" => "log" \notin sides
  /\ pc \in {"stage"} \cup Staging => sides = {}

\* The stage is made of the files, and the files are written as it has them.
Staged ==
  pc \in Staging =>
    /\ stage \in Databases /\ Whole(stage)
    /\ LegacySnapshot(stage.legacy) = KnownLegacy
    /\ scopedFile # Null => stage.scoped = scopedFile
    /\ pc # "stage_scoped" => scopedFile = stage.scoped
    /\ stage.conns = Inherited
    /\ pc = "promote" => projectFile = stage.conns

\* Where a handle resolves to what its file says.
Durable ==
  /\ pc \in {"idle", "legacy", "scoped"} /\ pending = Null => db.conns = projectFile
  /\ pc \in {"adopt", "open_legacy", "open_scoped"} \cup Settling =>
       db.conns = projectFile

\* The projection of a judgment without its search never reaches a file.
Widowed(d) ==
  /\ scopedFile = Null /\ ~ d.legacy.lens
  /\ \E k \in LegacyKeys : d.legacy.judgments[k] # Null
Searched ==
  /\ scopedFile # Null => ValidScoped(scopedFile)
  /\ Sound /\ ~ ValidScoped(db.scoped) => Widowed(db)
  /\ pc \in {"idle", "legacy", "scoped", "project", "open_scoped"} =>
       ValidScoped(db.scoped)
  /\ pc \in Staging => ValidScoped(stage.scoped)

\* Every copy keeps what was told, and no copy is missing but of nothing told.
KeepsTold(d) ==
  /\ KeepsScoped(d.scoped, told.scoped)
  /\ KeepsLegacy(d.legacy, told.judgments)
  /\ KeepsConnections(d.conns, told.conns)
FilesKeep ==
  /\ IF legacyFile = Null THEN told.judgments = NoJudgments
     ELSE KeepsLegacy(legacyFile, told.judgments)
  /\ IF scopedFile = Null THEN told.scoped = EmptyScoped
     ELSE KeepsScoped(scopedFile, told.scoped)
  /\ IF projectFile = Null THEN told.conns = NoConnections
     ELSE KeepsConnections(projectFile, told.conns)
DatabaseKeeps ==
  Sound =>
    /\ KeepsLegacy(db.legacy, told.judgments)
    /\ db.meta \/ pc = "scoped_meta" => KeepsScoped(db.scoped, told.scoped)
    /\ db.table => KeepsConnections(db.conns, told.conns)
Kept ==
  /\ FilesKeep /\ DatabaseKeeps
  /\ pc \in Staging => KeepsTold(stage)
  /\ pc = "scoped" => legacyFile = LegacySnapshot(db.legacy)

\* Every copy balances.
Balances ==
  /\ FeedbackBalances
  /\ pc \in Staging =>
       Balanced(stage.scoped.feedback, Keys) /\ Balanced(stage.legacy.judgments, LegacyKeys)

\* The inductive invariant.
AgentInv ==
  /\ TypeOK /\ ToldTyped
  /\ Placed /\ Marked /\ Beside /\ Staged /\ Durable /\ Searched /\ Kept /\ Balances
  /\ RefusalsAreKnown

-----------------------------------------------------------------------------
(* The values of the state.                                                *)

\* Null is not what a file, the marker, the binding or a mutation may hold.
LEMMA NullIsNoValue ==
  /\ Null \notin LegacyFiles /\ Null \notin ScopedStates /\ Null \notin ConnectionStates
  /\ Null \notin Markers /\ Null \notin Bindings /\ Null \notin Mutations
  /\ Null \notin Connections
BY RecoveryAssumption, ConnectionAssumption

\* A database is neither missing nor corrupt.
LEMMA DatabasesAreSound ==
  /\ \A d \in Databases : d # Missing /\ d # Corrupt
  /\ Missing # Corrupt
BY RecoveryAssumption

\* What an empty database holds.
LEMMA EmptyTyped ==
  /\ NoJudgments \in [LegacyKeys -> Judgment(LegacyKeys) \cup {Null}]
  /\ EmptyScoped \in ScopedStates /\ NoConnections \in ConnectionStates
  /\ EmptyDatabase \in Databases
<1>1. NoJudgments \in [LegacyKeys -> Judgment(LegacyKeys) \cup {Null}]
  BY DEF NoJudgments
<1>2. EmptyScoped.root \in RootStates
  BY <1>1 DEF EmptyScoped, RootStates
<1>3. EmptyScoped.status \in [Objects -> Statuses]
  BY DEF EmptyScoped, Statuses
<1>4. EmptyScoped \in ScopedStates
  BY <1>2, <1>3 DEF EmptyScoped, ScopedStates
<1>5. NoConnections \in ConnectionStates
  BY DEF NoConnections, ConnectionStates
<1>6. EmptyDatabase.legacy \in LegacyStates
  BY <1>1 DEF EmptyDatabase, LegacyStates
<1>7. EmptyDatabase \in Databases
  BY <1>4, <1>5, <1>6 DEF EmptyDatabase, Databases
<1> QED BY <1>1, <1>4, <1>5, <1>7

\* The parts of a database, and a database with another part.
LEMMA DatabaseParts ==
  ASSUME NEW d \in Databases
  PROVE  /\ d.legacy \in LegacyStates /\ d.scoped \in ScopedStates
         /\ d.conns \in ConnectionStates /\ d.meta \in BOOLEAN /\ d.table \in BOOLEAN
         /\ \A l \in LegacyStates : [d EXCEPT !.legacy = l] \in Databases
         /\ \A s \in ScopedStates : [d EXCEPT !.scoped = s] \in Databases
         /\ \A c \in ConnectionStates : [d EXCEPT !.conns = c] \in Databases
         /\ \A b \in BOOLEAN : [d EXCEPT !.meta = b] \in Databases
         /\ \A b \in BOOLEAN, c \in ConnectionStates :
              [d EXCEPT !.table = b, !.conns = c] \in Databases
BY DEF Databases

\* The legacy file and what is restored from it.
LEMMA LegacyCopies ==
  /\ \A l \in LegacyStates :
       /\ LegacySnapshot(l) \in LegacyFiles
       /\ LegacySnapshot(l).judgments = l.judgments /\ LegacySnapshot(l).lens = l.lens
  /\ \A f \in LegacyFiles :
       /\ RestoredLegacy(f) \in LegacyStates /\ LegacySnapshot(RestoredLegacy(f)) = f
       /\ RestoredLegacy(f).judgments = f.judgments /\ RestoredLegacy(f).lens = f.lens
BY DEF LegacyStates, LegacyFiles, LegacySnapshot, RestoredLegacy

\* A status has a rank.
LEMMA RankIsNumber ==
  /\ Rank("none") = 0 /\ Rank("active") = 1 /\ Rank("archived") = 2
  /\ \A status \in Statuses : Rank(status) \in 0..2
BY DEF Rank, Statuses

\* Everything keeps what was never told, and itself.
LEMMA KeepsNothing ==
  /\ \A s \in ScopedStates : KeepsScoped(s, EmptyScoped) /\ KeepsScoped(s, s)
  /\ \A l : KeepsLegacy(l, NoJudgments) /\ KeepsLegacy(l, l.judgments)
  /\ \A c \in ConnectionStates : KeepsConnections(c, NoConnections) /\ KeepsConnections(c, c)
<1>1. ASSUME NEW s \in ScopedStates PROVE KeepsScoped(s, EmptyScoped) /\ KeepsScoped(s, s)
  <2>1. \A o \in Objects : /\ Rank(s.status[o]) \in 0..2
                           /\ EmptyScoped.status[o] = "none"
    BY RankIsNumber DEF ScopedStates, EmptyScoped
  <2>2. \A o \in Objects : /\ Rank(s.status[o]) >= Rank(EmptyScoped.status[o])
                           /\ Rank(s.status[o]) >= Rank(s.status[o])
    BY <2>1, RankIsNumber
  <2> QED BY <2>2 DEF KeepsScoped, EmptyScoped, NoJudgments
<1>2. \A l : KeepsLegacy(l, NoJudgments) /\ KeepsLegacy(l, l.judgments)
  BY DEF KeepsLegacy, NoJudgments
<1>3. \A c \in ConnectionStates : KeepsConnections(c, NoConnections) /\ KeepsConnections(c, c)
  BY DEF KeepsConnections, NoConnections
<1> QED BY <1>1, <1>2, <1>3

\* The projection of a legacy half into a scoped one.
LEMMA Projects ==
  ASSUME NEW l \in LegacyStates, NEW s \in ScopedStates
  PROVE  /\ Projected(l, s) \in ScopedStates
         /\ Projected(l, s).status = s.status /\ Projected(l, s).feedback = s.feedback
         /\ \A t : KeepsScoped(s, t) => KeepsScoped(Projected(l, s), t)
         /\ ValidScoped(s) /\ ~ ValidScoped(Projected(l, s)) =>
              ~ l.lens /\ \E k \in LegacyKeys : l.judgments[k] # Null
<1> DEFINE p == Projected(l, s)
           judgments == [k \in LegacyKeys |-> IF s.root.judgments[k] # Null
                                              THEN s.root.judgments[k] ELSE l.judgments[k]]
<1>1. /\ l.lens \in BOOLEAN /\ l.judgments \in [LegacyKeys -> Judgment(LegacyKeys) \cup {Null}]
      /\ s.root \in RootStates /\ s.root.lens \in BOOLEAN /\ s.root.run \in BOOLEAN
      /\ s.root.judgments \in [LegacyKeys -> Judgment(LegacyKeys) \cup {Null}]
  BY DEF LegacyStates, ScopedStates, RootStates
<1>2. judgments \in [LegacyKeys -> Judgment(LegacyKeys) \cup {Null}]
  BY <1>1
<1>3. PICK judged \in BOOLEAN : judged = \E k \in LegacyKeys : l.judgments[k] # Null
  OBVIOUS
<1>4. PICK root : root = [present |-> TRUE, lens |-> (s.root.lens \/ l.lens),
                          run |-> (s.root.run \/ ((s.root.lens \/ l.lens) /\ judged)),
                          judgments |-> judgments]
  OBVIOUS
<1>5. p = [s EXCEPT !.root = root]
  BY <1>3, <1>4 DEF Projected
<1>6. root \in RootStates
  BY <1>1, <1>2, <1>4 DEF RootStates
<1>7. /\ p \in ScopedStates /\ p.root = root
      /\ p.status = s.status /\ p.feedback = s.feedback /\ p.runs = s.runs
  BY <1>5, <1>6 DEF ScopedStates
<1>8. \A t : KeepsScoped(s, t) => KeepsScoped(p, t)
  <2>1. \A k \in LegacyKeys : s.root.judgments[k] # Null =>
          root.judgments[k] = s.root.judgments[k]
    BY <1>4
  <2>2. ASSUME NEW t, KeepsScoped(s, t) PROVE KeepsScoped(p, t)
    BY <1>7, <2>1, <2>2 DEF KeepsScoped
  <2> QED BY <2>2
<1>9. ASSUME ValidScoped(s), ~ ValidScoped(p) PROVE ~ l.lens /\ judged
  <2>1. ~ root.run /\ \E k \in LegacyKeys : root.judgments[k] # Null
    BY <1>7, <1>9 DEF ValidScoped
  <2>2. ~ s.root.run
    BY <1>4, <2>1
  <2>3. \A k \in LegacyKeys : s.root.judgments[k] = Null
    BY <1>9, <2>2 DEF ValidScoped
  <2>4. judged
    BY <1>3, <1>4, <2>1, <2>3
  <2> QED BY <1>4, <2>1, <2>4
<1> QED BY <1>3, <1>7, <1>8, <1>9

-----------------------------------------------------------------------------
(* Mutations of the two halves.                                            *)

\* An original judgment under a free key leaves feedback balanced.
LEMMA OriginalBalances ==
  ASSUME NEW keys, Null \notin keys, NEW f, DOMAIN f = keys,
         \A k \in keys : f[k] # Null => f[k].reverses \in keys \cup {Null},
         Balanced(f, keys), NEW k \in keys, f[k] = Null,
         NEW j, j.reverses = Null
  PROVE  Balanced([f EXCEPT ![k] = j], keys)
<1> DEFINE g == [f EXCEPT ![k] = j]
<1>1. g[k] = j /\ \A x \in keys \ {k} : g[x] = f[x]
  OBVIOUS
<1>2. ASSUME NEW x \in keys, g[x] # Null, g[x].reverses # Null
      PROVE  /\ g[g[x].reverses] # Null /\ g[g[x].reverses].reverses = Null
             /\ g[x].effect = -g[g[x].reverses].effect
             /\ \A y \in keys \ {x} : g[y] # Null => g[y].reverses # g[x].reverses
  <2>1. x # k /\ g[x] = f[x]
    BY <1>1, <1>2
  <2>2. f[x].reverses \in keys \ {k}
    BY <1>2, <2>1 DEF Balanced
  <2>3. g[f[x].reverses] = f[f[x].reverses]
    BY <1>1, <2>2
  <2>4. \A y \in keys \ {x} : g[y] # Null => g[y].reverses # f[x].reverses
    BY <1>1, <1>2, <2>1, <2>2 DEF Balanced
  <2> QED BY <1>2, <2>1, <2>3, <2>4 DEF Balanced
<1> QED BY <1>2 DEF Balanced

\* So does the reversal of an original judgment that nothing has reversed.
LEMMA ReversalBalances ==
  ASSUME NEW keys, Null \notin keys, NEW f, DOMAIN f = keys,
         \A k \in keys : f[k] # Null => f[k].reverses \in keys \cup {Null},
         Balanced(f, keys), NEW k \in keys, f[k] = Null,
         NEW o \in keys, f[o] # Null, f[o].reverses = Null,
         \A x \in keys : f[x] # Null => f[x].reverses # o,
         NEW j, j.reverses = o, j.effect = -f[o].effect
  PROVE  Balanced([f EXCEPT ![k] = j], keys)
<1> DEFINE g == [f EXCEPT ![k] = j]
<1>1. g[k] = j /\ \A x \in keys \ {k} : g[x] = f[x]
  OBVIOUS
<1>2. ASSUME NEW x \in keys, g[x] # Null, g[x].reverses # Null
      PROVE  /\ g[g[x].reverses] # Null /\ g[g[x].reverses].reverses = Null
             /\ g[x].effect = -g[g[x].reverses].effect
             /\ \A y \in keys \ {x} : g[y] # Null => g[y].reverses # g[x].reverses
  <2>1. CASE x = k
    <3>1. g[x] = j /\ g[o] = f[o]
      BY <1>1, <2>1
    <3> QED BY <1>1, <2>1, <3>1
  <2>2. CASE x # k
    <3>1. g[x] = f[x]
      BY <1>1, <2>2
    <3>2. f[x].reverses \in keys \ {k}
      BY <1>2, <3>1 DEF Balanced
    <3>3. g[f[x].reverses] = f[f[x].reverses]
      BY <1>1, <3>2
    <3>4. j.reverses # f[x].reverses
      BY <1>2, <3>1
    <3>5. \A y \in keys \ {x} : g[y] # Null => g[y].reverses # f[x].reverses
      BY <1>1, <1>2, <3>1, <3>4 DEF Balanced
    <3> QED BY <1>2, <3>1, <3>3, <3>5 DEF Balanced
  <2> QED BY <2>1, <2>2
<1> QED BY <1>2 DEF Balanced

\* One half grows into another: what it keeps is kept, what balances balances.
GrowsScoped(s, r) ==
  /\ r \in ScopedStates /\ r.root = s.root
  /\ \A t \in ScopedStates : KeepsScoped(s, t) => KeepsScoped(r, t)
  /\ Balanced(s.feedback, Keys) => Balanced(r.feedback, Keys)
GrowsLegacy(l, m) ==
  /\ m \in LegacyStates
  /\ \A t : KeepsLegacy(l, t) => KeepsLegacy(m, t)
  /\ Balanced(l.judgments, LegacyKeys) => Balanced(m.judgments, LegacyKeys)
Grows(d, e) ==
  /\ e \in Databases /\ e.meta = d.meta /\ e.table = d.table /\ e.conns = d.conns
  /\ GrowsScoped(d.scoped, e.scoped) /\ GrowsLegacy(d.legacy, e.legacy)

\* What does not change grows.
LEMMA GrowsItself == \A d \in Databases : Grows(d, d)
BY DatabaseParts DEF Grows, GrowsScoped, GrowsLegacy

\* A database grows when one of its halves does.
LEMMA GrowsInOneHalf ==
  ASSUME NEW d \in Databases
  PROVE  /\ \A s : GrowsScoped(d.scoped, s) => Grows(d, [d EXCEPT !.scoped = s])
         /\ \A l : GrowsLegacy(d.legacy, l) => Grows(d, [d EXCEPT !.legacy = l])
<1>1. Grows(d, d)
  BY GrowsItself
<1>2. ASSUME NEW s, GrowsScoped(d.scoped, s) PROVE Grows(d, [d EXCEPT !.scoped = s])
  <2>1. s \in ScopedStates
    BY <1>2 DEF GrowsScoped
  <2>2. [d EXCEPT !.scoped = s] \in Databases
    BY <2>1, DatabaseParts
  <2>3. PICK e : e = [d EXCEPT !.scoped = s]
    OBVIOUS
  <2>4. e.scoped = s /\ e.legacy = d.legacy /\ e.meta = d.meta /\ e.table = d.table
        /\ e.conns = d.conns
    BY <2>3 DEF Databases
  <2> QED BY <1>1, <1>2, <2>2, <2>3, <2>4 DEF Grows
<1>3. ASSUME NEW l, GrowsLegacy(d.legacy, l) PROVE Grows(d, [d EXCEPT !.legacy = l])
  <2>1. l \in LegacyStates
    BY <1>3 DEF GrowsLegacy
  <2>2. [d EXCEPT !.legacy = l] \in Databases
    BY <2>1, DatabaseParts
  <2>3. PICK e : e = [d EXCEPT !.legacy = l]
    OBVIOUS
  <2>4. e.legacy = l /\ e.scoped = d.scoped /\ e.meta = d.meta /\ e.table = d.table
        /\ e.conns = d.conns
    BY <2>3 DEF Databases
  <2> QED BY <1>1, <1>3, <2>2, <2>3, <2>4 DEF Grows
<1> QED BY <1>2, <1>3

\* An object is put or archived: its status only moves forward.
LEMMA StatusGrows ==
  ASSUME NEW s \in ScopedStates, NEW o \in Objects
  PROVE  GrowsScoped(s, Put(s, o)) /\ GrowsScoped(s, Archive(s, o))
<1>1. s.status \in [Objects -> Statuses]
  BY DEF ScopedStates
<1>2. ASSUME NEW v \in {"active", "archived"}, Rank(v) >= Rank(s.status[o])
      PROVE  GrowsScoped(s, [s EXCEPT !.status[o] = v])
  <2>1. PICK r : r = [s EXCEPT !.status[o] = v]
    OBVIOUS
  <2>2. r \in ScopedStates /\ r.root = s.root /\ r.feedback = s.feedback
        /\ r.runs = s.runs /\ r.status = [s.status EXCEPT ![o] = v]
    BY <2>1 DEF ScopedStates, Statuses
  <2>3. ASSUME NEW t \in ScopedStates, KeepsScoped(s, t) PROVE KeepsScoped(r, t)
    <3>1. \A x \in Objects : /\ t.status[x] \in Statuses /\ s.status[x] \in Statuses
                             /\ Rank(s.status[x]) >= Rank(t.status[x])
      BY <1>1, <2>3 DEF ScopedStates, KeepsScoped
    <3>2. Rank(v) \in 0..2 /\ Rank(s.status[o]) \in 0..2 /\ Rank(t.status[o]) \in 0..2
      BY <3>1, RankIsNumber DEF Statuses
    <3>3. \A x \in Objects : Rank(r.status[x]) >= Rank(t.status[x])
      BY <1>1, <1>2, <2>2, <3>1, <3>2
    <3> QED BY <2>2, <2>3, <3>3 DEF KeepsScoped
  <2> QED BY <2>1, <2>2, <2>3 DEF GrowsScoped
<1>3. s.status[o] \in Statuses
  BY <1>1
<1>4. GrowsScoped(s, Archive(s, o))
  BY <1>2, <1>3, RankIsNumber DEF Statuses, Archive
<1>5. GrowsScoped(s, [s EXCEPT !.status[o] = IF s.status[o] = "none" THEN "active"
                                             ELSE s.status[o]])
  <2>1. CASE s.status[o] = "none"
    BY <1>2, <2>1, RankIsNumber
  <2>2. CASE s.status[o] # "none"
    BY <1>2, <1>3, <2>2, RankIsNumber DEF Statuses
  <2> QED BY <2>1, <2>2
<1>6. Put(s, o) = [s EXCEPT !.status[o] = IF s.status[o] = "none" THEN "active"
                                          ELSE s.status[o]]
  BY DEF Put
<1> QED BY <1>4, <1>5, <1>6

\* A search is saved under a free name.
LEMMA RunGrows ==
  ASSUME NEW s \in ScopedStates, NEW r \in Runs, NEW c \in Contexts, s.runs[r] = Null
  PROVE  GrowsScoped(s, [s EXCEPT !.runs[r] = c])
<1>1. PICK n : n = [s EXCEPT !.runs[r] = c]
  OBVIOUS
<1>2. n \in ScopedStates /\ n.root = s.root /\ n.feedback = s.feedback
      /\ n.status = s.status /\ n.runs = [s.runs EXCEPT ![r] = c] /\ DOMAIN s.runs = Runs
  BY <1>1 DEF ScopedStates
<1>3. ASSUME NEW t \in ScopedStates, KeepsScoped(s, t) PROVE KeepsScoped(n, t)
  BY <1>2, <1>3 DEF KeepsScoped
<1> QED BY <1>1, <1>2, <1>3 DEF GrowsScoped

\* Feedback is passed under a free key.
LEMMA FeedbackGrows ==
  ASSUME NEW s \in ScopedStates, NEW k \in Keys, s.feedback[k] = Null,
         NEW j \in ScopedJudgments,
         Balanced(s.feedback, Keys) => Balanced([s.feedback EXCEPT ![k] = j], Keys)
  PROVE  GrowsScoped(s, [s EXCEPT !.feedback[k] = j])
<1>1. PICK n : n = [s EXCEPT !.feedback[k] = j]
  OBVIOUS
<1>2. n \in ScopedStates /\ n.root = s.root /\ n.runs = s.runs
      /\ n.status = s.status /\ n.feedback = [s.feedback EXCEPT ![k] = j]
      /\ DOMAIN s.feedback = Keys
  BY <1>1 DEF ScopedStates
<1>3. ASSUME NEW t \in ScopedStates, KeepsScoped(s, t) PROVE KeepsScoped(n, t)
  BY <1>2, <1>3 DEF KeepsScoped
<1> QED BY <1>1, <1>2, <1>3 DEF GrowsScoped
\* A legacy half grows by a judgment under a free key.
LEMMA JudgmentGrows ==
  ASSUME NEW l \in LegacyStates, NEW k \in LegacyKeys, l.judgments[k] = Null,
         NEW j \in Judgment(LegacyKeys),
         Balanced(l.judgments, LegacyKeys) =>
           Balanced([l.judgments EXCEPT ![k] = j], LegacyKeys)
  PROVE  GrowsLegacy(l, [l EXCEPT !.judgments[k] = j])
<1>1. PICK n : n = [l EXCEPT !.judgments[k] = j]
  OBVIOUS
<1>2. n \in LegacyStates /\ n.judgments = [l.judgments EXCEPT ![k] = j]
      /\ DOMAIN l.judgments = LegacyKeys
  BY <1>1 DEF LegacyStates
<1>3. ASSUME NEW t, KeepsLegacy(l, t) PROVE KeepsLegacy(n, t)
  BY <1>2, <1>3 DEF KeepsLegacy
<1> QED BY <1>1, <1>2, <1>3 DEF GrowsLegacy
\* A legacy half grows by a lens put or deleted and by a search.
LEMMA LensGrows ==
  ASSUME NEW l \in LegacyStates, NEW b \in BOOLEAN
  PROVE  GrowsLegacy(l, [l EXCEPT !.lens = b]) /\ GrowsLegacy(l, [l EXCEPT !.run = b])
<1>1. ASSUME NEW n \in LegacyStates, n.judgments = l.judgments PROVE GrowsLegacy(l, n)
  BY <1>1 DEF GrowsLegacy, KeepsLegacy
<1>2. /\ [l EXCEPT !.lens = b] \in LegacyStates /\ [l EXCEPT !.run = b] \in LegacyStates
      /\ [l EXCEPT !.lens = b].judgments = l.judgments
      /\ [l EXCEPT !.run = b].judgments = l.judgments
  BY DEF LegacyStates
<1> QED BY <1>1, <1>2

\* Everything but connections and searches of the legacy half commits a database
\* that grows from the one before.
Commits ==
  \/ \E o \in Scopes : PutScope(o) \/ ArchiveScope(o)
  \/ \E o \in Lenses : PutScopedLens(o) \/ ArchiveScopedLens(o)
  \/ \E o \in Actors : PutAgentActor(o) \/ RegisterAgentActor(o) \/ ArchiveAgentActor(o)
  \/ \E r \in Runs, c \in Contexts : SaveScopedRetrieval(r, c)
  \/ \E k \in Keys :
       \/ \E r \in Runs, v \in Verdicts : ApplyScopedJudgment(k, r, v)
       \/ \E j \in Keys, actor \in Judges : ReverseScopedJudgment(k, actor, j)
  \/ \E k \in Keys \cup LegacyKeys : Replay(k)
  \/ PutLens \/ DeleteLens
  \/ \E k \in LegacyKeys :
       \/ \E v \in Verdicts : ApplyJudgment(k, v)
       \/ \E j \in LegacyKeys, actor \in Judges : ReverseJudgment(k, actor, j)

\* An open store has a database.
LEMMA OpenHasDatabase ==
  ASSUME TypeOK, Placed, pc = "idle"
  PROVE  db \in Databases
BY DEF TypeOK, Placed, Serving, Sound

\* What a judgment weighs is an effect, and so is the opposite of an effect.
LEMMA Weighs ==
  /\ \A v \in Verdicts : v.actor \in Judges /\ v.sign * Weight(v.actor) \in Effects
  /\ \A e \in Effects : -e \in Effects
<1>1. ASSUME NEW v \in Verdicts
      PROVE  v.actor \in Judges /\ v.sign * Weight(v.actor) \in Effects
  <2>1. v.actor \in {"owner", "agent"} /\ v.sign \in {1, -1}
    BY AgentStateAssumption
  <2>2. Weight("owner") = 4 /\ Weight("agent") = 1
    BY DEF Weight
  <2>3. CASE v.sign = 1
    BY <2>1, <2>2, <2>3 DEF Effects, Judges
  <2>4. CASE v.sign = -1
    BY <2>1, <2>2, <2>4 DEF Effects, Judges
  <2> QED BY <2>1, <2>3, <2>4
<1>2. \A e \in Effects : -e \in Effects
  BY DEF Effects
<1> QED BY <1>1, <1>2

\* The scoped half grows by a judgment and by its reversal.
LEMMA ScopedJudgmentGrows ==
  ASSUME NEW s \in ScopedStates, NEW k \in Keys, s.feedback[k] = Null
  PROVE  /\ \A r \in Runs, v \in Verdicts :
              GrowsScoped(s, [s EXCEPT !.feedback[k] = Original(r, v)])
         /\ \A j \in Keys, actor \in Judges : MayReverse(s, actor, j) =>
              GrowsScoped(s, [s EXCEPT !.feedback[k] = Reversal(s, j)])
<1>1. /\ s.feedback \in [Keys -> ScopedJudgments \cup {Null}] /\ Null \notin Keys
      /\ DOMAIN s.feedback = Keys
  BY AgentStateAssumption DEF ScopedStates
<1>2. \A x \in Keys : s.feedback[x] # Null => s.feedback[x].reverses \in Keys \cup {Null}
  BY <1>1 DEF ScopedJudgments
<1>3. ASSUME NEW r \in Runs, NEW v \in Verdicts
      PROVE  GrowsScoped(s, [s EXCEPT !.feedback[k] = Original(r, v)])
  <2>1. PICK j : j = Original(r, v)
    OBVIOUS
  <2>2. j \in ScopedJudgments /\ j.reverses = Null
    BY <2>1, Weighs DEF Original, ScopedJudgments
  <2>3. Balanced(s.feedback, Keys) => Balanced([s.feedback EXCEPT ![k] = j], Keys)
    BY <1>1, <1>2, <2>2, OriginalBalances
  <2> QED BY <2>1, <2>2, <2>3, FeedbackGrows
<1>4. ASSUME NEW o \in Keys, NEW actor \in Judges, MayReverse(s, actor, o)
      PROVE  GrowsScoped(s, [s EXCEPT !.feedback[k] = Reversal(s, o)])
  <2>1. PICK j : j = Reversal(s, o)
    OBVIOUS
  <2>2. /\ s.feedback[o] # Null /\ s.feedback[o].reverses = Null
        /\ \A x \in Keys : s.feedback[x] # Null => s.feedback[x].reverses # o
        /\ s.feedback[o] \in ScopedJudgments
    BY <1>1, <1>4 DEF MayReverse
  <2>3. j \in ScopedJudgments /\ j.reverses = o /\ j.effect = -s.feedback[o].effect
    BY <2>1, <2>2, Weighs DEF Reversal, ScopedJudgments
  <2>4. Balanced(s.feedback, Keys) => Balanced([s.feedback EXCEPT ![k] = j], Keys)
    BY <1>1, <1>2, <2>2, <2>3, ReversalBalances
  <2> QED BY <2>1, <2>3, <2>4, FeedbackGrows
<1> QED BY <1>3, <1>4

\* So does the legacy half.
LEMMA LegacyJudgmentGrows ==
  ASSUME NEW l \in LegacyStates, NEW k \in LegacyKeys, l.judgments[k] = Null
  PROVE  /\ \A v \in Verdicts :
              GrowsLegacy(l, [l EXCEPT !.judgments[k] = LegacyOriginal(v)])
         /\ \A j \in LegacyKeys, actor \in Judges : MayReverseLegacy(l, j) =>
              GrowsLegacy(l, [l EXCEPT !.judgments[k] = LegacyReversal(l, actor, j)])
<1>1. /\ l.judgments \in [LegacyKeys -> Judgment(LegacyKeys) \cup {Null}]
      /\ Null \notin LegacyKeys /\ DOMAIN l.judgments = LegacyKeys
  BY AgentStateAssumption DEF LegacyStates
<1>2. \A x \in LegacyKeys :
        l.judgments[x] # Null => l.judgments[x].reverses \in LegacyKeys \cup {Null}
  BY <1>1 DEF Judgment
<1>3. ASSUME NEW v \in Verdicts
      PROVE  GrowsLegacy(l, [l EXCEPT !.judgments[k] = LegacyOriginal(v)])
  <2>1. PICK j : j = LegacyOriginal(v)
    OBVIOUS
  <2>2. j \in Judgment(LegacyKeys) /\ j.reverses = Null
    BY <2>1, Weighs DEF LegacyOriginal, Judgment
  <2>3. Balanced(l.judgments, LegacyKeys) =>
          Balanced([l.judgments EXCEPT ![k] = j], LegacyKeys)
    BY <1>1, <1>2, <2>2, OriginalBalances
  <2> QED BY <2>1, <2>2, <2>3, JudgmentGrows
<1>4. ASSUME NEW o \in LegacyKeys, NEW actor \in Judges, MayReverseLegacy(l, o)
      PROVE  GrowsLegacy(l, [l EXCEPT !.judgments[k] = LegacyReversal(l, actor, o)])
  <2>1. PICK j : j = LegacyReversal(l, actor, o)
    OBVIOUS
  <2>2. /\ l.judgments[o] # Null /\ l.judgments[o].reverses = Null
        /\ \A x \in LegacyKeys : l.judgments[x] # Null => l.judgments[x].reverses # o
        /\ l.judgments[o] \in Judgment(LegacyKeys)
    BY <1>1, <1>4 DEF MayReverseLegacy
  <2>3. /\ j \in Judgment(LegacyKeys) /\ j.reverses = o
        /\ j.effect = -l.judgments[o].effect
    BY <2>1, <2>2, Weighs DEF LegacyReversal, Judgment
  <2>4. Balanced(l.judgments, LegacyKeys) =>
          Balanced([l.judgments EXCEPT ![k] = j], LegacyKeys)
    BY <1>1, <1>2, <2>2, <2>3, ReversalBalances
  <2> QED BY <2>1, <2>3, <2>4, JudgmentGrows
<1> QED BY <1>3, <1>4

\* Every mutation commits a database that has grown.
LEMMA CommitsGrow ==
  ASSUME TypeOK, Placed, Commits
  PROVE  \E d : Commit(d) /\ Grows(db, d)
<1>1. pc = "idle"
  BY DEF Commits, PutScope, ArchiveScope, PutScopedLens, ArchiveScopedLens,
         PutAgentActor, RegisterAgentActor, ArchiveAgentActor, SaveScopedRetrieval,
         ApplyScopedJudgment, ReverseScopedJudgment, Replay, PutLens, DeleteLens,
         ApplyJudgment, ReverseJudgment, Scoped, Legacy, Commit
<1>2. /\ db \in Databases /\ db.scoped \in ScopedStates /\ db.legacy \in LegacyStates
      /\ Scopes \cup Lenses \cup Actors = Objects
  BY <1>1, OpenHasDatabase, DatabaseParts DEF Objects
<1>3. ASSUME NEW s, Scoped(s), GrowsScoped(db.scoped, s)
      PROVE  \E d : Commit(d) /\ Grows(db, d)
  BY <1>2, <1>3, GrowsInOneHalf DEF Scoped
<1>4. ASSUME NEW l, Legacy(l), GrowsLegacy(db.legacy, l)
      PROVE  \E d : Commit(d) /\ Grows(db, d)
  BY <1>2, <1>4, GrowsInOneHalf DEF Legacy
<1>5. CASE \E o \in Objects : Scoped(Put(db.scoped, o)) \/ Scoped(Archive(db.scoped, o))
  BY <1>2, <1>3, <1>5, StatusGrows
<1>6. CASE \E r \in Runs, c \in Contexts : SaveScopedRetrieval(r, c)
  BY <1>2, <1>3, <1>6, RunGrows DEF SaveScopedRetrieval
<1>7. CASE \E k \in Keys :
             \/ \E r \in Runs, v \in Verdicts : ApplyScopedJudgment(k, r, v)
             \/ \E j \in Keys, actor \in Judges : ReverseScopedJudgment(k, actor, j)
  BY <1>2, <1>3, <1>7, ScopedJudgmentGrows DEF ApplyScopedJudgment, ReverseScopedJudgment
<1>8. CASE \E k \in Keys \cup LegacyKeys : Replay(k)
  BY <1>2, <1>8, GrowsItself DEF Replay
<1>9. CASE PutLens \/ DeleteLens
  <2>1. PICK b \in BOOLEAN : Legacy([db.legacy EXCEPT !.lens = b])
    BY <1>9 DEF PutLens, DeleteLens
  <2> QED BY <1>2, <1>4, <2>1, LensGrows
<1>10. CASE \E k \in LegacyKeys :
              \/ \E v \in Verdicts : ApplyJudgment(k, v)
              \/ \E j \in LegacyKeys, actor \in Judges : ReverseJudgment(k, actor, j)
  BY <1>2, <1>4, <1>10, LegacyJudgmentGrows DEF ApplyJudgment, ReverseJudgment
<1>11. CASE \/ \E o \in Scopes : PutScope(o) \/ ArchiveScope(o)
            \/ \E o \in Lenses : PutScopedLens(o) \/ ArchiveScopedLens(o)
            \/ \E o \in Actors : \/ PutAgentActor(o) \/ RegisterAgentActor(o)
                                 \/ ArchiveAgentActor(o)
  BY <1>2, <1>5, <1>11
     DEF PutScope, ArchiveScope, PutScopedLens, ArchiveScopedLens, PutAgentActor,
         RegisterAgentActor, ArchiveAgentActor
<1> QED BY <1>6, <1>7, <1>8, <1>9, <1>10, <1>11 DEF Commits

-----------------------------------------------------------------------------
(* The steps of the store.                                                 *)

\* A mutation of the two halves, or a legacy search, which no file follows.
Mutated ==
  /\ pc = "idle" /\ Grows(db, db') /\ pc' \in {"idle", "legacy"}
  /\ UNCHANGED <<files, adopted, recovery, pending, told, faults>>

\* Such a mutation leaves the files as they are.
LEMMA Mutates ==
  ASSUME TypeOK, Placed, Commits \/ SaveRetrieval
  PROVE  Mutated
<1>1. CASE Commits
  <2>1. PICK d : Commit(d) /\ Grows(db, d)
    BY <1>1, CommitsGrow
  <2> QED BY <2>1 DEF Commit, Goto, Unchanged, Mutated
<1>2. CASE SaveRetrieval
  <2>1. /\ db \in Databases /\ db.legacy \in LegacyStates /\ pc = "idle"
        /\ db' = [db EXCEPT !.legacy.run = TRUE]
    BY <1>2, OpenHasDatabase, DatabaseParts DEF SaveRetrieval
  <2>2. PICK b \in BOOLEAN : b = TRUE
    OBVIOUS
  <2>3. PICK l : l = [db.legacy EXCEPT !.run = b]
    OBVIOUS
  <2>4. GrowsLegacy(db.legacy, l)
    BY <2>1, <2>3, LensGrows
  <2>5. db' = [db EXCEPT !.legacy = l]
    BY <2>1, <2>2, <2>3 DEF Databases
  <2>6. Grows(db, [db EXCEPT !.legacy = l])
    BY <2>1, <2>4, GrowsInOneHalf
  <2> QED BY <1>2, <2>1, <2>5, <2>6 DEF SaveRetrieval, Goto, Unchanged, Mutated
<1> QED BY <1>1, <1>2

\* A mutation of a connection, whose file follows.
Connects ==
  /\ pc = "idle" /\ pc' = "project" /\ pending' \in Mutations
  /\ db' \in Databases /\ db'.legacy = db.legacy /\ db'.scoped = db.scoped
  /\ db'.meta = db.meta /\ db'.table = db.table
  /\ \A t \in ConnectionStates : KeepsConnections(db.conns, t) => KeepsConnections(db'.conns, t)
  /\ UNCHANGED <<files, adopted, recovery, told, faults>>

\* Binding and archiving a handle are mutations of a connection.
LEMMA ConnectionChanges ==
  ASSUME TypeOK, Placed,
         \E h \in Digests : \/ ArchiveProjectConnection(h)
                            \/ \E c \in Contexts : BindProjectConnection(h, c)
  PROVE  Connects
<1>1. PICK h \in Digests : \/ ArchiveProjectConnection(h)
                           \/ \E c \in Contexts : BindProjectConnection(h, c)
  OBVIOUS
<1>2. /\ pc = "idle" /\ pc' = "project"
      /\ UNCHANGED <<files, adopted, recovery, told, faults>>
      /\ pending' \in {Pends("archive", h), Pends("bind", h)}
  BY <1>1 DEF ArchiveProjectConnection, BindProjectConnection, Goto
<1>8. pending' \in Mutations
  <2>1. \A kind \in {"bind", "archive"} : Pends(kind, h) \in Mutations
    BY <1>1 DEF Pends, Mutations
  <2> QED BY <1>2, <2>1
<1>3. /\ db \in Databases /\ db.conns \in ConnectionStates
      /\ db.conns \in [Digests -> Connections \cup {Null}]
  BY <1>2, OpenHasDatabase, DatabaseParts DEF ConnectionStates
<1>4. CASE UNCHANGED db
  BY <1>2, <1>3, <1>4, <1>8 DEF Connects
<1>5. ASSUME NEW v \in Connections, db' = [db EXCEPT !.conns[h] = v],
             \A t \in Connections :
               db.conns[h] # Null /\ db.conns[h].context = t.context
                 /\ (t.status = "archived" => db.conns[h].status = "archived")
               => v.context = t.context /\ (t.status = "archived" => v.status = "archived")
      PROVE  Connects
  <2>1. PICK conns : conns = [db.conns EXCEPT ![h] = v]
    OBVIOUS
  <2>2. conns \in ConnectionStates
    BY <1>3, <2>1 DEF ConnectionStates
  <2>3. db' = [db EXCEPT !.conns = conns]
    BY <1>3, <1>5, <2>1 DEF Databases
  <2>4. db' \in Databases
    BY <1>3, <2>2, <2>3, DatabaseParts
  <2>5. /\ db'.legacy = db.legacy /\ db'.scoped = db.scoped /\ db'.conns = conns
        /\ db'.meta = db.meta /\ db'.table = db.table
    BY <1>3, <2>3 DEF Databases
  <2>6. ASSUME NEW t \in ConnectionStates, KeepsConnections(db.conns, t)
        PROVE  KeepsConnections(conns, t)
    <3>1. ASSUME NEW d \in Digests, t[d] # Null
          PROVE  /\ conns[d] # Null /\ conns[d].context = t[d].context
                 /\ t[d].status = "archived" => conns[d].status = "archived"
      <4>1. /\ t[d] \in Connections
            /\ db.conns[d] # Null /\ db.conns[d].context = t[d].context
            /\ t[d].status = "archived" => db.conns[d].status = "archived"
        BY <2>6, <3>1 DEF ConnectionStates, KeepsConnections
      <4>2. CASE d = h
        BY <1>3, <1>5, <2>1, <4>1, <4>2, NullIsNoValue
      <4>3. CASE d # h
        BY <1>3, <2>1, <4>1, <4>3
      <4> QED BY <4>2, <4>3
    <3> QED BY <3>1 DEF KeepsConnections
  <2> QED BY <1>2, <1>8, <2>4, <2>5, <2>6 DEF Connects
<1>6. CASE ArchiveProjectConnection(h)
  <2>1. db.conns[h] # Null /\ db.conns[h] \in Connections
    BY <1>3, <1>6 DEF ArchiveProjectConnection
  <2>2. PICK v : v = [db.conns[h] EXCEPT !.status = "archived"]
    OBVIOUS
  <2>3. v \in Connections /\ v.context = db.conns[h].context /\ v.status = "archived"
    BY <2>1, <2>2 DEF Connections
  <2>4. db' = [db EXCEPT !.conns[h] = v]
    BY <1>3, <1>6, <2>1, <2>2 DEF ArchiveProjectConnection, Unbind, Databases, Connections
  <2> QED BY <1>5, <2>3, <2>4
<1>7. CASE \E c \in Contexts : BindProjectConnection(h, c)
  <2>1. PICK c \in Contexts : BindProjectConnection(h, c)
    BY <1>7
  <2>2. PICK v : v = [context |-> c, status |-> "active"]
    OBVIOUS
  <2>3. v \in Connections
    BY <2>2 DEF Connections
  <2>4. CASE db.conns[h] = Null /\ db' = Bind(db, c, h)
    BY <1>5, <2>2, <2>3, <2>4 DEF Bind
  <2> QED BY <1>4, <2>1, <2>4 DEF BindProjectConnection
<1> QED BY <1>1, <1>6, <1>7

\* What a step of the store is.
LEMMA Steps ==
  ASSUME TypeOK, Placed, Next
  PROVE  \/ Mutated \/ Connects \/ WriteFails \/ SaveFiles \/ Start
         \/ Close \/ Retry \/ Crash \/ Lose \/ PriorBinaryRebuilds
BY Mutates, ConnectionChanges DEF Next, Mutate, Commits

-----------------------------------------------------------------------------
(* Types.                                                                  *)

\* What a start or a recovery makes of the files and the database has a type.
LEMMA MadeTyped ==
  ASSUME TypeOK
  PROVE  /\ Inherited \in ConnectionStates /\ KnownLegacy \in LegacyFiles
         /\ Restored \in Databases /\ Whole(Restored)
         /\ Restored.legacy = RestoredLegacy(KnownLegacy)
         /\ Restored.conns = Inherited
         /\ Sound => db \in Databases /\ Initialised(db) \in Databases
         /\ \A c \in ConnectionStates : BoundTo(c) \in Bindings
         /\ Unbound \in Bindings
<1>1. Inherited \in ConnectionStates
  BY EmptyTyped DEF TypeOK, Inherited
<1>2. KnownLegacy \in LegacyFiles
  BY EmptyTyped, DatabaseParts, LegacyCopies DEF TypeOK, KnownLegacy
<1>3. PICK legacy : legacy = RestoredLegacy(KnownLegacy)
  OBVIOUS
<1>4. PICK rooted : rooted = Projected(EmptyDatabase.legacy, EmptyScoped)
  OBVIOUS
<1>5. legacy \in LegacyStates /\ rooted \in ScopedStates
  BY <1>2, <1>3, <1>4, EmptyTyped, DatabaseParts, LegacyCopies, Projects
<1>6. PICK scoped : scoped = IF scopedFile # Null THEN scopedFile ELSE Projected(legacy, rooted)
  OBVIOUS
<1>7. scoped \in ScopedStates
  BY <1>5, <1>6, Projects DEF TypeOK
<1>8. Restored = [legacy |-> legacy, meta |-> TRUE, scoped |-> scoped, table |-> TRUE,
                  conns |-> Inherited]
  BY <1>3, <1>4, <1>6 DEF Restored
<1>9. /\ Restored \in Databases /\ Whole(Restored) /\ Restored.legacy = legacy
      /\ Restored.conns = Inherited
  BY <1>1, <1>5, <1>7, <1>8 DEF Databases, Whole
<1>10. ASSUME Sound PROVE db \in Databases /\ Initialised(db) \in Databases
  <2>1. db \in Databases
    BY <1>10 DEF Sound, TypeOK
  <2>2. Projected(db.legacy, db.scoped) \in ScopedStates
    BY <2>1, DatabaseParts, Projects
  <2>3. scopedFile \in ScopedStates \cup {Null}
    BY DEF TypeOK
  <2> QED BY <2>1, <2>2, <2>3, DatabaseParts DEF Initialised
<1>11. Unbound \in Bindings /\ \A c \in ConnectionStates : BoundTo(c) \in Bindings
  BY EmptyTyped DEF Unbound, BoundTo, Bindings
<1> QED BY <1>1, <1>2, <1>3, <1>9, <1>10, <1>11

\* What is moved away is the database, or what is beside it once the database is gone.
LEMMA Quarantines ==
  ASSUME Quarantine
  PROVE  /\ UNCHANGED <<files, adopted, marker, binding, stage, pending, told, faults>>
         /\ pc \in Moving /\ pc' \in {"move_log", "move_index", "stage", "refused"}
         /\ db' \in {db, Missing} /\ quarantined' \in {TRUE, quarantined}
         /\ sides' \subseteq sides
         /\ pc # "move" => UNCHANGED <<db, quarantined>>
         /\ pc = "move" /\ quarantined => db' = db
         /\ pc = "move" /\ ~ quarantined => db' = Missing
         /\ pc = "move" => quarantined' = TRUE
         /\ pc' = "move_log" => pc = "move" /\ (quarantined => db = Missing)
         /\ pc' = "move_index" => pc = "move_log" /\ "log" \notin sides'
         /\ pc' = "stage" => pc = "move_index" /\ sides' = sides \ {"index"}
         /\ pc' = "refused" => pc = "move" /\ db # Missing /\ quarantined
BY DEF Quarantine, MoveDatabase, MoveLog, MoveIndex, MoveSide, StartAt, Goto, Moving

\* Every step preserves the types.
LEMMA TypedNext ==
  ASSUME TypeOK, ToldTyped, Placed, Staged, Next
  PROVE  TypeOK' /\ ToldTyped'
<1>1. faults' \in 0 .. MaxFaults /\ (faults' = faults \/ Fault)
  <2>1. faults' = faults \/ Fault
    BY Steps, Quarantines DEF Mutated, Connects, WriteFails, SaveFiles, WriteLegacyFile, WriteScopedFile,
       WriteProjectFile, Start, Open, OpenScopedHalf, OpenScopedMeta, OpenConnections,
       OpenProjectFile, OpenAdopts, OpenLegacyFile, OpenScopedFile, RecoverAdopts,
       RecoverBinds, RecoverMarks, Resume, Inspect, BuildStage, StageScopedFile,
       StageProjectFile, Promote, Verify, RemoveBinding, RemoveMarker, StartAt,
       Close, Retry, Crash, Lose, PriorBinaryRebuilds
  <2> QED BY <2>1, RecoveryAssumption DEF TypeOK, Fault
<1>2. /\ db \in Databases \cup {Missing, Corrupt} /\ legacyFile \in LegacyFiles \cup {Null}
      /\ scopedFile \in ScopedStates \cup {Null} /\ projectFile \in ConnectionStates \cup {Null}
      /\ Sound => db \in Databases
  BY DEF TypeOK, Sound
<1>3. CASE Mutated \/ Connects
  BY <1>1, <1>3 DEF TypeOK, ToldTyped, Mutated, Connects, Grows, files, recovery, Places
<1>4. CASE WriteFails
  BY <1>1, <1>4 DEF TypeOK, ToldTyped, WriteFails, Goto, files, recovery, Places
<1>5. CASE SaveFiles
  <2>1. pc \in {"legacy", "scoped", "project"}
    BY <1>5 DEF SaveFiles, WriteLegacyFile, WriteScopedFile, WriteProjectFile
  <2>2. /\ db.legacy \in LegacyStates /\ db.scoped \in ScopedStates
        /\ db.conns \in ConnectionStates /\ LegacySnapshot(db.legacy) \in LegacyFiles
        /\ db.legacy.judgments \in [LegacyKeys -> Judgment(LegacyKeys) \cup {Null}]
    BY <1>2, <2>1, DatabaseParts, LegacyCopies DEF Placed, Serving, LegacyStates
  <2>3. CASE WriteLegacyFile
    BY <1>1, <2>2, <2>3 DEF TypeOK, ToldTyped, WriteLegacyFile, Goto, recovery, Places
  <2>4. CASE WriteScopedFile
    <3>1. PICK s, js : s = db.scoped /\ js = db.legacy.judgments
      OBVIOUS
    <3>2. s \in ScopedStates /\ js \in [LegacyKeys -> Judgment(LegacyKeys) \cup {Null}]
      BY <2>2, <3>1
    <3>3. told' = [told EXCEPT !.scoped = s, !.judgments = js] /\ scopedFile' = s
      BY <2>4, <3>1 DEF WriteScopedFile
    <3>4. ToldTyped'
      BY <1>1, <3>2, <3>3 DEF ToldTyped
    <3>5. TypeOK'
      BY <1>1, <2>4, <3>2, <3>3 DEF TypeOK, WriteScopedFile, Goto, recovery, Places
    <3> QED BY <3>4, <3>5
  <2>5. CASE WriteProjectFile
    BY <1>1, <2>2, <2>5 DEF TypeOK, ToldTyped, WriteProjectFile, Goto, recovery, Places
  <2> QED BY <1>5, <2>3, <2>4, <2>5 DEF SaveFiles
<1>6. CASE Start
  <2>1. pc' \in Places /\ UNCHANGED <<pending, told, faults>>
    BY <1>6, Quarantines DEF Start, Open, OpenScopedHalf, OpenScopedMeta, OpenConnections,
       OpenProjectFile, OpenAdopts, OpenLegacyFile, OpenScopedFile, RecoverAdopts,
       RecoverBinds, RecoverMarks, Resume, Inspect, BuildStage, StageScopedFile,
       StageProjectFile, Promote, Verify, RemoveBinding, RemoveMarker, StartAt, Goto, Places
  <2>2. ToldTyped' /\ faults' \in 0 .. MaxFaults /\ pending' \in Mutations \cup {Null}
    BY <1>1, <2>1 DEF ToldTyped, TypeOK
  <2>3. db' \in Databases \cup {Missing, Corrupt}
    <3>1. CASE UNCHANGED db
      BY <1>2, <3>1
    <3>2. CASE Open
      BY <1>2, <3>2, EmptyTyped DEF Open
    <3>3. CASE OpenScopedHalf
      BY <1>2, <3>3, MadeTyped DEF OpenScopedHalf, StartAt, Placed
    <3>4. CASE OpenScopedMeta
      <4>1. db \in Databases
        BY <1>2, <3>4 DEF OpenScopedMeta, StartAt, Placed
      <4> QED BY <3>4, <4>1, DatabaseParts DEF OpenScopedMeta
    <3>5. CASE OpenConnections
      <4>1. db \in Databases
        BY <1>2, <3>5 DEF OpenConnections, StartAt, Placed
      <4> QED BY <3>5, <4>1, DatabaseParts, MadeTyped DEF OpenConnections
    <3>6. CASE Quarantine
      BY <1>2, <3>6, Quarantines
    <3>7. CASE Promote
      BY <3>7 DEF Promote, StartAt, Staged, Staging, TypeOK
    <3> QED BY <1>6, <3>1, <3>2, <3>3, <3>4, <3>5, <3>6, <3>7
            DEF Start, OpenProjectFile, OpenAdopts, OpenLegacyFile, OpenScopedFile,
                RecoverAdopts, RecoverBinds, RecoverMarks, Resume, Inspect, BuildStage,
                StageScopedFile, StageProjectFile, Verify, RemoveBinding, RemoveMarker
  <2>4. stage' \in Databases \cup {Null}
    <3>1. CASE BuildStage
      BY <3>1, MadeTyped DEF BuildStage
    <3>2. CASE Promote
      BY <3>2 DEF Promote
    <3>3. CASE UNCHANGED stage
      BY <3>3 DEF TypeOK
    <3> QED BY <1>6, <3>1, <3>2, <3>3, Quarantines
            DEF Start, Open, OpenScopedHalf, OpenScopedMeta, OpenConnections,
       OpenProjectFile, OpenAdopts, OpenLegacyFile, OpenScopedFile, RecoverAdopts,
       RecoverBinds, RecoverMarks, Resume, Inspect, StageScopedFile,
       StageProjectFile, Verify, RemoveBinding, RemoveMarker, recovery
  <2>5. /\ legacyFile' \in LegacyFiles \cup {Null}
        /\ scopedFile' \in ScopedStates \cup {Null}
        /\ projectFile' \in ConnectionStates \cup {Null}
    <3>1. CASE UNCHANGED files
      BY <1>2, <3>1 DEF files
    <3>2. CASE OpenProjectFile \/ OpenLegacyFile \/ OpenScopedFile
      <4>1. db \in Databases
        BY <1>2, <3>2
           DEF OpenProjectFile, OpenLegacyFile, OpenScopedFile, StartAt, Placed, Serving
      <4> QED BY <1>2, <3>2, <4>1, DatabaseParts, LegacyCopies
              DEF OpenProjectFile, OpenLegacyFile, OpenScopedFile, files
    <3>3. CASE StageScopedFile \/ StageProjectFile
      <4>1. stage \in Databases
        BY <3>3 DEF StageScopedFile, StageProjectFile, StartAt, Staged, Staging, TypeOK
      <4> QED BY <1>2, <3>3, <4>1, DatabaseParts DEF StageScopedFile, StageProjectFile
    <3> QED BY <1>6, <3>1, <3>2, <3>3, Quarantines
            DEF Start, Open, OpenScopedHalf, OpenScopedMeta, OpenConnections, OpenAdopts,
       RecoverAdopts, RecoverBinds, RecoverMarks, Resume, Inspect, BuildStage, Promote,
       Verify, RemoveBinding, RemoveMarker
  <2>6. /\ adopted' \in BOOLEAN /\ quarantined' \in BOOLEAN /\ sides' \subseteq Sides
        /\ marker' \in Markers \cup {Null} /\ binding' \in Bindings \cup {Null}
    <3>1. CASE UNCHANGED recovery /\ UNCHANGED adopted
      BY <3>1 DEF TypeOK, recovery
    <3>2. CASE RecoverMarks
      <4>1. PICK b \in BOOLEAN : b = (legacyFile # Null)
        OBVIOUS
      <4>2. [legacy |-> b] \in Markers
        BY DEF Markers
      <4> QED BY <3>2, <4>1, <4>2 DEF RecoverMarks, TypeOK
    <3>3. CASE OpenAdopts \/ RecoverAdopts \/ Inspect \/ Verify \/ RemoveMarker
      BY <3>3 DEF OpenAdopts, RecoverAdopts, Inspect, Verify, RemoveMarker, TypeOK, recovery
    <3>4. CASE RecoverBinds \/ Resume \/ RemoveBinding
      BY <1>2, <3>4, MadeTyped DEF RecoverBinds, Resume, RemoveBinding, TypeOK
    <3>5. CASE BuildStage \/ Promote
      BY <3>5 DEF BuildStage, Promote, TypeOK
    <3>6. CASE Quarantine
      BY <3>6, Quarantines DEF TypeOK
    <3> QED BY <1>6, <3>1, <3>2, <3>3, <3>4, <3>5, <3>6
            DEF Start, Open, OpenScopedHalf, OpenScopedMeta, OpenConnections,
       OpenProjectFile, OpenLegacyFile, OpenScopedFile, StageScopedFile, StageProjectFile
  <2> QED BY <2>1, <2>2, <2>3, <2>4, <2>5, <2>6 DEF TypeOK
<1>7. CASE Close \/ Retry
  BY <1>1, <1>7 DEF TypeOK, ToldTyped, Close, Retry, Goto, files, recovery, Places
<1>8. CASE Crash
  BY <1>1, <1>8 DEF TypeOK, ToldTyped, Crash, Goto, files, Places
<1>9. CASE Lose
  BY <1>1, <1>9 DEF TypeOK, ToldTyped, Lose, files, recovery
<1>10. CASE PriorBinaryRebuilds
  <2>1. db' = [EmptyDatabase EXCEPT !.legacy = RestoredLegacy(legacyFile)] /\ legacyFile # Null
    BY <1>10 DEF PriorBinaryRebuilds
  <2>2. db' \in Databases
    BY <1>2, <2>1, EmptyTyped, DatabaseParts, LegacyCopies
  <2> QED BY <1>1, <1>10, <2>2 DEF TypeOK, ToldTyped, PriorBinaryRebuilds, files, recovery
<1> QED BY <1>3, <1>4, <1>5, <1>6, <1>7, <1>8, <1>9, <1>10, Steps

-----------------------------------------------------------------------------
(* Where a process is.                                                     *)

\* What is Sound is a database.
LEMMA SoundIsDatabase ==
  ASSUME TypeOK
  PROVE  Sound <=> db \in Databases
BY DatabasesAreSound DEF TypeOK, Sound

\* A database that is opened has the parts it is given.
LEMMA OpenedParts ==
  ASSUME TypeOK, Sound
  PROVE  /\ Initialised(db).legacy = db.legacy /\ Initialised(db).meta = db.meta
         /\ Initialised(db).table = db.table /\ Initialised(db).conns = db.conns
         /\ Initialised(db).scoped =
              IF db.meta THEN db.scoped ELSE IF scopedFile # Null THEN scopedFile
              ELSE Projected(db.legacy, db.scoped)
         /\ \A m \in BOOLEAN :
              LET e == [db EXCEPT !.meta = m]
              IN  e.legacy = db.legacy /\ e.scoped = db.scoped /\ e.table = db.table
                  /\ e.conns = db.conns /\ e.meta = m
         /\ \A b \in BOOLEAN, c \in ConnectionStates :
              LET e == [db EXCEPT !.table = b, !.conns = c]
              IN  e.legacy = db.legacy /\ e.scoped = db.scoped /\ e.table = b
                  /\ e.conns = c /\ e.meta = db.meta
<1>1. db \in Databases
  BY SoundIsDatabase
<1>2. /\ Initialised(db).legacy = db.legacy /\ Initialised(db).meta = db.meta
      /\ Initialised(db).table = db.table /\ Initialised(db).conns = db.conns
      /\ Initialised(db).scoped =
           IF db.meta THEN db.scoped ELSE IF scopedFile # Null THEN scopedFile
           ELSE Projected(db.legacy, db.scoped)
  BY <1>1 DEF Initialised, Databases
<1>3. ASSUME NEW m \in BOOLEAN
      PROVE  LET e == [db EXCEPT !.meta = m]
             IN  e.legacy = db.legacy /\ e.scoped = db.scoped /\ e.table = db.table
                 /\ e.conns = db.conns /\ e.meta = m
  BY <1>1 DEF Databases
<1>4. ASSUME NEW b \in BOOLEAN, NEW c \in ConnectionStates
      PROVE  LET e == [db EXCEPT !.table = b, !.conns = c]
             IN  e.legacy = db.legacy /\ e.scoped = db.scoped /\ e.table = b
                 /\ e.conns = c /\ e.meta = db.meta
  BY <1>1 DEF Databases
<1> QED BY <1>2, <1>3, <1>4

\* So has one whose connections are taken from the file.
LEMMA InheritsConnections ==
  ASSUME TypeOK, Sound, db' = [db EXCEPT !.table = TRUE, !.conns = Inherited]
  PROVE  /\ db'.legacy = db.legacy /\ db'.scoped = db.scoped /\ db'.meta = db.meta
         /\ db'.table = TRUE /\ db'.conns = Inherited
<1>1. db \in Databases
  BY SoundIsDatabase
<1> QED BY <1>1 DEF Databases

\* Every step leaves the database and the marker as its next place has them.
LEMMA PlacedNext ==
  ASSUME TypeOK, TypeOK', Placed, Marked, Staged, Next
  PROVE  Placed'
<1>1. /\ Sound <=> db \in Databases
      /\ db' \in Databases => db' \notin {Missing, Corrupt}
  BY SoundIsDatabase, DatabasesAreSound
<1>2. CASE Mutated
  <2>1. db' \in Databases /\ db'.meta = db.meta /\ db'.table = db.table
    BY <1>2 DEF Mutated, Grows
  <2> QED BY <1>1, <1>2, <2>1
      DEF Mutated, Placed, Serving, Staging, Settling, Moving, Recovering, Sound,
      Unusable, Whole, Differs, files, recovery
<1>3. CASE Connects
  BY <1>1, <1>3, NullIsNoValue
     DEF Connects, Placed, Serving, Staging, Settling, Moving, Recovering, Sound,
      Unusable, Whole, files, recovery
<1>4. CASE WriteFails \/ SaveFiles
  BY <1>4 DEF WriteFails, SaveFiles, WriteLegacyFile, WriteScopedFile, WriteProjectFile, Goto,
      Placed, Serving, Staging, Settling, Moving, Recovering, Sound,
      Unusable, Whole, files, recovery
<1>5. CASE Start
  <2>1. CASE Open
    <3>1. CASE marker = Null /\ db = Missing
      BY <1>1, <2>1, <3>1, EmptyTyped, DatabasesAreSound
         DEF Open, StartAt, Goto, Placed, Serving, Staging, Settling, Moving, Recovering, Sound, Unusable,
             Whole, files, recovery, EmptyDatabase
    <3>2. CASE UNCHANGED db /\ ~(marker = Null /\ db = Missing)
      BY <2>1, <3>2, DatabasesAreSound
         DEF Open, StartAt, Goto, Placed, Serving, Staging, Settling, Moving, Recovering, Sound, Unusable,
             Whole, files, recovery
    <3> QED BY <2>1, <3>1, <3>2 DEF Open
  <2>2. CASE OpenScopedHalf \/ OpenScopedMeta
    <3>1. Sound /\ db' \in Databases
      BY <1>1, <2>2, MadeTyped, DatabaseParts
         DEF OpenScopedHalf, OpenScopedMeta, StartAt, Placed
    <3>2. OpenScopedMeta => db'.meta
      BY <2>2, <3>1, OpenedParts DEF OpenScopedMeta
    <3> QED BY <1>1, <2>2, <3>1, <3>2
        DEF OpenScopedHalf, OpenScopedMeta, StartAt, Goto, Placed, Serving, Staging,
            Settling, Moving, Recovering, Sound,
      Unusable, Whole, files, recovery
  <2>3. CASE OpenConnections
    <3>1. Sound /\ db.meta /\ db \in Databases /\ Inherited \in ConnectionStates
      BY <1>1, <2>3, MadeTyped DEF OpenConnections, StartAt, Placed
    <3>2. CASE db' = db
      BY <2>3, <3>1, <3>2, NullIsNoValue
         DEF OpenConnections, StartAt, Goto, Placed, Serving, Staging,
            Settling, Moving, Recovering, Sound,
      Unusable, Whole, Differs, files, recovery
    <3>3. CASE db' = [db EXCEPT !.table = TRUE, !.conns = Inherited] /\ ~ db.table
               /\ Refers(db.scoped, Inherited)
      <4>1. db' \in Databases /\ db'.meta /\ db'.table
        BY <3>1, <3>3, DatabaseParts, OpenedParts
      <4> QED BY <1>1, <2>3, <3>1, <3>3, <4>1
        DEF OpenConnections, StartAt, Goto, Placed, Serving, Staging,
            Settling, Moving, Recovering, Sound,
      Unusable, Whole, Differs, files, recovery
    <3> QED BY <2>3, <3>2, <3>3 DEF OpenConnections
  <2>4. CASE OpenProjectFile \/ OpenAdopts \/ OpenLegacyFile \/ OpenScopedFile
    BY <2>4 DEF OpenProjectFile, OpenAdopts, OpenLegacyFile, OpenScopedFile, StartAt, Goto,
      Placed, Serving, Staging, Settling, Moving, Recovering, Sound,
      Unusable, Whole, files, recovery
  <2>5. CASE RecoverAdopts \/ RecoverBinds \/ RecoverMarks
    <3>1. \A c \in ConnectionStates : BoundTo(c) # Null
      BY MadeTyped, NullIsNoValue
    <3>2. Unbound # Null
      BY MadeTyped, NullIsNoValue
    <3>3. RecoverBinds => binding' # Null
      BY <3>1, <3>2 DEF RecoverBinds, TypeOK
    <3>4. RecoverMarks => marker' # Null
      <4>1. PICK b \in BOOLEAN : b = (legacyFile # Null)
        OBVIOUS
      <4>2. [legacy |-> b] \in Markers
        BY DEF Markers
      <4> QED BY <4>1, <4>2, NullIsNoValue DEF RecoverMarks
    <3> QED BY <2>5, <3>3, <3>4
       DEF RecoverAdopts, RecoverBinds, RecoverMarks, StartAt, Goto,
      Placed, Serving, Staging, Settling, Moving, Recovering, Sound,
      Unusable, Whole, Differs, files, recovery
  <2>6. CASE Resume
    <3>1. binding' # Null \/ pc' = "refused"
      BY <2>6, MadeTyped, NullIsNoValue DEF Resume, StartAt, Goto
    <3> QED BY <2>6, <3>1
        DEF Resume, StartAt, Goto,
      Placed, Serving, Staging, Settling, Moving, Recovering, Sound,
      Unusable, Whole, files, recovery
  <2>7. CASE Inspect
    <3>1. marker # Null /\ binding # Null
      BY <2>7 DEF Inspect, StartAt, Placed, Recovering
    <3>2. CASE Unusable
      BY <2>7, <3>1, <3>2
        DEF Inspect, StartAt, Goto, Unusable, Differs,
      Placed, Serving, Staging, Settling, Moving, Recovering, Sound,
      Unusable, Whole, files, recovery
    <3>3. CASE ~ Unusable
      <4>1. Sound /\ ~ Differs(db) /\ Whole(db) /\ quarantined
        BY <3>1, <3>3 DEF Unusable, Marked
      <4> QED BY <2>7, <3>1, <3>3, <4>1
        DEF Inspect, StartAt, Goto,
      Placed, Serving, Staging, Settling, Moving, Recovering, Sound,
      Unusable, Whole, files, recovery
    <3> QED BY <3>2, <3>3
  <2>8. CASE BuildStage \/ StageScopedFile \/ StageProjectFile
    BY <2>8 DEF BuildStage, StageScopedFile, StageProjectFile, StartAt, Goto,
      Placed, Serving, Staging, Settling, Moving, Recovering, Sound,
      Unusable, Whole, files, recovery
  <2>9. CASE Promote
    <3>1. stage \in Databases /\ Whole(stage)
      BY <2>9 DEF Promote, StartAt, Staged, Staging, TypeOK
    <3> QED BY <1>1, <2>9, <3>1
        DEF Promote, StartAt, Goto,
      Placed, Serving, Staging, Settling, Moving, Recovering, Sound,
      Unusable, Whole, files
  <2>10. CASE Verify \/ RemoveBinding \/ RemoveMarker
    BY <2>10 DEF Verify, RemoveBinding, RemoveMarker, StartAt, Goto,
      Placed, Serving, Staging, Settling, Moving, Recovering, Sound,
      Unusable, Whole, files, recovery
  <2>11. CASE Quarantine
    <3>1. pc \in Moving /\ marker' # Null /\ binding' # Null /\ UNCHANGED <<pending, legacyFile>>
      BY <2>11, Quarantines DEF Placed, Recovering, files
    <3>2. pc' # "refused" => db' = Missing /\ quarantined'
      BY <2>11, Quarantines DEF Placed, Moving, TypeOK
    <3>3. pc' \in {"move_log", "move_index", "stage", "refused"} /\ pending = Null
      BY <2>11, Quarantines DEF Placed, Moving
    <3> QED BY <3>1, <3>2, <3>3
        DEF Placed, Serving, Staging, Settling, Moving, Recovering, Sound
  <2> QED BY <1>5, <2>1, <2>2, <2>3, <2>4, <2>5, <2>6, <2>7, <2>8, <2>9, <2>10, <2>11 DEF Start
<1>6. CASE Close \/ Retry \/ Crash
  BY <1>6 DEF Close, Retry, Crash, Goto,
      Placed, Serving, Staging, Settling, Moving, Recovering, Sound,
      Unusable, Whole, files, recovery
<1>7. CASE Lose
  BY <1>7, DatabasesAreSound DEF Lose,
      Placed, Serving, Staging, Settling, Moving, Recovering, Sound,
      Unusable, Whole, files, recovery
<1>8. CASE PriorBinaryRebuilds
  <2>1. db' # Missing
    BY <1>8, DatabasesAreSound, EmptyTyped, DatabaseParts, LegacyCopies
       DEF PriorBinaryRebuilds, TypeOK
  <2> QED BY <1>8, <2>1 DEF PriorBinaryRebuilds,
      Placed, Serving, Staging, Settling, Moving, Recovering, Sound,
      Unusable, Whole, files, recovery
<1> QED BY <1>2, <1>3, <1>4, <1>5, <1>6, <1>7, <1>8, Steps

-----------------------------------------------------------------------------
(* What a recovery finds.                                                  *)

\* Wherever a step ends, a recovery finds its own marker.
LEMMA MarkedNext ==
  ASSUME TypeOK, TypeOK', Placed, Placed', Marked, Staged, Durable, Next
  PROVE  Marked'
<1>1. /\ Sound <=> db \in Databases
      /\ db' \in Databases => db' \notin {Missing, Corrupt}
      /\ Missing # Corrupt
      /\ \A d \in Databases : d.conns \in ConnectionStates
      /\ Null \notin ConnectionStates
  BY SoundIsDatabase, DatabasesAreSound, DatabaseParts, NullIsNoValue
<1>2. CASE Mutated \/ Connects \/ WriteFails \/ SaveFiles
  <2>1. marker = Null /\ marker' = Null /\ pc' # "mark" /\ adopted' = adopted
    BY <1>2 DEF Mutated, Connects, WriteFails, SaveFiles, WriteLegacyFile, WriteScopedFile,
       WriteProjectFile, Goto, recovery, Placed, Recovering, Staging, Settling, Moving
  <2>2. projectFile' # Null \/ projectFile' = projectFile
    BY <1>1, <1>2 DEF Mutated, Connects, WriteFails, SaveFiles, WriteLegacyFile, WriteScopedFile,
       WriteProjectFile, files, Placed, Serving, Sound
  <2> QED BY <2>1, <2>2 DEF Marked
<1>3. CASE Start
  <2>1. CASE Open \/ OpenScopedHalf \/ OpenScopedMeta \/ OpenConnections
    <3>1. /\ UNCHANGED <<files, adopted, recovery>> /\ pc' # "mark"
          /\ marker = Null \/ UNCHANGED db
      BY <2>1 DEF Open, OpenScopedHalf, OpenScopedMeta, OpenConnections, StartAt, Goto,
         Placed, Recovering, Staging, Settling, Moving
    <3> QED BY <3>1 DEF Marked, BoundFile, Complete, KnownLegacy, Sound, Differs, Whole,
                        files, recovery
  <2>2. CASE OpenProjectFile \/ OpenAdopts \/ OpenLegacyFile \/ OpenScopedFile
    <3>1. marker = Null /\ marker' = Null /\ pc' # "mark" /\ Sound /\ adopted \in BOOLEAN
      BY <2>2 DEF OpenProjectFile, OpenAdopts, OpenLegacyFile, OpenScopedFile, StartAt, Goto,
         recovery, Placed, Serving, Recovering, Staging, Settling, Moving, TypeOK
    <3>2. db.conns # Null
      BY <1>1, <3>1
    <3>3. adopted' => projectFile' # Null
      BY <2>2, <3>1, <3>2 DEF OpenProjectFile, OpenAdopts, OpenLegacyFile, OpenScopedFile, StartAt,
         files, Marked, Durable
    <3> QED BY <3>1, <3>3 DEF Marked
  <2>3. CASE RecoverAdopts \/ RecoverBinds
    <3>6. marker = Null /\ marker' = Null
      BY <2>3 DEF RecoverAdopts, RecoverBinds, StartAt, recovery,
         Placed, Recovering, Staging, Settling, Moving
    <3>7. adopted \in BOOLEAN /\ (adopted => projectFile # Null) /\ projectFile' = projectFile
      BY <2>3 DEF RecoverAdopts, RecoverBinds, files, TypeOK, Marked
    <3>1. /\ marker = Null /\ marker' = Null
          /\ adopted' => projectFile' # Null
      BY <2>3, <3>6, <3>7 DEF RecoverAdopts, RecoverBinds
    <3>2. \A c \in ConnectionStates : BoundTo(c).bound = TRUE /\ BoundTo(c).conns = c
      BY DEF BoundTo
    <3>3. Unbound.bound = FALSE
      BY DEF Unbound
    <3>4. pc' = "mark" => RecoverBinds
      BY <2>3 DEF RecoverAdopts, StartAt, Goto
    <3>5. RecoverBinds => projectFile' = BoundFile'
      BY <3>2, <3>3 DEF RecoverBinds, BoundFile, files, TypeOK
    <3> QED BY <3>1, <3>4, <3>5 DEF Marked
  <2>4. CASE RecoverMarks
    <3>1. PICK b \in BOOLEAN : b = (legacyFile # Null)
      OBVIOUS
    <3>2. marker' = [legacy |-> b] /\ pc = "mark"
      BY <2>4, <3>1 DEF RecoverMarks, StartAt
    <3>3. marker'.legacy = (legacyFile' # Null)
      BY <2>4, <3>1, <3>2 DEF RecoverMarks, files
    <3>4. /\ db' # Missing /\ (Sound' => Differs(db)') /\ (Sound' => Whole(db)')
          /\ quarantined' = FALSE /\ binding' # Null /\ projectFile' = BoundFile'
          /\ adopted' => projectFile' # Null
      BY <2>4, <3>2 DEF RecoverMarks, Placed, Marked, BoundFile, Differs, Whole, Sound, files
    <3> QED BY <3>3, <3>4 DEF Marked
  <2>5. CASE Resume
    <3>1. /\ UNCHANGED <<db, files, adopted, marker, quarantined>>
          /\ pc' # "mark" /\ pc = "resume" /\ marker # Null
      BY <2>5 DEF Resume, StartAt, Goto, Placed, Recovering
    <3>2. CASE binding' = binding
      BY <3>1, <3>2 DEF Marked, BoundFile, Complete, KnownLegacy, Sound, Differs, Whole, files
    <3>3. CASE binding = Null /\ SameFiles /\ binding' = Unbound
      <4>1. binding' # Null /\ binding'.bound = FALSE
        BY <3>3, MadeTyped, NullIsNoValue DEF Unbound
      <4>2. projectFile' = BoundFile'
        BY <3>1, <3>3, <4>1 DEF SameFiles, BoundFile, files
      <4> QED BY <3>1, <4>1, <4>2
          DEF Marked, Complete, KnownLegacy, Sound, Differs, Whole, files
    <3> QED BY <2>5, <3>2, <3>3 DEF Resume
  <2>6. CASE Inspect
    <3>1. /\ UNCHANGED <<files, marker, binding>> /\ pc' # "mark" /\ pc = "inspect"
          /\ marker # Null /\ binding # Null
      BY <2>6 DEF Inspect, StartAt, Goto, Placed, Recovering, recovery
    <3>2. marker'.legacy = (legacyFile' # Null) /\ projectFile' = BoundFile'
      BY <3>1 DEF Marked, BoundFile, files
    <3>3. CASE Unusable
      <4>1. UNCHANGED <<db, adopted, quarantined>>
        BY <2>6, <3>3 DEF Inspect, recovery, TypeOK
      <4> QED BY <3>1, <3>2, <4>1
         DEF Marked, Sound, Whole, Differs, Complete, KnownLegacy, files
    <3>4. CASE ~ Unusable
      <4>1. Sound /\ quarantined /\ db.conns = projectFile /\ UNCHANGED <<db, quarantined>>
        BY <2>6, <3>1, <3>4 DEF Unusable, Marked, Inspect, recovery
      <4>2. projectFile' # Null
        BY <1>1, <3>1, <4>1 DEF files
      <4> QED BY <3>1, <3>2, <4>1, <4>2
          DEF Marked, Sound, Whole, Differs, Complete, KnownLegacy, files
    <3> QED BY <3>3, <3>4
  <2>7. CASE BuildStage
    BY <2>7 DEF BuildStage, StartAt, Goto, Marked, BoundFile, Complete, KnownLegacy, Sound,
       Differs, Whole, files
  <2>8. CASE StageScopedFile \/ StageProjectFile
    <3>1. /\ db = Missing /\ quarantined /\ marker # Null /\ binding # Null
          /\ stage.conns = Inherited
          /\ UNCHANGED <<db, legacyFile, adopted, recovery>> /\ pc' # "mark"
      BY <2>8 DEF StageScopedFile, StageProjectFile, StartAt, Goto, Placed, Recovering, Moving,
         Staging, Staged
    <3>2. projectFile = BoundFile
      BY <3>1 DEF Marked
    <3>4. projectFile' = projectFile \/ projectFile' = Inherited
      BY <2>8, <3>1 DEF StageScopedFile, StageProjectFile
    <3>5. binding' = binding /\ adopted' = adopted /\ (adopted => projectFile # Null)
      BY <3>1 DEF recovery, Marked
    <3>6. ASSUME projectFile' = projectFile PROVE projectFile' = BoundFile'
      BY <3>2, <3>5, <3>6 DEF BoundFile
    <3>7. ASSUME projectFile' = Inherited PROVE projectFile' = BoundFile'
      <4>1. projectFile' # Null
        BY <1>1, <3>7, MadeTyped
      <4>2. CASE projectFile = Null
        <5>1. projectFile' = NoConnections
          BY <3>7, <4>2 DEF Inherited
        <5>2. ~ binding.bound \/ binding.conns = Null
          BY <3>2, <4>2 DEF BoundFile
        <5>3. binding \in Bindings
          BY <3>1 DEF TypeOK
        <5>4. ~ binding.bound
          BY <1>1, <5>2, <5>3 DEF Bindings
        <5> QED BY <3>5, <4>1, <5>1, <5>4 DEF BoundFile
      <4>3. CASE projectFile # Null
        BY <3>2, <3>5, <3>7, <4>3 DEF BoundFile, Inherited
      <4> QED BY <4>2, <4>3
    <3>3. projectFile' = BoundFile' /\ (adopted' => projectFile' # Null)
      <4>2. projectFile' = BoundFile'
        BY <3>4, <3>6, <3>7
      <4>3. adopted' => projectFile' # Null
        BY <1>1, <3>4, <3>5, MadeTyped
      <4> QED BY <4>2, <4>3
    <3> QED BY <3>1, <3>3 DEF Marked, Sound, recovery
  <2>9. CASE Promote
    <3>1. /\ Whole(stage) /\ LegacySnapshot(stage.legacy) = KnownLegacy
          /\ scopedFile = stage.scoped /\ projectFile = stage.conns
          /\ quarantined /\ binding # Null /\ marker # Null /\ stage \in Databases
          /\ db' = stage /\ UNCHANGED <<files, adopted, marker, binding, quarantined>>
          /\ pc' # "mark"
      BY <2>9 DEF Promote, StartAt, Goto, Placed, Recovering, Staging, Staged, TypeOK
    <3>2. db' # Missing /\ Complete(db)' /\ Whole(db)' /\ projectFile' = BoundFile'
      BY <1>1, <3>1 DEF Complete, KnownLegacy, Whole, files, Marked, BoundFile
    <3> QED BY <3>1, <3>2 DEF Marked, files
  <2>10. CASE Verify \/ RemoveBinding
    <3>1. /\ Sound /\ Whole(db) /\ marker # Null /\ quarantined
          /\ UNCHANGED <<db, files, marker, quarantined>> /\ pc' # "mark"
          /\ db # Missing /\ db.conns = projectFile
      BY <2>10 DEF Verify, RemoveBinding, StartAt, Goto, Placed, Recovering, Moving, Settling,
         Serving, recovery, Marked, Sound
    <3>2. projectFile' # Null
      BY <1>1, <3>1 DEF files
    <3>3. binding' = binding \/ binding' = Null
      BY <2>10 DEF Verify, RemoveBinding, recovery
    <3> QED BY <3>1, <3>2, <3>3
        DEF Marked, BoundFile, Complete, KnownLegacy, Sound, Differs, Whole, files
  <2>11. CASE RemoveMarker
    BY <2>11 DEF RemoveMarker, StartAt, Goto, Marked, files
  <2>12. CASE Quarantine
    <3>1. /\ UNCHANGED <<files, adopted, marker, binding>> /\ pc' # "mark"
          /\ marker # Null /\ binding # Null
      BY <2>12, Quarantines DEF Placed, Moving, Recovering
    <3>2. quarantined' /\ ((db' = db /\ quarantined) \/ db' = Missing)
      BY <2>12, Quarantines DEF Placed, Moving, TypeOK
    <3>3. CASE db' = db /\ quarantined
      BY <3>1, <3>2, <3>3
         DEF Marked, BoundFile, Sound, Whole, Differs, Complete, KnownLegacy, files
    <3>4. CASE db' = Missing
      BY <3>1, <3>2, <3>4 DEF Marked, BoundFile, Sound, files
    <3> QED BY <3>2, <3>3, <3>4
  <2> QED BY <1>3, <2>1, <2>2, <2>3, <2>4, <2>5, <2>6, <2>7, <2>8, <2>9, <2>10, <2>11, <2>12
      DEF Start
<1>4. CASE Close \/ Retry \/ Crash
  BY <1>4 DEF Close, Retry, Crash, Goto, Marked, BoundFile, Complete, KnownLegacy, Sound,
       Differs, Whole, files, recovery
<1>5. CASE Lose
  BY <1>1, <1>5 DEF Lose, Marked, BoundFile, Sound, files, recovery
<1>6. CASE PriorBinaryRebuilds
  BY <1>6 DEF PriorBinaryRebuilds, Marked, files, recovery
<1> QED BY <1>2, <1>3, <1>4, <1>5, <1>6, Steps

\* No step leaves a database beside what another one left.
LEMMA BesideNext ==
  ASSUME TypeOK, Placed, Placed', Marked, Beside, Next
  PROVE  Beside'
<1>1. CASE Mutated \/ Connects \/ WriteFails \/ SaveFiles
  <2>1. sides' = sides /\ pc' \in {"idle", "legacy", "scoped", "project"} /\ Sound
    BY <1>1 DEF Mutated, Connects, WriteFails, SaveFiles, WriteLegacyFile, WriteScopedFile,
       WriteProjectFile, Goto, recovery, Placed, Serving
  <2> QED BY <2>1 DEF Beside, NoForeignLog, Staging
<1>2. CASE Start
  <2>1. CASE Open
    <3>1. /\ UNCHANGED <<sides, marker>> /\ pc' \notin {"move_index", "stage"} \cup Staging
          /\ db' = db \/ sides = {}
      BY <2>1 DEF Open, StartAt, Goto, recovery, Staging, Beside
    <3> QED BY <3>1 DEF Beside, NoForeignLog, Sound
  <2>2. CASE \/ OpenScopedHalf \/ OpenScopedMeta \/ OpenConnections \/ OpenProjectFile
             \/ OpenAdopts \/ OpenLegacyFile \/ OpenScopedFile
             \/ Verify \/ RemoveBinding \/ RemoveMarker
    <3>1. Sound /\ UNCHANGED sides /\ pc' \notin {"move_index", "stage"} \cup Staging
      BY <2>2 DEF OpenScopedHalf, OpenScopedMeta, OpenConnections, OpenProjectFile,
         OpenAdopts, OpenLegacyFile, OpenScopedFile, Verify, RemoveBinding, RemoveMarker,
         StartAt, Goto, recovery, Staging, Placed, Serving
    <3> QED BY <3>1 DEF Beside, NoForeignLog
  <2>3. CASE RecoverAdopts \/ RecoverBinds \/ RecoverMarks \/ Resume \/ Inspect
    <3>1. UNCHANGED <<db, sides>> /\ pc' \notin {"move_index", "stage"} \cup Staging
      BY <2>3 DEF RecoverAdopts, RecoverBinds, RecoverMarks, Resume, Inspect, StartAt, Goto,
         recovery, Staging
    <3>2. marker' = Null => marker = Null \/ db # Missing
      BY <2>3 DEF RecoverAdopts, RecoverBinds, RecoverMarks, Resume, Inspect, StartAt,
         recovery, Placed
    <3> QED BY <3>1, <3>2 DEF Beside, NoForeignLog, Sound
  <2>4. CASE Quarantine
    <3>1. marker # Null /\ marker' = marker /\ sides' \subseteq sides
          /\ (Sound' => Sound) /\ pc' \notin Staging
      BY <2>4, Quarantines DEF Placed, Recovering, Sound, Staging
    <3>2. pc' = "stage" => sides' = {}
      BY <2>4, Quarantines DEF Beside, TypeOK, Sides
    <3>3. pc' = "move_index" => "log" \notin sides'
      BY <2>4, Quarantines
    <3> QED BY <3>1, <3>2, <3>3 DEF Beside, NoForeignLog
  <2>5. CASE BuildStage \/ StageScopedFile \/ StageProjectFile \/ Promote
    <3>1. sides = {} /\ UNCHANGED sides
      BY <2>5 DEF BuildStage, StageScopedFile, StageProjectFile, Promote, StartAt, recovery,
         Beside, Staging
    <3> QED BY <3>1 DEF Beside, NoForeignLog
  <2> QED BY <1>2, <2>1, <2>2, <2>3, <2>4, <2>5 DEF Start
<1>3. CASE Close \/ Retry \/ Crash
  <2>1. UNCHANGED <<db, sides, marker>> /\ pc' = "closed"
    BY <1>3 DEF Close, Retry, Crash, Goto, recovery
  <2> QED BY <2>1 DEF Beside, NoForeignLog, Sound, Staging
<1>4. CASE Lose
  BY <1>4, DatabasesAreSound DEF Lose, Beside, NoForeignLog, Sound, Staging
<1>5. CASE PriorBinaryRebuilds
  BY <1>5 DEF PriorBinaryRebuilds, Beside, NoForeignLog, Staging
<1> QED BY <1>1, <1>2, <1>3, <1>4, <1>5, Steps

-----------------------------------------------------------------------------
(* The stage, and what a handle resolves to.                               *)

\* Steps after which no stage is being taken over.
LEMMA StagingSteps ==
  ASSUME TypeOK, Placed, Next, pc' \in Staging
  PROVE  BuildStage \/ StageScopedFile \/ StageProjectFile
<1>1. CASE Start
  BY <1>1, Quarantines DEF Start, Open, OpenScopedHalf, OpenScopedMeta, OpenConnections,
       OpenProjectFile, OpenAdopts, OpenLegacyFile, OpenScopedFile, RecoverAdopts,
       RecoverBinds, RecoverMarks, Resume, Inspect,
       Promote, Verify, RemoveBinding, RemoveMarker, StartAt, Goto, Staging
<1>2. CASE ~ Start
  BY <1>2, Steps DEF Mutated, Connects, WriteFails, SaveFiles, WriteLegacyFile, WriteScopedFile,
       WriteProjectFile, Close, Retry, Crash, Lose, PriorBinaryRebuilds, Goto, Staging
<1> QED BY <1>1, <1>2

\* What a recovery makes of the files says of each what it is made of.
LEMMA RestoresFiles ==
  ASSUME TypeOK
  PROVE  /\ LegacySnapshot(Restored.legacy) = KnownLegacy
         /\ scopedFile # Null => Restored.scoped = scopedFile
         /\ scopedFile = Null =>
              LET rooted == Projected(EmptyDatabase.legacy, EmptyScoped)
              IN  Restored.scoped = Projected(Restored.legacy, rooted)
BY MadeTyped, LegacyCopies DEF Restored

\* The stage stays what the files say.
LEMMA StagedNext ==
  ASSUME TypeOK, TypeOK', Placed, Placed', Staged, Next
  PROVE  Staged'
<1> SUFFICES ASSUME pc' \in Staging PROVE Staged'
  BY DEF Staged
<1>1. CASE BuildStage
  <2>1. /\ stage' = Restored /\ UNCHANGED files /\ pc' = "stage_scoped"
    BY <1>1 DEF BuildStage, StartAt, Goto, Staging
  <2> QED BY <2>1, MadeTyped, RestoresFiles DEF Staged, KnownLegacy, Inherited, files
<1>2. CASE StageScopedFile
  <2>1. /\ pc = "stage_scoped" /\ pc' = "stage_project" /\ stage' = stage
        /\ scopedFile' = stage.scoped /\ UNCHANGED <<legacyFile, projectFile>>
    BY <1>2 DEF StageScopedFile, StartAt, Goto, recovery
  <2> QED BY <2>1 DEF Staged, Staging, KnownLegacy, Inherited
<1>3. CASE StageProjectFile
  <2>1. /\ pc = "stage_project" /\ pc' = "promote" /\ stage' = stage
        /\ projectFile' = stage.conns /\ UNCHANGED <<legacyFile, scopedFile>>
    BY <1>3 DEF StageProjectFile, StartAt, Goto, recovery
  <2>2. stage \in Databases /\ stage.conns # Null
    BY <2>1, DatabaseParts, NullIsNoValue DEF Staged, Staging
  <2>3. Inherited' = stage.conns
    BY <2>1, <2>2 DEF Inherited
  <2> QED BY <2>1, <2>2, <2>3 DEF Staged, Staging, KnownLegacy
<1> QED BY <1>1, <1>2, <1>3, StagingSteps

\* A handle resolves to what its file says again when its file is written.
LEMMA DurableNext ==
  ASSUME TypeOK, Placed, Marked, Staged, Durable, Next
  PROVE  Durable'
<1>1. CASE Mutated
  BY <1>1 DEF Mutated, Grows, Durable, Settling, files
<1>2. CASE Connects
  BY <1>2 DEF Connects, Durable, Settling, files
<1>3. CASE WriteFails \/ SaveFiles
  BY <1>3 DEF WriteFails, SaveFiles, WriteLegacyFile, WriteScopedFile, WriteProjectFile,
     Goto, Placed, Durable, Settling, files
<1>4. CASE Start
  <2>1. pending = Null /\ pending' = Null
    BY <1>4, Quarantines DEF Placed, Moving, Start, Open, OpenScopedHalf, OpenScopedMeta, OpenConnections,
       OpenProjectFile, OpenAdopts, OpenLegacyFile, OpenScopedFile, RecoverAdopts,
       RecoverBinds, RecoverMarks, Resume, Inspect, BuildStage, StageScopedFile,
       StageProjectFile, Promote, Verify, RemoveBinding, RemoveMarker, StartAt
  <2>2. CASE OpenConnections
    <3>1. Sound /\ projectFile' = projectFile /\ Inherited \in ConnectionStates
      BY <2>2, MadeTyped DEF OpenConnections, StartAt, Placed, files
    <3>2. CASE pc' \in {"adopt", "open_legacy"}
      <4>1. projectFile # Null /\ Inherited = projectFile
        BY <2>2, <3>2 DEF OpenConnections, StartAt, Goto, Inherited
      <4>2. ~ Differs(db) /\ (db.table \/ Refers(db.scoped, Inherited))
        BY <2>2, <3>2 DEF OpenConnections, StartAt, Goto
      <4>3. CASE db.table
        <5>1. db' = db /\ db.conns = projectFile
          BY <2>2, <4>2, <4>3 DEF OpenConnections, Differs
        <5> QED BY <3>1, <3>2, <5>1 DEF Durable, Settling
      <4>4. CASE ~ db.table
        <5>1. db' = [db EXCEPT !.table = TRUE, !.conns = Inherited]
          BY <2>2, <4>2, <4>4 DEF OpenConnections
        <5>2. db'.conns = Inherited
          BY <3>1, <5>1, OpenedParts
        <5> QED BY <3>1, <3>2, <4>1, <5>2 DEF Durable, Settling
      <4> QED BY <4>3, <4>4
    <3>3. CASE pc' \notin {"adopt", "open_legacy"}
      BY <2>2, <3>3 DEF OpenConnections, StartAt, Goto, Durable, Settling
    <3> QED BY <3>2, <3>3
  <2>3. CASE Inspect
    <3>1. marker # Null
      BY <2>3 DEF Inspect, StartAt, Placed, Recovering
    <3>2. CASE Unusable
      BY <2>3, <3>2 DEF Inspect, StartAt, Goto, Durable, Settling
    <3>3. CASE ~ Unusable
      <4>1. db.conns = projectFile /\ UNCHANGED <<db, projectFile>>
        BY <2>3, <3>1, <3>3 DEF Inspect, Unusable, Marked, files
      <4> QED BY <2>1, <4>1 DEF Durable
    <3> QED BY <3>2, <3>3
  <2>4. CASE Promote
    BY <2>4 DEF Promote, StartAt, Goto, Staged, Staging, Durable, files
  <2>5. CASE Open \/ OpenScopedHalf \/ OpenScopedMeta
    BY <2>5 DEF Open, OpenScopedHalf, OpenScopedMeta, StartAt, Goto, Durable, Settling
  <2>6. CASE OpenProjectFile
    BY <2>6 DEF OpenProjectFile, StartAt, Goto, Durable, Settling
  <2>7. CASE OpenAdopts \/ OpenLegacyFile \/ OpenScopedFile
    BY <2>7 DEF OpenAdopts, OpenLegacyFile, OpenScopedFile, StartAt, Goto, Durable, Settling, files
  <2>8. CASE \/ RecoverAdopts \/ RecoverBinds \/ RecoverMarks \/ Resume
             \/ BuildStage \/ StageScopedFile \/ StageProjectFile
    BY <2>8 DEF RecoverAdopts, RecoverBinds, RecoverMarks, Resume,
       BuildStage, StageScopedFile, StageProjectFile, StartAt, Goto, Durable, Settling
  <2>9. CASE Verify \/ RemoveBinding \/ RemoveMarker
    BY <2>9 DEF Verify, RemoveBinding, RemoveMarker, StartAt, Goto, Durable, Settling, files
  <2>10. CASE Quarantine
    BY <2>10, Quarantines DEF Durable, Settling
  <2> QED BY <1>4, <2>2, <2>3, <2>4, <2>5, <2>6, <2>7, <2>8, <2>9, <2>10 DEF Start
<1>5. CASE Close \/ Retry \/ Crash \/ Lose \/ PriorBinaryRebuilds
  BY <1>5 DEF Close, Retry, Crash, Lose, PriorBinaryRebuilds, Goto, Durable, Settling
<1> QED BY <1>1, <1>2, <1>3, <1>4, <1>5, Steps

-----------------------------------------------------------------------------
(* What every copy is worth.                                               *)

\* A step that is neither in the list below nor a change of the two halves
\* leaves every copy but the connections alone.
LEMMA Copies ==
  ASSUME TypeOK, Placed, Staged, Next
  PROVE  \/ Mutated \/ Connects
         \/ SaveFiles
         \/ Open \/ OpenScopedHalf \/ OpenScopedMeta \/ OpenConnections
         \/ OpenProjectFile \/ OpenLegacyFile \/ OpenScopedFile
         \/ Quarantine \/ BuildStage \/ StageScopedFile \/ StageProjectFile \/ Promote
         \/ Lose \/ PriorBinaryRebuilds
         \/ /\ UNCHANGED <<db, files, told>>
            /\ pc' \in Places \ (Staging \cup {"scoped", "legacy", "project", "open_scoped",
                                               "scoped_half", "scoped_meta"})
            /\ pc' = "idle" => pc \in {"legacy", "scoped", "project"}
<1>1. CASE \/ OpenAdopts \/ RecoverAdopts \/ RecoverBinds \/ RecoverMarks \/ Resume
           \/ Inspect \/ Verify \/ RemoveBinding \/ RemoveMarker
  BY <1>1 DEF OpenAdopts, RecoverAdopts, RecoverBinds, RecoverMarks, Resume, Inspect,
     Verify, RemoveBinding, RemoveMarker, StartAt, Goto, Places, Staging
<1>2. CASE WriteFails \/ Close \/ Retry \/ Crash
  BY <1>2 DEF WriteFails, Close, Retry, Crash, Goto, Places, Staging
<1> QED BY <1>1, <1>2, Steps DEF Start

\* An empty half has a search for every judgment, and balances.
LEMMA EmptyCopies ==
  /\ ValidScoped(EmptyScoped) /\ EmptyDatabase.scoped = EmptyScoped
  /\ Balanced(EmptyScoped.feedback, Keys)
  /\ Balanced(EmptyDatabase.legacy.judgments, LegacyKeys)
  /\ ~ EmptyDatabase.meta /\ ~ EmptyDatabase.table
  /\ EmptyDatabase.legacy.judgments = NoJudgments
BY DEF ValidScoped, EmptyScoped, EmptyDatabase, NoJudgments, Balanced

\* A judgment without its search reaches no file.
LEMMA SearchedNext ==
  ASSUME TypeOK, TypeOK', Placed, Placed', Staged, Searched, Next
  PROVE  Searched'
<1>1. /\ Sound <=> db \in Databases
      /\ db' \in Databases => db' \notin {Missing, Corrupt}
  BY SoundIsDatabase, DatabasesAreSound
<1>2. CASE Mutated
  <2>1. /\ Sound /\ ValidScoped(db.scoped) /\ db'.scoped.root = db.scoped.root
        /\ UNCHANGED <<scopedFile, stage>> /\ pc' \notin Staging
    BY <1>2 DEF Mutated, Grows, GrowsScoped, Searched, Placed, Serving, Staging, files, recovery
  <2> QED BY <2>1 DEF Searched, ValidScoped
<1>3. CASE Connects
  <2>1. /\ Sound /\ ValidScoped(db.scoped) /\ db'.scoped = db.scoped
        /\ UNCHANGED <<scopedFile, stage>> /\ pc' \notin Staging
    BY <1>3 DEF Connects, Searched, Placed, Serving, Staging, files, recovery
  <2> QED BY <2>1 DEF Searched, ValidScoped
<1>4. CASE SaveFiles
  <2>1. /\ Sound /\ ValidScoped(db.scoped) /\ db' = db
        /\ scopedFile' \in {scopedFile, db.scoped} /\ pc' \notin Staging
    BY <1>4 DEF SaveFiles, WriteLegacyFile, WriteScopedFile, WriteProjectFile, Goto,
       Searched, Placed, Serving, Staging
  <2> QED BY <2>1 DEF Searched, Sound
<1>5. CASE Open
  <2>1. /\ UNCHANGED scopedFile /\ db' \in {db, EmptyDatabase}
        /\ pc' \notin Staging \cup {"idle", "legacy", "scoped", "project", "open_scoped"}
    BY <1>5 DEF Open, StartAt, Goto, Staging, files
  <2>2. ValidScoped(EmptyDatabase.scoped)
    BY EmptyCopies
  <2>3. CASE db' = db
    BY <2>1, <2>3 DEF Searched, Sound, Widowed
  <2>4. CASE db' = EmptyDatabase
    BY <2>1, <2>2, <2>4 DEF Searched
  <2> QED BY <2>1, <2>3, <2>4
<1>6. CASE OpenScopedHalf
  <2>1. /\ UNCHANGED scopedFile /\ Sound /\ db \in Databases
        /\ db' = db \/ db' = Initialised(db)
        /\ pc' \notin Staging \cup {"idle", "legacy", "scoped", "project", "open_scoped"}
    BY <1>1, <1>6 DEF OpenScopedHalf, StartAt, Goto, Staging, files, Placed
  <2>2. CASE db' = db
    BY <2>1, <2>2 DEF Searched, Sound, Widowed
  <2>3. CASE db' = Initialised(db)
    <3>1. /\ db'.legacy = db.legacy
          /\ db'.scoped = IF db.meta THEN db.scoped ELSE IF scopedFile # Null THEN scopedFile
                          ELSE Projected(db.legacy, db.scoped)
      BY <2>1, <2>3, OpenedParts
    <3>2. db.legacy \in LegacyStates /\ db.scoped \in ScopedStates
      BY <2>1, DatabaseParts
    <3>3. CASE db'.scoped = db.scoped
      BY <2>1, <3>1, <3>3 DEF Searched, Widowed
    <3>4. CASE scopedFile # Null /\ db'.scoped = scopedFile
      BY <2>1, <3>4 DEF Searched
    <3>5. CASE scopedFile = Null /\ db'.scoped = Projected(db.legacy, db.scoped)
      <4>1. ASSUME ~ ValidScoped(db'.scoped) PROVE Widowed(db)'
        <5>1. CASE ValidScoped(db.scoped)
          BY <2>1, <3>1, <3>2, <3>5, <4>1, <5>1, Projects DEF Widowed
        <5>2. CASE ~ ValidScoped(db.scoped)
          BY <2>1, <3>1, <5>2 DEF Searched, Widowed
        <5> QED BY <5>1, <5>2
      <4> QED BY <2>1, <3>5, <4>1 DEF Searched
    <3> QED BY <3>1, <3>3, <3>4, <3>5
  <2> QED BY <2>1, <2>2, <2>3
<1>7. CASE OpenScopedMeta \/ OpenConnections
  <2>1. /\ UNCHANGED scopedFile /\ Sound
        /\ pc' \notin Staging \cup {"idle", "legacy", "scoped", "project", "open_scoped"}
    BY <1>7 DEF OpenScopedMeta, OpenConnections, StartAt, Goto, Staging, files, Placed
  <2>2. db'.legacy = db.legacy /\ db'.scoped = db.scoped
    <3>1. CASE OpenScopedMeta
      BY <2>1, <3>1, OpenedParts DEF OpenScopedMeta
    <3>2. CASE OpenConnections
      <4>1. db' = db \/ db' = [db EXCEPT !.table = TRUE, !.conns = Inherited]
        BY <3>2 DEF OpenConnections
      <4> QED BY <2>1, <4>1, InheritsConnections
    <3> QED BY <1>7, <3>1, <3>2
  <2> QED BY <2>1, <2>2 DEF Searched, Widowed
<1>8. CASE OpenProjectFile \/ OpenLegacyFile \/ OpenScopedFile
  <2>1. /\ Sound /\ UNCHANGED db /\ scopedFile' \in {scopedFile, db.scoped}
        /\ pc' \notin Staging \cup {"legacy", "scoped", "project"}
        /\ OpenScopedFile => ValidScoped(db.scoped)
        /\ pc' \in {"idle", "open_scoped"} => ValidScoped(db.scoped)
        /\ OpenProjectFile \/ OpenLegacyFile => scopedFile' = scopedFile
    BY <1>8 DEF OpenProjectFile, OpenLegacyFile, OpenScopedFile, StartAt, Goto, Staging,
       Placed, Serving, Searched
  <2>2. CASE scopedFile' = scopedFile
    BY <2>1, <2>2 DEF Searched, Sound, Widowed
  <2>3. CASE ValidScoped(db.scoped)
    BY <2>1, <2>3 DEF Searched, Sound
  <2> QED BY <1>8, <2>1, <2>2, <2>3
<1>9. CASE Quarantine
  <2>1. /\ UNCHANGED scopedFile /\ db' \in {db, Missing}
        /\ pc' \notin Staging \cup {"idle", "legacy", "scoped", "project", "open_scoped"}
    BY <1>9, Quarantines DEF Staging, files
  <2> QED BY <2>1 DEF Searched, Sound, Widowed
<1>10. CASE BuildStage
  <2>1. /\ UNCHANGED <<scopedFile, db>> /\ stage' = IF Stageable THEN Restored ELSE Null
        /\ pc' = IF Stageable THEN "stage_scoped" ELSE "refused"
    BY <1>10 DEF BuildStage, StartAt, Goto, files
  <2> QED BY <2>1 DEF Stageable, Searched, Sound, Widowed, Staging
<1>11. CASE StageScopedFile \/ StageProjectFile
  <2>1. /\ UNCHANGED <<db, stage>> /\ db = Missing /\ ValidScoped(stage.scoped)
        /\ scopedFile' \in {scopedFile, stage.scoped} /\ pc' \in Staging
    BY <1>11 DEF StageScopedFile, StageProjectFile, StartAt, Goto, Staging, Searched,
       Placed, recovery
  <2> QED BY <2>1 DEF Searched, Sound, Staging
<1>12. CASE Promote
  <2>1. UNCHANGED scopedFile /\ db' = stage /\ ValidScoped(stage.scoped) /\ pc' = "verify"
    BY <1>12 DEF Promote, StartAt, Goto, Staging, Searched, files
  <2> QED BY <2>1 DEF Searched, Staging
<1>13. CASE Lose
  BY <1>13 DEF Lose, Searched, Sound, Staging, files
<1>14. CASE PriorBinaryRebuilds
  <2>1. /\ UNCHANGED scopedFile /\ pc' = "closed" /\ EmptyDatabase \in Databases
        /\ db' = [EmptyDatabase EXCEPT !.legacy = RestoredLegacy(legacyFile)]
    BY <1>14, EmptyTyped DEF PriorBinaryRebuilds, files
  <2>2. db'.scoped = EmptyScoped
    BY <2>1, EmptyCopies DEF Databases
  <2> QED BY <2>1, <2>2, EmptyCopies DEF Searched, Staging
<1>15. CASE /\ UNCHANGED <<db, files, told>>
            /\ pc' \in Places \ (Staging \cup {"scoped", "legacy", "project", "open_scoped",
                                               "scoped_half", "scoped_meta"})
            /\ pc' = "idle" => pc \in {"legacy", "scoped", "project"}
  BY <1>15 DEF Searched, Sound, Widowed, files
<1> QED BY <1>2, <1>3, <1>4, <1>5, <1>6, <1>7, <1>8, <1>9, <1>10, <1>11, <1>12, <1>13,
           <1>14, <1>15, Copies

\* Every copy stays balanced.
LEMMA BalancesNext ==
  ASSUME TypeOK, TypeOK', Placed, Staged, Balances, Next
  PROVE  Balances'
<1>1. /\ Sound <=> db \in Databases
      /\ db' \in Databases => db' \notin {Missing, Corrupt}
  BY SoundIsDatabase, DatabasesAreSound
<1>2. Balanced(EmptyScoped.feedback, Keys) /\ Balanced(NoJudgments, LegacyKeys)
  BY EmptyCopies
<1>3. CASE Mutated
  <2>1. /\ Sound /\ UNCHANGED files /\ pc' \notin Staging
        /\ Balanced(db'.scoped.feedback, Keys) /\ Balanced(db'.legacy.judgments, LegacyKeys)
    BY <1>3 DEF Mutated, Grows, GrowsScoped, GrowsLegacy, Balances, FeedbackBalances, Placed,
       Serving, Staging
  <2> QED BY <2>1 DEF Balances, FeedbackBalances, files
<1>4. CASE Connects
  BY <1>4 DEF Connects, Balances, FeedbackBalances, Placed, Serving, Staging, files
<1>5. CASE SaveFiles
  <2>1. /\ Sound /\ db' = db /\ pc' \notin Staging /\ db.legacy \in LegacyStates
        /\ scopedFile' \in {scopedFile, db.scoped}
        /\ legacyFile' \in {legacyFile, LegacySnapshot(db.legacy)}
    BY <1>1, <1>5, DatabaseParts DEF SaveFiles, WriteLegacyFile, WriteScopedFile,
       WriteProjectFile, Goto, Placed, Serving, Staging
  <2> QED BY <2>1, LegacyCopies DEF Balances, FeedbackBalances, Sound
<1>6. CASE Open
  <2>1. UNCHANGED files /\ db' \in {db, EmptyDatabase} /\ pc' \notin Staging
    BY <1>6 DEF Open, StartAt, Goto, Staging
  <2> QED BY <2>1, EmptyCopies DEF Balances, FeedbackBalances, Sound, files
<1>7. CASE OpenScopedHalf
  <2>1. /\ UNCHANGED files /\ Sound /\ db \in Databases /\ pc' \notin Staging
        /\ db' = db \/ db' = Initialised(db)
    BY <1>1, <1>7 DEF OpenScopedHalf, StartAt, Goto, Staging, Placed
  <2>2. db.legacy \in LegacyStates /\ db.scoped \in ScopedStates
    BY <2>1, DatabaseParts
  <2>3. /\ db'.legacy = db.legacy
        /\ \/ db'.scoped.feedback = db.scoped.feedback
           \/ scopedFile # Null /\ db'.scoped = scopedFile
    BY <2>1, <2>2, OpenedParts, Projects
  <2> QED BY <2>1, <2>3 DEF Balances, FeedbackBalances, files
<1>8. CASE OpenScopedMeta \/ OpenConnections
  <2>1. UNCHANGED files /\ Sound /\ pc' \notin Staging
    BY <1>8 DEF OpenScopedMeta, OpenConnections, StartAt, Goto, Staging, Placed
  <2>2. db'.legacy = db.legacy /\ db'.scoped = db.scoped
    <3>1. CASE OpenScopedMeta
      BY <2>1, <3>1, OpenedParts DEF OpenScopedMeta
    <3>2. CASE OpenConnections
      <4>1. db' = db \/ db' = [db EXCEPT !.table = TRUE, !.conns = Inherited]
        BY <3>2 DEF OpenConnections
      <4> QED BY <2>1, <4>1, InheritsConnections
    <3> QED BY <1>8, <3>1, <3>2
  <2> QED BY <2>1, <2>2 DEF Balances, FeedbackBalances, files
<1>9. CASE OpenProjectFile \/ OpenLegacyFile \/ OpenScopedFile
  <2>1. /\ Sound /\ UNCHANGED db /\ pc' \notin Staging /\ db.legacy \in LegacyStates
        /\ scopedFile' \in {scopedFile, db.scoped}
        /\ legacyFile' \in {legacyFile, LegacySnapshot(db.legacy)}
    BY <1>1, <1>9, DatabaseParts DEF OpenProjectFile, OpenLegacyFile, OpenScopedFile, StartAt,
       Goto, Staging, Placed, Serving
  <2> QED BY <2>1, LegacyCopies DEF Balances, FeedbackBalances, Sound
<1>10. CASE Quarantine
  <2>1. UNCHANGED files /\ db' \in {db, Missing} /\ pc' \notin Staging
    BY <1>10, Quarantines DEF Staging
  <2> QED BY <2>1 DEF Balances, FeedbackBalances, Sound, files
<1>11. CASE BuildStage
  <2>1. /\ UNCHANGED <<files, db>> /\ stage' = IF Stageable THEN Restored ELSE Null
        /\ pc' = IF Stageable THEN "stage_scoped" ELSE "refused"
    BY <1>11 DEF BuildStage, StartAt, Goto
  <2>2. Balanced(Restored.legacy.judgments, LegacyKeys)
    <3>1. Restored.legacy.judgments = KnownLegacy.judgments
      BY MadeTyped, LegacyCopies
    <3>2. \/ KnownLegacy = legacyFile /\ legacyFile # Null
          \/ KnownLegacy.judgments = NoJudgments
      BY EmptyTyped, DatabaseParts, LegacyCopies, EmptyCopies DEF KnownLegacy
    <3> QED BY <1>2, <3>1, <3>2 DEF Balances, FeedbackBalances
  <2>3. Balanced(Restored.scoped.feedback, Keys)
    <3>1. PICK rooted : rooted = Projected(EmptyDatabase.legacy, EmptyScoped)
      OBVIOUS
    <3>2. rooted \in ScopedStates /\ rooted.feedback = EmptyScoped.feedback
      BY <3>1, EmptyTyped, DatabaseParts, Projects
    <3>3. Restored.legacy \in LegacyStates
      BY MadeTyped, DatabaseParts
    <3>4. CASE scopedFile # Null
      BY <3>4, RestoresFiles DEF Balances, FeedbackBalances
    <3>5. CASE scopedFile = Null
      <4>1. Restored.scoped = Projected(Restored.legacy, rooted)
        BY <3>1, <3>5, RestoresFiles
      <4> QED BY <1>2, <3>2, <3>3, <4>1, Projects
    <3> QED BY <3>4, <3>5
  <2> QED BY <2>1, <2>2, <2>3 DEF Balances, FeedbackBalances, Sound, Staging, files
<1>12. CASE StageScopedFile \/ StageProjectFile
  <2>1. /\ UNCHANGED <<db, stage, legacyFile>> /\ pc \in Staging
        /\ scopedFile' \in {scopedFile, stage.scoped}
    BY <1>12 DEF StageScopedFile, StageProjectFile, StartAt, Staging, recovery
  <2> QED BY <2>1 DEF Balances, FeedbackBalances, Sound
<1>13. CASE Promote
  <2>1. UNCHANGED files /\ db' = stage /\ pc \in Staging /\ pc' \notin Staging
    BY <1>13 DEF Promote, StartAt, Goto, Staging
  <2> QED BY <2>1 DEF Balances, FeedbackBalances, files
<1>14. CASE Lose
  BY <1>14 DEF Lose, Balances, FeedbackBalances, Sound, Staging, files
<1>15. CASE PriorBinaryRebuilds
  <2>1. /\ UNCHANGED files /\ pc' = "closed" /\ legacyFile \in LegacyFiles
        /\ EmptyDatabase \in Databases /\ legacyFile # Null
        /\ db' = [EmptyDatabase EXCEPT !.legacy = RestoredLegacy(legacyFile)]
    BY <1>15, EmptyTyped DEF PriorBinaryRebuilds, TypeOK
  <2>2. db'.scoped = EmptyScoped /\ db'.legacy = RestoredLegacy(legacyFile)
    BY <2>1, EmptyCopies DEF Databases
  <2> QED BY <1>2, <2>1, <2>2, LegacyCopies DEF Balances, FeedbackBalances, Staging, files
<1>16. CASE /\ UNCHANGED <<db, files, told>>
            /\ pc' \in Places \ (Staging \cup {"scoped", "legacy", "project", "open_scoped",
                                               "scoped_half", "scoped_meta"})
            /\ pc' = "idle" => pc \in {"legacy", "scoped", "project"}
  BY <1>16 DEF Balances, FeedbackBalances, Sound, files
<1> QED BY <1>3, <1>4, <1>5, <1>6, <1>7, <1>8, <1>9, <1>10, <1>11, <1>12, <1>13,
           <1>14, <1>15, <1>16, Copies

\* The files keep what was told even where one of them is missing.
LEMMA FilesAreEnough ==
  ASSUME TypeOK, ToldTyped, FilesKeep
  PROVE  KeepsTold(Restored)
<1>1. KeepsLegacy(Restored.legacy, told.judgments)
  <2>1. Restored.legacy.judgments = KnownLegacy.judgments
    BY MadeTyped, LegacyCopies
  <2>2. \/ legacyFile # Null /\ KnownLegacy = legacyFile
        \/ legacyFile = Null /\ told.judgments = NoJudgments
    BY DEF KnownLegacy, FilesKeep
  <2> QED BY <2>1, <2>2, KeepsNothing DEF FilesKeep, KeepsLegacy
<1>2. KeepsConnections(Restored.conns, told.conns)
  BY MadeTyped, KeepsNothing DEF FilesKeep, Inherited
<1>3. KeepsScoped(Restored.scoped, told.scoped)
  <2>1. Restored.scoped \in ScopedStates
    BY MadeTyped, DatabaseParts
  <2> QED BY <2>1, RestoresFiles, KeepsNothing DEF FilesKeep
<1> QED BY <1>1, <1>2, <1>3 DEF KeepsTold

\* Every copy keeps what was told.
LEMMA KeptNext ==
  ASSUME TypeOK, TypeOK', ToldTyped, Placed, Placed', Staged, Kept, Next
  PROVE  Kept'
<1>1. /\ Sound <=> db \in Databases
      /\ db' \in Databases => db' \notin {Missing, Corrupt}
      /\ FilesKeep /\ DatabaseKeeps
  BY SoundIsDatabase, DatabasesAreSound DEF Kept
<1>2. CASE Mutated
  <2>1. /\ Sound /\ Whole(db) /\ UNCHANGED <<files, told>> /\ Grows(db, db')
        /\ pc' \notin Staging \cup {"scoped"}
    BY <1>2 DEF Mutated, Placed, Serving, Staging
  <2>2. DatabaseKeeps'
    BY <1>1, <2>1 DEF Grows, GrowsScoped, GrowsLegacy, DatabaseKeeps, Whole, ToldTyped
  <2> QED BY <1>1, <2>1, <2>2 DEF Kept, FilesKeep, files
<1>3. CASE Connects
  <2>1. /\ Sound /\ Whole(db) /\ UNCHANGED <<files, told>>
        /\ pc' \notin Staging \cup {"scoped"}
    BY <1>3 DEF Connects, Placed, Serving, Staging
  <2>2. DatabaseKeeps'
    BY <1>1, <1>3, <2>1 DEF Connects, DatabaseKeeps, Whole, ToldTyped
  <2> QED BY <1>1, <2>1, <2>2 DEF Kept, FilesKeep, files
<1>4. CASE SaveFiles
  <2>1. /\ Sound /\ Whole(db) /\ db' = db /\ pc' \notin Staging
        /\ db.legacy \in LegacyStates /\ db.scoped \in ScopedStates
        /\ db.conns \in ConnectionStates /\ LegacySnapshot(db.legacy) \in LegacyFiles
        /\ LegacySnapshot(db.legacy).judgments = db.legacy.judgments
        /\ LegacySnapshot(db.legacy) # Null /\ db.scoped # Null /\ db.conns # Null
    BY <1>1, <1>4, DatabaseParts, LegacyCopies, NullIsNoValue
       DEF SaveFiles, WriteLegacyFile, WriteScopedFile,
       WriteProjectFile, Goto, Placed, Serving, Staging
  <2>2. /\ KeepsScoped(db.scoped, told.scoped) /\ KeepsLegacy(db.legacy, told.judgments)
        /\ KeepsConnections(db.conns, told.conns)
    BY <1>1, <2>1 DEF DatabaseKeeps, Whole
  <2>3. /\ KeepsScoped(db.scoped, db.scoped) /\ KeepsLegacy(db.legacy, db.legacy.judgments)
        /\ KeepsConnections(db.conns, db.conns)
    BY <2>1, KeepsNothing
  <2>4. CASE WriteLegacyFile
    <3>1. /\ legacyFile' = LegacySnapshot(db.legacy) /\ pc' = "scoped"
          /\ UNCHANGED <<db, scopedFile, projectFile, told>>
      BY <2>4 DEF WriteLegacyFile, Goto
    <3>2. KeepsLegacy(LegacySnapshot(db.legacy), told.judgments)
      BY <2>1, <2>2 DEF KeepsLegacy
    <3>3. FilesKeep'
      BY <1>1, <2>1, <3>1, <3>2 DEF FilesKeep
    <3>4. DatabaseKeeps'
      BY <2>2, <3>1 DEF DatabaseKeeps
    <3> QED BY <2>1, <3>1, <3>3, <3>4 DEF Kept
  <2>5. CASE WriteScopedFile
    <3>1. /\ scopedFile' = db.scoped /\ pc = "scoped" /\ pc' = "idle"
          /\ told' = [told EXCEPT !.scoped = db.scoped, !.judgments = db.legacy.judgments]
          /\ UNCHANGED <<db, legacyFile, projectFile>>
      BY <2>5 DEF WriteScopedFile, Goto
    <3>2. /\ told'.scoped = db.scoped /\ told'.judgments = db.legacy.judgments
          /\ told'.conns = told.conns
      BY <3>1 DEF ToldTyped
    <3>3. legacyFile = LegacySnapshot(db.legacy) /\ legacyFile # Null
      BY <2>1, <3>1 DEF Kept
    <3>4. KeepsLegacy(legacyFile, db.legacy.judgments)
      BY <2>1, <2>3, <3>3 DEF KeepsLegacy
    <3>5. FilesKeep'
      BY <1>1, <2>1, <2>3, <3>1, <3>2, <3>3, <3>4 DEF FilesKeep
    <3>6. DatabaseKeeps'
      BY <2>2, <2>3, <3>1, <3>2 DEF DatabaseKeeps
    <3> QED BY <2>1, <3>1, <3>5, <3>6 DEF Kept
  <2>6. CASE WriteProjectFile
    <3>1. /\ projectFile' = db.conns /\ pc' = "idle" /\ told' = [told EXCEPT !.conns = db.conns]
          /\ UNCHANGED <<db, legacyFile, scopedFile>>
      BY <2>6 DEF WriteProjectFile, Goto
    <3>2. /\ told'.scoped = told.scoped /\ told'.judgments = told.judgments
          /\ told'.conns = db.conns
      BY <3>1 DEF ToldTyped
    <3>3. FilesKeep'
      BY <1>1, <2>1, <2>3, <3>1, <3>2 DEF FilesKeep
    <3>4. DatabaseKeeps'
      BY <2>2, <2>3, <3>1, <3>2 DEF DatabaseKeeps
    <3> QED BY <2>1, <3>1, <3>3, <3>4 DEF Kept
  <2> QED BY <1>4, <2>4, <2>5, <2>6 DEF SaveFiles
<1>5. CASE Open
  <2>1. UNCHANGED <<files, told>> /\ pc' \notin Staging \cup {"scoped", "scoped_meta"}
    BY <1>5 DEF Open, StartAt, Goto, Staging
  <2>2. CASE UNCHANGED db
    BY <1>1, <1>5, <2>1, <2>2 DEF Kept, FilesKeep, DatabaseKeeps, Sound, files, Open, StartAt
  <2>3. CASE db = Missing /\ marker = Null /\ db' = EmptyDatabase
    <3>1. told.judgments = NoJudgments
      BY <1>1, <2>3 DEF Placed, FilesKeep
    <3>2. DatabaseKeeps'
      BY <2>1, <2>3, <3>1, EmptyCopies, KeepsNothing DEF DatabaseKeeps
    <3> QED BY <1>1, <2>1, <3>2 DEF Kept, FilesKeep, files
  <2> QED BY <1>5, <2>2, <2>3 DEF Open
<1>6. CASE OpenScopedHalf
  <2>1. /\ UNCHANGED <<files, told>> /\ Sound /\ db \in Databases
        /\ pc' = (IF Restorable(db) THEN "scoped_meta" ELSE "refused")
        /\ db' = (IF Restorable(db) THEN Initialised(db) ELSE db)
        /\ pc = "scoped_half"
    BY <1>1, <1>6 DEF OpenScopedHalf, StartAt, Goto, Placed
  <2>2. CASE ~ Restorable(db)
    BY <1>1, <2>1, <2>2 DEF Kept, FilesKeep, DatabaseKeeps, Sound, files, Staging
  <2>3. CASE Restorable(db)
    <3>1. /\ db'.legacy = db.legacy /\ db'.table = db.table /\ db'.conns = db.conns
          /\ db'.scoped = IF db.meta THEN db.scoped ELSE IF scopedFile # Null THEN scopedFile
                          ELSE Projected(db.legacy, db.scoped)
      BY <2>1, <2>3, OpenedParts
    <3>2. Projected(db.legacy, db.scoped) \in ScopedStates
      BY <2>1, DatabaseParts, Projects
    <3>3. KeepsScoped(db'.scoped, told.scoped)
      <4>1. CASE db.meta
        BY <1>1, <2>1, <3>1, <4>1 DEF DatabaseKeeps
      <4>2. CASE ~ db.meta /\ scopedFile # Null
        BY <1>1, <3>1, <4>2 DEF FilesKeep
      <4>3. CASE ~ db.meta /\ scopedFile = Null
        BY <1>1, <3>1, <3>2, <4>3, KeepsNothing DEF FilesKeep
      <4> QED BY <4>1, <4>2, <4>3
    <3>4. DatabaseKeeps'
      BY <1>1, <2>1, <3>1, <3>3 DEF DatabaseKeeps
    <3> QED BY <1>1, <2>1, <2>3, <3>4 DEF Kept, FilesKeep, files, Staging
  <2> QED BY <2>2, <2>3
<1>7. CASE OpenScopedMeta
  <2>1. /\ UNCHANGED <<files, told>> /\ Sound /\ pc' = "connections"
        /\ db' = [db EXCEPT !.meta = TRUE] /\ pc = "scoped_meta"
    BY <1>7 DEF OpenScopedMeta, StartAt, Goto, Placed
  <2>2. /\ db'.legacy = db.legacy /\ db'.scoped = db.scoped /\ db'.table = db.table
        /\ db'.conns = db.conns
    BY <2>1, OpenedParts
  <2>3. DatabaseKeeps'
    BY <1>1, <2>1, <2>2 DEF DatabaseKeeps
  <2> QED BY <1>1, <2>1, <2>3 DEF Kept, FilesKeep, files, Staging
<1>8. CASE OpenConnections
  <2>1. /\ UNCHANGED <<files, told>> /\ Sound /\ db.meta /\ pc = "connections"
        /\ pc' \notin Staging \cup {"scoped"}
        /\ db' = db \/ db' = [db EXCEPT !.table = TRUE, !.conns = Inherited]
    BY <1>8 DEF OpenConnections, StartAt, Goto, Placed, Staging
  <2>2. CASE db' = db
    BY <1>1, <2>1, <2>2 DEF Kept, FilesKeep, DatabaseKeeps, Sound, files
  <2>3. CASE db' = [db EXCEPT !.table = TRUE, !.conns = Inherited]
    <3>1. KeepsConnections(Inherited, told.conns)
      BY <1>1, FilesAreEnough, MadeTyped DEF KeepsTold
    <3>2. DatabaseKeeps'
      BY <1>1, <2>1, <2>3, <3>1, InheritsConnections DEF DatabaseKeeps
    <3> QED BY <1>1, <2>1, <3>2 DEF Kept, FilesKeep, files
  <2> QED BY <2>1, <2>2, <2>3
<1>9. CASE OpenProjectFile \/ OpenLegacyFile \/ OpenScopedFile
  <2>1. /\ Sound /\ Whole(db) /\ UNCHANGED <<db, told>> /\ pc' \notin Staging \cup {"scoped"}
        /\ db \in Databases /\ pc # "scoped_meta"
    BY <1>1, <1>9 DEF OpenProjectFile, OpenLegacyFile, OpenScopedFile, StartAt, Goto, Placed,
       Serving, Staging
  <2>2. /\ db.legacy \in LegacyStates /\ db.scoped \in ScopedStates
        /\ db.conns \in ConnectionStates /\ LegacySnapshot(db.legacy) \in LegacyFiles
        /\ LegacySnapshot(db.legacy).judgments = db.legacy.judgments
        /\ LegacySnapshot(db.legacy) # Null /\ db.scoped # Null /\ db.conns # Null
    BY <2>1, DatabaseParts, LegacyCopies, NullIsNoValue
  <2>3. /\ KeepsScoped(db.scoped, told.scoped)
        /\ KeepsLegacy(LegacySnapshot(db.legacy), told.judgments)
        /\ KeepsConnections(db.conns, told.conns)
    BY <1>1, <2>1, <2>2 DEF DatabaseKeeps, Whole, KeepsLegacy
  <2>4. /\ legacyFile' \in {legacyFile, LegacySnapshot(db.legacy)}
        /\ scopedFile' \in {scopedFile, db.scoped}
        /\ projectFile' \in {projectFile, db.conns}
    BY <1>9 DEF OpenProjectFile, OpenLegacyFile, OpenScopedFile
  <2>5. FilesKeep'
    BY <1>1, <2>1, <2>2, <2>3, <2>4 DEF FilesKeep
  <2>6. DatabaseKeeps'
    BY <1>1, <2>1 DEF DatabaseKeeps, Sound, Whole
  <2> QED BY <2>1, <2>5, <2>6 DEF Kept
<1>10. CASE Quarantine
  <2>1. /\ UNCHANGED <<files, told>> /\ db' \in {db, Missing} /\ pc \in Moving
        /\ pc' \notin Staging \cup {"scoped", "scoped_meta"}
    BY <1>10, Quarantines DEF Staging
  <2> QED BY <1>1, <2>1 DEF Kept, FilesKeep, DatabaseKeeps, Sound, Moving, files
<1>11. CASE BuildStage
  <2>1. /\ UNCHANGED <<files, db, told>> /\ stage' = IF Stageable THEN Restored ELSE Null
        /\ pc' = IF Stageable THEN "stage_scoped" ELSE "refused"
        /\ pc = "stage"
    BY <1>11 DEF BuildStage, StartAt, Goto
  <2>2. KeepsTold(Restored)
    BY <1>1, FilesAreEnough
  <2>3. FilesKeep' /\ DatabaseKeeps'
    BY <1>1, <2>1 DEF FilesKeep, DatabaseKeeps, Sound, files
  <2> QED BY <2>1, <2>2, <2>3 DEF Kept, KeepsTold, Staging
<1>12. CASE StageScopedFile \/ StageProjectFile
  <2>1. /\ UNCHANGED <<db, stage, legacyFile, told>> /\ db = Missing /\ pc' \in Staging
        /\ scopedFile' \in {scopedFile, stage.scoped}
        /\ projectFile' \in {projectFile, stage.conns} /\ pc \in Staging
    BY <1>12 DEF StageScopedFile, StageProjectFile, StartAt, Goto, Staging, Placed, recovery
  <2>2. stage \in Databases /\ stage.scoped # Null /\ stage.conns # Null /\ KeepsTold(stage)
    BY <2>1, DatabaseParts, NullIsNoValue DEF Staged, Kept
  <2>3. FilesKeep'
    BY <1>1, <2>1, <2>2 DEF FilesKeep, KeepsTold
  <2> QED BY <2>1, <2>2, <2>3 DEF Kept, DatabaseKeeps, KeepsTold, Sound, Staging
<1>13. CASE Promote
  <2>1. /\ UNCHANGED <<files, told>> /\ db' = stage /\ pc' = "verify" /\ KeepsTold(stage)
    BY <1>13 DEF Promote, StartAt, Goto, Staging, Kept
  <2> QED BY <1>1, <2>1 DEF Kept, FilesKeep, DatabaseKeeps, KeepsTold, Staging, files
<1>14. CASE Lose
  <2>1. UNCHANGED <<files, told>> /\ db' = Corrupt /\ pc' = "closed"
    BY <1>14 DEF Lose
  <2> QED BY <1>1, <2>1 DEF Kept, FilesKeep, DatabaseKeeps, Sound, Staging, files
<1>15. CASE PriorBinaryRebuilds
  <2>1. /\ UNCHANGED <<files, told>> /\ pc' = "closed" /\ legacyFile \in LegacyFiles
        /\ EmptyDatabase \in Databases /\ legacyFile # Null
        /\ db' = [EmptyDatabase EXCEPT !.legacy = RestoredLegacy(legacyFile)]
    BY <1>15, EmptyTyped DEF PriorBinaryRebuilds, TypeOK
  <2>2. /\ db'.legacy = RestoredLegacy(legacyFile) /\ ~ db'.meta /\ ~ db'.table
    BY <2>1, EmptyCopies DEF Databases
  <2>3. KeepsLegacy(db'.legacy, told.judgments)
    BY <1>1, <2>1, <2>2, LegacyCopies DEF FilesKeep, KeepsLegacy
  <2>4. DatabaseKeeps'
    BY <2>1, <2>2, <2>3 DEF DatabaseKeeps
  <2> QED BY <1>1, <2>1, <2>4 DEF Kept, FilesKeep, Staging, files
<1>16. CASE /\ UNCHANGED <<db, files, told>>
            /\ pc' \in Places \ (Staging \cup {"scoped", "legacy", "project", "open_scoped",
                                               "scoped_half", "scoped_meta"})
            /\ pc' = "idle" => pc \in {"legacy", "scoped", "project"}
  <2>1. FilesKeep'
    BY <1>1, <1>16 DEF FilesKeep, files
  <2>2. DatabaseKeeps'
    BY <1>1, <1>16 DEF DatabaseKeeps, Sound
  <2> QED BY <1>16, <2>1, <2>2 DEF Kept
<1> QED BY <1>2, <1>3, <1>4, <1>5, <1>6, <1>7, <1>8, <1>9, <1>10, <1>11, <1>12, <1>13,
           <1>14, <1>15, <1>16, Copies

-----------------------------------------------------------------------------
(* Why a start gives up.                                                   *)

\* What is staged can be refused for what its files lack, and for nothing else.
LEMMA UnstageableIsKnown ==
  ASSUME TypeOK, Searched, ~ Sound, ~ Stageable
  PROVE  Orphaned \/ Dangling
<1>1. CASE ~ Refers(Restored.scoped, Inherited)
  <2>1. projectFile # Null /\ Inherited = projectFile
    BY <1>1 DEF Inherited, Refers, NoConnections
  <2>2. Restored.scoped.status = (IF scopedFile = Null THEN EmptyScoped ELSE scopedFile).status
    <3>1. CASE scopedFile # Null
      BY <3>1, RestoresFiles
    <3>2. CASE scopedFile = Null
      <4>1. PICK rooted : rooted = Projected(EmptyDatabase.legacy, EmptyScoped)
        OBVIOUS
      <4>2. rooted \in ScopedStates /\ rooted.status = EmptyScoped.status
        BY <4>1, EmptyTyped, DatabaseParts, Projects
      <4>3. Restored.scoped = Projected(Restored.legacy, rooted)
        BY <3>2, <4>1, RestoresFiles
      <4>4. Restored.legacy \in LegacyStates
        BY MadeTyped, DatabaseParts
      <4> QED BY <3>2, <4>2, <4>3, <4>4, Projects
    <3> QED BY <3>1, <3>2
  <2> QED BY <1>1, <2>1, <2>2 DEF Dangling, Refers
<1>2. CASE ~ ValidScoped(Restored.scoped)
  <2>1. scopedFile = Null
    BY <1>2, RestoresFiles DEF Searched
  <2>2. PICK rooted : rooted = Projected(EmptyDatabase.legacy, EmptyScoped)
    OBVIOUS
  <2>3. rooted \in ScopedStates /\ ValidScoped(rooted)
    BY <2>2, EmptyTyped, EmptyCopies, DatabaseParts, Projects DEF NoJudgments
  <2>4. Restored.scoped = Projected(Restored.legacy, rooted)
    BY <2>1, <2>2, RestoresFiles
  <2>5. /\ Restored.legacy \in LegacyStates /\ KnownLegacy \in LegacyFiles
        /\ Restored.legacy.lens = KnownLegacy.lens
        /\ Restored.legacy.judgments = KnownLegacy.judgments
    BY MadeTyped, DatabaseParts, LegacyCopies
  <2>6. ~ KnownLegacy.lens /\ \E k \in LegacyKeys : KnownLegacy.judgments[k] # Null
    BY <1>2, <2>3, <2>4, <2>5, Projects
  <2>7. legacyFile = Null => KnownLegacy.judgments = NoJudgments
    BY EmptyTyped, EmptyCopies, DatabaseParts, LegacyCopies DEF KnownLegacy
  <2>8. legacyFile # Null /\ KnownLegacy = legacyFile
    BY <2>6, <2>7 DEF NoJudgments, KnownLegacy
  <2> QED BY <2>1, <2>6, <2>8 DEF Orphaned
<1> QED BY <1>1, <1>2 DEF Stageable

\* A step that gives up does so for a known reason.
LEMMA RefusedNext ==
  ASSUME TypeOK, Placed, Marked, Searched, Next
  PROVE  RefusalsAreKnown'
<1> SUFFICES ASSUME pc' = "refused"
             PROVE  (Orphaned \/ HalfRestored \/ Dangling \/ LostTwice \/ Unfinished)'
  BY DEF RefusalsAreKnown
<1>1. \/ OpenScopedHalf \/ OpenConnections \/ OpenLegacyFile
      \/ RecoverAdopts \/ Resume \/ Inspect \/ Quarantine \/ BuildStage
  BY Steps DEF Mutated, Connects, WriteFails, SaveFiles, WriteLegacyFile, WriteScopedFile,
     WriteProjectFile, Start, Open, OpenScopedMeta, OpenProjectFile, OpenAdopts, OpenScopedFile,
     RecoverBinds, RecoverMarks, StageScopedFile, StageProjectFile, Promote, Verify,
     RemoveBinding, RemoveMarker, StartAt, Goto, Close, Retry, Crash, Lose, PriorBinaryRebuilds
<1>2. CASE OpenScopedHalf
  <2>1. /\ ~ Restorable(db) /\ UNCHANGED <<db, scopedFile, marker>>
        /\ Sound /\ marker = Null
    BY <1>2 DEF OpenScopedHalf, StartAt, Goto, files, recovery, Placed, Recovering, Staging,
       Settling, Moving
  <2> QED BY <2>1 DEF HalfRestored, Restorable, Sound
<1>3. CASE OpenConnections
  <2>1. /\ ~ Refers(db.scoped, Inherited) /\ UNCHANGED <<db, scopedFile, projectFile>> /\ Sound
    BY <1>3 DEF OpenConnections, StartAt, Goto, files, Placed
  <2>2. projectFile # Null /\ Inherited = projectFile
    BY <2>1 DEF Inherited, Refers, NoConnections
  <2> QED BY <2>1, <2>2 DEF Dangling, Sound
<1>4. CASE OpenLegacyFile
  <2>1. /\ ~ ValidScoped(db.scoped) /\ legacyFile' = LegacySnapshot(db.legacy)
        /\ UNCHANGED scopedFile /\ Sound
    BY <1>4 DEF OpenLegacyFile, StartAt, Goto, Placed, Serving
  <2>2. Widowed(db)
    BY <2>1 DEF Searched
  <2>3. db.legacy \in LegacyStates
    BY <2>1, SoundIsDatabase, DatabaseParts
  <2>4. /\ legacyFile' # Null /\ legacyFile'.lens = db.legacy.lens
        /\ legacyFile'.judgments = db.legacy.judgments
    BY <2>1, <2>3, LegacyCopies, NullIsNoValue
  <2> QED BY <2>1, <2>2, <2>4 DEF Orphaned, Widowed
<1>5. CASE RecoverAdopts
  BY <1>5 DEF RecoverAdopts, StartAt, Goto, Marked
<1>6. CASE Resume
  <2>1. /\ ~ SameFiles /\ UNCHANGED <<db, files, marker, binding, quarantined>> /\ marker # Null
    BY <1>6 DEF Resume, StartAt, Goto, Placed, Recovering
  <2>2. binding = Null /\ quarantined /\ db # Missing
    BY <2>1 DEF SameFiles, Marked, BoundFile
  <2>3. CASE Sound
    BY <2>1, <2>2, <2>3 DEF Marked, Unfinished, Complete, KnownLegacy, Sound, files
  <2>4. CASE ~ Sound
    BY <2>1, <2>2, <2>4 DEF LostTwice, Sound
  <2> QED BY <2>3, <2>4
<1>7. CASE Inspect
  <2>1. marker # Null /\ ~ Unusable /\ ~ Complete(db)
    BY <1>7 DEF Inspect, StartAt, Goto, Placed, Recovering
  <2> QED BY <2>1 DEF Unusable, Marked
<1>9. CASE Quarantine
  <2>1. /\ marker # Null /\ UNCHANGED marker /\ Unusable
        /\ db # Missing /\ quarantined /\ db' = db /\ quarantined'
    BY <1>9, Quarantines DEF Placed, Recovering
  <2>2. db = Corrupt
    BY <2>1 DEF Unusable, Differs, Marked, Sound
  <2> QED BY <2>1, <2>2 DEF LostTwice
<1>8. CASE BuildStage
  <2>1. ~ Stageable /\ UNCHANGED <<db, files>> /\ db = Missing
    BY <1>8 DEF BuildStage, StartAt, Goto, Placed
  <2>2. Orphaned \/ Dangling
    BY <2>1, UnstageableIsKnown DEF Sound
  <2> QED BY <2>1, <2>2 DEF Orphaned, Dangling, Sound, files
<1> QED BY <1>1, <1>2, <1>3, <1>4, <1>5, <1>6, <1>7, <1>8, <1>9

-----------------------------------------------------------------------------
(* The invariant.                                                          *)

\* What a binary that knew no scopes has left is a legacy half.
LEMMA UpgradesTyped ==
  ASSUME NEW l \in Upgrades
  PROVE  l \in LegacyStates /\ Balanced(l.judgments, LegacyKeys)
<1> DEFINE original == LegacyOriginal([actor |-> "owner", sign |-> 1])
<1>1. original \in Judgment(LegacyKeys) /\ original.reverses = Null
  BY DEF LegacyOriginal, Judgment, Judges, Effects, Weight
<1>2. /\ l.lens \in BOOLEAN /\ l.run = TRUE
      /\ l = [lens |-> l.lens, run |-> l.run, judgments |-> l.judgments]
      /\ \/ l.judgments = NoJudgments
         \/ \E k \in LegacyKeys : l.judgments = [NoJudgments EXCEPT ![k] = original]
  BY DEF Upgrades
<1>3. \A k \in LegacyKeys : l.judgments[k] \in {Null, original}
  BY <1>2 DEF NoJudgments
<1>4. l.judgments \in [LegacyKeys -> Judgment(LegacyKeys) \cup {Null}]
  BY <1>1, <1>2, EmptyTyped
<1>5. l \in LegacyStates
  BY <1>2, <1>4 DEF LegacyStates
<1>6. Balanced(l.judgments, LegacyKeys)
  BY <1>1, <1>3 DEF Balanced
<1> QED BY <1>5, <1>6

\* What a start may find has a type, keeps what was told and balances.
LEMMA FoundParts ==
  ASSUME Init
  PROVE  /\ db \in Databases \cup {Missing, Corrupt}
         /\ legacyFile \in LegacyFiles \cup {Null}
         /\ marker \in Markers \cup {Null}
         /\ legacyFile # Null => Balanced(legacyFile.judgments, LegacyKeys)
         /\ Sound => /\ ~ db.meta /\ ~ db.table /\ db.scoped = EmptyScoped
                     /\ marker = Null /\ db.legacy \in LegacyStates
                     /\ legacyFile = LegacySnapshot(db.legacy)
         /\ db = Missing => marker = Null /\ legacyFile = Null /\ sides = {}
         /\ sides \subseteq Sides /\ NoForeignLog
         /\ marker # Null => marker.legacy = TRUE /\ legacyFile # Null
         /\ told.scoped = EmptyScoped /\ told.conns = NoConnections
         /\ told.judgments = IF legacyFile = Null THEN NoJudgments ELSE legacyFile.judgments
         /\ ToldTyped
<1>1. PICK judgments : judgments = IF legacyFile = Null THEN NoJudgments ELSE legacyFile.judgments
  OBVIOUS
<1>2. told = [scoped |-> EmptyScoped, judgments |-> judgments, conns |-> NoConnections]
  BY <1>1 DEF Init, Nothing
<1>3. CASE db = Missing /\ sides = {} /\ legacyFile = Null /\ marker = Null
  BY <1>1, <1>2, <1>3, EmptyTyped, DatabasesAreSound DEF Sound, ToldTyped, NoForeignLog
<1>4. ASSUME NEW l \in Upgrades, legacyFile = LegacySnapshot(l)
      PROVE  /\ l \in LegacyStates /\ Balanced(l.judgments, LegacyKeys)
             /\ legacyFile \in LegacyFiles /\ legacyFile # Null
             /\ legacyFile.judgments = l.judgments
             /\ ToldTyped
  <2>1. l \in LegacyStates /\ Balanced(l.judgments, LegacyKeys)
    BY UpgradesTyped
  <2>2. legacyFile \in LegacyFiles /\ legacyFile # Null /\ legacyFile.judgments = l.judgments
    BY <1>4, <2>1, LegacyCopies, NullIsNoValue
  <2>3. judgments \in [LegacyKeys -> Judgment(LegacyKeys) \cup {Null}]
    BY <1>1, <2>1, <2>2 DEF LegacyStates
  <2> QED BY <1>2, <2>1, <2>2, <2>3, EmptyTyped DEF ToldTyped
<1>5. ASSUME NEW l \in Upgrades, legacyFile = LegacySnapshot(l),
             db = [EmptyDatabase EXCEPT !.legacy = l], marker = Null
      PROVE  /\ db \in Databases /\ ~ db.meta /\ ~ db.table /\ db.scoped = EmptyScoped
             /\ db.legacy = l
  BY <1>4, <1>5, EmptyTyped, EmptyCopies, DatabaseParts DEF Databases
<1>6. ASSUME NEW l \in Upgrades, legacyFile = LegacySnapshot(l),
             db = Corrupt, marker = [legacy |-> TRUE]
      PROVE  marker \in Markers /\ marker.legacy = TRUE
  BY <1>6 DEF Markers
<1>7. \/ db = Missing /\ sides = {} /\ legacyFile = Null /\ marker = Null
      \/ \E l \in Upgrades :
           /\ legacyFile = LegacySnapshot(l)
           /\ \/ db = [EmptyDatabase EXCEPT !.legacy = l] /\ sides = {} /\ marker = Null
              \/ db = Corrupt /\ sides \in SUBSET Sides /\ marker = [legacy |-> TRUE]
  BY DEF Init
<1>8. CASE \E l \in Upgrades :
             /\ legacyFile = LegacySnapshot(l)
             /\ db = [EmptyDatabase EXCEPT !.legacy = l] /\ sides = {} /\ marker = Null
  BY <1>1, <1>2, <1>4, <1>5, <1>8, DatabasesAreSound DEF NoForeignLog
<1>9. CASE \E l \in Upgrades :
             /\ legacyFile = LegacySnapshot(l)
             /\ db = Corrupt /\ sides \in SUBSET Sides /\ marker = [legacy |-> TRUE]
  BY <1>1, <1>2, <1>4, <1>6, <1>9, DatabasesAreSound DEF Sound, NoForeignLog
<1> QED BY <1>3, <1>7, <1>8, <1>9

\* The invariant holds of what a first start may find.
LEMMA InvInit == Init => AgentInv
<1> SUFFICES ASSUME Init PROVE AgentInv
  OBVIOUS
<1>1. /\ scopedFile = Null /\ projectFile = Null /\ adopted = FALSE /\ binding = Null
      /\ quarantined = FALSE /\ stage = Null /\ pc = "closed" /\ pending = Null /\ faults = 0
  BY DEF Init
<1>2. TypeOK /\ ToldTyped
  <2>1. pc \in Places /\ 0 \in 0 .. MaxFaults
    BY <1>1, RecoveryAssumption DEF Places
  <2> QED BY <1>1, <2>1, FoundParts DEF TypeOK
<1>3. Placed /\ Beside
  BY <1>1, FoundParts DEF Placed, Beside, Serving, Staging, Settling, Moving, Recovering
<1>4. Marked
  BY <1>1, FoundParts DEF Marked
<1>5. Staged /\ Durable /\ RefusalsAreKnown
  BY <1>1 DEF Staged, Staging, Durable, Settling, RefusalsAreKnown
<1>6. Searched
  BY <1>1, FoundParts, EmptyCopies DEF Searched, Staging
<1>7. FilesKeep
  BY <1>1, FoundParts, KeepsNothing DEF FilesKeep, KeepsLegacy
<1>8. DatabaseKeeps
  BY <1>1, FoundParts, LegacyCopies, NullIsNoValue DEF DatabaseKeeps, KeepsLegacy
<1>9. Balances
  BY <1>1, FoundParts, EmptyCopies, LegacyCopies, NullIsNoValue
     DEF Balances, FeedbackBalances, Staging
<1> QED BY <1>1, <1>2, <1>3, <1>4, <1>5, <1>6, <1>7, <1>8, <1>9 DEF AgentInv, Kept, Staging

\* Every step preserves the invariant.
LEMMA InvNext == AgentInv /\ [Next]_vars => AgentInv'
<1> SUFFICES ASSUME AgentInv, [Next]_vars PROVE AgentInv'
  OBVIOUS
<1>1. /\ TypeOK /\ ToldTyped /\ Placed /\ Marked /\ Beside /\ Staged /\ Durable /\ Searched
      /\ Kept /\ Balances /\ RefusalsAreKnown
  BY DEF AgentInv
<1>2. CASE Next
  <2>1. TypeOK' /\ ToldTyped'
    BY <1>1, <1>2, TypedNext
  <2>2. Placed'
    BY <1>1, <1>2, <2>1, PlacedNext
  <2>3. Marked' /\ Beside' /\ Staged' /\ Durable'
    BY <1>1, <1>2, <2>1, <2>2, MarkedNext, BesideNext, StagedNext, DurableNext
  <2>4. Searched' /\ Kept' /\ Balances'
    BY <1>1, <1>2, <2>1, <2>2, SearchedNext, KeptNext, BalancesNext
  <2>5. RefusalsAreKnown'
    BY <1>1, <1>2, RefusedNext
  <2> QED BY <2>1, <2>2, <2>3, <2>4, <2>5 DEF AgentInv
<1>3. CASE UNCHANGED vars
  <2>1. UNCHANGED <<db, legacyFile, scopedFile, projectFile, adopted, marker, binding,
                    quarantined, sides, stage, pc, pending, told, faults>>
    BY <1>3 DEF vars, files, recovery
  <2>2. TypeOK' /\ ToldTyped' /\ Placed' /\ Marked' /\ Beside' /\ Staged' /\ Durable'
    BY <1>1, <2>1 DEF TypeOK, ToldTyped, Placed, Marked, BoundFile, Complete, KnownLegacy, Staged,
       Inherited, Durable, Sound, Differs, Unusable, Beside, NoForeignLog
  <2>3. Searched' /\ Balances'
    BY <1>1, <2>1 DEF Searched, Widowed, Sound, Balances, FeedbackBalances
  <2>4. Kept'
    BY <1>1, <2>1 DEF Kept, FilesKeep, DatabaseKeeps, KeepsTold, Sound
  <2>5. RefusalsAreKnown'
    BY <1>1, <2>1 DEF RefusalsAreKnown, Orphaned, HalfRestored, Dangling, LostTwice, Unfinished,
       Sound, Complete, KnownLegacy
  <2> QED BY <2>2, <2>3, <2>4, <2>5 DEF AgentInv
<1> QED BY <1>2, <1>3

\* What every reachable state of the store, open, closed or recovering, satisfies:
\* every copy has its type, keeps what was told and balances, and a recovery that is
\* cut short anywhere finds its own marker again (feedback.go, recovery.go).
THEOREM AgentInvariant == Spec => []AgentInv
BY InvInit, InvNext, PTL DEF Spec

\* A store that is open has every object, search, judgment and connection its
\* callers were told of, however often the process died, a write failed or the
\* database was lost before (feedback.go:86, scoped_feedback.go:46).
THEOREM ToldStays == Spec => []ToldIsKept
<1>1. AgentInv => ToldIsKept
  BY DEF AgentInv, Kept, DatabaseKeeps, Placed, Serving, Whole, ToldIsKept
<1> QED BY <1>1, AgentInvariant, PTL

\* With no mutation pending an open store resolves a handle to what its file says,
\* so to what a recovery would restore (project_connection.go:260).
THEOREM ResolvesDurably == Spec => []ResolveIsDurable
<1>1. AgentInv => ResolveIsDurable
  BY DEF AgentInv, Durable, ResolveIsDurable
<1> QED BY <1>1, AgentInvariant, PTL

\* In the database and in both files every reversal takes back exactly one original
\* judgment, and no original is taken back twice: also after the files have been
\* restored, for any number of judgments (scoped_feedback.go).
THEOREM FeedbackIsBalanced == Spec => []FeedbackBalances
<1>1. AgentInv => FeedbackBalances
  BY DEF AgentInv, Balances
<1> QED BY <1>1, AgentInvariant, PTL

\* No database stands beside the log of another one, wherever a recovery was cut
\* between its renames and however often it was begun anew (recovery.go:738).
THEOREM NoLogIsForeign == Spec => []NoForeignLog
<1>1. AgentInv => NoForeignLog
  BY DEF AgentInv, Beside
<1> QED BY <1>1, AgentInvariant, PTL

\* A start gives up for one of five reasons only, wherever the last process died: in
\* particular never because a recovery no longer knows the files it began with, and
\* never because connections were adopted and their file is gone.
THEOREM RefusalsKnown == Spec => []RefusalsAreKnown
<1>1. AgentInv => RefusalsAreKnown
  BY DEF AgentInv
<1> QED BY <1>1, AgentInvariant, PTL
=============================================================================
