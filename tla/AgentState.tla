----------------------------- MODULE AgentState -----------------------------
(***************************************************************************)
(* What the agent state database of internal/agentstate holds, and what    *)
(* each of its operations makes of it.  Everything here is a value or a    *)
(* function of values: AgentRecovery has the files and the steps.          *)
(*                                                                         *)
(* The database has two halves.  The legacy half is a lens, the searches   *)
(* made with it and the judgments passed on them.  The scoped half is the  *)
(* scopes, their lenses and the agents, the searches made in a context,    *)
(* the feedback on them, and `root', the projection of the legacy half     *)
(* made when a database is first opened by a binary that knows scopes.     *)
(* Project connections bind a handle to a context.                         *)
(*                                                                         *)
(* Names, queries, scores and timestamps are left out, and a search has    *)
(* one candidate.  Effects are in quarters: an owner weighs 4, an agent 1. *)
(***************************************************************************)
EXTENDS Integers, FiniteSets

CONSTANTS
  Null,           \* an absent value
  Scopes, Lenses, Actors,
  ScopeOf,        \* the scope of each lens
  Runs,           \* the scoped searches
  Keys,           \* the idempotency keys of scoped feedback
  LegacyKeys,     \* the idempotency keys of legacy judgments
  Digests,        \* the handles of project connections
  Verdicts        \* who may judge and how: [actor, sign]

ASSUME AgentStateAssumption ==
  /\ ScopeOf \in [Lenses -> Scopes]
  /\ Verdicts \subseteq [actor : {"owner", "agent"}, sign : {1, -1}]
  /\ Null \notin Keys \cup LegacyKeys
  /\ Scopes \cap Lenses = {} /\ (Scopes \cup Lenses) \cap Actors = {}

Objects == Scopes \cup Lenses \cup Actors
Statuses == {"none", "active", "archived"}
Contexts == [lens : Lenses, actor : Actors]

Judges == {"owner", "agent"}
Effects == {4, -4, 1, -1}
Judgment(keys) == [actor : Judges, effect : Effects, reverses : keys \cup {Null}]
ScopedJudgments == [run : Runs, actor : Judges, effect : Effects,
                    reverses : Keys \cup {Null}]

Connections == [context : Contexts, status : {"active", "archived"}]

ASSUME ConnectionAssumption == Null \notin Connections

LegacyStates == [lens : BOOLEAN, run : BOOLEAN,
                 judgments : [LegacyKeys -> Judgment(LegacyKeys) \cup {Null}]]
RootStates == [present : BOOLEAN, lens : BOOLEAN, run : BOOLEAN,
               judgments : [LegacyKeys -> Judgment(LegacyKeys) \cup {Null}]]
ScopedStates == [status : [Objects -> Statuses],
                 runs : [Runs -> Contexts \cup {Null}],
                 feedback : [Keys -> ScopedJudgments \cup {Null}],
                 root : RootStates]
ConnectionStates == [Digests -> Connections \cup {Null}]

\* `meta' and `table' are the schema rows that say the scoped half and the
\* project connections have been initialised.
Databases == [legacy : LegacyStates, meta : BOOLEAN, scoped : ScopedStates,
              table : BOOLEAN, conns : ConnectionStates]

NoJudgments == [k \in LegacyKeys |-> Null]
EmptyScoped ==
  [status |-> [o \in Objects |-> "none"], runs |-> [r \in Runs |-> Null],
   feedback |-> [k \in Keys |-> Null],
   root |-> [present |-> FALSE, lens |-> FALSE, run |-> FALSE, judgments |-> NoJudgments]]
NoConnections == [d \in Digests |-> Null]
EmptyDatabase ==
  [legacy |-> [lens |-> FALSE, run |-> FALSE, judgments |-> NoJudgments],
   meta |-> FALSE, scoped |-> EmptyScoped, table |-> FALSE, conns |-> NoConnections]

-----------------------------------------------------------------------------
(* Contexts.                                                               *)

Active(s, c) ==
  s.status[ScopeOf[c.lens]] = "active" /\ s.status[c.lens] = "active" /\ s.status[c.actor] = "active"

\* An object is put as active; one that exists keeps its status.  A lens needs
\* an active scope.
MayPut(s, o) == s.status[ScopeOf[o]] = "active"
Put(s, o) == [s EXCEPT !.status[o] = IF @ = "none" THEN "active" ELSE @]

MayArchive(s, o) == s.status[o] # "none"
Archive(s, o) == [s EXCEPT !.status[o] = "archived"]

-----------------------------------------------------------------------------
(* Feedback.                                                               *)

Weight(actor) == IF actor = "owner" THEN 4 ELSE 1

\* An original judgment is on a saved search whose context is still active.
MayJudge(s, r) == s.runs[r] # Null /\ Active(s, s.runs[r])

Original(r, v) ==
  [run |-> r, actor |-> v.actor, effect |-> v.sign * Weight(v.actor), reverses |-> Null]

\* A judgment is reversed by who passed it, once, while its context is active;
\* what reverses cannot be reversed.
MayReverse(s, actor, j) ==
  /\ s.feedback[j] # Null /\ s.feedback[j].reverses = Null
  /\ s.feedback[j].actor = actor
  /\ \A k \in Keys : s.feedback[k] # Null => s.feedback[k].reverses # j
  /\ MayJudge(s, s.feedback[j].run)

Reversal(s, j) ==
  [run |-> s.feedback[j].run, actor |-> s.feedback[j].actor,
   effect |-> -s.feedback[j].effect, reverses |-> j]

\* Feedback balances when each reversal takes back exactly what an original
\* gave, and no original is taken back twice.
Balanced(f, keys) ==
  \A k \in keys : f[k] # Null /\ f[k].reverses # Null =>
    /\ f[f[k].reverses] # Null
    /\ f[f[k].reverses].reverses = Null
    /\ f[k].effect = -f[f[k].reverses].effect
    /\ \A j \in keys \ {k} : f[j] # Null => f[j].reverses # f[k].reverses

-----------------------------------------------------------------------------
(* The legacy half.  A judgment names a search, not a lens that exists; who *)
(* reverses it need not have passed it, and a unique index keeps it single. *)

MayReverseLegacy(l, j) ==
  /\ l.judgments[j] # Null /\ l.judgments[j].reverses = Null
  /\ \A k \in LegacyKeys : l.judgments[k] # Null => l.judgments[k].reverses # j

LegacyOriginal(v) == [actor |-> v.actor, effect |-> v.sign * Weight(v.actor), reverses |-> Null]
LegacyReversal(l, actor, j) ==
  [actor |-> actor, effect |-> -l.judgments[j].effect, reverses |-> j]

\* What the legacy recovery file keeps: lenses and judgments, no searches.
LegacySnapshot(l) == [lens |-> l.lens, judgments |-> l.judgments]
RestoredLegacy(f) == [lens |-> f.lens, run |-> FALSE, judgments |-> f.judgments]

\* The projection into the root scope: the lens if there is one, a search when a
\* judgment refers to it and the lens is there, and every judgment.
Projected(l, s) ==
  LET lens == s.root.lens \/ l.lens
      judged == \E k \in LegacyKeys : l.judgments[k] # Null
  IN [s EXCEPT !.root =
        [present |-> TRUE, lens |-> lens, run |-> s.root.run \/ (lens /\ judged),
         judgments |-> [k \in LegacyKeys |-> IF s.root.judgments[k] # Null
                                            THEN s.root.judgments[k] ELSE l.judgments[k]]]]

\* validateScopedRecoverySnapshot: every judgment has its search.
ValidScoped(s) == (\E k \in LegacyKeys : s.root.judgments[k] # Null) => s.root.run

\* Foreign keys of a project connection.
Refers(s, conns) ==
  \A d \in Digests : conns[d] # Null =>
    s.status[conns[d].context.lens] # "none" /\ s.status[conns[d].context.actor] # "none"

-----------------------------------------------------------------------------
(* Project connections.                                                    *)

MayBind(d, c, h) == Active(d.scoped, c) /\ d.conns[h] = Null
Bind(d, c, h) == [d EXCEPT !.conns[h] = [context |-> c, status |-> "active"]]
MayUnbind(d, h) == d.conns[h] # Null
Unbind(d, h) == [d EXCEPT !.conns[h].status = "archived"]

-----------------------------------------------------------------------------
(* What is kept of what was told.                                          *)

Passed(f, keys) == Cardinality({k \in keys : f[k] # Null})

Rank(status) == CASE status = "none" -> 0 [] status = "active" -> 1 [] status = "archived" -> 2

KeepsScoped(s, t) ==
  /\ \A o \in Objects : Rank(s.status[o]) >= Rank(t.status[o])
  /\ \A r \in Runs : t.runs[r] # Null => s.runs[r] = t.runs[r]
  /\ \A k \in Keys : t.feedback[k] # Null => s.feedback[k] = t.feedback[k]
  /\ \A k \in LegacyKeys : t.root.judgments[k] # Null => s.root.judgments[k] = t.root.judgments[k]
KeepsLegacy(l, t) == \A k \in LegacyKeys : t[k] # Null => l.judgments[k] = t[k]
KeepsConnections(c, t) ==
  \A d \in Digests : t[d] # Null =>
    c[d] # Null /\ c[d].context = t[d].context /\ (t[d].status = "archived" => c[d].status = "archived")
=============================================================================
