---------------------------- MODULE SemanticIndex ----------------------------
(***************************************************************************)
(* The semantic index of the local agent service: localservice/server.go   *)
(* starts a worker that embeds every document of the library, requests     *)
(* decide whether that index may be used, and agentretrieval/hybrid.go     *)
(* embeds on the way what a search finds missing.                          *)
(*                                                                         *)
(* The library is changed by other processes.  A document's embedding is   *)
(* stored under its id alone (agentstate/store.go: ON CONFLICT(document_id)*)
(* DO UPDATE), with the text it was made of: a legacy and a compact search *)
(* give the same record different texts.  A text is its kind and the       *)
(* version of the library that wrote the document.                         *)
(***************************************************************************)
EXTENDS Integers, FiniteSets

CONSTANTS
    Docs,         \* documents of the library
    Requests,     \* requests in flight at a time
    MaxWorkers,   \* index workers alive at a time, superseded ones included
    MaxChanges,   \* changes of the library
    MaxIndexFaults  \* outages of the embedding provider, failed reads and writes,
                    \* clients that leave, process deaths and orderly shutdowns

ASSUME SemanticAssumption ==
    /\ {MaxChanges, MaxIndexFaults} \subseteq Nat
    /\ MaxWorkers \in Nat \ {0}

VARIABLES
    library,      \* [fp, rev]: its fingerprint, the version of each document
    provider,     \* is the embedding provider up
    embeddings,   \* the text each document's stored embedding is of, or None
    indexed,      \* the fingerprint recorded as indexed, 0 for none
    status,       \* semanticIndex: its State and LibraryFingerprint
    current,      \* the worker of the latest generation
    cancellable,  \* semanticCancel # nil
    closing,      \* semanticClosing
    work,         \* the phase of each worker
    expected,     \* the fingerprint it indexes
    missing,      \* the documents it has yet to embed, each with its text
    cancelled,    \* its context is cancelled
    request,      \* the phase of each request
    asked,        \* what each request has read
    proven,       \* the fingerprints whose documents a worker of this process
                  \* has all found or embedded
    indexFaults

store == <<library, provider, embeddings, indexed>>
index == <<status, current, cancellable, closing>>
worker == <<work, expected, missing, cancelled, proven>>
agents == <<request, asked>>
indexVars == <<store, index, worker, agents, indexFaults>>

Workers == 1..MaxWorkers
NoText == <<"none", 0>>
Kinds == {"compact", "legacy"}
Revisions == 0..MaxChanges
Texts == (Kinds \X Revisions) \cup {NoText}

\* The documents of the library as they are now, and those of a snapshot with
\* no embedding of the text they have in it.
Documents(kind) == {<<d, <<kind, library.rev[d]>>>> : d \in Docs}
Missing(snapshot) == {doc \in snapshot : embeddings[doc[1]] # doc[2]}

Unread == [fp |-> 0, indexed |-> 0, missing |-> {}]

IndexInit ==
    /\ library = [fp |-> 1, rev |-> [d \in Docs |-> 0]]
    /\ provider = TRUE /\ indexFaults = 0
    /\ embeddings = [d \in Docs |-> NoText] /\ indexed = 0
    /\ status = [state |-> "stale", of |-> 0]
    /\ current = 1 /\ cancellable = FALSE /\ closing = FALSE
    /\ work = [w \in Workers |-> "free"] /\ expected = [w \in Workers |-> 0]
    /\ missing = [w \in Workers |-> {}] /\ cancelled = [w \in Workers |-> FALSE]
    /\ request = [r \in Requests |-> "idle"] /\ asked = [r \in Requests |-> Unread]
    /\ proven = {}

Fault == indexFaults < MaxIndexFaults /\ indexFaults' = indexFaults + 1

-----------------------------------------------------------------------------
(* The surroundings: other processes' imports, the provider, the process.  *)

LibraryChanges(d) ==
    /\ library.fp <= MaxChanges
    /\ library' = [fp |-> library.fp + 1, rev |-> [library.rev EXCEPT ![d] = library.fp]]
    /\ UNCHANGED <<provider, embeddings, indexed, index, worker, agents, indexFaults>>

ProviderDown ==
    /\ provider /\ Fault
    /\ provider' = FALSE
    /\ UNCHANGED <<library, embeddings, indexed, index, worker, agents>>

ProviderUp ==
    /\ ~provider /\ provider' = TRUE
    /\ UNCHANGED <<library, embeddings, indexed, index, worker, agents, indexFaults>>

\* A new process: the state database stays, the status starts as stale.
StartsAnew ==
    /\ status' = [state |-> "stale", of |-> 0]
    /\ cancellable' = FALSE /\ closing' = FALSE
    /\ work' = [w \in Workers |-> "free"] /\ cancelled' = [w \in Workers |-> FALSE]
    /\ missing' = [w \in Workers |-> {}] /\ expected' = [w \in Workers |-> 0]
    /\ request' = [r \in Requests |-> "idle"] /\ asked' = [r \in Requests |-> Unread]
    /\ proven' = {}
    /\ UNCHANGED <<store, current>>

ProcessDies == Fault /\ StartsAnew

\* Close cancels the worker of the latest generation and waits for it and for
\* the requests in flight; workers of older generations die with the process.
Close ==
    /\ ~closing /\ Fault
    /\ closing' = TRUE
    /\ cancelled' = IF cancellable THEN [cancelled EXCEPT ![current] = TRUE] ELSE cancelled
    /\ UNCHANGED <<store, status, current, cancellable, work, expected, missing, proven, agents>>

Closed ==
    /\ closing
    /\ work[current] = "free"
    /\ \A r \in Requests : request[r] = "idle"
    /\ StartsAnew
    /\ UNCHANGED indexFaults

-----------------------------------------------------------------------------
(* A request: ensureSemanticIndex, then a search or a status report.       *)

\* A service that closes takes no new request; one it took before goes on.
Asks(r) ==
    /\ request[r] = "idle" /\ ~closing
    /\ asked' = [asked EXCEPT ![r].fp = library.fp]
    /\ request' = [request EXCEPT ![r] = "state"]
    /\ UNCHANGED <<store, index, worker, indexFaults>>

\* ensureSemanticIndex returns; what the request has read is forgotten.
Decided(r) ==
    /\ request' = [request EXCEPT ![r] = "choose"]
    /\ asked' = [asked EXCEPT ![r] = Unread]

\* The library or the state cannot be read: setSemanticUnavailable.
Unavailable(r) ==
    /\ request[r] = "state" /\ Fault
    /\ status' = [status EXCEPT !.state = "unavailable"]
    /\ Decided(r)
    /\ UNCHANGED <<store, current, cancellable, closing, worker>>

ReadsState(r) ==
    /\ request[r] = "state"
    /\ asked' = [asked EXCEPT ![r].indexed = indexed]
    /\ request' = [request EXCEPT ![r] = "decide"]
    /\ UNCHANGED <<store, index, worker, indexFaults>>

IsBuilding(fp) == status.state = "building" /\ status.of = fp

\* Mutant: an index once ready is ready for every library.
IsReadyForever(fp, recorded) == status.state = "ready"
IsReady(fp, recorded) == status.state = "ready" /\ recorded = fp

Keeps(r) ==
    /\ request[r] = "decide"
    /\ closing \/ IsBuilding(asked[r].fp) \/ IsReady(asked[r].fp, asked[r].indexed)
    /\ Decided(r)
    /\ UNCHANGED <<store, index, worker, indexFaults>>

\* The slot of a new worker; slots are only names, the first free one is taken.
FreeSlot(w) == work[w] = "free" /\ \A v \in 1..w - 1 : work[v] # "free"

\* The worker at work is cancelled and one of a new generation is started.
StartsWorker(r, w) ==
    /\ request[r] = "decide"
    /\ ~closing /\ ~IsBuilding(asked[r].fp) /\ ~IsReady(asked[r].fp, asked[r].indexed)
    /\ FreeSlot(w)
    /\ status' = [state |-> "building", of |-> asked[r].fp]
    /\ current' = w /\ cancellable' = TRUE
    /\ work' = [work EXCEPT ![w] = "load"]
    /\ expected' = [expected EXCEPT ![w] = asked[r].fp]
    /\ missing' = [missing EXCEPT ![w] = {}]
    /\ cancelled' = [v \in Workers |-> IF v = w THEN FALSE
                                       ELSE IF cancellable /\ v = current THEN TRUE
                                       ELSE cancelled[v]]
    /\ Decided(r)
    /\ UNCHANGED <<store, closing, proven, indexFaults>>

Answers(r) ==
    /\ request' = [request EXCEPT ![r] = "idle"]
    /\ asked' = [asked EXCEPT ![r] = Unread]

\* retrievalBackend takes the status as it is now; the search then loads the
\* library.  Without a ready index it is lexical and touches nothing here.
Chooses(r, kind) ==
    /\ request[r] = "choose"
    /\ IF status.state = "ready"
       THEN /\ request' = [request EXCEPT ![r] = "lookup"]
            /\ asked' = [asked EXCEPT ![r] = [Unread EXCEPT !.missing = Documents(kind)]]
       ELSE Answers(r)
    /\ UNCHANGED <<store, index, worker, indexFaults>>

LooksUp(r) ==
    /\ request[r] = "lookup"
    /\ asked' = [asked EXCEPT ![r].missing = Missing(@)]
    /\ request' = [request EXCEPT ![r] = "embed"]
    /\ UNCHANGED <<store, index, worker, indexFaults>>

\* Hybrid retrieval embeds what is missing and the query; a provider that is
\* down makes it lexical.
Embeds(r) ==
    /\ request[r] = "embed"
    /\ IF provider /\ asked[r].missing # {}
       THEN request' = [request EXCEPT ![r] = "save"] /\ UNCHANGED asked
       ELSE Answers(r)
    /\ UNCHANGED <<store, index, worker, indexFaults>>

Save(doc) ==
    /\ embeddings' = [embeddings EXCEPT ![doc[1]] = doc[2]]
    /\ UNCHANGED <<library, provider, indexed>>

Saves(r) ==
    /\ request[r] = "save"
    /\ \E doc \in asked[r].missing :
          /\ Save(doc)
          /\ IF asked[r].missing = {doc} THEN Answers(r)
             ELSE /\ asked' = [asked EXCEPT ![r].missing = @ \ {doc}]
                  /\ UNCHANGED request
    /\ UNCHANGED <<index, worker, indexFaults>>

\* The client is gone: the request's context is cancelled.
Leaves(r) ==
    /\ request[r] \in {"lookup", "embed", "save"} /\ Fault
    /\ Answers(r)
    /\ UNCHANGED <<store, index, worker>>

-----------------------------------------------------------------------------
(* A worker: prepareSemanticIndex.                                         *)

Moves(w, phase) == work' = [work EXCEPT ![w] = phase]

\* A failed call of a worker whose context is cancelled ends it as stale.
Fails(w) == Moves(w, IF cancelled[w] THEN "stale" ELSE "unavailable")

\* The snapshot's fingerprint is compared with the one the worker is for.
WorkerLoads(w) ==
    /\ work[w] = "load"
    /\ IF library.fp = expected[w]
       THEN /\ Moves(w, "lookup")
            /\ missing' = [missing EXCEPT ![w] = Documents("compact")]
            /\ UNCHANGED expected
       ELSE /\ Moves(w, "stale")
            /\ expected' = [expected EXCEPT ![w] = library.fp]
            /\ UNCHANGED missing
    /\ UNCHANGED <<store, index, cancelled, proven, agents, indexFaults>>

\* A read or a write of the library or of the state fails.
WorkerMeetsAnError(w) ==
    /\ Fault
    /\ \/ work[w] \in {"load", "record"} /\ Moves(w, "unavailable")
       \/ work[w] \in {"lookup", "save"} /\ Fails(w)
       \/ work[w] = "check" /\ Moves(w, "stale")
    /\ UNCHANGED <<store, index, expected, missing, cancelled, proven, agents>>

\* Every document has an embedding of its text, or has just been given one.
Proves(w) == proven' = proven \cup {expected[w]}

WorkerLooksUp(w) ==
    /\ work[w] = "lookup"
    /\ IF cancelled[w] THEN Moves(w, "stale") /\ UNCHANGED <<missing, proven>>
       ELSE /\ missing' = [missing EXCEPT ![w] = Missing(@)]
            /\ IF Missing(missing[w]) = {} THEN Moves(w, "warm") /\ Proves(w)
               ELSE Moves(w, "embed") /\ UNCHANGED proven
    /\ UNCHANGED <<store, index, expected, cancelled, agents, indexFaults>>

CanEmbed(w) == provider /\ ~cancelled[w]

\* Mutant: documents the provider does not embed are passed over.
WorkerEmbedsWhatItCan(w) ==
    /\ work[w] = "embed"
    /\ Moves(w, IF CanEmbed(w) THEN "save" ELSE "warm")
    /\ UNCHANGED <<store, index, expected, missing, cancelled, proven, agents, indexFaults>>

WorkerEmbeds(w) ==
    /\ work[w] = "embed"
    /\ IF CanEmbed(w) THEN Moves(w, "save") ELSE Fails(w)
    /\ UNCHANGED <<store, index, expected, missing, cancelled, proven, agents, indexFaults>>

WorkerSaves(w) ==
    /\ work[w] = "save" /\ ~cancelled[w]
    /\ \E doc \in missing[w] :
          /\ Save(doc)
          /\ missing' = [missing EXCEPT ![w] = @ \ {doc}]
          /\ IF missing[w] = {doc} THEN Moves(w, "warm") /\ Proves(w)
             ELSE UNCHANGED <<work, proven>>
    /\ UNCHANGED <<index, expected, cancelled, agents, indexFaults>>

WorkerCannotSave(w) ==
    /\ work[w] = "save" /\ cancelled[w]
    /\ Fails(w)
    /\ UNCHANGED <<store, index, expected, missing, cancelled, proven, agents, indexFaults>>

\* The path of a query is tried before the index is called ready.
WorkerWarms(w) ==
    /\ work[w] = "warm"
    /\ IF CanEmbed(w) THEN Moves(w, "check") ELSE Fails(w)
    /\ UNCHANGED <<store, index, expected, missing, cancelled, proven, agents, indexFaults>>

WorkerChecks(w) ==
    /\ work[w] = "check"
    /\ Moves(w, IF library.fp = expected[w] THEN "record" ELSE "stale")
    /\ UNCHANGED <<store, index, expected, missing, cancelled, proven, agents, indexFaults>>

WorkerRecords(w) ==
    /\ work[w] = "record"
    /\ indexed' = IF cancelled[w] THEN indexed ELSE expected[w]
    /\ Moves(w, IF cancelled[w] THEN "unavailable" ELSE "ready")
    /\ UNCHANGED <<library, provider, embeddings>>
    /\ UNCHANGED <<index, expected, missing, cancelled, proven, agents, indexFaults>>

Ends(w) == work[w] \in {"stale", "unavailable", "ready"}

\* Mutant: a superseded worker reports as the current one.
IsCurrentAnyway(w) == TRUE
IsCurrent(w) == w = current

\* finishSemanticIndex: only the latest generation is heard.
WorkerFinishes(w) ==
    /\ Ends(w)
    /\ Moves(w, "free")
    /\ missing' = [missing EXCEPT ![w] = {}]
    /\ expected' = [expected EXCEPT ![w] = 0] /\ cancelled' = [cancelled EXCEPT ![w] = FALSE]
    /\ IF IsCurrent(w)
       THEN status' = [state |-> work[w], of |-> expected[w]] /\ cancellable' = FALSE
       ELSE UNCHANGED <<status, cancellable>>
    /\ UNCHANGED <<store, current, closing, proven, agents, indexFaults>>

WorkerStep(w) ==
    \/ WorkerLoads(w) \/ WorkerLooksUp(w)
    \/ WorkerEmbeds(w) \/ WorkerSaves(w) \/ WorkerCannotSave(w)
    \/ WorkerWarms(w) \/ WorkerChecks(w) \/ WorkerRecords(w) \/ WorkerFinishes(w)

RequestStep(r) ==
    \/ ReadsState(r) \/ Keeps(r)
    \/ \E w \in Workers : StartsWorker(r, w)
    \/ \E kind \in Kinds : Chooses(r, kind)
    \/ LooksUp(r) \/ Embeds(r) \/ Saves(r)

IndexNext ==
    \/ \E d \in Docs : LibraryChanges(d)
    \/ ProviderDown \/ ProviderUp
    \/ ProcessDies \/ Close \/ Closed
    \/ \E r \in Requests : Asks(r) \/ Unavailable(r) \/ RequestStep(r) \/ Leaves(r)
    \/ \E w \in Workers : WorkerStep(w) \/ WorkerMeetsAnError(w)

\* Goroutines are scheduled, agents keep asking, a shutdown ends in a new
\* process and a provider that is down comes back.
Fairness ==
    /\ \A w \in Workers : WF_indexVars(WorkerStep(w))
    /\ \A r \in Requests : WF_indexVars(RequestStep(r)) /\ WF_indexVars(Asks(r))
    /\ WF_indexVars(Closed) /\ WF_indexVars(ProviderUp)

IndexSpec == IndexInit /\ [][IndexNext]_indexVars /\ Fairness
-----------------------------------------------------------------------------
Ending == {"stale", "unavailable", "ready"}

TypeOK ==
    /\ library \in [fp : 1..MaxChanges + 1, rev : [Docs -> Revisions]]
    /\ provider \in BOOLEAN
    /\ embeddings \in [Docs -> Texts] /\ indexed \in 0..MaxChanges + 1
    /\ status \in [state : Ending \cup {"building"}, of : 0..MaxChanges + 1]
    /\ current \in Workers /\ cancellable \in BOOLEAN /\ closing \in BOOLEAN
    /\ work \in [Workers -> Ending \cup
            {"free", "load", "lookup", "embed", "save", "warm", "check", "record"}]
    /\ expected \in [Workers -> 0..MaxChanges + 1]
    /\ missing \in [Workers -> SUBSET (Docs \X Texts)]
    /\ cancelled \in [Workers -> BOOLEAN]
    /\ request \in [Requests -> {"idle", "state", "decide", "choose", "lookup", "embed", "save"}]
    /\ asked \in [Requests -> [fp : 0..MaxChanges + 1, indexed : 0..MaxChanges + 1,
                               missing : SUBSET (Docs \X Texts)]]
    /\ proven \subseteq 1..MaxChanges + 1
    /\ indexFaults \in 0..MaxIndexFaults

\* An index is called ready only for a library every document of which this
\* process has found or embedded: a fingerprint an older process recorded, a
\* provider that fails halfway, and the late end of a superseded worker are
\* no proof (server.go: "Recheck the cache once per service lifetime").
ReadyIsProven == status.state = "ready" => status.of \in proven

\* While the index is building, the worker of the latest generation is at work
\* on the library the status names, and every other worker is cancelled: two
\* requests that both find the index stale never leave two workers running,
\* and no worker is lost that the status waits for.
OneWorkerAtWork ==
    /\ status.state = "building" /\ ~closing =>
          /\ work[current] # "free" /\ ~cancelled[current]
          /\ work[current] # "stale" => expected[current] = status.of
    /\ \A w \in Workers \ {current} : work[w] # "free" => cancelled[w]

\* Once the library and the provider are left alone, requests bring the index
\* to the library as it is and keep it there: no state of it is a dead end,
\* and requests with old readings do not restart its worker for ever.
BecomesReady ==
    <>[](status.state = "ready" /\ status.of = library.fp /\ indexed = library.fp)

\* "Recheck the cache once per service lifetime [...] without proving every
\* current document was embedded" (server.go:360): a ready index of the current
\* library holds the embedding of every document.  It does not: a legacy search
\* stores the embedding of its own text of a record under the same id.
ReadyIsEmbedded ==
    status.state = "ready" /\ status.of = library.fp => Missing(Documents("compact")) = {}
=============================================================================
