----------------------------- MODULE ContextLane -----------------------------
(* Queries over the published map: DecisionScope.observe and its sessions     *)
(* (decision_session.py), the outline and the context pack that run inside    *)
(* them, the context cache on disk, and the bounded retry around them.        *)
(*                                                                            *)
(* A reader is a process; the gate of the MCP surface lets one of its         *)
(* operations run at a time.  The map is that of one source file: its row     *)
(* stands for all rows a query reads, its version for their content.  Every   *)
(* statement of a reader sees the last committed publication (WAL), so a      *)
(* publication of another process may fall between any two of them.           *)
EXTENDS Naturals, Sequences

CONSTANTS
    Readers,      \* the processes that query one workspace's map
    Cleared,      \* the content of the map after `map clean`
    NoAnswer,     \* the reader has no answer
    None,         \* no generation, no cached value
    MaxRetries,   \* attempts the retry budget leaves after a first race
    MaxEdits,     \* bound of the model: edits of the source file
    MaxForeign    \* bound of the model: generations after which others are quiet

ASSUME NoneAssumption ==
    /\ None \notin Nat /\ Cleared \notin Nat /\ NoAnswer \notin Nat
    /\ None # Cleared
ASSUME BoundsAssumption ==
    MaxRetries \in Nat /\ MaxEdits \in Nat /\ MaxForeign \in Nat

VARIABLES
    disk,       \* the version of the source file
    gen,        \* meta.generation of the workspace store
    row,        \* the version the published rows describe
    log,        \* history: what each generation published
    index,      \* context_cache rows: <<generation, declarations, result>>
    cas,        \* the results whose bytes are in the context CAS
    pc,         \* where each reader is
    op,         \* the operation it runs
    sgen,       \* DecisionScope._generation
    edges,      \* DecisionScope._edges_from_cache
    expected,   \* expected_generation of observe
    refreshed,  \* the path is in observe's refreshed set
    meta,       \* _ContextPackMetadata.generation
    decls,      \* the declarations read: outline text, or the hits of find
    deps,       \* the relations read: symbols, or dependency items
    tries,      \* retries used
    answer,     \* the answer the reader has been given
    started,    \* history: the version on disk when the request arrived
    began,      \* history: the generation of the attempt's first session
    own         \* history: the publications the attempt made itself

store    == <<gen, row, log>>
cache    == <<index, cas>>
scope    == <<sgen, edges, expected, refreshed>>
read     == <<meta, decls, deps>>
history  == <<started, began, own>>
vars     == <<disk, store, cache, pc, op, scope, read, tries, answer, history>>

Versions == Nat \cup {Cleared}
PCs == {"idle", "begin", "check", "outline", "symbols", "find", "hits",
        "found", "meta", "lookup", "items", "put", "row", "exit", "reconcile"}

Declarations(v) == IF v = Cleared THEN Cleared ELSE v \div 2

StoreTypeOK ==
    /\ disk \in Nat /\ gen \in Nat /\ row \in Versions /\ log \in Seq(Versions)
    /\ index \subseteq Nat \X Versions \X Versions /\ cas \subseteq Versions

ScopeTypeOK ==
    /\ pc \in [Readers -> PCs] /\ op \in [Readers -> {"outline", "context"}]
    /\ sgen \in [Readers -> Nat \cup {None}]
    /\ edges \in [Readers -> Versions \cup {None}]
    /\ expected \in [Readers -> Nat \cup {None}]
    /\ refreshed \in [Readers -> BOOLEAN]

ReadTypeOK ==
    /\ meta \in [Readers -> Nat] /\ decls \in [Readers -> Versions]
    /\ deps \in [Readers -> Versions] /\ tries \in [Readers -> 0..MaxRetries]

Answers == [kind : {"outline", "context"}, gen : Nat, decls : Versions, deps : Versions]

HistoryTypeOK ==
    /\ answer \in [Readers -> Answers \cup {NoAnswer}]
    /\ started \in [Readers -> Nat] /\ began \in [Readers -> Nat]
    /\ own \in [Readers -> Nat]

TypeOK == StoreTypeOK /\ ScopeTypeOK /\ ReadTypeOK /\ HistoryTypeOK

Init ==
    /\ disk = 0 /\ gen = 1 /\ row = 0 /\ log = <<0>>
    /\ index = {} /\ cas = {}
    /\ pc = [r \in Readers |-> "idle"] /\ op = [r \in Readers |-> "outline"]
    /\ sgen = [r \in Readers |-> None] /\ edges = [r \in Readers |-> None]
    /\ expected = [r \in Readers |-> None]
    /\ refreshed = [r \in Readers |-> FALSE]
    /\ meta = [r \in Readers |-> 0] /\ decls = [r \in Readers |-> 0]
    /\ deps = [r \in Readers |-> 0] /\ tries = [r \in Readers |-> 0]
    /\ answer = [r \in Readers |-> NoAnswer]
    /\ started = [r \in Readers |-> 0] /\ began = [r \in Readers |-> 0]
    /\ own = [r \in Readers |-> 0]

-----------------------------------------------------------------------------
(* The map's writers.  A publication is one transaction: rows and generation  *)
(* become visible together, and a transaction that ends early changes nothing.*)

Publish(v) == gen' = gen + 1 /\ row' = v /\ log' = Append(log, v)

Edit ==
    /\ disk < MaxEdits /\ disk' = disk + 1
    /\ UNCHANGED <<store, cache, pc, op, scope, read, tries, answer, history>>

\* Another process (a sync, a watch) publishes the version it read, which may
\* be older than the file is when it commits.
ForeignSync ==
    /\ gen < MaxForeign
    /\ \E v \in 0..disk : v # row /\ Publish(v)
    /\ UNCHANGED <<disk, cache, pc, op, scope, read, tries, answer, history>>

\* `map clean` advances the generation and keeps its counter.
ForeignClean ==
    /\ gen < MaxForeign /\ row # Cleared /\ Publish(Cleared)
    /\ UNCHANGED <<disk, cache, pc, op, scope, read, tries, answer, history>>

\* The object of a cached result is removed from the CAS by someone else.
LoseObject ==
    /\ \E v \in cas : cas' = cas \ {v}
    /\ UNCHANGED <<disk, store, index, pc, op, scope, read, tries, answer, history>>
-----------------------------------------------------------------------------
(* One operation of a reader.                                                 *)

Goto(r, label) == pc' = [pc EXCEPT ![r] = label]

At(r, label) == pc[r] = label

\* _finish_decision_session: the scope is unbound, what was read is dropped.
Finished(r) ==
    /\ sgen' = [sgen EXCEPT ![r] = None] /\ edges' = [edges EXCEPT ![r] = None]
    /\ meta' = [meta EXCEPT ![r] = 0] /\ decls' = [decls EXCEPT ![r] = 0]
    /\ deps' = [deps EXCEPT ![r] = 0]

\* Mutant of Raise: the budget is looked at after the retry.
RaiseLate(r) ==
    /\ Goto(r, IF tries[r] <= MaxRetries THEN "begin" ELSE "idle")
    /\ tries' = [tries EXCEPT ![r] = IF @ <= MaxRetries THEN @ + 1 ELSE @]
    /\ expected' = [expected EXCEPT ![r] = None]
    /\ refreshed' = [refreshed EXCEPT ![r] = FALSE]
    /\ own' = [own EXCEPT ![r] = 0]
    /\ Finished(r)
    /\ UNCHANGED <<op, answer, started, began>>

\* A race the retry recognises: the whole operation runs again from scratch
\* while the budget lasts, then the caller is told.
Raise(r) ==
    /\ Goto(r, IF tries[r] < MaxRetries THEN "begin" ELSE "idle")
    /\ tries' = [tries EXCEPT ![r] = IF @ < MaxRetries THEN @ + 1 ELSE @]
    /\ expected' = [expected EXCEPT ![r] = None]
    /\ refreshed' = [refreshed EXCEPT ![r] = FALSE]
    /\ own' = [own EXCEPT ![r] = 0]
    /\ Finished(r)
    /\ UNCHANGED <<op, answer, started, began>>

Unmoved(r) == gen = sgen[r]

Start(r) ==
    /\ At(r, "idle") /\ Goto(r, "begin")
    /\ \E o \in {"outline", "context"} : op' = [op EXCEPT ![r] = o]
    /\ tries' = [tries EXCEPT ![r] = 0] /\ own' = [own EXCEPT ![r] = 0]
    /\ expected' = [expected EXCEPT ![r] = None]
    /\ refreshed' = [refreshed EXCEPT ![r] = FALSE]
    /\ answer' = [answer EXCEPT ![r] = NoAnswer]
    /\ started' = [started EXCEPT ![r] = disk] /\ began' = [began EXCEPT ![r] = 0]
    /\ UNCHANGED <<disk, store, cache, sgen, edges, read>>

\* ensure_ready syncs a map that has no files; then the session binds the
\* generation it finds, unless observe expected another one.
Opened(r, g) ==
    /\ Goto(r, IF op[r] = "outline" THEN "check" ELSE "find")
    /\ sgen' = [sgen EXCEPT ![r] = g] /\ edges' = [edges EXCEPT ![r] = None]
    /\ expected' = [expected EXCEPT ![r] = g]
    /\ began' = [began EXCEPT ![r] = IF expected[r] = None THEN g ELSE @]
    /\ UNCHANGED <<op, refreshed, read, tries, answer, started, own>>

\* Mutant of Begin: the session is bound to whatever generation it finds.
BeginAdopting(r) ==
    /\ At(r, "begin")
    /\ IF row = Cleared THEN Publish(disk) ELSE UNCHANGED store
    /\ Opened(r, gen')
    /\ UNCHANGED <<disk, cache>>

Begin(r) ==
    /\ At(r, "begin")
    /\ IF row = Cleared THEN Publish(disk) ELSE UNCHANGED store
    /\ IF expected[r] \in {None, gen'} THEN Opened(r, gen') ELSE Raise(r)
    /\ UNCHANGED <<disk, cache>>

\* Mutant of CheckCurrent: an indexed path counts as current.
CheckIndexed(r) ==
    /\ At(r, "check")
    /\ \/ row # Cleared /\ Goto(r, "outline") /\ UNCHANGED <<sgen, edges, read>>
       \/ row = Cleared /\ Goto(r, "reconcile") /\ Finished(r)
    /\ UNCHANGED <<disk, store, cache, op, expected, refreshed, tries, answer, history>>

\* ensure_current: the row is compared with the file.  A session that needs a
\* refresh is abandoned, and its generation stays the expected one.
CheckCurrent(r) ==
    /\ At(r, "check")
    /\ \/ row = disk /\ Goto(r, "outline") /\ UNCHANGED <<sgen, edges, read>>
       \/ row # disk /\ Goto(r, "reconcile") /\ Finished(r)
    /\ UNCHANGED <<disk, store, cache, op, expected, refreshed, tries, answer, history>>

\* _reconcile_member, outside the session: once per path and request, and only
\* over the generation the abandoned session was bound to.
Reconcile(r) ==
    /\ At(r, "reconcile")
    /\ IF refreshed[r] \/ gen # expected[r]
       THEN Raise(r) /\ UNCHANGED store
       ELSE /\ IF row = disk THEN UNCHANGED store ELSE Publish(disk)
            /\ expected' = [expected EXCEPT ![r] = gen']
            /\ own' = [own EXCEPT ![r] = IF row = disk THEN @ ELSE @ + 1]
            /\ refreshed' = [refreshed EXCEPT ![r] = TRUE] /\ Goto(r, "begin")
            /\ UNCHANGED <<op, sgen, edges, read, tries, answer, started, began>>
    /\ UNCHANGED <<disk, cache>>

\* The outline's text; a path that is not indexed is an error of its own kind,
\* which no retry takes up.
ReadOutline(r) ==
    /\ At(r, "outline")
    /\ \/ row = Cleared /\ Goto(r, "idle") /\ Finished(r)
       \/ /\ row # Cleared /\ Goto(r, "symbols")
          /\ decls' = [decls EXCEPT ![r] = Declarations(row)]
          /\ UNCHANGED <<sgen, edges, meta, deps>>
    /\ UNCHANGED <<disk, store, cache, op, expected, refreshed, tries, answer, history>>

ReadSymbols(r) ==
    /\ At(r, "symbols") /\ Goto(r, "exit")
    /\ deps' = [deps EXCEPT ![r] = row]
    /\ UNCHANGED <<disk, store, cache, op, scope, meta, decls, tries, answer, history>>

\* find is a session within the session: it compares the generations, reads the
\* hits, leaving in the scope the relations of the seeds it looked at, and
\* compares again.
Find(r) ==
    /\ At(r, "find")
    /\ IF Unmoved(r)
       THEN Goto(r, "hits")
            /\ UNCHANGED <<op, scope, read, tries, answer, history>>
       ELSE Raise(r)
    /\ UNCHANGED <<disk, store, cache>>

ReadHits(r) ==
    /\ At(r, "hits") /\ Goto(r, "found")
    /\ decls' = [decls EXCEPT ![r] = Declarations(row)]
    /\ \E c \in {row, None} : edges' = [edges EXCEPT ![r] = c]
    /\ UNCHANGED <<disk, store, cache, op, sgen, expected, refreshed, meta, deps,
                   tries, answer, history>>

Found(r) ==
    /\ At(r, "found")
    /\ IF Unmoved(r)
       THEN Goto(r, "meta")
            /\ UNCHANGED <<op, scope, read, tries, answer, history>>
       ELSE Raise(r)
    /\ UNCHANGED <<disk, store, cache>>

\* generation_status reads the store's generation, not the scope's.
ReadMeta(r) ==
    /\ At(r, "meta") /\ Goto(r, "lookup")
    /\ meta' = [meta EXCEPT ![r] = gen]
    /\ UNCHANGED <<disk, store, cache, op, scope, decls, deps, tries, answer, history>>

Entries(r) == {e \in index : e[1] = meta[r] /\ e[2] = decls[r]}

\* Mutant of Lookup: a row whose object is missing is kept and asked again.
LookupAgain(r) ==
    /\ At(r, "lookup")
    /\ \/ \E e \in Entries(r) :
            /\ e[3] \in cas /\ Goto(r, "exit")
            /\ deps' = [deps EXCEPT ![r] = e[3]]
       \/ Entries(r) = {} /\ Goto(r, "items") /\ UNCHANGED deps
    /\ UNCHANGED <<disk, store, cache, op, scope, meta, decls, tries, answer, history>>

\* ContextCache.get: a row whose object is missing is dropped.
Lookup(r) ==
    /\ At(r, "lookup")
    /\ \/ \E e \in Entries(r) :
            /\ e[3] \in cas /\ Goto(r, "exit")
            /\ deps' = [deps EXCEPT ![r] = e[3]] /\ UNCHANGED index
       \/ /\ \A e \in Entries(r) : e[3] \notin cas
          /\ index' = index \ Entries(r) /\ Goto(r, "items") /\ UNCHANGED deps
    /\ UNCHANGED <<disk, store, cas, op, scope, meta, decls, tries, answer, history>>

\* Relations the scope holds are reused, others are read from the store.
ReadItems(r) ==
    /\ At(r, "items") /\ Goto(r, "put")
    /\ deps' = [deps EXCEPT ![r] = IF edges[r] = None THEN row ELSE edges[r]]
    /\ UNCHANGED <<disk, store, cache, op, scope, meta, decls, tries, answer, history>>

PutObject(r) ==
    /\ At(r, "put") /\ Goto(r, "row")
    /\ cas' = cas \cup {deps[r]}
    /\ UNCHANGED <<disk, store, index, op, scope, read, tries, answer, history>>

\* Mutant of PutRow: the row is keyed by the generation of the moment.
PutRowNow(r) ==
    /\ At(r, "row") /\ Goto(r, "exit")
    /\ index' = index \cup {<<gen, decls[r], deps[r]>>}
    /\ UNCHANGED <<disk, store, cas, op, scope, read, tries, answer, history>>

PutRow(r) ==
    /\ At(r, "row") /\ Goto(r, "exit")
    /\ index' = (index \ Entries(r)) \cup {<<meta[r], decls[r], deps[r]>>}
    /\ UNCHANGED <<disk, store, cas, op, scope, read, tries, answer, history>>

\* Mutant of Exit: the generation is not asked for again.
ExitUnchecked(r) ==
    /\ At(r, "exit")
    /\ answer' = [answer EXCEPT ![r] =
           [kind |-> op[r], gen |-> gen, decls |-> decls[r], deps |-> deps[r]]]
    /\ Goto(r, "idle") /\ Finished(r)
    /\ UNCHANGED <<disk, store, cache, op, expected, refreshed, tries, history>>

\* The session ends: its reads count only if the generation has not moved.
Exit(r) ==
    /\ At(r, "exit")
    /\ IF Unmoved(r)
       THEN /\ answer' = [answer EXCEPT ![r] =
                 [kind |-> op[r], gen |-> gen, decls |-> decls[r], deps |-> deps[r]]]
            /\ Goto(r, "idle") /\ Finished(r)
            /\ UNCHANGED <<op, expected, refreshed, tries, history>>
       ELSE Raise(r)
    /\ UNCHANGED <<disk, store, cache>>

\* The process ends; what it has put into the cache stays.
Crash(r) ==
    /\ ~At(r, "idle") /\ Goto(r, "idle") /\ Finished(r)
    /\ UNCHANGED <<disk, store, cache, op, expected, refreshed, tries, answer, history>>
-----------------------------------------------------------------------------
Step(r) ==
    \/ Begin(r) \/ CheckCurrent(r) \/ Reconcile(r) \/ ReadOutline(r)
    \/ ReadSymbols(r) \/ Find(r) \/ ReadHits(r) \/ Found(r) \/ ReadMeta(r)
    \/ Lookup(r) \/ ReadItems(r) \/ PutObject(r) \/ PutRow(r) \/ Exit(r)

World == Edit \/ ForeignSync \/ ForeignClean \/ LoseObject

Next == World \/ \E r \in Readers : Start(r) \/ Step(r) \/ Crash(r)

Spec == Init /\ [][Next]_vars

\* A reader that runs is scheduled; nobody has to edit, sync or ask.
FairSpec == Spec /\ \A r \in Readers : WF_vars(Step(r))
-----------------------------------------------------------------------------
(* What makes the queries correct.                                            *)

Answering(r) == answer[r] = NoAnswer /\ answer'[r] # NoAnswer

Outlining == {"check", "outline", "symbols"}
Packing   == {"find", "hits", "found", "meta", "lookup", "items", "put", "row"}
Keying    == {"meta", "lookup", "items", "put", "row", "exit"}
Inside    == Outlining \cup Packing \cup {"exit"}

\* The store's generation counts its publications and its rows are the last
\* one's, whoever published: nobody reuses a generation for other rows.
LogInv == gen = Len(log) /\ gen > 0 /\ row = log[gen]

\* Relations v may be shown for the declarations d under generation g: if that
\* is what the store holds, they are a publication's that declared the same.
Shared(g, d, v) ==
    g = gen /\ d = Declarations(row) =>
        Declarations(v) = d /\ \E n \in 1..gen : log[n] = v

EntryInv(e) == e[1] <= gen /\ Shared(e[1], e[2], e[3])

RequestInv(r) ==
    /\ pc[r] # "idle" => answer[r] = NoAnswer
    /\ started[r] <= disk
    /\ pc[r] \in Outlining => op[r] = "outline"
    /\ pc[r] \in Packing => op[r] = "context"

\* A session is bound to the generation observe expects, which its own
\* publications account for.
BoundInv(r) ==
    /\ pc[r] \in Inside => sgen[r] \in 1..gen /\ sgen[r] = expected[r]
    /\ pc[r] \notin Inside => sgen[r] = None
    /\ expected[r] # None => expected[r] = began[r] + own[r]
    /\ expected[r] = None => own[r] = 0

\* While the store stays where an outline found it, what was read is its row.
OutlineInv(r) ==
    op[r] = "outline" /\ Unmoved(r) =>
        /\ pc[r] \in {"outline", "symbols", "exit"} => row \in Nat /\ row >= started[r]
        /\ pc[r] \in {"symbols", "exit"} => decls[r] = Declarations(row)
        /\ pc[r] = "exit" => deps[r] = row

\* A context pack names the hits of its session's generation, but reads its
\* cache key, and the relations it misses, from a store that may have moved.
PackInv(r) ==
    op[r] = "context" =>
        /\ pc[r] \in Keying \/ (pc[r] = "found" /\ Unmoved(r)) =>
              /\ decls[r] = Declarations(log[sgen[r]])
              /\ edges[r] \in {None, log[sgen[r]]}
        /\ pc[r] \in Keying \ {"meta"} =>
              sgen[r] <= meta[r] /\ meta[r] <= gen
        /\ pc[r] \in {"put", "row", "exit"} => Shared(meta[r], decls[r], deps[r])

ReaderInv(r) == RequestInv(r) /\ BoundInv(r) /\ OutlineInv(r) /\ PackInv(r)

\* However queries, publications and their cache interleave, a query that ends
\* unmoved has read one publication, and no cache row it can look up disagrees
\* with that publication's declarations.
ContextInv ==
    /\ LogInv
    /\ \A e \in index : EntryInv(e)
    /\ \A r \in Readers : ReaderInv(r)

Atomic == INSTANCE AtomicContext

\* The queries implement the atomic ones: restarts, stale sessions and the cache
\* on disk are not visible in an answer, except that a context pack may carry
\* relations of an earlier publication with the same declarations.
AtomicAnswers == Atomic!Spec

\* An answer about a source file is at least as new as the file was when the
\* request arrived, whatever the map held then and whoever published since.
AnswersAreNotOlder ==
    [][\A r \in Readers : Answering(r) /\ op[r] = "outline" =>
          answer'[r].deps >= started[r]]_vars

\* observe accepts only the publications it made: an answer's generation is the
\* one its attempt began at plus its own refreshes, never another writer's.
OnlyOwnPublications ==
    [][\A r \in Readers : Answering(r) => answer'[r].gen = began[r] + own[r]]_vars

\* A query ends, whatever edits and publications race it: its attempts are
\* bounded, and a source that changes again is reported, not chased.
RequestsEnd == \A r \in Readers : ~At(r, "idle") ~> At(r, "idle")

\* The claim of INVARIANTS.md M4: "Cache hits may change latency and storage
\* cost, never repository meaning", for the relations of a context pack.  The
\* pack is stored before its session's last check, under the generation the
\* store had by then, with relations the scope read before.
CacheHitsKeepMeaning ==
    [][\A r \in Readers : Answering(r) => answer'[r].deps = row]_vars
=============================================================================
