---------------------------- MODULE NativeEvidence ----------------------------
(***************************************************************************)
(* Native evidence in the CodeMap store: rows that external producers      *)
(* (SCIP imports, Pyright, project graphs) contribute, and the snapshots   *)
(* that say whether they still take part.  A snapshot binds the rows to    *)
(* the map's generation, to digests of manifests, or to both.              *)
(*                                                                         *)
(* Clients are processes that share one store: they sync the map, enrich,  *)
(* import, and rebind a project graph whose shared inputs have changed.    *)
(* One collection, and one digest of a producer's manifests, is one step.  *)
(* TypeScript is enriched as Pyright is, with a check of its inputs after  *)
(* the collection that the others do without.                              *)
(***************************************************************************)
EXTENDS Integers, FiniteSets

CONSTANTS
    Clients,
    Producers,
    Bound,          \* producers whose evidence is bound to the generation
    Imported,       \* producers whose records are imported (SCIP)
    Manifests,
    Watches,        \* the manifests that each producer's snapshot digests
    Shared,         \* manifests that are only shared inputs of a project graph
    Contents,       \* what a manifest can say
    None,           \* nobody, nothing
    MaxEdits,       \* bound of the model: edits of the source
    MaxChanges,     \* bound of the model: edits of manifests
    MaxGeneration   \* bound of the model: publications

\* What the constants are.
EvidenceAssumption ==
    /\ Bound \subseteq Producers /\ Imported \subseteq Bound /\ Shared \subseteq Manifests
    /\ Watches \in [Producers -> SUBSET Manifests]
    /\ \A p \in Bound : Watches[p] \cap Shared = {}
    /\ \A p \in Imported : Watches[p] = {}
    /\ None \notin Clients \cup Producers /\ Contents # {}
    /\ {MaxEdits, MaxChanges, MaxGeneration} \subseteq Nat

VARIABLES
    source,         \* the version of the repository's source
    content,        \* of every manifest
    db,             \* the committed store
    draft,          \* the store as the writer's transaction sees it
    writer,         \* who holds the publication transaction
    pc, job,        \* the clients, and the producer each is busy with
    expected,       \* expected_generation
    seen,           \* what a client has collected, or judged by
    changes         \* edits of manifests so far

disk  == <<source, content, changes>>
local == <<pc, job, expected, seen>>
vars  == <<disk, db, draft, writer, local>>

Digests    == UNION {[Watches[p] -> Contents] : p \in Producers}
Snapshot   == [gen : Nat, man : Digests]
Views      == [src : Nat, man : [Manifests -> Contents]]
Stores     == [gen : Nat, mapped : Nat,                 \* "generation", and the rows
               snap : [Producers -> Snapshot \cup {None}],
               from : [Producers -> Views \cup {None}],  \* what the evidence says
               late : SUBSET Producers]

InTransaction == {"syncing", "enriching", "collected", "done"}

TypeOK ==
    /\ source \in 0..MaxEdits /\ content \in [Manifests -> Contents]
    /\ changes \in 0..MaxChanges
    /\ db \in Stores /\ draft \in Stores /\ db.mapped <= source
    /\ writer \in Clients \cup {None}
    /\ pc \in [Clients -> {"idle", "imported", "rebind", "refresh"} \cup InTransaction]
    /\ job \in [Clients -> Producers \cup {None}]
    /\ expected \in [Clients -> Nat \cup {None}]
    /\ seen \in [Clients -> Views \cup {None}]
    /\ \A c \in Clients : pc[c] \in InTransaction <=> writer = c
    /\ writer = None => draft = db
    /\ draft.gen - db.gen \in {0, 1}
    /\ \A p \in Producers : db.snap[p] # None => db.snap[p].gen <= db.gen

Init ==
    /\ source = 0 /\ content = [m \in Manifests |-> CHOOSE text \in Contents : TRUE] /\ changes = 0
    /\ db = [gen |-> 0, mapped |-> 0, snap |-> [p \in Producers |-> None],
             from |-> [p \in Producers |-> None], late |-> {}]
    /\ draft = db /\ writer = None
    /\ pc = [c \in Clients |-> "idle"] /\ job = [c \in Clients |-> None]
    /\ expected = [c \in Clients |-> None] /\ seen = [c \in Clients |-> None]

Go(c, label)  == pc' = [pc EXCEPT ![c] = label]
View(version) == [src |-> version, man |-> content]
Digest(p)     == [m \in Watches[p] |-> content[m]]

EditSource ==
    /\ source < MaxEdits /\ source' = source + 1
    /\ UNCHANGED <<content, changes, db, draft, writer, local>>

EditManifest(m) ==
    /\ changes < MaxChanges /\ changes' = changes + 1
    /\ \E text \in Contents \ {content[m]} : content' = [content EXCEPT ![m] = text]
    /\ UNCHANGED <<source, db, draft, writer, local>>

(***************************************************************************)
(* Publications                                                            *)
(***************************************************************************)
\* History: "late" evidence was published after what it was collected, or judged, from
\* had changed.
Late(store, p, changed) ==
    [store EXCEPT !.late = IF changed THEN @ \cup {p} ELSE @ \ {p}]

\* Mutant of CarryForward: all bound evidence is carried along.
CarryForwardAll(store) ==
    [store EXCEPT
       !.gen = @ + 1,
       !.snap = [p \in Producers |->
                   IF @[p] # None /\ p \in Bound THEN [@[p] EXCEPT !.gen = store.gen + 1]
                   ELSE @[p]]]

\* bump_generation and _carry_forward_evidence_generation.
CarryForward(store) ==
    [store EXCEPT
       !.gen = @ + 1,
       !.snap = [p \in Producers |->
                   IF @[p] # None /\ p \in Bound /\ @[p].gen = store.gen
                   THEN [@[p] EXCEPT !.gen = store.gen + 1] ELSE @[p]]]

\* _record_evidence_snapshot.
Recorded(store, p) == [store EXCEPT !.snap[p] = [gen |-> store.gen, man |-> Digest(p)]]

Begin(c, label) ==
    /\ writer = None /\ db.gen < MaxGeneration
    /\ writer' = c /\ Go(c, label)

\* sync.  It does not carry evidence forward.
SyncBegin(c) ==
    /\ pc[c] = "idle" /\ Begin(c, "syncing")
    /\ UNCHANGED <<disk, db, draft, job, expected, seen>>

SyncRead(c) ==
    /\ pc[c] = "syncing"
    /\ draft' = [draft EXCEPT !.mapped = source,
                              !.gen = IF draft.mapped # source THEN @ + 1 ELSE @]
    /\ Go(c, "done")
    /\ UNCHANGED <<disk, db, writer, job, expected, seen>>

\* enrich_projects, asked for by itself or for a declaration that has changed.
EnrichBegin(c) ==
    /\ pc[c] \in {"idle", "refresh"}
    /\ pc[c] = "refresh" => db.gen = expected[c]
    /\ Begin(c, "enriching")
    /\ expected' = [expected EXCEPT ![c] = None]
    /\ UNCHANGED <<disk, db, draft, job, seen>>

Collect(c) ==
    /\ pc[c] = "enriching"
    /\ \E p \in Producers \ Imported : job' = [job EXCEPT ![c] = p]
    /\ seen' = [seen EXCEPT ![c] = View(source)]
    /\ Go(c, "collected")
    /\ UNCHANGED <<disk, db, draft, writer, expected>>

\* ensure_publication_generation, the rows, and the snapshot of the manifests as they
\* are by now.
Record(c) ==
    /\ pc[c] = "collected"
    /\ LET p      == job[c]
           bumped == IF draft.gen = db.gen THEN CarryForward(draft) ELSE draft
       IN  draft' = Late([Recorded(bumped, p) EXCEPT !.from[p] = seen[c]], p,
                         \E m \in Watches[p] : seen[c].man[m] # content[m])
    /\ Go(c, "enriching")
    /\ UNCHANGED <<disk, db, writer, job, expected, seen>>

EnrichEnd(c) ==
    /\ pc[c] = "enriching" /\ Go(c, "done")
    /\ UNCHANGED <<disk, db, draft, writer, job, expected, seen>>

Commit(c) ==
    /\ pc[c] = "done"
    /\ db' = draft /\ writer' = None /\ Go(c, "idle")
    /\ seen' = [seen EXCEPT ![c] = None] /\ job' = [job EXCEPT ![c] = None]
    /\ UNCHANGED <<disk, draft, expected>>

\* import_scip: the records are matched with the rows of the map, and published in a
\* transaction that begins later.
ImportCollect(c) ==
    /\ pc[c] = "idle" /\ Go(c, "imported")
    /\ \E p \in Imported : job' = [job EXCEPT ![c] = p]
    /\ seen' = [seen EXCEPT ![c] = View(db.mapped)]
    /\ UNCHANGED <<disk, db, draft, writer, expected>>

ImportPublish(c) ==
    /\ pc[c] = "imported" /\ writer = None /\ db.gen < MaxGeneration
    /\ LET p == job[c]
       IN  db' = Late([Recorded(CarryForward(db), p) EXCEPT !.from[p] = seen[c]], p,
                      seen[c].src # db.mapped)
    /\ draft' = db' /\ Go(c, "idle")
    /\ seen' = [seen EXCEPT ![c] = None] /\ job' = [job EXCEPT ![c] = None]
    /\ UNCHANGED <<disk, writer, expected>>

\* _refresh_declared_project_impact: which manifests have changed decides.
Changed(p) == {m \in Watches[p] : db.snap[p].man[m] # content[m]}

\* Mutant of SharedOnly: it is enough that a shared input has changed.
SharedToo(p) == Changed(p) \cap Shared # {}

SharedOnly(p) == Changed(p) # {} /\ Changed(p) \subseteq Shared

Judge(c) ==
    /\ pc[c] = "idle"
    /\ \E p \in Producers \ Bound :
          /\ db.snap[p] # None /\ Changed(p) # {}
          /\ job' = [job EXCEPT ![c] = p]
          /\ Go(c, IF SharedOnly(p) THEN "rebind" ELSE "refresh")
    /\ expected' = [expected EXCEPT ![c] = db.gen]
    /\ seen' = [seen EXCEPT ![c] = View(db.mapped)]
    /\ UNCHANGED <<disk, db, draft, writer>>

\* _rebind_project_freshness digests everything again and leaves the rows.
Rebind(c) ==
    /\ pc[c] = "rebind" /\ writer = None /\ db.gen = expected[c] /\ db.gen < MaxGeneration
    /\ LET p == job[c]
       IN  db' = Late(Recorded(CarryForward(db), p), p,
                      p \in db.late \/ \E m \in Watches[p] \ Shared :
                                          seen[c].man[m] # content[m])
    /\ draft' = db' /\ Go(c, "idle")
    /\ seen' = [seen EXCEPT ![c] = None] /\ job' = [job EXCEPT ![c] = None]
    /\ expected' = [expected EXCEPT ![c] = None]
    /\ UNCHANGED <<disk, writer>>

\* Mutant of GiveUp: nothing is rolled back, and the next writer goes on from there.
GiveUpHalfway(c) ==
    /\ pc[c] # "idle" /\ Go(c, "idle")
    /\ writer' = IF writer = c THEN None ELSE writer
    /\ seen' = [seen EXCEPT ![c] = None] /\ job' = [job EXCEPT ![c] = None]
    /\ expected' = [expected EXCEPT ![c] = None]
    /\ UNCHANGED <<disk, db, draft>>

\* The generation has moved (RuntimeError), or the process is killed: a transaction is
\* rolled back.
GiveUp(c) ==
    /\ pc[c] # "idle" /\ Go(c, "idle")
    /\ writer' = IF writer = c THEN None ELSE writer
    /\ draft' = IF writer = c THEN db ELSE draft
    /\ seen' = [seen EXCEPT ![c] = None] /\ job' = [job EXCEPT ![c] = None]
    /\ expected' = [expected EXCEPT ![c] = None]
    /\ UNCHANGED <<disk, db>>

Next ==
    \/ EditSource
    \/ \E m \in Manifests : EditManifest(m)
    \/ \E c \in Clients :
          \/ SyncBegin(c) \/ SyncRead(c)
          \/ EnrichBegin(c) \/ Collect(c) \/ Record(c) \/ EnrichEnd(c) \/ Commit(c)
          \/ ImportCollect(c) \/ ImportPublish(c)
          \/ Judge(c) \/ Rebind(c) \/ GiveUp(c)

Spec == Init /\ [][Next]_vars

(***************************************************************************)
(* Properties                                                              *)
(***************************************************************************)
\* _evidence_fresh.
Fresh(p) ==
    /\ db.snap[p] # None
    /\ p \in Bound => db.snap[p].gen = db.gen
    /\ Changed(p) = {}

(* G13: stale rows do not take part.  What is fresh was collected from source *)
(* no older than the map's, if it is bound to the generation, and from the    *)
(* manifests as they are, shared inputs apart; through syncs, enrichments and *)
(* imports of other producers that carry it forward, rebindings and crashes.  *)
(* The code digests and binds after it has collected, so evidence that was    *)
(* overtaken in between is excepted.                                          *)
EvidenceFreshUnlessRaced ==
    \A p \in Producers \ db.late :
       Fresh(p) => /\ p \in Bound => db.from[p].src >= db.mapped
                   /\ \A m \in Watches[p] \ Shared : db.from[p].man[m] = content[m]
===============================================================================
