---------------------------- MODULE WorktreeOverlay ----------------------------
(***************************************************************************)
(* One worker's overlay over the map of a canonical base: sync indexes the *)
(* paths that are said to differ in the worktree and binds the overlay to  *)
(* the base's publication; find_task answers from both.  Meanwhile another *)
(* process publishes the base, or clears and builds it again, and files of *)
(* the worktree change.  The overlay's rows outlive the process.           *)
(*                                                                         *)
(* The fingerprint of a publication is the base's rows: it is injective.   *)
(* A cleared map has neither; the repository of the base is never empty.   *)
(***************************************************************************)
EXTENDS Naturals

CONSTANTS
    Paths,
    None,           \* no file, no row, nothing bound
    Contents,       \* what can be in a file
    MaxEdits,       \* bounds of the model: changes of the worktree,
    MaxGeneration,  \* generations of the base,
    MaxLives        \* and processes of the worker

\* What the constants are.
OverlayAssumption ==
    /\ {MaxEdits, MaxGeneration, MaxLives} \subseteq Nat /\ MaxGeneration # 0
    /\ None \notin Contents /\ Contents # {} /\ Paths # {}

VARIABLES
    base, gen,          \* the base's rows and its generation
    tree, edits,        \* the worktree's files
    rows, changed,      \* the overlay's rows, and _changed
    bound,              \* the publication in _stats
    pc, asked,          \* the worker, and the paths it syncs
    authority,          \* what _base_authority said
    session,            \* the generation of the base's decision session
    read,               \* the rows that sync or find_task has read so far
    todo,
    answer,             \* what find_task has returned, until the next call
    life

world  == <<base, gen, tree, edits>>
worker == <<changed, bound, asked, authority, session, read, todo>>
vars   == <<world, rows, worker, pc, answer, life>>

Files == [Paths -> Contents \cup {None}]
NoRows == [p \in Paths |-> None]

TypeOK ==
    /\ base \in Files /\ gen \in 1..MaxGeneration /\ tree \in Files
    /\ edits \in 0..MaxEdits /\ life \in 0..MaxLives
    /\ rows \in Files /\ changed \subseteq Paths
    /\ (bound = None \/ (bound.gen \in 1..MaxGeneration /\ bound.print \in Files))
    /\ pc \in {"idle", "enter", "bind", "index", "recheck", "leave",
               "require", "expect", "overlay", "hits", "again", "return"}
    /\ asked \subseteq Paths /\ todo \subseteq Paths
    /\ (authority = None \/ (authority.gen \in 1..MaxGeneration /\ authority.print \in Files))
    /\ session \in 0..MaxGeneration /\ read \in Files
    /\ (answer = None \/ answer \in Files)

Init ==
    /\ \E v \in Contents : base = [p \in Paths |-> v]
    /\ gen = 1 /\ tree = base /\ edits = 0
    /\ rows = NoRows /\ changed = {} /\ bound = None
    /\ pc = "idle" /\ asked = {} /\ authority = None /\ session = 0
    /\ read = NoRows /\ todo = {} /\ answer = None /\ life = 0

(***************************************************************************)
(* The worktree and the base                                               *)
(***************************************************************************)
Edit(p) ==
    /\ edits < MaxEdits /\ edits' = edits + 1
    /\ \E v \in (Contents \cup {None}) \ {tree[p]} : tree' = [tree EXCEPT ![p] = v]
    /\ UNCHANGED <<base, gen, rows, worker, pc, answer, life>>

\* A generation of the base, made by whoever, that has these rows.
Advance(r) == base' = r /\ gen' = gen + 1

\* Another process publishes: a change of rows, or evidence that changes none.
\* Whatever is empty is then built by a query or by a sync.
Publish ==
    /\ gen < MaxGeneration
    /\ \/ base # NoRows /\ Advance(base)
       \/ \E p \in Paths, v \in Contents \cup {None} :
              Advance([base EXCEPT ![p] = v])
    /\ base' # NoRows
    /\ UNCHANGED <<tree, edits, rows, worker, pc, answer, life>>

\* `map clean`: the generation goes on counting.
Clear ==
    /\ gen + 1 < MaxGeneration /\ base # NoRows /\ Advance(NoRows)
    /\ UNCHANGED <<tree, edits, rows, worker, pc, answer, life>>

\* DecisionScope.ready, where no session is open: a map without files is synced.
Ready ==
    IF base = NoRows
    THEN \E r \in Files \ {NoRows} : Advance(r)
    ELSE UNCHANGED <<base, gen>>

(***************************************************************************)
(* sync                                                                    *)
(***************************************************************************)
\* A call that ends has no locals.
Done ==
    /\ pc' = "idle" /\ asked' = {} /\ authority' = None /\ session' = 0
    /\ read' = NoRows /\ todo' = {}

Sync(c) ==
    /\ pc = "idle" /\ c # {} /\ pc' = "enter" /\ asked' = c
    /\ answer' = None
    /\ UNCHANGED <<world, rows, changed, bound, authority, session, read, todo, life>>

SyncEnter ==
    /\ pc = "enter" /\ pc' = "bind" /\ Ready /\ session' = gen'
    /\ UNCHANGED <<tree, edits, rows, changed, bound, asked, authority, read, todo,
                   answer, life>>

\* A base without a publication cannot be bound.
SyncBind ==
    /\ pc = "bind"
    /\ IF base # NoRows
       THEN /\ pc' = "index" /\ authority' = [gen |-> gen, print |-> base]
            /\ todo' = asked /\ UNCHANGED <<asked, session, read>>
       ELSE Done
    /\ UNCHANGED <<world, rows, changed, bound, answer, life>>

\* The overlay's own sync reads file after file,
SyncRead(p) ==
    /\ pc = "index" /\ p \in todo
    /\ read' = [read EXCEPT ![p] = tree[p]] /\ todo' = todo \ {p}
    /\ UNCHANGED <<world, rows, changed, bound, asked, authority, session, pc, answer,
                   life>>

\* ... and commits their rows; those of other paths stay.
SyncCommit ==
    /\ pc = "index" /\ todo = {} /\ pc' = "recheck"
    /\ rows' = [p \in Paths |-> IF p \in asked THEN read[p] ELSE rows[p]]
    /\ UNCHANGED <<world, worker, answer, life>>

\* _base_authority is b.
Stands(b) == base # NoRows /\ b = [gen |-> gen, print |-> base]

SyncCheck ==
    /\ pc = "recheck"
    /\ \/ /\ Stands(authority) /\ pc' = "leave"
          /\ UNCHANGED <<asked, authority, session, read, todo>>
       \/ ~Stands(authority) /\ Done        \* WorktreeOverlayBaseChangedError
    /\ UNCHANGED <<world, rows, changed, bound, answer, life>>

\* The session ends under the generation it began with, or raises.
SyncLeave ==
    /\ pc = "leave" /\ Done
    /\ IF session = gen
       THEN changed' = asked /\ bound' = authority
       ELSE UNCHANGED <<changed, bound>>
    /\ UNCHANGED <<world, rows, answer, life>>

(***************************************************************************)
(* find_task                                                               *)
(***************************************************************************)
Find ==
    /\ pc = "idle" /\ bound # None /\ pc' = "require"
    /\ answer' = None
    /\ UNCHANGED <<world, rows, worker, life>>

\* _require_bound_base, before the session ...
Require ==
    /\ pc = "require" /\ Ready
    /\ UNCHANGED <<tree, edits, rows, changed, bound, answer, life>>
    /\ \/ /\ Stands(bound)' /\ pc' = "expect"
          /\ UNCHANGED <<asked, authority, session, read, todo>>
       \/ ~Stands(bound)' /\ Done

Expect ==
    /\ pc = "expect" /\ Ready
    /\ UNCHANGED <<tree, edits, rows, changed, bound, answer, life>>
    /\ \/ /\ gen' = bound.gen /\ pc' = "overlay" /\ session' = gen'
          /\ UNCHANGED <<asked, authority, read, todo>>
       \/ gen' # bound.gen /\ Done

\* An overlay without a row syncs the whole worktree before it answers.
FindOverlay ==
    /\ pc = "overlay" /\ pc' = "hits"
    /\ rows' = IF \A p \in Paths : rows[p] = None THEN tree ELSE rows
    /\ todo' = Paths
    /\ UNCHANGED <<world, changed, bound, asked, authority, session, read, answer, life>>

\* Mutant of Masked: nothing is hidden.
MaskedNot(p) == FALSE

\* The base's hits of changed paths are dropped.
Masked(p) == p \in changed

\* The overlay's hits shadow the base's.
FindHit(p) ==
    /\ pc = "hits" /\ p \in todo /\ todo' = todo \ {p}
    /\ read' = [read EXCEPT ![p] =
           CASE rows[p] # None -> rows[p]
             [] rows[p] = None /\ Masked(p) -> None
             [] OTHER -> base[p]]
    /\ UNCHANGED <<world, rows, changed, bound, asked, authority, session, pc, answer,
                   life>>

FindHits ==
    /\ pc = "hits" /\ todo = {} /\ pc' = "again"
    /\ UNCHANGED <<world, rows, worker, answer, life>>

\* ... and at its end, where ready does nothing.
RequireAgain ==
    /\ pc = "again"
    /\ \/ /\ Stands(bound) /\ pc' = "return"
          /\ UNCHANGED <<asked, authority, session, read, todo>>
       \/ ~Stands(bound) /\ Done
    /\ UNCHANGED <<world, rows, changed, bound, answer, life>>

FindReturn ==
    /\ pc = "return" /\ Done
    /\ answer' = IF session = gen THEN read ELSE None
    /\ UNCHANGED <<world, rows, changed, bound, life>>

\* The process ends, anywhere; the next one has the same rows, and no binding.
Restart ==
    /\ life < MaxLives /\ life' = life + 1
    /\ Done /\ changed' = {} /\ bound' = None /\ answer' = None
    /\ UNCHANGED <<world, rows>>

Next ==
    \/ \E p \in Paths : Edit(p) \/ SyncRead(p) \/ FindHit(p)
    \/ Publish \/ Clear \/ Restart
    \/ \E c \in SUBSET Paths : Sync(c)
    \/ SyncEnter \/ SyncBind \/ SyncCommit \/ SyncCheck \/ SyncLeave
    \/ Find \/ Require \/ Expect \/ FindOverlay \/ FindHits \/ RequireAgain \/ FindReturn

Spec == Init /\ [][Next]_vars

(***************************************************************************)
(* Properties                                                              *)
(***************************************************************************)
(* An answer is of one publication of the base, the one the overlay was bound *)
(* to, with the changed paths as the worktree had them at the sync, also      *)
(* those that are gone there.  Exception: paths that are not changed any more *)
(* and still have a row, of an earlier sync, process or sync of the whole     *)
(* worktree.                                                                  *)
AnswersOfOneBase ==
    answer # None =>
        \A p \in Paths :
            \/ answer[p] = IF p \in changed THEN rows[p] ELSE bound.print[p]
            \/ p \notin changed /\ rows[p] # None

\* What WorktreeOverlay says of itself: "Unchanged evidence remains owned by
\* base."
UnchangedIsOfTheBase ==
    answer # None =>
        \A p \in Paths \ changed : answer[p] = bound.print[p]
================================================================================
