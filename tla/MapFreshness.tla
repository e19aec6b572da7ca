----------------------------- MODULE MapFreshness -----------------------------
(***************************************************************************)
(* How a CodeMap knows that it is current: RepositoryIndex.sync seals a    *)
(* publication with the generation of the identity daemon's ChangeTracker, *)
(* and a query calls the map fresh while the daemon still shows that       *)
(* generation.                                                             *)
(*                                                                         *)
(* The daemon is here what a client can observe of it: a change is marked  *)
(* when it happens, because every observation is made behind a request     *)
(* barrier (IdentityLane says how far that barrier reaches).  A row of the *)
(* map is the version of the file it was made from.                        *)
(***************************************************************************)
EXTENDS Integers, FiniteSets

CONSTANTS
    Paths,          \* the files
    Clients,        \* the CodeMap processes
    None,           \* no generation, no row
    MaxChanges,     \* bound of the model: changes of files
    MaxGeneration,  \* bound of the model: generations of one daemon
    MaxRestarts     \* bound of the model: restarts of the daemon

ASSUME BoundAssumption ==
    MaxChanges \in Nat /\ MaxGeneration \in Nat /\ MaxRestarts \in Nat
ASSUME NoneAssumption == None \notin Nat

VARIABLES
    disk,       \* the version of every file
    changes,    \* the changes so far
    up,         \* whether the daemon answers
    life,       \* which daemon it is: the restarts so far (no client sees this)
    state,      \* ChangeTracker._state
    generation, \* ChangeTracker._generation
    dirty,      \* ChangeTracker._paths
    rows,       \* the published file_map
    sealed,     \* meta "identity_generation"
    pc,         \* where each client is in ensure_ready and sync
    scope,      \* the paths its sync was asked for
    todo,       \* those it has not read yet
    before,     \* identity_generation_before
    built,      \* the rows of its open publication transaction
    bLife,      \* history: the daemon that gave before
    sLife,      \* history: the daemon that gave sealed
    sFull,      \* history: sealed by a sync of every path
    dropped,    \* history: paths the daemon has forgotten since a full seal
    raced       \* history: paths changed between a decision and its sync

files   == <<disk, changes>>
daemon  == <<up, life, state, generation, dirty>>
map     == <<rows, sealed>>
clients == <<pc, scope, todo, before, built, bLife>>
history == <<sLife, sFull, dropped, raced>>
vars    == <<files, daemon, map, clients, history>>

Version == Nat \cup {None}

DaemonTypeOK ==
    /\ disk \in [Paths -> Nat] /\ changes \in Nat
    /\ up \in BOOLEAN /\ life \in Nat
    /\ state \in {"clean", "dirty", "unknown"}
    /\ generation \in Nat /\ dirty \subseteq Paths

ClientTypeOK ==
    /\ pc \in [Clients -> {"idle", "begin", "reading"}]
    /\ scope \in [Clients -> SUBSET Paths] /\ todo \in [Clients -> SUBSET Paths]
    /\ before \in [Clients -> Version]
    /\ built \in [Clients -> [Paths -> Version]]
    /\ bLife \in [Clients -> Nat]

MapTypeOK ==
    /\ rows \in [Paths -> Version] /\ sealed \in Version
    /\ sLife \in Nat /\ sFull \in BOOLEAN
    /\ dropped \subseteq Paths /\ raced \subseteq Paths

TypeOK == DaemonTypeOK /\ ClientTypeOK /\ MapTypeOK

Init ==
    /\ disk = [p \in Paths |-> 0] /\ changes = 0
    /\ up = TRUE /\ life = 0
    /\ state = "unknown" /\ generation = 0 /\ dirty = {}
    /\ rows = [p \in Paths |-> None] /\ sealed = None
    /\ pc = [c \in Clients |-> "idle"]
    /\ scope = [c \in Clients |-> {}] /\ todo = [c \in Clients |-> {}]
    /\ before = [c \in Clients |-> None]
    /\ built = [c \in Clients |-> [p \in Paths |-> None]]
    /\ bLife = [c \in Clients |-> 0]
    /\ sLife = 0 /\ sFull = FALSE /\ dropped = {} /\ raced = {}

(***************************************************************************)
(* The repository and the identity daemon                                  *)
(***************************************************************************)
\* A client has decided on a sync of some paths and not begun it.
Deciding == \E c \in Clients : pc[c] = "begin" /\ scope[c] # Paths

\* Mutant of Change: only the first change of a batch advances the generation.
ChangeOfBatch(p) ==
    /\ changes < MaxChanges /\ changes' = changes + 1
    /\ disk' = [disk EXCEPT ![p] = @ + 1]
    /\ IF up /\ state = "dirty"
         THEN dirty' = dirty \cup {p} /\ UNCHANGED <<generation, state>>
       ELSE IF up
         THEN /\ generation < MaxGeneration /\ generation' = generation + 1
              /\ dirty' = dirty \cup {p}
              /\ state' = IF state = "unknown" THEN "unknown" ELSE "dirty"
         ELSE UNCHANGED <<generation, dirty, state>>
    /\ raced' = IF Deciding THEN raced \cup {p} ELSE raced
    /\ UNCHANGED <<up, life, map, clients, sLife, sFull, dropped>>

\* A file changes; a living daemon's tracker marks it (mark_dirty).
Change(p) ==
    /\ changes < MaxChanges /\ changes' = changes + 1
    /\ disk' = [disk EXCEPT ![p] = @ + 1]
    /\ IF up
         THEN /\ generation < MaxGeneration /\ generation' = generation + 1
              /\ dirty' = dirty \cup {p}
              /\ state' = IF state = "unknown" THEN "unknown" ELSE "dirty"
         ELSE UNCHANGED <<generation, dirty, state>>
    /\ raced' = IF Deciding THEN raced \cup {p} ELSE raced
    /\ UNCHANGED <<up, life, map, clients, sLife, sFull, dropped>>

\* An identity request reconciles the daemon (mark_reconciled).  Its dirty
\* paths are gone for every other client too.
IdentityRead ==
    /\ up
    /\ ~(state = "clean" /\ dirty = {})
    /\ generation < MaxGeneration /\ generation' = generation + 1
    /\ state' = "clean" /\ dirty' = {}
    /\ dropped' = dropped \cup dirty
    /\ UNCHANGED <<files, up, life, map, clients, sLife, sFull, raced>>

\* The watcher loses events (mark_unknown).
ObserverLost ==
    /\ up /\ generation < MaxGeneration
    /\ generation' = generation + 1
    /\ state' = "unknown" /\ dirty' = {}
    /\ dropped' = dropped \cup dirty
    /\ UNCHANGED <<files, up, life, map, clients, sLife, sFull, raced>>

DaemonStops ==
    /\ up /\ life < MaxRestarts /\ up' = FALSE
    /\ UNCHANGED <<files, life, state, generation, dirty, map, clients, history>>

\* A new tracker counts its generations from 0 again.
DaemonStarts ==
    /\ ~up /\ up' = TRUE /\ life' = life + 1
    /\ state' = "unknown" /\ generation' = 0 /\ dirty' = {}
    /\ dropped' = Paths
    /\ UNCHANGED <<files, map, clients, sLife, sFull, raced>>

(***************************************************************************)
(* One observation: IdentityDaemon._observe_response.  While the tracker is *)
(* unknown the barrier fails, and that marks it unknown once more.          *)
(***************************************************************************)
Observed == IF ~up THEN None
            ELSE IF state = "unknown" THEN generation + 1 ELSE generation

Forgotten == IF up /\ state = "unknown" THEN dirty ELSE {}

Observe ==
    /\ Observed \in 0..MaxGeneration \cup {None}
    /\ generation' = IF up THEN Observed ELSE generation
    /\ dirty' = dirty \ Forgotten
    /\ UNCHANGED <<up, life, state>>

(***************************************************************************)
(* ensure_ready and sync                                                   *)
(***************************************************************************)
Decide(c, paths) ==
    /\ pc' = [pc EXCEPT ![c] = "begin"]
    /\ scope' = [scope EXCEPT ![c] = paths]
    /\ UNCHANGED <<todo, before, built, bLife>>

\* Mutant of EnsureReady: the dirty paths are trusted over an unsealed map too.
EnsureReadyTrusting(c) ==
    /\ pc[c] = "idle" /\ Observe
    /\ CASE ~up \/ Observed = sealed -> UNCHANGED clients
         [] state = "dirty"          -> Decide(c, dirty)
         [] OTHER                    -> Decide(c, Paths)
    /\ dropped' = dropped \cup Forgotten
    /\ UNCHANGED <<files, map, sLife, sFull, raced>>

\* _reconcile_daemon_generation: nothing to do, the daemon's dirty paths only,
\* or everything.
EnsureReady(c) ==
    /\ pc[c] = "idle" /\ Observe
    /\ CASE ~up \/ Observed = sealed              -> UNCHANGED clients
         [] sealed # None /\ state = "dirty"      -> Decide(c, dirty)
         [] OTHER                                 -> Decide(c, Paths)
    /\ dropped' = dropped \cup Forgotten
    /\ UNCHANGED <<files, map, sLife, sFull, raced>>

\* An explicit sync of the whole repository.
RequestSync(c) ==
    /\ pc[c] = "idle" /\ Decide(c, Paths)
    /\ UNCHANGED <<files, daemon, map, history>>

\* BEGIN IMMEDIATE admits one writer; then the generation is sampled.
SyncBegin(c) ==
    /\ pc[c] = "begin" /\ \A d \in Clients : pc[d] # "reading"
    /\ Observe
    /\ before' = [before EXCEPT ![c] = Observed]
    /\ bLife' = [bLife EXCEPT ![c] = life]
    /\ todo' = [todo EXCEPT ![c] = scope[c]]
    /\ built' = [built EXCEPT ![c] = rows]
    /\ pc' = [pc EXCEPT ![c] = "reading"]
    /\ dropped' = dropped \cup Forgotten
    /\ UNCHANGED <<files, map, scope, sLife, sFull, raced>>

SyncRead(c, p) ==
    /\ pc[c] = "reading" /\ p \in todo[c]
    /\ built' = [built EXCEPT ![c][p] = disk[p]]
    /\ todo' = [todo EXCEPT ![c] = @ \ {p}]
    /\ UNCHANGED <<files, daemon, map, pc, scope, before, bLife, history>>

\* The locals of sync are gone with it.
Leave(c) ==
    /\ pc' = [pc EXCEPT ![c] = "idle"]
    /\ scope' = [scope EXCEPT ![c] = {}] /\ todo' = [todo EXCEPT ![c] = {}]
    /\ before' = [before EXCEPT ![c] = None]
    /\ built' = [built EXCEPT ![c] = [p \in Paths |-> None]]
    /\ bLife' = [bLife EXCEPT ![c] = 0]

\* Mutant of Seal: the generation after the reads is recorded.
SealAfter(c) == Observed

\* _sync_finalize_identity: only a generation that did not move.
Seal(c) == IF before[c] = Observed THEN before[c] ELSE None

\* Rows, generation and COMPLETE commit together.
SyncSeal(c) ==
    /\ pc[c] = "reading" /\ todo[c] = {}
    /\ Observe
    /\ rows' = built[c] /\ sealed' = Seal(c)
    /\ Leave(c)
    /\ sLife' = bLife[c] /\ sFull' = (scope[c] = Paths)
    /\ IF scope[c] = Paths /\ Seal(c) # None /\ bLife[c] = life
         THEN dropped' = {} /\ raced' = {}
         ELSE dropped' = dropped \cup Forgotten /\ UNCHANGED raced
    /\ UNCHANGED files

\* Anything that raises, and a crash, rolls the transaction back.
SyncAborts(c) ==
    /\ pc[c] \in {"begin", "reading"}
    /\ Leave(c)
    /\ UNCHANGED <<files, daemon, map, history>>

ClientStep(c) ==
    \/ EnsureReady(c) \/ RequestSync(c) \/ SyncBegin(c)
    \/ \E p \in Paths : SyncRead(c, p)
    \/ SyncSeal(c) \/ SyncAborts(c)

Next ==
    \/ \E p \in Paths : Change(p)
    \/ IdentityRead \/ ObserverLost \/ DaemonStops \/ DaemonStarts
    \/ \E c \in Clients : ClientStep(c)

Spec == Init /\ [][Next]_vars

(***************************************************************************)
(* Correctness                                                             *)
(***************************************************************************)
\* generation_status_with_watch answers stale = False.
SaysFresh == up /\ sealed # None /\ Observed = sealed

\* A full sync that was sealed is fresh for as long as the daemon that sealed
\* it says so: nothing that changed during the sync or after it is hidden.
FullSealIsFresh ==
    (SaysFresh /\ sFull /\ sLife = life) => rows = disk

\* The inductive strengthening of FullSealIsFresh.  Generations of one daemon
\* only grow; while the generation a sync began under still stands, what it has
\* read is still there, and so is what a full sync sealed under it.
GenerationsBehind ==
    /\ sLife <= life
    /\ (sealed # None /\ sLife = life) => sealed <= generation
    /\ \A c \in Clients :
         /\ bLife[c] <= life
         /\ pc[c] # "reading" => before[c] = None
         /\ (before[c] # None /\ bLife[c] = life) => before[c] <= generation

ReadStillThere ==
    \A c \in Clients :
        (up /\ before[c] # None /\ bLife[c] = life /\ before[c] = generation) =>
            \A p \in scope[c] \ todo[c] : built[c][p] = disk[p]

SealedStillThere ==
    (up /\ sFull /\ sealed # None /\ sLife = life /\ sealed = generation) =>
        rows = disk

\* The inductive invariant of MapFreshnessProofs.
FreshInv == TypeOK /\ GenerationsBehind /\ ReadStillThere /\ SealedStillThere

\* Under one daemon a map that says it is fresh lags in nothing but the paths
\* an incremental sync cannot know: those another reader's reconciliation has
\* taken out of the daemon's dirty set, and those that changed between the
\* decision and the sync.
LagsOnlyInDropped ==
    (SaysFresh /\ sLife = life) =>
        \A p \in Paths : rows[p] = disk[p] \/ p \in dropped \cup raced

\* G2, O6 (docs/reference/INVARIANTS.md): a map that may lag says so.  Here of an
\* incremental sync that no change overtakes.
FreshUnlessRaced == (SaysFresh /\ raced = {}) => rows = disk
=============================================================================
