----------------------------- MODULE MerkleCache -----------------------------
(***************************************************************************)
(* The hot caches of MerkleTree over a tree of directories, as one caller  *)
(* at a time uses them: exact changed paths arrive (ChangeTracker), the    *)
(* next read invalidates what they touch and recomputes only that.         *)
(*                                                                         *)
(* A node is a file or a directory of the workspace.  now[n] is the        *)
(* version of file n, Here for a directory that exists, and Absent for     *)
(* what does not exist.  The digest of a directory is, injectively, the    *)
(* function from the nodes below it to what the computation saw of them.   *)
(***************************************************************************)
EXTENDS Integers, FiniteSets

CONSTANTS
    Dirs,       \* the directories, the workspace root among them
    Files,      \* the files
    Root,       \* the workspace root
    Parent,     \* the directory each node but Root is in
    Above,      \* the directories above each node (AboveAssumption)
    Terminals,  \* the paths of the one resolved manifest
    Movable,    \* the directories that are moved away and in as a whole
    None,       \* not cached
    Absent,     \* does not exist
    MaxClock    \* bound of the model: changes of the file system

Nodes == Dirs \cup Files

\* The sets of directories that hold, with each of their own, the one it is in.
Closed == {S \in SUBSET Dirs : \A x \in S : x # Root => Parent[x] \in S}

Below(d)   == {n \in Nodes : d \in Above[n]}

\* Above[n] is the least set of directories that holds n's and is closed.
AboveAssumption ==
    Above = [n \in Nodes |->
               IF n = Root THEN {}
               ELSE {d \in Dirs : \A S \in Closed : Parent[n] \in S => d \in S}]

\* What the constants are: a tree.
TreeAssumption ==
    /\ AboveAssumption
    /\ Root \in Dirs /\ Dirs \cap Files = {}
    /\ Parent \in [Nodes \ {Root} -> Dirs]
    /\ \A n \in Nodes \ {Root} : Root \in Above[n]
    /\ Terminals \subseteq Nodes \ {Root} /\ Movable \subseteq Dirs \ {Root}
    /\ None # Absent /\ {None, Absent} \cap Nat = {}
    /\ MaxClock \in Nat

VARIABLES
    now,        \* what each node is
    clock,      \* the changes so far; a new version is never an old one
    tState,     \* ChangeTracker._state
    tPaths,     \* ChangeTracker._paths
    dirCache,   \* _dir_cache
    pathCache,  \* _path_cache, of the files
    leaf,       \* the trie's cached_node of each terminal, None where dirty
    moved       \* history: directories moved since the caches were dropped

fs      == <<now, clock>>
tracker == <<tState, tPaths>>
caches  == <<dirCache, pathCache, leaf>>
vars    == <<fs, tracker, caches, moved>>

(***************************************************************************)
(* Paths                                                                   *)
(***************************************************************************)
Here       == 0
Exists(n)  == now[n] # Absent
IsDir(n)   == n \in Dirs /\ Exists(n)

\* The directories from d on down to n.
Way(d, n) == ({d} \cup Below(d)) \cap Above[n]

(***************************************************************************)
(* What a digest says                                                      *)
(***************************************************************************)
Truth(d) == [n \in Below(d) |-> now[n]]

\* The directories that a digest of d asks on the way to n: the entries of one that
\* is not cached are listed, and those of them that are there are asked in turn.
Asked(dc, d, n) ==
    {c \in Way(d, n) : \A x \in Way(d, n) :
        /\ c \in Below(x) => dc[x] = None
        /\ x # d /\ c \in {x} \cup Below(x) => Exists(x)}

\* What _directory_digest without verify says over the directory cache dc: a
\* cached directory is returned unread, and what it says of n with it.
Composed(dc) ==
    [d \in Dirs |-> [n \in Below(d) |->
        LET hits == {c \in Asked(dc, d, n) : dc[c] # None}
        IN  IF hits = {} THEN now[n] ELSE dc[CHOOSE c \in hits : TRUE][n]]]

\* The directories that computation of d lists, and then caches.
Listed(dc, d, verify) ==
    {c \in ({d} \cup Below(d)) \cap Dirs :
        /\ Exists(c)
        /\ verify \/ \A x \in ({c} \cup Above[c]) \ Above[d] : dc[x] = None}

Versions   == Nat \cup {None, Absent}
TypeOK ==
    /\ now \in [Nodes -> Nat \cup {Absent}] /\ clock \in Nat
    /\ tState \in {"clean", "dirty", "unknown"} /\ tPaths \subseteq Nodes
    /\ \A d \in Dirs : dirCache[d] = None \/ DOMAIN dirCache[d] = Below(d)
    /\ pathCache \in [Files -> Versions]
    /\ DOMAIN leaf = Terminals
    /\ moved \subseteq Dirs

Init ==
    /\ now = [n \in Nodes |-> Here] /\ clock = 0
    /\ tState = "unknown" /\ tPaths = {}
    /\ dirCache = [d \in Dirs |-> None]
    /\ pathCache = [n \in Files |-> None]
    /\ leaf = [n \in Terminals |-> None]
    /\ moved = {}

(***************************************************************************)
(* The file system changes, and the exact changed path is recorded.        *)
(***************************************************************************)
\* IdentityEngine.record_changes, the watcher's flush.
Recorded(n) ==
    /\ tPaths' = tPaths \cup {n}
    /\ tState' = IF tState = "unknown" THEN "unknown" ELSE "dirty"

Tick == clock < MaxClock /\ clock' = clock + 1

WriteFile(f) ==
    /\ Exists(Parent[f]) /\ Tick
    /\ now' = [now EXCEPT ![f] = clock + 1]
    /\ Recorded(f)
    /\ UNCHANGED <<caches, moved>>

DeleteFile(f) ==
    /\ Exists(f) /\ Tick
    /\ now' = [now EXCEPT ![f] = Absent]
    /\ Recorded(f)
    /\ UNCHANGED <<caches, moved>>

\* A directory renamed away or in brings everything below it; the kernel
\* reports the directory.
MoveAway(d) ==
    /\ Exists(d) /\ Tick
    /\ now' = [n \in Nodes |-> IF n \in {d} \cup Below(d) THEN Absent ELSE now[n]]
    /\ Recorded(d)
    /\ moved' = moved \cup {d}
    /\ UNCHANGED caches

MoveIn(d) ==
    /\ ~Exists(d) /\ Exists(Parent[d]) /\ Tick
    /\ now' = [n \in Nodes |->
                 CASE n \in {d} \cup (Below(d) \cap Dirs) -> Here
                   [] n \in Below(d) \cap Files           -> clock + 1
                   [] OTHER                               -> now[n]]
    /\ Recorded(d)
    /\ moved' = moved \cup {d}
    /\ UNCHANGED caches

\* mark_observer_unknown
LoseObserver ==
    /\ tState' = "unknown" /\ tPaths' = {}
    /\ UNCHANGED <<fs, caches, moved>>

(***************************************************************************)
(* A read: _run_reconciled around _directory_digest or digest_manifest.    *)
(***************************************************************************)
\* Mutant of Invalidates: the walk stops at the first directory.
InvalidatesParentOnly(p, d) == IF IsDir(p) THEN d = p ELSE d = Parent[p]

\* invalidate: a path that is no directory now counts as a file.
Invalidates(p, d) ==
    IF IsDir(p) THEN d = p \/ d \in Above[p] ELSE d \in Above[p]

\* Mutant of PathForgotten: only what is below a changed directory.
PathForgottenBelow(n) == \E p \in tPaths : IsDir(p) /\ n \in Below(p)

\* _invalidate_path_cache: the path, and below a directory everything.
PathForgotten(n) ==
    \E p \in tPaths : n = p \/ (IsDir(p) /\ n \in Below(p))

\* Mutant of LeafForgotten: a change below a selected directory is not its own.
LeafForgottenAtOrAbove(n) == \E p \in tPaths : n = p \/ p \in Above[n]

\* _ManifestTree.invalidate: the terminal, one below it or one above it.
LeafForgotten(n) ==
    \E p \in tPaths : n = p \/ n \in Above[p] \/ p \in Above[n]

\* The caches after _prepare_observation, the first half of every read.
Forget(cache, lost(_)) ==
    [n \in DOMAIN cache |-> IF tState = "unknown" \/ lost(n) THEN None ELSE cache[n]]

KeptDirs   == Forget(dirCache, LAMBDA d : \E p \in tPaths : Invalidates(p, d))
KeptPaths  == Forget(pathCache, PathForgotten)
KeptLeaves == Forget(leaf, LeafForgotten)

\* _finish_observation: nothing changed since the snapshot (IdentityLane has the
\* changes in between, and the retries).
Finished ==
    /\ tState' = "clean" /\ tPaths' = {}
    /\ moved' = IF tState = "unknown" THEN {} ELSE moved
    /\ UNCHANGED fs

\* _discard_failed_reconciliation.  Whatever the failed read has left in the
\* caches, the next read drops.
Failed ==
    /\ tState' = "unknown" /\ tPaths' = {}
    /\ dirCache' = KeptDirs /\ pathCache' = KeptPaths /\ leaf' = KeptLeaves
    /\ UNCHANGED <<fs, moved>>

\* _directory_digest's answer.
DirValue(d, verify) == IF verify THEN Truth(d) ELSE Composed(KeptDirs)[d]

\* Mutant of Computed: every directory of one walk is cached as its top.
ComputedUnderTop(ds, verify) ==
    [d \in Dirs |->
        IF \E e \in ds : d \in Listed(KeptDirs, e, verify)
          THEN DirValue(CHOOSE e \in ds : d \in Listed(KeptDirs, e, verify), verify)
          ELSE KeptDirs[d]]

\* The directory cache after the directories ds are asked for: _cache_directory
\* of every directory that had to be listed.
Computed(ds, verify) ==
    [d \in Dirs |-> IF \E e \in ds : d \in Listed(KeptDirs, e, verify)
                      THEN DirValue(d, verify) ELSE KeptDirs[d]]

\* directory_digest.  The cache is asked before the directory is.
ReadDirectory(d, verify) ==
    IF Exists(d) \/ (~verify /\ KeptDirs[d] # None)
      THEN /\ dirCache' = Computed({d}, verify)
           /\ pathCache' = KeptPaths /\ leaf' = KeptLeaves
           /\ Finished
      ELSE Failed

\* path_digest of a file.
ReadFile(f, verify) ==
    IF Exists(f) \/ (~verify /\ KeptPaths[f] # None)
      THEN /\ pathCache' = [KeptPaths EXCEPT ![f] =
                              IF verify \/ @ = None THEN now[f] ELSE @]
           /\ dirCache' = KeptDirs /\ leaf' = KeptLeaves
           /\ Finished
      ELSE Failed

\* digest_manifest.  asked: the terminals that are not cached nodes of the trie;
\* unread: those of them _prime_manifest_terminals looks up on the disk.
ReadManifest(verify) ==
    LET asked   == {n \in Terminals : verify \/ KeptLeaves[n] = None}
        unread  == {n \in asked : n \in Files => verify \/ KeptPaths[n] = None}
        read    == [f \in Files |-> IF f \in unread THEN now[f] ELSE KeptPaths[f]]
        node(n) == IF n \in Dirs THEN DirValue(n, verify) ELSE read[n]
    IN  IF \A n \in unread : Exists(n)
          THEN /\ leaf' = [n \in Terminals |-> IF n \in asked THEN node(n) ELSE leaf[n]]
               /\ pathCache' = read
               /\ dirCache' = Computed(asked \cap Dirs, verify)
               /\ Finished
          ELSE Failed

Next ==
    \/ \E f \in Files : WriteFile(f) \/ DeleteFile(f)
    \/ \E d \in Movable : MoveAway(d) \/ MoveIn(d)
    \/ LoseObserver
    \/ \E verify \in BOOLEAN :
         \/ ReadManifest(verify)
         \/ \E d \in Dirs : ReadDirectory(d, verify)
         \/ \E f \in Files : ReadFile(f, verify)

Spec == Init /\ [][Next]_vars

(***************************************************************************)
(* Correctness                                                             *)
(***************************************************************************)
\* I2, I3 (docs/reference/INVARIANTS.md): whatever was changed and read before, the next
\* fast read of a directory that is there says what a strong verification would
\* say (_directory_digest over what _prepare_observation leaves).
FastEqualsStrong ==
    \A d \in Dirs : Exists(d) => Composed(KeptDirs)[d] = Truth(d)

\* It does as long as no directory is moved as a whole.
FastEqualsStrongUnmoved == moved = {} => FastEqualsStrong

\* The same of the members of a manifest: neither the trie nor the path cache
\* holds what is no longer there, or what is above or below a change.
TrustedPath(f) == KeptPaths[f] # None => KeptPaths[f] = now[f]
TrustedLeaf(n) ==
    KeptLeaves[n] # None => KeptLeaves[n] = IF n \in Dirs THEN Truth(n) ELSE now[n]

MembersExactUnmoved ==
    moved = {} => /\ \A f \in Files : TrustedPath(f)
                  /\ \A n \in Terminals : TrustedLeaf(n)

(* While nothing is moved as a whole, the daemon's fast answers are those of a *)
(* strong verification, of a directory and of the members of a manifest.      *)
ExactUnmoved == FastEqualsStrongUnmoved /\ MembersExactUnmoved

\* A directory moved as a whole endangers only what is below it: whatever else
\* a cached directory or file says is what is there.  And of what the moved
\* directory holds directly, only while that directory is gone.
AtRisk(n) == \E m \in moved : m \in Above[n] /\ (Parent[n] = m => ~Exists(m))

ExactOutsideMoves ==
    /\ \A d \in Dirs : KeptDirs[d] # None =>
          \A n \in Below(d) : AtRisk(n) \/ KeptDirs[d][n] = now[n]
    /\ \A f \in Files : AtRisk(f) \/ TrustedPath(f)
    /\ \A n \in Terminals \cap Files : AtRisk(n) \/ TrustedLeaf(n)
=============================================================================
