---------------------------- MODULE WatchCoverage -----------------------------
(***************************************************************************)
(* Which directories the inotify watcher watches.  Directories are made,   *)
(* renamed and removed while the reader handles the events of earlier      *)
(* changes, adds a watch, scans, and descends.                             *)
(*                                                                         *)
(* A flush and the reconciliation it leads to are one step here            *)
(* (IdentityLane and IndexWatch take them apart), and so is the handling   *)
(* of an event up to the recursion it starts; the exceptions that end the  *)
(* reader are IndexWatch's.  Names that are excluded from watching, and    *)
(* moves out of and into the workspace, are left out.                      *)
(***************************************************************************)
EXTENDS Integers, FiniteSets, Sequences, SequencesExt, Functions

CONSTANTS
    Names,          \* names of directories
    InitialDirs,    \* the directories below the root that exist at the start
    None,           \* no directory
    MaxDepth,       \* bound of the model: the depth of the tree
    MaxMakes,       \* bound of the model: mkdir
    MaxMoves,       \* bound of the model: rename of a directory
    MaxRemoves,     \* bound of the model: rmdir
    MaxWrites,      \* bound of the model: changes of files
    MaxLosses       \* bound of the model: overflows of the inotify queue, and watches
                    \* refused for want of capacity

Paths == UNION {[1..n -> Names] : n \in 0..MaxDepth}

Below(p, q) == Len(p) <= Len(q) /\ SubSeq(q, 1, Len(p)) = p   \* q is p or below it

\* What the constants are; every directory is in one that exists.
CoverageAssumption ==
    /\ InitialDirs \subseteq Paths \ {<<>>} /\ IsFiniteSet(InitialDirs)
    /\ \A p \in InitialDirs : \A q \in Paths \ {<<>>} : Below(q, p) => q \in InitialDirs
    /\ None \notin Names \cup Nat
    /\ {MaxDepth, MaxMakes, MaxMoves, MaxRemoves, MaxWrites, MaxLosses}
          \subseteq Nat

VARIABLES
    tree,           \* the directory (its inode) at every path
    watches,        \* inotify: the directory behind every watch descriptor
    queue,          \* inotify: the events not yet read
    data,           \* _process_data: the events read and not yet handled
    todo,           \* _add_recursive: the calls that are still to be made
    wdToRel, relToWd,           \* _wd_to_rel and _rel_to_wd
    batch,          \* DirtyBatch: files, and directories as a whole
    unknown,        \* the tracker is unknown
    stale,          \* directories whose content was not read since it changed
    used,           \* how much of every bound is used up
    lost,           \* history: an event was lost or a watch refused
    crossed,        \* history: a directory was renamed to where the reader was to come
    gap             \* history: changed after its directory was reconciled and
                    \* before it was watched

kernel == <<watches, queue>>
reader == <<data, todo, wdToRel, relToWd>>
vars   == <<tree, kernel, reader, batch, unknown, stale, used, lost, crossed, gap>>

Inodes == 0..(Cardinality(InitialDirs) + used.make)
Events == [wd : Nat, kind : {"in", "out", "file", "self", "ignored"}, name : Names \cup {None}]
            \cup {[kind |-> "overflow"]}

Dirs        == {p \in Paths : tree[p] # None}
Children(p) == {q \in Dirs : Len(q) = Len(p) + 1 /\ Below(p, q)}

TypeOK ==
    /\ tree \in [Paths -> Inodes \cup {None}] /\ tree[<<>>] = 0
    /\ \A p, q \in Dirs : tree[p] = tree[q] => p = q
    /\ \A p \in Dirs \ {<<>>} : Front(p) \in Dirs
    /\ Range(watches) \subseteq Inodes
    /\ Range(queue) \cup Range(data) \subseteq Events
    /\ \A i \in DOMAIN todo : todo[i] \in {"add", "scan"} \X Seq(Names)
    /\ DOMAIN wdToRel \subseteq Nat /\ Range(wdToRel) \subseteq Paths
    /\ DOMAIN relToWd \subseteq Paths /\ Range(relToWd) \subseteq Nat
    /\ batch \subseteq {"file", "tree"} \X Seq(Names) /\ unknown \in BOOLEAN
    /\ stale \subseteq Inodes /\ gap \subseteq Inodes
    /\ lost \in BOOLEAN /\ crossed \in BOOLEAN
    /\ \A wd \in DOMAIN wdToRel :                               \* the maps agree
          wdToRel[wd] \in DOMAIN relToWd /\ relToWd[wdToRel[wd]] = wd

\* start(): everything there is has been watched, and the first reconciliation is done.
Init ==
    LET dirs   == <<<<>>>> \o SetToSeq(InitialDirs)
        number == [p \in Range(dirs) |-> (CHOOSE i \in DOMAIN dirs : dirs[i] = p) - 1]
    IN /\ tree = [p \in Paths |-> IF p \in DOMAIN number THEN number[p] ELSE None]
       /\ watches = [wd \in Range(number) |-> wd]
       /\ wdToRel = [wd \in Range(number) |-> CHOOSE p \in DOMAIN number : number[p] = wd]
       /\ relToWd = number
       /\ queue = <<>> /\ data = <<>> /\ todo = <<>>
       /\ batch = {} /\ unknown = FALSE /\ stale = {}
       /\ used = [make |-> 0, move |-> 0, remove |-> 0, write |-> 0, lose |-> 0,
                  wd |-> Cardinality(InitialDirs)]
       /\ lost = FALSE /\ crossed = FALSE /\ gap = {}

Use(some) == used' = [b \in DOMAIN used |-> IF b \in some THEN used[b] + 1 ELSE used[b]]
Idle      == queue = <<>> /\ data = <<>> /\ todo = <<>>

(***************************************************************************)
(* The file system and inotify                                             *)
(***************************************************************************)
Watching(dir) == {wd \in DOMAIN watches : watches[wd] = dir}
Event(dir, kind, name) ==
    IF Watching(dir) = {} THEN <<>>
    ELSE <<[wd |-> CHOOSE wd \in Watching(dir) : TRUE, kind |-> kind, name |-> name]>>

\* What happens is queued, or all of it is lost in an overflow.
Emit(bound, events) ==
    \/ /\ queue' = queue \o events /\ UNCHANGED lost
       /\ Use({bound})
    \/ /\ used.lose < MaxLosses /\ events # <<>>
       /\ queue' = Append(queue, [kind |-> "overflow"]) /\ lost' = TRUE
       /\ Use({bound, "lose"})

\* An event that is not handled yet says that q, or a directory above it, is new.
Announced(q) ==
    \E e \in Range(queue \o data) :
       /\ e.kind = "in" /\ e.wd \in DOMAIN wdToRel
       /\ Below(Append(wdToRel[e.wd], e.name), q)

\* A change in p that concerns dir falls between the reconciliation of p and its watch.
Unseen(p, dir) ==
    LET due == Announced(p) \/ \E q \in Paths : <<"tree", q>> \in batch /\ Below(q, p)
    IN  gap' = IF Watching(tree[p]) = {} /\ ~due THEN gap \cup {dir} ELSE gap

\* The reader is to come upon q, or upon something in it, for another reason than the
\* events of this rename: a directory above is new to it, or what once was at q is
\* still announced.
Underway(q) ==
    \/ Watching(tree[Front(q)]) = {}
    \/ \E r \in Paths : Below(q, r) /\ Announced(r)
    \/ \E i \in DOMAIN todo : Below(todo[i][2], q) \/ Below(q, todo[i][2])

Mkdir(p) ==
    /\ used.make < MaxMakes /\ p # <<>> /\ p \notin Dirs /\ Front(p) \in Dirs
    /\ LET new == Cardinality(InitialDirs) + used.make + 1
       IN  /\ tree' = [tree EXCEPT ![p] = new]
           /\ stale' = stale \cup {new}
           /\ Unseen(Front(p), new)
    /\ Emit("make", Event(tree[Front(p)], "in", Last(p)))
    /\ UNCHANGED <<watches, reader, batch, unknown, crossed>>

Moved(p, q) ==
    [r \in Paths |-> IF Below(p, r) THEN None
                     ELSE IF Below(q, r)
                          THEN LET from == p \o SubSeq(r, Len(q) + 1, Len(r))
                               IN  IF from \in Paths THEN tree[from] ELSE None
                          ELSE tree[r]]

\* The two events of a rename are queued before any other.
Rename(p, q) ==
    /\ used.move < MaxMoves /\ p \in Dirs \ {<<>>} /\ q \notin Dirs /\ Front(q) \in Dirs
    /\ ~Below(p, q)
    /\ \A r \in Dirs : Below(p, r) => Len(r) - Len(p) + Len(q) <= MaxDepth
    /\ tree' = Moved(p, q)
    /\ stale' = stale \cup {tree[r] : r \in {r \in Dirs : Below(p, r)}}
    /\ Emit("move", Event(tree[Front(p)], "out", Last(p))
                      \o Event(tree[Front(q)], "in", Last(q))
                      \o Event(tree[p], "self", None))
    /\ crossed' = (crossed \/ Underway(q))
    /\ UNCHANGED <<watches, reader, batch, unknown, gap>>

\* The watch of a directory ends with it.
Rmdir(p) ==
    /\ used.remove < MaxRemoves /\ p \in Dirs \ {<<>>} /\ Children(p) = {}
    /\ tree' = [tree EXCEPT ![p] = None] /\ stale' = stale \ {tree[p]}
    /\ watches' = Restrict(watches, DOMAIN watches \ Watching(tree[p]))
    /\ Emit("remove", Event(tree[Front(p)], "out", Last(p))
                        \o Event(tree[p], "self", None) \o Event(tree[p], "ignored", None))
    /\ UNCHANGED <<reader, batch, unknown, crossed, gap>>

\* A file of a directory is created, written or deleted.
Write(p) ==
    /\ used.write < MaxWrites /\ p \in Dirs
    /\ stale' = stale \cup {tree[p]}
    /\ Unseen(p, tree[p])
    /\ Emit("write", Event(tree[p], "file", None))
    /\ UNCHANGED <<tree, watches, reader, batch, unknown, crossed>>

(***************************************************************************)
(* The reader                                                              *)
(***************************************************************************)
ReadChunk ==
    /\ data = <<>> /\ todo = <<>> /\ queue # <<>>
    /\ data' = queue /\ queue' = <<>>
    /\ UNCHANGED <<tree, watches, todo, wdToRel, relToWd, batch, unknown, stale, used, lost,
                   crossed, gap>>

\* _remove_prefix_watches; the kernel answers each with an IGNORED event.
Victims(p)     == {q \in DOMAIN relToWd : Below(p, q)}
VictimWds(p)   == {relToWd[q] : q \in Victims(p)}

\* Mutant of RemovePrefixWatches: the descriptors are still taken for the old names.
RemovePrefixWatchesNamed(p) ==
    /\ relToWd' = Restrict(relToWd, DOMAIN relToWd \ Victims(p))
    /\ UNCHANGED wdToRel
    /\ watches' = Restrict(watches, DOMAIN watches \ VictimWds(p))
    /\ queue' = queue \o SetToSeq({[wd |-> wd, kind |-> "ignored", name |-> None] :
                                     wd \in VictimWds(p) \cap DOMAIN watches})

RemovePrefixWatches(p) ==
    /\ relToWd' = Restrict(relToWd, DOMAIN relToWd \ Victims(p))
    /\ wdToRel' = Restrict(wdToRel, DOMAIN wdToRel \ VictimWds(p))
    /\ watches' = Restrict(watches, DOMAIN watches \ VictimWds(p))
    /\ queue' = queue \o SetToSeq({[wd |-> wd, kind |-> "ignored", name |-> None] :
                                     wd \in VictimWds(p) \cap DOMAIN watches})

\* _handle_watch_state_event and _handle_path_event, for the next event.
HandleOverflow ==
    /\ Head(data).kind = "overflow"
    /\ unknown' = TRUE
    /\ UNCHANGED <<kernel, todo, wdToRel, relToWd, batch>>

HandleIgnored ==
    /\ Head(data).kind = "ignored"
    /\ LET wd == Head(data).wd
           known == wd \in DOMAIN wdToRel
       IN  /\ wdToRel' = Restrict(wdToRel, DOMAIN wdToRel \ {wd})
           /\ relToWd' = IF known THEN Restrict(relToWd, DOMAIN relToWd \ {wdToRel[wd]})
                         ELSE relToWd
    /\ UNCHANGED <<kernel, todo, batch, unknown>>

\* _event_path: an event of a watch that is not known any more is passed over.
HandleUnnamed ==
    /\ Head(data).kind \notin {"overflow", "ignored"}
    /\ Head(data).wd \notin DOMAIN wdToRel
    /\ UNCHANGED <<kernel, todo, wdToRel, relToWd, batch, unknown>>

Rel == IF Head(data).name = None THEN wdToRel[Head(data).wd]
       ELSE Append(wdToRel[Head(data).wd], Head(data).name)

\* Mutant of HandlePath: an event of a directory only changes the watches.
HandlePathFilesOnly ==
    /\ Head(data).kind \in {"in", "out", "file", "self"}
    /\ Head(data).wd \in DOMAIN wdToRel
    /\ batch' = IF Head(data).kind = "file" THEN batch \cup {<<"file", Rel>>} ELSE batch
    /\ todo' = IF Head(data).kind = "in" THEN <<<<"add", Rel>>>> ELSE <<>>
    /\ IF Head(data).kind = "out" THEN RemovePrefixWatches(Rel)
       ELSE UNCHANGED <<kernel, wdToRel, relToWd>>
    /\ UNCHANGED unknown

HandlePath ==
    /\ Head(data).kind \in {"in", "out", "file", "self"}
    /\ Head(data).wd \in DOMAIN wdToRel
    /\ batch' = batch \cup {<<IF Head(data).kind = "file" THEN "file" ELSE "tree", Rel>>}
    /\ todo' = IF Head(data).kind = "in" THEN <<<<"add", Rel>>>> ELSE <<>>
    /\ IF Head(data).kind = "out" THEN RemovePrefixWatches(Rel)
       ELSE UNCHANGED <<kernel, wdToRel, relToWd>>
    /\ UNCHANGED unknown

Handle ==
    /\ todo = <<>> /\ data # <<>>
    /\ data' = Tail(data)
    /\ HandleOverflow \/ HandleIgnored \/ HandleUnnamed \/ HandlePath
    /\ UNCHANGED <<tree, stale, used, lost, crossed, gap>>

At(call) == todo # <<>> /\ Head(todo)[1] = call

\* _add_watch.  A directory that is watched already keeps its descriptor; of a name
\* that is known nothing is asked.
Registered(p, wd) ==
    /\ wdToRel' = [w \in DOMAIN wdToRel \cup {wd} |-> IF w = wd THEN p ELSE wdToRel[w]]
    /\ relToWd' = [q \in DOMAIN relToWd \cup {p} |-> IF q = p THEN wd ELSE relToWd[q]]

AddWatch ==
    /\ At("add")
    /\ LET p == Head(todo)[2]
       IN  /\ todo' = <<<<"scan", p>>>> \o Tail(todo)
           /\ \/ /\ p \notin Dirs \/ p \in DOMAIN relToWd
                 /\ UNCHANGED <<watches, wdToRel, relToWd, used>>
              \/ /\ p \in Dirs \ DOMAIN relToWd /\ Watching(tree[p]) # {}
                 /\ \E wd \in Watching(tree[p]) : Registered(p, wd)
                 /\ UNCHANGED <<watches, used>>
              \/ /\ p \in Dirs \ DOMAIN relToWd /\ Watching(tree[p]) = {}
                 /\ Use({"wd"}) /\ Registered(p, used'.wd)
                 /\ watches' = [wd \in DOMAIN watches \cup {used'.wd} |->
                                  IF wd = used'.wd THEN tree[p] ELSE watches[wd]]
    /\ UNCHANGED <<tree, queue, data, batch, unknown, stale, lost, crossed, gap>>

\* Capacity: the tracker is unknown, and the rest of what was read is dropped.
AddRefused ==
    /\ At("add") /\ used.lose < MaxLosses
    /\ Head(todo)[2] \in Dirs \ DOMAIN relToWd /\ Watching(tree[Head(todo)[2]]) = {}
    /\ Use({"lose"}) /\ unknown' = TRUE /\ lost' = TRUE
    /\ todo' = <<>> /\ data' = <<>>
    /\ UNCHANGED <<tree, kernel, wdToRel, relToWd, batch, stale, crossed, gap>>

\* Mutant of Scan: only the new directory itself is watched.
ScanTop ==
    /\ At("scan") /\ todo' = Tail(todo)
    /\ UNCHANGED <<tree, kernel, data, wdToRel, relToWd, batch, unknown, stale, used, lost,
                   crossed, gap>>

\* The rest of _add_recursive: the subdirectories that are there now.
Scan ==
    /\ At("scan")
    /\ \E children \in SetToSeqs(Children(Head(todo)[2])) :
          todo' = [i \in DOMAIN children |-> <<"add", children[i]>>] \o Tail(todo)
    /\ UNCHANGED <<tree, kernel, data, wdToRel, relToWd, batch, unknown, stale, used, lost,
                   crossed, gap>>

(***************************************************************************)
(* Reconciliation                                                          *)
(***************************************************************************)
Covered == {tree[p] : p \in {p \in Dirs : \/ <<"file", p>> \in batch
                                          \/ \E q \in Paths : <<"tree", q>> \in batch /\ Below(q, p)}}

\* Everything recorded is read, and everything at all if the tracker is unknown.
Reconcile ==
    /\ batch # {} \/ unknown
    /\ stale' = IF unknown THEN {} ELSE stale \ Covered
    /\ batch' = {} /\ unknown' = FALSE
    /\ UNCHANGED <<tree, kernel, reader, used, lost, crossed, gap>>

Next ==
    \/ \E p \in Paths : Mkdir(p) \/ Rmdir(p) \/ Write(p)
    \/ \E p, q \in Paths : Rename(p, q)
    \/ ReadChunk \/ Handle \/ AddWatch \/ AddRefused \/ Scan
    \/ Reconcile

Spec == Init /\ [][Next]_vars

(***************************************************************************)
(* Properties                                                              *)
(***************************************************************************)
Settled == Idle /\ batch = {} /\ ~unknown

Watched(p) ==
    /\ p \in DOMAIN relToWd /\ relToWd[p] \in DOMAIN watches
    /\ watches[relToWd[p]] = tree[p]
    /\ relToWd[p] \in DOMAIN wdToRel /\ wdToRel[relToWd[p]] = p

(* What INVARIANTS.md asks (O2): an observation that is incomplete is unknown. *)
(* Once every event is handled and everything recorded is reconciled, each   *)
(* directory has a watch under its own name.  The code breaks it: what an    *)
(* overflow or a refused watch has left out is never watched afterwards, and *)
(* a rename can lead to a watch that is taken away under its other name.     *)
AllWatched == Settled => \A p \in Dirs : Watched(p)

(* Without losses, and without a rename to a place the reader has yet to come *)
(* to, because it lies in a new directory or an older event announces it,    *)
(* every order of mkdir, rename, rmdir and the reader's own steps ends with  *)
(* all directories watched under their names.                                *)
AllWatchedUnlessCrossed == ~lost /\ ~crossed => AllWatched

(* What is clean has been read since its last change (O2, O3).  The code     *)
(* breaks it even without losses: a new directory is recorded before it is   *)
(* watched, so a reconciliation may come in between.                         *)
NothingMissed == Settled /\ ~lost /\ ~crossed => stale = {}

(* That is the only way: a change that was watched, recorded or announced    *)
(* when it happened is read, however often directories are renamed, removed  *)
(* and made again before the reader comes to its events.                     *)
MissedOnlyInGap == Settled /\ ~lost /\ ~crossed => stale \subseteq gap
===============================================================================
