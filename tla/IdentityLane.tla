---------------------------- MODULE IdentityLane ----------------------------
(***************************************************************************)
(* The observation lane of the identity daemon: the kernel's inotify queue,*)
(* NativeLinuxBatchWatcher's read thread and flush thread, ChangeTracker,  *)
(* the hot Merkle cache and the request threads of IdentityDaemon that     *)
(* pass the request barrier, reconcile and answer.                         *)
(*                                                                         *)
(* Abstractions.  disk[p] counts the changes of a selected path p and      *)
(* stands for its bytes; a digest is injective, so the digest of a path is *)
(* its version and an input root is the function from paths to versions it *)
(* was composed from.  hot[p] stands for everything MerkleTree keeps of p  *)
(* between requests: the entry of _path_cache, the node of the manifest    *)
(* trie and, when every path has one, _root_digest; the code clears and    *)
(* fills the three together.  A file is read in one step: that the bytes   *)
(* read are those of one version is the contract of FileDigestStore.       *)
(***************************************************************************)
EXTENDS Integers, FiniteSets

CONSTANTS
    Paths,        \* the selected paths of the one manifest that is asked for
    Requests,     \* the daemon's request threads (socketserver.ThreadingMixIn)
    Loop,         \* the watcher's read thread
    Flusher,      \* the watcher's flush thread
    Free,         \* _read_lock is not held
    None,         \* no cached or read version
    QueueMax,     \* fs.inotify.max_queued_events
    MaxAttempts,  \* _MAX_RECONCILE_ATTEMPTS
    MaxVersion,   \* bound of the model: changes per path
    MaxIssued     \* bound of the model: requests in a behaviour

ASSUME ActorsAssumption ==
    /\ Loop \notin Requests \cup {Flusher, Free}
    /\ Flusher \notin Requests \cup {Free}
    /\ Free \notin Requests
ASSUME NoneAssumption == None \notin Nat
ASSUME BoundsAssumption ==
    /\ QueueMax \in Nat /\ MaxVersion \in Nat /\ MaxIssued \in Nat
    /\ MaxAttempts \in Nat \ {0}

VARIABLES
    disk,         \* the version of each path
    gone,         \* the paths that do not exist now
    queue,        \* the paths with an event in the kernel's queue
    overflow,     \* the queue ends with IN_Q_OVERFLOW
    alive,        \* the read thread is running
    flushing,     \* the flush thread is running
    lock,         \* _read_lock
    data,         \* the events of the chunk the lock's holder has read
    dataOverflow, \* that chunk still holds IN_Q_OVERFLOW
    batch,        \* DirtyBatch._paths
    taken,        \* per thread, the paths drained and not yet marked dirty
    tState,       \* ChangeTracker._state
    tGen,         \* ChangeTracker._generation
    tPaths,       \* ChangeTracker._paths
    hot,          \* the hot Merkle cache
    pc,           \* where each request is
    mode,         \* input_root, input_root with verify, observe_inputs
    gen,          \* the generation _prepare_observation returned
    attempt,      \* the failed attempts of _run_reconciled
    seen,         \* the versions the attempt has composed so far
    marks,        \* InputCapture._states, None where validated or not captured
    start,        \* history: the disk when the request arrived
    mid,          \* history: the disk when validation began
    blind,        \* history: what other threads held at the request's flush
    issued        \* the requests so far

env     == <<disk, gone>>
kernel  == <<queue, overflow>>
reader  == <<alive, lock, data, dataOverflow>>
flush   == <<flushing, batch, taken>>
tracker == <<tState, tGen, tPaths>>
request == <<pc, mode, gen, attempt, seen, marks, start, mid, blind, issued>>
vars    == <<env, kernel, reader, flush, tracker, hot, request>>

Readers  == Requests \cup {Loop}
Flushers == Requests \cup {Flusher}
Versions == Nat \cup {None}
Nothing  == [p \in Paths |-> None]

Modes == {"fast", "verify", "capture"}
PCs   == {"idle", "barrier", "drain", "flush", "mark", "check", "prepare",
          "begin", "read", "validate", "finish", "done", "failed"}

EnvTypeOK == disk \in [Paths -> Nat] /\ gone \subseteq Paths

WatcherTypeOK ==
    /\ queue \subseteq Paths /\ overflow \in BOOLEAN
    /\ alive \in BOOLEAN /\ flushing \in BOOLEAN
    /\ lock \in Readers \cup {Free}
    /\ data \subseteq Paths /\ dataOverflow \in BOOLEAN
    /\ batch \subseteq Paths /\ taken \in [Flushers -> SUBSET Paths]

TrackerTypeOK ==
    /\ tState \in {"clean", "dirty", "unknown"} /\ tGen \in Nat
    /\ tPaths \subseteq Paths
    /\ hot \in [Paths -> Versions]

RequestTypeOK ==
    /\ pc \in [Requests -> PCs] /\ mode \in [Requests -> Modes]
    /\ gen \in [Requests -> Nat] /\ attempt \in [Requests -> 0..MaxAttempts]
    /\ seen \in [Requests -> [Paths -> Versions]]
    /\ marks \in [Requests -> [Paths -> Versions]]
    /\ start \in [Requests -> [Paths -> Nat]]
    /\ mid \in [Requests -> [Paths -> Nat]]
    /\ blind \in [Requests -> SUBSET Paths]
    /\ issued \in Nat

\* range(_MAX_RECONCILE_ATTEMPTS): a request that runs has an attempt left.
AttemptsLeft ==
    \A r \in Requests :
        pc[r] \notin {"idle", "done", "failed"} => attempt[r] < MaxAttempts

TypeOK ==
    EnvTypeOK /\ WatcherTypeOK /\ TrackerTypeOK /\ RequestTypeOK /\ AttemptsLeft

\* serve_forever starts the watcher before the socket, under a new tracker.
Init ==
    /\ disk = [p \in Paths |-> 0] /\ gone = {}
    /\ queue = {} /\ overflow = FALSE
    /\ alive = TRUE /\ flushing = TRUE
    /\ lock = Free /\ data = {} /\ dataOverflow = FALSE
    /\ batch = {} /\ taken = [a \in Flushers |-> {}]
    /\ tState = "unknown" /\ tGen = 0 /\ tPaths = {}
    /\ hot = Nothing
    /\ pc = [r \in Requests |-> "idle"] /\ mode = [r \in Requests |-> "fast"]
    /\ gen = [r \in Requests |-> 0] /\ attempt = [r \in Requests |-> 0]
    /\ seen = [r \in Requests |-> Nothing]
    /\ marks = [r \in Requests |-> Nothing]
    /\ start = [r \in Requests |-> [p \in Paths |-> 0]]
    /\ mid = [r \in Requests |-> [p \in Paths |-> 0]]
    /\ blind = [r \in Requests |-> {}]
    /\ issued = 0

(***************************************************************************)
(* ChangeTracker                                                           *)
(***************************************************************************)
MarkDirty(paths) ==
    /\ tPaths' = tPaths \cup paths
    /\ tState' = IF tState = "unknown" THEN "unknown" ELSE "dirty"
    /\ tGen' = tGen + 1

MarkUnknown(times) ==
    /\ tState' = "unknown" /\ tPaths' = {}
    /\ tGen' = tGen + times

\* Committing on an already clean tracker is not a new generation.
MarkReconciled ==
    IF tState = "clean" /\ tPaths = {}
      THEN UNCHANGED tracker
      ELSE tState' = "clean" /\ tPaths' = {} /\ tGen' = tGen + 1

(***************************************************************************)
(* The file system and the kernel: a path is written, created or removed.  *)
(***************************************************************************)
Change(p) ==
    /\ disk[p] < MaxVersion
    /\ disk' = [disk EXCEPT ![p] = @ + 1]
    /\ \/ gone' = gone \ {p}
       \/ p \notin gone /\ gone' = gone \cup {p}
    /\ IF overflow \/ (Cardinality(queue) >= QueueMax /\ p \notin queue)
         THEN overflow' = TRUE /\ UNCHANGED queue
         ELSE queue' = queue \cup {p} /\ UNCHANGED overflow
    /\ UNCHANGED <<reader, flush, tracker, hot, request>>

(***************************************************************************)
(* _drain_ready, by the read thread and by every request's synchronize.    *)
(***************************************************************************)
\* os.read takes what the queue holds.
TakeQueue ==
    /\ data' = queue /\ queue' = {}
    /\ dataOverflow' = overflow /\ overflow' = FALSE

LoopDrain ==
    /\ alive /\ lock = Free
    /\ queue # {} \/ overflow
    /\ lock' = Loop
    /\ TakeQueue
    /\ UNCHANGED <<env, alive, flush, tracker, hot, request>>

\* Mutant: the barrier's read blocks while the queue is empty.
RequestDrainBlocking(r) ==
    /\ pc[r] = "barrier" /\ alive /\ lock = Free
    /\ queue # {} \/ overflow
    /\ lock' = r
    /\ TakeQueue
    /\ pc' = [pc EXCEPT ![r] = "drain"]
    /\ UNCHANGED <<env, alive, flush, tracker, hot, mode, gen, attempt, seen,
                   marks, start, mid, blind, issued>>

RequestDrain(r) ==
    /\ pc[r] = "barrier" /\ alive /\ lock = Free
    /\ lock' = r
    /\ TakeQueue
    /\ pc' = [pc EXCEPT ![r] = "drain"]
    /\ UNCHANGED <<env, alive, flush, tracker, hot, mode, gen, attempt, seen,
                   marks, start, mid, blind, issued>>

HandleEvent(p) ==
    /\ lock # Free /\ p \in data
    /\ data' = data \ {p} /\ batch' = batch \cup {p}
    /\ UNCHANGED <<env, kernel, alive, lock, dataOverflow, flushing, taken,
                   tracker, hot, request>>

HandleOverflow ==
    /\ lock # Free /\ data = {} /\ dataOverflow
    /\ dataOverflow' = FALSE
    /\ MarkUnknown(1)
    /\ UNCHANGED <<env, kernel, alive, lock, data, flush, hot, request>>

\* The holder reads again until the descriptor would block.
DrainAgain ==
    /\ lock # Free /\ data = {} /\ ~dataOverflow
    /\ queue # {} \/ overflow
    /\ TakeQueue
    /\ UNCHANGED <<env, alive, lock, flush, tracker, hot, request>>

Drained == data = {} /\ ~dataOverflow /\ queue = {} /\ ~overflow

LoopDone ==
    /\ lock = Loop /\ Drained
    /\ lock' = Free
    /\ UNCHANGED <<env, kernel, alive, data, dataOverflow, flush, tracker, hot,
                   request>>

\* Mutant: synchronize drains the descriptor and forgets _flush_now.
RequestDrainedNoFlush(r) ==
    /\ pc[r] = "drain" /\ Drained
    /\ lock' = Free
    /\ pc' = [pc EXCEPT ![r] = "check"]
    /\ UNCHANGED <<env, kernel, alive, data, dataOverflow, flush, tracker, hot,
                   mode, gen, attempt, seen, marks, start, mid, blind, issued>>

RequestDrained(r) ==
    /\ pc[r] = "drain" /\ Drained
    /\ lock' = Free
    /\ pc' = [pc EXCEPT ![r] = "flush"]
    /\ UNCHANGED <<env, kernel, alive, data, dataOverflow, flush, tracker, hot,
                   mode, gen, attempt, seen, marks, start, mid, blind, issued>>

\* An exception in the read thread ends it, and with it the chunk it held.
LoopDies ==
    /\ alive /\ lock = Loop
    /\ alive' = FALSE /\ lock' = Free /\ data' = {} /\ dataOverflow' = FALSE
    /\ MarkUnknown(1)
    /\ UNCHANGED <<env, kernel, flush, hot, request>>

(***************************************************************************)
(* _flush_now, by the flush thread: drain the batch, then mark the paths.  *)
(***************************************************************************)
FlushDrain ==
    /\ flushing /\ alive /\ taken[Flusher] = {} /\ batch # {}
    /\ taken' = [taken EXCEPT ![Flusher] = batch] /\ batch' = {}
    /\ UNCHANGED <<env, kernel, reader, flushing, tracker, hot, request>>

\* Mutant: the drained paths are dropped when marking them fails.
FlushMarkLost ==
    /\ taken[Flusher] # {}
    /\ taken' = [taken EXCEPT ![Flusher] = {}]
    /\ UNCHANGED <<env, kernel, reader, flushing, batch, tracker, hot, request>>

FlushMark ==
    /\ taken[Flusher] # {}
    /\ MarkDirty(taken[Flusher])
    /\ taken' = [taken EXCEPT ![Flusher] = {}]
    /\ UNCHANGED <<env, kernel, reader, flushing, batch, hot, request>>

FlushExit ==
    /\ flushing /\ ~alive /\ taken[Flusher] = {}
    /\ flushing' = FALSE
    /\ MarkUnknown(1)
    /\ UNCHANGED <<env, kernel, reader, batch, taken, hot, request>>

(***************************************************************************)
(* A request: the barrier of _synchronize_observer, _run_reconciled.       *)
(***************************************************************************)
Issue(r, m) ==
    /\ pc[r] \in {"idle", "done", "failed"} /\ issued < MaxIssued
    /\ issued' = issued + 1
    /\ pc' = [pc EXCEPT ![r] = "barrier"]
    /\ mode' = [mode EXCEPT ![r] = m]
    /\ attempt' = [attempt EXCEPT ![r] = 0]
    /\ seen' = [seen EXCEPT ![r] = Nothing]
    /\ start' = [start EXCEPT ![r] = disk]
    /\ blind' = [blind EXCEPT ![r] = {}]
    /\ UNCHANGED <<env, kernel, reader, flush, tracker, hot, gen, marks, mid>>

\* A dead observer: synchronize marks, then mark_observer_unknown marks again
\* and drops the hot cache.
BarrierDead(r) ==
    /\ pc[r] = "barrier" /\ ~alive
    /\ MarkUnknown(2)
    /\ hot' = Nothing
    /\ pc' = [pc EXCEPT ![r] = "prepare"]
    /\ UNCHANGED <<env, kernel, reader, flush, mode, gen, attempt, seen, marks,
                   start, mid, blind, issued>>

BarrierFlush(r) ==
    /\ pc[r] = "flush"
    /\ taken' = [taken EXCEPT ![r] = batch] /\ batch' = {}
    /\ blind' = [blind EXCEPT ![r] = UNION {taken[a] : a \in Flushers \ {r}}]
    /\ pc' = [pc EXCEPT ![r] = "mark"]
    /\ UNCHANGED <<env, kernel, reader, flushing, tracker, hot, mode, gen,
                   attempt, seen, marks, start, mid, issued>>

BarrierMark(r) ==
    /\ pc[r] = "mark"
    /\ IF taken[r] = {} THEN UNCHANGED tracker ELSE MarkDirty(taken[r])
    /\ taken' = [taken EXCEPT ![r] = {}]
    /\ pc' = [pc EXCEPT ![r] = "check"]
    /\ UNCHANGED <<env, kernel, reader, flushing, batch, hot, mode, gen,
                   attempt, seen, marks, start, mid, blind, issued>>

BarrierCheck(r) ==
    /\ pc[r] = "check"
    /\ IF tState = "unknown"
         THEN MarkUnknown(1) /\ hot' = Nothing
         ELSE UNCHANGED <<tracker, hot>>
    /\ pc' = [pc EXCEPT ![r] = "prepare"]
    /\ UNCHANGED <<env, kernel, reader, flush, mode, gen, attempt, seen, marks,
                   start, mid, blind, issued>>

\* What _prepare_observation keeps of the cache.
Kept ==
    CASE tState = "unknown" -> Nothing
      [] tState = "dirty"   -> [p \in Paths |-> IF p \in tPaths THEN None ELSE hot[p]]
      [] OTHER              -> hot

\* Mutant: dirty paths are left in the cache.
PrepareKeepsDirty(r) ==
    /\ pc[r] = "prepare"
    /\ hot' = IF tState = "unknown" THEN Nothing ELSE hot
    /\ gen' = [gen EXCEPT ![r] = tGen]
    /\ seen' = [seen EXCEPT ![r] = Nothing]
    /\ pc' = [pc EXCEPT ![r] = IF mode[r] = "capture" THEN "begin" ELSE "read"]
    /\ UNCHANGED <<env, kernel, reader, flush, tracker, mode, attempt, marks,
                   start, mid, blind, issued>>

Prepare(r) ==
    /\ pc[r] = "prepare"
    /\ hot' = Kept
    /\ gen' = [gen EXCEPT ![r] = tGen]
    /\ seen' = [seen EXCEPT ![r] = Nothing]
    /\ pc' = [pc EXCEPT ![r] = IF mode[r] = "capture" THEN "begin" ELSE "read"]
    /\ UNCHANGED <<env, kernel, reader, flush, tracker, mode, attempt, marks,
                   start, mid, blind, issued>>

\* An exception in the operation: _discard_failed_reconciliation, and raise.
Fail(r) ==
    /\ MarkUnknown(1)
    /\ pc' = [pc EXCEPT ![r] = "failed"]
    /\ UNCHANGED <<env, kernel, reader, flush, hot, mode, gen, attempt, seen,
                   marks, start, mid, blind, issued>>

\* InputCapture.begin of every member: lstat before its bytes are read.
CaptureBegin(r) ==
    /\ pc[r] = "begin" /\ gone = {}
    /\ marks' = [marks EXCEPT ![r] = disk]
    /\ pc' = [pc EXCEPT ![r] = "read"]
    /\ UNCHANGED <<env, kernel, reader, flush, tracker, hot, mode, gen, attempt,
                   seen, start, mid, blind, issued>>

\* Mutant: verify does not pop the path's cached node first.
ReadLeafTrusting(r, p) ==
    /\ pc[r] = "read" /\ seen[r][p] = None
    /\ \/ /\ mode[r] # "capture" /\ hot[p] # None
          /\ seen' = [seen EXCEPT ![r][p] = hot[p]]
       \/ /\ mode[r] = "capture" \/ hot[p] = None
          /\ p \notin gone
          /\ seen' = [seen EXCEPT ![r][p] = disk[p]]
    /\ UNCHANGED <<env, kernel, reader, flush, tracker, hot, pc, mode, gen,
                   attempt, marks, start, mid, blind, issued>>

ReadLeaf(r, p) ==
    /\ pc[r] = "read" /\ seen[r][p] = None
    /\ \/ /\ mode[r] = "fast" /\ hot[p] # None
          /\ seen' = [seen EXCEPT ![r][p] = hot[p]]
       \/ /\ mode[r] # "fast" \/ hot[p] = None
          /\ p \notin gone
          /\ seen' = [seen EXCEPT ![r][p] = disk[p]]
    /\ UNCHANGED <<env, kernel, reader, flush, tracker, hot, pc, mode, gen,
                   attempt, marks, start, mid, blind, issued>>

\* FileNotFoundError of a selected path.
ReadFails(r) ==
    /\ \/ pc[r] = "begin" /\ gone # {}
       \/ /\ pc[r] = "read"
          /\ \E p \in gone : /\ seen[r][p] = None
                             /\ mode[r] # "fast" \/ hot[p] = None
    /\ Fail(r)

ReadAll(r) == \A p \in Paths : seen[r][p] # None

\* digest_manifest leaves what it composed in the hot cache.
Store(r) ==
    /\ pc[r] = "read" /\ mode[r] # "capture" /\ ReadAll(r)
    /\ hot' = seen[r]
    /\ pc' = [pc EXCEPT ![r] = "finish"]
    /\ UNCHANGED <<env, kernel, reader, flush, tracker, mode, gen, attempt,
                   seen, marks, start, mid, blind, issued>>

CaptureValidate(r) ==
    /\ pc[r] = "read" /\ mode[r] = "capture" /\ ReadAll(r)
    /\ mid' = [mid EXCEPT ![r] = disk]
    /\ pc' = [pc EXCEPT ![r] = "validate"]
    /\ UNCHANGED <<env, kernel, reader, flush, tracker, hot, mode, gen, attempt,
                   seen, marks, start, blind, issued>>

\* Mutant: validation only asks that the member still exists.
ValidateLeafPresent(r, p) ==
    /\ pc[r] = "validate" /\ marks[r][p] # None
    /\ p \notin gone
    /\ marks' = [marks EXCEPT ![r][p] = None]
    /\ UNCHANGED <<env, kernel, reader, flush, tracker, hot, pc, mode, gen,
                   attempt, seen, start, mid, blind, issued>>

ValidateLeaf(r, p) ==
    /\ pc[r] = "validate" /\ marks[r][p] # None
    /\ p \notin gone /\ disk[p] = marks[r][p]
    /\ marks' = [marks EXCEPT ![r][p] = None]
    /\ UNCHANGED <<env, kernel, reader, flush, tracker, hot, pc, mode, gen,
                   attempt, seen, start, mid, blind, issued>>

\* UnstableObservationError: a member changed or disappeared.
ValidateFails(r) ==
    /\ pc[r] = "validate"
    /\ \E p \in Paths : marks[r][p] # None /\ (p \in gone \/ disk[p] # marks[r][p])
    /\ Fail(r)

Validated(r) ==
    /\ pc[r] = "validate" /\ marks[r] = Nothing
    /\ pc' = [pc EXCEPT ![r] = "finish"]
    /\ UNCHANGED <<env, kernel, reader, flush, tracker, hot, mode, gen, attempt,
                   seen, marks, start, mid, blind, issued>>

\* Mutant: reconciled without the expected generation.
FinishAlways(r) ==
    /\ pc[r] = "finish"
    /\ MarkReconciled
    /\ pc' = [pc EXCEPT ![r] = "done"]
    /\ UNCHANGED <<env, kernel, reader, flush, hot, mode, gen, attempt, seen,
                   marks, start, mid, blind, issued>>

FinishOk(r) ==
    /\ pc[r] = "finish" /\ tGen = gen[r]
    /\ MarkReconciled
    /\ pc' = [pc EXCEPT ![r] = "done"]
    /\ UNCHANGED <<env, kernel, reader, flush, hot, mode, gen, attempt, seen,
                   marks, start, mid, blind, issued>>

\* Mutant: retry without counting out the attempts.
FinishMovedForever(r) ==
    /\ pc[r] = "finish" /\ tGen # gen[r]
    /\ attempt' = [attempt EXCEPT ![r] = @ + 1]
    /\ pc' = [pc EXCEPT ![r] = "prepare"]
    /\ UNCHANGED <<env, kernel, reader, flush, tracker, hot, mode, gen, seen,
                   marks, start, mid, blind, issued>>

\* The generation moved: try again, or give up after the last attempt.
FinishMoved(r) ==
    /\ pc[r] = "finish" /\ tGen # gen[r]
    /\ attempt' = [attempt EXCEPT ![r] = @ + 1]
    /\ IF attempt[r] + 1 < MaxAttempts
         THEN pc' = [pc EXCEPT ![r] = "prepare"] /\ UNCHANGED tracker
         ELSE pc' = [pc EXCEPT ![r] = "failed"] /\ MarkUnknown(1)
    /\ UNCHANGED <<env, kernel, reader, flush, hot, mode, gen, seen, marks,
                   start, mid, blind, issued>>

(***************************************************************************)
(* The specification                                                       *)
(***************************************************************************)
Serve(r) ==
    \/ RequestDrain(r) \/ RequestDrained(r) \/ BarrierDead(r)
    \/ BarrierFlush(r) \/ BarrierMark(r) \/ BarrierCheck(r)
    \/ Prepare(r) \/ CaptureBegin(r) \/ ReadFails(r)
    \/ Store(r) \/ CaptureValidate(r) \/ ValidateFails(r) \/ Validated(r)
    \/ FinishOk(r) \/ FinishMoved(r)
    \/ \E p \in Paths : ReadLeaf(r, p) \/ ValidateLeaf(r, p)

\* The steps of whoever holds _read_lock.
Holder ==
    \/ HandleOverflow \/ DrainAgain
    \/ \E p \in Paths : HandleEvent(p)

Flush == FlushDrain \/ FlushMark \/ FlushExit

Next ==
    \/ \E p \in Paths : Change(p)
    \/ LoopDrain \/ LoopDone \/ LoopDies
    \/ Holder
    \/ Flush
    \/ \E r \in Requests : Serve(r) \/ \E m \in Modes : Issue(r, m)

Spec == Init /\ [][Next]_vars

\* Every thread that can run does; nobody has to change files or ask.
FairSpec ==
    /\ Spec
    /\ WF_vars(LoopDrain) /\ WF_vars(LoopDone)
    /\ WF_vars(Holder) /\ WF_vars(Flush)
    /\ \A r \in Requests : WF_vars(Serve(r))

(***************************************************************************)
(* Properties                                                              *)
(***************************************************************************)
\* A change of p that has not reached ChangeTracker yet.
Coming(p) ==
    \/ p \in queue \cup data \cup batch
    \/ \E a \in Flushers : p \in taken[a]
    \/ overflow \/ dataOverflow

\* ChangeTracker makes the next attempt re-read p.
Known(p) == p \in tPaths \/ tState = "unknown"

Stale(p) == hot[p] # None /\ hot[p] # disk[p]

\* M4, O3: whatever the hot cache holds of an outdated version, the change is
\* still on its way to the tracker or the tracker knows of it; a clean tracker
\* never sits on a stale entry nobody will invalidate (merkle.py _run_reconciled
\* with observation.py mark_reconciled).
CacheCoherent == \A p \in Paths : Stale(p) => Coming(p) \/ Known(p)

\* Why CacheCoherent is kept when one request runs at a time.  What an attempt
\* has composed is as good as the cache; and while no observation has arrived
\* since the attempt's cut, what is outdated is still on its way, so that
\* committing the cut forgets nothing.
Active(r) == pc[r] \in {"begin", "read", "validate", "finish"}
Outdated(r, p) == seen[r][p] # None /\ seen[r][p] # disk[p]

AttemptCoherent ==
    \A r \in Requests : Active(r) =>
        /\ gen[r] <= tGen
        /\ \A p \in Paths : Outdated(r, p) => Coming(p) \/ Known(p)
        /\ gen[r] = tGen => \A p \in Paths : Outdated(r, p) \/ Stale(p) => Coming(p)

\* Nothing is overwritten on the way: a chunk is held under the lock only, and
\* a request holds drained paths between its drain and its mark only.
HandedOver ==
    /\ lock = Free => data = {} /\ ~dataOverflow
    /\ \A r \in Requests : pc[r] # "mark" => taken[r] = {}

\* A clean tracker holds no path it has not acted on.
CleanKnowsNothing == tState = "clean" => tPaths = {}

LaneInv ==
    TypeOK /\ HandedOver /\ CleanKnowsNothing /\ CacheCoherent /\ AttemptCoherent

\* The answer of a finished request is no older than the request, for every
\* path no other thread had drained and not yet marked at its barrier
\* (watcher.py synchronize).
AnswerFreshUnlessBlind ==
    \A r \in Requests : pc[r] = "done" =>
        \A p \in Paths \ blind[r] : seen[r][p] >= start[r][p]

\* With threads answering at the same time, as ThreadingMixIn lets them, a cache
\* still changes no answer (A1, M4).
ConcurrentAnswersFresh == alive => AnswerFreshUnlessBlind

\* I3: an answer that re-read the bytes is no older than the request, whatever
\* the observer has missed or still holds.
StrongAnswerFresh ==
    \A r \in Requests : pc[r] = "done" /\ mode[r] # "fast" =>
        \A p \in Paths : seen[r][p] >= start[r][p]

\* The members of one observation existed together: the answer of
\* observe_inputs is the disk of one instant (input_observation.py validate).
CapturedTogether ==
    \A r \in Requests : pc[r] = "done" /\ mode[r] = "capture" => seen[r] = mid[r]

\* Every request is answered or fails.
RequestsEnd ==
    \A r \in Requests : pc[r] = "barrier" ~> pc[r] \in {"done", "failed"}

\* While the observer lives, a stale entry does not stay in a cache that calls
\* itself clean (a dead observer is noticed by the next request's barrier).
StaleIsNoticed ==
    \A p \in Paths : Stale(p) ~> (~Stale(p) \/ Known(p) \/ ~alive)
=============================================================================
