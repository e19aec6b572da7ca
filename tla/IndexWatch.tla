------------------------------ MODULE IndexWatch ------------------------------
(***************************************************************************)
(* One running session of watch_forever: the inotify thread, the flush     *)
(* thread that reconciles batches of changed paths, and the main loop that *)
(* syncs first and then looks for UNKNOWN.  What it publishes is what a    *)
(* query without a daemon calls fresh.                                     *)
(*                                                                         *)
(* Both threads of the session may run _flush_now and reconcile; "other"   *)
(* is another CodeMap process that syncs the same store.  The lease it     *)
(* publishes under is WatchLease.  A read of the inotify queue is one step *)
(* here (IdentityLane takes it apart).                                     *)
(***************************************************************************)
EXTENDS Integers, FiniteSets

CONSTANTS
    Paths,          \* the files
    None,           \* no row, nobody
    ReaderMayDie,   \* whether the inotify thread can end by an exception
    MaxChanges,     \* bound of the model: changes of files
    MaxOverflows,   \* bound of the model: overflows of the inotify queue
    MaxFailures,    \* bound of the model: syncs that raise
    MaxOthers       \* bound of the model: syncs of another process

\* What the constants are.
BoundAssumption ==
    /\ ReaderMayDie \in BOOLEAN
    /\ {MaxChanges, MaxOverflows, MaxFailures, MaxOthers} \subseteq Nat
    /\ None \notin {"main", "flush", "other"} \cup Nat

VARIABLES
    disk, changes,              \* the version of every file
    queue, over, overflows,     \* the inotify queue and its overflow mark
    reader,                     \* the inotify thread is alive
    batch,                      \* DirtyBatch._paths
    state, generation, dirty,   \* the session's ChangeTracker
    lock,                       \* who holds update_lock
    txn, todo, built, others,   \* the publication transaction of the store
    rows, mapGen,               \* the published file_map and "generation"
    rec,                        \* the published record
    pc, paths, before, seen,    \* the threads and their locals
    failures,
    started,                    \* the main loop has promoted the first sync
    blind                       \* history: events were lost before that

files   == <<disk, changes>>
kernel  == <<queue, over, overflows>>
tracker == <<state, generation, dirty>>
store   == <<txn, todo, built, others, rows, mapGen>>
locals  == <<paths, before, seen>>
vars    == <<files, kernel, reader, batch, tracker, lock, store, rec, pc, locals,
             failures, started, blind>>

Threads == {"main", "flush"}
Version == Nat \cup {None}
States  == {"clean", "dirty", "unknown"}

TypeOK ==
    /\ disk \in [Paths -> Nat] /\ changes \in 0..MaxChanges
    /\ queue \subseteq Paths /\ over \in BOOLEAN /\ overflows \in 0..MaxOverflows
    /\ reader \in BOOLEAN /\ batch \subseteq Paths
    /\ state \in States /\ generation \in Nat /\ dirty \subseteq Paths
    /\ lock \in Threads \cup {None}
    /\ txn \in Threads \cup {"other", None} /\ todo \subseteq Paths
    /\ built \in [Paths -> Version] /\ others \in 0..MaxOthers
    /\ rows \in [Paths -> Version] /\ mapGen \in Nat
    /\ rec \in [active : BOOLEAN, state : States, gen : Nat]
    /\ pc \in [Threads -> {"first", "barrier", "wait", "mark", "lock", "sync", "read",
                           "settle", "snap", "write", "promote", "promoting",
                           "loop", "alarm", "gone"}]
    /\ paths \in [Threads -> SUBSET Paths] /\ before \in [Threads -> Nat]
    /\ seen \in [Threads -> States]
    /\ failures \in 0..MaxFailures /\ started \in BOOLEAN /\ blind \in BOOLEAN
    /\ \A t \in Threads : pc[t] \in {"sync", "settle", "alarm", "write"} => lock = t
    /\ \A t \in Threads : txn = t => pc[t] = "read"

\* The lease is acquired and the watcher started; the main thread's sync of the
\* whole repository is next.
Init ==
    /\ disk = [p \in Paths |-> 0] /\ changes = 0
    /\ queue = {} /\ over = FALSE /\ overflows = 0
    /\ reader = TRUE /\ batch = {}
    /\ state = "unknown" /\ generation = 0 /\ dirty = {}
    /\ lock = None
    /\ txn = None /\ todo = {} /\ built = [p \in Paths |-> None] /\ others = 0
    /\ rows = [p \in Paths |-> None] /\ mapGen = 0
    /\ rec = [active |-> TRUE, state |-> "unknown", gen |-> 0]
    /\ pc = [t \in Threads |-> IF t = "main" THEN "first" ELSE "wait"]
    /\ paths = [t \in Threads |-> IF t = "main" THEN Paths ELSE {}]
    /\ before = [t \in Threads |-> 0] /\ seen = [t \in Threads |-> "unknown"]
    /\ failures = 0 /\ started = FALSE /\ blind = FALSE

Go(t, label) == pc' = [pc EXCEPT ![t] = label]

(***************************************************************************)
(* The file system, the inotify thread and the tracker                     *)
(***************************************************************************)
MarkUnknown == state' = "unknown" /\ dirty' = {} /\ generation' = generation + 1

MarkDirty(ps) ==
    /\ state' = IF state = "unknown" THEN "unknown" ELSE "dirty"
    /\ dirty' = dirty \cup ps /\ generation' = generation + 1

\* An event is queued, or lost in an overflow.
Change(p) ==
    /\ changes < MaxChanges /\ changes' = changes + 1
    /\ disk' = [disk EXCEPT ![p] = @ + 1]
    /\ \/ queue' = queue \cup {p} /\ UNCHANGED <<over, overflows>>
       \/ /\ overflows < MaxOverflows /\ overflows' = overflows + 1
          /\ over' = TRUE /\ UNCHANGED queue
    /\ UNCHANGED <<reader, batch, tracker, lock, store, rec, pc, locals, failures,
                   started, blind>>

\* _drain_ready.  The first reconciliation overwrites what it marks unknown.
DrainReady ==
    /\ batch' = batch \cup queue /\ queue' = {} /\ over' = FALSE
    /\ IF over THEN MarkUnknown ELSE UNCHANGED tracker
    /\ blind' = (blind \/ (over /\ ~started))

Read ==
    /\ reader /\ (queue # {} \/ over)
    /\ DrainReady
    /\ UNCHANGED <<files, overflows, reader, lock, store, rec, pc, locals, failures, started>>

\* An exception in _read_loop: nobody reads the queue again.
ReaderDies ==
    /\ ReaderMayDie /\ reader /\ reader' = FALSE
    /\ MarkUnknown /\ blind' = (blind \/ ~started)
    /\ UNCHANGED <<files, kernel, batch, lock, store, rec, pc, locals, failures, started>>

(***************************************************************************)
(* _flush_now, by the flush thread and by the main thread's synchronize    *)
(***************************************************************************)
\* flush_loop ends with the inotify thread.
FlushEnds ==
    /\ pc["flush"] = "wait" /\ ~reader
    /\ MarkUnknown /\ Go("flush", "gone")
    /\ UNCHANGED <<files, kernel, reader, batch, lock, store, rec, locals, failures,
                   started, blind>>

Take(t) ==
    /\ paths' = [paths EXCEPT ![t] = batch] /\ batch' = {}
    /\ Go(t, "mark")

FlushTakes ==
    /\ pc["flush"] = "wait" /\ reader /\ batch # {}
    /\ Take("flush")
    /\ UNCHANGED <<files, kernel, reader, tracker, lock, store, rec, before, seen, failures,
                   started, blind>>

\* watcher.synchronize; its answer is not used.
Barrier ==
    /\ pc["main"] = "barrier"
    /\ IF reader
         THEN DrainReady /\ Go("main", "wait") /\ UNCHANGED overflows
         ELSE MarkUnknown /\ Go("main", "promote") /\ UNCHANGED <<kernel, batch, blind>>
    /\ UNCHANGED <<files, reader, lock, store, rec, locals, failures, started>>

BarrierTakes ==
    /\ pc["main"] = "wait"
    /\ IF batch = {} THEN Go("main", "promote") /\ UNCHANGED <<batch, paths>>
                     ELSE Take("main")
    /\ UNCHANGED <<files, kernel, reader, tracker, lock, store, rec, before, seen, failures,
                   started, blind>>

Mark(t) ==
    /\ pc[t] = "mark" /\ MarkDirty(paths[t]) /\ Go(t, "lock")
    /\ UNCHANGED <<files, kernel, reader, batch, lock, store, rec, locals, failures,
                   started, blind>>

(***************************************************************************)
(* reconcile                                                               *)
(***************************************************************************)
\* Mutant of Lock: reconcile does not take update_lock.
LockNothing(t) ==
    /\ pc[t] = "lock"
    /\ before' = [before EXCEPT ![t] = generation]
    /\ paths' = [paths EXCEPT ![t] = IF state = "unknown" THEN Paths ELSE @]
    /\ Go(t, "sync")
    /\ UNCHANGED <<files, kernel, reader, batch, tracker, lock, store, rec, seen, failures,
                   started, blind>>

\* Under update_lock: everything while the tracker is unknown.
Lock(t) ==
    /\ pc[t] = "lock" /\ lock = None /\ lock' = t
    /\ before' = [before EXCEPT ![t] = generation]
    /\ paths' = [paths EXCEPT ![t] = IF state = "unknown" THEN Paths ELSE @]
    /\ Go(t, "sync")
    /\ UNCHANGED <<files, kernel, reader, batch, tracker, store, rec, seen, failures,
                   started, blind>>

\* sync: one writer at a time.  The first sync of the main thread holds no lock.
SyncBegin(t) ==
    /\ pc[t] \in {"first", "sync"} /\ txn = None /\ txn' = t
    /\ todo' = paths[t] /\ built' = rows
    /\ Go(t, "read")
    /\ UNCHANGED <<files, kernel, reader, batch, tracker, lock, others, rows, mapGen, rec,
                   locals, failures, started, blind>>

SyncRead(p) ==
    /\ txn # None /\ p \in todo
    /\ built' = [built EXCEPT ![p] = disk[p]] /\ todo' = todo \ {p}
    /\ UNCHANGED <<files, kernel, reader, batch, tracker, lock, txn, others, rows, mapGen,
                   rec, pc, locals, failures, started, blind>>

Commit ==
    /\ todo = {} /\ txn' = None /\ rows' = built
    /\ mapGen' = IF built = rows THEN mapGen ELSE mapGen + 1
    /\ UNCHANGED <<todo, built>>

SyncCommit(t) ==
    /\ txn = t /\ Commit
    /\ Go(t, IF lock = t THEN "settle" ELSE "barrier")
    /\ UNCHANGED <<files, kernel, reader, batch, tracker, lock, others, rec, locals, failures,
                   started, blind>>

\* The watcher's callback failed: mark_unknown.  Anything the main thread does not
\* catch ends the session, which releases the lease.
SyncFails(t) ==
    /\ txn = t /\ failures < MaxFailures /\ failures' = failures + 1
    /\ txn' = None /\ todo' = {} /\ lock' = IF lock = t THEN None ELSE lock
    /\ MarkUnknown
    /\ IF t = "flush" \/ (lock = t /\ ~started)
         THEN /\ Go(t, IF t = "flush" THEN "wait" ELSE "promote")
              /\ UNCHANGED <<reader, rec>>
              /\ blind' = (blind \/ ~started)
         ELSE /\ pc' = [u \in Threads |-> "gone"] /\ reader' = FALSE
              /\ rec' = [rec EXCEPT !.active = FALSE] /\ UNCHANGED blind
    /\ UNCHANGED <<files, kernel, batch, built, others, rows, mapGen, locals, started>>

\* mark_reconciled(expected_generation=before).
MarkReconciled(g) ==
    IF g # generation \/ (state = "clean" /\ dirty = {})
      THEN UNCHANGED tracker
      ELSE state' = "clean" /\ dirty' = {} /\ generation' = generation + 1

\* Mutant of Settle: mark_reconciled without the generation.
SettleUnbound(t) ==
    /\ pc[t] = "settle" /\ MarkReconciled(generation) /\ Go(t, "snap")
    /\ UNCHANGED <<files, kernel, reader, batch, lock, store, rec, locals, failures,
                   started, blind>>

Settle(t) ==
    /\ pc[t] = "settle" /\ MarkReconciled(before[t]) /\ Go(t, "snap")
    /\ UNCHANGED <<files, kernel, reader, batch, lock, store, rec, locals, failures,
                   started, blind>>

(***************************************************************************)
(* publish: the tracker's snapshot, then the store's generation            *)
(***************************************************************************)
Snap(t) ==
    /\ pc[t] = "snap" /\ lock \in {None, t} /\ lock' = t
    /\ seen' = [seen EXCEPT ![t] = state] /\ Go(t, "write")
    /\ UNCHANGED <<files, kernel, reader, batch, tracker, store, rec, paths, before, failures,
                   started, blind>>

Write(t) ==
    /\ pc[t] = "write" /\ txn = None /\ lock' = None
    /\ rec' = [active |-> TRUE, state |-> seen[t], gen |-> mapGen]
    /\ Go(t, IF t = "flush" THEN "wait" ELSE IF started THEN "loop" ELSE "promote")
    /\ paths' = [paths EXCEPT ![t] = {}]
    /\ UNCHANGED <<files, kernel, reader, batch, tracker, store, before, seen, failures,
                   started, blind>>

(***************************************************************************)
(* watch_forever after its first sync                                      *)
(***************************************************************************)
\* mark_reconciled(expected_generation=tracker.snapshot().generation)
Promote ==
    /\ pc["main"] = "promote" /\ Go("main", "promoting")
    /\ before' = [before EXCEPT !["main"] = generation]
    /\ UNCHANGED <<files, kernel, reader, batch, tracker, lock, store, rec, paths, seen,
                   failures, started, blind>>

Promoting ==
    /\ pc["main"] = "promoting" /\ MarkReconciled(before["main"])
    /\ started' = TRUE /\ Go("main", "snap")
    /\ UNCHANGED <<files, kernel, reader, batch, lock, store, rec, locals, failures, blind>>

\* Mutant of Refresh: what is unknown is published and left so.
RefreshPublishing ==
    /\ pc["main"] = "loop" /\ lock = None
    /\ Go("main", "snap") /\ UNCHANGED lock
    /\ UNCHANGED <<files, kernel, reader, batch, tracker, store, rec, locals, failures,
                   started, blind>>

\* refresh_state, every half second.
Refresh ==
    /\ pc["main"] = "loop" /\ lock = None
    /\ IF state = "unknown" THEN Go("main", "alarm") /\ lock' = "main"
                            ELSE Go("main", "snap") /\ UNCHANGED lock
    /\ UNCHANGED <<files, kernel, reader, batch, tracker, store, rec, locals, failures,
                   started, blind>>

\* Under the same lock: publish the unknown state, then reconcile everything.
Alarm ==
    /\ pc["main"] = "alarm" /\ txn = None
    /\ rec' = [active |-> TRUE, state |-> state, gen |-> mapGen]
    /\ before' = [before EXCEPT !["main"] = generation]
    /\ paths' = [paths EXCEPT !["main"] = IF state = "unknown" THEN Paths ELSE {}]
    /\ Go("main", "sync")
    /\ UNCHANGED <<files, kernel, reader, batch, tracker, lock, store, seen, failures,
                   started, blind>>

(***************************************************************************)
(* Another process syncs the repository.                                   *)
(***************************************************************************)
OtherBegin ==
    /\ txn = None /\ others < MaxOthers /\ others' = others + 1
    /\ txn' = "other" /\ todo' = Paths /\ built' = rows
    /\ UNCHANGED <<files, kernel, reader, batch, tracker, lock, rows, mapGen, rec, pc, locals,
                   failures, started, blind>>

OtherCommit ==
    /\ txn = "other" /\ Commit
    /\ UNCHANGED <<files, kernel, reader, batch, tracker, lock, others, rec, pc, locals,
                   failures, started, blind>>

ThreadStep(t) ==
    \/ Mark(t) \/ Lock(t) \/ SyncBegin(t) \/ SyncCommit(t)
    \/ Settle(t) \/ Snap(t) \/ Write(t)

MainStep ==
    \/ ThreadStep("main") \/ Barrier \/ BarrierTakes \/ Promote \/ Promoting
    \/ Refresh \/ Alarm

FlushStep == ThreadStep("flush") \/ FlushTakes \/ FlushEnds

Next ==
    \/ \E p \in Paths : Change(p) \/ SyncRead(p)
    \/ Read \/ ReaderDies
    \/ MainStep \/ FlushStep \/ \E t \in Threads : SyncFails(t)
    \/ OtherBegin \/ OtherCommit

Spec == Init /\ [][Next]_vars

\* Every thread that can run does.  The main thread takes update_lock again and
\* again, half a second apart: a waiting flush thread gets it in between.
Fairness ==
    /\ WF_vars(Read) /\ WF_vars(\E p \in Paths : SyncRead(p)) /\ WF_vars(OtherCommit)
    /\ WF_vars(MainStep) /\ WF_vars(FlushStep)
    /\ SF_vars(Lock("flush")) /\ SF_vars(Snap("flush"))

FairSpec == Spec /\ Fairness

(***************************************************************************)
(* Correctness                                                             *)
(***************************************************************************)
\* stale_for answers False.
SaysFresh == rec.active /\ rec.state = "clean" /\ rec.gen = mapGen

\* Thread t will still read p, or has read what is there.
Reconciling(t, p) ==
    \/ pc[t] \in {"mark", "lock", "sync"} /\ p \in paths[t]
    \/ txn = t /\ (p \in todo \/ built[p] = disk[p])

\* A row that lags is on its way: its event is in a queue a living thread
\* reads, in a batch, being reconciled, or the loss of it is known.
Noticed(p) ==
    \/ reader /\ (p \in queue \/ over)
    \/ pc["flush"] # "gone" /\ (p \in batch \/ ~reader)
    \/ \E t \in Threads : Reconciling(t, p)
    \/ state = "unknown"

\* O1, O2 (docs/reference/INVARIANTS.md): while the watch calls the map fresh,
\* nothing it lags in is out of sight.
StaleIsNoticed ==
    SaysFresh => \A p \in Paths : rows[p] = disk[p] \/ Noticed(p)

\* The same where nothing was lost before the main loop began.
StaleIsNoticedOnceStarted == blind \/ StaleIsNoticed

\* The same where, besides, the inotify thread lives.
StaleIsNoticedUnlessBlind == reader => StaleIsNoticedOnceStarted

\* When the files have settled and the threads live on, the watch comes to say
\* fresh and stays there, and the map is what is on the disk.
Settles == []reader => <>[](SaysFresh /\ (blind \/ rows = disk))
=============================================================================
