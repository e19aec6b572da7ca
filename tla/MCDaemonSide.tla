----------------------------- MODULE MCDaemonSide -----------------------------
(* The daemon, its watch and its clients.  The parts share nothing but the     *)
(* machine: TLC checks each by itself, in one run.                             *)
EXTENDS WatchCoverage, TLC

CONSTANTS
    a, b, Sessions, MaxAge, MaxTries, MaxClock, iwPaths, ReaderMayDie, MaxChanges,
    MaxOverflows, MaxFailures, MaxOthers, Servers, MayBeFull

VARIABLES
    part, meta, clock, pc, fence, raw, tries, disk, changes, iwQueue, over,
    overflows, iwReader, iwBatch, state, generation, dirty, lock, txn, iwTodo,
    built, others, rows, mapGen, rec, iwPc, paths, before, seen, failures,
    started, blind, bindsInTry, path, soPc, end, company

Lease == INSTANCE WatchLease
Watch == INSTANCE IndexWatch WITH
    Paths <- iwPaths,
    queue <- iwQueue, reader <- iwReader, batch <- iwBatch, todo <- iwTodo,
    pc <- iwPc
Socket == INSTANCE ServiceSocket WITH
    pc <- soPc

ASSUME PartAssumption ==
    /\ CoverageAssumption
    /\ Lease!LeaseAssumption
    /\ Watch!BoundAssumption
    /\ Socket!SocketAssumption

leaseVars ==
    <<meta, clock, pc, fence, raw, tries>>
watchVars ==
    <<disk, changes, iwQueue, over, overflows, iwReader, iwBatch, state,
      generation, dirty, lock, txn, iwTodo, built, others, rows, mapGen, rec,
      iwPc, paths, before, seen, failures, started, blind>>
socketVars ==
    <<bindsInTry, path, soPc, end, company>>

\* One of the parts runs.
PartInit ==
    /\ part \in {"lease", "coverage", "watch", "socket"}
    /\ Lease!Init /\ Init /\ Watch!Init /\ Socket!Init
    /\ part # "socket" => bindsInTry       \* which makes no difference there

PartNext ==
    \/ part = "lease" /\ Lease!Next
       /\ UNCHANGED <<part, vars, watchVars, socketVars>>
    \/ part = "coverage" /\ Next
       /\ UNCHANGED <<part, leaseVars, watchVars, socketVars>>
    \/ part = "watch" /\ Watch!Next
       /\ UNCHANGED <<part, leaseVars, vars, socketVars>>
    \/ part = "socket" /\ Socket!Next
       /\ UNCHANGED <<part, leaseVars, vars, watchVars>>

PartVars == <<part, leaseVars, vars, watchVars, socketVars>>

\* The watch is as fair as it is by itself.
PartSpec ==
    /\ PartInit /\ [][PartNext]_PartVars
    /\ WF_watchVars(part = "watch" /\ Watch!Read)
    /\ WF_watchVars(part = "watch" /\ \E x \in iwPaths : Watch!SyncRead(x))
    /\ WF_watchVars(part = "watch" /\ Watch!OtherCommit)
    /\ WF_watchVars(part = "watch" /\ Watch!MainStep)
    /\ WF_watchVars(part = "watch" /\ Watch!FlushStep)
    /\ SF_watchVars(part = "watch" /\ Watch!Lock("flush"))
    /\ SF_watchVars(part = "watch" /\ Watch!Snap("flush"))

\* One directory to start with.
MCInitial == {<<a>>}

(* The variables of the parts have their types. *)
PartTypes ==
    CASE part = "lease"    -> Lease!TypeOK
      [] part = "coverage" -> TypeOK
      [] part = "watch"    -> Watch!TypeOK
      [] part = "socket"   -> Socket!TypeOK

(* WatchLease: what an acquirer compares with is free, what a publisher compares *)
(* with is its own.                                                              *)
LeaseInv == part = "lease" => Lease!LeaseInv

(* WatchLease: a live watcher is never displaced, *)
TakenOnlyWhenFree == Lease!TakenOnlyWhenFree

(* ... and one whose lease was taken never writes over its successor. *)
StaleNeverOverwrites == Lease!StaleNeverOverwrites

(* IndexWatch: a map that is called fresh lags in nothing that is out of sight, *)
StaleIsNoticedUnlessBlind == part = "watch" => Watch!StaleIsNoticedUnlessBlind

(* ... and comes to be fresh once the files have settled. *)
Settles == part = "watch" => Watch!Settles

(* ServiceSocket: a server that runs alone is reached at its path. *)
AloneItServes == part = "socket" => Socket!AloneItServes
===============================================================================
