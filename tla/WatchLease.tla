------------------------------ MODULE WatchLease ------------------------------
(***************************************************************************)
(* Which standalone watch process speaks for a CodeMap: the persisted      *)
(* record "watcher.observation" names an owner and a fence, a process      *)
(* claims it by comparing and setting it, heartbeats by publishing into    *)
(* it, and another may claim it once it is released, silent for too long,  *)
(* or its process is gone.                                                 *)
(*                                                                         *)
(* A session is one call of watch_forever, with an owner name of its own.  *)
(* Its threads publish one at a time (update_lock).  Time passes in ticks. *)
(***************************************************************************)
EXTENDS Integers

CONSTANTS
    Sessions,   \* the calls of watch_forever
    None,       \* no record, no fence
    MaxAge,     \* _MAX_HEARTBEAT_AGE_SECONDS
    MaxTries,   \* how often acquire tries
    MaxClock    \* bound of the model: time

Record == [owner : Sessions, fence : Nat, active : BOOLEAN, beat : Nat]

\* What the constants are.
LeaseAssumption ==
    /\ MaxAge \in Nat \ {0} /\ MaxTries \in Nat \ {0} /\ MaxClock \in Nat
    /\ None \notin Nat /\ None \notin Record

VARIABLES
    meta,       \* the record in the store
    clock,      \* time.time()
    pc,         \* where each session is
    fence,      \* its fence, None before it has one
    raw,        \* the record it has read and will compare with
    tries       \* its failed attempts to acquire

locals == <<fence, raw, tries>>
vars   == <<meta, clock, pc, fence, raw, tries>>

TypeOK ==
    /\ meta \in Record \cup {None} /\ clock \in Nat
    /\ pc \in [Sessions -> {"acquire", "claim", "watch", "publish", "release",
                            "retire", "ended", "dead"}]
    /\ fence \in [Sessions -> Nat \cup {None}]
    /\ raw \in [Sessions -> Record \cup {None}]
    /\ tries \in [Sessions -> Nat]

Init ==
    /\ meta = None /\ clock = 0
    /\ pc = [s \in Sessions |-> "acquire"]
    /\ fence = [s \in Sessions |-> None]
    /\ raw = [s \in Sessions |-> None]
    /\ tries = [s \in Sessions |-> 0]

Go(s, label) == pc' = [pc EXCEPT ![s] = label]

(***************************************************************************)
(* acquire                                                                 *)
(***************************************************************************)
\* lease_live of a record.  The number of a dead process may be in use again, so
\* os.kill can find it alive.
Recent(r) == r.active /\ clock - r.beat < MaxAge
Alive(s)  == pc[s] # "dead"
LeaseLive(r, found) == Recent(r) /\ (Alive(r.owner) \/ found)

\* The owner of this record may still be publishing into it.
Holding(r) == r # None /\ Recent(r) /\ Alive(r.owner)

\* The record is read; a live lease is respected (WatchLeaseHeldError).
AcquireRead(s) ==
    /\ pc[s] = "acquire"
    /\ \E found \in BOOLEAN :
         IF meta # None /\ LeaseLive(meta, found)
           THEN Go(s, "ended") /\ UNCHANGED raw
           ELSE Go(s, "claim") /\ raw' = [raw EXCEPT ![s] = meta]
    /\ UNCHANGED <<meta, clock, fence, tries>>

Claimed(s) == [owner |-> s, fence |-> IF raw[s] = None THEN 1 ELSE raw[s].fence + 1,
               active |-> TRUE, beat |-> clock]

\* Mutant of Claim: set_meta in place of compare_and_set_meta.
ClaimBlindly(s) ==
    /\ pc[s] = "claim"
    /\ meta' = Claimed(s) /\ fence' = [fence EXCEPT ![s] = Claimed(s).fence]
    /\ Go(s, "watch")
    /\ UNCHANGED <<clock, raw, tries>>

\* compare_and_set_meta: the record it read is replaced by its own.
Claim(s) ==
    /\ pc[s] = "claim" /\ meta = raw[s]
    /\ meta' = Claimed(s) /\ fence' = [fence EXCEPT ![s] = Claimed(s).fence]
    /\ Go(s, "watch")
    /\ UNCHANGED <<clock, raw, tries>>

\* Mutant of ClaimLost: what it finds is claimed without asking who holds it.
ClaimLostUnasked(s) ==
    /\ pc[s] = "claim" /\ meta # raw[s]
    /\ tries[s] + 1 < MaxTries
    /\ tries' = [tries EXCEPT ![s] = @ + 1]
    /\ raw' = [raw EXCEPT ![s] = meta]
    /\ UNCHANGED <<meta, clock, pc, fence>>

\* Another was faster: try again, and in the end give up.
ClaimLost(s) ==
    /\ pc[s] = "claim" /\ meta # raw[s]
    /\ tries' = [tries EXCEPT ![s] = @ + 1]
    /\ Go(s, IF tries[s] + 1 = MaxTries THEN "ended" ELSE "acquire")
    /\ UNCHANGED <<meta, clock, fence, raw>>

(***************************************************************************)
(* publish and release                                                     *)
(***************************************************************************)
Mine(s) == meta # None /\ meta.owner = s /\ meta.fence = fence[s]

\* publish(active=True) reads.  WatchLeaseLostError ends the session when its main
\* loop meets it; the watcher's flush thread swallows it.
PublishRead(s) ==
    /\ pc[s] = "watch"
    /\ IF Mine(s) /\ meta.active
         THEN Go(s, "publish") /\ raw' = [raw EXCEPT ![s] = meta]
         ELSE Go(s, "release") /\ UNCHANGED raw
    /\ UNCHANGED <<meta, clock, fence, tries>>

\* Mutant of PublishSet: the publication is not compared with what was read.
PublishSetBlindly(s) ==
    /\ pc[s] = "publish" /\ Go(s, "watch")
    /\ meta' = [owner |-> s, fence |-> fence[s], active |-> TRUE, beat |-> clock]
    /\ UNCHANGED <<clock, locals>>

PublishSet(s) ==
    /\ pc[s] = "publish"
    /\ IF meta = raw[s]
         THEN /\ meta' = [meta EXCEPT !.beat = clock]
              /\ Go(s, "watch")
         ELSE /\ \E next \in {"watch", "release"} : Go(s, next)
              /\ UNCHANGED meta
    /\ UNCHANGED <<clock, locals>>

\* Ctrl-C, or anything the main loop raises.
Stop(s) ==
    /\ pc[s] = "watch" /\ Go(s, "release")
    /\ UNCHANGED <<meta, clock, locals>>

\* publish(active=False): a lost lease is left alone.
ReleaseRead(s) ==
    /\ pc[s] = "release"
    /\ IF Mine(s)
         THEN Go(s, "retire") /\ raw' = [raw EXCEPT ![s] = meta]
         ELSE Go(s, "ended") /\ UNCHANGED raw
    /\ UNCHANGED <<meta, clock, fence, tries>>

ReleaseSet(s) ==
    /\ pc[s] = "retire" /\ Go(s, "ended")
    /\ meta' = IF meta = raw[s] THEN [meta EXCEPT !.beat = clock, !.active = FALSE]
                                ELSE meta
    /\ UNCHANGED <<clock, locals>>

(***************************************************************************)
(* The world                                                               *)
(***************************************************************************)
Crash(s) ==
    /\ pc[s] \notin {"ended", "dead"} /\ Go(s, "dead")
    /\ UNCHANGED <<meta, clock, locals>>

Tick ==
    /\ clock < MaxClock /\ clock' = clock + 1
    /\ UNCHANGED <<meta, pc, locals>>

\* WorkspaceMapStore.clear deletes the record with the rest of the metadata.
Clear ==
    /\ meta # None /\ meta' = None
    /\ UNCHANGED <<clock, pc, locals>>

SessionStep(s) ==
    \/ AcquireRead(s) \/ Claim(s) \/ ClaimLost(s)
    \/ PublishRead(s) \/ PublishSet(s) \/ Stop(s)
    \/ ReleaseRead(s) \/ ReleaseSet(s) \/ Crash(s)

Next == Tick \/ Clear \/ \E s \in Sessions : SessionStep(s)

Spec == Init /\ [][Next]_vars

(***************************************************************************)
(* Correctness                                                             *)
(***************************************************************************)
\* The record passes from one owner to another.
Replaced == meta # None /\ meta' # None /\ meta'.owner # meta.owner

\* A live watcher is never displaced: the record passes on only from an owner
\* that has released it, has died, or has not published for MaxAge.
TakenOnlyWhenFree == [][Replaced => ~Holding(meta)]_vars

\* Only a session that is acquiring replaces another's record, with a higher
\* fence: one whose lease was taken never writes over its successor.
StaleNeverOverwrites ==
    [][Replaced => pc[meta'.owner] = "claim" /\ meta'.fence > meta.fence]_vars

\* The inductive strengthening.  What an acquirer will compare with was free when
\* it was read, and what is free stays free: time passes, processes die, and a
\* record that was published into is another record.
Free(r) == r = None \/ ~Recent(r) \/ ~Alive(r.owner)

ClaimsAreFree ==
    \A s \in Sessions : pc[s] = "claim" => Free(raw[s])

\* What a publisher will compare with is its own, and so is its own record.
PublishesItsOwn ==
    \A s \in Sessions :
        /\ pc[s] = "publish" => /\ raw[s] # None /\ raw[s].owner = s
                                /\ raw[s].fence = fence[s]
        /\ pc[s] = "retire"  => /\ raw[s] # None /\ raw[s].owner = s
                                /\ raw[s].fence = fence[s]

LeaseInv == TypeOK /\ ClaimsAreFree /\ PublishesItsOwn
=============================================================================
