------------------------- MODULE IdentityLaneProofs -------------------------
(***************************************************************************)
(* What holds of IdentityLane for every set of paths, every queue length   *)
(* and every number of attempts, changes and requests.                     *)
(***************************************************************************)
EXTENDS IdentityLane, TLAPS

LEMMA TypeInit == Init => TypeOK
<1> SUFFICES ASSUME Init PROVE TypeOK
  OBVIOUS
<1>1. EnvTypeOK
  BY DEF Init, EnvTypeOK
<1>2. WatcherTypeOK
  BY DEF Init, WatcherTypeOK
<1>3. TrackerTypeOK
  BY DEF Init, TrackerTypeOK, Nothing, Versions
<1>4. RequestTypeOK
  BY BoundsAssumption DEF Init, RequestTypeOK, Nothing, Versions, PCs, Modes
<1>5. AttemptsLeft
  BY DEF Init, AttemptsLeft
<1> QED
  BY <1>1, <1>2, <1>3, <1>4, <1>5 DEF TypeOK

LEMMA TypeStep == TypeOK /\ [Next]_vars => TypeOK'
<1> SUFFICES ASSUME TypeOK, [Next]_vars
             PROVE  TypeOK'
  OBVIOUS
<1> USE DEF TypeOK, EnvTypeOK, WatcherTypeOK, TrackerTypeOK, RequestTypeOK,
        AttemptsLeft, env, kernel, reader, flush, tracker, request
<1>1. ASSUME NEW p \in Paths, Change(p) PROVE TypeOK'
  <2>1. EnvTypeOK'
    BY <1>1 DEF Change, env
  <2>2. WatcherTypeOK'
    BY <1>1 DEF Change, kernel, reader, flush
  <2>3. TrackerTypeOK'
    BY <1>1 DEF Change, tracker
  <2>4. RequestTypeOK' /\ AttemptsLeft'
    BY <1>1 DEF Change, AttemptsLeft, request
  <2> QED
    BY <2>1, <2>2, <2>3, <2>4
<1>2. CASE LoopDrain
  BY <1>2 DEF LoopDrain, TakeQueue, Readers
<1>3. CASE LoopDone
  BY <1>3 DEF LoopDone
<1>4. CASE LoopDies
  <2>1. EnvTypeOK'
    BY <1>4 DEF LoopDies, env
  <2>2. WatcherTypeOK'
    BY <1>4 DEF LoopDies, kernel, reader, flush
  <2>3. TrackerTypeOK'
    BY <1>4 DEF LoopDies, tracker, MarkUnknown
  <2>4. RequestTypeOK' /\ AttemptsLeft'
    BY <1>4 DEF LoopDies, AttemptsLeft, request
  <2> QED
    BY <2>1, <2>2, <2>3, <2>4
<1>5. CASE Holder
  <2>1. CASE HandleOverflow
    <3>1. EnvTypeOK'
      BY <2>1 DEF HandleOverflow, env
    <3>2. WatcherTypeOK'
      BY <2>1 DEF HandleOverflow, kernel, reader, flush
    <3>3. TrackerTypeOK'
      BY <2>1 DEF HandleOverflow, tracker, MarkUnknown
    <3>4. RequestTypeOK' /\ AttemptsLeft'
      BY <2>1 DEF HandleOverflow, AttemptsLeft, request
    <3> QED
      BY <3>1, <3>2, <3>3, <3>4
  <2>2. CASE DrainAgain
    BY <2>2 DEF DrainAgain, TakeQueue
  <2>3. ASSUME NEW p \in Paths, HandleEvent(p) PROVE TypeOK'
    BY <2>3 DEF HandleEvent
  <2> QED
    BY <1>5, <2>1, <2>2, <2>3 DEF Holder
<1>6. CASE Flush
  <2>1. CASE FlushDrain
    BY <2>1 DEF FlushDrain, Flushers
  <2>2. CASE FlushMark
    BY <2>2 DEF FlushMark, MarkDirty, Flushers
  <2>3. CASE FlushExit
    <3>1. EnvTypeOK'
      BY <2>3 DEF FlushExit, env
    <3>2. WatcherTypeOK'
      BY <2>3 DEF FlushExit, kernel, reader, flush
    <3>3. TrackerTypeOK'
      BY <2>3 DEF FlushExit, tracker, MarkUnknown
    <3>4. RequestTypeOK' /\ AttemptsLeft'
      BY <2>3 DEF FlushExit, AttemptsLeft, request
    <3> QED
      BY <3>1, <3>2, <3>3, <3>4
  <2> QED
    BY <1>6, <2>1, <2>2, <2>3 DEF Flush
<1>7. ASSUME NEW r \in Requests, NEW m \in Modes, Issue(r, m) PROVE TypeOK'
  BY <1>7, BoundsAssumption DEF Issue, PCs, Nothing, Versions
<1>8. ASSUME NEW r \in Requests, Serve(r) PROVE TypeOK'
  <2>1. CASE RequestDrain(r)
    BY <2>1 DEF RequestDrain, TakeQueue, Readers, PCs
  <2>2. CASE RequestDrained(r)
    BY <2>2 DEF RequestDrained, PCs
  <2>3. CASE BarrierDead(r)
    BY <2>3 DEF BarrierDead, MarkUnknown, Nothing, Versions, PCs
  <2>4. CASE BarrierFlush(r)
    BY <2>4 DEF BarrierFlush, Flushers, PCs
  <2>5. CASE BarrierMark(r)
    BY <2>5 DEF BarrierMark, MarkDirty, Flushers, PCs
  <2>6. CASE BarrierCheck(r)
    BY <2>6 DEF BarrierCheck, MarkUnknown, Nothing, Versions, PCs
  <2>7. CASE Prepare(r)
    BY <2>7 DEF Prepare, Kept, Nothing, Versions, PCs
  <2>8. CASE CaptureBegin(r)
    BY <2>8 DEF CaptureBegin, Versions, PCs
  <2>9. CASE ReadFails(r)
    BY <2>9 DEF ReadFails, Fail, MarkUnknown, PCs
  <2>10. CASE Store(r)
    BY <2>10 DEF Store, PCs
  <2>11. CASE CaptureValidate(r)
    BY <2>11 DEF CaptureValidate, PCs
  <2>12. CASE ValidateFails(r)
    BY <2>12 DEF ValidateFails, Fail, MarkUnknown, PCs
  <2>13. CASE Validated(r)
    BY <2>13 DEF Validated, PCs
  <2>14. CASE FinishOk(r)
    BY <2>14 DEF FinishOk, MarkReconciled, PCs
  <2>15. CASE FinishMoved(r)
    <3>1. EnvTypeOK' /\ WatcherTypeOK'
      BY <2>15 DEF FinishMoved
    <3>2. TrackerTypeOK'
      BY <2>15 DEF FinishMoved, MarkUnknown
    <3>3. attempt' \in [Requests -> 0..MaxAttempts]
      <4>1. attempt[r] \in 0..MaxAttempts /\ attempt[r] < MaxAttempts
        BY <2>15 DEF FinishMoved
      <4>2. attempt[r] + 1 \in 0..MaxAttempts
        BY <4>1, BoundsAssumption
      <4>3. attempt' = [attempt EXCEPT ![r] = attempt[r] + 1]
        BY <2>15 DEF FinishMoved
      <4> QED
        BY <4>2, <4>3
    <3>4. pc' \in [Requests -> PCs]
      BY <2>15 DEF FinishMoved, PCs
    <3> QED
      BY <2>15, <3>1, <3>2, <3>3, <3>4, BoundsAssumption DEF FinishMoved
  <2>16. ASSUME NEW p \in Paths, ReadLeaf(r, p) PROVE TypeOK'
    <3>1. PICK v \in Versions : seen' = [seen EXCEPT ![r][p] = v]
      BY <2>16 DEF ReadLeaf, Versions
    <3>2. seen' \in [Requests -> [Paths -> Versions]]
      BY <3>1
    <3> QED
      BY <2>16, <3>2 DEF ReadLeaf
  <2>17. ASSUME NEW p \in Paths, ValidateLeaf(r, p) PROVE TypeOK'
    BY <2>17 DEF ValidateLeaf, Versions
  <2> QED
    BY <1>8, <2>1, <2>2, <2>3, <2>4, <2>5, <2>6, <2>7, <2>8, <2>9, <2>10,
       <2>11, <2>12, <2>13, <2>14, <2>15, <2>16, <2>17 DEF Serve
<1>9. CASE UNCHANGED vars
  BY <1>9 DEF vars
<1> QED
  BY <1>1, <1>2, <1>3, <1>4, <1>5, <1>6, <1>7, <1>8, <1>9 DEF Next

\* Every reachable state of the lane is of its type, for any number of paths,
\* threads and changes.
THEOREM TypeCorrect == Spec => []TypeOK
  BY TypeInit, TypeStep, PTL DEF Spec

(***************************************************************************)
(* Coherence of the hot cache when one request runs at a time.             *)
(***************************************************************************)
OneAtATime == \A r, s \in Requests : r = s

LEMMA LaneInit == Init => LaneInv
<1> SUFFICES ASSUME Init PROVE LaneInv
  OBVIOUS
<1>1. TypeOK
  BY TypeInit
<1>2. HandedOver
  BY DEF Init, HandedOver, Flushers
<1>3. CacheCoherent
  BY DEF Init, CacheCoherent, Stale, Nothing
<1>4. AttemptCoherent
  BY DEF Init, AttemptCoherent, Active
<1>5. CleanKnowsNothing
  BY DEF Init, CleanKnowsNothing
<1> QED
  BY <1>1, <1>2, <1>3, <1>4, <1>5 DEF LaneInv

LEMMA HandedOverStep == LaneInv /\ [Next]_vars => HandedOver'
<1> SUFFICES ASSUME LaneInv, [Next]_vars
             PROVE  HandedOver'
  OBVIOUS
<1> USE DEF LaneInv, HandedOver, env, kernel, reader, flush, tracker, request
<1>1. ASSUME NEW p \in Paths, Change(p) PROVE HandedOver'
  BY <1>1 DEF Change
<1>2. CASE LoopDrain \/ LoopDone \/ LoopDies
  BY <1>2, ActorsAssumption DEF LoopDrain, LoopDone, LoopDies, Drained
<1>3. CASE Holder
  BY <1>3 DEF Holder, HandleOverflow, DrainAgain, HandleEvent
<1>4. CASE Flush
  BY <1>4, ActorsAssumption DEF Flush, FlushDrain, FlushMark, FlushExit, TypeOK, WatcherTypeOK, Flushers
<1>5. ASSUME NEW r \in Requests, NEW m \in Modes, Issue(r, m) PROVE HandedOver'
  BY <1>5 DEF Issue, TypeOK, RequestTypeOK
<1>6. ASSUME NEW r \in Requests, Serve(r) PROVE HandedOver'
  <2>1. CASE RequestDrain(r)
    BY <2>1, ActorsAssumption DEF RequestDrain, TypeOK, RequestTypeOK
  <2>2. CASE RequestDrained(r)
    BY <2>2 DEF RequestDrained, Drained, TypeOK, RequestTypeOK
  <2>3. CASE BarrierFlush(r)
    BY <2>3 DEF BarrierFlush, TypeOK, RequestTypeOK, WatcherTypeOK, Flushers
  <2>4. CASE BarrierMark(r)
    BY <2>4 DEF BarrierMark, TypeOK, RequestTypeOK, WatcherTypeOK, Flushers
  <2>5. ASSUME UNCHANGED <<lock, data, dataOverflow, taken>>, pc[r] # "mark",
               \A s \in Requests \ {r} : pc'[s] = pc[s]
        PROVE  HandedOver'
    BY <2>5
  <2>6. CASE BarrierDead(r) \/ BarrierCheck(r)
    BY <2>5, <2>6 DEF BarrierDead, BarrierCheck, TypeOK, RequestTypeOK
  <2>7. CASE Prepare(r) \/ CaptureBegin(r)
    BY <2>5, <2>7 DEF Prepare, CaptureBegin, TypeOK, RequestTypeOK
  <2>8. CASE ReadFails(r) \/ ValidateFails(r)
    BY <2>5, <2>8 DEF ReadFails, ValidateFails, Fail, TypeOK, RequestTypeOK
  <2>9. CASE Store(r) \/ CaptureValidate(r) \/ Validated(r)
    BY <2>5, <2>9 DEF Store, CaptureValidate, Validated, TypeOK, RequestTypeOK
  <2>10. CASE FinishOk(r) \/ FinishMoved(r)
    BY <2>5, <2>10 DEF FinishOk, FinishMoved, TypeOK, RequestTypeOK
  <2>11. ASSUME NEW p \in Paths, ReadLeaf(r, p) \/ ValidateLeaf(r, p) PROVE HandedOver'
    BY <2>5, <2>11 DEF ReadLeaf, ValidateLeaf
  <2> QED
    BY <1>6, <2>1, <2>2, <2>3, <2>4, <2>6, <2>7, <2>8, <2>9, <2>10, <2>11 DEF Serve
<1>7. CASE UNCHANGED vars
  BY <1>7 DEF vars
<1> QED
  BY <1>1, <1>2, <1>3, <1>4, <1>5, <1>6, <1>7 DEF Next

Coherent == CacheCoherent /\ AttemptCoherent

\* The request s goes on with what it had, or is in no attempt.
Keeps(s) ==
    \/ ~Active(s)'
    \/ Active(s) /\ UNCHANGED <<gen[s], seen[s]>>

\* A step that changes neither files, cache nor tracker and loses no event.
LEMMA QuietStep ==
  ASSUME Coherent, UNCHANGED <<disk, hot, tState, tGen, tPaths>>,
         \A p \in Paths : Coming(p) => Coming(p)',
         \A s \in Requests : Keeps(s)
  PROVE  Coherent'
<1>1. CacheCoherent'
  BY DEF Coherent, CacheCoherent, Stale, Known
<1>2. AttemptCoherent'
  <2> SUFFICES ASSUME NEW s \in Requests, Active(s)'
               PROVE  /\ gen'[s] <= tGen'
                      /\ \A p \in Paths : Outdated(s, p)' => Coming(p)' \/ Known(p)'
                      /\ gen'[s] = tGen' =>
                            \A p \in Paths : Outdated(s, p)' \/ Stale(p)' => Coming(p)'
    BY DEF AttemptCoherent
  <2>1. Active(s) /\ gen'[s] = gen[s] /\ seen'[s] = seen[s]
    BY DEF Keeps
  <2> QED
    BY <2>1 DEF Coherent, AttemptCoherent, Stale, Outdated, Known
<1> QED
  BY <1>1, <1>2 DEF Coherent

\* A step that loses continuity says so, and every running attempt will fail.
LEMMA UnknownStep ==
  ASSUME Coherent, tGen \in Nat, UNCHANGED disk,
         tState' = "unknown", tGen' \in Nat, tGen' > tGen,
         \A s \in Requests : gen[s] \in Nat,
         \A s \in Requests : Keeps(s)
  PROVE  Coherent'
<1>1. CacheCoherent'
  BY DEF CacheCoherent, Known
<1>2. AttemptCoherent'
  <2> SUFFICES ASSUME NEW s \in Requests, Active(s)'
               PROVE  gen'[s] <= tGen' /\ gen'[s] # tGen'
    BY DEF AttemptCoherent, Known
  <2> QED
    BY DEF Coherent, AttemptCoherent, Keeps
<1> QED
  BY <1>1, <1>2 DEF Coherent

\* Marking paths dirty: what was on its way has arrived.
LEMMA DirtyStep ==
  ASSUME Coherent, tGen \in Nat, UNCHANGED <<disk, hot>>,
         NEW S, MarkDirty(S),
         \A p \in Paths : Coming(p) => Coming(p)' \/ p \in S,
         \A s \in Requests : gen[s] \in Nat,
         \A s \in Requests : Keeps(s)
  PROVE  Coherent'
<1>1. CacheCoherent'
  BY DEF Coherent, CacheCoherent, Stale, Known, MarkDirty
<1>2. AttemptCoherent'
  <2> SUFFICES ASSUME NEW s \in Requests, Active(s)'
               PROVE  /\ gen'[s] <= tGen' /\ gen'[s] # tGen'
                      /\ \A p \in Paths : Outdated(s, p)' => Coming(p)' \/ Known(p)'
    BY DEF AttemptCoherent
  <2>1. Active(s) /\ gen'[s] = gen[s] /\ seen'[s] = seen[s]
    BY DEF Keeps
  <2>2. gen'[s] <= tGen' /\ gen'[s] # tGen'
    BY <2>1 DEF Coherent, AttemptCoherent, MarkDirty
  <2>3. \A p \in Paths : Outdated(s, p)' => Coming(p)' \/ Known(p)'
    BY <2>1 DEF Coherent, AttemptCoherent, MarkDirty, Outdated, Known
  <2> QED
    BY <2>2, <2>3
<1> QED
  BY <1>1, <1>2 DEF Coherent

LEMMA ChangeStep ==
  ASSUME LaneInv, NEW q \in Paths, Change(q)
  PROVE  Coherent'
<1>1. \A p \in Paths : Coming(p) => Coming(p)'
  BY DEF Change, Coming, reader, flush
<1>2. Coming(q)'
  BY DEF Change, Coming, reader, flush
<1>3. \A p \in Paths \ {q} : disk'[p] = disk[p]
  BY DEF Change, LaneInv, TypeOK, EnvTypeOK
<1>4. UNCHANGED <<hot, tState, tGen, tPaths, pc, gen, seen>>
  BY DEF Change, tracker, request
<1>5. CacheCoherent'
  BY <1>1, <1>2, <1>3, <1>4 DEF LaneInv, CacheCoherent, Stale, Known
<1>6. AttemptCoherent'
  BY <1>1, <1>2, <1>3, <1>4 DEF LaneInv, AttemptCoherent, Active, Outdated, Stale, Known
<1> QED
  BY <1>5, <1>6 DEF Coherent

LEMMA PrepareStep ==
  ASSUME LaneInv, NEW r \in Requests, Prepare(r)
  PROVE  Coherent'
<1>1. UNCHANGED <<disk, tState, tGen, tPaths>> /\ \A p \in Paths : Coming(p)' = Coming(p)
  BY DEF Prepare, env, kernel, reader, flush, tracker, Coming
<1>2. \A p \in Paths : Stale(p)' => Stale(p) /\ ~Known(p)
  <2>1. disk' = disk /\ hot' = Kept
    BY DEF Prepare, env
  <2>2. CASE tState = "unknown"
    BY <2>1, <2>2 DEF Kept, Nothing, Stale
  <2>3. CASE tState = "dirty"
    BY <2>1, <2>3 DEF Kept, Stale, Known
  <2>4. CASE tState = "clean"
    BY <2>1, <2>4 DEF Kept, Stale, Known, LaneInv, CleanKnowsNothing
  <2> QED
    BY <2>2, <2>3, <2>4 DEF LaneInv, TypeOK, TrackerTypeOK
<1>3. \A p \in Paths : Stale(p)' => Coming(p)'
  BY <1>1, <1>2 DEF LaneInv, CacheCoherent
<1>4. CacheCoherent'
  BY <1>3 DEF CacheCoherent
<1>5. ASSUME NEW s \in Requests, Active(s)'
      PROVE  /\ gen'[s] <= tGen'
             /\ \A p \in Paths : Outdated(s, p)' => Coming(p)' \/ Known(p)'
             /\ gen'[s] = tGen' => \A p \in Paths : Outdated(s, p)' \/ Stale(p)' => Coming(p)'
  <2>1. CASE s = r
    <3>1. gen'[s] = tGen' /\ tGen' \in Nat
      BY <2>1 DEF Prepare, LaneInv, TypeOK, TrackerTypeOK, RequestTypeOK, tracker
    <3>2. \A p \in Paths : ~Outdated(s, p)'
      BY <2>1 DEF Prepare, LaneInv, TypeOK, RequestTypeOK, Outdated, Nothing
    <3> QED
      BY <1>3, <3>1, <3>2
  <2>2. CASE s # r
    <3>1. Active(s) /\ gen'[s] = gen[s] /\ seen'[s] = seen[s]
      BY <1>5, <2>2 DEF Prepare, LaneInv, TypeOK, RequestTypeOK, Active
    <3> QED
      BY <1>1, <1>3, <3>1 DEF LaneInv, AttemptCoherent, Outdated, Known
  <2> QED
    BY <2>1, <2>2
<1> QED
  BY <1>4, <1>5 DEF Coherent, AttemptCoherent

LEMMA ReadLeafStep ==
  ASSUME LaneInv, NEW r \in Requests, NEW q \in Paths, ReadLeaf(r, q)
  PROVE  Coherent'
<1>1. /\ UNCHANGED <<disk, hot, tState, tGen, tPaths, pc, gen>>
      /\ \A p \in Paths : Coming(p)' = Coming(p)
  BY DEF ReadLeaf, env, kernel, reader, flush, tracker, Coming
<1>2. CacheCoherent'
  BY <1>1 DEF LaneInv, CacheCoherent, Stale, Known
<1>3. Active(r) /\ \A s \in Requests : Active(s)' = Active(s)
  BY <1>1 DEF ReadLeaf, Active
<1>4. ASSUME NEW s \in Requests, NEW p \in Paths, Outdated(s, p)'
      PROVE  Outdated(s, p) \/ (s = r /\ Stale(p))
  BY <1>1, <1>4 DEF ReadLeaf, LaneInv, TypeOK, RequestTypeOK, Outdated, Stale
<1>5. AttemptCoherent'
  <2> SUFFICES ASSUME NEW s \in Requests, Active(s)
               PROVE  /\ gen[s] <= tGen
                      /\ \A p \in Paths : Outdated(s, p)' => Coming(p) \/ Known(p)
                      /\ gen[s] = tGen => \A p \in Paths : Outdated(s, p)' \/ Stale(p) => Coming(p)
    BY <1>1, <1>3 DEF AttemptCoherent, Known, Stale
  <2> QED
    BY <1>4 DEF LaneInv, AttemptCoherent, CacheCoherent
<1> QED
  BY <1>2, <1>5 DEF Coherent

LEMMA StoreStep ==
  ASSUME LaneInv, OneAtATime, NEW r \in Requests, Store(r)
  PROVE  Coherent'
<1>1. /\ UNCHANGED <<disk, tState, tGen, tPaths, gen, seen>>
      /\ \A p \in Paths : Coming(p)' = Coming(p)
  BY DEF Store, env, kernel, reader, flush, tracker, Coming
<1>2. Active(r) /\ \A p \in Paths : Stale(p)' = Outdated(r, p)
  BY DEF Store, Active, Stale, Outdated, env
<1>3. CacheCoherent'
  BY <1>1, <1>2 DEF LaneInv, CacheCoherent, AttemptCoherent, Known
<1>4. AttemptCoherent'
  <2> SUFFICES /\ gen[r] <= tGen
               /\ \A p \in Paths : Outdated(r, p) => Coming(p) \/ Known(p)
               /\ gen[r] = tGen => \A p \in Paths : Outdated(r, p) => Coming(p)
    BY <1>1, <1>2 DEF AttemptCoherent, OneAtATime, Outdated, Known
  <2> QED
    BY <1>2 DEF LaneInv, AttemptCoherent
<1> QED
  BY <1>3, <1>4 DEF Coherent

\* Committing a cut nobody has moved: what is outdated is still on its way.
LEMMA FinishOkStep ==
  ASSUME LaneInv, OneAtATime, NEW r \in Requests, FinishOk(r)
  PROVE  Coherent'
<1>1. UNCHANGED <<disk, hot>> /\ \A p \in Paths : Coming(p)' = Coming(p)
  BY DEF FinishOk, env, kernel, reader, flush, Coming
<1>2. \A p \in Paths : Stale(p) => Coming(p)
  BY DEF FinishOk, LaneInv, AttemptCoherent, Active
<1>3. CacheCoherent'
  BY <1>1, <1>2 DEF CacheCoherent, Stale
<1>4. \A s \in Requests : ~Active(s)'
  BY DEF FinishOk, OneAtATime, LaneInv, TypeOK, RequestTypeOK, Active
<1>5. AttemptCoherent'
  BY <1>4 DEF AttemptCoherent
<1> QED
  BY <1>3, <1>5 DEF Coherent

LEMMA CleanStep == LaneInv /\ [Next]_vars => CleanKnowsNothing'
<1> SUFFICES ASSUME LaneInv, [Next]_vars
             PROVE  CleanKnowsNothing'
  OBVIOUS
<1> USE DEF LaneInv, CleanKnowsNothing, MarkDirty, MarkUnknown, MarkReconciled, tracker
<1>1. ASSUME NEW p \in Paths, Change(p) PROVE CleanKnowsNothing'
  BY <1>1 DEF Change
<1>2. CASE LoopDrain \/ LoopDone \/ LoopDies
  BY <1>2 DEF LoopDrain, LoopDone, LoopDies
<1>3. CASE Holder
  BY <1>3 DEF Holder, HandleOverflow, DrainAgain, HandleEvent
<1>4. CASE Flush
  BY <1>4 DEF Flush, FlushDrain, FlushMark, FlushExit
<1>5. ASSUME NEW r \in Requests, NEW m \in Modes, Issue(r, m) PROVE CleanKnowsNothing'
  BY <1>5 DEF Issue
<1>6. ASSUME NEW r \in Requests, Serve(r) PROVE CleanKnowsNothing'
  BY <1>6 DEF Serve, RequestDrain, RequestDrained, BarrierDead, BarrierFlush,
     BarrierMark, BarrierCheck, Prepare, CaptureBegin, ReadFails, Fail, Store,
     CaptureValidate, ValidateFails, Validated, FinishOk, FinishMoved, ReadLeaf,
     ValidateLeaf
<1>7. CASE UNCHANGED vars
  BY <1>7 DEF vars
<1> QED
  BY <1>1, <1>2, <1>3, <1>4, <1>5, <1>6, <1>7 DEF Next

LEMMA CoherentStep == OneAtATime /\ LaneInv /\ [Next]_vars => Coherent'
<1> SUFFICES ASSUME OneAtATime, LaneInv, [Next]_vars
             PROVE  Coherent'
  OBVIOUS
<1>c. Coherent /\ tGen \in Nat /\ \A s \in Requests : gen[s] \in Nat
  BY DEF LaneInv, Coherent, TypeOK, TrackerTypeOK, RequestTypeOK
<1>k. ASSUME UNCHANGED request PROVE \A s \in Requests : Keeps(s)
  BY <1>k DEF Keeps, Active, request
<1>1. ASSUME NEW p \in Paths, Change(p) PROVE Coherent'
  BY <1>1, ChangeStep
<1>2. CASE LoopDrain \/ LoopDone \/ DrainAgain \/ \E p \in Paths : HandleEvent(p)
  <2>1. UNCHANGED <<disk, hot, tState, tGen, tPaths>> /\ UNCHANGED request
    BY <1>2 DEF LoopDrain, LoopDone, DrainAgain, HandleEvent, env, tracker
  <2>2. \A p \in Paths : Coming(p) => Coming(p)'
    <3>1. CASE LoopDrain
      BY <3>1 DEF LoopDrain, TakeQueue, Coming, flush, LaneInv, HandedOver
    <3>2. CASE LoopDone
      BY <3>2 DEF LoopDone, Coming, kernel, flush
    <3>3. CASE DrainAgain
      BY <3>3 DEF DrainAgain, TakeQueue, Coming, flush
    <3>4. ASSUME NEW p \in Paths, HandleEvent(p)
          PROVE  \A q \in Paths : Coming(q) => Coming(q)'
      BY <3>4 DEF HandleEvent, Coming, kernel
    <3> QED
      BY <1>2, <3>1, <3>2, <3>3, <3>4
  <2> QED
    BY <1>c, <1>k, <2>1, <2>2, QuietStep
<1>3. CASE HandleOverflow \/ LoopDies \/ FlushExit
  <2>1. /\ UNCHANGED disk /\ UNCHANGED request
        /\ tState' = "unknown" /\ tGen' = tGen + 1
    BY <1>3 DEF HandleOverflow, LoopDies, FlushExit, MarkUnknown, env
  <2> QED
    BY <1>c, <1>k, <2>1, UnknownStep
<1>4. CASE FlushDrain
  <2>1. UNCHANGED <<disk, hot, tState, tGen, tPaths>> /\ UNCHANGED request
    BY <1>4 DEF FlushDrain, env, tracker
  <2>2. \A p \in Paths : Coming(p) => Coming(p)'
    BY <1>4 DEF FlushDrain, Coming, kernel, reader, LaneInv, TypeOK, WatcherTypeOK, Flushers
  <2> QED
    BY <1>c, <1>k, <2>1, <2>2, QuietStep
<1>5. CASE FlushMark
  <2>1. UNCHANGED <<disk, hot>> /\ UNCHANGED request /\ MarkDirty(taken[Flusher])
    BY <1>5 DEF FlushMark, env
  <2>2. \A p \in Paths : Coming(p) => Coming(p)' \/ p \in taken[Flusher]
    BY <1>5 DEF FlushMark, Coming, kernel, reader, LaneInv, TypeOK, WatcherTypeOK, Flushers
  <2> QED
    BY <1>c, <1>k, <2>1, <2>2, DirtyStep
<1>6. ASSUME NEW r \in Requests, NEW m \in Modes, Issue(r, m) PROVE Coherent'
  <2>1. UNCHANGED <<disk, hot, tState, tGen, tPaths>>
    BY <1>6 DEF Issue, env, tracker
  <2>2. \A p \in Paths : Coming(p) => Coming(p)'
    BY <1>6 DEF Issue, Coming, kernel, reader, flush
  <2>3. \A s \in Requests : Keeps(s)
    BY <1>6 DEF Issue, Keeps, Active, LaneInv, TypeOK, RequestTypeOK
  <2> QED
    BY <1>c, <2>1, <2>2, <2>3, QuietStep
<1>7. ASSUME NEW r \in Requests, Serve(r) PROVE Coherent'
  <2>1. CASE RequestDrain(r) \/ RequestDrained(r) \/ BarrierFlush(r)
    <3>1. UNCHANGED <<disk, hot, tState, tGen, tPaths>>
      BY <2>1 DEF RequestDrain, RequestDrained, BarrierFlush, env, tracker
    <3>2. \A p \in Paths : Coming(p) => Coming(p)'
      <4>1. CASE RequestDrain(r)
        BY <4>1 DEF RequestDrain, TakeQueue, Coming, flush, LaneInv, HandedOver
      <4>2. CASE RequestDrained(r)
        BY <4>2 DEF RequestDrained, Coming, kernel, flush
      <4>3. CASE BarrierFlush(r)
        BY <4>3 DEF BarrierFlush, Coming, kernel, reader, LaneInv, HandedOver,
           TypeOK, WatcherTypeOK, Flushers
      <4> QED
        BY <2>1, <4>1, <4>2, <4>3
    <3>3. \A s \in Requests : Keeps(s)
      BY <2>1 DEF RequestDrain, RequestDrained, BarrierFlush, Keeps, Active,
         LaneInv, TypeOK, RequestTypeOK
    <3> QED
      BY <1>c, <3>1, <3>2, <3>3, QuietStep
  <2>2. CASE BarrierMark(r)
    <3>1. \A s \in Requests : Keeps(s)
      BY <2>2 DEF BarrierMark, Keeps, Active, LaneInv, TypeOK, RequestTypeOK
    <3>2. UNCHANGED <<disk, hot>>
      BY <2>2 DEF BarrierMark, env
    <3>3. \A p \in Paths : Coming(p) => Coming(p)' \/ p \in taken[r]
      BY <2>2 DEF BarrierMark, Coming, kernel, reader, LaneInv, TypeOK,
         WatcherTypeOK, Flushers
    <3>4. CASE taken[r] = {}
      BY <1>c, <2>2, <3>1, <3>2, <3>3, <3>4, QuietStep DEF BarrierMark, tracker
    <3>5. CASE taken[r] # {}
      BY <1>c, <2>2, <3>1, <3>2, <3>3, <3>5, DirtyStep DEF BarrierMark
    <3> QED
      BY <3>4, <3>5
  <2>3. CASE BarrierDead(r) \/ ReadFails(r) \/ ValidateFails(r)
    <3>1. UNCHANGED disk /\ tState' = "unknown" /\ tGen' \in Nat /\ tGen' > tGen
      BY <1>c, <2>3 DEF BarrierDead, ReadFails, ValidateFails, Fail, MarkUnknown, env
    <3>2. \A s \in Requests : Keeps(s)
      BY <2>3 DEF BarrierDead, ReadFails, ValidateFails, Fail, Keeps, Active,
         LaneInv, TypeOK, RequestTypeOK
    <3> QED
      BY <1>c, <3>1, <3>2, UnknownStep
  <2>4. CASE BarrierCheck(r)
    <3>1. \A s \in Requests : Keeps(s)
      BY <2>4 DEF BarrierCheck, Keeps, Active, LaneInv, TypeOK, RequestTypeOK
    <3>2. UNCHANGED disk /\ \A p \in Paths : Coming(p) => Coming(p)'
      BY <2>4 DEF BarrierCheck, Coming, env, kernel, reader, flush
    <3>3. CASE tState = "unknown"
      BY <1>c, <2>4, <3>1, <3>2, <3>3, UnknownStep DEF BarrierCheck, MarkUnknown
    <3>4. CASE tState # "unknown"
      BY <1>c, <2>4, <3>1, <3>2, <3>4, QuietStep DEF BarrierCheck, tracker
    <3> QED
      BY <3>3, <3>4
  <2>5. CASE Prepare(r)
    BY <2>5, PrepareStep
  <2>6. CASE CaptureBegin(r) \/ CaptureValidate(r) \/ Validated(r)
             \/ \E p \in Paths : ValidateLeaf(r, p)
    <3>1. UNCHANGED <<disk, hot, tState, tGen, tPaths>>
      BY <2>6 DEF CaptureBegin, CaptureValidate, Validated, ValidateLeaf, env, tracker
    <3>2. \A p \in Paths : Coming(p) => Coming(p)'
      BY <2>6 DEF CaptureBegin, CaptureValidate, Validated, ValidateLeaf, Coming,
         kernel, reader, flush
    <3>3. \A s \in Requests : Keeps(s)
      BY <2>6 DEF CaptureBegin, CaptureValidate, Validated, ValidateLeaf, Keeps,
         Active, LaneInv, TypeOK, RequestTypeOK
    <3> QED
      BY <1>c, <3>1, <3>2, <3>3, QuietStep
  <2>7. ASSUME NEW p \in Paths, ReadLeaf(r, p) PROVE Coherent'
    BY <2>7, ReadLeafStep
  <2>8. CASE Store(r)
    BY <2>8, StoreStep
  <2>9. CASE FinishOk(r)
    BY <2>9, FinishOkStep
  <2>10. CASE FinishMoved(r)
    <3>1. \A s \in Requests : Keeps(s)
      BY <2>10 DEF FinishMoved, Keeps, Active, LaneInv, TypeOK, RequestTypeOK
    <3>2. UNCHANGED <<disk, hot>> /\ \A p \in Paths : Coming(p) => Coming(p)'
      BY <2>10 DEF FinishMoved, Coming, env, kernel, reader, flush
    <3>3. CASE attempt[r] + 1 < MaxAttempts
      BY <1>c, <2>10, <3>1, <3>2, <3>3, QuietStep DEF FinishMoved, tracker
    <3>4. CASE ~(attempt[r] + 1 < MaxAttempts)
      BY <1>c, <2>10, <3>1, <3>2, <3>4, UnknownStep DEF FinishMoved, MarkUnknown
    <3> QED
      BY <3>3, <3>4
  <2> QED
    BY <1>7, <2>1, <2>2, <2>3, <2>4, <2>5, <2>6, <2>7, <2>8, <2>9, <2>10 DEF Serve
<1>8. CASE UNCHANGED vars
  <2>1. \A p \in Paths : Coming(p) => Coming(p)'
    BY <1>8 DEF vars, Coming, kernel, reader, flush
  <2> QED
    BY <1>c, <1>k, <1>8, <2>1, QuietStep DEF vars, env, tracker
<1> QED
  BY <1>1, <1>2, <1>3, <1>4, <1>5, <1>6, <1>7, <1>8 DEF Next, Holder, Flush

LEMMA LaneStep == OneAtATime /\ LaneInv /\ [Next]_vars => LaneInv'
  BY TypeStep, HandedOverStep, CleanStep, CoherentStep DEF LaneInv, Coherent

\* When requests are answered one at a time, the hot cache of the daemon never
\* holds an outdated version that neither ChangeTracker nor the watcher's
\* pipeline will invalidate, whatever the number of paths, of changes and of
\* lost events.
THEOREM CacheStaysCoherent == OneAtATime => (Spec => []CacheCoherent)
<1>1. SUFFICES ASSUME OneAtATime PROVE Spec => []CacheCoherent
  OBVIOUS
<1>2. LaneInv /\ [Next]_vars => LaneInv'
  BY <1>1, LaneStep
<1>3. LaneInv => CacheCoherent
  BY DEF LaneInv
<1> QED
  BY <1>2, <1>3, LaneInit, PTL DEF Spec

(***************************************************************************)
(* Answers that re-read the bytes, with any number of requests at a time.  *)
(***************************************************************************)
\* What a request has read is between its arrival and now, and it has read all
\* of it when it goes on.
Reread(r) ==
    /\ \A p \in Paths : start[r][p] <= disk[p]
    /\ \A p \in Paths : mode[r] # "fast" /\ seen[r][p] # None =>
          start[r][p] <= seen[r][p] /\ seen[r][p] <= disk[p]
    /\ pc[r] \in {"finish", "validate", "done"} => ReadAll(r)
    /\ pc[r] \in {"begin", "validate"} => mode[r] = "capture"

\* A capture reads a path between its mark and the beginning of validation; a
\* member that still has its mark later had that version all the time.
Marked(r) ==
    mode[r] = "capture" =>
        /\ pc[r] = "begin" => seen[r] = Nothing
        /\ pc[r] = "read" => \A p \in Paths :
              /\ marks[r][p] # None /\ marks[r][p] <= disk[p]
              /\ seen[r][p] # None => marks[r][p] <= seen[r][p]
        /\ pc[r] = "validate" => \A p \in Paths :
              /\ seen[r][p] <= mid[r][p] /\ mid[r][p] <= disk[p]
              /\ marks[r][p] = None => seen[r][p] = mid[r][p]
              /\ marks[r][p] # None => marks[r][p] <= seen[r][p]
        /\ pc[r] \in {"finish", "done"} => seen[r] = mid[r]

BytesInv == TypeOK /\ \A r \in Requests : Reread(r) /\ Marked(r)

LEMMA DiskGrows ==
  ASSUME TypeOK, [Next]_vars, NEW p \in Paths
  PROVE  disk[p] \in Nat /\ disk'[p] \in Nat /\ disk[p] <= disk'[p]
<1>1. disk \in [Paths -> Nat] /\ disk' \in [Paths -> Nat]
  BY TypeStep DEF TypeOK, EnvTypeOK
<1>2. disk' = disk \/ \E q \in Paths : Change(q)
  BY DEF Next, LoopDrain, LoopDone, LoopDies, Holder, HandleOverflow, DrainAgain,
     HandleEvent, Flush, FlushDrain, FlushMark, FlushExit, Issue, Serve,
     RequestDrain, RequestDrained, BarrierDead, BarrierFlush, BarrierMark,
     BarrierCheck, Prepare, CaptureBegin, ReadFails, Fail, Store, CaptureValidate,
     ValidateFails, Validated, FinishOk, FinishMoved, ReadLeaf, ValidateLeaf,
     env, vars
<1>3. ASSUME NEW q \in Paths, Change(q) PROVE disk[p] <= disk'[p]
  BY <1>1, <1>3 DEF Change
<1> QED
  BY <1>1, <1>2, <1>3

\* A request that goes on with what it had, or starts its attempt again.
LEMMA BytesKept ==
  ASSUME NEW r \in Requests, Reread(r), Marked(r), TypeOK, [Next]_vars,
         UNCHANGED <<mode[r], seen[r], marks[r], mid[r], start[r]>>,
         \/ pc'[r] = pc[r]
         \/ pc'[r] \notin {"begin", "read", "validate", "finish", "done"}
  PROVE  Reread(r)' /\ Marked(r)'
<1>1. \A p \in Paths : disk[p] \in Nat /\ disk'[p] \in Nat /\ disk[p] <= disk'[p]
  BY DiskGrows
<1>2. \A p \in Paths : /\ start[r][p] \in Nat /\ mid[r][p] \in Nat
                       /\ seen[r][p] \in Versions /\ marks[r][p] \in Versions
  BY DEF TypeOK, RequestTypeOK
<1>3. Reread(r)'
  BY <1>1, <1>2 DEF Reread, ReadAll, Versions
<1>4. Marked(r)'
  BY <1>1, <1>2 DEF Marked, Reread, ReadAll, Versions
<1> QED
  BY <1>3, <1>4

LEMMA BytesInit == Init => BytesInv
<1> SUFFICES ASSUME Init PROVE BytesInv
  OBVIOUS
<1>1. TypeOK
  BY TypeInit
<1>2. \A r \in Requests : Reread(r) /\ Marked(r)
  BY DEF Init, Reread, Marked, Nothing
<1> QED
  BY <1>1, <1>2 DEF BytesInv

LEMMA BytesServe ==
  ASSUME BytesInv, [Next]_vars, NEW r \in Requests, Serve(r)
  PROVE  Reread(r)' /\ Marked(r)'
<1>t. TypeOK /\ Reread(r) /\ Marked(r)
  BY DEF BytesInv
<1>p. /\ pc \in [Requests -> PCs]
      /\ seen \in [Requests -> [Paths -> Versions]]
      /\ marks \in [Requests -> [Paths -> Versions]]
      /\ mid \in [Requests -> [Paths -> Nat]]
      /\ start[r] \in [Paths -> Nat]
      /\ disk \in [Paths -> Nat]
  BY <1>t DEF TypeOK, EnvTypeOK, RequestTypeOK
<1>1. CASE RequestDrain(r) \/ RequestDrained(r) \/ BarrierDead(r)
           \/ BarrierFlush(r) \/ BarrierMark(r) \/ BarrierCheck(r)
  BY <1>1, <1>t, <1>p, BytesKept DEF RequestDrain, RequestDrained, BarrierDead,
     BarrierFlush, BarrierMark, BarrierCheck
<1>2. CASE Prepare(r)
  BY <1>2, <1>t, <1>p DEF Prepare, Reread, Marked, Nothing, env
<1>3. CASE CaptureBegin(r)
  <2>1. /\ UNCHANGED <<disk, mode, seen, start>>
        /\ marks'[r] = disk /\ pc[r] = "begin" /\ pc'[r] = "read"
    BY <1>3, <1>p DEF CaptureBegin, env
  <2>2. Reread(r)'
    BY <1>t, <2>1 DEF Reread
  <2>3. \A p \in Paths : seen[r][p] = None
    BY <2>1, <1>t DEF Reread, Marked, Nothing
  <2> QED
    BY <1>p, <2>1, <2>2, <2>3, NoneAssumption DEF Marked
<1>4. CASE ReadFails(r) \/ ValidateFails(r)
  BY <1>4, <1>t, <1>p, BytesKept DEF ReadFails, ValidateFails, Fail
<1>5. CASE Store(r)
  BY <1>5, <1>t DEF Store, Reread, Marked, ReadAll, env
<1>6. CASE CaptureValidate(r)
  BY <1>6, <1>t, <1>p DEF CaptureValidate, Reread, Marked, ReadAll, Versions, env
<1>7. CASE Validated(r)
  BY <1>7, <1>t, <1>p DEF Validated, Reread, Marked, ReadAll, Nothing, env
<1>8. CASE FinishOk(r)
  BY <1>8, <1>t, <1>p DEF FinishOk, Reread, Marked, ReadAll, env
<1>9. CASE FinishMoved(r)
  BY <1>9, <1>t, <1>p, BytesKept DEF FinishMoved
<1>10. ASSUME NEW p \in Paths, ReadLeaf(r, p) PROVE Reread(r)' /\ Marked(r)'
  <2>1. /\ pc[r] = "read" /\ seen[r][p] = None
        /\ UNCHANGED <<disk, pc, mode, marks, start, mid>>
        /\ \A q \in Paths \ {p} : seen'[r][q] = seen[r][q]
        /\ mode[r] # "fast" => seen'[r][p] = disk[p]
    BY <1>10, <1>p DEF ReadLeaf, env
  <2>2. Reread(r)'
    BY <1>t, <1>p, <2>1 DEF Reread
  <2>3. mode[r] = "capture" => marks[r][p] # None /\ marks[r][p] <= disk[p]
    BY <1>t, <2>1 DEF Marked
  <2>4. Marked(r)'
    BY <1>t, <2>1, <2>3 DEF Marked
  <2> QED
    BY <2>2, <2>4
<1>11. ASSUME NEW p \in Paths, ValidateLeaf(r, p) PROVE Reread(r)' /\ Marked(r)'
  <2>1. /\ pc[r] = "validate" /\ marks[r][p] # None /\ disk[p] = marks[r][p]
        /\ UNCHANGED <<disk, pc, mode, seen, start, mid>>
        /\ \A q \in Paths \ {p} : marks'[r][q] = marks[r][q]
        /\ marks'[r][p] = None
    BY <1>11, <1>p DEF ValidateLeaf, env
  <2>2. Reread(r)'
    BY <1>t, <2>1 DEF Reread, ReadAll
  <2>3. seen[r][p] \in Nat /\ mid[r][p] \in Nat /\ disk[p] \in Nat
    BY <1>t, <1>p, <2>1 DEF Reread, ReadAll, Versions
  <2>4. mode[r] = "capture" => seen[r][p] = mid[r][p]
    BY <1>t, <2>1, <2>3 DEF Marked
  <2>5. Marked(r)'
    BY <1>t, <2>1, <2>4 DEF Marked
  <2> QED
    BY <2>2, <2>5
<1> QED
  BY <1>1, <1>2, <1>3, <1>4, <1>5, <1>6, <1>7, <1>8, <1>9, <1>10, <1>11 DEF Serve

LEMMA BytesStep == BytesInv /\ [Next]_vars => BytesInv'
<1> SUFFICES ASSUME BytesInv, [Next]_vars, NEW s \in Requests
             PROVE  Reread(s)' /\ Marked(s)'
  BY TypeStep DEF BytesInv
<1>t. TypeOK /\ Reread(s) /\ Marked(s)
  BY DEF BytesInv
<1>1. CASE UNCHANGED request
  BY <1>1, <1>t, BytesKept DEF request
<1>2. ASSUME NEW r \in Requests, NEW m \in Modes, Issue(r, m)
      PROVE  Reread(s)' /\ Marked(s)'
  <2>1. CASE s = r
    BY <1>2, <2>1, <1>t DEF Issue, Reread, Marked, Nothing, TypeOK, EnvTypeOK,
       RequestTypeOK, env
  <2>2. CASE s # r
    BY <1>2, <2>2, <1>t, BytesKept DEF Issue, TypeOK, RequestTypeOK
  <2> QED
    BY <2>1, <2>2
<1>3. ASSUME NEW r \in Requests, Serve(r) PROVE Reread(s)' /\ Marked(s)'
  <2>1. CASE s = r
    BY <1>3, <2>1, BytesServe
  <2>2. CASE s # r
    <3>1. UNCHANGED <<pc[s], mode[s], seen[s], marks[s], mid[s], start[s]>>
      BY <1>3, <2>2, <1>t DEF TypeOK, RequestTypeOK, Serve, RequestDrain,
         RequestDrained, BarrierDead, BarrierFlush, BarrierMark, BarrierCheck,
         Prepare, CaptureBegin, ReadFails, Fail, Store, CaptureValidate,
         ValidateFails, Validated, FinishOk, FinishMoved, ReadLeaf, ValidateLeaf
    <3> QED
      BY <1>t, <3>1, BytesKept
  <2> QED
    BY <2>1, <2>2
<1>4. ASSUME NEW q \in Paths, Change(q) PROVE UNCHANGED request
  BY <1>4 DEF Change
<1>5. LoopDrain \/ LoopDone \/ LoopDies \/ Holder \/ Flush => UNCHANGED request
  BY DEF LoopDrain, LoopDone, LoopDies, Holder, HandleOverflow, DrainAgain,
     HandleEvent, Flush, FlushDrain, FlushMark, FlushExit
<1> QED
  BY <1>1, <1>2, <1>3, <1>4, <1>5 DEF Next, vars

LEMMA BytesCorrect == Spec => []BytesInv
  BY BytesInit, BytesStep, PTL DEF Spec

\* I3: an answer that re-read the bytes is no older than its request, whatever
\* the watcher has lost and however many requests are answered at once.
THEOREM StrongAnswersAreFresh == Spec => []StrongAnswerFresh
<1>1. BytesInv => StrongAnswerFresh
  BY DEF BytesInv, StrongAnswerFresh, Reread, ReadAll, TypeOK, RequestTypeOK, Versions
<1> QED
  BY <1>1, BytesCorrect, PTL

\* The answer of observe_inputs is the disk of one instant, the beginning of its
\* validation, with any number of paths and of concurrent requests.
THEOREM CapturesAreTogether == Spec => []CapturedTogether
<1>1. BytesInv => CapturedTogether
  BY DEF BytesInv, CapturedTogether, Marked
<1> QED
  BY <1>1, BytesCorrect, PTL

(***************************************************************************)
(* What the barrier gives an answer that trusts the hot cache, when one    *)
(* request runs at a time.                                                 *)
(***************************************************************************)
\* The cache has p as it was before the request arrived.
Old(r, p) == hot[p] # None /\ hot[p] < start[r][p]

\* Such an entry is stale, so its change is on its way or known; the barrier
\* takes it along, from the descriptor to the batch, to the request and to the
\* tracker, and Prepare drops it.
Passed(r, p) ==
    /\ pc[r] = "flush" /\ Old(r, p) => p \in batch \cup taken[Flusher] \/ Known(p)
    /\ pc[r] = "mark" /\ Old(r, p) => p \in taken[r] \/ Known(p)
    /\ pc[r] \in {"check", "prepare"} /\ Old(r, p) => Known(p)
    /\ Active(r) => ~Old(r, p)
    /\ Active(r) /\ seen[r][p] # None => seen[r][p] >= start[r][p]
    /\ pc[r] = "done" => seen[r][p] >= start[r][p]

Answers(r) ==
    /\ pc[r] \in {"barrier", "drain", "flush"} => blind[r] = {}
    /\ \A p \in Paths \ blind[r] : Passed(r, p)

AnswerInv == LaneInv /\ BytesInv /\ \A r \in Requests : Answers(r)

LEMMA AnswerInit == Init => AnswerInv
<1> SUFFICES ASSUME Init PROVE AnswerInv
  OBVIOUS
<1>1. LaneInv /\ BytesInv
  BY LaneInit, BytesInit
<1>2. \A r \in Requests : Answers(r)
  BY DEF Init, Answers, Passed, Active
<1> QED
  BY <1>1, <1>2 DEF AnswerInv

\* A step of another thread: it leaves the request and the cache alone, and
\* what it takes out of the batch it holds or has told the tracker.
LEMMA AnswerQuiet ==
  ASSUME NEW r \in Requests, Answers(r),
         UNCHANGED <<hot, pc[r], seen[r], start[r], blind[r], taken[r]>>,
         \A p \in Paths : p \in batch \cup taken[Flusher] =>
            p \in (batch \cup taken[Flusher])' \/ Known(p)',
         \A p \in Paths : Known(p) => Known(p)'
  PROVE  Answers(r)'
<1>1. ASSUME NEW p \in Paths \ blind[r] PROVE Passed(r, p)'
  BY DEF Answers, Passed, Old, Active
<1> QED
  BY <1>1 DEF Answers

LEMMA AnswerOthers ==
  ASSUME AnswerInv, NEW r \in Requests,
         \/ \E p \in Paths : Change(p)
         \/ LoopDrain \/ LoopDone \/ LoopDies \/ Holder \/ Flush
  PROVE  Answers(r)'
<1>t. TypeOK /\ Answers(r)
  BY DEF AnswerInv, LaneInv
<1>1. UNCHANGED <<hot, pc[r], seen[r], start[r], blind[r]>>
  BY DEF Change, LoopDrain, LoopDone, LoopDies, Holder, HandleOverflow, DrainAgain,
     HandleEvent, Flush, FlushDrain, FlushMark, FlushExit, request
<1>2. taken'[r] = taken[r]
  BY <1>t, ActorsAssumption DEF Change, LoopDrain, LoopDone, LoopDies, Holder,
     HandleOverflow, DrainAgain, HandleEvent, Flush, FlushDrain, FlushMark,
     FlushExit, flush, TypeOK, WatcherTypeOK, Flushers
<1>3. \A p \in Paths : Known(p) => Known(p)'
  BY DEF Change, LoopDrain, LoopDone, LoopDies, Holder, HandleOverflow, DrainAgain,
     HandleEvent, Flush, FlushDrain, FlushMark, FlushExit, MarkDirty, MarkUnknown,
     Known, tracker
<1>4. \A p \in Paths : p \in batch \cup taken[Flusher] =>
         p \in (batch \cup taken[Flusher])' \/ Known(p)'
  <2>1. CASE FlushDrain
    BY <2>1, <1>t DEF FlushDrain, TypeOK, WatcherTypeOK, Flushers
  <2>2. CASE FlushMark
    BY <2>2, <1>t DEF FlushMark, MarkDirty, Known, TypeOK, WatcherTypeOK, Flushers
  <2>3. CASE \/ \E p \in Paths : Change(p)
             \/ LoopDrain \/ LoopDone \/ LoopDies \/ Holder \/ FlushExit
    BY <2>3 DEF Change, LoopDrain, LoopDone, LoopDies, Holder, HandleOverflow,
       DrainAgain, HandleEvent, FlushExit, flush
  <2> QED
    BY <2>1, <2>2, <2>3 DEF Flush
<1> QED
  BY <1>t, <1>1, <1>2, <1>3, <1>4, AnswerQuiet

\* The end of the drain: what is stale is in the batch, held or known.
LEMMA AnswerDrained ==
  ASSUME AnswerInv, OneAtATime, NEW r \in Requests, RequestDrained(r)
  PROVE  Answers(r)'
<1>1. ASSUME NEW p \in Paths, Old(r, p)
      PROVE  p \in batch \cup taken[Flusher] \/ Known(p)
  <2>1. Stale(p)
    <3>1. start[r][p] <= disk[p]
      BY DEF AnswerInv, BytesInv, Reread
    <3>2. hot[p] \in Versions /\ disk[p] \in Nat /\ start[r][p] \in Nat
      BY DEF AnswerInv, LaneInv, TypeOK, EnvTypeOK, TrackerTypeOK, RequestTypeOK
    <3> QED
      BY <1>1, <3>1, <3>2 DEF Old, Stale, Versions
  <2>2. Coming(p) \/ Known(p)
    BY <2>1 DEF AnswerInv, LaneInv, CacheCoherent
  <2>3. taken[r] = {}
    BY DEF RequestDrained, AnswerInv, LaneInv, HandedOver
  <2>4. \A a \in Flushers : a = r \/ a = Flusher
    BY DEF OneAtATime, Flushers
  <2> QED
    BY <2>2, <2>3, <2>4 DEF Coming, RequestDrained, Drained
<1>2. /\ pc[r] = "drain" /\ pc'[r] = "flush"
      /\ UNCHANGED <<hot, start, blind, batch, taken, tPaths, tState>>
  BY DEF RequestDrained, AnswerInv, LaneInv, TypeOK, RequestTypeOK, flush, tracker
<1> QED
  BY <1>1, <1>2 DEF AnswerInv, Answers, Passed, Old, Known, Active

LEMMA AnswerServe ==
  ASSUME AnswerInv, OneAtATime, NEW r \in Requests, Serve(r)
  PROVE  Answers(r)'
<1>t. TypeOK /\ Answers(r) /\ Reread(r)
  BY DEF AnswerInv, LaneInv, BytesInv
<1>p. /\ pc \in [Requests -> PCs]
      /\ seen \in [Requests -> [Paths -> Versions]]
      /\ start \in [Requests -> [Paths -> Nat]]
      /\ blind \in [Requests -> SUBSET Paths]
      /\ taken \in [Flushers -> SUBSET Paths]
      /\ disk \in [Paths -> Nat] /\ hot \in [Paths -> Versions]
      /\ tState \in {"clean", "dirty", "unknown"}
  BY <1>t DEF TypeOK, EnvTypeOK, WatcherTypeOK, TrackerTypeOK, RequestTypeOK
<1>1. CASE RequestDrain(r)
  BY <1>1, <1>t, <1>p DEF RequestDrain, Answers, Passed, Active
<1>2. CASE RequestDrained(r)
  BY <1>2, AnswerDrained
<1>3. CASE BarrierDead(r)
  BY <1>3, <1>t, <1>p DEF BarrierDead, MarkUnknown, Nothing, Answers, Passed, Old, Active
<1>4. CASE BarrierFlush(r)
  <2>1. blind'[r] = taken[Flusher] /\ taken'[r] = batch
    <3>1. \A a \in Flushers : a = r \/ a = Flusher
      BY DEF OneAtATime, Flushers
    <3>2. Flushers \ {r} = {Flusher}
      BY <3>1, ActorsAssumption DEF Flushers
    <3> QED
      BY <1>4, <1>p, <3>2 DEF BarrierFlush, Flushers
  <2>2. /\ pc[r] = "flush" /\ pc'[r] = "mark"
        /\ UNCHANGED <<hot, start, tState, tPaths>>
    BY <1>4, <1>p DEF BarrierFlush, tracker
  <2> QED
    BY <1>t, <2>1, <2>2 DEF Answers, Passed, Old, Known, Active
<1>5. CASE BarrierMark(r)
  BY <1>5, <1>t, <1>p DEF BarrierMark, MarkDirty, Answers, Passed, Old, Known, Active, tracker
<1>6. CASE BarrierCheck(r)
  BY <1>6, <1>t, <1>p DEF BarrierCheck, MarkUnknown, Nothing, Answers, Passed, Old,
     Known, Active, tracker
<1>7. CASE Prepare(r)
  <2>1. \A p \in Paths : hot'[p] # None => hot'[p] = hot[p] /\ ~Known(p)
    <3>1. tState = "clean" => tPaths = {}
      BY DEF AnswerInv, LaneInv, CleanKnowsNothing
    <3> QED
      BY <1>7, <1>p, <3>1 DEF Prepare, Kept, Nothing, Known
  <2>2. /\ pc[r] = "prepare" /\ pc'[r] \in {"begin", "read"} /\ seen'[r] = Nothing
        /\ UNCHANGED <<start, blind>>
    BY <1>7, <1>p DEF Prepare
  <2> QED
    BY <1>t, <2>1, <2>2 DEF Answers, Passed, Old, Nothing, Active
<1>8. CASE CaptureBegin(r) \/ CaptureValidate(r) \/ Validated(r)
  BY <1>8, <1>t, <1>p DEF CaptureBegin, CaptureValidate, Validated, Answers, Passed,
     Old, Active
<1>9. CASE ReadFails(r) \/ ValidateFails(r)
  BY <1>9, <1>t, <1>p DEF ReadFails, ValidateFails, Fail, Answers, Passed, Active
<1>10. CASE Store(r)
  BY <1>10, <1>t, <1>p DEF Store, Answers, Passed, Old, Active, Versions
<1>11. CASE FinishOk(r)
  BY <1>11, <1>t, <1>p DEF FinishOk, Answers, Passed, Reread, ReadAll, Active
<1>12. CASE FinishMoved(r)
  BY <1>12, <1>t, <1>p DEF FinishMoved, Answers, Passed, Old, Active
<1>13. ASSUME NEW q \in Paths, ReadLeaf(r, q) PROVE Answers(r)'
  BY <1>13, <1>t, <1>p DEF ReadLeaf, Answers, Passed, Old, Active, Reread, Versions
<1>14. ASSUME NEW q \in Paths, ValidateLeaf(r, q) PROVE Answers(r)'
  BY <1>14, <1>t, <1>p DEF ValidateLeaf, Answers, Passed, Old, Active
<1> QED
  BY <1>1, <1>2, <1>3, <1>4, <1>5, <1>6, <1>7, <1>8, <1>9, <1>10, <1>11, <1>12,
     <1>13, <1>14 DEF Serve

LEMMA AnswerStep == OneAtATime /\ AnswerInv /\ [Next]_vars => AnswerInv'
<1> SUFFICES ASSUME OneAtATime, AnswerInv, [Next]_vars, NEW r \in Requests
             PROVE  Answers(r)'
  BY LaneStep, BytesStep DEF AnswerInv
<1>t. TypeOK /\ Answers(r)
  BY DEF AnswerInv, LaneInv
<1>1. CASE \/ \E p \in Paths : Change(p)
           \/ LoopDrain \/ LoopDone \/ LoopDies \/ Holder \/ Flush
  BY <1>1, AnswerOthers
<1>2. ASSUME NEW s \in Requests, NEW m \in Modes, Issue(s, m) PROVE Answers(r)'
  <2>1. s = r
    BY DEF OneAtATime
  <2> QED
    BY <1>2, <2>1, <1>t DEF Issue, Answers, Passed, Active, TypeOK, RequestTypeOK
<1>3. ASSUME NEW s \in Requests, Serve(s) PROVE Answers(r)'
  BY <1>3, AnswerServe DEF OneAtATime
<1>4. CASE UNCHANGED vars
  BY <1>4, <1>t, AnswerQuiet DEF vars, request, flush, tracker, Known
<1> QED
  BY <1>1, <1>2, <1>3, <1>4 DEF Next

\* When requests are answered one at a time, every answer, a trusting one too,
\* is no older than its request in every path that the watcher's flush thread
\* did not hold at the request's barrier.
THEOREM AnswersAreFresh == OneAtATime => (Spec => []AnswerFreshUnlessBlind)
<1>1. SUFFICES ASSUME OneAtATime PROVE Spec => []AnswerFreshUnlessBlind
  OBVIOUS
<1>2. AnswerInv /\ [Next]_vars => AnswerInv'
  BY <1>1, AnswerStep
<1>3. AnswerInv => AnswerFreshUnlessBlind
  BY DEF AnswerInv, Answers, Passed, AnswerFreshUnlessBlind
<1> QED
  BY <1>2, <1>3, AnswerInit, PTL DEF Spec
=============================================================================
