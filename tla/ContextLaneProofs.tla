-------------------------- MODULE ContextLaneProofs --------------------------
(***************************************************************************)
(* A query over the published map answers from one publication, and so     *)
(* implements the atomic query of AtomicContext: for every number of       *)
(* readers, retries, edits and foreign publications.                       *)
(***************************************************************************)
EXTENDS ContextLane, TLAPS

---------------------------------------------------------------------------
(* Types *)

LEMMA DeclarationsType ==
    ASSUME NEW v \in Versions PROVE Declarations(v) \in Versions
BY NoneAssumption, SMTT(30) DEF Declarations, Versions

\* A store changes by a publication or not at all.
StoreStep == UNCHANGED store \/ \E v \in Versions : Publish(v)

LEMMA StoreTypeStep ==
    ASSUME StoreTypeOK, StoreStep
    PROVE  gen' \in Nat /\ gen' >= gen /\ row' \in Versions /\ log' \in Seq(Versions)
BY DEF StoreTypeOK, StoreStep, Publish, store

\* The end of a session and the end of an attempt keep the types.
LEMMA FinishedTypes ==
    ASSUME NEW r \in Readers, ScopeTypeOK, ReadTypeOK, Finished(r)
    PROVE  /\ sgen' \in [Readers -> Nat \cup {None}]
           /\ edges' \in [Readers -> Versions \cup {None}]
           /\ meta' \in [Readers -> Nat] /\ decls' \in [Readers -> Versions]
           /\ deps' \in [Readers -> Versions]
BY DEF Finished, ScopeTypeOK, ReadTypeOK, Versions

LEMMA RaiseTypes ==
    ASSUME NEW r \in Readers, ScopeTypeOK, ReadTypeOK, HistoryTypeOK, Raise(r)
    PROVE  ScopeTypeOK' /\ ReadTypeOK' /\ HistoryTypeOK'
<1>1. Finished(r) BY DEF Raise
<1>2. pc' \in [Readers -> PCs] BY DEF Raise, Goto, ScopeTypeOK, PCs
<1>3. tries' \in [Readers -> 0..MaxRetries]
    BY BoundsAssumption DEF Raise, ReadTypeOK
<1>4. own' \in [Readers -> Nat] /\ expected' \in [Readers -> Nat \cup {None}]
      /\ refreshed' \in [Readers -> BOOLEAN]
    BY DEF Raise, HistoryTypeOK, ScopeTypeOK
<1> QED
    BY <1>1, <1>2, <1>3, <1>4, FinishedTypes
    DEF Raise, ScopeTypeOK, ReadTypeOK, HistoryTypeOK

LEMMA PublishDisk ==
    ASSUME StoreTypeOK, Publish(disk) PROVE StoreStep
BY DEF StoreTypeOK, StoreStep, Versions

\* Every step of the system leaves the store or publishes.
LEMMA WhoPublishes ==
    ASSUME TypeOK, [Next]_vars PROVE StoreStep
<1> USE DEF StoreStep
<1>1. CASE World
    <2>1. CASE ForeignSync
        <3>1. PICK v \in 0..disk : Publish(v) BY <2>1 DEF ForeignSync
        <3>2. v \in Versions BY DEF TypeOK, StoreTypeOK, Versions
        <3> QED BY <3>1, <3>2
    <2>2. CASE ForeignClean
        BY <2>2 DEF ForeignClean, Versions
    <2> QED BY <1>1, <2>1, <2>2 DEF World, Edit, LoseObject
<1>2. ASSUME NEW r \in Readers, Start(r) \/ Step(r) \/ Crash(r) PROVE StoreStep
    <2>1. CASE Begin(r)
        BY <2>1 DEF Begin, TypeOK, StoreTypeOK, Versions
    <2>2. CASE Reconcile(r)
        BY <2>2 DEF Reconcile, TypeOK, StoreTypeOK, Versions
    <2> QED
        BY <1>2, <2>1, <2>2 DEF Start, Step, Crash, CheckCurrent, ReadOutline,
            ReadSymbols, Find, ReadHits, Found, ReadMeta, Lookup, ReadItems,
            PutObject, PutRow, Exit
<1> QED BY <1>1, <1>2 DEF Next, vars

LEMMA DiskStep ==
    ASSUME TypeOK, [Next]_vars PROVE disk' \in Nat /\ disk' >= disk
<1>1. CASE World
    BY <1>1 DEF World, Edit, ForeignSync, ForeignClean, LoseObject, TypeOK, StoreTypeOK
<1>2. ASSUME NEW r \in Readers, Start(r) \/ Step(r) \/ Crash(r) PROVE disk' = disk
    BY <1>2 DEF Start, Step, Crash, Begin, Reconcile, CheckCurrent, ReadOutline,
            ReadSymbols, Find, ReadHits, Found, ReadMeta, Lookup, ReadItems,
            PutObject, PutRow, Exit
<1> QED BY <1>1, <1>2 DEF Next, vars, TypeOK, StoreTypeOK

\* Every action leaves the variables of every component well typed.
LEMMA TypeStep == TypeOK /\ [Next]_vars => TypeOK'
<1> SUFFICES ASSUME TypeOK, [Next]_vars PROVE TypeOK'
    OBVIOUS
<1>s. /\ disk' \in Nat /\ gen' \in Nat /\ row' \in Versions /\ log' \in Seq(Versions)
    BY WhoPublishes, StoreTypeStep, DiskStep DEF TypeOK
<1>u. row \in Versions /\ Declarations(row) \in Versions /\ gen \in Nat /\ disk \in Nat
    BY DeclarationsType DEF TypeOK, StoreTypeOK
<1>a. UNCHANGED cache => index' \subseteq Nat \X Versions \X Versions /\ cas' \subseteq Versions
    BY DEF cache, TypeOK, StoreTypeOK
<1>1. CASE World
    <2>1. ScopeTypeOK' /\ ReadTypeOK' /\ HistoryTypeOK'
        BY <1>1 DEF World, Edit, ForeignSync, ForeignClean, LoseObject, TypeOK,
            ScopeTypeOK, ReadTypeOK, HistoryTypeOK, scope, read, history
    <2>2. index' \subseteq Nat \X Versions \X Versions /\ cas' \subseteq Versions
        BY <1>1, <1>a DEF World, Edit, ForeignSync, ForeignClean, LoseObject, TypeOK,
            StoreTypeOK, cache
    <2> QED BY <1>s, <2>1, <2>2 DEF TypeOK, StoreTypeOK
<1>2. ASSUME NEW r \in Readers, Start(r) \/ Step(r) \/ Crash(r) PROVE TypeOK'
    <2> USE DEF Goto, PCs
    <2>1. CASE Start(r)
        <3>1. ScopeTypeOK' /\ ReadTypeOK' /\ HistoryTypeOK'
            BY <2>1, <1>u, BoundsAssumption DEF Start, TypeOK, ScopeTypeOK, ReadTypeOK,
               HistoryTypeOK, read
        <3> QED BY <2>1, <3>1, <1>s, <1>a DEF Start, TypeOK, StoreTypeOK
    <2>2. CASE Begin(r)
        <3>1. Opened(r, gen') => ScopeTypeOK' /\ ReadTypeOK' /\ HistoryTypeOK'
            BY <1>s DEF Opened, TypeOK, ScopeTypeOK, ReadTypeOK, HistoryTypeOK, read
        <3> QED BY <2>2, <3>1, <1>s, <1>a, RaiseTypes DEF Begin, TypeOK, StoreTypeOK
    <2>3. CASE CheckCurrent(r)
        <3>1. ScopeTypeOK' /\ ReadTypeOK' /\ HistoryTypeOK'
            BY <2>3, FinishedTypes DEF CheckCurrent, TypeOK, ScopeTypeOK, ReadTypeOK,
               HistoryTypeOK, read, history
        <3> QED BY <2>3, <3>1, <1>s, <1>a DEF CheckCurrent, TypeOK, StoreTypeOK
    <2>4. CASE Reconcile(r)
        <3>1. CASE Raise(r)
            BY <2>4, <3>1, <1>s, <1>a, RaiseTypes DEF Reconcile, TypeOK, StoreTypeOK
        <3>2. CASE ~Raise(r)
            <4>1. HistoryTypeOK'
                BY <2>4, <3>2 DEF Reconcile, TypeOK, HistoryTypeOK
            <4>2. ScopeTypeOK' /\ ReadTypeOK'
                BY <2>4, <3>2, <1>s DEF Reconcile, TypeOK, ScopeTypeOK, ReadTypeOK, read
            <4> QED BY <2>4, <4>1, <4>2, <1>s, <1>a DEF Reconcile, TypeOK, StoreTypeOK
        <3> QED BY <3>1, <3>2
    <2>5. CASE ReadOutline(r)
        <3>1. ScopeTypeOK' /\ ReadTypeOK' /\ HistoryTypeOK'
            BY <2>5, <1>u, FinishedTypes DEF ReadOutline, TypeOK, ScopeTypeOK, ReadTypeOK,
               HistoryTypeOK, history
        <3> QED BY <2>5, <3>1, <1>s, <1>a DEF ReadOutline, TypeOK, StoreTypeOK
    <2>6. CASE ReadSymbols(r)
        <3>1. ScopeTypeOK' /\ ReadTypeOK' /\ HistoryTypeOK'
            BY <2>6, <1>u DEF ReadSymbols, TypeOK, ScopeTypeOK, ReadTypeOK,
               HistoryTypeOK, history, scope
        <3> QED BY <2>6, <3>1, <1>s, <1>a DEF ReadSymbols, TypeOK, StoreTypeOK
    <2>7. CASE Find(r)
        <3>1. CASE ~Raise(r)
            <4>1. ScopeTypeOK' /\ ReadTypeOK' /\ HistoryTypeOK'
                BY <2>7, <3>1 DEF Find, TypeOK, ScopeTypeOK, ReadTypeOK, HistoryTypeOK,
                   scope, read, history
            <4> QED BY <2>7, <4>1, <1>s, <1>a DEF Find, TypeOK, StoreTypeOK
        <3> QED BY <2>7, <3>1, <1>s, <1>a, RaiseTypes DEF Find, TypeOK, StoreTypeOK
    <2>8. CASE ReadHits(r)
        <3>1. ScopeTypeOK' /\ ReadTypeOK' /\ HistoryTypeOK'
            BY <2>8, <1>u DEF ReadHits, TypeOK, ScopeTypeOK, ReadTypeOK, HistoryTypeOK, history
        <3> QED BY <2>8, <3>1, <1>s, <1>a DEF ReadHits, TypeOK, StoreTypeOK
    <2>9. CASE Found(r)
        <3>1. CASE ~Raise(r)
            <4>1. ScopeTypeOK' /\ ReadTypeOK' /\ HistoryTypeOK'
                BY <2>9, <3>1 DEF Found, TypeOK, ScopeTypeOK, ReadTypeOK, HistoryTypeOK,
                   scope, read, history
            <4> QED BY <2>9, <4>1, <1>s, <1>a DEF Found, TypeOK, StoreTypeOK
        <3> QED BY <2>9, <3>1, <1>s, <1>a, RaiseTypes DEF Found, TypeOK, StoreTypeOK
    <2>10. CASE ReadMeta(r)
        <3>1. ScopeTypeOK' /\ ReadTypeOK' /\ HistoryTypeOK'
            BY <2>10, <1>u DEF ReadMeta, TypeOK, ScopeTypeOK, ReadTypeOK, HistoryTypeOK,
               history, scope
        <3> QED BY <2>10, <3>1, <1>s, <1>a DEF ReadMeta, TypeOK, StoreTypeOK
    <2>11. CASE Lookup(r)
        <3>1. index' \subseteq Nat \X Versions \X Versions /\ cas' \subseteq Versions
            BY <2>11 DEF Lookup, TypeOK, StoreTypeOK
        <3>2. deps' \in [Readers -> Versions]
            BY <2>11 DEF Lookup, Entries, TypeOK, StoreTypeOK, ReadTypeOK
        <3>3. ScopeTypeOK' /\ ReadTypeOK' /\ HistoryTypeOK'
            BY <2>11, <3>2 DEF Lookup, TypeOK, ScopeTypeOK, ReadTypeOK, HistoryTypeOK,
               history, scope
        <3> QED BY <3>1, <3>3, <1>s DEF TypeOK, StoreTypeOK
    <2>12. CASE ReadItems(r)
        <3>1. ScopeTypeOK' /\ ReadTypeOK' /\ HistoryTypeOK'
            BY <2>12, <1>u DEF ReadItems, TypeOK, ScopeTypeOK, ReadTypeOK, HistoryTypeOK,
               history, scope
        <3> QED BY <2>12, <3>1, <1>s, <1>a DEF ReadItems, TypeOK, StoreTypeOK
    <2>13. CASE PutObject(r)
        <3>1. ScopeTypeOK' /\ ReadTypeOK' /\ HistoryTypeOK'
            BY <2>13 DEF PutObject, TypeOK, ScopeTypeOK, ReadTypeOK, HistoryTypeOK,
               history, scope, read
        <3>2. index' \subseteq Nat \X Versions \X Versions /\ cas' \subseteq Versions
            BY <2>13 DEF PutObject, TypeOK, StoreTypeOK, ReadTypeOK
        <3> QED BY <3>1, <3>2, <1>s DEF TypeOK, StoreTypeOK
    <2>14. CASE PutRow(r)
        <3>1. ScopeTypeOK' /\ ReadTypeOK' /\ HistoryTypeOK'
            BY <2>14 DEF PutRow, TypeOK, ScopeTypeOK, ReadTypeOK, HistoryTypeOK,
               history, scope, read
        <3>2. index' \subseteq Nat \X Versions \X Versions /\ cas' \subseteq Versions
            BY <2>14 DEF PutRow, TypeOK, StoreTypeOK, ReadTypeOK
        <3> QED BY <3>1, <3>2, <1>s DEF TypeOK, StoreTypeOK
    <2>15. CASE Exit(r)
        <3>1. CASE Raise(r)
            BY <2>15, <3>1, <1>s, <1>a, RaiseTypes DEF Exit, TypeOK, StoreTypeOK
        <3>2. CASE ~Raise(r)
            <4>1. answer' \in [Readers -> Answers \cup {NoAnswer}]
                BY <2>15, <3>2, <1>u DEF Exit, TypeOK, HistoryTypeOK, Answers, ScopeTypeOK, ReadTypeOK
            <4>2. ScopeTypeOK' /\ ReadTypeOK' /\ HistoryTypeOK'
                BY <2>15, <3>2, <4>1, FinishedTypes DEF Exit, TypeOK, ScopeTypeOK, ReadTypeOK,
                   HistoryTypeOK, history
            <4> QED BY <2>15, <4>2, <1>s, <1>a DEF Exit, TypeOK, StoreTypeOK
        <3> QED BY <3>1, <3>2
    <2>16. CASE Crash(r)
        <3>1. ScopeTypeOK' /\ ReadTypeOK' /\ HistoryTypeOK'
            BY <2>16, FinishedTypes DEF Crash, TypeOK, ScopeTypeOK, ReadTypeOK,
               HistoryTypeOK, history
        <3> QED BY <2>16, <3>1, <1>s, <1>a DEF Crash, TypeOK, StoreTypeOK
    <2> QED
        BY <1>2, <2>1, <2>2, <2>3, <2>4, <2>5, <2>6, <2>7, <2>8, <2>9, <2>10, <2>11,
           <2>12, <2>13, <2>14, <2>15, <2>16 DEF Step
<1>3. CASE UNCHANGED vars
    BY <1>3 DEF vars, store, cache, scope, read, history, TypeOK, StoreTypeOK,
        ScopeTypeOK, ReadTypeOK, HistoryTypeOK
<1> QED BY <1>1, <1>2, <1>3 DEF Next

\* Every variable of the lane keeps its type.
THEOREM ContextTypes == Spec => []TypeOK
<1>1. Init => TypeOK
    <2> SUFFICES ASSUME Init PROVE TypeOK
        OBVIOUS
    <2>1. StoreTypeOK BY DEF Init, StoreTypeOK, Versions
    <2>2. ScopeTypeOK /\ ReadTypeOK /\ HistoryTypeOK
        BY BoundsAssumption DEF Init, ScopeTypeOK, ReadTypeOK, HistoryTypeOK, Versions, PCs
    <2> QED BY <2>1, <2>2 DEF TypeOK
<1> QED BY <1>1, TypeStep, PTL DEF Spec

---------------------------------------------------------------------------
(* The inductive invariant *)

\* What a publication does to the history: it adds to it.
LEMMA LogStep ==
    ASSUME TypeOK, LogInv, StoreStep
    PROVE  /\ LogInv'
           /\ \A g \in 1..gen : log'[g] = log[g]
           /\ gen' = gen => row' = row /\ log' = log
<1>1. CASE UNCHANGED store
    BY <1>1 DEF store, LogInv
<1>2. ASSUME NEW v \in Versions, Publish(v)
      PROVE  gen' = gen + 1 /\ LogInv' /\ \A g \in 1..gen : log'[g] = log[g]
    BY <1>2 DEF Publish, LogInv, TypeOK, StoreTypeOK
<1> QED BY <1>1, <1>2 DEF StoreStep, TypeOK, StoreTypeOK

\* Relations that may be shown stay so: a publication changes the generation.
LEMMA SharedStep ==
    ASSUME TypeOK, LogInv, StoreStep, NEW g \in Nat, g <= gen, NEW d, NEW v, Shared(g, d, v)
    PROVE  Shared(g, d, v)'
<1>1. gen' \in Nat /\ gen' >= gen /\ gen \in Nat
    BY StoreTypeStep DEF TypeOK, StoreTypeOK
<1>2. CASE gen' = gen
    BY <1>2, LogStep DEF Shared
<1>3. CASE gen' # gen
    BY <1>1, <1>3 DEF Shared
<1> QED BY <1>2, <1>3

LEMMA EntryStep ==
    ASSUME TypeOK, LogInv, StoreStep, NEW e \in index, EntryInv(e) PROVE EntryInv(e)'
<1>1. e[1] \in Nat /\ gen \in Nat
    BY DEF TypeOK, StoreTypeOK
<1>2. gen' \in Nat /\ gen' >= gen
    BY StoreTypeStep DEF TypeOK
<1> QED BY <1>1, <1>2, SharedStep DEF EntryInv

\* What the invariant says of a reader.
LocalSame(r) ==
    /\ pc'[r] = pc[r] /\ op'[r] = op[r] /\ sgen'[r] = sgen[r] /\ edges'[r] = edges[r]
    /\ expected'[r] = expected[r] /\ meta'[r] = meta[r] /\ decls'[r] = decls[r]
    /\ deps'[r] = deps[r] /\ answer'[r] = answer[r] /\ started'[r] = started[r]
    /\ began'[r] = began[r] /\ own'[r] = own[r]

\* A reader that another actor's step leaves alone keeps its invariant.
LEMMA ReaderFrame ==
    ASSUME TypeOK, LogInv, StoreStep, disk' \in Nat, disk' >= disk,
           NEW r \in Readers, LocalSame(r), ReaderInv(r)
    PROVE  ReaderInv(r)'
<1>g. gen' \in Nat /\ gen' >= gen /\ gen \in Nat /\ disk \in Nat
    BY StoreTypeStep DEF TypeOK, StoreTypeOK
<1>m. meta[r] \in Nat /\ started[r] \in Nat
    BY DEF TypeOK, ReadTypeOK, HistoryTypeOK
<1>1. RequestInv(r)'
    BY <1>g, <1>m DEF ReaderInv, RequestInv, LocalSame
<1>2. BoundInv(r)'
    BY <1>g DEF ReaderInv, BoundInv, LocalSame
<1>3. OutlineInv(r)'
    <2>1. CASE gen' = gen
        BY <2>1, LogStep DEF ReaderInv, OutlineInv, LocalSame, Unmoved
    <2>2. CASE gen' # gen
        BY <2>2, <1>g DEF ReaderInv, OutlineInv, BoundInv, LocalSame, Unmoved, Inside, Outlining
    <2> QED BY <2>1, <2>2
<1>4. PackInv(r)'
    <2>1. pc[r] \in Packing \cup {"exit"} => sgen[r] \in 1..gen /\ log'[sgen[r]] = log[sgen[r]]
        BY LogStep DEF ReaderInv, BoundInv, Inside
    <2>3. Unmoved(r)' /\ pc[r] = "found" => Unmoved(r)
        BY <1>g, <2>1 DEF Unmoved, LocalSame, Packing
    <2>4. op[r] = "context" /\ (pc[r] \in Keying \/ (pc[r] = "found" /\ Unmoved(r)'))
              => decls'[r] = Declarations(log'[sgen'[r]]) /\ edges'[r] \in {None, log'[sgen'[r]]}
        BY <2>1, <2>3 DEF ReaderInv, PackInv, LocalSame, Packing, Keying
    <2>5. op[r] = "context" /\ pc[r] \in Keying \ {"meta"} => sgen'[r] <= meta'[r] /\ meta'[r] <= gen'
        BY <2>1, <1>g, <1>m DEF ReaderInv, PackInv, LocalSame, Packing, Keying
    <2>6. op[r] = "context" /\ pc[r] \in {"put", "row", "exit"} => Shared(meta[r], decls[r], deps[r])'
        <3>1. CASE gen' = gen
            BY <3>1, LogStep DEF ReaderInv, PackInv, Shared, LocalSame
        <3>2. CASE gen' # gen
            BY <3>2, <1>g, <1>m DEF ReaderInv, PackInv, Shared, LocalSame, Keying
        <3> QED BY <3>1, <3>2
    <2> QED BY <2>4, <2>5, <2>6 DEF PackInv, LocalSame, Keying
<1> QED BY <1>1, <1>2, <1>3, <1>4 DEF ReaderInv

\* A reader's step leaves the other readers alone.
LEMMA OthersSame ==
    ASSUME TypeOK, NEW r \in Readers, Start(r) \/ Step(r) \/ Crash(r),
           NEW q \in Readers, q # r
    PROVE  LocalSame(q)
<1> USE DEF LocalSame, TypeOK, ScopeTypeOK, ReadTypeOK, HistoryTypeOK, Goto
<1>f. Finished(r) => /\ sgen'[q] = sgen[q] /\ edges'[q] = edges[q]
                     /\ meta'[q] = meta[q] /\ decls'[q] = decls[q] /\ deps'[q] = deps[q]
    BY DEF Finished
<1>r. Raise(r) => LocalSame(q)
    BY <1>f DEF Raise
<1>1. CASE Start(r) BY <1>1 DEF Start, read
<1>2. CASE Begin(r)
    <2>1. Opened(r, gen') => LocalSame(q) BY DEF Opened, read
    <2> QED BY <1>2, <1>r, <2>1 DEF Begin
<1>3. CASE CheckCurrent(r) BY <1>3, <1>f DEF CheckCurrent, read, history
<1>4. CASE Reconcile(r)
    <2>1. CASE Raise(r) BY <2>1, <1>r
    <2>2. CASE ~Raise(r) BY <1>4, <2>2 DEF Reconcile, read
    <2> QED BY <2>1, <2>2
<1>5. CASE ReadOutline(r) BY <1>5, <1>f DEF ReadOutline, history
<1>6. CASE ReadSymbols(r) BY <1>6 DEF ReadSymbols, scope, history
<1>7. CASE Find(r) BY <1>7, <1>r DEF Find, scope, read, history
<1>8. CASE ReadHits(r) BY <1>8 DEF ReadHits, history
<1>9. CASE Found(r) BY <1>9, <1>r DEF Found, scope, read, history
<1>10. CASE ReadMeta(r) BY <1>10 DEF ReadMeta, scope, history
<1>11. CASE Lookup(r) BY <1>11 DEF Lookup, scope, history
<1>12. CASE ReadItems(r) BY <1>12 DEF ReadItems, scope, history
<1>13. CASE PutObject(r) BY <1>13 DEF PutObject, scope, read, history
<1>14. CASE PutRow(r) BY <1>14 DEF PutRow, scope, read, history
<1>15. CASE Exit(r)
    <2>1. CASE Raise(r) BY <2>1, <1>r
    <2>2. CASE ~Raise(r) BY <1>15, <2>2, <1>f DEF Exit, history
    <2> QED BY <2>1, <2>2
<1>16. CASE Crash(r) BY <1>16, <1>f DEF Crash, history
<1> QED
    BY <1>1, <1>2, <1>3, <1>4, <1>5, <1>6, <1>7, <1>8, <1>9, <1>10, <1>11, <1>12,
       <1>13, <1>14, <1>15, <1>16 DEF Step

\* A reader outside of a session: only its request and what observe expects.
LEMMA OutsideReader ==
    ASSUME NEW r \in Readers, gen' \in Nat,
           pc'[r] \in {"idle", "begin", "reconcile"}, sgen'[r] = None,
           pc'[r] # "idle" => answer'[r] = NoAnswer, started'[r] <= disk',
           expected'[r] # None => expected'[r] = began'[r] + own'[r],
           expected'[r] = None => own'[r] = 0
    PROVE  ReaderInv(r)'
<1>1. RequestInv(r)' BY DEF RequestInv, Outlining, Packing
<1>2. BoundInv(r)' BY DEF BoundInv, Inside, Outlining, Packing
<1>3. OutlineInv(r)' BY NoneAssumption DEF OutlineInv, Unmoved
<1>4. PackInv(r)' BY DEF PackInv, Keying
<1> QED BY <1>1, <1>2, <1>3, <1>4 DEF ReaderInv

LEMMA RaisedReader ==
    ASSUME TypeOK, NEW r \in Readers, gen' \in Nat, disk' \in Nat, disk' >= disk,
           ReaderInv(r), pc[r] # "idle", Raise(r)
    PROVE  ReaderInv(r)'
<1>1. sgen'[r] = None BY DEF Raise, Finished, TypeOK, ScopeTypeOK
<1>2. pc'[r] \in {"idle", "begin"}
    BY DEF Raise, Goto, TypeOK, ScopeTypeOK
<1>3. answer'[r] = NoAnswer BY DEF ReaderInv, RequestInv, Raise
<1>4. started'[r] <= disk'
    BY DEF ReaderInv, RequestInv, Raise, TypeOK, StoreTypeOK, HistoryTypeOK
<1>5. expected'[r] = None /\ own'[r] = 0
    BY DEF Raise, TypeOK, ScopeTypeOK, HistoryTypeOK
<1> QED BY <1>1, <1>2, <1>3, <1>4, <1>5, OutsideReader

\* A reader inside a session, seen apart from the end of it.
LEMMA OwnStep ==
    ASSUME TypeOK, TypeOK', LogInv, StoreStep, \A e \in index : EntryInv(e),
           disk' \in Nat, disk' >= disk, NEW r \in Readers, ReaderInv(r),
           Start(r) \/ Step(r) \/ Crash(r)
    PROVE  ReaderInv(r)'
<1>g. gen' \in Nat /\ gen' >= gen /\ gen \in Nat /\ disk \in Nat /\ started[r] \in Nat
    BY StoreTypeStep DEF TypeOK, StoreTypeOK, HistoryTypeOK
<1>l. gen = Len(log) /\ gen > 0 /\ row = log[gen]
    BY DEF LogInv
<1>f. Finished(r) => sgen'[r] = None
    BY DEF Finished, TypeOK, ScopeTypeOK
<1>p. ASSUME NEW label, Goto(r, label) PROVE pc'[r] = label
    BY <1>p DEF Goto, TypeOK, ScopeTypeOK
<1>i. RequestInv(r) /\ BoundInv(r) /\ OutlineInv(r) /\ PackInv(r)
    BY DEF ReaderInv
<1>s. UNCHANGED store => gen' = gen /\ row' = row /\ log' = log
    BY DEF store
<1>1. CASE Start(r)
    <2>1. pc'[r] = "begin" /\ sgen'[r] = None /\ answer'[r] = NoAnswer
        BY <1>1, <1>p, <1>i DEF Start, At, BoundInv, Inside, Outlining, Packing, TypeOK, HistoryTypeOK
    <2>2. started'[r] <= disk' /\ expected'[r] = None /\ own'[r] = 0
        BY <1>1, <1>g DEF Start, TypeOK, ScopeTypeOK, HistoryTypeOK
    <2> QED BY <2>1, <2>2, <1>g, OutsideReader
<1>2. CASE Begin(r)
    <2>1. CASE Raise(r) BY <2>1, <1>2, <1>g, RaisedReader DEF Begin, At
    <2>2. CASE ~Raise(r)
        <3>1. Opened(r, gen') /\ expected[r] \in {None, gen'} BY <1>2, <2>2 DEF Begin
        <3>2. pc'[r] \in {"check", "find"} /\ op'[r] = op[r]
              /\ (op[r] = "outline" => pc'[r] = "check") /\ (op[r] = "context" => pc'[r] = "find")
            BY <3>1, <1>p DEF Opened, TypeOK, ScopeTypeOK
        <3>3. sgen'[r] = gen' /\ expected'[r] = gen'
            BY <3>1 DEF Opened, TypeOK, ScopeTypeOK
        <3>4. began'[r] = (IF expected[r] = None THEN gen' ELSE began[r]) /\ own'[r] = own[r]
              /\ started'[r] = started[r] /\ answer'[r] = answer[r]
            BY <3>1 DEF Opened, TypeOK, HistoryTypeOK
        <3>5. gen' = began'[r] + own'[r]
            BY <3>1, <3>4, <1>i, <1>g DEF BoundInv
        <3>6. op[r] \in {"outline", "context"} BY DEF TypeOK, ScopeTypeOK
        <3>7. RequestInv(r)'
            BY <1>2, <3>2, <3>4, <3>6, <1>i, <1>g DEF RequestInv, Begin, At, Outlining, Packing
        <3>8. BoundInv(r)'
            BY <3>2, <3>3, <3>5, <1>g, <1>l, NoneAssumption DEF BoundInv, Inside, Outlining, Packing
        <3>9. OutlineInv(r)' BY <3>2 DEF OutlineInv
        <3>10. PackInv(r)' BY <3>2 DEF PackInv, Keying
        <3> QED BY <3>7, <3>8, <3>9, <3>10 DEF ReaderInv
    <2> QED BY <2>1, <2>2
<1>3. CASE CheckCurrent(r)
    <2>0. op'[r] = op[r] /\ expected'[r] = expected[r] /\ answer'[r] = answer[r]
          /\ UNCHANGED <<disk, store>> /\ started'[r] = started[r] /\ began'[r] = began[r]
          /\ own'[r] = own[r] /\ At(r, "check")
        BY <1>3 DEF CheckCurrent, history
    <2>1. CASE row # disk
        <3>1. pc'[r] = "reconcile" /\ sgen'[r] = None
            BY <1>3, <2>1, <1>p, <1>f DEF CheckCurrent
        <3> QED BY <2>0, <3>1, <1>i, <1>g, OutsideReader DEF RequestInv, BoundInv, At
    <2>2. CASE row = disk
        <3>1. pc'[r] = "outline" /\ sgen'[r] = sgen[r]
            BY <1>3, <2>2, <1>p DEF CheckCurrent
        <3>2. RequestInv(r)'
            BY <2>0, <3>1, <1>i DEF RequestInv, At, Outlining, Packing
        <3>3. BoundInv(r)'
            BY <2>0, <3>1, <1>i, <1>s DEF BoundInv, At, Inside, Outlining, Packing
        <3>4. OutlineInv(r)'
            BY <2>0, <2>2, <3>1, <1>i, <1>s, <1>g DEF OutlineInv, RequestInv
        <3>5. PackInv(r)' BY <3>1 DEF PackInv, Keying
        <3> QED BY <3>2, <3>3, <3>4, <3>5 DEF ReaderInv
    <2> QED BY <2>1, <2>2
<1>4. CASE Reconcile(r)
    <2>1. CASE Raise(r) BY <2>1, <1>4, <1>g, RaisedReader DEF Reconcile, At
    <2>2. CASE ~Raise(r)
        <3>1. pc'[r] = "begin" /\ sgen'[r] = None
            BY <1>4, <2>2, <1>p, <1>i DEF Reconcile, BoundInv, At, Inside, Outlining, Packing
        <3>2. gen = expected[r] /\ expected'[r] = gen'
              /\ own'[r] = (IF row = disk THEN own[r] ELSE own[r] + 1)
              /\ gen' = (IF row = disk THEN gen ELSE gen + 1)
              /\ answer'[r] = answer[r] /\ started'[r] = started[r] /\ began'[r] = began[r]
            BY <1>4, <2>2, <1>s DEF Reconcile, Publish, TypeOK, ScopeTypeOK, HistoryTypeOK
        <3>3. expected'[r] = began'[r] + own'[r] /\ expected'[r] # None
            BY <3>2, <1>i, <1>g, NoneAssumption DEF BoundInv, TypeOK, HistoryTypeOK
        <3> QED BY <1>4, <3>1, <3>2, <3>3, <1>i, <1>g, OutsideReader DEF RequestInv, Reconcile, At
    <2> QED BY <2>1, <2>2
<1>16. CASE Crash(r)
    <2>1. pc'[r] = "idle" /\ sgen'[r] = None
        BY <1>16, <1>p, <1>f DEF Crash
    <2>2. started'[r] = started[r] /\ expected'[r] = expected[r] /\ began'[r] = began[r]
          /\ own'[r] = own[r]
        BY <1>16 DEF Crash, history
    <2> QED BY <2>1, <2>2, <1>i, <1>g, OutsideReader DEF RequestInv, BoundInv
<1>t. ASSUME UNCHANGED <<disk, store>>, op'[r] = op[r], sgen'[r] = sgen[r],
             expected'[r] = expected[r], answer'[r] = answer[r], started'[r] = started[r],
             began'[r] = began[r], own'[r] = own[r], pc[r] \in Inside,
             \/ pc[r] \in Outlining /\ pc'[r] \in Outlining \cup {"exit"}
             \/ pc[r] \in Packing /\ pc'[r] \in Packing \cup {"exit"}
      PROVE  /\ RequestInv(r)' /\ BoundInv(r)'
             /\ Unmoved(r)' <=> Unmoved(r)
             /\ sgen[r] \in 1..gen
    <2>1. RequestInv(r)' BY <1>t, <1>i DEF RequestInv, Outlining, Packing
    <2>2. BoundInv(r)' BY <1>t, <1>i, <1>s DEF BoundInv, Inside
    <2> QED BY <1>t, <2>1, <2>2, <1>i, <1>s DEF Unmoved, BoundInv
<1>5. CASE ReadOutline(r)
    <2>0. op'[r] = op[r] /\ expected'[r] = expected[r] /\ answer'[r] = answer[r]
          /\ UNCHANGED <<disk, store>> /\ started'[r] = started[r] /\ began'[r] = began[r]
          /\ own'[r] = own[r] /\ pc[r] = "outline" /\ op[r] = "outline"
        BY <1>5, <1>i DEF ReadOutline, history, At, RequestInv, Outlining
    <2>1. CASE row = Cleared
        <3>1. pc'[r] = "idle" /\ sgen'[r] = None
            BY <1>5, <2>1, <1>p, <1>f DEF ReadOutline
        <3> QED BY <2>0, <3>1, <1>i, <1>g, OutsideReader DEF RequestInv, BoundInv
    <2>2. CASE row # Cleared
        <3>1. pc'[r] = "symbols" /\ sgen'[r] = sgen[r] /\ decls'[r] = Declarations(row)
            BY <1>5, <2>2, <1>p DEF ReadOutline, TypeOK, ReadTypeOK
        <3>2. RequestInv(r)' /\ BoundInv(r)' /\ (Unmoved(r)' <=> Unmoved(r))
            BY <2>0, <3>1, <1>t DEF Outlining, Inside
        <3>3. OutlineInv(r)' BY <2>0, <3>1, <3>2, <1>i, <1>s DEF OutlineInv
        <3>4. PackInv(r)' BY <2>0 DEF PackInv
        <3> QED BY <3>2, <3>3, <3>4 DEF ReaderInv
    <2> QED BY <2>1, <2>2
<1>6. CASE ReadSymbols(r)
    <2>0. op'[r] = op[r] /\ expected'[r] = expected[r] /\ answer'[r] = answer[r]
          /\ UNCHANGED <<disk, store>> /\ started'[r] = started[r] /\ began'[r] = began[r]
          /\ own'[r] = own[r] /\ pc[r] = "symbols" /\ op[r] = "outline" /\ sgen'[r] = sgen[r]
          /\ decls'[r] = decls[r]
        BY <1>6, <1>i DEF ReadSymbols, scope, history, At, RequestInv, Outlining
    <2>1. pc'[r] = "exit" /\ deps'[r] = row
        BY <1>6, <1>p DEF ReadSymbols, TypeOK, ReadTypeOK
    <2>2. RequestInv(r)' /\ BoundInv(r)' /\ (Unmoved(r)' <=> Unmoved(r))
        BY <2>0, <2>1, <1>t DEF Outlining, Inside
    <2>3. OutlineInv(r)' BY <2>0, <2>1, <2>2, <1>i, <1>s DEF OutlineInv
    <2>4. PackInv(r)' BY <2>0 DEF PackInv
    <2> QED BY <2>2, <2>3, <2>4 DEF ReaderInv
<1>7. CASE Find(r)
    <2>1. CASE Raise(r) BY <2>1, <1>7, <1>g, RaisedReader DEF Find, At
    <2>2. CASE ~Raise(r)
        <3>0. UNCHANGED <<disk, store, op, scope, read, answer, history>>
              /\ pc[r] = "find" /\ op[r] = "context" /\ pc'[r] = "hits"
            BY <1>7, <2>2, <1>i, <1>p DEF Find, At, RequestInv, Packing
        <3>1. RequestInv(r)' /\ BoundInv(r)'
            BY <3>0, <1>t DEF Packing, Inside, scope, history
        <3>2. OutlineInv(r)' BY <3>0 DEF OutlineInv
        <3>3. PackInv(r)' BY <3>0 DEF PackInv, Keying
        <3> QED BY <3>1, <3>2, <3>3 DEF ReaderInv
    <2> QED BY <2>1, <2>2
<1>8. CASE ReadHits(r)
    <2>0. op'[r] = op[r] /\ expected'[r] = expected[r] /\ answer'[r] = answer[r]
          /\ UNCHANGED <<disk, store>> /\ started'[r] = started[r] /\ began'[r] = began[r]
          /\ own'[r] = own[r] /\ pc[r] = "hits" /\ op[r] = "context" /\ sgen'[r] = sgen[r]
        BY <1>8, <1>i DEF ReadHits, history, At, RequestInv, Packing
    <2>1. pc'[r] = "found" /\ decls'[r] = Declarations(row) /\ edges'[r] \in {row, None}
        BY <1>8, <1>p DEF ReadHits, TypeOK, ReadTypeOK, ScopeTypeOK
    <2>2. RequestInv(r)' /\ BoundInv(r)' /\ (Unmoved(r)' <=> Unmoved(r))
        BY <2>0, <2>1, <1>t DEF Packing, Inside
    <2>3. OutlineInv(r)' BY <2>0 DEF OutlineInv
    <2>4. Unmoved(r) => row = log[sgen[r]] BY <1>l DEF Unmoved
    <2>5. PackInv(r)' BY <2>0, <2>1, <2>2, <2>4, <1>s DEF PackInv, Keying
    <2> QED BY <2>2, <2>3, <2>5 DEF ReaderInv
<1>9. CASE Found(r)
    <2>1. CASE Raise(r) BY <2>1, <1>9, <1>g, RaisedReader DEF Found, At
    <2>2. CASE ~Raise(r)
        <3>0. UNCHANGED <<disk, store, op, scope, read, answer, history>>
              /\ pc[r] = "found" /\ op[r] = "context" /\ pc'[r] = "meta" /\ Unmoved(r)
            BY <1>9, <2>2, <1>i, <1>p DEF Found, At, RequestInv, Packing
        <3>1. RequestInv(r)' /\ BoundInv(r)'
            BY <3>0, <1>t DEF Packing, Inside, scope, history
        <3>2. OutlineInv(r)' BY <3>0 DEF OutlineInv
        <3>3. PackInv(r)' BY <3>0, <1>i, <1>s DEF PackInv, Keying, scope, read
        <3> QED BY <3>1, <3>2, <3>3 DEF ReaderInv
    <2> QED BY <2>1, <2>2
<1>10. CASE ReadMeta(r)
    <2>0. UNCHANGED <<disk, store, op, scope, decls, answer, history>>
          /\ pc[r] = "meta" /\ op[r] = "context"
        BY <1>10, <1>i DEF ReadMeta, At, RequestInv, Packing
    <2>1. pc'[r] = "lookup" /\ meta'[r] = gen
        BY <1>10, <1>p DEF ReadMeta, TypeOK, ReadTypeOK
    <2>2. RequestInv(r)' /\ BoundInv(r)' /\ sgen[r] \in 1..gen
        BY <2>0, <2>1, <1>t DEF Packing, Inside, scope, history
    <2>3. OutlineInv(r)' BY <2>0 DEF OutlineInv
    <2>4. PackInv(r)' BY <2>0, <2>1, <2>2, <1>i, <1>s, <1>g DEF PackInv, Keying, scope
    <2> QED BY <2>2, <2>3, <2>4 DEF ReaderInv
<1>11. CASE Lookup(r)
    <2>0. UNCHANGED <<disk, store, op, scope, meta, decls, answer, history>>
          /\ pc[r] = "lookup" /\ op[r] = "context"
        BY <1>11, <1>i DEF Lookup, At, RequestInv, Packing
    <2>1. pc'[r] = "items" \/ (pc'[r] = "exit" /\ Shared(meta[r], decls[r], deps'[r]))
        <3>1. ASSUME NEW e \in Entries(r), Goto(r, "exit"), deps' = [deps EXCEPT ![r] = e[3]]
              PROVE  pc'[r] = "exit" /\ Shared(meta[r], decls[r], deps'[r])
            <4>1. e \in index /\ e[1] = meta[r] /\ e[2] = decls[r] BY <3>1 DEF Entries
            <4>2. Shared(meta[r], decls[r], e[3]) BY <4>1 DEF EntryInv
            <4>3. deps'[r] = e[3] BY <3>1 DEF TypeOK, ReadTypeOK
            <4> QED BY <3>1, <4>2, <4>3, <1>p
        <3> QED BY <1>11, <3>1, <1>p DEF Lookup
    <2>2. RequestInv(r)' /\ BoundInv(r)'
        BY <2>0, <2>1, <1>t DEF Packing, Inside, scope, history
    <2>3. OutlineInv(r)' BY <2>0 DEF OutlineInv
    <2>4. PackInv(r)' BY <2>0, <2>1, <1>i, <1>s DEF PackInv, Keying, scope, Shared
    <2> QED BY <2>2, <2>3, <2>4 DEF ReaderInv
<1>12. CASE ReadItems(r)
    <2>0. UNCHANGED <<disk, store, op, scope, meta, decls, answer, history>>
          /\ pc[r] = "items" /\ op[r] = "context"
        BY <1>12, <1>i DEF ReadItems, At, RequestInv, Packing
    <2>1. pc'[r] = "put" /\ deps'[r] = (IF edges[r] = None THEN row ELSE edges[r])
        BY <1>12, <1>p DEF ReadItems, TypeOK, ReadTypeOK
    <2>2. RequestInv(r)' /\ BoundInv(r)' /\ sgen[r] \in 1..gen
        BY <2>0, <2>1, <1>t DEF Packing, Inside, scope, history
    <2>3. OutlineInv(r)' BY <2>0 DEF OutlineInv
    <2>4. decls[r] = Declarations(log[sgen[r]]) /\ edges[r] \in {None, log[sgen[r]]}
        BY <2>0, <1>i DEF PackInv, Keying
    <2>5. gen \in 1..gen /\ log[gen] = row BY <1>l, <1>g
    <2>6. Shared(meta[r], decls[r], deps'[r])
        BY <2>1, <2>2, <2>4, <2>5 DEF Shared
    <2>7. PackInv(r)' BY <2>0, <2>1, <2>6, <1>i, <1>s DEF PackInv, Keying, scope, Shared
    <2> QED BY <2>2, <2>3, <2>7 DEF ReaderInv
<1>13. CASE PutObject(r) \/ PutRow(r)
    <2>0. UNCHANGED <<disk, store, op, scope, read, answer, history>>
          /\ pc[r] \in {"put", "row"} /\ op[r] = "context"
        BY <1>13, <1>i DEF PutObject, PutRow, At, RequestInv, Packing
    <2>1. pc'[r] \in {"row", "exit"}
        BY <1>13, <1>p DEF PutObject, PutRow
    <2>2. RequestInv(r)' /\ BoundInv(r)'
        BY <2>0, <2>1, <1>t DEF Packing, Inside, scope, history
    <2>3. OutlineInv(r)' BY <2>0 DEF OutlineInv
    <2>4. PackInv(r)' BY <2>0, <2>1, <1>i, <1>s DEF PackInv, Keying, scope, read, Shared
    <2> QED BY <2>2, <2>3, <2>4 DEF ReaderInv
<1>15. CASE Exit(r)
    <2>1. CASE Raise(r) BY <2>1, <1>15, <1>g, RaisedReader DEF Exit, At
    <2>2. CASE ~Raise(r)
        <3>1. pc'[r] = "idle" /\ sgen'[r] = None
            BY <1>15, <2>2, <1>p, <1>f DEF Exit
        <3>2. started'[r] = started[r] /\ expected'[r] = expected[r] /\ began'[r] = began[r]
              /\ own'[r] = own[r]
            BY <1>15, <2>2 DEF Exit, history
        <3> QED BY <3>1, <3>2, <1>i, <1>g, OutsideReader DEF RequestInv, BoundInv
    <2> QED BY <2>1, <2>2
<1> QED
    BY <1>1, <1>2, <1>3, <1>4, <1>5, <1>6, <1>7, <1>8, <1>9, <1>10, <1>11, <1>12,
       <1>13, <1>15, <1>16 DEF Step

LEMMA InvStep == TypeOK /\ ContextInv /\ [Next]_vars => ContextInv'
<1> SUFFICES ASSUME TypeOK, ContextInv, [Next]_vars PROVE ContextInv'
    OBVIOUS
<1>1. TypeOK' BY TypeStep
<1>2. StoreStep BY WhoPublishes
<1>3. disk' \in Nat /\ disk' >= disk BY DiskStep
<1>4. LogInv /\ LogInv' BY <1>2, LogStep DEF ContextInv
<1>5. \A e \in index : EntryInv(e)' BY <1>2, <1>4, EntryStep DEF ContextInv
<1>6. ASSUME NEW q \in Readers, LocalSame(q) PROVE ReaderInv(q)'
    BY <1>2, <1>3, <1>4, <1>6, ReaderFrame DEF ContextInv
<1>7. CASE World \/ UNCHANGED vars
    <2>1. \A q \in Readers : LocalSame(q)
        BY <1>7 DEF World, Edit, ForeignSync, ForeignClean, LoseObject, LocalSame, vars,
            scope, read, history
    <2>2. index' = index
        BY <1>7 DEF World, Edit, ForeignSync, ForeignClean, LoseObject, vars, cache
    <2> QED BY <1>4, <1>5, <1>6, <2>1, <2>2 DEF ContextInv
<1>8. ASSUME NEW r \in Readers, Start(r) \/ Step(r) \/ Crash(r) PROVE ContextInv'
    <2>1. ReaderInv(r)'
        BY <1>1, <1>2, <1>3, <1>4, <1>8, OwnStep DEF ContextInv
    <2>2. \A q \in Readers : ReaderInv(q)'
        BY <1>6, <1>8, <2>1, OthersSame
    <2>3. ASSUME NEW e \in index' PROVE EntryInv(e)'
        <3>1. CASE PutRow(r)
            <4>1. /\ pc[r] = "row" /\ pc'[r] = "exit" /\ op'[r] = op[r]
                  /\ meta'[r] = meta[r] /\ decls'[r] = decls[r] /\ deps'[r] = deps[r]
                BY <3>1 DEF PutRow, At, Goto, read, TypeOK, ScopeTypeOK
            <4>2. op[r] = "context"
                BY <4>1 DEF ContextInv, ReaderInv, RequestInv, Packing
            <4>3. Shared(meta[r], decls[r], deps[r])' /\ meta'[r] <= gen'
                BY <4>1, <4>2, <2>1 DEF ReaderInv, PackInv, Keying
            <4>4. CASE e \in index BY <4>4, <1>5
            <4>5. CASE e = <<meta[r], decls[r], deps[r]>>
                BY <4>1, <4>3, <4>5 DEF EntryInv, Shared
            <4> QED BY <3>1, <4>4, <4>5 DEF PutRow
        <3>2. CASE ~PutRow(r)
            <4>1. index' \subseteq index
                BY <1>8, <3>2 DEF Start, Step, Crash, Begin, CheckCurrent, Reconcile,
                   ReadOutline, ReadSymbols, Find, ReadHits, Found, ReadMeta, Lookup,
                   ReadItems, PutObject, Exit, cache
            <4> QED BY <4>1, <1>5
        <3> QED BY <3>1, <3>2
    <2> QED BY <1>4, <2>2, <2>3 DEF ContextInv
<1> QED BY <1>7, <1>8 DEF Next

\* A query that ends unmoved has read one publication, and the context cache
\* never offers it relations of a publication that declared something else.
THEOREM ContextSafe == Spec => []ContextInv
<1>1. Init => ContextInv
    <2> SUFFICES ASSUME Init PROVE ContextInv
        OBVIOUS
    <2>1. LogInv BY DEF Init, LogInv
    <2>2. ASSUME NEW r \in Readers PROVE ReaderInv(r)
        BY NoneAssumption DEF Init, ReaderInv, RequestInv, BoundInv, OutlineInv, PackInv,
           Inside, Outlining, Packing, Keying, Unmoved
    <2> QED BY <2>1, <2>2 DEF ContextInv, Init
<1>2. TypeOK /\ ContextInv /\ [Next]_vars => ContextInv'
    BY InvStep
<1> QED BY <1>1, <1>2, ContextTypes, PTL DEF Spec

---------------------------------------------------------------------------
(* What the answers are *)

\* Only the end of a session answers.
LEMMA WhoAnswers ==
    ASSUME TypeOK, ContextInv, [Next]_vars, NEW r \in Readers, answer'[r] # answer[r]
    PROVE  \/ answer' = [answer EXCEPT ![r] = NoAnswer] /\ UNCHANGED store
           \/ /\ At(r, "exit") /\ Unmoved(r) /\ answer[r] = NoAnswer /\ UNCHANGED store
              /\ answer' = [answer EXCEPT ![r] =
                    [kind |-> op[r], gen |-> gen, decls |-> decls[r], deps |-> deps[r]]]
<1>1. CASE World \/ UNCHANGED vars
    BY <1>1 DEF World, Edit, ForeignSync, ForeignClean, LoseObject, vars
<1>2. ASSUME NEW q \in Readers, Start(q) \/ Step(q) \/ Crash(q), q # r PROVE FALSE
    BY <1>2, OthersSame DEF LocalSame
<1>3. CASE Start(r) BY <1>3 DEF Start
<1>4. CASE Exit(r)
    <2>1. answer[r] = NoAnswer BY <1>4 DEF Exit, At, ContextInv, ReaderInv, RequestInv
    <2> QED BY <1>4, <2>1 DEF Exit, Raise
<1>5. ASSUME Step(r) \/ Crash(r), ~Exit(r) PROVE FALSE
    BY <1>5 DEF Step, Crash, Begin, Opened, CheckCurrent, Reconcile, ReadOutline, ReadSymbols,
       Find, ReadHits, Found, ReadMeta, Lookup, ReadItems, PutObject, PutRow, Raise
<1> QED BY <1>1, <1>2, <1>3, <1>4, <1>5 DEF Next

\* What a session has read when it ends unmoved.
LEMMA Accepted ==
    ASSUME TypeOK, ContextInv, NEW r \in Readers, At(r, "exit"), Unmoved(r)
    PROVE  /\ decls[r] = Declarations(row) /\ gen = began[r] + own[r]
           /\ op[r] = "outline" => deps[r] = row /\ deps[r] >= started[r]
           /\ op[r] = "context" => /\ Declarations(deps[r]) = Declarations(row)
                                   /\ \E g \in 1..gen : log[g] = deps[r]
<1>1. RequestInv(r) /\ BoundInv(r) /\ OutlineInv(r) /\ PackInv(r) /\ LogInv
    BY DEF ContextInv, ReaderInv
<1>2. sgen[r] = gen /\ expected[r] = gen /\ gen \in Nat /\ meta[r] \in Nat
    BY <1>1 DEF Unmoved, At, BoundInv, Inside, TypeOK, StoreTypeOK, ReadTypeOK
<1>3. gen = began[r] + own[r]
    BY <1>1, <1>2, NoneAssumption DEF BoundInv
<1>4. CASE op[r] = "outline"
    BY <1>1, <1>3, <1>4 DEF OutlineInv, At
<1>5. CASE op[r] = "context"
    <2>1. decls[r] = Declarations(row) /\ meta[r] = gen /\ Shared(meta[r], decls[r], deps[r])
        BY <1>1, <1>2, <1>5 DEF PackInv, At, Keying, LogInv
    <2> QED BY <1>3, <1>5, <2>1 DEF Shared
<1> QED BY <1>4, <1>5 DEF TypeOK, ScopeTypeOK

\* An outline is at least as new as its file was when the request arrived.
THEOREM NotOlder == Spec => AnswersAreNotOlder
<1>1. ASSUME TypeOK, ContextInv, [Next]_vars, NEW r \in Readers, Answering(r), op[r] = "outline"
      PROVE  answer'[r].deps >= started[r]
    <2>1. answer'[r] # answer[r] /\ answer'[r] # NoAnswer BY <1>1 DEF Answering
    <2>2. answer \in [Readers -> Answers \cup {NoAnswer}] BY <1>1 DEF TypeOK, HistoryTypeOK
    <2>3. /\ At(r, "exit") /\ Unmoved(r)
          /\ answer'[r] = [kind |-> op[r], gen |-> gen, decls |-> decls[r], deps |-> deps[r]]
        BY <1>1, <2>1, <2>2, WhoAnswers
    <2> QED BY <1>1, <2>3, Accepted
<1>2. TypeOK /\ ContextInv /\ [Next]_vars =>
          [\A r \in Readers : Answering(r) /\ op[r] = "outline" =>
              answer'[r].deps >= started[r]]_vars
    BY <1>1
<1> QED BY <1>2, ContextTypes, ContextSafe, PTL DEF Spec, AnswersAreNotOlder

\* No other writer's publication is adopted by a request that has begun.
THEOREM OwnPublications == Spec => OnlyOwnPublications
<1>1. ASSUME TypeOK, ContextInv, [Next]_vars, NEW r \in Readers, Answering(r)
      PROVE  answer'[r].gen = began[r] + own[r]
    <2>1. answer'[r] # answer[r] /\ answer'[r] # NoAnswer BY <1>1 DEF Answering
    <2>2. answer \in [Readers -> Answers \cup {NoAnswer}] BY <1>1 DEF TypeOK, HistoryTypeOK
    <2>3. /\ At(r, "exit") /\ Unmoved(r)
          /\ answer'[r] = [kind |-> op[r], gen |-> gen, decls |-> decls[r], deps |-> deps[r]]
        BY <1>1, <2>1, <2>2, WhoAnswers
    <2> QED BY <1>1, <2>3, Accepted
<1>2. TypeOK /\ ContextInv /\ [Next]_vars =>
          [\A r \in Readers : Answering(r) => answer'[r].gen = began[r] + own[r]]_vars
    BY <1>1
<1> QED BY <1>2, ContextTypes, ContextSafe, PTL DEF Spec, OnlyOwnPublications

---------------------------------------------------------------------------
(* The refinement *)

\* Every step of the lane is a publication, an answer, a forgetting of one, or
\* nothing, for the atomic queries.
LEMMA AtomicStep == TypeOK /\ ContextInv /\ [Next]_vars => [Atomic!Next]_(Atomic!vars)
<1> SUFFICES ASSUME TypeOK, ContextInv, [Next]_vars PROVE [Atomic!Next]_(Atomic!vars)
    OBVIOUS
<1>1. CASE answer' = answer
    <2>1. StoreStep BY WhoPublishes
    <2>2. CASE UNCHANGED store BY <1>1, <2>2 DEF store, Atomic!vars
    <2>3. CASE \E v \in Versions : Publish(v)
        <3>1. Len(log') = Len(log) + 1 /\ \A g \in 1..Len(log) : log'[g] = log[g]
            BY <2>3 DEF Publish, TypeOK, StoreTypeOK
        <3> QED BY <1>1, <3>1 DEF Atomic!Next, Atomic!Publish
    <2> QED BY <2>1, <2>2, <2>3 DEF StoreStep
<1>2. ASSUME NEW r \in Readers, answer'[r] # answer[r] PROVE Atomic!Answer(r) \/ Atomic!Forget(r)
    <2>1. CASE answer' = [answer EXCEPT ![r] = NoAnswer] /\ UNCHANGED store
        BY <2>1 DEF Atomic!Forget, store
    <2>2. CASE /\ At(r, "exit") /\ Unmoved(r) /\ answer[r] = NoAnswer /\ UNCHANGED store
               /\ answer' = [answer EXCEPT ![r] =
                    [kind |-> op[r], gen |-> gen, decls |-> decls[r], deps |-> deps[r]]]
        <3>1. op[r] \in {"outline", "context"} BY DEF TypeOK, ScopeTypeOK
        <3>2. gen = Len(log) /\ row = log[Len(log)] BY DEF ContextInv, LogInv
        <3>3. decls[r] = Atomic!Declarations(Atomic!Current)
            BY <2>2, <3>2, Accepted DEF Declarations, Atomic!Declarations, Atomic!Current
        <3>4. deps[r] \in Atomic!Disclosed(op[r])
            BY <2>2, <3>1, <3>2, Accepted DEF Atomic!Disclosed, Atomic!Current, Declarations,
                Atomic!Declarations
        <3> QED BY <2>2, <3>1, <3>2, <3>3, <3>4 DEF Atomic!Answer, store
    <2> QED BY <1>2, <2>1, <2>2, WhoAnswers
<1>3. answer' = answer \/ \E r \in Readers : answer'[r] # answer[r]
    BY TypeStep DEF TypeOK, HistoryTypeOK
<1> QED BY <1>1, <1>2, <1>3 DEF Atomic!Next

\* The lane implements the atomic queries.
THEOREM AnswersAreAtomic == Spec => AtomicAnswers
<1>1. Init => Atomic!Init
    BY DEF Init, Atomic!Init
<1> QED BY <1>1, AtomicStep, ContextTypes, ContextSafe, PTL DEF Spec, AtomicAnswers, Atomic!Spec
=============================================================================
