--------------------------- MODULE DaemonSideProofs ---------------------------
(***************************************************************************)
(* WatchLease, ServiceSocket and IndexWatch, parts of MCDaemonSide beside  *)
(* WatchCoverage (which has WatchCoverageProofs): their theorems, for      *)
(* every value of their constants.  Each part has its inductive invariant, *)
(* a lemma for its steps, and its theorems; at the end the sum of the      *)
(* parts is shown to inherit them.                                         *)
(***************************************************************************)
EXTENDS MCDaemonSide, WatchCoverageProofs, TLAPS

(***************************************************************************)
(* WatchLease: a live watcher is never displaced and a displaced one never *)
(* writes, for every number of sessions, attempts and ticks.  The          *)
(* invariant is LeaseInv; it holds because what makes a record free to     *)
(* claim is stable.                                                        *)
(***************************************************************************)
USE PartAssumption DEF Lease!LeaseAssumption

\* A record that is claimed is a record.
LEMMA ClaimedTypes ==
    ASSUME Lease!TypeOK, NEW s \in Sessions
    PROVE  Lease!Claimed(s) \in Lease!Record /\ Lease!Claimed(s).fence \in Nat
BY DEF Lease!TypeOK, Lease!Claimed, Lease!Record

\* Types.
LEMMA LeaseTypeStep == Lease!LeaseInv /\ [Lease!Next]_Lease!vars => Lease!TypeOK'
<1> SUFFICES ASSUME Lease!LeaseInv, Lease!TypeOK, [Lease!Next]_Lease!vars PROVE Lease!TypeOK'
    BY DEF Lease!LeaseInv
<1>1. CASE Lease!Tick
    BY <1>1 DEF Lease!Tick, Lease!TypeOK, Lease!locals
<1>2. CASE Lease!Clear
    BY <1>2 DEF Lease!Clear, Lease!TypeOK, Lease!locals
<1>3. ASSUME NEW s \in Sessions, Lease!SessionStep(s) PROVE Lease!TypeOK'
    <2>1. CASE Lease!AcquireRead(s)
        BY <2>1 DEF Lease!AcquireRead, Lease!TypeOK, Lease!Go
    <2>2. CASE Lease!Claim(s)
        BY <2>2, ClaimedTypes DEF Lease!Claim, Lease!TypeOK, Lease!Go
    <2>3. CASE Lease!ClaimLost(s)
        BY <2>3 DEF Lease!ClaimLost, Lease!TypeOK, Lease!Go
    <2>4. CASE Lease!PublishRead(s)
        BY <2>4 DEF Lease!PublishRead, Lease!TypeOK, Lease!Go
    <2>5. CASE Lease!PublishSet(s)
        <3>1. meta' \in Lease!Record \cup {None}
            BY <2>5 DEF Lease!PublishSet, Lease!TypeOK, Lease!Record, Lease!LeaseInv,
                        Lease!PublishesItsOwn
        <3> QED BY <2>5, <3>1 DEF Lease!PublishSet, Lease!TypeOK, Lease!Go, Lease!locals
    <2>6. CASE Lease!Stop(s)
        BY <2>6 DEF Lease!Stop, Lease!TypeOK, Lease!Go, Lease!locals
    <2>7. CASE Lease!ReleaseRead(s)
        BY <2>7 DEF Lease!ReleaseRead, Lease!TypeOK, Lease!Go
    <2>8. CASE Lease!ReleaseSet(s)
        <3>1. meta' \in Lease!Record \cup {None}
            BY <2>8 DEF Lease!ReleaseSet, Lease!TypeOK, Lease!Record, Lease!LeaseInv,
                        Lease!PublishesItsOwn
        <3> QED BY <2>8, <3>1 DEF Lease!ReleaseSet, Lease!TypeOK, Lease!Go, Lease!locals
    <2>9. CASE Lease!Crash(s)
        BY <2>9 DEF Lease!Crash, Lease!TypeOK, Lease!Go, Lease!locals
    <2> QED BY <1>3, <2>1, <2>2, <2>3, <2>4, <2>5, <2>6, <2>7, <2>8, <2>9 DEF
            Lease!SessionStep
<1>4. CASE UNCHANGED Lease!vars
    BY <1>4 DEF Lease!vars, Lease!TypeOK
<1> QED BY <1>1, <1>2, <1>3, <1>4 DEF Lease!Next

\* What is free stays free.
LEMMA FreeIsStable ==
    ASSUME Lease!TypeOK, NEW r \in Lease!Record \cup {None}, Lease!Free(r),
           clock' \in Nat, clock' >= clock,
           \A s \in Sessions : pc[s] = "dead" => pc'[s] = "dead"
    PROVE  Lease!Free(r)'
BY DEF Lease!TypeOK, Lease!Free, Lease!Recent, Lease!Alive, Lease!Record

\* A session's step, for the others: what they have read and their fence stand.
LEMMA OnlyItsOwn ==
    ASSUME Lease!TypeOK, NEW s \in Sessions, Lease!SessionStep(s), NEW t \in Sessions, t # s
    PROVE  pc'[t] = pc[t] /\ raw'[t] = raw[t] /\ fence'[t] = fence[t]
BY DEF Lease!TypeOK, Lease!SessionStep, Lease!AcquireRead, Lease!Claim, Lease!ClaimLost,
       Lease!PublishRead, Lease!PublishSet, Lease!Stop, Lease!ReleaseRead,
       Lease!ReleaseSet, Lease!Crash, Lease!Go, Lease!locals

\* No step turns the clock back or raises the dead.
LEMMA TimeGoesOn ==
    ASSUME Lease!TypeOK, [Lease!Next]_Lease!vars
    PROVE  /\ clock' \in Nat /\ clock' >= clock
           /\ \A s \in Sessions : pc[s] = "dead" => pc'[s] = "dead"
<1>1. CASE Lease!Tick \/ Lease!Clear
    BY <1>1 DEF Lease!Tick, Lease!Clear, Lease!TypeOK, Lease!locals
<1>2. ASSUME NEW s \in Sessions, Lease!SessionStep(s)
      PROVE  /\ clock' \in Nat /\ clock' >= clock
             /\ \A t \in Sessions : pc[t] = "dead" => pc'[t] = "dead"
    <2>1. clock' = clock
        BY <1>2 DEF Lease!SessionStep, Lease!AcquireRead, Lease!Claim, Lease!ClaimLost,
                    Lease!PublishRead, Lease!PublishSet, Lease!Stop, Lease!ReleaseRead,
                    Lease!ReleaseSet, Lease!Crash
    <2>2. pc[s] # "dead"
        BY <1>2 DEF Lease!SessionStep, Lease!AcquireRead, Lease!Claim, Lease!ClaimLost,
                    Lease!PublishRead, Lease!PublishSet, Lease!Stop, Lease!ReleaseRead,
                    Lease!ReleaseSet, Lease!Crash
    <2>3. \A t \in Sessions : t # s => pc'[t] = pc[t]
        BY <1>2, OnlyItsOwn
    <2> QED BY <2>1, <2>2, <2>3 DEF Lease!TypeOK
<1>3. CASE UNCHANGED Lease!vars
    BY <1>3 DEF Lease!vars, Lease!TypeOK
<1> QED BY <1>1, <1>2, <1>3 DEF Lease!Next

\* What is read by an acquirer is free, and stays so.
LEMMA ClaimsStayFree == Lease!LeaseInv /\ [Lease!Next]_Lease!vars => Lease!ClaimsAreFree'
<1> SUFFICES ASSUME Lease!LeaseInv, Lease!TypeOK, [Lease!Next]_Lease!vars, NEW t \in Sessions, pc'[t] = "claim"
             PROVE  Lease!Free(raw[t])'
    BY DEF Lease!LeaseInv, Lease!ClaimsAreFree
<1>1. raw[t] \in Lease!Record \cup {None} /\ meta \in Lease!Record \cup {None}
    BY DEF Lease!TypeOK
<1>2. CASE pc[t] = "claim" /\ raw'[t] = raw[t]
    <2>1. Lease!Free(raw[t])
        BY <1>2 DEF Lease!LeaseInv, Lease!ClaimsAreFree
    <2>2. \A r \in Lease!Record \cup {None} : Lease!Free(r) => Lease!Free(r)'
        BY TimeGoesOn, FreeIsStable
    <2> QED BY <1>1, <1>2, <2>1, <2>2 DEF Lease!Free, Lease!Recent, Lease!Alive
<1>3. CASE Lease!AcquireRead(t)
    <2>1. raw'[t] = meta /\ clock' = clock
        BY <1>3 DEF Lease!AcquireRead, Lease!TypeOK, Lease!Go
    <2>2. Lease!Free(meta)
        BY <1>3 DEF Lease!AcquireRead, Lease!TypeOK, Lease!Go, Lease!LeaseLive, Lease!Free
    <2>3. \A r \in Lease!Record \cup {None} : Lease!Free(r) => Lease!Free(r)'
        BY TimeGoesOn, FreeIsStable
    <2> QED BY <1>1, <2>1, <2>2, <2>3 DEF Lease!Free, Lease!Recent, Lease!Alive
<1>4. ASSUME NEW s \in Sessions, Lease!SessionStep(s), s # t
      PROVE  pc[t] = "claim" /\ raw'[t] = raw[t]
    BY <1>4, OnlyItsOwn
<1>5. ASSUME Lease!SessionStep(t), ~Lease!AcquireRead(t)
      PROVE  pc[t] = "claim" /\ raw'[t] = raw[t]
    BY <1>5 DEF Lease!SessionStep, Lease!Claim, Lease!ClaimLost, Lease!PublishRead,
                Lease!PublishSet, Lease!Stop, Lease!ReleaseRead, Lease!ReleaseSet,
                Lease!Crash, Lease!Go, Lease!TypeOK
<1>6. CASE Lease!Tick \/ Lease!Clear \/ UNCHANGED Lease!vars
    <2>1. pc[t] = "claim" /\ raw'[t] = raw[t]
        BY <1>6 DEF Lease!Tick, Lease!Clear, Lease!vars, Lease!locals
    <2> QED BY <1>2, <2>1
<1> QED BY <1>2, <1>3, <1>4, <1>5, <1>6 DEF Lease!Next

\* What a publisher has read is its own.
LEMMA OwnStaysOwn == Lease!LeaseInv /\ [Lease!Next]_Lease!vars => Lease!PublishesItsOwn'
<1> DEFINE Own(t) == /\ raw[t] # None /\ raw[t].owner = t /\ raw[t].fence = fence[t]
<1> SUFFICES ASSUME Lease!LeaseInv, Lease!TypeOK, [Lease!Next]_Lease!vars, NEW t \in Sessions,
                    pc'[t] \in {"publish", "retire"}
             PROVE  Own(t)'
    BY DEF Lease!LeaseInv, Lease!PublishesItsOwn
<1>1. CASE pc[t] = pc'[t] /\ raw'[t] = raw[t] /\ fence'[t] = fence[t]
    BY <1>1 DEF Lease!LeaseInv, Lease!PublishesItsOwn
<1>2. ASSUME NEW s \in Sessions, Lease!SessionStep(s), s # t
      PROVE  Own(t)'
    BY <1>1, <1>2, OnlyItsOwn
<1>3. CASE Lease!SessionStep(t)
    <2>1. CASE Lease!PublishRead(t) \/ Lease!ReleaseRead(t)
        BY <2>1 DEF Lease!PublishRead, Lease!ReleaseRead, Lease!Go, Lease!TypeOK,
                    Lease!Mine
    <2>2. CASE ~(Lease!PublishRead(t) \/ Lease!ReleaseRead(t))
        BY <1>3, <2>2 DEF Lease!SessionStep, Lease!AcquireRead, Lease!Claim,
                          Lease!ClaimLost, Lease!PublishSet, Lease!Stop, Lease!ReleaseSet,
                          Lease!Crash, Lease!Go, Lease!TypeOK
    <2> QED BY <2>1, <2>2
<1>4. CASE Lease!Tick \/ Lease!Clear \/ UNCHANGED Lease!vars
    BY <1>1, <1>4 DEF Lease!Tick, Lease!Clear, Lease!vars, Lease!locals
<1> QED BY <1>2, <1>3, <1>4 DEF Lease!Next

(* What an acquirer will compare with stays free, and what a publisher will compare *)
(* with is its own: for every number of sessions, attempts and ticks.               *)
THEOREM LeaseInvariant == Lease!Spec => []Lease!LeaseInv
<1>1. Lease!Init => Lease!LeaseInv
    BY DEF Lease!Init, Lease!LeaseInv, Lease!TypeOK, Lease!ClaimsAreFree,
           Lease!PublishesItsOwn
<1>2. Lease!LeaseInv /\ [Lease!Next]_Lease!vars => Lease!LeaseInv'
    BY LeaseTypeStep, ClaimsStayFree, OwnStaysOwn DEF Lease!LeaseInv
<1> QED BY <1>1, <1>2, PTL DEF Lease!Spec

\* Only a claim makes another session the owner.
LEMMA OnlyClaimsReplace ==
    ASSUME Lease!LeaseInv, [Lease!Next]_Lease!vars, Lease!Replaced
    PROVE  \E s \in Sessions : Lease!Claim(s) /\ meta'.owner = s
<1> USE DEF Lease!LeaseInv
<1>1. CASE Lease!Tick \/ Lease!Clear \/ UNCHANGED Lease!vars
    BY <1>1 DEF Lease!Tick, Lease!Clear, Lease!vars, Lease!Replaced
<1>2. ASSUME NEW s \in Sessions, Lease!SessionStep(s)
      PROVE  Lease!Claim(s) /\ meta'.owner = s
    <2>1. CASE Lease!Claim(s)
        BY <2>1 DEF Lease!Claim, Lease!Claimed
    <2>2. CASE Lease!PublishSet(s) \/ Lease!ReleaseSet(s)
        BY <2>2 DEF Lease!PublishSet, Lease!ReleaseSet, Lease!Replaced, Lease!TypeOK,
                    Lease!Record
    <2>3. CASE ~(Lease!Claim(s) \/ Lease!PublishSet(s) \/ Lease!ReleaseSet(s))
        BY <1>2, <2>3 DEF Lease!SessionStep, Lease!AcquireRead, Lease!ClaimLost,
                          Lease!PublishRead, Lease!Stop, Lease!ReleaseRead, Lease!Crash,
                          Lease!Replaced
    <2> QED BY <2>1, <2>2, <2>3
<1> QED BY <1>1, <1>2 DEF Lease!Next

\* A live watcher is never displaced, with every number of sessions that try to
\* acquire at once and any of them dying anywhere.
LEMMA TakenWhenFree == Lease!Spec => Lease!TakenOnlyWhenFree
<1>1. Lease!LeaseInv /\ [Lease!Next]_Lease!vars => [Lease!Replaced => ~Lease!Holding(meta)]_Lease!vars
    <2> SUFFICES ASSUME Lease!LeaseInv, [Lease!Next]_Lease!vars, Lease!Replaced PROVE ~Lease!Holding(meta)
        OBVIOUS
    <2>1. PICK s \in Sessions : Lease!Claim(s)
        BY OnlyClaimsReplace
    <2>2. Lease!Free(meta)
        BY <2>1 DEF Lease!Claim, Lease!LeaseInv, Lease!ClaimsAreFree
    <2> QED BY <2>2 DEF Lease!Free, Lease!Holding
<1> QED BY <1>1, LeaseInvariant, PTL DEF Lease!Spec, Lease!TakenOnlyWhenFree

\* A session that lost its lease never writes over its successor, and every
\* successor's fence is higher.
LEMMA WritersAreFenced == Lease!Spec => Lease!StaleNeverOverwrites
<1>1. Lease!LeaseInv /\ [Lease!Next]_Lease!vars =>
          [Lease!Replaced => pc[meta'.owner] = "claim" /\ meta'.fence > meta.fence]_Lease!vars
    <2> SUFFICES ASSUME Lease!LeaseInv, [Lease!Next]_Lease!vars, Lease!Replaced
                 PROVE  pc[meta'.owner] = "claim" /\ meta'.fence > meta.fence
        OBVIOUS
    <2>1. PICK s \in Sessions : Lease!Claim(s) /\ meta'.owner = s
        BY OnlyClaimsReplace
    <2>2. meta \in Lease!Record /\ meta'.fence = meta.fence + 1
        BY <2>1 DEF Lease!Claim, Lease!Claimed, Lease!Replaced, Lease!LeaseInv,
                    Lease!TypeOK
    <2> QED BY <2>1, <2>2 DEF Lease!Claim, Lease!Record
<1> QED BY <1>1, LeaseInvariant, PTL DEF Lease!Spec, Lease!StaleNeverOverwrites

HIDE PartAssumption DEF Lease!LeaseAssumption

(***************************************************************************)
(* ServiceSocket, for any number of servers and whether or not a queue is  *)
(* ever full.  Who has never had company is the only one that runs; so the *)
(* path is what the dead have left and what it has made of it itself.      *)
(***************************************************************************)
SocketInv ==
    /\ Socket!TypeOK
    /\ \A x, y \in Socket!Running : x # y => x \in company
    /\ \A x \in Servers \ company :
          /\ end[x] \notin {"running", "in use"} /\ soPc[x] # "cleanup"
          /\ soPc[x] \in {"ready", "bind"} => path = None
          /\ soPc[x] \in {"bound", "serving"} => path = x

LEMMA SocketInit == Socket!Init => SocketInv
    BY DEF Socket!Init, SocketInv, Socket!TypeOK, Socket!Running, Socket!Labels, Socket!Ends

LEMMA StartKeeps ==
    ASSUME SocketInv, NEW x \in Servers, Socket!Start(x), UNCHANGED bindsInTry
    PROVE  SocketInv'
<1> USE DEF Socket!Start, Socket!Go
<1>1. Socket!TypeOK'
    BY DEF SocketInv, Socket!TypeOK, Socket!Labels, Socket!Running
<1>2. Socket!Running' = Socket!Running \cup {x}
    BY DEF SocketInv, Socket!TypeOK, Socket!Running
<1> QED BY <1>1, <1>2 DEF SocketInv, Socket!TypeOK

\* The step of a server that runs, whether it goes on or ends.
LEMMA RunningKeeps ==
    ASSUME Socket!SocketAssumption, SocketInv, NEW x \in Socket!Running, UNCHANGED bindsInTry,
           \/ Socket!Exists(x) \/ Socket!Connect(x) \/ Socket!Unlink(x) \/ Socket!GetReady(x)
           \/ Socket!Bind(x) \/ Socket!Listen(x) \/ Socket!Close(x) \/ Socket!Remove(x)
           \/ Socket!Crash(x)
    PROVE  SocketInv'
<1> USE DEF Socket!Exists, Socket!Connect, Socket!Unlink, Socket!GetReady, Socket!Bind,
            Socket!Listen, Socket!Close, Socket!Remove, Socket!Crash, Socket!Go, Socket!Leave
<1>1. Socket!TypeOK'
    BY DEF SocketInv, Socket!TypeOK, Socket!Labels, Socket!Ends, Socket!Running
<1>2. Socket!Running' \subseteq Socket!Running /\ UNCHANGED company
    BY DEF SocketInv, Socket!TypeOK, Socket!Running
<1>3. ASSUME NEW y \in Servers \ company, y # x
      PROVE  soPc'[y] = soPc[y] /\ end'[y] = end[y] /\ y \notin Socket!Running
    BY <1>3 DEF SocketInv, Socket!TypeOK
<1>4. CASE x \in company
    BY <1>1, <1>2, <1>3, <1>4 DEF SocketInv, Socket!Running
<1>5. CASE x \notin company
    <2>1. path # None /\ soPc[path] = "serving" => path = x
        BY <1>5 DEF SocketInv, Socket!TypeOK, Socket!Running
    <2>2. /\ end'[x] \notin {"running", "in use"} /\ soPc'[x] # "cleanup"
          /\ soPc'[x] \in {"ready", "bind"} => path' = None
          /\ soPc'[x] \in {"bound", "serving"} => path' = x
        BY <1>5, <2>1 DEF SocketInv, Socket!TypeOK, Socket!Running, Socket!Answers
    <2> QED BY <1>1, <1>2, <1>3, <2>2 DEF SocketInv, Socket!Running
<1> QED BY <1>4, <1>5

LEMMA SocketStep ==
    Socket!SocketAssumption /\ SocketInv /\ [Socket!Next]_Socket!vars => SocketInv'
<1> SUFFICES ASSUME Socket!SocketAssumption, SocketInv, [Socket!Next]_Socket!vars
             PROVE  SocketInv'
    OBVIOUS
<1>1. ASSUME UNCHANGED bindsInTry, NEW x \in Servers,
             \/ Socket!Exists(x) \/ Socket!Connect(x) \/ Socket!Unlink(x) \/ Socket!GetReady(x)
             \/ Socket!Bind(x) \/ Socket!Listen(x) \/ Socket!Close(x) \/ Socket!Remove(x)
             \/ Socket!Crash(x)
      PROVE  SocketInv'
    <2>1. x \in Socket!Running
        BY <1>1 DEF Socket!Exists, Socket!Connect, Socket!Unlink, Socket!GetReady, Socket!Bind,
                    Socket!Listen, Socket!Close, Socket!Remove, Socket!Crash, Socket!Running
    <2> QED BY <1>1, <2>1, RunningKeeps
<1>2. CASE UNCHANGED Socket!vars
    BY <1>2 DEF Socket!vars, SocketInv, Socket!TypeOK, Socket!Running
<1> QED BY <1>1, <1>2, StartKeeps DEF Socket!Next

\* The servers' variables have their types, and company is symmetric.
THEOREM SocketInvariant == Socket!SocketAssumption => (Socket!Spec => []SocketInv)
<1>1. SUFFICES ASSUME Socket!SocketAssumption
               PROVE  Socket!Spec => []SocketInv
    OBVIOUS
<1>2. Socket!Init => SocketInv
    BY <1>1, SocketInit
<1>3. SocketInv /\ [Socket!Next]_Socket!vars => SocketInv'
    BY <1>1, SocketStep
<1> QED BY <1>2, <1>3, PTL DEF Socket!Spec

(***************************************************************************)
(* IndexWatch, one session of the watch beside other processes, for any    *)
(* paths and any number of changes, overflows and failures.  A change is   *)
(* followed from its event to the row that is published; what is dropped   *)
(* on the way makes the tracker unknown.  It stops being unknown in two    *)
(* places: by a settling whose generation nothing has moved since it was   *)
(* taken under update_lock, which has then read everything, and by the     *)
(* promotion after the first sync, which has read everything too.          *)
(***************************************************************************)
\* The main thread's first sync, which holds no lock.
FirstSync == iwPc["main"] = "read" /\ lock # "main"

\* Where the threads are, and what they have then.
Orderly ==
    /\ iwReader => iwPc["flush"] # "gone"
    /\ iwPc["flush"] \notin {"first", "barrier", "promote", "promoting", "loop", "alarm"}
    /\ iwPc["flush"] = "read" => lock = "flush"
    /\ \A t \in Watch!Threads : iwPc[t] = "read" => txn = t
    /\ \A t \in Watch!Threads : before[t] <= generation
    /\ iwPc["main"] = "first" => lock # "main" /\ paths["main"] = iwPaths
    /\ started => iwPc["main"] \notin {"first", "barrier", "wait", "promote", "promoting"}
    /\ started => ~FirstSync

\* What changed in p is in the queue, in the batch or in a thread's hands.
Due(p) ==
    \/ p \in iwQueue \/ over \/ p \in iwBatch
    \/ \E t \in Watch!Threads : iwPc[t] \in {"mark", "lock", "sync"} /\ p \in paths[t]

\* The transaction under way will leave a row of p that does not lag unseen.
Copied(p) == p \in iwTodo \/ built[p] = disk[p] \/ Due(p)

\* So does the store.
Held(p) ==
    \/ rows[p] = disk[p] \/ Due(p)
    \/ txn \in Watch!Threads /\ (p \in iwTodo \/ built[p] = disk[p])

\* Nothing was marked since t took the lock.
Unmarked(t) == before[t] = generation

\* Nothing is out of sight but for what the tracker calls unknown.
Whole ==
    \/ state # "unknown"
    \/ ~started /\ iwPc["main"] # "first" /\ ~FirstSync
    \/ \E t \in Watch!Threads : iwPc[t] = "settle" /\ Unmarked(t)

InSight ==
    /\ \A t \in Watch!Threads :
          iwPc[t] = "sync" /\ Unmarked(t) /\ state = "unknown" => paths[t] = iwPaths
    /\ Whole => \A p \in iwPaths : Held(p)
    /\ txn # None /\ (Whole \/ FirstSync \/ (txn \in Watch!Threads /\ Unmarked(txn))) =>
          \A p \in iwPaths : Copied(p)

Sighted == iwReader /\ ~blind => InSight

WatchInv == Watch!TypeOK /\ Orderly /\ Sighted

\* The types, step by step.
LEMMA WatchTypesKept ==
    Watch!BoundAssumption /\ Watch!TypeOK /\ Orderly /\ [Watch!Next]_Watch!vars =>
    Watch!TypeOK'
<1> SUFFICES ASSUME Watch!BoundAssumption, Watch!TypeOK, Orderly, [Watch!Next]_Watch!vars
        PROVE Watch!TypeOK'
    OBVIOUS
<1> USE DEF Watch!files, Watch!kernel, Watch!tracker, Watch!store, Watch!locals,
        Watch!TypeOK
<1> DEFINE TrackerTyped ==
        state' \in Watch!States /\ generation' \in Nat /\ dirty' \subseteq iwPaths
<1>1. ASSUME NEW p \in iwPaths, Watch!Change(p) PROVE Watch!TypeOK'
    <2>1. iwQueue' \subseteq iwPaths /\ over' \in BOOLEAN /\ overflows' \in 0..MaxOverflows
        <3>1. CASE iwQueue' = iwQueue \cup {p} /\ UNCHANGED <<over, overflows>>
            BY <3>1
        <3>2. CASE /\ overflows < MaxOverflows /\ overflows' = overflows + 1
                   /\ over' = TRUE /\ UNCHANGED iwQueue
            BY <3>2 DEF Watch!BoundAssumption
        <3> QED BY <1>1, <3>1, <3>2 DEF Watch!Change
    <2>2. disk' \in [iwPaths -> Nat] /\ changes' \in 0..MaxChanges
        BY <1>1 DEF Watch!Change, Watch!BoundAssumption
    <2> QED BY <1>1, <2>1, <2>2 DEF Watch!Change
<1>2. ASSUME Watch!Read PROVE Watch!TypeOK'
    <2>1. blind' = (blind \/ (over /\ ~started)) BY <1>2 DEF Watch!Read, Watch!DrainReady
    <2>2. blind' \in BOOLEAN BY <2>1, Zenon
    <2>3. TrackerTyped BY <1>2 DEF Watch!Read, Watch!DrainReady, Watch!MarkUnknown,
              Watch!States
    <2> QED BY <1>2, <2>2, <2>3 DEF Watch!Read, Watch!DrainReady
<1>3. ASSUME Watch!ReaderDies PROVE Watch!TypeOK'
    <2>1. blind' = (blind \/ ~started) BY <1>3 DEF Watch!ReaderDies
    <2>2. blind' \in BOOLEAN BY <2>1, Zenon
    <2>3. TrackerTyped BY <1>3 DEF Watch!ReaderDies, Watch!MarkUnknown, Watch!States
    <2> QED BY <1>3, <2>2, <2>3 DEF Watch!ReaderDies
<1>4. ASSUME Watch!Barrier PROVE Watch!TypeOK'
    <2>1. blind' \in BOOLEAN
        <3>1. blind' = blind \/ blind' = (blind \/ (over /\ ~started))
            BY <1>4, Zenon DEF Watch!Barrier, Watch!DrainReady
        <3> QED BY <3>1, Zenon
    <2>2. TrackerTyped BY <1>4 DEF Watch!Barrier, Watch!DrainReady, Watch!MarkUnknown,
              Watch!Go, Watch!States
    <2> QED BY <1>4, <2>1, <2>2 DEF Watch!Barrier, Watch!DrainReady, Watch!Go
<1>5. ASSUME NEW t \in Watch!Threads, Watch!SyncFails(t) PROVE Watch!TypeOK'
    <2>1. blind' \in BOOLEAN
        <3>1. blind' = blind \/ blind' = (blind \/ ~started)
            BY <1>5, Zenon DEF Watch!SyncFails
        <3> QED BY <3>1, Zenon
    <2>2. TrackerTyped BY <1>5 DEF Watch!SyncFails, Watch!MarkUnknown, Watch!States
    <2>3. failures' \in 0..MaxFailures BY <1>5 DEF Watch!SyncFails, Watch!BoundAssumption
    <2>4. CASE t = "flush" \/ (lock = t /\ ~started)
        BY <1>5, <2>1, <2>2, <2>3, <2>4 DEF Watch!SyncFails, Watch!Go,
           Watch!BoundAssumption, Watch!Threads
    <2>5. CASE ~(t = "flush" \/ (lock = t /\ ~started))
        <3>1. /\ iwPc' = [u \in Watch!Threads |-> "gone"] /\ iwReader' = FALSE
              /\ txn' = None /\ iwTodo' = {}
              /\ lock' \in {lock, None} /\ rec' = [rec EXCEPT !.active = FALSE]
              /\ UNCHANGED <<Watch!files, Watch!kernel, iwBatch, built, others>>
              /\ UNCHANGED <<rows, mapGen, Watch!locals, started>>
            BY <1>5, <2>5, Zenon DEF Watch!SyncFails
        <3> QED BY <2>1, <2>2, <2>3, <3>1 DEF Watch!BoundAssumption, Watch!Threads
    <2> QED BY <2>4, <2>5
<1> USE DEF Watch!BoundAssumption, Orderly, Watch!Threads, Watch!States, Watch!Version,
        FirstSync
<1>6. ASSUME NEW p \in iwPaths, Watch!SyncRead(p) PROVE Watch!TypeOK'
    BY <1>6 DEF Watch!SyncRead
<1>7. ASSUME NEW t \in Watch!Threads, Watch!Mark(t) PROVE Watch!TypeOK'
    BY <1>7 DEF Watch!Mark, Watch!MarkDirty, Watch!Go
<1>8. ASSUME NEW t \in Watch!Threads, Watch!Lock(t) PROVE Watch!TypeOK'
    BY <1>8 DEF Watch!Lock, Watch!Go
<1>9. ASSUME NEW t \in Watch!Threads, Watch!SyncBegin(t) PROVE Watch!TypeOK'
    BY <1>9 DEF Watch!SyncBegin, Watch!Go
<1>10. ASSUME NEW t \in Watch!Threads, Watch!SyncCommit(t) PROVE Watch!TypeOK'
    BY <1>10 DEF Watch!SyncCommit, Watch!Commit, Watch!Go
<1>11. ASSUME NEW t \in Watch!Threads, Watch!Settle(t) PROVE Watch!TypeOK'
    BY <1>11 DEF Watch!Settle, Watch!MarkReconciled, Watch!Go
<1>12. ASSUME NEW t \in Watch!Threads, Watch!Snap(t) PROVE Watch!TypeOK'
    BY <1>12 DEF Watch!Snap, Watch!Go
<1>13. ASSUME NEW t \in Watch!Threads, Watch!Write(t) PROVE Watch!TypeOK'
    BY <1>13 DEF Watch!Write, Watch!Go
<1>14. ASSUME Watch!BarrierTakes PROVE Watch!TypeOK'
    BY <1>14 DEF Watch!BarrierTakes, Watch!Take, Watch!Go
<1>15. ASSUME Watch!Promote PROVE Watch!TypeOK'
    BY <1>15 DEF Watch!Promote, Watch!Go
<1>16. ASSUME Watch!Promoting PROVE Watch!TypeOK'
    BY <1>16 DEF Watch!Promoting, Watch!MarkReconciled, Watch!Go
<1>17. ASSUME Watch!Refresh PROVE Watch!TypeOK'
    BY <1>17 DEF Watch!Refresh, Watch!Go
<1>18. ASSUME Watch!Alarm PROVE Watch!TypeOK'
    BY <1>18 DEF Watch!Alarm, Watch!Go
<1>19. ASSUME Watch!FlushTakes PROVE Watch!TypeOK'
    BY <1>19 DEF Watch!FlushTakes, Watch!Take, Watch!Go
<1>20. ASSUME Watch!FlushEnds PROVE Watch!TypeOK'
    BY <1>20 DEF Watch!FlushEnds, Watch!MarkUnknown, Watch!Go
<1>21. ASSUME Watch!OtherBegin PROVE Watch!TypeOK'
    BY <1>21 DEF Watch!OtherBegin
<1>22. ASSUME Watch!OtherCommit PROVE Watch!TypeOK'
    BY <1>22 DEF Watch!OtherCommit, Watch!Commit
<1>23. CASE UNCHANGED Watch!vars
    BY <1>23 DEF Watch!vars
<1> QED BY <1>1, <1>2, <1>3, <1>4, <1>5, <1>6, <1>7, <1>8, <1>9, <1>10, <1>11, <1>12,
        <1>13, <1>14, <1>15, <1>16, <1>17, <1>18, <1>19, <1>20, <1>21, <1>22, <1>23 DEF
        Watch!Next, Watch!MainStep, Watch!FlushStep, Watch!ThreadStep, Watch!Threads

\* The labels of the threads agree with what they hold, step by step.
LEMMA WatchOrderKept ==
    Watch!BoundAssumption /\ Watch!TypeOK /\ Orderly /\ [Watch!Next]_Watch!vars => Orderly'
<1> SUFFICES ASSUME Watch!BoundAssumption, Watch!TypeOK, Orderly, [Watch!Next]_Watch!vars
        PROVE Orderly'
    OBVIOUS
<1> USE DEF Watch!files, Watch!kernel, Watch!tracker, Watch!store, Watch!locals,
        Watch!BoundAssumption, Watch!TypeOK, Orderly,
        Watch!Threads, Watch!States, FirstSync
<1>1. ASSUME NEW p \in iwPaths, Watch!Change(p) PROVE Orderly'
    BY <1>1 DEF Watch!Change
<1>2. ASSUME NEW p \in iwPaths, Watch!SyncRead(p) PROVE Orderly'
    BY <1>2 DEF Watch!SyncRead
<1>3. ASSUME Watch!Read PROVE Orderly'
    BY <1>3 DEF Watch!Read, Watch!DrainReady, Watch!MarkUnknown
<1>4. ASSUME Watch!ReaderDies PROVE Orderly'
    BY <1>4 DEF Watch!ReaderDies, Watch!MarkUnknown
<1>5. ASSUME NEW t \in Watch!Threads, Watch!Mark(t) PROVE Orderly'
    BY <1>5 DEF Watch!Mark, Watch!MarkDirty, Watch!Go
<1>6. ASSUME NEW t \in Watch!Threads, Watch!Lock(t) PROVE Orderly'
    BY <1>6 DEF Watch!Lock, Watch!Go
<1>7. ASSUME NEW t \in Watch!Threads, Watch!SyncBegin(t) PROVE Orderly'
    BY <1>7 DEF Watch!SyncBegin, Watch!Go
<1>8. ASSUME NEW t \in Watch!Threads, Watch!SyncCommit(t) PROVE Orderly'
    BY <1>8 DEF Watch!SyncCommit, Watch!Commit, Watch!Go
<1>9. ASSUME NEW t \in Watch!Threads, Watch!Settle(t) PROVE Orderly'
    BY <1>9 DEF Watch!Settle, Watch!MarkReconciled, Watch!Go
<1>10. ASSUME NEW t \in Watch!Threads, Watch!Snap(t) PROVE Orderly'
    BY <1>10 DEF Watch!Snap, Watch!Go
<1>11. ASSUME NEW t \in Watch!Threads, Watch!Write(t) PROVE Orderly'
    BY <1>11 DEF Watch!Write, Watch!Go
<1>12. ASSUME Watch!Barrier PROVE Orderly'
    BY <1>12 DEF Watch!Barrier, Watch!DrainReady, Watch!MarkUnknown, Watch!Go
<1>13. ASSUME Watch!BarrierTakes PROVE Orderly'
    BY <1>13 DEF Watch!BarrierTakes, Watch!Take, Watch!Go
<1>14. ASSUME Watch!Promote PROVE Orderly'
    BY <1>14 DEF Watch!Promote, Watch!Go
<1>15. ASSUME Watch!Promoting PROVE Orderly'
    BY <1>15 DEF Watch!Promoting, Watch!MarkReconciled, Watch!Go
<1>16. ASSUME Watch!Refresh PROVE Orderly'
    BY <1>16 DEF Watch!Refresh, Watch!Go
<1>17. ASSUME Watch!Alarm PROVE Orderly'
    BY <1>17 DEF Watch!Alarm, Watch!Go
<1>18. ASSUME Watch!FlushTakes PROVE Orderly'
    BY <1>18 DEF Watch!FlushTakes, Watch!Take, Watch!Go
<1>19. ASSUME Watch!FlushEnds PROVE Orderly'
    BY <1>19 DEF Watch!FlushEnds, Watch!MarkUnknown, Watch!Go
<1>20. ASSUME NEW t \in Watch!Threads, Watch!SyncFails(t) PROVE Orderly'
    BY <1>20 DEF Watch!SyncFails, Watch!MarkUnknown, Watch!Go
<1>21. ASSUME Watch!OtherBegin PROVE Orderly'
    BY <1>21 DEF Watch!OtherBegin
<1>22. ASSUME Watch!OtherCommit PROVE Orderly'
    BY <1>22 DEF Watch!OtherCommit, Watch!Commit
<1>23. CASE UNCHANGED Watch!vars
    BY <1>23 DEF Watch!vars
<1> QED BY <1>1, <1>2, <1>3, <1>4, <1>5, <1>6, <1>7, <1>8, <1>9, <1>10, <1>11, <1>12,
        <1>13, <1>14, <1>15, <1>16, <1>17, <1>18, <1>19, <1>20, <1>21, <1>22, <1>23 DEF
        Watch!Next, Watch!MainStep, Watch!FlushStep, Watch!ThreadStep

\* What is in sight stays so: an event moves from the queue to the batch, to the hands of
\* a thread, to a transaction; the rows it has read change again only with a new event;
\* and what is dropped on the way leaves the tracker unknown with a new generation, which
\* no settling can have in hand.
LEMMA WatchSightKept ==
    Watch!BoundAssumption /\ Watch!TypeOK /\ Orderly /\ Sighted /\ [Watch!Next]_Watch!vars
    => Sighted'
<1> SUFFICES ASSUME Watch!BoundAssumption, Watch!TypeOK, Orderly, Sighted,
        [Watch!Next]_Watch!vars PROVE
        Sighted'
    OBVIOUS
<1> USE DEF Watch!files, Watch!kernel, Watch!tracker, Watch!store, Watch!locals,
        Watch!BoundAssumption, Watch!TypeOK, Orderly,
        Watch!Threads, Watch!States, FirstSync, Sighted, InSight, Whole, Held, Copied,
        Due, Unmarked
<1>1. ASSUME NEW p \in iwPaths, Watch!Change(p) PROVE Sighted'
    BY <1>1 DEF Watch!Change
<1>2. ASSUME NEW p \in iwPaths, Watch!SyncRead(p) PROVE Sighted'
    BY <1>2 DEF Watch!SyncRead
<1>3. ASSUME Watch!Read PROVE Sighted'
    BY <1>3 DEF Watch!Read, Watch!DrainReady, Watch!MarkUnknown
<1>4. ASSUME Watch!ReaderDies PROVE Sighted'
    BY <1>4 DEF Watch!ReaderDies, Watch!MarkUnknown
<1>5. ASSUME NEW t \in Watch!Threads, Watch!Mark(t) PROVE Sighted'
    BY <1>5 DEF Watch!Mark, Watch!MarkDirty, Watch!Go
<1>6. ASSUME NEW t \in Watch!Threads, Watch!Lock(t) PROVE Sighted'
    BY <1>6 DEF Watch!Lock, Watch!Go
<1>7. ASSUME NEW t \in Watch!Threads, Watch!SyncBegin(t) PROVE Sighted'
    BY <1>7 DEF Watch!SyncBegin, Watch!Go
<1>8. ASSUME NEW t \in Watch!Threads, Watch!SyncCommit(t) PROVE Sighted'
    BY <1>8 DEF Watch!SyncCommit, Watch!Commit, Watch!Go
<1>9. ASSUME NEW t \in Watch!Threads, Watch!Settle(t) PROVE Sighted'
    BY <1>9 DEF Watch!Settle, Watch!MarkReconciled, Watch!Go
<1>10. ASSUME NEW t \in Watch!Threads, Watch!Snap(t) PROVE Sighted'
    BY <1>10 DEF Watch!Snap, Watch!Go
<1>11. ASSUME NEW t \in Watch!Threads, Watch!Write(t) PROVE Sighted'
    BY <1>11 DEF Watch!Write, Watch!Go
<1>12. ASSUME Watch!Barrier PROVE Sighted'
    BY <1>12 DEF Watch!Barrier, Watch!DrainReady, Watch!MarkUnknown, Watch!Go
<1>13. ASSUME Watch!BarrierTakes PROVE Sighted'
    BY <1>13 DEF Watch!BarrierTakes, Watch!Take, Watch!Go
<1>14. ASSUME Watch!Promote PROVE Sighted'
    BY <1>14 DEF Watch!Promote, Watch!Go
<1>15. ASSUME Watch!Promoting PROVE Sighted'
    BY <1>15 DEF Watch!Promoting, Watch!MarkReconciled, Watch!Go
<1>16. ASSUME Watch!Refresh PROVE Sighted'
    BY <1>16 DEF Watch!Refresh, Watch!Go
<1>17. ASSUME Watch!Alarm PROVE Sighted'
    BY <1>17 DEF Watch!Alarm, Watch!Go
<1>18. ASSUME Watch!FlushTakes PROVE Sighted'
    BY <1>18 DEF Watch!FlushTakes, Watch!Take, Watch!Go
<1>19. ASSUME Watch!FlushEnds PROVE Sighted'
    BY <1>19 DEF Watch!FlushEnds, Watch!MarkUnknown, Watch!Go
<1>20. ASSUME NEW t \in Watch!Threads, Watch!SyncFails(t) PROVE Sighted'
    <2>1. SUFFICES ASSUME iwReader', ~blind' PROVE InSight'
        BY DEF Sighted
    <2>2. t = "flush" /\ started
        BY <1>20, <2>1, Zenon DEF Watch!SyncFails
    <2>3. state' = "unknown" /\ generation' = generation + 1 /\ txn' = None /\ UNCHANGED
              <<before, started>>
        BY <1>20 DEF Watch!SyncFails, Watch!MarkUnknown
    <2>4. ~Whole' /\ \A u \in Watch!Threads : ~Unmarked(u)'
        BY <2>2, <2>3 DEF Whole, Unmarked
    <2> QED BY <2>3, <2>4 DEF InSight
<1>21. ASSUME Watch!OtherBegin PROVE Sighted'
    BY <1>21 DEF Watch!OtherBegin
<1>22. ASSUME Watch!OtherCommit PROVE Sighted'
    BY <1>22 DEF Watch!OtherCommit, Watch!Commit
<1>23. CASE UNCHANGED Watch!vars
    BY <1>23 DEF Watch!vars
<1> QED BY <1>1, <1>2, <1>3, <1>4, <1>5, <1>6, <1>7, <1>8, <1>9, <1>10, <1>11, <1>12,
        <1>13, <1>14, <1>15, <1>16, <1>17, <1>18, <1>19, <1>20, <1>21, <1>22, <1>23 DEF
        Watch!Next, Watch!MainStep, Watch!FlushStep, Watch!ThreadStep

LEMMA WatchInit == Watch!BoundAssumption /\ Watch!Init => WatchInv
<1> SUFFICES ASSUME Watch!BoundAssumption, Watch!Init PROVE WatchInv OBVIOUS
<1>1. Watch!TypeOK
    <2>1. \A t \in Watch!Threads : iwPc[t] \in {"first", "wait"}
        BY DEF Watch!Init, Watch!Threads
    <2>2. /\ rec \in [active : BOOLEAN, state : Watch!States, gen : Nat]
          /\ seen \in [Watch!Threads -> Watch!States]
        BY DEF Watch!Init, Watch!States
    <2>3. built \in [iwPaths -> Watch!Version] /\ rows \in [iwPaths -> Watch!Version]
        BY DEF Watch!Init, Watch!Version
    <2>4. /\ {changes, overflows, others, failures} = {0}
          /\ 0 \in 0..MaxChanges /\ 0 \in 0..MaxOverflows
          /\ 0 \in 0..MaxOthers /\ 0 \in 0..MaxFailures
        BY DEF Watch!Init, Watch!BoundAssumption
    <2>5. /\ iwPc \in [Watch!Threads -> {"first", "wait"}]
          /\ paths \in [Watch!Threads -> SUBSET iwPaths]
          /\ before \in [Watch!Threads -> Nat] /\ disk \in [iwPaths -> Nat]
          /\ txn \notin Watch!Threads
        BY DEF Watch!Init, Watch!Threads, Watch!BoundAssumption
    <2> QED BY <2>1, <2>2, <2>3, <2>4, <2>5 DEF Watch!Init, Watch!TypeOK, Watch!States
<1>2. Orderly
    BY DEF Watch!Init, Orderly, FirstSync, Watch!Threads, Watch!BoundAssumption
<1>3. ~Whole /\ txn = None /\ \A t \in Watch!Threads : iwPc[t] \in {"first", "wait"}
    BY DEF Watch!Init, Whole, FirstSync, Watch!Threads
<1> QED BY <1>1, <1>2, <1>3 DEF WatchInv, Sighted, InSight

\* What is in sight is noticed.
LEMMA InSightIsNoticed == WatchInv => Watch!StaleIsNoticedUnlessBlind
<1> SUFFICES ASSUME WatchInv, iwReader, ~blind, state # "unknown", NEW p \in iwPaths,
                    rows[p] # disk[p]
             PROVE  Watch!Noticed(p)
    BY DEF Watch!StaleIsNoticedUnlessBlind, Watch!StaleIsNoticedOnceStarted,
       Watch!StaleIsNoticed, Watch!Noticed
<1>1. Held(p)
    BY DEF WatchInv, Sighted, InSight, Whole
<1> QED BY <1>1 DEF WatchInv, Orderly, Held, Due, Watch!Noticed, Watch!Reconciling

(* While the inotify thread lives and nothing was lost before the main loop    *)
(* began: unless the tracker is unknown, every row is current, or its change   *)
(* is in a queue, in a batch or in the hands of a thread that will read it.    *)
THEOREM WatchInvariant == Watch!BoundAssumption => (Watch!Spec => []WatchInv)
<1> SUFFICES ASSUME Watch!BoundAssumption PROVE Watch!Spec => []WatchInv OBVIOUS
<1>1. Watch!Init => WatchInv BY WatchInit
<1>2. WatchInv /\ [Watch!Next]_Watch!vars => WatchInv'
    BY WatchTypesKept, WatchOrderKept, WatchSightKept DEF WatchInv
<1> QED BY <1>1, <1>2, PTL DEF Watch!Spec

(***************************************************************************)
(* The sum of the parts                                                    *)
(***************************************************************************)
\* What the sum does is, for each part, what the part does by itself.
LEMMA LeaseOfSum == PartSpec => Lease!Spec
<1>1. PartInit => Lease!Init
    BY DEF PartInit
<1>2. [PartNext]_PartVars => [Lease!Next]_Lease!vars
    BY DEF PartNext, PartVars, leaseVars, Lease!vars
<1> QED BY <1>1, <1>2, PTL DEF PartSpec, Lease!Spec

(* What an acquirer will compare with is free, and what a publisher will compare *)
(* with is its own.                                                              *)
THEOREM LeaseIsKept == PartSpec => []LeaseInv
<1>1. Lease!LeaseInv => LeaseInv
    BY DEF LeaseInv
<1> QED BY <1>1, LeaseOfSum, LeaseInvariant, PTL

(* A live watcher is never displaced, with every number of sessions that try to *)
(* acquire at once and any of them dying anywhere.                              *)
THEOREM LeaseIsTakenOnlyWhenFree == PartSpec => TakenOnlyWhenFree
    BY LeaseOfSum, TakenWhenFree DEF TakenOnlyWhenFree

(* A session that lost its lease never writes over its successor, and every *)
(* successor's fence is higher.                                             *)
THEOREM StaleWritersAreFenced == PartSpec => StaleNeverOverwrites
    BY LeaseOfSum, WritersAreFenced DEF StaleNeverOverwrites

\* The same of WatchCoverage,
LEMMA CoverageOfSum == PartSpec => Spec
<1>1. PartInit => Init
    BY DEF PartInit
<1>2. [PartNext]_PartVars => [Next]_vars
    BY DEF PartNext, PartVars
<1> QED BY <1>1, <1>2, PTL DEF PartSpec, Spec

(* The sum inherits what WatchCoverageProofs proves of the coverage: no directory *)
(* of a clean tracker is without its watch,                                       *)
THEOREM SumIsWatched == PartSpec => []AllWatchedUnlessCrossed
    BY PartAssumption, CoverageOfSum, EveryDirectoryIsWatched, PTL

(* ... and no change is missed but in the gap. *)
THEOREM SumMissesNothingElse == PartSpec => []MissedOnlyInGap
    BY PartAssumption, CoverageOfSum, NothingElseIsMissed, PTL

\* ... of ServiceSocket,
LEMMA SocketOfSum == PartSpec => Socket!Spec
<1>1. PartInit => Socket!Init
    BY DEF PartInit
<1>2. [PartNext]_PartVars => [Socket!Next]_Socket!vars
    BY DEF PartNext, PartVars, socketVars, Socket!vars
<1> QED BY <1>1, <1>2, PTL DEF PartSpec, Socket!Spec

(* A server that runs while no other process does is not turned away by what *)
(* crashed, failed and stopped servers have left at the path, and the path   *)
(* leads to it.                                                              *)
THEOREM AServerAloneServes == PartSpec => []AloneItServes
<1>1. SocketInv => AloneItServes
    BY DEF SocketInv, AloneItServes, Socket!AloneItServes
<1> QED BY <1>1, PartAssumption, SocketOfSum, SocketInvariant, PTL

\* ... and of IndexWatch.
LEMMA WatchOfSum == PartSpec => Watch!Spec
<1>1. PartInit => Watch!Init
    BY DEF PartInit
<1>2. [PartNext]_PartVars => [Watch!Next]_Watch!vars
    BY DEF PartNext, PartVars, watchVars, Watch!vars, Watch!files, Watch!kernel,
           Watch!tracker, Watch!store, Watch!locals
<1> QED BY <1>1, <1>2, PTL DEF PartSpec, Watch!Spec

(* While the inotify thread lives and nothing was lost before the main loop    *)
(* began, a map that the watch calls fresh lags in nothing that is out of      *)
(* sight: its event is queued, batched or being reconciled, or its loss is     *)
(* known.                                                                      *)
THEOREM StaleIsInSight == PartSpec => []StaleIsNoticedUnlessBlind
<1>1. WatchInv => StaleIsNoticedUnlessBlind
    BY InSightIsNoticed DEF StaleIsNoticedUnlessBlind
<1> QED BY <1>1, PartAssumption, WatchOfSum, WatchInvariant, PTL

(* The variables of whatever part runs have their types. *)
THEOREM PartsAreTyped == PartSpec => []PartTypes
<1> DEFINE Part == part \in {"lease", "coverage", "watch", "socket"}
<1>1. PartInit => Part
    BY DEF PartInit
<1>2. Part /\ [PartNext]_PartVars => Part'
    BY DEF PartNext, PartVars
<1>3. Part /\ Lease!LeaseInv /\ TypeOK /\ WatchInv /\ SocketInv => PartTypes
    BY DEF PartTypes, Lease!LeaseInv, WatchInv, SocketInv
<1>4. PartSpec => []Lease!LeaseInv /\ []TypeOK /\ []WatchInv /\ []SocketInv
    BY PartAssumption, LeaseOfSum, LeaseInvariant, CoverageOfSum, CoverageTypes,
       WatchOfSum, WatchInvariant, SocketOfSum, SocketInvariant, PTL
<1> QED BY <1>1, <1>2, <1>3, <1>4, PTL DEF PartSpec
===============================================================================
