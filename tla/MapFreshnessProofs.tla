-------------------------- MODULE MapFreshnessProofs --------------------------
(***************************************************************************)
(* FullSealIsFresh for every set of paths and clients.  The invariant is   *)
(* FreshInv: what was read under a generation stands while the generation  *)
(* does.  It is kept because a living daemon answers every change with a   *)
(* new generation, and because the generation a sync seals was sampled     *)
(* before its first read.                                                  *)
(***************************************************************************)
EXTENDS MapFreshness, TLAPS

USE BoundAssumption, NoneAssumption

---------------------------------------------------------------------------
(* Types *)

\* The daemon's side of the types, by the steps that change it.
LEMMA ObserveTypes ==
    ASSUME DaemonTypeOK, Observe, UNCHANGED files
    PROVE  /\ DaemonTypeOK'
           /\ Observed = None \/ Observed \in Nat
           /\ generation' = generation \/ generation' = generation + 1
BY DEF DaemonTypeOK, Observe, Observed, Forgotten, files

LEMMA TypeInit == Init => TypeOK
<1> SUFFICES ASSUME Init PROVE TypeOK
    OBVIOUS
<1>1. DaemonTypeOK
    BY DEF Init, DaemonTypeOK
<1>2. ClientTypeOK
    <2>1. [p \in Paths |-> None] \in [Paths -> Version]
        BY DEF Version
    <2> QED BY <2>1 DEF Init, ClientTypeOK, Version
<1>3. MapTypeOK
    BY DEF Init, MapTypeOK, Version
<1> QED BY <1>1, <1>2, <1>3 DEF TypeOK

LEMMA TypeStep == TypeOK /\ [Next]_vars => TypeOK'
<1> SUFFICES ASSUME TypeOK, [Next]_vars PROVE TypeOK'
    OBVIOUS
<1> USE DEF TypeOK
<1>1. CASE \E p \in Paths : Change(p)
    BY <1>1 DEF Change, DaemonTypeOK, ClientTypeOK, MapTypeOK, map, clients
<1>2. CASE IdentityRead \/ ObserverLost
    <2>1. DaemonTypeOK'
        BY <1>2 DEF IdentityRead, ObserverLost, DaemonTypeOK, files
    <2>2. ClientTypeOK'
        BY <1>2 DEF IdentityRead, ObserverLost, ClientTypeOK, clients
    <2>3. MapTypeOK'
        BY <1>2 DEF IdentityRead, ObserverLost, DaemonTypeOK, MapTypeOK, map
    <2> QED BY <2>1, <2>2, <2>3
<1>3. CASE DaemonStops \/ DaemonStarts
    <2>1. DaemonTypeOK'
        <3>1. up' \in BOOLEAN
            BY <1>3 DEF DaemonStops, DaemonStarts
        <3>2. CASE DaemonStops
            BY <3>1, <3>2 DEF DaemonStops, DaemonTypeOK, files
        <3>3. CASE DaemonStarts
            BY <3>1, <3>3 DEF DaemonStarts, DaemonTypeOK, files
        <3> QED BY <1>3, <3>2, <3>3
    <2>2. ClientTypeOK'
        BY <1>3 DEF DaemonStops, DaemonStarts, ClientTypeOK, clients
    <2>3. MapTypeOK'
        BY <1>3 DEF DaemonStops, DaemonStarts, MapTypeOK, map, history
    <2> QED BY <2>1, <2>2, <2>3
<1>4. ASSUME NEW c \in Clients, ClientStep(c) PROVE TypeOK'
    <2>1. CASE EnsureReady(c)
        <3>1. DaemonTypeOK'
            BY <2>1, ObserveTypes DEF EnsureReady
        <3>2. UNCHANGED clients \/ (\E paths \in SUBSET Paths : Decide(c, paths))
            BY <2>1 DEF EnsureReady, DaemonTypeOK
        <3>3. ClientTypeOK'
            BY <3>2 DEF Decide, ClientTypeOK, clients
        <3>4. MapTypeOK'
            BY <2>1 DEF EnsureReady, MapTypeOK, DaemonTypeOK, map, Forgotten
        <3> QED BY <3>1, <3>3, <3>4
    <2>2. CASE RequestSync(c)
        BY <2>2 DEF RequestSync, Decide, DaemonTypeOK, ClientTypeOK, MapTypeOK,
                    files, daemon, map, history
    <2>3. CASE SyncBegin(c)
        <3>1. DaemonTypeOK'
            BY <2>3, ObserveTypes DEF SyncBegin
        <3>2. Observed \in Version
            BY <2>3, ObserveTypes DEF SyncBegin, Version
        <3>3. ClientTypeOK'
            BY <2>3, <3>2 DEF SyncBegin, ClientTypeOK, DaemonTypeOK, MapTypeOK
        <3>4. MapTypeOK'
            BY <2>3 DEF SyncBegin, MapTypeOK, DaemonTypeOK, map, Forgotten
        <3> QED BY <3>1, <3>3, <3>4
    <2>4. CASE \E p \in Paths : SyncRead(c, p)
        <3>1. PICK p \in Paths : SyncRead(c, p)
            BY <2>4
        <3>2. ClientTypeOK'
            BY <3>1 DEF SyncRead, ClientTypeOK, DaemonTypeOK, Version
        <3> QED
            BY <3>1, <3>2 DEF SyncRead, DaemonTypeOK, MapTypeOK, files, daemon, map, history
    <2>5. CASE SyncSeal(c)
        <3>1. DaemonTypeOK'
            BY <2>5, ObserveTypes DEF SyncSeal
        <3>2. Seal(c) \in Version
            BY DEF Seal, ClientTypeOK, Version
        <3>3. ClientTypeOK'
            BY <2>5 DEF SyncSeal, Leave, ClientTypeOK, Version
        <3>4. MapTypeOK'
            BY <2>5, <3>2 DEF SyncSeal, MapTypeOK, ClientTypeOK, DaemonTypeOK, Forgotten
        <3> QED BY <3>1, <3>3, <3>4
    <2>6. CASE SyncAborts(c)
        BY <2>6 DEF SyncAborts, Leave, DaemonTypeOK, ClientTypeOK, MapTypeOK, Version,
                    files, daemon, map, history
    <2> QED BY <1>4, <2>1, <2>2, <2>3, <2>4, <2>5, <2>6 DEF ClientStep
<1>5. CASE UNCHANGED vars
    BY <1>5 DEF vars, files, daemon, map, clients, history, DaemonTypeOK, ClientTypeOK,
                MapTypeOK
<1> QED BY <1>1, <1>2, <1>3, <1>4, <1>5 DEF Next

\* Every variable keeps its type.
THEOREM MapTypesCorrect == Spec => []TypeOK
BY TypeInit, TypeStep, PTL DEF Spec

---------------------------------------------------------------------------
(* The inductive invariant *)

\* The steps of the repository and the daemon: the map and the clients stand
\* still, and either the generation of the living daemon moves on, or the daemon
\* is gone, or a new one has come.
LEMMA WorldStep ==
    ASSUME FreshInv, UNCHANGED <<map, clients, sLife, sFull>>,
           generation' \in Nat, life' \in Nat,
           \/ life' = life /\ generation' > generation
           \/ life' = life /\ generation' = generation /\ up' = FALSE
           \/ life' > life
    PROVE  GenerationsBehind' /\ ReadStillThere' /\ SealedStillThere'
<1> USE DEF FreshInv, TypeOK
<1>1. GenerationsBehind'
    BY DEF GenerationsBehind, DaemonTypeOK, ClientTypeOK, MapTypeOK, Version, map, clients
<1>2. ReadStillThere'
    BY DEF ReadStillThere, GenerationsBehind, DaemonTypeOK, ClientTypeOK, Version, clients
<1>3. SealedStillThere'
    BY DEF SealedStillThere, GenerationsBehind, DaemonTypeOK, MapTypeOK, Version, map
<1> QED BY <1>1, <1>2, <1>3

\* What an observation does to what is already sealed.
LEMMA SealedKept ==
    ASSUME FreshInv, UNCHANGED <<disk, up, life, map, sLife, sFull>>,
           generation' = generation \/ generation' = generation + 1
    PROVE  /\ sLife' <= life'
           /\ (sealed' # None /\ sLife' = life') => sealed' <= generation'
           /\ SealedStillThere'
BY DEF FreshInv, TypeOK, GenerationsBehind, SealedStillThere, DaemonTypeOK, MapTypeOK,
       Version, map

\* The same of a client that takes no step, or a step that keeps what it read.
ClientBehind(c) ==
    /\ bLife[c] <= life
    /\ pc[c] # "reading" => before[c] = None
    /\ (before[c] # None /\ bLife[c] = life) => before[c] <= generation

ClientStillThere(c) ==
    (up /\ before[c] # None /\ bLife[c] = life /\ before[c] = generation) =>
        \A p \in scope[c] \ todo[c] : built[c][p] = disk[p]

LEMMA ClientKept ==
    ASSUME FreshInv, NEW c \in Clients,
           UNCHANGED <<disk, up, life>>,
           generation' = generation \/ generation' = generation + 1,
           pc'[c] = pc[c], scope'[c] = scope[c], todo'[c] = todo[c],
           before'[c] = before[c], built'[c] = built[c], bLife'[c] = bLife[c]
    PROVE  ClientBehind(c)' /\ ClientStillThere(c)'
BY DEF FreshInv, TypeOK, GenerationsBehind, ReadStillThere, ClientBehind,
       ClientStillThere, DaemonTypeOK, ClientTypeOK, Version

\* A client outside a transaction holds no generation.
LEMMA ClientOutside ==
    ASSUME FreshInv, NEW c \in Clients, before'[c] = None, bLife'[c] <= life'
    PROVE  ClientBehind(c)' /\ ClientStillThere(c)'
BY DEF ClientBehind, ClientStillThere

LEMMA FreshInit == Init => FreshInv
BY TypeInit DEF Init, FreshInv, GenerationsBehind, ReadStillThere, SealedStillThere

\* A client's own steps.
LEMMA ClientStepKeeps ==
    ASSUME FreshInv, NEW c \in Clients, ClientStep(c)
    PROVE  GenerationsBehind' /\ ReadStillThere' /\ SealedStillThere'
<1> DEFINE Others == \A d \in Clients \ {c} :
                        /\ pc'[d] = pc[d] /\ scope'[d] = scope[d] /\ todo'[d] = todo[d]
                        /\ before'[d] = before[d] /\ built'[d] = built[d]
                        /\ bLife'[d] = bLife[d]
           Sealed == /\ sLife' <= life'
                     /\ (sealed' # None /\ sLife' = life') => sealed' <= generation'
                     /\ SealedStillThere'
           Quiet  == /\ UNCHANGED <<disk, up, life>>
                     /\ generation' = generation \/ generation' = generation + 1
<1>1. SUFFICES Quiet /\ Others /\ ClientBehind(c)' /\ ClientStillThere(c)' /\ Sealed
    BY ClientKept DEF GenerationsBehind, ReadStillThere, ClientBehind, ClientStillThere
<1> HIDE DEF Quiet, Others, Sealed
<1>2. /\ TypeOK
      /\ pc[c] # "reading" => before[c] = None
      /\ bLife[c] <= life /\ life \in Nat /\ bLife[c] \in Nat
    BY DEF FreshInv, GenerationsBehind, TypeOK, DaemonTypeOK, ClientTypeOK
<1>3. CASE EnsureReady(c) \/ RequestSync(c)
    <2>1. Quiet /\ UNCHANGED <<map, sLife, sFull, before, built, bLife, todo>>
        BY <1>2, <1>3, ObserveTypes
           DEF EnsureReady, RequestSync, Decide, Quiet, Observe, files, daemon, history,
               clients, TypeOK
    <2>2. Others
        BY <1>2, <1>3 DEF EnsureReady, RequestSync, Decide, Others, TypeOK, ClientTypeOK,
                          clients
    <2>3. before'[c] = None /\ bLife'[c] <= life'
        BY <2>1, <1>2, <1>3 DEF EnsureReady, RequestSync, Quiet
    <2> QED
        BY <2>1, <2>2, <2>3, SealedKept, ClientOutside DEF Quiet, Sealed
<1>4. CASE SyncBegin(c)
    <2>1. Quiet /\ UNCHANGED <<map, sLife, sFull>>
        BY <1>2, <1>4, ObserveTypes DEF SyncBegin, Quiet, Observe, files, TypeOK
    <2>2. Others
        BY <1>2, <1>4 DEF SyncBegin, Others, TypeOK, ClientTypeOK
    <2>3. /\ pc'[c] = "reading" /\ todo'[c] = scope'[c] /\ bLife'[c] = life
          /\ before'[c] = Observed
        BY <1>2, <1>4 DEF SyncBegin, TypeOK, ClientTypeOK
    <2>4. before'[c] # None => before'[c] = generation'
        BY <1>4, <2>3 DEF SyncBegin, Observe, Observed
    <2>5. ClientBehind(c)' /\ ClientStillThere(c)'
        BY <1>2, <2>1, <2>3, <2>4 DEF ClientBehind, ClientStillThere, Quiet, TypeOK, DaemonTypeOK
    <2> QED
        BY <2>1, <2>2, <2>5, SealedKept DEF Quiet, Sealed
<1>5. ASSUME NEW p \in Paths, SyncRead(c, p)
      PROVE  Quiet /\ Others /\ ClientBehind(c)' /\ ClientStillThere(c)' /\ Sealed
    <2>1. Quiet /\ UNCHANGED <<map, sLife, sFull>>
        BY <1>5 DEF SyncRead, Quiet, files, daemon, history
    <2>2. Others
        BY <1>2, <1>5 DEF SyncRead, Others, TypeOK, ClientTypeOK
    <2>3. ClientBehind(c)'
        BY <1>2, <1>5 DEF SyncRead, ClientBehind, FreshInv, GenerationsBehind, daemon
    <2>4. ClientStillThere(c)'
        <3>1. SUFFICES ASSUME up', before'[c] # None, bLife'[c] = life', before'[c] = generation',
                              NEW q \in scope'[c] \ todo'[c]
                       PROVE  built'[c][q] = disk'[q]
            BY DEF ClientStillThere
        <3>2. UNCHANGED <<disk, up, life, generation, before, bLife, scope>>
            BY <1>5 DEF SyncRead, daemon, files
        <3>3. q \in Paths /\ todo'[c] = todo[c] \ {p}
            BY <1>2, <1>5, <3>2 DEF SyncRead, TypeOK, ClientTypeOK
        <3>4. CASE q = p
            BY <1>2, <1>5, <3>2, <3>3, <3>4 DEF SyncRead, TypeOK, ClientTypeOK
        <3>5. CASE q # p
            <4>1. built'[c][q] = built[c][q]
                BY <1>2, <1>5, <3>3, <3>5 DEF SyncRead, TypeOK, ClientTypeOK
            <4> QED
                BY <3>1, <3>2, <3>3, <3>5, <4>1 DEF FreshInv, ReadStillThere
        <3> QED BY <3>4, <3>5
    <2> QED
        BY <2>1, <2>2, <2>3, <2>4, SealedKept DEF Quiet, Sealed
<1>6. CASE SyncSeal(c)
    <2>1. Quiet
        BY <1>2, <1>6, ObserveTypes DEF SyncSeal, Quiet, Observe, files, TypeOK
    <2>2. Others /\ before'[c] = None /\ bLife'[c] = 0
        BY <1>2, <1>6 DEF SyncSeal, Leave, Others, TypeOK, ClientTypeOK
    <2>3. Sealed
        <3>1. /\ sealed' = Seal(c) /\ sLife' = bLife[c] /\ rows' = built[c]
              /\ sFull' = (scope[c] = Paths) /\ todo[c] = {}
            BY <1>6 DEF SyncSeal
        <3>2. ASSUME sealed' # None
              PROVE  sealed' = before[c] /\ before[c] = Observed /\ Observed # None
            BY <3>1, <3>2 DEF Seal
        <3>3. ASSUME sealed' # None, sLife' = life'
              PROVE  generation' = generation /\ sealed' = generation /\ generation \in Nat
            <4>1. before[c] <= generation /\ before[c] \in Nat /\ generation \in Nat
                BY <2>1, <3>1, <3>2, <3>3, <1>2
                   DEF FreshInv, GenerationsBehind, Quiet, TypeOK, ClientTypeOK,
                       DaemonTypeOK, Version
            <4>2. generation' = Observed
                BY <1>6, <3>2, <3>3 DEF SyncSeal, Observe, Observed
            <4> QED BY <2>1, <3>2, <3>3, <4>1, <4>2 DEF Quiet
        <3>4. SealedStillThere'
            <4>1. SUFFICES ASSUME up', sFull', sealed' # None, sLife' = life'
                           PROVE  rows' = disk'
                BY DEF SealedStillThere
            <4>2. \A p \in Paths : built[c][p] = disk[p]
                BY <2>1, <3>1, <3>2, <3>3, <4>1 DEF FreshInv, ReadStillThere, Quiet
            <4>3. built[c] \in [Paths -> Version] /\ disk \in [Paths -> Nat]
                BY <1>2 DEF TypeOK, ClientTypeOK, DaemonTypeOK
            <4> QED BY <2>1, <3>1, <4>2, <4>3 DEF Quiet
        <3>5. sLife' <= life'
            BY <1>2, <2>1, <3>1 DEF Quiet
        <3> QED BY <3>3, <3>4, <3>5 DEF Sealed
    <2> QED
        BY <1>2, <2>1, <2>2, <2>3, ClientOutside DEF Quiet
<1>7. CASE SyncAborts(c)
    <2>1. Quiet /\ UNCHANGED <<map, sLife, sFull>>
        BY <1>7 DEF SyncAborts, Quiet, files, daemon, history
    <2>2. Others /\ before'[c] = None /\ bLife'[c] = 0
        BY <1>2, <1>7 DEF SyncAborts, Leave, Others, TypeOK, ClientTypeOK
    <2> QED
        BY <1>2, <2>1, <2>2, SealedKept, ClientOutside DEF Quiet, Sealed
<1> QED BY <1>1, <1>3, <1>4, <1>5, <1>6, <1>7 DEF ClientStep

LEMMA FreshStep == FreshInv /\ [Next]_vars => FreshInv'
<1> SUFFICES ASSUME FreshInv, [Next]_vars PROVE FreshInv'
    OBVIOUS
<1>1. TypeOK /\ TypeOK'
    BY TypeStep DEF FreshInv
<1>2. generation' \in Nat /\ life' \in Nat /\ generation \in Nat /\ life \in Nat
    BY <1>1 DEF TypeOK, DaemonTypeOK
<1>3. CASE \E p \in Paths : Change(p)
    <2>1. PICK p \in Paths : Change(p)
        BY <1>3
    <2>2. UNCHANGED <<map, clients, sLife, sFull, up, life>>
        BY <2>1 DEF Change
    <2>3. CASE up
        <3>1. generation' = generation + 1
            BY <2>1, <2>3 DEF Change
        <3>2. generation' > generation /\ life' = life
            BY <1>2, <2>2, <3>1
        <3> QED BY <1>1, <1>2, <2>2, <3>2, WorldStep DEF FreshInv
    <2>4. CASE ~up
        <3>1. generation' = generation
            BY <2>1, <2>4 DEF Change
        <3>2. up' = FALSE
            BY <1>1, <2>2, <2>4 DEF TypeOK, DaemonTypeOK
        <3> QED BY <1>1, <1>2, <2>2, <3>1, <3>2, WorldStep DEF FreshInv
    <2> QED BY <2>3, <2>4
<1>4. CASE IdentityRead \/ ObserverLost
    <2>1. UNCHANGED <<map, clients, sLife, sFull, life>> /\ generation' = generation + 1
        BY <1>4 DEF IdentityRead, ObserverLost
    <2>2. generation' > generation /\ life' = life
        BY <1>2, <2>1
    <2> QED BY <1>1, <1>2, <2>1, <2>2, WorldStep DEF FreshInv
<1>5. CASE DaemonStops
    BY <1>1, <1>2, <1>5, WorldStep DEF DaemonStops, FreshInv, history
<1>6. CASE DaemonStarts
    BY <1>1, <1>2, <1>6, WorldStep DEF DaemonStarts, FreshInv
<1>7. CASE \E c \in Clients : ClientStep(c)
    BY <1>1, <1>7, ClientStepKeeps DEF FreshInv
<1>8. CASE UNCHANGED vars
    BY <1>1, <1>8 DEF FreshInv, GenerationsBehind, ReadStillThere, SealedStillThere,
                      vars, files, daemon, map, clients, history
<1> QED BY <1>3, <1>4, <1>5, <1>6, <1>7, <1>8 DEF Next

\* The conjunction the proof carries is an invariant of the map's life.
THEOREM MapInvariant == Spec => []FreshInv
BY FreshInit, FreshStep, PTL DEF Spec

\* A full sync, sealed, is fresh for as long as the daemon that sealed it says
\* so: for every number of files and of CodeMap processes, in every order of
\* their steps, with every loss of the observer and restart of the daemon.
THEOREM SealedMapIsFresh == Spec => []FullSealIsFresh
<1>1. FreshInv => FullSealIsFresh
    BY DEF FreshInv, TypeOK, DaemonTypeOK, MapTypeOK, GenerationsBehind, SealedStillThere,
           FullSealIsFresh, SaysFresh, Observed, Version
<1> QED BY <1>1, MapInvariant, PTL

---------------------------------------------------------------------------
(* What a map that says it is fresh may lag in *)

\* Before the first sync of all.
Unsynced == sealed = None /\ rows = [p \in Paths |-> None]

\* Outside T the rows r are those of the disk, but for paths in D and for paths
\* that the history gives up.
Accounted(r, T, D) ==
    \A p \in Paths \ T : r[p] = disk[p] \/ p \in D \cup dropped \cup raced

\* One transaction is open at a time.
OneReads == \A c, d \in Clients : pc[c] = "reading" /\ pc[d] = "reading" => c = d

\* The daemon's dirty set accounts for what has changed since it was read.
RowsAccounted == up => Unsynced \/ Accounted(rows, {}, dirty)
BuiltAccounted(c) == up /\ pc[c] = "reading" => Accounted(built[c], todo[c], dirty)

\* So does the set an incremental sync was decided on, until the sync begins,
\* of the rows and of those that another client is about to publish.
DecisionAccounted(c) ==
    up /\ pc[c] = "begin" /\ scope[c] # Paths =>
        /\ Accounted(rows, {}, scope[c])
        /\ \A d \in Clients : pc[d] = "reading" => Accounted(built[d], todo[d], scope[c])

\* While the generation of the sync stands, so does what it does not read; and
\* what was sealed under the generation that stands.
BegunAccounted(c) ==
    (up /\ before[c] # None /\ bLife[c] = life /\ before[c] = generation) =>
        Accounted(built[c], scope[c], {})
SealAccounted ==
    (up /\ sealed # None /\ sLife = life /\ sealed = generation) => Accounted(rows, {}, {})

LagInv ==
    /\ FreshInv
    /\ OneReads /\ RowsAccounted /\ SealAccounted
    /\ \A c \in Clients : BuiltAccounted(c) /\ DecisionAccounted(c) /\ BegunAccounted(c)

LEMMA LagInit == Init => LagInv
BY FreshInit DEF Init, LagInv, OneReads, RowsAccounted, Unsynced, SealAccounted,
   BuiltAccounted, DecisionAccounted, BegunAccounted

\* A living daemon's change is marked dirty, and counted as a race for those
\* that have decided; no generation that a client or the map has still stands.
LEMMA LagChange ==
    ASSUME LagInv, NEW q \in Paths, Change(q)
    PROVE  LagInv'
<1>1. FreshInv'
    BY FreshStep DEF LagInv, Next
<1>2. /\ UNCHANGED <<up, life, rows, sealed, pc, scope, todo, before, built, bLife,
                     sLife, sFull, dropped>>
      /\ raced \subseteq raced'
      /\ \A p \in Paths \ {q} : disk'[p] = disk[p]
    BY DEF Change, map, clients, LagInv, FreshInv, TypeOK, DaemonTypeOK, MapTypeOK
<1>3. ASSUME up PROVE q \in dirty' /\ dirty \subseteq dirty' /\ generation' = generation + 1
    BY <1>3 DEF Change
<1>4. Deciding => q \in raced'
    BY DEF Change
<1>5. OneReads'
    BY <1>2 DEF LagInv, OneReads
<1>6. RowsAccounted'
    BY <1>2, <1>3 DEF LagInv, RowsAccounted, Unsynced, Accounted
<1>7. SealAccounted'
    BY <1>2, <1>3 DEF LagInv, FreshInv, TypeOK, SealAccounted, GenerationsBehind,
       DaemonTypeOK, MapTypeOK, Version
<1>8. ASSUME NEW c \in Clients
      PROVE  BuiltAccounted(c)' /\ DecisionAccounted(c)' /\ BegunAccounted(c)'
    <2>1. BuiltAccounted(c)'
        BY <1>2, <1>3 DEF LagInv, BuiltAccounted, Accounted
    <2>2. DecisionAccounted(c)'
        BY <1>2, <1>4 DEF LagInv, DecisionAccounted, Accounted, Deciding
    <2>3. BegunAccounted(c)'
        BY <1>2, <1>3 DEF LagInv, FreshInv, TypeOK, BegunAccounted, GenerationsBehind,
           DaemonTypeOK, ClientTypeOK, Version
    <2> QED BY <2>1, <2>2, <2>3
<1> QED BY <1>1, <1>5, <1>6, <1>7, <1>8 DEF LagInv

\* The daemon forgets its dirty paths; they are given up.
LEMMA LagForgets ==
    ASSUME LagInv, IdentityRead \/ ObserverLost
    PROVE  LagInv'
<1>1. FreshInv'
    BY FreshStep DEF LagInv, Next
<1>2. /\ UNCHANGED <<disk, up, life, rows, sealed, pc, scope, todo, before, built,
                     bLife, sLife, sFull, raced>>
      /\ dropped' = dropped \cup dirty /\ generation' = generation + 1
    BY DEF IdentityRead, ObserverLost, files, map, clients
<1>3. OneReads' /\ RowsAccounted'
    BY <1>2 DEF LagInv, OneReads, RowsAccounted, Unsynced, Accounted
<1>4. SealAccounted'
    BY <1>2 DEF LagInv, FreshInv, TypeOK, SealAccounted, GenerationsBehind,
       DaemonTypeOK, MapTypeOK, Version
<1>5. ASSUME NEW c \in Clients
      PROVE  BuiltAccounted(c)' /\ DecisionAccounted(c)' /\ BegunAccounted(c)'
    <2>1. BuiltAccounted(c)' /\ DecisionAccounted(c)'
        BY <1>2 DEF LagInv, BuiltAccounted, DecisionAccounted, Accounted
    <2>2. BegunAccounted(c)'
        BY <1>2 DEF LagInv, FreshInv, TypeOK, BegunAccounted, GenerationsBehind,
           DaemonTypeOK, ClientTypeOK, Version
    <2> QED BY <2>1, <2>2
<1> QED BY <1>1, <1>3, <1>4, <1>5 DEF LagInv

\* A daemon that is gone says nothing; a new one accounts for nothing, and every
\* path is given up.
LEMMA LagRestarts ==
    ASSUME LagInv, DaemonStops \/ DaemonStarts
    PROVE  LagInv'
<1>1. FreshInv'
    BY FreshStep DEF LagInv, Next
<1>2. UNCHANGED pc
    BY DEF DaemonStops, DaemonStarts, clients
<1>3. ~up' \/ dropped' = Paths
    BY DEF DaemonStops, DaemonStarts
<1> QED
    BY <1>1, <1>2, <1>3 DEF LagInv, OneReads, RowsAccounted, SealAccounted, BuiltAccounted,
       DecisionAccounted, BegunAccounted, Accounted

\* What an observation leaves: nothing is forgotten that is not given up.
LEMMA ObserveAccounts ==
    ASSUME TypeOK, Observe, dropped' = dropped \cup Forgotten
    PROVE  /\ UNCHANGED <<up, life, state>>
           /\ dirty \subseteq dirty' \cup dropped' /\ dropped \subseteq dropped'
           /\ up /\ state # "unknown" => dirty' = dirty
           /\ generation' = generation \/ generation' = generation + 1
           /\ up => Observed = generation'
BY DEF TypeOK, DaemonTypeOK, Observe, Observed, Forgotten

\* A client's step that leaves the map alone, seen from the map and from the
\* other clients.
LEMMA LagAside ==
    ASSUME LagInv, NEW c \in Clients,
           UNCHANGED <<disk, up, life, rows, sealed, sLife, raced>>,
           generation' = generation \/ generation' = generation + 1,
           dropped \subseteq dropped', dirty \subseteq dirty' \cup dropped',
           \A d \in Clients \ {c} :
              /\ pc'[d] = pc[d] /\ scope'[d] = scope[d] /\ todo'[d] = todo[d]
              /\ before'[d] = before[d] /\ built'[d] = built[d] /\ bLife'[d] = bLife[d]
    PROVE  /\ RowsAccounted' /\ SealAccounted'
           /\ \A d \in Clients \ {c} : BuiltAccounted(d)' /\ BegunAccounted(d)'
<1>1. RowsAccounted'
    BY DEF LagInv, RowsAccounted, Unsynced, Accounted
<1>2. SealAccounted'
    BY DEF LagInv, FreshInv, TypeOK, SealAccounted, GenerationsBehind, Accounted,
       DaemonTypeOK, MapTypeOK, Version
<1>3. ASSUME NEW d \in Clients \ {c} PROVE BuiltAccounted(d)' /\ BegunAccounted(d)'
    <2>1. BuiltAccounted(d)'
        BY DEF LagInv, BuiltAccounted, Accounted
    <2>2. BegunAccounted(d)'
        BY DEF LagInv, FreshInv, TypeOK, BegunAccounted, GenerationsBehind, Accounted,
           DaemonTypeOK, ClientTypeOK, Version
    <2> QED BY <2>1, <2>2
<1> QED BY <1>1, <1>2, <1>3

LEMMA LagEnsureReady ==
    ASSUME LagInv, NEW c \in Clients, EnsureReady(c)
    PROVE  LagInv'
<1>1. FreshInv' /\ TypeOK
    BY FreshStep DEF LagInv, FreshInv, Next, ClientStep
<1>2. /\ Observe /\ dropped' = dropped \cup Forgotten /\ pc[c] = "idle"
      /\ UNCHANGED <<disk, rows, sealed, sLife, raced, todo, before, built, bLife>>
      /\ UNCHANGED clients \/ \E paths \in SUBSET Paths : Decide(c, paths)
    BY <1>1 DEF EnsureReady, Decide, clients, files, map, TypeOK, DaemonTypeOK
<1>3. \A d \in Clients \ {c} : pc'[d] = pc[d] /\ scope'[d] = scope[d]
    BY <1>1, <1>2 DEF Decide, clients, TypeOK, ClientTypeOK
<1>4. pc'[c] # "reading" /\ \A d \in Clients : pc'[d] = "reading" => pc[d] = "reading"
    BY <1>1, <1>2, <1>3 DEF Decide, clients, TypeOK, ClientTypeOK
<1>5. OneReads'
    BY <1>4 DEF LagInv, OneReads
<1>6. /\ RowsAccounted' /\ SealAccounted'
      /\ \A d \in Clients \ {c} : BuiltAccounted(d)' /\ BegunAccounted(d)'
    BY <1>1, <1>2, <1>3, ObserveAccounts, LagAside
<1>7. BuiltAccounted(c)' /\ BegunAccounted(c)'
    BY <1>1, <1>2, <1>4 DEF BuiltAccounted, BegunAccounted, LagInv, FreshInv, GenerationsBehind
<1>8. ASSUME NEW d \in Clients PROVE DecisionAccounted(d)'
    <2>1. CASE d # c
        BY <1>1, <1>2, <1>3, <1>4, <2>1, ObserveAccounts
           DEF LagInv, DecisionAccounted, Accounted
    <2>2. CASE d = c
        <3>1. SUFFICES ASSUME up', pc'[c] = "begin", scope'[c] # Paths
                       PROVE  /\ Accounted(rows, {}, scope[c])'
                              /\ \A e \in Clients : pc'[e] = "reading" =>
                                    Accounted(built[e], todo[e], scope[c])'
            BY <1>2, <2>2 DEF DecisionAccounted
        <3>2. up /\ sealed # None /\ state = "dirty" /\ scope'[c] = dirty
            BY <1>1, <1>2, <3>1 DEF EnsureReady, Decide, clients, TypeOK, ClientTypeOK,
               Observe
        <3>3. dropped \subseteq dropped'
            BY <1>2
        <3>4. Accounted(rows, {}, dirty)
            BY <3>2 DEF LagInv, RowsAccounted, Unsynced
        <3>5. \A e \in Clients : pc[e] = "reading" => Accounted(built[e], todo[e], dirty)
            BY <3>2 DEF LagInv, BuiltAccounted
        <3> QED
            BY <1>2, <1>4, <3>2, <3>3, <3>4, <3>5 DEF Accounted
    <2> QED BY <2>1, <2>2
<1> QED BY <1>1, <1>5, <1>6, <1>7, <1>8 DEF LagInv

\* A client that begins a full sync, or gives one up, decides on nothing.
LEMMA LagIdle ==
    ASSUME LagInv, NEW c \in Clients, RequestSync(c) \/ SyncAborts(c)
    PROVE  LagInv'
<1>1. FreshInv' /\ TypeOK
    BY FreshStep DEF LagInv, FreshInv, Next, ClientStep
<1>2. UNCHANGED <<files, daemon, map, history>>
    BY DEF RequestSync, SyncAborts
<1>3. \A d \in Clients \ {c} :
         /\ pc'[d] = pc[d] /\ scope'[d] = scope[d] /\ todo'[d] = todo[d]
         /\ before'[d] = before[d] /\ built'[d] = built[d] /\ bLife'[d] = bLife[d]
    BY <1>1 DEF RequestSync, SyncAborts, Decide, Leave, TypeOK, ClientTypeOK
<1>4. /\ pc'[c] # "reading" /\ before'[c] = None
      /\ pc'[c] = "begin" => scope'[c] = Paths
    BY <1>1 DEF RequestSync, SyncAborts, Decide, Leave, TypeOK, ClientTypeOK, LagInv,
       FreshInv, GenerationsBehind
<1>5. OneReads'
    BY <1>3, <1>4 DEF LagInv, OneReads
<1>6. /\ RowsAccounted' /\ SealAccounted'
      /\ \A d \in Clients \ {c} : BuiltAccounted(d)' /\ BegunAccounted(d)'
    BY <1>2, <1>3, LagAside DEF files, daemon, map, history
<1>7. BuiltAccounted(c)' /\ BegunAccounted(c)'
    BY <1>4 DEF BuiltAccounted, BegunAccounted
<1>8. \A d \in Clients : DecisionAccounted(d)'
    BY <1>2, <1>3, <1>4 DEF LagInv, DecisionAccounted, Accounted, files, daemon, map, history
<1> QED BY <1>1, <1>5, <1>6, <1>7, <1>8 DEF LagInv

\* What the decision accounted for, less the scope, is given up when the sync
\* copies the rows.
LEMMA LagBegin ==
    ASSUME LagInv, NEW c \in Clients, SyncBegin(c)
    PROVE  LagInv'
<1>1. FreshInv' /\ TypeOK
    BY FreshStep DEF LagInv, FreshInv, Next, ClientStep
<1>2. /\ Observe /\ dropped' = dropped \cup Forgotten /\ pc[c] = "begin"
      /\ UNCHANGED <<disk, rows, sealed, sLife, raced, scope>>
      /\ \A d \in Clients : pc[d] # "reading"
    BY DEF SyncBegin, files, map
<1>3. /\ pc'[c] = "reading" /\ todo'[c] = scope[c] /\ built'[c] = rows
      /\ \A d \in Clients \ {c} :
            /\ pc'[d] = pc[d] /\ todo'[d] = todo[d]
            /\ before'[d] = before[d] /\ built'[d] = built[d] /\ bLife'[d] = bLife[d]
    BY <1>1 DEF SyncBegin, TypeOK, ClientTypeOK
<1>4. OneReads'
    BY <1>2, <1>3 DEF OneReads
<1>5. /\ RowsAccounted' /\ SealAccounted'
      /\ \A d \in Clients \ {c} : BuiltAccounted(d)' /\ BegunAccounted(d)'
    BY <1>1, <1>2, <1>3, ObserveAccounts, LagAside
<1>6. up => Accounted(rows, scope[c], {})
    BY <1>1, <1>2 DEF LagInv, DecisionAccounted, Accounted, TypeOK, ClientTypeOK
<1>7. dropped \subseteq dropped' /\ up' = up
    BY <1>1, <1>2, ObserveAccounts
<1>8. BuiltAccounted(c)' /\ BegunAccounted(c)'
    BY <1>2, <1>3, <1>6, <1>7 DEF BuiltAccounted, BegunAccounted, Accounted
<1>9. \A d \in Clients : DecisionAccounted(d)'
    BY <1>2, <1>3, <1>7 DEF LagInv, DecisionAccounted, Accounted
<1> QED BY <1>1, <1>4, <1>5, <1>8, <1>9 DEF LagInv

LEMMA LagRead ==
    ASSUME LagInv, NEW c \in Clients, NEW q \in Paths, SyncRead(c, q)
    PROVE  LagInv'
<1>1. FreshInv' /\ TypeOK
    BY FreshStep DEF LagInv, FreshInv, Next, ClientStep
<1>2. UNCHANGED <<files, daemon, map, history, pc, scope, before, bLife>>
    BY DEF SyncRead
<1>3. /\ built'[c][q] = disk[q] /\ todo'[c] = todo[c] \ {q}
      /\ \A p \in Paths \ {q} : built'[c][p] = built[c][p]
      /\ \A d \in Clients \ {c} : built'[d] = built[d] /\ todo'[d] = todo[d]
    BY <1>1 DEF SyncRead, TypeOK, ClientTypeOK
<1>4. /\ OneReads' /\ RowsAccounted' /\ SealAccounted'
      /\ \A d \in Clients \ {c} : BuiltAccounted(d)' /\ BegunAccounted(d)'
    BY <1>2, <1>3, LagAside DEF LagInv, OneReads, files, daemon, map, history
<1>5. BuiltAccounted(c)' /\ BegunAccounted(c)'
    BY <1>2, <1>3 DEF LagInv, BuiltAccounted, BegunAccounted, Accounted, files, daemon,
       map, history
<1>6. \A d \in Clients : DecisionAccounted(d)'
    BY <1>2, <1>3 DEF LagInv, DecisionAccounted, Accounted, files, daemon, map, history
<1> QED BY <1>1, <1>4, <1>5, <1>6 DEF LagInv

\* A seal publishes what was accounted for.  A full one gives nothing up: its
\* rows are the disk.
LEMMA LagSeal ==
    ASSUME LagInv, NEW c \in Clients, SyncSeal(c)
    PROVE  LagInv'
<1>1. FreshInv' /\ TypeOK
    BY FreshStep DEF LagInv, FreshInv, Next, ClientStep
<1>2. /\ Observe /\ UNCHANGED <<disk, up, life>> /\ pc[c] = "reading" /\ todo[c] = {}
      /\ rows' = built[c] /\ sealed' = Seal(c) /\ sLife' = bLife[c]
    BY DEF SyncSeal, Observe, files
<1>3. /\ pc'[c] = "idle" /\ before'[c] = None
      /\ \A d \in Clients \ {c} :
            /\ pc'[d] = pc[d] /\ scope'[d] = scope[d] /\ todo'[d] = todo[d]
            /\ before'[d] = before[d] /\ built'[d] = built[d] /\ bLife'[d] = bLife[d]
    BY <1>1 DEF SyncSeal, Leave, TypeOK, ClientTypeOK
<1>4. \A d \in Clients : pc'[d] # "reading" /\ before'[d] = None
    BY <1>2, <1>3 DEF LagInv, OneReads, FreshInv, GenerationsBehind
<1>5. OneReads' /\ \A d \in Clients : BuiltAccounted(d)' /\ BegunAccounted(d)'
    BY <1>4 DEF OneReads, BuiltAccounted, BegunAccounted
<1>6. up /\ Seal(c) # None /\ bLife[c] = life =>
         /\ before[c] = generation /\ before[c] # None
         /\ generation' = generation /\ state # "unknown"
    BY <1>1, <1>2 DEF Seal, Observe, Observed, LagInv, FreshInv, GenerationsBehind, TypeOK,
       DaemonTypeOK, ClientTypeOK, Version
<1>7. CASE scope[c] = Paths /\ Seal(c) # None /\ bLife[c] = life
    <2>1. up
        BY <1>7 DEF Seal, Observed
    <2>2. \A p \in Paths : rows'[p] = disk'[p]
        BY <1>2, <1>6, <1>7, <2>1 DEF LagInv, FreshInv, ReadStillThere
    <2>3. RowsAccounted' /\ SealAccounted'
        BY <2>2 DEF RowsAccounted, SealAccounted, Accounted
    <2>4. \A d \in Clients : DecisionAccounted(d)'
        BY <1>4, <2>2 DEF DecisionAccounted, Accounted
    <2> QED BY <1>1, <1>5, <2>3, <2>4 DEF LagInv
<1>8. CASE ~(scope[c] = Paths /\ Seal(c) # None /\ bLife[c] = life)
    <2>1. dropped' = dropped \cup Forgotten /\ raced' = raced
        BY <1>8 DEF SyncSeal
    <2>2. dirty \subseteq dirty' \cup dropped' /\ dropped \subseteq dropped'
        BY <1>1, <1>2, <2>1, ObserveAccounts
    <2>3. RowsAccounted'
        BY <1>2, <2>1, <2>2 DEF LagInv, BuiltAccounted, RowsAccounted, Accounted
    <2>4. SealAccounted'
        <3>1. SUFFICES ASSUME up, Seal(c) # None, bLife[c] = life
                       PROVE  Accounted(rows, {}, {})'
            BY <1>2 DEF SealAccounted
        <3>2. Accounted(built[c], scope[c], {})
            BY <1>6, <3>1 DEF LagInv, BegunAccounted
        <3>3. \A p \in scope[c] : built[c][p] = disk[p]
            BY <1>2, <1>6, <3>1 DEF LagInv, FreshInv, ReadStillThere
        <3> QED BY <1>2, <2>1, <2>2, <3>2, <3>3 DEF Accounted
    <2>5. \A d \in Clients : DecisionAccounted(d)'
        BY <1>2, <1>3, <1>4, <2>1, <2>2 DEF LagInv, DecisionAccounted, Accounted
    <2> QED BY <1>1, <1>5, <2>3, <2>4, <2>5 DEF LagInv
<1> QED BY <1>7, <1>8

LEMMA LagStep == LagInv /\ [Next]_vars => LagInv'
<1> SUFFICES ASSUME LagInv, [Next]_vars PROVE LagInv'
    OBVIOUS
<1>1. CASE \E p \in Paths : Change(p)
    BY <1>1, LagChange
<1>2. CASE IdentityRead \/ ObserverLost
    BY <1>2, LagForgets
<1>3. CASE DaemonStops \/ DaemonStarts
    BY <1>3, LagRestarts
<1>4. ASSUME NEW c \in Clients, ClientStep(c) PROVE LagInv'
    BY <1>4, LagEnsureReady, LagIdle, LagBegin, LagRead, LagSeal DEF ClientStep
<1>5. CASE UNCHANGED vars
    <2>1. FreshInv'
        BY FreshStep DEF LagInv
    <2> QED
        BY <1>5, <2>1 DEF LagInv, OneReads, RowsAccounted, Unsynced, SealAccounted,
           BuiltAccounted, DecisionAccounted, BegunAccounted, Accounted, vars, files,
           daemon, map, clients, history
<1> QED BY <1>1, <1>2, <1>3, <1>4, <1>5 DEF Next

\* Under one daemon a map that says it is fresh lags in nothing but the paths
\* that another reader's reconciliation or a lost observer took out of the
\* daemon's dirty set, and those that changed between a decision and its sync:
\* incremental syncs of any number of processes, in every order.
THEOREM IncrementalLagIsBounded == Spec => []LagsOnlyInDropped
<1>1. LagInv => LagsOnlyInDropped
    BY DEF LagInv, FreshInv, TypeOK, DaemonTypeOK, MapTypeOK, Version, GenerationsBehind,
           SealAccounted, Accounted, LagsOnlyInDropped, SaysFresh, Observed
<1>2. Spec => []LagInv
    BY LagInit, LagStep, PTL DEF Spec
<1> QED BY <1>1, <1>2, PTL
=============================================================================
