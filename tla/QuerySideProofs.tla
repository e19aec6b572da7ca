--------------------------- MODULE QuerySideProofs ---------------------------
(***************************************************************************)
(* SingleFlight and WorktreeOverlay, the parts of MCQuerySide that share   *)
(* nothing with the queries of ContextLane: their theorems, for every      *)
(* value of their constants.  Each part has its inductive invariant, a     *)
(* lemma for each kind of its steps, and its theorems; at the end the sum  *)
(* of the parts is shown to inherit them, and the types of the queries     *)
(* from ContextLaneProofs.                                                 *)
(***************************************************************************)
EXTENDS MCQuerySide, ContextLaneProofs, FiniteSetTheorems, TLAPS

(***************************************************************************)
(* SingleFlight, for every number of threads, attempts and publications.   *)
(* The invariant says who may touch a flight: from the time it is placed   *)
(* until its event is set it has one leader, the slot of its key names it  *)
(* until the leader retires it, and everybody that holds it has its key.   *)
(* So what a flight has read lies between the generation in the keys of    *)
(* its holders and the present one; a session whose generation stands at   *)
(* its exit leaves nothing in between.                                     *)
(***************************************************************************)
Working == {"read", "reread", "retire", "set"}
Placed  == {"read", "reread", "retire"}

\* Somebody works on the flight f.
HasLeader(f) == \E u \in Threads : mine[u] = f /\ sfPc[u] \in Working

\* A thread's generations are in the order in which it has read them.
InTime ==
    \A t \in Threads :
       /\ pin[t] <= generation /\ key[t] <= generation
       /\ sfPc[t] \notin {"idle", "begin", "key"} => pin[t] <= key[t]
       /\ sfPc[t] = "reread" => first[t] \in key[t]..generation

\* A flight has one key and one leader, and its slot names it until it is retired.
Owned ==
    /\ \A t \in Threads : mine[t] # None <=> sfPc[t] \in Working \cup {"wait", "exit"}
    /\ \A t \in Threads : sfPc[t] \in Placed => slot[key[t]] = mine[t]
    /\ \A g \in Flight!Generations : slot[g] # None =>
          \E u \in Threads : mine[u] = slot[g] /\ key[u] = g /\ sfPc[u] \in Placed
    /\ \A t, u \in Threads : mine[t] = mine[u] /\ mine[t] # None =>
          /\ key[t] = key[u]
          /\ sfPc[t] \in Working /\ sfPc[u] \in Working => t = u

Awaited == \A t \in Threads : sfPc[t] = "wait" => flights[mine[t]].event \/ HasLeader(mine[t])

\* What a flight has read is no older than the key of whoever holds it.
Covered(t, r) ==
    \A a, b \in Flight!Generations : r = <<a, b>> => key[t] <= a /\ a <= b /\ b <= generation

Kept ==
    \A t \in Threads : mine[t] # None /\ flights[mine[t]].result # None =>
       Covered(t, flights[mine[t]].result)

Answered ==
    \A t \in Threads : sfAnswer[t] # None => sfPc[t] = "idle" /\ sfAnswer[t] = <<pin[t], pin[t]>>

FlightInv == Flight!TypeOK /\ InTime /\ Owned /\ Awaited /\ Kept /\ Answered

\* As many flights as threads, and a finite number of both.
LEMMA FlightNumbers == Flight!Flights = 1..Cardinality(Threads)
    BY DEF Flight!Flights, Flight!Cardinality, Cardinality
LEMMA FiniteThreads == Flight!FlightAssumption => IsFiniteSet(Threads)
    BY DEF Flight!FlightAssumption, Flight!IsFiniteSet, IsFiniteSet

(***************************************************************************)
(* The flight that a leader takes                                          *)
(***************************************************************************)
\* There is a flight that nobody holds: one thread, at least, has none.
LEMMA SomeFlightIsFree ==
    ASSUME Flight!FlightAssumption, NEW t \in Threads, mine[t] = None
    PROVE  Flight!Flights \ Flight!Held # {}
<1> SUFFICES ASSUME \A f \in Flight!Flights : \E u \in Threads : mine[u] = f
             PROVE  FALSE
    BY DEF Flight!Held
<1> DEFINE Holder == [f \in Flight!Flights |-> CHOOSE u \in Threads : mine[u] = f]
<1>1. Cardinality(Threads) \in Nat /\ IsFiniteSet(Threads)
    BY FiniteThreads, FS_CardinalityType
<1>2. None \notin Flight!Flights
    BY <1>1, FlightNumbers DEF Flight!FlightAssumption
<1>3. \A f \in Flight!Flights : Holder[f] \in Threads /\ mine[Holder[f]] = f
    OBVIOUS
<1>4. Holder \in [Flight!Flights -> Threads \ {t}]
    BY <1>2, <1>3
<1>5. IsFiniteSet(Threads \ {t}) /\ Cardinality(Threads \ {t}) = Cardinality(Threads) - 1
    BY <1>1, FS_RemoveElement
<1>6. IsFiniteSet(Flight!Flights) /\ Cardinality(Flight!Flights) = Cardinality(Threads)
    BY <1>1, <1>5, FS_Interval, FlightNumbers
<1>7. \E x, y \in Flight!Flights : x # y /\ Holder[x] = Holder[y]
    <2> HIDE DEF Holder
    <2> QED BY <1>1, <1>4, <1>5, <1>6, FS_PigeonHole
<1> QED BY <1>3, <1>7

LEMMA LeastOfNat ==
    ASSUME NEW S \in SUBSET Nat, S # {}
    PROVE  \E n \in S : \A m \in S : n <= m
<1> DEFINE Less == {p \in Nat \X Nat : p[1] < p[2]}
<1>1. IsWellFoundedOn(Less, Nat)
    BY NatLessThanWellFounded DEF OpToRel
<1>2. \A T : T \subseteq Nat /\ T # {} => \E x \in T : \A y \in T : <<y, x>> \notin Less
    <2> HIDE DEF Less
    <2> QED BY <1>1, WFMin
<1>3. PICK n \in S : \A m \in S : <<m, n>> \notin Less
    BY <1>2
<1>4. ASSUME NEW m \in S
      PROVE  n <= m
    <2>1. n \in Nat /\ m \in Nat /\ <<m, n>> \in Nat \X Nat /\ <<m, n>> \notin Less
        BY <1>3
    <2>2. ~ (m < n)
        BY <2>1
    <2> QED BY <2>1, <2>2
<1> QED BY <1>4

\* The least of them is one.
LEMMA LeadersFlightIsFree ==
    ASSUME Flight!FlightAssumption, NEW t \in Threads, mine[t] = None
    PROVE  LET f == CHOOSE f \in Flight!Flights \ Flight!Held : \A g \in Flight!Flights \ Flight!Held : f <= g
           IN  f \in Flight!Flights /\ \A u \in Threads : mine[u] # f
<1>1. (Flight!Flights \ Flight!Held) \in SUBSET Nat /\ Flight!Flights \ Flight!Held # {}
    BY SomeFlightIsFree, FiniteThreads, FlightNumbers, FS_CardinalityType
<1>2. \E f \in Flight!Flights \ Flight!Held : \A g \in Flight!Flights \ Flight!Held : f <= g
    BY <1>1, LeastOfNat
<1> QED BY <1>2 DEF Flight!Held

(***************************************************************************)
(* The steps                                                               *)
(***************************************************************************)
LEMMA Bounds ==
    ASSUME Flight!FlightAssumption
    PROVE  /\ Flight!Generations \subseteq Nat /\ 0 \in Flight!Generations /\ 0 \in 0..sfMaxRetries
           /\ None \notin Flight!Flights /\ None \notin Flight!Generations
    BY FiniteThreads, FlightNumbers, FS_CardinalityType DEF Flight!FlightAssumption, Flight!Generations

LEMMA FlightInit == Flight!FlightAssumption /\ Flight!Init => FlightInv
<1> SUFFICES ASSUME Flight!FlightAssumption, Flight!Init
             PROVE  FlightInv
    OBVIOUS
<1>1. Flight!TypeOK
    BY Bounds DEF Flight!Init, Flight!TypeOK, Flight!NewFlight, Flight!Labels
<1>2. InTime
    BY Bounds DEF Flight!Init, InTime
<1>3. Owned
    BY DEF Flight!Init, Owned, Working, Placed
<1>4. Awaited /\ Kept /\ Answered
    BY DEF Flight!Init, Awaited, Kept, Answered
<1> QED BY <1>1, <1>2, <1>3, <1>4 DEF FlightInv

LEMMA PublishKeeps ==
    ASSUME Flight!FlightAssumption, FlightInv, Flight!Publish
    PROVE  FlightInv'
<1> USE Bounds DEF Flight!Publish, Flight!local
<1>1. generation' \in Flight!Generations /\ generation < generation'
    BY DEF FlightInv, Flight!TypeOK, Flight!Generations, Flight!FlightAssumption
<1>2. Flight!TypeOK'
    BY <1>1 DEF FlightInv, Flight!TypeOK
<1>3. InTime'
    <2> SUFFICES ASSUME NEW t \in Threads
                 PROVE  /\ pin[t] <= generation' /\ key[t] <= generation'
                        /\ sfPc[t] \notin {"idle", "begin", "key"} => pin[t] <= key[t]
                        /\ sfPc[t] = "reread" => first[t] \in key[t]..generation'
        BY DEF InTime
    <2>1. generation \in Nat /\ generation' \in Nat /\ pin[t] \in Nat /\ key[t] \in Nat
        BY <1>1 DEF FlightInv, Flight!TypeOK
    <2> QED BY <1>1, <2>1 DEF FlightInv, InTime
<1>4. Owned' /\ Awaited' /\ Answered'
    BY DEF FlightInv, Owned, Awaited, HasLeader, Answered
<1>5. Kept'
    <2> SUFFICES ASSUME NEW t \in Threads, NEW r, Covered(t, r)
                 PROVE  Covered(t, r)'
        BY DEF FlightInv, Kept
    <2> QED BY <1>1 DEF Covered, FlightInv, Flight!TypeOK
<1> QED BY <1>2, <1>3, <1>4, <1>5 DEF FlightInv

\* A step before the flight: the thread holds none, and nobody notices.
LEMMA AsideKeeps ==
    ASSUME Flight!FlightAssumption, FlightInv, NEW t \in Threads, Flight!Call(t) \/ Flight!Begin(t) \/ Flight!MakeKey(t)
    PROVE  FlightInv'
<1> USE Bounds DEF Flight!Go, Flight!local
<1>1. mine[t] = None /\ UNCHANGED <<generation, slot, flights, mine, first>>
    BY DEF Flight!Call, Flight!Begin, Flight!MakeKey, FlightInv, Owned, Working
<1>2. /\ sfPc[t] \in {"idle", "begin", "key"} /\ sfPc' = [sfPc EXCEPT ![t] = sfPc'[t]]
      /\ sfPc'[t] \in {"begin", "key", "enter"}
      /\ \A u \in Threads \ {t} : pin'[u] = pin[u] /\ key'[u] = key[u] /\ sfAnswer'[u] = sfAnswer[u]
    BY DEF Flight!Call, Flight!Begin, Flight!MakeKey, FlightInv, Flight!TypeOK
<1>3. Flight!TypeOK'
    BY DEF Flight!Call, Flight!Begin, Flight!MakeKey, FlightInv, Flight!TypeOK, Flight!Labels
<1>4. InTime'
    <2>1. generation \in Nat /\ pin[t] \in Nat /\ key[t] \in Nat
        BY DEF FlightInv, Flight!TypeOK
    <2>2. pin'[t] <= generation /\ key'[t] <= generation /\ (sfPc'[t] = "enter" => pin'[t] <= key'[t])
        BY <2>1 DEF Flight!Call, Flight!Begin, Flight!MakeKey, FlightInv, Flight!TypeOK, InTime
    <2> QED BY <1>1, <1>2, <2>2 DEF FlightInv, Flight!TypeOK, InTime
<1>5. Owned'
    <2>1. \A u \in Threads : sfPc[u] \in Placed <=> sfPc'[u] \in Placed
        BY <1>2 DEF FlightInv, Flight!TypeOK, Placed
    <2>2. \A u \in Threads : sfPc[u] \in Working <=> sfPc'[u] \in Working
        BY <1>2 DEF FlightInv, Flight!TypeOK, Working
    <2>3. \A u \in Threads : mine'[u] # None <=> sfPc'[u] \in Working \cup {"wait", "exit"}
        BY <1>1, <1>2, <2>2 DEF FlightInv, Flight!TypeOK, Owned, Working
    <2>4. \A u \in Threads : mine[u] # None => key'[u] = key[u]
        BY <1>1, <1>2
    <2>5. \A u \in Threads : sfPc[u] \in Placed => mine[u] # None
        BY DEF FlightInv, Owned, Placed, Working
    <2> QED BY <1>1, <2>1, <2>2, <2>3, <2>4, <2>5 DEF FlightInv, Owned
<1>6. Awaited'
    BY <1>1, <1>2 DEF FlightInv, Flight!TypeOK, Awaited, HasLeader, Working
<1>7. Kept'
    BY <1>1, <1>2 DEF FlightInv, Kept, Covered
<1>8. Answered'
    <2>1. sfAnswer'[t] = None
        BY DEF Flight!Call, Flight!Begin, Flight!MakeKey, FlightInv, Flight!TypeOK, Answered
    <2> QED BY <1>2, <2>1 DEF FlightInv, Flight!TypeOK, Answered
<1> QED BY <1>3, <1>4, <1>5, <1>6, <1>7, <1>8 DEF FlightInv

\* A thread without a flight becomes the leader of one that nobody holds.
LEMMA LeadKeeps ==
    ASSUME Flight!FlightAssumption, FlightInv, NEW t \in Threads, Flight!Enter(t), slot[key[t]] = None
    PROVE  FlightInv'
<1> USE Bounds
<1> DEFINE f == CHOOSE f \in Flight!Flights \ Flight!Held : \A g \in Flight!Flights \ Flight!Held : f <= g
<1>1. mine[t] = None /\ sfPc[t] = "enter" /\ key[t] \in Flight!Generations
    BY DEF Flight!Enter, FlightInv, Flight!TypeOK, Owned, Working
<1>2. f \in Flight!Flights /\ \A u \in Threads : mine[u] # f
    BY <1>1, LeadersFlightIsFree
<1>3. /\ flights' = [flights EXCEPT ![f] = Flight!NewFlight] /\ slot' = [slot EXCEPT ![key[t]] = f]
      /\ mine' = [mine EXCEPT ![t] = f] /\ sfPc' = [sfPc EXCEPT ![t] = "read"]
      /\ UNCHANGED <<generation, pin, key, first, sfTries, sfAnswer>>
    BY DEF Flight!Enter, Flight!Lead, Flight!Go
<1> HIDE DEF f
<1>4. Flight!TypeOK'
    BY <1>1, <1>2, <1>3 DEF FlightInv, Flight!TypeOK, Flight!Labels, Flight!NewFlight
<1>5. InTime'
    BY <1>1, <1>3 DEF FlightInv, Flight!TypeOK, InTime
<1>6. /\ mine'[t] = f /\ sfPc'[t] = "read" /\ slot'[key[t]] = f
      /\ \A u \in Threads \ {t} : mine'[u] = mine[u] /\ sfPc'[u] = sfPc[u]
      /\ \A g \in Flight!Generations \ {key[t]} : slot'[g] = slot[g]
    BY <1>1, <1>3 DEF FlightInv, Flight!TypeOK
<1>7. \A u \in Threads : sfPc[u] \in Placed => key[u] # key[t] /\ key[u] \in Flight!Generations
    BY DEF FlightInv, Flight!TypeOK, Owned, Placed, Working
<1>8. Owned'
    <2>1. \A u \in Threads : mine'[u] # None <=> sfPc'[u] \in Working \cup {"wait", "exit"}
        BY <1>2, <1>6 DEF FlightInv, Owned, Working
    <2>2. \A u \in Threads : sfPc'[u] \in Placed => slot'[key'[u]] = mine'[u]
        BY <1>3, <1>6, <1>7 DEF FlightInv, Owned
    <2>3. \A g \in Flight!Generations : slot'[g] # None =>
              \E u \in Threads : mine'[u] = slot'[g] /\ key'[u] = g /\ sfPc'[u] \in Placed
        <3> SUFFICES ASSUME NEW g \in Flight!Generations, slot'[g] # None
                     PROVE  \E u \in Threads : mine'[u] = slot'[g] /\ key'[u] = g /\ sfPc'[u] \in Placed
            OBVIOUS
        <3>1. CASE g = key[t]
            BY <3>1, <1>3, <1>6 DEF Placed
        <3>2. CASE g # key[t]
            <4>1. PICK u \in Threads : mine[u] = slot[g] /\ key[u] = g /\ sfPc[u] \in Placed
                BY <3>2, <1>6 DEF FlightInv, Owned
            <4> QED BY <3>2, <4>1, <1>1, <1>3, <1>6
        <3> QED BY <3>1, <3>2
    <2>4. \A u, v \in Threads : mine'[u] = mine'[v] /\ mine'[u] # None =>
              /\ key'[u] = key'[v]
              /\ sfPc'[u] \in Working /\ sfPc'[v] \in Working => u = v
        BY <1>2, <1>3, <1>6 DEF FlightInv, Owned
    <2> QED BY <2>1, <2>2, <2>3, <2>4 DEF Owned
<1>9. Awaited'
    <2> SUFFICES ASSUME NEW u \in Threads, sfPc[u] = "wait", u # t
                 PROVE  flights'[mine[u]].event \/ HasLeader(mine[u])'
        BY <1>6 DEF Awaited, HasLeader
    <2>1. mine[u] \in Flight!Flights /\ mine[u] # f
        BY <1>2 DEF FlightInv, Flight!TypeOK, Owned
    <2>2. CASE flights[mine[u]].event
        BY <2>1, <2>2, <1>3 DEF FlightInv, Flight!TypeOK
    <2>3. CASE HasLeader(mine[u])
        <3>1. PICK v \in Threads : mine[v] = mine[u] /\ sfPc[v] \in Working
            BY <2>3 DEF HasLeader
        <3>2. v # t
            BY <3>1, <2>1, <1>1
        <3> QED BY <3>1, <3>2, <1>6 DEF HasLeader
    <2> QED BY <2>2, <2>3 DEF FlightInv, Awaited
<1>10. Kept'
    <2> SUFFICES ASSUME NEW u \in Threads, NEW r, r = flights'[mine'[u]].result,
                        mine'[u] # None, r # None
                 PROVE  Covered(u, r)'
        BY DEF Kept
    <2>1. u # t /\ mine'[u] = mine[u]
        BY <1>2, <1>3, <1>6 DEF FlightInv, Flight!TypeOK, Flight!NewFlight
    <2>2. flights'[mine[u]] = flights[mine[u]]
        BY <2>1, <1>2, <1>3 DEF FlightInv, Flight!TypeOK
    <2>3. Covered(u, r)
        BY <2>1, <2>2 DEF FlightInv, Kept
    <2> QED BY <2>3, <1>3 DEF Covered
<1>11. Answered'
    BY <1>1, <1>3 DEF FlightInv, Flight!TypeOK, Answered
<1> QED BY <1>4, <1>5, <1>8, <1>9, <1>10, <1>11 DEF FlightInv

\* Or a follower of the one that its slot names.
LEMMA FollowKeeps ==
    ASSUME Flight!FlightAssumption, FlightInv, NEW t \in Threads, Flight!Enter(t), slot[key[t]] # None
    PROVE  FlightInv'
<1> USE Bounds
<1>1. mine[t] = None /\ sfPc[t] = "enter" /\ key[t] \in Flight!Generations
    BY DEF Flight!Enter, FlightInv, Flight!TypeOK, Owned, Working
<1>2. /\ mine' = [mine EXCEPT ![t] = slot[key[t]]] /\ sfPc' = [sfPc EXCEPT ![t] = "wait"]
      /\ UNCHANGED <<generation, slot, flights, pin, key, first, sfTries, sfAnswer>>
    BY DEF Flight!Enter, Flight!Go
<1>3. PICK w \in Threads : mine[w] = slot[key[t]] /\ key[w] = key[t] /\ sfPc[w] \in Placed
    BY <1>1 DEF Flight!Enter, FlightInv, Owned
<1>4. /\ mine'[t] = mine[w] /\ mine[w] # None /\ sfPc'[t] = "wait" /\ w # t
      /\ \A u \in Threads \ {t} : mine'[u] = mine[u] /\ sfPc'[u] = sfPc[u]
    BY <1>1, <1>2, <1>3 DEF FlightInv, Flight!TypeOK, Placed
<1>5. Flight!TypeOK'
    BY <1>1, <1>2 DEF FlightInv, Flight!TypeOK, Flight!Labels
<1>6. InTime'
    BY <1>1, <1>2 DEF FlightInv, Flight!TypeOK, InTime
<1>7. Owned'
    <2>1. \A u \in Threads : mine'[u] # None <=> sfPc'[u] \in Working \cup {"wait", "exit"}
        BY <1>4 DEF FlightInv, Owned, Working
    <2>2. \A u \in Threads : sfPc'[u] \in Placed => slot'[key'[u]] = mine'[u]
        BY <1>2, <1>4 DEF FlightInv, Owned, Placed
    <2>3. \A g \in Flight!Generations : slot'[g] # None =>
              \E u \in Threads : mine'[u] = slot'[g] /\ key'[u] = g /\ sfPc'[u] \in Placed
        BY <1>1, <1>2, <1>4 DEF FlightInv, Owned, Placed
    <2>4. \A u, v \in Threads : mine'[u] = mine'[v] /\ mine'[u] # None =>
              /\ key'[u] = key'[v]
              /\ sfPc'[u] \in Working /\ sfPc'[v] \in Working => u = v
        BY <1>2, <1>3, <1>4 DEF FlightInv, Owned, Working
    <2> QED BY <2>1, <2>2, <2>3, <2>4 DEF Owned
<1>8. Awaited'
    BY <1>1, <1>2, <1>3, <1>4 DEF FlightInv, Awaited, HasLeader, Working, Placed
<1>9. Kept'
    <2> SUFFICES ASSUME NEW u \in Threads, NEW r, r = flights[mine'[u]].result,
                        mine'[u] # None, r # None
                 PROVE  Covered(u, r)'
        BY <1>2 DEF Kept
    <2>1. PICK v \in Threads : mine'[u] = mine[v] /\ key[u] = key[v]
        BY <1>3, <1>4
    <2>2. Covered(v, r)
        BY <2>1 DEF FlightInv, Kept
    <2> QED BY <2>1, <2>2, <1>2 DEF Covered
<1>10. Answered'
    BY <1>1, <1>2 DEF FlightInv, Flight!TypeOK, Answered
<1> QED BY <1>5, <1>6, <1>7, <1>8, <1>9, <1>10 DEF FlightInv

\* A leader at work: its flight is still in its slot, and no event is set.
LEMMA WorkKeeps ==
    ASSUME Flight!FlightAssumption, FlightInv, NEW t \in Threads, Flight!Read(t) \/ Flight!Reread(t) \/ Flight!Raise(t)
    PROVE  FlightInv'
<1> USE Bounds DEF Flight!Go, Flight!local
<1>1. /\ sfPc[t] \in {"read", "reread"} /\ mine[t] \in Flight!Flights
      /\ UNCHANGED <<generation, slot, pin, key, mine, sfTries, sfAnswer>>
    BY DEF Flight!Read, Flight!Reread, Flight!Raise, FlightInv, Flight!TypeOK, Owned, Working
<1>2. /\ sfPc' = [sfPc EXCEPT ![t] = sfPc'[t]] /\ sfPc'[t] \in {"reread", "retire"}
      /\ \A u \in Threads \ {t} : sfPc'[u] = sfPc[u] /\ first'[u] = first[u]
    BY DEF Flight!Read, Flight!Reread, Flight!Raise, FlightInv, Flight!TypeOK
<1>3. sfPc[t] = "reread" => first[t] \in Flight!Generations /\ key[t] <= first[t] /\ first[t] <= generation
    BY DEF FlightInv, Flight!TypeOK, InTime, Flight!Generations, Flight!FlightAssumption
<1>4. Flight!TypeOK'
    <2>1. generation \in Flight!Generations
        BY DEF FlightInv, Flight!TypeOK
    <2>2. CASE Flight!Read(t)
        BY <2>1, <2>2 DEF Flight!Read, FlightInv, Flight!TypeOK, Flight!Labels
    <2>3. CASE Flight!Reread(t)
        BY <2>1, <2>3, <1>1, <1>3 DEF Flight!Reread, FlightInv, Flight!TypeOK, Flight!Labels, Flight!Results
    <2>4. CASE Flight!Raise(t)
        BY <2>4, <1>1 DEF Flight!Raise, FlightInv, Flight!TypeOK, Flight!Labels
    <2> QED BY <2>2, <2>3, <2>4
<1>5. InTime'
    <2>1. sfPc'[t] = "reread" => first'[t] = generation
        BY DEF Flight!Read, Flight!Reread, Flight!Raise, FlightInv, Flight!TypeOK
    <2>2. key[t] <= generation /\ pin[t] <= key[t] /\ key[t] \in Nat /\ generation \in Nat
        BY <1>1 DEF FlightInv, Flight!TypeOK, InTime
    <2> QED BY <2>1, <2>2, <1>1, <1>2 DEF FlightInv, InTime
<1>6. /\ \A u \in Threads : sfPc'[u] \in Placed <=> sfPc[u] \in Placed
      /\ \A u \in Threads : sfPc'[u] \in Working <=> sfPc[u] \in Working
      /\ \A u \in Threads : sfPc'[u] \in {"wait", "exit"} <=> sfPc[u] \in {"wait", "exit"}
    BY <1>1, <1>2 DEF Placed, Working
<1>7. Owned'
    BY <1>1, <1>6 DEF FlightInv, Owned
<1>8. Awaited'
    <2>1. \A f \in Flight!Flights : flights'[f].event = flights[f].event
        BY <1>1 DEF Flight!Read, Flight!Reread, Flight!Raise, FlightInv, Flight!TypeOK
    <2>2. \A u \in Threads : sfPc'[u] = "wait" => sfPc[u] = "wait" /\ mine[u] \in Flight!Flights
        BY <1>2 DEF FlightInv, Flight!TypeOK, Owned
    <2> QED BY <2>1, <2>2, <1>1, <1>6 DEF FlightInv, Awaited, HasLeader
<1>9. Kept'
    <2> SUFFICES ASSUME NEW u \in Threads, NEW r, r = flights'[mine[u]].result,
                        mine[u] # None, r # None
                 PROVE  Covered(u, r)'
        BY <1>1 DEF Kept
    <2>1. mine[u] \in Flight!Flights
        BY DEF FlightInv, Flight!TypeOK
    <2>2. CASE r = flights[mine[u]].result
        BY <2>2, <1>1 DEF FlightInv, Kept, Covered
    <2>3. CASE r # flights[mine[u]].result
        <3>1. Flight!Reread(t) /\ mine[u] = mine[t] /\ r = <<first[t], generation>>
            BY <2>1, <2>3, <1>1 DEF Flight!Read, Flight!Reread, Flight!Raise, FlightInv, Flight!TypeOK
        <3>2. key[u] = key[t]
            BY <3>1, <1>1 DEF FlightInv, Owned
        <3>3. sfPc[t] = "reread" /\ generation <= generation
            BY <3>1 DEF Flight!Reread, FlightInv, Flight!TypeOK
        <3> QED BY <3>1, <3>2, <3>3, <1>1, <1>3 DEF Covered
    <2> QED BY <2>2, <2>3
<1>10. Answered'
    BY <1>1, <1>2 DEF FlightInv, Answered
<1> QED BY <1>4, <1>5, <1>7, <1>8, <1>9, <1>10 DEF FlightInv

\* Only the leader's own slot named its flight.
LEMMA RetireKeeps ==
    ASSUME Flight!FlightAssumption, FlightInv, NEW t \in Threads, Flight!Retire(t)
    PROVE  FlightInv'
<1> USE Bounds DEF Flight!Go, Flight!local
<1>1. /\ sfPc[t] = "retire" /\ mine[t] \in Flight!Flights /\ key[t] \in Flight!Generations
      /\ sfPc' = [sfPc EXCEPT ![t] = "set"] /\ slot' = [slot EXCEPT ![key[t]] = None]
      /\ UNCHANGED <<generation, flights, pin, key, mine, first, sfTries, sfAnswer>>
    BY DEF Flight!Retire, FlightInv, Flight!TypeOK, Owned, Working
<1>2. /\ sfPc'[t] = "set" /\ \A u \in Threads \ {t} : sfPc'[u] = sfPc[u]
      /\ slot'[key[t]] = None /\ \A g \in Flight!Generations \ {key[t]} : slot'[g] = slot[g]
    BY <1>1 DEF FlightInv, Flight!TypeOK
<1>3. Flight!TypeOK'
    BY <1>1 DEF FlightInv, Flight!TypeOK, Flight!Labels
<1>4. InTime'
    BY <1>1 DEF FlightInv, Flight!TypeOK, InTime
<1>5. \A u \in Threads \ {t} : sfPc[u] \in Placed => key[u] # key[t]
    <2>1. \A u \in Threads : sfPc[u] \in Placed => slot[key[u]] = mine[u]
        BY DEF FlightInv, Owned
    <2>2. sfPc[t] \in Placed /\ sfPc[t] \in Working /\ Placed \subseteq Working
        BY <1>1 DEF Placed, Working
    <2> QED BY <1>1, <2>1, <2>2 DEF FlightInv, Owned
<1>6. \A u \in Threads : sfPc'[u] \in Working <=> sfPc[u] \in Working
    BY <1>1, <1>2 DEF Working
<1>7. Owned'
    <2>1. \A u \in Threads : mine'[u] # None <=> sfPc'[u] \in Working \cup {"wait", "exit"}
        BY <1>1, <1>2, <1>6 DEF FlightInv, Owned
    <2>2. \A u \in Threads : sfPc'[u] \in Placed => slot'[key'[u]] = mine'[u]
        <3>1. \A u \in Threads : sfPc'[u] \in Placed => u # t /\ sfPc[u] \in Placed
            BY <1>1, <1>2 DEF Placed
        <3> QED BY <3>1, <1>1, <1>2, <1>5 DEF FlightInv, Flight!TypeOK, Owned
    <2>3. \A g \in Flight!Generations : slot'[g] # None =>
              \E u \in Threads : mine'[u] = slot'[g] /\ key'[u] = g /\ sfPc'[u] \in Placed
        <3> SUFFICES ASSUME NEW g \in Flight!Generations, slot'[g] # None
                     PROVE  \E u \in Threads : mine[u] = slot[g] /\ key[u] = g /\ sfPc'[u] \in Placed
            BY <1>1, <1>2
        <3>1. g # key[t] /\ slot[g] # None
            BY <1>2
        <3>2. PICK u \in Threads : mine[u] = slot[g] /\ key[u] = g /\ sfPc[u] \in Placed
            BY <3>1 DEF FlightInv, Owned
        <3> QED BY <3>1, <3>2, <1>2
    <2>4. \A u, v \in Threads : mine'[u] = mine'[v] /\ mine'[u] # None =>
              /\ key'[u] = key'[v]
              /\ sfPc'[u] \in Working /\ sfPc'[v] \in Working => u = v
        BY <1>1, <1>6 DEF FlightInv, Owned
    <2> QED BY <2>1, <2>2, <2>3, <2>4 DEF Owned
<1>8. Awaited'
    BY <1>1, <1>2, <1>6 DEF FlightInv, Awaited, HasLeader
<1>9. Kept' /\ Answered'
    BY <1>1, <1>2 DEF FlightInv, Kept, Covered, Answered
<1> QED BY <1>3, <1>4, <1>7, <1>8, <1>9 DEF FlightInv

\* The leader stops working when its followers need it no more.
LEMMA SetKeeps ==
    ASSUME Flight!FlightAssumption, FlightInv, NEW t \in Threads, Flight!Set(t)
    PROVE  FlightInv'
<1> USE Bounds DEF Flight!Go, Flight!local
<1>1. /\ sfPc[t] = "set" /\ mine[t] \in Flight!Flights /\ sfPc' = [sfPc EXCEPT ![t] = "exit"]
      /\ flights' = [flights EXCEPT ![mine[t]].event = TRUE]
      /\ UNCHANGED <<generation, slot, pin, key, mine, first, sfTries, sfAnswer>>
    BY DEF Flight!Set, FlightInv, Flight!TypeOK, Owned, Working
<1>2. sfPc'[t] = "exit" /\ \A u \in Threads \ {t} : sfPc'[u] = sfPc[u]
    BY <1>1 DEF FlightInv, Flight!TypeOK
<1>3. /\ flights'[mine[t]].event
      /\ \A f \in Flight!Flights : /\ flights'[f].result = flights[f].result
                            /\ flights[f].event => flights'[f].event
    BY <1>1 DEF FlightInv, Flight!TypeOK
<1>4. Flight!TypeOK'
    BY <1>1 DEF FlightInv, Flight!TypeOK, Flight!Labels
<1>5. InTime'
    BY <1>1 DEF FlightInv, Flight!TypeOK, InTime
<1>6. \A u \in Threads : sfPc'[u] \in Placed <=> sfPc[u] \in Placed
    BY <1>1, <1>2 DEF Placed
<1>7. \A u \in Threads : sfPc'[u] \in Working => sfPc[u] \in Working
    BY <1>2 DEF Working
<1>8. Owned'
    <2>1. \A u \in Threads : mine[u] # None <=> sfPc'[u] \in Working \cup {"wait", "exit"}
        BY <1>1, <1>2 DEF FlightInv, Owned, Working
    <2> QED BY <2>1, <1>1, <1>6, <1>7 DEF FlightInv, Owned
<1>9. Awaited'
    <2> SUFFICES ASSUME NEW u \in Threads, sfPc[u] = "wait"
                 PROVE  flights'[mine[u]].event \/ HasLeader(mine[u])'
        BY <1>1, <1>2 DEF Awaited
    <2>1. mine[u] \in Flight!Flights
        BY DEF FlightInv, Flight!TypeOK, Owned
    <2>2. CASE mine[u] = mine[t]
        BY <2>2, <1>3
    <2>3. CASE mine[u] # mine[t]
        BY <2>1, <2>3, <1>1, <1>2, <1>3 DEF FlightInv, Awaited, HasLeader
    <2> QED BY <2>2, <2>3
<1>10. Kept'
    BY <1>1, <1>3 DEF FlightInv, Flight!TypeOK, Kept, Covered
<1>11. Answered'
    BY <1>1, <1>2 DEF FlightInv, Answered
<1> QED BY <1>4, <1>5, <1>8, <1>9, <1>10, <1>11 DEF FlightInv

LEMMA WaitKeeps ==
    ASSUME Flight!FlightAssumption, FlightInv, NEW t \in Threads, Flight!Wait(t)
    PROVE  FlightInv'
<1> USE DEF Flight!Go, Flight!local
<1>1. /\ sfPc[t] = "wait" /\ sfPc' = [sfPc EXCEPT ![t] = "exit"]
      /\ UNCHANGED <<generation, slot, flights, pin, key, mine, first, sfTries, sfAnswer>>
    BY DEF Flight!Wait
<1>2. sfPc'[t] = "exit" /\ \A u \in Threads \ {t} : sfPc'[u] = sfPc[u]
    BY <1>1 DEF FlightInv, Flight!TypeOK
<1>3. /\ \A u \in Threads : sfPc'[u] \in Placed <=> sfPc[u] \in Placed
      /\ \A u \in Threads : sfPc'[u] \in Working <=> sfPc[u] \in Working
    BY <1>1, <1>2 DEF Placed, Working
<1>4. Flight!TypeOK' /\ InTime'
    BY <1>1 DEF FlightInv, Flight!TypeOK, Flight!Labels, InTime
<1>5. Owned'
    <2>1. \A u \in Threads : mine[u] # None <=> sfPc'[u] \in Working \cup {"wait", "exit"}
        BY <1>1, <1>2, <1>3 DEF FlightInv, Owned
    <2> QED BY <2>1, <1>1, <1>3 DEF FlightInv, Owned
<1>6. Awaited'
    BY <1>1, <1>2, <1>3 DEF FlightInv, Awaited, HasLeader
<1>7. Kept' /\ Answered'
    BY <1>1, <1>2 DEF FlightInv, Kept, Covered, Answered
<1> QED BY <1>4, <1>5, <1>6, <1>7 DEF FlightInv

\* A session whose generation stands is answered with a reading of just that one.
LEMMA GoodAnswers ==
    ASSUME Flight!FlightAssumption, FlightInv, NEW t \in Threads, sfPc[t] = "exit", Flight!Good(t),
           flights[mine[t]].result # None
    PROVE  flights[mine[t]].result = <<pin[t], pin[t]>>
<1>1. mine[t] \in Flight!Flights
    BY DEF FlightInv, Flight!TypeOK, Owned
<1>2. PICK a \in Flight!Generations, b \in Flight!Generations : flights[mine[t]].result = <<a, b>>
    <2>1. flights[mine[t]].result \in Flight!Results
        BY <1>1 DEF FlightInv, Flight!TypeOK
    <2> QED BY <2>1 DEF Flight!Results
<1>3. key[t] <= a /\ a <= b /\ b <= generation
    <2>1. mine[t] # None /\ flights[mine[t]].result # None
        BY <1>1, Bounds
    <2>2. Covered(t, flights[mine[t]].result)
        BY <2>1 DEF FlightInv, Kept
    <2> QED BY <1>2, <2>2 DEF Covered
<1>4. pin[t] <= key[t] /\ generation = pin[t]
    BY DEF Flight!Good, FlightInv, InTime
<1>5. {a, b, pin[t], key[t], generation} \subseteq Nat
    BY Bounds DEF FlightInv, Flight!TypeOK
<1>6. a = pin[t] /\ b = pin[t]
    BY <1>3, <1>4, <1>5
<1> QED BY <1>2, <1>6

\* Whoever still holds the flight keeps it as it is.
LEMMA ExitKeeps ==
    ASSUME Flight!FlightAssumption, FlightInv, NEW t \in Threads, Flight!Exit(t)
    PROVE  FlightInv'
<1> USE Bounds DEF Flight!Go
<1>1. /\ sfPc[t] = "exit" /\ mine[t] \in Flight!Flights
      /\ mine' = [mine EXCEPT ![t] = None] /\ first' = [first EXCEPT ![t] = None]
      /\ UNCHANGED <<generation, slot, pin, key>>
    BY DEF Flight!Exit, FlightInv, Flight!TypeOK, Owned, Working
<1>2. /\ sfPc'[t] \in {"begin", "idle"} /\ mine'[t] = None
      /\ \A u \in Threads \ {t} : sfPc'[u] = sfPc[u] /\ mine'[u] = mine[u] /\ first'[u] = first[u]
    BY <1>1 DEF Flight!Exit, FlightInv, Flight!TypeOK
<1>3. \A u \in Threads \ {t} : mine[u] # None => flights'[mine[u]] = flights[mine[u]]
    <2> SUFFICES ASSUME NEW u \in Threads \ {t}, mine[u] # None
                 PROVE  flights'[mine[u]] = flights[mine[u]]
        OBVIOUS
    <2>1. mine[u] \in Flight!Flights
        BY DEF FlightInv, Flight!TypeOK
    <2> QED BY <2>1, <1>1 DEF Flight!Exit, FlightInv, Flight!TypeOK
<1>4. Flight!TypeOK'
    <2>1. flights' \in [Flight!Flights -> [event : BOOLEAN, result : Flight!Results \cup {None}, error : BOOLEAN]]
        BY <1>1 DEF Flight!Exit, FlightInv, Flight!TypeOK, Flight!NewFlight
    <2>2. sfPc' \in [Threads -> Flight!Labels]
        BY DEF Flight!Exit, FlightInv, Flight!TypeOK, Flight!Labels
    <2>3. sfTries' \in [Threads -> 0..sfMaxRetries]
        BY DEF Flight!Exit, FlightInv, Flight!TypeOK, Flight!FlightAssumption
    <2>4. sfAnswer' \in [Threads -> Flight!Results \cup {None}]
        BY <1>1 DEF Flight!Exit, FlightInv, Flight!TypeOK
    <2> QED BY <2>1, <2>2, <2>3, <2>4, <1>1 DEF FlightInv, Flight!TypeOK
<1>5. InTime'
    BY <1>1, <1>2 DEF FlightInv, InTime
<1>6. /\ \A u \in Threads : sfPc'[u] \in Placed <=> sfPc[u] \in Placed
      /\ \A u \in Threads : sfPc'[u] \in Working <=> sfPc[u] \in Working
    BY <1>1, <1>2 DEF Placed, Working
<1>7. Owned'
    <2>1. \A u \in Threads : mine'[u] # None <=> sfPc'[u] \in Working \cup {"wait", "exit"}
        BY <1>2 DEF FlightInv, Owned, Working
    <2>2. \A u \in Threads : sfPc'[u] \in Placed => slot'[key'[u]] = mine'[u]
        BY <1>1, <1>2, <1>6 DEF FlightInv, Owned, Placed
    <2>3. \A g \in Flight!Generations : slot'[g] # None =>
              \E u \in Threads : mine'[u] = slot'[g] /\ key'[u] = g /\ sfPc'[u] \in Placed
        BY <1>1, <1>2, <1>6 DEF FlightInv, Owned, Placed
    <2>4. \A u, v \in Threads : mine'[u] = mine'[v] /\ mine'[u] # None =>
              /\ key'[u] = key'[v]
              /\ sfPc'[u] \in Working /\ sfPc'[v] \in Working => u = v
        BY <1>1, <1>2, <1>6 DEF FlightInv, Owned
    <2> QED BY <2>1, <2>2, <2>3, <2>4 DEF Owned
<1>8. Awaited'
    <2> SUFFICES ASSUME NEW u \in Threads, u # t, sfPc[u] = "wait"
                 PROVE  flights'[mine'[u]].event \/ \E w \in Threads : mine'[w] = mine'[u] /\ sfPc'[w] \in Working
        BY <1>2 DEF Awaited, HasLeader
    <2>1. mine[u] # None /\ mine'[u] = mine[u] /\ flights'[mine[u]] = flights[mine[u]]
        BY <1>2, <1>3 DEF FlightInv, Owned
    <2>2. CASE flights[mine[u]].event
        BY <2>1, <2>2
    <2>3. CASE HasLeader(mine[u])
        <3>1. PICK w \in Threads : mine[w] = mine[u] /\ sfPc[w] \in Working
            BY <2>3 DEF HasLeader
        <3>2. w # t
            BY <3>1, <1>1 DEF Working
        <3> QED BY <3>1, <3>2, <2>1, <1>2
    <2> QED BY <2>2, <2>3 DEF FlightInv, Awaited
<1>9. Kept'
    <2> SUFFICES ASSUME NEW u \in Threads, NEW r, r = flights'[mine'[u]].result,
                        mine'[u] # None, r # None
                 PROVE  Covered(u, r)'
        BY DEF Kept
    <2>1. u # t /\ mine'[u] = mine[u] /\ r = flights[mine[u]].result
        BY <1>2, <1>3
    <2>2. Covered(u, r)
        BY <2>1 DEF FlightInv, Kept
    <2> QED BY <2>2, <1>1 DEF Covered
<1>10. Answered'
    <2>1. \A u \in Threads \ {t} : sfAnswer'[u] = sfAnswer[u]
        BY DEF Flight!Exit, FlightInv, Flight!TypeOK
    <2>2. CASE Flight!Good(t)
        <3>1. sfAnswer'[t] = flights[mine[t]].result /\ sfPc'[t] = "idle"
            BY <2>2, <1>1 DEF Flight!Exit, FlightInv, Flight!TypeOK
        <3>2. sfAnswer'[t] # None => sfAnswer'[t] = <<pin[t], pin[t]>>
            BY <3>1, <2>2, <1>1, GoodAnswers
        <3> QED BY <3>1, <3>2, <2>1, <1>1, <1>2 DEF FlightInv, Answered
    <2>3. CASE ~Flight!Good(t)
        <3>1. sfAnswer'[t] = None
            BY <2>3, <1>1 DEF Flight!Exit, FlightInv, Answered
        <3> QED BY <3>1, <2>1, <1>1, <1>2 DEF FlightInv, Answered
    <2> QED BY <2>2, <2>3
<1> QED BY <1>4, <1>5, <1>7, <1>8, <1>9, <1>10 DEF FlightInv

LEMMA FlightStep == Flight!FlightAssumption /\ FlightInv /\ [Flight!Next]_Flight!vars => FlightInv'
<1> SUFFICES ASSUME Flight!FlightAssumption, FlightInv, [Flight!Next]_Flight!vars
             PROVE  FlightInv'
    OBVIOUS
<1>1. CASE Flight!Publish
    BY <1>1, PublishKeeps
<1>2. CASE \E t \in Threads : Flight!Call(t) \/ Flight!Begin(t) \/ Flight!MakeKey(t)
    BY <1>2, AsideKeeps
<1>3. CASE \E t \in Threads : Flight!Enter(t)
    BY <1>3, LeadKeeps, FollowKeeps
<1>4. CASE \E t \in Threads : Flight!Read(t) \/ Flight!Reread(t) \/ Flight!Raise(t)
    BY <1>4, WorkKeeps
<1>5. CASE \E t \in Threads : Flight!Retire(t) \/ Flight!Set(t) \/ Flight!Wait(t) \/ Flight!Exit(t)
    BY <1>5, RetireKeeps, SetKeeps, WaitKeeps, ExitKeeps
<1>6. CASE UNCHANGED Flight!vars
    BY <1>6 DEF Flight!vars, Flight!local, FlightInv, Flight!TypeOK, InTime, Owned, Awaited, HasLeader, Kept,
                Covered, Answered
<1> QED BY <1>1, <1>2, <1>3, <1>4, <1>5, <1>6 DEF Flight!Next, Flight!Step

(***************************************************************************)
(* The theorems                                                            *)
(***************************************************************************)
(* The variables have their types, a flight has one key and one leader, and  *)
(* what it has read is no older than the keys of those that hold it.         *)
THEOREM FlightInvariant == Flight!FlightAssumption => (Flight!Spec => [](Flight!TypeOK /\ FlightInv))
<1>1. SUFFICES ASSUME Flight!FlightAssumption
               PROVE  Flight!Spec => [](Flight!TypeOK /\ FlightInv)
    OBVIOUS
<1>2. Flight!Init => FlightInv
    BY <1>1, FlightInit
<1>3. FlightInv /\ [Flight!Next]_Flight!vars => FlightInv'
    BY <1>1, FlightStep
<1>4. FlightInv => Flight!TypeOK /\ FlightInv
    BY DEF FlightInv
<1> QED BY <1>2, <1>3, <1>4, PTL DEF Flight!Spec

(* A call is answered with readings of the generation that its own session   *)
(* began with.                                                               *)
THEOREM AnswersOfOneGeneration == Flight!FlightAssumption => (Flight!Spec => []Flight!OneGeneration)
<1>1. SUFFICES ASSUME Flight!FlightAssumption
               PROVE  Flight!Spec => []Flight!OneGeneration
    OBVIOUS
<1>2. Flight!Spec => [](Flight!TypeOK /\ FlightInv)
    BY <1>1, FlightInvariant
<1>3. FlightInv => Flight!OneGeneration
    BY DEF FlightInv, Answered, Awaited, HasLeader, Working, Flight!OneGeneration
<1> QED BY <1>2, <1>3, PTL

(***************************************************************************)
(* WorktreeOverlay.  The base of a generation is one: whoever has bound    *)
(* the overlay to a generation that still stands knows what the base says. *)
(* So what find_task reads of the base while its session's generation      *)
(* stands is of the publication that the overlay is bound to.              *)
(***************************************************************************)
\* The publication b is not of the future, and the present one's base is known.
Published(b) == b # None => b.gen <= ovGen /\ (b.gen = ovGen => b.print = base)

Finding == {"require", "expect", "overlay", "hits", "again", "return"}

\* What find_task has read of p: of the overlay, or of the base if it has not moved.
Merged(p) ==
    /\ rows[p] # None => ovRead[p] = rows[p]
    /\ rows[p] = None /\ p \in changed => ovRead[p] = None
    /\ rows[p] = None /\ p \notin changed /\ session = ovGen => ovRead[p] = base[p]

FindKept ==
    /\ ovPc \in Finding => bound # None
    /\ ovPc \in {"overlay", "hits", "again", "return"} => session = bound.gen
    /\ ovPc \in {"hits", "again", "return"} => \A p \in Paths \ todo : Merged(p)
    /\ ovPc \in {"again", "return"} => todo = {}

OverlayInv ==
    /\ Overlay!TypeOK
    /\ base = Overlay!NoRows => ovGen < ovMaxGeneration
    /\ Published(bound) /\ Published(authority)
    /\ FindKept
    /\ ovAnswer # None => ovPc = "idle" /\ Overlay!AnswersOfOneBase

LEMMA OverlayInit == Overlay!OverlayAssumption /\ Overlay!Init => OverlayInv
<1> SUFFICES ASSUME Overlay!OverlayAssumption, Overlay!Init
             PROVE  OverlayInv
    OBVIOUS
<1> USE DEF Overlay!OverlayAssumption, Overlay!Init
<1>1. Overlay!TypeOK
    BY DEF Overlay!TypeOK, Overlay!Files, Overlay!NoRows
<1>2. base # Overlay!NoRows
    <2>1. PICK p \in Paths : TRUE
        OBVIOUS
    <2>2. base[p] # None /\ Overlay!NoRows[p] = None
        BY <2>1 DEF Overlay!NoRows
    <2> QED BY <2>2
<1> QED BY <1>1, <1>2 DEF OverlayInv, Published, FindKept, Finding

\* The base moves only with its generation.
BaseMoves ==
    \/ UNCHANGED <<base, ovGen>>
    \/ base' \in Overlay!Files /\ ovGen' = ovGen + 1

LEMMA PublishedStays ==
    ASSUME Overlay!TypeOK, NEW b, b = None \/ b.gen \in 1..ovMaxGeneration, Published(b), BaseMoves
    PROVE  b # None => b.gen <= ovGen' /\ (b.gen = ovGen' => b.print = base')
    BY DEF Published, BaseMoves, Overlay!TypeOK

\* What moves outside of the worker: nothing that it holds becomes untrue.
LEMMA WorldMoves ==
    ASSUME Overlay!OverlayAssumption, OverlayInv, BaseMoves, ovGen' \in 1..ovMaxGeneration,
           base' = Overlay!NoRows => ovGen' < ovMaxGeneration,
           tree' \in Overlay!Files, edits' \in 0..ovMaxEdits,
           UNCHANGED <<rows, changed, bound, ovPc, asked, authority, session, ovRead, todo,
                       ovAnswer, life>>
    PROVE  OverlayInv'
<1>1. base' \in Overlay!Files
    BY DEF OverlayInv, BaseMoves, Overlay!TypeOK
<1>2. Overlay!TypeOK'
    BY <1>1 DEF OverlayInv, Overlay!TypeOK, Overlay!Files
<1>3. Published(bound)' /\ Published(authority)'
    BY PublishedStays DEF OverlayInv, Published, Overlay!TypeOK
<1>4. FindKept'
    <2>1. ASSUME ovPc \in {"hits", "again", "return"}, session = ovGen'
          PROVE  session = ovGen /\ base' = base
        <3>1. session = bound.gen /\ bound # None /\ bound.gen <= ovGen /\ ovGen \in Nat
            BY <2>1 DEF OverlayInv, FindKept, Finding, Published, Overlay!TypeOK
        <3> QED BY <2>1, <3>1 DEF BaseMoves
    <2>2. \A p \in Paths : ovPc \in {"hits", "again", "return"} /\ Merged(p) => Merged(p)'
        BY <2>1 DEF Merged
    <2> QED BY <2>2 DEF OverlayInv, FindKept
<1>5. (ovAnswer # None => ovPc = "idle" /\ Overlay!AnswersOfOneBase)'
    BY DEF OverlayInv, Overlay!AnswersOfOneBase
<1>6. (base = Overlay!NoRows => ovGen < ovMaxGeneration)'
    BY DEF Overlay!NoRows
<1> QED BY <1>2, <1>3, <1>4, <1>5, <1>6 DEF OverlayInv

LEMMA OutsideKeeps ==
    ASSUME Overlay!OverlayAssumption, OverlayInv,
           \/ \E p \in Paths : Overlay!Edit(p)
           \/ Overlay!Publish \/ Overlay!Clear
    PROVE  OverlayInv'
<1> USE DEF Overlay!worker, Overlay!Advance
<1>1. ovGen \in 1..ovMaxGeneration /\ base \in Overlay!Files /\ ovMaxGeneration \in Nat /\ ovMaxEdits \in Nat
    BY DEF OverlayInv, Overlay!TypeOK, Overlay!OverlayAssumption
<1>2. CASE \E p \in Paths : Overlay!Edit(p)
    <2>1. /\ tree' \in Overlay!Files /\ edits' \in 0..ovMaxEdits /\ UNCHANGED <<base, ovGen>>
          /\ UNCHANGED <<rows, changed, bound, ovPc, asked, authority, session, ovRead, todo,
                         ovAnswer, life>>
        BY <1>1, <1>2 DEF Overlay!Edit, OverlayInv, Overlay!TypeOK, Overlay!Files
    <2> QED BY <2>1, <1>1, WorldMoves DEF BaseMoves, OverlayInv
<1>3. CASE Overlay!Publish \/ Overlay!Clear
    <2>1. /\ base' \in Overlay!Files /\ ovGen' = ovGen + 1 /\ ovGen' \in 1..ovMaxGeneration
          /\ base' = Overlay!NoRows => ovGen' < ovMaxGeneration
          /\ UNCHANGED <<tree, edits, rows, changed, bound, ovPc, asked, authority, session,
                         ovRead, todo, ovAnswer, life>>
        BY <1>1, <1>3 DEF Overlay!Publish, Overlay!Clear, Overlay!Files, Overlay!NoRows
    <2> QED BY <2>1, WorldMoves DEF BaseMoves, OverlayInv, Overlay!TypeOK
<1> QED BY <1>2, <1>3

\* A map without files is built before it is used.
LEMMA ReadyBuilds ==
    ASSUME Overlay!OverlayAssumption, OverlayInv, Overlay!Ready
    PROVE  BaseMoves /\ base' \in Overlay!Files /\ base' # Overlay!NoRows
           /\ ovGen' \in 1..ovMaxGeneration
    BY DEF Overlay!OverlayAssumption, Overlay!Ready, Overlay!Advance, BaseMoves, OverlayInv,
           Overlay!TypeOK

\* A call that raises leaves the overlay as it was.
LEMMA RaiseKeeps ==
    ASSUME Overlay!OverlayAssumption, OverlayInv, Overlay!Done,
           BaseMoves, ovGen' \in 1..ovMaxGeneration, base' = Overlay!NoRows => ovGen' < ovMaxGeneration,
           ovPc # "idle", UNCHANGED <<tree, edits, rows, changed, bound, ovAnswer, life>>
    PROVE  OverlayInv'
<1>1. base' \in Overlay!Files
    BY DEF OverlayInv, BaseMoves, Overlay!TypeOK
<1>2. Overlay!TypeOK'
    BY <1>1 DEF OverlayInv, Overlay!TypeOK, Overlay!Done, Overlay!Files, Overlay!NoRows,
                Overlay!OverlayAssumption
<1>3. Published(bound)' /\ Published(authority)'
    BY PublishedStays DEF OverlayInv, Published, Overlay!TypeOK, Overlay!Done
<1>4. FindKept'
    BY DEF Overlay!Done, FindKept, Finding
<1>5. ovAnswer' = None
    BY DEF OverlayInv
<1> QED BY <1>2, <1>3, <1>4, <1>5 DEF OverlayInv, Overlay!NoRows

(***************************************************************************)
(* sync                                                                    *)
(***************************************************************************)
\* A step of sync has nothing to do with find_task: what it leaves typed is kept.
LEMMA SyncAside ==
    ASSUME Overlay!OverlayAssumption, OverlayInv, Overlay!TypeOK',
           ovPc' \in {"enter", "bind", "index", "recheck", "leave"},
           BaseMoves, base' = Overlay!NoRows => ovGen' < ovMaxGeneration,
           Published(authority)', ovAnswer' = None, UNCHANGED bound
    PROVE  OverlayInv'
<1>1. Published(bound)'
    BY PublishedStays DEF OverlayInv, Published, Overlay!TypeOK
<1>2. FindKept'
    BY DEF FindKept, Finding
<1> QED BY <1>1, <1>2 DEF OverlayInv, Overlay!NoRows

LEMMA SyncKeeps ==
    ASSUME Overlay!OverlayAssumption, OverlayInv,
           \/ \E c \in SUBSET Paths : Overlay!Sync(c)
           \/ Overlay!SyncEnter \/ Overlay!SyncBind
           \/ \E p \in Paths : Overlay!SyncRead(p)
           \/ Overlay!SyncCommit \/ Overlay!SyncCheck \/ Overlay!SyncLeave
    PROVE  OverlayInv'
<1> USE DEF Overlay!world, Overlay!worker
<1>1. /\ Overlay!TypeOK /\ Published(authority)
      /\ base = Overlay!NoRows => ovGen < ovMaxGeneration
      /\ ovPc # "idle" => ovAnswer = None
    BY DEF OverlayInv
<1>2. CASE \E c \in SUBSET Paths : Overlay!Sync(c)
    <2>1. /\ ovPc' = "enter" /\ ovAnswer' = None
          /\ UNCHANGED <<base, ovGen, bound, authority>>
        BY <1>2 DEF Overlay!Sync
    <2>2. Overlay!TypeOK'
        BY <1>1, <1>2 DEF Overlay!Sync, Overlay!TypeOK, Overlay!Files
    <2> QED BY <2>1, <2>2, <1>1, SyncAside DEF BaseMoves, Published
<1>3. CASE Overlay!SyncEnter
    <2>1. /\ BaseMoves /\ base' \in Overlay!Files /\ base' # Overlay!NoRows
          /\ ovGen' \in 1..ovMaxGeneration
        BY <1>3, ReadyBuilds DEF Overlay!SyncEnter
    <2>2. /\ ovPc' = "bind" /\ session' = ovGen' /\ ovAnswer' = None
          /\ UNCHANGED <<tree, edits, rows, changed, bound, asked, authority, ovRead, todo, life>>
        BY <1>1, <1>3 DEF Overlay!SyncEnter
    <2>3. Overlay!TypeOK'
        BY <2>1, <2>2, <1>1 DEF Overlay!TypeOK, Overlay!Files
    <2>4. Published(authority)'
        BY <2>1, <2>2, <1>1, PublishedStays DEF Published, Overlay!TypeOK
    <2> QED BY <2>1, <2>2, <2>3, <2>4, SyncAside
<1>4. CASE Overlay!SyncBind
    <2>1. CASE base # Overlay!NoRows
        <3>1. /\ ovPc' = "index" /\ authority' = [gen |-> ovGen, print |-> base] /\ todo' = asked
              /\ UNCHANGED <<base, ovGen, tree, edits, rows, changed, bound, asked, session,
                             ovRead, life, ovAnswer>>
            BY <1>4, <2>1 DEF Overlay!SyncBind
        <3>2. Overlay!TypeOK'
            BY <3>1, <1>1 DEF Overlay!TypeOK, Overlay!Files
        <3>3. Published(authority)'
            BY <3>1, <1>1 DEF Published, Overlay!TypeOK
        <3>4. ovAnswer' = None
            BY <3>1, <1>1, <1>4 DEF Overlay!SyncBind
        <3> QED BY <3>1, <3>2, <3>3, <3>4, <1>1, SyncAside DEF BaseMoves
    <2>2. CASE base = Overlay!NoRows
        BY <1>1, <1>4, <2>2, RaiseKeeps DEF Overlay!SyncBind, BaseMoves, Overlay!TypeOK
    <2> QED BY <2>1, <2>2
<1>5. CASE \E p \in Paths : Overlay!SyncRead(p)
    <2>1. /\ ovPc' = "index" /\ ovAnswer' = None
          /\ UNCHANGED <<base, ovGen, bound, authority>>
        BY <1>1, <1>5 DEF Overlay!SyncRead
    <2>2. Overlay!TypeOK'
        BY <1>1, <1>5 DEF Overlay!SyncRead, Overlay!TypeOK, Overlay!Files
    <2> QED BY <2>1, <2>2, <1>1, SyncAside DEF BaseMoves, Published
<1>6. CASE Overlay!SyncCommit
    <2>1. /\ ovPc' = "recheck" /\ ovAnswer' = None
          /\ UNCHANGED <<base, ovGen, bound, authority>>
        BY <1>1, <1>6 DEF Overlay!SyncCommit
    <2>2. Overlay!TypeOK'
        BY <1>1, <1>6 DEF Overlay!SyncCommit, Overlay!TypeOK, Overlay!Files
    <2> QED BY <2>1, <2>2, <1>1, SyncAside DEF BaseMoves, Published
<1>7. CASE Overlay!SyncCheck
    <2>1. CASE ovPc' = "leave"
        <3>1. /\ ovAnswer' = None
              /\ UNCHANGED <<base, ovGen, tree, edits, rows, changed, bound, asked, authority,
                             session, ovRead, todo, life>>
            BY <1>1, <1>7, <2>1 DEF Overlay!SyncCheck, Overlay!Done
        <3>2. Overlay!TypeOK'
            BY <3>1, <2>1, <1>1 DEF Overlay!TypeOK, Overlay!Files
        <3> QED BY <3>1, <3>2, <2>1, <1>1, SyncAside DEF BaseMoves, Published
    <2>2. CASE ovPc' # "leave"
        BY <1>1, <1>7, <2>2, RaiseKeeps DEF Overlay!SyncCheck, BaseMoves, Overlay!TypeOK
    <2> QED BY <2>1, <2>2
<1>8. CASE Overlay!SyncLeave
    <2>1. CASE session = ovGen
        <3>1. /\ changed' = asked /\ bound' = authority /\ ovAnswer' = None /\ Overlay!Done
              /\ UNCHANGED <<base, ovGen, tree, edits, rows, life>>
            BY <1>1, <1>8, <2>1 DEF Overlay!SyncLeave
        <3>2. Overlay!TypeOK'
            BY <3>1, <1>1 DEF Overlay!TypeOK, Overlay!Done, Overlay!Files, Overlay!NoRows,
                              Overlay!OverlayAssumption
        <3>3. Published(bound)' /\ Published(authority)' /\ FindKept'
            BY <3>1, <1>1 DEF Published, Overlay!Done, FindKept, Finding
        <3> QED BY <3>1, <3>2, <3>3, <1>1 DEF OverlayInv, Overlay!NoRows
    <2>2. CASE session # ovGen
        BY <1>1, <1>8, <2>2, RaiseKeeps DEF Overlay!SyncLeave, BaseMoves, Overlay!TypeOK
    <2> QED BY <2>1, <2>2
<1> QED BY <1>2, <1>3, <1>4, <1>5, <1>6, <1>7, <1>8

(***************************************************************************)
(* find_task                                                               *)
(***************************************************************************)
\* A step of find_task that goes on leaves the bindings as they are.
LEMMA FindAside ==
    ASSUME Overlay!OverlayAssumption, OverlayInv, Overlay!TypeOK', FindKept',
           BaseMoves, base' = Overlay!NoRows => ovGen' < ovMaxGeneration,
           ovAnswer' = None, UNCHANGED <<bound, authority>>
    PROVE  OverlayInv'
<1>1. Published(bound)' /\ Published(authority)'
    BY PublishedStays DEF OverlayInv, Published, Overlay!TypeOK
<1> QED BY <1>1 DEF OverlayInv, Overlay!NoRows

\* It begins only while the overlay's publication stands.
LEMMA FindBeginKeeps ==
    ASSUME Overlay!OverlayAssumption, OverlayInv,
           Overlay!Find \/ Overlay!Require \/ Overlay!Expect \/ Overlay!FindOverlay
    PROVE  OverlayInv'
<1> USE DEF Overlay!world, Overlay!worker
<1>1. /\ Overlay!TypeOK /\ FindKept
      /\ base = Overlay!NoRows => ovGen < ovMaxGeneration
      /\ ovPc # "idle" => ovAnswer = None
    BY DEF OverlayInv
<1>2. CASE Overlay!Find
    <2>1. /\ ovPc' = "require" /\ bound # None /\ ovAnswer' = None
          /\ UNCHANGED <<base, ovGen, bound, authority>>
        BY <1>2 DEF Overlay!Find
    <2>2. Overlay!TypeOK'
        BY <1>1, <1>2 DEF Overlay!Find, Overlay!TypeOK, Overlay!Files
    <2>3. FindKept'
        BY <2>1 DEF FindKept, Finding
    <2> QED BY <2>1, <2>2, <2>3, <1>1, FindAside DEF BaseMoves
<1>3. CASE Overlay!Require
    <2>1. /\ BaseMoves /\ base' \in Overlay!Files /\ base' # Overlay!NoRows
          /\ ovGen' \in 1..ovMaxGeneration
        BY <1>3, ReadyBuilds DEF Overlay!Require
    <2>2. /\ ovPc = "require" /\ bound # None /\ ovAnswer' = None
          /\ UNCHANGED <<tree, edits, rows, changed, bound, ovAnswer, life>>
        BY <1>1, <1>3 DEF Overlay!Require, FindKept, Finding
    <2>3. CASE ovPc' = "expect"
        <3>1. UNCHANGED <<asked, authority, session, ovRead, todo>>
            BY <1>3, <2>3 DEF Overlay!Require, Overlay!Done
        <3>2. Overlay!TypeOK'
            BY <3>1, <2>1, <2>2, <2>3, <1>1 DEF Overlay!TypeOK, Overlay!Files
        <3>3. FindKept'
            BY <2>2, <2>3 DEF FindKept, Finding
        <3> QED BY <3>1, <3>2, <3>3, <2>1, <2>2, FindAside
    <2>4. CASE ovPc' # "expect"
        BY <1>3, <2>1, <2>2, <2>4, RaiseKeeps DEF Overlay!Require
    <2> QED BY <2>3, <2>4
<1>4. CASE Overlay!Expect
    <2>1. /\ BaseMoves /\ base' \in Overlay!Files /\ base' # Overlay!NoRows
          /\ ovGen' \in 1..ovMaxGeneration
        BY <1>4, ReadyBuilds DEF Overlay!Expect
    <2>2. /\ ovPc = "expect" /\ bound # None /\ ovAnswer' = None
          /\ UNCHANGED <<tree, edits, rows, changed, bound, ovAnswer, life>>
        BY <1>1, <1>4 DEF Overlay!Expect, FindKept, Finding
    <2>3. CASE ovPc' = "overlay"
        <3>1. ovGen' = bound.gen /\ session' = ovGen' /\ UNCHANGED <<asked, authority, ovRead, todo>>
            BY <1>4, <2>3 DEF Overlay!Expect, Overlay!Done
        <3>2. Overlay!TypeOK'
            BY <3>1, <2>1, <2>2, <2>3, <1>1 DEF Overlay!TypeOK, Overlay!Files
        <3>3. FindKept'
            BY <3>1, <2>2, <2>3 DEF FindKept, Finding
        <3> QED BY <3>1, <3>2, <3>3, <2>1, <2>2, FindAside
    <2>4. CASE ovPc' # "overlay"
        BY <1>4, <2>1, <2>2, <2>4, RaiseKeeps DEF Overlay!Expect
    <2> QED BY <2>3, <2>4
<1>5. CASE Overlay!FindOverlay
    <2>1. /\ ovPc = "overlay" /\ ovPc' = "hits" /\ todo' = Paths /\ ovAnswer' = None
          /\ UNCHANGED <<base, ovGen, changed, bound, authority, session, ovRead>>
        BY <1>1, <1>5 DEF Overlay!FindOverlay
    <2>2. Overlay!TypeOK'
        BY <1>1, <1>5 DEF Overlay!FindOverlay, Overlay!TypeOK, Overlay!Files
    <2>3. FindKept'
        BY <2>1, <1>1 DEF FindKept, Finding
    <2> QED BY <2>1, <2>2, <2>3, <1>1, FindAside DEF BaseMoves
<1> QED BY <1>2, <1>3, <1>4, <1>5

\* What it reads of the base is the publication's, or it will raise at its end.
LEMMA FindReadKeeps ==
    ASSUME Overlay!OverlayAssumption, OverlayInv,
           (\E p \in Paths : Overlay!FindHit(p)) \/ Overlay!FindHits \/ Overlay!RequireAgain
    PROVE  OverlayInv'
<1> USE DEF Overlay!world, Overlay!worker
<1>1. /\ Overlay!TypeOK /\ FindKept
      /\ base = Overlay!NoRows => ovGen < ovMaxGeneration
      /\ ovPc # "idle" => ovAnswer = None
    BY DEF OverlayInv
<1>2. CASE \E p \in Paths : Overlay!FindHit(p)
    <2>1. PICK p \in Paths : Overlay!FindHit(p)
        BY <1>2
    <2>2. /\ ovPc = "hits" /\ ovPc' = "hits" /\ todo' = todo \ {p} /\ ovAnswer' = None
          /\ UNCHANGED <<base, ovGen, rows, changed, bound, authority, session>>
        BY <2>1, <1>1 DEF Overlay!FindHit
    <2>3. /\ \A q \in Paths \ {p} : ovRead'[q] = ovRead[q]
          /\ ovRead'[p] = CASE rows[p] # None -> rows[p]
                          [] rows[p] = None /\ p \in changed -> None
                          [] OTHER -> base[p]
        BY <2>1, <1>1 DEF Overlay!FindHit, Overlay!Masked, Overlay!TypeOK, Overlay!Files
    <2>4. Overlay!TypeOK'
        BY <2>1, <1>1 DEF Overlay!FindHit, Overlay!Masked, Overlay!TypeOK, Overlay!Files
    <2>5. FindKept'
        <3>1. Merged(p)'
            BY <2>2, <2>3 DEF Merged
        <3>2. \A q \in (Paths \ {p}) \ todo : Merged(q)'
            BY <2>2, <2>3, <1>1 DEF FindKept, Merged
        <3>3. \A q \in Paths \ todo' : Merged(q)'
            BY <2>2, <3>1, <3>2
        <3> QED BY <3>3, <2>2, <1>1 DEF FindKept, Finding
    <2> QED BY <2>2, <2>4, <2>5, <1>1, FindAside DEF BaseMoves
<1>3. CASE Overlay!FindHits
    <2>1. /\ ovPc = "hits" /\ ovPc' = "again" /\ todo = {} /\ ovAnswer' = None
          /\ UNCHANGED <<base, ovGen, rows, changed, bound, authority, session, ovRead, todo>>
        BY <1>1, <1>3 DEF Overlay!FindHits
    <2>2. Overlay!TypeOK'
        BY <1>1, <1>3 DEF Overlay!FindHits, Overlay!TypeOK, Overlay!Files
    <2>3. FindKept'
        BY <2>1, <1>1 DEF FindKept, Finding, Merged
    <2> QED BY <2>1, <2>2, <2>3, <1>1, FindAside DEF BaseMoves
<1>4. CASE Overlay!RequireAgain
    <2>1. CASE ovPc' = "return"
        <3>1. /\ ovPc = "again" /\ ovAnswer' = None
              /\ UNCHANGED <<base, ovGen, tree, edits, rows, changed, bound, asked, authority,
                             session, ovRead, todo, life>>
            BY <1>1, <1>4, <2>1 DEF Overlay!RequireAgain, Overlay!Done
        <3>2. Overlay!TypeOK'
            BY <3>1, <2>1, <1>1 DEF Overlay!TypeOK, Overlay!Files
        <3>3. FindKept'
            BY <3>1, <2>1, <1>1 DEF FindKept, Finding, Merged
        <3> QED BY <3>1, <3>2, <3>3, <1>1, FindAside DEF BaseMoves
    <2>2. CASE ovPc' # "return"
        BY <1>1, <1>4, <2>2, RaiseKeeps DEF Overlay!RequireAgain, BaseMoves, Overlay!TypeOK
    <2> QED BY <2>1, <2>2
<1> QED BY <1>2, <1>3, <1>4

\* An answer is returned only while the session's generation stands.
LEMMA ReturnKeeps ==
    ASSUME Overlay!OverlayAssumption, OverlayInv, Overlay!FindReturn
    PROVE  OverlayInv'
<1>1. /\ Overlay!TypeOK /\ FindKept /\ Published(bound)
      /\ base = Overlay!NoRows => ovGen < ovMaxGeneration
    BY DEF OverlayInv
<1>2. /\ ovPc = "return" /\ Overlay!Done /\ bound # None
      /\ ovAnswer' = IF session = ovGen THEN ovRead ELSE None
      /\ UNCHANGED <<base, ovGen, tree, edits, rows, changed, bound, life>>
    BY <1>1 DEF Overlay!FindReturn, Overlay!world, FindKept, Finding
<1>3. Overlay!TypeOK'
    BY <1>1, <1>2 DEF Overlay!TypeOK, Overlay!Done, Overlay!Files, Overlay!NoRows,
                      Overlay!OverlayAssumption
<1>4. Overlay!AnswersOfOneBase'
    <2> SUFFICES ASSUME NEW p \in Paths, session = ovGen
                 PROVE  \/ ovRead[p] = IF p \in changed THEN rows[p] ELSE bound.print[p]
                        \/ p \notin changed /\ rows[p] # None
        BY <1>2 DEF Overlay!AnswersOfOneBase
    <2>1. Merged(p)
        BY <1>1, <1>2 DEF FindKept
    <2>2. bound.print = base
        BY <1>1, <1>2 DEF FindKept, Published
    <2> QED BY <2>1, <2>2 DEF Merged
<1>5. Published(bound)' /\ Published(authority)' /\ FindKept'
    BY <1>1, <1>2 DEF Published, Overlay!Done, FindKept, Finding
<1> QED BY <1>1, <1>2, <1>3, <1>4, <1>5 DEF OverlayInv, Overlay!NoRows, Overlay!Done

LEMMA RestartKeeps ==
    ASSUME Overlay!OverlayAssumption, OverlayInv, Overlay!Restart
    PROVE  OverlayInv'
<1>1. /\ Overlay!Done /\ changed' = {} /\ bound' = None /\ ovAnswer' = None
      /\ life' \in 0..MaxLives /\ UNCHANGED <<base, ovGen, tree, edits, rows>>
    BY DEF Overlay!Restart, Overlay!world, OverlayInv, Overlay!TypeOK, Overlay!OverlayAssumption
<1>2. Overlay!TypeOK'
    BY <1>1 DEF OverlayInv, Overlay!TypeOK, Overlay!Done, Overlay!Files, Overlay!NoRows,
                Overlay!OverlayAssumption
<1>3. Published(bound)' /\ Published(authority)' /\ FindKept'
    BY <1>1 DEF Published, Overlay!Done, FindKept, Finding
<1> QED BY <1>1, <1>2, <1>3 DEF OverlayInv, Overlay!NoRows

LEMMA OverlayStep ==
    Overlay!OverlayAssumption /\ OverlayInv /\ [Overlay!Next]_Overlay!vars => OverlayInv'
<1> SUFFICES ASSUME Overlay!OverlayAssumption, OverlayInv, [Overlay!Next]_Overlay!vars
             PROVE  OverlayInv'
    OBVIOUS
<1>1. CASE Overlay!Next
    BY <1>1, OutsideKeeps, SyncKeeps, FindBeginKeeps, FindReadKeeps, ReturnKeeps, RestartKeeps
       DEF Overlay!Next
<1>2. CASE UNCHANGED Overlay!vars
    BY <1>2 DEF Overlay!vars, Overlay!world, Overlay!worker, OverlayInv, Overlay!TypeOK,
                Overlay!Files, Overlay!NoRows, Published, FindKept, Merged,
                Overlay!AnswersOfOneBase
<1> QED BY <1>1, <1>2

(* The overlay's variables have their types, and a binding to a generation    *)
(* that stands is to the base that it has.                                    *)
THEOREM OverlayInvariant ==
    Overlay!OverlayAssumption => (Overlay!Spec => [](Overlay!TypeOK /\ OverlayInv))
<1>1. SUFFICES ASSUME Overlay!OverlayAssumption
               PROVE  Overlay!Spec => [](Overlay!TypeOK /\ OverlayInv)
    OBVIOUS
<1>2. Overlay!Init => OverlayInv
    BY <1>1, OverlayInit
<1>3. OverlayInv /\ [Overlay!Next]_Overlay!vars => OverlayInv'
    BY <1>1, OverlayStep
<1>4. OverlayInv => Overlay!TypeOK /\ OverlayInv
    BY DEF OverlayInv
<1> QED BY <1>2, <1>3, <1>4, PTL DEF Overlay!Spec

(* find_task answers from the publication that the overlay is bound to,       *)
(* whatever is published, cleared and built meanwhile, and with the changed   *)
(* paths as the last sync has left them.                                      *)
THEOREM OverlayAnswersOfOneBase ==
    Overlay!OverlayAssumption => (Overlay!Spec => []Overlay!AnswersOfOneBase)
<1>1. SUFFICES ASSUME Overlay!OverlayAssumption
               PROVE  Overlay!Spec => []Overlay!AnswersOfOneBase
    OBVIOUS
<1>2. Overlay!Spec => [](Overlay!TypeOK /\ OverlayInv)
    BY <1>1, OverlayInvariant
<1>3. OverlayInv => Overlay!AnswersOfOneBase
    BY DEF OverlayInv, Overlay!AnswersOfOneBase
<1> QED BY <1>2, <1>3, PTL

(***************************************************************************)
(* The sum of the parts                                                    *)
(***************************************************************************)
\* What the sum does is, for each part, what the part does by itself.
LEMMA FlightOfSum == PartSpec => Flight!Spec
<1>1. PartInit => Flight!Init
    BY DEF PartInit
<1>2. [PartNext]_PartVars => [Flight!Next]_Flight!vars
    BY DEF PartNext, PartVars, flightVars, Flight!vars, Flight!local
<1> QED BY <1>1, <1>2, PTL DEF PartSpec, Flight!Spec

LEMMA OverlayOfSum == PartSpec => Overlay!Spec
<1>1. PartInit => Overlay!Init
    BY DEF PartInit
<1>2. [PartNext]_PartVars => [Overlay!Next]_Overlay!vars
    BY DEF PartNext, PartVars, overlayVars, Overlay!vars, Overlay!world, Overlay!worker
<1> QED BY <1>1, <1>2, PTL DEF PartSpec, Overlay!Spec

(* Whoever leads or follows a shared computation, its answer is what was read *)
(* of its own session's generation.                                           *)
THEOREM CallsAnswerOneGeneration == PartSpec => []OneGeneration
<1>1. Flight!OneGeneration => OneGeneration
    BY DEF OneGeneration
<1> QED BY <1>1, PartAssumption, FlightOfSum, AnswersOfOneGeneration, PTL

(* An answer of the overlay merges its rows with one publication of the base. *)
THEOREM OverlayAnswersOneBase == PartSpec => []AnswersOfOneBase
<1>1. Overlay!AnswersOfOneBase => AnswersOfOneBase
    BY DEF AnswersOfOneBase
<1> QED BY <1>1, PartAssumption, OverlayOfSum, OverlayAnswersOfOneBase, PTL

LEMMA ContextOfSum == PartSpec => Spec
<1>1. PartInit => Init
    BY DEF PartInit
<1>2. [PartNext]_PartVars => [Next]_vars
    BY DEF PartNext, PartVars, vars
<1> QED BY <1>1, <1>2, PTL DEF PartSpec, Spec

PartNamed == part \in {"context", "flight", "overlay"}

(* The variables of every part have their types: a session has its readers'   *)
(* labels, a flight its leader, and a binding its base.                       *)
THEOREM PartTypesCorrect == PartSpec => []PartTypes
<1>1. PartNamed /\ TypeOK /\ Flight!TypeOK /\ Overlay!TypeOK => PartTypes
    BY DEF PartTypes, PartNamed
<1>2. PartInit => PartNamed
    BY DEF PartInit, PartNamed
<1>3. PartNamed /\ [PartNext]_PartVars => PartNamed'
    BY DEF PartNamed, PartNext, PartVars
<1> QED BY <1>1, <1>2, <1>3, PartAssumption, ContextOfSum, FlightOfSum, OverlayOfSum,
           ContextTypes, FlightInvariant, OverlayInvariant, PTL DEF PartSpec

===============================================================================
