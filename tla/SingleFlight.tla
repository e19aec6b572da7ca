----------------------------- MODULE SingleFlight -----------------------------
(***************************************************************************)
(* Threads of one process that ask the same question at the same time.     *)
(* The first for a key computes; the others wait for its result or its     *)
(* exception.  A key holds the generation that its caller has read, the    *)
(* computation reads the store as it is, and every caller's session checks *)
(* at its exit that the generation is still the one it began with.         *)
(*                                                                         *)
(* The question is one (the other parts of a key are the same for all); a  *)
(* computation is two reads of the store, between which it may change.     *)
(***************************************************************************)
EXTENDS Integers, FiniteSets

CONSTANTS
    Threads,
    None,
    MaxRetries,     \* further attempts of a call, after its first
    MaxGeneration   \* bound of the model: publications

\* What the constants are.
FlightAssumption ==
    /\ {MaxRetries, MaxGeneration} \subseteq Nat
    /\ None \notin Nat
    /\ IsFiniteSet(Threads)

VARIABLES
    generation,     \* of the store
    slot,           \* _flights: the flight of each key
    flights,        \* the flights somebody holds: event set, result, error
    pc,
    pin, key, mine, \* a thread's session, its key, and its flight
    first,          \* a leader's first read
    tries, answer

local == <<pin, key, mine, first, tries, answer>>
vars  == <<generation, slot, flights, pc, local>>

Generations == 0..MaxGeneration
Flights     == 1..Cardinality(Threads)      \* a flight in use has a thread that holds it
Results     == Generations \X Generations
NewFlight   == [event |-> FALSE, result |-> None, error |-> FALSE]
Labels      == {"idle", "begin", "key", "enter", "read", "reread", "retire", "set",
                "wait", "exit"}

TypeOK ==
    /\ generation \in Generations
    /\ slot \in [Generations -> Flights \cup {None}]
    /\ flights \in [Flights -> [event : BOOLEAN, result : Results \cup {None}, error : BOOLEAN]]
    /\ pc \in [Threads -> Labels]
    /\ pin \in [Threads -> Generations] /\ key \in [Threads -> Generations]
    /\ mine \in [Threads -> Flights \cup {None}]
    /\ first \in [Threads -> Generations \cup {None}]
    /\ tries \in [Threads -> 0..MaxRetries]
    /\ answer \in [Threads -> Results \cup {None}]

Init ==
    /\ generation = 0
    /\ slot = [g \in Generations |-> None] /\ flights = [f \in Flights |-> NewFlight]
    /\ pc = [t \in Threads |-> "idle"]
    /\ pin = [t \in Threads |-> 0] /\ key = [t \in Threads |-> 0]
    /\ mine = [t \in Threads |-> None] /\ first = [t \in Threads |-> None]
    /\ tries = [t \in Threads |-> 0] /\ answer = [t \in Threads |-> None]

Go(t, label) == pc' = [pc EXCEPT ![t] = label]

\* Another process, or a sync of this one, publishes.
Publish ==
    /\ generation < MaxGeneration /\ generation' = generation + 1
    /\ UNCHANGED <<slot, flights, pc, local>>

Call(t) ==
    /\ pc[t] = "idle" /\ Go(t, "begin")
    /\ tries' = [tries EXCEPT ![t] = 0] /\ answer' = [answer EXCEPT ![t] = None]
    /\ UNCHANGED <<generation, slot, flights, pin, key, mine, first>>

\* The session pins the generation, and the key is made of what it is then.
Begin(t) ==
    /\ pc[t] = "begin" /\ Go(t, "key")
    /\ pin' = [pin EXCEPT ![t] = generation]
    /\ UNCHANGED <<generation, slot, flights, key, mine, first, tries, answer>>

MakeKey(t) ==
    /\ pc[t] = "key" /\ Go(t, "enter")
    /\ key' = [key EXCEPT ![t] = generation]
    /\ UNCHANGED <<generation, slot, flights, pin, mine, first, tries, answer>>

(***************************************************************************)
(* SingleFlight.run                                                        *)
(***************************************************************************)
Held == {mine[t] : t \in Threads}

Lead(t) ==
    LET f == CHOOSE f \in Flights \ Held : \A g \in Flights \ Held : f <= g
    IN  /\ flights' = [flights EXCEPT ![f] = NewFlight]
        /\ mine' = [mine EXCEPT ![t] = f] /\ slot' = [slot EXCEPT ![key[t]] = f]
        /\ Go(t, "read")

\* Mutant of Enter: the generation is no part of the key.
EnterAny(t) ==
    /\ pc[t] = "enter"
    /\ \/ (\A g \in Generations : slot[g] = None) /\ Lead(t)
       \/ \E g \in Generations :
             /\ slot[g] # None /\ mine' = [mine EXCEPT ![t] = slot[g]] /\ Go(t, "wait")
             /\ UNCHANGED <<slot, flights>>
    /\ UNCHANGED <<generation, pin, key, first, tries, answer>>

Enter(t) ==
    /\ pc[t] = "enter"
    /\ \/ slot[key[t]] = None /\ Lead(t)
       \/ /\ slot[key[t]] # None
          /\ mine' = [mine EXCEPT ![t] = slot[key[t]]] /\ Go(t, "wait")
          /\ UNCHANGED <<slot, flights>>
    /\ UNCHANGED <<generation, pin, key, first, tries, answer>>

Read(t) ==
    /\ pc[t] = "read" /\ Go(t, "reread")
    /\ first' = [first EXCEPT ![t] = generation]
    /\ UNCHANGED <<generation, slot, flights, pin, key, mine, tries, answer>>

Reread(t) ==
    /\ pc[t] = "reread" /\ Go(t, "retire")
    /\ flights' = [flights EXCEPT ![mine[t]].result = <<first[t], generation>>]
    /\ UNCHANGED <<generation, slot, local>>

\* Mutant of Raise: an exception leaves the flight in its place.
RaiseStraightAway(t) ==
    /\ pc[t] \in {"read", "reread"} /\ Go(t, "exit")
    /\ flights' = [flights EXCEPT ![mine[t]].error = TRUE]
    /\ UNCHANGED <<generation, slot, local>>

Raise(t) ==
    /\ pc[t] \in {"read", "reread"} /\ Go(t, "retire")
    /\ flights' = [flights EXCEPT ![mine[t]].error = TRUE]
    /\ UNCHANGED <<generation, slot, local>>

Retire(t) ==
    /\ pc[t] = "retire" /\ Go(t, "set")
    /\ slot' = [slot EXCEPT ![key[t]] = None]
    /\ UNCHANGED <<generation, flights, local>>

Set(t) ==
    /\ pc[t] = "set" /\ Go(t, "exit")
    /\ flights' = [flights EXCEPT ![mine[t]].event = TRUE]
    /\ UNCHANGED <<generation, slot, local>>

Wait(t) ==
    /\ pc[t] = "wait" /\ flights[mine[t]].event /\ Go(t, "exit")
    /\ UNCHANGED <<generation, slot, flights, local>>

(***************************************************************************)
(* The exit of the session                                                 *)
(***************************************************************************)
\* An exception of the leader is raised in every caller; the generation has to stand.
Good(t) == ~flights[mine[t]].error /\ generation = pin[t]

Exit(t) ==
    /\ pc[t] = "exit"
    /\ IF Good(t)
       THEN /\ answer' = [answer EXCEPT ![t] = flights[mine[t]].result]
            /\ Go(t, "idle") /\ UNCHANGED tries
       ELSE /\ IF tries[t] < MaxRetries
               THEN Go(t, "begin") /\ tries' = [tries EXCEPT ![t] = @ + 1]
               ELSE Go(t, "idle") /\ UNCHANGED tries
            /\ UNCHANGED answer
    /\ mine' = [mine EXCEPT ![t] = None] /\ first' = [first EXCEPT ![t] = None]
    /\ flights' = IF \E u \in Threads \ {t} : mine[u] = mine[t] THEN flights
                  ELSE [flights EXCEPT ![mine[t]] = NewFlight]
    /\ UNCHANGED <<generation, slot, pin, key>>

Step(t) ==
    Begin(t) \/ MakeKey(t) \/ Enter(t) \/ Read(t) \/ Reread(t) \/ Raise(t) \/ Retire(t)
      \/ Set(t) \/ Wait(t) \/ Exit(t)

Next == Publish \/ \E t \in Threads : Call(t) \/ Step(t)

Spec == Init /\ [][Next]_vars

\* A thread that can go on does.
FairSpec == Spec /\ \A t \in Threads : WF_vars(Step(t))

(***************************************************************************)
(* Properties                                                              *)
(***************************************************************************)
(* A thread is answered with what was read of the generation its own session *)
(* began with, whichever thread has computed it and whenever that began, and *)
(* however the store changed meanwhile; and a flight that has a follower has *)
(* a leader that still works on it, or has set its event.                    *)
OneGeneration ==
    /\ \A t \in Threads : answer[t] # None => answer[t] = <<pin[t], pin[t]>>
    /\ \A t \in Threads :
          pc[t] = "wait" => \/ flights[mine[t]].event
                            \/ \E u \in Threads : mine[u] = mine[t]
                                  /\ pc[u] \in {"read", "reread", "retire", "set"}

(* Every call comes back, with an answer or an exception: no follower waits   *)
(* for a flight that nobody will finish.                                      *)
CallsReturn == \A t \in Threads : (pc[t] # "idle") ~> (pc[t] = "idle")
===============================================================================
