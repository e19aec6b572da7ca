---------------------------- MODULE AtomicContext ----------------------------
(* What a repository query promises: its answer is that of one publication   *)
(* of the map, the one that is current when the answer is given.  ContextLane *)
(* implements it with several statements, restarts and a context cache.       *)
EXTENDS Naturals, Sequences

CONSTANTS
    Readers,     \* the processes that query one workspace's map
    Cleared,     \* the content of the map after `map clean`
    NoAnswer     \* the reader has no answer

VARIABLES
    log,         \* what each generation published, in the order of publication
    answer       \* the answer each reader has been given

vars == <<log, answer>>

\* The declarations of a source version: every other edit changes bodies only.
Declarations(v) == IF v = Cleared THEN Cleared ELSE v \div 2

Current == log[Len(log)]

\* A context pack may disclose the relations of any publication that declared
\* the same; an outline discloses those of the current one.
Disclosed(kind) ==
    IF kind = "outline"
    THEN {Current}
    ELSE {v \in {log[g] : g \in 1..Len(log)} :
            Declarations(v) = Declarations(Current)}

Init == log = <<0>> /\ answer = [r \in Readers |-> NoAnswer]

\* A publication adds a generation and leaves the earlier ones as they were.
Publish ==
    /\ Len(log') = Len(log) + 1
    /\ \A g \in 1..Len(log) : log'[g] = log[g]
    /\ UNCHANGED answer

Answer(r) ==
    /\ answer[r] = NoAnswer
    /\ \E kind \in {"outline", "context"} : \E d \in Disclosed(kind) :
         answer' = [answer EXCEPT ![r] =
             [kind |-> kind, gen |-> Len(log),
              decls |-> Declarations(Current), deps |-> d]]
    /\ UNCHANGED log

Forget(r) ==
    /\ answer' = [answer EXCEPT ![r] = NoAnswer]
    /\ UNCHANGED log

Next == Publish \/ \E r \in Readers : Answer(r) \/ Forget(r)

Spec == Init /\ [][Next]_vars
=============================================================================
