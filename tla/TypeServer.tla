------------------------------ MODULE TypeServer ------------------------------
(***************************************************************************)
(* One collection of import resolutions from a type server, a process of   *)
(* its own that answers requests over a pipe.  A request has an id and the *)
(* client waits for the answer to it, for so long between two messages; it *)
(* passes over answers that have come too late.  A resolution names the    *)
(* snapshot it is made for, which the server refuses once the files have   *)
(* changed; the client then asks for a new one and tries once more.        *)
(*                                                                         *)
(* What the server says of an import at a snapshot is <<import, snapshot>>.*)
(* The requests that open the session are one.                             *)
(***************************************************************************)
EXTENDS Integers, FiniteSets, SequencesExt

CONSTANTS
    Imports,        \* the imports to resolve are 1..Imports, in the order of the files
    None,
    MaxSnapshot,    \* bounds of the model: changes the server notices,
    MaxTimeouts,    \* waits that end with no message,
    MaxChatter      \* and messages of the server's own

\* What the constants are.
TypeServerAssumption ==
    /\ Imports \in Nat \ {0} /\ {MaxSnapshot, MaxTimeouts, MaxChatter} \subseteq Nat
    /\ None \notin (1..Imports) \X (0..MaxSnapshot)

VARIABLES
    current, pending, alive,        \* the server: its snapshot and what it is asked
    responses,                      \* the client's queue of the server's messages
    phase, waiting, nextId,         \* the client: its request, and the next id
    spec, snapshot, edges, lost,    \* the import it is at, and what it has of the others
    timeouts, chatter

server == <<current, pending, alive>>
client == <<phase, waiting, nextId, spec, snapshot, edges, lost>>
bounds == <<timeouts, chatter>>
vars   == <<server, responses, client, bounds>>

Specs     == 1..Imports
Snapshots == 0..MaxSnapshot
Requests  == {"initialize", "snapshot", "resolve", "refresh", "retry", "shutdown"}
MaxId     == 4 * Imports + 3

Message(id, is, value) == [id |-> id, is |-> is, value |-> value]
Values == {<<>>} \cup {<<n>> : n \in Snapshots} \cup (Specs \X Snapshots)

TypeOK ==
    /\ current \in Snapshots /\ alive \in BOOLEAN
    /\ pending \subseteq [id : 1..MaxId, op : Requests, spec : Specs, snapshot : Snapshots]
    /\ \A m \in ToSet(responses) :
          m \in [id : 0..MaxId, is : {"ok", "refused", "error", "request", "notice"}, value : Values]
    /\ phase \in Requests \cup {"done"} /\ waiting \in BOOLEAN /\ nextId \in 1..(MaxId + 1)
    /\ spec \in 1..(Imports + 1) /\ snapshot \in Snapshots /\ lost \in 0..Imports
    /\ edges \in [Specs -> Values \cup {None}]
    /\ timeouts \in 0..MaxTimeouts /\ chatter \in 0..MaxChatter

Nothing == [i \in Specs |-> None]

Init ==
    /\ current = 0 /\ pending = {} /\ alive = TRUE /\ responses = <<>>
    /\ phase = "initialize" /\ waiting = FALSE /\ nextId = 1
    /\ spec = 1 /\ snapshot = 0 /\ edges = Nothing /\ lost = 0
    /\ timeouts = 0 /\ chatter = 0

(***************************************************************************)
(* The server                                                              *)
(***************************************************************************)
FilesChange ==
    /\ alive /\ current < MaxSnapshot /\ current' = current + 1
    /\ UNCHANGED <<pending, alive, responses, client, bounds>>

Say(m) == responses' = Append(responses, m)

\* It need not answer in the order it was asked.
Answer ==
    /\ alive
    /\ \E r \in pending :
          /\ pending' = pending \ {r}
          /\ \/ Say(Message(r.id, "error", <<>>))
             \/ CASE r.op \in {"snapshot", "refresh"} -> Say(Message(r.id, "ok", <<current>>))
                  [] r.op \in {"resolve", "retry"} /\ r.snapshot = current ->
                       Say(Message(r.id, "ok", <<r.spec, current>>))
                  [] r.op \in {"resolve", "retry"} /\ r.snapshot # current ->
                       Say(Message(r.id, "refused", <<>>))
                  [] OTHER -> Say(Message(r.id, "ok", <<>>))
    /\ UNCHANGED <<current, alive, client, bounds>>

Chatter ==
    /\ alive /\ chatter < MaxChatter /\ chatter' = chatter + 1
    /\ \E is \in {"request", "notice"} : Say(Message(0, is, <<>>))
    /\ UNCHANGED <<server, client, timeouts>>

Die ==
    /\ alive /\ alive' = FALSE /\ pending' = {}
    /\ UNCHANGED <<current, responses, client, bounds>>

(***************************************************************************)
(* The client: _collect_edges, _resolve_spec                               *)
(***************************************************************************)
\* After an import, resolved or given up, comes the next, and after the last the end.
NextSpec ==
    /\ spec' = spec + 1 /\ waiting' = FALSE
    /\ phase' = IF spec = Imports THEN "shutdown" ELSE "resolve"
    /\ UNCHANGED <<nextId, snapshot>>

GiveUp == NextSpec /\ lost' = lost + 1 /\ UNCHANGED <<edges, alive, pending>>

\* An exception: in the second attempt it costs the import, elsewhere everything.
Fail ==
    \/ phase = "retry" /\ GiveUp
    \/ /\ phase = "shutdown" /\ phase' = "done" /\ waiting' = FALSE
       /\ alive' = FALSE /\ pending' = {}
       /\ UNCHANGED <<nextId, spec, snapshot, edges, lost>>
    \/ /\ phase \notin {"retry", "shutdown"} /\ phase' = "shutdown" /\ waiting' = FALSE
       /\ edges' = Nothing
       /\ UNCHANGED <<nextId, spec, snapshot, lost, alive, pending>>

Send ==
    /\ phase # "done" /\ ~waiting
    /\ \/ /\ alive /\ waiting' = TRUE /\ nextId' = nextId + 1
          /\ pending' = pending \cup {[id |-> nextId, op |-> phase, snapshot |-> snapshot,
                                       spec |-> IF spec > Imports THEN Imports ELSE spec]}
          /\ UNCHANGED <<alive, phase, spec, snapshot, edges, lost>>
       \/ ~alive /\ Fail
    /\ UNCHANGED <<current, responses, bounds>>

\* The answer to the request.
Take(m) ==
    CASE m.is = "ok" /\ phase \in {"resolve", "retry"} ->
            NextSpec /\ edges' = [edges EXCEPT ![spec] = m.value] /\ UNCHANGED <<lost, alive, pending>>
      [] m.is = "ok" /\ phase = "initialize" ->
            /\ phase' = "snapshot" /\ waiting' = FALSE
            /\ UNCHANGED <<nextId, spec, snapshot, edges, lost, alive, pending>>
      [] m.is = "ok" /\ phase \in {"snapshot", "refresh"} ->
            /\ snapshot' = m.value[1] /\ waiting' = FALSE
            /\ phase' = IF phase = "snapshot" THEN "resolve" ELSE "retry"
            /\ UNCHANGED <<nextId, spec, edges, lost, alive, pending>>
      [] m.is = "refused" /\ phase = "resolve" ->
            /\ phase' = "refresh" /\ waiting' = FALSE
            /\ UNCHANGED <<nextId, spec, snapshot, edges, lost, alive, pending>>
      [] m.is = "error" /\ phase = "resolve" -> GiveUp
      [] OTHER -> Fail

\* Mutant of Answers: whatever answer comes first.
AnswersAny(m) == m.is \in {"ok", "refused", "error"}

Answers(m) == m.is \in {"ok", "refused", "error"} /\ m.id = nextId - 1

\* _wait_response: the server's own requests are replied to, other messages passed over.
Receive ==
    /\ waiting /\ responses # <<>> /\ responses' = Tail(responses)
    /\ LET m == Head(responses)
       IN  \/ Answers(m) /\ Take(m)
           \/ ~alive /\ m.is = "request" /\ Fail
           \/ /\ ~Answers(m) /\ (m.is # "request" \/ alive)
              /\ UNCHANGED <<client, alive, pending>>
    /\ UNCHANGED <<current, bounds>>

Timeout ==
    /\ waiting /\ responses = <<>> /\ Fail
    /\ alive => timeouts < MaxTimeouts
    /\ timeouts' = IF alive THEN timeouts + 1 ELSE timeouts
    /\ UNCHANGED <<current, responses, chatter>>

Next == FilesChange \/ Answer \/ Chatter \/ Die \/ Send \/ Receive \/ Timeout

Spec == Init /\ [][Next]_vars

(***************************************************************************)
(* Properties                                                              *)
(***************************************************************************)
(* What is kept for an import is the server's answer for this import, however *)
(* many answers were late, lost or refused; and a collection returns what it  *)
(* has of every import, but for those given up, or nothing.                   *)
EdgesAreAnswers ==
    /\ \A i \in Specs : edges[i] # None => edges[i] \in {i} \X Snapshots
    /\ phase \in {"shutdown", "done"} =>
          \/ edges = Nothing
          \/ spec = Imports + 1 /\ lost = Cardinality({i \in Specs : edges[i] = None})
===============================================================================
