----------------------------- MODULE ServiceSocket -----------------------------
(***************************************************************************)
(* Processes that serve a workspace at one Unix socket: each asks whether  *)
(* somebody listens at the path, unlinks what nobody answers at, gets      *)
(* ready, binds, serves, and unlinks the path when it ends.  The identity  *)
(* daemon and the CodeMap service do it alike but for one thing: the       *)
(* daemon binds inside the try whose finally unlinks the path.             *)
(*                                                                         *)
(* A process serves once, so its socket goes by its name.                  *)
(***************************************************************************)
EXTENDS FiniteSets

CONSTANTS
    Servers,
    None,
    MayBeFull       \* whether a server's queue of connections is ever full

\* What the constants are.
SocketAssumption == MayBeFull \in BOOLEAN /\ None \notin Servers

VARIABLES
    bindsInTry,     \* these are daemons, or else CodeMap services
    path,           \* the server whose socket the path names
    pc,
    end,            \* how a process ended
    company         \* history: who has ever run beside another process

vars == <<bindsInTry, path, pc, end, company>>

Labels == {"new", "exists", "connect", "unlink", "ready", "bind", "bound", "serving",
           "closing", "cleanup", "gone"}
Ends   == {"none", "running", "in use", "failed", "stopped", "crashed"}

TypeOK ==
    /\ bindsInTry \in BOOLEAN
    /\ path \in Servers \cup {None} /\ pc \in [Servers -> Labels]
    /\ end \in [Servers -> Ends] /\ company \subseteq Servers
    /\ \A s \in Servers : (pc[s] = "gone") <=> (end[s] # "none")

Init ==
    /\ bindsInTry \in BOOLEAN /\ path = None
    /\ pc = [s \in Servers |-> "new"] /\ end = [s \in Servers |-> "none"]
    /\ company = {}

Running == {s \in Servers : pc[s] \notin {"new", "gone"}}

Go(s, label)  == pc' = [pc EXCEPT ![s] = label] /\ UNCHANGED end
Leave(s, why) == pc' = [pc EXCEPT ![s] = "gone"] /\ end' = [end EXCEPT ![s] = why]

Start(s) ==
    /\ pc[s] = "new" /\ Go(s, "exists")
    /\ company' = IF Running = {} THEN company ELSE company \cup Running \cup {s}
    /\ UNCHANGED path

(***************************************************************************)
(* _prepare_socket                                                         *)
(***************************************************************************)
Exists(s) ==
    /\ pc[s] = "exists" /\ Go(s, IF path = None THEN "ready" ELSE "connect")
    /\ UNCHANGED <<path, company>>

Answers == path # None /\ pc[path] = "serving"

\* Mutant of Connect: a path that is there is taken for a server.
ConnectTrusting(s) ==
    /\ pc[s] = "connect" /\ Leave(s, "running") /\ UNCHANGED <<path, company>>

\* Nobody listens there, or its queue is full: both are an OSError.
Connect(s) ==
    /\ pc[s] = "connect"
    /\ \/ Answers /\ Leave(s, "running")
       \/ (~Answers \/ MayBeFull) /\ Go(s, "unlink")
    /\ UNCHANGED <<path, company>>

Unlink(s) ==
    /\ pc[s] = "unlink" /\ path' = None /\ Go(s, "ready")
    /\ UNCHANGED company

(***************************************************************************)
(* serve_forever                                                           *)
(***************************************************************************)
\* The watcher is started, or the map is synced.
GetReady(s) ==
    /\ pc[s] = "ready"
    /\ Go(s, "bind") \/ Leave(s, "failed")
    /\ UNCHANGED <<path, company>>

Bind(s) ==
    /\ pc[s] = "bind"
    /\ IF path = None THEN path' = s /\ Go(s, "bound")
       ELSE UNCHANGED path /\ IF bindsInTry THEN Go(s, "cleanup") ELSE Leave(s, "in use")
    /\ UNCHANGED company

Listen(s) ==
    /\ pc[s] = "bound" /\ Go(s, "serving") /\ UNCHANGED <<path, company>>

\* server_close; the daemon's observer and engine end before the path is unlinked.
Close(s) ==
    /\ pc[s] = "serving" /\ Go(s, "closing") /\ UNCHANGED <<path, company>>

Remove(s) ==
    /\ pc[s] \in {"closing", "cleanup"} /\ path' = None
    /\ Leave(s, IF pc[s] = "closing" THEN "stopped" ELSE "in use")
    /\ UNCHANGED company

Crash(s) ==
    /\ s \in Running /\ Leave(s, "crashed") /\ UNCHANGED <<path, company>>

Next ==
    /\ \E s \in Servers :
          \/ Start(s) \/ Exists(s) \/ Connect(s) \/ Unlink(s) \/ GetReady(s) \/ Bind(s)
          \/ Listen(s) \/ Close(s) \/ Remove(s) \/ Crash(s)
    /\ UNCHANGED bindsInTry

Spec == Init /\ [][Next]_vars

(***************************************************************************)
(* Properties                                                              *)
(***************************************************************************)
(* A server that runs while no other process does is not turned away, by     *)
(* whatever the servers before it have left, and is reached at the path.     *)
AloneItServes ==
    \A s \in Servers \ company :
        /\ end[s] \notin {"running", "in use"}
        /\ pc[s] \in {"bound", "serving"} => path = s

(* A second process is refused because the first is running (daemon.py says  *)
(* "identity daemon already running"), so a server that serves is the one    *)
(* that the path leads to.                                                   *)
ServingIsReachable ==
    \A s \in Servers : pc[s] = "serving" => path = s
===============================================================================
