------------------------------ MODULE MCMapSide -------------------------------
(* The map and what is made from it or beside it.  The parts share nothing but *)
(* the machine: TLC checks each by itself, in one run.                         *)
EXTENDS MapFreshness, TLC

CONSTANTS
    scip, pyright, project, decl, shared, evClients, Producers, Bound,
    Imported, Manifests, Watches, Shared, Contents, MaxEdits, evMaxChanges,
    evMaxGeneration, Imports, MaxSnapshot, MaxTimeouts, MaxChatter, Checks,
    Interval, StaleAfter, MaxClock, rgClients, DaemonOnly, rgManifests, MaxPending,
    MaxRegistered, MaxPaths, MaxTotalPaths, MaxTokens, MaxLives, MaxLost

VARIABLES
    part, source, content, db, draft, writer, evPc, job, expected, seen, evChanges,
    current, pending, alive, responses, phase, waiting, nextId, spec, snapshot,
    edges, lost, timeouts, chatter, clock, cache, lock, rcPc, now, fetched,
    recorded, company, rcBefore, rgUp, rgLife, speaks, rgPending, tokens, refs,
    total, rgLost, rgPc, asked, token, rgTodo, handles, confirmed, answer, since,
    robbed, refused

Evidence == INSTANCE NativeEvidence WITH
    Clients <- evClients, MaxChanges <- evMaxChanges,
    MaxGeneration <- evMaxGeneration, pc <- evPc, changes <- evChanges
Server == INSTANCE TypeServer
Release == INSTANCE ReleaseCheck WITH
    pc <- rcPc, before <- rcBefore
Registry == INSTANCE ManifestRegistry WITH
    Clients <- rgClients, Manifests <- rgManifests, up <- rgUp, life <- rgLife,
    pending <- rgPending, lost <- rgLost, pc <- rgPc, todo <- rgTodo

ASSUME PartAssumption ==
    /\ Evidence!EvidenceAssumption
    /\ Server!TypeServerAssumption
    /\ Release!ReleaseAssumption
    /\ Registry!RegistryAssumption

evidenceVars ==
    <<source, content, db, draft, writer, evPc, job, expected, seen, evChanges>>
serverVars ==
    <<current, pending, alive, responses, phase, waiting, nextId, spec, snapshot,
      edges, lost, timeouts, chatter>>
releaseVars ==
    <<clock, cache, lock, rcPc, now, fetched, recorded, company, rcBefore>>
registryVars ==
    <<rgUp, rgLife, speaks, rgPending, tokens, refs, total, rgLost, rgPc, asked,
      token, rgTodo, handles, confirmed, answer, since, robbed, refused>>

\* One of the parts runs.
PartInit ==
    /\ part \in {"map", "evidence", "server", "release", "registry"}
    /\ Init /\ Evidence!Init /\ Server!Init /\ Release!Init /\ Registry!Init

PartNext ==
    \/ part = "map" /\ Next
       /\ UNCHANGED <<part, evidenceVars, serverVars, releaseVars, registryVars>>
    \/ part = "evidence" /\ Evidence!Next
       /\ UNCHANGED <<part, vars, serverVars, releaseVars, registryVars>>
    \/ part = "server" /\ Server!Next
       /\ UNCHANGED <<part, vars, evidenceVars, releaseVars, registryVars>>
    \/ part = "release" /\ Release!Next
       /\ UNCHANGED <<part, vars, evidenceVars, serverVars, registryVars>>
    \/ part = "registry" /\ Registry!Next
       /\ UNCHANGED <<part, vars, evidenceVars, serverVars, releaseVars>>

PartVars == <<part, vars, evidenceVars, serverVars, releaseVars, registryVars>>

PartSpec == PartInit /\ [][PartNext]_PartVars

\* The parts share the values that stand for clients.
Symmetry == Permutations(Paths) \cup Permutations(Clients)

MCWatches == scip :> {} @@ pyright :> {decl} @@ project :> {decl, shared}

\* Two manifests that fit, and one that has a path too many.
MCManifests == {{x} : x \in Paths} \cup {Paths}

(* The variables of the parts have their types. *)
PartTypes ==
    CASE part = "map"      -> TypeOK
      [] part = "evidence" -> Evidence!TypeOK
      [] part = "server"   -> Server!TypeOK
      [] part = "release"  -> Release!TypeOK
      [] part = "registry" -> Registry!TypeOK

(* NativeEvidence: what is called fresh was bound to the sources it is of. *)
EvidenceFreshUnlessRaced == part = "evidence" => Evidence!EvidenceFreshUnlessRaced

(* TypeServer: what is kept of an import is the server's answer for it. *)
EdgesAreAnswers == part = "server" => Server!EdgesAreAnswers

(* ReleaseCheck: undisturbed checks are made once per interval. *)
OncePerInterval == part = "release" => Release!OncePerInterval

(* ManifestRegistry: the budget is that of what is registered, and what a client *)
(* holds is not freed by another's drop.                                         *)
Balanced == part = "registry" => Registry!Balanced

(* ManifestRegistry: nothing is kept that nobody can drop. *)
NothingLeaks == part = "registry" => Registry!NothingLeaks

(* ManifestRegistry: one life of the daemon answers every auto call. *)
AutoAnswersOneDaemon == part = "registry" => Registry!AutoAnswersOneDaemon
===============================================================================
