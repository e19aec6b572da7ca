--------------------------- MODULE ManifestRegistry ---------------------------
(***************************************************************************)
(* Large manifests are sent to the identity daemon once and named by a     *)
(* handle from then on.  This is the daemon's registry of them (pending    *)
(* uploads, reference counts, budgets) and RepositoryIdentity, the facade  *)
(* that registers, asks by handle, drops what it holds when it is closed,  *)
(* and in auto mode answers by itself where there is no daemon.            *)
(*                                                                         *)
(* A manifest is a set of paths; its fingerprint is injective, so a        *)
(* manifest is its own handle.  Every operation runs under _request_lock   *)
(* (asking does so to find the manifest) and is one step; its answer may   *)
(* be lost, to a timeout or a stopping daemon, after it had its effect.    *)
(***************************************************************************)
EXTENDS Integers, FiniteSets

CONSTANTS
    Clients,        \* the facades, each used by one thread
    DaemonOnly,     \* those of mode "daemon"; the others are of mode "auto"
    Manifests,      \* what they ask for, sets of paths
    None,           \* no token
    MaxPending,     \* _MAX_PENDING_MANIFESTS
    MaxRegistered,  \* _MAX_REGISTERED_MANIFESTS
    MaxPaths,       \* _MAX_REGISTERED_MANIFEST_PATHS
    MaxTotalPaths,  \* _MAX_TOTAL_REGISTERED_MANIFEST_PATHS
    MaxTokens,      \* bound of the model: uploads
    MaxLives,       \* bound of the model: restarts of the daemon
    MaxLost         \* bound of the model: lost answers

\* What the constants are.
RegistryAssumption ==
    /\ DaemonOnly \subseteq Clients
    /\ {MaxPending, MaxRegistered, MaxPaths, MaxTotalPaths, MaxTokens, MaxLives, MaxLost}
          \subseteq Nat
    /\ Manifests # {} /\ \A m \in Manifests : IsFiniteSet(m) /\ m # {}
    /\ None \notin Nat

VARIABLES
    up,         \* the daemon serves its socket
    life,       \* which daemon it is
    speaks,     \* how it differs from the facades: "same", "semantics", "protocol"
    pending,    \* _pending_manifests: the paths received under each token
    tokens,     \* the tokens given so far (they are random: never given twice)
    refs,       \* the references of _registered_manifests, 0 where not registered
    total,      \* _registered_manifest_paths
    lost,       \* the answers lost so far
    pc,         \* where each facade is
    asked,      \* the manifest of its call
    token,      \* the token of its upload
    todo,       \* the paths it has still to send, or the handles to drop
    handles,    \* _manifest_handles
    confirmed,  \* _daemon_confirmed
    answer,     \* how its last call ended
    since,      \* history: the daemon each handle is from
    robbed,     \* history: references dropped by who held them of an earlier daemon
    refused     \* history: a limit of this model's daemon was met

daemon  == <<up, life, speaks>>
registry == <<pending, tokens, refs, total>>
locals  == <<asked, token, todo>>
facade  == <<handles, confirmed, since>>
vars    == <<daemon, registry, lost, pc, locals, facade, answer, robbed, refused>>

Registered == {m \in Manifests : refs[m] > 0}

TypeOK ==
    /\ up \in BOOLEAN /\ life \in 0..MaxLives
    /\ speaks \in {"same", "semantics", "protocol"}
    /\ DOMAIN pending \subseteq 1..tokens /\ tokens \in 0..MaxTokens
    /\ refs \in [Manifests -> Nat] /\ total \in Nat /\ lost \in 0..MaxLost
    /\ pc \in [Clients -> {"idle", "status", "begin", "append", "commit", "ask",
                           "close", "gone"}]
    /\ asked \in [Clients -> Manifests] /\ token \in [Clients -> Nat \cup {None}]
    /\ handles \in [Clients -> SUBSET Manifests] /\ confirmed \in [Clients -> BOOLEAN]
    /\ answer \in [Clients -> {"none", "daemon", "local", "unavailable", "unspoken",
                               "error"}]
    /\ since \in [Clients -> [Manifests -> 0..MaxLives]]
    /\ robbed \subseteq Manifests /\ refused \in BOOLEAN

\* A facade of mode "daemon" has asked for the daemon's status already.
Init ==
    /\ up = TRUE /\ life = 0 /\ speaks = "same"
    /\ pending = <<>> /\ tokens = 0
    /\ refs = [m \in Manifests |-> 0] /\ total = 0 /\ lost = 0
    /\ pc = [c \in Clients |-> "idle"]
    /\ asked \in [Clients -> {CHOOSE m \in Manifests : TRUE}]
    /\ token = [c \in Clients |-> None] /\ todo = [c \in Clients |-> {}]
    /\ handles = [c \in Clients |-> {}]
    /\ confirmed = [c \in Clients |-> c \in DaemonOnly]
    /\ answer = [c \in Clients |-> "none"]
    /\ since = [c \in Clients |-> [m \in Manifests |-> 0]]
    /\ robbed = {} /\ refused = FALSE

Go(c, label) == pc' = [pc EXCEPT ![c] = label]

(***************************************************************************)
(* How a call of the facade ends                                           *)
(***************************************************************************)
Ended(c, how) ==
    /\ Go(c, "idle") /\ answer' = [answer EXCEPT ![c] = how]
    /\ token' = [token EXCEPT ![c] = None] /\ todo' = [todo EXCEPT ![c] = {}]
    /\ UNCHANGED asked

\* DaemonUnavailableError, DaemonCompatibilityError: auto mode answers locally.
Unavailable(c) ==
    /\ Ended(c, IF c \in DaemonOnly THEN "unavailable" ELSE "local")
    /\ confirmed' = [confirmed EXCEPT ![c] = c \in DaemonOnly]
    /\ UNCHANGED <<handles, since>>

\* DaemonProtocolError: whatever the daemon's operation raises.
Refused(c) == Ended(c, "error") /\ UNCHANGED facade

\* The operation had its effect: its answer arrives, or the facade gives up.
Answered == UNCHANGED lost
Lost(c)  == lost < MaxLost /\ lost' = lost + 1 /\ Unavailable(c)

Unreachable(c) ==
    /\ ~up /\ Unavailable(c)
    /\ UNCHANGED <<daemon, registry, lost, robbed, refused>>

\* A daemon of another protocol refuses every request.
Unspoken(c) ==
    /\ up /\ speaks = "protocol"
    /\ Ended(c, "unspoken") /\ UNCHANGED facade
    /\ UNCHANGED <<daemon, registry, lost, robbed, refused>>

Spoken == up /\ speaks # "protocol"

(***************************************************************************)
(* snapshot_manifest                                                       *)
(***************************************************************************)
Snapshot(c, m) ==
    /\ pc[c] = "idle"
    /\ asked' = [asked EXCEPT ![c] = m]
    /\ Go(c, IF ~confirmed[c] THEN "status" ELSE IF m \in handles[c] THEN "ask" ELSE "begin")
    /\ answer' = [answer EXCEPT ![c] = "none"]
    /\ UNCHANGED <<daemon, registry, lost, token, todo, facade, robbed, refused>>

\* IdentityClient.status refuses a daemon of other semantics or protocol.
Status(c) ==
    /\ pc[c] = "status"
    /\ \/ /\ up /\ speaks = "same"
          /\ confirmed' = [confirmed EXCEPT ![c] = TRUE]
          /\ Go(c, IF asked[c] \in handles[c] THEN "ask" ELSE "begin")
          /\ Answered /\ UNCHANGED <<locals, answer, handles, since>>
       \/ (~up \/ speaks # "same") /\ Unavailable(c) /\ Answered
       \/ up /\ Lost(c)
    /\ UNCHANGED <<daemon, registry, robbed, refused>>

\* manifest_begin
BeginRefused(c) ==
    /\ pc[c] = "begin" /\ Spoken
    /\ Cardinality(DOMAIN pending) >= MaxPending /\ refused' = TRUE
    /\ Refused(c)
    /\ UNCHANGED <<daemon, registry, lost, robbed>>

Begin(c) ==
    /\ pc[c] = "begin" /\ Spoken
    /\ Cardinality(DOMAIN pending) < MaxPending
    /\ tokens < MaxTokens /\ tokens' = tokens + 1
    /\ pending' = [t \in DOMAIN pending \cup {tokens'} |->
                     IF t = tokens' THEN {} ELSE pending[t]]
    /\ \/ /\ Answered
          /\ token' = [token EXCEPT ![c] = tokens'] /\ todo' = [todo EXCEPT ![c] = asked[c]]
          /\ Go(c, "append") /\ UNCHANGED <<asked, facade, answer>>
       \/ Lost(c)
    /\ UNCHANGED <<daemon, refs, total, robbed, refused>>

Without(t) == [u \in DOMAIN pending \ {t} |-> pending[u]]

\* manifest_append of one chunk.  A token of an earlier daemon is unknown; too
\* many paths end the upload.
AppendRefused(c) ==
    /\ pc[c] = "append" /\ Spoken
    /\ token[c] \in DOMAIN pending => Cardinality(pending[token[c]]) + 1 > MaxPaths
    /\ pending' = Without(token[c])
    /\ refused' = (refused \/ token[c] \in DOMAIN pending)
    /\ Refused(c)
    /\ UNCHANGED <<daemon, tokens, refs, total, lost, robbed>>

Append(c, p) ==
    /\ pc[c] = "append" /\ Spoken
    /\ p \in todo[c] /\ token[c] \in DOMAIN pending
    /\ Cardinality(pending[token[c]]) + 1 <= MaxPaths
    /\ pending' = [pending EXCEPT ![token[c]] = @ \cup {p}]
    /\ \/ /\ Answered
          /\ todo' = [todo EXCEPT ![c] = @ \ {p}]
          /\ Go(c, IF todo[c] = {p} THEN "commit" ELSE "append")
          /\ UNCHANGED <<asked, token, facade, answer>>
       \/ Lost(c)
    /\ UNCHANGED <<daemon, tokens, refs, total, robbed, refused>>

\* What manifest_commit refuses, its token already popped.
Fits(m) ==
    \/ refs[m] > 0
    \/ /\ Cardinality(Registered) < MaxRegistered
       /\ total + Cardinality(m) <= MaxTotalPaths

\* Mutant of CommitRefused: the limits are checked before the token is popped.
CommitRefusedKeeping(c) ==
    /\ pc[c] = "commit" /\ Spoken
    /\ token[c] \in DOMAIN pending => ~Fits(pending[token[c]])
    /\ refused' = (refused \/ token[c] \in DOMAIN pending)
    /\ Refused(c)
    /\ UNCHANGED <<daemon, pending, tokens, refs, total, lost, robbed>>

CommitRefused(c) ==
    /\ pc[c] = "commit" /\ Spoken
    /\ token[c] \in DOMAIN pending => ~Fits(pending[token[c]])
    /\ pending' = Without(token[c])
    /\ refused' = (refused \/ token[c] \in DOMAIN pending)
    /\ Refused(c)
    /\ UNCHANGED <<daemon, tokens, refs, total, lost, robbed>>

\* Mutant of Commit: the paths are counted with every reference.
CommitCounting(c) ==
    /\ pc[c] = "commit" /\ Spoken
    /\ token[c] \in DOMAIN pending /\ Fits(pending[token[c]])
    /\ LET m == pending[token[c]]
       IN  /\ refs' = [refs EXCEPT ![m] = @ + 1]
           /\ total' = total + Cardinality(m)
           /\ pending' = Without(token[c])
           /\ \/ /\ Answered
                 /\ handles' = [handles EXCEPT ![c] = @ \cup {m}]
                 /\ since' = [since EXCEPT ![c][m] = life]
                 /\ Go(c, "ask") /\ UNCHANGED <<locals, confirmed, answer>>
              \/ Lost(c)
    /\ UNCHANGED <<daemon, tokens, robbed, refused>>

\* The facade keeps the handle only if it has learnt of it.
Commit(c) ==
    /\ pc[c] = "commit" /\ Spoken
    /\ token[c] \in DOMAIN pending /\ Fits(pending[token[c]])
    /\ LET m == pending[token[c]]
       IN  /\ refs' = [refs EXCEPT ![m] = @ + 1]
           /\ total' = IF refs[m] = 0 THEN total + Cardinality(m) ELSE total
           /\ pending' = Without(token[c])
           /\ \/ /\ Answered
                 /\ handles' = [handles EXCEPT ![c] = @ \cup {m}]
                 /\ since' = [since EXCEPT ![c][m] = life]
                 /\ Go(c, "ask") /\ UNCHANGED <<locals, confirmed, answer>>
              \/ Lost(c)
    /\ UNCHANGED <<daemon, tokens, robbed, refused>>

\* input_root by handle: an unknown handle is refused.
AskRefused(c) ==
    /\ pc[c] = "ask" /\ Spoken /\ refs[asked[c]] = 0
    /\ Refused(c)
    /\ UNCHANGED <<daemon, registry, lost, robbed, refused>>

Ask(c) ==
    /\ pc[c] = "ask" /\ Spoken /\ refs[asked[c]] > 0
    /\ \/ Answered /\ Ended(c, "daemon") /\ UNCHANGED facade
       \/ Lost(c)
    /\ UNCHANGED <<daemon, registry, robbed, refused>>

(***************************************************************************)
(* close: a facade that knows of a daemon drops what it holds.             *)
(***************************************************************************)
\* Mutant of Forgets: the handles are kept.
ForgetsNothing(c) ==
    /\ Go(c, "idle") /\ todo' = [todo EXCEPT ![c] = {}]
    /\ UNCHANGED facade

Forgets(c) ==
    /\ handles' = [handles EXCEPT ![c] = {}] /\ UNCHANGED <<confirmed, since>>
    /\ Go(c, "idle") /\ todo' = [todo EXCEPT ![c] = {}]

Close(c) ==
    /\ pc[c] = "idle" /\ confirmed[c] /\ handles[c] # {}
    /\ Go(c, "close") /\ todo' = [todo EXCEPT ![c] = handles[c]]
    /\ UNCHANGED <<daemon, registry, lost, asked, token, facade, answer, robbed, refused>>

CloseUnreached(c) ==
    /\ pc[c] = "close" /\ ~up
    /\ Forgets(c)
    /\ UNCHANGED <<daemon, registry, lost, asked, token, answer, robbed, refused>>

\* close catches no DaemonProtocolError: it ends before the handles are cleared.
CloseUnspoken(c) ==
    pc[c] = "close" /\ Unspoken(c)

\* Mutant of Drop: an unknown handle is counted off like a known one.
DropUnknown(c, m) ==
    /\ pc[c] = "close" /\ Spoken /\ m \in todo[c]
    /\ refs' = [refs EXCEPT ![m] = IF @ > 0 THEN @ - 1 ELSE 0]
    /\ total' = IF refs[m] <= 1 THEN total - Cardinality(m) ELSE total
    /\ robbed' = IF since[c][m] # life THEN robbed \cup {m} ELSE robbed
    /\ Answered
    /\ IF todo[c] = {m}
         THEN Forgets(c)
         ELSE todo' = [todo EXCEPT ![c] = @ \ {m}] /\ UNCHANGED <<pc, facade>>
    /\ UNCHANGED <<daemon, pending, tokens, asked, token, answer, refused>>

\* Mutant of Drop: the first facade to drop a manifest frees it.
DropFreeing(c, m) ==
    /\ pc[c] = "close" /\ Spoken /\ m \in todo[c]
    /\ refs' = [refs EXCEPT ![m] = 0]
    /\ total' = IF refs[m] > 0 THEN total - Cardinality(m) ELSE total
    /\ robbed' = IF since[c][m] # life THEN robbed \cup {m} ELSE robbed
    /\ Answered
    /\ IF todo[c] = {m}
         THEN Forgets(c)
         ELSE todo' = [todo EXCEPT ![c] = @ \ {m}] /\ UNCHANGED <<pc, facade>>
    /\ UNCHANGED <<daemon, pending, tokens, asked, token, answer, refused>>

\* manifest_drop: the last reference frees the manifest and its paths.
Drop(c, m) ==
    /\ pc[c] = "close" /\ Spoken /\ m \in todo[c]
    /\ refs' = [refs EXCEPT ![m] = IF @ > 0 THEN @ - 1 ELSE 0]
    /\ total' = IF refs[m] = 1 THEN total - Cardinality(m) ELSE total
    /\ robbed' = IF since[c][m] # life THEN robbed \cup {m} ELSE robbed
    /\ \/ /\ Answered
          /\ IF todo[c] = {m}
               THEN Forgets(c)
               ELSE todo' = [todo EXCEPT ![c] = @ \ {m}] /\ UNCHANGED <<pc, facade>>
       \/ lost < MaxLost /\ lost' = lost + 1 /\ Forgets(c)
    /\ UNCHANGED <<daemon, pending, tokens, asked, token, answer, refused>>

\* A process may end anywhere.
Crash(c) ==
    /\ pc[c] # "gone" /\ Go(c, "gone")
    /\ UNCHANGED <<daemon, registry, lost, locals, facade, answer, robbed, refused>>

(***************************************************************************)
(* The daemon is stopped, and another one is started.                      *)
(***************************************************************************)
DaemonStops ==
    /\ up /\ life < MaxLives /\ up' = FALSE
    /\ UNCHANGED <<life, speaks, registry, lost, pc, locals, facade, answer, robbed, refused>>

DaemonStarts ==
    /\ ~up /\ up' = TRUE /\ life' = life + 1
    /\ speaks' \in {"same", "semantics", "protocol"}
    /\ pending' = <<>> /\ refs' = [m \in Manifests |-> 0] /\ total' = 0
    /\ robbed' = {}
    /\ UNCHANGED <<tokens, lost, pc, locals, facade, answer, refused>>

Calling == {"begin", "append", "commit", "ask"}

Call(c) ==
    \/ Status(c)
    \/ pc[c] \in Calling /\ (Unreachable(c) \/ Unspoken(c))
    \/ BeginRefused(c) \/ Begin(c)
    \/ AppendRefused(c) \/ \E p \in todo[c] : Append(c, p)
    \/ CommitRefused(c) \/ Commit(c)
    \/ AskRefused(c) \/ Ask(c)
    \/ CloseUnreached(c) \/ CloseUnspoken(c) \/ \E m \in Manifests : Drop(c, m)

Next ==
    \/ \E c \in Clients :
         \/ Call(c) \/ Close(c) \/ Crash(c)
         \/ \E m \in Manifests : Snapshot(c, m)
    \/ DaemonStops \/ DaemonStarts

Spec == Init /\ [][Next]_vars

(***************************************************************************)
(* Correctness                                                             *)
(***************************************************************************)
\* Every path of every registered manifest: as many as their sizes add up to.
RegisteredPaths == UNION {{m} \X m : m \in Registered}

\* The budget the daemon keeps is that of what is registered, and no limit is
\* exceeded, however uploads, drops and failures interleave (M1).
Accounted ==
    /\ total = Cardinality(RegisteredPaths) /\ total <= MaxTotalPaths
    /\ Cardinality(Registered) <= MaxRegistered
    /\ Cardinality(DOMAIN pending) <= MaxPending
    /\ \A t \in DOMAIN pending : Cardinality(pending[t]) <= MaxPaths

\* c has a handle from the daemon that runs, and has not dropped it.
Holds(c, m) ==
    /\ up /\ since[c][m] = life /\ pc[c] # "gone"
    /\ m \in IF pc[c] = "close" THEN todo[c] ELSE handles[c]
Holders(m) == {c \in Clients : Holds(c, m)}

\* A handle is not freed under a facade that holds it, unless one that held the
\* same manifest of an earlier daemon has dropped it at this one.
HeldIsRegistered ==
    \A m \in Manifests \ robbed : refs[m] >= Cardinality(Holders(m))

(* The books balance: the budget with what is registered, and the references  *)
(* with what the facades hold.                                                *)
Balanced == Accounted /\ HeldIsRegistered

\* Nothing is left behind while nobody crashes and every answer arrives: the
\* references are those held, and the pending uploads are under way.
NothingLeaks ==
    (life = 0 /\ up /\ lost = 0 /\ \A c \in Clients : pc[c] # "gone") =>
        /\ \A m \in Manifests : refs[m] = Cardinality(Holders(m))
        /\ DOMAIN pending = {token[c] : c \in {d \in Clients : pc[d] \in {"append", "commit"}}}

\* A1 (docs/reference/INVARIANTS.md): a call of mode "auto" is answered, by a daemon
\* that means the same or by the same local implementation.
AutoAnswers ==
    speaks = "same" => \A c \in Clients \ DaemonOnly : answer[c] # "error"

\* It does while the daemon is not restarted and has room.
AutoAnswersOneDaemon == life = 0 /\ ~refused => AutoAnswers
=============================================================================
