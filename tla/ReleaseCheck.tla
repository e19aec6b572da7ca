------------------------------ MODULE ReleaseCheck ------------------------------
(***************************************************************************)
(* Commands of one user that ask for a newer release now and then.  The    *)
(* time of the last check is in a cache file, and a check is made under a  *)
(* lock file that is taken away when it is old.  A command takes the time  *)
(* once, when it begins.                                                   *)
(***************************************************************************)
EXTENDS Integers, FiniteSets

CONSTANTS
    Checks,         \* commands, each of which checks once
    None,
    Interval,       \* _CHECK_INTERVAL_SECONDS
    StaleAfter,     \* _LOCK_STALE_SECONDS
    MaxClock        \* bound of the model

\* What the constants are.
ReleaseAssumption ==
    {Interval, StaleAfter, MaxClock} \subseteq Nat \ {0} /\ None \notin Nat

VARIABLES
    clock,
    cache,          \* checked_at of the file
    lock,           \* the time of the lock file
    pc, now,
    fetched,        \* history: who has asked for the release,
    recorded,       \* whose time has been in the cache,
    company,        \* who has ever run beside another,
    before          \* and who had ended when a command began

files   == <<cache, lock>>
history == <<fetched, recorded, company, before>>
vars    == <<clock, files, pc, now, history>>

Times  == 0..MaxClock
Labels == {"new", "look", "age", "unlink", "create", "again", "fetch", "write", "release", "done"}

TypeOK ==
    /\ clock \in Times /\ {cache, lock} \subseteq Times \cup {None}
    /\ pc \in [Checks -> Labels] /\ now \in [Checks -> Times]
    /\ recorded \subseteq fetched /\ fetched \subseteq Checks /\ company \subseteq Checks
    /\ before \in [Checks -> SUBSET Checks]

Init ==
    /\ clock = 0 /\ cache = None /\ lock = None
    /\ pc = [c \in Checks |-> "new"] /\ now = [c \in Checks |-> 0]
    /\ fetched = {} /\ recorded = {} /\ company = {}
    /\ before = [c \in Checks |-> {}]

Go(c, label) == pc' = [pc EXCEPT ![c] = label]
Running      == {c \in Checks : pc[c] \notin {"new", "done"}}

Tick == clock < MaxClock /\ clock' = clock + 1 /\ UNCHANGED <<files, pc, now, history>>

Begin(c) ==
    /\ pc[c] = "new" /\ Go(c, "look")
    /\ now' = [now EXCEPT ![c] = clock]
    /\ company' = IF Running = {} THEN company ELSE company \cup Running \cup {c}
    /\ before' = [before EXCEPT ![c] = {d \in Checks : pc[d] = "done"}]
    /\ UNCHANGED <<clock, files, fetched, recorded>>

\* Mutant of IsFresh: a check of this very moment does not count.
IsFreshLater(c) == cache # None /\ now[c] - cache \in 1..(Interval - 1)

\* _cache_is_fresh
IsFresh(c) == cache # None /\ now[c] - cache \in 0..(Interval - 1)

Look(c) ==
    /\ pc[c] = "look" /\ Go(c, IF IsFresh(c) THEN "done" ELSE "age")
    /\ UNCHANGED <<clock, files, now, history>>

(***************************************************************************)
(* _remove_stale_lock, _periodic_check_lock                                *)
(***************************************************************************)
Age(c) ==
    /\ pc[c] = "age"
    /\ Go(c, IF lock # None /\ now[c] - lock >= StaleAfter THEN "unlink" ELSE "create")
    /\ UNCHANGED <<clock, files, now, history>>

Unlink(c) ==
    /\ pc[c] = "unlink" /\ lock' = None /\ Go(c, "create")
    /\ UNCHANGED <<clock, cache, now, history>>

Create(c) ==
    /\ pc[c] = "create"
    /\ IF lock = None THEN lock' = clock /\ Go(c, "again") ELSE UNCHANGED lock /\ Go(c, "done")
    /\ UNCHANGED <<clock, cache, now, history>>

LookAgain(c) ==
    /\ pc[c] = "again" /\ Go(c, IF IsFresh(c) THEN "release" ELSE "fetch")
    /\ UNCHANGED <<clock, files, now, history>>

\* With or without an answer.
Fetch(c) ==
    /\ pc[c] = "fetch" /\ fetched' = fetched \cup {c} /\ Go(c, "write")
    /\ UNCHANGED <<clock, files, now, recorded, company, before>>

\* A cache that cannot be written is none.
Write(c) ==
    /\ pc[c] = "write" /\ Go(c, "release")
    /\ \/ cache' = now[c] /\ recorded' = recorded \cup {c}
       \/ UNCHANGED <<cache, recorded>>
    /\ UNCHANGED <<clock, lock, now, fetched, company, before>>

\* Whoever's lock is there by now is unlinked.
Release(c) ==
    /\ pc[c] = "release" /\ lock' = None /\ Go(c, "done")
    /\ UNCHANGED <<clock, cache, now, history>>

Crash(c) ==
    /\ c \in Running /\ Go(c, "done") /\ UNCHANGED <<clock, files, now, history>>

Next ==
    \/ Tick
    \/ \E c \in Checks :
          \/ Begin(c) \/ Look(c) \/ Age(c) \/ Unlink(c) \/ Create(c) \/ LookAgain(c)
          \/ Fetch(c) \/ Write(c) \/ Release(c) \/ Crash(c)

Spec == Init /\ [][Next]_vars

(***************************************************************************)
(* Properties                                                              *)
(***************************************************************************)
(* After a check that has left its time, no command that begins within the   *)
(* interval asks again, whoever crashed, raced or took whose lock away       *)
(* before or between, as long as neither of the two has run beside another.  *)
OncePerInterval ==
    \A c \in recorded \ company, d \in fetched \ company :
        c \in before[d] => now[d] - now[c] >= Interval

(* README.md says "at most once every 24 hours".                             *)
AtMostOnce ==
    \A c, d \in fetched : c # d => now[d] - now[c] \notin (-Interval + 1)..(Interval - 1)
=================================================================================
