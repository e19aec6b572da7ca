---------------------------- MODULE MCIdentitySide ----------------------------
(* What identity reads are answered from: the table of file digests, the       *)
(* Merkle caches of the daemon and the content-addressed store.  TLC checks    *)
(* each by itself, in one run.                                                 *)
EXTENDS FileStore, TLC

CONSTANTS
    root, d, s, f, h, Dirs, Files, Root, Parent, Above, Terminals, Movable, Absent,
    mkMaxClock, csCallers, MaxInodes, Durable, MaxFailures, MaxSpoils

VARIABLES
    part, now, mkClock, tState, tPaths, dirCache, pathCache, leaf, moved, dir,
    object, data, csPc, kind, temp, held, outcome, deleted, failures, spoils

Merkle == INSTANCE MerkleCache WITH
    MaxClock <- mkMaxClock, clock <- mkClock
Content == INSTANCE ContentStore WITH
    Callers <- csCallers, pc <- csPc

ASSUME PartAssumption ==
    /\ Merkle!TreeAssumption
    /\ Content!StoreAssumption

merkleVars ==
    <<now, mkClock, tState, tPaths, dirCache, pathCache, leaf, moved>>
contentVars ==
    <<dir, object, data, csPc, kind, temp, held, outcome, deleted, failures,
      spoils>>

\* One of the parts runs.
PartInit ==
    /\ part \in {"store", "merkle", "content"}
    /\ Init /\ Merkle!Init /\ Content!Init

PartNext ==
    \/ part = "store" /\ Next
       /\ UNCHANGED <<part, merkleVars, contentVars>>
    \/ part = "merkle" /\ Merkle!Next
       /\ UNCHANGED <<part, vars, contentVars>>
    \/ part = "content" /\ Content!Next
       /\ UNCHANGED <<part, vars, merkleVars>>

PartVars == <<part, vars, merkleVars, contentVars>>

PartSpec == PartInit /\ [][PartNext]_PartVars

\* Callers and processes are the same values.
Symmetry == Permutations(Callers) \cup Permutations(Inodes)

\* Every caller has a process of its own.
MCHome == [c \in Callers |-> c]

\* root/d/f and root/d/s/h, of which the manifest selects f, and s as a directory.
MCParent == [n \in {d, s, f, h} |->
                CASE n = d        -> root
                  [] n \in {s, f} -> d
                  [] n = h        -> s]

\* The directories above each of them.
MCAbove == [n \in {root, d, s, f, h} |->
                CASE n = root     -> {}
                  [] n = d        -> {root}
                  [] n \in {s, f} -> {root, d}
                  [] n = h        -> {root, d, s}]

(* The variables of the parts have their types. *)
PartTypes ==
    CASE part = "store"   -> TypeOK
      [] part = "merkle"  -> Merkle!TypeOK
      [] part = "content" -> Content!TypeOK

(* MerkleCache: while nothing is moved as a whole, fast reads say what strong ones do, *)
ExactUnmoved == part = "merkle" => Merkle!ExactUnmoved

(* ... and a move endangers only what is below it. *)
ExactOutsideMoves == part = "merkle" => Merkle!ExactOutsideMoves

(* ContentStore: what a put has returned is there. *)
PutsHold == part = "content" => Content!PutsHold
===============================================================================
