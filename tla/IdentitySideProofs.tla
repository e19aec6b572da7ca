-------------------------- MODULE IdentitySideProofs --------------------------
(***************************************************************************)
(* What identity reads are answered from: theorems about the table of file *)
(* digests (FileStore), the content-addressed store (ContentStore) and the *)
(* hot Merkle caches (MerkleCache), for every value of their constants; at *)
(* the end the sum of the parts is shown to inherit those of its parts.    *)
(***************************************************************************)
EXTENDS MCIdentitySide, FiniteSetTheorems, TLAPS

(***************************************************************************)
(* FileStore: RowsExact and ReadWasThere for every number of callers,      *)
(* processes, inodes, versions and attempts.  The invariant says what a    *)
(* caller may conclude from metadata that have not moved: a version that   *)
(* came between two equal readings of them has blurred them, so without    *)
(* blur the file stood still and both halves of the hash are of one        *)
(* version.                                                                *)
(***************************************************************************)
USE FileStoreAssumption

\* The last version of an inode that has been in use.
HasLast(i) ==
    \E w \in was : w[1][1] = i /\ \A x \in was : x[1][1] = i => x[2] <= w[2]

HistoryKept ==
    /\ <<file.meta, file.version>> \in was
    /\ \A w \in was : w[2] <= file.version
    /\ \A w \in was : HasLast(w[1][1])
    /\ \A c \in Callers : pc[c] = "read" => \E w \in was : w[1][1] = fd[c]

\* The digest d is that of a version with the metadata m.
Exact(m, g) == Blurred(m) \/ \E v \in Versions : g = <<v, v>> /\ <<m, v>> \in was

RowsKept ==
    /\ \A r \in ({db} \cup {mem[p] : p \in Processes}) \ {None} : Exact(r.meta, r.digest)
    /\ \A c \in Callers : row[c] # None => Exact(row[c].meta, row[c].digest)

\* What c has of the file was there while its call ran: the metadata,
MetaSeen(c) == \E v \in seen[c] : <<meta[c], v>> \in was

\* the digest,
DigestSeen(c) ==
    Blurred(meta[c]) \/ \E v \in seen[c] : digest[c] = <<v, v>> /\ <<meta[c], v>> \in was

\* and, while the metadata stand, nothing has changed since it read them.
Stands(c) == file.meta = meta[c] /\ ~Blurred(meta[c])

CallKept(c) ==
    /\ pc[c] # "idle" => file.version \in seen[c]
    /\ pc[c] \in {"check", "open", "read", "restat", "store"} => MetaSeen(c)
    /\ pc[c] = "row" /\ mode[c] # "many" => MetaSeen(c)
    /\ pc[c] = "read" /\ Stands(c) => fd[c] = file.meta[1] /\ first[c] = file.version
    /\ pc[c] = "restat" /\ Stands(c) => digest[c] = <<file.version, file.version>>
    /\ pc[c] = "store" => DigestSeen(c)
    /\ pc[c] = "idle" /\ digest[c] # None => DigestSeen(c)

\* What a caller has in hand where it goes on to use it.
InHand(c) ==
    /\ pc[c] = "read" => first[c] \in Versions /\ fd[c] \in Inodes
    /\ pc[c] \in {"restat", "store"} => digest[c] \in Digests
    /\ pc[c] = "store" => meta[c] \in Metadata

FileInv ==
    /\ TypeOK /\ HistoryKept /\ RowsKept
    /\ \A c \in Callers : CallKept(c) /\ InHand(c)

(***************************************************************************)
(* Lemmas about the operators of the model                                 *)
(***************************************************************************)
\* A greatest element is the Max of the set.
LEMMA MaxOfSet ==
    ASSUME NEW S \in SUBSET Nat, NEW n \in S, \A k \in S : k <= n
    PROVE  Max(S) = n
<1> DEFINE IsMax(x) == \A y \in S : x >= y
<1>1. IsMax(n)
    OBVIOUS
<1>2. \A x \in S : IsMax(x) => x = n
    OBVIOUS
<1> HIDE DEF IsMax
<1>3. (CHOOSE x \in S : IsMax(x)) = n
    BY <1>1, <1>2
<1> QED BY <1>3 DEF Max, IsMax

\* The contents of an inode are those of its last version.
LEMMA ContentsOfLast ==
    ASSUME was \subseteq Metadata \X Versions, NEW w \in was,
           \A x \in was : x[1][1] = w[1][1] => x[2] <= w[2]
    PROVE  Contents(w[1][1]) = w[2]
<1> DEFINE S == {x[2] : x \in {y \in was : y[1][1] = w[1][1]}}
<1>1. S \in SUBSET Nat /\ w[2] \in S
    BY DEF Versions
<1>2. \A k \in S : k <= w[2]
    OBVIOUS
<1> HIDE DEF S
<1>3. Max(S) = w[2]
    BY <1>1, <1>2, MaxOfSet
<1> QED BY <1>3 DEF Contents, S

\* What was exact stays so: the history only grows.
LEMMA ExactKept ==
    ASSUME was \subseteq was', NEW m, NEW g, Exact(m, g)
    PROVE  Exact(m, g)'
BY DEF Exact, Blurred

LEMMA MetaSeenKept ==
    ASSUME NEW c \in Callers, MetaSeen(c), was \subseteq was', seen[c] \subseteq seen'[c],
           meta'[c] = meta[c]
    PROVE  MetaSeen(c)'
BY DEF MetaSeen

LEMMA DigestSeenKept ==
    ASSUME NEW c \in Callers, DigestSeen(c), was \subseteq was', seen[c] \subseteq seen'[c],
           meta'[c] = meta[c], digest'[c] = digest[c]
    PROVE  DigestSeen(c)'
BY DEF DigestSeen, Blurred

\* Metadata that are not blurred were those of one version.
LEMMA OneVersion ==
    ASSUME TypeOK, NEW m, ~Blurred(m), NEW v, NEW w, <<m, v>> \in was, <<m, w>> \in was
    PROVE  v = w
BY DEF Blurred, TypeOK

(***************************************************************************)
(* Init                                                                    *)
(***************************************************************************)
LEMMA FileInit == Init => FileInv
<1> SUFFICES ASSUME Init PROVE FileInv
    OBVIOUS
<1>1. PICK i \in Inodes : file = [meta |-> <<i, 1>>, version |-> 1]
    BY DEF Init
<1>2. 1 \in Versions /\ <<i, 1>> \in Metadata
    BY DEF Versions, Metadata
<1>3. TypeOK
    BY <1>1, <1>2 DEF Init, TypeOK, Labels
<1>4. HistoryKept
    BY <1>1 DEF Init, HistoryKept, HasLast
<1>5. RowsKept
    BY DEF Init, RowsKept
<1>6. \A c \in Callers : CallKept(c) /\ InHand(c)
    BY DEF Init, CallKept, InHand
<1> QED BY <1>3, <1>4, <1>5, <1>6 DEF FileInv

(***************************************************************************)
(* The file changes                                                        *)
(***************************************************************************)
LEMMA ChangeKeeps ==
    ASSUME FileInv, NEW i \in Inodes, Change(i),
           \A c \in Callers : fd[c] # i \/ i = file.meta[1]
    PROVE  FileInv'
<1>t. TypeOK /\ HistoryKept
    BY DEF FileInv
<1>1. /\ UNCHANGED <<clock, db, mem, pc, mode, meta, row, fd, first, digest, tries>>
      /\ file' = [meta |-> <<i, clock>>, version |-> file.version + 1]
      /\ was' = was \cup {<<<<i, clock>>, file.version + 1>>}
      /\ seen' = [c \in Callers |-> IF pc[c] = "idle" THEN seen[c]
                                    ELSE seen[c] \cup {file.version + 1}]
    BY DEF Change, store
<1>2. /\ file.version \in Versions /\ file.version + 1 \in Versions
      /\ <<i, clock>> \in Metadata
    BY <1>t DEF Change, TypeOK, Versions, Metadata
<1>3. TypeOK'
    BY <1>t, <1>1, <1>2 DEF TypeOK
<1>4. HistoryKept'
    <2>1. /\ <<file.meta, file.version>> \in was' /\ <<file'.meta, file'.version>> \in was'
          /\ \A w \in was' : w[2] <= file'.version
        BY <1>t, <1>1, <1>2 DEF HistoryKept, TypeOK, Versions
    <2>2. ASSUME NEW w \in was' PROVE HasLast(w[1][1])'
        <3>1. CASE w[1][1] = i
            BY <1>1, <2>1, <3>1 DEF HasLast
        <3>2. CASE w[1][1] # i
            BY <1>t, <1>1, <3>2 DEF HistoryKept, HasLast
        <3> QED BY <3>1, <3>2
    <2>3. \A c \in Callers : pc'[c] = "read" => \E w \in was' : w[1][1] = fd'[c]
        BY <1>t, <1>1 DEF HistoryKept
    <2> QED BY <2>1, <2>2, <2>3 DEF HistoryKept
<1>5. was \subseteq was' /\ \A c \in Callers : seen[c] \subseteq seen'[c]
    BY <1>1
<1>6. RowsKept'
    BY <1>1, <1>5, ExactKept DEF FileInv, RowsKept
<1>7. ASSUME NEW c \in Callers PROVE CallKept(c)' /\ InHand(c)'
    <2>1. MetaSeen(c) => ~Stands(c)'
        <3> SUFFICES ASSUME MetaSeen(c), Stands(c)' PROVE FALSE
            OBVIOUS
        <3>1. PICK v \in seen[c] : <<meta[c], v>> \in was
            BY DEF MetaSeen
        <3>2. v \in Versions /\ v <= file.version /\ v # file.version + 1
            BY <1>t, <1>2, <3>1 DEF TypeOK, HistoryKept, Versions
        <3>3. {<<meta'[c], v>>, <<meta'[c], file.version + 1>>} \subseteq was'
            BY <1>1, <3>1 DEF Stands
        <3> QED BY <1>2, <3>2, <3>3 DEF Stands, Blurred
    <2>2. MetaSeen(c) => MetaSeen(c)'
        BY <1>1, <1>5, MetaSeenKept
    <2>3. DigestSeen(c) => DigestSeen(c)'
        BY <1>1, <1>5, DigestSeenKept
    <2>4. pc'[c] # "idle" => file'.version \in seen'[c]
        BY <1>1
    <2> QED BY <1>1, <2>1, <2>2, <2>3, <2>4 DEF FileInv, CallKept, InHand
<1> QED BY <1>3, <1>4, <1>6, <1>7 DEF FileInv

(***************************************************************************)
(* A caller's steps, seen from the others: it changes their rows at most.  *)
(***************************************************************************)
Aside(c) ==
    /\ UNCHANGED world
    /\ \A o \in Callers \ {c} :
          /\ pc'[o] = pc[o] /\ mode'[o] = mode[o] /\ meta'[o] = meta[o]
          /\ fd'[o] = fd[o] /\ first'[o] = first[o] /\ digest'[o] = digest[o]
          /\ seen'[o] = seen[o]

LEMMA StepAside ==
    ASSUME TypeOK, NEW c \in Callers,
           Step(c) \/ \E m \in {"single", "many", "force"} : Call(c, m)
    PROVE  Aside(c)
BY DEF TypeOK, Aside, Step, Stat, Row, Check, Use, Open, Read, Restat, Attempted, Store,
       Call, Go, Return, world

LEMMA CallAside ==
    ASSUME FileInv, NEW o \in Callers,
           UNCHANGED <<file, was, pc[o], mode[o], meta[o], fd[o], first[o], digest[o], seen[o]>>
    PROVE  CallKept(o)' /\ InHand(o)'
<1>1. CallKept(o) /\ InHand(o)
    BY DEF FileInv
<1>2. MetaSeen(o)' = MetaSeen(o)
    BY DEF MetaSeen
<1>3. Blurred(meta[o])' = Blurred(meta[o])
    BY DEF Blurred
<1>4. DigestSeen(o)' = DigestSeen(o)
    BY <1>3 DEF DigestSeen
<1>5. Stands(o)' = Stands(o)
    BY <1>3 DEF Stands
<1>6. CallKept(o)'
    BY <1>1, <1>2, <1>4, <1>5 DEF CallKept
<1>7. InHand(o)'
    BY <1>1 DEF InHand
<1> QED BY <1>6, <1>7

LEMMA OthersKept ==
    ASSUME FileInv, NEW c \in Callers, Aside(c), NEW o \in Callers \ {c}
    PROVE  CallKept(o)' /\ InHand(o)'
<1>1. UNCHANGED <<file, was, pc[o], mode[o], meta[o], fd[o], first[o], digest[o], seen[o]>>
    BY DEF Aside, world
<1> QED BY <1>1, CallAside

LEMMA HistoryAside ==
    ASSUME FileInv, NEW c \in Callers, Aside(c),
           pc'[c] = "read" => fd'[c] = file.meta[1]
    PROVE  HistoryKept'
<1>1. UNCHANGED <<file, was>>
    BY DEF Aside, world
<1>2. \A o \in Callers : pc'[o] = "read" => \E w \in was : w[1][1] = fd'[o]
    <2>1. \A o \in Callers \ {c} : pc'[o] = "read" => \E w \in was : w[1][1] = fd'[o]
        BY DEF Aside, FileInv, HistoryKept
    <2>2. <<file.meta, file.version>>[1][1] = file.meta[1]
        OBVIOUS
    <2>3. pc'[c] = "read" => \E w \in was : w[1][1] = fd'[c]
        BY <2>2 DEF FileInv, HistoryKept
    <2> QED BY <2>1, <2>3
<1> QED BY <1>1, <1>2 DEF FileInv, HistoryKept, HasLast

\* No row is new.
LEMMA RowsAside ==
    ASSUME FileInv, UNCHANGED <<was, db>>,
           \A p \in Processes : mem'[p] = mem[p] \/ mem'[p] = None,
           \A o \in Callers : row'[o] = row[o] \/ row'[o] = None
    PROVE  RowsKept'
<1>1. was \subseteq was'
    OBVIOUS
<1>2. \A r \in ({db'} \cup {mem'[p] : p \in Processes}) \ {None} :
         r \in ({db} \cup {mem[p] : p \in Processes}) \ {None}
    OBVIOUS
<1>3. ASSUME NEW r \in ({db'} \cup {mem'[p] : p \in Processes}) \ {None}
      PROVE  Exact(r.meta, r.digest)'
    BY <1>1, <1>2, ExactKept DEF FileInv, RowsKept
<1>4. ASSUME NEW o \in Callers, row'[o] # None
      PROVE  Exact(row[o].meta, row[o].digest)'
    <2>1. row'[o] = row[o] /\ Exact(row[o].meta, row[o].digest)
        BY <1>4 DEF FileInv, RowsKept
    <2>2. Exact(row'[o].meta, row'[o].digest)
        BY <2>1
    <2> QED BY <1>1, <2>2 DEF Exact, Blurred
<1> QED BY <1>3, <1>4 DEF RowsKept

(***************************************************************************)
(* Each step of a caller                                                   *)
(***************************************************************************)
LEMMA CallKeeps ==
    ASSUME FileInv, NEW c \in Callers, NEW m \in {"single", "many", "force"}, Call(c, m)
    PROVE  FileInv'
<1>t. TypeOK
    BY DEF FileInv
<1>1. Aside(c)
    BY <1>t, StepAside
<1>2. UNCHANGED <<clock, file, was, db, mem, fd, first, tries>>
    BY DEF Call, world, store
<1>3. TypeOK'
    BY <1>t, <1>2 DEF Call, Go, TypeOK, Labels
<1>4. /\ pc'[c] \in {"row", "stat"} /\ (pc'[c] = "row" => mode'[c] = "many")
      /\ seen'[c] = {file.version} /\ row'[c] = None
      /\ \A o \in Callers \ {c} : row'[o] = row[o]
    BY <1>t DEF Call, Go, TypeOK
<1>5. HistoryKept'
    BY <1>1, <1>4, HistoryAside
<1>6. RowsKept'
    BY <1>2, <1>4, RowsAside
<1>7. CallKept(c)' /\ InHand(c)'
    BY <1>2, <1>4 DEF CallKept, InHand
<1> QED BY <1>1, <1>3, <1>5, <1>6, <1>7, OthersKept DEF FileInv

LEMMA StatKeeps ==
    ASSUME FileInv, NEW c \in Callers, Stat(c)
    PROVE  FileInv'
<1>t. TypeOK
    BY DEF FileInv
<1>1. Aside(c)
    BY <1>t, StepAside DEF Step
<1>2. UNCHANGED <<clock, file, was, db, mem, mode, row, fd, first, digest, tries, seen>>
    BY DEF Stat, world, store
<1>3. TypeOK'
    BY <1>t, <1>2 DEF Stat, Go, TypeOK, Labels
<1>4. pc[c] = "stat" /\ pc'[c] \in {"row", "check", "open"} /\ meta'[c] = file.meta
    BY <1>t DEF Stat, Go, TypeOK
<1>5. HistoryKept'
    BY <1>1, <1>4, HistoryAside
<1>6. RowsKept'
    BY <1>2, RowsAside
<1>7. CallKept(c)' /\ InHand(c)'
    <2>1. file.version \in seen[c] /\ <<file.meta, file.version>> \in was
        BY <1>4 DEF FileInv, CallKept, HistoryKept
    <2> QED BY <1>2, <1>4, <2>1 DEF CallKept, InHand, MetaSeen
<1> QED BY <1>1, <1>3, <1>5, <1>6, <1>7, OthersKept DEF FileInv

LEMMA RowKeeps ==
    ASSUME FileInv, NEW c \in Callers, Row(c)
    PROVE  FileInv'
<1>t. TypeOK
    BY DEF FileInv
<1>1. Aside(c)
    BY <1>t, StepAside DEF Step
<1> DEFINE r == IF mem[Home[c]] # None THEN mem[Home[c]] ELSE db
<1>2. /\ UNCHANGED <<clock, file, was, db, mode, meta, fd, first, digest, tries, seen>>
      /\ row' = [row EXCEPT ![c] = r] /\ mem' = [mem EXCEPT ![Home[c]] = r]
    BY DEF Row, world
<1>3. TypeOK'
    BY <1>t, <1>2 DEF Row, Go, TypeOK, Labels
<1>4. /\ pc[c] = "row" /\ pc'[c] \in {"stat", "check"}
      /\ pc'[c] = "check" => mode[c] # "many"
    BY <1>t DEF Row, Go, TypeOK
<1>5. HistoryKept'
    BY <1>1, <1>4, HistoryAside
<1>6. RowsKept'
    <2>1. r # None => Exact(r.meta, r.digest)
        BY DEF FileInv, RowsKept
    <2>2. \A p \in Processes : mem'[p] = mem[p] \/ mem'[p] = r
        BY <1>t, <1>2 DEF TypeOK
    <2>3. \A o \in Callers : row'[o] = row[o] \/ row'[o] = r
        BY <1>t, <1>2 DEF TypeOK
    <2> HIDE DEF r
    <2> QED BY <1>2, <2>1, <2>2, <2>3, ExactKept DEF FileInv, RowsKept
<1>7. CallKept(c)' /\ InHand(c)'
    BY <1>2, <1>4 DEF FileInv, CallKept, InHand, MetaSeen
<1> QED BY <1>1, <1>3, <1>5, <1>6, <1>7, OthersKept DEF FileInv

\* A row that has the caller's metadata has the digest of the version they were
\* of when the caller read them.
LEMMA CheckKeeps ==
    ASSUME FileInv, NEW c \in Callers, Check(c)
    PROVE  FileInv'
<1>t. TypeOK
    BY DEF FileInv
<1>1. Aside(c)
    BY <1>t, StepAside DEF Step
<1>2. /\ UNCHANGED <<clock, file, was, db, mem, meta, fd, first, seen>>
      /\ row' = [row EXCEPT ![c] = None]
    BY DEF Check, Use, world, store
<1>3. TypeOK'
    BY <1>t, <1>2 DEF Check, Use, Go, Return, TypeOK, Labels, Rows
<1>4. pc[c] = "check" /\ pc'[c] \in {"idle", "open"} /\ MetaSeen(c)
    BY <1>t DEF Check, Use, Go, Return, TypeOK, FileInv, CallKept
<1>5. HistoryKept'
    BY <1>1, <1>4, HistoryAside
<1>6. RowsKept'
    BY <1>t, <1>2, RowsAside DEF TypeOK
<1>7. MetaSeen(c)'
    BY <1>2, <1>4 DEF MetaSeen
<1>8. CallKept(c)' /\ InHand(c)'
    <2>1. CASE row[c] # None /\ row[c].meta = meta[c]
        <3>1. pc'[c] = "idle" /\ digest'[c] = row[c].digest
            BY <1>t, <2>1 DEF Check, Use, Go, Return, TypeOK
        <3>2. Exact(meta[c], row[c].digest)
            BY <2>1 DEF FileInv, RowsKept
        <3>3. PICK v \in seen[c] : <<meta[c], v>> \in was
            BY <1>4 DEF MetaSeen
        <3>4. Blurred(meta[c]) \/ row[c].digest = <<v, v>>
            BY <1>t, <3>2, <3>3, OneVersion DEF Exact
        <3>5. DigestSeen(c)'
            BY <1>2, <3>1, <3>3, <3>4 DEF DigestSeen, Blurred
        <3> QED BY <3>1, <3>5 DEF CallKept, InHand
    <2>2. CASE ~(row[c] # None /\ row[c].meta = meta[c])
        <3>1. pc'[c] = "open"
            BY <1>t, <2>2 DEF Check, Use, Go, TypeOK
        <3> QED BY <1>2, <1>4, <1>7, <3>1 DEF FileInv, CallKept, InHand
    <2> QED BY <2>1, <2>2
<1> QED BY <1>1, <1>3, <1>5, <1>6, <1>8, OthersKept DEF FileInv

LEMMA OpenKeeps ==
    ASSUME FileInv, NEW c \in Callers, Open(c)
    PROVE  FileInv'
<1>t. TypeOK
    BY DEF FileInv
<1>1. Aside(c)
    BY <1>t, StepAside DEF Step
<1>2. UNCHANGED <<clock, file, was, db, mem, mode, meta, row, digest, tries, seen>>
    BY DEF Open, world, store
<1>3. file.meta[1] \in Inodes /\ file.version \in Versions
    BY <1>t DEF TypeOK, Metadata
<1>4. TypeOK'
    BY <1>t, <1>2, <1>3 DEF Open, Go, TypeOK, Labels
<1>5. /\ pc[c] = "open" /\ pc'[c] = "read"
      /\ fd'[c] = file.meta[1] /\ first'[c] = file.version
    BY <1>t DEF Open, Go, TypeOK
<1>6. HistoryKept'
    BY <1>1, <1>5, HistoryAside
<1>7. RowsKept'
    BY <1>2, RowsAside
<1>8. CallKept(c)' /\ InHand(c)'
    BY <1>2, <1>3, <1>5 DEF FileInv, CallKept, InHand, MetaSeen
<1> QED BY <1>1, <1>4, <1>6, <1>7, <1>8, OthersKept DEF FileInv

\* If the metadata stand, the contents are those of the version that was there
\* when the file was opened.
LEMMA ReadKeeps ==
    ASSUME FileInv, NEW c \in Callers, Read(c)
    PROVE  FileInv'
<1>t. TypeOK /\ HistoryKept
    BY DEF FileInv
<1>1. Aside(c)
    BY <1>t, StepAside DEF Step
<1>2. /\ UNCHANGED <<clock, file, was, db, mem, mode, meta, row, tries, seen>>
      /\ digest' = [digest EXCEPT ![c] = <<first[c], Contents(fd[c])>>]
      /\ fd' = [fd EXCEPT ![c] = None] /\ first' = [first EXCEPT ![c] = None]
    BY DEF Read, world, store
<1>3. pc[c] = "read" /\ pc'[c] = "restat"
    BY <1>t DEF Read, Go, TypeOK
<1>4. Contents(fd[c]) \in Versions
    <2>1. PICK x \in was : x[1][1] = fd[c]
        BY <1>t, <1>3 DEF HistoryKept
    <2>2. PICK w \in was : w[1][1] = fd[c] /\ \A y \in was : y[1][1] = fd[c] => y[2] <= w[2]
        BY <1>t, <2>1 DEF HistoryKept, HasLast
    <2>3. Contents(w[1][1]) = w[2]
        BY <1>t, <2>2, ContentsOfLast DEF TypeOK
    <2> QED BY <1>t, <2>2, <2>3 DEF TypeOK
<1>5. <<first[c], Contents(fd[c])>> \in Digests
    BY <1>3, <1>4 DEF FileInv, InHand, Digests
<1>6. TypeOK'
    BY <1>t, <1>2, <1>5 DEF Read, Go, TypeOK, Labels
<1>7. HistoryKept'
    BY <1>1, <1>3, HistoryAside
<1>8. RowsKept'
    BY <1>2, RowsAside
<1>9. Stands(c) => digest'[c] = <<file.version, file.version>>
    <2> SUFFICES ASSUME Stands(c) PROVE digest'[c] = <<file.version, file.version>>
        OBVIOUS
    <2>1. fd[c] = file.meta[1] /\ first[c] = file.version
        BY <1>3 DEF FileInv, CallKept
    <2>2. Contents(file.meta[1]) = file.version
        <3> DEFINE w == <<file.meta, file.version>>
        <3>1. w \in was /\ \A x \in was : x[2] <= w[2]
            BY <1>t DEF HistoryKept
        <3>2. Contents(w[1][1]) = w[2]
            BY <1>t, <3>1, ContentsOfLast DEF TypeOK
        <3> QED BY <3>2
    <2> QED BY <1>t, <1>2, <2>1, <2>2 DEF TypeOK
<1>10. CallKept(c)'
    BY <1>2, <1>3, <1>9 DEF FileInv, CallKept, MetaSeen, Stands, Blurred
<1>11. InHand(c)'
    BY <1>t, <1>2, <1>3, <1>5 DEF InHand, TypeOK
<1> QED BY <1>1, <1>6, <1>7, <1>8, <1>10, <1>11, OthersKept DEF FileInv

LEMMA RestatKeeps ==
    ASSUME FileInv, NEW c \in Callers, Restat(c)
    PROVE  FileInv'
<1>t. TypeOK /\ HistoryKept
    BY DEF FileInv
<1>1. Aside(c)
    BY <1>t, StepAside DEF Step
<1>2. /\ UNCHANGED <<clock, file, was, db, mem, row, fd, first, seen>>
      /\ meta' = [meta EXCEPT ![c] = file.meta] /\ pc[c] = "restat"
    BY DEF Restat, Attempted, world, store
<1>3. pc'[c] \in {"store", "open", "idle"} /\ meta'[c] = file.meta
    BY <1>t, <1>2 DEF Restat, Attempted, Go, Return, TypeOK
<1>4. TypeOK'
    BY <1>t, <1>2 DEF Restat, Attempted, Go, Return, TypeOK, Labels
<1>5. HistoryKept'
    BY <1>1, <1>3, HistoryAside
<1>6. RowsKept'
    BY <1>2, RowsAside
<1>7. file.version \in seen[c] /\ <<file.meta, file.version>> \in was
    BY <1>t, <1>2 DEF FileInv, CallKept, HistoryKept
<1>8. MetaSeen(c)'
    BY <1>2, <1>3, <1>7 DEF MetaSeen
<1>9. CASE file.meta = meta[c]
    <2>1. pc'[c] = "store" /\ digest'[c] = digest[c]
        BY <1>t, <1>9 DEF Restat, Attempted, Go, TypeOK
    <2>2. Blurred(meta[c]) \/ digest[c] = <<file.version, file.version>>
        BY <1>2, <1>9 DEF FileInv, CallKept, Stands
    <2>3. DigestSeen(c)'
        BY <1>2, <1>3, <1>7, <1>9, <2>1, <2>2 DEF DigestSeen, Blurred
    <2>4. CallKept(c)'
        BY <1>2, <1>7, <1>8, <2>1, <2>3 DEF CallKept
    <2>5. InHand(c)'
        BY <1>t, <1>2, <1>3, <2>1 DEF FileInv, InHand, TypeOK
    <2> QED BY <1>1, <1>4, <1>5, <1>6, <2>4, <2>5, OthersKept DEF FileInv
<1>10. CASE file.meta # meta[c]
    <2>1. pc'[c] \in {"open", "idle"} /\ digest'[c] = None
        BY <1>t, <1>10 DEF Restat, Attempted, Go, Return, TypeOK
    <2>2. CallKept(c)' /\ InHand(c)'
        BY <1>2, <1>7, <1>8, <2>1 DEF CallKept, InHand
    <2> QED BY <1>1, <1>4, <1>5, <1>6, <2>2, OthersKept DEF FileInv
<1> QED BY <1>9, <1>10

LEMMA StoreKeeps ==
    ASSUME FileInv, NEW c \in Callers, Store(c)
    PROVE  FileInv'
<1>t. TypeOK
    BY DEF FileInv
<1>1. Aside(c)
    BY <1>t, StepAside DEF Step
<1> DEFINE r == [meta |-> meta[c], digest |-> digest[c]]
<1>2. /\ UNCHANGED <<clock, file, was, meta, row, fd, first, digest, seen>>
      /\ db' = r /\ mem' = [mem EXCEPT ![Home[c]] = r] /\ pc[c] = "store"
    BY DEF Store, world
<1>3. r \in Rows
    BY <1>2 DEF FileInv, InHand, Rows
<1>4. TypeOK'
    BY <1>t, <1>2, <1>3 DEF Store, Return, Go, TypeOK, Labels
<1>5. pc'[c] = "idle"
    BY <1>t DEF Store, Return, Go, TypeOK
<1>6. HistoryKept'
    BY <1>1, <1>5, HistoryAside
<1>7. DigestSeen(c)
    BY <1>2 DEF FileInv, CallKept
<1>8. RowsKept'
    <2>1. Exact(r.meta, r.digest)
        BY <1>t, <1>7 DEF DigestSeen, Exact, TypeOK
    <2>2. \A p \in Processes : mem'[p] = mem[p] \/ mem'[p] = r
        BY <1>t, <1>2 DEF TypeOK
    <2> HIDE DEF r
    <2> QED BY <1>2, <2>1, <2>2, ExactKept DEF FileInv, RowsKept
<1>9. CallKept(c)' /\ InHand(c)'
    BY <1>2, <1>5, <1>7 DEF CallKept, InHand, DigestSeen, Blurred
<1> QED BY <1>1, <1>4, <1>6, <1>8, <1>9, OthersKept DEF FileInv

(***************************************************************************)
(* The theorems                                                            *)
(***************************************************************************)
\* A step that changes neither the file nor a call, and no row but to none.
LEMMA QuietKeeps ==
    ASSUME FileInv, TypeOK', UNCHANGED <<file, was, db, pc, call>>,
           \A p \in Processes : mem'[p] = mem[p] \/ mem'[p] = None
    PROVE  FileInv'
<1>1. UNCHANGED <<mode, meta, row, fd, first, digest, tries, seen>>
    BY DEF call
<1>2. HistoryKept'
    BY <1>1 DEF FileInv, HistoryKept, HasLast
<1>3. RowsKept'
    BY <1>1, RowsAside
<1>4. \A c \in Callers : CallKept(c)' /\ InHand(c)'
    BY <1>1, CallAside
<1> QED BY <1>2, <1>3, <1>4 DEF FileInv

LEMMA FileStep == FileInv /\ [Next]_vars => FileInv'
<1> SUFFICES ASSUME FileInv, [Next]_vars PROVE FileInv'
    OBVIOUS
<1>t. TypeOK
    BY DEF FileInv
<1>1. CASE Tick
    <2>1. TypeOK' /\ UNCHANGED <<file, was, db, mem, pc, call>>
        BY <1>t, <1>1 DEF Tick, TypeOK, call, store
    <2> QED BY <2>1, QuietKeeps
<1>2. CASE Write
    <2>1. file.meta[1] \in Inodes /\ Change(file.meta[1])
        BY <1>t, <1>2 DEF Write, TypeOK, Metadata
    <2> QED BY <2>1, ChangeKeeps
<1>3. CASE Replace
    BY <1>3, ChangeKeeps DEF Replace
<1>4. ASSUME NEW p \in Processes, Restart(p) PROVE FileInv'
    <2>1. TypeOK' /\ UNCHANGED <<file, was, db, pc, call>>
        BY <1>t, <1>4 DEF Restart, TypeOK, call, world
    <2>2. \A o \in Processes : mem'[o] = mem[o] \/ mem'[o] = None
        BY <1>t, <1>4 DEF Restart, TypeOK
    <2> QED BY <2>1, <2>2, QuietKeeps
<1>5. ASSUME NEW c \in Callers, NEW m \in {"single", "many", "force"}, Call(c, m)
      PROVE  FileInv'
    BY <1>5, CallKeeps
<1>6. ASSUME NEW c \in Callers, Step(c) PROVE FileInv'
    BY <1>6, StatKeeps, RowKeeps, CheckKeeps, OpenKeeps, ReadKeeps, RestatKeeps,
       StoreKeeps DEF Step
<1>7. CASE UNCHANGED vars
    <2>1. TypeOK' /\ UNCHANGED <<file, was, db, mem, pc, call>>
        BY <1>t, <1>7 DEF vars, TypeOK, call, store, world
    <2> QED BY <2>1, QuietKeeps
<1> QED BY <1>1, <1>2, <1>3, <1>4, <1>5, <1>6, <1>7 DEF Next

\* Types, history, rows and calls together are kept by every step.
THEOREM FileInvariant == Spec => []FileInv
BY FileInit, FileStep, PTL DEF Spec

\* No torn hash and no change between the hash and the store gets into a row, for
\* any number of callers and processes that share the table, of inodes, of
\* attempts and of changes; metadata that two versions share are excepted.
THEOREM StoredRowsAreExact == Spec => []RowsExact
<1>1. FileInv => RowsExact
    BY DEF FileInv, RowsKept, Exact, RowsExact
<1> QED BY <1>1, FileInvariant, PTL

\* A digest that is returned is that of one version the file had during the
\* call, whether it was hashed or came from a row, whoever stored that.
THEOREM DigestsWereThere == Spec => []ReadWasThere
<1>1. FileInv => ReadWasThere
    BY DEF FileInv, CallKept, DigestSeen, ReadWasThere
<1> QED BY <1>1, FileInvariant, PTL

HIDE FileStoreAssumption

(***************************************************************************)
(* ContentStore, for any number of callers and inodes, power failures and  *)
(* writes into what is materialized.  As long as nobody has written into a *)
(* materialized file, nothing is spoilt, and the temporary file of a put   *)
(* is whole from its last write until it gets its name; the directory of a *)
(* put is there, unless somebody has deleted the object meanwhile.         *)
(***************************************************************************)
\* Where the temporary file of a put is complete.
Written == {"parent", "check", "replace"}

ContentInv ==
    /\ Content!TypeOK
    /\ \A c \in csCallers :
          /\ csPc[c] \in Written \cup {"write"} => temp[c] # None
          /\ csPc[c] = "move" => temp[c] # None
          /\ csPc[c] \in Written /\ spoils = 0 => data[temp[c]] = "whole"
          /\ csPc[c] = "temp" /\ kind[c] = "bytes" => dir \/ deleted[c]
          /\ csPc[c] \in {"check", "replace"} => dir \/ deleted[c]
    /\ spoils = 0 => \A i \in Content!Numbers : data[i] # "spoilt"
    /\ Content!PutsHold

LEMMA ContentInit == Content!StoreAssumption /\ Content!Init => ContentInv
<1> SUFFICES ASSUME Content!StoreAssumption, Content!Init
             PROVE  ContentInv
    OBVIOUS
<1>1. Content!TypeOK
    <2>1. failures \in 0..MaxFailures /\ spoils \in 0..MaxSpoils
        BY DEF Content!StoreAssumption, Content!Init
    <2> QED BY <2>1 DEF Content!Init, Content!TypeOK, Content!Data, Content!Kinds
<1>2. Content!PutsHold
    BY DEF Content!Init, Content!PutsHold
<1> QED BY <1>1, <1>2 DEF Content!Init, ContentInv, Written

\* Every set of numbers has a least one.
LEMMA LeastOfNat ==
    ASSUME NEW S \in SUBSET Nat, S # {}
    PROVE  \E n \in S : \A m \in S : n <= m
<1> DEFINE Less == {p \in Nat \X Nat : p[1] < p[2]}
<1>1. IsWellFoundedOn(Less, Nat)
    BY NatLessThanWellFounded DEF OpToRel
<1>2. \A T : T \subseteq Nat /\ T # {} => \E x \in T : \A y \in T : <<y, x>> \notin Less
    <2> HIDE DEF Less
    <2> QED BY <1>1, WFMin
<1>3. PICK n \in S : \A m \in S : <<m, n>> \notin Less
    BY <1>2
<1>4. ASSUME NEW m \in S
      PROVE  n <= m
    <2>1. n \in Nat /\ m \in Nat /\ <<m, n>> \in Nat \X Nat /\ <<m, n>> \notin Less
        BY <1>3
    <2>2. ~ (m < n)
        BY <2>1
    <2> QED BY <2>1, <2>2
<1> QED BY <1>4

\* The inode that a new file takes is one that nothing names.
LEMMA NewInode ==
    ASSUME Content!StoreAssumption, Content!Free # {}
    PROVE  Content!Min(Content!Free) \in Content!Free
<1>1. Content!Free \in SUBSET Nat
    BY DEF Content!Free, Content!Numbers, Content!StoreAssumption
<1>2. \E n \in Content!Free : \A m \in Content!Free : n <= m
    BY <1>1, LeastOfNat
<1> QED BY <1>2 DEF Content!Min

LEMMA WithoutKeeps ==
    ASSUME data \in [Content!Numbers -> Content!Data], NEW i, NEW names
    PROVE  /\ Content!Without(i, names) \in [Content!Numbers -> Content!Data]
           /\ \A j \in Content!Numbers :
                 Content!Without(i, names)[j] = IF i # None /\ i \notin names /\ j = i
                                                  THEN "free" ELSE data[j]
    BY DEF Content!Without, Content!Data

(***************************************************************************)
(* The steps                                                               *)
(***************************************************************************)
LEMMA ContentCallKeeps ==
    ASSUME ContentInv, NEW c \in csCallers, NEW k \in Content!Kinds, Content!Call(c, k)
    PROVE  ContentInv'
<1> USE DEF Content!Call, Content!Go, Content!disk
<1>1. Content!TypeOK'
    BY DEF ContentInv, Content!TypeOK, Content!Kinds
<1>2. Content!PutsHold'
    BY DEF ContentInv, Content!PutsHold, Content!TypeOK
<1> QED BY <1>1, <1>2 DEF ContentInv, Content!TypeOK, Content!Kinds, Written

LEMMA HasKeeps ==
    ASSUME ContentInv, NEW c \in csCallers, Content!Has(c)
    PROVE  ContentInv'
<1> USE DEF Content!Has, Content!Go, Content!End, Content!disk
<1>1. Content!TypeOK'
    BY DEF ContentInv, Content!TypeOK, Content!Kinds
<1>2. Content!PutsHold'
    BY DEF ContentInv, Content!PutsHold, Content!TypeOK, Content!Present
<1> QED BY <1>1, <1>2 DEF ContentInv, Content!TypeOK, Written

LEMMA MkdirKeeps ==
    ASSUME ContentInv, NEW c \in csCallers, Content!Mkdir(c)
    PROVE  ContentInv'
<1> USE DEF Content!Mkdir, Content!Go
<1>1. Content!TypeOK'
    BY DEF ContentInv, Content!TypeOK
<1>2. Content!PutsHold'
    BY DEF ContentInv, Content!PutsHold, Content!TypeOK
<1> QED BY <1>1, <1>2 DEF ContentInv, Content!TypeOK, Written

LEMMA MkstempKeeps ==
    ASSUME Content!StoreAssumption, ContentInv, NEW c \in csCallers, Content!Mkstemp(c)
    PROVE  ContentInv'
<1>1. CASE kind[c] = "bytes" /\ ~dir
    <2> USE <1>1 DEF Content!Mkstemp, Content!End
    <2>1. Content!TypeOK'
        BY DEF ContentInv, Content!TypeOK, Content!Kinds
    <2>2. Content!PutsHold'
        BY DEF ContentInv, Content!PutsHold, Content!TypeOK
    <2> QED BY <2>1, <2>2 DEF ContentInv, Content!TypeOK, Written
<1>2. CASE ~(kind[c] = "bytes" /\ ~dir)
    <2> DEFINE i == Content!Min(Content!Free)
    <2>1. i \in Content!Numbers /\ i \notin Content!Names({}) /\ i # None
        BY <1>2, NewInode DEF Content!Mkstemp, Content!Free, Content!Numbers, Content!StoreAssumption
    <2>2. /\ data' = [data EXCEPT ![i] = "part"] /\ temp' = [temp EXCEPT ![c] = i]
          /\ csPc[c] = "temp" /\ csPc' = [csPc EXCEPT ![c] = "write"]
          /\ UNCHANGED <<kind, outcome, dir, object, held, deleted, failures, spoils>>
        BY <1>2 DEF Content!Mkstemp, Content!Go
    <2>3. i # object /\ \A e \in csCallers : i # temp[e]
        BY <2>1 DEF Content!Names
    <2> HIDE DEF i
    <2>4. Content!TypeOK'
        BY <2>1, <2>2 DEF ContentInv, Content!TypeOK, Content!Data
    <2>5. Content!PutsHold'
        BY <2>1, <2>2, <2>3 DEF ContentInv, Content!PutsHold, Content!TypeOK
    <2> QED BY <2>1, <2>2, <2>3, <2>4, <2>5 DEF ContentInv, Content!TypeOK, Written
<1> QED BY <1>1, <1>2

LEMMA WriteKeeps ==
    ASSUME ContentInv, NEW c \in csCallers, Content!Write(c)
    PROVE  ContentInv'
<1> USE DEF Content!Write, Content!Go
<1>1. Content!TypeOK'
    BY DEF ContentInv, Content!TypeOK, Content!Data
<1>2. Content!PutsHold'
    BY DEF ContentInv, Content!PutsHold, Content!TypeOK, Written
<1> QED BY <1>1, <1>2 DEF ContentInv, Content!TypeOK, Written

LEMMA CheckKeepsObject ==
    ASSUME ContentInv, NEW c \in csCallers, Content!Check(c)
    PROVE  ContentInv'
<1> DEFINE after == Content!Without(temp[c], Content!Names({c}))
<1>1. CASE Content!Present
    <2>1. /\ data' = after /\ temp' = [temp EXCEPT ![c] = None]
          /\ csPc' = [csPc EXCEPT ![c] = "idle"] /\ kind' = [kind EXCEPT ![c] = "bytes"]
          /\ outcome' = [outcome EXCEPT ![c] = "put"]
          /\ UNCHANGED <<dir, object, held, deleted, failures, spoils>>
        BY <1>1 DEF Content!Check, Content!End
    <2>2. /\ after \in [Content!Numbers -> Content!Data]
          /\ \A j \in Content!Numbers : after[j] = data[j] \/ after[j] = "free"
          /\ object # None => after[object] = data[object]
          /\ \A e \in csCallers \ {c} : temp[e] # None => after[temp[e]] = data[temp[e]]
        BY WithoutKeeps DEF ContentInv, Content!TypeOK, Content!Names
    <2> HIDE DEF after
    <2>3. Content!TypeOK'
        BY <2>1, <2>2 DEF ContentInv, Content!TypeOK, Content!Kinds
    <2>4. Content!PutsHold'
        BY <1>1, <2>1, <2>2 DEF ContentInv, Content!PutsHold, Content!TypeOK, Content!Present
    <2> QED BY <2>1, <2>2, <2>3, <2>4 DEF ContentInv, Content!TypeOK, Written
<1>2. CASE ~Content!Present
    <2> USE <1>2 DEF Content!Check, Content!Go
    <2>1. Content!TypeOK'
        BY DEF ContentInv, Content!TypeOK
    <2>2. Content!PutsHold'
        BY DEF ContentInv, Content!PutsHold, Content!TypeOK
    <2> QED BY <2>1, <2>2 DEF ContentInv, Content!TypeOK, Written
<1> QED BY <1>1, <1>2

LEMMA ReplaceKeeps ==
    ASSUME ContentInv, NEW c \in csCallers, Content!Replace(c)
    PROVE  ContentInv'
<1>1. CASE dir
    <2> DEFINE after == Content!Without(object, {temp[e] : e \in csCallers} \cup {held[e] : e \in csCallers})
    <2>1. /\ data' = after /\ object' = temp[c] /\ temp' = [temp EXCEPT ![c] = None]
          /\ csPc[c] = "replace" /\ csPc' = [csPc EXCEPT ![c] = "idle"]
          /\ kind' = [kind EXCEPT ![c] = "bytes"] /\ outcome' = [outcome EXCEPT ![c] = "put"]
          /\ UNCHANGED <<dir, held, deleted, failures, spoils>>
        BY <1>1 DEF Content!Replace, Content!End
    <2>2. /\ after \in [Content!Numbers -> Content!Data]
          /\ \A j \in Content!Numbers : after[j] = data[j] \/ after[j] = "free"
          /\ \A e \in csCallers : temp[e] # None => after[temp[e]] = data[temp[e]]
        BY WithoutKeeps DEF ContentInv, Content!TypeOK
    <2> HIDE DEF after
    <2>3. Content!TypeOK'
        BY <1>1, <2>1, <2>2 DEF ContentInv, Content!TypeOK, Content!Kinds
    <2>4. temp[c] # None /\ (spoils = 0 => data'[object'] = "whole")
        BY <2>1, <2>2 DEF ContentInv, Written
    <2>5. Content!PutsHold'
        BY <2>1, <2>2, <2>4 DEF ContentInv, Content!PutsHold, Content!TypeOK
    <2> QED BY <2>1, <2>2, <2>3, <2>5 DEF ContentInv, Content!TypeOK, Written
<1>2. CASE ~dir
    <2> DEFINE after == Content!Without(temp[c], Content!Names({c}))
    <2>1. /\ data' = after /\ temp' = [temp EXCEPT ![c] = None]
          /\ csPc[c] = "replace" /\ csPc' = [csPc EXCEPT ![c] = "idle"]
          /\ kind' = [kind EXCEPT ![c] = "bytes"]
          /\ outcome' = [outcome EXCEPT ![c] = IF Content!Present THEN "put" ELSE "raised"]
          /\ UNCHANGED <<dir, object, held, deleted, failures, spoils>>
        BY <1>2 DEF Content!Replace, Content!End
    <2>2. /\ after \in [Content!Numbers -> Content!Data]
          /\ \A j \in Content!Numbers : after[j] = data[j] \/ after[j] = "free"
          /\ object # None => after[object] = data[object]
          /\ \A e \in csCallers \ {c} : temp[e] # None => after[temp[e]] = data[temp[e]]
        BY WithoutKeeps DEF ContentInv, Content!TypeOK, Content!Names
    <2> HIDE DEF after
    <2>3. Content!TypeOK'
        BY <2>1, <2>2 DEF ContentInv, Content!TypeOK, Content!Kinds
    <2>4. Content!PutsHold'
        BY <1>2, <2>1, <2>2 DEF ContentInv, Content!PutsHold, Content!TypeOK, Content!Present
    <2> QED BY <2>1, <2>2, <2>3, <2>4 DEF ContentInv, Content!TypeOK, Written
<1> QED BY <1>1, <1>2

LEMMA LinkKeeps ==
    ASSUME Content!StoreAssumption, ContentInv, NEW c \in csCallers, Content!Link(c)
    PROVE  ContentInv'
<1>1. CASE object = None /\ Content!End(c, "other") /\ UNCHANGED <<data, temp>>
    <2> USE <1>1 DEF Content!Link, Content!End
    <2>1. Content!TypeOK'
        BY DEF ContentInv, Content!TypeOK, Content!Kinds
    <2>2. Content!PutsHold'
        BY DEF ContentInv, Content!PutsHold, Content!TypeOK
    <2> QED BY <2>1, <2>2 DEF ContentInv, Content!TypeOK, Written
<1>2. CASE object # None /\ temp' = [temp EXCEPT ![c] = object] /\ Content!Go(c, "move")
           /\ UNCHANGED <<data, kind, outcome>>
    <2> USE <1>2 DEF Content!Link, Content!Go
    <2>1. Content!TypeOK'
        BY DEF ContentInv, Content!TypeOK
    <2>2. Content!PutsHold'
        BY DEF ContentInv, Content!PutsHold, Content!TypeOK
    <2> QED BY <2>1, <2>2 DEF ContentInv, Content!TypeOK, Written
<1>3. CASE /\ object # None /\ Content!Free # {}
           /\ temp' = [temp EXCEPT ![c] = Content!Min(Content!Free)]
           /\ data' = [data EXCEPT ![Content!Min(Content!Free)] = data[object]]
           /\ Content!Go(c, "move") /\ UNCHANGED <<kind, outcome>>
    <2> DEFINE i == Content!Min(Content!Free)
    <2>1. i \in Content!Numbers /\ i \notin Content!Names({}) /\ i # None
        BY <1>3, NewInode DEF Content!Free, Content!Numbers, Content!StoreAssumption
    <2>2. /\ object # None /\ data' = [data EXCEPT ![i] = data[object]]
          /\ temp' = [temp EXCEPT ![c] = i]
          /\ csPc[c] = "link" /\ csPc' = [csPc EXCEPT ![c] = "move"]
          /\ UNCHANGED <<kind, outcome, dir, object, held, deleted, failures, spoils>>
        BY <1>3 DEF Content!Link, Content!Go
    <2>3. i # object /\ \A e \in csCallers : i # temp[e]
        BY <2>1 DEF Content!Names
    <2> HIDE DEF i
    <2>4. Content!TypeOK'
        BY <2>1, <2>2 DEF ContentInv, Content!TypeOK
    <2>5. Content!PutsHold'
        BY <2>1, <2>2, <2>3 DEF ContentInv, Content!PutsHold, Content!TypeOK
    <2> QED BY <2>1, <2>2, <2>3, <2>4, <2>5 DEF ContentInv, Content!TypeOK, Written
<1> QED BY <1>1, <1>2, <1>3 DEF Content!Link

LEMMA MoveKeeps ==
    ASSUME ContentInv, NEW c \in csCallers, Content!Move(c)
    PROVE  ContentInv'
<1> DEFINE after == Content!Without(held[c], {object} \cup {temp[e] : e \in csCallers}
                                        \cup {held[e] : e \in csCallers \ {c}})
<1>1. /\ data' = after /\ held' = [held EXCEPT ![c] = temp[c]]
      /\ temp' = [temp EXCEPT ![c] = None]
      /\ csPc[c] = "move" /\ csPc' = [csPc EXCEPT ![c] = "idle"]
      /\ kind' = [kind EXCEPT ![c] = "bytes"] /\ outcome' = [outcome EXCEPT ![c] = "other"]
      /\ UNCHANGED <<dir, object, deleted, failures, spoils>>
    BY DEF Content!Move, Content!End
<1>2. /\ after \in [Content!Numbers -> Content!Data]
      /\ \A j \in Content!Numbers : after[j] = data[j] \/ after[j] = "free"
      /\ object # None => after[object] = data[object]
      /\ \A e \in csCallers : temp[e] # None => after[temp[e]] = data[temp[e]]
    BY WithoutKeeps DEF ContentInv, Content!TypeOK
<1> HIDE DEF after
<1>3. Content!TypeOK'
    BY <1>1, <1>2 DEF ContentInv, Content!TypeOK, Content!Kinds
<1>4. Content!PutsHold'
    BY <1>1, <1>2 DEF ContentInv, Content!PutsHold, Content!TypeOK
<1> QED BY <1>1, <1>2, <1>3, <1>4 DEF ContentInv, Content!TypeOK, Written

LEMMA SpoilKeeps ==
    ASSUME Content!StoreAssumption, ContentInv, NEW c \in csCallers, Content!Spoil(c)
    PROVE  ContentInv'
<1> USE DEF Content!Spoil
<1>1. Content!TypeOK' /\ spoils' # 0
    BY DEF ContentInv, Content!TypeOK, Content!Data, Content!StoreAssumption
<1>2. Content!PutsHold'
    BY <1>1 DEF ContentInv, Content!PutsHold, Content!TypeOK
<1> QED BY <1>1, <1>2 DEF ContentInv, Content!TypeOK, Written

LEMMA UnlinkKeeps ==
    ASSUME ContentInv, NEW c \in csCallers, Content!Unlink(c)
    PROVE  ContentInv'
<1>1. CASE object = None
    <2> USE <1>1 DEF Content!Unlink, Content!End
    <2>1. Content!TypeOK'
        BY DEF ContentInv, Content!TypeOK, Content!Kinds
    <2>2. Content!PutsHold'
        BY DEF ContentInv, Content!PutsHold, Content!TypeOK
    <2> QED BY <2>1, <2>2 DEF ContentInv, Content!TypeOK, Written
<1>2. CASE object # None
    <2> DEFINE after == Content!Without(object, {temp[e] : e \in csCallers} \cup {held[e] : e \in csCallers})
    <2>1. /\ data' = after /\ object' = None /\ csPc' = [csPc EXCEPT ![c] = "rmdir"]
          /\ deleted' = [e \in csCallers |-> TRUE]
          /\ UNCHANGED <<dir, kind, outcome, temp, held, failures, spoils>>
        BY <1>2 DEF Content!Unlink, Content!Go
    <2>2. /\ after \in [Content!Numbers -> Content!Data]
          /\ \A j \in Content!Numbers : after[j] = data[j] \/ after[j] = "free"
          /\ \A e \in csCallers : temp[e] # None => after[temp[e]] = data[temp[e]]
        BY WithoutKeeps DEF ContentInv, Content!TypeOK
    <2> HIDE DEF after
    <2>3. Content!TypeOK'
        BY <2>1, <2>2 DEF ContentInv, Content!TypeOK
    <2>4. Content!PutsHold'
        BY <2>1 DEF Content!PutsHold
    <2> QED BY <2>1, <2>2, <2>3, <2>4 DEF ContentInv, Content!TypeOK, Written
<1> QED BY <1>1, <1>2

LEMMA RmdirKeeps ==
    ASSUME ContentInv, NEW c \in csCallers, Content!Rmdir(c)
    PROVE  ContentInv'
<1> USE DEF Content!Rmdir, Content!End
<1>1. Content!TypeOK'
    BY DEF ContentInv, Content!TypeOK, Content!Kinds
<1>2. Content!PutsHold'
    BY DEF Content!PutsHold
<1> QED BY <1>1, <1>2 DEF ContentInv, Content!TypeOK, Written

LEMMA PowerKeeps ==
    ASSUME Content!StoreAssumption, ContentInv, Content!PowerFails
    PROVE  ContentInv'
<1>1. /\ csPc' = [e \in csCallers |-> "idle"] /\ kind' = [e \in csCallers |-> "bytes"]
      /\ temp' = [e \in csCallers |-> None] /\ outcome' = [e \in csCallers |-> "none"]
      /\ failures' \in 0..MaxFailures
      /\ UNCHANGED <<dir, object, held, deleted, spoils>>
    BY DEF Content!PowerFails, ContentInv, Content!TypeOK, Content!StoreAssumption
<1>2. /\ data' \in [Content!Numbers -> Content!Data]
      /\ \A j \in Content!Numbers : data'[j] = "spoilt" => data[j] = "spoilt"
    BY DEF Content!PowerFails, ContentInv, Content!TypeOK, Content!Data
<1>3. Content!TypeOK'
    BY <1>1, <1>2 DEF ContentInv, Content!TypeOK, Content!Kinds
<1>4. Content!PutsHold'
    BY <1>1 DEF Content!PutsHold
<1> QED BY <1>1, <1>2, <1>3, <1>4 DEF ContentInv, Written

LEMMA ContentStep ==
    Content!StoreAssumption /\ ContentInv /\ [Content!Next]_Content!vars => ContentInv'
<1> SUFFICES ASSUME Content!StoreAssumption, ContentInv, [Content!Next]_Content!vars
             PROVE  ContentInv'
    OBVIOUS
<1>1. ASSUME NEW c \in csCallers, Content!Step(c) PROVE ContentInv'
    BY <1>1, HasKeeps, MkdirKeeps, MkstempKeeps, WriteKeeps, CheckKeepsObject, ReplaceKeeps,
       LinkKeeps, MoveKeeps, UnlinkKeeps, RmdirKeeps DEF Content!Step
<1>2. ASSUME NEW c \in csCallers, Content!Spoil(c) PROVE ContentInv'
    BY <1>2, SpoilKeeps
<1>3. ASSUME NEW c \in csCallers, NEW k \in Content!Kinds, Content!Call(c, k) PROVE ContentInv'
    BY <1>3, ContentCallKeeps
<1>4. CASE UNCHANGED Content!vars
    BY <1>4 DEF Content!vars, Content!disk, ContentInv, Content!TypeOK, Content!PutsHold, Written
<1> QED BY <1>1, <1>2, <1>3, <1>4, PowerKeeps DEF Content!Next

\* The store's variables have their types, and what a put has written is whole.
THEOREM ContentInvariant == Content!StoreAssumption => (Content!Spec => []ContentInv)
<1>1. SUFFICES ASSUME Content!StoreAssumption
               PROVE  Content!Spec => []ContentInv
    OBVIOUS
<1>2. Content!Init => ContentInv
    BY <1>1, ContentInit
<1>3. ContentInv /\ [Content!Next]_Content!vars => ContentInv'
    BY <1>1, ContentStep
<1> QED BY <1>2, <1>3, PTL DEF Content!Spec

(***************************************************************************)
(* MerkleCache, over any tree of directories and files, any manifest and   *)
(* any directories that are moved.  The invariant speaks of what the next  *)
(* read keeps, so every change is answered at once by the path that was    *)
(* recorded for it.  First the tree: the directories above a node are a    *)
(* chain, which goes on up to the root.                                    *)
(***************************************************************************)
\* What the assumption says of Above.
LEMMA AboveIs ==
    Merkle!TreeAssumption =>
      Above = [n \in Merkle!Nodes |->
                 IF n = Root THEN {}
                 ELSE {e \in Dirs : \A S \in Merkle!Closed : Parent[n] \in S => e \in S}]
    BY DEF Merkle!TreeAssumption, Merkle!AboveAssumption

\* What is above a node are directories.
LEMMA AboveType == Merkle!TreeAssumption => Above \in [Merkle!Nodes -> SUBSET Dirs]
    BY AboveIs

\* ... and its parent is one of them.
LEMMA ParentIsAbove ==
    ASSUME Merkle!TreeAssumption, NEW n \in Merkle!Nodes, n # Root
    PROVE  Parent[n] \in Dirs /\ Parent[n] \in Above[n]
    BY AboveIs DEF Merkle!TreeAssumption, Merkle!Nodes

\* What is above n is closed: it goes on up to the root.
LEMMA AboveIsClosed ==
    ASSUME Merkle!TreeAssumption, NEW n \in Merkle!Nodes
    PROVE  Above[n] \in Merkle!Closed
<1>1. CASE n = Root
    BY <1>1, AboveIs DEF Merkle!Closed
<1>2. CASE n # Root
    <2>1. ASSUME NEW x \in Above[n], x # Root PROVE Parent[x] \in Above[n]
        BY <1>2, <2>1, AboveIs DEF Merkle!Closed, Merkle!TreeAssumption, Merkle!Nodes
    <2> QED BY <2>1, AboveType DEF Merkle!Closed
<1> QED BY <1>1, <1>2

\* Above is transitive.
LEMMA AboveTransitive ==
    ASSUME Merkle!TreeAssumption, NEW n \in Merkle!Nodes, NEW y \in Above[n],
           NEW x \in Above[y]
    PROVE  x \in Above[n]
<1>1. y \in Dirs /\ y \in Merkle!Nodes /\ y # Root
    BY AboveType, AboveIs DEF Merkle!Nodes
<1>2. Above[n] \in Merkle!Closed /\ Parent[y] \in Above[n]
    BY <1>1, AboveIsClosed DEF Merkle!Closed
<1> QED BY <1>1, <1>2, AboveIs

\* The directories above n are those of its parent, and the parent.
LEMMA AboveUnfolds ==
    ASSUME Merkle!TreeAssumption, NEW n \in Merkle!Nodes, n # Root
    PROVE  Above[n] = {Parent[n]} \cup Above[Parent[n]]
<1> DEFINE p == Parent[n]
           S == {p} \cup Above[p]
<1>1. p \in Dirs /\ p \in Merkle!Nodes /\ p \in Above[n]
    BY ParentIsAbove DEF Merkle!Nodes
<1>2. Above[p] \in Merkle!Closed /\ S \subseteq Dirs
    BY <1>1, AboveIsClosed, AboveType DEF Merkle!Closed
<1>3. S \in Merkle!Closed
    BY <1>1, <1>2, ParentIsAbove DEF Merkle!Closed
<1>4. Above[n] \subseteq S
    BY <1>3, AboveIs
<1>5. S \subseteq Above[n]
    BY <1>1, AboveTransitive
<1> QED BY <1>4, <1>5

\* Of two directories above n one is above the other.
LEMMA AboveIsAChain ==
    ASSUME Merkle!TreeAssumption, NEW n \in Merkle!Nodes, NEW x \in Above[n],
           NEW y \in Above[n]
    PROVE  x = y \/ x \in Above[y] \/ y \in Above[x]
<1> DEFINE S == {z \in Dirs : x = z \/ x \in Above[z] \/ z \in Above[x]}
<1>1. n # Root /\ x \in Dirs /\ x \in Merkle!Nodes
    BY AboveType, AboveIs DEF Merkle!Nodes
<1>2. ASSUME NEW z \in S, z # Root PROVE Parent[z] \in S
    <2>1. z \in Merkle!Nodes /\ Parent[z] \in Dirs
        BY <1>2, ParentIsAbove DEF Merkle!Nodes
    <2>2. CASE x = z
        BY <1>2, <2>1, <2>2, ParentIsAbove
    <2>3. CASE x \in Above[z]
        BY <1>2, <2>1, <2>3, AboveUnfolds
    <2>4. CASE z \in Above[x]
        <3>1. Above[x] \in Merkle!Closed
            BY <1>1, AboveIsClosed
        <3> QED BY <1>2, <2>1, <2>4, <3>1 DEF Merkle!Closed
    <2> QED BY <1>2, <2>2, <2>3, <2>4
<1>3. S \in Merkle!Closed
    BY <1>2 DEF Merkle!Closed
<1>4. Parent[n] \in S
    BY <1>1, AboveUnfolds, ParentIsAbove
<1>5. y \in S
    BY <1>1, <1>3, <1>4, AboveIs
<1> QED BY <1>5

\* What the next read keeps, spelled out ...
LEMMA KeptBefore ==
    ASSUME DOMAIN dirCache = Dirs, DOMAIN pathCache = Files, DOMAIN leaf = Terminals
    PROVE  /\ DOMAIN Merkle!KeptDirs = Dirs /\ DOMAIN Merkle!KeptPaths = Files
           /\ DOMAIN Merkle!KeptLeaves = Terminals
           /\ \A x \in Dirs : Merkle!KeptDirs[x] =
                 IF tState = "unknown" \/ \E p \in tPaths : Merkle!Invalidates(p, x)
                 THEN None ELSE dirCache[x]
           /\ \A x \in Files : Merkle!KeptPaths[x] =
                 IF tState = "unknown" \/ Merkle!PathForgotten(x)
                 THEN None ELSE pathCache[x]
           /\ \A x \in Terminals : Merkle!KeptLeaves[x] =
                 IF tState = "unknown" \/ Merkle!LeafForgotten(x) THEN None ELSE leaf[x]
    BY DEF Merkle!KeptDirs, Merkle!KeptPaths, Merkle!KeptLeaves, Merkle!Forget

(***************************************************************************)
(* The caches                                                              *)
(***************************************************************************)
\* What a directory's digest, kept by the next read, says of a node that no move
\* endangers is what the node is.
DirsHonest ==
    \A e \in Dirs : Merkle!KeptDirs[e] # None =>
        \A n \in Merkle!Below(e) : Merkle!AtRisk(n) \/ Merkle!KeptDirs[e][n] = now[n]

PathsHonest == \A g \in Files : Merkle!AtRisk(g) \/ Merkle!TrustedPath(g)

LeafHonest(n) ==
    IF n \in Dirs
      THEN Merkle!KeptLeaves[n] # None =>
             /\ Merkle!KeptLeaves[n] = [m \in Merkle!Below(n) |-> Merkle!KeptLeaves[n][m]]
             /\ \A m \in Merkle!Below(n) :
                 Merkle!AtRisk(m) \/ Merkle!KeptLeaves[n][m] = now[m]
      ELSE Merkle!AtRisk(n) \/ Merkle!TrustedLeaf(n)

LeavesHonest == \A n \in Terminals : LeafHonest(n)

MerkleTyped == Merkle!TypeOK /\ DOMAIN dirCache = Dirs

MerkleInv == MerkleTyped /\ DirsHonest /\ PathsHonest /\ LeavesHonest

\* ... and the same after a step.
LEMMA KeptAfter ==
    ASSUME (DOMAIN dirCache)' = Dirs, (DOMAIN pathCache)' = Files,
           (DOMAIN leaf)' = Terminals
    PROVE  /\ \A x \in Dirs : (Merkle!KeptDirs')[x] =
                 IF tState' = "unknown" \/ \E p \in tPaths' : Merkle!Invalidates(p, x)'
                 THEN None ELSE dirCache'[x]
           /\ \A x \in Files : (Merkle!KeptPaths')[x] =
                 IF tState' = "unknown" \/ Merkle!PathForgotten(x)'
                 THEN None ELSE pathCache'[x]
           /\ \A x \in Terminals : (Merkle!KeptLeaves')[x] =
                 IF tState' = "unknown" \/ Merkle!LeafForgotten(x)' THEN None ELSE leaf'[x]
    BY DEF Merkle!KeptDirs, Merkle!KeptPaths, Merkle!KeptLeaves, Merkle!Forget

LEMMA MerkleDomains ==
    ASSUME MerkleTyped
    PROVE  DOMAIN dirCache = Dirs /\ DOMAIN pathCache = Files /\ DOMAIN leaf = Terminals
    BY DEF MerkleTyped, Merkle!TypeOK

\* At the beginning nothing is cached.
LEMMA MerkleInit == Merkle!TreeAssumption /\ Merkle!Init => MerkleInv
<1> SUFFICES ASSUME Merkle!TreeAssumption, Merkle!Init PROVE MerkleInv
    OBVIOUS
<1>1. MerkleTyped
    BY DEF Merkle!Init, MerkleTyped, Merkle!TypeOK, Merkle!Versions, Merkle!Here
<1>2. /\ \A x \in Dirs : Merkle!KeptDirs[x] = None
      /\ \A x \in Files : Merkle!KeptPaths[x] = None
      /\ \A x \in Terminals : Merkle!KeptLeaves[x] = None
    BY <1>1, MerkleDomains, KeptBefore DEF Merkle!Init
<1>3. Terminals \subseteq Merkle!Nodes
    BY DEF Merkle!TreeAssumption
<1> QED BY <1>1, <1>2, <1>3 DEF MerkleInv, DirsHonest, PathsHonest, LeavesHonest,
          LeafHonest,
                               Merkle!TrustedPath, Merkle!TrustedLeaf, Merkle!Nodes

\* A change of a file: what spoke of it is above it, and forgotten.
LEMMA FileChangeKeeps ==
    ASSUME Merkle!TreeAssumption, MerkleInv, NEW g \in Files,
           Merkle!WriteFile(g) \/ Merkle!DeleteFile(g)
    PROVE  MerkleInv'
<1> USE DEF Merkle!TreeAssumption
<1>1. /\ now' = [now EXCEPT ![g] = now'[g]] /\ now'[g] \in Nat \cup {Absent}
      /\ mkClock' \in Nat
      /\ tPaths' = tPaths \cup {g}
      /\ tState' = (IF tState = "unknown" THEN "unknown" ELSE "dirty")
      /\ UNCHANGED <<dirCache, pathCache, leaf, moved>>
    BY DEF Merkle!WriteFile, Merkle!DeleteFile, Merkle!Tick, Merkle!Recorded, Merkle!caches,
       MerkleInv, MerkleTyped, Merkle!TypeOK, Merkle!Nodes
<1>2. g \in Merkle!Nodes /\ g \notin Dirs /\ now \in [Merkle!Nodes -> Nat \cup {Absent}]
      /\ moved \subseteq Dirs /\ tPaths \subseteq Merkle!Nodes
    BY DEF Merkle!Nodes, MerkleInv, MerkleTyped, Merkle!TypeOK
<1>3. MerkleTyped'
    BY <1>1, <1>2 DEF MerkleInv, MerkleTyped, Merkle!TypeOK, Merkle!Nodes, Merkle!Below
<1>4. \A n \in Merkle!Nodes : n # g => now'[n] = now[n]
    BY <1>1, <1>2
<1>5. \A n \in Merkle!Nodes : Merkle!AtRisk(n)' <=> Merkle!AtRisk(n)
    BY <1>1, <1>2, <1>4 DEF Merkle!AtRisk, Merkle!Exists, Merkle!Nodes
<1>6. \A p \in Merkle!Nodes : Merkle!IsDir(p)' <=> Merkle!IsDir(p)
    BY <1>2, <1>4 DEF Merkle!IsDir, Merkle!Exists
<1>7. MerkleTyped /\ DOMAIN dirCache = Dirs /\ DOMAIN pathCache = Files
      /\ DOMAIN leaf = Terminals
      /\ (DOMAIN dirCache)' = Dirs /\ (DOMAIN pathCache)' = Files
      /\ (DOMAIN leaf)' = Terminals
    BY <1>3 DEF MerkleInv, MerkleTyped, Merkle!TypeOK
<1>8. DirsHonest'
    <2>1. ASSUME NEW x \in Dirs, (Merkle!KeptDirs')[x] # None, NEW n \in Merkle!Below(x)
          PROVE  Merkle!AtRisk(n)' \/ (Merkle!KeptDirs')[x][n] = now'[n]
        <3>1. /\ tState' # "unknown" /\ \A p \in tPaths' : ~Merkle!Invalidates(p, x)'
              /\ (Merkle!KeptDirs')[x] = dirCache'[x]
            BY <1>7, <2>1, KeptAfter
        <3>2. \A p \in tPaths : ~Merkle!Invalidates(p, x)
            BY <1>1, <1>2, <1>6, <3>1 DEF Merkle!Invalidates
        <3>3. Merkle!KeptDirs[x] = dirCache[x]
            BY <1>1, <1>7, <3>1, <3>2, KeptBefore
        <3>4. ~Merkle!Invalidates(g, x)'
            BY <1>1, <3>1
        <3>5. n \in Merkle!Nodes /\ n # g
            BY <1>2, <2>1, <3>4 DEF Merkle!Invalidates, Merkle!Below, Merkle!IsDir
        <3> QED BY <1>1, <1>4, <1>5, <2>1, <3>1, <3>3, <3>5 DEF MerkleInv, DirsHonest
    <2> QED BY <2>1 DEF DirsHonest, Merkle!Below
<1>9. PathsHonest'
    <2>1. ASSUME NEW x \in Files, (Merkle!KeptPaths')[x] # None
          PROVE  Merkle!AtRisk(x)' \/ (Merkle!KeptPaths')[x] = now'[x]
        <3>1. /\ tState' # "unknown" /\ ~Merkle!PathForgotten(x)'
              /\ (Merkle!KeptPaths')[x] = pathCache'[x]
            BY <1>7, <2>1, KeptAfter
        <3>2. ~Merkle!PathForgotten(x) /\ x # g
            BY <1>1, <1>2, <1>6, <3>1 DEF Merkle!PathForgotten, Merkle!Below
        <3>3. Merkle!KeptPaths[x] = pathCache[x]
            BY <1>1, <1>7, <3>1, <3>2, KeptBefore
        <3> QED BY <1>1, <1>4, <1>5, <2>1, <3>1, <3>2, <3>3 DEF MerkleInv, PathsHonest,
                  Merkle!TrustedPath, Merkle!Nodes
    <2> QED BY <2>1 DEF PathsHonest, Merkle!TrustedPath
<1>10. LeavesHonest'
    <2>1. ASSUME NEW x \in Terminals, (Merkle!KeptLeaves')[x] # None
          PROVE  /\ (Merkle!KeptLeaves')[x] = Merkle!KeptLeaves[x]
                 /\ x # g /\ x \notin Above[g]
        <3>1. /\ tState' # "unknown" /\ ~Merkle!LeafForgotten(x)'
              /\ (Merkle!KeptLeaves')[x] = leaf'[x]
            BY <1>7, <2>1, KeptAfter
        <3>2. ~Merkle!LeafForgotten(x) /\ x # g /\ x \notin Above[g]
            BY <1>1, <3>1 DEF Merkle!LeafForgotten
        <3> QED BY <1>1, <1>7, <3>1, <3>2, KeptBefore
    <2>2. ASSUME NEW x \in Terminals, x \in Dirs PROVE LeafHonest(x)'
        BY <1>4, <1>5, <2>1, <2>2 DEF MerkleInv, LeavesHonest, LeafHonest, Merkle!Below
    <2>3. ASSUME NEW x \in Terminals, x \notin Dirs PROVE LeafHonest(x)'
        BY <1>4, <1>5, <2>1, <2>3 DEF MerkleInv, LeavesHonest, LeafHonest,
           Merkle!TrustedLeaf
    <2> QED BY <2>2, <2>3 DEF LeavesHonest
<1> QED BY <1>3, <1>8, <1>9, <1>10 DEF MerkleInv

\* A directory moved away: what is below it is at risk from now on, and what speaks of
\* the directory itself is forgotten.  A path recorded before that is no directory any
\* more invalidates less than it did: itself and what is below it, all of it at risk.
LEMMA MoveAwayKeeps ==
    ASSUME Merkle!TreeAssumption, MerkleInv, NEW e \in Movable, Merkle!MoveAway(e)
    PROVE  MerkleInv'
<1> DEFINE Gone == {e} \cup Merkle!Below(e)
<1>1. e \in Dirs /\ e \in Merkle!Nodes /\ Dirs \cap Files = {}
      /\ Terminals \subseteq Merkle!Nodes
      /\ Gone \subseteq Merkle!Nodes
    BY DEF Merkle!TreeAssumption, Merkle!Nodes, Merkle!Below
<1>2. /\ now' = [n \in Merkle!Nodes |-> IF n \in Gone THEN Absent ELSE now[n]]
      /\ mkClock' \in Nat
      /\ tPaths' = tPaths \cup {e} /\ moved' = moved \cup {e}
      /\ tState' = (IF tState = "unknown" THEN "unknown" ELSE "dirty")
      /\ UNCHANGED <<dirCache, pathCache, leaf>>
    BY DEF Merkle!MoveAway, Merkle!Tick, Merkle!Recorded, Merkle!caches, MerkleInv,
       MerkleTyped, Merkle!TypeOK
<1>3. now \in [Merkle!Nodes -> Nat \cup {Absent}] /\ moved \subseteq Dirs
      /\ tPaths \subseteq Merkle!Nodes
    BY DEF MerkleInv, MerkleTyped, Merkle!TypeOK
<1>4. MerkleTyped'
    <2>1. now' \in [Merkle!Nodes -> Nat \cup {Absent}] /\ mkClock' \in Nat
        BY <1>2, <1>3
    <2>2. tState' \in {"clean", "dirty", "unknown"} /\ tPaths' \subseteq Merkle!Nodes
          /\ moved' \subseteq Dirs
        BY <1>1, <1>2, <1>3 DEF MerkleInv, MerkleTyped, Merkle!TypeOK
    <2> QED BY <1>2, <2>1, <2>2 DEF MerkleInv, MerkleTyped, Merkle!TypeOK, Merkle!Nodes,
              Merkle!Below
<1>5. /\ \A n \in Merkle!Nodes \ Gone : now'[n] = now[n]
      /\ \A n \in Gone : now'[n] = Absent
    BY <1>1, <1>2
<1>6. \A n \in Merkle!Below(e) : Merkle!AtRisk(n)'
    <2>1. e \in moved' /\ ~Merkle!Exists(e)'
        BY <1>2, <1>5 DEF Merkle!Exists
    <2> QED BY <2>1 DEF Merkle!AtRisk, Merkle!Below
<1>7. \A n \in Merkle!Nodes : Merkle!AtRisk(n) => Merkle!AtRisk(n)'
    <2>1. \A m \in Dirs : ~Merkle!Exists(m) => ~Merkle!Exists(m)'
        BY <1>1, <1>5 DEF Merkle!Exists, Merkle!Nodes
    <2>2. moved \subseteq moved'
        BY <1>2
    <2> QED BY <1>3, <2>1, <2>2 DEF Merkle!AtRisk
<1>8. \A p \in Merkle!Nodes : Merkle!IsDir(p)' <=> (Merkle!IsDir(p) /\ p \notin Gone)
    BY <1>5 DEF Merkle!IsDir, Merkle!Exists
<1>9. DOMAIN dirCache = Dirs /\ DOMAIN pathCache = Files /\ DOMAIN leaf = Terminals
      /\ (DOMAIN dirCache)' = Dirs /\ (DOMAIN pathCache)' = Files
      /\ (DOMAIN leaf)' = Terminals
    BY <1>4 DEF MerkleInv, MerkleTyped, Merkle!TypeOK
<1>10. DirsHonest'
    <2>1. ASSUME NEW x \in Dirs, (Merkle!KeptDirs')[x] # None, NEW n \in Merkle!Below(x)
          PROVE  Merkle!AtRisk(n)' \/ (Merkle!KeptDirs')[x][n] = now'[n]
        <3>1. /\ tState' # "unknown" /\ \A p \in tPaths' : ~Merkle!Invalidates(p, x)'
              /\ (Merkle!KeptDirs')[x] = dirCache'[x]
            BY <1>9, <2>1, KeptAfter
        <3>2. n \in Merkle!Nodes /\ x \in Merkle!Nodes
            BY <2>1 DEF Merkle!Below, Merkle!Nodes
        <3>3. CASE n \in Merkle!Below(e)
            BY <1>6, <3>3
        <3>4. CASE n \notin Merkle!Below(e)
            <4>1. e \in tPaths' /\ x \notin Above[e]
                BY <1>2, <3>1 DEF Merkle!Invalidates
            <4>2. n # e /\ n \notin Gone
                BY <2>1, <3>4, <4>1 DEF Merkle!Below
            <4>3. x \notin Gone
                <5>1. SUFFICES ASSUME x \in Gone PROVE n \in Merkle!Below(e)
                    BY <3>4
                <5>2. x = e \/ e \in Above[x]
                    BY <5>1 DEF Merkle!Below
                <5>3. x \in Above[n]
                    BY <2>1 DEF Merkle!Below
                <5> QED BY <3>2, <5>2, <5>3, AboveTransitive DEF Merkle!Below
            <4>4. \A p \in tPaths : ~Merkle!Invalidates(p, x)
                BY <1>2, <1>3, <1>8, <3>1, <4>3 DEF Merkle!Invalidates
            <4>5. Merkle!KeptDirs[x] = dirCache[x]
                BY <1>2, <1>9, <3>1, <4>4, KeptBefore
            <4>6. Merkle!AtRisk(n) \/ Merkle!KeptDirs[x][n] = now[n]
                BY <1>2, <2>1, <3>1, <4>5 DEF MerkleInv, DirsHonest
            <4> QED BY <1>2, <1>5, <1>7, <3>1, <3>2, <4>2, <4>5, <4>6
        <3> QED BY <3>3, <3>4
    <2> QED BY <2>1 DEF DirsHonest, Merkle!Below
<1>11. PathsHonest'
    <2>1. ASSUME NEW x \in Files, (Merkle!KeptPaths')[x] # None
          PROVE  Merkle!AtRisk(x)' \/ (Merkle!KeptPaths')[x] = now'[x]
        <3>1. /\ tState' # "unknown" /\ ~Merkle!PathForgotten(x)'
              /\ (Merkle!KeptPaths')[x] = pathCache'[x] /\ x \in Merkle!Nodes
            BY <1>9, <2>1, KeptAfter DEF Merkle!Nodes
        <3>2. CASE x \in Merkle!Below(e)
            BY <1>6, <3>2
        <3>3. CASE x \notin Merkle!Below(e)
            <4>1. x \notin Gone
                BY <1>1, <3>3
            <4>2. ASSUME NEW p \in tPaths, x = p \/ (Merkle!IsDir(p) /\ x \in Merkle!Below(p))
                  PROVE  FALSE
                <5>1. p \in tPaths' /\ p \in Merkle!Nodes
                    BY <1>2, <1>3
                <5>2. p \notin Gone
                    BY <3>1, <3>3, <4>1, <4>2, AboveTransitive DEF Merkle!Below
                <5> QED BY <1>8, <3>1, <4>2, <5>1, <5>2 DEF Merkle!PathForgotten,
                          Merkle!Below
            <4>3. Merkle!KeptPaths[x] = pathCache[x]
                BY <1>2, <1>9, <3>1, <4>2, KeptBefore DEF Merkle!PathForgotten
            <4> QED BY <1>2, <1>5, <1>7, <2>1, <3>1, <4>1, <4>3 DEF MerkleInv, PathsHonest,
                      Merkle!TrustedPath
        <3> QED BY <3>2, <3>3
    <2> QED BY <2>1 DEF PathsHonest, Merkle!TrustedPath
<1>12. LeavesHonest'
    <2>1. ASSUME NEW x \in Terminals, (Merkle!KeptLeaves')[x] # None
          PROVE  /\ (Merkle!KeptLeaves')[x] = Merkle!KeptLeaves[x]
                 /\ x \notin Gone /\ x \notin Above[e]
        <3>1. /\ tState' # "unknown" /\ ~Merkle!LeafForgotten(x)'
              /\ (Merkle!KeptLeaves')[x] = leaf'[x]
            BY <1>9, <2>1, KeptAfter
        <3>2. ~Merkle!LeafForgotten(x) /\ x \notin Gone /\ x \notin Above[e]
            BY <1>2, <3>1 DEF Merkle!LeafForgotten, Merkle!Below
        <3> QED BY <1>2, <1>9, <3>1, <3>2, KeptBefore
    <2>2. ASSUME NEW x \in Terminals, x \in Dirs PROVE LeafHonest(x)'
        <3>1. SUFFICES ASSUME (Merkle!KeptLeaves')[x] # None
                       PROVE  /\ (Merkle!KeptLeaves')[x] =
                                    [m \in Merkle!Below(x) |-> (Merkle!KeptLeaves')[x][m]]
                              /\ \A m \in Merkle!Below(x) :
                                  Merkle!AtRisk(m)' \/ (Merkle!KeptLeaves')[x][m] = now'[m]
            BY <2>2 DEF LeafHonest, Merkle!Below
        <3>2. /\ Merkle!KeptLeaves[x] = [m \in Merkle!Below(x) |-> Merkle!KeptLeaves[x][m]]
              /\ \A m \in Merkle!Below(x) :
                  Merkle!AtRisk(m) \/ Merkle!KeptLeaves[x][m] = now[m]
            BY <2>1, <2>2, <3>1 DEF MerkleInv, LeavesHonest, LeafHonest
        <3>3. ASSUME NEW m \in Merkle!Below(x)
              PROVE Merkle!AtRisk(m)' \/ (Merkle!KeptLeaves')[x][m] = now'[m]
            <4>1. m \in Merkle!Nodes /\ m # e
                BY <2>1, <3>1 DEF Merkle!Below
            <4>2. m \in Gone => Merkle!AtRisk(m)'
                BY <1>6, <4>1
            <4> QED BY <1>5, <1>7, <2>1, <3>1, <3>2, <4>1, <4>2
        <3> QED BY <2>1, <3>1, <3>2, <3>3
    <2>3. ASSUME NEW x \in Terminals, x \notin Dirs PROVE LeafHonest(x)'
        BY <1>1, <1>5, <1>7, <2>1, <2>3 DEF MerkleInv, LeavesHonest, LeafHonest,
           Merkle!TrustedLeaf
    <2> QED BY <2>2, <2>3 DEF LeavesHonest
<1> QED BY <1>4, <1>10, <1>11, <1>12 DEF MerkleInv

\* A directory moved in: every directory above its new nodes is at it, above it or
\* below it.  The first two are forgotten; below it everything is at risk but what the
\* directory holds directly, and of that only the first two speak.
LEMMA MoveInKeeps ==
    ASSUME Merkle!TreeAssumption, MerkleInv, NEW e \in Movable, Merkle!MoveIn(e)
    PROVE  MerkleInv'
<1> DEFINE Come == {e} \cup Merkle!Below(e)
<1>1. e \in Dirs /\ e \in Merkle!Nodes /\ Dirs \cap Files = {}
      /\ Terminals \subseteq Merkle!Nodes
      /\ Come \subseteq Merkle!Nodes /\ Absent \notin Nat /\ e # Root
      /\ Merkle!Nodes = Dirs \cup Files
    BY DEF Merkle!TreeAssumption, Merkle!Nodes, Merkle!Below
<1>2. /\ now' = [n \in Merkle!Nodes |->
                   CASE n \in {e} \cup (Merkle!Below(e) \cap Dirs) -> 0
                     [] n \in Merkle!Below(e) \cap Files           -> mkClock + 1
                     [] OTHER                               -> now[n]]
      /\ mkClock' \in Nat /\ mkClock + 1 \in Nat
      /\ tPaths' = tPaths \cup {e} /\ moved' = moved \cup {e}
      /\ tState' = (IF tState = "unknown" THEN "unknown" ELSE "dirty")
      /\ UNCHANGED <<dirCache, pathCache, leaf>>
    BY DEF Merkle!MoveIn, Merkle!Tick, Merkle!Recorded, Merkle!caches, MerkleInv,
       MerkleTyped, Merkle!TypeOK, Merkle!Here
<1>3. now \in [Merkle!Nodes -> Nat \cup {Absent}] /\ moved \subseteq Dirs
      /\ tPaths \subseteq Merkle!Nodes
    BY DEF MerkleInv, MerkleTyped, Merkle!TypeOK
<1>4. MerkleTyped'
    <2>1. now' \in [Merkle!Nodes -> Nat \cup {Absent}] /\ mkClock' \in Nat
        BY <1>2, <1>3
    <2>2. tState' \in {"clean", "dirty", "unknown"} /\ tPaths' \subseteq Merkle!Nodes
          /\ moved' \subseteq Dirs
        BY <1>1, <1>2, <1>3 DEF MerkleInv, MerkleTyped, Merkle!TypeOK
    <2> QED BY <1>2, <2>1, <2>2 DEF MerkleInv, MerkleTyped, Merkle!TypeOK, Merkle!Nodes,
              Merkle!Below
<1>5. /\ \A n \in Merkle!Nodes \ Come : now'[n] = now[n]
      /\ \A n \in Come : now'[n] # Absent
    BY <1>1, <1>2
<1>6. ASSUME NEW n \in Merkle!Below(e), Parent[n] # e PROVE Merkle!AtRisk(n)'
    <2>1. e \in moved' /\ e \in Above[n]
        BY <1>2 DEF Merkle!Below
    <2> QED BY <1>6, <2>1 DEF Merkle!AtRisk
<1>7. ASSUME NEW n \in Merkle!Nodes \ Come, Merkle!AtRisk(n) PROVE Merkle!AtRisk(n)'
    <2>1. PICK m \in moved : m \in Above[n] /\ (Parent[n] = m => ~Merkle!Exists(m))
        BY <1>7 DEF Merkle!AtRisk
    <2>2. m \in Dirs /\ m \in Merkle!Nodes /\ m \in moved'
        BY <1>2, <1>3 DEF Merkle!Nodes
    <2>3. m \notin Come
        BY <1>7, <2>1, AboveTransitive DEF Merkle!Below
    <2>4. Merkle!Exists(m)' <=> Merkle!Exists(m)
        BY <1>5, <2>2, <2>3 DEF Merkle!Exists
    <2> QED BY <2>1, <2>2, <2>4 DEF Merkle!AtRisk
<1>8. \A p \in Merkle!Nodes : Merkle!IsDir(p) => Merkle!IsDir(p)'
    BY <1>5 DEF Merkle!IsDir, Merkle!Exists
<1>9. DOMAIN dirCache = Dirs /\ DOMAIN pathCache = Files /\ DOMAIN leaf = Terminals
      /\ (DOMAIN dirCache)' = Dirs /\ (DOMAIN pathCache)' = Files
      /\ (DOMAIN leaf)' = Terminals
    BY <1>4 DEF MerkleInv, MerkleTyped, Merkle!TypeOK
<1>10. e \in tPaths' /\ Merkle!IsDir(e)'
    BY <1>1, <1>2, <1>5 DEF Merkle!IsDir, Merkle!Exists
<1>11. DirsHonest'
    <2>1. ASSUME NEW x \in Dirs, (Merkle!KeptDirs')[x] # None, NEW n \in Merkle!Below(x)
          PROVE  Merkle!AtRisk(n)' \/ (Merkle!KeptDirs')[x][n] = now'[n]
        <3>1. /\ tState' # "unknown" /\ \A p \in tPaths' : ~Merkle!Invalidates(p, x)'
              /\ (Merkle!KeptDirs')[x] = dirCache'[x]
            BY <1>9, <2>1, KeptAfter
        <3>2. n \in Merkle!Nodes /\ x \in Above[n] /\ n # Root
            BY <2>1, AboveIs DEF Merkle!Below
        <3>3. x # e /\ x \notin Above[e] /\ n # e
            BY <1>10, <3>1, <3>2 DEF Merkle!Invalidates
        <3>4. CASE n \in Merkle!Below(e)
            <4>1. Above[n] = {Parent[n]} \cup Above[Parent[n]]
                BY <3>2, AboveUnfolds
            <4>2. Parent[n] # e
                BY <3>2, <3>3, <4>1
            <4> QED BY <1>6, <3>4, <4>2
        <3>5. CASE n \notin Merkle!Below(e)
            <4>1. n \in Merkle!Nodes \ Come
                BY <3>2, <3>3, <3>5
            <4>2. \A p \in tPaths : ~Merkle!Invalidates(p, x)
                BY <1>2, <1>3, <1>8, <3>1 DEF Merkle!Invalidates
            <4>3. Merkle!KeptDirs[x] = dirCache[x]
                BY <1>2, <1>9, <3>1, <4>2, KeptBefore
            <4>4. Merkle!AtRisk(n) \/ Merkle!KeptDirs[x][n] = now[n]
                BY <1>2, <2>1, <3>1, <4>3 DEF MerkleInv, DirsHonest
            <4> QED BY <1>2, <1>5, <1>7, <3>1, <4>1, <4>3, <4>4
        <3> QED BY <3>4, <3>5
    <2> QED BY <2>1 DEF DirsHonest, Merkle!Below
<1>12. PathsHonest'
    <2>1. ASSUME NEW x \in Files, (Merkle!KeptPaths')[x] # None
          PROVE  Merkle!AtRisk(x)' \/ (Merkle!KeptPaths')[x] = now'[x]
        <3>1. /\ tState' # "unknown" /\ ~Merkle!PathForgotten(x)'
              /\ (Merkle!KeptPaths')[x] = pathCache'[x] /\ x \in Merkle!Nodes
            BY <1>9, <2>1, KeptAfter DEF Merkle!Nodes
        <3>2. x \in Merkle!Nodes \ Come
            BY <1>10, <3>1 DEF Merkle!PathForgotten, Merkle!Below
        <3>3. ~Merkle!PathForgotten(x)
            BY <1>2, <1>3, <1>8, <3>1 DEF Merkle!PathForgotten, Merkle!Below
        <3>4. Merkle!KeptPaths[x] = pathCache[x]
            BY <1>2, <1>9, <3>1, <3>3, KeptBefore
        <3> QED BY <1>2, <1>5, <1>7, <2>1, <3>1, <3>2, <3>4 DEF MerkleInv, PathsHonest,
                  Merkle!TrustedPath
    <2> QED BY <2>1 DEF PathsHonest, Merkle!TrustedPath
<1>13. LeavesHonest'
    <2>1. ASSUME NEW x \in Terminals, (Merkle!KeptLeaves')[x] # None
          PROVE  /\ (Merkle!KeptLeaves')[x] = Merkle!KeptLeaves[x]
                 /\ x \in Merkle!Nodes \ Come /\ x \notin Above[e]
        <3>1. /\ tState' # "unknown" /\ ~Merkle!LeafForgotten(x)'
              /\ (Merkle!KeptLeaves')[x] = leaf'[x]
            BY <1>9, <2>1, KeptAfter
        <3>2. ~Merkle!LeafForgotten(x) /\ x \notin Come /\ x \notin Above[e]
            BY <1>2, <3>1 DEF Merkle!LeafForgotten, Merkle!Below
        <3> QED BY <1>1, <1>2, <1>9, <3>1, <3>2, KeptBefore
    <2>2. ASSUME NEW x \in Terminals, x \in Dirs PROVE LeafHonest(x)'
        <3>1. SUFFICES ASSUME (Merkle!KeptLeaves')[x] # None
                       PROVE  /\ (Merkle!KeptLeaves')[x] =
                                    [m \in Merkle!Below(x) |-> (Merkle!KeptLeaves')[x][m]]
                              /\ \A m \in Merkle!Below(x) :
                                  Merkle!AtRisk(m)' \/ (Merkle!KeptLeaves')[x][m] = now'[m]
            BY <2>2 DEF LeafHonest, Merkle!Below
        <3>2. /\ Merkle!KeptLeaves[x] = [m \in Merkle!Below(x) |-> Merkle!KeptLeaves[x][m]]
              /\ \A m \in Merkle!Below(x) :
                  Merkle!AtRisk(m) \/ Merkle!KeptLeaves[x][m] = now[m]
            BY <2>1, <2>2, <3>1 DEF MerkleInv, LeavesHonest, LeafHonest
        <3>3. ASSUME NEW m \in Merkle!Below(x)
              PROVE Merkle!AtRisk(m)' \/ (Merkle!KeptLeaves')[x][m] = now'[m]
            <4>1. m \in Merkle!Nodes /\ x \in Above[m]
                BY DEF Merkle!Below
            <4>2. m \notin Come
                BY <2>1, <3>1, <4>1, AboveIsAChain DEF Merkle!Below
            <4> QED BY <1>5, <1>7, <2>1, <3>1, <3>2, <4>1, <4>2
        <3> QED BY <2>1, <3>1, <3>2, <3>3
    <2>3. ASSUME NEW x \in Terminals, x \notin Dirs PROVE LeafHonest(x)'
        BY <1>1, <1>5, <1>7, <2>1, <2>3 DEF MerkleInv, LeavesHonest, LeafHonest,
           Merkle!TrustedLeaf
    <2> QED BY <2>2, <2>3 DEF LeavesHonest
<1> QED BY <1>4, <1>11, <1>12, <1>13 DEF MerkleInv

\* Once the tracker is unknown, the next read keeps nothing.
LEMMA UnknownKeepsNothing ==
    ASSUME Merkle!TreeAssumption, MerkleTyped', tState' = "unknown"
    PROVE  MerkleInv'
<1>1. (DOMAIN dirCache)' = Dirs /\ (DOMAIN pathCache)' = Files /\ (DOMAIN leaf)' = Terminals
      /\ Terminals \subseteq Merkle!Nodes
    BY DEF MerkleTyped, Merkle!TypeOK, Merkle!TreeAssumption
<1>2. /\ \A x \in Dirs : (Merkle!KeptDirs')[x] = None
      /\ \A x \in Files : (Merkle!KeptPaths')[x] = None
      /\ \A x \in Terminals : (Merkle!KeptLeaves')[x] = None
    BY <1>1, KeptAfter
<1> QED BY <1>1, <1>2 DEF MerkleInv, DirsHonest, PathsHonest, LeavesHonest, LeafHonest,
                          Merkle!TrustedPath, Merkle!TrustedLeaf, Merkle!Nodes

\* What is kept has the types of what it is kept from.
LEMMA KeptTypes ==
    ASSUME MerkleTyped
    PROVE  /\ DOMAIN Merkle!KeptDirs = Dirs /\ DOMAIN Merkle!KeptPaths = Files
           /\ DOMAIN Merkle!KeptLeaves = Terminals
           /\ \A x \in Dirs :
               Merkle!KeptDirs[x] = None \/ DOMAIN Merkle!KeptDirs[x] = Merkle!Below(x)
           /\ Merkle!KeptPaths \in [Files -> Merkle!Versions]
<1>1. DOMAIN dirCache = Dirs /\ DOMAIN pathCache = Files /\ DOMAIN leaf = Terminals
    BY MerkleDomains
<1>2. Merkle!KeptPaths = [x \in Files |-> Merkle!KeptPaths[x]]
    BY <1>1 DEF Merkle!KeptPaths, Merkle!Forget
<1>3. \A x \in Files : Merkle!KeptPaths[x] \in Merkle!Versions
    BY <1>1, KeptBefore DEF MerkleTyped, Merkle!TypeOK, Merkle!Versions
<1>4. \A x \in Dirs :
          Merkle!KeptDirs[x] = None \/ DOMAIN Merkle!KeptDirs[x] = Merkle!Below(x)
    BY <1>1, KeptBefore DEF MerkleTyped, Merkle!TypeOK
<1> QED BY <1>1, <1>2, <1>3, <1>4, KeptBefore

\* The observer is lost, or a read fails.
LEMMA LoseKeeps ==
    ASSUME Merkle!TreeAssumption, MerkleInv, Merkle!LoseObserver
    PROVE  MerkleInv'
<1>1. MerkleTyped'
    BY DEF MerkleInv, MerkleTyped, Merkle!TypeOK, Merkle!LoseObserver, Merkle!caches,
       Merkle!fs, Merkle!Below
<1> QED BY <1>1, UnknownKeepsNothing DEF Merkle!LoseObserver

LEMMA FailedKeeps ==
    ASSUME Merkle!TreeAssumption, MerkleInv, Merkle!Failed
    PROVE  MerkleInv'
<1>1. MerkleTyped
    BY DEF MerkleInv
<1>2. /\ now' = now /\ mkClock' = mkClock /\ tState' = "unknown" /\ tPaths' = {}
      /\ moved' = moved
      /\ dirCache' = Merkle!KeptDirs /\ pathCache' = Merkle!KeptPaths
      /\ leaf' = Merkle!KeptLeaves
    BY DEF Merkle!Failed, Merkle!fs
<1>3. MerkleTyped'
    BY <1>1, <1>2, KeptTypes DEF MerkleTyped, Merkle!TypeOK, Merkle!Below
<1> QED BY <1>2, <1>3, UnknownKeepsNothing

\* What a read says of a node below the directory it answers is either what the node
\* is, or what a cached directory above the node says of it.
LEMMA ValueIsReadOrKept ==
    ASSUME Merkle!TreeAssumption, NEW e \in Dirs, NEW verify \in BOOLEAN
    PROVE  /\ Merkle!DirValue(e, verify) =
                [n \in Merkle!Below(e) |-> Merkle!DirValue(e, verify)[n]]
           /\ \A n \in Merkle!Below(e) :
                \/ Merkle!DirValue(e, verify)[n] = now[n]
                \/ \E c \in Dirs : /\ Merkle!KeptDirs[c] # None /\ n \in Merkle!Below(c)
                                   /\ Merkle!DirValue(e, verify)[n] = Merkle!KeptDirs[c][n]
<1>1. CASE verify
    BY <1>1 DEF Merkle!DirValue, Merkle!Truth
<1>2. CASE ~verify
    <2>1. Merkle!DirValue(e, verify) =
            [n \in Merkle!Below(e) |->
               LET hits == {c \in Merkle!Asked(Merkle!KeptDirs, e, n) :
                               Merkle!KeptDirs[c] # None}
               IN  IF hits = {} THEN now[n] ELSE Merkle!KeptDirs[CHOOSE c \in hits : TRUE][n]]
        BY <1>2 DEF Merkle!DirValue, Merkle!Composed
    <2>2. ASSUME NEW n \in Merkle!Below(e)
          PROVE  \/ Merkle!DirValue(e, verify)[n] = now[n]
                 \/ \E c \in Dirs : /\ Merkle!KeptDirs[c] # None /\ n \in Merkle!Below(c)
                                    /\ Merkle!DirValue(e, verify)[n] = Merkle!KeptDirs[c][n]
        <3> DEFINE hits == {c \in Merkle!Asked(Merkle!KeptDirs, e, n) :
                               Merkle!KeptDirs[c] # None}
        <3>1. CASE hits = {}
            BY <2>1, <3>1
        <3>2. CASE hits # {}
            <4>1. (CHOOSE c \in hits : TRUE) \in hits
                BY <3>2
            <4>2. PICK c \in hits : Merkle!DirValue(e, verify)[n] = Merkle!KeptDirs[c][n]
                BY <2>1, <3>2, <4>1
            <4>3. n \in Merkle!Nodes /\ c \in Above[n] /\ Merkle!KeptDirs[c] # None
                BY <4>2 DEF Merkle!Asked, Merkle!Way, Merkle!Below
            <4>4. c \in Dirs /\ n \in Merkle!Below(c)
                BY <4>3, AboveType DEF Merkle!Below
            <4> QED BY <4>2, <4>3, <4>4
        <3> QED BY <3>1, <3>2
    <2>3. Merkle!DirValue(e, verify) =
            [n \in Merkle!Below(e) |-> Merkle!DirValue(e, verify)[n]]
        BY <2>1
    <2> QED BY <2>2, <2>3
<1> QED BY <1>1, <1>2

\* A read that succeeds: what it leaves in the caches is what was kept, or what it
\* computed; the history of moves is forgotten only where nothing was kept.
LEMMA FinishedKeeps ==
    ASSUME Merkle!TreeAssumption, MerkleInv, Merkle!Finished,
           DOMAIN dirCache' = Dirs, DOMAIN leaf' = Terminals,
           pathCache' \in [Files -> Merkle!Versions],
           \A x \in Dirs : \/ dirCache'[x] = Merkle!KeptDirs[x]
                           \/ \E verify \in BOOLEAN :
                               dirCache'[x] = Merkle!DirValue(x, verify),
           \A x \in Files : \/ pathCache'[x] = Merkle!KeptPaths[x]
                            \/ pathCache'[x] = now[x],
           \A x \in Terminals :
              \/ leaf'[x] = Merkle!KeptLeaves[x]
              \/ x \in Dirs /\ \E verify \in BOOLEAN : leaf'[x] = Merkle!DirValue(x, verify)
              \/ x \notin Dirs /\ (leaf'[x] = Merkle!KeptPaths[x] \/ leaf'[x] = now[x])
    PROVE  MerkleInv'
<1>1. /\ tState' = "clean" /\ tPaths' = {} /\ now' = now /\ mkClock' = mkClock
      /\ moved' = (IF tState = "unknown" THEN {} ELSE moved)
    BY DEF Merkle!Finished, Merkle!fs
<1>2. MerkleTyped /\ Merkle!Nodes = Dirs \cup Files /\ Dirs \cap Files = {}
      /\ Terminals \subseteq Merkle!Nodes
      /\ DOMAIN dirCache = Dirs /\ DOMAIN pathCache = Files /\ DOMAIN leaf = Terminals
    BY MerkleDomains DEF MerkleInv, Merkle!TreeAssumption, Merkle!Nodes
<1>3. \A x \in Dirs : \A verify \in BOOLEAN :
          DOMAIN Merkle!DirValue(x, verify) = Merkle!Below(x)
    BY ValueIsReadOrKept
<1>4. MerkleTyped'
    <2>1. \A x \in Dirs : dirCache'[x] = None \/ DOMAIN dirCache'[x] = Merkle!Below(x)
        BY <1>2, <1>3, KeptTypes
    <2> QED BY <1>1, <1>2, <2>1 DEF MerkleTyped, Merkle!TypeOK, Merkle!Below
<1>5. /\ \A x \in Dirs : (Merkle!KeptDirs')[x] = dirCache'[x]
      /\ \A x \in Files : (Merkle!KeptPaths')[x] = pathCache'[x]
      /\ \A x \in Terminals : (Merkle!KeptLeaves')[x] = leaf'[x]
    <2>1. (DOMAIN dirCache)' = Dirs /\ (DOMAIN pathCache)' = Files
          /\ (DOMAIN leaf)' = Terminals
        OBVIOUS
    <2>2. \A x : ~Merkle!LeafForgotten(x)' /\ ~Merkle!PathForgotten(x)'
        BY <1>1 DEF Merkle!LeafForgotten, Merkle!PathForgotten
    <2> QED BY <1>1, <2>1, <2>2, KeptAfter
<1>6. tState = "unknown" => /\ \A x \in Dirs : Merkle!KeptDirs[x] = None
                            /\ \A x \in Files : Merkle!KeptPaths[x] = None
                            /\ \A x \in Terminals : Merkle!KeptLeaves[x] = None
    BY <1>2, KeptBefore
<1>7. tState # "unknown" => \A n : Merkle!AtRisk(n)' <=> Merkle!AtRisk(n)
    BY <1>1 DEF Merkle!AtRisk, Merkle!Exists
<1>8. ASSUME NEW x \in Dirs, Merkle!KeptDirs[x] # None, NEW n \in Merkle!Below(x)
      PROVE  Merkle!AtRisk(n)' \/ Merkle!KeptDirs[x][n] = now'[n]
    BY <1>1, <1>6, <1>7, <1>8 DEF MerkleInv, DirsHonest
<1>9. ASSUME NEW x \in Dirs, NEW verify \in BOOLEAN, NEW n \in Merkle!Below(x)
      PROVE  Merkle!AtRisk(n)' \/ Merkle!DirValue(x, verify)[n] = now'[n]
    BY <1>1, <1>8, ValueIsReadOrKept
<1>10. ASSUME NEW x \in Files, Merkle!KeptPaths[x] # None
       PROVE  Merkle!AtRisk(x)' \/ Merkle!KeptPaths[x] = now'[x]
    BY <1>1, <1>6, <1>7, <1>10 DEF MerkleInv, PathsHonest, Merkle!TrustedPath
<1>11. DirsHonest'
    <2>1. ASSUME NEW x \in Dirs, (Merkle!KeptDirs')[x] # None, NEW n \in Merkle!Below(x)
          PROVE  Merkle!AtRisk(n)' \/ (Merkle!KeptDirs')[x][n] = now'[n]
        BY <1>5, <1>8, <1>9, <2>1
    <2> QED BY <2>1 DEF DirsHonest, Merkle!Below
<1>12. PathsHonest'
    BY <1>1, <1>5, <1>10 DEF PathsHonest, Merkle!TrustedPath
<1>13. LeavesHonest'
    <2>1. ASSUME NEW x \in Terminals, x \in Dirs PROVE LeafHonest(x)'
        <3>1. SUFFICES ASSUME leaf'[x] # None
                       PROVE  /\ leaf'[x] = [m \in Merkle!Below(x) |-> leaf'[x][m]]
                              /\ \A m \in Merkle!Below(x) :
                                  Merkle!AtRisk(m)' \/ leaf'[x][m] = now'[m]
            BY <1>5, <2>1 DEF LeafHonest, Merkle!Below
        <3>2. CASE leaf'[x] = Merkle!KeptLeaves[x]
            BY <1>1, <1>6, <1>7, <2>1, <3>1, <3>2 DEF MerkleInv, LeavesHonest, LeafHonest
        <3>3. ASSUME NEW verify \in BOOLEAN, leaf'[x] = Merkle!DirValue(x, verify)
              PROVE  /\ leaf'[x] = [m \in Merkle!Below(x) |-> leaf'[x][m]]
                     /\ \A m \in Merkle!Below(x) :
                         Merkle!AtRisk(m)' \/ leaf'[x][m] = now'[m]
            BY <1>9, <2>1, <3>3, ValueIsReadOrKept
        <3> QED BY <2>1, <3>2, <3>3
    <2>2. ASSUME NEW x \in Terminals, x \notin Dirs PROVE LeafHonest(x)'
        <3>1. x \in Files
            BY <1>2, <2>2
        <3>2. Merkle!KeptLeaves[x] # None => Merkle!AtRisk(x)'
              \/ Merkle!KeptLeaves[x] = now'[x]
            BY <1>1, <1>6, <1>7, <2>2 DEF MerkleInv, LeavesHonest, LeafHonest,
               Merkle!TrustedLeaf
        <3>3. leaf'[x] # None => Merkle!AtRisk(x)' \/ leaf'[x] = now'[x]
            BY <1>1, <1>10, <2>2, <3>1, <3>2
        <3> QED BY <1>5, <2>2, <3>3 DEF LeafHonest, Merkle!TrustedLeaf
    <2> QED BY <2>1, <2>2 DEF LeavesHonest
<1> QED BY <1>4, <1>11, <1>12, <1>13 DEF MerkleInv

\* The three reads.
LEMMA ReadDirectoryKeeps ==
    ASSUME Merkle!TreeAssumption, MerkleInv, NEW e \in Dirs, NEW verify \in BOOLEAN,
           Merkle!ReadDirectory(e, verify)
    PROVE  MerkleInv'
<1>1. CASE Merkle!Failed
    BY <1>1, FailedKeeps
<1>2. CASE ~Merkle!Failed
    <2>1. /\ dirCache' = Merkle!Computed({e}, verify)
          /\ pathCache' = Merkle!KeptPaths /\ leaf' = Merkle!KeptLeaves
          /\ Merkle!Finished
        BY <1>2 DEF Merkle!ReadDirectory
    <2>2. DOMAIN dirCache' = Dirs
          /\ \A x \in Dirs :
              dirCache'[x] = Merkle!KeptDirs[x] \/ dirCache'[x] = Merkle!DirValue(x, verify)
        BY <2>1 DEF Merkle!Computed
    <2>3. DOMAIN leaf' = Terminals /\ pathCache' \in [Files -> Merkle!Versions]
        BY <2>1, KeptTypes DEF MerkleInv
    <2> QED BY <2>1, <2>2, <2>3, FinishedKeeps
<1> QED BY <1>1, <1>2

LEMMA ReadFileKeeps ==
    ASSUME Merkle!TreeAssumption, MerkleInv, NEW g \in Files, NEW verify \in BOOLEAN,
           Merkle!ReadFile(g, verify)
    PROVE  MerkleInv'
<1>1. CASE Merkle!Failed
    BY <1>1, FailedKeeps
<1>2. CASE ~Merkle!Failed
    <2>1. /\ pathCache' = [Merkle!KeptPaths EXCEPT ![g] =
                             IF verify \/ Merkle!KeptPaths[g] = None
                             THEN now[g] ELSE Merkle!KeptPaths[g]]
          /\ dirCache' = Merkle!KeptDirs /\ leaf' = Merkle!KeptLeaves
          /\ Merkle!Finished
        BY <1>2 DEF Merkle!ReadFile
    <2>2. /\ DOMAIN Merkle!KeptDirs = Dirs /\ DOMAIN Merkle!KeptLeaves = Terminals
          /\ Merkle!KeptPaths \in [Files -> Merkle!Versions]
        BY KeptTypes DEF MerkleInv
    <2>3. now[g] \in Merkle!Versions
        BY DEF MerkleInv, MerkleTyped, Merkle!TypeOK, Merkle!Versions, Merkle!Nodes
    <2>4. pathCache' \in [Files -> Merkle!Versions]
          /\ \A x \in Files : pathCache'[x] = Merkle!KeptPaths[x] \/ pathCache'[x] = now[x]
        BY <2>1, <2>2, <2>3
    <2> QED BY <2>1, <2>2, <2>4, FinishedKeeps
<1> QED BY <1>1, <1>2

LEMMA ReadManifestKeeps ==
    ASSUME Merkle!TreeAssumption, MerkleInv, NEW verify \in BOOLEAN,
           Merkle!ReadManifest(verify)
    PROVE  MerkleInv'
<1> DEFINE asked  == {n \in Terminals : verify \/ Merkle!KeptLeaves[n] = None}
           unread == {n \in asked : n \in Files => verify \/ Merkle!KeptPaths[n] = None}
           read   == [x \in Files |-> IF x \in unread THEN now[x] ELSE Merkle!KeptPaths[x]]
<1>1. CASE Merkle!Failed
    BY <1>1, FailedKeeps
<1>2. CASE ~Merkle!Failed
    <2>1. /\ leaf' = [n \in Terminals |->
                        IF n \in asked
                          THEN IF n \in Dirs THEN Merkle!DirValue(n, verify) ELSE read[n]
                          ELSE leaf[n]]
          /\ pathCache' = read
          /\ dirCache' = Merkle!Computed(asked \cap Dirs, verify)
          /\ Merkle!Finished
        BY <1>2 DEF Merkle!ReadManifest
    <2>2. MerkleTyped /\ Terminals \subseteq Dirs \cup Files
          /\ DOMAIN dirCache = Dirs /\ DOMAIN pathCache = Files /\ DOMAIN leaf = Terminals
        BY MerkleDomains DEF MerkleInv, Merkle!TreeAssumption, Merkle!Nodes
    <2>3. DOMAIN dirCache' = Dirs
          /\ \A x \in Dirs :
              dirCache'[x] = Merkle!KeptDirs[x] \/ dirCache'[x] = Merkle!DirValue(x, verify)
        BY <2>1 DEF Merkle!Computed
    <2>4. \A x \in Files : pathCache'[x] = Merkle!KeptPaths[x] \/ pathCache'[x] = now[x]
        BY <2>1
    <2>5. pathCache' \in [Files -> Merkle!Versions]
        <3>1. \A x \in Files :
                  now[x] \in Merkle!Versions /\ Merkle!KeptPaths[x] \in Merkle!Versions
            BY <2>2, KeptTypes DEF MerkleTyped, Merkle!TypeOK, Merkle!Versions, Merkle!Nodes
        <3> QED BY <2>1, <3>1
    <2>6. ASSUME NEW x \in Terminals
          PROVE  \/ leaf'[x] = Merkle!KeptLeaves[x]
                 \/ x \in Dirs /\ leaf'[x] = Merkle!DirValue(x, verify)
                 \/ x \notin Dirs /\ (leaf'[x] = Merkle!KeptPaths[x] \/ leaf'[x] = now[x])
        <3>1. CASE x \notin asked
            <4>1. Merkle!KeptLeaves[x] # None /\ leaf'[x] = leaf[x]
                BY <2>1, <3>1
            <4> QED BY <2>2, <4>1, KeptBefore
        <3>2. CASE x \in asked
            BY <2>1, <2>2, <3>2
        <3> QED BY <3>1, <3>2
    <2>7. DOMAIN leaf' = Terminals
        BY <2>1
    <2> HIDE DEF asked, unread, read
    <2> QED BY <2>1, <2>3, <2>4, <2>5, <2>6, <2>7, FinishedKeeps
<1> QED BY <1>1, <1>2

LEMMA MerkleStutters ==
    ASSUME MerkleInv, UNCHANGED Merkle!vars PROVE MerkleInv'
<1>1. UNCHANGED <<now, mkClock, tState, tPaths, dirCache, pathCache, leaf, moved>>
    BY DEF Merkle!vars, Merkle!fs, Merkle!tracker, Merkle!caches
<1>2. Merkle!KeptDirs' = Merkle!KeptDirs /\ Merkle!KeptPaths' = Merkle!KeptPaths
      /\ Merkle!KeptLeaves' = Merkle!KeptLeaves
    BY <1>1 DEF Merkle!KeptDirs, Merkle!KeptPaths, Merkle!KeptLeaves, Merkle!Forget,
       Merkle!Invalidates, Merkle!PathForgotten, Merkle!LeafForgotten,
                Merkle!IsDir, Merkle!Exists
<1>3. \A n : Merkle!AtRisk(n)' <=> Merkle!AtRisk(n)
    BY <1>1 DEF Merkle!AtRisk, Merkle!Exists
<1>4. MerkleTyped'
    BY <1>1 DEF MerkleInv, MerkleTyped, Merkle!TypeOK, Merkle!Below
<1>5. DirsHonest' /\ PathsHonest'
    BY <1>1, <1>2, <1>3 DEF MerkleInv, DirsHonest, PathsHonest, Merkle!TrustedPath,
       Merkle!Below
<1>6. LeavesHonest'
    BY <1>1, <1>2, <1>3 DEF MerkleInv, LeavesHonest, LeafHonest, Merkle!TrustedLeaf,
       Merkle!Below, Merkle!Truth
<1> QED BY <1>4, <1>5, <1>6 DEF MerkleInv

(* Of any tree: what the caches keep of a node is what the node is, but for    *)
(* nodes below a directory that was moved as a whole since they were dropped.  *)
THEOREM MerkleInvariant == Merkle!TreeAssumption => (Merkle!Spec => []MerkleInv)
<1> SUFFICES ASSUME Merkle!TreeAssumption PROVE Merkle!Spec => []MerkleInv
    OBVIOUS
<1>1. Merkle!Init => MerkleInv
    BY MerkleInit
<1>2. MerkleInv /\ [Merkle!Next]_Merkle!vars => MerkleInv'
    <2> SUFFICES ASSUME MerkleInv, [Merkle!Next]_Merkle!vars PROVE MerkleInv'
        OBVIOUS
    <2>1. CASE \E g \in Files : Merkle!WriteFile(g) \/ Merkle!DeleteFile(g)
        BY <2>1, FileChangeKeeps
    <2>2. CASE \E e \in Movable : Merkle!MoveAway(e) \/ Merkle!MoveIn(e)
        BY <2>2, MoveAwayKeeps, MoveInKeeps
    <2>3. CASE Merkle!LoseObserver
        BY <2>3, LoseKeeps
    <2>4. CASE \E verify \in BOOLEAN : Merkle!ReadManifest(verify)
        BY <2>4, ReadManifestKeeps
    <2>5. CASE \E verify \in BOOLEAN : \E e \in Dirs : Merkle!ReadDirectory(e, verify)
        BY <2>5, ReadDirectoryKeeps
    <2>6. CASE \E verify \in BOOLEAN : \E g \in Files : Merkle!ReadFile(g, verify)
        BY <2>6, ReadFileKeeps
    <2>7. CASE UNCHANGED Merkle!vars
        BY <2>7, MerkleStutters
    <2> QED BY <2>1, <2>2, <2>3, <2>4, <2>5, <2>6, <2>7 DEF Merkle!Next
<1> QED BY <1>1, <1>2, PTL DEF Merkle!Spec

\* Fast reads are made of what is read and what is kept.
LEMMA HonestMeansExact ==
    ASSUME Merkle!TreeAssumption, MerkleInv
    PROVE  Merkle!ExactUnmoved /\ Merkle!ExactOutsideMoves
<1>1. /\ Terminals \subseteq Merkle!Nodes /\ Dirs \cap Files = {}
    BY DEF Merkle!TreeAssumption
<1>2. Merkle!ExactOutsideMoves
    BY <1>1 DEF MerkleInv, DirsHonest, PathsHonest, LeavesHonest, LeafHonest,
       Merkle!ExactOutsideMoves
<1>3. ASSUME moved = {} PROVE \A n : ~Merkle!AtRisk(n)
    BY <1>3 DEF Merkle!AtRisk
<1>4. ASSUME moved = {}, NEW e \in Dirs
      PROVE Merkle!Composed(Merkle!KeptDirs)[e] = Merkle!Truth(e)
    <2>1. Merkle!DirValue(e, FALSE) = Merkle!Composed(Merkle!KeptDirs)[e]
        BY DEF Merkle!DirValue
    <2>2. \A n \in Merkle!Below(e) : Merkle!DirValue(e, FALSE)[n] = now[n]
        <3>1. \A n : ~Merkle!AtRisk(n)
            BY <1>3, <1>4
        <3>2. \A c \in Dirs : Merkle!KeptDirs[c] # None =>
                 \A n \in Merkle!Below(c) : Merkle!KeptDirs[c][n] = now[n]
            BY <3>1 DEF MerkleInv, DirsHonest
        <3>3. \A n \in Merkle!Below(e) :
                 \/ Merkle!DirValue(e, FALSE)[n] = now[n]
                 \/ \E c \in Dirs : /\ Merkle!KeptDirs[c] # None /\ n \in Merkle!Below(c)
                                    /\ Merkle!DirValue(e, FALSE)[n] = Merkle!KeptDirs[c][n]
            BY ValueIsReadOrKept
        <3> QED BY <3>2, <3>3, Zenon
    <2>3. Merkle!DirValue(e, FALSE) =
            [n \in Merkle!Below(e) |-> Merkle!DirValue(e, FALSE)[n]]
        BY ValueIsReadOrKept
    <2> QED BY <2>1, <2>2, <2>3 DEF Merkle!Truth
<1>5. ASSUME moved = {}, NEW n \in Terminals PROVE Merkle!TrustedLeaf(n)
    BY <1>3, <1>5 DEF MerkleInv, LeavesHonest, LeafHonest, Merkle!TrustedLeaf, Merkle!Truth
<1>6. ASSUME moved = {}, NEW g \in Files PROVE Merkle!TrustedPath(g)
    BY <1>3, <1>6 DEF MerkleInv, PathsHonest
<1> QED BY <1>2, <1>4, <1>5, <1>6
        DEF Merkle!ExactUnmoved, Merkle!FastEqualsStrongUnmoved, Merkle!FastEqualsStrong,
            Merkle!MembersExactUnmoved

(***************************************************************************)
(* The sum of the parts                                                    *)
(***************************************************************************)
\* What the sum does is, for this part, what the part does by itself.
LEMMA ContentOfSum == PartSpec => Content!Spec
<1>1. PartInit => Content!Init
    BY DEF PartInit
<1>2. [PartNext]_PartVars => [Content!Next]_Content!vars
    BY DEF PartNext, PartVars, contentVars, Content!vars, Content!disk
<1> QED BY <1>1, <1>2, PTL DEF PartSpec, Content!Spec

(* Once a put has returned, its object is there and whole, until somebody    *)
(* deletes it or writes into a file that shares its inode; and a put raises  *)
(* only beside a delete.                                                     *)
THEOREM PutsAreKept == PartSpec => []PutsHold
<1>1. ContentInv => PutsHold
    BY DEF ContentInv, PutsHold
<1> QED BY <1>1, PartAssumption, ContentOfSum, ContentInvariant, PTL

LEMMA MerkleOfSum == PartSpec => Merkle!Spec
<1>1. PartInit => Merkle!Init
    BY DEF PartInit
<1>2. [PartNext]_PartVars => [Merkle!Next]_Merkle!vars
    BY DEF PartNext, PartVars, merkleVars, Merkle!vars, Merkle!fs, Merkle!tracker, Merkle!caches
<1> QED BY <1>1, <1>2, PTL DEF PartSpec, Merkle!Spec

(* While no directory is moved as a whole, a fast read of a directory says     *)
(* what a strong verification would say, and so do the caches of a manifest's  *)
(* members, whatever was changed and read before.                              *)
THEOREM FastReadsAreExact == PartSpec => []ExactUnmoved
<1>1. Merkle!TreeAssumption /\ MerkleInv => ExactUnmoved
    BY HonestMeansExact DEF ExactUnmoved
<1> QED BY <1>1, PartAssumption, MerkleOfSum, MerkleInvariant, PTL

(* A directory moved as a whole endangers what is below it and nothing else.   *)
THEOREM MovesEndangerOnlyBelow == PartSpec => []ExactOutsideMoves
<1>1. Merkle!TreeAssumption /\ MerkleInv => ExactOutsideMoves
    BY HonestMeansExact DEF ExactOutsideMoves
<1> QED BY <1>1, PartAssumption, MerkleOfSum, MerkleInvariant, PTL

LEMMA FileOfSum == PartSpec => Spec
<1>1. PartInit => Init
    BY DEF PartInit
<1>2. [PartNext]_PartVars => [Next]_vars
    BY DEF PartNext, PartVars
<1> QED BY <1>1, <1>2, PTL DEF PartSpec, Spec

PartNamed == part \in {"store", "merkle", "content"}

(* The variables of every part have their types.                               *)
THEOREM PartTypesCorrect == PartSpec => []PartTypes
<1>1. PartNamed /\ TypeOK /\ Merkle!TypeOK /\ Content!TypeOK => PartTypes
    BY DEF PartTypes, PartNamed
<1>2. FileInv => TypeOK
    BY DEF FileInv
<1>3. MerkleInv => Merkle!TypeOK
    BY DEF MerkleInv, MerkleTyped
<1>4. ContentInv => Content!TypeOK
    BY DEF ContentInv
<1>5. PartInit => PartNamed
    BY DEF PartInit, PartNamed
<1>6. PartNamed /\ [PartNext]_PartVars => PartNamed'
    BY DEF PartNamed, PartNext, PartVars
<1> QED BY <1>1, <1>2, <1>3, <1>4, <1>5, <1>6, PartAssumption, FileOfSum, MerkleOfSum,
           ContentOfSum, FileInvariant, MerkleInvariant, ContentInvariant, PTL DEF PartSpec

===============================================================================
