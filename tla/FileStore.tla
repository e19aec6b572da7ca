------------------------------- MODULE FileStore -------------------------------
(***************************************************************************)
(* The digests of one file, in a table that processes share and in a cache *)
(* of rows that each process keeps (FileDigestStore).  A row is used when  *)
(* its metadata are those of the file; otherwise the file is hashed between*)
(* two reads of its metadata that have to agree.  Meanwhile it is written  *)
(* in place and replaced by rename.                                        *)
(*                                                                         *)
(* Every version has the same size and mode, so the metadata are the inode *)
(* and the time of the last change; the contents are the version, and a    *)
(* digest is the two versions that a hash read its halves from.            *)
(***************************************************************************)
EXTENDS Naturals, FiniteSets, FiniteSetsExt

CONSTANTS
    Callers, Processes,
    Home,           \* the process of a caller
    None,
    Inodes,
    Attempts,       \* max_attempts of _hash_stable
    MaxClock,       \* bounds of the model: ticks of the file system's clock,
    MaxVersion      \* and versions of the file

ASSUME FileStoreAssumption ==
    /\ Home \in [Callers -> Processes]
    /\ {Attempts, MaxClock, MaxVersion} \subseteq Nat \ {0}

VARIABLES
    clock, file,
    was,            \* history: every <<metadata, version>> of the file
    db, mem,        \* file_digest, and _rows of each process
    pc, mode,
    meta, row,      \* the metadata a caller read last, and its row
    fd, first,      \* the inode it hashes, and what it read first
    digest, tries,
    seen            \* history: the versions of the file since the call began

store == <<db, mem>>
world == <<clock, file, was>>
call  == <<mode, meta, row, fd, first, digest, tries, seen>>
vars  == <<world, store, pc, call>>

Versions == 1..MaxVersion
Metadata == Inodes \X (1..MaxClock)
Digests  == Versions \X Versions
Rows     == [meta : Metadata, digest : Digests]
Labels   == {"idle", "stat", "row", "check", "open", "read", "restat", "store"}

TypeOK ==
    /\ clock \in 1..MaxClock /\ file \in [meta : Metadata, version : Versions]
    /\ was \subseteq Metadata \X Versions
    /\ db \in Rows \cup {None} /\ mem \in [Processes -> Rows \cup {None}]
    /\ pc \in [Callers -> Labels] /\ mode \in [Callers -> {"single", "many", "force"}]
    /\ meta \in [Callers -> Metadata \cup {None}] /\ row \in [Callers -> Rows \cup {None}]
    /\ fd \in [Callers -> Inodes \cup {None}] /\ first \in [Callers -> Versions \cup {None}]
    /\ digest \in [Callers -> Digests \cup {None}]
    /\ tries \in [Callers -> 0..Attempts] /\ seen \in [Callers -> SUBSET Versions]

Init ==
    /\ clock = 1
    /\ \E i \in Inodes : file = [meta |-> <<i, 1>>, version |-> 1]
    /\ was = {<<file.meta, 1>>}
    /\ db = None /\ mem = [p \in Processes |-> None]
    /\ pc = [c \in Callers |-> "idle"] /\ mode = [c \in Callers |-> "single"]
    /\ meta = [c \in Callers |-> None] /\ row = [c \in Callers |-> None]
    /\ fd = [c \in Callers |-> None] /\ first = [c \in Callers |-> None]
    /\ digest = [c \in Callers |-> None]
    /\ tries = [c \in Callers |-> Attempts] /\ seen = [c \in Callers |-> {}]

(***************************************************************************)
(* The file                                                                *)
(***************************************************************************)
Tick ==
    /\ clock < MaxClock /\ clock' = clock + 1
    /\ UNCHANGED <<file, was, store, pc, call>>

\* A change of the contents, which leaves the file with inode i.
Change(i) ==
    /\ file.version < MaxVersion
    /\ file' = [meta |-> <<i, clock>>, version |-> file.version + 1]
    /\ was' = was \cup {<<file'.meta, file'.version>>}
    /\ seen' = [c \in Callers |-> IF pc[c] = "idle" THEN seen[c] ELSE seen[c] \cup {file'.version}]
    /\ UNCHANGED <<clock, store, pc, mode, meta, row, fd, first, digest, tries>>

Write == Change(file.meta[1])

\* An inode is used again once nobody has it open.
Replace ==
    \E i \in Inodes : i # file.meta[1] /\ (\A c \in Callers : fd[c] # i) /\ Change(i)

(***************************************************************************)
(* digest, digest_many_info                                                *)
(***************************************************************************)
Go(c, label) == pc' = [pc EXCEPT ![c] = label]

\* The locals of a call that returns, whether or not it leaves a digest.
Return(c) ==
    /\ Go(c, "idle")
    /\ mode' = [mode EXCEPT ![c] = "single"] /\ tries' = [tries EXCEPT ![c] = Attempts]

Call(c, m) ==
    /\ pc[c] = "idle" /\ Go(c, IF m = "many" THEN "row" ELSE "stat")
    /\ mode' = [mode EXCEPT ![c] = m]
    /\ seen' = [seen EXCEPT ![c] = {file.version}]
    /\ meta' = [meta EXCEPT ![c] = None] /\ row' = [row EXCEPT ![c] = None]
    /\ digest' = [digest EXCEPT ![c] = None]
    /\ UNCHANGED <<world, store, fd, first, tries>>

\* digest reads the metadata first, digest_many_info the rows.
Stat(c) ==
    /\ pc[c] = "stat"
    /\ Go(c, CASE mode[c] = "single" -> "row" [] mode[c] = "many" -> "check" [] OTHER -> "open")
    /\ meta' = [meta EXCEPT ![c] = file.meta]
    /\ UNCHANGED <<world, store, mode, row, fd, first, digest, tries, seen>>

\* _row, _rows_many: a row of the table is kept in the cache.
Row(c) ==
    /\ pc[c] = "row" /\ Go(c, IF mode[c] = "many" THEN "stat" ELSE "check")
    /\ LET held == mem[Home[c]]
           r    == IF held # None THEN held ELSE db
       IN  row' = [row EXCEPT ![c] = r] /\ mem' = [mem EXCEPT ![Home[c]] = r]
    /\ UNCHANGED <<world, db, mode, meta, fd, first, digest, tries, seen>>

Use(c, hit) ==
    /\ pc[c] = "check"
    /\ IF hit
       THEN Return(c) /\ digest' = [digest EXCEPT ![c] = row[c].digest]
       ELSE Go(c, "open") /\ UNCHANGED <<mode, tries, digest>>
    /\ row' = [row EXCEPT ![c] = None]
    /\ UNCHANGED <<world, store, meta, fd, first, seen>>

\* Mutant of Check: any row of the inode will do.
CheckInode(c) == Use(c, row[c] # None /\ row[c].meta[1] = meta[c][1])

Check(c) == Use(c, row[c] # None /\ row[c].meta = meta[c])

(***************************************************************************)
(* _hash_stable                                                            *)
(***************************************************************************)
\* The contents of an inode: a file that has been replaced keeps its last.
Contents(i) == Max({w[2] : w \in {x \in was : x[1][1] = i}})

Open(c) ==
    /\ pc[c] = "open" /\ Go(c, "read")
    /\ fd' = [fd EXCEPT ![c] = file.meta[1]] /\ first' = [first EXCEPT ![c] = file.version]
    /\ UNCHANGED <<world, store, mode, meta, row, digest, tries, seen>>

Read(c) ==
    /\ pc[c] = "read" /\ Go(c, "restat")
    /\ digest' = [digest EXCEPT ![c] = <<first[c], Contents(fd[c])>>]
    /\ fd' = [fd EXCEPT ![c] = None] /\ first' = [first EXCEPT ![c] = None]
    /\ UNCHANGED <<world, store, mode, meta, row, tries, seen>>

Attempted(c, stable) ==
    /\ pc[c] = "restat" /\ meta' = [meta EXCEPT ![c] = file.meta]
    /\ \/ stable /\ Go(c, "store") /\ UNCHANGED <<mode, digest, tries>>
       \/ /\ ~stable /\ digest' = [digest EXCEPT ![c] = None]
          /\ IF tries[c] > 1
             THEN Go(c, "open") /\ tries' = [tries EXCEPT ![c] = @ - 1] /\ UNCHANGED mode
             ELSE Return(c)                                     \* UnstableFileError
    /\ UNCHANGED <<world, store, row, fd, first, seen>>

\* Mutant of Restat: the last attempt is taken as it is.
RestatAtLast(c) == Attempted(c, file.meta = meta[c] \/ tries[c] = 1)

Restat(c) == Attempted(c, file.meta = meta[c])

\* _store_many: the row is stored with the metadata read after the hash.
Store(c) ==
    /\ pc[c] = "store" /\ Return(c)
    /\ LET r == [meta |-> meta[c], digest |-> digest[c]]
       IN  db' = r /\ mem' = [mem EXCEPT ![Home[c]] = r]
    /\ UNCHANGED <<world, meta, row, fd, first, digest, seen>>

\* A process ends and starts again: the table stays, its cache does not.
Restart(p) ==
    /\ \A c \in Callers : Home[c] = p => pc[c] = "idle"
    /\ mem[p] # None /\ mem' = [mem EXCEPT ![p] = None]
    /\ UNCHANGED <<world, db, pc, call>>

Step(c) == Stat(c) \/ Row(c) \/ Check(c) \/ Open(c) \/ Read(c) \/ Restat(c) \/ Store(c)

Next ==
    \/ Tick \/ Write \/ Replace
    \/ \E p \in Processes : Restart(p)
    \/ \E c \in Callers : Step(c) \/ \E m \in {"single", "many", "force"} : Call(c, m)

Spec == Init /\ [][Next]_vars

(***************************************************************************)
(* Properties                                                              *)
(***************************************************************************)
\* Two versions have the same metadata: they were written within one tick.
Blurred(m) == \E v, w \in Versions : v # w /\ {<<m, v>>, <<m, w>>} \subseteq was

(* A row, in the table or in a cache of it, has the digest of a version that  *)
(* had just these metadata: no torn hash and no change between the hash and   *)
(* the store gets into it, whoever stored it and in whatever order.  (The     *)
(* exception is metadata that two versions share.)                            *)
RowsExact ==
    \A r \in ({db} \cup {mem[p] : p \in Processes}) \ {None} :
        Blurred(r.meta) \/ \E v \in Versions : r.digest = <<v, v>> /\ <<r.meta, v>> \in was

(* A digest that is returned, cached or hashed, is that of one version, which *)
(* the file had while the call ran.  (The exception is the same.)             *)
ReadWasThere ==
    \A c \in Callers :
        pc[c] = "idle" /\ digest[c] # None =>
            Blurred(meta[c]) \/ \E v \in seen[c] : digest[c] = <<v, v>>
================================================================================
