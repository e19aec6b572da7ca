---------------------------- MODULE MapSideProofs ----------------------------
(***************************************************************************)
(* NativeEvidence, ReleaseCheck, TypeServer and ManifestRegistry, the      *)
(* parts of MCMapSide beside the map itself (which has MapFreshnessProofs): *)
(* their theorems, for every value of their constants.  Each part has its  *)
(* inductive invariant, a lemma for each kind of its steps, and its        *)
(* theorems; at the end the sum of the parts is shown to inherit them.     *)
(***************************************************************************)
EXTENDS Sequences, MCMapSide, MapFreshnessProofs, FiniteSetTheorems, TLAPS

(***************************************************************************)
(* NativeEvidence, for every number of clients, producers and manifests.   *)
(* The invariant follows evidence through the store and through the draft  *)
(* of whoever writes: what was not overtaken when it was published agrees  *)
(* with its snapshot on the manifests, and its source is the map's as long *)
(* as its generation is the store's.  A rebinding is safe because nothing  *)
(* is published between its judgement and its snapshot.                    *)
(***************************************************************************)
\* The manifests that say something about p's evidence itself.
Own(p) == Watches[p] \ Shared

\* In the store s, the snapshot of p says the truth about p's evidence.
Sound(s, p) ==
    /\ \A m \in Own(p) : s.from[p].man[m] = s.snap[p].man[m]
    /\ p \in Bound /\ s.snap[p].gen = s.gen => s.from[p].src >= s.mapped

StoreKept(s) ==
    \A p \in Producers : s.snap[p] # None =>
       /\ s.snap[p].gen <= s.gen /\ s.from[p] \in Evidence!Views
       /\ p \notin s.late => Sound(s, p)

\* What the writer has changed has a generation of its own.
DraftKept ==
    /\ draft.mapped <= source
    /\ draft.gen = db.gen => draft = db

\* What a client has in hand where it goes on to publish it.
InHand(c) ==
    /\ evPc[c] = "syncing" => draft = db
    /\ evPc[c] = "collected" =>
          job[c] \in Producers \ Imported /\ seen[c] \in Evidence!Views /\ seen[c].src >= draft.mapped
    /\ evPc[c] = "imported" => job[c] \in Imported /\ seen[c] \in Evidence!Views
    /\ evPc[c] = "rebind" =>
          /\ job[c] \in Producers \ Bound /\ seen[c] \in Evidence!Views
          /\ expected[c] \in Nat /\ expected[c] <= db.gen
          /\ db.gen = expected[c] =>
                /\ db.snap[job[c]] # None
                /\ \A m \in Own(job[c]) : db.snap[job[c]].man[m] = seen[c].man[m]

EvidenceInv ==
    /\ Evidence!TypeOK /\ StoreKept(db) /\ StoreKept(draft) /\ DraftKept
    /\ \A c \in evClients : InHand(c)

(***************************************************************************)
(* What a publication does to a store                                      *)
(***************************************************************************)
LEMMA DigestTyped ==
    ASSUME Evidence!EvidenceAssumption, content \in [Manifests -> Contents], NEW p \in Producers
    PROVE  Evidence!Digest(p) \in Evidence!Digests /\ \A m \in Watches[p] : Evidence!Digest(p)[m] = content[m]
<1>1. Watches[p] \subseteq Manifests
    BY DEF Evidence!EvidenceAssumption
<1>2. Evidence!Digest(p) \in [Watches[p] -> Contents]
    BY <1>1 DEF Evidence!Digest
<1>3. Evidence!Digest(p) \in Evidence!Digests
    BY <1>2 DEF Evidence!Digests
<1>4. \A m \in Watches[p] : Evidence!Digest(p)[m] = content[m]
    BY DEF Evidence!Digest
<1> QED BY <1>3, <1>4

\* What is carried forward is as sound as it was.
LEMMA CarryKeeps ==
    ASSUME NEW s \in Evidence!Stores, StoreKept(s)
    PROVE  /\ Evidence!CarryForward(s) \in Evidence!Stores /\ StoreKept(Evidence!CarryForward(s))
           /\ Evidence!CarryForward(s).gen = s.gen + 1 /\ Evidence!CarryForward(s).mapped = s.mapped
           /\ Evidence!CarryForward(s).from = s.from /\ Evidence!CarryForward(s).late = s.late
<1> DEFINE r == Evidence!CarryForward(s)
<1>1. /\ s.gen \in Nat /\ s.mapped \in Nat /\ s.snap \in [Producers -> Evidence!Snapshot \cup {None}]
      /\ s.from \in [Producers -> Evidence!Views \cup {None}] /\ s.late \in SUBSET Producers
      /\ s = [gen |-> s.gen, mapped |-> s.mapped, snap |-> s.snap, from |-> s.from,
              late |-> s.late]
    BY DEF Evidence!Stores
<1> DEFINE carried == [p \in Producers |->
                          IF s.snap[p] # None /\ p \in Bound /\ s.snap[p].gen = s.gen
                          THEN [s.snap[p] EXCEPT !.gen = s.gen + 1] ELSE s.snap[p]]
<1>2. /\ r.gen = s.gen + 1 /\ r.mapped = s.mapped /\ r.from = s.from /\ r.late = s.late
      /\ r.snap = carried
      /\ r = [gen |-> r.gen, mapped |-> r.mapped, snap |-> r.snap, from |-> r.from,
              late |-> r.late]
    <2>1. r = [s EXCEPT !.gen = s.gen + 1, !.snap = carried]
        BY DEF Evidence!CarryForward
    <2> HIDE DEF r, carried
    <2>2. r = [gen |-> s.gen + 1, mapped |-> s.mapped, snap |-> carried, from |-> s.from,
               late |-> s.late]
        BY <1>1, <2>1
    <2> QED BY <2>2
<1> HIDE DEF r
<1>3. ASSUME NEW p \in Producers
      PROVE  /\ r.snap[p] \in Evidence!Snapshot \cup {None}
             /\ r.snap[p] # None =>
                   /\ s.snap[p] # None /\ s.snap[p] \in Evidence!Snapshot
                   /\ r.snap[p].man = s.snap[p].man /\ r.snap[p].gen <= r.gen
                   /\ p \in Bound /\ r.snap[p].gen = r.gen => s.snap[p].gen = s.gen
    <2>1. CASE s.snap[p] # None /\ p \in Bound /\ s.snap[p].gen = s.gen
        <3>1. r.snap[p] = [s.snap[p] EXCEPT !.gen = s.gen + 1] /\ s.snap[p] \in Evidence!Snapshot
            BY <1>1, <1>2, <2>1
        <3>2. /\ r.snap[p] \in Evidence!Snapshot /\ r.snap[p].gen = s.gen + 1
              /\ r.snap[p].man = s.snap[p].man
            BY <3>1, <1>1 DEF Evidence!Snapshot
        <3> QED BY <3>1, <3>2, <2>1, <1>1, <1>2
    <2>2. CASE ~ (s.snap[p] # None /\ p \in Bound /\ s.snap[p].gen = s.gen)
        <3>1. r.snap[p] = s.snap[p]
            BY <1>2, <2>2
        <3>2. s.snap[p] # None => s.snap[p] \in Evidence!Snapshot /\ s.snap[p].gen \in Nat /\ s.snap[p].gen <= s.gen
            BY <1>1 DEF StoreKept, Evidence!Snapshot
        <3> QED BY <3>1, <3>2, <2>2, <1>1, <1>2
    <2> QED BY <2>1, <2>2
<1>4. r \in Evidence!Stores
    <2>1. r.snap \in [Producers -> Evidence!Snapshot \cup {None}]
        BY <1>2, <1>3
    <2> QED BY <2>1, <1>1, <1>2 DEF Evidence!Stores
<1>5. StoreKept(r)
    <2> SUFFICES ASSUME NEW p \in Producers, r.snap[p] # None
                 PROVE  /\ r.snap[p].gen <= r.gen /\ r.from[p] \in Evidence!Views
                        /\ p \notin r.late => Sound(r, p)
        BY DEF StoreKept
    <2>1. s.from[p] \in Evidence!Views /\ (p \notin s.late => Sound(s, p))
        BY <1>3 DEF StoreKept
    <2> QED BY <2>1, <1>2, <1>3 DEF Sound
<1> QED BY <1>2, <1>4, <1>5 DEF r

\* So is everything when p's evidence is recorded, if it is of what its snapshot digests.
LEMMA RecordKeeps ==
    ASSUME Evidence!EvidenceAssumption, content \in [Manifests -> Contents],
           NEW s \in Evidence!Stores, StoreKept(s), NEW p \in Producers, NEW v \in Evidence!Views, NEW r \in Evidence!Stores,
           r.gen = s.gen, r.mapped = s.mapped, r.snap = Evidence!Recorded(s, p).snap,
           r.from = [s.from EXCEPT ![p] = v], r.late \ {p} = s.late \ {p},
           p \notin r.late => \A m \in Own(p) : v.man[m] = content[m],
           p \notin r.late /\ p \in Bound => v.src >= s.mapped
    PROVE  StoreKept(r)
<1>1. s.snap \in [Producers -> Evidence!Snapshot \cup {None}] /\ s.from \in [Producers -> Evidence!Views \cup {None}]
    BY DEF Evidence!Stores
<1>2. r.snap = [s.snap EXCEPT ![p] = [gen |-> s.gen, man |-> Evidence!Digest(p)]]
    BY DEF Evidence!Recorded, Evidence!Stores
<1> SUFFICES ASSUME NEW q \in Producers, r.snap[q] # None
             PROVE  /\ r.snap[q].gen <= r.gen /\ r.from[q] \in Evidence!Views
                    /\ q \notin r.late => Sound(r, q)
    BY DEF StoreKept
<1>3. CASE q = p
    <2>1. r.snap[q] = [gen |-> s.gen, man |-> Evidence!Digest(p)] /\ r.from[q] = v /\ s.gen \in Nat
        BY <1>1, <1>2, <1>3 DEF Evidence!Stores
    <2>2. \A m \in Own(p) : Evidence!Digest(p)[m] = content[m]
        BY DigestTyped DEF Own
    <2> QED BY <2>1, <2>2, <1>3 DEF Sound
<1>4. CASE q # p
    <2>1. r.snap[q] = s.snap[q] /\ r.from[q] = s.from[q] /\ (q \in r.late <=> q \in s.late)
        BY <1>1, <1>2, <1>4
    <2> QED BY <2>1 DEF StoreKept, Sound
<1> QED BY <1>3, <1>4

LEMMA LateFields ==
    ASSUME NEW s, NEW p, NEW changed,
           s = [gen |-> s.gen, mapped |-> s.mapped, snap |-> s.snap, from |-> s.from,
                late |-> s.late]
    PROVE  Evidence!Late(s, p, changed) =
               [gen |-> s.gen, mapped |-> s.mapped, snap |-> s.snap, from |-> s.from,
                late |-> IF changed THEN s.late \cup {p} ELSE s.late \ {p}]
<1> DEFINE late == IF changed THEN s.late \cup {p} ELSE s.late \ {p}
<1>1. Evidence!Late(s, p, changed) = [s EXCEPT !.late = late]
    BY DEF Evidence!Late
<1> HIDE DEF late
<1>2. [s EXCEPT !.late = late] = [gen |-> s.gen, mapped |-> s.mapped, snap |-> s.snap,
                                  from |-> s.from, late |-> late]
    OBVIOUS
<1> QED BY <1>1, <1>2 DEF late

\* The store that a publication of p's evidence v makes of s, or of a new snapshot.
LEMMA Published ==
    ASSUME Evidence!EvidenceAssumption, content \in [Manifests -> Contents],
           NEW s \in Evidence!Stores, StoreKept(s), NEW p \in Producers, NEW v \in Evidence!Views,
           NEW changed \in BOOLEAN, NEW r,
           \/ r = Evidence!Late([Evidence!Recorded(s, p) EXCEPT !.from[p] = v], p, changed)
           \/ r = Evidence!Late(Evidence!Recorded(s, p), p, changed) /\ s.from[p] = v,
           ~changed => \A m \in Own(p) : v.man[m] = content[m],
           ~changed /\ p \in Bound => v.src >= s.mapped
    PROVE  r \in Evidence!Stores /\ StoreKept(r) /\ r.gen = s.gen /\ r.mapped = s.mapped
<1> DEFINE snap == [s.snap EXCEPT ![p] = [gen |-> s.gen, man |-> Evidence!Digest(p)]]
           from == [s.from EXCEPT ![p] = v]
           late == IF changed THEN s.late \cup {p} ELSE s.late \ {p}
<1>1. /\ s.gen \in Nat /\ s.mapped \in Nat /\ s.snap \in [Producers -> Evidence!Snapshot \cup {None}]
      /\ s.from \in [Producers -> Evidence!Views \cup {None}] /\ s.late \in SUBSET Producers
      /\ s = [gen |-> s.gen, mapped |-> s.mapped, snap |-> s.snap, from |-> s.from,
              late |-> s.late]
    BY DEF Evidence!Stores
<1>2. Evidence!Recorded(s, p) = [gen |-> s.gen, mapped |-> s.mapped, snap |-> snap, from |-> s.from,
                        late |-> s.late]
    BY <1>1 DEF Evidence!Recorded
<1> HIDE DEF snap
<1> DEFINE given == [gen |-> s.gen, mapped |-> s.mapped, snap |-> snap, from |-> from,
                        late |-> s.late]
<1>3. r = [gen |-> s.gen, mapped |-> s.mapped, snap |-> snap, from |-> from, late |-> late]
    <2>1. [Evidence!Recorded(s, p) EXCEPT !.from[p] = v] = given
        BY <1>2
    <2>2. s.from[p] = v => Evidence!Recorded(s, p) = given
        BY <1>1, <1>2
    <2>3. r = Evidence!Late(given, p, changed)
        <3> HIDE DEF given
        <3> QED BY <2>1, <2>2
    <2>4. Evidence!Late(given, p, changed) =
              [gen |-> given.gen, mapped |-> given.mapped, snap |-> given.snap,
               from |-> given.from,
               late |-> IF changed THEN given.late \cup {p} ELSE given.late \ {p}]
        <3> HIDE DEF from
        <3>1. given = [gen |-> given.gen, mapped |-> given.mapped,
                          snap |-> given.snap, from |-> given.from,
                          late |-> given.late]
            OBVIOUS
        <3> HIDE DEF given
        <3> QED BY <3>1, LateFields
    <2> HIDE DEF from
    <2> QED BY <2>3, <2>4
<1>4. r \in Evidence!Stores
    <2>1. snap \in [Producers -> Evidence!Snapshot \cup {None}]
        BY <1>1, DigestTyped DEF snap, Evidence!Snapshot
    <2>2. from \in [Producers -> Evidence!Views \cup {None}] /\ late \in SUBSET Producers
        BY <1>1
    <2> QED BY <1>1, <1>3, <2>1, <2>2 DEF Evidence!Stores
<1>5. StoreKept(r)
    <2>1. r.snap = Evidence!Recorded(s, p).snap /\ r.from = from /\ r.gen = s.gen /\ r.mapped = s.mapped
        BY <1>2, <1>3
    <2>2. r.late \ {p} = s.late \ {p} /\ (p \notin r.late => ~changed)
        BY <1>3
    <2> HIDE DEF from, late
    <2> QED BY <2>1, <2>2, <1>4, RecordKeeps DEF from
<1> QED BY <1>3, <1>4, <1>5

(***************************************************************************)
(* The steps                                                               *)
(***************************************************************************)
LEMMA EvidenceInit == Evidence!EvidenceAssumption /\ Evidence!Init => EvidenceInv
<1> SUFFICES ASSUME Evidence!EvidenceAssumption, Evidence!Init
             PROVE  EvidenceInv
    OBVIOUS
<1>1. content \in [Manifests -> Contents]
    BY DEF Evidence!Init, Evidence!EvidenceAssumption
<1>2. db \in Evidence!Stores /\ db.gen = 0 /\ db.mapped = 0 /\ \A p \in Producers : db.snap[p] = None
    BY DEF Evidence!Init, Evidence!Stores
<1>3. Evidence!TypeOK
    BY <1>1, <1>2 DEF Evidence!Init, Evidence!TypeOK, Evidence!InTransaction, Evidence!EvidenceAssumption
<1>4. StoreKept(db) /\ StoreKept(draft) /\ DraftKept
    BY <1>2 DEF Evidence!Init, StoreKept, DraftKept
<1>5. \A c \in evClients : InHand(c)
    BY DEF Evidence!Init, InHand
<1> QED BY <1>3, <1>4, <1>5 DEF EvidenceInv

\* Whatever c does, another client has in hand what it had.
LEMMA OthersInHand ==
    ASSUME EvidenceInv, NEW u \in evClients,
           evPc'[u] = evPc[u], job'[u] = job[u], seen'[u] = seen[u], expected'[u] = expected[u],
           \/ UNCHANGED <<db, draft>>
           \/ /\ evPc[u] \notin Evidence!InTransaction /\ db' \in Evidence!Stores
              /\ db' = db \/ db'.gen > db.gen
    PROVE  InHand(u)'
<1>1. InHand(u)
    BY DEF EvidenceInv
<1>2. CASE UNCHANGED <<db, draft>>
    BY <1>1, <1>2 DEF InHand
<1>3. CASE evPc[u] \notin Evidence!InTransaction /\ db' \in Evidence!Stores /\ (db' = db \/ db'.gen > db.gen)
    <2>1. evPc[u] # "syncing" /\ evPc[u] # "collected"
        BY <1>3 DEF Evidence!InTransaction
    <2>2. db.gen \in Nat /\ db'.gen \in Nat
        BY <1>3 DEF EvidenceInv, Evidence!TypeOK, Evidence!Stores
    <2>3. CASE db' = db
        BY <1>1, <2>1, <2>3 DEF InHand
    <2>4. CASE db'.gen > db.gen
        BY <1>1, <2>1, <2>2, <2>4 DEF InHand
    <2> QED BY <1>3, <2>3, <2>4
<1> QED BY <1>2, <1>3

\* Nobody else is in a transaction.
LEMMA OneWriter ==
    ASSUME Evidence!EvidenceAssumption, Evidence!TypeOK, NEW c \in evClients, writer \in {c, None}
    PROVE  \A u \in evClients \ {c} : evPc[u] \notin Evidence!InTransaction
    BY DEF Evidence!TypeOK, Evidence!EvidenceAssumption

LEMMA EditKeeps ==
    ASSUME Evidence!EvidenceAssumption, EvidenceInv, Evidence!EditSource \/ \E m \in Manifests : Evidence!EditManifest(m)
    PROVE  EvidenceInv'
<1> USE DEF Evidence!local
<1>1. /\ UNCHANGED <<db, draft, writer, evPc, job, expected, seen>>
      /\ source' \in 0..MaxEdits /\ source <= source'
      /\ content' \in [Manifests -> Contents] /\ evChanges' \in 0..evMaxChanges
    BY DEF Evidence!EditSource, Evidence!EditManifest, EvidenceInv, Evidence!TypeOK, Evidence!EvidenceAssumption
<1>2. source \in Nat /\ db.mapped \in Nat /\ draft.mapped \in Nat
    BY DEF EvidenceInv, Evidence!TypeOK, Evidence!Stores
<1>3. Evidence!TypeOK'
    BY <1>1, <1>2 DEF EvidenceInv, Evidence!TypeOK
<1>4. StoreKept(db)' /\ StoreKept(draft)' /\ DraftKept'
    BY <1>1, <1>2 DEF EvidenceInv, StoreKept, Sound, DraftKept
<1>5. \A c \in evClients : InHand(c)'
    BY <1>1, OthersInHand
<1> QED BY <1>3, <1>4, <1>5 DEF EvidenceInv

\* A client begins, collects or judges, or gives up: the store is as it was.
LEMMA SyncBeginKeeps ==
    ASSUME Evidence!EvidenceAssumption, EvidenceInv, NEW c \in evClients, Evidence!SyncBegin(c)
    PROVE  EvidenceInv'
<1> USE DEF Evidence!Go, Evidence!disk
<1>1. /\ writer = None /\ writer' = c /\ evPc' = [evPc EXCEPT ![c] = "syncing"] /\ draft = db
      /\ UNCHANGED <<source, content, evChanges, db, draft, job, expected, seen>>
    BY DEF Evidence!SyncBegin, Evidence!Begin, EvidenceInv, Evidence!TypeOK
<1>2. evPc'[c] = "syncing" /\ \A u \in evClients \ {c} : evPc'[u] = evPc[u]
    BY <1>1 DEF EvidenceInv, Evidence!TypeOK
<1>3. Evidence!TypeOK'
    <2>1. \A u \in evClients : evPc'[u] \in Evidence!InTransaction <=> writer' = u
        BY <1>1, <1>2, OneWriter DEF EvidenceInv, Evidence!InTransaction
    <2> QED BY <2>1, <1>1 DEF EvidenceInv, Evidence!TypeOK, Evidence!InTransaction, Evidence!EvidenceAssumption
<1>4. InHand(c)'
    BY <1>1, <1>2 DEF InHand
<1>5. \A u \in evClients \ {c} : InHand(u)'
    BY <1>1, <1>2, OthersInHand
<1> QED BY <1>1, <1>3, <1>4, <1>5 DEF EvidenceInv, StoreKept, Sound, DraftKept

LEMMA EnrichBeginKeeps ==
    ASSUME Evidence!EvidenceAssumption, EvidenceInv, NEW c \in evClients, Evidence!EnrichBegin(c)
    PROVE  EvidenceInv'
<1> USE DEF Evidence!Go, Evidence!disk
<1>1. /\ writer = None /\ writer' = c /\ evPc' = [evPc EXCEPT ![c] = "enriching"] /\ draft = db
      /\ expected' = [expected EXCEPT ![c] = None]
      /\ UNCHANGED <<source, content, evChanges, db, draft, job, seen>>
    BY DEF Evidence!EnrichBegin, Evidence!Begin, EvidenceInv, Evidence!TypeOK
<1>2. evPc'[c] = "enriching" /\ \A u \in evClients \ {c} : evPc'[u] = evPc[u] /\ expected'[u] = expected[u]
    BY <1>1 DEF EvidenceInv, Evidence!TypeOK
<1>3. Evidence!TypeOK'
    <2>1. \A u \in evClients : evPc'[u] \in Evidence!InTransaction <=> writer' = u
        BY <1>1, <1>2, OneWriter DEF EvidenceInv, Evidence!InTransaction
    <2> QED BY <2>1, <1>1 DEF EvidenceInv, Evidence!TypeOK, Evidence!InTransaction, Evidence!EvidenceAssumption
<1>4. InHand(c)'
    BY <1>2 DEF InHand
<1>5. \A u \in evClients \ {c} : InHand(u)'
    BY <1>1, <1>2, OthersInHand
<1> QED BY <1>1, <1>3, <1>4, <1>5 DEF EvidenceInv, StoreKept, Sound, DraftKept

LEMMA CollectKeeps ==
    ASSUME Evidence!EvidenceAssumption, EvidenceInv, NEW c \in evClients, Evidence!Collect(c)
    PROVE  EvidenceInv'
<1> USE DEF Evidence!Go, Evidence!disk
<1>1. PICK p \in Producers \ Imported : job' = [job EXCEPT ![c] = p]
    BY DEF Evidence!Collect
<1>2. /\ evPc[c] = "enriching" /\ evPc' = [evPc EXCEPT ![c] = "collected"]
      /\ seen' = [seen EXCEPT ![c] = Evidence!View(source)]
      /\ UNCHANGED <<source, content, evChanges, db, draft, writer, expected>>
    BY DEF Evidence!Collect
<1>3. Evidence!View(source) \in Evidence!Views /\ Evidence!View(source).src = source
    BY DEF Evidence!View, Evidence!Views, EvidenceInv, Evidence!TypeOK
<1>4. /\ evPc'[c] = "collected" /\ job'[c] = p /\ seen'[c] = Evidence!View(source)
      /\ \A u \in evClients \ {c} : evPc'[u] = evPc[u] /\ job'[u] = job[u] /\ seen'[u] = seen[u]
    BY <1>1, <1>2 DEF EvidenceInv, Evidence!TypeOK
<1>5. Evidence!TypeOK'
    <2>1. \A u \in evClients : evPc'[u] \in Evidence!InTransaction <=> writer' = u
        BY <1>2, <1>4 DEF EvidenceInv, Evidence!TypeOK, Evidence!InTransaction
    <2> QED BY <2>1, <1>1, <1>2, <1>3 DEF EvidenceInv, Evidence!TypeOK, Evidence!InTransaction
<1>6. InHand(c)'
    <2>1. Evidence!View(source).src >= draft.mapped
        BY <1>3 DEF EvidenceInv, DraftKept, Evidence!TypeOK, Evidence!Stores
    <2> QED BY <2>1, <1>2, <1>3, <1>4 DEF InHand
<1>7. \A u \in evClients \ {c} : InHand(u)'
    BY <1>2, <1>4, OthersInHand
<1> QED BY <1>2, <1>5, <1>6, <1>7 DEF EvidenceInv, StoreKept, Sound, DraftKept

LEMMA EnrichEndKeeps ==
    ASSUME Evidence!EvidenceAssumption, EvidenceInv, NEW c \in evClients, Evidence!EnrichEnd(c)
    PROVE  EvidenceInv'
<1> USE DEF Evidence!Go, Evidence!disk
<1>1. /\ evPc[c] = "enriching" /\ evPc' = [evPc EXCEPT ![c] = "done"]
      /\ UNCHANGED <<source, content, evChanges, db, draft, writer, job, expected, seen>>
    BY DEF Evidence!EnrichEnd
<1>2. evPc'[c] = "done" /\ \A u \in evClients \ {c} : evPc'[u] = evPc[u]
    BY <1>1 DEF EvidenceInv, Evidence!TypeOK
<1>3. Evidence!TypeOK'
    <2>1. \A u \in evClients : evPc'[u] \in Evidence!InTransaction <=> writer' = u
        BY <1>1, <1>2 DEF EvidenceInv, Evidence!TypeOK, Evidence!InTransaction
    <2> QED BY <2>1, <1>1 DEF EvidenceInv, Evidence!TypeOK, Evidence!InTransaction
<1>4. InHand(c)'
    BY <1>2 DEF InHand
<1>5. \A u \in evClients \ {c} : InHand(u)'
    BY <1>1, <1>2, OthersInHand
<1> QED BY <1>1, <1>3, <1>4, <1>5 DEF EvidenceInv, StoreKept, Sound, DraftKept

LEMMA ImportCollectKeeps ==
    ASSUME Evidence!EvidenceAssumption, EvidenceInv, NEW c \in evClients, Evidence!ImportCollect(c)
    PROVE  EvidenceInv'
<1> USE DEF Evidence!Go, Evidence!disk
<1>1. PICK p \in Imported : job' = [job EXCEPT ![c] = p]
    BY DEF Evidence!ImportCollect
<1>2. /\ evPc[c] = "idle" /\ evPc' = [evPc EXCEPT ![c] = "imported"] /\ p \in Producers
      /\ seen' = [seen EXCEPT ![c] = Evidence!View(db.mapped)] /\ Evidence!View(db.mapped) \in Evidence!Views
      /\ UNCHANGED <<source, content, evChanges, db, draft, writer, expected>>
    BY DEF Evidence!ImportCollect, Evidence!View, Evidence!Views, EvidenceInv, Evidence!TypeOK, Evidence!Stores, Evidence!EvidenceAssumption
<1>3. /\ evPc'[c] = "imported" /\ job'[c] = p /\ seen'[c] = Evidence!View(db.mapped)
      /\ \A u \in evClients \ {c} : evPc'[u] = evPc[u] /\ job'[u] = job[u] /\ seen'[u] = seen[u]
    BY <1>1, <1>2 DEF EvidenceInv, Evidence!TypeOK
<1>4. Evidence!TypeOK'
    <2>1. \A u \in evClients : evPc'[u] \in Evidence!InTransaction <=> writer' = u
        BY <1>2, <1>3 DEF EvidenceInv, Evidence!TypeOK, Evidence!InTransaction
    <2> QED BY <2>1, <1>1, <1>2 DEF EvidenceInv, Evidence!TypeOK, Evidence!InTransaction
<1>5. InHand(c)'
    BY <1>1, <1>2, <1>3 DEF InHand
<1>6. \A u \in evClients \ {c} : InHand(u)'
    BY <1>2, <1>3, OthersInHand
<1> QED BY <1>2, <1>4, <1>5, <1>6 DEF EvidenceInv, StoreKept, Sound, DraftKept

LEMMA JudgeKeeps ==
    ASSUME Evidence!EvidenceAssumption, EvidenceInv, NEW c \in evClients, Evidence!Judge(c)
    PROVE  EvidenceInv'
<1> USE DEF Evidence!Go, Evidence!disk
<1>1. PICK p \in Producers \ Bound :
          /\ db.snap[p] # None /\ job' = [job EXCEPT ![c] = p]
          /\ evPc' = [evPc EXCEPT ![c] = IF Evidence!SharedOnly(p) THEN "rebind" ELSE "refresh"]
    BY DEF Evidence!Judge
<1>2. /\ evPc[c] = "idle" /\ db.gen \in Nat
      /\ expected' = [expected EXCEPT ![c] = db.gen]
      /\ seen' = [seen EXCEPT ![c] = Evidence!View(db.mapped)] /\ Evidence!View(db.mapped) \in Evidence!Views
      /\ UNCHANGED <<source, content, evChanges, db, draft, writer>>
    BY DEF Evidence!Judge, Evidence!View, Evidence!Views, EvidenceInv, Evidence!TypeOK, Evidence!Stores
<1>3. /\ evPc'[c] = IF Evidence!SharedOnly(p) THEN "rebind" ELSE "refresh"
      /\ job'[c] = p /\ seen'[c] = Evidence!View(db.mapped) /\ expected'[c] = db.gen
      /\ \A u \in evClients \ {c} : /\ evPc'[u] = evPc[u] /\ job'[u] = job[u]
                                  /\ seen'[u] = seen[u] /\ expected'[u] = expected[u]
    BY <1>1, <1>2 DEF EvidenceInv, Evidence!TypeOK
<1>4. Evidence!TypeOK'
    <2>1. \A u \in evClients : evPc'[u] \in Evidence!InTransaction <=> writer' = u
        BY <1>2, <1>3 DEF EvidenceInv, Evidence!TypeOK, Evidence!InTransaction
    <2> QED BY <2>1, <1>1, <1>2 DEF EvidenceInv, Evidence!TypeOK
<1>5. InHand(c)'
    <2>1. Evidence!SharedOnly(p) => \A m \in Own(p) : db.snap[p].man[m] = Evidence!View(db.mapped).man[m]
        BY DEF Evidence!SharedOnly, Evidence!Changed, Own, Evidence!View
    <2>2. evPc'[c] \in {"rebind", "refresh"} /\ (evPc'[c] = "rebind" => Evidence!SharedOnly(p))
        BY <1>3
    <2> QED BY <2>1, <2>2, <1>1, <1>2, <1>3 DEF InHand
<1>6. \A u \in evClients \ {c} : InHand(u)'
    BY <1>2, <1>3, OthersInHand
<1> QED BY <1>2, <1>4, <1>5, <1>6 DEF EvidenceInv, StoreKept, Sound, DraftKept

LEMMA GiveUpKeeps ==
    ASSUME Evidence!EvidenceAssumption, EvidenceInv, NEW c \in evClients, Evidence!GiveUp(c)
    PROVE  EvidenceInv'
<1> USE DEF Evidence!Go, Evidence!disk
<1>1. /\ evPc' = [evPc EXCEPT ![c] = "idle"]
      /\ writer' = IF writer = c THEN None ELSE writer
      /\ draft' = IF writer = c THEN db ELSE draft
      /\ seen' = [seen EXCEPT ![c] = None] /\ job' = [job EXCEPT ![c] = None]
      /\ expected' = [expected EXCEPT ![c] = None]
      /\ UNCHANGED <<source, content, evChanges, db>>
    BY DEF Evidence!GiveUp
<1>2. /\ evPc'[c] = "idle"
      /\ \A u \in evClients \ {c} : /\ evPc'[u] = evPc[u] /\ job'[u] = job[u]
                                  /\ seen'[u] = seen[u] /\ expected'[u] = expected[u]
    BY <1>1 DEF EvidenceInv, Evidence!TypeOK
<1>3. draft' \in Evidence!Stores /\ draft' \in {db, draft} /\ (writer' = None => draft' = db)
    BY <1>1 DEF EvidenceInv, Evidence!TypeOK
<1>4. Evidence!TypeOK'
    <2>1. \A u \in evClients : evPc'[u] \in Evidence!InTransaction <=> writer' = u
        <3>1. writer' # c
            BY <1>1 DEF Evidence!EvidenceAssumption
        <3> QED BY <3>1, <1>1, <1>2 DEF EvidenceInv, Evidence!TypeOK, Evidence!InTransaction, Evidence!EvidenceAssumption
    <2>2. draft'.gen - db.gen \in {0, 1}
        BY <1>3 DEF EvidenceInv, Evidence!TypeOK, Evidence!Stores
    <2> QED BY <2>1, <2>2, <1>1, <1>3 DEF EvidenceInv, Evidence!TypeOK
<1>5. StoreKept(db)' /\ StoreKept(draft)'
    BY <1>1, <1>3 DEF EvidenceInv, StoreKept, Sound
<1>6. DraftKept'
    BY <1>1, <1>3 DEF EvidenceInv, DraftKept, Evidence!TypeOK
<1>7. InHand(c)'
    BY <1>2 DEF InHand
<1>8. \A u \in evClients \ {c} : InHand(u)'
    <2> SUFFICES ASSUME NEW u \in evClients \ {c}
                 PROVE  InHand(u)'
        OBVIOUS
    <2>1. CASE writer = c
        BY <2>1, <1>1, <1>2, OneWriter, OthersInHand DEF EvidenceInv, Evidence!TypeOK
    <2>2. CASE writer # c
        BY <2>2, <1>1, <1>2, OthersInHand
    <2> QED BY <2>1, <2>2
<1> QED BY <1>4, <1>5, <1>6, <1>7, <1>8 DEF EvidenceInv

\* What the map now says is as the source was: what was bound to another generation
\* stays behind, unless there was nothing to sync.
LEMMA SyncReadKeeps ==
    ASSUME Evidence!EvidenceAssumption, EvidenceInv, NEW c \in evClients, Evidence!SyncRead(c)
    PROVE  EvidenceInv'
<1> USE DEF Evidence!Go, Evidence!disk
<1>1. /\ evPc[c] = "syncing" /\ writer = c /\ draft = db /\ evPc' = [evPc EXCEPT ![c] = "done"]
      /\ UNCHANGED <<source, content, evChanges, db, writer, job, expected, seen>>
      /\ db \in Evidence!Stores /\ source \in Nat
    BY DEF Evidence!SyncRead, EvidenceInv, Evidence!TypeOK, InHand, Evidence!InTransaction
<1>2. evPc'[c] = "done" /\ \A u \in evClients \ {c} : evPc'[u] = evPc[u]
    BY <1>1 DEF EvidenceInv, Evidence!TypeOK
<1>3. /\ draft' \in Evidence!Stores /\ draft'.mapped = source /\ draft'.snap = db.snap
      /\ draft'.from = db.from /\ draft'.late = db.late
      /\ IF db.mapped = source THEN draft' = db ELSE draft'.gen = db.gen + 1
    <2>1. draft' = [db EXCEPT !.mapped = source,
                              !.gen = IF db.mapped # source THEN db.gen + 1 ELSE db.gen]
        BY <1>1 DEF Evidence!SyncRead
    <2>2. db = [gen |-> db.gen, mapped |-> db.mapped, snap |-> db.snap, from |-> db.from,
                late |-> db.late]
        BY <1>1 DEF Evidence!Stores
    <2>3. draft' = [gen |-> IF db.mapped # source THEN db.gen + 1 ELSE db.gen,
                    mapped |-> source, snap |-> db.snap, from |-> db.from, late |-> db.late]
        BY <2>1, <2>2
    <2> QED BY <1>1, <2>2, <2>3 DEF Evidence!Stores
<1>4. Evidence!TypeOK'
    <2>1. \A u \in evClients : evPc'[u] \in Evidence!InTransaction <=> writer' = u
        BY <1>1, <1>2 DEF EvidenceInv, Evidence!TypeOK, Evidence!InTransaction
    <2>2. draft'.gen - db.gen \in {0, 1}
        BY <1>1, <1>3 DEF Evidence!Stores
    <2>3. writer' # None
        BY <1>1 DEF Evidence!EvidenceAssumption
    <2> QED BY <2>1, <2>2, <2>3, <1>1, <1>3 DEF EvidenceInv, Evidence!TypeOK, Evidence!InTransaction
<1>5. StoreKept(draft)'
    <2>1. CASE db.mapped = source
        BY <2>1, <1>3, <1>1 DEF EvidenceInv, StoreKept, Sound
    <2>2. CASE db.mapped # source
        <3> SUFFICES ASSUME NEW p \in Producers, db.snap[p] # None
                     PROVE  /\ db.snap[p].gen <= draft'.gen /\ db.from[p] \in Evidence!Views
                            /\ p \notin db.late =>
                                 /\ \A m \in Own(p) : db.from[p].man[m] = db.snap[p].man[m]
                                 /\ p \in Bound /\ db.snap[p].gen = draft'.gen =>
                                        db.from[p].src >= source
            BY <1>3 DEF StoreKept, Sound
        <3>1. db.snap[p].gen \in Nat /\ db.gen \in Nat
            BY <1>1 DEF Evidence!Stores, Evidence!Snapshot
        <3> QED BY <3>1, <2>2, <1>3 DEF EvidenceInv, StoreKept, Sound
    <2> QED BY <2>1, <2>2
<1>6. StoreKept(db)' /\ DraftKept'
    BY <1>1, <1>3 DEF EvidenceInv, StoreKept, Sound, DraftKept, Evidence!Stores
<1>7. InHand(c)'
    BY <1>2 DEF InHand
<1>8. \A u \in evClients \ {c} : InHand(u)'
    BY <1>1, <1>2, OneWriter, OthersInHand DEF EvidenceInv
<1> QED BY <1>4, <1>5, <1>6, <1>7, <1>8 DEF EvidenceInv

\* The snapshot is of the manifests as they are by now: if they are not those that were
\* collected, the evidence is late.
LEMMA RecordStepKeeps ==
    ASSUME Evidence!EvidenceAssumption, EvidenceInv, NEW c \in evClients, Evidence!Record(c)
    PROVE  EvidenceInv'
<1> USE DEF Evidence!Go, Evidence!disk
<1> DEFINE p == job[c]
           bumped == IF draft.gen = db.gen THEN Evidence!CarryForward(draft) ELSE draft
           moved == \E m \in Watches[p] : seen[c].man[m] # content[m]
<1>1. /\ evPc[c] = "collected" /\ writer = c /\ evPc' = [evPc EXCEPT ![c] = "enriching"]
      /\ draft' = Evidence!Late([Evidence!Recorded(bumped, p) EXCEPT !.from[p] = seen[c]], p, moved)
      /\ UNCHANGED <<source, content, evChanges, db, writer, job, expected, seen>>
    BY DEF Evidence!Record, EvidenceInv, Evidence!TypeOK, Evidence!InTransaction
<1>2. evPc'[c] = "enriching" /\ \A u \in evClients \ {c} : evPc'[u] = evPc[u]
    BY <1>1 DEF EvidenceInv, Evidence!TypeOK
<1>3. /\ p \in Producers /\ seen[c] \in Evidence!Views /\ seen[c].src >= draft.mapped
      /\ draft \in Evidence!Stores /\ db \in Evidence!Stores
    BY <1>1 DEF EvidenceInv, InHand, Evidence!TypeOK
<1>4. /\ bumped \in Evidence!Stores /\ StoreKept(bumped) /\ bumped.mapped = draft.mapped
      /\ bumped.gen = db.gen + 1
    <2>1. StoreKept(draft) /\ draft.gen \in Nat /\ db.gen \in Nat /\ draft.gen - db.gen \in {0, 1}
        BY <1>3 DEF EvidenceInv, Evidence!TypeOK, Evidence!Stores
    <2> QED BY <2>1, <1>3, CarryKeeps
<1> HIDE DEF bumped
<1>5. /\ draft' \in Evidence!Stores /\ StoreKept(draft') /\ draft'.gen = db.gen + 1
      /\ draft'.mapped = draft.mapped
    <2>1. ~moved => \A m \in Own(p) : seen[c].man[m] = content[m]
        BY DEF Own
    <2>2. content \in [Manifests -> Contents] /\ moved \in BOOLEAN
        BY DEF EvidenceInv, Evidence!TypeOK
    <2> HIDE DEF p, moved
    <2> QED BY <1>1, <1>3, <1>4, <2>1, <2>2, Published
<1>6. db.gen \in Nat /\ draft'.gen # db.gen /\ draft'.gen - db.gen \in {0, 1} /\ db' = db
    <2>1. db.gen \in Nat
        BY <1>3 DEF Evidence!Stores
    <2>2. db' = db
        BY <1>1
    <2>3. draft'.gen = db.gen + 1
        BY <1>5
    <2> QED BY <2>1, <2>2, <2>3
<1>7. Evidence!TypeOK'
    <2>1. \A u \in evClients : evPc'[u] \in Evidence!InTransaction <=> writer' = u
        BY <1>1, <1>2 DEF EvidenceInv, Evidence!TypeOK, Evidence!InTransaction
    <2>2. writer # None
        BY <1>1 DEF Evidence!EvidenceAssumption
    <2> QED BY <2>1, <2>2, <1>1, <1>5, <1>6 DEF EvidenceInv, Evidence!TypeOK, Evidence!InTransaction
<1>8. StoreKept(db)' /\ StoreKept(draft)' /\ DraftKept'
    <2>1. StoreKept(db)'
        BY <1>6 DEF EvidenceInv, StoreKept, Sound
    <2>2. StoreKept(draft)'
        BY <1>5 DEF StoreKept, Sound
    <2>3. source' = source
        BY <1>1
    <2>4. DraftKept'
        BY <2>3, <1>5, <1>6 DEF EvidenceInv, DraftKept
    <2> QED BY <2>1, <2>2, <2>4
<1>9. InHand(c)'
    BY <1>2 DEF InHand
<1>10. \A u \in evClients \ {c} : InHand(u)'
    BY <1>1, <1>2, <1>3, OneWriter, OthersInHand DEF EvidenceInv
<1> QED BY <1>7, <1>8, <1>9, <1>10 DEF EvidenceInv

\* A commit that changes anything has a generation of its own, so that whoever has
\* judged by the one before will see it.
LEMMA CommitKeeps ==
    ASSUME Evidence!EvidenceAssumption, EvidenceInv, NEW c \in evClients, Evidence!Commit(c)
    PROVE  EvidenceInv'
<1> USE DEF Evidence!Go, Evidence!disk
<1>1. /\ evPc[c] = "done" /\ writer = c /\ writer' = None /\ evPc' = [evPc EXCEPT ![c] = "idle"]
      /\ db' = draft /\ draft' = draft
      /\ seen' = [seen EXCEPT ![c] = None] /\ job' = [job EXCEPT ![c] = None]
      /\ UNCHANGED <<source, content, evChanges, expected>>
      /\ db \in Evidence!Stores /\ draft \in Evidence!Stores
    BY DEF Evidence!Commit, EvidenceInv, Evidence!TypeOK, Evidence!InTransaction
<1>2. /\ evPc'[c] = "idle"
      /\ \A u \in evClients \ {c} : evPc'[u] = evPc[u] /\ job'[u] = job[u] /\ seen'[u] = seen[u]
    BY <1>1 DEF EvidenceInv, Evidence!TypeOK
<1>3. db' = db \/ db'.gen > db.gen
    <2>1. draft.gen - db.gen \in {0, 1} /\ draft.gen \in Nat /\ db.gen \in Nat
        BY <1>1 DEF EvidenceInv, Evidence!TypeOK, Evidence!Stores
    <2> QED BY <2>1, <1>1 DEF EvidenceInv, DraftKept
<1>4. Evidence!TypeOK'
    <2>1. \A u \in evClients : evPc'[u] \in Evidence!InTransaction <=> writer' = u
        BY <1>1, <1>2, OneWriter DEF EvidenceInv, Evidence!InTransaction, Evidence!EvidenceAssumption
    <2>2. db'.mapped <= source /\ draft'.gen - db'.gen \in {0, 1}
        BY <1>1 DEF EvidenceInv, DraftKept, Evidence!Stores
    <2>3. \A p \in Producers : db'.snap[p] # None => db'.snap[p].gen <= db'.gen
        BY <1>1 DEF EvidenceInv, StoreKept
    <2> QED BY <2>1, <2>2, <2>3, <1>1 DEF EvidenceInv, Evidence!TypeOK
<1>5. StoreKept(db)' /\ StoreKept(draft)' /\ DraftKept'
    BY <1>1 DEF EvidenceInv, StoreKept, Sound, DraftKept
<1>6. InHand(c)'
    BY <1>2 DEF InHand
<1>7. \A u \in evClients \ {c} : InHand(u)'
    BY <1>1, <1>2, <1>3, OneWriter, OthersInHand DEF EvidenceInv
<1> QED BY <1>4, <1>5, <1>6, <1>7 DEF EvidenceInv

\* A publication in one step, of evidence that is late or is of what its snapshot says.
LEMMA OneStepPublicationKeeps ==
    ASSUME Evidence!EvidenceAssumption, EvidenceInv, NEW c \in evClients, writer = None,
           db' \in Evidence!Stores, StoreKept(db'), db'.gen = db.gen + 1, db'.mapped = db.mapped,
           draft' = db', evPc' = [evPc EXCEPT ![c] = "idle"],
           seen' = [seen EXCEPT ![c] = None], job' = [job EXCEPT ![c] = None],
           expected' \in [evClients -> Nat \cup {None}],
           \A u \in evClients \ {c} : expected'[u] = expected[u],
           UNCHANGED <<source, content, evChanges, writer>>
    PROVE  EvidenceInv'
<1>1. /\ evPc'[c] = "idle" /\ db \in Evidence!Stores
      /\ \A u \in evClients \ {c} : evPc'[u] = evPc[u] /\ job'[u] = job[u] /\ seen'[u] = seen[u]
    BY DEF EvidenceInv, Evidence!TypeOK
<1>2. Evidence!TypeOK'
    <2>1. \A u \in evClients : evPc'[u] \in Evidence!InTransaction <=> writer' = u
        BY <1>1, OneWriter DEF EvidenceInv, Evidence!InTransaction, Evidence!EvidenceAssumption
    <2>2. db'.mapped <= source /\ draft'.gen - db'.gen \in {0, 1}
        BY DEF EvidenceInv, Evidence!TypeOK, Evidence!Stores
    <2>3. \A p \in Producers : db'.snap[p] # None => db'.snap[p].gen <= db'.gen
        BY DEF StoreKept
    <2> QED BY <2>1, <2>2, <2>3 DEF EvidenceInv, Evidence!TypeOK
<1>3. StoreKept(db)' /\ StoreKept(draft)' /\ DraftKept'
    BY DEF EvidenceInv, Evidence!TypeOK, StoreKept, Sound, DraftKept
<1>4. InHand(c)'
    BY <1>1 DEF InHand
<1>5. db'.gen > db.gen
    BY <1>1 DEF Evidence!Stores
<1>6. \A u \in evClients \ {c} : InHand(u)'
    BY <1>1, <1>5, OneWriter, OthersInHand DEF EvidenceInv
<1> QED BY <1>2, <1>3, <1>4, <1>6 DEF EvidenceInv

LEMMA ImportPublishKeeps ==
    ASSUME Evidence!EvidenceAssumption, EvidenceInv, NEW c \in evClients, Evidence!ImportPublish(c)
    PROVE  EvidenceInv'
<1> USE DEF Evidence!Go, Evidence!disk
<1> DEFINE p == job[c]
           moved == seen[c].src # db.mapped
<1>1. /\ evPc[c] = "imported" /\ writer = None
      /\ db' = Evidence!Late([Evidence!Recorded(Evidence!CarryForward(db), p) EXCEPT !.from[p] = seen[c]], p, moved)
    BY DEF Evidence!ImportPublish
<1>2. /\ p \in Imported /\ p \in Producers /\ Own(p) = {} /\ seen[c] \in Evidence!Views
      /\ db \in Evidence!Stores /\ StoreKept(db) /\ content \in [Manifests -> Contents]
    BY <1>1 DEF EvidenceInv, InHand, Evidence!TypeOK, Own, Evidence!EvidenceAssumption
<1>3. db' \in Evidence!Stores /\ StoreKept(db') /\ db'.gen = db.gen + 1 /\ db'.mapped = db.mapped
    <2>1. /\ Evidence!CarryForward(db) \in Evidence!Stores /\ StoreKept(Evidence!CarryForward(db))
          /\ Evidence!CarryForward(db).gen = db.gen + 1 /\ Evidence!CarryForward(db).mapped = db.mapped
        BY <1>2, CarryKeeps
    <2>2. ~moved => seen[c].src >= db.mapped
        BY <1>2 DEF Evidence!Stores
    <2>3. moved \in BOOLEAN
        OBVIOUS
    <2> HIDE DEF p, moved
    <2> QED BY <1>1, <1>2, <2>1, <2>2, <2>3, Published
<1>4. expected' \in [evClients -> Nat \cup {None}] /\ expected' = expected
    BY DEF Evidence!ImportPublish, EvidenceInv, Evidence!TypeOK
<1> QED BY <1>1, <1>3, <1>4, OneStepPublicationKeeps DEF Evidence!ImportPublish

\* A rebinding leaves the rows: they are as they were when the shared inputs were found
\* to be all that had changed, and what has changed since then makes them late.
LEMMA RebindKeeps ==
    ASSUME Evidence!EvidenceAssumption, EvidenceInv, NEW c \in evClients, Evidence!Rebind(c)
    PROVE  EvidenceInv'
<1> USE DEF Evidence!Go, Evidence!disk
<1> DEFINE p == job[c]
           moved == p \in db.late \/ \E m \in Watches[p] \ Shared : seen[c].man[m] # content[m]
<1>1. /\ evPc[c] = "rebind" /\ writer = None /\ db.gen = expected[c]
      /\ db' = Evidence!Late(Evidence!Recorded(Evidence!CarryForward(db), p), p, moved)
    BY DEF Evidence!Rebind
<1>2. /\ p \in Producers \ Bound /\ db.snap[p] # None
      /\ \A m \in Own(p) : db.snap[p].man[m] = seen[c].man[m]
      /\ db \in Evidence!Stores /\ StoreKept(db) /\ content \in [Manifests -> Contents]
    BY <1>1 DEF EvidenceInv, InHand, Evidence!TypeOK
<1>3. db.from[p] \in Evidence!Views /\ (p \notin db.late => Sound(db, p))
    BY <1>2 DEF StoreKept
<1>4. db' \in Evidence!Stores /\ StoreKept(db') /\ db'.gen = db.gen + 1 /\ db'.mapped = db.mapped
    <2> DEFINE s == Evidence!CarryForward(db)
               v == db.from[p]
    <2>1. /\ s \in Evidence!Stores /\ StoreKept(s) /\ s.gen = db.gen + 1 /\ s.mapped = db.mapped
          /\ s.from = db.from
        BY <1>2, CarryKeeps
    <2>2. ~moved => \A m \in Own(p) : v.man[m] = content[m]
        BY <1>2, <1>3 DEF Sound, Own
    <2>3. db' = Evidence!Late(Evidence!Recorded(s, p), p, moved) /\ s.from[p] = v
        BY <1>1, <2>1
    <2>4. moved \in BOOLEAN /\ p \notin Bound /\ p \in Producers /\ v \in Evidence!Views
        BY <1>2, <1>3
    <2> HIDE DEF p, moved, s, v
    <2>5. /\ \/ db' = Evidence!Late([Evidence!Recorded(s, p) EXCEPT !.from[p] = v], p, moved)
             \/ db' = Evidence!Late(Evidence!Recorded(s, p), p, moved) /\ s.from[p] = v
          /\ ~moved /\ p \in Bound => v.src >= s.mapped
        BY <2>3, <2>4
    <2>6. db' \in Evidence!Stores /\ StoreKept(db') /\ db'.gen = s.gen /\ db'.mapped = s.mapped
        BY <1>2, <2>1, <2>2, <2>4, <2>5, Published
    <2> QED BY <2>1, <2>6
<1>5. /\ expected' \in [evClients -> Nat \cup {None}]
      /\ \A u \in evClients \ {c} : expected'[u] = expected[u]
    BY DEF Evidence!Rebind, EvidenceInv, Evidence!TypeOK
<1> QED BY <1>1, <1>4, <1>5, OneStepPublicationKeeps DEF Evidence!Rebind

LEMMA EvidenceStep == Evidence!EvidenceAssumption /\ EvidenceInv /\ [Evidence!Next]_Evidence!vars => EvidenceInv'
<1> SUFFICES ASSUME Evidence!EvidenceAssumption, EvidenceInv, [Evidence!Next]_Evidence!vars
             PROVE  EvidenceInv'
    OBVIOUS
<1>1. CASE Evidence!EditSource \/ \E m \in Manifests : Evidence!EditManifest(m)
    BY <1>1, EditKeeps
<1>2. CASE \E c \in evClients : Evidence!SyncBegin(c) \/ Evidence!SyncRead(c)
    BY <1>2, SyncBeginKeeps, SyncReadKeeps
<1>3. CASE \E c \in evClients : Evidence!EnrichBegin(c) \/ Evidence!Collect(c) \/ Evidence!Record(c) \/ Evidence!EnrichEnd(c)
    BY <1>3, EnrichBeginKeeps, CollectKeeps, RecordStepKeeps, EnrichEndKeeps
<1>4. CASE \E c \in evClients : Evidence!Commit(c) \/ Evidence!ImportCollect(c) \/ Evidence!ImportPublish(c)
    BY <1>4, CommitKeeps, ImportCollectKeeps, ImportPublishKeeps
<1>5. CASE \E c \in evClients : Evidence!Judge(c) \/ Evidence!Rebind(c) \/ Evidence!GiveUp(c)
    BY <1>5, JudgeKeeps, RebindKeeps, GiveUpKeeps
<1>6. CASE UNCHANGED Evidence!vars
    BY <1>6 DEF Evidence!vars, Evidence!disk, Evidence!local, EvidenceInv, Evidence!TypeOK, StoreKept, Sound, DraftKept, InHand
<1> QED BY <1>1, <1>2, <1>3, <1>4, <1>5, <1>6 DEF Evidence!Next

(***************************************************************************)
(* The theorems                                                            *)
(***************************************************************************)
(* The variables have their types, one client at a time has a transaction,   *)
(* and whatever changes the store changes its generation.                    *)
THEOREM EvidenceInvariant == Evidence!EvidenceAssumption => (Evidence!Spec => [](Evidence!TypeOK /\ EvidenceInv))
<1>1. SUFFICES ASSUME Evidence!EvidenceAssumption
               PROVE  Evidence!Spec => [](Evidence!TypeOK /\ EvidenceInv)
    OBVIOUS
<1>2. Evidence!Init => EvidenceInv
    BY <1>1, EvidenceInit
<1>3. EvidenceInv /\ [Evidence!Next]_Evidence!vars => EvidenceInv'
    BY <1>1, EvidenceStep
<1>4. EvidenceInv => Evidence!TypeOK /\ EvidenceInv
    BY DEF EvidenceInv
<1> QED BY <1>2, <1>3, <1>4, PTL DEF Evidence!Spec

(* Evidence that takes part is of the manifests as they are, and of source no *)
(* older than the map's if it is bound to the generation, unless it was       *)
(* overtaken between its collection and its publication.                      *)
THEOREM FreshEvidenceIsTrue == Evidence!EvidenceAssumption => (Evidence!Spec => []Evidence!EvidenceFreshUnlessRaced)
<1>1. SUFFICES ASSUME Evidence!EvidenceAssumption
               PROVE  Evidence!Spec => []Evidence!EvidenceFreshUnlessRaced
    OBVIOUS
<1>2. Evidence!Spec => [](Evidence!TypeOK /\ EvidenceInv)
    BY <1>1, EvidenceInvariant
<1>3. EvidenceInv => Evidence!EvidenceFreshUnlessRaced
    <2> SUFFICES ASSUME EvidenceInv, NEW p \in Producers \ db.late, Evidence!Fresh(p)
                 PROVE  /\ p \in Bound => db.from[p].src >= db.mapped
                        /\ \A m \in Own(p) : db.from[p].man[m] = content[m]
        BY DEF Evidence!EvidenceFreshUnlessRaced, Own
    <2>1. Sound(db, p)
        BY DEF Evidence!Fresh, EvidenceInv, StoreKept
    <2>2. \A m \in Own(p) : db.snap[p].man[m] = content[m]
        BY DEF Evidence!Fresh, Evidence!Changed, Own
    <2> QED BY <2>1, <2>2 DEF Sound, Evidence!Fresh
<1> QED BY <1>2, <1>3, PTL


(***************************************************************************)
(* ReleaseCheck, for any number of commands, intervals and ages of locks.  *)
(* A command without company runs alone: nobody moves the cache while it   *)
(* looks at it.  What such a command has left there is only replaced by    *)
(* commands that began after it, whatever locks they have taken away, so   *)
(* the time in the cache does not fall below it.                           *)
(***************************************************************************)
\* d, which asks or has asked, began an interval after every check it should know of.
Due(x) ==
    \A y \in (recorded \ company) \cap rcBefore[x] : now[x] - now[y] >= Interval

ReleaseInv ==
    /\ Release!TypeOK
    /\ \A x, y \in Release!Running : x # y => x \in company
    /\ cache # None => cache <= clock
    /\ \A x \in Checks :
          /\ now[x] <= clock
          /\ rcPc[x] = "write" => x \in fetched
          /\ x \in fetched => rcPc[x] \in {"write", "release", "done"}
          /\ \A y \in rcBefore[x] : rcPc[y] = "done"
          /\ x \in Release!Running \ company /\ cache # None => cache <= now[x]
          /\ x \notin company /\ (rcPc[x] = "fetch" \/ x \in fetched) => Due(x)
    /\ \A x \in recorded \ company :
          /\ cache # None /\ now[x] <= cache
          /\ \A y \in Release!Running : now[x] <= now[y]

LEMMA ReleaseInit == Release!ReleaseAssumption /\ Release!Init => ReleaseInv
<1> SUFFICES ASSUME Release!ReleaseAssumption, Release!Init
             PROVE  ReleaseInv
    OBVIOUS
<1>1. 0 \in Release!Times
    BY DEF Release!ReleaseAssumption, Release!Times
<1>2. Release!TypeOK
    BY <1>1 DEF Release!Init, Release!TypeOK, Release!Labels
<1>3. Release!Running = {} /\ \A x \in Checks : now[x] = 0 /\ rcPc[x] = "new" /\ rcBefore[x] = {}
    BY DEF Release!Init, Release!Running
<1>4. clock = 0 /\ cache = None /\ fetched = {} /\ recorded = {}
    BY DEF Release!Init
<1> QED BY <1>2, <1>3, <1>4 DEF ReleaseInv, Due

LEMMA TickKeeps ==
    ASSUME Release!ReleaseAssumption, ReleaseInv, Release!Tick
    PROVE  ReleaseInv'
<1> USE DEF Release!Tick, Release!files, Release!history
<1>1. Release!TypeOK' /\ clock' = clock + 1 /\ clock \in Nat
    BY DEF ReleaseInv, Release!TypeOK, Release!Times, Release!ReleaseAssumption
<1>2. /\ cache # None => cache \in Nat /\ cache <= clock'
      /\ \A x \in Checks : now[x] \in Nat /\ now[x] <= clock'
    BY <1>1 DEF ReleaseInv, Release!TypeOK, Release!Times
<1> QED BY <1>1, <1>2 DEF ReleaseInv, Due, Release!Running

LEMMA BeginKeeps ==
    ASSUME Release!ReleaseAssumption, ReleaseInv, NEW x \in Checks, Release!Begin(x)
    PROVE  ReleaseInv'
<1> USE DEF Release!Begin, Release!Go, Release!files
<1>1. Release!TypeOK'
    <2>1. company' \subseteq Checks
        BY DEF ReleaseInv, Release!TypeOK, Release!Running
    <2>2. rcBefore' \in [Checks -> SUBSET Checks]
        BY DEF ReleaseInv, Release!TypeOK
    <2> QED BY <2>1, <2>2 DEF ReleaseInv, Release!TypeOK, Release!Labels
<1>2. /\ Release!Running' = Release!Running \cup {x} /\ x \notin Release!Running
      /\ x \notin fetched /\ x \notin recorded
    BY DEF ReleaseInv, Release!TypeOK, Release!Running
<1>3. clock \in Nat /\ (cache # None => cache \in Nat) /\ \A y \in Checks : now[y] \in Nat
    BY DEF ReleaseInv, Release!TypeOK, Release!Times, Release!ReleaseAssumption
<1>4. \A u, v \in Release!Running' : u # v => u \in company'
    BY <1>2 DEF ReleaseInv
<1>5. now'[x] = clock /\ \A y \in Checks \ {x} : now'[y] = now[y] /\ rcPc'[y] = rcPc[y]
                                                 /\ rcBefore'[y] = rcBefore[y]
    BY DEF ReleaseInv, Release!TypeOK
<1>6. /\ rcPc'[x] = "look" /\ rcBefore'[x] = {y \in Checks : rcPc[y] = "done"}
      /\ rcPc[x] = "new" /\ company \subseteq company'
      /\ UNCHANGED <<clock, cache, fetched, recorded>>
    BY DEF ReleaseInv, Release!TypeOK
<1>7. ASSUME NEW y \in Checks
      PROVE  /\ now'[y] <= clock'
             /\ rcPc'[y] = "write" => y \in fetched'
             /\ y \in fetched' => rcPc'[y] \in {"write", "release", "done"}
             /\ \A z \in rcBefore'[y] : rcPc'[z] = "done"
             /\ y \in Release!Running' \ company' /\ cache' # None => cache' <= now'[y]
             /\ y \notin company' /\ (rcPc'[y] = "fetch" \/ y \in fetched') => Due(y)'
    <2>1. CASE y = x
        BY <2>1, <1>2, <1>3, <1>5, <1>6 DEF ReleaseInv
    <2>2. CASE y # x
        <3>1. \A z \in rcBefore'[y] : z \in Checks /\ rcPc[z] = "done" /\ z # x
            BY <2>2, <1>1, <1>5, <1>6 DEF ReleaseInv, Release!TypeOK
        <3>2. \A z \in rcBefore'[y] : rcPc'[z] = "done" /\ now'[z] = now[z]
            BY <3>1, <1>5
        <3>3. y \notin company' /\ (rcPc'[y] = "fetch" \/ y \in fetched') => Due(y)'
            BY <2>2, <3>2, <1>5, <1>6 DEF ReleaseInv, Due
        <3> QED BY <2>2, <3>2, <3>3, <1>2, <1>5, <1>6 DEF ReleaseInv
    <2> QED BY <2>1, <2>2
<1>8. ASSUME NEW y \in recorded' \ company'
      PROVE  /\ cache' # None /\ now'[y] <= cache'
             /\ \A z \in Release!Running' : now'[y] <= now'[z]
    <2>1. y \in recorded \ company /\ y # x /\ y \in Checks
        BY <1>2, <1>6 DEF ReleaseInv, Release!TypeOK
    <2>2. now[y] <= clock
        BY <2>1 DEF ReleaseInv
    <2>3. \A z \in Release!Running : z \in Checks /\ z # x /\ now[y] <= now[z]
        BY <2>1, <1>2 DEF ReleaseInv, Release!Running
    <2> QED BY <1>2, <1>5, <1>6, <2>1, <2>2, <2>3 DEF ReleaseInv
<1>9. cache' # None => cache' <= clock'
    BY DEF ReleaseInv
<1> QED BY <1>1, <1>4, <1>7, <1>8, <1>9 DEF ReleaseInv

\* A step that moves neither a time nor the cache nor who has asked.
LEMMA ReleaseAside ==
    ASSUME ReleaseInv, NEW x \in Release!Running, NEW l \in Release!Labels \ {"new", "write"},
           Release!Go(x, l), Release!TypeOK', UNCHANGED <<clock, cache, now, Release!history>>,
           x \in fetched => l \in {"release", "done"},
           l = "fetch" /\ x \notin company => Due(x)
    PROVE  ReleaseInv'
<1> USE DEF Release!Go, Release!history
<1>1. Release!Running' \subseteq Release!Running /\ rcPc[x] # "done"
    BY DEF ReleaseInv, Release!TypeOK, Release!Running
<1>2. rcPc'[x] = l /\ \A y \in Checks \ {x} : rcPc'[y] = rcPc[y]
    BY DEF ReleaseInv, Release!TypeOK
<1>3. ASSUME NEW y \in Checks
      PROVE  /\ rcPc'[y] = "write" => y \in fetched
             /\ y \in fetched => rcPc'[y] \in {"write", "release", "done"}
             /\ \A z \in rcBefore[y] : rcPc'[z] = "done"
             /\ y \notin company /\ (rcPc'[y] = "fetch" \/ y \in fetched) => Due(y)
    <2>1. \A z \in rcBefore[y] : z \in Checks /\ z # x
        BY <1>1 DEF ReleaseInv, Release!TypeOK
    <2>2. rcPc'[y] = "fetch" => (y = x /\ l = "fetch") \/ rcPc[y] = "fetch"
        BY <1>2
    <2> QED BY <1>2, <2>1, <2>2 DEF ReleaseInv
<1>4. \A y \in Checks : Due(y)' <=> Due(y)
    BY DEF Due
<1> QED BY <1>1, <1>3, <1>4 DEF ReleaseInv

LEMMA LookKeeps ==
    ASSUME ReleaseInv, NEW x \in Checks,
           Release!Look(x) \/ Release!Age(x) \/ Release!Unlink(x) \/ Release!Create(x)
              \/ Release!Release(x) \/ Release!Crash(x)
    PROVE  ReleaseInv'
<1>1. x \in Release!Running
    BY DEF Release!Look, Release!Age, Release!Unlink, Release!Create, Release!Release,
           Release!Crash, Release!Running
<1>2. Release!TypeOK' /\ UNCHANGED <<clock, cache, now, Release!history>>
    BY DEF Release!Look, Release!Age, Release!Unlink, Release!Create, Release!Release,
           Release!Crash, Release!Go, Release!files, Release!history, ReleaseInv,
           Release!TypeOK, Release!Labels
<1>3. \E l \in Release!Labels \ {"new", "write", "fetch"} :
         Release!Go(x, l) /\ (x \in fetched => l \in {"release", "done"})
    BY DEF Release!Look, Release!Age, Release!Unlink, Release!Create, Release!Release,
           Release!Crash, Release!Labels, ReleaseInv
<1> QED BY <1>1, <1>2, <1>3, ReleaseAside

LEMMA LookAgainKeeps ==
    ASSUME Release!ReleaseAssumption, ReleaseInv, NEW x \in Checks, Release!LookAgain(x)
    PROVE  ReleaseInv'
<1>1. /\ x \in Release!Running /\ x \notin fetched /\ Release!TypeOK'
      /\ UNCHANGED <<clock, cache, now, Release!history>>
    BY DEF Release!LookAgain, Release!Go, Release!files, Release!history, Release!Running,
           ReleaseInv, Release!TypeOK, Release!Labels
<1>2. ASSUME ~Release!IsFresh(x), x \notin company, NEW y \in (recorded \ company) \cap rcBefore[x]
      PROVE  now[x] - now[y] >= Interval
    <2>1. cache # None /\ now[y] <= cache /\ cache <= now[x] /\ y \in Checks
        BY <1>1, <1>2 DEF ReleaseInv, Release!TypeOK
    <2>2. cache \in Nat /\ now[x] \in Nat /\ now[y] \in Nat /\ Interval \in Nat
        BY <2>1 DEF ReleaseInv, Release!TypeOK, Release!Times, Release!ReleaseAssumption
    <2>3. ~(now[x] - cache \in 0..(Interval - 1))
        BY <1>2, <2>1 DEF Release!IsFresh
    <2> QED BY <2>1, <2>2, <2>3
<1>3. \E l \in {"release", "fetch"} :
         Release!Go(x, l) /\ (l = "fetch" /\ x \notin company => Due(x))
    BY <1>2 DEF Release!LookAgain, Due
<1> QED BY <1>1, <1>3, ReleaseAside DEF Release!Labels

LEMMA FetchKeeps ==
    ASSUME ReleaseInv, NEW x \in Checks, Release!Fetch(x)
    PROVE  ReleaseInv'
<1> USE DEF Release!Fetch, Release!Go, Release!files
<1>1. Release!TypeOK'
    BY DEF ReleaseInv, Release!TypeOK, Release!Labels
<1>2. Release!Running' = Release!Running
    BY DEF ReleaseInv, Release!TypeOK, Release!Running
<1>3. \A y \in Checks : Due(y)' <=> Due(y)
    BY DEF Due
<1>4. ASSUME NEW y \in Checks
      PROVE  /\ rcPc'[y] = "write" => y \in fetched'
             /\ y \in fetched' => rcPc'[y] \in {"write", "release", "done"}
             /\ \A z \in rcBefore[y] : rcPc'[z] = "done"
             /\ y \notin company /\ (rcPc'[y] = "fetch" \/ y \in fetched') => Due(y)
    <2>1. \A z \in rcBefore[y] : z \in Checks /\ z # x
        BY DEF ReleaseInv, Release!TypeOK
    <2> QED BY <2>1 DEF ReleaseInv, Release!TypeOK
<1> QED BY <1>1, <1>2, <1>3, <1>4 DEF ReleaseInv

LEMMA CheckWriteKeeps ==
    ASSUME Release!ReleaseAssumption, ReleaseInv, NEW x \in Checks, Release!Write(x)
    PROVE  ReleaseInv'
<1> USE DEF Release!Write, Release!Go
<1>1. Release!TypeOK'
    BY DEF ReleaseInv, Release!TypeOK, Release!Labels
<1>2. Release!Running' = Release!Running /\ x \in Release!Running /\ x \in fetched
    BY DEF ReleaseInv, Release!TypeOK, Release!Running
<1>3. \A y \in Checks : now[y] \in Nat
    BY DEF ReleaseInv, Release!TypeOK, Release!Times, Release!ReleaseAssumption
<1>4. ASSUME NEW y \in Checks
      PROVE  /\ rcPc'[y] = "write" => y \in fetched
             /\ y \in fetched => rcPc'[y] \in {"write", "release", "done"}
             /\ \A z \in rcBefore[y] : rcPc'[z] = "done" /\ z # x
    BY DEF ReleaseInv, Release!TypeOK
<1>5. \A y \in Checks : Due(y) => Due(y)'
    BY <1>4 DEF Due
<1>6. ASSUME NEW y \in Checks, y \notin company, rcPc'[y] = "fetch" \/ y \in fetched
      PROVE  Due(y)'
    <2>1. rcPc[y] = "fetch" \/ y \in fetched
        BY <1>6 DEF ReleaseInv, Release!TypeOK
    <2> QED BY <1>5, <1>6, <2>1 DEF ReleaseInv
<1>7. CASE UNCHANGED <<cache, recorded>>
    BY <1>1, <1>2, <1>4, <1>6, <1>7 DEF ReleaseInv
<1>8. CASE cache' = now[x] /\ recorded' = recorded \cup {x}
    <2>1. cache' # None /\ cache' <= clock
        BY <1>8, <1>3 DEF ReleaseInv, Release!ReleaseAssumption
    <2>2. ASSUME NEW y \in Release!Running \ company
          PROVE  y = x
        BY <1>2 DEF ReleaseInv
    <2>3. ASSUME NEW y \in recorded' \ company
          PROVE  now[y] <= cache' /\ \A z \in Release!Running : now[y] <= now[z]
        <3>1. CASE y = x
            <4>1. \A z \in Release!Running : z = x
                BY <1>2, <2>3, <3>1 DEF ReleaseInv
            <4> QED BY <1>3, <1>8, <3>1, <4>1
        <3>2. CASE y # x
            BY <1>2, <1>8, <2>3, <3>2 DEF ReleaseInv
        <3> QED BY <3>1, <3>2
    <2> QED BY <1>1, <1>2, <1>3, <1>4, <1>6, <1>8, <2>1, <2>2, <2>3 DEF ReleaseInv
<1> QED BY <1>7, <1>8

LEMMA ReleaseStep ==
    Release!ReleaseAssumption /\ ReleaseInv /\ [Release!Next]_Release!vars => ReleaseInv'
<1> SUFFICES ASSUME Release!ReleaseAssumption, ReleaseInv, [Release!Next]_Release!vars
             PROVE  ReleaseInv'
    OBVIOUS
<1>1. CASE UNCHANGED Release!vars
    BY <1>1 DEF Release!vars, Release!files, Release!history, ReleaseInv, Release!TypeOK,
                Release!Running, Due
<1> QED BY <1>1, TickKeeps, BeginKeeps, LookKeeps, LookAgainKeeps, FetchKeeps, CheckWriteKeeps
        DEF Release!Next

\* The types, and what the cache file says of the commands that had no company.
THEOREM ReleaseInvariant == Release!ReleaseAssumption => (Release!Spec => []ReleaseInv)
<1>1. SUFFICES ASSUME Release!ReleaseAssumption
               PROVE  Release!Spec => []ReleaseInv
    OBVIOUS
<1>2. Release!Init => ReleaseInv
    BY <1>1, ReleaseInit
<1>3. ReleaseInv /\ [Release!Next]_Release!vars => ReleaseInv'
    BY <1>1, ReleaseStep
<1> QED BY <1>2, <1>3, PTL DEF Release!Spec

(***************************************************************************)
(* ManifestRegistry, for any number of facades and manifests, and for any  *)
(* limits.  A step that touches neither the books nor a handle is quiet;   *)
(* those of an upload, of the commit and of closing come after it.  What   *)
(* is under way has a token of its own, so a token that is popped is       *)
(* nobody else's; the budget is the size of the disjoint union of what is  *)
(* registered; and in the daemon's first life nobody holds a handle of an  *)
(* earlier one, so a drop takes off a reference the facade has.            *)
(***************************************************************************)
\* The counting of the registry is that of the library.
LEMMA SameCounting ==
  /\ \A S : Registry!IsFiniteSet(S) <=> IsFiniteSet(S)
  /\ \A S : Registry!Cardinality(S) = Cardinality(S)
<1>1. \A S : Registry!IsFiniteSet(S) <=> IsFiniteSet(S)
  BY DEF Registry!IsFiniteSet, IsFiniteSet
<1>2. \A S : Registry!Cardinality(S) = Cardinality(S)
  BY DEF Registry!Cardinality, Cardinality, Registry!IsFiniteSet, IsFiniteSet
<1> QED BY <1>1, <1>2

LEMMA CountEmpty ==
  /\ Registry!IsFiniteSet({})
  /\ Registry!Cardinality({}) = 0
  /\ \A S : Registry!IsFiniteSet(S) => (Registry!Cardinality(S) = 0 <=> S = {})
BY SameCounting, FS_EmptySet

LEMMA CountSingleton ==
  \A x : Registry!IsFiniteSet({x}) /\ Registry!Cardinality({x}) = 1
BY SameCounting, FS_Singleton

LEMMA CountInterval ==
  ASSUME NEW a \in Int, NEW b \in Int
  PROVE  Registry!IsFiniteSet(a..b)
BY SameCounting, FS_Interval

LEMMA CountType ==
  ASSUME NEW S, Registry!IsFiniteSet(S)
  PROVE  Registry!Cardinality(S) \in Nat
BY SameCounting, FS_CardinalityType

LEMMA CountAdd ==
  ASSUME NEW S, NEW x, Registry!IsFiniteSet(S)
  PROVE  /\ Registry!IsFiniteSet(S \cup {x})
         /\ Registry!Cardinality(S \cup {x}) = IF x \in S THEN Registry!Cardinality(S) ELSE Registry!Cardinality(S) + 1
BY SameCounting, FS_AddElement

LEMMA CountRemove ==
  ASSUME NEW S, NEW x, Registry!IsFiniteSet(S)
  PROVE  Registry!Cardinality(S \ {x}) = IF x \in S THEN Registry!Cardinality(S) - 1 ELSE Registry!Cardinality(S)
BY SameCounting, FS_RemoveElement

LEMMA CountSubset ==
  ASSUME NEW S, Registry!IsFiniteSet(S), NEW T \in SUBSET S
  PROVE  Registry!IsFiniteSet(T) /\ Registry!Cardinality(T) <= Registry!Cardinality(S)
BY SameCounting, FS_Subset

LEMMA CountProduct ==
  ASSUME NEW S, Registry!IsFiniteSet(S), NEW T, Registry!IsFiniteSet(T)
  PROVE  /\ Registry!IsFiniteSet(S \X T)
         /\ Registry!Cardinality(S \X T) = Registry!Cardinality(S) * Registry!Cardinality(T)
BY SameCounting, FS_Product

LEMMA CountUnion ==
  ASSUME NEW S, Registry!IsFiniteSet(S), NEW T, Registry!IsFiniteSet(T)
  PROVE  /\ Registry!IsFiniteSet(S \cup T)
         /\ Registry!Cardinality(S \cup T)
              = Registry!Cardinality(S) + Registry!Cardinality(T) - Registry!Cardinality(S \cap T)
BY SameCounting, FS_Union

Uploading == {"append", "commit"}

\* An upload under way is one of the daemon's, and complete once nothing is to be sent.
OwnUpload(c) ==
    /\ rgPc[c] \in {"idle", "status", "begin", "close"} => token[c] = None
    /\ rgPc[c] \in Uploading => token[c] # None
    /\ token[c] # None => token[c] \in 1..tokens
    /\ rgLife = 0 /\ rgPc[c] \in Uploading => token[c] \in DOMAIN rgPending
    /\ token[c] \in DOMAIN rgPending =>
          /\ rgPc[c] = "append" => rgPending[token[c]] \cup rgTodo[c] = asked[c]
          /\ rgPc[c] = "commit" => rgPending[token[c]] = asked[c]
    /\ rgPc[c] = "close" => rgTodo[c] \subseteq handles[c]

UploadsKept ==
    /\ rgTodo \in [rgClients -> SUBSET (rgManifests \cup UNION rgManifests)]
    /\ \A t \in DOMAIN rgPending : Registry!IsFiniteSet(rgPending[t])
    /\ \A c \in rgClients : OwnUpload(c)
    /\ \A c, d \in rgClients : token[c] = token[d] /\ token[c] # None => c = d

BooksKept ==
    /\ Registry!IsFiniteSet(Registry!Registered) /\ Registry!IsFiniteSet(Registry!RegisteredPaths)
    /\ Registry!Accounted

HandlesKept ==
    /\ ~rgUp => rgLife < MaxLives
    /\ rgLife = 0 => speaks = "same" /\ robbed = {}
    /\ \A c \in rgClients : \A m \in rgManifests :
          since[c][m] <= rgLife /\ (speaks = "protocol" => since[c][m] < rgLife)
    /\ \A c \in rgClients :
          /\ rgPc[c] \in {"begin", "append", "commit"} => asked[c] \notin handles[c]
          /\ rgPc[c] = "ask" => asked[c] \in handles[c]
    /\ \A m \in rgManifests : Registry!IsFiniteSet(Registry!Holders(m))
    /\ Registry!HeldIsRegistered

RegInv ==
    Registry!TypeOK /\ UploadsKept /\ BooksKept /\ HandlesKept /\ Registry!NothingLeaks /\ Registry!AutoAnswersOneDaemon

\* A step of c that touches no book and no handle, and is not one of closing.
Quiet(c) ==
    /\ UNCHANGED <<Registry!daemon, refs, total, handles, since, robbed>>
    /\ \E l \in {"idle", "status", "begin", "append", "commit", "ask"} : Registry!Go(c, l)
    /\ \E x \in SUBSET (rgManifests \cup UNION rgManifests) : rgTodo' = [rgTodo EXCEPT ![c] = x]
    /\ \E m \in rgManifests : asked' = [asked EXCEPT ![c] = m]
    /\ rgPc[c] \notin {"close", "gone"}
    /\ rgPc'[c] \in {"begin", "append", "commit"} => asked'[c] \notin handles[c]
    /\ rgPc'[c] = "ask" => asked'[c] \in handles[c]

\* One that leaves the uploads too, or fails in its own.
Aside(c) ==
    /\ Quiet(c) /\ UNCHANGED <<rgPending, tokens>>
    /\ rgPc'[c] \in {"idle", "status", "begin", "ask"}
    /\ rgPc[c] \in Uploading => ~rgUp \/ rgLife # 0
    /\ token' = [token EXCEPT ![c] = None]
    /\ confirmed' \in [rgClients -> BOOLEAN]
    /\ rgLost' \in {rgLost, rgLost + 1} /\ rgLost' <= MaxLost
    /\ refused' \in BOOLEAN /\ (refused => refused')
    /\ \E a \in {"none", "daemon", "local", "unavailable", "unspoken", "error"} :
          /\ answer' = [answer EXCEPT ![c] = a]
          /\ a = "error" => refused' \/ rgLife # 0 \/ answer' = answer

Uploaders == {token[d] : d \in {e \in rgClients : rgPc[e] \in {"append", "commit"}}}

\* The uploads of others stay what they are, and all within their bounds.
PendingMoves(c) ==
    /\ tokens' \in {tokens, tokens + 1} /\ tokens' <= MaxTokens
    /\ DOMAIN rgPending' \subseteq 1..tokens'
    /\ \A t \in DOMAIN rgPending' : Registry!IsFiniteSet(rgPending'[t]) /\ Registry!Cardinality(rgPending'[t]) <= MaxPaths
    /\ Registry!Cardinality(DOMAIN rgPending') <= MaxPending
    /\ \A t \in (1..tokens) \ {token[c]} :
          /\ t \in DOMAIN rgPending' <=> t \in DOMAIN rgPending
          /\ t \in DOMAIN rgPending => rgPending'[t] = rgPending[t]

\* A step of c on its own upload.
UploadStep(c) ==
    /\ UNCHANGED <<Registry!daemon, robbed>>
    /\ \E l \in {"idle", "append", "commit", "ask"} : Registry!Go(c, l)
    /\ \E x \in SUBSET (rgManifests \cup UNION rgManifests) : rgTodo' = [rgTodo EXCEPT ![c] = x]
    /\ UNCHANGED asked
    /\ token' \in [rgClients -> Nat \cup {None}]
    /\ \A d \in rgClients \ {c} :
          /\ token'[d] = token[d] /\ handles'[d] = handles[d]
          /\ token[d] = token'[c] => token'[c] = None
    /\ PendingMoves(c)
    /\ OwnUpload(c)'
    /\ confirmed' \in [rgClients -> BOOLEAN]
    /\ rgLost' \in {rgLost, rgLost + 1} /\ rgLost' <= MaxLost
    /\ refused' \in BOOLEAN /\ (refused => refused')
    /\ \E a \in {"none", "daemon", "local", "unavailable", "unspoken", "error"} :
          /\ answer' = [answer EXCEPT ![c] = a]
          /\ a = "error" => refused' \/ rgLife # 0 \/ answer' = answer
    /\ rgLife = 0 /\ rgLost' = 0 /\ DOMAIN rgPending = Uploaders => DOMAIN rgPending' = Uploaders'

LEMMA RegistryInit == Registry!RegistryAssumption /\ Registry!Init => RegInv
<1> SUFFICES ASSUME Registry!RegistryAssumption, Registry!Init PROVE RegInv OBVIOUS
<1> USE DEF Registry!RegistryAssumption, Registry!Init
<1>1. Registry!Registered = {} BY DEF Registry!Registered
<1>2. Registry!RegisteredPaths = {} BY <1>1 DEF Registry!RegisteredPaths
<1>3. Registry!IsFiniteSet({}) /\ Registry!Cardinality({}) = 0 BY CountEmpty
<1>4. DOMAIN rgPending = {} OBVIOUS
<1>5. \A m \in rgManifests : Registry!Holders(m) = {} BY DEF Registry!Holders, Registry!Holds
<1>6. Registry!TypeOK
  <2>1. (CHOOSE m \in rgManifests : TRUE) \in rgManifests OBVIOUS
  <2>2. asked \in [rgClients -> rgManifests] BY <2>1
  <2>3. answer \in [rgClients -> {"none", "daemon", "local", "unavailable", "unspoken",
                               "error"}] OBVIOUS
  <2>4. rgPc \in [rgClients -> {"idle", "status", "begin", "append", "commit", "ask",
                           "close", "gone"}] OBVIOUS
  <2>5. tokens \in 0..MaxTokens /\ rgLost \in 0..MaxLost /\ rgLife \in 0..MaxLives OBVIOUS
  <2>6. since \in [rgClients -> [rgManifests -> 0..MaxLives]] OBVIOUS
  <2>7. handles \in [rgClients -> SUBSET rgManifests] /\ confirmed \in [rgClients -> BOOLEAN]
    OBVIOUS
  <2>8. token \in [rgClients -> Nat \cup {None}] /\ refs \in [rgManifests -> Nat] OBVIOUS
  <2> QED BY <2>2, <2>3, <2>4, <2>5, <2>6, <2>7, <2>8, <1>4 DEF Registry!TypeOK
<1>7. UploadsKept
  <2>1. \A c \in rgClients : rgPc[c] = "idle" /\ token[c] = None OBVIOUS
  <2>2. rgTodo \in [rgClients -> SUBSET (rgManifests \cup UNION rgManifests)] OBVIOUS
  <2> QED BY <2>1, <2>2, <1>4 DEF UploadsKept, OwnUpload, Uploading
<1>8. BooksKept BY <1>1, <1>2, <1>3, <1>4 DEF BooksKept, Registry!Accounted
<1>9. HandlesKept
  <2>1. Registry!HeldIsRegistered
    <3>1. \A m \in rgManifests : refs[m] = 0 /\ Registry!Cardinality(Registry!Holders(m)) = 0 BY <1>3, <1>5
    <3> HIDE DEF Registry!Init
    <3> QED BY <3>1 DEF Registry!HeldIsRegistered
  <2>2. \A m \in rgManifests : Registry!IsFiniteSet(Registry!Holders(m)) BY <1>3, <1>5
  <2>3. \A c \in rgClients : rgPc[c] = "idle" /\ \A m \in rgManifests : since[c][m] = 0 OBVIOUS
  <2>4. rgUp /\ speaks = "same" /\ rgLife = 0 /\ robbed = {} OBVIOUS
  <2> HIDE DEF Registry!Init
  <2> QED BY <2>1, <2>2, <2>3, <2>4 DEF HandlesKept
<1>10. Registry!NothingLeaks
  <2>1. {d \in rgClients : rgPc[d] \in {"append", "commit"}} = {} OBVIOUS
  <2>2. \A m \in rgManifests : refs[m] = Registry!Cardinality(Registry!Holders(m)) BY <1>3, <1>5
  <2> QED BY <2>1, <2>2, <1>4 DEF Registry!NothingLeaks
<1>11. Registry!AutoAnswersOneDaemon BY DEF Registry!AutoAnswersOneDaemon, Registry!AutoAnswers
<1> QED BY <1>6, <1>7, <1>8, <1>9, <1>10, <1>11 DEF RegInv

\* A quiet step leaves the holders and the handles as they are.
LEMMA QuietHandles ==
  ASSUME RegInv, NEW c \in rgClients, Quiet(c)
  PROVE  HandlesKept' /\ \A m \in rgManifests : Registry!Holders(m)' = Registry!Holders(m)
<1> USE DEF RegInv
<1>1. \A m \in rgManifests : Registry!Holders(m)' = Registry!Holders(m)
  BY DEF Registry!TypeOK, Quiet, Registry!Holders, Registry!Holds, Registry!Go, Registry!daemon, UploadsKept
<1>2. \A d \in rgClients :
          /\ rgPc'[d] \in {"begin", "append", "commit"} => asked'[d] \notin handles'[d]
          /\ rgPc'[d] = "ask" => asked'[d] \in handles'[d]
  BY DEF Registry!TypeOK, Quiet, Registry!Go, HandlesKept
<1>3. Registry!HeldIsRegistered' BY <1>1 DEF HandlesKept, Registry!HeldIsRegistered, Quiet
<1>4. \A m \in rgManifests : Registry!IsFiniteSet(Registry!Holders(m))' BY <1>1 DEF HandlesKept
<1> QED BY <1>1, <1>2, <1>3, <1>4 DEF HandlesKept, Quiet, Registry!daemon

\* The books hold as long as what they count does.
LEMMA QuietBooks ==
  ASSUME RegInv, UNCHANGED <<refs, total>>, Registry!Cardinality(DOMAIN rgPending)' <= MaxPending,
         \A t \in DOMAIN rgPending' : Registry!Cardinality(rgPending'[t]) <= MaxPaths
  PROVE  BooksKept'
<1>1. Registry!Registered' = Registry!Registered BY DEF Registry!Registered
<1>2. Registry!RegisteredPaths' = Registry!RegisteredPaths BY <1>1 DEF Registry!RegisteredPaths
<1> QED BY <1>1, <1>2 DEF RegInv, BooksKept, Registry!Accounted

LEMMA AsideKeeps ==
  ASSUME Registry!RegistryAssumption, RegInv, NEW c \in rgClients, Aside(c)
  PROVE  RegInv'
<1> USE DEF RegInv
<1>1. HandlesKept' /\ \A m \in rgManifests : Registry!Holders(m)' = Registry!Holders(m)
  BY QuietHandles DEF Aside
<1>2. BooksKept'
  <2>1. UNCHANGED <<refs, total, rgPending>> BY DEF Aside, Quiet
  <2>2. /\ Registry!Cardinality(DOMAIN rgPending)' <= MaxPending
        /\ \A t \in DOMAIN rgPending' : Registry!Cardinality(rgPending'[t]) <= MaxPaths
    BY <2>1 DEF BooksKept, Registry!Accounted
  <2> QED BY <2>1, <2>2, QuietBooks
<1>3. Registry!TypeOK'
  <2>1. UNCHANGED <<rgUp, rgLife, speaks, refs, total, handles, since, robbed, rgPending, tokens>>
    BY DEF Aside, Quiet, Registry!daemon
  <2>2. rgPc' \in [rgClients -> {"idle", "status", "begin", "append", "commit", "ask",
                            "close", "gone"}]
    BY DEF Registry!TypeOK, Aside, Quiet, Registry!Go
  <2>3. asked' \in [rgClients -> rgManifests] /\ token' \in [rgClients -> Nat \cup {None}]
    BY DEF Registry!TypeOK, Aside, Quiet
  <2>4. answer' \in [rgClients -> {"none", "daemon", "local", "unavailable", "unspoken",
                                "error"}]
    BY DEF Registry!TypeOK, Aside
  <2>5. rgLost' \in 0..MaxLost /\ refused' \in BOOLEAN /\ confirmed' \in [rgClients -> BOOLEAN]
    BY DEF Registry!TypeOK, Aside, Registry!RegistryAssumption
  <2> QED BY <2>1, <2>2, <2>3, <2>4, <2>5 DEF Registry!TypeOK
<1>4. UploadsKept'
  <2>2. rgTodo' \in [rgClients -> SUBSET (rgManifests \cup UNION rgManifests)]
    BY DEF UploadsKept, Aside, Quiet
  <2>3. \A d \in rgClients \ {c} :
          /\ rgPc'[d] = rgPc[d] /\ token'[d] = token[d] /\ rgTodo'[d] = rgTodo[d]
          /\ asked'[d] = asked[d] /\ handles'[d] = handles[d]
    BY DEF Aside, Quiet, Registry!Go, Registry!TypeOK, UploadsKept
  <2>4. token'[c] = None /\ rgPc'[c] \notin Uploading \cup {"close"}
    BY DEF Aside, Quiet, Registry!Go, Registry!TypeOK, Uploading
  <2>5. UNCHANGED <<rgPending, tokens, rgLife>> BY DEF Aside, Quiet, Registry!daemon
  <2>6. ASSUME NEW d \in rgClients PROVE OwnUpload(d)'
    <3>1. CASE d = c
      <4>1. token'[c] = None /\ token'[c] \notin DOMAIN rgPending'
        BY <2>4, <2>5 DEF Registry!TypeOK, Registry!RegistryAssumption
      <4> QED BY <2>4, <3>1, <4>1 DEF OwnUpload, Uploading
    <3>2. CASE d # c BY <3>2, <2>3, <2>5 DEF UploadsKept, OwnUpload
    <3> QED BY <3>1, <3>2
  <2>7. \A d, e \in rgClients : token'[d] = token'[e] /\ token'[d] # None => d = e
    BY <2>3, <2>4 DEF UploadsKept
  <2> QED BY <2>2, <2>5, <2>6, <2>7 DEF UploadsKept
<1>5. Registry!NothingLeaks'
  <2> SUFFICES ASSUME (rgLife = 0 /\ rgUp /\ rgLost = 0 /\ \A d \in rgClients : rgPc[d] # "gone")'
               PROVE  /\ \A m \in rgManifests : refs'[m] = Registry!Cardinality(Registry!Holders(m)')
                      /\ DOMAIN rgPending' =
                           {token'[d] : d \in {e \in rgClients : rgPc'[e] \in {"append", "commit"}}}
    BY DEF Registry!NothingLeaks
  <2>1. rgLife = 0 /\ rgUp /\ rgLost = 0 /\ \A d \in rgClients : rgPc[d] # "gone"
    BY DEF Aside, Quiet, Registry!Go, Registry!daemon, Registry!TypeOK, Registry!RegistryAssumption
  <2>2. UNCHANGED <<refs, rgPending>> BY DEF Aside, Quiet
  <2>3. {e \in rgClients : rgPc'[e] \in {"append", "commit"}}
           = {e \in rgClients \ {c} : rgPc[e] \in {"append", "commit"}}
        /\ c \notin {e \in rgClients : rgPc[e] \in {"append", "commit"}}
    BY <2>1 DEF Aside, Quiet, Registry!Go, Registry!TypeOK, Uploading
  <2>4. \A e \in rgClients \ {c} : token'[e] = token[e] BY DEF Aside, Registry!TypeOK
  <2>5. /\ \A m \in rgManifests : refs[m] = Registry!Cardinality(Registry!Holders(m))
        /\ DOMAIN rgPending = {token[d] : d \in {e \in rgClients : rgPc[e] \in {"append", "commit"}}}
    BY <2>1 DEF Registry!NothingLeaks
  <2>6. \A m \in rgManifests : refs'[m] = Registry!Cardinality(Registry!Holders(m)') BY <1>1, <2>2, <2>5
  <2>7. {e \in rgClients : rgPc[e] \in {"append", "commit"}}
           = {e \in rgClients \ {c} : rgPc[e] \in {"append", "commit"}}
    BY <2>3
  <2>8. DOMAIN rgPending' = {token'[d] : d \in {e \in rgClients \ {c} : rgPc[e] \in {"append", "commit"}}}
    BY <2>2, <2>4, <2>5, <2>7
  <2> QED BY <2>3, <2>6, <2>8
<1>6. Registry!AutoAnswersOneDaemon'
  <2> SUFFICES ASSUME (rgLife = 0 /\ ~refused /\ speaks = "same")', NEW d \in rgClients \ DaemonOnly
               PROVE  answer'[d] # "error"
    BY DEF Registry!AutoAnswersOneDaemon, Registry!AutoAnswers
  <2>1. rgLife = 0 /\ ~refused /\ speaks = "same"
    BY DEF Aside, Quiet, Registry!daemon, Registry!TypeOK
  <2>2. answer[d] # "error" BY <2>1 DEF Registry!AutoAnswersOneDaemon, Registry!AutoAnswers
  <2> QED BY <2>1, <2>2 DEF Aside, Registry!TypeOK
<1> QED BY <1>1, <1>2, <1>3, <1>4, <1>5, <1>6

\* How a call ends leaves the books and the handles alone.
LEMMA EndedAside ==
  ASSUME RegInv, NEW c \in rgClients, NEW a \in {"daemon", "local", "unavailable", "unspoken", "error"},
         Registry!Ended(c, a), rgPc[c] \notin {"close", "gone"},
         UNCHANGED <<Registry!daemon, Registry!registry, robbed, handles, since>>,
         rgPc[c] \in Uploading => ~rgUp \/ rgLife # 0,
         confirmed' \in [rgClients -> BOOLEAN], rgLost' \in {rgLost, rgLost + 1}, rgLost' <= MaxLost,
         refused' \in BOOLEAN, refused => refused',
         a = "error" => refused' \/ rgLife # 0
  PROVE  Aside(c)
<1> USE DEF RegInv, Registry!Ended, Registry!Go, Registry!registry
<1>1. rgPc'[c] = "idle" BY DEF Registry!TypeOK
<1>2. Quiet(c)
  <2>1. asked' = [asked EXCEPT ![c] = asked[c]] /\ asked[c] \in rgManifests BY DEF Registry!TypeOK
  <2> QED BY <1>1, <2>1 DEF Quiet
<1> QED BY <1>1, <1>2 DEF Aside, Quiet

LEMMA UnavailableAside ==
  ASSUME RegInv, Registry!RegistryAssumption, NEW c \in rgClients, Registry!Unavailable(c), rgPc[c] \notin {"close", "gone"},
         UNCHANGED <<Registry!daemon, Registry!registry, robbed, refused>>,
         rgPc[c] \in Uploading => ~rgUp,
         rgLost' \in {rgLost, rgLost + 1}, rgLost' <= MaxLost
  PROVE  Aside(c)
<1>1. confirmed' \in [rgClients -> BOOLEAN] /\ UNCHANGED <<handles, since>>
  BY DEF Registry!Unavailable, RegInv, Registry!TypeOK
<1>2. refused' \in BOOLEAN /\ (refused => refused') BY DEF RegInv, Registry!TypeOK
<1>3. CASE c \in DaemonOnly
  BY <1>1, <1>2, <1>3, EndedAside DEF Registry!Unavailable
<1>4. CASE c \notin DaemonOnly
  BY <1>1, <1>2, <1>4, EndedAside DEF Registry!Unavailable
<1> QED BY <1>3, <1>4

LEMMA SnapshotAside ==
  ASSUME RegInv, NEW c \in rgClients, NEW m \in rgManifests, Registry!Snapshot(c, m)
  PROVE  Aside(c)
<1> USE DEF RegInv, Registry!Snapshot, Registry!registry, Registry!facade, Registry!Go
<1>1. rgPc'[c] = (IF ~confirmed[c] THEN "status" ELSE IF m \in handles[c] THEN "ask" ELSE "begin")
      /\ asked'[c] = m /\ rgPc[c] = "idle"
  BY DEF Registry!TypeOK
<1>2. Quiet(c)
  <2>1. rgTodo' = [rgTodo EXCEPT ![c] = rgTodo[c]] /\ rgTodo[c] \in SUBSET (rgManifests \cup UNION rgManifests)
    BY DEF UploadsKept
  <2>2. asked' = [asked EXCEPT ![c] = m] OBVIOUS
  <2>3. \E l \in {"idle", "status", "begin", "append", "commit", "ask"} : Registry!Go(c, l)
    <3>1. CASE ~confirmed[c] BY <3>1
    <3>2. CASE confirmed[c] /\ m \in handles[c] BY <3>2
    <3>3. CASE confirmed[c] /\ m \notin handles[c] BY <3>3
    <3> QED BY <3>1, <3>2, <3>3
  <2>4. UNCHANGED <<Registry!daemon, refs, total, handles, since, robbed>> OBVIOUS
  <2>5. rgPc'[c] \in {"begin", "append", "commit"} => asked'[c] \notin handles[c] BY <1>1
  <2>6. rgPc'[c] = "ask" => asked'[c] \in handles[c] BY <1>1
  <2> HIDE DEF Registry!Snapshot, Registry!Go
  <2> QED BY <1>1, <2>1, <2>2, <2>3, <2>4, <2>5, <2>6 DEF Quiet
<1>3. token' = [token EXCEPT ![c] = None]
  <2>1. token[c] = None BY <1>1 DEF UploadsKept, OwnUpload
  <2> QED BY <2>1 DEF Registry!TypeOK
<1>4. answer' = [answer EXCEPT ![c] = "none"] OBVIOUS
<1>5. /\ confirmed' \in [rgClients -> BOOLEAN] /\ rgLost' = rgLost /\ rgLost <= MaxLost
      /\ refused' \in BOOLEAN /\ (refused => refused')
  BY DEF Registry!TypeOK
<1> QED BY <1>1, <1>2, <1>3, <1>4, <1>5 DEF Aside, Uploading

LEMMA StatusAside ==
  ASSUME RegInv, Registry!RegistryAssumption, NEW c \in rgClients, Registry!Status(c)
  PROVE  Aside(c)
<1>0. rgPc[c] = "status" /\ UNCHANGED <<Registry!daemon, Registry!registry, robbed, refused>> /\ rgLost \in Nat /\ rgLost <= MaxLost
  BY DEF Registry!Status, RegInv, Registry!TypeOK, Registry!RegistryAssumption
<1>1. CASE (~rgUp \/ speaks # "same") /\ Registry!Unavailable(c) /\ Registry!Answered
  BY <1>0, <1>1, UnavailableAside DEF Registry!Answered, Uploading
<1>2. CASE rgUp /\ Registry!Lost(c)
  BY <1>0, <1>2, UnavailableAside DEF Registry!Lost, Uploading, RegInv, Registry!TypeOK, Registry!RegistryAssumption
<1>3. CASE /\ rgUp /\ speaks = "same"
           /\ confirmed' = [confirmed EXCEPT ![c] = TRUE]
           /\ Registry!Go(c, IF asked[c] \in handles[c] THEN "ask" ELSE "begin")
           /\ Registry!Answered /\ UNCHANGED <<Registry!locals, answer, handles, since>>
  <2> USE DEF RegInv, Registry!registry, Registry!locals, Registry!Go
  <2>1. /\ rgPc'[c] = (IF asked[c] \in handles[c] THEN "ask" ELSE "begin")
        /\ asked'[c] = asked[c] /\ asked[c] \in rgManifests
    BY <1>3 DEF Registry!TypeOK
  <2>2. Quiet(c)
    <3>1. rgTodo' = [rgTodo EXCEPT ![c] = rgTodo[c]] /\ rgTodo[c] \in SUBSET (rgManifests \cup UNION rgManifests)
      BY <1>3 DEF UploadsKept
    <3>2. asked' = [asked EXCEPT ![c] = asked[c]] BY <1>3 DEF Registry!TypeOK
    <3>3. \E l \in {"idle", "status", "begin", "append", "commit", "ask"} : Registry!Go(c, l)
      <4>1. CASE asked[c] \in handles[c] BY <1>3, <4>1
      <4>2. CASE asked[c] \notin handles[c] BY <1>3, <4>2
      <4> QED BY <4>1, <4>2
    <3>4. UNCHANGED <<Registry!daemon, refs, total, handles, since, robbed>> BY <1>0, <1>3
    <3>5. rgTodo' = [rgTodo EXCEPT ![c] = rgTodo[c]] BY <3>1
    <3> QED BY <1>0, <2>1, <3>1, <3>2, <3>3, <3>4, <3>5 DEF Quiet
  <2>3. token' = [token EXCEPT ![c] = None]
    <3>1. token[c] = None BY <1>0 DEF UploadsKept, OwnUpload
    <3> QED BY <1>3, <3>1 DEF Registry!TypeOK
  <2>4. answer' = [answer EXCEPT ![c] = answer[c]] /\ answer' = answer
        /\ answer[c] \in {"none", "daemon", "local", "unavailable", "unspoken", "error"}
    BY <1>3 DEF Registry!TypeOK
  <2>5. /\ confirmed' \in [rgClients -> BOOLEAN] /\ rgLost' = rgLost /\ rgLost <= MaxLost
        /\ refused' \in BOOLEAN /\ (refused => refused')
    BY <1>0, <1>3 DEF Registry!TypeOK, Registry!Answered
  <2> QED BY <1>0, <2>1, <2>2, <2>3, <2>4, <2>5 DEF Aside, Uploading
<1> QED BY <1>1, <1>2, <1>3 DEF Registry!Status

LEMMA UnansweredAside ==
  ASSUME RegInv, Registry!RegistryAssumption, NEW c \in rgClients, rgPc[c] \in Registry!Calling,
         Registry!Unreachable(c) \/ Registry!Unspoken(c)
  PROVE  Aside(c)
<1>0. rgPc[c] \notin {"close", "gone"} /\ rgLost <= MaxLost BY DEF Registry!Calling, RegInv, Registry!TypeOK
<1>1. CASE Registry!Unreachable(c)
  BY <1>0, <1>1, UnavailableAside DEF Registry!Unreachable
<1>2. CASE Registry!Unspoken(c)
  <2>1. rgLife # 0 BY <1>2 DEF Registry!Unspoken, RegInv, HandlesKept
  <2>2. /\ confirmed' \in [rgClients -> BOOLEAN] /\ refused' \in BOOLEAN /\ (refused => refused')
        /\ UNCHANGED <<handles, since>>
    BY <1>2 DEF Registry!Unspoken, RegInv, Registry!TypeOK, Registry!facade
  <2> QED BY <1>0, <1>2, <2>1, <2>2, EndedAside DEF Registry!Unspoken
<1> QED BY <1>1, <1>2

LEMMA BeginRefusedAside ==
  ASSUME RegInv, NEW c \in rgClients, Registry!BeginRefused(c)
  PROVE  Aside(c)
<1>1. /\ confirmed' \in [rgClients -> BOOLEAN] /\ refused' \in BOOLEAN /\ refused'
      /\ UNCHANGED <<handles, since>> /\ rgLost <= MaxLost
  BY DEF Registry!BeginRefused, Registry!Refused, RegInv, Registry!TypeOK, Registry!facade
<1> QED BY <1>1, EndedAside DEF Registry!BeginRefused, Registry!Refused, Uploading

\* What a facade holds of its first daemon is registered there.
LEMMA HeldInFirstLife ==
  ASSUME RegInv, NEW c \in rgClients, NEW m \in rgManifests, rgLife = 0, rgUp,
         rgPc[c] \notin {"close", "gone"}, m \in handles[c]
  PROVE  refs[m] > 0
<1>1. since[c][m] = 0
  <2>1. since[c][m] <= 0 BY DEF RegInv, HandlesKept
  <2>2. since[c][m] \in Nat BY DEF RegInv, Registry!TypeOK
  <2> QED BY <2>1, <2>2
<1>2. c \in Registry!Holders(m) BY <1>1 DEF Registry!Holders, Registry!Holds
<1>3. Registry!IsFiniteSet(Registry!Holders(m)) /\ refs[m] >= Registry!Cardinality(Registry!Holders(m))
  BY DEF RegInv, HandlesKept, Registry!HeldIsRegistered
<1>4. Registry!Cardinality(Registry!Holders(m)) # 0 /\ Registry!Cardinality(Registry!Holders(m)) \in Nat
  BY <1>2, <1>3, CountEmpty, CountType
<1>5. refs[m] \in Nat BY DEF RegInv, Registry!TypeOK
<1> QED BY <1>3, <1>4, <1>5

LEMMA AskAside ==
  ASSUME RegInv, Registry!RegistryAssumption, NEW c \in rgClients, Registry!AskRefused(c) \/ Registry!Ask(c)
  PROVE  Aside(c)
<1>0. rgPc[c] = "ask" /\ rgUp /\ UNCHANGED <<Registry!daemon, Registry!registry, robbed, refused>>
      /\ rgLost \in Nat /\ rgLost <= MaxLost /\ MaxLost \in Nat
      /\ refused' \in BOOLEAN /\ (refused => refused')
  BY DEF Registry!AskRefused, Registry!Ask, Registry!Spoken, RegInv, Registry!TypeOK, Registry!RegistryAssumption
<1>1. CASE Registry!AskRefused(c)
  <2>1. rgLife # 0
    <3>1. asked[c] \in handles[c] /\ asked[c] \in rgManifests BY <1>0 DEF RegInv, HandlesKept, Registry!TypeOK
    <3> QED BY <1>0, <1>1, <3>1, HeldInFirstLife DEF Registry!AskRefused
  <2>2. confirmed' \in [rgClients -> BOOLEAN] /\ UNCHANGED <<handles, since>>
    BY <1>1 DEF Registry!AskRefused, Registry!Refused, Registry!facade, RegInv, Registry!TypeOK
  <2> QED BY <1>0, <1>1, <2>1, <2>2, EndedAside DEF Registry!AskRefused, Registry!Refused, Uploading
<1>2. CASE Registry!Ask(c) /\ Registry!Answered /\ Registry!Ended(c, "daemon") /\ UNCHANGED Registry!facade
  <2>2. confirmed' \in [rgClients -> BOOLEAN] /\ UNCHANGED <<handles, since>>
    BY <1>2 DEF Registry!facade, RegInv, Registry!TypeOK
  <2> QED BY <1>0, <1>2, <2>2, EndedAside DEF Registry!Answered, Uploading
<1>3. CASE Registry!Ask(c) /\ Registry!Lost(c)
  BY <1>0, <1>3, UnavailableAside DEF Registry!Lost, Uploading
<1> QED BY <1>1, <1>2, <1>3 DEF Registry!Ask

\* What such a step leaves true, its books and handles left aside.
LEMMA UploadParts ==
  ASSUME Registry!RegistryAssumption, RegInv, NEW c \in rgClients, UploadStep(c)
  PROVE  /\ UploadsKept' /\ Registry!AutoAnswersOneDaemon'
         /\ rgUp' \in BOOLEAN /\ rgLife' \in 0..MaxLives
         /\ speaks' \in {"same", "semantics", "protocol"}
         /\ DOMAIN rgPending' \subseteq 1..tokens' /\ tokens' \in 0..MaxTokens
         /\ rgLost' \in 0..MaxLost
         /\ rgPc' \in [rgClients -> {"idle", "status", "begin", "append", "commit", "ask",
                                "close", "gone"}]
         /\ asked' \in [rgClients -> rgManifests] /\ token' \in [rgClients -> Nat \cup {None}]
         /\ confirmed' \in [rgClients -> BOOLEAN]
         /\ answer' \in [rgClients -> {"none", "daemon", "local", "unavailable", "unspoken",
                                    "error"}]
         /\ robbed' \subseteq rgManifests /\ refused' \in BOOLEAN
<1> USE DEF RegInv
<1>1. UploadsKept'
  <2>1. rgTodo' \in [rgClients -> SUBSET (rgManifests \cup UNION rgManifests)]
    BY DEF UploadsKept, UploadStep, PendingMoves
  <2>2. \A d \in rgClients \ {c} :
          /\ rgPc'[d] = rgPc[d] /\ token'[d] = token[d] /\ rgTodo'[d] = rgTodo[d]
          /\ asked'[d] = asked[d] /\ handles'[d] = handles[d]
    BY DEF UploadStep, PendingMoves, Registry!Go, Registry!TypeOK, UploadsKept
  <2>3. ASSUME NEW d \in rgClients PROVE OwnUpload(d)'
    <3>1. CASE d = c BY <3>1 DEF UploadStep, PendingMoves
    <3>2. CASE d # c
      <4>1. token[d] # None => token[d] \in (1..tokens) \ {token[c]}
        BY <3>2 DEF UploadsKept, OwnUpload
      <4>2. token[d] = None => token[d] \notin DOMAIN rgPending /\ token[d] \notin DOMAIN rgPending'
        BY DEF UploadStep, PendingMoves, Registry!TypeOK, Registry!RegistryAssumption
      <4>3. /\ token[d] \in DOMAIN rgPending' <=> token[d] \in DOMAIN rgPending
            /\ token[d] \in DOMAIN rgPending => rgPending'[token[d]] = rgPending[token[d]]
        BY <4>1, <4>2 DEF UploadStep, PendingMoves
      <4>4. rgLife' = rgLife BY DEF UploadStep, PendingMoves, Registry!daemon
      <4>5. \A x \in 1..tokens : x \in 1..tokens' BY DEF UploadStep, PendingMoves, Registry!TypeOK
      <4> QED BY <3>2, <2>2, <4>1, <4>3, <4>4, <4>5 DEF UploadsKept, OwnUpload
    <3> QED BY <3>1, <3>2
  <2>4. \A d, e \in rgClients : token'[d] = token'[e] /\ token'[d] # None => d = e
    BY <2>2 DEF UploadsKept, UploadStep, PendingMoves
  <2>5. \A t \in DOMAIN rgPending' : Registry!IsFiniteSet(rgPending'[t]) BY DEF UploadStep, PendingMoves
  <2> QED BY <2>1, <2>3, <2>4, <2>5 DEF UploadsKept
<1>2. Registry!AutoAnswersOneDaemon'
  <2> SUFFICES ASSUME (rgLife = 0 /\ ~refused /\ speaks = "same")', NEW d \in rgClients \ DaemonOnly
               PROVE  answer'[d] # "error"
    BY DEF Registry!AutoAnswersOneDaemon, Registry!AutoAnswers
  <2>1. rgLife = 0 /\ ~refused /\ speaks = "same"
    BY DEF UploadStep, PendingMoves, Registry!daemon, Registry!TypeOK
  <2>2. answer[d] # "error" BY <2>1 DEF Registry!AutoAnswersOneDaemon, Registry!AutoAnswers
  <2> QED BY <2>1, <2>2 DEF UploadStep, PendingMoves, Registry!TypeOK
<1>3. /\ rgUp' \in BOOLEAN /\ rgLife' \in 0..MaxLives
      /\ speaks' \in {"same", "semantics", "protocol"}
      /\ robbed' \subseteq rgManifests
  BY DEF UploadStep, PendingMoves, Registry!daemon, Registry!TypeOK
<1>4. tokens' \in 0..MaxTokens /\ rgLost' \in 0..MaxLost
  BY DEF UploadStep, PendingMoves, Registry!TypeOK, Registry!RegistryAssumption
<1>5. rgPc' \in [rgClients -> {"idle", "status", "begin", "append", "commit", "ask",
                          "close", "gone"}]
  BY DEF UploadStep, PendingMoves, Registry!Go, Registry!TypeOK
<1>6. answer' \in [rgClients -> {"none", "daemon", "local", "unavailable", "unspoken",
                              "error"}]
  BY DEF UploadStep, PendingMoves, Registry!TypeOK
<1>7. asked' \in [rgClients -> rgManifests] BY DEF UploadStep, PendingMoves, Registry!TypeOK
<1> QED BY <1>1, <1>2, <1>3, <1>4, <1>5, <1>6, <1>7 DEF UploadStep, PendingMoves

\* An upload that is not committed.
LEMMA UploadKeeps ==
  ASSUME Registry!RegistryAssumption, RegInv, NEW c \in rgClients, UploadStep(c), Quiet(c)
  PROVE  RegInv'
<1>1. HandlesKept' /\ \A m \in rgManifests : Registry!Holders(m)' = Registry!Holders(m)
  BY QuietHandles
<1>2. UNCHANGED <<refs, total, handles, since, rgUp, rgLife>> BY DEF Quiet, Registry!daemon
<1>3. BooksKept' BY <1>2, QuietBooks DEF UploadStep, PendingMoves
<1>4. Registry!TypeOK' BY <1>2, UploadParts DEF Registry!TypeOK, RegInv
<1>5. Registry!NothingLeaks'
  <2> SUFFICES ASSUME (rgLife = 0 /\ rgUp /\ rgLost = 0 /\ \A d \in rgClients : rgPc[d] # "gone")'
               PROVE  /\ \A m \in rgManifests : refs'[m] = Registry!Cardinality(Registry!Holders(m)')
                      /\ DOMAIN rgPending' = Uploaders'
    BY DEF Registry!NothingLeaks, Uploaders
  <2>1. rgLife = 0 /\ rgUp /\ rgLost = 0 /\ \A d \in rgClients : rgPc[d] # "gone"
    BY <1>2 DEF UploadStep, PendingMoves, Quiet, Registry!Go, Registry!TypeOK, RegInv, Registry!RegistryAssumption
  <2> QED BY <1>1, <1>2, <2>1 DEF Registry!NothingLeaks, UploadStep, PendingMoves, RegInv, Uploaders
<1> QED BY <1>1, <1>3, <1>4, <1>5, UploadParts DEF RegInv

\* How the set of the tokens under way changes.
LEMMA UploadersChange ==
  ASSUME RegInv, NEW c \in rgClients, NEW l, Registry!Go(c, l),
         \A d \in rgClients \ {c} : token'[d] = token[d]
  PROVE  /\ rgPc[c] \in Uploading /\ l \notin Uploading => Uploaders' = Uploaders \ {token[c]}
         /\ rgPc[c] \in Uploading /\ l \in Uploading /\ token'[c] = token[c]
              => Uploaders' = Uploaders
         /\ rgPc[c] \notin Uploading /\ l \in Uploading
              => Uploaders' = Uploaders \cup {token'[c]}
         /\ rgPc[c] \notin Uploading /\ l \notin Uploading => Uploaders' = Uploaders
<1> DEFINE Us == {e \in rgClients : rgPc[e] \in {"append", "commit"}}
           Rest == {token[d] : d \in Us \ {c}}
<1>1. rgPc'[c] = l /\ \A d \in rgClients \ {c} : rgPc'[d] = rgPc[d] BY DEF Registry!Go, RegInv, Registry!TypeOK
<1>2. Uploaders = {token[d] : d \in Us} BY DEF Uploaders
<1>3. Uploaders' = {token'[d] : d \in {e \in rgClients : rgPc'[e] \in {"append", "commit"}}}
  BY DEF Uploaders
<1>4. \A d \in Us \ {c} : token'[d] = token[d] /\ d \in rgClients OBVIOUS
<1>5. l \in Uploading => Uploaders' = Rest \cup {token'[c]}
  <2>1. SUFFICES ASSUME l \in Uploading PROVE Uploaders' = Rest \cup {token'[c]} OBVIOUS
  <2>2. {e \in rgClients : rgPc'[e] \in {"append", "commit"}} = (Us \ {c}) \cup {c}
    BY <1>1, <2>1 DEF Uploading
  <2> QED BY <1>3, <1>4, <2>2
<1>6. l \notin Uploading => Uploaders' = Rest
  <2>1. SUFFICES ASSUME l \notin Uploading PROVE Uploaders' = Rest OBVIOUS
  <2>2. {e \in rgClients : rgPc'[e] \in {"append", "commit"}} = Us \ {c}
    BY <1>1, <2>1 DEF Uploading
  <2> QED BY <1>3, <1>4, <2>2
<1>7. rgPc[c] \notin Uploading => Uploaders = Rest
  <2>1. SUFFICES ASSUME rgPc[c] \notin Uploading PROVE Uploaders = Rest OBVIOUS
  <2>2. Us = Us \ {c} BY <2>1 DEF Uploading
  <2> QED BY <1>2, <2>2
<1>8. rgPc[c] \in Uploading => Uploaders = Rest \cup {token[c]} /\ token[c] \notin Rest
  <2>1. SUFFICES ASSUME rgPc[c] \in Uploading
                 PROVE  Uploaders = Rest \cup {token[c]} /\ token[c] \notin Rest OBVIOUS
  <2>2. Us = (Us \ {c}) \cup {c} BY <2>1 DEF Uploading
  <2>3. token[c] \notin Rest BY <2>1 DEF RegInv, UploadsKept, OwnUpload
  <2> QED BY <1>2, <2>2, <2>3
<1> QED BY <1>5, <1>6, <1>7, <1>8

\* The daemon forgets the upload of c.
LEMMA WithoutMoves ==
  ASSUME Registry!RegistryAssumption, RegInv, NEW c \in rgClients, rgPending' = Registry!Without(token[c]), tokens' = tokens
  PROVE  PendingMoves(c) /\ DOMAIN rgPending' = DOMAIN rgPending \ {token[c]}
<1> USE DEF RegInv
<1>1. DOMAIN rgPending' = DOMAIN rgPending \ {token[c]} BY DEF Registry!Without
<1>2. \A t \in DOMAIN rgPending' : rgPending'[t] = rgPending[t] BY DEF Registry!Without
<1>3. Registry!IsFiniteSet(DOMAIN rgPending)
  <2>1. Registry!IsFiniteSet(1..tokens) BY CountInterval DEF Registry!TypeOK
  <2> QED BY <2>1, CountSubset DEF Registry!TypeOK
<1>4. Registry!Cardinality(DOMAIN rgPending') <= MaxPending
  <2>1. Registry!Cardinality(DOMAIN rgPending') <= Registry!Cardinality(DOMAIN rgPending) BY <1>1, <1>3, CountSubset
  <2>2. Registry!IsFiniteSet(DOMAIN rgPending') BY <1>1, <1>3, CountSubset
  <2> QED BY <1>3, <2>1, <2>2, CountType DEF BooksKept, Registry!Accounted, Registry!RegistryAssumption
<1>5. \A t \in DOMAIN rgPending : Registry!IsFiniteSet(rgPending[t]) /\ Registry!Cardinality(rgPending[t]) <= MaxPaths
  BY DEF UploadsKept, BooksKept, Registry!Accounted
<1>6. tokens' <= MaxTokens /\ DOMAIN rgPending' \subseteq 1..tokens' BY <1>1 DEF Registry!TypeOK, Registry!RegistryAssumption
<1> QED BY <1>1, <1>2, <1>4, <1>5, <1>6 DEF PendingMoves

\* The daemon takes one more path of it.
LEMMA AppendMoves ==
  ASSUME Registry!RegistryAssumption, RegInv, NEW c \in rgClients, NEW p, token[c] \in DOMAIN rgPending,
         Registry!Cardinality(rgPending[token[c]]) + 1 <= MaxPaths,
         rgPending' = [rgPending EXCEPT ![token[c]] = @ \cup {p}], tokens' = tokens
  PROVE  PendingMoves(c) /\ DOMAIN rgPending' = DOMAIN rgPending
         /\ rgPending'[token[c]] = rgPending[token[c]] \cup {p}
<1> USE DEF RegInv
<1>1. DOMAIN rgPending' = DOMAIN rgPending OBVIOUS
<1>2. \A t \in DOMAIN rgPending' : rgPending'[t] = IF t = token[c] THEN rgPending[t] \cup {p} ELSE rgPending[t]
  OBVIOUS
<1>3. \A t \in DOMAIN rgPending : Registry!IsFiniteSet(rgPending[t]) /\ Registry!Cardinality(rgPending[t]) <= MaxPaths
  BY DEF UploadsKept, BooksKept, Registry!Accounted
<1>4. Registry!IsFiniteSet(rgPending'[token[c]]) /\ Registry!Cardinality(rgPending'[token[c]]) <= MaxPaths
  <2> DEFINE s == rgPending[token[c]]
  <2>1. Registry!IsFiniteSet(s) BY <1>3
  <2>2. Registry!IsFiniteSet(s \cup {p})
        /\ Registry!Cardinality(s \cup {p}) = IF p \in s THEN Registry!Cardinality(s) ELSE Registry!Cardinality(s) + 1
    BY <2>1, CountAdd
  <2>3. Registry!Cardinality(s) \in Nat /\ MaxPaths \in Nat BY <2>1, CountType DEF Registry!RegistryAssumption
  <2> QED BY <1>2, <1>3, <2>2, <2>3
<1>5. \A t \in DOMAIN rgPending' : Registry!IsFiniteSet(rgPending'[t]) /\ Registry!Cardinality(rgPending'[t]) <= MaxPaths
  BY <1>1, <1>2, <1>3, <1>4
<1>6. /\ tokens' <= MaxTokens /\ DOMAIN rgPending' \subseteq 1..tokens'
      /\ Registry!Cardinality(DOMAIN rgPending') <= MaxPending
  BY <1>1 DEF Registry!TypeOK, Registry!RegistryAssumption, BooksKept, Registry!Accounted
<1> QED BY <1>1, <1>2, <1>5, <1>6 DEF PendingMoves

\* The daemon gives a new token.
LEMMA BeginMoves ==
  ASSUME Registry!RegistryAssumption, RegInv, NEW c \in rgClients,
         Registry!Cardinality(DOMAIN rgPending) < MaxPending, tokens < MaxTokens, tokens' = tokens + 1,
         rgPending' = [t \in DOMAIN rgPending \cup {tokens'} |->
                       IF t = tokens' THEN {} ELSE rgPending[t]]
  PROVE  PendingMoves(c) /\ DOMAIN rgPending' = DOMAIN rgPending \cup {tokens + 1}
         /\ rgPending'[tokens + 1] = {} /\ tokens + 1 \in Nat
<1> USE DEF RegInv
<1>1. DOMAIN rgPending' = DOMAIN rgPending \cup {tokens + 1} OBVIOUS
<1>2. \A t \in DOMAIN rgPending' : rgPending'[t] = IF t = tokens + 1 THEN {} ELSE rgPending[t]
  OBVIOUS
<1>3. tokens \in Nat /\ tokens + 1 \notin DOMAIN rgPending /\ MaxPending \in Nat /\ MaxTokens \in Nat
      /\ MaxPaths \in Nat
  BY DEF Registry!TypeOK, Registry!RegistryAssumption
<1>4. Registry!IsFiniteSet(DOMAIN rgPending)
  <2>1. Registry!IsFiniteSet(1..tokens) BY CountInterval DEF Registry!TypeOK
  <2> QED BY <2>1, CountSubset DEF Registry!TypeOK
<1>5. Registry!Cardinality(DOMAIN rgPending') <= MaxPending
  <2>1. Registry!Cardinality(DOMAIN rgPending') = Registry!Cardinality(DOMAIN rgPending) + 1
    BY <1>1, <1>3, <1>4, CountAdd
  <2> QED BY <1>3, <1>4, <2>1, CountType
<1>6. \A t \in DOMAIN rgPending : Registry!IsFiniteSet(rgPending[t]) /\ Registry!Cardinality(rgPending[t]) <= MaxPaths
  BY DEF UploadsKept, BooksKept, Registry!Accounted
<1>7. Registry!IsFiniteSet({}) /\ Registry!Cardinality({}) <= MaxPaths BY <1>3, CountEmpty
<1>8. \A t \in DOMAIN rgPending' : Registry!IsFiniteSet(rgPending'[t]) /\ Registry!Cardinality(rgPending'[t]) <= MaxPaths
  BY <1>1, <1>2, <1>6, <1>7
<1>9. DOMAIN rgPending' \subseteq 1..tokens' BY <1>1, <1>3 DEF Registry!TypeOK
<1>10. \A t \in 1..tokens : t # tokens + 1 BY <1>3
<1> QED BY <1>1, <1>2, <1>3, <1>5, <1>8, <1>9, <1>10 DEF PendingMoves

\* A call that ends in its upload: refused, or given up.
LEMMA EndedUpload ==
  ASSUME Registry!RegistryAssumption, RegInv, NEW c \in rgClients, rgPc[c] \in {"begin", "append", "commit"},
         Registry!Unavailable(c) \/ (Registry!Refused(c) /\ (refused' \/ rgLife # 0)),
         UNCHANGED <<Registry!daemon, robbed>>, PendingMoves(c),
         rgLost' \in {rgLost, rgLost + 1}, rgLost' <= MaxLost, refused' \in BOOLEAN, refused => refused',
         rgLife = 0 /\ rgLost' = 0 /\ DOMAIN rgPending = Uploaders
            => rgPc[c] \in Uploading /\ DOMAIN rgPending' = DOMAIN rgPending \ {token[c]}
  PROVE  UploadStep(c) /\ (UNCHANGED <<refs, total>> => Quiet(c)) /\ UNCHANGED <<handles, since>>
<1> USE DEF RegInv
<1>1. PICK a \in {"local", "unavailable", "error"} :
         Registry!Ended(c, a) /\ (a = "error" => refused' \/ rgLife # 0)
  <2>1. CASE Registry!Unavailable(c) /\ c \in DaemonOnly BY <2>1 DEF Registry!Unavailable
  <2>2. CASE Registry!Unavailable(c) /\ c \notin DaemonOnly BY <2>2 DEF Registry!Unavailable
  <2>3. CASE Registry!Refused(c) /\ (refused' \/ rgLife # 0) BY <2>3 DEF Registry!Refused
  <2> QED BY <2>1, <2>2, <2>3
<1>2. confirmed' \in [rgClients -> BOOLEAN] /\ UNCHANGED <<handles, since>>
  <2>1. CASE Registry!Unavailable(c) BY <2>1 DEF Registry!Unavailable, Registry!TypeOK
  <2>2. CASE Registry!Refused(c) BY <2>2 DEF Registry!Refused, Registry!facade, Registry!TypeOK
  <2> QED BY <2>1, <2>2
<1>3. Registry!Go(c, "idle") /\ rgPc' = [rgPc EXCEPT ![c] = "idle"] /\ rgPc'[c] = "idle"
      /\ token' = [token EXCEPT ![c] = None] /\ token'[c] = None
      /\ rgTodo' = [rgTodo EXCEPT ![c] = {}] /\ asked' = asked
      /\ answer' = [answer EXCEPT ![c] = a]
  BY <1>1 DEF Registry!Ended, Registry!Go, Registry!TypeOK
<1>4. \A d \in rgClients \ {c} : token'[d] = token[d] BY <1>3 DEF Registry!TypeOK
<1>5. token' \in [rgClients -> Nat \cup {None}] BY <1>3 DEF Registry!TypeOK
<1>6. OwnUpload(c)'
  <2>1. None \notin DOMAIN rgPending'
    BY DEF PendingMoves, Registry!TypeOK, Registry!RegistryAssumption
  <2> QED BY <1>3, <2>1 DEF OwnUpload, Uploading
<1>7. rgLife = 0 /\ rgLost' = 0 /\ DOMAIN rgPending = Uploaders => DOMAIN rgPending' = Uploaders'
  <2>1. rgPc[c] \in Uploading => Uploaders' = Uploaders \ {token[c]}
    BY <1>3, <1>4, UploadersChange DEF Uploading
  <2> QED BY <2>1
<1>8. UploadStep(c)
  <2>1. \A d \in rgClients \ {c} :
          /\ token'[d] = token[d] /\ handles'[d] = handles[d]
          /\ token[d] = token'[c] => token'[c] = None
    BY <1>2, <1>3, <1>4
  <2>2. \E l \in {"idle", "append", "commit", "ask"} : Registry!Go(c, l) BY <1>3
  <2>3. \E x \in SUBSET (rgManifests \cup UNION rgManifests) : rgTodo' = [rgTodo EXCEPT ![c] = x] BY <1>3
  <2>4. \E b \in {"none", "daemon", "local", "unavailable", "unspoken", "error"} :
          /\ answer' = [answer EXCEPT ![c] = b]
          /\ b = "error" => refused' \/ rgLife # 0 \/ answer' = answer
    BY <1>1, <1>3
  <2> QED BY <1>2, <1>3, <1>5, <1>6, <1>7, <2>1, <2>2, <2>3, <2>4 DEF UploadStep
<1>9. ASSUME UNCHANGED <<refs, total>> PROVE Quiet(c)
  <2>1. asked' = [asked EXCEPT ![c] = asked[c]] /\ asked[c] \in rgManifests BY <1>3 DEF Registry!TypeOK
  <2>2. \E x \in SUBSET (rgManifests \cup UNION rgManifests) : rgTodo' = [rgTodo EXCEPT ![c] = x] BY <1>3
  <2> QED BY <1>2, <1>3, <1>9, <2>1, <2>2 DEF Quiet
<1> QED BY <1>2, <1>8, <1>9

LEMMA RefusedUploadKeeps ==
  ASSUME Registry!RegistryAssumption, RegInv, NEW c \in rgClients, Registry!AppendRefused(c) \/ Registry!CommitRefused(c)
  PROVE  RegInv'
<1>1. /\ rgPc[c] \in {"append", "commit"} /\ Registry!Refused(c)
      /\ rgPending' = Registry!Without(token[c]) /\ tokens' = tokens
      /\ refused' = (refused \/ token[c] \in DOMAIN rgPending)
      /\ UNCHANGED <<Registry!daemon, robbed, refs, total, rgLost>>
  BY DEF Registry!AppendRefused, Registry!CommitRefused
<1>2. PendingMoves(c) /\ DOMAIN rgPending' = DOMAIN rgPending \ {token[c]} BY <1>1, WithoutMoves
<1>3. refused' \/ rgLife # 0
  <2>1. rgLife = 0 => token[c] \in DOMAIN rgPending
    BY <1>1 DEF RegInv, UploadsKept, OwnUpload, Uploading
  <2> QED BY <1>1, <2>1
<1>4. refused' \in BOOLEAN /\ (refused => refused') /\ rgLost' \in {rgLost, rgLost + 1} /\ rgLost' <= MaxLost
  BY <1>1 DEF RegInv, Registry!TypeOK
<1>5. UploadStep(c) /\ Quiet(c)
  BY <1>1, <1>2, <1>3, <1>4, EndedUpload DEF Uploading
<1> QED BY <1>5, UploadKeeps

LEMMA BeginStepKeeps ==
  ASSUME Registry!RegistryAssumption, RegInv, NEW c \in rgClients, Registry!Begin(c)
  PROVE  RegInv'
<1> USE DEF RegInv
<1>1. /\ rgPc[c] = "begin" /\ UNCHANGED <<Registry!daemon, robbed, refs, total, refused>>
      /\ rgLost \in Nat /\ rgLost <= MaxLost /\ MaxLost \in Nat
      /\ refused' \in BOOLEAN /\ (refused => refused')
  BY DEF Registry!Begin, Registry!TypeOK, Registry!RegistryAssumption
<1>2. PendingMoves(c) /\ DOMAIN rgPending' = DOMAIN rgPending \cup {tokens + 1}
      /\ rgPending'[tokens + 1] = {} /\ tokens + 1 \in Nat /\ tokens' = tokens + 1
  BY BeginMoves DEF Registry!Begin
<1>3. CASE Registry!Lost(c)
  <2>1. rgLost' = rgLost + 1 /\ rgLost' <= MaxLost /\ rgLost' # 0 BY <1>1, <1>3 DEF Registry!Lost
  <2>2. UploadStep(c) /\ Quiet(c)
    BY <1>1, <1>2, <1>3, <2>1, EndedUpload DEF Registry!Lost
  <2> QED BY <2>2, UploadKeeps
<1>4. CASE /\ Registry!Answered
           /\ token' = [token EXCEPT ![c] = tokens'] /\ rgTodo' = [rgTodo EXCEPT ![c] = asked[c]]
           /\ Registry!Go(c, "append") /\ UNCHANGED <<asked, Registry!facade, answer>>
  <2>1. /\ rgPc'[c] = "append" /\ token'[c] = tokens + 1 /\ rgTodo'[c] = asked[c] /\ asked'[c] = asked[c]
        /\ asked[c] \in rgManifests /\ asked[c] \notin handles[c] /\ handles' = handles
        /\ UNCHANGED <<since, confirmed>>
    BY <1>1, <1>2, <1>4 DEF Registry!TypeOK, UploadsKept, Registry!Go, Registry!facade, HandlesKept
  <2>2. rgTodo' = [rgTodo EXCEPT ![c] = asked[c]] /\ asked[c] \in SUBSET (rgManifests \cup UNION rgManifests)
    BY <1>4, <2>1
  <2>3. Quiet(c)
    <3>1. asked' = [asked EXCEPT ![c] = asked[c]] BY <1>4 DEF Registry!TypeOK
    <3> QED BY <1>1, <1>4, <2>1, <2>2, <3>1 DEF Quiet
  <2>4. /\ token' \in [rgClients -> Nat \cup {None}]
        /\ \A d \in rgClients \ {c} : token'[d] = token[d]
    BY <1>2, <1>4 DEF Registry!TypeOK
  <2>5. \A d \in rgClients \ {c} : token[d] # tokens + 1
    <3>1. \A d \in rgClients : token[d] # None => token[d] \in 1..tokens
      BY DEF UploadsKept, OwnUpload
    <3>2. tokens + 1 # None /\ tokens + 1 \notin 1..tokens BY <1>2 DEF Registry!RegistryAssumption, Registry!TypeOK
    <3> QED BY <3>1, <3>2
  <2>6. OwnUpload(c)'
    <3>1. tokens + 1 # None /\ tokens + 1 \in 1..tokens' BY <1>2 DEF Registry!RegistryAssumption, Registry!TypeOK
    <3> QED BY <1>2, <2>1, <3>1 DEF OwnUpload, Uploading
  <2>7. DOMAIN rgPending = Uploaders => DOMAIN rgPending' = Uploaders'
    BY <1>1, <1>2, <1>4, <2>1, <2>4, UploadersChange DEF Uploading
  <2>8. \E a \in {"none", "daemon", "local", "unavailable", "unspoken", "error"} :
          /\ answer' = [answer EXCEPT ![c] = a]
          /\ a = "error" => refused' \/ rgLife # 0 \/ answer' = answer
    <3>1. answer' = [answer EXCEPT ![c] = answer[c]] /\ answer' = answer
          /\ answer[c] \in {"none", "daemon", "local", "unavailable", "unspoken", "error"}
      BY <1>4 DEF Registry!TypeOK
    <3> QED BY <3>1
  <2>9. UploadStep(c)
    <3>1. /\ \E l \in {"idle", "append", "commit", "ask"} : Registry!Go(c, l)
          /\ \E x \in SUBSET (rgManifests \cup UNION rgManifests) : rgTodo' = [rgTodo EXCEPT ![c] = x]
          /\ UNCHANGED asked
      BY <1>4, <2>2
    <3>2. confirmed' \in [rgClients -> BOOLEAN] /\ rgLost' = rgLost BY <1>4, <2>1 DEF Registry!TypeOK, Registry!Answered
    <3>3. \A d \in rgClients \ {c} :
            /\ token'[d] = token[d] /\ handles'[d] = handles[d]
            /\ token[d] = token'[c] => token'[c] = None
      BY <2>1, <2>4, <2>5
    <3> QED BY <1>1, <1>2, <2>4, <2>6, <2>7, <2>8, <3>1, <3>2, <3>3 DEF UploadStep
  <2> QED BY <2>3, <2>9, UploadKeeps
<1> QED BY <1>3, <1>4 DEF Registry!Begin

LEMMA AppendStepKeeps ==
  ASSUME Registry!RegistryAssumption, RegInv, NEW c \in rgClients, NEW p \in rgTodo[c], Registry!Append(c, p)
  PROVE  RegInv'
<1> USE DEF RegInv
<1>1. /\ rgPc[c] = "append" /\ token[c] \in DOMAIN rgPending
      /\ UNCHANGED <<Registry!daemon, tokens, robbed, refs, total, refused>>
      /\ rgLost \in Nat /\ rgLost <= MaxLost /\ MaxLost \in Nat
      /\ refused' \in BOOLEAN /\ (refused => refused')
  BY DEF Registry!Append, Registry!TypeOK, Registry!RegistryAssumption
<1>2. PendingMoves(c) /\ DOMAIN rgPending' = DOMAIN rgPending
      /\ rgPending'[token[c]] = rgPending[token[c]] \cup {p}
  BY AppendMoves DEF Registry!Append
<1>3. CASE Registry!Lost(c)
  <2>1. rgLost' = rgLost + 1 /\ rgLost' <= MaxLost /\ rgLost' # 0 BY <1>1, <1>3 DEF Registry!Lost
  <2>2. UploadStep(c) /\ Quiet(c)
    BY <1>1, <1>2, <1>3, <2>1, EndedUpload DEF Registry!Lost
  <2> QED BY <2>2, UploadKeeps
<1>4. CASE /\ Registry!Answered
           /\ rgTodo' = [rgTodo EXCEPT ![c] = @ \ {p}]
           /\ Registry!Go(c, IF rgTodo[c] = {p} THEN "commit" ELSE "append")
           /\ UNCHANGED <<asked, token, Registry!facade, answer>>
  <2> DEFINE l == IF rgTodo[c] = {p} THEN "commit" ELSE "append"
  <2>1. /\ rgPc'[c] = l /\ token' = token /\ rgTodo'[c] = rgTodo[c] \ {p} /\ asked'[c] = asked[c]
        /\ asked[c] \in rgManifests /\ asked[c] \notin handles[c] /\ handles' = handles
        /\ UNCHANGED <<since, confirmed>>
    BY <1>1, <1>2, <1>4 DEF Registry!TypeOK, UploadsKept, Registry!Go, Registry!facade, HandlesKept
  <2>2. /\ rgTodo' = [rgTodo EXCEPT ![c] = rgTodo[c] \ {p}]
        /\ rgTodo[c] \ {p} \in SUBSET (rgManifests \cup UNION rgManifests)
    BY <1>4 DEF UploadsKept
  <2>0. Registry!Go(c, l) /\ l \in Uploading BY <1>4 DEF Uploading
  <2>3. Quiet(c)
    <3>1. asked' = [asked EXCEPT ![c] = asked[c]] BY <1>4 DEF Registry!TypeOK
    <3> QED BY <1>1, <1>4, <2>0, <2>1, <2>2, <3>1 DEF Quiet, Uploading
  <2>4. \A d \in rgClients \ {c} : token[d] = token[c] => token[c] = None
    BY DEF UploadsKept
  <2>5. rgPending[token[c]] \cup rgTodo[c] = asked[c] /\ token[c] \in 1..tokens /\ token[c] # None
    BY <1>1 DEF UploadsKept, OwnUpload, Uploading
  <2>6. OwnUpload(c)'
    <3>1. rgPending'[token[c]] \cup rgTodo'[c] = asked'[c] BY <1>2, <2>1, <2>5
    <3>2. rgPc'[c] = "commit" => rgPending'[token[c]] = asked'[c]
      <4>1. SUFFICES ASSUME rgPc'[c] = "commit" PROVE rgTodo'[c] = {} BY <3>1
      <4>2. rgTodo[c] = {p} BY <2>1, <4>1
      <4> QED BY <2>1, <4>2
    <3> QED BY <1>1, <1>2, <2>0, <2>1, <2>5, <3>1, <3>2 DEF OwnUpload, Uploading
  <2>7. DOMAIN rgPending = Uploaders => DOMAIN rgPending' = Uploaders'
    <3>1. Uploaders' = Uploaders BY <1>1, <2>0, <2>1, UploadersChange DEF Uploading
    <3> QED BY <1>2, <3>1
  <2>8. \E a \in {"none", "daemon", "local", "unavailable", "unspoken", "error"} :
          /\ answer' = [answer EXCEPT ![c] = a]
          /\ a = "error" => refused' \/ rgLife # 0 \/ answer' = answer
    <3>1. answer' = [answer EXCEPT ![c] = answer[c]] /\ answer' = answer
          /\ answer[c] \in {"none", "daemon", "local", "unavailable", "unspoken", "error"}
      BY <1>4 DEF Registry!TypeOK
    <3> QED BY <3>1
  <2>9. UploadStep(c)
    <3>1. /\ \E k \in {"idle", "append", "commit", "ask"} : Registry!Go(c, k)
          /\ \E x \in SUBSET (rgManifests \cup UNION rgManifests) : rgTodo' = [rgTodo EXCEPT ![c] = x]
          /\ UNCHANGED asked
      BY <1>4, <2>0, <2>2 DEF Uploading
    <3>2. /\ confirmed' \in [rgClients -> BOOLEAN] /\ rgLost' = rgLost
          /\ token' \in [rgClients -> Nat \cup {None}]
      BY <1>4, <2>1 DEF Registry!TypeOK, Registry!Answered
    <3>3. \A d \in rgClients \ {c} :
            /\ token'[d] = token[d] /\ handles'[d] = handles[d]
            /\ token[d] = token'[c] => token'[c] = None
      BY <2>1, <2>4
    <3> QED BY <1>1, <1>2, <2>6, <2>7, <2>8, <3>1, <3>2, <3>3 DEF UploadStep
  <2> QED BY <2>3, <2>9, UploadKeeps
<1> QED BY <1>3, <1>4 DEF Registry!Append

\* The paths of one manifest, tagged with it.
LEMMA PathsOf ==
  ASSUME Registry!RegistryAssumption, NEW m \in rgManifests
  PROVE  Registry!IsFiniteSet({m} \X m) /\ Registry!Cardinality({m} \X m) = Registry!Cardinality(m)
         /\ Registry!Cardinality(m) \in Nat
<1>1. Registry!IsFiniteSet({m}) /\ Registry!Cardinality({m}) = 1 BY CountSingleton
<1>2. Registry!IsFiniteSet(m) BY DEF Registry!RegistryAssumption
<1>3. Registry!Cardinality(m) \in Nat BY <1>2, CountType
<1>4. Registry!IsFiniteSet({m} \X m) /\ Registry!Cardinality({m} \X m) = Registry!Cardinality({m}) * Registry!Cardinality(m)
  BY <1>1, <1>2, CountProduct
<1> QED BY <1>1, <1>3, <1>4

\* One more reference to m.
LEMMA AddReference ==
  ASSUME Registry!RegistryAssumption, RegInv, NEW m \in rgManifests, Registry!Fits(m),
         refs' = [refs EXCEPT ![m] = @ + 1],
         total' = IF refs[m] = 0 THEN total + Registry!Cardinality(m) ELSE total,
         Registry!Cardinality(DOMAIN rgPending') <= MaxPending,
         \A t \in DOMAIN rgPending' : Registry!Cardinality(rgPending'[t]) <= MaxPaths
  PROVE  BooksKept' /\ refs' \in [rgManifests -> Nat] /\ total' \in Nat
<1> USE DEF RegInv
<1>0. refs \in [rgManifests -> Nat] /\ refs' \in [rgManifests -> Nat] /\ total \in Nat BY DEF Registry!TypeOK
<1>1. \A n \in rgManifests : refs'[n] = IF n = m THEN refs[n] + 1 ELSE refs[n] BY <1>0
<1>2. CASE refs[m] > 0
  <2>1. Registry!Registered' = Registry!Registered BY <1>0, <1>1, <1>2 DEF Registry!Registered
  <2>2. Registry!RegisteredPaths' = Registry!RegisteredPaths BY <2>1 DEF Registry!RegisteredPaths
  <2>3. total' = total BY <1>2
  <2> QED BY <1>0, <2>1, <2>2, <2>3 DEF BooksKept, Registry!Accounted
<1>3. CASE refs[m] = 0
  <2>1. Registry!Registered' = Registry!Registered \cup {m} /\ m \notin Registry!Registered
    BY <1>0, <1>1, <1>3 DEF Registry!Registered
  <2>2. Registry!RegisteredPaths' = Registry!RegisteredPaths \cup ({m} \X m) BY <2>1 DEF Registry!RegisteredPaths
  <2>3. Registry!RegisteredPaths \cap ({m} \X m) = {} BY <2>1 DEF Registry!RegisteredPaths
  <2>4. Registry!IsFiniteSet(Registry!Registered) /\ Registry!IsFiniteSet(Registry!RegisteredPaths)
        /\ total = Registry!Cardinality(Registry!RegisteredPaths)
        /\ Registry!Cardinality(Registry!Registered) < MaxRegistered
        /\ total + Registry!Cardinality(m) <= MaxTotalPaths
    BY <1>3 DEF BooksKept, Registry!Accounted, Registry!Fits
  <2>5. Registry!IsFiniteSet(Registry!Registered') /\ Registry!Cardinality(Registry!Registered') = Registry!Cardinality(Registry!Registered) + 1
    BY <2>1, <2>4, CountAdd
  <2>6. Registry!IsFiniteSet(Registry!RegisteredPaths')
        /\ Registry!Cardinality(Registry!RegisteredPaths') = Registry!Cardinality(Registry!RegisteredPaths) + Registry!Cardinality(m)
    <3>1. Registry!IsFiniteSet({m} \X m) /\ Registry!Cardinality({m} \X m) = Registry!Cardinality(m) BY PathsOf
    <3>2. Registry!Cardinality(Registry!RegisteredPaths \cap ({m} \X m)) = 0 BY <2>3, CountEmpty
    <3>3. Registry!IsFiniteSet(Registry!RegisteredPaths \cup ({m} \X m))
          /\ Registry!Cardinality(Registry!RegisteredPaths \cup ({m} \X m))
               = Registry!Cardinality(Registry!RegisteredPaths) + Registry!Cardinality({m} \X m)
                 - Registry!Cardinality(Registry!RegisteredPaths \cap ({m} \X m))
      BY <2>4, <3>1, CountUnion
    <3> QED BY <1>0, <2>2, <2>4, <3>1, <3>2, <3>3, PathsOf
  <2>7. total' = total + Registry!Cardinality(m) /\ Registry!Cardinality(m) \in Nat BY <1>3, PathsOf
  <2>8. Registry!Cardinality(Registry!Registered) \in Nat /\ MaxRegistered \in Nat
    BY <2>4, CountType DEF Registry!RegistryAssumption
  <2> QED BY <1>0, <2>4, <2>5, <2>6, <2>7, <2>8 DEF BooksKept, Registry!Accounted
<1> QED BY <1>0, <1>2, <1>3

\* One reference less.
LEMMA DropReference ==
  ASSUME Registry!RegistryAssumption, RegInv, NEW m \in rgManifests,
         refs' = [refs EXCEPT ![m] = IF @ > 0 THEN @ - 1 ELSE 0],
         total' = IF refs[m] = 1 THEN total - Registry!Cardinality(m) ELSE total,
         UNCHANGED rgPending
  PROVE  BooksKept' /\ refs' \in [rgManifests -> Nat] /\ total' \in Nat
<1> USE DEF RegInv
<1>0. refs \in [rgManifests -> Nat] /\ refs' \in [rgManifests -> Nat] /\ total \in Nat BY DEF Registry!TypeOK
<1>1. \A n \in rgManifests :
        refs'[n] = IF n = m THEN IF refs[n] > 0 THEN refs[n] - 1 ELSE 0 ELSE refs[n]
  BY <1>0
<1>2. CASE refs[m] # 1
  <2>1. Registry!Registered' = Registry!Registered BY <1>0, <1>1, <1>2 DEF Registry!Registered
  <2>2. Registry!RegisteredPaths' = Registry!RegisteredPaths BY <2>1 DEF Registry!RegisteredPaths
  <2>3. total' = total BY <1>2
  <2> QED BY <1>0, <2>1, <2>2, <2>3 DEF BooksKept, Registry!Accounted
<1>3. CASE refs[m] = 1
  <2>1. Registry!Registered' = Registry!Registered \ {m} /\ Registry!Registered = Registry!Registered' \cup {m} /\ m \notin Registry!Registered'
    BY <1>0, <1>1, <1>3 DEF Registry!Registered
  <2>2. Registry!RegisteredPaths = Registry!RegisteredPaths' \cup ({m} \X m) BY <2>1 DEF Registry!RegisteredPaths
  <2>3. Registry!RegisteredPaths' \cap ({m} \X m) = {} BY <2>1 DEF Registry!RegisteredPaths
  <2>4. Registry!IsFiniteSet(Registry!Registered) /\ Registry!IsFiniteSet(Registry!RegisteredPaths)
        /\ total = Registry!Cardinality(Registry!RegisteredPaths) /\ total <= MaxTotalPaths
        /\ Registry!Cardinality(Registry!Registered) <= MaxRegistered
    BY DEF BooksKept, Registry!Accounted
  <2>5. Registry!IsFiniteSet(Registry!Registered') /\ Registry!Cardinality(Registry!Registered') <= Registry!Cardinality(Registry!Registered)
    BY <2>1, <2>4, CountSubset
  <2>6. Registry!IsFiniteSet(Registry!RegisteredPaths') BY <2>2, <2>4, CountSubset
  <2>7. Registry!Cardinality(Registry!RegisteredPaths) = Registry!Cardinality(Registry!RegisteredPaths') + Registry!Cardinality(m)
        /\ Registry!Cardinality(Registry!RegisteredPaths') \in Nat
    <3>1. Registry!IsFiniteSet({m} \X m) /\ Registry!Cardinality({m} \X m) = Registry!Cardinality(m) BY PathsOf
    <3>2. Registry!Cardinality(Registry!RegisteredPaths' \cap ({m} \X m)) = 0 BY <2>3, CountEmpty
    <3>3. Registry!Cardinality(Registry!RegisteredPaths' \cup ({m} \X m))
            = Registry!Cardinality(Registry!RegisteredPaths') + Registry!Cardinality({m} \X m)
              - Registry!Cardinality(Registry!RegisteredPaths' \cap ({m} \X m))
      BY <2>6, <3>1, CountUnion
    <3>4. Registry!Cardinality(Registry!RegisteredPaths') \in Nat BY <2>6, CountType
    <3> QED BY <2>2, <3>1, <3>2, <3>3, <3>4, PathsOf
  <2>8. total' = total - Registry!Cardinality(m) /\ Registry!Cardinality(m) \in Nat BY <1>3, PathsOf
  <2>9. total' = Registry!Cardinality(Registry!RegisteredPaths') /\ total' \in Nat /\ total' <= MaxTotalPaths
    BY <1>0, <2>4, <2>7, <2>8 DEF Registry!RegistryAssumption
  <2>10. Registry!Cardinality(Registry!Registered') <= MaxRegistered
    BY <2>4, <2>5, CountType DEF Registry!RegistryAssumption
  <2> QED BY <1>0, <2>4, <2>5, <2>6, <2>9, <2>10 DEF BooksKept, Registry!Accounted
<1> QED BY <1>0, <1>2, <1>3

LEMMA ManifestCommitKeeps ==
  ASSUME Registry!RegistryAssumption, RegInv, NEW c \in rgClients, Registry!Commit(c)
  PROVE  RegInv'
<1> USE DEF RegInv
<1>1. /\ rgPc[c] = "commit" /\ rgUp /\ speaks # "protocol" /\ token[c] \in DOMAIN rgPending
      /\ UNCHANGED <<Registry!daemon, tokens, robbed, refused, rgUp, rgLife, speaks>>
      /\ rgLost \in Nat /\ rgLost <= MaxLost /\ MaxLost \in Nat
      /\ refused' \in BOOLEAN /\ (refused => refused')
  BY DEF Registry!Commit, Registry!Spoken, Registry!daemon, Registry!TypeOK, Registry!RegistryAssumption
<1>2. PICK m \in rgManifests : m = rgPending[token[c]] /\ m = asked[c] /\ m \notin handles[c]
  BY <1>1 DEF UploadsKept, OwnUpload, HandlesKept, Registry!TypeOK
<1>3. /\ Registry!Fits(m) /\ refs' = [refs EXCEPT ![m] = @ + 1]
      /\ total' = IF refs[m] = 0 THEN total + Registry!Cardinality(m) ELSE total
      /\ rgPending' = Registry!Without(token[c])
  BY <1>2 DEF Registry!Commit
<1>4. PendingMoves(c) /\ DOMAIN rgPending' = DOMAIN rgPending \ {token[c]}
  BY <1>1, <1>3, WithoutMoves
<1>5. BooksKept' /\ refs' \in [rgManifests -> Nat] /\ total' \in Nat
  BY <1>2, <1>3, <1>4, AddReference DEF PendingMoves
<1>6. \A n \in rgManifests : refs[n] \in Nat /\ refs'[n] = IF n = m THEN refs[n] + 1 ELSE refs[n]
  BY <1>2, <1>3 DEF Registry!TypeOK
<1>7. \A n \in rgManifests : Registry!IsFiniteSet(Registry!Holders(n)) /\ Registry!Cardinality(Registry!Holders(n)) \in Nat
  BY CountType DEF HandlesKept
<1>8. CASE Registry!Lost(c)
  <2>1. rgLost' = rgLost + 1 /\ rgLost' <= MaxLost /\ rgLost' # 0 /\ Registry!Unavailable(c) BY <1>1, <1>8 DEF Registry!Lost
  <2>2. UploadStep(c) /\ UNCHANGED <<handles, since>>
    BY <1>1, <1>4, <2>1, EndedUpload
  <2>3. rgPc' = [rgPc EXCEPT ![c] = "idle"] /\ rgPc'[c] = "idle" /\ asked' = asked
        /\ rgTodo' = [rgTodo EXCEPT ![c] = {}]
    BY <2>1 DEF Registry!Unavailable, Registry!Ended, Registry!Go, Registry!TypeOK
  <2>4. \A n \in rgManifests : Registry!Holders(n)' = Registry!Holders(n)
    BY <1>1, <2>2, <2>3 DEF Registry!Holders, Registry!Holds, Registry!TypeOK, UploadsKept
  <2>5. HandlesKept'
    <3>1. Registry!HeldIsRegistered'
      <4> SUFFICES ASSUME NEW n \in rgManifests \ robbed' PROVE refs'[n] >= Registry!Cardinality(Registry!Holders(n)')
        BY DEF Registry!HeldIsRegistered
      <4>1. refs[n] >= Registry!Cardinality(Registry!Holders(n)) BY <1>1 DEF HandlesKept, Registry!HeldIsRegistered
      <4> QED BY <1>6, <1>7, <2>4, <4>1
    <3>2. \A n \in rgManifests : Registry!IsFiniteSet(Registry!Holders(n)') BY <1>7, <2>4
    <3>3. \A d \in rgClients :
            /\ rgPc'[d] \in {"begin", "append", "commit"} => asked'[d] \notin handles'[d]
            /\ rgPc'[d] = "ask" => asked'[d] \in handles'[d]
      BY <2>2, <2>3 DEF HandlesKept, Registry!TypeOK
    <3> QED BY <1>1, <2>2, <3>1, <3>2, <3>3 DEF HandlesKept
  <2>6. Registry!TypeOK' BY <1>5, <2>2, UploadParts DEF Registry!TypeOK
  <2>7. Registry!NothingLeaks' BY <2>1 DEF Registry!NothingLeaks
  <2> QED BY <1>5, <2>2, <2>5, <2>6, <2>7, UploadParts
<1>9. CASE /\ Registry!Answered
           /\ handles' = [handles EXCEPT ![c] = @ \cup {m}]
           /\ since' = [since EXCEPT ![c][m] = rgLife]
           /\ Registry!Go(c, "ask") /\ UNCHANGED <<Registry!locals, confirmed, answer>>
  <2>1. /\ rgPc' = [rgPc EXCEPT ![c] = "ask"] /\ rgPc'[c] = "ask" /\ token' = token /\ rgTodo' = rgTodo
        /\ asked' = asked /\ rgLost' = rgLost /\ answer' = answer /\ confirmed' = confirmed
    BY <1>9 DEF Registry!Go, Registry!locals, Registry!Answered, Registry!TypeOK
  <2>2. /\ handles' \in [rgClients -> SUBSET rgManifests]
        /\ \A d \in rgClients : handles'[d] = IF d = c THEN handles[d] \cup {m} ELSE handles[d]
    BY <1>2, <1>9 DEF Registry!TypeOK
  <2>3. /\ since' \in [rgClients -> [rgManifests -> 0..MaxLives]]
        /\ \A d \in rgClients : \A n \in rgManifests :
              since'[d][n] = IF d = c /\ n = m THEN rgLife ELSE since[d][n]
    BY <1>2, <1>9 DEF Registry!TypeOK
  <2>4. UploadStep(c)
    <3>1. \A d \in rgClients \ {c} :
            /\ token'[d] = token[d] /\ handles'[d] = handles[d]
            /\ token[d] = token'[c] => token'[c] = None
      BY <2>1, <2>2 DEF UploadsKept
    <3>2. OwnUpload(c)'
      <4>1. token'[c] \notin DOMAIN rgPending' BY <1>4, <2>1
      <4>2. token'[c] # None => token'[c] \in 1..tokens'
        BY <1>1, <2>1 DEF UploadsKept, OwnUpload
      <4> QED BY <2>1, <4>1, <4>2 DEF OwnUpload, Uploading
    <3>3. DOMAIN rgPending = Uploaders => DOMAIN rgPending' = Uploaders'
      <4>1. Uploaders' = Uploaders \ {token[c]}
        BY <1>1, <1>9, <2>1, UploadersChange DEF Uploading
      <4> QED BY <1>4, <4>1
    <3>4. \E a \in {"none", "daemon", "local", "unavailable", "unspoken", "error"} :
            /\ answer' = [answer EXCEPT ![c] = a]
            /\ a = "error" => refused' \/ rgLife # 0 \/ answer' = answer
      <4>1. answer' = [answer EXCEPT ![c] = answer[c]]
            /\ answer[c] \in {"none", "daemon", "local", "unavailable", "unspoken", "error"}
        BY <2>1 DEF Registry!TypeOK
      <4> QED BY <2>1, <4>1
    <3>5. /\ \E l \in {"idle", "append", "commit", "ask"} : Registry!Go(c, l)
          /\ \E x \in SUBSET (rgManifests \cup UNION rgManifests) : rgTodo' = [rgTodo EXCEPT ![c] = x]
      <4>1. rgTodo' = [rgTodo EXCEPT ![c] = rgTodo[c]] /\ rgTodo[c] \in SUBSET (rgManifests \cup UNION rgManifests)
        BY <2>1 DEF UploadsKept
      <4> QED BY <1>9, <4>1
    <3>6. confirmed' \in [rgClients -> BOOLEAN] /\ token' \in [rgClients -> Nat \cup {None}]
      BY <2>1 DEF Registry!TypeOK
    <3> QED BY <1>1, <1>4, <2>1, <3>1, <3>2, <3>3, <3>4, <3>5, <3>6 DEF UploadStep
  <2>5. c \notin Registry!Holders(m) /\ Registry!Holders(m)' = Registry!Holders(m) \cup {c}
    <3>1. c \notin Registry!Holders(m) BY <1>1, <1>2 DEF Registry!Holders, Registry!Holds
    <3>2. Registry!Holds(c, m)' BY <1>1, <1>2, <2>1, <2>2, <2>3 DEF Registry!Holds
    <3>3. \A d \in rgClients \ {c} : Registry!Holds(d, m)' = Registry!Holds(d, m)
      BY <1>1, <1>2, <2>1, <2>2, <2>3 DEF Registry!Holds, Registry!TypeOK
    <3> QED BY <3>1, <3>2, <3>3 DEF Registry!Holders
  <2>6. \A n \in rgManifests \ {m} : Registry!Holders(n)' = Registry!Holders(n)
    <3>1. \A n \in rgManifests \ {m} : \A d \in rgClients \ {c} : Registry!Holds(d, n)' = Registry!Holds(d, n)
      BY <1>1, <2>1, <2>2, <2>3 DEF Registry!Holds, Registry!TypeOK
    <3>2. \A n \in rgManifests \ {m} : Registry!Holds(c, n)' = Registry!Holds(c, n)
      BY <1>1, <2>1, <2>2, <2>3 DEF Registry!Holds, Registry!TypeOK
    <3> QED BY <3>1, <3>2 DEF Registry!Holders
  <2>7. Registry!IsFiniteSet(Registry!Holders(m)') /\ Registry!Cardinality(Registry!Holders(m)') = Registry!Cardinality(Registry!Holders(m)) + 1
    BY <1>2, <1>7, <2>5, CountAdd
  <2>8. HandlesKept'
    <3>1. Registry!HeldIsRegistered'
      <4> SUFFICES ASSUME NEW n \in rgManifests \ robbed' PROVE refs'[n] >= Registry!Cardinality(Registry!Holders(n)')
        BY DEF Registry!HeldIsRegistered
      <4>1. refs[n] >= Registry!Cardinality(Registry!Holders(n)) BY <1>1 DEF HandlesKept, Registry!HeldIsRegistered
      <4>2. CASE n = m BY <1>2, <1>6, <1>7, <2>7, <4>1, <4>2
      <4>3. CASE n # m BY <1>6, <1>7, <2>6, <4>1, <4>3
      <4> QED BY <4>2, <4>3
    <3>2. \A n \in rgManifests : Registry!IsFiniteSet(Registry!Holders(n)') BY <1>7, <2>6, <2>7
    <3>3. \A d \in rgClients :
            /\ rgPc'[d] \in {"begin", "append", "commit"} => asked'[d] \notin handles'[d]
            /\ rgPc'[d] = "ask" => asked'[d] \in handles'[d]
      <4>1. ASSUME NEW d \in rgClients, d # c
            PROVE  /\ rgPc'[d] = rgPc[d] /\ asked'[d] = asked[d] /\ handles'[d] = handles[d]
        BY <2>1, <2>2, <4>1 DEF Registry!TypeOK
      <4>2. rgPc'[c] = "ask" /\ asked'[c] \in handles'[c] BY <1>2, <2>1, <2>2
      <4> QED BY <4>1, <4>2 DEF HandlesKept
    <3>4. \A d \in rgClients : \A n \in rgManifests :
            since'[d][n] <= rgLife' /\ (speaks' = "protocol" => since'[d][n] < rgLife')
      <4>1. rgLife \in Nat BY DEF Registry!TypeOK
      <4> QED BY <1>1, <2>3, <4>1 DEF HandlesKept
    <3> QED BY <1>1, <3>1, <3>2, <3>3, <3>4 DEF HandlesKept
  <2>9. Registry!TypeOK' BY <1>5, <2>2, <2>3, <2>4, UploadParts DEF Registry!TypeOK
  <2>10. Registry!NothingLeaks'
    <3> SUFFICES ASSUME (rgLife = 0 /\ rgUp /\ rgLost = 0 /\ \A d \in rgClients : rgPc[d] # "gone")'
                 PROVE  /\ \A n \in rgManifests : refs'[n] = Registry!Cardinality(Registry!Holders(n)')
                        /\ DOMAIN rgPending' = Uploaders'
      BY DEF Registry!NothingLeaks, Uploaders
    <3>1. rgLife = 0 /\ rgUp /\ rgLost = 0 /\ \A d \in rgClients : rgPc[d] # "gone"
      BY <1>1, <2>1 DEF Registry!TypeOK
    <3>2. /\ \A n \in rgManifests : refs[n] = Registry!Cardinality(Registry!Holders(n))
          /\ DOMAIN rgPending = Uploaders
      BY <3>1 DEF Registry!NothingLeaks, Uploaders
    <3>3. ASSUME NEW n \in rgManifests PROVE refs'[n] = Registry!Cardinality(Registry!Holders(n)')
      <4>1. CASE n = m BY <1>6, <2>7, <3>2, <4>1
      <4>2. CASE n # m BY <1>6, <2>6, <3>2, <4>2
      <4> QED BY <4>1, <4>2
    <3> QED BY <2>1, <2>4, <3>1, <3>2, <3>3 DEF UploadStep
  <2> QED BY <1>5, <2>4, <2>8, <2>9, <2>10, UploadParts
<1> QED BY <1>2, <1>8, <1>9 DEF Registry!Commit

\* c closes, crashes or is done with closing: the uploads stay.
Leaving(c) ==
    /\ UNCHANGED <<Registry!daemon, rgPending, tokens, asked, refused, confirmed, since>>
    /\ \E l \in {"idle", "close", "gone"} :
          /\ Registry!Go(c, l) /\ (l = "gone" \/ rgPc[c] \in {"idle", "close"})
    /\ \E x \in SUBSET (rgManifests \cup UNION rgManifests) :
          /\ rgTodo' = [rgTodo EXCEPT ![c] = x]
          /\ rgPc'[c] = "close" => x \subseteq handles'[c]
    /\ UNCHANGED token
    /\ handles' \in [rgClients -> SUBSET rgManifests]
    /\ \A d \in rgClients \ {c} : handles'[d] = handles[d]
    /\ rgLost' \in {rgLost, rgLost + 1} /\ rgLost' <= MaxLost
    /\ answer' = answer \/ answer' = [answer EXCEPT ![c] = "unspoken"]

LEMMA LeavingParts ==
  ASSUME Registry!RegistryAssumption, RegInv, NEW c \in rgClients, Leaving(c),
         BooksKept', Registry!HeldIsRegistered', \A m \in rgManifests : Registry!IsFiniteSet(Registry!Holders(m)'),
         refs' \in [rgManifests -> Nat], total' \in Nat, robbed' \subseteq rgManifests,
         rgLife = 0 => robbed' = {},
         rgLife = 0 /\ rgUp /\ rgLost' = 0 /\ rgPc'[c] # "gone" /\ Registry!NothingLeaks /\ rgLost = 0
            => \A m \in rgManifests : refs[m] = Registry!Cardinality(Registry!Holders(m)) =>
                  refs'[m] = Registry!Cardinality(Registry!Holders(m)')
  PROVE  RegInv'
<1> USE DEF RegInv
<1>1. PICK l \in {"idle", "close", "gone"} :
         Registry!Go(c, l) /\ (l = "gone" \/ rgPc[c] \in {"idle", "close"})
  BY DEF Leaving
<1>2. PICK x \in SUBSET (rgManifests \cup UNION rgManifests) :
         rgTodo' = [rgTodo EXCEPT ![c] = x] /\ (rgPc'[c] = "close" => x \subseteq handles'[c])
  BY DEF Leaving
<1>3. UNCHANGED <<rgUp, rgLife, speaks, rgPending, tokens, asked, refused, token, confirmed, since>>
  BY DEF Leaving, Registry!daemon
<1>4. rgPc'[c] = l /\ rgTodo'[c] = x BY <1>1, <1>2 DEF Registry!Go, Registry!TypeOK, UploadsKept
<1>5. \A d \in rgClients \ {c} : rgPc'[d] = rgPc[d] /\ rgTodo'[d] = rgTodo[d] /\ handles'[d] = handles[d]
  BY <1>1, <1>2 DEF Registry!Go, Registry!TypeOK, UploadsKept, Leaving
<1>6. Registry!TypeOK'
  <2>1. rgPc' \in [rgClients -> {"idle", "status", "begin", "append", "commit", "ask",
                            "close", "gone"}]
    BY <1>1 DEF Registry!Go, Registry!TypeOK
  <2>2. answer' \in [rgClients -> {"none", "daemon", "local", "unavailable", "unspoken",
                                "error"}]
    BY DEF Leaving, Registry!TypeOK
  <2>3. rgLost' \in 0..MaxLost BY DEF Leaving, Registry!TypeOK, Registry!RegistryAssumption
  <2>4. handles' \in [rgClients -> SUBSET rgManifests] BY DEF Leaving
  <2> QED BY <1>3, <2>1, <2>2, <2>3, <2>4 DEF Registry!TypeOK
<1>7. UploadsKept'
  <2>1. rgTodo' \in [rgClients -> SUBSET (rgManifests \cup UNION rgManifests)] BY <1>2 DEF UploadsKept
  <2>2. ASSUME NEW d \in rgClients PROVE OwnUpload(d)'
    <3>1. CASE d # c BY <3>1, <1>3, <1>5 DEF UploadsKept, OwnUpload
    <3>2. CASE d = c
      <4>1. l # "gone" => token[c] = None BY <1>1 DEF UploadsKept, OwnUpload
      <4>2. token[c] # None => token[c] \in 1..tokens BY DEF UploadsKept, OwnUpload
      <4> QED BY <3>2, <1>2, <1>3, <1>4, <4>1, <4>2 DEF OwnUpload, Uploading
    <3> QED BY <3>1, <3>2
  <2> QED BY <1>3, <2>1, <2>2 DEF UploadsKept
<1>8. HandlesKept'
  <2>1. \A d \in rgClients :
          /\ rgPc'[d] \in {"begin", "append", "commit"} => asked'[d] \notin handles'[d]
          /\ rgPc'[d] = "ask" => asked'[d] \in handles'[d]
    BY <1>3, <1>4, <1>5 DEF HandlesKept
  <2> QED BY <1>3, <2>1 DEF HandlesKept
<1>9. Registry!NothingLeaks'
  <2> SUFFICES ASSUME (rgLife = 0 /\ rgUp /\ rgLost = 0 /\ \A d \in rgClients : rgPc[d] # "gone")'
               PROVE  /\ \A m \in rgManifests : refs'[m] = Registry!Cardinality(Registry!Holders(m)')
                      /\ DOMAIN rgPending' = Uploaders'
    BY DEF Registry!NothingLeaks, Uploaders
  <2>1. rgPc'[c] # "gone" /\ l # "gone" /\ rgPc[c] \in {"idle", "close"} BY <1>1, <1>4
  <2>2. rgLife = 0 /\ rgUp /\ rgLost = 0 /\ \A d \in rgClients : rgPc[d] # "gone"
    BY <1>3, <1>5, <2>1 DEF Leaving, Registry!TypeOK, Registry!RegistryAssumption
  <2>3. /\ \A m \in rgManifests : refs[m] = Registry!Cardinality(Registry!Holders(m))
        /\ DOMAIN rgPending = Uploaders
    BY <2>2 DEF Registry!NothingLeaks, Uploaders
  <2>4. Uploaders' = Uploaders BY <1>1, <1>3, <2>1, UploadersChange DEF Uploading
  <2> QED BY <1>3, <2>1, <2>2, <2>3, <2>4
<1>10. Registry!AutoAnswersOneDaemon'
  <2> SUFFICES ASSUME (rgLife = 0 /\ ~refused /\ speaks = "same")', NEW d \in rgClients \ DaemonOnly
               PROVE  answer'[d] # "error"
    BY DEF Registry!AutoAnswersOneDaemon, Registry!AutoAnswers
  <2>1. answer[d] # "error" BY <1>3 DEF Registry!AutoAnswersOneDaemon, Registry!AutoAnswers
  <2> QED BY <2>1 DEF Leaving, Registry!TypeOK
<1> QED BY <1>6, <1>7, <1>8, <1>9, <1>10

\* The same where the books are left alone and nobody comes to hold more.
LEMMA LeavingBooks ==
  ASSUME Registry!RegistryAssumption, RegInv, NEW c \in rgClients, Leaving(c),
         UNCHANGED <<refs, total, robbed>>,
         \A m \in rgManifests : Registry!Holders(m)' \subseteq Registry!Holders(m),
         rgUp /\ rgPc'[c] # "gone" => \A m \in rgManifests : Registry!Holders(m)' = Registry!Holders(m)
  PROVE  RegInv'
<1> USE DEF RegInv
<1>1. UNCHANGED rgPending BY DEF Leaving
<1>2. BooksKept' BY <1>1, QuietBooks DEF BooksKept, Registry!Accounted
<1>3. \A m \in rgManifests : /\ Registry!IsFiniteSet(Registry!Holders(m)')
                           /\ Registry!Cardinality(Registry!Holders(m)') <= Registry!Cardinality(Registry!Holders(m))
                           /\ Registry!Cardinality(Registry!Holders(m)) \in Nat /\ Registry!Cardinality(Registry!Holders(m)') \in Nat
  BY CountSubset, CountType DEF HandlesKept
<1>4. Registry!HeldIsRegistered'
  <2> SUFFICES ASSUME NEW m \in rgManifests \ robbed' PROVE refs'[m] >= Registry!Cardinality(Registry!Holders(m)')
    BY DEF Registry!HeldIsRegistered
  <2>1. refs[m] >= Registry!Cardinality(Registry!Holders(m)) BY DEF HandlesKept, Registry!HeldIsRegistered
  <2>2. refs[m] \in Nat BY DEF Registry!TypeOK
  <2> QED BY <1>3, <2>1, <2>2
<1>5. refs' \in [rgManifests -> Nat] /\ total' \in Nat /\ robbed' \subseteq rgManifests
      /\ (rgLife = 0 => robbed' = {})
  BY DEF Registry!TypeOK, HandlesKept
<1> QED BY <1>2, <1>3, <1>4, <1>5, LeavingParts

LEMMA CloseKeeps ==
  ASSUME Registry!RegistryAssumption, RegInv, NEW c \in rgClients, Registry!Close(c)
  PROVE  RegInv'
<1> USE DEF RegInv
<1>1. /\ rgPc[c] = "idle" /\ rgPc' = [rgPc EXCEPT ![c] = "close"] /\ rgPc'[c] = "close"
      /\ rgTodo' = [rgTodo EXCEPT ![c] = handles[c]] /\ rgTodo'[c] = handles[c]
      /\ UNCHANGED <<rgUp, rgLife, speaks, Registry!registry, rgLost, asked, token, handles, confirmed,
                     since, answer, robbed, refused>>
      /\ handles[c] \in SUBSET rgManifests /\ rgLost <= MaxLost
  BY DEF Registry!Close, Registry!Go, Registry!daemon, Registry!facade, Registry!TypeOK, UploadsKept
<1>2. Leaving(c)
  <2>1. \E l \in {"idle", "close", "gone"} : Registry!Go(c, l) /\ (l = "gone" \/ rgPc[c] \in {"idle", "close"})
    BY <1>1 DEF Registry!Go
  <2>2. handles' \in [rgClients -> SUBSET rgManifests] BY <1>1 DEF Registry!TypeOK
  <2>3. \E x \in SUBSET (rgManifests \cup UNION rgManifests) :
          rgTodo' = [rgTodo EXCEPT ![c] = x] /\ (rgPc'[c] = "close" => x \subseteq handles'[c])
    BY <1>1
  <2> QED BY <1>1, <2>1, <2>2, <2>3 DEF Leaving, Registry!daemon, Registry!registry
<1>3. \A m \in rgManifests : Registry!Holders(m)' = Registry!Holders(m)
  BY <1>1 DEF Registry!Holders, Registry!Holds, Registry!TypeOK, UploadsKept
<1> QED BY <1>1, <1>2, <1>3, LeavingBooks DEF Registry!registry

LEMMA CrashKeeps ==
  ASSUME Registry!RegistryAssumption, RegInv, NEW c \in rgClients, Registry!Crash(c)
  PROVE  RegInv'
<1> USE DEF RegInv
<1>1. /\ rgPc' = [rgPc EXCEPT ![c] = "gone"] /\ rgPc'[c] = "gone"
      /\ UNCHANGED <<rgUp, rgLife, speaks, Registry!registry, rgLost, asked, token, rgTodo, handles, confirmed,
                     since, answer, robbed, refused>>
      /\ rgLost <= MaxLost
  BY DEF Registry!Crash, Registry!Go, Registry!daemon, Registry!facade, Registry!locals, Registry!TypeOK
<1>2. Leaving(c)
  <2>1. \E l \in {"idle", "close", "gone"} : Registry!Go(c, l) /\ (l = "gone" \/ rgPc[c] \in {"idle", "close"})
    BY <1>1 DEF Registry!Go
  <2>2. handles' \in [rgClients -> SUBSET rgManifests] BY <1>1 DEF Registry!TypeOK
  <2>3. rgTodo' = [rgTodo EXCEPT ![c] = rgTodo[c]] /\ rgTodo[c] \in SUBSET (rgManifests \cup UNION rgManifests)
    BY <1>1 DEF UploadsKept
  <2> QED BY <1>1, <2>1, <2>2, <2>3 DEF Leaving, Registry!daemon, Registry!registry
<1>3. \A m \in rgManifests : Registry!Holders(m)' \subseteq Registry!Holders(m)
  BY <1>1 DEF Registry!Holders, Registry!Holds, Registry!TypeOK
<1> QED BY <1>1, <1>2, <1>3, LeavingBooks DEF Registry!registry

LEMMA CloseEndsKeeps ==
  ASSUME Registry!RegistryAssumption, RegInv, NEW c \in rgClients, Registry!CloseUnreached(c) \/ Registry!CloseUnspoken(c)
  PROVE  RegInv'
<1> USE DEF RegInv
<1>1. /\ rgPc[c] = "close" /\ rgPc' = [rgPc EXCEPT ![c] = "idle"] /\ rgPc'[c] = "idle"
      /\ rgTodo' = [rgTodo EXCEPT ![c] = {}]
      /\ UNCHANGED <<Registry!daemon, rgUp, rgLife, speaks, Registry!registry, rgLost, asked, confirmed, since, robbed, refused>>
      /\ rgLost <= MaxLost
      /\ handles' = handles \/ handles' = [handles EXCEPT ![c] = {}]
      /\ answer' = answer \/ answer' = [answer EXCEPT ![c] = "unspoken"]
  BY DEF Registry!CloseUnreached, Registry!CloseUnspoken, Registry!Unspoken, Registry!Forgets, Registry!Ended, Registry!Go, Registry!daemon, Registry!facade, Registry!TypeOK
<1>2. token' = token
  <2>1. CASE Registry!CloseUnreached(c) BY <2>1 DEF Registry!CloseUnreached
  <2>2. CASE Registry!CloseUnspoken(c)
    <3>1. token[c] = None BY <1>1 DEF UploadsKept, OwnUpload
    <3>2. token' = [token EXCEPT ![c] = None] BY <2>2 DEF Registry!CloseUnspoken, Registry!Unspoken, Registry!Ended
    <3> QED BY <3>1, <3>2 DEF Registry!TypeOK
  <2> QED BY <2>1, <2>2
<1>3. Leaving(c)
  <2>1. \E l \in {"idle", "close", "gone"} : Registry!Go(c, l) /\ (l = "gone" \/ rgPc[c] \in {"idle", "close"})
    BY <1>1 DEF Registry!Go
  <2>2. handles' \in [rgClients -> SUBSET rgManifests] /\ \A d \in rgClients \ {c} : handles'[d] = handles[d]
    BY <1>1 DEF Registry!TypeOK
  <2>3. \E x \in SUBSET (rgManifests \cup UNION rgManifests) :
          rgTodo' = [rgTodo EXCEPT ![c] = x] /\ (rgPc'[c] = "close" => x \subseteq handles'[c])
    BY <1>1
  <2> QED BY <1>1, <1>2, <2>1, <2>2, <2>3 DEF Leaving, Registry!registry
<1>4. \A m \in rgManifests : Registry!Holders(m) = {} /\ Registry!Holders(m)' = {}
  <2>1. CASE ~rgUp BY <1>1, <2>1 DEF Registry!Holders, Registry!Holds
  <2>2. CASE rgUp
    <3>1. speaks = "protocol" BY <2>2 DEF Registry!CloseUnreached, Registry!CloseUnspoken, Registry!Unspoken
    <3>2. \A d \in rgClients : \A m \in rgManifests : since[d][m] # rgLife
      <4>1. rgLife \in Nat /\ \A d \in rgClients : \A m \in rgManifests : since[d][m] \in Nat BY DEF Registry!TypeOK
      <4> QED BY <3>1, <4>1 DEF HandlesKept
    <3> QED BY <1>1, <3>2 DEF Registry!Holders, Registry!Holds
  <2> QED BY <2>1, <2>2
<1> QED BY <1>1, <1>3, <1>4, LeavingBooks DEF Registry!registry

LEMMA DropKeeps ==
  ASSUME Registry!RegistryAssumption, RegInv, NEW c \in rgClients, NEW m \in rgManifests, Registry!Drop(c, m)
  PROVE  RegInv'
<1> USE DEF RegInv
<1>1. /\ rgPc[c] = "close" /\ rgUp /\ m \in rgTodo[c] /\ rgTodo[c] \subseteq handles[c]
      /\ UNCHANGED <<Registry!daemon, rgUp, rgLife, speaks, rgPending, tokens, asked, token, answer, refused,
                     confirmed, since>>
      /\ refs' = [refs EXCEPT ![m] = IF @ > 0 THEN @ - 1 ELSE 0]
      /\ total' = IF refs[m] = 1 THEN total - Registry!Cardinality(m) ELSE total
      /\ robbed' = IF since[c][m] # rgLife THEN robbed \cup {m} ELSE robbed
      /\ rgLost \in Nat /\ MaxLost \in Nat /\ rgLost <= MaxLost
      /\ rgLost' \in {rgLost, rgLost + 1} /\ rgLost' <= MaxLost
  BY DEF Registry!Drop, Registry!Spoken, Registry!Answered, Registry!Forgets, Registry!daemon, Registry!facade, UploadsKept, OwnUpload, Registry!TypeOK,
         Registry!RegistryAssumption
<1>2. \/ /\ rgPc' = [rgPc EXCEPT ![c] = "idle"] /\ rgPc'[c] = "idle"
         /\ rgTodo' = [rgTodo EXCEPT ![c] = {}] /\ handles' = [handles EXCEPT ![c] = {}]
         /\ rgLost' = 0 => rgTodo[c] = {m}
      \/ /\ rgPc' = rgPc /\ rgTodo' = [rgTodo EXCEPT ![c] = rgTodo[c] \ {m}] /\ handles' = handles
  BY <1>1 DEF Registry!Drop, Registry!Answered, Registry!Forgets, Registry!Go, Registry!facade, Registry!TypeOK
<1>3. BooksKept' /\ refs' \in [rgManifests -> Nat] /\ total' \in Nat
  BY <1>1, DropReference
<1>4. \A n \in rgManifests :
        /\ refs[n] \in Nat
        /\ refs'[n] = IF n = m THEN IF refs[n] > 0 THEN refs[n] - 1 ELSE 0 ELSE refs[n]
  BY <1>1 DEF Registry!TypeOK
<1>5. rgTodo \in [rgClients -> SUBSET (rgManifests \cup UNION rgManifests)]
      /\ handles \in [rgClients -> SUBSET rgManifests]
      /\ rgPc \in [rgClients -> {"idle", "status", "begin", "append", "commit", "ask",
                             "close", "gone"}]
  BY DEF Registry!TypeOK, UploadsKept
<1>6. Leaving(c)
  <2>1. \E l \in {"idle", "close", "gone"} : Registry!Go(c, l) /\ (l = "gone" \/ rgPc[c] \in {"idle", "close"})
    <3>1. CASE rgPc' = [rgPc EXCEPT ![c] = "idle"] BY <1>1, <3>1 DEF Registry!Go
    <3>2. CASE rgPc' = rgPc
      <4>1. rgPc' = [rgPc EXCEPT ![c] = "close"] BY <1>1, <1>5, <3>2
      <4> QED BY <1>1, <4>1 DEF Registry!Go
    <3> QED BY <1>2, <3>1, <3>2
  <2>2. handles' \in [rgClients -> SUBSET rgManifests] /\ \A d \in rgClients \ {c} : handles'[d] = handles[d]
    BY <1>2, <1>5
  <2>3. \E x \in SUBSET (rgManifests \cup UNION rgManifests) :
          rgTodo' = [rgTodo EXCEPT ![c] = x] /\ (rgPc'[c] = "close" => x \subseteq handles'[c])
    BY <1>1, <1>2, <1>5
  <2> QED BY <1>1, <2>1, <2>2, <2>3 DEF Leaving
<1>7. \A n \in rgManifests : \A d \in rgClients \ {c} : Registry!Holds(d, n)' = Registry!Holds(d, n)
  BY <1>1, <1>2, <1>5 DEF Registry!Holds
<1>8. \A n \in rgManifests : Registry!Holders(n)' \subseteq Registry!Holders(n) /\ c \notin Registry!Holders(m)'
  BY <1>1, <1>2, <1>5, <1>7 DEF Registry!Holders, Registry!Holds
<1>9. rgLost' = 0 => \A n \in rgManifests \ {m} : Registry!Holders(n)' = Registry!Holders(n)
  BY <1>1, <1>2, <1>5, <1>7 DEF Registry!Holders, Registry!Holds
<1>10. since[c][m] = rgLife => c \in Registry!Holders(m) /\ Registry!Holders(m)' = Registry!Holders(m) \ {c}
  BY <1>1, <1>2, <1>5, <1>7, <1>8 DEF Registry!Holders, Registry!Holds
<1>11. \A n \in rgManifests : /\ Registry!IsFiniteSet(Registry!Holders(n)) /\ Registry!IsFiniteSet(Registry!Holders(n)')
                            /\ Registry!Cardinality(Registry!Holders(n)') <= Registry!Cardinality(Registry!Holders(n))
                            /\ Registry!Cardinality(Registry!Holders(n)) \in Nat /\ Registry!Cardinality(Registry!Holders(n)') \in Nat
  BY <1>8, CountSubset, CountType DEF HandlesKept
<1>12. since[c][m] = rgLife => Registry!Cardinality(Registry!Holders(m)') = Registry!Cardinality(Registry!Holders(m)) - 1
  BY <1>10, <1>11, CountRemove
<1>13. Registry!HeldIsRegistered'
  <2> SUFFICES ASSUME NEW n \in rgManifests \ robbed' PROVE refs'[n] >= Registry!Cardinality(Registry!Holders(n)')
    BY DEF Registry!HeldIsRegistered
  <2>1. n \notin robbed /\ (n = m => since[c][m] = rgLife) BY <1>1
  <2>2. refs[n] >= Registry!Cardinality(Registry!Holders(n)) BY <2>1 DEF HandlesKept, Registry!HeldIsRegistered
  <2>3. CASE n = m BY <1>4, <1>11, <1>12, <2>1, <2>2, <2>3
  <2>4. CASE n # m BY <1>4, <1>11, <2>2, <2>4
  <2> QED BY <2>3, <2>4
<1>14. rgLife = 0 => since[c][m] = rgLife
  <2>1. since[c][m] \in Nat BY DEF Registry!TypeOK
  <2> QED BY <2>1 DEF HandlesKept
<1>15. robbed' \subseteq rgManifests /\ (rgLife = 0 => robbed' = {})
  BY <1>1, <1>14 DEF Registry!TypeOK, HandlesKept
<1>16. ASSUME rgLife = 0, rgLost' = 0, NEW n \in rgManifests, refs[n] = Registry!Cardinality(Registry!Holders(n))
       PROVE  refs'[n] = Registry!Cardinality(Registry!Holders(n)')
  <2>1. CASE n = m BY <1>4, <1>11, <1>12, <1>14, <1>16, <2>1
  <2>2. CASE n # m BY <1>4, <1>9, <1>16, <2>2
  <2> QED BY <2>1, <2>2
<1> QED BY <1>3, <1>6, <1>11, <1>13, <1>15, <1>16, LeavingParts

LEMMA DaemonStopsKeeps ==
  ASSUME Registry!RegistryAssumption, RegInv, Registry!DaemonStops
  PROVE  RegInv'
<1> USE DEF RegInv
<1>1. /\ ~rgUp' /\ rgUp' \in BOOLEAN /\ rgLife < MaxLives
      /\ UNCHANGED <<rgLife, speaks, rgPending, tokens, refs, total, rgLost, rgPc, asked, token, rgTodo,
                     handles, confirmed, since, answer, robbed, refused>>
  BY DEF Registry!DaemonStops, Registry!registry, Registry!locals, Registry!facade
<1>2. \A m \in rgManifests : Registry!Holders(m)' = {} BY <1>1 DEF Registry!Holders, Registry!Holds
<1>3. Registry!IsFiniteSet({}) /\ Registry!Cardinality({}) = 0 BY CountEmpty
<1>4. Registry!TypeOK' BY <1>1 DEF Registry!TypeOK
<1>5. UploadsKept' BY <1>1 DEF UploadsKept, OwnUpload
<1>6. BooksKept' BY <1>1, QuietBooks DEF BooksKept, Registry!Accounted
<1>7. HandlesKept'
  <2>1. Registry!HeldIsRegistered'
    <3>1. \A m \in rgManifests : refs'[m] \in Nat /\ Registry!Cardinality(Registry!Holders(m)') = 0
      BY <1>1, <1>2, <1>3 DEF Registry!TypeOK
    <3> QED BY <3>1 DEF Registry!HeldIsRegistered
  <2>2. \A m \in rgManifests : Registry!IsFiniteSet(Registry!Holders(m)') BY <1>2, <1>3
  <2> QED BY <1>1, <2>1, <2>2 DEF HandlesKept
<1>8. Registry!NothingLeaks' BY <1>1 DEF Registry!NothingLeaks
<1>9. Registry!AutoAnswersOneDaemon'
  <2>1. UNCHANGED <<rgLife, refused, speaks, answer>> BY <1>1
  <2> QED BY <2>1 DEF Registry!AutoAnswersOneDaemon, Registry!AutoAnswers
<1> QED BY <1>4, <1>5, <1>6, <1>7, <1>8, <1>9

LEMMA DaemonStartsKeeps ==
  ASSUME Registry!RegistryAssumption, RegInv, Registry!DaemonStarts
  PROVE  RegInv'
<1> USE DEF RegInv
<1>1. /\ ~rgUp /\ rgUp' /\ rgUp' \in BOOLEAN /\ rgLife' = rgLife + 1 /\ rgLife \in Nat /\ rgLife < MaxLives
      /\ speaks' \in {"same", "semantics", "protocol"}
      /\ refs' = [m \in rgManifests |-> 0] /\ total' = 0 /\ robbed' = {}
      /\ DOMAIN rgPending' = {}
      /\ UNCHANGED <<tokens, rgLost, rgPc, asked, token, rgTodo,
                     handles, confirmed, since, answer, refused>>
  <2>1. DOMAIN <<>> = {} OBVIOUS
  <2> QED BY <2>1 DEF Registry!DaemonStarts, Registry!locals, Registry!facade, HandlesKept, Registry!TypeOK
<1>2. \A d \in rgClients : \A m \in rgManifests : since[d][m] \in Nat /\ since[d][m] <= rgLife
  BY DEF Registry!TypeOK, HandlesKept
<1>3. \A m \in rgManifests : Registry!Holders(m)' = {} BY <1>1, <1>2 DEF Registry!Holders, Registry!Holds
<1>4. Registry!IsFiniteSet({}) /\ Registry!Cardinality({}) = 0 BY CountEmpty
<1>5. Registry!TypeOK'
  <2>1. rgLife' \in 0..MaxLives BY <1>1 DEF Registry!RegistryAssumption
  <2>2. refs' \in [rgManifests -> Nat] BY <1>1
  <2> QED BY <1>1, <2>1, <2>2 DEF Registry!TypeOK
<1>6. UploadsKept' BY <1>1 DEF UploadsKept, OwnUpload
<1>7. BooksKept'
  <2>1. Registry!Registered' = {} BY <1>1 DEF Registry!Registered
  <2>2. Registry!RegisteredPaths' = {} BY <2>1 DEF Registry!RegisteredPaths
  <2> QED BY <1>1, <1>4, <2>1, <2>2 DEF BooksKept, Registry!Accounted, Registry!RegistryAssumption
<1>8. HandlesKept'
  <2>1. Registry!HeldIsRegistered'
    <3>1. \A m \in rgManifests : refs'[m] = 0 /\ Registry!Cardinality(Registry!Holders(m)') = 0 BY <1>1, <1>3, <1>4
    <3> QED BY <3>1 DEF Registry!HeldIsRegistered
  <2>2. \A m \in rgManifests : Registry!IsFiniteSet(Registry!Holders(m)') BY <1>3, <1>4
  <2>3. \A d \in rgClients : \A m \in rgManifests :
          since'[d][m] <= rgLife' /\ (speaks' = "protocol" => since'[d][m] < rgLife')
    BY <1>1, <1>2
  <2>4. ~(rgLife' = 0) BY <1>1
  <2> QED BY <1>1, <2>1, <2>2, <2>3, <2>4 DEF HandlesKept
<1>9. rgLife' # 0 BY <1>1
<1>10. Registry!NothingLeaks' /\ Registry!AutoAnswersOneDaemon' BY <1>9 DEF Registry!NothingLeaks, Registry!AutoAnswersOneDaemon
<1> QED BY <1>5, <1>6, <1>7, <1>8, <1>10

LEMMA RegistryStep == Registry!RegistryAssumption /\ RegInv /\ [Registry!Next]_Registry!vars => RegInv'
<1> SUFFICES ASSUME Registry!RegistryAssumption, RegInv, [Registry!Next]_Registry!vars PROVE RegInv' OBVIOUS
<1>1. CASE UNCHANGED Registry!vars
  <2>1. UNCHANGED <<rgUp, rgLife, speaks, rgPending, tokens, refs, total, rgLost, rgPc, asked, token, rgTodo,
                    handles, confirmed, since, answer, robbed, refused>>
    BY <1>1 DEF Registry!vars, Registry!daemon, Registry!registry, Registry!locals, Registry!facade
  <2>2. Registry!Registered' = Registry!Registered BY <2>1 DEF Registry!Registered
  <2>3. Registry!RegisteredPaths' = Registry!RegisteredPaths BY <2>2 DEF Registry!RegisteredPaths
  <2>4. Registry!TypeOK' BY <2>1 DEF Registry!TypeOK, RegInv
  <2>5. UploadsKept' BY <2>1 DEF UploadsKept, OwnUpload, RegInv
  <2>6. BooksKept' BY <2>1, <2>2, <2>3 DEF BooksKept, Registry!Accounted, RegInv
  <2>7. \A m \in rgManifests : Registry!Holders(m)' = Registry!Holders(m) BY <2>1 DEF Registry!Holders, Registry!Holds
  <2>8. HandlesKept' BY <2>1, <2>7 DEF HandlesKept, Registry!HeldIsRegistered, RegInv
  <2>9. Registry!NothingLeaks' BY <2>1, <2>7 DEF Registry!NothingLeaks, RegInv
  <2>10. Registry!AutoAnswersOneDaemon' BY <2>1 DEF Registry!AutoAnswersOneDaemon, Registry!AutoAnswers, RegInv
  <2> QED BY <2>4, <2>5, <2>6, <2>8, <2>9, <2>10 DEF RegInv
<1>2. ASSUME NEW c \in rgClients, Registry!Call(c) PROVE RegInv'
  <2>1. CASE Registry!Status(c) BY <2>1, StatusAside, AsideKeeps
  <2>2. CASE rgPc[c] \in Registry!Calling /\ (Registry!Unreachable(c) \/ Registry!Unspoken(c))
    BY <2>2, UnansweredAside, AsideKeeps
  <2>3. CASE Registry!BeginRefused(c) BY <2>3, BeginRefusedAside, AsideKeeps
  <2>4. CASE Registry!Begin(c) BY <2>4, BeginStepKeeps
  <2>5. CASE Registry!AppendRefused(c) \/ Registry!CommitRefused(c) BY <2>5, RefusedUploadKeeps
  <2>6. CASE \E p \in rgTodo[c] : Registry!Append(c, p) BY <2>6, AppendStepKeeps
  <2>7. CASE Registry!Commit(c) BY <2>7, ManifestCommitKeeps
  <2>8. CASE Registry!AskRefused(c) \/ Registry!Ask(c) BY <2>8, AskAside, AsideKeeps
  <2>9. CASE Registry!CloseUnreached(c) \/ Registry!CloseUnspoken(c) BY <2>9, CloseEndsKeeps
  <2>10. CASE \E m \in rgManifests : Registry!Drop(c, m) BY <2>10, DropKeeps
  <2> QED BY <1>2, <2>1, <2>2, <2>3, <2>4, <2>5, <2>6, <2>7, <2>8, <2>9, <2>10 DEF Registry!Call
<1>3. ASSUME NEW c \in rgClients, NEW m \in rgManifests, Registry!Snapshot(c, m) PROVE RegInv'
  BY <1>3, SnapshotAside, AsideKeeps
<1> QED BY <1>1, <1>2, <1>3, CloseKeeps, CrashKeeps, DaemonStopsKeeps, DaemonStartsKeeps DEF Registry!Next

(* At every step the types hold, uploads are complete before they are committed,  *)
(* the budget is what is registered, and every handle held is counted.            *)
THEOREM RegistryInvariant == Registry!RegistryAssumption => (Registry!Spec => []RegInv)
<1> SUFFICES ASSUME Registry!RegistryAssumption PROVE Registry!Spec => []RegInv OBVIOUS
<1>1. Registry!Init => RegInv BY RegistryInit
<1>2. RegInv /\ [Registry!Next]_Registry!vars => RegInv' BY RegistryStep
<1> QED BY <1>1, <1>2, PTL DEF Registry!Spec

(***************************************************************************)
(* TypeServer, for any number of imports, changes, waits and messages.  An *)
(* id is given once, so a message that bears the one that is waited for is *)
(* the answer to the request under way, which is of the client's phase and *)
(* of its import; and what is unresolved is what was given up and what is  *)
(* still to come.                                                          *)
(***************************************************************************)
LEMMA SameServerCounting ==
  /\ \A S : Server!IsFiniteSet(S) <=> IsFiniteSet(S)
  /\ \A S : Server!Cardinality(S) = Cardinality(S)
<1>1. \A S : Server!IsFiniteSet(S) <=> IsFiniteSet(S)
  BY DEF Server!IsFiniteSet, IsFiniteSet
<1>2. \A S : Server!Cardinality(S) = Cardinality(S)
  BY DEF Server!Cardinality, Cardinality, Server!IsFiniteSet, IsFiniteSet
<1> QED BY <1>1, <1>2

Messages ==
    [id : 0..Server!MaxId, is : {"ok", "refused", "error", "request", "notice"}, value : Server!Values]

\* The ids that may have been used when the client is about to send.
Budget ==
    CASE phase = "initialize" -> 1
      [] phase = "snapshot"   -> 2
      [] phase = "resolve"    -> 3 * spec
      [] phase = "refresh"    -> 3 * spec + 1
      [] phase = "retry"      -> 3 * spec + 2
      [] phase = "shutdown"   -> 3 * Imports + 3
      [] phase = "done"       -> 3 * Imports + 4

ServerTypes ==
    /\ current \in Server!Snapshots /\ alive \in BOOLEAN
    /\ pending \subseteq [id : 1..Server!MaxId, op : Server!Requests, spec : Server!Specs, snapshot : Server!Snapshots]
    /\ responses \in Seq(Messages)
    /\ phase \in Server!Requests \cup {"done"} /\ waiting \in BOOLEAN /\ nextId \in Nat \ {0}
    /\ nextId <= Budget + (IF waiting THEN 1 ELSE 0) /\ (phase = "done" => ~waiting)
    /\ spec \in 1..(Imports + 1) /\ snapshot \in Server!Snapshots /\ lost \in 0..Imports
    /\ edges \in [Server!Specs -> Server!Values \cup {None}]
    /\ timeouts \in 0..MaxTimeouts /\ chatter \in 0..MaxChatter

\* A request or an answer that bears the id the client waits for is that of its request.
RequestKept(r) ==
    /\ r.id < nextId
    /\ waiting /\ r.id = nextId - 1 =>
          r.op = phase /\ (phase \in {"resolve", "retry"} => r.spec = spec)

MessageKept(m) ==
    m.is \in {"ok", "refused", "error"} =>
       /\ m.id < nextId
       /\ waiting /\ m.id = nextId - 1 /\ m.is = "ok" =>
             /\ phase \in {"resolve", "retry"} => m.value \in {spec} \X Server!Snapshots
             /\ phase \in {"snapshot", "refresh"} => m.value \in {<<n>> : n \in Server!Snapshots}

MessagesKept ==
    /\ \A r \in pending : RequestKept(r)
    /\ \A m \in Server!ToSet(responses) : MessageKept(m)

Unresolved(e) == {i \in Server!Specs : e[i] = None}

EdgesKept ==
    /\ \A i \in Server!Specs : edges[i] # None => edges[i] \in {i} \X Server!Snapshots
    /\ phase \in {"initialize", "snapshot"} => edges = Server!Nothing /\ spec = 1 /\ lost = 0
    /\ phase \in {"resolve", "refresh", "retry"} =>
          /\ spec \in Server!Specs /\ \A i \in spec..Imports : edges[i] = None
          /\ Server!Cardinality(Unresolved(edges)) = lost + (Imports - spec + 1)
    /\ phase \in {"shutdown", "done"} =>
          \/ edges = Server!Nothing
          \/ spec = Imports + 1 /\ lost = Server!Cardinality(Unresolved(edges))

ServerInv == ServerTypes /\ MessagesKept /\ EdgesKept

LEMMA UnresolvedCounted ==
  ASSUME Server!TypeServerAssumption, NEW e \in [Server!Specs -> Server!Values \cup {None}]
  PROVE  /\ Server!IsFiniteSet(Unresolved(e)) /\ Server!Cardinality(Unresolved(e)) \in Nat
         /\ Server!Cardinality(Unresolved(e)) <= Imports
         /\ (\A i \in Server!Specs : e[i] = None) => Server!Cardinality(Unresolved(e)) = Imports
<1>1. Server!IsFiniteSet(Server!Specs) /\ Server!Cardinality(Server!Specs) = Imports
  BY FS_Interval, SameServerCounting DEF Server!Specs, Server!TypeServerAssumption
<1>2. Unresolved(e) \subseteq Server!Specs BY DEF Unresolved
<1>3. (\A i \in Server!Specs : e[i] = None) => Unresolved(e) = Server!Specs BY DEF Unresolved
<1> QED BY <1>1, <1>2, <1>3, FS_Subset, FS_CardinalityType, SameServerCounting

LEMMA ServerInit == Server!TypeServerAssumption /\ Server!Init => ServerInv
<1> SUFFICES ASSUME Server!TypeServerAssumption, Server!Init PROVE ServerInv OBVIOUS
<1>1. edges \in [Server!Specs -> Server!Values \cup {None}] /\ edges = Server!Nothing BY DEF Server!Init, Server!Nothing
<1>2. ServerTypes
  <2>1. 0 \in Server!Snapshots /\ 1 \in Server!Specs BY DEF Server!TypeServerAssumption, Server!Snapshots, Server!Specs
  <2>2. Budget = 1 BY DEF Server!Init, Budget
  <2>3. responses \in Seq(Messages) BY DEF Server!Init
  <2>4. nextId <= Budget + (IF waiting THEN 1 ELSE 0) BY <2>2 DEF Server!Init
  <2>5. spec \in 1..(Imports + 1) /\ lost \in 0..Imports /\ timeouts \in 0..MaxTimeouts
        /\ chatter \in 0..MaxChatter /\ nextId \in Nat \ {0}
    BY DEF Server!Init, Server!TypeServerAssumption
  <2> QED BY <1>1, <2>1, <2>3, <2>4, <2>5 DEF Server!Init, ServerTypes, Server!Requests
<1>3. MessagesKept BY DEF Server!Init, MessagesKept, Server!ToSet
<1>4. EdgesKept BY <1>1 DEF Server!Init, EdgesKept, Server!Nothing
<1> QED BY <1>2, <1>3, <1>4 DEF ServerInv

\* The queue.
LEMMA ServerQueue ==
  ASSUME NEW S, NEW s \in Seq(S)
  PROVE  /\ \A m \in S : Append(s, m) \in Seq(S) /\ Server!ToSet(Append(s, m)) = Server!ToSet(s) \cup {m}
         /\ s # <<>> => Tail(s) \in Seq(S) /\ Server!ToSet(Tail(s)) \subseteq Server!ToSet(s)
                        /\ Head(s) \in Server!ToSet(s) /\ Head(s) \in S
<1>1. ASSUME NEW m \in S PROVE Append(s, m) \in Seq(S) /\ Server!ToSet(Append(s, m)) = Server!ToSet(s) \cup {m}
  <2>1. Append(s, m) \in Seq(S) /\ Len(Append(s, m)) = Len(s) + 1 /\ Len(s) \in Nat OBVIOUS
  <2>2. \A i \in 1..(Len(s) + 1) : Append(s, m)[i] = IF i = Len(s) + 1 THEN m ELSE s[i] OBVIOUS
  <2>3. DOMAIN s = 1..Len(s) /\ DOMAIN Append(s, m) = 1..(Len(s) + 1) BY <2>1
  <2> QED BY <2>1, <2>2, <2>3 DEF Server!ToSet
<1>2. ASSUME s # <<>>
      PROVE  Tail(s) \in Seq(S) /\ Server!ToSet(Tail(s)) \subseteq Server!ToSet(s)
             /\ Head(s) \in Server!ToSet(s) /\ Head(s) \in S
  <2>1. Tail(s) \in Seq(S) /\ Len(Tail(s)) = Len(s) - 1 /\ Len(s) \in Nat \ {0} BY <1>2
  <2>2. \A i \in 1..(Len(s) - 1) : Tail(s)[i] = s[i + 1] BY <1>2
  <2>3. DOMAIN s = 1..Len(s) /\ DOMAIN Tail(s) = 1..(Len(s) - 1) BY <2>1
  <2>4. Server!ToSet(Tail(s)) \subseteq Server!ToSet(s) BY <2>1, <2>2, <2>3 DEF Server!ToSet
  <2>5. Head(s) = s[1] /\ 1 \in DOMAIN s BY <2>1, <2>3
  <2>6. Head(s) \in S BY <1>2
  <2>7. Head(s) \in Server!ToSet(s) BY <2>5 DEF Server!ToSet
  <2> QED BY <2>1, <2>4, <2>6, <2>7
<1> QED BY <1>1, <1>2

LEMMA BudgetNat ==
  ASSUME Server!TypeServerAssumption, ServerInv
  PROVE  /\ Budget \in Nat /\ nextId \in Nat \ {0}
         /\ (waiting => nextId <= Budget + 1) /\ (~waiting => nextId <= Budget)
         /\ phase # "done" => Budget <= 3 * Imports + 3
<1>1. /\ Imports \in Nat \ {0} /\ nextId \in Nat \ {0} /\ spec \in Nat /\ phase \in Server!Requests \cup {"done"}
      /\ phase \in {"resolve", "refresh", "retry"} => spec <= Imports
  BY DEF ServerInv, ServerTypes, Server!TypeServerAssumption, EdgesKept, Server!Specs
<1>2. Budget \in Nat /\ (phase # "done" => Budget <= 3 * Imports + 3)
  <2>1. CASE phase \in {"resolve", "refresh", "retry"} BY <1>1, <2>1 DEF Budget
  <2>2. CASE phase \in {"initialize", "snapshot", "shutdown", "done"} BY <1>1, <2>2 DEF Budget
  <2> QED BY <1>1, <2>1, <2>2 DEF Server!Requests
<1> QED BY <1>1, <1>2 DEF ServerInv, ServerTypes

\* What the server does by itself leaves the client's state as it is.
LEMMA ClientUntouched ==
  ASSUME ServerInv, UNCHANGED Server!client, current' \in Server!Snapshots, alive' \in BOOLEAN,
         pending' \subseteq pending, responses' \in Seq(Messages),
         timeouts' \in 0..MaxTimeouts, chatter' \in 0..MaxChatter,
         \A m \in Server!ToSet(responses') : m \in Server!ToSet(responses) \/ MessageKept(m)
  PROVE  ServerInv'
<1> USE DEF ServerInv
<1>1. UNCHANGED <<phase, waiting, nextId, spec, snapshot, edges, lost>> BY DEF Server!client
<1>2. Budget' = Budget BY <1>1 DEF Budget
<1>3. ServerTypes' BY <1>1, <1>2 DEF ServerTypes
<1>4. MessagesKept' BY <1>1 DEF MessagesKept, MessageKept, RequestKept
<1>5. EdgesKept' BY <1>1 DEF EdgesKept, Unresolved
<1> QED BY <1>3, <1>4, <1>5

LEMMA SaidKeeps ==
  ASSUME Server!TypeServerAssumption, ServerInv, UNCHANGED Server!client, current' \in Server!Snapshots, alive' = alive,
         pending' \subseteq pending, timeouts' = timeouts, chatter' \in 0..MaxChatter,
         NEW m \in Messages, MessageKept(m), Server!Say(m)
  PROVE  ServerInv'
<1>1. responses \in Seq(Messages) BY DEF ServerInv, ServerTypes
<1>2. responses' \in Seq(Messages) /\ Server!ToSet(responses') = Server!ToSet(responses) \cup {m}
  BY <1>1, ServerQueue DEF Server!Say
<1> QED BY <1>2, ClientUntouched DEF ServerInv, ServerTypes

LEMMA ServerSideKeeps ==
  ASSUME Server!TypeServerAssumption, ServerInv, Server!FilesChange \/ Server!Answer \/ Server!Chatter \/ Server!Die
  PROVE  ServerInv'
<1>0. /\ current \in Server!Snapshots /\ alive \in BOOLEAN /\ responses \in Seq(Messages)
      /\ timeouts \in 0..MaxTimeouts /\ chatter \in 0..MaxChatter
      /\ MaxSnapshot \in Nat /\ MaxChatter \in Nat /\ MaxTimeouts \in Nat /\ Imports \in Nat \ {0}
  BY DEF ServerInv, ServerTypes, Server!TypeServerAssumption
<1>1. CASE Server!FilesChange
  <2>1. current' \in Server!Snapshots BY <1>0, <1>1 DEF Server!FilesChange, Server!Snapshots
  <2> QED BY <1>0, <1>1, <2>1, ClientUntouched DEF Server!FilesChange, Server!bounds
<1>2. CASE Server!Die
  BY <1>0, <1>2, ClientUntouched DEF Server!Die, Server!bounds
<1>3. CASE Server!Chatter
  <2>1. PICK is \in {"request", "notice"} : Server!Say(Server!Message(0, is, <<>>)) BY <1>3 DEF Server!Chatter
  <2> DEFINE m == Server!Message(0, is, <<>>)
  <2>2. m \in Messages BY <1>0 DEF Server!Message, Messages, Server!MaxId, Server!Values
  <2>3. MessageKept(m) BY DEF Server!Message, MessageKept
  <2>4. chatter' \in 0..MaxChatter BY <1>0, <1>3 DEF Server!Chatter
  <2> HIDE DEF m
  <2> QED BY <1>0, <1>3, <2>1, <2>2, <2>3, <2>4, SaidKeeps DEF Server!Chatter, Server!server, m
<1>4. CASE Server!Answer
  <2>1. PICK r \in pending :
          /\ pending' = pending \ {r}
          /\ \/ Server!Say(Server!Message(r.id, "error", <<>>))
             \/ CASE r.op \in {"snapshot", "refresh"} -> Server!Say(Server!Message(r.id, "ok", <<current>>))
                  [] r.op \in {"resolve", "retry"} /\ r.snapshot = current ->
                       Server!Say(Server!Message(r.id, "ok", <<r.spec, current>>))
                  [] r.op \in {"resolve", "retry"} /\ r.snapshot # current ->
                       Server!Say(Server!Message(r.id, "refused", <<>>))
                  [] OTHER -> Server!Say(Server!Message(r.id, "ok", <<>>))
    BY <1>4 DEF Server!Answer
  <2>2. r.id \in 0..Server!MaxId /\ r.op \in Server!Requests /\ r.spec \in Server!Specs /\ RequestKept(r)
    BY <1>0, <2>1 DEF ServerInv, ServerTypes, MessagesKept, Server!MaxId
  <2>3. PICK m : /\ Server!Say(m)
                 /\ \/ m = Server!Message(r.id, "error", <<>>)
                    \/ m = Server!Message(r.id, "refused", <<>>)
                    \/ r.op \in {"snapshot", "refresh"} /\ m = Server!Message(r.id, "ok", <<current>>)
                    \/ r.op \in {"resolve", "retry"} /\ m = Server!Message(r.id, "ok", <<r.spec, current>>)
                    \/ r.op \in {"initialize", "shutdown"} /\ m = Server!Message(r.id, "ok", <<>>)
    BY <2>1, <2>2 DEF Server!Requests
  <2>4. <<>> \in Server!Values /\ <<current>> \in Server!Values /\ <<r.spec, current>> \in Server!Values
    BY <1>0, <2>2 DEF Server!Values
  <2>5. m \in Messages BY <2>2, <2>3, <2>4 DEF Server!Message, Messages
  <2>6. MessageKept(m)
    <3>1. m.id = r.id BY <2>3 DEF Server!Message
    <3>2. m.is = "ok" /\ r.op \in {"resolve", "retry"} => m.value = <<r.spec, current>>
      BY <2>3 DEF Server!Message
    <3>3. m.is = "ok" /\ r.op \in {"snapshot", "refresh"} => m.value = <<current>>
      BY <2>3 DEF Server!Message
    <3>4. \A x : <<x, current>> \in {x} \X Server!Snapshots BY <1>0
    <3> QED BY <1>0, <2>2, <3>1, <3>2, <3>3, <3>4 DEF MessageKept, RequestKept
  <2> QED BY <1>0, <1>4, <2>1, <2>3, <2>5, <2>6, SaidKeeps DEF Server!Answer, Server!bounds
<1> QED BY <1>1, <1>2, <1>3, <1>4

\* The client asks.
LEMMA AskingKeeps ==
  ASSUME Server!TypeServerAssumption, ServerInv, Server!Send, alive, alive' = alive, waiting' = TRUE
  PROVE  ServerInv'
<1> USE DEF ServerInv
<1>1. /\ ~waiting /\ phase # "done" /\ nextId' = nextId + 1
      /\ pending' = pending \cup {[id |-> nextId, op |-> phase, snapshot |-> snapshot,
                                   spec |-> IF spec > Imports THEN Imports ELSE spec]}
      /\ UNCHANGED <<alive, phase, spec, snapshot, edges, lost, current, responses,
                     timeouts, chatter>>
  <2>1. CASE ~alive /\ Server!Fail BY <2>1
  <2> QED BY <2>1 DEF Server!Send, Server!bounds
<1>2. PICK q : q = [id |-> nextId, op |-> phase, snapshot |-> snapshot,
                    spec |-> IF spec > Imports THEN Imports ELSE spec]
  OBVIOUS
<1>3. nextId \in 1..Server!MaxId
  BY <1>1, BudgetNat DEF Server!MaxId, Server!TypeServerAssumption
<1>4. q \in [id : 1..Server!MaxId, op : Server!Requests, spec : Server!Specs, snapshot : Server!Snapshots]
      /\ (phase \in {"resolve", "retry"} => q.spec = spec)
  <2>1. Imports \in Nat \ {0} /\ spec \in 1..(Imports + 1) /\ phase \in Server!Requests /\ snapshot \in Server!Snapshots
    BY <1>1 DEF ServerTypes, Server!TypeServerAssumption
  <2>2. (IF spec > Imports THEN Imports ELSE spec) \in Server!Specs BY <2>1 DEF Server!Specs
  <2>3. phase \in {"resolve", "retry"} => spec \in 1..Imports BY DEF EdgesKept, Server!Specs
  <2> QED BY <1>2, <1>3, <2>1, <2>2, <2>3
<1>5. Budget' = Budget BY <1>1 DEF Budget
<1>6. ServerTypes'
  <2>1. nextId' <= Budget' + 1 /\ nextId' \in Nat \ {0}
    BY <1>1, <1>5, BudgetNat
  <2>2. pending' \subseteq [id : 1..Server!MaxId, op : Server!Requests, spec : Server!Specs, snapshot : Server!Snapshots]
    BY <1>1, <1>2, <1>4 DEF ServerTypes
  <2> QED BY <1>1, <2>1, <2>2 DEF ServerTypes
<1>7. MessagesKept'
  <2>1. nextId \in Nat BY DEF ServerTypes
  <2>2. RequestKept(q)' BY <1>1, <1>2, <1>4, <2>1 DEF RequestKept
  <2>3. ASSUME NEW r \in pending PROVE RequestKept(r)'
    <3>1. r.id \in Nat /\ r.id < nextId BY DEF MessagesKept, RequestKept, ServerTypes
    <3> QED BY <1>1, <2>1, <3>1 DEF RequestKept
  <2>4. ASSUME NEW m \in Server!ToSet(responses) PROVE MessageKept(m)'
    <3>1. MessageKept(m) BY DEF MessagesKept
    <3>2. m \in Messages
      <4>1. responses \in Seq(Messages) BY DEF ServerTypes
      <4> QED BY <4>1 DEF Server!ToSet
    <3>3. m.id \in Nat BY <3>2 DEF Messages
    <3> QED BY <1>1, <2>1, <3>1, <3>3 DEF MessageKept
  <2> QED BY <1>1, <1>2, <2>2, <2>3, <2>4 DEF MessagesKept
<1>8. EdgesKept' BY <1>1 DEF EdgesKept, Unresolved
<1> QED BY <1>6, <1>7, <1>8

\* A wait is over, or cannot begin: no request is under way any more.
WaitOver ==
    /\ waiting' = FALSE /\ UNCHANGED <<nextId, current>>
    /\ pending' \subseteq pending /\ alive' \in BOOLEAN
    /\ responses' \in Seq(Messages) /\ Server!ToSet(responses') \subseteq Server!ToSet(responses)
    /\ timeouts' \in 0..MaxTimeouts /\ chatter' \in 0..MaxChatter

LEMMA WaitOverKeeps ==
  ASSUME Server!TypeServerAssumption, ServerInv, WaitOver, EdgesKept',
         phase' \in Server!Requests \cup {"done"}, nextId' <= Budget',
         spec' \in 1..(Imports + 1), snapshot' \in Server!Snapshots, lost' \in 0..Imports,
         edges' \in [Server!Specs -> Server!Values \cup {None}], Budget' \in Nat
  PROVE  ServerInv'
<1> USE DEF ServerInv, WaitOver
<1>1. ServerTypes'
  <2>1. nextId' \in Nat \ {0} /\ ~waiting' /\ waiting' \in BOOLEAN /\ current' \in Server!Snapshots
    BY DEF ServerTypes
  <2>4. (IF waiting' THEN 1 ELSE 0) = 0 BY <2>1
  <2>2. nextId' <= Budget' + (IF waiting' THEN 1 ELSE 0)
    <3> HIDE DEF WaitOver
    <3> QED BY <2>4
  <2>3. pending' \subseteq [id : 1..Server!MaxId, op : Server!Requests, spec : Server!Specs, snapshot : Server!Snapshots]
    BY DEF ServerTypes
  <2> QED BY <2>1, <2>2, <2>3 DEF ServerTypes
<1>2. MessagesKept' BY DEF MessagesKept, MessageKept, RequestKept
<1> QED BY <1>1, <1>2

\* On to the next import, with an answer for this one or without.
LEMMA NextImportKeeps ==
  ASSUME Server!TypeServerAssumption, ServerInv, WaitOver, Server!NextSpec, phase \in {"resolve", "retry"},
         \/ lost' = lost + 1 /\ edges' = edges
         \/ lost' = lost /\ \E v \in {spec} \X Server!Snapshots : edges' = [edges EXCEPT ![spec] = v]
  PROVE  ServerInv'
<1> USE DEF ServerInv
<1>1. /\ Imports \in Nat \ {0} /\ spec \in 1..Imports /\ spec \in Server!Specs /\ spec' = spec + 1
      /\ lost \in Nat /\ edges \in [Server!Specs -> Server!Values \cup {None}] /\ snapshot' = snapshot
      /\ phase' = (IF spec = Imports THEN "shutdown" ELSE "resolve")
  BY DEF ServerTypes, Server!TypeServerAssumption, EdgesKept, Server!Specs, Server!NextSpec
<1>2. Server!Cardinality(Unresolved(edges)) = lost + (Imports - spec + 1) /\ edges[spec] = None
  BY <1>1 DEF EdgesKept
<1>3. edges' \in [Server!Specs -> Server!Values \cup {None}]
  <2>1. \A v \in {spec} \X Server!Snapshots : v \in Server!Values BY <1>1 DEF Server!Values
  <2>2. CASE edges' = edges BY <1>1, <2>2
  <2>3. ASSUME NEW v \in {spec} \X Server!Snapshots, edges' = [edges EXCEPT ![spec] = v]
        PROVE  edges' \in [Server!Specs -> Server!Values \cup {None}]
    BY <1>1, <2>1, <2>3
  <2> QED BY <2>2, <2>3
<1>4. Server!Cardinality(Unresolved(edges')) = lost' + (Imports - spec)
  <2>1. CASE lost' = lost + 1 /\ edges' = edges BY <1>1, <1>2, <2>1 DEF Unresolved
  <2>2. CASE lost' = lost /\ \E v \in {spec} \X Server!Snapshots : edges' = [edges EXCEPT ![spec] = v]
    <3>1. PICK v \in {spec} \X Server!Snapshots : edges' = [edges EXCEPT ![spec] = v] BY <2>2
    <3>2. v # None BY <1>1 DEF Server!TypeServerAssumption, Server!Snapshots
    <3>3. Unresolved(edges') = Unresolved(edges) \ {spec} /\ spec \in Unresolved(edges) BY <1>1, <1>2, <3>1, <3>2 DEF Unresolved
    <3>4. Server!Cardinality(Unresolved(edges')) = Server!Cardinality(Unresolved(edges)) - 1
      <4>1. Server!IsFiniteSet(Unresolved(edges)) BY <1>1, UnresolvedCounted
      <4> QED BY <3>3, <4>1, FS_RemoveElement, SameServerCounting
    <3> QED BY <1>1, <1>2, <2>2, <3>4
  <2> QED BY <2>1, <2>2
<1>5. \A i \in Server!Specs : i # spec => edges'[i] = edges[i] BY <1>1
<1>6. edges'[spec] # None => edges'[spec] \in {spec} \X Server!Snapshots BY <1>1, <1>2
<1>7. lost' \in 0..Imports
  <2>1. lost' \in Nat /\ Imports \in Nat /\ spec \in Nat /\ spec <= Imports BY <1>1
  <2>2. Server!Cardinality(Unresolved(edges')) <= Imports BY <1>3, UnresolvedCounted
  <2>3. lost' + (Imports - spec) <= Imports BY <1>4, <2>2
  <2>4. \A x, y, z \in Nat : z <= y /\ x + (y - z) <= y => x \in 0..y OBVIOUS
  <2> QED BY <2>1, <2>3, <2>4
<1>8. EdgesKept'
  <2>1. \A i \in Server!Specs : edges'[i] # None => edges'[i] \in {i} \X Server!Snapshots
    BY <1>5, <1>6 DEF EdgesKept
  <2>2. \A i \in (spec + 1)..Imports : edges'[i] = None
    <3> SUFFICES ASSUME NEW i \in (spec + 1)..Imports PROVE edges'[i] = None OBVIOUS
    <3>1. i \in Server!Specs /\ i # spec /\ i \in spec..Imports BY <1>1 DEF Server!Specs
    <3> QED BY <1>1, <1>5, <3>1 DEF EdgesKept
  <2>3. CASE spec = Imports
    <3>1. Server!Cardinality(Unresolved(edges')) = lost'
      <4>1. lost' \in Nat /\ Imports \in Nat /\ Imports - spec = 0 BY <1>1, <1>7, <2>3
      <4> QED BY <1>4, <4>1
    <3> QED BY <1>1, <2>1, <2>3, <3>1 DEF EdgesKept
  <2>4. CASE spec # Imports
    <3>1. Server!Cardinality(Unresolved(edges')) = lost' + (Imports - spec' + 1) BY <1>1, <1>4, <1>7
    <3>2. spec' \in Server!Specs BY <1>1, <2>4 DEF Server!Specs
    <3> QED BY <1>1, <2>1, <2>2, <2>4, <3>1, <3>2 DEF EdgesKept
  <2> QED BY <2>3, <2>4
<1>9. nextId' <= Budget' /\ Budget' \in Nat
  <2>1. nextId' <= Budget + 1 /\ nextId' \in Nat BY BudgetNat DEF WaitOver
  <2>2. Budget <= 3 * spec + 2 /\ Budget \in Nat BY <1>1, BudgetNat DEF Budget
  <2>3. CASE spec = Imports
    <3>1. phase' = "shutdown" BY <1>1, <2>3
    <3>2. Budget' = 3 * Imports + 3 BY <3>1 DEF Budget
    <3>3. Budget' \in Nat BY <1>1, <3>2
    <3>4. nextId' <= 3 * Imports + 3 BY <1>1, <2>1, <2>2, <2>3
    <3> QED BY <3>2, <3>3, <3>4
  <2>4. CASE spec # Imports
    <3>1. phase' = "resolve" BY <1>1, <2>4
    <3>2. Budget' = 3 * (spec + 1) BY <1>1, <3>1 DEF Budget
    <3>3. nextId' <= 3 * (spec + 1) /\ 3 * (spec + 1) \in Nat BY <1>1, <2>1, <2>2
    <3> QED BY <3>2, <3>3
  <2> QED BY <2>3, <2>4
<1>10. phase' \in Server!Requests \cup {"done"} /\ spec' \in 1..(Imports + 1) /\ snapshot' \in Server!Snapshots
  BY <1>1 DEF Server!Requests, ServerTypes
<1> QED BY <1>3, <1>7, <1>8, <1>9, <1>10, WaitOverKeeps

\* Another phase of the same import, or of none.
LEMMA PhaseKeeps ==
  ASSUME Server!TypeServerAssumption, ServerInv, WaitOver, snapshot' \in Server!Snapshots,
         UNCHANGED <<spec, edges, lost>>,
         <<phase, phase'>> \in {<<"initialize", "snapshot">>, <<"snapshot", "resolve">>,
                               <<"resolve", "refresh">>, <<"refresh", "retry">>,
                               <<"shutdown", "done">>}
  PROVE  ServerInv'
<1> USE DEF ServerInv
<1>1. Imports \in Nat \ {0} /\ spec \in Nat /\ phase' \in Server!Requests \cup {"done"}
  BY DEF ServerTypes, Server!TypeServerAssumption, Server!Requests
<1>2. Unresolved(edges') = Unresolved(edges) BY DEF Unresolved
<1>3. phase \in {"initialize", "snapshot"} => spec = 1 BY DEF EdgesKept
<1>4. nextId' <= Budget' /\ Budget' \in Nat
  <2>1. nextId' <= Budget + 1 /\ nextId' \in Nat BY BudgetNat DEF WaitOver
  <2>2. Budget' = Budget + 1 BY <1>1, <1>3 DEF Budget
  <2>3. Budget \in Nat BY BudgetNat
  <2> QED BY <2>1, <2>2, <2>3
<1>5. EdgesKept'
  <2>1. CASE phase = "initialize" /\ phase' = "snapshot" BY <2>1 DEF EdgesKept
  <2>2. CASE phase = "snapshot" /\ phase' = "resolve"
    <3>1. edges = Server!Nothing /\ spec = 1 /\ lost = 0 BY <2>2 DEF EdgesKept
    <3>2. Server!Cardinality(Unresolved(edges)) = Imports BY <3>1, UnresolvedCounted DEF ServerTypes, Server!Nothing
    <3>3. 1 \in Server!Specs /\ \A i \in 1..Imports : edges[i] = None
      BY <1>1, <3>1 DEF Server!Specs, Server!Nothing
    <3>4. Server!Cardinality(Unresolved(edges')) = lost' + (Imports - spec' + 1) BY <1>1, <1>2, <3>1, <3>2
    <3> QED BY <2>2, <3>1, <3>3, <3>4 DEF EdgesKept
  <2>3. CASE phase \in {"resolve", "refresh"} /\ phase' \in {"refresh", "retry"}
    BY <1>2, <2>3 DEF EdgesKept
  <2>4. CASE phase = "shutdown" /\ phase' = "done" BY <1>2, <2>4 DEF EdgesKept
  <2> QED BY <2>1, <2>2, <2>3, <2>4
<1> QED BY <1>1, <1>4, <1>5, WaitOverKeeps DEF ServerTypes

\* An exception costs the import or everything.
LEMMA FailKeeps ==
  ASSUME Server!TypeServerAssumption, ServerInv, Server!Fail, phase # "done", UNCHANGED current,
         responses' \in Seq(Messages), Server!ToSet(responses') \subseteq Server!ToSet(responses),
         timeouts' \in 0..MaxTimeouts, chatter' \in 0..MaxChatter
  PROVE  ServerInv'
<1> USE DEF ServerInv
<1>1. alive \in BOOLEAN /\ snapshot \in Server!Snapshots BY DEF ServerTypes
<1>2. CASE phase = "retry" /\ Server!GiveUp
  <2>1. WaitOver BY <1>1, <1>2 DEF WaitOver, Server!GiveUp, Server!NextSpec
  <2> QED BY <1>2, <2>1, NextImportKeeps DEF Server!GiveUp
<1>3. CASE /\ phase = "shutdown" /\ phase' = "done" /\ waiting' = FALSE
           /\ alive' = FALSE /\ pending' = {}
           /\ UNCHANGED <<nextId, spec, snapshot, edges, lost>>
  <2>1. WaitOver BY <1>3 DEF WaitOver
  <2> QED BY <1>1, <1>3, <2>1, PhaseKeeps
<1>4. CASE /\ phase \notin {"retry", "shutdown"} /\ phase' = "shutdown" /\ waiting' = FALSE
           /\ edges' = Server!Nothing
           /\ UNCHANGED <<nextId, spec, snapshot, lost, alive, pending>>
  <2>1. WaitOver BY <1>1, <1>4 DEF WaitOver
  <2>2. edges' \in [Server!Specs -> Server!Values \cup {None}] /\ \A i \in Server!Specs : edges'[i] = None
    BY <1>4 DEF Server!Nothing
  <2>3. EdgesKept' 
    <3>1. edges' = Server!Nothing' BY <1>4 DEF Server!Nothing
    <3> QED BY <1>4, <2>2, <3>1 DEF EdgesKept
  <2>4. nextId' <= Budget' /\ Budget' \in Nat
    <3>1. Budget' = 3 * Imports + 3 /\ Imports \in Nat /\ spec \in Nat
      BY <1>4 DEF Budget, Server!TypeServerAssumption, ServerTypes
    <3>2. phase \in {"initialize", "snapshot", "resolve", "refresh"}
          /\ (phase \in {"resolve", "refresh"} => spec <= Imports) /\ Imports >= 1
      BY <1>4 DEF ServerTypes, Server!Requests, EdgesKept, Server!Specs, Server!TypeServerAssumption
    <3>3. Budget <= 3 * Imports + 2 BY <3>1, <3>2 DEF Budget
    <3>4. nextId' <= Budget + 1 /\ nextId' \in Nat /\ Budget \in Nat BY <1>4, BudgetNat
    <3> QED BY <3>1, <3>3, <3>4
  <2>5. phase' \in Server!Requests \cup {"done"} BY <1>4 DEF Server!Requests
  <2> QED BY <1>1, <1>4, <2>1, <2>2, <2>3, <2>4, <2>5, WaitOverKeeps DEF ServerTypes
<1> QED BY <1>2, <1>3, <1>4 DEF Server!Fail

LEMMA ServerSendKeeps ==
  ASSUME Server!TypeServerAssumption, ServerInv, Server!Send
  PROVE  ServerInv'
<1>1. CASE ~alive /\ Server!Fail
  <2>1. /\ phase # "done" /\ UNCHANGED <<current, responses, timeouts, chatter>>
        /\ responses \in Seq(Messages) /\ timeouts \in 0..MaxTimeouts /\ chatter \in 0..MaxChatter
    BY DEF Server!Send, Server!bounds, ServerInv, ServerTypes
  <2> QED BY <1>1, <2>1, FailKeeps
<1>2. CASE alive /\ alive' = alive /\ waiting' = TRUE BY <1>2, AskingKeeps
<1> QED BY <1>1, <1>2 DEF Server!Send

LEMMA ServerReceiveKeeps ==
  ASSUME Server!TypeServerAssumption, ServerInv, Server!Receive
  PROVE  ServerInv'
<1> USE DEF ServerInv
<1>1. /\ waiting /\ responses # <<>> /\ responses' = Tail(responses) /\ responses \in Seq(Messages)
      /\ UNCHANGED <<current, timeouts, chatter>> /\ phase # "done"
      /\ timeouts \in 0..MaxTimeouts /\ chatter \in 0..MaxChatter /\ current \in Server!Snapshots
      /\ alive \in BOOLEAN /\ snapshot \in Server!Snapshots /\ nextId \in Nat /\ phase \in Server!Requests
  BY DEF Server!Receive, Server!bounds, ServerTypes
<1>2. PICK m \in Server!ToSet(responses) :
         /\ m \in Messages
         /\ \/ Server!Answers(m) /\ Server!Take(m)
            \/ ~alive /\ m.is = "request" /\ Server!Fail
            \/ UNCHANGED <<Server!client, alive, pending>>
  BY <1>1, ServerQueue DEF Server!Receive
<1>3. responses' \in Seq(Messages) /\ Server!ToSet(responses') \subseteq Server!ToSet(responses)
  BY <1>1, ServerQueue
<1>4. CASE UNCHANGED <<Server!client, alive, pending>>
  BY <1>1, <1>3, <1>4, ClientUntouched
<1>5. CASE Server!Fail BY <1>1, <1>3, <1>5, FailKeeps
<1>6. CASE Server!Answers(m) /\ Server!Take(m)
  <2>1. m.is \in {"ok", "refused", "error"} /\ m.id = nextId - 1 /\ MessageKept(m)
    BY <1>6 DEF Server!Answers, MessagesKept
  <2>2. CASE Server!Fail BY <1>5, <2>2
  <2>3. CASE /\ m.is = "ok" /\ phase \in {"resolve", "retry"}
             /\ Server!NextSpec /\ edges' = [edges EXCEPT ![spec] = m.value] /\ UNCHANGED <<lost, alive, pending>>
    <3>1. m.value \in {spec} \X Server!Snapshots BY <1>1, <2>1, <2>3 DEF MessageKept
    <3>2. WaitOver BY <1>1, <1>3, <2>3 DEF WaitOver, Server!NextSpec
    <3> QED BY <2>3, <3>1, <3>2, NextImportKeeps
  <2>4. CASE /\ m.is = "ok" /\ phase = "initialize"
             /\ phase' = "snapshot" /\ waiting' = FALSE
             /\ UNCHANGED <<nextId, spec, snapshot, edges, lost, alive, pending>>
    <3>1. WaitOver BY <1>1, <1>3, <2>4 DEF WaitOver
    <3> QED BY <1>1, <2>4, <3>1, PhaseKeeps
  <2>5. CASE /\ m.is = "ok" /\ phase \in {"snapshot", "refresh"}
             /\ snapshot' = m.value[1] /\ waiting' = FALSE
             /\ phase' = IF phase = "snapshot" THEN "resolve" ELSE "retry"
             /\ UNCHANGED <<nextId, spec, edges, lost, alive, pending>>
    <3>1. snapshot' \in Server!Snapshots
      <4>1. PICK n \in Server!Snapshots : m.value = <<n>> BY <1>1, <2>1, <2>5 DEF MessageKept
      <4> QED BY <2>5, <4>1
    <3>2. WaitOver BY <1>1, <1>3, <2>5 DEF WaitOver
    <3> QED BY <1>1, <2>5, <3>1, <3>2, PhaseKeeps
  <2>6. CASE /\ m.is = "refused" /\ phase = "resolve"
             /\ phase' = "refresh" /\ waiting' = FALSE
             /\ UNCHANGED <<nextId, spec, snapshot, edges, lost, alive, pending>>
    <3>1. WaitOver BY <1>1, <1>3, <2>6 DEF WaitOver
    <3> QED BY <1>1, <2>6, <3>1, PhaseKeeps
  <2>7. CASE m.is = "error" /\ phase = "resolve" /\ Server!GiveUp
    <3>1. WaitOver BY <1>1, <1>3, <2>7 DEF WaitOver, Server!GiveUp, Server!NextSpec
    <3> QED BY <2>7, <3>1, NextImportKeeps DEF Server!GiveUp
  <2> QED BY <1>6, <2>2, <2>3, <2>4, <2>5, <2>6, <2>7 DEF Server!Take
<1> QED BY <1>2, <1>4, <1>5, <1>6

LEMMA WaitEndsKeeps ==
  ASSUME Server!TypeServerAssumption, ServerInv, Server!Timeout
  PROVE  ServerInv'
<1>1. /\ waiting /\ Server!Fail /\ phase # "done" /\ UNCHANGED <<current, responses, chatter>>
      /\ responses \in Seq(Messages) /\ chatter \in 0..MaxChatter
  BY DEF Server!Timeout, ServerInv, ServerTypes
<1>2. timeouts' \in 0..MaxTimeouts
  <2>1. timeouts \in 0..MaxTimeouts /\ MaxTimeouts \in Nat
    BY DEF ServerInv, ServerTypes, Server!TypeServerAssumption
  <2> QED BY <2>1 DEF Server!Timeout
<1> QED BY <1>1, <1>2, FailKeeps

LEMMA ServerStep == Server!TypeServerAssumption /\ ServerInv /\ [Server!Next]_Server!vars => ServerInv'
<1> SUFFICES ASSUME Server!TypeServerAssumption, ServerInv, [Server!Next]_Server!vars PROVE ServerInv' OBVIOUS
<1>1. CASE UNCHANGED Server!vars
  <2>1. UNCHANGED <<Server!client, current, alive, pending, responses, timeouts, chatter>>
    BY <1>1 DEF Server!vars, Server!server, Server!bounds
  <2> QED BY <2>1, ClientUntouched DEF ServerInv, ServerTypes
<1>2. CASE Server!FilesChange \/ Server!Answer \/ Server!Chatter \/ Server!Die BY <1>2, ServerSideKeeps
<1> QED BY <1>1, <1>2, ServerSendKeeps, ServerReceiveKeeps, WaitEndsKeeps DEF Server!Next

LEMMA ServerInvTypes == Server!TypeServerAssumption /\ ServerInv => Server!TypeOK /\ Server!EdgesAreAnswers
<1> SUFFICES ASSUME Server!TypeServerAssumption, ServerInv PROVE Server!TypeOK /\ Server!EdgesAreAnswers OBVIOUS
<1>1. nextId \in 1..(Server!MaxId + 1)
  <2>1. CASE phase = "done"
    <3>1. Budget = 3 * Imports + 4 BY <2>1 DEF Budget
    <3>2. nextId <= Budget BY <2>1, BudgetNat DEF ServerInv, ServerTypes
    <3> QED BY <3>1, <3>2, BudgetNat DEF Server!MaxId, Server!TypeServerAssumption
  <2>2. CASE phase # "done"
    <3>1. nextId <= Budget + 1
      <4>1. waiting \in BOOLEAN BY DEF ServerInv, ServerTypes
      <4> QED BY <4>1, BudgetNat
    <3> QED BY <2>2, <3>1, BudgetNat DEF Server!MaxId, Server!TypeServerAssumption
  <2> QED BY <2>1, <2>2
<1>2. \A m \in Server!ToSet(responses) : m \in Messages
  <2>1. responses \in Seq(Messages) BY DEF ServerInv, ServerTypes
  <2> QED BY <2>1 DEF Server!ToSet
<1>3. Server!TypeOK BY <1>1, <1>2 DEF Server!TypeOK, ServerInv, ServerTypes, Messages
<1>4. Server!EdgesAreAnswers
  <2>1. Unresolved(edges) = {i \in Server!Specs : edges[i] = None} BY DEF Unresolved
  <2> QED BY <2>1 DEF Server!EdgesAreAnswers, ServerInv, EdgesKept
<1> QED BY <1>3, <1>4

(* At every step a message with the id that is waited for answers the request   *)
(* that is waited for, and what is kept or given up of the imports adds up.     *)
THEOREM ServerInvariant == Server!TypeServerAssumption => (Server!Spec => []ServerInv)
<1> SUFFICES ASSUME Server!TypeServerAssumption PROVE Server!Spec => []ServerInv OBVIOUS
<1>1. Server!Init => ServerInv BY ServerInit
<1>2. ServerInv /\ [Server!Next]_Server!vars => ServerInv' BY ServerStep
<1> QED BY <1>1, <1>2, PTL DEF Server!Spec

(***************************************************************************)
(* The sum of the parts                                                    *)
(***************************************************************************)
\* What the sum does is, for each part, what the part does by itself.
LEMMA EvidenceOfSum == PartSpec => Evidence!Spec
<1>1. PartInit => Evidence!Init
    BY DEF PartInit
<1>2. [PartNext]_PartVars => [Evidence!Next]_Evidence!vars
    BY DEF PartNext, PartVars, evidenceVars, Evidence!vars, Evidence!disk, Evidence!local
<1> QED BY <1>1, <1>2, PTL DEF PartSpec, Evidence!Spec

(* Evidence that takes part in answers was collected from the source of the  *)
(* map's generation and from the manifests as they are.                      *)
THEOREM EvidenceIsFresh == PartSpec => []EvidenceFreshUnlessRaced
<1>1. Evidence!EvidenceFreshUnlessRaced => EvidenceFreshUnlessRaced
    BY DEF EvidenceFreshUnlessRaced
<1> QED BY <1>1, PartAssumption, EvidenceOfSum, FreshEvidenceIsTrue, PTL

LEMMA ReleaseOfSum == PartSpec => Release!Spec
<1>1. PartInit => Release!Init
    BY DEF PartInit
<1>2. [PartNext]_PartVars => [Release!Next]_Release!vars
    BY DEF PartNext, PartVars, releaseVars, Release!vars, Release!files, Release!history
<1> QED BY <1>1, <1>2, PTL DEF PartSpec, Release!Spec

(* After a check that has left its time, no command that begins within the   *)
(* interval asks again, as long as neither of the two had company.           *)
THEOREM ChecksOncePerInterval == PartSpec => []OncePerInterval
<1>1. ReleaseInv => OncePerInterval
    BY DEF ReleaseInv, Due, OncePerInterval, Release!OncePerInterval, Release!TypeOK
<1> QED BY <1>1, PartAssumption, ReleaseOfSum, ReleaseInvariant, PTL

LEMMA RegistryOfSum == PartSpec => Registry!Spec
<1>1. PartInit => Registry!Init
    BY DEF PartInit
<1>2. [PartNext]_PartVars => [Registry!Next]_Registry!vars
    BY DEF PartNext, PartVars, registryVars, Registry!vars, Registry!daemon, Registry!registry,
           Registry!locals, Registry!facade
<1> QED BY <1>1, <1>2, PTL DEF PartSpec, Registry!Spec

(* The budget the daemon keeps is the size of what is registered, within all  *)
(* its limits, and what a facade holds is registered as long as nobody has    *)
(* dropped a handle of an earlier daemon at this one.                         *)
THEOREM BooksBalance == PartSpec => []Balanced
<1>1. RegInv => Balanced
    BY DEF RegInv, BooksKept, HandlesKept, Balanced, Registry!Balanced
<1> QED BY <1>1, PartAssumption, RegistryOfSum, RegistryInvariant, PTL

(* While nobody crashes and every answer of the first daemon arrives, the      *)
(* references are those the facades hold and the uploads those under way.      *)
THEOREM NothingIsLeaked == PartSpec => []NothingLeaks
<1>1. RegInv => NothingLeaks
    BY DEF RegInv, NothingLeaks
<1> QED BY <1>1, PartAssumption, RegistryOfSum, RegistryInvariant, PTL

(* A daemon that is not restarted and refuses nothing for want of room leaves  *)
(* no call of an auto facade without an answer.                                *)
THEOREM AutoIsAnswered == PartSpec => []AutoAnswersOneDaemon
<1>1. RegInv => AutoAnswersOneDaemon
    BY DEF RegInv, AutoAnswersOneDaemon
<1> QED BY <1>1, PartAssumption, RegistryOfSum, RegistryInvariant, PTL

LEMMA ServerOfSum == PartSpec => Server!Spec
<1>1. PartInit => Server!Init
    BY DEF PartInit
<1>2. [PartNext]_PartVars => [Server!Next]_Server!vars
    BY DEF PartNext, PartVars, serverVars, Server!vars, Server!server, Server!client, Server!bounds
<1> QED BY <1>1, <1>2, PTL DEF PartSpec, Server!Spec

(* What is kept for an import is the server's answer for this import, and a    *)
(* collection returns what it has of every import, but for those given up, or  *)
(* nothing.                                                                    *)
THEOREM EdgesAreTheirAnswers == PartSpec => []EdgesAreAnswers
<1>1. Server!TypeServerAssumption /\ ServerInv => EdgesAreAnswers
    BY ServerInvTypes DEF EdgesAreAnswers
<1> QED BY <1>1, PartAssumption, ServerOfSum, ServerInvariant, PTL

LEMMA MapOfSum == PartSpec => Spec
<1>1. PartInit => Init
    BY DEF PartInit
<1>2. [PartNext]_PartVars => [Next]_vars
    BY DEF PartNext, PartVars, vars
<1> QED BY <1>1, <1>2, PTL DEF PartSpec, Spec

PartNamed == part \in {"map", "evidence", "server", "release", "registry"}

(* The variables of every part have their types: messages have their requests *)
(* and numbers, budgets their limits, and a publication its writer.           *)
THEOREM PartTypesCorrect == PartSpec => []PartTypes
<1>1. /\ PartNamed /\ TypeOK /\ Evidence!TypeOK /\ Server!TypeOK /\ Release!TypeOK
      /\ Registry!TypeOK
      => PartTypes
    BY DEF PartTypes, PartNamed
<1>2. ReleaseInv => Release!TypeOK
    BY DEF ReleaseInv
<1>3. RegInv => Registry!TypeOK
    BY DEF RegInv
<1>4. Server!TypeServerAssumption /\ ServerInv => Server!TypeOK
    BY ServerInvTypes
<1>5. PartInit => PartNamed
    BY DEF PartInit, PartNamed
<1>6. PartNamed /\ [PartNext]_PartVars => PartNamed'
    BY DEF PartNamed, PartNext, PartVars
<1> QED BY <1>1, <1>2, <1>3, <1>4, <1>5, <1>6, PartAssumption, MapOfSum, EvidenceOfSum, ReleaseOfSum,
           RegistryOfSum, ServerOfSum, MapTypesCorrect, EvidenceInvariant, ReleaseInvariant,
           RegistryInvariant, ServerInvariant, PTL DEF PartSpec

===============================================================================
