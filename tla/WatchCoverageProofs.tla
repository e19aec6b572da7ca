-------------------------- MODULE WatchCoverageProofs --------------------------
(***************************************************************************)
(* The watcher finds every directory again, and every change but those in  *)
(* the gap: for every initial tree, and whatever the bounds.               *)
(*                                                                         *)
(* First facts about paths, then the types, then the invariant CovInv:     *)
(* every directory has its watch for good, or the reader will come to it,  *)
(* by an event that is pending or by a call it still has to make; and what *)
(* it will forget, an event that is pending takes away.  Then a lemma for  *)
(* every step.                                                             *)
(***************************************************************************)
EXTENDS WatchCoverage, SequenceTheorems, FiniteSetTheorems, WellFoundedInduction, TLAPS

(***************************************************************************)
(* Paths                                                                   *)
(***************************************************************************)
NSeq == Seq(Names)

\* A path is a sequence of names.
LEMMA PathsAreSeqs == Paths \subseteq NSeq /\ <<>> \in NSeq
    BY SeqDef, EmptySeq DEF Paths, NSeq

\* A sequence of names by its entries.
LEMMA SeqLen == \A p \in NSeq : Len(p) \in Nat /\ p \in [1..Len(p) -> Names] /\ DOMAIN p = 1..Len(p)
    BY LenProperties DEF NSeq

\* A path is a sequence of names that is not too long.
LEMMA PathsByLen ==
    ASSUME MaxDepth \in Nat, NEW p \in NSeq
    PROVE  p \in Paths <=> Len(p) <= MaxDepth
<1>1. Len(p) \in Nat /\ p \in [1..Len(p) -> Names]
    BY SeqLen
<1>2. CASE p \in Paths
    <2>1. PICK n \in 0..MaxDepth : p \in [1..n -> Names]
        BY <1>2 DEF Paths
    <2>2. Len(p) = n
        BY <2>1
    <2> QED BY <2>1, <2>2, <1>2
<1>3. CASE Len(p) <= MaxDepth
    <2>1. Len(p) \in 0..MaxDepth
        BY <1>1, <1>3
    <2> QED BY <1>1, <1>3, <2>1 DEF Paths
<1> QED BY <1>2, <1>3

\* What is above: the entries agree.
LEMMA BelowByEntries ==
    ASSUME NEW p \in NSeq, NEW q \in NSeq
    PROVE  Below(p, q) <=> Len(p) <= Len(q) /\ \A i \in 1..Len(p) : p[i] = q[i]
<1>1. CASE Len(p) <= Len(q)
    <2>1. Len(p) \in Nat /\ Len(q) \in Nat /\ \A i \in 1..Len(q) : q[i] \in Names
        BY SeqLen
    <2>2. /\ SubSeq(q, 1, Len(p)) \in NSeq
          /\ Len(SubSeq(q, 1, Len(p))) = Len(p)
          /\ \A i \in 1..Len(p) : SubSeq(q, 1, Len(p))[i] = q[i]
        BY <1>1, <2>1, SubSeqProperties DEF NSeq
    <2>3. SubSeq(q, 1, Len(p)) = p <=> \A i \in 1..Len(p) : p[i] = q[i]
        BY <2>2, SeqEqual DEF NSeq
    <2> QED BY <1>1, <2>3 DEF Below
<1>2. CASE ~(Len(p) <= Len(q))
    BY <1>2 DEF Below
<1> QED BY <1>1, <1>2

\* Below is a partial order, total on what is above one path, with the root on top.
LEMMA BelowOrder ==
    /\ \A p \in NSeq : Below(p, p)
    /\ \A p, q, r \in NSeq : Below(p, q) /\ Below(q, r) => Below(p, r)
    /\ \A p, q \in NSeq : Below(p, q) /\ Below(q, p) => p = q
    /\ \A p, q, r \in NSeq : Below(p, r) /\ Below(q, r) => Below(p, q) \/ Below(q, p)
    /\ \A p \in NSeq : Below(<<>>, p) /\ (Below(p, <<>>) => p = <<>>)
<1>1. \A p \in NSeq : Len(p) \in Nat
    BY SeqLen
<1>2. \A p \in NSeq : Below(p, p)
    BY <1>1, BelowByEntries
<1>3. ASSUME NEW p \in NSeq, NEW q \in NSeq, NEW r \in NSeq, Below(p, q), Below(q, r)
      PROVE  Below(p, r)
    BY <1>1, <1>3, BelowByEntries
<1>4. ASSUME NEW p \in NSeq, NEW q \in NSeq, Below(p, q), Below(q, p) PROVE p = q
    <2>1. Len(p) = Len(q) /\ \A i \in 1..Len(p) : p[i] = q[i]
        BY <1>1, <1>4, BelowByEntries
    <2> QED BY <2>1, SeqEqual DEF NSeq
<1>5. ASSUME NEW p \in NSeq, NEW q \in NSeq, NEW r \in NSeq, Below(p, r), Below(q, r)
      PROVE  Below(p, q) \/ Below(q, p)
    BY <1>1, <1>5, BelowByEntries
<1>6. ASSUME NEW p \in NSeq PROVE Below(<<>>, p) /\ (Below(p, <<>>) => p = <<>>)
    <2>1. <<>> \in NSeq /\ Len(<<>>) = 0
        BY PathsAreSeqs, EmptySeq
    <2>2. Below(<<>>, p)
        BY <1>1, <2>1, BelowByEntries
    <2> QED BY <1>4, <2>1, <2>2
<1> QED BY <1>2, <1>3, <1>4, <1>5, <1>6

\* A path other than the root is its parent and a name.
LEMMA FrontAndLast ==
    ASSUME NEW p \in NSeq, p # <<>>
    PROVE  /\ Front(p) \in NSeq /\ Len(Front(p)) = Len(p) - 1
           /\ Last(p) \in Names /\ Append(Front(p), Last(p)) = p
           /\ Below(Front(p), p) /\ ~Below(p, Front(p))
           /\ \A x \in NSeq : Below(x, p) => x = p \/ Below(x, Front(p))
<1>1. Len(p) \in Nat \ {0} /\ \A i \in 1..Len(p) : p[i] \in Names
    BY SeqLen, EmptySeq DEF NSeq
<1>2. /\ Front(p) \in NSeq /\ Len(Front(p)) = Len(p) - 1
      /\ \A i \in 1..Len(p)-1 : Front(p)[i] = p[i]
    <2> DEFINE n == Len(p) - 1
               s == SubSeq(p, 1, n)
    <2>1. n \in Nat /\ 1 \in Int /\ n \in Int /\ \A i \in 1..n : p[i] \in Names
        BY <1>1
    <2>2. /\ s \in Seq(Names) /\ Len(s) = IF 1 <= n THEN n - 1 + 1 ELSE 0
          /\ \A i \in 1..(n - 1 + 1) : s[i] = p[1 + i - 1]
        <3> HIDE DEF n
        <3> QED BY ONLY <2>1, SubSeqProperties
    <2>3. Front(p) = s
        BY DEF Front
    <2> HIDE DEF s, n
    <2>4. Len(s) = n
        BY <2>1, <2>2
    <2>5. ASSUME NEW i \in 1..n PROVE s[i] = p[i]
        <3>1. i \in 1..(n - 1 + 1) /\ 1 + i - 1 = i
            BY <2>1, <2>5
        <3> QED BY ONLY <2>2, <3>1
    <2> QED BY <2>2, <2>3, <2>4, <2>5 DEF NSeq, n
<1>3. Last(p) \in Names
    BY <1>1 DEF Last
<1>4. Append(Front(p), Last(p)) = p
    <2>1. /\ Append(Front(p), Last(p)) \in Seq(Names)
          /\ Len(Append(Front(p), Last(p))) = Len(p)
          /\ \A i \in 1..Len(p)-1 : Append(Front(p), Last(p))[i] = Front(p)[i]
          /\ Append(Front(p), Last(p))[Len(p)] = Last(p)
        BY <1>1, <1>2, <1>3, AppendProperties DEF NSeq
    <2>2. \A i \in 1..Len(p) : Append(Front(p), Last(p))[i] = p[i]
        BY <1>1, <1>2, <2>1 DEF Last
    <2> QED BY <2>1, <2>2, SeqEqual DEF NSeq
<1>5. Below(Front(p), p) /\ ~Below(p, Front(p))
    BY <1>1, <1>2, BelowByEntries
<1>6. ASSUME NEW x \in NSeq, Below(x, p) PROVE x = p \/ Below(x, Front(p))
    <2>1. Len(x) \in Nat /\ Len(x) <= Len(p) /\ \A i \in 1..Len(x) : x[i] = p[i]
        BY <1>6, SeqLen, BelowByEntries
    <2>2. CASE Len(x) = Len(p)
        BY <2>1, <2>2, SeqEqual DEF NSeq
    <2>3. CASE Len(x) <= Len(p) - 1
        BY <1>1, <1>2, <2>1, <2>3, BelowByEntries
    <2> QED BY <1>1, <2>1, <2>2, <2>3
<1> QED BY <1>2, <1>3, <1>4, <1>5, <1>6

\* A name in a directory is directly below it.
LEMMA AppendBelow ==
    ASSUME NEW x \in NSeq, NEW m \in Names
    PROVE  /\ Append(x, m) \in NSeq /\ Append(x, m) # <<>>
           /\ Front(Append(x, m)) = x /\ Last(Append(x, m)) = m
           /\ Below(x, Append(x, m)) /\ ~Below(Append(x, m), x)
           /\ \A y \in NSeq : Below(y, Append(x, m)) => y = Append(x, m) \/ Below(y, x)
<1> DEFINE p == Append(x, m)
<1>1. /\ p \in NSeq /\ p # <<>> /\ Len(p) = Len(x) + 1 /\ Len(x) \in Nat
      /\ \A i \in 1..Len(x) : p[i] = x[i]
      /\ p[Len(x) + 1] = m
    BY AppendProperties, SeqLen DEF NSeq
<1> HIDE DEF p
<1>2. /\ Front(p) \in NSeq /\ Len(Front(p)) = Len(x)
      /\ Below(Front(p), p) /\ ~Below(p, Front(p))
      /\ \A y \in NSeq : Below(y, p) => y = p \/ Below(y, Front(p))
    BY <1>1, FrontAndLast
<1>3. \A i \in 1..Len(x) : Front(p)[i] = p[i]
    BY <1>1, <1>2, BelowByEntries
<1>4. Front(p) = x
    BY <1>1, <1>2, <1>3, SeqEqual DEF NSeq
<1>5. Last(p) = m
    BY <1>1 DEF Last
<1> QED BY <1>1, <1>2, <1>4, <1>5 DEF p

\* The path in p that has the place of r, in q.
Shift(p, q, r) == p \o SubSeq(r, Len(q) + 1, Len(r))

\* What is r under q is Shift(p, q, r) under p: its entries,
LEMMA ShiftByEntries ==
    ASSUME NEW p \in NSeq, NEW q \in NSeq, NEW r \in NSeq, Below(q, r)
    PROVE  /\ Shift(p, q, r) \in NSeq
           /\ Len(Shift(p, q, r)) = Len(p) + Len(r) - Len(q)
           /\ \A i \in 1..Len(p) : Shift(p, q, r)[i] = p[i]
           /\ \A i \in 1..(Len(r) - Len(q)) : Shift(p, q, r)[Len(p) + i] = r[Len(q) + i]
<1> DEFINE m == Len(q) + 1
           n == Len(r)
           s == SubSeq(r, m, n)
<1>1. Len(p) \in Nat /\ Len(q) \in Nat /\ n \in Nat /\ Len(q) <= n
      /\ \A i \in 1..n : r[i] \in Names
    BY SeqLen, BelowByEntries
<1>2. m \in Int /\ n \in Int /\ \A i \in m..n : r[i] \in Names
    BY <1>1
<1>3. /\ s \in Seq(Names) /\ Len(s) = IF m <= n THEN n - m + 1 ELSE 0
      /\ \A i \in 1..(n - m + 1) : s[i] = r[m + i - 1]
    <2> HIDE DEF m, n
    <2> QED BY ONLY <1>2, SubSeqProperties
<1> HIDE DEF s
<1>4. Len(s) = n - Len(q)
    BY <1>1, <1>3
<1>5. ASSUME NEW i \in 1..(n - Len(q)) PROVE s[i] = r[Len(q) + i]
    <2>1. i \in 1..(n - m + 1) /\ m + i - 1 = Len(q) + i
        BY <1>1, <1>5
    <2> QED BY ONLY <1>3, <2>1
<1>6. /\ p \o s \in Seq(Names) /\ Len(p \o s) = Len(p) + Len(s)
      /\ \A i \in 1..Len(p) + Len(s) : (p \o s)[i] =
                     IF i <= Len(p) THEN p[i] ELSE s[i - Len(p)]
    BY <1>3, ConcatProperties DEF NSeq
<1> DEFINE t == p \o s
<1>7. Shift(p, q, r) = t
    BY DEF Shift, s
<1> HIDE DEF t
<1>8. \A i \in 1..Len(p) : t[i] = p[i]
    BY <1>1, <1>4, <1>6 DEF t
<1>9. ASSUME NEW i \in 1..(n - Len(q)) PROVE t[Len(p) + i] = r[Len(q) + i]
    <2>1. /\ Len(p) + i \in 1..Len(p) + Len(s) /\ ~(Len(p) + i <= Len(p))
          /\ Len(p) + i - Len(p) = i
        BY <1>1, <1>4, <1>9
    <2>2. t[Len(p) + i] = s[i]
        BY ONLY <1>6, <2>1 DEF t
    <2> QED BY <1>5, <2>2
<1> QED BY <1>1, <1>4, <1>6, <1>7, <1>8, <1>9 DEF NSeq, t

\* ... and that it comes back, and keeps the order.
LEMMA ShiftMoves ==
    ASSUME NEW p \in NSeq, NEW q \in NSeq, NEW r \in NSeq, Below(q, r)
    PROVE  /\ Shift(p, q, r) \in NSeq
           /\ Len(Shift(p, q, r)) = Len(r) - Len(q) + Len(p)
           /\ Below(p, Shift(p, q, r))
           /\ Shift(q, p, Shift(p, q, r)) = r
           /\ \A y \in NSeq : Below(q, y) /\ Below(y, r) =>
                 Below(Shift(p, q, y), Shift(p, q, r))
<1> DEFINE t == Shift(p, q, r)
<1>1. /\ t \in NSeq /\ Len(t) = Len(p) + Len(r) - Len(q)
      /\ \A i \in 1..Len(p) : t[i] = p[i]
      /\ \A i \in 1..(Len(r) - Len(q)) : t[Len(p) + i] = r[Len(q) + i]
    BY ShiftByEntries
<1>2. /\ Len(p) \in Nat /\ Len(q) \in Nat /\ Len(r) \in Nat /\ Len(q) <= Len(r)
      /\ \A i \in 1..Len(q) : q[i] = r[i]
    BY SeqLen, BelowByEntries
<1> HIDE DEF t
<1>3. Below(p, t)
    BY <1>1, <1>2, BelowByEntries
<1>4. Shift(q, p, t) = r
    <2> DEFINE u == Shift(q, p, t)
    <2>1. /\ u \in NSeq /\ Len(u) = Len(q) + Len(t) - Len(p)
          /\ \A i \in 1..Len(q) : u[i] = q[i]
          /\ \A i \in 1..(Len(t) - Len(p)) : u[Len(q) + i] = t[Len(p) + i]
        BY <1>1, <1>3, ShiftByEntries
    <2> HIDE DEF u
    <2>2. Len(u) = Len(r)
        BY <1>1, <1>2, <2>1
    <2>3. ASSUME NEW i \in 1..Len(r) PROVE u[i] = r[i]
        <3>1. CASE i <= Len(q)
            BY <1>2, <2>1, <2>3, <3>1
        <3>2. CASE i > Len(q)
            <4> DEFINE k == i - Len(q)
            <4>1. /\ k \in 1..(Len(t) - Len(p)) /\ k \in 1..(Len(r) - Len(q))
                  /\ i = Len(q) + k
                BY <1>1, <1>2, <2>3, <3>2
            <4> HIDE DEF k
            <4> QED BY ONLY <1>1, <2>1, <4>1
        <3> QED BY <1>2, <2>3, <3>1, <3>2
    <2> QED BY <2>1, <2>2, <2>3, SeqEqual DEF NSeq, u
<1>5. ASSUME NEW y \in NSeq, Below(q, y), Below(y, r)
      PROVE  Below(Shift(p, q, y), t)
    <2> DEFINE u == Shift(p, q, y)
    <2>1. /\ u \in NSeq /\ Len(u) = Len(p) + Len(y) - Len(q)
          /\ \A i \in 1..Len(p) : u[i] = p[i]
          /\ \A i \in 1..(Len(y) - Len(q)) : u[Len(p) + i] = y[Len(q) + i]
        BY <1>5, ShiftByEntries
    <2> HIDE DEF u
    <2>2. /\ Len(y) \in Nat /\ Len(q) <= Len(y) /\ Len(y) <= Len(r)
          /\ \A i \in 1..Len(y) : y[i] = r[i]
        BY <1>5, SeqLen, BelowByEntries
    <2>3. Len(u) <= Len(t)
        BY <1>1, <1>2, <2>1, <2>2
    <2>4. ASSUME NEW i \in 1..Len(u) PROVE u[i] = t[i]
        <3>1. CASE i <= Len(p)
            BY <1>1, <1>2, <2>1, <2>4, <3>1
        <3>2. CASE i > Len(p)
            <4> DEFINE k == i - Len(p)
            <4>1. /\ k \in 1..(Len(y) - Len(q)) /\ k \in 1..(Len(r) - Len(q))
                  /\ Len(q) + k \in 1..Len(y) /\ i = Len(p) + k
                BY <1>1, <1>2, <2>1, <2>2, <2>4, <3>2
            <4> HIDE DEF k
            <4> QED BY ONLY <1>1, <2>1, <2>2, <4>1
        <3> QED BY <1>2, <2>1, <2>2, <2>4, <3>1, <3>2
    <2> QED BY <1>1, <2>1, <2>3, <2>4, BelowByEntries DEF u
<1> QED BY <1>1, <1>2, <1>3, <1>4, <1>5 DEF t

(***************************************************************************)
(* Types, as the proof needs them: the tree is closed under what is above, *)
(* and sequences are sequences.                                            *)
(***************************************************************************)
TreeOK ==
    /\ tree \in [Paths -> Inodes \cup {None}] /\ tree[<<>>] = 0
    /\ \A p, q \in Dirs : tree[p] = tree[q] => p = q
    /\ \A r \in Dirs : \A y \in NSeq : Below(y, r) => y \in Dirs

UsedOK == used \in [make : Nat, move : Nat, remove : Nat, write : Nat, lose : Nat, wd : Nat]

WatchesOK == watches \in [DOMAIN watches -> Inodes] /\ DOMAIN watches \subseteq 0..used.wd

EventsOK(s) == s \in Seq(Events) /\ \A e \in Range(s) : e.kind \in {"in", "out"} => e.name \in Names

TodoOK == todo \in Seq({"add", "scan"} \X NSeq)

TablesOK ==
    /\ wdToRel \in [DOMAIN wdToRel -> Paths] /\ DOMAIN wdToRel \subseteq Nat
    /\ relToWd \in [DOMAIN relToWd -> Nat] /\ DOMAIN relToWd \subseteq Paths
    /\ \A wd \in DOMAIN wdToRel :
          wdToRel[wd] \in DOMAIN relToWd /\ relToWd[wdToRel[wd]] = wd

RestOK ==
    /\ batch \subseteq {"file", "tree"} \X NSeq /\ unknown \in BOOLEAN
    /\ stale \subseteq Inodes /\ gap \subseteq Inodes
    /\ lost \in BOOLEAN /\ crossed \in BOOLEAN

CovTyped == /\ TreeOK /\ UsedOK /\ WatchesOK /\ EventsOK(queue) /\ EventsOK(data)
            /\ TodoOK /\ TablesOK /\ RestOK

Kinds == {"in", "out", "file", "self", "ignored"}

\* An event by its fields.
LEMMA EventsAre ==
    /\ \A e \in Events : e.kind = "overflow" \/ (/\ e.kind \in Kinds /\ e.wd \in Nat
                                                 /\ e.name \in Names \cup {None})
    /\ \A w \in Nat, k \in Kinds, m \in Names \cup {None} :
          [wd |-> w, kind |-> k, name |-> m] \in Events
    /\ [kind |-> "overflow"] \in Events
    BY DEF Events, Kinds

\* There are finitely many directories at the start.
LEMMA CardNat == CoverageAssumption => Cardinality(InitialDirs) \in Nat
    BY FS_CardinalityType DEF CoverageAssumption

\* Directories and paths are sequences of names.
LEMMA DirsAre ==
    ASSUME CovTyped
    PROVE  Dirs \subseteq Paths /\ Dirs \subseteq NSeq /\ Paths \subseteq NSeq /\ <<>> \in NSeq
    BY PathsAreSeqs DEF Dirs

\* An event that is sent, if the directory is watched.
LEMMA EventIs ==
    ASSUME CovTyped, NEW dir, NEW kind \in Kinds, NEW name \in Names \cup {None}
    PROVE  /\ Event(dir, kind, name) \in Seq(Events)
           /\ Watching(dir) = {} => Event(dir, kind, name) = <<>>
           /\ Watching(dir) # {} => \E w \in Watching(dir) :
                 Event(dir, kind, name) = <<[wd |-> w, kind |-> kind, name |-> name]>>
<1>1. CASE Watching(dir) = {}
    BY <1>1, EmptySeq DEF Event
<1>2. CASE Watching(dir) # {}
    <2> DEFINE w == CHOOSE wd \in Watching(dir) : TRUE
               e == [wd |-> w, kind |-> kind, name |-> name]
    <2>1. w \in Watching(dir) /\ Event(dir, kind, name) = <<e>>
        BY <1>2 DEF Event
    <2>2. w \in Nat
        BY <2>1 DEF Watching, CovTyped, WatchesOK
    <2> HIDE DEF w
    <2>3. e \in Events
        BY <2>2, EventsAre
    <2> HIDE DEF e
    <2>4. <<e>> \in Seq(Events)
        BY <2>3
    <2> QED BY <1>2, <2>1, <2>4 DEF e
<1> QED BY <1>1, <1>2

\* The range of a sequence, and of two in a row.
LEMMA RangeOf ==
    ASSUME NEW S, NEW s \in Seq(S)
    PROVE  /\ Range(s) = {s[i] : i \in 1..Len(s)} /\ Range(s) \subseteq S
           /\ \A t \in Seq(S) : Range(s \o t) = Range(s) \cup Range(t)
    BY RangeOfSeq, RangeEquality, RangeConcatenation

\* Emit: the queue keeps its type, its bounds are used up, and without a loss all is queued.
LEMMA EmitTyped ==
    ASSUME CovTyped, NEW bound \in {"make", "move", "remove", "write", "lose"},
           NEW evs, EventsOK(evs), Emit(bound, evs)
    PROVE  /\ EventsOK(queue') /\ lost' \in BOOLEAN
           /\ UsedOK' /\ used'.wd = used.wd
           /\ used'.make = IF bound = "make" THEN used.make + 1 ELSE used.make
           /\ ~lost' => ~lost /\ queue' = queue \o evs
<1> USE DEF EventsOK, UsedOK
<1>1. used' \in [make : Nat, move : Nat, remove : Nat, write : Nat, lose : Nat, wd : Nat]
      /\ used'.wd = used.wd
      /\ used'.make = IF bound = "make" THEN used.make + 1 ELSE used.make
    <2>1. used \in [make : Nat, move : Nat, remove : Nat, write : Nat, lose : Nat, wd : Nat]
        BY DEF CovTyped, UsedOK
    <2>2. Use({bound}) \/ Use({bound, "lose"})
        BY DEF Emit
    <2> HIDE DEF CovTyped, Emit
    <2> QED BY <2>1, <2>2 DEF Use
<1>2. CASE queue' = queue \o evs /\ UNCHANGED lost
    <2>1. queue' \in Seq(Events) /\ Range(queue') = Range(queue) \cup Range(evs)
        BY <1>2, ConcatProperties, RangeOf DEF CovTyped, EventsOK
    <2> QED BY <1>1, <1>2, <2>1 DEF CovTyped, EventsOK, RestOK
<1>3. CASE queue' = Append(queue, [kind |-> "overflow"]) /\ lost' = TRUE
    <2> DEFINE e == [kind |-> "overflow"]
    <2>1. e \in Events /\ e.kind = "overflow"
        BY EventsAre
    <2> HIDE DEF e
    <2>2. queue' \in Seq(Events) /\ queue' = queue \o <<e>> /\ <<e>> \in Seq(Events)
        <3>1. queue \in Seq(Events) /\ queue' = Append(queue, e)
            BY <1>3 DEF CovTyped, EventsOK, e
        <3>2. Append(queue, e) \in Seq(Events) /\ Append(queue, e) = queue \o <<e>>
            BY <2>1, <3>1, AppendProperties, AppendIsConcat
        <3>3. <<e>> \in Seq(Events)
            BY <2>1
        <3> QED BY <3>1, <3>2, <3>3
    <2>3. Range(queue') = Range(queue) \cup Range(<<e>>)
        <3>1. queue \in Seq(Events)
            BY DEF CovTyped, EventsOK
        <3>2. Range(queue \o <<e>>) = Range(queue) \cup Range(<<e>>)
            BY ONLY <2>2, <3>1, RangeConcatenation
        <3> QED BY ONLY <2>2, <3>2
    <2>4. Range(<<e>>) = {e}
        <3>1. <<e>> \in Seq(Events) /\ Len(<<e>>) = 1 /\ <<e>>[1] = e
            BY <2>1
        <3>2. Range(<<e>>) = {<<e>>[i] : i \in 1..Len(<<e>>)}
            BY <3>1, RangeOf
        <3> QED BY <3>1, <3>2
    <2> QED BY <1>1, <1>3, <2>1, <2>2, <2>3, <2>4 DEF CovTyped, EventsOK
<1> QED BY <1>2, <1>3 DEF Emit, CovTyped, TypeOK

\* The types of the proof imply those of the model.
LEMMA TypesFollow == CovTyped => TypeOK
<1> SUFFICES ASSUME CovTyped PROVE TypeOK
    OBVIOUS
<1> USE DEF CovTyped
<1>1. \A f, S, T : f \in [S -> T] => Range(f) \subseteq T
    BY DEF Range
<1>2. ASSUME NEW p \in Dirs \ {<<>>} PROVE Front(p) \in Dirs
    <2>1. p \in NSeq /\ p # <<>>
        BY <1>2, PathsAreSeqs DEF Dirs
    <2> QED BY <1>2, <2>1, FrontAndLast DEF TreeOK
<1>3. Range(watches) \subseteq Inodes /\ Range(wdToRel) \subseteq Paths
      /\ Range(relToWd) \subseteq Nat
    BY <1>1 DEF WatchesOK, TablesOK
<1>4. Range(queue) \cup Range(data) \subseteq Events
    BY RangeOf DEF EventsOK
<1>5. \A i \in DOMAIN todo : todo[i] \in {"add", "scan"} \X Seq(Names)
    BY DEF TodoOK, NSeq
<1> QED BY <1>2, <1>3, <1>4, <1>5 DEF TypeOK, TreeOK, TablesOK, RestOK, NSeq

\* The events that are sent.
LEMMA EventSent ==
    ASSUME CovTyped, NEW dir, NEW kind \in Kinds, NEW name \in Names \cup {None},
           kind \in {"in", "out"} => name \in Names
    PROVE  EventsOK(Event(dir, kind, name))
<1>1. CASE Watching(dir) = {}
    BY <1>1, EventIs, RangeOf, EmptySeq DEF EventsOK
<1>2. CASE Watching(dir) # {}
    <2>1. PICK w \in Watching(dir) :
             Event(dir, kind, name) = <<[wd |-> w, kind |-> kind, name |-> name]>>
        BY <1>2, EventIs
    <2> DEFINE e == [wd |-> w, kind |-> kind, name |-> name]
    <2>2. e.kind = kind /\ e.name = name
        OBVIOUS
    <2> HIDE DEF e
    <2>3. <<e>> \in Seq(Events)
        BY <2>1, EventIs DEF e
    <2>4. Range(<<e>>) = {e}
        <3>1. Len(<<e>>) = 1 /\ <<e>>[1] = e
            OBVIOUS
        <3>2. Range(<<e>>) = {<<e>>[i] : i \in 1..Len(<<e>>)}
            BY <2>3, RangeOf
        <3> QED BY <3>1, <3>2
    <2> QED BY <2>1, <2>2, <2>3, <2>4 DEF EventsOK, e
<1> QED BY <1>1, <1>2

\* Two lists of events in a row.
LEMMA EventsJoin ==
    ASSUME NEW s, NEW t, EventsOK(s), EventsOK(t) PROVE EventsOK(s \o t)
    BY ConcatProperties, RangeConcatenation DEF EventsOK

\* Mkdir makes an inode of its own, in a directory that is there.
LEMMA MkdirTyped ==
    ASSUME CoverageAssumption, CovTyped, NEW p \in Paths, Mkdir(p)
    PROVE  CovTyped'
<1> DEFINE new == Cardinality(InitialDirs) + used.make + 1
<1>1. /\ p # <<>> /\ p \notin Dirs /\ Front(p) \in Dirs
      /\ tree' = [tree EXCEPT ![p] = new] /\ stale' = stale \cup {new}
      /\ Emit("make", Event(tree[Front(p)], "in", Last(p)))
      /\ gap' \subseteq gap \cup {new}
      /\ UNCHANGED <<watches, reader, batch, unknown, crossed>>
    BY DEF Mkdir, Unseen
<1>2. p \in NSeq /\ Last(p) \in Names /\ \A x \in NSeq : Below(x, p) => x = p \/ Below(x, Front(p))
    BY <1>1, PathsAreSeqs, FrontAndLast
<1>3. EventsOK(Event(tree[Front(p)], "in", Last(p)))
    BY <1>2, EventSent DEF Kinds
<1>4. /\ EventsOK(queue') /\ lost' \in BOOLEAN /\ UsedOK' /\ used'.wd = used.wd
      /\ used'.make = used.make + 1
    BY <1>1, <1>3, EmitTyped
<1>5. /\ Cardinality(InitialDirs) \in Nat /\ used.make \in Nat
      /\ new \in Nat /\ new \notin Inodes /\ new # None /\ Inodes' = Inodes \cup {new}
      /\ None \notin Inodes /\ Inodes \subseteq Nat
    <2>1. Cardinality(InitialDirs) \in Nat /\ used.make \in Nat /\ None \notin Nat
        BY CardNat DEF CovTyped, UsedOK, CoverageAssumption
    <2> DEFINE c == Cardinality(InitialDirs)
    <2>2. c \in Nat /\ Inodes = 0..(c + used.make) /\ Inodes' = 0..(c + used.make + 1)
        BY <1>4, <2>1 DEF Inodes
    <2>3. new = c + used.make + 1
        OBVIOUS
    <2> HIDE DEF c, new
    <2> QED BY <2>1, <2>2, <2>3 DEF c
<1> HIDE DEF new
<1>6. TreeOK'
    <2>1. tree \in [Paths -> Inodes \cup {None}] /\ tree[<<>>] = 0
        BY DEF CovTyped, TreeOK
    <2>2. tree' \in [Paths -> Inodes' \cup {None}] /\ tree'[<<>>] = 0
        BY <1>1, <1>5, <2>1
    <2>3. Dirs' = Dirs \cup {p} /\ \A r \in Dirs : tree'[r] = tree[r] /\ tree[r] \in Inodes
        BY <1>1, <1>5, <2>1 DEF Dirs
    <2>4. tree'[p] = new
        BY <1>1, <2>1
    <2>5. \A r, s \in Dirs' : tree'[r] = tree'[s] => r = s
        BY <1>5, <2>3, <2>4 DEF CovTyped, TreeOK
    <2>6. \A r \in Dirs' : \A y \in NSeq : Below(y, r) => y \in Dirs'
        BY <1>1, <1>2, <2>3 DEF CovTyped, TreeOK
    <2> QED BY <2>2, <2>5, <2>6 DEF TreeOK
<1>7. UNCHANGED <<data, todo, wdToRel, relToWd>>
    BY <1>1 DEF reader
<1>8. WatchesOK' /\ EventsOK(data') /\ TodoOK' /\ TablesOK'
    BY <1>1, <1>4, <1>5, <1>7 DEF CovTyped, WatchesOK, TodoOK, TablesOK
<1>9. RestOK'
    BY <1>1, <1>4, <1>5 DEF CovTyped, RestOK
<1> QED BY <1>4, <1>6, <1>8, <1>9 DEF CovTyped

\* A rename: what is below p is, in the same order, below q, and nothing else is touched.
LEMMA RenameTree ==
    ASSUME CoverageAssumption, CovTyped, NEW p \in Paths, NEW q \in Paths,
           Rename(p, q)
    PROVE  /\ p # <<>> /\ q # <<>> /\ p \in NSeq /\ q \in NSeq
           /\ p \in Dirs /\ Front(p) \in Dirs /\ q \notin Dirs /\ Front(q) \in Dirs
           /\ ~Below(p, q) /\ ~Below(q, p)
           /\ \A r \in Dirs' : \/ ~Below(p, r) /\ ~Below(q, r) /\ r \in Dirs /\ tree'[r] = tree[r]
                              \/ /\ Below(q, r) /\ ~Below(p, r)
                                 /\ \E s \in Dirs : Below(p, s) /\ tree'[r] = tree[s]
           /\ \A r \in Dirs : ~Below(p, r) => r \in Dirs' /\ tree'[r] = tree[r]
           /\ \A s \in Dirs : Below(p, s) =>
                 \E r \in Dirs' : Below(q, r) /\ tree'[r] = tree[s]
           /\ TreeOK'
<1>1. /\ p \in Dirs \ {<<>>} /\ q \notin Dirs /\ Front(q) \in Dirs
      /\ ~Below(p, q)
      /\ \A r \in Dirs : Below(p, r) => Len(r) - Len(p) + Len(q) <= MaxDepth
      /\ tree' = Moved(p, q)
    BY DEF Rename
<1>2. /\ tree \in [Paths -> Inodes \cup {None}] /\ tree[<<>>] = 0
      /\ \A x, y \in Dirs : tree[x] = tree[y] => x = y
      /\ \A r \in Dirs : \A y \in NSeq : Below(y, r) => y \in Dirs
      /\ Paths \subseteq NSeq /\ Dirs \subseteq Paths /\ MaxDepth \in Nat
      /\ <<>> \in NSeq
    BY PathsAreSeqs DEF CovTyped, TreeOK, Dirs, CoverageAssumption
<1>3. p \in NSeq /\ q \in NSeq /\ ~Below(q, p)
    BY <1>1, <1>2
<1>4. Front(p) \in Dirs
    BY <1>1, <1>2, <1>3, FrontAndLast
<1>5. <<>> \in Dirs /\ q # <<>>
    <2>1. Below(<<>>, p)
        BY <1>3, BelowOrder
    <2>2. <<>> \in Dirs
        BY <1>1, <1>2, <2>1
    <2> QED BY <1>1, <2>2
<1>6. Inodes' = Inodes
    <2>1. Emit("move", Event(tree[Front(p)], "out", Last(p))
                      \o Event(tree[Front(q)], "in", Last(q))
                      \o Event(tree[p], "self", None))
        BY DEF Rename
    <2>2. /\ EventsOK(Event(tree[Front(p)], "out", Last(p)))
          /\ EventsOK(Event(tree[Front(q)], "in", Last(q)))
          /\ EventsOK(Event(tree[p], "self", None))
        BY <1>1, <1>3, <1>5, FrontAndLast, EventSent DEF Kinds
    <2>3. EventsOK(Event(tree[Front(p)], "out", Last(p))
                      \o Event(tree[Front(q)], "in", Last(q))
                      \o Event(tree[p], "self", None))
        BY <2>2, EventsJoin
    <2>4. used'.make = used.make
        BY <2>1, <2>3, EmitTyped
    <2> QED BY <2>4 DEF Inodes
\* No path is below both.
<1>7. \A r \in NSeq : ~(Below(p, r) /\ Below(q, r))
    BY <1>1, <1>3, BelowOrder
<1>8. ASSUME NEW r \in Paths, ~Below(p, r), ~Below(q, r) PROVE tree'[r] = tree[r]
    BY <1>1, <1>8 DEF Moved
<1>9. ASSUME NEW r \in Paths, Below(p, r) PROVE tree'[r] = None
    BY <1>1, <1>9 DEF Moved
<1>10. ASSUME NEW r \in Paths, Below(q, r)
       PROVE  tree'[r] = IF Shift(p, q, r) \in Paths THEN tree[Shift(p, q, r)] ELSE None
    BY <1>1, <1>2, <1>7, <1>10 DEF Moved, Shift
<1>11. DOMAIN tree' = Paths
    BY <1>1 DEF Moved
<1>12. ASSUME NEW r \in Dirs', Below(q, r)
       PROVE  /\ ~Below(p, r) /\ Shift(p, q, r) \in Dirs /\ Below(p, Shift(p, q, r))
              /\ tree'[r] = tree[Shift(p, q, r)]
    <2>1. r \in Paths /\ r \in NSeq /\ tree'[r] # None
        BY <1>2 DEF Dirs
    <2>2. Shift(p, q, r) \in Dirs /\ tree'[r] = tree[Shift(p, q, r)]
        BY <1>10, <1>12, <2>1 DEF Dirs
    <2> QED BY <1>3, <1>7, <1>12, <2>1, <2>2, ShiftMoves
<1>13. ASSUME NEW r \in Dirs', ~Below(q, r)
       PROVE  ~Below(p, r) /\ r \in Dirs /\ tree'[r] = tree[r]
    BY <1>8, <1>9, <1>13 DEF Dirs
<1>14. ASSUME NEW r \in Dirs, ~Below(p, r) PROVE r \in Dirs' /\ tree'[r] = tree[r] /\ ~Below(q, r)
    <2>1. r \in Paths /\ r \in NSeq /\ ~Below(q, r)
        BY <1>1, <1>2, <1>3
    <2> QED BY <1>8, <1>14, <2>1 DEF Dirs
<1>15. ASSUME NEW s \in Dirs, Below(p, s)
       PROVE  \E r \in Dirs' : Below(q, r) /\ tree'[r] = tree[s]
    <2> DEFINE r == Shift(q, p, s)
    <2>1. /\ r \in NSeq /\ Below(q, r) /\ Shift(p, q, r) = s
          /\ Len(r) = Len(s) - Len(p) + Len(q)
        BY <1>2, <1>3, <1>15, ShiftMoves
    <2> HIDE DEF r
    <2>2. r \in Paths
        BY <1>1, <1>2, <1>15, <2>1, PathsByLen
    <2>3. tree'[r] = tree[s]
        BY <1>2, <1>10, <2>1, <2>2
    <2> QED BY <2>1, <2>2, <2>3 DEF Dirs
<1>16. TreeOK'
    <2>1. tree' \in [Paths -> Inodes' \cup {None}]
        <3>1. \A r \in Paths : tree'[r] \in Inodes \cup {None}
            BY <1>2, <1>8, <1>9, <1>10
        <3>2. tree' = [r \in Paths |-> tree'[r]]
            BY <1>1 DEF Moved
        <3> QED BY <1>6, <3>1, <3>2
    <2>2. tree'[<<>>] = 0
        <3>1. <<>> \in Paths /\ ~Below(p, <<>>) /\ ~Below(q, <<>>)
            BY <1>1, <1>2, <1>3, <1>5, BelowOrder
        <3> QED BY <1>2, <1>8, <3>1
    <2>3. ASSUME NEW x \in Dirs', NEW y \in Dirs', tree'[x] = tree'[y] PROVE x = y
        <3>1. CASE Below(q, x) /\ Below(q, y)
            <4>1. Shift(p, q, x) = Shift(p, q, y)
                BY <1>2, <1>12, <2>3, <3>1
            <4>2. x \in NSeq /\ y \in NSeq
                BY <1>2 DEF Dirs
            <4> QED BY <1>3, <3>1, <4>1, <4>2, ShiftMoves
        <3>2. CASE Below(q, x) /\ ~Below(q, y)
            BY <1>2, <1>12, <1>13, <2>3, <3>2
        <3>3. CASE ~Below(q, x) /\ Below(q, y)
            BY <1>2, <1>12, <1>13, <2>3, <3>3
        <3>4. CASE ~Below(q, x) /\ ~Below(q, y)
            BY <1>2, <1>13, <2>3, <3>4
        <3> QED BY <3>1, <3>2, <3>3, <3>4
    <2>4. ASSUME NEW r \in Dirs', NEW y \in NSeq, Below(y, r) PROVE y \in Dirs'
        <3>1. r \in NSeq
            BY <1>2 DEF Dirs
        <3>2. CASE ~Below(q, r)
            <4>1. r \in Dirs /\ ~Below(p, r)
                BY <1>13, <3>2
            <4>2. y \in Dirs /\ ~Below(p, y)
                BY <1>2, <1>3, <2>4, <3>1, <4>1, BelowOrder
            <4> QED BY <1>14, <4>2
        <3>3. CASE Below(q, r) /\ Below(q, y)
            <4>1. Below(Shift(p, q, y), Shift(p, q, r)) /\ Shift(p, q, y) \in NSeq
                BY <1>3, <2>4, <3>1, <3>3, ShiftMoves
            <4>2. Shift(p, q, y) \in Dirs
                BY <1>2, <1>12, <3>3, <4>1
            <4>3. Len(y) <= Len(r) /\ Len(r) <= MaxDepth /\ Len(y) \in Nat /\ Len(r) \in Nat
                BY <1>2, <2>4, <3>1, BelowByEntries, PathsByLen, SeqLen DEF Dirs
            <4>4. y \in Paths
                BY <1>2, <4>3, PathsByLen
            <4> QED BY <1>2, <1>10, <3>3, <4>2, <4>4 DEF Dirs
        <3>4. CASE Below(q, r) /\ ~Below(q, y)
            <4>1. Below(y, q) /\ y # q
                BY <1>3, <2>4, <3>1, <3>4, BelowOrder
            <4>2. Below(y, Front(q))
                BY <1>3, <1>5, <4>1, FrontAndLast
            <4>3. y \in Dirs /\ ~Below(p, y)
                BY <1>1, <1>2, <1>3, <4>1, <4>2, BelowOrder
            <4> QED BY <1>14, <4>3
        <3> QED BY <3>2, <3>3, <3>4
    <2> QED BY <2>1, <2>2, <2>3, <2>4 DEF TreeOK
<1> QED BY <1>1, <1>3, <1>4, <1>5, <1>12, <1>13, <1>14, <1>15, <1>16

\* Between a directory and what is below it there is a child.
LEMMA NextOnTheWay ==
    ASSUME NEW p \in NSeq, NEW r \in NSeq, Below(p, r), p # r
    PROVE  \E x \in NSeq : Len(x) = Len(p) + 1 /\ Below(p, x) /\ Below(x, r)
<1> DEFINE n == Len(p) + 1
           x == SubSeq(r, 1, n)
<1>1. /\ Len(p) \in Nat /\ Len(r) \in Nat /\ Len(p) <= Len(r)
      /\ \A i \in 1..Len(r) : r[i] \in Names
      /\ \A i \in 1..Len(p) : p[i] = r[i]
    BY SeqLen, BelowByEntries
<1>2. Len(p) # Len(r)
    BY <1>1, SeqEqual DEF NSeq
<1>3. n \in Nat /\ 1 \in Int /\ n \in Int /\ n <= Len(r) /\ \A i \in 1..n : r[i] \in Names
    BY <1>1, <1>2
<1>4. /\ x \in Seq(Names) /\ Len(x) = IF 1 <= n THEN n - 1 + 1 ELSE 0
      /\ \A i \in 1..(n - 1 + 1) : x[i] = r[1 + i - 1]
    <2> HIDE DEF n
    <2> QED BY ONLY <1>3, SubSeqProperties
<1> HIDE DEF x
<1>5. Len(x) = n
    BY <1>1, <1>3, <1>4
<1>6. ASSUME NEW i \in 1..n PROVE x[i] = r[i]
    <2>1. i \in 1..(n - 1 + 1) /\ 1 + i - 1 = i
        BY <1>1, <1>6
    <2> QED BY ONLY <1>4, <2>1
<1>7. x \in NSeq
    BY <1>4 DEF NSeq
<1>8. Below(x, r)
    BY <1>3, <1>5, <1>6, <1>7, BelowByEntries
<1>9. Below(p, x)
    <2>1. \A i \in 1..Len(p) : i \in 1..n
        BY <1>1
    <2> QED BY <1>1, <1>5, <1>6, <1>7, <2>1, BelowByEntries
<1> QED BY <1>5, <1>7, <1>8, <1>9

\* Rename: RenameTree says that the tree stays a tree.
LEMMA RenameTyped ==
    ASSUME CoverageAssumption, CovTyped, NEW p \in Paths, NEW q \in Paths, Rename(p, q)
    PROVE  CovTyped'
<1> DEFINE out == Event(tree[Front(p)], "out", Last(p))
           in == Event(tree[Front(q)], "in", Last(q))
           self == Event(tree[p], "self", None)
<1>1. /\ p # <<>> /\ q # <<>> /\ p \in NSeq /\ q \in NSeq /\ TreeOK'
    BY RenameTree
<1>2. EventsOK(out) /\ EventsOK(in) /\ EventsOK(self)
    BY <1>1, FrontAndLast, EventSent DEF Kinds
<1>3. EventsOK(out \o in \o self)
    BY <1>2, EventsJoin
<1>4. Emit("move", out \o in \o self)
    BY DEF Rename
<1> HIDE DEF out, in, self
<1>5. /\ EventsOK(queue') /\ lost' \in BOOLEAN /\ UsedOK' /\ used'.wd = used.wd
      /\ used'.make = used.make
    BY <1>3, <1>4, EmitTyped
<1>6. Inodes' = Inodes
    BY <1>5 DEF Inodes
<1>7. /\ stale' = stale \cup {tree[r] : r \in {r \in Dirs : Below(p, r)}}
      /\ crossed' = (crossed \/ Underway(q))
      /\ UNCHANGED <<watches, data, todo, wdToRel, relToWd, batch, unknown, gap>>
    BY DEF Rename, reader
<1>8. WatchesOK' /\ EventsOK(data') /\ TodoOK' /\ TablesOK'
    BY <1>5, <1>6, <1>7 DEF CovTyped, WatchesOK, TodoOK, TablesOK
<1>9. RestOK'
    <2>1. \A r \in Dirs : tree[r] \in Inodes
        BY DEF Dirs, CovTyped, TreeOK
    <2>2. crossed' \in BOOLEAN
        BY <1>7 DEF CovTyped, RestOK, Underway
    <2> QED BY <1>5, <1>6, <1>7, <2>1, <2>2 DEF CovTyped, RestOK
<1> QED BY <1>1, <1>5, <1>8, <1>9 DEF CovTyped

\* Rmdir takes one directory away, and no one is below it.
LEMMA RmdirTree ==
    ASSUME CoverageAssumption, CovTyped, NEW p \in Paths, Rmdir(p)
    PROVE  /\ p \in NSeq /\ p # <<>> /\ p \in Dirs /\ Front(p) \in Dirs
           /\ Dirs' = Dirs \ {p}
           /\ \A r \in Dirs' : tree'[r] = tree[r] /\ ~Below(p, r)
           /\ Inodes' = Inodes /\ TreeOK'
<1>1. /\ p \in Dirs \ {<<>>} /\ Children(p) = {} /\ tree' = [tree EXCEPT ![p] = None]
    BY DEF Rmdir
<1>2. /\ tree \in [Paths -> Inodes \cup {None}] /\ tree[<<>>] = 0
      /\ \A x, y \in Dirs : tree[x] = tree[y] => x = y
      /\ \A r \in Dirs : \A y \in NSeq : Below(y, r) => y \in Dirs
      /\ Paths \subseteq NSeq /\ Dirs \subseteq Paths
    BY PathsAreSeqs DEF CovTyped, TreeOK, Dirs
<1>3. p \in NSeq /\ p # <<>> /\ Front(p) \in Dirs
    BY <1>1, <1>2, FrontAndLast
<1>4. Dirs' = Dirs \ {p}
    BY <1>1, <1>2 DEF Dirs
<1>5. ASSUME NEW r \in Dirs' PROVE tree'[r] = tree[r] /\ ~Below(p, r)
    <2>1. r \in Dirs /\ r # p /\ r \in NSeq
        BY <1>2, <1>4
    <2>2. ~Below(p, r)
        <3> SUFFICES ASSUME Below(p, r) PROVE FALSE
            OBVIOUS
        <3>1. PICK x \in NSeq : Len(x) = Len(p) + 1 /\ Below(p, x) /\ Below(x, r)
            BY <1>3, <2>1, NextOnTheWay
        <3>2. x \in Dirs
            BY <1>2, <2>1, <3>1
        <3> QED BY <1>1, <3>1, <3>2 DEF Children
    <2> QED BY <1>1, <1>2, <2>1, <2>2
<1>6. Inodes' = Inodes
    <2> DEFINE evs == Event(tree[Front(p)], "out", Last(p))
                        \o Event(tree[p], "self", None) \o Event(tree[p], "ignored", None)
    <2>1. Emit("remove", evs)
        BY DEF Rmdir
    <2>2. EventsOK(evs)
        <3>1. /\ EventsOK(Event(tree[Front(p)], "out", Last(p)))
              /\ EventsOK(Event(tree[p], "self", None))
              /\ EventsOK(Event(tree[p], "ignored", None))
            BY <1>3, FrontAndLast, EventSent DEF Kinds
        <3> QED BY <3>1, EventsJoin
    <2> HIDE DEF evs
    <2>3. used'.make = used.make
        BY <2>1, <2>2, EmitTyped
    <2> QED BY <2>3 DEF Inodes
<1>7. TreeOK'
    <2>1. tree' \in [Paths -> Inodes' \cup {None}] /\ tree'[<<>>] = 0
        BY <1>1, <1>2, <1>6
    <2>2. \A x, y \in Dirs' : tree'[x] = tree'[y] => x = y
        BY <1>2, <1>4, <1>5
    <2>3. \A r \in Dirs' : \A y \in NSeq : Below(y, r) => y \in Dirs'
        BY <1>2, <1>4, <1>5
    <2> QED BY <2>1, <2>2, <2>3 DEF TreeOK
<1> QED BY <1>1, <1>3, <1>4, <1>5, <1>6, <1>7

\* Rmdir: the watch that ends leaves the rest as it is.
LEMMA RmdirTyped ==
    ASSUME CoverageAssumption, CovTyped, NEW p \in Paths, Rmdir(p)
    PROVE  CovTyped'
<1> DEFINE evs == Event(tree[Front(p)], "out", Last(p))
                    \o Event(tree[p], "self", None) \o Event(tree[p], "ignored", None)
<1>1. p \in NSeq /\ p # <<>> /\ TreeOK' /\ Inodes' = Inodes
    BY RmdirTree
<1>2. EventsOK(evs)
    <2>1. /\ EventsOK(Event(tree[Front(p)], "out", Last(p)))
          /\ EventsOK(Event(tree[p], "self", None))
          /\ EventsOK(Event(tree[p], "ignored", None))
        BY <1>1, FrontAndLast, EventSent DEF Kinds
    <2> QED BY <2>1, EventsJoin
<1>3. Emit("remove", evs)
    BY DEF Rmdir
<1> HIDE DEF evs
<1>4. /\ EventsOK(queue') /\ lost' \in BOOLEAN /\ UsedOK' /\ used'.wd = used.wd
    BY <1>2, <1>3, EmitTyped
<1>5. /\ stale' = stale \ {tree[p]}
      /\ watches' = [wd \in DOMAIN watches \ Watching(tree[p]) |-> watches[wd]]
      /\ UNCHANGED <<data, todo, wdToRel, relToWd, batch, unknown, crossed, gap>>
    BY DEF Rmdir, reader, Restrict
<1>6. WatchesOK' /\ EventsOK(data') /\ TodoOK' /\ TablesOK' /\ RestOK'
    BY <1>1, <1>4, <1>5 DEF CovTyped, WatchesOK, TodoOK, TablesOK, RestOK
<1> QED BY <1>1, <1>4, <1>6 DEF CovTyped

\* Write marks a directory.
LEMMA WriteTyped ==
    ASSUME CoverageAssumption, CovTyped, NEW p \in Paths, Write(p)
    PROVE  CovTyped'
<1>1. /\ p \in Dirs /\ stale' = stale \cup {tree[p]} /\ gap' \subseteq gap \cup {tree[p]}
      /\ Emit("write", Event(tree[p], "file", None))
      /\ UNCHANGED <<tree, watches, data, todo, wdToRel, relToWd, batch, unknown, crossed>>
    BY DEF Write, Unseen, reader
<1>2. EventsOK(Event(tree[p], "file", None))
    BY EventSent DEF Kinds
<1>3. /\ EventsOK(queue') /\ lost' \in BOOLEAN /\ UsedOK' /\ used'.wd = used.wd
      /\ used'.make = used.make
    BY <1>1, <1>2, EmitTyped
<1>4. Inodes' = Inodes
    BY <1>3 DEF Inodes
<1>5. tree[p] \in Inodes
    BY <1>1 DEF CovTyped, TreeOK, Dirs
<1>6. TreeOK'
    BY <1>1, <1>4 DEF CovTyped, TreeOK, Dirs
<1>7. WatchesOK' /\ EventsOK(data') /\ TodoOK' /\ TablesOK' /\ RestOK'
    BY <1>1, <1>3, <1>4, <1>5 DEF CovTyped, WatchesOK, TodoOK, TablesOK, RestOK
<1> QED BY <1>3, <1>6, <1>7 DEF CovTyped

\* A function on 1..n is a sequence.
LEMMA FunctionIsSeq ==
    ASSUME NEW T, NEW n \in Nat, NEW f \in [1..n -> T]
    PROVE  f \in Seq(T) /\ Len(f) = n
    OBVIOUS

\* A listing of a finite set has every element, once.
LEMMA Listing ==
    ASSUME NEW S, IsFiniteSet(S), NEW f \in [1..Cardinality(S) -> S], IsInjective(f)
    PROVE  /\ f \in Seq(S) /\ Len(f) = Cardinality(S) /\ Range(f) = S
           /\ \A x \in S : \E i \in 1..Len(f) : f[i] = x
<1> DEFINE n == Cardinality(S)
<1>1. n \in Nat
    BY FS_CardinalityType
<1>2. f \in Seq(S) /\ Len(f) = n
    <2> HIDE DEF n
    <2>1. f \in [1..n -> S]
        BY DEF n
    <2> QED BY <1>1, <2>1
<1>3. IsFiniteSet(1..n) /\ Cardinality(1..n) = n
    <2>1. 1 \in Int /\ n \in Int
        BY <1>1
    <2>2. /\ IsFiniteSet(1..n)
          /\ Cardinality(1..n) = IF 1 > n THEN 0 ELSE n - 1 + 1
        BY ONLY <2>1, FS_Interval
    <2> HIDE DEF n
    <2> QED BY <1>1, <2>2
<1>4. f \in Surjection(1..n, S)
    <2>1. f \in Injection(1..n, S)
        BY DEF Injection
    <2>2. Cardinality(1..n) = Cardinality(S) <=> f \in Surjection(1..n, S)
        BY <2>1, FS_Injection
    <2> QED BY <1>3, <2>2
<1>5. \A x \in S : \E i \in 1..n : f[i] = x
    BY <1>4 DEF Surjection
<1>6. Range(f) = S
    BY <1>5 DEF Range
<1> QED BY <1>2, <1>5, <1>6

\* SetToSeq lists every member of a finite set once.
LEMMA SetToSeqLists ==
    ASSUME NEW S, IsFiniteSet(S)
    PROVE  SetToSeq(S) \in [1..Cardinality(S) -> S] /\ IsInjective(SetToSeq(S))
<1>1. PICK f \in [1..Cardinality(S) -> S] : IsInjective(f)
    BY FS_CardinalityType DEF ExistsBijection, Bijection, Injection
<1> QED BY <1>1 DEF SetToSeq

\* The next event and those after it.
LEMMA HeadAndTail ==
    ASSUME NEW s, EventsOK(s), s # <<>>
    PROVE  /\ Head(s) \in Events /\ EventsOK(Tail(s))
           /\ Head(s).kind \in {"in", "out"} => Head(s).name \in Names
           /\ Head(s) = s[1] /\ Head(s) \in Range(s)
<1>1. s \in Seq(Events) /\ Len(s) \in Nat \ {0} /\ Range(s) = {s[i] : i \in 1..Len(s)}
    BY EmptySeq, RangeOf DEF EventsOK
<1>2. /\ Tail(s) \in Seq(Events) /\ Len(Tail(s)) = Len(s) - 1
      /\ \A i \in 1..Len(Tail(s)) : Tail(s)[i] = s[i + 1]
    BY <1>1, HeadTailProperties
<1>3. Head(s) = s[1] /\ Head(s) \in Range(s)
    BY <1>1
<1>4. Range(Tail(s)) \subseteq Range(s)
    <2>1. Range(Tail(s)) = {Tail(s)[i] : i \in 1..Len(Tail(s))}
        BY <1>2, RangeOf
    <2>2. \A i \in 1..Len(Tail(s)) : i + 1 \in 1..Len(s)
        BY <1>1, <1>2
    <2> QED BY <1>1, <1>2, <2>1, <2>2
<1> QED BY <1>1, <1>2, <1>3, <1>4, RangeOf DEF EventsOK

\* Nothing is queued, and nothing is to be done.
LEMMA EmptyTyped == EventsOK(<<>>) /\ Range(<<>>) = {} /\ <<>> \in Seq({"add", "scan"} \X NSeq)
<1>1. <<>> \in Seq(Events) /\ Len(<<>>) = 0 /\ <<>> \in Seq({"add", "scan"} \X NSeq)
    BY EmptySeq
<1>2. Range(<<>>) = {<<>>[i] : i \in 1..Len(<<>>)}
    BY <1>1, RangeOf
<1>3. Range(<<>>) = {}
    BY <1>1, <1>2
<1> QED BY <1>1, <1>3 DEF EventsOK

\* ReadChunk moves the queue.
LEMMA ReadChunkTyped ==
    ASSUME CovTyped, ReadChunk PROVE CovTyped'
<1>1. EventsOK(<<>>)
    BY EmptyTyped
<1>2. Inodes' = Inodes
    BY DEF ReadChunk, Inodes
<1> QED BY <1>1, <1>2 DEF ReadChunk, CovTyped, TreeOK, UsedOK, WatchesOK, EventsOK, TodoOK,
                          TablesOK, RestOK, Dirs

\* The victims of _remove_prefix_watches are finitely many, for their watches are.
LEMMA VictimsFinite ==
    ASSUME CovTyped, NEW p
    PROVE  IsFiniteSet(VictimWds(p) \cap DOMAIN watches)
<1>1. used.wd \in Nat
    BY DEF CovTyped, UsedOK
<1>2. IsFiniteSet(0..used.wd)
    BY <1>1, FS_Interval
<1>3. VictimWds(p) \cap DOMAIN watches \subseteq 0..used.wd
    BY DEF CovTyped, WatchesOK
<1> QED BY <1>2, <1>3, FS_Subset

\* What the kernel answers to the removal of watches.
Ignored(p) == {[wd |-> wd, kind |-> "ignored", name |-> None] :
                 wd \in VictimWds(p) \cap DOMAIN watches}

\* The IGNORED events of the watches that are taken away, as the kernel queues them.
LEMMA IgnoredListed ==
    ASSUME CovTyped, NEW p
    PROVE  /\ SetToSeq(Ignored(p)) \in Seq(Ignored(p))
           /\ SetToSeq(Ignored(p)) \in [1..Len(SetToSeq(Ignored(p))) -> Ignored(p)]
           /\ IsInjective(SetToSeq(Ignored(p)))
           /\ Range(SetToSeq(Ignored(p))) = Ignored(p)
           /\ EventsOK(SetToSeq(Ignored(p)))
<1> DEFINE V == VictimWds(p) \cap DOMAIN watches
           f == [wd \in V |-> [wd |-> wd, kind |-> "ignored", name |-> None]]
<1>1. IsFiniteSet(V)
    BY VictimsFinite
<1>2. f \in Surjection(V, Ignored(p))
    BY DEF Ignored, Surjection
<1>3. IsFiniteSet(Ignored(p))
    BY <1>1, <1>2, FS_Surjection
<1>4. SetToSeq(Ignored(p)) \in [1..Cardinality(Ignored(p)) -> Ignored(p)]
      /\ IsInjective(SetToSeq(Ignored(p)))
    BY <1>3, SetToSeqLists
<1> DEFINE s == SetToSeq(Ignored(p))
           S == Ignored(p)
<1>5. s \in Seq(S) /\ Len(s) = Cardinality(S) /\ Range(s) = S
    <2> HIDE DEF s, S
    <2>1. IsFiniteSet(S) /\ s \in [1..Cardinality(S) -> S] /\ IsInjective(s)
        BY <1>3, <1>4 DEF s, S
    <2> QED BY <2>1, Listing
<1>6. \A e \in S : e \in Events /\ e.kind = "ignored"
    BY EventsAre DEF CovTyped, WatchesOK, Ignored, Kinds
<1>7. EventsOK(s)
    <2>1. S \subseteq Events
        BY <1>6
    <2>2. s \in Seq(Events)
        BY <1>5, <2>1, SeqMonotonic
    <2> HIDE DEF s, S
    <2> QED BY <1>5, <1>6, <2>2 DEF EventsOK
<1> QED BY <1>4, <1>5, <1>7

\* _remove_prefix_watches keeps the two maps inverse.
LEMMA VictimsTyped ==
    ASSUME CovTyped, NEW p, RemovePrefixWatches(p), UNCHANGED used
    PROVE  WatchesOK' /\ EventsOK(queue') /\ TablesOK'
<1>1. /\ relToWd' = [q \in DOMAIN relToWd \ Victims(p) |-> relToWd[q]]
      /\ wdToRel' = [w \in DOMAIN wdToRel \ VictimWds(p) |-> wdToRel[w]]
      /\ watches' = [w \in DOMAIN watches \ VictimWds(p) |-> watches[w]]
      /\ queue' = queue \o SetToSeq(Ignored(p))
    BY DEF RemovePrefixWatches, Restrict, Ignored
<1>2. EventsOK(queue')
    BY <1>1, IgnoredListed, EventsJoin DEF CovTyped
<1>3. WatchesOK'
    BY <1>1 DEF CovTyped, WatchesOK, Inodes
<1>4. TablesOK'
    <2>1. TablesOK
        BY DEF CovTyped
    <2>2. ASSUME NEW w \in DOMAIN wdToRel'
          PROVE  wdToRel'[w] \in DOMAIN relToWd' /\ relToWd'[wdToRel'[w]] = w
        <3>1. /\ w \in DOMAIN wdToRel /\ w \notin VictimWds(p) /\ wdToRel'[w] = wdToRel[w]
              /\ wdToRel[w] \in DOMAIN relToWd /\ relToWd[wdToRel[w]] = w
            BY <1>1, <2>1 DEF TablesOK
        <3>2. wdToRel[w] \notin Victims(p)
            BY <3>1 DEF VictimWds
        <3> QED BY <1>1, <3>1, <3>2
    <2> QED BY <1>1, <2>1, <2>2 DEF TablesOK
<1> QED BY <1>2, <1>3, <1>4

\* Handle, for every kind of event.
LEMMA HandleTyped ==
    ASSUME CoverageAssumption, CovTyped, Handle PROVE CovTyped'
<1> DEFINE e == Head(data)
<1>1. /\ data # <<>> /\ data' = Tail(data) /\ todo = <<>>
      /\ UNCHANGED <<tree, stale, used, lost, crossed, gap>>
    BY DEF Handle
<1>2. /\ e \in Events /\ EventsOK(data')
      /\ e.kind \in {"in", "out"} => e.name \in Names
    BY <1>1, HeadAndTail DEF CovTyped
<1>3. Inodes' = Inodes
    BY <1>1 DEF Inodes
<1>4. TreeOK' /\ UsedOK'
    BY <1>1, <1>3 DEF CovTyped, TreeOK, UsedOK, Dirs
<1>5. \/ HandleOverflow \/ HandleIgnored \/ HandleUnnamed \/ HandlePath
    BY DEF Handle
<1>6. CASE HandleOverflow
    <2>1. unknown' = TRUE /\ UNCHANGED <<watches, queue, todo, wdToRel, relToWd, batch>>
        BY <1>6 DEF HandleOverflow, kernel
    <2>2. WatchesOK' /\ EventsOK(queue') /\ TodoOK' /\ TablesOK' /\ RestOK'
        BY <1>1, <1>3, <2>1
        DEF CovTyped, WatchesOK, EventsOK, TodoOK, TablesOK, RestOK
    <2> QED BY <1>2, <1>4, <2>2 DEF CovTyped
<1>7. CASE HandleUnnamed
    <2>1. UNCHANGED <<watches, queue, todo, wdToRel, relToWd, batch, unknown>>
        BY <1>7 DEF HandleUnnamed, kernel
    <2>2. WatchesOK' /\ EventsOK(queue') /\ TodoOK' /\ TablesOK' /\ RestOK'
        BY <1>1, <1>3, <2>1
        DEF CovTyped, WatchesOK, EventsOK, TodoOK, TablesOK, RestOK
    <2> QED BY <1>2, <1>4, <2>2 DEF CovTyped
<1>8. CASE HandleIgnored
    <2>1. /\ UNCHANGED <<watches, queue, todo, batch, unknown>>
          /\ wdToRel' = [w \in DOMAIN wdToRel \ {e.wd} |-> wdToRel[w]]
          /\ relToWd' = IF e.wd \in DOMAIN wdToRel
                        THEN [q \in DOMAIN relToWd \ {wdToRel[e.wd]} |-> relToWd[q]]
                        ELSE relToWd
        BY <1>8 DEF HandleIgnored, kernel, Restrict
    <2>2. WatchesOK' /\ EventsOK(queue') /\ TodoOK' /\ RestOK'
        BY <1>1, <1>3, <2>1 DEF CovTyped, WatchesOK, EventsOK, TodoOK, RestOK
    <2>3. TablesOK'
        <3> HIDE DEF e
        <3>1. TablesOK
            BY DEF CovTyped
        <3>2. CASE e.wd \in DOMAIN wdToRel
            BY <2>1, <3>1, <3>2 DEF TablesOK
        <3>3. CASE e.wd \notin DOMAIN wdToRel
            BY <2>1, <3>1, <3>3 DEF TablesOK
        <3> QED BY <3>2, <3>3
    <2> QED BY <1>2, <1>4, <2>2, <2>3 DEF CovTyped
<1>9. CASE HandlePath
    <2>1. e.kind \in {"in", "out", "file", "self"} /\ e.wd \in DOMAIN wdToRel
        BY <1>9 DEF HandlePath
    <2>2. Rel \in NSeq
        <3>1. wdToRel[e.wd] \in NSeq
            BY <2>1, PathsAreSeqs DEF CovTyped, TablesOK
        <3>2. e.name \in Names \cup {None}
            BY <1>2, <2>1, EventsAre
        <3>3. CASE e.name = None
            BY <3>1, <3>3 DEF Rel
        <3>4. CASE e.name # None
            BY <3>1, <3>2, <3>4, AppendBelow DEF Rel
        <3> QED BY <3>3, <3>4
    <2>3. /\ batch' = batch \cup {<<IF e.kind = "file" THEN "file" ELSE "tree", Rel>>}
          /\ todo' = IF e.kind = "in" THEN <<<<"add", Rel>>>> ELSE <<>>
          /\ UNCHANGED unknown
        BY <1>9 DEF HandlePath
    <2>4. RestOK'
        BY <1>1, <1>3, <2>2, <2>3 DEF CovTyped, RestOK
    <2>5. TodoOK'
        <3> DEFINE t == <<"add", Rel>>
                   T == {"add", "scan"} \X NSeq
        <3>1. t \in T
            BY <2>2
        <3>2. todo' = <<t>> \/ todo' = <<>>
            BY <2>3
        <3> HIDE DEF t, T
        <3>3. <<t>> \in Seq(T) /\ <<>> \in Seq(T)
            BY <3>1, EmptySeq
        <3> QED BY <3>2, <3>3 DEF TodoOK, T
    <2>6. WatchesOK' /\ EventsOK(queue') /\ TablesOK'
        <3>1. CASE e.kind = "out"
            <4>1. RemovePrefixWatches(Rel)
                BY <1>9, <3>1 DEF HandlePath
            <4> QED BY <1>1, <4>1, VictimsTyped
        <3>2. CASE e.kind # "out"
            <4>1. UNCHANGED <<watches, queue, wdToRel, relToWd>>
                BY <1>9, <3>2 DEF HandlePath, kernel
            <4> QED BY <1>1, <1>3, <4>1 DEF CovTyped, WatchesOK, EventsOK, TablesOK
        <3> QED BY <3>1, <3>2
    <2> QED BY <1>2, <1>4, <2>4, <2>5, <2>6 DEF CovTyped
<1> QED BY <1>5, <1>6, <1>7, <1>8, <1>9

\* The next call of the recursion.
LEMMA TodoIs ==
    ASSUME CovTyped, todo # <<>>
    PROVE  /\ Head(todo)[1] \in {"add", "scan"} /\ Head(todo)[2] \in NSeq
           /\ Head(todo) = <<Head(todo)[1], Head(todo)[2]>>
           /\ Tail(todo) \in Seq({"add", "scan"} \X NSeq)
           /\ Head(todo) = todo[1] /\ Len(todo) \in Nat \ {0} /\ Len(Tail(todo)) = Len(todo) - 1
           /\ \A i \in 1..Len(Tail(todo)) : Tail(todo)[i] = todo[i + 1]
<1> DEFINE T == {"add", "scan"} \X NSeq
<1>1. todo \in Seq(T)
    BY DEF CovTyped, TodoOK
<1> HIDE DEF T
<1>2. /\ Head(todo) \in T /\ Tail(todo) \in Seq(T) /\ Len(Tail(todo)) = Len(todo) - 1
      /\ \A i \in 1..Len(Tail(todo)) : Tail(todo)[i] = todo[i + 1]
      /\ Len(todo) \in Nat \ {0} /\ Head(todo) = todo[1]
    BY <1>1, HeadTailProperties, EmptySeq
<1> QED BY <1>2 DEF T

\* A descriptor that gets a name keeps the maps inverse.
LEMMA RegisteredTyped ==
    ASSUME CovTyped, NEW p \in Paths, NEW wd \in Nat, p \notin DOMAIN relToWd,
           Registered(p, wd)
    PROVE  TablesOK'
<1>1. TablesOK
    BY DEF CovTyped
<1>2. /\ wdToRel' = [w \in DOMAIN wdToRel \cup {wd} |-> IF w = wd THEN p ELSE wdToRel[w]]
      /\ relToWd' = [q \in DOMAIN relToWd \cup {p} |-> IF q = p THEN wd ELSE relToWd[q]]
    BY DEF Registered
<1> QED BY <1>1, <1>2 DEF TablesOK

\* AddWatch: a new descriptor, or the one that the directory has.
LEMMA AddWatchTyped ==
    ASSUME CoverageAssumption, CovTyped, AddWatch PROVE CovTyped'
<1> DEFINE p == Head(todo)[2]
<1>1. /\ todo # <<>> /\ todo' = <<<<"scan", p>>>> \o Tail(todo)
      /\ UNCHANGED <<tree, queue, data, batch, unknown, stale, lost, crossed, gap>>
    BY DEF AddWatch, At
<1>2. p \in NSeq /\ Tail(todo) \in Seq({"add", "scan"} \X NSeq)
    BY <1>1, TodoIs
<1>3. \/ UNCHANGED <<watches, wdToRel, relToWd, used>>
      \/ /\ p \in Dirs \ DOMAIN relToWd /\ \E wd \in Watching(tree[p]) : Registered(p, wd)
         /\ UNCHANGED <<watches, used>>
      \/ /\ p \in Dirs \ DOMAIN relToWd /\ Watching(tree[p]) = {}
         /\ Use({"wd"}) /\ Registered(p, used'.wd)
         /\ watches' = [wd \in DOMAIN watches \cup {used'.wd} |->
                          IF wd = used'.wd THEN tree[p] ELSE watches[wd]]
    BY DEF AddWatch
<1>4. TodoOK'
    <2> DEFINE t == <<"scan", p>>
               T == {"add", "scan"} \X NSeq
    <2>1. t \in T
        BY <1>2
    <2>2. todo' = <<t>> \o Tail(todo) /\ Tail(todo) \in Seq(T)
        BY <1>1, <1>2
    <2> HIDE DEF t, T, p
    <2>3. <<t>> \in Seq(T)
        BY <2>1
    <2>4. todo' \in Seq(T)
        BY <2>2, <2>3, ConcatProperties
    <2> QED BY <2>4 DEF TodoOK, T
<1>5. /\ UsedOK' /\ used'.make = used.make /\ used'.wd \in {used.wd, used.wd + 1}
      /\ Use({"wd"}) => used'.wd = used.wd + 1
    BY <1>3 DEF CovTyped, UsedOK, Use
<1>6. Inodes' = Inodes
    BY <1>5 DEF Inodes
<1> HIDE DEF p
<1>7. p \in Dirs => p \in Paths /\ tree[p] \in Inodes
    BY DEF Dirs, CovTyped, TreeOK
<1>8. DOMAIN watches \subseteq Nat /\ used.wd \in Nat
    BY DEF CovTyped, WatchesOK, UsedOK
<1>9. WatchesOK' /\ TablesOK'
    <2>1. CASE UNCHANGED <<watches, wdToRel, relToWd, used>>
        BY <1>6, <2>1 DEF CovTyped, WatchesOK, TablesOK
    <2>2. CASE /\ p \in Dirs \ DOMAIN relToWd
               /\ \E wd \in Watching(tree[p]) : Registered(p, wd)
               /\ UNCHANGED <<watches, used>>
        <3>1. PICK wd \in Watching(tree[p]) : Registered(p, wd)
            BY <2>2
        <3>2. wd \in Nat
            BY <1>8 DEF Watching
        <3>3. TablesOK'
            BY <1>7, <2>2, <3>1, <3>2, RegisteredTyped
        <3> QED BY <1>6, <2>2, <3>3 DEF CovTyped, WatchesOK
    <2>3. CASE /\ p \in Dirs \ DOMAIN relToWd /\ Watching(tree[p]) = {}
               /\ Use({"wd"}) /\ Registered(p, used'.wd)
               /\ watches' = [wd \in DOMAIN watches \cup {used'.wd} |->
                                IF wd = used'.wd THEN tree[p] ELSE watches[wd]]
        <3> DEFINE v == used'.wd
        <3>1. v = used.wd + 1 /\ v \in Nat
            BY <1>5, <1>8, <2>3
        <3> HIDE DEF v
        <3>2. Registered(p, v)
            BY <2>3 DEF v
        <3>3. TablesOK'
            BY <1>7, <2>3, <3>1, <3>2, RegisteredTyped
        <3>4. watches' = [wd \in DOMAIN watches \cup {v} |->
                                IF wd = v THEN tree[p] ELSE watches[wd]]
            BY <2>3 DEF v
        <3>5. watches' \in [DOMAIN watches' -> Inodes]
            BY <1>7, <2>3, <3>4 DEF CovTyped, WatchesOK
        <3>6. DOMAIN watches' \subseteq 0..v
            BY <1>8, <3>1, <3>4 DEF CovTyped, WatchesOK
        <3> QED BY <1>6, <3>3, <3>5, <3>6 DEF WatchesOK, v
    <2> QED BY <1>3, <2>1, <2>2, <2>3 DEF p
<1>10. TreeOK' /\ EventsOK(queue') /\ EventsOK(data') /\ RestOK'
    BY <1>1, <1>6 DEF CovTyped, TreeOK, EventsOK, RestOK, Dirs
<1> QED BY <1>4, <1>5, <1>9, <1>10 DEF CovTyped

\* AddRefused drops what was read.
LEMMA AddRefusedTyped ==
    ASSUME CoverageAssumption, CovTyped, AddRefused PROVE CovTyped'
<1>1. /\ Use({"lose"}) /\ unknown' = TRUE /\ lost' = TRUE /\ todo' = <<>> /\ data' = <<>>
      /\ UNCHANGED <<tree, watches, queue, wdToRel, relToWd, batch, stale, crossed, gap>>
    BY DEF AddRefused, kernel
<1>2. UsedOK' /\ used'.make = used.make /\ used'.wd = used.wd
    BY <1>1 DEF CovTyped, UsedOK, Use
<1>3. Inodes' = Inodes
    BY <1>2 DEF Inodes
<1>4. EventsOK(data') /\ TodoOK' /\ EventsOK(queue')
    BY <1>1, EmptyTyped DEF TodoOK, CovTyped, EventsOK
<1> QED BY <1>1, <1>2, <1>3, <1>4
        DEF CovTyped, TreeOK, WatchesOK, TablesOK, RestOK, Dirs

\* Reconcile empties the batch.
LEMMA ReconcileTyped ==
    ASSUME CoverageAssumption, CovTyped, Reconcile PROVE CovTyped'
<1>1. /\ stale' \subseteq stale /\ batch' = {} /\ unknown' = FALSE
      /\ UNCHANGED <<tree, watches, queue, data, todo, wdToRel, relToWd, used, lost, crossed, gap>>
    BY DEF Reconcile, kernel, reader
<1>2. Inodes' = Inodes
    BY <1>1 DEF Inodes
<1> QED BY <1>1, <1>2
        DEF CovTyped, TreeOK, UsedOK, WatchesOK, EventsOK, TodoOK, TablesOK, RestOK, Dirs

\* The subdirectories are finitely many, as inodes are.
LEMMA ChildrenFinite ==
    ASSUME CoverageAssumption, CovTyped, NEW p PROVE IsFiniteSet(Children(p))
<1> DEFINE f == [q \in Children(p) |-> tree[q]]
<1>1. Children(p) \subseteq Dirs
    BY DEF Children
<1>2. \A q \in Dirs : tree[q] \in Inodes
    BY DEF Dirs, CovTyped, TreeOK
<1>3. f \in Injection(Children(p), Inodes)
    <2>1. f \in [Children(p) -> Inodes]
        BY <1>1, <1>2
    <2>2. IsInjective(f)
        BY <1>1 DEF CovTyped, TreeOK, IsInjective
    <2> QED BY <2>1, <2>2 DEF Injection
<1>4. IsFiniteSet(Inodes)
    <2> DEFINE n == Cardinality(InitialDirs) + used.make
    <2>1. n \in Nat
        BY CardNat DEF CovTyped, UsedOK
    <2> HIDE DEF n
    <2>2. IsFiniteSet(0..n)
        BY <2>1, FS_Interval
    <2> QED BY <2>2 DEF Inodes, n
<1> QED BY <1>3, <1>4, FS_Injection

\* What Scan leaves to do: one call for every subdirectory.
LEMMA ScanTodo ==
    ASSUME CoverageAssumption, CovTyped, Scan
    PROVE  \E calls \in Seq({"add", "scan"} \X NSeq) :
              /\ todo' = calls \o Tail(todo)
              /\ \A i \in 1..Len(calls) :
                    calls[i][1] = "add" /\ calls[i][2] \in Children(Head(todo)[2])
              /\ \A q \in Children(Head(todo)[2]) : \E i \in 1..Len(calls) : calls[i][2] = q
<1> DEFINE S == Children(Head(todo)[2])
           T == {"add", "scan"} \X NSeq
<1>1. PICK children \in SetToSeqs(S) :
         todo' = [i \in DOMAIN children |-> <<"add", children[i]>>] \o Tail(todo)
    BY DEF Scan
<1>2. IsFiniteSet(S)
    BY ChildrenFinite
<1>3. S \subseteq NSeq
    BY DirsAre DEF Children
<1> DEFINE calls == [i \in DOMAIN children |-> <<"add", children[i]>>]
<1>4. /\ children \in Seq(S) /\ Len(children) \in Nat
      /\ \A x \in S : \E i \in 1..Len(children) : children[i] = x
    <2> HIDE DEF S
    <2>1. children \in [1..Cardinality(S) -> S]
        BY <1>1 DEF SetToSeqs
    <2>2. IsInjective(children)
        BY <1>1, <2>1 DEF SetToSeqs, IsInjective
    <2> QED BY <1>2, <2>1, <2>2, Listing, FS_CardinalityType
<1>5. DOMAIN children = 1..Len(children) /\ \A i \in 1..Len(children) : children[i] \in S
    <2> HIDE DEF S
    <2> QED BY ONLY <1>4, LenProperties
<1>6. calls \in [1..Len(children) -> T]
    BY <1>3, <1>5
<1>7. calls \in Seq(T) /\ Len(calls) = Len(children)
    <2> HIDE DEF calls, T
    <2> QED BY ONLY <1>4, <1>6, FunctionIsSeq
<1>8. \A i \in 1..Len(calls) : calls[i][1] = "add" /\ calls[i][2] = children[i]
    BY <1>5, <1>7
<1>9. todo' = calls \o Tail(todo)
    BY <1>1
<1> HIDE DEF calls
<1>10. /\ \A i \in 1..Len(calls) : calls[i][1] = "add" /\ calls[i][2] \in S
       /\ \A q \in S : \E i \in 1..Len(calls) : calls[i][2] = q
    BY <1>4, <1>5, <1>7, <1>8
<1> QED BY <1>7, <1>9, <1>10

\* Scan: ScanTodo says which calls follow.
LEMMA ScanTyped ==
    ASSUME CoverageAssumption, CovTyped, Scan PROVE CovTyped'
<1>1. /\ todo # <<>>
      /\ UNCHANGED <<tree, watches, queue, data, wdToRel, relToWd, batch, unknown, stale, used,
                     lost, crossed, gap>>
    BY DEF Scan, At, kernel
<1>2. Inodes' = Inodes
    BY <1>1 DEF Inodes
<1>3. TodoOK'
    <2> DEFINE T == {"add", "scan"} \X NSeq
    <2>1. PICK calls \in Seq(T) : todo' = calls \o Tail(todo)
        BY ScanTodo
    <2>2. Tail(todo) \in Seq(T)
        BY <1>1, TodoIs
    <2> HIDE DEF T
    <2>3. todo' \in Seq(T)
        BY <2>1, <2>2, ConcatProperties
    <2> QED BY <2>3 DEF TodoOK, T
<1> QED BY <1>1, <1>2, <1>3
        DEF CovTyped, TreeOK, UsedOK, WatchesOK, EventsOK, TablesOK, RestOK, Dirs

\* Every directory there is has a number, and so a watch.
LEMMA InitNumbers ==
    ASSUME CoverageAssumption, Init
    PROVE  LET all == InitialDirs \cup {<<>>} IN
           /\ relToWd \in [all -> 0..Cardinality(InitialDirs)] /\ relToWd[<<>>] = 0
           /\ \A p, q \in all : relToWd[p] = relToWd[q] => p = q
           /\ tree = [p \in Paths |-> IF p \in all THEN relToWd[p] ELSE None]
           /\ watches = [wd \in Range(relToWd) |-> wd]
           /\ wdToRel \in [Range(relToWd) -> all]
           /\ \A wd \in Range(relToWd) : relToWd[wdToRel[wd]] = wd
<1> DEFINE n == Cardinality(InitialDirs)
           listed == SetToSeq(InitialDirs)
           dirs == <<<<>>>> \o listed
           number == [p \in Range(dirs) |-> (CHOOSE i \in DOMAIN dirs : dirs[i] = p) - 1]
           all == InitialDirs \cup {<<>>}
<1>1. /\ tree = [p \in Paths |-> IF p \in DOMAIN number THEN number[p] ELSE None]
      /\ watches = [wd \in Range(number) |-> wd]
      /\ wdToRel = [wd \in Range(number) |-> CHOOSE p \in DOMAIN number : number[p] = wd]
      /\ relToWd = number
    BY DEF Init
<1>2. IsFiniteSet(InitialDirs) /\ n \in Nat /\ <<>> \notin InitialDirs
    BY CardNat DEF CoverageAssumption
<1>3. listed \in Seq(InitialDirs) /\ Len(listed) = n /\ Range(listed) = InitialDirs
    <2> HIDE DEF listed
    <2>1. listed \in [1..Cardinality(InitialDirs) -> InitialDirs] /\ IsInjective(listed)
        BY <1>2, SetToSeqLists DEF listed
    <2> QED BY <1>2, <2>1, Listing
<1> HIDE DEF listed
<1> DEFINE z == <<>>
<1>4. <<z>> \in Seq(all) /\ Len(<<z>>) = 1 /\ <<z>>[1] = z
    OBVIOUS
<1>5. dirs = <<z>> \o listed
    OBVIOUS
<1> DEFINE w == <<z>>
<1>6. /\ w \in Seq(all) /\ Len(w) = 1 /\ w[1] = <<>> /\ dirs = w \o listed
    BY <1>4, <1>5
<1> HIDE DEF w, dirs, z
<1>7. listed \in Seq(all)
    BY <1>3, SeqMonotonic
<1>8. /\ dirs \in Seq(all) /\ Len(dirs) = n + 1 /\ dirs[1] = <<>>
      /\ Range(dirs) = Range(w) \cup Range(listed)
    <2> HIDE DEF all
    <2>1. /\ w \o listed \in Seq(all) /\ Len(w \o listed) = Len(w) + Len(listed)
          /\ \A i \in 1..Len(w) + Len(listed) :
                (w \o listed)[i] = IF i <= Len(w) THEN w[i] ELSE listed[i - Len(w)]
          /\ Range(w \o listed) = Range(w) \cup Range(listed)
        BY ONLY <1>6, <1>7, ConcatProperties, RangeConcatenation
    <2> QED BY <1>2, <1>3, <1>6, <2>1
<1>9. Range(w) = {<<>>}
    <2>1. Range(w) = {w[i] : i \in 1..Len(w)}
        BY <1>6, RangeOf
    <2> QED BY <1>6, <2>1
<1>10. /\ Range(dirs) = all /\ DOMAIN dirs = 1..(n + 1)
       /\ all = {dirs[i] : i \in 1..(n + 1)}
    <2>1. Range(dirs) = all
        BY <1>3, <1>8, <1>9
    <2> HIDE DEF all
    <2>2. Range(dirs) = {dirs[i] : i \in 1..Len(dirs)} /\ DOMAIN dirs = 1..Len(dirs)
        BY <1>8, RangeOf, LenProperties
    <2> QED BY <1>8, <2>1, <2>2
<1>11. DOMAIN number = all
    BY <1>10
<1>12. ASSUME NEW p \in all
       PROVE  number[p] \in 0..n /\ number[p] + 1 \in 1..(n + 1) /\ dirs[number[p] + 1] = p
    <2> DEFINE i == CHOOSE j \in DOMAIN dirs : dirs[j] = p
    <2>1. \E j \in DOMAIN dirs : dirs[j] = p
        BY <1>10, <1>12
    <2>2. i \in 1..(n + 1) /\ dirs[i] = p
        BY <1>10, <2>1
    <2>3. number[p] = i - 1
        BY <1>11, <1>12
    <2> HIDE DEF i, number
    <2> QED BY <1>2, <2>2, <2>3
<1> HIDE DEF number
<1>13. ASSUME NEW p \in all, NEW q \in all, number[p] = number[q] PROVE p = q
    BY <1>12, <1>13
<1>14. number \in [all -> 0..n]
    <2>1. number = [p \in all |-> number[p]]
        BY <1>10 DEF number
    <2> HIDE DEF all
    <2> QED BY <1>12, <2>1
<1>15. number[<<>>] = 0
    <2>1. <<>> \in all
        OBVIOUS
    <2> DEFINE k == number[<<>>] + 1
    <2>2. k \in 1..(n + 1) /\ dirs[k] = <<>> /\ number[<<>>] \in 0..n
        BY <1>12, <2>1
    <2>3. k = 1
        <3> SUFFICES ASSUME k # 1 PROVE FALSE
            OBVIOUS
        <3> HIDE DEF k
        <3>1. k - 1 \in 1..n /\ ~(k <= 1) /\ k \in 1..(1 + n)
            BY <1>2, <2>2
        <3>2. dirs[k] = listed[k - 1]
            <4> HIDE DEF all, number
            <4>1. \A i \in 1..Len(w) + Len(listed) :
                     (w \o listed)[i] = IF i <= Len(w) THEN w[i] ELSE listed[i - Len(w)]
                BY ONLY <1>6, <1>7, ConcatProperties
            <4> QED BY ONLY <1>3, <1>6, <3>1, <4>1
        <3>3. listed[k - 1] \in InitialDirs
            BY <1>3, <3>1, LenProperties
        <3> QED BY <1>2, <2>2, <3>2, <3>3
    <2> HIDE DEF number
    <2> QED BY <2>2, <2>3
<1>16. ASSUME NEW wd \in Range(number)
       PROVE  wdToRel[wd] \in all /\ number[wdToRel[wd]] = wd
    <2>1. \E p \in DOMAIN number : number[p] = wd
        BY <1>16 DEF Range
    <2>2. wdToRel[wd] = CHOOSE p \in DOMAIN number : number[p] = wd
        BY <1>1, <1>16
    <2> QED BY <1>11, <2>1, <2>2
<1>17. wdToRel \in [Range(number) -> all]
    <2>1. wdToRel = [wd \in Range(number) |-> wdToRel[wd]]
        BY <1>1
    <2> QED BY <1>16, <2>1
<1> QED BY <1>1, <1>11, <1>13, <1>14, <1>15, <1>16, <1>17

\* At the start.
LEMMA InitTyped == ASSUME CoverageAssumption, Init PROVE CovTyped
<1> DEFINE all == InitialDirs \cup {<<>>}
<1>1. /\ relToWd \in [all -> 0..Cardinality(InitialDirs)] /\ relToWd[<<>>] = 0
      /\ \A p, q \in all : relToWd[p] = relToWd[q] => p = q
      /\ tree = [p \in Paths |-> IF p \in all THEN relToWd[p] ELSE None]
      /\ watches = [wd \in Range(relToWd) |-> wd]
      /\ wdToRel \in [Range(relToWd) -> all]
      /\ \A wd \in Range(relToWd) : relToWd[wdToRel[wd]] = wd
    BY InitNumbers
<1>2. /\ queue = <<>> /\ data = <<>> /\ todo = <<>>
      /\ batch = {} /\ unknown = FALSE /\ stale = {}
      /\ used = [make |-> 0, move |-> 0, remove |-> 0, write |-> 0, lose |-> 0,
                 wd |-> Cardinality(InitialDirs)]
      /\ lost = FALSE /\ crossed = FALSE /\ gap = {}
    BY DEF Init
<1>3. /\ Cardinality(InitialDirs) \in Nat /\ None \notin Nat
      /\ \A p \in InitialDirs : \A q \in Paths \ {<<>>} : Below(q, p) => q \in InitialDirs
      /\ InitialDirs \subseteq Paths \ {<<>>} /\ MaxDepth \in Nat
    BY CardNat DEF CoverageAssumption
<1>4. <<>> \in Paths
    BY <1>3, PathsByLen, EmptySeq, PathsAreSeqs
<1>5. Inodes = 0..Cardinality(InitialDirs)
    BY <1>2, <1>3 DEF Inodes
<1>6. Dirs = all
    BY <1>1, <1>3, <1>4 DEF Dirs
<1>7. TreeOK
    <2>1. tree \in [Paths -> Inodes \cup {None}] /\ tree[<<>>] = 0
        BY <1>1, <1>4, <1>5
    <2>2. \A p, q \in Dirs : tree[p] = tree[q] => p = q
        BY <1>1, <1>3, <1>4, <1>6
    <2>3. ASSUME NEW r \in Dirs, NEW y \in NSeq, Below(y, r) PROVE y \in Dirs
        <3>1. r \in NSeq /\ r \in Paths /\ Len(y) <= Len(r) /\ Len(y) \in Nat /\ Len(r) \in Nat
            BY <2>3, PathsAreSeqs, SeqLen, BelowByEntries DEF Dirs
        <3>2. y \in Paths
            BY <1>3, <3>1, PathsByLen
        <3> QED BY <1>3, <1>6, <2>3, <3>1, <3>2, BelowOrder
    <2> QED BY <2>1, <2>2, <2>3 DEF TreeOK
<1>8. UsedOK /\ used.wd = Cardinality(InitialDirs)
    BY <1>2, <1>3 DEF UsedOK
<1>9. Range(relToWd) \subseteq 0..Cardinality(InitialDirs)
    BY <1>1 DEF Range
<1>10. WatchesOK
    BY <1>1, <1>5, <1>8, <1>9 DEF WatchesOK
<1>11. TablesOK
    BY <1>1, <1>3, <1>4, <1>9 DEF TablesOK
<1>12. EventsOK(queue) /\ EventsOK(data) /\ TodoOK
    BY <1>2, EmptyTyped DEF TodoOK
<1> QED BY <1>2, <1>7, <1>8, <1>10, <1>11, <1>12 DEF CovTyped, RestOK

\* Every step keeps the types.
LEMMA TypedKept == CoverageAssumption /\ CovTyped /\ [Next]_vars => CovTyped'
<1> SUFFICES ASSUME CoverageAssumption, CovTyped, [Next]_vars PROVE CovTyped'
    OBVIOUS
<1>1. ASSUME NEW p \in Paths, Mkdir(p) \/ Rmdir(p) \/ Write(p) PROVE CovTyped'
    BY <1>1, MkdirTyped, RmdirTyped, WriteTyped
<1>2. ASSUME NEW p \in Paths, NEW q \in Paths, Rename(p, q) PROVE CovTyped'
    BY <1>2, RenameTyped
<1>3. CASE ReadChunk \/ Handle \/ AddWatch \/ AddRefused \/ Scan \/ Reconcile
    BY <1>3, ReadChunkTyped, HandleTyped, AddWatchTyped, AddRefusedTyped, ScanTyped,
       ReconcileTyped
<1>4. CASE UNCHANGED vars
    BY <1>4 DEF vars, kernel, reader, CovTyped, TreeOK, UsedOK, WatchesOK, EventsOK, TodoOK,
                TablesOK, RestOK, Dirs, Inodes
<1> QED BY <1>1, <1>2, <1>3, <1>4 DEF Next

(***************************************************************************)
(* The inductive invariant.                                                *)
(***************************************************************************)
\* The events that are still to be handled, in their order.
Pending == data \o queue
NameOf(i) == wdToRel[Pending[i].wd]
Named(i)  == Pending[i].wd \in DOMAIN wdToRel
Loc(i)    == Append(NameOf(i), Pending[i].name)

\* Event i will take the names of p away.
Out(i, p)  == Pending[i].kind = "out" /\ Named(i) /\ Below(Loc(i), p)
Doomed(p)  == \E i \in 1..Len(Pending) : Out(i, p)

\* The watch of event i will still have its name when it is handled.
Live(i)    == Named(i) /\ \A j \in 1..(i - 1) : ~Out(j, NameOf(i))
Coming(i)  == Pending[i].kind = "in" /\ Live(i)

Right(p) == /\ p \in DOMAIN relToWd /\ p \in Dirs
            /\ relToWd[p] \in DOMAIN watches /\ watches[relToWd[p]] = tree[p]
Related(s, q) == \E r \in Paths : Below(s, r) /\ Below(q, r)

EventsFit ==
    /\ \A i \in 1..Len(Pending) :
          /\ Pending[i].kind # "overflow" /\ Pending[i].wd <= used.wd
          /\ Pending[i].kind = "file" => Pending[i].name = None
    /\ \A i \in 1..Len(Pending) : Pending[i].kind = "ignored" =>
          /\ Pending[i].wd \notin DOMAIN watches
          /\ \A j \in (i + 1)..Len(Pending) : Pending[j].wd # Pending[i].wd

TablesFit ==
    /\ DOMAIN watches \subseteq DOMAIN wdToRel /\ DOMAIN wdToRel \subseteq 0..used.wd
    /\ \A v, w \in DOMAIN watches : watches[v] = watches[w] => v = w
    /\ \A q \in DOMAIN relToWd : relToWd[q] \in DOMAIN wdToRel /\ wdToRel[relToWd[q]] = q

\* What is registered is right, or will be taken away; and so it is above it.
RegisteredFit ==
    /\ \A p \in DOMAIN relToWd : Right(p) \/ Doomed(p)
    /\ \A p \in DOMAIN relToWd : \A y \in NSeq : Below(y, p) => y \in DOMAIN relToWd \/ Doomed(p)

\* A watch under the name of another time loses it before the reader comes to the place
\* where its directory is now.
Stale(q, w) ==
    /\ \A k \in 1..Len(todo) : ~Related(todo[k][2], q)
    /\ \E i \in 1..Len(Pending) :
          Out(i, wdToRel[w]) /\ \A j \in 1..(i - 1) : Coming(j) => ~Related(Loc(j), q)
NamesFit == \A q \in Dirs : \A w \in DOMAIN watches :
               watches[w] = tree[q] /\ wdToRel[w] # q => Stale(q, w)

\* The reader is led to what there is, or to what it will learn is gone.
ComingFit == \A i \in 1..Len(Pending) : Coming(i) =>
                Loc(i) \in Dirs \/ \E j \in (i + 1)..Len(Pending) : Out(j, Loc(i))
TodoFit ==
    \A k \in 1..Len(todo) :
       /\ todo[k][2] \in Dirs \/ Doomed(todo[k][2])
       /\ \A y \in NSeq : Below(y, todo[k][2]) /\ y # todo[k][2] =>
             y \in DOMAIN relToWd \/ Doomed(todo[k][2])
       /\ todo[k][1] = "scan" => todo[k][2] \in DOMAIN relToWd \/ Doomed(todo[k][2])

\* A directory is watched for good, or the reader will come to it by an event, or by a
\* call that is to be made.
Kept(p)  == Right(p) /\ ~Doomed(p)
Heard(p) == \E i \in 1..Len(Pending) :
               /\ Coming(i) /\ Below(Loc(i), p)
               /\ \A j \in (i + 1)..Len(Pending) : ~(Live(j) /\ Out(j, p))
Called(p)   == /\ ~Doomed(p)
            /\ \E k \in 1..Len(todo) : /\ Below(todo[k][2], p)
                                       /\ todo[k][1] = "scan" => todo[k][2] # p
Reached  == \A p \in Dirs : Kept(p) \/ Heard(p) \/ Called(p)

\* What is not read is recorded, or an event is pending that will record it.
Noted(p) ==
    \/ unknown \/ <<"file", p>> \in batch
    \/ \E q \in Paths : <<"tree", q>> \in batch /\ Below(q, p)
    \/ \E i \in 1..Len(Pending) : Coming(i) /\ Below(Loc(i), p)
    \/ \E i \in 1..Len(Pending) : Pending[i].kind = "file" /\ Live(i) /\ NameOf(i) = p
StaleNoted ==
    /\ \A p \in Dirs : tree[p] \in stale => tree[p] \in gap \/ Noted(p)
    /\ \A d \in stale : \E p \in Dirs : tree[p] = d

Fits == /\ EventsFit /\ TablesFit /\ RegisteredFit /\ NamesFit /\ ComingFit /\ TodoFit
        /\ Reached /\ StaleNoted

CovInv == CovTyped /\ (~lost /\ ~crossed => Fits)

(***************************************************************************)
(* What follows from it in a state.                                        *)
(***************************************************************************)
\* What is pending is data, then the queue.
LEMMA PendingIs ==
    ASSUME CovTyped
    PROVE  /\ Pending \in Seq(Events) /\ Len(Pending) \in Nat
           /\ Range(Pending) = Range(data) \cup Range(queue)
           /\ Range(Pending) = {Pending[i] : i \in 1..Len(Pending)}
           /\ \A i \in 1..Len(Pending) :
                 /\ Pending[i] \in Events
                 /\ Pending[i].kind # "overflow" => Pending[i].kind \in Kinds /\ Pending[i].wd \in Nat
                 /\ Pending[i].kind \in {"in", "out"} => Pending[i].name \in Names
<1>1. data \in Seq(Events) /\ queue \in Seq(Events)
    BY DEF CovTyped, EventsOK
<1>2. /\ Pending \in Seq(Events) /\ Len(Pending) \in Nat
      /\ Range(Pending) = Range(data) \cup Range(queue)
    BY <1>1, ConcatProperties, RangeConcatenation, LenProperties DEF Pending
<1>3. Range(Pending) = {Pending[i] : i \in 1..Len(Pending)} /\ Range(Pending) \subseteq Events
    BY <1>2, RangeOf
<1>4. \A e \in Range(Pending) : e.kind \in {"in", "out"} => e.name \in Names
    BY <1>2 DEF CovTyped, EventsOK
<1> HIDE DEF Pending
<1>5. ASSUME NEW i \in 1..Len(Pending)
      PROVE  /\ Pending[i] \in Events
             /\ Pending[i].kind # "overflow" => Pending[i].kind \in Kinds /\ Pending[i].wd \in Nat
             /\ Pending[i].kind \in {"in", "out"} => Pending[i].name \in Names
    <2>1. Pending[i] \in Range(Pending)
        BY <1>3
    <2> QED BY <1>3, <1>4, <2>1, EventsAre
<1> QED BY <1>2, <1>3, <1>5

\* An event whose watch is known has a place.
LEMMA NameIs ==
    ASSUME CovTyped, NEW i \in 1..Len(Pending), Named(i)
    PROVE  /\ NameOf(i) \in Paths /\ NameOf(i) \in NSeq /\ NameOf(i) \in DOMAIN relToWd
           /\ relToWd[NameOf(i)] = Pending[i].wd
           /\ Pending[i].kind \in {"in", "out"} =>
                 /\ Loc(i) \in NSeq /\ Loc(i) # <<>> /\ Front(Loc(i)) = NameOf(i)
                 /\ Pending[i].name \in Names /\ Last(Loc(i)) = Pending[i].name
                 /\ Below(NameOf(i), Loc(i)) /\ ~Below(Loc(i), NameOf(i))
                 /\ \A y \in NSeq : Below(y, Loc(i)) => y = Loc(i) \/ Below(y, NameOf(i))
<1>1. /\ NameOf(i) \in Paths /\ NameOf(i) \in NSeq /\ NameOf(i) \in DOMAIN relToWd
      /\ relToWd[NameOf(i)] = Pending[i].wd
    BY PathsAreSeqs DEF Named, NameOf, CovTyped, TablesOK
<1>2. Pending[i].kind \in {"in", "out"} => Pending[i].name \in Names
    BY PendingIs
<1> QED BY <1>1, <1>2, AppendBelow DEF Loc

\* What takes away the names of p takes those below p away.
LEMMA OutDown ==
    ASSUME CovTyped, NEW i \in 1..Len(Pending), NEW p \in NSeq, NEW q \in NSeq,
           Out(i, p), Below(p, q)
    PROVE  Out(i, q)
<1>1. Named(i) /\ Pending[i].kind = "out" /\ Below(Loc(i), p)
    BY DEF Out
<1>2. Loc(i) \in NSeq
    BY <1>1, NameIs
<1> QED BY <1>1, <1>2, BelowOrder DEF Out

\* So what is doomed is doomed with all that is below it.
LEMMA DoomedDown ==
    ASSUME CovTyped, NEW p \in NSeq, NEW q \in NSeq, Doomed(p), Below(p, q)
    PROVE  Doomed(q)
    BY OutDown DEF Doomed

\* The first event that takes p away is one of a watch with its name.
LEMMA FirstOut ==
    ASSUME CovTyped, NEW p \in NSeq, Doomed(p)
    PROVE  \E i \in 1..Len(Pending) :
              Out(i, p) /\ Live(i) /\ \A j \in 1..(i - 1) : ~Out(j, p)
<1> DEFINE T == {i \in 1..Len(Pending) : Out(i, p)}
<1>1. T \subseteq Nat /\ T # {}
    BY DEF Doomed
<1>2. IsWellFoundedOn(OpToRel(<, Nat), Nat)
    BY NatLessThanWellFounded
<1>3. PICK i \in T : \A j \in T : ~(<<j, i>> \in OpToRel(<, Nat))
    <2> HIDE DEF T
    <2> QED BY <1>1, <1>2, WFMin
<1>4. \A j \in T : ~(j < i)
    BY <1>1, <1>3 DEF OpToRel
<1>5. Len(Pending) \in Nat
    BY PendingIs
<1>6. \A j \in 1..(i - 1) : j \in 1..Len(Pending) /\ ~Out(j, p)
    BY <1>4, <1>5
<1>7. Named(i) /\ Out(i, p) /\ Pending[i].kind = "out" /\ Below(Loc(i), p)
    BY DEF Out
<1>8. NameOf(i) \in NSeq /\ Loc(i) \in NSeq /\ Below(NameOf(i), Loc(i))
    BY <1>7, NameIs
<1>9. Below(NameOf(i), p)
    BY <1>7, <1>8, BelowOrder
<1>10. \A j \in 1..(i - 1) : ~Out(j, NameOf(i))
    BY <1>6, <1>8, <1>9, OutDown
<1> QED BY <1>6, <1>7, <1>10 DEF Live

\* Of two paths that have a path below both, one is below the other.
LEMMA RelatedAre ==
    ASSUME NEW s \in NSeq, NEW q \in NSeq, Related(s, q)
    PROVE  Below(s, q) \/ Below(q, s)
    BY PathsAreSeqs, BelowOrder DEF Related

\* What the watch of a directory says of it: the reader takes it for the directory's, or
\* is on its way there.
LEMMA Noticed ==
    ASSUME CovTyped, Fits, NEW f \in Dirs, NEW w \in Watching(tree[f])
    PROVE  (wdToRel[w] = f /\ ~Doomed(f) /\ w \in DOMAIN wdToRel) \/ Heard(f)
<1>1. w \in DOMAIN watches /\ watches[w] = tree[f] /\ w \in DOMAIN wdToRel
    BY DEF Watching, Fits, TablesFit
<1>2. Kept(f) \/ Heard(f) \/ Called(f)
    BY DEF Fits, Reached
<1>3. CASE Kept(f)
    <2>1. relToWd[f] \in DOMAIN watches /\ watches[relToWd[f]] = tree[f] /\ f \in DOMAIN relToWd
        BY <1>3 DEF Kept, Right
    <2>2. relToWd[f] = w
        BY <1>1, <2>1 DEF Fits, TablesFit
    <2> QED BY <1>1, <1>3, <2>1, <2>2 DEF Kept, Fits, TablesFit
<1>4. CASE Called(f)
    <2>1. PICK k \in 1..Len(todo) : Below(todo[k][2], f)
        BY <1>4 DEF Called
    <2>2. f \in Paths /\ f \in NSeq /\ Below(f, f)
        BY DirsAre, BelowOrder
    <2>3. Related(todo[k][2], f)
        BY <2>1, <2>2 DEF Related
    <2>4. wdToRel[w] = f
        BY <1>1, <2>3 DEF Fits, NamesFit, Stale
    <2> QED BY <1>1, <1>4, <2>4 DEF Called
<1> QED BY <1>2, <1>3, <1>4

\* If a directory above is announced, the reader is on its way.
LEMMA AnnouncedIsHeard ==
    ASSUME CovTyped, Fits, NEW f \in Dirs, Announced(f)
    PROVE  \E i \in 1..Len(Pending) : Coming(i) /\ Below(Loc(i), f)
<1>1. PICK i \in 1..Len(Pending) :
         /\ Pending[i].kind = "in" /\ Pending[i].wd \in DOMAIN wdToRel
         /\ Below(Append(wdToRel[Pending[i].wd], Pending[i].name), f)
    <2>1. PICK e \in Range(queue \o data) :
             /\ e.kind = "in" /\ e.wd \in DOMAIN wdToRel
             /\ Below(Append(wdToRel[e.wd], e.name), f)
        BY DEF Announced
    <2>2. Range(queue \o data) = Range(queue) \cup Range(data)
        BY RangeConcatenation DEF CovTyped, EventsOK
    <2>3. PICK i \in 1..Len(Pending) : e = Pending[i]
        BY <2>2, PendingIs
    <2> QED BY <2>1, <2>3
<1>2. Named(i) /\ Pending[i].kind = "in" /\ Below(Loc(i), f)
    BY <1>1 DEF Named, Loc, NameOf
<1>3. CASE Live(i)
    BY <1>2, <1>3 DEF Coming
<1>4. CASE ~Live(i)
    <2>1. PICK j \in 1..(i - 1) : Out(j, NameOf(i))
        BY <1>2, <1>4 DEF Live
    <2>2. j \in 1..Len(Pending)
        BY <2>1, PendingIs
    <2>3. /\ NameOf(i) \in NSeq /\ f \in NSeq /\ Loc(i) \in NSeq /\ Below(NameOf(i), Loc(i))
        BY <1>2, NameIs, DirsAre
    <2>4. Below(NameOf(i), f)
        BY <1>2, <2>3, BelowOrder
    <2>5. Doomed(f)
        BY <2>1, <2>2, <2>3, <2>4, OutDown DEF Doomed
    <2>6. Heard(f)
        BY <2>5 DEF Fits, Reached, Kept, Called
    <2> QED BY <2>6 DEF Heard
<1> QED BY <1>3, <1>4

(***************************************************************************)
(* The steps of the file system: events are appended.                      *)
(***************************************************************************)
\* A directory that is watched has one event of its own.
LEMMA EventOne ==
    ASSUME CovTyped, NEW dir, NEW kind \in Kinds, NEW name \in Names \cup {None},
           kind \in {"in", "out"} => name \in Names,
           NEW s, s = Event(dir, kind, name)
    PROVE  /\ EventsOK(s) /\ s \in Seq(Events)
           /\ \/ Watching(dir) = {} /\ Len(s) = 0
              \/ /\ Len(s) = 1 /\ s[1].wd \in Watching(dir)
                 /\ s[1].kind = kind /\ s[1].name = name
<1>1. EventsOK(s)
    BY EventSent
<1>2. s \in Seq(Events)
    BY <1>1 DEF EventsOK
<1>3. CASE Watching(dir) = {}
    <2>1. s = <<>>
        BY <1>3, EventIs
    <2>2. Len(s) = 0
        BY <2>1
    <2> QED BY <1>1, <1>2, <1>3, <2>2
<1>4. CASE Watching(dir) # {}
    <2>1. PICK w \in Watching(dir) : s = <<[wd |-> w, kind |-> kind, name |-> name]>>
        BY <1>4, EventIs
    <2>2. Len(s) = 1 /\ s[1].wd = w /\ s[1].kind = kind /\ s[1].name = name
        BY <2>1
    <2> QED BY <1>1, <1>2, <2>1, <2>2
<1> QED BY <1>3, <1>4

\* Three lists of at most one event, in a row.
LEMMA ThreeEvents ==
    ASSUME NEW a \in Seq(Events), NEW b \in Seq(Events), NEW c \in Seq(Events),
           Len(a) \in {0, 1}, Len(b) \in {0, 1}, Len(c) \in {0, 1}
    PROVE  LET evs == a \o b \o c IN
           /\ Len(evs) = Len(a) + Len(b) + Len(c)
           /\ Len(a) = 1 => evs[1] = a[1]
           /\ Len(b) = 1 => evs[Len(a) + 1] = b[1]
           /\ \A i \in 1..Len(evs) :
                 \/ Len(a) = 1 /\ i = 1 /\ evs[i] = a[1]
                 \/ Len(b) = 1 /\ i = Len(a) + 1 /\ evs[i] = b[1]
                 \/ Len(c) = 1 /\ i = Len(evs) /\ i = Len(a) + Len(b) + 1 /\ evs[i] = c[1]
<1> DEFINE d == a \o b
           evs == d \o c
           la == Len(a)
           lb == Len(b)
           lc == Len(c)
<1>1. /\ a \in Seq(Events) /\ b \in Seq(Events) /\ c \in Seq(Events)
      /\ la \in 0..1 /\ lb \in 0..1 /\ lc \in 0..1
    OBVIOUS
<1>2. /\ d \in Seq(Events) /\ Len(d) = la + lb
      /\ \A i \in 1..la + lb : d[i] = IF i <= la THEN a[i] ELSE b[i - la]
    BY ONLY <1>1, ConcatProperties
<1> HIDE DEF d
<1>3. /\ Len(evs) = Len(d) + lc
      /\ \A i \in 1..Len(d) + lc : evs[i] = IF i <= Len(d) THEN d[i] ELSE c[i - Len(d)]
    <2>1. d \in Seq(Events) /\ c \in Seq(Events)
        BY ONLY <1>1, <1>2
    <2>2. /\ Len(d \o c) = Len(d) + Len(c)
          /\ \A i \in 1..Len(d) + Len(c) :
                (d \o c)[i] = IF i <= Len(d) THEN d[i] ELSE c[i - Len(d)]
        BY ONLY <2>1, ConcatProperties
    <2> QED BY ONLY <2>2
<1> HIDE DEF evs, la, lb, lc
<1>4. la = 1 => evs[1] = a[1]
    BY ONLY <1>1, <1>2, <1>3
<1>5. lb = 1 => evs[la + 1] = b[1]
    BY ONLY <1>1, <1>2, <1>3
<1>6. ASSUME NEW i \in 1..Len(evs)
      PROVE  \/ la = 1 /\ i = 1 /\ evs[i] = a[1]
             \/ lb = 1 /\ i = la + 1 /\ evs[i] = b[1]
             \/ lc = 1 /\ i = Len(evs) /\ i = la + lb + 1 /\ evs[i] = c[1]
    <2>1. i \in Int /\ 1 <= i /\ i <= la + lb + lc /\ i \in 1..Len(d) + lc
        BY ONLY <1>1, <1>2, <1>3, <1>6
    <2>2. CASE i <= la
        <3>1. la = 1 /\ i = 1
            BY ONLY <1>1, <2>1, <2>2
        <3> QED BY <1>4, <3>1
    <2>3. CASE ~(i <= la) /\ i <= la + lb
        <3>1. i = la + 1 /\ lb = 1
            BY ONLY <1>1, <2>1, <2>3
        <3> QED BY <1>5, <3>1
    <2>4. CASE ~(i <= la + lb)
        <3>1. i = la + lb + 1 /\ lc = 1 /\ i - Len(d) = 1 /\ ~(i <= Len(d))
            BY ONLY <1>1, <1>2, <2>1, <2>4
        <3>2. i = Len(evs) /\ evs[i] = c[1]
            BY ONLY <1>2, <1>3, <2>1, <3>1
        <3> QED BY <3>1, <3>2
    <2> QED BY ONLY <1>1, <2>1, <2>2, <2>3, <2>4
<1>7. Len(evs) = la + lb + lc
    BY <1>2, <1>3
<1> QED BY <1>4, <1>5, <1>6, <1>7 DEF evs, d, la, lb, lc

\* What new events leave as it was: the events before them, and what those say.
LEMMA Appended ==
    ASSUME CovTyped, NEW evs, EventsOK(evs), data' = data, queue' = queue \o evs,
           UNCHANGED <<wdToRel, relToWd>>
    PROVE  /\ Len(evs) \in Nat /\ Len(Pending') = Len(Pending) + Len(evs)
           /\ 1..Len(Pending) \subseteq 1..Len(Pending')
           /\ \A i \in 1..Len(Pending) :
                 /\ Pending'[i] = Pending[i] /\ NameOf(i)' = NameOf(i) /\ Loc(i)' = Loc(i)
                 /\ Named(i)' <=> Named(i)
                 /\ \A x : Out(i, x)' <=> Out(i, x)
                 /\ Live(i)' <=> Live(i)
                 /\ Coming(i)' <=> Coming(i)
           /\ \A i \in 1..Len(evs) : /\ Pending'[Len(Pending) + i] = evs[i]
                                     /\ Len(Pending) + i \in 1..Len(Pending')
           /\ \A i \in 1..Len(Pending') :
                 \/ i \in 1..Len(Pending)
                 \/ /\ \E k \in 1..Len(evs) : i = Len(Pending) + k /\ Pending'[i] = evs[k]
                    /\ 1..Len(Pending) \subseteq 1..(i - 1)
           /\ \A x : Doomed(x) => Doomed(x)'
<1>1. data \in Seq(Events) /\ queue \in Seq(Events) /\ evs \in Seq(Events)
    BY DEF CovTyped, EventsOK
<1>2. Pending' = Pending \o evs
    <2>1. (data \o queue) \o evs = data \o (queue \o evs)
        BY ONLY <1>1, ConcatAssociative
    <2>2. Pending' = data \o (queue \o evs)
        BY DEF Pending
    <2> QED BY ONLY <2>1, <2>2 DEF Pending
<1>3. Pending \in Seq(Events) /\ Len(Pending) \in Nat /\ Len(evs) \in Nat
    BY <1>1, PendingIs, LenProperties
<1>4. /\ Len(Pending') = Len(Pending) + Len(evs)
      /\ \A i \in 1..Len(Pending) + Len(evs) :
            Pending'[i] = IF i <= Len(Pending) THEN Pending[i] ELSE evs[i - Len(Pending)]
    <2>1. /\ Len(Pending \o evs) = Len(Pending) + Len(evs)
          /\ \A i \in 1..Len(Pending) + Len(evs) :
                (Pending \o evs)[i] = IF i <= Len(Pending) THEN Pending[i]
                                      ELSE evs[i - Len(Pending)]
        BY ONLY <1>1, <1>3, ConcatProperties
    <2> QED BY ONLY <1>2, <2>1
<1>5. ASSUME NEW i \in 1..Len(Pending) PROVE Pending'[i] = Pending[i]
    BY <1>3, <1>4
<1>6. ASSUME NEW i \in 1..Len(evs)
      PROVE  Pending'[Len(Pending) + i] = evs[i] /\ Len(Pending) + i \in 1..Len(Pending')
    <2> DEFINE k == Len(Pending) + i
    <2>1. k \in 1..Len(Pending) + Len(evs) /\ ~(k <= Len(Pending)) /\ k - Len(Pending) = i
        BY <1>3
    <2> HIDE DEF k
    <2>2. Pending'[k] = evs[i] /\ k \in 1..Len(Pending')
        BY ONLY <1>4, <2>1
    <2> QED BY <2>2 DEF k
<1>7. ASSUME NEW i \in 1..Len(Pending)
      PROVE  /\ NameOf(i)' = NameOf(i) /\ Loc(i)' = Loc(i)
             /\ Named(i)' <=> Named(i)
             /\ \A x : Out(i, x)' <=> Out(i, x)
    BY <1>5 DEF NameOf, Loc, Named, Out
<1>8. ASSUME NEW i \in 1..Len(Pending)
      PROVE  (Live(i)' <=> Live(i)) /\ (Coming(i)' <=> Coming(i))
    <2>1. 1..(i - 1) \subseteq 1..Len(Pending)
        BY <1>3
    <2>2. Live(i)' <=> Live(i)
        BY <1>7, <2>1 DEF Live
    <2> QED BY <1>5, <2>2 DEF Coming
<1>9. 1..Len(Pending) \subseteq 1..Len(Pending')
    BY <1>3, <1>4
<1>10. ASSUME NEW x, Doomed(x) PROVE Doomed(x)'
    BY <1>7, <1>9, <1>10 DEF Doomed
<1>11. ASSUME NEW i \in 1..Len(Pending'), i \notin 1..Len(Pending)
       PROVE  /\ \E k \in 1..Len(evs) : i = Len(Pending) + k /\ Pending'[i] = evs[k]
              /\ 1..Len(Pending) \subseteq 1..(i - 1)
    <2> DEFINE k == i - Len(Pending)
    <2>1. i \in 1..Len(Pending) + Len(evs) /\ ~(i <= Len(Pending))
        BY <1>3, <1>4, <1>11
    <2>2. k \in 1..Len(evs) /\ i = Len(Pending) + k /\ 1..Len(Pending) \subseteq 1..(i - 1)
        BY <1>3, <2>1
    <2>3. Pending'[i] = evs[k]
        BY <1>4, <2>1
    <2> QED BY <2>2, <2>3
<1> QED BY <1>3, <1>4, <1>5, <1>6, <1>7, <1>8, <1>9, <1>10, <1>11

\* What the events of the file system are.
LEMMA FileStepFits ==
    ASSUME CovTyped, CovTyped', Fits, NEW evs, EventsOK(evs),
           data' = data, queue' = queue \o evs,
           UNCHANGED <<wdToRel, relToWd>>, used'.wd = used.wd,
           DOMAIN watches' \subseteq DOMAIN watches,
           \A w \in DOMAIN watches' : watches'[w] = watches[w],
           \A i \in 1..Len(evs) :
              /\ evs[i].kind # "overflow" /\ evs[i].wd \in DOMAIN watches
              /\ evs[i].kind = "file" => evs[i].name = None
              /\ evs[i].kind = "ignored" => i = Len(evs) /\ evs[i].wd \notin DOMAIN watches'
    PROVE  EventsFit' /\ TablesFit'
<1> DEFINE n == Len(Pending)
           m == Len(evs)
           n2 == Len(Pending')
<1>1. /\ m \in Nat /\ n2 = n + m /\ n \in Nat
      /\ \A i \in 1..n : Pending'[i] = Pending[i]
      /\ \A i \in 1..n2 : i \in 1..n \/ \E k \in 1..m : i = n + k /\ Pending'[i] = evs[k]
    BY Appended, PendingIs
<1>2. EventsFit /\ TablesFit
    BY DEF Fits
<1>3. DOMAIN watches \subseteq 0..used.wd /\ used.wd \in Nat
    BY DEF CovTyped, WatchesOK, UsedOK
<1> HIDE DEF n, m, n2
<1>4. ASSUME NEW i \in 1..n2
      PROVE  /\ Pending'[i].kind # "overflow" /\ Pending'[i].wd <= used'.wd
             /\ Pending'[i].kind = "file" => Pending'[i].name = None
    <2>1. CASE i \in 1..n
        BY <1>1, <1>2, <2>1 DEF EventsFit, n
    <2>2. CASE i \notin 1..n
        <3>1. PICK k \in 1..m : Pending'[i] = evs[k]
            BY <1>1, <2>2
        <3>2. evs[k].wd \in DOMAIN watches
            BY DEF m
        <3>3. evs[k].wd <= used.wd
            BY <1>3, <3>2
        <3> QED BY <3>1, <3>3 DEF m
    <2> QED BY <2>1, <2>2
<1>5. ASSUME NEW i \in 1..n2, Pending'[i].kind = "ignored"
      PROVE  /\ Pending'[i].wd \notin DOMAIN watches'
             /\ \A j \in (i + 1)..n2 : Pending'[j].wd # Pending'[i].wd
    <2>1. CASE i \in 1..n
        <3>1. Pending[i].kind = "ignored" /\ Pending'[i] = Pending[i]
            BY <1>1, <1>5, <2>1
        <3>2. /\ Pending[i].wd \notin DOMAIN watches
              /\ \A j \in (i + 1)..n : Pending[j].wd # Pending[i].wd
            BY <1>2, <2>1, <3>1 DEF EventsFit, n
        <3>3. ASSUME NEW j \in (i + 1)..n2 PROVE Pending'[j].wd # Pending'[i].wd
            <4>1. j \in 1..n2 /\ (j \in 1..n => j \in (i + 1)..n)
                BY <1>1, <2>1, <3>3
            <4>2. CASE j \in 1..n
                BY <1>1, <3>1, <3>2, <4>1, <4>2
            <4>3. CASE j \notin 1..n
                <5>1. PICK k \in 1..m : Pending'[j] = evs[k]
                    BY <1>1, <4>1, <4>3
                <5> QED BY <3>1, <3>2, <5>1 DEF m
            <4> QED BY <4>2, <4>3
        <3> QED BY <3>1, <3>2, <3>3
    <2>2. CASE i \notin 1..n
        <3>1. PICK k \in 1..m : i = n + k /\ Pending'[i] = evs[k]
            BY <1>1, <2>2
        <3>2. k = m /\ evs[k].wd \notin DOMAIN watches'
            BY <1>5, <3>1 DEF m
        <3> QED BY <1>1, <3>1, <3>2
    <2> QED BY <2>1, <2>2
<1>6. EventsFit'
    BY <1>4, <1>5 DEF EventsFit, n2
<1>7. TablesFit'
    BY <1>2 DEF TablesFit
<1> QED BY <1>6, <1>7

\* A directory p goes away, by rmdir or rename: what its event does.
LEMMA Leaving ==
    ASSUME CovTyped, Fits, NEW p \in Dirs, p # <<>>, Front(p) \in Dirs, NEW evs, EventsOK(evs),
           data' = data, queue' = queue \o evs, UNCHANGED <<wdToRel, relToWd>>,
           \A k \in 1..Len(evs) : evs[k].kind = "out" =>
              evs[k].wd \in Watching(tree[Front(p)]) /\ evs[k].name = Last(p),
           Watching(tree[Front(p)]) # {} => 1 \in 1..Len(evs) /\ evs[1].kind = "out"
    PROVE  /\ \A i \in 1..Len(Pending') : \A x \in NSeq :
                 i \notin 1..Len(Pending) /\ Out(i, x)' =>
                    Below(p, x) \/ (Doomed(x) /\ ~Live(i)')
           /\ \A x \in NSeq : Doomed(x)' => Doomed(x) \/ Below(p, x)
           /\ \A x \in NSeq : Below(p, x) /\ ~Doomed(Front(p)) /\ Front(p) \in DOMAIN relToWd =>
                 \E i \in 1..Len(Pending') : i = Len(Pending) + 1 /\ Out(i, x)'
           /\ \A x \in NSeq : Below(p, x) /\ (Front(p) \in DOMAIN relToWd \/ Doomed(x)) => Doomed(x)'
           /\ \A i \in 1..Len(Pending) : Coming(i) /\ Below(p, Loc(i)) =>
                 \E j \in (i + 1)..Len(Pending') : Out(j, Loc(i))'
<1> DEFINE f == Front(p)
           n == Len(Pending)
           n2 == Len(Pending')
<1>1. /\ n \in Nat /\ n2 \in Nat /\ n <= n2
      /\ \A i \in 1..n : Loc(i)' = Loc(i) /\ \A x : Out(i, x)' <=> Out(i, x)
      /\ \A i \in 1..Len(evs) : Pending'[n + i] = evs[i] /\ n + i \in 1..n2
      /\ \A i \in 1..n2 :
            \/ i \in 1..n
            \/ /\ \E k \in 1..Len(evs) : Pending'[i] = evs[k]
               /\ 1..n \subseteq 1..(i - 1)
      /\ \A x : Doomed(x) => Doomed(x)'
    <2> HIDE DEF f
    <2>1. Len(evs) \in Nat /\ n2 = n + Len(evs) /\ n \in Nat
        BY Appended, PendingIs
    <2>2. /\ \A i \in 1..n : Loc(i)' = Loc(i) /\ \A x : Out(i, x)' <=> Out(i, x)
          /\ \A i \in 1..Len(evs) : Pending'[n + i] = evs[i] /\ n + i \in 1..n2
        BY Appended
    <2>3. ASSUME NEW i \in 1..n2
          PROVE  \/ i \in 1..n
                 \/ /\ \E k \in 1..Len(evs) : Pending'[i] = evs[k]
                    /\ 1..n \subseteq 1..(i - 1)
        BY Appended
    <2>4. \A x : Doomed(x) => Doomed(x)'
        BY Appended
    <2> HIDE DEF n, n2
    <2>5. n2 \in Nat /\ n <= n2
        BY <2>1
    <2> QED BY <2>1, <2>2, <2>3, <2>4, <2>5
<1>2. /\ p \in NSeq /\ f \in NSeq /\ Append(f, Last(p)) = p /\ Below(f, p) /\ f # p /\ ~Below(p, f)
      /\ \A x \in NSeq : Below(x, p) => x = p \/ Below(x, f)
    BY DirsAre, FrontAndLast
<1>3. EventsFit /\ TablesFit /\ RegisteredFit /\ NamesFit
    BY DEF Fits
<1>4. ASSUME NEW w \in Watching(tree[f])
      PROVE  /\ w \in DOMAIN watches /\ watches[w] = tree[f] /\ w \in DOMAIN wdToRel
             /\ wdToRel[w] \in NSeq
    BY <1>3, PathsAreSeqs DEF Watching, TablesFit, CovTyped, TablesOK
<1> HIDE DEF n, n2, f
<1>5. ASSUME NEW i \in 1..n2, NEW x \in NSeq, i \notin 1..n, Out(i, x)'
      PROVE  Below(p, x) \/ (Doomed(x) /\ ~Live(i)')
    <2>1. PICK k \in 1..Len(evs) : Pending'[i] = evs[k]
        BY <1>1, <1>5
    <2>2. Pending'[i].kind = "out" /\ Below(Loc(i)', x)
        BY <1>5 DEF Out
    <2> DEFINE w == Pending'[i].wd
               u == wdToRel[w]
    <2>3. w \in Watching(tree[f]) /\ Pending'[i].name = Last(p)
        BY <2>1, <2>2 DEF f
    <2>4. w \in DOMAIN watches /\ watches[w] = tree[f] /\ w \in DOMAIN wdToRel /\ u \in NSeq
        BY <1>4, <2>3
    <2>5. NameOf(i)' = u /\ Loc(i)' = Append(u, Last(p))
        BY <2>3 DEF NameOf, Loc
    <2> HIDE DEF w, u
    <2>6. CASE u = f
        BY <1>2, <2>2, <2>5, <2>6
    <2>7. CASE u # f
        <3>1. PICK j \in 1..n : Out(j, u)
            BY <1>3, <2>4, <2>7 DEF NamesFit, Stale, f, n, u
        <3>2. Out(j, NameOf(i))' /\ j \in 1..(i - 1)
            BY <1>1, <1>5, <2>5, <3>1
        <3>3. ~Live(i)'
            BY <3>2 DEF Live
        <3>4. Last(p) \in Names
            BY <1>2, FrontAndLast
        <3>5. Append(u, Last(p)) \in NSeq /\ Below(u, Append(u, Last(p)))
            BY <2>4, <3>4, AppendBelow
        <3>6. Below(u, x)
            BY <2>2, <2>4, <2>5, <3>5, BelowOrder
        <3>7. Doomed(x)
            BY <2>4, <3>1, <3>6, OutDown DEF Doomed, n
        <3> QED BY <3>3, <3>7
    <2> QED BY <2>6, <2>7
<1>6. ASSUME NEW x \in NSeq, Doomed(x)' PROVE Doomed(x) \/ Below(p, x)
    <2>1. PICK i \in 1..n2 : Out(i, x)'
        BY <1>6 DEF Doomed, n2
    <2>2. CASE i \in 1..n
        BY <1>1, <2>1, <2>2 DEF Doomed, n
    <2>3. CASE i \notin 1..n
        BY <1>5, <2>1, <2>3
    <2> QED BY <2>2, <2>3
<1>7. ASSUME NEW x \in NSeq, Below(p, x), ~Doomed(f), f \in DOMAIN relToWd
      PROVE  \E i \in 1..n2 : i = n + 1 /\ Out(i, x)'
    <2>1. Right(f)
        BY <1>3, <1>7 DEF RegisteredFit
    <2>2. relToWd[f] \in Watching(tree[f])
        BY <2>1 DEF Right, Watching
    <2>3. 1 \in 1..Len(evs) /\ evs[1].kind = "out"
        BY <2>2 DEF f
    <2>4. evs[1].wd \in Watching(tree[f]) /\ evs[1].name = Last(p)
        BY <2>3 DEF f
    <2>5. evs[1].wd = relToWd[f]
        BY <1>3, <2>2, <2>4 DEF Watching, TablesFit
    <2>6. PICK i \in 1..n2 : i = n + 1 /\ Pending'[i] = evs[1]
        BY <1>1, <2>3
    <2>7. wdToRel[evs[1].wd] = f /\ evs[1].wd \in DOMAIN wdToRel
        BY <1>3, <1>7, <2>5 DEF TablesFit
    <2>8. Loc(i)' = p /\ Named(i)'
        BY <1>2, <2>4, <2>6, <2>7 DEF Loc, NameOf, Named
    <2>9. Out(i, x)'
        BY <1>7, <2>3, <2>6, <2>8 DEF Out
    <2> QED BY <2>6, <2>9
<1>8. ASSUME NEW x \in NSeq, Below(p, x), f \in DOMAIN relToWd \/ Doomed(x) PROVE Doomed(x)'
    <2>1. CASE Doomed(x)
        BY <1>1, <2>1
    <2>2. CASE ~Doomed(x)
        <3>1. ~Doomed(f)
            BY <1>2, <1>8, <2>2, BelowOrder, DoomedDown
        <3>2. PICK i \in 1..n2 : Out(i, x)'
            BY <1>7, <1>8, <2>2, <3>1
        <3> QED BY <3>2 DEF Doomed, n2
    <2> QED BY <2>1, <2>2
<1>9. ASSUME NEW i \in 1..n, Coming(i), Below(p, Loc(i))
      PROVE  \E j \in (i + 1)..n2 : Out(j, Loc(i))'
    <2>0. PICK u \in NSeq, x \in NSeq : u = NameOf(i) /\ x = Loc(i)
        BY <1>9, NameIs DEF Coming, Live, n
    <2>1. Named(i) /\ Pending[i].kind = "in" /\ Live(i)
        BY <1>9 DEF Coming, Live
    <2>2. /\ u \in NSeq /\ u \in DOMAIN relToWd /\ x \in NSeq /\ Below(u, x)
          /\ x # <<>> /\ Front(x) = u
          /\ \A y \in NSeq : Below(y, x) => y = x \/ Below(y, u)
        BY <2>0, <2>1, NameIs DEF n
    <2>3. Below(f, u)
        <3>1. CASE p = x
            BY <2>2, <3>1, BelowOrder DEF f
        <3>2. CASE p # x
            BY <1>2, <1>9, <2>0, <2>2, <3>2, BelowOrder
        <3> QED BY <3>1, <3>2
    <2>4. Loc(i)' = x
        BY <1>1, <2>0
    <2>5. CASE Doomed(u)
        <3>1. PICK j \in 1..n : Out(j, u)
            BY <2>5 DEF Doomed, n
        <3>2. j \notin 1..(i - 1) /\ j # i
            BY <2>0, <2>1, <3>1 DEF Live, Out
        <3>3. j \in (i + 1)..n2
            BY <1>1, <3>2
        <3>4. Out(j, x)
            BY <2>2, <3>1, OutDown DEF n
        <3>5. Out(j, x)'
            BY <1>1, <3>4
        <3> QED BY <2>4, <3>3, <3>5
    <2>6. CASE ~Doomed(u)
        <3>1. f \in DOMAIN relToWd
            BY <1>2, <1>3, <2>2, <2>3, <2>6 DEF RegisteredFit
        <3>2. ~Doomed(f)
            BY <1>2, <2>2, <2>3, <2>6, DoomedDown
        <3>3. PICK j \in 1..n2 : j = n + 1 /\ Out(j, x)'
            BY <1>7, <1>9, <2>0, <3>1, <3>2
        <3>4. j \in (i + 1)..n2
            BY <1>1, <3>3
        <3> QED BY <2>4, <3>3, <3>4
    <2> QED BY <2>5, <2>6
<1> QED BY <1>5, <1>6, <1>7, <1>8, <1>9 DEF n, n2, f

\* What is noted stays so when events follow.
LEMMA NotedKept ==
    ASSUME CovTyped, NEW evs, EventsOK(evs), data' = data, queue' = queue \o evs,
           UNCHANGED <<wdToRel, relToWd, batch, unknown>>, NEW x, Noted(x)
    PROVE  Noted(x)'
<1>1. CASE unknown \/ <<"file", x>> \in batch \/ \E q \in Paths : <<"tree", q>> \in batch /\ Below(q, x)
    BY <1>1 DEF Noted
<1>2. CASE \E i \in 1..Len(Pending) : Coming(i) /\ Below(Loc(i), x)
    <2>1. PICK i \in 1..Len(Pending) : Coming(i) /\ Below(Loc(i), x)
        BY <1>2
    <2>2. i \in 1..Len(Pending') /\ Coming(i)' /\ Loc(i)' = Loc(i)
        BY <2>1, Appended
    <2> QED BY <2>1, <2>2 DEF Noted
<1>3. CASE \E i \in 1..Len(Pending) : Pending[i].kind = "file" /\ Live(i) /\ NameOf(i) = x
    <2>1. PICK i \in 1..Len(Pending) : Pending[i].kind = "file" /\ Live(i) /\ NameOf(i) = x
        BY <1>3
    <2>2. i \in 1..Len(Pending') /\ Live(i)' /\ Pending'[i] = Pending[i] /\ NameOf(i)' = NameOf(i)
        BY <2>1, Appended
    <2> QED BY <2>1, <2>2 DEF Noted
<1> QED BY <1>1, <1>2, <1>3 DEF Noted

\* Nothing goes away.
LEMMA Staying ==
    ASSUME CovTyped, NEW evs, EventsOK(evs), data' = data, queue' = queue \o evs,
           UNCHANGED <<wdToRel, relToWd>>, \A k \in 1..Len(evs) : evs[k].kind # "out"
    PROVE  /\ \A i \in 1..Len(Pending') : i \notin 1..Len(Pending) => \A x : ~Out(i, x)'
           /\ \A x : Doomed(x)' <=> Doomed(x)
           /\ \A x : Heard(x) => Heard(x)'
<1>1. ASSUME NEW i \in 1..Len(Pending'), i \notin 1..Len(Pending) PROVE \A x : ~Out(i, x)'
    <2>1. PICK k \in 1..Len(evs) : Pending'[i] = evs[k]
        BY <1>1, Appended
    <2> QED BY <2>1 DEF Out
<1>2. ASSUME NEW x PROVE Doomed(x)' <=> Doomed(x)
    <2>1. Doomed(x) => Doomed(x)'
        BY Appended
    <2>2. ASSUME Doomed(x)' PROVE Doomed(x)
        <3>1. PICK i \in 1..Len(Pending') : Out(i, x)'
            BY <2>2 DEF Doomed
        <3>2. i \in 1..Len(Pending)
            BY <1>1, <3>1
        <3>3. Out(i, x)
            BY <3>1, <3>2, Appended
        <3> QED BY <3>2, <3>3 DEF Doomed
    <2> QED BY <2>1, <2>2
<1>3. ASSUME NEW x, Heard(x) PROVE Heard(x)'
    <2>1. PICK i \in 1..Len(Pending) :
             /\ Coming(i) /\ Below(Loc(i), x)
             /\ \A j \in (i + 1)..Len(Pending) : ~(Live(j) /\ Out(j, x))
        BY <1>3 DEF Heard
    <2>2. i \in 1..Len(Pending') /\ Coming(i)' /\ Loc(i)' = Loc(i)
        BY <2>1, Appended
    <2>3. ASSUME NEW j \in (i + 1)..Len(Pending') PROVE ~(Live(j)' /\ Out(j, x)')
        <3>1. j \in 1..Len(Pending')
            BY <2>3
        <3>2. CASE j \in 1..Len(Pending)
            <4>1. j \in (i + 1)..Len(Pending)
                BY <2>3, <3>2, PendingIs
            <4> QED BY <2>1, <3>2, <4>1, Appended
        <3>3. CASE j \notin 1..Len(Pending)
            BY <1>1, <3>1, <3>3
        <3> QED BY <3>2, <3>3
    <2> QED BY <2>1, <2>2, <2>3 DEF Heard
<1> QED BY <1>1, <1>2, <1>3

\* What is not noticed falls in the gap.
LEMMA SeenOrGap ==
    ASSUME CovTyped, Fits, NEW f \in Dirs, NEW d, Unseen(f, d)
    PROVE  /\ gap \subseteq gap'
           /\ \/ d \in gap'
              \/ \E w \in Watching(tree[f]) : wdToRel[w] = f /\ w \in DOMAIN wdToRel /\ ~Doomed(f)
              \/ \E i \in 1..Len(Pending) : Coming(i) /\ Below(Loc(i), f)
              \/ \E q \in Paths : <<"tree", q>> \in batch /\ Below(q, f)
<1>1. gap \subseteq gap'
    BY DEF Unseen
<1>2. CASE Watching(tree[f]) # {}
    <2>1. PICK w \in Watching(tree[f]) : TRUE
        BY <1>2
    <2> QED BY <1>1, <2>1, Noticed DEF Heard
<1>3. CASE Watching(tree[f]) = {} /\ Announced(f)
    BY <1>1, <1>3, AnnouncedIsHeard
<1>4. CASE Watching(tree[f]) = {} /\ ~Announced(f)
    BY <1>1, <1>4 DEF Unseen
<1> QED BY <1>2, <1>3, <1>4

\* Mkdir: the new directory is announced, or a directory above it has yet to be reached.
LEMMA MkdirFits ==
    ASSUME CoverageAssumption, CovTyped, CovTyped', Fits, NEW p \in Paths, Mkdir(p), ~lost'
    PROVE  Fits'
<1> DEFINE f == Front(p)
           evs == Event(tree[f], "in", Last(p))
           n == Len(Pending)
           new == Cardinality(InitialDirs) + used.make + 1
<1>1. /\ p # <<>> /\ p \notin Dirs /\ f \in Dirs
      /\ tree' = [tree EXCEPT ![p] = new] /\ stale' = stale \cup {new}
      /\ Unseen(f, new)
      /\ Emit("make", evs)
      /\ UNCHANGED <<watches, data, todo, wdToRel, relToWd, batch, unknown, crossed>>
    BY DEF Mkdir, reader
<1>2. /\ p \in NSeq /\ f \in NSeq /\ Last(p) \in Names /\ Append(f, Last(p)) = p /\ Below(f, p)
      /\ Below(p, p)
      /\ \A x \in NSeq : Below(x, p) => x = p \/ Below(x, f)
    BY <1>1, PathsAreSeqs, FrontAndLast, BelowOrder
<1>3. /\ EventsOK(evs) /\ Len(evs) \in {0, 1}
      /\ Len(evs) = 0 => Watching(tree[f]) = {}
      /\ Len(evs) = 1 => /\ evs[1].wd \in Watching(tree[f])
                         /\ evs[1].kind = "in" /\ evs[1].name = Last(p)
    <2> HIDE DEF f, new
    <2>1. "in" \in Kinds /\ Last(p) \in Names \cup {None}
        BY <1>2 DEF Kinds
    <2>2. evs = Event(tree[f], "in", Last(p))
        OBVIOUS
    <2> HIDE DEF evs
    <2>3. EventsOK(evs)
        BY ONLY <1>2, <2>1, <2>2, CovTyped, EventOne
    <2>4. \/ Watching(tree[f]) = {} /\ Len(evs) = 0
          \/ /\ Len(evs) = 1 /\ evs[1].wd \in Watching(tree[f])
             /\ evs[1].kind = "in" /\ evs[1].name = Last(p)
        BY ONLY <1>2, <2>1, <2>2, CovTyped, EventOne
    <2> QED BY <2>3, <2>4
<1>4. queue' = queue \o evs /\ used'.wd = used.wd
    BY <1>1, <1>3, EmitTyped
<1>5. new \notin Inodes /\ Dirs' = Dirs \cup {p} /\ tree'[p] = new
      /\ \A r \in Dirs : tree'[r] = tree[r] /\ tree[r] \in Inodes
    <2>1. Cardinality(InitialDirs) \in Nat /\ used.make \in Nat /\ None \notin Nat
        BY CardNat DEF CovTyped, UsedOK, CoverageAssumption
    <2>2. new \notin Inodes /\ new # None
        BY <2>1 DEF Inodes
    <2>3. tree \in [Paths -> Inodes \cup {None}]
        BY DEF CovTyped, TreeOK
    <2> HIDE DEF new
    <2> QED BY <1>1, <2>2, <2>3 DEF Dirs
<1> HIDE DEF evs, f, new
<1>6. EventsFit /\ TablesFit /\ RegisteredFit /\ NamesFit /\ ComingFit /\ TodoFit /\ Reached
      /\ StaleNoted
    BY DEF Fits
<1>7. /\ EventsFit' /\ TablesFit'
    BY <1>1, <1>3, <1>4, FileStepFits DEF Watching
<1>8. /\ \A i \in 1..Len(Pending') : i \notin 1..n => \A x : ~Out(i, x)'
      /\ \A x : Doomed(x)' <=> Doomed(x)
      /\ \A x : Heard(x) => Heard(x)'
    <2>1. \A k \in 1..Len(evs) : evs[k].kind # "out"
        BY <1>3
    <2> QED BY <1>1, <1>3, <1>4, <2>1, Staying
<1>9. /\ n \in Nat /\ Len(Pending') = n + Len(evs)
      /\ \A i \in 1..n :
            /\ i \in 1..Len(Pending')
            /\ Loc(i)' = Loc(i) /\ (Coming(i)' <=> Coming(i)) /\ (Live(i)' <=> Live(i))
            /\ \A x : Out(i, x)' <=> Out(i, x)
      /\ \A i \in 1..Len(evs) : Pending'[n + i] = evs[i]
      /\ \A i \in 1..Len(Pending') : i \in 1..n \/ 1..n \subseteq 1..(i - 1)
    <2>1. n \in Nat /\ Len(Pending') = n + Len(evs) /\ 1..n \subseteq 1..Len(Pending')
        BY <1>1, <1>3, <1>4, PendingIs, Appended
    <2>2. \A i \in 1..n :
            /\ Loc(i)' = Loc(i) /\ (Coming(i)' <=> Coming(i)) /\ (Live(i)' <=> Live(i))
            /\ \A x : Out(i, x)' <=> Out(i, x)
        BY <1>1, <1>3, <1>4, Appended
    <2>3. /\ \A i \in 1..Len(evs) : Pending'[n + i] = evs[i]
          /\ \A i \in 1..Len(Pending') : i \in 1..n \/ 1..n \subseteq 1..(i - 1)
        BY <1>1, <1>3, <1>4, Appended
    <2> HIDE DEF n
    <2> QED BY <2>1, <2>2, <2>3
<1> HIDE DEF n
\* The event of the new directory.
<1>10. ASSUME NEW i \in 1..Len(Pending'), i \notin 1..n
       PROVE  /\ i = n + 1 /\ Len(evs) = 1 /\ Pending'[i] = evs[1] /\ Named(i)'
              /\ Live(i)' => NameOf(i)' = f /\ Loc(i)' = p
              /\ NameOf(i)' = f /\ ~Doomed(f) => Coming(i)' /\ Loc(i)' = p
    <2>1. i = n + 1 /\ Len(evs) = 1 /\ Pending'[i] = evs[1]
        BY <1>3, <1>9, <1>10
    <2> DEFINE w == evs[1].wd
    <2>2. /\ w \in DOMAIN watches /\ watches[w] = tree[f] /\ w \in DOMAIN wdToRel
        BY <1>3, <1>6, <2>1 DEF Watching, TablesFit
    <2>3. Named(i)' /\ NameOf(i)' = wdToRel[w] /\ Loc(i)' = Append(wdToRel[w], Last(p))
        BY <1>1, <1>3, <2>1, <2>2 DEF Named, NameOf, Loc
    <2>4. ASSUME Live(i)' PROVE wdToRel[w] = f
        <3> SUFFICES ASSUME wdToRel[w] # f PROVE FALSE
            OBVIOUS
        <3>1. PICK j \in 1..n : Out(j, wdToRel[w])
            BY <1>1, <1>6, <2>2 DEF NamesFit, Stale, n
        <3>2. j \in 1..(i - 1) /\ Out(j, NameOf(i))'
            BY <1>9, <1>10, <2>3, <3>1
        <3> QED BY <2>4, <3>2 DEF Live
    <2>5. ASSUME wdToRel[w] = f, ~Doomed(f) PROVE Coming(i)'
        <3>1. \A j \in 1..(i - 1) : j \in 1..n /\ ~Out(j, f)'
            BY <1>9, <2>1, <2>5 DEF Doomed, n
        <3> QED BY <1>3, <2>1, <2>3, <2>5, <3>1 DEF Coming, Live
    <2> QED BY <1>2, <2>1, <2>3, <2>4, <2>5
<1>11. RegisteredFit'
    <2>1. \A x \in DOMAIN relToWd : Right(x) => Right(x)'
        BY <1>1, <1>5 DEF Right
    <2> QED BY <1>1, <1>6, <1>8, <2>1 DEF RegisteredFit
<1>12. NamesFit'
    <2> SUFFICES ASSUME NEW q \in Dirs', NEW w \in DOMAIN watches, watches[w] = tree'[q],
                        wdToRel[w] # q
                 PROVE  Stale(q, w)'
        BY <1>1 DEF NamesFit
    <2>1. watches[w] \in Inodes
        BY DEF CovTyped, WatchesOK
    <2>2. q \in Dirs /\ watches[w] = tree[q]
        BY <1>5, <2>1
    <2>3. /\ \A k \in 1..Len(todo) : ~Related(todo[k][2], q)
          /\ \E i \in 1..n :
                Out(i, wdToRel[w]) /\ \A j \in 1..(i - 1) : Coming(j) => ~Related(Loc(j), q)
        BY <1>6, <2>2 DEF NamesFit, Stale, n
    <2>4. PICK i \in 1..n :
             Out(i, wdToRel[w]) /\ \A j \in 1..(i - 1) : Coming(j) => ~Related(Loc(j), q)
        BY <2>3
    <2>5. \A j \in 1..(i - 1) : j \in 1..n
        BY <1>9
    <2>6. Out(i, wdToRel[w])' /\ \A j \in 1..(i - 1) : Coming(j)' => ~Related(Loc(j)', q)
        BY <1>1, <1>9, <2>4, <2>5
    <2> QED BY <1>1, <1>9, <2>3, <2>6 DEF Stale
<1>13. ComingFit'
    <2> SUFFICES ASSUME NEW i \in 1..Len(Pending'), Coming(i)'
                 PROVE  Loc(i)' \in Dirs' \/ \E j \in (i + 1)..Len(Pending') : Out(j, Loc(i))'
        BY DEF ComingFit
    <2>1. CASE i \in 1..n
        <3>1. Loc(i) \in Dirs \/ \E j \in (i + 1)..n : Out(j, Loc(i))
            BY <1>6, <1>9, <2>1 DEF ComingFit, n
        <3>2. \A j \in (i + 1)..n : j \in (i + 1)..Len(Pending') /\ j \in 1..n
            BY <1>3, <1>9
        <3> QED BY <1>5, <1>9, <2>1, <3>1, <3>2
    <2>2. CASE i \notin 1..n
        BY <1>5, <1>10, <2>2 DEF Coming
    <2> QED BY <2>1, <2>2
<1>14. TodoFit'
    BY <1>1, <1>5, <1>6, <1>8 DEF TodoFit
<1>15. Reached'
    <2>1. ASSUME NEW x \in Dirs PROVE Kept(x)' \/ Heard(x)' \/ Called(x)'
        <3>1. Kept(x) => Kept(x)'
            BY <1>1, <1>5, <1>8 DEF Kept, Right
        <3>2. Called(x) => Called(x)'
            BY <1>1, <1>8 DEF Called
        <3> QED BY <1>6, <1>8, <3>1, <3>2 DEF Reached
    <2>2. Kept(p)' \/ Heard(p)' \/ Called(p)'
        <3>1. ASSUME Kept(f) PROVE Heard(p)'
            <4>1. relToWd[f] \in Watching(tree[f]) /\ f \in DOMAIN relToWd /\ ~Doomed(f)
                BY <3>1 DEF Kept, Right, Watching
            <4>2. Len(evs) = 1
                BY <1>3, <4>1
            <4>3. evs[1].wd = relToWd[f]
                BY <1>3, <1>6, <4>1, <4>2 DEF Watching, TablesFit
            <4>4. PICK i \in 1..Len(Pending') : i \notin 1..n /\ i = n + 1
                BY <1>9, <4>2
            <4>5. NameOf(i)' = f
                BY <1>1, <1>6, <1>10, <4>1, <4>3, <4>4 DEF NameOf, TablesFit
            <4>6. Coming(i)' /\ Loc(i)' = p
                BY <1>10, <4>1, <4>4, <4>5
            <4>7. \A j \in (i + 1)..Len(Pending') : FALSE
                BY <1>9, <4>2, <4>4
            <4> QED BY <1>2, <4>6, <4>7 DEF Heard
        \* A live event that takes p alone comes from a watch under the name of f.
        <3>2. ASSUME ~Kept(f), NEW j \in 1..n, Live(j), Out(j, p), ~Out(j, f)
              PROVE  \E k \in (j + 1)..n : Live(k) /\ Out(k, f)
            <4>1. Named(j) /\ Pending[j].kind = "out" /\ Below(Loc(j), p)
                BY <3>2 DEF Out
            <4>2. /\ Loc(j) \in NSeq /\ Front(Loc(j)) = NameOf(j)
                  /\ NameOf(j) \in DOMAIN relToWd
                BY <4>1, NameIs DEF n
            <4>3. Loc(j) = p
                BY <1>2, <3>2, <4>1, <4>2 DEF Out
            <4>4. NameOf(j) = f /\ f \in DOMAIN relToWd
                BY <4>2, <4>3 DEF f
            <4>5. Doomed(f)
                BY <1>6, <3>2, <4>4 DEF RegisteredFit, Kept
            <4>6. PICK k \in 1..n : Out(k, f) /\ Live(k)
                BY <1>2, <4>5, FirstOut DEF n
            <4>7. k \notin 1..(j - 1) /\ k # j
                BY <3>2, <4>4, <4>6 DEF Live
            <4>8. k \in (j + 1)..n
                BY <1>9, <4>7
            <4> QED BY <4>6, <4>8
        <3>3. ASSUME ~Kept(f), Heard(f) PROVE Heard(p)'
            <4>1. PICK i \in 1..n : /\ Coming(i) /\ Below(Loc(i), f)
                                    /\ \A j \in (i + 1)..n : ~(Live(j) /\ Out(j, f))
                BY <3>3 DEF Heard, n
            <4>2. Loc(i) \in NSeq
                BY <4>1, NameIs DEF Coming, Live, n
            <4>3. Below(Loc(i), p)
                BY <1>2, <4>1, <4>2, BelowOrder
            <4>4. \A j \in (i + 1)..n : j \in 1..n /\ ((j + 1)..n) \subseteq ((i + 1)..n)
                BY <1>9
            <4>5. \A j \in (i + 1)..n : ~(Live(j) /\ Out(j, p))
                BY <3>2, <3>3, <4>1, <4>4
            <4>6. Heard(p)
                BY <4>1, <4>3, <4>5 DEF Heard, n
            <4> QED BY <1>8, <4>6
        <3>4. ASSUME ~Kept(f), Called(f) PROVE Called(p)'
            <4>1. ~Doomed(f)
                BY <3>4 DEF Called
            <4>2. ~Doomed(p)
                <5> SUFFICES ASSUME Doomed(p) PROVE FALSE
                    OBVIOUS
                <5>1. PICK j \in 1..n : Out(j, p) /\ Live(j)
                    BY <1>2, FirstOut DEF n
                <5>2. ~Out(j, f)
                    BY <4>1 DEF Doomed, n
                <5> QED BY <3>2, <3>4, <4>1, <5>1, <5>2 DEF Doomed, n
            <4>3. PICK k \in 1..Len(todo) : /\ Below(todo[k][2], f)
                                            /\ todo[k][1] = "scan" => todo[k][2] # f
                BY <3>4 DEF Called
            <4>4. todo[k][2] \in NSeq
                BY DEF CovTyped, TodoOK
            <4>5. Below(todo[k][2], p) /\ todo[k][2] # p
                BY <1>1, <1>2, <4>3, <4>4, FrontAndLast, BelowOrder DEF f
            <4> QED BY <1>1, <1>8, <4>2, <4>5 DEF Called
        <3> QED BY <1>1, <1>6, <3>1, <3>3, <3>4 DEF Reached
    <2> QED BY <1>5, <2>1, <2>2 DEF Reached
<1>16. StaleNoted'
    <2>0. \A x : Noted(x) => Noted(x)'
        BY <1>1, <1>3, <1>4, NotedKept
    <2>1. gap \subseteq gap'
        BY <1>1, SeenOrGap
    <2>2. \A x \in Dirs : tree'[x] \in stale' => tree'[x] \in gap' \/ Noted(x)'
        BY <1>1, <1>5, <1>6, <2>0, <2>1 DEF StaleNoted
    <2>3. new \in gap' \/ Noted(p)'
        <3>1. CASE new \in gap'
            BY <3>1
        <3>2. CASE \E w \in Watching(tree[f]) :
                      wdToRel[w] = f /\ w \in DOMAIN wdToRel /\ ~Doomed(f)
            <4>1. PICK w \in Watching(tree[f]) : wdToRel[w] = f /\ ~Doomed(f)
                BY <3>2
            <4>2. Len(evs) = 1
                BY <1>3, <4>1
            <4>3. evs[1].wd = w
                BY <1>3, <1>6, <4>1, <4>2 DEF Watching, TablesFit
            <4>4. PICK i \in 1..Len(Pending') : i \notin 1..n /\ i = n + 1
                BY <1>9, <4>2
            <4>5. NameOf(i)' = f
                BY <1>1, <1>10, <4>1, <4>3, <4>4 DEF NameOf
            <4>6. Coming(i)' /\ Loc(i)' = p
                BY <1>10, <4>1, <4>4, <4>5
            <4> QED BY <1>2, <4>6 DEF Noted
        <3>3. CASE \E i \in 1..n : Coming(i) /\ Below(Loc(i), f)
            <4>1. PICK i \in 1..n : Coming(i) /\ Below(Loc(i), f)
                BY <3>3
            <4>2. Loc(i) \in NSeq
                BY <4>1, NameIs DEF Coming, Live, n
            <4>3. Below(Loc(i), p)
                BY <1>2, <4>1, <4>2, BelowOrder
            <4> QED BY <2>0, <4>1, <4>3 DEF Noted, n
        <3>4. CASE \E q \in Paths : <<"tree", q>> \in batch /\ Below(q, f)
            <4>1. PICK q \in Paths : <<"tree", q>> \in batch /\ Below(q, f)
                BY <3>4
            <4>2. Below(q, p)
                BY <1>2, <4>1, PathsAreSeqs, BelowOrder
            <4> QED BY <2>0, <4>1, <4>2 DEF Noted
        <3> QED BY <1>1, <3>1, <3>2, <3>3, <3>4, SeenOrGap DEF n
    <2>4. \A d \in stale' : \E x \in Dirs' : tree'[x] = d
        BY <1>1, <1>5, <1>6 DEF StaleNoted
    <2> QED BY <1>5, <2>2, <2>3, <2>4 DEF StaleNoted
<1> QED BY <1>7, <1>11, <1>12, <1>13, <1>14, <1>15, <1>16 DEF Fits

\* Write: it is noted, or falls in the gap.
LEMMA WriteFits ==
    ASSUME CoverageAssumption, CovTyped, CovTyped', Fits, NEW p \in Paths, Write(p), ~lost'
    PROVE  Fits'
<1> DEFINE evs == Event(tree[p], "file", None)
           n == Len(Pending)
<1>1. /\ p \in Dirs /\ stale' = stale \cup {tree[p]}
      /\ Unseen(p, tree[p])
      /\ Emit("write", evs)
      /\ UNCHANGED <<tree, watches, data, todo, wdToRel, relToWd, batch, unknown, crossed>>
    BY DEF Write, reader
<1>2. p \in NSeq /\ Dirs' = Dirs
    BY <1>1, DirsAre DEF Dirs
<1>3. /\ EventsOK(evs) /\ Len(evs) \in {0, 1}
      /\ Len(evs) = 0 => Watching(tree[p]) = {}
      /\ Len(evs) = 1 => /\ evs[1].wd \in Watching(tree[p])
                         /\ evs[1].kind = "file" /\ evs[1].name = None
    <2>1. "file" \in Kinds /\ None \in Names \cup {None} /\ "file" \notin {"in", "out"}
        BY DEF Kinds
    <2>2. evs = Event(tree[p], "file", None)
        OBVIOUS
    <2> HIDE DEF evs
    <2>3. EventsOK(evs)
        BY ONLY <2>1, <2>2, CovTyped, EventOne
    <2>4. \/ Watching(tree[p]) = {} /\ Len(evs) = 0
          \/ /\ Len(evs) = 1 /\ evs[1].wd \in Watching(tree[p])
             /\ evs[1].kind = "file" /\ evs[1].name = None
        BY ONLY <2>1, <2>2, CovTyped, EventOne
    <2> QED BY <2>3, <2>4
<1>4. queue' = queue \o evs /\ used'.wd = used.wd
    BY <1>1, <1>3, EmitTyped
<1> HIDE DEF evs
<1>6. EventsFit /\ TablesFit /\ RegisteredFit /\ NamesFit /\ ComingFit /\ TodoFit /\ Reached
      /\ StaleNoted
    BY DEF Fits
<1>7. /\ EventsFit' /\ TablesFit'
    BY <1>1, <1>3, <1>4, FileStepFits DEF Watching
<1>8. /\ \A x : Doomed(x)' <=> Doomed(x)
      /\ \A x : Heard(x) => Heard(x)'
    <2>1. \A k \in 1..Len(evs) : evs[k].kind # "out"
        BY <1>3
    <2> QED BY <1>1, <1>3, <1>4, <2>1, Staying
<1>9. /\ n \in Nat /\ Len(Pending') = n + Len(evs)
      /\ \A i \in 1..n :
            /\ i \in 1..Len(Pending')
            /\ Loc(i)' = Loc(i) /\ (Coming(i)' <=> Coming(i)) /\ (Live(i)' <=> Live(i))
            /\ \A x : Out(i, x)' <=> Out(i, x)
      /\ \A i \in 1..Len(evs) : Pending'[n + i] = evs[i]
      /\ \A i \in 1..Len(Pending') : i \in 1..n \/ 1..n \subseteq 1..(i - 1)
    <2>1. n \in Nat /\ Len(Pending') = n + Len(evs) /\ 1..n \subseteq 1..Len(Pending')
        BY <1>1, <1>3, <1>4, PendingIs, Appended
    <2>2. \A i \in 1..n :
            /\ Loc(i)' = Loc(i) /\ (Coming(i)' <=> Coming(i)) /\ (Live(i)' <=> Live(i))
            /\ \A x : Out(i, x)' <=> Out(i, x)
        BY <1>1, <1>3, <1>4, Appended
    <2>3. /\ \A i \in 1..Len(evs) : Pending'[n + i] = evs[i]
          /\ \A i \in 1..Len(Pending') : i \in 1..n \/ 1..n \subseteq 1..(i - 1)
        BY <1>1, <1>3, <1>4, Appended
    <2> HIDE DEF n
    <2> QED BY <2>1, <2>2, <2>3
<1> HIDE DEF n
\* The new event is of a file.
<1>10. ASSUME NEW i \in 1..Len(Pending'), i \notin 1..n
       PROVE  /\ i = n + 1 /\ Len(evs) = 1 /\ Pending'[i] = evs[1] /\ ~Coming(i)'
    <2>1. i = n + 1 /\ Len(evs) = 1 /\ Pending'[i] = evs[1]
        BY <1>3, <1>9, <1>10
    <2> QED BY <1>3, <2>1 DEF Coming
<1>11. RegisteredFit'
    BY <1>1, <1>2, <1>6, <1>8 DEF RegisteredFit, Right
<1>12. NamesFit'
    <2> SUFFICES ASSUME NEW q \in Dirs, NEW w \in DOMAIN watches, watches[w] = tree[q],
                        wdToRel[w] # q
                 PROVE  Stale(q, w)'
        BY <1>1, <1>2 DEF NamesFit
    <2>3. /\ \A k \in 1..Len(todo) : ~Related(todo[k][2], q)
          /\ \E i \in 1..n :
                Out(i, wdToRel[w]) /\ \A j \in 1..(i - 1) : Coming(j) => ~Related(Loc(j), q)
        BY <1>6 DEF NamesFit, Stale, n
    <2>4. PICK i \in 1..n :
             Out(i, wdToRel[w]) /\ \A j \in 1..(i - 1) : Coming(j) => ~Related(Loc(j), q)
        BY <2>3
    <2>5. \A j \in 1..(i - 1) : j \in 1..n
        BY <1>9
    <2>6. Out(i, wdToRel[w])' /\ \A j \in 1..(i - 1) : Coming(j)' => ~Related(Loc(j)', q)
        BY <1>1, <1>9, <2>4, <2>5
    <2> QED BY <1>1, <1>9, <2>3, <2>6 DEF Stale
<1>13. ComingFit'
    <2> SUFFICES ASSUME NEW i \in 1..Len(Pending'), Coming(i)'
                 PROVE  Loc(i)' \in Dirs' \/ \E j \in (i + 1)..Len(Pending') : Out(j, Loc(i))'
        BY DEF ComingFit
    <2>1. i \in 1..n
        BY <1>10
    <2>2. Loc(i) \in Dirs \/ \E j \in (i + 1)..n : Out(j, Loc(i))
        BY <1>6, <1>9, <2>1 DEF ComingFit, n
    <2>3. \A j \in (i + 1)..n : j \in (i + 1)..Len(Pending') /\ j \in 1..n
        BY <1>3, <1>9
    <2> QED BY <1>2, <1>9, <2>1, <2>2, <2>3
<1>14. TodoFit'
    BY <1>1, <1>2, <1>6, <1>8 DEF TodoFit
<1>15. Reached'
    <2>1. \A x \in Dirs : Kept(x) => Kept(x)'
        BY <1>1, <1>2, <1>8 DEF Kept, Right
    <2>2. \A x \in Dirs : Called(x) => Called(x)'
        BY <1>1, <1>8 DEF Called
    <2> QED BY <1>2, <1>6, <1>8, <2>1, <2>2 DEF Reached
<1>16. StaleNoted'
    <2>0. \A x : Noted(x) => Noted(x)'
        BY <1>1, <1>3, <1>4, NotedKept
    <2>1. gap \subseteq gap'
        BY <1>1, SeenOrGap
    <2>2. \A x \in Dirs : tree[x] \in stale => tree[x] \in gap' \/ Noted(x)'
        BY <1>6, <2>0, <2>1 DEF StaleNoted
    <2>3. tree[p] \in gap' \/ Noted(p)'
        <3>1. CASE tree[p] \in gap'
            BY <3>1
        <3>2. CASE \E w \in Watching(tree[p]) :
                      wdToRel[w] = p /\ w \in DOMAIN wdToRel /\ ~Doomed(p)
            <4>1. PICK w \in Watching(tree[p]) :
                     wdToRel[w] = p /\ w \in DOMAIN wdToRel /\ ~Doomed(p)
                BY <3>2
            <4>2. Len(evs) = 1
                BY <1>3, <4>1
            <4>3. evs[1].wd = w
                BY <1>3, <1>6, <4>1, <4>2 DEF Watching, TablesFit
            <4>4. PICK i \in 1..Len(Pending') : i \notin 1..n /\ i = n + 1
                BY <1>9, <4>2
            <4>5. Pending'[i] = evs[1] /\ NameOf(i)' = p /\ Named(i)'
                BY <1>1, <1>10, <4>1, <4>3, <4>4 DEF NameOf, Named
            <4>6. \A j \in 1..(i - 1) : j \in 1..n /\ ~Out(j, p)'
                BY <1>9, <4>1, <4>4 DEF Doomed, n
            <4>7. Live(i)'
                BY <4>5, <4>6 DEF Live
            <4> QED BY <1>3, <4>2, <4>5, <4>7 DEF Noted
        <3>3. CASE \E i \in 1..n : Coming(i) /\ Below(Loc(i), p)
            BY <2>0, <3>3 DEF Noted, n
        <3>4. CASE \E q \in Paths : <<"tree", q>> \in batch /\ Below(q, p)
            BY <2>0, <3>4 DEF Noted
        <3> QED BY <1>1, <3>1, <3>2, <3>3, <3>4, SeenOrGap DEF n
    <2>4. \A d \in stale' : \E x \in Dirs : tree[x] = d
        BY <1>1, <1>6 DEF StaleNoted
    <2>5. \A x \in Dirs : tree[x] \in stale' => tree[x] \in stale \/ x = p
        BY <1>1 DEF CovTyped, TreeOK
    <2> QED BY <1>1, <1>2, <2>2, <2>3, <2>4, <2>5 DEF StaleNoted
<1> QED BY <1>7, <1>11, <1>12, <1>13, <1>14, <1>15, <1>16 DEF Fits

(***************************************************************************)
(* The steps of the reader.                                                *)
(***************************************************************************)
\* Steps that change no event, and no name of a watch.
LEMMA SameEvents ==
    ASSUME Pending' = Pending, UNCHANGED wdToRel
    PROVE  /\ \A i : NameOf(i)' = NameOf(i) /\ Loc(i)' = Loc(i)
           /\ \A i : (Named(i)' <=> Named(i)) /\ (Live(i)' <=> Live(i)) /\ (Coming(i)' <=> Coming(i))
           /\ \A i, x : Out(i, x)' <=> Out(i, x)
           /\ \A x : (Doomed(x)' <=> Doomed(x)) /\ (Heard(x)' <=> Heard(x))
<1>1. /\ \A i : NameOf(i)' = NameOf(i) /\ Loc(i)' = Loc(i) /\ (Named(i)' <=> Named(i))
      /\ \A i, x : Out(i, x)' <=> Out(i, x)
    BY DEF NameOf, Loc, Named, Out
<1>2. \A i : Live(i)' <=> Live(i)
    BY <1>1 DEF Live
<1>3. \A i : Coming(i)' <=> Coming(i)
    BY <1>2 DEF Coming
<1>4. \A x : Doomed(x)' <=> Doomed(x)
    BY <1>1 DEF Doomed
<1>5. \A x : Heard(x)' <=> Heard(x)
    BY <1>1, <1>2, <1>3 DEF Heard
<1> QED BY <1>1, <1>2, <1>3, <1>4, <1>5

\* ReadChunk: what is pending is the same.
LEMMA ReadChunkFits ==
    ASSUME CovTyped, Fits, ReadChunk
    PROVE  Fits'
<1>1. /\ data = <<>> /\ todo = <<>> /\ data' = queue /\ queue' = <<>>
      /\ UNCHANGED <<tree, watches, todo, wdToRel, relToWd, batch, unknown, stale, used, lost,
                     crossed, gap>>
    BY DEF ReadChunk
<1>2. queue \in Seq(Events)
    BY DEF CovTyped, EventsOK
<1>3. Pending' = Pending
    <2>1. <<>> \o queue = queue /\ queue \o <<>> = queue
        BY ONLY <1>2, ConcatEmptySeq
    <2>2. Pending = <<>> \o queue
        BY <1>1 DEF Pending
    <2>3. Pending' = queue \o <<>>
        BY <1>1 DEF Pending
    <2> QED BY ONLY <2>1, <2>2, <2>3
<1>4. /\ \A i : NameOf(i)' = NameOf(i) /\ Loc(i)' = Loc(i)
      /\ \A i : (Named(i)' <=> Named(i)) /\ (Live(i)' <=> Live(i)) /\ (Coming(i)' <=> Coming(i))
      /\ \A i, x : Out(i, x)' <=> Out(i, x)
      /\ \A x : (Doomed(x)' <=> Doomed(x)) /\ (Heard(x)' <=> Heard(x))
    BY <1>1, <1>3, SameEvents
<1>5. Dirs' = Dirs /\ \A x : (Right(x)' <=> Right(x))
    BY <1>1 DEF Dirs, Right
<1>6. EventsFit /\ TablesFit /\ RegisteredFit /\ NamesFit /\ ComingFit /\ TodoFit /\ Reached
      /\ StaleNoted
    BY DEF Fits
<1>7. EventsFit' /\ TablesFit'
    BY <1>1, <1>3, <1>6 DEF EventsFit, TablesFit
<1>8. RegisteredFit' /\ TodoFit'
    BY <1>1, <1>4, <1>5, <1>6 DEF RegisteredFit, TodoFit
<1>9. NamesFit'
    <2>1. \A q, w : Stale(q, w)' <=> Stale(q, w)
        BY <1>1, <1>3, <1>4 DEF Stale
    <2> QED BY <1>1, <1>5, <1>6, <2>1 DEF NamesFit
<1>10. ComingFit'
    BY <1>3, <1>4, <1>5, <1>6 DEF ComingFit
<1>11. Reached'
    <2>1. \A x : (Kept(x)' <=> Kept(x)) /\ (Called(x)' <=> Called(x))
        BY <1>1, <1>4, <1>5 DEF Kept, Called
    <2> QED BY <1>4, <1>5, <1>6, <2>1 DEF Reached
<1>12. StaleNoted'
    <2>1. \A x : Noted(x)' <=> Noted(x)
        BY <1>1, <1>3, <1>4 DEF Noted
    <2> QED BY <1>1, <1>5, <1>6, <2>1 DEF StaleNoted
<1> QED BY <1>7, <1>8, <1>9, <1>10, <1>11, <1>12 DEF Fits

\* Reconcile: what it reads is no longer stale, and what it forgets was read.
LEMMA ReconcileFits ==
    ASSUME CovTyped, Fits, Reconcile
    PROVE  Fits'
<1>1. /\ stale' = IF unknown THEN {} ELSE stale \ Covered
      /\ batch' = {} /\ unknown' = FALSE
      /\ UNCHANGED <<tree, watches, queue, data, todo, wdToRel, relToWd, used, lost, crossed, gap>>
    BY DEF Reconcile, kernel, reader
<1>3. Pending' = Pending
    BY <1>1 DEF Pending
<1>4. /\ \A i : NameOf(i)' = NameOf(i) /\ Loc(i)' = Loc(i)
      /\ \A i : (Named(i)' <=> Named(i)) /\ (Live(i)' <=> Live(i)) /\ (Coming(i)' <=> Coming(i))
      /\ \A i, x : Out(i, x)' <=> Out(i, x)
      /\ \A x : (Doomed(x)' <=> Doomed(x)) /\ (Heard(x)' <=> Heard(x))
    BY <1>1, <1>3, SameEvents
<1>5. Dirs' = Dirs /\ \A x : (Right(x)' <=> Right(x))
    BY <1>1 DEF Dirs, Right
<1>6. EventsFit /\ TablesFit /\ RegisteredFit /\ NamesFit /\ ComingFit /\ TodoFit /\ Reached
      /\ StaleNoted
    BY DEF Fits
<1>7. EventsFit' /\ TablesFit'
    BY <1>1, <1>3, <1>6 DEF EventsFit, TablesFit
<1>8. RegisteredFit' /\ TodoFit'
    BY <1>1, <1>4, <1>5, <1>6 DEF RegisteredFit, TodoFit
<1>9. NamesFit'
    <2>1. \A q, w : Stale(q, w)' <=> Stale(q, w)
        BY <1>1, <1>3, <1>4 DEF Stale
    <2> QED BY <1>1, <1>5, <1>6, <2>1 DEF NamesFit
<1>10. ComingFit'
    BY <1>3, <1>4, <1>5, <1>6 DEF ComingFit
<1>11. Reached'
    <2>1. \A x : (Kept(x)' <=> Kept(x)) /\ (Called(x)' <=> Called(x))
        BY <1>1, <1>4, <1>5 DEF Kept, Called
    <2> QED BY <1>4, <1>5, <1>6, <2>1 DEF Reached
\* What the batch held is read.
<1>12. StaleNoted'
    <2>1. ASSUME NEW x \in Dirs, tree[x] \in stale', tree[x] \notin gap PROVE Noted(x)'
        <3>1. ~unknown /\ tree[x] \in stale /\ tree[x] \notin Covered
            BY <1>1, <2>1
        <3>2. Noted(x)
            BY <1>6, <2>1, <3>1 DEF StaleNoted
        <3>3. /\ <<"file", x>> \notin batch
              /\ \A q \in Paths : ~(<<"tree", q>> \in batch /\ Below(q, x))
            BY <3>1 DEF Covered
        <3> QED BY <1>1, <1>3, <1>4, <3>1, <3>2, <3>3 DEF Noted
    <2>2. stale' \subseteq stale
        BY <1>1
    <2> QED BY <1>1, <1>5, <1>6, <2>1, <2>2 DEF StaleNoted
<1> QED BY <1>7, <1>8, <1>9, <1>10, <1>11, <1>12 DEF Fits

\* No event is pending, everything is watched.
LEMMA InitFits ==
    ASSUME CoverageAssumption, Init, CovTyped
    PROVE  Fits
<1> DEFINE all == InitialDirs \cup {<<>>}
<1>1. /\ relToWd \in [all -> 0..Cardinality(InitialDirs)]
      /\ \A p, q \in all : relToWd[p] = relToWd[q] => p = q
      /\ tree = [p \in Paths |-> IF p \in all THEN relToWd[p] ELSE None]
      /\ watches = [wd \in Range(relToWd) |-> wd]
      /\ wdToRel \in [Range(relToWd) -> all]
      /\ \A wd \in Range(relToWd) : relToWd[wdToRel[wd]] = wd
    BY InitNumbers
<1>2. /\ queue = <<>> /\ data = <<>> /\ todo = <<>> /\ batch = {} /\ unknown = FALSE
      /\ stale = {} /\ used.wd = Cardinality(InitialDirs)
    BY DEF Init
<1>3. Len(Pending) = 0
    <2>1. Pending = <<>>
        BY <1>2 DEF Pending
    <2> QED BY <2>1
<1>4. (1..Len(Pending) = {}) /\ (1..Len(todo) = {})
    BY <1>2, <1>3
<1> HIDE DEF all
<1>5. /\ DOMAIN relToWd = all /\ DOMAIN watches = Range(relToWd) /\ DOMAIN wdToRel = Range(relToWd)
      /\ \A x \in all : relToWd[x] \in Range(relToWd) /\ watches[relToWd[x]] = relToWd[x]
      /\ Range(relToWd) \subseteq 0..Cardinality(InitialDirs)
    BY <1>1 DEF Range
<1>6. /\ Dirs = all
      /\ \A x \in all : tree[x] = relToWd[x]
    <2>1. Cardinality(InitialDirs) \in Nat /\ None \notin Nat
        BY CardNat DEF CoverageAssumption
    <2>2. \A x \in all : relToWd[x] # None
        BY <1>1, <2>1
    <2>3. all \subseteq Paths
        BY PathsByLen, PathsAreSeqs DEF CoverageAssumption, all, CovTyped, TreeOK, Dirs
    <2> QED BY <1>1, <2>2, <2>3 DEF Dirs
<1>7. \A w \in Range(relToWd) : \A x \in all : watches[w] = tree[x] => wdToRel[w] = x
    BY <1>1, <1>5, <1>6
<1>8. EventsFit
    BY <1>4 DEF EventsFit
<1>9. TablesFit
    BY <1>1, <1>2, <1>5 DEF TablesFit
<1>10. RegisteredFit
    <2>1. \A x \in all : Right(x)
        BY <1>5, <1>6 DEF Right
    <2>2. \A x \in Dirs : \A y \in NSeq : Below(y, x) => y \in Dirs
        BY DEF CovTyped, TreeOK
    <2> QED BY <1>5, <1>6, <2>1, <2>2 DEF RegisteredFit
<1>11. NamesFit
    BY <1>5, <1>6, <1>7 DEF NamesFit
<1>12. ComingFit /\ TodoFit
    BY <1>4 DEF ComingFit, TodoFit
<1>13. Reached
    <2>1. \A x \in Dirs : Kept(x)
        BY <1>4, <1>5, <1>6 DEF Kept, Right, Doomed
    <2> QED BY <2>1 DEF Reached
<1>14. StaleNoted
    BY <1>2 DEF StaleNoted
<1> QED BY <1>8, <1>9, <1>10, <1>11, <1>12, <1>13, <1>14 DEF Fits

\* The events that are pending keep their names.
LEMMA StillNamed ==
    ASSUME Pending' = Pending, Len(Pending) \in Nat,
           \A i \in 1..Len(Pending) : /\ Named(i)' <=> Named(i)
                                      /\ Named(i) => NameOf(i)' = NameOf(i)
    PROVE  /\ \A i \in 1..Len(Pending) :
                 /\ Named(i) => NameOf(i)' = NameOf(i) /\ Loc(i)' = Loc(i)
                 /\ Live(i)' <=> Live(i)
                 /\ Coming(i)' <=> Coming(i)
                 /\ \A x : Out(i, x)' <=> Out(i, x)
           /\ \A x : (Doomed(x)' <=> Doomed(x)) /\ (Heard(x)' <=> Heard(x))
<1> DEFINE n == Len(Pending)
<1>0. Len(Pending') = n /\ n \in Nat
    OBVIOUS
<1>1. \A i \in 1..n : Named(i) => NameOf(i)' = NameOf(i) /\ Loc(i)' = Loc(i)
    BY DEF Loc
<1>2. \A i \in 1..n : \A x : Out(i, x)' <=> Out(i, x)
    BY <1>1 DEF Out
<1> HIDE DEF n
<1>3. \A i \in 1..n : \A j \in 1..(i - 1) : j \in 1..n
    BY <1>0
<1>4. \A i \in 1..n : Live(i)' <=> Live(i)
    BY <1>1, <1>2, <1>3 DEF Live, n
<1>5. \A i \in 1..n : (Coming(i)' <=> Coming(i)) /\ (Coming(i) => Named(i))
    BY <1>4 DEF Coming, n, Live
<1>6. \A x : Doomed(x)' <=> Doomed(x)
    BY <1>0, <1>2 DEF Doomed, n
<1>7. \A i \in 1..n : \A j \in (i + 1)..n : j \in 1..n
    BY <1>0
<1>8. \A x : Heard(x)' <=> Heard(x)
    BY <1>0, <1>1, <1>2, <1>4, <1>5, <1>7 DEF Heard, n
<1> QED BY <1>1, <1>2, <1>4, <1>5, <1>6, <1>8 DEF n

\* AddWatch: the place has its watch, and the reader still has to look below it.
LEMMA AddWatchFits ==
    ASSUME CoverageAssumption, CovTyped, CovTyped', Fits, AddWatch
    PROVE  Fits'
<1> DEFINE n == Len(Pending)
<1>0. PICK p \in NSeq : p = Head(todo)[2]
    BY TodoIs DEF AddWatch, At
<1>1. /\ todo # <<>> /\ Head(todo)[1] = "add" /\ todo' = <<<<"scan", p>>>> \o Tail(todo)
      /\ UNCHANGED <<tree, queue, data, batch, unknown, stale, lost, crossed, gap>>
    BY <1>0 DEF AddWatch, At
<1>2. \/ /\ p \notin Dirs \/ p \in DOMAIN relToWd
         /\ UNCHANGED <<watches, wdToRel, relToWd, used>>
      \/ /\ p \in Dirs \ DOMAIN relToWd /\ Watching(tree[p]) # {}
      \/ /\ p \in Dirs \ DOMAIN relToWd /\ Watching(tree[p]) = {}
         /\ Use({"wd"}) /\ Registered(p, used'.wd)
         /\ watches' = [wd \in DOMAIN watches \cup {used'.wd} |->
                          IF wd = used'.wd THEN tree[p] ELSE watches[wd]]
    BY <1>0 DEF AddWatch
<1>3. /\ p \in NSeq /\ Below(p, p) /\ Len(todo) \in Nat \ {0} /\ todo[1][2] = p /\ 1 \in 1..Len(todo)
      /\ Len(todo') = Len(todo) /\ todo'[1] = <<"scan", p>>
      /\ \A k \in 1..Len(todo) : k # 1 => todo'[k] = todo[k]
    <2> DEFINE T == {"add", "scan"} \X NSeq
               tl == Tail(todo)
               one == <<<<"scan", p>>>>
    <2>1. /\ p \in NSeq /\ tl \in Seq(T) /\ Head(todo) = todo[1] /\ Len(todo) \in Nat \ {0}
          /\ Len(tl) = Len(todo) - 1
          /\ \A i \in 1..Len(tl) : tl[i] = todo[i + 1]
        BY <1>0, <1>1, TodoIs
    <2>2. one \in Seq(T) /\ Len(one) = 1 /\ one[1] = <<"scan", p>>
        BY <2>1
    <2>3. p = Head(todo)[2] /\ todo' = one \o tl
        BY <1>0, <1>1
    <2> HIDE DEF T, tl, one
    <2>4. /\ Len(one \o tl) = Len(one) + Len(tl)
          /\ \A i \in 1..Len(one) + Len(tl) :
                (one \o tl)[i] = IF i <= Len(one) THEN one[i] ELSE tl[i - Len(one)]
        BY ONLY <2>1, <2>2, ConcatProperties
    <2>5. Len(todo') = Len(todo) /\ todo'[1] = <<"scan", p>>
        BY <2>1, <2>2, <2>3, <2>4
    <2>6. ASSUME NEW k \in 1..Len(todo), k # 1 PROVE todo'[k] = todo[k]
        <3>1. k \in 1..Len(one) + Len(tl) /\ ~(k <= Len(one)) /\ k - Len(one) \in 1..Len(tl)
              /\ k - Len(one) + 1 = k
            BY ONLY <2>1, <2>2, <2>6
        <3>2. todo'[k] = tl[k - Len(one)]
            BY <2>3, <2>4, <3>1
        <3> QED BY <2>1, <3>1, <3>2
    <2> QED BY <1>0, <2>1, <2>3, <2>5, <2>6, BelowOrder
<1>4. /\ \A k \in 1..Len(todo) : todo'[k][2] = todo[k][2]
      /\ \A k \in 1..Len(todo) : k # 1 => todo'[k] = todo[k]
      /\ todo'[1][1] = "scan"
    BY <1>3
<1>5. Pending' = Pending /\ Dirs' = Dirs /\ n \in Nat
    BY <1>1, PendingIs DEF Pending, Dirs
<1> HIDE DEF n
<1>6. EventsFit /\ TablesFit /\ RegisteredFit /\ NamesFit /\ ComingFit /\ TodoFit /\ Reached
      /\ StaleNoted
    BY DEF Fits
<1>7. /\ p \in Dirs \/ Doomed(p)
      /\ \A y \in NSeq : Below(y, p) /\ y # p => y \in DOMAIN relToWd \/ Doomed(p)
    BY <1>3, <1>6 DEF TodoFit
\* A watch with another name would be taken away before the reader comes here.
<1>8. ~(p \in Dirs \ DOMAIN relToWd /\ Watching(tree[p]) # {})
    <2> SUFFICES ASSUME p \in Dirs, p \notin DOMAIN relToWd, NEW w \in Watching(tree[p])
                 PROVE  FALSE
        OBVIOUS
    <2>1. /\ w \in DOMAIN watches /\ watches[w] = tree[p] /\ w \in DOMAIN wdToRel
          /\ wdToRel[w] \in DOMAIN relToWd
        BY <1>6 DEF Watching, TablesFit, CovTyped, TablesOK
    <2>2. Stale(p, w)
        BY <1>6, <2>1 DEF NamesFit
    <2>3. Related(p, p)
        BY <1>3, DirsAre DEF Related
    <2> QED BY <1>3, <2>2, <2>3 DEF Stale
<1> DEFINE nw == used.wd + 1
<1>9. \/ /\ p \notin Dirs \/ p \in DOMAIN relToWd
         /\ UNCHANGED <<watches, wdToRel, relToWd, used>>
      \/ /\ p \in Dirs \ DOMAIN relToWd /\ Watching(tree[p]) = {} /\ used'.wd = nw
         /\ wdToRel' = [w \in DOMAIN wdToRel \cup {nw} |-> IF w = nw THEN p ELSE wdToRel[w]]
         /\ relToWd' = [q \in DOMAIN relToWd \cup {p} |-> IF q = p THEN nw ELSE relToWd[q]]
         /\ watches' = [wd \in DOMAIN watches \cup {nw} |->
                          IF wd = nw THEN tree[p] ELSE watches[wd]]
    <2>1. CASE /\ p \notin Dirs \/ p \in DOMAIN relToWd
               /\ UNCHANGED <<watches, wdToRel, relToWd, used>>
        BY <2>1
    <2>2. CASE /\ p \in Dirs \ DOMAIN relToWd /\ Watching(tree[p]) = {}
               /\ Use({"wd"}) /\ Registered(p, used'.wd)
               /\ watches' = [wd \in DOMAIN watches \cup {used'.wd} |->
                                IF wd = used'.wd THEN tree[p] ELSE watches[wd]]
        <3>1. used'.wd = nw
            BY <2>2 DEF Use, CovTyped, UsedOK
        <3> HIDE DEF nw
        <3> QED BY <2>2, <3>1 DEF Registered
    <2> QED BY <1>2, <1>8, <2>1, <2>2
<1>10. /\ used.wd \in Nat /\ DOMAIN wdToRel \subseteq 0..used.wd /\ nw \notin DOMAIN wdToRel
       /\ DOMAIN watches \subseteq DOMAIN wdToRel
       /\ \A i \in 1..n : Pending[i].kind # "overflow" /\ Pending[i].wd <= used.wd
       /\ \A i \in 1..n : Pending[i].wd # nw
    <2>1. /\ used.wd \in Nat /\ DOMAIN wdToRel \subseteq 0..used.wd
          /\ DOMAIN watches \subseteq DOMAIN wdToRel
          /\ \A i \in 1..n : Pending[i].kind # "overflow" /\ Pending[i].wd <= used.wd
        BY <1>6 DEF EventsFit, TablesFit, n, CovTyped, UsedOK
    <2>2. \A i \in 1..n : Pending[i].wd \in Nat
        BY <2>1, PendingIs DEF n
    <2> QED BY <2>1, <2>2
<1> HIDE DEF nw
<1>11. /\ DOMAIN relToWd \subseteq DOMAIN relToWd'
       /\ \A x \in DOMAIN relToWd' : x \in DOMAIN relToWd \/ (x = p /\ Right(p)')
       /\ p \in DOMAIN relToWd' \/ Doomed(p)
       /\ \A x : Right(x) => Right(x)'
       /\ p \in Dirs /\ ~Doomed(p) => Right(p)'
       /\ \A i \in 1..n : (Named(i)' <=> Named(i)) /\ (Named(i) => NameOf(i)' = NameOf(i))
       /\ \A w \in DOMAIN watches' :
             \/ w \in DOMAIN watches /\ watches'[w] = watches[w] /\ wdToRel'[w] = wdToRel[w]
             \/ watches'[w] = tree[p] /\ wdToRel'[w] = p /\ p \in Dirs
    <2>1. CASE /\ p \notin Dirs \/ p \in DOMAIN relToWd
               /\ UNCHANGED <<watches, wdToRel, relToWd, used>>
        <3>1. \A x : Right(x) <=> Right(x)'
            BY <1>5, <1>1, <2>1 DEF Right
        <3>2. \A i \in 1..n : (Named(i)' <=> Named(i)) /\ (Named(i) => NameOf(i)' = NameOf(i))
            BY <1>5, <2>1 DEF Named, NameOf
        <3> QED BY <1>6, <1>7, <2>1, <3>1, <3>2 DEF RegisteredFit
    <2>2. CASE /\ p \in Dirs \ DOMAIN relToWd /\ Watching(tree[p]) = {} /\ used'.wd = nw
               /\ wdToRel' = [w \in DOMAIN wdToRel \cup {nw} |-> IF w = nw THEN p ELSE wdToRel[w]]
               /\ relToWd' = [q \in DOMAIN relToWd \cup {p} |-> IF q = p THEN nw ELSE relToWd[q]]
               /\ watches' = [wd \in DOMAIN watches \cup {nw} |->
                                IF wd = nw THEN tree[p] ELSE watches[wd]]
        <3>1. ASSUME NEW x, Right(x) PROVE Right(x)'
            <4>1. x \in DOMAIN relToWd /\ x # p /\ relToWd[x] \in DOMAIN watches
                  /\ relToWd[x] # nw
                BY <1>10, <2>2, <3>1 DEF Right
            <4>2. relToWd'[x] = relToWd[x] /\ watches'[relToWd[x]] = watches[relToWd[x]]
                BY <2>2, <4>1
            <4> QED BY <1>1, <1>5, <2>2, <3>1, <4>1, <4>2 DEF Right
        <3>2. Right(p)'
            BY <1>1, <1>5, <2>2 DEF Right
        <3>3. \A i \in 1..n : (Named(i)' <=> Named(i)) /\ (Named(i) => NameOf(i)' = NameOf(i))
            BY <1>5, <1>10, <2>2 DEF Named, NameOf
        <3>4. DOMAIN relToWd' = DOMAIN relToWd \cup {p}
            BY <2>2
        <3>5. \A w \in DOMAIN watches' :
                 \/ w \in DOMAIN watches /\ watches'[w] = watches[w] /\ wdToRel'[w] = wdToRel[w]
                 \/ watches'[w] = tree[p] /\ wdToRel'[w] = p /\ p \in Dirs
            BY <1>10, <2>2
        <3> QED BY <3>1, <3>2, <3>3, <3>4, <3>5
    <2> QED BY <1>9, <2>1, <2>2
<1>12. /\ \A i \in 1..n :
             /\ Named(i) => NameOf(i)' = NameOf(i) /\ Loc(i)' = Loc(i)
             /\ (Live(i)' <=> Live(i)) /\ (Coming(i)' <=> Coming(i))
             /\ \A x : Out(i, x)' <=> Out(i, x)
       /\ \A x : (Doomed(x)' <=> Doomed(x)) /\ (Heard(x)' <=> Heard(x))
    BY <1>5, <1>11, StillNamed DEF n
<1>13. EventsFit' /\ TablesFit'
    <2>1. CASE UNCHANGED <<watches, wdToRel, relToWd, used>>
        BY <1>5, <1>6, <2>1 DEF EventsFit, TablesFit
    <2>2. CASE /\ p \in Dirs \ DOMAIN relToWd /\ Watching(tree[p]) = {} /\ used'.wd = nw
               /\ wdToRel' = [w \in DOMAIN wdToRel \cup {nw} |-> IF w = nw THEN p ELSE wdToRel[w]]
               /\ relToWd' = [q \in DOMAIN relToWd \cup {p} |-> IF q = p THEN nw ELSE relToWd[q]]
               /\ watches' = [wd \in DOMAIN watches \cup {nw} |->
                                IF wd = nw THEN tree[p] ELSE watches[wd]]
        <3>1. \A i \in 1..n : Pending[i].wd <= nw
            <4>1. \A i \in 1..n : Pending[i].wd \in Nat
                BY <1>10, PendingIs DEF n
            <4> QED BY <1>10, <4>1 DEF nw
        <3>2. DOMAIN watches' = DOMAIN watches \cup {nw}
            BY <2>2
        <3>3. EventsFit'
            BY <1>5, <1>6, <1>10, <2>2, <3>1, <3>2 DEF EventsFit, n
        <3>4. \A v, w \in DOMAIN watches' : watches'[v] = watches'[w] => v = w
            BY <1>6, <1>10, <2>2 DEF TablesFit, Watching
        <3>5. DOMAIN wdToRel' \subseteq 0..nw
            BY <1>10, <2>2 DEF nw
        <3>6. \A q \in DOMAIN relToWd' : relToWd'[q] \in DOMAIN wdToRel' /\ wdToRel'[relToWd'[q]] = q
            BY <1>6, <1>10, <2>2 DEF TablesFit
        <3> QED BY <1>10, <2>2, <3>2, <3>3, <3>4, <3>5, <3>6 DEF TablesFit
    <2> QED BY <1>9, <2>1, <2>2
<1>14. RegisteredFit'
    BY <1>5, <1>6, <1>7, <1>11, <1>12 DEF RegisteredFit
<1>15. NamesFit'
    <2> SUFFICES ASSUME NEW q \in Dirs, NEW w \in DOMAIN watches', watches'[w] = tree[q],
                        wdToRel'[w] # q
                 PROVE  Stale(q, w)'
        BY <1>1, <1>5 DEF NamesFit
    <2>1. ~(watches'[w] = tree[p] /\ wdToRel'[w] = p /\ p \in Dirs)
        BY DEF CovTyped, TreeOK
    <2>2. w \in DOMAIN watches /\ watches'[w] = watches[w] /\ wdToRel'[w] = wdToRel[w]
        BY <1>11, <2>1
    <2>3. /\ \A k \in 1..Len(todo) : ~Related(todo[k][2], q)
          /\ \E i \in 1..n :
                Out(i, wdToRel[w]) /\ \A j \in 1..(i - 1) : Coming(j) => ~Related(Loc(j), q)
        BY <1>6, <2>2 DEF NamesFit, Stale, n
    <2>4. PICK i \in 1..n :
             Out(i, wdToRel[w]) /\ \A j \in 1..(i - 1) : Coming(j) => ~Related(Loc(j), q)
        BY <2>3
    <2>5. \A j \in 1..(i - 1) : j \in 1..n /\ (Coming(j) => Named(j))
        BY <1>5 DEF Coming, Live
    <2>6. Out(i, wdToRel[w])' /\ \A j \in 1..(i - 1) : Coming(j)' => ~Related(Loc(j)', q)
        BY <1>12, <2>2, <2>4, <2>5
    <2> QED BY <1>3, <1>4, <1>5, <2>3, <2>6 DEF Stale, n
<1>16. ComingFit'
    <2>1. \A i \in 1..n : \A j \in (i + 1)..n : j \in 1..n
        BY <1>5
    <2>2. \A i \in 1..n : Coming(i) => Named(i)
        BY DEF Coming, Live
    <2> QED BY <1>5, <1>6, <1>12, <2>1, <2>2 DEF ComingFit, n
<1>17. TodoFit'
    <2> SUFFICES ASSUME NEW k \in 1..Len(todo)
                 PROVE  /\ todo[k][2] \in Dirs \/ Doomed(todo[k][2])
                        /\ \A y \in NSeq : Below(y, todo[k][2]) /\ y # todo[k][2] =>
                              y \in DOMAIN relToWd' \/ Doomed(todo[k][2])
                        /\ todo'[k][1] = "scan" => todo[k][2] \in DOMAIN relToWd' \/ Doomed(todo[k][2])
        BY <1>3, <1>4, <1>5, <1>12 DEF TodoFit
    <2>1. CASE k = 1
        BY <1>3, <1>7, <1>11, <2>1
    <2>2. CASE k # 1
        BY <1>4, <1>6, <1>11, <2>2 DEF TodoFit
    <2> QED BY <2>1, <2>2
<1>18. Reached'
    <2> SUFFICES ASSUME NEW x \in Dirs PROVE Kept(x)' \/ Heard(x)' \/ Called(x)'
        BY <1>5 DEF Reached
    <2>1. CASE Kept(x)
        BY <1>11, <1>12, <2>1 DEF Kept
    <2>2. CASE Heard(x)
        BY <1>12, <2>2
    <2>3. CASE Called(x)
        <3>1. PICK k \in 1..Len(todo) : /\ Below(todo[k][2], x)
                                        /\ todo[k][1] = "scan" => todo[k][2] # x
            BY <2>3 DEF Called
        <3>2. ~Doomed(x) /\ ~Doomed(x)'
            BY <1>12, <2>3 DEF Called
        <3>3. CASE k # 1 \/ x # p
            BY <1>3, <1>4, <3>1, <3>2, <3>3 DEF Called
        <3>4. CASE x = p
            BY <1>11, <3>2, <3>4 DEF Kept
        <3> QED BY <3>3, <3>4
    <2> QED BY <1>6, <2>1, <2>2, <2>3 DEF Reached
<1>19. StaleNoted'
    <2>1. \A x : Noted(x)' <=> Noted(x)
        <3>1. \A i \in 1..n : (Coming(i) => Named(i)) /\ (Live(i) => Named(i))
            BY DEF Coming, Live
        <3> QED BY <1>1, <1>5, <1>12, <3>1 DEF Noted, n
    <2> QED BY <1>1, <1>5, <1>6, <2>1 DEF StaleNoted
<1> QED BY <1>13, <1>14, <1>15, <1>16, <1>17, <1>18, <1>19 DEF Fits

\* Scan: to what is below the place the reader comes by the child that is on the way.
LEMMA ScanFits ==
    ASSUME CoverageAssumption, CovTyped, Fits, Scan
    PROVE  Fits'
<1> DEFINE n == Len(Pending)
           T == {"add", "scan"} \X NSeq
<1>0. PICK t \in NSeq : t = Head(todo)[2]
    BY TodoIs DEF Scan, At
<1>1. /\ todo # <<>> /\ Head(todo)[1] = "scan"
      /\ UNCHANGED <<tree, watches, queue, data, wdToRel, relToWd, batch, unknown, stale, used,
                     lost, crossed, gap>>
    BY DEF Scan, At, kernel
<1>2. PICK calls \in Seq(T) :
          /\ todo' = calls \o Tail(todo)
          /\ \A i \in 1..Len(calls) : calls[i][1] = "add" /\ calls[i][2] \in Children(t)
          /\ \A q \in Children(t) : \E i \in 1..Len(calls) : calls[i][2] = q
    BY <1>0, ScanTodo
<1> DEFINE m == Len(calls)
           l == Len(todo)
<1>3. /\ m \in Nat /\ l \in Nat \ {0} /\ todo[1][2] = t /\ todo[1][1] = "scan"
      /\ \A k \in 1..m : k \in 1..Len(todo') /\ todo'[k] = calls[k]
      /\ \A k \in 1..l : k # 1 => \E j \in 1..Len(todo') : todo'[j] = todo[k]
      /\ \A j \in 1..Len(todo') : \/ j \in 1..m
                                  \/ \E k \in 1..l : k # 1 /\ todo'[j] = todo[k]
    <2> DEFINE tl == Tail(todo)
    <2>1. /\ tl \in Seq(T) /\ Head(todo) = todo[1] /\ l \in Nat \ {0}
          /\ Len(tl) = l - 1
          /\ \A i \in 1..Len(tl) : tl[i] = todo[i + 1]
        BY <1>1, TodoIs
    <2>2. todo' = calls \o tl /\ calls \in Seq(T)
        BY <1>2
    <2>3. m \in Nat
        BY <1>2, LenProperties
    <2> HIDE DEF T, tl, l
    <2>4. /\ Len(calls \o tl) = Len(calls) + Len(tl)
          /\ \A i \in 1..Len(calls) + Len(tl) :
                (calls \o tl)[i] = IF i <= Len(calls) THEN calls[i] ELSE tl[i - Len(calls)]
        BY ONLY <2>1, <2>2, ConcatProperties
    <2> HIDE DEF m
    <2>5. /\ Len(todo') = m + (l - 1)
          /\ \A i \in 1..(m + (l - 1)) : todo'[i] = IF i <= m THEN calls[i] ELSE tl[i - m]
        BY <2>1, <2>2, <2>4 DEF m
    <2>6. \A k \in 1..m : k \in 1..Len(todo') /\ todo'[k] = calls[k]
        BY <2>1, <2>3, <2>5
    <2>7. ASSUME NEW k \in 1..l, k # 1 PROVE \E j \in 1..Len(todo') : todo'[j] = todo[k]
        <3> DEFINE j == m + k - 1
        <3>1. /\ j \in 1..(m + (l - 1)) /\ ~(j <= m) /\ j - m = k - 1 /\ k - 1 \in 1..Len(tl)
              /\ (k - 1) + 1 = k
            BY ONLY <2>1, <2>3, <2>7
        <3>2. tl[k - 1] = todo[(k - 1) + 1]
            BY <2>1, <3>1
        <3> HIDE DEF j
        <3>3. todo'[j] = tl[j - m]
            BY <2>5, <3>1
        <3> QED BY <2>5, <3>1, <3>2, <3>3
    <2>8. ASSUME NEW j \in 1..Len(todo'), j \notin 1..m
          PROVE  \E k \in 1..l : k # 1 /\ todo'[j] = todo[k]
        <3> DEFINE k == j - m + 1
        <3>1. /\ j \in 1..(m + (l - 1)) /\ ~(j <= m) /\ j - m \in 1..Len(tl)
              /\ k \in 1..l /\ k # 1
            BY ONLY <2>1, <2>3, <2>5, <2>8
        <3>2. tl[j - m] = todo[k]
            BY <2>1, <3>1
        <3> QED BY <2>5, <3>1, <3>2
    <2> QED BY <1>0, <1>1, <2>1, <2>3, <2>6, <2>7, <2>8
<1> HIDE DEF m, l, T, n
<1>4. /\ Pending' = Pending /\ Dirs' = Dirs
      /\ \A x : (Right(x)' <=> Right(x))
    BY <1>1 DEF Pending, Dirs, Right
<1>5. /\ \A i : NameOf(i)' = NameOf(i) /\ Loc(i)' = Loc(i)
      /\ \A i : (Named(i)' <=> Named(i)) /\ (Live(i)' <=> Live(i)) /\ (Coming(i)' <=> Coming(i))
      /\ \A i, x : Out(i, x)' <=> Out(i, x)
      /\ \A x : (Doomed(x)' <=> Doomed(x)) /\ (Heard(x)' <=> Heard(x))
    BY <1>1, <1>4, SameEvents
<1>6. EventsFit /\ TablesFit /\ RegisteredFit /\ NamesFit /\ ComingFit /\ TodoFit /\ Reached
      /\ StaleNoted
    BY DEF Fits
<1>7. \A c \in Children(t) : /\ c \in Dirs /\ c \in NSeq /\ Below(t, c)
                             /\ \A y \in NSeq : Below(y, c) /\ y # c => Below(y, t)
    <2> SUFFICES ASSUME NEW c \in Children(t)
                 PROVE  /\ c \in Dirs /\ c \in NSeq /\ Below(t, c)
                        /\ \A y \in NSeq : Below(y, c) /\ y # c => Below(y, t)
        OBVIOUS
    <2>1. c \in Dirs /\ c \in NSeq /\ Len(c) = Len(t) + 1 /\ Below(t, c)
        BY DirsAre DEF Children
    <2>2. c # <<>> /\ Len(t) \in Nat
        BY <2>1, SeqLen
    <2>3. /\ Len(Front(c)) = Len(c) - 1 /\ Below(Front(c), c)
          /\ \A y \in NSeq : Below(y, c) => y = c \/ Below(y, Front(c))
        BY <2>1, <2>2, FrontAndLast
    <2>4. Len(Front(c)) = Len(t)
        BY <2>1, <2>2, <2>3
    <2>5. Front(c) = t
        BY <2>1, <2>3, <2>4 DEF Below
    <2> QED BY <2>1, <2>3, <2>5
<1>8. /\ t \in DOMAIN relToWd \/ Doomed(t)
      /\ \A y \in NSeq : Below(y, t) => y \in DOMAIN relToWd \/ Doomed(t)
    <2>1. 1 \in 1..l
        BY <1>3
    <2> QED BY <1>3, <1>6, <2>1 DEF TodoFit, l
<1>9. EventsFit' /\ TablesFit' /\ RegisteredFit' /\ ComingFit'
    <2>1. EventsFit' /\ TablesFit'
        BY <1>1, <1>4, <1>6 DEF EventsFit, TablesFit
    <2>2. RegisteredFit'
        BY <1>1, <1>4, <1>5, <1>6 DEF RegisteredFit
    <2>3. ComingFit'
        BY <1>4, <1>5, <1>6 DEF ComingFit
    <2> QED BY <2>1, <2>2, <2>3
<1>10. NamesFit'
    <2> SUFFICES ASSUME NEW q \in Dirs, NEW w, Stale(q, w) PROVE Stale(q, w)'
        BY <1>1, <1>4, <1>6 DEF NamesFit
    <2>1. ASSUME NEW j \in 1..Len(todo') PROVE ~Related(todo'[j][2], q)
        <3>1. CASE j \in 1..m
            <4>1. todo'[j][2] \in Children(t)
                BY <1>2, <1>3, <3>1 DEF m
            <4> SUFFICES ASSUME NEW r \in Paths, Below(todo'[j][2], r), Below(q, r) PROVE FALSE
                BY DEF Related
            <4>2. Below(t, r)
                BY <1>7, <4>1, PathsAreSeqs, BelowOrder
            <4>3. Related(t, q)
                BY <4>2 DEF Related
            <4> QED BY <1>3, <4>3 DEF Stale, l
        <3>2. CASE j \notin 1..m
            BY <1>3, <3>2 DEF Stale, l
        <3> QED BY <3>1, <3>2
    <2> QED BY <1>1, <1>4, <1>5, <2>1 DEF Stale
<1>11. TodoFit'
    <2>1. ASSUME NEW j \in 1..Len(todo')
          PROVE  /\ todo'[j][2] \in Dirs \/ Doomed(todo'[j][2])
                 /\ \A y \in NSeq : Below(y, todo'[j][2]) /\ y # todo'[j][2] =>
                       y \in DOMAIN relToWd \/ Doomed(todo'[j][2])
                 /\ todo'[j][1] = "scan" => todo'[j][2] \in DOMAIN relToWd \/ Doomed(todo'[j][2])
        <3>1. CASE j \in 1..m
            <4>1. todo'[j][2] \in Children(t) /\ todo'[j][1] = "add"
                BY <1>2, <1>3, <3>1 DEF m
            <4>2. Doomed(t) => Doomed(todo'[j][2])
                BY <1>7, <4>1, DoomedDown
            <4> QED BY <1>7, <1>8, <4>1, <4>2
        <3>2. CASE j \notin 1..m
            <4>1. PICK k \in 1..l : k # 1 /\ todo'[j] = todo[k]
                BY <1>3, <3>2
            <4> QED BY <1>6, <4>1 DEF TodoFit, l
        <3> QED BY <3>1, <3>2
    <2> QED BY <1>1, <1>4, <1>5, <2>1 DEF TodoFit
<1>12. Reached'
    <2> SUFFICES ASSUME NEW x \in Dirs PROVE Kept(x)' \/ Heard(x)' \/ Called(x)'
        BY <1>4 DEF Reached
    <2>1. CASE Kept(x)
        BY <1>4, <1>5, <2>1 DEF Kept
    <2>2. CASE Heard(x)
        BY <1>5, <2>2
    <2>3. CASE Called(x)
        <3>1. PICK k \in 1..l : /\ Below(todo[k][2], x)
                                /\ todo[k][1] = "scan" => todo[k][2] # x
            BY <2>3 DEF Called, l
        <3>2. ~Doomed(x)'
            BY <1>5, <2>3 DEF Called
        <3>3. CASE k # 1
            BY <1>3, <3>1, <3>2, <3>3 DEF Called
        <3>4. CASE k = 1
            <4>1. Below(t, x) /\ t # x /\ x \in NSeq
                BY <1>3, <3>1, <3>4, DirsAre
            <4>2. PICK c \in NSeq : Len(c) = Len(t) + 1 /\ Below(t, c) /\ Below(c, x)
                BY <4>1, NextOnTheWay
            <4>3. c \in Children(t)
                BY <4>2 DEF Children, CovTyped, TreeOK
            <4>4. PICK i \in 1..m : calls[i][2] = c
                BY <1>2, <4>3 DEF m
            <4>5. i \in 1..Len(todo') /\ todo'[i][2] = c /\ todo'[i][1] = "add"
                BY <1>2, <1>3, <4>4 DEF m
            <4> QED BY <3>2, <4>2, <4>5 DEF Called
        <3> QED BY <3>3, <3>4
    <2> QED BY <1>6, <2>1, <2>2, <2>3 DEF Reached
<1>13. StaleNoted'
    <2>1. \A x : Noted(x)' <=> Noted(x)
        BY <1>1, <1>4, <1>5 DEF Noted
    <2> QED BY <1>1, <1>4, <1>6, <2>1 DEF StaleNoted
<1> QED BY <1>9, <1>10, <1>11, <1>12, <1>13 DEF Fits

\* The event of a directory itself, if it is watched.
LEMMA EventOther ==
    ASSUME CovTyped, NEW dir, NEW kind \in {"file", "self", "ignored"},
           NEW s, s = Event(dir, kind, None)
    PROVE  /\ EventsOK(s) /\ s \in Seq(Events)
           /\ \/ Watching(dir) = {} /\ Len(s) = 0
              \/ /\ Len(s) = 1 /\ s[1].wd \in Watching(dir)
                 /\ s[1].kind = kind /\ s[1].name = None
<1>1. kind \in Kinds /\ kind \notin {"in", "out"} /\ None \in Names \cup {None}
    BY DEF Kinds
<1>2. kind \in {"in", "out"} => None \in Names
    BY <1>1
<1> QED BY ONLY <1>1, <1>2, s = Event(dir, kind, None), CovTyped, EventOne

\* Rmdir: the watch ends, and its IGNORED event is the last that bears its descriptor.
LEMMA RmdirFits ==
    ASSUME CoverageAssumption, CovTyped, CovTyped', Fits, NEW p \in Paths, Rmdir(p), ~lost'
    PROVE  Fits'
<1> DEFINE f == Front(p)
           a == Event(tree[f], "out", Last(p))
           b == Event(tree[p], "self", None)
           c == Event(tree[p], "ignored", None)
           evs == a \o b \o c
           n == Len(Pending)
<1>1. /\ p \in NSeq /\ p # <<>> /\ p \in Dirs /\ f \in Dirs
      /\ Dirs' = Dirs \ {p}
      /\ \A r \in Dirs' : tree'[r] = tree[r] /\ ~Below(p, r)
    BY RmdirTree
<1>2. /\ f \in NSeq /\ Last(p) \in Names /\ Below(f, p) /\ f # p /\ Below(p, p)
    BY <1>1, FrontAndLast, BelowOrder
<1>3. /\ stale' = stale \ {tree[p]}
      /\ watches' = Restrict(watches, DOMAIN watches \ Watching(tree[p]))
      /\ Emit("remove", evs)
      /\ UNCHANGED <<data, todo, wdToRel, relToWd, batch, unknown, crossed, gap>>
    BY DEF Rmdir, reader
<1>4. /\ DOMAIN watches' = DOMAIN watches \ Watching(tree[p])
      /\ \A w \in DOMAIN watches' : watches'[w] = watches[w]
    BY <1>3 DEF Restrict
<1>5. /\ EventsOK(a) /\ a \in Seq(Events)
      /\ \/ Watching(tree[f]) = {} /\ Len(a) = 0
         \/ Len(a) = 1 /\ a[1].wd \in Watching(tree[f]) /\ a[1].kind = "out" /\ a[1].name = Last(p)
    <2>1. "out" \in Kinds /\ Last(p) \in Names \cup {None} /\ a = Event(tree[f], "out", Last(p))
        BY <1>2 DEF Kinds
    <2> HIDE DEF a
    <2> QED BY ONLY <1>2, <2>1, CovTyped, EventOne
<1>6. /\ EventsOK(b) /\ b \in Seq(Events)
      /\ \/ Watching(tree[p]) = {} /\ Len(b) = 0
         \/ Len(b) = 1 /\ b[1].wd \in Watching(tree[p]) /\ b[1].kind = "self" /\ b[1].name = None
    <2>1. "self" \in {"file", "self", "ignored"} /\ b = Event(tree[p], "self", None)
        OBVIOUS
    <2> HIDE DEF b
    <2> QED BY ONLY <2>1, CovTyped, EventOther
<1>7. /\ EventsOK(c) /\ c \in Seq(Events)
      /\ \/ Watching(tree[p]) = {} /\ Len(c) = 0
         \/ Len(c) = 1 /\ c[1].wd \in Watching(tree[p]) /\ c[1].kind = "ignored" /\ c[1].name = None
    <2>1. "ignored" \in {"file", "self", "ignored"} /\ c = Event(tree[p], "ignored", None)
        OBVIOUS
    <2> HIDE DEF c
    <2> QED BY ONLY <2>1, CovTyped, EventOther
<1> HIDE DEF a, b, c
<1>8. /\ EventsOK(evs) /\ Len(evs) \in Nat
      /\ \A i \in 1..Len(evs) :
            \/ evs[i].kind = "out" /\ evs[i].wd \in Watching(tree[f]) /\ evs[i].name = Last(p)
            \/ evs[i].kind = "self" /\ evs[i].wd \in Watching(tree[p])
            \/ evs[i].kind = "ignored" /\ evs[i].wd \in Watching(tree[p]) /\ i = Len(evs)
      /\ Watching(tree[f]) # {} => 1 \in 1..Len(evs) /\ evs[1].kind = "out"
    <2>1. EventsOK(evs)
        BY <1>5, <1>6, <1>7, EventsJoin
    <2>2. Len(a) \in {0, 1} /\ Len(b) \in {0, 1} /\ Len(c) \in {0, 1}
        BY <1>5, <1>6, <1>7
    <2>3. /\ Len(evs) = Len(a) + Len(b) + Len(c)
          /\ Len(a) = 1 => evs[1] = a[1]
          /\ \A i \in 1..Len(evs) :
                 \/ Len(a) = 1 /\ i = 1 /\ evs[i] = a[1]
                 \/ Len(b) = 1 /\ i = Len(a) + 1 /\ evs[i] = b[1]
                 \/ Len(c) = 1 /\ i = Len(evs) /\ i = Len(a) + Len(b) + 1 /\ evs[i] = c[1]
        BY ONLY <1>5, <1>6, <1>7, <2>2, ThreeEvents
    <2> HIDE DEF evs, f
    <2>4. \A i \in 1..Len(evs) :
            \/ evs[i].kind = "out" /\ evs[i].wd \in Watching(tree[f]) /\ evs[i].name = Last(p)
            \/ evs[i].kind = "self" /\ evs[i].wd \in Watching(tree[p])
            \/ evs[i].kind = "ignored" /\ evs[i].wd \in Watching(tree[p]) /\ i = Len(evs)
        BY <1>5, <1>6, <1>7, <2>3
    <2>5. Watching(tree[f]) # {} => 1 \in 1..Len(evs) /\ evs[1].kind = "out"
        BY <1>5, <2>2, <2>3
    <2>6. Len(evs) \in Nat
        BY <2>2, <2>3
    <2> QED BY <2>1, <2>4, <2>5, <2>6
<1>9. queue' = queue \o evs /\ used'.wd = used.wd
    BY <1>3, <1>8, EmitTyped
<1> HIDE DEF evs
<1>10. EventsFit /\ TablesFit /\ RegisteredFit /\ NamesFit /\ ComingFit /\ TodoFit /\ Reached
      /\ StaleNoted
    BY DEF Fits
<1>11. EventsFit' /\ TablesFit'
    <2>1. \A i \in 1..Len(evs) :
             /\ evs[i].kind # "overflow" /\ evs[i].wd \in DOMAIN watches
             /\ evs[i].kind = "file" => evs[i].name = None
             /\ evs[i].kind = "ignored" => i = Len(evs) /\ evs[i].wd \notin DOMAIN watches'
        BY <1>4, <1>8 DEF Watching
    <2> HIDE DEF f
    <2> QED BY <1>3, <1>4, <1>8, <1>9, <2>1, FileStepFits
<1>12. /\ \A i \in 1..Len(Pending') : \A x \in NSeq :
                 i \notin 1..n /\ Out(i, x)' => Below(p, x) \/ (Doomed(x) /\ ~Live(i)')
       /\ \A x \in NSeq : Doomed(x)' => Doomed(x) \/ Below(p, x)
       /\ \A x \in NSeq : Below(p, x) /\ (f \in DOMAIN relToWd \/ Doomed(x)) => Doomed(x)'
       /\ \A i \in 1..n : Coming(i) /\ Below(p, Loc(i)) =>
                 \E j \in (i + 1)..Len(Pending') : Out(j, Loc(i))'
    BY <1>1, <1>3, <1>8, <1>9, Leaving
<1>13. /\ n \in Nat /\ Len(Pending') = n + Len(evs)
       /\ \A i \in 1..n :
             /\ i \in 1..Len(Pending')
             /\ Loc(i)' = Loc(i) /\ (Coming(i)' <=> Coming(i)) /\ (Live(i)' <=> Live(i))
             /\ \A x : Out(i, x)' <=> Out(i, x)
       /\ \A i \in 1..Len(Pending') :
             i \notin 1..n => \E k \in 1..Len(evs) : Pending'[i] = evs[k]
       /\ \A x : Doomed(x) => Doomed(x)'
    <2>1. n \in Nat /\ Len(Pending') = n + Len(evs) /\ 1..n \subseteq 1..Len(Pending')
        BY <1>3, <1>8, <1>9, PendingIs, Appended
    <2>2. \A i \in 1..n :
            /\ Loc(i)' = Loc(i) /\ (Coming(i)' <=> Coming(i)) /\ (Live(i)' <=> Live(i))
            /\ \A x : Out(i, x)' <=> Out(i, x)
        BY <1>3, <1>8, <1>9, Appended
    <2>3. /\ \A i \in 1..Len(Pending') :
                i \notin 1..n => \E k \in 1..Len(evs) : Pending'[i] = evs[k]
          /\ \A x : Doomed(x) => Doomed(x)'
        BY <1>3, <1>8, <1>9, Appended
    <2> HIDE DEF n
    <2> QED BY <2>1, <2>2, <2>3
<1> HIDE DEF n, f
<1>14. /\ Dirs' \subseteq Dirs /\ Dirs \subseteq NSeq
       /\ \A x \in Dirs : x = p \/ (x \in Dirs' /\ tree'[x] = tree[x] /\ ~Below(p, x))
    BY <1>1, DirsAre
<1>15. \A x \in DOMAIN relToWd : Right(x) /\ x # p => Right(x)'
    <2> SUFFICES ASSUME NEW x \in DOMAIN relToWd, Right(x), x # p PROVE Right(x)'
        OBVIOUS
    <2>1. x \in Dirs /\ x \in Dirs' /\ tree'[x] = tree[x]
        BY <1>14 DEF Right
    <2>2. tree[x] # tree[p]
        BY <1>1, <2>1 DEF CovTyped, TreeOK
    <2>3. relToWd[x] \in DOMAIN watches'
        BY <1>4, <2>2 DEF Right, Watching
    <2> QED BY <1>3, <1>4, <2>1, <2>3 DEF Right
<1>16. RegisteredFit'
    <2>1. ASSUME p \in DOMAIN relToWd PROVE Doomed(p)'
        BY <1>1, <1>2, <1>10, <1>12, <2>1 DEF RegisteredFit
    <2> QED BY <1>3, <1>10, <1>13, <1>15, <2>1 DEF RegisteredFit
<1>17. NamesFit'
    <2> SUFFICES ASSUME NEW q \in Dirs', NEW w \in DOMAIN watches', watches'[w] = tree'[q],
                        wdToRel[w] # q
                 PROVE  Stale(q, w)'
        BY <1>3 DEF NamesFit
    <2>1. q \in Dirs /\ w \in DOMAIN watches /\ watches[w] = tree[q]
        BY <1>1, <1>4
    <2>2. /\ \A k \in 1..Len(todo) : ~Related(todo[k][2], q)
          /\ \E i \in 1..n :
                Out(i, wdToRel[w]) /\ \A j \in 1..(i - 1) : Coming(j) => ~Related(Loc(j), q)
        BY <1>10, <2>1 DEF NamesFit, Stale, n
    <2>3. PICK i \in 1..n :
             Out(i, wdToRel[w]) /\ \A j \in 1..(i - 1) : Coming(j) => ~Related(Loc(j), q)
        BY <2>2
    <2>4. \A j \in 1..(i - 1) : j \in 1..n
        BY <1>13
    <2>5. Out(i, wdToRel[w])' /\ \A j \in 1..(i - 1) : Coming(j)' => ~Related(Loc(j)', q)
        BY <1>3, <1>13, <2>3, <2>4
    <2> QED BY <1>3, <1>13, <2>2, <2>5 DEF Stale
<1>18. ComingFit'
    <2> SUFFICES ASSUME NEW i \in 1..Len(Pending'), Coming(i)'
                 PROVE  Loc(i)' \in Dirs' \/ \E j \in (i + 1)..Len(Pending') : Out(j, Loc(i))'
        BY DEF ComingFit
    <2>1. i \in 1..n
        <3> SUFFICES ASSUME i \notin 1..n PROVE FALSE
            OBVIOUS
        <3>1. PICK k \in 1..Len(evs) : Pending'[i] = evs[k]
            BY <1>13
        <3> QED BY <1>8, <3>1 DEF Coming
    <2>2. Coming(i) /\ Loc(i)' = Loc(i)
        BY <1>13, <2>1
    <2>3. CASE Loc(i) \in Dirs
        BY <1>2, <1>12, <1>14, <2>1, <2>2, <2>3
    <2>4. CASE Loc(i) \notin Dirs
        <3>1. PICK j \in (i + 1)..n : Out(j, Loc(i))
            BY <1>10, <2>1, <2>2, <2>4 DEF ComingFit, n
        <3>2. j \in (i + 1)..Len(Pending') /\ j \in 1..n
            BY <1>8, <1>13
        <3> QED BY <1>13, <2>2, <3>1, <3>2
    <2> QED BY <2>3, <2>4
<1>19. TodoFit'
    <2>1. ASSUME NEW k \in 1..Len(todo), todo[k][2] = p PROVE Doomed(p)'
        <3>1. f \in DOMAIN relToWd \/ Doomed(p)
            BY <1>2, <1>10, <2>1 DEF TodoFit
        <3> QED BY <1>1, <1>2, <1>12, <3>1
    <2> QED BY <1>3, <1>10, <1>13, <1>14, <2>1 DEF TodoFit
<1>20. Reached'
    <2> SUFFICES ASSUME NEW x \in Dirs' PROVE Kept(x)' \/ Heard(x)' \/ Called(x)'
        BY DEF Reached
    <2>1. x \in Dirs /\ x # p /\ ~Below(p, x) /\ x \in NSeq
        BY <1>1, <1>14
    <2>2. Doomed(x)' => Doomed(x)
        BY <1>12, <2>1
    <2>3. CASE Kept(x)
        BY <1>15, <2>1, <2>2, <2>3 DEF Kept, Right
    <2>4. CASE Called(x)
        BY <1>3, <2>2, <2>4 DEF Called
    <2>5. CASE Heard(x)
        <3>1. PICK i \in 1..n : /\ Coming(i) /\ Below(Loc(i), x)
                                /\ \A j \in (i + 1)..n : ~(Live(j) /\ Out(j, x))
            BY <2>5 DEF Heard, n
        <3>2. ASSUME NEW j \in (i + 1)..Len(Pending'), Live(j)', Out(j, x)' PROVE FALSE
            <4>1. CASE j \in 1..n
                <5>1. j \in (i + 1)..n
                    BY <1>13, <4>1
                <5> QED BY <1>13, <3>1, <3>2, <4>1, <5>1
            <4>2. CASE j \notin 1..n
                <5>1. j \in 1..Len(Pending')
                    BY <1>8, <1>13
                <5> QED BY <1>12, <2>1, <3>2, <4>2, <5>1
            <4> QED BY <4>1, <4>2
        <3> QED BY <1>13, <3>1, <3>2 DEF Heard
    <2> QED BY <1>10, <2>1, <2>3, <2>4, <2>5 DEF Reached
<1>21. StaleNoted'
    <2>1. \A x : Noted(x) => Noted(x)'
        BY <1>3, <1>8, <1>9, NotedKept
    <2>2. \A x \in Dirs' : tree'[x] \in stale' => tree'[x] \in gap' \/ Noted(x)'
        BY <1>1, <1>3, <1>10, <2>1 DEF StaleNoted
    <2>3. \A d \in stale' : \E x \in Dirs' : tree'[x] = d
        BY <1>3, <1>10, <1>14 DEF StaleNoted
    <2> QED BY <2>2, <2>3 DEF StaleNoted
<1> QED BY <1>11, <1>16, <1>17, <1>18, <1>19, <1>20, <1>21 DEF Fits

\* The reader is not on its way to q, or to anything in it.
LEMMA NotUnderway ==
    ASSUME CovTyped, NEW q \in Paths, ~Underway(q)
    PROVE  /\ Watching(tree[Front(q)]) # {}
           /\ \A i \in 1..Len(Pending) : Pending[i].kind = "in" /\ Named(i) =>
                 ~Related(Loc(i), q) /\ ~Below(Loc(i), q)
           /\ \A k \in 1..Len(todo) : ~Related(todo[k][2], q)
<1>1. Watching(tree[Front(q)]) # {}
    BY DEF Underway
<1>2. Below(q, q) /\ q \in NSeq
    BY PathsAreSeqs, BelowOrder
<1>3. ASSUME NEW i \in 1..Len(Pending), Pending[i].kind = "in", Named(i), NEW r \in Paths,
             Below(Loc(i), r), Below(q, r)
      PROVE  FALSE
    <2>1. Pending[i] \in Range(queue \o data)
        <3>1. Range(queue \o data) = Range(queue) \cup Range(data)
            BY RangeConcatenation DEF CovTyped, EventsOK
        <3> QED BY <3>1, PendingIs
    <2>2. Announced(r)
        BY <1>3, <2>1 DEF Announced, Named, Loc, NameOf
    <2> QED BY <1>3, <2>2 DEF Underway
<1>4. ASSUME NEW k \in 1..Len(todo), Related(todo[k][2], q) PROVE FALSE
    <2>1. todo[k][2] \in NSeq
        BY DEF CovTyped, TodoOK
    <2>2. Below(todo[k][2], q) \/ Below(q, todo[k][2])
        BY <1>2, <1>4, <2>1, RelatedAre
    <2> QED BY <2>2 DEF Underway
<1> QED BY <1>1, <1>2, <1>3, <1>4 DEF Related

\* Rename: the old names are taken away before the reader comes to the new ones, which is
\* so because it had no other reason to come there.
LEMMA RenameFits ==
    ASSUME CoverageAssumption, CovTyped, CovTyped', Fits, NEW p \in Paths, NEW q \in Paths,
           Rename(p, q), ~lost', ~crossed'
    PROVE  Fits'
<1> DEFINE f == Front(p)
           g == Front(q)
           a == Event(tree[f], "out", Last(p))
           b == Event(tree[g], "in", Last(q))
           c == Event(tree[p], "self", None)
           evs == a \o b \o c
           n == Len(Pending)
<1>1. /\ p # <<>> /\ q # <<>> /\ p \in NSeq /\ q \in NSeq
      /\ p \in Dirs /\ f \in Dirs /\ q \notin Dirs /\ g \in Dirs
      /\ ~Below(p, q) /\ ~Below(q, p)
      /\ \A r \in Dirs' : \/ ~Below(p, r) /\ ~Below(q, r) /\ r \in Dirs /\ tree'[r] = tree[r]
                         \/ /\ Below(q, r) /\ ~Below(p, r)
                            /\ \E s \in Dirs : Below(p, s) /\ tree'[r] = tree[s]
      /\ \A r \in Dirs : ~Below(p, r) => r \in Dirs' /\ tree'[r] = tree[r]
      /\ \A s \in Dirs : Below(p, s) => \E r \in Dirs' : Below(q, r) /\ tree'[r] = tree[s]
    BY RenameTree
<1>2. /\ f \in NSeq /\ Last(p) \in Names /\ Below(f, p) /\ f # p /\ Below(p, p)
      /\ g \in NSeq /\ Last(q) \in Names /\ Below(g, q) /\ Append(g, Last(q)) = q /\ Below(q, q)
      /\ Dirs \subseteq NSeq /\ Dirs' \subseteq NSeq
      /\ \A x \in NSeq : Below(x, g) => Below(x, q)
      /\ ~Below(p, f)
    <2>1. Dirs \subseteq NSeq /\ Dirs' \subseteq NSeq
        BY DirsAre, PathsAreSeqs DEF Dirs
    <2> QED BY <1>1, <2>1, FrontAndLast, BelowOrder
<1>3. /\ stale' = stale \cup {tree[r] : r \in {r \in Dirs : Below(p, r)}}
      /\ Emit("move", evs)
      /\ crossed' = (crossed \/ Underway(q))
      /\ UNCHANGED <<watches, data, todo, wdToRel, relToWd, batch, unknown, gap>>
    BY DEF Rename, reader
<1>4. /\ Watching(tree[g]) # {}
      /\ \A i \in 1..n : Pending[i].kind = "in" /\ Named(i) =>
            ~Related(Loc(i), q) /\ ~Below(Loc(i), q)
      /\ \A k \in 1..Len(todo) : ~Related(todo[k][2], q)
    <2>1. ~Underway(q)
        BY <1>3
    <2> QED BY <2>1, NotUnderway
<1>5. /\ EventsOK(a) /\ a \in Seq(Events)
      /\ \/ Watching(tree[f]) = {} /\ Len(a) = 0
         \/ Len(a) = 1 /\ a[1].wd \in Watching(tree[f]) /\ a[1].kind = "out" /\ a[1].name = Last(p)
    <2>1. "out" \in Kinds /\ Last(p) \in Names \cup {None} /\ a = Event(tree[f], "out", Last(p))
        BY <1>2 DEF Kinds
    <2> HIDE DEF a
    <2> QED BY ONLY <1>2, <2>1, CovTyped, EventOne
<1>6. /\ EventsOK(b) /\ b \in Seq(Events)
      /\ Len(b) = 1 /\ b[1].wd \in Watching(tree[g]) /\ b[1].kind = "in" /\ b[1].name = Last(q)
    <2>1. "in" \in Kinds /\ Last(q) \in Names \cup {None} /\ b = Event(tree[g], "in", Last(q))
        BY <1>2 DEF Kinds
    <2> HIDE DEF b
    <2>2. /\ EventsOK(b) /\ b \in Seq(Events)
          /\ \/ Watching(tree[g]) = {} /\ Len(b) = 0
             \/ /\ Len(b) = 1 /\ b[1].wd \in Watching(tree[g])
                /\ b[1].kind = "in" /\ b[1].name = Last(q)
        BY ONLY <1>2, <2>1, CovTyped, EventOne
    <2> QED BY <1>4, <2>2
<1>7. /\ EventsOK(c) /\ c \in Seq(Events)
      /\ \/ Watching(tree[p]) = {} /\ Len(c) = 0
         \/ Len(c) = 1 /\ c[1].wd \in Watching(tree[p]) /\ c[1].kind = "self" /\ c[1].name = None
    <2>1. "self" \in {"file", "self", "ignored"} /\ c = Event(tree[p], "self", None)
        OBVIOUS
    <2> HIDE DEF c
    <2> QED BY ONLY <2>1, CovTyped, EventOther
<1> DEFINE l == Len(a)
<1> HIDE DEF a, b, c, l
<1>8. /\ EventsOK(evs) /\ Len(evs) \in Nat
      /\ l \in {0, 1} /\ l + 1 \in 1..Len(evs) /\ evs[l + 1] = b[1]
      /\ \A i \in 1..Len(evs) :
            \/ evs[i].kind = "out" /\ evs[i].wd \in Watching(tree[f]) /\ evs[i].name = Last(p)
            \/ evs[i].kind = "in" /\ evs[i] = b[1] /\ i = l + 1
            \/ evs[i].kind = "self" /\ evs[i].wd \in Watching(tree[p]) /\ i > l + 1
      /\ \A i \in 1..Len(evs) : i > l + 1 => evs[i].kind = "self"
      /\ Watching(tree[f]) # {} => 1 \in 1..Len(evs) /\ evs[1].kind = "out"
    <2>1. EventsOK(evs)
        BY <1>5, <1>6, <1>7, EventsJoin
    <2>2. Len(a) \in {0, 1} /\ Len(b) \in {0, 1} /\ Len(c) \in {0, 1}
        BY <1>5, <1>6, <1>7
    <2>3. /\ Len(evs) = Len(a) + Len(b) + Len(c)
          /\ Len(a) = 1 => evs[1] = a[1]
          /\ Len(b) = 1 => evs[Len(a) + 1] = b[1]
          /\ \A i \in 1..Len(evs) :
                 \/ Len(a) = 1 /\ i = 1 /\ evs[i] = a[1]
                 \/ Len(b) = 1 /\ i = Len(a) + 1 /\ evs[i] = b[1]
                 \/ Len(c) = 1 /\ i = Len(evs) /\ i = Len(a) + Len(b) + 1 /\ evs[i] = c[1]
        BY ONLY <1>5, <1>6, <1>7, <2>2, ThreeEvents
    <2> HIDE DEF evs, f, g
    <2>4. ASSUME NEW i \in 1..Len(evs)
          PROVE  /\ \/ evs[i].kind = "out" /\ evs[i].wd \in Watching(tree[f]) /\ evs[i].name = Last(p)
                    \/ evs[i].kind = "in" /\ evs[i] = b[1] /\ i = l + 1
                    \/ evs[i].kind = "self" /\ evs[i].wd \in Watching(tree[p]) /\ i > l + 1
                 /\ i > l + 1 => evs[i].kind = "self"
        <3>1. CASE l = 1 /\ i = 1 /\ evs[i] = a[1]
            BY <1>5, <3>1 DEF l
        <3>2. CASE i = l + 1 /\ evs[i] = b[1]
            BY <1>6, <2>2, <3>2 DEF l
        <3>3. CASE Len(c) = 1 /\ i = l + Len(b) + 1 /\ evs[i] = c[1]
            <4>1. i > l + 1
                BY <1>6, <2>2, <3>3 DEF l
            <4> QED BY <1>7, <3>3, <4>1
        <3> QED BY <2>3, <3>1, <3>2, <3>3 DEF l
    <2>5. Watching(tree[f]) # {} => 1 \in 1..Len(evs) /\ evs[1].kind = "out"
        BY <1>5, <2>2, <2>3
    <2>6. Len(evs) \in Nat /\ l \in {0, 1} /\ l + 1 \in 1..Len(evs) /\ evs[l + 1] = b[1]
        BY <1>6, <2>2, <2>3 DEF l
    <2> QED BY <2>1, <2>4, <2>5, <2>6
<1>9. queue' = queue \o evs /\ used'.wd = used.wd
    BY <1>3, <1>8, EmitTyped
<1> HIDE DEF evs
<1>10. EventsFit /\ TablesFit /\ RegisteredFit /\ NamesFit /\ ComingFit /\ TodoFit /\ Reached
      /\ StaleNoted
    BY DEF Fits
<1>11. EventsFit' /\ TablesFit'
    <2>1. \A i \in 1..Len(evs) :
             /\ evs[i].kind # "overflow" /\ evs[i].wd \in DOMAIN watches
             /\ evs[i].kind = "file" => evs[i].name = None
             /\ evs[i].kind = "ignored" => i = Len(evs) /\ evs[i].wd \notin DOMAIN watches'
        BY <1>6, <1>8 DEF Watching
    <2> HIDE DEF f, g
    <2> QED BY <1>3, <1>8, <1>9, <2>1, FileStepFits
<1>12. /\ \A i \in 1..Len(Pending') : \A x \in NSeq :
                 i \notin 1..n /\ Out(i, x)' => Below(p, x) \/ (Doomed(x) /\ ~Live(i)')
       /\ \A x \in NSeq : Doomed(x)' => Doomed(x) \/ Below(p, x)
       /\ \A x \in NSeq : Below(p, x) /\ ~Doomed(f) /\ f \in DOMAIN relToWd =>
                 \E i \in 1..Len(Pending') : i = n + 1 /\ Out(i, x)'
       /\ \A x \in NSeq : Below(p, x) /\ (f \in DOMAIN relToWd \/ Doomed(x)) => Doomed(x)'
       /\ \A i \in 1..n : Coming(i) /\ Below(p, Loc(i)) =>
                 \E j \in (i + 1)..Len(Pending') : Out(j, Loc(i))'
    <2>1. \A k \in 1..Len(evs) : evs[k].kind = "out" =>
              evs[k].wd \in Watching(tree[f]) /\ evs[k].name = Last(p)
        BY <1>8
    <2> QED BY <1>1, <1>3, <1>8, <1>9, <2>1, Leaving
<1>13. /\ n \in Nat /\ Len(Pending') = n + Len(evs)
       /\ \A i \in 1..n :
             /\ i \in 1..Len(Pending')
             /\ Loc(i)' = Loc(i) /\ (Coming(i)' <=> Coming(i)) /\ (Live(i)' <=> Live(i))
             /\ \A x : Out(i, x)' <=> Out(i, x)
       /\ \A i \in 1..Len(evs) : Pending'[n + i] = evs[i] /\ n + i \in 1..Len(Pending')
       /\ \A i \in 1..Len(Pending') :
             i \notin 1..n => \E k \in 1..Len(evs) : i = n + k /\ Pending'[i] = evs[k]
       /\ \A x : Doomed(x) => Doomed(x)'
    <2>1. n \in Nat /\ Len(Pending') = n + Len(evs) /\ 1..n \subseteq 1..Len(Pending')
        BY <1>3, <1>8, <1>9, PendingIs, Appended
    <2>2. \A i \in 1..n :
            /\ Loc(i)' = Loc(i) /\ (Coming(i)' <=> Coming(i)) /\ (Live(i)' <=> Live(i))
            /\ \A x : Out(i, x)' <=> Out(i, x)
        BY <1>3, <1>8, <1>9, Appended
    <2>3. /\ \A i \in 1..Len(evs) : Pending'[n + i] = evs[i] /\ n + i \in 1..Len(Pending')
          /\ \A i \in 1..Len(Pending') :
                i \notin 1..n => \E k \in 1..Len(evs) : i = n + k /\ Pending'[i] = evs[k]
          /\ \A x : Doomed(x) => Doomed(x)'
        BY <1>3, <1>8, <1>9, Appended
    <2> HIDE DEF n
    <2> QED BY <2>1, <2>2, <2>3
<1> HIDE DEF n, f, g
\* The reader comes to q by the event of its new directory.
<1>14. PICK h \in 1..Len(Pending') :
          /\ h \notin 1..n /\ Pending'[h] = b[1] /\ Coming(h)' /\ Loc(h)' = q
          /\ \A j \in (h + 1)..Len(Pending') : ~Out(j, <<>>)' /\ Pending'[j].kind # "out"
          /\ \A i \in 1..Len(Pending') : i \notin 1..n /\ Pending'[i].kind = "in" => i = h
    <2>1. wdToRel[b[1].wd] = g /\ ~Doomed(g) /\ b[1].wd \in DOMAIN wdToRel
        <3>1. ASSUME Heard(g) PROVE FALSE
            <4>1. PICK i \in 1..n : Coming(i) /\ Below(Loc(i), g)
                BY <3>1 DEF Heard, n
            <4>2. Pending[i].kind = "in" /\ Named(i)
                BY <4>1 DEF Coming, Live
            <4>3. Loc(i) \in NSeq
                BY <4>2, NameIs DEF n
            <4> QED BY <1>2, <1>4, <4>1, <4>2, <4>3
        <3> QED BY <1>1, <1>6, <3>1, Noticed
    <2>2. PICK h \in 1..Len(Pending') : h = n + (l + 1) /\ Pending'[h] = b[1]
        BY <1>8, <1>13
    <2>3. h \notin 1..n
        BY <1>8, <1>13, <2>2
    <2>4. Named(h)' /\ NameOf(h)' = g /\ Loc(h)' = q
        BY <1>2, <1>3, <1>6, <2>1, <2>2 DEF Named, NameOf, Loc
    <2>5. ASSUME NEW j \in 1..(h - 1) PROVE ~Out(j, g)'
        <3>1. CASE j \in 1..n
            BY <1>13, <2>1, <3>1 DEF Doomed, n
        <3>2. CASE j \notin 1..n
            <4>1. j \in 1..Len(Pending')
                BY <1>8, <1>13, <2>2, <2>5
            <4> QED BY <1>1, <1>2, <1>12, <2>1, <3>2, <4>1
        <3> QED BY <3>1, <3>2
    <2>6. Coming(h)'
        BY <1>6, <2>2, <2>4, <2>5 DEF Coming, Live
    <2>7. ASSUME NEW j \in (h + 1)..Len(Pending') PROVE Pending'[j].kind # "out"
        <3>1. j \in 1..Len(Pending') /\ j \notin 1..n
            BY <1>8, <1>13, <2>2, <2>7
        <3>2. PICK k \in 1..Len(evs) : j = n + k /\ Pending'[j] = evs[k]
            BY <1>13, <3>1
        <3>3. k > l + 1
            BY <1>8, <1>13, <2>2, <2>7, <3>2
        <3> QED BY <1>8, <3>2, <3>3
    <2>8. ASSUME NEW i \in 1..Len(Pending'), i \notin 1..n, Pending'[i].kind = "in" PROVE i = h
        <3>1. PICK k \in 1..Len(evs) : i = n + k /\ Pending'[i] = evs[k]
            BY <1>13, <2>8
        <3> QED BY <1>8, <2>2, <2>8, <3>1
    <2> QED BY <2>2, <2>3, <2>4, <2>6, <2>7, <2>8 DEF Out
<1>15. \A x \in DOMAIN relToWd : Right(x) /\ ~Below(p, x) => Right(x)'
    BY <1>1, <1>3 DEF Right
<1>16. RegisteredFit'
    <2>1. ASSUME NEW x \in DOMAIN relToWd, Below(p, x) PROVE Doomed(x)'
        <3>1. x \in NSeq
            BY PathsAreSeqs DEF CovTyped, TablesOK
        <3>2. Below(f, x)
            BY <1>1, <1>2, <2>1, <3>1, BelowOrder
        <3>3. f \in DOMAIN relToWd \/ Doomed(x)
            BY <1>2, <1>10, <3>2 DEF RegisteredFit
        <3> QED BY <1>12, <2>1, <3>1, <3>3
    <2> QED BY <1>3, <1>10, <1>13, <1>15, <2>1 DEF RegisteredFit
<1>17. NamesFit'
    <2> SUFFICES ASSUME NEW r \in Dirs', NEW w \in DOMAIN watches, watches[w] = tree'[r],
                        wdToRel[w] # r
                 PROVE  Stale(r, w)'
        BY <1>3 DEF NamesFit
    <2>0. \A i \in 1..n : \A j \in 1..(i - 1) : j \in 1..n
        BY <1>13
    <2>1. CASE r \in Dirs /\ tree'[r] = tree[r]
        <3>1. /\ \A k \in 1..Len(todo) : ~Related(todo[k][2], r)
              /\ \E i \in 1..n :
                    Out(i, wdToRel[w]) /\ \A j \in 1..(i - 1) : Coming(j) => ~Related(Loc(j), r)
            BY <1>10, <2>1 DEF NamesFit, Stale, n
        <3>2. PICK i \in 1..n :
                 Out(i, wdToRel[w]) /\ \A j \in 1..(i - 1) : Coming(j) => ~Related(Loc(j), r)
            BY <3>1
        <3>3. Out(i, wdToRel[w])' /\ \A j \in 1..(i - 1) : Coming(j)' => ~Related(Loc(j)', r)
            BY <1>3, <1>13, <2>0, <3>2
        <3> QED BY <1>3, <1>13, <3>1, <3>3 DEF Stale
    <2>2. CASE Below(q, r) /\ \E s \in Dirs : Below(p, s) /\ tree'[r] = tree[s]
        <3>0. \A x : Related(x, r) => Related(x, q)
            <4>1. \A y \in Paths : Below(r, y) => Below(q, y)
                BY <1>1, <1>2, <2>2, PathsAreSeqs, BelowOrder
            <4> QED BY <4>1 DEF Related
        <3>1. PICK s \in Dirs : Below(p, s) /\ tree'[r] = tree[s]
            BY <2>2
        <3>2. /\ \A k \in 1..Len(todo) : ~Related(todo[k][2], r)
              /\ \A j \in 1..n : Coming(j)' => ~Related(Loc(j)', r)
            <4>1. \A j \in 1..n : Coming(j) => Pending[j].kind = "in" /\ Named(j)
                BY DEF Coming, Live
            <4> QED BY <1>4, <1>13, <3>0, <4>1
        <3>3. PICK v : v = wdToRel[w]
            OBVIOUS
        <3>4. CASE \E i \in 1..n : Out(i, v)
            <4>1. PICK i \in 1..n : Out(i, v)
                BY <3>4
            <4>2. Out(i, wdToRel[w])' /\ \A j \in 1..(i - 1) : Coming(j)' => ~Related(Loc(j)', r)
                BY <1>3, <1>13, <2>0, <3>2, <3>3, <4>1
            <4> QED BY <1>3, <1>13, <3>2, <4>2 DEF Stale
        <3>5. CASE ~\E i \in 1..n : Out(i, v)
            <4>1. v = s
                <5> SUFFICES ASSUME wdToRel[w] # s PROVE FALSE
                    BY <3>3
                <5>1. Stale(s, w)
                    BY <1>10, <3>1 DEF NamesFit
                <5> QED BY <3>3, <3>5, <5>1 DEF Stale, n
            <4>2. s \in NSeq /\ ~Doomed(s)
                BY <1>2, <3>5, <4>1 DEF Doomed, n
            <4>3. s \in DOMAIN relToWd
                <5>1. w \in DOMAIN wdToRel
                    BY <1>10 DEF TablesFit
                <5>2. wdToRel[w] \in DOMAIN relToWd
                    BY <5>1 DEF CovTyped, TablesOK
                <5> QED BY <3>3, <4>1, <5>2
            <4>4. Below(f, s)
                BY <1>1, <1>2, <3>1, <4>2, BelowOrder
            <4>5. f \in DOMAIN relToWd /\ ~Doomed(f)
                BY <1>2, <1>10, <4>2, <4>3, <4>4, DoomedDown DEF RegisteredFit
            <4>6. PICK i \in 1..Len(Pending') : i = n + 1 /\ Out(i, s)'
                BY <1>12, <3>1, <4>2, <4>5
            <4>7. \A j \in 1..(i - 1) : j \in 1..n
                BY <1>13, <4>6
            <4>8. Out(i, v)'
                BY <4>1, <4>6
            <4>9. Out(i, wdToRel[w])' /\ \A j \in 1..(i - 1) : Coming(j)' => ~Related(Loc(j)', r)
                BY <1>3, <3>2, <3>3, <4>7, <4>8
            <4> QED BY <1>3, <3>2, <4>9 DEF Stale
        <3> QED BY <3>4, <3>5
    <2> QED BY <1>1, <2>1, <2>2
<1>18. ComingFit'
    <2> SUFFICES ASSUME NEW i \in 1..Len(Pending'), Coming(i)'
                 PROVE  Loc(i)' \in Dirs' \/ \E j \in (i + 1)..Len(Pending') : Out(j, Loc(i))'
        BY DEF ComingFit
    <2>1. CASE i \notin 1..n
        <3>1. Loc(i)' = q
            BY <1>14, <2>1 DEF Coming
        <3>2. PICK r \in Dirs' : Below(q, r)
            BY <1>1, <1>2
        <3>3. q \in Dirs'
            BY <1>1, <3>2 DEF CovTyped, TreeOK
        <3> QED BY <3>1, <3>3
    <2>2. CASE i \in 1..n /\ Loc(i) \in Dirs
        <3>1. Coming(i) /\ Loc(i)' = Loc(i)
            BY <1>13, <2>2
        <3>2. CASE Below(p, Loc(i))
            BY <1>12, <2>2, <3>1, <3>2
        <3>3. CASE ~Below(p, Loc(i))
            BY <1>1, <2>2, <3>1, <3>3
        <3> QED BY <3>2, <3>3
    <2>3. CASE i \in 1..n /\ Loc(i) \notin Dirs
        <3>1. PICK j \in (i + 1)..n : Out(j, Loc(i))
            BY <1>10, <1>13, <2>3 DEF ComingFit, n
        <3>2. j \in (i + 1)..Len(Pending') /\ j \in 1..n
            BY <1>8, <1>13, <2>3
        <3> QED BY <1>13, <2>3, <3>1, <3>2
    <2> QED BY <2>1, <2>2, <2>3
<1>19. TodoFit'
    <2>1. ASSUME NEW k \in 1..Len(todo), Below(p, todo[k][2]) PROVE Doomed(todo[k][2])'
        <3>1. PICK u \in NSeq : u = todo[k][2]
            BY DEF CovTyped, TodoOK
        <3>2. Below(f, u) /\ f # u
            BY <1>1, <1>2, <2>1, <3>1, BelowOrder
        <3>3. f \in DOMAIN relToWd \/ Doomed(u)
            BY <1>2, <1>10, <3>1, <3>2 DEF TodoFit
        <3>4. Doomed(u)'
            BY <1>12, <2>1, <3>1, <3>3
        <3> QED BY <1>3, <3>1, <3>4
    <2>2. ASSUME NEW k \in 1..Len(todo), ~Below(p, todo[k][2])
          PROVE  todo[k][2] \in Dirs' \/ Doomed(todo[k][2])'
        BY <1>1, <1>3, <1>10, <1>13, <2>2 DEF TodoFit
    <2> QED BY <1>3, <1>10, <1>13, <2>1, <2>2 DEF TodoFit
<1>20. Reached'
    <2> SUFFICES ASSUME NEW x \in Dirs' PROVE Kept(x)' \/ Heard(x)' \/ Called(x)'
        BY DEF Reached
    <2>1. CASE Below(q, x)
        <3>1. \A j \in (h + 1)..Len(Pending') : ~(Live(j) /\ Out(j, x))'
            BY <1>14 DEF Out
        <3> QED BY <1>14, <2>1, <3>1 DEF Heard
    <2>2. CASE x \in Dirs /\ ~Below(p, x) /\ tree'[x] = tree[x]
        <3>1. x \in NSeq /\ (Doomed(x)' => Doomed(x))
            BY <1>2, <1>12, <2>2
        <3>2. CASE Kept(x)
            BY <1>15, <2>2, <3>1, <3>2 DEF Kept, Right
        <3>3. CASE Called(x)
            BY <1>3, <3>1, <3>3 DEF Called
        <3>4. CASE Heard(x)
            <4>1. PICK i \in 1..n : /\ Coming(i) /\ Below(Loc(i), x)
                                    /\ \A j \in (i + 1)..n : ~(Live(j) /\ Out(j, x))
                BY <3>4 DEF Heard, n
            <4>2. ASSUME NEW j \in (i + 1)..Len(Pending'), Live(j)', Out(j, x)' PROVE FALSE
                <5>1. CASE j \in 1..n
                    <6>1. j \in (i + 1)..n
                        BY <1>13, <5>1
                    <6> QED BY <1>13, <4>1, <4>2, <5>1, <6>1
                <5>2. CASE j \notin 1..n
                    <6>1. j \in 1..Len(Pending')
                        BY <1>8, <1>13
                    <6> QED BY <1>12, <2>2, <3>1, <4>2, <5>2, <6>1
                <5> QED BY <5>1, <5>2
            <4> QED BY <1>13, <4>1, <4>2 DEF Heard
        <3> QED BY <1>10, <2>2, <3>2, <3>3, <3>4 DEF Reached
    <2> QED BY <1>1, <2>1, <2>2
<1>21. StaleNoted'
    <2>1. \A x : Noted(x) => Noted(x)'
        BY <1>3, <1>8, <1>9, NotedKept
    <2>2. ASSUME NEW x \in Dirs', tree'[x] \in stale' PROVE tree'[x] \in gap' \/ Noted(x)'
        <3>1. CASE Below(q, x)
            BY <1>14, <3>1 DEF Noted
        <3>2. CASE x \in Dirs /\ ~Below(p, x) /\ tree'[x] = tree[x]
            <4>1. \A r \in Dirs : Below(p, r) => tree[r] # tree[x]
                BY <3>2 DEF CovTyped, TreeOK
            <4>2. tree[x] \in stale
                BY <1>3, <2>2, <3>2, <4>1
            <4> QED BY <1>3, <1>10, <2>1, <3>2, <4>2 DEF StaleNoted
        <3> QED BY <1>1, <3>1, <3>2
    <2>3. ASSUME NEW d \in stale' PROVE \E x \in Dirs' : tree'[x] = d
        <3>1. PICK s \in Dirs : tree[s] = d
            BY <1>3, <1>10, <2>3 DEF StaleNoted
        <3> QED BY <1>1, <3>1
    <2> QED BY <2>2, <2>3 DEF StaleNoted
<1> QED BY <1>11, <1>16, <1>17, <1>18, <1>19, <1>20, <1>21 DEF Fits

\* The reader takes the next event: what it forgets, that event takes away, or it was the
\* last one of a watch that is gone.
Advance ==
    /\ \A i \in 1..(Len(Pending) - 1) : i \in 1..Len(Pending') /\ Pending'[i] = Pending[i + 1]
    /\ \A i \in 1..Len(Pending') : i \notin 1..(Len(Pending) - 1) =>
          /\ Pending'[i].kind = "ignored" /\ Pending'[i].wd \in DOMAIN watches \ DOMAIN watches'
          /\ \A j \in (i + 1)..Len(Pending') : Pending'[j].wd # Pending'[i].wd
    /\ \A v \in DOMAIN wdToRel' :
          v \in DOMAIN wdToRel /\ wdToRel'[v] = wdToRel[v] /\ ~Out(1, wdToRel[v])
    /\ \A v \in DOMAIN wdToRel : v \notin DOMAIN wdToRel' =>
          Out(1, wdToRel[v]) \/ \A i \in 2..Len(Pending) : Pending[i].wd # v
    /\ \A x \in DOMAIN relToWd' :
          x \in DOMAIN relToWd /\ relToWd'[x] = relToWd[x] /\ relToWd[x] \in DOMAIN wdToRel'
    /\ \A x \in DOMAIN relToWd : x \notin DOMAIN relToWd' =>
          Out(1, x) \/ relToWd[x] \notin DOMAIN watches
    /\ DOMAIN watches' \subseteq DOMAIN watches /\ DOMAIN watches' \subseteq DOMAIN wdToRel'
    /\ \A w \in DOMAIN watches' : watches'[w] = watches[w]
    /\ \A w \in DOMAIN watches : w \notin DOMAIN watches' => w \notin DOMAIN wdToRel'

\* Handle: the second event becomes the first, and IGNORED events may follow.
LEMMA PendingMoves ==
    ASSUME CovTyped, data # <<>>, data' = Tail(data), NEW ign, EventsOK(ign),
           queue' = queue \o ign
    PROVE  /\ Len(Pending) \in Nat \ {0} /\ Pending[1] = Head(data)
           /\ Len(Pending') = Len(Pending) - 1 + Len(ign) /\ Len(ign) \in Nat
           /\ \A i \in 1..(Len(Pending) - 1) : Pending'[i] = Pending[i + 1]
           /\ \A k \in 1..Len(ign) : Pending'[Len(Pending) - 1 + k] = ign[k]
<1> DEFINE d == Tail(data)
           q == queue \o ign
           ld == Len(data)
           lq == Len(queue)
           li == Len(ign)
<1>1. /\ data \in Seq(Events) /\ queue \in Seq(Events) /\ ign \in Seq(Events)
      /\ lq \in Nat /\ li \in Nat
    BY LenProperties DEF CovTyped, EventsOK
<1>2. /\ d \in Seq(Events) /\ ld \in Nat \ {0} /\ Len(d) = ld - 1 /\ Head(data) = data[1]
      /\ \A i \in 1..Len(d) : d[i] = data[i + 1]
    BY <1>1, HeadTailProperties, EmptySeq, LenProperties
<1>3. /\ q \in Seq(Events) /\ Len(q) = lq + li
      /\ \A i \in 1..lq + li : q[i] = IF i <= lq THEN queue[i] ELSE ign[i - lq]
    BY ONLY <1>1, ConcatProperties
<1>4. Pending = data \o queue /\ Pending' = d \o q
    BY DEF Pending
<1> HIDE DEF d, q
<1>5. /\ Len(Pending) = ld + lq
      /\ \A i \in 1..ld + lq : Pending[i] = IF i <= ld THEN data[i] ELSE queue[i - ld]
    <2>1. /\ Len(data \o queue) = ld + lq
          /\ \A i \in 1..ld + lq : (data \o queue)[i] = IF i <= ld THEN data[i] ELSE queue[i - ld]
        BY ONLY <1>1, ConcatProperties
    <2> QED BY ONLY <1>4, <2>1
<1>6. /\ Len(Pending') = Len(d) + Len(q)
      /\ \A i \in 1..Len(d) + Len(q) : Pending'[i] = IF i <= Len(d) THEN d[i] ELSE q[i - Len(d)]
    <2>1. /\ Len(d \o q) = Len(d) + Len(q)
          /\ \A i \in 1..Len(d) + Len(q) : (d \o q)[i] = IF i <= Len(d) THEN d[i] ELSE q[i - Len(d)]
        BY ONLY <1>2, <1>3, ConcatProperties
    <2> QED BY ONLY <1>4, <2>1
<1> HIDE DEF ld, lq, li
<1>7. /\ Len(Pending) \in Nat \ {0} /\ Pending[1] = Head(data)
      /\ Len(Pending') = Len(Pending) - 1 + li
    BY <1>1, <1>2, <1>3, <1>5, <1>6
<1>8. ASSUME NEW i \in 1..(Len(Pending) - 1) PROVE Pending'[i] = Pending[i + 1]
    <2>1. i \in Nat /\ 1 <= i /\ i <= ld + lq - 1 /\ i \in 1..Len(d) + Len(q)
          /\ i + 1 \in 1..ld + lq
        BY <1>1, <1>2, <1>3, <1>5
    <2>2. CASE i <= ld - 1
        <3>1. /\ i \in 1..Len(d) /\ i <= Len(d) /\ i + 1 <= ld
            BY <1>2, <2>1, <2>2
        <3>2. Pending'[i] = d[i] /\ Pending[i + 1] = data[i + 1]
            BY <1>5, <1>6, <2>1, <3>1
        <3> QED BY <1>2, <3>1, <3>2
    <2>3. CASE ~(i <= ld - 1)
        <3>1. /\ ~(i <= Len(d)) /\ ~(i + 1 <= ld) /\ i - Len(d) = i + 1 - ld
              /\ i - Len(d) \in 1..lq + li /\ i - Len(d) <= lq
            BY <1>1, <1>2, <2>1, <2>3
        <3>2. Pending'[i] = q[i - Len(d)]
            BY <1>6, <2>1, <3>1
        <3> DEFINE k == i + 1
        <3>3. k \in 1..ld + lq /\ ~(k <= ld) /\ k - ld = i - Len(d)
            BY <1>1, <1>2, <2>1, <3>1
        <3> HIDE DEF k
        <3>4. Pending[k] = queue[i - Len(d)]
            BY <1>5, <3>3
        <3>5. q[i - Len(d)] = queue[i - Len(d)]
            BY <1>3, <3>1
        <3> QED BY <3>2, <3>4, <3>5 DEF k
    <2> QED BY <2>2, <2>3
<1>9. ASSUME NEW k \in 1..li PROVE Pending'[Len(Pending) - 1 + k] = ign[k]
    <2> DEFINE i == Len(Pending) - 1 + k
    <2>1. /\ i \in 1..Len(d) + Len(q) /\ ~(i <= Len(d)) /\ i - Len(d) = lq + k
          /\ lq + k \in 1..lq + li /\ ~(lq + k <= lq) /\ (lq + k) - lq = k
        BY <1>1, <1>2, <1>3, <1>5
    <2> HIDE DEF i
    <2>2. Pending'[i] = q[lq + k] /\ q[lq + k] = ign[k]
        BY <1>3, <1>6, <2>1
    <2> QED BY <2>2 DEF i
<1> QED BY <1>1, <1>7, <1>8, <1>9 DEF li

\* What Handle does, in terms of the events that are left.
LEMMA HandleAdvances ==
    ASSUME CovTyped, CovTyped', Fits, CoverageAssumption, Handle
    PROVE  /\ Advance
           /\ Len(Pending) \in Nat \ {0} /\ Len(Pending') \in Nat /\ todo = <<>>
           /\ UNCHANGED <<tree, unknown, stale, used, gap>>
           /\ batch \subseteq batch'
           /\ Named(1) /\ Pending[1].kind = "file" => <<"file", NameOf(1)>> \in batch'
           /\ Named(1) /\ Pending[1].kind = "in" =>
                 /\ <<"tree", Loc(1)>> \in batch' /\ todo' = <<<<"add", Loc(1)>>>>
                 /\ UNCHANGED relToWd
           /\ ~(Named(1) /\ Pending[1].kind = "in") => todo' = <<>>
<1> DEFINE n == Len(Pending)
           e == Head(data)
<1>1. /\ todo = <<>> /\ data # <<>> /\ data' = Tail(data)
      /\ UNCHANGED <<tree, stale, used, lost, crossed, gap>>
    BY DEF Handle
<1>2. EventsFit /\ TablesFit
    BY DEF Fits
<1>3. EventsOK(<<>>) /\ Len(<<>>) = 0 /\ queue \o <<>> = queue
    <2>1. queue \in Seq(Events)
        BY DEF CovTyped, EventsOK
    <2> QED BY <2>1, EmptyTyped, ConcatEmptySeq
<1>4. n \in Nat \ {0} /\ Pending[1] = e /\ 1 \in 1..n
    <2>2. Len(data \o queue) \in Nat \ {0} /\ Pending[1] = e
        <3>1. data \in Seq(Events) /\ queue \in Seq(Events)
            BY DEF CovTyped, EventsOK
        <3>2. Len(data) \in Nat \ {0} /\ Len(queue) \in Nat /\ Head(data) = data[1]
            BY <1>1, <3>1, HeadTailProperties, EmptySeq, LenProperties
        <3>3. /\ Len(data \o queue) = Len(data) + Len(queue)
              /\ \A i \in 1..Len(data) + Len(queue) :
                    (data \o queue)[i] = IF i <= Len(data) THEN data[i] ELSE queue[i - Len(data)]
            BY ONLY <3>1, ConcatProperties
        <3>4. 1 \in 1..Len(data) + Len(queue) /\ 1 <= Len(data)
            BY <3>2
        <3>5. (data \o queue)[1] = data[1]
            BY <3>3, <3>4
        <3> QED BY <3>2, <3>3, <3>5 DEF Pending
    <2> QED BY <2>2 DEF Pending
<1> HIDE DEF n, e
<1>5. /\ e.kind # "overflow" /\ e.kind \in Kinds
      /\ e.kind = "file" => e.name = None
      /\ e.kind \in {"in", "out"} => e.name \in Names /\ e.name # None
    BY <1>2, <1>4, PendingIs DEF EventsFit, CoverageAssumption, n
<1>6. /\ Named(1) <=> e.wd \in DOMAIN wdToRel
      /\ NameOf(1) = wdToRel[e.wd]
      /\ Loc(1) = Append(wdToRel[e.wd], e.name)
      /\ \A x : Out(1, x) <=> e.kind = "out" /\ e.wd \in DOMAIN wdToRel /\ Below(Loc(1), x)
    BY <1>4 DEF Named, NameOf, Loc, Out
\* No watch is removed.
<1>7. ASSUME queue' = queue
      PROVE  /\ Len(Pending') \in Nat
             /\ \A i \in 1..(n - 1) : i \in 1..Len(Pending') /\ Pending'[i] = Pending[i + 1]
             /\ \A i \in 1..Len(Pending') : i \in 1..(n - 1)
    <2>1. PICK ign : ign = <<>>
        OBVIOUS
    <2>2. EventsOK(ign) /\ Len(ign) = 0 /\ queue' = queue \o ign
        BY <1>3, <1>7, <2>1
    <2>3. /\ Len(Pending') = n - 1 + Len(ign)
          /\ \A i \in 1..(n - 1) : Pending'[i] = Pending[i + 1]
        BY <1>1, <2>2, PendingMoves DEF n
    <2> QED BY <1>4, <2>2, <2>3
<1>8. CASE HandleIgnored
    <2>1. /\ e.kind = "ignored"
          /\ wdToRel' = Restrict(wdToRel, DOMAIN wdToRel \ {e.wd})
          /\ relToWd' = IF e.wd \in DOMAIN wdToRel
                        THEN Restrict(relToWd, DOMAIN relToWd \ {wdToRel[e.wd]}) ELSE relToWd
          /\ UNCHANGED <<watches, queue, todo, batch, unknown>>
        BY <1>8 DEF HandleIgnored, kernel, e
    <2>2. /\ e.wd \notin DOMAIN watches
          /\ \A i \in 2..n : Pending[i].wd # e.wd
        BY <1>2, <1>4, <2>1 DEF EventsFit, n
    <2>3. \A x : ~Out(1, x)
        BY <1>6, <2>1
    <2>4. /\ DOMAIN wdToRel' = DOMAIN wdToRel \ {e.wd}
          /\ \A v \in DOMAIN wdToRel' : wdToRel'[v] = wdToRel[v]
        BY <2>1 DEF Restrict
    <2>5. /\ DOMAIN relToWd' = {x \in DOMAIN relToWd : relToWd[x] # e.wd}
          /\ \A x \in DOMAIN relToWd' : relToWd'[x] = relToWd[x]
        <3>1. CASE e.wd \in DOMAIN wdToRel
            <4>1. \A x \in DOMAIN relToWd : relToWd[x] = e.wd <=> x = wdToRel[e.wd]
                BY <1>2, <3>1 DEF TablesFit, CovTyped, TablesOK
            <4> QED BY <2>1, <3>1, <4>1 DEF Restrict
        <3>2. CASE e.wd \notin DOMAIN wdToRel
            <4>1. \A x \in DOMAIN relToWd : relToWd[x] # e.wd
                BY <1>2, <3>2 DEF TablesFit
            <4> QED BY <2>1, <3>2, <4>1
        <3> QED BY <3>1, <3>2
    <2>6. Advance
        <3>1. \A x \in DOMAIN relToWd' : relToWd[x] \in DOMAIN wdToRel'
            BY <1>2, <2>4, <2>5 DEF TablesFit
        <3>2. DOMAIN watches \subseteq DOMAIN wdToRel'
            BY <1>2, <2>2, <2>4 DEF TablesFit
        <3>3. /\ \A i \in 1..(n - 1) : i \in 1..Len(Pending') /\ Pending'[i] = Pending[i + 1]
              /\ \A i \in 1..Len(Pending') : i \in 1..(n - 1)
            BY <1>7, <2>1
        <3> QED BY <2>1, <2>2, <2>3, <2>4, <2>5, <3>1, <3>2, <3>3 DEF Advance, n
    <2> QED BY <1>1, <1>4, <1>6, <1>7, <2>1, <2>6 DEF n
<1>9. CASE HandleUnnamed
    <2>1. /\ e.wd \notin DOMAIN wdToRel
          /\ UNCHANGED <<watches, queue, todo, wdToRel, relToWd, batch, unknown>>
        BY <1>9 DEF HandleUnnamed, kernel, e
    <2>2. \A x : ~Out(1, x)
        BY <1>6, <2>1
    <2>3. /\ \A i \in 1..(n - 1) : i \in 1..Len(Pending') /\ Pending'[i] = Pending[i + 1]
          /\ \A i \in 1..Len(Pending') : i \in 1..(n - 1)
        BY <1>7, <2>1
    <2>4. Advance
        BY <1>2, <2>1, <2>2, <2>3 DEF Advance, TablesFit, n
    <2> QED BY <1>1, <1>4, <1>6, <1>7, <2>1, <2>4 DEF n
<1>10. ASSUME HandlePath
       PROVE  /\ e.kind \in {"in", "out", "file", "self"} /\ e.wd \in DOMAIN wdToRel
              /\ batch \subseteq batch' /\ UNCHANGED unknown
              /\ e.kind \in {"in", "out"} => Rel = Loc(1)
              /\ e.kind = "file" => <<"file", NameOf(1)>> \in batch'
              /\ e.kind = "in" => <<"tree", Loc(1)>> \in batch' /\ todo' = <<<<"add", Loc(1)>>>>
              /\ e.kind # "in" => todo' = <<>>
    <2>1. /\ e.kind \in {"in", "out"} => Rel = Loc(1)
          /\ e.kind = "file" => Rel = NameOf(1)
        BY <1>5, <1>6 DEF Rel, e
    <2> QED BY <1>10, <2>1 DEF HandlePath, e
<1>11. CASE HandlePath /\ e.kind # "out"
    <2>1. UNCHANGED <<watches, queue, wdToRel, relToWd>>
        BY <1>11 DEF HandlePath, kernel, e
    <2>2. \A x : ~Out(1, x)
        BY <1>6, <1>11
    <2>3. /\ \A i \in 1..(n - 1) : i \in 1..Len(Pending') /\ Pending'[i] = Pending[i + 1]
          /\ \A i \in 1..Len(Pending') : i \in 1..(n - 1)
        BY <1>7, <2>1
    <2>4. Advance
        BY <1>2, <2>1, <2>2, <2>3 DEF Advance, TablesFit, n
    <2> QED BY <1>1, <1>4, <1>6, <1>7, <1>10, <1>11, <2>1, <2>4 DEF n
\* The watches under the name that is gone are removed.
<1>12. CASE HandlePath /\ e.kind = "out"
    <2>1. PICK u : u = Loc(1) /\ RemovePrefixWatches(u)
        BY <1>10, <1>12 DEF HandlePath, e
    <2>2. \A x : Out(1, x) <=> Below(u, x)
        BY <1>6, <1>10, <1>12, <2>1
    <2>3. PICK ign : ign = SetToSeq(Ignored(u))
        OBVIOUS
    <2>4. /\ EventsOK(ign) /\ ign \in [1..Len(ign) -> Ignored(u)] /\ IsInjective(ign)
          /\ Len(ign) \in Nat
        BY <2>3, IgnoredListed, LenProperties DEF EventsOK
    <2>5. queue' = queue \o ign
        BY <2>1, <2>3 DEF RemovePrefixWatches, Ignored
    <2>6. /\ Len(Pending') = n - 1 + Len(ign)
          /\ \A i \in 1..(n - 1) : Pending'[i] = Pending[i + 1]
          /\ \A k \in 1..Len(ign) : Pending'[n - 1 + k] = ign[k]
        BY <1>1, <2>4, <2>5, PendingMoves DEF n
    <2> DEFINE V == VictimWds(u)
    <2>7. /\ \A v \in DOMAIN wdToRel : v \in V <=> Below(u, wdToRel[v])
          /\ \A x \in DOMAIN relToWd : relToWd[x] \in V <=> Below(u, x)
        <3>1. \A x \in DOMAIN relToWd : relToWd[x] \in V <=> Below(u, x)
            BY <1>2 DEF VictimWds, Victims, TablesFit
        <3>2. \A v \in DOMAIN wdToRel : wdToRel[v] \in DOMAIN relToWd /\ relToWd[wdToRel[v]] = v
            BY DEF CovTyped, TablesOK
        <3> HIDE DEF V
        <3> QED BY <3>1, <3>2
    <2>8. /\ DOMAIN relToWd' = {x \in DOMAIN relToWd : ~Below(u, x)}
          /\ \A x \in DOMAIN relToWd' : relToWd'[x] = relToWd[x]
          /\ DOMAIN wdToRel' = DOMAIN wdToRel \ V /\ DOMAIN watches' = DOMAIN watches \ V
          /\ \A v \in DOMAIN wdToRel' : wdToRel'[v] = wdToRel[v]
          /\ \A v \in DOMAIN watches' : watches'[v] = watches[v]
        BY <2>1 DEF RemovePrefixWatches, Restrict, Victims
    <2>9. \A k \in 1..Len(ign) : /\ ign[k].kind = "ignored" /\ ign[k].wd \in V \cap DOMAIN watches
                                 /\ \A j \in 1..Len(ign) : j # k => ign[j].wd # ign[k].wd
        <3>1. \A k \in 1..Len(ign) : \E w \in V \cap DOMAIN watches :
                 ign[k] = [wd |-> w, kind |-> "ignored", name |-> None]
            BY <2>4 DEF Ignored
        <3>2. \A j, k \in 1..Len(ign) : ign[j] = ign[k] => j = k
            BY <2>4 DEF IsInjective
        <3> HIDE DEF V
        <3>3. ASSUME NEW k \in 1..Len(ign)
              PROVE  /\ ign[k].kind = "ignored" /\ ign[k].wd \in V \cap DOMAIN watches
                     /\ ign[k] = [wd |-> ign[k].wd, kind |-> "ignored", name |-> None]
            <4>1. PICK w \in V \cap DOMAIN watches :
                     ign[k] = [wd |-> w, kind |-> "ignored", name |-> None]
                BY <3>1
            <4> QED BY <4>1
        <3>4. ASSUME NEW k \in 1..Len(ign), NEW j \in 1..Len(ign), j # k
              PROVE  ign[j].wd # ign[k].wd
            <4>1. /\ ign[k] = [wd |-> ign[k].wd, kind |-> "ignored", name |-> None]
                  /\ ign[j] = [wd |-> ign[j].wd, kind |-> "ignored", name |-> None]
                BY <3>3
            <4>2. ign[j] # ign[k]
                BY <3>2, <3>4
            <4> QED BY <4>1, <4>2
        <3> QED BY <3>3, <3>4
    <2> HIDE DEF V
    <2>10. ASSUME NEW i \in 1..Len(Pending'), i \notin 1..(n - 1)
           PROVE  /\ Pending'[i].kind = "ignored"
                  /\ Pending'[i].wd \in DOMAIN watches \ DOMAIN watches'
                  /\ \A j \in (i + 1)..Len(Pending') : Pending'[j].wd # Pending'[i].wd
        <3>1. PICK k \in 1..Len(ign) : i = n - 1 + k
            <4>1. i - (n - 1) \in 1..Len(ign) /\ i = n - 1 + (i - (n - 1))
                BY <1>4, <2>4, <2>6, <2>10
            <4> QED BY <4>1
        <3>2. Pending'[i] = ign[k]
            BY <2>6, <3>1
        <3>3. ASSUME NEW j \in (i + 1)..Len(Pending') PROVE Pending'[j].wd # Pending'[i].wd
            <4>1. PICK m \in 1..Len(ign) : j = n - 1 + m /\ m # k
                <5>1. j - (n - 1) \in 1..Len(ign) /\ j = n - 1 + (j - (n - 1)) /\ j - (n - 1) # k
                    BY <1>4, <2>4, <2>6, <3>1, <3>3
                <5> QED BY <5>1
            <4>2. Pending'[j] = ign[m]
                BY <2>6, <4>1
            <4> QED BY <2>9, <3>2, <4>1, <4>2
        <3> QED BY <2>8, <2>9, <3>2, <3>3
    <2>11. \A i \in 1..(n - 1) : i \in 1..Len(Pending')
        BY <1>4, <2>4, <2>6
    <2>12. Len(Pending') \in Nat
        BY <1>4, <2>4, <2>6
    <2>13. /\ DOMAIN watches' \subseteq DOMAIN wdToRel'
           /\ \A x \in DOMAIN relToWd' : relToWd[x] \in DOMAIN wdToRel'
        BY <1>2, <2>7, <2>8 DEF TablesFit
    <2>14. Advance
        BY <2>2, <2>6, <2>7, <2>8, <2>10, <2>11, <2>13 DEF Advance, n
    <2> QED BY <1>1, <1>4, <1>6, <1>10, <1>12, <2>12, <2>14 DEF n
<1> QED
    <2>1. ~HandleOverflow
        BY <1>5 DEF HandleOverflow, e
    <2> QED BY <1>8, <1>9, <1>11, <1>12, <2>1 DEF Handle

\* What the events that are left say after the first is handled.
LEMMA AdvanceNames ==
    ASSUME CovTyped, Fits, Advance, Len(Pending) \in Nat \ {0}, Len(Pending') \in Nat
    PROVE  /\ \A i \in 1..(Len(Pending) - 1) :
                 /\ i \in 1..Len(Pending') /\ i + 1 \in 2..Len(Pending)
                 /\ Pending'[i] = Pending[i + 1]
                 /\ Named(i)' => /\ Named(i + 1) /\ NameOf(i)' = NameOf(i + 1)
                                 /\ Loc(i)' = Loc(i + 1) /\ ~Out(1, NameOf(i + 1))
                 /\ Named(i + 1) /\ ~Out(1, NameOf(i + 1)) => Named(i)'
                 /\ \A x : Out(i, x)' => Out(i + 1, x)
                 /\ \A x : Out(i + 1, x) /\ ~Out(1, NameOf(i + 1)) => Out(i, x)'
                 /\ \A x \in NSeq : Out(i + 1, x) /\ ~Out(1, x) => Out(i, x)'
                 /\ Live(i)' <=> Live(i + 1)
                 /\ Coming(i)' <=> Coming(i + 1)
           /\ \A i \in 1..Len(Pending') : i \notin 1..(Len(Pending) - 1) =>
                 Pending'[i].kind = "ignored"
           /\ \A x : Doomed(x)' => Doomed(x)
           /\ \A x \in NSeq : Doomed(x) => Out(1, x) \/ Doomed(x)'
<1> DEFINE n == Len(Pending)
<1>1. /\ n \in Nat \ {0} /\ 1 \in 1..n
      /\ \A i \in 1..(n - 1) : i \in 1..Len(Pending') /\ Pending'[i] = Pending[i + 1]
      /\ \A i \in 1..Len(Pending') : i \notin 1..(n - 1) => Pending'[i].kind = "ignored"
      /\ \A v \in DOMAIN wdToRel' :
            v \in DOMAIN wdToRel /\ wdToRel'[v] = wdToRel[v] /\ ~Out(1, wdToRel[v])
      /\ \A v \in DOMAIN wdToRel : v \notin DOMAIN wdToRel' =>
            Out(1, wdToRel[v]) \/ \A i \in 2..n : Pending[i].wd # v
    BY DEF Advance
<1> HIDE DEF n
<1>2. \A i \in 1..(n - 1) : i + 1 \in 2..n /\ i + 1 \in 1..n
    BY <1>1
<1>3. ASSUME NEW i \in 1..(n - 1)
      PROVE  /\ Named(i)' => /\ Named(i + 1) /\ NameOf(i)' = NameOf(i + 1)
                             /\ Loc(i)' = Loc(i + 1) /\ ~Out(1, NameOf(i + 1))
             /\ Named(i + 1) /\ ~Out(1, NameOf(i + 1)) => Named(i)'
    BY <1>1, <1>2 DEF Named, NameOf, Loc
<1>4. ASSUME NEW i \in 1..(n - 1), NEW x
      PROVE  /\ Out(i, x)' => Out(i + 1, x)
             /\ Out(i + 1, x) /\ ~Out(1, NameOf(i + 1)) => Out(i, x)'
    BY <1>1, <1>3 DEF Out
\* What is above the name of the watch, is above what its event takes away.
<1>5. ASSUME NEW i \in 1..(n - 1), NEW x \in NSeq, Out(i + 1, x), ~Out(1, x)
      PROVE  Out(i, x)'
    <2>1. Named(i + 1) /\ Pending[i + 1].kind = "out" /\ Below(Loc(i + 1), x)
        BY <1>5 DEF Out
    <2>2. PICK k \in 1..n : k = i + 1
        BY <1>2
    <2>3. NameOf(k) \in NSeq /\ Loc(k) \in NSeq /\ Below(NameOf(k), Loc(k))
        BY <2>1, <2>2, NameIs DEF n
    <2>4. Below(NameOf(k), x)
        BY <2>1, <2>2, <2>3, BelowOrder
    <2>5. ~Out(1, NameOf(k))
        BY <1>1, <1>5, <2>3, <2>4, OutDown DEF n
    <2> QED BY <1>4, <1>5, <2>2, <2>5
<1>6. ASSUME NEW i \in 1..(n - 1) PROVE Live(i)' <=> Live(i + 1)
    <2>0. PICK k \in 1..n : k = i + 1
        BY <1>2
    <2>1. ASSUME Live(k) PROVE Live(i)'
        <3>1. Named(k) /\ \A j \in 1..(k - 1) : ~Out(j, NameOf(k))
            BY <2>1 DEF Live
        <3>2. ~Out(1, NameOf(k))
            BY <1>1, <2>0, <3>1
        <3>3. Named(i)' /\ NameOf(i)' = NameOf(k)
            BY <1>3, <2>0, <3>1, <3>2
        <3>4. ASSUME NEW j \in 1..(i - 1) PROVE ~Out(j, NameOf(i))'
            <4>1. j \in 1..(n - 1) /\ j + 1 \in 1..(k - 1)
                BY <1>1, <2>0
            <4>2. ~Out(j + 1, NameOf(k))
                BY <3>1, <4>1
            <4> QED BY <1>4, <3>3, <4>1, <4>2
        <3> QED BY <3>3, <3>4 DEF Live
    <2>2. ASSUME Live(i)' PROVE Live(k)
        <3>1. Named(i)' /\ \A j \in 1..(i - 1) : ~Out(j, NameOf(i))'
            BY <2>2 DEF Live
        <3>2. Named(k) /\ NameOf(i)' = NameOf(k) /\ ~Out(1, NameOf(k))
            BY <1>3, <2>0, <3>1
        <3>3. NameOf(k) \in NSeq
            BY <3>2, NameIs DEF n
        <3>4. ASSUME NEW j \in 1..(k - 1) PROVE ~Out(j, NameOf(k))
            <4>1. CASE j = 1
                BY <3>2, <4>1
            <4>2. CASE j # 1
                <5>1. PICK m \in 1..(n - 1) : j = m + 1 /\ m \in 1..(i - 1)
                    <6>1. j - 1 \in 1..(n - 1) /\ j = (j - 1) + 1 /\ j - 1 \in 1..(i - 1)
                        BY <1>1, <2>0, <3>4, <4>2
                    <6> QED BY <6>1
                <5>2. PICK v \in NSeq : v = NameOf(k) /\ v = NameOf(i)'
                    BY <3>2, <3>3
                <5>3. ~Out(m, v)'
                    BY <3>1, <5>1, <5>2
                <5> QED BY <1>5, <3>2, <5>1, <5>2, <5>3
            <4> QED BY <4>1, <4>2
        <3> QED BY <3>2, <3>4 DEF Live
    <2> QED BY <2>0, <2>1, <2>2
<1>7. ASSUME NEW i \in 1..(n - 1) PROVE Coming(i)' <=> Coming(i + 1)
    BY <1>1, <1>6 DEF Coming
<1>8. ASSUME NEW x, Doomed(x)' PROVE Doomed(x)
    <2>1. PICK i \in 1..Len(Pending') : Out(i, x)'
        BY <1>8 DEF Doomed
    <2>2. i \in 1..(n - 1)
        BY <1>1, <2>1 DEF Out
    <2>3. Out(i + 1, x) /\ i + 1 \in 1..n
        BY <1>2, <1>4, <2>1, <2>2
    <2> QED BY <2>3 DEF Doomed, n
<1>9. ASSUME NEW x \in NSeq, Doomed(x), ~Out(1, x) PROVE Doomed(x)'
    <2>1. PICK i \in 1..n : Out(i, x)
        BY <1>9 DEF Doomed, n
    <2>2. i # 1
        BY <1>9, <2>1
    <2>3. PICK j \in 1..(n - 1) : i = j + 1
        <3>1. i - 1 \in 1..(n - 1) /\ i = (i - 1) + 1
            BY <1>1, <2>2
        <3> QED BY <3>1
    <2>4. Out(j, x)'
        BY <1>5, <1>9, <2>1, <2>3
    <2> QED BY <1>1, <2>4 DEF Doomed
<1> QED BY <1>1, <1>2, <1>3, <1>4, <1>5, <1>6, <1>7, <1>8, <1>9 DEF n

\* Handle keeps the invariant: what the event was due to do is done.
LEMMA HandleFits ==
    ASSUME CoverageAssumption, CovTyped, CovTyped', Fits, Handle
    PROVE  Fits'
<1> DEFINE n == Len(Pending)
<1>1. /\ Advance
      /\ n \in Nat \ {0} /\ Len(Pending') \in Nat /\ todo = <<>>
      /\ UNCHANGED <<tree, unknown, stale, used, gap>>
      /\ batch \subseteq batch'
      /\ Named(1) /\ Pending[1].kind = "file" => <<"file", NameOf(1)>> \in batch'
      /\ Named(1) /\ Pending[1].kind = "in" =>
            /\ <<"tree", Loc(1)>> \in batch' /\ todo' = <<<<"add", Loc(1)>>>>
            /\ UNCHANGED relToWd
      /\ ~(Named(1) /\ Pending[1].kind = "in") => todo' = <<>>
    BY HandleAdvances
<1>2. /\ \A i \in 1..(n - 1) :
            /\ i \in 1..Len(Pending') /\ i + 1 \in 2..n
            /\ Pending'[i] = Pending[i + 1]
            /\ Named(i)' => /\ Named(i + 1) /\ NameOf(i)' = NameOf(i + 1)
                            /\ Loc(i)' = Loc(i + 1) /\ ~Out(1, NameOf(i + 1))
            /\ \A x : Out(i, x)' => Out(i + 1, x)
            /\ \A x : Out(i + 1, x) /\ ~Out(1, NameOf(i + 1)) => Out(i, x)'
            /\ \A x \in NSeq : Out(i + 1, x) /\ ~Out(1, x) => Out(i, x)'
            /\ Live(i)' <=> Live(i + 1)
            /\ Coming(i)' <=> Coming(i + 1)
      /\ \A i \in 1..Len(Pending') : i \notin 1..(n - 1) => Pending'[i].kind = "ignored"
      /\ \A x : Doomed(x)' => Doomed(x)
      /\ \A x \in NSeq : Doomed(x) => Out(1, x) \/ Doomed(x)'
    BY <1>1, AdvanceNames
<1>3. EventsFit /\ TablesFit /\ RegisteredFit /\ NamesFit /\ ComingFit /\ Reached /\ StaleNoted
    BY DEF Fits
<1>4. /\ Dirs' = Dirs /\ Dirs \subseteq NSeq /\ Dirs \subseteq Paths /\ 1 \in 1..n
      /\ DOMAIN relToWd \subseteq NSeq
    BY <1>1, DirsAre, PathsAreSeqs DEF Dirs, CovTyped, TablesOK
<1>5. /\ \A i \in 1..Len(Pending') : i \notin 1..(n - 1) =>
            /\ Pending'[i].kind = "ignored" /\ Pending'[i].wd \in DOMAIN watches \ DOMAIN watches'
            /\ \A j \in (i + 1)..Len(Pending') : Pending'[j].wd # Pending'[i].wd
      /\ \A v \in DOMAIN wdToRel' :
            v \in DOMAIN wdToRel /\ wdToRel'[v] = wdToRel[v] /\ ~Out(1, wdToRel[v])
      /\ \A x \in DOMAIN relToWd' :
            x \in DOMAIN relToWd /\ relToWd'[x] = relToWd[x] /\ relToWd[x] \in DOMAIN wdToRel'
      /\ \A x \in DOMAIN relToWd : x \notin DOMAIN relToWd' =>
            Out(1, x) \/ relToWd[x] \notin DOMAIN watches
      /\ DOMAIN watches' \subseteq DOMAIN watches /\ DOMAIN watches' \subseteq DOMAIN wdToRel'
      /\ \A w \in DOMAIN watches' : watches'[w] = watches[w]
      /\ \A w \in DOMAIN watches : w \notin DOMAIN watches' => w \notin DOMAIN wdToRel'
    BY <1>1 DEF Advance, n
<1> HIDE DEF n
\* What is registered still, the event has not taken away.
<1>6. /\ \A x \in DOMAIN relToWd' : ~Out(1, x)
      /\ \A x \in DOMAIN relToWd : x \in DOMAIN relToWd' \/ Out(1, x) \/ Doomed(x)'
      /\ \A x \in DOMAIN relToWd' : Right(x) => Right(x)'
    <2>1. \A x \in DOMAIN relToWd' : ~Out(1, x)
        BY <1>3, <1>5 DEF TablesFit
    <2>2. ASSUME NEW x \in DOMAIN relToWd, x \notin DOMAIN relToWd', ~Out(1, x) PROVE Doomed(x)'
        <3>1. ~Right(x)
            BY <1>5, <2>2 DEF Right
        <3>2. Doomed(x)
            BY <1>3, <3>1 DEF RegisteredFit
        <3> QED BY <1>2, <1>4, <2>2, <3>2
    <2>3. ASSUME NEW x \in DOMAIN relToWd', Right(x) PROVE Right(x)'
        BY <1>1, <1>4, <1>5, <2>3 DEF Right
    <2> QED BY <2>1, <2>2, <2>3
<1>7. \A i \in 2..n : \E k \in 1..(n - 1) : i = k + 1
    <2>1. \A i \in 2..n : i - 1 \in 1..(n - 1) /\ i = (i - 1) + 1
        BY <1>1
    <2> QED BY <2>1
<1>8. EventsFit'
    <2>1. ASSUME NEW i \in 1..Len(Pending')
          PROVE  /\ Pending'[i].kind # "overflow" /\ Pending'[i].wd <= used'.wd
                 /\ Pending'[i].kind = "file" => Pending'[i].name = None
        <3>1. CASE i \in 1..(n - 1)
            <4>1. PICK k \in 1..n : k = i + 1 /\ Pending'[i] = Pending[k]
                BY <1>1, <1>2, <3>1
            <4> QED BY <1>1, <1>3, <4>1 DEF EventsFit, n
        <3>2. CASE i \notin 1..(n - 1)
            <4>1. Pending'[i].wd \in 0..used.wd /\ used.wd \in Nat
                BY <1>5, <3>2 DEF CovTyped, WatchesOK, UsedOK
            <4> QED BY <1>1, <1>5, <3>2, <4>1
        <3> QED BY <3>1, <3>2
    <2>2. ASSUME NEW i \in 1..Len(Pending'), Pending'[i].kind = "ignored"
          PROVE  /\ Pending'[i].wd \notin DOMAIN watches'
                 /\ \A j \in (i + 1)..Len(Pending') : Pending'[j].wd # Pending'[i].wd
        <3>1. CASE i \in 1..(n - 1)
            <4>1. PICK k \in 1..n : k = i + 1 /\ Pending'[i] = Pending[k]
                BY <1>1, <1>2, <3>1
            <4>2. /\ Pending[k].wd \notin DOMAIN watches
                  /\ \A j \in (k + 1)..n : Pending[j].wd # Pending[k].wd
                BY <1>3, <2>2, <4>1 DEF EventsFit, n
            <4>3. ASSUME NEW j \in (i + 1)..Len(Pending') PROVE Pending'[j].wd # Pending[k].wd
                <5>1. CASE j \in 1..(n - 1)
                    <6>1. PICK m \in (k + 1)..n : m = j + 1
                        <7>1. j + 1 \in (k + 1)..n
                            BY <1>1, <4>1, <4>3, <5>1
                        <7> QED BY <7>1
                    <6> QED BY <1>2, <4>2, <5>1, <6>1
                <5>2. CASE j \notin 1..(n - 1)
                    <6>1. j \in 1..Len(Pending')
                        BY <1>1, <4>3
                    <6> QED BY <1>5, <4>2, <5>2, <6>1
                <5> QED BY <5>1, <5>2
            <4> QED BY <1>5, <4>1, <4>2, <4>3
        <3>2. CASE i \notin 1..(n - 1)
            BY <1>5, <3>2
        <3> QED BY <3>1, <3>2
    <2> QED BY <2>1, <2>2 DEF EventsFit
<1>9. TablesFit'
    <2>1. DOMAIN wdToRel' \subseteq 0..used'.wd
        BY <1>1, <1>3, <1>5 DEF TablesFit
    <2>2. \A x \in DOMAIN relToWd' : wdToRel'[relToWd'[x]] = x /\ relToWd'[x] \in DOMAIN wdToRel'
        BY <1>3, <1>5 DEF TablesFit
    <2>3. \A v, w \in DOMAIN watches' : watches'[v] = watches'[w] => v = w
        BY <1>3, <1>5 DEF TablesFit
    <2> QED BY <1>5, <2>1, <2>2, <2>3 DEF TablesFit
<1>10. RegisteredFit'
    <2>1. ASSUME NEW x \in DOMAIN relToWd' PROVE Right(x)' \/ Doomed(x)'
        BY <1>2, <1>3, <1>4, <1>5, <1>6 DEF RegisteredFit
    <2>2. ASSUME NEW x \in DOMAIN relToWd', NEW y \in NSeq, Below(y, x)
          PROVE  y \in DOMAIN relToWd' \/ Doomed(x)'
        <3>1. x \in DOMAIN relToWd /\ x \in NSeq /\ ~Out(1, x)
            BY <1>4, <1>5, <1>6
        <3>2. ~Out(1, y)
            BY <1>4, <2>2, <3>1, OutDown DEF n
        <3>3. CASE Doomed(x)
            BY <1>2, <3>1, <3>3
        <3>4. CASE y \in DOMAIN relToWd /\ Doomed(y)'
            <4>1. Doomed(x)
                BY <1>2, <2>2, <3>1, <3>4, DoomedDown
            <4> QED BY <3>3, <4>1
        <3>5. CASE y \in DOMAIN relToWd'
            BY <3>5
        <3> QED BY <1>3, <1>5, <1>6, <2>2, <3>1, <3>2, <3>3, <3>4, <3>5 DEF RegisteredFit
    <2> QED BY <2>1, <2>2 DEF RegisteredFit
<1>11. NamesFit'
    <2> SUFFICES ASSUME NEW q \in Dirs, NEW w \in DOMAIN watches', watches'[w] = tree[q],
                        wdToRel'[w] # q
                 PROVE  Stale(q, w)'
        BY <1>1, <1>4 DEF NamesFit
    <2>1. /\ w \in DOMAIN watches /\ watches[w] = tree[q] /\ w \in DOMAIN wdToRel'
          /\ wdToRel'[w] = wdToRel[w]
        BY <1>5
    <2>2. PICK v \in NSeq : v = wdToRel[w] /\ v = wdToRel'[w] /\ ~Out(1, v)
        BY <1>5, <2>1, PathsAreSeqs DEF CovTyped, TablesOK
    <2>3. PICK i \in 1..n :
             Out(i, v) /\ \A j \in 1..(i - 1) : Coming(j) => ~Related(Loc(j), q)
        BY <1>3, <2>1, <2>2 DEF NamesFit, Stale, n
    <2>4. PICK k \in 1..(n - 1) : i = k + 1
        <3>1. i \in 2..n
            BY <1>1, <2>2, <2>3
        <3> QED BY <1>7, <3>1
    <2>5. Out(k, v)'
        BY <1>2, <2>2, <2>3, <2>4
    <2>6. ASSUME NEW j \in 1..(k - 1), Coming(j)' PROVE ~Related(Loc(j)', q)
        <3>1. j \in 1..(n - 1) /\ j + 1 \in 1..(i - 1)
            BY <1>1, <2>4
        <3>2. Coming(j + 1) /\ Loc(j)' = Loc(j + 1)
            BY <1>2, <2>6, <3>1 DEF Coming, Live
        <3> QED BY <2>3, <3>1, <3>2
    <2>7. ASSUME NEW m \in 1..Len(todo') PROVE ~Related(todo'[m][2], q)
        <3>1. CASE Named(1) /\ Pending[1].kind = "in"
            <4>1. todo' = <<<<"add", Loc(1)>>>>
                BY <1>1, <3>1
            <4>2. m = 1 /\ todo'[m][2] = Loc(1)
                BY <4>1
            <4>3. Coming(1)
                BY <3>1 DEF Coming, Live
            <4>4. 1 \in 1..(i - 1)
                BY <1>1, <2>4
            <4> QED BY <2>3, <4>2, <4>3, <4>4
        <3>2. CASE ~(Named(1) /\ Pending[1].kind = "in")
            <4>1. todo' = <<>>
                BY <1>1, <3>2
            <4>2. Len(todo') = 0
                BY <4>1
            <4> QED BY <4>2
        <3> QED BY <3>1, <3>2
    <2>8. k \in 1..Len(Pending') /\ Out(k, wdToRel[w])'
        BY <1>2, <2>2, <2>4, <2>5
    <2> QED BY <2>6, <2>7, <2>8 DEF Stale
<1>12. ComingFit'
    <2> SUFFICES ASSUME NEW i \in 1..Len(Pending'), Coming(i)'
                 PROVE  Loc(i)' \in Dirs \/ \E j \in (i + 1)..Len(Pending') : Out(j, Loc(i))'
        BY <1>4 DEF ComingFit
    <2>1. i \in 1..(n - 1)
        BY <1>2 DEF Coming
    <2>2. PICK k \in 1..n : k = i + 1
        BY <1>1, <1>2, <2>1
    <2>3. PICK u : u = Loc(k) /\ u = Loc(i)'
        BY <1>2, <2>1, <2>2 DEF Coming, Live
    <2>4. Coming(k) /\ Named(k) /\ ~Out(1, NameOf(k)) /\ Pending[k].kind = "in"
        BY <1>2, <2>1, <2>2 DEF Coming, Live
    <2>5. CASE u \in Dirs
        BY <2>3, <2>5
    <2>6. CASE u \notin Dirs
        <3>1. PICK j \in (k + 1)..n : Out(j, u)
            BY <1>3, <2>3, <2>4, <2>6 DEF ComingFit, n
        <3>2. PICK m \in (i + 1)..(n - 1) : j = m + 1
            <4>1. j - 1 \in (i + 1)..(n - 1) /\ j = (j - 1) + 1
                BY <1>1, <2>2, <3>1
            <4> QED BY <4>1
        \* The watch of the later event is above the one that announced the directory.
        <3>3. ~Out(1, NameOf(j))
            <4>0. j \in 1..n
                BY <1>1, <2>2, <3>1
            <4>1. Named(j) /\ Pending[j].kind = "out" /\ Below(Loc(j), u)
                BY <3>1 DEF Out
            <4>2. /\ NameOf(k) \in NSeq /\ u \in NSeq
                  /\ \A y \in NSeq : Below(y, u) => y = u \/ Below(y, NameOf(k))
                BY <2>3, <2>4, NameIs DEF n
            <4>3. /\ NameOf(j) \in NSeq /\ Loc(j) \in NSeq /\ Below(NameOf(j), Loc(j))
                  /\ ~Below(Loc(j), NameOf(j))
                BY <4>0, <4>1, NameIs DEF n
            <4>4. Below(NameOf(j), u) /\ NameOf(j) # u
                BY <4>1, <4>2, <4>3, BelowOrder
            <4>5. Below(NameOf(j), NameOf(k))
                BY <4>2, <4>3, <4>4
            <4> QED BY <1>4, <2>4, <4>2, <4>3, <4>5, OutDown DEF n
        <3>4. m \in 1..(n - 1) /\ m \in (i + 1)..Len(Pending')
            <4>1. m \in 1..(n - 1)
                BY <1>1, <2>1, <3>2
            <4>2. m \in 1..Len(Pending')
                BY <1>2, <4>1
            <4> QED BY <1>1, <2>1, <3>2, <4>1, <4>2
        <3>5. Out(m, u)'
            BY <1>2, <3>1, <3>2, <3>3, <3>4
        <3> QED BY <2>3, <3>4, <3>5
    <2> QED BY <2>3, <2>5, <2>6
<1>13. TodoFit'
    <2>1. CASE Named(1) /\ Pending[1].kind = "in"
        <3>1. PICK u : u = Loc(1)
            OBVIOUS
        <3>2. /\ todo' = <<<<"add", u>>>> /\ UNCHANGED relToWd
            BY <1>1, <2>1, <3>1
        <3>3. /\ u \in NSeq /\ NameOf(1) \in NSeq /\ NameOf(1) \in DOMAIN relToWd
              /\ Below(NameOf(1), u)
              /\ \A y \in NSeq : Below(y, u) => y = u \/ Below(y, NameOf(1))
            BY <1>4, <2>1, <3>1, NameIs DEF n
        <3>4. \A x : ~Out(1, x)
            BY <2>1 DEF Out
        <3>5. Coming(1)
            BY <2>1 DEF Coming, Live
        <3>6. u \in Dirs \/ Doomed(u)'
            <4>1. ASSUME u \notin Dirs PROVE Doomed(u)
                <5>1. PICK j \in (1 + 1)..n : Out(j, u)
                    BY <1>3, <1>4, <3>1, <3>5, <4>1 DEF ComingFit, n
                <5>2. j \in 1..n
                    BY <1>1, <5>1
                <5> QED BY <5>1, <5>2 DEF Doomed, n
            <4> QED BY <1>2, <3>3, <3>4, <4>1
        <3>7. ASSUME NEW y \in NSeq, Below(y, u), y # u PROVE y \in DOMAIN relToWd \/ Doomed(u)'
            <4>1. Below(y, NameOf(1))
                BY <3>3, <3>7
            <4>2. y \in DOMAIN relToWd \/ Doomed(NameOf(1))
                BY <1>3, <3>3, <4>1 DEF RegisteredFit
            <4>3. Doomed(NameOf(1)) => Doomed(u)
                BY <3>3, DoomedDown
            <4> QED BY <1>2, <3>3, <3>4, <4>2, <4>3
        <3>8. /\ Len(todo') = 1 /\ todo'[1][1] = "add" /\ todo'[1][2] = u
            BY <3>2
        <3>9. \A k \in 1..Len(todo') : todo'[k][1] = "add" /\ todo'[k][2] = u
            BY <3>8
        <3> QED BY <1>4, <3>2, <3>6, <3>7, <3>9 DEF TodoFit
    <2>2. CASE ~(Named(1) /\ Pending[1].kind = "in")
        <3>1. todo' = <<>>
            BY <1>1, <2>2
        <3>2. Len(todo') = 0
            BY <3>1
        <3> QED BY <3>2 DEF TodoFit
    <2> QED BY <2>1, <2>2
<1>14. Reached'
    <2> SUFFICES ASSUME NEW x \in Dirs PROVE Kept(x)' \/ Heard(x)' \/ Called(x)'
        BY <1>4 DEF Reached
    <2>0. x \in NSeq
        BY <1>4
    <2>1. CASE Kept(x)
        <3>1. Right(x) /\ ~Doomed(x) /\ x \in DOMAIN relToWd
            BY <2>1 DEF Kept, Right
        <3>2. ~Out(1, x) /\ ~Doomed(x)'
            BY <1>2, <1>4, <3>1 DEF Doomed, n
        <3> QED BY <1>6, <3>1, <3>2 DEF Kept
    <2>2. ~Called(x)
        <3>1. Len(todo) = 0
            BY <1>1
        <3> QED BY <3>1 DEF Called
    <2>3. CASE Heard(x)
        <3>1. PICK i \in 1..n : /\ Coming(i) /\ Below(Loc(i), x)
                                /\ \A j \in (i + 1)..n : ~(Live(j) /\ Out(j, x))
            BY <2>3 DEF Heard, n
        <3>2. CASE i = 1
            <4>1. Named(1) /\ Pending[1].kind = "in"
                BY <3>1, <3>2 DEF Coming, Live
            <4>2. PICK u : u = Loc(1) /\ todo' = <<<<"add", u>>>>
                BY <1>1, <4>1
            <4>3. ASSUME Doomed(x) PROVE FALSE
                <5>1. PICK k \in 1..n : Out(k, x) /\ Live(k)
                    BY <2>0, <4>3, FirstOut DEF n
                <5>2. k # 1
                    BY <4>1, <5>1 DEF Out
                <5>3. k \in (i + 1)..n
                    BY <1>1, <3>2, <5>2
                <5> QED BY <3>1, <5>1, <5>3
            <4>4. ~Doomed(x)'
                BY <1>2, <4>3
            <4>5. 1 \in 1..Len(todo') /\ todo'[1][1] = "add" /\ todo'[1][2] = u
                BY <4>2
            <4> QED BY <3>1, <3>2, <4>2, <4>4, <4>5 DEF Called
        <3>3. CASE i # 1
            <4>1. PICK k \in 1..(n - 1) : i = k + 1
                <5>1. i \in 2..n
                    BY <1>1, <3>3
                <5> QED BY <1>7, <5>1
            <4>2. Coming(k)' /\ Loc(k)' = Loc(i)
                BY <1>2, <3>1, <4>1 DEF Coming, Live
            <4>3. ASSUME NEW j \in (k + 1)..Len(Pending'), Live(j)', Out(j, x)' PROVE FALSE
                <5>1. j \in 1..Len(Pending')
                    BY <1>1, <4>1, <4>3
                <5>2. j \in 1..(n - 1)
                    BY <1>2, <4>3, <5>1 DEF Out
                <5>3. j + 1 \in (i + 1)..n
                    BY <1>1, <4>1, <4>3, <5>2
                <5>4. Live(j + 1) /\ Out(j + 1, x)
                    BY <1>2, <4>3, <5>2
                <5> QED BY <3>1, <5>3, <5>4
            <4>4. k \in 1..Len(Pending')
                BY <1>2, <4>1
            <4> QED BY <3>1, <4>2, <4>3, <4>4 DEF Heard
        <3> QED BY <3>2, <3>3
    <2> QED BY <1>3, <2>1, <2>2, <2>3 DEF Reached
<1>15. StaleNoted'
    <2>1. ASSUME NEW x \in Dirs, Noted(x) PROVE Noted(x)'
        <3>1. CASE \/ unknown \/ <<"file", x>> \in batch
                   \/ \E q \in Paths : <<"tree", q>> \in batch /\ Below(q, x)
            BY <1>1, <3>1 DEF Noted
        <3>2. CASE \E i \in 1..n : Coming(i) /\ Below(Loc(i), x)
            <4>1. PICK i \in 1..n : Coming(i) /\ Below(Loc(i), x)
                BY <3>2
            <4>2. CASE i = 1
                <5>1. Named(1) /\ Pending[1].kind = "in"
                    BY <4>1, <4>2 DEF Coming, Live
                <5>2. PICK u \in NSeq : u = Loc(1) /\ Below(u, x) /\ <<"tree", u>> \in batch'
                    BY <1>1, <1>4, <4>1, <4>2, <5>1, NameIs DEF n
                <5>3. u \in Paths
                    <6>1. x \in Paths /\ x \in NSeq /\ MaxDepth \in Nat
                        BY <1>4 DEF CoverageAssumption
                    <6>2. Len(x) <= MaxDepth /\ Len(u) <= Len(x) /\ Len(x) \in Nat /\ Len(u) \in Nat
                        BY <5>2, <6>1, PathsByLen, SeqLen DEF Below
                    <6> QED BY <6>1, <6>2, PathsByLen
                <5> QED BY <5>2, <5>3 DEF Noted
            <4>3. CASE i # 1
                <5>1. PICK k \in 1..(n - 1) : i = k + 1
                    <6>1. i \in 2..n
                        BY <1>1, <4>3
                    <6> QED BY <1>7, <6>1
                <5>2. Coming(k)' /\ Loc(k)' = Loc(i) /\ k \in 1..Len(Pending')
                    BY <1>2, <4>1, <5>1 DEF Coming, Live
                <5> QED BY <4>1, <5>2 DEF Noted
            <4> QED BY <4>2, <4>3
        <3>3. CASE \E i \in 1..n : Pending[i].kind = "file" /\ Live(i) /\ NameOf(i) = x
            <4>1. PICK i \in 1..n : Pending[i].kind = "file" /\ Live(i) /\ NameOf(i) = x
                BY <3>3
            <4>2. CASE i = 1
                <5>1. <<"file", x>> \in batch'
                    BY <1>1, <4>1, <4>2 DEF Live
                <5> QED BY <5>1 DEF Noted
            <4>3. CASE i # 1
                <5>1. PICK k \in 1..(n - 1) : i = k + 1
                    <6>1. i \in 2..n
                        BY <1>1, <4>3
                    <6> QED BY <1>7, <6>1
                <5>2. Live(k)' /\ NameOf(k)' = x /\ Pending'[k].kind = "file" /\ k \in 1..Len(Pending')
                    BY <1>2, <4>1, <5>1 DEF Live
                <5> QED BY <5>2 DEF Noted
            <4> QED BY <4>2, <4>3
        <3> QED BY <2>1, <3>1, <3>2, <3>3 DEF Noted, n
    <2> QED BY <1>1, <1>3, <1>4, <2>1 DEF StaleNoted
<1> QED BY <1>8, <1>9, <1>10, <1>11, <1>12, <1>13, <1>14, <1>15 DEF Fits

\* Nothing happened.
LEMMA StutterFits ==
    ASSUME Fits, UNCHANGED vars
    PROVE  Fits'
<1>1. UNCHANGED <<tree, watches, queue, data, todo, wdToRel, relToWd, batch, unknown, stale, used,
                  lost, crossed, gap>>
    BY DEF vars, kernel, reader
<1>2. Pending' = Pending /\ Dirs' = Dirs /\ \A x : (Right(x)' <=> Right(x))
    BY <1>1 DEF Pending, Dirs, Right
<1>3. /\ \A i : NameOf(i)' = NameOf(i) /\ Loc(i)' = Loc(i)
      /\ \A i : (Named(i)' <=> Named(i)) /\ (Live(i)' <=> Live(i)) /\ (Coming(i)' <=> Coming(i))
      /\ \A i, x : Out(i, x)' <=> Out(i, x)
      /\ \A x : (Doomed(x)' <=> Doomed(x)) /\ (Heard(x)' <=> Heard(x))
    BY <1>1, <1>2, SameEvents
<1>4. EventsFit /\ TablesFit /\ RegisteredFit /\ NamesFit /\ ComingFit /\ TodoFit /\ Reached
      /\ StaleNoted
    BY DEF Fits
<1>5. EventsFit' /\ TablesFit'
    BY <1>1, <1>2, <1>4 DEF EventsFit, TablesFit
<1>6. RegisteredFit' /\ TodoFit'
    BY <1>1, <1>2, <1>3, <1>4 DEF RegisteredFit, TodoFit
<1>7. NamesFit' /\ ComingFit'
    <2>1. \A q, w : Stale(q, w)' <=> Stale(q, w)
        BY <1>1, <1>2, <1>3 DEF Stale
    <2> QED BY <1>1, <1>2, <1>3, <1>4, <2>1 DEF NamesFit, ComingFit
<1>8. Reached' /\ StaleNoted'
    <2>1. \A x : (Kept(x)' <=> Kept(x)) /\ (Called(x)' <=> Called(x)) /\ (Noted(x)' <=> Noted(x))
        BY <1>1, <1>2, <1>3 DEF Kept, Called, Noted
    <2> QED BY <1>1, <1>2, <1>3, <1>4, <2>1 DEF Reached, StaleNoted
<1> QED BY <1>5, <1>6, <1>7, <1>8 DEF Fits

\* Every step keeps the invariant.
LEMMA FitsKept ==
    ASSUME CoverageAssumption, CovInv, [Next]_vars
    PROVE  CovInv'
<1>1. CovTyped /\ CovTyped'
    BY TypedKept DEF CovInv
<1> SUFFICES ASSUME ~lost', ~crossed' PROVE Fits'
    BY <1>1 DEF CovInv
<1>2. (~lost /\ ~crossed) \/ AddRefused
    <2>1. CASE UNCHANGED vars
        BY <2>1 DEF vars
    <2>2. CASE \E p \in Paths : Mkdir(p) \/ Rmdir(p) \/ Write(p)
        BY <2>2 DEF Mkdir, Rmdir, Write, Emit
    <2>3. CASE \E p, q \in Paths : Rename(p, q)
        BY <2>3 DEF Rename, Emit
    <2>4. CASE ReadChunk \/ Handle \/ AddWatch \/ Scan \/ Reconcile
        BY <2>4 DEF ReadChunk, Handle, AddWatch, Scan, Reconcile
    <2> QED BY <2>1, <2>2, <2>3, <2>4 DEF Next
<1>3. CASE AddRefused
    BY <1>3 DEF AddRefused
<1>4. CASE ~lost /\ ~crossed
    <2>1. Fits
        BY <1>4 DEF CovInv
    <2>2. CASE \E p \in Paths : Mkdir(p) \/ Rmdir(p) \/ Write(p)
        BY <1>1, <2>1, <2>2, MkdirFits, RmdirFits, WriteFits
    <2>3. CASE \E p, q \in Paths : Rename(p, q)
        BY <1>1, <2>1, <2>3, RenameFits
    <2>4. CASE ReadChunk
        BY <1>1, <2>1, <2>4, ReadChunkFits
    <2>5. CASE Handle
        BY <1>1, <2>1, <2>5, HandleFits
    <2>6. CASE AddWatch
        BY <1>1, <2>1, <2>6, AddWatchFits
    <2>7. CASE Scan
        BY <1>1, <2>1, <2>7, ScanFits
    <2>8. CASE Reconcile
        BY <1>1, <2>1, <2>8, ReconcileFits
    <2>9. CASE UNCHANGED vars
        BY <2>1, <2>9, StutterFits
    <2> QED BY <1>3, <2>2, <2>3, <2>4, <2>5, <2>6, <2>7, <2>8, <2>9 DEF Next
<1> QED BY <1>2, <1>3, <1>4

\* What the invariant means for a clean tracker.
LEMMA CleanIsWatched ==
    ASSUME CovInv
    PROVE  AllWatchedUnlessCrossed /\ MissedOnlyInGap
<1> SUFFICES ASSUME Settled, ~lost, ~crossed
             PROVE  (\A p \in Dirs : Watched(p)) /\ stale \subseteq gap
    BY DEF AllWatchedUnlessCrossed, AllWatched, MissedOnlyInGap
<1>1. Fits /\ CovTyped
    BY DEF CovInv
<1>2. /\ queue = <<>> /\ data = <<>> /\ todo = <<>> /\ batch = {} /\ ~unknown
    BY DEF Settled, Idle
<1>3. 1..Len(Pending) = {} /\ 1..Len(todo) = {}
    <2>1. Pending = <<>>
        BY <1>2 DEF Pending
    <2> QED BY <1>2, <2>1
<1>4. ASSUME NEW p \in Dirs PROVE Watched(p)
    <2>1. Kept(p)
        BY <1>1, <1>3 DEF Fits, Reached, Heard, Called
    <2> QED BY <1>1, <2>1 DEF Kept, Right, Watched, Fits, TablesFit
<1>5. ASSUME NEW p \in Dirs PROVE ~Noted(p)
    BY <1>2, <1>3 DEF Noted
<1>6. stale \subseteq gap
    BY <1>1, <1>5 DEF Fits, StaleNoted
<1> QED BY <1>4, <1>6

(* The inductive invariant, for every tree to start with, every depth and every    *)
(* bound on what happens.                                                          *)
THEOREM CoverageInvariant == CoverageAssumption => (Spec => []CovInv)
<1> SUFFICES ASSUME CoverageAssumption PROVE Spec => []CovInv OBVIOUS
<1>1. Init => CovInv
    BY InitTyped, InitFits DEF CovInv
<1>2. CovInv /\ [Next]_vars => CovInv'
    BY FitsKept
<1> QED BY <1>1, <1>2, PTL DEF Spec

(* The two maps of the watcher are inverse, the tree is one, and the rest has its  *)
(* types.                                                                          *)
THEOREM CoverageTypes == CoverageAssumption => (Spec => []TypeOK)
<1>1. CovInv => TypeOK
    BY TypesFollow DEF CovInv
<1> QED BY <1>1, CoverageInvariant, PTL

(* Without losses and without a rename to where the reader is still to come, a     *)
(* tracker that is clean has a watch on every directory, under its name, in        *)
(* whatever order the directories were made, moved and removed.                    *)
THEOREM EveryDirectoryIsWatched == CoverageAssumption => (Spec => []AllWatchedUnlessCrossed)
<1>1. CovInv => AllWatchedUnlessCrossed
    BY CleanIsWatched
<1> QED BY <1>1, CoverageInvariant, PTL

(* Then the only change that a clean tracker has not read is one that happened     *)
(* after a new directory was reconciled and before it was watched.                 *)
THEOREM NothingElseIsMissed == CoverageAssumption => (Spec => []MissedOnlyInGap)
<1>1. CovInv => MissedOnlyInGap
    BY CleanIsWatched
<1> QED BY <1>1, CoverageInvariant, PTL
===============================================================================
