-------------------------- MODULE ScribeLogProofs ---------------------------
(***************************************************************************)
(* The decision log loses no decision, for every number of processes, any  *)
(* threshold and cleave, and any number of failures and appends in a       *)
(* second that together stay below a cleave.                               *)
(***************************************************************************)
EXTENDS ScribeLog, FiniteSetTheorems, SequenceTheorems, WellFoundedInduction, TLAPS

-----------------------------------------------------------------------------
(***************************************************************************)
(* The invariant.                                                          *)
(***************************************************************************)

\* The lock is held.
Holding == {"header", "header_long", "abort", "append", "count", "archive",
            "trim", "unlock"}

\* The decision has not been written.
Unwritten == {"lock", "lock_long", "header", "header_long", "abort", "append"}

\* The decision has been written, and the number of decisions may be too large.
Uncounted == {"count", "archive", "trim"}

Block == [decision : Nat, time : Nat, heading : BOOLEAN, whole : BOOLEAN]

HeadingCount(s) == Cardinality(Headings(s))

\* The blocks s hold decision d whole, or some text of it.
Has(s, d) == \E i \in 1 .. Len(s) : s[i].whole /\ s[i].decision = d
Mentions(s, d) == \E i \in 1 .. Len(s) : s[i].decision = d

\* What an archive takes of the log, and what it leaves.
Cleft(s) == SubSeq(s, 1, CleaveOffset(s))
Remains(s) == SubSeq(s, 1, HeaderEnd(s)) \o SubSeq(s, CleaveOffset(s) + 1, Len(s))

ScribeTypeOK ==
    /\ blocks \in Seq(Block)
    /\ archives \in [0 .. MaxSecond -> Seq(Block)]
    /\ loglock \in Scribes \cup {Nobody}
    /\ at \in [Scribes -> Holding \cup Unwritten \cup {"idle", "publish"}]
    /\ decision \in [Scribes -> Nat]
    /\ content \in [Scribes -> Seq(Block)]
    /\ second \in 0 .. MaxSecond
    /\ rate \in 0 .. PerSecond
    /\ called \in Nat
    /\ logged \subseteq Nat
    /\ scribefaults \in 0 .. MaxScribeFaults

\* One process at a time is between the lock and the unlock, and what it read
\* for the archive is still what the log holds.
HolderInv ==
    \A w \in Scribes :
        /\ at[w] \in Holding => loglock = w
        /\ at[w] \in {"archive", "trim"} =>
              /\ content[w] = blocks
              /\ HeadingCount(blocks) > SCRIBE_ARCHIVE_THRESHOLD

\* Some text of decision d is in the log b or in one of the archives a.
InFiles(b, a, d) == Mentions(b, d) \/ \E x \in 0 .. MaxSecond : Mentions(a[x], d)

\* The number of a decision is new, and no two commands have the same.
FreshInv ==
    /\ \A w \in Scribes : decision[w] =< called
    /\ \A d : InFiles(blocks, archives, d) => d =< called
    /\ \A w \in Scribes : at[w] \in Unwritten =>
          decision[w] # 0 /\ ~ InFiles(blocks, archives, decision[w])
    /\ \A v, w \in Scribes : v # w /\ decision[v] = decision[w] => decision[w] = 0

\* More decisions than the threshold are in the log only as far as failures
\* have left them there.
CountInv ==
    /\ HeadingCount(blocks) =< SCRIBE_ARCHIVE_THRESHOLD + scribefaults + 1
    /\ (\A w \in Scribes : at[w] \notin Uncounted) =>
          HeadingCount(blocks) =< SCRIBE_ARCHIVE_THRESHOLD + scribefaults

\* The archive of this second may be replaced only while the log still has
\* what is in it: once the log has been trimmed, too few decisions are left
\* for another archive in this second.
SecondInv ==
    /\ \A x \in second + 1 .. MaxSecond : archives[x] = << >>
    /\ \/ \A d : Has(archives[second], d) => Has(blocks, d)
       \/ HeadingCount(blocks) + SCRIBE_ARCHIVE_CLEAVE =<
             SCRIBE_ARCHIVE_THRESHOLD + scribefaults + rate + 1

\* Every logged decision is in the log or in an archive, and the log is only
\* trimmed when what goes has been archived.
KeptInv ==
    /\ \A d \in logged : \/ Has(blocks, d)
                         \/ \E x \in 0 .. MaxSecond : Has(archives[x], d)
    /\ \A w \in Scribes : at[w] = "trim" =>
          \E x \in 0 .. second : archives[x] = Cleft(blocks)

SortInv ==
    /\ \A i \in 1 .. Len(blocks) : blocks[i].time =< second
    /\ \A i, j \in 1 .. Len(blocks) : i < j => blocks[i].time =< blocks[j].time

\* As long as nothing has failed, no block is torn, and no decision is twice in
\* the log, in two archives or, unless a trim is about to remove it from the
\* log, in the log and an archive.
SingleInv ==
    scribefaults = 0 =>
        /\ \A i \in 1 .. Len(blocks) : blocks[i].heading /\ blocks[i].whole
        /\ \A i, j \in 1 .. Len(blocks) :
              blocks[i].decision = blocks[j].decision => i = j
        /\ \A x, y \in 0 .. MaxSecond : \A d :
              Has(archives[x], d) /\ Has(archives[y], d) => x = y
        /\ \A x \in 0 .. MaxSecond : \A d :
              Has(archives[x], d) /\ Has(blocks, d) =>
                 /\ \E w \in Scribes : at[w] = "trim"
                 /\ Has(Cleft(blocks), d)

\* The inductive invariant of the decision log.
ScribeInv ==
    /\ ScribeTypeOK
    /\ HolderInv
    /\ FreshInv
    /\ CountInv
    /\ SecondInv
    /\ KeptInv
    /\ SortInv
    /\ SingleInv

-----------------------------------------------------------------------------
(***************************************************************************)
(* Counting headings, and where an archive cuts the log.                   *)
(***************************************************************************)

LEMMA LeastNumber ==
    ASSUME NEW S \in SUBSET Nat, S # {}
    PROVE  \E m \in S : \A x \in S : m =< x
  <1>1. PICK m \in S : \A y \in S : <<y, m>> \notin OpToRel(<, Nat)
    BY NatLessThanWellFounded, WFMin
  <1>2. \A y \in S : ~(y < m)
    BY <1>1 DEF OpToRel
  <1> QED BY <1>2

LEMMA GreatestNumber ==
    ASSUME NEW n \in Nat, NEW S \in SUBSET (1 .. n), S # {}
    PROVE  \E m \in S : \A x \in S : x =< m
  <1> DEFINE U == {k \in Nat : \E x \in S : k = n - x}
  <1>1. U \in SUBSET Nat /\ \A x \in S : n - x \in U
    OBVIOUS
  <1>2. PICK u \in U : \A y \in U : u =< y
    <2>1. U # {}
      BY <1>1
    <2> HIDE DEF U
    <2> QED BY <1>1, <2>1, LeastNumber
  <1>3. PICK m \in S : u = n - m
    BY <1>2
  <1>4. \A x \in S : n - m =< n - x
    BY <1>1, <1>2, <1>3
  <1> QED BY <1>3, <1>4

\* The headings before place i.
Before(s, i) == {j \in Headings(s) : j < i}

LEMMA HeadingsFinite ==
    ASSUME NEW s \in Seq(Block)
    PROVE  /\ Headings(s) \subseteq 1 .. Len(s)
           /\ IsFiniteSet(Headings(s)) /\ HeadingCount(s) \in Nat
           /\ \A i : /\ Before(s, i) \subseteq 1 .. Len(s)
                     /\ IsFiniteSet(Before(s, i))
                     /\ Cardinality(Before(s, i)) \in Nat
  <1>1. IsFiniteSet(1 .. Len(s))
    BY FS_Interval
  <1>2. Headings(s) \subseteq 1 .. Len(s)
    BY DEF Headings
  <1>3. \A i : Before(s, i) \subseteq 1 .. Len(s)
    BY <1>2 DEF Before
  <1>4. IsFiniteSet(Headings(s))
    BY <1>1, <1>2, FS_Subset
  <1>5. \A i : IsFiniteSet(Before(s, i))
    BY <1>1, <1>3, FS_Subset
  <1> QED BY <1>2, <1>3, <1>4, <1>5, FS_CardinalityType DEF HeadingCount

\* Of two neighbouring headings the later one has one heading more before it.
LEMMA BeforeNext ==
    ASSUME NEW s \in Seq(Block), NEW i \in Nat, NEW p \in Before(s, i),
           \A j \in Before(s, i) : j =< p
    PROVE  Cardinality(Before(s, i)) = Cardinality(Before(s, p)) + 1
  <1>1. Before(s, i) = Before(s, p) \cup {p} /\ p \notin Before(s, p)
    BY HeadingsFinite DEF Before
  <1> QED BY <1>1, HeadingsFinite, FS_AddElement

\* A log with more headings than the threshold has a heading after the cleave.
LEMMA CleaveExists ==
    ASSUME NEW s \in Seq(Block), HeadingCount(s) > SCRIBE_ARCHIVE_THRESHOLD
    PROVE  \E i \in Headings(s) : Cardinality(Before(s, i)) = SCRIBE_ARCHIVE_CLEAVE
  <1> DEFINE late == {i \in Headings(s) :
                        Cardinality(Before(s, i)) >= SCRIBE_ARCHIVE_CLEAVE}
  <1> USE ScribeAssumption
  <1>1. late # {}
    <2>1. HeadingCount(s) # 0
      BY HeadingsFinite
    <2>2. Headings(s) # {}
      BY <2>1, FS_EmptySet DEF HeadingCount
    <2>3. PICK m \in Headings(s) : \A x \in Headings(s) : x =< m
      <3>1. Headings(s) \in SUBSET (1 .. Len(s)) /\ Len(s) \in Nat
        BY HeadingsFinite, LenProperties
      <3> QED BY <2>2, <3>1, GreatestNumber
    <2>4. Headings(s) = Before(s, m) \cup {m} /\ m \notin Before(s, m)
      BY <2>3, HeadingsFinite DEF Before
    <2>5. HeadingCount(s) = Cardinality(Before(s, m)) + 1
      BY <2>4, HeadingsFinite, FS_AddElement DEF HeadingCount
    <2> QED BY <2>5, HeadingsFinite
  <1>2. PICK i \in late : \A x \in late : i =< x
    <2>1. late \in SUBSET Nat
      BY HeadingsFinite
    <2> HIDE DEF late
    <2> QED BY <1>1, <2>1, LeastNumber
  <1>3. Before(s, i) # {}
    <2>1. Cardinality(Before(s, i)) # 0
      BY <1>2, HeadingsFinite
    <2> QED BY <2>1, FS_EmptySet
  <1>4. PICK p \in Before(s, i) : \A j \in Before(s, i) : j =< p
    <2>1. Before(s, i) \in SUBSET (1 .. Len(s)) /\ Len(s) \in Nat
      BY HeadingsFinite, LenProperties
    <2> QED BY <1>3, <2>1, GreatestNumber
  <1>5. i \in Nat /\ Cardinality(Before(s, i)) = Cardinality(Before(s, p)) + 1
    BY <1>2, <1>4, HeadingsFinite, BeforeNext
  <1>6. p \in Headings(s) /\ p < i /\ p \in Nat
    BY <1>4, HeadingsFinite DEF Before
  <1>7. p \notin late
    BY <1>2, <1>5, <1>6
  <1> QED BY <1>2, <1>5, <1>6, <1>7, HeadingsFinite

\* Where the log is cut: after a cleave of headings, and the text before the
\* first heading is before the cut.
LEMMA CutPlaces ==
    ASSUME NEW s \in Seq(Block), HeadingCount(s) > SCRIBE_ARCHIVE_THRESHOLD
    PROVE  /\ CleaveOffset(s) \in 0 .. Len(s) - 1
           /\ HeaderEnd(s) \in 0 .. CleaveOffset(s)
           /\ \A j \in 1 .. HeaderEnd(s) : ~ s[j].heading
           /\ Cardinality(Before(s, CleaveOffset(s) + 1)) = SCRIBE_ARCHIVE_CLEAVE
  <1> USE ScribeAssumption
  <1>1. PICK i \in Headings(s) : /\ CleaveOffset(s) = i - 1
                                 /\ Cardinality(Before(s, i)) = SCRIBE_ARCHIVE_CLEAVE
    BY CleaveExists DEF CleaveOffset, Before
  <1>2. i \in 1 .. Len(s)
    BY <1>1, HeadingsFinite
  <1>3. PICK m \in Headings(s) : \A x \in Headings(s) : m =< x
    BY <1>1, HeadingsFinite, LeastNumber
  <1>4. m \in 1 .. Len(s)
    BY <1>3, HeadingsFinite
  <1>5. HeaderEnd(s) \in 0 .. Len(s) - 1 /\ HeaderEnd(s) + 1 \in Headings(s)
        /\ \A j \in 1 .. HeaderEnd(s) : j \notin Headings(s)
    <2>1. m - 1 \in 0 .. Len(s) - 1 /\ (m - 1) + 1 \in Headings(s)
          /\ \A j \in 1 .. m - 1 : j \notin Headings(s)
      BY <1>3, <1>4
    <2> QED BY <2>1 DEF HeaderEnd
  <1>6. Before(s, i) # {}
    BY <1>1, FS_EmptySet
  <1>7. PICK j \in Headings(s) : j < i
    BY <1>6 DEF Before
  <1>8. j \in 1 .. Len(s) /\ ~ (j =< HeaderEnd(s))
    BY <1>5, <1>7, HeadingsFinite
  <1>9. \A k \in 1 .. HeaderEnd(s) : ~ s[k].heading
    BY <1>2, <1>5 DEF Headings
  <1>10. CleaveOffset(s) + 1 = i
    BY <1>1, <1>2
  <1> QED BY <1>1, <1>2, <1>5, <1>7, <1>8, <1>9, <1>10

LEMMA SeqElements ==
    ASSUME NEW s \in Seq(Block)
    PROVE  /\ Len(s) \in Nat
           /\ \A i \in 1 .. Len(s) : s[i] \in Block
  BY LenProperties, ElementOfSeq

LEMMA CleftElements ==
    ASSUME NEW s \in Seq(Block), HeadingCount(s) > SCRIBE_ARCHIVE_THRESHOLD
    PROVE  /\ Cleft(s) \in Seq(Block)
           /\ Len(Cleft(s)) = CleaveOffset(s)
           /\ \A i \in 1 .. CleaveOffset(s) : i \in 1 .. Len(s) /\ Cleft(s)[i] = s[i]
  <1> DEFINE c == CleaveOffset(s)
  <1>1. c \in 0 .. Len(s) - 1 /\ Len(s) \in Nat
    BY CutPlaces, SeqElements
  <1> HIDE DEF c
  <1>2. /\ SubSeq(s, 1, c) \in Seq(Block)
        /\ Len(SubSeq(s, 1, c)) = c
        /\ \A i \in 1 .. c : SubSeq(s, 1, c)[i] = s[i]
    BY <1>1, SubSeqProperties
  <1>3. \A i \in 1 .. c : i \in 1 .. Len(s)
    BY <1>1
  <1> QED BY <1>2, <1>3 DEF Cleft, c

LEMMA RemainsElements ==
    ASSUME NEW s \in Seq(Block), HeadingCount(s) > SCRIBE_ARCHIVE_THRESHOLD
    PROVE  /\ Remains(s) \in Seq(Block)
           /\ Len(Remains(s)) = HeaderEnd(s) + Len(s) - CleaveOffset(s)
           /\ \A i \in 1 .. HeaderEnd(s) : Remains(s)[i] = s[i]
           /\ \A i \in HeaderEnd(s) + 1 .. Len(Remains(s)) :
                 /\ i - HeaderEnd(s) + CleaveOffset(s) \in 1 .. Len(s)
                 /\ Remains(s)[i] = s[i - HeaderEnd(s) + CleaveOffset(s)]
  <1> DEFINE c == CleaveOffset(s)  h == HeaderEnd(s)
             a == SubSeq(s, 1, h)  b == SubSeq(s, c + 1, Len(s))
  <1>1. c \in 0 .. Len(s) - 1 /\ Len(s) \in Nat /\ h \in 0 .. c
    BY CutPlaces, SeqElements
  <1> HIDE DEF c, h
  <1>2. /\ a \in Seq(Block) /\ Len(a) = h
        /\ \A i \in 1 .. h : a[i] = s[i]
    BY <1>1, SubSeqProperties
  <1>3. /\ b \in Seq(Block) /\ Len(b) = Len(s) - c
        /\ \A i \in 1 .. Len(s) - c : b[i] = s[c + i]
    <2>1. /\ b \in Seq(Block)
          /\ Len(b) = Len(s) - (c + 1) + 1
          /\ \A i \in 1 .. Len(s) - (c + 1) + 1 : b[i] = s[(c + 1) + i - 1]
      BY <1>1, SubSeqProperties
    <2>2. Len(s) - (c + 1) + 1 = Len(s) - c
      BY <1>1
    <2>3. ASSUME NEW i \in 1 .. Len(s) - c PROVE b[i] = s[c + i]
      <3>1. b[i] = s[(c + 1) + i - 1]
        BY <2>1, <2>2
      <3>2. (c + 1) + i - 1 = c + i
        BY <1>1
      <3> QED BY <3>1, <3>2
    <2> QED BY <2>1, <2>2, <2>3
  <1> HIDE DEF a, b
  <1>4. /\ a \o b \in Seq(Block) /\ Len(a \o b) = h + Len(s) - c
        /\ \A i \in 1 .. h + Len(s) - c :
              (a \o b)[i] = IF i =< h THEN a[i] ELSE b[i - h]
    <2>1. /\ a \o b \in Seq(Block) /\ Len(a \o b) = Len(a) + Len(b)
          /\ \A i \in 1 .. Len(a) + Len(b) :
                (a \o b)[i] = IF i =< Len(a) THEN a[i] ELSE b[i - Len(a)]
      BY <1>2, <1>3, ConcatProperties
    <2>2. Len(a) = h /\ Len(a) + Len(b) = h + Len(s) - c
      BY <1>1, <1>2, <1>3
    <2> QED BY <2>1, <2>2
  <1>5. \A i \in 1 .. h : (a \o b)[i] = s[i]
    BY <1>1, <1>2, <1>4
  <1>6. ASSUME NEW i \in h + 1 .. h + Len(s) - c
        PROVE  i - h + c \in 1 .. Len(s) /\ (a \o b)[i] = s[i - h + c]
    <2>1. i - h \in 1 .. Len(s) - c /\ c + (i - h) = i - h + c /\ ~ (i =< h)
      BY <1>1
    <2>2. i \in 1 .. h + Len(s) - c /\ i - h + c \in 1 .. Len(s)
      BY <1>1
    <2>3. (a \o b)[i] = b[i - h]
      BY <1>4, <2>1, <2>2
    <2>4. b[i - h] = s[c + (i - h)]
      BY <1>3, <2>1
    <2> QED BY <2>1, <2>2, <2>3, <2>4
  <1>7. Remains(s) = a \o b
    BY DEF Remains, a, b, c, h
  <1> QED BY <1>4, <1>5, <1>6, <1>7 DEF c, h

\* An archive removes a cleave of headings from the log.
LEMMA RemainsCount ==
    ASSUME NEW s \in Seq(Block), HeadingCount(s) > SCRIBE_ARCHIVE_THRESHOLD
    PROVE  HeadingCount(Remains(s)) + SCRIBE_ARCHIVE_CLEAVE =< HeadingCount(s)
  <1> DEFINE c == CleaveOffset(s)  h == HeaderEnd(s)  r == Remains(s)
             after == {j \in Headings(s) : j > c}
             f == [i \in Headings(r) |-> i - h + c]
  <1>1. /\ c \in 0 .. Len(s) - 1 /\ Len(s) \in Nat /\ h \in 0 .. c
        /\ \A j \in 1 .. h : ~ s[j].heading
        /\ Cardinality(Before(s, c + 1)) = SCRIBE_ARCHIVE_CLEAVE
    BY CutPlaces, SeqElements
  <1>2. /\ r \in Seq(Block) /\ Len(r) = h + Len(s) - c
        /\ \A i \in 1 .. h : r[i] = s[i]
        /\ \A i \in h + 1 .. Len(r) :
              i - h + c \in 1 .. Len(s) /\ r[i] = s[i - h + c]
    BY RemainsElements
  <1> HIDE DEF c, h, r
  <1>3. /\ Headings(s) = Before(s, c + 1) \cup after
        /\ Before(s, c + 1) \cap after = {}
    BY <1>1, HeadingsFinite DEF Before
  <1>4. IsFiniteSet(after) /\ Cardinality(after) \in Nat
    <2>1. after \subseteq Headings(s)
      OBVIOUS
    <2> QED BY <2>1, HeadingsFinite, FS_Subset, FS_CardinalityType
  <1>5. HeadingCount(s) = SCRIBE_ARCHIVE_CLEAVE + Cardinality(after)
    <2>1. HeadingCount(s) = Cardinality(Before(s, c + 1)) + Cardinality(after)
                              - Cardinality(Before(s, c + 1) \cap after)
      BY <1>3, <1>4, HeadingsFinite, FS_Union DEF HeadingCount
    <2>2. Cardinality(Before(s, c + 1) \cap after) = 0
      BY <1>3, FS_EmptySet
    <2> QED BY <1>1, <1>4, <2>1, <2>2, ScribeAssumption
  <1>6. f \in Injection(Headings(r), after)
    <2>1. ASSUME NEW i \in Headings(r) PROVE i \in Int /\ i - h + c \in after
      <3>1. i \in 1 .. Len(r) /\ r[i].heading
        BY DEF Headings
      <3>2. i > h /\ i \in Int
        BY <1>1, <1>2, <3>1
      <3>3. i - h + c \in 1 .. Len(s) /\ s[i - h + c].heading
        BY <1>1, <1>2, <3>1, <3>2
      <3>4. i - h + c > c
        BY <1>1, <3>2
      <3> QED BY <3>2, <3>3, <3>4 DEF Headings
    <2>2. f \in [Headings(r) -> after]
      BY <2>1
    <2>3. \A i, j \in Headings(r) : i - h + c = j - h + c => i = j
      BY <1>1, <2>1
    <2> QED BY <2>2, <2>3 DEF Injection, IsInjective
  <1>7. HeadingCount(r) =< Cardinality(after)
    <2> HIDE DEF f
    <2> QED BY <1>4, <1>6, FS_Injection DEF HeadingCount
  <1>8. HeadingCount(r) \in Nat
    BY <1>2, HeadingsFinite
  <1> QED BY <1>4, <1>5, <1>7, <1>8, ScribeAssumption DEF r

LEMMA AppendElements ==
    ASSUME NEW s \in Seq(Block), NEW b \in Block
    PROVE  /\ Append(s, b) \in Seq(Block)
           /\ Len(Append(s, b)) = Len(s) + 1
           /\ \A i \in 1 .. Len(s) : Append(s, b)[i] = s[i]
           /\ Append(s, b)[Len(s) + 1] = b
           /\ HeadingCount(Append(s, b)) =< HeadingCount(s) + 1
  <1> DEFINE t == Append(s, b)
  <1>1. /\ t \in Seq(Block) /\ Len(t) = Len(s) + 1 /\ Len(s) \in Nat
        /\ \A i \in 1 .. Len(s) : t[i] = s[i]
        /\ t[Len(s) + 1] = b
    BY AppendProperties
  <1> HIDE DEF t
  <1>2. Headings(t) \subseteq Headings(s) \cup {Len(s) + 1}
    <2>1. ASSUME NEW i \in 1 .. Len(t), t[i].heading, i # Len(s) + 1
          PROVE  i \in 1 .. Len(s) /\ s[i].heading
      BY <1>1, <2>1
    <2> QED BY <2>1 DEF Headings
  <1>3. /\ IsFiniteSet(Headings(s) \cup {Len(s) + 1})
        /\ Cardinality(Headings(s) \cup {Len(s) + 1}) =< HeadingCount(s) + 1
    <2>1. /\ IsFiniteSet(Headings(s) \cup {Len(s) + 1})
          /\ Cardinality(Headings(s) \cup {Len(s) + 1}) =
                IF Len(s) + 1 \in Headings(s) THEN HeadingCount(s)
                                             ELSE HeadingCount(s) + 1
      BY HeadingsFinite, FS_AddElement, Zenon DEF HeadingCount
    <2>2. HeadingCount(s) \in Nat
      BY HeadingsFinite
    <2> QED BY <2>1, <2>2
  <1>4. HeadingCount(t) =< Cardinality(Headings(s) \cup {Len(s) + 1})
    BY <1>2, <1>3, FS_Subset DEF HeadingCount
  <1>5. HeadingCount(t) \in Nat /\ HeadingCount(s) \in Nat
        /\ Cardinality(Headings(s) \cup {Len(s) + 1}) \in Nat
    BY <1>1, <1>3, HeadingsFinite, FS_CardinalityType
  <1> QED BY <1>1, <1>3, <1>4, <1>5 DEF t

-----------------------------------------------------------------------------
(***************************************************************************)
(* Which decisions the pieces of a log hold.                               *)
(***************************************************************************)

LEMMA CleftHas ==
    ASSUME NEW s \in Seq(Block), HeadingCount(s) > SCRIBE_ARCHIVE_THRESHOLD
    PROVE  \A d : /\ Has(Cleft(s), d) => Has(s, d)
                  /\ Mentions(Cleft(s), d) => Mentions(s, d)
  BY CleftElements DEF Has, Mentions

LEMMA RemainsHas ==
    ASSUME NEW s \in Seq(Block), HeadingCount(s) > SCRIBE_ARCHIVE_THRESHOLD
    PROVE  \A d : /\ Mentions(Remains(s), d) => Mentions(s, d)
                  /\ Has(Remains(s), d) => Has(s, d)
                  /\ Has(s, d) => Has(Cleft(s), d) \/ Has(Remains(s), d)
  <1> DEFINE c == CleaveOffset(s)  h == HeaderEnd(s)  r == Remains(s)
  <1>1. /\ c \in 0 .. Len(s) - 1 /\ Len(s) \in Nat /\ h \in 0 .. c
    BY CutPlaces, SeqElements
  <1>2. /\ Len(r) = h + Len(s) - c
        /\ \A i \in 1 .. h : r[i] = s[i]
        /\ \A i \in h + 1 .. Len(r) :
              i - h + c \in 1 .. Len(s) /\ r[i] = s[i - h + c]
    BY RemainsElements
  <1>3. /\ Len(Cleft(s)) = c
        /\ \A i \in 1 .. c : Cleft(s)[i] = s[i]
    BY CleftElements
  <1> HIDE DEF c, h, r
  <1>4. ASSUME NEW i \in 1 .. Len(r) PROVE \E k \in 1 .. Len(s) : r[i] = s[k]
    <2>1. CASE i =< h
      BY <1>1, <1>2, <2>1
    <2>2. CASE ~ (i =< h)
      <3>1. i \in h + 1 .. Len(r)
        BY <1>1, <1>2, <2>2
      <3> QED BY <1>2, <3>1
    <2> QED BY <2>1, <2>2
  <1>5. ASSUME NEW k \in 1 .. Len(s), ~ (k =< c)
        PROVE  \E i \in 1 .. Len(r) : r[i] = s[k]
    <2>1. k - c + h \in h + 1 .. Len(r) /\ k - c + h \in 1 .. Len(r)
      BY <1>1, <1>2, <1>5
    <2>2. (k - c + h) - h + c = k
      BY <1>1
    <2> QED BY <1>2, <2>1, <2>2
  <1>6. ASSUME NEW k \in 1 .. Len(s), k =< c
        PROVE  k \in 1 .. Len(Cleft(s)) /\ Cleft(s)[k] = s[k]
    BY <1>1, <1>3, <1>6
  <1>7. \A d : Mentions(r, d) => Mentions(s, d)
    BY <1>4 DEF Mentions
  <1>8. \A d : Has(r, d) => Has(s, d)
    BY <1>4 DEF Has
  <1>9. \A d : Has(s, d) => Has(Cleft(s), d) \/ Has(r, d)
    BY <1>5, <1>6 DEF Has
  <1> QED BY <1>7, <1>8, <1>9 DEF r

LEMMA AppendHas ==
    ASSUME NEW s \in Seq(Block), NEW b \in Block
    PROVE  \A d : /\ Has(Append(s, b), d) <=> Has(s, d) \/ (b.whole /\ b.decision = d)
                  /\ Mentions(Append(s, b), d) <=> Mentions(s, d) \/ b.decision = d
  <1> DEFINE t == Append(s, b)
  <1>1. /\ Len(s) \in Nat /\ Len(t) = Len(s) + 1
        /\ \A i \in 1 .. Len(s) : t[i] = s[i]
        /\ t[Len(s) + 1] = b
    BY AppendElements, SeqElements
  <1> HIDE DEF t
  <1>2. \A i : i \in 1 .. Len(t) <=> i \in 1 .. Len(s) \/ i = Len(s) + 1
    BY <1>1
  <1>3. \A d : Has(t, d) <=> Has(s, d) \/ (b.whole /\ b.decision = d)
    BY <1>1, <1>2, Zenon DEF Has
  <1>4. \A d : Mentions(t, d) <=> Mentions(s, d) \/ b.decision = d
    BY <1>1, <1>2, Zenon DEF Mentions
  <1> QED BY <1>3, <1>4 DEF t

LEMMA InFilesType ==
    ASSUME ScribeTypeOK
    PROVE  \A d : InFiles(blocks, archives, d) => d \in Nat
  <1>1. ASSUME NEW s \in Seq(Block), NEW d, Mentions(s, d) PROVE d \in Nat
    BY <1>1, SeqElements DEF Mentions, Block
  <1> QED BY <1>1 DEF InFiles, ScribeTypeOK

-----------------------------------------------------------------------------
(***************************************************************************)
(* What keeps the parts of the invariant.                                  *)
(***************************************************************************)

\* A step of process w leaves what the other processes know as it was.
OnlyBy(w) ==
    \A v \in Scribes \ {w} : at'[v] = at[v] /\ content'[v] = content[v]
                             /\ decision'[v] = decision[v]

\* The lock changes hands from or to w.
LockBy(w) ==
    /\ loglock' = loglock \/ loglock = Nobody \/ loglock = w
    /\ at'[w] \in Holding => loglock' = w
    /\ loglock = Nobody => loglock' \in {w, Nobody}

LEMMA HolderKeeps ==
    ASSUME HolderInv, NEW w \in Scribes, OnlyBy(w), LockBy(w),
           blocks' # blocks => at[w] \in Holding,
           at'[w] \in {"archive", "trim"} =>
               content'[w] = blocks' /\ HeadingCount(blocks') > SCRIBE_ARCHIVE_THRESHOLD
    PROVE  HolderInv'
  <1> SUFFICES ASSUME NEW v \in Scribes
               PROVE  /\ at'[v] \in Holding => loglock' = v
                      /\ at'[v] \in {"archive", "trim"} =>
                            /\ content'[v] = blocks'
                            /\ HeadingCount(blocks') > SCRIBE_ARCHIVE_THRESHOLD
    BY DEF HolderInv
  <1>1. CASE v = w
    BY <1>1 DEF LockBy
  <1>2. CASE v # w
    <2>1. at'[v] = at[v] /\ content'[v] = content[v]
      BY <1>2 DEF OnlyBy
    <2>2. at[v] \in Holding => loglock = v /\ loglock' = v
      BY <1>2, ScribeAssumption DEF HolderInv, LockBy
    <2>3. at[v] \in {"archive", "trim"} => blocks' = blocks
      BY <1>2, <2>2 DEF HolderInv, Holding
    <2> QED BY <2>1, <2>2, <2>3 DEF HolderInv
  <1> QED BY <1>1, <1>2

LEMMA FreshKeeps ==
    ASSUME FreshInv, NEW w \in Scribes, OnlyBy(w), called' = called,
           decision'[w] \in {decision[w], 0}, called \in Nat,
           at'[w] \in Unwritten => at[w] \in Unwritten /\ decision'[w] = decision[w],
           \A d : InFiles(blocks', archives', d) =>
                     \/ InFiles(blocks, archives, d)
                     \/ d = decision[w] /\ d # 0 /\ at'[w] \notin Unwritten
    PROVE  FreshInv'
  <1>1. \A v \in Scribes : decision'[v] \in {decision[v], 0}
    BY DEF OnlyBy
  <1>2. \A v \in Scribes : decision'[v] =< called'
    BY <1>1 DEF FreshInv
  <1>3. \A d : InFiles(blocks', archives', d) => d =< called'
    BY DEF FreshInv
  <1>4. ASSUME NEW v \in Scribes, at'[v] \in Unwritten
        PROVE  decision'[v] # 0 /\ ~ InFiles(blocks', archives', decision'[v])
    <2>1. at[v] \in Unwritten /\ decision'[v] = decision[v]
      BY <1>4 DEF OnlyBy
    <2>2. decision[v] # 0 /\ ~ InFiles(blocks, archives, decision[v])
      BY <2>1 DEF FreshInv
    <2>3. v # w => decision[v] # decision[w] \/ decision[w] = 0
      BY DEF FreshInv
    <2> QED BY <1>4, <2>1, <2>2, <2>3
  <1>5. \A u, v \in Scribes : u # v /\ decision'[u] = decision'[v] => decision'[v] = 0
    <2>1. \A u, v \in Scribes : u # v /\ decision[u] = decision[v] => decision[v] = 0
      BY DEF FreshInv
    <2> QED BY <1>1, <2>1
  <1> QED BY <1>2, <1>3, <1>4, <1>5 DEF FreshInv

-----------------------------------------------------------------------------
(***************************************************************************)
(* Steps that leave the log and the archives alone.                        *)
(***************************************************************************)

\* A step of process w that writes no decision.
Quiet(w) ==
    /\ OnlyBy(w) /\ LockBy(w)
    /\ UNCHANGED <<blocks, archives, second, rate, logged, called>>
    /\ scribefaults' \in {scribefaults, scribefaults + 1}
    /\ decision'[w] \in {decision[w], 0}
    /\ at'[w] \in Unwritten => at[w] \in Unwritten /\ decision'[w] = decision[w]
    /\ at'[w] # "trim"
    /\ at'[w] = "archive" =>
          content'[w] = blocks /\ HeadingCount(blocks) > SCRIBE_ARCHIVE_THRESHOLD
    /\ at[w] = "trim" => scribefaults' # scribefaults
    /\ at[w] \in Uncounted => \/ at'[w] \in Uncounted
                              \/ scribefaults' # scribefaults
                              \/ HeadingCount(blocks) =< SCRIBE_ARCHIVE_THRESHOLD

LEMMA QuietStep ==
    ASSUME ScribeInv, ScribeTypeOK', NEW w \in Scribes, Quiet(w)
    PROVE  ScribeInv'
  <1> USE ScribeAssumption
  <1>1. /\ blocks' = blocks /\ archives' = archives /\ second' = second
        /\ rate' = rate /\ logged' = logged /\ called' = called
        /\ scribefaults' \in {scribefaults, scribefaults + 1}
        /\ OnlyBy(w) /\ LockBy(w)
    BY DEF Quiet
  <1>2. HolderInv'
    <2>1. at'[w] \in {"archive", "trim"} =>
             content'[w] = blocks' /\ HeadingCount(blocks') > SCRIBE_ARCHIVE_THRESHOLD
      BY <1>1 DEF Quiet
    <2>2. HolderInv
      BY DEF ScribeInv
    <2> QED BY <1>1, <2>1, <2>2, HolderKeeps
  <1>3. FreshInv'
    <2>1. /\ decision'[w] \in {decision[w], 0}
          /\ at'[w] \in Unwritten => at[w] \in Unwritten /\ decision'[w] = decision[w]
      BY DEF Quiet
    <2>2. FreshInv /\ called \in Nat
      BY DEF ScribeInv, ScribeTypeOK
    <2> QED BY <1>1, <2>1, <2>2, FreshKeeps
  <1>4. HeadingCount(blocks) \in Nat /\ scribefaults \in Nat /\ rate \in Nat
    BY HeadingsFinite DEF ScribeInv, ScribeTypeOK
  <1>5. CountInv'
    <2>1. HeadingCount(blocks) =< SCRIBE_ARCHIVE_THRESHOLD + scribefaults + 1
      BY DEF ScribeInv, CountInv
    <2>2. CASE scribefaults' = scribefaults + 1
      BY <1>1, <1>4, <2>1, <2>2 DEF CountInv
    <2>3. CASE scribefaults' = scribefaults
      <3>1. ASSUME \A v \in Scribes : at'[v] \notin Uncounted
            PROVE  HeadingCount(blocks) =< SCRIBE_ARCHIVE_THRESHOLD + scribefaults
        <4>1. CASE at[w] \in Uncounted
          <5>1. HeadingCount(blocks) =< SCRIBE_ARCHIVE_THRESHOLD
            BY <2>3, <3>1, <4>1 DEF Quiet
          <5> QED BY <1>4, <5>1
        <4>2. CASE at[w] \notin Uncounted
          <5>1. \A v \in Scribes : at[v] \notin Uncounted
            BY <1>1, <3>1, <4>2 DEF OnlyBy
          <5> QED BY <5>1 DEF ScribeInv, CountInv
        <4> QED BY <4>1, <4>2
      <3> QED BY <1>1, <2>1, <2>3, <3>1 DEF CountInv
    <2> QED BY <1>1, <2>2, <2>3
  <1>6. SecondInv'
    <2>1. SecondInv
      BY DEF ScribeInv
    <2>2. CASE \A d : Has(archives[second], d) => Has(blocks, d)
      BY <1>1, <2>1, <2>2 DEF SecondInv
    <2>3. CASE HeadingCount(blocks) + SCRIBE_ARCHIVE_CLEAVE =<
                  SCRIBE_ARCHIVE_THRESHOLD + scribefaults + rate + 1
      <3>1. scribefaults' \in Nat /\ scribefaults =< scribefaults'
        BY <1>1, <1>4
      <3>2. HeadingCount(blocks) + SCRIBE_ARCHIVE_CLEAVE =<
               SCRIBE_ARCHIVE_THRESHOLD + scribefaults' + rate + 1
        BY <1>4, <2>3, <3>1
      <3> QED BY <1>1, <2>1, <3>2 DEF SecondInv
    <2> QED BY <2>1, <2>2, <2>3 DEF SecondInv
  <1>7. KeptInv'
    <2>1. KeptInv
      BY DEF ScribeInv
    <2>2. \A v \in Scribes : at'[v] = "trim" => at[v] = "trim"
      BY <1>1 DEF Quiet, OnlyBy
    <2> QED BY <1>1, <2>1, <2>2 DEF KeptInv
  <1>8. SortInv'
    BY <1>1 DEF ScribeInv, SortInv
  <1>9. SingleInv'
    <2>1. SingleInv
      BY DEF ScribeInv
    <2>2. CASE scribefaults' # 0
      BY <2>2 DEF SingleInv
    <2>3. CASE scribefaults' = 0
      <3>1. scribefaults = 0
        BY <1>1, <1>4, <2>3
      <3>2. \A v \in Scribes : at[v] = "trim" => at'[v] = "trim"
        BY <1>1, <2>3, <3>1 DEF Quiet, OnlyBy
      <3> QED BY <1>1, <2>1, <3>1, <3>2 DEF SingleInv
    <2> QED BY <2>2, <2>3
  <1> QED BY <1>2, <1>3, <1>5, <1>6, <1>7, <1>8, <1>9 DEF ScribeInv

\* The fields of a function that a step changes at w.
LEMMA LeaveChanges ==
    ASSUME ScribeTypeOK, NEW w \in Scribes, ScribeEnds(w)
    PROVE  /\ at' \in [Scribes -> Holding \cup Unwritten \cup {"idle", "publish"}]
           /\ decision' \in [Scribes -> Nat] /\ content' \in [Scribes -> Seq(Block)]
           /\ loglock' \in Scribes \cup {Nobody}
           /\ at'[w] = "idle" /\ decision'[w] = 0
           /\ OnlyBy(w) /\ LockBy(w)
  <1>1. << >> \in Seq(Block)
    OBVIOUS
  <1> QED BY <1>1 DEF ScribeEnds, To, ScribeTypeOK, OnlyBy, LockBy, Holding

LEMMA ToChanges ==
    ASSUME ScribeTypeOK, NEW w \in Scribes,
           NEW point \in Holding \cup Unwritten \cup {"idle", "publish"}, To(w, point)
    PROVE  /\ at' \in [Scribes -> Holding \cup Unwritten \cup {"idle", "publish"}]
           /\ at'[w] = point
           /\ \A v \in Scribes \ {w} : at'[v] = at[v]
  BY DEF To, ScribeTypeOK

LEMMA FaultType ==
    ASSUME ScribeTypeOK, ScribeFault
    PROVE  /\ scribefaults' = scribefaults + 1 /\ scribefaults' # scribefaults
           /\ scribefaults' \in 0 .. MaxScribeFaults /\ scribefaults' # 0
  BY ScribeAssumption DEF ScribeFault, ScribeTypeOK

\* The end of a command, with or without a failure.
LEMMA LeaveStep ==
    ASSUME ScribeInv, NEW w \in Scribes, ScribeEnds(w),
           UNCHANGED <<blocks, archives, clock, logged, called>>,
           ScribeFault \/ (UNCHANGED scribefaults /\ at[w] \notin Uncounted)
    PROVE  ScribeInv'
  <1>1. ScribeTypeOK
    BY DEF ScribeInv
  <1>2. /\ UNCHANGED <<blocks, archives, second, rate, logged, called>>
        /\ scribefaults' \in 0 .. MaxScribeFaults
        /\ scribefaults' \in {scribefaults, scribefaults + 1}
        /\ at[w] \in Uncounted => scribefaults' # scribefaults
    BY <1>1, FaultType DEF clock, ScribeTypeOK
  <1>3. ScribeTypeOK'
    BY <1>1, <1>2, LeaveChanges DEF ScribeTypeOK
  <1>4. Quiet(w)
    BY <1>1, <1>2, LeaveChanges DEF Quiet, Unwritten, Uncounted
  <1> QED BY <1>3, <1>4, QuietStep

LEMMA LockAcquireStep ==
    ASSUME ScribeInv, NEW w \in Scribes, lock_acquire(w)
    PROVE  ScribeInv'
  <1>1. ScribeTypeOK
    BY DEF ScribeInv
  <1>2. PICK point \in {"header", "header_long"} :
           at[w] \in {"lock", "lock_long"} /\ To(w, point)
    BY DEF lock_acquire, From
  <1>3. /\ UNCHANGED <<blocks, archives, second, rate, logged, called, decision,
                       content, scribefaults>>
        /\ loglock = Nobody /\ loglock' = w
    BY DEF lock_acquire, disk, clock
  <1>4. /\ at' \in [Scribes -> Holding \cup Unwritten \cup {"idle", "publish"}]
        /\ at'[w] = point /\ \A v \in Scribes \ {w} : at'[v] = at[v]
    <2>1. point \in Holding
      BY <1>2 DEF Holding
    <2> QED BY <1>1, <1>2, <2>1, ToChanges
  <1>5. ScribeTypeOK'
    BY <1>1, <1>3, <1>4 DEF ScribeTypeOK
  <1>6. Quiet(w)
    BY <1>2, <1>3, <1>4 DEF Quiet, OnlyBy, LockBy, Unwritten, Uncounted
  <1> QED BY <1>5, <1>6, QuietStep

LEMMA HeaderStep ==
    ASSUME ScribeInv, NEW w \in Scribes, write_log_header(w)
    PROVE  ScribeInv'
  <1>1. ScribeTypeOK
    BY DEF ScribeInv
  <1>2. PICK point \in {"append", "abort"} :
           at[w] \in {"header", "header_long"} /\ To(w, point)
    BY DEF write_log_header, From
  <1>3. /\ UNCHANGED <<blocks, archives, second, rate, logged, called, decision,
                       content, scribefaults, loglock>>
        /\ loglock = w
    BY <1>2 DEF write_log_header, clock, ScribeInv, HolderInv, Holding
  <1>4. /\ at' \in [Scribes -> Holding \cup Unwritten \cup {"idle", "publish"}]
        /\ at'[w] = point /\ \A v \in Scribes \ {w} : at'[v] = at[v]
    <2>1. point \in Holding
      BY <1>2 DEF Holding
    <2> QED BY <1>1, <1>2, <2>1, ToChanges
  <1>5. ScribeTypeOK'
    BY <1>1, <1>3, <1>4 DEF ScribeTypeOK
  <1>6. Quiet(w)
    BY <1>2, <1>3, <1>4, ScribeAssumption DEF Quiet, OnlyBy, LockBy, Unwritten, Uncounted
  <1> QED BY <1>5, <1>6, QuietStep

LEMMA CountStep ==
    ASSUME ScribeInv, NEW w \in Scribes, CountDecisions(w)
    PROVE  ScribeInv'
  <1>1. ScribeTypeOK
    BY DEF ScribeInv
  <1>2. /\ UNCHANGED <<blocks, archives, second, rate, logged, called, decision,
                       scribefaults, loglock>>
        /\ at[w] = "count" /\ loglock = w
    BY DEF CountDecisions, disk, clock, ScribeInv, HolderInv, Holding
  <1>3. PICK point \in {"archive", "unlock"} :
           /\ To(w, point)
           /\ content' \in {content, [content EXCEPT ![w] = blocks]}
           /\ IF point = "archive"
              THEN /\ content' = [content EXCEPT ![w] = blocks]
                   /\ HeadingCount(blocks) > SCRIBE_ARCHIVE_THRESHOLD
              ELSE ~ (HeadingCount(blocks) > SCRIBE_ARCHIVE_THRESHOLD)
    BY DEF CountDecisions, HeadingCount
  <1>4. /\ at' \in [Scribes -> Holding \cup Unwritten \cup {"idle", "publish"}]
        /\ at'[w] = point /\ \A v \in Scribes \ {w} : at'[v] = at[v]
    <2>1. point \in Holding
      BY <1>3 DEF Holding
    <2> QED BY <1>1, <1>3, <2>1, ToChanges
  <1>5. ScribeTypeOK'
    BY <1>1, <1>2, <1>3, <1>4 DEF ScribeTypeOK
  <1>6. OnlyBy(w) /\ LockBy(w)
    BY <1>1, <1>2, <1>3, <1>4, ScribeAssumption DEF OnlyBy, LockBy, ScribeTypeOK
  <1>7. HeadingCount(blocks) \in Nat
    BY <1>1, HeadingsFinite DEF ScribeTypeOK
  <1>8. at'[w] = "archive" =>
          content'[w] = blocks /\ HeadingCount(blocks) > SCRIBE_ARCHIVE_THRESHOLD
    BY <1>1, <1>3, <1>4 DEF ScribeTypeOK
  <1>9. \/ at'[w] \in Uncounted
        \/ HeadingCount(blocks) =< SCRIBE_ARCHIVE_THRESHOLD
    BY <1>3, <1>4, <1>7, ScribeAssumption DEF Uncounted
  <1>10. at'[w] \notin Unwritten /\ at'[w] # "trim"
    BY <1>3, <1>4 DEF Unwritten
  <1>11. Quiet(w)
    BY <1>2, <1>6, <1>8, <1>9, <1>10 DEF Quiet
  <1> QED BY <1>5, <1>11, QuietStep

LEMMA ArchiveFailsStep ==
    ASSUME ScribeInv, NEW w \in Scribes, ArchiveFails(w)
    PROVE  ScribeInv'
  <1>1. ScribeTypeOK
    BY DEF ScribeInv
  <1>2. at[w] \in {"archive", "trim"} /\ To(w, "unlock")
    BY DEF ArchiveFails, From
  <1>3. /\ UNCHANGED <<blocks, archives, second, rate, logged, called, decision,
                       content, loglock>>
        /\ ScribeFault /\ loglock = w
    BY <1>2 DEF ArchiveFails, disk, clock, ScribeInv, HolderInv, Holding
  <1>4. /\ at' \in [Scribes -> Holding \cup Unwritten \cup {"idle", "publish"}]
        /\ at'[w] = "unlock" /\ \A v \in Scribes \ {w} : at'[v] = at[v]
    <2>1. "unlock" \in Holding
      BY DEF Holding
    <2> QED BY <1>1, <1>2, <2>1, ToChanges
  <1>5. /\ scribefaults' = scribefaults + 1 /\ scribefaults' # scribefaults
        /\ scribefaults' \in 0 .. MaxScribeFaults
    BY <1>1, <1>3, FaultType
  <1>6. ScribeTypeOK'
    BY <1>1, <1>3, <1>4, <1>5 DEF ScribeTypeOK
  <1>7. Quiet(w)
    BY <1>3, <1>4, <1>5, ScribeAssumption DEF Quiet, OnlyBy, LockBy, Unwritten
  <1> QED BY <1>6, <1>7, QuietStep

LEMMA LockReleaseStep ==
    ASSUME ScribeInv, NEW w \in Scribes, lock_release(w)
    PROVE  ScribeInv'
  <1>1. ScribeTypeOK
    BY DEF ScribeInv
  <1>2. at[w] = "unlock" /\ To(w, "publish")
    BY DEF lock_release, From
  <1>3. /\ UNCHANGED <<blocks, archives, second, rate, logged, called, decision,
                       scribefaults>>
        /\ content' = [content EXCEPT ![w] = << >>]
        /\ loglock' = Nobody /\ loglock = w
    BY <1>2 DEF lock_release, disk, clock, ScribeInv, HolderInv, Holding
  <1>4. /\ at' \in [Scribes -> Holding \cup Unwritten \cup {"idle", "publish"}]
        /\ at'[w] = "publish" /\ \A v \in Scribes \ {w} : at'[v] = at[v]
    BY <1>1, <1>2, ToChanges
  <1>5. ScribeTypeOK'
    <2>1. << >> \in Seq(Block)
      OBVIOUS
    <2> QED BY <1>1, <1>3, <1>4, <2>1 DEF ScribeTypeOK
  <1>6. OnlyBy(w) /\ LockBy(w)
    BY <1>1, <1>3, <1>4, ScribeAssumption DEF OnlyBy, LockBy, ScribeTypeOK, Holding
  <1>7. Quiet(w)
    BY <1>2, <1>3, <1>4, <1>6 DEF Quiet, Unwritten, Uncounted
  <1> QED BY <1>5, <1>7, QuietStep

\* A command gets the next number.
LEMMA CallStep ==
    ASSUME ScribeInv, NEW w \in Scribes, NEW a \in Arguments, Call(w, a)
    PROVE  ScribeInv'
  <1> USE ScribeAssumption
  <1>1. ScribeTypeOK /\ HolderInv /\ FreshInv
    BY DEF ScribeInv
  <1>2. PICK point \in {"lock", "lock_long"} : at[w] = "idle" /\ To(w, point)
    BY DEF Call, From
  <1>3. /\ UNCHANGED <<blocks, archives, second, rate, logged, content, loglock,
                       scribefaults>>
        /\ called' = called + 1
        /\ decision' = [decision EXCEPT ![w] = called + 1]
    BY DEF Call, disk, clock
  <1>4. /\ at' \in [Scribes -> Holding \cup Unwritten \cup {"idle", "publish"}]
        /\ at'[w] = point /\ \A v \in Scribes \ {w} : at'[v] = at[v]
    <2>1. point \in Unwritten
      BY <1>2 DEF Unwritten
    <2> QED BY <1>1, <1>2, <2>1, ToChanges
  <1>5. ScribeTypeOK'
    <2>1. called + 1 \in Nat /\ decision \in [Scribes -> Nat]
      BY <1>1 DEF ScribeTypeOK
    <2>2. decision' \in [Scribes -> Nat] /\ called' \in Nat
      BY <1>3, <2>1
    <2> QED BY <1>1, <1>3, <1>4, <2>2 DEF ScribeTypeOK
  <1>6. /\ decision'[w] = called + 1 /\ called \in Nat
        /\ \A v \in Scribes \ {w} : decision'[v] = decision[v]
        /\ \A v \in Scribes : decision[v] \in Nat
    BY <1>1, <1>3 DEF ScribeTypeOK
  <1>7. /\ \A v \in Scribes : at'[v] \in Holding => at[v] \in Holding
        /\ \A v \in Scribes : at'[v] \in {"archive", "trim"} => at[v] \in {"archive", "trim"}
        /\ \A v \in Scribes : at[v] = "trim" <=> at'[v] = "trim"
        /\ \A v \in Scribes : at[v] \in Uncounted => at'[v] \in Uncounted
    BY <1>2, <1>4 DEF Holding, Uncounted
  <1>8. HolderInv'
    BY <1>1, <1>3, <1>7 DEF HolderInv
  <1>9. FreshInv'
    <2>1. \A v \in Scribes : decision'[v] =< called'
      BY <1>1, <1>3, <1>6 DEF FreshInv
    <2>2. \A d : InFiles(blocks', archives', d) => d =< called /\ d =< called'
      BY <1>1, <1>3, <1>6, InFilesType DEF FreshInv
    <2>3. ASSUME NEW v \in Scribes, at'[v] \in Unwritten
          PROVE  decision'[v] # 0 /\ ~ InFiles(blocks', archives', decision'[v])
      <3>1. CASE v = w
        BY <1>6, <2>2, <3>1
      <3>2. CASE v # w
        BY <1>1, <1>3, <1>4, <1>6, <2>3, <3>2 DEF FreshInv
      <3> QED BY <3>1, <3>2
    <2>4. ASSUME NEW u \in Scribes, NEW v \in Scribes, u # v, decision'[u] = decision'[v]
          PROVE  decision'[v] = 0
      BY <1>1, <1>6, <2>4 DEF FreshInv
    <2> QED BY <2>1, <2>2, <2>3, <2>4 DEF FreshInv
  <1>10. CountInv'
    BY <1>3, <1>7 DEF ScribeInv, CountInv
  <1>11. SecondInv' /\ SortInv'
    BY <1>3 DEF ScribeInv, SecondInv, SortInv
  <1>12. KeptInv'
    BY <1>3, <1>7 DEF ScribeInv, KeptInv
  <1>13. SingleInv'
    BY <1>3, <1>7 DEF ScribeInv, SingleInv
  <1> QED BY <1>5, <1>8, <1>9, <1>10, <1>11, <1>12, <1>13 DEF ScribeInv

LEMMA SecondPassesStep ==
    ASSUME ScribeInv, SecondPasses
    PROVE  ScribeInv'
  <1> USE ScribeAssumption
  <1>1. ScribeTypeOK /\ HolderInv /\ FreshInv
    BY DEF ScribeInv
  <1>2. /\ UNCHANGED <<blocks, archives, loglock, at, decision, content, called,
                       logged, scribefaults>>
        /\ second < MaxSecond /\ second' = second + 1 /\ rate' = 0
        /\ second \in 0 .. MaxSecond
    BY <1>1 DEF SecondPasses, disk, ScribeTypeOK
  <1>3. ScribeTypeOK'
    BY <1>1, <1>2 DEF ScribeTypeOK
  <1>4. HolderInv' /\ FreshInv' /\ CountInv' /\ SingleInv'
    BY <1>2 DEF ScribeInv, HolderInv, FreshInv, CountInv, SingleInv
  <1>5. SecondInv'
    <2>1. \A x \in second + 1 .. MaxSecond : archives[x] = << >>
      BY DEF ScribeInv, SecondInv
    <2>2. archives[second'] = << >>
      BY <1>2, <2>1
    <2>3. \A d : ~ Has(archives[second'], d)
      BY <2>2 DEF Has
    <2> QED BY <1>2, <2>1, <2>3 DEF SecondInv
  <1>6. KeptInv'
    <2>1. \A x \in 0 .. second : x \in 0 .. second'
      BY <1>2
    <2> QED BY <1>2, <2>1 DEF ScribeInv, KeptInv
  <1>7. SortInv'
    <2>1. \A i \in 1 .. Len(blocks) : blocks[i].time \in Nat
      BY <1>1, SeqElements DEF ScribeTypeOK, Block
    <2>2. SortInv
      BY DEF ScribeInv
    <2>3. \A i \in 1 .. Len(blocks) : blocks[i].time =< second + 1
      BY <1>2, <2>1, <2>2 DEF SortInv
    <2> QED BY <1>2, <2>2, <2>3 DEF SortInv
  <1> QED BY <1>3, <1>4, <1>5, <1>6, <1>7 DEF ScribeInv

-----------------------------------------------------------------------------
(***************************************************************************)
(* The append.                                                             *)
(***************************************************************************)

\* While w holds the lock, no other process is between lock and unlock.
LEMMA OneHolder ==
    ASSUME HolderInv, NEW w \in Scribes, at[w] \in Holding
    PROVE  \A v \in Scribes \ {w} : at[v] \notin Holding
  BY DEF HolderInv

\* The text of an append gets into the log: all of it, or with a failure.
LEMMA BlockStep ==
    ASSUME ScribeInv, NEW w \in Scribes, NEW heading \in BOOLEAN, NEW whole \in BOOLEAN,
           at[w] = "append", WriteBlock(w, heading, whole),
           at' \in [Scribes -> Holding \cup Unwritten \cup {"idle", "publish"}],
           decision' \in [Scribes -> Nat], content' \in [Scribes -> Seq(Block)],
           loglock' \in Scribes \cup {Nobody}, OnlyBy(w), LockBy(w),
           at'[w] \in {"count", "idle"}, decision'[w] \in {decision[w], 0},
           called' = called,
           logged' = logged \/ (whole /\ logged' = logged \cup {decision[w]}),
           \/ scribefaults' = scribefaults /\ heading /\ whole /\ at'[w] = "count"
           \/ ScribeFault
    PROVE  ScribeInv'
  <1> USE ScribeAssumption
  <1> DEFINE b == [decision |-> decision[w], time |-> second,
                   heading |-> heading, whole |-> whole]
  <1>1. ScribeTypeOK /\ HolderInv /\ FreshInv /\ CountInv /\ SecondInv /\ KeptInv
        /\ SortInv /\ SingleInv
    BY DEF ScribeInv
  <1>2. /\ blocks' = Append(blocks, b) /\ rate' = rate + 1 /\ rate < PerSecond
        /\ archives' = archives /\ second' = second
    BY DEF WriteBlock
  <1>3. /\ blocks \in Seq(Block) /\ decision[w] \in Nat /\ second \in Nat
        /\ rate \in Nat /\ scribefaults \in Nat /\ called \in Nat
    BY <1>1 DEF ScribeTypeOK
  <1>4. /\ b \in Block /\ b.decision = decision[w] /\ b.time = second
        /\ b.heading = heading /\ b.whole = whole
    BY <1>3 DEF Block
  <1> HIDE DEF b
  <1>5. /\ blocks' \in Seq(Block) /\ Len(blocks') = Len(blocks) + 1
        /\ \A i \in 1 .. Len(blocks) : blocks'[i] = blocks[i]
        /\ blocks'[Len(blocks) + 1] = b
        /\ HeadingCount(blocks') =< HeadingCount(blocks) + 1
    BY <1>2, <1>3, <1>4, AppendElements
  <1>6. /\ Len(blocks) \in Nat
        /\ \A i \in 1 .. Len(blocks') : i \in 1 .. Len(blocks) \/ i = Len(blocks) + 1
    BY <1>3, <1>5, SeqElements
  <1>7. HeadingCount(blocks) \in Nat /\ HeadingCount(blocks') \in Nat
    BY <1>3, <1>5, HeadingsFinite
  <1>8. /\ \A d : Has(blocks', d) <=> Has(blocks, d) \/ (whole /\ decision[w] = d)
        /\ \A d : Mentions(blocks', d) <=> Mentions(blocks, d) \/ decision[w] = d
    <2>1. \A d : /\ Has(blocks', d) <=> Has(blocks, d) \/ (b.whole /\ b.decision = d)
                 /\ Mentions(blocks', d) <=> Mentions(blocks, d) \/ b.decision = d
      BY <1>2, <1>3, <1>4, AppendHas
    <2> QED BY <1>4, <2>1
  <1>9. /\ scribefaults' \in {scribefaults, scribefaults + 1}
        /\ scribefaults' \in 0 .. MaxScribeFaults
        /\ scribefaults' = scribefaults \/ scribefaults' = 0 =>
              scribefaults' = scribefaults /\ heading /\ whole /\ at'[w] = "count"
    BY <1>1, <1>3, FaultType DEF ScribeTypeOK
  <1>10. /\ at[w] \in Holding /\ at[w] \in Unwritten /\ at[w] \notin Uncounted
         /\ at'[w] \notin Unwritten
         /\ \A v \in Scribes : at[v] # "trim" /\ at'[v] # "trim"
         /\ \A v \in Scribes : at[v] \notin Uncounted
    <2>1. at[w] \in Holding
      BY DEF Holding
    <2>2. \A v \in Scribes \ {w} : at[v] \notin Holding
      BY <1>1, <2>1, OneHolder
    <2>3. "trim" \in Holding /\ Uncounted \subseteq Holding
      BY DEF Holding, Uncounted
    <2>4. at[w] \notin Uncounted
      BY DEF Uncounted
    <2> QED BY <2>1, <2>2, <2>3, <2>4 DEF OnlyBy, Unwritten
  <1>11. decision[w] # 0 /\ ~ InFiles(blocks, archives, decision[w])
    BY <1>1, <1>10 DEF FreshInv
  <1>12. ScribeTypeOK'
    <2>1. rate' \in 0 .. PerSecond
      BY <1>2, <1>3
    <2>2. logged' \subseteq Nat
      BY <1>1, <1>3 DEF ScribeTypeOK
    <2> QED BY <1>1, <1>2, <1>5, <1>9, <2>1, <2>2 DEF ScribeTypeOK
  <1>13. HolderInv'
    BY <1>1, <1>10, HolderKeeps
  <1>14. FreshInv'
    <2>1. \A d : InFiles(blocks', archives', d) =>
                   \/ InFiles(blocks, archives, d)
                   \/ d = decision[w] /\ d # 0 /\ at'[w] \notin Unwritten
      BY <1>2, <1>8, <1>10, <1>11 DEF InFiles
    <2> QED BY <1>1, <1>3, <1>10, <2>1, FreshKeeps
  <1>15. CountInv'
    <2>1. HeadingCount(blocks) =< SCRIBE_ARCHIVE_THRESHOLD + scribefaults
      BY <1>1, <1>10 DEF CountInv
    <2>2. HeadingCount(blocks') =< SCRIBE_ARCHIVE_THRESHOLD + scribefaults + 1
      BY <1>3, <1>5, <1>7, <2>1
    <2>3. scribefaults' = scribefaults => at'[w] \in Uncounted
      BY <1>9 DEF Uncounted
    <2> QED BY <1>3, <1>7, <1>9, <2>2, <2>3 DEF CountInv
  <1>16. SecondInv'
    <2>1. CASE \A d : Has(archives[second], d) => Has(blocks, d)
      BY <1>1, <1>2, <1>8, <2>1 DEF SecondInv
    <2>2. CASE HeadingCount(blocks) + SCRIBE_ARCHIVE_CLEAVE =<
                  SCRIBE_ARCHIVE_THRESHOLD + scribefaults + rate + 1
      <3>1. HeadingCount(blocks') + SCRIBE_ARCHIVE_CLEAVE =<
               SCRIBE_ARCHIVE_THRESHOLD + scribefaults' + rate' + 1
        <4>1. scribefaults' \in Nat /\ scribefaults =< scribefaults'
          BY <1>3, <1>9
        <4>2. rate' = rate + 1
          BY <1>2
        <4>3. HeadingCount(blocks') =< HeadingCount(blocks) + 1
          BY <1>5
        <4>4. scribefaults \in Nat /\ rate \in Nat
          BY <1>3
        <4>5. HeadingCount(blocks') + SCRIBE_ARCHIVE_CLEAVE =<
                 SCRIBE_ARCHIVE_THRESHOLD + scribefaults + rate' + 1
          BY <1>7, <2>2, <4>2, <4>3, <4>4
        <4> QED BY <1>7, <4>1, <4>2, <4>4, <4>5
      <3> QED BY <1>1, <1>2, <3>1 DEF SecondInv
    <2> QED BY <1>1, <2>1, <2>2 DEF SecondInv
  <1>17. KeptInv'
    BY <1>1, <1>2, <1>8, <1>10 DEF KeptInv
  <1>18. SortInv'
    <2>1. \A i \in 1 .. Len(blocks) : blocks'[i].time =< second
      BY <1>1, <1>5 DEF SortInv
    <2>2. blocks'[Len(blocks) + 1].time = second
      BY <1>4, <1>5
    <2>3. \A i \in 1 .. Len(blocks') : blocks'[i].time =< second
      BY <1>3, <1>6, <2>1, <2>2
    <2>4. ASSUME NEW i \in 1 .. Len(blocks'), NEW j \in 1 .. Len(blocks'), i < j
          PROVE  blocks'[i].time =< blocks'[j].time
      <3>1. CASE j = Len(blocks) + 1
        BY <2>2, <2>3, <3>1
      <3>2. CASE j \in 1 .. Len(blocks)
        <4>1. i \in 1 .. Len(blocks)
          BY <1>6, <2>4, <3>2
        <4> QED BY <1>1, <1>5, <2>4, <3>2, <4>1 DEF SortInv
      <3> QED BY <1>6, <3>1, <3>2
    <2> QED BY <1>2, <2>3, <2>4 DEF SortInv
  <1>19. SingleInv'
    <2> SUFFICES ASSUME scribefaults' = 0
                 PROVE  SingleInv'
      BY DEF SingleInv
    <2>1. scribefaults = 0 /\ heading /\ whole
      BY <1>9
    <2>2. ASSUME NEW i \in 1 .. Len(blocks')
          PROVE  blocks'[i].heading /\ blocks'[i].whole
      BY <1>1, <1>4, <1>5, <1>6, <2>1 DEF SingleInv
    <2>3. \A i \in 1 .. Len(blocks) : blocks[i].decision # decision[w]
      BY <1>11 DEF InFiles, Mentions
    <2>4. ASSUME NEW i \in 1 .. Len(blocks'), NEW j \in 1 .. Len(blocks'),
                 blocks'[i].decision = blocks'[j].decision
          PROVE  i = j
      <3>1. \A k \in 1 .. Len(blocks) : blocks'[k].decision # decision[w]
        BY <1>5, <2>3
      <3>2. blocks'[Len(blocks) + 1].decision = decision[w]
        BY <1>4, <1>5
      <3>3. CASE i = Len(blocks) + 1 \/ j = Len(blocks) + 1
        BY <1>6, <2>4, <3>1, <3>2, <3>3
      <3>4. CASE i \in 1 .. Len(blocks) /\ j \in 1 .. Len(blocks)
        BY <1>1, <1>5, <2>1, <2>4, <3>4 DEF SingleInv
      <3> QED BY <1>6, <3>3, <3>4
    <2>5. \A x, y \in 0 .. MaxSecond : \A d :
              Has(archives'[x], d) /\ Has(archives'[y], d) => x = y
      BY <1>1, <1>2, <2>1 DEF SingleInv
    <2>6. ASSUME NEW x \in 0 .. MaxSecond, NEW d, Has(archives'[x], d), Has(blocks', d)
          PROVE  FALSE
      <3>1. ~ Has(blocks, d)
        BY <1>1, <1>2, <1>10, <2>1, <2>6 DEF SingleInv
      <3>2. d = decision[w]
        BY <1>8, <2>6, <3>1
      <3> QED BY <1>2, <1>11, <2>6, <3>2 DEF InFiles, Has, Mentions
    <2> QED BY <2>2, <2>4, <2>5, <2>6 DEF SingleInv
  <1> QED BY <1>12, <1>13, <1>14, <1>15, <1>16, <1>17, <1>18, <1>19 DEF ScribeInv

LEMMA AppendEntryStep ==
    ASSUME ScribeInv, NEW w \in Scribes, AppendEntry(w)
    PROVE  ScribeInv'
  <1>1. ScribeTypeOK
    BY DEF ScribeInv
  <1>2. /\ at[w] = "append" /\ To(w, "count") /\ WriteBlock(w, TRUE, TRUE)
        /\ logged' = logged \cup {decision[w]}
        /\ UNCHANGED <<loglock, decision, content, called, scribefaults>>
        /\ loglock = w
    BY DEF AppendEntry, From, ScribeInv, HolderInv, Holding
  <1>3. /\ at' \in [Scribes -> Holding \cup Unwritten \cup {"idle", "publish"}]
        /\ at'[w] = "count" /\ \A v \in Scribes \ {w} : at'[v] = at[v]
    <2>1. "count" \in Holding
      BY DEF Holding
    <2> QED BY <1>1, <1>2, <2>1, ToChanges
  <1>4. OnlyBy(w) /\ LockBy(w)
    BY <1>2, <1>3, ScribeAssumption DEF OnlyBy, LockBy
  <1>5. /\ decision' \in [Scribes -> Nat] /\ content' \in [Scribes -> Seq(Block)]
        /\ loglock' \in Scribes \cup {Nobody}
    BY <1>1, <1>2 DEF ScribeTypeOK
  <1> QED BY <1>2, <1>3, <1>4, <1>5, BlockStep

\* An append that fails or is killed.
LEMMA TornStep ==
    ASSUME ScribeInv, NEW w \in Scribes, at[w] = "append", Torn(w), ScribeFault,
           ScribeEnds(w), UNCHANGED <<called, logged>>
    PROVE  ScribeInv'
  <1>1. ScribeTypeOK
    BY DEF ScribeInv
  <1>2. PICK heading \in BOOLEAN : WriteBlock(w, heading, FALSE)
    BY DEF Torn
  <1> QED BY <1>1, <1>2, LeaveChanges, BlockStep

-----------------------------------------------------------------------------
(***************************************************************************)
(* The archive.                                                            *)
(***************************************************************************)

LEMMA WriteArchiveStep ==
    ASSUME ScribeInv, NEW w \in Scribes, WriteArchive(w)
    PROVE  ScribeInv'
  <1> USE ScribeAssumption
  <1>1. ScribeTypeOK /\ HolderInv /\ FreshInv /\ CountInv /\ SecondInv /\ KeptInv
        /\ SortInv /\ SingleInv
    BY DEF ScribeInv
  <1>2. /\ at[w] = "archive" /\ To(w, "trim")
        /\ UNCHANGED <<blocks, loglock, decision, content, second, rate, called, logged,
                       scribefaults>>
        /\ archives' = [archives EXCEPT ![second] = Cleft(content[w])]
    BY DEF WriteArchive, From, clock, Cleft
  <1>3. /\ content[w] = blocks /\ HeadingCount(blocks) > SCRIBE_ARCHIVE_THRESHOLD
        /\ loglock = w /\ at[w] \in Holding
    BY <1>1, <1>2 DEF HolderInv, Holding
  <1>4. /\ at' \in [Scribes -> Holding \cup Unwritten \cup {"idle", "publish"}]
        /\ at'[w] = "trim" /\ \A v \in Scribes \ {w} : at'[v] = at[v]
    <2>1. "trim" \in Holding
      BY DEF Holding
    <2> QED BY <1>1, <1>2, <2>1, ToChanges
  <1>5. /\ blocks \in Seq(Block) /\ second \in 0 .. MaxSecond
        /\ rate \in 0 .. PerSecond /\ scribefaults \in 0 .. MaxScribeFaults
        /\ archives \in [0 .. MaxSecond -> Seq(Block)]
        /\ called \in Nat
    BY <1>1 DEF ScribeTypeOK
  <1>6. /\ Cleft(blocks) \in Seq(Block)
        /\ \A d : Has(Cleft(blocks), d) => Has(blocks, d)
        /\ \A d : Mentions(Cleft(blocks), d) => Mentions(blocks, d)
    BY <1>3, <1>5, CleftElements, CleftHas
  <1>7. /\ archives' \in [0 .. MaxSecond -> Seq(Block)]
        /\ archives'[second] = Cleft(blocks)
        /\ \A x \in 0 .. MaxSecond : x # second => archives'[x] = archives[x]
    BY <1>2, <1>3, <1>5, <1>6
  <1>8. /\ OnlyBy(w) /\ LockBy(w)
        /\ \A v \in Scribes : at[v] # "trim"
    <2>1. \A v \in Scribes \ {w} : at[v] \notin Holding
      BY <1>1, <1>3, OneHolder
    <2> QED BY <1>2, <1>3, <1>4, <2>1 DEF OnlyBy, LockBy, Holding
  <1>9. ScribeTypeOK'
    BY <1>1, <1>2, <1>4, <1>7 DEF ScribeTypeOK
  <1>10. HolderInv'
    <2>1. content'[w] = blocks' /\ HeadingCount(blocks') > SCRIBE_ARCHIVE_THRESHOLD
      BY <1>2, <1>3
    <2> QED BY <1>1, <1>3, <1>8, <2>1, HolderKeeps
  <1>11. FreshInv'
    <2>1. \A d : InFiles(blocks', archives', d) => InFiles(blocks, archives, d)
      BY <1>2, <1>6, <1>7 DEF InFiles
    <2>2. at'[w] \notin Unwritten /\ decision'[w] = decision[w]
      BY <1>2, <1>4 DEF Unwritten
    <2> QED BY <1>1, <1>2, <1>5, <1>8, <2>1, <2>2, FreshKeeps
  <1>12. CountInv'
    <2>1. at'[w] \in Uncounted
      BY <1>4 DEF Uncounted
    <2> QED BY <1>1, <1>2, <2>1 DEF CountInv
  <1>13. \A d : Has(archives[second], d) => Has(blocks, d)
    <2>1. HeadingCount(blocks) \in Nat
      BY <1>5, HeadingsFinite
    <2>2. ~ (HeadingCount(blocks) + SCRIBE_ARCHIVE_CLEAVE =<
                SCRIBE_ARCHIVE_THRESHOLD + scribefaults + rate + 1)
      BY <1>3, <1>5, <2>1
    <2> QED BY <1>1, <2>2 DEF SecondInv
  <1>14. SecondInv'
    <2>1. \A x \in second + 1 .. MaxSecond : x \in 0 .. MaxSecond /\ x # second
      BY <1>5
    <2> QED BY <1>1, <1>2, <1>6, <1>7, <2>1 DEF SecondInv
  <1>15. KeptInv'
    <2>1. ASSUME NEW d \in logged
          PROVE  Has(blocks, d) \/ \E x \in 0 .. MaxSecond : Has(archives'[x], d)
      BY <1>1, <1>7, <1>13 DEF KeptInv
    <2>2. second \in 0 .. second /\ archives'[second] = Cleft(blocks)
      BY <1>5, <1>7
    <2> QED BY <1>2, <2>1, <2>2 DEF KeptInv
  <1>16. SortInv'
    BY <1>1, <1>2 DEF SortInv
  <1>17. SingleInv'
    <2> SUFFICES ASSUME scribefaults' = 0
                 PROVE  SingleInv'
      BY DEF SingleInv
    <2>1. scribefaults = 0
      BY <1>2
    <2>2. \A x \in 0 .. MaxSecond : \A d : ~ (Has(archives[x], d) /\ Has(blocks, d))
      BY <1>1, <1>8, <2>1 DEF SingleInv
    <2>3. ASSUME NEW x \in 0 .. MaxSecond, NEW y \in 0 .. MaxSecond, NEW d,
                 Has(archives'[x], d), Has(archives'[y], d)
          PROVE  x = y
      <3>1. \A z \in 0 .. MaxSecond : z # second /\ Has(archives'[z], d) =>
               Has(archives[z], d) /\ ~ Has(blocks, d)
        BY <1>7, <2>2
      <3>2. Has(archives'[second], d) => Has(blocks, d)
        BY <1>6, <1>7
      <3>3. CASE x # second /\ y # second
        BY <1>1, <2>1, <2>3, <3>1, <3>3 DEF SingleInv
      <3>4. CASE x = second \/ y = second
        BY <2>3, <3>1, <3>2, <3>4
      <3> QED BY <3>3, <3>4
    <2>4. ASSUME NEW x \in 0 .. MaxSecond, NEW d, Has(archives'[x], d), Has(blocks', d)
          PROVE  Has(Cleft(blocks'), d)
      <3>1. x = second
        BY <1>2, <1>7, <2>2, <2>4
      <3> QED BY <1>2, <1>7, <2>4, <3>1
    <2> QED BY <1>1, <1>2, <1>4, <2>1, <2>3, <2>4 DEF SingleInv
  <1> QED BY <1>9, <1>10, <1>11, <1>12, <1>14, <1>15, <1>16, <1>17 DEF ScribeInv

LEMMA RewriteMainStep ==
    ASSUME ScribeInv, NEW w \in Scribes, RewriteMain(w)
    PROVE  ScribeInv'
  <1> USE ScribeAssumption
  <1>1. ScribeTypeOK /\ HolderInv /\ FreshInv /\ CountInv /\ SecondInv /\ KeptInv
        /\ SortInv /\ SingleInv
    BY DEF ScribeInv
  <1>2. /\ at[w] = "trim" /\ To(w, "unlock")
        /\ UNCHANGED <<archives, loglock, decision, content, second, rate, called, logged,
                       scribefaults>>
        /\ blocks' = Remains(content[w])
    BY DEF RewriteMain, From, clock, Remains
  <1>3. /\ content[w] = blocks /\ HeadingCount(blocks) > SCRIBE_ARCHIVE_THRESHOLD
        /\ loglock = w /\ at[w] \in Holding
    BY <1>1, <1>2 DEF HolderInv, Holding
  <1>4. /\ at' \in [Scribes -> Holding \cup Unwritten \cup {"idle", "publish"}]
        /\ at'[w] = "unlock" /\ \A v \in Scribes \ {w} : at'[v] = at[v]
    <2>1. "unlock" \in Holding
      BY DEF Holding
    <2> QED BY <1>1, <1>2, <2>1, ToChanges
  <1>5. /\ blocks \in Seq(Block) /\ second \in Nat /\ rate \in Nat
        /\ scribefaults \in Nat /\ called \in Nat
        /\ blocks' = Remains(blocks)
    BY <1>1, <1>2, <1>3 DEF ScribeTypeOK
  <1> DEFINE c == CleaveOffset(blocks)  h == HeaderEnd(blocks)
  <1>6. /\ c \in 0 .. Len(blocks) - 1 /\ h \in 0 .. c /\ Len(blocks) \in Nat
        /\ \A j \in 1 .. h : ~ blocks[j].heading
    BY <1>3, <1>5, CutPlaces, SeqElements
  <1>7. /\ blocks' \in Seq(Block) /\ Len(blocks') = h + Len(blocks) - c
        /\ \A i \in 1 .. h : blocks'[i] = blocks[i]
        /\ \A i \in h + 1 .. Len(blocks') :
              i - h + c \in 1 .. Len(blocks) /\ blocks'[i] = blocks[i - h + c]
    BY <1>3, <1>5, RemainsElements
  <1>8. HeadingCount(blocks') + SCRIBE_ARCHIVE_CLEAVE =< HeadingCount(blocks)
        /\ HeadingCount(blocks) \in Nat /\ HeadingCount(blocks') \in Nat
    BY <1>3, <1>5, <1>7, RemainsCount, HeadingsFinite
  <1>9. \A d : /\ Mentions(blocks', d) => Mentions(blocks, d)
               /\ Has(blocks', d) => Has(blocks, d)
               /\ Has(blocks, d) => Has(Cleft(blocks), d) \/ Has(blocks', d)
    BY <1>3, <1>5, RemainsHas
  <1>10. /\ Len(Cleft(blocks)) = c
         /\ \A i \in 1 .. c : i \in 1 .. Len(blocks) /\ Cleft(blocks)[i] = blocks[i]
    BY <1>3, <1>5, CleftElements
  <1> HIDE DEF c, h
  <1>11. /\ OnlyBy(w) /\ LockBy(w)
         /\ \A v \in Scribes : at'[v] # "trim"
    <2>1. \A v \in Scribes \ {w} : at[v] \notin Holding
      BY <1>1, <1>3, OneHolder
    <2> QED BY <1>2, <1>3, <1>4, <2>1 DEF OnlyBy, LockBy, Holding
  <1>12. ScribeTypeOK'
    BY <1>1, <1>2, <1>4, <1>7 DEF ScribeTypeOK
  <1>13. HolderInv'
    BY <1>1, <1>3, <1>4, <1>11, HolderKeeps
  <1>14. FreshInv'
    <2>1. \A d : InFiles(blocks', archives', d) => InFiles(blocks, archives, d)
      BY <1>2, <1>9 DEF InFiles
    <2>2. at'[w] \notin Unwritten /\ decision'[w] = decision[w]
      BY <1>2, <1>4 DEF Unwritten
    <2> QED BY <1>1, <1>2, <1>5, <1>11, <2>1, <2>2, FreshKeeps
  <1>15. HeadingCount(blocks) =< SCRIBE_ARCHIVE_THRESHOLD + scribefaults + 1
    BY <1>1 DEF CountInv
  <1>16. CountInv'
    <2>1. HeadingCount(blocks') =< SCRIBE_ARCHIVE_THRESHOLD + scribefaults
      BY <1>5, <1>8, <1>15
    <2>2. HeadingCount(blocks') =< SCRIBE_ARCHIVE_THRESHOLD + scribefaults + 1
      BY <1>5, <1>8, <2>1
    <2> QED BY <1>2, <2>1, <2>2 DEF CountInv
  <1>17. SecondInv'
    <2>1. HeadingCount(blocks') + SCRIBE_ARCHIVE_CLEAVE =<
             SCRIBE_ARCHIVE_THRESHOLD + scribefaults + rate + 1
      BY <1>5, <1>8, <1>15
    <2> QED BY <1>1, <1>2, <2>1 DEF SecondInv
  <1>18. KeptInv'
    <2>1. PICK x \in 0 .. second : archives[x] = Cleft(blocks)
      BY <1>1, <1>2 DEF KeptInv
    <2>2. x \in 0 .. MaxSecond
      BY <1>1, <2>1 DEF ScribeTypeOK
    <2>3. ASSUME NEW d \in logged
          PROVE  Has(blocks', d) \/ \E y \in 0 .. MaxSecond : Has(archives[y], d)
      BY <1>1, <1>9, <2>1, <2>2 DEF KeptInv
    <2> QED BY <1>2, <1>11, <2>3 DEF KeptInv
  <1>19. SortInv'
    <2>1. ASSUME NEW i \in 1 .. Len(blocks')
          PROVE  \E k \in 1 .. Len(blocks) :
                    /\ blocks'[i] = blocks[k]
                    /\ k = IF i =< h THEN i ELSE i - h + c
      <3>1. CASE i =< h
        <4>1. i \in 1 .. h /\ i \in 1 .. Len(blocks)
          BY <1>6, <1>7, <3>1
        <4> QED BY <1>7, <3>1, <4>1
      <3>2. CASE ~ (i =< h)
        <4>1. i \in h + 1 .. Len(blocks')
          BY <1>6, <1>7, <3>2
        <4> QED BY <1>7, <3>2, <4>1
      <3> QED BY <3>1, <3>2
    <2>2. \A i \in 1 .. Len(blocks') : blocks'[i].time =< second
      BY <1>1, <2>1 DEF SortInv
    <2>3. ASSUME NEW i \in 1 .. Len(blocks'), NEW j \in 1 .. Len(blocks'), i < j
          PROVE  blocks'[i].time =< blocks'[j].time
      <3>1. PICK k \in 1 .. Len(blocks) :
               blocks'[i] = blocks[k] /\ k = IF i =< h THEN i ELSE i - h + c
        BY <2>1
      <3>2. PICK l \in 1 .. Len(blocks) :
               blocks'[j] = blocks[l] /\ l = IF j =< h THEN j ELSE j - h + c
        BY <2>1
      <3>3. k < l
        BY <1>6, <1>7, <2>3, <3>1, <3>2
      <3> QED BY <1>1, <3>1, <3>2, <3>3 DEF SortInv
    <2> QED BY <1>2, <2>2, <2>3 DEF SortInv
  <1>20. SingleInv'
    <2> SUFFICES ASSUME scribefaults' = 0
                 PROVE  SingleInv'
      BY DEF SingleInv
    <2>1. scribefaults = 0
      BY <1>2
    <2>2. h = 0
      <3>1. \A i \in 1 .. Len(blocks) : blocks[i].heading
        BY <1>1, <2>1 DEF SingleInv
      <3>2. ASSUME h # 0 PROVE FALSE
        <4>1. 1 \in 1 .. h /\ 1 \in 1 .. Len(blocks)
          BY <1>6, <3>2
        <4> QED BY <1>6, <3>1, <4>1
      <3> QED BY <3>2
    <2>3. ASSUME NEW i \in 1 .. Len(blocks')
          PROVE  i + c \in 1 .. Len(blocks) /\ blocks'[i] = blocks[i + c]
      <3>1. i \in h + 1 .. Len(blocks') /\ i - h + c = i + c
        BY <1>6, <1>7, <2>2
      <3> QED BY <1>7, <3>1
    <2>4. \A i \in 1 .. Len(blocks') : blocks'[i].heading /\ blocks'[i].whole
      BY <1>1, <2>1, <2>3 DEF SingleInv
    <2>5. ASSUME NEW i \in 1 .. Len(blocks'), NEW j \in 1 .. Len(blocks'),
                 blocks'[i].decision = blocks'[j].decision
          PROVE  i = j
      <3>1. i + c = j + c
        BY <1>1, <2>1, <2>3, <2>5 DEF SingleInv
      <3> QED BY <1>6, <1>7, <3>1
    <2>6. ASSUME NEW x \in 0 .. MaxSecond, NEW d, Has(archives[x], d), Has(blocks', d)
          PROVE  FALSE
      <3>1. Has(Cleft(blocks), d)
        BY <1>1, <1>9, <2>1, <2>6 DEF SingleInv
      <3>2. PICK k \in 1 .. c : Cleft(blocks)[k].decision = d
        BY <1>10, <3>1 DEF Has
      <3>3. k \in 1 .. Len(blocks) /\ blocks[k].decision = d
        BY <1>10, <3>2
      <3>4. PICK i \in 1 .. Len(blocks') : blocks'[i].decision = d
        BY <2>6 DEF Has
      <3>5. i + c \in 1 .. Len(blocks) /\ blocks[i + c].decision = d
        BY <2>3, <3>4
      <3>6. k = i + c
        BY <1>1, <2>1, <3>3, <3>5 DEF SingleInv
      <3> QED BY <1>6, <1>7, <3>2, <3>4, <3>6
    <2>7. \A x, y \in 0 .. MaxSecond : \A d :
              Has(archives[x], d) /\ Has(archives[y], d) => x = y
      BY <1>1, <2>1 DEF SingleInv
    <2> QED BY <1>2, <2>4, <2>5, <2>6, <2>7 DEF SingleInv
  <1> QED BY <1>12, <1>13, <1>14, <1>16, <1>17, <1>18, <1>19, <1>20 DEF ScribeInv

-----------------------------------------------------------------------------
(***************************************************************************)
(* The theorems.                                                           *)
(***************************************************************************)

LEMMA ScribeInitInv == ScribeInit => ScribeInv
  <1> SUFFICES ASSUME ScribeInit PROVE ScribeInv
    OBVIOUS
  <1> USE ScribeAssumption
  <1>1. /\ << >> \in Seq(Block) /\ Len(<< >>) = 0
        /\ \A d : ~ Has(<< >>, d) /\ ~ Mentions(<< >>, d)
    BY DEF Has, Mentions
  <1>2. HeadingCount(<< >>) = 0
    <2>1. Headings(<< >>) = {}
      BY <1>1 DEF Headings
    <2> QED BY <2>1, FS_EmptySet DEF HeadingCount
  <1>3. /\ blocks = << >> /\ \A x \in 0 .. MaxSecond : archives[x] = << >>
        /\ \A w \in Scribes : at[w] = "idle" /\ decision[w] = 0
        /\ second = 0 /\ rate = 0 /\ called = 0 /\ logged = {} /\ scribefaults = 0
    BY DEF ScribeInit
  <1>4. ScribeTypeOK
    <2>1. archives \in [0 .. MaxSecond -> Seq(Block)] /\ content \in [Scribes -> Seq(Block)]
      BY <1>1 DEF ScribeInit
    <2> QED BY <1>1, <2>1 DEF ScribeInit, ScribeTypeOK
  <1>5. HolderInv
    BY <1>3 DEF HolderInv, Holding
  <1>6. FreshInv
    BY <1>1, <1>3 DEF FreshInv, InFiles, Unwritten
  <1>7. CountInv
    BY <1>2, <1>3 DEF CountInv
  <1>8. SecondInv
    BY <1>1, <1>3 DEF SecondInv
  <1>9. KeptInv
    BY <1>3 DEF KeptInv
  <1>10. SortInv
    BY <1>1, <1>3 DEF SortInv
  <1>11. SingleInv
    BY <1>1, <1>3 DEF SingleInv
  <1> QED BY <1>4, <1>5, <1>6, <1>7, <1>8, <1>9, <1>10, <1>11 DEF ScribeInv

LEMMA ScribeNextInv == ScribeInv /\ [ScribeNext]_scribevars => ScribeInv'
  <1> SUFFICES ASSUME ScribeInv, [ScribeNext]_scribevars PROVE ScribeInv'
    OBVIOUS
  <1>1. ASSUME NEW w \in Scribes, Scribe(w) PROVE ScribeInv'
    <2>1. CASE EntryTooLong(w)
      <3>1. at[w] \notin Uncounted
        BY <2>1 DEF EntryTooLong, Uncounted
      <3> QED BY <2>1, <3>1, LeaveStep DEF EntryTooLong, disk
    <2>2. CASE bus_publish(w)
      <3>1. at[w] \notin Uncounted
        BY <2>2 DEF bus_publish, Uncounted
      <3> QED BY <2>2, <3>1, LeaveStep DEF bus_publish, disk
    <2> QED BY <1>1, <2>1, <2>2, LockAcquireStep, HeaderStep, AppendEntryStep, CountStep,
               WriteArchiveStep, RewriteMainStep, LockReleaseStep DEF Scribe
  <1>2. ASSUME NEW w \in Scribes, HeaderFails(w) PROVE ScribeInv'
    BY <1>2, LeaveStep DEF HeaderFails, disk
  <1>3. ASSUME NEW w \in Scribes, AppendFails(w) PROVE ScribeInv'
    BY <1>3, TornStep DEF AppendFails
  <1>4. ASSUME NEW w \in Scribes, ScribeKilled(w) PROVE ScribeInv'
    <2>1. CASE at[w] = "append" /\ Torn(w)
      BY <1>4, <2>1, TornStep DEF ScribeKilled
    <2>2. CASE UNCHANGED <<blocks, archives, clock>>
      BY <1>4, <2>2, LeaveStep DEF ScribeKilled
    <2> QED BY <1>4, <2>1, <2>2 DEF ScribeKilled, disk
  <1>5. CASE UNCHANGED scribevars
    <2>1. UNCHANGED <<blocks, archives, loglock, at, decision, content, second, rate,
                      called, logged, scribefaults>>
      BY <1>5 DEF scribevars, disk, clock
    <2> QED BY <2>1 DEF ScribeInv, ScribeTypeOK, HolderInv, FreshInv, CountInv, SecondInv,
                        KeptInv, SortInv, SingleInv
  <1> QED BY <1>1, <1>2, <1>3, <1>4, <1>5, ArchiveFailsStep, CallStep, SecondPassesStep
          DEF ScribeNext

LEMMA ScribeInvKept == ScribeInv => DecisionsKept
  <1> SUFFICES ASSUME ScribeInv PROVE DecisionsKept
    OBVIOUS
  <1> USE ScribeAssumption
  <1>1. \A d, f : f \in Places(d) <=> f \in 0 .. MaxSecond + 1 /\ Has(File(f), d)
    BY DEF Places, Has, Whole
  <1>2. /\ MaxSecond + 1 \in 0 .. MaxSecond + 1 /\ File(MaxSecond + 1) = blocks
        /\ \A x \in 0 .. MaxSecond : x \in 0 .. MaxSecond + 1 /\ File(x) = archives[x]
        /\ \A x \in 0 .. MaxSecond + 1 : x \in 0 .. MaxSecond \/ x = MaxSecond + 1
    BY DEF File
  <1>3. \A d \in logged : Places(d) # {}
    <2>1. ASSUME NEW d \in logged PROVE \E f : f \in Places(d)
      <3>1. Has(blocks, d) \/ \E x \in 0 .. MaxSecond : Has(archives[x], d)
        BY DEF ScribeInv, KeptInv
      <3> QED BY <1>1, <1>2, <3>1
    <2> QED BY <2>1
  <1>4. ASSUME loglock = Nobody, scribefaults = 0, NEW d \in logged
        PROVE  Cardinality(Places(d)) = 1
    <2>1. \A w \in Scribes : at[w] # "trim"
      BY <1>4 DEF ScribeInv, HolderInv, Holding
    <2>2. \A x \in 0 .. MaxSecond : ~ (Has(archives[x], d) /\ Has(blocks, d))
      BY <1>4, <2>1 DEF ScribeInv, SingleInv
    <2>3. \A x, y \in 0 .. MaxSecond :
             Has(archives[x], d) /\ Has(archives[y], d) => x = y
      BY <1>4 DEF ScribeInv, SingleInv
    <2>4. \A f, g : f \in Places(d) /\ g \in Places(d) => f = g
      BY <1>1, <1>2, <2>2, <2>3
    <2>5. PICK f : f \in Places(d)
      BY <1>3
    <2>6. Places(d) = {f}
      BY <2>4, <2>5
    <2> QED BY <2>6, FS_Singleton
  <1> QED BY <1>3, <1>4 DEF DecisionsKept, ScribeInv, SortInv

\* The inductive invariant holds in every state: one process at a time is
\* between the lock and the unlock, and the archive of the current second is
\* written over only while the log still has the decisions in it.
THEOREM ScribeInvariant == ScribeSpec => []ScribeInv
  BY ScribeInitInv, ScribeNextInv, PTL DEF ScribeSpec

\* No append, archive, failure or kill loses a logged decision: it stays in the
\* log or in an archive of scribe_log_auto_archive, in exactly one of them when
\* nothing has failed, and the ids in the log stay in order.
THEOREM LogCorrect == ScribeSpec => []DecisionsKept
  BY ScribeInvariant, ScribeInvKept, PTL

=============================================================================
