----------------------------- MODULE IndexProofs -----------------------------
(***************************************************************************)
(* Proofs about three indexes.  The dictionary page and its index: for     *)
(* every set of texts, with any lengths, the mirror describes the page, a  *)
(* pointer is stale when its generation says so, and a probe finds the     *)
(* rows of its text.  The hash index: for every hash function and bucket   *)
(* capacity, it is a bag of pairs.  The B+tree: for every fanout, it gives *)
(* each key the list of its rows, in order.  No definition of one is used  *)
(* in the proofs of the others, but for the facts about flattened          *)
(* sequences, which the last two need.                                     *)
(*                                                                         *)
(* used_bytes is a sum, which is defined by recursion on its length: the   *)
(* first part shows that sums exist and grow, by smallest counterexample.  *)
(***************************************************************************)
EXTENDS DictIndex, HashIndex, BTree, OrderLemmas, SequenceTheorems

-----------------------------------------------------------------------------
(* Prefix sums.                                                            *)

\* f has the sums of the first n increments, and starts at b.
SumsOf(f, n, b, inc) ==
  f[0] = b /\ \A k \in 1 .. n : f[k] = f[k - 1] + inc[k]

\* Every sequence of increments has its sums.
LEMMA SumsExist ==
  ASSUME NEW N \in Nat, NEW b \in Int, NEW inc \in [1 .. N -> Int]
  PROVE  \E f \in [0 .. N -> Int] : SumsOf(f, N, b, inc)
<1> DEFINE Summed(n) == \E f \in [0 .. n -> Int] : SumsOf(f, n, b, inc)
           Missing == {n \in 0 .. N : ~Summed(n)}
<1> SUFFICES ASSUME Missing # {}
             PROVE  FALSE
  <2>1. N \notin Missing => Summed(N)
    OBVIOUS
  <2> QED BY <2>1
<1>1. Missing \subseteq Nat
  OBVIOUS
<1> DEFINE m == Min(Missing)
<1>2. m \in Missing /\ \A q \in Missing : m <= q
  <2> HIDE DEF Missing
  <2> QED BY <1>1, MinIsIn
<1> HIDE DEF m
<1>3. m \in 0 .. N /\ ~Summed(m)
  BY <1>2
<1>4. m # 0
  <2>1. [k \in 0 .. 0 |-> b] \in [0 .. 0 -> Int] /\ SumsOf([k \in 0 .. 0 |-> b], 0, b, inc)
    BY DEF SumsOf
  <2>2. Summed(0)
    BY <2>1
  <2> QED BY <1>3, <2>2
<1>5. m - 1 \in 0 .. N /\ m - 1 \notin Missing
  BY <1>2, <1>3, <1>4
<1>6. PICK f \in [0 .. m - 1 -> Int] : SumsOf(f, m - 1, b, inc)
  BY <1>5
<1> DEFINE g == [k \in 0 .. m |-> IF k = m THEN f[m - 1] + inc[m] ELSE f[k]]
<1>7. f[m - 1] \in Int /\ inc[m] \in Int /\ \A k \in 0 .. m - 1 : f[k] \in Int
  BY <1>3, <1>4, <1>5
<1>8. g \in [0 .. m -> Int]
  BY <1>3, <1>7
<1>9. SumsOf(g, m, b, inc)
  <2>1. g[0] = b
    BY <1>3, <1>4, <1>6 DEF SumsOf
  <2>2. ASSUME NEW k \in 1 .. m
        PROVE  g[k] = g[k - 1] + inc[k]
    <3>1. CASE k = m
      BY <1>3, <1>4, <3>1
    <3>2. CASE k # m
      <4>1. k \in 1 .. m - 1 /\ k \in 0 .. m /\ k - 1 \in 0 .. m /\ k - 1 # m
        BY <1>3, <3>2
      <4>2. f[k] = f[k - 1] + inc[k]
        BY <1>6, <4>1 DEF SumsOf
      <4> QED BY <3>2, <4>1, <4>2
    <3> QED BY <3>1, <3>2
  <2> HIDE DEF g
  <2> QED BY <2>1, <2>2 DEF SumsOf
<1>10. Summed(m)
  <2> HIDE DEF g
  <2> QED BY <1>8, <1>9
<1> QED BY <1>3, <1>10

\* Sums of increments that are not negative grow.
LEMMA SumsGrow ==
  ASSUME NEW N \in Nat, NEW b \in Int, NEW inc \in [1 .. N -> Nat],
         NEW f \in [0 .. N -> Int], SumsOf(f, N, b, inc),
         NEW i \in 0 .. N, NEW j \in 0 .. N, i <= j
  PROVE  f[i] <= f[j]
<1> DEFINE Low == {k \in 0 .. N : i <= k /\ ~(f[i] <= f[k])}
<1> SUFFICES ASSUME Low # {}
             PROVE  FALSE
  OBVIOUS
<1>1. Low \subseteq Nat
  OBVIOUS
<1> DEFINE m == Min(Low)
<1>2. m \in Low /\ \A q \in Low : m <= q
  <2> HIDE DEF Low
  <2> QED BY <1>1, MinIsIn
<1> HIDE DEF m
<1>3. m \in 0 .. N /\ i <= m /\ ~(f[i] <= f[m])
  BY <1>2
<1>4. m # i
  BY <1>3
<1>5. m \in 1 .. N /\ m - 1 \in 0 .. N /\ i <= m - 1 /\ m - 1 \notin Low
  BY <1>2, <1>3, <1>4
<1>6. f[i] <= f[m - 1]
  BY <1>5
<1>7. f[m] = f[m - 1] + inc[m] /\ inc[m] \in Nat /\ f[m - 1] \in Int /\ f[i] \in Int
  BY <1>5 DEF SumsOf
<1> QED BY ONLY <1>3, <1>6, <1>7

-----------------------------------------------------------------------------
(* The bytes a dictionary uses.                                            *)

\* The bytes of each entry of d.
EntryBytes(d) == [k \in 1 .. Len(d) |-> EntryHeader + TextLen[d[k]]]

\* An entry takes a natural number of bytes.
LEMMA EntryBytesType ==
  ASSUME NEW d \in Seq(Texts)
  PROVE  EntryBytes(d) \in [1 .. Len(d) -> Nat]
<1>1. \A k \in 1 .. Len(d) : EntryHeader + TextLen[d[k]] \in Nat
  <2> TAKE k \in 1 .. Len(d)
  <2>1. TextLen[d[k]] \in Nat
    BY ElementOfSeq, TextsAssumption
  <2> QED BY <2>1 DEF EntryHeader
<1> QED BY <1>1 DEF EntryBytes

\* used_bytes is the last of the prefix sums, whichever function has them.
LEMMA UsedIsSum ==
  ASSUME NEW d, NEW f, Len(d) \in Nat, DOMAIN f = 0 .. Len(d),
         f = [n \in DOMAIN f |-> f[n]],
         SumsOf(f, Len(d), CountHeader, EntryBytes(d)),
         \A k \in 1 .. Len(d) : f[k - 1] \in Int /\ TextLen[d[k]] \in Int
  PROVE  UsedBytes(d) = f[Len(d)]
<1> DEFINE Step(g) == [n \in 0 .. Len(d) |->
                         IF n = 0 THEN CountHeader
                         ELSE g[n - 1] + EntryHeader + TextLen[d[n]]]
           used == CHOOSE g : g = Step(g)
<1>1. \A n \in 0 .. Len(d) : f[n] = Step(f)[n]
  <2> TAKE n \in 0 .. Len(d)
  <2>1. CASE n = 0
    BY <2>1 DEF SumsOf
  <2>2. CASE n # 0
    <3>1. n \in 1 .. Len(d)
      BY <2>2
    <3>2. f[n] = f[n - 1] + (EntryHeader + TextLen[d[n]])
      BY <3>1 DEF SumsOf, EntryBytes
    <3>3. f[n - 1] \in Int /\ TextLen[d[n]] \in Int
      BY <3>1
    <3>4. f[n] = f[n - 1] + EntryHeader + TextLen[d[n]]
      BY ONLY <3>2, <3>3 DEF EntryHeader
    <3> QED BY <2>2, <3>4
  <2> QED BY <2>1, <2>2
<1>2. f = Step(f)
  BY <1>1
<1>3. used = Step(used)
  BY <1>2
<1>4. UsedBytes(d) = used[Len(d)]
  BY DEF UsedBytes
<1> HIDE DEF used
<1>5. used[0] = CountHeader
  BY <1>3
<1>6. \A n \in 1 .. Len(d) : used[n] = used[n - 1] + EntryHeader + TextLen[d[n]]
  <2> TAKE n \in 1 .. Len(d)
  <2>1. n \in 0 .. Len(d) /\ n # 0
    OBVIOUS
  <2>2. used[n] = Step(used)[n]
    BY <1>3
  <2> QED BY <2>1, <2>2
<1> DEFINE Apart == {k \in 0 .. Len(d) : used[k] # f[k]}
<1>7. Apart = {}
  <2> SUFFICES ASSUME Apart # {}
               PROVE  FALSE
    OBVIOUS
  <2>1. Apart \subseteq Nat
    OBVIOUS
  <2> DEFINE m == Min(Apart)
  <2>2. m \in Apart /\ \A q \in Apart : m <= q
    <3> HIDE DEF Apart
    <3> QED BY <2>1, MinIsIn
  <2> HIDE DEF m
  <2>3. m \in 0 .. Len(d) /\ used[m] # f[m]
    BY <2>2
  <2>4. m # 0
    BY <1>5, <2>3 DEF SumsOf
  <2>5. m \in 1 .. Len(d) /\ m - 1 \in 0 .. Len(d) /\ m - 1 \notin Apart
    BY <2>2, <2>3, <2>4
  <2>6. used[m - 1] = f[m - 1]
    BY <2>5
  <2>7. used[m] = f[m - 1] + EntryHeader + TextLen[d[m]]
    BY <1>6, <2>5, <2>6
  <2>8. f[m] = Step(f)[m] /\ Step(f)[m] = f[m - 1] + EntryHeader + TextLen[d[m]]
    BY <1>1, <2>4, <2>5
  <2> QED BY <2>3, <2>7, <2>8
<1> QED BY <1>4, <1>7

\* The bytes used by the prefixes of d are the prefix sums.
LEMMA UsedOfPrefixes ==
  ASSUME NEW d \in Seq(Texts)
  PROVE  \E f \in [0 .. Len(d) -> Int] :
           /\ SumsOf(f, Len(d), CountHeader, EntryBytes(d))
           /\ \A k \in 0 .. Len(d) : UsedBytes(SubSeq(d, 1, k)) = f[k]
<1>1. Len(d) \in Nat /\ CountHeader \in Int
  BY DEF CountHeader
<1>2. EntryBytes(d) \in [1 .. Len(d) -> Int]
  BY EntryBytesType
<1>3. PICK f \in [0 .. Len(d) -> Int] : SumsOf(f, Len(d), CountHeader, EntryBytes(d))
  BY <1>1, <1>2, SumsExist
<1>4. ASSUME NEW k \in 0 .. Len(d)
      PROVE  UsedBytes(SubSeq(d, 1, k)) = f[k]
  <2> DEFINE s == SubSeq(d, 1, k)
             h == [n \in 0 .. k |-> f[n]]
  <2>1. \A i \in 1 .. k : i \in 1 .. Len(d) /\ d[i] \in Texts
    BY ElementOfSeq
  <2>2. s \in Seq(Texts) /\ Len(s) = k /\ \A i \in 1 .. k : s[i] = d[i]
    <3>1. /\ s \in Seq(Texts) /\ Len(s) = IF 1 <= k THEN k - 1 + 1 ELSE 0
          /\ \A i \in 1 .. k - 1 + 1 : s[i] = d[1 + i - 1]
      BY <2>1, SubSeqProperties
    <3> HIDE DEF s
    <3>2. k - 1 + 1 = k /\ \A i \in 1 .. k : 1 + i - 1 = i
      OBVIOUS
    <3>3. CASE k = 0
      BY <3>1, <3>3
    <3>4. CASE 1 <= k
      BY <3>1, <3>2, <3>4
    <3> QED BY <3>3, <3>4
  <2> HIDE DEF s
  <2>3. DOMAIN h = 0 .. Len(s) /\ h = [n \in DOMAIN h |-> h[n]] /\ Len(s) \in Nat
    BY <2>2
  <2>4. \A n \in 0 .. k : h[n] = f[n] /\ f[n] \in Int
    BY <1>1
  <2> HIDE DEF h
  <2>5. \A n \in 1 .. k : EntryBytes(s)[n] = EntryBytes(d)[n]
    BY <2>1, <2>2 DEF EntryBytes
  <2>6. SumsOf(h, Len(s), CountHeader, EntryBytes(s))
    <3>1. h[0] = CountHeader
      BY <1>3, <2>4 DEF SumsOf
    <3>2. ASSUME NEW n \in 1 .. k
          PROVE  h[n] = h[n - 1] + EntryBytes(s)[n]
      <4>1. n \in 1 .. Len(d) /\ n \in 0 .. k /\ n - 1 \in 0 .. k
        BY <1>1
      <4>2. f[n] = f[n - 1] + EntryBytes(d)[n]
        BY <1>3, <4>1 DEF SumsOf
      <4> QED BY <2>4, <2>5, <4>1, <4>2
    <3> QED BY <2>2, <3>1, <3>2 DEF SumsOf
  <2>7. \A n \in 1 .. Len(s) : h[n - 1] \in Int /\ TextLen[s[n]] \in Int
    <3> TAKE n \in 1 .. Len(s)
    <3>1. n \in 1 .. k /\ n - 1 \in 0 .. k
      BY <2>2
    <3>2. s[n] \in Texts
      BY <2>1, <2>2, <3>1
    <3> QED BY <2>4, <3>1, <3>2, TextsAssumption
  <2>8. UsedBytes(s) = h[Len(s)]
    BY <2>3, <2>6, <2>7, UsedIsSum
  <2> QED BY <2>2, <2>4, <2>8 DEF s
<1> QED BY <1>3, <1>4

\* Packed entries lie in the used bytes, one behind the other.
LEMMA Layout ==
  ASSUME NEW d \in Seq(Texts)
  PROVE  /\ UsedBytes(d) \in Int
         /\ \A a \in 0 .. Len(d) - 1 :
              /\ PackedOffset(d, a) \in Int
              /\ PackedOffset(d, a) + TextLen[d[a + 1]] <= UsedBytes(d)
         /\ \A a, b \in 0 .. Len(d) - 1 :
              a < b => PackedOffset(d, a) + TextLen[d[a + 1]] + EntryHeader <= PackedOffset(d, b)
<1>1. PICK f \in [0 .. Len(d) -> Int] :
        /\ SumsOf(f, Len(d), CountHeader, EntryBytes(d))
        /\ \A k \in 0 .. Len(d) : UsedBytes(SubSeq(d, 1, k)) = f[k]
  BY UsedOfPrefixes
<1>2. Len(d) \in Nat /\ CountHeader \in Int
  BY DEF CountHeader
<1>3. UsedBytes(d) = f[Len(d)] /\ f[Len(d)] \in Int
  BY <1>1, <1>2, SubSeqFull
<1>4. ASSUME NEW a \in 0 .. Len(d) - 1
      PROVE  /\ PackedOffset(d, a) = f[a] + EntryHeader /\ f[a] \in Int
             /\ f[a + 1] = f[a] + EntryHeader + TextLen[d[a + 1]]
             /\ f[a + 1] \in Int /\ TextLen[d[a + 1]] \in Nat
  <2>1. a \in 0 .. Len(d) /\ a + 1 \in 1 .. Len(d) /\ a + 1 \in 0 .. Len(d) /\ (a + 1) - 1 = a
    BY <1>2
  <2>2. PackedOffset(d, a) = f[a] + EntryHeader /\ f[a] \in Int /\ f[a + 1] \in Int
    BY <1>1, <2>1 DEF PackedOffset
  <2>3. f[a + 1] = f[a] + (EntryHeader + TextLen[d[a + 1]])
    BY <1>1, <2>1 DEF SumsOf, EntryBytes
  <2>4. TextLen[d[a + 1]] \in Nat
    BY <2>1, ElementOfSeq, TextsAssumption
  <2>5. f[a + 1] = f[a] + EntryHeader + TextLen[d[a + 1]]
    <3>1. PICK x, y, z : x = f[a] /\ y = TextLen[d[a + 1]] /\ z = f[a + 1]
      OBVIOUS
    <3>2. x \in Int /\ y \in Int /\ z = x + (EntryHeader + y)
      BY <2>2, <2>3, <2>4, <3>1
    <3>3. z = x + EntryHeader + y
      BY ONLY <3>2 DEF EntryHeader
    <3> QED BY ONLY <3>1, <3>3
  <2> QED BY <2>2, <2>4, <2>5
<1>5. ASSUME NEW i \in 0 .. Len(d), NEW j \in 0 .. Len(d), i <= j
      PROVE  f[i] <= f[j]
  BY <1>1, <1>2, <1>5, EntryBytesType, SumsGrow
<1>6. ASSUME NEW a \in 0 .. Len(d) - 1
      PROVE  /\ PackedOffset(d, a) \in Int
             /\ PackedOffset(d, a) + TextLen[d[a + 1]] <= UsedBytes(d)
  <2>1. a + 1 \in 0 .. Len(d) /\ a + 1 <= Len(d) /\ Len(d) \in 0 .. Len(d)
    BY <1>2
  <2>2. f[a + 1] <= f[Len(d)]
    BY <1>5, <2>1
  <2> QED BY <1>3, <1>4, <2>2 DEF EntryHeader
<1>7. ASSUME NEW a \in 0 .. Len(d) - 1, NEW b \in 0 .. Len(d) - 1, a < b
      PROVE  PackedOffset(d, a) + TextLen[d[a + 1]] + EntryHeader <= PackedOffset(d, b)
  <2>1. a + 1 \in 0 .. Len(d) /\ b \in 0 .. Len(d) /\ a + 1 <= b
    BY <1>2, <1>7
  <2>2. f[a + 1] <= f[b]
    BY <1>5, <2>1
  <2>3. PackedOffset(d, b) = f[b] + EntryHeader /\ f[b] \in Int
    BY <1>4
  <2> QED BY <1>4, <2>2, <2>3 DEF EntryHeader
<1> QED BY <1>3, <1>6, <1>7

\* One more text leaves the others where they are, and lies behind them.
LEMMA LayoutGrows ==
  ASSUME NEW d \in Seq(Texts), NEW t \in Texts
  PROVE  /\ UsedBytes(Append(d, t)) = UsedBytes(d) + EntryHeader + TextLen[t]
         /\ \A a \in 0 .. Len(d) - 1 : PackedOffset(Append(d, t), a) = PackedOffset(d, a)
         /\ PackedOffset(Append(d, t), Len(d)) = UsedBytes(d) + EntryHeader
<1> DEFINE e == Append(d, t)
<1>1. /\ Len(d) \in Nat /\ e \in Seq(Texts) /\ Len(e) = Len(d) + 1 /\ e[Len(d) + 1] = t
      /\ \A i \in 1 .. Len(d) : e[i] = d[i]
  BY AppendProperties
<1> HIDE DEF e
<1>2. ASSUME NEW k \in 0 .. Len(d)
      PROVE  SubSeq(e, 1, k) = SubSeq(d, 1, k)
  <2>1. \A i \in 1 .. k : e[i] \in Texts /\ d[i] \in Texts /\ e[i] = d[i]
    <3> TAKE i \in 1 .. k
    <3>1. i \in 1 .. Len(d)
      BY <1>1
    <3> QED BY <1>1, <3>1, ElementOfSeq
  <2>2. /\ SubSeq(e, 1, k) \in Seq(Texts) /\ SubSeq(d, 1, k) \in Seq(Texts)
        /\ Len(SubSeq(e, 1, k)) = Len(SubSeq(d, 1, k))
        /\ Len(SubSeq(e, 1, k)) = IF 1 <= k THEN k - 1 + 1 ELSE 0
        /\ \A i \in 1 .. k - 1 + 1 : /\ SubSeq(e, 1, k)[i] = e[1 + i - 1]
                                     /\ SubSeq(d, 1, k)[i] = d[1 + i - 1]
    BY <2>1, SubSeqProperties
  <2>3. \A i \in 1 .. Len(SubSeq(e, 1, k)) : SubSeq(e, 1, k)[i] = SubSeq(d, 1, k)[i]
    <3>1. CASE k = 0
      BY <2>2, <3>1
    <3>2. CASE 1 <= k
      <4>1. \A i \in 1 .. k : i \in 1 .. k - 1 + 1 /\ 1 + i - 1 = i
        OBVIOUS
      <4>2. Len(SubSeq(e, 1, k)) = k
        BY <2>2, <3>2
      <4> QED BY <2>1, <2>2, <4>1, <4>2
    <3> QED BY <3>1, <3>2
  <2> QED BY <2>2, <2>3, SeqEqual
<1>3. PICK f \in [0 .. Len(e) -> Int] :
        /\ SumsOf(f, Len(e), CountHeader, EntryBytes(e))
        /\ \A k \in 0 .. Len(e) : UsedBytes(SubSeq(e, 1, k)) = f[k]
  BY <1>1, UsedOfPrefixes
<1>4. UsedBytes(e) = f[Len(d) + 1]
  BY <1>1, <1>3, SubSeqFull
<1>5. UsedBytes(d) = f[Len(d)] /\ f[Len(d)] \in Int
  <2>1. Len(d) \in 0 .. Len(d) /\ Len(d) \in 0 .. Len(e)
    BY <1>1
  <2>2. SubSeq(e, 1, Len(d)) = d
    BY <1>2, <2>1, SubSeqFull
  <2> QED BY <1>3, <2>1, <2>2
<1>6. f[Len(d) + 1] = f[Len(d)] + (EntryHeader + TextLen[t])
  <2>1. Len(d) + 1 \in 1 .. Len(e) /\ (Len(d) + 1) - 1 = Len(d)
    BY <1>1
  <2> QED BY <1>1, <1>3, <2>1 DEF SumsOf, EntryBytes
<1>7. TextLen[t] \in Nat
  BY TextsAssumption
<1>8. UsedBytes(e) = UsedBytes(d) + EntryHeader + TextLen[t]
  <2>1. \A x, y \in Int : x + (EntryHeader + y) = x + EntryHeader + y
    BY DEF EntryHeader
  <2>2. TextLen[t] \in Int /\ f[Len(d)] \in Int
    BY <1>5, <1>7
  <2>3. f[Len(d)] + (EntryHeader + TextLen[t]) = f[Len(d)] + EntryHeader + TextLen[t]
    BY ONLY <2>1, <2>2
  <2> QED BY ONLY <1>4, <1>5, <1>6, <2>3
<1>9. ASSUME NEW a \in 0 .. Len(d) - 1
      PROVE  PackedOffset(e, a) = PackedOffset(d, a)
  <2>1. a \in 0 .. Len(d)
    BY <1>1
  <2> QED BY <1>2, <2>1 DEF PackedOffset
<1>10. PackedOffset(e, Len(d)) = UsedBytes(d) + EntryHeader
  <2>1. Len(d) \in 0 .. Len(d)
    BY <1>1
  <2>2. SubSeq(e, 1, Len(d)) = d
    BY <1>2, <2>1, SubSeqFull
  <2> QED BY <2>2 DEF PackedOffset
<1> QED BY <1>8, <1>9, <1>10 DEF e

-----------------------------------------------------------------------------
(* The dictionary and its index.                                           *)

EntryType == [buffer : Nat, off : Int, gen : Nat, rows : SUBSET Rows]

DictTypeOK ==
  /\ dict \in Seq(Texts)
  /\ capacity \in Int /\ gen \in Nat /\ buffer \in Nat
  /\ DOMAIN page \subseteq Int
  /\ entries \in [DOMAIN entries -> EntryType]
  /\ DOMAIN textOf \subseteq Rows
  /\ textOf \in [DOMAIN textOf -> Texts]
  /\ bound \in BOOLEAN

\* A text is interned once; the entries lie packed in id order, where the mirror
\* has them, within the page.
LaidOut ==
  /\ \A a, b \in Ids : TextAt(a) = TextAt(b) => a = b
  /\ DOMAIN mirror = Ids
  /\ \A id \in Ids : /\ mirror[id] = PackedOffset(dict, id)
                     /\ mirror[id] \in DOMAIN page /\ page[mirror[id]] = id
  /\ UsedBytes(dict) <= capacity

\* An entry is of an interned text and was captured no later than now. Unless a
\* file was loaded that had a dangling pointer, an entry of the page's generation
\* points into its buffer, and such a pointer is at the entry's text.
PointersKnown ==
  /\ DOMAIN entries \subseteq Ids
  /\ \A id \in DOMAIN entries :
       /\ entries[id].gen <= gen /\ entries[id].buffer <= buffer
       /\ bound /\ entries[id].gen = gen => Current(entries[id])
       /\ bound /\ Current(entries[id]) => entries[id].off = mirror[id]

\* The entry of a text lists the rows that have it, and every row is listed.
RowsListed ==
  /\ \A id \in DOMAIN entries :
       entries[id].rows = {r \in DOMAIN textOf : textOf[r] = TextAt(id)}
  /\ \A r \in DOMAIN textOf : \E id \in DOMAIN entries : TextAt(id) = textOf[r]

DictInv == DictTypeOK /\ LaidOut /\ PointersKnown /\ RowsListed

\* What appending the entry of a new text does to books that agree.
LEMMA AppendedKeeps ==
  ASSUME DictTypeOK, LaidOut, NEW t \in Texts, ~Known(t),
         NEW offsets, NEW content, Appended(t, offsets, content),
         DOMAIN offsets = Ids, DOMAIN content \subseteq Int,
         \A id \in Ids : /\ offsets[id] = PackedOffset(dict, id)
                         /\ offsets[id] \in DOMAIN content /\ content[offsets[id]] = id,
         UsedBytes(dict) + EntryHeader + TextLen[t] <= capacity'
  PROVE  /\ dict' = Append(dict, t) /\ DOMAIN page' \subseteq Int
         /\ LaidOut'
         /\ \A id \in Ids : mirror'[id] = mirror[id]
<1> DEFINE n == Len(dict)
           off == UsedBytes(dict) + EntryHeader
<1>1. /\ dict \in Seq(Texts) /\ n \in Nat
      /\ UsedBytes(dict) \in Int /\ TextLen[t] \in Nat
  BY Layout, TextsAssumption DEF DictTypeOK
<1>2. /\ dict' = Append(dict, t) /\ mirror' = With(offsets, n, off)
      /\ page' = With(content, off, n)
  BY DEF Appended
<1>3. /\ dict' \in Seq(Texts) /\ Len(dict') = n + 1 /\ dict'[n + 1] = t
      /\ \A i \in 1 .. n : dict'[i] = dict[i]
  BY <1>1, <1>2, AppendProperties
<1>4. /\ DOMAIN mirror' = Ids \cup {n} /\ mirror'[n] = off
      /\ \A id \in Ids : id # n => mirror'[id] = offsets[id]
  <2> HIDE DEF n, off
  <2> QED BY <1>2 DEF With
<1>5. /\ DOMAIN page' = DOMAIN content \cup {off} /\ page'[off] = n
      /\ \A x \in DOMAIN content : x # off => page'[x] = content[x]
  <2> HIDE DEF n, off
  <2> QED BY <1>2 DEF With
<1>6. off \in Int
  BY <1>1 DEF EntryHeader
<1>7. Ids' = 0 .. n /\ Ids = 0 .. n - 1
  BY <1>1, <1>3 DEF Ids
<1>8. ASSUME NEW id \in Ids
      PROVE  /\ id # n /\ id + 1 \in 1 .. n /\ dict'[id + 1] = dict[id + 1]
             /\ dict'[id + 1] # t
             /\ PackedOffset(dict, id) < off
  <2>1. id # n /\ id + 1 \in 1 .. n
    BY <1>1, <1>7
  <2>2. dict[id + 1] # t
    BY DEF Known, TextAt
  <2>3. /\ PackedOffset(dict, id) \in Int
        /\ PackedOffset(dict, id) + TextLen[dict[id + 1]] <= UsedBytes(dict)
    BY <1>1, <1>7, Layout
  <2>4. TextLen[dict[id + 1]] \in Nat
    BY <1>1, <2>1, ElementOfSeq, TextsAssumption
  <2>5. PackedOffset(dict, id) < off
    BY <1>1, <2>3, <2>4 DEF EntryHeader
  <2> QED BY <1>3, <2>1, <2>2, <2>5
<1>9. /\ UsedBytes(dict') = UsedBytes(dict) + EntryHeader + TextLen[t]
      /\ \A id \in Ids : PackedOffset(dict', id) = PackedOffset(dict, id)
      /\ PackedOffset(dict', n) = off
  BY <1>1, <1>2, <1>7, LayoutGrows
<1> HIDE DEF n, off
<1>10. \A id \in Ids' : id \in Ids \/ id = n
  BY <1>1, <1>7
<1>11. \A id \in Ids : mirror'[id] = PackedOffset(dict, id)
  BY <1>4, <1>8
<1>12. \A a, b \in Ids' : dict'[a + 1] = dict'[b + 1] => a = b
  BY <1>3, <1>8, <1>10 DEF LaidOut, TextAt
<1>13. DOMAIN mirror' = Ids'
  BY <1>1, <1>4, <1>7
<1>14. ASSUME NEW id \in Ids'
       PROVE  /\ mirror'[id] = PackedOffset(dict', id)
              /\ mirror'[id] \in DOMAIN page' /\ page'[mirror'[id]] = id
  <2>1. CASE id = n
    BY <1>4, <1>5, <1>9, <2>1
  <2>2. CASE id \in Ids
    <3>1. mirror'[id] = PackedOffset(dict', id)
      BY <1>9, <1>11, <2>2
    <3>2. offsets[id] \in DOMAIN content /\ content[offsets[id]] = id
          /\ offsets[id] = PackedOffset(dict, id)
      BY <2>2
    <3>3. PackedOffset(dict, id) < off /\ PackedOffset(dict, id) # off
      BY <1>1, <1>6, <1>8, <2>2, <1>7, Layout
    <3> QED BY <1>5, <1>11, <2>2, <3>1, <3>2, <3>3
  <2> QED BY <1>10, <2>1, <2>2
<1>15. UsedBytes(dict') <= capacity'
  BY <1>9
<1>16. LaidOut'
  BY <1>12, <1>13, <1>14, <1>15 DEF LaidOut, TextAt
<1>17. DOMAIN page' \subseteq Int
  BY <1>5, <1>6
<1> QED BY <1>2, <1>11, <1>16, <1>17 DEF LaidOut

\* Interning a text keeps the books, and whatever pointed at a text and was
\* not moved still does; a grown page is in a new buffer, of a new generation.
LEMMA InternKeeps ==
  ASSUME DictTypeOK, LaidOut, NEW t \in Texts, Intern(t)
  PROVE  /\ dict' \in Seq(Texts) /\ capacity' \in Int /\ DOMAIN page' \subseteq Int
         /\ LaidOut'
         /\ Ids \subseteq Ids' /\ \A id \in Ids : TextAt(id)' = TextAt(id)
         /\ \A id \in Ids : mirror'[id] = mirror[id]
         /\ \/ buffer' = buffer /\ gen' = gen
            \/ buffer' = buffer + 1 /\ gen' = gen + 1
         /\ IdOf(dict', t) \in Ids' /\ dict'[IdOf(dict', t) + 1] = t
<1>1. dict \in Seq(Texts) /\ Len(dict) \in Nat /\ capacity \in Int
  BY DEF DictTypeOK
<1>2. ASSUME \E id \in Ids' : dict'[id + 1] = t
      PROVE  IdOf(dict', t) \in Ids' /\ dict'[IdOf(dict', t) + 1] = t
  BY <1>2 DEF IdOf, Ids
<1>3. CASE Known(t) /\ UNCHANGED <<dictPage, dict, mirror, capacity, page, gen, buffer>>
  <2>1. Ids' = Ids /\ \E id \in Ids' : dict'[id + 1] = t
    BY <1>3 DEF Ids, Known, TextAt
  <2>2. LaidOut'
    BY <1>3, <2>1 DEF LaidOut, TextAt
  <2> QED BY <1>1, <1>2, <1>3, <2>1, <2>2 DEF DictTypeOK, TextAt
<1>4. ASSUME dict' = Append(dict, t)
      PROVE  /\ dict' \in Seq(Texts) /\ Ids \subseteq Ids'
             /\ \A id \in Ids : dict'[id + 1] = dict[id + 1]
             /\ \E id \in Ids' : dict'[id + 1] = t
  <2>1. /\ dict' \in Seq(Texts) /\ Len(dict') = Len(dict) + 1 /\ dict'[Len(dict) + 1] = t
        /\ \A i \in 1 .. Len(dict) : dict'[i] = dict[i]
    BY <1>1, <1>4, AppendProperties
  <2>2. \A id \in Ids : id + 1 \in 1 .. Len(dict)
    BY <1>1 DEF Ids
  <2>3. Len(dict) \in Ids' /\ Ids \subseteq Ids'
    BY <1>1, <2>1 DEF Ids
  <2> QED BY <2>1, <2>2, <2>3
<1>5. CASE /\ ~Known(t) /\ Fits(t, capacity) /\ Appended(t, mirror, page)
           /\ UNCHANGED <<capacity, gen, buffer>>
  <2>1. UsedBytes(dict) + EntryHeader + TextLen[t] <= capacity'
    BY <1>5 DEF Fits
  <2>2. /\ dict' = Append(dict, t) /\ DOMAIN page' \subseteq Int /\ LaidOut'
        /\ \A id \in Ids : mirror'[id] = mirror[id]
    BY <1>5, <2>1, AppendedKeeps DEF DictTypeOK, LaidOut
  <2> QED BY <1>1, <1>2, <1>4, <1>5, <2>2 DEF TextAt
<1>6. CASE /\ ~Known(t) /\ Fits(t, 2 * capacity)
           /\ Appended(t, PackedMirror, PackedPage)
           /\ capacity' = 2 * capacity /\ gen' = NextGen(gen) /\ buffer' = buffer + 1
  <2>1. UsedBytes(dict) + EntryHeader + TextLen[t] <= capacity'
    BY <1>6 DEF Fits
  <2>2. \A id \in Ids : PackedOffset(dict, id) \in Int
    BY <1>1, Layout DEF Ids
  <2>3. \A a, b \in Ids : PackedOffset(dict, a) = PackedOffset(dict, b) => a = b
    BY DEF LaidOut
  <2>4. DOMAIN PackedMirror = Ids /\ DOMAIN PackedPage \subseteq Int
    BY <2>2 DEF PackedMirror, PackedPage
  <2>5. ASSUME NEW id \in Ids
        PROVE  /\ PackedMirror[id] = PackedOffset(dict, id)
               /\ PackedMirror[id] \in DOMAIN PackedPage /\ PackedPage[PackedMirror[id]] = id
    BY <2>3 DEF PackedMirror, PackedPage
  <2>6. /\ dict' = Append(dict, t) /\ DOMAIN page' \subseteq Int /\ LaidOut'
        /\ \A id \in Ids : mirror'[id] = mirror[id]
    BY <1>6, <2>1, <2>4, <2>5, AppendedKeeps
  <2>7. capacity' \in Int /\ buffer' = buffer + 1 /\ gen' = gen + 1
    BY <1>1, <1>6 DEF NextGen
  <2>8. \A id \in Ids : TextAt(id)' = TextAt(id)
    BY <1>4, <2>6 DEF TextAt
  <2> QED BY <1>2, <1>4, <2>6, <2>7, <2>8
<1> QED BY <1>3, <1>5, <1>6 DEF Intern

\* An index without a dictionary satisfies the invariant.
LEMMA DictInitial ==
  ASSUME DictInit
  PROVE  DictInv
<1> USE DEF DictInit
<1>1. Ids = {} /\ DOMAIN mirror = {} /\ DOMAIN entries = {} /\ DOMAIN textOf = {} /\ DOMAIN page = {}
  BY DEF Ids
<1>2. DictTypeOK
  BY <1>1 DEF DictTypeOK, DictPageCapacity
<1>3. UsedBytes(dict) = CountHeader
  <2>1. PICK f \in [0 .. Len(dict) -> Int] :
          /\ SumsOf(f, Len(dict), CountHeader, EntryBytes(dict))
          /\ \A k \in 0 .. Len(dict) : UsedBytes(SubSeq(dict, 1, k)) = f[k]
    BY <1>2, UsedOfPrefixes DEF DictTypeOK
  <2>2. Len(dict) = 0 /\ dict \in Seq(Texts)
    BY <1>2, EmptySeq DEF DictTypeOK
  <2>3. SubSeq(dict, 1, 0) = dict
    BY <2>2, SubSeqFull
  <2> QED BY <2>1, <2>2, <2>3 DEF SumsOf
<1>4. LaidOut
  BY <1>1, <1>3 DEF LaidOut, CountHeader, DictPageCapacity
<1> QED BY <1>1, <1>2, <1>4 DEF DictInv, PointersKnown, RowsListed

\* What Intern leaves of the pointers: an entry that is of the page's generation
\* or buffer was so before, since a grown page is of a new one.
LEMMA InternedPointers ==
  ASSUME DictInv, NEW t \in Texts, Intern(t)
  PROVE  /\ Ids \subseteq Ids'
         /\ \A id \in DOMAIN entries :
              /\ entries[id].gen <= gen' /\ entries[id].buffer <= buffer'
              /\ bound /\ entries[id].gen = gen' => entries[id].buffer = buffer'
              /\ bound /\ entries[id].buffer = buffer' => entries[id].off = mirror'[id]
         /\ buffer' \in Nat /\ gen' \in Nat
<1> USE DEF DictInv
<1>1. /\ Ids \subseteq Ids' /\ \A id \in Ids : mirror'[id] = mirror[id]
      /\ \/ buffer' = buffer /\ gen' = gen
         \/ buffer' = buffer + 1 /\ gen' = gen + 1
  BY InternKeeps
<1>2. buffer \in Nat /\ gen \in Nat
  BY DEF DictTypeOK
<1>3. ASSUME NEW id \in DOMAIN entries
      PROVE  /\ entries[id].gen <= gen' /\ entries[id].buffer <= buffer'
             /\ bound /\ entries[id].gen = gen' => entries[id].buffer = buffer'
             /\ bound /\ entries[id].buffer = buffer' => entries[id].off = mirror'[id]
  <2>1. id \in Ids /\ entries[id] \in EntryType
    BY DEF DictTypeOK, PointersKnown
  <2>2. entries[id].gen \in Nat /\ entries[id].buffer \in Nat
    BY <2>1 DEF EntryType
  <2>3. /\ entries[id].gen <= gen /\ entries[id].buffer <= buffer
        /\ bound /\ entries[id].gen = gen => entries[id].buffer = buffer
        /\ bound /\ entries[id].buffer = buffer => entries[id].off = mirror[id]
    BY DEF PointersKnown, Current
  <2> QED BY <1>1, <1>2, <2>1, <2>2, <2>3
<1> QED BY <1>1, <1>2, <1>3

\* An inserted row joins the entry of its text, or begins one.
LEMMA InsertRowKeeps ==
  ASSUME DictInv, NEW row \in Rows, NEW t \in Texts, InsertRow(row, t)
  PROVE  DictInv'
<1>1. DictTypeOK /\ LaidOut /\ PointersKnown /\ RowsListed
  BY DEF DictInv
<1>2. Intern(t) /\ row \notin DOMAIN textOf /\ bound' = bound
  BY DEF InsertRow
<1>0. PICK new : new = IdOf(dict', t)
  OBVIOUS
<1>3. /\ dict' \in Seq(Texts) /\ capacity' \in Int /\ DOMAIN page' \subseteq Int
      /\ LaidOut' /\ Ids \subseteq Ids' /\ \A id \in Ids : dict'[id + 1] = TextAt(id)
      /\ new \in Ids' /\ dict'[new + 1] = t
  BY <1>1, <1>2, <1>0, InternKeeps DEF TextAt
<1>4. /\ \A id \in DOMAIN entries :
           /\ entries[id].gen <= gen' /\ entries[id].buffer <= buffer'
           /\ bound /\ entries[id].gen = gen' => entries[id].buffer = buffer'
           /\ bound /\ entries[id].buffer = buffer' => entries[id].off = mirror'[id]
      /\ buffer' \in Nat /\ gen' \in Nat
  BY <1>2, InternedPointers
<1>5. entries' = Listed(new, row) /\ textOf' = With(textOf, row, t)
  BY <1>0 DEF InsertRow
<1>6. /\ DOMAIN textOf' = DOMAIN textOf \cup {row} /\ textOf'[row] = t
      /\ \A x \in DOMAIN textOf : textOf'[x] = textOf[x]
      /\ textOf' \in [DOMAIN textOf' -> Texts]
  BY <1>1, <1>2, <1>5 DEF With, DictTypeOK
<1>7. \A id \in DOMAIN entries : entries[id] \in EntryType
  BY <1>1 DEF DictTypeOK
<1>8. mirror'[new] \in Int
  BY <1>3, Layout DEF LaidOut, Ids
<1>9. ASSUME NEW id \in DOMAIN entries, id # new
      PROVE  id \in DOMAIN entries' /\ entries'[id] = entries[id]
  BY <1>5, <1>9 DEF Listed, With
<1>10. DOMAIN entries' = DOMAIN entries \cup {new}
  BY <1>5 DEF Listed, With
<1>11. /\ entries'[new] \in EntryType
       /\ entries'[new].gen <= gen' /\ entries'[new].buffer <= buffer'
       /\ bound /\ entries'[new].gen = gen' => entries'[new].buffer = buffer'
       /\ bound /\ entries'[new].buffer = buffer' => entries'[new].off = mirror'[new]
       /\ entries'[new].rows =
            (IF new \in DOMAIN entries THEN entries[new].rows ELSE {}) \cup {row}
  <2>1. CASE new \in DOMAIN entries
    <3>1. entries' = [entries EXCEPT ![new].rows = @ \cup {row}]
      BY <1>5, <2>1 DEF Listed
    <3>2. entries'[new] = [entries[new] EXCEPT !.rows = @ \cup {row}]
      BY <2>1, <3>1
    <3>3. entries[new] \in EntryType
      BY <1>7, <2>1
    <3>4. /\ entries'[new] \in EntryType /\ entries'[new].gen = entries[new].gen
          /\ entries'[new].buffer = entries[new].buffer
          /\ entries'[new].off = entries[new].off
          /\ entries'[new].rows = entries[new].rows \cup {row}
      BY <3>2, <3>3 DEF EntryType
    <3> QED BY <1>4, <2>1, <3>4
  <2>2. CASE new \notin DOMAIN entries
    <3>1. entries' = With(entries, new, Captured(row, mirror'[new]))
      BY <1>5, <2>2 DEF Listed
    <3>2. entries'[new] = [buffer |-> buffer', off |-> mirror'[new], gen |-> gen', rows |-> {row}]
      BY <3>1 DEF With, Captured
    <3> QED BY <1>4, <1>8, <2>2, <3>2 DEF EntryType
  <2> QED BY <2>1, <2>2
<1>12. DictTypeOK'
  <2>1. \A id \in DOMAIN entries' : entries'[id] \in EntryType
    BY <1>7, <1>9, <1>10, <1>11
  <2>2. entries' \in [DOMAIN entries' -> EntryType]
    <3>1. entries' = [id \in DOMAIN entries' |-> entries'[id]]
      BY <1>1, <1>5 DEF Listed, With, DictTypeOK
    <3> QED BY <2>1, <3>1
  <2> QED BY <1>1, <1>2, <1>3, <1>4, <1>6, <2>2 DEF DictTypeOK
<1>13. PointersKnown'
  <2>1. DOMAIN entries \subseteq Ids
    BY <1>1 DEF PointersKnown
  <2>2. DOMAIN entries' \subseteq Ids'
    BY <1>3, <1>10, <2>1
  <2>3. ASSUME NEW id \in DOMAIN entries'
        PROVE  /\ entries'[id].gen <= gen' /\ entries'[id].buffer <= buffer'
               /\ bound' /\ entries'[id].gen = gen' => entries'[id].buffer = buffer'
               /\ bound' /\ entries'[id].buffer = buffer' => entries'[id].off = mirror'[id]
    BY <1>2, <1>4, <1>9, <1>10, <1>11
  <2> QED BY <2>2, <2>3 DEF PointersKnown, Current
<1>14. RowsListed'
  <2>1. \A a, b \in Ids' : dict'[a + 1] = dict'[b + 1] => a = b
    BY <1>3 DEF LaidOut, TextAt
  <2>2. \A id \in DOMAIN entries : id \in Ids' /\ dict'[id + 1] = TextAt(id)
    BY <1>1, <1>3 DEF PointersKnown
  <2>3. ASSUME NEW id \in DOMAIN entries'
        PROVE  entries'[id].rows = {r \in DOMAIN textOf' : textOf'[r] = dict'[id + 1]}
    <3>1. CASE id # new
      <4>1. id \in DOMAIN entries /\ entries'[id].rows = entries[id].rows
        BY <1>9, <1>10, <3>1
      <4>2. dict'[id + 1] # t
        BY <1>3, <2>1, <2>2, <3>1, <4>1
      <4>3. entries[id].rows = {r \in DOMAIN textOf : textOf[r] = TextAt(id)}
        BY <1>1, <4>1 DEF RowsListed
      <4> QED BY <1>6, <2>2, <4>1, <4>2, <4>3
    <3>2. CASE id = new /\ new \in DOMAIN entries
      <4>1. entries'[id].rows = entries[id].rows \cup {row}
        BY <1>11, <3>2
      <4>2. entries[id].rows = {r \in DOMAIN textOf : textOf[r] = TextAt(id)} /\ dict'[id + 1] = t
        BY <1>1, <1>3, <3>2 DEF RowsListed
      <4> QED BY <1>6, <2>2, <3>2, <4>1, <4>2
    <3>3. CASE id = new /\ new \notin DOMAIN entries
      <4>1. entries'[id].rows = {row} /\ dict'[id + 1] = t
        BY <1>3, <1>11, <3>3
      <4>2. ASSUME NEW r \in DOMAIN textOf
            PROVE  textOf[r] # t
        <5>1. PICK a \in DOMAIN entries : TextAt(a) = textOf[r]
          BY <1>1 DEF RowsListed
        <5>2. a # new
          BY <3>3, <5>1
        <5> QED BY <1>3, <2>1, <2>2, <5>1, <5>2
      <4> QED BY <1>6, <4>1, <4>2
    <3> QED BY <3>1, <3>2, <3>3
  <2>4. ASSUME NEW r \in DOMAIN textOf'
        PROVE  \E id \in DOMAIN entries' : dict'[id + 1] = textOf'[r]
    <3>1. CASE r = row
      BY <1>3, <1>6, <1>10, <3>1
    <3>2. CASE r # row
      <4>1. r \in DOMAIN textOf /\ textOf'[r] = textOf[r]
        BY <1>6, <3>2
      <4>2. PICK a \in DOMAIN entries : TextAt(a) = textOf[r]
        BY <1>1, <4>1 DEF RowsListed
      <4> QED BY <1>10, <2>2, <4>1, <4>2
    <3> QED BY <3>1, <3>2
  <2> QED BY <2>3, <2>4 DEF RowsListed, TextAt
<1> QED BY <1>3, <1>12, <1>13, <1>14 DEF DictInv

\* A statement that only names a text moves no entry.
LEMMA MentionKeeps ==
  ASSUME DictInv, NEW t \in Texts, Mention(t)
  PROVE  DictInv'
<1>1. DictTypeOK /\ LaidOut /\ PointersKnown /\ RowsListed
  BY DEF DictInv
<1>2. Intern(t) /\ UNCHANGED <<entries, textOf, panicked, bound>>
  BY DEF Mention
<1>3. /\ dict' \in Seq(Texts) /\ capacity' \in Int /\ DOMAIN page' \subseteq Int
      /\ LaidOut' /\ Ids \subseteq Ids' /\ \A id \in Ids : dict'[id + 1] = dict[id + 1]
  BY <1>1, <1>2, InternKeeps DEF TextAt
<1>4. /\ \A id \in DOMAIN entries :
           /\ entries[id].gen <= gen' /\ entries[id].buffer <= buffer'
           /\ bound /\ entries[id].gen = gen' => entries[id].buffer = buffer'
           /\ bound /\ entries[id].buffer = buffer' => entries[id].off = mirror'[id]
      /\ buffer' \in Nat /\ gen' \in Nat
  BY <1>2, InternedPointers
<1>5. DictTypeOK'
  BY <1>1, <1>2, <1>3, <1>4 DEF DictTypeOK
<1>6. PointersKnown'
  BY <1>1, <1>2, <1>3, <1>4 DEF PointersKnown, Current
<1>7. RowsListed'
  <2>1. \A id \in DOMAIN entries : dict'[id + 1] = dict[id + 1]
    BY <1>1, <1>3 DEF PointersKnown
  <2> QED BY <1>1, <1>2, <2>1 DEF RowsListed, TextAt
<1> QED BY <1>3, <1>5, <1>6, <1>7 DEF DictInv

\* A delete takes the same rows from the table and from every entry.
LEMMA DeleteEqKeeps ==
  ASSUME DictInv, NEW t \in Texts, DeleteEq(t)
  PROVE  DictInv'
<1>1. DictTypeOK /\ LaidOut /\ PointersKnown /\ RowsListed
  BY DEF DictInv
<1>2. Intern(t) /\ bound' = bound
  BY DEF DeleteEq
<1>3. /\ dict' \in Seq(Texts) /\ capacity' \in Int /\ DOMAIN page' \subseteq Int
      /\ LaidOut' /\ Ids \subseteq Ids' /\ \A id \in Ids : dict'[id + 1] = dict[id + 1]
  BY <1>1, <1>2, InternKeeps DEF TextAt
<1>4. /\ \A id \in DOMAIN entries :
           /\ entries[id].gen <= gen' /\ entries[id].buffer <= buffer'
           /\ bound /\ entries[id].gen = gen' => entries[id].buffer = buffer'
           /\ bound /\ entries[id].buffer = buffer' => entries[id].off = mirror'[id]
      /\ buffer' \in Nat /\ gen' \in Nat
  BY <1>2, InternedPointers
<1>5. PICK gone : /\ textOf' = Restrict(textOf, DOMAIN textOf \ gone)
                  /\ entries' = [id \in DOMAIN entries |->
                                   [entries[id] EXCEPT !.rows = @ \ gone]]
  BY DEF DeleteEq
<1>6. /\ DOMAIN textOf' = DOMAIN textOf \ gone
      /\ \A r \in DOMAIN textOf' : textOf'[r] = textOf[r]
      /\ textOf' \in [DOMAIN textOf' -> Texts]
  BY <1>1, <1>5 DEF Restrict, DictTypeOK
<1>7. ASSUME NEW id \in DOMAIN entries
      PROVE  /\ entries'[id] \in EntryType
             /\ entries'[id].gen = entries[id].gen /\ entries'[id].buffer = entries[id].buffer
             /\ entries'[id].off = entries[id].off
             /\ entries'[id].rows = entries[id].rows \ gone
  <2>1. entries[id] \in EntryType
    BY <1>1 DEF DictTypeOK
  <2>2. entries'[id] = [entries[id] EXCEPT !.rows = @ \ gone]
    BY <1>5
  <2> QED BY <2>1, <2>2 DEF EntryType
<1>8. DOMAIN entries' = DOMAIN entries
  BY <1>5
<1>9. DictTypeOK'
  <2>1. entries' \in [DOMAIN entries' -> EntryType]
    BY <1>5, <1>7, <1>8
  <2> QED BY <1>1, <1>2, <1>3, <1>4, <1>6, <2>1 DEF DictTypeOK
<1>10. PointersKnown'
  <2>1. DOMAIN entries' \subseteq Ids'
    BY <1>1, <1>3, <1>8 DEF PointersKnown
  <2> QED BY <1>2, <1>4, <1>7, <1>8, <2>1 DEF PointersKnown, Current
<1>11. RowsListed'
  <2>1. \A id \in DOMAIN entries : dict'[id + 1] = dict[id + 1]
    BY <1>1, <1>3 DEF PointersKnown
  <2>2. ASSUME NEW id \in DOMAIN entries'
        PROVE  entries'[id].rows = {r \in DOMAIN textOf' : textOf'[r] = dict'[id + 1]}
    <3>1. entries[id].rows = {r \in DOMAIN textOf : textOf[r] = dict[id + 1]}
      BY <1>1, <1>8 DEF RowsListed, TextAt
    <3>2. entries'[id].rows = entries[id].rows \ gone /\ dict'[id + 1] = dict[id + 1]
      BY <1>7, <1>8, <2>1
    <3> QED BY <1>6, <3>1, <3>2
  <2>3. ASSUME NEW r \in DOMAIN textOf'
        PROVE  \E id \in DOMAIN entries' : dict'[id + 1] = textOf'[r]
    <3>1. PICK a \in DOMAIN entries : dict[a + 1] = textOf[r]
      BY <1>1, <1>6 DEF RowsListed, TextAt
    <3> QED BY <1>6, <1>8, <2>1, <3>1
  <2> QED BY <2>2, <2>3 DEF RowsListed, TextAt
<1> QED BY <1>3, <1>9, <1>10, <1>11 DEF DictInv

\* A load packs the mirror as it was, and binds each pointer that did not dangle.
LEMMA ReloadKeeps ==
  ASSUME DictInv, Reload
  PROVE  DictInv'
<1>1. DictTypeOK /\ LaidOut /\ PointersKnown /\ RowsListed
  BY DEF DictInv
<1>2. /\ \A id \in DOMAIN entries : entries[id].gen = 0
      /\ gen' = 0 /\ buffer' = buffer + 1 /\ mirror' = PackedMirror
      /\ bound' = (bound /\ Dangling = {})
      /\ UNCHANGED <<dictPage, dict, capacity, page, textOf, panicked>>
  BY DEF Reload
<1>3. PICK distance \in [Dangling -> {0} \cup DOMAIN page] :
        entries' = [id \in DOMAIN entries |->
                      [entries[id] EXCEPT
                         !.buffer = buffer + 1,
                         !.off = IF id \in Dangling THEN distance[id] ELSE @]]
  BY DEF Reload
<1>4. ASSUME NEW id \in DOMAIN entries
      PROVE  /\ entries'[id] \in EntryType
             /\ entries'[id].gen = entries[id].gen /\ entries'[id].buffer = buffer + 1
             /\ id \notin Dangling => entries'[id].off = entries[id].off
             /\ entries'[id].rows = entries[id].rows
  <2> DEFINE o == IF id \in Dangling THEN distance[id] ELSE entries[id].off
  <2>1. entries[id] \in EntryType /\ buffer \in Nat /\ DOMAIN page \subseteq Int
    BY <1>1 DEF DictTypeOK
  <2>2. o \in Int
    BY <2>1 DEF EntryType
  <2>3. entries'[id] = [entries[id] EXCEPT !.buffer = buffer + 1, !.off = o]
    BY <1>3
  <2>4. id \notin Dangling => o = entries[id].off
    OBVIOUS
  <2> HIDE DEF o
  <2>5. entries'[id] = [buffer |-> buffer + 1, off |-> o, gen |-> entries[id].gen,
                        rows |-> entries[id].rows]
    BY <2>1, <2>3 DEF EntryType
  <2>6. /\ entries'[id].gen = entries[id].gen /\ entries'[id].buffer = buffer + 1
        /\ entries'[id].off = o /\ entries'[id].rows = entries[id].rows
    BY <2>5
  <2>7. entries'[id] \in EntryType
    BY <2>1, <2>2, <2>5 DEF EntryType
  <2> QED BY <2>4, <2>6, <2>7
<1>5. DOMAIN entries' = DOMAIN entries
  BY <1>3
<1>6. Ids' = Ids /\ \A id \in Ids : mirror'[id] = mirror[id]
  BY <1>1, <1>2 DEF Ids, PackedMirror, LaidOut
<1>7. DictTypeOK'
  <2>1. entries' \in [DOMAIN entries' -> EntryType]
    BY <1>3, <1>4, <1>5
  <2> QED BY <1>1, <1>2, <2>1 DEF DictTypeOK
<1>8. LaidOut'
  <2>1. DOMAIN mirror' = Ids
    BY <1>2 DEF PackedMirror
  <2> QED BY <1>1, <1>2, <1>6, <2>1 DEF LaidOut, TextAt
<1>9. PointersKnown'
  <2>1. ASSUME bound', NEW id \in DOMAIN entries
        PROVE  entries'[id].off = mirror'[id]
    <3>1. bound /\ id \notin Dangling /\ id \in Ids
      BY <1>1, <1>2, <2>1 DEF PointersKnown
    <3>2. entries[id].off = mirror[id]
      BY <1>1, <3>1 DEF PointersKnown, Dangling
    <3> QED BY <1>4, <1>6, <3>1, <3>2
  <2>2. buffer + 1 <= buffer + 1
    BY <1>1 DEF DictTypeOK
  <2> QED BY <1>1, <1>2, <1>4, <1>5, <1>6, <2>1, <2>2 DEF PointersKnown, Current
<1>10. RowsListed'
  BY <1>1, <1>2, <1>4, <1>5 DEF RowsListed, TextAt
<1> QED BY <1>7, <1>8, <1>9, <1>10 DEF DictInv

\* The invariant of the dictionary page and its index, for every set of texts and
\* lengths and any number of rows, loads and grown pages.
THEOREM DictInvariant == DictSpec => []DictInv
<1>1. DictInit => DictInv
  BY DictInitial
<1>2. DictInv /\ [DictNext]_dictVars => DictInv'
  <2> SUFFICES ASSUME DictInv, [DictNext]_dictVars
               PROVE  DictInv'
    OBVIOUS
  <2>1. ASSUME NEW t \in Texts, Panic(t)
        PROVE  DictInv'
    BY <2>1 DEF Panic, DictInv, DictTypeOK, LaidOut, PointersKnown, RowsListed, Ids,
             TextAt, Current
  <2>2. CASE UNCHANGED dictVars
    BY <2>2 DEF dictVars, DictInv, DictTypeOK, LaidOut, PointersKnown, RowsListed, Ids,
             TextAt, Current
  <2> QED BY <2>1, <2>2, InsertRowKeeps, MentionKeeps, DeleteEqKeeps, ReloadKeeps DEF DictNext
<1> QED BY <1>1, <1>2, PTL DEF DictSpec

\* The mirror of the dictionary describes the page's bytes, however often the page
\* was grown or loaded (dict.rs intern, grow and from_page).
THEOREM MirrorExact == DictSpec => []MirrorDescribesPage
<1>1. DictInv => MirrorDescribesPage
  <2> SUFFICES ASSUME DictInv
               PROVE  MirrorDescribesPage
    OBVIOUS
  <2>1. DictTypeOK /\ LaidOut
    BY DEF DictInv
  <2>2. dict \in Seq(Texts) /\ capacity \in Int /\ Len(dict) \in Nat
    BY <2>1 DEF DictTypeOK
  <2>3. ASSUME NEW id \in Ids
        PROVE  mirror[id] + TextLen[TextAt(id)] <= capacity
    <3>1. /\ UsedBytes(dict) \in Int /\ mirror[id] \in Int
          /\ mirror[id] + TextLen[TextAt(id)] <= UsedBytes(dict)
      BY <2>1, <2>2, Layout DEF LaidOut, Ids, TextAt
    <3>2. TextLen[TextAt(id)] \in Nat
      <4>1. id + 1 \in 1 .. Len(dict)
        BY <2>2 DEF Ids
      <4> QED BY <2>2, <4>1, ElementOfSeq, TextsAssumption DEF TextAt
    <3> QED BY <2>1, <2>2, <3>1, <3>2 DEF LaidOut
  <2>4. ASSUME NEW a \in Ids, NEW b \in Ids, a < b
        PROVE  mirror[a] + TextLen[TextAt(a)] + EntryHeader <= mirror[b]
    BY <2>1, <2>2, <2>4, Layout DEF LaidOut, Ids, TextAt
  <2> QED BY <2>1, <2>3, <2>4 DEF MirrorDescribesPage, LaidOut
<1> QED BY <1>1, DictInvariant, PTL

\* The generation tells which cached pointers are stale (script.rs and index.rs,
\* Page::gen), as long as no file was loaded that had a dangling pointer.
THEOREM GenerationSound == DictSpec => []GenerationTellsStale
<1>1. DictInv => GenerationTellsStale
  BY DEF DictInv, PointersKnown, GenerationTellsStale, PointsAtText
<1> QED BY <1>1, DictInvariant, PTL

\* A probe whose entries are all in the page's buffer finds the entry of its text.
LEMMA ProbeFindsText ==
  ASSUME DictInv, bound, NEW t \in Texts, DeleteEq(t),
         \A id \in DOMAIN entries : entries[id].buffer = buffer'
  PROVE  textOf' = Restrict(textOf, {r \in DOMAIN textOf : textOf[r] # t})
<1> DEFINE reads(id) == entries[id].off \in DOMAIN page' /\ dict'[page'[entries[id].off] + 1] = t
           fresh == {id \in DOMAIN entries : entries[id].buffer = buffer'}
           hits == {id \in fresh : reads(id)}
<1>1. DictTypeOK /\ LaidOut /\ PointersKnown /\ RowsListed
  BY DEF DictInv
<1>2. PICK misread \in SUBSET (DOMAIN entries \ fresh) :
        textOf' = Restrict(textOf,
                    DOMAIN textOf \ UNION {entries[id].rows : id \in hits \cup misread})
  BY DEF DeleteEq
<1>3. misread = {} /\ fresh = DOMAIN entries
  BY <1>2
<1>4. Intern(t)
  BY DEF DeleteEq
<1>5. LaidOut' /\ Ids \subseteq Ids' /\ \A id \in Ids : dict'[id + 1] = dict[id + 1]
  BY <1>1, <1>4, InternKeeps DEF TextAt
<1>6. \A id \in DOMAIN entries : entries[id].off = mirror'[id]
  BY <1>4, InternedPointers
<1>7. ASSUME NEW id \in DOMAIN entries
      PROVE  reads(id) <=> dict[id + 1] = t
  <2>1. id \in Ids /\ id \in Ids' /\ dict'[id + 1] = dict[id + 1]
    BY <1>1, <1>5 DEF PointersKnown
  <2>2. mirror'[id] \in DOMAIN page' /\ page'[mirror'[id]] = id
    BY <1>5, <2>1 DEF LaidOut
  <2> QED BY <1>6, <2>1, <2>2
<1>8. hits = {id \in DOMAIN entries : dict[id + 1] = t}
  BY <1>3, <1>7
<1> HIDE DEF hits, fresh
<1> DEFINE gone == UNION {entries[id].rows : id \in hits}
<1>9. gone = {r \in DOMAIN textOf : textOf[r] = t}
  <2>1. \A id \in hits : entries[id].rows = {r \in DOMAIN textOf : textOf[r] = t}
    BY <1>1, <1>8 DEF RowsListed, TextAt
  <2>2. ASSUME NEW r \in DOMAIN textOf, textOf[r] = t
        PROVE  \E id \in hits : r \in entries[id].rows
    <3>1. PICK id \in DOMAIN entries : dict[id + 1] = t
      BY <1>1, <2>2 DEF RowsListed, TextAt
    <3> QED BY <1>8, <2>1, <2>2, <3>1
  <2> QED BY <2>1, <2>2
<1>10. textOf' = Restrict(textOf, DOMAIN textOf \ gone)
  <2>1. hits \cup misread = hits
    BY <1>3
  <2> HIDE DEF gone
  <2> QED BY <1>2, <2>1 DEF gone
<1>11. DOMAIN textOf \ gone = {r \in DOMAIN textOf : textOf[r] # t}
  <2> HIDE DEF gone
  <2> QED BY <1>9
<1> HIDE DEF gone
<1> QED BY <1>10, <1>11

\* A delete by the index that names t removes every row with text t and no other,
\* unless an entry dangles when it probes (index.rs probe, mutation.rs).
THEOREM ProbeExact == DictSpec => ProbeIsExact
<1> DEFINE Exact ==
      \A t \in Texts :
        /\ DeleteEq(t) /\ bound
        /\ \A id \in DOMAIN entries : entries[id].buffer = buffer'
        => textOf' = Restrict(textOf, {r \in DOMAIN textOf : textOf[r] # t})
<1>1. DictInv /\ [DictNext]_dictVars => [Exact]_dictVars
  <2> SUFFICES ASSUME DictInv, NEW t \in Texts, DeleteEq(t), bound,
                      \A id \in DOMAIN entries : entries[id].buffer = buffer'
               PROVE  textOf' = Restrict(textOf, {r \in DOMAIN textOf : textOf[r] # t})
    OBVIOUS
  <2> QED BY ProbeFindsText
<1> QED BY <1>1, DictInvariant, PTL DEF DictSpec, ProbeIsExact

-----------------------------------------------------------------------------
(* How often an element is in a sequence of sequences.                     *)

Occ(s, e) == Cardinality({j \in DOMAIN s : s[j] = e})

\* g has the sums of a, up to the n-th.
Sums(g, a, n) ==
  /\ \A i \in 0 .. n : g[i] \in Nat
  /\ g[0] = 0 /\ \A i \in 1 .. n : a[i] \in Nat /\ g[i] = g[i - 1] + a[i]

\* Sums of numbers that differ at one place differ as these do.
LEMMA SumsDiffer ==
  ASSUME NEW n \in Nat, NEW a, NEW b, NEW g, NEW h, Sums(g, a, n), Sums(h, b, n),
         NEW x \in Nat, NEW y \in Nat, NEW m \in Nat,
         \A i \in 1 .. n : i # m => a[i] = b[i],
         m \in 1 .. n => a[m] + y = b[m] + x
  PROVE  IF m \in 1 .. n THEN g[n] + y = h[n] + x ELSE g[n] = h[n]
<1> DEFINE Right(i) == IF m \in 1 .. i THEN g[i] + y = h[i] + x ELSE g[i] = h[i]
           Wrong == {i \in 0 .. n : ~Right(i)}
<1>1. Wrong = {}
  <2> SUFFICES ASSUME Wrong # {} PROVE FALSE
    OBVIOUS
  <2>1. Wrong \subseteq Nat
    OBVIOUS
  <2> DEFINE i == Min(Wrong)
  <2>2. i \in Wrong /\ \A q \in Wrong : i <= q
    <3> HIDE DEF Wrong
    <3> QED BY <2>1, MinIsIn
  <2> HIDE DEF i
  <2>3. i \in 0 .. n /\ i \in Nat /\ ~Right(i)
    BY <2>2
  <2>4. CASE i = 0
    BY <2>3, <2>4 DEF Sums
  <2>5. CASE i # 0
    <3>1. i \in 1 .. n /\ i - 1 \in 0 .. n /\ ~(i <= i - 1)
      BY <2>3, <2>5
    <3>2. Right(i - 1)
      <4>1. i - 1 \notin Wrong
        BY <2>2, <3>1
      <4> QED BY <3>1, <4>1
    <3>3. /\ g[i] = g[i - 1] + a[i] /\ h[i] = h[i - 1] + b[i]
          /\ a[i] \in Nat /\ b[i] \in Nat /\ g[i] \in Nat /\ h[i] \in Nat /\ g[i - 1] \in Nat /\ h[i - 1] \in Nat
      BY <3>1 DEF Sums
    <3>4. CASE i = m
      <4>1. a[m] + y = b[m] + x /\ ~(m \in 1 .. i - 1) /\ m \in 1 .. i
        BY <2>3, <3>1, <3>4
      <4>2. g[i - 1] = h[i - 1]
        BY <3>2, <4>1
      <4>3. g[i] + y = h[i] + x
        BY ONLY <3>3, <3>4, <4>1, <4>2, x \in Nat, y \in Nat
      <4> QED BY <2>3, <4>1, <4>3
    <3>5. CASE i # m
      <4>1. a[i] = b[i] /\ (m \in 1 .. i <=> m \in 1 .. i - 1)
        BY <2>3, <3>1, <3>5
      <4>2. CASE m \in 1 .. i
        <5>1. g[i - 1] + y = h[i - 1] + x
          BY <3>2, <4>1, <4>2
        <5>2. g[i] + y = h[i] + x
          BY ONLY <3>3, <4>1, <5>1, x \in Nat, y \in Nat
        <5> QED BY <2>3, <4>2, <5>2
      <4>3. CASE ~(m \in 1 .. i)
        <5>1. g[i - 1] = h[i - 1]
          BY <3>2, <4>1, <4>3
        <5> QED BY <2>3, <3>3, <4>1, <4>3, <5>1
      <4> QED BY <4>2, <4>3
    <3> QED BY <3>4, <3>5
  <2> QED BY <2>4, <2>5
<1>2. n \in 0 .. n /\ n \notin Wrong
  BY <1>1
<1>3. Right(n)
  BY <1>2
<1> QED BY <1>3

\* What is in a sequence or in another behind it.
LEMMA OccOfConcat ==
  ASSUME NEW S, NEW s \in Seq(S), NEW t \in Seq(S), NEW e
  PROVE  /\ Occ(s, e) \in Nat /\ Occ(t, e) \in Nat
         /\ Occ(s \o t, e) = Occ(s, e) + Occ(t, e)
<1>1. /\ s \o t \in Seq(S) /\ Len(s \o t) = Len(s) + Len(t)
      /\ \A i \in 1 .. Len(s) + Len(t) :
           (s \o t)[i] = IF i <= Len(s) THEN s[i] ELSE t[i - Len(s)]
  BY ConcatProperties
<1>2. Len(s) \in Nat /\ Len(t) \in Nat /\ DOMAIN s = 1 .. Len(s) /\ DOMAIN t = 1 .. Len(t)
      /\ DOMAIN (s \o t) = 1 .. Len(s) + Len(t)
  BY <1>1
<1> DEFINE A == {j \in DOMAIN s : s[j] = e}
           B == {j \in DOMAIN t : t[j] = e}
           C == {j \in DOMAIN (s \o t) : (s \o t)[j] = e}
           D == {j \in Len(s) + 1 .. Len(s) + Len(t) : t[j - Len(s)] = e}
           f == [j \in B |-> Len(s) + j]
<1>3. C = A \cup D
  BY <1>1, <1>2
<1>4. A \cap D = {}
  BY <1>2
<1>5. IsFiniteSet(A) /\ IsFiniteSet(B)
  <2>1. IsFiniteSet(1 .. Len(s)) /\ IsFiniteSet(1 .. Len(t))
    BY <1>2, FS_Interval
  <2>2. A \in SUBSET (1 .. Len(s)) /\ B \in SUBSET (1 .. Len(t))
    BY <1>2
  <2> HIDE DEF A, B
  <2> QED BY <2>1, <2>2, FS_Subset
<1>6. f \in Bijection(B, D)
  <2>1. \A j \in B : Len(s) + j \in D
    BY <1>2
  <2>2. \A i, j \in B : Len(s) + i = Len(s) + j => i = j
    BY <1>2
  <2>3. \A j \in D : j - Len(s) \in B /\ Len(s) + (j - Len(s)) = j
    BY <1>2
  <2> HIDE DEF B, D
  <2> QED BY <2>1, <2>2, <2>3 DEF Bijection, Injection, Surjection, IsInjective
<1>7. IsFiniteSet(D) /\ Cardinality(D) = Cardinality(B)
  <2> HIDE DEF B, D, f
  <2>1. ExistsBijection(B, D)
    BY <1>6 DEF ExistsBijection
  <2> QED BY <1>5, <2>1, FS_Bijection
<1> HIDE DEF A, B, C, D, f
<1>8. Cardinality(A \cup D) = Cardinality(A) + Cardinality(D) - Cardinality(A \cap D)
  BY <1>5, <1>7, FS_Union
<1>9. Cardinality(A) \in Nat /\ Cardinality(B) \in Nat /\ Cardinality(A \cap D) = 0
  BY <1>4, <1>5, FS_CardinalityType, FS_EmptySet
<1>10. Cardinality(C) = Cardinality(A) + Cardinality(B)
  BY <1>3, <1>7, <1>8, <1>9
<1> QED BY <1>9, <1>10 DEF Occ, A, B, C

\* Short sequences.
LEMMA OccOfShort ==
  ASSUME NEW e
  PROVE  /\ Occ(<<>>, e) = 0
         /\ \A x : Occ(<<x>>, e) = IF x = e THEN 1 ELSE 0
<1>1. Occ(<<>>, e) = 0
  <2>1. {j \in DOMAIN <<>> : <<>>[j] = e} = {}
    OBVIOUS
  <2> QED BY <2>1, FS_EmptySet DEF Occ
<1>2. ASSUME NEW x PROVE Occ(<<x>>, e) = IF x = e THEN 1 ELSE 0
  <2>1. {j \in DOMAIN <<x>> : <<x>>[j] = e} = IF x = e THEN {1} ELSE {}
    OBVIOUS
  <2> QED BY <2>1, FS_EmptySet, FS_Singleton DEF Occ
<1> QED BY <1>1, <1>2

\* The concatenations of the first i of a sequence of sequences.
Joined(f, ss, n) == f = [i \in 1 .. n |-> IF i = 1 THEN ss[i] ELSE f[i - 1] \o ss[i]]

\* They exist, for every number.
LEMMA JoinedExist ==
  ASSUME NEW ss, NEW N \in Nat
  PROVE  \E f : Joined(f, ss, N)
<1> DEFINE Exists(n) == \E f : Joined(f, ss, n)
           Lacking == {n \in 0 .. N : ~Exists(n)}
<1> SUFFICES ASSUME Lacking # {}
             PROVE  FALSE
  <2>1. N \notin Lacking => Exists(N)
    OBVIOUS
  <2> QED BY <2>1
<1>1. Lacking \subseteq Nat
  OBVIOUS
<1> DEFINE m == Min(Lacking)
<1>2. m \in Lacking /\ \A q \in Lacking : m <= q
  <2> HIDE DEF Lacking
  <2> QED BY <1>1, MinIsIn
<1> HIDE DEF m
<1>3. m \in 0 .. N /\ ~Exists(m)
  BY <1>2
<1>4. m # 0
  <2>1. Joined([i \in {} |-> <<>>], ss, 0)
    BY DEF Joined
  <2> QED BY <1>3, <2>1
<1>5. m - 1 \in 0 .. N /\ m - 1 \notin Lacking
  BY <1>2, <1>3, <1>4
<1>6. PICK f : Joined(f, ss, m - 1)
  BY <1>5
<1> DEFINE g == [i \in 1 .. m |-> IF i = m THEN (IF m = 1 THEN ss[m] ELSE f[m - 1] \o ss[m]) ELSE f[i]]
<1>7. /\ g = [i \in 1 .. m |-> g[i]] /\ g[m] = (IF m = 1 THEN ss[m] ELSE f[m - 1] \o ss[m])
      /\ \A i \in 1 .. m - 1 : g[i] = f[i]
  <2>1. m \in 1 .. m /\ \A i \in 1 .. m - 1 : i \in 1 .. m /\ i # m
    BY <1>3, <1>4
  <2> QED BY <2>1
<1> HIDE DEF g
<1>8. \A i \in 1 .. m - 1 : f[i] = IF i = 1 THEN ss[i] ELSE f[i - 1] \o ss[i]
  BY <1>6 DEF Joined
<1>9. \A i \in 1 .. m : g[i] = IF i = 1 THEN ss[i] ELSE g[i - 1] \o ss[i]
  <2> TAKE i \in 1 .. m
  <2>1. i # 1 => i - 1 \in 1 .. m - 1
    BY <1>3
  <2>2. i # 1 => g[i - 1] = f[i - 1]
    BY <1>7, <2>1
  <2>3. CASE i = m
    BY <1>7, <2>2, <2>3
  <2>4. CASE i # m
    <3>1. i \in 1 .. m - 1
      BY <1>3, <2>4
    <3> QED BY <1>7, <1>8, <2>2, <3>1
  <2> QED BY <2>3, <2>4
<1>10. Joined(g, ss, m)
  BY <1>7, <1>9 DEF Joined
<1> QED BY <1>3, <1>10

\* A sequence of n sequences over S.
Parts(ss, n, S) == Len(ss) = n /\ n \in Nat /\ (n = 0 => ss = <<>>) /\ \A i \in 1 .. n : ss[i] \in Seq(S)

HasSums(ss, n, e) ==
  \E g : /\ Sums(g, [i \in 1 .. n |-> Occ(ss[i], e)], n)
         /\ Occ(FlattenSeq(ss), e) = g[n]

\* An element is in the whole as often as it is in the parts.
LEMMA FlatSums ==
  ASSUME NEW S, NEW n, NEW ss, Parts(ss, n, S), NEW e
  PROVE  FlattenSeq(ss) \in Seq(S) /\ HasSums(ss, n, e)
<1> USE DEF HasSums
<1>0. Len(ss) = n /\ n \in Nat /\ (n = 0 => ss = <<>>) /\ \A i \in 1 .. n : ss[i] \in Seq(S)
  BY DEF Parts
<1>1. CASE n = 0
  <2>1. FlattenSeq(ss) = <<>>
    BY <1>0, <1>1 DEF FlattenSeq
  <2>2. Sums([i \in {0} |-> 0], [i \in 1 .. n |-> Occ(ss[i], e)], n)
    BY <1>1 DEF Sums
  <2>3. [i \in {0} |-> 0][n] = Occ(<<>>, e)
    BY <1>1, OccOfShort
  <2>4. <<>> \in Seq(S)
    OBVIOUS
  <2> QED BY <2>1, <2>2, <2>3, <2>4
<1>2. CASE n # 0
  <2> DEFINE f == CHOOSE h : h = [i \in 1 .. n |-> IF i = 1 THEN ss[i] ELSE h[i - 1] \o ss[i]]
  <2>1. FlattenSeq(ss) = f[n]
    BY <1>0, <1>2 DEF FlattenSeq
  <2>2. \E h : h = [i \in 1 .. n |-> IF i = 1 THEN ss[i] ELSE h[i - 1] \o ss[i]]
    <3>1. PICK h : Joined(h, ss, n)
      BY <1>0, JoinedExist
    <3> QED BY <3>1 DEF Joined
  <2>3. f = [i \in 1 .. n |-> IF i = 1 THEN ss[i] ELSE f[i - 1] \o ss[i]]
    BY <2>2
  <2> HIDE DEF f
  <2>4. \A i \in 1 .. n : f[i] = IF i = 1 THEN ss[i] ELSE f[i - 1] \o ss[i]
    BY <2>3
  <2> DEFINE Wrong == {i \in 1 .. n : f[i] \notin Seq(S)}
  <2>5. Wrong = {}
    <3> SUFFICES ASSUME Wrong # {} PROVE FALSE
      OBVIOUS
    <3>1. Wrong \subseteq Nat
      OBVIOUS
    <3> DEFINE i == Min(Wrong)
    <3>2. i \in Wrong /\ \A q \in Wrong : i <= q
      <4> HIDE DEF Wrong
      <4> QED BY <3>1, MinIsIn
    <3> HIDE DEF i
    <3>3. i \in 1 .. n /\ f[i] \notin Seq(S) /\ ss[i] \in Seq(S)
      BY <1>0, <3>2
    <3>4. CASE i = 1
      BY <2>4, <3>3, <3>4
    <3>5. CASE i # 1
      <4>1. i - 1 \in 1 .. n /\ ~(i <= i - 1)
        BY <1>0, <3>3, <3>5
      <4>2. f[i - 1] \in Seq(S)
        BY <3>2, <4>1
      <4>3. f[i] = f[i - 1] \o ss[i]
        BY <2>4, <3>3, <3>5
      <4>4. f[i - 1] \o ss[i] \in Seq(S)
        BY <3>3, <4>2, ConcatProperties
      <4> QED BY <3>3, <4>3, <4>4
    <3> QED BY <3>4, <3>5
  <2>6. \A i \in 1 .. n : f[i] \in Seq(S)
    BY <2>5
  <2> DEFINE g == [i \in 0 .. n |-> IF i = 0 THEN 0 ELSE Occ(f[i], e)]
             a == [i \in 1 .. n |-> Occ(ss[i], e)]
  <2>7. ASSUME NEW i \in 1 .. n
        PROVE  Occ(f[i], e) \in Nat /\ g[i] = g[i - 1] + a[i]
    <3>1. Occ(f[i], e) \in Nat /\ Occ(ss[i], e) \in Nat
      BY <1>0, <2>6, OccOfConcat
    <3>2. CASE i = 1
      BY <1>0, <2>4, <3>1, <3>2
    <3>3. CASE i # 1
      <4>1. i - 1 \in 1 .. n /\ i - 1 # 0 /\ i - 1 \in 0 .. n /\ i \in 0 .. n /\ i # 0
        BY <1>0, <3>3
      <4>2. f[i] = f[i - 1] \o ss[i] /\ f[i - 1] \in Seq(S) /\ ss[i] \in Seq(S)
        BY <1>0, <2>4, <2>6, <3>3, <4>1
      <4>3. Occ(f[i - 1] \o ss[i], e) = Occ(f[i - 1], e) + Occ(ss[i], e)
        BY <4>2, OccOfConcat
      <4>4. g[i] = Occ(f[i], e) /\ g[i - 1] = Occ(f[i - 1], e)
        BY <4>1
      <4> QED BY <3>1, <4>2, <4>3, <4>4
    <3> QED BY <3>2, <3>3
  <2>8. Sums(g, a, n)
    <3>1. ASSUME NEW i \in 0 .. n PROVE g[i] \in Nat
      <4>1. CASE i = 0
        BY <4>1
      <4>2. CASE i # 0
        <5>1. i \in 1 .. n
          BY <1>0, <4>2
        <5> QED BY <2>7, <4>2, <5>1
      <4> QED BY <4>1, <4>2
    <3>2. g[0] = 0
      BY <1>0
    <3>3. \A i \in 1 .. n : a[i] \in Nat
      BY <1>0, OccOfConcat
    <3> HIDE DEF g, a
    <3> QED BY <2>7, <3>1, <3>2, <3>3 DEF Sums
  <2>9. g[n] = Occ(f[n], e) /\ n \in 1 .. n
    BY <1>0, <1>2
  <2> HIDE DEF g
  <2> QED BY <2>1, <2>6, <2>8, <2>9
<1> QED BY <1>1, <1>2

\* Wholes whose parts differ at one place differ as these do.
LEMMA FlatDiffer ==
  ASSUME NEW S, NEW n, NEW ss, NEW tt, Parts(ss, n, S), Parts(tt, n, S), NEW e, NEW m \in 1 .. n,
         \A i \in 1 .. n : i # m => Occ(ss[i], e) = Occ(tt[i], e)
  PROVE  Occ(FlattenSeq(ss), e) + Occ(tt[m], e) = Occ(FlattenSeq(tt), e) + Occ(ss[m], e)
<1> DEFINE a == [i \in 1 .. n |-> Occ(ss[i], e)]
           b == [i \in 1 .. n |-> Occ(tt[i], e)]
<1>1. PICK g : Sums(g, a, n) /\ Occ(FlattenSeq(ss), e) = g[n]
  <2>1. HasSums(ss, n, e)
    BY FlatSums
  <2> QED BY <2>1 DEF HasSums
<1>2. PICK h : Sums(h, b, n) /\ Occ(FlattenSeq(tt), e) = h[n]
  <2>1. HasSums(tt, n, e)
    BY FlatSums
  <2> QED BY <2>1 DEF HasSums
<1>3. a[m] \in Nat /\ b[m] \in Nat /\ n \in Nat /\ m \in Nat
      /\ a[m] = Occ(ss[m], e) /\ b[m] = Occ(tt[m], e)
  BY OccOfConcat DEF Parts
<1>4. \A i \in 1 .. n : i # m => a[i] = b[i]
  OBVIOUS
<1>5. a[m] + b[m] = b[m] + a[m]
  BY <1>3
<1> HIDE DEF a, b
<1>6. g[n] + b[m] = h[n] + a[m]
  BY <1>1, <1>2, <1>3, <1>4, <1>5, SumsDiffer
<1> QED BY <1>1, <1>2, <1>3, <1>6

\* Wholes whose parts agree; a whole of nothing.
LEMMA FlatAgree ==
  ASSUME NEW S, NEW n, NEW ss, NEW tt, Parts(ss, n, S), Parts(tt, n, S), NEW e,
         \A i \in 1 .. n : Occ(ss[i], e) = Occ(tt[i], e)
  PROVE  Occ(FlattenSeq(ss), e) = Occ(FlattenSeq(tt), e)
<1> DEFINE a == [i \in 1 .. n |-> Occ(ss[i], e)]
           b == [i \in 1 .. n |-> Occ(tt[i], e)]
<1>1. PICK g : Sums(g, a, n) /\ Occ(FlattenSeq(ss), e) = g[n]
  <2>1. HasSums(ss, n, e)
    BY FlatSums
  <2> QED BY <2>1 DEF HasSums
<1>2. PICK h : Sums(h, b, n) /\ Occ(FlattenSeq(tt), e) = h[n]
  <2>1. HasSums(tt, n, e)
    BY FlatSums
  <2> QED BY <2>1 DEF HasSums
<1>3. n \in Nat /\ ~(0 \in 1 .. n)
  BY DEF Parts
<1>4. \A i \in 1 .. n : i # 0 => a[i] = b[i]
  OBVIOUS
<1> HIDE DEF a, b
<1>5. g[n] = h[n]
  BY <1>1, <1>2, <1>3, <1>4, SumsDiffer
<1> QED BY <1>1, <1>2, <1>5

\* A part more.
LEMMA FlatMore ==
  ASSUME NEW S, NEW n, NEW ss, NEW tt, Parts(ss, n, S), Parts(tt, n + 1, S), NEW e,
         \A i \in 1 .. n : Occ(ss[i], e) = Occ(tt[i], e)
  PROVE  Occ(FlattenSeq(tt), e) = Occ(FlattenSeq(ss), e) + Occ(tt[n + 1], e)
<1> DEFINE a == [i \in 1 .. n |-> Occ(ss[i], e)]
           b == [i \in 1 .. n + 1 |-> Occ(tt[i], e)]
<1>1. PICK g : Sums(g, a, n) /\ Occ(FlattenSeq(ss), e) = g[n]
  <2>1. HasSums(ss, n, e)
    BY FlatSums
  <2> QED BY <2>1 DEF HasSums
<1>2. PICK h : Sums(h, b, n + 1) /\ Occ(FlattenSeq(tt), e) = h[n + 1]
  <2>1. HasSums(tt, n + 1, e)
    BY FlatSums
  <2> QED BY <2>1 DEF HasSums
<1>3. n \in Nat /\ ~(0 \in 1 .. n) /\ n + 1 \in 1 .. n + 1 /\ (n + 1) - 1 = n
  BY DEF Parts
<1>4. \A i \in 1 .. n : i # 0 => a[i] = b[i]
  BY <1>3
<1>5. b[n + 1] = Occ(tt[n + 1], e)
  BY <1>3
<1> HIDE DEF a, b
<1>6. Sums(h, b, n) /\ h[n + 1] = h[n] + b[n + 1]
  BY <1>2, <1>3 DEF Sums
<1>7. g[n] = h[n]
  BY <1>1, <1>3, <1>4, <1>6, SumsDiffer
<1> QED BY <1>1, <1>2, <1>5, <1>6, <1>7

\* A whole of which only one part has the element.
LEMMA FlatOnly ==
  ASSUME NEW S, NEW n, NEW ss, Parts(ss, n, S), NEW e, NEW m \in Nat,
         \A i \in 1 .. n : i # m => Occ(ss[i], e) = 0
  PROVE  Occ(FlattenSeq(ss), e) = IF m \in 1 .. n THEN Occ(ss[m], e) ELSE 0
<1> DEFINE a == [i \in 1 .. n |-> Occ(ss[i], e)]
           b == [i \in 1 .. n |-> 0]
           h == [i \in 0 .. n |-> 0]
<1>1. PICK g : Sums(g, a, n) /\ Occ(FlattenSeq(ss), e) = g[n]
  <2>1. HasSums(ss, n, e)
    BY FlatSums
  <2> QED BY <2>1 DEF HasSums
<1>2. n \in Nat
  BY DEF Parts
<1>3. Sums(h, b, n) /\ h[n] = 0
  BY <1>2 DEF Sums
<1>4. \A i \in 1 .. n : i # m => a[i] = b[i]
  OBVIOUS
<1>5. m \in 1 .. n => Occ(ss[m], e) \in Nat /\ a[m] = Occ(ss[m], e) /\ b[m] = 0
  BY OccOfConcat DEF Parts
<1>6. PICK x \in Nat : x = IF m \in 1 .. n THEN Occ(ss[m], e) ELSE 0
  BY <1>5
<1>7. m \in 1 .. n => a[m] + 0 = b[m] + x
  BY <1>5, <1>6
<1>8. \A i \in 0 .. n : g[i] \in Nat
  BY <1>1 DEF Sums
<1> HIDE DEF a, b, h
<1>9. IF m \in 1 .. n THEN g[n] + 0 = h[n] + x ELSE g[n] = h[n]
  BY <1>1, <1>2, <1>3, <1>4, <1>7, SumsDiffer
<1>10. g[n] = x
  BY <1>2, <1>3, <1>6, <1>8, <1>9
<1> QED BY <1>1, <1>6, <1>10

-----------------------------------------------------------------------------
\* An element is in a sequence once for each place it is at.
LEMMA OccSums ==
  ASSUME NEW S, NEW s \in Seq(S), NEW e
  PROVE  \E g : /\ Sums(g, [i \in 1 .. Len(s) |-> IF s[i] = e THEN 1 ELSE 0], Len(s))
                /\ Occ(s, e) = g[Len(s)]
<1> DEFINE upTo(i) == {j \in 1 .. i : s[j] = e}
           g == [i \in 0 .. Len(s) |-> Cardinality(upTo(i))]
           a == [i \in 1 .. Len(s) |-> IF s[i] = e THEN 1 ELSE 0]
<1>1. Len(s) \in Nat /\ DOMAIN s = 1 .. Len(s)
  OBVIOUS
<1>2. ASSUME NEW i \in 0 .. Len(s) PROVE IsFiniteSet(upTo(i)) /\ Cardinality(upTo(i)) \in Nat
  <2>1. IsFiniteSet(1 .. i) /\ upTo(i) \in SUBSET (1 .. i)
    BY <1>1, FS_Interval
  <2> HIDE DEF upTo
  <2> QED BY <2>1, FS_Subset, FS_CardinalityType
<1>3. ASSUME NEW i \in 1 .. Len(s)
      PROVE  Cardinality(upTo(i)) = Cardinality(upTo(i - 1)) + a[i]
  <2>1. i - 1 \in 0 .. Len(s) /\ i \notin upTo(i - 1)
    BY <1>1
  <2>2. upTo(i) = IF s[i] = e THEN upTo(i - 1) \cup {i} ELSE upTo(i - 1)
    BY <1>1
  <2>3. IsFiniteSet(upTo(i - 1)) /\ Cardinality(upTo(i - 1)) \in Nat
    BY <1>2, <2>1
  <2>4. a[i] = IF s[i] = e THEN 1 ELSE 0
    OBVIOUS
  <2>5. PICK T : T = upTo(i - 1)
    OBVIOUS
  <2> HIDE DEF upTo, a
  <2>6. CASE s[i] = e
    <3>1. Cardinality(T \cup {i}) = Cardinality(T) + 1
      BY <2>1, <2>3, <2>5, FS_AddElement
    <3> QED BY <2>2, <2>4, <2>5, <2>6, <3>1
  <2>7. CASE s[i] # e
    BY <2>2, <2>3, <2>4, <2>5, <2>7
  <2> QED BY <2>6, <2>7
<1>4. Cardinality(upTo(0)) = 0
  <2>1. upTo(0) = {}
    BY <1>1
  <2> QED BY <2>1, FS_EmptySet
<1>5. /\ \A i \in 0 .. Len(s) : g[i] = Cardinality(upTo(i))
      /\ 0 \in 0 .. Len(s) /\ Len(s) \in 0 .. Len(s)
      /\ \A i \in 1 .. Len(s) : i \in 0 .. Len(s) /\ i - 1 \in 0 .. Len(s) /\ a[i] \in Nat
  BY <1>1
<1>6. Occ(s, e) = Cardinality(upTo(Len(s)))
  BY <1>1 DEF Occ
<1> HIDE DEF upTo, g, a
<1>7. Sums(g, a, Len(s))
  BY <1>2, <1>3, <1>4, <1>5 DEF Sums
<1>8. Occ(s, e) = g[Len(s)]
  BY <1>5, <1>6
<1> QED BY <1>7, <1>8 DEF a

\* An element that is nowhere.
LEMMA OccOfAbsent ==
  ASSUME NEW S, NEW s \in Seq(S), NEW e, e \notin Range(s)
  PROVE  Occ(s, e) = 0
<1>1. {j \in DOMAIN s : s[j] = e} = {}
  BY DEF Range
<1> QED BY <1>1, FS_EmptySet DEF Occ

\* retain drops every copy of the pair and nothing else.
LEMMA OtherPairsDrops ==
  ASSUME NEW S, NEW s \in Seq(S), NEW p
  PROVE  /\ OtherPairs(s, p) \in Seq(S)
         /\ \A e : Occ(OtherPairs(s, p), e) = IF e = p THEN 0 ELSE Occ(s, e)
<1> DEFINE ss == [i \in DOMAIN s |-> IF s[i] = p THEN <<>> ELSE <<s[i]>>]
           n == Len(s)
<1>1. n \in Nat /\ DOMAIN s = 1 .. n /\ \A i \in 1 .. n : s[i] \in S
  OBVIOUS
<1>2. Parts(ss, n, S)
  <2>1. ss \in Seq(Seq(S)) /\ Len(ss) = n
    <3>1. \A i \in 1 .. n : ss[i] \in Seq(S)
      BY <1>1
    <3>2. ss = [i \in 1 .. n |-> ss[i]]
      BY <1>1
    <3> HIDE DEF ss, n
    <3> QED BY <1>1, <3>1, <3>2
  <2>2. \A i \in 1 .. n : ss[i] \in Seq(S)
    BY <1>1
  <2>3. n = 0 => ss = <<>>
    <3> HIDE DEF ss, n
    <3> QED BY <2>1, EmptySeq
  <2> HIDE DEF ss, n
  <2> QED BY <1>1, <2>1, <2>2, <2>3 DEF Parts
<1>3. OtherPairs(s, p) = FlattenSeq(ss)
  BY DEF OtherPairs
<1>4. ASSUME NEW e PROVE Occ(FlattenSeq(ss), e) = IF e = p THEN 0 ELSE Occ(s, e)
  <2> DEFINE a == [i \in 1 .. n |-> Occ(ss[i], e)]
             b == [i \in 1 .. n |-> IF s[i] = e THEN 1 ELSE 0]
  <2>1. \A i \in 1 .. n : Occ(ss[i], e) = IF e = p \/ s[i] # e THEN 0 ELSE 1
    <3> SUFFICES ASSUME NEW i \in 1 .. n PROVE Occ(ss[i], e) = IF e = p \/ s[i] # e THEN 0 ELSE 1
      OBVIOUS
    <3>1. ss[i] = IF s[i] = p THEN <<>> ELSE <<s[i]>>
      BY <1>1
    <3> HIDE DEF ss
    <3> QED BY <3>1, OccOfShort
  <2>2. CASE e = p
    <3>1. \A i \in 1 .. n : i # 0 => Occ(ss[i], e) = 0
      <4> HIDE DEF ss, n
      <4> QED BY <2>1, <2>2
    <3>2. ~(0 \in 1 .. n)
      BY <1>1
    <3> HIDE DEF ss, n
    <3> QED BY <1>2, <2>2, <3>1, <3>2, FlatOnly
  <2>3. CASE e # p
    <3>1. PICK g : Sums(g, a, n) /\ Occ(FlattenSeq(ss), e) = g[n]
      <4>1. HasSums(ss, n, e)
        <5> HIDE DEF ss, n
        <5> QED BY <1>2, FlatSums
      <4> QED BY <4>1 DEF HasSums
    <3>2. PICK h : Sums(h, b, n) /\ Occ(s, e) = h[n]
      BY OccSums
    <3>3. \A i \in 1 .. n : i # 0 => a[i] = b[i]
      BY <2>1, <2>3
    <3>4. ~(0 \in 1 .. n)
      BY <1>1
    <3> HIDE DEF ss, n, a, b
    <3>5. g[n] = h[n]
      BY <1>1, <3>1, <3>2, <3>3, <3>4, SumsDiffer
    <3> QED BY <2>3, <3>1, <3>2, <3>5
  <2> QED BY <2>2, <2>3
<1>5. FlattenSeq(ss) \in Seq(S)
  <2> HIDE DEF ss, n
  <2> QED BY <1>2, FlatSums
<1> QED BY <1>3, <1>4, <1>5

-----------------------------------------------------------------------------
(* The chains of a hash index.                                             *)

Pairs == [key : HashKeys, row : HashRows]
Home(h, e) == HashOf[e.key] % h.count
Primaries(h) == 0 .. h.count - 1

\* An index is a record, and its buckets are.
HashShape(h) ==
  /\ h = [count |-> h.count, bucket |-> h.bucket, nextOverflow |-> h.nextOverflow, len |-> h.len]
  /\ h.count \in Nat \ {0} /\ h.nextOverflow \in Nat
  /\ IsFiniteSet(DOMAIN h.bucket) /\ NoBucket \notin DOMAIN h.bucket
  /\ h.bucket = [b \in DOMAIN h.bucket |->
                   [entries |-> h.bucket[b].entries, overflow |-> h.bucket[b].overflow]]
  /\ \A b \in DOMAIN h.bucket : h.bucket[b].entries \in Seq(Pairs)
  /\ \A id : Overflow(id) \in DOMAIN h.bucket => id \in Nat /\ id < h.nextOverflow

\* c[i] is the chain of the primary bucket i: linked, and to its end.
Joins(h, c) ==
  \A i \in Primaries(h) :
    /\ c[i] \in Seq(DOMAIN h.bucket) /\ Len(c[i]) # 0 /\ c[i][1] = Primary(i)
    /\ \A q \in 1 .. Len(c[i]) :
         h.bucket[c[i][q]].overflow = IF q = Len(c[i]) THEN NoBucket ELSE c[i][q + 1]

\* No bucket is in two chains, or in one chain twice.
Apart(h, c) ==
  \A i, j \in Primaries(h) : \A q \in 1 .. Len(c[i]), p \in 1 .. Len(c[j]) :
    c[i][q] = c[j][p] => i = j /\ q = p

\* A pair is in the chain its key is hashed to.
AtHome(h, c) ==
  \A i \in Primaries(h) : \A q \in 1 .. Len(c[i]) :
    \A e \in Range(h.bucket[c[i][q]].entries) : Home(h, e) = i

Threads(h, c) == HashShape(h) /\ Joins(h, c) /\ Apart(h, c) /\ AtHome(h, c)

Sound(h) == \E c : Threads(h, c)

\* What a lookup finds of a pair.
Tally(h, e) == Occ(PairsFrom(h, BucketOf(h, e.key)), e)

\* A key is hashed to a primary bucket.
LEMMA HomeIsPrimary ==
  ASSUME NEW h, HashShape(h), NEW e \in Pairs
  PROVE  Home(h, e) \in Primaries(h) /\ BucketOf(h, e.key) = Primary(Home(h, e))
<1>1. HashOf[e.key] \in Nat /\ h.count \in Nat \ {0}
  BY HashAssumption DEF Pairs, HashShape
<1>2. HashOf[e.key] % h.count \in 0 .. h.count - 1
  BY <1>1
<1> QED BY <1>2 DEF Home, Primaries, BucketOf

\* The walk of n steps from a bucket.
Steps(f, h, n) ==
  f = [k \in 0 .. n |->
         [b \in DOMAIN h.bucket \cup {NoBucket} |->
           IF b = NoBucket \/ k = 0 THEN <<>>
           ELSE <<b>> \o f[k - 1][h.bucket[b].overflow]]]

\* The walks of up to N steps exist.
LEMMA StepsExist ==
  ASSUME NEW h, NEW N \in Nat
  PROVE  \E f : Steps(f, h, N)
<1> DEFINE Exists(n) == \E f : Steps(f, h, n)
           Lacking == {n \in 0 .. N : ~Exists(n)}
<1> SUFFICES ASSUME Lacking # {}
             PROVE  FALSE
  <2>1. N \notin Lacking => Exists(N)
    OBVIOUS
  <2> QED BY <2>1
<1>1. Lacking \subseteq Nat
  OBVIOUS
<1> DEFINE m == Min(Lacking)
<1>2. m \in Lacking /\ \A q \in Lacking : m <= q
  <2> HIDE DEF Lacking
  <2> QED BY <1>1, MinIsIn
<1> HIDE DEF m
<1>3. m \in 0 .. N /\ ~Exists(m)
  BY <1>2
<1> DEFINE D == DOMAIN h.bucket \cup {NoBucket}
           row(g, k) == [b \in D |-> IF b = NoBucket \/ k = 0 THEN <<>>
                                     ELSE <<b>> \o g[k - 1][h.bucket[b].overflow]]
<1>4. m # 0
  <2> DEFINE z == [k \in 0 .. 0 |-> [b \in D |-> <<>>]]
  <2>1. \A k \in 0 .. 0 : row(z, k) = [b \in D |-> <<>>]
    OBVIOUS
  <2>2. z = [k \in 0 .. 0 |-> row(z, k)]
    BY <2>1
  <2>3. Steps(z, h, 0)
    BY <2>2 DEF Steps
  <2> QED BY <1>3, <2>3
<1>5. m - 1 \in 0 .. N /\ m - 1 \notin Lacking
  BY <1>2, <1>3, <1>4
<1>6. PICK f : Steps(f, h, m - 1)
  BY <1>5
<1>7. f = [k \in 0 .. m - 1 |-> row(f, k)]
  BY <1>6 DEF Steps
<1> HIDE DEF D
<1> DEFINE g == [k \in 0 .. m |-> IF k = m THEN row(f, m) ELSE f[k]]
<1>8. \A k \in 0 .. m - 1 : g[k] = f[k] /\ f[k] = row(f, k)
  <2> HIDE DEF row
  <2>1. \A k \in 0 .. m - 1 : k \in 0 .. m /\ k # m
    BY <1>3
  <2> QED BY <1>7, <2>1
<1>9. g[m] = row(f, m)
  BY <1>3
<1>10. g = [k \in 0 .. m |-> g[k]]
  OBVIOUS
<1> HIDE DEF g
<1>11. \A k \in 0 .. m : g[k] = row(g, k)
  <2> TAKE k \in 0 .. m
  <2>1. k # 0 => g[k - 1] = f[k - 1]
    <3>1. k # 0 => k - 1 \in 0 .. m - 1
      BY <1>3
    <3> QED BY <1>8, <3>1
  <2>2. row(g, k) = row(f, k)
    BY <2>1
  <2>3. k = m \/ k \in 0 .. m - 1
    BY <1>3
  <2> HIDE DEF row
  <2> QED BY <1>8, <1>9, <2>2, <2>3
<1>12. g = [k \in 0 .. m |-> row(g, k)]
  <2> HIDE DEF row
  <2> QED BY <1>10, <1>11
<1>13. Steps(g, h, m)
  BY <1>12 DEF Steps, D
<1> QED BY <1>3, <1>13

\* What is behind the first element, put behind it again.
LEMMA SubSeqFrom ==
  ASSUME NEW S, NEW s \in Seq(S), NEW q \in 1 .. Len(s)
  PROVE  /\ <<s[q]>> \o SubSeq(s, q + 1, Len(s)) = SubSeq(s, q, Len(s))
         /\ SubSeq(s, Len(s) + 1, Len(s)) = <<>>
         /\ SubSeq(s, 1, Len(s)) = s
<1>1. Len(s) \in Nat /\ DOMAIN s = 1 .. Len(s) /\ q \in Nat
  OBVIOUS
<1>2. SubSeq(s, Len(s) + 1, Len(s)) = <<>> /\ SubSeq(s, 1, Len(s)) = s
  BY <1>1
<1>3. <<s[q]>> \o SubSeq(s, q + 1, Len(s)) = SubSeq(s, q, Len(s))
  BY <1>1
<1> QED BY <1>2, <1>3

\* A chain is no longer than there are buckets.
LEMMA ChainsFit ==
  ASSUME NEW h, NEW c, Threads(h, c), NEW i \in Primaries(h)
  PROVE  /\ Len(c[i]) \in Nat /\ Cardinality(DOMAIN h.bucket) \in Nat
         /\ Len(c[i]) <= Cardinality(DOMAIN h.bucket)
<1>1. c[i] \in Seq(DOMAIN h.bucket) /\ IsFiniteSet(DOMAIN h.bucket)
  BY DEF Threads, Joins, HashShape
<1>2. Len(c[i]) \in Nat /\ DOMAIN c[i] = 1 .. Len(c[i]) /\ c[i] \in [1 .. Len(c[i]) -> DOMAIN h.bucket]
  BY <1>1
<1>3. \A q, p \in 1 .. Len(c[i]) : c[i][q] = c[i][p] => q = p
  BY DEF Threads, Apart
<1>4. c[i] \in Injection(1 .. Len(c[i]), DOMAIN h.bucket)
  BY <1>2, <1>3 DEF Injection, IsInjective
<1>5. IsFiniteSet(1 .. Len(c[i])) /\ Cardinality(1 .. Len(c[i])) = Len(c[i])
  BY <1>2, FS_Interval
<1> QED BY <1>1, <1>2, <1>4, <1>5, FS_Injection, FS_CardinalityType

\* The walk from a primary bucket meets its chain.
LEMMA ChainIsThread ==
  ASSUME NEW h, NEW c, Threads(h, c), NEW i \in Primaries(h)
  PROVE  ChainFrom(h, Primary(i)) = c[i]
<1> DEFINE M == Cardinality(DOMAIN h.bucket)
           L == Len(c[i])
           from == CHOOSE f : f = [k \in 0 .. M |->
                     [b \in DOMAIN h.bucket \cup {NoBucket} |->
                       IF b = NoBucket \/ k = 0 THEN <<>>
                       ELSE <<b>> \o f[k - 1][h.bucket[b].overflow]]]
<1>1. ChainFrom(h, Primary(i)) = from[M][Primary(i)]
  BY DEF ChainFrom
<1>2. L \in Nat /\ M \in Nat /\ L <= M
  BY ChainsFit
<1>3. from = [k \in 0 .. M |->
               [b \in DOMAIN h.bucket \cup {NoBucket} |->
                 IF b = NoBucket \/ k = 0 THEN <<>>
                 ELSE <<b>> \o from[k - 1][h.bucket[b].overflow]]]
  <2>1. PICK f : Steps(f, h, M)
    BY <1>2, StepsExist
  <2> QED BY <2>1 DEF Steps
<1> HIDE DEF from
<1>4. /\ c[i] \in Seq(DOMAIN h.bucket) /\ L # 0 /\ c[i][1] = Primary(i)
      /\ \A q \in 1 .. L : c[i][q] \in DOMAIN h.bucket /\ c[i][q] # NoBucket
      /\ \A q \in 1 .. L : h.bucket[c[i][q]].overflow = IF q = L THEN NoBucket ELSE c[i][q + 1]
  BY DEF Threads, Joins, HashShape
<1> HIDE DEF M, L
<1>5. /\ \A k \in 0 .. M : from[k][NoBucket] = <<>>
      /\ \A k \in 1 .. M : \A b \in DOMAIN h.bucket : b # NoBucket =>
           from[k][b] = <<b>> \o from[k - 1][h.bucket[b].overflow]
  <2> DEFINE row(k) == [b \in DOMAIN h.bucket \cup {NoBucket} |->
                         IF b = NoBucket \/ k = 0 THEN <<>>
                         ELSE <<b>> \o from[k - 1][h.bucket[b].overflow]]
  <2>1. \A k \in 0 .. M : from[k] = row(k)
    <3>1. from = [k \in 0 .. M |-> row(k)]
      BY <1>3
    <3> HIDE DEF row
    <3> QED BY <3>1
  <2>2. \A k \in 1 .. M : k \in 0 .. M /\ k # 0
    BY <1>2
  <2>3. /\ \A k : row(k)[NoBucket] = <<>>
        /\ \A k : k # 0 => \A b \in DOMAIN h.bucket : b # NoBucket =>
             row(k)[b] = <<b>> \o from[k - 1][h.bucket[b].overflow]
    OBVIOUS
  <2> HIDE DEF row
  <2> QED BY <2>1, <2>2, <2>3
<1> DEFINE Right(k) == \A q \in 1 .. L : L < q + k => from[k][c[i][q]] = SubSeq(c[i], q, L)
           Wrong == {k \in 0 .. M : ~Right(k)}
<1>6. Wrong = {}
  <2> SUFFICES ASSUME Wrong # {} PROVE FALSE
    OBVIOUS
  <2>1. Wrong \subseteq Nat
    BY <1>2
  <2> DEFINE k == Min(Wrong)
  <2>2. k \in Wrong /\ \A j \in Wrong : k <= j
    <3> HIDE DEF Wrong
    <3> QED BY <2>1, MinIsIn
  <2> HIDE DEF k
  <2>3. k \in 0 .. M /\ ~Right(k)
    BY <2>2
  <2>4. k # 0
    BY <1>2, <2>3
  <2>5. k - 1 \in 0 .. M /\ k \in 1 .. M /\ Right(k - 1)
    <3>1. k - 1 \in 0 .. M /\ k \in 1 .. M /\ ~(k <= k - 1)
      BY <1>2, <2>3, <2>4
    <3>2. k - 1 \notin Wrong
      BY <2>2, <3>1
    <3> QED BY <3>1, <3>2
  <2>6. ASSUME NEW q \in 1 .. L, L < q + k PROVE from[k][c[i][q]] = SubSeq(c[i], q, L)
    <3>1. from[k][c[i][q]] = <<c[i][q]>> \o from[k - 1][h.bucket[c[i][q]].overflow]
      BY <1>4, <1>5, <2>5
    <3>2. from[k - 1][h.bucket[c[i][q]].overflow] = SubSeq(c[i], q + 1, L)
      <4>1. CASE q = L
        <5>1. SubSeq(c[i], L + 1, L) = <<>>
          BY <1>4, SubSeqFrom DEF L
        <5> QED BY <1>4, <1>5, <2>5, <4>1, <5>1
      <4>2. CASE q # L
        <5>1. q + 1 \in 1 .. L /\ L < (q + 1) + (k - 1)
          BY <1>2, <2>3, <2>6, <4>2
        <5>2. h.bucket[c[i][q]].overflow = c[i][q + 1]
          BY <1>4, <4>2
        <5> QED BY <2>5, <5>1, <5>2
      <4> QED BY <4>1, <4>2
    <3>3. <<c[i][q]>> \o SubSeq(c[i], q + 1, L) = SubSeq(c[i], q, L)
      BY <1>4, SubSeqFrom DEF L
    <3> QED BY <3>1, <3>2, <3>3
  <2> QED BY <2>3, <2>6
<1>7. M \in 0 .. M /\ 1 \in 1 .. L /\ L < 1 + M
  BY <1>2, <1>4
<1>8. Right(M)
  BY <1>6, <1>7
<1>9. from[M][c[i][1]] = SubSeq(c[i], 1, L)
  BY <1>7, <1>8
<1>10. SubSeq(c[i], 1, L) = c[i]
  BY <1>4, <1>7, SubSeqFrom DEF L
<1> QED BY <1>1, <1>4, <1>9, <1>10

-----------------------------------------------------------------------------
\* The pairs of a chain, bucket by bucket.
Held(h, c, i) == [q \in 1 .. Len(c[i]) |-> h.bucket[c[i][q]].entries]

\* A function to sequences over S, from 1 to n, is a sequence of sequences.
LEMMA PartsOf ==
  ASSUME NEW S, NEW n \in Nat, NEW ss, ss = [q \in 1 .. n |-> ss[q]],
         \A q \in 1 .. n : ss[q] \in Seq(S)
  PROVE  Parts(ss, n, S)
<1>1. ss \in Seq(Seq(S)) /\ Len(ss) = n
  OBVIOUS
<1>2. n = 0 => ss = <<>>
  BY <1>1, EmptySeq
<1> QED BY <1>1, <1>2 DEF Parts

\* The walk from a primary bucket meets the pairs of its chain.
LEMMA HeldOfThread ==
  ASSUME NEW h, NEW c, Threads(h, c), NEW i \in Primaries(h)
  PROVE  /\ Parts(Held(h, c, i), Len(c[i]), Pairs)
         /\ PairsFrom(h, Primary(i)) = FlattenSeq(Held(h, c, i))
         /\ PairsFrom(h, Primary(i)) \in Seq(Pairs)
<1>1. Len(c[i]) \in Nat /\ DOMAIN c[i] = 1 .. Len(c[i]) /\ c[i] \in Seq(DOMAIN h.bucket)
  BY DEF Threads, Joins
<1>2. \A q \in 1 .. Len(c[i]) : h.bucket[c[i][q]].entries \in Seq(Pairs)
  BY <1>1 DEF Threads, HashShape
<1>3. Parts(Held(h, c, i), Len(c[i]), Pairs)
  <2>1. /\ Held(h, c, i) = [q \in 1 .. Len(c[i]) |-> Held(h, c, i)[q]]
        /\ \A q \in 1 .. Len(c[i]) : Held(h, c, i)[q] \in Seq(Pairs)
    BY <1>2 DEF Held
  <2>2. PICK ss : ss = Held(h, c, i)
    OBVIOUS
  <2> QED BY <1>1, <2>1, <2>2, PartsOf
<1>4. PairsFrom(h, Primary(i)) = FlattenSeq(Held(h, c, i))
  <2>1. ChainFrom(h, Primary(i)) = c[i]
    BY ChainIsThread
  <2> QED BY <1>1, <2>1 DEF PairsFrom, Held
<1> QED BY <1>3, <1>4, FlatSums

\* What is found of a pair is what its chain has.
LEMMA FoundInThread ==
  ASSUME NEW h, NEW c, Threads(h, c), NEW e \in Pairs
  PROVE  /\ Home(h, e) \in Primaries(h)
         /\ Tally(h, e) = Occ(FlattenSeq(Held(h, c, Home(h, e))), e)
         /\ Tally(h, e) \in Nat
<1>1. HashShape(h)
  BY DEF Threads
<1>2. Home(h, e) \in Primaries(h) /\ BucketOf(h, e.key) = Primary(Home(h, e))
  BY <1>1, HomeIsPrimary
<1>3. PICK i : i = Home(h, e)
  OBVIOUS
<1>4. PairsFrom(h, Primary(i)) = FlattenSeq(Held(h, c, i)) /\ PairsFrom(h, Primary(i)) \in Seq(Pairs)
  BY <1>2, <1>3, HeldOfThread
<1>5. Tally(h, e) = Occ(PairsFrom(h, Primary(i)), e)
  BY <1>2, <1>3 DEF Tally
<1>6. Occ(PairsFrom(h, Primary(i)), e) \in Nat
  BY <1>4, OccOfConcat
<1> QED BY <1>2, <1>3, <1>4, <1>5, <1>6

\* A pair is only in the chain its key is hashed to.
LEMMA OnlyAtHome ==
  ASSUME NEW h, NEW c, Threads(h, c), NEW e, NEW i \in Primaries(h), i # Home(h, e)
  PROVE  Occ(FlattenSeq(Held(h, c, i)), e) = 0
<1>1. Parts(Held(h, c, i), Len(c[i]), Pairs)
  BY HeldOfThread
<1>2. PICK ss : ss = Held(h, c, i)
  OBVIOUS
<1>3. PICK n : n = Len(c[i])
  OBVIOUS
<1>4. ASSUME NEW q \in 1 .. n PROVE Occ(ss[q], e) = 0
  <2>1. ss[q] = h.bucket[c[i][q]].entries /\ ss[q] \in Seq(Pairs)
    BY <1>1, <1>2, <1>3 DEF Held, Parts
  <2>2. e \notin Range(ss[q])
    BY <1>3, <2>1 DEF Threads, AtHome
  <2> QED BY <2>1, <2>2, OccOfAbsent
<1>5. n \in Nat /\ ~(0 \in 1 .. n)
  BY <1>1, <1>3 DEF Parts
<1>6. \A q \in 1 .. n : q # 0 => Occ(ss[q], e) = 0
  BY <1>4
<1>7. Occ(FlattenSeq(ss), e) = 0
  BY <1>1, <1>2, <1>3, <1>5, <1>6, FlatOnly
<1> QED BY <1>2, <1>7

\* iter lists each pair as often as a lookup finds it.
LEMMA EntriesCount ==
  ASSUME NEW h, Sound(h)
  PROVE  Entries(h) \in Seq(Pairs) /\ \A e \in Pairs : Occ(Entries(h), e) = Tally(h, e)
<1>1. PICK c : Threads(h, c)
  BY DEF Sound
<1>2. h.count \in Nat \ {0} /\ HashShape(h)
  BY <1>1 DEF Threads, HashShape
<1>3. PICK n : n = h.count
  OBVIOUS
<1>4. PICK ss : ss = [i \in 1 .. n |-> PairsFrom(h, Primary(i - 1))]
  OBVIOUS
<1>5. Entries(h) = FlattenSeq(ss)
  BY <1>3, <1>4 DEF Entries
<1>6. \A i \in 1 .. n : i - 1 \in Primaries(h)
  BY <1>2, <1>3 DEF Primaries
<1>7. \A i \in 1 .. n : /\ ss[i] = FlattenSeq(Held(h, c, i - 1))
                        /\ ss[i] \in Seq(Pairs)
  <2> TAKE i \in 1 .. n
  <2>1. PICK j : j = i - 1
    OBVIOUS
  <2>2. PairsFrom(h, Primary(j)) = FlattenSeq(Held(h, c, j)) /\ PairsFrom(h, Primary(j)) \in Seq(Pairs)
    BY <1>1, <1>6, <2>1, HeldOfThread
  <2> QED BY <1>4, <2>1, <2>2
<1>8. Parts(ss, n, Pairs)
  <2>1. ss = [i \in 1 .. n |-> ss[i]]
    BY <1>4
  <2> QED BY <1>2, <1>3, <1>7, <2>1, PartsOf
<1>9. ASSUME NEW e \in Pairs PROVE Occ(Entries(h), e) = Tally(h, e)
  <2>1. Home(h, e) \in Primaries(h) /\ Tally(h, e) = Occ(FlattenSeq(Held(h, c, Home(h, e))), e)
    BY <1>1, FoundInThread
  <2>2. PICK m : m = Home(h, e) + 1
    OBVIOUS
  <2>3. m \in Nat /\ m \in 1 .. n /\ m - 1 = Home(h, e)
    BY <1>2, <1>3, <2>1, <2>2 DEF Primaries
  <2>4. \A i \in 1 .. n : i # m => Occ(ss[i], e) = 0
    <3> SUFFICES ASSUME NEW i \in 1 .. n, i # m PROVE Occ(ss[i], e) = 0
      OBVIOUS
    <3>1. PICK j : j = i - 1
      OBVIOUS
    <3>2. j \in Primaries(h) /\ j # Home(h, e)
      BY <1>2, <1>3, <1>6, <2>3, <3>1
    <3>3. Occ(FlattenSeq(Held(h, c, j)), e) = 0
      BY <1>1, <3>2, OnlyAtHome
    <3> QED BY <1>7, <3>1, <3>3
  <2>5. Occ(FlattenSeq(ss), e) = Occ(ss[m], e)
    BY <1>8, <2>3, <2>4, FlatOnly
  <2> QED BY <1>5, <1>7, <2>1, <2>3, <2>5
<1>10. FlattenSeq(ss) \in Seq(Pairs)
  <2>1. PICK e : e = 0
    OBVIOUS
  <2> QED BY <1>2, <1>3, <1>8, FlatSums
<1> QED BY <1>5, <1>9, <1>10

\* An index just made is sound and empty.
LEMMA NewIsSound ==
  ASSUME NEW n \in Nat \ {0}
  PROVE  Sound(NewIndex(n)) /\ \A e \in Pairs : Tally(NewIndex(n), e) = 0
<1>1. PICK h : h = NewIndex(n)
  OBVIOUS
<1>2. PICK c : c = [i \in 0 .. n - 1 |-> <<Primary(i)>>]
  OBVIOUS
<1>3. PICK B : B = {Primary(i) : i \in 0 .. n - 1}
  OBVIOUS
<1>4. /\ h.count = n /\ h.nextOverflow = 0 /\ h.len = 0 /\ DOMAIN h.bucket = B
      /\ h = [count |-> h.count, bucket |-> h.bucket, nextOverflow |-> h.nextOverflow, len |-> h.len]
      /\ h.bucket = [b \in B |-> EmptyBucket]
  BY <1>1, <1>3 DEF NewIndex
<1>5. IsFiniteSet(B)
  <2> DEFINE f == [i \in 0 .. n - 1 |-> Primary(i)]
  <2>1. f \in Surjection(0 .. n - 1, B)
    BY <1>3 DEF Surjection
  <2>2. IsFiniteSet(0 .. n - 1)
    BY FS_Interval
  <2> HIDE DEF f
  <2> QED BY <2>1, <2>2, FS_Surjection
<1>6. NoBucket \notin B /\ \A id : Overflow(id) \notin B
  BY <1>3 DEF NoBucket, Primary, Overflow
<1>7. /\ \A b \in B : h.bucket[b].entries = <<>> /\ h.bucket[b].overflow = NoBucket
      /\ h.bucket = [b \in B |-> [entries |-> h.bucket[b].entries, overflow |-> h.bucket[b].overflow]]
  BY <1>4 DEF EmptyBucket
<1>8. HashShape(h)
  <2>1. \A b \in B : h.bucket[b].entries \in Seq(Pairs)
    <3>1. <<>> \in Seq(Pairs)
      OBVIOUS
    <3> QED BY <1>7, <3>1
  <2> QED BY <1>4, <1>5, <1>6, <1>7, <2>1 DEF HashShape
<1>9. Primaries(h) = 0 .. n - 1
  BY <1>4 DEF Primaries
<1>10. \A i \in 0 .. n - 1 : c[i] = <<Primary(i)>> /\ Len(c[i]) = 1 /\ c[i][1] = Primary(i)
                             /\ Primary(i) \in B /\ c[i] \in Seq(B)
  BY <1>2, <1>3
<1>11. Joins(h, c)
  BY <1>4, <1>7, <1>9, <1>10 DEF Joins
<1>12. Apart(h, c)
  <2>1. \A i, j : Primary(i) = Primary(j) => i = j
    BY DEF Primary
  <2>2. \A i \in 0 .. n - 1 : \A q \in 1 .. Len(c[i]) : q = 1 /\ c[i][q] = Primary(i)
    <3> TAKE i \in 0 .. n - 1
    <3> TAKE q \in 1 .. Len(c[i])
    <3>1. Len(c[i]) = 1 /\ c[i][1] = Primary(i)
      BY <1>10
    <3>2. q = 1
      BY <3>1
    <3> QED BY <3>1, <3>2
  <2> QED BY <1>9, <2>1, <2>2 DEF Apart
<1>13. AtHome(h, c)
  BY <1>7, <1>9, <1>10 DEF AtHome, Range
<1>14. Threads(h, c)
  BY <1>8, <1>11, <1>12, <1>13 DEF Threads
<1>15. ASSUME NEW e \in Pairs PROVE Tally(h, e) = 0
  <2>1. Home(h, e) \in Primaries(h) /\ Tally(h, e) = Occ(FlattenSeq(Held(h, c, Home(h, e))), e)
    BY <1>14, FoundInThread
  <2>2. PICK i : i = Home(h, e)
    OBVIOUS
  <2>3. PICK ss : ss = Held(h, c, i)
    OBVIOUS
  <2>4. ss = [q \in 1 .. 1 |-> <<>>]
    <3>1. i \in 0 .. n - 1
      BY <1>9, <2>1, <2>2
    <3>2. Len(c[i]) = 1 /\ c[i][1] = Primary(i) /\ Primary(i) \in B
      BY <1>10, <3>1
    <3>3. h.bucket[c[i][1]].entries = <<>>
      BY <1>7, <3>2
    <3>4. ss = [q \in 1 .. 1 |-> h.bucket[c[i][q]].entries]
      BY ONLY <2>3, <3>2 DEF Held
    <3>5. \A q \in 1 .. 1 : q = 1
      OBVIOUS
    <3> QED BY ONLY <3>3, <3>4, <3>5
  <2>5. Parts(ss, 1, Pairs)
    <3>1. Parts(Held(h, c, i), Len(c[i]), Pairs)
      BY <1>14, <2>1, <2>2, HeldOfThread
    <3> QED BY <1>9, <1>10, <2>1, <2>2, <2>3, <3>1
  <2>6. \A q \in 1 .. 1 : q # 0 => Occ(ss[q], e) = 0
    BY <2>4, OccOfShort
  <2>7. Occ(FlattenSeq(ss), e) = 0
    BY <2>5, <2>6, FlatOnly
  <2> QED BY <2>1, <2>2, <2>3, <2>7
<1> QED BY <1>1, <1>14, <1>15 DEF Sound

-----------------------------------------------------------------------------
\* What is hashed to a chain that did not change is found as often.
LEMMA FoundAsBefore ==
  ASSUME NEW h, NEW c, Threads(h, c), NEW h2, NEW c2, Threads(h2, c2), h2.count = h.count,
         NEW e \in Pairs, Held(h2, c2, Home(h, e)) = Held(h, c, Home(h, e))
  PROVE  Tally(h2, e) = Tally(h, e)
<1>1. Home(h2, e) = Home(h, e)
  BY DEF Home
<1>2. PICK i : i = Home(h, e)
  OBVIOUS
<1>3. Tally(h, e) = Occ(FlattenSeq(Held(h, c, i)), e)
  BY <1>2, FoundInThread
<1>4. Tally(h2, e) = Occ(FlattenSeq(Held(h2, c2, i)), e)
  BY <1>1, <1>2, FoundInThread
<1> QED BY <1>2, <1>3, <1>4

\* What is found after an insertion of p.
OneMore(h, h2, p) ==
  h2.count = h.count /\ \A e \in Pairs : Tally(h2, e) = Tally(h, e) + IF e = p THEN 1 ELSE 0

\* A bucket with room takes the pair.
LEMMA RoomTakes ==
  ASSUME NEW h, NEW c, Threads(h, c), NEW p \in Pairs, NEW k \in 1 .. Len(c[Home(h, p)]),
         NEW h2, h2 = [h EXCEPT !.bucket[c[Home(h, p)][k]].entries = Append(@, p), !.len = @ + 1]
  PROVE  Threads(h2, c) /\ OneMore(h, h2, p)
<1>1. PICK m : m = Home(h, p)
  OBVIOUS
<1>2. PICK b : b = c[m][k]
  OBVIOUS
<1>3. /\ h = [count |-> h.count, bucket |-> h.bucket, nextOverflow |-> h.nextOverflow, len |-> h.len]
      /\ \A x \in DOMAIN h.bucket : h.bucket[x] = [entries |-> h.bucket[x].entries, overflow |-> h.bucket[x].overflow]
      /\ h.bucket = [x \in DOMAIN h.bucket |-> h.bucket[x]]
      /\ h.count \in Nat \ {0} /\ h.nextOverflow \in Nat
      /\ IsFiniteSet(DOMAIN h.bucket) /\ NoBucket \notin DOMAIN h.bucket
      /\ \A x \in DOMAIN h.bucket : h.bucket[x].entries \in Seq(Pairs)
      /\ \A id : Overflow(id) \in DOMAIN h.bucket => id \in Nat /\ id < h.nextOverflow
  BY DEF Threads, HashShape
<1>4. m \in Primaries(h) /\ k \in 1 .. Len(c[m]) /\ b \in DOMAIN h.bucket /\ Len(c[m]) \in Nat
  BY <1>1, <1>2, FoundInThread DEF Threads, Joins
<1>5. PICK s : s = Append(h.bucket[b].entries, p)
  OBVIOUS
<1>6. PICK w : w = [h.bucket EXCEPT ![b] = [entries |-> s, overflow |-> h.bucket[b].overflow]]
  OBVIOUS
<1>7. h2 = [count |-> h.count, bucket |-> w, nextOverflow |-> h.nextOverflow, len |-> h.len + 1]
  <2>1. PICK u : u = [h.bucket[b] EXCEPT !.entries = s]
    OBVIOUS
  <2>2. PICK v : v = [h.bucket EXCEPT ![b] = u]
    OBVIOUS
  <2>3. h2 = [h EXCEPT !.bucket = v, !.len = h.len + 1]
    BY <1>1, <1>2, <1>5, <2>1, <2>2
  <2>4. u = [entries |-> s, overflow |-> h.bucket[b].overflow]
    BY ONLY <1>3, <1>4, <2>1
  <2>5. v = w
    BY ONLY <1>6, <2>2, <2>4
  <2>6. PICK B, C, O, L : B = h.bucket /\ C = h.count /\ O = h.nextOverflow /\ L = h.len
    OBVIOUS
  <2>7. h = [count |-> C, bucket |-> B, nextOverflow |-> O, len |-> L]
    BY ONLY <1>3, <2>6
  <2> QED BY ONLY <2>3, <2>5, <2>6, <2>7
<1>8. /\ DOMAIN w = DOMAIN h.bucket
      /\ \A x \in DOMAIN h.bucket : w[x].overflow = h.bucket[x].overflow
      /\ \A x \in DOMAIN h.bucket : w[x].entries = IF x = b THEN s ELSE h.bucket[x].entries
      /\ \A x \in DOMAIN h.bucket : w[x] = [entries |-> w[x].entries, overflow |-> w[x].overflow]
      /\ w = [x \in DOMAIN w |-> w[x]]
  BY <1>3, <1>4, <1>6
<1>9. s \in Seq(Pairs) /\ s = h.bucket[b].entries \o <<p>> /\ <<p>> \in Seq(Pairs)
  BY <1>3, <1>4, <1>5
<1>10. /\ h2.count = h.count /\ h2.bucket = w /\ h2.nextOverflow = h.nextOverflow
       /\ h2 = [count |-> h2.count, bucket |-> h2.bucket, nextOverflow |-> h2.nextOverflow, len |-> h2.len]
  BY ONLY <1>7
<1>11. HashShape(h2)
  <2>1. w = [x \in DOMAIN w |-> [entries |-> w[x].entries, overflow |-> w[x].overflow]]
    BY <1>8
  <2>2. \A x \in DOMAIN w : w[x].entries \in Seq(Pairs)
    BY <1>3, <1>8, <1>9
  <2> QED BY ONLY <1>3, <1>8, <1>10, <2>1, <2>2 DEF HashShape
<1>12. Primaries(h2) = Primaries(h) /\ \A e : Home(h2, e) = Home(h, e)
  BY <1>10 DEF Primaries, Home
<1>13. \A i \in Primaries(h) : \A q \in 1 .. Len(c[i]) : c[i][q] \in DOMAIN h.bucket
  BY DEF Threads, Joins
<1>14. Joins(h2, c)
  <2>1. Joins(h, c)
    BY DEF Threads
  <2> QED BY ONLY <1>8, <1>10, <1>12, <1>13, <2>1 DEF Joins
<1>15. Apart(h2, c)
  BY <1>12 DEF Threads, Apart
<1>16. \A i \in Primaries(h) : \A q \in 1 .. Len(c[i]) : c[i][q] = b => i = m /\ q = k
  BY <1>2, <1>4 DEF Threads, Apart
<1>17. AtHome(h2, c)
  <2>1. ASSUME NEW i \in Primaries(h), NEW q \in 1 .. Len(c[i]),
               NEW e \in Range(w[c[i][q]].entries)
        PROVE  Home(h, e) = i
    <3>1. \A x \in Range(h.bucket[c[i][q]].entries) : Home(h, x) = i
      BY DEF Threads, AtHome
    <3>2. CASE c[i][q] # b
      BY <1>8, <1>13, <3>1, <3>2
    <3>3. CASE c[i][q] = b
      <4>1. i = m /\ w[b].entries = s
        BY <1>4, <1>8, <1>16, <3>3
      <4>2. Range(s) = Range(h.bucket[b].entries) \cup {p}
        <5>1. PICK r \in Seq(Pairs) : r = h.bucket[b].entries
          BY <1>3, <1>4
        <5>2. s = Append(r, p) /\ Len(s) = Len(r) + 1 /\ Len(r) \in Nat /\ DOMAIN s = 1 .. Len(r) + 1
              /\ DOMAIN r = 1 .. Len(r) /\ s[Len(r) + 1] = p /\ \A x \in 1 .. Len(r) : s[x] = r[x]
          <6>1. s = Append(r, p)
            BY <1>5, <5>1
          <6>2. /\ s \in Seq(Pairs) /\ Len(s) = Len(r) + 1 /\ s[Len(r) + 1] = p
                /\ \A x \in 1 .. Len(r) : s[x] = r[x]
            BY ONLY r \in Seq(Pairs), p \in Pairs, <6>1, AppendProperties
          <6>3. /\ Len(r) \in Nat /\ DOMAIN r = 1 .. Len(r) /\ DOMAIN s = 1 .. Len(s)
            BY ONLY r \in Seq(Pairs), <6>2
          <6> QED BY ONLY <6>1, <6>2, <6>3
        <5>3. \A x \in 1 .. Len(r) + 1 : x \in 1 .. Len(r) \/ x = Len(r) + 1
          BY <5>2
        <5>4. \A x \in 1 .. Len(r) : x \in 1 .. Len(r) + 1
          BY <5>2
        <5>5. Len(r) + 1 \in 1 .. Len(r) + 1
          BY <5>2
        <5> QED BY ONLY <5>1, <5>2, <5>3, <5>4, <5>5 DEF Range
      <4> QED BY <1>1, <3>1, <3>3, <4>1, <4>2
    <3> QED BY <3>2, <3>3
  <2> QED BY ONLY <1>10, <1>12, <2>1 DEF AtHome
<1>18. Threads(h2, c)
  BY <1>11, <1>14, <1>15, <1>17 DEF Threads
<1>19. ASSUME NEW i \in Primaries(h), i # m PROVE Held(h2, c, i) = Held(h, c, i)
  <2>1. \A q \in 1 .. Len(c[i]) : w[c[i][q]].entries = h.bucket[c[i][q]].entries
    BY <1>8, <1>13, <1>16, <1>19
  <2> QED BY ONLY <1>10, <2>1 DEF Held
<1>20. ASSUME NEW e \in Pairs PROVE Tally(h2, e) = Tally(h, e) + IF e = p THEN 1 ELSE 0
  <2>1. Home(h, e) \in Primaries(h) /\ Tally(h, e) \in Nat
    BY FoundInThread
  <2>2. CASE Home(h, e) # m
    <3>1. Tally(h2, e) = Tally(h, e)
      <4>1. PICK k2 : k2 = Home(h, e)
        OBVIOUS
      <4>2. Held(h2, c, Home(h, e)) = Held(h, c, Home(h, e))
        BY <1>19, <2>1, <2>2, <4>1
      <4>3. h2.count = h.count
        BY <1>10
      <4> QED BY ONLY Threads(h, c), e \in Pairs, <1>18, <4>2, <4>3, FoundAsBefore
    <3> QED BY <1>1, <2>1, <2>2, <3>1
  <2>3. CASE Home(h, e) = m
    <3>1. PICK tt : tt = Held(h, c, m)
      OBVIOUS
    <3>2. PICK ss : ss = Held(h2, c, m)
      OBVIOUS
    <3>3. PICK n : n = Len(c[m])
      OBVIOUS
    <3>4. Tally(h, e) = Occ(FlattenSeq(tt), e)
      BY <2>3, <3>1, FoundInThread
    <3>5. Tally(h2, e) = Occ(FlattenSeq(ss), e)
      BY <1>12, <1>18, <2>3, <3>2, FoundInThread
    <3>6. Parts(tt, n, Pairs) /\ Parts(ss, n, Pairs)
      BY <1>4, <1>12, <1>18, <3>1, <3>2, <3>3, HeldOfThread
    <3>7. \A q \in 1 .. n : /\ tt[q] = h.bucket[c[m][q]].entries
                            /\ ss[q] = w[c[m][q]].entries
      BY <1>10, <3>1, <3>2, <3>3 DEF Held
    <3>8. \A q \in 1 .. n : q # k => Occ(ss[q], e) = Occ(tt[q], e)
      BY <1>4, <1>8, <1>13, <1>16, <3>3, <3>7
    <3>9. Occ(FlattenSeq(ss), e) + Occ(tt[k], e) = Occ(FlattenSeq(tt), e) + Occ(ss[k], e)
      BY <1>4, <3>3, <3>6, <3>8, FlatDiffer
    <3>10. tt[k] \in Seq(Pairs) /\ ss[k] = tt[k] \o <<p>>
      BY <1>2, <1>3, <1>4, <1>8, <1>9, <3>3, <3>7
    <3>11. Occ(ss[k], e) = Occ(tt[k], e) + Occ(<<p>>, e) /\ Occ(tt[k], e) \in Nat
        <4>1. PICK x, y : x = tt[k] /\ y = <<p>>
        OBVIOUS
      <4>2. x \in Seq(Pairs) /\ y \in Seq(Pairs)
        BY <1>9, <3>10, <4>1
      <4>3. Occ(x \o y, e) = Occ(x, e) + Occ(y, e) /\ Occ(x, e) \in Nat
        BY <4>2, OccOfConcat
      <4> QED BY ONLY <3>10, <4>1, <4>3
    <3>12. Occ(<<p>>, e) = IF e = p THEN 1 ELSE 0
      BY OccOfShort
    <3>13. Occ(FlattenSeq(ss), e) \in Nat
      <4>1. FlattenSeq(ss) \in Seq(Pairs)
        BY <3>6, FlatSums
      <4> QED BY <4>1, OccOfConcat
    <3> QED BY ONLY <2>1, <3>4, <3>5, <3>9, <3>11, <3>12, <3>13
  <2> QED BY <2>2, <2>3
<1> QED BY <1>10, <1>18, <1>20 DEF OneMore

-----------------------------------------------------------------------------
\* h2 is h with a new bucket behind b, and the pair in it.
Extends(h2, h, b, p) ==
  LET new == Overflow(h.nextOverflow)
      linked == [h.bucket EXCEPT ![b].overflow = new]
  IN  h2 = [h EXCEPT !.len = @ + 1, !.nextOverflow = @ + 1,
                     !.bucket = [x \in DOMAIN h.bucket \cup {new} |->
                                   IF x = new THEN [entries |-> <<p>>, overflow |-> NoBucket]
                                   ELSE linked[x]]]

\* An overflow bucket behind the last of the chain takes the pair.
LEMMA NewBucketTakes ==
  ASSUME NEW h, NEW c, Threads(h, c), NEW p \in Pairs,
         NEW b, b = c[Home(h, p)][Len(c[Home(h, p)])],
         NEW h2, Extends(h2, h, b, p)
  PROVE  Sound(h2) /\ OneMore(h, h2, p)
<1>01. PICK new : new = Overflow(h.nextOverflow)
  OBVIOUS
<1>02. PICK linked : linked = [h.bucket EXCEPT ![b].overflow = new]
  OBVIOUS
<1>1. PICK m : m = Home(h, p)
  OBVIOUS
<1>2. PICK n : n = Len(c[m])
  OBVIOUS
<1>3. /\ h = [count |-> h.count, bucket |-> h.bucket, nextOverflow |-> h.nextOverflow, len |-> h.len]
      /\ \A x \in DOMAIN h.bucket : h.bucket[x] = [entries |-> h.bucket[x].entries, overflow |-> h.bucket[x].overflow]
      /\ h.bucket = [x \in DOMAIN h.bucket |-> h.bucket[x]]
      /\ h.count \in Nat \ {0} /\ h.nextOverflow \in Nat
      /\ IsFiniteSet(DOMAIN h.bucket) /\ NoBucket \notin DOMAIN h.bucket
      /\ \A x \in DOMAIN h.bucket : h.bucket[x].entries \in Seq(Pairs)
      /\ \A id : Overflow(id) \in DOMAIN h.bucket => id \in Nat /\ id < h.nextOverflow
  BY DEF Threads, HashShape
<1>4. m \in Primaries(h)
  BY <1>1, FoundInThread
<1>5. \A i \in Primaries(h) : /\ c[i] \in Seq(DOMAIN h.bucket) /\ Len(c[i]) \in Nat \ {0}
                              /\ c[i][1] = Primary(i)
                              /\ \A q \in 1 .. Len(c[i]) : c[i][q] \in DOMAIN h.bucket
  BY DEF Threads, Joins
<1>6. n \in Nat \ {0} /\ n \in 1 .. n /\ b = c[m][n] /\ b \in DOMAIN h.bucket
  BY <1>1, <1>2, <1>4, <1>5
<1>7. new \notin DOMAIN h.bucket /\ new # NoBucket
  BY <1>3, <1>01 DEF Overflow, NoBucket
<1>8. PICK w : w = [x \in DOMAIN h.bucket \cup {new} |->
                      IF x = new THEN [entries |-> <<p>>, overflow |-> NoBucket] ELSE linked[x]]
  OBVIOUS
<1>9. h2 = [count |-> h.count, bucket |-> w, nextOverflow |-> h.nextOverflow + 1, len |-> h.len + 1]
  <2>1. h2 = [h EXCEPT !.len = h.len + 1, !.nextOverflow = h.nextOverflow + 1, !.bucket = w]
    BY <1>01, <1>02, <1>8 DEF Extends
  <2>2. PICK B, C, O, L : B = h.bucket /\ C = h.count /\ O = h.nextOverflow /\ L = h.len
    OBVIOUS
  <2>3. h = [count |-> C, bucket |-> B, nextOverflow |-> O, len |-> L]
    BY ONLY <1>3, <2>2
  <2> QED BY ONLY <2>1, <2>2, <2>3
<1>10. \A x \in DOMAIN h.bucket : linked[x] = IF x = b THEN [entries |-> h.bucket[b].entries, overflow |-> new]
                                              ELSE h.bucket[x]
  <2>1. PICK u : u = [h.bucket[b] EXCEPT !.overflow = new]
    OBVIOUS
  <2>2. linked = [h.bucket EXCEPT ![b] = u]
    BY <1>02, <2>1
  <2>3. u = [entries |-> h.bucket[b].entries, overflow |-> new]
    BY ONLY <1>3, <1>6, <2>1
  <2> QED BY ONLY <1>3, <1>6, <2>2, <2>3
<1>11. /\ DOMAIN w = DOMAIN h.bucket \cup {new}
       /\ w[new].entries = <<p>> /\ w[new].overflow = NoBucket
       /\ \A x \in DOMAIN h.bucket : /\ w[x].entries = h.bucket[x].entries
                                     /\ w[x].overflow = IF x = b THEN new ELSE h.bucket[x].overflow
       /\ \A x \in DOMAIN w : w[x] = [entries |-> w[x].entries, overflow |-> w[x].overflow]
       /\ w = [x \in DOMAIN w |-> w[x]]
  <2>1. w[new] = [entries |-> <<p>>, overflow |-> NoBucket]
    BY ONLY <1>8
  <2>2. \A x \in DOMAIN h.bucket : w[x] = linked[x]
    BY ONLY <1>7, <1>8
  <2>3. DOMAIN w = DOMAIN h.bucket \cup {new} /\ w = [x \in DOMAIN w |-> w[x]]
    BY ONLY <1>8
  <2>4. \A x \in DOMAIN h.bucket : /\ w[x].entries = h.bucket[x].entries
                                   /\ w[x].overflow = IF x = b THEN new ELSE h.bucket[x].overflow
                                   /\ w[x] = [entries |-> w[x].entries, overflow |-> w[x].overflow]
    BY ONLY <1>3, <1>10, <2>2
  <2>5. /\ w[new].entries = <<p>> /\ w[new].overflow = NoBucket
        /\ w[new] = [entries |-> w[new].entries, overflow |-> w[new].overflow]
    BY ONLY <2>1
  <2>6. \A x \in DOMAIN w : w[x] = [entries |-> w[x].entries, overflow |-> w[x].overflow]
    BY ONLY <2>3, <2>4, <2>5
  <2>7. \A x \in DOMAIN h.bucket : /\ w[x].entries = h.bucket[x].entries
                                   /\ w[x].overflow = IF x = b THEN new ELSE h.bucket[x].overflow
    BY ONLY <2>4
  <2> QED BY ONLY <2>3, <2>5, <2>6, <2>7
<1>12. /\ h2.count = h.count /\ h2.bucket = w /\ h2.nextOverflow = h.nextOverflow + 1
       /\ h2 = [count |-> h2.count, bucket |-> h2.bucket, nextOverflow |-> h2.nextOverflow, len |-> h2.len]
  BY ONLY <1>9
<1>13. <<p>> \in Seq(Pairs)
  OBVIOUS
<1>14. HashShape(h2)
  <2>1. IsFiniteSet(DOMAIN w)
    BY <1>3, <1>11, FS_AddElement
  <2>2. w = [x \in DOMAIN w |-> [entries |-> w[x].entries, overflow |-> w[x].overflow]]
    BY ONLY <1>11
  <2>3. \A x \in DOMAIN w : w[x].entries \in Seq(Pairs)
    BY ONLY <1>3, <1>11, <1>13
  <2>4. ASSUME NEW id, Overflow(id) \in DOMAIN w PROVE id \in Nat /\ id < h2.nextOverflow
    <3>1. CASE Overflow(id) = new
      <4>1. id = h.nextOverflow
        BY <1>01, <3>1 DEF Overflow
      <4> QED BY ONLY <1>3, <1>12, <4>1
    <3>2. CASE Overflow(id) \in DOMAIN h.bucket
      BY ONLY <1>3, <1>12, <3>2
    <3> QED BY <1>11, <2>4, <3>1, <3>2
  <2>5. h2.count \in Nat \ {0} /\ h2.nextOverflow \in Nat /\ NoBucket \notin DOMAIN w
    BY ONLY <1>3, <1>7, <1>11, <1>12
  <2> QED BY ONLY <1>12, <2>1, <2>2, <2>3, <2>4, <2>5 DEF HashShape
<1>15. PICK c2 : c2 = [i \in Primaries(h) |-> IF i = m THEN Append(c[m], new) ELSE c[i]]
  OBVIOUS
<1>16. Primaries(h2) = Primaries(h) /\ \A e : Home(h2, e) = Home(h, e)
  BY ONLY <1>12 DEF Primaries, Home
<1>17. /\ Len(c2[m]) = n + 1 /\ c2[m][n + 1] = new /\ c2[m] \in Seq(DOMAIN w)
       /\ \A q \in 1 .. n : c2[m][q] = c[m][q]
       /\ \A i \in Primaries(h) : i # m => c2[i] = c[i] /\ c[i] \in Seq(DOMAIN w)
  <2>1. PICK s \in Seq(DOMAIN h.bucket) : s = c[m]
    BY <1>4, <1>5
  <2>2. c2[m] = Append(s, new) /\ n = Len(s)
    BY <1>2, <1>4, <1>15, <2>1
  <2>3. s \in Seq(DOMAIN w) /\ new \in DOMAIN w
    <3>1. \A q \in 1 .. Len(s) : s[q] \in DOMAIN w
      BY <1>11
    <3> QED BY <1>11, <3>1
  <2>4. /\ Append(s, new) \in Seq(DOMAIN w) /\ Len(Append(s, new)) = Len(s) + 1
        /\ Append(s, new)[Len(s) + 1] = new /\ \A q \in 1 .. Len(s) : Append(s, new)[q] = s[q]
    BY ONLY <2>3
  <2>5. ASSUME NEW i \in Primaries(h), i # m PROVE c2[i] = c[i] /\ c[i] \in Seq(DOMAIN w)
    <3>1. PICK t \in Seq(DOMAIN h.bucket) : t = c[i]
      BY <1>5
    <3>2. \A q \in 1 .. Len(t) : t[q] \in DOMAIN w
      BY <1>11
    <3>3. t \in Seq(DOMAIN w)
      BY ONLY <3>1, <3>2
    <3>4. c2[i] = c[i]
      BY ONLY <1>15, <2>5
    <3> QED BY ONLY <3>1, <3>3, <3>4
  <2> QED BY ONLY <2>1, <2>2, <2>4, <2>5
<1>18. \A q \in 1 .. n + 1 : q \in 1 .. n \/ q = n + 1
  BY ONLY <1>6
<1>19. \A i \in Primaries(h) : \A q \in 1 .. Len(c[i]) : c[i][q] = b => i = m /\ q = n
  <2>1. Apart(h, c)
    BY DEF Threads
  <2> QED BY ONLY <1>2, <1>4, <1>6, <2>1 DEF Apart
<1>20. Joins(h2, c2)
  <2>1. \A i \in Primaries(h) : \A q \in 1 .. Len(c[i]) :
          h.bucket[c[i][q]].overflow = IF q = Len(c[i]) THEN NoBucket ELSE c[i][q + 1]
    BY DEF Threads, Joins
  <2>2. ASSUME NEW i \in Primaries(h)
        PROVE  /\ c2[i] \in Seq(DOMAIN w) /\ Len(c2[i]) # 0 /\ c2[i][1] = Primary(i)
               /\ \A q \in 1 .. Len(c2[i]) :
                    w[c2[i][q]].overflow = IF q = Len(c2[i]) THEN NoBucket ELSE c2[i][q + 1]
    <3>1. CASE i # m
      <4>1. c2[i] = c[i] /\ c2[i] \in Seq(DOMAIN w)
        BY ONLY <1>17, <2>2, <3>1
      <4>2. \A q \in 1 .. Len(c[i]) : w[c[i][q]].overflow = h.bucket[c[i][q]].overflow
        BY ONLY <1>5, <1>11, <1>19, <2>2, <3>1
      <4> QED BY ONLY <1>5, <2>1, <2>2, <4>1, <4>2
    <3>2. CASE i = m
      <4>1. c2[m] \in Seq(DOMAIN w) /\ Len(c2[m]) # 0 /\ c2[m][1] = Primary(m)
        <5>1. 1 \in 1 .. n
          BY ONLY <1>6
        <5> QED BY ONLY <1>4, <1>5, <1>6, <1>17, <5>1
      <4>2. ASSUME NEW q \in 1 .. n + 1
            PROVE  w[c2[m][q]].overflow = IF q = n + 1 THEN NoBucket ELSE c2[m][q + 1]
        <5>1. CASE q = n + 1
          BY ONLY <1>11, <1>17, <5>1
        <5>2. CASE q = n
          <6>1. q \in 1 .. n /\ q # n + 1
            BY ONLY <1>6, <5>2
          <6>2. c2[m][q] = b /\ w[b].overflow = new
            BY ONLY <1>6, <1>11, <1>17, <5>2
          <6> QED BY ONLY <1>17, <5>2, <6>1, <6>2
        <5>3. CASE q # n /\ q # n + 1
          <6>1. q \in 1 .. n /\ q + 1 \in 1 .. n
            BY ONLY <1>6, <4>2, <5>3
          <6>2. c2[m][q] = c[m][q] /\ c2[m][q + 1] = c[m][q + 1] /\ c[m][q] # b /\ c[m][q] \in DOMAIN h.bucket
            BY ONLY <1>2, <1>4, <1>5, <1>17, <1>19, <5>3, <6>1
          <6>3. h.bucket[c[m][q]].overflow = c[m][q + 1]
            BY ONLY <1>2, <1>4, <2>1, <5>3, <6>1
          <6> QED BY ONLY <1>11, <5>3, <6>2, <6>3
        <5> QED BY <5>1, <5>2, <5>3
      <4> QED BY ONLY <1>17, <3>2, <4>1, <4>2
    <3> QED BY <3>1, <3>2
  <2> QED BY ONLY <1>12, <1>16, <2>2 DEF Joins
<1>21. Apart(h2, c2)
  <2>1. \A i, j \in Primaries(h) : \A q \in 1 .. Len(c[i]), r \in 1 .. Len(c[j]) :
          c[i][q] = c[j][r] => i = j /\ q = r
    BY DEF Threads, Apart
  <2>2. \A i \in Primaries(h) : \A q \in 1 .. Len(c2[i]) :
          \/ q \in 1 .. Len(c[i]) /\ c2[i][q] = c[i][q] /\ c2[i][q] # new
          \/ i = m /\ q = n + 1 /\ c2[i][q] = new
    BY ONLY <1>2, <1>4, <1>5, <1>7, <1>17, <1>18
  <2> QED BY ONLY <1>16, <2>1, <2>2 DEF Apart
<1>22. AtHome(h2, c2)
  <2>1. \A i \in Primaries(h) : \A q \in 1 .. Len(c[i]) :
          \A e \in Range(h.bucket[c[i][q]].entries) : Home(h, e) = i
    BY DEF Threads, AtHome
  <2>2. Range(<<p>>) = {p}
    BY DEF Range
  <2>3. \A i \in Primaries(h) : \A q \in 1 .. Len(c2[i]) :
          \/ q \in 1 .. Len(c[i]) /\ w[c2[i][q]].entries = h.bucket[c[i][q]].entries
          \/ i = m /\ w[c2[i][q]].entries = <<p>>
    BY ONLY <1>2, <1>4, <1>5, <1>11, <1>17, <1>18
  <2>4. \A i \in Primaries(h) : \A q \in 1 .. Len(c2[i]) :
          \A e \in Range(w[c2[i][q]].entries) : Home(h, e) = i
    BY ONLY <1>1, <2>1, <2>2, <2>3
  <2> QED BY ONLY <1>12, <1>16, <2>4 DEF AtHome
<1>23. Threads(h2, c2)
  BY <1>14, <1>20, <1>21, <1>22 DEF Threads
<1>24. ASSUME NEW i \in Primaries(h), i # m PROVE Held(h2, c2, i) = Held(h, c, i)
  <2>1. c2[i] = c[i]
    BY ONLY <1>17, <1>24
  <2>2. \A q \in 1 .. Len(c[i]) : w[c[i][q]].entries = h.bucket[c[i][q]].entries
    BY ONLY <1>5, <1>11, <1>24
  <2> QED BY ONLY <1>12, <2>1, <2>2 DEF Held
<1>25. ASSUME NEW e \in Pairs PROVE Tally(h2, e) = Tally(h, e) + IF e = p THEN 1 ELSE 0
  <2>1. Home(h, e) \in Primaries(h) /\ Tally(h, e) \in Nat
    BY FoundInThread
  <2>2. CASE Home(h, e) # m
    <3>1. Tally(h2, e) = Tally(h, e)
      <4>1. Held(h2, c2, Home(h, e)) = Held(h, c, Home(h, e)) /\ h2.count = h.count
        BY <1>12, <1>24, <2>1, <2>2
      <4> QED BY ONLY Threads(h, c), e \in Pairs, <1>23, <4>1, FoundAsBefore
    <3> QED BY <1>1, <2>1, <2>2, <3>1
  <2>3. CASE Home(h, e) = m
    <3>1. PICK ss : ss = Held(h, c, m)
      OBVIOUS
    <3>2. PICK tt : tt = Held(h2, c2, m)
      OBVIOUS
    <3>3. Tally(h, e) = Occ(FlattenSeq(ss), e)
      BY <2>3, <3>1, FoundInThread
    <3>4. Tally(h2, e) = Occ(FlattenSeq(tt), e)
      BY <1>16, <1>23, <2>3, <3>2, FoundInThread
    <3>5. Parts(ss, n, Pairs) /\ Parts(tt, n + 1, Pairs)
      <4>1. Parts(Held(h, c, m), Len(c[m]), Pairs)
        BY <1>4, HeldOfThread
      <4>2. m \in Primaries(h2) /\ Len(c2[m]) = n + 1
        BY <1>4, <1>16, <1>17
      <4>3. Parts(Held(h2, c2, m), Len(c2[m]), Pairs)
        BY <1>23, <4>2, HeldOfThread
      <4> QED BY ONLY <1>2, <3>1, <3>2, <4>1, <4>2, <4>3
    <3>6. \A q \in 1 .. n : ss[q] = h.bucket[c[m][q]].entries
      BY ONLY <1>2, <3>1 DEF Held
    <3>7. \A q \in 1 .. n + 1 : tt[q] = w[c2[m][q]].entries
      BY ONLY <1>12, <1>17, <3>2 DEF Held
    <3>8. \A q \in 1 .. n : q \in 1 .. n + 1
      BY ONLY <1>6
    <3>9. \A q \in 1 .. n : Occ(ss[q], e) = Occ(tt[q], e)
      BY ONLY <1>2, <1>4, <1>5, <1>11, <1>17, <3>6, <3>7, <3>8
    <3>10. Occ(FlattenSeq(tt), e) = Occ(FlattenSeq(ss), e) + Occ(tt[n + 1], e)
      BY ONLY <3>5, <3>9, FlatMore
    <3>11. tt[n + 1] = <<p>>
      <4>1. n + 1 \in 1 .. n + 1
        BY ONLY <1>6
      <4> QED BY ONLY <1>11, <1>17, <3>7, <4>1
    <3>12. Occ(<<p>>, e) = IF e = p THEN 1 ELSE 0
      BY OccOfShort
    <3> QED BY ONLY <2>1, <3>3, <3>4, <3>10, <3>11, <3>12
  <2> QED BY <2>2, <2>3
<1> QED BY <1>12, <1>23, <1>25 DEF OneMore, Sound

\* An insertion keeps the chains and adds the pair once.
LEMMA WithPairAdds ==
  ASSUME NEW h, Sound(h), NEW p \in Pairs
  PROVE  Sound(WithPair(h, p)) /\ OneMore(h, WithPair(h, p), p)
<1>1. PICK c : Threads(h, c)
  BY DEF Sound
<1>2. PICK m : m = Home(h, p)
  OBVIOUS
<1>3. m \in Primaries(h) /\ BucketOf(h, p.key) = Primary(m)
  BY <1>1, <1>2, HomeIsPrimary DEF Threads
<1>4. PICK chain : chain = c[m]
  OBVIOUS
<1>5. Chain(h, p.key) = chain
  BY <1>1, <1>3, <1>4, ChainIsThread DEF Chain
<1>6. chain \in Seq(DOMAIN h.bucket) /\ DOMAIN chain = 1 .. Len(chain) /\ Len(chain) \in Nat
  BY <1>1, <1>3, <1>4 DEF Threads, Joins
<1> DEFINE open == {i \in DOMAIN chain : Len(h.bucket[chain[i]].entries) < BucketCapacity}
<1>7. CASE open # {}
  <2> DEFINE k == CHOOSE i \in open : \A j \in open : i <= j
  <2>1. k \in open
    <3>1. open \subseteq Nat
      BY <1>6
    <3> HIDE DEF open
    <3>2. \E i \in open : \A j \in open : i <= j
      BY <1>7, <3>1, MinIsIn
    <3> QED BY <3>2
  <2>2. k \in 1 .. Len(chain)
    BY <1>6, <2>1
  <2>3. WithPair(h, p) = [h EXCEPT !.bucket[chain[k]].entries = Append(@, p), !.len = @ + 1]
    BY <1>5, <1>7 DEF WithPair
  <2> HIDE DEF k, open
  <2>4. PICK j, h2 : j = k /\ h2 = WithPair(h, p)
    OBVIOUS
  <2>5. Threads(h2, c) /\ OneMore(h, h2, p)
    <3>1. j \in 1 .. Len(c[Home(h, p)])
      BY <1>2, <1>4, <2>2, <2>4
    <3>2. h2 = [h EXCEPT !.bucket[c[Home(h, p)][j]].entries = Append(@, p), !.len = @ + 1]
      BY ONLY <1>2, <1>4, <2>3, <2>4
    <3> QED BY <1>1, <3>1, <3>2, RoomTakes
  <2> QED BY <2>4, <2>5 DEF Sound
<1>8. CASE open = {}
  <2>1. PICK b, h2 : b = chain[Len(chain)] /\ h2 = WithPair(h, p)
    OBVIOUS
  <2>2. Extends(h2, h, b, p)
    BY <1>5, <1>8, <2>1 DEF WithPair, LinkFrom, Last, Extends
  <2>3. b = c[Home(h, p)][Len(c[Home(h, p)])]
    BY ONLY <1>2, <1>4, <2>1
  <2>4. Sound(h2) /\ OneMore(h, h2, p)
    BY ONLY <1>1, p \in Pairs, <2>2, <2>3, NewBucketTakes
  <2> QED BY <2>1, <2>4
<1> QED BY <1>7, <1>8

-----------------------------------------------------------------------------
\* An element that is somewhere.
LEMMA OccOfPresent ==
  ASSUME NEW S, NEW s \in Seq(S), NEW e, e \in Range(s)
  PROVE  Occ(s, e) # 0
<1>1. PICK j \in DOMAIN s : s[j] = e
  BY DEF Range
<1> DEFINE A == {i \in DOMAIN s : s[i] = e}
<1>2. j \in A
  BY <1>1
<1>3. IsFiniteSet(A)
  <2>1. DOMAIN s = 1 .. Len(s) /\ Len(s) \in Nat
    OBVIOUS
  <2>2. IsFiniteSet(1 .. Len(s)) /\ A \in SUBSET (1 .. Len(s))
    BY <2>1, FS_Interval
  <2> HIDE DEF A
  <2> QED BY <2>2, FS_Subset
<1> HIDE DEF A
<1>4. Cardinality(A) # 0
  BY <1>2, <1>3, FS_EmptySet
<1> QED BY <1>4 DEF A, Occ

\* h2 is h without the copies of p in the chain it is hashed to.
Drops(h2, h, p) ==
  h2 = [h EXCEPT
    !.len = @ - 1,
    !.bucket = [b \in DOMAIN h.bucket |->
       LET old == h.bucket[b]
       IN  IF b \in Range(Chain(h, p.key)) THEN [old EXCEPT !.entries = OtherPairs(old.entries, p)]
           ELSE old]]

\* A removal keeps the chains, and what is found but of this pair.
LEMMA DroppedIsGone ==
  ASSUME NEW h, Sound(h), NEW p \in Pairs, NEW h2, Drops(h2, h, p)
  PROVE  /\ Sound(h2)
         /\ \A e \in Pairs : Tally(h2, e) = IF e = p THEN 0 ELSE Tally(h, e)
<1>1. PICK c : Threads(h, c)
  BY DEF Sound
<1>2. PICK m : m = Home(h, p)
  OBVIOUS
<1>3. /\ h = [count |-> h.count, bucket |-> h.bucket, nextOverflow |-> h.nextOverflow, len |-> h.len]
      /\ \A x \in DOMAIN h.bucket : h.bucket[x] = [entries |-> h.bucket[x].entries, overflow |-> h.bucket[x].overflow]
      /\ h.count \in Nat \ {0} /\ h.nextOverflow \in Nat
      /\ IsFiniteSet(DOMAIN h.bucket) /\ NoBucket \notin DOMAIN h.bucket
      /\ \A x \in DOMAIN h.bucket : h.bucket[x].entries \in Seq(Pairs)
      /\ \A id : Overflow(id) \in DOMAIN h.bucket => id \in Nat /\ id < h.nextOverflow
  BY <1>1 DEF Threads, HashShape
<1>4. m \in Primaries(h) /\ BucketOf(h, p.key) = Primary(m)
  BY <1>1, <1>2, HomeIsPrimary DEF Threads
<1>5. Chain(h, p.key) = c[m]
  BY <1>1, <1>4, ChainIsThread DEF Chain
<1>6. \A i \in Primaries(h) : /\ DOMAIN c[i] = 1 .. Len(c[i])
                              /\ \A q \in 1 .. Len(c[i]) : c[i][q] \in DOMAIN h.bucket
  BY <1>1 DEF Threads, Joins
<1>7. PICK w : w = [b \in DOMAIN h.bucket |->
                      IF b \in Range(c[m])
                      THEN [h.bucket[b] EXCEPT !.entries = OtherPairs(h.bucket[b].entries, p)]
                      ELSE h.bucket[b]]
  OBVIOUS
<1>8. h2 = [count |-> h.count, bucket |-> w, nextOverflow |-> h.nextOverflow, len |-> h.len - 1]
  <2>1. h2 = [h EXCEPT !.len = h.len - 1, !.bucket = w]
    BY <1>5, <1>7 DEF Drops
  <2>2. PICK B, C, O, L : B = h.bucket /\ C = h.count /\ O = h.nextOverflow /\ L = h.len
    OBVIOUS
  <2>3. h = [count |-> C, bucket |-> B, nextOverflow |-> O, len |-> L]
    BY ONLY <1>3, <2>2
  <2> QED BY ONLY <2>1, <2>2, <2>3
<1>9. /\ h2.count = h.count /\ h2.bucket = w /\ h2.nextOverflow = h.nextOverflow
      /\ h2 = [count |-> h2.count, bucket |-> h2.bucket, nextOverflow |-> h2.nextOverflow, len |-> h2.len]
  BY ONLY <1>8
<1>10. \A x \in DOMAIN h.bucket :
         w[x] = [entries |-> IF x \in Range(c[m]) THEN OtherPairs(h.bucket[x].entries, p)
                             ELSE h.bucket[x].entries,
                 overflow |-> h.bucket[x].overflow]
  <2> SUFFICES ASSUME NEW x \in DOMAIN h.bucket
               PROVE  w[x] = [entries |-> IF x \in Range(c[m]) THEN OtherPairs(h.bucket[x].entries, p)
                                          ELSE h.bucket[x].entries,
                              overflow |-> h.bucket[x].overflow]
    OBVIOUS
  <2>1. PICK E, V : E = h.bucket[x].entries /\ V = h.bucket[x].overflow
    OBVIOUS
  <2>2. h.bucket[x] = [entries |-> E, overflow |-> V]
    BY ONLY <1>3, x \in DOMAIN h.bucket, <2>1
  <2>3. PICK W : W = OtherPairs(E, p)
    OBVIOUS
  <2>4. [h.bucket[x] EXCEPT !.entries = W] = [entries |-> W, overflow |-> V]
    BY ONLY <2>2
  <2>5. w[x] = IF x \in Range(c[m]) THEN [h.bucket[x] EXCEPT !.entries = W] ELSE h.bucket[x]
    BY ONLY x \in DOMAIN h.bucket, <1>7, <2>1, <2>3
  <2> QED BY ONLY <2>1, <2>2, <2>3, <2>4, <2>5
<1>11. /\ DOMAIN w = DOMAIN h.bucket
       /\ \A x \in DOMAIN h.bucket :
            /\ w[x].overflow = h.bucket[x].overflow
            /\ w[x].entries = IF x \in Range(c[m]) THEN OtherPairs(h.bucket[x].entries, p)
                              ELSE h.bucket[x].entries
            /\ w[x] = [entries |-> w[x].entries, overflow |-> w[x].overflow]
       /\ w = [x \in DOMAIN w |-> [entries |-> w[x].entries, overflow |-> w[x].overflow]]
  <2>1. DOMAIN w = DOMAIN h.bucket /\ w = [x \in DOMAIN w |-> w[x]]
    BY ONLY <1>7
  <2>2. \A x \in DOMAIN h.bucket :
            /\ w[x].overflow = h.bucket[x].overflow
            /\ w[x].entries = IF x \in Range(c[m]) THEN OtherPairs(h.bucket[x].entries, p)
                              ELSE h.bucket[x].entries
            /\ w[x] = [entries |-> w[x].entries, overflow |-> w[x].overflow]
    <3> TAKE x \in DOMAIN h.bucket
    <3>1. PICK E : E = IF x \in Range(c[m]) THEN OtherPairs(h.bucket[x].entries, p) ELSE h.bucket[x].entries
      OBVIOUS
    <3>2. w[x] = [entries |-> E, overflow |-> h.bucket[x].overflow]
      BY ONLY x \in DOMAIN h.bucket, <1>10, <3>1
    <3>3. w[x].entries = E /\ w[x].overflow = h.bucket[x].overflow
      BY ONLY <3>2
    <3> QED BY ONLY <3>1, <3>2, <3>3
  <2>3. \A x \in DOMAIN w : w[x] = [entries |-> w[x].entries, overflow |-> w[x].overflow]
    BY ONLY <2>1, <2>2
  <2>4. w = [x \in DOMAIN w |-> [entries |-> w[x].entries, overflow |-> w[x].overflow]]
    BY ONLY <2>1, <2>3
  <2> QED BY ONLY <2>1, <2>2, <2>4
<1>12. ASSUME NEW x \in DOMAIN h.bucket
       PROVE  /\ w[x].entries \in Seq(Pairs)
              /\ x \in Range(c[m]) => \A e : Occ(w[x].entries, e) = IF e = p THEN 0 ELSE Occ(h.bucket[x].entries, e)
              /\ \A e \in Range(w[x].entries) : e \in Range(h.bucket[x].entries)
  <2>1. PICK s \in Seq(Pairs) : s = h.bucket[x].entries
    BY <1>3
  <2>2. PICK t : t = OtherPairs(s, p)
    OBVIOUS
  <2>3. t \in Seq(Pairs) /\ \A e : Occ(t, e) = IF e = p THEN 0 ELSE Occ(s, e)
    BY <2>2, OtherPairsDrops
  <2>4. ASSUME NEW e \in Range(t) PROVE e \in Range(s)
    <3>1. Occ(t, e) # 0
      BY <2>3, OccOfPresent
    <3>2. Occ(s, e) # 0
      BY ONLY <2>3, <3>1
    <3> QED BY <3>2, OccOfAbsent
  <2> QED BY ONLY x \in DOMAIN h.bucket, <1>11, <2>1, <2>2, <2>3, <2>4
<1>13. HashShape(h2)
  <2>1. \A x \in DOMAIN w : w[x].entries \in Seq(Pairs)
    BY ONLY <1>11, <1>12
  <2>2. h2.count \in Nat \ {0} /\ h2.nextOverflow \in Nat /\ NoBucket \notin DOMAIN w /\ IsFiniteSet(DOMAIN w)
    BY ONLY <1>3, <1>9, <1>11
  <2>3. \A id : Overflow(id) \in DOMAIN w => id \in Nat /\ id < h2.nextOverflow
    BY ONLY <1>3, <1>9, <1>11
  <2> QED BY ONLY <1>9, <1>11, <2>1, <2>2, <2>3 DEF HashShape
<1>14. Primaries(h2) = Primaries(h) /\ \A e : Home(h2, e) = Home(h, e)
  BY ONLY <1>9 DEF Primaries, Home
<1>15. Joins(h2, c)
  <2>1. Joins(h, c)
    BY <1>1 DEF Threads
  <2> QED BY ONLY <1>6, <1>9, <1>11, <1>14, <2>1 DEF Joins
<1>16. Apart(h2, c)
  BY ONLY <1>1, <1>14 DEF Threads, Apart
<1>17. AtHome(h2, c)
  <2>1. \A i \in Primaries(h) : \A q \in 1 .. Len(c[i]) :
          \A e \in Range(h.bucket[c[i][q]].entries) : Home(h, e) = i
    BY <1>1 DEF Threads, AtHome
  <2>2. \A i \in Primaries(h) : \A q \in 1 .. Len(c[i]) :
          \A e \in Range(w[c[i][q]].entries) : Home(h, e) = i
    BY ONLY <1>6, <1>12, <2>1
  <2> QED BY ONLY <1>9, <1>14, <2>2 DEF AtHome
<1>18. Threads(h2, c)
  BY <1>13, <1>15, <1>16, <1>17 DEF Threads
<1>19. ASSUME NEW e \in Pairs PROVE Tally(h2, e) = IF e = p THEN 0 ELSE Tally(h, e)
  <2>1. PICK i : i = Home(h, e)
    OBVIOUS
  <2>2. PICK ss, tt, n : ss = Held(h2, c, i) /\ tt = Held(h, c, i) /\ n = Len(c[i])
    OBVIOUS
  <2>3. i \in Primaries(h) /\ Tally(h, e) = Occ(FlattenSeq(tt), e)
    BY <1>1, <2>1, <2>2, FoundInThread
  <2>4. Tally(h2, e) = Occ(FlattenSeq(ss), e)
    BY <1>14, <1>18, <2>1, <2>2, FoundInThread
  <2>5. Parts(tt, n, Pairs) /\ Parts(ss, n, Pairs)
    <3>1. Parts(tt, n, Pairs)
      BY <1>1, <2>2, <2>3, HeldOfThread
    <3>2. i \in Primaries(h2)
      BY ONLY <1>14, <2>3
    <3>3. Parts(ss, n, Pairs)
      BY <1>18, <2>2, <3>2, HeldOfThread
    <3> QED BY <3>1, <3>3
  <2>6. \A q \in 1 .. n : tt[q] = h.bucket[c[i][q]].entries /\ ss[q] = w[c[i][q]].entries
    BY ONLY <1>9, <2>2 DEF Held
  <2>7. CASE i = m
    <3>1. \A q \in 1 .. n : c[i][q] \in Range(c[m]) /\ c[i][q] \in DOMAIN h.bucket
      BY ONLY <1>4, <1>6, <2>2, <2>7 DEF Range
    <3>2. \A q \in 1 .. n : Occ(ss[q], e) = IF e = p THEN 0 ELSE Occ(tt[q], e)
      BY ONLY <1>12, <2>6, <3>1
    <3>3. CASE e # p
      <4>1. \A q \in 1 .. n : Occ(ss[q], e) = Occ(tt[q], e)
        BY ONLY <3>2, <3>3
      <4>2. Occ(FlattenSeq(ss), e) = Occ(FlattenSeq(tt), e)
        BY <2>5, <4>1, FlatAgree
      <4> QED BY ONLY <2>3, <2>4, <3>3, <4>2
    <3>4. CASE e = p
      <4>1. \A q \in 1 .. n : q # 0 => Occ(ss[q], e) = 0
        BY ONLY <3>2, <3>4
      <4>2. 0 \in Nat /\ ~(0 \in 1 .. n)
        OBVIOUS
      <4>3. Occ(FlattenSeq(ss), e) = 0
        BY <2>5, <4>1, <4>2, FlatOnly
      <4> QED BY ONLY <2>4, <3>4, <4>3
    <3> QED BY <3>3, <3>4
  <2>8. CASE i # m
    <3>1. \A q \in 1 .. n : c[i][q] \notin Range(c[m])
      <4>1. Apart(h, c)
        BY <1>1 DEF Threads
      <4>2. m \in Primaries(h) /\ \A j \in DOMAIN c[m] : j \in 1 .. Len(c[m])
        BY <1>4, <1>6
      <4>3. ASSUME NEW q \in 1 .. n, c[i][q] \in Range(c[m]) PROVE FALSE
        <5>1. PICK j \in DOMAIN c[m] : c[i][q] = c[m][j]
          BY ONLY <4>3 DEF Range
        <5>2. q \in 1 .. Len(c[i]) /\ j \in 1 .. Len(c[m])
          BY <2>2, <4>2
        <5> QED BY ONLY <2>3, <2>8, <4>1, <4>2, <5>1, <5>2 DEF Apart
      <4> QED BY <4>3
    <3>2. \A q \in 1 .. n : Occ(ss[q], e) = Occ(tt[q], e)
      BY ONLY <1>6, <1>11, <2>2, <2>3, <2>6, <3>1
    <3>3. Occ(FlattenSeq(ss), e) = Occ(FlattenSeq(tt), e)
      BY <2>5, <3>2, FlatAgree
    <3> QED BY ONLY <1>2, <2>1, <2>3, <2>4, <2>8, <3>3
  <2> QED BY <2>7, <2>8
<1> QED BY <1>18, <1>19 DEF Sound

-----------------------------------------------------------------------------
\* An index of n buckets, and the same with more and more of the pairs.
Built(f, n, pairs, N) ==
  f = [i \in 0 .. N |-> IF i = 0 THEN NewIndex(n) ELSE WithPair(f[i - 1], pairs[i])]

\* They exist, for every number of pairs.
LEMMA BuiltExist ==
  ASSUME NEW n, NEW pairs, NEW N \in Nat
  PROVE  \E f : Built(f, n, pairs, N)
<1> DEFINE Exists(j) == \E f : Built(f, n, pairs, j)
           Lacking == {j \in 0 .. N : ~Exists(j)}
<1> SUFFICES ASSUME Lacking # {}
             PROVE  FALSE
  <2>1. N \notin Lacking => Exists(N)
    OBVIOUS
  <2> QED BY <2>1
<1>1. Lacking \subseteq Nat
  OBVIOUS
<1> DEFINE m == Min(Lacking)
<1>2. m \in Lacking /\ \A q \in Lacking : m <= q
  <2> HIDE DEF Lacking
  <2> QED BY <1>1, MinIsIn
<1> HIDE DEF m
<1>3. m \in 0 .. N /\ ~Exists(m)
  BY <1>2
<1>4. m # 0
  <2>1. Built([i \in {0} |-> NewIndex(n)], n, pairs, 0)
    BY DEF Built
  <2> QED BY <1>3, <2>1
<1>5. m - 1 \in 0 .. N /\ m - 1 \notin Lacking
  BY <1>2, <1>3, <1>4
<1>6. PICK f : Built(f, n, pairs, m - 1)
  BY <1>5
<1> DEFINE g == [i \in 0 .. m |-> IF i = m THEN WithPair(f[m - 1], pairs[m]) ELSE f[i]]
<1>7. /\ g = [i \in 0 .. m |-> g[i]] /\ g[m] = WithPair(f[m - 1], pairs[m])
      /\ \A i \in 0 .. m - 1 : g[i] = f[i]
  <2>1. m \in 0 .. m /\ \A i \in 0 .. m - 1 : i \in 0 .. m /\ i # m
    BY <1>3
  <2> QED BY <2>1
<1> HIDE DEF g
<1>8. \A i \in 0 .. m - 1 : f[i] = IF i = 0 THEN NewIndex(n) ELSE WithPair(f[i - 1], pairs[i])
  BY <1>6 DEF Built
<1>9. \A i \in 0 .. m : g[i] = IF i = 0 THEN NewIndex(n) ELSE WithPair(g[i - 1], pairs[i])
  <2> TAKE i \in 0 .. m
  <2>1. i # 0 => i - 1 \in 0 .. m - 1
    BY <1>3
  <2>2. i # 0 => g[i - 1] = f[i - 1]
    BY <1>7, <2>1
  <2>3. CASE i = m
    BY <1>4, <1>7, <2>2, <2>3
  <2>4. CASE i # m
    <3>1. i \in 0 .. m - 1
      BY <1>3, <2>4
    <3> QED BY <1>7, <1>8, <2>2, <3>1
  <2> QED BY <2>3, <2>4
<1>10. Built(g, n, pairs, m)
  BY <1>7, <1>9 DEF Built
<1> QED BY <1>3, <1>10

\* A rehash finds the same pairs as often, in any number of buckets.
LEMMA RehashedIsSame ==
  ASSUME NEW h, Sound(h), NEW n \in Nat \ {0}
  PROVE  /\ Sound(Rehashed(h, n))
         /\ \A e \in Pairs : Tally(Rehashed(h, n), e) = Tally(h, e)
<1>1. PICK s \in Seq(Pairs) : s = Entries(h)
  BY EntriesCount
<1>2. \A e \in Pairs : Occ(s, e) = Tally(h, e)
  BY <1>1, EntriesCount
<1>3. PICK N : N = Len(s)
  OBVIOUS
<1>4. N \in Nat /\ \A i \in 1 .. N : s[i] \in Pairs
  BY <1>1, <1>3
<1> DEFINE f == CHOOSE g : g = [i \in 0 .. N |-> IF i = 0 THEN NewIndex(n) ELSE WithPair(g[i - 1], s[i])]
<1>5. Rehashed(h, n) = f[N]
  BY <1>1, <1>3 DEF Rehashed
<1>6. f = [i \in 0 .. N |-> IF i = 0 THEN NewIndex(n) ELSE WithPair(f[i - 1], s[i])]
  <2>1. PICK g : Built(g, n, s, N)
    BY <1>4, BuiltExist
  <2> QED BY <2>1 DEF Built
<1> HIDE DEF f
<1>7. f[0] = NewIndex(n) /\ \A i \in 1 .. N : f[i] = WithPair(f[i - 1], s[i])
  <2>1. 0 \in 0 .. N /\ \A i \in 1 .. N : i \in 0 .. N /\ i # 0
    BY <1>4
  <2> QED BY <1>6, <2>1
<1> DEFINE Wrong == {i \in 0 .. N : ~Sound(f[i])}
<1>8. Wrong = {}
  <2> SUFFICES ASSUME Wrong # {} PROVE FALSE
    OBVIOUS
  <2>1. Wrong \subseteq Nat
    BY <1>4
  <2> DEFINE i == Min(Wrong)
  <2>2. i \in Wrong /\ \A q \in Wrong : i <= q
    <3> HIDE DEF Wrong
    <3> QED BY <2>1, MinIsIn
  <2> HIDE DEF i
  <2>3. i \in 0 .. N /\ ~Sound(f[i])
    BY <2>2
  <2>4. CASE i = 0
    BY <1>7, <2>3, <2>4, NewIsSound
  <2>5. CASE i # 0
    <3>1. i - 1 \in 0 .. N /\ i \in 1 .. N /\ ~(i <= i - 1)
      BY <1>4, <2>3, <2>5
    <3>2. i - 1 \notin Wrong
      BY <2>2, <3>1
    <3>3. PICK g, p : g = f[i - 1] /\ p = s[i]
      OBVIOUS
    <3>4. Sound(g) /\ p \in Pairs
      BY <1>4, <3>1, <3>2, <3>3
    <3>5. Sound(WithPair(g, p))
      BY <3>4, WithPairAdds
    <3> QED BY ONLY <1>7, <2>3, <3>1, <3>3, <3>5
  <2> QED BY <2>4, <2>5
<1>9. \A i \in 0 .. N : Sound(f[i])
  BY <1>8
<1>10. ASSUME NEW e \in Pairs PROVE Tally(f[N], e) = Tally(h, e)
  <2> DEFINE g == [i \in 0 .. N |-> Tally(f[i], e)]
             a == [i \in 1 .. N |-> IF s[i] = e THEN 1 ELSE 0]
  <2>1. \A i \in 0 .. N : Tally(f[i], e) \in Nat
    <3> SUFFICES ASSUME NEW i \in 0 .. N PROVE Tally(f[i], e) \in Nat
      OBVIOUS
    <3>1. PICK c : Threads(f[i], c)
      BY <1>9 DEF Sound
    <3>2. PICK x : x = f[i]
      OBVIOUS
    <3> QED BY <3>1, <3>2, FoundInThread
  <2>2. Tally(f[0], e) = 0
    BY <1>7, NewIsSound
  <2>3. ASSUME NEW i \in 1 .. N PROVE Tally(f[i], e) = Tally(f[i - 1], e) + a[i]
    <3>1. i - 1 \in 0 .. N /\ a[i] = IF s[i] = e THEN 1 ELSE 0
      BY <1>4
    <3>2. PICK x, p : x = f[i - 1] /\ p = s[i]
      OBVIOUS
    <3>3. Sound(x) /\ p \in Pairs /\ f[i] = WithPair(x, p)
      BY <1>4, <1>7, <1>9, <3>1, <3>2
    <3>4. OneMore(x, WithPair(x, p), p)
      BY <3>3, WithPairAdds
    <3>5. Tally(WithPair(x, p), e) = Tally(x, e) + IF e = p THEN 1 ELSE 0
      BY <3>4 DEF OneMore
    <3> QED BY ONLY <3>1, <3>2, <3>3, <3>5
  <2>4. Sums(g, a, N)
    <3>1. \A i \in 0 .. N : g[i] = Tally(f[i], e)
      OBVIOUS
    <3>2. 0 \in 0 .. N /\ \A i \in 1 .. N : i \in 0 .. N /\ i - 1 \in 0 .. N /\ a[i] \in Nat
      BY <1>4
    <3> HIDE DEF g, a
    <3> QED BY ONLY <2>1, <2>2, <2>3, <3>1, <3>2 DEF Sums
  <2>5. PICK k : Sums(k, a, N) /\ Occ(s, e) = k[N]
    BY <1>3, OccSums
  <2>6. ~(0 \in 1 .. N) /\ g[N] = Tally(f[N], e)
    BY <1>4
  <2> HIDE DEF g, a
  <2>7. g[N] = k[N]
    BY <1>4, <2>4, <2>5, <2>6, SumsDiffer
  <2> QED BY <1>2, <2>5, <2>6, <2>7
<1>11. N \in 0 .. N
  BY <1>4
<1> QED BY <1>5, <1>9, <1>10, <1>11

\* The next id after a reload is above every id.
LEMMA NextIsFresh ==
  ASSUME NEW N \in Nat, NEW ids, ids \subseteq 0 .. N
  PROVE  NextAfter(ids) \in Nat /\ \A id \in ids : id < NextAfter(ids)
<1>1. CASE ids = {}
  BY <1>1 DEF NextAfter
<1>2. CASE ids # {}
  <2> DEFINE D == {N - id : id \in ids}
  <2>1. D \subseteq Nat /\ D # {} /\ \A id \in ids : N - id \in D /\ id \in Nat
    <3>1. \A id \in ids : id \in 0 .. N
      OBVIOUS
    <3>2. \A id \in ids : N - id \in Nat /\ id \in Nat
      BY ONLY N \in Nat, <3>1
    <3> QED BY ONLY <1>2, <3>2
  <2>2. PICK d \in D : \A x \in D : d <= x
    <3> HIDE DEF D
    <3> QED BY <2>1, MinIsIn
  <2>3. PICK id \in ids : d = N - id
    BY <2>2
  <2>4. \A o \in ids : o <= id
    <3> TAKE o \in ids
    <3>1. N - id <= N - o /\ id \in Nat /\ o \in Nat
      BY <2>1, <2>2, <2>3
    <3> QED BY ONLY <3>1, N \in Nat
  <2> DEFINE max == CHOOSE x \in ids : \A o \in ids : o <= x
  <2>5. max \in ids /\ \A o \in ids : o <= max
    BY <2>3, <2>4
  <2>6. NextAfter(ids) = 1 + max
    BY <1>2 DEF NextAfter
  <2> HIDE DEF max
  <2>7. max \in Nat
    BY <2>1, <2>5
  <2>8. \A o \in ids : o \in Nat /\ o < 1 + max
    BY <2>1, <2>5, <2>7
  <2> QED BY <2>6, <2>7, <2>8
<1> QED BY <1>1, <1>2

\* h2 is h as another process reads it: counters made anew.
Reread(h2, h) ==
  h2 = [h EXCEPT !.len = Len(Entries(h)), !.nextOverflow = NextAfter(OverflowIds(h))]

\* A reload finds the same pairs as often.
LEMMA RereadIsSame ==
  ASSUME NEW h, Sound(h), NEW h2, Reread(h2, h)
  PROVE  Sound(h2) /\ \A e \in Pairs : Tally(h2, e) = Tally(h, e)
<1>1. PICK c : Threads(h, c)
  BY DEF Sound
<1>2. /\ h = [count |-> h.count, bucket |-> h.bucket, nextOverflow |-> h.nextOverflow, len |-> h.len]
      /\ h.nextOverflow \in Nat
      /\ \A id : Overflow(id) \in DOMAIN h.bucket => id \in Nat /\ id < h.nextOverflow
  BY <1>1 DEF Threads, HashShape
<1>3. PICK next : next = NextAfter(OverflowIds(h))
  OBVIOUS
<1>4. next \in Nat /\ \A id \in OverflowIds(h) : id < next
  <2>1. PICK ids : ids = OverflowIds(h)
    OBVIOUS
  <2>2. ids \subseteq 0 .. h.nextOverflow
    BY <2>1 DEF OverflowIds
  <2> QED BY <1>2, <1>3, <2>1, <2>2, NextIsFresh
<1>5. \A id : Overflow(id) \in DOMAIN h.bucket => id \in Nat /\ id < next
  BY <1>2, <1>4 DEF OverflowIds
<1>6. PICK len : len = Len(Entries(h))
  OBVIOUS
<1>7. h2 = [count |-> h.count, bucket |-> h.bucket, nextOverflow |-> next, len |-> len]
  <2>1. h2 = [h EXCEPT !.len = len, !.nextOverflow = next]
    BY <1>3, <1>6 DEF Reread
  <2>2. PICK B, C, O, L : B = h.bucket /\ C = h.count /\ O = h.nextOverflow /\ L = h.len
    OBVIOUS
  <2>3. h = [count |-> C, bucket |-> B, nextOverflow |-> O, len |-> L]
    BY ONLY <1>2, <2>2
  <2> QED BY ONLY <2>1, <2>2, <2>3
<1>8. /\ h2.count = h.count /\ h2.bucket = h.bucket /\ h2.nextOverflow = next
      /\ h2 = [count |-> h2.count, bucket |-> h2.bucket, nextOverflow |-> h2.nextOverflow, len |-> h2.len]
  BY ONLY <1>7
<1>9. Threads(h2, c)
  <2>1. HashShape(h2)
    <3>1. HashShape(h)
      BY <1>1 DEF Threads
    <3> QED BY ONLY <1>4, <1>5, <1>8, <3>1 DEF HashShape
  <2>2. Joins(h2, c) /\ Apart(h2, c) /\ AtHome(h2, c)
    BY ONLY <1>1, <1>8 DEF Threads, Joins, Apart, AtHome, Home, Primaries
  <2> QED BY <2>1, <2>2 DEF Threads
<1>10. \A i : Held(h2, c, i) = Held(h, c, i)
  BY ONLY <1>8 DEF Held
<1>11. ASSUME NEW e \in Pairs PROVE Tally(h2, e) = Tally(h, e)
  <2>1. Held(h2, c, Home(h, e)) = Held(h, c, Home(h, e)) /\ h2.count = h.count
    BY ONLY <1>8, <1>10
  <2> QED BY ONLY <1>1, <1>9, e \in Pairs, <2>1, FoundAsBefore
<1> QED BY <1>9, <1>11 DEF Sound

-----------------------------------------------------------------------------
\* What a hash index stands for.
Counted(h) == [p \in HashKeys \X HashRows |-> Tally(h, [key |-> p[1], row |-> p[2]])]

HashSound == Sound(hash)

\* Keys and rows make pairs.
LEMMA PairOf ==
  /\ \A k \in HashKeys, r \in HashRows : [key |-> k, row |-> r] \in Pairs
  /\ \A p \in HashKeys \X HashRows : p[1] \in HashKeys /\ p[2] \in HashRows /\ p = <<p[1], p[2]>>
BY DEF Pairs

\* What the index stands for follows from what is found in it.
LEMMA CountedSame ==
  ASSUME NEW h, NEW h2, \A e \in Pairs : Tally(h2, e) = Tally(h, e)
  PROVE  Counted(h2) = Counted(h)
BY PairOf DEF Counted

\* The same, but for one pair.
LEMMA CountedButOne ==
  ASSUME NEW h, NEW h2, NEW k \in HashKeys, NEW r \in HashRows, NEW n,
         Tally(h2, [key |-> k, row |-> r]) = n,
         \A e \in Pairs : e # [key |-> k, row |-> r] => Tally(h2, e) = Tally(h, e)
  PROVE  Counted(h2) = [Counted(h) EXCEPT ![<<k, r>>] = n]
<1> DEFINE C == [Counted(h) EXCEPT ![<<k, r>>] = n]
<1>1. \A p \in HashKeys \X HashRows : C[p] = IF p = <<k, r>> THEN n ELSE Counted(h)[p]
  BY DEF Counted
<1>2. C = [p \in HashKeys \X HashRows |-> C[p]]
  BY DEF Counted
<1>3. \A p \in HashKeys \X HashRows : Counted(h2)[p] = Tally(h2, [key |-> p[1], row |-> p[2]])
                                      /\ Counted(h)[p] = Tally(h, [key |-> p[1], row |-> p[2]])
  BY DEF Counted
<1>4. Counted(h2) = [p \in HashKeys \X HashRows |-> Counted(h2)[p]]
  BY DEF Counted
<1> HIDE DEF C
<1>5. ASSUME NEW p \in HashKeys \X HashRows PROVE Counted(h2)[p] = C[p]
  <2>1. PICK e : e = [key |-> p[1], row |-> p[2]]
    OBVIOUS
  <2>2. e \in Pairs
    BY <2>1, PairOf
  <2>3. CASE p = <<k, r>>
    <3>1. e = [key |-> k, row |-> r]
      BY <2>1, <2>3
    <3> QED BY <1>1, <1>3, <2>1, <2>3, <3>1
  <2>4. CASE p # <<k, r>>
    <3>1. e.key = p[1] /\ e.row = p[2]
      BY <2>1
    <3>2. e # [key |-> k, row |-> r]
      <4>1. ASSUME e = [key |-> k, row |-> r] PROVE FALSE
        <5>1. p[1] = k /\ p[2] = r
          BY <3>1, <4>1
        <5> QED BY <2>4, <5>1, PairOf
      <4> QED BY <4>1
    <3>3. Tally(h2, e) = Tally(h, e)
      BY <2>2, <3>2
    <3> QED BY ONLY p \in HashKeys \X HashRows, <1>1, <1>3, <2>1, <2>4, <3>3
  <2> QED BY <2>3, <2>4
<1>6. Counted(h2) = C
  BY <1>2, <1>4, <1>5
<1> QED BY <1>6 DEF C

\* The copies of the model are what is found.
LEMMA CopiesAreCounted ==
  [p \in HashKeys \X HashRows |-> Copies(p[1], p[2])] = Counted(hash)
<1>1. ASSUME NEW k, NEW r PROVE Copies(k, r) = Tally(hash, [key |-> k, row |-> r])
  <2>1. PICK e : e = [key |-> k, row |-> r]
    OBVIOUS
  <2>2. e.key = k
    BY <2>1
  <2> QED BY <2>1, <2>2 DEF Copies, Tally, Occ
<1> QED BY <1>1 DEF Counted

\* An insertion adds a copy.
LEMMA InsertAdds ==
  ASSUME HashSound, NEW k \in HashKeys, NEW r \in HashRows, HashInsert(k, r)
  PROVE  HashSound' /\ Counted(hash)' = [Counted(hash) EXCEPT ![<<k, r>>] = @ + 1]
<1>1. PICK h, h2, e : h = hash /\ h2 = hash' /\ e = [key |-> k, row |-> r]
  OBVIOUS
<1>2. Sound(h) /\ e \in Pairs /\ h2 = WithPair(h, e)
  BY <1>1, PairOf DEF HashSound, HashInsert
<1>3. Sound(h2) /\ OneMore(h, h2, e)
  BY <1>2, WithPairAdds
<1>4. PICK c : Threads(h, c)
  BY <1>2 DEF Sound
<1>5. \A x \in Pairs : Tally(h, x) \in Nat
  BY <1>4, FoundInThread
<1>6. Counted(h)[<<k, r>>] = Tally(h, e)
  <2>1. <<k, r>> \in HashKeys \X HashRows /\ <<k, r>>[1] = k /\ <<k, r>>[2] = r
    OBVIOUS
  <2> QED BY <1>1, <2>1 DEF Counted
<1>7. PICK n : n = Counted(h)[<<k, r>>] + 1
  OBVIOUS
<1>8. /\ Tally(h2, [key |-> k, row |-> r]) = n
      /\ \A x \in Pairs : x # [key |-> k, row |-> r] => Tally(h2, x) = Tally(h, x)
  BY <1>1, <1>2, <1>3, <1>5, <1>6, <1>7 DEF OneMore
<1>9. Counted(h2) = [Counted(h) EXCEPT ![<<k, r>>] = n]
  BY <1>8, CountedButOne
<1>10. Counted(hash)' = Counted(h2) /\ HashSound' = Sound(h2)
  BY <1>1 DEF HashSound
<1> QED BY <1>1, <1>3, <1>7, <1>9, <1>10

\* A removal drops every copy.
LEMMA RemoveDrops ==
  ASSUME HashSound, NEW k \in HashKeys, NEW r \in HashRows, HashRemove(k, r)
  PROVE  HashSound' /\ Counted(hash)' = [Counted(hash) EXCEPT ![<<k, r>>] = 0]
<1>1. PICK h, h2, e : h = hash /\ h2 = hash' /\ e = [key |-> k, row |-> r]
  OBVIOUS
<1>2. Sound(h) /\ e \in Pairs
  BY <1>1, PairOf DEF HashSound
<1>3. Drops(h2, h, e)
  <2>1. e.key = k
    BY <1>1
  <2> QED BY <1>1, <2>1 DEF HashRemove, Drops
<1>4. Sound(h2) /\ \A x \in Pairs : Tally(h2, x) = IF x = e THEN 0 ELSE Tally(h, x)
  BY <1>2, <1>3, DroppedIsGone
<1>5. /\ Tally(h2, [key |-> k, row |-> r]) = 0
      /\ \A x \in Pairs : x # [key |-> k, row |-> r] => Tally(h2, x) = Tally(h, x)
  BY <1>1, <1>2, <1>4
<1>6. Counted(h2) = [Counted(h) EXCEPT ![<<k, r>>] = 0]
  BY <1>5, CountedButOne
<1>7. Counted(hash)' = Counted(h2) /\ HashSound' = Sound(h2)
  BY <1>1 DEF HashSound
<1> QED BY <1>1, <1>4, <1>6, <1>7

\* A rehash keeps them.
LEMMA RehashKeeps ==
  ASSUME HashSound, NEW n \in BucketCounts, Rehash(n)
  PROVE  HashSound' /\ Counted(hash)' = Counted(hash)
<1>1. PICK h, h2 : h = hash /\ h2 = hash'
  OBVIOUS
<1>2. Sound(h) /\ h2 = Rehashed(h, n) /\ n \in Nat \ {0}
  BY <1>1, HashAssumption DEF HashSound, Rehash
<1>3. Sound(h2) /\ \A e \in Pairs : Tally(h2, e) = Tally(h, e)
  BY <1>2, RehashedIsSame
<1>4. Counted(h2) = Counted(h)
  BY <1>3, CountedSame
<1>5. Counted(hash)' = Counted(h2) /\ HashSound' = Sound(h2)
  BY <1>1 DEF HashSound
<1> QED BY <1>1, <1>3, <1>4, <1>5

\* A reload keeps them.
LEMMA HashReloadKeeps ==
  ASSUME HashSound, HashReload
  PROVE  HashSound' /\ Counted(hash)' = Counted(hash)
<1>1. PICK h, h2 : h = hash /\ h2 = hash'
  OBVIOUS
<1>2. Sound(h) /\ Reread(h2, h)
  BY <1>1 DEF HashSound, HashReload, Reread
<1>3. Sound(h2) /\ \A e \in Pairs : Tally(h2, e) = Tally(h, e)
  BY <1>2, RereadIsSame
<1>4. Counted(h2) = Counted(h)
  BY <1>3, CountedSame
<1>5. Counted(hash)' = Counted(h2) /\ HashSound' = Sound(h2)
  BY <1>1 DEF HashSound
<1> QED BY <1>1, <1>3, <1>4, <1>5

\* At first there is nothing.
LEMMA HashInitSound ==
  ASSUME HashInit
  PROVE  HashSound /\ Counted(hash) = [p \in HashKeys \X HashRows |-> 0]
<1>1. PICK n \in BucketCounts : hash = NewIndex(n)
  BY DEF HashInit
<1>2. n \in Nat \ {0}
  BY HashAssumption
<1>3. Sound(hash) /\ \A e \in Pairs : Tally(hash, e) = 0
  BY <1>1, <1>2, NewIsSound
<1> QED BY <1>3, PairOf DEF Counted, HashSound

\* The copies, before and after a step.
CopiesNow == [p \in HashKeys \X HashRows |-> Copies(p[1], p[2])]

\* They are what is found,
LEMMA CopiesNowCounted == CopiesNow = Counted(hash)
BY CopiesAreCounted DEF CopiesNow

\* after a step too.
LEMMA CopiesNextCounted == (CopiesNow = Counted(hash))'
BY CopiesNowCounted, PTL

\* The hash index is a bag of pairs: through every sequence of insertions that
\* overflow, removals, rehashes and reloads, whatever the capacity and the
\* hash, a lookup finds each pair as often as it was inserted since it was last
\* removed.
THEOREM HashIndexIsBag == HashSpec => ImplementsPairBag
<1>1. HashInit => HashSound /\ Bag!Init
  <2> SUFFICES ASSUME HashInit PROVE HashSound /\ Bag!Init
    OBVIOUS
  <2>1. HashSound /\ CopiesNow = [p \in HashKeys \X HashRows |-> 0]
    BY HashInitSound, CopiesNowCounted
  <2> QED BY <2>1 DEF Bag!Init, CopiesNow
<1>2. ASSUME HashSound, NEW k \in HashKeys, NEW r \in HashRows
      PROVE  /\ HashInsert(k, r) => HashSound' /\ Bag!Add(k, r)
             /\ HashRemove(k, r) => HashSound' /\ Bag!Drop(k, r)
  <2>1. ASSUME HashInsert(k, r) PROVE HashSound' /\ Bag!Add(k, r)
    <3>1. HashSound' /\ CopiesNow' = [CopiesNow EXCEPT ![<<k, r>>] = @ + 1]
      BY <1>2, <2>1, InsertAdds, CopiesNowCounted, CopiesNextCounted
    <3> QED BY <3>1 DEF Bag!Add, CopiesNow
  <2>2. ASSUME HashRemove(k, r) PROVE HashSound' /\ Bag!Drop(k, r)
    <3>1. HashSound' /\ CopiesNow' = [CopiesNow EXCEPT ![<<k, r>>] = 0]
      BY <1>2, <2>2, RemoveDrops, CopiesNowCounted, CopiesNextCounted
    <3> QED BY <3>1 DEF Bag!Drop, CopiesNow
  <2> QED BY <2>1, <2>2
<1>3. ASSUME HashSound, HashReload \/ \E n \in BucketCounts : Rehash(n)
      PROVE  HashSound' /\ Bag!Unaffected
  <2>1. HashSound' /\ CopiesNow' = CopiesNow
    BY <1>3, RehashKeeps, HashReloadKeeps, CopiesNowCounted, CopiesNextCounted
  <2> QED BY <2>1 DEF Bag!Unaffected, CopiesNow
<1>4. ASSUME HashSound, UNCHANGED hash PROVE HashSound' /\ Bag!Unaffected
  <2>1. HashSound' /\ Counted(hash)' = Counted(hash)
    BY <1>4 DEF HashSound, Counted
  <2>2. CopiesNow' = CopiesNow
    BY <2>1, CopiesNowCounted, CopiesNextCounted
  <2> QED BY <2>1, <2>2 DEF Bag!Unaffected, CopiesNow
<1>5. HashSound /\ [HashNext]_hash => HashSound' /\ Bag!Next
  BY <1>2, <1>3, <1>4 DEF HashNext, Bag!Next
<1> DEFINE AsAsked == hash' # hash => \A k \in HashKeys, r \in HashRows :
                        /\ HashInsert(k, r) => Bag!Add(k, r)
                        /\ HashRemove(k, r) => Bag!Drop(k, r)
           Untouched == hash' # hash =>
                          (HashReload \/ (\E n \in BucketCounts : Rehash(n)) => Bag!Unaffected)
<1>6. HashSound => AsAsked /\ Untouched
  BY <1>2, <1>3
<1>7. HashSpec => []HashSound
  BY <1>1, <1>5, PTL DEF HashSpec
<1>8. HashSpec => Bag!Spec
  BY <1>1, <1>5, <1>7, PTL DEF HashSpec, Bag!Spec
<1> HIDE DEF AsAsked, Untouched
<1>9. HashSpec => [][AsAsked]_hash /\ [][Untouched]_hash
  BY <1>6, <1>7, PTL
<1> QED BY <1>8, <1>9, PTL DEF ImplementsPairBag, AsAsked, Untouched

-----------------------------------------------------------------------------
(* Nodes of the B+tree.                                                    *)

\* Numbers that ascend.
Ascending(keys) ==
  keys \in Seq(Int) /\ \A i, j \in 1 .. Len(keys) : i < j => keys[i] < keys[j]

\* What counts the numbers up to a key, or before it.
LEMMA CountIs ==
  ASSUME NEW n \in Nat, NEW u \in 0 .. n, NEW S,
         S \subseteq 1 .. n, \A i \in 1 .. n : i \in S <=> i <= u
  PROVE  Cardinality(S) = u
<1>1. S = 1 .. u
  <2>1. \A i : i \in 1 .. u <=> i \in 1 .. n /\ i <= u
    OBVIOUS
  <2>2. \A i : i \in S <=> i \in 1 .. u
    BY <2>1
  <2> QED BY ONLY <2>2
<1>2. Cardinality(1 .. u) = u
  BY FS_Interval
<1> QED BY <1>1, <1>2

\* Of the numbers from 1 to n, a set that is closed downwards has those up to its
\* size.
LEMMA CountExists ==
  ASSUME NEW n \in Nat, NEW S, S \subseteq 1 .. n,
         \A i, j \in 1 .. n : i < j /\ j \in S => i \in S
  PROVE  Cardinality(S) \in 0 .. n /\ \A i \in 1 .. n : i \in S <=> i <= Cardinality(S)
<1> DEFINE Out == {i \in 1 .. n + 1 : i \notin S}
<1>1. Out \subseteq Nat /\ n + 1 \in Out
  OBVIOUS
<1> DEFINE m == Min(Out)
<1>2. m \in Out /\ \A q \in Out : m <= q
  <2> HIDE DEF Out
  <2> QED BY <1>1, MinIsIn
<1> HIDE DEF m
<1>3. m \in 1 .. n + 1 /\ m \notin S /\ \A q \in 1 .. n + 1 : q \notin S => m <= q
  BY <1>2
<1>4. \A i \in 1 .. n : i \in S <=> i <= m - 1
  BY <1>3
<1>5. Cardinality(S) = m - 1
  <2>1. m - 1 \in 0 .. n
    BY <1>3
  <2> QED BY <1>4, <2>1, CountIs
<1> QED BY <1>3, <1>4, <1>5

\* The keys of ascending ones that are at most k come first, as many as UpTo says.
LEMMA UpToCounts ==
  ASSUME NEW keys, Ascending(keys), NEW k \in Int
  PROVE  /\ UpTo(keys, k) \in 0 .. Len(keys)
         /\ \A i \in 1 .. Len(keys) : keys[i] <= k <=> i <= UpTo(keys, k)
<1> DEFINE S == {i \in DOMAIN keys : keys[i] <= k}
<1>1. Len(keys) \in Nat /\ DOMAIN keys = 1 .. Len(keys) /\ \A i \in 1 .. Len(keys) : keys[i] \in Int
  BY DEF Ascending
<1>2. S \subseteq 1 .. Len(keys) /\ \A i, j \in 1 .. Len(keys) : i < j /\ j \in S => i \in S
  BY <1>1 DEF Ascending
<1>3. \A i \in 1 .. Len(keys) : i \in S <=> keys[i] <= k
  BY <1>1
<1>4. UpTo(keys, k) = Cardinality(S)
  BY DEF UpTo
<1> HIDE DEF S
<1> QED BY <1>1, <1>2, <1>3, <1>4, CountExists

\* A place that splits the keys as UpTo does is UpTo.
LEMMA UpToIs ==
  ASSUME NEW keys \in Seq(Int), NEW k \in Int, NEW u \in 0 .. Len(keys),
         \A i \in 1 .. Len(keys) : keys[i] <= k <=> i <= u
  PROVE  UpTo(keys, k) = u
<1> DEFINE S == {i \in DOMAIN keys : keys[i] <= k}
<1>1. Len(keys) \in Nat /\ DOMAIN keys = 1 .. Len(keys)
  OBVIOUS
<1>2. S \subseteq 1 .. Len(keys) /\ \A i \in 1 .. Len(keys) : i \in S <=> i <= u
  BY <1>1
<1>3. UpTo(keys, k) = Cardinality(S)
  BY DEF UpTo
<1> HIDE DEF S
<1> QED BY <1>1, <1>2, <1>3, CountIs

\* The keys of ascending ones below k come first, as many as Before says.
LEMMA BeforeCounts ==
  ASSUME NEW keys, Ascending(keys), NEW k \in Int
  PROVE  /\ Before(keys, k) \in 0 .. Len(keys)
         /\ \A i \in 1 .. Len(keys) : keys[i] < k <=> i <= Before(keys, k)
<1> DEFINE S == {i \in DOMAIN keys : keys[i] < k}
<1>1. Len(keys) \in Nat /\ DOMAIN keys = 1 .. Len(keys) /\ \A i \in 1 .. Len(keys) : keys[i] \in Int
  BY DEF Ascending
<1>2. S \subseteq 1 .. Len(keys) /\ \A i, j \in 1 .. Len(keys) : i < j /\ j \in S => i \in S
  BY <1>1 DEF Ascending
<1>3. \A i \in 1 .. Len(keys) : i \in S <=> keys[i] < k
  BY <1>1
<1>4. Before(keys, k) = Cardinality(S)
  BY DEF Before
<1> HIDE DEF S
<1> QED BY <1>1, <1>2, <1>3, <1>4, CountExists

\* What SubSeq returns.
LEMMA SubSeqIs ==
  ASSUME NEW S, NEW s \in Seq(S), NEW a \in 1 .. Len(s) + 1, NEW b \in 0 .. Len(s), a <= b + 1
  PROVE  /\ SubSeq(s, a, b) \in Seq(S) /\ Len(SubSeq(s, a, b)) = b - a + 1
         /\ \A i \in 1 .. b - a + 1 : SubSeq(s, a, b)[i] = s[a + i - 1]
OBVIOUS

\* t is a sequence over S: s, with e at place p.
HasMoreOf(S, t, s, p, e) ==
  /\ t \in Seq(S) /\ Len(t) = Len(s) + 1
  /\ \A i \in 1 .. Len(s) + 1 : t[i] = IF i < p THEN s[i] ELSE IF i = p THEN e ELSE s[i - 1]

\* What InsertAt returns.
LEMMA InsertAtIs ==
  ASSUME NEW S, NEW s \in Seq(S), NEW p \in 1 .. Len(s) + 1, NEW e \in S
  PROVE  HasMoreOf(S, InsertAt(s, p, e), s, p, e)
<1>1. PICK a, b, n : a = SubSeq(s, 1, p - 1) /\ b = SubSeq(s, p, n) /\ n = Len(s)
  OBVIOUS
<1>2. n \in Nat /\ p \in 1 .. n + 1
  BY <1>1
<1>3. a \in Seq(S) /\ Len(a) = p - 1 /\ \A i \in 1 .. p - 1 : a[i] = s[i]
  <2>1. /\ 1 \in 1 .. Len(s) + 1 /\ p - 1 \in 0 .. Len(s) /\ 1 <= (p - 1) + 1
        /\ (p - 1) - 1 + 1 = p - 1 /\ \A i \in 1 .. p - 1 : 1 + i - 1 = i
    BY ONLY <1>1, <1>2
  <2>2. /\ a \in Seq(S) /\ Len(a) = (p - 1) - 1 + 1
        /\ \A i \in 1 .. (p - 1) - 1 + 1 : a[i] = s[1 + i - 1]
    BY ONLY <1>1, <2>1, s \in Seq(S), SubSeqIs
  <2> QED BY ONLY <2>1, <2>2
<1>4. b \in Seq(S) /\ Len(b) = n - p + 1 /\ \A i \in 1 .. n - p + 1 : b[i] = s[p + i - 1]
  <2>1. p \in 1 .. Len(s) + 1 /\ n \in 0 .. Len(s) /\ p <= n + 1
    BY ONLY <1>1, <1>2
  <2> QED BY ONLY <1>1, <2>1, s \in Seq(S), SubSeqIs
<1>5. PICK c : c = a \o <<e>>
  OBVIOUS
<1>6. c \in Seq(S) /\ Len(c) = p /\ \A i \in 1 .. p : c[i] = IF i < p THEN s[i] ELSE e
  <2>1. PICK one : one = <<e>>
    OBVIOUS
  <2>2. one \in Seq(S) /\ Len(one) = 1 /\ one[1] = e
    BY ONLY e \in S, <2>1
  <2>3. /\ c \in Seq(S) /\ Len(c) = Len(a) + Len(one)
        /\ \A i \in 1 .. Len(c) : c[i] = IF i <= Len(a) THEN a[i] ELSE one[i - Len(a)]
    BY ONLY <1>3, <1>5, <2>1, <2>2, ConcatProperties
  <2>4. Len(c) = p /\ \A i \in 1 .. p : /\ i < p => i \in 1 .. p - 1 /\ i <= p - 1
                                        /\ ~(i < p) => ~(i <= p - 1) /\ i - (p - 1) = 1
    BY ONLY <1>2, <1>3, <2>2, <2>3
  <2> QED BY ONLY <1>3, <2>2, <2>3, <2>4
<1>7. PICK t : t = c \o b
  OBVIOUS
<1>8. /\ t \in Seq(S) /\ Len(t) = n + 1
      /\ \A i \in 1 .. n + 1 : t[i] = IF i <= p THEN c[i] ELSE b[i - p]
  <2>1. /\ t \in Seq(S) /\ Len(t) = Len(c) + Len(b)
        /\ \A i \in 1 .. Len(c) + Len(b) : t[i] = IF i <= Len(c) THEN c[i] ELSE b[i - Len(c)]
    BY ONLY <1>4, <1>6, <1>7, ConcatProperties
  <2>2. Len(c) + Len(b) = n + 1 /\ Len(c) = p
    BY ONLY <1>2, <1>4, <1>6
  <2> QED BY ONLY <2>1, <2>2
<1>9. ASSUME NEW i \in 1 .. n + 1
      PROVE  t[i] = IF i < p THEN s[i] ELSE IF i = p THEN e ELSE s[i - 1]
  <2>1. CASE i <= p
    <3>1. i \in 1 .. p /\ (~(i < p) => i = p) /\ (i < p => i # p)
      BY ONLY <1>2, <2>1, i \in 1 .. n + 1
    <3> QED BY <1>6, <1>8, <2>1, <3>1
  <2>2. CASE ~(i <= p)
    <3>1. i - p \in 1 .. n - p + 1 /\ p + (i - p) - 1 = i - 1 /\ ~(i < p) /\ i # p
      BY ONLY <1>2, <2>2, i \in 1 .. n + 1
    <3>2. b[i - p] = s[p + (i - p) - 1]
      BY <1>4, <3>1
    <3> QED BY <1>8, <2>2, <3>1, <3>2
  <2> QED BY <2>1, <2>2
<1>10. t = InsertAt(s, p, e)
  BY <1>1, <1>5, <1>7 DEF InsertAt
<1>11. HasMoreOf(S, t, s, p, e)
  BY <1>1, <1>8, <1>9 DEF HasMoreOf
<1> QED BY <1>10, <1>11

\* What RemoveAt returns.
LEMMA RemoveAtIs ==
  ASSUME NEW S, NEW s \in Seq(S), NEW p \in 1 .. Len(s)
  PROVE  /\ RemoveAt(s, p) \in Seq(S) /\ Len(RemoveAt(s, p)) = Len(s) - 1
         /\ \A i \in 1 .. Len(s) - 1 : RemoveAt(s, p)[i] = IF i < p THEN s[i] ELSE s[i + 1]
<1>1. p - 1 \in 0 .. Len(s) /\ p + 1 \in 1 .. Len(s) + 1 /\ Len(s) \in Nat
  OBVIOUS
<1> DEFINE a == SubSeq(s, 1, p - 1)
           b == SubSeq(s, p + 1, Len(s))
<1>2. a \in Seq(S) /\ Len(a) = p - 1 /\ \A i \in 1 .. p - 1 : a[i] = s[i]
  OBVIOUS
<1>3. b \in Seq(S) /\ Len(b) = Len(s) - p /\ \A i \in 1 .. Len(s) - p : b[i] = s[p + i]
  OBVIOUS
<1> HIDE DEF a, b
<1>4. /\ a \o b \in Seq(S) /\ Len(a \o b) = Len(s) - 1
      /\ \A i \in 1 .. Len(s) - 1 : (a \o b)[i] = IF i < p THEN s[i] ELSE s[i + 1]
  <2>1. a \o b \in Seq(S) /\ Len(a \o b) = Len(s) - 1
    <3>1. a \o b \in Seq(S) /\ Len(a \o b) = Len(a) + Len(b)
      BY <1>2, <1>3, ConcatProperties
    <3> QED BY <1>1, <1>2, <1>3, <3>1
  <2>2. ASSUME NEW i \in 1 .. Len(s) - 1 PROVE (a \o b)[i] = IF i < p THEN s[i] ELSE s[i + 1]
    <3>1. CASE i < p
      BY <1>1, <1>2, <1>3, <3>1
    <3>2. CASE ~(i < p)
      <4>1. i - (p - 1) \in 1 .. Len(s) - p /\ p + (i - (p - 1)) = i + 1 /\ i > Len(a)
        BY <1>1, <1>2, <3>2
      <4>2. (a \o b)[i] = b[i - (p - 1)]
        BY <1>1, <1>2, <1>3, <4>1
      <4> QED BY <1>3, <3>2, <4>1, <4>2
    <3> QED BY <3>1, <3>2
  <2> QED BY <2>1, <2>2
<1> QED BY <1>4 DEF RemoveAt, a, b

-----------------------------------------------------------------------------
(* Inner nodes.                                                            *)

InnerOK(nd) ==
  /\ nd = Inner(nd.keys, nd.children) /\ Ascending(nd.keys)
  /\ nd.children \in Seq(Int) /\ Len(nd.children) = Len(nd.keys) + 1
  /\ \A i, j \in 1 .. Len(nd.children) : nd.children[i] = nd.children[j] => i = j

\* t is s, with e at place p.
HasMore(t, s, p, e) ==
  /\ t \in Seq(Int) /\ Len(t) = Len(s) + 1
  /\ \A i \in 1 .. Len(s) + 1 : t[i] = IF i < p THEN s[i] ELSE IF i = p THEN e ELSE s[i - 1]

\* An insertion into a sequence of numbers.
LEMMA InsertInt ==
  ASSUME NEW s, NEW p, NEW e, NEW t, s \in Seq(Int), p \in 1 .. Len(s) + 1, e \in Int,
         t = InsertAt(s, p, e)
  PROVE  HasMore(t, s, p, e)
<1>1. PICK Z : Z = Int
  OBVIOUS
<1>2. s \in Seq(Z) /\ e \in Z
  BY <1>1
<1>3. HasMoreOf(Z, InsertAt(s, p, e), s, p, e)
  BY ONLY <1>2, p \in 1 .. Len(s) + 1, InsertAtIs
<1> QED BY <1>1, <1>3 DEF HasMore, HasMoreOf

\* A node made of ascending keys and of children is an inner node.
LEMMA InnerIs ==
  ASSUME NEW keys, NEW kids, Ascending(keys), kids \in Seq(Int), Len(kids) = Len(keys) + 1,
         \A i, j \in 1 .. Len(kids) : kids[i] = kids[j] => i = j
  PROVE  /\ InnerOK(Inner(keys, kids)) /\ ~IsLeaf(Inner(keys, kids))
         /\ Inner(keys, kids).keys = keys /\ Inner(keys, kids).children = kids
BY DEF InnerOK, Inner, IsLeaf

\* What holds of an inner node; the child for a key is one of its children.
LEMMA InnerFacts ==
  ASSUME NEW nd, InnerOK(nd)
  PROVE  /\ ~IsLeaf(nd) /\ Len(nd.keys) \in Nat /\ nd.keys \in Seq(Int)
         /\ \A k \in Int : /\ UpTo(nd.keys, k) + 1 \in 1 .. Len(nd.children)
                           /\ ChildFor(nd, k) = nd.children[UpTo(nd.keys, k) + 1]
                           /\ ChildFor(nd, k) \in Range(nd.children)
<1>1. /\ nd.keys \in Seq(Int) /\ nd.children \in Seq(Int) /\ Len(nd.children) = Len(nd.keys) + 1
      /\ Ascending(nd.keys)
  BY DEF InnerOK, Ascending
<1>2. ~IsLeaf(nd)
  BY DEF InnerOK, Inner, IsLeaf
<1>3. ASSUME NEW k \in Int
      PROVE  /\ UpTo(nd.keys, k) + 1 \in 1 .. Len(nd.children)
             /\ ChildFor(nd, k) = nd.children[UpTo(nd.keys, k) + 1]
             /\ ChildFor(nd, k) \in Range(nd.children)
  <2>1. UpTo(nd.keys, k) \in 0 .. Len(nd.keys) /\ Len(nd.keys) \in Nat
    <3>1. Len(nd.keys) \in Nat
      BY <1>1
    <3> QED BY <1>1, <3>1, UpToCounts
  <2>2. UpTo(nd.keys, k) + 1 \in 1 .. Len(nd.children)
    BY <1>1, <2>1
  <2> QED BY <1>1, <2>2 DEF ChildFor, Range
<1> QED BY <1>1, <1>2, <1>3

\* A split of the child of `sep` adds the new page for the keys of that child
\* that are not below `sep`.
LEMMA WithChildRoutes ==
  ASSUME NEW nd, InnerOK(nd), NEW sep \in Int, NEW right \in Int,
         right \notin Range(nd.children),
         NEW x \in Int, x < sep, ChildFor(nd, x) = ChildFor(nd, sep)
  PROVE  LET new == WithChild(nd, [right |-> right, sep |-> sep])
         IN  /\ InnerOK(new)
             /\ Range(new.keys) = Range(nd.keys) \cup {sep}
             /\ Range(new.children) \subseteq Range(nd.children) \cup {right}
             /\ \A k \in Int :
                  ChildFor(new, k) = IF k >= sep /\ ChildFor(nd, k) = ChildFor(nd, sep)
                                     THEN right ELSE ChildFor(nd, k)
<1> DEFINE pos == UpTo(nd.keys, sep)
           keys == InsertAt(nd.keys, pos + 1, sep)
           kids == InsertAt(nd.children, pos + 2, right)
<1>1. PICK K, C, n : K = nd.keys /\ C = nd.children /\ n = Len(K)
  OBVIOUS
<1>2. /\ Ascending(K) /\ K \in Seq(Int) /\ C \in Seq(Int) /\ Len(C) = n + 1 /\ n \in Nat
      /\ \A i, j \in 1 .. n + 1 : C[i] = C[j] => i = j
      /\ \A i, j \in 1 .. n : i < j => K[i] < K[j]
      /\ \A i \in 1 .. n : K[i] \in Int
  <2>1. /\ Ascending(K) /\ C \in Seq(Int) /\ Len(C) = n + 1
        /\ \A i, j \in 1 .. Len(C) : C[i] = C[j] => i = j
    BY <1>1 DEF InnerOK
  <2>2. K \in Seq(Int) /\ \A i, j \in 1 .. Len(K) : i < j => K[i] < K[j]
    BY ONLY <2>1 DEF Ascending
  <2>3. Len(K) \in Nat /\ \A i \in 1 .. Len(K) : K[i] \in Int
    BY ONLY <2>2
  <2>4. n = Len(K)
    BY <1>1
  <2> QED BY ONLY <2>1, <2>2, <2>3, <2>4
<1>2a. K \in Seq(Int) /\ C \in Seq(Int) /\ sep \in Int /\ right \in Int
  BY <1>2
<1>3. \A k \in Int : /\ UpTo(K, k) \in 0 .. n /\ \A i \in 1 .. n : K[i] <= k <=> i <= UpTo(K, k)
                     /\ ChildFor(nd, k) = C[UpTo(K, k) + 1]
  BY <1>1, <1>2, UpToCounts DEF ChildFor
<1>4. PICK p : p = UpTo(K, sep)
  OBVIOUS
<1>5. p \in 0 .. n /\ \A i \in 1 .. n : K[i] <= sep <=> i <= p
  BY <1>3, <1>4
<1>6. \A i \in 1 .. n : K[i] # sep
  <2> SUFFICES ASSUME NEW i \in 1 .. n, K[i] = sep PROVE FALSE
    OBVIOUS
  <2>1. UpTo(K, x) \in 0 .. n /\ ~(K[i] <= x) /\ i <= p
    <3>1. UpTo(K, x) \in 0 .. n
      BY <1>3
    <3>2. K[i] <= sep /\ sep \in Int /\ ~(sep <= x)
      OBVIOUS
    <3> QED BY <1>5, <3>1, <3>2
  <2>2. ~(i <= UpTo(K, x))
    BY <1>3, <2>1
  <2>3. C[UpTo(K, x) + 1] = C[p + 1]
    BY <1>3, <1>4
  <2>4. UpTo(K, x) + 1 = p + 1
    <3>1. UpTo(K, x) + 1 \in 1 .. n + 1 /\ p + 1 \in 1 .. n + 1
      BY ONLY <1>2, <1>5, <2>1
    <3> QED BY ONLY <1>2, <2>3, <3>1
  <2> QED BY <1>5, <2>1, <2>2, <2>4
<1>7. PICK G, D : G = InsertAt(K, p + 1, sep) /\ D = InsertAt(C, p + 2, right)
  OBVIOUS
<1>8. /\ G \in Seq(Int) /\ Len(G) = n + 1
      /\ \A i \in 1 .. n + 1 : G[i] = IF i < p + 1 THEN K[i] ELSE IF i = p + 1 THEN sep ELSE K[i - 1]
  <2>1. p + 1 \in 1 .. Len(K) + 1 /\ Len(K) = n
    BY <1>1, <1>5
  <2>2. PICK q : q = p + 1
    OBVIOUS
  <2>3. HasMore(G, K, q, sep)
    <3>1. G = InsertAt(K, q, sep) /\ q \in 1 .. Len(K) + 1
      BY <1>7, <2>1, <2>2
    <3> QED BY ONLY <1>2a, <3>1, InsertInt
  <2> QED BY ONLY <2>1, <2>2, <2>3 DEF HasMore
<1>9. /\ D \in Seq(Int) /\ Len(D) = n + 2
      /\ \A i \in 1 .. n + 2 : D[i] = IF i < p + 2 THEN C[i] ELSE IF i = p + 2 THEN right ELSE C[i - 1]
  <2>1. p + 2 \in 1 .. Len(C) + 1 /\ Len(C) = n + 1 /\ (n + 1) + 1 = n + 2
    BY <1>2, <1>5
  <2>2. /\ D \in Seq(Int) /\ Len(D) = Len(C) + 1
        /\ \A i \in 1 .. Len(C) + 1 : D[i] = IF i < p + 2 THEN C[i] ELSE IF i = p + 2 THEN right ELSE C[i - 1]
    <3>1. PICK q : q = p + 2
      OBVIOUS
    <3>2. D = InsertAt(C, q, right) /\ q \in 1 .. Len(C) + 1
      BY <1>7, <2>1, <3>1
    <3>3. HasMore(D, C, q, right)
      BY ONLY <1>2a, <3>2, InsertInt
    <3> QED BY ONLY <3>1, <3>3 DEF HasMore
  <2> QED BY <2>1, <2>2
<1>8a. \A i \in 1 .. n + 1 :
         /\ i < p + 1 => i \in 1 .. n /\ i <= p /\ G[i] = K[i]
         /\ i = p + 1 => G[i] = sep
         /\ i > p + 1 => i - 1 \in 1 .. n /\ ~(i - 1 <= p) /\ G[i] = K[i - 1]
  <2> TAKE i \in 1 .. n + 1
  <2>1. n \in Nat /\ p \in 0 .. n /\ i \in 1 .. n + 1
    BY <1>2, <1>5
  <2>2. /\ i < p + 1 => i \in 1 .. n /\ i <= p
        /\ i > p + 1 => i - 1 \in 1 .. n /\ ~(i - 1 <= p) /\ i # p + 1 /\ ~(i < p + 1)
    BY ONLY <2>1
  <2>3. i = p + 1 => ~(i < p + 1)
    BY ONLY <2>1
  <2> QED BY <1>8, <2>2, <2>3
<1>9a. \A i \in 1 .. n + 2 :
         /\ i < p + 2 => i \in 1 .. n + 1 /\ i <= p + 1 /\ D[i] = C[i]
         /\ i = p + 2 => D[i] = right
         /\ i > p + 2 => i - 1 \in 1 .. n + 1 /\ ~(i - 1 <= p + 1) /\ D[i] = C[i - 1]
  <2> TAKE i \in 1 .. n + 2
  <2>1. n \in Nat /\ p \in 0 .. n /\ i \in 1 .. n + 2
    BY <1>2, <1>5
  <2>2. /\ i < p + 2 => i \in 1 .. n + 1 /\ i <= p + 1
        /\ i > p + 2 => i - 1 \in 1 .. n + 1 /\ ~(i - 1 <= p + 1) /\ i # p + 2 /\ ~(i < p + 2)
    BY ONLY <2>1
  <2>3. i = p + 2 => ~(i < p + 2)
    BY ONLY <2>1
  <2> QED BY <1>9, <2>2, <2>3
<1>10. Ascending(G)
  <2>1. ASSUME NEW i \in 1 .. n + 1, NEW j \in 1 .. n + 1, i < j PROVE G[i] < G[j]
    <3>1. CASE j < p + 1
      <4>1. i < p + 1
        BY <1>5, <2>1, <3>1
      <4> QED BY <1>2, <1>8a, <2>1, <3>1, <4>1
    <3>2. CASE j = p + 1
      <4>1. i \in 1 .. n /\ i <= p /\ G[i] = K[i] /\ G[j] = sep
        BY <1>5, <1>8, <1>8a, <2>1, <3>2
      <4>2. K[i] <= sep /\ K[i] # sep /\ K[i] \in Int
        BY <1>2, <1>5, <1>6, <4>1
      <4> QED BY <4>1, <4>2
    <3>3. CASE j > p + 1
      <4>1. j - 1 \in 1 .. n /\ G[j] = K[j - 1] /\ ~(j - 1 <= p)
        BY <1>5, <1>8, <1>8a, <2>1, <3>3
      <4>2. ~(K[j - 1] <= sep) /\ K[j - 1] \in Int
        BY <1>2, <1>5, <4>1
      <4>3. CASE i < p + 1
        <5>1. i \in 1 .. n /\ i < j - 1 /\ G[i] = K[i]
          BY <1>5, <1>8, <1>8a, <3>3, <4>3
        <5> QED BY <1>2, <4>1, <5>1
      <4>4. CASE i = p + 1
        BY <1>8, <1>8a, <4>1, <4>2, <4>4
      <4>5. CASE i > p + 1
        <5>1. i - 1 \in 1 .. n /\ i - 1 < j - 1 /\ G[i] = K[i - 1]
          BY <1>5, <1>8, <1>8a, <2>1, <4>5
        <5> QED BY <1>2, <4>1, <5>1
      <4> QED BY <1>5, <4>3, <4>4, <4>5
    <3> QED BY <1>5, <3>1, <3>2, <3>3
  <2> QED BY <1>8, <1>8a, <2>1 DEF Ascending
<1>11. \A i \in 1 .. n + 1 : C[i] # right
  BY <1>1, <1>2 DEF Range
<1>12. \A i, j \in 1 .. Len(D) : D[i] = D[j] => i = j
  <2> SUFFICES ASSUME NEW i \in 1 .. n + 2, NEW j \in 1 .. n + 2, D[i] = D[j] PROVE i = j
    BY <1>9
  <2>1. \A q \in 1 .. n + 2 : /\ q < p + 2 => q \in 1 .. n + 1 /\ D[q] = C[q]
                              /\ q > p + 2 => q - 1 \in 1 .. n + 1 /\ D[q] = C[q - 1]
                              /\ q = p + 2 => D[q] = right
    BY <1>2, <1>5, <1>9
  <2>2. CASE i = p + 2
    BY <1>5, <1>11, <2>1, <2>2
  <2>3. CASE j = p + 2
    BY <1>5, <1>11, <2>1, <2>3
  <2>4. CASE i < p + 2 /\ j < p + 2
    BY <1>2, <2>1, <2>4
  <2>5. CASE i > p + 2 /\ j > p + 2
    BY <1>2, <2>1, <2>5
  <2>6. CASE i < p + 2 /\ j > p + 2
    <3>1. i = j - 1
      BY <1>2, <2>1, <2>6
    <3> QED BY <1>5, <2>6, <3>1
  <2>7. CASE i > p + 2 /\ j < p + 2
    <3>1. j = i - 1
      BY <1>2, <2>1, <2>7
    <3> QED BY <1>5, <2>7, <3>1
  <2> QED BY <1>5, <2>2, <2>3, <2>4, <2>5, <2>6, <2>7
<1>13. WithChild(nd, [right |-> right, sep |-> sep]) = Inner(G, D)
  BY <1>1, <1>4, <1>7 DEF WithChild
<1>14. /\ InnerOK(Inner(G, D)) /\ Inner(G, D).keys = G /\ Inner(G, D).children = D
  <2>1. Len(D) = Len(G) + 1
    BY <1>2, <1>8, <1>8a, <1>9
  <2>2. D \in Seq(Int) /\ Len(D) = n + 2
    BY <1>9
  <2>3. \A i, j \in 1 .. Len(D) : D[i] = D[j] => i = j
    BY <1>12, <2>2
  <2> QED BY ONLY <1>10, <2>1, <2>2, <2>3, InnerIs
<1>15. Range(G) = Range(K) \cup {sep}
  <2>1. DOMAIN G = 1 .. n + 1 /\ DOMAIN K = 1 .. n
    BY <1>1, <1>2, <1>8
  <2>2. ASSUME NEW i \in 1 .. n PROVE K[i] \in Range(G)
    <3>1. CASE i <= p
      <4>1. i \in 1 .. n + 1 /\ G[i] = K[i]
        BY <1>2, <1>5, <1>8, <1>8a, <3>1
      <4> QED BY <2>1, <4>1 DEF Range
    <3>2. CASE i > p
      <4>1. i + 1 \in 1 .. n + 1 /\ G[i + 1] = K[i]
        BY <1>2, <1>5, <1>8, <1>8a, <3>2
      <4> QED BY <2>1, <4>1 DEF Range
    <3> QED BY <1>5, <3>1, <3>2
  <2>3. p + 1 \in 1 .. n + 1 /\ G[p + 1] = sep
    BY <1>2, <1>5, <1>8
  <2>4. ASSUME NEW i \in 1 .. n + 1 PROVE G[i] \in Range(K) \cup {sep}
    <3>1. i < p + 1 \/ i = p + 1 \/ i > p + 1
      BY ONLY <1>5, i \in 1 .. n + 1, <1>2
    <3>2. G[i] = sep \/ \E l \in 1 .. n : G[i] = K[l]
      BY <1>8a, <3>1
    <3>3. \A l \in 1 .. n : K[l] \in Range(K)
      BY <2>1 DEF Range
    <3> QED BY <3>2, <3>3
  <2> QED BY <2>1, <2>2, <2>3, <2>4 DEF Range
<1>16. Range(D) \subseteq Range(C) \cup {right}
  <2>1. DOMAIN D = 1 .. n + 2 /\ DOMAIN C = 1 .. n + 1
    BY <1>2, <1>9
  <2>2. ASSUME NEW i \in 1 .. n + 2 PROVE D[i] \in Range(C) \cup {right}
    <3>1. i < p + 2 \/ i = p + 2 \/ i > p + 2
      BY <1>5
    <3> QED BY <1>9a, <2>1, <3>1 DEF Range
  <2> QED BY <2>1, <2>2 DEF Range
<1>17. ASSUME NEW k \in Int
       PROVE  ChildFor(Inner(G, D), k) = IF k >= sep /\ ChildFor(nd, k) = ChildFor(nd, sep)
                                         THEN right ELSE ChildFor(nd, k)
  <2>1. PICK u : u = UpTo(K, k)
    OBVIOUS
  <2>2. /\ u \in 0 .. n /\ \A i \in 1 .. n : K[i] <= k <=> i <= u
        /\ ChildFor(nd, k) = C[u + 1] /\ ChildFor(nd, sep) = C[p + 1]
    BY <1>3, <1>4, <2>1
  <2>3. CASE k < sep
    <3>1. u <= p
      <4> SUFFICES ASSUME ~(u <= p) PROVE FALSE
        OBVIOUS
      <4>1. u \in 1 .. n /\ ~(u <= p) /\ u <= u
        BY ONLY <1>2, <1>5, <2>2, ~(u <= p)
      <4>2. K[u] <= k /\ ~(K[u] <= sep) /\ K[u] \in Int
        BY <1>2, <1>5, <2>2, <4>1
      <4> QED BY <1>2a, <2>3, <4>2
    <3>2. ASSUME NEW i \in 1 .. n + 1 PROVE G[i] <= k <=> i <= u
      <4>1. CASE i < p + 1
        <5>1. i \in 1 .. n /\ G[i] = K[i]
          BY <1>2, <1>5, <1>8, <1>8a, <4>1
        <5> QED BY <2>2, <5>1
      <4>2. CASE i = p + 1
        BY <1>2, <1>5, <1>8, <1>8a, <2>2, <2>3, <3>1, <4>2
      <4>3. CASE i > p + 1
        <5>1. i - 1 \in 1 .. n /\ G[i] = K[i - 1]
          BY <1>8a, <4>3
        <5>1a. ~(i - 1 <= u) /\ ~(i <= u)
          BY <1>5, <2>2, <3>1, <4>3
        <5> QED BY <2>2, <5>1, <5>1a
      <4> QED BY <1>5, <4>1, <4>2, <4>3
    <3>3. UpTo(G, k) = u
      <4>1. u \in 0 .. Len(G) /\ \A i \in 1 .. Len(G) : G[i] <= k <=> i <= u
        BY <1>2, <1>8, <1>8a, <2>2, <3>2
      <4> QED BY <1>8, <1>8a, <4>1, UpToIs
    <3>4. D[u + 1] = C[u + 1]
      <4>1. u + 1 \in 1 .. n + 2 /\ u + 1 < p + 2
        BY <1>2, <1>5, <2>2, <3>1
      <4> QED BY <1>9, <1>9a, <4>1
    <3> QED BY <1>14, <2>2, <2>3, <3>3, <3>4 DEF ChildFor
  <2>4. CASE k >= sep
    <3>1. u >= p
      <4>1. CASE p = 0
        BY <2>2, <4>1
      <4>2. CASE p # 0
        <5>1. p \in 1 .. n /\ K[p] <= sep /\ K[p] \in Int
          BY <1>2, <1>5, <4>2
        <5>2. K[p] <= k
          BY <2>4, <5>1
        <5> QED BY <2>2, <5>1, <5>2
      <4> QED BY <4>1, <4>2
    <3>2. ASSUME NEW i \in 1 .. n + 1 PROVE G[i] <= k <=> i <= u + 1
      <4>1. CASE i < p + 1
        <5>1. i \in 1 .. n /\ G[i] = K[i] /\ i <= u
          BY <1>2, <1>5, <1>8, <1>8a, <2>2, <3>1, <4>1
        <5> QED BY <2>2, <5>1
      <4>2. CASE i = p + 1
        BY <1>2, <1>5, <1>8, <1>8a, <2>2, <2>4, <3>1, <4>2
      <4>3. CASE i > p + 1
        <5>1. i - 1 \in 1 .. n /\ G[i] = K[i - 1]
          BY <1>8a, <4>3
        <5>1a. i - 1 <= u <=> i <= u + 1
          BY <2>2
        <5> QED BY <2>2, <5>1, <5>1a
      <4> QED BY <1>5, <4>1, <4>2, <4>3
    <3>3. UpTo(G, k) = u + 1
      <4>1. u + 1 \in 0 .. Len(G) /\ \A i \in 1 .. Len(G) : G[i] <= k <=> i <= u + 1
        BY <1>2, <1>8, <1>8a, <2>2, <3>2
      <4> QED BY <1>8, <1>8a, <4>1, UpToIs
    <3>4. ChildFor(Inner(G, D), k) = D[u + 2]
      <4>1. (u + 1) + 1 = u + 2
        BY <2>2
      <4> QED BY <1>14, <3>3, <4>1 DEF ChildFor
    <3>5. CASE u = p
      <4>1. D[u + 2] = right
        <5>1. p + 2 \in 1 .. n + 2 /\ u + 2 = p + 2
          BY <1>2, <1>5, <3>5
        <5> QED BY <1>9a, <5>1
      <4>2. ChildFor(nd, k) = ChildFor(nd, sep)
        BY <2>2, <3>5
      <4> QED BY <2>4, <3>4, <4>1, <4>2
    <3>6. CASE u # p
      <4>1. u + 2 \in 1 .. n + 2 /\ u + 2 > p + 2 /\ (u + 2) - 1 = u + 1 /\ u + 1 \in 1 .. n + 1
            /\ p + 1 \in 1 .. n + 1 /\ u + 1 # p + 1
        BY <1>2, <1>5, <2>2, <3>1, <3>6
      <4>2. D[u + 2] = C[u + 1] /\ C[u + 1] # C[p + 1]
        BY <1>2, <1>9, <1>9a, <4>1
      <4> QED BY <2>2, <3>4, <4>2
    <3> QED BY <3>5, <3>6
  <2> QED BY <1>2, <2>3, <2>4
<1> QED BY <1>1, <1>13, <1>14, <1>15, <1>16, <1>17

\* t is the part of s from place a to b.
HasPart(t, s, a, b) ==
  /\ t \in Seq(Int) /\ Len(t) = b - a + 1
  /\ \A i \in 1 .. b - a + 1 : t[i] = s[a + i - 1]

\* What a first part of numbers is.
LEMMA FirstPart ==
  ASSUME NEW t, NEW s, NEW m \in Int, HasPart(t, s, 1, m)
  PROVE  t \in Seq(Int) /\ Len(t) = m /\ \A i \in 1 .. m : t[i] = s[i]
<1>1. m - 1 + 1 = m /\ \A i \in 1 .. m : 1 + i - 1 = i
  OBVIOUS
<1> QED BY <1>1 DEF HasPart

\* SubSeq returns a part, of numbers.
LEMMA PartInt ==
  ASSUME NEW s, NEW a, NEW b, NEW t, s \in Seq(Int), a \in 1 .. Len(s) + 1, b \in 0 .. Len(s),
         a <= b + 1, t = SubSeq(s, a, b)
  PROVE  HasPart(t, s, a, b)
<1>1. PICK Z : Z = Int
  OBVIOUS
<1>2. s \in Seq(Z)
  BY <1>1
<1>3. /\ SubSeq(s, a, b) \in Seq(Z) /\ Len(SubSeq(s, a, b)) = b - a + 1
      /\ \A i \in 1 .. b - a + 1 : SubSeq(s, a, b)[i] = s[a + i - 1]
  BY ONLY <1>2, a \in 1 .. Len(s) + 1, b \in 0 .. Len(s), a <= b + 1, SubSeqIs
<1> QED BY <1>1, <1>3 DEF HasPart

\* A part of numbers that ascend.
LEMMA PartAscends ==
  ASSUME NEW s, NEW a, NEW b, NEW t, Ascending(s), a \in 1 .. Len(s) + 1, b \in 0 .. Len(s),
         a <= b + 1, HasPart(t, s, a, b)
  PROVE  /\ Ascending(t)
         /\ \A x : x \in Range(t) <=> \E i \in a .. b : x = s[i]
<1>1. /\ s \in Seq(Int) /\ Len(s) \in Nat /\ \A i, j \in 1 .. Len(s) : i < j => s[i] < s[j]
  BY DEF Ascending
<1>2. /\ t \in Seq(Int) /\ Len(t) = b - a + 1 /\ DOMAIN t = 1 .. b - a + 1
      /\ \A i \in 1 .. b - a + 1 : a + i - 1 \in 1 .. Len(s) /\ a + i - 1 \in a .. b /\ t[i] = s[a + i - 1]
  BY <1>1 DEF HasPart
<1>3. \A i, j \in 1 .. Len(t) : i < j => t[i] < t[j]
  <2> SUFFICES ASSUME NEW i \in 1 .. b - a + 1, NEW j \in 1 .. b - a + 1, i < j PROVE t[i] < t[j]
    BY <1>2
  <2>1. a + i - 1 < a + j - 1
    OBVIOUS
  <2> QED BY <1>1, <1>2, <2>1
<1>4. ASSUME NEW i \in a .. b PROVE s[i] \in Range(t)
  <2>1. i - a + 1 \in 1 .. b - a + 1 /\ a + (i - a + 1) - 1 = i
    BY <1>1
  <2> QED BY <1>2, <2>1 DEF Range
<1> QED BY <1>2, <1>3, <1>4 DEF Ascending, Range

\* The halves of an inner node: each key is led where the whole node led it.
LEMMA InnerHalvesRoute ==
  ASSUME NEW nd, InnerOK(nd), Len(nd.keys) > 1, NEW new
  PROVE  LET h == Halves(nd, new)
         IN  /\ InnerOK(h.left) /\ InnerOK(h.right) /\ h.sep \in Range(nd.keys)
             /\ \A k \in Int : ChildFor(IF k < h.sep THEN h.left ELSE h.right, k) = ChildFor(nd, k)
             /\ \A x \in Range(h.left.keys) : x \in Range(nd.keys) /\ x < h.sep
             /\ \A x \in Range(h.right.keys) : x \in Range(nd.keys) /\ x > h.sep
             /\ Range(h.left.children) \subseteq Range(nd.children)
             /\ Range(h.right.children) \subseteq Range(nd.children)
             /\ \E x \in Range(nd.keys) : x < h.sep
             /\ \A k, m \in Int : ChildFor(nd, k) = ChildFor(nd, m) => (k < h.sep <=> m < h.sep)
<1>1. PICK K, C, n, mid : K = nd.keys /\ C = nd.children /\ n = Len(K) /\ mid = n \div 2
  OBVIOUS
<1>2. /\ Ascending(K) /\ K \in Seq(Int) /\ C \in Seq(Int) /\ Len(C) = n + 1 /\ n \in Nat
      /\ \A i, j \in 1 .. n + 1 : C[i] = C[j] => i = j
      /\ \A i, j \in 1 .. n : i < j => K[i] < K[j]
      /\ \A i \in 1 .. n : K[i] \in Int
      /\ DOMAIN K = 1 .. n /\ DOMAIN C = 1 .. n + 1
  <2>1. /\ Ascending(K) /\ C \in Seq(Int) /\ Len(C) = n + 1
        /\ \A i, j \in 1 .. Len(C) : C[i] = C[j] => i = j
    BY <1>1 DEF InnerOK
  <2>2. K \in Seq(Int) /\ \A i, j \in 1 .. Len(K) : i < j => K[i] < K[j]
    BY ONLY <2>1 DEF Ascending
  <2>3. Len(K) \in Nat /\ \A i \in 1 .. Len(K) : K[i] \in Int
    BY ONLY <2>2
  <2>4. n = Len(K) /\ DOMAIN K = 1 .. Len(K) /\ DOMAIN C = 1 .. Len(C)
    BY <1>1, <2>1, <2>2
  <2> QED BY ONLY <2>1, <2>2, <2>3, <2>4
<1>3. mid \in Nat /\ 1 <= mid /\ mid + 1 <= n /\ n \in Nat /\ n = Len(K)
  <2>1. n \in Nat /\ n > 1 /\ mid = n \div 2 /\ n = Len(K)
    BY <1>1, <1>2
  <2> QED BY ONLY <2>1
<1>4. PICK s, KL, KR, CL, CR :
        /\ s = K[mid + 1] /\ KL = SubSeq(K, 1, mid) /\ KR = SubSeq(K, mid + 2, n)
        /\ CL = SubSeq(C, 1, mid + 1) /\ CR = SubSeq(C, mid + 2, Len(C))
  OBVIOUS
<1>5. Halves(nd, new) = [left |-> Inner(KL, CL), right |-> Inner(KR, CR), sep |-> s]
  <2>1. ~IsLeaf(nd)
    BY InnerFacts
  <2>2. mid + 2 = mid + 2 /\ (\A i : SubSeq(K, i, n) = SubSeq(nd.keys, i, Len(nd.keys)))
    BY <1>1
  <2> QED BY <1>1, <1>4, <2>1 DEF Halves
<1>6. HasPart(KL, K, 1, mid) /\ HasPart(KR, K, mid + 2, n)
  <2>1. 1 \in 1 .. Len(K) + 1 /\ mid \in 0 .. Len(K) /\ 1 <= mid + 1
        /\ mid + 2 \in 1 .. Len(K) + 1 /\ n \in 0 .. Len(K) /\ mid + 2 <= n + 1
    BY ONLY <1>3
  <2>2. K \in Seq(Int)
    BY <1>2
  <2> QED BY ONLY <1>4, <2>1, <2>2, PartInt
<1>7. HasPart(CL, C, 1, mid + 1) /\ HasPart(CR, C, mid + 2, n + 1)
  <2>1. 1 \in 1 .. Len(C) + 1 /\ mid + 1 \in 0 .. Len(C) /\ 1 <= (mid + 1) + 1
        /\ mid + 2 \in 1 .. Len(C) + 1 /\ n + 1 \in 0 .. Len(C) /\ mid + 2 <= (n + 1) + 1
    BY <1>2, <1>3
  <2>2. C \in Seq(Int) /\ n + 1 = Len(C)
    BY <1>2
  <2> QED BY ONLY <1>4, <2>1, <2>2, PartInt
<1>8. /\ Ascending(KL) /\ Ascending(KR)
      /\ \A x : x \in Range(KL) <=> \E i \in 1 .. mid : x = K[i]
      /\ \A x : x \in Range(KR) <=> \E i \in mid + 2 .. n : x = K[i]
  <2>1. 1 \in 1 .. Len(K) + 1 /\ mid \in 0 .. Len(K) /\ 1 <= mid + 1
        /\ mid + 2 \in 1 .. Len(K) + 1 /\ n \in 0 .. Len(K) /\ mid + 2 <= n + 1
    BY ONLY <1>3
  <2>2. Ascending(K)
    BY <1>2
  <2> QED BY ONLY <1>6, <2>1, <2>2, PartAscends
<1>9. /\ KL \in Seq(Int) /\ Len(KL) = mid /\ \A i \in 1 .. mid : KL[i] = K[i]
      /\ KR \in Seq(Int) /\ Len(KR) = n - mid - 1
      /\ \A i \in 1 .. n - mid - 1 : KR[i] = K[mid + 1 + i]
  <2>1. mid - 1 + 1 = mid /\ n - (mid + 2) + 1 = n - mid - 1
    BY <1>2, <1>3
  <2>3. \A i \in 1 .. n - mid - 1 : mid + 2 + i - 1 = mid + 1 + i
    BY <1>3
  <2>4. /\ KL \in Seq(Int) /\ Len(KL) = mid /\ \A i \in 1 .. mid : KL[i] = K[i]
    <3>1. mid \in Int /\ HasPart(KL, K, 1, mid)
      BY <1>3, <1>6
    <3> QED BY ONLY <3>1, FirstPart
  <2>5. /\ KR \in Seq(Int) /\ Len(KR) = n - mid - 1 /\ \A i \in 1 .. n - mid - 1 : KR[i] = K[mid + 2 + i - 1]
    BY <1>6, <2>1 DEF HasPart
  <2> QED BY <2>3, <2>4, <2>5
<1>10. /\ CL \in Seq(Int) /\ Len(CL) = mid + 1 /\ \A i \in 1 .. mid + 1 : CL[i] = C[i]
       /\ CR \in Seq(Int) /\ Len(CR) = n - mid
       /\ \A i \in 1 .. n - mid : CR[i] = C[mid + 1 + i]
  <2>1. mid + 1 - 1 + 1 = mid + 1 /\ n + 1 - (mid + 2) + 1 = n - mid
    BY ONLY <1>3
  <2>3. \A i \in 1 .. n - mid : mid + 2 + i - 1 = mid + 1 + i
    BY <1>3
  <2>4. /\ CL \in Seq(Int) /\ Len(CL) = mid + 1 /\ \A i \in 1 .. mid + 1 : CL[i] = C[i]
    <3>1. PICK m : m = mid + 1
      OBVIOUS
    <3>2. m \in Int /\ HasPart(CL, C, 1, m)
      BY <1>3, <1>7, <3>1
    <3>3. CL \in Seq(Int) /\ Len(CL) = m /\ \A i \in 1 .. m : CL[i] = C[i]
      BY ONLY <3>2, FirstPart
    <3> QED BY <3>1, <3>3
  <2>5. /\ CR \in Seq(Int) /\ Len(CR) = n - mid /\ \A i \in 1 .. n - mid : CR[i] = C[mid + 2 + i - 1]
    BY ONLY <1>3, <1>7, <2>1 DEF HasPart
  <2> QED BY <2>3, <2>4, <2>5
<1>11. /\ \A i \in 1 .. mid + 1 : i \in 1 .. n + 1
       /\ \A i \in 1 .. n - mid : mid + 1 + i \in 1 .. n + 1
       /\ \A i \in 1 .. n - mid - 1 : mid + 1 + i \in 1 .. n
       /\ \A i \in 1 .. mid : i \in 1 .. n
       /\ mid + 1 \in 1 .. n /\ mid \in 1 .. n
  BY ONLY <1>2, <1>3
<1>12. InnerOK(Inner(KL, CL)) /\ Inner(KL, CL).keys = KL /\ Inner(KL, CL).children = CL
  <2>1. \A i, j \in 1 .. Len(CL) : CL[i] = CL[j] => i = j
    BY <1>2, <1>10, <1>11
  <2>2. Len(CL) = Len(KL) + 1
    BY <1>9, <1>10
  <2>3. Ascending(KL) /\ CL \in Seq(Int)
    BY <1>8, <1>10
  <2> QED BY ONLY <2>1, <2>2, <2>3, InnerIs
<1>13. InnerOK(Inner(KR, CR)) /\ Inner(KR, CR).keys = KR /\ Inner(KR, CR).children = CR
  <2>1. \A i, j \in 1 .. Len(CR) : CR[i] = CR[j] => i = j
    <3> SUFFICES ASSUME NEW i \in 1 .. n - mid, NEW j \in 1 .. n - mid, CR[i] = CR[j] PROVE i = j
      BY <1>10
    <3>1. mid + 1 + i = mid + 1 + j
      BY <1>2, <1>10, <1>11
    <3> QED BY <1>3, <3>1
  <2>2. Len(CR) = Len(KR) + 1
    BY <1>2, <1>3, <1>9, <1>10
  <2>3. Ascending(KR) /\ CR \in Seq(Int)
    BY <1>8, <1>10
  <2> QED BY ONLY <2>1, <2>2, <2>3, InnerIs
<1>14. s \in Int /\ s \in Range(K) /\ K[mid] < s /\ K[mid] \in Range(K)
  <2>1. mid < mid + 1
    BY <1>3
  <2>2. K[mid] < K[mid + 1] /\ K[mid + 1] \in Int
    BY <1>2, <1>11, <2>1
  <2>3. K[mid] \in Range(K) /\ K[mid + 1] \in Range(K)
    BY <1>2, <1>11 DEF Range
  <2> QED BY <1>4, <2>2, <2>3
<1>15. \A x \in Range(KL) : x \in Range(K) /\ x < s
  <2> SUFFICES ASSUME NEW i \in 1 .. mid PROVE K[i] \in Range(K) /\ K[i] < s
    BY <1>8
  <2>1. i < mid + 1 /\ i \in 1 .. n
    BY <1>3, <1>11
  <2> QED BY <1>2, <1>4, <1>11, <2>1 DEF Range
<1>16. \A x \in Range(KR) : x \in Range(K) /\ x > s
  <2> SUFFICES ASSUME NEW i \in mid + 2 .. n PROVE K[i] \in Range(K) /\ K[i] > s
    BY <1>8
  <2>1. mid + 1 < i /\ i \in 1 .. n
    BY <1>3
  <2>2. s < K[i]
    BY <1>2, <1>4, <1>11, <2>1
  <2> QED BY <1>2, <1>14, <2>1, <2>2 DEF Range
<1>17. Range(CL) \subseteq Range(C) /\ Range(CR) \subseteq Range(C)
  <2>1. DOMAIN CL = 1 .. mid + 1 /\ DOMAIN CR = 1 .. n - mid
    BY <1>10
  <2>2. \A i \in 1 .. mid + 1 : CL[i] \in Range(C)
    BY <1>2, <1>10, <1>11 DEF Range
  <2>3. \A i \in 1 .. n - mid : CR[i] \in Range(C)
    <3> TAKE i \in 1 .. n - mid
    <3>1. PICK q : q = mid + 1 + i
      OBVIOUS
    <3>2. q \in DOMAIN C /\ CR[i] = C[q]
      BY <1>2, <1>10, <1>11, <3>1
    <3> QED BY <3>2 DEF Range
  <2> QED BY <2>1, <2>2, <2>3 DEF Range
<1>18. \A k \in Int : /\ UpTo(K, k) \in 0 .. n /\ \A i \in 1 .. n : K[i] <= k <=> i <= UpTo(K, k)
                      /\ ChildFor(nd, k) = C[UpTo(K, k) + 1]
  BY <1>1, <1>2, UpToCounts DEF ChildFor
<1>19. ASSUME NEW k \in Int PROVE k < s <=> UpTo(K, k) <= mid
  <2>1. K[mid + 1] <= k <=> mid + 1 <= UpTo(K, k)
    BY <1>11, <1>18
  <2>2. UpTo(K, k) \in 0 .. n
    BY <1>18
  <2>3. s <= k <=> mid + 1 <= UpTo(K, k)
    BY <1>4, <2>1
  <2> QED BY ONLY <1>3, <1>14, <2>2, <2>3, k \in Int
<1>20. ASSUME NEW k \in Int
       PROVE  ChildFor(IF k < s THEN Inner(KL, CL) ELSE Inner(KR, CR), k) = ChildFor(nd, k)
  <2>1. PICK u : u = UpTo(K, k)
    OBVIOUS
  <2>2. u \in 0 .. n /\ (\A i \in 1 .. n : K[i] <= k <=> i <= u) /\ ChildFor(nd, k) = C[u + 1]
    BY <1>18, <2>1
  <2>3. CASE k < s
    <3>1. u <= mid
      BY <1>19, <2>1, <2>3
    <3>2. \A i \in 1 .. mid : KL[i] <= k <=> i <= u
      BY <1>9, <1>11, <2>2
    <3>3. UpTo(KL, k) = u
      <4>1. u \in 0 .. Len(KL) /\ \A i \in 1 .. Len(KL) : KL[i] <= k <=> i <= u
        BY <1>3, <1>9, <2>2, <3>1, <3>2
      <4> QED BY <1>9, <4>1, UpToIs
    <3>4. CL[u + 1] = C[u + 1]
      <4>1. u + 1 \in 1 .. mid + 1
        BY <1>3, <2>2, <3>1
      <4> QED BY <1>10, <4>1
    <3> QED BY <1>12, <2>2, <2>3, <3>3, <3>4 DEF ChildFor
  <2>4. CASE ~(k < s)
    <3>1. u >= mid + 1
      BY <1>3, <1>19, <2>1, <2>2, <2>4
    <3>2. \A i \in 1 .. n - mid - 1 : KR[i] <= k <=> i <= u - mid - 1
      <4> SUFFICES ASSUME NEW i \in 1 .. n - mid - 1 PROVE KR[i] <= k <=> i <= u - mid - 1
        OBVIOUS
      <4>1. mid + 1 + i <= u <=> i <= u - mid - 1
        BY <1>3, <2>2
      <4> QED BY <1>9, <1>11, <2>2, <4>1
    <3>3. UpTo(KR, k) = u - mid - 1
      <4>1. u - mid - 1 \in 0 .. Len(KR) /\ \A i \in 1 .. Len(KR) : KR[i] <= k <=> i <= u - mid - 1
        BY <1>2, <1>3, <1>9, <2>2, <3>1, <3>2
      <4> QED BY <1>9, <4>1, UpToIs
    <3>4. CR[(u - mid - 1) + 1] = C[u + 1]
      <4>1. (u - mid - 1) + 1 \in 1 .. n - mid /\ mid + 1 + ((u - mid - 1) + 1) = u + 1
        BY <1>2, <1>3, <2>2, <3>1
      <4> QED BY <1>10, <4>1
    <3> QED BY <1>13, <2>2, <2>4, <3>3, <3>4 DEF ChildFor
  <2> QED BY <2>3, <2>4
<1>21. ASSUME NEW k \in Int, NEW m \in Int, ChildFor(nd, k) = ChildFor(nd, m)
       PROVE  k < s <=> m < s
  <2>1. PICK u, v : u = UpTo(K, k) /\ v = UpTo(K, m)
    OBVIOUS
  <2>2. u \in 0 .. n /\ v \in 0 .. n /\ ChildFor(nd, k) = C[u + 1] /\ ChildFor(nd, m) = C[v + 1]
    BY <1>18, <2>1
  <2>3. u + 1 \in 1 .. n + 1 /\ v + 1 \in 1 .. n + 1
    BY <1>3, <2>2
  <2>4. u + 1 = v + 1
    BY <1>2, <1>21, <2>2, <2>3
  <2>5. u = v
    BY <2>2, <2>4
  <2> QED BY <1>19, <2>1, <2>5
<1>22. PICK h : h = Halves(nd, new)
  OBVIOUS
<1>23. h.left = Inner(KL, CL) /\ h.right = Inner(KR, CR) /\ h.sep = s
  BY <1>5, <1>22
<1>24. /\ InnerOK(h.left) /\ InnerOK(h.right) /\ h.sep \in Range(nd.keys)
       /\ \A k \in Int : ChildFor(IF k < h.sep THEN h.left ELSE h.right, k) = ChildFor(nd, k)
  BY <1>1, <1>12, <1>13, <1>14, <1>20, <1>23
<1>25. /\ \A x \in Range(h.left.keys) : x \in Range(nd.keys) /\ x < h.sep
       /\ \A x \in Range(h.right.keys) : x \in Range(nd.keys) /\ x > h.sep
  BY <1>1, <1>12, <1>13, <1>15, <1>16, <1>23
<1>26. /\ Range(h.left.children) \subseteq Range(nd.children)
       /\ Range(h.right.children) \subseteq Range(nd.children)
       /\ \E x \in Range(nd.keys) : x < h.sep
  BY <1>1, <1>12, <1>13, <1>14, <1>17, <1>23
<1>27. \A k, m \in Int : ChildFor(nd, k) = ChildFor(nd, m) => (k < h.sep <=> m < h.sep)
  BY <1>21, <1>23
<1> QED BY <1>22, <1>24, <1>25, <1>26, <1>27

-----------------------------------------------------------------------------
(* Leaves.                                                                 *)

TreeRows == {p[2] : p \in TreePairs}

LeafOK(nd) ==
  /\ nd = Leaf(nd.keys, nd.rows, nd.next) /\ nd.next \in Int
  /\ Ascending(nd.keys) /\ Range(nd.keys) \subseteq TreeKeys
  /\ nd.rows = [k \in Range(nd.keys) |-> nd.rows[k]]
  /\ \A k \in Range(nd.keys) : nd.rows[k] \in Seq(TreeRows) /\ nd.rows[k] # <<>>

\* A node made of ascending keys and their rows is a leaf.
LEMMA LeafIs ==
  ASSUME NEW keys, NEW rows, NEW next \in Int, Ascending(keys), Range(keys) \subseteq TreeKeys,
         rows = [k \in Range(keys) |-> rows[k]],
         \A k \in Range(keys) : rows[k] \in Seq(TreeRows) /\ rows[k] # <<>>
  PROVE  /\ LeafOK(Leaf(keys, rows, next)) /\ IsLeaf(Leaf(keys, rows, next))
         /\ Leaf(keys, rows, next).keys = keys /\ Leaf(keys, rows, next).rows = rows
         /\ Leaf(keys, rows, next).next = next
<1>1. PICK nd : nd = Leaf(keys, rows, next)
  OBVIOUS
<1>2. nd.keys = keys /\ nd.rows = rows /\ nd.next = next /\ "next" \in DOMAIN nd
  BY <1>1 DEF Leaf
<1>3. LeafOK(nd)
  BY <1>1, <1>2 DEF LeafOK
<1> QED BY <1>1, <1>2, <1>3 DEF IsLeaf

\* What holds of a leaf.
LEMMA LeafFacts ==
  ASSUME NEW nd, LeafOK(nd)
  PROVE  /\ IsLeaf(nd) /\ Len(nd.keys) \in Nat /\ nd.keys \in Seq(Int)
         /\ Range(nd.keys) \subseteq Int
<1>1. IsLeaf(nd)
  BY DEF LeafOK, Leaf, IsLeaf
<1>2. nd.keys \in Seq(Int) /\ Range(nd.keys) \subseteq Int
  BY TreeAssumption DEF LeafOK, Ascending
<1>3. Len(nd.keys) \in Nat
  BY <1>2
<1> QED BY <1>1, <1>2, <1>3

\* The rows of a key with one more, unless it is there.
RowsWith(rows, row) == IF row \in Range(rows) THEN rows ELSE Append(rows, row)

\* A row added to rows leaves rows, at least one.
LEMMA RowsWithIs ==
  ASSUME NEW rows \in Seq(TreeRows), NEW row \in TreeRows
  PROVE  RowsWith(rows, row) \in Seq(TreeRows) /\ RowsWith(rows, row) # <<>>
<1>1. CASE row \in Range(rows)
  <2>1. rows # <<>>
    BY <1>1 DEF Range
  <2> QED BY <1>1, <2>1 DEF RowsWith
<1>2. CASE row \notin Range(rows)
  <2>1. Append(rows, row) \in Seq(TreeRows) /\ Len(Append(rows, row)) = Len(rows) + 1 /\ Len(rows) \in Nat
    OBVIOUS
  <2>2. Append(rows, row) # <<>>
    BY <2>1
  <2> QED BY <1>2, <2>1, <2>2 DEF RowsWith
<1> QED BY <1>1, <1>2

\* An insertion into a leaf.
LEMMA WithRowAdds ==
  ASSUME NEW leaf, LeafOK(leaf), NEW key \in TreeKeys, NEW row \in TreeRows
  PROVE  LET new == WithRow(leaf, key, row)
         IN  /\ LeafOK(new) /\ new.next = leaf.next
             /\ Range(new.keys) = Range(leaf.keys) \cup {key}
             /\ \A x : RowsIn(new, x) = IF x = key THEN RowsWith(RowsIn(leaf, key), row)
                                        ELSE RowsIn(leaf, x)
<1>1. PICK K, R, new : K = leaf.keys /\ R = leaf.rows /\ new = WithRow(leaf, key, row)
  OBVIOUS
<1>2. /\ Ascending(K) /\ Range(K) \subseteq TreeKeys /\ leaf.next \in Int /\ key \in Int
      /\ R = [k \in Range(K) |-> R[k]]
      /\ \A k \in Range(K) : R[k] \in Seq(TreeRows) /\ R[k] # <<>>
  BY <1>1, TreeAssumption DEF LeafOK
<1>3. CASE key \in Range(K)
  <2>1. PICK Q : Q = [R EXCEPT ![key] = RowsWith(R[key], row)]
    OBVIOUS
  <2>2. new = Leaf(K, Q, leaf.next)
    BY <1>1, <1>3, <2>1 DEF WithRow, RowsWith
  <2>3. Q = [k \in Range(K) |-> IF k = key THEN RowsWith(R[key], row) ELSE R[k]]
    BY <1>2, <2>1
  <2>4. /\ Q = [k \in Range(K) |-> Q[k]]
        /\ \A k \in Range(K) : Q[k] = IF k = key THEN RowsWith(R[key], row) ELSE R[k]
    BY <2>3
  <2>5. \A k \in Range(K) : Q[k] \in Seq(TreeRows) /\ Q[k] # <<>>
    BY <1>2, <1>3, <2>4, RowsWithIs
  <2>6. LeafOK(new) /\ new.keys = K /\ new.rows = Q /\ new.next = leaf.next
    BY <1>2, <2>2, <2>4, <2>5, LeafIs
  <2>7. \A x : RowsIn(new, x) = IF x = key THEN RowsWith(RowsIn(leaf, key), row) ELSE RowsIn(leaf, x)
    BY <1>1, <1>3, <2>4, <2>6 DEF RowsIn
  <2> QED BY <1>1, <1>3, <2>6, <2>7
<1>4. CASE key \notin Range(K)
  <2>1. PICK p, G, Q : /\ p = Before(K, key) /\ G = InsertAt(K, p + 1, key)
                       /\ Q = [k \in DOMAIN R \cup {key} |-> IF k = key THEN <<row>> ELSE R[k]]
    OBVIOUS
  <2>2. new = Leaf(G, Q, leaf.next)
    BY <1>1, <1>4, <2>1 DEF WithRow
  <2>3. PICK n : n = Len(K)
    OBVIOUS
  <2>4. /\ K \in Seq(Int) /\ n \in Nat /\ DOMAIN K = 1 .. n
        /\ \A i, j \in 1 .. n : i < j => K[i] < K[j]
        /\ \A i \in 1 .. n : K[i] \in Int /\ K[i] # key
    BY <1>2, <1>4, <2>3 DEF Ascending, Range
  <2>5. p \in 0 .. n /\ \A i \in 1 .. n : K[i] < key <=> i <= p
    BY <1>2, <2>1, <2>3, BeforeCounts
  <2>6. HasMore(G, K, p + 1, key)
    <3>1. PICK q : q = p + 1
      OBVIOUS
    <3>2. q \in 1 .. Len(K) + 1 /\ K \in Seq(Int) /\ key \in Int /\ G = InsertAt(K, q, key)
      BY <1>2, <2>1, <2>3, <2>4, <2>5, <3>1
    <3>3. HasMore(G, K, q, key)
      BY ONLY <3>2, InsertInt
    <3> QED BY <3>1, <3>3
  <2>7. /\ G \in Seq(Int) /\ Len(G) = n + 1 /\ DOMAIN G = 1 .. n + 1
        /\ \A i \in 1 .. n + 1 : G[i] = IF i < p + 1 THEN K[i] ELSE IF i = p + 1 THEN key ELSE K[i - 1]
    BY <2>3, <2>6 DEF HasMore
  <2>8. \A i \in 1 .. n + 1 :
          /\ i < p + 1 => i \in 1 .. n /\ i <= p /\ G[i] = K[i]
          /\ i = p + 1 => G[i] = key
          /\ i > p + 1 => i - 1 \in 1 .. n /\ ~(i - 1 <= p) /\ G[i] = K[i - 1]
    <3> TAKE i \in 1 .. n + 1
    <3>1. n \in Nat /\ p \in 0 .. n /\ i \in 1 .. n + 1
      BY <2>4, <2>5
    <3>2. /\ i < p + 1 => i \in 1 .. n /\ i <= p
          /\ i > p + 1 => i - 1 \in 1 .. n /\ ~(i - 1 <= p) /\ i # p + 1 /\ ~(i < p + 1)
          /\ i = p + 1 => ~(i < p + 1)
      BY ONLY <3>1
    <3> QED BY <2>7, <3>2
  <2>9. Ascending(G)
    <3>1. ASSUME NEW i \in 1 .. n + 1, NEW j \in 1 .. n + 1, i < j PROVE G[i] < G[j]
      <4>1. CASE j < p + 1
        <5>1. i < p + 1
          BY <2>5, <3>1, <4>1
        <5> QED BY <2>4, <2>8, <3>1, <4>1, <5>1
      <4>2. CASE j = p + 1
        <5>1. i < p + 1
          BY <2>5, <3>1, <4>2
        <5>2. i \in 1 .. n /\ i <= p /\ G[i] = K[i] /\ G[j] = key
          BY <2>8, <4>2, <5>1
        <5> QED BY <2>5, <5>2
      <4>3. CASE j > p + 1
        <5>1. j - 1 \in 1 .. n /\ G[j] = K[j - 1] /\ ~(j - 1 <= p)
          BY <2>8, <4>3
        <5>2. ~(K[j - 1] < key) /\ K[j - 1] \in Int /\ K[j - 1] # key
          BY <2>4, <2>5, <5>1
        <5>3. CASE i < p + 1
          <6>1. i \in 1 .. n /\ i < j - 1 /\ G[i] = K[i]
            BY <2>5, <2>8, <4>3, <5>3
          <6> QED BY <2>4, <5>1, <6>1
        <5>4. CASE i = p + 1
          BY <1>2, <2>8, <5>1, <5>2, <5>4
        <5>5. CASE i > p + 1
          <6>1. i - 1 \in 1 .. n /\ i - 1 < j - 1 /\ G[i] = K[i - 1]
            BY <2>5, <2>8, <3>1, <5>5
          <6> QED BY <2>4, <5>1, <6>1
        <5> QED BY <2>5, <5>3, <5>4, <5>5
      <4> QED BY <2>5, <4>1, <4>2, <4>3
    <3> QED BY <2>7, <3>1 DEF Ascending
  <2>10. Range(G) = Range(K) \cup {key}
    <3>1. ASSUME NEW i \in 1 .. n PROVE K[i] \in Range(G)
      <4>1. CASE i <= p
        <5>1. i \in 1 .. n + 1 /\ i < p + 1
          BY <2>4, <2>5, <4>1
        <5>2. G[i] = K[i]
          BY <2>8, <5>1
        <5> QED BY <2>7, <5>1, <5>2 DEF Range
      <4>2. CASE i > p
        <5>1. PICK q : q = i + 1
          OBVIOUS
        <5>2. q \in 1 .. n + 1 /\ q > p + 1 /\ q - 1 = i
          BY <2>4, <2>5, <4>2, <5>1
        <5>3. G[q] = K[i]
          BY <2>8, <5>2
        <5> QED BY <2>7, <5>2, <5>3 DEF Range
      <4> QED BY <2>5, <4>1, <4>2
    <3>2. key \in Range(G)
      <4>1. p + 1 \in 1 .. n + 1
        BY <2>4, <2>5
      <4>2. G[p + 1] = key
        BY <2>8, <4>1
      <4> QED BY <2>7, <4>1, <4>2 DEF Range
    <3>3. ASSUME NEW i \in 1 .. n + 1 PROVE G[i] \in Range(K) \cup {key}
      <4>1. i < p + 1 \/ i = p + 1 \/ i > p + 1
        BY <2>5
      <4> QED BY <2>4, <2>8, <4>1 DEF Range
    <3>4. Range(G) = {G[i] : i \in 1 .. n + 1} /\ Range(K) = {K[i] : i \in 1 .. n}
      BY <2>4, <2>7 DEF Range
    <3> QED BY <3>1, <3>2, <3>3, <3>4
  <2>11. /\ Q = [k \in Range(G) |-> Q[k]]
         /\ \A k \in Range(G) : Q[k] = IF k = key THEN <<row>> ELSE R[k]
    BY <1>2, <2>1, <2>10
  <2>12. \A k \in Range(G) : Q[k] \in Seq(TreeRows) /\ Q[k] # <<>>
    <3>1. <<row>> \in Seq(TreeRows) /\ <<row>> # <<>>
      OBVIOUS
    <3> QED BY <1>2, <2>10, <2>11, <3>1
  <2>13. LeafOK(new) /\ new.keys = G /\ new.rows = Q /\ new.next = leaf.next
    <3>1. Range(G) \subseteq TreeKeys
      BY <1>2, <2>10
    <3> QED BY <1>2, <2>2, <2>9, <2>11, <2>12, <3>1, LeafIs
  <2>14. RowsWith(RowsIn(leaf, key), row) = <<row>>
    <3>1. RowsIn(leaf, key) = <<>> /\ Range(<<>>) = {} /\ Append(<<>>, row) = <<row>>
      BY <1>1, <1>4 DEF RowsIn, Range
    <3> QED BY <3>1 DEF RowsWith
  <2>15. \A x : RowsIn(new, x) = IF x = key THEN RowsWith(RowsIn(leaf, key), row) ELSE RowsIn(leaf, x)
    BY <1>1, <2>10, <2>11, <2>13, <2>14 DEF RowsIn
  <2> QED BY <1>1, <2>10, <2>13, <2>15
<1> QED BY <1>3, <1>4

\* retain keeps a sequence of rows.
LEMMA OtherRowsType ==
  ASSUME NEW rows \in Seq(TreeRows), NEW row
  PROVE  OtherRows(rows, row) \in Seq(TreeRows)
<1> DEFINE ss == [i \in DOMAIN rows |-> IF rows[i] = row THEN <<>> ELSE <<rows[i]>>]
           n == Len(rows)
<1>1. n \in Nat /\ DOMAIN rows = 1 .. n /\ \A i \in 1 .. n : rows[i] \in TreeRows
  OBVIOUS
<1>2. Parts(ss, n, TreeRows)
  <2>1. ss \in Seq(Seq(TreeRows)) /\ Len(ss) = n
    <3>1. \A i \in 1 .. n : ss[i] \in Seq(TreeRows)
      BY <1>1
    <3>2. ss = [i \in 1 .. n |-> ss[i]]
      BY <1>1
    <3> HIDE DEF ss, n
    <3> QED BY <1>1, <3>1, <3>2
  <2>2. \A i \in 1 .. n : ss[i] \in Seq(TreeRows)
    BY <1>1
  <2>3. n = 0 => ss = <<>>
    <3> HIDE DEF ss, n
    <3> QED BY <2>1, EmptySeq
  <2> HIDE DEF ss, n
  <2> QED BY <1>1, <2>1, <2>2, <2>3 DEF Parts
<1>3. FlattenSeq(ss) \in Seq(TreeRows)
  <2> HIDE DEF ss, n
  <2> QED BY <1>2, FlatSums
<1> QED BY <1>3 DEF OtherRows

\* A removal from a leaf.
LEMMA WithoutRowDrops ==
  ASSUME NEW leaf, LeafOK(leaf), NEW key \in Range(leaf.keys), NEW row
  PROVE  LET new == WithoutRow(leaf, key, row)
         IN  /\ LeafOK(new) /\ new.next = leaf.next /\ Range(new.keys) \subseteq Range(leaf.keys)
             /\ \A x : RowsIn(new, x) = IF x = key THEN OtherRows(RowsIn(leaf, key), row)
                                        ELSE RowsIn(leaf, x)
<1>1. PICK K, R, new : K = leaf.keys /\ R = leaf.rows /\ new = WithoutRow(leaf, key, row)
  OBVIOUS
<1>2. /\ Ascending(K) /\ Range(K) \subseteq TreeKeys /\ leaf.next \in Int /\ key \in Int
      /\ R = [k \in Range(K) |-> R[k]] /\ key \in Range(K)
      /\ \A k \in Range(K) : R[k] \in Seq(TreeRows) /\ R[k] # <<>>
  BY <1>1, TreeAssumption DEF LeafOK
<1>3. PICK left : left = OtherRows(R[key], row)
  OBVIOUS
<1>4. left \in Seq(TreeRows) /\ RowsIn(leaf, key) = R[key]
  BY <1>1, <1>2, <1>3, OtherRowsType DEF RowsIn
<1>5. CASE left # <<>>
  <2>1. PICK Q : Q = [R EXCEPT ![key] = left]
    OBVIOUS
  <2>2. new = Leaf(K, Q, leaf.next)
    BY <1>1, <1>3, <1>5, <2>1 DEF WithoutRow
  <2>3. Q = [k \in Range(K) |-> IF k = key THEN left ELSE R[k]]
    BY <1>2, <2>1
  <2>4. /\ Q = [k \in Range(K) |-> Q[k]]
        /\ \A k \in Range(K) : Q[k] = IF k = key THEN left ELSE R[k]
    BY <2>3
  <2>5. \A k \in Range(K) : Q[k] \in Seq(TreeRows) /\ Q[k] # <<>>
    BY <1>2, <1>4, <1>5, <2>4
  <2>6. LeafOK(new) /\ new.keys = K /\ new.rows = Q /\ new.next = leaf.next
    BY <1>2, <2>2, <2>4, <2>5, LeafIs
  <2>7. \A x : RowsIn(new, x) = IF x = key THEN left ELSE RowsIn(leaf, x)
    BY <1>1, <1>2, <2>4, <2>6 DEF RowsIn
  <2> QED BY <1>1, <1>3, <1>4, <2>6, <2>7
<1>6. CASE left = <<>>
  <2>1. PICK p, G, Q : p = Before(K, key) /\ G = RemoveAt(K, p + 1) /\ Q = Restrict(R, DOMAIN R \ {key})
    OBVIOUS
  <2>2. new = Leaf(G, Q, leaf.next)
    BY <1>1, <1>3, <1>6, <2>1 DEF WithoutRow
  <2>3. PICK n : n = Len(K)
    OBVIOUS
  <2>4. /\ K \in Seq(Int) /\ n \in Nat /\ DOMAIN K = 1 .. n
        /\ \A i, j \in 1 .. n : i < j => K[i] < K[j]
        /\ \A i \in 1 .. n : K[i] \in Int
    BY <1>2, <2>3 DEF Ascending
  <2>5. p \in 0 .. n /\ \A i \in 1 .. n : K[i] < key <=> i <= p
    BY <1>2, <2>1, <2>3, BeforeCounts
  <2>6. PICK q \in 1 .. n : K[q] = key
    BY <1>2, <2>4 DEF Range
  <2>7. q = p + 1
    <3>1. ~(q <= p)
      BY <1>2, <2>5, <2>6
    <3>2. ASSUME p + 1 < q PROVE FALSE
      <4>1. p + 1 \in 1 .. n /\ ~(p + 1 <= p)
        BY <2>4, <2>5, <2>6, <3>2
      <4>2. ~(K[p + 1] < key)
        BY <2>5, <4>1
      <4> QED BY <2>4, <2>6, <3>2, <4>1, <4>2
    <3> QED BY <2>5, <2>6, <3>1, <3>2
  <2>8. /\ G \in Seq(Int) /\ Len(G) = n - 1
        /\ \A i \in 1 .. n - 1 : G[i] = IF i < q THEN K[i] ELSE K[i + 1]
    <3>1. PICK Z : Z = Int
      OBVIOUS
    <3>2. K \in Seq(Z) /\ q \in 1 .. Len(K) /\ G = RemoveAt(K, q)
      BY <2>1, <2>3, <2>4, <2>7, <3>1
    <3>3. /\ RemoveAt(K, q) \in Seq(Z) /\ Len(RemoveAt(K, q)) = Len(K) - 1
          /\ \A i \in 1 .. Len(K) - 1 : RemoveAt(K, q)[i] = IF i < q THEN K[i] ELSE K[i + 1]
      BY ONLY <3>2, RemoveAtIs
    <3> QED BY ONLY <2>3, <3>1, <3>2, <3>3
  <2>9. \A i \in 1 .. n - 1 : /\ i < q => i \in 1 .. n /\ G[i] = K[i]
                              /\ ~(i < q) => i + 1 \in 1 .. n /\ i + 1 > q /\ G[i] = K[i + 1]
    BY <2>4, <2>6, <2>8
  <2>10. Ascending(G)
    <3>1. ASSUME NEW i \in 1 .. n - 1, NEW j \in 1 .. n - 1, i < j PROVE G[i] < G[j]
      <4>1. CASE j < q
        <5>1. i < q
          BY <2>6, <3>1, <4>1
        <5> QED BY <2>4, <2>9, <3>1, <4>1, <5>1
      <4>2. CASE ~(j < q) /\ i < q
        <5>1. i < j + 1
          BY <3>1
        <5> QED BY <2>4, <2>9, <4>2, <5>1
      <4>3. CASE ~(j < q) /\ ~(i < q)
        <5>1. i + 1 < j + 1
          BY <3>1
        <5> QED BY <2>4, <2>9, <4>3, <5>1
      <4> QED BY <4>1, <4>2, <4>3
    <3> QED BY <2>8, <3>1 DEF Ascending
  <2>11. \A i \in 1 .. n : i # q => K[i] # key
    <3> SUFFICES ASSUME NEW i \in 1 .. n, i # q, K[i] = K[q] PROVE FALSE
      BY <2>6
    <3>1. i < q \/ q < i
      BY <2>6
    <3> QED BY <2>4, <3>1
  <2>12. Range(G) = Range(K) \ {key}
    <3>1. ASSUME NEW i \in 1 .. n - 1 PROVE G[i] \in Range(K) \ {key}
      <4>1. CASE i < q
        <5>1. i \in 1 .. n /\ G[i] = K[i] /\ i # q
          BY <2>6, <2>9, <4>1
        <5> QED BY <2>4, <2>11, <5>1 DEF Range
      <4>2. CASE ~(i < q)
        <5>1. PICK m : m = i + 1
          OBVIOUS
        <5>2. m \in 1 .. n /\ G[i] = K[m] /\ m # q
          BY <2>6, <2>9, <4>2, <5>1
        <5> QED BY <2>4, <2>11, <5>2 DEF Range
      <4> QED BY <4>1, <4>2
    <3>2. ASSUME NEW i \in 1 .. n, i # q PROVE K[i] \in Range(G)
      <4>1. CASE i < q
        <5>1. i \in 1 .. n - 1 /\ G[i] = K[i]
          BY <2>4, <2>6, <2>9, <4>1
        <5> QED BY <2>8, <5>1 DEF Range
      <4>2. CASE i > q
        <5>1. PICK m : m = i - 1
          OBVIOUS
        <5>2. m \in 1 .. n - 1 /\ ~(m < q) /\ m + 1 = i
          BY <2>4, <2>6, <4>2, <5>1
        <5>3. G[m] = K[i]
          BY <2>9, <5>2
        <5> QED BY <2>8, <5>2, <5>3 DEF Range
      <4> QED BY <2>6, <3>2, <4>1, <4>2
    <3>3. Range(G) = {G[i] : i \in 1 .. n - 1} /\ Range(K) = {K[i] : i \in 1 .. n}
      BY <2>4, <2>8 DEF Range
    <3> QED BY <2>6, <3>1, <3>2, <3>3
  <2>13. /\ Q = [k \in Range(G) |-> Q[k]] /\ \A k \in Range(G) : Q[k] = R[k]
    <3>1. DOMAIN R = Range(K)
      BY <1>2
    <3>2. Q = [k \in Range(G) |-> R[k]]
      BY <2>1, <2>12, <3>1 DEF Restrict
    <3> QED BY <3>2
  <2>14. LeafOK(new) /\ new.keys = G /\ new.rows = Q /\ new.next = leaf.next
    <3>1. Range(G) \subseteq TreeKeys /\ \A k \in Range(G) : Q[k] \in Seq(TreeRows) /\ Q[k] # <<>>
      BY <1>2, <2>12, <2>13
    <3> QED BY <1>2, <2>2, <2>10, <2>13, <3>1, LeafIs
  <2>15. \A x : RowsIn(new, x) = IF x = key THEN left ELSE RowsIn(leaf, x)
    BY <1>1, <1>6, <2>12, <2>13, <2>14 DEF RowsIn
  <2> QED BY <1>1, <1>3, <1>4, <2>12, <2>14, <2>15
<1> QED BY <1>5, <1>6

\* The halves of a leaf: each key is in the half its rows are looked up in.
LEMMA LeafHalvesKeep ==
  ASSUME NEW leaf, LeafOK(leaf), Len(leaf.keys) > 1, NEW new \in Int
  PROVE  LET h == Halves(leaf, new)
         IN  /\ LeafOK(h.left) /\ LeafOK(h.right) /\ h.sep \in Range(leaf.keys)
             /\ h.left.next = new /\ h.right.next = leaf.next
             /\ \A x \in Range(h.left.keys) : x \in Range(leaf.keys) /\ x < h.sep
             /\ \A x \in Range(h.right.keys) : x \in Range(leaf.keys) /\ x >= h.sep
             /\ \A x \in Int : RowsIn(IF x < h.sep THEN h.left ELSE h.right, x) = RowsIn(leaf, x)
             /\ \E x \in Range(leaf.keys) : x < h.sep
<1>1. PICK K, R, n, mid : K = leaf.keys /\ R = leaf.rows /\ n = Len(K) /\ mid = n \div 2
  OBVIOUS
<1>2. /\ Ascending(K) /\ Range(K) \subseteq TreeKeys /\ leaf.next \in Int /\ K \in Seq(Int)
      /\ R = [k \in Range(K) |-> R[k]] /\ n \in Nat /\ DOMAIN K = 1 .. n
      /\ \A k \in Range(K) : R[k] \in Seq(TreeRows) /\ R[k] # <<>>
      /\ \A i, j \in 1 .. n : i < j => K[i] < K[j]
      /\ \A i \in 1 .. n : K[i] \in Int
  BY <1>1, TreeAssumption DEF LeafOK, Ascending
<1>3. mid \in Nat /\ 1 <= mid /\ mid + 1 <= n /\ n \in Nat /\ n = Len(K)
  <2>1. n \in Nat /\ n > 1 /\ mid = n \div 2 /\ n = Len(K)
    BY <1>1, <1>2
  <2> QED BY ONLY <2>1
<1>4. PICK s, KL, KR : s = K[mid + 1] /\ KL = SubSeq(K, 1, mid) /\ KR = SubSeq(K, mid + 1, n)
  OBVIOUS
<1>5. PICK RL, RR : RL = Restrict(R, Range(KL)) /\ RR = Restrict(R, Range(KR))
  OBVIOUS
<1>6. Halves(leaf, new) = [left |-> Leaf(KL, RL, new), right |-> Leaf(KR, RR, leaf.next), sep |-> s]
  BY <1>1, <1>4, <1>5, LeafFacts DEF Halves, LeftLink
<1>7. /\ 1 \in 1 .. Len(K) + 1 /\ mid \in 0 .. Len(K) /\ 1 <= mid + 1
      /\ mid + 1 \in 1 .. Len(K) + 1 /\ n \in 0 .. Len(K) /\ mid + 1 <= n + 1
  BY ONLY <1>3
<1>8. HasPart(KL, K, 1, mid) /\ HasPart(KR, K, mid + 1, n)
  <2>1. K \in Seq(Int)
    BY <1>2
  <2> QED BY ONLY <1>4, <1>7, <2>1, PartInt
<1>9. /\ Ascending(KL) /\ Ascending(KR)
      /\ \A x : x \in Range(KL) <=> \E i \in 1 .. mid : x = K[i]
      /\ \A x : x \in Range(KR) <=> \E i \in mid + 1 .. n : x = K[i]
  <2>1. Ascending(K)
    BY <1>2
  <2> QED BY ONLY <1>7, <1>8, <2>1, PartAscends
<1>10. s \in Int /\ s \in Range(K) /\ K[mid] < s /\ K[mid] \in Range(K)
  <2>1. mid < mid + 1 /\ mid \in 1 .. n /\ mid + 1 \in 1 .. n
    BY <1>3
  <2>2. K[mid] < K[mid + 1] /\ K[mid + 1] \in Int
    BY <1>2, <2>1
  <2>3. K[mid] \in Range(K) /\ K[mid + 1] \in Range(K)
    BY <1>2, <2>1 DEF Range
  <2> QED BY <1>4, <2>2, <2>3
<1>11. \A i \in 1 .. n : K[i] < s <=> i <= mid
  <2> SUFFICES ASSUME NEW i \in 1 .. n PROVE K[i] < s <=> i <= mid
    OBVIOUS
  <2>1. mid + 1 \in 1 .. n /\ K[i] \in Int
    BY <1>2, <1>3
  <2>2. i <= mid => i < mid + 1
    BY <1>3
  <2>3. ~(i <= mid) => i = mid + 1 \/ mid + 1 < i
    BY <1>3
  <2>4. i < mid + 1 => K[i] < s
    BY <1>2, <1>4, <2>1
  <2>5. mid + 1 < i => s < K[i]
    BY <1>2, <1>4, <2>1
  <2> QED BY <1>4, <1>10, <2>1, <2>2, <2>3, <2>4, <2>5
<1>12. /\ \A x : x \in Range(KL) <=> x \in Range(K) /\ x < s
       /\ \A x : x \in Range(KR) <=> x \in Range(K) /\ x >= s
  <2>1. \A x : x \in Range(K) <=> \E i \in 1 .. n : x = K[i]
    BY <1>2 DEF Range
  <2>2. \A i \in 1 .. mid : i \in 1 .. n /\ K[i] < s
    BY <1>3, <1>11
  <2>3. \A i \in mid + 1 .. n : i \in 1 .. n /\ K[i] \in Int /\ ~(K[i] < s)
    BY <1>2, <1>3, <1>11
  <2>4. \A i \in 1 .. n : /\ K[i] < s => i \in 1 .. mid
                          /\ K[i] >= s => i \in mid + 1 .. n
    <3> TAKE i \in 1 .. n
    <3>1. K[i] \in Int
      BY <1>2
    <3> QED BY <1>3, <1>10, <1>11, <3>1
  <2>5. \A x : x \in Range(KL) <=> x \in Range(K) /\ x < s
    BY <1>9, <2>1, <2>2, <2>4
  <2>6. \A x : x \in Range(KR) <=> x \in Range(K) /\ x >= s
    BY <1>9, <1>10, <2>1, <2>3, <2>4
  <2> QED BY <2>5, <2>6
<1>13. /\ LeafOK(Leaf(KL, RL, new)) /\ Leaf(KL, RL, new).keys = KL
       /\ Leaf(KL, RL, new).rows = RL /\ Leaf(KL, RL, new).next = new
  <2>1. RL = [k \in Range(KL) |-> RL[k]] /\ \A k \in Range(KL) : RL[k] = R[k]
    BY <1>5 DEF Restrict
  <2>2. Range(KL) \subseteq Range(K)
    BY <1>12
  <2>3. /\ Range(KL) \subseteq TreeKeys
        /\ \A k \in Range(KL) : RL[k] \in Seq(TreeRows) /\ RL[k] # <<>>
    BY <1>2, <2>1, <2>2
  <2>4. Ascending(KL) /\ new \in Int
    BY <1>2, <1>9
  <2> QED BY ONLY <2>1, <2>3, <2>4, LeafIs
<1>14. /\ LeafOK(Leaf(KR, RR, leaf.next)) /\ Leaf(KR, RR, leaf.next).keys = KR
       /\ Leaf(KR, RR, leaf.next).rows = RR /\ Leaf(KR, RR, leaf.next).next = leaf.next
  <2>1. RR = [k \in Range(KR) |-> RR[k]] /\ \A k \in Range(KR) : RR[k] = R[k]
    BY <1>5 DEF Restrict
  <2>2. Range(KR) \subseteq Range(K)
    BY <1>12
  <2>3. /\ Range(KR) \subseteq TreeKeys
        /\ \A k \in Range(KR) : RR[k] \in Seq(TreeRows) /\ RR[k] # <<>>
    BY <1>2, <2>1, <2>2
  <2>4. Ascending(KR) /\ leaf.next \in Int
    BY <1>2, <1>9
  <2> QED BY ONLY <2>1, <2>3, <2>4, LeafIs
<1>15. PICK h : h = Halves(leaf, new)
  OBVIOUS
<1>16. h.left = Leaf(KL, RL, new) /\ h.right = Leaf(KR, RR, leaf.next) /\ h.sep = s
  BY <1>6, <1>15
<1>17. ASSUME NEW x \in Int
       PROVE  RowsIn(IF x < h.sep THEN h.left ELSE h.right, x) = RowsIn(leaf, x)
  <2>1. CASE x < s
    <3>1. x \in Range(KL) <=> x \in Range(K)
      BY <1>12, <2>1
    <3>2. x \in Range(KL) => RL[x] = R[x]
      BY <1>5 DEF Restrict
    <3> QED BY <1>1, <1>13, <1>16, <2>1, <3>1, <3>2 DEF RowsIn
  <2>2. CASE ~(x < s)
    <3>1. x \in Range(KR) <=> x \in Range(K)
      BY <1>10, <1>12, <2>2
    <3>2. x \in Range(KR) => RR[x] = R[x]
      BY <1>5 DEF Restrict
    <3> QED BY <1>1, <1>14, <1>16, <2>2, <3>1, <3>2 DEF RowsIn
  <2> QED BY <2>1, <2>2
<1>18. /\ LeafOK(h.left) /\ LeafOK(h.right) /\ h.sep \in Range(leaf.keys)
       /\ h.left.next = new /\ h.right.next = leaf.next /\ \E x \in Range(leaf.keys) : x < h.sep
  BY <1>1, <1>10, <1>13, <1>14, <1>16
<1>19. /\ \A x \in Range(h.left.keys) : x \in Range(leaf.keys) /\ x < h.sep
       /\ \A x \in Range(h.right.keys) : x \in Range(leaf.keys) /\ x >= h.sep
  BY <1>1, <1>12, <1>13, <1>14, <1>16
<1> QED BY <1>15, <1>17, <1>18, <1>19

-----------------------------------------------------------------------------
(* Whole trees.  at[k][j] is the page of level j that holds the key k, the *)
(* leaves at level 1, and via[k][j] the page its parent leads to: another  *)
(* one as long as the parent does not know of a split.                     *)

\* The pages of levels are pages, and ids are given out once.
Placed(P, N, H, at) ==
  /\ H \in Nat \ {0} /\ N \in Nat /\ DOMAIN P \subseteq 0 .. N - 1
  /\ at \in [Int -> [1 .. H -> DOMAIN P]]

\* The root is the top, and an inner node leads on.
Routed(P, H, r, at, via) ==
  /\ \A k \in Int : via[k][H] = r
  /\ \A k \in Int, j \in 1 .. H - 1 :
       /\ InnerOK(P[at[k][j + 1]]) /\ Range(P[at[k][j + 1]].children) \subseteq DOMAIN P
       /\ ChildFor(P[at[k][j + 1]], k) = via[k][j]

\* A page is on one level.
Leveled(H, at) == \A k, m \in Int, i, j \in 1 .. H : at[k][i] = at[m][j] => i = j

\* A page has one parent.
OneParent(H, at, via) ==
  \A k, m \in Int, j \in 1 .. H - 1 : via[k][j] = via[m][j] => at[k][j + 1] = at[m][j + 1]

\* The keys of a page are among those it holds.
AtHomeIn(P, H, at) ==
  \A k \in Int, j \in 1 .. H : \A x \in Range(P[at[k][j]].keys) : x \in Int /\ at[x][j] = at[k][j]

\* The keys of a leaf are next to each other, and its link leads to the leaf of
\* the first key behind them.
Linked(P, at) ==
  /\ \A k, l, m \in Int : k < l /\ l < m /\ at[k][1] = at[m][1] => at[l][1] = at[k][1]
  /\ \A k \in Int : P[at[k][1]].next = NoLeaf => \A m \in Int : m >= k => at[m][1] = at[k][1]
  /\ \A k \in Int : P[at[k][1]].next # NoLeaf =>
       /\ P[at[k][1]].next # at[k][1]
       /\ \E x \in Int : at[x - 1][1] = at[k][1] /\ at[x][1] = P[at[k][1]].next

Sane(P, N, H, r, at, via) ==
  /\ Placed(P, N, H, at) /\ Routed(P, H, r, at, via) /\ \A k \in Int : LeafOK(P[at[k][1]])
  /\ Leveled(H, at) /\ OneParent(H, at, via) /\ AtHomeIn(P, H, at) /\ Linked(P, at)

\* The page `id` of level n was split at `sep`, and its parent does not know.
Cut(via, H, n, id, sep, right) ==
  [k \in Int |-> [j \in 1 .. H |->
     IF j = n /\ via[k][n] = id /\ k >= sep THEN right ELSE via[k][j]]]

Halved(P, H, at, via, n, id, sep, right) ==
  /\ n \in 1 .. H /\ at = Cut(via, H, n, id, sep, right) /\ sep \in Int /\ right \in Int
  /\ via[sep][n] = id /\ \E x \in Int : x < sep /\ via[x][n] = id
  /\ \A k \in Int, j \in 1 .. H : via[k][j] # right
  /\ n < H => \A k \in Int : right \notin Range(P[at[k][n + 1]].children)

RowsAt(P, at, k) == RowsIn(P[at[k][1]], k)

\* Types of the ghosts.
LEMMA PlacedFacts ==
  ASSUME NEW P, NEW N, NEW H, NEW at, Placed(P, N, H, at)
  PROVE  /\ H \in Nat /\ 1 \in 1 .. H /\ H \in 1 .. H /\ N \in Nat /\ N \notin DOMAIN P /\ NoLeaf \notin DOMAIN P
         /\ \A k \in Int, j \in 1 .. H : at[k][j] \in DOMAIN P /\ at[k][j] \in Nat /\ at[k][j] # N
         /\ \A j \in 1 .. H - 1 : j \in 1 .. H /\ j + 1 \in 1 .. H /\ j + 1 # 1
<1>1. H \in Nat /\ H # 0 /\ N \in Nat /\ DOMAIN P \subseteq 0 .. N - 1
  BY DEF Placed
<1>2. \A k \in Int, j \in 1 .. H : at[k][j] \in DOMAIN P
  BY DEF Placed
<1>3. N \notin DOMAIN P /\ NoLeaf \notin DOMAIN P /\ \A i \in DOMAIN P : i \in Nat
  BY <1>1 DEF NoLeaf
<1>4. \A j \in 1 .. H - 1 : j \in 1 .. H /\ j + 1 \in 1 .. H /\ j + 1 # 1
  BY <1>1
<1> QED BY <1>1, <1>2, <1>3, <1>4

\* A leaf is replaced by one with the same link, and keys it holds.
LEMMA PutLeaf ==
  ASSUME NEW P, NEW N, NEW H, NEW r, NEW at, Sane(P, N, H, r, at, at),
         NEW q \in Int, NEW nd, LeafOK(nd), nd.next = P[at[q][1]].next,
         \A x \in Range(nd.keys) : at[x][1] = at[q][1],
         NEW Q, DOMAIN Q = DOMAIN P, \A i \in DOMAIN P : Q[i] = IF i = at[q][1] THEN nd ELSE P[i]
  PROVE  Sane(Q, N, H, r, at, at)
<1>1. PICK id : id = at[q][1]
  OBVIOUS
<1>2. /\ Placed(P, N, H, at) /\ Routed(P, H, r, at, at) /\ \A k \in Int : LeafOK(P[at[k][1]])
      /\ Leveled(H, at) /\ OneParent(H, at, at) /\ AtHomeIn(P, H, at) /\ Linked(P, at)
  BY DEF Sane
<1>3. /\ \A k \in Int, j \in 1 .. H : at[k][j] \in DOMAIN P
      /\ \A j \in 1 .. H - 1 : j \in 1 .. H /\ j + 1 \in 1 .. H /\ j + 1 # 1
      /\ 1 \in 1 .. H
  BY <1>2, PlacedFacts
<1>4. \A k \in Int, j \in 1 .. H : Q[at[k][j]] = IF at[k][j] = id THEN nd ELSE P[at[k][j]]
  BY <1>1, <1>3
<1>5. \A k \in Int, j \in 1 .. H : at[k][j] = id => j = 1
  BY <1>1, <1>2, <1>3 DEF Leveled
<1>6. Placed(Q, N, H, at)
  BY <1>2 DEF Placed
<1>7. Routed(Q, H, r, at, at)
  <2>1. \A k \in Int, j \in 1 .. H - 1 : Q[at[k][j + 1]] = P[at[k][j + 1]]
    BY <1>3, <1>4, <1>5
  <2> QED BY <1>2, <2>1 DEF Routed
<1>8. \A k \in Int : LeafOK(Q[at[k][1]]) /\ Q[at[k][1]].next = P[at[k][1]].next
  BY <1>1, <1>2, <1>3, <1>4
<1>9. AtHomeIn(Q, H, at)
  <2> SUFFICES ASSUME NEW k \in Int, NEW j \in 1 .. H, NEW x \in Range(Q[at[k][j]].keys)
               PROVE  x \in Int /\ at[x][j] = at[k][j]
    BY DEF AtHomeIn
  <2>1. CASE at[k][j] = id
    <3>1. j = 1 /\ Q[at[k][j]] = nd
      BY <1>4, <1>5, <2>1
    <3>2. x \in Int
      BY <3>1, LeafFacts
    <3> QED BY <1>1, <2>1, <3>1, <3>2
  <2>2. CASE at[k][j] # id
    BY <1>2, <1>4, <2>2 DEF AtHomeIn
  <2> QED BY <2>1, <2>2
<1>10. Linked(Q, at)
  BY <1>2, <1>8 DEF Linked
<1> QED BY <1>2, <1>6, <1>7, <1>8, <1>9, <1>10 DEF Sane

\* The parent of a page that was split learns of it.
LEMMA PutParent ==
  ASSUME NEW P, NEW N, NEW H, NEW r, NEW at, NEW via, Sane(P, N, H, r, at, via),
         NEW n, NEW id, NEW sep, NEW right, Halved(P, H, at, via, n, id, sep, right), n < H,
         NEW Q, DOMAIN Q = DOMAIN P,
         \A i \in DOMAIN P : Q[i] = IF i = at[sep][n + 1]
                                    THEN WithChild(P[i], [right |-> right, sep |-> sep]) ELSE P[i]
  PROVE  /\ Sane(Q, N, H, r, at, at)
         /\ \A k \in Int : Q[at[k][1]] = P[at[k][1]]
<1>1. PICK pid, nd : pid = at[sep][n + 1] /\ nd = WithChild(P[pid], [right |-> right, sep |-> sep])
  OBVIOUS
<1>2. /\ Placed(P, N, H, at) /\ Routed(P, H, r, at, via) /\ \A k \in Int : LeafOK(P[at[k][1]])
      /\ Leveled(H, at) /\ OneParent(H, at, via) /\ AtHomeIn(P, H, at) /\ Linked(P, at)
  BY DEF Sane
<1>3. /\ \A k \in Int, j \in 1 .. H : at[k][j] \in DOMAIN P
      /\ \A j \in 1 .. H - 1 : j \in 1 .. H /\ j + 1 \in 1 .. H /\ j + 1 # 1
      /\ 1 \in 1 .. H /\ H \in Nat /\ H \in 1 .. H
  BY <1>2, PlacedFacts
<1>4. /\ n \in 1 .. H - 1 /\ n + 1 \in 1 .. H /\ n \in 1 .. H /\ n # H /\ sep \in Int /\ right \in Int /\ via[sep][n] = id
      /\ \A k \in Int : right \notin Range(P[at[k][n + 1]].children)
      /\ \A k \in Int, j \in 1 .. H : via[k][j] # right
      /\ \A k \in Int, j \in 1 .. H :
           at[k][j] = IF j = n /\ via[k][n] = id /\ k >= sep THEN right ELSE via[k][j]
  BY <1>3 DEF Halved, Cut
<1>5. PICK x \in Int : x < sep /\ via[x][n] = id
  BY DEF Halved
<1>6. /\ InnerOK(P[pid]) /\ Range(P[pid].children) \subseteq DOMAIN P /\ ChildFor(P[pid], sep) = id
      /\ at[x][n + 1] = pid /\ ChildFor(P[pid], x) = id /\ right \notin Range(P[pid].children)
  <2>1. \A k \in Int : via[k][n] = id => at[k][n + 1] = pid
    BY <1>1, <1>2, <1>4 DEF OneParent
  <2>2. \A k \in Int : /\ InnerOK(P[at[k][n + 1]]) /\ Range(P[at[k][n + 1]].children) \subseteq DOMAIN P
                       /\ ChildFor(P[at[k][n + 1]], k) = via[k][n]
    BY <1>2, <1>4 DEF Routed
  <2>3. ChildFor(P[pid], sep) = id /\ ChildFor(P[pid], x) = id /\ at[x][n + 1] = pid
    BY <1>1, <1>4, <1>5, <2>1, <2>2
  <2> QED BY <1>1, <1>4, <2>2, <2>3
<1>6a. \A k \in Int : via[k][n] = id => at[k][n + 1] = pid
  BY <1>1, <1>2, <1>4 DEF OneParent
<1>7. /\ InnerOK(nd) /\ Range(nd.keys) = Range(P[pid].keys) \cup {sep}
      /\ Range(nd.children) \subseteq Range(P[pid].children) \cup {right}
      /\ \A k \in Int : ChildFor(nd, k) = IF k >= sep /\ ChildFor(P[pid], k) = id
                                          THEN right ELSE ChildFor(P[pid], k)
  <2>1. PICK p : p = P[pid]
    OBVIOUS
  <2>2. /\ InnerOK(p) /\ sep \in Int /\ right \in Int /\ right \notin Range(p.children)
        /\ x \in Int /\ x < sep /\ ChildFor(p, x) = ChildFor(p, sep)
    BY <1>4, <1>5, <1>6, <2>1
  <2>3. /\ InnerOK(nd) /\ Range(nd.keys) = Range(p.keys) \cup {sep}
        /\ Range(nd.children) \subseteq Range(p.children) \cup {right}
        /\ \A k \in Int : ChildFor(nd, k) = IF k >= sep /\ ChildFor(p, k) = ChildFor(p, sep)
                                            THEN right ELSE ChildFor(p, k)
    <3>1. nd = WithChild(p, [right |-> right, sep |-> sep])
      BY <1>1, <2>1
    <3> QED BY ONLY <2>2, <3>1, WithChildRoutes
  <2> QED BY <1>6, <2>1, <2>3
<1>8. right \in DOMAIN P
  <2>1. at[sep][n] = right
    BY <1>4
  <2> QED BY <1>3, <1>4, <2>1
<1>9. \A k \in Int, j \in 1 .. H : Q[at[k][j]] = IF at[k][j] = pid THEN nd ELSE P[at[k][j]]
  BY <1>1, <1>3
<1>10. \A k \in Int, j \in 1 .. H : at[k][j] = pid => j = n + 1
  <2> SUFFICES ASSUME NEW k \in Int, NEW j \in 1 .. H, at[k][j] = at[sep][n + 1] PROVE j = n + 1
    BY <1>1
  <2>1. sep \in Int /\ n + 1 \in 1 .. H
    BY <1>4
  <2> QED BY <1>2, <2>1 DEF Leveled
<1>11. \A k \in Int : Q[at[k][1]] = P[at[k][1]]
  BY <1>3, <1>4, <1>9, <1>10
<1>12. Placed(Q, N, H, at)
  BY <1>2 DEF Placed
<1>13. Routed(Q, H, r, at, at)
  <2>1. \A k \in Int : at[k][H] = r
    BY <1>2, <1>3, <1>4 DEF Routed
  <2>2. ASSUME NEW k \in Int, NEW j \in 1 .. H - 1
        PROVE  /\ InnerOK(Q[at[k][j + 1]]) /\ Range(Q[at[k][j + 1]].children) \subseteq DOMAIN Q
               /\ ChildFor(Q[at[k][j + 1]], k) = at[k][j]
    <3>1. /\ InnerOK(P[at[k][j + 1]]) /\ Range(P[at[k][j + 1]].children) \subseteq DOMAIN P
          /\ ChildFor(P[at[k][j + 1]], k) = via[k][j] /\ j + 1 \in 1 .. H /\ j \in 1 .. H
      BY <1>2, <1>3 DEF Routed
    <3>2. CASE at[k][j + 1] = pid
      <4>1. j + 1 = n + 1 /\ Q[at[k][j + 1]] = nd
        BY <1>9, <1>10, <3>1, <3>2
      <4>2. j = n
        BY <1>4, <4>1
      <4> QED BY <1>4, <1>6, <1>7, <1>8, <3>1, <3>2, <4>1, <4>2
    <3>3. CASE at[k][j + 1] # pid
      <4>1. Q[at[k][j + 1]] = P[at[k][j + 1]]
        BY <1>9, <3>1, <3>3
      <4>2. at[k][j] = via[k][j]
        <5>1. ~(j = n /\ via[k][n] = id)
          BY <1>6a, <3>3
        <5> QED BY <1>4, <3>1, <5>1
      <4> QED BY <3>1, <4>1, <4>2
    <3> QED BY <3>2, <3>3
  <2> QED BY <2>1, <2>2 DEF Routed
<1>14. OneParent(H, at, at)
  <2> SUFFICES ASSUME NEW k \in Int, NEW m \in Int, NEW j \in 1 .. H - 1, at[k][j] = at[m][j]
               PROVE  at[k][j + 1] = at[m][j + 1]
    BY DEF OneParent
  <2>1. j \in 1 .. H
    BY <1>3
  <2>2. via[k][j] = via[m][j]
    <3>1. CASE j = n
      BY <1>4, <2>1, <3>1
    <3>2. CASE j # n
      BY <1>4, <2>1, <3>2
    <3> QED BY <3>1, <3>2
  <2> QED BY <1>2, <2>2 DEF OneParent
<1>15. AtHomeIn(Q, H, at)
  <2> SUFFICES ASSUME NEW k \in Int, NEW j \in 1 .. H, NEW y \in Range(Q[at[k][j]].keys)
               PROVE  y \in Int /\ at[y][j] = at[k][j]
    BY DEF AtHomeIn
  <2>1. CASE at[k][j] = pid
    <3>1. j = n + 1 /\ Q[at[k][j]] = nd
      BY <1>9, <1>10, <2>1
    <3>2. CASE y = sep
      BY <1>1, <1>4, <2>1, <3>1, <3>2
    <3>3. CASE y \in Range(P[at[k][j]].keys)
      BY <1>2, <3>3 DEF AtHomeIn
    <3> QED BY <1>7, <2>1, <3>1, <3>2, <3>3
  <2>2. CASE at[k][j] # pid
    BY <1>2, <1>9, <2>2 DEF AtHomeIn
  <2> QED BY <2>1, <2>2
<1>16. Linked(Q, at)
  <2>1. \A k \in Int : Q[at[k][1]].next = P[at[k][1]].next
    BY <1>11
  <2> QED BY <1>2, <2>1 DEF Linked
<1> QED BY <1>2, <1>11, <1>12, <1>13, <1>14, <1>15, <1>16 DEF Sane

\* L and R are the halves of a page of level n, split at `sep`; R is the new page.
HalfPages(nd, new, n, L, R, sep) ==
  /\ sep \in Int /\ sep \in Range(nd.keys) /\ \E x \in Range(nd.keys) : x < sep
  /\ \A x \in Range(L.keys) : x \in Range(nd.keys) /\ x < sep
  /\ \A x \in Range(R.keys) : x \in Range(nd.keys) /\ x >= sep
  /\ n = 1 =>
       /\ LeafOK(L) /\ LeafOK(R) /\ L.next = new /\ R.next = nd.next
       /\ \A x \in Int : RowsIn(IF x < sep THEN L ELSE R, x) = RowsIn(nd, x)
  /\ n # 1 =>
       /\ InnerOK(L) /\ InnerOK(R)
       /\ Range(L.children) \subseteq Range(nd.children) /\ Range(R.children) \subseteq Range(nd.children)
       /\ \A k \in Int : ChildFor(IF k < sep THEN L ELSE R, k) = ChildFor(nd, k)
       /\ \A k, m \in Int : ChildFor(nd, k) = ChildFor(nd, m) => (k < sep <=> m < sep)

\* Q has, in place of the page of q on level n, its halves.
CutFrom(P, N, H, r, via, n, q, id, L, R, sep, Q, at) ==
  /\ Sane(P, N, H, r, via, via) /\ n \in 1 .. H /\ q \in Int /\ id = via[q][n]
  /\ HalfPages(P[id], N, n, L, R, sep)
  /\ DOMAIN Q = DOMAIN P \cup {N}
  /\ \A i \in DOMAIN Q : Q[i] = IF i = id THEN L ELSE IF i = N THEN R ELSE P[i]
  /\ at = Cut(via, H, n, id, sep, N)

\* A page is split: every key is led to the half it belongs to.
LEMMA CutPages ==
  ASSUME NEW P, NEW N, NEW H, NEW r, NEW via, NEW n, NEW q, NEW id, NEW L, NEW R, NEW sep,
         NEW Q, NEW at, CutFrom(P, N, H, r, via, n, q, id, L, R, sep, Q, at)
  PROVE  /\ Sane(Q, N + 1, H, r, at, via) /\ Halved(Q, H, at, via, n, id, sep, N)
         /\ \A k \in Int : RowsAt(Q, at, k) = RowsAt(P, via, k)
<1> SUFFICES ASSUME Sane(P, N, H, r, via, via), n \in 1 .. H, q \in Int, id = via[q][n],
                    HalfPages(P[id], N, n, L, R, sep), DOMAIN Q = DOMAIN P \cup {N},
                    \A i \in DOMAIN Q : Q[i] = IF i = id THEN L ELSE IF i = N THEN R ELSE P[i],
                    at = Cut(via, H, n, id, sep, N)
             PROVE  /\ Sane(Q, N + 1, H, r, at, via) /\ Halved(Q, H, at, via, n, id, sep, N)
                    /\ \A k \in Int : RowsAt(Q, at, k) = RowsAt(P, via, k)
  BY DEF CutFrom
<1>1. /\ Placed(P, N, H, via) /\ Routed(P, H, r, via, via) /\ \A k \in Int : LeafOK(P[via[k][1]])
      /\ Leveled(H, via) /\ OneParent(H, via, via) /\ AtHomeIn(P, H, via) /\ Linked(P, via)
  BY DEF Sane
<1>2. /\ \A k \in Int, j \in 1 .. H : via[k][j] \in DOMAIN P /\ via[k][j] # N
      /\ \A j \in 1 .. H - 1 : j \in 1 .. H /\ j + 1 \in 1 .. H /\ j + 1 # 1
      /\ 1 \in 1 .. H /\ H \in Nat /\ H \in 1 .. H /\ N \in Nat /\ N # NoLeaf /\ NoLeaf \notin DOMAIN P
      /\ N \notin DOMAIN P /\ H # 0
  <2>1. N # NoLeaf
    BY <1>1 DEF Placed, NoLeaf
  <2>2. H # 0
    BY <1>1 DEF Placed
  <2>3. /\ H \in Nat /\ 1 \in 1 .. H /\ H \in 1 .. H /\ N \in Nat /\ N \notin DOMAIN P /\ NoLeaf \notin DOMAIN P
        /\ \A k \in Int, j \in 1 .. H : via[k][j] \in DOMAIN P /\ via[k][j] \in Nat /\ via[k][j] # N
        /\ \A j \in 1 .. H - 1 : j \in 1 .. H /\ j + 1 \in 1 .. H /\ j + 1 # 1
    <3>1. Placed(P, N, H, via)
      BY <1>1
    <3> QED BY ONLY <3>1, PlacedFacts
  <2> QED BY ONLY <2>1, <2>2, <2>3
<1>3. /\ sep \in Int /\ sep \in Range(P[id].keys) /\ \E x \in Range(P[id].keys) : x < sep
      /\ \A x \in Range(L.keys) : x \in Range(P[id].keys) /\ x < sep
      /\ \A x \in Range(R.keys) : x \in Range(P[id].keys) /\ x >= sep
  BY DEF HalfPages
<1>4. \A x \in Range(P[id].keys) : x \in Int /\ via[x][n] = id
  BY <1>1 DEF AtHomeIn
<1>5. PICK low \in Int : low < sep /\ via[low][n] = id
  BY <1>3, <1>4
<1>6. via[sep][n] = id /\ id \in DOMAIN P /\ id # N
  BY <1>2, <1>3, <1>4
<1>7. /\ at = [k \in Int |-> [j \in 1 .. H |-> at[k][j]]]
      /\ \A k \in Int, j \in 1 .. H :
           at[k][j] = IF j = n /\ via[k][n] = id /\ k >= sep THEN N ELSE via[k][j]
  BY DEF Cut
<1>8. \A k \in Int, j \in 1 .. H :
        /\ j # n => at[k][j] = via[k][j] /\ at[k][j] # id /\ at[k][j] # N
        /\ at[k][j] = id <=> j = n /\ via[k][n] = id /\ k < sep
        /\ at[k][j] = N <=> j = n /\ via[k][n] = id /\ k >= sep
  <2> TAKE k \in Int, j \in 1 .. H
  <2>1. via[k][j] = id => j = n
    BY <1>1 DEF Leveled
  <2>2. k < sep <=> ~(k >= sep)
    BY <1>3
  <2> QED BY <1>2, <1>6, <1>7, <2>1, <2>2
<1>9. \A k \in Int, j \in 1 .. H : Q[at[k][j]] = IF at[k][j] = id THEN L ELSE IF at[k][j] = N THEN R
                                                ELSE P[via[k][j]]
  <2> TAKE k \in Int, j \in 1 .. H
  <2>1. at[k][j] # N => at[k][j] = via[k][j]
    BY <1>7
  <2> QED BY <1>2, <2>1
<1>10. Placed(Q, N + 1, H, at)
  <2>1. DOMAIN Q \subseteq 0 .. (N + 1) - 1 /\ N + 1 \in Nat
    <3>1. DOMAIN P \subseteq 0 .. N - 1 /\ N \in Nat
      BY <1>1, <1>2 DEF Placed
    <3>2. 0 .. N - 1 \subseteq 0 .. (N + 1) - 1 /\ N \in 0 .. (N + 1) - 1 /\ N + 1 \in Nat
      BY <3>1
    <3> QED BY <3>1, <3>2
  <2>2. \A k \in Int, j \in 1 .. H : at[k][j] \in DOMAIN Q
    BY <1>2, <1>7
  <2>3. at \in [Int -> [1 .. H -> DOMAIN Q]]
    <3>1. PICK D : D = DOMAIN Q
      OBVIOUS
    <3>2. \A k \in Int : [j \in 1 .. H |-> at[k][j]] \in [1 .. H -> D]
      BY <2>2, <3>1
    <3>3. [k \in Int |-> [j \in 1 .. H |-> at[k][j]]] \in [Int -> [1 .. H -> D]]
      BY <3>2
    <3> QED BY <1>7, <3>1, <3>3
  <2>4. H \in Nat \ {0}
    BY <1>2
  <2> QED BY <2>1, <2>3, <2>4 DEF Placed
<1>11. ASSUME n # 1
       PROVE  /\ InnerOK(L) /\ InnerOK(R)
              /\ Range(L.children) \subseteq Range(P[id].children)
              /\ Range(R.children) \subseteq Range(P[id].children)
              /\ \A k \in Int : ChildFor(IF k < sep THEN L ELSE R, k) = ChildFor(P[id], k)
              /\ \A k, m \in Int : ChildFor(P[id], k) = ChildFor(P[id], m) => (k < sep <=> m < sep)
  BY <1>11 DEF HalfPages
<1>12. ASSUME NEW k \in Int, NEW j \in 1 .. H - 1
       PROVE  /\ InnerOK(Q[at[k][j + 1]]) /\ Range(Q[at[k][j + 1]].children) \subseteq DOMAIN P
              /\ ChildFor(Q[at[k][j + 1]], k) = via[k][j]
  <2>1. /\ InnerOK(P[via[k][j + 1]]) /\ Range(P[via[k][j + 1]].children) \subseteq DOMAIN P
        /\ ChildFor(P[via[k][j + 1]], k) = via[k][j] /\ j + 1 \in 1 .. H /\ j + 1 # 1
    BY <1>1, <1>2 DEF Routed
  <2>2. CASE at[k][j + 1] = id
    <3>1. j + 1 = n /\ via[k][j + 1] = id /\ k < sep /\ Q[at[k][j + 1]] = L
      BY <1>8, <1>9, <2>1, <2>2
    <3>2. n # 1
      BY <2>1, <3>1
    <3>3. InnerOK(L) /\ Range(L.children) \subseteq Range(P[id].children) /\ ChildFor(L, k) = ChildFor(P[id], k)
      BY <1>11, <3>1, <3>2
    <3> QED BY <2>1, <3>1, <3>3
  <2>3. CASE at[k][j + 1] = N
    <3>1. j + 1 = n /\ via[k][j + 1] = id /\ ~(k < sep) /\ Q[at[k][j + 1]] = R
      <4>1. j + 1 = n /\ via[k][n] = id /\ k >= sep
        BY <1>8, <2>1, <2>3
      <4>2. ~(k < sep)
        BY <1>3, <4>1
      <4> QED BY <1>6, <1>9, <2>1, <2>3, <4>1, <4>2
    <3>2. n # 1
      BY <2>1, <3>1
    <3>3. InnerOK(R) /\ Range(R.children) \subseteq Range(P[id].children) /\ ChildFor(R, k) = ChildFor(P[id], k)
      BY <1>11, <3>1, <3>2
    <3> QED BY <2>1, <3>1, <3>3
  <2>4. CASE at[k][j + 1] # id /\ at[k][j + 1] # N
    BY <1>9, <2>1, <2>4
  <2> QED BY <2>2, <2>3, <2>4
<1>13. Routed(Q, H, r, at, via)
  <2>1. \A k \in Int : via[k][H] = r
    BY <1>1 DEF Routed
  <2>2. DOMAIN P \subseteq DOMAIN Q
    OBVIOUS
  <2> QED BY <1>12, <2>1, <2>2 DEF Routed
<1>14. Leveled(H, at)
  <2> SUFFICES ASSUME NEW k \in Int, NEW m \in Int, NEW i \in 1 .. H, NEW j \in 1 .. H, at[k][i] = at[m][j]
               PROVE  i = j
    BY DEF Leveled
  <2>1. CASE at[k][i] = N
    <3>1. i = n /\ j = n
      BY <1>8, <2>1
    <3> QED BY <3>1
  <2>2. CASE at[k][i] # N
    <3>1. via[k][i] = via[m][j]
      BY <1>7, <2>2
    <3> QED BY <1>1, <3>1 DEF Leveled
  <2> QED BY <2>1, <2>2
<1>15. OneParent(H, at, via)
  <2> SUFFICES ASSUME NEW k \in Int, NEW m \in Int, NEW j \in 1 .. H - 1, via[k][j] = via[m][j]
               PROVE  at[k][j + 1] = at[m][j + 1]
    BY DEF OneParent
  <2>1. via[k][j + 1] = via[m][j + 1] /\ j + 1 \in 1 .. H /\ j + 1 # 1
    BY <1>1, <1>2 DEF OneParent
  <2>2. CASE j + 1 = n /\ via[k][n] = id
    <3>1. n # 1 /\ via[m][n] = id
      BY <2>1, <2>2
    <3>2. ChildFor(P[id], k) = via[k][j] /\ ChildFor(P[id], m) = via[m][j]
      BY <1>1, <2>2, <3>1 DEF Routed
    <3>3. k < sep <=> m < sep
      BY <1>11, <3>1, <3>2
    <3>4. k >= sep <=> m >= sep
      BY <1>3, <3>3
    <3> QED BY <1>7, <2>1, <2>2, <3>1, <3>4
  <2>3. CASE ~(j + 1 = n /\ via[k][n] = id)
    <3>1. ~(j + 1 = n /\ via[m][n] = id)
      BY <2>1, <2>3
    <3> QED BY <1>7, <2>1, <2>3, <3>1
  <2> QED BY <2>2, <2>3
<1>16. AtHomeIn(Q, H, at)
  <2> SUFFICES ASSUME NEW k \in Int, NEW j \in 1 .. H, NEW x \in Range(Q[at[k][j]].keys)
               PROVE  x \in Int /\ at[x][j] = at[k][j]
    BY DEF AtHomeIn
  <2>1. CASE at[k][j] = id
    <3>1. j = n /\ x \in Range(P[id].keys) /\ x < sep
      <4>1. j = n /\ Q[at[k][j]] = L
        BY <1>8, <1>9, <2>1
      <4>2. x \in Range(L.keys)
        BY <4>1
      <4> QED BY <1>3, <4>1, <4>2
    <3>2. x \in Int /\ via[x][n] = id
      BY <1>4, <3>1
    <3> QED BY <1>8, <2>1, <3>1, <3>2
  <2>2. CASE at[k][j] = N
    <3>1. j = n /\ x \in Range(P[id].keys) /\ x >= sep
      BY <1>3, <1>6, <1>8, <1>9, <2>2
    <3>2. x \in Int /\ via[x][n] = id
      BY <1>4, <3>1
    <3> QED BY <1>8, <2>2, <3>1, <3>2
  <2>3. CASE at[k][j] # id /\ at[k][j] # N
    <3>1. x \in Range(P[via[k][j]].keys) /\ at[k][j] = via[k][j]
      BY <1>7, <1>9, <2>3
    <3>2. x \in Int /\ via[x][j] = via[k][j]
      BY <1>1, <3>1 DEF AtHomeIn
    <3>3. ~(j = n /\ via[x][n] = id)
      BY <2>3, <3>1, <3>2
    <3> QED BY <1>7, <3>1, <3>2, <3>3
  <2> QED BY <2>1, <2>2, <2>3
<1>17. Halved(Q, H, at, via, n, id, sep, N)
  <2>1. n < H => \A k \in Int : N \notin Range(Q[at[k][n + 1]].children)
    <3> SUFFICES ASSUME n < H, NEW k \in Int PROVE N \notin Range(Q[at[k][n + 1]].children)
      OBVIOUS
    <3>1. n \in 1 .. H - 1
      BY <1>2
    <3> QED BY <1>2, <1>12, <3>1
  <2>2. N \in Int
    BY <1>2
  <2> QED BY <1>2, <1>3, <1>5, <1>6, <2>1, <2>2 DEF Halved
<1>18. CASE n # 1
  <2>1. \A k \in Int : at[k][1] = via[k][1] /\ Q[at[k][1]] = P[via[k][1]]
    BY <1>2, <1>8, <1>9, <1>18
  <2>2. Linked(Q, at)
    <3>1. \A k \in Int : at[k][1] = via[k][1] /\ Q[at[k][1]].next = P[via[k][1]].next
      BY <2>1
    <3>2. \A k \in Int : k - 1 \in Int
      OBVIOUS
    <3>3. \A k, l, m \in Int : k < l /\ l < m /\ at[k][1] = at[m][1] => at[l][1] = at[k][1]
      BY <1>1, <3>1 DEF Linked
    <3>4. \A k \in Int : Q[at[k][1]].next = NoLeaf => \A m \in Int : m >= k => at[m][1] = at[k][1]
      BY <1>1, <3>1 DEF Linked
    <3>5. ASSUME NEW k \in Int, Q[at[k][1]].next # NoLeaf
          PROVE  /\ Q[at[k][1]].next # at[k][1]
                 /\ \E x \in Int : at[x - 1][1] = at[k][1] /\ at[x][1] = Q[at[k][1]].next
      <4>1. /\ P[via[k][1]].next # via[k][1]
            /\ \E x \in Int : via[x - 1][1] = via[k][1] /\ via[x][1] = P[via[k][1]].next
        BY <1>1, <3>1, <3>5 DEF Linked
      <4>2. PICK x \in Int : via[x - 1][1] = via[k][1] /\ via[x][1] = P[via[k][1]].next
        BY <4>1
      <4> QED BY <3>1, <3>2, <4>1, <4>2
    <3> QED BY <3>3, <3>4, <3>5 DEF Linked
  <2>3. \A k \in Int : RowsAt(Q, at, k) = RowsAt(P, via, k)
    BY <2>1 DEF RowsAt
  <2>4. \A k \in Int : LeafOK(Q[at[k][1]])
    BY <1>1, <2>1
  <2> QED BY <1>10, <1>13, <1>14, <1>15, <1>16, <1>17, <2>2, <2>3, <2>4 DEF Sane
<1>19. CASE n = 1
  <2>1. /\ LeafOK(L) /\ LeafOK(R) /\ L.next = N /\ R.next = P[id].next
        /\ \A x \in Int : RowsIn(IF x < sep THEN L ELSE R, x) = RowsIn(P[id], x)
    BY <1>19 DEF HalfPages
  <2>2. \A k \in Int : /\ at[k][1] = id <=> via[k][1] = id /\ k < sep
                       /\ at[k][1] = N <=> via[k][1] = id /\ k >= sep
                       /\ at[k][1] = IF via[k][1] = id /\ k >= sep THEN N ELSE via[k][1]
                       /\ Q[at[k][1]] = IF via[k][1] # id THEN P[via[k][1]] ELSE IF k < sep THEN L ELSE R
    <3> TAKE k \in Int
    <3>1. k < sep <=> ~(k >= sep)
      BY <1>3
    <3>2. /\ at[k][1] = id <=> via[k][1] = id /\ k < sep
          /\ at[k][1] = N <=> via[k][1] = id /\ k >= sep
          /\ at[k][1] = IF via[k][1] = id /\ k >= sep THEN N ELSE via[k][1]
      BY <1>2, <1>7, <1>8, <1>19
    <3>3. Q[at[k][1]] = IF at[k][1] = id THEN L ELSE IF at[k][1] = N THEN R ELSE P[via[k][1]]
      BY <1>2, <1>9
    <3>4. via[k][1] # N /\ id # N
      BY <1>2, <1>6
    <3> QED BY ONLY <3>1, <3>2, <3>3, <3>4
  <2>3. \A k \in Int : LeafOK(Q[at[k][1]])
    BY <1>1, <2>1, <2>2
  <2>4. \A k \in Int : RowsAt(Q, at, k) = RowsAt(P, via, k)
    BY <2>1, <2>2 DEF RowsAt
  <2>5. ASSUME NEW k \in Int, NEW l \in Int, NEW m \in Int, k < l, l < m, at[k][1] = at[m][1]
        PROVE  at[l][1] = at[k][1]
    <3>1. via[k][1] = via[m][1] /\ (via[k][1] = id => (k >= sep <=> m >= sep))
      BY <1>2, <2>2, <2>5
    <3>2. via[l][1] = via[k][1]
      BY <1>1, <2>5, <3>1 DEF Linked
    <3>3. (k >= sep <=> m >= sep) => (l >= sep <=> k >= sep)
      BY <1>3, <2>5
    <3> QED BY <2>2, <3>1, <3>2, <3>3
  <2>6. ASSUME NEW k \in Int, Q[at[k][1]].next = NoLeaf, NEW m \in Int, m >= k
        PROVE  at[m][1] = at[k][1]
    <3>1. via[k][1] = id => k >= sep
      BY <1>2, <1>3, <2>1, <2>2, <2>6
    <3>2. P[via[k][1]].next = NoLeaf
      BY <1>3, <2>1, <2>2, <2>6, <3>1
    <3>3. via[m][1] = via[k][1]
      BY <1>1, <2>6, <3>2 DEF Linked
    <3>4. via[k][1] = id => m >= sep
      BY <1>3, <2>6, <3>1
    <3> QED BY <2>2, <3>1, <3>3, <3>4
  <2>7. ASSUME NEW k \in Int, Q[at[k][1]].next # NoLeaf
        PROVE  /\ Q[at[k][1]].next # at[k][1]
               /\ \E x \in Int : at[x - 1][1] = at[k][1] /\ at[x][1] = Q[at[k][1]].next
    <3>1. CASE via[k][1] = id /\ k < sep
      <4>1. Q[at[k][1]].next = N /\ at[k][1] = id
        BY <2>1, <2>2, <3>1
      <4>2. at[sep][1] = N
        BY <1>3, <1>6, <1>19, <2>2
      <4>3. sep - 1 \in Int /\ sep - 1 < sep
        BY <1>3
      <4>4. via[sep - 1][1] = id
        <5>1. CASE low = sep - 1
          BY <1>5, <1>19, <5>1
        <5>2. CASE low # sep - 1
          <6>1. low < sep - 1
            BY <1>3, <1>5, <5>2
          <6> QED BY <1>1, <1>3, <1>5, <1>6, <1>19, <4>3, <6>1 DEF Linked
        <5> QED BY <5>1, <5>2
      <4>5. at[sep - 1][1] = id
        BY <2>2, <4>3, <4>4
      <4> QED BY <1>3, <1>6, <4>1, <4>2, <4>5
    <3>2. CASE ~(via[k][1] = id /\ k < sep)
      <4>1. /\ Q[at[k][1]].next = P[via[k][1]].next
            /\ at[k][1] = IF via[k][1] = id THEN N ELSE via[k][1]
        BY <1>3, <2>1, <2>2, <3>2
      <4>2. PICK x \in Int : via[x - 1][1] = via[k][1] /\ via[x][1] = P[via[k][1]].next
        BY <1>1, <2>7, <4>1 DEF Linked
      <4>3. P[via[k][1]].next # via[k][1] /\ x - 1 \in Int /\ x - 1 < x
        BY <1>1, <2>7, <4>1 DEF Linked
      <4>4. at[x - 1][1] = at[k][1]
        <5>1. CASE via[k][1] = id
          <6>1. x - 1 >= sep
            <7> SUFFICES ASSUME x - 1 < sep PROVE FALSE
              BY <1>3
            <7>1. x = sep \/ x < sep
              BY <1>3
            <7>2. x # sep
              BY <1>6, <1>19, <4>2, <4>3, <5>1
            <7>3. via[x][1] = id
              BY <1>1, <1>3, <1>6, <1>19, <4>2, <4>3, <5>1, <7>1, <7>2 DEF Linked
            <7> QED BY <4>2, <4>3, <5>1, <7>3
          <6> QED BY <2>2, <4>1, <4>2, <4>3, <5>1, <6>1
        <5>2. CASE via[k][1] # id
          BY <2>2, <4>1, <4>2, <4>3, <5>2
        <5> QED BY <5>1, <5>2
      <4>5. at[x][1] = via[x][1]
        <5>1. CASE via[x][1] # id
          BY <2>2, <5>1
        <5>2. CASE via[x][1] = id
          <6>1. via[x - 1][1] # id
            BY <4>2, <4>3, <5>2
          <6>2. x <= low
            <7> SUFFICES ASSUME low < x PROVE FALSE
              BY <1>5
            <7>1. low = x - 1 \/ low < x - 1
              OBVIOUS
            <7> QED BY <1>1, <1>5, <1>19, <4>3, <5>2, <6>1, <7>1 DEF Linked
          <6>3. ~(x >= sep)
            BY <1>3, <1>5, <6>2
          <6> QED BY <2>2, <6>3
        <5> QED BY <5>1, <5>2
      <4>6. Q[at[k][1]].next # at[k][1]
        BY <1>2, <4>1, <4>2, <4>3
      <4> QED BY <4>1, <4>2, <4>4, <4>5, <4>6
    <3> QED BY <3>1, <3>2
  <2>8. Linked(Q, at)
    <3>1. \A k, l, m \in Int : k < l /\ l < m /\ at[k][1] = at[m][1] => at[l][1] = at[k][1]
      BY <2>5
    <3>2. \A k \in Int : Q[at[k][1]].next = NoLeaf => \A m \in Int : m >= k => at[m][1] = at[k][1]
      BY <2>6
    <3>3. \A k \in Int : Q[at[k][1]].next # NoLeaf =>
            /\ Q[at[k][1]].next # at[k][1]
            /\ \E x \in Int : at[x - 1][1] = at[k][1] /\ at[x][1] = Q[at[k][1]].next
      BY <2>7
    <3> QED BY ONLY <3>1, <3>2, <3>3 DEF Linked
  <2> QED BY <1>10, <1>13, <1>14, <1>15, <1>16, <1>17, <2>3, <2>4, <2>8 DEF Sane
<1> QED BY <1>18, <1>19

\* The new root: two children.
LEMMA TopRoutes ==
  ASSUME NEW l \in Int, NEW right \in Int, l # right, NEW sep \in Int,
         NEW top, top = Inner(<<sep>>, <<l, right>>)
  PROVE  /\ InnerOK(top) /\ Range(top.keys) = {sep} /\ Range(top.children) = {l, right}
         /\ \A k \in Int : ChildFor(top, k) = IF k >= sep THEN right ELSE l
<1>1. PICK K, C : K = <<sep>> /\ C = <<l, right>> /\ top = Inner(<<sep>>, <<l, right>>)
  OBVIOUS
<1>2. /\ K \in Seq(Int) /\ Len(K) = 1 /\ K[1] = sep /\ C \in Seq(Int) /\ Len(C) = 2 /\ C[1] = l /\ C[2] = right
      /\ DOMAIN K = {1} /\ DOMAIN C = {1, 2}
  BY <1>1
<1>3. Ascending(K) /\ \A i, j \in 1 .. Len(C) : C[i] = C[j] => i = j
  BY <1>2 DEF Ascending
<1>4. InnerOK(top) /\ top.keys = K /\ top.children = C
  <2>1. top = Inner(K, C) /\ Len(C) = Len(K) + 1
    BY <1>1, <1>2
  <2> QED BY ONLY <1>2, <1>3, <2>1, InnerIs
<1>5. Range(K) = {sep} /\ Range(C) = {l, right}
  BY <1>2 DEF Range
<1>6. ASSUME NEW k \in Int PROVE ChildFor(top, k) = IF k >= sep THEN right ELSE l
  <2>1. CASE k >= sep
    <3>1. 1 \in 0 .. Len(K) /\ \A i \in 1 .. Len(K) : K[i] <= k <=> i <= 1
      BY <1>2, <2>1
    <3>2. UpTo(K, k) = 1
      BY <1>2, <3>1, UpToIs
    <3> QED BY <1>2, <1>4, <2>1, <3>2 DEF ChildFor
  <2>2. CASE ~(k >= sep)
    <3>1. 0 \in 0 .. Len(K) /\ \A i \in 1 .. Len(K) : K[i] <= k <=> i <= 0
      BY <1>2, <2>2
    <3>2. UpTo(K, k) = 0
      BY <1>2, <3>1, UpToIs
    <3> QED BY <1>2, <1>4, <2>2, <3>2 DEF ChildFor
  <2> QED BY <2>1, <2>2
<1> QED BY <1>1, <1>4, <1>5, <1>6

\* The page of level H + 1, above the others.
Above(at, H, N) == [k \in Int |-> [j \in 1 .. H + 1 |-> IF j = H + 1 THEN N ELSE at[k][j]]]

\* The root is split, and gets a root above it.
LEMMA GrowTree ==
  ASSUME NEW P, NEW N, NEW H, NEW r, NEW at, NEW via, Sane(P, N, H, r, at, via),
         NEW id, NEW sep, NEW right, Halved(P, H, at, via, H, id, sep, right),
         NEW Q, DOMAIN Q = DOMAIN P \cup {N},
         \A i \in DOMAIN Q : Q[i] = IF i = N THEN Inner(<<sep>>, <<r, right>>) ELSE P[i]
  PROVE  /\ Sane(Q, N + 1, H + 1, N, Above(at, H, N), Above(at, H, N))
         /\ \A k \in Int : RowsAt(Q, Above(at, H, N), k) = RowsAt(P, at, k)
<1>1. PICK up, top : up = Above(at, H, N) /\ top = Inner(<<sep>>, <<r, right>>)
  OBVIOUS
<1>2. /\ Placed(P, N, H, at) /\ Routed(P, H, r, at, via) /\ \A k \in Int : LeafOK(P[at[k][1]])
      /\ Leveled(H, at) /\ OneParent(H, at, via) /\ AtHomeIn(P, H, at) /\ Linked(P, at)
  BY DEF Sane
<1>3. /\ \A k \in Int, j \in 1 .. H : at[k][j] \in DOMAIN P /\ at[k][j] \in Nat /\ at[k][j] # N
      /\ \A j \in 1 .. H - 1 : j \in 1 .. H /\ j + 1 \in 1 .. H /\ j + 1 # 1
      /\ 1 \in 1 .. H /\ H \in 1 .. H /\ H \in Nat /\ N \in Nat /\ N \notin DOMAIN P
  BY <1>2, PlacedFacts
<1>4. /\ sep \in Int /\ right \in Int /\ \A k \in Int, j \in 1 .. H : via[k][j] # right
      /\ \A k \in Int, j \in 1 .. H :
           at[k][j] = IF j = H /\ via[k][H] = id /\ k >= sep THEN right ELSE via[k][j]
      /\ via[sep][H] = id /\ \E x \in Int : x < sep /\ via[x][H] = id
  BY DEF Halved, Cut
<1>5. \A k \in Int : via[k][H] = r
  BY <1>2 DEF Routed
<1>6. /\ id = r /\ \A k \in Int : at[k][H] = IF k >= sep THEN right ELSE r
      /\ \A k \in Int, j \in 1 .. H : j # H => at[k][j] = via[k][j]
  BY <1>3, <1>4, <1>5
<1>7. r \in DOMAIN P /\ right \in DOMAIN P /\ r \in Int /\ r # right
  <2>1. PICK x \in Int : x < sep
    BY <1>4
  <2>2. at[x][H] = r /\ at[sep][H] = right
    BY <1>4, <1>6, <2>1
  <2> QED BY <1>3, <1>4, <1>5, <2>1, <2>2
<1>8. /\ InnerOK(top) /\ Range(top.keys) = {sep} /\ Range(top.children) = {r, right}
      /\ \A k \in Int : ChildFor(top, k) = at[k][H]
  <2>1. /\ InnerOK(top) /\ Range(top.keys) = {sep} /\ Range(top.children) = {r, right}
        /\ \A k \in Int : ChildFor(top, k) = IF k >= sep THEN right ELSE r
    <3>1. top = Inner(<<sep>>, <<r, right>>) /\ sep \in Int /\ right \in Int /\ r \in Int /\ r # right
      BY <1>1, <1>4, <1>7
    <3> QED BY ONLY <3>1, TopRoutes
  <2> QED BY <1>6, <2>1
<1>9. /\ up = [k \in Int |-> [j \in 1 .. H + 1 |-> up[k][j]]]
      /\ \A k \in Int, j \in 1 .. H + 1 : up[k][j] = IF j = H + 1 THEN N ELSE at[k][j]
  BY <1>1 DEF Above
<1>10. /\ \A j \in 1 .. H + 1 : j = H + 1 \/ j \in 1 .. H
       /\ \A j \in 1 .. H : j \in 1 .. H + 1 /\ j # H + 1
       /\ H + 1 \in 1 .. H + 1 /\ H + 1 \in Nat \ {0} /\ (H + 1) - 1 = H
  BY <1>3
<1>10a. \A j \in 1 .. H : j # H => j \in 1 .. H - 1 /\ j + 1 \in 1 .. H
  <2>1. H \in Nat
    BY <1>3
  <2> QED BY ONLY <2>1
<1>11. \A k \in Int, j \in 1 .. H : up[k][j] = at[k][j] /\ up[k][j] \in DOMAIN P /\ Q[up[k][j]] = P[at[k][j]]
  BY <1>3, <1>9, <1>10
<1>12. \A k \in Int : up[k][H + 1] = N /\ Q[up[k][H + 1]] = top
  BY <1>1, <1>9, <1>10
<1>13. Placed(Q, N + 1, H + 1, up)
  <2>1. DOMAIN Q \subseteq 0 .. (N + 1) - 1 /\ N + 1 \in Nat
    <3>1. DOMAIN P \subseteq 0 .. N - 1
      BY <1>2 DEF Placed
    <3>2. 0 .. N - 1 \subseteq 0 .. (N + 1) - 1 /\ N \in 0 .. (N + 1) - 1 /\ N + 1 \in Nat
      BY <1>3
    <3> QED BY <3>1, <3>2
  <2>2. \A k \in Int, j \in 1 .. H + 1 : up[k][j] \in DOMAIN Q
    BY <1>10, <1>11, <1>12
  <2>3. up \in [Int -> [1 .. H + 1 -> DOMAIN Q]]
    <3>1. PICK D, E : D = DOMAIN Q /\ E = 1 .. H + 1
      OBVIOUS
    <3>2. \A k \in Int : [j \in E |-> up[k][j]] \in [E -> D]
      BY <2>2, <3>1
    <3>3. [k \in Int |-> [j \in E |-> up[k][j]]] \in [Int -> [E -> D]]
      BY <3>2
    <3> QED BY <1>9, <3>1, <3>3
  <2> QED BY <1>10, <2>1, <2>3 DEF Placed
<1>14. Routed(Q, H + 1, N, up, up)
  <2>1. ASSUME NEW k \in Int, NEW j \in 1 .. H
        PROVE  /\ InnerOK(Q[up[k][j + 1]]) /\ Range(Q[up[k][j + 1]].children) \subseteq DOMAIN Q
               /\ ChildFor(Q[up[k][j + 1]], k) = up[k][j]
    <3>1. CASE j = H
      <4>1. Q[up[k][j + 1]] = top
        BY <1>12, <3>1
      <4> QED BY <1>7, <1>8, <1>11, <3>1, <4>1
    <3>2. CASE j # H
      <4>1. j \in 1 .. H - 1 /\ j + 1 \in 1 .. H
        BY <1>10a, <3>2
      <4>2. /\ InnerOK(P[at[k][j + 1]]) /\ Range(P[at[k][j + 1]].children) \subseteq DOMAIN P
            /\ ChildFor(P[at[k][j + 1]], k) = via[k][j]
        BY <1>2, <4>1 DEF Routed
      <4>3. Q[up[k][j + 1]] = P[at[k][j + 1]] /\ up[k][j] = via[k][j]
        BY <1>6, <1>11, <3>2, <4>1
      <4> QED BY <4>2, <4>3
    <3> QED BY <3>1, <3>2
  <2> QED BY <1>10, <1>12, <2>1 DEF Routed
<1>15. \A k \in Int : LeafOK(Q[up[k][1]])
  BY <1>2, <1>3, <1>11
<1>16. Leveled(H + 1, up)
  <2> SUFFICES ASSUME NEW k \in Int, NEW m \in Int, NEW i \in 1 .. H + 1, NEW j \in 1 .. H + 1,
                      up[k][i] = up[m][j]
               PROVE  i = j
    BY DEF Leveled
  <2>1. CASE i \in 1 .. H /\ j \in 1 .. H
    <3>1. at[k][i] = at[m][j]
      BY <1>11, <2>1
    <3> QED BY <1>2, <2>1, <3>1 DEF Leveled
  <2>2. CASE i = H + 1 /\ j \in 1 .. H
    BY <1>3, <1>11, <1>12, <2>2
  <2>3. CASE i \in 1 .. H /\ j = H + 1
    BY <1>3, <1>11, <1>12, <2>3
  <2> QED BY <1>10, <2>1, <2>2, <2>3
<1>17. OneParent(H + 1, up, up)
  <2> SUFFICES ASSUME NEW k \in Int, NEW m \in Int, NEW j \in 1 .. H, up[k][j] = up[m][j]
               PROVE  up[k][j + 1] = up[m][j + 1]
    BY <1>10 DEF OneParent
  <2>1. CASE j = H
    BY <1>12, <2>1
  <2>2. CASE j # H
    <3>1. j \in 1 .. H - 1 /\ j + 1 \in 1 .. H
      BY <1>10a, <2>2
    <3>2. via[k][j] = via[m][j]
      BY <1>6, <1>11, <2>2
    <3>3. at[k][j + 1] = at[m][j + 1]
      BY <1>2, <3>1, <3>2 DEF OneParent
    <3> QED BY <1>11, <3>1, <3>3
  <2> QED BY <2>1, <2>2
<1>18. AtHomeIn(Q, H + 1, up)
  <2> SUFFICES ASSUME NEW k \in Int, NEW j \in 1 .. H + 1, NEW x \in Range(Q[up[k][j]].keys)
               PROVE  x \in Int /\ up[x][j] = up[k][j]
    BY DEF AtHomeIn
  <2>1. CASE j = H + 1
    <3>1. x = sep
      BY <1>8, <1>12, <2>1
    <3> QED BY <1>4, <1>12, <2>1, <3>1
  <2>2. CASE j \in 1 .. H
    <3>1. x \in Int /\ at[x][j] = at[k][j]
      BY <1>2, <1>11, <2>2 DEF AtHomeIn
    <3> QED BY <1>11, <2>2, <3>1
  <2> QED BY <1>10, <2>1, <2>2
<1>19. Linked(Q, up)
  <2>1. \A k \in Int : up[k][1] = at[k][1] /\ Q[up[k][1]] = P[at[k][1]]
    BY <1>3, <1>11
  <2>2. \A k \in Int : k - 1 \in Int
    OBVIOUS
  <2>3. \A k, l, m \in Int : k < l /\ l < m /\ up[k][1] = up[m][1] => up[l][1] = up[k][1]
    BY <1>2, <2>1 DEF Linked
  <2>4. \A k \in Int : Q[up[k][1]].next = NoLeaf => \A m \in Int : m >= k => up[m][1] = up[k][1]
    BY <1>2, <2>1 DEF Linked
  <2>5. ASSUME NEW k \in Int, Q[up[k][1]].next # NoLeaf
        PROVE  /\ Q[up[k][1]].next # up[k][1]
               /\ \E x \in Int : up[x - 1][1] = up[k][1] /\ up[x][1] = Q[up[k][1]].next
    <3>1. /\ P[at[k][1]].next # at[k][1]
          /\ \E x \in Int : at[x - 1][1] = at[k][1] /\ at[x][1] = P[at[k][1]].next
      BY <1>2, <2>1, <2>5 DEF Linked
    <3>2. PICK x \in Int : at[x - 1][1] = at[k][1] /\ at[x][1] = P[at[k][1]].next
      BY <3>1
    <3> QED BY <2>1, <2>2, <3>1, <3>2
  <2> QED BY <2>3, <2>4, <2>5 DEF Linked
<1>20. \A k \in Int : RowsAt(Q, up, k) = RowsAt(P, at, k)
  BY <1>3, <1>11 DEF RowsAt
<1> QED BY <1>1, <1>13, <1>14, <1>15, <1>16, <1>17, <1>18, <1>19, <1>20 DEF Sane

SaneTree(at) == Sane(pages, nextId, height, root, at, at)

\* The path to a key goes through the pages of the key.
LEMMA PathIs ==
  ASSUME NEW at, SaneTree(at), NEW k \in Int
  PROVE  \A n \in 1 .. height : PathTo(k)[n] = at[k][height - n + 1]
<1>1. PICK P, H : P = pages /\ H = height
  OBVIOUS
<1>2. Placed(P, nextId, H, at) /\ Routed(P, H, root, at, at)
  BY <1>1 DEF SaneTree, Sane
<1>3. H \in Nat /\ 1 \in 1 .. H
  BY <1>2, PlacedFacts
<1> DEFINE IsPath(f) == f = [n \in 1 .. H |-> IF n = 1 THEN root ELSE ChildFor(P[f[n - 1]], k)]
           path == CHOOSE f : IsPath(f)
           w == [n \in 1 .. H |-> at[k][H - n + 1]]
<1>4. PathTo(k) = path
  BY <1>1 DEF PathTo
<1>5. at[k][H] = root
  BY <1>2 DEF Routed
<1>6. \A n \in 1 .. H : n # 1 => /\ n - 1 \in 1 .. H
                                 /\ ChildFor(P[at[k][H - (n - 1) + 1]], k) = at[k][H - n + 1]
  <2> SUFFICES ASSUME NEW n \in 1 .. H, n # 1
               PROVE  n - 1 \in 1 .. H /\ ChildFor(P[at[k][H - (n - 1) + 1]], k) = at[k][H - n + 1]
    OBVIOUS
  <2>1. PICK j : j = H - n + 1
    OBVIOUS
  <2>2. n - 1 \in 1 .. H /\ j \in 1 .. H - 1 /\ H - (n - 1) + 1 = j + 1
    BY <1>3, <2>1
  <2>3. ChildFor(P[at[k][j + 1]], k) = at[k][j]
    BY <1>2, <2>2 DEF Routed
  <2> QED BY <2>1, <2>2, <2>3
<1>7. IsPath(w)
  <2>1. /\ w = [n \in 1 .. H |-> w[n]]
        /\ \A n \in 1 .. H : w[n] = at[k][H - n + 1]
    OBVIOUS
  <2> HIDE DEF w
  <2>2. ASSUME NEW n \in 1 .. H PROVE w[n] = IF n = 1 THEN root ELSE ChildFor(P[w[n - 1]], k)
    <3>1. CASE n = 1
      <4>1. H - 1 + 1 = H
        BY <1>3
      <4> QED BY <1>3, <1>5, <2>1, <3>1, <4>1
    <3>2. CASE n # 1
      BY <1>6, <2>1, <3>2
    <3> QED BY <3>1, <3>2
  <2>3. w = [n \in 1 .. H |-> IF n = 1 THEN root ELSE ChildFor(P[w[n - 1]], k)]
    <3>1. [n \in 1 .. H |-> w[n]] = [n \in 1 .. H |-> IF n = 1 THEN root ELSE ChildFor(P[w[n - 1]], k)]
      BY <2>2
    <3> QED BY <2>1, <3>1
  <2> QED BY <2>3
<1> HIDE DEF w
<1>8. IsPath(path)
  BY <1>7
<1>9. \A n \in 1 .. H : path[n] = IF n = 1 THEN root ELSE ChildFor(P[path[n - 1]], k)
  <2>1. PICK f : f = path
    OBVIOUS
  <2>2. f = [n \in 1 .. H |-> IF n = 1 THEN root ELSE ChildFor(P[f[n - 1]], k)]
    BY <1>8, <2>1
  <2>3. \A n \in 1 .. H : f[n] = IF n = 1 THEN root ELSE ChildFor(P[f[n - 1]], k)
    <3> SUFFICES ASSUME NEW n \in 1 .. H PROVE f[n] = IF n = 1 THEN root ELSE ChildFor(P[f[n - 1]], k)
      OBVIOUS
    <3> QED BY <2>2
  <2> QED BY <2>1, <2>3
<1> HIDE DEF path
<1> DEFINE Off == {n \in 1 .. H : path[n] # at[k][H - n + 1]}
           m == Min(Off)
<1>10. SUFFICES ASSUME Off # {} PROVE FALSE
  BY <1>1, <1>4
<1>11. m \in Off /\ \A q \in Off : m <= q
  <2>1. Off \subseteq Nat
    OBVIOUS
  <2> HIDE DEF Off
  <2> QED BY <1>10, <2>1, MinIsIn
<1> HIDE DEF m
<1>12. m \in 1 .. H /\ path[m] # at[k][H - m + 1]
  BY <1>11
<1>13. m # 1
  <2>1. H - 1 + 1 = H
    BY <1>3
  <2> QED BY <1>3, <1>5, <1>9, <1>12, <2>1
<1>14. path[m - 1] = at[k][H - (m - 1) + 1]
  <2>1. m - 1 \in 1 .. H /\ ~(m <= m - 1)
    BY <1>3, <1>12, <1>13
  <2> QED BY <1>11, <2>1
<1> QED BY <1>6, <1>9, <1>12, <1>13, <1>14

\* A lookup finds the rows of the key in the leaf it belongs to.
LEMMA LookupIs ==
  ASSUME NEW at, SaneTree(at), NEW k \in Int
  PROVE  /\ PathTo(k)[height] = at[k][1]
         /\ Lookup(k) = RowsAt(pages, at, k)
<1>1. height \in Nat /\ height \in 1 .. height /\ height - height + 1 = 1
  <2>1. Placed(pages, nextId, height, at)
    BY DEF SaneTree, Sane
  <2> QED BY <2>1, PlacedFacts
<1>2. PathTo(k)[height] = at[k][1]
  BY <1>1, PathIs
<1> QED BY <1>2 DEF Lookup, LeafFor, RowsAt

\* The tree `t` is whole up to level n: the pages above are those of at0, and if
\* the page of `key` on level n was split, its parent is still to be told.
Through(t, H, r, n, at0, key, at, via) ==
  /\ \A k \in Int, j \in 1 .. H : j > n => at[k][j] = at0[k][j]
  /\ Sane(t.pages, t.nextId, H, r, at, via)
  /\ t.split = NoSplit => via = at
  /\ t.split # NoSplit =>
       /\ Halved(t.pages, H, at, via, n, at0[key][n], t.split.sep, t.split.right)
       /\ via[key][n] = at0[key][n]

\* The halves of a page.
LEMMA HalvesAre ==
  ASSUME NEW nd, NEW new \in Int, NEW n, n = 1 => LeafOK(nd), n # 1 => InnerOK(nd), Len(nd.keys) > 1
  PROVE  HalfPages(nd, new, n, Halves(nd, new).left, Halves(nd, new).right, Halves(nd, new).sep)
<1>1. PICK h : h = Halves(nd, new)
  OBVIOUS
<1>2. CASE n = 1
  <2>1. /\ LeafOK(h.left) /\ LeafOK(h.right) /\ h.sep \in Range(nd.keys)
        /\ h.left.next = new /\ h.right.next = nd.next
        /\ \A x \in Range(h.left.keys) : x \in Range(nd.keys) /\ x < h.sep
        /\ \A x \in Range(h.right.keys) : x \in Range(nd.keys) /\ x >= h.sep
        /\ \A x \in Int : RowsIn(IF x < h.sep THEN h.left ELSE h.right, x) = RowsIn(nd, x)
        /\ \E x \in Range(nd.keys) : x < h.sep
    BY <1>1, <1>2, LeafHalvesKeep
  <2>2. h.sep \in Int
    BY <1>2, <2>1, LeafFacts
  <2> QED BY <1>1, <1>2, <2>1, <2>2 DEF HalfPages
<1>3. CASE n # 1
  <2>1. /\ InnerOK(h.left) /\ InnerOK(h.right) /\ h.sep \in Range(nd.keys)
        /\ \A k \in Int : ChildFor(IF k < h.sep THEN h.left ELSE h.right, k) = ChildFor(nd, k)
        /\ \A x \in Range(h.left.keys) : x \in Range(nd.keys) /\ x < h.sep
        /\ \A x \in Range(h.right.keys) : x \in Range(nd.keys) /\ x > h.sep
        /\ Range(h.left.children) \subseteq Range(nd.children)
        /\ Range(h.right.children) \subseteq Range(nd.children)
        /\ \E x \in Range(nd.keys) : x < h.sep
        /\ \A k, m \in Int : ChildFor(nd, k) = ChildFor(nd, m) => (k < h.sep <=> m < h.sep)
    BY <1>1, <1>3, InnerHalvesRoute
  <2>2. \A x \in Range(nd.keys) : x \in Int
    BY <1>3, InnerFacts DEF Range
  <2>3. h.sep \in Int /\ \A x \in Range(h.right.keys) : x >= h.sep
    BY <2>1, <2>2
  <2> QED BY <1>1, <1>3, <2>1, <2>2, <2>3 DEF HalfPages
<1> QED BY <1>2, <1>3

\* The tree in which the page of `key` on level n is `nd`, whatever its size.
MayStore(tree, nd, H, r, via, n, key, id, Q, at0) ==
  /\ n \in 1 .. H /\ key \in Int /\ id = via[key][n] /\ DOMAIN Q = DOMAIN tree.pages
  /\ \A i \in DOMAIN Q : Q[i] = IF i = id THEN nd ELSE tree.pages[i]
  /\ Sane(Q, tree.nextId, H, r, via, via)
  /\ \A k \in Int, j \in 1 .. H : j > n => via[k][j] = at0[k][j]
  /\ id = at0[key][n]

\* A page is stored, as it is or in two halves.
LEMMA StoredKeeps ==
  ASSUME NEW tree, NEW nd, NEW H, NEW r, NEW via, NEW n, NEW key, NEW id, NEW Q, NEW at0,
         MayStore(tree, nd, H, r, via, n, key, id, Q, at0)
  PROVE  \E at, w : /\ Through(Stored(tree, id, nd), H, r, n, at0, key, at, w)
                    /\ \A k \in Int : RowsAt(Stored(tree, id, nd).pages, at, k) = RowsAt(Q, via, k)
<1> SUFFICES ASSUME n \in 1 .. H, key \in Int, id = via[key][n], DOMAIN Q = DOMAIN tree.pages,
                    \A i \in DOMAIN Q : Q[i] = IF i = id THEN nd ELSE tree.pages[i],
                    Sane(Q, tree.nextId, H, r, via, via),
                    \A k \in Int, j \in 1 .. H : j > n => via[k][j] = at0[k][j], id = at0[key][n],
                    NEW new, new = Stored(tree, id, nd)
             PROVE  \E at, w : /\ Through(new, H, r, n, at0, key, at, w)
                               /\ \A k \in Int : RowsAt(new.pages, at, k) = RowsAt(Q, via, k)
  BY DEF MayStore
<1>1. PICK P, N : P = tree.pages /\ N = tree.nextId
  OBVIOUS
<1>2. /\ Placed(Q, N, H, via) /\ Routed(Q, H, r, via, via) /\ \A k \in Int : LeafOK(Q[via[k][1]])
  BY <1>1 DEF Sane
<1>3. /\ \A k \in Int, j \in 1 .. H : via[k][j] \in DOMAIN Q
      /\ 1 \in 1 .. H /\ H \in Nat /\ N \in Nat /\ N \notin DOMAIN Q
  BY <1>2, PlacedFacts
<1>4. id \in DOMAIN Q /\ Q[id] = nd /\ N # id
  BY <1>1, <1>3
<1>5. n = 1 => LeafOK(nd)
  BY <1>2, <1>4
<1>6. n # 1 => InnerOK(nd)
  <2> SUFFICES ASSUME n # 1 PROVE InnerOK(nd)
    OBVIOUS
  <2>1. PICK j : j = n - 1
    OBVIOUS
  <2>2. j \in 1 .. H - 1 /\ j + 1 = n
    BY <1>3, <2>1
  <2> QED BY <1>2, <1>4, <2>2 DEF Routed
<1>7. Len(nd.keys) \in Nat
  BY <1>5, <1>6, LeafFacts, InnerFacts
<1>8. CASE Len(nd.keys) <= Fanout
  <2>1. new = [pages |-> [P EXCEPT ![id] = nd], nextId |-> N, split |-> NoSplit]
    BY <1>1, <1>8 DEF Stored
  <2>2. new.pages = [P EXCEPT ![id] = nd] /\ new.nextId = N /\ new.split = NoSplit
    BY <2>1
  <2>3. PICK O : O = new.pages
    OBVIOUS
  <2>4. DOMAIN O = DOMAIN Q /\ \A i \in DOMAIN Q : O[i] = Q[i]
    BY <1>1, <1>4, <2>2, <2>3
  <2>5. \A k \in Int, j \in 1 .. H : O[via[k][j]] = Q[via[k][j]]
    BY <1>3, <2>4
  <2>6. \A k \in Int : LeafOK(O[via[k][1]]) /\ O[via[k][1]] = Q[via[k][1]]
    BY <1>2, <1>3, <2>5
  <2>7. Placed(O, N, H, via)
    BY <1>2, <2>4 DEF Placed
  <2>8. Routed(O, H, r, via, via)
    <3>1. \A j \in 1 .. H - 1 : j + 1 \in 1 .. H
      BY <1>3
    <3> QED BY <1>2, <2>4, <2>5, <3>1 DEF Routed
  <2>9. Leveled(H, via) /\ OneParent(H, via, via) /\ AtHomeIn(O, H, via) /\ Linked(O, via)
    <3>1. Leveled(H, via) /\ OneParent(H, via, via) /\ AtHomeIn(Q, H, via) /\ Linked(Q, via)
      BY DEF Sane
    <3>2. AtHomeIn(O, H, via)
      BY <2>5, <3>1 DEF AtHomeIn
    <3>3. Linked(O, via)
      BY <2>6, <3>1 DEF Linked
    <3> QED BY <3>1, <3>2, <3>3
  <2>10. Sane(O, N, H, r, via, via)
    BY <2>6, <2>7, <2>8, <2>9 DEF Sane
  <2>11. Through(new, H, r, n, at0, key, via, via)
    BY <2>2, <2>3, <2>10 DEF Through
  <2>12. \A k \in Int : RowsAt(new.pages, via, k) = RowsAt(Q, via, k)
    BY <2>3, <2>6 DEF RowsAt
  <2> QED BY <2>11, <2>12
<1>9. CASE ~(Len(nd.keys) <= Fanout)
  <2>1. Len(nd.keys) > 1
    BY <1>7, <1>9, TreeAssumption
  <2>2. PICK h : h = Halves(nd, N)
    OBVIOUS
  <2>3. HalfPages(nd, N, n, h.left, h.right, h.sep)
    <3>1. N \in Int
      BY <1>3
    <3> QED BY <1>5, <1>6, <2>1, <2>2, <3>1, HalvesAre
  <2>4. PICK O : O = [i \in DOMAIN P \cup {N} |->
                        CASE i = id -> h.left [] i = N -> h.right [] OTHER -> P[i]]
    OBVIOUS
  <2>5. new = [pages |-> O, nextId |-> N + 1, split |-> [right |-> N, sep |-> h.sep]]
    BY <1>1, <1>9, <2>2, <2>4 DEF Stored
  <2>6. /\ new.pages = O /\ new.nextId = N + 1 /\ new.split # NoSplit
        /\ new.split.right = N /\ new.split.sep = h.sep
    <3>1. new.pages = O /\ new.nextId = N + 1 /\ new.split = [right |-> N, sep |-> h.sep]
      BY <2>5
    <3>2. N # NoLeaf
      BY <1>3 DEF NoLeaf
    <3>3. new.split.right = N /\ new.split.sep = h.sep
      BY <3>1
    <3>4. NoSplit.right = NoLeaf
      BY DEF NoSplit
    <3> QED BY <3>1, <3>2, <3>3, <3>4
  <2>7. /\ DOMAIN O = DOMAIN Q \cup {N}
        /\ \A i \in DOMAIN O : O[i] = IF i = id THEN h.left ELSE IF i = N THEN h.right ELSE Q[i]
    <3>1. DOMAIN O = DOMAIN Q \cup {N}
      BY <1>1, <2>4
    <3>2. ASSUME NEW i \in DOMAIN O
          PROVE  O[i] = IF i = id THEN h.left ELSE IF i = N THEN h.right ELSE Q[i]
      <4>1. CASE i = id
        BY <1>1, <1>4, <2>4, <4>1
      <4>2. CASE i # id /\ i = N
        BY <1>1, <2>4, <4>2
      <4>3. CASE i # id /\ i # N
        <5>1. Q[i] = P[i]
          BY <1>1, <3>1, <4>3
        <5>2. O[i] = P[i]
          BY <2>4, <3>1, <4>3
        <5> QED BY <4>3, <5>1, <5>2
      <4> QED BY <4>1, <4>2, <4>3
    <3> QED BY <3>1, <3>2
  <2>8. PICK at : at = Cut(via, H, n, id, h.sep, N)
    OBVIOUS
  <2>9. /\ Sane(O, N + 1, H, r, at, via) /\ Halved(O, H, at, via, n, id, h.sep, N)
        /\ \A k \in Int : RowsAt(O, at, k) = RowsAt(Q, via, k)
    <3>1. Sane(Q, N, H, r, via, via) /\ HalfPages(Q[id], N, n, h.left, h.right, h.sep)
      BY <1>1, <1>4, <2>3
    <3>2. n \in 1 .. H /\ key \in Int /\ id = via[key][n]
      OBVIOUS
    <3>3. PICK L, R, sep : L = h.left /\ R = h.right /\ sep = h.sep
      OBVIOUS
    <3>4. CutFrom(Q, N, H, r, via, n, key, id, L, R, sep, O, at)
      BY <2>7, <2>8, <3>1, <3>2, <3>3 DEF CutFrom
    <3>5. /\ Sane(O, N + 1, H, r, at, via) /\ Halved(O, H, at, via, n, id, sep, N)
          /\ \A k \in Int : RowsAt(O, at, k) = RowsAt(Q, via, k)
      BY ONLY <3>4, CutPages
    <3> QED BY <3>3, <3>5
  <2>10. \A k \in Int, j \in 1 .. H : j > n => at[k][j] = at0[k][j]
    BY <2>8 DEF Cut
  <2>11. Through(new, H, r, n, at0, key, at, via)
    BY <2>6, <2>9, <2>10 DEF Through
  <2> QED BY <2>6, <2>9, <2>11
<1> QED BY <1>8, <1>9

\* The tree t is whole up to level n, and has the rows `held`.
WholeTo(t, H, r, n, at0, key, held) ==
  \E at, w : /\ Through(t, H, r, n, at0, key, at, w)
             /\ \A k \in Int : RowsAt(t.pages, at, k) = held[k]

\* The rows of every key, with a row more for `key`.
RowsPlus(P, at, key, row) ==
  [k \in Int |-> IF k = key THEN RowsWith(RowsAt(P, at, key), row) ELSE RowsAt(P, at, k)]

\* The leaf takes the pair.
LEMMA ClimbLeaf ==
  ASSUME NEW P, NEW N, NEW H, NEW r, NEW at, Sane(P, N, H, r, at, at),
         NEW key \in TreeKeys, NEW row \in TreeRows, NEW tree, tree.pages = P, tree.nextId = N,
         NEW id, id = at[key][1], NEW t, t = Stored(tree, id, WithRow(P[id], key, row))
  PROVE  WholeTo(t, H, r, 1, at, key, RowsPlus(P, at, key, row))
<1>1. PICK nd : nd = WithRow(P[id], key, row)
  OBVIOUS
<1>2. PICK Q : Q = [i \in DOMAIN P |-> IF i = id THEN nd ELSE P[i]]
  OBVIOUS
<1>3. /\ Placed(P, N, H, at) /\ \A k \in Int : LeafOK(P[at[k][1]])
      /\ AtHomeIn(P, H, at) /\ key \in Int
  BY TreeAssumption DEF Sane
<1>4. 1 \in 1 .. H /\ \A k \in Int, j \in 1 .. H : at[k][j] \in DOMAIN P
  BY <1>3, PlacedFacts
<1>5. /\ LeafOK(nd) /\ nd.next = P[id].next /\ Range(nd.keys) = Range(P[id].keys) \cup {key}
      /\ \A x : RowsIn(nd, x) = IF x = key THEN RowsWith(RowsIn(P[id], key), row)
                                ELSE RowsIn(P[id], x)
  <2>1. PICK leaf : leaf = P[id]
    OBVIOUS
  <2>2. LeafOK(leaf) /\ key \in TreeKeys /\ row \in TreeRows /\ nd = WithRow(leaf, key, row)
    BY <1>1, <1>3, <2>1
  <2>3. /\ LeafOK(nd) /\ nd.next = leaf.next /\ Range(nd.keys) = Range(leaf.keys) \cup {key}
        /\ \A x : RowsIn(nd, x) = IF x = key THEN RowsWith(RowsIn(leaf, key), row) ELSE RowsIn(leaf, x)
    BY ONLY <2>2, WithRowAdds
  <2> QED BY <2>1, <2>3
<1>6. DOMAIN Q = DOMAIN P /\ \A i \in DOMAIN P : Q[i] = IF i = at[key][1] THEN nd ELSE P[i]
  BY <1>2
<1>7. \A x \in Range(nd.keys) : at[x][1] = at[key][1]
  BY <1>3, <1>4, <1>5 DEF AtHomeIn
<1>8. Sane(Q, N, H, r, at, at)
  BY <1>3, <1>5, <1>6, <1>7, PutLeaf
<1>9. PICK a, w : /\ Through(t, H, r, 1, at, key, a, w)
                  /\ \A k \in Int : RowsAt(t.pages, a, k) = RowsAt(Q, at, k)
  <2>1. PICK n : n = 1
    OBVIOUS
  <2>2. /\ n \in 1 .. H /\ id = at[key][n] /\ DOMAIN Q = DOMAIN tree.pages
        /\ \A i \in DOMAIN Q : Q[i] = IF i = id THEN nd ELSE tree.pages[i]
        /\ Sane(Q, tree.nextId, H, r, at, at) /\ t = Stored(tree, id, nd)
    BY <1>1, <1>2, <1>4, <1>8, <2>1
  <2>3. MayStore(tree, nd, H, r, at, n, key, id, Q, at)
    BY <1>3, <2>2 DEF MayStore
  <2>4. \E a, w : /\ Through(t, H, r, n, at, key, a, w)
                  /\ \A k \in Int : RowsAt(t.pages, a, k) = RowsAt(Q, at, k)
    BY ONLY <2>2, <2>3, StoredKeeps
  <2> QED BY <2>1, <2>4
<1>10. \A k \in Int : RowsAt(Q, at, k) = RowsPlus(P, at, key, row)[k]
  <2> TAKE k \in Int
  <2>1. RowsPlus(P, at, key, row)[k] = IF k = key THEN RowsWith(RowsAt(P, at, key), row) ELSE RowsAt(P, at, k)
    BY DEF RowsPlus
  <2>2. CASE at[k][1] = id
    <3>1. Q[at[k][1]] = nd /\ P[at[k][1]] = P[id]
      BY <1>4, <1>6, <2>2
    <3> QED BY <1>5, <2>1, <3>1 DEF RowsAt
  <2>3. CASE at[k][1] # id
    <3>1. Q[at[k][1]] = P[at[k][1]] /\ k # key
      BY <1>4, <1>6, <2>3
    <3> QED BY <2>1, <3>1 DEF RowsAt
  <2> QED BY <2>2, <2>3
<1> QED BY <1>9, <1>10 DEF WholeTo

\* The next level learns of a split.
LEMMA ClimbOn ==
  ASSUME NEW s, NEW H, NEW r, NEW n \in 1 .. H, n + 1 \in 1 .. H, NEW at0, NEW key \in Int, NEW held,
         WholeTo(s, H, r, n, at0, key, held), s.split # NoSplit,
         NEW id, id = at0[key][n + 1], NEW t, t = Stored(s, id, WithChild(s.pages[id], s.split))
  PROVE  WholeTo(t, H, r, n + 1, at0, key, held)
<1>1. PICK at, via : /\ Through(s, H, r, n, at0, key, at, via)
                     /\ \A k \in Int : RowsAt(s.pages, at, k) = held[k]
  BY DEF WholeTo
<1>2. PICK P, N, sep, right : P = s.pages /\ N = s.nextId /\ sep = s.split.sep /\ right = s.split.right
  OBVIOUS
<1>3. /\ \A k \in Int, j \in 1 .. H : j > n => at[k][j] = at0[k][j]
      /\ Sane(P, N, H, r, at, via)
      /\ Halved(P, H, at, via, n, at0[key][n], sep, right) /\ via[key][n] = at0[key][n]
  BY <1>1, <1>2 DEF Through
<1>4. sep \in Int /\ via[sep][n] = at0[key][n]
  BY <1>3 DEF Halved
<1>5. /\ Placed(P, N, H, at) /\ OneParent(H, at, via)
  BY <1>3 DEF Sane
<1>6. \A k \in Int, j \in 1 .. H : at[k][j] \in DOMAIN P
  BY <1>5, PlacedFacts
<1>7. H \in Nat
  BY <1>5, PlacedFacts
<1>8. at[sep][n + 1] = id /\ at[key][n + 1] = id
  <2>1. n \in 1 .. H - 1 /\ n + 1 > n
    BY <1>7
  <2>2. at[sep][n + 1] = at[key][n + 1]
    BY <1>3, <1>4, <1>5, <2>1 DEF OneParent
  <2> QED BY <1>3, <2>1, <2>2
<1>9. PICK nd : nd = WithChild(P[id], s.split)
  OBVIOUS
<1>10. nd = WithChild(P[id], [right |-> right, sep |-> sep])
  BY <1>2, <1>9 DEF WithChild
<1>11. PICK Q : Q = [i \in DOMAIN P |-> IF i = id THEN nd ELSE P[i]]
  OBVIOUS
<1>12. /\ DOMAIN Q = DOMAIN P /\ \A i \in DOMAIN P : Q[i] = IF i = id THEN nd ELSE P[i]
  BY <1>11
<1>13. /\ Sane(Q, N, H, r, at, at) /\ \A k \in Int : Q[at[k][1]] = P[at[k][1]]
  <2>1. n < H
    BY <1>7
  <2>2. \A i \in DOMAIN P : Q[i] = IF i = at[sep][n + 1]
                                   THEN WithChild(P[i], [right |-> right, sep |-> sep]) ELSE P[i]
    BY <1>8, <1>10, <1>12
  <2>3. PICK was : was = at0[key][n]
    OBVIOUS
  <2>4. Halved(P, H, at, via, n, was, sep, right)
    BY <1>3, <2>3
  <2> QED BY ONLY <1>3, <1>12, <2>1, <2>2, <2>4, PutParent
<1>14. PICK a, w : /\ Through(t, H, r, n + 1, at0, key, a, w)
                   /\ \A k \in Int : RowsAt(t.pages, a, k) = RowsAt(Q, at, k)
  <2>1. PICK m : m = n + 1
    OBVIOUS
  <2>2. /\ m \in 1 .. H /\ id = at[key][m] /\ id = at0[key][m] /\ DOMAIN Q = DOMAIN s.pages
        /\ \A i \in DOMAIN Q : Q[i] = IF i = id THEN nd ELSE s.pages[i]
        /\ Sane(Q, s.nextId, H, r, at, at) /\ t = Stored(s, id, nd)
    BY <1>2, <1>8, <1>9, <1>12, <1>13, <2>1
  <2>3. \A k \in Int, j \in 1 .. H : j > m => at[k][j] = at0[k][j]
    <3>1. \A j \in 1 .. H : j > m => j > n
      BY <1>7, <2>1
    <3> QED BY <1>3, <3>1
  <2>4. MayStore(s, nd, H, r, at, m, key, id, Q, at0)
    BY <2>2, <2>3 DEF MayStore
  <2>5. \E a, w : /\ Through(t, H, r, m, at0, key, a, w)
                  /\ \A k \in Int : RowsAt(t.pages, a, k) = RowsAt(Q, at, k)
    BY ONLY <2>2, <2>4, StoredKeeps
  <2> QED BY <2>1, <2>5
<1>15. \A k \in Int : RowsAt(Q, at, k) = held[k]
  BY <1>1, <1>2, <1>13 DEF RowsAt
<1> QED BY <1>14, <1>15 DEF WholeTo

\* A level of insert_rec, given what the level below returned.
LevelUp(prev, n, key, row) ==
  LET id == PathTo(key)[height - n + 1]
      now == [pages |-> pages, nextId |-> nextId, split |-> NoSplit]
  IN  IF n = 1 THEN Stored(now, id, WithRow(pages[id], key, row))
      ELSE IF prev.split = NoSplit THEN prev
      ELSE Stored(prev, id, WithChild(prev.pages[id], prev.split))

Climbs(f, m, key, row) ==
  /\ f = [n \in 1 .. m |-> f[n]]
  /\ \A n \in 1 .. m : f[n] = LevelUp(f[n - 1], n, key, row)

\* The lowest level looks at no other.
LEMMA LevelOne ==
  ASSUME NEW key, NEW row, NEW p, NEW q
  PROVE  LevelUp(p, 1, key, row) = LevelUp(q, 1, key, row)
BY DEF LevelUp

\* The recursion has a result.
LEMMA ClimbsExist ==
  ASSUME NEW N \in Nat, NEW key, NEW row
  PROVE  \E f : Climbs(f, N, key, row)
<1> DEFINE Exists(j) == \E f : Climbs(f, j, key, row)
           Lacking == {j \in 0 .. N : ~Exists(j)}
<1> SUFFICES ASSUME Lacking # {} PROVE FALSE
  <2>1. N \notin Lacking => Exists(N)
    OBVIOUS
  <2> QED BY <2>1
<1>1. Lacking \subseteq Nat
  OBVIOUS
<1> DEFINE m == Min(Lacking)
<1>2. m \in Lacking /\ \A q \in Lacking : m <= q
  <2> HIDE DEF Lacking
  <2> QED BY <1>1, MinIsIn
<1> HIDE DEF m
<1>3. m \in 0 .. N /\ ~Exists(m)
  BY <1>2
<1>4. m # 0
  <2>1. Climbs([i \in 1 .. 0 |-> 0], 0, key, row)
    BY DEF Climbs
  <2> QED BY <1>3, <2>1
<1>5. m - 1 \in 0 .. N /\ m - 1 \notin Lacking
  BY <1>2, <1>3, <1>4
<1>6. PICK f : Climbs(f, m - 1, key, row)
  BY <1>5
<1> DEFINE g == [i \in 1 .. m |-> IF i = m THEN LevelUp(f[m - 1], m, key, row) ELSE f[i]]
<1>7. /\ g = [i \in 1 .. m |-> g[i]] /\ g[m] = LevelUp(f[m - 1], m, key, row)
      /\ \A i \in 1 .. m - 1 : g[i] = f[i]
  <2>1. m \in 1 .. m /\ \A i \in 1 .. m - 1 : i \in 1 .. m /\ i # m
    BY <1>3, <1>4
  <2> QED BY <2>1
<1> HIDE DEF g
<1>8. \A i \in 1 .. m - 1 : f[i] = LevelUp(f[i - 1], i, key, row)
  BY <1>6 DEF Climbs
<1>9. \A i \in 1 .. m : g[i] = LevelUp(g[i - 1], i, key, row)
  <2> TAKE i \in 1 .. m
  <2>1. CASE i = 1
    <3>1. g[i] = LevelUp(f[i - 1], i, key, row)
      <4>1. CASE i = m
        BY <1>7, <4>1
      <4>2. CASE i # m
        <5>1. i \in 1 .. m - 1
          BY <1>3, <4>2
        <5> QED BY <1>7, <1>8, <5>1
      <4> QED BY <4>1, <4>2
    <3> QED BY <2>1, <3>1, LevelOne
  <2>2. CASE i # 1
    <3>1. i - 1 \in 1 .. m - 1
      BY <1>3, <2>2
    <3>2. g[i - 1] = f[i - 1]
      BY <1>7, <3>1
    <3>3. CASE i = m
      BY <1>7, <3>2, <3>3
    <3>4. CASE i # m
      <4>1. i \in 1 .. m - 1
        BY <1>3, <3>4
      <4> QED BY <1>7, <1>8, <3>2, <4>1
    <3> QED BY <3>3, <3>4
  <2> QED BY <2>1, <2>2
<1>10. Climbs(g, m, key, row)
  BY <1>7, <1>9 DEF Climbs
<1> QED BY <1>3, <1>10

\* What insert_rec returns is what the levels return.
LEMMA InsertedIs ==
  ASSUME NEW key, NEW row, height \in Nat
  PROVE  \E f : Climbs(f, height, key, row) /\ Inserted(key, row) = f[height]
<1>1. PICK H : H = height
  OBVIOUS
<1> DEFINE IsUp(f) == f = [n \in 1 .. H |-> LevelUp(f[n - 1], n, key, row)]
           up == CHOOSE f : IsUp(f)
<1>2. Inserted(key, row) = up[H]
  BY <1>1 DEF Inserted, LevelUp
<1>3. PICK w : Climbs(w, H, key, row)
  BY <1>1, ClimbsExist
<1>4. IsUp(w)
  <2>1. [n \in 1 .. H |-> w[n]] = [n \in 1 .. H |-> LevelUp(w[n - 1], n, key, row)]
    BY <1>3 DEF Climbs
  <2> QED BY <1>3, <2>1 DEF Climbs
<1>5. IsUp(up)
  BY <1>4
<1>6. PICK f : f = up
  OBVIOUS
<1>7. Climbs(f, H, key, row)
  <2>1. f = [n \in 1 .. H |-> LevelUp(f[n - 1], n, key, row)]
    BY <1>5, <1>6
  <2>2. \A n \in 1 .. H : f[n] = LevelUp(f[n - 1], n, key, row)
    <3> SUFFICES ASSUME NEW n \in 1 .. H PROVE f[n] = LevelUp(f[n - 1], n, key, row)
      OBVIOUS
    <3> QED BY <2>1
  <2>3. f = [n \in 1 .. H |-> f[n]]
    BY <2>1
  <2> QED BY <2>2, <2>3 DEF Climbs
<1> QED BY <1>1, <1>2, <1>6, <1>7

\* An insertion returns a tree that is whole up to the root, with the pair.
LEMMA InsertedWhole ==
  ASSUME NEW at, SaneTree(at), NEW key \in TreeKeys, NEW row \in TreeRows
  PROVE  WholeTo(Inserted(key, row), height, root, height, at, key, RowsPlus(pages, at, key, row))
<1>1. PICK P, N, H, r, held : /\ P = pages /\ N = nextId /\ H = height /\ r = root
                              /\ held = RowsPlus(pages, at, key, row)
  OBVIOUS
<1>2. Sane(P, N, H, r, at, at) /\ key \in Int
  BY <1>1, TreeAssumption DEF SaneTree
<1>3. H \in Nat /\ 1 \in 1 .. H /\ H \in 1 .. H
  <2>1. Placed(P, N, H, at)
    BY <1>2 DEF Sane
  <2> QED BY <2>1, PlacedFacts
<1>4. PICK f : Climbs(f, H, key, row) /\ Inserted(key, row) = f[H]
  BY <1>1, <1>3, InsertedIs
<1>5. \A n \in 1 .. H : f[n] = LevelUp(f[n - 1], n, key, row) /\ PathTo(key)[H - n + 1] = at[key][n]
  <2> SUFFICES ASSUME NEW n \in 1 .. H PROVE PathTo(key)[H - n + 1] = at[key][n]
    BY <1>4 DEF Climbs
  <2>1. PICK i : i = H - n + 1
    OBVIOUS
  <2>2. i \in 1 .. H /\ H - i + 1 = n
    BY <1>3, <2>1
  <2>3. PathTo(key)[i] = at[key][H - i + 1]
    BY <1>1, <1>2, <2>2, PathIs
  <2> QED BY <2>1, <2>2, <2>3
<1> DEFINE Whole(n) == WholeTo(f[n], H, r, n, at, key, held)
<1>6. Whole(1)
  <2>1. PICK tree, id : tree = [pages |-> P, nextId |-> N, split |-> NoSplit] /\ id = at[key][1]
    OBVIOUS
  <2>2. PICK t : t = Stored(tree, id, WithRow(P[id], key, row))
    OBVIOUS
  <2>3. f[1] = t
    <3>1. H - 1 + 1 = H
      BY <1>3
    <3>2. f[1] = LevelUp(f[1 - 1], 1, key, row) /\ PathTo(key)[H] = id
      BY <1>3, <1>5, <2>1, <3>1
    <3> QED BY <1>1, <2>1, <2>2, <3>1, <3>2 DEF LevelUp
  <2>4. tree.pages = P /\ tree.nextId = N
    BY <2>1
  <2>5. WholeTo(t, H, r, 1, at, key, RowsPlus(P, at, key, row))
    BY <1>2, <2>1, <2>2, <2>4, ClimbLeaf
  <2> QED BY <1>1, <2>3, <2>5
<1>7. ASSUME NEW n \in 1 .. H, n + 1 \in 1 .. H, Whole(n) PROVE Whole(n + 1)
  <2>1. PICK m, s, id : m = n + 1 /\ s = f[n] /\ id = at[key][n + 1]
    OBVIOUS
  <2>2. f[m] = LevelUp(s, m, key, row) /\ PathTo(key)[H - m + 1] = id /\ m # 1
    <3>1. m - 1 = n /\ m # 1
      BY <2>1
    <3> QED BY <1>5, <1>7, <2>1, <3>1
  <2>3. f[m] = IF s.split = NoSplit THEN s ELSE Stored(s, id, WithChild(s.pages[id], s.split))
    BY <1>1, <2>2 DEF LevelUp
  <2>4. CASE s.split = NoSplit
    <3>1. PICK a, w : /\ Through(s, H, r, n, at, key, a, w)
                      /\ \A k \in Int : RowsAt(s.pages, a, k) = held[k]
      BY <1>7, <2>1 DEF WholeTo
    <3>2. \A j \in 1 .. H : j > m => j > n
      BY <1>3, <2>1
    <3>3. Through(s, H, r, m, at, key, a, w)
      BY <2>4, <3>1, <3>2 DEF Through
    <3> QED BY <2>1, <2>3, <2>4, <3>1, <3>3 DEF WholeTo
  <2>5. CASE s.split # NoSplit
    <3>1. PICK t : t = Stored(s, id, WithChild(s.pages[id], s.split))
      OBVIOUS
    <3>2. WholeTo(t, H, r, n + 1, at, key, held)
      <4>1. WholeTo(s, H, r, n, at, key, held) /\ id = at[key][n + 1]
        BY <1>7, <2>1
      <4> QED BY <1>2, <1>7, <2>5, <3>1, <4>1, ClimbOn
    <3> QED BY <2>1, <2>3, <2>5, <3>1, <3>2
  <2> QED BY <2>4, <2>5
<1> DEFINE Off == {n \in 1 .. H : ~Whole(n)}
           m == Min(Off)
<1>8. Off = {}
  <2> SUFFICES ASSUME Off # {} PROVE FALSE
    OBVIOUS
  <2>1. m \in Off /\ \A q \in Off : m <= q
    <3>1. Off \subseteq Nat
      OBVIOUS
    <3> HIDE DEF Off
    <3> QED BY <3>1, MinIsIn
  <2> HIDE DEF m
  <2>2. m \in 1 .. H /\ ~Whole(m)
    BY <2>1
  <2>3. m # 1
    BY <1>6, <2>2
  <2>4. m - 1 \in 1 .. H /\ (m - 1) + 1 = m /\ ~(m <= m - 1)
    BY <1>3, <2>2, <2>3
  <2>5. Whole(m - 1)
    BY <2>1, <2>4
  <2> HIDE DEF Whole
  <2>6. Whole((m - 1) + 1)
    BY <1>7, <2>2, <2>4, <2>5
  <2> QED BY <2>2, <2>4, <2>6
<1>9. Whole(H)
  BY <1>3, <1>8
<1> QED BY <1>1, <1>4, <1>9

TreeInv == \E at : SaneTree(at)

\* A lookup returns the rows of the leaf that the paths reach.
LEMMA LookupsAre ==
  \A at : SaneTree(at) => \A k \in Int : Lookup(k) = RowsAt(pages, at, k)
BY LookupIs

\* The same, in the next state.
LEMMA LookupsAreNext ==
  (\A at : SaneTree(at) => \A k \in Int : Lookup(k) = RowsAt(pages, at, k))'
BY LookupsAre, PTL

\* The empty tree.
LEMMA TreeInitSane ==
  ASSUME TreeInit
  PROVE  TreeInv /\ \A k \in Int : Lookup(k) = <<>>
<1>1. PICK at, P, leaf : /\ at = [k \in Int |-> [j \in 1 .. 1 |-> 0]] /\ P = pages
                         /\ leaf = Leaf(<<>>, <<>>, NoLeaf)
  OBVIOUS
<1>2. /\ P = [i \in {0} |-> leaf] /\ root = 0 /\ nextId = 1 /\ height = 1
  BY <1>1 DEF TreeInit
<1>3. /\ DOMAIN P = {0} /\ P[0] = leaf /\ 1 .. 1 = {1} /\ 1 .. 0 = {} /\ \A k \in Int : at[k][1] = 0
  BY <1>1, <1>2
<1>4. LeafOK(leaf) /\ leaf.keys = <<>> /\ leaf.next = NoLeaf /\ Range(leaf.keys) = {}
  <2>1. PICK K, R : K = <<>> /\ R = <<>>
    OBVIOUS
  <2>2. /\ K \in Seq(Int) /\ Len(K) = 0 /\ DOMAIN K = {}
    BY <2>1
  <2>3. Ascending(K) /\ Range(K) = {}
    BY <2>2 DEF Ascending, Range
  <2>4. R = [k \in Range(K) |-> R[k]]
    BY <2>1, <2>3
  <2>5. NoLeaf \in Int
    BY DEF NoLeaf
  <2>6. LeafOK(leaf) /\ leaf.keys = K /\ leaf.next = NoLeaf
    <3>1. leaf = Leaf(K, R, NoLeaf) /\ Range(K) \subseteq TreeKeys
      BY <1>1, <2>1, <2>3
    <3>2. \A k \in Range(K) : R[k] \in Seq(TreeRows) /\ R[k] # <<>>
      BY <2>3
    <3>3. leaf = [keys |-> K, rows |-> R, next |-> NoLeaf]
      BY <3>1 DEF Leaf
    <3>4. leaf.keys = K /\ leaf.rows = R /\ leaf.next = NoLeaf
      BY <3>3
    <3> QED BY <2>3, <2>4, <2>5, <3>1, <3>2, <3>4 DEF LeafOK
  <2> QED BY <2>1, <2>3, <2>6
<1>5. Placed(P, 1, 1, at)
  <2>1. at \in [Int -> [1 .. 1 -> {0}]]
    BY <1>1
  <2>2. {0} \subseteq 0 .. 1 - 1
    OBVIOUS
  <2> QED BY <1>3, <2>1, <2>2 DEF Placed
<1>6. Routed(P, 1, 0, at, at) /\ Leveled(1, at) /\ OneParent(1, at, at)
  <2>1. 1 .. 1 - 1 = {}
    OBVIOUS
  <2> QED BY <1>3, <2>1 DEF Routed, Leveled, OneParent
<1>7. AtHomeIn(P, 1, at)
  BY <1>3, <1>4 DEF AtHomeIn
<1>8. Linked(P, at)
  BY <1>3, <1>4 DEF Linked
<1>9. Sane(P, 1, 1, 0, at, at)
  BY <1>3, <1>4, <1>5, <1>6, <1>7, <1>8 DEF Sane
<1>10. SaneTree(at)
  BY <1>1, <1>2, <1>9 DEF SaneTree
<1>11. \A k \in Int : RowsAt(P, at, k) = <<>>
  BY <1>3, <1>4 DEF RowsAt, RowsIn
<1> QED BY <1>1, <1>10, <1>11, LookupsAre DEF TreeInv

\* An insertion that does not reach the root.
LEMMA TreeInsertAdds ==
  ASSUME TreeInv, NEW key \in TreeKeys, NEW row \in TreeRows, TreeInsert(key, row)
  PROVE  /\ TreeInv'
         /\ \A k \in Int : Lookup(k)' = IF k = key THEN RowsWith(Lookup(key), row) ELSE Lookup(k)
<1>1. PICK at : SaneTree(at)
  BY DEF TreeInv
<1>2. PICK t, held : t = Inserted(key, row) /\ held = RowsPlus(pages, at, key, row)
  OBVIOUS
<1>3. WholeTo(t, height, root, height, at, key, held)
  BY <1>1, <1>2, InsertedWhole
<1>4. t.split = NoSplit /\ pages' = t.pages /\ nextId' = t.nextId /\ root' = root /\ height' = height
  BY <1>2 DEF TreeInsert
<1>5. PICK a : Sane(t.pages, t.nextId, height, root, a, a) /\ \A k \in Int : RowsAt(t.pages, a, k) = held[k]
  BY <1>3, <1>4 DEF WholeTo, Through
<1>6. SaneTree(a)'
  BY <1>4, <1>5 DEF SaneTree
<1>7. \A k \in Int : Lookup(k)' = held[k]
  <2>1. \A k \in Int : Lookup(k)' = RowsAt(pages', a, k)
    BY <1>6, LookupsAreNext DEF RowsAt
  <2> QED BY <1>4, <1>5, <2>1
<1>8. key \in Int
  BY TreeAssumption
<1>9. \A k \in Int : Lookup(k) = RowsAt(pages, at, k)
  BY <1>1, LookupsAre
<1>10. \A k \in Int : held[k] = IF k = key THEN RowsWith(Lookup(key), row) ELSE Lookup(k)
  BY <1>2, <1>8, <1>9 DEF RowsPlus
<1> QED BY <1>6, <1>7, <1>10 DEF TreeInv

\* An insertion that splits the root.
LEMMA TreeGrowAdds ==
  ASSUME TreeInv, NEW key \in TreeKeys, NEW row \in TreeRows, TreeGrow(key, row)
  PROVE  /\ TreeInv'
         /\ \A k \in Int : Lookup(k)' = IF k = key THEN RowsWith(Lookup(key), row) ELSE Lookup(k)
<1>1. PICK at : SaneTree(at)
  BY DEF TreeInv
<1>2. PICK t, held, H, r : /\ t = Inserted(key, row) /\ held = RowsPlus(pages, at, key, row)
                           /\ H = height /\ r = root
  OBVIOUS
<1>3. WholeTo(t, H, r, H, at, key, held)
  BY <1>1, <1>2, InsertedWhole
<1>4. PICK P, N, sep, right : /\ P = t.pages /\ N = t.nextId /\ sep = t.split.sep /\ right = t.split.right
  OBVIOUS
<1>5. PICK Q : Q = [i \in DOMAIN P \cup {N} |-> IF i = N THEN Inner(<<sep>>, <<r, right>>) ELSE P[i]]
  OBVIOUS
<1>6. t.split # NoSplit /\ pages' = Q /\ nextId' = N + 1 /\ root' = N /\ height' = H + 1
  BY <1>2, <1>4, <1>5 DEF TreeGrow
<1>7. PICK a, via, id : /\ Sane(P, N, H, r, a, via) /\ Halved(P, H, a, via, H, id, sep, right)
                        /\ \A k \in Int : RowsAt(P, a, k) = held[k]
  BY <1>3, <1>4, <1>6 DEF WholeTo, Through
<1>8. PICK b : b = Above(a, H, N)
  OBVIOUS
<1>9. Sane(Q, N + 1, H + 1, N, b, b) /\ \A k \in Int : RowsAt(Q, b, k) = RowsAt(P, a, k)
  <2>1. DOMAIN Q = DOMAIN P \cup {N} /\ \A i \in DOMAIN Q : Q[i] = IF i = N THEN Inner(<<sep>>, <<r, right>>) ELSE P[i]
    BY <1>5
  <2> QED BY ONLY <1>7, <1>8, <2>1, GrowTree
<1>10. SaneTree(b)'
  BY <1>6, <1>9 DEF SaneTree
<1>11. \A k \in Int : Lookup(k)' = held[k]
  <2>1. \A k \in Int : Lookup(k)' = RowsAt(pages', b, k)
    BY <1>10, LookupsAreNext DEF RowsAt
  <2> QED BY <1>6, <1>7, <1>9, <2>1
<1>12. key \in Int
  BY TreeAssumption
<1>13. \A k \in Int : Lookup(k) = RowsAt(pages, at, k)
  BY <1>1, LookupsAre
<1>14. \A k \in Int : held[k] = IF k = key THEN RowsWith(Lookup(key), row) ELSE Lookup(k)
  BY <1>2, <1>12, <1>13 DEF RowsPlus
<1> QED BY <1>10, <1>11, <1>14 DEF TreeInv

\* A removal.
LEMMA TreeRemoveDrops ==
  ASSUME TreeInv, NEW key \in TreeKeys, NEW row, TreeRemove(key, row)
  PROVE  /\ TreeInv'
         /\ \A k \in Int : Lookup(k)' = IF k = key THEN OtherRows(Lookup(key), row) ELSE Lookup(k)
<1>1. PICK at : SaneTree(at)
  BY DEF TreeInv
<1>2. PICK P, N, H, r, id, nd : /\ P = pages /\ N = nextId /\ H = height /\ r = root /\ id = at[key][1]
                                /\ nd = WithoutRow(pages[id], key, row)
  OBVIOUS
<1>3. Sane(P, N, H, r, at, at) /\ key \in Int
  BY <1>1, <1>2, TreeAssumption DEF SaneTree
<1>4. PathTo(key)[height] = id
  BY <1>1, <1>2, <1>3, LookupIs
<1>5. /\ key \in Range(P[id].keys) /\ pages' = [P EXCEPT ![id] = nd]
      /\ nextId' = N /\ root' = r /\ height' = H
  BY <1>2, <1>4 DEF TreeRemove
<1>6. /\ LeafOK(P[id]) /\ AtHomeIn(P, H, at) /\ 1 \in 1 .. H
      /\ \A k \in Int : at[k][1] \in DOMAIN P
  <2>1. /\ Placed(P, N, H, at) /\ \A k \in Int : LeafOK(P[at[k][1]])
        /\ AtHomeIn(P, H, at)
    BY <1>3 DEF Sane
  <2>2. 1 \in 1 .. H /\ \A k \in Int, j \in 1 .. H : at[k][j] \in DOMAIN P
    BY <2>1, PlacedFacts
  <2> QED BY <1>2, <1>3, <2>1, <2>2
<1>7. /\ LeafOK(nd) /\ nd.next = P[id].next /\ Range(nd.keys) \subseteq Range(P[id].keys)
      /\ \A x : RowsIn(nd, x) = IF x = key THEN OtherRows(RowsIn(P[id], key), row) ELSE RowsIn(P[id], x)
  <2>1. PICK leaf : leaf = P[id]
    OBVIOUS
  <2>2. LeafOK(leaf) /\ key \in Range(leaf.keys) /\ nd = WithoutRow(leaf, key, row)
    BY <1>2, <1>5, <1>6, <2>1
  <2>3. /\ LeafOK(nd) /\ nd.next = leaf.next /\ Range(nd.keys) \subseteq Range(leaf.keys)
        /\ \A x : RowsIn(nd, x) = IF x = key THEN OtherRows(RowsIn(leaf, key), row) ELSE RowsIn(leaf, x)
    BY ONLY <2>2, WithoutRowDrops
  <2> QED BY <2>1, <2>3
<1>8. PICK Q : Q = pages'
  OBVIOUS
<1>9. DOMAIN Q = DOMAIN P /\ \A i \in DOMAIN P : Q[i] = IF i = at[key][1] THEN nd ELSE P[i]
  BY <1>2, <1>3, <1>5, <1>6, <1>8
<1>10. Sane(Q, N, H, r, at, at)
  <2>1. \A x \in Range(nd.keys) : at[x][1] = at[key][1]
    BY <1>2, <1>3, <1>6, <1>7 DEF AtHomeIn
  <2> QED BY <1>2, <1>3, <1>7, <1>9, <2>1, PutLeaf
<1>11. SaneTree(at)'
  BY <1>5, <1>8, <1>10 DEF SaneTree
<1>12. \A k \in Int : Lookup(k)' = RowsAt(Q, at, k)
  BY <1>8, <1>11, LookupsAreNext DEF RowsAt
<1>13. \A k \in Int : Lookup(k) = RowsAt(P, at, k)
  BY <1>1, <1>2, LookupsAre
<1>14. \A k \in Int : RowsAt(Q, at, k) = IF k = key THEN OtherRows(RowsAt(P, at, key), row)
                                         ELSE RowsAt(P, at, k)
  <2> TAKE k \in Int
  <2>1. CASE at[k][1] = id
    <3>1. Q[at[k][1]] = nd /\ P[at[k][1]] = P[id]
      BY <1>2, <1>6, <1>9, <2>1
    <3> QED BY <1>2, <1>7, <3>1 DEF RowsAt
  <2>2. CASE at[k][1] # id
    <3>1. Q[at[k][1]] = P[at[k][1]] /\ k # key
      BY <1>2, <1>6, <1>9, <2>2
    <3> QED BY <3>1 DEF RowsAt
  <2> QED BY <2>1, <2>2
<1> QED BY <1>3, <1>11, <1>12, <1>13, <1>14 DEF TreeInv

-----------------------------------------------------------------------------
(* Range scans.                                                            *)

EntryOf(R, k) == [key |-> k, rows |-> R[k]]

\* s lists the entries of the keys K, with their rows in R, by their keys.
Run(s, K, R) ==
  /\ s \in Seq({EntryOf(R, k) : k \in Int}) /\ K \subseteq Int
  /\ \A i \in 1 .. Len(s) : s[i].key \in K /\ s[i] = EntryOf(R, s[i].key)
  /\ \A k \in K : \E i \in 1 .. Len(s) : s[i].key = k
  /\ \A i, j \in 1 .. Len(s) : i < j => s[i].key < s[j].key

\* Nothing is a run of no keys.
LEMMA RunOfNone == ASSUME NEW R PROVE Run(<<>>, {}, R)
<1>1. PICK s : s = <<>>
  OBVIOUS
<1>2. s \in Seq({EntryOf(R, k) : k \in Int}) /\ Len(s) = 0 /\ 1 .. 0 = {}
  BY <1>1
<1> QED BY <1>1, <1>2 DEF Run

\* One entry is a run of its key.
LEMMA RunOfOne == ASSUME NEW R, NEW k \in Int PROVE Run(<<EntryOf(R, k)>>, {k}, R)
<1>1. PICK e, s : e = EntryOf(R, k) /\ s = <<e>>
  OBVIOUS
<1>2. e.key = k /\ e \in {EntryOf(R, x) : x \in Int}
  BY <1>1 DEF EntryOf
<1>3. s \in Seq({EntryOf(R, x) : x \in Int}) /\ Len(s) = 1 /\ 1 .. 1 = {1} /\ s[1] = e
  BY <1>1, <1>2
<1> QED BY <1>1, <1>2, <1>3 DEF Run

\* A run before one of larger keys.
LEMMA RunsConcat ==
  ASSUME NEW R, NEW s, NEW K, Run(s, K, R), NEW t, NEW L, Run(t, L, R),
         \A x \in K, y \in L : x < y
  PROVE  Run(s \o t, K \cup L, R)
<1>1. PICK S, a, b : S = {EntryOf(R, k) : k \in Int} /\ a = Len(s) /\ b = Len(t)
  OBVIOUS
<1>2. /\ s \in Seq(S) /\ t \in Seq(S) /\ K \subseteq Int /\ L \subseteq Int
      /\ \A i \in 1 .. a : s[i].key \in K /\ s[i] = EntryOf(R, s[i].key)
      /\ \A i \in 1 .. b : t[i].key \in L /\ t[i] = EntryOf(R, t[i].key)
      /\ \A k \in K : \E i \in 1 .. a : s[i].key = k
      /\ \A k \in L : \E i \in 1 .. b : t[i].key = k
      /\ \A i, j \in 1 .. a : i < j => s[i].key < s[j].key
      /\ \A i, j \in 1 .. b : i < j => t[i].key < t[j].key
  BY <1>1 DEF Run
<1>3. a \in Nat /\ b \in Nat
  BY <1>1, <1>2
<1>4. PICK u : u = s \o t
  OBVIOUS
<1>5. u \in Seq(S) /\ Len(u) = a + b /\ \A i \in 1 .. a + b : u[i] = IF i <= a THEN s[i] ELSE t[i - a]
  BY <1>1, <1>2, <1>4, ConcatProperties
<1>6. \A i \in 1 .. a + b : /\ i <= a => i \in 1 .. a /\ u[i] = s[i]
                            /\ ~(i <= a) => i - a \in 1 .. b /\ u[i] = t[i - a]
  BY <1>3, <1>5
<1>7. \A i \in 1 .. a + b : u[i].key \in K \cup L /\ u[i] = EntryOf(R, u[i].key)
  BY <1>2, <1>6
<1>8. ASSUME NEW k \in K \cup L PROVE \E i \in 1 .. a + b : u[i].key = k
  <2>1. CASE k \in K
    <3>1. PICK i \in 1 .. a : s[i].key = k
      BY <1>2, <2>1
    <3>2. i \in 1 .. a + b /\ i <= a
      BY <1>3
    <3>3. u[i].key = k
      BY <1>6, <3>1, <3>2
    <3> QED BY <3>2, <3>3
  <2>2. CASE k \in L
    <3>1. PICK i \in 1 .. b : t[i].key = k
      BY <1>2, <2>2
    <3>2. PICK j : j = a + i
      OBVIOUS
    <3>3. j \in 1 .. a + b /\ ~(j <= a) /\ j - a = i
      BY <1>3, <3>2
    <3>4. u[j].key = k
      BY <1>6, <3>1, <3>3
    <3> QED BY <3>3, <3>4
  <2> QED BY <2>1, <2>2
<1>9. ASSUME NEW i \in 1 .. a + b, NEW j \in 1 .. a + b, i < j PROVE u[i].key < u[j].key
  <2>1. CASE j <= a
    <3>1. i <= a
      BY <1>3, <1>9, <2>1
    <3> QED BY <1>2, <1>6, <1>9, <2>1, <3>1
  <2>2. CASE ~(j <= a) /\ i <= a
    <3>1. u[i].key \in K /\ u[j].key \in L
      BY <1>2, <1>6, <2>2
    <3> QED BY <3>1
  <2>3. CASE ~(j <= a) /\ ~(i <= a)
    <3>1. i - a < j - a
      BY <1>3, <1>9
    <3> QED BY <1>2, <1>6, <2>3, <3>1
  <2> QED BY <2>1, <2>2, <2>3
<1>10. K \cup L \subseteq Int
  BY <1>2
<1> QED BY <1>1, <1>4, <1>5, <1>7, <1>8, <1>9, <1>10 DEF Run

\* The entries of a leaf in a range.
LEMMA HitsRun ==
  ASSUME NEW leaf, LeafOK(leaf), NEW lo \in Int, NEW hi \in Int, NEW R,
         \A x \in Range(leaf.keys) : R[x] = leaf.rows[x]
  PROVE  Run(Hits(leaf, lo, hi), {x \in Range(leaf.keys) : lo <= x /\ x <= hi}, R)
<1>1. PICK K, n : K = leaf.keys /\ n = Len(K)
  OBVIOUS
<1>2. /\ K \in Seq(Int) /\ n \in Nat /\ DOMAIN K = 1 .. n
      /\ \A i \in 1 .. n : K[i] \in Int /\ K[i] \in Range(K)
      /\ \A i, j \in 1 .. n : i < j => K[i] < K[j]
      /\ Range(K) = {K[i] : i \in 1 .. n}
  <2>1. Ascending(K)
    BY <1>1 DEF LeafOK
  <2>2. K \in Seq(Int) /\ n \in Nat /\ DOMAIN K = 1 .. n
    BY <1>1, <2>1 DEF Ascending
  <2> QED BY <1>1, <2>1, <2>2 DEF Ascending, Range
<1> DEFINE In(i) == lo <= K[i] /\ K[i] <= hi
           ss == [i \in 1 .. n |-> IF In(i) THEN <<EntryOf(R, K[i])>> ELSE <<>>]
           Keys(i) == {K[j] : j \in {m \in 1 .. i : In(m)}}
<1>3. Hits(leaf, lo, hi) = FlattenSeq(ss)
  <2>1. \A i \in 1 .. n : EntryOf(R, K[i]) = [key |-> K[i], rows |-> leaf.rows[K[i]]]
    BY <1>1, <1>2 DEF EntryOf
  <2>2. PICK tt : tt = [i \in DOMAIN leaf.keys |->
                    IF lo <= leaf.keys[i] /\ leaf.keys[i] <= hi
                    THEN <<[key |-> leaf.keys[i], rows |-> leaf.rows[leaf.keys[i]]]>> ELSE <<>>]
    OBVIOUS
  <2>3. Hits(leaf, lo, hi) = FlattenSeq(tt)
    BY <2>2 DEF Hits
  <2>4. tt = ss
    BY <1>1, <1>2, <2>1, <2>2
  <2> QED BY <2>3, <2>4
<1>4. \A i \in 1 .. n : ss[i] = IF In(i) THEN <<EntryOf(R, K[i])>> ELSE <<>>
  OBVIOUS
<1>5. Len(ss) = n /\ (n = 0 => ss = <<>>)
  <2>1. ss = [i \in 1 .. n |-> ss[i]]
    OBVIOUS
  <2> HIDE DEF ss
  <2>2. PICK S : S = {ss[i] : i \in 1 .. n}
    OBVIOUS
  <2>3. \A i \in 1 .. n : ss[i] \in S
    BY <2>2
  <2>4. ss \in Seq(S) /\ Len(ss) = n
    <3>1. n \in Nat
      BY <1>2
    <3>2. [i \in 1 .. n |-> ss[i]] \in Seq(S) /\ Len([i \in 1 .. n |-> ss[i]]) = n
      BY ONLY <2>3, <3>1
    <3> QED BY <2>1, <3>2
  <2> QED BY <2>4, EmptySeq
<1>6. Keys(n) = {x \in Range(leaf.keys) : lo <= x /\ x <= hi}
  BY <1>1, <1>2
<1> HIDE DEF ss
<1>7. Run(FlattenSeq(ss), Keys(n), R)
  <2>1. CASE n = 0
    <3>1. FlattenSeq(ss) = <<>>
      BY <1>5, <2>1 DEF FlattenSeq
    <3>2. Keys(n) = {}
      BY <2>1
    <3> QED BY <3>1, <3>2, RunOfNone
  <2>2. CASE n # 0
    <3> DEFINE f == CHOOSE h : h = [i \in 1 .. n |-> IF i = 1 THEN ss[i] ELSE h[i - 1] \o ss[i]]
    <3>1. FlattenSeq(ss) = f[n]
      BY <1>5, <2>2 DEF FlattenSeq
    <3>2. \E h : h = [i \in 1 .. n |-> IF i = 1 THEN ss[i] ELSE h[i - 1] \o ss[i]]
      <4>1. PICK h : Joined(h, ss, n)
        BY <1>2, JoinedExist
      <4> QED BY <4>1 DEF Joined
    <3>3. f = [i \in 1 .. n |-> IF i = 1 THEN ss[i] ELSE f[i - 1] \o ss[i]]
      BY <3>2
    <3> HIDE DEF f
    <3>4. \A i \in 1 .. n : f[i] = IF i = 1 THEN ss[i] ELSE f[i - 1] \o ss[i]
      BY <3>3
    <3> DEFINE Own(i) == IF In(i) THEN {K[i]} ELSE {}
    <3>5. \A i \in 1 .. n : Run(ss[i], Own(i), R)
      <4> TAKE i \in 1 .. n
      <4>1. CASE In(i)
        BY <1>2, <1>4, <4>1, RunOfOne
      <4>2. CASE ~In(i)
        BY <1>4, <4>2, RunOfNone
      <4> QED BY <4>1, <4>2
    <3>6. \A i \in 1 .. n : i # 1 => Keys(i) = Keys(i - 1) \cup Own(i) /\ \A x \in Keys(i - 1), y \in Own(i) : x < y
      <4> SUFFICES ASSUME NEW i \in 1 .. n, i # 1
                   PROVE  Keys(i) = Keys(i - 1) \cup Own(i) /\ \A x \in Keys(i - 1), y \in Own(i) : x < y
        OBVIOUS
      <4>0. i \in Nat /\ i - 1 \in Nat /\ i >= 1
        BY <1>2
      <4>1. \A j : j \in 1 .. i <=> j \in 1 .. i - 1 \/ j = i
        BY ONLY <4>0
      <4>2. \A j \in 1 .. i - 1 : j \in 1 .. n /\ j < i
        BY <1>2
      <4>3. Keys(i) = Keys(i - 1) \cup Own(i)
        BY <4>1
      <4>4. \A x \in Keys(i - 1), y \in Own(i) : x < y
        BY <1>2, <4>2
      <4> QED BY <4>3, <4>4
    <3>7. Keys(1) = Own(1)
      OBVIOUS
    <3> HIDE DEF Own, Keys
    <3> DEFINE Wrong == {i \in 1 .. n : ~Run(f[i], Keys(i), R)}
    <3>8. Wrong = {}
      <4> SUFFICES ASSUME Wrong # {} PROVE FALSE
        OBVIOUS
      <4>1. Wrong \subseteq Nat
        OBVIOUS
      <4> DEFINE i == Min(Wrong)
      <4>2. i \in Wrong /\ \A q \in Wrong : i <= q
        <5> HIDE DEF Wrong
        <5> QED BY <4>1, MinIsIn
      <4> HIDE DEF i
      <4>3. i \in 1 .. n /\ ~Run(f[i], Keys(i), R)
        BY <4>2
      <4>4. i # 1
        BY <3>4, <3>5, <3>7, <4>3
      <4>5. i - 1 \in 1 .. n /\ ~(i <= i - 1)
        BY <1>2, <4>3, <4>4
      <4>6. Run(f[i - 1], Keys(i - 1), R)
        BY <4>2, <4>5
      <4>7. Run(f[i - 1] \o ss[i], Keys(i - 1) \cup Own(i), R)
        BY <3>5, <3>6, <4>3, <4>4, <4>6, RunsConcat
      <4> QED BY <3>4, <3>6, <4>3, <4>4, <4>7
    <3>9. n \in 1 .. n
      BY <1>2, <2>2
    <3> QED BY <3>1, <3>8, <3>9
  <2> QED BY <2>1, <2>2
<1> QED BY <1>3, <1>6, <1>7

\* The keys in the leaf of k and behind it, and their leaves.
Ahead(at, k) == {x \in Int : at[x][1] = at[k][1] \/ x > k}
LeavesAhead(at, k) == {at[x][1] : x \in Ahead(at, k)}

\* The keys with rows among them, from lo to hi.
Due(P, at, k, lo, hi) ==
  {x \in Ahead(at, k) : x \in Range(P[at[x][1]].keys) /\ lo <= x /\ x <= hi}

\* The link of a leaf leads to the keys behind it.
LEMMA LinkGoesOn ==
  ASSUME NEW P, NEW at, Linked(P, at), NEW k \in Int
  PROVE  /\ P[at[k][1]].next = NoLeaf => \A x \in Ahead(at, k) : at[x][1] = at[k][1]
         /\ P[at[k][1]].next # NoLeaf =>
              \E y \in Int : /\ at[y][1] = P[at[k][1]].next
                             /\ \A x \in Int : at[x][1] = at[k][1] => x < y
                             /\ Ahead(at, y) = {x \in Int : x >= y}
                             /\ \A x \in Int : x \in Ahead(at, k) <=> at[x][1] = at[k][1] \/ x >= y
<1>1. ASSUME P[at[k][1]].next = NoLeaf PROVE \A x \in Ahead(at, k) : at[x][1] = at[k][1]
  <2> TAKE x \in Ahead(at, k)
  <2>1. x \in Int /\ (at[x][1] = at[k][1] \/ x > k)
    BY DEF Ahead
  <2>2. x > k => x >= k
    BY <2>1
  <2> QED BY <1>1, <2>1, <2>2 DEF Linked
<1>2. ASSUME P[at[k][1]].next # NoLeaf
      PROVE  \E y \in Int : /\ at[y][1] = P[at[k][1]].next
                            /\ \A x \in Int : at[x][1] = at[k][1] => x < y
                            /\ Ahead(at, y) = {x \in Int : x >= y}
                            /\ \A x \in Int : x \in Ahead(at, k) <=> at[x][1] = at[k][1] \/ x >= y
  <2>1. PICK id, new : id = at[k][1] /\ new = P[at[k][1]].next
    OBVIOUS
  <2>2. PICK y \in Int : at[y - 1][1] = id /\ at[y][1] = new
    BY <1>2, <2>1 DEF Linked
  <2>3. new # id
    BY <1>2, <2>1 DEF Linked
  <2>4. \A x, l, m \in Int : x < l /\ l < m /\ at[x][1] = at[m][1] => at[l][1] = at[x][1]
    BY DEF Linked
  <2>5. ASSUME NEW x \in Int, at[x][1] = id PROVE x < y
    <3> SUFFICES ASSUME x >= y PROVE FALSE
      OBVIOUS
    <3>1. x # y
      BY <2>2, <2>3, <2>5
    <3>2. y - 1 \in Int /\ y - 1 < y /\ y < x
      BY <3>1
    <3>3. at[y][1] = at[y - 1][1]
      BY <2>2, <2>4, <2>5, <3>2
    <3> QED BY <2>2, <2>3, <3>3
  <2>6. ASSUME NEW x \in Int, at[x][1] = new PROVE x >= y
    <3> SUFFICES ASSUME x < y PROVE FALSE
      OBVIOUS
    <3>1. y - 1 \in Int /\ y - 1 < y
      OBVIOUS
    <3>2. x # y - 1
      BY <2>2, <2>3, <2>6
    <3>3. x < y - 1
      BY <3>2
    <3>4. at[y - 1][1] = at[x][1]
      BY <2>2, <2>4, <2>6, <3>1, <3>3
    <3> QED BY <2>2, <2>3, <2>6, <3>4
  <2>7. k < y
    BY <2>1, <2>5
  <2>8. ASSUME NEW x \in Int, x > k, x < y PROVE at[x][1] = id
    <3>1. CASE x = y - 1
      BY <2>2, <3>1
    <3>2. CASE x # y - 1
      <4>1. k < x /\ x < y - 1 /\ y - 1 \in Int
        BY <2>8, <3>2
      <4> QED BY <2>1, <2>2, <2>4, <4>1
    <3> QED BY <3>1, <3>2
  <2>9. Ahead(at, y) = {x \in Int : x >= y}
    <3>1. ASSUME NEW x \in Int PROVE x \in Ahead(at, y) <=> x >= y
      <4>1. x \in Ahead(at, y) <=> at[x][1] = new \/ x > y
        BY <2>2 DEF Ahead
      <4>2. x >= y => x = y \/ x > y
        OBVIOUS
      <4>3. x > y => x >= y
        OBVIOUS
      <4> QED BY <2>2, <2>6, <4>1, <4>2, <4>3
    <3> QED BY <3>1 DEF Ahead
  <2>10. ASSUME NEW x \in Int PROVE x \in Ahead(at, k) <=> at[x][1] = id \/ x >= y
    <3>1. x \in Ahead(at, k) <=> at[x][1] = id \/ x > k
      BY <2>1 DEF Ahead
    <3>2. x >= y => x > k
      BY <2>7
    <3>3. x > k => x >= y \/ at[x][1] = id
      BY <2>8
    <3> QED BY <3>1, <3>2, <3>3
  <2> QED BY <2>1, <2>2, <2>5, <2>9, <2>10
<1> QED BY <1>1, <1>2

\* There are as many leaves ahead as pages at most.
LEMMA LeavesFinite ==
  ASSUME NEW P, NEW N, NEW H, NEW at, Placed(P, N, H, at), NEW k \in Int
  PROVE  /\ IsFiniteSet(DOMAIN P) /\ Cardinality(DOMAIN P) \in Nat
         /\ IsFiniteSet(LeavesAhead(at, k)) /\ Cardinality(LeavesAhead(at, k)) \in Nat
         /\ Cardinality(LeavesAhead(at, k)) <= Cardinality(DOMAIN P)
         /\ at[k][1] \in LeavesAhead(at, k)
<1>1. /\ 1 \in 1 .. H /\ \A x \in Int : at[x][1] \in DOMAIN P
  BY PlacedFacts
<1>2. IsFiniteSet(DOMAIN P)
  <2>1. N \in Nat /\ DOMAIN P \in SUBSET (0 .. N - 1)
    BY DEF Placed
  <2>2. IsFiniteSet(0 .. N - 1)
    BY <2>1, FS_Interval
  <2> QED BY <2>1, <2>2, FS_Subset
<1>3. LeavesAhead(at, k) \in SUBSET DOMAIN P
  BY <1>1 DEF LeavesAhead, Ahead
<1>4. IsFiniteSet(LeavesAhead(at, k)) /\ Cardinality(LeavesAhead(at, k)) <= Cardinality(DOMAIN P)
  BY <1>2, <1>3, FS_Subset
<1>5. at[k][1] \in LeavesAhead(at, k)
  BY DEF LeavesAhead, Ahead
<1> QED BY <1>2, <1>4, <1>5, FS_CardinalityType

\* One leaf less.
LEMMA OneLeafLess ==
  ASSUME NEW P, NEW N, NEW H, NEW at, Placed(P, N, H, at), NEW k \in Int, NEW y \in Int,
         \A x \in Int : at[x][1] = at[k][1] => x < y,
         Ahead(at, y) = {x \in Int : x >= y},
         \A x \in Int : x \in Ahead(at, k) <=> at[x][1] = at[k][1] \/ x >= y
  PROVE  Cardinality(LeavesAhead(at, y)) = Cardinality(LeavesAhead(at, k)) - 1
<1>1. PICK A, B, id : A = LeavesAhead(at, k) /\ B = LeavesAhead(at, y) /\ id = at[k][1]
  OBVIOUS
<1>2. IsFiniteSet(A) /\ id \in A /\ Cardinality(A) \in Nat
  BY <1>1, LeavesFinite
<1>3. id \notin B
  <2> SUFFICES ASSUME NEW x \in Ahead(at, y), at[x][1] = id PROVE FALSE
    BY <1>1 DEF LeavesAhead
  <2>1. x \in Int /\ x >= y
    OBVIOUS
  <2>2. x < y
    BY <1>1, <2>1
  <2> QED BY <2>1, <2>2
<1>4. A = B \cup {id}
  <2>1. \A x \in Ahead(at, k) : at[x][1] \in B \cup {id}
    <3> TAKE x \in Ahead(at, k)
    <3>1. x \in Int
      BY DEF Ahead
    <3>2. at[x][1] = id \/ x \in Ahead(at, y)
      BY <1>1, <3>1
    <3> QED BY <1>1, <3>2 DEF LeavesAhead
  <2>2. \A x \in Ahead(at, y) : at[x][1] \in A
    BY <1>1 DEF LeavesAhead
  <2> QED BY <1>1, <1>2, <2>1, <2>2 DEF LeavesAhead
<1>5. B = A \ {id}
  BY <1>3, <1>4
<1>6. Cardinality(A \ {id}) = Cardinality(A) - 1
  BY <1>2, FS_RemoveElement
<1> QED BY <1>1, <1>5, <1>6

\* What is due from the leaf of k: its own entries, and what is due from the next.
InRange(leaf, lo, hi) == {x \in Range(leaf.keys) : lo <= x /\ x <= hi}
DueFrom(P, at, k, lo, hi, leaf, own) ==
  /\ own \subseteq Int
  /\ leaf.next = NoLeaf \/ (\E z \in Range(leaf.keys) : z > hi) => Due(P, at, k, lo, hi) = own
  /\ leaf.next # NoLeaf =>
       \E y \in Int : /\ at[y][1] = leaf.next
                      /\ Cardinality(LeavesAhead(at, y)) = Cardinality(LeavesAhead(at, k)) - 1
                      /\ Due(P, at, k, lo, hi) = own \cup Due(P, at, y, lo, hi)
                      /\ \A x \in own, z \in Due(P, at, y, lo, hi) : x < z

\* What is due from a leaf on is its own keys, then what is due from the next.
LEMMA DueGoesOn ==
  ASSUME NEW P, NEW N, NEW H, NEW r, NEW at, Sane(P, N, H, r, at, at), NEW k \in Int,
         NEW lo \in Int, NEW hi \in Int
  PROVE  DueFrom(P, at, k, lo, hi, P[at[k][1]], InRange(P[at[k][1]], lo, hi))
<1>0. PICK leaf, own : leaf = P[at[k][1]] /\ own = InRange(P[at[k][1]], lo, hi)
  OBVIOUS
<1>0a. leaf = P[at[k][1]] /\ own = {x \in Range(leaf.keys) : lo <= x /\ x <= hi}
  BY <1>0 DEF InRange
<1> USE <1>0a
<1>1. Placed(P, N, H, at) /\ AtHomeIn(P, H, at) /\ Linked(P, at)
  BY DEF Sane
<1>2. 1 \in 1 .. H
  BY <1>1, PlacedFacts
<1>3. \A x \in Range(leaf.keys) : x \in Int /\ at[x][1] = at[k][1]
  BY <1>1, <1>2 DEF AtHomeIn
<1>4. own \subseteq Int
  BY <1>3
<1>5. own = {x \in Int : at[x][1] = at[k][1] /\ x \in Range(P[at[x][1]].keys) /\ lo <= x /\ x <= hi}
  BY <1>3
<1>6. ASSUME leaf.next = NoLeaf PROVE Due(P, at, k, lo, hi) = own
  <2>1. \A x \in Int : x \in Ahead(at, k) <=> at[x][1] = at[k][1]
    <3>1. \A x \in Ahead(at, k) : at[x][1] = at[k][1]
      BY <1>1, <1>6, LinkGoesOn
    <3> QED BY <3>1 DEF Ahead
  <2>2. Ahead(at, k) \subseteq Int
    BY DEF Ahead
  <2> QED BY <1>5, <2>1, <2>2 DEF Due
<1>7. ASSUME leaf.next # NoLeaf
      PROVE  \E y \in Int : /\ at[y][1] = leaf.next
                            /\ Cardinality(LeavesAhead(at, y)) = Cardinality(LeavesAhead(at, k)) - 1
                            /\ Due(P, at, k, lo, hi) = own \cup Due(P, at, y, lo, hi)
                            /\ \A x \in own, z \in Due(P, at, y, lo, hi) : x < z
                            /\ (\E z \in Range(leaf.keys) : z > hi) => Due(P, at, y, lo, hi) = {}
  <2>1. PICK y \in Int : /\ at[y][1] = leaf.next
                         /\ \A x \in Int : at[x][1] = at[k][1] => x < y
                         /\ Ahead(at, y) = {x \in Int : x >= y}
                         /\ \A x \in Int : x \in Ahead(at, k) <=> at[x][1] = at[k][1] \/ x >= y
    BY <1>1, <1>7, LinkGoesOn
  <2>2. Cardinality(LeavesAhead(at, y)) = Cardinality(LeavesAhead(at, k)) - 1
    BY <1>1, <2>1, OneLeafLess
  <2>3. Ahead(at, k) \subseteq Int
    BY DEF Ahead
  <2>4. \A x \in Int : x \in Ahead(at, k) <=> at[x][1] = at[k][1] \/ x \in Ahead(at, y)
    BY <2>1
  <2>5. Due(P, at, k, lo, hi) = own \cup Due(P, at, y, lo, hi)
    <3>1. Ahead(at, y) \subseteq Int
      BY <2>1
    <3> QED BY <1>5, <2>3, <2>4, <3>1 DEF Due
  <2>6. \A z \in Due(P, at, y, lo, hi) : z \in Int /\ z >= y /\ z <= hi
    BY <2>1 DEF Due
  <2>7. \A x \in own, z \in Due(P, at, y, lo, hi) : x < z
    <3> TAKE x \in own, z \in Due(P, at, y, lo, hi)
    <3>1. x \in Int /\ x < y /\ z \in Int /\ z >= y
      BY <1>5, <2>1, <2>6
    <3> QED BY <3>1
  <2>8. (\E z \in Range(leaf.keys) : z > hi) => Due(P, at, y, lo, hi) = {}
    <3> SUFFICES ASSUME NEW z \in Range(leaf.keys), z > hi, NEW x \in Due(P, at, y, lo, hi) PROVE FALSE
      OBVIOUS
    <3>1. z \in Int /\ z < y /\ x \in Int /\ x >= y /\ x <= hi
      BY <1>3, <2>1, <2>6
    <3> QED BY <3>1
  <2> QED BY <2>1, <2>2, <2>5, <2>7, <2>8
<1>8. ASSUME NEW z \in Range(leaf.keys), z > hi PROVE Due(P, at, k, lo, hi) = own
  <2>1. CASE leaf.next = NoLeaf
    BY <1>6, <2>1
  <2>2. CASE leaf.next # NoLeaf
    <3>1. PICK y \in Int : /\ Due(P, at, k, lo, hi) = own \cup Due(P, at, y, lo, hi)
                           /\ (\E q \in Range(leaf.keys) : q > hi) => Due(P, at, y, lo, hi) = {}
      BY <1>7, <2>2
    <3> QED BY <1>8, <3>1
  <2> QED BY <2>1, <2>2
<1> QED BY <1>0, <1>4, <1>6, <1>7, <1>8 DEF DueFrom

\* The walks of `fuel` pages, given those of one page less.
WalkRow(f, fuel, lo, hi) ==
  [id \in DOMAIN pages \cup {NoLeaf} |->
     IF id = NoLeaf \/ fuel = 0 \/ ~IsLeaf(pages[id]) THEN <<>>
     ELSE Hits(pages[id], lo, hi)
            \o IF \E k \in Range(pages[id].keys) : k > hi THEN <<>>
               ELSE f[fuel - 1][pages[id].next]]

TreeWalks(f, n, lo, hi) == f = [k \in 0 .. n |-> WalkRow(f, k, lo, hi)]

\* The walks of k pages depend on those of k - 1 only.
LEMMA SameWalkRow ==
  ASSUME NEW f, NEW g, NEW lo, NEW hi, NEW k \in Nat, k # 0 => f[k - 1] = g[k - 1]
  PROVE  WalkRow(f, k, lo, hi) = WalkRow(g, k, lo, hi)
<1>1. CASE k = 0
  BY <1>1 DEF WalkRow
<1>2. CASE k # 0
  BY <1>2 DEF WalkRow
<1> QED BY <1>1, <1>2

\* The walks exist.
LEMMA TreeWalksExist ==
  ASSUME NEW lo, NEW hi, NEW N \in Nat
  PROVE  \E f : TreeWalks(f, N, lo, hi)
<1> DEFINE Walked(n) == \E f : TreeWalks(f, n, lo, hi)
           Lacking == {n \in 0 .. N : ~Walked(n)}
<1> SUFFICES ASSUME Lacking # {} PROVE FALSE
  <2>1. N \notin Lacking => Walked(N)
    OBVIOUS
  <2> QED BY <2>1
<1>1. Lacking \subseteq Nat
  OBVIOUS
<1> DEFINE m == Min(Lacking)
<1>2. m \in Lacking /\ \A q \in Lacking : m <= q
  <2> HIDE DEF Lacking
  <2> QED BY <1>1, MinIsIn
<1> HIDE DEF m
<1>3. m \in 0 .. N /\ ~Walked(m)
  BY <1>2
<1>4. \E f : \A k \in 0 .. m - 1 : f[k] = WalkRow(f, k, lo, hi)
  <2>1. CASE m = 0
    BY <2>1
  <2>2. CASE m # 0
    <3>1. m - 1 \in 0 .. N /\ m - 1 \notin Lacking
      BY <1>2, <1>3, <2>2
    <3>2. PICK f : TreeWalks(f, m - 1, lo, hi)
      BY <3>1
    <3> QED BY <3>2 DEF TreeWalks
  <2> QED BY <2>1, <2>2
<1>5. PICK f : \A k \in 0 .. m - 1 : f[k] = WalkRow(f, k, lo, hi)
  BY <1>4
<1> DEFINE g == [k \in 0 .. m |-> IF k = m THEN WalkRow(f, m, lo, hi) ELSE f[k]]
<1>6. g = [k \in 0 .. m |-> g[k]] /\ g[m] = WalkRow(f, m, lo, hi)
      /\ \A k \in 0 .. m - 1 : g[k] = f[k]
  BY <1>3
<1> HIDE DEF g
<1>7. \A k \in 0 .. m : g[k] = WalkRow(g, k, lo, hi)
  <2> TAKE k \in 0 .. m
  <2>1. k # 0 => f[k - 1] = g[k - 1]
    <3>1. m \in Nat /\ k \in 0 .. m
      BY <1>3
    <3>2. k # 0 => k - 1 \in 0 .. m - 1
      BY ONLY <3>1
    <3> QED BY <1>6, <3>2
  <2>2. WalkRow(f, k, lo, hi) = WalkRow(g, k, lo, hi)
    BY <2>1, SameWalkRow
  <2>3. CASE k = m
    BY <1>6, <2>2, <2>3
  <2>4. CASE k # m
    <3>1. k \in 0 .. m - 1
      BY <1>3, <2>4
    <3> QED BY <1>5, <1>6, <2>2, <3>1
  <2> QED BY <2>3, <2>4
<1>8. TreeWalks(g, m, lo, hi)
  BY <1>6, <1>7 DEF TreeWalks
<1> QED BY <1>3, <1>8

\* The rows of every key.
RowsOf(P, at) == [k \in Int |-> RowsAt(P, at, k)]

\* A walk from the leaf of a key returns what is due from it on.
LEMMA WalkRuns ==
  ASSUME NEW at, SaneTree(at), NEW lo \in Int, NEW hi \in Int,
         NEW C \in Nat, NEW f, TreeWalks(f, C, lo, hi)
  PROVE  \A n \in 0 .. C, k \in Int :
           Cardinality(LeavesAhead(at, k)) <= n =>
             Run(f[n][at[k][1]], Due(pages, at, k, lo, hi), RowsOf(pages, at))
<1>1. PICK P, N, H, r, R : P = pages /\ N = nextId /\ H = height /\ r = root /\ R = RowsOf(pages, at)
  OBVIOUS
<1>2. /\ Sane(P, N, H, r, at, at) /\ Placed(P, N, H, at) /\ AtHomeIn(P, H, at)
      /\ \A k \in Int : LeafOK(P[at[k][1]])
  BY <1>1 DEF SaneTree, Sane
<1>3. /\ 1 \in 1 .. H /\ \A x \in Int : at[x][1] \in DOMAIN P /\ at[x][1] # NoLeaf
      /\ \A x \in Int : Cardinality(LeavesAhead(at, x)) \in Nat /\ Cardinality(LeavesAhead(at, x)) # 0
  <2>1. /\ 1 \in 1 .. H /\ NoLeaf \notin DOMAIN P /\ \A x \in Int, j \in 1 .. H : at[x][j] \in DOMAIN P
    BY <1>2, PlacedFacts
  <2>2. ASSUME NEW x \in Int
        PROVE  Cardinality(LeavesAhead(at, x)) \in Nat /\ Cardinality(LeavesAhead(at, x)) # 0
    <3>1. /\ IsFiniteSet(LeavesAhead(at, x)) /\ Cardinality(LeavesAhead(at, x)) \in Nat
          /\ at[x][1] \in LeavesAhead(at, x)
      BY <1>2, LeavesFinite
    <3> QED BY <3>1, FS_EmptySet
  <2> QED BY <2>1, <2>2
<1>4. \A n \in 0 .. C : f[n] = WalkRow(f, n, lo, hi)
  <2>1. f = [n \in 0 .. C |-> WalkRow(f, n, lo, hi)]
    BY DEF TreeWalks
  <2> SUFFICES ASSUME NEW n \in 0 .. C PROVE f[n] = WalkRow(f, n, lo, hi)
    OBVIOUS
  <2> QED BY <2>1
<1> DEFINE Right(n) == \A k \in Int : Cardinality(LeavesAhead(at, k)) <= n =>
                         Run(f[n][at[k][1]], Due(P, at, k, lo, hi), R)
           Wrong == {n \in 0 .. C : ~Right(n)}
<1>5. SUFFICES ASSUME Wrong # {} PROVE FALSE
  BY <1>1
<1> DEFINE n == Min(Wrong)
<1>6. n \in Wrong /\ \A q \in Wrong : n <= q
  <2>1. Wrong \subseteq Nat
    OBVIOUS
  <2> HIDE DEF Wrong
  <2> QED BY <1>5, <2>1, MinIsIn
<1> HIDE DEF n
<1>7. n \in 0 .. C /\ n \in Nat /\ ~Right(n)
  BY <1>6
<1>8. PICK k \in Int : /\ Cardinality(LeavesAhead(at, k)) <= n
                       /\ ~Run(f[n][at[k][1]], Due(P, at, k, lo, hi), R)
  BY <1>7
<1>9. n # 0 /\ n - 1 \in 0 .. C /\ ~(n <= n - 1)
  BY <1>3, <1>7, <1>8
<1>10. Right(n - 1)
  BY <1>6, <1>9
<1> HIDE DEF Right
<1>11. PICK leaf, own, id : /\ id = at[k][1] /\ leaf = P[id]
                            /\ own = {x \in Range(leaf.keys) : lo <= x /\ x <= hi}
  OBVIOUS
<1>12. LeafOK(leaf) /\ IsLeaf(leaf) /\ id \in DOMAIN P /\ id # NoLeaf
  BY <1>2, <1>3, <1>11, LeafFacts
<1>13. f[n][id] = Hits(leaf, lo, hi) \o (IF \E z \in Range(leaf.keys) : z > hi THEN <<>>
                                         ELSE f[n - 1][leaf.next])
  <2>1. f[n] = WalkRow(f, n, lo, hi)
    BY <1>4, <1>7
  <2> QED BY <1>1, <1>9, <1>11, <1>12, <2>1 DEF WalkRow
<1>14. Run(Hits(leaf, lo, hi), own, R)
  <2>1. \A x \in Range(leaf.keys) : R[x] = leaf.rows[x]
    <3> TAKE x \in Range(leaf.keys)
    <3>1. x \in Int /\ at[x][1] = id
      BY <1>2, <1>3, <1>11 DEF AtHomeIn
    <3>2. R[x] = RowsAt(P, at, x)
      BY <1>1, <3>1 DEF RowsOf
    <3> QED BY <1>11, <3>1, <3>2 DEF RowsAt, RowsIn
  <2> QED BY <1>11, <1>12, <2>1, HitsRun
<1>15. /\ own \subseteq Int
       /\ leaf.next = NoLeaf \/ (\E z \in Range(leaf.keys) : z > hi) => Due(P, at, k, lo, hi) = own
       /\ leaf.next # NoLeaf =>
            \E y \in Int : /\ at[y][1] = leaf.next
                           /\ Cardinality(LeavesAhead(at, y)) = Cardinality(LeavesAhead(at, k)) - 1
                           /\ Due(P, at, k, lo, hi) = own \cup Due(P, at, y, lo, hi)
                           /\ \A x \in own, z \in Due(P, at, y, lo, hi) : x < z
  <2>1. DueFrom(P, at, k, lo, hi, P[at[k][1]], InRange(P[at[k][1]], lo, hi))
    BY <1>2, DueGoesOn
  <2>2. leaf = P[at[k][1]] /\ own = InRange(P[at[k][1]], lo, hi)
    BY <1>11 DEF InRange
  <2>3. DueFrom(P, at, k, lo, hi, leaf, own)
    BY <2>1, <2>2
  <2> QED BY ONLY <2>3 DEF DueFrom
<1>16. CASE leaf.next = NoLeaf \/ \E z \in Range(leaf.keys) : z > hi
  <2>1. f[n][id] = Hits(leaf, lo, hi) \o <<>>
    <3>1. CASE \E z \in Range(leaf.keys) : z > hi
      BY <1>13, <3>1
    <3>2. CASE leaf.next = NoLeaf
      <4>1. f[n - 1] = WalkRow(f, n - 1, lo, hi)
        BY <1>4, <1>9
      <4>2. f[n - 1][NoLeaf] = <<>>
        BY <4>1 DEF WalkRow
      <4> QED BY <1>13, <3>2, <4>2
    <3> QED BY <1>16, <3>1, <3>2
  <2>2. Run(<<>>, {}, R)
    BY RunOfNone
  <2>3. Run(Hits(leaf, lo, hi) \o <<>>, own \cup {}, R)
    BY <1>14, <2>2, RunsConcat
  <2>4. own \cup {} = own /\ Due(P, at, k, lo, hi) = own
    BY <1>15, <1>16
  <2> QED BY <1>8, <1>11, <2>1, <2>3, <2>4
<1>17. CASE ~(leaf.next = NoLeaf \/ \E z \in Range(leaf.keys) : z > hi)
  <2>1. PICK y \in Int : /\ at[y][1] = leaf.next
                         /\ Cardinality(LeavesAhead(at, y)) = Cardinality(LeavesAhead(at, k)) - 1
                         /\ Due(P, at, k, lo, hi) = own \cup Due(P, at, y, lo, hi)
                         /\ \A x \in own, z \in Due(P, at, y, lo, hi) : x < z
    BY <1>15, <1>17
  <2>2. Cardinality(LeavesAhead(at, y)) <= n - 1
    BY <1>3, <1>7, <1>8, <2>1
  <2>3. Run(f[n - 1][leaf.next], Due(P, at, y, lo, hi), R)
    BY <1>10, <2>1, <2>2 DEF Right
  <2>4. Run(Hits(leaf, lo, hi) \o f[n - 1][leaf.next], own \cup Due(P, at, y, lo, hi), R)
    BY <1>14, <2>1, <2>3, RunsConcat
  <2>5. f[n][id] = Hits(leaf, lo, hi) \o f[n - 1][leaf.next]
    BY <1>13, <1>17
  <2> QED BY <1>8, <1>11, <2>1, <2>4, <2>5
<1> QED BY <1>16, <1>17

\* A range scan returns what lookups of its keys return.
LEMMA ScanIsRight ==
  ASSUME TreeInv, NEW lo \in TreeKeys, NEW hi \in TreeKeys, lo <= hi
  PROVE  ScanMatchesLookups(lo, hi)
<1>1. PICK at : SaneTree(at)
  BY DEF TreeInv
<1>2. PICK P, N, H, r, R, C : /\ P = pages /\ N = nextId /\ H = height /\ r = root
                              /\ R = RowsOf(pages, at) /\ C = Cardinality(DOMAIN pages)
  OBVIOUS
<1>3. /\ Placed(P, N, H, at) /\ AtHomeIn(P, H, at)
      /\ \A k \in Int : LeafOK(P[at[k][1]])
  BY <1>1, <1>2 DEF SaneTree, Sane
<1>4. lo \in Int /\ hi \in Int
  BY TreeAssumption
<1>5. C \in Nat /\ Cardinality(LeavesAhead(at, lo)) <= C
  BY <1>2, <1>3, <1>4, LeavesFinite
<1> DEFINE IsWalk(f) == f = [k \in 0 .. C |-> WalkRow(f, k, lo, hi)]
           walk == CHOOSE f : IsWalk(f)
<1>6. Scan(lo, hi) = walk[C][PathTo(lo)[height]]
  BY <1>2 DEF Scan, WalkRow
<1>7. \E f : IsWalk(f)
  <2>1. PICK f : TreeWalks(f, C, lo, hi)
    BY <1>5, TreeWalksExist
  <2> QED BY <2>1 DEF TreeWalks
<1>8. TreeWalks(walk, C, lo, hi)
  BY <1>7 DEF TreeWalks
<1> HIDE DEF walk
<1>9. PathTo(lo)[height] = at[lo][1]
  BY <1>1, <1>4, LookupIs
<1>10. C \in 0 .. C
  BY <1>5
<1>11. PICK K, found : K = Due(P, at, lo, lo, hi) /\ found = Scan(lo, hi)
  OBVIOUS
<1>12. Run(found, K, R)
  <2>1. Run(walk[C][at[lo][1]], Due(pages, at, lo, lo, hi), RowsOf(pages, at))
    BY <1>1, <1>4, <1>5, <1>8, <1>10, WalkRuns
  <2> QED BY <1>2, <1>6, <1>9, <1>11, <2>1
<1>13. \A k \in Int : R[k] = Lookup(k) /\ R[k] = RowsIn(P[at[k][1]], k)
  BY <1>1, <1>2, LookupIs DEF RowsOf, RowsAt
<1>14. K = {x \in TreeKeys : lo <= x /\ x <= hi /\ Lookup(x) # <<>>}
  <2>1. ASSUME NEW x \in Int PROVE x \in Range(P[at[x][1]].keys) <=> Lookup(x) # <<>>
    <3>1. PICK leaf : leaf = P[at[x][1]]
      OBVIOUS
    <3>2. LeafOK(leaf) /\ Lookup(x) = RowsIn(leaf, x)
      BY <1>3, <1>13, <3>1
    <3>3. \A k \in Range(leaf.keys) : leaf.rows[k] # <<>>
      BY <3>2 DEF LeafOK
    <3> QED BY <3>1, <3>2, <3>3 DEF RowsIn
  <2>2. \A x \in Int : x \in Range(P[at[x][1]].keys) => x \in TreeKeys
    BY <1>3 DEF LeafOK
  <2>3. \A x \in Int : lo <= x => x \in Ahead(at, lo)
    <3> SUFFICES ASSUME NEW x \in Int, lo <= x PROVE x \in Ahead(at, lo)
      OBVIOUS
    <3>1. x = lo \/ x > lo
      BY <1>4
    <3> QED BY <3>1 DEF Ahead
  <2>4. Ahead(at, lo) \subseteq Int /\ TreeKeys \subseteq Int
    BY TreeAssumption DEF Ahead
  <2>5. \A x : x \in K <=> x \in Int /\ x \in Range(P[at[x][1]].keys) /\ lo <= x /\ x <= hi
    BY <1>11, <2>3, <2>4 DEF Due
  <2> QED BY <2>1, <2>2, <2>4, <2>5
<1>15. /\ Len(found) \in Nat /\ DOMAIN found = 1 .. Len(found)
       /\ \A i \in 1 .. Len(found) : found[i].key \in K /\ found[i] = EntryOf(R, found[i].key)
       /\ \A k \in K : \E i \in 1 .. Len(found) : found[i].key = k
       /\ \A i, j \in 1 .. Len(found) : i < j => found[i].key < found[j].key
       /\ K \subseteq Int
  <2>1. PICK S : S = {EntryOf(R, k) : k \in Int}
    OBVIOUS
  <2>2. found \in Seq(S)
    BY <1>12, <2>1 DEF Run
  <2>3. Len(found) \in Nat /\ DOMAIN found = 1 .. Len(found)
    BY <2>2
  <2> QED BY <1>12, <2>3 DEF Run
<1>16. \A k \in K : EntryOf(R, k) = [key |-> k, rows |-> Lookup(k)]
  BY <1>13, <1>15 DEF EntryOf
<1>17. Range(found) = {[key |-> k, rows |-> Lookup(k)] : k \in K}
  <2>1. ASSUME NEW i \in 1 .. Len(found)
        PROVE  \E k \in K : found[i] = [key |-> k, rows |-> Lookup(k)]
    BY <1>15, <1>16
  <2>2. ASSUME NEW k \in K PROVE \E i \in 1 .. Len(found) : found[i] = [key |-> k, rows |-> Lookup(k)]
    <3>1. PICK i \in 1 .. Len(found) : found[i].key = k
      BY <1>15
    <3>2. found[i] = EntryOf(R, k)
      BY <1>15, <3>1
    <3> QED BY <1>16, <3>2
  <2>3. \A e : e \in Range(found) <=> \E i \in 1 .. Len(found) : e = found[i]
    BY ONLY <1>15 DEF Range
  <2>4. \A e : e \in Range(found) <=> \E k \in K : e = [key |-> k, rows |-> Lookup(k)]
    <3> TAKE e
    <3>1. ASSUME e \in Range(found) PROVE \E k \in K : e = [key |-> k, rows |-> Lookup(k)]
      <4>1. PICK i \in 1 .. Len(found) : e = found[i]
        BY <2>3, <3>1
      <4> QED BY <2>1, <4>1
    <3>2. ASSUME NEW k \in K, e = [key |-> k, rows |-> Lookup(k)] PROVE e \in Range(found)
      <4>1. PICK i \in 1 .. Len(found) : found[i] = [key |-> k, rows |-> Lookup(k)]
        BY <2>2
      <4> QED BY <2>3, <3>2, <4>1
    <3> QED BY <3>1, <3>2
  <2> QED BY ONLY <2>4
<1> QED BY <1>11, <1>14, <1>15, <1>17 DEF ScanMatchesLookups

RowsNow == [k \in TreeKeys |-> Lookup(k)]

\* What an insertion and a removal do to the rows of the keys.
LEMMA TreeCalls ==
  ASSUME TreeInv, NEW p \in TreePairs
  PROVE  /\ TreeInsert(p[1], p[2]) \/ TreeGrow(p[1], p[2]) => TreeInv' /\ Index!Add(p[1], p[2])
         /\ TreeRemove(p[1], p[2]) => TreeInv' /\ Index!Drop(p[1], p[2])
<1>1. PICK key, row : key = p[1] /\ row = p[2]
  OBVIOUS
<1>2. key \in TreeKeys /\ row \in TreeRows /\ TreeKeys \subseteq Int
  BY <1>1, TreeAssumption DEF TreeKeys, TreeRows
<1>3. \A k \in TreeKeys : RowsNow[k] = Lookup(k) /\ RowsNow'[k] = Lookup(k)'
  BY DEF RowsNow
<1>4. ASSUME TreeInsert(key, row) \/ TreeGrow(key, row) PROVE TreeInv' /\ Index!Add(key, row)
  <2>1. /\ TreeInv'
        /\ \A k \in Int : Lookup(k)' = IF k = key THEN RowsWith(Lookup(key), row) ELSE Lookup(k)
    BY <1>2, <1>4, TreeInsertAdds, TreeGrowAdds
  <2>2. RowsNow' = [RowsNow EXCEPT ![key] = RowsWith(RowsNow[key], row)]
    BY <1>2, <2>1 DEF RowsNow
  <2>3. PICK now, next : now = RowsNow /\ next = RowsNow'
    OBVIOUS
  <2>4. next = [now EXCEPT ![key] = IF row \in Range(now[key]) THEN now[key] ELSE Append(now[key], row)]
    BY ONLY <2>2, <2>3 DEF RowsWith
  <2>5. next = [now EXCEPT ![key] = IF row \in Range(@) THEN @ ELSE Append(@, row)]
    BY ONLY <2>4
  <2>6. Index!Add(key, row) <=> next = [now EXCEPT ![key] = IF row \in Range(@) THEN @ ELSE Append(@, row)]
    BY ONLY <2>3 DEF Index!Add, RowsNow, Range, Index!Range
  <2> QED BY <2>1, <2>5, <2>6
<1>5. ASSUME TreeRemove(key, row) PROVE TreeInv' /\ Index!Drop(key, row)
  <2>1. /\ TreeInv'
        /\ \A k \in Int : Lookup(k)' = IF k = key THEN OtherRows(Lookup(key), row) ELSE Lookup(k)
    BY <1>2, <1>5, TreeRemoveDrops
  <2>2. RowsNow' = [RowsNow EXCEPT ![key] = OtherRows(RowsNow[key], row)]
    BY <1>2, <2>1 DEF RowsNow
  <2>3. PICK now, next : now = RowsNow /\ next = RowsNow'
    OBVIOUS
  <2>4. next = [now EXCEPT ![key] = FlattenSeq([i \in DOMAIN now[key] |->
                                      IF now[key][i] = row THEN <<>> ELSE <<now[key][i]>>])]
    BY ONLY <2>2, <2>3 DEF OtherRows
  <2>5. \A s : Index!FlattenSeq(s) = FlattenSeq(s)
    BY ONLY TRUE DEF FlattenSeq, Index!FlattenSeq
  <2>6. PICK rest : rest = [i \in DOMAIN now[key] |-> IF now[key][i] = row THEN <<>> ELSE <<now[key][i]>>]
    OBVIOUS
  <2>7. Index!Drop(key, row) <=>
          next = [now EXCEPT ![key] = Index!FlattenSeq([i \in DOMAIN now[key] |->
                                        IF now[key][i] = row THEN <<>> ELSE <<now[key][i]>>])]
    BY ONLY <2>3 DEF Index!Drop, RowsNow
  <2>8. Index!FlattenSeq(rest) = FlattenSeq(rest)
    BY ONLY <2>5
  <2>9. Index!Drop(key, row)
    BY ONLY <2>4, <2>6, <2>7, <2>8
  <2> QED BY <2>1, <2>9
<1> QED BY <1>1, <1>4, <1>5

\* A step that changes nothing.
LEMMA TreeStutters ==
  ASSUME TreeInv, UNCHANGED treeVars
  PROVE  TreeInv' /\ Index!Unaffected
<1>1. PICK at : SaneTree(at)
  BY DEF TreeInv
<1>2. pages' = pages /\ root' = root /\ nextId' = nextId /\ height' = height
  BY DEF treeVars
<1>3. SaneTree(at)'
  BY <1>1, <1>2 DEF SaneTree
<1>4. \A k \in Int : Lookup(k) = RowsAt(pages, at, k) /\ Lookup(k)' = RowsAt(pages', at, k)
  BY <1>1, <1>3, LookupsAre, LookupsAreNext DEF RowsAt
<1>5. \A k \in TreeKeys : Lookup(k)' = Lookup(k)
  BY <1>2, <1>4, TreeAssumption
<1>6. RowsNow' = RowsNow
  BY <1>5 DEF RowsNow
<1> QED BY <1>3, <1>6 DEF TreeInv, Index!Unaffected, RowsNow

\* The B+tree is the index its callers see: for every set of pairs, every fanout
\* and every sequence of insertions and removals, through the splits of leaves,
\* inner nodes and roots, a lookup returns the rows of its key, in the order
\* they were inserted, and a range scan those of all keys of its range
\* (btree.rs).
THEOREM TreeIsKeyedRows == TreeSpec => ImplementsKeyedRows
<1>1. TreeInit => TreeInv /\ Index!Init
  <2> SUFFICES ASSUME TreeInit PROVE TreeInv /\ Index!Init
    OBVIOUS
  <2>1. TreeInv /\ \A k \in TreeKeys : Lookup(k) = <<>>
    BY TreeInitSane, TreeAssumption
  <2> QED BY <2>1 DEF Index!Init, TreeKeys, Index!TreeKeys
<1>2. TreeInv /\ [TreeNext]_treeVars => TreeInv' /\ Index!Next
  <2> SUFFICES ASSUME TreeInv, [TreeNext]_treeVars PROVE TreeInv' /\ Index!Next
    OBVIOUS
  <2>1. CASE UNCHANGED treeVars
    BY <2>1, TreeStutters DEF Index!Next
  <2>2. CASE TreeNext
    <3>1. PICK p \in TreePairs :
            TreeInsert(p[1], p[2]) \/ TreeGrow(p[1], p[2]) \/ TreeRemove(p[1], p[2])
      BY <2>2 DEF TreeNext
    <3> QED BY <3>1, TreeCalls DEF Index!Next
  <2> QED BY <2>1, <2>2
<1> DEFINE AsAsked == treeVars' # treeVars => \A p \in TreePairs :
                        /\ TreeInsert(p[1], p[2]) \/ TreeGrow(p[1], p[2]) => Index!Add(p[1], p[2])
                        /\ TreeRemove(p[1], p[2]) => Index!Drop(p[1], p[2])
           ScansAgree == \A lo, hi \in TreeKeys : lo <= hi => ScanMatchesLookups(lo, hi)
<1>3. TreeInv => AsAsked
  BY TreeCalls
<1>4. TreeInv => ScansAgree
  BY ScanIsRight
<1>5. TreeSpec => []TreeInv
  BY <1>1, <1>2, PTL DEF TreeSpec
<1>6. TreeSpec => Index!Spec
  BY <1>1, <1>2, <1>5, PTL DEF TreeSpec, Index!Spec
<1> HIDE DEF AsAsked, ScansAgree
<1>7. TreeSpec => [][AsAsked]_treeVars /\ []ScansAgree
  BY <1>3, <1>4, <1>5, PTL
<1> QED BY <1>6, <1>7, PTL DEF ImplementsKeyedRows, AsAsked, ScansAgree
=============================================================================
