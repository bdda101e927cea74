------------------------------ MODULE HashIndex ------------------------------
(***************************************************************************)
(* The hash index of src/src/hashindex.rs: primary buckets of at most      *)
(* BucketCapacity pairs, each with a chain of overflow buckets.  A bucket  *)
(* is known by <<"primary", i>> or <<"overflow", id>>, and its `overflow`  *)
(* is the bucket behind it or NoBucket.                                    *)
(***************************************************************************)
EXTENDS Integers, Sequences, SequencesExt, FiniteSets, Functions

CONSTANTS
  HashKeys, HashRows,
  HashOf,           \* the mix of a key, before it is taken modulo the buckets
  BucketCapacity,   \* BUCKET_CAPACITY
  BucketCounts,     \* counts an index is made with or rehashed to
  MaxPairs          \* bound: pairs in the index

ASSUME HashAssumption ==
  /\ HashOf \in [HashKeys -> Nat]
  /\ BucketCapacity \in Nat \ {0} /\ BucketCounts \subseteq Nat \ 0 .. 3

NoBucket == <<"none", 0>>
Primary(i) == <<"primary", i>>
Overflow(id) == <<"overflow", id>>
EmptyBucket == [entries |-> <<>>, overflow |-> NoBucket]

VARIABLE
  hash   \* HashIndex: [count, bucket: name -> bucket, nextOverflow, len]

BucketOf(h, key) == Primary(HashOf[key] % h.count)

\* The buckets from `first` along the links: no more than there are.
ChainFrom(h, first) ==
  LET from[n \in 0 .. Cardinality(DOMAIN h.bucket)] ==
        [b \in DOMAIN h.bucket \cup {NoBucket} |->
          IF b = NoBucket \/ n = 0 THEN <<>>
          ELSE <<b>> \o from[n - 1][h.bucket[b].overflow]]
  IN  from[Cardinality(DOMAIN h.bucket)][first]

Chain(h, key) == ChainFrom(h, BucketOf(h, key))

NewIndex(n) ==
  [count |-> n, bucket |-> [b \in {Primary(i) : i \in 0 .. n - 1} |-> EmptyBucket],
   nextOverflow |-> 0, len |-> 0]

\* Fault: the new bucket is linked from the primary one, whatever is linked there.
LinkFromHead(chain) == Head(chain)

\* The bucket a new overflow bucket is linked from.
LinkFrom(chain) == Last(chain)

\* insert, insert_into and insert_overflow: the first bucket of the chain with
\* room takes the pair, or a new bucket at its end.
WithPair(h, pair) ==
  LET chain == Chain(h, pair.key)
      open == {i \in DOMAIN chain : Len(h.bucket[chain[i]].entries) < BucketCapacity}
      first == chain[CHOOSE i \in open : \A j \in open : i <= j]
      new == Overflow(h.nextOverflow)
      linked == [h.bucket EXCEPT ![LinkFrom(chain)].overflow = new]
  IN  IF open # {}
      THEN [h EXCEPT !.bucket[first].entries = Append(@, pair), !.len = @ + 1]
      ELSE [h EXCEPT !.len = @ + 1, !.nextOverflow = @ + 1,
                     !.bucket = [b \in DOMAIN h.bucket \cup {new} |->
                                   IF b = new THEN [entries |-> <<pair>>, overflow |-> NoBucket]
                                   ELSE linked[b]]]

\* The pairs of the chain from `first`, as lookup and iter meet them.
PairsFrom(h, first) ==
  LET chain == ChainFrom(h, first)
  IN  FlattenSeq([i \in DOMAIN chain |-> h.bucket[chain[i]].entries])

\* iter: the pairs of every chain.
Entries(h) == FlattenSeq([i \in 1 .. h.count |-> PairsFrom(h, Primary(i - 1))])

\* rehash: an index made anew from the pairs of the old one.
Rehashed(h, n) ==
  LET pairs == Entries(h)
      with[i \in 0 .. Len(pairs)] ==
        IF i = 0 THEN NewIndex(n) ELSE WithPair(with[i - 1], pairs[i])
  IN  with[Len(pairs)]

\* retain: every pair but this one.
OtherPairs(entries, pair) ==
  FlattenSeq([i \in DOMAIN entries |-> IF entries[i] = pair THEN <<>> ELSE <<entries[i]>>])

OverflowIds(h) == {id \in 0 .. h.nextOverflow : Overflow(id) \in DOMAIN h.bucket}

\* decode counts from the highest id it met, or from 0.
NextAfter(ids) == 1 + IF ids = {} THEN 0 ELSE CHOOSE id \in ids : \A o \in ids : o <= id

-----------------------------------------------------------------------------
HashInit == \E n \in BucketCounts : hash = NewIndex(n)

HashInsert(k, r) ==
  /\ hash.len < MaxPairs
  /\ hash' = WithPair(hash, [key |-> k, row |-> r])

\* remove: every copy of the pair goes, and the length falls by one.
HashRemove(k, r) ==
  LET pair == [key |-> k, row |-> r]
      chain == Range(Chain(hash, k))
  IN  /\ \E b \in chain : pair \in Range(hash.bucket[b].entries)
      /\ hash' = [hash EXCEPT
           !.len = @ - 1,
           !.bucket = [b \in DOMAIN hash.bucket |->
              LET old == hash.bucket[b]
              IN  IF b \in chain THEN [old EXCEPT !.entries = OtherPairs(old.entries, pair)]
                  ELSE old]]

Rehash(n) == hash' = Rehashed(hash, n)

\* encode, then decode in another process: the length is counted again.
HashReload ==
  hash' = [hash EXCEPT !.len = Len(Entries(hash)), !.nextOverflow = NextAfter(OverflowIds(hash))]

HashNext ==
  \/ \E k \in HashKeys, r \in HashRows : HashInsert(k, r) \/ HashRemove(k, r)
  \/ \E n \in BucketCounts : Rehash(n)
  \/ HashReload

HashSpec == HashInit /\ [][HashNext]_hash

-----------------------------------------------------------------------------
(* Properties.                                                             *)

\* lookup, with the copies of each row.
Copies(k, r) ==
  LET pairs == PairsFrom(hash, BucketOf(hash, k))
  IN  Cardinality({i \in DOMAIN pairs : pairs[i] = [key |-> k, row |-> r]})

Bag == INSTANCE PairBag WITH copies <- [p \in HashKeys \X HashRows |-> Copies(p[1], p[2])]

\* Insertions that overflow, removals that make room in the middle of a chain,
\* rehashes and reloads, in any order: a lookup finds each pair as often as it
\* was inserted since it was last removed.
ImplementsPairBag ==
  /\ Bag!Spec
  /\ [][hash' # hash => \A k \in HashKeys, r \in HashRows :
         /\ HashInsert(k, r) => Bag!Add(k, r)
         /\ HashRemove(k, r) => Bag!Drop(k, r)]_hash
  /\ [][hash' # hash =>
          (HashReload \/ (\E n \in BucketCounts : Rehash(n)) => Bag!Unaffected)]_hash
=============================================================================
