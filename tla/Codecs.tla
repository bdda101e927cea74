-------------------------------- MODULE Codecs --------------------------------
(***************************************************************************)
(* The codecs of src/src: the integer encodings of encoding.rs, the run    *)
(* lists of rle.rs, the block compression of compress.rs, the front-coded  *)
(* dictionary of frontcode.rs, and the patterns of pattern.rs.  A step     *)
(* encodes the input, and the next one reads it back.                      *)
(***************************************************************************)
EXTENDS Expressions, SequencesExt, FiniteSetsExt

CONSTANTS
  CodecJobs,      \* the inputs, each with the codec it is for
  HalfRange,      \* 2^63: an integer is in -HalfRange .. HalfRange - 1
  VarintBase,     \* 128
  ShortBits,      \* 16: what encode_ints_best takes for a short range
  ByteBase,       \* 256: values of a byte of a run list
  RleHalf,        \* 128: a control byte below it counts literals
  Window,         \* LZ_WINDOW
  MinMatch,       \* LZ_MIN_MATCH
  MaxMatch,       \* LZ_MAX_MATCH
  Continuation,   \* the bytes 10xxxxxx
  CharCode        \* the characters of patterns and texts, with their order

VARIABLES
  codecJob,
  coded,      \* what the encoder wrote, in a sequence of its own
  readBack,   \* what the decoder made of it, likewise
  coding      \* "raw", "coded" or "read"

codecVars == <<codecJob, coded, readBack, coding>>

Wrap(n) == ((n + HalfRange) % (2 * HalfRange)) - HalfRange
RECURSIVE BitsNeeded(_)
BitsNeeded(n) == IF n = 0 THEN 0 ELSE 1 + BitsNeeded(n \div 2)
ZigZag(n) == IF n >= 0 THEN 2 * n ELSE -2 * n - 1
UnZigZag(u) == IF u % 2 = 0 THEN u \div 2 ELSE -(u \div 2) - 1
LargestIn(ns) == GreatestOf(Range(ns) \cup {0})

\* write_varint: the digits, low first, and a mark on all but the last.
RECURSIVE WriteVarint(_)
WriteVarint(n) ==
  IF n < VarintBase THEN <<n>> ELSE <<(n % VarintBase) + VarintBase>> \o WriteVarint(n \div VarintBase)

\* read_varint, over and over: the values that the bytes hold.
ReadVarints(bytes) ==
  LET ends == SetToSortSeq({k \in DOMAIN bytes : bytes[k] < VarintBase}, <)
      begin(j) == IF j = 1 THEN 1 ELSE ends[j - 1] + 1
  IN  [j \in DOMAIN ends |-> SumFunction([k \in begin(j) .. ends[j] |->
                                (bytes[k] % VarintBase) * VarintBase ^ (k - begin(j))])]

ZigZags(ns) == FlattenSeq([i \in DOMAIN ns |-> WriteVarint(ZigZag(ns[i]))])
UnZigZags(bytes) == LET us == ReadVarints(bytes) IN [i \in DOMAIN us |-> UnZigZag(us[i])]

\* bitpack keeps the low bits of each number.
Packed(ns, width) == [i \in DOMAIN ns |-> ns[i] % 2 ^ width]

(***************************************************************************)
(* encoding.rs.  A region is its sub-tag, its header, the count and the    *)
(* body, which is packed numbers or varints.                               *)
(***************************************************************************)
Region(tag, head, count, body) == [tag |-> tag, head |-> head, count |-> WriteVarint(count), body |-> body]
CountOf(region) == ReadVarints(region.count)[1]

Diffs(ns) == [i \in 1 .. Len(ns) - 1 |-> Wrap(ns[i + 1] - ns[i])]
SumsFrom(first, ds) == [k \in 1 .. Len(ds) + 1 |-> Wrap(first + SumFunction([i \in 1 .. k - 1 |-> ds[i]]))]
FirstOf(ns) == IF ns = <<>> THEN 0 ELSE ns[1]
SecondOf(ns) == IF Len(ns) < 2 THEN FirstOf(ns) ELSE ns[2]
Constantly(ns) == \A i \in 1 .. Len(ns) - 1 : ns[i] = ns[i + 1]

\* encode_bitpacked has no place for a negative number: it writes 0.
EncodeBitPacked(ns) ==
  LET up == [i \in DOMAIN ns |-> IF ns[i] < 0 THEN 0 ELSE ns[i]]
      width == BitsNeeded(LargestIn(up))
  IN  Region("bitpacked", <<width>>, Len(ns), Packed(up, width))
EncodeFor(ns) ==
  LET least == IF ns = <<>> THEN 0 ELSE LeastOf(Range(ns))
      offsets == [i \in DOMAIN ns |-> ns[i] - least]
      width == BitsNeeded(LargestIn(offsets))
  IN  Region("for", <<least, width>>, Len(ns), Packed(offsets, width))
EncodeDelta(ns) == Region("delta", <<FirstOf(ns)>>, Len(ns), ZigZags(Diffs(ns)))
EncodeDod(ns) == Region("dod", <<FirstOf(ns), SecondOf(ns)>>, Len(ns), ZigZags(Diffs(Diffs(ns))))
EncodeConst(n, count) == Region("const", <<n>>, count, <<>>)
EncodeZigZag(ns) == Region("zigzag", <<>>, Len(ns), ZigZags(ns))

\* Fault: a range of the limit itself is taken for too long.
ShortRangeBelow(ns) == GreatestOf(Range(ns)) - LeastOf(Range(ns)) < 2 ^ ShortBits - 1

ShortRange(ns) == GreatestOf(Range(ns)) - LeastOf(Range(ns)) <= 2 ^ ShortBits - 1

EncodeIntsBest(ns) ==
  IF ns = <<>> THEN EncodeConst(0, 0)
  ELSE IF Constantly(ns) THEN EncodeConst(ns[1], Len(ns))
  ELSE IF Len(ns) > 3 /\ Constantly(Diffs(Diffs(ns))) THEN EncodeDod(ns)
  ELSE IF Len(ns) > 2 /\ Constantly(Diffs(ns)) THEN EncodeDelta(ns)
  ELSE IF ShortRange(ns) THEN EncodeFor(ns)
  ELSE IF BitsNeeded(GreatestOf({ZigZag(n) : n \in Range(ns)})) <= ShortBits THEN EncodeBitPacked(ns)
  ELSE EncodeZigZag(ns)

\* decode_ints.  decode_delta and decode_dod give out the first without a look at the count.
DecodeInts(region) ==
  LET head == region.head
      count == CountOf(region)
      given == IF count = 0 THEN 1 ELSE count
  IN  CASE region.tag = "bitpacked" -> Packed(region.body, head[1])
        [] region.tag = "for" -> [i \in 1 .. count |-> head[1] + (region.body[i] % 2 ^ head[2])]
        [] region.tag = "delta" -> Upto(SumsFrom(head[1], UnZigZags(region.body)), given)
        [] region.tag = "dod" ->
             Upto(SumsFrom(head[1], SumsFrom(Wrap(head[2] - head[1]), UnZigZags(region.body))), given)
        [] region.tag = "const" -> [i \in 1 .. count |-> head[1]]
        [] region.tag = "zigzag" -> UnZigZags(region.body)

\* encode_nullsupp: a bit for each value, and the present ones after one another.
EncodeNulls(values) ==
  LET present == SelectSeq(values, LAMBDA v : ~IsNull(v))
  IN  Region("nullsupp", [i \in DOMAIN values |-> ~IsNull(values[i])], Len(values),
             [i \in DOMAIN present |-> present[i][2]])
DecodeNulls(region) ==
  [i \in 1 .. CountOf(region) |->
     IF region.head[i] THEN IntOf(region.body[Cardinality({k \in 1 .. i : region.head[k]})]) ELSE Null]

\* encode_badict: the entries in the order they are first met, and their ids.
EncodeEntries(values) ==
  LET first == SelectSeq([i \in DOMAIN values |-> i], LAMBDA i : \A k \in 1 .. i - 1 : values[k] # values[i])
      idOf(v) == CHOOSE id \in DOMAIN first : values[first[id]] = v
  IN  Region("badict", [id \in DOMAIN first |-> values[first[id]]], Len(values),
             FlattenSeq([i \in DOMAIN values |-> WriteVarint(idOf(values[i]) - 1)]))
DecodeEntries(region) == LET ids == ReadVarints(region.body) IN [i \in DOMAIN ids |-> region.head[ids[i] + 1]]

Encoders(scheme, ns) ==
  CASE scheme = "best" -> EncodeIntsBest(ns)
    [] scheme = "bitpacked" -> EncodeBitPacked(ns)
    [] scheme = "delta" -> EncodeDelta(ns)
    [] scheme = "dod" -> EncodeDod(ns)
    [] scheme = "zigzag" -> EncodeZigZag(ns)

(***************************************************************************)
(* rle.rs.  A run is the bytes of its value, low first, and four of its    *)
(* count.  The decoder takes the width of the column's kind for each run,  *)
(* the encoder that of the value's own: a null is eight bytes of zero in   *)
(* any column, a number of a wide one and other runs in a narrow one.      *)
(***************************************************************************)
Run(value, count) == [value |-> value, count |-> count]
CountWidth == 4
MaxCount == ByteBase ^ CountWidth - 1   \* u32::MAX, the longest run
ValueWidth == [bool |-> 1, int |-> 8, real |-> 8, text |-> 4, null |-> 8]
RunWidth(kind) == ValueWidth[kind] + CountWidth

ToBytes(n, width) == [i \in 1 .. width |-> (n \div ByteBase ^ (i - 1)) % ByteBase]
FromBytes(bytes) == FoldRight(LAMBDA b, n : b + ByteBase * n, bytes, 0)
TwosComplement(n, width) == IF 2 * n >= ByteBase ^ width THEN n - ByteBase ^ width ELSE n

EncodeRuns(list) ==
  FlattenSeq([i \in DOMAIN list |-> ToBytes(list[i].value[2], ValueWidth[Kind(list[i].value)])
                                    \o ToBytes(list[i].count, CountWidth)])

ValueFrom(bytes, kind) ==
  CASE kind = "bool" -> BoolOf(bytes[1] # 0)
    [] kind = "text" -> TextOf(FromBytes(bytes))
    [] kind \in {"int", "real"} -> <<kind, TwosComplement(FromBytes(bytes), Len(bytes))>>
BadEncoding(bytes, kind) == Len(bytes) % RunWidth(kind) # 0
DecodeRuns(bytes, kind) ==
  [i \in 1 .. Len(bytes) \div RunWidth(kind) |->
     LET run == SubSeq(bytes, (i - 1) * RunWidth(kind) + 1, i * RunWidth(kind))
     IN  Run(ValueFrom(SubSeq(run, 1, ValueWidth[kind]), kind), FromBytes(After(run, ValueWidth[kind])))]
RunTotal(list) == SumFunction([i \in DOMAIN list |-> list[i].count])
Materialize(list) == FlattenSeq([i \in DOMAIN list |-> [k \in 1 .. list[i].count |-> list[i].value]])

\* coalesce, whose counts stop at the top of their type.
Coalesce(list) ==
  FoldLeft(LAMBDA out, r :
             IF out # <<>> /\ Last(out).value = r.value
             THEN [out EXCEPT ![Len(out)].count = LeastOf({@ + r.count, MaxCount})]
             ELSE Append(out, r), <<>>, list)

DropFirst(list, n) ==
  LET remaining(i) == LET before == n - RunTotal(SubSeq(list, 1, i - 1)) IN IF before > 0 THEN before ELSE 0
      left(i) == IF remaining(i) < list[i].count THEN list[i].count - remaining(i) ELSE 0
      kept == SelectSeq([i \in DOMAIN list |-> i], LAMBDA i : remaining(i) = 0 \/ left(i) > 0)
  IN  [k \in DOMAIN kept |-> Run(list[kept[k]].value, left(kept[k]))]

(***************************************************************************)
(* compress.rs.                                                            *)
(***************************************************************************)
SameFrom(bytes, i, j, limit) ==
  GreatestOf({n \in 0 .. limit : j + n - 1 <= Len(bytes) /\ \A k \in 0 .. n - 1 : bytes[i + k] = bytes[j + k]})

\* flush_literals: pieces of at most 128 bytes, each behind its length.
LiteralRun(bytes, from, to) ==
  LET pieces == (to - from + RleHalf) \div RleHalf
      piece(p) == SubSeq(bytes, from + (p - 1) * RleHalf, LeastOf({to, from + p * RleHalf - 1}))
  IN  FlattenSeq([p \in 1 .. pieces |-> <<Len(piece(p)) - 1>> \o piece(p)])

\* rle_compress from position i, with the bytes from lit on not yet written.
RECURSIVE RleFrom(_, _, _)
RleFrom(bytes, i, lit) ==
  IF i > Len(bytes) THEN LiteralRun(bytes, lit, Len(bytes))
  ELSE LET run == 1 + SameFrom(bytes, i, i + 1, RleHalf - 1 + 3 - 1)
       IN  IF run >= 3
           THEN LiteralRun(bytes, lit, i - 1) \o <<RleHalf + run - 3, bytes[i]>> \o RleFrom(bytes, i + run, i + run)
           ELSE RleFrom(bytes, i + 1, lit)

RECURSIVE RleDecompress(_)
RleDecompress(body) ==
  IF body = <<>> THEN <<>>
  ELSE IF body[1] < RleHalf
       THEN SubSeq(body, 2, body[1] + 2) \o RleDecompress(After(body, body[1] + 2))
       ELSE [k \in 1 .. body[1] - RleHalf + 3 |-> body[2]] \o RleDecompress(After(body, 2))

\* longest_match: the first, farthest candidate of the greatest length.
LongestMatch(bytes, pos) ==
  LET most == LeastOf({Len(bytes) - pos + 1, MaxMatch})
      candidates == GreatestOf({1, pos - Window}) .. pos - 1
      len(c) == SameFrom(bytes, c, pos, most)
      best == GreatestOf({len(c) : c \in candidates} \cup {0})
  IN  IF most < MinMatch \/ best = 0 THEN <<0, 0>>
      ELSE <<pos - LeastOf({c \in candidates : len(c) = best}), best>>

RECURSIVE LzFrom(_, _)
LzFrom(bytes, i) ==
  IF i > Len(bytes) THEN <<>>
  ELSE LET match == LongestMatch(bytes, i)
       IN  IF match[2] >= MinMatch THEN <<[dist |-> match[1], len |-> match[2]]>> \o LzFrom(bytes, i + match[2])
           ELSE <<[dist |-> 0, byte |-> bytes[i]]>> \o LzFrom(bytes, i + 1)

\* A reference may reach into the bytes that it writes itself.
CopiedBack(out, dist, len) ==
  LET grown[k \in 1 .. Len(out) + len] == IF k <= Len(out) THEN out[k] ELSE grown[k - dist]
  IN  [k \in 1 .. Len(out) + len |-> grown[k]]
LzDecompress(units) ==
  FoldLeft(LAMBDA out, u : IF u.dist > 0 THEN CopiedBack(out, u.dist, u.len) ELSE Append(out, u.byte), <<>>, units)

\* A control byte stands before every eight units.
LzSize(units) ==
  (Len(units) + 7) \div 8 + SumFunction([k \in DOMAIN units |-> IF units[k].dist > 0 THEN 3 ELSE 1])

Frame(codec, bytes) ==
  LET body == CASE codec = "store" -> bytes [] codec = "rle" -> RleFrom(bytes, 1, 1) [] codec = "lz" -> LzFrom(bytes, 1)
  IN  [codec |-> codec, len |-> Len(bytes), body |-> body]
FrameSize(f) == 6 + (IF f.codec = "lz" THEN LzSize(f.body) ELSE Len(f.body))
CompressBest(bytes) ==
  LET frames == <<Frame("store", bytes), Frame("rle", bytes), Frame("lz", bytes)>>
  IN  frames[CHOOSE i \in 1 .. 3 : \A k \in 1 .. 3 : \/ FrameSize(frames[i]) < FrameSize(frames[k])
                                                     \/ FrameSize(frames[i]) = FrameSize(frames[k]) /\ i <= k]
Unframe(f) ==
  LET bytes == CASE f.codec = "store" -> f.body [] f.codec = "rle" -> RleDecompress(f.body)
                 [] f.codec = "lz" -> LzDecompress(f.body)
  IN  IF Len(bytes) # f.len THEN <<"length mismatch">> ELSE bytes

(***************************************************************************)
(* frontcode.rs.  A string is a sequence of bytes.                         *)
(***************************************************************************)
\* common_prefix_len steps back over continuation bytes, and stops behind a lead byte.
CommonPrefixLen(a, b) ==
  LET same == GreatestOf({n \in 0 .. LeastOf({Len(a), Len(b)}) : SubSeq(a, 1, n) = SubSeq(b, 1, n)})
  IN  GreatestOf({n \in 0 .. same : n = 0 \/ b[n] \notin Continuation})

BuildBlock(strings, asked) ==
  LET stride == IF asked = 0 THEN 1 ELSE asked
      shared(i) == IF (i - 1) % stride = 0 THEN 0 ELSE CommonPrefixLen(strings[i - 1], strings[i])
  IN  [stride |-> stride,
       entries |-> [i \in DOMAIN strings |-> [shared |-> shared(i), suffix |-> After(strings[i], shared(i))]],
       restarts |-> {i \in DOMAIN strings : (i - 1) % stride = 0}]

\* The strings from entry `from` to entry `to`, each built on the one before.
DecodeFrom(block, from, to) ==
  FoldLeft(LAMBDA out, e :
             Append(out, IF (from + Len(out) - 1) % block.stride = 0 THEN e.suffix
                         ELSE SubSeq(Last(out), 1, e.shared) \o e.suffix),
           <<>>, SubSeq(block.entries, from, to))
DecodeAll(block) == DecodeFrom(block, 1, Len(block.entries))
GetString(block, i) == Last(DecodeFrom(block, GreatestOf({r \in block.restarts : r <= i}), i))

Sooner(a, b) ==   \* a < b as byte strings
  LET n == GreatestOf({k \in 0 .. LeastOf({Len(a), Len(b)}) : SubSeq(a, 1, k) = SubSeq(b, 1, k)})
  IN  n < Len(b) /\ (n = Len(a) \/ a[n + 1] < b[n + 1])

\* find: a binary search over the restarts, then forward in the block before.
RECURSIVE Bisect(_, _, _, _)
Bisect(block, target, lo, hi) ==
  IF lo >= hi THEN lo
  ELSE LET mid == (lo + hi) \div 2
       IN  IF Sooner(target, GetString(block, mid * block.stride + 1)) THEN Bisect(block, target, lo, mid)
           ELSE Bisect(block, target, mid + 1, hi)
Find(block, target) ==
  LET lo == Bisect(block, target, 0, Cardinality(block.restarts))
      at == IF lo = 0 THEN 0 ELSE lo - 1
      hits == {i \in at * block.stride + 1 .. LeastOf({(at + 1) * block.stride, Len(block.entries)}) :
                 GetString(block, i) = target}
  IN  IF hits = {} THEN 0 ELSE LeastOf(hits)

(***************************************************************************)
(* pattern.rs.  A compiled pattern is a sequence of tokens: the characters *)
(* one of them accepts, and whether it stands for a run of them.           *)
(***************************************************************************)
Chars == DOMAIN CharCode
One(c) == [accepts |-> {c}, star |-> FALSE]
AnyOne == [accepts |-> Chars, star |-> FALSE]
AnyRun == [accepts |-> Chars, star |-> TRUE]
IsAt(p, i, c) == i <= Len(p) /\ p[i] = c
BehindRun(p, i, c) == LeastOf({k \in i .. Len(p) + 1 : ~IsAt(p, k, c)})

RECURSIVE LikeTokens(_, _)
LikeTokens(p, i) ==
  IF i > Len(p) THEN <<>>
  ELSE CASE p[i] = "\\" -> IF i = Len(p) THEN <<One("\\")>> ELSE <<One(p[i + 1])>> \o LikeTokens(p, i + 2)
         [] p[i] = "%" -> <<AnyRun>> \o LikeTokens(p, BehindRun(p, i, "%"))
         [] p[i] = "_" -> <<AnyOne>> \o LikeTokens(p, i + 1)
         [] OTHER -> <<One(p[i])>> \o LikeTokens(p, i + 1)

\* parse_class: what the class names from i on, and where it ends.
RECURSIVE ClassFrom(_, _)
ClassFrom(p, i) ==
  IF i > Len(p) THEN <<{}, i>>
  ELSE IF p[i] = "]" THEN <<{}, i + 1>>
  ELSE LET isRange == IsAt(p, i + 1, "-")
           closed == isRange /\ i + 2 <= Len(p) /\ p[i + 2] # "]"
           named == IF closed THEN {c \in Chars : CharCode[p[i]] <= CharCode[c] /\ CharCode[c] <= CharCode[p[i + 2]]}
                    ELSE IF isRange THEN {p[i], "-"} ELSE {p[i]}
           rest == ClassFrom(p, i + (IF closed THEN 3 ELSE IF isRange THEN 2 ELSE 1))
       IN  <<named \cup rest[1], rest[2]>>
ParseClass(p, i) ==
  LET negated == i <= Len(p) /\ p[i] \in {"!", "^"}
      class == ClassFrom(p, IF negated THEN i + 1 ELSE i)
  IN  <<IF negated THEN Chars \ class[1] ELSE class[1], class[2]>>

RECURSIVE GlobTokens(_, _)
GlobTokens(p, i) ==
  IF i > Len(p) THEN <<>>
  ELSE CASE p[i] = "*" -> <<AnyRun>> \o GlobTokens(p, BehindRun(p, i, "*"))
         [] p[i] = "?" -> <<AnyOne>> \o GlobTokens(p, i + 1)
         [] p[i] = "[" -> LET class == ParseClass(p, i + 1)
                          IN  <<[accepts |-> class[1], star |-> FALSE]>> \o GlobTokens(p, class[2])
         [] p[i] = "\\" -> IF i = Len(p) THEN <<>> ELSE <<One(p[i + 1])>> \o GlobTokens(p, i + 2)
         [] OTHER -> <<One(p[i])>> \o GlobTokens(p, i + 1)

\* The atoms of a regex, without the anchors.
RECURSIVE RegexAtoms(_, _)
RegexAtoms(p, i) ==
  IF i > Len(p) \/ (p[i] = "$" /\ i = Len(p)) THEN <<>>
  ELSE LET class == ParseClass(p, i + 1)
           atom == CASE p[i] = "." -> <<Chars, i + 1>>
                     [] p[i] = "[" -> class
                     [] p[i] = "\\" -> <<{IF i = Len(p) THEN "\\" ELSE p[i + 1]}, i + 2>>
                     [] OTHER -> <<{p[i]}, i + 1>>
           star == IsAt(p, atom[2], "*")
       IN  <<[accepts |-> atom[1], star |-> star]>> \o RegexAtoms(p, IF star THEN atom[2] + 1 ELSE atom[2])
AnchoredStart(p) == IsAt(p, 1, "^")
\* The closing $ anchors unless a backslash or a class has taken it.
RECURSIVE EndsAtDollar(_, _)
EndsAtDollar(p, i) ==
  /\ i <= Len(p)
  /\ \/ p[i] = "$" /\ i = Len(p)
     \/ LET next == CASE p[i] = "[" -> ParseClass(p, i + 1)[2] [] p[i] = "\\" -> i + 2 [] OTHER -> i + 1
        IN  EndsAtDollar(p, IF IsAt(p, next, "*") THEN next + 1 ELSE next)

RECURSIVE LikeMatch(_, _)
LikeMatch(tokens, text) ==
  IF tokens = <<>> THEN text = <<>>
  ELSE IF Head(tokens).star THEN \E skip \in 0 .. Len(text) : LikeMatch(Tail(tokens), After(text, skip))
  ELSE text # <<>> /\ Head(text) \in Head(tokens).accepts /\ LikeMatch(Tail(tokens), Tail(text))
GlobMatch(tokens, text) == LikeMatch(tokens, text)

\* match_from: a star takes what it can, then gives back.
RECURSIVE MatchFrom(_, _, _)
MatchFrom(atoms, toEnd, text) ==
  IF atoms = <<>> THEN ~toEnd \/ text = <<>>
  ELSE LET atom == Head(atoms)
           count == GreatestOf({n \in 0 .. Len(text) : \A k \in 1 .. n : text[k] \in atom.accepts})
       IN  IF atom.star THEN \E take \in 0 .. count : MatchFrom(Tail(atoms), toEnd, After(text, take))
           ELSE text # <<>> /\ Head(text) \in atom.accepts /\ MatchFrom(Tail(atoms), toEnd, Tail(text))
IsMatch(p, text) ==
  LET atoms == RegexAtoms(p, IF AnchoredStart(p) THEN 2 ELSE 1)
      toEnd == EndsAtDollar(p, IF AnchoredStart(p) THEN 2 ELSE 1)
  IN  IF AnchoredStart(p) THEN MatchFrom(atoms, toEnd, text)
      ELSE \E start \in 0 .. Len(text) : MatchFrom(atoms, toEnd, After(text, start))

(***************************************************************************)
(* A step encodes, compiles or compresses the input; the next reads it.    *)
(***************************************************************************)
CodecInit == codecJob \in CodecJobs /\ coded = <<>> /\ readBack = <<>> /\ coding = "raw"

Writes(kind, what) ==
  /\ codecJob.kind = kind /\ coding = "raw"
  /\ coded' = <<what>> /\ coding' = "coded" /\ UNCHANGED <<codecJob, readBack>>
Reads(kind, what) ==
  /\ codecJob.kind = kind /\ coding = "coded"
  /\ readBack' = <<what>> /\ coding' = "read" /\ UNCHANGED <<codecJob, coded>>

WriteInts == Writes("ints", Encoders(codecJob.scheme, codecJob.values))
ReadInts == Reads("ints", DecodeInts(coded[1]))
WriteNulls == Writes("nulls", EncodeNulls(codecJob.values))
ReadNulls == Reads("nulls", DecodeNulls(coded[1]))
WriteEntries == Writes("entries", EncodeEntries(codecJob.values))
ReadEntries == Reads("entries", DecodeEntries(coded[1]))
WriteRuns == Writes("runs", EncodeRuns(codecJob.list))
ReadRuns ==
  Reads("runs", LET list == DecodeRuns(coded[1], codecJob.column)
                IN  IF BadEncoding(coded[1], codecJob.column) THEN [rejected |-> TRUE]
                    ELSE [rejected |-> FALSE, list |-> list, coalesced |-> Coalesce(list),
                          dropped |-> DropFirst(list, codecJob.n)])
WriteFrame == Writes("bytes", IF codecJob.codec = "best" THEN CompressBest(codecJob.bytes)
                              ELSE Frame(codecJob.codec, codecJob.bytes))
ReadFrame == Reads("bytes", Unframe(coded[1]))
WriteBlock == Writes("block", BuildBlock(codecJob.strings, codecJob.stride))
ReadBlock ==
  Reads("block", [all |-> DecodeAll(coded[1]), each |-> [i \in DOMAIN codecJob.strings |-> GetString(coded[1], i)],
                  at |-> Find(coded[1], codecJob.target)])
Compile ==
  Writes("pattern", CASE codecJob.form = "like" -> LikeTokens(codecJob.pattern, 1)
                      [] codecJob.form = "glob" -> GlobTokens(codecJob.pattern, 1)
                      [] codecJob.form = "regex" -> RegexAtoms(codecJob.pattern, IF AnchoredStart(codecJob.pattern) THEN 2 ELSE 1))
MatchText ==
  Reads("pattern", CASE codecJob.form = "like" -> LikeMatch(coded[1], codecJob.text)
                     [] codecJob.form = "glob" -> GlobMatch(coded[1], codecJob.text)
                     [] codecJob.form = "regex" -> IsMatch(codecJob.pattern, codecJob.text))

CodecNext ==
  \/ WriteInts \/ ReadInts \/ WriteNulls \/ ReadNulls \/ WriteEntries \/ ReadEntries \/ WriteRuns \/ ReadRuns
  \/ WriteFrame \/ ReadFrame \/ WriteBlock \/ ReadBlock \/ Compile \/ MatchText

(***************************************************************************)
(* What the decoders owe.                                                  *)
(***************************************************************************)
\* A packed number is never negative, and an empty list of deltas reads as one number.
Kept(scheme, ns) ==
  CASE scheme = "bitpacked" -> [i \in DOMAIN ns |-> IF ns[i] < 0 THEN 0 ELSE ns[i]]
    [] scheme \in {"delta", "dod"} /\ ns = <<>> -> <<0>>
    [] OTHER -> ns

\* A null is the zero of a column as wide as it, and no run of a narrower one.
RunsReadBack(list, column, n, got) ==
  LET rows == Materialize(list)
      stored == [i \in DOMAIN rows |-> IF IsNull(rows[i]) THEN <<column, 0>> ELSE rows[i]]
      fits == \A i \in DOMAIN list : ValueWidth[Kind(list[i].value)] = ValueWidth[column]
  IN  fits => /\ ~got.rejected
              /\ Materialize(got.list) = stored
              /\ RunTotal(got.list) <= MaxCount => Materialize(got.coalesced) = stored
              /\ \A i \in 1 .. Len(got.coalesced) - 1 : got.coalesced[i].value # got.coalesced[i + 1].value
              /\ Materialize(got.dropped) = After(stored, n)

\* The text is cut into one piece for each token, and each piece is the token's.
Fits(tokens, text, fromStart, toEnd) ==
  \E cut \in [0 .. Len(tokens) -> 0 .. Len(text)] :
    /\ fromStart => cut[0] = 0
    /\ toEnd => cut[Len(tokens)] = Len(text)
    /\ \A k \in DOMAIN tokens :
         /\ cut[k - 1] <= cut[k]
         /\ tokens[k].star \/ cut[k] = cut[k - 1] + 1
         /\ \A c \in cut[k - 1] + 1 .. cut[k] : text[c] \in tokens[k].accepts

(***************************************************************************)
(* What a codec wrote reads back as it was.  The choice among the integer  *)
(* encodings never takes one that loses a number; a string is found where  *)
(* it stands and nowhere else; and backtracking over a pattern gives TRUE  *)
(* where the text can be cut into the pieces that the pattern names.  A    *)
(* run list loses nulls, which an integer or real column reads as zeros,   *)
(* and past the top of a count rows.  Nothing is said of run lists with a  *)
(* null in a Boolean or text column, whose bytes are not of the layout of  *)
(* rle.rs:5-9: they are rejected or read as other runs.                    *)
(***************************************************************************)
CodecsRoundTrip ==
  coding = "read" =>
    LET j == codecJob
        got == readBack[1]
    IN  CASE j.kind = "ints" -> got = Kept(j.scheme, j.values)
          [] j.kind \in {"nulls", "entries"} -> got = j.values
          [] j.kind = "bytes" -> got = j.bytes
          [] j.kind = "runs" -> RunsReadBack(j.list, j.column, j.n, got)
          [] j.kind = "block" ->
               /\ got.all = j.strings /\ got.each = j.strings
               /\ (got.at = 0) = (j.target \notin Range(j.strings))
               /\ got.at # 0 => j.strings[got.at] = j.target
          [] j.kind = "pattern" ->
               got = Fits(coded[1], j.text, j.form # "regex" \/ AnchoredStart(j.pattern),
                               j.form # "regex" \/ EndsAtDollar(j.pattern, IF AnchoredStart(j.pattern) THEN 2 ELSE 1))
=============================================================================
