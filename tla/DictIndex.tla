------------------------------ MODULE DictIndex ------------------------------
(***************************************************************************)
(* The dictionary page of one indexed text column (dict.rs) and the index  *)
(* cache that points into its buffer (index.rs), as the statements of a    *)
(* script use them (script.rs, mutation.rs), with saving and loading       *)
(* (format.rs, verify.rs).                                                 *)
(*                                                                         *)
(* Texts get dictionary ids 0, 1, ... in the order they are interned.  An  *)
(* offset is the byte of a page at which the bytes of a text begin.        *)
(* `buffer` names the heap buffer the page has now: a grown page and a     *)
(* decoded one have a new buffer, and a cached pointer [buffer, off] into  *)
(* an older one dangles.  What a read through a dangling pointer returns,  *)
(* and its distance to the new buffer, are not determined.                 *)
(*                                                                         *)
(* `bound` is a history variable: FALSE once a file was loaded that had    *)
(* been saved with a dangling pointer.                                     *)
(***************************************************************************)
EXTENDS Integers, FiniteSets, SequencesExt, FiniteSetsExt

CONSTANTS
  Texts,      \* the literals scripts use
  TextLen,    \* the length of each
  Rows,       \* row ids
  MaxBuffer   \* bound on buffers made by growing and loading

ASSUME TextsAssumption == TextLen \in [Texts -> Nat] /\ MaxBuffer \in Nat

DictPageCapacity == 64
CountHeader == 4
EntryHeader == 8
NoPage == -1

VARIABLES
  dictPage,   \* Column::dict_page
  dict,       \* the interned texts, in id order: dict[id + 1]
  mirror,     \* Dict::entries: the offset of each
  capacity,   \* Dict::capacity, the length of the page's buffer
  page,       \* the page's buffer: offset -> dictionary id
  gen,        \* Page::gen
  buffer,
  entries,    \* IndexCache::entries: dictionary id -> entry
  textOf,     \* the text cell of each row of the table
  panicked,   \* an entry was written past the end of the page
  bound

dictVars == <<dictPage, dict, mirror, capacity, page, gen, buffer, entries, textOf,
              panicked, bound>>

Ids == 0 .. Len(dict) - 1
TextAt(id) == dict[id + 1]
IdOf(d, t) == CHOOSE id \in 0 .. Len(d) - 1 : d[id + 1] = t
Known(t) == \E id \in Ids : TextAt(id) = t

With(f, key, value) ==
  [x \in DOMAIN f \cup {key} |-> IF x = key THEN value ELSE f[x]]

\* Fault: the header of an entry is not counted.
UsedBytesNoHeader(d) ==
  LET used[n \in 0 .. Len(d)] == IF n = 0 THEN CountHeader ELSE used[n - 1] + TextLen[d[n]]
  IN  used[Len(d)]

\* used_bytes: the count header and every entry.
UsedBytes(d) ==
  LET used[n \in 0 .. Len(d)] ==
        IF n = 0 THEN CountHeader ELSE used[n - 1] + EntryHeader + TextLen[d[n]]
  IN  used[Len(d)]

\* Where an entry is when the entries lie packed in id order.
PackedOffset(d, id) == UsedBytes(SubSeq(d, 1, id)) + EntryHeader

\* Fault: growing keeps the generation.
NextGenSame(g) == g

\* replace_buf bumps the generation.
NextGen(g) == g + 1

-----------------------------------------------------------------------------
DictInit ==
  /\ dictPage = NoPage /\ dict = <<>> /\ mirror = <<>>
  /\ capacity = DictPageCapacity /\ page = <<>> /\ gen = 0 /\ buffer = 0
  /\ entries = <<>> /\ textOf = <<>>
  /\ panicked = FALSE /\ bound = TRUE

\* The new entry at the end of the used bytes; the mirror and the page agree on
\* every offset.
Appended(t, offsets, content) ==
  LET id == Len(dict)
      off == UsedBytes(dict) + EntryHeader
  IN  /\ dict' = Append(dict, t)
      /\ mirror' = With(offsets, id, off)
      /\ page' = With(content, off, id)

Fits(t, size) == UsedBytes(dict) + EntryHeader + TextLen[t] <= size

\* grow packs the entries it has in id order.
PackedMirror == [id \in Ids |-> PackedOffset(dict, id)]
PackedPage == [off \in {PackedOffset(dict, id) : id \in Ids} |->
                 CHOOSE id \in Ids : PackedOffset(dict, id) = off]

\* intern_text: a page is allocated for the first text (page 0, unless rows with
\* null texts or another dictionary came first); a text that is not known yet is
\* written in place, or after the page was grown, once, to twice its size.
Intern(t) ==
  \/ /\ Known(t)
     /\ UNCHANGED <<dictPage, dict, mirror, capacity, page, gen, buffer>>
  \/ /\ ~Known(t)
     /\ IF dictPage = NoPage THEN dictPage' \in {0, 1} ELSE UNCHANGED dictPage
     /\ \/ /\ Fits(t, capacity)
           /\ Appended(t, mirror, page)
           /\ UNCHANGED <<capacity, gen, buffer>>
        \/ /\ ~Fits(t, capacity) /\ Fits(t, 2 * capacity)
           /\ buffer < MaxBuffer
           /\ Appended(t, PackedMirror, PackedPage)
           /\ capacity' = 2 * capacity
           /\ gen' = NextGen(gen)
           /\ buffer' = buffer + 1

\* An entry that does not fit the grown page is written past its end: the slice
\* index panics and the process is gone.
Panic(t) ==
  /\ ~panicked /\ ~Known(t) /\ ~Fits(t, 2 * capacity)
  /\ panicked' = TRUE
  /\ UNCHANGED <<dictPage, dict, mirror, capacity, page, gen, buffer, entries,
                 textOf, bound>>

\* A pointer to the byte at `off` of the page's present buffer.
Captured(row, off) == [buffer |-> buffer', off |-> off, gen |-> gen', rows |-> {row}]

\* Fault: an entry lists the last row only.
ListedLast(id, row) == With(entries, id, Captured(row, mirror'[id]))

\* add_or_append: a known entry keeps its pointer and its generation.
Listed(id, row) ==
  IF id \in DOMAIN entries
  THEN [entries EXCEPT ![id].rows = @ \cup {row}]
  ELSE With(entries, id, Captured(row, mirror'[id]))

\* A row with text t is inserted.
InsertRow(row, t) ==
  /\ ~panicked /\ row \notin DOMAIN textOf
  /\ Intern(t)
  /\ entries' = Listed(IdOf(dict', t), row)
  /\ textOf' = With(textOf, row, t)
  /\ UNCHANGED <<panicked, bound>>

\* A statement that names t and does not change a row: a select, or a delete or
\* update whose predicate no row satisfies.
Mention(t) ==
  /\ ~panicked /\ Intern(t)
  /\ UNCHANGED <<entries, textOf, panicked, bound>>

Current(e) == e.buffer = buffer
Dangling == {id \in DOMAIN entries : ~Current(entries[id])}

\* probe, after t was interned: entries whose pointer is current are compared to
\* t; what the others hold is not determined.
DeleteEq(t) ==
  LET reads(id) == entries[id].off \in DOMAIN page' /\ dict'[page'[entries[id].off] + 1] = t
      fresh == {id \in DOMAIN entries : entries[id].buffer = buffer'}
      hits == {id \in fresh : reads(id)}
  IN  /\ ~panicked /\ Intern(t)
      /\ \E misread \in SUBSET (DOMAIN entries \ fresh) :
           LET gone == UNION {entries[id].rows : id \in hits \cup misread}
           IN  /\ textOf' = Restrict(textOf, DOMAIN textOf \ gone)
               /\ entries' = [id \in DOMAIN entries |->
                                [entries[id] EXCEPT !.rows = @ \ gone]]
      /\ UNCHANGED <<panicked, bound>>

\* The database is saved, and a process loads and verifies the file. A pointer is
\* saved as its distance to the page's buffer; the page comes back with
\* generation 0, the entries with the generation they had. A dictionary page
\* that was not page 0 is page 0 now, and its column's pointer fails verify.
Reload ==
  /\ ~panicked /\ dictPage = 0 /\ buffer < MaxBuffer
  /\ \A id \in DOMAIN entries : entries[id].gen = 0
  /\ gen' = 0
  /\ buffer' = buffer + 1
  /\ mirror' = PackedMirror
  /\ \E distance \in [Dangling -> {0} \cup DOMAIN page] :
       entries' = [id \in DOMAIN entries |->
                     [entries[id] EXCEPT
                        !.buffer = buffer + 1,
                        !.off = IF id \in Dangling THEN distance[id] ELSE @]]
  /\ bound' = (bound /\ Dangling = {})
  /\ UNCHANGED <<dictPage, dict, capacity, page, textOf, panicked>>

DictNext ==
  \/ \E row \in Rows, t \in Texts : InsertRow(row, t)
  \/ \E t \in Texts : Mention(t) \/ DeleteEq(t) \/ Panic(t)
  \/ Reload

DictSpec == DictInit /\ [][DictNext]_dictVars

-----------------------------------------------------------------------------
(* Properties.                                                             *)

\* The mirror finds every interned text in the page's buffer, inside it and
\* apart from its neighbours, however often the page was grown or loaded
\* (src/src/dict.rs, intern, grow and from_page).
MirrorDescribesPage ==
  /\ DOMAIN mirror = Ids
  /\ \A id \in Ids :
       /\ mirror[id] \in DOMAIN page /\ page[mirror[id]] = id
       /\ mirror[id] + TextLen[TextAt(id)] <= capacity
  /\ \A a, b \in Ids :
       a < b => mirror[a] + TextLen[TextAt(a)] + EntryHeader <= mirror[b]

\* The cached pointer of an entry is at its own text in the page's buffer.
PointsAtText(id) ==
  /\ Current(entries[id])
  /\ entries[id].off = mirror[id]

\* What the generation is for (src/README.md:524-530): an entry captured under
\* the page's generation can be read through its pointer, as long as no file was
\* loaded that had been saved with a dangling pointer.
GenerationTellsStale ==
  bound => \A id \in DOMAIN entries : entries[id].gen = gen => PointsAtText(id)

\* A delete by the index that names t removes every row with text t and no other,
\* and the rows that stay keep their texts, unless some entry dangles when it
\* probes (index.rs, probe; mutation.rs, delete_where).
ProbeIsExact ==
  [][\A t \in Texts :
       /\ DeleteEq(t) /\ bound
       /\ \A id \in DOMAIN entries : entries[id].buffer = buffer'
       => textOf' = Restrict(textOf, {r \in DOMAIN textOf : textOf[r] # t})]_dictVars

\* src/README.md:1130: "A decoded database that passes verification is internally
\* consistent at decode time", which for an index is row 7 of the same table.
VerifiedIndexIsBound ==
  \A id \in DOMAIN entries : entries[id].gen = gen => PointsAtText(id)
=============================================================================
