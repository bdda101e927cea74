# schist in TLA+

`schist` is a columnar storage engine in Rust: one file holds a table with its
pages, dictionaries, indexes and maps; scripts of statements change it; a
transaction manager, a write-ahead log and a set of stand-alone structures
surround it. This directory models the parts of it that keep state, checks them
with TLC on small instances, and proves what matters most with TLAPS for every
instance. `PROJECT.json` lists components, runs, mutants, hazards, findings and
theorems, and maps every definition to the lines it models.

- [Inventory](#inventory)
- [Plan](#plan)
- [Modules and the code](#modules-and-the-code)
- [Runs](#runs)
- [Bounds](#bounds)
- [Scheduling and fairness](#scheduling-and-fairness)
- [Proofs](#proofs)
- [Where the code and its documentation disagree](#where-the-code-and-its-documentation-disagree)
- [What is not modelled](#what-is-not-modelled)

## Inventory

The engine is a library without threads. A caller owns a `Database` (or a
`TxnManager`, or one of the structures) and calls it; nothing runs between calls.
What is concurrent is *logical*: transactions that overlap, snapshots held
across writes, pointers held across page growth, ids held across a compaction
pass, and a process that ends between two calls and starts again from its file or
log.

### The storage pipeline

| Part | State | Operations | Talks to |
| --- | --- | --- | --- |
| pager | slots of pages, stack of freed ids, high-water mark; per page a buffer, a generation, a slot directory | alloc, free, get, replace_buf, replace_slots | everything holds page ids |
| free-space map | free bytes per page, list of freed pages | set_space, adjust_space, page_with_space, forget, return_page | insert, compaction |
| row-id map | row id -> (page, slot) | insert, remove, relocate | every statement, compaction, verification |
| index | dictionary id -> (pointer, generation, row ids) | add_or_append, probe, rebind | points into dictionary pages; asked by equality predicates |
| dictionary | entries of a page, mirror of their offsets, capacity | intern, grow, from_page | statements that name a text |
| zone maps | per page and column: min, max, live rows | set, get | insert writes them, verification reads which pages have one |
| mutation | none of its own | insert, delete_where, update_where, intern_text | all of the above |
| compaction | the list of pages of a pass | split, merge, repack | pager, row-id map, free-space map |
| format, verify | the file | encode_database, decode, verify | all of the above |

Hard here: one statement updates five structures and no single one of them can
tell that another was forgotten. Row ids, slots, page ids, offsets and pointers
are all kept beyond the step that can invalidate them. What makes it correct: a
full scan, a read by row id and a read by the index agree after any sequence of
statements, compactions and reloads; page ids are accounted for; ids are not
reused.

### Transactions

| Part | State | Operations | Talks to |
| --- | --- | --- | --- |
| manager | clock, registry of transactions, version chains, lock table, wait-for graph, predicate locks, undo logs, savepoints | begin, prepare, commit, rollback, read, insert, update, delete, lock calls, savepoint calls, garbage_collect, checkpoint, recover | the log |
| log | segments of records, next lsn | append, truncate_before, records | the manager |

Hard here: every pair of overlapping transactions, partial rollback of repeated
writes of one row, garbage collection under old snapshots, the commit-time
check, restart from a truncated log. What makes it correct: snapshot isolation
with its documented levels, no lock or edge of a finished transaction, and a
recovery that yields the committed database.

### Stand-alone structures

None of these is called by the storage pipeline; each keeps several structures
of its own in step, and is correct when it answers, after any calls, as the plain
value it stands for. `snapshot` (versioned pages, reference counts, collection),
`bufferpool` (frames, page table, free list, clock), `lru` (map, slab, linked
list), `btree`, `hashindex`, `skiplist`, `radix` (ordered and hashed maps),
`slab`, `arena`, `ringbuf`, `pqueue`, `dsu`, `graph`, `interval`, `rangeset`,
`bitmap`, `bitset`, `bitmatrix`, `roaring` (containers and sets), `catalog`,
`schema`, `intern`, `session` (named objects).

### Pure code

The SQL front end and optimizer (`sql`, `logical`, `physical`, `plan`, `cost`),
expressions (`expr`, `exprvm`, `scalar`), batch execution (`vexec`, `array`),
operators (`query`, `join`, `sort`, `window`, `topk`, `kmerge`, `partition`,
`radixsort`), codecs (`encoding`, `rle`, `compress`, `frontcode`, `varint`,
`batchio`, `codec`, `checksum`, `wire`, `csvio`, `json`, `text`), sketches and
statistics (`stats`, `analyze`, `hll`, `quantile`, `welford`, `minhash`,
`bloom`, `fingerprint`, `editdist`), values (`value`, `decimal`, `temporal`,
`datefn`, `pattern`), diagnostics (`error`, `diag`, `pretty`).

These keep no state between calls, and some keep it within one: a stack, batches
that end anywhere, cursors of runs, optimizer passes. Hard here: two evaluators,
two parsers, two planners and three joins of one meaning each, and boundaries
(a full batch, the last element of a run, the widest number) that a caller does
not choose. What makes it correct: an operator gives the rows its relation has,
a rewritten plan the rows of the plan it came from, a decoder what was encoded.

## Plan

Written in the order of importance; what is done is marked.

1. **Transactions** (done). `TxnManager`, its properties, the abstract
   `SnapshotIsolation` and the refinement to it; `TxnWal` composes it with the
   log, checkpoints and restarts.
2. **Storage** (done). `Storage` composes pager, maps, index, statements,
   compaction and reload; it refines the abstract `Table`.
3. **Dictionary and index pointers** (done). `DictIndex`.
4. **Snapshots, buffer pool, LRU** (done). `SnapshotStore`, `BufferPool`,
   `LruCache` refining `RecencyCache`, run together from `MCStructures`.
5. **Ordered and hashed indexes** (done). `BTree` refining `KeyedRows`,
   `HashIndex` refining `PairBag`, `SkipList` refining `KeyedValues`.
6. **Sets and containers** (done). `Sets`, `Pools`, `Containers`: each structure
   against the set, sequence, map, partition or relation it stands for.
7. **Names and sessions** (done). `Catalog`: objects, ids and dependents,
   sequences, prepared statements.
8. **Deadlock detection** (done). `DeadlockSearch`, over any wait-for graph.
9. **Execution** (done). `ExprVm` and `Expressions`, `VectorExec`, `Plans`,
   `Parsing`, `Merging`, `Algorithms`, `Codecs`, run from `MCQueries`.
10. **Proofs** (done: the transaction manager, its log and recovery, storage,
    snapshots, the dictionary, the search for deadlocks, the buffer pool, the LRU
    cache, the skip list, the hash index and the B+tree; every refinement is among
    them). Left: the sets and containers that keep no recursive definition.
11. **Left**. The arrays of `array` and the functions of `scalar`; the cost model;
    the lexers; calendars and decimals.

## Modules and the code

Operators commented "Fault" are variants of the next definition with one
plausible bug. They are not part of a model: `PROJECT.json` names, for each
property, a fault that it notices.

### TxnManager, TxnProperties, SnapshotIsolation (src/src/txn.rs)

One action per public operation, error paths included: an operation that fails
after it changed something (a lock that is taken and given back, a wait edge that
is recorded, a commit that ends as an abort) is an action or a disjunct of its
own. A `Vec` whose order matters is a set of records with a position; "newest
first" is "largest position first". The read view of a transaction is
`snapshotTs` and `viewActive`; under read committed `StatementView` refreshes it.
The clock stays below `TsInf`, the model's `TS_INF`. Statistics are left out.

`DeadlockSearch` is `detect_deadlock` with `add_wait_for` and `clear_wait_for`,
with which a caller may write any edge: the depth-first search one edge a step,
over a graph whose hashed sets give nodes and edges in any order.

`SnapshotIsolation` is the abstract store: a database, and per running
transaction its snapshot and its log of writes. `TxnProperties` maps chains,
intents and undo records to it: the i-th logged write is the intent whose rank
among the transaction's intents of that row is the number of earlier records of
the row.

### TxnWal (src/src/wal.rs and the journalling of txn.rs)

Conjoins each action of `TxnManager` with the record it appends. Records keep
lsn, transaction, kind, row and value; a segment's capacity is counted in
records; the vector of segments is a set, which their starts order. `Checkpoint` appends the marker, truncates whole segments and collects;
`Restart` forgets everything but the log and is `recover`. It can happen between
any two operations: the manager appends before it returns. `MCTxn` runs the
manager with its log and by itself; in the runs of the manager alone the log stays
as it begins.

### Storage, Table (pager, fsm, rowid, mutation, compact, index, zonemap, format, verify)

One table with its row-id column and one data column. Sizes are counted in rows
(a page of the code takes 21 rows of one 8-byte data column and is overfull above
about 41; the run uses 2 and 3), cells are decoded, slots count from 1. Each
iteration of `compact` is an action, with `todo` the pages still to visit. No
statement runs while `todo` is not empty: the engine is one thread.
`Reload` saves and loads: data pages are renumbered in the order of their ids,
the maps keep the ids they had, and a file that fails `verify` loads nothing, so
the action is not enabled.

`Table` is the abstract store: a function from row ids to values, with inserts,
deletes and updates by predicate. The refinement mapping is what a full scan
returns.

`intact` is a history variable. Three steps of the code leave its structures out
of step with one another: a repack that moves a row, an insert under a row id in
use, an update of an indexed cell. The properties that such a step breaks are
stated for stores that are intact; the steps themselves stay in the model, their
effect on the other properties is checked (`PageAccounting`, `PathsAgree`,
`NextRowIsFresh`, `IndexedRowsExist` hold in damaged stores too), and the first
and the third have a run of their own that shows the damage.

Left out: `page_rows` and the zone maps' bounds, which nothing reads; updates of
the row-id column; null cells a statement writes. Data pages are assumed to have
the lowest ids; where dictionary pages have ids between them, decoding renumbers
more, as `DictIndex` shows.

### DictIndex (dict, index, mutation::intern_text, script::resolve_operand, format::encode_index and decode_index)

One indexed text column. A text is a name with a length, a page is a map from
offsets to dictionary ids, and `buffer` names the heap buffer the page has now:
a pointer into another buffer dangles. What a read through a dangling pointer
returns is undetermined, so `DeleteEq` takes any subset of the dangling entries
as matches, and `Reload` any distance for them. `bound` is a history variable,
FALSE once a file that was saved with a dangling pointer was loaded.
`VerifiedIndexIsBound`, the documented guarantee, is what `dict_verify` refutes;
`GenerationTellsStale` and `ProbeIsExact` are what does hold: while no entry
dangles, a delete that names a text removes the rows with that text, all of them
and no others.

### SnapshotStore, BufferPool, LruCache, RecencyCache

`SnapshotStore` (snapshot.rs): versions of a page are a set ordered by their
stamps; `written` remembers every version there was. `BufferPool`
(bufferpool.rs) has the caller it is written for: `store` is the backing store,
`newest` what was last put into each page, and a writeback the pool returns goes
to the store in the same step. The two rounds of the clock are the set `Sweep` of
steps at which the hand may stop. `LruCache` (lru.rs) is the slab with its links;
`RecencyCache` is a sequence in order of use.

### BTree, KeyedRows, HashIndex, PairBag, SkipList, KeyedValues

`BTree` (btree.rs) keeps nodes under their page ids. An insertion walks to a leaf
and comes back up: `Inserted` folds the levels of that path from the leaf, each
one storing its node or the two halves of it (`Stored`), and `TreeGrow` is the
insertion that splits the root. The rows of a key keep their order. Encoding a
tree and decoding it gives the same tree and is left out.

`HashIndex` (hashindex.rs) keeps the links of overflow chains: an insertion goes
to the first bucket of the chain with room, also one that a removal emptied in
its middle. Decoding counts the pairs anew and sets the overflow counter, which
is `HashReload`. Bucket numbers come from `HashOf`, any function. `PairsFrom` is
what a lookup and `iter` read along a chain.

`SkipList` (skiplist.rs) draws any level for a new node: the generator is seeded
by the caller. `Returns` and `RangeIsExact` are about `to_sorted_vec`, `range` and `ceiling`: the
keys they return, in order and each once.

Each of the three, and `LruCache`, has an abstract module with one action per
call. Its `Implements...` property says that the structure, seen through its own
lookups, behaves like the abstract module, and that each call does what the
abstract call *of that name* does: without the second part, an insertion that
loses its pair would pass as a step that changes nothing. `ImplementsTable` says
the same of statements, and of compaction and reload that they change nothing.

### Sets, Pools, Containers, Catalog

`Sets` has the bit set, the compressed bitmap and the index made of it, the
roaring bitmap, the range set, the interval tree and the bit matrix. A word is the
set of its bits. A behaviour keeps two sets of one kind, with the members each
should have beside it (`inFirst`, `inSecond`), since most operations take two.

Three calls of these sets do not do what their comments say, and `unsettled`, a
history variable, holds the members they leave in doubt: the rows at the top bit of
a word of a bitmap, the bits behind the length of a complemented one, and
`i64::MAX` once a complement was taken of ranges that cover it. The expected
members follow the documentation; `SetsMeanMembers` says nothing of the members
in doubt, nor of `popcount` where the last word is not full.

`Pools` has the slab, the arena, the ring buffer and the keyed priority queue;
`Containers` the union-find, the directed graph with its orders and components,
the radix trie, the interner and the heavy hitters of topk.rs; `Catalog` the
catalog and the session. They share the variables `container`, `body` (the fields
of the structure), `model` (the value it stands for) and `agreed`, which says that
the last call answered as the model does. Loops that run to their end inside one
call are recursive operators.

The queue's model gives a key the lowest priority it was pushed with, as pqueue.rs
documents. A push of a higher one raises it in the code; `raised` names the keys
that were, of whose priority `ContainersMeanModels` says nothing.

`MCStructures` runs all the stand-alone structures: `exercised` picks the one a
behaviour uses and the others stay as they began. They share nothing; this is
one run instead of a dozen.

### Expressions, ExprVm (value, expr, exprvm)

`Expressions` has the cell values with their comparisons: a real is a whole
number, a text its dictionary id. It evaluates the trees of expr.rs with errors
as results, and compiles those of the SQL front end. `ExprVm` runs the compiled
program one instruction a step and compares what is left on the stack with the
meaning of the tree under three-valued logic.

### VectorExec (vexec)

Every batch operator over a filtered scan, with `Pipeline::run` around it: a step
is one turn of the loop in the operator's `next`, so a batch may end between any
two rows. `state` holds the operator's own fields, which survive `close` where
the code lets them. `OperatorsMatchRelations` compares the rows given out with the
relational operator on the whole input; what joins drop at a full batch, and what
joins and aggregates repeat in a second run, is stated and not repaired.

### Plans (physical, logical, plan)

`Plans` has the operators of physical.rs, which pull rows one at a time. It lowers
a SELECT, rewrites it pass by pass, plans with the second planner and executes the
result at any point between passes: `PlansKeepMeaning` compares the rows with the
meaning of the plan it began with. The four rewrites that do not keep it are
excluded by name (`SoundlyRewritten`, `LimitAboveSort` and their neighbours), so
the property says exactly for which plans the optimizer is right.

### Parsing (sql, expr)

Both parsers from tokens on. For a tree the tokens are its text with the
parentheses its operators need, and the parser has to return the tree; a script
with a token missing is refused, or parsed without losing another token.

### Merging, Algorithms (sort, kmerge, radixsort, join, partition, window, query)

`Merging` takes the sorts and merges a batch, an element or a pass at a time, and
asks for the stable order of the whole input. `Algorithms` has the three joins
against the pairs that meet and the unmatched rows their kind keeps (right and full
outer joins by nested loops, which lose right rows, are excluded), hash and range partitions, the window functions
against their frames, and the aggregate of query.rs.

### Codecs (encoding, rle, compress, frontcode, pattern)

One step writes and one reads. The integer encodings work on a range of 64
numbers instead of 2^64, with their bit widths, zig-zag and deltas modulo that
range, and the choice among them; block compression has its window and its run
limits, front coding its restart points. Lists of runs are written and
read byte by byte, for columns of each kind, with a small `ByteBase` for 256; a null
is as wide as an integer in any column, so a list with nulls of a Boolean or text
column, which is misread or refused, is excluded. Patterns are compiled and matched with
backtracking, against cuts of the text into the pieces the pattern names.

`MCQueries` runs the modules from Expressions on, one per behaviour.

## Runs

| Run | Shows |
| --- | --- |
| `txn_isolation` | What each isolation level may read, for three transactions on a row, of any mix of levels, with collection at any point: versions form a timeline, read committed reads the latest, snapshots do not move, own writes are seen, and a serializable commit read nothing stale. |
| `txn_savepoints` | Two transactions on two rows; one takes, replaces, releases and rolls back to savepoints, both take explicit locks. Types, locks, the match between undo records and intents, and the refinement to `SnapshotIsolation`. |
| `txn_recovery` | The log under checkpoints and restarts: contiguous, ids never collide, and a serial history that was never truncated is recovered exactly. |
| `storage` | Statements, compaction passes and reloads over two pages; all invariants of `Storage` and the refinement to `Table`. |
| `structures` | The structures of `MCStructures`, one per behaviour: each keeps its books through every sequence of its calls, the cache and the three indexes do what their abstract modules say, call by call, sets and containers answer as the values they stand for, and the deadlock search finds a cycle if and only if there is one. |
| `queries` | The query layer, one module per behaviour: compiled expressions mean their trees, batch operators the relational ones, optimized plans the plans they came from; parsers rebuild trees, merges and joins are exact, codecs read back what they wrote, and every opened pipeline is drained. |
| `txn_second_writer`, `txn_recovery_order`, `txn_checkpoint`, `storage_repack`, `storage_update`, `dict_verify` | One documented claim each that the code does not keep; see [below](#where-the-code-and-its-documentation-disagree). |

Passing runs disable the deadlock check where the system really may stop: the
bounded id space of a run is used up (transactions, versions, buffers), a
computation has given its result, or, in `DictIndex`, the process has panicked.

Some properties that were runs of their own are now part of a deeper one: that the
tables of the buffer pool, the slab of the cache, the shape of the B+tree, the
chains of the hash index and the levels of the skip list are in order is what
`NoWriteLost` and the refinements rest on, and a structure that breaks them stops
refining its abstract module a few calls later.

## Bounds

- `TxnIds`: two or three transactions. Isolation anomalies need two writers and
  a reader; undo and locking need two. `TsInf` bounds the clock, `MaxUndo` the
  undo log of a transaction, `MaxPos` the length of a chain: two writes of one
  row by one transaction, the repeated write that matters, fit. A chain that was
  recovered is as long as the log has writes of its row.
- `MaxLsn` and `SegRecords`: seven records in segments of three, so truncation
  drops one whole segment and keeps another.
- `MaxPages` 2, `MaxRow` 4, `MaxSlots` 4, `Capacity` 2, `SplitRows` 3: a page is
  overfull after it was merged into and filled again, splits into two of two,
  and merges back; a freed id is reused. `GivenIds` has one id, so it is both
  below and above the counter. `DamageRows` bounds stores that are no longer
  intact: they are explored while they have had at most two rows, since what
  holds of them does not depend on more.
- Texts of lengths 5, 20, 40 and 300 against a page of 64 bytes: two fit, a
  third grows the page, one fits only the grown page, one does not fit it
  either. `MaxBuffer` 3 is growth and reload in either order.
- `MaxVersion` 3, `MaxRefs` 2; `Frames` 2 for three pages, `MaxPins` 2; `Room` 3
  for four keys: each is one more than what first fills the structure.
- `Fanout` 2 and six keys (FANOUT is 8): a tree of three levels, whose leaves,
  inner nodes and root have split, with empty leaves among them; one key has two
  rows. `BucketCapacity` 1 and `MaxPairs` 3 (BUCKET_CAPACITY is 16): a primary
  bucket with two overflow buckets, holes in the middle; `BucketCounts` 4 and 5
  with hashes 0 and 4, so two keys share a bucket or do not. Three skip-list keys
  on up to three levels, in every order.

- Three waiters and `MaxEdges` 5: every graph of three nodes with up to five edges,
  self-loops among them, searched in every order.
- Words of 3 bits, members 0 to 6, chunks of 4 with `ArrayMax` 2: three words, the
  last one partly used, two chunks in either form. Ranges and intervals run from
  one end of the integers to the other. Matrices have 3 nodes. A column of
  `MaxRows` 5 rows reaches into its second word.
- `Slots` 3, `Generations` 2: a generation wraps after the second free.
  Rings of up to 3; a heap of four keys has three levels, and `MaxRaised` 1: one
  key at a time has been raised. A union-find of 4
  elements has a tree of height two to compress; graphs have 3 vertices and
  4 edges; a trie has three of the keys of up to three bytes, which are prefixes
  of one another. `MaxObjects` 3: a table and an index are dropped and the name
  is given again. Statement texts have up to four characters, enough for a mark
  within, before and behind a string with a doubled quote.
- `BatchSize` 5 with inputs of up to four rows a side and scans of 1, 2 and 4: a
  join has less than a batch, exactly one, and more. `MaxRuns` 2 opens each
  pipeline again.
- Statistics (`TableRows` 100, `DistinctOf` 10, `SmallSide` 20, `MergeLimit` 150)
  are chosen so that each join algorithm and each access path is taken.
- `MaxKey` 9 stands for `i64::MAX`, and is in some runs. `Radix` 4 and three
  digits sort keys of both signs.
- `HalfRange` 32, `VarintBase` 8, `ShortBits` 4, `ByteBase` 2 (so that a
  count of four bytes ends at 15), `RleHalf` 2,
  `Window` 4, `MinMatch` 2, `MaxMatch` 5: numbers at both ends of the range, runs
  and matches longer than one block holds, counts at their top.

`LiveView` (a VIEW) leaves out fields of finished transactions that nothing reads
again; `Symmetry` permutes rows and savepoint names, or values, in runs without
liveness, where no definition tells them apart.

## Scheduling and fairness

Most actions are calls some caller makes, and the code promises nothing about
which calls are made: a transaction may stay open for ever, a pinned page may
never be unpinned, a compaction pass runs to its end inside one call. A lock
conflict is an error returned at once; nothing waits inside the engine. So no
liveness is claimed of them and no fairness is stated.

The exception is a loop of the code that the model takes a step at a time.
`Pipeline::run` opens its operator and calls `next` until the stream ends, in one
call that waits on nothing: once it has begun, its turns are taken. `MCQueries`
states weak fairness of those turns (`ExecTurns`: the steps of an open pipeline,
not the opening), and `PipelinesDrain` says that an open pipeline is drained,
through loops that end on a child's end, an empty batch or a flag.

## Proofs

Each module `...Proofs` EXTENDS the module it is about.

**TxnManagerProofs.** `TypeInv` strengthens `TypeOK` with what typing needs: an
undo length a savepoint remembers is within the undo log, ids past the allocator
are unknown. One lemma per operation; `TypeCorrect` follows for every number of
rows, transactions and savepoints, from the assumptions of `TxnManager` on its
constants. `LocksHeldByActive` is inductive over `TypeInv`. The isolation
theorems rest on `IsolationInv`: committed versions are in the past and
disjoint; whoever was running when a view was taken commits after its snapshot;
the version that superseded one a snapshot may need is still there; positions
order intents against what committed since. `VersionTimeline` alone is not
inductive: a commit closes the current version at the tick of the commit, and
that this keeps lifetimes disjoint needs that the current one is unique and the
writer's intent is behind it. As far as committed versions go a step of the
manager leaves them alone, commits, or collects, and each property is proved by
these three cases. Proved: `VersionTimeline`, `ReadCommittedReadsLatest`,
`SnapshotStable`, `SerializableReadsCurrent`, `OwnWritesVisible`.

**TxnRefinementProofs.** `UndoMirrorsIntents` and the refinement to
`SnapshotIsolation`. `MirrorInv` says that the undo log of a running transaction,
read up to any record, names each row as often as the transaction has intents
there of that rank or below: the n-th record of a row undoes the intent of rank
n. A rollback to a savepoint cuts the log at a length and the chains by
timestamp, and the two cuts meet because ranks grow with positions. The mapping
reads a logged value as the intent of the record's rank; a step of the manager
is then shown, operation by operation, to be the abstract step of its name or one
that changes nothing a transaction sees. Collection is the hard case of the
second kind: what it drops was superseded before every snapshot.

**TxnWalProofs.** The manager over its log: `LogIsContiguous` and
`NoCollisionAfterRestart`, with checkpoints and restarts at any point. Two parts.

- `SegmentsSound`: a segment holds one record of each lsn from its start on, each
  but the last is followed by one that starts where it ends, and the last ends at
  the next lsn. That a truncation leaves no hole needs that the segments it keeps
  are the last ones, so the proof compares the ends of segments that are chained.
- `RecoveryInv`: of the manager's invariants, those that a restart establishes out
  of any log, a truncated one included (types, locks, committed versions in the
  past and disjoint, writers below the allocator), with the log's. The chains
  recovery builds are typed because positions count records, at most `MaxLsn` of
  them, and disjoint because replay order is total and a commit timestamp grows
  with the id it was given for. What a restart does not establish is that no
  version is closed at its birth: a row written twice by one transaction comes
  back with one. `VersionTimeline`, which says so too, is therefore proved of
  `Spec` and `PastLifetimes` of `WalSpec`.

`SerialRecoveryIsExact` is proved of every history in which no savepoint is rolled
back to: what such a rollback undoes stays in the log, and recovery replays it.
`SerialInv` adds to `RecoveryInv` how the log follows the running transactions: no
record precedes its Begin, a running transaction has no Commit, the rows it has
intents of are in its write set, and its last record of a row holds the value of
its newest intent. A commit then makes current what replay would put last.

**StorageProofs.** Four layers, each inductive over the one before.

- `Accounts`: `PageAccounting` with the types of the pager's and the free-space
  map's fields. Merging and allocating move a page between the stack of freed
  ids and the live pages; that an id is on the stack once makes its last element
  the only place it has. `RowIdInv`: the index lists mapped rows only, and every
  mapped row is below the allocator. Both hold in damaged stores.
- `StoreInv` adds `Layout`: every page is well formed (a cell per slot, every
  slot at its own offset) and knows no row id the allocator has not passed. It
  gives `PathsAgree` and `NextRowIsFresh`. Each operation has an `...Effect`
  lemma that says what becomes of the pages one by one, on which the rest
  is built.
- `MapInv` adds, while the store is intact, `Agree` (the map and the live slots
  name each other) and `Listed` (the index lists rows by their cells). A split,
  merge, repack or reload is shown to carry every live slot to one with the same
  row and cell, and to leave none the map does not name (`MovesKeepMap`). A
  reload renumbers pages; that it keeps the map is what verification is for, and
  the proof uses it. It gives `MapAgreesWithPages` and `IndexAgrees`.
- `ImplementsTable`: on an intact store a scan reads what the map reads
  (`ScanReadsMap`) and a predicate selects the same rows by the index, by the map
  and by the scan (`SelectionIsExact`), so each statement is the table's.

`LiveSlots` is written as the live slots in the order of their rank, since the
library states no facts about `SelectSeq`.

**CacheProofs.** The buffer pool: `NoWriteLost` and `PinsRespected`. The invariant is that a
resident page and its frame name each other, that a frame is on the free list,
once, or holds a resident page, that the bytes of a clean page are those of the
store, and that what is newest of a page is in its frame or, when it was evicted,
in the store. The sweep needs that its second round passes every frame with the
reference bits cleared, so that it finds none only when all are pinned.

The LRU cache: `ImplementsRecencyCache`. The invariant (`Holding`) names an order of
slots: the list threads these slots from head to tail and back, the map leads
each key to its slot, and the free slots are the others. Reading the list from its
head is a recursion; that it gives the slots in that order is shown by the
smallest number of steps for which it would not (`WalkRight`). Detaching a slot and
putting it in front are then two operations on the order (`AllBut`, `Ahead`), and
each call is made of them.

**IndexProofs.** Three indexes. `MirrorDescribesPage`, `GenerationTellsStale` and
`ProbeIsExact`. The invariant: a text is interned once and the entries lie packed
in id order, where the mirror has them; no index entry was captured after now, and
unless a file was loaded that had a dangling pointer, an entry of the page's
generation is in its buffer and one in its buffer is at its text; the entry of a
text lists exactly the rows that have it, so an entry that does not dangle matches
the text of a probe if and only if it is that text's (`ProbeFindsText`). `UsedBytes` is a sum and so recursive.
Induction is replaced by the smallest counterexample: the prefix sums of a
dictionary exist (`SumsExist`) and grow (`SumsGrow`), and any function that has
them is the one `UsedBytes` reads (`UsedIsSum`), which gives the layout of a packed
page (`Layout`, `LayoutGrows`).
`ImplementsPairBag`: the invariant says that there are chains, one for each primary
bucket, which the links follow to their end, that no bucket is in two places of
them, and that a pair is in the chain of its hash (`Threads`). A lookup then counts
what the buckets of one chain hold (`TallyInThread`), and `iter` what all of them do
(`EntriesCount`); counting is by partial sums (`Sums`), which replace induction over
a sequence of buckets or of pairs: two of them over numbers that differ at one place
differ as these do (`SumsDiffer`). Overflow ids below the counter, also after a
reload, make a new bucket new.
`ImplementsKeyedRows`: the invariant (`TreeInv`) says that there is an assignment
of a page to each integer key and level, the root on top and leaves at the bottom,
in which an inner node leads each of its keys to the page of the key one level
below; a page is on one level and has one parent; the keys of a page are among
those it holds; every page id is below the counter; and the keys of a leaf are
next to each other, and its link leads to the leaf of the first key behind them
(`SaneTree`). That assignment is the path the code
takes (`PathIs`, `LookupIs`). An insertion comes back up the path level by level:
what was stored below is whole, but for one new half that its parent has yet to
take (`ClimbLeaf`, `ClimbOn`, `Climbs`), until a node has room or the root is cut
(`TopRoutes`, `GrowTree`); a cut gives the keys from the separator on to the new
page and leaves every other key where it was (`CutPages`), so every lookup but that
of the inserted key is as before. A scan is a run of entries in key order: from a
leaf it is the leaf's hits and then what is due from the next leaf (`DueGoesOn`),
shown by the number of leaves still ahead (`WalkRuns`, `ScanIsRight`).

**StructureProofs.** Three structures that are too small for modules of their own.
`ReadsAsOf`: the invariant says that a version that was collected had been
superseded by one that is still there and that every reader can see; collection
keeps it because the watermark is at or before every stamp a read is made at.
`DeadlocksAreCycles`: the stack is a path of the wait-for graph, an edge that was
followed leads to a finished node or to the next one on the stack, finished nodes
wait for finished nodes only, and every non-empty set of finished nodes has one
that waits for none of the set. The last part makes the argument first-order: a
node that is finished waits for finished nodes only, so it joins no cycle.
`ImplementsKeyedValues`: the invariant says that the link of a node on a level
leads to the least key of that level behind it, and that of the head to the least
of all. The descent then ends on each level at the last node before the key
(`AdvanceRight`, by the number of nodes it may still pass; `UpdateRight`, from the
top level down), which is where an insertion links its node and behind which a
lookup finds it; a scan returns what is behind its first node (`ScanRight`).

`OrderLemmas` has what these need about smallest elements, ranks in sets of
records with positions, and places in sets of numbers.

Only model-checked: sets, containers, and the query layer. Out of the prover's
reach: temporal properties under fairness (`PipelinesDrain`), ENABLED, and what
needs induction over data, among it everything about the sequence `SelectSeq`
returns, about folds and about the recursive definitions of the query layer and
the containers.

## Where the code and its documentation disagree

Each has a run that TLC ends with a violation.

- `txn_second_writer`. A write that fails because its row is not visible gives up
  the row's exclusive lock even when an earlier write of the same transaction
  took it; another transaction then writes the row too.
- `txn_recovery_order`. Recovery replays in the order of ids, not of commits.
- `txn_checkpoint`. A checkpoint truncates the Begin record of a running
  transaction, whose later writes and commit recovery then ignores.
- `storage_repack`. A repack renumbers slots and leaves the row-id map alone.
- `storage_update`. An update leaves the index alone.
- `dict_verify`. A saved index entry whose pointer dangled passes verification.

Met while modelling, without a run. In the transaction manager and the storage
pipeline:

- A row written twice in a transaction keeps an uncommitted intent of the
  committed transaction for ever: `finalize_write` stamps one.
- `rollback` of a committed transaction is accepted and marks it aborted while
  its versions stay.
- A rollback to a savepoint keeps later savepoints whose undo length is equal,
  and undone writes stay in the log, from which recovery replays them.
- Read uncommitted sees uncommitted intents but not the newest committed version
  past its snapshot.
- Wait-for edges outlive the wait they stand for until either end finishes.
- Under repeatable read, two read-modify-write transactions that do not overlap
  in their locks lose the first one's update; no first-committer rule is applied.
- `TxnManager::checkpoint` truncates the log without persisting the chains.
- The free-space map lists merged-away pages as free for ever; the pager reuses
  their ids. Nothing takes from the list.
- The zone maps of a merged-away page stay, and the file a checkpoint then saves
  does not verify. A split recomputes no zone map, and neither an update nor a
  delete touches one.
- `Dict::intern` grows a page once; an entry longer than what that gives panics.
- `IndexCache::rebind` exists to renew pointers after growth, and only a test
  calls it.
- Decoding numbers pages in the order of their records: a dictionary page that
  was allocated after a data page is another page to its column, and the file
  does not verify.
- `HashIndex::insert` takes a pair that is there once more, `remove` drops every
  copy and lowers `len` by one, and `decode` counts what is there: a decoded index
  may have another `len` than the one that was encoded.
- A file saved with an index entry captured after a growth never verifies again:
  the page comes back with generation 0.

In the query layer:

- `plan.rs`: `optimize` moves a limit below a sort; `plan` folds a filter over an
  index scan into it and loses the scan's own predicate; `PhysicalNode::Filter`
  has no predicate; the choice of a nested loop is the opposite of its comment.
- `logical.rs`: a filter is pushed below a projection that renames or computes,
  without substituting; `TRUE AND x` becomes `x`, also where `x` is no Boolean; and
  merging two filters reads integers as truth values. Of the rewrites the module's
  head lists, conjuncts pushed into joins and pruned projections are not there.
- `sql.rs`: `NOT` reaches over `AND`, a postfix `IS NULL`, `LIKE`, `BETWEEN` or
  `IN` binds tighter than any binary operator, and the upper bound of `BETWEEN`
  takes in a comparison. In `expr.rs` `NOT` binds tighter, so the two parsers
  disagree; it takes any token for a column.
- `vexec.rs`: a join that fills a batch drops the rest of the row; opened again, a
  join or an aggregate has the rows of the run before; group columns that are not
  the first ones panic; groups and extremes are typed as integers, and a text
  among them becomes 0.
- `exprvm.rs`: `BETWEEN` with any null is unknown, also where one bound decides.
  `value.rs`: the integer 1 and the real 1 are not equal, but each is at most the
  other.
- `join.rs`: hash and merge join give a left row once per match for a semi join,
  and for an anti join too; lines 25-28 say otherwise. Nulls meet in these
  two and not in the nested loop. Right and full outer joins by nested loops lose the
  right rows without a match, which lines 22-25 keep. `sort.rs`: `run_capacity` has no
  effect. `kmerge.rs`: a run ends at its first `i64::MAX`.
- `encoding.rs`: an empty list of deltas reads as one 0, and packing writes 0 for a
  negative number; the chooser reaches neither. `rle.rs`: a null comes back as the
  column's zero, or, in a Boolean or text column, as other runs or not at all, since
  it is written in eight bytes whatever the column; a count that saturates loses
  rows. `frontcode.rs:165` means to
  keep multi-byte characters whole and leaves their lead byte to the prefix;
  decoding works on bytes, so nothing is lost.
- `pattern.rs`: a `*` that begins a regular expression is a literal, and a class
  that is not closed takes the rest of the pattern.

In the stand-alone structures:

- `bitmap.rs`: compressing drops row 63 of each word, which a look-up in the index
  then does not return (lines 3-4: bit `i` is set if and only if row `i` carries the
  value); `popcount` subtracts bits of the last word that are not set, `not` sets
  bits behind the length.
- `rangeset.rs`: the complement of ranges that cover `i64::MAX` contains it (line 155).
- `pqueue.rs`: pushing a key that is there with a higher priority raises it (lines
  49-50: the lower one is taken).
- `interval.rs`: the default tree has a root and no nodes, and a query panics.
  Equality of bit sets compares trailing empty words, that of roaring bitmaps the
  form of a chunk.
- `arena.rs`: a handle resolves again after 2^32 frees of its place.
- `session.rs`: `bind` gives the parameters back and substitutes nothing, although
  the head of the module says so; a `?` in a quoted identifier counts as a
  placeholder.

## What is not modelled

`PROJECT.json` lists every part with its status. Left out for good: lexers and
text formats (scripts, CSV, JSON), byte layouts and checksums and what a decoder
does with damaged bytes, wording of errors and tables, floating point and the
overflow of arithmetic, estimators whose guarantee is statistical, unit
conversions and calendars. Texts are names or ids throughout, except where a
codec or a pattern is about their characters. Left for later: the arrays, the
scalar functions, the cost model, decimals.
