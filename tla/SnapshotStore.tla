---------------------------- MODULE SnapshotStore ----------------------------
(***************************************************************************)
(* The copy-on-write page store of src/src/snapshot.rs: versioned pages,   *)
(* reference-counted snapshots, and the collection of versions no live     *)
(* snapshot can see.                                                       *)
(*                                                                         *)
(* A page's versions are a set: their stamps differ and order them.  The   *)
(* handle release takes is a copy, so a holder may keep it; a holder that  *)
(* releases a handle twice gives up another's, and is left out.            *)
(*                                                                         *)
(* `written` is a history variable: every version there ever was.          *)
(***************************************************************************)
EXTENDS Integers, FiniteSets, FiniteSetsExt

CONSTANTS
  Pages,      \* page ids
  Data,       \* page contents
  MaxVersion, \* bound on version stamps
  MaxRefs     \* bound on the snapshots taken at one stamp

ASSUME SnapshotAssumption == MaxVersion \in Nat /\ MaxRefs \in Nat \ {0}

Stamps == 0 .. MaxVersion

VARIABLES
  versions,   \* SnapshotStore::pages: page -> its versions
  current,    \* SnapshotStore::current
  refs,       \* SnapshotStore::snapshots: stamp -> reference count, 0 if absent
  written

snapVars == <<versions, current, refs, written>>

Versions == [version : Stamps, data : Data]
LiveStamps == {s \in Stamps : refs[s] > 0}

\* read: the newest of the versions `vs` at or before a stamp, as a set of at
\* most one.
SeenAt(vs, stamp) ==
  {v \in vs : v.version <= stamp /\ \A w \in vs : w.version <= stamp => w.version <= v.version}

\* oldest_snapshot
OldestSnapshot == IF LiveStamps = {} THEN current ELSE Min(LiveStamps)

\* Fault: everything older than the watermark goes, its newest included.
RetainedFrom(vs, watermark) == {v \in vs : v.version >= watermark}

\* gc keeps the newest version at or before the watermark and what is after it.
RetainedAt(vs, watermark) ==
  {v \in vs : \A w \in vs : w.version <= watermark => w.version <= v.version}

-----------------------------------------------------------------------------
SnapInit ==
  /\ versions = [p \in Pages |-> {}]
  /\ current = 0
  /\ refs = [s \in Stamps |-> 0]
  /\ written = [p \in Pages |-> {}]

Write(p, d) ==
  LET v == [version |-> current + 1, data |-> d]
  IN  /\ current < MaxVersion
      /\ current' = current + 1
      /\ versions' = [versions EXCEPT ![p] = @ \cup {v}]
      /\ written' = [written EXCEPT ![p] = @ \cup {v}]
      /\ UNCHANGED refs

TakeSnapshot ==
  /\ refs[current] < MaxRefs
  /\ refs' = [refs EXCEPT ![current] = @ + 1]
  /\ UNCHANGED <<versions, current, written>>

Release(s) ==
  /\ refs[s] > 0
  /\ refs' = [refs EXCEPT ![s] = @ - 1]
  /\ UNCHANGED <<versions, current, written>>

Collect ==
  /\ versions' = [p \in Pages |-> RetainedAt(versions[p], OldestSnapshot)]
  /\ UNCHANGED <<current, refs, written>>

SnapNext ==
  \/ \E p \in Pages, d \in Data : Write(p, d)
  \/ TakeSnapshot
  \/ \E s \in Stamps : Release(s)
  \/ Collect

SnapSpec == SnapInit /\ [][SnapNext]_snapVars

-----------------------------------------------------------------------------
(* Properties.                                                             *)

SnapshotTypeOK ==
  /\ versions \in [Pages -> SUBSET Versions]
  /\ written \in [Pages -> SUBSET Versions]
  /\ current \in Stamps
  /\ refs \in [Stamps -> 0 .. MaxRefs]

\* A read through a live snapshot, and a read of the latest version, return what
\* they would if nothing had ever been collected (src/src/snapshot.rs, read,
\* read_latest and gc).
ReadsAsOf ==
  \A p \in Pages : \A s \in LiveStamps \cup {current} :
    SeenAt(versions[p], s) = SeenAt(written[p], s)
=============================================================================
