------------------------------ MODULE AuditLog ------------------------------
(***************************************************************************)
(* The hash-chained audit log (src/src/audit.rs) on top of sled.           *)
(*                                                                         *)
(* The daemon owns one AuditLog behind a mutex, so each method is one      *)
(* atomic step.  What makes it hard is the storage below: append inserts   *)
(* into sled, then flushes; either call can fail, the daemon ignores the   *)
(* error and carries on, and the process can be killed at any point, after *)
(* which open rebuilds the in-memory head from whatever reached the disk.  *)
(*                                                                         *)
(* Digests are modelled by their preimage (SHA3-256 without collisions).   *)
(* Both sled trees and the vector of leaves are functions from 0..n-1, the *)
(* sled key being the big-endian sequence number.                          *)
(***************************************************************************)
EXTENDS Integers

CONSTANTS
    Payload,       \* what distinguishes one ordinary event from another
    Timestamp,     \* readings of the wall clock
    MaxEntries     \* bound on the length of the log

ASSUME MaxEntriesAssumption == MaxEntries \in Nat

VARIABLES
    running,               \* the daemon is up and holds an open AuditLog
    db,                    \* the tree as readers of this process see it
    disk,                  \* the part of it that survives a crash
    head_hash,
    next_sequence,
    merkle_leaves,
    last_merkle_root,
    last_anchor_sequence,
    acked                  \* history: entries for which append returned Ok

stored   == <<db, disk>>
inMemory == <<head_hash, next_sequence, merkle_leaves,
              last_merkle_root, last_anchor_sequence>>
vars     == <<running, stored, inMemory, acked>>

-----------------------------------------------------------------------------
(* Hashes *)

Genesis == << >>
NoRoot  == <<"none">>
Empty   == [i \in {} |-> Genesis]

\* Seeded fault (see PROJECT.json): the event is left out of the hash.
HashWithoutEvent(prev, event, ts, seq) == <<prev, ts, seq>>

\* AuditEntry::compute_hash
compute_hash(prev, event, ts, seq) == <<prev, ts, seq, event>>

\* One round of the pairing loop of merkle_root on n hashes: an odd last
\* hash is paired with itself.
NextLevel(level, n) ==
    [i \in 0..((n + 1) \div 2 - 1) |->
        <<level[2*i], IF 2*i + 1 < n THEN level[2*i + 1] ELSE level[2*i]>>]

\* merkle_root of the n leaves, rounds repeated until one hash is left.
merkle_root(leaves, n) ==
    LET round[k \in Nat] ==
          IF k = 0 THEN [level |-> leaves, size |-> n]
          ELSE LET r == round[k - 1]
               IN  IF r.size <= 1 THEN r
                   ELSE [level |-> NextLevel(r.level, r.size),
                         size  |-> (r.size + 1) \div 2]
    IN  IF n = 0 THEN Genesis ELSE round[n].level[0]

-----------------------------------------------------------------------------
(* Events and entries *)

OrdinaryEvent == [type : {"Ordinary"}, payload : Payload]

MerkleAnchor(root, from, to, count) ==
    [type |-> "MerkleAnchor", merkle_root |-> root, from_sequence |-> from,
     to_sequence |-> to, entry_count |-> count]

IsAnchor(entry) == entry.event.type = "MerkleAnchor"

\* The entry that append builds from the current head.
NewEntry(event, ts) ==
    [sequence     |-> next_sequence,
     prev_hash    |-> head_hash,
     hash         |-> compute_hash(head_hash, event, ts, next_sequence),
     timestamp_ns |-> ts,
     event        |-> event]

\* sled: insert under a key, replacing what is there.
Insert(tree, key, value) ==
    [k \in DOMAIN tree \cup {key} |-> IF k = key THEN value ELSE tree[k]]

\* The hash an entry under this key has to link to, in key order.
PrevHash(tree, key) ==
    LET below == {k \in DOMAIN tree : k < key}
    IN  IF below = {} THEN Genesis
        ELSE tree[CHOOSE k \in below : \A j \in below : j <= k].hash

\* The keys at which verify_chain stops; the chain is valid when there is none.
BrokenAt(tree) ==
    {k \in DOMAIN tree :
        \/ tree[k].prev_hash # PrevHash(tree, k)
        \/ tree[k].hash # compute_hash(tree[k].prev_hash, tree[k].event,
                                       tree[k].timestamp_ns, tree[k].sequence)}

verify_chain(tree) == BrokenAt(tree) = {}

-----------------------------------------------------------------------------
(* Operations *)

\* Seeded fault: append acknowledges without a flush.
AppendUnflushed(event, ts) ==
    LET entry == NewEntry(event, ts)
    IN  /\ db' = Insert(db, next_sequence, entry)
        /\ head_hash' = entry.hash
        /\ next_sequence' = next_sequence + 1
        /\ merkle_leaves' = Insert(merkle_leaves, next_sequence, entry.hash)
        /\ acked' = acked \cup {entry}
        /\ UNCHANGED disk

\* append when insert and flush both succeed.
AppendOk(event, ts) ==
    LET entry == NewEntry(event, ts)
    IN  /\ db' = Insert(db, next_sequence, entry)
        /\ disk' = db'
        /\ head_hash' = entry.hash
        /\ next_sequence' = next_sequence + 1
        /\ merkle_leaves' = Insert(merkle_leaves, next_sequence, entry.hash)
        /\ acked' = acked \cup {entry}

\* Seeded faults: the head, or the sequence number, moves before the flush.
FlushErrorMovesHead(event, ts) ==
    /\ db' = Insert(db, next_sequence, NewEntry(event, ts))
    /\ head_hash' = NewEntry(event, ts).hash
    /\ UNCHANGED <<disk, next_sequence, merkle_leaves, acked>>
FlushErrorCounts(event, ts) ==
    /\ db' = Insert(db, next_sequence, NewEntry(event, ts))
    /\ next_sequence' = next_sequence + 1
    /\ UNCHANGED <<disk, head_hash, merkle_leaves, acked>>

\* append when the flush fails: it returns early with the entry already in
\* the tree and none of the fields advanced.  (When the insert fails nothing
\* changes at all.)
AppendFlushError(event, ts) ==
    /\ db' = Insert(db, next_sequence, NewEntry(event, ts))
    /\ UNCHANGED <<disk, head_hash, next_sequence, merkle_leaves, acked>>

\* append of an event by one of the daemon's handlers, which ignore its result.
LogEvent(event, ts) ==
    /\ running
    /\ next_sequence < MaxEntries
    /\ AppendOk(event, ts) \/ AppendFlushError(event, ts)
    /\ UNCHANGED <<running, last_merkle_root, last_anchor_sequence>>

\* The leaves past the last anchor, and the anchor event over them.
SinceAnchor ==
    [i \in 0..(next_sequence - last_anchor_sequence - 1) |->
        merkle_leaves[i + last_anchor_sequence]]

AnchorRoot == merkle_root(SinceAnchor, next_sequence - last_anchor_sequence)

\* Seeded fault: the range is reported one entry too long.
AnchorOneTooFar ==
    MerkleAnchor(AnchorRoot, last_anchor_sequence, next_sequence,
                 next_sequence - last_anchor_sequence)

AnchorEvent ==
    MerkleAnchor(AnchorRoot, last_anchor_sequence, next_sequence - 1,
                 next_sequence - last_anchor_sequence)

\* Seeded fault: the last anchor moves although its append failed.
AnchorMovesOnError(ts) ==
    /\ running
    /\ next_sequence < MaxEntries
    /\ next_sequence > last_anchor_sequence
    /\ AppendOk(AnchorEvent, ts) \/ AppendFlushError(AnchorEvent, ts)
    /\ last_merkle_root' = AnchorRoot
    /\ last_anchor_sequence' = next_sequence'
    /\ UNCHANGED running

\* compute_merkle_anchor: an error, and no change, when there is no leaf.
compute_merkle_anchor(ts) ==
    /\ running
    /\ next_sequence < MaxEntries
    /\ next_sequence > last_anchor_sequence
    /\ \/ /\ AppendOk(AnchorEvent, ts)
          /\ last_merkle_root' = AnchorRoot
          /\ last_anchor_sequence' = next_sequence'
       \/ /\ AppendFlushError(AnchorEvent, ts)
          /\ UNCHANGED <<last_merkle_root, last_anchor_sequence>>
    /\ UNCHANGED running

\* Seeded fault: the next sequence number is that of the last entry.
RecoveredHeadAgain == IF db = Empty THEN [hash |-> Genesis, next |-> 0]
                      ELSE LET last == db[CHOOSE k \in DOMAIN db :
                                             \A j \in DOMAIN db : j <= k]
                           IN  [hash |-> last.hash, next |-> last.sequence]

\* open: the head comes from the last entry, the leaves from all of them; the
\* last anchor is forgotten.
RecoveredHead == IF db = Empty THEN [hash |-> Genesis, next |-> 0]
                 ELSE LET last == db[CHOOSE k \in DOMAIN db :
                                        \A j \in DOMAIN db : j <= k]
                      IN  [hash |-> last.hash, next |-> last.sequence + 1]

Open ==
    /\ ~running
    /\ running' = TRUE
    /\ head_hash' = RecoveredHead.hash
    /\ next_sequence' = RecoveredHead.next
    /\ merkle_leaves' = [k \in DOMAIN db |-> db[k].hash]
    /\ last_merkle_root' = NoRoot
    /\ last_anchor_sequence' = 0
    /\ UNCHANGED <<stored, acked>>

\* sled's own periodic flush: a buffered insert may become durable at any time.
BackgroundFlush ==
    /\ running
    /\ disk # db
    /\ disk' = db
    /\ UNCHANGED <<running, db, inMemory, acked>>

\* The process is killed: everything that is not on disk is gone.
Crash ==
    /\ running
    /\ running' = FALSE
    /\ db' = disk
    /\ head_hash' = Genesis
    /\ next_sequence' = 0
    /\ merkle_leaves' = Empty
    /\ last_merkle_root' = NoRoot
    /\ last_anchor_sequence' = 0
    /\ UNCHANGED <<disk, acked>>

-----------------------------------------------------------------------------
Init ==
    /\ running = FALSE
    /\ db = Empty
    /\ disk = Empty
    /\ head_hash = Genesis
    /\ next_sequence = 0
    /\ merkle_leaves = Empty
    /\ last_merkle_root = NoRoot
    /\ last_anchor_sequence = 0
    /\ acked = {}

Next ==
    \/ Open
    \/ \E event \in OrdinaryEvent, ts \in Timestamp : LogEvent(event, ts)
    \/ \E ts \in Timestamp : compute_merkle_anchor(ts)
    \/ BackgroundFlush
    \/ Crash

Spec == Init /\ [][Next]_vars

-----------------------------------------------------------------------------
(* Properties *)

Keyed(tree) ==
    /\ \E n \in 0..MaxEntries : DOMAIN tree = 0..(n - 1)
    /\ \A k \in DOMAIN tree : tree[k].sequence = k

\* Every tree is keyed 0..n-1 by the sequence number inside the entries, and
\* the leaves have one hash per entry the head counts.
TypeOK ==
    /\ running \in BOOLEAN
    /\ next_sequence \in 0..MaxEntries
    /\ last_anchor_sequence \in 0..next_sequence
    /\ Keyed(db)
    /\ Keyed(disk)
    /\ DOMAIN merkle_leaves = 0..(next_sequence - 1)

\* verify_chain (AUDITVERIFY) finds no broken link, in the running process or
\* in what a restart would find on disk, whatever flushes failed and wherever
\* the process was killed.
ChainIntact == verify_chain(db) /\ verify_chain(disk)

StoredIn(tree, entry) ==
    entry.sequence \in DOMAIN tree /\ tree[entry.sequence] = entry

\* An entry whose append returned Ok is on disk under its sequence number and
\* stays there unmodified: no later append, failed flush, crash or recovery
\* replaces it, and no two of them were given the same number.
AckedDurable == \A e \in acked : StoredIn(disk, e) /\ StoredIn(db, e)

\* The anchor under key s names the entries just before it, with their number
\* and the root recomputed from the entries now in the tree.
AnchorMatches(tree, s) ==
    LET a == tree[s].event
    IN  /\ a.from_sequence \in 0..a.to_sequence
        /\ a.to_sequence = s - 1
        /\ a.entry_count = s - a.from_sequence
        /\ a.merkle_root =
             merkle_root([i \in 0..(a.entry_count - 1) |->
                             tree[i + a.from_sequence].hash], a.entry_count)

AnchorsMatch(tree) ==
    \A s \in DOMAIN tree : IsAnchor(tree[s]) => AnchorMatches(tree, s)

\* An anchor in the log, or on disk, commits to exactly the entries its range
\* names: they precede it, their number is entry_count, and the root
\* recomputed from the entries stored now is the recorded one.
AnchorsSound == AnchorsMatch(db) /\ AnchorsMatch(disk)

Covers(anchor, seq) ==
    /\ IsAnchor(anchor)
    /\ anchor.event.from_sequence <= seq
    /\ seq <= anchor.event.to_sequence

GapFree(tree) ==
    \A s \in DOMAIN tree : IsAnchor(tree[s]) =>
        \A i \in 0..(s - 1) : ~IsAnchor(tree[i]) =>
            \E t \in 0..s : Covers(tree[t], i)

\* Anchoring leaves no gap: an ordinary entry older than some anchor of the log
\* is committed to by an anchor, also when anchors failed or the process was
\* restarted in between.
AnchorsLeaveNoGap == GapFree(db) /\ GapFree(disk)

\* What the running process reports as its length and head (AUDITLOG) belongs
\* to entries that are on disk: a crash never takes back a reported head, and
\* at most one entry, left by a failed flush, lies beyond it.
HeadMatchesLog ==
    running =>
        /\ 0..(next_sequence - 1) \subseteq DOMAIN disk
        /\ DOMAIN db \subseteq 0..next_sequence
        /\ head_hash = (IF next_sequence = 0 THEN Genesis
                        ELSE disk[next_sequence - 1].hash)

\* A step never rewrites an entry the head already counts; the only entry a
\* step may replace is the one an unsuccessful append left behind.
AppendOnly ==
    [][running => \A k \in 0..(next_sequence - 1) :
          k \in DOMAIN db' /\ db'[k] = db[k]]_vars

-----------------------------------------------------------------------------
(* The ledger the log implements *)

\* Of the running process what its head counts, else what a restart will find.
Entries == IF running THEN [k \in 0..(next_sequence - 1) |-> db[k]]
           ELSE [k \in DOMAIN disk |-> disk[k]]

Abstract == INSTANCE Ledger WITH ledger <- Entries, confirmed <- acked

\* Through failed flushes, kills and recoveries the log is a ledger from which
\* nothing is taken back: an entry once counted stays under its number, the next
\* one links to it, and only entries the ledger has are acknowledged
\* (audit.rs:133-201).
LedgerImplemented == Abstract!Spec

-----------------------------------------------------------------------------
(* Tampering with the stored tree *)

Without(tree, key) == [k \in DOMAIN tree \ {key} |-> tree[k]]
Swapped(tree, i, j) == [tree EXCEPT ![i] = tree[j], ![j] = tree[i]]

\* audit.rs:5, "making deletion, reordering, and modification detectable".
\* verify_chain detects every removal of an entry that has a
\* successor, every exchange of two entries and every change of an event.
\* (The removal of the newest entry leaves a valid chain: it is not claimed.)
TamperDetected ==
    /\ \A i \in DOMAIN db : i + 1 \in DOMAIN db => ~verify_chain(Without(db, i))
    /\ \A i, j \in DOMAIN db : i < j => ~verify_chain(Swapped(db, i, j))
    /\ \A i \in DOMAIN db : \A event \in OrdinaryEvent :
         event # db[i].event =>
            ~verify_chain([db EXCEPT ![i].event = event])
=============================================================================
