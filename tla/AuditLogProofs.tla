--------------------------- MODULE AuditLogProofs ---------------------------
(***************************************************************************)
(* Theorems about the audit log for logs of every length.                  *)
(*                                                                         *)
(* None of the safety properties of AuditLog is inductive alone: that the  *)
(* chain verifies after a crash depends on where the disk may differ from  *)
(* the tree in memory (only in the one entry past the head), on the head   *)
(* being the hash of the last counted entry, and on the leaves being the   *)
(* hashes of the counted entries.  IInv says all of it.                    *)
(***************************************************************************)
EXTENDS AuditLog, TLAPS

\* Every entry carries its key, links to the one before it and hashes to its hash.
Linked(tree) ==
    \A k \in DOMAIN tree :
        /\ tree[k].sequence = k
        /\ tree[k].prev_hash = (IF k = 0 THEN Genesis ELSE tree[k - 1].hash)
        /\ tree[k].hash = compute_hash(tree[k].prev_hash, tree[k].event,
                                       tree[k].timestamp_ns, tree[k].sequence)

\* What holds of the tree in memory and of the one on disk alike.
TreeOK(tree) ==
    /\ \E n \in 0..MaxEntries : DOMAIN tree = 0..(n - 1)
    /\ Linked(tree)
    /\ AnchorsMatch(tree)
    /\ GapFree(tree)

\* The entries the head counts are in the tree, and at most one more.
Extends(tree) ==
    /\ 0..(next_sequence - 1) \subseteq DOMAIN tree
    /\ DOMAIN tree \subseteq 0..next_sequence

\* The entry before the head, as seen in memory.
HeadHash(tree, n) == IF n = 0 THEN Genesis ELSE tree[n - 1].hash

RunningInv ==
    /\ Extends(db)
    /\ Extends(disk)
    /\ \A k \in 0..(next_sequence - 1) : disk[k] = db[k]
    /\ head_hash = HeadHash(db, next_sequence)
    /\ \A k \in 0..(next_sequence - 1) : merkle_leaves[k] = db[k].hash
    /\ \A i \in 0..(last_anchor_sequence - 1) : ~IsAnchor(db[i]) =>
          \E t \in 0..(next_sequence - 1) : Covers(db[t], i)
    /\ \A e \in acked : e.sequence < next_sequence

IInv ==
    /\ running \in BOOLEAN
    /\ next_sequence \in 0..MaxEntries
    /\ last_anchor_sequence \in 0..next_sequence
    /\ DOMAIN merkle_leaves = 0..(next_sequence - 1)
    /\ TreeOK(db)
    /\ TreeOK(disk)
    /\ ~running => db = disk
    /\ running => RunningInv
    /\ AckedDurable

-----------------------------------------------------------------------------
(* Lemmas about the operators *)

\* The largest key below a key k > 0 of a tree keyed 0..n-1 is k - 1, so
\* PrevHash is the hash of the entry just before.
LEMMA PrevHashIsPredecessor ==
    ASSUME NEW tree, NEW n \in Nat, DOMAIN tree = 0..(n - 1),
           NEW k \in DOMAIN tree
    PROVE  PrevHash(tree, k) = IF k = 0 THEN Genesis ELSE tree[k - 1].hash
<1> DEFINE below == {j \in DOMAIN tree : j < k}
<1>1. CASE k = 0
  <2>1. below = {}
    BY <1>1
  <2> QED
    BY <1>1, <2>1 DEF PrevHash
<1>2. CASE k # 0
  <2>1. k - 1 \in below /\ \A j \in below : j <= k - 1
    BY <1>2
  <2>2. (CHOOSE m \in below : \A j \in below : j <= m) = k - 1
    <3>1. PICK m \in below : m = CHOOSE x \in below : \A j \in below : j <= x
      BY <2>1
    <3>2. \A j \in below : j <= m
      BY <3>1, <2>1
    <3> QED
      BY <3>1, <3>2, <2>1
  <2> HIDE DEF below
  <2>3. below # {}
    BY <2>1
  <2> QED
    BY <1>2, <2>2, <2>3 DEF PrevHash, below
<1> QED
  BY <1>1, <1>2

\* The numbers below n are naturals.
LEMMA BelowIsNat ==
    ASSUME NEW n \in Nat
    PROVE  \A i \in 0..(n - 1) : i \in Nat /\ i < n
OBVIOUS

\* A linked tree passes verify_chain.
LEMMA LinkedVerifies ==
    ASSUME NEW tree, NEW n \in Nat, DOMAIN tree = 0..(n - 1), Linked(tree)
    PROVE  verify_chain(tree)
<1> SUFFICES ASSUME NEW k \in DOMAIN tree
             PROVE  /\ tree[k].prev_hash = PrevHash(tree, k)
                    /\ tree[k].hash = compute_hash(tree[k].prev_hash,
                          tree[k].event, tree[k].timestamp_ns, tree[k].sequence)
  BY DEF verify_chain, BrokenAt
<1>1. PrevHash(tree, k) = IF k = 0 THEN Genesis ELSE tree[k - 1].hash
  BY PrevHashIsPredecessor
<1> QED
  BY <1>1 DEF Linked

-----------------------------------------------------------------------------
(* The inductive step *)

\* An event that is fit to be appended: not an anchor, or the anchor event
\* compute_merkle_anchor builds from the current leaves.
Appendable(event) ==
    \/ event.type # "MerkleAnchor"
    \/ event = AnchorEvent /\ next_sequence > last_anchor_sequence

\* The tree after the insert of append is keyed by one more number, keeps the
\* counted entries and ends in the new entry.
LEMMA InsertShape ==
    ASSUME IInv, running, NEW event, NEW ts
    PROVE  LET new == Insert(db, next_sequence, NewEntry(event, ts))
           IN  /\ DOMAIN new = 0..next_sequence
               /\ new[next_sequence] = NewEntry(event, ts)
               /\ \A k \in 0..(next_sequence - 1) : new[k] = db[k]
<1> next_sequence \in Nat /\ Extends(db)
  BY MaxEntriesAssumption DEF IInv, RunningInv
<1> QED
  BY DEF Insert, Extends

\* It is still linked.
LEMMA InsertLinked ==
    ASSUME IInv, running, NEW event, NEW ts
    PROVE  Linked(Insert(db, next_sequence, NewEntry(event, ts)))
<1> DEFINE new == Insert(db, next_sequence, NewEntry(event, ts))
<1>1. /\ DOMAIN new = 0..next_sequence
      /\ new[next_sequence] = NewEntry(event, ts)
      /\ \A k \in 0..(next_sequence - 1) : new[k] = db[k]
  BY InsertShape
<1>2. next_sequence \in Nat /\ Extends(db) /\ Linked(db)
      /\ head_hash = HeadHash(db, next_sequence)
  BY MaxEntriesAssumption DEF IInv, RunningInv, TreeOK
<1> HIDE DEF new
<1> SUFFICES ASSUME NEW k \in 0..next_sequence
             PROVE  /\ new[k].sequence = k
                    /\ new[k].prev_hash = HeadHash(new, k)
                    /\ new[k].hash = compute_hash(new[k].prev_hash, new[k].event,
                                          new[k].timestamp_ns, new[k].sequence)
  BY <1>1 DEF Linked, HeadHash, new
<1>3. CASE k = next_sequence
  <2>1. HeadHash(new, k) = HeadHash(db, k)
    BY <1>1, <1>2, <1>3 DEF HeadHash
  <2> QED
    BY <1>1, <1>2, <1>3, <2>1 DEF NewEntry
<1>4. CASE k # next_sequence
  <2>1. k \in DOMAIN db /\ new[k] = db[k] /\ HeadHash(new, k) = HeadHash(db, k)
    BY <1>1, <1>2, <1>4 DEF HeadHash, Extends
  <2> QED
    BY <1>2, <2>1 DEF Linked, HeadHash
<1> QED
  BY <1>3, <1>4

\* An anchor keeps matching when the entries before it and itself are kept.
LEMMA AnchorMatchesKept ==
    ASSUME NEW old, NEW new, NEW s \in Nat,
           \A k \in 0..s : new[k] = old[k],
           AnchorMatches(old, s)
    PROVE  AnchorMatches(new, s)
<1> DEFINE a == old[s].event
           roots(tree) == [i \in 0..(a.entry_count - 1) |->
                              tree[i + a.from_sequence].hash]
<1>1. /\ a.from_sequence \in 0..a.to_sequence
      /\ a.to_sequence = s - 1
      /\ a.entry_count = s - a.from_sequence
      /\ a.merkle_root = merkle_root(roots(old), a.entry_count)
  BY DEF AnchorMatches
<1>2. new[s].event = a
  OBVIOUS
<1> HIDE DEF a
<1>3. roots(new) = roots(old)
  <2>1. \A i \in 0..(a.entry_count - 1) : i + a.from_sequence \in 0..s
    BY <1>1
  <2> QED
    BY <2>1
<1> QED
  BY <1>1, <1>2, <1>3 DEF AnchorMatches

\* The anchors of the extended tree match: the old ones are kept, a new one was
\* computed from leaves that are the hashes of the counted entries.
LEMMA InsertAnchors ==
    ASSUME IInv, running, NEW event, NEW ts, Appendable(event)
    PROVE  AnchorsMatch(Insert(db, next_sequence, NewEntry(event, ts)))
<1> DEFINE new == Insert(db, next_sequence, NewEntry(event, ts))
<1>1. /\ DOMAIN new = 0..next_sequence
      /\ new[next_sequence] = NewEntry(event, ts)
      /\ \A k \in 0..(next_sequence - 1) : new[k] = db[k]
  BY InsertShape
<1>2. next_sequence \in Nat /\ last_anchor_sequence \in 0..next_sequence
      /\ Extends(db) /\ AnchorsMatch(db)
      /\ \A k \in 0..(next_sequence - 1) : merkle_leaves[k] = db[k].hash
  BY MaxEntriesAssumption DEF IInv, RunningInv, TreeOK
<1> HIDE DEF new
<1> SUFFICES ASSUME NEW s \in 0..next_sequence, IsAnchor(new[s])
             PROVE  AnchorMatches(new, s)
  BY <1>1 DEF AnchorsMatch, new
<1>3. CASE s # next_sequence
  <2>1. s \in DOMAIN db /\ \A k \in 0..s : new[k] = db[k]
    BY <1>1, <1>2, <1>3 DEF Extends
  <2>2. AnchorMatches(db, s)
    BY <1>2, <2>1 DEF AnchorsMatch
  <2> QED
    BY <2>1, <2>2, <1>2, AnchorMatchesKept
<1>4. CASE s = next_sequence
  <2>1. new[s].event = event
    BY <1>1, <1>4 DEF NewEntry
  <2>2. event = AnchorEvent /\ next_sequence > last_anchor_sequence
    BY <2>1 DEF Appendable, IsAnchor
  <2>3. /\ new[s].event.from_sequence = last_anchor_sequence
        /\ new[s].event.to_sequence = s - 1
        /\ new[s].event.entry_count = s - last_anchor_sequence
        /\ new[s].event.merkle_root = merkle_root(SinceAnchor, s - last_anchor_sequence)
    BY <2>1, <2>2, <1>4 DEF AnchorEvent, MerkleAnchor, AnchorRoot
  <2>4. SinceAnchor = [i \in 0..(s - last_anchor_sequence - 1) |->
                          new[i + last_anchor_sequence].hash]
    <3>1. \A i \in 0..(s - last_anchor_sequence - 1) :
            i + last_anchor_sequence \in 0..(next_sequence - 1)
      BY <1>2, <1>4
    <3>2. \A i \in 0..(s - last_anchor_sequence - 1) :
            merkle_leaves[i + last_anchor_sequence]
              = new[i + last_anchor_sequence].hash
      BY <3>1, <1>1, <1>2
    <3> QED
      BY <3>2, <1>4 DEF SinceAnchor
  <2> QED
    BY <2>2, <2>3, <2>4, <1>2, <1>4 DEF AnchorMatches
<1> QED
  BY <1>3, <1>4

\* The extended tree has no gap: a new anchor covers what lies past the last
\* one, and what lies before is covered by RunningInv.
LEMMA InsertGapFree ==
    ASSUME IInv, running, NEW event, NEW ts, Appendable(event)
    PROVE  GapFree(Insert(db, next_sequence, NewEntry(event, ts)))
<1> DEFINE new == Insert(db, next_sequence, NewEntry(event, ts))
<1>1. /\ DOMAIN new = 0..next_sequence
      /\ new[next_sequence] = NewEntry(event, ts)
      /\ \A k \in 0..(next_sequence - 1) : new[k] = db[k]
  BY InsertShape
<1>2. next_sequence \in Nat /\ last_anchor_sequence \in 0..next_sequence
      /\ Extends(db) /\ GapFree(db)
      /\ \A i \in 0..(last_anchor_sequence - 1) : ~IsAnchor(db[i]) =>
           \E t \in 0..(next_sequence - 1) : Covers(db[t], i)
  BY MaxEntriesAssumption DEF IInv, RunningInv, TreeOK
<1> HIDE DEF new
<1> SUFFICES ASSUME NEW s \in 0..next_sequence, IsAnchor(new[s]),
                    NEW i \in 0..(s - 1), ~IsAnchor(new[i])
             PROVE  \E t \in 0..s : Covers(new[t], i)
  BY <1>1 DEF GapFree, new
<1>3. new[i] = db[i]
  BY <1>1, <1>2
<1>4. CASE s # next_sequence
  <2>1. s \in DOMAIN db /\ new[s] = db[s]
    BY <1>1, <1>2, <1>4 DEF Extends
  <2>2. PICK t \in 0..s : Covers(db[t], i)
    BY <1>2, <1>3, <2>1 DEF GapFree
  <2>3. new[t] = db[t]
    BY <1>1, <1>2, <1>4
  <2> QED
    BY <2>2, <2>3
<1>5. CASE s = next_sequence /\ i < last_anchor_sequence
  <2>1. PICK t \in 0..(next_sequence - 1) : Covers(db[t], i)
    BY <1>2, <1>3, <1>5
  <2>2. new[t] = db[t] /\ t \in 0..s
    BY <1>1, <1>2, <1>5
  <2> QED
    BY <2>1, <2>2
<1>6. CASE s = next_sequence /\ i >= last_anchor_sequence
  <2>1. new[s].event = event
    BY <1>1, <1>6 DEF NewEntry
  <2>2. event = AnchorEvent
    BY <2>1 DEF Appendable, IsAnchor
  <2>3. /\ new[s].event.from_sequence = last_anchor_sequence
        /\ new[s].event.to_sequence = s - 1
    BY <2>1, <2>2, <1>6 DEF AnchorEvent, MerkleAnchor
  <2>4. Covers(new[s], i)
    BY <2>3, <1>2, <1>6 DEF Covers
  <2> QED
    BY <2>4, <1>2
<1> QED
  BY <1>4, <1>5, <1>6, <1>2

\* The tree after the insert of append is as good as before.
LEMMA InsertTreeOK ==
    ASSUME IInv, running, next_sequence < MaxEntries,
           NEW event, NEW ts, Appendable(event)
    PROVE  TreeOK(Insert(db, next_sequence, NewEntry(event, ts)))
<1>1. DOMAIN Insert(db, next_sequence, NewEntry(event, ts)) = 0..next_sequence
  BY InsertShape
<1>2. next_sequence + 1 \in 0..MaxEntries
      /\ 0..next_sequence = 0..((next_sequence + 1) - 1)
  BY MaxEntriesAssumption DEF IInv
<1> QED
  BY <1>1, <1>2, InsertLinked, InsertAnchors, InsertGapFree DEF TreeOK

\* An append that fails to flush preserves the invariant: memory and disk then
\* differ in the entry past the head only.
LEMMA FlushErrorStep ==
    ASSUME IInv, running, next_sequence < MaxEntries,
           NEW event, NEW ts, Appendable(event),
           AppendFlushError(event, ts),
           UNCHANGED <<running, last_merkle_root, last_anchor_sequence>>
    PROVE  IInv'
<1>1. /\ DOMAIN db' = 0..next_sequence
      /\ \A k \in 0..(next_sequence - 1) : db'[k] = db[k]
  BY InsertShape DEF AppendFlushError
<1>2. TreeOK(db')
  BY InsertTreeOK DEF AppendFlushError
<1>3. TreeOK(disk')
  BY DEF IInv, AppendFlushError
<1>4. next_sequence \in Nat /\ last_anchor_sequence \in 0..next_sequence
  BY MaxEntriesAssumption DEF IInv
<1>5. RunningInv'
  <2>1. Extends(db)' /\ Extends(disk)'
    BY <1>1, <1>4 DEF IInv, RunningInv, Extends, AppendFlushError
  <2>2. (\A k \in 0..(next_sequence - 1) : disk[k] = db[k])'
    BY <1>1, <1>4 DEF IInv, RunningInv, AppendFlushError
  <2>3. (head_hash = HeadHash(db, next_sequence))'
    BY <1>1, <1>4 DEF IInv, RunningInv, AppendFlushError, HeadHash
  <2>4. (\A k \in 0..(next_sequence - 1) : merkle_leaves[k] = db[k].hash)'
    BY <1>1, <1>4 DEF IInv, RunningInv, AppendFlushError
  <2>5. (\A i \in 0..(last_anchor_sequence - 1) : ~IsAnchor(db[i]) =>
            \E t \in 0..(next_sequence - 1) : Covers(db[t], i))'
    <3> SUFFICES ASSUME NEW i \in 0..(last_anchor_sequence - 1), ~IsAnchor(db'[i])
                 PROVE  \E t \in 0..(next_sequence - 1) : Covers(db'[t], i)
      BY DEF AppendFlushError
    <3>1. db'[i] = db[i]
      BY <1>1, <1>4
    <3>2. PICK t \in 0..(next_sequence - 1) : Covers(db[t], i)
      BY <3>1 DEF IInv, RunningInv
    <3> QED
      BY <3>2, <1>1
  <2>6. (\A e \in acked : e.sequence < next_sequence)'
    BY DEF IInv, RunningInv, AppendFlushError
  <2> QED
    BY <2>1, <2>2, <2>3, <2>4, <2>5, <2>6 DEF RunningInv
<1>6. AckedDurable'
  <2> SUFFICES ASSUME NEW e \in acked
               PROVE  StoredIn(disk, e) /\ StoredIn(db', e)
    BY DEF AckedDurable, AppendFlushError, StoredIn
  <2>1. e.sequence \in DOMAIN db /\ db[e.sequence] = e /\ StoredIn(disk, e)
        /\ e.sequence < next_sequence
    BY DEF IInv, RunningInv, AckedDurable, StoredIn
  <2>2. e.sequence \in 0..(next_sequence - 1)
    BY <2>1, <1>4 DEF IInv, RunningInv, Extends
  <2> QED
    BY <2>1, <2>2, <1>1, <1>4 DEF StoredIn
<1> QED
  BY <1>2, <1>3, <1>5, <1>6 DEF IInv, AppendFlushError

\* An append that succeeds preserves it too, whether the last anchor stays or
\* moves past the anchor just appended.
LEMMA AppendOkStep ==
    ASSUME IInv, running, next_sequence < MaxEntries,
           NEW event, NEW ts, Appendable(event),
           AppendOk(event, ts), UNCHANGED running,
           \/ UNCHANGED last_anchor_sequence
           \/ event = AnchorEvent /\ last_anchor_sequence' = next_sequence'
    PROVE  IInv'
<1>1. /\ DOMAIN db' = 0..next_sequence
      /\ db'[next_sequence] = NewEntry(event, ts)
      /\ \A k \in 0..(next_sequence - 1) : db'[k] = db[k]
  BY InsertShape DEF AppendOk
<1>2. TreeOK(db') /\ disk' = db'
  BY InsertTreeOK DEF AppendOk
<1>3. next_sequence \in Nat /\ last_anchor_sequence \in 0..next_sequence
      /\ next_sequence' = next_sequence + 1 /\ next_sequence' \in 0..MaxEntries
      /\ last_anchor_sequence' \in 0..next_sequence'
  BY MaxEntriesAssumption DEF IInv, AppendOk
<1>4. /\ DOMAIN merkle_leaves' = 0..next_sequence
      /\ merkle_leaves'[next_sequence] = NewEntry(event, ts).hash
      /\ \A k \in 0..(next_sequence - 1) : merkle_leaves'[k] = merkle_leaves[k]
  BY <1>3 DEF IInv, AppendOk, Insert
<1>5. RunningInv'
  <2>1. Extends(db)' /\ Extends(disk)'
    BY <1>1, <1>2, <1>3 DEF Extends
  <2>2. (\A k \in 0..(next_sequence - 1) : disk[k] = db[k])'
    BY <1>2
  <2>3. (head_hash = HeadHash(db, next_sequence))'
    BY <1>1, <1>3 DEF AppendOk, HeadHash
  <2>4. (\A k \in 0..(next_sequence - 1) : merkle_leaves[k] = db[k].hash)'
    <3> SUFFICES ASSUME NEW k \in 0..next_sequence
                 PROVE  merkle_leaves'[k] = db'[k].hash
      BY <1>3
    <3>1. CASE k = next_sequence
      BY <3>1, <1>1, <1>4
    <3>2. CASE k # next_sequence
      BY <3>2, <1>1, <1>3, <1>4 DEF IInv, RunningInv
    <3> QED
      BY <3>1, <3>2
  <2>5. (\A i \in 0..(last_anchor_sequence - 1) : ~IsAnchor(db[i]) =>
            \E t \in 0..(next_sequence - 1) : Covers(db[t], i))'
    <3> SUFFICES ASSUME NEW i \in Nat, i < last_anchor_sequence', ~IsAnchor(db'[i])
                 PROVE  \E t \in 0..(next_sequence' - 1) : Covers(db'[t], i)
      <4>1. last_anchor_sequence' \in Nat
        BY <1>3
      <4>2. \A i \in 0..(last_anchor_sequence' - 1) : i \in Nat /\ i < last_anchor_sequence'
        BY <4>1, BelowIsNat
      <4> QED
        BY <4>2
    <3>b. last_anchor_sequence \in Nat /\ last_anchor_sequence' \in Nat
      BY <1>3
    <3>c. last_anchor_sequence' <= next_sequence + 1
      BY <1>3
    <3>d. next_sequence \in 0..(next_sequence' - 1)
      BY <1>3
    <3>1. CASE i < last_anchor_sequence
      <4>1. db'[i] = db[i]
        BY <1>1, <1>3, <3>1
      <4>2. PICK t \in 0..(next_sequence - 1) : Covers(db[t], i)
        BY <4>1, <3>1, <1>3 DEF IInv, RunningInv
      <4> QED
        BY <4>2, <3>d, <1>1, <1>3
    <3>2. CASE i >= last_anchor_sequence
      <4>a. last_anchor_sequence' # last_anchor_sequence
        BY <3>2, <3>b
      <4>b. event = AnchorEvent
        BY <4>a
      <4>c. i \in 0..next_sequence
        BY <1>3, <3>b, <3>c
      <4>1. event = AnchorEvent /\ i \in 0..next_sequence
        BY <4>b, <4>c
      <4>2. /\ db'[next_sequence].event.type = "MerkleAnchor"
            /\ db'[next_sequence].event.from_sequence = last_anchor_sequence
            /\ db'[next_sequence].event.to_sequence = next_sequence - 1
        BY <4>1, <1>1 DEF NewEntry, AnchorEvent, MerkleAnchor
      <4>3. i # next_sequence
        BY <4>2 DEF IsAnchor
      <4>4. i <= next_sequence - 1
        BY <4>1, <4>3, <1>3
      <4>5. Covers(db'[next_sequence], i)
        BY <4>2, <4>4, <3>2 DEF Covers, IsAnchor
      <4> QED
        BY <4>5, <3>d
    <3> QED
      BY <3>1, <3>2, <3>b
  <2>6. (\A e \in acked : e.sequence < next_sequence)'
    <3> SUFFICES ASSUME NEW e \in acked \cup {NewEntry(event, ts)}
                 PROVE  e.sequence < next_sequence + 1
      BY <1>3 DEF AppendOk
    <3>1. CASE e \in acked
      <4>1. e.sequence \in DOMAIN db /\ e.sequence < next_sequence
        BY <3>1 DEF IInv, RunningInv, AckedDurable, StoredIn
      <4>2. e.sequence \in Nat
        BY <4>1, <1>3 DEF IInv, RunningInv, Extends
      <4> QED
        BY <4>1, <4>2, <1>3
    <3>2. CASE e = NewEntry(event, ts)
      BY <3>2, <1>3 DEF NewEntry
    <3> QED
      BY <3>1, <3>2
  <2> QED
    BY <2>1, <2>2, <2>3, <2>4, <2>5, <2>6 DEF RunningInv
<1>6. AckedDurable'
  <2> SUFFICES ASSUME NEW e \in acked \cup {NewEntry(event, ts)}
               PROVE  StoredIn(db', e)
    BY <1>2 DEF AckedDurable, AppendOk, StoredIn
  <2>1. CASE e \in acked
    <3>1. e.sequence \in DOMAIN db /\ db[e.sequence] = e /\ e.sequence < next_sequence
      BY <2>1 DEF IInv, RunningInv, AckedDurable, StoredIn
    <3>2. e.sequence \in 0..(next_sequence - 1)
      BY <3>1, <1>3 DEF IInv, RunningInv, Extends
    <3> QED
      BY <3>1, <3>2, <1>1, <1>3 DEF StoredIn
  <2>2. CASE e = NewEntry(event, ts)
    BY <2>2, <1>1, <1>3 DEF StoredIn, NewEntry
  <2> QED
    BY <2>1, <2>2
<1>7. DOMAIN merkle_leaves' = 0..(next_sequence' - 1)
  BY <1>3, <1>4
<1> QED
  BY <1>2, <1>3, <1>5, <1>6, <1>7 DEF IInv

\* Recovery finds the head that the last entry on disk determines.
LEMMA RecoveredHeadIsLast ==
    ASSUME NEW n \in Nat, DOMAIN db = 0..(n - 1), Linked(db)
    PROVE  /\ RecoveredHead.next = n
           /\ RecoveredHead.hash = HeadHash(db, n)
<1>1. CASE n = 0
  <2>1. db = Empty
    BY <1>1 DEF Empty
  <2> QED
    BY <1>1, <2>1 DEF RecoveredHead, HeadHash
<1>2. CASE n # 0
  <2>1. db # Empty
    BY <1>2 DEF Empty
  <2>2. (CHOOSE k \in DOMAIN db : \A j \in DOMAIN db : j <= k) = n - 1
    <3>1. n - 1 \in DOMAIN db /\ \A j \in DOMAIN db : j <= n - 1
      BY <1>2
    <3>2. PICK m \in DOMAIN db :
            m = CHOOSE k \in DOMAIN db : \A j \in DOMAIN db : j <= k
      BY <3>1
    <3>3. \A j \in DOMAIN db : j <= m
      BY <3>1, <3>2
    <3> QED
      BY <3>1, <3>2, <3>3
  <2>3. db[n - 1].sequence = n - 1
    BY <1>2 DEF Linked
  <2> QED
    BY <1>2, <2>1, <2>2, <2>3 DEF RecoveredHead, HeadHash
<1> QED
  BY <1>1, <1>2

\* IInv is inductive.
LEMMA IInvStep == IInv /\ [Next]_vars => IInv'
<1> SUFFICES ASSUME IInv, [Next]_vars PROVE IInv'
  OBVIOUS
<1>1. ASSUME NEW event \in OrdinaryEvent, NEW ts \in Timestamp,
             LogEvent(event, ts)
      PROVE  IInv'
  <2>1. Appendable(event)
    BY DEF Appendable, OrdinaryEvent
  <2> QED
    BY <1>1, <2>1, AppendOkStep, FlushErrorStep DEF LogEvent
<1>2. ASSUME NEW ts \in Timestamp, compute_merkle_anchor(ts)
      PROVE  IInv'
  <2>1. Appendable(AnchorEvent)
    BY <1>2 DEF Appendable, compute_merkle_anchor
  <2> QED
    BY <1>2, <2>1, AppendOkStep, FlushErrorStep DEF compute_merkle_anchor
<1>3. CASE Open
  <2>1. PICK n \in 0..MaxEntries : DOMAIN db = 0..(n - 1)
    BY DEF IInv, TreeOK
  <2>2. n \in Nat /\ Linked(db) /\ db = disk /\ TreeOK(db)
    BY <1>3, MaxEntriesAssumption DEF IInv, Open, TreeOK
  <2>3. next_sequence' = n /\ head_hash' = HeadHash(db, n)
    BY <1>3, <2>1, <2>2, RecoveredHeadIsLast DEF Open
  <2>4. UNCHANGED <<db, disk, acked>> /\ running' /\ last_anchor_sequence' = 0
        /\ merkle_leaves' = [k \in DOMAIN db |-> db[k].hash]
    BY <1>3 DEF Open, stored
  <2>5. Extends(db)' /\ Extends(disk)'
    BY <2>1, <2>2, <2>3, <2>4 DEF Extends
  <2>6. \A e \in acked : e.sequence < n /\ StoredIn(db, e)
    <3> SUFFICES ASSUME NEW e \in acked PROVE e.sequence < n /\ StoredIn(db, e)
      OBVIOUS
    <3>1. StoredIn(db, e)
      BY DEF IInv, AckedDurable
    <3> QED
      BY <3>1, <2>1, <2>2 DEF StoredIn
  <2>7. RunningInv'
    BY <2>1, <2>2, <2>3, <2>4, <2>5, <2>6 DEF RunningInv, HeadHash
  <2>8. AckedDurable'
    BY <2>4 DEF IInv, AckedDurable, StoredIn
  <2>9. TreeOK(db)' /\ TreeOK(disk)'
    BY <2>2, <2>4
  <2> QED
    BY <1>3, <2>1, <2>2, <2>3, <2>4, <2>7, <2>8, <2>9 DEF IInv, Open
<1>4. CASE BackgroundFlush
  <2>1. UNCHANGED <<running, db, inMemory, acked>> /\ disk' = db /\ running
    BY <1>4 DEF BackgroundFlush
  <2>2. TreeOK(db)' /\ TreeOK(disk)'
    BY <2>1 DEF IInv
  <2>3. RunningInv'
    BY <2>1 DEF IInv, RunningInv, inMemory, Extends, HeadHash
  <2>4. AckedDurable'
    BY <2>1 DEF IInv, AckedDurable, StoredIn
  <2> QED
    BY <2>1, <2>2, <2>3, <2>4 DEF IInv, inMemory
<1>5. CASE Crash
  <2>1. /\ db' = disk /\ disk' = disk /\ running' = FALSE /\ acked' = acked
        /\ next_sequence' = 0 /\ last_anchor_sequence' = 0
        /\ merkle_leaves' = Empty
    BY <1>5 DEF Crash
  <2>2. TreeOK(db)' /\ TreeOK(disk)'
    BY <2>1 DEF IInv
  <2>3. AckedDurable'
    BY <2>1 DEF IInv, AckedDurable, StoredIn
  <2>4. DOMAIN merkle_leaves' = 0..(next_sequence' - 1)
    BY <2>1 DEF Empty
  <2>5. running' \in BOOLEAN /\ ~running' /\ db' = disk'
    BY <2>1, Zenon
  <2>6. next_sequence' \in 0..MaxEntries /\ last_anchor_sequence' \in 0..next_sequence'
    BY <2>1, MaxEntriesAssumption
  <2> QED
    BY <2>2, <2>3, <2>4, <2>5, <2>6 DEF IInv
<1>6. CASE UNCHANGED vars
  <2>1. UNCHANGED <<running, db, disk, head_hash, next_sequence, merkle_leaves,
                    last_anchor_sequence, acked>>
    BY <1>6 DEF vars, stored, inMemory
  <2>2. TreeOK(db)' /\ TreeOK(disk)'
    BY <2>1 DEF IInv
  <2>3. running => RunningInv'
    BY <2>1 DEF IInv, RunningInv, Extends, HeadHash
  <2>4. AckedDurable'
    BY <2>1 DEF IInv, AckedDurable, StoredIn
  <2> QED
    BY <2>1, <2>2, <2>3, <2>4 DEF IInv
<1> QED
  BY <1>1, <1>2, <1>3, <1>4, <1>5, <1>6 DEF Next

\* The empty log that has not been opened satisfies IInv.
LEMMA IInvInit == Init => IInv
<1> SUFFICES ASSUME Init PROVE IInv
  OBVIOUS
<1>1. DOMAIN Empty = {} /\ 0..(0 - 1) = {} /\ 0 \in 0..MaxEntries
  BY MaxEntriesAssumption DEF Empty
<1>2. TreeOK(Empty)
  BY <1>1 DEF TreeOK, Linked, AnchorsMatch, GapFree
<1>3. running \in BOOLEAN /\ ~running /\ db = disk /\ AckedDurable
  BY Zenon DEF Init, AckedDurable
<1>4. /\ next_sequence \in 0..MaxEntries
      /\ last_anchor_sequence \in 0..next_sequence
      /\ DOMAIN merkle_leaves = 0..(next_sequence - 1)
  BY <1>1 DEF Init
<1>5. TreeOK(db) /\ TreeOK(disk)
  BY <1>2 DEF Init
<1> QED
  BY <1>3, <1>4, <1>5 DEF IInv

\* Every reachable state of the log satisfies the inductive invariant.
THEOREM Invariance == Spec => []IInv
<1> QED
  BY IInvInit, IInvStep, PTL DEF Spec

-----------------------------------------------------------------------------
(* What follows from it *)

\* The trees are keyed by the sequence numbers of their entries.
THEOREM TypeCorrect == Spec => []TypeOK
<1>1. IInv => TypeOK
  BY DEF IInv, TypeOK, TreeOK, Keyed, Linked
<1> QED
  BY <1>1, Invariance, PTL

\* AUDITVERIFY never reports a broken link, in the running process or after a
\* crash at any point of an append.
THEOREM ChainAlwaysIntact == Spec => []ChainIntact
<1>1. IInv => ChainIntact
  <2> SUFFICES ASSUME IInv PROVE verify_chain(db) /\ verify_chain(disk)
    BY DEF ChainIntact
  <2>1. PICK n \in 0..MaxEntries : DOMAIN db = 0..(n - 1)
    BY DEF IInv, TreeOK
  <2>2. PICK m \in 0..MaxEntries : DOMAIN disk = 0..(m - 1)
    BY DEF IInv, TreeOK
  <2>3. n \in Nat /\ m \in Nat /\ Linked(db) /\ Linked(disk)
    BY MaxEntriesAssumption DEF IInv, TreeOK
  <2> QED
    BY <2>1, <2>2, <2>3, LinkedVerifies
<1> QED
  BY <1>1, Invariance, PTL

\* An acknowledged entry is never lost and never replaced.
THEOREM AckedAlwaysDurable == Spec => []AckedDurable
<1>1. IInv => AckedDurable
  BY DEF IInv
<1> QED
  BY <1>1, Invariance, PTL

\* Anchors commit to the entries they name ...
THEOREM AnchorsCorrect == Spec => []AnchorsSound
<1>1. IInv => AnchorsSound
  BY DEF IInv, TreeOK, AnchorsSound
<1> QED
  BY <1>1, Invariance, PTL

\* ... and leave none out, whatever append fails and wherever a kill falls.
THEOREM AnchorsCoverAll == Spec => []AnchorsLeaveNoGap
<1>1. IInv => AnchorsLeaveNoGap
  BY DEF IInv, TreeOK, AnchorsLeaveNoGap
<1> QED
  BY <1>1, Invariance, PTL

\* The reported head is the head of what is on disk.
THEOREM HeadAlwaysMatches == Spec => []HeadMatchesLog
<1>1. IInv => HeadMatchesLog
  <2> SUFFICES ASSUME IInv, running PROVE HeadMatchesLog
    BY DEF HeadMatchesLog
  <2>1. next_sequence \in Nat
    BY MaxEntriesAssumption DEF IInv
  <2>2. next_sequence # 0 => disk[next_sequence - 1] = db[next_sequence - 1]
    BY <2>1 DEF IInv, RunningInv
  <2> QED
    BY <2>1, <2>2 DEF IInv, RunningInv, Extends, HeadHash, HeadMatchesLog
<1> QED
  BY <1>1, Invariance, PTL

\* No step rewrites an entry that the head counts.
THEOREM AlwaysAppendOnly == Spec => AppendOnly
<1> DEFINE Kept == running => \A k \in 0..(next_sequence - 1) :
                                k \in DOMAIN db' /\ db'[k] = db[k]
<1>1. IInv /\ [Next]_vars => [Kept]_vars
  <2> SUFFICES ASSUME IInv, Next, running,
                      NEW k \in 0..(next_sequence - 1)
               PROVE  k \in DOMAIN db' /\ db'[k] = db[k]
    OBVIOUS
  <2>1. /\ next_sequence \in Nat
        /\ k \in DOMAIN db
        /\ k \in DOMAIN disk
        /\ disk[k] = db[k]
    BY MaxEntriesAssumption DEF IInv, RunningInv, Extends
  <2>2. CASE db' = db \/ db' = disk
    BY <2>1, <2>2
  <2>3. ASSUME NEW event, NEW ts,
               db' = Insert(db, next_sequence, NewEntry(event, ts))
        PROVE  k \in DOMAIN db' /\ db'[k] = db[k]
    BY <2>1, <2>3, InsertShape
  <2>4. ASSUME NEW event \in OrdinaryEvent, NEW ts \in Timestamp, LogEvent(event, ts)
        PROVE  db' = Insert(db, next_sequence, NewEntry(event, ts))
    BY <2>4 DEF LogEvent, AppendOk, AppendFlushError
  <2>5. ASSUME NEW ts \in Timestamp, compute_merkle_anchor(ts)
        PROVE  db' = Insert(db, next_sequence, NewEntry(AnchorEvent, ts))
    BY <2>5 DEF compute_merkle_anchor, AppendOk, AppendFlushError
  <2>6. Open \/ BackgroundFlush \/ Crash => db' = db \/ db' = disk
    BY DEF Open, BackgroundFlush, Crash, stored
  <2> QED
    BY <2>2, <2>3, <2>4, <2>5, <2>6 DEF Next
<1> QED
  BY <1>1, Invariance, PTL DEF Spec, AppendOnly

-----------------------------------------------------------------------------
(* The refinement *)

\* A successful append is a step of the ledger.
LEMMA AppendExtends ==
    ASSUME IInv, running, NEW event, NEW ts, AppendOk(event, ts), UNCHANGED running
    PROVE  Abstract!Extend(next_sequence)
<1>1. /\ DOMAIN db' = 0..next_sequence
      /\ db'[next_sequence] = NewEntry(event, ts)
      /\ \A k \in 0..(next_sequence - 1) : db'[k] = db[k]
  BY InsertShape DEF AppendOk
<1>2. next_sequence \in Nat /\ next_sequence' = next_sequence + 1
  BY MaxEntriesAssumption DEF IInv, AppendOk
<1>3. Entries = [k \in 0..(next_sequence - 1) |-> db[k]]
  BY DEF Entries
<1>4. Entries' = [k \in 0..next_sequence |-> db'[k]]
  <2>1. Entries' = [k \in 0..(next_sequence' - 1) |-> db'[k]]
    BY DEF Entries
  <2>2. 0..(next_sequence' - 1) = 0..next_sequence
    BY <1>2
  <2> QED
    BY <2>1, <2>2
<1>5. Entries'[next_sequence] = NewEntry(event, ts)
  BY <1>1, <1>2, <1>4
<1>6. Entries'[next_sequence].prev_hash
        = (IF next_sequence = 0 THEN Genesis ELSE Entries[next_sequence - 1].hash)
  <2>1. NewEntry(event, ts).prev_hash = HeadHash(db, next_sequence)
    BY DEF NewEntry, IInv, RunningInv
  <2> QED
    BY <2>1, <1>2, <1>3, <1>5 DEF HeadHash
<1>7. \A k \in 0..(next_sequence - 1) : Entries'[k] = Entries[k]
  BY <1>1, <1>2, <1>3, <1>4
<1>8. acked' = acked \cup {Entries'[next_sequence]}
  BY <1>5 DEF AppendOk
<1>9. DOMAIN Entries = 0..(next_sequence - 1) /\ DOMAIN Entries' = 0..next_sequence
  BY <1>3, <1>4
<1> QED
  BY <1>6, <1>7, <1>8, <1>9 DEF Abstract!Extend

\* An append that fails to flush changes nothing that the ledger shows.
LEMMA FlushErrorStutters ==
    ASSUME IInv, running, NEW event, NEW ts, AppendFlushError(event, ts), UNCHANGED running
    PROVE  UNCHANGED <<Entries, acked>>
<1>1. \A k \in 0..(next_sequence - 1) : db'[k] = db[k]
  BY InsertShape DEF AppendFlushError
<1>2. next_sequence' = next_sequence /\ acked' = acked
  BY DEF AppendFlushError
<1> QED
  BY <1>1, <1>2 DEF Entries

\* A kill can leave the entry of a failed flush on disk, which the ledger gains.
LEMMA CrashExtends ==
    ASSUME IInv, Crash
    PROVE  Abstract!Extend(next_sequence) \/ UNCHANGED <<Entries, acked>>
<1>1. running /\ ~running' /\ disk' = disk /\ acked' = acked
  BY DEF Crash
<1>2. next_sequence \in Nat
  BY MaxEntriesAssumption DEF IInv
<1>3. PICK m \in 0..MaxEntries : DOMAIN disk = 0..(m - 1)
  BY DEF IInv, TreeOK
<1>4. m \in Nat
  BY <1>3, MaxEntriesAssumption
<1>5. Extends(disk) /\ (\A k \in 0..(next_sequence - 1) : disk[k] = db[k]) /\ Linked(disk)
  BY <1>1 DEF IInv, RunningInv, TreeOK
<1>6. Entries = [k \in 0..(next_sequence - 1) |-> db[k]] /\ Entries' = [k \in 0..(m - 1) |-> disk[k]]
  BY <1>1, <1>3 DEF Entries
<1>7. m = next_sequence \/ m = next_sequence + 1
  <2>1. next_sequence > 0 => next_sequence - 1 \in DOMAIN disk
    BY <1>2, <1>5 DEF Extends
  <2>2. m > 0 => m - 1 \in 0..next_sequence
    BY <1>3, <1>4, <1>5 DEF Extends
  <2> QED
    BY <2>1, <2>2, <1>2, <1>3, <1>4
<1>8. CASE m = next_sequence
  <2>1. Entries' = Entries
    BY <1>5, <1>6, <1>8
  <2> QED
    BY <2>1, <1>1
<1>9. CASE m = next_sequence + 1
  <2>1. 0..(m - 1) = 0..next_sequence
    BY <1>2, <1>9
  <2>2. DOMAIN Entries = 0..(next_sequence - 1) /\ DOMAIN Entries' = 0..next_sequence
    BY <1>6, <2>1
  <2>3. \A k \in 0..(next_sequence - 1) : Entries'[k] = Entries[k]
    BY <1>2, <1>5, <1>6, <2>1
  <2>4. disk[next_sequence].prev_hash
          = (IF next_sequence = 0 THEN Genesis ELSE disk[next_sequence - 1].hash)
    BY <1>2, <1>3, <1>5, <2>1 DEF Linked
  <2>5. Entries'[next_sequence].prev_hash
          = (IF next_sequence = 0 THEN Genesis ELSE Entries[next_sequence - 1].hash)
    BY <2>1, <2>4, <1>2, <1>5, <1>6
  <2> QED
    BY <2>2, <2>3, <2>5, <1>1 DEF Abstract!Extend
<1> QED
  BY <1>7, <1>8, <1>9

\* Recovery brings back the entries that were on disk.
LEMMA OpenStutters ==
    ASSUME IInv, Open
    PROVE  UNCHANGED <<Entries, acked>>
<1>1. PICK n \in 0..MaxEntries : DOMAIN db = 0..(n - 1)
  BY DEF IInv, TreeOK
<1>2. ~running /\ running' /\ db' = db /\ db = disk /\ acked' = acked /\ n \in Nat
  BY MaxEntriesAssumption DEF IInv, Open, stored
<1>3. next_sequence' = n
  BY <1>1, <1>2, RecoveredHeadIsLast DEF IInv, TreeOK, Open
<1> QED
  BY <1>1, <1>2, <1>3 DEF Entries

\* Every behaviour of the audit log, with its failures and restarts, is one of
\* the ledger.
THEOREM ImplementsLedger == Spec => LedgerImplemented
<1>1. Init => Abstract!Init
  <2> SUFFICES ASSUME Init PROVE Abstract!Init
    OBVIOUS
  <2>1. DOMAIN Empty = {} /\ acked = {}
    BY DEF Init, Empty
  <2>2. ~running /\ disk = Empty
    BY Zenon DEF Init
  <2>3. DOMAIN Entries = {}
    BY <2>1, <2>2 DEF Entries
  <2> QED
    BY <2>1, <2>3 DEF Abstract!Init
<1>2. IInv /\ [Next]_vars => [Abstract!Next]_<<Entries, acked>>
  <2> SUFFICES ASSUME IInv, [Next]_vars
               PROVE  Abstract!Next \/ UNCHANGED <<Entries, acked>>
    OBVIOUS
  <2>1. next_sequence \in 0..MaxEntries
    BY DEF IInv
  <2>2. Abstract!Extend(next_sequence) => Abstract!Next
    BY <2>1 DEF Abstract!Next
  <2>3. ASSUME NEW event, NEW ts, running, UNCHANGED running,
               AppendOk(event, ts) \/ AppendFlushError(event, ts)
        PROVE  Abstract!Next \/ UNCHANGED <<Entries, acked>>
    BY <2>2, <2>3, AppendExtends, FlushErrorStutters
  <2>4. ASSUME NEW event \in OrdinaryEvent, NEW ts \in Timestamp, LogEvent(event, ts)
        PROVE  Abstract!Next \/ UNCHANGED <<Entries, acked>>
    BY <2>3, <2>4 DEF LogEvent
  <2>5. ASSUME NEW ts \in Timestamp, compute_merkle_anchor(ts)
        PROVE  Abstract!Next \/ UNCHANGED <<Entries, acked>>
    BY <2>3, <2>5 DEF compute_merkle_anchor
  <2>6. CASE Open
    BY <2>6, OpenStutters
  <2>7. CASE Crash
    BY <2>2, <2>7, CrashExtends
  <2>8. CASE BackgroundFlush \/ UNCHANGED vars
    <3>1. UNCHANGED <<running, db, next_sequence, acked>> /\ (running \/ UNCHANGED disk)
      BY <2>8 DEF BackgroundFlush, vars, stored, inMemory
    <3> QED
      BY <3>1 DEF Entries
  <2> QED
    BY <2>4, <2>5, <2>6, <2>7, <2>8 DEF Next
<1> QED
  BY <1>1, <1>2, Invariance, PTL DEF Spec, LedgerImplemented, Abstract!Spec

-----------------------------------------------------------------------------
(* Tampering: a hash carries the number and the event of its entry, so that *)
(* the entries of a linked tree cannot be moved or rewritten.               *)

EntryFields == {"sequence", "prev_hash", "hash", "timestamp_ns", "event"}
Whole(tree) == \A k \in DOMAIN tree : DOMAIN tree[k] = EntryFields
WholeInv == Whole(db) /\ Whole(disk)

\* An append adds a whole entry.
LEMMA InsertWhole ==
    ASSUME Whole(db), NEW event, NEW ts
    PROVE  Whole(Insert(db, next_sequence, NewEntry(event, ts)))
<1> DEFINE new == NewEntry(event, ts)
<1>1. DOMAIN new = EntryFields
  BY DEF NewEntry, EntryFields
<1> HIDE DEF new
<1>2. \A k \in DOMAIN Insert(db, next_sequence, new) :
          Insert(db, next_sequence, new)[k] = new
            \/ (k \in DOMAIN db /\ Insert(db, next_sequence, new)[k] = db[k])
  BY DEF Insert
<1>3. Whole(Insert(db, next_sequence, new))
  BY <1>1, <1>2 DEF Whole
<1> QED
  BY <1>3 DEF new

\* Entries are written whole, and recovered as they were written.
LEMMA WholeStep == WholeInv /\ [Next]_vars => WholeInv'
<1> SUFFICES ASSUME WholeInv, [Next]_vars PROVE WholeInv'
  OBVIOUS
<1>1. ASSUME NEW event, NEW ts, AppendOk(event, ts) \/ AppendFlushError(event, ts) PROVE WholeInv'
  <2>1. db' = Insert(db, next_sequence, NewEntry(event, ts)) /\ (disk' = db' \/ disk' = disk)
    BY <1>1 DEF AppendOk, AppendFlushError
  <2>2. Whole(db')
    BY <2>1, InsertWhole DEF WholeInv
  <2> QED
    BY <2>1, <2>2 DEF WholeInv, Whole
<1>2. ASSUME NEW event, NEW ts, LogEvent(event, ts) PROVE WholeInv'
  BY <1>1, <1>2 DEF LogEvent
<1>3. ASSUME NEW ts, compute_merkle_anchor(ts) PROVE WholeInv'
  BY <1>1, <1>3 DEF compute_merkle_anchor
<1>4. CASE Open \/ BackgroundFlush \/ Crash \/ UNCHANGED vars
  BY <1>4 DEF Open, BackgroundFlush, Crash, vars, stored, WholeInv, Whole
<1> QED
  BY <1>2, <1>3, <1>4 DEF Next

\* Entries under different keys have different hashes, and none has the genesis hash.
LEMMA HashesDiffer ==
    ASSUME NEW tree, Linked(tree), NEW i \in DOMAIN tree
    PROVE  /\ tree[i].hash # Genesis
           /\ \A j \in DOMAIN tree : j # i => tree[j].hash # tree[i].hash
<1>1. \A k \in DOMAIN tree : tree[k].hash = <<tree[k].prev_hash, tree[k].timestamp_ns, k, tree[k].event>>
  BY DEF Linked, compute_hash
<1>2. ASSUME NEW a, NEW b, NEW c, NEW d, NEW x, NEW y, NEW z, NEW w, c # z
      PROVE  <<a, b, c, d>> # <<x, y, z, w>> /\ <<a, b, c, d>> # << >>
  BY <1>2
<1> QED
  BY <1>1, <1>2 DEF Genesis

\* What verify_chain takes for the entry before a key is the largest key below it.
LEMMA PrevHashIsLargest ==
    ASSUME NEW tree, NEW k \in Int, DOMAIN tree \subseteq Int, NEW m \in DOMAIN tree, m < k,
           \A j \in DOMAIN tree : j < k => j <= m
    PROVE  PrevHash(tree, k) = tree[m].hash
<1> DEFINE below == {j \in DOMAIN tree : j < k}
<1>1. m \in below /\ \A j \in below : j <= m
  OBVIOUS
<1>2. PICK l \in below : l = CHOOSE x \in below : \A j \in below : j <= x
  BY <1>1
<1>3. \A j \in below : j <= l
  BY <1>1, <1>2
<1>4. l = m
  BY <1>1, <1>2, <1>3
<1> QED
  BY <1>1, <1>2, <1>4 DEF PrevHash

\* The chain breaks behind a removed entry.
LEMMA RemovalDetected ==
    ASSUME NEW tree, NEW n \in Nat, DOMAIN tree = 0..(n - 1), Linked(tree),
           NEW i \in DOMAIN tree, i + 1 \in DOMAIN tree
    PROVE  ~verify_chain(Without(tree, i))
<1> DEFINE cut == Without(tree, i)
<1>1. DOMAIN cut = DOMAIN tree \ {i} /\ \A k \in DOMAIN tree \ {i} : cut[k] = tree[k]
  BY DEF Without
<1> HIDE DEF cut
<1>2. i + 1 \in DOMAIN cut /\ cut[i + 1].prev_hash = tree[i].hash
  BY <1>1 DEF Linked
<1>3. PrevHash(cut, i + 1) # tree[i].hash
  <2>1. CASE i = 0
    <3>1. {k \in DOMAIN cut : k < i + 1} = {}
      BY <1>1, <2>1
    <3> QED
      BY <3>1, HashesDiffer DEF PrevHash
  <2>2. CASE i # 0
    <3>1. i - 1 \in DOMAIN cut /\ i - 1 \in DOMAIN tree /\ cut[i - 1] = tree[i - 1]
      BY <1>1, <2>2
    <3>2. DOMAIN cut \subseteq Int /\ \A j \in DOMAIN cut : j < i + 1 => j <= i - 1
      BY <1>1
    <3>3. PrevHash(cut, i + 1) = cut[i - 1].hash
      BY <3>1, <3>2, PrevHashIsLargest
    <3> QED
      BY <3>1, <3>3, HashesDiffer
  <2> QED
    BY <2>1, <2>2
<1>4. i + 1 \in BrokenAt(cut)
  BY <1>2, <1>3 DEF BrokenAt
<1> QED
  BY <1>4 DEF verify_chain, cut

\* The chain breaks at the first of two exchanged entries.
LEMMA ExchangeDetected ==
    ASSUME NEW tree, NEW n \in Nat, DOMAIN tree = 0..(n - 1), Linked(tree),
           NEW i \in DOMAIN tree, NEW j \in DOMAIN tree, i < j
    PROVE  ~verify_chain(Swapped(tree, i, j))
<1> DEFINE swapped == Swapped(tree, i, j)
<1>1. /\ DOMAIN swapped = 0..(n - 1)
      /\ swapped[i] = tree[j]
      /\ \A k \in DOMAIN tree \ {i, j} : swapped[k] = tree[k]
  BY DEF Swapped
<1> HIDE DEF swapped
<1>2. j - 1 \in DOMAIN tree /\ swapped[i].prev_hash = tree[j - 1].hash
  BY <1>1 DEF Linked
<1>3. PrevHash(swapped, i) = IF i = 0 THEN Genesis ELSE swapped[i - 1].hash
  BY <1>1, PrevHashIsPredecessor
<1>4. PrevHash(swapped, i) # tree[j - 1].hash
  <2>1. CASE i = 0
    BY <1>2, <1>3, <2>1, HashesDiffer
  <2>2. CASE i # 0
    <3>1. i - 1 \in DOMAIN tree /\ swapped[i - 1] = tree[i - 1] /\ i - 1 # j - 1
      BY <1>1, <2>2
    <3> QED
      BY <1>2, <1>3, <2>2, <3>1, HashesDiffer
  <2> QED
    BY <2>1, <2>2
<1>5. i \in BrokenAt(swapped)
  BY <1>1, <1>2, <1>4 DEF BrokenAt
<1> QED
  BY <1>5 DEF verify_chain, swapped

\* The chain breaks at an entry with another event.
LEMMA ChangeDetected ==
    ASSUME NEW tree, Linked(tree), Whole(tree), NEW i \in DOMAIN tree,
           NEW event, event # tree[i].event
    PROVE  ~verify_chain([tree EXCEPT ![i].event = event])
<1> DEFINE changed == [tree EXCEPT ![i].event = event]
<1>1. /\ i \in DOMAIN changed /\ changed[i].event = event
      /\ changed[i].hash = tree[i].hash /\ changed[i].prev_hash = tree[i].prev_hash
      /\ changed[i].timestamp_ns = tree[i].timestamp_ns /\ changed[i].sequence = tree[i].sequence
  BY DEF Whole, EntryFields
<1> HIDE DEF changed
<1>2. changed[i].hash # compute_hash(changed[i].prev_hash, changed[i].event,
                                     changed[i].timestamp_ns, changed[i].sequence)
  BY <1>1 DEF Linked, compute_hash
<1>3. i \in BrokenAt(changed)
  BY <1>1, <1>2 DEF BrokenAt
<1> QED
  BY <1>3 DEF verify_chain, changed

\* verify_chain detects, in every reachable log, each removal of an entry with a
\* successor, each exchange and each change of an event (audit.rs:5, 203-234).
THEOREM TamperingDetected == Spec => []TamperDetected
<1>1. IInv /\ WholeInv => TamperDetected
  <2> SUFFICES ASSUME IInv, WholeInv PROVE TamperDetected
    OBVIOUS
  <2>1. PICK n \in 0..MaxEntries : DOMAIN db = 0..(n - 1)
    BY DEF IInv, TreeOK
  <2>2. n \in Nat /\ Linked(db) /\ Whole(db)
    BY <2>1 DEF IInv, TreeOK, WholeInv
  <2> QED
    BY <2>1, <2>2, RemovalDetected, ExchangeDetected, ChangeDetected DEF TamperDetected
<1>2. Spec => []WholeInv
  <2>1. Init => WholeInv
    BY DEF Init, WholeInv, Whole, Empty
  <2> QED
    BY <2>1, WholeStep, PTL DEF Spec
<1> QED
  BY <1>1, <1>2, Invariance, PTL
=============================================================================
