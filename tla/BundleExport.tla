---------------------------- MODULE BundleExport ----------------------------
(***************************************************************************)
(* `cachee export` (main.rs, ContentStore::export_all) writes every bundle *)
(* of the content store to a file of its own, and may be killed or fail at *)
(* any byte and be run again; `cachee-verify --dir` (bin/verify.rs) may    *)
(* read the directory at any time.  The content store does not change: the *)
(* exporter holds sled's lock, so no daemon writes to it.                  *)
(***************************************************************************)
EXTENDS BundleFormat, BundleVerification, FiniteSets

CONSTANTS
    Slots,         \* what the daemon has cached: [hash, created_at, fingerprint]
    KeySets,       \* << >> or << [identity, keys, sign] >>: the daemon's PqKeySet
    OtherBundles,  \* bundles that were not made from a slot
    Issuers,       \* a federated node's trusted ML-DSA keys
    Contents(_),   \* bound: the sets of bundles, of different addresses, a store holds
    MaxRuns        \* bound: runs of the exporter

VARIABLES
    db,         \* the content store: [content address -> bundle], stored serialized
    disk,       \* the export directory: [content address -> bytes of <address>.cab]
    exporter,   \* [pc, todo, file, count, runs]
    verifier    \* [pc, todo, valid, invalid, exit, undisturbed]

vars == <<db, disk, exporter, verifier>>

-----------------------------------------------------------------------------
(* daemon.rs: the bundle a SET persists.                                   *)

NoBytes == [f \in Families |-> << >>]
Zeros(n) == [i \in 1..n |-> 0]
SignaturePrefix(s) == IF Len(s) >= Width["prefix"] THEN SubSeq(s, 1, Width["prefix"]) ELSE Zeros(Width["prefix"])

slot_to_bundle(slot, pq_keys) ==
    LET signed == pq_keys # << >>
        keys == IF signed THEN pq_keys[1].keys ELSE NoBytes
        sigs == IF signed THEN pq_keys[1].sign[slot.hash] ELSE NoBytes
    IN  [magic |-> CAB_MAGIC, version |-> 1,
         primitive |-> [version |-> 1, timestamp |-> slot.created_at, value_hash |-> slot.hash,
                        mldsa_prefix |-> SignaturePrefix(sigs["mldsa65"]),
                        falcon_prefix |-> SignaturePrefix(sigs["falcon512"]),
                        slhdsa_prefix |-> SignaturePrefix(sigs["slhdsa128f"]),
                        flags |-> Zeros(Width["flags"])],
         content_hash |-> slot.hash, computation_type |-> [name |-> "Custom", code |-> 0],
         timestamp_ns |-> slot.created_at, signer_keys |-> keys, signatures |-> sigs,
         metadata |-> << >>, on_chain_anchor |-> << >>,
         completeness |-> IF signed THEN "Complete" ELSE "Partial",
         computation_fingerprint |-> slot.fingerprint,
         signer_identity |-> IF signed THEN pq_keys[1].identity ELSE DefaultIdentity]

Bundles == {slot_to_bundle(s, k) : s \in Slots, k \in KeySets} \cup OtherBundles

Parts == {CacheeArchiveBundle[i].name : i \in DOMAIN CacheeArchiveBundle}

\* The two modules write the same four bytes, and the default identity has the
\* key id of none; serialize returns a Vec<u8> that is never empty; a bundle has
\* the fields of the struct.
ASSUME ExportAssumption ==
    /\ CabMagic = CAB_MAGIC /\ DefaultIdentity.key_id = ZeroHash /\ MaxRuns \in Nat
    /\ \A S \in Contents(Bundles) : S \subseteq Bundles /\ IsFiniteSet(S)
    /\ \A b \in Bundles : serialize(b) \in Seq(0..(Radix - 1)) /\ serialize(b) # << >>
    /\ \A b \in OtherBundles : DOMAIN b = Parts

-----------------------------------------------------------------------------

Init ==
    /\ \E S \in Contents(Bundles) :
          /\ db = [a \in {content_address(b) : b \in S} |-> CHOOSE b \in S : content_address(b) = a]
    /\ disk = << >>
    /\ exporter = [pc |-> "idle", todo |-> {}, file |-> << >>, count |-> 0, runs |-> 0]
    /\ verifier = [pc |-> "idle", todo |-> {}, valid |-> 0, invalid |-> 0, exit |-> "none",
                   undisturbed |-> "no"]

\* A step of the exporter: a check under way is disturbed, a past one forgotten.
Disturb ==
    verifier' = IF verifier.pc = "idle" THEN [verifier EXCEPT !.exit = "none"]
                ELSE [verifier EXCEPT !.undisturbed = "no"]

\* Seeded fault: the count goes on from the last run.
StartExportCounting ==
    /\ exporter.pc \in {"idle", "done"}
    /\ exporter.runs < MaxRuns
    /\ DOMAIN db # {}
    /\ exporter' = [exporter EXCEPT !.pc = "files", !.todo = DOMAIN db, !.runs = @ + 1]
    /\ Disturb
    /\ UNCHANGED <<db, disk>>
\* An empty store is reported and nothing is written.
StartExport ==
    /\ exporter.pc \in {"idle", "done"}
    /\ exporter.runs < MaxRuns
    /\ DOMAIN db # {}
    /\ exporter' = [pc |-> "files", todo |-> DOMAIN db, file |-> << >>, count |-> 0,
                    runs |-> exporter.runs + 1]
    /\ Disturb
    /\ UNCHANGED <<db, disk>>

\* sled iterates in the order of its keys: always the same one.
NextFile == CHOOSE a \in exporter.todo : TRUE

\* std::fs::write creates or truncates the file ...
Create ==
    /\ exporter.pc = "files" /\ exporter.todo # {}
    /\ exporter' = [exporter EXCEPT !.pc = "write", !.file = NextFile]
    /\ disk' = [a \in DOMAIN disk \cup {NextFile} |-> IF a = NextFile THEN << >> ELSE disk[a]]
    /\ Disturb
    /\ UNCHANGED db

\* ... and writes the bytes of the store; a stop may come between any two.
WriteByte ==
    LET a == exporter.file
        bytes == serialize(db[a])
        n == Len(disk[a]) + 1
    IN  /\ exporter.pc = "write"
        /\ disk' = [disk EXCEPT ![a] = Append(@, bytes[n])]
        /\ exporter' =
              IF n < Len(bytes) THEN exporter
              ELSE [exporter EXCEPT !.pc = "files", !.todo = @ \ {a}, !.count = @ + 1]
        /\ Disturb
        /\ UNCHANGED db

FinishExport ==
    /\ exporter.pc = "files" /\ exporter.todo = {}
    /\ exporter' = [exporter EXCEPT !.pc = "done"]
    /\ Disturb
    /\ UNCHANGED <<db, disk>>

\* A kill, or the error return of a write that failed.
StopExport ==
    /\ exporter.pc \in {"files", "write"}
    /\ exporter' = [exporter EXCEPT !.pc = "idle"]
    /\ Disturb
    /\ UNCHANGED <<db, disk>>

-----------------------------------------------------------------------------
(* cachee-verify --dir.                                                    *)

StartVerify ==
    /\ verifier.pc = "idle"
    /\ verifier' = [pc |-> "dir", todo |-> DOMAIN disk, valid |-> 0, invalid |-> 0, exit |-> "none",
                    undisturbed |-> IF exporter.pc = "done" THEN "yes" ELSE "no"]
    /\ UNCHANGED <<db, disk, exporter>>

VerifyNext(a) ==
    LET result == verify_file(deserialize(disk[a]))
    IN  /\ verifier.pc = "dir" /\ a \in verifier.todo
        /\ verifier' = [verifier EXCEPT !.todo = @ \ {a},
                                        !.valid = @ + (IF result.valid THEN 1 ELSE 0),
                                        !.invalid = @ + (IF result.valid THEN 0 ELSE 1)]
        /\ UNCHANGED <<db, disk, exporter>>

\* An empty directory has no invalid bundle either.
EndVerify ==
    /\ verifier.pc = "dir" /\ verifier.todo = {}
    /\ verifier' = [verifier EXCEPT !.pc = "idle", !.valid = 0, !.invalid = 0,
                                    !.exit = IF verifier.invalid > 0 THEN "1" ELSE "0"]
    /\ UNCHANGED <<db, disk, exporter>>

Next ==
    \/ StartExport \/ Create \/ WriteByte \/ FinishExport \/ StopExport
    \/ StartVerify \/ EndVerify
    \/ \E a \in DOMAIN disk : VerifyNext(a)

Spec == Init /\ [][Next]_vars

-----------------------------------------------------------------------------
(* What is asked of the wire format for the bundles of the store, each by  *)
(* itself.                                                                 *)

\* The parser undoes the serializer, and the announced size is the size.
ReadsBack == \A b \in Bundles : LET read == deserialize(serialize(b)) IN read.ok /\ read.val = b
SizeAnnounced == \A b \in Bundles : compressed_size(b) = Len(serialize(b))

\* If a bundle with bytes missing at the end can be parsed at all, it is read as
\* the one that was written, without its signer identity.
Anonymous(b) == [b EXCEPT !.signer_identity = DefaultIdentity]
CutReadsAnonymous ==
    \A b \in Bundles : \A n \in 0..(Len(serialize(b)) - 1) :
        LET read == deserialize(SubSeq(serialize(b), 1, n))
        IN  read.ok => read.val = Anonymous(b)

-----------------------------------------------------------------------------
(* Properties.                                                             *)

\* Files hold a beginning of what is stored, and the counters count.
TypeOK ==
    /\ DOMAIN disk \subseteq DOMAIN db
    /\ \A a \in DOMAIN disk : IsPrefix(disk[a], serialize(db[a]))
    /\ exporter.pc \in {"idle", "files", "write", "done"}
    /\ exporter.todo \subseteq DOMAIN db
    /\ exporter.count \in 0..Cardinality(DOMAIN db)
    /\ exporter.runs \in 0..MaxRuns
    /\ verifier.pc \in {"idle", "dir"}
    /\ verifier.todo \subseteq DOMAIN disk
    /\ verifier.valid + verifier.invalid \in 0..Cardinality(DOMAIN disk)
    /\ verifier.exit \in {"none", "0", "1"}
    /\ verifier.undisturbed \in {"yes", "no"}

\* A run of `cachee export` that reports its count (content_store.rs:87) has
\* left one file per stored bundle, whatever earlier runs left behind, and each
\* file parses back to that bundle: its name is the content address of what is
\* in it, writing it again gives the same bytes (ContentStore::export), and it
\* is as long as compressed_size announced.
ExportsReadBack ==
    exporter.pc = "done" =>
        /\ DOMAIN disk = DOMAIN db
        /\ exporter.count = Cardinality(DOMAIN db)
        /\ \A a \in DOMAIN db :
              LET read == deserialize(disk[a])
              IN  /\ read.ok /\ read.val = db[a]
                  /\ content_address(read.val) = a
                  /\ serialize(read.val) = disk[a]
                  /\ compressed_size(db[a]) = Len(disk[a])

\* A file an interrupted export left is never taken for more than its bundle
\* is (archive.rs:766-777 lets the tail be missing): if it parses at all, it is
\* the stored bundle or, when it lacks bytes, that without its signer identity,
\* and then never valid without a warning; and no trust boundary accepts it that
\* would refuse the stored bundle.
CutNeverClean ==
    \A a \in DOMAIN disk :
        LET read == deserialize(disk[a])
            cut  == disk[a] # serialize(db[a])
        IN  read.ok =>
              /\ read.val = IF cut THEN Anonymous(db[a]) ELSE db[a]
              /\ cut => verify(read.val).verdict # "Valid"
              /\ \A t \in TrustBoundary :
                    accept_remote_bundle(read.val, t, Issuers) => accept_remote_bundle(db[a], t, Issuers)

\* The exit code of `cachee-verify --dir` (bin/verify.rs:230) over a finished
\* export that no other run disturbed is 0 exactly when every stored bundle has
\* two valid signature families.
DirectoryVerdict ==
    verifier.exit # "none" /\ verifier.undisturbed = "yes" =>
        (verifier.exit = "0" <=> \A a \in DOMAIN db : two_of_three(verify(db[a])))

=============================================================================
