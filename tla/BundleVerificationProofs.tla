----------------------- MODULE BundleVerificationProofs -----------------------
(***************************************************************************)
(* What the verdicts of BundleVerification mean, for every bundle and any  *)
(* behaviour of the signature algorithms; and, for every store and however *)
(* often the export is stopped and run again, what BundleExport leaves on  *)
(* the disk and what a check of it finds.                                  *)
(***************************************************************************)
EXTENDS BundleExport, FiniteSetTheorems, SequenceTheorems, TLAPS

-----------------------------------------------------------------------------
(* The signature families.                                                 *)

\* There are three families, so any set of them is finite.
LEMMA FamiliesFinite ==
    \A S \in SUBSET Families : IsFiniteSet(S) /\ Cardinality(S) \in Nat
<1>1. Families = {"mldsa65"} \cup {"falcon512"} \cup {"slhdsa128f"}
  BY DEF Families
<1>2. IsFiniteSet(Families)
  BY <1>1, FS_Singleton, FS_Union
<1> QED
  BY <1>2, FS_Subset, FS_CardinalityType

\* The families that verify are families.
LEMMA ValidAreFamilies == \A b : ValidFamilies(b) \in SUBSET Families
  BY DEF ValidFamilies

\* Without a family nothing counts as two of three.
LEMMA NoneIsNotTwo == ~TwoOfThree({})
  BY FS_EmptySet DEF TwoOfThree

\* Two of three families verify only if one other than any given family does.
LEMMA AnotherFamily ==
    ASSUME NEW S \in SUBSET Families, TwoOfThree(S), NEW f \in Families
    PROVE  \E g \in S : g # f
<1> SUFFICES ASSUME \A g \in S : g = f PROVE FALSE
  OBVIOUS
<1>1. S \subseteq {f}
  OBVIOUS
<1>2. IsFiniteSet({f}) /\ Cardinality({f}) = 1
  BY FS_Singleton
<1>3. Cardinality(S) <= 1
  BY <1>1, <1>2, FS_Subset
<1> QED
  BY <1>3, FamiliesFinite DEF TwoOfThree

-----------------------------------------------------------------------------
(* cachee-verify.                                                          *)

\* A verdict of verify is one of three, and "Invalid" whenever two of three
\* signatures are not valid (archive.rs).
LEMMA ValidHasTwo ==
    ASSUME NEW b, is_valid(verify(b))
    PROVE  b.magic = CAB_MAGIC /\ TwoOfThree(ValidFamilies(b))
<1>1. CASE b.magic # CAB_MAGIC
  <2>1. verify(b).verdict = "Invalid"
    BY <1>1 DEF verify
  <2> QED
    BY <2>1 DEF is_valid
<1>2. CASE b.magic = CAB_MAGIC
  <2>1. verify(b).verdict = Verdict(b)
    BY <1>2 DEF verify
  <2>2. Defects(b) = {}
    BY <2>1 DEF is_valid, Verdict
  <2>3. "fewer than 2-of-3 signatures valid" \notin Defects(b)
    BY <2>2
  <2> QED
    BY <1>2, <2>3 DEF Defects
<1> QED
  BY <1>1, <1>2

\* cachee-verify says VALID of a file exactly if it parses, begins as a bundle
\* does and two of three families verify: the content hash, the timestamp, the
\* fingerprint and the format's version have no say in it (bin/verify.rs:150).
THEOREM ValidIsTwoOfThree ==
    \A parsed : verify_file(parsed).valid <=>
        /\ parsed.ok
        /\ parsed.val.magic = CAB_MAGIC
        /\ TwoOfThree(ValidFamilies(parsed.val))
<1> TAKE parsed
<1>1. CASE ~parsed.ok
  BY <1>1 DEF verify_file, Unreadable
<1>2. CASE parsed.ok
  <2> DEFINE b == parsed.val
  <2>1. verify_file(parsed).valid <=> is_valid(verify(b)) \/ two_of_three(verify(b))
    BY <1>2 DEF verify_file
  <2>2. CASE b.magic # CAB_MAGIC
    <3>1. verify(b).families = {}
      BY <2>2 DEF verify
    <3>2. ~two_of_three(verify(b))
      BY <3>1, NoneIsNotTwo DEF two_of_three
    <3>3. ~is_valid(verify(b))
      BY <2>2, ValidHasTwo
    <3> QED
      BY <1>2, <2>1, <2>2, <3>2, <3>3
  <2>3. CASE b.magic = CAB_MAGIC
    <3>1. verify(b).families = ValidFamilies(b)
      BY <2>3 DEF verify
    <3>2. two_of_three(verify(b)) <=> TwoOfThree(ValidFamilies(b))
      BY <3>1 DEF two_of_three
    <3>3. is_valid(verify(b)) => TwoOfThree(ValidFamilies(b))
      BY ValidHasTwo
    <3> QED
      BY <1>2, <2>1, <2>3, <3>2, <3>3
  <2> QED
    BY <2>2, <2>3
<1> QED
  BY <1>1, <1>2

\* However a single signature family behaves, whichever it is, a file that is
\* found VALID carries a signature of its content hash that another family
\* accepts: what the choice of three families is for (crypto.rs, archive.rs).
THEOREM OneFamilyIsNotEnough ==
    \A parsed : verify_file(parsed).valid =>
        \A broken \in Families : \E f \in Families \ {broken} :
            LET b == parsed.val
            IN  <<f, b.signer_keys[f], b.content_hash, b.signatures[f]>> \in Signed
<1> TAKE parsed
<1> HAVE verify_file(parsed).valid
<1> TAKE broken \in Families
<1> DEFINE b == parsed.val
<1>1. TwoOfThree(ValidFamilies(b))
  BY ValidIsTwoOfThree
<1>2. PICK f \in ValidFamilies(b) : f # broken
  BY <1>1, ValidAreFamilies, AnotherFamily
<1>3. verify_family(f, b.signer_keys[f], b.content_hash, b.signatures[f]) = "Ok(true)"
  BY <1>2 DEF ValidFamilies
<1>4. <<f, b.signer_keys[f], b.content_hash, b.signatures[f]>> \in Signed
  BY <1>3 DEF verify_family
<1>5. f \in Families \ {broken}
  BY <1>2, ValidAreFamilies
<1> QED
  BY <1>4, <1>5

-----------------------------------------------------------------------------
(* Federation.                                                             *)

\* What a node takes from another would be found VALID by cachee-verify as
\* well, is the result of a computation it names, and comes from an issuer on
\* the list wherever there is one; a node that trusts itself only takes nothing
\* (federation.rs).
THEOREM AcceptedIsVerified ==
    \A b, trust, issuers : accept_remote_bundle(b, trust, issuers) =>
        /\ verify_file([ok |-> TRUE, val |-> b]).valid
        /\ has_valid_fingerprint(b)
        /\ trust # "SelfOnly"
        /\ trust \in {"TrustedPeers", "TrustedIssuers"} => b.signer_keys["mldsa65"] \in issuers
  BY DEF accept_remote_bundle, verify_file

-----------------------------------------------------------------------------
(* The policy.                                                             *)

\* A locked node that goes through any number of allowed changes is never less
\* strict than where it began: one step is not, and neither are two in a row;
\* and no allowed change goes below the minimum (trust.rs).
THEOREM LockedNeverRelaxes ==
    \A first, second, third, minimum :
        /\ is_mode_change_allowed(first, second, TRUE, minimum)
        /\ is_mode_change_allowed(second, third, TRUE, minimum)
        => /\ mode_strictness(third) >= mode_strictness(first)
           /\ is_mode_change_allowed(first, third, TRUE, minimum)
<1>1. \A mode : mode_strictness(mode) \in 0..4
  BY DEF mode_strictness
<1> QED
  BY <1>1 DEF is_mode_change_allowed

-----------------------------------------------------------------------------
(* The export.  Every file is a beginning of the bytes stored under its    *)
(* name; those the run under way has done are whole.  A check of a         *)
(* finished export that nobody disturbed has found of each file what can   *)
(* be found of the whole bundle.                                           *)

Whole(a) == a \in DOMAIN disk /\ disk[a] = serialize(db[a])
Beginning(s, t) == s \in Seq(0..(Radix - 1)) /\ Len(s) <= Len(t) /\ \A i \in 1..Len(s) : s[i] = t[i]
FoundValid(a) == verify_file(deserialize(serialize(db[a]))).valid

StoreOK == IsFiniteSet(DOMAIN db) /\ \A a \in DOMAIN db : db[a] \in Bundles /\ content_address(db[a]) = a

FilesOK ==
    /\ DOMAIN disk \subseteq DOMAIN db
    /\ \A a \in DOMAIN disk : Beginning(disk[a], serialize(db[a]))

ExporterOK ==
    /\ exporter = [pc |-> exporter.pc, todo |-> exporter.todo, file |-> exporter.file,
                   count |-> exporter.count, runs |-> exporter.runs]
    /\ exporter.pc \in {"idle", "files", "write", "done"}
    /\ exporter.todo \subseteq DOMAIN db
    /\ exporter.count \in Nat
    /\ exporter.count + Cardinality(exporter.todo) <= Cardinality(DOMAIN db)
    /\ exporter.runs \in 0..MaxRuns
    /\ exporter.pc # "idle" =>
          /\ exporter.count + Cardinality(exporter.todo) = Cardinality(DOMAIN db)
          /\ \A a \in DOMAIN db \ exporter.todo : Whole(a)
    /\ exporter.pc = "write" =>
          /\ exporter.file \in exporter.todo \cap DOMAIN disk
          /\ Len(disk[exporter.file]) < Len(serialize(db[exporter.file]))
    /\ exporter.pc = "done" => exporter.todo = {}

VerifierOK ==
    /\ verifier = [pc |-> verifier.pc, todo |-> verifier.todo, valid |-> verifier.valid,
                   invalid |-> verifier.invalid, exit |-> verifier.exit, undisturbed |-> verifier.undisturbed]
    /\ verifier.pc \in {"idle", "dir"}
    /\ verifier.todo \subseteq DOMAIN disk
    /\ verifier.valid \in Nat /\ verifier.invalid \in Nat
    /\ verifier.valid + verifier.invalid + Cardinality(verifier.todo) <= Cardinality(DOMAIN disk)
    /\ verifier.exit \in {"none", "0", "1"}
    /\ verifier.undisturbed \in {"yes", "no"}
    /\ verifier.pc = "idle" => verifier.todo = {}

\* An undisturbed check runs over a finished export.
CheckOK ==
    /\ verifier.undisturbed = "yes" /\ (verifier.pc = "dir" \/ verifier.exit # "none") => exporter.pc = "done"
    /\ verifier.undisturbed = "yes" /\ verifier.pc = "dir" =>
          (verifier.invalid = 0 <=> \A a \in DOMAIN db \ verifier.todo : FoundValid(a))
    /\ verifier.undisturbed = "yes" /\ verifier.exit # "none" =>
          (verifier.exit = "0" <=> \A a \in DOMAIN db : FoundValid(a))
    /\ verifier.pc = "dir" => verifier.exit = "none"

ExportInv == StoreOK /\ FilesOK /\ ExporterOK /\ VerifierOK /\ CheckOK

\* What is stored is bytes, and at least one.
LEMMA StoredBytes ==
    ASSUME StoreOK, NEW a \in DOMAIN db
    PROVE  /\ serialize(db[a]) \in Seq(0..(Radix - 1))
           /\ Len(serialize(db[a])) \in Nat \ {0}
BY ExportAssumption, EmptySeq DEF StoreOK

\* The first byte that is missing from a beginning makes a longer one, or the whole.
LEMMA OneByteMore ==
    ASSUME NEW t, t \in Seq(0..(Radix - 1)), NEW s, Beginning(s, t), Len(s) < Len(t),
           NEW u, u = Append(s, t[Len(s) + 1])
    PROVE  Beginning(u, t) /\ Len(u) = Len(s) + 1 /\ (Len(u) = Len(t) => u = t)
<1>1. s \in Seq(0..(Radix - 1)) /\ Len(s) \in Nat /\ Len(t) \in Nat
  BY DEF Beginning
<1>2. Len(s) + 1 \in 1..Len(t)
  BY <1>1
<1>3. t[Len(s) + 1] \in 0..(Radix - 1)
  BY <1>2, ElementOfSeq
<1>4. /\ u \in Seq(0..(Radix - 1)) /\ Len(u) = Len(s) + 1
      /\ \A i \in 1..Len(u) : u[i] = IF i = Len(s) + 1 THEN t[Len(s) + 1] ELSE s[i]
  BY <1>1, <1>3
<1>5. Beginning(u, t)
  <2>1. ASSUME NEW i \in 1..Len(u) PROVE u[i] = t[i]
    <3>1. CASE i = Len(s) + 1
      BY <1>4, <3>1
    <3>2. CASE i # Len(s) + 1
      <4>1. i \in 1..Len(s)
        BY <1>1, <1>4, <3>2
      <4> QED
        BY <1>4, <3>2, <4>1 DEF Beginning
    <3> QED
      BY <3>1, <3>2
  <2> QED
    BY <1>1, <1>4, <2>1 DEF Beginning
<1>6. Len(u) = Len(t) => u = t
  BY <1>4, <1>5, SeqEqual DEF Beginning
<1> QED
  BY <1>4, <1>5, <1>6

\* A beginning of a byte string is the cut of it at its own length.
LEMMA BeginningIsPrefix ==
    ASSUME NEW s, NEW t \in Seq(0..(Radix - 1)), Beginning(s, t)
    PROVE  Len(s) \in 0..Len(t) /\ s = SubSeq(t, 1, Len(s))
<1>1. s \in Seq(0..(Radix - 1)) /\ Len(s) \in Nat /\ Len(t) \in Nat /\ Len(s) <= Len(t)
  BY DEF Beginning
<1>2. \A i \in 1..Len(s) : t[i] \in 0..(Radix - 1)
  <2>1. \A i \in 1..Len(s) : i \in 1..Len(t)
    BY <1>1
  <2> QED
    BY <2>1, ElementOfSeq
<1>3. /\ SubSeq(t, 1, Len(s)) \in Seq(0..(Radix - 1)) /\ Len(SubSeq(t, 1, Len(s))) = Len(s)
      /\ \A i \in 1..Len(s) : SubSeq(t, 1, Len(s))[i] = t[i]
  BY <1>1, <1>2, SubSeqProperties
<1>4. \A i \in 1..Len(s) : SubSeq(t, 1, Len(s))[i] = s[i]
  BY <1>3 DEF Beginning
<1> QED
  BY <1>1, <1>3, <1>4, SeqEqual

\* Nothing is a beginning.
LEMMA NoBytesYet == \A t : t \in Seq(0..(Radix - 1)) => Beginning(<< >>, t)
<1> TAKE t
<1> HAVE t \in Seq(0..(Radix - 1))
<1>1. << >> \in Seq(0..(Radix - 1)) /\ Len(<< >>) = 0 /\ Len(t) \in Nat
  BY EmptySeq
<1> QED
  BY <1>1 DEF Beginning

\* The number of files.
LEMMA FileCounts ==
    ASSUME StoreOK, NEW S \in SUBSET DOMAIN db
    PROVE  /\ IsFiniteSet(S) /\ Cardinality(S) \in Nat /\ Cardinality(DOMAIN db) \in Nat
           /\ Cardinality(S) <= Cardinality(DOMAIN db)
           /\ \A a \in S : Cardinality(S \ {a}) = Cardinality(S) - 1
BY FS_Subset, FS_CardinalityType, FS_RemoveElement DEF StoreOK

\* After a step of the exporter, a check under way is not one over a finished
\* export that nobody disturbed.
LEMMA DisturbKeeps ==
    ASSUME StoreOK, VerifierOK, CheckOK, Disturb, UNCHANGED db,
           DOMAIN disk \subseteq DOMAIN disk', DOMAIN disk' \subseteq DOMAIN db
    PROVE  VerifierOK' /\ CheckOK'
<1>1. Cardinality(DOMAIN disk) <= Cardinality(DOMAIN disk')
  BY FileCounts, FS_Subset
<1>2. /\ Cardinality(DOMAIN disk) \in Nat /\ Cardinality(DOMAIN disk') \in Nat
      /\ Cardinality(verifier.todo) \in Nat
  BY FileCounts DEF VerifierOK
<1>3. CASE verifier.pc = "idle"
  <2>1. verifier' = [verifier EXCEPT !.exit = "none"]
    BY <1>3 DEF Disturb
  <2>2. verifier' = [pc |-> verifier.pc, todo |-> verifier.todo, valid |-> verifier.valid,
                     invalid |-> verifier.invalid, exit |-> "none", undisturbed |-> verifier.undisturbed]
    BY <2>1 DEF VerifierOK
  <2>3. /\ verifier'.pc = "idle" /\ verifier'.todo = verifier.todo /\ verifier'.valid = verifier.valid
        /\ verifier'.invalid = verifier.invalid /\ verifier'.exit = "none"
        /\ verifier'.undisturbed = verifier.undisturbed
    BY <1>3, <2>2
  <2>4. VerifierOK'
    BY <1>1, <1>2, <2>2, <2>3 DEF VerifierOK
  <2>5. CheckOK'
    BY <2>3 DEF CheckOK
  <2> QED
    BY <2>4, <2>5
<1>4. CASE verifier.pc # "idle"
  <2>1. verifier' = [verifier EXCEPT !.undisturbed = "no"]
    BY <1>4 DEF Disturb
  <2>2. verifier' = [pc |-> verifier.pc, todo |-> verifier.todo, valid |-> verifier.valid,
                     invalid |-> verifier.invalid, exit |-> verifier.exit, undisturbed |-> "no"]
    BY <2>1 DEF VerifierOK
  <2>3. /\ verifier'.pc = verifier.pc /\ verifier'.todo = verifier.todo /\ verifier'.valid = verifier.valid
        /\ verifier'.invalid = verifier.invalid /\ verifier'.exit = verifier.exit
        /\ verifier'.undisturbed = "no"
    BY <2>2
  <2>4. VerifierOK'
    BY <1>1, <1>2, <1>4, <2>2, <2>3 DEF VerifierOK
  <2>5. CheckOK'
    BY <1>4, <2>3 DEF CheckOK, VerifierOK
  <2> QED
    BY <2>4, <2>5
<1> QED
  BY <1>3, <1>4

\* A run starts: nothing of it is done yet.
LEMMA StartExportStep == ASSUME ExportInv, StartExport PROVE ExportInv'
<1>1. exporter' = [pc |-> "files", todo |-> DOMAIN db, file |-> << >>, count |-> 0, runs |-> exporter.runs + 1]
  BY DEF StartExport
<1>2. /\ exporter'.pc = "files" /\ exporter'.todo = DOMAIN db /\ exporter'.count = 0
      /\ exporter'.runs = exporter.runs + 1 /\ exporter'.file = << >>
  BY <1>1
<1>3. exporter.runs + 1 \in 0..MaxRuns
  BY ExportAssumption DEF StartExport, ExportInv, ExporterOK
<1>4. UNCHANGED <<db, disk>> /\ Cardinality(DOMAIN db) \in Nat
  BY FileCounts DEF StartExport, ExportInv
<1>5. ExporterOK'
  BY <1>1, <1>2, <1>3, <1>4 DEF ExporterOK
<1>6. StoreOK' /\ FilesOK'
  BY <1>4 DEF ExportInv, StoreOK, FilesOK
<1>7. VerifierOK' /\ CheckOK'
  BY <1>4, DisturbKeeps DEF StartExport, ExportInv, FilesOK
<1> QED
  BY <1>5, <1>6, <1>7 DEF ExportInv

\* A file is created, or cut to nothing.
LEMMA CreateStep == ASSUME ExportInv, Create PROVE ExportInv'
<1>1. NextFile \in exporter.todo
  BY DEF Create, NextFile
<1>2. PICK a : a = NextFile
  OBVIOUS
<1>3. a \in exporter.todo /\ a \in DOMAIN db
  BY <1>1, <1>2 DEF ExportInv, ExporterOK
<1>4. /\ exporter.pc = "files" /\ UNCHANGED db /\ exporter' = [exporter EXCEPT !.pc = "write", !.file = a]
      /\ disk' = [b \in DOMAIN disk \cup {a} |-> IF b = a THEN << >> ELSE disk[b]]
  BY <1>2 DEF Create
<1>5. exporter' = [pc |-> "write", todo |-> exporter.todo, file |-> a, count |-> exporter.count,
                   runs |-> exporter.runs]
  <2>1. exporter = [pc |-> exporter.pc, todo |-> exporter.todo, file |-> exporter.file,
                    count |-> exporter.count, runs |-> exporter.runs]
    BY DEF ExportInv, ExporterOK
  <2> QED
    BY <1>4, <2>1
<1>6. /\ exporter'.pc = "write" /\ exporter'.todo = exporter.todo /\ exporter'.file = a
      /\ exporter'.count = exporter.count /\ exporter'.runs = exporter.runs
  BY <1>5
<1>7. /\ DOMAIN disk' = DOMAIN disk \cup {a} /\ disk'[a] = << >>
      /\ \A b \in DOMAIN disk \ {a} : disk'[b] = disk[b]
  BY <1>4
<1>8. serialize(db[a]) \in Seq(0..(Radix - 1)) /\ Len(serialize(db[a])) > 0 /\ Len(<< >>) = 0
  BY <1>3, StoredBytes, EmptySeq DEF ExportInv
<1>9. FilesOK'
  BY <1>3, <1>4, <1>7, <1>8, NoBytesYet DEF ExportInv, FilesOK
<1>10. \A b \in DOMAIN db \ exporter.todo : Whole(b)'
  <2> SUFFICES ASSUME NEW b \in DOMAIN db \ exporter.todo PROVE Whole(b)'
    OBVIOUS
  <2>1. Whole(b) /\ b # a
    BY <1>3, <1>4 DEF ExportInv, ExporterOK
  <2> QED
    BY <1>4, <1>7, <2>1 DEF Whole
<1>11. /\ a \in exporter'.todo \cap DOMAIN disk' /\ Len(disk'[a]) < Len(serialize(db'[a]))
  BY <1>3, <1>4, <1>6, <1>7, <1>8
<1>12. ExporterOK'
  BY <1>4, <1>5, <1>6, <1>10, <1>11 DEF ExportInv, ExporterOK
<1>13. StoreOK'
  BY <1>4 DEF ExportInv, StoreOK
<1>14. VerifierOK' /\ CheckOK'
  BY <1>4, <1>7, <1>9, DisturbKeeps DEF Create, ExportInv, FilesOK
<1> QED
  BY <1>9, <1>12, <1>13, <1>14 DEF ExportInv

\* A byte is written; the last one makes the file whole.
LEMMA WriteByteStep == ASSUME ExportInv, WriteByte PROVE ExportInv'
<1>1. PICK a : a = exporter.file
  OBVIOUS
<1>2. PICK t : t = serialize(db[a])
  OBVIOUS
<1>3. PICK s : s = disk[a]
  OBVIOUS
<1>4. PICK u : u = Append(s, t[Len(s) + 1])
  OBVIOUS
<1>5. exporter.pc = "write" /\ disk' = [disk EXCEPT ![a] = u] /\ UNCHANGED db
  BY <1>1, <1>2, <1>3, <1>4 DEF WriteByte
<1>6. a \in exporter.todo /\ a \in DOMAIN disk /\ a \in DOMAIN db /\ Len(s) < Len(t)
  BY <1>1, <1>2, <1>3, <1>5 DEF ExportInv, ExporterOK
<1>7. t \in Seq(0..(Radix - 1)) /\ Len(t) \in Nat /\ Beginning(s, t) /\ Len(s) \in Nat
  BY <1>2, <1>3, <1>6, StoredBytes DEF ExportInv, FilesOK, Beginning
<1>8. Beginning(u, t) /\ Len(u) = Len(s) + 1 /\ (Len(u) = Len(t) => u = t)
  <2>1. Len(s) < Len(t) /\ t \in Seq(0..(Radix - 1)) /\ Beginning(s, t)
    BY <1>6, <1>7
  <2>2. u = Append(s, t[Len(s) + 1])
    BY <1>4
  <2>3. Beginning(u, t) /\ Len(u) = Len(s) + 1
    BY <2>1, <2>2, OneByteMore
  <2>4. Len(u) = Len(t) => u = t
    BY <2>1, <2>2, OneByteMore
  <2> QED
    BY <2>3, <2>4
<1>9. DOMAIN disk' = DOMAIN disk /\ disk'[a] = u /\ \A b \in DOMAIN disk \ {a} : disk'[b] = disk[b]
  BY <1>5, <1>6
<1>10. FilesOK'
  BY <1>2, <1>5, <1>8, <1>9 DEF ExportInv, FilesOK
<1>11. \A b \in DOMAIN db \ exporter.todo : Whole(b)'
  <2> SUFFICES ASSUME NEW b \in DOMAIN db \ exporter.todo PROVE Whole(b)'
    OBVIOUS
  <2>1. Whole(b) /\ b # a
    BY <1>5, <1>6 DEF ExportInv, ExporterOK
  <2> QED
    BY <1>5, <1>9, <2>1 DEF Whole
<1>12. ASSUME Len(s) + 1 < Len(t) PROVE ExporterOK'
  <2>1. exporter' = exporter
    BY <1>1, <1>2, <1>3, <1>12 DEF WriteByte
  <2>2. a \in DOMAIN disk' /\ Len(disk'[a]) < Len(serialize(db'[a]))
    BY <1>2, <1>5, <1>6, <1>8, <1>9, <1>12
  <2>3. \A b \in DOMAIN db' \ exporter'.todo : Whole(b)'
    BY <1>5, <1>11, <2>1
  <2>4. exporter'.file \in exporter'.todo \cap DOMAIN disk' /\ Len(disk'[exporter'.file]) < Len(serialize(db'[exporter'.file]))
    BY <1>1, <1>6, <2>1, <2>2
  <2>5. exporter'.pc = "write"
    BY <1>5, <2>1
  <2> QED
    BY <1>5, <2>1, <2>3, <2>4, <2>5 DEF ExportInv, ExporterOK
<1>13. ASSUME ~(Len(s) + 1 < Len(t)) PROVE ExporterOK'
  <2>1. exporter' = [pc |-> "files", todo |-> exporter.todo \ {a}, file |-> exporter.file,
                     count |-> exporter.count + 1, runs |-> exporter.runs]
    <3>1. exporter = [pc |-> exporter.pc, todo |-> exporter.todo, file |-> exporter.file,
                      count |-> exporter.count, runs |-> exporter.runs]
      BY DEF ExportInv, ExporterOK
    <3>2. exporter' = [exporter EXCEPT !.pc = "files", !.todo = @ \ {a}, !.count = @ + 1]
      BY <1>1, <1>2, <1>3, <1>13 DEF WriteByte
    <3> QED
      BY <3>1, <3>2
  <2>2. /\ exporter'.pc = "files" /\ exporter'.todo = exporter.todo \ {a} /\ exporter'.file = exporter.file
        /\ exporter'.count = exporter.count + 1 /\ exporter'.runs = exporter.runs
    BY <2>1
  <2>3. u = t
    BY <1>6, <1>7, <1>8, <1>13
  <2>4. Whole(a)'
    BY <1>2, <1>5, <1>6, <1>9, <2>3 DEF Whole
  <2>5. \A b \in DOMAIN db' \ exporter'.todo : Whole(b)'
    BY <1>5, <1>11, <2>2, <2>4
  <2>6. /\ Cardinality(exporter.todo \ {a}) = Cardinality(exporter.todo) - 1
        /\ Cardinality(exporter.todo) \in Nat /\ Cardinality(DOMAIN db) \in Nat
    BY <1>6, FileCounts DEF ExportInv, ExporterOK
  <2>7. /\ exporter.count \in Nat /\ exporter.count + Cardinality(exporter.todo) = Cardinality(DOMAIN db)
        /\ exporter.todo \subseteq DOMAIN db /\ exporter.runs \in 0..MaxRuns
    BY <1>5 DEF ExportInv, ExporterOK
  <2>8. exporter'.count \in Nat /\ exporter'.count + Cardinality(exporter'.todo) = Cardinality(DOMAIN db')
    BY <1>5, <2>2, <2>6, <2>7
  <2> QED
    BY <1>5, <2>1, <2>2, <2>5, <2>6, <2>7, <2>8 DEF ExporterOK
<1>14. StoreOK'
  BY <1>5 DEF ExportInv, StoreOK
<1>15. VerifierOK' /\ CheckOK'
  BY <1>5, <1>9, DisturbKeeps DEF WriteByte, ExportInv, FilesOK
<1> QED
  BY <1>10, <1>12, <1>13, <1>14, <1>15 DEF ExportInv

\* A run ends, with every file written, or is stopped.
LEMMA EndExportStep == ASSUME ExportInv, FinishExport \/ StopExport PROVE ExportInv'
<1>1. PICK pc : /\ exporter' = [exporter EXCEPT !.pc = pc]
                /\ pc = "idle" \/ (pc = "done" /\ exporter.pc # "idle" /\ exporter.todo = {})
  BY DEF FinishExport, StopExport
<1>2. UNCHANGED <<db, disk>> /\ Disturb
  BY DEF FinishExport, StopExport
<1>3. exporter' = [pc |-> pc, todo |-> exporter.todo, file |-> exporter.file,
                   count |-> exporter.count, runs |-> exporter.runs]
  BY <1>1 DEF ExportInv, ExporterOK
<1>4. /\ exporter'.pc = pc /\ exporter'.todo = exporter.todo /\ exporter'.file = exporter.file
      /\ exporter'.count = exporter.count /\ exporter'.runs = exporter.runs
  BY <1>3
<1>5. ExporterOK'
  <2>1. CASE pc = "idle"
    BY <1>2, <1>3, <1>4, <2>1 DEF ExportInv, ExporterOK
  <2>2. CASE pc = "done" /\ exporter.pc # "idle" /\ exporter.todo = {}
    BY <1>2, <1>3, <1>4, <2>2 DEF ExportInv, ExporterOK, Whole
  <2> QED
    BY <1>1, <2>1, <2>2
<1>6. StoreOK' /\ FilesOK'
  BY <1>2 DEF ExportInv, StoreOK, FilesOK
<1>7. VerifierOK' /\ CheckOK'
  BY <1>2, DisturbKeeps DEF ExportInv, FilesOK
<1> QED
  BY <1>5, <1>6, <1>7 DEF ExportInv

\* A check begins with the files there are.
LEMMA StartVerifyStep == ASSUME ExportInv, StartVerify PROVE ExportInv'
<1>1. UNCHANGED <<db, disk, exporter>>
  BY DEF StartVerify
<1>2. PICK y : y = IF exporter.pc = "done" THEN "yes" ELSE "no"
  OBVIOUS
<1>3. verifier' = [pc |-> "dir", todo |-> DOMAIN disk, valid |-> 0, invalid |-> 0, exit |-> "none",
                   undisturbed |-> y]
  BY <1>2 DEF StartVerify
<1>4. /\ verifier'.pc = "dir" /\ verifier'.todo = DOMAIN disk /\ verifier'.valid = 0 /\ verifier'.invalid = 0
      /\ verifier'.exit = "none" /\ verifier'.undisturbed = y
  BY <1>3
<1>5. StoreOK' /\ FilesOK' /\ ExporterOK'
  BY <1>1 DEF ExportInv, StoreOK, FilesOK, ExporterOK, Whole
<1>6. Cardinality(DOMAIN disk) \in Nat
  BY FileCounts DEF ExportInv, FilesOK
<1>7. VerifierOK'
  BY <1>1, <1>2, <1>3, <1>4, <1>6 DEF VerifierOK
<1>8. CheckOK'
  <2>1. exporter.pc = "done" => DOMAIN db \ DOMAIN disk = {}
    BY DEF ExportInv, ExporterOK, Whole
  <2> QED
    BY <1>1, <1>2, <1>4, <2>1 DEF CheckOK
<1> QED
  BY <1>5, <1>7, <1>8 DEF ExportInv

\* A verifier of which one field is changed.
LEMMA VerifierFields ==
    ASSUME NEW r, NEW p, NEW t, NEW v, NEW i, NEW e, NEW u,
           r = [pc |-> p, todo |-> t, valid |-> v, invalid |-> i, exit |-> e, undisturbed |-> u]
    PROVE  /\ \A x : [r EXCEPT !.pc = x] = [pc |-> x, todo |-> t, valid |-> v, invalid |-> i, exit |-> e, undisturbed |-> u]
           /\ \A x : [r EXCEPT !.todo = x] = [pc |-> p, todo |-> x, valid |-> v, invalid |-> i, exit |-> e, undisturbed |-> u]
           /\ \A x : [r EXCEPT !.valid = x] = [pc |-> p, todo |-> t, valid |-> x, invalid |-> i, exit |-> e, undisturbed |-> u]
           /\ \A x : [r EXCEPT !.invalid = x] = [pc |-> p, todo |-> t, valid |-> v, invalid |-> x, exit |-> e, undisturbed |-> u]
           /\ \A x : [r EXCEPT !.exit = x] = [pc |-> p, todo |-> t, valid |-> v, invalid |-> i, exit |-> x, undisturbed |-> u]
OBVIOUS

\* A file is checked: if the export is finished, it is what is stored.
LEMMA VerifyNextStep == ASSUME ExportInv, NEW a, VerifyNext(a) PROVE ExportInv'
<1>1. /\ UNCHANGED <<db, disk, exporter>> /\ verifier.pc = "dir" /\ a \in verifier.todo
  BY DEF VerifyNext
<1>2. PICK n \in {0, 1} : n = 1 <=> verify_file(deserialize(disk[a])).valid
  OBVIOUS
<1>3. PICK v, i : /\ v = verifier.valid + n /\ i = verifier.invalid + (1 - n)
                  /\ verifier' = [verifier EXCEPT !.todo = @ \ {a}, !.valid = v, !.invalid = i]
  <2>1. CASE verify_file(deserialize(disk[a])).valid
    <3>1. verifier' = [verifier EXCEPT !.todo = @ \ {a}, !.valid = @ + 1, !.invalid = @ + 0]
      BY <2>1 DEF VerifyNext
    <3>2. n = 1 /\ 1 - n = 0
      BY <1>2, <2>1
    <3> QED
      BY <3>1, <3>2
  <2>2. CASE ~verify_file(deserialize(disk[a])).valid
    <3>1. verifier' = [verifier EXCEPT !.todo = @ \ {a}, !.valid = @ + 0, !.invalid = @ + 1]
      BY <2>2 DEF VerifyNext
    <3>2. n = 0 /\ 1 - n = 1
      BY <1>2, <2>2
    <3> QED
      BY <3>1, <3>2
  <2> QED
    BY <2>1, <2>2
<1>4. verifier' = [pc |-> "dir", todo |-> verifier.todo \ {a}, valid |-> verifier.valid + n,
                   invalid |-> verifier.invalid + (1 - n), exit |-> verifier.exit,
                   undisturbed |-> verifier.undisturbed]
  <2>1. verifier = [pc |-> "dir", todo |-> verifier.todo, valid |-> verifier.valid,
                    invalid |-> verifier.invalid, exit |-> verifier.exit, undisturbed |-> verifier.undisturbed]
    BY <1>1 DEF ExportInv, VerifierOK
  <2>2. PICK t : t = verifier.todo \ {a}
    OBVIOUS
  <2>3. verifier' = [verifier EXCEPT !.todo = t, !.valid = v, !.invalid = i]
    BY <1>3, <2>2
  <2>4. verifier' = [pc |-> "dir", todo |-> t, valid |-> v, invalid |-> i, exit |-> verifier.exit,
                     undisturbed |-> verifier.undisturbed]
    <3>1. PICK r : r = [verifier EXCEPT !.todo = t]
      OBVIOUS
    <3>2. r = [pc |-> "dir", todo |-> t, valid |-> verifier.valid, invalid |-> verifier.invalid,
               exit |-> verifier.exit, undisturbed |-> verifier.undisturbed]
      BY <2>1, <3>1, VerifierFields
    <3>3. PICK q : q = [r EXCEPT !.valid = v]
      OBVIOUS
    <3>4. q = [pc |-> "dir", todo |-> t, valid |-> v, invalid |-> verifier.invalid,
               exit |-> verifier.exit, undisturbed |-> verifier.undisturbed]
      BY <3>2, <3>3, VerifierFields
    <3>5. verifier' = [q EXCEPT !.invalid = i]
      BY <2>3, <3>1, <3>3
    <3> QED
      BY <3>4, <3>5, VerifierFields
  <2> QED
    BY <1>3, <2>2, <2>4
<1>5. /\ verifier'.pc = "dir" /\ verifier'.todo = verifier.todo \ {a} /\ verifier'.valid = verifier.valid + n
      /\ verifier'.invalid = verifier.invalid + (1 - n) /\ verifier'.exit = verifier.exit
      /\ verifier'.undisturbed = verifier.undisturbed
  BY <1>4
<1>6. StoreOK' /\ FilesOK' /\ ExporterOK'
  BY <1>1 DEF ExportInv, StoreOK, FilesOK, ExporterOK, Whole
<1>7. /\ Cardinality(DOMAIN disk) \in Nat /\ Cardinality(verifier.todo) \in Nat
      /\ Cardinality(verifier.todo \ {a}) = Cardinality(verifier.todo) - 1
  BY <1>1, FileCounts DEF ExportInv, FilesOK, VerifierOK
<1>8. /\ verifier.valid \in Nat /\ verifier.invalid \in Nat /\ verifier.todo \subseteq DOMAIN disk
      /\ verifier.valid + verifier.invalid + Cardinality(verifier.todo) <= Cardinality(DOMAIN disk)
      /\ verifier.exit \in {"none", "0", "1"} /\ verifier.undisturbed \in {"yes", "no"}
  BY DEF ExportInv, VerifierOK
<1>9. /\ verifier'.valid \in Nat /\ verifier'.invalid \in Nat /\ verifier'.todo \subseteq DOMAIN disk
      /\ verifier'.valid + verifier'.invalid + Cardinality(verifier'.todo) <= Cardinality(DOMAIN disk)
  BY <1>5, <1>7, <1>8
<1>10. VerifierOK'
  BY <1>1, <1>4, <1>5, <1>8, <1>9 DEF VerifierOK
<1>11. CheckOK'
  <2>1. ASSUME verifier.undisturbed = "yes"
        PROVE  verifier'.invalid = 0 <=> \A b \in DOMAIN db \ verifier'.todo : FoundValid(b)
    <3>1. exporter.pc = "done" /\ (verifier.invalid = 0 <=> \A b \in DOMAIN db \ verifier.todo : FoundValid(b))
      BY <1>1, <2>1 DEF ExportInv, CheckOK
    <3>2. a \in DOMAIN db
      BY <1>1 DEF ExportInv, VerifierOK, FilesOK
    <3>3. disk[a] = serialize(db[a])
      BY <3>1, <3>2 DEF ExportInv, ExporterOK, Whole
    <3>4. n = 1 <=> FoundValid(a)
      BY <1>2, <3>3 DEF FoundValid
    <3>5. verifier'.invalid = 0 <=> verifier.invalid = 0 /\ n = 1
      BY <1>2, <1>5, <1>8
    <3>6. DOMAIN db \ verifier'.todo = (DOMAIN db \ verifier.todo) \cup {a}
      BY <1>5, <3>2
    <3> QED
      BY <3>1, <3>4, <3>5, <3>6
  <2>2. verifier.exit = "none"
    BY <1>1 DEF ExportInv, CheckOK
  <2>3. verifier.undisturbed = "yes" => exporter.pc = "done"
    BY <1>1 DEF ExportInv, CheckOK
  <2>4. \A b : FoundValid(b)' <=> FoundValid(b)
    BY <1>1 DEF FoundValid
  <2> QED
    BY <1>1, <1>5, <2>1, <2>2, <2>3, <2>4 DEF CheckOK, FoundValid
<1> QED
  BY <1>6, <1>10, <1>11 DEF ExportInv

\* A check ends: its exit code says whether it found an invalid file.
LEMMA EndVerifyStep == ASSUME ExportInv, EndVerify PROVE ExportInv'
<1>1. UNCHANGED <<db, disk, exporter>> /\ verifier.pc = "dir" /\ verifier.todo = {}
  BY DEF EndVerify
<1>2. PICK code : code = IF verifier.invalid > 0 THEN "1" ELSE "0"
  OBVIOUS
<1>3. verifier' = [pc |-> "idle", todo |-> {}, valid |-> 0, invalid |-> 0, exit |-> code,
                   undisturbed |-> verifier.undisturbed]
  <2>1. verifier = [pc |-> "dir", todo |-> {}, valid |-> verifier.valid,
                    invalid |-> verifier.invalid, exit |-> verifier.exit, undisturbed |-> verifier.undisturbed]
    BY <1>1 DEF ExportInv, VerifierOK
  <2>2. verifier' = [verifier EXCEPT !.pc = "idle", !.valid = 0, !.invalid = 0, !.exit = code]
    BY <1>2 DEF EndVerify
  <2>3. PICK r : r = [verifier EXCEPT !.pc = "idle"]
    OBVIOUS
  <2>4. r = [pc |-> "idle", todo |-> {}, valid |-> verifier.valid, invalid |-> verifier.invalid,
             exit |-> verifier.exit, undisturbed |-> verifier.undisturbed]
    BY <2>1, <2>3, VerifierFields
  <2>5. PICK q : q = [r EXCEPT !.valid = 0]
    OBVIOUS
  <2>6. q = [pc |-> "idle", todo |-> {}, valid |-> 0, invalid |-> verifier.invalid,
             exit |-> verifier.exit, undisturbed |-> verifier.undisturbed]
    BY <2>4, <2>5, VerifierFields
  <2>7. PICK o : o = [q EXCEPT !.invalid = 0]
    OBVIOUS
  <2>8. o = [pc |-> "idle", todo |-> {}, valid |-> 0, invalid |-> 0,
             exit |-> verifier.exit, undisturbed |-> verifier.undisturbed]
    BY <2>6, <2>7, VerifierFields
  <2>9. verifier' = [o EXCEPT !.exit = code]
    BY <2>2, <2>3, <2>5, <2>7
  <2> QED
    BY <2>8, <2>9, VerifierFields
<1>4. /\ verifier'.pc = "idle" /\ verifier'.todo = {} /\ verifier'.valid = 0 /\ verifier'.invalid = 0
      /\ verifier'.exit = code /\ verifier'.undisturbed = verifier.undisturbed
  BY <1>3
<1>5. StoreOK' /\ FilesOK' /\ ExporterOK'
  BY <1>1 DEF ExportInv, StoreOK, FilesOK, ExporterOK, Whole
<1>6. Cardinality(DOMAIN disk) \in Nat /\ Cardinality({}) = 0
  BY FileCounts, FS_EmptySet DEF ExportInv, FilesOK
<1>7. VerifierOK'
  <2>1. verifier.undisturbed \in {"yes", "no"} /\ code \in {"none", "0", "1"}
    BY <1>2 DEF ExportInv, VerifierOK
  <2> QED
    BY <1>1, <1>3, <1>4, <1>6, <2>1 DEF VerifierOK
<1>8. CheckOK'
  <2>1. verifier.invalid \in Nat
    BY DEF ExportInv, VerifierOK
  <2>2. code = "0" <=> verifier.invalid = 0
    BY <1>2, <2>1
  <2>3. ASSUME verifier.undisturbed = "yes"
        PROVE  exporter.pc = "done" /\ (code = "0" <=> \A b \in DOMAIN db : FoundValid(b))
    BY <1>1, <2>2, <2>3 DEF ExportInv, CheckOK
  <2> QED
    BY <1>1, <1>4, <2>3 DEF CheckOK, FoundValid
<1> QED
  BY <1>5, <1>7, <1>8 DEF ExportInv

\* A store of different bundles under their addresses, and no export yet.
LEMMA ExportInit == Init => ExportInv
<1> SUFFICES ASSUME Init PROVE ExportInv
  OBVIOUS
<1>1. PICK S \in Contents(Bundles) :
         db = [a \in {content_address(b) : b \in S} |-> CHOOSE b \in S : content_address(b) = a]
  BY DEF Init
<1>2. S \subseteq Bundles /\ IsFiniteSet(S)
  BY ExportAssumption
<1>3. StoreOK
  <2> DEFINE T == {content_address(b) : b \in S}
             f == [b \in S |-> content_address(b)]
  <2>1. f \in Surjection(S, T)
    BY DEF Surjection
  <2>2. IsFiniteSet(T)
    BY <1>2, <2>1, FS_Surjection
  <2>3. ASSUME NEW a \in T PROVE db[a] \in S /\ content_address(db[a]) = a
    BY <1>1, <2>3
  <2> QED
    BY <1>1, <1>2, <2>2, <2>3 DEF StoreOK
<1>4. DOMAIN disk = {} /\ Cardinality({}) = 0 /\ Cardinality(DOMAIN db) \in Nat
  BY <1>3, FS_EmptySet, FS_CardinalityType DEF Init, StoreOK
<1>5. FilesOK /\ CheckOK
  BY <1>4 DEF Init, FilesOK, CheckOK
<1>6. ExporterOK
  BY <1>4, ExportAssumption DEF Init, ExporterOK
<1>7. VerifierOK
  BY <1>4 DEF Init, VerifierOK
<1> QED
  BY <1>3, <1>5, <1>6, <1>7 DEF ExportInv

\* However often the export is stopped and run again, and whenever it is checked.
THEOREM ExportInvariance == Spec => []ExportInv
<1>1. ExportInv /\ [Next]_vars => ExportInv'
  <2> SUFFICES ASSUME ExportInv, [Next]_vars PROVE ExportInv'
    OBVIOUS
  <2>1. CASE UNCHANGED vars
    BY <2>1 DEF vars, ExportInv, StoreOK, FilesOK, ExporterOK, VerifierOK, CheckOK, Whole, FoundValid
  <2>2. ASSUME NEW a, VerifyNext(a) PROVE ExportInv'
    BY <2>2, VerifyNextStep
  <2> QED
    BY <2>1, <2>2, StartExportStep, CreateStep, WriteByteStep, EndExportStep, StartVerifyStep, EndVerifyStep
       DEF Next
<1> QED
  BY <1>1, ExportInit, PTL DEF Spec

\* The files of an export are beginnings of what is stored, and the counters
\* count, at any byte of any run (content_store.rs:74-88).
THEOREM ExportTypesCorrect == Spec => []TypeOK
<1>1. ExportInv => TypeOK
  <2> SUFFICES ASSUME ExportInv PROVE TypeOK
    OBVIOUS
  <2>1. ASSUME NEW a \in DOMAIN disk PROVE IsPrefix(disk[a], serialize(db[a]))
    <3>1. PICK s, t : s = disk[a] /\ t = serialize(db[a])
      OBVIOUS
    <3>2. Beginning(s, t) /\ t \in Seq(0..(Radix - 1))
      BY <2>1, <3>1, StoredBytes DEF ExportInv, FilesOK
    <3>3. Len(s) \in 0..Len(t) /\ s = SubSeq(t, 1, Len(s))
      BY <3>2, BeginningIsPrefix
    <3>4. SubSeq(s, 1, Len(s)) = s
      BY <3>2, SubSeqFull DEF Beginning
    <3> QED
      BY <3>1, <3>2, <3>3, <3>4 DEF IsPrefix
  <2>2. /\ exporter.todo \subseteq DOMAIN db /\ DOMAIN disk \subseteq DOMAIN db
        /\ verifier.todo \subseteq DOMAIN disk
    BY DEF ExportInv, ExporterOK, FilesOK, VerifierOK
  <2>3. /\ Cardinality(DOMAIN db) \in Nat /\ Cardinality(exporter.todo) \in Nat
        /\ Cardinality(DOMAIN disk) \in Nat /\ Cardinality(verifier.todo) \in Nat
    <3>1. verifier.todo \subseteq DOMAIN db
      BY <2>2
    <3> QED
      BY <2>2, <3>1, FileCounts DEF ExportInv
  <2>4. exporter.count \in 0..Cardinality(DOMAIN db)
    BY <2>3 DEF ExportInv, ExporterOK
  <2>5. verifier.valid + verifier.invalid \in 0..Cardinality(DOMAIN disk)
    BY <2>3 DEF ExportInv, VerifierOK
  <2> QED
    BY <2>1, <2>2, <2>4, <2>5 DEF TypeOK, ExportInv, ExporterOK, VerifierOK
<1> QED
  BY <1>1, ExportInvariance, PTL

\* A finished export has written every stored bundle whole, each to a file under
\* its own address and nothing else, and reports their number, whatever earlier
\* runs that were stopped have left (content_store.rs:74-88).
ExportWhole ==
    exporter.pc = "done" =>
        /\ DOMAIN disk = DOMAIN db
        /\ exporter.count = Cardinality(DOMAIN db)
        /\ \A a \in DOMAIN db : db[a] \in Bundles /\ content_address(db[a]) = a /\ disk[a] = serialize(db[a])

LEMMA FinishedIsWhole == ExportInv => ExportWhole
<1> SUFFICES ASSUME ExportInv, exporter.pc = "done" PROVE ExportWhole
  BY DEF ExportWhole
<1>1. /\ exporter.todo = {} /\ exporter.count \in Nat
      /\ exporter.count + Cardinality(exporter.todo) = Cardinality(DOMAIN db)
      /\ \A a \in DOMAIN db : a \in DOMAIN disk /\ disk[a] = serialize(db[a])
  BY DEF ExportInv, ExporterOK, Whole
<1>2. exporter.count = Cardinality(DOMAIN db)
  BY <1>1, FS_EmptySet
<1>3. DOMAIN disk = DOMAIN db
  BY <1>1 DEF ExportInv, FilesOK
<1>4. \A a \in DOMAIN db : db[a] \in Bundles /\ content_address(db[a]) = a
  BY DEF ExportInv, StoreOK
<1> QED
  BY <1>1, <1>2, <1>3, <1>4 DEF ExportWhole

\* This needs nothing of the wire format.
THEOREM ExportsAlwaysWhole == Spec => []ExportWhole
  BY FinishedIsWhole, ExportInvariance, PTL

\* If the wire format reads back each bundle of the store, every finished export
\* can be read back (content_store.rs:74-88).
THEOREM ExportsAlwaysReadBack ==
    ASSUME ReadsBack, SizeAnnounced PROVE Spec => []ExportsReadBack
<1>1. ExportWhole => ExportsReadBack
  <2> SUFFICES ASSUME ExportWhole, exporter.pc = "done" PROVE ExportsReadBack
    BY DEF ExportsReadBack
  <2>1. ASSUME NEW a \in DOMAIN db
        PROVE  LET read == deserialize(disk[a])
               IN  /\ read.ok /\ read.val = db[a]
                   /\ content_address(read.val) = a
                   /\ serialize(read.val) = disk[a]
                   /\ compressed_size(db[a]) = Len(disk[a])
    <3>1. db[a] \in Bundles /\ content_address(db[a]) = a /\ disk[a] = serialize(db[a])
      BY <2>1 DEF ExportWhole
    <3>2. deserialize(disk[a]).ok /\ deserialize(disk[a]).val = db[a]
      BY <3>1 DEF ReadsBack
    <3>3. compressed_size(db[a]) = Len(disk[a])
      BY <3>1 DEF SizeAnnounced
    <3> QED
      BY <3>1, <3>2, <3>3
  <2> QED
    BY <2>1 DEF ExportsReadBack, ExportWhole
<1> QED
  BY <1>1, ExportsAlwaysWhole, PTL

\* And the exit code of a check of it says whether every stored bundle has two
\* valid signature families (bin/verify.rs:171-231).
THEOREM VerdictCorrect == ASSUME ReadsBack PROVE Spec => []DirectoryVerdict
<1>1. ExportInv => DirectoryVerdict
  <2> SUFFICES ASSUME ExportInv, verifier.exit # "none", verifier.undisturbed = "yes"
               PROVE  verifier.exit = "0" <=> \A a \in DOMAIN db : two_of_three(verify(db[a]))
    BY DEF DirectoryVerdict
  <2>1. ASSUME NEW a \in DOMAIN db PROVE FoundValid(a) <=> two_of_three(verify(db[a]))
    <3>1. PICK b : b = db[a]
      OBVIOUS
    <3>2. PICK parsed : parsed = deserialize(serialize(b))
      OBVIOUS
    <3>3. parsed.ok /\ parsed.val = b
      BY <2>1, <3>1, <3>2 DEF ReadsBack, ExportInv, StoreOK
    <3>4. FoundValid(a) <=> b.magic = CAB_MAGIC /\ TwoOfThree(ValidFamilies(b))
      BY <3>1, <3>2, <3>3, ValidIsTwoOfThree DEF FoundValid
    <3>5. CASE b.magic # CAB_MAGIC
      <4>1. verify(b).families = {}
        BY <3>5 DEF verify
      <4>2. ~two_of_three(verify(b))
        BY <4>1, NoneIsNotTwo DEF two_of_three
      <4> QED
        BY <3>1, <3>4, <3>5, <4>2
    <3>6. CASE b.magic = CAB_MAGIC
      <4>1. verify(b).families = ValidFamilies(b)
        BY <3>6 DEF verify
      <4> QED
        BY <3>1, <3>4, <3>6, <4>1 DEF two_of_three
    <3> QED
      BY <3>5, <3>6
  <2>2. verifier.exit = "0" <=> \A a \in DOMAIN db : FoundValid(a)
    BY DEF ExportInv, CheckOK
  <2> QED
    BY <2>1, <2>2
<1> QED
  BY <1>1, ExportInvariance, PTL

\* A bundle has the fields of the struct.
LEMMA BundleParts == \A b \in Bundles : DOMAIN b = Parts
<1>1. Parts = {"magic", "version", "primitive", "content_hash", "computation_type", "timestamp_ns",
               "signer_keys", "signatures", "metadata", "on_chain_anchor", "completeness",
               "computation_fingerprint", "signer_identity"}
  <2>1. DOMAIN CacheeArchiveBundle = 1..13
    BY DEF CacheeArchiveBundle
  <2>2. \A i \in 1..13 : i \in {1, 2, 3, 4, 5, 6, 7, 8, 9, 10, 11, 12, 13}
    OBVIOUS
  <2> QED
    BY <2>1, <2>2 DEF Parts, CacheeArchiveBundle, Field
<1>2. \A s \in Slots, k \in KeySets : DOMAIN slot_to_bundle(s, k) = Parts
  BY <1>1 DEF slot_to_bundle
<1> QED
  BY <1>2, ExportAssumption DEF Bundles

\* Its signer identity is one of them.
LEMMA IdentityIsPart == "signer_identity" \in Parts
<1>1. 13 \in DOMAIN CacheeArchiveBundle /\ CacheeArchiveBundle[13].name = "signer_identity"
  BY DEF CacheeArchiveBundle, Field
<1> QED
  BY <1>1 DEF Parts

\* Two bundles that differ in the signer identity alone have the same signatures,
\* defects and fingerprint, so that no boundary tells them apart.
LEMMA IdentityNotJudged ==
    ASSUME NEW r, NEW b,
           \A p \in Parts \ {"signer_identity"} : r[p] = b[p]
    PROVE  \A t \in TrustBoundary :
              accept_remote_bundle(r, t, Issuers) => accept_remote_bundle(b, t, Issuers)
<1>1. /\ r.magic = b.magic /\ r.version = b.version /\ r.primitive = b.primitive
      /\ r.content_hash = b.content_hash /\ r.timestamp_ns = b.timestamp_ns
      /\ r.signer_keys = b.signer_keys /\ r.signatures = b.signatures
      /\ r.computation_fingerprint = b.computation_fingerprint
  <2>1. {"magic", "version", "primitive", "content_hash", "timestamp_ns", "signer_keys",
         "signatures", "computation_fingerprint"} \subseteq Parts \ {"signer_identity"}
    <3>1. DOMAIN CacheeArchiveBundle = 1..13
      BY DEF CacheeArchiveBundle
    <3> QED
      BY <3>1 DEF Parts, CacheeArchiveBundle, Field
  <2> QED
    BY <2>1
<1>2. ValidFamilies(r) = ValidFamilies(b)
  BY <1>1 DEF ValidFamilies
<1>3. Defects(r) = Defects(b)
  BY <1>1, <1>2 DEF Defects
<1>4. has_valid_fingerprint(r) <=> has_valid_fingerprint(b)
  BY <1>1 DEF has_valid_fingerprint
<1>5. is_valid(verify(r)) <=> is_valid(verify(b))
  <2>1. Verdict(r) \in {"Valid", "ValidWithWarnings"} <=> Verdict(b) \in {"Valid", "ValidWithWarnings"}
    BY <1>3 DEF Verdict
  <2> QED
    BY <1>1, <2>1 DEF is_valid, verify
<1>6. verify(r).families = verify(b).families
  BY <1>1, <1>2 DEF verify
<1>7. two_of_three(verify(r)) <=> two_of_three(verify(b))
  BY <1>6 DEF two_of_three
<1> QED
  BY <1>1, <1>4, <1>5, <1>7 DEF accept_remote_bundle

\* A bundle without a signer identity is never valid without a warning.
LEMMA NoIdentityWarns ==
    ASSUME NEW r, r.signer_identity.key_id = ZeroHash PROVE verify(r).verdict # "Valid"
<1>1. "missing signer identity" \in Warnings(r)
  BY DEF Warnings, SignerIdentityPresent
<1>2. Verdict(r) # "Valid"
  BY <1>1 DEF Verdict
<1> QED
  BY <1>2 DEF verify

\* If the wire format reads a bundle back, and one with bytes missing as the same
\* without its identity, a file that an export was stopped over never passes for
\* more than its bundle is, at any boundary, however often the export was stopped
\* before (archive.rs:766-777).
THEOREM CutsNeverClean ==
    ASSUME ReadsBack, CutReadsAnonymous PROVE Spec => []CutNeverClean
<1>1. ExportInv => CutNeverClean
  <2> SUFFICES ASSUME ExportInv, NEW a \in DOMAIN disk, deserialize(disk[a]).ok
               PROVE  LET read == deserialize(disk[a])
                          cut  == disk[a] # serialize(db[a])
                      IN  /\ read.val = IF cut THEN Anonymous(db[a]) ELSE db[a]
                          /\ cut => verify(read.val).verdict # "Valid"
                          /\ \A t \in TrustBoundary :
                                accept_remote_bundle(read.val, t, Issuers)
                                    => accept_remote_bundle(db[a], t, Issuers)
    BY DEF CutNeverClean
  <2>1. PICK b, s, t : b = db[a] /\ s = disk[a] /\ t = serialize(db[a])
    OBVIOUS
  <2>2. b \in Bundles /\ Beginning(s, t)
    BY <2>1 DEF ExportInv, StoreOK, FilesOK
  <2>3. t \in Seq(0..(Radix - 1)) /\ t = serialize(b)
    BY <2>1, <2>2, ExportAssumption
  <2>4. Len(s) \in 0..Len(t) /\ Len(t) \in Nat /\ s = SubSeq(t, 1, Len(s))
    BY <2>2, <2>3, BeginningIsPrefix
  <2>5. PICK r : r = deserialize(s).val
    OBVIOUS
  <2>6. CASE s = t
    <3>1. r = b
      BY <2>1, <2>2, <2>3, <2>5, <2>6 DEF ReadsBack
    <3> QED
      BY <2>1, <2>5, <2>6, <3>1
  <2>7. CASE s # t
    <3>1. Len(s) # Len(t)
      BY <2>3, <2>4, <2>7, SubSeqFull
    <3>2. PICK n : n = Len(s)
      OBVIOUS
    <3>3. n \in 0..(Len(serialize(b)) - 1) /\ SubSeq(serialize(b), 1, n) = s
      BY <2>3, <2>4, <3>1, <3>2
    <3>4. r = Anonymous(b)
      BY <2>1, <2>2, <2>5, <3>3 DEF CutReadsAnonymous
    <3>5. DOMAIN b = Parts /\ "signer_identity" \in Parts
      BY <2>2, BundleParts, IdentityIsPart
    <3>6. /\ \A p \in Parts \ {"signer_identity"} : r[p] = b[p]
          /\ r.signer_identity = DefaultIdentity
      BY <3>4, <3>5 DEF Anonymous
    <3>7. verify(r).verdict # "Valid"
      BY <3>6, NoIdentityWarns, ExportAssumption
    <3>8. \A x \in TrustBoundary : accept_remote_bundle(r, x, Issuers) => accept_remote_bundle(b, x, Issuers)
      BY <3>6, IdentityNotJudged
    <3> QED
      BY <2>1, <2>5, <2>7, <3>4, <3>7, <3>8
  <2> QED
    BY <2>6, <2>7
<1> QED
  BY <1>1, ExportInvariance, PTL
=============================================================================
