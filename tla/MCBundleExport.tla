--------------------------- MODULE MCBundleExport ---------------------------
(* Bytes are 0..3; signatures, keys and hashes are one or two bytes long.  *)
EXTENDS BundleExport

MCWidth == [u8 |-> 1, u16 |-> 1, u32 |-> 2, u64 |-> 1, hash |-> 1, prefix |-> 1, flags |-> 1, pointer |-> 1]
MCMagic == <<3, 1>>
MCTypeCode == [DocumentAttest |-> 2, PostQuantumMigration |-> 3]

Unknown == [key_id |-> <<0>>, posture |-> "unknown"]
Dev == [key_id |-> <<1>>, posture |-> "Development"]
Prod == [key_id |-> <<2>>, posture |-> "Production"]
MCIdentities == {Unknown, Dev, Prod}
MCToJson == (Unknown :> <<2, 0>>) @@ (Dev :> <<2, 1, 1>>) @@ (Prod :> <<2, 3>>)

h1 == <<1>>
h2 == <<2>>
Empty == [input_hash |-> <<0>>, computation_hash |-> <<0>>, parameter_hash |-> <<0>>, engine |-> << >>,
          version |-> << >>, circuit_id |-> << >>, hardware_class |-> [class |-> "None", id |-> << >>]]
Given == [Empty EXCEPT !.input_hash = h1, !.computation_hash = h2, !.engine = <<1>>, !.version = <<2>>]
Circuit == [Given EXCEPT !.circuit_id = << <<3>> >>, !.hardware_class.class = "Deterministic"]
Gpu == [Given EXCEPT !.hardware_class = [class |-> "NonDeterministic", id |-> <<1>>]]

MCSlots == {[hash |-> h1, created_at |-> 1, fingerprint |-> Empty],
            [hash |-> h2, created_at |-> 1, fingerprint |-> Given]}

\* Keys of one byte, signatures of two: the message and the key.
KeysOf(k) == [f \in Families |-> <<k>>]
SignWith(k) == [h \in {h1, h2} |-> [f \in Families |-> h \o <<k>>]]
MCKeySets == {<< >>,
              << [identity |-> Dev, keys |-> KeysOf(1), sign |-> SignWith(1)] >>,
              << [identity |-> Prod, keys |-> KeysOf(2), sign |-> SignWith(2)] >>}
MCKeyForms == [f \in Families |-> {<<1>>, <<2>>}]
MCSignatureForms == [f \in Families |-> {<<i, j>> : i, j \in 0..3}]
MCSigned == {<<f, <<k>>, h, h \o <<k>> >> : f \in Families, k \in {1, 2}, h \in {h1, h2}}

\* gen_test_bundle.rs, and bundles of programs that use the library.
TestBundle ==
    [slot_to_bundle([hash |-> h1, created_at |-> 2, fingerprint |-> Circuit],
                    << [identity |-> Unknown, keys |-> KeysOf(1), sign |-> SignWith(1)] >>)
     EXCEPT !.computation_type = [name |-> "PostQuantumMigration", code |-> 3]]
Anchored ==
    [slot_to_bundle([hash |-> h2, created_at |-> 2, fingerprint |-> Gpu],
                    << [identity |-> Prod, keys |-> KeysOf(2), sign |-> SignWith(2)] >>)
     EXCEPT !.metadata = <<1, 2>>, !.completeness = "MinimalViable", !.signatures["falcon512"] = << >>,
            !.on_chain_anchor = << [hash |-> h1, retrieval_pointer |-> h2] >>]
OneSigned == [Anchored EXCEPT !.completeness = "Partial", !.signatures["mldsa65"] = << >>]
MCOtherBundles == {TestBundle, Anchored, OneSigned}

MCZeroHash == <<0>>
MCIssuers == { <<1>> }

\* Every bundle alone, and two together: one that is signed, one that is not.
MCContents(S) ==
    {{b} : b \in S} \cup {{}, {OneSigned, slot_to_bundle(CHOOSE s \in MCSlots : s.hash = h1, << >>)}}
=============================================================================
