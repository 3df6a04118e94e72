------------------------- MODULE BundleVerification -------------------------
(***************************************************************************)
(* What a bundle is found to be: verify (archive.rs) over the signature    *)
(* checks of crypto.rs, the verdict of cachee-verify (bin/verify.rs), the  *)
(* acceptance of a remote bundle (federation.rs), and the policy for       *)
(* changes of a node's verification mode (trust.rs).                       *)
(*                                                                         *)
(* The signature algorithms are an external library: Signed is the set of  *)
(* the <<family, key, message, signature>> it verifies.                    *)
(***************************************************************************)
EXTENDS Naturals, FiniteSets

CONSTANTS
    CAB_MAGIC, CAB_VERSION,
    ZeroHash,        \* [0u8; 32]
    KeyForms,        \* [Families -> the byte strings from_bytes takes for a public key]
    SignatureForms,  \* [Families -> the byte strings it takes for a signature]
    Signed

Families == {"mldsa65", "falcon512", "slhdsa128f"}

-----------------------------------------------------------------------------
(* crypto.rs: one operator for the three functions of the same shape.      *)

\* A key or a signature of the wrong length is an error, not a refusal.
verify_family(f, public_key, message, signature) ==
    CASE public_key \notin KeyForms[f] \/ signature \notin SignatureForms[f] -> "Err"
      [] OTHER -> IF <<f, public_key, message, signature>> \in Signed THEN "Ok(true)" ELSE "Ok(false)"

ValidFamilies(b) ==
    {f \in Families :
        verify_family(f, b.signer_keys[f], b.content_hash, b.signatures[f]) = "Ok(true)"}
TwoOfThree(families) == Cardinality(families) >= 2

-----------------------------------------------------------------------------
(* archive.rs.                                                             *)

has_valid_fingerprint(b) ==
    /\ b.computation_fingerprint.input_hash # ZeroHash
    /\ b.computation_fingerprint.computation_hash # ZeroHash

SignerIdentityPresent(b) == b.signer_identity.key_id # ZeroHash

\* Seeded fault: a bundle without a signer identity is not worth a warning.
WarningsButIdentity(b) ==
    {w \in {"development posture"} : b.signer_identity.posture \in {"development", "Development"}}
    \cup {w \in {"fingerprint not present"} : ~has_valid_fingerprint(b)}
Warnings(b) ==
    {w \in {"development posture"} : b.signer_identity.posture \in {"development", "Development"}}
    \cup {w \in {"missing signer identity"} : ~SignerIdentityPresent(b)}
    \cup {w \in {"fingerprint not present"} : ~has_valid_fingerprint(b)}

Defects(b) ==
    {d \in {"content hash mismatch"} : b.primitive.value_hash # b.content_hash}
    \cup {d \in {"fewer than 2-of-3 signatures valid"} : ~TwoOfThree(ValidFamilies(b))}
    \cup {d \in {"invalid timestamp"} : ~(b.timestamp_ns > 0)}

Verdict(b) ==
    CASE Defects(b) # {} -> "Invalid"
      [] Defects(b) = {} /\ Warnings(b) # {} -> "ValidWithWarnings"
      [] OTHER -> "Valid"

verify(b) ==
    IF b.magic # CAB_MAGIC
    THEN [verdict |-> "Invalid", families |-> {}, version_supported |-> FALSE,
          fingerprint_present |-> FALSE, signer_identity_present |-> FALSE]
    ELSE [verdict |-> Verdict(b), families |-> ValidFamilies(b),
          version_supported |-> b.version = CAB_VERSION,
          fingerprint_present |-> has_valid_fingerprint(b),
          signer_identity_present |-> SignerIdentityPresent(b)]

is_valid(result) == result.verdict \in {"Valid", "ValidWithWarnings"}
two_of_three(result) == TwoOfThree(result.families)

-----------------------------------------------------------------------------
(* bin/verify.rs.  parsed is what deserialize made of the file.            *)

Unreadable(error) == [valid |-> FALSE, error |-> error, posture |-> "", fingerprint_present |-> FALSE]

\* Seeded fault: one signature is enough.
VerifyParsedOne(parsed) ==
    IF ~parsed.ok THEN Unreadable("Deserialization failed")
    ELSE [valid |-> is_valid(verify(parsed.val)) \/ verify(parsed.val).families # {}, error |-> "",
          posture |-> parsed.val.signer_identity.posture,
          fingerprint_present |-> has_valid_fingerprint(parsed.val)]
verify_file(parsed) ==
    IF ~parsed.ok THEN Unreadable("Deserialization failed")
    ELSE [valid |-> is_valid(verify(parsed.val)) \/ two_of_three(verify(parsed.val)), error |-> "",
          posture |-> parsed.val.signer_identity.posture,
          fingerprint_present |-> has_valid_fingerprint(parsed.val)]

\* What the report says of the posture; other spellings get no line at all.
PostureLine(r) ==
    CASE r.posture = "development" -> "WARNING: Development keys"
      [] r.posture = "testing" -> "WARNING: Testing keys"
      [] r.posture = "production" -> "Production"
      [] r.posture \in {"", "unknown"} -> "Unknown"
      [] OTHER -> "no line"

\* The text report slices the content hash to 16 digits before it prints a
\* result: it panics when there is none, so that a file that cannot be read or
\* parsed is answered in JSON only.
print_result(r, json_mode) ==
    CASE ~json_mode /\ r.error # "" -> "panic"
      [] OTHER -> IF r.valid THEN "VALID" ELSE "INVALID"

-----------------------------------------------------------------------------
(* federation.rs.  trust is a TrustBoundary's name, trusted_issuers the    *)
(* ML-DSA keys whose hashes are listed.                                    *)

TrustBoundary == {"SelfOnly", "TrustedPeers", "AnyVerifiable", "TrustedIssuers"}

accept_remote_bundle(b, trust, trusted_issuers) ==
    /\ is_valid(verify(b)) \/ two_of_three(verify(b))
    /\ has_valid_fingerprint(b)
    /\ trust # "SelfOnly"
    /\ trust \in {"TrustedPeers", "TrustedIssuers"} => b.signer_keys["mldsa65"] \in trusted_issuers

-----------------------------------------------------------------------------
(* trust.rs: a policy no caller applies yet.                               *)

mode_strictness(mode) ==
    CASE mode = "trust_cached" -> 1
      [] mode = "probabilistic" -> 2
      [] mode = "age_weighted" -> 3
      [] mode = "always_verify" -> 4
      [] OTHER -> 0

\* minimum is << >> or << mode >>.
is_mode_change_allowed(current, proposed, locked, minimum) ==
    /\ locked => mode_strictness(proposed) >= mode_strictness(current)
    /\ minimum # << >> => mode_strictness(proposed) >= mode_strictness(minimum[1])

=============================================================================
