---------------------------- MODULE BundleFormat ----------------------------
(***************************************************************************)
(* The wire format of a Cachee Archive Bundle (archive.rs): serialize and  *)
(* deserialize, the content address, and the announced size.               *)
(*                                                                         *)
(* A byte is a number below Radix, a byte string a sequence of them.  The  *)
(* code has Radix 256 and the widths named next to the constants; TLC      *)
(* takes smaller ones.  Serializer and parser follow one layout: a         *)
(* sequence of fields, each with the kind that says how it is written and  *)
(* how it is read.  Strings are ASCII, so that from_utf8 never fails.      *)
(***************************************************************************)
EXTENDS Integers, Sequences, SequencesExt, TLC

CONSTANTS
    Radix,          \* values of a byte (256)
    Width,          \* bytes of "u8", "u16", "u32", "u64" (1, 2, 4, 8), of a
                    \* "hash" (32), "prefix" (2), "flags" (11), "pointer" (42)
    CabMagic,       \* CAB_MAGIC, the bytes "CAB1"
    TypeCode,       \* [named computation type -> its u16 discriminant]
    Identities,     \* the signer identities in use
    ToJson,         \* [Identities -> byte string]: serde_json::to_vec
    DefaultIdentity \* SignerIdentity::default()

\* serde_json parses what it wrote, and no proper prefix of it.
ASSUME FormatAssumption ==
    /\ Radix \in Nat /\ Radix > 3
    /\ DefaultIdentity \in Identities
    /\ \A i, j \in Identities :
          /\ ToJson[i] # << >>
          /\ IsPrefix(ToJson[i], ToJson[j]) => i = j

-----------------------------------------------------------------------------
(* Bytes and cursors.  A reader returns [ok, pos, val]; None is << >> and  *)
(* Some(x) is << x >>.                                                     *)

\* n as w bytes, most significant first; what does not fit is cut off, as by
\* the code's `as u16` and `as u32`.
to_be_bytes(n, w) == [i \in 1..w |-> (n \div Radix^(w - i)) % Radix]
from_be_bytes(s) == FoldLeft(LAMBDA n, d : n * Radix + d, 0, s)

Fail == [ok |-> FALSE, pos |-> 0, val |-> << >>]
Take(bytes, pos, n) ==
    IF pos + n > Len(bytes) THEN Fail
    ELSE [ok |-> TRUE, pos |-> pos + n, val |-> SubSeq(bytes, pos + 1, pos + n)]

ReadInt(bytes, pos, w) ==
    LET t == Take(bytes, pos, w) IN [t EXCEPT !.val = from_be_bytes(@)]
\* Seeded fault: the cursor is left behind the length, not behind the data.
ReadPrefixedStuck(bytes, pos, w) ==
    LET n == ReadInt(bytes, pos, w)
        t == IF n.ok THEN Take(bytes, n.pos, n.val) ELSE Fail
    IN  [t EXCEPT !.pos = n.pos]
ReadPrefixed(bytes, pos, w) ==
    LET n == ReadInt(bytes, pos, w)
    IN  IF n.ok THEN Take(bytes, n.pos, n.val) ELSE Fail
WritePrefixed(s, w) == to_be_bytes(Len(s), w) \o s

read_length_prefixed_u16(bytes, pos) == ReadPrefixed(bytes, pos, Width["u16"])
read_length_prefixed_u32(bytes, pos) == ReadPrefixed(bytes, pos, Width["u32"])
write_length_prefixed_u16(s) == WritePrefixed(s, Width["u16"])

-----------------------------------------------------------------------------
(* Fields.                                                                 *)

Field(n, k) == [name |-> n, kind |-> k]

\* Concatenation of the fields of r, and the reader that undoes it.
WriteFields(layout, Write(_, _), r) ==
    FlattenSeq([i \in DOMAIN layout |-> Write(layout[i].kind, r[layout[i].name])])
ReadFields(layout, Read(_, _, _), bytes, start) ==
    FoldLeft(LAMBDA r, f :
                IF ~r.ok THEN r
                ELSE LET x == Read(f.kind, bytes, r.pos)
                     IN  [ok |-> x.ok, pos |-> x.pos, val |-> (f.name :> x.val) @@ r.val],
             [ok |-> TRUE, pos |-> start, val |-> << >>], layout)

\* ComputationType is a name with its code: one of TypeCode's, or "Custom".
to_u16(t) == IF t.name # "Custom" THEN TypeCode[t.name] ELSE t.code
from_u16(v) ==
    IF \E n \in DOMAIN TypeCode : TypeCode[n] = v
    THEN [name |-> CHOOSE n \in DOMAIN TypeCode : TypeCode[n] = v, code |-> v]
    ELSE [name |-> "Custom", code |-> v]

Levels == <<"Complete", "Partial", "MinimalViable">>
HardwareTags == <<"None", "Deterministic", "NearDeterministic", "NonDeterministic">>
TagOf(tags, x) == << (CHOOSE i \in DOMAIN tags : tags[i] = x) - 1 >>

WriteScalar(kind, v) ==
    CASE kind \in {"u8", "u16", "u64"} -> to_be_bytes(v, Width[kind])
      [] kind = "string" -> write_length_prefixed_u16(v)
      [] kind = "blob" -> WritePrefixed(v, Width["u32"])
      [] kind = "type" -> to_be_bytes(to_u16(v), Width["u16"])
      [] kind = "level" -> TagOf(Levels, v)
      [] kind = "circuit" -> IF v = << >> THEN <<0>> ELSE <<1>> \o write_length_prefixed_u16(v[1])
      [] kind = "hardware" ->
            TagOf(HardwareTags, v.class)
              \o (IF v.class = "NonDeterministic" THEN write_length_prefixed_u16(v.id) ELSE << >>)
      [] OTHER -> v   \* fixed-size arrays

\* The circuit flag is true at 1 and false at every other value.
ReadCircuit(bytes, pos) ==
    LET flag == Take(bytes, pos, 1)
        id   == read_length_prefixed_u16(bytes, flag.pos)
    IN  CASE ~flag.ok -> Fail
          [] flag.ok /\ flag.val = <<1>> -> [id EXCEPT !.val = << @ >>]
          [] OTHER -> [flag EXCEPT !.val = << >>]

ReadHardware(bytes, pos) ==
    LET tag == Take(bytes, pos, 1)
        id  == read_length_prefixed_u16(bytes, tag.pos)
    IN  CASE ~tag.ok \/ tag.val[1] + 1 \notin DOMAIN HardwareTags -> Fail
          [] tag.ok /\ tag.val = <<3>> -> [id EXCEPT !.val = [class |-> "NonDeterministic", id |-> @]]
          [] OTHER -> [tag EXCEPT !.val = [class |-> HardwareTags[@[1] + 1], id |-> << >>]]

ReadScalar(kind, bytes, pos) ==
    CASE kind \in {"u8", "u16", "u64"} -> ReadInt(bytes, pos, Width[kind])
      [] kind = "magic" -> LET t == Take(bytes, pos, Len(CabMagic)) IN IF t.val = CabMagic THEN t ELSE Fail
      [] kind = "string" -> read_length_prefixed_u16(bytes, pos)
      [] kind = "blob" -> read_length_prefixed_u32(bytes, pos)
      [] kind = "type" -> LET n == ReadInt(bytes, pos, Width["u16"]) IN [n EXCEPT !.val = from_u16(@)]
      [] kind = "level" ->
            LET t == Take(bytes, pos, 1)
            IN  IF t.ok /\ t.val[1] + 1 \in DOMAIN Levels THEN [t EXCEPT !.val = Levels[@[1] + 1]] ELSE Fail
      [] kind = "circuit" -> ReadCircuit(bytes, pos)
      [] kind = "hardware" -> ReadHardware(bytes, pos)
      [] OTHER -> Take(bytes, pos, Width[kind])

-----------------------------------------------------------------------------
(* The parts of a bundle.                                                  *)

H33Primitive ==
    << Field("version", "u8"), Field("timestamp", "u64"), Field("value_hash", "hash"),
       Field("mldsa_prefix", "prefix"), Field("falcon_prefix", "prefix"),
       Field("slhdsa_prefix", "prefix"), Field("flags", "flags") >>

OnChainAnchor == << Field("hash", "hash"), Field("retrieval_pointer", "pointer") >>

ComputationFingerprint ==
    << Field("input_hash", "hash"), Field("computation_hash", "hash"), Field("parameter_hash", "hash"),
       Field("engine", "string"), Field("version", "string"), Field("circuit_id", "circuit"),
       Field("hardware_class", "hardware") >>

ByFamily == << Field("mldsa65", "string"), Field("falcon512", "string"), Field("slhdsa128f", "string") >>

\* The bytes a fingerprint is hashed to: strings without their lengths.  SHA3-256
\* is free of collisions here: a digest is what was hashed.
digest(fp) ==
    FlattenSeq(<< fp.input_hash, fp.computation_hash, fp.parameter_hash, fp.engine, fp.version,
                  FlattenSeq(fp.circuit_id), TagOf(HardwareTags, fp.hardware_class.class),
                  fp.hardware_class.id >>)

ComputationFingerprint_to_bytes(fp) == WriteFields(ComputationFingerprint, WriteScalar, fp)
\* Bytes behind the hardware class are ignored.
ComputationFingerprint_from_bytes(bytes) == ReadFields(ComputationFingerprint, ReadScalar, bytes, 0)

H33Primitive_to_bytes(p) == WriteFields(H33Primitive, WriteScalar, p)
H33Primitive_from_bytes(bytes, pos) == ReadFields(H33Primitive, ReadScalar, bytes, pos)

ReadAnchor(bytes, pos) ==
    LET flag   == Take(bytes, pos, 1)
        anchor == ReadFields(OnChainAnchor, ReadScalar, bytes, flag.pos)
    IN  CASE ~flag.ok -> Fail
          [] flag.ok /\ flag.val = <<1>> -> [anchor EXCEPT !.val = << @ >>]
          [] OTHER -> [flag EXCEPT !.val = << >>]

ReadFingerprint(bytes, pos) ==
    LET data == read_length_prefixed_u32(bytes, pos)
        fp   == ComputationFingerprint_from_bytes(data.val)
    IN  IF data.ok /\ fp.ok THEN [fp EXCEPT !.pos = data.pos] ELSE Fail

\* Identities are optional: one that is missing, cut or not parsable is the default.
from_json(data) ==
    IF \E id \in Identities : ToJson[id] = data
    THEN CHOOSE id \in Identities : ToJson[id] = data
    ELSE DefaultIdentity
ReadIdentity(bytes, pos) ==
    LET data == read_length_prefixed_u32(bytes, pos)
    IN  [ok |-> TRUE, pos |-> data.pos, val |-> IF data.ok THEN from_json(data.val) ELSE DefaultIdentity]

-----------------------------------------------------------------------------
(* The bundle.                                                             *)

CacheeArchiveBundle ==
    << Field("magic", "magic"), Field("version", "u16"), Field("primitive", "primitive"),
       Field("content_hash", "hash"), Field("computation_type", "type"), Field("timestamp_ns", "u64"),
       Field("signer_keys", "families"), Field("signatures", "families"), Field("metadata", "blob"),
       Field("on_chain_anchor", "anchor"), Field("completeness", "level"),
       Field("computation_fingerprint", "fingerprint"), Field("signer_identity", "identity") >>

WritePart(kind, v) ==
    CASE kind = "primitive" -> H33Primitive_to_bytes(v)
      [] kind = "families" -> WriteFields(ByFamily, WriteScalar, v)
      [] kind = "anchor" -> IF v = << >> THEN <<0>> ELSE <<1>> \o WriteFields(OnChainAnchor, WriteScalar, v[1])
      [] kind = "fingerprint" -> WritePrefixed(ComputationFingerprint_to_bytes(v), Width["u32"])
      [] kind = "identity" -> WritePrefixed(ToJson[v], Width["u32"])
      [] OTHER -> WriteScalar(kind, v)

ReadPart(kind, bytes, pos) ==
    CASE kind = "primitive" -> H33Primitive_from_bytes(bytes, pos)
      [] kind = "families" -> ReadFields(ByFamily, ReadScalar, bytes, pos)
      [] kind = "anchor" -> ReadAnchor(bytes, pos)
      [] kind = "fingerprint" -> ReadFingerprint(bytes, pos)
      [] kind = "identity" -> ReadIdentity(bytes, pos)
      [] OTHER -> ReadScalar(kind, bytes, pos)

serialize(b) == WriteFields(CacheeArchiveBundle, WritePart, b)
deserialize(bytes) == ReadFields(CacheeArchiveBundle, ReadPart, bytes, 0)

content_address(b) ==
    << H33Primitive_to_bytes(b.primitive), b.content_hash, digest(b.computation_fingerprint) >>

SIZE(layout) == FoldLeft(LAMBDA n, f : n + Width[f.kind], 0, layout)
compressed_size(b) ==
    Len(CabMagic) + Width["u16"] + SIZE(H33Primitive) + Width["hash"] + Width["u16"] + Width["u64"]
      + FoldLeft(LAMBDA n, f : n + 2 * Width["u16"] + Len(b.signer_keys[f.name]) + Len(b.signatures[f.name]),
                 0, ByFamily)
      + Width["u32"] + Len(b.metadata)
      + 1 + (IF b.on_chain_anchor = << >> THEN 0 ELSE SIZE(OnChainAnchor))
      + 1
      + Width["u32"] + Len(ComputationFingerprint_to_bytes(b.computation_fingerprint))
      + Width["u32"] + Len(ToJson[b.signer_identity])

=============================================================================
