CONSTANTS
    Radix = 4
    Width <- MCWidth
    CabMagic <- MCMagic
    CAB_MAGIC <- MCMagic
    CAB_VERSION = 1
    TypeCode <- MCTypeCode
    Identities <- MCIdentities
    ToJson <- MCToJson
    DefaultIdentity <- Unknown
    ZeroHash <- MCZeroHash
    KeyForms <- MCKeyForms
    SignatureForms <- MCSignatureForms
    Signed <- MCSigned
    Slots <- MCSlots
    KeySets <- MCKeySets
    OtherBundles <- MCOtherBundles
    Issuers <- MCIssuers
    Contents <- MCContents
    MaxRuns = 2
SPECIFICATION Spec
INVARIANTS TypeOK ExportsReadBack CutNeverClean DirectoryVerdict
CHECK_DEADLOCK FALSE
