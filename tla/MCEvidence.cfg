SPECIFICATION Spec
CONSTANTS
    MaxPackets = 3
    MaxEvents = 2
    MaxLines = 3
    ContextMod = 4
    MaxObs = 4
    ByteBits = 2
    MaxEntries = 3
    ManifestEntries <- MCManifestEntries
    StartupHint <- MCStartupHint
    NamedMessages <- MCNamedMessages
    MaxScanned = 2
    ScannedLines <- MCScannedLines
    OpenedFrames <- MCOpenedFrames
    BuiltRecords <- MCBuiltRecords
    MaxEdits = 2
    EditedIds <- MCEditedIds
    EntryRevisions <- MCEntryRevisions
INVARIANTS
    IntakeFaithful
    RegionsFaithful
    CodecFaithful
    MatrixClaims
PROPERTIES
    VerdictSound
CHECK_DEADLOCK FALSE
