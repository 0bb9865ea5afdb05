------------------------------ MODULE MCEvidence ------------------------------
(* What is read as evidence and made of it, beside the sessions: captured  *)
(* datagrams, dumps and records, payloads, manifests, messages through the *)
(* codec, and the matrix of what is claimed.  A behaviour has one subject; *)
(* the others rest.                                                        *)
EXTENDS Integers, Sequences, FiniteSets

CONSTANTS
    MaxPackets, MaxEvents,  \* packets and messages of capture A; B has one
    MaxLines,               \* lines of a dump; a file of records has one less
    ContextMod,             \* 2^32 in the code
    MaxObs, ByteBits,       \* payloads compared, and bits of their bytes
    MaxEntries,             \* entries of a manifest
    ManifestEntries,        \* what an entry can be
    StartupHint,            \* ids a session starts with
    NamedMessages,          \* ids that have a name
    MaxScanned,             \* messages scanned by the codec
    ScannedLines,           \* lines it scans ...
    OpenedFrames,           \* ... frames it is given ...
    BuiltRecords,           \* ... and records that are sent
    EditedIds,              \* entries of the matrix that are edited ...
    EntryRevisions,         \* ... and what an edit can set
    MaxEdits                \* edits of the matrix between two verifications
ASSUME EvidenceAssumption == ContextMod \in Nat \ {0} /\ ByteBits \in Nat \ {0}

VARIABLES
    subject,
    magic, packets, events, load_error,
    format, lines, records, input_error,
    observations,
    read, reports, manifest_error,
    tally, captures, result, countable, last,
    file, edits, verdict

udpVars == <<magic, packets, events, load_error>>
inputVars == <<format, lines, records, input_error>>
manifestVars == <<read, reports, manifest_error>>
codecVars == <<tally, captures, result, countable, last>>
matrixVars == <<file, edits, verdict>>
allVars == <<subject, udpVars, inputVars, observations, manifestVars, codecVars, matrixVars>>

None == -1
Bad == -2

-----------------------------------------------------------------------------

(* Datagrams of a game and of a name lookup, in and out of the order of    *)
(* their times; a later part of one, and one that the file cuts off.       *)
Packet(at, sport, dport, payload) ==
    [kind |-> "udp", at |-> at, sport |-> sport, dport |-> dport, payload |-> payload, whole |-> TRUE]
Game(at, payload) == Packet(at, 3074, 3074, payload)
OtherPacket == [Packet(50, 0, 0, <<>>) EXCEPT !.kind = "other"]

UdpPackets ==
    [A |-> {Game(6, <<0, 1>>), Game(3, <<0, 2>>), Game(200, <<0, 3, 0, 0>>),
            Packet(100, 5000, 53, <<7>>), Packet(130, 53, 5000, <<0, 3>>), OtherPacket,
            [Packet(7, 9, 3074, <<0, 4>>) EXCEPT !.kind = "fragment"],
            [Game(150, <<0, 1>>) EXCEPT !.whole = FALSE]},
     B |-> {Game(150, <<1>>)}]

DumpLine(id, at) == [kind |-> "bap_frame", id |-> id, at |-> at]

(* Messages, one with an id too large; a frame nobody could open, one      *)
(* without a time, and lines of other kinds.                               *)
UdpLines ==
    [A |-> {DumpLine(30, 5), DumpLine(65536 + 30, 110), DumpLine(302, 140), DumpLine(26, 4)}
           \cup {DumpLine(None, 7), DumpLine(30, None)}
           \cup {[DumpLine(None, None) EXCEPT !.kind = k] : k \in {"blank", "bap_connection", "broken"}},
     B |-> {DumpLine(30, 100), DumpLine(None, 100)}]

Udp == INSTANCE UdpEvidence
    WITH Packets <- UdpPackets, Lines <- UdpLines, Magics <- {"usec", "nsec"},
         MaxPackets <- [A |-> MaxPackets, B |-> 1], MaxEvents <- [A |-> MaxEvents, B |-> 1]

-----------------------------------------------------------------------------

(* Lines of a dump: frames with and without times, ids and bytes.          *)
DumpFrame(dir, ts, index) ==
    [kind |-> "bap_frame", direction |-> dir, id |-> 26, context |-> 1, hex |-> 2,
     ts |-> ts, index |-> index]

DumpLines ==
    {DumpFrame(d, t, i) : d \in {"C2S", "S2C"}, t \in {None, 3, 7, 12, 31}, i \in 0..2}
    \cup {[DumpFrame("C2S", 12, 1) EXCEPT !.id = x, !.context = c, !.hex = h] :
            x \in {None, 31, 65536 + 26}, c \in {None, 5}, h \in {None, 0, Bad}}
    \cup {[DumpFrame(d, Bad, 1) EXCEPT !.id = x] : d \in {"C2S", "bad"}, x \in {None, 26}}
    \cup {[DumpFrame("C2S", None, 0) EXCEPT !.kind = k, !.id = None] :
            k \in {"blank", "bap_connection", "other", "broken"}}

(* Records of the project, as bytes and as fields.                         *)
Wires ==
    {[header |-> h, magic |-> g, kind |-> k, body_len |-> l, present |-> p, id |-> 26, context |-> 0] :
        h \in BOOLEAN, g \in BOOLEAN, k \in {"clear", "encrypted", "other"}, l \in {0, 1, 3},
        p \in {Bad, 1, 3}}

Field == [kind |-> "clear", id |-> 31, context |-> None, payload |-> 2, tag |-> None,
          ciphertext |-> None]

Fields ==
    {[Field EXCEPT !.kind = k, !.id = x, !.context = c, !.payload = p] :
        k \in {"none", "clear", "other"}, x \in {None, 31}, c \in {None, 1}, p \in {None, Bad, 2}}
    \cup {[Field EXCEPT !.kind = "encrypted", !.id = x, !.tag = t, !.ciphertext = c] :
        x \in {None, 31}, t \in {None, Bad, 1, 2}, c \in {None, Bad, 1}}

RecordLines ==
    [direction : {"C2S"}, timestamp : {1}, form : {"hex"}, frame : Wires]
    \cup [direction : {"C2S", "S2C"}, timestamp : {0, 1}, form : {"fields"}, frame : Fields]
    \cup [direction : {"bad"}, timestamp : {1}, form : {"fields"}, frame : {Field}]

Input == INSTANCE EvidenceInput
    WITH ExternalLines <- DumpLines, ProjectLines <- RecordLines, error <- input_error,
         MaxLines <- [external |-> MaxLines, project |-> MaxLines - 1]

-----------------------------------------------------------------------------

(* Payloads of up to four bytes of few bits.                               *)
Payload == INSTANCE PayloadStructure
    WITH Payloads <- {<<>>, <<2, 3, 3>>, <<2, 2, 0>>, <<2, 3, 3, 1>>, <<0, 1, 3, 2>>},
         Printable <- {2, 3}, Widths <- {1, 2, 4}, ExportLimit <- 2

-----------------------------------------------------------------------------

(* Captures of a manifest: with the whole handshake, with a part of it,    *)
(* begun later, without ids, without encrypted frames, that do not open,   *)
(* with a frame of a kind that is not known.                               *)
WireFrame(kind, id) == [kind |-> kind, id |-> id, hint |-> "none", opens |-> TRUE]
Clear(id) == WireFrame("clear", id)
Encrypted(id) == WireFrame("encrypted", id)

Handshake == <<Clear("x1E"), Clear("x1F"), Encrypted("xFA")>>
Partial == <<Clear("x1E"), Encrypted("xFA")>>
MidSession == <<Encrypted("xFB"), Encrypted("x1E"), Encrypted("x99"), Encrypted("xFA")>>
Later == [MidSession EXCEPT ![1].id = "x99"]
Nameless == <<Encrypted("none")>>
Hinted == <<[Encrypted("none") EXCEPT !.hint = "x1E"], Clear("x1F")>>
ClearOnly == <<Clear("x1E"), Clear("x1F")>>
Broken == <<[Encrypted("x1E") EXCEPT !.opens = FALSE]>>
Unframed == <<Encrypted("x1E"), WireFrame("other", "none")>>

(* Only the record of capture c1 was ever checked.                         *)
Fixture(c, f) ==
    [capture |-> c, frames |-> f, record |-> IF c = "c1" THEN "valid" ELSE "unmeasured"]

Unusable(name) == [capture |-> name, frames |-> <<>>, record |-> "unmeasured"]

Ready(id, fixture, independent) ==
    [capture_id |-> id, status |-> "pipeline_ready", fixture |-> fixture,
     independent |-> independent]

MCManifestEntries ==
    {Ready(c, Fixture(c, f), TRUE) : c \in {"c1", "c2"},
        f \in {Handshake, Partial, MidSession, Later, Nameless, Hinted, ClearOnly}}
    \cup {Ready("c3", Fixture("c3", f), TRUE) : f \in {Handshake, Nameless, Broken, Unframed, <<>>}}
    \cup {Ready("c1", Fixture("unknown", Handshake), i) : i \in BOOLEAN}
    \cup {Ready("c2", Fixture("c2", MidSession), FALSE)}
    \cup {Ready("c3", Unusable(u), TRUE) : u \in {"none", "missing"}}
    \cup {[Ready("c3", Unusable("none"), TRUE) EXCEPT !.status = "awaiting_fixture"]}

Manifest == INSTANCE MultiCapture
    WITH Entries <- ManifestEntries, Hint <- StartupHint, error <- manifest_error,
         Known <- NamedMessages

MCStartupHint == <<"x1E", "x1F", "x19">>
MCNamedMessages == {"x1E", "x1F", "x19", "xFA", "xFB"}

ASSUME ManifestAssumption ==
    /\ StartupHint \in Seq(Manifest!Range(StartupHint))
    /\ \A e \in ManifestEntries : Len(e.fixture.frames) \in Nat

-----------------------------------------------------------------------------

SeqsUpTo(S, n) == UNION {[1..k -> S] : k \in 0..n}

(* Bodies of up to six bytes, records among them, and dumps of each kind.  *)
Bodies ==
    SeqsUpTo({2, 26}, 3)
    \cup {<<0, 2, 7, 7>>, <<26, 2, 7, 7>>, <<0, 3, 7, 7>>, <<0, 1, 7, 7>>}
    \cup {<<0, 3, 7, 7, 7>>, <<0, 3, 7, 8, 9, 1>>, <<0, 4, 7, 8, 9, 1>>}

(* A line has the bytes with id and context in front, or the body only.    *)
ScanLine(kind, id, hex, body) ==
    [kind |-> kind, id |-> id, dir |-> "S2C", hex |-> hex, body |-> body]

ScannedIds ==
    (10..13) \cup (16..19) \cup (21..26) \cup (30..33)
    \cup {42, 43, 121, 122, 123, 171, 250, 251, 301, 302, 303, 40000, 65536 + 30}

MCScannedLines ==
    UNION {{ScanLine("plaintext", id, <<id % 65536, 9>> \o b, b), ScanLine("plaintext", id, b, b),
            ScanLine("payload", id, b, b)} : id \in {26, 65536 + 30}, b \in Bodies}
    \cup UNION {{ScanLine("plaintext", id, <<id % 65536, 9>> \o b, b), ScanLine("payload", id, b, b)}
                : id \in ScannedIds, b \in {<<>>, <<7, 26, 7>>}}
    \cup {ScanLine(k, 30, <<>>, <<>>) : k \in {"blank", "other", "no_id", "no_hex", "bad_hex"}}

MCOpenedFrames ==
    [kind : {"clear", "decrypted"}, dir : {"C2S"},
     plaintext : {<<i, 1>> \o b : i \in {26, 31, 171}, b \in Bodies}]
    \cup [kind : {"decrypted"}, dir : {"S2C"}, plaintext : {<<>>, <<26>>}]
    \cup {[kind |-> "opaque", dir |-> "S2C", plaintext |-> <<26, 1, 2>>]}

MCBuiltRecords ==
    [prefix : {0, 5}, record_len : 0..4, iv : {7}, ciphertext : SeqsUpTo({2, 8}, 2), hmac : {1}]

Codec == INSTANCE MessageCodec
    WITH Lines <- ScannedLines, MaxLines <- MaxScanned, Frames <- OpenedFrames,
         Records <- BuiltRecords

ASSUME CodecAssumption ==
    /\ \A line \in ScannedLines : Codec!IsLine(line)
    /\ \A frame \in OpenedFrames : frame.plaintext \in Seq(Nat)
    /\ \A r \in BuiltRecords : Codec!IsRecord(r)

-----------------------------------------------------------------------------

(* Edits of five entries of the matrix, one of each sort.                  *)
MCEditedIds ==
    {<<"tcp_stream", 0>>, <<"udp_transport_layer", 0>>, <<"signon_real_provider", 0>>,
     <<"real_destiny_client", 0>>, <<"msg", 303>>}

MCEntryRevisions ==
    {[evidence |-> s] : s \in {"CONFIRMED", "HYPOTHESIS", "UNKNOWN", "BLOCKED", "STRUCTURAL"}}
    \cup {[implementation |-> s] : s \in {"PARTIAL", "BLOCKED"}}
    \cup {[verification |-> s] : s \in {"VERIFIED", "NOT_VERIFIED", "BLOCKED"}}
    \cup {[scopes |-> s] : s \in {{}, {"LOCAL_TCP"}, {"REAL_SERVER", "LOCAL_TCP"}}}
    \cup {[reason |-> b] : b \in BOOLEAN}
    \cup {[claim |-> TRUE], [evidence_refs |-> FALSE], [verification_refs |-> FALSE],
          [verification_refs |-> TRUE], [proven |-> {"REAL_SERVER"}]}

Negative ==
    [id |-> <<"negative", 0>>, area |-> "BAP_FRAMING", evidence |-> "CONFIRMED",
     implementation |-> "IMPLEMENTED", verification |-> "VERIFIED", scopes |-> {"SYNTHETIC_LOCAL"},
     evidence_refs |-> TRUE, verification_refs |-> TRUE, reason |-> FALSE, claim |-> FALSE,
     proven |-> {}]

NegativeEntries ==
    {[Negative EXCEPT !.verification_refs = FALSE], [Negative EXCEPT !.scopes = {"REAL_CLIENT"}],
     [Negative EXCEPT !.scopes = {"REAL_SERVER"}], [Negative EXCEPT !.evidence_refs = FALSE],
     [Negative EXCEPT !.scopes = {}], [Negative EXCEPT !.implementation = "BLOCKED"],
     [Negative EXCEPT !.evidence = "UNKNOWN", !.claim = TRUE]}

Matrix == INSTANCE CompatibilityMatrix
    WITH Edited <- EditedIds, Revisions <- EntryRevisions, Negatives <- NegativeEntries

ASSUME RevisionsAssumption == \A r \in EntryRevisions : Matrix!IsRevision(r)

-----------------------------------------------------------------------------

Init ==
    /\ subject \in {"datagrams", "lines", "payloads", "manifest", "codec", "matrix"}
    /\ Udp!Init /\ Input!Init /\ Payload!Init /\ Manifest!Init /\ Codec!Init /\ Matrix!Init
    /\ subject # "lines" => format = "external"
    /\ magic["B"] = "usec" /\ (subject # "datagrams" => magic["A"] = "usec")

(* The payloads of capture A are gathered first: in which order the two    *)
(* are read tells nothing.                                                 *)
FirstA ==
    \A i, j \in 1..Len(observations) :
        i < j /\ observations[i].cap = "B" => observations[j].cap = "B"

(* The codec is used on frames and records before the scan only: the two   *)
(* do not meet.                                                            *)
UsesFirst == last'.op \in {"frame", "send"} => countable.lines = 0

Next ==
    /\ UNCHANGED subject
    /\ \/ subject = "datagrams" /\ Udp!Next
          /\ UNCHANGED <<inputVars, observations, manifestVars, codecVars, matrixVars>>
       \/ subject = "lines" /\ Input!Next
          /\ UNCHANGED <<udpVars, observations, manifestVars, codecVars, matrixVars>>
       \/ subject = "payloads" /\ Payload!Observe /\ FirstA'
          /\ UNCHANGED <<udpVars, inputVars, manifestVars, codecVars, matrixVars>>
       \/ subject = "manifest" /\ Manifest!Next
          /\ UNCHANGED <<udpVars, inputVars, observations, codecVars, matrixVars>>
       \/ subject = "codec" /\ Codec!Next /\ UsesFirst
          /\ UNCHANGED <<udpVars, inputVars, observations, manifestVars, matrixVars>>
       \/ subject = "matrix" /\ Matrix!Next
          /\ UNCHANGED <<udpVars, inputVars, observations, manifestVars, codecVars>>

Spec == Init /\ [][Next]_allVars

-----------------------------------------------------------------------------

(* Nothing is lost, moved or invented in what is made of captures.         *)
(* Datagrams, once the dumps are read without an error: each record is in  *)
(* one flow, its place before, during or after the session follows from    *)
(* the times read alone, and bursts, counters and the nearest packet of a  *)
(* message are those of the records.  The reader of the decryptor's dump   *)
(* and that of the records of the project: fields and bytes of a frame     *)
(* give the same record, one frame nobody could open does not cost the     *)
(* others, no id is cut to another, and the timeline keeps the order of    *)
(* capture.  (The analysis of UDP has a reader of dumps of its own, which  *)
(* cuts ids and gives up at the first frame without an id.)                *)
IntakeFaithful ==
    /\ subject = "datagrams" /\ load_error = "none" =>
        /\ Udp!FlowsPartition /\ Udp!RelationHolds /\ Udp!ComparisonHolds
        /\ Udp!BurstsFound /\ Udp!CountersFound /\ Udp!NearestFound
    /\ subject = "lines" =>
        /\ Input!FieldsAgreeWithBytes /\ Input!UnopenedFramesCostNothing
        /\ Input!NoAliasedId /\ Input!CapturedOrderKept

(* What is said of the regions of a payload holds of the payloads seen:    *)
(* the regions cover them once, what is stable is in every payload, and    *)
(* numbers, bits, texts and regions that change together are there.        *)
RegionsFaithful ==
    subject = "payloads" =>
        /\ Payload!RegionsPartition /\ Payload!StableIsEverywhere
        /\ Payload!OneLengthNoDependence /\ Payload!MonotonicKeepsLead
        /\ Payload!BitsThatVary /\ Payload!TextNotOverstated
        /\ Payload!NeverAlone /\ Payload!ExportKeepsStable

(* The verdict on several captures needs two that were decoded, one with   *)
(* nothing encrypted blocks it, and that alone, as no capture with a frame *)
(* of an unknown kind is decoded; a stable startup is one the captures     *)
(* share, and a capture that is there already, or is no source of its own, *)
(* adds nothing to the verdict.                                            *)
VerdictSound ==
    /\ [](subject = "manifest" =>
            /\ Manifest!BadCaptureBlocks /\ Manifest!FramesAreKnown
            /\ Manifest!StableStartupAgrees /\ Manifest!VerifiedNeedsTwo)
    /\ Manifest!RepeatsNeverPromote

(* A message survives the codec: encoding gives back what was decoded,     *)
(* bodies and records arrive whole or not at all, however the dump was     *)
(* written, every line is counted once, and registry, codec and names      *)
(* agree on every id.                                                      *)
CodecFaithful ==
    subject = "codec" =>
        /\ Codec!RoundTrip /\ Codec!TalliesAddUp /\ Codec!BodyRecovered
        /\ Codec!RecordArrives /\ Codec!FrameKeepsMessage /\ Codec!RegistryAgrees

(* The matrix passes exactly if every rule holds of every entry, whichever *)
(* is looked at first; its numbers then claim nothing of the real world    *)
(* and count every entry once; and it calls implemented what the codec has *)
(* a variant for.                                                          *)
MatrixClaims ==
    subject = "matrix" =>
        /\ Matrix!RulesDecide /\ Matrix!NumbersClaimNothingReal
        /\ Matrix!MetricsAddUp /\ Matrix!ImplementedHasCodec
=============================================================================
