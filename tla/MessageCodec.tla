----------------------------- MODULE MessageCodec -----------------------------
(***************************************************************************)
(* The message codec and its registry: the logical body of a message, once *)
(* framing and decryption are done, is turned into a BapMessage and back.  *)
(* Three users are modelled: message-codec-verify, which scans the dumps   *)
(* of the captures; the dispatcher's path from a decoded frame; and a peer *)
(* that builds a 0x1A record by hand and sends it.                         *)
(*                                                                         *)
(* Every field of fixed size is one byte long: id and context head a       *)
(* plaintext, prefix and record_len a 0x1A body, and an IV and an HMAC     *)
(* enclose the ciphertext.  Ids keep their values.                         *)
(***************************************************************************)
EXTENDS Integers, Sequences, FiniteSets

CONSTANTS
    Lines,          \* lines of the dumps, see IsLine
    MaxLines,       \* bound on the lines scanned
    Frames,         \* decoded frames [kind, plaintext]
    Records         \* 0x1A records built by hand, see IsRecord

VARIABLES
    tally,          \* the counters of the scan
    captures,       \* captures of the manifest dealt with
    result,         \* "running", or how the verification ended
    countable,      \* history: lines scanned that held a message, and those of 0x1A
    last            \* history: what was decoded last, and from what

vars == <<tally, captures, result, countable, last>>

HeaderLen == 2      \* id and context; also prefix and record_len
IvLen == 1
HmacLen == 1
MIN_RECORD_LEN == IvLen + HmacLen

EXPECTED_MESSAGE_IDS ==
    {10, 11, 12, 13, 16, 17, 18, 19, 21, 22, 23, 24, 25, 26, 30, 31, 32, 33, 42, 43,
     121, 122, 123, 171, 250, 251, 302, 303}

CODEC_KNOWN_IDS == {30, 31, 25, 26, 121, 122, 302, 303, 250, 251}

(* KNOWN of messages.rs: ids with a name.                                  *)
NamedIds == {10, 11, 12, 13, 25, 26, 30, 31, 121, 122, 250, 251, 301, 302, 303}

(* typical_direction *)
TypicalDirection(id) ==
    CASE id \in {30, 25, 121, 302, 250, 10, 12, 18, 21, 23, 32, 123, 171, 16, 42} -> "C2S"
      [] id \in {31, 26, 122, 303, 251, 11, 13, 19, 22, 24, 33, 17, 43} -> "S2C"
      [] OTHER -> "UNKNOWN"

(* status_for *)
StatusFor(id) ==
    CASE id = 26 -> "CONFIRMED_STRUCTURE"
      [] id # 26 /\ id \in CODEC_KNOWN_IDS -> "OPAQUE_KNOWN"
      [] OTHER -> "UNKNOWN"

(* registry_entry: what the registry says of an id.                        *)
RegistryEntry(id) ==
    [direction |-> TypicalDirection(id), named |-> id \in NamedIds, status |-> StatusFor(id)]

(* validate_registry *)
RegistryValid ==
    /\ Cardinality(EXPECTED_MESSAGE_IDS) = 28
    /\ CODEC_KNOWN_IDS \subseteq EXPECTED_MESSAGE_IDS

-----------------------------------------------------------------------------

NoRecord == [record_len |-> 0]

(* validate_lengths *)
ValidLengths(r) ==
    /\ r.record_len >= MIN_RECORD_LEN
    /\ Len(r.ciphertext) = r.record_len - MIN_RECORD_LEN

(* encode_payload of a record with valid lengths                           *)
EncodePayload(r) == <<r.prefix, r.record_len, r.iv>> \o r.ciphertext \o <<r.hmac>>

(* Mutant of DecodePayload: bytes after the record are ignored.            *)
DecodePayload_Longer(p) ==
    IF Len(p) < HeaderLen + MIN_RECORD_LEN THEN NoRecord
    ELSE LET end == HeaderLen + p[2] IN
         IF p[2] < MIN_RECORD_LEN \/ Len(p) < end THEN NoRecord
         ELSE [prefix |-> p[1], record_len |-> p[2], iv |-> p[HeaderLen + 1],
               ciphertext |-> SubSeq(p, HeaderLen + IvLen + 1, end - HmacLen), hmac |-> p[end]]

(* decode_payload: the record of a 0x1A body, or NoRecord.                 *)
DecodePayload(p) ==
    IF Len(p) < HeaderLen + MIN_RECORD_LEN THEN NoRecord
    ELSE LET end == HeaderLen + p[2] IN
         IF p[2] < MIN_RECORD_LEN \/ Len(p) # end THEN NoRecord
         ELSE [prefix |-> p[1], record_len |-> p[2], iv |-> p[HeaderLen + 1],
               ciphertext |-> SubSeq(p, HeaderLen + IvLen + 1, end - HmacLen), hmac |-> p[end]]

Envelope(id, context, direction, payload) ==
    [id |-> id, context |-> context, direction |-> direction, payload |-> payload]

(* decode_message: ten ids are known, 0x1A alone has a structure, of which *)
(* the raw bytes are kept as well.                                         *)
DecodeMessage(env) ==
    [id |-> env.id, context |-> env.context, direction |-> env.direction,
     known |-> env.id \in {30, 31, 25, 26, 121, 122, 302, 303, 250, 251},
     record |-> IF env.id = 26 THEN DecodePayload(env.payload) ELSE NoRecord,
     payload |-> env.payload]

(* encode_message *)
EncodeMessage(m) == IF m.record # NoRecord THEN EncodePayload(m.record) ELSE m.payload

(* roundtrip_ok *)
RoundtripOk(m) ==
    EncodeMessage(DecodeMessage(Envelope(m.id, m.context, m.direction, EncodeMessage(m))))
        = EncodeMessage(m)

-----------------------------------------------------------------------------

(* The body of a line: a plaintext that starts with the id of its line is  *)
(* taken to have id and context in front.                                  *)
Payload(line) ==
    IF line.kind = "plaintext" /\ Len(line.hex) >= HeaderLen /\ line.hex[1] = line.id % 65536
    THEN SubSeq(line.hex, HeaderLen + 1, Len(line.hex)) ELSE line.hex

(* What a line holds: the bytes of a body, and in front of them, if it is  *)
(* a plaintext, id and context or nothing.                                 *)
IsLine(line) ==
    /\ line.id \in Nat /\ line.hex \in Seq(Nat)
    /\ \/ line.body = line.hex
       \/ /\ line.kind = "plaintext" /\ Len(line.hex) >= HeaderLen
          /\ line.hex[1] = line.id % 65536
          /\ line.body = SubSeq(line.hex, HeaderLen + 1, Len(line.hex))

IsRecord(r) ==
    r \in [prefix : Nat, record_len : Nat, iv : Nat, ciphertext : Seq(Nat), hmac : Nat]

NoTally == [frames_decoded |-> 0, known |-> 0, unknown |-> 0, structured_1a |-> 0,
            opaque_1a |-> 0, roundtrip_failures |-> 0]

One(condition) == IF condition THEN 1 ELSE 0

Counted(m) ==
    [frames_decoded |-> tally.frames_decoded + 1,
     known |-> tally.known + One(m.known),
     unknown |-> tally.unknown + One(~m.known),
     structured_1a |-> tally.structured_1a + One(m.id = 26 /\ m.record # NoRecord),
     opaque_1a |-> tally.opaque_1a + One(m.id = 26 /\ m.record = NoRecord),
     roundtrip_failures |-> tally.roundtrip_failures + One(~RoundtripOk(m))]

Nothing == [op |-> "none", decoded |-> <<>>]

Init ==
    /\ tally = NoTally /\ captures = 0 /\ countable = [lines |-> 0, of_1a |-> 0] /\ last = Nothing
    /\ result = IF RegistryValid THEN "running" ELSE "registry"

(* One line of scan_capture: blank lines, other kinds and frames without   *)
(* an id or without bytes are skipped; bytes that are no hex end the run.  *)
ScanLine(line) ==
    /\ result = "running" /\ captures < 2 /\ countable.lines < MaxLines
    /\ UNCHANGED captures
    /\ \/ /\ line.kind \in {"blank", "other", "no_id", "no_hex"}
          /\ UNCHANGED <<tally, countable, last, result>>
       \/ /\ line.kind = "bad_hex"
          /\ result' = "json"
          /\ UNCHANGED <<tally, countable, last>>
       \/ /\ line.kind \in {"plaintext", "payload"}
          /\ LET m == DecodeMessage(Envelope(line.id % 65536, 0, line.dir, Payload(line))) IN
             /\ tally' = Counted(m)
             /\ last' = [op |-> "scan", line |-> line, decoded |-> <<m>>]
          /\ countable' = [lines |-> countable.lines + 1,
                            of_1a |-> countable.of_1a + One(line.id % 65536 = 26)]
          /\ UNCHANGED result

(* run_from_manifest goes on to the next capture, of two.                  *)
NextCapture ==
    /\ result = "running" /\ captures < 2
    /\ captures' = captures + 1
    /\ UNCHANGED <<tally, result, countable, last>>

Finish ==
    /\ result = "running" /\ captures = 2
    /\ result' = IF tally.roundtrip_failures > 0 THEN "failed" ELSE "VERIFIED"
    /\ UNCHANGED <<tally, captures, countable, last>>

(* The codec used on frames, beside the scan.                              *)
Uses(op) ==
    /\ last' = op
    /\ UNCHANGED <<tally, captures, result, countable>>

(* decode_from_frame, after decode_plaintext of the session: nothing for   *)
(* an opaque frame and for a plaintext too short for id and context.       *)
DecodeFromFrame(frame) ==
    IF frame.kind = "opaque" \/ Len(frame.plaintext) < HeaderLen THEN <<>>
    ELSE <<DecodeMessage(Envelope(frame.plaintext[1], frame.plaintext[2], frame.dir,
                         SubSeq(frame.plaintext, HeaderLen + 1, Len(frame.plaintext))))>>

DecodeFrame(frame) ==
    Uses([op |-> "frame", frame |-> frame, decoded |-> DecodeFromFrame(frame)])

(* A record built by hand is encoded, unless its lengths are refused, and  *)
(* decoded by the peer.                                                    *)
SendRecord(r) ==
    Uses([op |-> "send", built |-> r,
          decoded |-> IF ValidLengths(r)
                      THEN <<DecodeMessage(Envelope(26, 0, "S2C", EncodePayload(r)))>> ELSE <<>>])

Next ==
    \/ \E line \in Lines : ScanLine(line)
    \/ NextCapture \/ Finish
    \/ \E frame \in Frames : DecodeFrame(frame)
    \/ \E r \in Records : SendRecord(r)

Spec == Init /\ [][Next]_vars

-----------------------------------------------------------------------------

Decoded == {last.decoded[i] : i \in 1..Len(last.decoded)}

(* decode(encode(m)) is the message itself, every field of it, and not     *)
(* only, as roundtrip_ok compares, something with the same encoding.       *)
RoundTrip ==
    \A m \in Decoded :
        DecodeMessage(Envelope(m.id, m.context, m.direction, EncodeMessage(m))) = m

(* The counters of the report add up: every line that held a message is    *)
(* known or unknown, every 0x1A structured or opaque, nothing fails.       *)
TalliesAddUp ==
    /\ tally.frames_decoded = countable.lines
    /\ tally.known + tally.unknown = tally.frames_decoded
    /\ tally.structured_1a + tally.opaque_1a = countable.of_1a
    /\ tally.roundtrip_failures = 0

(* The scan works on the body of the frame, whichever way the dump was     *)
(* written, unless the dump has bodies only and this one begins with its   *)
(* own id.                                                                 *)
BodyRecovered ==
    last.op = "scan" =>
        LET line == last.line IN
        \/ last.decoded[1].payload = line.body
        \/ /\ line.kind = "plaintext" /\ line.hex = line.body
           /\ Len(line.body) >= HeaderLen /\ line.body[1] = line.id % 65536

(* A record built by hand arrives as it was built or is not sent at all;   *)
(* one whose lengths agree is sent.                                        *)
RecordArrives ==
    last.op = "send" =>
        LET r == last.built IN
        IF last.decoded # <<>> THEN last.decoded[1].record = r
        ELSE r.record_len # IvLen + Len(r.ciphertext) + HmacLen

(* A frame gives a message with the id, the context and the body that were *)
(* sent, or none if it cannot have been a message.                         *)
FrameKeepsMessage ==
    last.op = "frame" =>
        LET sent == last.frame.plaintext IN
        IF last.decoded = <<>> THEN last.frame.kind = "opaque" \/ Len(sent) < HeaderLen
        ELSE LET m == last.decoded[1] IN
             <<m.id, m.context>> \o EncodeMessage(m) = sent

(* The registry, the codec and the names say the same of every id decoded: *)
(* a codec exactly where the status has one, a name and a direction for    *)
(* each of those, and a request and its response go opposite ways.         *)
RegistryAgrees ==
    \A m \in Decoded :
        LET e == RegistryEntry(m.id) IN
        /\ m.known <=> e.status # "UNKNOWN"
        /\ m.record # NoRecord => e.status = "CONFIRMED_STRUCTURE"
        /\ m.known => e.named /\ e.direction # "UNKNOWN"
        /\ {m.id, m.id + 1} \subseteq EXPECTED_MESSAGE_IDS =>
                {e.direction, TypicalDirection(m.id + 1)} = {"C2S", "S2C"}
=============================================================================
