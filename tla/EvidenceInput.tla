---------------------------- MODULE EvidenceInput ----------------------------
(***************************************************************************)
(* The two evidence readers and the timeline made of what they read: the   *)
(* project's own JSONL (jsonl.rs), whose records hold a frame as bytes or  *)
(* as fields, and the dump of an external decryptor (evidence_adapter.rs), *)
(* which has one line per frame in the order of the capture.               *)
(*                                                                         *)
(* Of bytes only the length matters.  frame_ts counts tenths of a          *)
(* millisecond.  A field that is missing is None, hex that does not decode *)
(* is Bad.                                                                 *)
(***************************************************************************)
EXTENDS Integers, Sequences, SequencesExt, FiniteSets

CONSTANTS
    ExternalLines,  \* lines of a dump [kind, direction, id, context, hex, ts]
    ProjectLines,   \* records [direction, timestamp, form, frame or fields]
    MaxLines,       \* bound on the lines, by format
    ContextMod      \* 2^32 in the code

VARIABLES
    format,         \* "external" or "project"
    lines,          \* lines read
    records,        \* EvidenceRecords made of them, with the line of each
    error

vars == <<format, lines, records, error>>

None == -1
Bad == -2
HeaderLen == 2      \* msg_id and context of a clear body
TagLen == 1         \* tag of an encrypted body

Init ==
    /\ format \in {"external", "project"}
    /\ lines = <<>> /\ records = <<>> /\ error = "none"

Clear(id, context, len) == [kind |-> "clear", id |-> id, context |-> context, len |-> len]
Unparsed(kind, len) == [kind |-> kind, id |-> None, context |-> None, len |-> len]

Fail(e) == [error |-> e]
Made(frame) == [error |-> "none", frame |-> frame]

-----------------------------------------------------------------------------
(* The project's own records.                                              *)

(* BapFrame::parse of frame_hex; bytes after the frame are not looked at.  *)
ParseFrame(b) ==
    CASE b.present = Bad -> Fail("BadHex")
      [] b.present # Bad /\ ~b.header -> Fail("TruncatedHeader")
      [] b.present # Bad /\ b.header /\ ~b.magic -> Fail("BadMagic")
      [] b.present # Bad /\ b.header /\ b.magic /\ b.present < b.body_len -> Fail("TruncatedBody")
      [] OTHER ->
            CASE b.kind = "clear" ->
                    IF b.body_len < HeaderLen THEN Fail("TruncatedClearBody")
                    ELSE Made(Clear(b.id, b.context, b.body_len - HeaderLen))
              [] b.kind = "encrypted" ->
                    IF b.body_len < TagLen THEN Fail("TruncatedEncryptedTag")
                    ELSE Made(Unparsed("encrypted", b.body_len))
              [] OTHER -> Made(Unparsed("other", b.body_len))

LenOf(hex) == IF hex = None THEN 0 ELSE hex

(* structured_frame *)
StructuredFrame(f) ==
    CASE f.kind = "none" -> Fail("IncompleteRecord")
      [] f.kind = "clear" ->
            IF f.id = None THEN Fail("IncompleteRecord")
            ELSE IF f.payload = Bad THEN Fail("BadHex")
            ELSE Made(Clear(f.id, LenOf(f.context), LenOf(f.payload)))
      [] f.kind = "encrypted" ->
            IF f.tag = Bad THEN Fail("BadHex")
            ELSE IF LenOf(f.tag) # TagLen THEN Fail("BadTagLength")
            ELSE IF f.ciphertext = Bad THEN Fail("BadHex")
            ELSE Made(Unparsed("encrypted", TagLen + LenOf(f.ciphertext)))
      [] OTHER -> IF f.payload = Bad THEN Fail("BadHex")
                  ELSE Made(Unparsed("other", LenOf(f.payload)))

(* EvidenceRecord::from_raw                                                *)
FromRaw(line) ==
    IF line.direction = "bad" THEN Fail("BadDirection")
    ELSE IF line.form = "hex" THEN ParseFrame(line.frame) ELSE StructuredFrame(line.frame)

-----------------------------------------------------------------------------
(* The dump of the external decryptor.                                     *)

(* The id of a frame, None for one that has none or too large a one.       *)
IdOf(line) == IF line.id > 65535 THEN None ELSE line.id

(* timestamp_ms_from_external *)
TimestampMs(line) == IF line.ts >= 0 THEN line.ts \div 10 ELSE line.index

(* adapt_parsed and adapt_bap_frame: the direction is looked at before the *)
(* id, the bytes after it.                                                 *)
AdaptParsed(line) ==
    CASE line.kind # "bap_frame" -> Fail("skipped")
      [] line.kind = "bap_frame" /\ line.direction = "bad" -> Fail("BadDirection")
      [] line.kind = "bap_frame" /\ line.direction # "bad" /\ IdOf(line) = None ->
            Fail("MissingMessageId")
      [] line.kind = "bap_frame" /\ line.direction # "bad" /\ IdOf(line) # None /\ line.hex = Bad ->
            Fail("BadHex")
      [] OTHER -> Made(Clear(IdOf(line), LenOf(line.context) % ContextMod, LenOf(line.hex)))

(* adapt_line, one line by itself: blank lines are skipped, one that is no *)
(* JSON is an error.                                                       *)
AdaptLine(line) ==
    CASE line.kind = "blank" -> Fail("skipped")
      [] line.kind = "broken" -> Fail("Json")
      [] OTHER -> AdaptParsed(line)

-----------------------------------------------------------------------------

Record(line, timestamp, made) ==
    [timestamp |-> timestamp, direction |-> line.direction, frame |-> made.frame,
     line |-> Len(lines) + 1]

(* adapt_jsonl_str: unlike adapt_line it passes over frames without an id. *)
ReadExternal(line) ==
    LET made == AdaptLine(line) IN
    \/ /\ made.error \in {"skipped", "MissingMessageId"}
       /\ UNCHANGED <<records, error>>
    \/ /\ made.error = "none"
       /\ records' = Append(records, Record(line, TimestampMs(line), made))
       /\ UNCHANGED error
    \/ /\ made.error \notin {"none", "skipped", "MissingMessageId"}
       /\ error' = made.error /\ records' = <<>>

(* parse_jsonl_str: every line must be a record.                           *)
ReadProject(line) ==
    LET made == FromRaw(line) IN
    \/ /\ made.error = "none"
       /\ records' = Append(records, Record(line, line.timestamp, made))
       /\ UNCHANGED error
    \/ /\ made.error # "none"
       /\ error' = made.error /\ records' = <<>>

(* The decryptor writes frames in the order of their time, and numbers     *)
(* those of each direction.                                                *)
InOrder(line) ==
    \A i \in 1..Len(lines) :
        LET l == lines[i] IN
        (l.kind = "bap_frame" /\ line.kind = "bap_frame") =>
            /\ l.ts >= 0 /\ line.ts >= 0 => l.ts <= line.ts
            /\ l.direction = line.direction => l.index < line.index

Next ==
    /\ error = "none" /\ Len(lines) < MaxLines[format]
    /\ \/ /\ format = "external"
          /\ \E line \in ExternalLines :
                /\ InOrder(line)
                /\ lines' = Append(lines, line)
                /\ ReadExternal(line)
       \/ /\ format = "project"
          /\ \E line \in ProjectLines :
                /\ lines' = Append(lines, line)
                /\ ReadProject(line)
    /\ UNCHANGED format

Spec == Init /\ [][Next]_vars

(* The key entries are sorted by; records of equal keys stay in the order  *)
(* they were read in.                                                      *)
Before(r, q) ==
    \/ r.timestamp < q.timestamp
    \/ r.timestamp = q.timestamp /\ r.direction = "C2S" /\ q.direction = "S2C"
    \/ r.timestamp = q.timestamp /\ r.direction = q.direction /\ r.line < q.line

(* Timeline::from_evidence                                                 *)
Timeline == SortSeq(records, Before)

-----------------------------------------------------------------------------

Timed(r) == lines[r.line].ts >= 0

(* Of a dump that has times for all its frames or for none, the timeline   *)
(* has the frames of each direction in the order they were captured in,    *)
(* and with times never a frame before one of an earlier millisecond.      *)
CapturedOrderKept ==
    (format = "external" /\ \A i, j \in 1..Len(records) : Timed(records[i]) = Timed(records[j])) =>
        \A i \in 1..Len(Timeline) : \A j \in 1..i - 1 :
            LET earlier == Timeline[j] later == Timeline[i] IN
            /\ earlier.direction = later.direction => earlier.line < later.line
            /\ Timed(later) => lines[earlier.line].ts \div 10 <= lines[later.line].ts \div 10

(* A record has the id its line had: an id beyond 16 bits is never taken   *)
(* for another message.                                                    *)
NoAliasedId ==
    format = "external" =>
        \A i \in 1..Len(records) : records[i].frame.id = lines[records[i].line].id

(* One frame the decryptor could not open does not cost the others: as     *)
(* long as every line is JSON with a direction and bytes that decode, each *)
(* frame with an id has its record.                                        *)
UnopenedFramesCostNothing ==
    format = "external" =>
        LET sound(l) == l.kind # "broken" /\ (l.kind = "bap_frame" => l.direction # "bad" /\ l.hex # Bad) IN
        (\A i \in 1..Len(lines) : sound(lines[i])) =>
            \A i \in 1..Len(lines) :
                (lines[i].kind = "bap_frame" /\ lines[i].id \in 0..65535) =>
                    \E j \in 1..Len(records) : records[j].line = i

(* The bytes of the frame a record's fields describe.                      *)
AsBytes(f) ==
    LET body == CASE f.kind = "clear" -> HeaderLen + LenOf(f.payload)
                  [] f.kind = "encrypted" -> LenOf(f.tag) + LenOf(f.ciphertext)
                  [] OTHER -> LenOf(f.payload) IN
    [header |-> TRUE, magic |-> TRUE, kind |-> f.kind, body_len |-> body, present |-> body,
     id |-> f.id, context |-> LenOf(f.context)]

(* A record in fields is read as the same frame in bytes would be: what    *)
(* the fields leave out, or have too much of, never makes another frame.   *)
FieldsAgreeWithBytes ==
    \A i \in 1..Len(records) :
        (format = "project" /\ lines[records[i].line].form = "fields") =>
            ParseFrame(AsBytes(lines[records[i].line].frame)) = Made(records[i].frame)
=============================================================================
