---------------------------- MODULE MultiCapture ----------------------------
(***************************************************************************)
(* multi-capture-verify: the entries of a manifest are read in order, each *)
(* fixture that is ready is decoded by the offline pipeline, and the       *)
(* reports gathered so far are compared.                                   *)
(*                                                                         *)
(* A fixture is modelled by the capture it names ("unknown" for none), the *)
(* frames it has bytes of, and what became of its 0x1A session record when *)
(* someone checked it.  A frame is clear, encrypted or of another kind,    *)
(* has the id its bytes give or "none", the id the file expects, and opens *)
(* or not.                                                                 *)
(***************************************************************************)
EXTENDS Integers, Sequences, SequencesExt, FiniteSets

CONSTANTS
    Entries,        \* manifest entries [capture_id, status, fixture, independent]
    MaxEntries,
    Hint,           \* EXPECTED_STARTUP_HINT
    Known           \* ids that have a name

VARIABLES
    read,           \* entries read
    reports,        \* reports made of them
    error           \* the error that ended the reading

vars == <<read, reports, error>>

NoFixture == [capture |-> "none", frames |-> <<>>, record |-> "unmeasured"]
MissingFile == [capture |-> "missing", frames |-> <<>>, record |-> "unmeasured"]

Init == read = 0 /\ reports = <<>> /\ error = "none"

-----------------------------------------------------------------------------

(* The ids of the frames, as far as they are known: an encrypted frame too *)
(* short to have one takes the id the file expects.                        *)
MessageIds(frames) ==
    LET id(f) == IF f.kind = "encrypted" /\ f.id = "none" THEN f.hint ELSE f.id
        ids[i \in 0..Len(frames)] ==
            IF i = 0 THEN <<>>
            ELSE IF id(frames[i]) = "none" THEN ids[i - 1] ELSE Append(ids[i - 1], id(frames[i]))
    IN  ids[Len(frames)]

(* extract_startup_sequence: the part of the hint the ids begin with, or   *)
(* the first ids, as many as the hint has, if they begin with none of it.  *)
Startup(ids) ==
    LET same == {k \in 0..Len(Hint) : k <= Len(ids) /\ SubSeq(ids, 1, k) = SubSeq(Hint, 1, k)}
        prefix == CHOOSE k \in same : \A j \in same : j <= k
        six == IF Len(ids) < Len(Hint) THEN Len(ids) ELSE Len(Hint)
    IN  IF prefix > 0 THEN SubSeq(ids, 1, prefix) ELSE SubSeq(ids, 1, six)

(* report_from_pipeline_fixture_str of a fixture whose every frame opens:  *)
(* the counters have then counted what was decrypted.  That the session    *)
(* record was validated is not looked at.                                  *)
Report(entry) ==
    LET frames == entry.fixture.frames
        encrypted == Cardinality({i \in 1..Len(frames) : frames[i].kind = "encrypted"})
        framed == \A i \in 1..Len(frames) : frames[i].kind # "other"
        ids == MessageIds(frames) IN
    [capture_id |-> IF entry.fixture.capture = "unknown" THEN entry.capture_id
                    ELSE entry.fixture.capture,
     independent |-> entry.independent,
     encrypted_frames |-> encrypted,
     framing_valid |-> framed,
     gcm_validation |-> framed /\ encrypted > 0,
     message_ids |-> ids,
     unknown_message_ids |-> Range(ids) \ Known,
     startup_sequence |-> Startup(ids),
     keepalive_fa |-> "xFA" \in Range(ids),
     keepalive_fb |-> "xFB" \in Range(ids),
     record |-> entry.fixture.record]

(* pipeline_ok.  Its other conjuncts hold of every report: the pipeline    *)
(* fails on the first frame that does not open, so that none failed, as    *)
(* many were opened as there are and the counters agree.                   *)
PipelineOk(r) == r.framing_valid /\ r.gcm_validation

(* Mutant of Unique: a later report of a capture replaces the first.       *)
Unique_LastWins(rs) ==
    {rs[i] : i \in {j \in 1..Len(rs) :
        rs[j].independent /\ \A k \in j + 1..Len(rs) :
            ~(rs[k].independent /\ rs[k].capture_id = rs[j].capture_id)}}

(* by_id: of the independent reports, the first of each capture.           *)
Unique(rs) ==
    {rs[i] : i \in {j \in 1..Len(rs) :
        rs[j].independent /\ \A k \in 1..j - 1 :
            ~(rs[k].independent /\ rs[k].capture_id = rs[j].capture_id)}}

(* classify_bool and classify_sequence: the class of a row of the summary, *)
(* by what each capture has for it, <<>> for nothing.                      *)
Classify(rs, Value(_)) ==
    LET measured == {r \in rs : Value(r) # <<>>}
        values == {Value(r) : r \in measured} IN
    CASE values = {} -> "Unknown"
      [] values # {} /\ Cardinality(rs) = 1 -> "Observed"
      [] Cardinality(values) = 1 /\ Cardinality(rs) > 1 ->
            IF measured = rs THEN "Stable" ELSE "CaptureSpecific"
      [] OTHER -> "Divergent"

(* The rows of compare_captures.  Whether the nonces are valid, the AAD    *)
(* empty, the nonce bases and the session record as supposed, the loader   *)
(* reports as true of every capture it can decode.                         *)
Rows(rs) ==
    [framing |-> Classify(rs, LAMBDA r : <<r.framing_valid>>),
     gcm |-> Classify(rs, LAMBDA r : <<r.gcm_validation>>),
     session_record |-> Classify(rs, LAMBDA r : <<TRUE>>),
     startup |-> Classify(rs, LAMBDA r : r.startup_sequence),
     keepalive_fa |-> Classify(rs, LAMBDA r : <<r.keepalive_fa>>),
     keepalive_fb |-> Classify(rs, LAMBDA r : <<r.keepalive_fb>>),
     keepalive_timing |-> "Unknown"]

Status(rs) ==
    LET u == Unique(rs)
        ok == \A r \in u : PipelineOk(r) IN
    CASE u = {} \/ ~ok -> "Blocked"
      [] u # {} /\ ok /\ Cardinality(u) = 1 -> "ReadyForExternalCapture"
      [] OTHER -> IF Rows(u).framing = "Stable" /\ Rows(u).gcm = "Stable"
                  THEN "VerifiedMultiCapture" ELSE "Blocked"

-----------------------------------------------------------------------------

Fails(e) ==
    /\ error' = e
    /\ UNCHANGED reports

(* run_directed gives the frames: the stream decoder in front of the       *)
(* session refuses a kind that is neither clear nor encrypted, so that the *)
(* opaque frame the session would return never comes.                      *)
Decodes(frame) == frame.kind # "other" /\ frame.opens

(* One entry of verify_from_manifest_str: a fixture that is not ready, or  *)
(* whose file is missing, is noted and skipped; a ready one without a path *)
(* or that does not decode ends the reading.                               *)
ReadEntry(e) ==
    /\ error = "none" /\ read < MaxEntries
    /\ read' = read + 1
    /\ \/ /\ e.status # "pipeline_ready" \/ e.fixture = MissingFile
          /\ UNCHANGED <<reports, error>>
       \/ /\ e.status = "pipeline_ready" /\ e.fixture = NoFixture
          /\ Fails("MissingFixture")
       \/ /\ e.status = "pipeline_ready" /\ e.fixture \notin {NoFixture, MissingFile}
          /\ \/ /\ e.fixture.frames = <<>>
                /\ Fails("EmptyWire")
             \/ /\ \E i \in 1..Len(e.fixture.frames) : ~Decodes(e.fixture.frames[i])
                /\ Fails("Pipeline")
             \/ /\ e.fixture.frames # <<>>
                /\ \A i \in 1..Len(e.fixture.frames) : Decodes(e.fixture.frames[i])
                /\ reports' = Append(reports, Report(e))
                /\ UNCHANGED error

Next == \E e \in Entries : ReadEntry(e)

Spec == Init /\ [][Next]_vars

-----------------------------------------------------------------------------

U == Unique(reports)

(* A report of a capture already there, or of one that is no source of its *)
(* own, changes nothing: neither the verdict nor any row.                  *)
RepeatsNeverPromote ==
    [][ LET new == reports'[Len(reports')] IN
        (/\ reports # <<>> /\ reports' # reports
         /\ \/ ~new.independent
            \/ \E r \in U : r.capture_id = new.capture_id)
        => Status(reports') = Status(reports) /\ Rows(Unique(reports')) = Rows(U) ]_vars

(* A capture that counts and has nothing encrypted blocks the comparison   *)
(* for good: nothing read later makes it a verified one.                   *)
BadCaptureBlocks ==
    (\E r \in U : r.encrypted_frames = 0) => Status(reports) = "Blocked"

(* No report has an opaque frame: what the loader and pipeline_ok make of  *)
(* one is never asked for, and a capture that counts is blocked for having *)
(* nothing encrypted or not at all.                                        *)
FramesAreKnown ==
    /\ \A i \in 1..Len(reports) : reports[i].framing_valid
    /\ \A r \in U : ~PipelineOk(r) => r.encrypted_frames = 0

(* Captures with a STABLE startup row agree on as many first messages as   *)
(* the row has, whether it is part of the expected startup or not.         *)
StableStartupAgrees ==
    Rows(U).startup = "Stable" =>
        \A r, q \in U : \A k \in 1..Len(r.startup_sequence) :
            k <= Len(q.message_ids) /\ q.message_ids[k] = r.message_ids[k]

(* The verdict needs two captures, by name, of which each was decoded.     *)
VerifiedNeedsTwo ==
    Status(reports) = "VerifiedMultiCapture" =>
        Cardinality({r.capture_id : r \in {q \in Range(reports) : q.independent}}) >= 2
=============================================================================
