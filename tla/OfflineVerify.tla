---------------------------- MODULE OfflineVerify ----------------------------
(***************************************************************************)
(* The offline verifiers of a captured session: gcm-sequence-verify and    *)
(* gcm-first-frame-verify take the encrypted frames apart into fields,     *)
(* bap-session-verify decodes frame by frame and goes on after a failure,  *)
(* bap-pipeline-verify decodes the concatenated bytes and stops at the     *)
(* first error.  Each keeps its own counters of what it expects.           *)
(*                                                                         *)
(* `capture` is the list of frames a file holds, and the three reports are *)
(* what a verifier that has read the file up to there has come to.  The    *)
(* file of gcm-sequence-verify lists the encrypted frames only.            *)
(***************************************************************************)
EXTENDS Integers, Sequences, FiniteSets

CONSTANTS
    Frames,         \* kinds of frames in a file, a subset of FrameType
    MaxCapture

VARIABLES
    capture,
    sequence,       \* report of gcm_sequence
    session,        \* report of bap_session_verify
    pipeline        \* report of bap_pipeline_verify

reports == <<sequence, session, pipeline>>

Directions == {"c2s", "s2c"}

(* A frame carries its direction, its kind, its number `n` among the       *)
(* encrypted frames of its direction in the session it was taken from,     *)
(* what is left of its body, whether the file has its bytes, and what the  *)
(* file expects of it: a nonce (a number, or -1), and whether the length   *)
(* it names is right.  The id and the kind a file may expect are not       *)
(* modelled.                                                               *)
FrameType ==
    [dir : Directions \cup {"other"}, kind : {"encrypted", "clear", "other"}, n : Nat,
     body : {"whole", "changed", "tag_only", "short", "trailing"},
     wire : BOOLEAN, nonce : Nat \cup {-1}, length_right : BOOLEAN]

Zero == [d \in Directions |-> 0]

-----------------------------------------------------------------------------

(* decrypt_aes_gcm under the nonce a counter stands for.                   *)
Opens(f, counter) == f.body = "whole" /\ f.n = counter

SequenceStart == [error |-> "none", counters |-> Zero, frames |-> 0,
                  nonce_ok_all |-> TRUE, gcm_ok_all |-> TRUE]

(* One round of gcm_sequence's loop.  A nonce is taken for every frame,    *)
(* whether or not it opens.                                                *)
SequenceStep(r, f) ==
    IF r.error # "none" THEN r
    ELSE IF f.dir = "other" THEN [r EXCEPT !.error = "BadDirection"]
    ELSE IF f.body = "short" THEN [r EXCEPT !.error = "BadFieldLen"]
    ELSE IF f.body = "tag_only" THEN [r EXCEPT !.error = "EmptyField"]
    ELSE LET opens == Opens(f, r.counters[f.dir]) IN
         [r EXCEPT !.counters[f.dir] = @ + 1,
                   !.frames = @ + 1,
                   !.nonce_ok_all = @ /\ f.nonce \in {-1, r.counters[f.dir]},
                   !.gcm_ok_all = @ /\ opens /\ f.length_right]

(* verify_from_json_str returned Ok, which takes a frame, and all_verified *)
(* holds of the report.                                                    *)
SequenceVerified(r) ==
    r.error = "none" /\ r.frames > 0 /\ r.nonce_ok_all /\ r.gcm_ok_all

BaseOf(transform, dir) ==
    CASE transform = "Identity" -> "s2c"
      [] transform = "XorLastByte1" -> "c2s"
      [] OTHER -> dir

(* gcm_first_frame with the nonce gcm_nonce_reconstruct gives.             *)
FirstFrameVerified(f, transform, dir) ==
    /\ BaseOf(transform, dir) = f.dir
    /\ Opens(f, 0)
    /\ f.length_right

-----------------------------------------------------------------------------

(* BapSession.decode_frame: what it makes of a frame.                      *)
Outcome(f, counters) ==
    IF f.body = "trailing" \/ (f.body = "short" /\ f.kind # "other") THEN "framing"
    ELSE IF f.kind = "other" THEN "opaque"
    ELSE IF f.kind = "clear" THEN "clear"
    ELSE IF f.body = "tag_only" THEN "empty_ciphertext"
    ELSE IF Opens(f, counters[f.dir]) THEN "decrypted" ELSE "decrypt_failed"

(* A nonce is taken before the frame is opened, and stays taken.           *)
Decode(f, counters) ==
    IF Outcome(f, counters) \in {"decrypted", "decrypt_failed"}
    THEN [counters EXCEPT ![f.dir] = @ + 1]
    ELSE counters

SessionStart ==
    [error |-> "none", counters |-> Zero, expected |-> Zero, frames_seen |-> 0,
     failed |-> 0, success |-> 0, opaque |-> 0, framing_valid |-> TRUE]

(* Mutant of SessionStep: a frame that does not open is not expected to    *)
(* have taken a nonce.                                                     *)
SessionStep_FailedUncounted(r0, f) ==
    LET r == [r0 EXCEPT !.frames_seen = @ + 1]
        outcome == Outcome(f, r.counters)
        s == [r EXCEPT !.counters = Decode(f, r.counters)]
        failed == outcome = "decrypted" /\ ~f.length_right IN
    IF r0.error # "none" THEN r0
    ELSE IF f.dir = "other" THEN [r EXCEPT !.error = "BadDirection"]
    ELSE IF ~f.wire THEN r
    ELSE IF outcome = "framing" THEN [s EXCEPT !.framing_valid = FALSE]
    ELSE IF outcome = "opaque" THEN [s EXCEPT !.opaque = @ + 1]
    ELSE IF outcome = "clear" THEN s
    ELSE IF outcome \in {"empty_ciphertext", "decrypt_failed"} THEN [s EXCEPT !.failed = @ + 1]
    ELSE IF failed THEN [s EXCEPT !.failed = @ + 1, !.expected[f.dir] = @ + 1]
    ELSE [s EXCEPT !.success = @ + 1, !.expected[f.dir] = @ + 1]

(* One round of bap_session_verify's loop.                                 *)
SessionStep(r0, f) ==
    LET r == [r0 EXCEPT !.frames_seen = @ + 1]
        outcome == Outcome(f, r.counters)
        s == [r EXCEPT !.counters = Decode(f, r.counters)]
        failed == outcome = "decrypt_failed" \/ ~f.length_right IN
    IF r0.error # "none" THEN r0
    ELSE IF f.dir = "other" THEN [r EXCEPT !.error = "BadDirection"]
    ELSE IF ~f.wire THEN r
    ELSE IF outcome = "framing" THEN [s EXCEPT !.framing_valid = FALSE]
    ELSE IF outcome = "opaque" THEN [s EXCEPT !.opaque = @ + 1]
    ELSE IF outcome = "clear" THEN s
    ELSE IF outcome = "empty_ciphertext" THEN [s EXCEPT !.failed = @ + 1]
    ELSE IF failed THEN [s EXCEPT !.failed = @ + 1, !.expected[f.dir] = @ + 1]
    ELSE [s EXCEPT !.success = @ + 1, !.expected[f.dir] = @ + 1]

NonceStateValid(r) == r.counters = r.expected

(* BapSessionVerifyReport::verified of a file with frames.                 *)
SessionVerified(r) ==
    /\ r.error = "none"
    /\ r.framing_valid /\ NonceStateValid(r) /\ r.failed = 0 /\ r.frames_seen > 0

PipelineStart ==
    [collected |-> TRUE, fed |-> 0, error |-> "none", counters |-> Zero, success |-> 0]

(* One round of run_directed's loop: the first error ends the run.         *)
RunDirected(r, f) ==
    LET outcome == Outcome(f, r.counters)
        s == [r EXCEPT !.counters = Decode(f, r.counters)] IN
    IF r.error # "none" THEN r
    ELSE IF outcome = "clear" THEN s
    ELSE IF outcome = "decrypted" THEN [s EXCEPT !.success = @ + 1]
    ELSE [s EXCEPT !.error = outcome]

(* bap_pipeline_verify feeds the frames the file has bytes of.  The whole  *)
(* stream is collected before any nonce is taken: a direction it does not  *)
(* know, a kind that is neither clear nor encrypted, or bytes after a      *)
(* frame end the run there, and the rest of the report says nothing.       *)
PipelineStep(r0, f) ==
    LET collected == r0.collected /\ f.dir # "other" /\ f.kind # "other" /\ f.body # "trailing"
        r == [r0 EXCEPT !.fed = @ + 1, !.collected = collected] IN
    IF ~f.wire THEN r0 ELSE IF ~collected THEN r ELSE RunDirected(r, f)

(* PipelineVerifyReport::verified, of a run that returned Ok.              *)
PipelineVerified(r) ==
    /\ r.collected /\ r.fed > 0 /\ r.error = "none"
    /\ r.counters["c2s"] + r.counters["s2c"] = r.success

-----------------------------------------------------------------------------

Init == capture = <<>> /\ sequence = SequenceStart /\ session = SessionStart
        /\ pipeline = PipelineStart

IsSealed(f) == f.kind = "encrypted" /\ f.body # "trailing"

(* The file grows by a frame, and each verifier reads it.                  *)
Record ==
    /\ Len(capture) < MaxCapture
    /\ \E f \in Frames :
          /\ capture' = Append(capture, f)
          /\ sequence' = IF IsSealed(f) THEN SequenceStep(sequence, f) ELSE sequence
          /\ session' = SessionStep(session, f)
          /\ pipeline' = PipelineStep(pipeline, f)

Spec == Init /\ [][Record]_<<capture, reports>>

-----------------------------------------------------------------------------

(* The frames of gcm-sequence-verify's file, and those of them the session *)
(* file has bytes of.                                                      *)
Sealed(fs) == {i \in 1..Len(fs) : IsSealed(fs[i])}

Wired(fs) == {i \in Sealed(fs) : fs[i].wire}

(* How many of the frames S are of a direction.                            *)
Count(fs, S, d) == Cardinality({i \in S : fs[i].dir = d})

(* The frames S of each direction are the beginning of its schedule,       *)
(* without a gap, a repetition or a damaged frame.                         *)
InSchedule(fs, S) ==
    \A i \in S : fs[i].dir \in Directions =>
        /\ fs[i].n = Count(fs, {j \in S : j < i}, fs[i].dir)
        /\ fs[i].body = "whole" /\ fs[i].length_right

(* A file that gcm-sequence-verify passes holds, in each direction, the    *)
(* first frames of the session in their order, none missing or altered,    *)
(* however the directions are mixed, and the nonces it names are those.    *)
SequencePassesOnlySchedule ==
    SequenceVerified(sequence) <=>
        /\ Sealed(capture) # {} /\ InSchedule(capture, Sealed(capture))
        /\ \A i \in Sealed(capture) :
              capture[i].dir # "other" /\ capture[i].nonce \in {-1, capture[i].n}

(* A report of bap-session-verify that says VERIFIED vouches for the       *)
(* frames whose bytes the file has: those of each direction are the first  *)
(* of the session.  A frame without bytes in between is a gap and shows.   *)
VerifiedSessionHasNoGap ==
    SessionVerified(session) => InSchedule(capture, Wired(capture))

(* bap-session-verify keeps in step with the session's counters whatever   *)
(* fails on the way, which is what nonce_state_valid is to tell.           *)
ExpectedIsConsumed == NonceStateValid(session)

(* A frame both verifiers of whole sessions can read: its bytes are there, *)
(* its kind is known and its length as expected.                           *)
Plain(f) ==
    f.wire /\ f.kind # "other" /\ f.body # "trailing" /\ f.dir # "other" /\ f.length_right

(* The two verifiers of whole sessions agree on a file of such frames.     *)
VerifiersAgree ==
    (capture # <<>> /\ \A i \in 1..Len(capture) : Plain(capture[i]))
    => (SessionVerified(session) <=> PipelineVerified(pipeline))

(* The first frame of a direction verifies on its own, with the nonce      *)
(* reconstructed by the direction's default transform, exactly if it       *)
(* verifies as a sequence of one.                                          *)
FirstFrameAgrees ==
    capture # <<>> =>
        LET f == capture[1] IN
        (f.kind = "encrypted" /\ f.dir # "other" /\ f.body \in {"whole", "changed"} /\ f.nonce = -1)
        => (FirstFrameVerified(f, "DefaultForDirection", f.dir)
                <=> SequenceVerified(SequenceStep(SequenceStart, f)))
=============================================================================
