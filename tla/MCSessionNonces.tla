--------------------------- MODULE MCSessionNonces ---------------------------
(* SessionNonces next to the byte arrays it stands for, and next to the    *)
(* verifiers that check a captured file against the schedule.  A behaviour *)
(* issues nonces or records a file; the other rests.                       *)
EXTENDS SessionNonces, NonceBytes, Sequences

CONSTANTS
    CapturedFrames, \* kinds of frames in a captured file
    MaxCapture      \* frames of a captured file

VARIABLES subject, raw, capture, sequence, session, pipeline

MCLowRange == ByteRange ^ (NonceLen - 1)

(* Kinds of frames in a file: encrypted ones in and out of their order,    *)
(* damaged, without bytes, with a wrong expectation, and others.           *)
Frame(d, k, n) ==
    [dir |-> d, kind |-> k, n |-> n, body |-> "whole", wire |-> TRUE, nonce |-> -1,
     length_right |-> TRUE]

MCCapturedFrames ==
    {Frame("c2s", "encrypted", n) : n \in 0..2} \cup {Frame("s2c", "encrypted", n) : n \in 0..1}
    \cup {[Frame("c2s", "encrypted", 0) EXCEPT !.body = b] :
             b \in {"changed", "tag_only", "short", "trailing"}}
    \cup {[Frame("c2s", "encrypted", 1) EXCEPT !.nonce = k] : k \in {0, 1}}
    \cup {[Frame("c2s", "encrypted", 0) EXCEPT !.wire = FALSE],
          [Frame("s2c", "encrypted", 0) EXCEPT !.length_right = FALSE],
          Frame("c2s", "clear", 0), [Frame("s2c", "clear", 0) EXCEPT !.body = "short"],
          Frame("c2s", "other", 0), Frame("other", "encrypted", 0)}

Verify == INSTANCE OfflineVerify WITH Frames <- CapturedFrames

ASSUME CapturedFramesAssumption == CapturedFrames \subseteq Verify!FrameType
ASSUME RangesAssumption == LowRange = Power[NonceLen - 1] /\ HighRange = ByteRange
ASSUME MaxCaptureAssumption == MaxCapture \in Nat

file == <<capture, sequence, session, pipeline>>

MCInit ==
    /\ raw \in ByteArrays
    /\ Init /\ base = Spelled(raw)
    /\ Verify!Init
    /\ subject \in {"nonces", "file"}
    /\ subject = "file" => base = [low |-> 0, high |-> 0]

MCNext ==
    \/ subject = "nonces" /\ Next /\ UNCHANGED <<subject, raw, file>>
    \/ subject = "file" /\ Verify!Record /\ UNCHANGED <<subject, raw, vars>>

MCSpec == MCInit /\ [][MCNext]_<<vars, subject, raw, file>>

(* The split of a nonce into its last byte and a number does not change    *)
(* the schedule: the bytes the code computes, by flipping the last byte    *)
(* and then incrementing once per frame with its byte-by-byte carry, spell *)
(* the nonce the schedule gives.                                           *)
BytewiseScheduleAgrees ==
    \A d \in Directions :
        LET nonce == NonceAfterIncrements(DirectionBytes(raw, d), issued[d]) IN
        nonce \in ByteArrays /\ Spelled(nonce) = current[d]

(* What a verifier vouches for is so: a file that gcm-sequence-verify      *)
(* passes holds exactly the first frames of each direction, whole and in   *)
(* order, and the first frame alone passes its own verifier; a VERIFIED of *)
(* bap-session-verify leaves no gap between the frames with bytes, and its *)
(* counters are in step with the session's whatever fails on the way; and  *)
(* bap-pipeline-verify agrees with it on files both can read.              *)
VerifiersVouchFor ==
    /\ Verify!SequencePassesOnlySchedule /\ Verify!FirstFrameAgrees
    /\ Verify!VerifiedSessionHasNoGap /\ Verify!ExpectedIsConsumed
    /\ Verify!VerifiersAgree
=============================================================================
