----------------------------- MODULE BapSession -----------------------------
(***************************************************************************)
(* Two BapSession objects with the same key and session nonce, one         *)
(* encoding the frames of a direction, the other decoding them.  Nonces    *)
(* are implicit: neither side sends one, each takes the next of its own    *)
(* schedule (SessionNonces), so a nonce is modelled by its number.         *)
(*                                                                         *)
(* Between the two a frame may be damaged, lost, repeated or overtaken: a  *)
(* capture replayed offline misses frames, a test feeds tampered ones.     *)
(* Faults are bounded by MaxFaults and frames by MaxFrames.                *)
(***************************************************************************)
EXTENDS Integers, Sequences, SequencesExt, FiniteSets

CONSTANTS MaxFrames, MaxFaults

ASSUME BoundsAssumption == MaxFrames \in Nat /\ MaxFaults \in Nat

VARIABLES
    encoder,    \* the sender's counter for the direction
    decoder,    \* the receiver's counter for the direction
    wire,       \* frames encoded and not yet decoded
    outcome,    \* how the last decode_frame returned
    accepted,   \* numbers of the encrypted frames that decrypted (history)
    frames,     \* frames encoded so far (bound)
    faults,     \* faults injected so far (bound)
    gaps        \* faults other than a changed byte (history)

frameVars == <<encoder, decoder, wire, outcome, accepted, frames, faults, gaps>>

(* What is left of a body: whole, with a byte changed, too short for its   *)
(* fixed part, or an encrypted body that ends after the tag.               *)
Bodies == {"whole", "changed", "short", "tag_only"}

ClearFrame == [kind |-> "clear", nonce |-> 0, body |-> "whole"]

EncryptedFrame(n) == [kind |-> "encrypted", nonce |-> n, body |-> "whole"]

Outcomes == {"none", "clear", "decrypted", "framing_error", "empty_ciphertext",
             "decrypt_failed"}

FrameInit ==
    /\ encoder = 0
    /\ decoder = 0
    /\ wire = <<>>
    /\ outcome = "none"
    /\ accepted = <<>>
    /\ frames = 0
    /\ faults = 0
    /\ gaps = 0

Send(f) ==
    /\ frames < MaxFrames
    /\ wire' = Append(wire, f)
    /\ frames' = frames + 1
    /\ UNCHANGED <<decoder, outcome, accepted, faults, gaps>>

(* encode_clear leaves the crypto context alone.                           *)
EncodeClear == Send(ClearFrame) /\ UNCHANGED encoder

(* Mutant of EncodeEncrypted: the nonce is used but not advanced.          *)
EncodeEncrypted_Reuses == Send(EncryptedFrame(encoder)) /\ UNCHANGED encoder

(* encode_encrypted takes the next nonce of the direction.                 *)
EncodeEncrypted == Send(EncryptedFrame(encoder)) /\ encoder' = encoder + 1

(* Mutants of DecodeEncrypted: a failed authentication gives the nonce     *)
(* back; a successful one does not take it.                                *)
DecodeEncrypted_GivesBack(f) ==
    \/ /\ f.body = "whole" /\ f.nonce = decoder
       /\ decoder' = decoder + 1
       /\ outcome' = "decrypted"
       /\ accepted' = Append(accepted, f.nonce)
    \/ /\ f.body # "whole" \/ f.nonce # decoder
       /\ outcome' = "decrypt_failed"
       /\ UNCHANGED <<decoder, accepted>>

DecodeEncrypted_NotTaken(f) ==
    /\ f.body = "whole" /\ f.nonce = decoder
    /\ outcome' = "decrypted"
    /\ accepted' = Append(accepted, f.nonce)
    /\ UNCHANGED decoder

(* decode_encrypted: a body without ciphertext is refused before a nonce   *)
(* is taken; otherwise the nonce is taken first and stays taken when the   *)
(* authentication fails.                                                   *)
DecodeEncrypted(f) ==
    \/ /\ f.body = "tag_only"
       /\ outcome' = "empty_ciphertext"
       /\ UNCHANGED <<decoder, accepted>>
    \/ /\ f.body # "tag_only"
       /\ decoder' = decoder + 1
       /\ \/ /\ f.body = "whole" /\ f.nonce = decoder
             /\ outcome' = "decrypted"
             /\ accepted' = Append(accepted, f.nonce)
          \/ /\ f.body = "changed" \/ f.nonce # decoder
             /\ outcome' = "decrypt_failed"
             /\ UNCHANGED accepted

(* decode_frame: parse_clear_body and parse_encrypted_body refuse a body   *)
(* shorter than its fixed part; a changed byte of a clear body is not      *)
(* noticed.                                                                *)
DecodeFrame ==
    /\ wire # <<>>
    /\ wire' = Tail(wire)
    /\ LET f == Head(wire) IN
          \/ /\ f.body = "short"
             /\ outcome' = "framing_error"
             /\ UNCHANGED <<decoder, accepted>>
          \/ /\ f.body # "short" /\ f.kind = "clear"
             /\ outcome' = "clear"
             /\ UNCHANGED <<decoder, accepted>>
          \/ /\ f.body # "short" /\ f.kind = "encrypted"
             /\ DecodeEncrypted(f)
    /\ UNCHANGED <<encoder, frames, faults, gaps>>

(* A fault rewrites the frames on the wire.                                *)
Fault(w, gap) ==
    /\ faults < MaxFaults
    /\ wire' = w
    /\ faults' = faults + 1
    /\ gaps' = gaps + gap
    /\ UNCHANGED <<encoder, decoder, outcome, accepted, frames>>

(* A changed byte keeps the frame's place in the schedule; a body cut so   *)
(* short that no nonce is taken for it does not.                           *)
Damage(i) ==
    /\ wire[i].body = "whole"
    /\ \/ Fault([wire EXCEPT ![i].body = "changed"], 0)
       \/ /\ wire[i].kind = "clear"
          /\ Fault([wire EXCEPT ![i].body = "short"], 0)
       \/ /\ wire[i].kind = "encrypted"
          /\ \E b \in {"short", "tag_only"} : Fault([wire EXCEPT ![i].body = b], 1)

Lose(i) == Fault(RemoveAt(wire, i), 1)

Repeat(i) == Fault(InsertAt(wire, i, wire[i]), 1)

Overtake(i) ==
    /\ i < Len(wire)
    /\ Fault([wire EXCEPT ![i] = wire[i + 1], ![i + 1] = wire[i]], 1)

Faults == \E i \in 1..Len(wire) : Damage(i) \/ Lose(i) \/ Repeat(i) \/ Overtake(i)

FrameNext == EncodeClear \/ EncodeEncrypted \/ DecodeFrame \/ Faults

FrameSpec == FrameInit /\ [][FrameNext]_frameVars

-----------------------------------------------------------------------------

FrameTypeOK ==
    /\ encoder \in 0..MaxFrames
    /\ decoder \in Nat
    /\ \A i \in 1..Len(wire) :
          wire[i] \in [kind : {"clear", "encrypted"}, nonce : 0..MaxFrames, body : Bodies]
    /\ outcome \in Outcomes
    /\ accepted \in Seq(0..MaxFrames)
    /\ frames \in 0..MaxFrames
    /\ faults \in 0..MaxFaults
    /\ gaps \in 0..faults

EncryptedBefore(i) == Cardinality({j \in 1..i - 1 : wire[j].kind = "encrypted"})

(* A failed authentication still uses up the nonce, so that a tampered     *)
(* frame costs only itself: as long as frames were merely altered, every   *)
(* encrypted frame on the wire will meet the nonce it was encrypted under, *)
(* and the two counters agree once the wire is empty.                      *)
AlignedDespiteTampering ==
    gaps = 0 =>
        /\ \A i \in 1..Len(wire) :
              wire[i].kind = "encrypted" => wire[i].nonce = decoder + EncryptedBefore(i)
        /\ encoder = decoder + EncryptedBefore(Len(wire) + 1)

(* Whatever is lost, repeated or overtaken, the encrypted frames that      *)
(* decrypt are accepted once each and in the order they were encoded.      *)
NoReplay == \A k \in 1..Len(accepted) - 1 : accepted[k] < accepted[k + 1]

(* An authentication failure has a cause: with no frame lost, cut short,   *)
(* repeated or overtaken, only a frame that was itself altered fails.      *)
FailuresHaveACause ==
    [][ /\ gaps = 0 /\ faults' = faults
        /\ Len(wire') < Len(wire)
        /\ outcome' \in {"decrypt_failed", "empty_ciphertext", "framing_error"}
        => Head(wire).body # "whole" ]_frameVars
=============================================================================
