--------------------------- MODULE StreamFraming ---------------------------
(***************************************************************************)
(* The incremental BAP framing path of the crate: a ByteSource (a TCP      *)
(* connection or a mock) hands over chunks cut at arbitrary byte           *)
(* positions, BapStreamDecoder carves complete frames out of them, and     *)
(* collect_raw_frames drains the source into a list of frames.             *)
(*                                                                         *)
(* Bytes are abstracted to positions.  The peer's stream is `wire`, a      *)
(* sequence of frames laid end to end, each with the position where it     *)
(* starts, the position where its body ends and a verdict: what the        *)
(* decoder concludes from the six header bytes.  The decoder's buffer is   *)
(* then the interval from `consumed` to `received`, so a frame cut in the  *)
(* middle of its header, or of its body, is cut at a position.             *)
(***************************************************************************)
EXTENDS Integers, Sequences

CONSTANTS
    HeaderLen,      \* STREAM_HEADER_LEN, six bytes in the code
    Wires           \* the byte streams a peer may send

(* "refused" stands for InvalidMagic, InvalidKind and FrameTooLarge.       *)
Verdicts == {"ok", "refused"}

Frames == [start : Nat, end : Nat, verdict : Verdicts]

(* Frames follow each other without gaps, and every frame has room for a   *)
(* header; what the bytes after a rejected header mean is never asked.     *)
WellFormed(w) ==
    /\ w \in Seq(Frames)
    /\ \A i \in 1..Len(w) :
          /\ w[i].end >= w[i].start + HeaderLen
          /\ w[i].start = IF i = 1 THEN 0 ELSE w[i - 1].end

ASSUME HeaderLenAssumption == HeaderLen \in Nat \ {0}
ASSUME WiresAssumption == \A w \in Wires : WellFormed(w)

VARIABLES
    wire,       \* the frames the peer's byte stream consists of
    cutoff,     \* bytes the peer writes before it closes its side
    received,   \* bytes pushed into the decoder so far
    consumed,   \* bytes drained out of BapStreamDecoder.buf
    next,       \* index of the first frame not drained
    source,     \* "open", or "closed" once TcpByteSource dropped its stream
    call,       \* "idle", or "collecting" inside collect_raw_frames
    out,        \* frames gathered by the call under way
    result,     \* how the last call returned
    delivered,  \* frames of the calls that returned Ok, in order (history)
    failures    \* calls that ended in Err (history; bounded by MaxFailures)

vars == <<wire, cutoff, received, consumed, next, source, call, out, result,
          delivered, failures>>

CONSTANT MaxFailures    \* bound on the failing calls a behaviour explores

ASSUME MaxFailuresAssumption == MaxFailures \in Nat

Results == {"none", "ok", "stream_error", "incomplete_at_end", "source_error"}

BytesOf(w) == IF w = <<>> THEN 0 ELSE w[Len(w)].end

(* Frame i of the wire can be drained once r bytes arrived ...             *)
Complete(i, r) == /\ i \in 1..Len(wire)
                  /\ wire[i].verdict = "ok"
                  /\ wire[i].end <= r

(* ... and is refused as soon as its header arrived, whatever its body.    *)
Refused(i, r) == /\ i \in 1..Len(wire)
                 /\ wire[i].verdict = "refused"
                 /\ wire[i].start + HeaderLen <= r

(* Mutant of DrainStopsAt: `if` in place of drain_complete's loop.         *)
DrainStopsAt_OneFrame(stop, r) ==
    stop = IF Complete(next, r) THEN next + 1 ELSE next

(* drain_complete pops frames from the front until one is missing bytes or *)
(* is refused: stop is where its loop ends when r bytes have arrived.      *)
DrainStopsAt(stop, r) ==
    /\ stop \in next..Len(wire) + 1
    /\ \A i \in next..stop - 1 : Complete(i, r)
    /\ ~Complete(stop, r)

(* Mutant of Drained: the last frame comes first.                          *)
Drained_Reversed(stop) == [k \in 1..(stop - next) |-> stop - k]

Drained(stop) == [k \in 1..(stop - next) |-> next + k - 1]

DrainedUpTo(stop) == IF stop > next THEN wire[stop - 1].end ELSE consumed

-----------------------------------------------------------------------------

Init ==
    /\ wire \in Wires
    /\ cutoff \in 0..BytesOf(wire)
    /\ received = 0
    /\ consumed = 0
    /\ next = 1
    /\ source = "open"
    /\ call = "idle"
    /\ out = <<>>
    /\ result = "none"
    /\ delivered = <<>>
    /\ failures = 0

(* collect_raw_frames is entered, for the first time or again after it     *)
(* returned: the decoder keeps its buffer, the output starts empty.        *)
StartCollect ==
    /\ call = "idle"
    /\ failures < MaxFailures
    /\ call' = "collecting"
    /\ out' = <<>>
    /\ UNCHANGED <<wire, cutoff, received, consumed, next, source, result,
                   delivered, failures>>

(* The error path of the ? operator: the frames gathered by this call are  *)
(* dropped with the Vec, whatever the decoder already drained stays gone.  *)
Fail(kind) ==
    /\ call' = "idle"
    /\ out' = <<>>
    /\ result' = kind
    /\ failures' = failures + 1
    /\ UNCHANGED delivered

(* read returned n bytes and push drained them.  The frames before a       *)
(* refused header leave the buffer, but push returns only the error.       *)
ReadData(n) ==
    /\ call = "collecting"
    /\ source = "open"
    /\ received + n <= cutoff
    /\ received' = received + n
    /\ \E stop \in next..Len(wire) + 1 :
          /\ DrainStopsAt(stop, received + n)
          /\ consumed' = DrainedUpTo(stop)
          /\ next' = stop
          /\ \/ /\ Refused(stop, received + n)
                /\ Fail("stream_error")
             \/ /\ ~Refused(stop, received + n)
                /\ out' = out \o Drained(stop)
                /\ UNCHANGED <<call, result, delivered, failures>>
    /\ UNCHANGED <<wire, cutoff, source>>

(* The frames gathered are returned.                                       *)
Succeed ==
    /\ call' = "idle"
    /\ out' = <<>>
    /\ result' = "ok"
    /\ delivered' = delivered \o out
    /\ UNCHANGED failures

(* Mutant of Finish: leftover bytes are waited for.                        *)
Finish_WaitsForRest == consumed = received /\ Succeed

(* finish accepts only an empty buffer.                                    *)
Finish ==
    \/ consumed = received /\ Succeed
    \/ consumed # received /\ Fail("incomplete_at_end")

(* Zero bytes: the stream is dropped, the loop breaks, finish is called.   *)
ReadEof ==
    /\ call = "collecting"
    /\ source = "open"
    /\ received = cutoff
    /\ source' = "closed"
    /\ Finish
    /\ UNCHANGED <<wire, cutoff, received, consumed, next>>

(* TcpByteSource::read on a stream already dropped is a clean end, too.    *)
ReadClosed ==
    /\ call = "collecting"
    /\ source = "closed"
    /\ Finish
    /\ UNCHANGED <<wire, cutoff, received, consumed, next, source>>

(* A read timeout or a transport error: the call fails, the stream stays.  *)
ReadFails ==
    /\ call = "collecting"
    /\ source = "open"
    /\ Fail("source_error")
    /\ UNCHANGED <<wire, cutoff, received, consumed, next, source>>

(* TcpByteSource::close by the owner, between two calls.                   *)
CloseSource ==
    /\ call = "idle"
    /\ source = "open"
    /\ source' = "closed"
    /\ UNCHANGED <<wire, cutoff, received, consumed, next, call, out, result,
                   delivered, failures>>

Read == (\E n \in 1..cutoff : ReadData(n)) \/ ReadEof \/ ReadClosed

Next == StartCollect \/ Read \/ ReadFails \/ CloseSource

Spec == Init /\ [][Next]_vars

(* The loop of collect_raw_frames blocks in read until the peer writes or  *)
(* closes, so it is fair as long as the peer is.                           *)
FairSpec == Spec /\ WF_vars(Read)

-----------------------------------------------------------------------------

TypeOK ==
    /\ wire \in Wires
    /\ cutoff \in 0..BytesOf(wire)
    /\ received \in 0..cutoff
    /\ consumed \in 0..received
    /\ next \in 1..Len(wire) + 1
    /\ source \in {"open", "closed"}
    /\ call \in {"idle", "collecting"}
    /\ out \in Seq(Nat)
    /\ result \in Results
    /\ delivered \in Seq(Nat)
    /\ failures \in Nat

(* Where the decoder stands depends on the bytes it was given and not on   *)
(* how they were cut into chunks: after any history of pushes, every frame *)
(* whose last byte arrived has been drained, up to the first one that has  *)
(* not or that is refused, and the buffer holds exactly the bytes after    *)
(* it.  (drain_complete's loop; the "arbitrary chunk sizes" test.)         *)
ChunkIndependence ==
    /\ \A i \in 1..next - 1 : wire[i].verdict = "ok" /\ wire[i].end <= received
    /\ next <= Len(wire) => wire[next].verdict = "refused" \/ received < wire[next].end
    /\ consumed = IF next = 1 THEN 0 ELSE wire[next - 1].end

(* As long as no call failed, the frames returned by the calls so far,     *)
(* followed by those the running call has gathered, are the frames of the  *)
(* stream in order, none lost, none repeated.                              *)
NothingLostWithoutFailure ==
    failures = 0 =>
        /\ Len(delivered \o out) = next - 1
        /\ \A k \in 1..next - 1 : (delivered \o out)[k] = k

(* A call that is retried after a timeout or a framing error may have lost *)
(* what the failed call had gathered, but a frame is never returned twice  *)
(* and never out of order.                                                 *)
NeverRepeatedOrReordered ==
    LET all == delivered \o out
    IN  /\ \A k \in 1..Len(all) - 1 : all[k] < all[k + 1]
        /\ all # <<>> => all[Len(all)] < next

(* Ok from collect_raw_frames means that the stream ended on a frame       *)
(* boundary: no bytes of a frame cut short by the peer, and no refused     *)
(* header, are dropped silently.                                           *)
OkEndsOnFrameBoundary ==
    result = "ok" /\ call = "idle" /\ source = "closed" =>
        received = IF next = 1 THEN 0 ELSE wire[next - 1].end

(* collect_raw_frames returns: an incomplete frame makes it wait for more  *)
(* bytes, but not beyond the end of the stream.                            *)
CollectReturns == call = "collecting" ~> call = "idle"
=============================================================================
