---------------------------- MODULE IngressLimits ----------------------------
(***************************************************************************)
(* What feed_bytes of an ExternalClientConnection refuses of a stream of   *)
(* well-formed frames only because of its size: the bytes buffered before  *)
(* a push with those it brings, and the frames the push completes.  The    *)
(* decoder's own limit is on the body of a frame.                          *)
(*                                                                         *)
(* Where the stream is cut depends on TCP and on the read buffer, so it is *)
(* cut anywhere here.  A stream is given by where its frames end; lengths  *)
(* are in units and count the header.                                      *)
(***************************************************************************)
EXTENDS Integers, Sequences, FiniteSets

CONSTANTS
    Streams,            \* the streams a peer may send
    ReadSizes,          \* sizes of a read buffer (DEFAULT_MAX_READ_CHUNK)
    Header,             \* STREAM_HEADER_LEN
    MaxFrame,           \* MAX_BODY_LEN and a header
    MaxBuffered,        \* max_buffered
    MaxFramesPerIter    \* max_frames_per_iter

VARIABLES
    ends,       \* the stream: where each of its frames ends
    chunk,      \* the size of the read buffer
    fed,        \* units of the stream pushed
    done,       \* frames handed to the session
    held,       \* most units buffered at the end of a push
    refused     \* "none", or why the connection was closed

vars == <<ends, chunk, fed, done, held, refused>>

EndOf(i) == IF i = 0 THEN 0 ELSE ends[i]

Length(i) == EndOf(i) - EndOf(i - 1)

Total == EndOf(Len(ends))

Init ==
    /\ ends \in Streams
    /\ chunk \in ReadSizes
    /\ fed = 0 /\ done = 0 /\ held = 0
    /\ refused = "none"

Buffered == fed - EndOf(done)

(* The frames complete, and the frame whose header is, once n units more   *)
(* have arrived.                                                           *)
Complete(n) == Cardinality({i \in 1..Len(ends) : EndOf(i) <= fed + n})

HeaderSeen(n) == {i \in 1..Len(ends) : EndOf(i - 1) + Header <= fed + n}

(* The decoder drains the frames before a header it refuses, and they are  *)
(* lost with the error, like all the frames of a push with too many.       *)
Refuse(why) ==
    /\ refused' = why
    /\ UNCHANGED <<done, held>>

(* Mutant of Verdict: the limit on frames is met by one frame less.        *)
Verdict_AtLimit(n) ==
    IF Buffered + n > MaxBuffered THEN "buffered"
    ELSE IF \E i \in HeaderSeen(n) : Length(i) > MaxFrame THEN "oversized"
    ELSE IF Complete(n) - done >= MaxFramesPerIter THEN "frames"
    ELSE "none"

Verdict(n) ==
    IF Buffered + n > MaxBuffered THEN "buffered"
    ELSE IF \E i \in HeaderSeen(n) : Length(i) > MaxFrame THEN "oversized"
    ELSE IF Complete(n) - done > MaxFramesPerIter THEN "frames"
    ELSE "none"

FeedBytes(n) ==
    /\ refused = "none"
    /\ fed' = fed + n
    /\ \/ /\ Verdict(n) # "none"
          /\ Refuse(Verdict(n))
       \/ /\ Verdict(n) = "none"
          /\ done' = Complete(n)
          /\ held' = IF held > fed + n - EndOf(Complete(n)) THEN held
                     ELSE fed + n - EndOf(Complete(n))
          /\ UNCHANGED refused
    /\ UNCHANGED <<ends, chunk>>

Next == \E n \in 1..chunk : fed + n <= Total /\ FeedBytes(n)

Spec == Init /\ [][Next]_vars

FairSpec == Spec /\ WF_vars(Next)

-----------------------------------------------------------------------------

Legal == \A i \in 1..Len(ends) : Length(i) <= MaxFrame

(* A stream is refused for its size only if it is large: no cut makes a    *)
(* stream fail whose bytes fit the buffer and whose frames fit one push.   *)
SmallStreamsPass ==
    /\ refused = "buffered" => Total > MaxBuffered
    /\ refused = "frames" => Len(ends) > MaxFramesPerIter

(* Legal frames are refused for the buffer only with reads larger than the *)
(* room the limit leaves beside the longest frame, and the refused bytes   *)
(* complete a frame: a peer that waits for the answer to each frame is     *)
(* never refused.  The room of the defaults is 64 bytes less a header, and *)
(* the read buffer has 4096.                                               *)
RoomForReads ==
    Legal /\ refused = "buffered" =>
        /\ chunk > MaxBuffered - MaxFrame + 1
        /\ \E i \in 1..Len(ends) : i > done /\ EndOf(i) < fed

(* Less than a frame is kept from one push to the next, so the memory of a *)
(* connection is bounded by the limits and not by what the peer sends.     *)
LessThanAFrameHeld == held < MaxFrame

(* Every stream is either handed over as a whole or refused.               *)
StreamEnds == <>(refused # "none" \/ done = Len(ends))
=============================================================================
