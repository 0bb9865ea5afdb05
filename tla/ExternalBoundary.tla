--------------------------- MODULE ExternalBoundary ---------------------------
(***************************************************************************)
(* One ExternalClientConnection: bytes go in through feed_bytes, frames    *)
(* come out of its decoder and are handed to its StatefulBapSession, and   *)
(* everything that happens is logged as an ExternalBoundaryEvent.          *)
(*                                                                         *)
(* The connection is owned by a worker of ExternalBoundaryHarness, which   *)
(* reads a socket and copies the log to a sink, or used offline, without a *)
(* stream, by code that calls its methods as it likes (the tests do).      *)
(*                                                                         *)
(* A chunk is the frames it completes, and possibly the header of one      *)
(* more.  Lengths are in units: one for a header, FrameUnits for a frame.  *)
(***************************************************************************)
EXTENDS ProtocolState, Sequences, SequencesExt, FiniteSets

CONSTANTS
    Frames,             \* the frames a peer sends
    MaxChunk,           \* bound on the frames begun in one chunk
    MaxBuffered,        \* max_buffered, in units
    MaxFramesPerIter,   \* max_frames_per_iter
    MaxFeeds            \* bound on the calls of feed_bytes

(* A body is whole, fails its authentication ("tampered"), is too short    *)
(* for its fixed part ("malformed"), or has a header the decoder refuses.  *)
(* Id "none" is an encrypted plaintext too short to hold an id.            *)
FrameKinds == {f \in [id : Ids \cup {"none"}, enc : BOOLEAN,
                      body : {"whole", "tampered", "malformed", "refused"}] :
                  f.enc \/ (f.id # "none" /\ f.body # "tampered")}

ASSUME FramesAssumption == Frames \subseteq FrameKinds
ASSUME LimitsAssumption ==
    /\ MaxChunk \in Nat /\ MaxBuffered \in Nat
    /\ MaxFramesPerIter \in Nat /\ MaxFeeds \in Nat

VARIABLES
    owner,      \* "worker" or "offline"
    conn,       \* conn_state
    state,      \* protocol_state of the StatefulBapSession
    unknown,    \* its policy for unknown ids
    sdec, senc, \* counters of its crypto context
    partial,    \* the frame whose header is buffered, as a sequence
    step,       \* "idle", "feeding", "failing" or "flushing", or "ended"
    queue,      \* frames of the push not yet handled
    result,     \* how the last feed_bytes returned
    log,        \* events
    sink,       \* how many of them the harness's collector has
    peer,       \* encrypted frames the decoder has been given (history)
    tampered,   \* a frame was not what the peer had encrypted (history)
    feeds       \* calls of feed_bytes (bound)

vars == <<owner, conn, state, unknown, sdec, senc, partial, step, queue, result, log,
          sink, peer, tampered, feeds>>

Results == {"none", "ok", "already_closed", "limit", "framing", "crypto", "protocol", "io"}

Events == {"accepted", "bytes", "recovered", "input_rejected", "frame_rejected",
           "protocol", "protocol_rejected", "error", "closed"}

(* Unknown messages stand for the long ones.                               *)
FrameUnits(f) == IF f.id = "other" THEN 4 ELSE 2

Units(fs) == FoldSeq(LAMBDA f, n : FrameUnits(f) + n, 0, fs)

Encrypted(fs) == Cardinality({i \in 1..Len(fs) : fs[i].enc})

Init ==
    /\ owner \in {"worker", "offline"}
    /\ conn = "Accepted"
    /\ state = InitialState
    /\ unknown = "Observe"
    /\ sdec = 0 /\ senc = 0
    /\ partial = <<>>
    /\ step = IF owner = "worker" THEN "flushing" ELSE "idle"
    /\ queue = <<>>
    /\ result = "none"
    /\ log = <<"accepted">>
    /\ sink = 0
    /\ peer = 0 /\ tampered = FALSE
    /\ feeds = 0

-----------------------------------------------------------------------------

(* Mutants of BeginClose: a closed connection is closed again; the session *)
(* is left as it is.                                                       *)
BeginClose_Again(logged) ==
    /\ conn' = "Closed"
    /\ state' = "Closed"
    /\ log' = Append(logged, "closed")
    /\ partial' = <<>>

BeginClose_SessionLeft(logged) ==
    IF conn = "Closed" THEN log' = logged /\ UNCHANGED <<conn, state, partial>>
    ELSE /\ conn' = "Closed"
         /\ log' = Append(logged, "closed")
         /\ partial' = <<>>
         /\ UNCHANGED state

(* begin_close: the log so far, then ConnectionClosed, once.               *)
BeginClose(logged) ==
    IF conn = "Closed" THEN log' = logged /\ UNCHANGED <<conn, state, partial>>
    ELSE /\ conn' = "Closed"
         /\ state' = "Closed"
         /\ log' = Append(logged, "closed")
         /\ partial' = <<>>

(* feed_bytes returns: the worker flushes, after handling an error.        *)
Return(kind) ==
    /\ result' = kind
    /\ queue' = <<>>
    /\ step' = IF owner = "offline" THEN "idle"
               ELSE IF kind = "ok" THEN "flushing" ELSE "failing"

FeedClosed ==
    /\ conn = "Closed"
    /\ Return("already_closed")
    /\ UNCHANGED <<conn, state, partial, log, peer, tampered>>

TooMany(fs) == Len(fs) > MaxFramesPerIter

(* feed_bytes up to its loop, for a chunk after which the buffer holds the *)
(* frames `all`, the last of them cut after its header if cut is set.      *)
FeedOpen(all, cut) ==
    LET arrived == log \o <<"bytes">>
        drained == IF cut THEN Front(all) ELSE all
    IN  /\ conn # "Closed"
        /\ \/ /\ Units(drained) + (IF cut THEN 1 ELSE 0) > MaxBuffered
              /\ BeginClose(Append(log, "input_rejected"))
              /\ Return("limit")
              /\ UNCHANGED <<peer, tampered>>
           \/ /\ Units(drained) + (IF cut THEN 1 ELSE 0) <= MaxBuffered
              /\ \/ /\ \E i \in 1..Len(all) : all[i].body = "refused"
                    /\ BeginClose(Append(arrived, "input_rejected"))
                    /\ Return("framing")
                    /\ UNCHANGED <<peer, tampered>>
                 \/ /\ \A i \in 1..Len(all) : all[i].body # "refused"
                    /\ TooMany(drained)
                    /\ BeginClose(Append(arrived, "input_rejected"))
                    /\ Return("limit")
                    /\ UNCHANGED <<peer, tampered>>
                 \/ /\ \A i \in 1..Len(all) : all[i].body # "refused"
                    /\ ~TooMany(drained)
                    /\ conn' = IF conn = "Accepted" THEN "Reading" ELSE conn
                    /\ log' = arrived
                    /\ partial' = IF cut THEN <<Last(all)>> ELSE <<>>
                    /\ queue' = drained
                    /\ step' = "feeding"
                    /\ peer' = peer + Encrypted(drained)
                    /\ tampered' = (tampered \/ \E i \in 1..Len(drained) :
                                        drained[i].body \in {"tampered", "malformed"})
                    /\ UNCHANGED <<state, result>>

FeedBytes(new, cut) ==
    /\ step = "idle"
    /\ feeds < MaxFeeds
    /\ feeds' = feeds + 1
    /\ cut => partial \o new # <<>>
    /\ FeedClosed \/ FeedOpen(partial \o new, cut)
    /\ UNCHANGED <<owner, unknown, sdec, senc, sink>>

(* decode_frame: a malformed body takes no nonce, a failed authentication  *)
(* does.  The nonce of a frame is its place among the encrypted ones.      *)
Decodes(f) ==
    /\ f.body = "whole"
    /\ f.enc => peer - Encrypted(queue) = sdec

Recovered == Append(log, "recovered")

HandleCryptoError(f) ==
    /\ ~Decodes(f)
    /\ sdec' = IF f.enc /\ f.body # "malformed" THEN sdec + 1 ELSE sdec
    /\ BeginClose(Append(Recovered, "frame_rejected"))
    /\ Return("crypto")
    /\ UNCHANGED senc

Decoded(f) ==
    /\ Decodes(f)
    /\ sdec' = IF f.enc THEN sdec + 1 ELSE sdec

(* handle_decoded_frame fails, for a plaintext without an id or for the    *)
(* policy's refusal, which comes after the state has moved: the frame is   *)
(* rejected and the rest of the chunk dropped, the connection stays open.  *)
HandleProtocolError(f) ==
    /\ Decoded(f)
    /\ \/ f.id = "none" /\ UNCHANGED state
       \/ /\ f.id # "none"
          /\ ~Rejects(state, [id |-> f.id, dir |-> "c2s"])
          /\ PolicyRejects(state, f.id, unknown)
          /\ state' = StateAfter(state, [id |-> f.id, dir |-> "c2s"])
    /\ log' = Append(Recovered, "frame_rejected")
    /\ Return("protocol")
    /\ UNCHANGED <<conn, partial, senc>>

HandleRejected(f) ==
    /\ Decoded(f)
    /\ f.id # "none" /\ Rejects(state, [id |-> f.id, dir |-> "c2s"])
    /\ BeginClose(Recovered \o <<"frame_rejected", "protocol_rejected">>)
    /\ Return("protocol")
    /\ UNCHANGED senc

(* The reply goes out, or the stream of a worker fails to take it.         *)
HandleAccepted(f) ==
    LET m == [id |-> f.id, dir |-> "c2s"]
        reply == Replies(state, f.id, TRUE)
    IN  /\ Decoded(f)
        /\ f.id # "none" /\ ~Rejects(state, m) /\ ~PolicyRejects(state, f.id, unknown)
        /\ state' = CompleteEncryptedHandshake(StateAfter(state, m))
        /\ conn' = IF conn = "Reading" THEN "ProtocolActive" ELSE conn
        /\ log' = Append(Recovered, "protocol")
        /\ senc' = senc + Cardinality(reply \cap EncryptedReplies)
        /\ \/ /\ queue' = Tail(queue)
              /\ UNCHANGED <<step, result>>
           \/ /\ reply # {} /\ owner = "worker"
              /\ Return("io")
        /\ UNCHANGED partial

HandleFrame ==
    /\ step = "feeding" /\ queue # <<>>
    /\ LET f == Head(queue) IN
          HandleCryptoError(f) \/ HandleProtocolError(f) \/ HandleRejected(f) \/ HandleAccepted(f)
    /\ UNCHANGED <<owner, unknown, sink, peer, tampered, feeds>>

FeedReturns ==
    /\ step = "feeding" /\ queue = <<>>
    /\ Return("ok")
    /\ UNCHANGED <<owner, conn, state, unknown, sdec, senc, partial, log, sink, peer,
                   tampered, feeds>>

-----------------------------------------------------------------------------
(* Offline: close, begin_close and notify_eof whenever the owner likes,    *)
(* and the session's policy, a public field.                               *)

Close ==
    /\ owner = "offline" /\ step = "idle"
    /\ BeginClose(log)
    /\ UNCHANGED <<owner, unknown, sdec, senc, step, queue, result, sink, peer, tampered,
                   feeds>>

SetUnknownPolicy ==
    /\ owner = "offline" /\ step = "idle"
    /\ unknown' = "Reject"
    /\ UNCHANGED <<owner, conn, state, sdec, senc, partial, step, queue, result, log, sink,
                   peer, tampered, feeds>>

(* run_connection_worker: read returns no bytes, a timeout or an error.    *)
ReadEnds ==
    /\ owner = "worker" /\ step = "idle"
    /\ BeginClose(log)
    /\ step' = "flushing"
    /\ UNCHANGED <<owner, unknown, sdec, senc, queue, result, sink, peer, tampered, feeds>>

(* Mutant of HandleFailure: an open connection is read on.                 *)
HandleFailure_ReadsOn ==
    /\ step = "failing"
    /\ log' = Append(log, "error")
    /\ step' = "flushing"
    /\ UNCHANGED <<owner, conn, state, unknown, sdec, senc, partial, queue, result, sink,
                   peer, tampered, feeds>>

(* feed_bytes failed: ConnectionError is logged, even after the            *)
(* ConnectionClosed of the failure itself.                                 *)
HandleFailure ==
    /\ step = "failing"
    /\ BeginClose(Append(log, "error"))
    /\ step' = "flushing"
    /\ UNCHANGED <<owner, unknown, sdec, senc, queue, result, sink, peer, tampered, feeds>>

(* Mutant of FlushEvents: the worker leaves before its last flush.         *)
FlushEvents_NotLast ==
    /\ step = "flushing"
    /\ sink' = IF conn = "Closed" THEN sink ELSE Len(log)
    /\ step' = IF conn = "Closed" THEN "ended" ELSE "idle"
    /\ UNCHANGED <<owner, conn, state, unknown, sdec, senc, partial, queue, result, log,
                   peer, tampered, feeds>>

(* flush_events: the collector gets the events it does not have yet.       *)
FlushEvents ==
    /\ step = "flushing"
    /\ sink' = Len(log)
    /\ step' = IF conn = "Closed" THEN "ended" ELSE "idle"
    /\ UNCHANGED <<owner, conn, state, unknown, sdec, senc, partial, queue, result, log,
                   peer, tampered, feeds>>

-----------------------------------------------------------------------------

Feed == \E new \in UNION {[1..n -> Frames] : n \in 0..MaxChunk}, cut \in BOOLEAN :
            FeedBytes(new, cut)

Work == HandleFrame \/ FeedReturns \/ HandleFailure \/ FlushEvents

Next == Feed \/ Work \/ ReadEnds \/ Close \/ SetUnknownPolicy

Spec == Init /\ [][Next]_vars

(* A worker's read has a timeout, so it ends unless bytes keep coming; the *)
(* bound on feeds makes them stop.                                         *)
FairSpec == Spec /\ WF_vars(Work) /\ WF_vars(ReadEnds)

-----------------------------------------------------------------------------

TypeOK ==
    /\ owner \in {"worker", "offline"}
    /\ conn \in {"Accepted", "Reading", "ProtocolActive", "Closed"}
    /\ state \in States \ {"Connected", "WaitingForSessionLogin",
                           "WaitingForEncryptedHandshake", "Closing"}
    /\ unknown \in UnknownPolicies
    /\ sdec \in Nat /\ senc \in Nat /\ peer \in Nat /\ tampered \in BOOLEAN
    /\ partial \in Seq(Frames) /\ Len(partial) <= 1
    /\ step \in {"idle", "feeding", "failing", "flushing", "ended"}
    /\ queue \in Seq(Frames) /\ Len(queue) <= MaxFramesPerIter
    /\ result \in Results
    /\ log \in Seq(Events)
    /\ sink \in 0..Len(log)
    /\ feeds \in 0..MaxFeeds

Count(e) == Cardinality({i \in 1..Len(log) : log[i] = e})

(* The log tells the life of the connection: closing is logged once and    *)
(* when it happens, whoever closes and however often, and is the last      *)
(* event but for the worker's ConnectionError.  Each recovered frame has   *)
(* one verdict.                                                            *)
LogTellsTheLife ==
    /\ Count("closed") = IF conn = "Closed" THEN 1 ELSE 0
    /\ \A i \in 1..Len(log) - 1 : log[i] = "closed" => log[i + 1] = "error"
    /\ Count("recovered") = Count("protocol") + Count("frame_rejected")

(* The two lifecycles agree: the connection and its session are Closed     *)
(* together, and a session that left its first state belongs to an active  *)
(* connection.                                                             *)
LifecyclesAgree ==
    /\ conn = "Closed" <=> state = "Closed"
    /\ state # InitialState => conn \in {"ProtocolActive", "Closed"}

(* A peer whose frames all reach the worker unaltered never meets a crypto *)
(* error, however the frames are chunked: where feed_bytes drops the rest  *)
(* of a chunk, and with it frames that took a nonce of the peer's, the     *)
(* worker does not read on.                                                *)
PeerNeverBlamed == owner = "worker" /\ ~tampered => result # "crypto"

(* A worker ends, and not before its connection is closed and every event  *)
(* of it is in the collector.                                              *)
WorkerEndsReported ==
    /\ [](step = "ended" => conn = "Closed" /\ sink = Len(log))
    /\ (owner = "worker" ~> step = "ended")

(* external-client-boundary.md, error handling: "Framing / protocol /      *)
(* crypto / limit errors -> FrameRejected / ConnectionClosed".             *)
ErrorsClose ==
    step \in {"idle", "ended"} /\ result \in {"framing", "protocol", "crypto", "limit"}
        => conn = "Closed"
=============================================================================
