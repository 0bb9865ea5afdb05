--------------------------- MODULE OfflinePipeline ---------------------------
(***************************************************************************)
(* One BapOfflinePipeline fed several sources, each a stretch of the byte  *)
(* stream of one recorded session.  The decoder and the nonce counters     *)
(* live as long as the pipeline: what a source leaves unfinished meets the *)
(* bytes of the next one.                                                  *)
(*                                                                         *)
(* Bytes are abstracted to their places in the stream, two to a header, so *)
(* that a source may end inside it.  A frame is cut out by the length its  *)
(* first byte announces; it decrypts if it is the frame of the session     *)
(* that begins there, byte for byte, under the nonce of its number.        *)
(***************************************************************************)
EXTENDS Integers, Sequences

CONSTANTS
    Session,    \* frames of the recorded session, end to end
    MaxCalls

Directions == {"c2s", "s2c"}

HeaderPieces == 2

(* The sessions that can be recorded: each frame has a header and a body,  *)
(* and begins where the one before it ended.                               *)
Sessions ==
    {s \in Seq([dir : Directions, enc : BOOLEAN, n : Nat, start : Nat, end : Nat]) :
        \A f \in 1..Len(s) :
            /\ s[f].end > s[f].start + HeaderPieces
            /\ s[f].start = IF f = 1 THEN 0 ELSE s[f - 1].end}

StreamLen == IF Session = <<>> THEN 0 ELSE Session[Len(Session)].end

Stretch(from, to) == [k \in 1..to - from + 1 |-> from + k - 1]

FrameOf(k) == CHOOSE f \in 1..Len(Session) : Session[f].start < k /\ k <= Session[f].end

PiecesOf(f) == Stretch(Session[f].start + 1, Session[f].end)

VARIABLES
    buf,        \* BapStreamDecoder.buf
    counters,
    raws,       \* frames collected by the call that is running ...
    dirs,       \* ... the directions it was given ...
    directed,   \* ... and whether they are a list with one for each frame
    calls       \* history: what each call was fed and returned; the last may be running

vars == <<buf, counters, raws, dirs, directed, calls>>

Init == /\ buf = <<>>
        /\ counters = [d \in Directions |-> 0]
        /\ raws = <<>> /\ dirs = <<>> /\ directed = FALSE
        /\ calls = <<>>

Current == calls[Len(calls)]

Collecting == calls # <<>> /\ Current.result = "collecting"
Decoding == calls # <<>> /\ Current.result = "decoding"

-----------------------------------------------------------------------------

(* Bytes that begin no frame are refused where a header should be; that by *)
(* chance they read as one is left out.                                    *)
IsHeader(b) ==
    /\ \E f \in 1..Len(Session) : b[1] = Session[f].start + 1
    /\ b[2] = b[1] + 1

Total(b) == Session[FrameOf(b[1])].end - Session[FrameOf(b[1])].start

Refuses(b) == Len(b) >= HeaderPieces /\ ~IsHeader(b)

Holds(b) == Len(b) >= HeaderPieces /\ IsHeader(b) /\ Len(b) >= Total(b)

(* Every byte is of the frame the header announced.                        *)
Genuine(raw) == raw = PiecesOf(FrameOf(raw[1]))

(* The directions the caller gives: those of the frames that end in the    *)
(* stretch, as a capture file lists them, or of those that begin in it.    *)
DirectionLists(from, to) ==
    LET frames == [f \in 1..Len(Session) |-> f]
        ends == SelectSeq(frames, LAMBDA f : Session[f].end \in from..to)
        begins == SelectSeq(frames, LAMBDA f : Session[f].start + 1 \in from..to)
        directions(fs) == [i \in 1..Len(fs) |-> Session[fs[i]].dir]
    IN  {directions(ends), directions(begins)}

(* collect_raw_frames is called with the bytes from one place to another.  *)
Run(from, to, list, directions) ==
    /\ ~Collecting /\ ~Decoding
    /\ Len(calls) < MaxCalls
    /\ calls' = Append(calls, [from |-> from, to |-> to, rest |-> buf,
                               result |-> "collecting", frames |-> <<>>])
    /\ buf' = buf \o Stretch(from, to)
    /\ dirs' = directions /\ directed' = list
    /\ UNCHANGED <<counters, raws>>

RunDirected(from, to) ==
    \E directions \in DirectionLists(from, to) : Run(from, to, TRUE, directions)

RunUnidirectional(from, to) ==
    \E d \in Directions : Run(from, to, FALSE, [k \in 1..StreamLen |-> d])

Mismatch == directed /\ Len(raws) # Len(dirs)

(* drain_complete: a whole frame at the front leaves the buffer.           *)
DrainFrame ==
    /\ Collecting /\ Holds(buf)
    /\ raws' = Append(raws, SubSeq(buf, 1, Total(buf)))
    /\ buf' = SubSeq(buf, Total(buf) + 1, Len(buf))
    /\ UNCHANGED <<counters, dirs, directed, calls>>

Proceed(result, frames) ==
    calls' = [calls EXCEPT ![Len(calls)] = [@ EXCEPT !.result = result, !.frames = frames]]

Return(result, frames) ==
    Proceed(result, frames) /\ raws' = <<>> /\ dirs' = <<>> /\ directed' = FALSE

(* Mutant of Collected: finish is not called.                              *)
Collected_NoFinish ==
    /\ Collecting /\ ~Holds(buf)
    /\ \/ Refuses(buf) /\ Return("refused", <<>>)
       \/ ~Refuses(buf) /\ Mismatch /\ Return("mismatch", <<>>)
       \/ ~Refuses(buf) /\ ~Mismatch /\ Proceed("decoding", <<>>)
                                      /\ UNCHANGED <<raws, dirs, directed>>
    /\ UNCHANGED <<buf, counters>>

(* The source is drained: an error of the framing or the source's end in   *)
(* the middle of a frame lose the frames collected; then their number is   *)
(* compared with the directions, where there is a list of them.            *)
Collected ==
    /\ Collecting /\ ~Holds(buf)
    /\ \/ Refuses(buf) /\ Return("refused", <<>>)
       \/ ~Refuses(buf) /\ buf # <<>> /\ Return("incomplete", <<>>)
       \/ buf = <<>> /\ Mismatch /\ Return("mismatch", <<>>)
       \/ buf = <<>> /\ ~Mismatch /\ Proceed("decoding", <<>>)
                     /\ UNCHANGED <<raws, dirs, directed>>
    /\ UNCHANGED <<buf, counters>>

Opens(raw, dir) ==
    LET f == Session[FrameOf(raw[1])] IN Genuine(raw) /\ f.dir = dir /\ f.n = counters[dir]

(* decode_raw: a clear frame is taken as it is, an encrypted one takes a   *)
(* nonce of the direction it is said to have; an error loses the frames    *)
(* already decoded but not the nonces they took.                           *)
DecodeRaw ==
    LET i == Len(Current.frames) + 1
        encrypted == Session[FrameOf(raws[i][1])].enc
        taken == Append(Current.frames, raws[i])
    IN  /\ Decoding /\ i <= Len(raws)
        /\ counters' = IF encrypted THEN [counters EXCEPT ![dirs[i]] = @ + 1] ELSE counters
        /\ \/ encrypted /\ ~Opens(raws[i], dirs[i]) /\ Return("decrypt_failed", <<>>)
           \/ (encrypted => Opens(raws[i], dirs[i])) /\ Proceed("decoding", taken)
                                                     /\ UNCHANGED <<raws, dirs, directed>>
        /\ UNCHANGED buf

Decoded ==
    /\ Decoding /\ Len(Current.frames) = Len(raws)
    /\ Return("ok", Current.frames)
    /\ UNCHANGED <<buf, counters>>

(* A source begins with a frame, or where the last one ended.              *)
Beginnings ==
    {Session[f].start + 1 : f \in 1..Len(Session)}
    \cup ({calls[i].to + 1 : i \in DOMAIN calls \cap {Len(calls)}} \cap 1..StreamLen)

Next ==
    \/ \E from \in Beginnings : \E to \in from..StreamLen :
          RunDirected(from, to) \/ RunUnidirectional(from, to)
    \/ DrainFrame \/ Collected \/ DecodeRaw \/ Decoded

Spec == Init /\ [][Next]_vars

-----------------------------------------------------------------------------

(* The buffer holds bytes of the stream, and a call that fails returns no  *)
(* frame.                                                                  *)
TypeOK ==
    /\ counters \in [Directions -> Nat]
    /\ buf \in Seq(1..StreamLen)
    /\ raws \in Seq(Seq(1..StreamLen) \ {<<>>})
    /\ \A i \in 1..Len(calls) :
        /\ 1 <= calls[i].from /\ calls[i].from <= calls[i].to /\ calls[i].to <= StreamLen
        /\ calls[i].result \in {"ok", "decoding"} \/ calls[i].frames = <<>>

Ok(i) == calls[i].result = "ok"

(* The last frame that the call i was fed to the end of.                   *)
LastFrame(i) == IF i = 0 THEN 0 ELSE FrameOf(calls[i].to)

(* Sources that continue one another, wherever they are cut, give the      *)
(* frames of the whole stretch as one source would, if every call returned *)
(* ok: none lost at a seam, none twice.                                    *)
SeamsLoseNothing ==
    (\A i \in 1..Len(calls) :
        Ok(i) /\ calls[i].from = IF i = 1 THEN 1 ELSE calls[i - 1].to + 1)
    => \A i \in 1..Len(calls) :
        calls[i].frames = [k \in 1..LastFrame(i) - LastFrame(i - 1) |->
                              PiecesOf(LastFrame(i - 1) + k)]

SessionFrame(i, k) == Session[FrameOf(calls[i].frames[k][1])]

(* No source makes an encrypted frame decode a second time, and those of a *)
(* direction come in their order.                                          *)
NoReplay ==
    \A i, j \in 1..Len(calls) :
        \A k \in 1..Len(calls[i].frames), l \in 1..Len(calls[j].frames) :
            /\ i < j \/ (i = j /\ k < l)
            /\ SessionFrame(i, k).enc /\ SessionFrame(j, l).enc
            /\ SessionFrame(i, k).dir = SessionFrame(j, l).dir
            => SessionFrame(i, k).n < SessionFrame(j, l).n

Continues(rest, from) ==
    from = rest[Len(rest)] + 1 /\ FrameOf(from) = FrameOf(rest[Len(rest)])

(* The rest of a source that ended inside a frame never goes unnoticed:    *)
(* when the next source does not go on where it stopped, the call fails,   *)
(* or returns as its first frame a clear one put together of both.         *)
RestSurfaces ==
    \A i \in 1..Len(calls) :
        Ok(i) /\ calls[i].rest # <<>> /\ ~Continues(calls[i].rest, calls[i].from)
        => /\ calls[i].frames # <<>>
           /\ ~Genuine(calls[i].frames[1])
           /\ ~SessionFrame(i, 1).enc

(* The bytes that were refused stay in front, so that a pipeline that has  *)
(* refused a source refuses every one after it.                            *)
RefusalIsFinal ==
    \A i \in 1..Len(calls) : \A j \in i..Len(calls) :
        calls[i].result = "refused" => calls[j].result \in {"refused", "collecting"}
=============================================================================
