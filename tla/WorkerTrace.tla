----------------------------- MODULE WorkerTrace -----------------------------
(***************************************************************************)
(* What handle_connection of the local server pushes to the trace, event   *)
(* by event, beside what it does.  The session ends with the worker, so    *)
(* the trace is all that is left of a connection: local_server_verify      *)
(* prints it and the tests look for events in it.                          *)
(*                                                                         *)
(* LocalSession has the same worker with its client and without the trace. *)
(***************************************************************************)
EXTENDS ProtocolState, Sequences, FiniteSets

CONSTANTS
    MaxChunk,       \* bound on the frames of one read
    MaxReads        \* bound on the reads that return frames

(* A frame is whole, does not decrypt, is too short for its fixed part,    *)
(* has a plaintext too short for an id, or a header the decoder refuses.   *)
Frames == {[id |-> i, body |-> "whole"] : i \in {"x1E", "x19", "x79", "xFA", "xSYN_A", "other"}}
          \cup {[id |-> "none", body |-> b] : b \in {"tampered", "malformed", "short", "refused"}}

Unexplained == {"GCM DECRYPT FAILURE", "AUTH/CRYPTO ERROR"}

EndEvents == Unexplained \cup {"EOF", "TIMEOUT", "PROTOCOL_ERROR", "InvalidMessage", "UNEXPECTED_MESSAGE"}

VARIABLES
    state,      \* protocol_state
    closings,   \* SessionClosed events of the session's own log
    batch,      \* frames of the last read not yet processed
    trace,
    written,    \* ids of the replies that reached the stream
    ended,      \* "no", "break", "error", or what failed of the stream, "read" or "write"
    reads       \* reads that returned frames (bound)

vars == <<state, closings, batch, trace, written, ended, reads>>

Event(action, id, s) == [action |-> action, id |-> id, state |-> s]

Init ==
    /\ state = InitialState /\ closings = 0
    /\ batch = <<>>
    /\ trace = <<Event("ACCEPT", "none", InitialState)>>
    /\ written = <<>>
    /\ ended = "no"
    /\ reads = 0

(* An early return: the event, and the session stays as it is.             *)
ReturnError(events) ==
    /\ trace' = events
    /\ ended' = "error"
    /\ batch' = <<>>
    /\ UNCHANGED <<state, closings, written>>

Reading == ended = "no" /\ batch = <<>>

(* The frames a push completed are lost when it meets a bad header.        *)
Read(new) ==
    /\ Reading
    /\ reads < MaxReads
    /\ reads' = reads + 1
    /\ \/ /\ \E i \in 1..Len(new) : new[i].body = "refused"
          /\ ReturnError(Append(trace, Event("PROTOCOL_ERROR", "none", state)))
       \/ /\ \A i \in 1..Len(new) : new[i].body # "refused"
          /\ batch' = new
          /\ UNCHANGED <<state, closings, trace, written, ended>>

(* At the end of the stream the session is closed before the event, and    *)
(* once more behind the loop.                                              *)
ReadEof ==
    /\ Reading
    /\ state' = "Closed"
    /\ closings' = closings + 2
    /\ trace' = Append(trace, Event("EOF", "none", "Closed"))
    /\ ended' = "break"
    /\ UNCHANGED <<batch, written, reads>>

(* After a timeout it is closed behind the loop only.                      *)
ReadTimeout ==
    /\ Reading
    /\ state' = "Closed"
    /\ closings' = closings + 1
    /\ trace' = Append(trace, Event("TIMEOUT", "none", state))
    /\ ended' = "break"
    /\ UNCHANGED <<batch, written, reads>>

(* Another error of read returns without an event.                         *)
ReadFails ==
    /\ Reading
    /\ ended' = "read"
    /\ UNCHANGED <<state, closings, batch, trace, written, reads>>

Undecoded(f) ==
    /\ f.body \in {"tampered", "malformed"}
    /\ ReturnError(Append(trace, Event(IF f.body = "tampered" THEN "GCM DECRYPT FAILURE"
                                       ELSE "AUTH/CRYPTO ERROR", "none", state)))

Message(f) == [id |-> f.id, dir |-> "c2s"]

(* Mutant of Received: the event is pushed once the message is handled.    *)
Received_Late(f) == Append(trace, Event("RECV", f.id, StateAfter(state, Message(f))))

Received(f) == Append(trace, Event("RECV", f.id, state))

NotHandled(f) ==
    \/ f.body = "short" /\ ReturnError(Append(Received(f), Event("InvalidMessage", f.id, state)))
    \/ /\ f.body = "whole" /\ Rejects(state, Message(f))
       /\ ReturnError(Append(Received(f), Event("UNEXPECTED_MESSAGE", f.id, state)))

(* ChangeState comes from the transition: an observed message has none,    *)
(* and 0x79 the first of its two.                                          *)
Moved(f) ==
    IF Advances(state, Message(f))
    THEN Append(Received(f), Event("ChangeState", state, StateAfter(state, Message(f))))
    ELSE Received(f)

(* An error of write_all, or of encode_encrypted before it, returns        *)
(* without an event too.                                                   *)
Send(r, after, events) ==
    \/ /\ written' = Append(written, r)
       /\ trace' = Append(events, Event("SendFrame", r, after))
       /\ batch' = Tail(batch)
       /\ UNCHANGED ended
    \/ /\ trace' = events
       /\ ended' = "write"
       /\ batch' = <<>>
       /\ UNCHANGED written

Handled(f) ==
    /\ f.body = "whole" /\ ~Rejects(state, Message(f))
    /\ state' = CompleteEncryptedHandshake(StateAfter(state, Message(f)))
    /\ \/ /\ Replies(state, f.id, TRUE) = {}
          /\ trace' = Moved(f)
          /\ batch' = Tail(batch)
          /\ UNCHANGED <<written, ended>>
       \/ \E r \in Replies(state, f.id, TRUE) : Send(r, state', Moved(f))
    /\ UNCHANGED closings

HandleFrame ==
    /\ ended = "no" /\ batch # <<>>
    /\ LET f == Head(batch) IN Undecoded(f) \/ NotHandled(f) \/ Handled(f)
    /\ UNCHANGED reads

Next ==
    \/ \E new \in UNION {[1..n -> Frames] : n \in 0..MaxChunk} : Read(new)
    \/ ReadEof \/ ReadTimeout \/ ReadFails
    \/ HandleFrame

Spec == Init /\ [][Next]_vars

-----------------------------------------------------------------------------

Before(i) == trace[i - 1]

(* The replies among the first i events.                                   *)
SentBy(i) == {k \in 1..i : trace[k].action = "SendFrame"}

(* The trace has the replies that reached the stream, in their order, and  *)
(* no other, each right after the message it answers or the change that    *)
(* message made, whichever way the worker ends.                            *)
RepliesTraced ==
    /\ Len(written) = Cardinality(SentBy(Len(trace)))
    /\ \A i \in SentBy(Len(trace)) :
          LET request == IF Before(i).action = "ChangeState" THEN i - 2 ELSE i - 1
          IN  /\ trace[i].id = written[Cardinality(SentBy(i))]
              /\ trace[request].action = "RECV"
              /\ trace[i].id \in Replies(trace[request].state, trace[request].id, TRUE)

(* The messages the policy answers, by the state they met: the reply comes *)
(* next, or after the change the message made.                             *)
Asks(i) == trace[i].action = "RECV" /\ Replies(trace[i].state, trace[i].id, TRUE) # {}

ReplyAt(i) == IF i < Len(trace) /\ trace[i + 1].action = "ChangeState" THEN i + 2 ELSE i + 1

Unanswered(i) == Asks(i) /\ ~(ReplyAt(i) <= Len(trace) /\ trace[ReplyAt(i)].action = "SendFrame")

(* What the trace tells of the worker's end, and what it cannot.  A worker *)
(* that breaks or refuses says so in its last event, and only there.  One  *)
(* whose reply is not written leaves that message as the only one without  *)
(* its reply, and nothing but the change it made behind it.  One whose     *)
(* read fails leaves neither: its trace is that of a connection which is   *)
(* still served.  A state of Closed is seen at the end of the stream only: *)
(* an error leaves the session open and a timeout closes it too late.      *)
EndTold ==
    /\ \A i \in 1..Len(trace) : trace[i].action \in EndEvents => i = Len(trace)
    /\ ended \in {"break", "error"} <=> trace[Len(trace)].action \in EndEvents
    /\ ended = "write" <=> \E i \in 1..Len(trace) : Unanswered(i)
    /\ \A i \in 1..Len(trace) : Unanswered(i) => ReplyAt(i) > Len(trace)
    /\ \A i \in 1..Len(trace) : trace[i].state = "Closed" <=> trace[i].action = "EOF"
    /\ closings > 0 <=> ended = "break"

(* The second move of 0x79, and that to Active by a message that is only   *)
(* observed.                                                               *)
UntracedMoves == {<<"WaitingForEncryptedHandshake", "EncryptedChannelEstablished">>,
                  <<"EncryptedChannelEstablished", "Active">>}

(* The event tells the state: the one a message met, or the next.          *)
TellsState(i) == trace[i].action \in {"RECV", "ChangeState"}

(* Two moves of a session are missing in its trace.  Any other way from    *)
(* the state one message met to the state of the next has its ChangeState, *)
(* and a ChangeState starts where its message found the session.           *)
MovesTraced ==
    /\ \A i \in 1..Len(trace) : trace[i].action = "ChangeState" =>
          /\ Before(i).action = "RECV"
          /\ Before(i).state = trace[i].id /\ trace[i].id # trace[i].state
    /\ \A i, j \in 1..Len(trace) :
          /\ i < j /\ TellsState(i) /\ TellsState(j)
          /\ \A k \in i + 1..j - 1 : ~TellsState(k)
          => \/ trace[j].state = trace[i].state
             \/ trace[j].action = "ChangeState"
             \/ <<trace[i].state, trace[j].state>> \in UntracedMoves
=============================================================================
