---------------------------- MODULE MCLocalServer ----------------------------
(* The server's connections from three sides: what its owner's calls do to *)
(* them, called again and again; what is refused of their streams for its  *)
(* size; and what a worker's trace tells of one.  A behaviour is of one of *)
(* the three; the others rest.                                             *)
EXTENDS Integers, Sequences, SequencesExt

CONSTANTS
    Clients,    \* of the server that is started again
    Self,       \* the connection shutdown makes to its own port
    MaxCalls,   \* calls of the owner
    Streams, ReadSizes, Header, MaxFrame, MaxBuffered, MaxFramesPerIter,
    MaxChunk,   \* frames of one read of the worker
    MaxReads    \* reads that return frames

ASSUME SelfIsNoClient == Self \notin Clients
ASSUME BoundsAssumption == MaxCalls \in Nat /\ MaxChunk \in Nat /\ MaxReads \in Nat
ASSUME LimitsAssumption ==
    /\ Header \in Nat \ {0} /\ MaxFrame \in Nat /\ MaxBuffered \in Nat /\ MaxFramesPerIter \in Nat
    /\ Header <= MaxFrame /\ MaxFrame <= MaxBuffered
    /\ ReadSizes \subseteq Nat

(* A stream has a frame, and every frame at least a header.                *)
ASSUME StreamsAssumption ==
    \A s \in Streams :
        /\ s \in Seq(Nat) /\ s # <<>>
        /\ \A i \in 1..Len(s) : s[i] >= Header
        /\ \A i, j \in 1..Len(s) : i < j => s[j] - s[i] >= Header

VARIABLES
    subject,    \* "restart", "ingress" or "trace"
    fixed, listener, bound, next_conn_id, stop, threads, accept_thread, call, calls, backlog, served,
    ends, chunk, fed, done, held, refused,
    state, closings, batch, trace, written, ended, reads

restartVars == <<fixed, listener, bound, next_conn_id, stop, threads, accept_thread, call, calls,
                 backlog, served>>
ingressVars == <<ends, chunk, fed, done, held, refused>>
traceVars == <<state, closings, batch, trace, written, ended, reads>>
vars == <<subject, restartVars, ingressVars, traceVars>>

Restart == INSTANCE ServerRestart
Ingress == INSTANCE IngressLimits
Worker == INSTANCE WorkerTrace

Init ==
    /\ subject \in {"restart", "ingress", "trace"}
    /\ Restart!Init /\ Ingress!Init /\ Worker!Init
    /\ subject # "restart" => fixed
    /\ subject # "ingress" =>
          ends = (CHOOSE s \in Streams : TRUE) /\ chunk = (CHOOSE n \in ReadSizes : TRUE)

Restarting(A) == subject = "restart" /\ A /\ UNCHANGED <<subject, ingressVars, traceVars>>
Feeding(A) == subject = "ingress" /\ A /\ UNCHANGED <<subject, restartVars, traceVars>>
Tracing(A) == subject = "trace" /\ A /\ UNCHANGED <<subject, restartVars, ingressVars>>

Next == Restarting(Restart!Next) \/ Feeding(Ingress!Next) \/ Tracing(Worker!Next)

(* Streams of up to four frames, legal and oversized.                      *)
MCStreams ==
    {[i \in 1..Len(s) |-> FoldSeq(+, 0, SubSeq(s, 1, i))] :
        s \in UNION {[1..n -> {2, 3, 5, 6}] : n \in 1..4}}

(* The fairness of the three specifications.                               *)
FairSpec ==
    /\ Init /\ [][Next]_vars
    /\ \A i \in 1..MaxCalls : WF_vars(Restarting(Restart!ThreadStep(i)))
    /\ WF_vars(Restarting(Restart!Join)) /\ WF_vars(Restarting(Restart!EndForever))
    /\ WF_vars(Feeding(Ingress!Next))

-----------------------------------------------------------------------------

(* The trace of a server tells its connections apart by id only while they *)
(* are numbered by one counter: no second start, and no serve_one after    *)
(* the first.  A second start either fails, because the port is fixed, or  *)
(* leaves a thread that shutdown does not wait for.  And as the stop flag  *)
(* is never cleared, a start after shutdown or request_stop succeeds and   *)
(* serves nobody; only serve_one still does.                               *)
SecondStart ==
    /\ Restart!TypeOK
    /\ Restart!IdsTellApart /\ Restart!OnePortOneThread /\ Restart!RestartServesNobody

(* However a stream is cut, it is refused for its size only if it is       *)
(* large; legal frames only with reads larger than the room the limit      *)
(* leaves beside the longest frame; and less than a frame is kept between  *)
(* two reads.                                                              *)
LimitsMeetTheLarge == Ingress!SmallStreamsPass /\ Ingress!RoomForReads /\ Ingress!LessThanAFrameHeld

(* The trace is all that is left of a connection.  It has the replies that *)
(* reached the stream, each behind the message it answers, and every move  *)
(* of the session but for the two that handle_connection does not look     *)
(* for.  It tells an end that the worker chose by one last event, and a    *)
(* reply that was not written by the message that has none; of a read that *)
(* failed it tells nothing, and only then may it be silent.                *)
TraceReliable == Worker!RepliesTraced /\ Worker!EndTold /\ Worker!MovesTraced

(* Once the stop flag is set every accept thread ends, also those whose    *)
(* handle was dropped, and shutdown returns; and every stream is handed    *)
(* over as a whole or refused.                                             *)
EverythingEnds == Restart!StopEnds /\ (subject = "ingress" => Ingress!StreamEnds)
=============================================================================
