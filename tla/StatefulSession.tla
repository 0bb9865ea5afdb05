-------------------------- MODULE StatefulSession --------------------------
(***************************************************************************)
(* One StatefulBapSession, driven by every sequence of the operations its  *)
(* owners (local_server, external_client_boundary, the tests) call:        *)
(* handle_decoded_frame with messages in any order and either direction,   *)
(* set_unknown_policy, begin_close and finish_close.                       *)
(*                                                                         *)
(* The event log is kept as its three projections: the states entered, the *)
(* replies announced and the SessionClosed events.  MaxCalls bounds the    *)
(* calls of a behaviour.                                                   *)
(***************************************************************************)
EXTENDS ProtocolState, Sequences

CONSTANT MaxCalls

ASSUME MaxCallsAssumption == MaxCalls \in Nat

VARIABLES
    state,              \* protocol_state
    unknown,            \* policy.unknown
    keepalive_reply,    \* policy.keepalive_reply
    seen,               \* flags of the dispatcher's observation state
    result,             \* how the last call returned, if it was handle_*
    entered,            \* targets of the StateTransition events
    replies,            \* ids of the ResponseSent events
    closings,           \* SessionClosed events
    calls               \* operations so far (bound)

vars == <<state, unknown, keepalive_reply, seen, result, entered, replies,
          closings, calls>>

Flags == {"startup", "login", "encrypted", "nat", "keepalive"}

Results == {"none", "invalid", "rejected", "advanced", "observed", "refused"}

Init ==
    /\ state = InitialState
    /\ unknown = "Observe"
    /\ keepalive_reply \in BOOLEAN
    /\ seen = {}
    /\ result = "none"
    /\ entered = <<InitialState>>
    /\ replies = <<>>
    /\ closings = 0
    /\ calls = 0

Call ==
    /\ calls < MaxCalls
    /\ calls' = calls + 1

(* Mutant of Entering: set_state without its comparison.                   *)
Entering_Always(path, s) == Append(path, s)

(* set_state logs a transition only when the state changes.                *)
Entering(path, s) == IF s = path[Len(path)] THEN path ELSE Append(path, s)

(* note_known, for the ids the codec knows.                                *)
FlagsOf(id) ==
    (IF id \in {"x1E", "x1F", "x19", "x1A", "x79", "x7A"} THEN {"startup"} ELSE {})
    \cup (IF id = "x1A" THEN {"login"} ELSE {})
    \cup (IF id \in {"x79", "x7A"} THEN {"encrypted"} ELSE {})
    \cup (IF id \in {"x12E", "x12F"} THEN {"nat"} ELSE {})
    \cup (IF id \in {"xFA", "xFB"} THEN {"keepalive"} ELSE {})

(* Mutant of Dispatch: a message that is answered is not dispatched.       *)
Dispatch_UnlessAnswered(m) ==
    seen' = IF Replies(state, m.id, keepalive_reply) = {} THEN seen \cup FlagsOf(m.id)
            ELSE seen

Dispatch(m) == seen' = seen \cup FlagsOf(m.id)

(* decode_from_frame fails, for a decrypted plaintext too short to hold an *)
(* id and a context: nothing is logged, nothing is dispatched.             *)
HandleUndecodable ==
    /\ Call
    /\ result' = "invalid"
    /\ UNCHANGED <<state, unknown, keepalive_reply, seen, entered, replies, closings>>

(* A rejected message is dispatched for observation, and that is all.      *)
HandleRejected(m) ==
    /\ Call
    /\ Rejects(state, m)
    /\ result' = "rejected"
    /\ Dispatch(m)
    /\ UNCHANGED <<state, unknown, keepalive_reply, entered, replies, closings>>

(* An accepted message moves the state, twice in one call for 0x79, and    *)
(* only then is the policy's refusal looked at.  The reply is logged here, *)
(* before the caller writes it.                                            *)
HandleAccepted(m) ==
    /\ Call
    /\ ~Rejects(state, m)
    /\ LET passed == Entering(entered, StateAfter(state, m))
           arrived == IF state = "SessionEstablished" /\ m.id = "x79"
                      THEN CompleteEncryptedHandshake(StateAfter(state, m))
                      ELSE StateAfter(state, m)
       IN  /\ state' = arrived
           /\ entered' = Entering(passed, arrived)
    /\ \/ /\ PolicyRejects(state, m.id, unknown)
          /\ result' = "refused"
          /\ UNCHANGED <<seen, replies>>
       \/ /\ ~PolicyRejects(state, m.id, unknown)
          /\ result' = IF Advances(state, m) THEN "advanced" ELSE "observed"
          /\ Dispatch(m)
          /\ \/ /\ Replies(state, m.id, keepalive_reply) = {}
                /\ UNCHANGED replies
             \/ \E r \in Replies(state, m.id, keepalive_reply) :
                   replies' = Append(replies, r)
    /\ UNCHANGED <<unknown, keepalive_reply, closings>>

Handle(m) == HandleRejected(m) \/ HandleAccepted(m)

SetUnknownPolicy(p) ==
    /\ Call
    /\ unknown' = p
    /\ result' = "none"
    /\ UNCHANGED <<state, keepalive_reply, seen, entered, replies, closings>>

BeginClose ==
    /\ Call
    /\ state' = BeginClosing(state)
    /\ entered' = Entering(entered, BeginClosing(state))
    /\ result' = "none"
    /\ UNCHANGED <<unknown, keepalive_reply, seen, replies, closings>>

(* finish_close logs SessionClosed whether or not the state changes.       *)
FinishClose ==
    /\ Call
    /\ state' = "Closed"
    /\ entered' = Entering(entered, "Closed")
    /\ closings' = closings + 1
    /\ result' = "none"
    /\ UNCHANGED <<unknown, keepalive_reply, seen, replies>>

Next == \/ \E m \in Messages : Handle(m)
        \/ HandleUndecodable
        \/ \E p \in UnknownPolicies : SetUnknownPolicy(p)
        \/ BeginClose
        \/ FinishClose

Spec == Init /\ [][Next]_vars

-----------------------------------------------------------------------------

TypeOK ==
    /\ state \in States \ {"Connected", "WaitingForSessionLogin",
                           "WaitingForEncryptedHandshake"}
    /\ unknown \in UnknownPolicies
    /\ keepalive_reply \in BOOLEAN
    /\ seen \subseteq Flags
    /\ result \in Results
    /\ entered \in Seq(States)
    /\ replies \in Seq(ChatReplies \cup {"x1F", "x1A", "x7A"})
    /\ closings \in 0..calls
    /\ calls \in 0..MaxCalls

(* The stages of the reply protocol a state stands for.                    *)
Stage == IF state = "WaitingForServiceHandshake" THEN 0
         ELSE IF state = "ServiceHandshakeComplete" THEN 1
         ELSE IF state = "SessionEstablished" THEN 2
         ELSE IF state \in ReadyStates THEN 3
         ELSE 4

Order == INSTANCE HandshakeOrder WITH stage <- Stage

(* Whatever arrives, in whatever order and direction, 0x1F, 0x1A and 0x7A  *)
(* are announced in this order and once each, chat replies only after      *)
(* them, and nothing after closing began: transition() and decide(), two   *)
(* tables kept apart, agree.                                               *)
RepliesInOrder == Order!Spec

(* <<from, to>>: the changes the state diagram of stateful-server.md has,  *)
(* with closing possible from everywhere.                                  *)
DocumentedChange(s, t) ==
    \/ <<s, t>> \in {<<"WaitingForServiceHandshake", "ServiceHandshakeComplete">>,
                     <<"ServiceHandshakeComplete", "SessionEstablished">>,
                     <<"SessionEstablished", "WaitingForEncryptedHandshake">>,
                     <<"WaitingForEncryptedHandshake", "EncryptedChannelEstablished">>,
                     <<"EncryptedChannelEstablished", "Active">>}
    \/ t \in ClosingStates /\ s # "Closed"

(* The StateTransition events form one path through the documented         *)
(* diagram, which ends in the current state: no change goes unlogged, none *)
(* is logged twice, none skips a state, and the path never leaves Closed.  *)
LogIsAPath ==
    /\ entered # <<>> /\ entered[Len(entered)] = state
    /\ \A k \in 1..Len(entered) - 1 : DocumentedChange(entered[k], entered[k + 1])

(* The dispatcher's flags keep up with the session: a session that left    *)
(* its first state for good has shown the dispatcher startup traffic, an   *)
(* established channel an encrypted handshake.  (An undecodable or refused *)
(* message is not dispatched, a rejected one is.)                          *)
DispatcherKeepsUp ==
    \A k \in 1..Len(entered) :
        /\ entered[k] \notin ClosingStates \cup {InitialState} => "startup" \in seen
        /\ entered[k] \in ReadyStates => "encrypted" \in seen

(* The comment on apply_transition, "Apply an Advanced transition; no-op   *)
(* for Observed": a message that is only observed leaves the state alone.  *)
ObservedIsNoOp ==
    [][calls' # calls /\ result' = "observed" => state' = state]_vars
=============================================================================
