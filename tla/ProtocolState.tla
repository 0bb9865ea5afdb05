--------------------------- MODULE ProtocolState ---------------------------
(***************************************************************************)
(* The server's per-connection decisions, as operators on values: what     *)
(* transition() does to the ProtocolState for a message, and which reply   *)
(* ResponsePolicy::decide() picks.  StatefulSession, LocalSession and      *)
(* ExternalBoundary run their sessions with them.                          *)
(*                                                                         *)
(* A message is its id and the direction it is handled with.  "other"      *)
(* stands for every id the codec does not know, "xSYN_A" for the two ids   *)
(* the policy answers though the codec does not know them.                 *)
(***************************************************************************)
EXTENDS Integers

States == {"Connected", "WaitingForServiceHandshake", "ServiceHandshakeComplete",
           "WaitingForSessionLogin", "SessionEstablished",
           "WaitingForEncryptedHandshake", "EncryptedChannelEstablished",
           "Active", "Closing", "Closed"}

ReadyStates == {"EncryptedChannelEstablished", "Active"}

ClosingStates == {"Closing", "Closed"}

C2SIds == {"x1E", "x19", "x79", "x12E", "xFA", "x0A"}

S2CIds == {"x1F", "x1A", "x7A", "x12F", "xFB", "x0B"}

(* The ids decode_message has a variant for.                               *)
KnownIds == {"x1E", "x1F", "x19", "x1A", "x79", "x7A", "x12E", "x12F", "xFA", "xFB"}

(* is_sequenced_id lists the same ids.                                     *)
SequencedIds == KnownIds

(* Ids the codec does not know: x0A stands for 0x0A and 0x0C, x0B for 0x0B *)
(* and 0x0D, xSYN_A for the two synthetic requests that are answered, and  *)
(* other for the rest.                                                     *)
Ids == KnownIds \cup {"x0A", "x0B", "xSYN_A", "other"}

Directions == {"c2s", "s2c"}

(* decode_message gives every id a message: a 0x1A whose record does not   *)
(* decode keeps its raw payload.                                           *)
Messages == [id : Ids, dir : Directions]

UnknownPolicies == {"Observe", "Reject"}

-----------------------------------------------------------------------------
(* transition()                                                            *)

WrongDirection(m) == \/ m.id \in C2SIds /\ m.dir # "c2s"
                     \/ m.id \in S2CIds /\ m.dir # "s2c"

(* Mutant of HandshakeSteps: a second 0x1E starts the handshake over.      *)
HandshakeSteps_Restart == {
    <<"WaitingForServiceHandshake", "x1E", "ServiceHandshakeComplete">>,
    <<"ServiceHandshakeComplete", "x19", "SessionEstablished">>,
    <<"SessionEstablished", "x1E", "ServiceHandshakeComplete">>,
    <<"SessionEstablished", "x79", "WaitingForEncryptedHandshake">>}

(* <<state, id, next>>: the handshake messages a state waits for.          *)
HandshakeSteps == {
    <<"WaitingForServiceHandshake", "x1E", "ServiceHandshakeComplete">>,
    <<"ServiceHandshakeComplete", "x19", "SessionEstablished">>,
    <<"WaitingForSessionLogin", "x19", "SessionEstablished">>,
    <<"SessionEstablished", "x79", "WaitingForEncryptedHandshake">>}

Awaits(s, id) == \E t \in States : <<s, id, t>> \in HandshakeSteps

Rejects(s, m) ==
    \/ s \in ClosingStates \cup {"Connected"}
    \/ WrongDirection(m)
    \/ /\ s \notin ReadyStates
       /\ m.id \in SequencedIds
       /\ ~Awaits(s, m.id)

(* The ids that take an established channel to Active by Advanced; any     *)
(* other id takes it there by Observed.                                    *)
ActivatingIds == {"x12E", "x12F", "xFA", "xFB", "x0A", "x0B"}

Advances(s, m) ==
    /\ ~Rejects(s, m)
    /\ \/ Awaits(s, m.id)
       \/ s = "EncryptedChannelEstablished" /\ m.id \in ActivatingIds

(* The state apply_transition returns for a message that is not rejected.  *)
StateAfter(s, m) ==
    IF s \in ReadyStates THEN "Active"
    ELSE IF Awaits(s, m.id) THEN CHOOSE t \in States : <<s, m.id, t>> \in HandshakeSteps
    ELSE s

-----------------------------------------------------------------------------
(* The free functions beside transition().                                 *)

(* begin_waiting_for_handshake on a new session.                           *)
InitialState == "WaitingForServiceHandshake"

(* complete_encrypted_handshake; its error is not reachable from           *)
(* handle_message, which calls it right after the step to                  *)
(* WaitingForEncryptedHandshake.                                           *)
CompleteEncryptedHandshake(s) ==
    IF s = "WaitingForEncryptedHandshake" THEN "EncryptedChannelEstablished" ELSE s

BeginClosing(s) == IF s = "Closed" THEN "Closed" ELSE "Closing"

-----------------------------------------------------------------------------
(* ResponsePolicy::decide()                                                *)

HandshakeReplies == <<"x1F", "x1A", "x7A">>

ChatReplies == {"xFB", "xSYN_RSP"}

EncryptedReplies == {"x7A", "xSYN_RSP"}

(* <<state, id, reply>>: the replies that depend on no option.             *)
ReplySteps == {
    <<"WaitingForServiceHandshake", "x1E", "x1F">>,
    <<"ServiceHandshakeComplete", "x19", "x1A">>,
    <<"WaitingForSessionLogin", "x19", "x1A">>,
    <<"SessionEstablished", "x79", "x7A">>,
    <<"EncryptedChannelEstablished", "xSYN_A", "xSYN_RSP">>,
    <<"Active", "xSYN_A", "xSYN_RSP">>}

(* What is sent back, if anything, when message id meets state s.  The     *)
(* direction of the message is not looked at.                              *)
Replies(s, id, keepalive_reply) ==
    {r \in ChatReplies \cup {"x1F", "x1A", "x7A"} : <<s, id, r>> \in ReplySteps}
        \cup {r \in {"xFB"} : s \in ReadyStates /\ id = "xFA" /\ keepalive_reply}

(* The policy turns a message down only once the channel is established,   *)
(* and only a message that neither it nor the codec knows.                 *)
PolicyRejects(s, id, unknown) ==
    /\ unknown = "Reject"
    /\ s \in ReadyStates
    /\ id \notin KnownIds \cup {"xSYN_A"}
=============================================================================
