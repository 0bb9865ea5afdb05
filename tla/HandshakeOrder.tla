--------------------------- MODULE HandshakeOrder ---------------------------
(***************************************************************************)
(* What the server side of a BAP session promises about its replies: the   *)
(* three handshake replies leave in order and once each, chat replies only *)
(* after the last of them, nothing after the session started to close.     *)
(***************************************************************************)
EXTENDS Integers, Sequences

CONSTANTS
    HandshakeReplies,   \* the handshake replies, in order
    ChatReplies         \* the replies of an established session

VARIABLES stage, replies

vars == <<stage, replies>>

Init ==
    /\ stage = 0
    /\ replies = <<>>

Shake ==
    /\ stage \in 0..Len(HandshakeReplies) - 1
    /\ stage' = stage + 1
    /\ replies' = Append(replies, HandshakeReplies[stage + 1])

Chat ==
    /\ stage = Len(HandshakeReplies)
    /\ \E r \in ChatReplies : replies' = Append(replies, r)
    /\ UNCHANGED stage

Close ==
    /\ stage' = Len(HandshakeReplies) + 1
    /\ UNCHANGED replies

Next == Shake \/ Chat \/ Close

Spec == Init /\ [][Next]_vars
=============================================================================
