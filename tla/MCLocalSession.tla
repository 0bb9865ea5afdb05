--------------------------- MODULE MCLocalSession ---------------------------
(* The worker serves one of the two clients of the crate.                  *)
EXTENDS ReplaySession

CONSTANTS MaxReplayCalls    \* bound on the calls of a replay client

VARIABLE owner  \* the client: "compatibility" or "replay"

MCRawIds == {"x79", "xSYN_A"}

(* The handshake again, with no state set before its end.                  *)
MCFixtures == {[i \in 1..6 |-> [SimHandshake[i] EXCEPT !.to = Same]]}

allVars == <<vars, replayVars, owner>>

MCInit == ReplayInit /\ owner \in {"compatibility", "replay"}

MCNext ==
    \/ owner = "compatibility" /\ Next /\ UNCHANGED <<owner, replayVars>>
    \/ owner = "replay" /\ ReplayNext /\ calls' <= MaxReplayCalls /\ UNCHANGED owner

MCSpec ==
    /\ MCInit /\ [][MCNext]_allVars
    /\ WF_allVars(owner = "compatibility" /\ ClientRead /\ UNCHANGED <<owner, replayVars>>)
    /\ WF_allVars(owner = "compatibility" /\ Worker /\ UNCHANGED <<owner, replayVars>>)
    /\ WF_allVars(owner = "replay" /\ ClientStep /\ UNCHANGED owner)
    /\ WF_allVars(owner = "replay" /\ (WorkerHandles \/ OtherWork) /\ UNCHANGED owner)

(* The compatibility client and its worker stay in step: their nonce       *)
(* counters do over any mix of clear and encrypted frames, errors,         *)
(* timeouts and reconnects; and as long as nobody timed out and the owner  *)
(* kept to the high-level calls, the client has no frame left over between *)
(* two calls.                                                              *)
ClientInStep == owner = "compatibility" => TypeOK /\ NoncesInStep /\ NoStaleReplies

(* No client believes in a step of the handshake its server has not taken, *)
(* and the dispatcher of the tests answers as the server it stands for.    *)
PeersAgree == HandshakeAgreement /\ SimAgreement /\ DispatcherAgrees

(* A blocking call of either client returns without the help of a timeout, *)
(* and a compatibility client that went away leaves no worker behind.      *)
NobodyLeftWaiting ==
    /\ CallsReturn
    /\ ReplayReturns
    /\ owner = "compatibility" => WorkerFollowsClose
=============================================================================
