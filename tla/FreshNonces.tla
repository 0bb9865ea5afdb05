---------------------------- MODULE FreshNonces ----------------------------
(* What the users of SessionCryptoContext rely on: one key serves both     *)
(* directions of a session, so AES-GCM is only sound if no nonce is ever   *)
(* handed out twice, in whichever direction.                               *)
EXTENDS Integers

CONSTANT Nonces

VARIABLES
    used,       \* nonces handed out so far, in either direction
    requests    \* how often a nonce was asked for

Init == used = {} /\ requests = 0

(* Each request is met with a nonce not in use.                            *)
Issue ==
    /\ \E n \in Nonces \ used : used' = used \cup {n}
    /\ requests' = requests + 1

Spec == Init /\ [][Issue]_<<used, requests>>
=============================================================================
