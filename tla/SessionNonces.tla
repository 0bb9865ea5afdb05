--------------------------- MODULE SessionNonces ---------------------------
(***************************************************************************)
(* The nonce schedule of SessionCryptoContext, with the 12-byte nonce      *)
(* split in two: `high` is its last byte, the one the client-to-server     *)
(* base flips and the last one a carry reaches, and `low` is the number    *)
(* the bytes before it spell in little-endian order.                       *)
(*                                                                         *)
(* MaxIssued bounds the frames of one direction.  The code does not        *)
(* enforce a bound: nonces of the two directions stay apart as long as a   *)
(* direction sends fewer than LowRange frames, 2^88 in the code.           *)
(***************************************************************************)
EXTENDS Integers

CONSTANTS
    LowRange,   \* values of the bytes before the last: 256^11 in the code
    HighRange,  \* values of the last byte: 256 in the code
    MaxIssued   \* bound on the nonces issued in a direction

Directions == {"c2s", "s2c"}

Nonces == [low : 0..LowRange - 1, high : 0..HighRange - 1]

ASSUME LowRangeAssumption == LowRange \in Nat \ {0}
ASSUME HighRangeAssumption == HighRange \in Nat \ {0} /\ HighRange % 2 = 0
ASSUME MaxIssuedAssumption == MaxIssued \in Nat /\ MaxIssued < LowRange

VARIABLES
    base,       \* session_nonce, never changed
    current,    \* the nonce the next frame of a direction will use
    issued,     \* how many nonces a direction has used
    used        \* the nonces handed out so far (history)

vars == <<base, current, issued, used>>

(* b XOR 1.                                                                *)
FlipLowBit(b) == IF b % 2 = 0 THEN b + 1 ELSE b - 1

(* Mutant of DirectionBase: both directions start at session_nonce.        *)
DirectionBase_Shared(n, d) == n

(* initial_direction_nonce: Identity for s2c, XorLastByte(1) for c2s.      *)
DirectionBase(n, d) == IF d = "c2s" THEN [n EXCEPT !.high = FlipLowBit(@)] ELSE n

(* Mutant of Increment: the carry into the last byte is lost.              *)
Increment_NoCarry(n) == [n EXCEPT !.low = (@ + 1) % LowRange]

(* increment_nonce: the carry out of the low bytes goes to the last one,   *)
(* the carry out of the last one is dropped.                               *)
Increment(n) ==
    IF n.low + 1 < LowRange
    THEN [n EXCEPT !.low = @ + 1]
    ELSE [low |-> 0, high |-> IF n.high + 1 < HighRange THEN n.high + 1 ELSE 0]

Init ==
    /\ base \in Nonces
    /\ current = [d \in Directions |-> DirectionBase(base, d)]
    /\ issued = [d \in Directions |-> 0]
    /\ used = {}

(* next_nonce(direction)                                                   *)
NextNonce(d) ==
    /\ issued[d] < MaxIssued
    /\ used' = used \cup {current[d]}
    /\ current' = [current EXCEPT ![d] = Increment(@)]
    /\ issued' = [issued EXCEPT ![d] = @ + 1]
    /\ UNCHANGED base

Next == \E d \in Directions : NextNonce(d)

Spec == Init /\ [][Next]_vars

-----------------------------------------------------------------------------

TypeOK ==
    /\ base \in Nonces
    /\ current \in [Directions -> Nonces]
    /\ issued \in [Directions -> 0..MaxIssued]
    /\ used \in SUBSET Nonces

(* base advanced k times, for k at most LowRange.                          *)
Advanced(b, k) ==
    IF b.low + k < LowRange
    THEN [low |-> b.low + k, high |-> b.high]
    ELSE [low |-> b.low + k - LowRange,
          high |-> IF b.high + 1 < HighRange THEN b.high + 1 ELSE 0]

(* The nonce in use is the base advanced by the counter, so two peers that *)
(* agree on the counter agree on the nonce; and the nonces used are those  *)
(* passed on the way.                                                      *)
Schedule ==
    /\ \A d \in Directions : current[d] = Advanced(DirectionBase(base, d), issued[d])
    /\ \A n \in used : \E d \in Directions : \E k \in 0..issued[d] - 1 :
          n = Advanced(DirectionBase(base, d), k)

Requests == issued["c2s"] + issued["s2c"]

Fresh == INSTANCE FreshNonces WITH requests <- Requests

(* No nonce is handed out twice under one key, in either direction.        *)
NeverReused == Fresh!Spec
=============================================================================
