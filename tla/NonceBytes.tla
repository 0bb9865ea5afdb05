----------------------------- MODULE NonceBytes -----------------------------
(* The byte-level nonce operations of gcm_nonce.rs, on arrays indexed from *)
(* 0 as in the code.                                                       *)
EXTENDS Integers

CONSTANTS
    ByteRange,  \* values of a byte: 256 in the code
    NonceLen    \* GCM_NONCE_LEN, 12 in the code

ASSUME ByteRangeAssumption == ByteRange \in Nat \ {0} /\ ByteRange % 2 = 0
ASSUME NonceLenAssumption == NonceLen \in Nat \ {0}

(* Mutant of IncrementNonce: the carry runs from the last byte.            *)
IncrementNonce_BigEndian(n) ==
    [i \in 0..NonceLen - 1 |->
        IF \A j \in i + 1..NonceLen - 1 : n[j] = ByteRange - 1
        THEN (n[i] + 1) % ByteRange
        ELSE n[i]]

(* increment_nonce adds 1 to byte i if every byte before it wrapped to 0.  *)
IncrementNonce(n) ==
    [i \in 0..NonceLen - 1 |->
        IF \A j \in 0..i - 1 : n[j] = ByteRange - 1
        THEN (n[i] + 1) % ByteRange
        ELSE n[i]]

(* apply_nonce_transform with XorLastByte(1), the only value in use.       *)
XorLastByte(n) ==
    [n EXCEPT ![NonceLen - 1] = IF @ % 2 = 0 THEN @ + 1 ELSE @ - 1]

(* initial_direction_nonce of a session nonce.                             *)
DirectionBytes(b, d) == IF d = "c2s" THEN XorLastByte(b) ELSE b

(* nonce_after_increments(base, counter)                                   *)
NonceAfterIncrements(b, counter) ==
    LET after[k \in 0..counter] == IF k = 0 THEN b ELSE IncrementNonce(after[k - 1])
    IN  after[counter]

-----------------------------------------------------------------------------

(* The nonces as byte arrays, and what a byte array spells: its last byte, *)
(* and the number of the bytes before it in little-endian order.           *)
ByteArrays == [0..NonceLen - 1 -> 0..ByteRange - 1]

Power[i \in 0..NonceLen] == IF i = 0 THEN 1 ELSE ByteRange * Power[i - 1]

LowSums(b) ==
    LET sum[i \in 0..NonceLen - 1] == IF i = 0 THEN 0 ELSE sum[i - 1] + b[i - 1] * Power[i - 1]
    IN  sum

Spelled(b) == [low |-> LowSums(b)[NonceLen - 1], high |-> b[NonceLen - 1]]
=============================================================================
