------------------------ MODULE SessionNoncesProofs ------------------------
(* The offline verifiers vouch only for files that are in the nonce        *)
(* schedule, whatever frames they hold; the schedule never repeats, for    *)
(* every nonce width and every session nonce; and the byte arrays of the   *)
(* code spell it, whatever their length and the range of a byte.           *)
EXTENDS MCSessionNonces, WellFoundedInduction, FiniteSetTheorems, TLAPS

(* Cardinality in the instance is Cardinality here.                        *)
LEMMA CountOf ==
    \A fs, S, d : Verify!Count(fs, S, d) = Cardinality({i \in S : fs[i].dir = d})
<1>1. \A T : Verify!Cardinality(T) = Cardinality(T)
    BY DEF Verify!Cardinality, Cardinality
<1> QED
    BY <1>1 DEF Verify!Count

(* A frame at the end leaves the counts of the frames before it alone, and *)
(* so what the schedule says of them.                                      *)
LEMMA OlderFrames ==
    ASSUME NEW fs \in Seq(Verify!FrameType), NEW f \in Verify!FrameType,
           NEW S \in SUBSET (1..Len(fs))
    PROVE  /\ \A d : Verify!Count(Append(fs, f), S, d) = Verify!Count(fs, S, d)
           /\ Verify!InSchedule(Append(fs, f), S) <=> Verify!InSchedule(fs, S)
<1> DEFINE g == Append(fs, f)
<1>1. \A i \in S : g[i] = fs[i]
    OBVIOUS
<1> HIDE DEF g
<1>2. \A T \in SUBSET S : \A d : Verify!Count(g, T, d) = Verify!Count(fs, T, d)
  <2> SUFFICES ASSUME NEW T \in SUBSET S, NEW d
               PROVE  {i \in T : g[i].dir = d} = {i \in T : fs[i].dir = d}
      BY DEF Verify!Count
  <2> QED
      BY <1>1
<1>3. \A i \in S : {j \in S : j < i} \in SUBSET S
    OBVIOUS
<1>4. Verify!InSchedule(g, S) <=> Verify!InSchedule(fs, S)
  <2>1. ASSUME NEW i \in S
        PROVE  Verify!Count(g, {j \in S : j < i}, g[i].dir) = Verify!Count(fs, {j \in S : j < i}, fs[i].dir)
      BY <1>1, <1>2, <1>3
  <2> QED
      BY <1>1, <2>1 DEF Verify!InSchedule
<1> QED
    BY <1>2, <1>4 DEF g

(* A frame at the end adds one to the count of its direction, and is in    *)
(* its schedule if its number is the count before it.                      *)
LEMMA NewestFrame ==
    ASSUME NEW fs \in Seq(Verify!FrameType), NEW f \in Verify!FrameType,
           NEW S \in SUBSET (1..Len(fs))
    PROVE  /\ \A d : Verify!Count(fs, S, d) \in Nat
           /\ \A d : Verify!Count(Append(fs, f), S \cup {Len(fs) + 1}, d) =
                       IF f.dir = d THEN Verify!Count(fs, S, d) + 1 ELSE Verify!Count(fs, S, d)
           /\ Verify!InSchedule(Append(fs, f), S \cup {Len(fs) + 1}) <=>
                /\ Verify!InSchedule(fs, S)
                /\ f.dir \in Verify!Directions =>
                      /\ f.n = Verify!Count(fs, S, f.dir)
                      /\ f.body = "whole" /\ f.length_right
<1> DEFINE g == Append(fs, f)
           last == Len(fs) + 1
           T == S \cup {last}
           In(d) == {i \in S : fs[i].dir = d}
<1>1. /\ \A i \in S : g[i] = fs[i] /\ i < last
      /\ g[last] = f /\ last \notin S /\ last \in Int /\ S \subseteq Int
    OBVIOUS
<1>2. \A d : IsFiniteSet(In(d)) /\ Cardinality(In(d)) \in Nat
  <2> TAKE d
  <2>1. IsFiniteSet(1..Len(fs))
      BY FS_Interval
  <2>2. In(d) \subseteq 1..Len(fs)
      OBVIOUS
  <2>3. IsFiniteSet(In(d))
      BY <2>1, <2>2, FS_Subset
  <2> QED
      BY <2>3, FS_CardinalityType
<1> HIDE DEF g, last
<1>3. \A d : Verify!Count(g, T, d) =
                IF f.dir = d THEN Verify!Count(fs, S, d) + 1 ELSE Verify!Count(fs, S, d)
  <2> TAKE d
  <2> DEFINE InT == {i \in T : g[i].dir = d}
  <2>3. Verify!Count(g, T, d) = Cardinality(InT) /\ Verify!Count(fs, S, d) = Cardinality(In(d))
      BY CountOf, Zenon
  <2>1. f.dir = d => Verify!Count(g, T, d) = Verify!Count(fs, S, d) + 1
    <3> HAVE f.dir = d
    <3>1. InT = In(d) \cup {last}
        BY <1>1
    <3>2. last \notin In(d)
        BY <1>1
    <3>3. Cardinality(In(d) \cup {last}) = Cardinality(In(d)) + 1
      <4> HIDE DEF In
      <4> QED
          BY <1>2, <3>2, FS_AddElement
    <3> QED
        BY <2>3, <3>1, <3>3
  <2>2. f.dir # d => Verify!Count(g, T, d) = Verify!Count(fs, S, d)
    <3> HAVE f.dir # d
    <3>1. InT = In(d)
        BY <1>1
    <3> QED
        BY <2>3, <3>1
  <2> HIDE DEF In, InT
  <2> QED
      BY <2>1, <2>2
<1>4. /\ \A i \in S : {j \in T : j < i} = {j \in S : j < i}
      /\ {j \in T : j < last} = S
  <2>1. ASSUME NEW i \in S PROVE {j \in T : j < i} = {j \in S : j < i}
    <3>1. ~(last < i)
        BY <1>1
    <3> QED
        BY <3>1
  <2>2. ~(last < last) /\ \A i \in S : i < last
      BY <1>1
  <2> QED
      BY <2>1, <2>2
<1>5. /\ Verify!InSchedule(g, S) <=> Verify!InSchedule(fs, S)
      /\ \A d : Verify!Count(g, S, d) = Verify!Count(fs, S, d)
    BY OlderFrames DEF g
<1>6. Verify!InSchedule(g, T) <=>
        /\ Verify!InSchedule(g, S)
        /\ f.dir \in Verify!Directions =>
              /\ f.n = Verify!Count(g, S, f.dir)
              /\ f.body = "whole" /\ f.length_right
  <2> DEFINE Fits(i) ==
                g[i].dir \in Verify!Directions =>
                    /\ g[i].n = Verify!Count(g, {j \in S : j < i}, g[i].dir)
                    /\ g[i].body = "whole" /\ g[i].length_right
             FitsT(i) ==
                g[i].dir \in Verify!Directions =>
                    /\ g[i].n = Verify!Count(g, {j \in T : j < i}, g[i].dir)
                    /\ g[i].body = "whole" /\ g[i].length_right
  <2>1. \A i \in S : FitsT(i) <=> Fits(i)
      BY <1>4
  <2>2. FitsT(last) <=>
            (f.dir \in Verify!Directions =>
                /\ f.n = Verify!Count(g, S, f.dir)
                /\ f.body = "whole" /\ f.length_right)
      BY <1>1, <1>4
  <2>3. /\ Verify!InSchedule(g, S) <=> \A i \in S : Fits(i)
        /\ Verify!InSchedule(g, T) <=> \A i \in T : FitsT(i)
      BY DEF Verify!InSchedule
  <2> HIDE DEF Fits, FitsT
  <2> QED
      BY <2>1, <2>2, <2>3
<1>7. \A d : Verify!Count(fs, S, d) \in Nat
  <2> TAKE d
  <2> Verify!Count(fs, S, d) = Cardinality(In(d))
      BY CountOf, Zenon
  <2> QED
      BY <1>2
<1> QED
    BY <1>3, <1>5, <1>6, <1>7 DEF g, last

(* The frames a verifier looks at after one more.                          *)
LEMMA FramesGrow ==
    ASSUME NEW fs \in Seq(Verify!FrameType), NEW f \in Verify!FrameType
    PROVE  /\ Append(fs, f) \in Seq(Verify!FrameType)
           /\ Verify!Sealed(fs) \subseteq 1..Len(fs) /\ Verify!Wired(fs) \subseteq 1..Len(fs)
           /\ Verify!Sealed(Append(fs, f)) =
                IF Verify!IsSealed(f) THEN Verify!Sealed(fs) \cup {Len(fs) + 1} ELSE Verify!Sealed(fs)
           /\ Verify!Wired(Append(fs, f)) =
                IF Verify!IsSealed(f) /\ f.wire
                THEN Verify!Wired(fs) \cup {Len(fs) + 1} ELSE Verify!Wired(fs)
           /\ \A i \in 1..Len(fs) : Append(fs, f)[i] = fs[i]
           /\ Append(fs, f)[Len(fs) + 1] = f
<1> DEFINE g == Append(fs, f)
           last == Len(fs) + 1
<1>1. /\ \A i \in 1..Len(fs) : g[i] = fs[i]
      /\ g[last] = f /\ 1..Len(g) = 1..Len(fs) \cup {last}
      /\ g \in Seq(Verify!FrameType)
    OBVIOUS
<1> HIDE DEF g, last
<1>2. Verify!Sealed(g) = IF Verify!IsSealed(f) THEN Verify!Sealed(fs) \cup {last} ELSE Verify!Sealed(fs)
    BY <1>1 DEF Verify!Sealed
<1>3. Verify!Wired(g) = IF Verify!IsSealed(f) /\ f.wire
                        THEN Verify!Wired(fs) \cup {last} ELSE Verify!Wired(fs)
    BY <1>1, <1>2 DEF Verify!Wired, Verify!Sealed
<1>4. Verify!Sealed(fs) \subseteq 1..Len(fs) /\ Verify!Wired(fs) \subseteq 1..Len(fs)
    BY DEF Verify!Sealed, Verify!Wired
<1> QED
    BY <1>1, <1>2, <1>3, <1>4 DEF g, last

(* The reports of gcm-sequence-verify, and a file that is as it should be. *)
SequenceReports ==
    [error : {"none", "BadDirection", "BadFieldLen", "EmptyField"},
     counters : [Verify!Directions -> Nat], frames : Nat,
     nonce_ok_all : BOOLEAN, gcm_ok_all : BOOLEAN]

RightFile(fs) ==
    /\ Verify!InSchedule(fs, Verify!Sealed(fs))
    /\ \A i \in Verify!Sealed(fs) : fs[i].dir # "other" /\ fs[i].nonce \in {-1, fs[i].n}

(* What gcm-sequence-verify's report says of the frames it has read.       *)
SequenceTells(fs, r) ==
    /\ r \in SequenceReports
    /\ r.error = "none" =>
          /\ \A d \in Verify!Directions : r.counters[d] = Verify!Count(fs, Verify!Sealed(fs), d)
          /\ r.frames > 0 <=> Verify!Sealed(fs) # {}
    /\ (r.error = "none" /\ r.nonce_ok_all /\ r.gcm_ok_all) <=> RightFile(fs)

LEMMA SequenceKeepsTelling ==
    ASSUME NEW fs \in Seq(Verify!FrameType), NEW f \in Verify!FrameType,
           NEW r, SequenceTells(fs, r)
    PROVE  SequenceTells(Append(fs, f), IF Verify!IsSealed(f) THEN Verify!SequenceStep(r, f) ELSE r)
<1> DEFINE S == Verify!Sealed(fs)
           g == Append(fs, f)
           last == Len(fs) + 1
           t == Verify!SequenceStep(r, f)
<1>1. /\ S \in SUBSET (1..Len(fs)) /\ \A i \in S : g[i] = fs[i]
      /\ g[last] = f
      /\ Verify!Sealed(g) = IF Verify!IsSealed(f) THEN S \cup {last} ELSE S
    BY FramesGrow
<1>2. /\ \A d : Verify!Count(g, S, d) = Verify!Count(fs, S, d)
      /\ Verify!InSchedule(g, S) <=> Verify!InSchedule(fs, S)
    BY <1>1, OlderFrames
<1>3. /\ \A d : Verify!Count(fs, S, d) \in Nat
      /\ \A d : Verify!Count(g, S \cup {last}, d) =
                  IF f.dir = d THEN Verify!Count(fs, S, d) + 1 ELSE Verify!Count(fs, S, d)
      /\ Verify!InSchedule(g, S \cup {last}) <=>
            /\ Verify!InSchedule(fs, S)
            /\ f.dir \in Verify!Directions =>
                  /\ f.n = Verify!Count(fs, S, f.dir)
                  /\ f.body = "whole" /\ f.length_right
    BY <1>1, NewestFrame
<1>4. f \in [dir : Verify!Directions \cup {"other"}, kind : {"encrypted", "clear", "other"}, n : Nat,
             body : {"whole", "changed", "tag_only", "short", "trailing"},
             wire : BOOLEAN, nonce : Nat \cup {-1}, length_right : BOOLEAN]
    BY DEF Verify!FrameType
<1>5. /\ r \in SequenceReports
      /\ r.error = "none" =>
            /\ \A d \in Verify!Directions : r.counters[d] = Verify!Count(fs, S, d)
            /\ r.frames > 0 <=> S # {}
      /\ (r.error = "none" /\ r.nonce_ok_all /\ r.gcm_ok_all) <=> RightFile(fs)
    BY DEF SequenceTells
<1> HIDE DEF g, last, t, S
<1>6. CASE ~Verify!IsSealed(f)
  <2>1. Verify!Sealed(g) = S
      BY <1>1, <1>6
  <2>2. RightFile(g) <=> RightFile(fs)
      BY <1>1, <1>2, <2>1 DEF RightFile, S
  <2>3. SequenceTells(g, r)
      BY <1>2, <1>5, <2>1, <2>2 DEF SequenceTells
  <2> QED
      BY <1>6, <2>3 DEF g
<1>7. CASE Verify!IsSealed(f)
  <2>1. Verify!Sealed(g) = S \cup {last}
      BY <1>1, <1>7
  <2>2. RightFile(g) <=>
            /\ RightFile(fs) /\ f.dir \in Verify!Directions /\ f.nonce \in {-1, f.n}
            /\ f.n = Verify!Count(fs, S, f.dir) /\ f.body = "whole" /\ f.length_right
    <3>1. RightFile(g) <=>
            /\ Verify!InSchedule(g, S \cup {last})
            /\ \A i \in S : g[i].dir # "other" /\ g[i].nonce \in {-1, g[i].n}
            /\ f.dir # "other" /\ f.nonce \in {-1, f.n}
        BY <1>1, <2>1 DEF RightFile
    <3>2. RightFile(fs) <=>
            /\ Verify!InSchedule(fs, S)
            /\ \A i \in S : g[i].dir # "other" /\ g[i].nonce \in {-1, g[i].n}
        BY <1>1 DEF RightFile, S
    <3>3. f.dir # "other" <=> f.dir \in Verify!Directions
        BY <1>4 DEF Verify!Directions
    <3> QED
        BY <1>3, <3>1, <3>2, <3>3
  <2>3. CASE r.error # "none"
    <3>1. t = r
        BY <2>3 DEF Verify!SequenceStep, t
    <3>2. ~RightFile(g)
        BY <1>5, <2>2, <2>3
    <3> QED
        BY <1>5, <1>7, <2>3, <3>1, <3>2 DEF SequenceTells, g, t
  <2>4. CASE r.error = "none" /\ (f.dir = "other" \/ f.body \in {"short", "tag_only"})
    <3>1. t \in SequenceReports /\ t.error # "none"
        BY <1>5, <2>4 DEF Verify!SequenceStep, SequenceReports, t
    <3>2. ~RightFile(g)
        BY <1>4, <2>2, <2>4 DEF Verify!Directions
    <3> QED
        BY <1>7, <3>1, <3>2 DEF SequenceTells, g, t
  <2>5. CASE r.error = "none" /\ f.dir # "other" /\ f.body \notin {"short", "tag_only"}
    <3> DEFINE n == r.counters[f.dir]
    <3>1. f.dir \in Verify!Directions /\ n = Verify!Count(fs, S, f.dir)
        BY <1>4, <1>5, <2>5 DEF Verify!Directions
    <3>2. t = [r EXCEPT !.counters[f.dir] = n + 1,
                        !.frames = @ + 1,
                        !.nonce_ok_all = @ /\ f.nonce \in {-1, n},
                        !.gcm_ok_all = @ /\ f.body = "whole" /\ f.n = n /\ f.length_right]
        BY <2>5 DEF Verify!SequenceStep, Verify!Opens, t
    <3>3. /\ t \in SequenceReports /\ t.error = "none" /\ t.frames > 0
          /\ t.counters = [r.counters EXCEPT ![f.dir] = n + 1]
          /\ t.nonce_ok_all <=> r.nonce_ok_all /\ f.nonce \in {-1, n}
          /\ t.gcm_ok_all <=> r.gcm_ok_all /\ f.body = "whole" /\ f.n = n /\ f.length_right
      <4> HIDE DEF t
      <4>1. r \in [error : {"none", "BadDirection", "BadFieldLen", "EmptyField"},
                   counters : [Verify!Directions -> Nat], frames : Nat,
                   nonce_ok_all : BOOLEAN, gcm_ok_all : BOOLEAN]
          BY <1>5 DEF SequenceReports
      <4>2. n \in Nat /\ [r.counters EXCEPT ![f.dir] = n + 1] \in [Verify!Directions -> Nat]
          BY <3>1, <4>1
      <4> DEFINE c == [r.counters EXCEPT ![f.dir] = n + 1]
                 fits == f.nonce \in {-1, n}
                 opens == f.body = "whole" /\ f.n = n /\ f.length_right
      <4>3. t = [r EXCEPT !.counters = c, !.frames = @ + 1,
                          !.nonce_ok_all = @ /\ fits, !.gcm_ok_all = @ /\ opens]
          BY <3>2, Zenon
      <4>4. fits \in BOOLEAN /\ opens \in BOOLEAN
          BY <1>4
      <4> HIDE DEF n, c, fits, opens
      <4>5. /\ t.error = r.error /\ t.counters = c /\ t.frames = r.frames + 1
            /\ t.nonce_ok_all = (r.nonce_ok_all /\ fits)
            /\ t.gcm_ok_all = (r.gcm_ok_all /\ opens)
          BY <4>1, <4>3
      <4>6. t \in SequenceReports
        <5> DEFINE a == r.nonce_ok_all /\ fits
                   b == r.gcm_ok_all /\ opens
        <5>1. a \in BOOLEAN /\ b \in BOOLEAN /\ c \in [Verify!Directions -> Nat]
            BY <4>1, <4>2, <4>4, Zenon DEF c
        <5>2. t = [r EXCEPT !.counters = c, !.frames = @ + 1, !.nonce_ok_all = a, !.gcm_ok_all = b]
            BY <4>3
        <5> HIDE DEF a, b
        <5>3. t = [error |-> r.error, counters |-> c, frames |-> r.frames + 1,
                   nonce_ok_all |-> a, gcm_ok_all |-> b]
            BY <4>1, <5>2
        <5>4. /\ r.error \in {"none", "BadDirection", "BadFieldLen", "EmptyField"}
              /\ r.frames + 1 \in Nat
            BY <4>1
        <5> QED
            BY <5>1, <5>3, <5>4, Zenon DEF SequenceReports
      <4>7. r.error = "none" /\ r.frames + 1 > 0
          BY <2>5, <4>1
      <4> QED
          BY <4>1, <4>5, <4>6, <4>7, Zenon DEF c, fits, opens
    <3>4. \A d \in Verify!Directions : t.counters[d] = Verify!Count(g, S \cup {last}, d)
      <4> TAKE d \in Verify!Directions
      <4>1. r.counters[d] = Verify!Count(fs, S, d) /\ r.counters \in [Verify!Directions -> Nat]
          BY <1>5, <2>5 DEF SequenceReports
      <4> QED
          BY <1>3, <3>1, <3>3, <4>1
    <3>5. (t.nonce_ok_all /\ t.gcm_ok_all) <=> RightFile(g)
        BY <1>5, <2>2, <2>5, <3>1, <3>3
    <3> QED
        BY <1>7, <2>1, <3>3, <3>4, <3>5 DEF SequenceTells, g, t
  <2> QED
      BY <2>3, <2>4, <2>5
<1> QED
    BY <1>6, <1>7

(* What decode_frame makes of a frame whose direction is known.            *)
LEMMA OutcomeOf ==
    ASSUME NEW f \in Verify!FrameType, f.dir \in Verify!Directions,
           NEW c \in [Verify!Directions -> Nat], NEW o, o = Verify!Outcome(f, c)
    PROVE  /\ o \in {"framing", "opaque", "clear", "empty_ciphertext", "decrypted", "decrypt_failed"}
           /\ o = "framing" <=> f.body = "trailing" \/ (f.body = "short" /\ f.kind # "other")
           /\ o \in {"decrypted", "decrypt_failed"} => Verify!IsSealed(f)
           /\ o = "decrypted" <=> f.kind = "encrypted" /\ f.body = "whole" /\ f.n = c[f.dir]
           /\ Verify!IsSealed(f) => o \in {"framing", "empty_ciphertext", "decrypted", "decrypt_failed"}
           /\ o = "opaque" => f.kind = "other"
<1>1. /\ f.kind \in {"encrypted", "clear", "other"}
      /\ f.body \in {"whole", "changed", "tag_only", "short", "trailing"}
    BY DEF Verify!FrameType
<1>2. CASE f.body = "trailing" \/ (f.body = "short" /\ f.kind # "other")
  <2>1. o = "framing"
      BY <1>2 DEF Verify!Outcome
  <2> QED
      BY <1>2, <2>1 DEF Verify!IsSealed
<1>3. CASE f.body # "trailing" /\ f.kind = "other"
  <2>1. o = "opaque"
      BY <1>3 DEF Verify!Outcome
  <2> QED
      BY <1>3, <2>1 DEF Verify!IsSealed
<1>4. CASE f.body \notin {"trailing", "short"} /\ f.kind = "clear"
  <2>1. o = "clear"
      BY <1>4 DEF Verify!Outcome
  <2> QED
      BY <1>4, <2>1 DEF Verify!IsSealed
<1>5. CASE f.body = "tag_only" /\ f.kind = "encrypted"
  <2>1. o = "empty_ciphertext"
      BY <1>5 DEF Verify!Outcome
  <2> QED
      BY <1>5, <2>1 DEF Verify!IsSealed
<1>6. CASE f.body \in {"whole", "changed"} /\ f.kind = "encrypted"
  <2>1. o = IF f.body = "whole" /\ f.n = c[f.dir] THEN "decrypted" ELSE "decrypt_failed"
      BY <1>6 DEF Verify!Outcome, Verify!Opens
  <2> QED
      BY <1>6, <2>1 DEF Verify!IsSealed
<1>7. \/ f.body = "trailing" \/ (f.body = "short" /\ f.kind # "other")
      \/ f.body # "trailing" /\ f.kind = "other"
      \/ f.body \notin {"trailing", "short"} /\ f.kind = "clear"
      \/ f.body = "tag_only" /\ f.kind = "encrypted"
      \/ f.body \in {"whole", "changed"} /\ f.kind = "encrypted"
    BY <1>1
<1> QED
    BY <1>2, <1>3, <1>4, <1>5, <1>6, <1>7, Zenon

(* The reports of bap-session-verify.                                      *)
SessionReports ==
    [error : {"none", "BadDirection"}, counters : [Verify!Directions -> Nat],
     expected : [Verify!Directions -> Nat], frames_seen : Nat, failed : Nat,
     success : Nat, opaque : Nat, framing_valid : BOOLEAN]

(* One round of bap-session-verify's loop over a frame it can read, field  *)
(* by field.                                                               *)
LEMMA SessionRound ==
    ASSUME NEW f \in Verify!FrameType, f.dir \in Verify!Directions, f.wire,
           NEW r \in SessionReports, r.error = "none",
           NEW o, o = Verify!Outcome(f, r.counters),
           NEW t, t = Verify!SessionStep(r, f)
    PROVE  /\ t \in SessionReports /\ t.error = "none"
           /\ t.frames_seen = r.frames_seen + 1
           /\ t.counters = Verify!Decode(f, r.counters)
           /\ t.expected = IF o \in {"decrypted", "decrypt_failed"}
                           THEN [r.expected EXCEPT ![f.dir] = @ + 1] ELSE r.expected
           /\ t.framing_valid <=> r.framing_valid /\ o # "framing"
           /\ t.failed = IF \/ o \in {"empty_ciphertext", "decrypt_failed"}
                            \/ (o = "decrypted" /\ ~f.length_right)
                         THEN r.failed + 1 ELSE r.failed
<1> DEFINE c == Verify!Decode(f, r.counters)
           e == [r.expected EXCEPT ![f.dir] = @ + 1]
           s == [[r EXCEPT !.frames_seen = @ + 1] EXCEPT !.counters = c]
<1>1. r \in [error : {"none", "BadDirection"}, counters : [Verify!Directions -> Nat],
             expected : [Verify!Directions -> Nat], frames_seen : Nat, failed : Nat,
             success : Nat, opaque : Nat, framing_valid : BOOLEAN]
    BY DEF SessionReports
<1>2. o \in {"framing", "opaque", "clear", "empty_ciphertext", "decrypted", "decrypt_failed"}
    BY <1>1, OutcomeOf, Zenon
<1>3. c \in [Verify!Directions -> Nat] /\ e \in [Verify!Directions -> Nat]
    BY <1>1 DEF Verify!Decode
<1>4. f.dir # "other" /\ f.length_right \in BOOLEAN
    BY DEF Verify!Directions, Verify!FrameType
<1>5. t = IF o = "framing" THEN [s EXCEPT !.framing_valid = FALSE]
          ELSE IF o = "opaque" THEN [s EXCEPT !.opaque = @ + 1]
          ELSE IF o = "clear" THEN s
          ELSE IF o = "empty_ciphertext" THEN [s EXCEPT !.failed = @ + 1]
          ELSE IF o = "decrypt_failed" \/ ~f.length_right
          THEN [s EXCEPT !.failed = @ + 1, !.expected[f.dir] = @ + 1]
          ELSE [s EXCEPT !.success = @ + 1, !.expected[f.dir] = @ + 1]
    BY <1>4 DEF Verify!SessionStep
<1>6. s \in SessionReports /\ s.error = "none" /\ s.frames_seen = r.frames_seen + 1
      /\ s.counters = c /\ s.expected = r.expected /\ s.framing_valid = r.framing_valid
      /\ s.failed = r.failed
  <2> HIDE DEF c
  <2>1. s = [error |-> r.error, counters |-> c, expected |-> r.expected,
             frames_seen |-> r.frames_seen + 1, failed |-> r.failed, success |-> r.success,
             opaque |-> r.opaque, framing_valid |-> r.framing_valid]
    <3> DEFINE q == [r EXCEPT !.frames_seen = @ + 1]
    <3>1. q = [error |-> r.error, counters |-> r.counters, expected |-> r.expected,
               frames_seen |-> r.frames_seen + 1, failed |-> r.failed, success |-> r.success,
               opaque |-> r.opaque, framing_valid |-> r.framing_valid]
        BY <1>1
    <3>2. s = [q EXCEPT !.counters = c]
        OBVIOUS
    <3> HIDE DEF q, s
    <3> QED
        BY <3>1, <3>2
  <2> HIDE DEF s
  <2>2. r.frames_seen + 1 \in Nat
      BY <1>1
  <2>3. s \in SessionReports
      BY <1>1, <1>3, <2>1, <2>2, Zenon DEF SessionReports
  <2> QED
      BY <2>1, <2>3
<1> HIDE DEF s, c
<1>7. s \in [error : {"none", "BadDirection"}, counters : [Verify!Directions -> Nat],
             expected : [Verify!Directions -> Nat], frames_seen : Nat, failed : Nat,
             success : Nat, opaque : Nat, framing_valid : BOOLEAN]
    BY <1>6 DEF SessionReports
<1>8. CASE o = "framing"
  <2>1. t = [s EXCEPT !.framing_valid = FALSE]
      BY <1>5, <1>8
  <2> QED
      BY <1>6, <1>7, <1>8, <2>1 DEF SessionReports, c
<1>9. CASE o = "opaque"
  <2>1. t = [s EXCEPT !.opaque = @ + 1]
      BY <1>5, <1>9
  <2> QED
      BY <1>1, <1>6, <1>7, <1>9, <2>1 DEF SessionReports, c
<1>10. CASE o = "clear"
  <2>1. t = s
      BY <1>5, <1>10
  <2> QED
      BY <1>1, <1>6, <1>10, <2>1 DEF c
<1>11. CASE o = "empty_ciphertext"
  <2>1. t = [s EXCEPT !.failed = @ + 1]
      BY <1>5, <1>11
  <2> QED
      BY <1>1, <1>6, <1>7, <1>11, <2>1 DEF SessionReports, c
<1>12. CASE o = "decrypt_failed" \/ (o = "decrypted" /\ ~f.length_right)
  <2>1. t = [s EXCEPT !.failed = @ + 1, !.expected[f.dir] = @ + 1]
      BY <1>4, <1>5, <1>12
  <2>2. t = [s EXCEPT !.failed = @ + 1, !.expected = e]
      BY <1>6, <2>1
  <2> HIDE DEF e
  <2>3. /\ t \in SessionReports /\ t.error = "none" /\ t.expected = e
        /\ t.failed = r.failed + 1 /\ t.frames_seen = r.frames_seen + 1
        /\ t.counters = c /\ t.framing_valid = r.framing_valid
    <3>1. t = [error |-> s.error, counters |-> s.counters, expected |-> e,
               frames_seen |-> s.frames_seen, failed |-> s.failed + 1, success |-> s.success,
               opaque |-> s.opaque, framing_valid |-> s.framing_valid]
        BY <1>7, <2>2
    <3>2. s.failed + 1 \in Nat
        BY <1>7
    <3>3. t \in SessionReports
      <4>1. /\ s.error \in {"none", "BadDirection"} /\ s.counters \in [Verify!Directions -> Nat]
            /\ e \in [Verify!Directions -> Nat] /\ s.frames_seen \in Nat
            /\ s.failed \in Nat /\ s.success \in Nat /\ s.opaque \in Nat
            /\ s.framing_valid \in BOOLEAN
          BY <1>3, <1>7, Zenon
      <4> QED
          BY <3>1, <3>2, <4>1 DEF SessionReports
    <3> QED
        BY <1>6, <3>1, <3>3
  <2> QED
      BY <1>1, <1>12, <2>3, Zenon DEF c, e
<1>13. CASE o = "decrypted" /\ f.length_right
  <2>1. t = [s EXCEPT !.success = @ + 1, !.expected[f.dir] = @ + 1]
      BY <1>4, <1>5, <1>13
  <2>2. t = [s EXCEPT !.success = @ + 1, !.expected = e]
      BY <1>6, <2>1
  <2> HIDE DEF e
  <2>3. /\ t \in SessionReports /\ t.error = "none" /\ t.expected = e
        /\ t.failed = r.failed /\ t.frames_seen = r.frames_seen + 1
        /\ t.counters = c /\ t.framing_valid = r.framing_valid
    <3>1. t = [error |-> s.error, counters |-> s.counters, expected |-> e,
               frames_seen |-> s.frames_seen, failed |-> s.failed, success |-> s.success + 1,
               opaque |-> s.opaque, framing_valid |-> s.framing_valid]
        BY <1>7, <2>2
    <3>2. s.success + 1 \in Nat
        BY <1>7
    <3>3. t \in SessionReports
      <4>1. /\ s.error \in {"none", "BadDirection"} /\ s.counters \in [Verify!Directions -> Nat]
            /\ e \in [Verify!Directions -> Nat] /\ s.frames_seen \in Nat
            /\ s.failed \in Nat /\ s.success \in Nat /\ s.opaque \in Nat
            /\ s.framing_valid \in BOOLEAN
          BY <1>3, <1>7, Zenon
      <4> QED
          BY <3>1, <3>2, <4>1 DEF SessionReports
    <3> QED
        BY <1>6, <3>1, <3>3
  <2> QED
      BY <1>1, <1>13, <2>3, Zenon DEF c, e
<1>14. \/ o \in {"framing", "opaque", "clear", "empty_ciphertext"}
       \/ o = "decrypt_failed" \/ (o = "decrypted" /\ ~f.length_right)
       \/ o = "decrypted" /\ f.length_right
    BY <1>2, <1>4
<1> QED
    BY <1>8, <1>9, <1>10, <1>11, <1>12, <1>13, <1>14, Zenon

(* What bap-session-verify's report says of the frames it has read.        *)
SessionTells(fs, r) ==
    /\ r \in SessionReports
    /\ r.counters = r.expected
    /\ r.error = "none" /\ r.framing_valid /\ r.failed = 0 =>
          /\ Verify!InSchedule(fs, Verify!Wired(fs))
          /\ \A d \in Verify!Directions : r.counters[d] = Verify!Count(fs, Verify!Wired(fs), d)

LEMMA SessionKeepsTelling ==
    ASSUME NEW fs \in Seq(Verify!FrameType), NEW f \in Verify!FrameType,
           NEW r, SessionTells(fs, r)
    PROVE  SessionTells(Append(fs, f), Verify!SessionStep(r, f))
<1> DEFINE W == Verify!Wired(fs)
           g == Append(fs, f)
           last == Len(fs) + 1
           t == Verify!SessionStep(r, f)
<1>1. /\ W \in SUBSET (1..Len(fs))
      /\ Verify!Wired(g) = IF Verify!IsSealed(f) /\ f.wire THEN W \cup {last} ELSE W
    BY FramesGrow
<1>2. /\ \A d : Verify!Count(g, W, d) = Verify!Count(fs, W, d)
      /\ Verify!InSchedule(g, W) <=> Verify!InSchedule(fs, W)
    BY <1>1, OlderFrames
<1>3. /\ \A d : Verify!Count(g, W \cup {last}, d) =
                  IF f.dir = d THEN Verify!Count(fs, W, d) + 1 ELSE Verify!Count(fs, W, d)
      /\ Verify!InSchedule(g, W \cup {last}) <=>
            /\ Verify!InSchedule(fs, W)
            /\ f.dir \in Verify!Directions =>
                  /\ f.n = Verify!Count(fs, W, f.dir)
                  /\ f.body = "whole" /\ f.length_right
    BY <1>1, NewestFrame
<1>4. /\ r \in SessionReports /\ r.counters = r.expected
      /\ r.error = "none" /\ r.framing_valid /\ r.failed = 0 =>
            /\ Verify!InSchedule(fs, W)
            /\ \A d \in Verify!Directions : r.counters[d] = Verify!Count(fs, W, d)
    BY DEF SessionTells
<1>5. r \in [error : {"none", "BadDirection"}, counters : [Verify!Directions -> Nat],
             expected : [Verify!Directions -> Nat], frames_seen : Nat, failed : Nat,
             success : Nat, opaque : Nat, framing_valid : BOOLEAN]
    BY <1>4 DEF SessionReports
<1>6. f.dir # "other" <=> f.dir \in Verify!Directions
    BY DEF Verify!FrameType, Verify!Directions
<1> HIDE DEF g, last, t, W
<1>7. CASE r.error # "none"
  <2>1. t = r
      BY <1>7 DEF Verify!SessionStep, t
  <2> QED
      BY <1>4, <1>7, <2>1 DEF SessionTells, g, t
<1>8. CASE r.error = "none" /\ f.dir = "other"
  <2>1. t = [[r EXCEPT !.frames_seen = @ + 1] EXCEPT !.error = "BadDirection"]
      BY <1>8 DEF Verify!SessionStep, t
  <2>2. t = [error |-> "BadDirection", counters |-> r.counters, expected |-> r.expected,
             frames_seen |-> r.frames_seen + 1, failed |-> r.failed, success |-> r.success,
             opaque |-> r.opaque, framing_valid |-> r.framing_valid]
      BY <1>5, <2>1
  <2>3. t \in SessionReports /\ t.error # "none" /\ t.counters = t.expected
      BY <1>4, <1>5, <2>2 DEF SessionReports
  <2> QED
      BY <2>3 DEF SessionTells, g, t
<1>9. CASE r.error = "none" /\ f.dir # "other" /\ ~f.wire
  <2>1. t = [r EXCEPT !.frames_seen = @ + 1]
      BY <1>9 DEF Verify!SessionStep, t
  <2>2. /\ t \in SessionReports /\ t.error = "none" /\ t.counters = r.counters
        /\ t.expected = r.expected /\ t.framing_valid = r.framing_valid /\ t.failed = r.failed
    <3>1. t = [error |-> r.error, counters |-> r.counters, expected |-> r.expected,
               frames_seen |-> r.frames_seen + 1, failed |-> r.failed, success |-> r.success,
               opaque |-> r.opaque, framing_valid |-> r.framing_valid]
        BY <1>5, <2>1
    <3> QED
        BY <1>5, <1>9, <3>1 DEF SessionReports
  <2>3. Verify!Wired(g) = W
      BY <1>1, <1>9
  <2>4. /\ t.counters = t.expected
        /\ t.framing_valid /\ t.failed = 0 =>
              /\ Verify!InSchedule(g, Verify!Wired(g))
              /\ \A d \in Verify!Directions : t.counters[d] = Verify!Count(g, Verify!Wired(g), d)
      BY <1>2, <1>4, <1>9, <2>2, <2>3
  <2> QED
      BY <2>2, <2>4 DEF SessionTells, g, t
<1>10. CASE r.error = "none" /\ f.dir # "other" /\ f.wire
  <2> DEFINE o == Verify!Outcome(f, r.counters)
  <2>1. /\ t \in SessionReports /\ t.error = "none"
        /\ t.counters = Verify!Decode(f, r.counters)
        /\ t.expected = IF o \in {"decrypted", "decrypt_failed"}
                        THEN [r.expected EXCEPT ![f.dir] = @ + 1] ELSE r.expected
        /\ t.framing_valid <=> r.framing_valid /\ o # "framing"
        /\ t.failed = IF \/ o \in {"empty_ciphertext", "decrypt_failed"}
                         \/ (o = "decrypted" /\ ~f.length_right)
                      THEN r.failed + 1 ELSE r.failed
    <3> HIDE DEF o
    <3>1. o = Verify!Outcome(f, r.counters) /\ t = Verify!SessionStep(r, f)
        BY DEF o, t
    <3> QED
        BY <1>4, <1>6, <1>10, <3>1, SessionRound
  <2>2. /\ o \in {"framing", "opaque", "clear", "empty_ciphertext", "decrypted", "decrypt_failed"}
        /\ o \in {"decrypted", "decrypt_failed"} => Verify!IsSealed(f)
        /\ o = "decrypted" <=> f.kind = "encrypted" /\ f.body = "whole" /\ f.n = r.counters[f.dir]
        /\ Verify!IsSealed(f) => o \in {"framing", "empty_ciphertext", "decrypted", "decrypt_failed"}
    <3> HIDE DEF o
    <3>1. o = Verify!Outcome(f, r.counters) /\ r.counters \in [Verify!Directions -> Nat]
        BY <1>5, Zenon DEF o
    <3> QED
        BY <1>6, <1>10, <3>1, OutcomeOf
  <2>3. t.counters = IF o \in {"decrypted", "decrypt_failed"}
                     THEN [r.counters EXCEPT ![f.dir] = @ + 1] ELSE r.counters
      BY <2>1, Zenon DEF Verify!Decode
  <2>4. t.counters = t.expected
      BY <1>4, <2>1, <2>3, Zenon
  <2> HIDE DEF o
  <2>5. ASSUME t.framing_valid, t.failed = 0
        PROVE  /\ r.framing_valid /\ r.failed = 0
               /\ \/ o \in {"opaque", "clear"}
                  \/ (o = "decrypted" /\ f.length_right)
      BY <1>5, <2>1, <2>2, <2>5
  <2>6. ASSUME t.framing_valid, t.failed = 0
        PROVE  /\ Verify!InSchedule(g, Verify!Wired(g))
               /\ \A d \in Verify!Directions : t.counters[d] = Verify!Count(g, Verify!Wired(g), d)
    <3>1. /\ Verify!InSchedule(fs, W)
          /\ \A d \in Verify!Directions : r.counters[d] = Verify!Count(fs, W, d)
        BY <1>4, <1>10, <2>5, <2>6
    <3>2. CASE o \in {"opaque", "clear"}
      <4>1. Verify!Wired(g) = W /\ t.counters = r.counters
          BY <1>1, <2>2, <2>3, <3>2
      <4> QED
          BY <1>2, <3>1, <4>1
    <3>3. CASE o = "decrypted" /\ f.length_right
      <4>1. /\ Verify!Wired(g) = W \cup {last}
            /\ t.counters = [r.counters EXCEPT ![f.dir] = @ + 1]
            /\ f.body = "whole" /\ f.n = r.counters[f.dir]
          BY <1>1, <1>10, <2>2, <2>3, <3>3
      <4>2. Verify!InSchedule(g, W \cup {last})
          BY <1>3, <1>6, <1>10, <3>1, <3>3, <4>1
      <4>3. \A d \in Verify!Directions : t.counters[d] = Verify!Count(g, W \cup {last}, d)
        <5> TAKE d \in Verify!Directions
        <5>1. r.counters[d] = Verify!Count(fs, W, d) /\ r.counters \in [Verify!Directions -> Nat]
            BY <1>5, <3>1
        <5>2. Verify!Count(g, W \cup {last}, d) =
                  IF f.dir = d THEN Verify!Count(fs, W, d) + 1 ELSE Verify!Count(fs, W, d)
            BY <1>3
        <5> QED
            BY <4>1, <5>1, <5>2
      <4> QED
          BY <4>1, <4>2, <4>3
    <3> QED
        BY <2>5, <2>6, <3>2, <3>3
  <2> QED
      BY <2>1, <2>4, <2>6 DEF SessionTells, g, t
<1> QED
    BY <1>7, <1>8, <1>9, <1>10

(* The reports of bap-pipeline-verify.                                     *)
PipelineReports ==
    [collected : BOOLEAN, fed : Nat,
     error : {"none", "framing", "opaque", "empty_ciphertext", "decrypt_failed"},
     counters : [Verify!Directions -> Nat], success : Nat]

LEMMA PipelineFields ==
    ASSUME NEW p \in PipelineReports, NEW c
    PROVE  /\ [p EXCEPT !.fed = @ + 1] =
                 [collected |-> p.collected, fed |-> p.fed + 1, error |-> p.error,
                  counters |-> p.counters, success |-> p.success]
           /\ [[p EXCEPT !.fed = @ + 1] EXCEPT !.counters = c] =
                 [collected |-> p.collected, fed |-> p.fed + 1, error |-> p.error,
                  counters |-> c, success |-> p.success]
<1> DEFINE q == [p EXCEPT !.fed = @ + 1]
<1>1. q = [collected |-> p.collected, fed |-> p.fed + 1, error |-> p.error,
           counters |-> p.counters, success |-> p.success]
    BY DEF PipelineReports
<1> HIDE DEF q
<1>2. [q EXCEPT !.counters = c] =
          [collected |-> p.collected, fed |-> p.fed + 1, error |-> p.error,
           counters |-> c, success |-> p.success]
    BY <1>1
<1> QED
    BY <1>1, <1>2 DEF q

(* One round of bap-pipeline-verify's loop over a frame both verifiers of  *)
(* whole sessions can read.                                                *)
LEMMA PipelineRound ==
    ASSUME NEW f \in Verify!FrameType, Verify!Plain(f),
           NEW p \in PipelineReports, p.collected,
           NEW o, o = Verify!Outcome(f, p.counters),
           NEW t, t = Verify!PipelineStep(p, f)
    PROVE  /\ t \in PipelineReports /\ t.collected /\ t.fed = p.fed + 1
           /\ t.error = "none" <=> p.error = "none" /\ o \in {"clear", "decrypted"}
           /\ t.error = "none" =>
                 /\ t.counters = Verify!Decode(f, p.counters)
                 /\ t.success = IF o = "decrypted" THEN p.success + 1 ELSE p.success
<1> DEFINE q == [p EXCEPT !.fed = @ + 1]
           c == Verify!Decode(f, p.counters)
           s == [q EXCEPT !.counters = c]
<1>1. p \in [collected : BOOLEAN, fed : Nat,
             error : {"none", "framing", "opaque", "empty_ciphertext", "decrypt_failed"},
             counters : [Verify!Directions -> Nat], success : Nat]
    BY DEF PipelineReports
<1>2. /\ f.wire /\ f.kind # "other" /\ f.body # "trailing" /\ f.dir # "other"
      /\ f.dir \in Verify!Directions
    BY DEF Verify!Plain, Verify!FrameType, Verify!Directions
<1>3. q = [collected |-> p.collected, fed |-> p.fed + 1, error |-> p.error,
           counters |-> p.counters, success |-> p.success]
    BY PipelineFields
<1>4. o \in {"framing", "clear", "empty_ciphertext", "decrypted", "decrypt_failed"}
    BY <1>1, <1>2, OutcomeOf
<1>5. c \in [Verify!Directions -> Nat]
    BY <1>1, <1>2 DEF Verify!Decode
<1>6. t = Verify!RunDirected(q, f)
  <2>1. (p.collected /\ f.dir # "other" /\ f.kind # "other" /\ f.body # "trailing") = p.collected
      BY <1>1, <1>2
  <2>2. [p EXCEPT !.fed = @ + 1, !.collected = p.collected] = q
      BY <1>1
  <2>3. t = Verify!RunDirected([p EXCEPT !.fed = @ + 1, !.collected = p.collected], f)
      BY <1>2, <2>1, Zenon DEF Verify!PipelineStep
  <2> QED
      BY <2>2, <2>3
<1> HIDE DEF q
<1>7. o = Verify!Outcome(f, q.counters) /\ c = Verify!Decode(f, q.counters)
    BY <1>3
<1>8. t = IF q.error # "none" THEN q
          ELSE IF o = "clear" THEN s
          ELSE IF o = "decrypted" THEN [s EXCEPT !.success = @ + 1]
          ELSE [s EXCEPT !.error = o]
    BY <1>6, <1>7 DEF Verify!RunDirected
<1> HIDE DEF c
<1>9. s = [collected |-> p.collected, fed |-> p.fed + 1, error |-> p.error,
           counters |-> c, success |-> p.success]
    BY PipelineFields, Zenon DEF q
<1> HIDE DEF s
<1>10. CASE p.error # "none"
  <2>1. t = q
      BY <1>3, <1>8, <1>10
  <2> QED
      BY <1>1, <1>3, <1>10, <2>1 DEF PipelineReports
<1>11. CASE p.error = "none" /\ o = "clear"
  <2>1. t = s
      BY <1>3, <1>8, <1>11
  <2> QED
      BY <1>1, <1>5, <1>9, <1>11, <2>1 DEF PipelineReports, c
<1>12. CASE p.error = "none" /\ o = "decrypted"
  <2>1. t = [s EXCEPT !.success = @ + 1]
      BY <1>3, <1>8, <1>12
  <2>2. t = [collected |-> p.collected, fed |-> p.fed + 1, error |-> p.error,
             counters |-> c, success |-> p.success + 1]
      BY <1>9, <2>1
  <2> QED
      BY <1>1, <1>5, <1>12, <2>2 DEF PipelineReports, c
<1>13. CASE p.error = "none" /\ o \notin {"clear", "decrypted"}
  <2>1. t = [s EXCEPT !.error = o]
      BY <1>3, <1>8, <1>13
  <2>2. t = [collected |-> p.collected, fed |-> p.fed + 1, error |-> o,
             counters |-> c, success |-> p.success]
      BY <1>9, <2>1
  <2> QED
      BY <1>1, <1>4, <1>5, <1>13, <2>2 DEF PipelineReports
<1> QED
    BY <1>10, <1>11, <1>12, <1>13

AllPlain(fs) == \A i \in 1..Len(fs) : Verify!Plain(fs[i])

(* While every frame can be read by both, the pipeline stands exactly when *)
(* the session has nothing to report, and then their counters are equal.   *)
ReportsAgree(fs, r, p) ==
    AllPlain(fs) =>
        /\ p \in PipelineReports
        /\ r.error = "none" /\ p.collected
        /\ r.frames_seen = p.fed /\ p.fed = Len(fs)
        /\ p.error = "none" <=> r.framing_valid /\ r.failed = 0
        /\ p.error = "none" =>
              /\ p.counters = r.counters
              /\ p.counters["c2s"] + p.counters["s2c"] = p.success

LEMMA ReportsKeepAgreeing ==
    ASSUME NEW fs \in Seq(Verify!FrameType), NEW f \in Verify!FrameType,
           NEW r \in SessionReports, NEW p, ReportsAgree(fs, r, p)
    PROVE  ReportsAgree(Append(fs, f), Verify!SessionStep(r, f), Verify!PipelineStep(p, f))
<1> DEFINE g == Append(fs, f)
           u == Verify!SessionStep(r, f)
           t == Verify!PipelineStep(p, f)
<1> SUFFICES ASSUME AllPlain(g)
             PROVE  /\ t \in PipelineReports
                    /\ u.error = "none" /\ t.collected
                    /\ u.frames_seen = t.fed /\ t.fed = Len(g)
                    /\ t.error = "none" <=> u.framing_valid /\ u.failed = 0
                    /\ t.error = "none" =>
                          /\ t.counters = u.counters
                          /\ t.counters["c2s"] + t.counters["s2c"] = t.success
    BY Zenon DEF ReportsAgree
<1>1. AllPlain(fs) /\ Verify!Plain(f) /\ Len(g) = Len(fs) + 1
  <2>1. /\ \A i \in 1..Len(fs) : g[i] = fs[i] /\ i \in 1..Len(g)
        /\ g[Len(fs) + 1] = f /\ Len(fs) + 1 \in 1..Len(g)
        /\ Len(g) = Len(fs) + 1
      OBVIOUS
  <2> HIDE DEF g
  <2> QED
      BY <2>1 DEF AllPlain
<1>2. /\ p \in PipelineReports
      /\ r.error = "none" /\ p.collected
      /\ r.frames_seen = p.fed /\ p.fed = Len(fs)
      /\ p.error = "none" <=> r.framing_valid /\ r.failed = 0
      /\ p.error = "none" =>
            /\ p.counters = r.counters
            /\ p.counters["c2s"] + p.counters["s2c"] = p.success
    BY <1>1, Zenon DEF ReportsAgree
<1>3. /\ f.wire /\ f.kind # "other" /\ f.length_right
      /\ f.dir \in Verify!Directions
    BY <1>1 DEF Verify!Plain, Verify!FrameType, Verify!Directions
<1>4. r.failed \in Nat /\ r.counters \in [Verify!Directions -> Nat]
    BY DEF SessionReports
<1>5. p.counters \in [Verify!Directions -> Nat] /\ p.success \in Nat
    BY <1>2 DEF PipelineReports
<1> DEFINE o == Verify!Outcome(f, r.counters)
           o2 == Verify!Outcome(f, p.counters)
<1>6. /\ u \in SessionReports /\ u.error = "none"
      /\ u.frames_seen = r.frames_seen + 1
      /\ u.counters = Verify!Decode(f, r.counters)
      /\ u.expected = IF o \in {"decrypted", "decrypt_failed"}
                      THEN [r.expected EXCEPT ![f.dir] = @ + 1] ELSE r.expected
      /\ u.framing_valid <=> r.framing_valid /\ o # "framing"
      /\ u.failed = IF \/ o \in {"empty_ciphertext", "decrypt_failed"}
                       \/ (o = "decrypted" /\ ~f.length_right)
                    THEN r.failed + 1 ELSE r.failed
  <2> HIDE DEF o, u
  <2>1. o = Verify!Outcome(f, r.counters) /\ u = Verify!SessionStep(r, f)
      BY DEF o, u
  <2>2. r.error = "none"
      BY <1>2
  <2>3. f.wire /\ f.dir \in Verify!Directions
      BY <1>3
  <2> QED
      BY <2>1, <2>2, <2>3, SessionRound
<1>7. /\ t \in PipelineReports /\ t.collected /\ t.fed = p.fed + 1
      /\ t.error = "none" <=> p.error = "none" /\ o2 \in {"clear", "decrypted"}
      /\ t.error = "none" =>
            /\ t.counters = Verify!Decode(f, p.counters)
            /\ t.success = IF o2 = "decrypted" THEN p.success + 1 ELSE p.success
  <2> HIDE DEF o2, t
  <2>1. o2 = Verify!Outcome(f, p.counters) /\ t = Verify!PipelineStep(p, f)
      BY DEF o2, t
  <2> QED
      BY <1>1, <1>2, <2>1, PipelineRound
<1>8. /\ o \in {"framing", "opaque", "clear", "empty_ciphertext", "decrypted", "decrypt_failed"}
      /\ o = "opaque" => f.kind = "other"
    BY <1>3, <1>4, OutcomeOf
<1>9. p.error = "none" => o2 = o
    BY <1>2
<1>10. t.counters = Verify!Decode(f, p.counters) => t.counters =
            IF o2 \in {"decrypted", "decrypt_failed"} THEN [p.counters EXCEPT ![f.dir] = @ + 1]
            ELSE p.counters
    BY Zenon DEF Verify!Decode
<1> HIDE DEF g, u, t, o, o2
<1>11. t.error = "none" <=> u.framing_valid /\ u.failed = 0
  <2>1. o \in {"clear", "decrypted"} <=>
            o \notin {"framing", "empty_ciphertext", "decrypt_failed"}
      BY <1>3, <1>8
  <2> QED
      BY <1>2, <1>3, <1>4, <1>6, <1>7, <1>9, <2>1
<1>12. t.error = "none" =>
            /\ t.counters = u.counters
            /\ t.counters["c2s"] + t.counters["s2c"] = t.success
  <2> SUFFICES ASSUME t.error = "none"
               PROVE  /\ t.counters = u.counters
                      /\ t.counters["c2s"] + t.counters["s2c"] = t.success
      OBVIOUS
  <2>1. /\ p.error = "none" /\ o2 \in {"clear", "decrypted"}
        /\ t.counters = Verify!Decode(f, p.counters)
        /\ t.success = IF o2 = "decrypted" THEN p.success + 1 ELSE p.success
        /\ p.counters = r.counters
        /\ p.counters["c2s"] + p.counters["s2c"] = p.success
      BY <1>2, <1>7
  <2>2. t.counters = u.counters
      BY <1>6, <2>1
  <2>3. t.counters = IF o2 = "decrypted" THEN [p.counters EXCEPT ![f.dir] = @ + 1] ELSE p.counters
      BY <1>10, <2>1
  <2>4. t.counters["c2s"] + t.counters["s2c"] = t.success
      BY <1>3, <1>5, <2>1, <2>3 DEF Verify!Directions
  <2> QED
      BY <2>2, <2>4
<1> QED
    BY <1>1, <1>2, <1>6, <1>7, <1>11, <1>12

(* The inductive invariant of a file that is being read.                   *)
FileInv ==
    /\ capture \in Seq(Verify!FrameType)
    /\ SequenceTells(capture, sequence)
    /\ SessionTells(capture, session)
    /\ ReportsAgree(capture, session, pipeline)

LEMMA FileInit == MCInit => FileInv
<1> SUFFICES ASSUME MCInit PROVE FileInv
    OBVIOUS
<1>1. /\ capture = <<>> /\ sequence = Verify!SequenceStart
      /\ session = Verify!SessionStart /\ pipeline = Verify!PipelineStart
    BY DEF MCInit, Verify!Init
<1>2. /\ capture \in Seq(Verify!FrameType)
      /\ Verify!Sealed(capture) = {} /\ Verify!Wired(capture) = {}
    BY <1>1 DEF Verify!Sealed, Verify!Wired
<1>3. \A d : Verify!Count(capture, {}, d) = 0
  <2> TAKE d
  <2>1. {i \in {} : capture[i].dir = d} = {}
      OBVIOUS
  <2> QED
      BY <2>1, CountOf, FS_EmptySet
<1>4. Verify!Zero \in [Verify!Directions -> Nat] /\ \A d \in Verify!Directions : Verify!Zero[d] = 0
    BY DEF Verify!Zero
<1>5. SequenceTells(capture, sequence)
  <2>1. RightFile(capture)
      BY <1>2 DEF RightFile, Verify!InSchedule
  <2>2. /\ sequence \in SequenceReports /\ sequence.error = "none"
        /\ sequence.counters = Verify!Zero /\ sequence.frames = 0
        /\ sequence.nonce_ok_all = TRUE /\ sequence.gcm_ok_all = TRUE
      BY <1>1, <1>4, Zenon DEF Verify!SequenceStart, SequenceReports
  <2> QED
      BY <1>2, <1>3, <1>4, <2>1, <2>2 DEF SequenceTells
<1>6. SessionTells(capture, session)
  <2>1. Verify!InSchedule(capture, Verify!Wired(capture))
      BY <1>2 DEF Verify!InSchedule
  <2>2. session \in SessionReports /\ session.counters = Verify!Zero /\ session.expected = Verify!Zero
      BY <1>1, <1>4, Zenon DEF Verify!SessionStart, SessionReports
  <2> QED
      BY <1>2, <1>3, <1>4, <2>1, <2>2 DEF SessionTells
<1>7. ReportsAgree(capture, session, pipeline)
  <2>1. /\ session.error = "none" /\ session.counters = Verify!Zero /\ session.frames_seen = 0
        /\ session.failed = 0 /\ session.framing_valid = TRUE
      BY <1>1, Zenon DEF Verify!SessionStart
  <2>2. /\ pipeline \in PipelineReports
        /\ pipeline.error = "none" /\ pipeline.counters = Verify!Zero /\ pipeline.fed = 0
        /\ pipeline.success = 0 /\ pipeline.collected = TRUE
      BY <1>1, <1>4, Zenon DEF Verify!PipelineStart, PipelineReports
  <2> QED
      BY <1>1, <1>4, <2>1, <2>2 DEF ReportsAgree, Verify!Directions
<1> QED
    BY <1>2, <1>5, <1>6, <1>7 DEF FileInv

LEMMA FileStep == FileInv /\ [MCNext]_<<vars, subject, raw, file>> => FileInv'
<1> SUFFICES ASSUME FileInv, [MCNext]_<<vars, subject, raw, file>> PROVE FileInv'
    OBVIOUS
<1>1. CASE Verify!Record
  <2>1. PICK f \in CapturedFrames :
            /\ capture' = Append(capture, f)
            /\ sequence' = IF Verify!IsSealed(f) THEN Verify!SequenceStep(sequence, f) ELSE sequence
            /\ session' = Verify!SessionStep(session, f)
            /\ pipeline' = Verify!PipelineStep(pipeline, f)
      BY <1>1, Zenon DEF Verify!Record
  <2>2. f \in Verify!FrameType /\ capture \in Seq(Verify!FrameType)
      BY CapturedFramesAssumption DEF FileInv
  <2>3. capture' \in Seq(Verify!FrameType)
      BY <2>1, <2>2
  <2>4. SequenceTells(capture, sequence)'
    <3>1. SequenceTells(Append(capture, f),
                        IF Verify!IsSealed(f) THEN Verify!SequenceStep(sequence, f) ELSE sequence)
        BY <2>2, SequenceKeepsTelling, Zenon DEF FileInv
    <3> QED
        BY <2>1, <3>1, Zenon
  <2>5. SessionTells(capture, session)'
    <3>1. SessionTells(Append(capture, f), Verify!SessionStep(session, f))
        BY <2>2, SessionKeepsTelling, Zenon DEF FileInv
    <3> QED
        BY <2>1, <3>1, Zenon
  <2>6. ReportsAgree(capture, session, pipeline)'
    <3>1. session \in SessionReports
        BY DEF FileInv, SessionTells
    <3>2. ReportsAgree(Append(capture, f), Verify!SessionStep(session, f), Verify!PipelineStep(pipeline, f))
        BY <2>2, <3>1, ReportsKeepAgreeing, Zenon DEF FileInv
    <3> QED
        BY <2>1, <3>2, Zenon
  <2> QED
      BY <2>3, <2>4, <2>5, <2>6, Zenon DEF FileInv
<1>2. CASE UNCHANGED file
  <2>1. capture' = capture /\ sequence' = sequence /\ session' = session /\ pipeline' = pipeline
      BY <1>2 DEF file
  <2> QED
      BY <2>1, Zenon DEF FileInv
<1> QED
    BY <1>1, <1>2, Zenon DEF MCNext

LEMMA FileTells == FileInv => VerifiersVouchFor
<1> SUFFICES ASSUME FileInv PROVE VerifiersVouchFor
    OBVIOUS
<1>1. /\ capture \in Seq(Verify!FrameType) /\ SequenceTells(capture, sequence)
      /\ SessionTells(capture, session) /\ ReportsAgree(capture, session, pipeline)
    BY DEF FileInv
<1>2. Verify!SequencePassesOnlySchedule
  <2>1. RightFile(capture) <=>
            /\ Verify!InSchedule(capture, Verify!Sealed(capture))
            /\ \A i \in Verify!Sealed(capture) :
                  capture[i].dir # "other" /\ capture[i].nonce \in {-1, capture[i].n}
      BY Zenon DEF RightFile
  <2>2. Verify!SequenceVerified(sequence) <=> Verify!Sealed(capture) # {} /\ RightFile(capture)
      BY <1>1 DEF SequenceTells, Verify!SequenceVerified
  <2> QED
      BY <2>1, <2>2, Zenon DEF Verify!SequencePassesOnlySchedule
<1>3. Verify!VerifiedSessionHasNoGap /\ Verify!ExpectedIsConsumed
    BY <1>1 DEF SessionTells, Verify!VerifiedSessionHasNoGap, Verify!ExpectedIsConsumed,
                Verify!SessionVerified, Verify!NonceStateValid
<1>4. Verify!VerifiersAgree
  <2> SUFFICES ASSUME capture # <<>>, AllPlain(capture)
               PROVE  Verify!SessionVerified(session) <=> Verify!PipelineVerified(pipeline)
      BY Zenon DEF Verify!VerifiersAgree, AllPlain
  <2>1. /\ session.error = "none" /\ pipeline.collected
        /\ session.frames_seen = pipeline.fed /\ pipeline.fed = Len(capture)
        /\ pipeline.error = "none" <=> session.framing_valid /\ session.failed = 0
        /\ pipeline.error = "none" =>
              pipeline.counters["c2s"] + pipeline.counters["s2c"] = pipeline.success
      BY <1>1, Zenon DEF ReportsAgree
  <2>2. Len(capture) > 0
      BY <1>1
  <2>3. session.counters = session.expected
      BY <1>1 DEF SessionTells
  <2> QED
      BY <2>1, <2>2, <2>3 DEF Verify!SessionVerified, Verify!PipelineVerified, Verify!NonceStateValid
<1>5. Verify!FirstFrameAgrees
  <2> DEFINE f == capture[1]
             t == Verify!SequenceStep(Verify!SequenceStart, f)
  <2> SUFFICES ASSUME capture # <<>>, f.kind = "encrypted", f.dir # "other",
                      f.body \in {"whole", "changed"}, f.nonce = -1
               PROVE  Verify!FirstFrameVerified(f, "DefaultForDirection", f.dir)
                        <=> Verify!SequenceVerified(t)
      BY Zenon DEF Verify!FirstFrameAgrees
  <2>1. f \in Verify!FrameType
      BY <1>1
  <2> HIDE DEF f
  <2>2. f.dir \in Verify!Directions
      BY <2>1 DEF Verify!FrameType, Verify!Directions
  <2>3. Verify!SequenceStart.error = "none" /\ Verify!SequenceStart.counters[f.dir] = 0
      BY <2>2 DEF Verify!SequenceStart, Verify!Zero
  <2>4. t = [Verify!SequenceStart EXCEPT
                !.counters[f.dir] = @ + 1, !.frames = @ + 1,
                !.nonce_ok_all = @ /\ f.nonce \in {-1, Verify!SequenceStart.counters[f.dir]},
                !.gcm_ok_all = @ /\ Verify!Opens(f, Verify!SequenceStart.counters[f.dir])
                                 /\ f.length_right]
      BY <2>3 DEF Verify!SequenceStep
  <2>5. Verify!SequenceStart = [error |-> "none", counters |-> Verify!Zero, frames |-> 0,
                                nonce_ok_all |-> TRUE, gcm_ok_all |-> TRUE]
      BY DEF Verify!SequenceStart
  <2>6. /\ t.error = "none" /\ t.frames = 1
        /\ t.nonce_ok_all <=> f.nonce \in {-1, 0}
        /\ t.gcm_ok_all <=> Verify!Opens(f, 0) /\ f.length_right
    <3> DEFINE q == Verify!SequenceStart
               c == [q.counters EXCEPT ![f.dir] = @ + 1]
               named == q.nonce_ok_all /\ f.nonce \in {-1, q.counters[f.dir]}
               opened == q.gcm_ok_all /\ Verify!Opens(f, q.counters[f.dir]) /\ f.length_right
    <3>1. t = [q EXCEPT !.counters = c, !.frames = @ + 1,
                        !.nonce_ok_all = named, !.gcm_ok_all = opened]
        BY <2>4, Zenon
    <3>2. q \in [error : {"none"}, counters : [Verify!Directions -> Nat], frames : {0},
                 nonce_ok_all : {TRUE}, gcm_ok_all : {TRUE}]
      <4>1. Verify!Zero \in [Verify!Directions -> Nat]
          BY DEF Verify!Zero
      <4> QED
          BY <2>5, <4>1, Zenon
    <3>3. /\ named \in BOOLEAN /\ named <=> f.nonce \in {-1, 0}
          /\ opened \in BOOLEAN /\ opened <=> Verify!Opens(f, 0) /\ f.length_right
      <4>1. q.counters[f.dir] = 0
          BY <2>3
      <4> HIDE DEF q
      <4>3. q.nonce_ok_all = TRUE /\ q.gcm_ok_all = TRUE
          BY <3>2, Zenon
      <4>2. named \in BOOLEAN /\ opened \in BOOLEAN
          OBVIOUS
      <4> QED
          BY <4>1, <4>2, <4>3
    <3> HIDE DEF t, c, q, named, opened
    <3>4. t = [error |-> q.error, counters |-> c, frames |-> q.frames + 1,
               nonce_ok_all |-> named, gcm_ok_all |-> opened]
        BY <3>1, <3>2
    <3>5. q.frames + 1 = 1 /\ q.error = "none"
        BY <3>2
    <3> QED
        BY <3>3, <3>4, <3>5, Zenon
  <2>7. Verify!SequenceVerified(t) <=> Verify!Opens(f, 0) /\ f.length_right
    <3> HIDE DEF t
    <3> QED
        BY <2>6 DEF Verify!SequenceVerified
  <2>8. Verify!FirstFrameVerified(f, "DefaultForDirection", f.dir)
            <=> Verify!Opens(f, 0) /\ f.length_right
      BY DEF Verify!FirstFrameVerified, Verify!BaseOf
  <2> QED
      BY <2>7, <2>8, Zenon
<1> QED
    BY <1>2, <1>3, <1>4, <1>5 DEF VerifiersVouchFor

(* What the offline verifiers vouch for is so, for every set of frames and *)
(* every length of the file.                                               *)
THEOREM VerifiersOnlyVouch == MCSpec => []VerifiersVouchFor
BY FileInit, FileStep, FileTells, PTL DEF MCSpec

-----------------------------------------------------------------------------

USE LowRangeAssumption, HighRangeAssumption, MaxIssuedAssumption

(* The base nonce of a direction is a nonce.                               *)
LEMMA BaseType ==
    ASSUME NEW n \in Nonces, NEW d \in Directions
    PROVE  DirectionBase(n, d) \in Nonces
BY DEF DirectionBase, FlipLowBit, Nonces

(* The increment, with its carry and its wrap, stays a nonce.              *)
LEMMA IncrementType == \A n \in Nonces : Increment(n) \in Nonces
BY DEF Increment, Nonces

(* The schedule k increments after a base stays in the nonces.             *)
LEMMA AdvancedType ==
    ASSUME NEW b \in Nonces, NEW k \in 0..LowRange
    PROVE  Advanced(b, k) \in Nonces
BY DEF Advanced, Nonces

(* Incrementing is advancing by one more.                                  *)
LEMMA IncrementAdvances ==
    ASSUME NEW b \in Nonces, NEW k \in 0..LowRange - 1
    PROVE  Increment(Advanced(b, k)) = Advanced(b, k + 1)
BY DEF Increment, Advanced, Nonces

(* A direction does not come back to a nonce within LowRange frames.       *)
LEMMA AdvancedInjective ==
    ASSUME NEW b \in Nonces, NEW j \in 0..LowRange - 1, NEW k \in 0..LowRange - 1,
           j # k
    PROVE  Advanced(b, j) # Advanced(b, k)
BY DEF Advanced, Nonces

(* The two directions differ in the last byte until one has sent LowRange  *)
(* frames more than the other.                                             *)
LEMMA DirectionsApart ==
    ASSUME NEW n \in Nonces, NEW j \in 0..LowRange - 1, NEW k \in 0..LowRange - 1
    PROVE  Advanced(DirectionBase(n, "c2s"), j) # Advanced(DirectionBase(n, "s2c"), k)
<1>1. /\ DirectionBase(n, "c2s").low = n.low
      /\ DirectionBase(n, "c2s").high # n.high
      /\ DirectionBase(n, "c2s").high \in 0..HighRange - 1
      /\ DirectionBase(n, "s2c") = n
    BY DEF DirectionBase, FlipLowBit, Nonces
<1> DEFINE c == DirectionBase(n, "c2s")
<1>2. c \in Nonces
    BY BaseType DEF Directions
<1> HIDE DEF c
<1>3. Advanced(c, j) # Advanced(n, k)
    BY <1>1, <1>2 DEF Advanced, Nonces, c
<1> QED
    BY <1>1, <1>3 DEF c

(* The types hold, and the schedule is a function of the counters.         *)
THEOREM ScheduleHolds == Spec => [](TypeOK /\ Schedule)
<1>1. Init => TypeOK /\ Schedule
  <2> SUFFICES ASSUME Init PROVE TypeOK /\ Schedule
      OBVIOUS
  <2>1. \A d \in Directions : DirectionBase(base, d) \in Nonces
      BY BaseType DEF Init
  <2>2. \A b \in Nonces : Advanced(b, 0) = b
      BY DEF Advanced, Nonces
  <2> QED
      BY <2>1, <2>2 DEF Init, TypeOK, Schedule
<1>2. TypeOK /\ Schedule /\ [Next]_vars => (TypeOK /\ Schedule)'
  <2> SUFFICES ASSUME TypeOK, Schedule, [Next]_vars PROVE (TypeOK /\ Schedule)'
      OBVIOUS
  <2>1. ASSUME NEW d \in Directions, NextNonce(d) PROVE (TypeOK /\ Schedule)'
    <3>1. TypeOK'
        BY <2>1, IncrementType DEF NextNonce, TypeOK
    <3>2. \A e \in Directions : current'[e] = Advanced(DirectionBase(base', e), issued'[e])
      <4> TAKE e \in Directions
      <4>1. CASE e = d
        <5>1. /\ current'[e] = Increment(current[e])
              /\ issued'[e] = issued[e] + 1
              /\ base' = base
              /\ issued[e] \in 0..LowRange - 1
            BY <2>1, <4>1 DEF NextNonce, TypeOK
        <5>2. current[e] = Advanced(DirectionBase(base, e), issued[e])
            BY DEF Schedule
        <5>3. DirectionBase(base, e) \in Nonces
            BY BaseType DEF TypeOK
        <5> QED
            BY <5>1, <5>2, <5>3, IncrementAdvances
      <4>2. CASE e # d
          BY <2>1, <4>2 DEF NextNonce, Schedule, TypeOK
      <4> QED
          BY <4>1, <4>2
    <3>3. ASSUME NEW n \in used'
          PROVE  \E e \in Directions : \E k \in 0..issued'[e] - 1 :
                    n = Advanced(DirectionBase(base', e), k)
      <4>1. CASE n \in used
        <5>1. PICK e \in Directions : \E k \in 0..issued[e] - 1 :
                    n = Advanced(DirectionBase(base, e), k)
            BY <4>1 DEF Schedule
        <5>2. PICK k \in 0..issued[e] - 1 : n = Advanced(DirectionBase(base, e), k)
            BY <5>1
        <5>3. k \in 0..issued'[e] - 1 /\ base' = base
            BY <2>1 DEF NextNonce, TypeOK
        <5> QED
            BY <5>2, <5>3
      <4>2. CASE n = current[d]
        <5>1. issued[d] \in 0..issued'[d] - 1 /\ base' = base
            BY <2>1 DEF NextNonce, TypeOK
        <5>2. n = Advanced(DirectionBase(base, d), issued[d])
            BY <4>2 DEF Schedule
        <5> QED
            BY <5>1, <5>2
      <4> QED
          BY <2>1, <4>1, <4>2 DEF NextNonce
    <3> QED
        BY <3>1, <3>2, <3>3 DEF Schedule
  <2>2. CASE UNCHANGED vars
      BY <2>2 DEF vars, TypeOK, Schedule
  <2> QED
      BY <2>1, <2>2 DEF Next
<1> QED
    BY <1>1, <1>2, PTL DEF Spec

(* SessionNonces implements FreshNonces: every nonce issued is one that    *)
(* was never issued before, in either direction.                           *)
THEOREM NoncesAreFresh == Spec => NeverReused
<1>1. Init => Fresh!Init
    BY DEF Init, Fresh!Init, Requests, Directions
<1>2. TypeOK /\ Schedule /\ [Next]_vars => [Fresh!Issue]_<<used, Requests>>
  <2> SUFFICES ASSUME TypeOK, Schedule, [Next]_vars
               PROVE  [Fresh!Issue]_<<used, Requests>>
      OBVIOUS
  <2>1. ASSUME NEW d \in Directions, NextNonce(d) PROVE Fresh!Issue
    <3>1. current[d] \in Nonces /\ used' = used \cup {current[d]}
        BY <2>1 DEF NextNonce, TypeOK
    <3>2. current[d] \notin used
      <4> SUFFICES ASSUME current[d] \in used PROVE FALSE
          OBVIOUS
      <4>1. PICK e \in Directions : \E k \in 0..issued[e] - 1 :
                  current[d] = Advanced(DirectionBase(base, e), k)
          BY DEF Schedule
      <4>2. PICK k \in 0..issued[e] - 1 : current[d] = Advanced(DirectionBase(base, e), k)
          BY <4>1
      <4>3. current[d] = Advanced(DirectionBase(base, d), issued[d])
          BY DEF Schedule
      <4>4. /\ issued[d] \in 0..LowRange - 1
            /\ k \in 0..LowRange - 1
            /\ base \in Nonces
        <5>1. issued[d] \in 0..LowRange - 1 /\ base \in Nonces
            BY <2>1 DEF NextNonce, TypeOK
        <5>2. issued[e] \in 0..LowRange - 1
            BY DEF TypeOK
        <5> QED
            BY <5>1, <5>2
      <4>5. CASE e = d
        <5>1. k # issued[d]
            BY <4>5 DEF TypeOK
        <5>2. DirectionBase(base, d) \in Nonces
            BY <4>4, BaseType
        <5> QED
            BY <4>2, <4>3, <4>4, <4>5, <5>1, <5>2, AdvancedInjective
      <4>6. CASE e # d
        <5>1. \/ d = "c2s" /\ e = "s2c"
              \/ d = "s2c" /\ e = "c2s"
            BY <4>6 DEF Directions
        <5>2. CASE d = "c2s" /\ e = "s2c"
            BY <4>2, <4>3, <4>4, <5>2, DirectionsApart
        <5>3. CASE d = "s2c" /\ e = "c2s"
            BY <4>2, <4>3, <4>4, <5>3, DirectionsApart
        <5> QED
            BY <5>1, <5>2, <5>3
      <4> QED
          BY <4>5, <4>6
    <3>3. Requests' = Requests + 1
        BY <2>1 DEF NextNonce, TypeOK, Requests, Directions
    <3> QED
        BY <3>1, <3>2, <3>3 DEF Fresh!Issue
  <2>2. CASE UNCHANGED vars
      BY <2>2 DEF vars, Requests
  <2> QED
      BY <2>1, <2>2 DEF Next
<1> QED
    BY <1>1, <1>2, ScheduleHolds, PTL DEF Spec, NeverReused, Fresh!Spec


-----------------------------------------------------------------------------

(* Induction in a form that needs no operator: a set of numbers with 0 and *)
(* every successor is all of Nat.                                          *)
LEMMA LeastElement ==
    ASSUME NEW T \in SUBSET Nat, T # {}
    PROVE  \E x \in T : \A y \in T : x <= y
<1> DEFINE Less == OpToRel(<, Nat)
<1>1. IsWellFoundedOn(Less, Nat)
    BY NatLessThanWellFounded
<1>2. \A x \in Nat, y \in Nat : <<x, y>> \in Less <=> x < y
    BY DEF OpToRel
<1> HIDE DEF Less
<1>3. PICK x \in T : \A y \in T : ~(<<y, x>> \in Less)
    BY <1>1, WFMin, Zenon
<1>4. ASSUME NEW y \in T PROVE x <= y
  <2>1. x \in Nat /\ y \in Nat
      OBVIOUS
  <2>2. ~(y < x)
      BY <1>2, <1>3, <2>1, Zenon
  <2> QED
      BY <2>1, <2>2
<1> QED
    BY <1>4

LEMMA SetInduction ==
    ASSUME NEW T, 0 \in T, \A n \in Nat : n \in T => n + 1 \in T
    PROVE  Nat \subseteq T
<1> SUFFICES ASSUME Nat \ T # {} PROVE FALSE
    OBVIOUS
<1>1. PICK x \in Nat \ T : \A y \in Nat \ T : x <= y
    BY LeastElement
<1>2. x - 1 \in Nat /\ x = (x - 1) + 1 /\ ~(x <= x - 1)
    BY <1>1
<1>3. x - 1 \in T
    BY <1>1, <1>2
<1> QED
    BY <1>1, <1>2, <1>3

(* Over X, a function that starts at x and goes on by next exists on every *)
(* interval from 0.                                                        *)
Recursive(X) ==
    \A x \in X : \A next \in [Nat -> [X -> X]] : \A n \in Nat :
        \E f \in [0..n -> X] : f[0] = x /\ \A k \in 1..n : f[k] = next[k][f[k - 1]]

LEMMA RecursionExists == \A X : Recursive(X)
<1> TAKE X
<1> USE DEF Recursive
<1> TAKE x \in X
<1> TAKE next \in [Nat -> [X -> X]]
<1> TAKE n \in Nat
<1> DEFINE Built(m) ==
        \E f \in [0..m -> X] : f[0] = x /\ \A k \in 1..m : f[k] = next[k][f[k - 1]]
           T == {m \in Nat : Built(m)}
<1>1. 0 \in T
  <2> DEFINE f == [k \in 0..0 |-> x]
  <2>1. f \in [0..0 -> X] /\ f[0] = x /\ 1..0 = {}
      OBVIOUS
  <2> QED
      BY <2>1
<1>2. ASSUME NEW m \in Nat, m \in T PROVE m + 1 \in T
  <2>1. PICK f \in [0..m -> X] : f[0] = x /\ \A k \in 1..m : f[k] = next[k][f[k - 1]]
      BY <1>2
  <2> DEFINE last == next[m + 1][f[m]]
             g == [k \in 0..m + 1 |-> IF k = m + 1 THEN last ELSE f[k]]
  <2>2. last \in X
      BY <2>1
  <2>3. g \in [0..m + 1 -> X]
    <3>1. \A k \in 0..m + 1 : k # m + 1 => f[k] \in X
        BY <2>1
    <3> HIDE DEF last
    <3> QED
        BY <2>2, <3>1
  <2>4. /\ g[0] = f[0] /\ g[m + 1] = last /\ g[m] = f[m]
        /\ \A k \in 1..m : g[k] = f[k] /\ g[k - 1] = f[k - 1]
    <3> HIDE DEF last
    <3> QED
        OBVIOUS
  <2> HIDE DEF g
  <2>5. ASSUME NEW k \in 1..m + 1 PROVE g[k] = next[k][g[k - 1]]
    <3>1. CASE k = m + 1
        BY <2>4, <3>1
    <3>2. CASE k \in 1..m
        BY <2>1, <2>4, <3>2
    <3> QED
        BY <3>1, <3>2
  <2>6. Built(m + 1)
      BY <2>1, <2>3, <2>4, <2>5
  <2> QED
      BY <2>6
<1>3. Built(n)
  <2> HIDE DEF T
  <2>1. Nat \subseteq T
      BY <1>1, <1>2, SetInduction
  <2> QED
      BY <2>1 DEF T
<1> QED
    BY <1>3

(* The powers of the byte range.                                           *)
LEMMA PowerDef ==
    /\ Power[0] = 1
    /\ \A i \in 1..NonceLen : Power[i] = ByteRange * Power[i - 1]
    /\ \A i \in 0..NonceLen : Power[i] \in Nat \ {0}
<1> DEFINE next == [k \in Nat |-> [v \in Nat |-> ByteRange * v]]
           IsPower(f) == f = [i \in 0..NonceLen |-> IF i = 0 THEN 1 ELSE ByteRange * f[i - 1]]
<1>1. ByteRange \in Nat \ {0} /\ NonceLen \in Nat \ {0} /\ NonceLen \in Nat
    BY ByteRangeAssumption, NonceLenAssumption
<1>2. next \in [Nat -> [Nat -> Nat]]
    BY <1>1
<1>3. PICK f \in [0..NonceLen -> Nat] :
          f[0] = 1 /\ \A k \in 1..NonceLen : f[k] = next[k][f[k - 1]]
  <2> HIDE DEF next
  <2> QED
    <3>1. Recursive(Nat)
        BY RecursionExists
    <3>2. \A nx \in [Nat -> [Nat -> Nat]] : \A n \in Nat :
             \E f \in [0..n -> Nat] : f[0] = 1 /\ \A k \in 1..n : f[k] = nx[k][f[k - 1]]
        BY <3>1, 1 \in Nat, Zenon DEF Recursive
    <3>3. NonceLen \in Nat
        BY <1>1
    <3> QED
        BY <1>2, <3>2, <3>3, Zenon
<1>4. IsPower(f)
  <2>1. ASSUME NEW k \in 0..NonceLen, k # 0
        PROVE  next[k][f[k - 1]] = ByteRange * f[k - 1]
    <3>1. k \in Nat /\ k - 1 \in 0..NonceLen
        BY <1>1, <2>1
    <3>2. f[k - 1] \in Nat
        BY <1>3, <3>1
    <3> QED
        BY <3>1, <3>2
  <2> HIDE DEF next
  <2> QED
      BY <1>3, <2>1
<1> HIDE DEF next
<1>5. IsPower(Power)
    BY <1>4, Zenon DEF Power
<1>6. /\ Power[0] = 1
      /\ \A i \in 1..NonceLen : Power[i] = ByteRange * Power[i - 1]
  <2> HIDE DEF Power
  <2> QED
      BY <1>1, <1>5
<1> DEFINE T == {k \in Nat : k <= NonceLen => Power[k] \in Nat \ {0}}
<1>7. 0 \in T
    BY <1>6
<1>8. ASSUME NEW k \in Nat, k \in T PROVE k + 1 \in T
  <2> SUFFICES ASSUME k + 1 <= NonceLen PROVE Power[k + 1] \in Nat \ {0}
      OBVIOUS
  <2>1. Power[k] \in Nat \ {0} /\ Power[k + 1] = ByteRange * Power[k]
      BY <1>1, <1>6, <1>8
  <2> QED
      BY <1>1, <2>1
<1>9. Nat \subseteq T
  <2> HIDE DEF T
  <2> QED
      BY <1>7, <1>8, SetInduction
<1> QED
    BY <1>1, <1>6, <1>9

(* The sums of the bytes before a place.                                   *)
LEMMA LowSumsDef ==
    ASSUME NEW b \in ByteArrays
    PROVE  /\ LowSums(b)[0] = 0
           /\ \A i \in 0..NonceLen - 2 : LowSums(b)[i + 1] = LowSums(b)[i] + b[i] * Power[i]
           /\ \A i \in 0..NonceLen - 1 : LowSums(b)[i] \in Nat
<1> DEFINE term == [k \in Nat |-> IF k \in 1..NonceLen - 1 THEN b[k - 1] * Power[k - 1] ELSE 0]
           next == [k \in Nat |-> [v \in Nat |-> v + term[k]]]
           IsSum(f) == f = [i \in 0..NonceLen - 1 |->
                              IF i = 0 THEN 0 ELSE f[i - 1] + b[i - 1] * Power[i - 1]]
<1>1. NonceLen - 1 \in Nat /\ NonceLen \in Nat
    BY NonceLenAssumption
<1>2. \A i \in 0..NonceLen - 1 : b[i] \in Nat /\ Power[i] \in Nat
  <2> TAKE i \in 0..NonceLen - 1
  <2>1. i \in 0..NonceLen
      BY <1>1
  <2>2. Power[i] \in Nat
      BY <2>1, PowerDef
  <2>3. b[i] \in 0..ByteRange - 1
      BY DEF ByteArrays
  <2> QED
      BY <2>2, <2>3, ByteRangeAssumption
<1>3. \A i \in 0..NonceLen - 1 : b[i] * Power[i] \in Nat
    BY <1>2
<1>4. next \in [Nat -> [Nat -> Nat]]
  <2>1. ASSUME NEW k \in Nat PROVE term[k] \in Nat
      BY <1>1, <1>3
  <2> HIDE DEF term
  <2> QED
      BY <2>1
<1>5. PICK f \in [0..NonceLen - 1 -> Nat] :
          f[0] = 0 /\ \A k \in 1..NonceLen - 1 : f[k] = next[k][f[k - 1]]
  <2> HIDE DEF next
  <2> QED
    <3>1. Recursive(Nat)
        BY RecursionExists
    <3>2. \A nx \in [Nat -> [Nat -> Nat]] : \A n \in Nat :
             \E f \in [0..n -> Nat] : f[0] = 0 /\ \A k \in 1..n : f[k] = nx[k][f[k - 1]]
        BY <3>1, 0 \in Nat, Zenon DEF Recursive
    <3>3. NonceLen - 1 \in Nat
        BY <1>1
    <3> QED
        BY <1>4, <3>2, <3>3, Zenon
<1>6. IsSum(f)
  <2>1. ASSUME NEW k \in 0..NonceLen - 1, k # 0
        PROVE  next[k][f[k - 1]] = f[k - 1] + b[k - 1] * Power[k - 1]
    <3>1. k \in Nat /\ k \in 1..NonceLen - 1 /\ k - 1 \in 0..NonceLen - 1
        BY <1>1, <2>1
    <3>2. f[k - 1] \in Nat
        BY <1>5, <3>1
    <3>3. term[k] = b[k - 1] * Power[k - 1]
        BY <3>1
    <3> HIDE DEF term
    <3> QED
        BY <3>1, <3>2, <3>3
  <2> HIDE DEF next
  <2> QED
      BY <1>5, <2>1
<1> HIDE DEF next
<1>7. IsSum(LowSums(b))
    BY <1>6, Zenon DEF LowSums
<1>8. /\ LowSums(b)[0] = 0
      /\ \A i \in 0..NonceLen - 2 : LowSums(b)[i + 1] = LowSums(b)[i] + b[i] * Power[i]
  <2> DEFINE s == LowSums(b)
  <2>1. IsSum(s)
      BY <1>7
  <2> HIDE DEF s
  <2>2. s[0] = 0
      BY <1>1, <2>1
  <2>3. ASSUME NEW i \in 0..NonceLen - 2 PROVE s[i + 1] = s[i] + b[i] * Power[i]
    <3>1. i + 1 \in 0..NonceLen - 1 /\ i + 1 # 0 /\ (i + 1) - 1 = i
        BY <1>1
    <3>2. s[i + 1] = s[(i + 1) - 1] + b[(i + 1) - 1] * Power[(i + 1) - 1]
        BY <2>1, <3>1
    <3> QED
        BY <3>1, <3>2
  <2> QED
      BY <2>2, <2>3 DEF s
<1> DEFINE T == {k \in Nat : k <= NonceLen - 1 => LowSums(b)[k] \in Nat}
<1>9. 0 \in T
    BY <1>8
<1>10. ASSUME NEW k \in Nat, k \in T PROVE k + 1 \in T
  <2> SUFFICES ASSUME k + 1 <= NonceLen - 1 PROVE LowSums(b)[k + 1] \in Nat
      OBVIOUS
  <2>1. k \in 0..NonceLen - 2 /\ k \in 0..NonceLen - 1
      BY <1>1
  <2>2. LowSums(b)[k] \in Nat /\ b[k] * Power[k] \in Nat
      BY <1>3, <1>10, <2>1
  <2>3. LowSums(b)[k + 1] = LowSums(b)[k] + b[k] * Power[k]
      BY <1>8, <2>1
  <2> QED
      BY <2>2, <2>3
<1>11. Nat \subseteq T
  <2> HIDE DEF T
  <2> QED
      BY <1>9, <1>10, SetInduction
<1>12. \A i \in 0..NonceLen - 1 : LowSums(b)[i] \in Nat
    BY <1>1, <1>11
<1> QED
    BY <1>8, <1>12

(* Adding one to a byte array with the carry of the code adds one to the   *)
(* nonce it spells.                                                        *)
LEMMA IncrementSpells ==
    ASSUME NEW x \in ByteArrays
    PROVE  /\ IncrementNonce(x) \in ByteArrays
           /\ Spelled(x) \in Nonces
           /\ Spelled(IncrementNonce(x)) = Increment(Spelled(x))
<1> DEFINE y == IncrementNonce(x)
           s == LowSums(x)
           t == LowSums(y)
           last == NonceLen - 1
           Carry(i) == \A j \in 0..i - 1 : x[j] = ByteRange - 1
           Holds(i) == /\ Carry(i) => s[i] = Power[i] - 1 /\ t[i] = 0
                       /\ ~Carry(i) => t[i] = s[i] + 1 /\ s[i] + 1 < Power[i]
<1>1. /\ NonceLen \in Nat /\ last \in Nat /\ ByteRange \in Nat /\ ByteRange >= 1
      /\ last + 1 = NonceLen
    BY NonceLenAssumption, ByteRangeAssumption
<1>2. \A i \in 0..last : x[i] \in 0..ByteRange - 1
    BY DEF ByteArrays
<1>3. /\ \A i \in 0..last : y[i] = IF Carry(i) THEN (x[i] + 1) % ByteRange ELSE x[i]
      /\ DOMAIN y = 0..last /\ y = [i \in 0..last |-> y[i]]
    BY DEF IncrementNonce
<1> HIDE DEF y
<1>4. \A i \in 0..last :
          y[i] = IF Carry(i) THEN IF x[i] = ByteRange - 1 THEN 0 ELSE x[i] + 1 ELSE x[i]
  <2> TAKE i \in 0..last
  <2>1. x[i] \in 0..ByteRange - 1 /\ y[i] = IF Carry(i) THEN (x[i] + 1) % ByteRange ELSE x[i]
      BY <1>2, <1>3
  <2>2. x[i] = ByteRange - 1 => (x[i] + 1) % ByteRange = 0
      BY <1>1, <2>1
  <2>3. x[i] # ByteRange - 1 => (x[i] + 1) % ByteRange = x[i] + 1
      BY <1>1, <2>1
  <2> HIDE DEF Carry
  <2> QED
      BY <2>1, <2>2, <2>3
<1>5. y \in ByteArrays
  <2>1. \A i \in 0..last : y[i] \in 0..ByteRange - 1
    <3> TAKE i \in 0..last
    <3> HIDE DEF Carry
    <3> QED
        BY <1>1, <1>2, <1>4
  <2> QED
      BY <1>3, <2>1 DEF ByteArrays
<1>6. /\ s[0] = 0 /\ t[0] = 0
      /\ \A i \in 0..last - 1 : s[i + 1] = s[i] + x[i] * Power[i] /\ t[i + 1] = t[i] + y[i] * Power[i]
      /\ \A i \in 0..last : s[i] \in Nat /\ t[i] \in Nat
  <2>1. last - 1 = NonceLen - 2
      BY <1>1
  <2> QED
      BY <1>5, <2>1, LowSumsDef
<1>7. /\ Power[0] = 1
      /\ \A i \in 0..last - 1 : Power[i + 1] = ByteRange * Power[i]
      /\ \A i \in 0..last : Power[i] \in Nat /\ Power[i] >= 1
  <2>1. ASSUME NEW i \in 0..last - 1 PROVE Power[i + 1] = ByteRange * Power[i]
    <3>1. i + 1 \in 1..NonceLen /\ (i + 1) - 1 = i
        BY <1>1
    <3> QED
        BY <3>1, PowerDef
  <2>2. ASSUME NEW i \in 0..last PROVE Power[i] \in Nat /\ Power[i] >= 1
    <3>1. i \in 0..NonceLen
        BY <1>1
    <3> QED
        BY <3>1, PowerDef
  <2> QED
      BY <2>1, <2>2, PowerDef
<1> HIDE DEF s, t, last
<1>8. Holds(0)
  <2>1. Carry(0) /\ s[0] = Power[0] - 1 /\ t[0] = 0
      BY <1>6, <1>7
  <2> QED
      BY <2>1
<1>9. ASSUME NEW i \in 0..last - 1, Holds(i) PROVE Holds(i + 1)
  <2>1. Carry(i + 1) <=> Carry(i) /\ x[i] = ByteRange - 1
    <3>1. 0..(i + 1) - 1 = 0..i - 1 \cup {i}
        BY <1>1
    <3> QED
        BY <3>1
  <2> DEFINE p == Power[i]
  <2>2. i \in 0..last
      BY <1>1
  <2>3. /\ p \in Nat /\ p >= 1 /\ Power[i + 1] = ByteRange * p
        /\ s[i + 1] = s[i] + x[i] * p /\ t[i + 1] = t[i] + y[i] * p
        /\ s[i] \in Nat /\ t[i] \in Nat
        /\ x[i] \in Nat /\ x[i] <= ByteRange - 1
      BY <1>1, <1>2, <1>6, <1>7, <2>2
  <2>4. y[i] = IF Carry(i) THEN IF x[i] = ByteRange - 1 THEN 0 ELSE x[i] + 1 ELSE x[i]
      BY <1>4, <2>2
  <2>5. /\ Carry(i) => s[i] = p - 1 /\ t[i] = 0
        /\ ~Carry(i) => t[i] = s[i] + 1 /\ s[i] + 1 < p
      BY <1>9
  <2> HIDE DEF p, Carry
  <2>6. CASE Carry(i) /\ x[i] = ByteRange - 1
    <3>1. y[i] * p = 0 /\ x[i] * p = ByteRange * p - p
        BY <1>1, <2>3, <2>4, <2>6
    <3>2. ByteRange * p \in Nat
        BY <1>1, <2>3
    <3>3. s[i + 1] = Power[i + 1] - 1 /\ t[i + 1] = 0
        BY <2>3, <2>5, <2>6, <3>1, <3>2
    <3> QED
        BY <2>1, <2>6, <3>3
  <2>7. CASE Carry(i) /\ x[i] # ByteRange - 1
    <3>1. y[i] * p = x[i] * p + p
        BY <2>3, <2>4, <2>7
    <3>2. x[i] * p + p + p <= ByteRange * p
      <4>1. ByteRange - 2 - x[i] \in Nat
          BY <1>1, <2>3, <2>7
      <4>2. (ByteRange - 2 - x[i]) * p \in Nat
          BY <2>3, <4>1
      <4>3. ByteRange * p = (ByteRange - 2 - x[i]) * p + (x[i] * p + p + p)
        <5>1. (ByteRange - 2 - x[i]) * p = (ByteRange - 2) * p - x[i] * p
            BY <1>1, <2>3
        <5>2. (ByteRange - 2) * p = ByteRange * p - (p + p)
            BY <1>1, <2>3
        <5>3. x[i] * p \in Int /\ ByteRange * p \in Int
            BY <1>1, <2>3
        <5> QED
            BY <2>3, <5>1, <5>2, <5>3
      <4> QED
          BY <2>3, <4>2, <4>3
    <3>3. x[i] * p \in Nat /\ ByteRange * p \in Nat
        BY <1>1, <2>3
    <3>4. t[i + 1] = s[i + 1] + 1 /\ s[i + 1] + 1 < Power[i + 1]
        BY <2>3, <2>5, <2>7, <3>1, <3>2, <3>3
    <3> QED
        BY <2>1, <2>7, <3>4
  <2>8. CASE ~Carry(i)
    <3>1. y[i] = x[i]
        BY <2>4, <2>8
    <3>2. x[i] * p + p <= ByteRange * p
      <4>1. ByteRange - 1 - x[i] \in Nat
          BY <1>1, <2>3
      <4>2. (ByteRange - 1 - x[i]) * p \in Nat
          BY <2>3, <4>1
      <4>3. ByteRange * p = (ByteRange - 1 - x[i]) * p + (x[i] * p + p)
          BY <1>1, <2>3
      <4> QED
          BY <2>3, <4>2, <4>3
    <3>3. x[i] * p \in Nat /\ ByteRange * p \in Nat
        BY <1>1, <2>3
    <3>4. t[i + 1] = s[i + 1] + 1 /\ s[i + 1] + 1 < Power[i + 1]
        BY <2>3, <2>5, <2>8, <3>1, <3>2, <3>3
    <3> QED
        BY <2>1, <2>8, <3>4
  <2> QED
      BY <2>6, <2>7, <2>8
<1> DEFINE T == {i \in Nat : i <= last => Holds(i)}
<1> HIDE DEF Holds
<1>10. 0 \in T
    BY <1>8
<1>11. ASSUME NEW i \in Nat, i \in T PROVE i + 1 \in T
  <2> SUFFICES ASSUME i + 1 <= last PROVE Holds(i + 1)
      OBVIOUS
  <2>1. i \in 0..last - 1 /\ i <= last
      BY <1>1
  <2> QED
      BY <1>9, <1>11, <2>1
<1>12. Holds(last)
  <2>1. Nat \subseteq T
    <3> HIDE DEF T
    <3> QED
        BY <1>10, <1>11, SetInduction
  <2>2. last <= last
      BY <1>1
  <2> QED
      BY <1>1, <2>1, <2>2
<1> HIDE DEF T
<1>13. /\ Spelled(x) = [low |-> s[last], high |-> x[last]]
       /\ Spelled(y) = [low |-> t[last], high |-> y[last]]
    BY DEF Spelled, s, t, last
<1>14. LowRange = Power[last] /\ HighRange = ByteRange
    BY RangesAssumption DEF last
<1>15. /\ s[last] \in Nat /\ x[last] \in 0..ByteRange - 1
       /\ y[last] = IF Carry(last) THEN IF x[last] = ByteRange - 1 THEN 0 ELSE x[last] + 1 ELSE x[last]
  <2>1. last \in 0..last
      BY <1>1
  <2> QED
      BY <1>2, <1>4, <1>6, <2>1
<1>16. /\ Carry(last) => s[last] = LowRange - 1 /\ t[last] = 0
       /\ ~Carry(last) => t[last] = s[last] + 1 /\ s[last] + 1 < LowRange
    BY <1>12, <1>14 DEF Holds
<1> HIDE DEF Carry
<1>17. Spelled(x) \in Nonces
  <2>1. s[last] \in 0..LowRange - 1
      BY <1>15, <1>16
  <2> QED
      BY <1>13, <1>14, <1>15, <2>1 DEF Nonces
<1>18. Spelled(y) = Increment(Spelled(x))
  <2>1. CASE Carry(last)
    <3>1. ~(s[last] + 1 < LowRange) /\ t[last] = 0
        BY <1>16, <2>1
    <3>2. y[last] = IF x[last] + 1 < HighRange THEN x[last] + 1 ELSE 0
        BY <1>1, <1>14, <1>15, <2>1
    <3>3. Increment(Spelled(x)) = [low |-> 0, high |-> IF x[last] + 1 < HighRange THEN x[last] + 1 ELSE 0]
        BY <1>13, <3>1 DEF Increment
    <3> QED
        BY <1>13, <3>1, <3>2, <3>3
  <2>2. CASE ~Carry(last)
    <3>1. s[last] + 1 < LowRange /\ t[last] = s[last] + 1 /\ y[last] = x[last]
        BY <1>15, <1>16, <2>2
    <3>2. Increment(Spelled(x)) = [low |-> s[last] + 1, high |-> x[last]]
        BY <1>13, <3>1 DEF Increment
    <3> QED
        BY <1>13, <3>1, <3>2
  <2> QED
      BY <2>1, <2>2
<1> QED
    BY <1>5, <1>17, <1>18 DEF y

(* The byte arrays nonce_after_increments goes through spell the schedule. *)
LEMMA AfterSpells ==
    ASSUME NEW b \in ByteArrays, NEW n \in 0..LowRange - 1
    PROVE  /\ NonceAfterIncrements(b, n) \in ByteArrays
           /\ Spelled(NonceAfterIncrements(b, n)) = Advanced(Spelled(b), n)
<1> DEFINE IsAfter(f) == f = [k \in 0..n |-> IF k = 0 THEN b ELSE IncrementNonce(f[k - 1])]
           next == [k \in Nat |-> [x \in ByteArrays |-> IncrementNonce(x)]]
           after == CHOOSE f : IsAfter(f)
<1>1. n \in Nat
    OBVIOUS
<1>2. next \in [Nat -> [ByteArrays -> ByteArrays]]
    BY IncrementSpells
<1>3. PICK f \in [0..n -> ByteArrays] : f[0] = b /\ \A k \in 1..n : f[k] = next[k][f[k - 1]]
  <2> HIDE DEF next
  <2>1. Recursive(ByteArrays)
      BY RecursionExists
  <2>2. \A nx \in [Nat -> [ByteArrays -> ByteArrays]] : \A m \in Nat :
           \E f \in [0..m -> ByteArrays] : f[0] = b /\ \A k \in 1..m : f[k] = nx[k][f[k - 1]]
      BY <2>1, Zenon DEF Recursive
  <2> QED
      BY <1>1, <1>2, <2>2, Zenon
<1>4. IsAfter(f)
  <2>1. ASSUME NEW k \in 0..n, k # 0 PROVE f[k] = IncrementNonce(f[k - 1])
    <3>1. k \in Nat /\ k \in 1..n /\ k - 1 \in 0..n
        BY <1>1, <2>1
    <3>2. f[k - 1] \in ByteArrays
        BY <3>1
    <3>3. next[k][f[k - 1]] = IncrementNonce(f[k - 1])
        BY <3>1, <3>2
    <3> HIDE DEF next
    <3> QED
        BY <1>3, <3>1, <3>3
  <2>2. f = [k \in 0..n |-> f[k]]
      OBVIOUS
  <2>3. \A k \in 0..n : f[k] = IF k = 0 THEN b ELSE IncrementNonce(f[k - 1])
      BY <1>3, <2>1
  <2> QED
      BY <2>2, <2>3
<1>5. IsAfter(after) /\ NonceAfterIncrements(b, n) = after[n]
    BY <1>4, Zenon DEF NonceAfterIncrements
<1>6. /\ after[0] = b
      /\ \A k \in 0..n - 1 : after[k + 1] = IncrementNonce(after[k])
  <2> HIDE DEF after
  <2>1. after[0] = b
      BY <1>1, <1>5
  <2>2. ASSUME NEW k \in 0..n - 1 PROVE after[k + 1] = IncrementNonce(after[k])
    <3>1. k + 1 \in 0..n /\ k + 1 # 0 /\ (k + 1) - 1 = k
        BY <1>1
    <3>2. after[k + 1] = IncrementNonce(after[(k + 1) - 1])
        BY <1>5, <3>1
    <3> QED
        BY <3>1, <3>2
  <2> QED
      BY <2>1, <2>2
<1> HIDE DEF after
<1> DEFINE Fits(k) == after[k] \in ByteArrays /\ Spelled(after[k]) = Advanced(Spelled(b), k)
           T == {k \in Nat : k <= n => Fits(k)}
<1>7. Spelled(b) \in Nonces
    BY IncrementSpells
<1>8. Fits(0)
  <2>1. Advanced(Spelled(b), 0) = Spelled(b)
      BY <1>7 DEF Advanced, Nonces
  <2> QED
      BY <1>6, <2>1
<1>9. ASSUME NEW k \in 0..n - 1, Fits(k) PROVE Fits(k + 1)
  <2>1. /\ after[k + 1] = IncrementNonce(after[k])
        /\ after[k + 1] \in ByteArrays
        /\ Spelled(after[k + 1]) = Increment(Spelled(after[k]))
      BY <1>6, <1>9, IncrementSpells
  <2>2. k \in 0..LowRange - 1
      BY <1>1
  <2>3. Increment(Advanced(Spelled(b), k)) = Advanced(Spelled(b), k + 1)
      BY <1>7, <2>2, IncrementAdvances
  <2> QED
      BY <1>9, <2>1, <2>3
<1> HIDE DEF Fits
<1>10. 0 \in T
    BY <1>8
<1>11. ASSUME NEW k \in Nat, k \in T PROVE k + 1 \in T
  <2> SUFFICES ASSUME k + 1 <= n PROVE Fits(k + 1)
      OBVIOUS
  <2>1. k \in 0..n - 1 /\ k <= n
      BY <1>1
  <2> QED
      BY <1>9, <1>11, <2>1
<1>12. Fits(n)
  <2>1. Nat \subseteq T
    <3> HIDE DEF T
    <3> QED
        BY <1>10, <1>11, SetInduction
  <2> QED
      BY <1>1, <2>1
<1> QED
    BY <1>5, <1>12 DEF Fits

(* Flipping the low bit of the last byte is flipping that of the nonce's   *)
(* high part.                                                              *)
LEMMA DirectionSpells ==
    ASSUME NEW b \in ByteArrays, NEW d \in Directions
    PROVE  /\ DirectionBytes(b, d) \in ByteArrays
           /\ Spelled(DirectionBytes(b, d)) = DirectionBase(Spelled(b), d)
<1> DEFINE last == NonceLen - 1
           y == XorLastByte(b)
           s == LowSums(b)
           t == LowSums(y)
<1>1. last \in Nat /\ ByteRange \in Nat \ {0} /\ ByteRange % 2 = 0
    BY NonceLenAssumption, ByteRangeAssumption
<1>2. b[last] \in 0..ByteRange - 1 /\ b \in [0..last -> 0..ByteRange - 1]
    BY <1>1 DEF ByteArrays
<1>3. y = [b EXCEPT ![last] = FlipLowBit(b[last])]
    BY DEF XorLastByte, FlipLowBit
<1>4. FlipLowBit(b[last]) \in 0..ByteRange - 1
    BY <1>1, <1>2 DEF FlipLowBit
<1>5. /\ y \in ByteArrays /\ y[last] = FlipLowBit(b[last])
      /\ \A i \in 0..last - 1 : y[i] = b[i]
  <2> HIDE DEF y, last
  <2>1. y \in [0..last -> 0..ByteRange - 1] /\ y[last] = FlipLowBit(b[last])
      BY <1>1, <1>2, <1>3, <1>4
  <2>2. \A i \in 0..last - 1 : y[i] = b[i]
      BY <1>1, <1>2, <1>3
  <2> QED
      BY <2>1, <2>2 DEF ByteArrays, last
<1>6. /\ s[0] = 0 /\ t[0] = 0
      /\ \A i \in 0..last - 1 : s[i + 1] = s[i] + b[i] * Power[i] /\ t[i + 1] = t[i] + y[i] * Power[i]
  <2>1. last - 1 = NonceLen - 2
      BY NonceLenAssumption
  <2> QED
      BY <1>5, <2>1, LowSumsDef
<1> HIDE DEF s, t, y, last
<1> DEFINE T == {i \in Nat : i <= last => s[i] = t[i]}
<1>7. 0 \in T
    BY <1>6
<1>8. ASSUME NEW i \in Nat, i \in T PROVE i + 1 \in T
  <2> SUFFICES ASSUME i + 1 <= last PROVE s[i + 1] = t[i + 1]
      OBVIOUS
  <2>1. i \in 0..last - 1 /\ i <= last
      BY <1>1
  <2> QED
      BY <1>5, <1>6, <1>8, <2>1
<1>9. s[last] = t[last]
  <2>1. Nat \subseteq T
    <3> HIDE DEF T
    <3> QED
        BY <1>7, <1>8, SetInduction
  <2>2. last <= last
      BY <1>1
  <2> QED
      BY <1>1, <2>1, <2>2
<1>10. /\ Spelled(b) = [low |-> s[last], high |-> b[last]]
       /\ Spelled(y) = [low |-> t[last], high |-> y[last]]
    BY DEF Spelled, s, t, last
<1>11. Spelled(y) = [Spelled(b) EXCEPT !.high = FlipLowBit(@)]
    BY <1>5, <1>9, <1>10
<1> QED
    BY <1>5, <1>11 DEF DirectionBytes, DirectionBase, y

(* The base of the schedule is the one the session nonce spells.           *)
BytesInv == raw \in ByteArrays /\ base = Spelled(raw)

(* Issuing nonces is all the combined behaviours do to the schedule.       *)
LEMMA SubjectsIssue == MCSpec => Spec /\ []BytesInv
<1>1. MCInit => Init /\ BytesInv
    BY DEF MCInit, BytesInv
<1>2. [MCNext]_<<vars, subject, raw, file>> => [Next]_vars
    BY DEF MCNext, vars
<1>3. BytesInv /\ [MCNext]_<<vars, subject, raw, file>> => BytesInv'
    BY DEF BytesInv, MCNext, Next, NextNonce, vars
<1> QED
    BY <1>1, <1>2, <1>3, PTL DEF MCSpec, Spec

(* The bytes nonce_after_increments computes spell the scheduled nonce,    *)
(* for every length of the nonce and range of a byte.                      *)
THEOREM BytesSpellSchedule == MCSpec => []BytewiseScheduleAgrees
<1>1. TypeOK /\ Schedule /\ BytesInv => BytewiseScheduleAgrees
  <2> SUFFICES ASSUME TypeOK, Schedule, BytesInv, NEW d \in Directions
               PROVE  /\ NonceAfterIncrements(DirectionBytes(raw, d), issued[d]) \in ByteArrays
                      /\ Spelled(NonceAfterIncrements(DirectionBytes(raw, d), issued[d])) = current[d]
      BY Zenon DEF BytewiseScheduleAgrees
  <2>1. issued[d] \in 0..LowRange - 1
      BY DEF TypeOK
  <2>2. /\ DirectionBytes(raw, d) \in ByteArrays
        /\ Spelled(DirectionBytes(raw, d)) = DirectionBase(base, d)
      BY DirectionSpells DEF BytesInv
  <2>3. current[d] = Advanced(DirectionBase(base, d), issued[d])
      BY DEF Schedule
  <2> QED
      BY <2>1, <2>2, <2>3, AfterSpells
<1> QED
    BY <1>1, SubjectsIssue, ScheduleHolds, PTL
=============================================================================
