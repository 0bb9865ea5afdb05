------------------------- MODULE LocalSessionProofs -------------------------
(***************************************************************************)
(* Proofs about the two clients and the worker that serves them, for every *)
(* set of ids and every bound.                                             *)
(*                                                                         *)
(* CompatibilityInStep: the frames of a direction that are under way, from *)
(* the batch being processed to the last one written, carry the numbers    *)
(* from the reader's counter to the writer's without a gap (Up, Down);     *)
(* and of requests, replies and frames not handed out there is at most one *)
(* during a call and none between two (Quiet).                             *)
(*                                                                         *)
(* KeptSessionFails: on a connection a replay client came to with frames   *)
(* encrypted before, all it sends is numbered beyond the worker's counter. *)
(*                                                                         *)
(* PeersAlwaysAgree: a reply under way to the client tells of a step the   *)
(* server has taken, and the server takes none back; the steps of a call   *)
(* lead from one state to another only by such a reply (Plan).             *)
(***************************************************************************)
EXTENDS MCLocalSession, FiniteSetTheorems, SequenceTheorems, TLAPS

-----------------------------------------------------------------------------
(* Sequences of frames                                                     *)

FrameSet == [id : Ids \cup {"xSYN_RSP"}, enc : BOOLEAN, nonce : Nat]

LEMMA FramesAssociate == \A s, t, u \in Seq(FrameSet) : (s \o t) \o u = s \o (t \o u)
BY ConcatAssociative

(* How many elements of a sequence are in S.                               *)
Hits(s, S) == Cardinality({i \in 1..Len(s) : s[i] \in S})

LEMMA HitsType ==
    ASSUME NEW T, NEW s \in Seq(T), NEW S
    PROVE  IsFiniteSet({i \in 1..Len(s) : s[i] \in S}) /\ Hits(s, S) \in Nat
<1>1. IsFiniteSet(1..Len(s))
    BY FS_Interval
<1> QED
    BY <1>1, FS_Subset, FS_CardinalityType DEF Hits

LEMMA HitsConcat ==
    ASSUME NEW T, NEW s \in Seq(T), NEW t \in Seq(T), NEW S
    PROVE  Hits(s \o t, S) = Hits(s, S) + Hits(t, S)
<1> DEFINE m == Len(s)
           n == Len(t)
           u == s \o t
           left == {i \in 1..m : s[i] \in S}
           right == {i \in 1..n : t[i] \in S}
           moved == {i \in m + 1..m + n : u[i] \in S}
           f == [i \in right |-> m + i]
<1>1. /\ m \in Nat /\ n \in Nat /\ Len(u) = m + n
      /\ \A i \in 1..m : u[i] = s[i]
      /\ \A i \in 1..n : u[m + i] = t[i]
    BY ConcatProperties
<1>2. IsFiniteSet(left) /\ IsFiniteSet(right) /\ IsFiniteSet(moved)
  <2>1. IsFiniteSet(m + 1..m + n)
      BY <1>1, FS_Interval
  <2>2. IsFiniteSet(moved)
      BY <2>1, FS_Subset
  <2>3. IsFiniteSet(left) /\ IsFiniteSet(right)
      BY HitsType
  <2> QED
      BY <2>2, <2>3
<1>3. Cardinality(moved) = Cardinality(right)
  <2> HIDE DEF u, m, n
  <2>1. f \in [right -> moved]
      BY <1>1
  <2>2. \A i, j \in right : f[i] = f[j] => i = j
      BY <1>1
  <2>3. \A k \in moved : \E i \in right : f[i] = k
    <3> TAKE k \in moved
    <3>1. k - m \in 1..n /\ m + (k - m) = k
        BY <1>1
    <3>2. k - m \in right /\ f[k - m] = k
        BY <1>1, <3>1
    <3> QED
        BY <3>2
  <2> HIDE DEF right, moved, f
  <2>4. f \in Bijection(right, moved)
      BY <2>1, <2>2, <2>3, Zenon DEF Bijection, Injection, Surjection, IsInjective
  <2> QED
      BY <1>2, <2>4, FS_Bijection DEF ExistsBijection
<1>4. {i \in 1..Len(u) : u[i] \in S} = left \cup moved /\ left \cap moved = {}
  <2> HIDE DEF u, m, n
  <2>1. \A i \in 1..m + n : i \in 1..m \/ i \in m + 1..m + n
      BY <1>1
  <2> QED
      BY <1>1, <2>1
<1>5. Cardinality(left \cup moved) = Cardinality(left) + Cardinality(moved)
  <2> HIDE DEF left, moved
  <2>1. Cardinality(left \cap moved) = 0
      BY <1>4, FS_EmptySet
  <2>2. Cardinality(left) \in Nat /\ Cardinality(moved) \in Nat
      BY <1>2, FS_CardinalityType
  <2>3. Cardinality(left \cup moved)
            = Cardinality(left) + Cardinality(moved) - Cardinality(left \cap moved)
      BY <1>2, FS_Union
  <2> QED
      BY <2>1, <2>2, <2>3
<1>6. Hits(u, S) = Cardinality(left \cup moved)
    BY <1>4 DEF Hits
<1> QED
    BY <1>3, <1>5, <1>6 DEF Hits

LEMMA HitsOne ==
    ASSUME NEW x, NEW S
    PROVE  Hits(<<x>>, S) = IF x \in S THEN 1 ELSE 0
<1> DEFINE one == <<x>>
<1>1. Len(one) = 1 /\ one[1] = x
    OBVIOUS
<1> HIDE DEF one
<1>2. CASE x \in S
  <2>1. {i \in 1..Len(one) : one[i] \in S} = {1}
      BY <1>1, <1>2
  <2> QED
      BY <1>2, <2>1, FS_Singleton DEF Hits, one
<1>3. CASE x \notin S
  <2>1. {i \in 1..Len(one) : one[i] \in S} = {}
      BY <1>1, <1>3
  <2> QED
      BY <1>3, <2>1, FS_EmptySet DEF Hits, one
<1> QED
    BY <1>2, <1>3

LEMMA HitsNone == ASSUME NEW S PROVE Hits(<<>>, S) = 0
<1> DEFINE none == <<>>
<1>1. Len(none) = 0
    OBVIOUS
<1> HIDE DEF none
<1>2. {i \in 1..Len(none) : none[i] \in S} = {}
    BY <1>1
<1> QED
    BY <1>2, FS_EmptySet DEF Hits, none

(* The encrypted frames of a sequence, and those the worker answers in     *)
(* some state.                                                             *)
EncryptedFrames == {f \in FrameSet : f.enc}
RequestFrames == {f \in FrameSet : f.id \in {"x1E", "x19", "x79", "xFA", "xSYN_A"}}

LEMMA EncryptedIsHits ==
    ASSUME NEW s \in Seq(FrameSet)
    PROVE  Encrypted(s) = Hits(s, EncryptedFrames) /\ Encrypted(s) \in Nat
<1>1. {i \in 1..Len(s) : s[i].enc} = {i \in 1..Len(s) : s[i] \in EncryptedFrames}
    BY DEF EncryptedFrames
<1> QED
    BY <1>1, HitsType DEF Encrypted, Hits

LEMMA EncryptedConcat ==
    ASSUME NEW s \in Seq(FrameSet), NEW t \in Seq(FrameSet)
    PROVE  Encrypted(s \o t) = Encrypted(s) + Encrypted(t)
<1>1. s \o t \in Seq(FrameSet)
    BY ConcatProperties
<1>2. Hits(s \o t, EncryptedFrames) = Hits(s, EncryptedFrames) + Hits(t, EncryptedFrames)
    BY HitsConcat
<1>3. Encrypted(s \o t) = Hits(s \o t, EncryptedFrames)
    BY <1>1, EncryptedIsHits
<1> QED
    BY <1>2, <1>3, EncryptedIsHits

LEMMA EncryptedOne ==
    ASSUME NEW f \in FrameSet
    PROVE  Encrypted(<<f>>) = IF f.enc THEN 1 ELSE 0
<1>1. <<f>> \in Seq(FrameSet)
    OBVIOUS
<1> QED
    BY <1>1, EncryptedIsHits, HitsOne DEF EncryptedFrames

LEMMA EncryptedNone == Encrypted(<<>>) = 0
<1>1. <<>> \in Seq(FrameSet)
    BY EmptySeq
<1> QED
    BY <1>1, EncryptedIsHits, HitsNone

(* The encrypted frames of s carry the numbers from n on.                  *)
InSchedule(s, n) ==
    \A i \in 1..Len(s) : s[i].enc => s[i].nonce = n + Encrypted(SubSeq(s, 1, i - 1))

LEMMA ScheduleNone == ASSUME NEW n PROVE InSchedule(<<>>, n)
BY DEF InSchedule

LEMMA ScheduleOne ==
    ASSUME NEW f \in FrameSet, NEW n \in Nat
    PROVE  InSchedule(<<f>>, n) <=> (f.enc => f.nonce = n)
<1> DEFINE one == <<f>>
<1>1. Len(one) = 1 /\ one[1] = f
    OBVIOUS
<1>2. SubSeq(one, 1, 0) = <<>>
    BY SubSeqEmpty
<1> HIDE DEF one
<1>3. InSchedule(one, n) <=> (f.enc => f.nonce = n + Encrypted(SubSeq(one, 1, 0)))
    BY <1>1 DEF InSchedule
<1>4. Encrypted(SubSeq(one, 1, 0)) = 0
    BY <1>2, EncryptedNone, Zenon
<1>5. n + Encrypted(SubSeq(one, 1, 0)) = n
    BY <1>4
<1> QED
    BY <1>3, <1>5 DEF one

LEMMA ScheduleConcat ==
    ASSUME NEW s \in Seq(FrameSet), NEW t \in Seq(FrameSet), NEW n \in Nat
    PROVE  InSchedule(s \o t, n) <=> InSchedule(s, n) /\ InSchedule(t, n + Encrypted(s))
<1> DEFINE u == s \o t
           Fits(v, b, i) == v[i].enc => v[i].nonce = b + Encrypted(SubSeq(v, 1, i - 1))
<1>1. /\ Len(u) = Len(s) + Len(t) /\ u \in Seq(FrameSet)
      /\ Len(s) \in Nat /\ Len(t) \in Nat
      /\ \A i \in 1..Len(s) : u[i] = s[i]
      /\ \A i \in 1..Len(t) : u[Len(s) + i] = t[i]
    BY ConcatProperties
<1>2. ASSUME NEW i \in 1..Len(s)
      PROVE  SubSeq(u, 1, i - 1) = SubSeq(s, 1, i - 1)
  <2>1. CASE i = 1
      BY <2>1, SubSeqEmpty
  <2>2. CASE i > 1
      BY <2>2, SubSeqOfConcat1
  <2> QED
      BY <2>1, <2>2
<1>3. ASSUME NEW i \in 1..Len(t)
      PROVE  Encrypted(SubSeq(u, 1, Len(s) + i - 1)) = Encrypted(s) + Encrypted(SubSeq(t, 1, i - 1))
  <2>1. SubSeq(t, 1, i - 1) \in Seq(FrameSet)
      BY SubSeqProperties
  <2>2. SubSeq(u, 1, Len(s) + i - 1) = s \o SubSeq(t, 1, i - 1)
    <3> DEFINE v == SubSeq(u, 1, Len(s) + i - 1)
               w == s \o SubSeq(t, 1, i - 1)
    <3>1. \A k \in 1..Len(s) + i - 1 : u[k] \in FrameSet
        BY <1>1
    <3>2. /\ v \in Seq(FrameSet) /\ Len(v) = Len(s) + i - 1
          /\ \A k \in 1..Len(s) + i - 1 : v[k] = u[k]
        BY <1>1, <3>1, SubSeqProperties
    <3>3. /\ Len(SubSeq(t, 1, i - 1)) = i - 1
          /\ \A k \in 1..i - 1 : SubSeq(t, 1, i - 1)[k] = t[k]
        BY SubSeqProperties
    <3>4. /\ w \in Seq(FrameSet) /\ Len(w) = Len(s) + i - 1
          /\ \A k \in 1..Len(s) + i - 1 :
                w[k] = IF k <= Len(s) THEN s[k] ELSE SubSeq(t, 1, i - 1)[k - Len(s)]
        BY <2>1, <3>3, ConcatProperties
    <3> HIDE DEF v, w, u
    <3>5. \A k \in 1..Len(s) + i - 1 : v[k] = w[k]
      <4> TAKE k \in 1..Len(s) + i - 1
      <4>1. CASE k <= Len(s)
          BY <1>1, <3>2, <3>4, <4>1
      <4>2. CASE k > Len(s)
        <5>0. k - Len(s) \in 1..i - 1 /\ Len(s) + (k - Len(s)) = k /\ k - Len(s) \in 1..Len(t)
            BY <1>1, <4>2
        <5>1. PICK j \in 1..Len(t) : j = k - Len(s) /\ j \in 1..i - 1 /\ Len(s) + j = k
            BY <5>0, Zenon
        <5>2. u[k] = t[j]
            BY <1>1, <5>1
        <5>3. w[k] = SubSeq(t, 1, i - 1)[j]
            BY <1>1, <3>4, <4>2, <5>1
        <5> QED
            BY <3>2, <3>3, <5>1, <5>2, <5>3
      <4> QED
          BY <1>1, <4>1, <4>2
    <3> QED
        BY <3>2, <3>4, <3>5, SeqEqual DEF v, w
  <2> QED
      BY <2>1, <2>2, EncryptedConcat
<1>4. Encrypted(s) \in Nat /\ \A i \in 1..Len(t) : Encrypted(SubSeq(t, 1, i - 1)) \in Nat
  <2>1. \A i \in 1..Len(t) : SubSeq(t, 1, i - 1) \in Seq(FrameSet)
      BY SubSeqProperties
  <2> QED
      BY <2>1, EncryptedIsHits
<1> HIDE DEF u
<1>5. \A i \in 1..Len(s) : Fits(u, n, i) <=> Fits(s, n, i)
    BY <1>1, <1>2
<1>6. \A i \in 1..Len(t) : Fits(u, n, Len(s) + i) <=> Fits(t, n + Encrypted(s), i)
  <2> TAKE i \in 1..Len(t)
  <2>1. n + (Encrypted(s) + Encrypted(SubSeq(t, 1, i - 1)))
            = n + Encrypted(s) + Encrypted(SubSeq(t, 1, i - 1))
      BY <1>4
  <2>2. u[Len(s) + i] = t[i]
      BY <1>1
  <2>3. Encrypted(SubSeq(u, 1, Len(s) + i - 1)) = Encrypted(s) + Encrypted(SubSeq(t, 1, i - 1))
      BY <1>3
  <2>4. n + Encrypted(SubSeq(u, 1, Len(s) + i - 1))
            = n + Encrypted(s) + Encrypted(SubSeq(t, 1, i - 1))
      BY <2>1, <2>3, Zenon
  <2>5. Fits(u, n, Len(s) + i) <=>
            (u[Len(s) + i].enc
                 => u[Len(s) + i].nonce = n + Encrypted(SubSeq(u, 1, Len(s) + i - 1)))
      OBVIOUS
  <2>6. Fits(t, n + Encrypted(s), i) <=>
            (t[i].enc => t[i].nonce = n + Encrypted(s) + Encrypted(SubSeq(t, 1, i - 1)))
      OBVIOUS
  <2> HIDE DEF Fits
  <2> QED
      BY <2>2, <2>4, <2>5, <2>6, Zenon
<1> HIDE DEF Fits
<1>7. (\A i \in 1..Len(u) : Fits(u, n, i))
          <=> /\ \A i \in 1..Len(s) : Fits(u, n, i)
              /\ \A i \in 1..Len(t) : Fits(u, n, Len(s) + i)
  <2>1. ASSUME \A i \in 1..Len(s) : Fits(u, n, i), \A i \in 1..Len(t) : Fits(u, n, Len(s) + i),
               NEW k \in 1..Len(u)
        PROVE  Fits(u, n, k)
    <3>1. CASE k <= Len(s)
        BY <1>1, <2>1, <3>1
    <3>2. CASE k > Len(s)
      <4>1. k - Len(s) \in 1..Len(t) /\ Len(s) + (k - Len(s)) = k
          BY <1>1, <3>2
      <4> QED
          BY <2>1, <4>1
    <3> QED
        BY <1>1, <3>1, <3>2
  <2>2. \A i \in 1..Len(s) : i \in 1..Len(u)
      BY <1>1
  <2>3. \A i \in 1..Len(t) : Len(s) + i \in 1..Len(u)
      BY <1>1
  <2> QED
      BY <2>1, <2>2, <2>3
<1> QED
    BY <1>5, <1>6, <1>7 DEF InSchedule, Fits, u

-----------------------------------------------------------------------------
(* The connection of a compatibility client                                *)

(* The frames on their way to a worker that runs fit its counter, and the  *)
(* client has encrypted no others.                                         *)
Up ==
    same_keys /\ worker = "running" /\ stream = "open" =>
        /\ InSchedule(batch \o c2s, sdec)
        /\ cenc = sdec + Encrypted(batch \o c2s)

(* The frames on their way to the client fit its counter; a worker that    *)
(* runs has encrypted no others.                                           *)
Down ==
    same_keys /\ stream = "open" =>
        /\ InSchedule(s2c, cdec)
        /\ worker = "running" => senc = cdec + Encrypted(s2c)

NoCryptoError == same_keys => outcome # "crypto"

(* Of what will be answered, has been answered and waits to be handed out, *)
(* there is at most one frame during a call and none between two.          *)
Quiet ==
    timeouts = 0 /\ ~raw /\ stream = "open" =>
        (IF worker = "running" THEN Hits(batch \o c2s, RequestFrames) ELSE 0)
            + Len(pending) + Len(s2c) <= IF call = "none" THEN 0 ELSE 1

InStep == TypeOK /\ Up /\ Down /\ NoCryptoError /\ Quiet

LEMMA FramesAre == FrameSeqs = Seq(FrameSet)
BY DEF FrameSeqs, FrameSet

LEMMA FrameType ==
    ASSUME NEW id \in Ids \cup {"xSYN_RSP"}, NEW enc \in BOOLEAN, NEW n \in Nat
    PROVE  /\ Frame(id, enc, n) \in FrameSet
           /\ Frame(id, enc, n).id = id /\ Frame(id, enc, n).enc = enc
           /\ enc => Frame(id, enc, n).nonce = n
BY DEF Frame, FrameSet

(* The sequences of the connection are typed, whatever the rest is.        *)
LEMMA Typed ==
    ASSUME TypeOK
    PROVE  /\ pending \in Seq(FrameSet) /\ batch \in Seq(FrameSet)
           /\ c2s \in Seq(FrameSet) /\ s2c \in Seq(FrameSet)
           /\ batch \o c2s \in Seq(FrameSet)
           /\ cenc \in Nat /\ cdec \in Nat /\ senc \in Nat /\ sdec \in Nat
<1>1. batch \in Seq(FrameSet) /\ c2s \in Seq(FrameSet)
    BY FramesAre DEF TypeOK
<1> QED
    BY <1>1, FramesAre, ConcatProperties DEF TypeOK

(* A frame more at the end: it takes the next number.                      *)
LEMMA ScheduleGrows ==
    ASSUME NEW s \in Seq(FrameSet), NEW n \in Nat, NEW f \in FrameSet
    PROVE  /\ InSchedule(s \o <<f>>, n)
                <=> InSchedule(s, n) /\ (f.enc => f.nonce = n + Encrypted(s))
           /\ Encrypted(s \o <<f>>) = Encrypted(s) + IF f.enc THEN 1 ELSE 0
<1>1. <<f>> \in Seq(FrameSet) /\ Encrypted(s) \in Nat
    BY EncryptedIsHits
<1>2. n + Encrypted(s) \in Nat
    BY <1>1
<1>3. InSchedule(<<f>>, n + Encrypted(s)) <=> (f.enc => f.nonce = n + Encrypted(s))
    BY <1>2, ScheduleOne
<1>4. InSchedule(s \o <<f>>, n) <=> InSchedule(s, n) /\ InSchedule(<<f>>, n + Encrypted(s))
    BY <1>1, ScheduleConcat
<1>5. Encrypted(s \o <<f>>) = Encrypted(s) + Encrypted(<<f>>)
    BY <1>1, EncryptedConcat
<1> QED
    BY <1>3, <1>4, <1>5, EncryptedOne

(* The first k frames are taken: the rest goes on where they ended.        *)
LEMMA ScheduleShrinks ==
    ASSUME NEW s \in Seq(FrameSet), NEW n \in Nat, NEW k \in 1..Len(s), InSchedule(s, n)
    PROVE  /\ InSchedule(SubSeq(s, k + 1, Len(s)), n + Encrypted(SubSeq(s, 1, k)))
           /\ Encrypted(s) = Encrypted(SubSeq(s, 1, k)) + Encrypted(SubSeq(s, k + 1, Len(s)))
           /\ Encrypted(SubSeq(s, 1, k)) \in Nat /\ Encrypted(SubSeq(s, k + 1, Len(s))) \in Nat
<1> DEFINE first == SubSeq(s, 1, k)
           rest == SubSeq(s, k + 1, Len(s))
<1>1. first \in Seq(FrameSet) /\ rest \in Seq(FrameSet)
    BY SubSeqProperties
<1>2. first \o rest = s
  <2>1. 1 \in 1..Len(s) + 1 /\ k \in 1 - 1..Len(s) /\ Len(s) \in k..Len(s)
      OBVIOUS
  <2>2. first \o rest = SubSeq(s, 1, Len(s))
      BY <2>1, ConcatAdjacentSubSeq
  <2> QED
      BY <2>2, SubSeqFull
<1> HIDE DEF first, rest
<1>3. InSchedule(rest, n + Encrypted(first))
    BY <1>1, <1>2, ScheduleConcat
<1>4. Encrypted(s) = Encrypted(first) + Encrypted(rest)
    BY <1>1, <1>2, EncryptedConcat
<1>5. Encrypted(first) \in Nat /\ Encrypted(rest) \in Nat
    BY <1>1, EncryptedIsHits
<1> QED
    BY <1>3, <1>4, <1>5 DEF first, rest

(* What a step of the client may do to what it sends.                      *)
SendsAtMostOne ==
    \/ UNCHANGED <<cenc, c2s>>
    \/ \E id \in Ids, enc \in BOOLEAN : Written(id, enc) \/ WriteFails(enc)

LEMMA WrittenIs ==
    ASSUME TypeOK, NEW id \in Ids, NEW enc \in BOOLEAN, Written(id, enc)
    PROVE  LET f == Frame(id, enc, cenc) IN
           /\ f \in FrameSet
           /\ c2s' = c2s \o <<f>> /\ c2s' \in Seq(FrameSet)
           /\ batch \o c2s' = (batch \o c2s) \o <<f>>
<1> DEFINE f == Frame(id, enc, cenc)
<1>1. f \in FrameSet
    BY Typed, FrameType
<1>2. c2s' = Append(c2s, f)
    BY DEF Written
<1> HIDE DEF f
<1>3. c2s' = c2s \o <<f>>
    BY <1>1, <1>2, Typed, AppendIsConcat
<1>4. <<f>> \in Seq(FrameSet)
    BY <1>1
<1>5. batch \o c2s' = (batch \o c2s) \o <<f>>
  <2>1. batch \in Seq(FrameSet) /\ c2s \in Seq(FrameSet)
      BY Typed
  <2> QED
      BY <1>3, <1>4, <2>1, FramesAssociate, Zenon
<1>6. c2s' \in Seq(FrameSet)
    BY <1>3, <1>4, Typed, ConcatProperties
<1> QED
    BY <1>1, <1>3, <1>5, <1>6 DEF f

LEMMA UpSent ==
    ASSUME TypeOK, Up, SendsAtMostOne, UNCHANGED <<same_keys, stream, workerVars>>
    PROVE  Up'
<1>1. CASE UNCHANGED <<cenc, c2s>>
    BY <1>1 DEF Up, workerVars
<1>2. ASSUME NEW enc \in BOOLEAN, WriteFails(enc) PROVE Up'
    BY <1>2 DEF Up, WriteFails, workerVars
<1>3. ASSUME NEW id \in Ids, NEW enc \in BOOLEAN, Written(id, enc) PROVE Up'
  <2> DEFINE f == Frame(id, enc, cenc)
  <2>1. f \in FrameSet /\ batch \o c2s' = (batch \o c2s) \o <<f>>
      BY <1>3, WrittenIs
  <2>2. f.enc = enc /\ (enc => f.nonce = cenc)
      BY Typed, FrameType
  <2>3. cenc' = IF enc THEN cenc + 1 ELSE cenc
      BY <1>3 DEF Written
  <2> HIDE DEF f
  <2>4. SUFFICES ASSUME same_keys, worker = "running", stream = "open"
                 PROVE  /\ InSchedule((batch \o c2s) \o <<f>>, sdec)
                        /\ cenc' = sdec + Encrypted((batch \o c2s) \o <<f>>)
      BY <2>1 DEF Up, workerVars
  <2>5. InSchedule(batch \o c2s, sdec) /\ cenc = sdec + Encrypted(batch \o c2s)
      BY <2>4 DEF Up
  <2>6. /\ InSchedule((batch \o c2s) \o <<f>>, sdec)
                <=> InSchedule(batch \o c2s, sdec) /\ (f.enc => f.nonce = sdec + Encrypted(batch \o c2s))
        /\ Encrypted((batch \o c2s) \o <<f>>) = Encrypted(batch \o c2s) + IF f.enc THEN 1 ELSE 0
      BY <2>1, Typed, ScheduleGrows
  <2>7. Encrypted(batch \o c2s) \in Nat /\ sdec \in Nat
      BY Typed, EncryptedIsHits
  <2> QED
      BY <2>2, <2>3, <2>5, <2>6, <2>7
<1> QED
    BY <1>1, <1>2, <1>3 DEF SendsAtMostOne

-----------------------------------------------------------------------------
(* What the actions of the client do                                       *)

RequestIds == {"x1E", "x19", "x79", "xFA", "xSYN_A"}

SendAction ==
    \/ RunHandshake \/ SendNatProbe \/ SendKeepalive \/ SendUnknown
    \/ \E id \in RawIds : SendClear(id) \/ SendEncrypted(id)

(* A call of the owner that sends: one frame, answered if it waits.        *)
Sends(id, enc, to, reply) ==
    /\ SendThen(id, enc, client, to, reply)
    /\ to = client \/ to = "ServiceHandshakeSent" \/ (to = "Active" /\ Ready)
    /\ reply = "xFB" => Ready /\ to = client
    /\ reply = "none" /\ id \in RequestIds => raw'
    /\ call = "none" /\ calls < MaxCalls /\ calls' = calls + 1
    /\ raw' = raw \/ raw' = TRUE
    /\ UNCHANGED <<same_keys, stream, crypto_ready, cdec, pending, workerVars, s2c, connects,
                   timeouts>>

LEMMA SendActionIs ==
    ASSUME SendAction
    PROVE  \E id \in Ids, enc \in BOOLEAN, to \in {client, "ServiceHandshakeSent", "Active"},
              reply \in {"none", "x1F", "xFB"} : Sends(id, enc, to, reply)
<1>1. {"x1E", "x12E", "xFA", "other"} \subseteq Ids
    BY DEF Ids, KnownIds
<1>2. CASE RunHandshake
  <2>1. Sends("x1E", FALSE, "ServiceHandshakeSent", "x1F")
      BY <1>2 DEF RunHandshake, Sends, Calls
  <2> QED
      BY <1>1, <2>1
<1>3. CASE SendNatProbe
  <2>1. Sends("x12E", TRUE, "Active", "none")
      BY <1>3 DEF SendNatProbe, Sends, Calls, RequestIds
  <2> QED
      BY <1>1, <2>1
<1>4. CASE SendKeepalive
  <2>1. Sends("xFA", FALSE, client, "xFB")
      BY <1>4 DEF SendKeepalive, Sends, Calls
  <2> QED
      BY <1>1, <2>1
<1>5. CASE SendUnknown
  <2>1. Sends("other", FALSE, client, "none")
      BY <1>5 DEF SendUnknown, Sends, Calls, RequestIds
  <2> QED
      BY <1>1, <2>1
<1>6. ASSUME NEW id \in RawIds, SendClear(id) \/ SendEncrypted(id)
      PROVE  \E x \in Ids, enc \in BOOLEAN, to \in {client, "ServiceHandshakeSent", "Active"},
                reply \in {"none", "x1F", "xFB"} : Sends(x, enc, to, reply)
  <2>1. id \in Ids
      BY RawIdsAssumption
  <2>2. SendClear(id) => Sends(id, FALSE, client, "none")
      BY DEF SendClear, Sends, Calls
  <2>3. SendEncrypted(id) => Sends(id, TRUE, client, "none")
      BY DEF SendEncrypted, Sends, Calls
  <2> QED
      BY <1>6, <2>1, <2>2, <2>3
<1> QED
    BY <1>2, <1>3, <1>4, <1>5, <1>6 DEF SendAction

LEMMA SendThenIs ==
    ASSUME TypeOK, NEW id \in Ids, NEW enc \in BOOLEAN, NEW from, NEW to, NEW reply,
           SendThen(id, enc, from, to, reply)
    PROVE  /\ SendsAtMostOne
           /\ cenc' \in Nat /\ c2s' \in Seq(FrameSet) /\ stream = "open"
           /\ \/ /\ Written(id, enc) /\ client' = to /\ call' = reply
                 /\ outcome' = IF reply = "none" THEN "ok" ELSE outcome
              \/ /\ c2s' = c2s /\ client' = from /\ call' = "none" /\ outcome' = "write_failed"
<1>1. CASE Written(id, enc)
  <2>1. c2s' \in Seq(FrameSet)
      BY <1>1, WrittenIs
  <2> QED
      BY <1>1, <2>1, Typed DEF SendThen, SendsAtMostOne, Written, WriteFails
<1>2. CASE WriteFails(enc) /\ ~Written(id, enc)
    BY <1>2, Typed DEF SendThen, SendsAtMostOne, WriteFails
<1> QED
    BY <1>1, <1>2 DEF SendThen

(* What the client takes a frame for, and what it sends next.              *)
LEMMA GotIs ==
    ASSUME TypeOK, call # "none", NEW f \in FrameSet, Got(f)
    PROVE  /\ SendsAtMostOne
           /\ cenc' \in Nat /\ c2s' \in Seq(FrameSet) /\ crypto_ready' \in BOOLEAN
           /\ outcome' \in {outcome, "ok", "unexpected", "mismatch", "write_failed"}
           /\ \/ call' = "none" /\ c2s' = c2s
              \/ \E id \in Ids, enc \in BOOLEAN : Written(id, enc) /\ call' \in {"x1A", "x7A"}
           /\ \/ client' = client /\ call' = "none"
              \/ /\ call = "x1F" /\ f.id = "x1F" /\ call' \in {"none", "x1A"}
                 /\ client' \in {"ServiceHandshakeComplete", "SessionLoginSent"}
              \/ /\ call = "x1A" /\ f.id = "x1A" /\ call' \in {"none", "x7A"}
                 /\ client' \in {"SessionEstablished", "EncryptedHandshakeSent"}
              \/ /\ client' = "Active" /\ call' = "none"
                 /\ call = "xFB" \/ (call = "x7A" /\ f.id = "x7A" /\ f.enc)
<1>1. call \in {"any", "x1F", "x1A", "x7A", "xFB"}
    BY DEF TypeOK
<1>2. ASSUME NEW kind \in {"ok", "unexpected", "mismatch"}, Returns(kind)
      PROVE  /\ SendsAtMostOne
             /\ cenc' \in Nat /\ c2s' \in Seq(FrameSet) /\ crypto_ready' \in BOOLEAN
             /\ outcome' \in {"ok", "unexpected", "mismatch"}
             /\ call' = "none" /\ c2s' = c2s /\ client' = client
    BY <1>2, Typed DEF Returns, SendsAtMostOne, TypeOK
<1>3. CASE call = "any" \/ f.id # call \/ f.enc # (call = "x7A")
  <2>1. \E kind \in {"ok", "unexpected", "mismatch"} : Returns(kind)
      BY <1>3 DEF Got
  <2> QED
      BY <1>2, <2>1
<1>4. CASE call = "x1F" /\ f.id = call /\ ~f.enc
  <2>0. f.enc = (call = "x7A")
      BY <1>4 DEF FrameSet
  <2>1. /\ SendThen("x19", FALSE, "ServiceHandshakeComplete", "SessionLoginSent", "x1A")
        /\ UNCHANGED crypto_ready
      BY <1>4, <2>0 DEF Got
  <2>2. "x19" \in Ids
      BY DEF Ids, KnownIds
  <2> QED
      BY <1>4, <2>1, <2>2, SendThenIs DEF TypeOK
<1>5. CASE call = "x1A" /\ f.id = call /\ ~f.enc
  <2>0. f.enc = (call = "x7A")
      BY <1>5 DEF FrameSet
  <2>1. /\ SendThen("x79", TRUE, "SessionEstablished", "EncryptedHandshakeSent", "x7A")
        /\ crypto_ready' = TRUE
      BY <1>5, <2>0 DEF Got
  <2>2. "x79" \in Ids
      BY DEF Ids, KnownIds
  <2> QED
      BY <1>5, <2>1, <2>2, SendThenIs
<1>6. CASE call \in {"x7A", "xFB"} /\ f.id = call /\ f.enc = (call = "x7A")
  <2>1. /\ client' = "Active" /\ call' = "none" /\ outcome' = "ok"
        /\ UNCHANGED <<crypto_ready, cenc, c2s>>
      BY <1>6 DEF Got
  <2> QED
      BY <1>6, <2>1, Typed DEF SendsAtMostOne, TypeOK
<1> QED
    BY <1>1, <1>3, <1>4, <1>5, <1>6

-----------------------------------------------------------------------------
(* The client keeps in step                                                *)

LEMMA RequestsType ==
    ASSUME NEW s \in Seq(FrameSet)
    PROVE  Hits(s, RequestFrames) \in Nat
BY HitsType

LEMMA CountsType ==
    ASSUME TypeOK
    PROVE  Hits(batch \o c2s, RequestFrames) \in Nat /\ Len(pending) \in Nat /\ Len(s2c) \in Nat
<1>1. batch \o c2s \in Seq(FrameSet) /\ pending \in Seq(FrameSet) /\ s2c \in Seq(FrameSet)
    BY Typed
<1>2. Hits(batch \o c2s, RequestFrames) \in Nat
    BY <1>1, RequestsType
<1>3. Len(pending) \in Nat /\ Len(s2c) \in Nat
    BY <1>1
<1> QED
    BY <1>2, <1>3

LEMMA RequestsGrow ==
    ASSUME TypeOK, NEW id \in Ids, NEW enc \in BOOLEAN, Written(id, enc)
    PROVE  Hits(batch \o c2s', RequestFrames)
                = Hits(batch \o c2s, RequestFrames) + IF id \in RequestIds THEN 1 ELSE 0
<1> DEFINE f == Frame(id, enc, cenc)
<1>1. f \in FrameSet /\ batch \o c2s' = (batch \o c2s) \o <<f>> /\ f.id = id
  <2>1. f \in FrameSet /\ batch \o c2s' = (batch \o c2s) \o <<f>>
      BY WrittenIs, Zenon
  <2> QED
      BY <2>1 DEF Frame
<1>2. f \in RequestFrames <=> id \in RequestIds
    BY <1>1 DEF RequestFrames, RequestIds
<1> HIDE DEF f
<1>3. <<f>> \in Seq(FrameSet)
    BY <1>1
<1>4. Hits((batch \o c2s) \o <<f>>, RequestFrames)
          = Hits(batch \o c2s, RequestFrames) + Hits(<<f>>, RequestFrames)
    BY <1>3, Typed, HitsConcat
<1> QED
    BY <1>1, <1>2, <1>4, HitsOne

LEMMA SendInStep ==
    ASSUME InStep, SendAction
    PROVE  InStep'
<1>1. PICK id \in Ids, enc \in BOOLEAN, to \in {client, "ServiceHandshakeSent", "Active"},
           reply \in {"none", "x1F", "xFB"} : Sends(id, enc, to, reply)
    BY SendActionIs
<1>2. TypeOK /\ SendThen(id, enc, client, to, reply)
    BY <1>1 DEF InStep, Sends
<1>3. /\ SendsAtMostOne
      /\ cenc' \in Nat /\ c2s' \in Seq(FrameSet) /\ stream = "open"
      /\ \/ /\ Written(id, enc) /\ client' = to /\ call' = reply
            /\ outcome' = IF reply = "none" THEN "ok" ELSE outcome
         \/ /\ c2s' = c2s /\ client' = client /\ call' = "none" /\ outcome' = "write_failed"
    BY <1>2, SendThenIs
<1>4. /\ call = "none" /\ calls' \in 0..MaxCalls /\ raw' \in BOOLEAN
      /\ raw' = raw \/ raw' = TRUE
      /\ UNCHANGED <<same_keys, stream, crypto_ready, cdec, pending, workerVars, s2c, connects,
                     timeouts>>
  <2>1. calls \in 0..MaxCalls /\ raw \in BOOLEAN
      BY <1>2 DEF TypeOK
  <2>2. calls' \in 0..MaxCalls
      BY <1>1, <2>1, LimitsAssumption DEF Sends
  <2> QED
      BY <1>1, <2>1, <2>2 DEF Sends
<1>5. /\ client' \in ClientStates /\ outcome' \in {outcome, "ok", "write_failed"}
      /\ call' \in {"none", "x1F", "xFB"}
    BY <1>2, <1>3 DEF TypeOK, ClientStates
<1>6. TypeOK'
    BY <1>2, <1>3, <1>4, <1>5, FramesAre DEF TypeOK, Outcomes, workerVars
<1>7. Up'
    BY <1>2, <1>3, <1>4, UpSent DEF InStep
<1>8. Down' /\ NoCryptoError'
    BY <1>4, <1>5 DEF InStep, Down, NoCryptoError, workerVars
<1>9. Quiet'
  <2>1. SUFFICES ASSUME timeouts = 0, ~raw', stream = "open"
                 PROVE  (IF worker = "running" THEN Hits(batch \o c2s', RequestFrames) ELSE 0)
                            + Len(pending) + Len(s2c) <= IF call' = "none" THEN 0 ELSE 1
      BY <1>4 DEF Quiet, workerVars
  <2>2. (IF worker = "running" THEN Hits(batch \o c2s, RequestFrames) ELSE 0)
            + Len(pending) + Len(s2c) <= 0
      BY <1>4, <2>1 DEF InStep, Quiet
  <2>3. /\ Hits(batch \o c2s, RequestFrames) \in Nat
        /\ Len(pending) \in Nat /\ Len(s2c) \in Nat
      BY <1>2, CountsType
  <2>4. CASE c2s' = c2s
      BY <2>2, <2>3, <2>4
  <2>5. CASE Written(id, enc) /\ call' = reply
    <3>1. reply = "none" => id \notin RequestIds
        BY <1>1, <2>1 DEF Sends
    <3>2. Hits(batch \o c2s', RequestFrames)
              = Hits(batch \o c2s, RequestFrames) + IF id \in RequestIds THEN 1 ELSE 0
        BY <1>2, <2>5, RequestsGrow
    <3> QED
        BY <2>2, <2>3, <2>5, <3>1, <3>2
  <2> QED
      BY <1>3, <2>4, <2>5
<1> QED
    BY <1>6, <1>7, <1>8, <1>9 DEF InStep

(* A frame is handed to the call: the rest of a read's work is done, and   *)
(* what was owed to the call was this frame.                               *)
LEMMA GotInStep ==
    ASSUME TypeOK, NoCryptoError, call # "none", NEW f \in FrameSet, Got(f),
           UNCHANGED <<same_keys, stream, workerVars, calls, connects, timeouts, raw>>
    PROVE  /\ client' \in ClientStates /\ crypto_ready' \in BOOLEAN
           /\ call' \in {"none", "x1A", "x7A"} /\ outcome' \in Outcomes
           /\ cenc' \in Nat /\ c2s' \in FrameSeqs
           /\ NoCryptoError' /\ (Up => Up')
           /\ Hits(batch' \o c2s', RequestFrames)
                <= Hits(batch \o c2s, RequestFrames) + IF call' = "none" THEN 0 ELSE 1
<1>1. /\ SendsAtMostOne
      /\ cenc' \in Nat /\ c2s' \in Seq(FrameSet) /\ crypto_ready' \in BOOLEAN
      /\ outcome' \in {outcome, "ok", "unexpected", "mismatch", "write_failed"}
      /\ client' \in ClientStates
      /\ call' \in {"none", "x1A", "x7A"}
    BY GotIs DEF TypeOK, ClientStates
<1>2. \/ call' = "none" /\ c2s' = c2s
      \/ \E id \in Ids, enc \in BOOLEAN : Written(id, enc) /\ call' \in {"x1A", "x7A"}
    BY GotIs
<1>3. Hits(batch \o c2s, RequestFrames) \in Nat /\ batch' = batch
    BY CountsType DEF workerVars
<1>4. CASE call' = "none" /\ c2s' = c2s
    BY <1>1, <1>3, <1>4, FramesAre, UpSent DEF NoCryptoError, TypeOK, Outcomes
<1>5. ASSUME NEW id \in Ids, NEW enc \in BOOLEAN, Written(id, enc), call' \in {"x1A", "x7A"}
      PROVE  Hits(batch' \o c2s', RequestFrames) <= Hits(batch \o c2s, RequestFrames) + 1
    BY <1>3, <1>5, RequestsGrow
<1>6. NoCryptoError' /\ outcome' \in Outcomes /\ (Up => Up')
    BY <1>1, UpSent DEF NoCryptoError, TypeOK, Outcomes
<1> QED
    BY <1>1, <1>2, <1>4, <1>5, <1>6, FramesAre

LEMMA PendingInStep ==
    ASSUME InStep, ReadPending
    PROVE  InStep'
<1>1. /\ TypeOK /\ Up /\ Down /\ NoCryptoError /\ Quiet
      /\ call # "none" /\ pending # <<>> /\ pending \in Seq(FrameSet)
      /\ UNCHANGED <<same_keys, stream, cdec, workerVars, s2c, calls, connects, timeouts, raw>>
      /\ Got(Head(pending))
    BY Typed DEF InStep, ReadPending
<1>2. /\ Head(pending) \in FrameSet /\ pending' \in Seq(FrameSet)
      /\ Len(pending') = Len(pending) - 1
    BY <1>1, HeadTailProperties DEF ReadPending
<1>3. /\ client' \in ClientStates /\ crypto_ready' \in BOOLEAN
      /\ call' \in {"none", "x1A", "x7A"} /\ outcome' \in Outcomes
      /\ cenc' \in Nat /\ c2s' \in FrameSeqs
      /\ NoCryptoError' /\ Up'
      /\ Hits(batch' \o c2s', RequestFrames)
            <= Hits(batch \o c2s, RequestFrames) + IF call' = "none" THEN 0 ELSE 1
    BY <1>1, <1>2, GotInStep
<1>4. stream = "open" /\ TypeOK'
    BY <1>1, <1>2, <1>3, FramesAre DEF TypeOK, workerVars
<1>5. Down'
    BY <1>1 DEF Down, workerVars
<1>6. Quiet'
  <2>1. /\ Hits(batch \o c2s, RequestFrames) \in Nat /\ Hits(batch' \o c2s', RequestFrames) \in Nat
        /\ Len(pending) \in Nat /\ Len(s2c) \in Nat /\ s2c' = s2c /\ worker' = worker
    <3>1. batch' \in Seq(FrameSet) /\ c2s' \in Seq(FrameSet)
        BY <1>4, FramesAre DEF TypeOK
    <3>2. batch' \o c2s' \in Seq(FrameSet)
        BY <3>1, ConcatProperties
    <3> QED
        BY <1>1, <3>2, CountsType, RequestsType DEF workerVars
  <2> QED
      BY <1>1, <1>2, <1>3, <2>1 DEF Quiet
<1> QED
    BY <1>3, <1>4, <1>5, <1>6 DEF InStep

LEMMA SocketInStep ==
    ASSUME InStep, NEW n \in 1..Len(s2c), ReadSocket(n)
    PROVE  InStep'
<1>1. /\ TypeOK /\ Up /\ Down /\ NoCryptoError /\ Quiet
      /\ call # "none" /\ pending = <<>> /\ stream = "open"
      /\ s2c \in Seq(FrameSet) /\ Len(s2c) \in Nat /\ cdec \in Nat
      /\ s2c' = SubSeq(s2c, n + 1, Len(s2c))
      /\ UNCHANGED <<same_keys, stream, workerVars, calls, connects, timeouts, raw>>
    BY Typed DEF InStep, ReadSocket, TypeOK
<1>2. /\ s2c[1] \in FrameSet /\ s2c' \in Seq(FrameSet) /\ Len(s2c') = Len(s2c) - n
      /\ SubSeq(s2c, 2, n) \in Seq(FrameSet) /\ Len(SubSeq(s2c, 2, n)) = n - 1
    BY <1>1, SubSeqProperties
<1>3. \A k \in 1..n : Encrypted(SubSeq(s2c, 1, k)) \in Nat
  <2>1. \A k \in 1..n : SubSeq(s2c, 1, k) \in Seq(FrameSet)
      BY <1>1, SubSeqProperties
  <2> QED
      BY <2>1, EncryptedIsHits
<1>4. Hits(batch \o c2s, RequestFrames) \in Nat
    BY <1>1, CountsType
<1>5. CASE /\ cdec' = cdec + Encrypted(SubSeq(s2c, 1, n))
           /\ pending' = SubSeq(s2c, 2, n)
           /\ Got(s2c[1])
  <2>1. /\ client' \in ClientStates /\ crypto_ready' \in BOOLEAN
        /\ call' \in {"none", "x1A", "x7A"} /\ outcome' \in Outcomes
        /\ cenc' \in Nat /\ c2s' \in FrameSeqs
        /\ NoCryptoError' /\ Up'
        /\ Hits(batch' \o c2s', RequestFrames)
              <= Hits(batch \o c2s, RequestFrames) + IF call' = "none" THEN 0 ELSE 1
      BY <1>1, <1>2, <1>5, GotInStep
  <2>2. cdec' \in Nat
      BY <1>1, <1>3, <1>5
  <2>3. TypeOK'
      BY <1>1, <1>2, <1>5, <2>1, <2>2, FramesAre DEF TypeOK, workerVars
  <2>4. Down'
    <3>1. SUFFICES ASSUME same_keys
                   PROVE  /\ InSchedule(s2c', cdec')
                          /\ worker = "running" => senc = cdec' + Encrypted(s2c')
        BY <1>1 DEF Down, workerVars
    <3>2. InSchedule(s2c, cdec) /\ (worker = "running" => senc = cdec + Encrypted(s2c))
        BY <1>1, <3>1 DEF Down
    <3>3. /\ InSchedule(s2c', cdec + Encrypted(SubSeq(s2c, 1, n)))
          /\ Encrypted(s2c) = Encrypted(SubSeq(s2c, 1, n)) + Encrypted(s2c')
          /\ Encrypted(SubSeq(s2c, 1, n)) \in Nat /\ Encrypted(s2c') \in Nat
        BY <1>1, <3>2, ScheduleShrinks
    <3> QED
        BY <1>1, <1>5, <3>2, <3>3
  <2>5. Quiet'
    <3>1. batch' \o c2s' \in Seq(FrameSet)
        BY <2>3, FramesAre, ConcatProperties DEF TypeOK
    <3>2. Hits(batch' \o c2s', RequestFrames) \in Nat
        BY <3>1, RequestsType
    <3>3. Len(pending') = n - 1 /\ Len(pending) = 0 /\ worker' = worker
        BY <1>1, <1>2, <1>5 DEF workerVars
    <3>4. SUFFICES ASSUME timeouts = 0, ~raw, stream = "open"
                   PROVE  (IF worker = "running" THEN Hits(batch' \o c2s', RequestFrames) ELSE 0)
                              + Len(pending') + Len(s2c') <= IF call' = "none" THEN 0 ELSE 1
        BY <1>1, <3>3 DEF Quiet
    <3> QED
        BY <1>1, <1>2, <1>4, <2>1, <3>2, <3>3, <3>4 DEF Quiet
  <2> QED
      BY <2>1, <2>3, <2>4, <2>5 DEF InStep
<1>6. ASSUME NEW bad \in 1..n,
             ~Decrypts(s2c, bad, cdec),
             cdec' = cdec + Encrypted(SubSeq(s2c, 1, bad)),
             pending' = pending, Returns("crypto")
      PROVE  InStep'
  <2>1. ~same_keys
    <3>1. bad \in 1..Len(s2c)
        BY <1>1
    <3>2. same_keys /\ InSchedule(s2c, cdec) => Decrypts(s2c, bad, cdec)
        BY <3>1 DEF InSchedule, Decrypts
    <3> QED
        BY <1>1, <1>6, <3>2 DEF Down
  <2>2. /\ client' = client /\ crypto_ready' = crypto_ready /\ cenc' = cenc /\ c2s' = c2s
        /\ call' = "none" /\ outcome' = "crypto"
      BY <1>6 DEF Returns
  <2>3. TypeOK'
    <3>1. cdec' \in Nat
        BY <1>1, <1>3, <1>6
    <3>2. s2c' \in FrameSeqs /\ pending' \in FrameSeqs /\ pending' = pending
        BY <1>1, <1>2, <1>6, FramesAre DEF TypeOK
    <3> QED
        BY <1>1, <2>2, <3>1, <3>2 DEF TypeOK, Outcomes, workerVars
  <2>4. Up' /\ Down' /\ NoCryptoError'
      BY <1>1, <2>1 DEF Up, Down, NoCryptoError
  <2>5. Quiet'
    <3>1. pending' = <<>> /\ Len(pending) = 0 /\ Len(pending') = 0
          /\ worker' = worker /\ batch' = batch
        BY <1>1, <1>6 DEF workerVars
    <3> QED
        BY <1>1, <1>2, <1>4, <2>2, <3>1 DEF Quiet
  <2> QED
      BY <2>3, <2>4, <2>5 DEF InStep
<1> QED
    BY <1>5, <1>6 DEF ReadSocket

(* The other ends of a read, and the calls that send nothing.              *)
LEMMA ReadEndInStep ==
    ASSUME InStep, ReadEnd
    PROVE  InStep'
<1>1. /\ TypeOK /\ call # "none" /\ worker = "ended" /\ pending = <<>> /\ s2c' = <<>>
      /\ call' = "none" /\ outcome' \in {"eof", "reset"}
      /\ UNCHANGED <<client, crypto_ready, cenc, c2s>>
      /\ UNCHANGED <<same_keys, stream, cdec, pending, workerVars, calls, connects, timeouts, raw>>
    BY DEF InStep, ReadEnd, Returns
<1>2. s2c' \in Seq(FrameSet) /\ Len(s2c') = 0
    BY <1>1
<1>3. TypeOK'
    BY <1>1, <1>2, FramesAre DEF TypeOK, Outcomes, workerVars
<1>4. Up' /\ NoCryptoError'
    BY <1>1 DEF Up, NoCryptoError, workerVars
<1>5. Down'
    BY <1>1, ScheduleNone DEF Down, workerVars
<1>6. Quiet'
    BY <1>1, <1>2 DEF Quiet, workerVars
<1> QED
    BY <1>3, <1>4, <1>5, <1>6 DEF InStep

LEMMA ReadTimeoutInStep ==
    ASSUME InStep, ReadTimeout
    PROVE  InStep'
<1>1. /\ TypeOK /\ timeouts' = timeouts + 1 /\ timeouts \in 0..MaxTimeouts /\ timeouts < MaxTimeouts
      /\ call' = "none" /\ outcome' = "timeout"
      /\ UNCHANGED <<client, crypto_ready, cenc, c2s>>
      /\ UNCHANGED <<same_keys, stream, cdec, pending, workerVars, s2c, calls, connects, raw>>
    BY DEF InStep, ReadTimeout, Returns, TypeOK
<1>2. timeouts' \in 0..MaxTimeouts /\ timeouts' # 0
    BY <1>1, LimitsAssumption
<1>3. TypeOK'
    BY <1>1, <1>2, FramesAre DEF TypeOK, Outcomes, workerVars
<1> QED
    BY <1>1, <1>2, <1>3 DEF InStep, Up, Down, NoCryptoError, Quiet, workerVars

LEMMA ReadFrameInStep ==
    ASSUME InStep, ReadFrame
    PROVE  InStep'
<1>1. /\ TypeOK /\ calls' = calls + 1 /\ calls \in 0..MaxCalls /\ calls < MaxCalls
      /\ call' = "any" /\ raw' = TRUE /\ stream = "open"
      /\ UNCHANGED <<same_keys, client, stream, crypto_ready, outcome, cenc, cdec, pending,
                     workerVars, c2s, s2c, connects, timeouts>>
    BY DEF InStep, ReadFrame, Calls, TypeOK
<1>2. calls' \in 0..MaxCalls
    BY <1>1, LimitsAssumption
<1>3. TypeOK'
    BY <1>1, <1>2, FramesAre DEF TypeOK, workerVars
<1> QED
    BY <1>1, <1>3 DEF InStep, Up, Down, NoCryptoError, Quiet, workerVars

LEMMA CloseInStep ==
    ASSUME InStep, Close
    PROVE  InStep'
<1>1. /\ TypeOK /\ call = "none" /\ call' = "none"
      /\ client' = "Closed" /\ stream' = "none" /\ crypto_ready' = FALSE /\ outcome' = "ok"
      /\ cenc' = 0 /\ cdec' = 0 /\ pending' = <<>>
      /\ UNCHANGED <<same_keys, workerVars, c2s, s2c, calls, connects, timeouts, raw>>
    BY DEF InStep, Close, FreshSession
<1>2. pending' \in Seq(FrameSet)
    BY <1>1
<1>3. TypeOK'
    BY <1>1, <1>2, FramesAre DEF TypeOK, ClientStates, Outcomes, workerVars
<1> QED
    BY <1>1, <1>3 DEF InStep, Up, Down, NoCryptoError, Quiet

LEMMA ConnectInStep ==
    ASSUME InStep, Connect
    PROVE  InStep'
<1>1. /\ TypeOK /\ call = "none" /\ call' = "none"
      /\ connects' = connects + 1 /\ connects \in 0..MaxConnects /\ connects < MaxConnects
      /\ client' = "Connected" /\ stream' = "open" /\ crypto_ready' = FALSE /\ outcome' = "ok"
      /\ cenc' = 0 /\ cdec' = 0 /\ pending' = <<>>
      /\ worker' \in {"running", "ended"} /\ server' = InitialState
      /\ senc' = 0 /\ sdec' = 0 /\ batch' = <<>>
      /\ c2s' = <<>> /\ s2c' = <<>>
      /\ UNCHANGED <<same_keys, calls, timeouts, raw>>
    BY DEF InStep, Connect, FreshSession, TypeOK
<1>2. /\ connects' \in 0..MaxConnects
      /\ pending' \in Seq(FrameSet) /\ batch' \in Seq(FrameSet)
      /\ c2s' \in Seq(FrameSet) /\ s2c' \in Seq(FrameSet)
      /\ batch' \o c2s' = <<>> /\ Len(pending') = 0 /\ Len(s2c') = 0
    BY <1>1, LimitsAssumption
<1>3. InitialState \in States
    BY DEF InitialState, States
<1>4. TypeOK'
    BY <1>1, <1>2, <1>3, FramesAre DEF TypeOK, ClientStates, Outcomes
<1>5. Up'
  <2>1. InSchedule(batch' \o c2s', sdec') /\ Encrypted(batch' \o c2s') = 0
      BY <1>2, ScheduleNone, EncryptedNone
  <2> QED
      BY <1>1, <2>1 DEF Up
<1>6. Down'
  <2>1. InSchedule(s2c', cdec') /\ Encrypted(s2c') = 0
      BY <1>1, ScheduleNone, EncryptedNone
  <2> QED
      BY <1>1, <2>1 DEF Down
<1>7. Quiet'
  <2>1. Hits(batch' \o c2s', RequestFrames) = 0
      BY <1>2, HitsNone
  <2> QED
      BY <1>1, <1>2, <2>1 DEF Quiet
<1> QED
    BY <1>1, <1>4, <1>5, <1>6, <1>7 DEF InStep, NoCryptoError

-----------------------------------------------------------------------------
(* What the worker does with a frame                                       *)

(* The state of the session after a message it accepts.                    *)
Moved(s, m) == CompleteEncryptedHandshake(StateAfter(s, m))

LEMMA ServerMoves ==
    ASSUME NEW s \in States, NEW m, m.dir = "c2s", ~Rejects(s, m)
    PROVE  \/ /\ s = "WaitingForServiceHandshake" /\ m.id = "x1E"
              /\ Moved(s, m) = "ServiceHandshakeComplete"
           \/ /\ s \in {"ServiceHandshakeComplete", "WaitingForSessionLogin"} /\ m.id = "x19"
              /\ Moved(s, m) = "SessionEstablished"
           \/ /\ s = "SessionEstablished" /\ m.id = "x79"
              /\ Moved(s, m) = "EncryptedChannelEstablished"
           \/ s \in ReadyStates /\ Moved(s, m) = "Active"
           \/ /\ s \in {"WaitingForServiceHandshake", "ServiceHandshakeComplete",
                        "WaitingForSessionLogin", "SessionEstablished"}
              /\ m.id \notin SequencedIds
              /\ Moved(s, m) = s
           \/ /\ s = "WaitingForEncryptedHandshake"
              /\ Moved(s, m) = "EncryptedChannelEstablished"
<1>1. CASE s \in ReadyStates
  <2>1. StateAfter(s, m) = "Active"
      BY <1>1 DEF StateAfter
  <2> QED
      BY <1>1, <2>1 DEF Moved, CompleteEncryptedHandshake
<1>2. CASE s = "WaitingForServiceHandshake"
  <2>1. \A t : <<s, m.id, t>> \in HandshakeSteps
                  <=> m.id = "x1E" /\ t = "ServiceHandshakeComplete"
      BY <1>2 DEF HandshakeSteps
  <2>2. Awaits(s, m.id) <=> m.id = "x1E"
      BY <2>1 DEF Awaits, States
  <2>3. CASE m.id = "x1E"
    <3>1. StateAfter(s, m) = "ServiceHandshakeComplete"
        BY <1>2, <2>1, <2>2, <2>3 DEF StateAfter, States, ReadyStates
    <3> QED
        BY <1>2, <2>3, <3>1 DEF Moved, CompleteEncryptedHandshake
  <2>4. CASE m.id # "x1E"
    <3>1. StateAfter(s, m) = s /\ m.id \notin SequencedIds
        BY <1>2, <2>2, <2>4 DEF StateAfter, Rejects, ReadyStates
    <3> QED
        BY <1>2, <3>1 DEF Moved, CompleteEncryptedHandshake
  <2> QED
      BY <2>3, <2>4
<1>3. CASE s \in {"ServiceHandshakeComplete", "WaitingForSessionLogin"}
  <2>1. \A t : <<s, m.id, t>> \in HandshakeSteps <=> m.id = "x19" /\ t = "SessionEstablished"
      BY <1>3 DEF HandshakeSteps
  <2>2. Awaits(s, m.id) <=> m.id = "x19"
      BY <2>1 DEF Awaits, States
  <2>3. CASE m.id = "x19"
    <3>1. StateAfter(s, m) = "SessionEstablished"
        BY <1>3, <2>1, <2>2, <2>3 DEF StateAfter, States, ReadyStates
    <3> QED
        BY <1>3, <2>3, <3>1 DEF Moved, CompleteEncryptedHandshake
  <2>4. CASE m.id # "x19"
    <3>1. StateAfter(s, m) = s /\ m.id \notin SequencedIds
        BY <1>3, <2>2, <2>4 DEF StateAfter, Rejects, ReadyStates
    <3> QED
        BY <1>3, <3>1 DEF Moved, CompleteEncryptedHandshake
  <2> QED
      BY <2>3, <2>4
<1>4. CASE s = "SessionEstablished"
  <2>1. \A t : <<s, m.id, t>> \in HandshakeSteps
                  <=> m.id = "x79" /\ t = "WaitingForEncryptedHandshake"
      BY <1>4 DEF HandshakeSteps
  <2>2. Awaits(s, m.id) <=> m.id = "x79"
      BY <2>1 DEF Awaits, States
  <2>3. CASE m.id = "x79"
    <3>1. StateAfter(s, m) = "WaitingForEncryptedHandshake"
        BY <1>4, <2>1, <2>2, <2>3 DEF StateAfter, States, ReadyStates
    <3> QED
        BY <1>4, <2>3, <3>1 DEF Moved, CompleteEncryptedHandshake
  <2>4. CASE m.id # "x79"
    <3>1. StateAfter(s, m) = s /\ m.id \notin SequencedIds
        BY <1>4, <2>2, <2>4 DEF StateAfter, Rejects, ReadyStates
    <3> QED
        BY <1>4, <3>1 DEF Moved, CompleteEncryptedHandshake
  <2> QED
      BY <2>3, <2>4
<1>5. CASE s = "WaitingForEncryptedHandshake"
  <2>1. ~Awaits(s, m.id)
      BY <1>5 DEF Awaits, HandshakeSteps
  <2>2. StateAfter(s, m) = s
      BY <1>5, <2>1 DEF StateAfter, ReadyStates
  <2> QED
      BY <1>5, <2>2 DEF Moved, CompleteEncryptedHandshake
<1>6. s \notin {"Connected", "Closing", "Closed"}
    BY DEF Rejects, ClosingStates
<1>7. \/ s \in ReadyStates
      \/ s = "WaitingForServiceHandshake"
      \/ s \in {"ServiceHandshakeComplete", "WaitingForSessionLogin"}
      \/ s = "SessionEstablished"
      \/ s = "WaitingForEncryptedHandshake"
    BY <1>6 DEF States, ReadyStates
<1> QED
    BY <1>1, <1>2, <1>3, <1>4, <1>5, <1>7

LEMMA MovedType ==
    ASSUME NEW s \in States, NEW m, m.dir = "c2s", ~Rejects(s, m)
    PROVE  Moved(s, m) \in States
BY ServerMoves DEF States, ReadyStates

(* A reply answers a request, at the stage the request belongs to.         *)
LEMMA RepliesAre ==
    ASSUME NEW s, NEW id, NEW r \in Replies(s, id, TRUE)
    PROVE  /\ r \in {"x1F", "x1A", "x7A", "xFB", "xSYN_RSP"}
           /\ id \in RequestIds
           /\ r = "x1F" => s = "WaitingForServiceHandshake" /\ id = "x1E"
           /\ r = "x1A" => s \in {"ServiceHandshakeComplete", "WaitingForSessionLogin"}
                           /\ id = "x19"
           /\ r = "x7A" => s = "SessionEstablished" /\ id = "x79"
           /\ r \in ChatReplies => s \in ReadyStates
BY DEF Replies, ReplySteps, ChatReplies, RequestIds, ReadyStates

LEMMA ServerReadInStep ==
    ASSUME InStep, ServerRead
    PROVE  InStep'
<1>1. PICK n \in 1..Len(c2s) :
          batch' = SubSeq(c2s, 1, n) /\ c2s' = SubSeq(c2s, n + 1, Len(c2s))
    BY DEF ServerRead
<1>2. /\ TypeOK /\ batch = <<>> /\ c2s \in Seq(FrameSet) /\ Len(c2s) \in Nat
      /\ UNCHANGED <<same_keys, clientVars, worker, server, senc, sdec, s2c, calls, connects,
                     timeouts, raw>>
    BY Typed DEF InStep, ServerRead
<1>3. batch' \in Seq(FrameSet) /\ c2s' \in Seq(FrameSet)
    BY <1>1, <1>2, SubSeqProperties
<1>4. batch' \o c2s' = batch \o c2s
  <2>1. 1 \in 1..Len(c2s) + 1 /\ n \in 1 - 1..Len(c2s) /\ Len(c2s) \in n..Len(c2s)
      BY <1>2
  <2>2. batch' \o c2s' = SubSeq(c2s, 1, Len(c2s))
      BY <1>1, <1>2, <2>1, ConcatAdjacentSubSeq
  <2>3. SubSeq(c2s, 1, Len(c2s)) = c2s
      BY <1>2, SubSeqFull
  <2>4. <<>> \o c2s = c2s
      BY <1>2, ConcatEmptySeq
  <2> QED
      BY <1>2, <2>2, <2>3, <2>4, Zenon
<1>5. TypeOK'
    BY <1>2, <1>3, FramesAre DEF TypeOK, clientVars
<1> QED
    BY <1>2, <1>4, <1>5 DEF InStep, Up, Down, NoCryptoError, Quiet, clientVars

LEMMA ServerEndInStep ==
    ASSUME InStep, ServerEnd
    PROVE  InStep'
<1>1. /\ TypeOK /\ stream = "none" /\ server' \in {server, "Closed"} /\ worker' = "ended"
      /\ UNCHANGED <<same_keys, clientVars, senc, sdec, batch, c2s, s2c, calls, connects,
                     timeouts, raw>>
    BY DEF InStep, ServerEnd
<1>2. TypeOK'
    BY <1>1 DEF TypeOK, clientVars, States
<1> QED
    BY <1>1, <1>2 DEF InStep, Up, Down, NoCryptoError, Quiet, clientVars

LEMMA ServerTimeoutInStep ==
    ASSUME InStep, ServerTimeout
    PROVE  InStep'
<1>1. /\ TypeOK /\ stream = "open" /\ server' = "Closed" /\ worker' = "ended"
      /\ timeouts' = timeouts + 1 /\ timeouts \in 0..MaxTimeouts /\ timeouts < MaxTimeouts
      /\ UNCHANGED <<same_keys, clientVars, senc, sdec, batch, c2s, s2c, calls, connects, raw>>
    BY DEF InStep, ServerTimeout, TypeOK
<1>2. timeouts' \in 0..MaxTimeouts /\ timeouts' # 0
    BY <1>1, LimitsAssumption
<1>3. TypeOK'
    BY <1>1, <1>2 DEF TypeOK, clientVars, States
<1> QED
    BY <1>1, <1>2, <1>3 DEF InStep, Up, Down, NoCryptoError, Quiet, clientVars

(* The first frame of the batch is taken: both the schedule and the        *)
(* requests lose that frame.                                               *)
LEMMA FrameTaken ==
    ASSUME TypeOK, batch # <<>>
    PROVE  LET f == Head(batch)
               rest == Tail(batch) \o c2s
           IN  /\ f \in FrameSet /\ rest \in Seq(FrameSet) /\ Tail(batch) \in Seq(FrameSet)
               /\ batch \o c2s = <<f>> \o rest
               /\ Encrypted(batch \o c2s) = Encrypted(rest) + IF f.enc THEN 1 ELSE 0
               /\ Encrypted(rest) \in Nat /\ Hits(rest, RequestFrames) \in Nat
               /\ Hits(batch \o c2s, RequestFrames)
                      = Hits(rest, RequestFrames) + IF f.id \in RequestIds THEN 1 ELSE 0
               /\ InSchedule(batch \o c2s, sdec)
                      => /\ f.enc => f.nonce = sdec
                         /\ InSchedule(rest, IF f.enc THEN sdec + 1 ELSE sdec)
<1> DEFINE f == Head(batch)
           back == Tail(batch)
           rest == back \o c2s
<1>1. /\ batch \in Seq(FrameSet) /\ c2s \in Seq(FrameSet) /\ sdec \in Nat
    BY Typed
<1>2. f \in FrameSet /\ back \in Seq(FrameSet)
    BY <1>1, HeadTailProperties
<1>3. batch = <<f>> \o back
    BY <1>1
<1> HIDE DEF f, back
<1>4. rest \in Seq(FrameSet) /\ <<f>> \in Seq(FrameSet)
    BY <1>1, <1>2, ConcatProperties
<1>5. batch \o c2s = <<f>> \o rest
    BY <1>1, <1>2, <1>3, <1>4, ConcatAssociative
<1> HIDE DEF rest
<1>6. /\ Encrypted(<<f>> \o rest) = Encrypted(<<f>>) + Encrypted(rest)
      /\ Encrypted(<<f>>) = IF f.enc THEN 1 ELSE 0
      /\ Encrypted(rest) \in Nat
    BY <1>2, <1>4, EncryptedConcat, EncryptedOne, EncryptedIsHits
<1>7. Hits(<<f>> \o rest, RequestFrames) = Hits(<<f>>, RequestFrames) + Hits(rest, RequestFrames)
    BY <1>4, HitsConcat
<1>8. Hits(<<f>>, RequestFrames) = IF f.id \in RequestIds THEN 1 ELSE 0
    BY <1>2, HitsOne DEF RequestFrames, RequestIds
<1>9. Hits(rest, RequestFrames) \in Nat
    BY <1>4, RequestsType
<1>10. InSchedule(<<f>> \o rest, sdec)
            <=> InSchedule(<<f>>, sdec) /\ InSchedule(rest, sdec + Encrypted(<<f>>))
    BY <1>1, <1>4, ScheduleConcat
<1>11. InSchedule(<<f>>, sdec) <=> (f.enc => f.nonce = sdec)
    BY <1>1, <1>2, ScheduleOne
<1>12. sdec + Encrypted(<<f>>) = IF f.enc THEN sdec + 1 ELSE sdec
    BY <1>1, <1>6
<1>13. /\ Encrypted(batch \o c2s) = Encrypted(rest) + IF f.enc THEN 1 ELSE 0
       /\ Hits(batch \o c2s, RequestFrames)
              = Hits(rest, RequestFrames) + IF f.id \in RequestIds THEN 1 ELSE 0
    BY <1>5, <1>6, <1>7, <1>8, <1>9
<1>14. InSchedule(batch \o c2s, sdec)
           => (f.enc => f.nonce = sdec) /\ InSchedule(rest, IF f.enc THEN sdec + 1 ELSE sdec)
    BY <1>5, <1>10, <1>11, <1>12
<1> QED
    BY <1>2, <1>4, <1>5, <1>6, <1>9, <1>13, <1>14 DEF f, back, rest

LEMMA AnswerIs ==
    ASSUME TypeOK, NEW r \in {"x1F", "x1A", "x7A", "xFB", "xSYN_RSP"}, Answer(r)
    PROVE  LET f == Frame(r, r \in EncryptedReplies, senc) IN
           /\ f \in FrameSet /\ f.id = r
           /\ f.enc = (r \in EncryptedReplies) /\ (f.enc => f.nonce = senc)
           /\ senc' = senc + (IF f.enc THEN 1 ELSE 0) /\ senc' \in Nat
           /\ \/ /\ s2c' = s2c \o <<f>> /\ s2c' \in Seq(FrameSet) /\ Len(s2c') = Len(s2c) + 1
                 /\ batch' = Tail(batch) /\ worker' = worker
              \/ /\ stream = "none" /\ worker' = "ended" /\ batch' = <<>> /\ s2c' = s2c
<1> DEFINE enc == r \in EncryptedReplies
           f == Frame(r, enc, senc)
<1>1. enc \in BOOLEAN /\ r \in Ids \cup {"xSYN_RSP"} /\ senc \in Nat /\ s2c \in Seq(FrameSet)
    BY Typed DEF Ids, KnownIds
<1> HIDE DEF enc
<1>2. f \in FrameSet /\ f.id = r /\ f.enc = enc /\ (enc => f.nonce = senc)
    BY <1>1, FrameType
<1>3. /\ senc' = IF enc THEN senc + 1 ELSE senc
      /\ \/ s2c' = Append(s2c, f) /\ batch' = Tail(batch) /\ worker' = worker
         \/ stream = "none" /\ worker' = "ended" /\ batch' = <<>> /\ s2c' = s2c
    BY DEF Answer, enc
<1> HIDE DEF f
<1>4. /\ Append(s2c, f) = s2c \o <<f>> /\ Append(s2c, f) \in Seq(FrameSet)
      /\ Len(Append(s2c, f)) = Len(s2c) + 1
    BY <1>1, <1>2, AppendIsConcat, AppendProperties
<1>5. senc' = senc + (IF f.enc THEN 1 ELSE 0) /\ senc' \in Nat
    BY <1>1, <1>2, <1>3
<1> QED
    BY <1>2, <1>3, <1>4, <1>5 DEF f, enc

(* Whatever the worker makes of the frame, `Took` says how the connection  *)
(* looks after it.                                                         *)
Took ==
    \/ worker' = "ended" /\ batch' = <<>> /\ UNCHANGED <<senc, s2c>>
    \/ worker' = "ended" /\ batch' = <<>> /\ stream = "none" /\ senc' \in Nat /\ UNCHANGED s2c
    \/ batch' = Tail(batch) /\ UNCHANGED <<worker, senc, s2c>>
    \/ /\ batch' = Tail(batch) /\ worker' = worker /\ Head(batch).id \in RequestIds
       /\ senc' \in Nat /\ s2c' \in Seq(FrameSet)
       /\ \E f \in FrameSet :
             /\ s2c' = s2c \o <<f>> /\ Len(s2c') = Len(s2c) + 1
             /\ f.enc => f.nonce = senc
             /\ senc' = senc + IF f.enc THEN 1 ELSE 0

LEMMA ServerHandleIs ==
    ASSUME TypeOK, ServerHandle
    PROVE  /\ worker = "running" /\ batch # <<>> /\ Took /\ server' \in States
           /\ sdec' = IF Head(batch).enc THEN sdec + 1 ELSE sdec
           /\ UNCHANGED <<same_keys, clientVars, c2s, calls, connects, timeouts, raw>>
<1> DEFINE f == Head(batch)
           m == [id |-> f.id, dir |-> "c2s"]
<1>1. /\ worker = "running" /\ batch # <<>> /\ server \in States
      /\ sdec' = IF f.enc THEN sdec + 1 ELSE sdec
      /\ UNCHANGED <<same_keys, clientVars, c2s, calls, connects, timeouts, raw>>
    BY DEF ServerHandle, TypeOK
<1>2. CASE Abandon /\ UNCHANGED server
    BY <1>1, <1>2 DEF Abandon, Took
<1>3. CASE /\ ~Rejects(server, m) /\ server' = Moved(server, m)
           /\ \/ \E r \in Replies(server, f.id, TRUE) : Answer(r)
              \/ batch' = Tail(batch) /\ UNCHANGED <<worker, senc, s2c>>
  <2>1. m.dir = "c2s"
      OBVIOUS
  <2> HIDE DEF m, f
  <2>2. server' \in States
      BY <1>1, <1>3, <2>1, MovedType
  <2>3. ASSUME NEW r \in Replies(server, f.id, TRUE), Answer(r)
        PROVE  Took
    <3>1. r \in {"x1F", "x1A", "x7A", "xFB", "xSYN_RSP"} /\ f.id \in RequestIds
        BY RepliesAre
    <3> DEFINE g == Frame(r, r \in EncryptedReplies, senc)
    <3>2. /\ g \in FrameSet /\ (g.enc => g.nonce = senc)
          /\ senc' = senc + (IF g.enc THEN 1 ELSE 0) /\ senc' \in Nat
          /\ \/ /\ s2c' = s2c \o <<g>> /\ s2c' \in Seq(FrameSet) /\ Len(s2c') = Len(s2c) + 1
                /\ batch' = Tail(batch) /\ worker' = worker
             \/ /\ stream = "none" /\ worker' = "ended" /\ batch' = <<>> /\ s2c' = s2c
        BY <2>3, <3>1, AnswerIs
    <3> HIDE DEF g
    <3> QED
        BY <3>1, <3>2 DEF Took, f
  <2> QED
      BY <1>1, <1>3, <2>2, <2>3 DEF Took, f
<1>4. \/ Abandon /\ UNCHANGED server
      \/ /\ ~Rejects(server, m) /\ server' = Moved(server, m)
         /\ \/ \E r \in Replies(server, f.id, TRUE) : Answer(r)
            \/ batch' = Tail(batch) /\ UNCHANGED <<worker, senc, s2c>>
    BY DEF ServerHandle, Moved
<1> QED
    BY <1>2, <1>3, <1>4

LEMMA ServerHandleInStep ==
    ASSUME InStep, ServerHandle
    PROVE  InStep'
<1> DEFINE f == Head(batch)
           rest == Tail(batch) \o c2s
<1>1. /\ TypeOK /\ worker = "running" /\ batch # <<>> /\ Took /\ server' \in States
      /\ sdec' = IF f.enc THEN sdec + 1 ELSE sdec
      /\ UNCHANGED <<same_keys, clientVars, c2s, calls, connects, timeouts, raw>>
    BY ServerHandleIs DEF InStep
<1>2. /\ cenc \in Nat /\ cdec \in Nat /\ senc \in Nat /\ sdec \in Nat /\ s2c \in Seq(FrameSet)
      /\ Len(s2c) \in Nat /\ Len(pending) \in Nat /\ sdec' \in Nat
    BY <1>1, Typed, CountsType
<1>3. /\ rest \in Seq(FrameSet) /\ Tail(batch) \in Seq(FrameSet)
      /\ Encrypted(batch \o c2s) = Encrypted(rest) + IF f.enc THEN 1 ELSE 0
      /\ Encrypted(rest) \in Nat /\ Hits(rest, RequestFrames) \in Nat
      /\ Hits(batch \o c2s, RequestFrames)
             = Hits(rest, RequestFrames) + IF f.id \in RequestIds THEN 1 ELSE 0
      /\ InSchedule(batch \o c2s, sdec)
             => /\ f.enc => f.nonce = sdec
                /\ InSchedule(rest, IF f.enc THEN sdec + 1 ELSE sdec)
    BY <1>1, FrameTaken
<1> HIDE DEF f
<1>4. NoCryptoError'
    BY <1>1 DEF InStep, NoCryptoError, clientVars
<1>5. ASSUME batch' \in Seq(FrameSet), s2c' \in Seq(FrameSet), senc' \in Nat,
             worker' \in {"running", "ended"}
      PROVE  TypeOK'
    BY <1>1, <1>2, <1>5, FramesAre DEF TypeOK, clientVars
<1>6. CASE worker' = "ended" /\ batch' = <<>> /\ s2c' = s2c /\ senc' \in Nat
  <2>1. TypeOK' /\ Up'
      BY <1>2, <1>5, <1>6 DEF Up
  <2>2. Down'
      BY <1>1, <1>6 DEF InStep, Down, clientVars
  <2>3. Quiet'
      BY <1>1, <1>2, <1>3, <1>6 DEF InStep, Quiet, clientVars
  <2> QED
      BY <1>4, <2>1, <2>2, <2>3 DEF InStep
<1>7. ASSUME batch' = Tail(batch), worker' = worker
      PROVE  Up' /\ batch' \o c2s' = rest
  <2>1. batch' \o c2s' = rest
      BY <1>1, <1>7
  <2>2. SUFFICES ASSUME same_keys, stream = "open"
                 PROVE  InSchedule(rest, sdec') /\ cenc = sdec' + Encrypted(rest)
      BY <1>1, <2>1 DEF Up, clientVars
  <2>3. InSchedule(batch \o c2s, sdec) /\ cenc = sdec + Encrypted(batch \o c2s)
      BY <1>1, <2>2 DEF InStep, Up
  <2> QED
      BY <1>1, <1>2, <1>3, <2>3
<1>8. CASE batch' = Tail(batch) /\ UNCHANGED <<worker, senc, s2c>>
  <2>1. TypeOK' /\ Up' /\ batch' \o c2s' = rest
      BY <1>1, <1>2, <1>3, <1>5, <1>7, <1>8
  <2>2. Down'
      BY <1>1, <1>8 DEF InStep, Down, clientVars
  <2> HIDE DEF rest
  <2>3. Quiet'
    <3>1. SUFFICES ASSUME timeouts = 0, ~raw, stream = "open"
                   PROVE  Hits(rest, RequestFrames) + Len(pending) + Len(s2c')
                              <= IF call = "none" THEN 0 ELSE 1
      <4>1. pending' = pending /\ call' = call /\ stream' = stream
          BY <1>1 DEF clientVars
      <4> QED
          BY <1>1, <1>8, <2>1, <4>1 DEF Quiet
    <3>2. Hits(batch \o c2s, RequestFrames) + Len(pending) + Len(s2c)
              <= IF call = "none" THEN 0 ELSE 1
        BY <1>1, <3>1 DEF InStep, Quiet
    <3> QED
        BY <1>2, <1>3, <1>8, <3>2
  <2> QED
      BY <1>4, <2>1, <2>2, <2>3 DEF InStep
<1>9. ASSUME batch' = Tail(batch), worker' = worker, f.id \in RequestIds,
             senc' \in Nat, s2c' \in Seq(FrameSet), NEW g \in FrameSet,
             s2c' = s2c \o <<g>>, Len(s2c') = Len(s2c) + 1,
             g.enc => g.nonce = senc, senc' = senc + IF g.enc THEN 1 ELSE 0
      PROVE  InStep'
  <2>1. TypeOK' /\ Up' /\ batch' \o c2s' = rest
      BY <1>1, <1>3, <1>5, <1>7, <1>9
  <2>2. Down'
    <3>1. SUFFICES ASSUME same_keys, stream = "open"
                   PROVE  InSchedule(s2c', cdec) /\ senc' = cdec + Encrypted(s2c')
        BY <1>1, <1>9 DEF Down, clientVars
    <3>2. InSchedule(s2c, cdec) /\ senc = cdec + Encrypted(s2c)
        BY <1>1, <3>1 DEF InStep, Down
    <3>3. /\ InSchedule(s2c \o <<g>>, cdec)
                  <=> InSchedule(s2c, cdec) /\ (g.enc => g.nonce = cdec + Encrypted(s2c))
          /\ Encrypted(s2c \o <<g>>) = Encrypted(s2c) + IF g.enc THEN 1 ELSE 0
          /\ Encrypted(s2c) \in Nat
        BY <1>2, <1>9, ScheduleGrows, EncryptedIsHits
    <3> QED
        BY <1>2, <1>9, <3>2, <3>3
  <2> HIDE DEF rest
  <2>3. Quiet'
    <3>1. SUFFICES ASSUME timeouts = 0, ~raw, stream = "open"
                   PROVE  Hits(rest, RequestFrames) + Len(pending) + Len(s2c')
                              <= IF call = "none" THEN 0 ELSE 1
      <4>1. pending' = pending /\ call' = call /\ stream' = stream
          BY <1>1 DEF clientVars
      <4> QED
          BY <1>1, <1>9, <2>1, <4>1 DEF Quiet
    <3>2. Hits(batch \o c2s, RequestFrames) + Len(pending) + Len(s2c)
              <= IF call = "none" THEN 0 ELSE 1
        BY <1>1, <3>1 DEF InStep, Quiet
    <3> QED
        BY <1>2, <1>3, <1>9, <3>2
  <2> QED
      BY <1>4, <2>1, <2>2, <2>3 DEF InStep
<1> QED
    BY <1>1, <1>2, <1>6, <1>8, <1>9 DEF Took, f

LEMMA InStepInit == Init => InStep
<1> SUFFICES ASSUME Init PROVE InStep
    OBVIOUS
<1>1. batch = <<>> /\ c2s = <<>> /\ s2c = <<>> /\ pending = <<>> /\ stream = "none"
    BY DEF Init
<1>2. /\ pending \in FrameSeqs /\ batch \in FrameSeqs /\ c2s \in FrameSeqs /\ s2c \in FrameSeqs
    BY <1>1, EmptySeq, FramesAre
<1>3. TypeOK
  <2>1. 0 \in 0..MaxCalls /\ 0 \in 0..MaxConnects /\ 0 \in 0..MaxTimeouts
      BY LimitsAssumption
  <2>2. "Disconnected" \in ClientStates /\ "Closed" \in States /\ "none" \in Outcomes
      BY DEF ClientStates, States, Outcomes
  <2> QED
      BY <1>2, <2>1, <2>2 DEF Init, TypeOK
<1> QED
    BY <1>1, <1>3 DEF InStep, Init, Up, Down, NoCryptoError, Quiet

LEMMA InStepNext == InStep /\ [Next]_vars => InStep'
<1> SUFFICES ASSUME InStep, [Next]_vars PROVE InStep'
    OBVIOUS
<1>1. CASE SendAction
    BY <1>1, SendInStep
<1>2. CASE Connect \/ Close \/ ReadFrame
    BY <1>2, ConnectInStep, CloseInStep, ReadFrameInStep
<1>3. CASE ReadPending \/ ReadEnd \/ ReadTimeout
    BY <1>3, PendingInStep, ReadEndInStep, ReadTimeoutInStep
<1>4. ASSUME NEW n \in 1..Len(s2c), ReadSocket(n) PROVE InStep'
    BY <1>4, SocketInStep
<1>5. CASE ServerRead \/ ServerHandle \/ ServerEnd \/ ServerTimeout
    BY <1>5, ServerReadInStep, ServerHandleInStep, ServerEndInStep, ServerTimeoutInStep
<1>6. CASE UNCHANGED vars
    BY <1>6 DEF vars, clientVars, workerVars, InStep, TypeOK, Up, Down, NoCryptoError, Quiet
<1> QED
    BY <1>1, <1>2, <1>3, <1>4, <1>5, <1>6
       DEF Next, Owner, ClientRead, Worker, SendAction

(* What InStep is for.                                                     *)
LEMMA InStepImplies ==
    ASSUME InStep
    PROVE  NoncesInStep /\ NoStaleReplies
<1>1. TypeOK
    BY DEF InStep
<1>2. NoncesInStep
    BY DEF InStep, Up, Down, NoCryptoError, NoncesInStep, InSchedule, Decrypts
<1>3. NoStaleReplies
  <2>1. SUFFICES ASSUME timeouts = 0, ~raw, call = "none", stream = "open"
                 PROVE  pending = <<>> /\ s2c = <<>>
      BY DEF NoStaleReplies
  <2>2. /\ Hits(batch \o c2s, RequestFrames) \in Nat /\ Len(pending) \in Nat /\ Len(s2c) \in Nat
        /\ pending \in Seq(FrameSet) /\ s2c \in Seq(FrameSet)
      BY <1>1, CountsType, Typed
  <2>3. Len(pending) = 0 /\ Len(s2c) = 0
      BY <2>1, <2>2 DEF InStep, Quiet
  <2> QED
      BY <2>2, <2>3, EmptySeq
<1> QED
    BY <1>2, <1>3

(* LocalSession by itself, and a compatibility client whenever it is the   *)
(* one the worker serves.                                                  *)
OwnerInStep == owner = "compatibility" => InStep

(* The nonce counters of a compatibility client and its worker stay in     *)
(* step over any mix of clear and encrypted frames, errors, timeouts and   *)
(* reconnects, and with high-level calls and no timeout no reply is left   *)
(* over between two calls: for every choice of raw ids and every bound on  *)
(* calls, connects and timeouts.                                           *)
THEOREM CompatibilityInStep == MCSpec => []ClientInStep
<1>1. MCInit => OwnerInStep
    BY InStepInit DEF MCInit, ReplayInit, OwnerInStep
<1>2. OwnerInStep /\ [MCNext]_allVars => OwnerInStep'
  <2> SUFFICES ASSUME OwnerInStep, [MCNext]_allVars PROVE OwnerInStep'
      OBVIOUS
  <2>1. CASE owner = "compatibility" /\ Next /\ UNCHANGED <<owner, replayVars>>
      BY <2>1, InStepNext DEF OwnerInStep
  <2>2. CASE owner = "replay" /\ UNCHANGED owner
      BY <2>2 DEF OwnerInStep
  <2>3. CASE UNCHANGED allVars
      BY <2>3, InStepNext DEF OwnerInStep, allVars
  <2> QED
      BY <2>1, <2>2, <2>3 DEF MCNext
<1>3. OwnerInStep => ClientInStep
    BY InStepImplies DEF OwnerInStep, ClientInStep, InStep
<1> QED
    BY <1>1, <1>2, <1>3, PTL DEF MCSpec

-----------------------------------------------------------------------------
(* What the frames to a client say of the server                           *)

ServerReach == server \in {"WaitingForServiceHandshake", "ServiceHandshakeComplete",
                           "SessionEstablished", "Closed"} \cup ReadyStates

(* A reply of the handshake tells that the server has taken its step.      *)
Truth(id) ==
    /\ id = "x1F" => ServerPast({"ServiceHandshakeComplete", "SessionEstablished"})
    /\ id = "x1A" => ServerPast({"SessionEstablished"})
    /\ id = "x7A" => ServerPast({})

Truths == {f \in FrameSet : Truth(f.id)}

(* Frames the client has decoded: the encrypted ones had the right keys.   *)
Decoded == {f \in Truths : f.enc => same_keys}

LEMMA SeqGrows ==
    ASSUME NEW S, NEW T, S \subseteq T, NEW s \in Seq(S)
    PROVE  s \in Seq(T)
<1>1. s = [i \in 1..Len(s) |-> s[i]] /\ \A i \in 1..Len(s) : s[i] \in T
    OBVIOUS
<1> QED
    BY <1>1

LEMMA TruthsGrow ==
    ASSUME \A id : Truth(id) => Truth(id)', same_keys' = same_keys
    PROVE  /\ Truths \subseteq Truths' /\ Decoded \subseteq Decoded'
           /\ \A s \in Seq(Truths) : s \in Seq(Truths')
           /\ \A s \in Seq(Decoded) : s \in Seq(Decoded')
<1>1. Truths \subseteq Truths'
    BY DEF Truths
<1>2. Decoded \subseteq Decoded'
    BY <1>1 DEF Decoded
<1> QED
    BY <1>1, <1>2, SeqGrows

LEMMA TruthStays ==
    ASSUME server' \in {server, "Closed"}
    PROVE  /\ \A id : Truth(id) => Truth(id)'
           /\ ServerReach => ServerReach'
BY DEF Truth, ServerPast, ServerReach

(* A server takes the steps of the handshake in order, tells of one when   *)
(* it has taken it, and never takes one back.                              *)
LEMMA ServerTells ==
    ASSUME TypeOK, ServerReach, ServerHandle
    PROVE  /\ ServerReach' /\ \A id : Truth(id) => Truth(id)'
           /\ \/ s2c' = s2c
              \/ \E g \in FrameSet : s2c' = s2c \o <<g>> /\ Truth(g.id)'
<1> DEFINE f == Head(batch)
           m == [id |-> f.id, dir |-> "c2s"]
<1>1. m.dir = "c2s" /\ m.id = f.id /\ server \in States
    BY DEF TypeOK
<1>2. \/ Abandon /\ UNCHANGED server
      \/ /\ ~Rejects(server, m) /\ server' = Moved(server, m)
         /\ \/ \E r \in Replies(server, f.id, TRUE) : Answer(r)
            \/ batch' = Tail(batch) /\ UNCHANGED <<worker, senc, s2c>>
    BY DEF ServerHandle, Moved
<1> HIDE DEF m, f
<1>3. CASE Abandon /\ UNCHANGED server
    BY <1>3, TruthStays DEF Abandon
<1>4. CASE ~Rejects(server, m) /\ server' = Moved(server, m)
  <2>1. \/ server = "WaitingForServiceHandshake" /\ m.id = "x1E"
              /\ server' = "ServiceHandshakeComplete"
        \/ server = "ServiceHandshakeComplete" /\ m.id = "x19" /\ server' = "SessionEstablished"
        \/ server = "SessionEstablished" /\ m.id = "x79"
              /\ server' = "EncryptedChannelEstablished"
        \/ server \in ReadyStates /\ server' = "Active"
        \/ m.id \notin SequencedIds /\ server' = server
    BY <1>1, <1>4, ServerMoves DEF ServerReach, ReadyStates
  <2>2. ServerReach' /\ \A id : Truth(id) => Truth(id)'
    BY <2>1 DEF ServerReach, Truth, ServerPast, ReadyStates
  <2>3. ASSUME NEW r \in Replies(server, f.id, TRUE), Answer(r)
        PROVE  s2c' = s2c \/ \E g \in FrameSet : s2c' = s2c \o <<g>> /\ Truth(g.id)'
    <3>0. \A id : r \in Replies(server, id, TRUE) =>
              /\ r \in {"x1F", "x1A", "x7A", "xFB", "xSYN_RSP"}
              /\ r = "x1F" => server = "WaitingForServiceHandshake" /\ id = "x1E"
              /\ r = "x1A" => server \in {"ServiceHandshakeComplete", "WaitingForSessionLogin"}
                              /\ id = "x19"
              /\ r = "x7A" => server = "SessionEstablished" /\ id = "x79"
        BY RepliesAre
    <3>1. /\ r \in {"x1F", "x1A", "x7A", "xFB", "xSYN_RSP"}
          /\ r = "x1F" => server = "WaitingForServiceHandshake" /\ f.id = "x1E"
          /\ r = "x1A" => server \in {"ServiceHandshakeComplete", "WaitingForSessionLogin"}
                          /\ f.id = "x19"
          /\ r = "x7A" => server = "SessionEstablished" /\ f.id = "x79"
        BY <2>3, <3>0, Zenon
    <3>2. \E g \in FrameSet : g.id = r /\ (s2c' = s2c \o <<g>> \/ s2c' = s2c)
        BY <2>3, <3>1, AnswerIs
    <3>3. Truth(r)'
      <4>1. SequencedIds = KnownIds /\ {"x1E", "x19", "x79"} \subseteq KnownIds
          BY DEF SequencedIds, KnownIds
      <4>2. r = "x1F" => server' = "ServiceHandshakeComplete"
          BY <1>1, <2>1, <3>1, <4>1 DEF ReadyStates
      <4>3. r = "x1A" => server' = "SessionEstablished"
          BY <1>1, <2>1, <3>1, <4>1 DEF ReadyStates, ServerReach
      <4>4. r = "x7A" => server' = "EncryptedChannelEstablished"
          BY <1>1, <2>1, <3>1, <4>1 DEF ReadyStates
      <4> QED
          BY <4>2, <4>3, <4>4 DEF Truth, ServerPast, ReadyStates
    <3>4. PICK g \in FrameSet : g.id = r /\ (s2c' = s2c \o <<g>> \/ s2c' = s2c)
        BY <3>2
    <3>5. Truth(g.id)'
        BY <3>3, <3>4 DEF Truth
    <3> QED
        BY <3>4, <3>5
  <2> QED
      BY <1>2, <2>2, <2>3 DEF Abandon
<1> QED
    BY <1>2, <1>3, <1>4

-----------------------------------------------------------------------------
(* The compatibility client believes no more than it was told              *)

Agree ==
    /\ ServerReach
    /\ s2c \in Seq(Truths) /\ pending \in Seq(Decoded)
    /\ HandshakeAgreement
    /\ call = "xFB" => Ready

(* What the client believes once it is in state c.                         *)
Belief(c) ==
    /\ c \in {"ServiceHandshakeComplete", "SessionLoginSent"} =>
          ServerPast({"ServiceHandshakeComplete", "SessionEstablished"})
    /\ c \in {"SessionEstablished", "EncryptedHandshakeSent"} =>
          ServerPast({"SessionEstablished"})
    /\ c \in {"EncryptedChannelEstablished", "Active"} => ServerPast({}) /\ same_keys

LEMMA BeliefIs == HandshakeAgreement <=> Belief(client)
BY DEF HandshakeAgreement, Belief, Ready

LEMMA BeliefStays ==
    ASSUME \A id : Truth(id) => Truth(id)', same_keys' = same_keys, NEW c, Belief(c)
    PROVE  Belief(c)'
<1>1. /\ Truth("x1F") <=> ServerPast({"ServiceHandshakeComplete", "SessionEstablished"})
      /\ Truth("x1A") <=> ServerPast({"SessionEstablished"})
      /\ Truth("x7A") <=> ServerPast({})
    BY DEF Truth
<1>2. /\ Truth("x1F")' <=> ServerPast({"ServiceHandshakeComplete", "SessionEstablished"})'
      /\ Truth("x1A")' <=> ServerPast({"SessionEstablished"})'
      /\ Truth("x7A")' <=> ServerPast({})'
    BY DEF Truth
<1> QED
    BY <1>1, <1>2 DEF Belief

(* The state after a frame was handed to the call.                         *)
LEMMA GotBelieves ==
    ASSUME TypeOK, call # "none", HandshakeAgreement, call = "xFB" => Ready,
           NEW f \in FrameSet, f \in Decoded, Got(f)
    PROVE  Belief(client') /\ call' # "xFB"
<1>1. /\ Truth(f.id) /\ (f.enc => same_keys)
    BY DEF Decoded, Truths
<1>2. \/ client' = client /\ call' = "none"
      \/ /\ call = "x1F" /\ f.id = "x1F" /\ call' \in {"none", "x1A"}
         /\ client' \in {"ServiceHandshakeComplete", "SessionLoginSent"}
      \/ /\ call = "x1A" /\ f.id = "x1A" /\ call' \in {"none", "x7A"}
         /\ client' \in {"SessionEstablished", "EncryptedHandshakeSent"}
      \/ /\ client' = "Active" /\ call' = "none"
         /\ call = "xFB" \/ (call = "x7A" /\ f.id = "x7A" /\ f.enc)
    BY GotIs
<1>3. Belief(client)
    BY BeliefIs
<1>4. call = "xFB" => ServerPast({}) /\ same_keys
    BY DEF HandshakeAgreement
<1> QED
    BY <1>1, <1>2, <1>3, <1>4 DEF Belief, Truth

LEMMA ClientAgrees ==
    ASSUME Agree, UNCHANGED <<server, same_keys>>, Belief(client'),
           s2c' \in Seq(Truths), pending' \in Seq(Decoded), call' = "xFB" => Ready'
    PROVE  Agree'
<1>1. \A id : Truth(id) <=> Truth(id)'
    BY DEF Truth, ServerPast
<1>2. Truths' = Truths /\ Decoded' = Decoded
    BY <1>1 DEF Truths, Decoded
<1>3. ServerReach'
    BY DEF Agree, ServerReach
<1>4. HandshakeAgreement'
    BY DEF Belief, HandshakeAgreement, Ready, ServerPast
<1> QED
    BY <1>2, <1>3, <1>4 DEF Agree

LEMMA AgreeNext ==
    ASSUME TypeOK, Agree, [Next]_vars
    PROVE  Agree'
<1>1. /\ Belief(client) /\ s2c \in Seq(Truths) /\ pending \in Seq(Decoded)
      /\ call = "xFB" => Ready
    BY BeliefIs DEF Agree
<1>2. CASE SendAction
  <2>1. PICK id \in Ids, enc \in BOOLEAN, to \in {client, "ServiceHandshakeSent", "Active"},
             reply \in {"none", "x1F", "xFB"} : Sends(id, enc, to, reply)
      BY <1>2, SendActionIs
  <2>2. \/ client' = to /\ call' = reply
        \/ client' = client /\ call' = "none"
      BY <2>1 DEF Sends, SendThen
  <2>3. /\ to = client \/ to = "ServiceHandshakeSent" \/ (to = "Active" /\ Ready)
        /\ reply = "xFB" => Ready /\ to = client
        /\ UNCHANGED <<server, same_keys, s2c, pending>>
      BY <2>1 DEF Sends, workerVars
  <2>4. Belief(client')
      BY <1>1, <2>2, <2>3 DEF Belief, Ready
  <2>5. call' = "xFB" => Ready'
      BY <2>2, <2>3 DEF Ready
  <2> QED
      BY <1>1, <2>3, <2>4, <2>5, ClientAgrees
<1>3. CASE Connect
  <2>1. /\ client' = "Connected" /\ server' = InitialState /\ pending' = <<>> /\ s2c' = <<>>
        /\ call' = "none"
      BY <1>3 DEF Connect, FreshSession
  <2>2. <<>> \in Seq(Truths') /\ <<>> \in Seq(Decoded')
      BY EmptySeq
  <2> QED
      BY <2>1, <2>2 DEF Agree, ServerReach, InitialState, HandshakeAgreement, Ready
<1>4. CASE Close \/ ReadFrame
  <2>1. /\ client' \in {client, "Closed"} /\ pending' \in {pending, <<>>} /\ call' \in {"none", "any"}
        /\ UNCHANGED <<server, same_keys, s2c>>
      BY <1>4 DEF Close, ReadFrame, FreshSession, workerVars
  <2>2. Belief(client')
      BY <1>1, <2>1 DEF Belief
  <2>3. pending' \in Seq(Decoded)
      BY <1>1, <2>1, EmptySeq
  <2> QED
      BY <1>1, <2>1, <2>2, <2>3, ClientAgrees
<1>5. CASE ReadPending
  <2>1. /\ call # "none" /\ pending # <<>> /\ pending' = Tail(pending) /\ Got(Head(pending))
        /\ UNCHANGED <<server, same_keys, s2c>>
      BY <1>5 DEF ReadPending, workerVars
  <2>2. Head(pending) \in Decoded /\ pending' \in Seq(Decoded)
      BY <1>1, <2>1, HeadTailProperties
  <2>3. Head(pending) \in FrameSet
      BY <2>2 DEF Decoded, Truths
  <2>4. Belief(client') /\ call' # "xFB"
      BY <1>1, <2>1, <2>2, <2>3, GotBelieves DEF Agree
  <2> QED
      BY <1>1, <2>1, <2>2, <2>4, ClientAgrees
<1>6. ASSUME NEW n \in 1..Len(s2c), ReadSocket(n)
      PROVE  Agree'
  <2>1. /\ call # "none" /\ s2c' = SubSeq(s2c, n + 1, Len(s2c))
        /\ UNCHANGED <<server, same_keys>> /\ Len(s2c) \in Nat
      BY <1>1, <1>6 DEF ReadSocket, workerVars
  <2>2. s2c' \in Seq(Truths)
      BY <1>1, <2>1, SubSeqProperties
  <2>3. CASE /\ \A i \in 1..n : Decrypts(s2c, i, cdec)
             /\ pending' = SubSeq(s2c, 2, n)
             /\ Got(s2c[1])
    <3>1. \A i \in 1..n : s2c[i] \in Decoded
        BY <1>1, <2>1, <2>3 DEF Decrypts, Decoded
    <3>2. pending' \in Seq(Decoded) /\ s2c[1] \in Decoded /\ s2c[1] \in FrameSet
        BY <2>1, <2>3, <3>1, SubSeqProperties DEF Decoded, Truths
    <3>3. Belief(client') /\ call' # "xFB"
        BY <1>1, <2>1, <2>3, <3>2, GotBelieves DEF Agree
    <3> QED
        BY <2>1, <2>2, <3>2, <3>3, ClientAgrees
  <2>4. CASE UNCHANGED pending /\ Returns("crypto")
      BY <1>1, <2>1, <2>2, <2>4, ClientAgrees DEF Returns
  <2> QED
      BY <1>6, <2>3, <2>4 DEF ReadSocket
<1>7. CASE ReadEnd \/ ReadTimeout
  <2>1. /\ client' = client /\ call' = "none" /\ s2c' \in {s2c, <<>>}
        /\ UNCHANGED <<server, same_keys, pending>>
      BY <1>7 DEF ReadEnd, ReadTimeout, Returns, workerVars
  <2>2. s2c' \in Seq(Truths)
      BY <1>1, <2>1, EmptySeq
  <2> QED
      BY <1>1, <2>1, <2>2, ClientAgrees
<1>8. CASE ServerRead \/ UNCHANGED vars
  <2>1. UNCHANGED <<server, same_keys, client, call, pending, s2c>>
      BY <1>8 DEF ServerRead, clientVars, vars, workerVars
  <2> QED
      BY <1>1, <2>1, ClientAgrees DEF Ready
<1>9. ASSUME ServerReach', \A id : Truth(id) => Truth(id)', s2c' \in Seq(Truths'),
             UNCHANGED <<same_keys, client, call, pending>>
      PROVE  Agree'
  <2>1. pending' \in Seq(Decoded')
      BY <1>1, <1>9, TruthsGrow
  <2>2. Belief(client)'
      BY <1>1, <1>9, TruthsGrow, BeliefStays DEF Belief, ServerPast, Truth
  <2>3. HandshakeAgreement'
      BY <2>2 DEF Belief, HandshakeAgreement, Ready
  <2> QED
      BY <1>1, <1>9, <2>1, <2>3 DEF Agree, Ready
<1>10. CASE ServerEnd \/ ServerTimeout
  <2>1. /\ server' \in {server, "Closed"}
        /\ UNCHANGED <<same_keys, client, call, pending, s2c>>
      BY <1>10 DEF ServerEnd, ServerTimeout, clientVars
  <2>2. /\ \A id : Truth(id) => Truth(id)'
        /\ ServerReach'
      BY <2>1, TruthStays DEF Agree
  <2>3. s2c' \in Seq(Truths')
      BY <1>1, <2>1, <2>2, TruthsGrow
  <2> QED
      BY <1>9, <2>1, <2>2, <2>3
<1>11. CASE ServerHandle
  <2>1. /\ ServerReach' /\ \A id : Truth(id) => Truth(id)'
        /\ \/ s2c' = s2c
           \/ \E g \in FrameSet : s2c' = s2c \o <<g>> /\ Truth(g.id)'
      BY <1>11, ServerTells DEF Agree
  <2>2. UNCHANGED <<same_keys, client, call, pending>>
      BY <1>11 DEF ServerHandle, clientVars
  <2>3. s2c \in Seq(Truths')
      BY <1>1, <2>1, <2>2, TruthsGrow
  <2>4. ASSUME NEW g \in FrameSet, s2c' = s2c \o <<g>>, Truth(g.id)'
        PROVE  s2c' \in Seq(Truths')
    <3>1. <<g>> \in Seq(Truths')
        BY <2>4 DEF Truths
    <3> QED
        BY <2>3, <2>4, <3>1, ConcatProperties
  <2> QED
      BY <1>9, <2>1, <2>2, <2>3, <2>4
<1> QED
    BY <1>2, <1>3, <1>4, <1>5, <1>6, <1>7, <1>8, <1>10, <1>11
       DEF Next, Owner, ClientRead, Worker, SendAction

-----------------------------------------------------------------------------
(* The types of a replay client                                            *)

SimStates == {"SimStart", "Sim1eSent", "Sim1fSent", "Sim19Sent", "Sim1aSent", "Sim79Sent",
              "SimReady"}

StepSet == {s \in [op : {"send", "expect"}, id : Ids \cup {"xSYN_RSP", "any"}, enc : BOOLEAN,
                   to : SimStates \cup {Same}] :
               s.op = "send" => s.id \in Ids}

ReplayTyped ==
    /\ TypeOK
    /\ client = "Disconnected" /\ call = "none"
    /\ todo \in Seq(StepSet) /\ before.enc \in Nat

LEMMA StepType ==
    ASSUME NEW enc \in BOOLEAN, NEW to \in SimStates \cup {Same}
    PROVE  /\ \A id \in Ids : Send(id, enc, to) \in StepSet
           /\ \A id \in Ids \cup {"xSYN_RSP", "any"} : Expect(id, enc, to) \in StepSet
BY DEF StepSet, Send, Expect

LEMMA BuiltInType == SimHandshake \in Seq(StepSet) /\ EncryptedSteps \in Seq(StepSet)
<1>1. {"x1E", "x1F", "x19", "x1A", "x79", "x7A", "xSYN_A"} \subseteq Ids
    BY DEF Ids, KnownIds
<1>2. /\ Send("x1E", FALSE, "Sim1eSent") \in StepSet /\ Expect("x1F", FALSE, "Sim1fSent") \in StepSet
      /\ Send("x19", FALSE, "Sim19Sent") \in StepSet /\ Expect("x1A", FALSE, "Sim1aSent") \in StepSet
      /\ Send("x79", TRUE, "Sim79Sent") \in StepSet /\ Expect("x7A", TRUE, "SimReady") \in StepSet
      /\ Send("xSYN_A", TRUE, Same) \in StepSet /\ Expect("xSYN_RSP", TRUE, Same) \in StepSet
    BY <1>1, StepType DEF SimStates
<1>3. ASSUME NEW a \in StepSet, NEW b \in StepSet, NEW c \in StepSet, NEW d \in StepSet,
             NEW e \in StepSet, NEW f \in StepSet
      PROVE  <<a, b, c, d, e, f>> \in Seq(StepSet) /\ <<a, b, c, d>> \in Seq(StepSet)
    OBVIOUS
<1>4. SimHandshake \in Seq(StepSet)
    BY <1>2, <1>3, Zenon DEF SimHandshake
<1>5. EncryptedSteps \in Seq(StepSet)
    BY <1>2, <1>3, Zenon DEF EncryptedSteps
<1> QED
    BY <1>4, <1>5

(* A fixture becomes a plan with its last step marked.                     *)
LEMMA FixtureIs ==
    ASSUME NEW fx \in Fixtures
    PROVE  LET steps == FixtureSteps(fx) IN
           /\ steps \in Seq(StepSet) /\ Len(steps) = Len(fx) /\ Len(fx) \in Nat \ {0}
           /\ \A i \in 1..Len(fx) - 1 : steps[i].to = Same
           /\ steps[Len(fx)] = [fx[Len(fx)] EXCEPT !.to = "SimReady"]
<1> DEFINE n == Len(fx)
           steps == FixtureSteps(fx)
<1>1. fx \in Seq(FileSteps) /\ fx # <<>>
    BY FixturesAssumption
<1>2. n \in Nat \ {0} /\ \A i \in 1..n : fx[i] \in FileSteps
    BY <1>1, EmptySeq
<1>3. FileSteps \subseteq {s \in StepSet : s.to = Same}
  <2>1. TRUE \in BOOLEAN /\ Same \in SimStates \cup {Same}
      OBVIOUS
  <2> QED
      BY <2>1, StepType DEF FileSteps, Send, Expect
<1>4. steps = [i \in 1..n |-> IF i = n THEN [fx[n] EXCEPT !.to = "SimReady"] ELSE fx[i]]
    BY <1>1, <1>2 DEF FixtureSteps
<1>5. [fx[n] EXCEPT !.to = "SimReady"] \in StepSet
  <2>1. fx[n] \in StepSet
      BY <1>2, <1>3
  <2> QED
      BY <2>1 DEF StepSet, SimStates
<1> HIDE DEF n, steps
<1>6. \A i \in 1..n : steps[i] \in StepSet
    BY <1>2, <1>3, <1>4, <1>5
<1>7. steps \in Seq(StepSet) /\ Len(steps) = n
    BY <1>2, <1>4, <1>5, <1>3
<1>8. /\ \A i \in 1..n - 1 : steps[i].to = Same
      /\ steps[n] = [fx[n] EXCEPT !.to = "SimReady"]
    BY <1>2, <1>3, <1>4
<1> QED
    BY <1>2, <1>7, <1>8 DEF n, steps

(* What ReplayCall starts.                                                 *)
LEMMA StartIs ==
    ASSUME ReplayCall
    PROVE  \E steps \in Seq(StepSet), beyond \in BOOLEAN :
              /\ Start(steps, beyond)
              /\ \/ steps = SimHandshake
                 \/ \A i \in 1..Len(steps) : steps[i].to = Same
                 \/ \E fx \in Fixtures : steps = FixtureSteps(fx)
<1> DEFINE Alone(steps) == /\ steps \in Seq(StepSet)
                           /\ \A i \in 1..Len(steps) : steps[i].to = Same
<1>0. ASSUME NEW s \in StepSet, s.to = Same PROVE Alone(<<s>>)
    BY <1>0
<1> HIDE DEF Alone
<1>1. \A id \in RawIds, enc \in BOOLEAN : Alone(<<Send(id, enc, Same)>>)
  <2> TAKE id \in RawIds, enc \in BOOLEAN
  <2>1. Send(id, enc, Same) \in StepSet /\ Send(id, enc, Same).to = Same
      BY RawIdsAssumption, StepType DEF Send
  <2> QED
      BY <1>0, <2>1
<1>2. Alone(<<Expect("any", FALSE, Same)>>)
  <2>1. Expect("any", FALSE, Same) \in StepSet /\ Expect("any", FALSE, Same).to = Same
      BY StepType DEF Expect
  <2> QED
      BY <1>0, <2>1
<1>3. \A i \in 1..Len(EncryptedSteps) : EncryptedSteps[i].to = Same
    BY DEF EncryptedSteps, Send, Expect
<1>4. \A fx \in Fixtures : FixtureSteps(fx) \in Seq(StepSet)
    BY FixtureIs
<1> QED
    BY <1>1, <1>2, <1>3, <1>4, BuiltInType DEF ReplayCall, Alone

LEMMA ServerTyped ==
    ASSUME TypeOK, ServerRead \/ ServerHandle \/ ServerEnd \/ ServerTimeout
    PROVE  /\ TypeOK'
           /\ UNCHANGED <<same_keys, client, stream, crypto_ready, call, outcome, cenc, cdec,
                          pending, calls, connects, raw>>
<1>1. CASE ServerRead
  <2>1. PICK n \in 1..Len(c2s) :
            batch' = SubSeq(c2s, 1, n) /\ c2s' = SubSeq(c2s, n + 1, Len(c2s))
      BY <1>1 DEF ServerRead
  <2>2. /\ c2s \in Seq(FrameSet) /\ Len(c2s) \in Nat
        /\ UNCHANGED <<same_keys, clientVars, worker, server, senc, sdec, s2c, calls, connects,
                       timeouts, raw>>
      BY <1>1, Typed DEF ServerRead
  <2>3. batch' \in Seq(FrameSet) /\ c2s' \in Seq(FrameSet)
      BY <2>1, <2>2, SubSeqProperties
  <2> QED
      BY <2>2, <2>3, FramesAre DEF TypeOK, clientVars
<1>2. CASE ServerHandle
  <2>1. /\ batch # <<>> /\ Took /\ server' \in States
        /\ sdec' = IF Head(batch).enc THEN sdec + 1 ELSE sdec
        /\ UNCHANGED <<same_keys, clientVars, c2s, calls, connects, timeouts, raw>>
      BY <1>2, ServerHandleIs
  <2>2. /\ Tail(batch) \in Seq(FrameSet) /\ <<>> \in Seq(FrameSet)
        /\ s2c \in Seq(FrameSet) /\ senc \in Nat /\ sdec' \in Nat
      BY <2>1, FrameTaken, Typed, EmptySeq
  <2>3. /\ batch' \in Seq(FrameSet) /\ s2c' \in Seq(FrameSet) /\ senc' \in Nat
        /\ worker' \in {"running", "ended"}
      BY <2>1, <2>2 DEF Took, TypeOK
  <2> QED
      BY <2>1, <2>2, <2>3, FramesAre DEF TypeOK, clientVars
<1>3. CASE ServerEnd \/ ServerTimeout
  <2>1. /\ server' \in {server, "Closed"} /\ worker' = "ended"
        /\ timeouts' = timeouts \/ (timeouts < MaxTimeouts /\ timeouts' = timeouts + 1)
        /\ UNCHANGED <<same_keys, clientVars, senc, sdec, batch, c2s, s2c, calls, connects, raw>>
      BY <1>3 DEF ServerEnd, ServerTimeout
  <2>2. timeouts' \in 0..MaxTimeouts
      BY <2>1, LimitsAssumption DEF TypeOK
  <2> QED
      BY <2>1, <2>2 DEF TypeOK, clientVars, States
<1> QED
    BY <1>1, <1>2, <1>3

LEMMA ReplayTypedInit == ReplayInit => ReplayTyped
<1> SUFFICES ASSUME ReplayInit PROVE ReplayTyped
    OBVIOUS
<1>1. InStep
    BY InStepInit DEF ReplayInit
<1>2. todo \in Seq(StepSet)
    BY EmptySeq DEF ReplayInit
<1> QED
    BY <1>1, <1>2 DEF ReplayInit, Init, InStep, ReplayTyped

(* The variables that only the worker or only a connect changes.           *)
LEMMA ReplayTypedNext ==
    ASSUME ReplayTyped, [ReplayNext]_<<vars, replayVars>>
    PROVE  ReplayTyped'
<1>1. /\ TypeOK /\ client = "Disconnected" /\ call = "none"
      /\ todo \in Seq(StepSet) /\ before.enc \in Nat
      /\ pending \in Seq(FrameSet) /\ s2c \in Seq(FrameSet) /\ c2s \in Seq(FrameSet)
      /\ Len(s2c) \in Nat /\ cenc \in Nat /\ cdec \in Nat /\ <<>> \in Seq(FrameSet)
      /\ <<>> \in Seq(StepSet)
    BY Typed, EmptySeq DEF ReplayTyped
<1>2. CASE ReplayConnect
  <2>1. connects' \in 0..MaxConnects /\ InitialState \in States
      BY <1>1, <1>2, LimitsAssumption DEF ReplayConnect, TypeOK, InitialState, States
  <2>2. TypeOK'
      BY <1>1, <1>2, <2>1, FramesAre DEF ReplayConnect, KeptSession, TypeOK, Outcomes
  <2> QED
      BY <1>1, <1>2, <2>2 DEF ReplayConnect, ReplayTyped
<1>3. CASE ReplayClose
  <2>1. TypeOK'
      BY <1>1, <1>3 DEF ReplayClose, TypeOK, Outcomes, workerVars
  <2> QED
      BY <1>1, <1>3, <2>1 DEF ReplayClose, ReplayTyped, replayVars
<1>4. CASE ReplayCall
  <2>1. PICK steps \in Seq(StepSet), beyond \in BOOLEAN : Start(steps, beyond)
      BY <1>4, StartIs
  <2>2. calls' \in 0..MaxCalls /\ raw' \in BOOLEAN
      BY <1>1, <2>1, LimitsAssumption DEF Start, TypeOK
  <2>3. TypeOK'
      BY <1>1, <2>1, <2>2 DEF Start, TypeOK, clientVars, workerVars
  <2> QED
      BY <1>1, <2>1, <2>3 DEF Start, ReplayTyped, clientVars
<1>5. ASSUME todo' \in {Tail(todo), <<>>}, todo # <<>>
      PROVE  todo' \in Seq(StepSet)
    BY <1>1, <1>5, HeadTailProperties
<1>6. CASE SendStep
  <2>1. /\ todo # <<>> /\ Head(todo).op = "send" /\ Head(todo) \in StepSet
        /\ UNCHANGED <<same_keys, client, stream, crypto_ready, call, cdec, pending, workerVars, s2c,
                       calls, connects, timeouts, raw, dispatcher, answered, before>>
      BY <1>1, <1>6, HeadTailProperties DEF SendStep
  <2>2. Head(todo).id \in Ids /\ Head(todo).enc \in BOOLEAN
      BY <2>1 DEF StepSet
  <2>3. Written(Head(todo).id, Head(todo).enc) => c2s' \in Seq(FrameSet)
      BY <1>1, <2>2, WrittenIs
  <2>4. /\ cenc' \in Nat /\ c2s' \in Seq(FrameSet) /\ outcome' \in Outcomes
        /\ todo' \in {Tail(todo), <<>>}
    <3>1. CASE Written(Head(todo).id, Head(todo).enc) /\ todo' = Tail(todo) /\ UNCHANGED outcome
        BY <1>1, <2>3, <3>1 DEF Written, TypeOK
    <3>2. CASE WriteFails(Head(todo).enc) /\ Fails("write_failed")
        BY <1>1, <3>2 DEF WriteFails, Fails, Outcomes
    <3>3. CASE /\ cenc' = IF Head(todo).enc THEN cenc + 1 ELSE cenc
               /\ Fails("invalid_state") /\ UNCHANGED c2s
        BY <1>1, <3>3 DEF Fails, Outcomes
    <3> QED
        BY <1>6, <3>1, <3>2, <3>3 DEF SendStep
  <2>5. TypeOK'
      BY <1>1, <2>1, <2>4, FramesAre DEF TypeOK, workerVars
  <2> QED
      BY <1>1, <1>5, <2>1, <2>4, <2>5 DEF ReplayTyped
<1>7. ASSUME NEW f, Delivered(f), todo # <<>>
      PROVE  outcome' \in Outcomes /\ todo' \in Seq(StepSet)
    BY <1>1, <1>5, <1>7 DEF Delivered, Fails, Outcomes, TypeOK
<1>8. CASE TakePending
  <2>1. pending' \in Seq(FrameSet) /\ todo # <<>>
      BY <1>1, <1>8, HeadTailProperties DEF TakePending, Expecting
  <2>2. outcome' \in Outcomes /\ todo' \in Seq(StepSet)
      BY <1>7, <1>8, <2>1 DEF TakePending
  <2>3. TypeOK'
      BY <1>1, <1>8, <2>1, <2>2, FramesAre DEF TakePending, TypeOK, workerVars
  <2> QED
      BY <1>1, <1>8, <2>2, <2>3 DEF TakePending, ReplayTyped
<1>9. ASSUME NEW n \in 1..Len(s2c), TakeSocket(n)
      PROVE  ReplayTyped'
  <2>1. /\ s2c' = SubSeq(s2c, n + 1, Len(s2c)) /\ todo # <<>>
        /\ UNCHANGED <<same_keys, client, stream, crypto_ready, call, cenc, workerVars, c2s,
                       calls, connects, timeouts, raw, dispatcher, answered, before>>
      BY <1>9 DEF TakeSocket, Expecting
  <2>2. s2c' \in Seq(FrameSet) /\ SubSeq(s2c, 2, n) \in Seq(FrameSet)
      BY <1>1, <2>1, SubSeqProperties
  <2>3. \A k \in 1..n : Encrypted(SubSeq(s2c, 1, k)) \in Nat
    <3>1. \A k \in 1..n : SubSeq(s2c, 1, k) \in Seq(FrameSet)
        BY <1>1, SubSeqProperties
    <3> QED
        BY <3>1, EncryptedIsHits
  <2>4. /\ cdec' \in Nat /\ pending' \in Seq(FrameSet) /\ outcome' \in Outcomes
        /\ todo' \in Seq(StepSet)
    <3>1. CASE /\ cdec' = cdec + Encrypted(SubSeq(s2c, 1, n))
               /\ pending' = SubSeq(s2c, 2, n) /\ Delivered(s2c[1])
        BY <1>1, <1>7, <2>1, <2>2, <2>3, <3>1
    <3>2. CASE \E bad \in 1..n :
                  /\ cdec' = cdec + Encrypted(SubSeq(s2c, 1, bad))
                  /\ UNCHANGED pending /\ Fails("crypto")
        BY <1>1, <2>3, <3>2 DEF Fails, Outcomes
    <3> QED
        BY <1>9, <3>1, <3>2 DEF TakeSocket
  <2>5. TypeOK'
      BY <1>1, <2>1, <2>2, <2>4, FramesAre DEF TypeOK, workerVars
  <2> QED
      BY <1>1, <2>1, <2>4, <2>5 DEF ReplayTyped
<1>10. CASE TakeEnd \/ TakeTimeout
  <2>1. /\ s2c' \in {s2c, <<>>} /\ todo' = <<>> /\ outcome' \in Outcomes
        /\ timeouts' = timeouts \/ (timeouts < MaxTimeouts /\ timeouts' = timeouts + 1)
        /\ UNCHANGED <<same_keys, client, stream, crypto_ready, call, cenc, cdec, pending,
                       workerVars, c2s, calls, connects, raw, before>>
      BY <1>10 DEF TakeEnd, TakeTimeout, Fails, Outcomes
  <2>2. timeouts' \in 0..MaxTimeouts
      BY <1>1, <2>1, LimitsAssumption DEF TypeOK
  <2>3. TypeOK'
      BY <1>1, <2>1, <2>2, FramesAre DEF TypeOK, workerVars
  <2> QED
      BY <1>1, <2>1, <2>3 DEF ReplayTyped
<1>11. CASE WorkerHandles \/ OtherWork \/ (ServerTimeout /\ UNCHANGED replayVars)
  <2>1. ServerRead \/ ServerHandle \/ ServerEnd \/ ServerTimeout
      BY <1>11 DEF WorkerHandles, OtherWork
  <2>2. TypeOK' /\ UNCHANGED <<client, call>>
      BY <1>1, <2>1, ServerTyped
  <2>3. UNCHANGED <<todo, before>>
      BY <1>11 DEF WorkerHandles, OtherWork, replayVars
  <2> QED
      BY <1>1, <2>2, <2>3 DEF ReplayTyped
<1>12. CASE UNCHANGED <<vars, replayVars>>
    BY <1>12 DEF ReplayTyped, TypeOK, vars, clientVars, workerVars, replayVars
<1> QED
    BY <1>2, <1>3, <1>4, <1>6, <1>8, <1>9, <1>10, <1>11, <1>12 DEF ReplayNext, ClientStep

-----------------------------------------------------------------------------
(* A replay client that brings encrypted frames to its connection          *)

(* Frames encrypted on a connection to which the client brought some.      *)
Late == {f \in FrameSet : f.enc => f.nonce >= before.enc}

Stale ==
    before.enc > 0 =>
        /\ cenc >= before.enc
        /\ worker = "running" => sdec = 0 /\ batch \in Seq(Late) /\ c2s \in Seq(Late)

LEMMA StaleNext ==
    ASSUME ReplayTyped, Stale, [ReplayNext]_<<vars, replayVars>>
    PROVE  Stale'
<1>1. /\ TypeOK /\ before.enc \in Nat /\ cenc \in Nat /\ sdec \in Nat
      /\ c2s \in Seq(FrameSet) /\ batch \in Seq(FrameSet) /\ Len(c2s) \in Nat
    BY Typed DEF ReplayTyped
<1>2. CASE ReplayConnect
  <2>1. /\ before'.enc = cenc /\ cenc' = cenc /\ sdec' = 0 /\ batch' = <<>> /\ c2s' = <<>>
      BY <1>2 DEF ReplayConnect, KeptSession
  <2>2. <<>> \in Seq(Late')
      BY EmptySeq
  <2> QED
      BY <1>1, <2>1, <2>2 DEF Stale
<1>3. ASSUME cenc' \in {cenc, cenc + 1}, UNCHANGED <<before, worker, sdec, batch, c2s>>
      PROVE  Stale'
    BY <1>1, <1>3 DEF Stale, Late
<1>4. CASE SendStep
  <2>1. /\ todo # <<>> /\ Head(todo) \in StepSet /\ Head(todo).op = "send"
        /\ UNCHANGED <<before, worker, sdec, batch>>
      BY <1>4, HeadTailProperties DEF ReplayTyped, SendStep, workerVars
  <2>2. Head(todo).id \in Ids /\ Head(todo).enc \in BOOLEAN
      BY <2>1 DEF StepSet
  <2>3. ASSUME Written(Head(todo).id, Head(todo).enc)
        PROVE  Stale'
    <3> DEFINE enc == Head(todo).enc
               f == Frame(Head(todo).id, enc, cenc)
    <3>1. f \in FrameSet /\ c2s' = c2s \o <<f>>
        BY <1>1, <2>2, <2>3, WrittenIs
    <3>2. f.enc => f.nonce = cenc
        BY <1>1, <2>2, FrameType
    <3>3. cenc' = IF enc THEN cenc + 1 ELSE cenc
        BY <2>3 DEF Written
    <3> HIDE DEF f, enc
    <3>4. SUFFICES ASSUME before.enc > 0
                   PROVE  /\ cenc' >= before.enc
                          /\ worker = "running" => sdec = 0 /\ batch \in Seq(Late) /\ c2s' \in Seq(Late)
        BY <2>1 DEF Stale, Late
    <3>5. cenc >= before.enc /\ cenc' >= before.enc
        BY <1>1, <3>3, <3>4 DEF Stale
    <3>6. <<f>> \in Seq(Late)
      <4>1. f \in Late
          BY <3>1, <3>2, <3>5 DEF Late
      <4> QED
          BY <4>1
    <3>7. c2s \in Seq(Late) => c2s' \in Seq(Late)
        BY <3>1, <3>6, ConcatProperties
    <3> QED
        BY <3>4, <3>5, <3>7 DEF Stale
  <2>4. Written(Head(todo).id, Head(todo).enc) \/ (cenc' \in {cenc, cenc + 1} /\ c2s' = c2s)
      BY <1>4 DEF SendStep, WriteFails
  <2> QED
      BY <1>3, <2>1, <2>3, <2>4
<1>5. CASE \/ ReplayClose \/ ReplayCall \/ TakePending \/ (\E n \in 1..Len(s2c) : TakeSocket(n))
           \/ TakeEnd \/ TakeTimeout \/ UNCHANGED <<vars, replayVars>>
  <2>1. UNCHANGED <<before, cenc, worker, sdec, batch, c2s>>
    <3>1. CASE ReplayClose \/ ReplayCall \/ UNCHANGED <<vars, replayVars>>
        BY <3>1 DEF ReplayClose, ReplayCall, Start, clientVars, workerVars, replayVars, vars
    <3>2. CASE TakePending \/ TakeEnd \/ TakeTimeout
        BY <3>2 DEF TakePending, TakeEnd, TakeTimeout, workerVars
    <3>3. CASE \E n \in 1..Len(s2c) : TakeSocket(n)
        BY <3>3 DEF TakeSocket, workerVars
    <3> QED
        BY <1>5, <3>1, <3>2, <3>3
  <2> QED
      BY <1>3, <2>1
<1>6. ASSUME cenc' = cenc, before' = before,
             \/ worker' = "ended"
             \/ worker = "running" /\ (before.enc > 0 =>
                   sdec' = 0 /\ batch' \in Seq(Late) /\ c2s' \in Seq(Late))
      PROVE  Stale'
    BY <1>6 DEF Stale, Late
<1>7. CASE ServerRead /\ UNCHANGED before
  <2>1. PICK n \in 1..Len(c2s) :
            batch' = SubSeq(c2s, 1, n) /\ c2s' = SubSeq(c2s, n + 1, Len(c2s))
      BY <1>7 DEF ServerRead
  <2>2. worker = "running" /\ cenc' = cenc /\ sdec' = sdec
      BY <1>7 DEF ServerRead, clientVars
  <2>3. ASSUME before.enc > 0
        PROVE  sdec' = 0 /\ batch' \in Seq(Late) /\ c2s' \in Seq(Late)
    <3>1. sdec = 0 /\ c2s \in Seq(Late)
        BY <2>2, <2>3 DEF Stale
    <3> QED
        BY <1>1, <2>1, <2>2, <3>1, SubSeqProperties
  <2> QED
      BY <1>6, <1>7, <2>2, <2>3
<1>8. CASE ServerHandle /\ UNCHANGED before
  <2> DEFINE f == Head(batch)
  <2>1. /\ worker = "running" /\ batch # <<>> /\ cenc' = cenc /\ c2s' = c2s
        /\ sdec' = IF f.enc THEN sdec + 1 ELSE sdec
        /\ batch' \in {<<>>, Tail(batch)}
      BY <1>8 DEF ServerHandle, clientVars, Abandon, Answer
  <2>2. ~Decrypts(batch, 1, sdec) => worker' = "ended"
      BY <1>8 DEF ServerHandle, Abandon
  <2>3. ASSUME before.enc > 0, worker' # "ended"
        PROVE  sdec' = 0 /\ batch' \in Seq(Late) /\ c2s' \in Seq(Late)
    <3>1. sdec = 0 /\ batch \in Seq(Late) /\ c2s \in Seq(Late)
        BY <2>1, <2>3 DEF Stale
    <3>2. f \in Late /\ f = batch[1] /\ batch' \in Seq(Late)
      <4>1. f \in Late /\ Tail(batch) \in Seq(Late)
          BY <2>1, <3>1, HeadTailProperties
      <4>2. f = batch[1]
          BY <2>1, <3>1
      <4>3. <<>> \in Seq(Late)
          BY EmptySeq
      <4> HIDE DEF f
      <4> QED
          BY <2>1, <4>1, <4>2, <4>3
    <3>3. f.enc => f.nonce = sdec + Encrypted(SubSeq(batch, 1, 0))
        BY <2>2, <2>3, <3>2 DEF Decrypts
    <3>4. SubSeq(batch, 1, 0) = <<>>
        BY SubSeqEmpty
    <3>5. Encrypted(SubSeq(batch, 1, 0)) = 0
        BY <3>4, EncryptedNone, Zenon
    <3>6. ~f.enc
        BY <1>1, <2>3, <3>1, <3>2, <3>3, <3>5 DEF Late
    <3> QED
        BY <2>1, <3>1, <3>2, <3>6
  <2> QED
      BY <1>6, <1>8, <2>1, <2>3
<1>9. CASE (ServerEnd \/ ServerTimeout) /\ UNCHANGED before
  <2>1. worker' = "ended" /\ cenc' = cenc
      BY <1>9 DEF ServerEnd, ServerTimeout, clientVars
  <2> QED
      BY <1>6, <1>9, <2>1
<1> QED
    BY <1>2, <1>4, <1>5, <1>7, <1>8, <1>9
       DEF ReplayNext, ClientStep, WorkerHandles, OtherWork, replayVars

(* The replay client whenever it is the one the worker serves.             *)
OwnerStale ==
    /\ owner \in {"compatibility", "replay"}
    /\ owner = "compatibility" => before.enc = 0
    /\ owner = "replay" => ReplayTyped /\ Stale

(* On a connection to which a replay client came with encrypted frames     *)
(* behind it, the worker takes no encrypted frame: for every set of        *)
(* fixtures and of raw ids, and every bound.                               *)
THEOREM KeptSessionFails == MCSpec => []StaleSessionFails
<1>1. MCInit => OwnerStale
    BY ReplayTypedInit DEF MCInit, ReplayInit, OwnerStale, Stale
<1>2. OwnerStale /\ [MCNext]_allVars => OwnerStale'
  <2> SUFFICES ASSUME OwnerStale, [MCNext]_allVars PROVE OwnerStale'
      OBVIOUS
  <2>1. CASE owner = "compatibility" /\ UNCHANGED <<owner, replayVars>>
      BY <2>1 DEF OwnerStale, replayVars
  <2>2. CASE owner = "replay" /\ ReplayNext /\ UNCHANGED owner
      BY <2>2, ReplayTypedNext, StaleNext DEF OwnerStale
  <2>3. CASE UNCHANGED allVars
    <3>1. UNCHANGED <<vars, replayVars>> /\ owner' = owner
        BY <2>3 DEF allVars
    <3>2. before' = before
        BY <3>1 DEF replayVars
    <3> QED
        BY <3>1, <3>2, ReplayTypedNext, StaleNext DEF OwnerStale
  <2> QED
      BY <2>1, <2>2, <2>3 DEF MCNext
<1>3. OwnerStale => StaleSessionFails
    BY DEF OwnerStale, Stale, StaleSessionFails, ReplayTyped, TypeOK
<1> QED
    BY <1>1, <1>2, <1>3, PTL DEF MCSpec

-----------------------------------------------------------------------------
(* The replay client believes no more than it was told                     *)

Fresh == [enc |-> 0, sim |-> "SimStart", pending |-> <<>>]

(* A fixture ends by expecting the last reply of the handshake, as the one *)
(* in fixtures/local_server does.                                          *)
FixturesShakeHands == \A fx \in Fixtures : fx[Len(fx)] = Expect("x7A", TRUE, Same)

(* What the client believes once it is in state sim.                       *)
SimBelief(sim) ==
    /\ sim \in {"Sim1fSent", "Sim19Sent"} =>
          ServerPast({"ServiceHandshakeComplete", "SessionEstablished"})
    /\ sim \in {"Sim1aSent", "Sim79Sent"} => ServerPast({"SessionEstablished"})
    /\ sim = "SimReady" => ServerPast({}) /\ same_keys

(* A step leads to a state the client may be in: by the reply it expects,  *)
(* or by the state before it.                                              *)
Follows(s, sim) ==
    \/ s.to \in {Same, "Sim1eSent"}
    \/ s.op = "expect" /\ s.id = "x1F" /\ s.to = "Sim1fSent"
    \/ s.op = "expect" /\ s.id = "x1A" /\ s.to = "Sim1aSent"
    \/ s.op = "expect" /\ s.id = "x7A" /\ s.enc /\ s.to = "SimReady"
    \/ s.to = "Sim19Sent" /\ sim = "Sim1fSent"
    \/ s.to = "Sim79Sent" /\ sim = "Sim1aSent"

Plan(steps, sim) ==
    \A i \in 1..Len(steps) : Follows(steps[i], IF i = 1 THEN sim ELSE steps[i - 1].to)

LEMMA HandshakePlan == \A sim : Plan(SimHandshake, sim)
<1> DEFINE p == SimHandshake
<1>1. /\ p[1].to = "Sim1eSent"
      /\ p[2].op = "expect" /\ p[2].id = "x1F" /\ p[2].to = "Sim1fSent"
      /\ p[3].to = "Sim19Sent"
      /\ p[4].op = "expect" /\ p[4].id = "x1A" /\ p[4].to = "Sim1aSent"
      /\ p[5].to = "Sim79Sent"
      /\ p[6].op = "expect" /\ p[6].id = "x7A" /\ p[6].enc /\ p[6].to = "SimReady"
    BY DEF SimHandshake, Send, Expect
<1>2. Len(p) = 6
    BY DEF SimHandshake
<1> HIDE DEF p
<1>3. SUFFICES ASSUME NEW sim, NEW i \in 1..6
               PROVE  Follows(p[i], IF i = 1 THEN sim ELSE p[i - 1].to)
    BY <1>2 DEF Plan, p
<1>4. i = 1 \/ i = 2 \/ i = 3 \/ i = 4 \/ i = 5 \/ i = 6
    OBVIOUS
<1>5. CASE i = 1
    BY <1>1, <1>5 DEF Follows
<1>6. CASE i = 2
    BY <1>1, <1>6 DEF Follows
<1>7. CASE i = 3
    BY <1>1, <1>7 DEF Follows
<1>8. CASE i = 4
    BY <1>1, <1>8 DEF Follows
<1>9. CASE i = 5
    BY <1>1, <1>9 DEF Follows
<1>10. CASE i = 6
    BY <1>1, <1>10 DEF Follows
<1> QED
    BY <1>4, <1>5, <1>6, <1>7, <1>8, <1>9, <1>10

LEMMA CallPlan ==
    ASSUME FixturesShakeHands, ReplayCall
    PROVE  /\ Plan(todo', sim_state')
           /\ UNCHANGED <<same_keys, pending, s2c, server, before, sim_state>>
<1>1. PICK steps \in Seq(StepSet), beyond \in BOOLEAN :
          /\ Start(steps, beyond)
          /\ \/ steps = SimHandshake
             \/ \A i \in 1..Len(steps) : steps[i].to = Same
             \/ \E fx \in Fixtures : steps = FixtureSteps(fx)
    BY StartIs
<1>2. ASSUME \A i \in 1..Len(steps) : steps[i].to = Same
      PROVE  Plan(steps, sim_state)
    BY <1>2 DEF Plan, Follows
<1>3. ASSUME NEW fx \in Fixtures, steps = FixtureSteps(fx)
      PROVE  Plan(steps, sim_state)
  <2>1. /\ Len(steps) = Len(fx) /\ Len(fx) \in Nat \ {0}
        /\ \A i \in 1..Len(fx) - 1 : steps[i].to = Same
        /\ steps[Len(fx)] = [fx[Len(fx)] EXCEPT !.to = "SimReady"]
      BY <1>3, FixtureIs
  <2>2. fx[Len(fx)] = Expect("x7A", TRUE, Same)
      BY <1>3 DEF FixturesShakeHands
  <2>3. /\ steps[Len(fx)].op = "expect" /\ steps[Len(fx)].id = "x7A"
        /\ steps[Len(fx)].enc /\ steps[Len(fx)].to = "SimReady"
      BY <2>1, <2>2 DEF Expect
  <2>4. \A i \in 1..Len(fx) : i \in 1..Len(fx) - 1 \/ i = Len(fx)
      BY <2>1
  <2> QED
      BY <2>1, <2>3, <2>4 DEF Plan, Follows
<1>4. Plan(steps, sim_state)
    BY <1>1, <1>2, <1>3, HandshakePlan
<1> QED
    BY <1>1, <1>4 DEF Start, clientVars, workerVars

(* A step of the plan is made.                                             *)
LEMMA PlanStep ==
    ASSUME todo \in Seq(StepSet), todo # <<>>, Plan(todo, sim_state), Stepped
    PROVE  Plan(Tail(todo), sim_state') /\ Follows(Head(todo), sim_state)
<1> DEFINE rest == Tail(todo)
           n == Len(todo)
<1>1. /\ n \in Nat \ {0} /\ Head(todo) = todo[1]
      /\ Len(rest) = n - 1 /\ \A i \in 1..n - 1 : rest[i] = todo[i + 1]
    BY EmptySeq, HeadTailProperties
<1>2. Follows(todo[1], sim_state)
    BY <1>1 DEF Plan
<1> HIDE DEF rest, n
<1>3. ASSUME NEW i \in 1..n - 1
      PROVE  Follows(rest[i], IF i = 1 THEN sim_state' ELSE rest[i - 1].to)
  <2>1. i + 1 \in 1..n /\ i + 1 # 1 /\ (i + 1) - 1 = i
      BY <1>1
  <2>2. Follows(todo[i + 1], todo[i].to)
      BY <2>1 DEF Plan, n
  <2>3. CASE i = 1
    <3>1. sim_state' = IF todo[1].to = Same THEN sim_state ELSE todo[1].to
        BY <1>1 DEF Stepped
    <3> QED
        BY <1>1, <2>2, <2>3, <3>1 DEF Follows, Same
  <2>4. CASE i # 1
    <3>1. i - 1 \in 1..n - 1 /\ (i - 1) + 1 = i
        BY <1>1, <2>4
    <3>2. rest[i - 1] = todo[i]
        BY <1>1, <3>1
    <3> QED
        BY <1>1, <2>2, <2>4, <3>2
  <2> QED
      BY <2>3, <2>4
<1> QED
    BY <1>1, <1>2, <1>3 DEF Plan, rest

SimInv ==
    /\ ServerReach /\ s2c \in Seq(Truths)
    /\ Plan(todo, sim_state)
    /\ before = Fresh => pending \in Seq(Decoded) /\ SimBelief(sim_state)

LEMMA SimBeliefStays ==
    ASSUME \A id : Truth(id) => Truth(id)', same_keys' = same_keys, NEW sim, SimBelief(sim)
    PROVE  SimBelief(sim)'
<1>1. /\ Truth("x1F") <=> ServerPast({"ServiceHandshakeComplete", "SessionEstablished"})
      /\ Truth("x1A") <=> ServerPast({"SessionEstablished"})
      /\ Truth("x7A") <=> ServerPast({})
    BY DEF Truth
<1>2. /\ Truth("x1F")' <=> ServerPast({"ServiceHandshakeComplete", "SessionEstablished"})'
      /\ Truth("x1A")' <=> ServerPast({"SessionEstablished"})'
      /\ Truth("x7A")' <=> ServerPast({})'
    BY DEF Truth
<1> QED
    BY <1>1, <1>2 DEF SimBelief

(* The state after a frame was delivered to the step that expects one.     *)
LEMMA DeliveredBelieves ==
    ASSUME todo \in Seq(StepSet), Expecting, Plan(todo, sim_state), NEW f, Delivered(f)
    PROVE  /\ Plan(todo', sim_state')
           /\ f \in Decoded /\ SimBelief(sim_state) => SimBelief(sim_state')
<1>1. todo # <<>> /\ Head(todo).op = "expect"
    BY DEF Expecting
<1>2. CASE todo' = <<>> /\ sim_state' = sim_state
    BY <1>2 DEF Plan
<1>3. CASE /\ todo' = Tail(todo) /\ Stepped
           /\ Head(todo).id = "any" \/ (Head(todo).id = f.id /\ Head(todo).enc = f.enc)
  <2> DEFINE s == Head(todo)
  <2>1. Plan(todo', sim_state') /\ Follows(s, sim_state)
      BY <1>1, <1>3, PlanStep
  <2>2. sim_state' = IF s.to = Same THEN sim_state ELSE s.to
      BY <1>3 DEF Stepped
  <2>3. s.id = "any" \/ (s.id = f.id /\ s.enc = f.enc)
      BY <1>3
  <2> HIDE DEF s
  <2>4. f \in Decoded => Truth(f.id) /\ (f.enc => same_keys)
      BY DEF Decoded, Truths
  <2>5. ASSUME f \in Decoded, SimBelief(sim_state)
        PROVE  SimBelief(sim_state')
      BY <2>1, <2>2, <2>3, <2>4, <2>5 DEF Follows, SimBelief, Truth, Same
  <2> QED
      BY <2>1, <2>5
<1> QED
    BY <1>2, <1>3 DEF Delivered, Fails

LEMMA SentBelieves ==
    ASSUME todo \in Seq(StepSet), Plan(todo, sim_state), SendStep
    PROVE  /\ Plan(todo', sim_state')
           /\ SimBelief(sim_state) => SimBelief(sim_state')
<1>1. todo # <<>> /\ Head(todo).op = "send"
    BY DEF SendStep
<1>2. CASE todo' = <<>> /\ sim_state' = sim_state
    BY <1>2 DEF Plan
<1>3. CASE todo' = Tail(todo) /\ Stepped
  <2> DEFINE s == Head(todo)
  <2>1. Plan(todo', sim_state') /\ Follows(s, sim_state)
      BY <1>1, <1>3, PlanStep
  <2>2. sim_state' = (IF s.to = Same THEN sim_state ELSE s.to) /\ s.op = "send"
      BY <1>1, <1>3 DEF Stepped
  <2> HIDE DEF s
  <2>3. ASSUME SimBelief(sim_state)
        PROVE  SimBelief(sim_state')
      BY <2>1, <2>2, <2>3 DEF Follows, SimBelief, Same
  <2> QED
      BY <2>1, <2>3
<1> QED
    BY <1>2, <1>3 DEF SendStep, Fails

LEMMA ReplayAgrees ==
    ASSUME SimInv, UNCHANGED <<server, same_keys, before>>, s2c' \in Seq(Truths),
           Plan(todo', sim_state'),
           before = Fresh => pending' \in Seq(Decoded) /\ SimBelief(sim_state')
    PROVE  SimInv'
<1>1. \A id : Truth(id) <=> Truth(id)'
    BY DEF Truth, ServerPast
<1>2. Truths' = Truths /\ Decoded' = Decoded
    BY <1>1 DEF Truths, Decoded
<1>3. ServerReach'
    BY DEF SimInv, ServerReach
<1>4. \A sim : SimBelief(sim)' <=> SimBelief(sim)
    BY DEF SimBelief, ServerPast
<1>5. Plan(todo, sim_state)'
    BY DEF Plan, Follows
<1>6. (SimBelief(sim_state))' <=> SimBelief(sim_state')
    BY DEF SimBelief, ServerPast
<1>7. Fresh' = Fresh
    BY DEF Fresh
<1> QED
    BY <1>2, <1>3, <1>5, <1>6, <1>7 DEF SimInv

LEMMA SimNext ==
    ASSUME FixturesShakeHands, ReplayTyped, SimInv, [ReplayNext]_<<vars, replayVars>>
    PROVE  SimInv'
<1>1. /\ TypeOK /\ todo \in Seq(StepSet) /\ ServerReach /\ s2c \in Seq(Truths)
      /\ Plan(todo, sim_state)
      /\ before = Fresh => pending \in Seq(Decoded) /\ SimBelief(sim_state)
    BY DEF ReplayTyped, SimInv
<1>2. CASE ReplayConnect
  <2>1. /\ todo' = <<>> /\ server' = InitialState /\ s2c' = <<>>
        /\ before' = [enc |-> cenc, sim |-> sim_state, pending |-> pending]
        /\ pending' = pending /\ sim_state' = sim_state
      BY <1>2 DEF ReplayConnect, KeptSession
  <2>2. <<>> \in Seq(Truths') /\ <<>> \in Seq(Decoded')
      BY EmptySeq
  <2>3. ServerReach'
      BY <2>1 DEF ServerReach, InitialState
  <2>4. Plan(todo', sim_state')
      BY <2>1 DEF Plan
  <2>5. ASSUME before' = Fresh
        PROVE  pending' \in Seq(Decoded') /\ SimBelief(sim_state)'
    <3>1. pending = <<>> /\ sim_state = "SimStart"
        BY <2>1, <2>5 DEF Fresh
    <3> QED
        BY <2>1, <2>2, <3>1 DEF SimBelief
  <2> QED
      BY <2>1, <2>2, <2>3, <2>4, <2>5 DEF SimInv, Fresh, Plan, Follows
<1>3. CASE ReplayClose \/ UNCHANGED <<vars, replayVars>>
  <2>1. UNCHANGED <<server, same_keys, before, s2c, pending, todo, sim_state>>
    <3>1. CASE ReplayClose
        BY <3>1 DEF ReplayClose, workerVars, replayVars
    <3>2. CASE UNCHANGED <<vars, replayVars>>
        BY <3>2 DEF vars, clientVars, workerVars, replayVars
    <3> QED
        BY <1>3, <3>1, <3>2
  <2>2. Plan(todo', sim_state')
      BY <1>1, <2>1
  <2>3. SimBelief(sim_state) => SimBelief(sim_state')
      BY <2>1
  <2> QED
      BY <1>1, <2>1, <2>2, <2>3, ReplayAgrees
<1>4. CASE ReplayCall
  <2>1. /\ Plan(todo', sim_state')
        /\ UNCHANGED <<same_keys, pending, s2c, server, before, sim_state>>
      BY <1>4, CallPlan
  <2>2. SimBelief(sim_state) => SimBelief(sim_state')
      BY <2>1
  <2> QED
      BY <1>1, <2>1, <2>2, ReplayAgrees
<1>5. CASE SendStep
  <2>1. UNCHANGED <<same_keys, pending, s2c, server, before>>
      BY <1>5 DEF SendStep, workerVars
  <2>2. Plan(todo', sim_state') /\ (SimBelief(sim_state) => SimBelief(sim_state'))
      BY <1>1, <1>5, SentBelieves
  <2> QED
      BY <1>1, <2>1, <2>2, ReplayAgrees
<1>6. CASE TakePending
  <2>1. /\ Expecting /\ pending # <<>> /\ pending' = Tail(pending) /\ Delivered(Head(pending))
        /\ UNCHANGED <<same_keys, s2c, server, before>>
      BY <1>6 DEF TakePending, workerVars
  <2>2. /\ Plan(todo', sim_state')
        /\ Head(pending) \in Decoded /\ SimBelief(sim_state) => SimBelief(sim_state')
      BY <1>1, <2>1, DeliveredBelieves
  <2>3. pending \in Seq(Decoded) => Head(pending) \in Decoded /\ pending' \in Seq(Decoded)
      BY <2>1, HeadTailProperties
  <2> QED
      BY <1>1, <2>1, <2>2, <2>3, ReplayAgrees
<1>7. ASSUME NEW n \in 1..Len(s2c), TakeSocket(n)
      PROVE  SimInv'
  <2>1. /\ Expecting /\ s2c' = SubSeq(s2c, n + 1, Len(s2c)) /\ Len(s2c) \in Nat
        /\ UNCHANGED <<same_keys, server, before>>
      BY <1>1, <1>7 DEF TakeSocket, workerVars
  <2>2. s2c' \in Seq(Truths)
      BY <1>1, <2>1, SubSeqProperties
  <2>3. CASE /\ \A i \in 1..n : Decrypts(s2c, i, cdec)
             /\ pending' = SubSeq(s2c, 2, n)
             /\ Delivered(s2c[1])
    <3>1. \A i \in 1..n : s2c[i] \in Decoded
        BY <1>1, <2>1, <2>3 DEF Decrypts, Decoded
    <3>2. pending' \in Seq(Decoded) /\ s2c[1] \in Decoded
        BY <2>1, <2>3, <3>1, SubSeqProperties
    <3>3. Plan(todo', sim_state') /\ (SimBelief(sim_state) => SimBelief(sim_state'))
        BY <1>1, <2>1, <2>3, <3>2, DeliveredBelieves
    <3> QED
        BY <1>1, <2>1, <2>2, <3>2, <3>3, ReplayAgrees
  <2>4. CASE UNCHANGED pending /\ Fails("crypto")
    <3>1. todo' = <<>> /\ sim_state' = sim_state
        BY <2>4 DEF Fails
    <3>2. Plan(todo', sim_state') /\ (SimBelief(sim_state) => SimBelief(sim_state'))
        BY <3>1 DEF Plan
    <3> QED
        BY <1>1, <2>1, <2>2, <2>4, <3>2, ReplayAgrees
  <2> QED
      BY <1>7, <2>3, <2>4 DEF TakeSocket
<1>8. CASE TakeEnd \/ TakeTimeout
  <2>1. /\ s2c' \in {s2c, <<>>} /\ todo' = <<>> /\ sim_state' = sim_state
        /\ UNCHANGED <<same_keys, server, before, pending>>
      BY <1>8 DEF TakeEnd, TakeTimeout, Fails, workerVars
  <2>2. s2c' \in Seq(Truths)
      BY <1>1, <2>1, EmptySeq
  <2>3. Plan(todo', sim_state') /\ (SimBelief(sim_state) => SimBelief(sim_state'))
      BY <2>1 DEF Plan
  <2> QED
      BY <1>1, <2>1, <2>2, <2>3, ReplayAgrees
<1>9. ASSUME ServerReach', \A id : Truth(id) => Truth(id)', s2c' \in Seq(Truths'),
             UNCHANGED <<same_keys, before, pending, todo, sim_state>>
      PROVE  SimInv'
  <2>1. \A s \in Seq(Decoded) : s \in Seq(Decoded')
      BY <1>9, TruthsGrow
  <2>2. SimBelief(sim_state) => SimBelief(sim_state)'
      BY <1>9, SimBeliefStays DEF SimBelief
  <2>3. Plan(todo, sim_state)'
      BY <1>1, <1>9 DEF Plan, Follows
  <2>4. Fresh' = Fresh
      BY DEF Fresh
  <2> QED
      BY <1>1, <1>9, <2>1, <2>2, <2>3, <2>4 DEF SimInv
<1>10. CASE ServerHandle /\ UNCHANGED <<before, todo, sim_state>>
  <2>1. /\ ServerReach' /\ \A id : Truth(id) => Truth(id)'
        /\ \/ s2c' = s2c
           \/ \E g \in FrameSet : s2c' = s2c \o <<g>> /\ Truth(g.id)'
      BY <1>1, <1>10, ServerTells
  <2>2. UNCHANGED <<same_keys, pending>>
      BY <1>10 DEF ServerHandle, clientVars
  <2>3. s2c \in Seq(Truths')
      BY <1>1, <2>1, <2>2, TruthsGrow
  <2>4. ASSUME NEW g \in FrameSet, s2c' = s2c \o <<g>>, Truth(g.id)'
        PROVE  s2c' \in Seq(Truths')
    <3>1. <<g>> \in Seq(Truths')
        BY <2>4 DEF Truths
    <3> QED
        BY <2>3, <2>4, <3>1, ConcatProperties
  <2> QED
      BY <1>9, <1>10, <2>1, <2>2, <2>3, <2>4
<1>11. CASE (ServerRead \/ ServerEnd \/ ServerTimeout) /\ UNCHANGED <<before, todo, sim_state>>
  <2>1. /\ server' \in {server, "Closed"}
        /\ UNCHANGED <<same_keys, pending, s2c>>
      BY <1>11 DEF ServerRead, ServerEnd, ServerTimeout, clientVars
  <2>2. /\ \A id : Truth(id) => Truth(id)'
        /\ ServerReach'
      BY <1>1, <2>1, TruthStays
  <2>3. s2c' \in Seq(Truths')
      BY <1>1, <2>1, <2>2, TruthsGrow
  <2> QED
      BY <1>9, <1>11, <2>1, <2>2, <2>3
<1> QED
    BY <1>2, <1>3, <1>4, <1>5, <1>6, <1>7, <1>8, <1>10, <1>11
       DEF ReplayNext, ClientStep, WorkerHandles, OtherWork, replayVars

-----------------------------------------------------------------------------
(* The dispatcher of the tests                                             *)

(* As long as it has had no error it stands where the worker's session     *)
(* stands.                                                                 *)
Together ==
    ~answered.erred /\ worker = "running" =>
        \/ dispatcher = "SimStart" /\ server = "WaitingForServiceHandshake"
        \/ dispatcher = "Sim1fSent" /\ server = "ServiceHandshakeComplete"
        \/ dispatcher = "Sim1aSent" /\ server = "SessionEstablished"
        \/ dispatcher = "SimReady" /\ server \in ReadyStates

(* The answers the policy gives at the stages of the handshake.            *)
LEMMA StageReplies ==
    /\ Replies("WaitingForServiceHandshake", "x1E", TRUE) = {"x1F"}
    /\ Replies("ServiceHandshakeComplete", "x19", TRUE) = {"x1A"}
    /\ Replies("SessionEstablished", "x79", TRUE) = {"x7A"}
    /\ \A s \in ReadyStates : Replies(s, "xSYN_A", TRUE) = {"xSYN_RSP"}
BY DEF Replies, ReplySteps, ReadyStates, ChatReplies

LEMMA StageMoves ==
    ASSUME NEW m, m.dir = "c2s"
    PROVE  /\ m.id = "x1E" => /\ ~Rejects("WaitingForServiceHandshake", m)
                              /\ Moved("WaitingForServiceHandshake", m) = "ServiceHandshakeComplete"
           /\ m.id = "x19" => /\ ~Rejects("ServiceHandshakeComplete", m)
                              /\ Moved("ServiceHandshakeComplete", m) = "SessionEstablished"
           /\ m.id = "x79" => /\ ~Rejects("SessionEstablished", m)
                              /\ Moved("SessionEstablished", m) = "EncryptedChannelEstablished"
           /\ m.id = "xSYN_A" => \A s \in ReadyStates : ~Rejects(s, m) /\ Moved(s, m) = "Active"
<1>1. /\ Awaits("WaitingForServiceHandshake", "x1E")
      /\ Awaits("ServiceHandshakeComplete", "x19")
      /\ Awaits("SessionEstablished", "x79")
    BY DEF Awaits, HandshakeSteps, States
<1>2. m.id \in {"x1E", "x19", "x79", "xSYN_A"} => ~WrongDirection(m)
    BY DEF WrongDirection, S2CIds
<1>3. /\ m.id = "x1E" => ~Rejects("WaitingForServiceHandshake", m)
      /\ m.id = "x19" => ~Rejects("ServiceHandshakeComplete", m)
      /\ m.id = "x79" => ~Rejects("SessionEstablished", m)
      /\ m.id = "xSYN_A" => \A s \in ReadyStates : ~Rejects(s, m)
    BY <1>1, <1>2 DEF Rejects, ClosingStates, ReadyStates
<1>4. {"WaitingForServiceHandshake", "ServiceHandshakeComplete", "SessionEstablished"}
          \cup ReadyStates \subseteq States
    BY DEF States, ReadyStates
<1>5. SequencedIds = KnownIds /\ {"x1E", "x19", "x79"} \subseteq KnownIds
    BY DEF SequencedIds, KnownIds
<1>6. CASE m.id = "x1E"
    BY <1>3, <1>4, <1>5, <1>6, ServerMoves DEF ReadyStates
<1>7. CASE m.id = "x19"
    BY <1>3, <1>4, <1>5, <1>7, ServerMoves DEF ReadyStates
<1>8. CASE m.id = "x79"
    BY <1>3, <1>4, <1>5, <1>8, ServerMoves DEF ReadyStates
<1>9. CASE m.id = "xSYN_A"
    BY <1>3, <1>4, <1>9, ServerMoves DEF ReadyStates
<1> QED
    BY <1>6, <1>7, <1>8, <1>9

(* A row of the dispatcher's table is known by its state.                  *)
LEMMA DispatcherRow ==
    ASSUME NEW f, NEW row \in DispatcherFor(f)
    PROVE  /\ DispatcherFor(f) = {row} /\ row[1] = dispatcher /\ row[2] = f.id
           /\ \/ dispatcher = "SimStart" /\ row[2] = "x1E" /\ row[4] = "x1F" /\ row[5] = "Sim1fSent"
              \/ dispatcher = "Sim1fSent" /\ row[2] = "x19" /\ row[4] = "x1A" /\ row[5] = "Sim1aSent"
              \/ dispatcher = "Sim1aSent" /\ row[2] = "x79" /\ row[4] = "x7A" /\ row[5] = "SimReady"
              \/ dispatcher = "SimReady" /\ row[2] = "xSYN_A" /\ row[4] = "xSYN_RSP"
                 /\ row[5] = "SimReady"
<1> DEFINE a == <<"SimStart", "x1E", FALSE, "x1F", "Sim1fSent">>
           b == <<"Sim1fSent", "x19", FALSE, "x1A", "Sim1aSent">>
           c == <<"Sim1aSent", "x79", TRUE, "x7A", "SimReady">>
           d == <<"SimReady", "xSYN_A", TRUE, "xSYN_RSP", "SimReady">>
<1>1. DispatcherSteps = {a, b, c, d}
    BY DEF DispatcherSteps
<1>2. /\ a[1] = "SimStart" /\ a[2] = "x1E" /\ a[4] = "x1F" /\ a[5] = "Sim1fSent"
      /\ b[1] = "Sim1fSent" /\ b[2] = "x19" /\ b[4] = "x1A" /\ b[5] = "Sim1aSent"
      /\ c[1] = "Sim1aSent" /\ c[2] = "x79" /\ c[4] = "x7A" /\ c[5] = "SimReady"
      /\ d[1] = "SimReady" /\ d[2] = "xSYN_A" /\ d[4] = "xSYN_RSP" /\ d[5] = "SimReady"
    OBVIOUS
<1> HIDE DEF a, b, c, d
<1>3. row \in {a, b, c, d} /\ row[1] = dispatcher /\ row[2] = f.id
    BY <1>1 DEF DispatcherFor
<1>4. \A s \in {a, b, c, d} : s[1] = row[1] => s = row
    BY <1>2, <1>3
<1>5. DispatcherFor(f) = {row}
    BY <1>1, <1>3, <1>4 DEF DispatcherFor
<1> QED
    BY <1>2, <1>3, <1>5

LEMMA DispatcherNext ==
    ASSUME TypeOK, Together, DispatcherAgrees, WorkerHandles
    PROVE  Together' /\ DispatcherAgrees'
<1> DEFINE f == Head(batch)
           m == [id |-> f.id, dir |-> "c2s"]
<1>1. m.dir = "c2s" /\ m.id = f.id
    OBVIOUS
<1>2. CASE ~Decrypts(batch, 1, sdec)
  <2>1. worker' = "ended" /\ UNCHANGED <<dispatcher, answered>>
      BY <1>2 DEF WorkerHandles, ServerHandle, Abandon
  <2> QED
      BY <2>1 DEF Together, DispatcherAgrees
<1>3. CASE Decrypts(batch, 1, sdec)
  <2>1. /\ dispatcher' = IF DispatcherFor(f) = {} THEN dispatcher
                         ELSE (CHOOSE s \in DispatcherFor(f) : TRUE)[5]
        /\ answered' = [worker |-> IF Rejects(server, m) THEN {} ELSE Replies(server, f.id, TRUE),
                        dispatcher |-> {s[4] : s \in DispatcherFor(f)},
                        erred |-> answered.erred \/ DispatcherFor(f) = {}]
        /\ worker = "running"
        /\ Rejects(server, m) \/ server' = Moved(server, m)
      BY <1>3 DEF WorkerHandles, ServerHandle, Moved
  <2>2. answered'.erred <=> answered.erred \/ DispatcherFor(f) = {}
      BY <2>1
  <2>3. CASE answered.erred \/ DispatcherFor(f) = {}
      BY <2>2, <2>3 DEF Together, DispatcherAgrees
  <2>4. CASE ~answered.erred /\ DispatcherFor(f) # {}
    <3> HIDE DEF m, f
    <3>1. PICK row \in DispatcherFor(f) : TRUE
        BY <2>4
    <3>2. /\ DispatcherFor(f) = {row} /\ row[1] = dispatcher /\ row[2] = f.id
          /\ \/ dispatcher = "SimStart" /\ row[2] = "x1E" /\ row[4] = "x1F" /\ row[5] = "Sim1fSent"
             \/ dispatcher = "Sim1fSent" /\ row[2] = "x19" /\ row[4] = "x1A" /\ row[5] = "Sim1aSent"
             \/ dispatcher = "Sim1aSent" /\ row[2] = "x79" /\ row[4] = "x7A" /\ row[5] = "SimReady"
             \/ dispatcher = "SimReady" /\ row[2] = "xSYN_A" /\ row[4] = "xSYN_RSP"
                /\ row[5] = "SimReady"
        BY DispatcherRow
    <3>3. dispatcher' = row[5] /\ answered'.dispatcher = {row[4]}
      <4>1. (CHOOSE s \in DispatcherFor(f) : TRUE) = row
          BY <3>2
      <4>2. {s[4] : s \in DispatcherFor(f)} = {row[4]}
          BY <3>2
      <4> QED
          BY <2>1, <2>4, <4>1, <4>2
    <3>4. /\ ~Rejects(server, m) /\ Replies(server, f.id, TRUE) = {row[4]}
          /\ \/ row[5] = "Sim1fSent" /\ Moved(server, m) = "ServiceHandshakeComplete"
             \/ row[5] = "Sim1aSent" /\ Moved(server, m) = "SessionEstablished"
             \/ row[5] = "SimReady" /\ Moved(server, m) \in ReadyStates
      <4>1. CASE dispatcher = "SimStart"
        <5>1. server = "WaitingForServiceHandshake"
            BY <2>1, <2>4, <4>1 DEF Together
        <5> QED
            BY <1>1, <3>2, <4>1, <5>1, StageMoves, StageReplies
      <4>2. CASE dispatcher = "Sim1fSent"
        <5>1. server = "ServiceHandshakeComplete"
            BY <2>1, <2>4, <4>2 DEF Together
        <5> QED
            BY <1>1, <3>2, <4>2, <5>1, StageMoves, StageReplies
      <4>3. CASE dispatcher = "Sim1aSent"
        <5>1. server = "SessionEstablished"
            BY <2>1, <2>4, <4>3 DEF Together
        <5> QED
            BY <1>1, <3>2, <4>3, <5>1, StageMoves, StageReplies DEF ReadyStates
      <4>4. CASE dispatcher = "SimReady"
        <5>1. server \in ReadyStates
            BY <2>1, <2>4, <4>4 DEF Together
        <5> QED
            BY <1>1, <3>2, <4>4, <5>1, StageMoves, StageReplies DEF ReadyStates
      <4> QED
          BY <3>2, <4>1, <4>2, <4>3, <4>4
    <3>5. answered'.worker = {row[4]} /\ server' = Moved(server, m)
        BY <2>1, <3>4
    <3> QED
        BY <3>3, <3>4, <3>5 DEF Together, DispatcherAgrees
  <2> QED
      BY <2>3, <2>4
<1> QED
    BY <1>2, <1>3

LEMMA TogetherNext ==
    ASSUME TypeOK, Together, DispatcherAgrees, [ReplayNext]_<<vars, replayVars>>
    PROVE  Together' /\ DispatcherAgrees'
<1>1. CASE WorkerHandles
    BY <1>1, DispatcherNext
<1>2. CASE ReplayConnect
    BY <1>2 DEF ReplayConnect, Together, DispatcherAgrees, InitialState
<1>3. ASSUME UNCHANGED <<dispatcher, answered>>,
             UNCHANGED <<worker, server>> \/ worker' = "ended"
      PROVE  Together' /\ DispatcherAgrees'
    BY <1>3 DEF Together, DispatcherAgrees
<1>4. CASE ReplayClose \/ ReplayCall \/ UNCHANGED <<vars, replayVars>>
    BY <1>3, <1>4 DEF ReplayClose, ReplayCall, Start, workerVars, replayVars, vars
<1>5. CASE SendStep \/ TakePending \/ TakeEnd \/ TakeTimeout
    BY <1>3, <1>5 DEF SendStep, TakePending, TakeEnd, TakeTimeout, workerVars
<1>6. CASE \E n \in 1..Len(s2c) : TakeSocket(n)
    BY <1>3, <1>6 DEF TakeSocket, workerVars
<1>7. CASE OtherWork \/ (ServerTimeout /\ UNCHANGED replayVars)
  <2>1. UNCHANGED <<dispatcher, answered>>
      BY <1>7 DEF OtherWork, replayVars
  <2>2. UNCHANGED <<worker, server>> \/ worker' = "ended"
      BY <1>7 DEF OtherWork, ServerRead, ServerEnd, ServerTimeout
  <2> QED
      BY <1>3, <2>1, <2>2
<1> QED
    BY <1>1, <1>2, <1>4, <1>5, <1>6, <1>7 DEF ReplayNext, ClientStep

(* The clients whenever it is their turn; the other client's variables     *)
(* keep their initial values.                                              *)
OwnerAgrees ==
    /\ owner \in {"compatibility", "replay"}
    /\ owner = "compatibility" =>
          InStep /\ Agree /\ sim_state = "SimStart" /\ DispatcherAgrees
    /\ owner = "replay" => ReplayTyped /\ SimInv /\ Together /\ DispatcherAgrees

LEMMA OwnerAgreesInit == MCInit => OwnerAgrees
<1> SUFFICES ASSUME MCInit PROVE OwnerAgrees
    OBVIOUS
<1>1. ReplayInit /\ Init /\ owner \in {"compatibility", "replay"}
    BY DEF MCInit, ReplayInit
<1>2. InStep /\ ReplayTyped
    BY <1>1, InStepInit, ReplayTypedInit
<1>3. s2c = <<>> /\ pending = <<>> /\ <<>> \in Seq(Truths) /\ <<>> \in Seq(Decoded)
    BY <1>1, EmptySeq DEF Init
<1>4. Agree
    BY <1>1, <1>3 DEF Init, Agree, ServerReach, HandshakeAgreement, Ready
<1>5. DispatcherAgrees /\ Together /\ sim_state = "SimStart" /\ todo = <<>>
    BY <1>1 DEF ReplayInit, Init, DispatcherAgrees, Together
<1>6. Plan(todo, sim_state)
    BY <1>5 DEF Plan
<1>7. SimInv
    BY <1>3, <1>4, <1>5, <1>6 DEF SimInv, Agree, SimBelief
<1> QED
    BY <1>1, <1>2, <1>4, <1>5, <1>7 DEF OwnerAgrees

LEMMA OwnerAgreesNext ==
    ASSUME FixturesShakeHands, OwnerAgrees, [MCNext]_allVars
    PROVE  OwnerAgrees'
<1>1. ASSUME owner = "compatibility", [Next]_vars, UNCHANGED <<owner, replayVars>>
      PROVE  OwnerAgrees'
  <2>1. InStep /\ Agree /\ TypeOK /\ sim_state = "SimStart" /\ DispatcherAgrees
      BY <1>1 DEF OwnerAgrees, InStep
  <2>2. InStep' /\ Agree'
      BY <1>1, <2>1, InStepNext, AgreeNext
  <2>3. sim_state' = sim_state /\ answered' = answered
      BY <1>1 DEF replayVars
  <2> QED
      BY <1>1, <2>1, <2>2, <2>3 DEF OwnerAgrees, DispatcherAgrees
<1>2. ASSUME owner = "replay", [ReplayNext]_<<vars, replayVars>>, owner' = owner
      PROVE  OwnerAgrees'
  <2>1. ReplayTyped /\ TypeOK /\ SimInv /\ Together /\ DispatcherAgrees
      BY <1>2 DEF OwnerAgrees, ReplayTyped
  <2>2. ReplayTyped' /\ SimInv' /\ Together' /\ DispatcherAgrees'
      BY <1>2, <2>1, ReplayTypedNext, SimNext, TogetherNext
  <2> QED
      BY <1>2, <2>2 DEF OwnerAgrees
<1>3. CASE MCNext
    BY <1>1, <1>2, <1>3 DEF MCNext
<1>4. CASE UNCHANGED allVars
  <2>1. UNCHANGED <<vars, replayVars>> /\ UNCHANGED vars /\ UNCHANGED <<owner, replayVars>>
      BY <1>4 DEF allVars
  <2> QED
      BY <1>1, <1>2, <2>1 DEF OwnerAgrees
<1> QED
    BY <1>3, <1>4

(* No client believes in a step of the handshake that its server has not   *)
(* taken, the encrypted channel stands only where both ends have the same  *)
(* keys, and the dispatcher of the tests answers as the worker does: for   *)
(* every bound, every set of raw ids and every fixture that ends with the  *)
(* reply to 0x79.                                                          *)
THEOREM PeersAlwaysAgree ==
    ASSUME FixturesShakeHands
    PROVE  MCSpec => []PeersAgree
<1>1. OwnerAgrees /\ [MCNext]_allVars => OwnerAgrees'
    BY OwnerAgreesNext
<1>2. OwnerAgrees => PeersAgree
  <2> SUFFICES ASSUME OwnerAgrees PROVE PeersAgree
      OBVIOUS
  <2>1. DispatcherAgrees
      BY DEF OwnerAgrees
  <2>2. CASE owner = "compatibility"
      BY <2>1, <2>2 DEF OwnerAgrees, Agree, PeersAgree, SimAgreement
  <2>3. CASE owner = "replay"
    <3>1. HandshakeAgreement
        BY <2>3 DEF OwnerAgrees, ReplayTyped, HandshakeAgreement, Ready
    <3>2. SimAgreement
        BY <2>3 DEF OwnerAgrees, SimInv, SimAgreement, SimBelief, Fresh
    <3> QED
        BY <2>1, <3>1, <3>2 DEF PeersAgree
  <2> QED
      BY <2>2, <2>3 DEF OwnerAgrees
<1> QED
    BY OwnerAgreesInit, <1>1, <1>2, PTL DEF MCSpec
=============================================================================
