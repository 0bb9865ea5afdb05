------------------------ MODULE StreamFramingProofs ------------------------
(***************************************************************************)
(* Proofs about StreamFraming, for every header length, every set of byte  *)
(* streams and every way of cutting a stream into chunks; and about the    *)
(* pipeline of MCStreamFraming, for every session it is fed from and every *)
(* choice of sources.                                                      *)
(***************************************************************************)
EXTENDS MCStreamFraming, SequenceTheorems, WellFoundedInduction, TLAPS

(* A wire is a finite sequence of frames whose extents are numbers.        *)
LEMMA WireShape ==
    ASSUME NEW w \in Wires
    PROVE  /\ w \in Seq(Frames)
           /\ Len(w) \in Nat
           /\ BytesOf(w) \in Nat
           /\ \A i \in 1..Len(w) :
                 /\ w[i].start \in Nat
                 /\ w[i].end \in Nat
                 /\ w[i].verdict \in Verdicts
                 /\ w[i].end >= w[i].start + HeaderLen
                 /\ w[i].start = IF i = 1 THEN 0 ELSE w[i - 1].end
<1>1. WellFormed(w)
    BY WiresAssumption
<1>2. w \in Seq(Frames) /\ Len(w) \in Nat
    BY <1>1 DEF WellFormed
<1>3. \A i \in 1..Len(w) : w[i] \in Frames
    BY <1>2
<1>4. w # <<>> => Len(w) \in 1..Len(w)
    BY <1>2
<1>5. BytesOf(w) \in Nat
    BY <1>3, <1>4 DEF BytesOf, Frames
<1> QED
    BY <1>1, <1>2, <1>3, <1>5 DEF WellFormed, Frames

(* The types of the variables hold in every reachable state.               *)
THEOREM TypeCorrect == Spec => []TypeOK
<1>1. Init => TypeOK
  <2> SUFFICES ASSUME Init PROVE TypeOK
      OBVIOUS
  <2>1. Len(wire) \in Nat /\ BytesOf(wire) \in Nat
      BY WireShape DEF Init
  <2> QED
      BY <2>1 DEF Init, TypeOK, Results
<1>2. TypeOK /\ [Next]_vars => TypeOK'
  <2> SUFFICES ASSUME TypeOK, [Next]_vars PROVE TypeOK'
      OBVIOUS
  <2>0. Len(wire) \in Nat /\ BytesOf(wire) \in Nat
      BY WireShape DEF TypeOK
  <2>1. CASE StartCollect
      BY <2>0, <2>1 DEF StartCollect, TypeOK
  <2>2. ASSUME NEW n \in 1..cutoff, ReadData(n) PROVE TypeOK'
    <3> PICK stop \in next..Len(wire) + 1 :
              /\ DrainStopsAt(stop, received + n)
              /\ consumed' = DrainedUpTo(stop)
              /\ next' = stop
              /\ \/ /\ Refused(stop, received + n)
                    /\ Fail("stream_error")
                 \/ /\ ~Refused(stop, received + n)
                    /\ out' = out \o Drained(stop)
                    /\ UNCHANGED <<call, result, delivered, failures>>
        BY <2>2 DEF ReadData
    <3>0. /\ UNCHANGED <<wire, cutoff, source>>
          /\ received' = received + n
          /\ received + n <= cutoff
        BY <2>2 DEF ReadData
    <3>1. consumed' \in 0..received'
      <4>1. CASE stop > next
        <5>1. Complete(stop - 1, received + n) /\ wire[stop - 1].end \in Nat
            BY <2>0, <4>1, WireShape DEF DrainStopsAt, TypeOK
        <5> QED
            BY <3>0, <4>1, <5>1 DEF DrainedUpTo, Complete, TypeOK
      <4>2. CASE ~(stop > next)
          BY <3>0, <4>2 DEF DrainedUpTo, TypeOK
      <4> QED
          BY <4>1, <4>2
    <3>2. Drained(stop) \in Seq(Nat)
        BY <2>0 DEF Drained, TypeOK
    <3>3. /\ call' \in {"idle", "collecting"}
          /\ out' \in Seq(Nat)
          /\ result' \in Results
          /\ delivered' \in Seq(Nat)
          /\ failures' \in Nat
      <4>1. CASE Fail("stream_error")
          BY <4>1 DEF Fail, TypeOK, Results
      <4>2. CASE /\ out' = out \o Drained(stop)
                 /\ UNCHANGED <<call, result, delivered, failures>>
        <5>1. out' \in Seq(Nat)
            BY <3>2, <4>2 DEF TypeOK
        <5> QED
            BY <4>2, <5>1 DEF TypeOK
      <4> QED
          BY <4>1, <4>2
    <3>4. received' \in 0..cutoff' /\ next' \in 1..Len(wire') + 1
        BY <2>0, <3>0 DEF TypeOK
    <3> QED
        BY <3>0, <3>1, <3>3, <3>4 DEF TypeOK
  <2>a. ASSUME Finish
        PROVE  /\ call' \in {"idle", "collecting"}
               /\ out' \in Seq(Nat)
               /\ result' \in Results
               /\ delivered' \in Seq(Nat)
               /\ failures' \in Nat
    <3>1. CASE Fail("incomplete_at_end")
        BY <3>1 DEF Fail, TypeOK, Results
    <3>2. CASE /\ call' = "idle"
               /\ out' = <<>>
               /\ result' = "ok"
               /\ delivered' = delivered \o out
               /\ UNCHANGED failures
      <4>1. delivered' \in Seq(Nat)
          BY <3>2 DEF TypeOK
      <4> QED
          BY <3>2, <4>1 DEF TypeOK, Results
    <3> QED
        BY <2>a, <3>1, <3>2 DEF Finish, Succeed
  <2>3. CASE ReadEof
      BY <2>0, <2>3, <2>a DEF ReadEof, TypeOK
  <2>4. CASE ReadClosed
      BY <2>0, <2>4, <2>a DEF ReadClosed, TypeOK
  <2>5. CASE ReadFails
      BY <2>0, <2>5 DEF ReadFails, Fail, TypeOK, Results
  <2>6. CASE CloseSource
      BY <2>6 DEF CloseSource, TypeOK
  <2>7. CASE UNCHANGED vars
      BY <2>7 DEF vars, TypeOK
  <2> QED
      BY <2>1, <2>2, <2>3, <2>4, <2>5, <2>6, <2>7 DEF Next, Read
<1> QED
    BY <1>1, <1>2, PTL DEF Spec

(* Which frames have been drained, and what is left in the buffer, is      *)
(* decided by the bytes that arrived, not by how they were cut into        *)
(* chunks.                                                                 *)
THEOREM ChunkingDoesNotMatter == Spec => []ChunkIndependence
<1>1. Init => ChunkIndependence
  <2> SUFFICES ASSUME Init PROVE ChunkIndependence
      OBVIOUS
  <2>1. 1 <= Len(wire) => 0 < wire[1].end
    <3> SUFFICES ASSUME 1 <= Len(wire) PROVE 0 < wire[1].end
        OBVIOUS
    <3>1. wire \in Wires /\ 1 \in 1..Len(wire)
        BY WireShape DEF Init
    <3>2. wire[1].start \in Nat /\ wire[1].end >= wire[1].start + HeaderLen
        BY <3>1, WireShape
    <3>3. wire[1].end \in Nat
        BY <3>1, WireShape
    <3> QED
        BY <3>2, <3>3, HeaderLenAssumption
  <2> QED
      BY <2>1 DEF Init, ChunkIndependence
<1>2. TypeOK /\ TypeOK' /\ ChunkIndependence /\ [Next]_vars => ChunkIndependence'
  <2> SUFFICES ASSUME TypeOK, ChunkIndependence, [Next]_vars PROVE ChunkIndependence'
      OBVIOUS
  <2>0. Len(wire) \in Nat
      BY WireShape DEF TypeOK
  <2>1. ASSUME NEW n \in 1..cutoff, ReadData(n) PROVE ChunkIndependence'
    <3> PICK stop \in next..Len(wire) + 1 :
              /\ DrainStopsAt(stop, received + n)
              /\ consumed' = DrainedUpTo(stop)
              /\ next' = stop
        BY <2>1 DEF ReadData
    <3>0. /\ wire' = wire
          /\ received' = received + n
        BY <2>1 DEF ReadData
    <3>1. \A i \in 1..stop - 1 : wire[i].verdict = "ok" /\ wire[i].end <= received + n
      <4> TAKE i \in 1..stop - 1
      <4>1. CASE i < next
        <5>0. i \in 1..Len(wire) /\ wire \in Wires
            BY <2>0, <4>1 DEF TypeOK
        <5>1. wire[i].end \in Nat
            BY <5>0, WireShape
        <5> QED
            BY <2>0, <4>1, <5>1 DEF ChunkIndependence, TypeOK
      <4>2. CASE i >= next
          BY <2>0, <4>2 DEF DrainStopsAt, Complete, TypeOK
      <4> QED
          BY <2>0, <4>1, <4>2 DEF TypeOK
    <3>2. stop <= Len(wire) => wire[stop].verdict = "refused" \/ received + n < wire[stop].end
      <4> SUFFICES ASSUME stop <= Len(wire)
                   PROVE  wire[stop].verdict = "refused" \/ received + n < wire[stop].end
          OBVIOUS
      <4>1. stop \in 1..Len(wire)
          BY <2>0 DEF TypeOK
      <4>2. wire[stop].end \in Nat /\ wire[stop].verdict \in Verdicts
          BY <4>1, WireShape DEF TypeOK
      <4> QED
          BY <4>1, <4>2 DEF DrainStopsAt, Complete, Verdicts, TypeOK
    <3>3. DrainedUpTo(stop) = IF stop = 1 THEN 0 ELSE wire[stop - 1].end
      <4>1. CASE stop > next
          BY <2>0, <4>1 DEF DrainedUpTo, TypeOK
      <4>2. CASE stop = next
          BY <4>2 DEF DrainedUpTo, ChunkIndependence, TypeOK
      <4> QED
          BY <2>0, <4>1, <4>2 DEF TypeOK
    <3> QED
        BY <3>0, <3>1, <3>2, <3>3 DEF ChunkIndependence
  <2>2. CASE UNCHANGED <<wire, received, consumed, next>>
      BY <2>2 DEF ChunkIndependence
  <2> QED
      BY <2>1, <2>2 DEF Next, Read, StartCollect, ReadEof, ReadClosed, ReadFails,
                        CloseSource, vars
<1> QED
    BY <1>1, <1>2, TypeCorrect, PTL DEF Spec

LEMMA NumbersAssociate == \A s, t, u \in Seq(Nat) : (s \o t) \o u = s \o (t \o u)
BY ConcatAssociative

(* Appending a run of consecutive numbers to the numbers before it.        *)
LEMMA AppendRun ==
    ASSUME NEW s \in Seq(Nat), NEW t \in Seq(Nat), NEW m \in Nat,
           Len(s) = m,
           \A k \in 1..m : s[k] = k,
           \A k \in 1..Len(t) : t[k] = m + k
    PROVE  /\ Len(s \o t) = m + Len(t)
           /\ \A k \in 1..m + Len(t) : (s \o t)[k] = k
<1>1. Len(s) \in Nat /\ Len(t) \in Nat
    OBVIOUS
<1>2. Len(s \o t) = m + Len(t)
    BY <1>1
<1>3. ASSUME NEW k \in 1..m + Len(t) PROVE (s \o t)[k] = k
  <2>1. CASE k <= m
    <3>1. (s \o t)[k] = s[k]
        BY <1>1, <2>1
    <3> QED
        BY <2>1, <3>1
  <2>2. CASE k > m
    <3>1. (s \o t)[k] = t[k - m]
        BY <1>1, <2>2
    <3>2. k - m \in 1..Len(t)
        BY <1>1, <2>2
    <3> QED
        BY <1>1, <3>1, <3>2
  <2> QED
      BY <1>1, <2>1, <2>2
<1> QED
    BY <1>2, <1>3

(* The frames of a call that ended are never left behind in out, so the    *)
(* next call starts empty: without it NothingLostWithoutFailure is not     *)
(* inductive.                                                              *)
IdleIsEmpty == call = "idle" => out = <<>>

DeliveryInv == IdleIsEmpty /\ NothingLostWithoutFailure

(* Calls that succeed return the frames of the stream, all of them and in  *)
(* order; what the running call has gathered continues them.               *)
THEOREM NothingLost == Spec => []NothingLostWithoutFailure
<1>1. Init => DeliveryInv
    BY DEF Init, DeliveryInv, IdleIsEmpty, NothingLostWithoutFailure
<1>2. TypeOK /\ DeliveryInv /\ [Next]_vars => DeliveryInv'
  <2> SUFFICES ASSUME TypeOK, DeliveryInv, [Next]_vars PROVE DeliveryInv'
      OBVIOUS
  <2>0. Len(wire) \in Nat
      BY WireShape DEF TypeOK
  <2>1. CASE StartCollect
    <3>1. delivered' \o out' = delivered \o out
        BY <2>1 DEF StartCollect, DeliveryInv, IdleIsEmpty
    <3> QED
        BY <2>1, <3>1 DEF StartCollect, DeliveryInv, IdleIsEmpty, NothingLostWithoutFailure
  <2>f. ASSUME NEW kind, Fail(kind) PROVE DeliveryInv'
      BY <2>f DEF Fail, TypeOK, DeliveryInv, IdleIsEmpty, NothingLostWithoutFailure
  <2>2. ASSUME NEW n \in 1..cutoff, ReadData(n) PROVE DeliveryInv'
    <3> PICK stop \in next..Len(wire) + 1 :
              /\ next' = stop
              /\ \/ /\ Refused(stop, received + n)
                    /\ Fail("stream_error")
                 \/ /\ ~Refused(stop, received + n)
                    /\ out' = out \o Drained(stop)
                    /\ UNCHANGED <<call, result, delivered, failures>>
        BY <2>2 DEF ReadData
    <3>1. CASE Fail("stream_error")
        BY <2>f, <3>1
    <3>2. CASE /\ out' = out \o Drained(stop)
               /\ UNCHANGED <<call, result, delivered, failures>>
      <4>1. IdleIsEmpty'
          BY <2>2, <3>2 DEF ReadData, IdleIsEmpty
      <4>2. ASSUME failures = 0
            PROVE  /\ Len(delivered' \o out') = next' - 1
                   /\ \A k \in 1..next' - 1 : (delivered' \o out')[k] = k
        <5> DEFINE all == delivered \o out
        <5>1. all \in Seq(Nat)
            BY DEF TypeOK
        <5>2. /\ Len(all) = next - 1
              /\ \A k \in 1..next - 1 : all[k] = k
            BY <4>2 DEF DeliveryInv, NothingLostWithoutFailure
        <5>3. /\ Drained(stop) \in Seq(Nat)
              /\ Len(Drained(stop)) = stop - next
              /\ \A k \in 1..Len(Drained(stop)) : Drained(stop)[k] = (next - 1) + k
            BY <2>0 DEF Drained, TypeOK
        <5>4. delivered' \o out' = all \o Drained(stop)
          <6>1. delivered \in Seq(Nat) /\ out \in Seq(Nat) /\ Drained(stop) \in Seq(Nat)
              BY <5>3 DEF TypeOK
          <6>2. (delivered \o out) \o Drained(stop) = delivered \o (out \o Drained(stop))
              BY <6>1, NumbersAssociate, Zenon
          <6>3. delivered' = delivered /\ out' = out \o Drained(stop)
              BY <3>2
          <6> QED
              BY <6>2, <6>3, Zenon
        <5>5. next - 1 \in Nat
            BY DEF TypeOK
        <5> HIDE DEF all
        <5>6. /\ Len(all \o Drained(stop)) = (next - 1) + Len(Drained(stop))
              /\ \A k \in 1..(next - 1) + Len(Drained(stop)) : (all \o Drained(stop))[k] = k
          <6> DEFINE run == Drained(stop)
          <6>1. /\ run \in Seq(Nat)
                /\ \A k \in 1..Len(run) : run[k] = (next - 1) + k
              BY <5>3
          <6> HIDE DEF run
          <6>2. /\ Len(all \o run) = (next - 1) + Len(run)
                /\ \A k \in 1..(next - 1) + Len(run) : (all \o run)[k] = k
              BY <5>1, <5>2, <5>5, <6>1, AppendRun
          <6> QED
              BY <6>2 DEF run
        <5>7. (next - 1) + Len(Drained(stop)) = next' - 1
            BY <2>0, <5>3 DEF TypeOK
        <5> QED
            BY <5>4, <5>6, <5>7
      <4>3. failures' = failures
          BY <3>2
      <4> QED
          BY <4>1, <4>2, <4>3 DEF DeliveryInv, NothingLostWithoutFailure
    <3> QED
        BY <3>1, <3>2
  <2>e. ASSUME Finish, next' = next PROVE DeliveryInv'
    <3>1. CASE Fail("incomplete_at_end")
        BY <2>f, <3>1
    <3>2. CASE /\ call' = "idle"
               /\ out' = <<>>
               /\ delivered' = delivered \o out
               /\ UNCHANGED failures
      <4>1. delivered' \o out' = delivered \o out
          BY <3>2 DEF TypeOK
      <4> QED
          BY <2>e, <3>2, <4>1 DEF DeliveryInv, IdleIsEmpty, NothingLostWithoutFailure
    <3> QED
        BY <2>e, <3>1, <3>2 DEF Finish, Succeed
  <2>3. CASE ReadEof
      BY <2>3, <2>e DEF ReadEof
  <2>4. CASE ReadClosed
      BY <2>4, <2>e DEF ReadClosed
  <2>5. CASE ReadFails
      BY <2>5, <2>f DEF ReadFails
  <2>6. CASE CloseSource
      BY <2>6 DEF CloseSource, DeliveryInv, IdleIsEmpty, NothingLostWithoutFailure
  <2>7. CASE UNCHANGED vars
      BY <2>7 DEF vars, DeliveryInv, IdleIsEmpty, NothingLostWithoutFailure
  <2> QED
      BY <2>1, <2>2, <2>3, <2>4, <2>5, <2>6, <2>7 DEF Next, Read
<1>3. DeliveryInv => NothingLostWithoutFailure
    BY DEF DeliveryInv
<1> QED
    BY <1>1, <1>2, <1>3, TypeCorrect, PTL DEF Spec

-----------------------------------------------------------------------------

(* The numbers rise, and all are below n.                                  *)
Rising(s, n) ==
    /\ \A k \in 1..Len(s) - 1 : s[k] < s[k + 1]
    /\ \A k \in 1..Len(s) : s[k] < n

(* Whatever a failed call gathered is dropped, what came before it rises.  *)
LEMMA RisingPrefix ==
    ASSUME NEW s \in Seq(Nat), NEW t \in Seq(Nat), NEW n \in Nat, Rising(s \o t, n)
    PROVE  Rising(s, n)
<1>1. /\ Len(s \o t) = Len(s) + Len(t) /\ Len(s) \in Nat /\ Len(t) \in Nat
      /\ \A k \in 1..Len(s) : (s \o t)[k] = s[k]
    OBVIOUS
<1>2. ASSUME NEW k \in 1..Len(s) PROVE s[k] < n
  <2>1. k \in 1..Len(s \o t)
      BY <1>1
  <2> QED
      BY <1>1, <2>1 DEF Rising
<1>3. ASSUME NEW k \in 1..Len(s) - 1 PROVE s[k] < s[k + 1]
  <2>1. k \in 1..Len(s \o t) - 1 /\ k \in 1..Len(s) /\ k + 1 \in 1..Len(s)
      BY <1>1
  <2> QED
      BY <1>1, <2>1 DEF Rising
<1> QED
    BY <1>2, <1>3 DEF Rising

(* What is drained next rises from where the frames before it end.         *)
LEMMA RisingRun ==
    ASSUME NEW s \in Seq(Nat), NEW t \in Seq(Nat), NEW m \in Nat, NEW n \in Nat,
           Rising(s, m), n = m + Len(t),
           \A k \in 1..Len(t) : t[k] = m + k - 1
    PROVE  Rising(s \o t, n)
<1>1. /\ Len(s \o t) = Len(s) + Len(t) /\ Len(s) \in Nat /\ Len(t) \in Nat
      /\ \A k \in 1..Len(s) : (s \o t)[k] = s[k] /\ s[k] \in Nat
      /\ \A k \in Len(s) + 1..Len(s) + Len(t) : (s \o t)[k] = t[k - Len(s)]
    OBVIOUS
<1>2. \A k \in Len(s) + 1..Len(s) + Len(t) : (s \o t)[k] = m + (k - Len(s)) - 1
    BY <1>1
<1>3. ASSUME NEW k \in 1..Len(s) + Len(t) PROVE (s \o t)[k] < n
  <2>1. CASE k \in 1..Len(s)
      BY <1>1, <2>1 DEF Rising
  <2>2. CASE k \in Len(s) + 1..Len(s) + Len(t)
      BY <1>1, <1>2, <2>2
  <2> QED
      BY <1>1, <2>1, <2>2
<1>4. ASSUME NEW k \in 1..Len(s) + Len(t) - 1 PROVE (s \o t)[k] < (s \o t)[k + 1]
  <2>1. CASE k + 1 \in 1..Len(s)
    <3>1. k \in 1..Len(s) - 1 /\ k \in 1..Len(s)
        BY <1>1, <2>1
    <3> QED
        BY <1>1, <2>1, <3>1 DEF Rising
  <2>2. CASE k = Len(s)
    <3>1. s[k] < m /\ (s \o t)[k] = s[k] /\ s[k] \in Nat
        BY <1>1, <2>2 DEF Rising
    <3>2. (s \o t)[k + 1] = m
        BY <1>1, <1>2, <2>2
    <3> QED
        BY <3>1, <3>2
  <2>3. CASE k \in Len(s) + 1..Len(s) + Len(t)
    <3>1. k + 1 \in Len(s) + 1..Len(s) + Len(t)
        BY <1>1, <2>3
    <3>2. (s \o t)[k] = m + (k - Len(s)) - 1 /\ (s \o t)[k + 1] = m + (k + 1 - Len(s)) - 1
        BY <1>2, <2>3, <3>1
    <3> QED
        BY <1>1, <3>2
  <2> QED
      BY <1>1, <2>1, <2>2, <2>3
<1> QED
    BY <1>1, <1>3, <1>4 DEF Rising

DeliveryRises == IdleIsEmpty /\ Rising(delivered \o out, next)

(* A failed call loses what it gathered, but whatever is returned after it *)
(* comes later in the stream.                                              *)
THEOREM NothingRepeated == Spec => []NeverRepeatedOrReordered
<1>1. Init => DeliveryRises
  <2> SUFFICES ASSUME Init PROVE DeliveryRises
      OBVIOUS
  <2>1. delivered \o out = <<>> /\ Len(delivered \o out) = 0
      BY DEF Init
  <2> QED
      BY <2>1 DEF Init, DeliveryRises, IdleIsEmpty, Rising
<1>2. TypeOK /\ TypeOK' /\ DeliveryRises /\ [Next]_vars => DeliveryRises'
  <2> SUFFICES ASSUME TypeOK, TypeOK', DeliveryRises, [Next]_vars PROVE DeliveryRises'
      OBVIOUS
  <2>0. /\ Len(wire) \in Nat /\ next \in Nat /\ next' \in Nat
        /\ delivered \in Seq(Nat) /\ out \in Seq(Nat) /\ delivered \o out \in Seq(Nat)
        /\ Rising(delivered \o out, next)
      BY WireShape DEF TypeOK, DeliveryRises
  <2>f. ASSUME NEW kind, Fail(kind), NEW m \in Nat, next' = m, next <= m PROVE DeliveryRises'
    <3>1. Rising(delivered, next)
        BY <2>0, RisingPrefix
    <3>2. \A k \in 1..Len(delivered) : delivered[k] \in Nat
        BY <2>0
    <3>3. Rising(delivered, m)
        BY <2>0, <2>f, <3>1, <3>2 DEF Rising
    <3>4. delivered' \o out' = delivered /\ call' = "idle" /\ out' = <<>>
        BY <2>0, <2>f DEF Fail
    <3> QED
        BY <2>f, <3>3, <3>4 DEF DeliveryRises, IdleIsEmpty
  <2>s. ASSUME delivered' \o out' = delivered \o out, next' = next, IdleIsEmpty'
        PROVE  DeliveryRises'
      BY <2>0, <2>s DEF DeliveryRises
  <2>1. CASE StartCollect
    <3>1. delivered' \o out' = delivered \o out /\ next' = next /\ IdleIsEmpty'
        BY <2>1 DEF StartCollect, DeliveryRises, IdleIsEmpty
    <3> QED
        BY <3>1, <2>s
  <2>2. ASSUME NEW n \in 1..cutoff, ReadData(n) PROVE DeliveryRises'
    <3> PICK stop \in next..Len(wire) + 1 :
              /\ next' = stop
              /\ \/ /\ Refused(stop, received + n)
                    /\ Fail("stream_error")
                 \/ /\ ~Refused(stop, received + n)
                    /\ out' = out \o Drained(stop)
                    /\ UNCHANGED <<call, result, delivered, failures>>
        BY <2>2 DEF ReadData
    <3>1. CASE Fail("stream_error")
        BY <2>0, <2>f, <3>1
    <3>2. CASE /\ out' = out \o Drained(stop)
               /\ UNCHANGED <<call, result, delivered, failures>>
      <4> DEFINE run == Drained(stop)
                 all == delivered \o out
      <4>1. /\ run \in Seq(Nat) /\ Len(run) = stop - next
            /\ \A k \in 1..Len(run) : run[k] = next + k - 1
          BY <2>0 DEF Drained
      <4>2. delivered' \o out' = all \o run
        <5> HIDE DEF run
        <5>1. all \o run = delivered \o (out \o run)
          <6>1. delivered \in Seq(Nat) /\ out \in Seq(Nat) /\ run \in Seq(Nat)
              BY <2>0, <4>1
          <6> QED
              BY <6>1, NumbersAssociate, Zenon
        <5>2. delivered' = delivered /\ out' = out \o run
            BY <3>2 DEF run
        <5> QED
            BY <5>1, <5>2, Zenon
      <4>3. Rising(all \o run, stop)
        <5>1. all \in Seq(Nat) /\ Rising(all, next) /\ stop = next + Len(run) /\ stop \in Nat
            BY <2>0, <4>1
        <5> HIDE DEF run, all
        <5> QED
            BY <2>0, <4>1, <5>1, RisingRun
      <4>4. call = "collecting" /\ call' = call
          BY <2>2, <3>2 DEF ReadData
      <4> QED
          BY <4>2, <4>3, <4>4 DEF DeliveryRises, IdleIsEmpty
    <3> QED
        BY <3>1, <3>2
  <2>e. ASSUME Finish, next' = next PROVE DeliveryRises'
    <3>1. CASE Fail("incomplete_at_end")
        BY <2>0, <2>e, <2>f, <3>1
    <3>2. CASE Succeed
      <4>1. delivered' \o out' = delivered \o out /\ IdleIsEmpty'
          BY <2>0, <3>2 DEF Succeed, IdleIsEmpty
      <4> QED
          BY <2>e, <2>s, <4>1
    <3> QED
        BY <2>e, <3>1, <3>2 DEF Finish
  <2>3. CASE ReadEof
      BY <2>3, <2>e DEF ReadEof
  <2>4. CASE ReadClosed
      BY <2>4, <2>e DEF ReadClosed
  <2>5. CASE ReadFails
      BY <2>0, <2>5, <2>f DEF ReadFails
  <2>6. CASE CloseSource
      BY <2>6, <2>s DEF CloseSource, DeliveryRises, IdleIsEmpty
  <2>7. CASE UNCHANGED vars
      BY <2>7, <2>s DEF vars, DeliveryRises, IdleIsEmpty
  <2> QED
      BY <2>1, <2>2, <2>3, <2>4, <2>5, <2>6, <2>7 DEF Next, Read
<1>3. TypeOK /\ DeliveryRises => NeverRepeatedOrReordered
  <2> SUFFICES ASSUME TypeOK, DeliveryRises PROVE NeverRepeatedOrReordered
      OBVIOUS
  <2>1. delivered \o out \in Seq(Nat)
      BY DEF TypeOK
  <2>2. delivered \o out # <<>> => Len(delivered \o out) \in 1..Len(delivered \o out)
      BY <2>1
  <2> QED
      BY <2>2 DEF DeliveryRises, Rising, NeverRepeatedOrReordered
<1> QED
    BY <1>1, <1>2, <1>3, TypeCorrect, PTL DEF Spec

-----------------------------------------------------------------------------

(* A call returns Ok only from the end of the stream, and nothing arrives  *)
(* after it.                                                               *)
OkIsTheEnd == result = "ok" => source = "closed" /\ consumed = received

(* Ok from collect_raw_frames means that the stream ended on a frame       *)
(* boundary.                                                               *)
THEOREM OkIsOnABoundary == Spec => []OkEndsOnFrameBoundary
<1>1. Init => OkIsTheEnd
    BY DEF Init, OkIsTheEnd
<1>2. OkIsTheEnd /\ [Next]_vars => OkIsTheEnd'
    BY DEF OkIsTheEnd, Next, Read, vars, StartCollect, ReadData, ReadEof, ReadClosed, ReadFails,
           CloseSource, Finish, Succeed, Fail
<1>3. OkIsTheEnd /\ ChunkIndependence => OkEndsOnFrameBoundary
    BY DEF OkIsTheEnd, ChunkIndependence, OkEndsOnFrameBoundary
<1> QED
    BY <1>1, <1>2, <1>3, ChunkingDoesNotMatter, PTL DEF Spec

-----------------------------------------------------------------------------

(* Induction in a form that needs no operator: a set of numbers with 0 and *)
(* every successor is all of Nat.                                          *)
LEMMA LeastElement ==
    ASSUME NEW T \in SUBSET Nat, T # {}
    PROVE  \E x \in T : \A y \in T : x <= y
<1> DEFINE Less == OpToRel(<, Nat)
<1>1. IsWellFoundedOn(Less, Nat)
    BY NatLessThanWellFounded
<1>2. \A x \in Nat, y \in Nat : <<x, y>> \in Less <=> x < y
    BY DEF OpToRel
<1> HIDE DEF Less
<1>3. PICK x \in T : \A y \in T : ~(<<y, x>> \in Less)
    BY <1>1, WFMin, Zenon
<1>4. ASSUME NEW y \in T PROVE x <= y
  <2>1. x \in Nat /\ y \in Nat
      OBVIOUS
  <2>2. ~(y < x)
      BY <1>2, <1>3, <2>1, Zenon
  <2> QED
      BY <2>1, <2>2
<1> QED
    BY <1>4

-----------------------------------------------------------------------------

(* The recorded session, frame by frame.                                   *)
LEMMA SessionShape ==
    /\ Len(Recorded) \in Nat
    /\ Pipeline!StreamLen \in Nat
    /\ Recorded # <<>> => Len(Recorded) \in 1..Len(Recorded)
    /\ \A f \in 1..Len(Recorded) :
          /\ Recorded[f].dir \in Pipeline!Directions
          /\ Recorded[f].n \in Nat
          /\ Recorded[f].start \in Nat
          /\ Recorded[f].end \in Nat
          /\ Recorded[f].end > Recorded[f].start + 2
          /\ f = 1 => Recorded[f].start = 0
          /\ f # 1 => f - 1 \in 1..Len(Recorded) /\ Recorded[f].start = Recorded[f - 1].end
<1> DEFINE FrameRecords == [dir : Pipeline!Directions, enc : BOOLEAN, n : Nat, start : Nat, end : Nat]
<1>1. /\ Recorded \in Seq(FrameRecords)
      /\ \A f \in 1..Len(Recorded) :
          /\ Recorded[f].end > Recorded[f].start + 2
          /\ Recorded[f].start = IF f = 1 THEN 0 ELSE Recorded[f - 1].end
    BY RecordedAssumption DEF Pipeline!Sessions, Pipeline!HeaderPieces
<1>2. ASSUME NEW f \in 1..Len(Recorded)
      PROVE  /\ Recorded[f].dir \in Pipeline!Directions
             /\ Recorded[f].n \in Nat
             /\ Recorded[f].start \in Nat
             /\ Recorded[f].end \in Nat
  <2>1. Recorded[f] \in FrameRecords
    <3> HIDE DEF FrameRecords
    <3> QED
        BY <1>1, <1>2
  <2> QED
      BY <2>1
<1> HIDE DEF FrameRecords
<1>3. /\ Len(Recorded) \in Nat
      /\ Recorded # <<>> => Len(Recorded) \in 1..Len(Recorded)
    BY <1>1
<1>4. Pipeline!StreamLen \in Nat
    BY <1>2, <1>3 DEF Pipeline!StreamLen
<1>5. \A f \in 1..Len(Recorded) : f # 1 => f - 1 \in 1..Len(Recorded)
    BY <1>3
<1> QED
    BY <1>1, <1>2, <1>3, <1>4, <1>5

(* Frames do not overlap.                                                  *)
LEMMA FramesInOrder ==
    /\ \A f, g \in 1..Len(Recorded) : f < g => Recorded[f].end <= Recorded[g].start
    /\ \A f \in 1..Len(Recorded) : Recorded[f].end <= Pipeline!StreamLen
<1>1. ASSUME NEW f \in 1..Len(Recorded), NEW g \in 1..Len(Recorded), f < g
      PROVE  Recorded[f].end <= Recorded[g].start
  <2> DEFINE Bad == {h \in f + 1..Len(Recorded) : ~(Recorded[f].end <= Recorded[h].start)}
  <2> SUFFICES ASSUME g \in Bad PROVE FALSE
      BY <1>1, SessionShape
  <2>1. Bad \in SUBSET Nat /\ Bad # {}
    <3>1. f \in Nat /\ f + 1..Len(Recorded) \subseteq Nat
        BY SessionShape
    <3> QED
        BY <3>1
  <2> HIDE DEF Bad
  <2>2. PICK h \in Bad : \A x \in Bad : h <= x
      BY <2>1, LeastElement
  <2>3. /\ h \in f + 1..Len(Recorded)
        /\ ~(Recorded[f].end <= Recorded[h].start)
        /\ h - 1 \notin Bad
    <3>1. h \in Nat /\ ~(h <= h - 1)
        BY <2>1
    <3> QED
        BY <2>2, <3>1 DEF Bad
  <2>4. /\ h \in 1..Len(Recorded) /\ h - 1 \in 1..Len(Recorded) /\ h # 1
        /\ Recorded[h].start = Recorded[h - 1].end
      BY <2>3, SessionShape
  <2>5. h - 1 # f
      BY <2>3, <2>4, SessionShape
  <2>6. Recorded[f].end <= Recorded[h - 1].start
      BY <2>3, <2>5, SessionShape DEF Bad
  <2>7. Recorded[f].end \in Nat /\ Recorded[h - 1].start \in Nat /\ Recorded[h - 1].end \in Nat
        /\ Recorded[h - 1].end > Recorded[h - 1].start + 2
      BY <2>4, SessionShape
  <2>8. ~(Recorded[f].end <= Recorded[h - 1].end)
      BY <2>3, <2>4
  <2> HIDE DEF Bad
  <2> QED
      BY <2>6, <2>7, <2>8
<1>2. ASSUME NEW f \in 1..Len(Recorded) PROVE Recorded[f].end <= Pipeline!StreamLen
  <2> DEFINE N == Len(Recorded)
  <2>1. N \in 1..N /\ N \in Nat /\ Recorded # <<>>
    <3>1. N \in Nat /\ 1 <= N
        BY SessionShape
    <3>2. Recorded = <<>> => N = 0
        OBVIOUS
    <3> QED
        BY <3>1, <3>2
  <2>2. Pipeline!StreamLen = Recorded[N].end
      BY <2>1 DEF Pipeline!StreamLen
  <2>3. f < N => Recorded[f].end <= Recorded[N].start
      BY <1>1, <2>1
  <2>4. /\ Recorded[N].start \in Nat /\ Recorded[N].end \in Nat /\ Recorded[f].end \in Nat
        /\ Recorded[N].end > Recorded[N].start + 2
      BY <2>1, SessionShape
  <2> QED
      BY <2>1, <2>2, <2>3, <2>4
<1> QED
    BY <1>1, <1>2

(* Every byte is of the one frame it lies in.                              *)
LEMMA FrameOfByte ==
    ASSUME NEW k \in Int, NEW f \in 1..Len(Recorded), Recorded[f].start < k, k <= Recorded[f].end
    PROVE  Pipeline!FrameOf(k) = f
<1>1. ASSUME NEW g \in 1..Len(Recorded), Recorded[g].start < k, k <= Recorded[g].end
      PROVE  g = f
  <2>1. /\ g < f => Recorded[g].end <= Recorded[f].start
        /\ f < g => Recorded[f].end <= Recorded[g].start
      BY FramesInOrder
  <2>2. /\ Recorded[g].start \in Nat /\ Recorded[g].end \in Nat
        /\ Recorded[f].start \in Nat /\ Recorded[f].end \in Nat
      BY SessionShape
  <2> QED
      BY <1>1, <2>1, <2>2
<1> QED
    BY <1>1 DEF Pipeline!FrameOf

(* Every byte of the stream is of some frame.                              *)
LEMMA BytesHaveFrames ==
    ASSUME NEW k \in 1..Pipeline!StreamLen
    PROVE  /\ Pipeline!FrameOf(k) \in 1..Len(Recorded)
           /\ Recorded[Pipeline!FrameOf(k)].start < k
           /\ k <= Recorded[Pipeline!FrameOf(k)].end
<1> DEFINE Reach == {f \in 1..Len(Recorded) : k <= Recorded[f].end}
<1>1. k \in Nat /\ 1 <= k /\ k <= Pipeline!StreamLen
    BY SessionShape
<1>2. Recorded # <<>> /\ Len(Recorded) \in 1..Len(Recorded)
      /\ Pipeline!StreamLen = Recorded[Len(Recorded)].end
    BY <1>1, SessionShape DEF Pipeline!StreamLen
<1>3. Reach \in SUBSET Nat /\ Reach # {}
    BY <1>1, <1>2
<1> HIDE DEF Reach
<1>4. PICK f \in Reach : \A g \in Reach : f <= g
    BY <1>3, LeastElement
<1>5. f \in 1..Len(Recorded) /\ k <= Recorded[f].end /\ f - 1 \notin Reach
  <2>1. f \in Nat /\ ~(f <= f - 1)
      BY <1>3
  <2> QED
      BY <1>4, <2>1 DEF Reach
<1>6. Recorded[f].start < k
  <2>1. CASE f = 1
      BY <1>1, <1>5, <2>1, SessionShape
  <2>2. CASE f # 1
    <3>1. f - 1 \in 1..Len(Recorded) /\ Recorded[f].start = Recorded[f - 1].end
        BY <1>5, <2>2, SessionShape
    <3>2. ~(k <= Recorded[f - 1].end) /\ Recorded[f - 1].end \in Nat
        BY <1>5, <3>1, SessionShape DEF Reach
    <3> QED
        BY <1>1, <3>1, <3>2
  <2> QED
      BY <2>1, <2>2
<1>7. Pipeline!FrameOf(k) = f
    BY <1>1, <1>5, <1>6, FrameOfByte
<1> QED
    BY <1>5, <1>6, <1>7

(* A sequence over a set is one over every larger set.                     *)
LEMMA SeqOfMore ==
    ASSUME NEW S, NEW T, S \subseteq T, NEW s \in Seq(S)
    PROVE  s \in Seq(T)
<1>1. Len(s) \in Nat /\ s = [k \in 1..Len(s) |-> s[k]] /\ \A k \in 1..Len(s) : s[k] \in S
    OBVIOUS
<1>2. s \in [1..Len(s) -> T]
    BY <1>1
<1> QED
    BY <1>1, <1>2

(* A stretch of the stream lists its places in order.                      *)
LEMMA StretchShape ==
    ASSUME NEW from \in Nat, NEW to \in Nat, from <= to + 1
    PROVE  /\ Len(Pipeline!Stretch(from, to)) = to - from + 1
           /\ \A k \in 1..to - from + 1 : Pipeline!Stretch(from, to)[k] = from + k - 1
           /\ DOMAIN Pipeline!Stretch(from, to) = 1..to - from + 1
           /\ Pipeline!Stretch(from, to) \in Seq(from..to)
<1> DEFINE s == Pipeline!Stretch(from, to)
<1>1. to - from + 1 \in Nat /\ s = [k \in 1..to - from + 1 |-> from + k - 1]
    BY DEF Pipeline!Stretch
<1>2. \A k \in 1..to - from + 1 : from + k - 1 \in from..to
    OBVIOUS
<1> HIDE DEF s
<1>3. s \in [1..to - from + 1 -> from..to]
    BY <1>1, <1>2
<1>4. Len(s) = to - from + 1 /\ s \in Seq(from..to)
    BY <1>1, <1>3
<1> QED
    BY <1>1, <1>4 DEF s

-----------------------------------------------------------------------------

StreamBytes == 1..Pipeline!StreamLen

RawFrames == Seq(StreamBytes) \ {<<>>}

Failures == {"refused", "incomplete", "mismatch", "decrypt_failed"}

CallRecords ==
    [from : StreamBytes, to : StreamBytes, rest : Seq(StreamBytes),
     result : {"collecting", "decoding", "ok"} \cup Failures, frames : Seq(RawFrames)]

(* The types of the pipeline, and where it stands: only the last call may  *)
(* be running; a frame that is whole stays in the buffer only while frames *)
(* are collected; and what is decoded are the first of those collected.    *)
Shape ==
    /\ counters \in [Pipeline!Directions -> Nat]
    /\ buf \in Seq(StreamBytes)
    /\ raws \in Seq(RawFrames)
    /\ calls \in Seq(CallRecords)
    /\ \A i \in 1..Len(calls) :
        /\ calls[i].from <= calls[i].to
        /\ calls[i].result \in {"ok", "decoding"} \/ calls[i].frames = <<>>
        /\ calls[i].result \in {"collecting", "decoding"} => i = Len(calls)
    /\ ~Pipeline!Collecting => ~Pipeline!Holds(buf)
    /\ ~Pipeline!Collecting /\ ~Pipeline!Decoding => raws = <<>>
    /\ Pipeline!Decoding =>
        /\ buf = <<>>
        /\ Len(Pipeline!Current.frames) <= Len(raws)
        /\ \A k \in 1..Len(Pipeline!Current.frames) : Pipeline!Current.frames[k] = raws[k]

(* Shape contains the type invariant.                                      *)
LEMMA ShapeIsTyped == Shape => Pipeline!TypeOK
<1> SUFFICES ASSUME Shape PROVE Pipeline!TypeOK
    OBVIOUS
<1>1. ASSUME NEW i \in 1..Len(calls)
      PROVE  calls[i].from \in StreamBytes /\ calls[i].to \in StreamBytes
  <2>1. calls[i] \in CallRecords
    <3> HIDE DEF CallRecords
    <3> QED
        BY DEF Shape
  <2> QED
      BY <2>1 DEF CallRecords
<1>2. \A i \in 1..Len(calls) : 1 <= calls[i].from /\ calls[i].to <= Pipeline!StreamLen
    BY <1>1, SessionShape DEF StreamBytes
<1> QED
    BY <1>2 DEF Shape, Pipeline!TypeOK, StreamBytes, RawFrames

(* What a step does to the calls.                                          *)
Begun(from, to) ==
    /\ ~Pipeline!Collecting /\ ~Pipeline!Decoding
    /\ Len(calls') = Len(calls) + 1
    /\ \A i \in 1..Len(calls) : calls'[i] = calls[i]
    /\ calls'[Len(calls) + 1] = [from |-> from, to |-> to, rest |-> buf,
                                 result |-> "collecting", frames |-> <<>>]
    /\ buf' = buf \o Pipeline!Stretch(from, to)
    /\ UNCHANGED <<counters, raws>>

Becomes(res, frames) ==
    /\ Len(calls') = Len(calls)
    /\ \A i \in 1..Len(calls) : i # Len(calls) => calls'[i] = calls[i]
    /\ calls'[Len(calls)].from = calls[Len(calls)].from
    /\ calls'[Len(calls)].to = calls[Len(calls)].to
    /\ calls'[Len(calls)].rest = calls[Len(calls)].rest
    /\ calls'[Len(calls)].result = res
    /\ calls'[Len(calls)].frames = frames

(* The last call is one of the calls.                                      *)
LEMMA LastCall ==
    ASSUME Shape, calls # <<>>
    PROVE  /\ Len(calls) \in 1..Len(calls)
           /\ calls[Len(calls)] \in CallRecords
           /\ Pipeline!Current = calls[Len(calls)]
<1>1. Len(calls) \in Nat /\ Len(calls) # 0
    BY DEF Shape
<1> QED
    BY <1>1 DEF Shape, Pipeline!Current

(* A running call that proceeds changes only its result and its frames.    *)
LEMMA Proceeds ==
    ASSUME Shape, calls # <<>>,
           NEW res \in {"collecting", "decoding", "ok"} \cup Failures,
           NEW frames \in Seq(RawFrames), Pipeline!Proceed(res, frames)
    PROVE  calls' \in Seq(CallRecords) /\ Becomes(res, frames)
<1> DEFINE N == Len(calls)
           r == [calls[N] EXCEPT !.result = res, !.frames = frames]
<1>1. N \in 1..N /\ calls[N] \in CallRecords /\ calls \in Seq(CallRecords)
    BY LastCall DEF Shape
<1>2. /\ r \in CallRecords
      /\ r.from = calls[N].from /\ r.to = calls[N].to /\ r.rest = calls[N].rest
      /\ r.result = res /\ r.frames = frames
    BY <1>1 DEF CallRecords
<1>3. calls' = [calls EXCEPT ![N] = r]
    BY DEF Pipeline!Proceed
<1> DEFINE S == CallRecords
<1> HIDE DEF r
<1>4. calls' \in Seq(CallRecords) /\ Len(calls') = N /\ calls'[N] = r
      /\ \A i \in 1..N : i # N => calls'[i] = calls[i]
  <2> HIDE DEF CallRecords
  <2> QED
      BY <1>1, <1>2, <1>3
<1> QED
    BY <1>2, <1>4 DEF Becomes

(* Run appends a call and its bytes.                                       *)
LEMMA Begins ==
    ASSUME Shape, NEW from \in StreamBytes, NEW to \in from..Pipeline!StreamLen,
           NEW list, NEW directions, Pipeline!Run(from, to, list, directions)
    PROVE  /\ to \in StreamBytes /\ from <= to
           /\ calls' \in Seq(CallRecords) /\ buf' \in Seq(StreamBytes)
           /\ Begun(from, to)
<1> DEFINE r == [from |-> from, to |-> to, rest |-> buf,
                 result |-> "collecting", frames |-> <<>>]
<1>1. from \in Nat /\ to \in Nat /\ from <= to /\ to \in StreamBytes
    BY SessionShape DEF StreamBytes
<1>2. r \in CallRecords
    BY <1>1 DEF CallRecords, Shape
<1>3. calls' = Append(calls, r)
    BY DEF Pipeline!Run
<1> HIDE DEF r
<1>4. /\ calls' \in Seq(CallRecords) /\ Len(calls') = Len(calls) + 1
      /\ calls'[Len(calls) + 1] = r
      /\ \A i \in 1..Len(calls) : calls'[i] = calls[i]
  <2> HIDE DEF CallRecords
  <2> QED
      BY <1>2, <1>3 DEF Shape
<1>5. Pipeline!Stretch(from, to) \in Seq(StreamBytes)
  <2>1. from..to \subseteq StreamBytes
      BY <1>1, SessionShape DEF StreamBytes
  <2>2. Pipeline!Stretch(from, to) \in Seq(from..to)
      BY <1>1, StretchShape
  <2> QED
      BY <2>1, <2>2, SeqOfMore
<1>6. buf' = buf \o Pipeline!Stretch(from, to) /\ UNCHANGED <<counters, raws>>
      /\ ~Pipeline!Collecting /\ ~Pipeline!Decoding
    BY DEF Pipeline!Run
<1>7. buf' \in Seq(StreamBytes)
    BY <1>5, <1>6 DEF Shape
<1> QED
    BY <1>1, <1>4, <1>6, <1>7 DEF Begun, r

(* What the last call became says whether it is running.                   *)
LEMMA Phase ==
    ASSUME Shape, calls # <<>>, NEW res, NEW frames, Becomes(res, frames),
           calls' \in Seq(CallRecords)
    PROVE  /\ calls' # <<>> /\ Len(calls) \in 1..Len(calls)
           /\ (Pipeline!Collecting)' <=> res = "collecting"
           /\ (Pipeline!Decoding)' <=> res = "decoding"
           /\ (Pipeline!Current)'.frames = frames
<1>1. Len(calls) \in 1..Len(calls) /\ Len(calls') = Len(calls) /\ calls' # <<>>
    BY LastCall DEF Becomes
<1>2. (Pipeline!Current)' = calls'[Len(calls)]
    BY <1>1 DEF Pipeline!Current
<1> QED
    BY <1>1, <1>2 DEF Becomes, Pipeline!Collecting, Pipeline!Decoding

(* A call that began is collecting.                                        *)
LEMMA PhaseBegun ==
    ASSUME Shape, NEW from, NEW to, Begun(from, to), calls' \in Seq(CallRecords)
    PROVE  /\ calls' # <<>> /\ Len(calls) \in Nat
           /\ (Pipeline!Collecting)' /\ ~(Pipeline!Decoding)'
<1>1. Len(calls) \in Nat /\ Len(calls') = Len(calls) + 1 /\ calls' # <<>>
    BY DEF Begun, Shape
<1>2. (Pipeline!Current)' = calls'[Len(calls) + 1]
    BY <1>1 DEF Pipeline!Current
<1> QED
    BY <1>1, <1>2 DEF Begun, Pipeline!Collecting, Pipeline!Decoding

(* A header in front of the buffer is that of one frame.                   *)
LEMMA HeaderShape ==
    ASSUME NEW b \in Seq(StreamBytes), Len(b) >= 2, Pipeline!IsHeader(b)
    PROVE  \E f \in 1..Len(Recorded) :
              /\ b[1] = Recorded[f].start + 1
              /\ Pipeline!FrameOf(b[1]) = f
              /\ Pipeline!Total(b) = Recorded[f].end - Recorded[f].start
              /\ Pipeline!Total(b) \in Nat /\ Pipeline!Total(b) > 2
<1>1. PICK f \in 1..Len(Recorded) : b[1] = Recorded[f].start + 1
    BY DEF Pipeline!IsHeader
<1>2. /\ Recorded[f].start \in Nat /\ Recorded[f].end \in Nat
      /\ Recorded[f].end > Recorded[f].start + 2
    BY SessionShape
<1>3. Pipeline!FrameOf(b[1]) = f
    BY <1>1, <1>2, FrameOfByte
<1> QED
    BY <1>1, <1>2, <1>3 DEF Pipeline!Total

(* Draining a whole frame splits the buffer after it.                      *)
LEMMA WholeShape ==
    ASSUME NEW b \in Seq(StreamBytes), Pipeline!Holds(b)
    PROVE  /\ Pipeline!Total(b) \in 3..Len(b)
           /\ SubSeq(b, 1, Pipeline!Total(b)) \in RawFrames
           /\ Len(SubSeq(b, 1, Pipeline!Total(b))) = Pipeline!Total(b)
           /\ SubSeq(b, Pipeline!Total(b) + 1, Len(b)) \in Seq(StreamBytes)
<1>1. Pipeline!Total(b) \in 3..Len(b) /\ Len(b) \in Nat
    BY HeaderShape DEF Pipeline!Holds, Pipeline!HeaderPieces
<1> DEFINE t == Pipeline!Total(b)
           s == SubSeq(b, 1, t)
<1> HIDE DEF t
<1>2. t \in 3..Len(b) /\ t \in Nat
    BY <1>1 DEF t
<1>3. s \in Seq(StreamBytes) /\ Len(s) = t /\ SubSeq(b, t + 1, Len(b)) \in Seq(StreamBytes)
    BY <1>2
<1>4. s # <<>>
    BY <1>2, <1>3
<1> QED
    BY <1>1, <1>3, <1>4 DEF t, RawFrames

(* The frame that is decoded next.                                         *)
LEMMA DecodeShape ==
    ASSUME Shape, Pipeline!DecodeRaw
    PROVE  LET c == calls[Len(calls)]
               i == Len(c.frames) + 1
               f == Recorded[Pipeline!FrameOf(raws[i][1])]
           IN  /\ Pipeline!Decoding /\ calls # <<>> /\ c \in CallRecords
               /\ i \in 1..Len(raws) /\ raws[i] \in RawFrames
               /\ counters' = IF f.enc THEN [counters EXCEPT ![dirs[i]] = @ + 1] ELSE counters
               /\ counters' \in [Pipeline!Directions -> Nat]
               /\ calls' \in Seq(CallRecords) /\ buf' = buf
               /\ \/ f.enc /\ Becomes("decrypt_failed", <<>>) /\ raws' = <<>>
                  \/ /\ f.enc => Pipeline!Opens(raws[i], dirs[i])
                     /\ Append(c.frames, raws[i]) \in Seq(RawFrames)
                     /\ Becomes("decoding", Append(c.frames, raws[i])) /\ raws' = raws
<1> DEFINE c == calls[Len(calls)]
           i == Len(c.frames) + 1
           f == Recorded[Pipeline!FrameOf(raws[i][1])]
<1>1. Pipeline!Decoding /\ calls # <<>>
    BY DEF Pipeline!DecodeRaw, Pipeline!Decoding
<1>2. Pipeline!Current = c /\ c \in CallRecords
    BY <1>1, LastCall
<1>3. c.frames \in Seq(RawFrames)
    BY <1>2 DEF CallRecords
<1> HIDE DEF c
<1>4. i \in 1..Len(raws) /\ raws[i] \in RawFrames
  <2>1. i <= Len(raws)
      BY <1>2 DEF Pipeline!DecodeRaw
  <2>2. i \in Nat /\ i >= 1 /\ Len(raws) \in Nat /\ raws \in Seq(RawFrames)
      BY <1>3 DEF Shape
  <2>3. i \in 1..Len(raws)
      BY <2>1, <2>2
  <2> HIDE DEF i
  <2> QED
      BY <2>2, <2>3
<1>5. Append(c.frames, raws[i]) \in Seq(RawFrames)
  <2> HIDE DEF i
  <2> QED
      BY <1>3, <1>4
<1>6. /\ counters' = IF f.enc THEN [counters EXCEPT ![dirs[i]] = @ + 1] ELSE counters
      /\ buf' = buf
      /\ \/ f.enc /\ Pipeline!Return("decrypt_failed", <<>>)
         \/ /\ f.enc => Pipeline!Opens(raws[i], dirs[i])
            /\ Pipeline!Proceed("decoding", Append(c.frames, raws[i])) /\ raws' = raws
    BY <1>2 DEF Pipeline!DecodeRaw
<1>7. counters' \in [Pipeline!Directions -> Nat]
  <2> HIDE DEF f, i
  <2>1. counters \in [Pipeline!Directions -> Nat]
      BY DEF Shape
  <2> DEFINE d == dirs[i]
  <2> HIDE DEF d
  <2>2. [counters EXCEPT ![d] = @ + 1] \in [Pipeline!Directions -> Nat]
    <3>1. CASE d \in Pipeline!Directions
        BY <2>1, <3>1
    <3>2. CASE d \notin Pipeline!Directions
      <4>1. [counters EXCEPT ![d] = @ + 1] = counters
          BY <2>1, <3>2
      <4> QED
          BY <2>1, <4>1
    <3> QED
        BY <3>1, <3>2
  <2>3. counters' = IF f.enc THEN [counters EXCEPT ![d] = @ + 1] ELSE counters
      BY <1>6 DEF d
  <2>4. counters' = [counters EXCEPT ![d] = @ + 1] \/ counters' = counters
      BY <2>3, Zenon
  <2> QED
      BY <2>1, <2>2, <2>4, Zenon
<1>8. CASE f.enc /\ Pipeline!Return("decrypt_failed", <<>>)
  <2>1. Pipeline!Proceed("decrypt_failed", <<>>) /\ raws' = <<>>
      BY <1>8 DEF Pipeline!Return
  <2>2. calls' \in Seq(CallRecords) /\ Becomes("decrypt_failed", <<>>)
    <3>1. "decrypt_failed" \in {"collecting", "decoding", "ok"} \cup Failures
          /\ <<>> \in Seq(RawFrames)
        BY DEF Failures
    <3> QED
        BY <1>1, <2>1, <3>1, Proceeds
  <2> QED
      BY <1>1, <1>2, <1>4, <1>6, <1>7, <1>8, <2>1, <2>2 DEF c
<1>9. CASE /\ f.enc => Pipeline!Opens(raws[i], dirs[i])
           /\ Pipeline!Proceed("decoding", Append(c.frames, raws[i])) /\ raws' = raws
  <2>1. calls' \in Seq(CallRecords) /\ Becomes("decoding", Append(c.frames, raws[i]))
      BY <1>1, <1>5, <1>9, Proceeds
  <2> QED
      BY <1>1, <1>2, <1>4, <1>5, <1>6, <1>7, <1>9, <2>1 DEF c
<1> QED
    BY <1>6, <1>8, <1>9

(* The ways in which collecting ends.                                      *)
LEMMA CollectedShape ==
    ASSUME Shape, Pipeline!Collected
    PROVE  /\ Pipeline!Collecting /\ calls # <<>> /\ ~Pipeline!Holds(buf)
           /\ calls' \in Seq(CallRecords) /\ UNCHANGED <<buf, counters>>
           /\ \/ Pipeline!Refuses(buf) /\ Becomes("refused", <<>>) /\ raws' = <<>>
              \/ ~Pipeline!Refuses(buf) /\ buf # <<>> /\ Becomes("incomplete", <<>>) /\ raws' = <<>>
              \/ buf = <<>> /\ Becomes("mismatch", <<>>) /\ raws' = <<>>
              \/ buf = <<>> /\ Becomes("decoding", <<>>) /\ raws' = raws
<1>1. /\ Pipeline!Collecting /\ calls # <<>> /\ ~Pipeline!Holds(buf)
      /\ UNCHANGED <<buf, counters>>
    BY DEF Pipeline!Collected, Pipeline!Collecting
<1>2. /\ <<>> \in Seq(RawFrames)
      /\ \A r \in Failures \cup {"decoding"} : r \in {"collecting", "decoding", "ok"} \cup Failures
    OBVIOUS
<1>3. ASSUME NEW r \in Failures \cup {"decoding"}, Pipeline!Proceed(r, <<>>)
      PROVE  calls' \in Seq(CallRecords) /\ Becomes(r, <<>>)
    BY <1>1, <1>2, <1>3, Proceeds
<1>4. {"refused", "incomplete", "mismatch", "decoding"} \subseteq Failures \cup {"decoding"}
    BY DEF Failures
<1>5. CASE Pipeline!Refuses(buf) /\ Pipeline!Return("refused", <<>>)
    BY <1>1, <1>3, <1>4, <1>5 DEF Pipeline!Return
<1>6. CASE ~Pipeline!Refuses(buf) /\ buf # <<>> /\ Pipeline!Return("incomplete", <<>>)
    BY <1>1, <1>3, <1>4, <1>6 DEF Pipeline!Return
<1>7. CASE buf = <<>> /\ Pipeline!Return("mismatch", <<>>)
    BY <1>1, <1>3, <1>4, <1>7 DEF Pipeline!Return
<1>8. CASE buf = <<>> /\ Pipeline!Proceed("decoding", <<>>) /\ raws' = raws
    BY <1>1, <1>3, <1>4, <1>8
<1> QED
    BY <1>5, <1>6, <1>7, <1>8 DEF Pipeline!Collected

(* A call that ends well keeps the frames it decoded.                      *)
LEMMA DecodedShape ==
    ASSUME Shape, Pipeline!Decoded
    PROVE  /\ Pipeline!Decoding /\ calls # <<>>
           /\ calls[Len(calls)] \in CallRecords
           /\ Len(calls[Len(calls)].frames) = Len(raws)
           /\ calls' \in Seq(CallRecords) /\ Becomes("ok", calls[Len(calls)].frames)
           /\ raws' = <<>> /\ UNCHANGED <<buf, counters>>
<1>1. Pipeline!Decoding /\ calls # <<>>
    BY DEF Pipeline!Decoded, Pipeline!Decoding
<1>2. Pipeline!Current = calls[Len(calls)] /\ calls[Len(calls)] \in CallRecords
    BY <1>1, LastCall
<1>3. calls[Len(calls)].frames \in Seq(RawFrames)
    BY <1>2 DEF CallRecords
<1>4. /\ Pipeline!Proceed("ok", calls[Len(calls)].frames) /\ raws' = <<>>
      /\ UNCHANGED <<buf, counters>> /\ Len(calls[Len(calls)].frames) = Len(raws)
    BY <1>2 DEF Pipeline!Decoded, Pipeline!Return
<1>5. calls' \in Seq(CallRecords) /\ Becomes("ok", calls[Len(calls)].frames)
    BY <1>1, <1>3, <1>4, Proceeds
<1> QED
    BY <1>1, <1>2, <1>4, <1>5

(* Of the calls nothing changes but the last.                              *)
LEMMA CallsKept ==
    ASSUME Shape, calls # <<>>, calls' \in Seq(CallRecords),
           NEW res, NEW frames, Becomes(res, frames),
           res \in {"ok", "decoding"} \/ frames = <<>>
    PROVE  \A i \in 1..Len(calls') :
              /\ calls'[i].from <= calls'[i].to
              /\ calls'[i].result \in {"ok", "decoding"} \/ calls'[i].frames = <<>>
              /\ calls'[i].result \in {"collecting", "decoding"} => i = Len(calls')
<1> SUFFICES ASSUME NEW i \in 1..Len(calls)
             PROVE  /\ calls'[i].from <= calls'[i].to
                    /\ calls'[i].result \in {"ok", "decoding"} \/ calls'[i].frames = <<>>
                    /\ calls'[i].result \in {"collecting", "decoding"} => i = Len(calls)
    BY DEF Becomes
<1>1. /\ calls[i].from <= calls[i].to
      /\ calls[i].result \in {"ok", "decoding"} \/ calls[i].frames = <<>>
      /\ calls[i].result \in {"collecting", "decoding"} => i = Len(calls)
    BY DEF Shape
<1>2. CASE i = Len(calls)
    BY <1>1, <1>2 DEF Becomes
<1>3. CASE i # Len(calls)
    BY <1>1, <1>3 DEF Becomes
<1> QED
    BY <1>2, <1>3

(* Run keeps Shape.                                                        *)
LEMMA ShapeBegins ==
    ASSUME Shape, NEW from \in StreamBytes, NEW to \in from..Pipeline!StreamLen,
           NEW list, NEW directions, Pipeline!Run(from, to, list, directions)
    PROVE  Shape'
<1>1. /\ from <= to /\ calls' \in Seq(CallRecords) /\ buf' \in Seq(StreamBytes)
      /\ Begun(from, to)
    BY Begins
<1>2. (Pipeline!Collecting)' /\ ~(Pipeline!Decoding)'
    BY <1>1, PhaseBegun
<1>3. counters' \in [Pipeline!Directions -> Nat] /\ raws' \in Seq(RawFrames)
    BY <1>1 DEF Begun, Shape
<1>4. \A i \in 1..Len(calls) : calls[i].result \notin {"collecting", "decoding"}
  <2>1. calls # <<>> => Pipeline!Current = calls[Len(calls)]
      BY LastCall
  <2>2. calls # <<>> => calls[Len(calls)].result \notin {"collecting", "decoding"}
      BY <1>1, <2>1 DEF Begun, Pipeline!Collecting, Pipeline!Decoding
  <2>3. calls = <<>> => 1..Len(calls) = {}
      OBVIOUS
  <2> QED
      BY <2>2, <2>3 DEF Shape
<1>5. ASSUME NEW i \in 1..Len(calls')
      PROVE  /\ calls'[i].from <= calls'[i].to
             /\ calls'[i].result \in {"ok", "decoding"} \/ calls'[i].frames = <<>>
             /\ calls'[i].result \in {"collecting", "decoding"} => i = Len(calls')
  <2>1. Len(calls) \in Nat /\ Len(calls') = Len(calls) + 1
      BY <1>1 DEF Begun, Shape
  <2>2. CASE i \in 1..Len(calls)
    <3>1. /\ calls[i].from <= calls[i].to
          /\ calls[i].result \in {"ok", "decoding"} \/ calls[i].frames = <<>>
        BY <2>2 DEF Shape
    <3> QED
        BY <1>1, <1>4, <2>2, <3>1 DEF Begun
  <2>3. CASE i = Len(calls) + 1
      BY <1>1, <2>1, <2>3 DEF Begun
  <2> QED
      BY <2>1, <2>2, <2>3
<1> QED
    BY <1>1, <1>2, <1>3, <1>5 DEF Shape

(* DrainFrame keeps Shape.                                                 *)
LEMMA ShapeDrains ==
    ASSUME Shape, Pipeline!DrainFrame
    PROVE  Shape'
<1>1. /\ Pipeline!Collecting /\ calls # <<>> /\ Pipeline!Holds(buf)
      /\ raws' = Append(raws, SubSeq(buf, 1, Pipeline!Total(buf)))
      /\ buf' = SubSeq(buf, Pipeline!Total(buf) + 1, Len(buf))
      /\ UNCHANGED <<counters, calls>>
    BY DEF Pipeline!DrainFrame, Pipeline!Collecting
<1>2. /\ SubSeq(buf, 1, Pipeline!Total(buf)) \in RawFrames
      /\ buf' \in Seq(StreamBytes)
    BY <1>1, WholeShape DEF Shape
<1>3. raws' \in Seq(RawFrames)
    BY <1>1, <1>2 DEF Shape
<1>4. (Pipeline!Collecting)' /\ ~(Pipeline!Decoding)'
    BY <1>1 DEF Pipeline!Collecting, Pipeline!Decoding, Pipeline!Current
<1>5. \A i \in 1..Len(calls') :
        /\ calls'[i].from <= calls'[i].to
        /\ calls'[i].result \in {"ok", "decoding"} \/ calls'[i].frames = <<>>
        /\ calls'[i].result \in {"collecting", "decoding"} => i = Len(calls')
    BY <1>1 DEF Shape
<1>6. counters' \in [Pipeline!Directions -> Nat] /\ calls' \in Seq(CallRecords)
    BY <1>1 DEF Shape
<1> QED
    BY <1>2, <1>3, <1>4, <1>5, <1>6 DEF Shape

(* Collected keeps Shape.                                                  *)
LEMMA ShapeCollected ==
    ASSUME Shape, Pipeline!Collected
    PROVE  Shape'
<1>1. /\ Pipeline!Collecting /\ calls # <<>> /\ ~Pipeline!Holds(buf)
      /\ calls' \in Seq(CallRecords) /\ UNCHANGED <<buf, counters>>
    BY CollectedShape
<1>2. /\ counters' \in [Pipeline!Directions -> Nat]
      /\ buf' \in Seq(StreamBytes) /\ ~(Pipeline!Holds(buf))'
  <2>1. (Pipeline!Holds(buf))' <=> Pipeline!Holds(buf)
      BY <1>1 DEF Pipeline!Holds, Pipeline!IsHeader, Pipeline!Total
  <2> QED
      BY <1>1, <2>1 DEF Shape
<1>3. ASSUME NEW r \in Failures, Becomes(r, <<>>), raws' = <<>>
      PROVE  Shape'
  <2>1. r \notin {"collecting", "decoding"}
      BY DEF Failures
  <2>2. ~(Pipeline!Collecting)' /\ ~(Pipeline!Decoding)'
      BY <1>1, <1>3, <2>1, Phase
  <2>3. \A i \in 1..Len(calls') :
          /\ calls'[i].from <= calls'[i].to
          /\ calls'[i].result \in {"ok", "decoding"} \/ calls'[i].frames = <<>>
          /\ calls'[i].result \in {"collecting", "decoding"} => i = Len(calls')
      BY <1>1, <1>3, CallsKept
  <2>4. raws' \in Seq(RawFrames)
      BY <1>3
  <2> QED
      BY <1>1, <1>2, <1>3, <2>2, <2>3, <2>4 DEF Shape
<1>4. ASSUME buf = <<>>, Becomes("decoding", <<>>), raws' = raws
      PROVE  Shape'
  <2>1. ~(Pipeline!Collecting)' /\ (Pipeline!Decoding)' /\ (Pipeline!Current)'.frames = <<>>
      BY <1>1, <1>4, Phase
  <2>2. \A i \in 1..Len(calls') :
          /\ calls'[i].from <= calls'[i].to
          /\ calls'[i].result \in {"ok", "decoding"} \/ calls'[i].frames = <<>>
          /\ calls'[i].result \in {"collecting", "decoding"} => i = Len(calls')
      BY <1>1, <1>4, CallsKept
  <2>3. raws' \in Seq(RawFrames) /\ Len(raws') \in Nat
      BY <1>4 DEF Shape
  <2>4. /\ buf' = <<>>
        /\ Len((Pipeline!Current)'.frames) <= Len(raws')
        /\ \A k \in 1..Len((Pipeline!Current)'.frames) : (Pipeline!Current)'.frames[k] = raws'[k]
      BY <1>1, <1>4, <2>1, <2>3
  <2> QED
      BY <1>1, <1>2, <2>1, <2>2, <2>3, <2>4 DEF Shape
<1> QED
    BY <1>3, <1>4, CollectedShape DEF Failures

(* DecodeRaw keeps Shape.                                                  *)
LEMMA ShapeDecodes ==
    ASSUME Shape, Pipeline!DecodeRaw
    PROVE  Shape'
<1> DEFINE c == calls[Len(calls)]
           i == Len(c.frames) + 1
           taken == Append(c.frames, raws[i])
<1>1. /\ Pipeline!Decoding /\ calls # <<>> /\ c \in CallRecords
      /\ i \in 1..Len(raws)
      /\ counters' \in [Pipeline!Directions -> Nat]
      /\ calls' \in Seq(CallRecords) /\ buf' = buf
      /\ \/ Becomes("decrypt_failed", <<>>) /\ raws' = <<>>
         \/ Becomes("decoding", taken) /\ raws' = raws
    BY DecodeShape
<1>2. /\ c.frames \in Seq(RawFrames) /\ Pipeline!Current = c
      /\ buf = <<>> /\ buf' = <<>> /\ buf' \in Seq(StreamBytes)
      /\ \A k \in 1..Len(c.frames) : c.frames[k] = raws[k]
    BY <1>1, LastCall DEF Shape, CallRecords
<1> HIDE DEF c
<1>3. ~(Pipeline!Holds(buf))'
    BY <1>2 DEF Pipeline!Holds, Pipeline!HeaderPieces
<1>4. CASE Becomes("decrypt_failed", <<>>) /\ raws' = <<>>
  <2>1. ~(Pipeline!Collecting)' /\ ~(Pipeline!Decoding)'
      BY <1>1, <1>4, Phase
  <2>2. \A k \in 1..Len(calls') :
          /\ calls'[k].from <= calls'[k].to
          /\ calls'[k].result \in {"ok", "decoding"} \/ calls'[k].frames = <<>>
          /\ calls'[k].result \in {"collecting", "decoding"} => k = Len(calls')
      BY <1>1, <1>4, CallsKept
  <2>3. raws' \in Seq(RawFrames)
      BY <1>4
  <2> QED
      BY <1>1, <1>2, <1>3, <1>4, <2>1, <2>2, <2>3 DEF Shape
<1>5. CASE Becomes("decoding", taken) /\ raws' = raws
  <2>1. ~(Pipeline!Collecting)' /\ (Pipeline!Decoding)' /\ (Pipeline!Current)'.frames = taken
      BY <1>1, <1>5, Phase
  <2>2. \A k \in 1..Len(calls') :
          /\ calls'[k].from <= calls'[k].to
          /\ calls'[k].result \in {"ok", "decoding"} \/ calls'[k].frames = <<>>
          /\ calls'[k].result \in {"collecting", "decoding"} => k = Len(calls')
      BY <1>1, <1>5, CallsKept
  <2>3. raws' \in Seq(RawFrames) /\ Len(raws') \in Nat
      BY <1>5 DEF Shape
  <2>4. Len(taken) = i /\ \A k \in 1..i : taken[k] = IF k = i THEN raws[i] ELSE c.frames[k]
    <3> DEFINE x == raws[i]
    <3> HIDE DEF x
    <3>1. Append(c.frames, x) = [k \in 1..Len(c.frames) + 1 |->
                                    IF k = Len(c.frames) + 1 THEN x ELSE c.frames[k]]
        BY <1>2
    <3>2. Len(c.frames) \in Nat
        BY <1>2
    <3> QED
        BY <1>2, <3>1, <3>2 DEF x
  <2>5. Len(taken) <= Len(raws) /\ \A k \in 1..Len(taken) : taken[k] = raws[k]
    <3>1. Len(c.frames) \in Nat /\ Len(raws) \in Nat
        BY <1>2, <1>5, <2>3
    <3> HIDE DEF taken
    <3>2. i <= Len(raws)
        BY <1>1, <3>1
    <3>3. ASSUME NEW k \in 1..i PROVE taken[k] = raws[k]
      <4>1. CASE k = i
          BY <2>4, <4>1
      <4>2. CASE k # i
        <5>1. k \in 1..Len(c.frames)
            BY <3>1, <4>2
        <5> QED
            BY <1>2, <2>4, <4>2, <5>1
      <4> QED
          BY <4>1, <4>2
    <3> HIDE DEF i
    <3> QED
        BY <2>4, <3>2, <3>3
  <2> HIDE DEF taken
  <2> QED
      BY <1>1, <1>2, <1>3, <1>5, <2>1, <2>2, <2>3, <2>5 DEF Shape
<1> QED
    BY <1>1, <1>4, <1>5

(* Decoded keeps Shape.                                                    *)
LEMMA ShapeReturns ==
    ASSUME Shape, Pipeline!Decoded
    PROVE  Shape'
<1>1. /\ Pipeline!Decoding /\ calls # <<>>
      /\ calls' \in Seq(CallRecords) /\ Becomes("ok", calls[Len(calls)].frames)
      /\ raws' = <<>> /\ UNCHANGED <<buf, counters>>
    BY DecodedShape
<1>2. ~(Pipeline!Collecting)' /\ ~(Pipeline!Decoding)'
    BY <1>1, Phase
<1>3. \A i \in 1..Len(calls') :
        /\ calls'[i].from <= calls'[i].to
        /\ calls'[i].result \in {"ok", "decoding"} \/ calls'[i].frames = <<>>
        /\ calls'[i].result \in {"collecting", "decoding"} => i = Len(calls')
    BY <1>1, CallsKept
<1>4. /\ buf' = <<>> /\ buf' \in Seq(StreamBytes) /\ raws' \in Seq(RawFrames)
      /\ counters' \in [Pipeline!Directions -> Nat]
    BY <1>1 DEF Shape
<1>5. ~(Pipeline!Holds(buf))'
    BY <1>4 DEF Pipeline!Holds, Pipeline!HeaderPieces
<1> QED
    BY <1>1, <1>2, <1>3, <1>4, <1>5 DEF Shape

(* A step of the pipeline is one of these.                                 *)
LEMMA PipelineSteps ==
    ASSUME Pipeline!Next
    PROVE  \/ \E from \in StreamBytes : \E to \in from..Pipeline!StreamLen :
                 \E list, directions : Pipeline!Run(from, to, list, directions)
           \/ Pipeline!DrainFrame \/ Pipeline!Collected
           \/ Pipeline!DecodeRaw \/ Pipeline!Decoded
<1>1. ASSUME NEW from \in Pipeline!Beginnings, NEW to \in from..Pipeline!StreamLen,
             Pipeline!RunDirected(from, to) \/ Pipeline!RunUnidirectional(from, to)
      PROVE  /\ from \in StreamBytes
             /\ \E list, directions : Pipeline!Run(from, to, list, directions)
  <2>1. ASSUME NEW f \in 1..Len(Recorded), from = Recorded[f].start + 1
        PROVE  from \in StreamBytes
    <3>1. /\ Recorded[f].start \in Nat /\ Recorded[f].end \in Nat
          /\ Recorded[f].end > Recorded[f].start + 2
          /\ Recorded[f].end <= Pipeline!StreamLen /\ Pipeline!StreamLen \in Nat
        BY SessionShape, FramesInOrder
    <3> QED
        BY <2>1, <3>1 DEF StreamBytes
  <2>2. from \in StreamBytes
      BY <2>1 DEF Pipeline!Beginnings, StreamBytes
  <2>3. \E list, directions : Pipeline!Run(from, to, list, directions)
      BY <1>1 DEF Pipeline!RunDirected, Pipeline!RunUnidirectional
  <2> QED
      BY <2>2, <2>3
<1> QED
    BY <1>1 DEF Pipeline!Next

(* Every step keeps Shape.                                                 *)
LEMMA ShapeKept == Shape /\ [Pipeline!Next]_pipelineVars => Shape'
<1> SUFFICES ASSUME Shape, [Pipeline!Next]_pipelineVars PROVE Shape'
    OBVIOUS
<1>1. CASE UNCHANGED pipelineVars
    BY <1>1 DEF pipelineVars, Shape, Pipeline!Holds, Pipeline!IsHeader, Pipeline!Total,
                Pipeline!Collecting, Pipeline!Decoding, Pipeline!Current
<1>2. CASE Pipeline!Next
    BY <1>2, PipelineSteps, ShapeBegins, ShapeDrains, ShapeCollected, ShapeDecodes, ShapeReturns
<1> QED
    BY <1>1, <1>2

-----------------------------------------------------------------------------

(* Once a source was refused, what was refused is in front of the buffer,  *)
(* and no call gets beyond it.                                             *)
RefusedStays ==
    /\ Pipeline!RefusalIsFinal
    /\ \A i \in 1..Len(calls) :
        calls[i].result = "refused" => Pipeline!Refuses(buf) /\ raws = <<>>

(* Bytes behind those that were refused change nothing.                    *)
LEMMA RefusedLonger ==
    ASSUME NEW b \in Seq(StreamBytes), NEW s \in Seq(StreamBytes), Pipeline!Refuses(b)
    PROVE  Pipeline!Refuses(b \o s)
<1>1. Len(b) >= 2 /\ Len(b) \in Nat /\ ~Pipeline!IsHeader(b)
    BY DEF Pipeline!Refuses, Pipeline!HeaderPieces
<1>2. Len(b \o s) >= 2 /\ (b \o s)[1] = b[1] /\ (b \o s)[2] = b[2]
    BY <1>1
<1> QED
    BY <1>1, <1>2 DEF Pipeline!Refuses, Pipeline!HeaderPieces, Pipeline!IsHeader

(* A call that ends, or goes on, with a result other than "refused" when   *)
(* none was refused.                                                       *)
LEMMA NoneRefused ==
    ASSUME Shape, calls # <<>>, calls' \in Seq(CallRecords),
           \A i \in 1..Len(calls) : calls[i].result # "refused",
           NEW res, NEW frames, Becomes(res, frames), res # "refused"
    PROVE  RefusedStays'
<1>1. ASSUME NEW i \in 1..Len(calls') PROVE calls'[i].result # "refused"
    BY <1>1 DEF Becomes
<1> QED
    BY <1>1 DEF RefusedStays, Pipeline!RefusalIsFinal

(* Every step keeps RefusedStays.                                          *)
LEMMA RefusedKept == Shape /\ RefusedStays /\ [Pipeline!Next]_pipelineVars => RefusedStays'
<1> SUFFICES ASSUME Shape, RefusedStays, [Pipeline!Next]_pipelineVars PROVE RefusedStays'
    OBVIOUS
<1>0. Len(calls) \in Nat
    BY DEF Shape
<1>1. CASE UNCHANGED pipelineVars
    BY <1>1 DEF pipelineVars, RefusedStays, Pipeline!RefusalIsFinal, Pipeline!Refuses, Pipeline!IsHeader
<1>2. ASSUME NEW from \in StreamBytes, NEW to \in from..Pipeline!StreamLen, NEW list, NEW directions,
             Pipeline!Run(from, to, list, directions)
      PROVE  RefusedStays'
  <2>1. Begun(from, to) /\ from \in Nat /\ to \in Nat /\ from <= to
      BY <1>2, Begins, SessionShape DEF StreamBytes
  <2>2. Pipeline!Stretch(from, to) \in Seq(StreamBytes)
    <3>1. from..to \subseteq StreamBytes
        BY <1>2, <2>1, SessionShape DEF StreamBytes
    <3>2. Pipeline!Stretch(from, to) \in Seq(from..to)
        BY <2>1, StretchShape
    <3> QED
        BY <3>1, <3>2, SeqOfMore
  <2>3. ASSUME NEW i \in 1..Len(calls'), calls'[i].result = "refused"
        PROVE  /\ (Pipeline!Refuses(buf))' /\ raws' = <<>>
               /\ \A j \in i..Len(calls') : calls'[j].result \in {"refused", "collecting"}
    <3>1. i \in 1..Len(calls) /\ calls[i].result = "refused"
        BY <1>0, <2>1, <2>3 DEF Begun
    <3>2. Pipeline!Refuses(buf) /\ raws = <<>>
        BY <3>1 DEF RefusedStays
    <3>3. Pipeline!Refuses(buf \o Pipeline!Stretch(from, to))
        BY <2>2, <3>2, RefusedLonger DEF Shape
    <3>4. ASSUME NEW j \in i..Len(calls') PROVE calls'[j].result \in {"refused", "collecting"}
      <4>1. CASE j \in i..Len(calls)
        <5>1. calls[j].result \in {"refused", "collecting"}
            BY <3>1, <4>1 DEF RefusedStays, Pipeline!RefusalIsFinal
        <5>2. j \in 1..Len(calls)
            BY <1>0, <3>1, <4>1
        <5> QED
            BY <2>1, <5>1, <5>2 DEF Begun
      <4>2. CASE j = Len(calls) + 1
          BY <2>1, <4>2 DEF Begun
      <4> QED
          BY <1>0, <2>1, <3>1, <4>1, <4>2 DEF Begun
    <3>5. buf' = buf \o Pipeline!Stretch(from, to) /\ raws' = raws
        BY <2>1 DEF Begun
    <3>6. (Pipeline!Refuses(buf))'
        BY <3>3, <3>5 DEF Pipeline!Refuses, Pipeline!IsHeader
    <3> QED
        BY <3>2, <3>4, <3>5, <3>6
  <2> QED
      BY <2>3 DEF RefusedStays, Pipeline!RefusalIsFinal
<1>3. CASE Pipeline!DrainFrame
  <2>1. Pipeline!Holds(buf) /\ calls' = calls
      BY <1>3 DEF Pipeline!DrainFrame
  <2>2. ~Pipeline!Refuses(buf)
      BY <2>1 DEF Pipeline!Holds, Pipeline!Refuses
  <2> QED
      BY <2>1, <2>2 DEF RefusedStays, Pipeline!RefusalIsFinal
<1>4. CASE Pipeline!Collected
  <2>1. /\ calls # <<>> /\ calls' \in Seq(CallRecords) /\ buf' = buf
        /\ \/ Pipeline!Refuses(buf) /\ Becomes("refused", <<>>) /\ raws' = <<>>
           \/ ~Pipeline!Refuses(buf) /\ Becomes("incomplete", <<>>)
           \/ buf = <<>> /\ Becomes("mismatch", <<>>)
           \/ buf = <<>> /\ Becomes("decoding", <<>>)
      BY <1>4, CollectedShape
  <2>2. CASE Pipeline!Refuses(buf) /\ Becomes("refused", <<>>) /\ raws' = <<>>
    <3>1. (Pipeline!Refuses(buf))'
        BY <2>1, <2>2 DEF Pipeline!Refuses, Pipeline!IsHeader
    <3>2. ASSUME NEW i \in 1..Len(calls'), NEW j \in i..Len(calls'), calls'[i].result = "refused"
          PROVE  calls'[j].result \in {"refused", "collecting"}
      <4>1. CASE j = Len(calls)
          BY <2>2, <4>1 DEF Becomes
      <4>2. CASE j # Len(calls)
        <5>1. /\ i \in 1..Len(calls) /\ j \in 1..Len(calls) /\ i # Len(calls)
              /\ j \in i..Len(calls)
            BY <1>0, <2>2, <4>2 DEF Becomes
        <5> QED
            BY <2>2, <3>2, <4>2, <5>1 DEF Becomes, RefusedStays, Pipeline!RefusalIsFinal
      <4> QED
          BY <4>1, <4>2
    <3> QED
        BY <2>2, <3>1, <3>2 DEF RefusedStays, Pipeline!RefusalIsFinal
  <2>3. CASE ~Pipeline!Refuses(buf)
    <3>1. \A i \in 1..Len(calls) : calls[i].result # "refused"
        BY <2>3 DEF RefusedStays
    <3> QED
        BY <2>1, <2>3, <3>1, NoneRefused
  <2>4. buf = <<>> => ~Pipeline!Refuses(buf)
      BY DEF Pipeline!Refuses, Pipeline!HeaderPieces
  <2> QED
      BY <2>1, <2>2, <2>3, <2>4
<1>5. ASSUME Pipeline!Decoding PROVE \A i \in 1..Len(calls) : calls[i].result # "refused"
  <2>1. calls # <<>> /\ Len(calls) \in 1..Len(calls) /\ calls[Len(calls)].result = "decoding"
      BY <1>5, LastCall DEF Pipeline!Decoding
  <2>2. \A i \in 1..Len(calls) : Len(calls) \in i..Len(calls)
      BY <1>0
  <2> QED
      BY <2>1, <2>2 DEF RefusedStays, Pipeline!RefusalIsFinal
<1>6. CASE Pipeline!DecodeRaw
    BY <1>5, <1>6, DecodeShape, NoneRefused
<1>7. CASE Pipeline!Decoded
    BY <1>5, <1>7, DecodedShape, NoneRefused
<1> QED
    BY <1>1, <1>2, <1>3, <1>4, <1>6, <1>7, PipelineSteps

-----------------------------------------------------------------------------

(* The first frame of a call that began with a rest in the buffer consists *)
(* of this rest and goes on with the bytes of the call.                    *)
LeadsWith(raw, rest, from) ==
    /\ Len(rest) < Len(raw)
    /\ raw[Len(rest)] = rest[Len(rest)]
    /\ raw[Len(rest) + 1] = from

Enc(raw) == Recorded[Pipeline!FrameOf(raw[1])].enc

(* What the call c has collected, or begun to, when there was a rest.      *)
Led(c) ==
    /\ c.result = "collecting" /\ raws = <<>> =>
            buf = c.rest \o Pipeline!Stretch(c.from, c.to)
    /\ c.result \in {"collecting", "decoding"} /\ c.rest # <<>> /\ raws # <<>> =>
            LeadsWith(raws[1], c.rest, c.from)
    /\ c.result = "decoding" /\ c.rest # <<>> => raws # <<>>

(* A rest is no whole frame; of the frames a call returns those encrypted  *)
(* were as the session had them, and the first one leads with the rest.    *)
CallShows(c) ==
    /\ ~Pipeline!Holds(c.rest)
    /\ \A k \in 1..Len(c.frames) : Enc(c.frames[k]) => Pipeline!Genuine(c.frames[k])
    /\ c.result = "ok" /\ c.rest # <<>> =>
          /\ c.frames # <<>>
          /\ LeadsWith(c.frames[1], c.rest, c.from)

RestShows ==
    /\ \A i \in 1..Len(calls) : CallShows(calls[i])
    /\ calls # <<>> => Led(calls[Len(calls)])

(* The types of what a call was fed and gave.                              *)
LEMMA CallShape ==
    ASSUME Shape, NEW i \in 1..Len(calls)
    PROVE  /\ calls[i].from \in StreamBytes /\ calls[i].to \in StreamBytes
           /\ calls[i].rest \in Seq(StreamBytes) /\ calls[i].frames \in Seq(RawFrames)
           /\ calls[i].from <= calls[i].to
           /\ Pipeline!Stretch(calls[i].from, calls[i].to) \in Seq(StreamBytes)
           /\ Len(Pipeline!Stretch(calls[i].from, calls[i].to)) \in Nat \ {0}
           /\ Pipeline!Stretch(calls[i].from, calls[i].to)[1] = calls[i].from
<1>1. calls[i] \in CallRecords
  <2> HIDE DEF CallRecords
  <2> QED
      BY DEF Shape
<1>2. /\ calls[i].from \in StreamBytes /\ calls[i].to \in StreamBytes
      /\ calls[i].rest \in Seq(StreamBytes) /\ calls[i].frames \in Seq(RawFrames)
    BY <1>1 DEF CallRecords
<1>3. calls[i].from <= calls[i].to
    BY DEF Shape
<1> DEFINE from == calls[i].from
           to == calls[i].to
<1> HIDE DEF from, to
<1>4. from \in Nat /\ to \in Nat /\ from <= to /\ from <= to + 1 /\ from..to \subseteq StreamBytes
    BY <1>2, <1>3, SessionShape DEF from, to, StreamBytes
<1>5. /\ Pipeline!Stretch(from, to) \in Seq(from..to)
      /\ Len(Pipeline!Stretch(from, to)) = to - from + 1
      /\ \A k \in 1..to - from + 1 : Pipeline!Stretch(from, to)[k] = from + k - 1
    BY <1>4, StretchShape
<1>6. Pipeline!Stretch(from, to) \in Seq(StreamBytes)
    BY <1>4, <1>5, SeqOfMore
<1>7. to - from + 1 \in Nat \ {0} /\ 1 \in 1..to - from + 1 /\ from + 1 - 1 = from
    BY <1>4
<1>8. Pipeline!Stretch(from, to)[1] = from
    BY <1>5, <1>7
<1> QED
    BY <1>2, <1>3, <1>5, <1>6, <1>7, <1>8 DEF from, to

(* The frame that is drained first leads with the rest.                    *)
LEMMA FirstLeads ==
    ASSUME NEW rest \in Seq(StreamBytes), rest # <<>>, ~Pipeline!Holds(rest),
           NEW s \in Seq(StreamBytes), s # <<>>, Pipeline!Holds(rest \o s)
    PROVE  LeadsWith(SubSeq(rest \o s, 1, Pipeline!Total(rest \o s)), rest, s[1])
<1> DEFINE b == rest \o s
           n == Len(rest)
<1>1. /\ b \in Seq(StreamBytes) /\ n \in Nat /\ n >= 1 /\ Len(s) \in Nat /\ Len(s) >= 1
      /\ Len(b) = n + Len(s) /\ b[n + 1] = s[1]
      /\ \A k \in 1..n : b[k] = rest[k]
    OBVIOUS
<1> HIDE DEF b
<1>2. Pipeline!Total(b) \in 3..Len(b)
    BY <1>1, WholeShape DEF b
<1>3. n < Pipeline!Total(b)
  <2>1. CASE n < 2
      BY <1>1, <1>2, <2>1
  <2>2. CASE n >= 2
    <3>1. b[1] = rest[1] /\ b[2] = rest[2]
        BY <1>1, <2>2
    <3>2. Pipeline!IsHeader(rest) /\ Pipeline!Total(rest) = Pipeline!Total(b)
        BY <3>1 DEF b, Pipeline!Holds, Pipeline!IsHeader, Pipeline!Total
    <3>3. ~(n >= Pipeline!Total(rest))
        BY <2>2, <3>2 DEF Pipeline!Holds, Pipeline!HeaderPieces
    <3> QED
        BY <1>1, <1>2, <3>2, <3>3
  <2> QED
      BY <1>1, <2>1, <2>2
<1> DEFINE t == Pipeline!Total(b)
           raw == SubSeq(b, 1, t)
<1> HIDE DEF t, n
<1>4. t \in Nat /\ t <= Len(b) /\ n < t /\ n >= 1 /\ n \in Nat /\ Len(b) \in Nat
    BY <1>1, <1>2, <1>3 DEF t
<1>5. /\ Len(raw) = t
      /\ \A k \in 1..t : raw[k] = b[k]
    BY <1>1, <1>4
<1>6. n \in 1..t /\ n + 1 \in 1..t /\ n \in 1..n
    BY <1>4
<1>7. raw[n] = b[n] /\ raw[n + 1] = b[n + 1] /\ b[n] = rest[n] /\ b[n + 1] = s[1]
    BY <1>1, <1>5, <1>6
<1> QED
    BY <1>4, <1>5, <1>7 DEF LeadsWith, b, t, n

(* A genuine frame that leads with a rest shows that the call went on      *)
(* where the rest ended.                                                   *)
LEMMA GenuineContinues ==
    ASSUME NEW raw \in RawFrames, NEW rest \in Seq(StreamBytes), rest # <<>>, NEW from,
           LeadsWith(raw, rest, from), Pipeline!Genuine(raw)
    PROVE  Pipeline!Continues(rest, from)
<1> DEFINE n == Len(rest)
           f == Pipeline!FrameOf(raw[1])
           start == Recorded[f].start
           end == Recorded[f].end
<1>1. raw[1] \in StreamBytes
    BY DEF RawFrames
<1>2. f \in 1..Len(Recorded) /\ start \in Nat /\ end \in Nat /\ end > start + 2
    BY <1>1, BytesHaveFrames, SessionShape DEF StreamBytes
<1>3. n \in Nat /\ n >= 1
    OBVIOUS
<1> HIDE DEF f, n
<1>4. raw = Pipeline!Stretch(start + 1, end)
    BY DEF f, Pipeline!Genuine, Pipeline!PiecesOf
<1> HIDE DEF start, end
<1>5. /\ Len(raw) = end - (start + 1) + 1
      /\ \A k \in 1..end - (start + 1) + 1 : raw[k] = start + 1 + k - 1
  <2>1. start + 1 \in Nat /\ start + 1 <= end + 1
      BY <1>2
  <2> QED
      BY <1>2, <1>4, <2>1, StretchShape
<1>6. n < Len(raw) /\ raw[n] = rest[n] /\ raw[n + 1] = from
    BY DEF LeadsWith, n
<1>7. n \in 1..end - (start + 1) + 1 /\ n + 1 \in 1..end - (start + 1) + 1
    BY <1>2, <1>3, <1>5, <1>6
<1>8. rest[n] = start + n /\ from = start + n + 1
    BY <1>2, <1>3, <1>5, <1>6, <1>7
<1>9. Pipeline!FrameOf(start + n) = f /\ Pipeline!FrameOf(start + n + 1) = f
  <2>1. start + n \in Int /\ start < start + n /\ start + n <= end
        /\ start + n + 1 \in Int /\ start < start + n + 1 /\ start + n + 1 <= end
      BY <1>2, <1>3, <1>7
  <2> QED
      BY <1>2, <2>1, FrameOfByte DEF start, end
<1>10. from = rest[n] + 1
    BY <1>2, <1>3, <1>8
<1> QED
    BY <1>8, <1>9, <1>10 DEF n, Pipeline!Continues

(* What CallShows says of every call is that no rest goes unnoticed.       *)
LEMMA RestSurfaced == Shape /\ RestShows => Pipeline!RestSurfaces
<1> SUFFICES ASSUME Shape, RestShows, NEW i \in 1..Len(calls),
                    calls[i].result = "ok", calls[i].rest # <<>>,
                    ~Pipeline!Continues(calls[i].rest, calls[i].from)
             PROVE  /\ calls[i].frames # <<>>
                    /\ ~Pipeline!Genuine(calls[i].frames[1])
                    /\ ~Enc(calls[i].frames[1])
    BY DEF Pipeline!RestSurfaces, Pipeline!Ok, Pipeline!SessionFrame, Enc
<1>1. /\ calls[i].frames # <<>>
      /\ LeadsWith(calls[i].frames[1], calls[i].rest, calls[i].from)
      /\ \A k \in 1..Len(calls[i].frames) :
            Enc(calls[i].frames[k]) => Pipeline!Genuine(calls[i].frames[k])
    BY DEF RestShows, CallShows
<1>2. calls[i].rest \in Seq(StreamBytes) /\ calls[i].frames \in Seq(RawFrames)
    BY CallShape
<1>3. 1 \in 1..Len(calls[i].frames) /\ calls[i].frames[1] \in RawFrames
  <2> HIDE DEF RawFrames
  <2> QED
      BY <1>1, <1>2
<1>4. ~Pipeline!Genuine(calls[i].frames[1])
    BY <1>1, <1>2, <1>3, GenuineContinues
<1> QED
    BY <1>1, <1>3, <1>4

(* What is said of the next calls holds of the calls in the next state.    *)
LEMMA ShowsNext ==
    (\A i \in 1..Len(calls') : CallShows(calls'[i]))
        => (\A i \in 1..Len(calls) : CallShows(calls[i]))'
BY DEF CallShows, Pipeline!Holds, Pipeline!IsHeader, Pipeline!Total, Pipeline!FrameOf, Enc,
       Pipeline!Genuine, Pipeline!PiecesOf, Pipeline!Stretch, LeadsWith

(* The calls after the last one became something with these frames.        *)
LEMMA RestBecomes ==
    ASSUME Shape, RestShows, calls # <<>>, calls' \in Seq(CallRecords),
           NEW res, NEW frames, Becomes(res, frames),
           \A k \in 1..Len(frames) : Enc(frames[k]) => Pipeline!Genuine(frames[k]),
           res = "ok" /\ calls[Len(calls)].rest # <<>> =>
              /\ frames # <<>>
              /\ LeadsWith(frames[1], calls[Len(calls)].rest, calls[Len(calls)].from),
           Led(calls[Len(calls)])'
    PROVE  RestShows'
<1>1. Len(calls) \in 1..Len(calls) /\ Len(calls') = Len(calls)
    BY LastCall DEF Becomes
<1>2. ASSUME NEW i \in 1..Len(calls') PROVE CallShows(calls'[i])
  <2>1. CASE i = Len(calls)
    <3>1. calls'[i].rest = calls[i].rest /\ calls'[i].from = calls[i].from
          /\ calls'[i].result = res /\ calls'[i].frames = frames
        BY <2>1 DEF Becomes
    <3>2. ~Pipeline!Holds(calls[i].rest)
        BY <1>1, <2>1 DEF RestShows, CallShows
    <3> QED
        BY <2>1, <3>1, <3>2 DEF CallShows
  <2>2. CASE i # Len(calls)
    <3>1. i \in 1..Len(calls) /\ calls'[i] = calls[i]
        BY <1>1, <2>2 DEF Becomes
    <3> QED
        BY <3>1 DEF RestShows
  <2> QED
      BY <2>1, <2>2
<1>3. (\A i \in 1..Len(calls) : CallShows(calls[i]))'
    BY <1>2, ShowsNext
<1> QED
    BY <1>3 DEF RestShows

(* Every step keeps RestShows.                                             *)
LEMMA RestKept == Shape /\ RestShows /\ [Pipeline!Next]_pipelineVars => RestShows'
<1> SUFFICES ASSUME Shape, RestShows, [Pipeline!Next]_pipelineVars PROVE RestShows'
    OBVIOUS
<1> DEFINE N == Len(calls)
           c == calls[N]
<1>0. /\ N \in Nat
      /\ calls # <<>> => N \in 1..N /\ Pipeline!Current = c /\ Led(c)
    BY LastCall DEF Shape, RestShows
<1>1. CASE UNCHANGED pipelineVars
  <2>1. calls' = calls /\ buf' = buf /\ raws' = raws
      BY <1>1 DEF pipelineVars
  <2>2. (\A i \in 1..Len(calls) : CallShows(calls[i]))'
      BY <2>1, ShowsNext DEF RestShows
  <2>3. calls' # <<>> => (Led(calls[Len(calls)]))'
      BY <2>1 DEF RestShows, Led, LeadsWith, Pipeline!Stretch
  <2> QED
      BY <2>2, <2>3 DEF RestShows
<1>2. ASSUME NEW from \in StreamBytes, NEW to \in from..Pipeline!StreamLen, NEW list, NEW directions,
             Pipeline!Run(from, to, list, directions)
      PROVE  RestShows'
  <2>1. Begun(from, to) /\ calls' \in Seq(CallRecords)
      BY <1>2, Begins
  <2> DEFINE new == calls'[N + 1]
  <2>2. /\ N + 1 \in Nat /\ Len(calls') = N + 1
        /\ new.from = from /\ new.to = to /\ new.rest = buf
        /\ new.result = "collecting" /\ new.frames = <<>>
        /\ buf' = buf \o Pipeline!Stretch(from, to) /\ raws' = raws
        /\ \A i \in 1..N : calls'[i] = calls[i]
      BY <1>0, <2>1 DEF Begun
  <2>3. raws = <<>> /\ ~Pipeline!Holds(buf)
      BY <2>1 DEF Begun, Shape
  <2>4. ASSUME NEW i \in 1..Len(calls') PROVE CallShows(calls'[i])
    <3>1. CASE i = N + 1
        BY <2>2, <2>3, <3>1 DEF CallShows
    <3>2. CASE i # N + 1
      <4>1. i \in 1..N /\ calls'[i] = calls[i]
          BY <1>0, <2>2, <3>2
      <4> QED
          BY <4>1 DEF RestShows
    <3> QED
        BY <3>1, <3>2
  <2>5. (Led(calls[Len(calls)]))'
      BY <2>2, <2>3 DEF Led, Pipeline!Stretch
  <2>6. (\A i \in 1..Len(calls) : CallShows(calls[i]))'
      BY <2>4, ShowsNext
  <2> QED
      BY <2>5, <2>6 DEF RestShows
<1>3. CASE Pipeline!DrainFrame
  <2> DEFINE raw == SubSeq(buf, 1, Pipeline!Total(buf))
  <2>1. /\ Pipeline!Collecting /\ calls # <<>> /\ Pipeline!Holds(buf)
        /\ raws' = Append(raws, raw) /\ calls' = calls
      BY <1>3 DEF Pipeline!DrainFrame, Pipeline!Collecting
  <2>2. c.result = "collecting" /\ Led(c) /\ N \in 1..N
      BY <1>0, <2>1 DEF Pipeline!Collecting
  <2>3. raws \in Seq(RawFrames) /\ raw \in RawFrames
      BY <2>1, WholeShape DEF Shape
  <2> HIDE DEF raw
  <2>4. raws' # <<>> /\ raws'[1] = IF raws = <<>> THEN raw ELSE raws[1]
      BY <2>1, <2>3
  <2>5. c.rest # <<>> => LeadsWith(raws'[1], c.rest, c.from)
    <3>1. CASE raws # <<>>
        BY <2>2, <2>4, <3>1 DEF Led
    <3>2. ASSUME raws = <<>>, c.rest # <<>> PROVE LeadsWith(raw, c.rest, c.from)
      <4> DEFINE s == Pipeline!Stretch(c.from, c.to)
      <4>1. buf = c.rest \o s
          BY <2>2, <3>2 DEF Led
      <4>2. /\ c.rest \in Seq(StreamBytes) /\ s \in Seq(StreamBytes)
            /\ Len(s) \in Nat \ {0} /\ s[1] = c.from
          BY <2>2, CallShape
      <4>3. s # <<>> /\ ~Pipeline!Holds(c.rest)
        <5>1. ~Pipeline!Holds(c.rest)
            BY <2>2 DEF RestShows, CallShows
        <5> HIDE DEF s
        <5> QED
            BY <4>2, <5>1
      <4> HIDE DEF s
      <4> QED
          BY <2>1, <3>2, <4>1, <4>2, <4>3, FirstLeads DEF raw
    <3> QED
        BY <2>4, <3>1, <3>2
  <2>6. (Led(calls[Len(calls)]))'
      BY <2>1, <2>2, <2>4, <2>5 DEF Led, LeadsWith
  <2>7. (\A i \in 1..Len(calls) : CallShows(calls[i]))'
      BY <2>1, ShowsNext DEF RestShows
  <2> QED
      BY <2>6, <2>7 DEF RestShows
<1>4. CASE Pipeline!Collected
  <2>1. /\ Pipeline!Collecting /\ calls # <<>> /\ calls' \in Seq(CallRecords) /\ buf' = buf
        /\ \/ Becomes("refused", <<>>) \/ Becomes("incomplete", <<>>) \/ Becomes("mismatch", <<>>)
           \/ buf = <<>> /\ Becomes("decoding", <<>>) /\ raws' = raws
      BY <1>4, CollectedShape
  <2>2. c.result = "collecting" /\ Led(c) /\ N \in 1..N
      BY <1>0, <2>1 DEF Pipeline!Collecting
  <2>3. ASSUME NEW r \in {"refused", "incomplete", "mismatch"}, Becomes(r, <<>>) PROVE RestShows'
    <3>1. (Led(calls[Len(calls)]))'
        BY <2>3 DEF Led, Becomes
    <3> QED
        BY <2>1, <2>3, <3>1, RestBecomes
  <2>4. ASSUME buf = <<>>, Becomes("decoding", <<>>), raws' = raws PROVE RestShows'
    <3>1. c.rest # <<>> => raws # <<>>
      <4> SUFFICES ASSUME c.rest # <<>>, raws = <<>> PROVE FALSE
          OBVIOUS
      <4> DEFINE s == Pipeline!Stretch(c.from, c.to)
      <4>1. buf = c.rest \o s
          BY <2>2 DEF Led
      <4>2. c.rest \in Seq(StreamBytes) /\ s \in Seq(StreamBytes)
          BY <2>2, CallShape
      <4> HIDE DEF s
      <4>3. Len(c.rest) \in Nat \ {0} /\ Len(s) \in Nat /\ Len(buf) = Len(c.rest) + Len(s)
          BY <4>1, <4>2
      <4> QED
          BY <2>4, <4>3
    <3>2. /\ calls'[N].result = "decoding" /\ calls'[N].rest = c.rest /\ calls'[N].from = c.from
          /\ Len(calls') = N
        BY <2>4 DEF Becomes
    <3>3. (Led(calls[Len(calls)]))'
        BY <2>2, <2>4, <3>1, <3>2 DEF Led, LeadsWith
    <3> QED
        BY <2>1, <2>4, <3>3, RestBecomes
  <2> QED
      BY <2>1, <2>3, <2>4
<1>5. CASE Pipeline!DecodeRaw
  <2> DEFINE i == Len(c.frames) + 1
             taken == Append(c.frames, raws[i])
  <2>1. /\ Pipeline!Decoding /\ calls # <<>> /\ c \in CallRecords
        /\ i \in 1..Len(raws) /\ raws[i] \in RawFrames
        /\ calls' \in Seq(CallRecords)
        /\ \/ Becomes("decrypt_failed", <<>>)
           \/ (Enc(raws[i]) => Pipeline!Opens(raws[i], dirs[i])) /\ Becomes("decoding", taken) /\ raws' = raws
      BY <1>5, DecodeShape DEF Enc
  <2>2. /\ c.result = "decoding" /\ Led(c) /\ N \in 1..N /\ c.frames \in Seq(RawFrames)
      BY <1>0, <2>1 DEF Pipeline!Decoding, CallRecords
  <2>3. CASE Becomes("decrypt_failed", <<>>)
    <3>1. (Led(calls[Len(calls)]))'
        BY <2>3 DEF Led, Becomes
    <3> QED
        BY <2>1, <2>3, <3>1, RestBecomes
  <2>4. CASE (Enc(raws[i]) => Pipeline!Opens(raws[i], dirs[i])) /\ Becomes("decoding", taken) /\ raws' = raws
    <3>1. /\ calls'[N].result = "decoding" /\ calls'[N].rest = c.rest /\ calls'[N].from = c.from
          /\ Len(calls') = N
        BY <2>4 DEF Becomes
    <3>2. (Led(calls[Len(calls)]))'
        BY <2>2, <2>4, <3>1 DEF Led, LeadsWith
    <3>3. ASSUME NEW k \in 1..Len(taken), Enc(taken[k]) PROVE Pipeline!Genuine(taken[k])
      <4> DEFINE x == raws[i]
      <4>1. Enc(x) => Pipeline!Genuine(x)
          BY <2>4 DEF Pipeline!Opens
      <4> HIDE DEF x
      <4>2. /\ Len(Append(c.frames, x)) = Len(c.frames) + 1
            /\ Append(c.frames, x)[Len(c.frames) + 1] = x
            /\ \A j \in 1..Len(c.frames) : Append(c.frames, x)[j] = c.frames[j]
            /\ Len(c.frames) \in Nat
          BY <2>2
      <4>3. CASE k = Len(c.frames) + 1
          BY <3>3, <4>1, <4>2, <4>3 DEF x
      <4>4. CASE k # Len(c.frames) + 1
        <5>1. k \in 1..Len(c.frames) /\ taken[k] = c.frames[k]
            BY <4>2, <4>4 DEF x
        <5> HIDE DEF taken
        <5> QED
            BY <2>2, <3>3, <5>1 DEF RestShows, CallShows
      <4> QED
          BY <4>3, <4>4
    <3> HIDE DEF taken
    <3> QED
        BY <2>1, <2>4, <3>2, <3>3, RestBecomes
  <2> QED
      BY <2>1, <2>3, <2>4
<1>6. CASE Pipeline!Decoded
  <2>1. /\ Pipeline!Decoding /\ calls # <<>> /\ c \in CallRecords
        /\ Len(c.frames) = Len(raws)
        /\ calls' \in Seq(CallRecords) /\ Becomes("ok", c.frames)
      BY <1>6, DecodedShape
  <2>2. /\ c.result = "decoding" /\ Led(c) /\ N \in 1..N /\ c.frames \in Seq(RawFrames)
        /\ \A k \in 1..Len(c.frames) : c.frames[k] = raws[k]
        /\ raws \in Seq(RawFrames)
      BY <1>0, <2>1 DEF Pipeline!Decoding, CallRecords, Shape
  <2>3. (Led(calls[Len(calls)]))'
      BY <2>1 DEF Led, Becomes
  <2>4. ASSUME c.rest # <<>>
        PROVE  c.frames # <<>> /\ LeadsWith(c.frames[1], c.rest, c.from)
    <3>1. raws # <<>> /\ LeadsWith(raws[1], c.rest, c.from)
        BY <2>2, <2>4 DEF Led
    <3>2. Len(raws) \in Nat \ {0}
        BY <2>2, <3>1
    <3>3. c.frames # <<>> /\ 1 \in 1..Len(c.frames)
        BY <2>1, <2>2, <3>2
    <3> QED
        BY <2>2, <3>1, <3>3
  <2>5. \A k \in 1..Len(c.frames) : Enc(c.frames[k]) => Pipeline!Genuine(c.frames[k])
      BY <2>2 DEF RestShows, CallShows
  <2> QED
      BY <2>1, <2>3, <2>4, <2>5, RestBecomes
<1> QED
    BY <1>1, <1>2, <1>3, <1>4, <1>5, <1>6, PipelineSteps

-----------------------------------------------------------------------------

Num(raw) == Recorded[Pipeline!FrameOf(raw[1])].n
Dir(raw) == Recorded[Pipeline!FrameOf(raw[1])].dir

(* The encrypted frames returned by the calls cs are in the order of their *)
(* numbers, direction by direction, and below the counters ct.             *)
InOrder(cs) ==
    \A i, j \in 1..Len(cs) : \A k \in 1..Len(cs[i].frames), l \in 1..Len(cs[j].frames) :
        /\ i < j \/ (i = j /\ k < l)
        /\ Enc(cs[i].frames[k]) /\ Enc(cs[j].frames[l])
        /\ Dir(cs[i].frames[k]) = Dir(cs[j].frames[l])
        => Num(cs[i].frames[k]) < Num(cs[j].frames[l])

Below(cs, ct) ==
    \A i \in 1..Len(cs) : \A k \in 1..Len(cs[i].frames) :
        Enc(cs[i].frames[k]) => Num(cs[i].frames[k]) < ct[Dir(cs[i].frames[k])]

NoncesTaken == InOrder(calls) /\ Below(calls, counters)

(* What is said of the next calls holds in the next state.                 *)
LEMMA NoncesNext == InOrder(calls') /\ Below(calls', counters') => NoncesTaken'
BY DEF NoncesTaken, InOrder, Below, Enc, Num, Dir, Pipeline!FrameOf

(* Frames in the order of their nonces repeat none.                        *)
LEMMA NeverReplayed == NoncesTaken => Pipeline!NoReplay
BY DEF NoncesTaken, InOrder, Pipeline!NoReplay, Pipeline!SessionFrame, Enc, Num, Dir

(* The types of a frame that is decoded.                                   *)
LEMMA RawShape ==
    ASSUME NEW raw \in RawFrames
    PROVE  Num(raw) \in Nat /\ Dir(raw) \in Pipeline!Directions
<1>1. raw[1] \in StreamBytes
    BY DEF RawFrames
<1> QED
    BY <1>1, BytesHaveFrames, SessionShape DEF StreamBytes, Num, Dir

(* Calls that return no frame that was not returned before.                *)
LEMMA NoncesFewer ==
    ASSUME Shape, NoncesTaken,
           \A i \in 1..Len(calls') : calls'[i].frames = <<>>
               \/ (i \in 1..Len(calls) /\ calls'[i].frames = calls[i].frames),
           counters' \in [Pipeline!Directions -> Nat],
           \A d \in Pipeline!Directions : counters[d] <= counters'[d]
    PROVE  NoncesTaken'
<1>1. ASSUME NEW i \in 1..Len(calls'), NEW k \in 1..Len(calls'[i].frames)
      PROVE  i \in 1..Len(calls) /\ calls'[i].frames = calls[i].frames
    OBVIOUS
<1>2. InOrder(calls')
  <2> SUFFICES ASSUME NEW i \in 1..Len(calls'), NEW j \in 1..Len(calls'),
                      NEW k \in 1..Len(calls'[i].frames), NEW l \in 1..Len(calls'[j].frames),
                      i < j \/ (i = j /\ k < l),
                      Enc(calls'[i].frames[k]), Enc(calls'[j].frames[l]),
                      Dir(calls'[i].frames[k]) = Dir(calls'[j].frames[l])
               PROVE  Num(calls'[i].frames[k]) < Num(calls'[j].frames[l])
      BY DEF InOrder
  <2>1. /\ i \in 1..Len(calls) /\ calls'[i].frames = calls[i].frames
        /\ j \in 1..Len(calls) /\ calls'[j].frames = calls[j].frames
      BY <1>1
  <2> QED
      BY <2>1 DEF NoncesTaken, InOrder
<1>3. Below(calls', counters')
  <2> SUFFICES ASSUME NEW i \in 1..Len(calls'), NEW k \in 1..Len(calls'[i].frames),
                      Enc(calls'[i].frames[k])
               PROVE  Num(calls'[i].frames[k]) < counters'[Dir(calls'[i].frames[k])]
      BY DEF Below
  <2> DEFINE raw == calls[i].frames[k]
  <2>1. i \in 1..Len(calls) /\ calls'[i].frames = calls[i].frames
      BY <1>1
  <2>2. calls[i].frames \in Seq(RawFrames) /\ k \in 1..Len(calls[i].frames)
      BY <2>1, CallShape
  <2>3. raw \in RawFrames
    <3> HIDE DEF RawFrames
    <3> QED
        BY <2>2
  <2>4. Num(raw) < counters[Dir(raw)]
      BY <2>1, <2>2 DEF NoncesTaken, Below
  <2>5. Num(raw) \in Nat /\ Dir(raw) \in Pipeline!Directions
      BY <2>3, RawShape
  <2> HIDE DEF raw
  <2>6. counters[Dir(raw)] \in Nat /\ counters'[Dir(raw)] \in Nat
        /\ counters[Dir(raw)] <= counters'[Dir(raw)]
      BY <2>5 DEF Shape
  <2>7. Num(raw) < counters'[Dir(raw)]
      BY <2>4, <2>5, <2>6
  <2> QED
      BY <2>1, <2>7 DEF raw
<1> QED
    BY <1>2, <1>3, NoncesNext

(* A nonce is taken: no counter falls, and none stays that is counted.     *)
LEMMA CountersRise ==
    ASSUME NEW ct \in [Pipeline!Directions -> Nat], NEW d
    PROVE  /\ \A e \in Pipeline!Directions : ct[e] <= [ct EXCEPT ![d] = @ + 1][e]
           /\ d \in Pipeline!Directions => [ct EXCEPT ![d] = @ + 1][d] = ct[d] + 1
<1>1. ASSUME NEW e \in Pipeline!Directions PROVE ct[e] <= [ct EXCEPT ![d] = @ + 1][e]
  <2>1. ct[e] \in Nat
      OBVIOUS
  <2>2. CASE e = d
      BY <2>1, <2>2
  <2>3. CASE e # d
      BY <2>1, <2>3
  <2> QED
      BY <2>2, <2>3
<1> QED
    BY <1>1

(* The frame that is decoded is numbered beyond those returned before it.  *)
LEMMA NoncesDecode ==
    ASSUME Shape, NoncesTaken, Pipeline!DecodeRaw
    PROVE  NoncesTaken'
<1> DEFINE N == Len(calls)
           c == calls[N]
           m == Len(c.frames) + 1
           raw == raws[m]
           ct == [counters EXCEPT ![dirs[m]] = @ + 1]
<1>1. /\ calls # <<>> /\ c \in CallRecords /\ raw \in RawFrames
      /\ counters' = IF Enc(raw) THEN ct ELSE counters
      /\ counters' \in [Pipeline!Directions -> Nat]
      /\ \/ Becomes("decrypt_failed", <<>>)
         \/ (Enc(raw) => Pipeline!Opens(raw, dirs[m])) /\ Becomes("decoding", Append(c.frames, raw))
    BY DecodeShape DEF Enc
<1>2. N \in 1..N /\ N \in Nat /\ c.frames \in Seq(RawFrames) /\ m \in Nat /\ m - 1 = Len(c.frames)
    BY <1>1, LastCall DEF CallRecords
<1>3. \A d \in Pipeline!Directions : counters[d] <= counters'[d] /\ counters[d] \in Nat
  <2>1. counters \in [Pipeline!Directions -> Nat]
      BY DEF Shape
  <2>2. \A d \in Pipeline!Directions : counters[d] <= ct[d]
      BY <2>1, CountersRise
  <2> HIDE DEF ct
  <2>3. counters' = ct \/ counters' = counters
      BY <1>1
  <2> QED
      BY <2>1, <2>2, <2>3
<1>4. CASE Becomes("decrypt_failed", <<>>)
  <2>1. \A i \in 1..Len(calls') : calls'[i].frames = <<>>
               \/ (i \in 1..Len(calls) /\ calls'[i].frames = calls[i].frames)
      BY <1>4 DEF Becomes
  <2> QED
      BY <1>1, <1>3, <2>1, NoncesFewer
<1>5. CASE (Enc(raw) => Pipeline!Opens(raw, dirs[m])) /\ Becomes("decoding", Append(c.frames, raw))
  <2> HIDE DEF raw, c, ct
  <2>1. /\ Len(calls') = N /\ Len(calls'[N].frames) = m /\ calls'[N].frames[m] = raw
        /\ \A k \in 1..m - 1 : calls'[N].frames[k] = calls[N].frames[k]
        /\ \A i \in 1..N : i # N => calls'[i] = calls[i]
    <3>1. calls'[N].frames = Append(c.frames, raw)
          /\ Len(calls') = N /\ \A i \in 1..N : i # N => calls'[i] = calls[i]
        BY <1>5 DEF Becomes
    <3>2. /\ Len(Append(c.frames, raw)) = m /\ Append(c.frames, raw)[m] = raw
          /\ \A k \in 1..m - 1 : Append(c.frames, raw)[k] = c.frames[k]
        BY <1>2
    <3> QED
        BY <3>1, <3>2 DEF c
  <2> HIDE DEF N, m
  <2>2. ASSUME NEW i \in 1..N, NEW k \in 1..Len(calls'[i].frames)
        PROVE  \/ i = N /\ k = m /\ calls'[i].frames[k] = raw
               \/ ~(i = N /\ k = m) /\ k \in 1..Len(calls[i].frames)
                  /\ calls'[i].frames[k] = calls[i].frames[k]
    <3>1. CASE i # N
        BY <2>1, <3>1
    <3>2. CASE i = N /\ k = m
        BY <2>1, <3>2
    <3>3. CASE i = N /\ k # m
      <4>1. k \in 1..m /\ k \in 1..m - 1
          BY <1>2, <2>1, <3>3
      <4>2. Len(calls[i].frames) = m - 1
          BY <1>2, <3>3 DEF c
      <4> QED
          BY <2>1, <3>3, <4>1, <4>2
    <3> QED
        BY <3>1, <3>2, <3>3
  <2>3. Enc(raw) => /\ Num(raw) = counters[Dir(raw)] /\ Num(raw) \in Nat
                    /\ Dir(raw) \in Pipeline!Directions /\ Num(raw) < counters'[Dir(raw)]
    <3> SUFFICES ASSUME Enc(raw)
                 PROVE  /\ Num(raw) = counters[Dir(raw)] /\ Num(raw) \in Nat
                        /\ Dir(raw) \in Pipeline!Directions /\ Num(raw) < counters'[Dir(raw)]
        OBVIOUS
    <3>1. Dir(raw) = dirs[m] /\ Num(raw) = counters[Dir(raw)]
        BY <1>5 DEF Pipeline!Opens, Dir, Num
    <3>2. Num(raw) \in Nat /\ Dir(raw) \in Pipeline!Directions
        BY <1>1, RawShape
    <3>3. counters' = [counters EXCEPT ![Dir(raw)] = @ + 1]
        BY <1>1, <3>1 DEF ct
    <3>4. counters'[Dir(raw)] = counters[Dir(raw)] + 1
        BY <3>2, <3>3, CountersRise DEF Shape
    <3> QED
        BY <3>1, <3>2, <3>4
  <2>4. ASSUME NEW i \in 1..N, NEW k \in 1..Len(calls[i].frames), Enc(calls[i].frames[k])
        PROVE  /\ Num(calls[i].frames[k]) < counters[Dir(calls[i].frames[k])]
               /\ Num(calls[i].frames[k]) < counters'[Dir(calls[i].frames[k])]
    <3> DEFINE old == calls[i].frames[k]
    <3>1. calls[i].frames \in Seq(RawFrames)
        BY CallShape DEF N
    <3>2. old \in RawFrames
      <4> HIDE DEF RawFrames
      <4> QED
          BY <3>1
    <3>3. Num(old) \in Nat /\ Dir(old) \in Pipeline!Directions
        BY <3>2, RawShape
    <3>4. Num(old) < counters[Dir(old)]
        BY <2>4 DEF NoncesTaken, Below, N
    <3> HIDE DEF old
    <3>5. counters[Dir(old)] \in Nat /\ counters'[Dir(old)] \in Nat
          /\ counters[Dir(old)] <= counters'[Dir(old)]
        BY <1>1, <1>3, <3>3
    <3>6. Num(old) < counters'[Dir(old)]
        BY <3>3, <3>4, <3>5
    <3> QED
        BY <3>4, <3>6 DEF old
  <2>5. Below(calls', counters')
    <3> SUFFICES ASSUME NEW i \in 1..N, NEW k \in 1..Len(calls'[i].frames),
                        Enc(calls'[i].frames[k])
                 PROVE  Num(calls'[i].frames[k]) < counters'[Dir(calls'[i].frames[k])]
        BY <2>1 DEF Below
    <3>1. CASE calls'[i].frames[k] = raw
        BY <2>3, <3>1
    <3>2. CASE k \in 1..Len(calls[i].frames) /\ calls'[i].frames[k] = calls[i].frames[k]
        BY <2>4, <3>2
    <3> QED
        BY <2>2, <3>1, <3>2
  <2>6. InOrder(calls')
    <3> SUFFICES ASSUME NEW i \in 1..N, NEW j \in 1..N,
                        NEW k \in 1..Len(calls'[i].frames), NEW l \in 1..Len(calls'[j].frames),
                        i < j \/ (i = j /\ k < l),
                        Enc(calls'[i].frames[k]), Enc(calls'[j].frames[l]),
                        Dir(calls'[i].frames[k]) = Dir(calls'[j].frames[l])
                 PROVE  Num(calls'[i].frames[k]) < Num(calls'[j].frames[l])
        BY <2>1 DEF InOrder
    <3>1. ~(i = N /\ k = m)
      <4> SUFFICES ASSUME i = N, k = m PROVE FALSE
          OBVIOUS
      <4>1. j = N
          BY <1>2
      <4>2. l \in 1..m /\ k < l
          BY <1>2, <2>1, <4>1
      <4> QED
          BY <1>2, <4>2
    <3>2. k \in 1..Len(calls[i].frames) /\ calls'[i].frames[k] = calls[i].frames[k]
        BY <2>2, <3>1
    <3>3. CASE calls'[j].frames[l] = raw
      <4>1. Num(calls[i].frames[k]) < counters[Dir(calls[i].frames[k])]
          BY <2>4, <3>2
      <4> QED
          BY <2>3, <3>2, <3>3, <4>1
    <3>4. CASE l \in 1..Len(calls[j].frames) /\ calls'[j].frames[l] = calls[j].frames[l]
        BY <3>2, <3>4 DEF NoncesTaken, InOrder, N
    <3> QED
        BY <2>2, <3>3, <3>4
  <2> QED
      BY <2>5, <2>6, NoncesNext
<1> QED
    BY <1>1, <1>4, <1>5

(* Every step keeps NoncesTaken.                                           *)
LEMMA NoncesKept == Shape /\ NoncesTaken /\ [Pipeline!Next]_pipelineVars => NoncesTaken'
<1> SUFFICES ASSUME Shape, NoncesTaken, [Pipeline!Next]_pipelineVars PROVE NoncesTaken'
    OBVIOUS
<1>1. Len(calls) \in Nat /\ counters \in [Pipeline!Directions -> Nat]
      /\ \A d \in Pipeline!Directions : counters[d] \in Nat
    BY DEF Shape
<1>2. ASSUME counters' = counters,
             \A i \in 1..Len(calls') : calls'[i].frames = <<>>
                 \/ (i \in 1..Len(calls) /\ calls'[i].frames = calls[i].frames)
      PROVE  NoncesTaken'
    BY <1>1, <1>2, NoncesFewer
<1>3. CASE UNCHANGED pipelineVars
    BY <1>2, <1>3 DEF pipelineVars
<1>4. ASSUME NEW from \in StreamBytes, NEW to \in from..Pipeline!StreamLen, NEW list, NEW directions,
             Pipeline!Run(from, to, list, directions)
      PROVE  NoncesTaken'
  <2>1. Begun(from, to)
      BY <1>4, Begins
  <2>2. /\ counters' = counters /\ Len(calls') = Len(calls) + 1
        /\ calls'[Len(calls) + 1].frames = <<>>
        /\ \A i \in 1..Len(calls) : calls'[i] = calls[i]
      BY <2>1 DEF Begun
  <2>3. ASSUME NEW i \in 1..Len(calls')
        PROVE  calls'[i].frames = <<>>
                   \/ (i \in 1..Len(calls) /\ calls'[i].frames = calls[i].frames)
    <3>1. i = Len(calls) + 1 \/ i \in 1..Len(calls)
        BY <1>1, <2>2
    <3> QED
        BY <2>2, <3>1
  <2> QED
      BY <1>2, <2>2, <2>3
<1>5. CASE Pipeline!DrainFrame
    BY <1>2, <1>5 DEF Pipeline!DrainFrame
<1>6. ASSUME NEW r, Becomes(r, <<>>) \/ Becomes(r, calls[Len(calls)].frames), counters' = counters
      PROVE  NoncesTaken'
  <2>1. \A i \in 1..Len(calls') : calls'[i].frames = <<>>
             \/ (i \in 1..Len(calls) /\ calls'[i].frames = calls[i].frames)
      BY <1>6 DEF Becomes
  <2> QED
      BY <1>2, <1>6, <2>1
<1>7. CASE Pipeline!Collected
    BY <1>6, <1>7, CollectedShape
<1>8. CASE Pipeline!Decoded
    BY <1>6, <1>8, DecodedShape
<1>9. CASE Pipeline!DecodeRaw
    BY <1>9, NoncesDecode
<1> QED
    BY <1>3, <1>4, <1>5, <1>7, <1>8, <1>9, PipelineSteps

-----------------------------------------------------------------------------

(* A stretch cut in two is two stretches.                                  *)
LEMMA StretchSplit ==
    ASSUME NEW from \in Nat, NEW mid \in Nat, NEW to \in Nat, from <= mid + 1, mid <= to
    PROVE  /\ SubSeq(Pipeline!Stretch(from, to), 1, mid - from + 1) = Pipeline!Stretch(from, mid)
           /\ SubSeq(Pipeline!Stretch(from, to), mid - from + 1 + 1, Len(Pipeline!Stretch(from, to)))
                 = Pipeline!Stretch(mid + 1, to)
<1> DEFINE s == Pipeline!Stretch(from, to)
           t == mid - from + 1
<1>1. t \in Nat /\ from <= to + 1 /\ mid + 1 \in Nat /\ mid + 1 <= to + 1 /\ from \in Int
      /\ to - (mid + 1) + 1 \in Nat
    OBVIOUS
<1>2. /\ Len(s) = to - from + 1 /\ s \in Seq(from..to)
      /\ \A k \in 1..to - from + 1 : s[k] = from + k - 1
    BY <1>1, StretchShape
<1> HIDE DEF s
<1>3. SubSeq(s, 1, t) = [k \in 1..t |-> s[k]]
    BY <1>1, <1>2
<1>4. \A k \in 1..t : s[k] = from + k - 1
    BY <1>1, <1>2
<1>5. SubSeq(s, 1, t) = Pipeline!Stretch(from, mid)
    BY <1>3, <1>4 DEF Pipeline!Stretch
<1> DEFINE u == to - (mid + 1) + 1
<1>6. SubSeq(s, t + 1, Len(s)) = [k \in 1..u |-> s[t + k]]
  <2>1. Len(s) - (t + 1) + 1 = u /\ Len(s) \in Nat /\ t + 1 <= Len(s) + 1
      BY <1>1, <1>2
  <2>2. SubSeq(s, t + 1, Len(s)) = [k \in 1..Len(s) - (t + 1) + 1 |-> s[t + 1 + k - 1]]
      BY <1>1, <1>2, <2>1
  <2>3. \A k \in 1..u : t + 1 + k - 1 = t + k
      BY <1>1
  <2> HIDE DEF t, u
  <2> QED
      BY <2>1, <2>2, <2>3
<1>7. \A k \in 1..u : s[t + k] = mid + 1 + k - 1
  <2> TAKE k \in 1..u
  <2>1. t + k \in 1..to - from + 1 /\ from + (t + k) - 1 = mid + 1 + k - 1
      BY <1>1
  <2> QED
      BY <1>2, <2>1
<1>8. SubSeq(s, t + 1, Len(s)) = Pipeline!Stretch(mid + 1, to)
    BY <1>6, <1>7 DEF Pipeline!Stretch
<1> QED
    BY <1>5, <1>8 DEF s

EndOf(f) == IF f = 0 THEN 0 ELSE Recorded[f].end

(* In a buffer that begins after the frame b the first whole frame is the  *)
(* next one, and the rest begins after that.                               *)
LEMMA NextFrame ==
    ASSUME NEW b \in 0..Len(Recorded), NEW to \in StreamBytes, EndOf(b) <= to,
           NEW bytes, bytes = Pipeline!Stretch(EndOf(b) + 1, to), Pipeline!Holds(bytes)
    PROVE  /\ b + 1 \in 1..Len(Recorded)
           /\ SubSeq(bytes, 1, Pipeline!Total(bytes)) = Pipeline!PiecesOf(b + 1)
           /\ SubSeq(bytes, Pipeline!Total(bytes) + 1, Len(bytes))
                 = Pipeline!Stretch(EndOf(b + 1) + 1, to)
           /\ EndOf(b + 1) <= to
<1>1. to \in Nat /\ to <= Pipeline!StreamLen /\ Pipeline!StreamLen \in Nat
    BY SessionShape DEF StreamBytes
<1>2. EndOf(b) \in Nat /\ b \in Nat /\ Len(Recorded) \in Nat
  <2>1. b # 0 => b \in 1..Len(Recorded)
      BY SessionShape
  <2> QED
      BY <2>1, SessionShape DEF EndOf
<1> DEFINE e == EndOf(b)
<1> HIDE DEF e
<1>3. e \in Nat /\ e + 1 \in Nat /\ e + 1 <= to + 1 /\ e <= to
      /\ bytes = Pipeline!Stretch(e + 1, to)
    BY <1>1, <1>2 DEF e
<1>4. /\ bytes \in Seq(e + 1..to) /\ Len(bytes) = to - (e + 1) + 1
      /\ \A k \in 1..to - (e + 1) + 1 : bytes[k] = e + 1 + k - 1
    BY <1>1, <1>3, StretchShape
<1>5. bytes \in Seq(StreamBytes)
  <2>1. e + 1..to \subseteq StreamBytes
      BY <1>1, <1>3 DEF StreamBytes
  <2>2. bytes \in Seq(e + 1..to)
      BY <1>4
  <2> DEFINE places == e + 1..to
  <2>3. places \subseteq StreamBytes /\ bytes \in Seq(places)
      BY <2>1, <2>2
  <2> HIDE DEF places
  <2> QED
      BY <2>3, SeqOfMore
<1>6. Pipeline!Total(bytes) \in 3..Len(bytes) /\ Len(bytes) >= 2 /\ Pipeline!IsHeader(bytes)
    BY <1>5, WholeShape DEF Pipeline!Holds, Pipeline!HeaderPieces
<1>7. bytes[1] = e + 1 /\ e + 1 <= to
  <2>1. 1 \in 1..to - (e + 1) + 1 /\ e + 1 + 1 - 1 = e + 1
      BY <1>1, <1>3, <1>4, <1>6
  <2>2. e + 1 <= to
      BY <1>1, <1>3, <2>1
  <2> QED
      BY <1>4, <2>1, <2>2
<1>8. PICK f \in 1..Len(Recorded) :
          /\ bytes[1] = Recorded[f].start + 1
          /\ Pipeline!Total(bytes) = Recorded[f].end - Recorded[f].start
    BY <1>5, <1>6, HeaderShape
<1>9. /\ Recorded[f].start = e
      /\ Recorded[f].end \in Nat /\ Recorded[f].end > e + 2
    BY <1>3, <1>7, <1>8, SessionShape
<1>10. b < f
  <2> SUFFICES ASSUME f <= b PROVE FALSE
      BY <1>2
  <2>1. b \in 1..Len(Recorded) /\ e = Recorded[b].end
      BY <1>2 DEF e, EndOf
  <2>2. f < b => Recorded[f].end <= Recorded[b].start
      BY <2>1, FramesInOrder
  <2>3. Recorded[b].start \in Nat /\ Recorded[b].end > Recorded[b].start + 2
      BY <2>1, SessionShape
  <2>4. Recorded[f].start = Recorded[b].end
      BY <1>9, <2>1
  <2>5. CASE f < b
    <3>1. Recorded[f].end <= Recorded[b].start
        BY <2>2, <2>5
    <3> HIDE DEF EndOf
    <3> QED
        BY <1>3, <1>9, <2>1, <2>3, <2>4, <3>1
  <2>6. CASE f = b
      BY <2>3, <2>4, <2>6
  <2> QED
      BY <1>2, <2>5, <2>6
<1>11. b + 1 \in 1..Len(Recorded) /\ b + 1 # 0 /\ (b + 1) - 1 = b /\ (b + 1 = 1 <=> b = 0)
    BY <1>2, <1>10
<1>12. /\ Recorded[b + 1].start = e
       /\ Recorded[b + 1].end \in Nat /\ Recorded[b + 1].end > e + 2
  <2>1. CASE b = 0
      BY <1>11, <2>1, SessionShape DEF e, EndOf
  <2>2. CASE b # 0
      BY <1>11, <2>2, SessionShape DEF e, EndOf
  <2> QED
      BY <2>1, <2>2
<1>13. f = b + 1
  <2>1. Pipeline!FrameOf(e + 1) = f /\ Pipeline!FrameOf(e + 1) = b + 1
    <3>1. e + 1 \in Int /\ e < e + 1 /\ e + 1 <= Recorded[f].end /\ e + 1 <= Recorded[b + 1].end
        BY <1>3, <1>9, <1>12
    <3> QED
        BY <1>9, <1>11, <1>12, <3>1, FrameOfByte
  <2> QED
      BY <2>1
<1> DEFINE mid == Recorded[b + 1].end
<1>14. /\ mid = EndOf(b + 1) /\ mid \in Nat /\ mid > e + 2
       /\ Pipeline!Total(bytes) = mid - e /\ mid - e = mid - (e + 1) + 1
       /\ Pipeline!PiecesOf(b + 1) = Pipeline!Stretch(e + 1, mid)
  <2>1. mid = EndOf(b + 1)
      BY <1>11 DEF EndOf
  <2>2. Pipeline!Total(bytes) = mid - e
      BY <1>8, <1>12, <1>13
  <2> QED
      BY <1>3, <1>12, <2>1, <2>2 DEF Pipeline!PiecesOf
<1> HIDE DEF mid
<1>15. mid <= to /\ e + 1 <= mid + 1
  <2>1. Len(bytes) = to - (e + 1) + 1 /\ mid - e <= Len(bytes)
      BY <1>4, <1>6, <1>14
  <2>2. mid \in Nat /\ mid > e + 2 /\ e \in Nat /\ to \in Nat
      BY <1>1, <1>3, <1>14
  <2> QED
      BY <2>1, <2>2
<1>16. /\ SubSeq(bytes, 1, mid - (e + 1) + 1) = Pipeline!Stretch(e + 1, mid)
       /\ SubSeq(bytes, mid - (e + 1) + 1 + 1, Len(bytes)) = Pipeline!Stretch(mid + 1, to)
  <2> DEFINE d == e + 1
  <2>1. d \in Nat /\ mid \in Nat /\ to \in Nat /\ d <= mid + 1 /\ mid <= to
        /\ bytes = Pipeline!Stretch(d, to)
      BY <1>1, <1>3, <1>14, <1>15
  <2> HIDE DEF d
  <2>2. /\ SubSeq(Pipeline!Stretch(d, to), 1, mid - d + 1) = Pipeline!Stretch(d, mid)
        /\ SubSeq(Pipeline!Stretch(d, to), mid - d + 1 + 1, Len(Pipeline!Stretch(d, to)))
              = Pipeline!Stretch(mid + 1, to)
      BY <2>1, StretchSplit, Zenon
  <2> QED
      BY <2>1, <2>2, Zenon DEF d
<1>17. Pipeline!Total(bytes) = mid - (e + 1) + 1
    BY <1>3, <1>14
<1> QED
    BY <1>11, <1>14, <1>15, <1>16, <1>17

-----------------------------------------------------------------------------

LastOf(cs, i) == IF i = 0 THEN 0 ELSE Pipeline!FrameOf(cs[i].to)

FollowsOn(cs, n) == cs[n].from = IF n = 1 THEN 1 ELSE cs[n - 1].to + 1

Joined(cs, n) == \A i \in 1..n : cs[i].result = "ok" /\ FollowsOn(cs, i)

(* The call i gave the frames after those of the call before it.           *)
WholeCall(cs, i) ==
    /\ LastOf(cs, i) \in 1..Len(Recorded)
    /\ EndOf(LastOf(cs, i)) = cs[i].to
    /\ cs[i].frames = [k \in 1..LastOf(cs, i) - LastOf(cs, i - 1) |->
                          Pipeline!PiecesOf(LastOf(cs, i - 1) + k)]

(* What was collected from c are the frames after b, and what is left of   *)
(* it comes after them.                                                    *)
PartWay(c, b, bytes, rs) ==
    /\ b \in 0..Len(Recorded) /\ b + Len(rs) \in 0..Len(Recorded)
    /\ \A k \in 1..Len(rs) : rs[k] = Pipeline!PiecesOf(b + k)
    /\ EndOf(b + Len(rs)) <= c.to
    /\ c.result = "collecting" => bytes = Pipeline!Stretch(EndOf(b + Len(rs)) + 1, c.to)
    /\ c.result = "decoding" => EndOf(b + Len(rs)) = c.to

SeamlessIn(cs, bytes, rs) ==
    /\ \A n \in 0..Len(cs) : Joined(cs, n) => \A i \in 1..n : WholeCall(cs, i)
    /\ Joined(cs, Len(cs)) => bytes = <<>>
    /\ /\ cs # <<>> /\ cs[Len(cs)].result \in {"collecting", "decoding"}
       /\ Joined(cs, Len(cs) - 1) /\ FollowsOn(cs, Len(cs))
       => PartWay(cs[Len(cs)], LastOf(cs, Len(cs) - 1), bytes, rs)

(* As long as every call returned ok and went on where the one before it   *)
(* ended, the frames given so far are those of the stream so far.          *)
Seamless == SeamlessIn(calls, buf, raws)

(* What is said of the next calls holds in the next state.                 *)
LEMMA SeamlessNext == SeamlessIn(calls', buf', raws') => Seamless'
BY DEF Seamless, SeamlessIn, PartWay, WholeCall, Joined, FollowsOn, LastOf, EndOf,
       Pipeline!FrameOf, Pipeline!PiecesOf, Pipeline!Stretch

(* Seamless is what SeamsLoseNothing asks for, of every prefix of the      *)
(* calls.                                                                  *)
LEMMA SeamsJoined == Shape /\ Seamless => Pipeline!SeamsLoseNothing
<1> SUFFICES ASSUME Shape, Seamless,
                    \A i \in 1..Len(calls) : calls[i].result = "ok" /\ FollowsOn(calls, i),
                    NEW i \in 1..Len(calls)
             PROVE  calls[i].frames =
                        [k \in 1..Pipeline!LastFrame(i) - Pipeline!LastFrame(i - 1) |->
                            Pipeline!PiecesOf(Pipeline!LastFrame(i - 1) + k)]
    BY DEF Pipeline!SeamsLoseNothing, Pipeline!Ok, FollowsOn
<1>1. Len(calls) \in 0..Len(calls) /\ Joined(calls, Len(calls))
    BY DEF Shape, Joined
<1>2. WholeCall(calls, i)
    BY <1>1 DEF Seamless, SeamlessIn
<1>3. Pipeline!LastFrame(i) = LastOf(calls, i) /\ Pipeline!LastFrame(i - 1) = LastOf(calls, i - 1)
    BY DEF Pipeline!LastFrame, LastOf
<1> QED
    BY <1>2, <1>3 DEF WholeCall

(* The first n calls decide what is said of them.                          *)
LEMMA JoinedSame ==
    ASSUME NEW n \in Nat, NEW cs, NEW ds, \A i \in 1..n : ds[i] = cs[i]
    PROVE  /\ Joined(ds, n) <=> Joined(cs, n)
           /\ LastOf(ds, n) = LastOf(cs, n)
           /\ \A i \in 1..n : WholeCall(ds, i) <=> WholeCall(cs, i)
<1>1. ASSUME NEW i \in 1..n
      PROVE  /\ ds[i] = cs[i]
             /\ i # 1 => ds[i - 1] = cs[i - 1]
             /\ i - 1 # 0 => i # 1
    OBVIOUS
<1>2. \A i \in 1..n : FollowsOn(ds, i) <=> FollowsOn(cs, i)
    BY <1>1 DEF FollowsOn
<1>3. \A i \in 1..n : LastOf(ds, i) = LastOf(cs, i) /\ LastOf(ds, i - 1) = LastOf(cs, i - 1)
    BY <1>1 DEF LastOf
<1>4. LastOf(ds, n) = LastOf(cs, n)
    BY <1>3 DEF LastOf
<1>5. \A i \in 1..n : WholeCall(ds, i) <=> WholeCall(cs, i)
    BY <1>1, <1>3 DEF WholeCall
<1> QED
    BY <1>1, <1>2, <1>4, <1>5 DEF Joined

(* Run keeps Seamless: a source that goes on begins after the last frame.  *)
LEMMA SeamlessBegins ==
    ASSUME Shape, Seamless, NEW from \in StreamBytes, NEW to \in from..Pipeline!StreamLen,
           Begun(from, to)
    PROVE  SeamlessIn(calls', buf', raws')
<1> DEFINE N == Len(calls)
           new == calls'[N + 1]
<1>1. N \in Nat /\ N + 1 # 0 /\ (N + 1) - 1 = N /\ (N + 1 = 1 <=> N = 0)
    BY DEF Shape
<1>2. /\ Len(calls') = N + 1 /\ \A i \in 1..N : calls'[i] = calls[i]
      /\ new.from = from /\ new.to = to /\ new.result = "collecting"
      /\ raws' = raws /\ buf' = buf \o Pipeline!Stretch(from, to)
      /\ raws = <<>>
    BY DEF Begun, Shape
<1>3. from \in Nat /\ to \in Nat /\ from <= to
    BY SessionShape DEF StreamBytes
<1>4. ~Joined(calls', N + 1)
  <2>1. N + 1 \in 1..N + 1
      BY <1>1
  <2> QED
      BY <1>2, <2>1 DEF Joined
<1>5. ASSUME NEW n \in 0..N + 1, Joined(calls', n)
      PROVE  \A i \in 1..n : WholeCall(calls', i)
  <2>1. n \in 0..N /\ n \in Nat /\ \A i \in 1..n : calls'[i] = calls[i]
      BY <1>1, <1>2, <1>4, <1>5
  <2>2. Joined(calls, n) /\ \A i \in 1..n : WholeCall(calls', i) <=> WholeCall(calls, i)
      BY <1>5, <2>1, JoinedSame
  <2> QED
      BY <2>1, <2>2 DEF Seamless, SeamlessIn
<1>6. ASSUME Joined(calls', N), FollowsOn(calls', N + 1)
      PROVE  PartWay(new, LastOf(calls', N), buf', raws')
  <2>1. Joined(calls, N) /\ LastOf(calls', N) = LastOf(calls, N)
      BY <1>1, <1>2, <1>6, JoinedSame
  <2> DEFINE b == LastOf(calls, N)
  <2>2. buf = <<>> /\ \A i \in 1..N : WholeCall(calls, i)
    <3>1. N \in 0..N
        BY <1>1
    <3> QED
        BY <2>1, <3>1 DEF Seamless, SeamlessIn
  <2>3. from = IF N = 0 THEN 1 ELSE calls[N].to + 1
    <3>1. N # 0 => N \in 1..N
        BY <1>1
    <3> QED
        BY <1>1, <1>2, <1>6, <3>1 DEF FollowsOn
  <2>4. b \in 0..Len(Recorded) /\ from = EndOf(b) + 1
    <3>1. CASE N = 0
        BY <2>3, <3>1, SessionShape DEF LastOf, EndOf
    <3>2. CASE N # 0
      <4>1. WholeCall(calls, N)
          BY <1>1, <2>2, <3>2
      <4> QED
          BY <2>3, <3>2, <4>1, SessionShape DEF WholeCall
    <3> QED
        BY <3>1, <3>2
  <2>5. buf' = Pipeline!Stretch(from, to)
    <3>1. Pipeline!Stretch(from, to) \in Seq(from..to)
        BY <1>3, StretchShape
    <3> QED
        BY <1>2, <2>2, <3>1
  <2>6. EndOf(b) <= to /\ EndOf(b) \in Nat /\ b \in Nat
    <3>1. EndOf(b) \in Nat
      <4>1. b = 0 \/ b \in 1..Len(Recorded)
          BY <2>4, SessionShape
      <4> HIDE DEF b
      <4> QED
          BY <4>1, SessionShape DEF EndOf
    <3> QED
        BY <1>3, <2>4, <3>1, SessionShape
  <2> HIDE DEF b
  <2>7. raws' = <<>> /\ Len(raws') = 0 /\ b + Len(raws') = b
      BY <1>2, <2>6
  <2>8. PartWay(new, b, buf', raws')
      BY <1>2, <2>4, <2>5, <2>6, <2>7 DEF PartWay
  <2> QED
      BY <2>1, <2>8 DEF b
<1> QED
  <2> HIDE DEF N
  <2>1. Len(calls') - 1 = N /\ calls'[Len(calls')] = new
      BY <1>1, <1>2
  <2> QED
      BY <1>2, <1>4, <1>5, <1>6, <2>1 DEF SeamlessIn

(* DrainFrame keeps Seamless: the next frame of the stream leaves the      *)
(* buffer.                                                                 *)
LEMMA SeamlessDrains ==
    ASSUME Shape, Seamless, Pipeline!DrainFrame
    PROVE  SeamlessIn(calls', buf', raws')
<1> DEFINE N == Len(calls)
           raw == SubSeq(buf, 1, Pipeline!Total(buf))
<1>1. /\ Pipeline!Collecting /\ calls # <<>> /\ Pipeline!Holds(buf)
      /\ raws' = Append(raws, raw)
      /\ buf' = SubSeq(buf, Pipeline!Total(buf) + 1, Len(buf))
      /\ calls' = calls
    BY DEF Pipeline!DrainFrame, Pipeline!Collecting
<1>2. /\ N \in 1..N /\ calls[N].result = "collecting"
      /\ calls[N] \in CallRecords
    BY <1>1, LastCall DEF Pipeline!Collecting
<1>3. calls[N].to \in StreamBytes /\ raws \in Seq(RawFrames) /\ raw \in RawFrames
  <2>1. calls[N].to \in StreamBytes
      BY <1>2 DEF CallRecords
  <2> QED
      BY <1>1, <2>1, WholeShape DEF Shape
<1>4. ~Joined(calls, N)
    BY <1>2 DEF Joined
<1>5. ASSUME NEW b, PartWay(calls[N], b, buf, raws)
      PROVE  PartWay(calls[N], b, buf', raws')
  <2> DEFINE m == Len(raws)
             g == b + m
  <2>1. /\ b \in 0..Len(Recorded) /\ g \in 0..Len(Recorded)
        /\ \A k \in 1..m : raws[k] = Pipeline!PiecesOf(b + k)
        /\ EndOf(g) <= calls[N].to /\ buf = Pipeline!Stretch(EndOf(g) + 1, calls[N].to)
      BY <1>2, <1>5 DEF PartWay
  <2>2. m \in Nat /\ b \in Nat /\ g \in Nat /\ Len(Recorded) \in Nat
      BY <1>3, <2>1, SessionShape
  <2> HIDE DEF g, raw
  <2>3. /\ g + 1 \in 1..Len(Recorded) /\ raw = Pipeline!PiecesOf(g + 1)
        /\ buf' = Pipeline!Stretch(EndOf(g + 1) + 1, calls[N].to)
        /\ EndOf(g + 1) <= calls[N].to
      BY <1>1, <1>3, <2>1, NextFrame DEF raw
  <2>4. /\ Len(raws') = m + 1 /\ raws'[m + 1] = raw
        /\ \A k \in 1..m : raws'[k] = raws[k]
      BY <1>1, <1>3
  <2>5. b + (m + 1) = g + 1 /\ g + 1 \in 0..Len(Recorded)
      BY <2>2, <2>3 DEF g
  <2> HIDE DEF m, N
  <2>6. ASSUME NEW k \in 1..m + 1 PROVE raws'[k] = Pipeline!PiecesOf(b + k)
    <3>1. k = m + 1 \/ k \in 1..m
        BY <2>2
    <3> QED
        BY <2>1, <2>3, <2>4, <2>5, <3>1
  <2>7. Len(raws') = m + 1 /\ b + Len(raws') = g + 1
      BY <2>4, <2>5
  <2> QED
      BY <1>2, <2>1, <2>3, <2>5, <2>6, <2>7 DEF PartWay
<1> QED
    BY <1>1, <1>2, <1>4, <1>5 DEF Seamless, SeamlessIn

(* The last call goes on to be decoded, or fails.                          *)
LEMMA SeamlessBecomes ==
    ASSUME Shape, Seamless, calls # <<>>, NEW res, NEW frames, Becomes(res, frames),
           res \notin {"ok", "collecting"},
           res = "decoding" =>
               /\ raws' = raws
               /\ calls[Len(calls)].result = "decoding"
                     \/ (calls[Len(calls)].result = "collecting" /\ buf = <<>>)
    PROVE  SeamlessIn(calls', buf', raws')
<1> DEFINE N == Len(calls)
           new == calls'[N]
<1>1. N \in Nat /\ N \in 1..N /\ N - 1 \in Nat /\ calls[N] \in CallRecords
    BY LastCall DEF Shape
<1>2. /\ Len(calls') = N /\ \A i \in 1..N - 1 : calls'[i] = calls[i]
      /\ new.from = calls[N].from /\ new.to = calls[N].to /\ new.result = res
    BY <1>1 DEF Becomes
<1>3. ~Joined(calls', N)
    BY <1>1, <1>2 DEF Joined
<1>4. ASSUME NEW n \in 0..N, Joined(calls', n)
      PROVE  \A i \in 1..n : WholeCall(calls', i)
  <2>1. n \in 0..N /\ n \in Nat /\ \A i \in 1..n : calls'[i] = calls[i]
    <3>1. n # N
        BY <1>3, <1>4
    <3> QED
        BY <1>1, <1>2, <3>1
  <2>2. Joined(calls, n) /\ \A i \in 1..n : WholeCall(calls', i) <=> WholeCall(calls, i)
      BY <1>4, <2>1, JoinedSame
  <2> QED
      BY <2>1, <2>2 DEF Seamless, SeamlessIn
<1>5. ASSUME new.result \in {"collecting", "decoding"}, Joined(calls', N - 1), FollowsOn(calls', N)
      PROVE  PartWay(new, LastOf(calls', N - 1), buf', raws')
  <2>1. res = "decoding" /\ raws' = raws
        /\ (calls[N].result = "decoding" \/ (calls[N].result = "collecting" /\ buf = <<>>))
      BY <1>2, <1>5
  <2>2. Joined(calls, N - 1) /\ LastOf(calls', N - 1) = LastOf(calls, N - 1)
      BY <1>1, <1>2, <1>5, JoinedSame
  <2>3. FollowsOn(calls, N)
    <3>1. N # 1 => N - 1 \in 1..N - 1
      <4>1. N \in Nat /\ N \in 1..N
          BY <1>1
      <4> HIDE DEF N
      <4> QED
          BY <4>1
    <3> QED
        BY <1>2, <1>5, <3>1 DEF FollowsOn
  <2> DEFINE b == LastOf(calls, N - 1)
             e == EndOf(b + Len(raws))
  <2>4. PartWay(calls[N], b, buf, raws)
      BY <2>1, <2>2, <2>3 DEF Seamless, SeamlessIn
  <2> HIDE DEF b
  <2>5. e = calls[N].to
    <3>1. CASE calls[N].result = "decoding"
        BY <2>4, <3>1 DEF PartWay
    <3>2. CASE calls[N].result = "collecting" /\ buf = <<>>
      <4>1. e <= calls[N].to /\ Pipeline!Stretch(e + 1, calls[N].to) = <<>>
          BY <2>4, <3>2 DEF PartWay
      <4>2. e \in Nat
        <5>1. b + Len(raws) \in 0..Len(Recorded)
            BY <2>4 DEF PartWay
        <5>2. b + Len(raws) = 0 \/ b + Len(raws) \in 1..Len(Recorded)
            BY <5>1, SessionShape
        <5> QED
            BY <5>2, SessionShape DEF EndOf
      <4>3. calls[N].to \in Nat
        <5>1. calls[N].to \in StreamBytes
            BY <1>1 DEF CallRecords
        <5> QED
            BY <5>1, SessionShape DEF StreamBytes
      <4> DEFINE lo == e + 1
                 hi == calls[N].to
      <4>4. lo \in Nat /\ hi \in Nat /\ lo <= hi + 1
        <5> HIDE DEF e, N
        <5> QED
            BY <4>1, <4>2, <4>3
      <4> HIDE DEF lo, hi
      <4>5. Len(Pipeline!Stretch(lo, hi)) = hi - lo + 1
          BY <4>4, StretchShape
      <4>6. Pipeline!Stretch(lo, hi) = <<>>
          BY <4>1 DEF lo, hi
      <4>7. hi - lo + 1 = 0
          BY <4>5, <4>6
      <4> HIDE DEF e
      <4>8. hi = e
          BY <4>2, <4>4, <4>7 DEF lo
      <4> QED
          BY <4>8 DEF hi
    <3> QED
        BY <2>1, <3>1, <3>2
  <2>6. PartWay(new, b, buf', raws')
    <3>1. new.to = e /\ new.result = "decoding"
        BY <1>2, <2>1, <2>5
    <3>2. e <= new.to
      <4>1. e \in Int
        <5>1. calls[N].to \in StreamBytes
            BY <1>1 DEF CallRecords
        <5> QED
            BY <2>5, <5>1, SessionShape DEF StreamBytes
      <4> HIDE DEF e
      <4> QED
          BY <3>1, <4>1
    <3> QED
        BY <2>1, <2>4, <3>1, <3>2 DEF PartWay
  <2> QED
      BY <2>2, <2>6 DEF b
<1> QED
    BY <1>2, <1>3, <1>4, <1>5 DEF SeamlessIn

(* Decoded keeps Seamless: the call gave the frames up to its last byte.   *)
LEMMA SeamlessReturns ==
    ASSUME Shape, Seamless, Pipeline!Decoded
    PROVE  SeamlessIn(calls', buf', raws')
<1> DEFINE N == Len(calls)
           new == calls'[N]
<1>1. /\ N \in 1..N /\ calls[N].result = "decoding" /\ calls[N] \in CallRecords
      /\ Becomes("ok", calls[N].frames) /\ buf' = buf
      /\ Len(calls[N].frames) = Len(raws)
      /\ calls # <<>> /\ Pipeline!Decoding /\ Pipeline!Current = calls[N]
    BY DecodedShape, LastCall DEF Pipeline!Decoding
<1>2. /\ Len(calls') = N /\ N \in Nat /\ N - 1 \in Nat
      /\ \A i \in 1..N - 1 : calls'[i] = calls[i]
      /\ new.from = calls[N].from /\ new.to = calls[N].to
      /\ new.result = "ok" /\ new.frames = calls[N].frames
    BY <1>1 DEF Becomes, Shape
<1>3. /\ buf = <<>> /\ raws \in Seq(RawFrames) /\ calls[N].frames \in Seq(RawFrames)
      /\ \A k \in 1..Len(calls[N].frames) : calls[N].frames[k] = raws[k]
    BY <1>1 DEF Shape, CallRecords
<1>4. ASSUME Joined(calls', N) PROVE WholeCall(calls', N)
  <2>1. /\ \A i \in 1..N - 1 : calls'[i].result = "ok" /\ FollowsOn(calls', i)
        /\ FollowsOn(calls', N)
      BY <1>1, <1>2, <1>4 DEF Joined
  <2>2. Joined(calls, N - 1) /\ LastOf(calls', N - 1) = LastOf(calls, N - 1)
    <3>1. Joined(calls', N - 1)
        BY <2>1 DEF Joined
    <3> QED
        BY <1>2, <3>1, JoinedSame
  <2>3. FollowsOn(calls, N)
    <3>1. N # 1 => N - 1 \in 1..N - 1
      <4>1. N \in Nat /\ N \in 1..N
          BY <1>1, <1>2
      <4> HIDE DEF N
      <4> QED
          BY <4>1
    <3> QED
        BY <1>2, <2>1, <3>1 DEF FollowsOn
  <2> DEFINE b == LastOf(calls, N - 1)
             m == Len(raws)
             g == b + m
  <2>4. PartWay(calls[N], b, buf, raws)
      BY <1>1, <2>2, <2>3 DEF Seamless, SeamlessIn
  <2> HIDE DEF b
  <2>5. /\ b \in 0..Len(Recorded) /\ g \in 0..Len(Recorded)
        /\ \A k \in 1..m : raws[k] = Pipeline!PiecesOf(b + k)
        /\ EndOf(g) = calls[N].to
      BY <1>1, <2>4 DEF PartWay
  <2>6. m \in Nat /\ b \in Nat /\ g \in Nat /\ g - b = m
      BY <1>3, <2>5, SessionShape
  <2>7. calls[N].to \in StreamBytes
      BY <1>1 DEF CallRecords
  <2> HIDE DEF g
  <2>8. g \in 1..Len(Recorded) /\ Recorded[g].end = calls[N].to
    <3>1. g # 0
        BY <2>5, <2>7 DEF EndOf, StreamBytes
    <3>2. g \in 1..Len(Recorded)
        BY <2>5, <2>6, <3>1, SessionShape
    <3> QED
        BY <2>5, <3>1, <3>2 DEF EndOf
  <2>9. Pipeline!FrameOf(calls[N].to) = g
    <3>1. Recorded[g].start \in Nat /\ Recorded[g].end \in Nat
          /\ Recorded[g].end > Recorded[g].start + 2
        BY <2>8, SessionShape
    <3>2. Recorded[g].end \in Int /\ Recorded[g].start < Recorded[g].end
          /\ Recorded[g].end <= Recorded[g].end
        BY <3>1
    <3> QED
        BY <2>8, <3>2, FrameOfByte
  <2>10. LastOf(calls', N) = g
      BY <1>1, <1>2, <2>9 DEF LastOf
  <2>11. calls[N].frames = [k \in 1..g - b |-> Pipeline!PiecesOf(b + k)]
    <3>1. \A k \in 1..m : calls[N].frames[k] = Pipeline!PiecesOf(b + k)
        BY <1>1, <1>3, <2>5
    <3>2. Len(calls[N].frames) = m /\ calls[N].frames = [k \in 1..m |-> calls[N].frames[k]]
        BY <1>1, <1>3
    <3> HIDE DEF m
    <3> QED
        BY <2>6, <3>1, <3>2
  <2>12. LastOf(calls', N - 1) = b
      BY <2>2 DEF b
  <2>13. EndOf(g) = new.to
      BY <1>2, <2>5
  <2> QED
      BY <1>2, <2>8, <2>10, <2>11, <2>12, <2>13 DEF WholeCall
<1>5. ASSUME NEW n \in 0..N, Joined(calls', n), NEW i \in 1..n
      PROVE  WholeCall(calls', i)
  <2>1. CASE i = N
    <3>1. n = N
        BY <1>2, <1>5, <2>1
    <3> QED
        BY <1>4, <1>5, <2>1, <3>1
  <2>2. CASE i # N
    <3>1. i \in 0..N /\ i \in Nat /\ i \in 1..i /\ i \in 1..N - 1
        BY <1>2, <1>5, <2>2
    <3>2. \A j \in 1..i : j \in 1..N - 1 /\ j \in 1..n
        BY <1>2, <1>5, <3>1
    <3>3. \A j \in 1..i : calls'[j] = calls[j]
        BY <1>2, <3>2
    <3>4. Joined(calls', i)
        BY <1>5, <3>2 DEF Joined
    <3>5. Joined(calls, i) /\ (WholeCall(calls', i) <=> WholeCall(calls, i))
        BY <3>1, <3>3, <3>4, JoinedSame
    <3> QED
        BY <3>1, <3>5 DEF Seamless, SeamlessIn
  <2> QED
      BY <2>1, <2>2
<1>6. calls'[Len(calls')].result = "ok"
    BY <1>2
<1> QED
    BY <1>1, <1>2, <1>3, <1>5, <1>6 DEF SeamlessIn

(* Every step keeps Seamless.                                              *)
LEMMA SeamlessKept == Shape /\ Seamless /\ [Pipeline!Next]_pipelineVars => Seamless'
<1> SUFFICES ASSUME Shape, Seamless, [Pipeline!Next]_pipelineVars
             PROVE  SeamlessIn(calls', buf', raws')
    BY SeamlessNext
<1>1. CASE UNCHANGED pipelineVars
    BY <1>1 DEF pipelineVars, Seamless
<1>2. ASSUME NEW from \in StreamBytes, NEW to \in from..Pipeline!StreamLen, NEW list, NEW directions,
             Pipeline!Run(from, to, list, directions)
      PROVE  SeamlessIn(calls', buf', raws')
    BY <1>2, Begins, SeamlessBegins
<1>3. CASE Pipeline!Collected
  <2>1. calls # <<>> /\ calls[Len(calls)].result = "collecting"
      BY <1>3, CollectedShape, LastCall DEF Pipeline!Collecting
  <2>2. \/ \E r \in Failures : Becomes(r, <<>>)
        \/ buf = <<>> /\ Becomes("decoding", <<>>) /\ raws' = raws
      BY <1>3, CollectedShape DEF Failures
  <2>3. \A r \in Failures : r \notin {"ok", "collecting", "decoding"}
      BY DEF Failures
  <2> QED
      BY <2>1, <2>2, <2>3, SeamlessBecomes
<1>4. CASE Pipeline!DecodeRaw
  <2>1. calls # <<>> /\ calls[Len(calls)].result = "decoding"
      BY <1>4, DecodeShape, LastCall DEF Pipeline!Decoding
  <2>2. \/ Becomes("decrypt_failed", <<>>)
        \/ \E frames : Becomes("decoding", frames) /\ raws' = raws
      BY <1>4, DecodeShape
  <2> QED
      BY <2>1, <2>2, SeamlessBecomes
<1>5. CASE Pipeline!DrainFrame
    BY <1>5, SeamlessDrains
<1>6. CASE Pipeline!Decoded
    BY <1>6, SeamlessReturns
<1> QED
    BY <1>1, <1>2, <1>3, <1>4, <1>5, <1>6, PipelineSteps

-----------------------------------------------------------------------------

(* A new pipeline has all the invariants.                                  *)
LEMMA PipelineBegins ==
    Pipeline!Init => Shape /\ RefusedStays /\ RestShows /\ NoncesTaken /\ Seamless
<1> SUFFICES ASSUME Pipeline!Init
             PROVE  Shape /\ RefusedStays /\ RestShows /\ NoncesTaken /\ Seamless
    OBVIOUS
<1>1. /\ calls = <<>> /\ raws = <<>> /\ buf = <<>> /\ Len(calls) = 0 /\ 1..0 = {}
      /\ counters = [d \in Pipeline!Directions |-> 0]
    BY DEF Pipeline!Init
<1>2. Shape
    BY <1>1 DEF Shape, Pipeline!Collecting, Pipeline!Decoding, Pipeline!Holds, Pipeline!HeaderPieces
<1>3. RefusedStays
    BY <1>1 DEF RefusedStays, Pipeline!RefusalIsFinal
<1>4. RestShows
    BY <1>1 DEF RestShows
<1>5. NoncesTaken
    BY <1>1 DEF NoncesTaken, InOrder, Below
<1>6. Seamless
    BY <1>1 DEF Seamless, SeamlessIn
<1> QED
    BY <1>2, <1>3, <1>4, <1>5, <1>6

(* A step of MCSpec is one of the source or one of the pipeline.           *)
LEMMA PipelineGoes ==
    /\ MCInit => Init /\ Pipeline!Init
    /\ [MCNext]_<<vars, subject, pipelineVars>> => [Next]_vars /\ [Pipeline!Next]_pipelineVars
<1>1. MCInit => Init /\ Pipeline!Init
    BY DEF MCInit
<1>2. ASSUME [MCNext]_<<vars, subject, pipelineVars>>
      PROVE  [Next]_vars /\ [Pipeline!Next]_pipelineVars
  <2>1. MCNext => [Next]_vars /\ [Pipeline!Next]_pipelineVars
      BY DEF MCNext
  <2> QED
      BY <1>2, <2>1
<1> QED
    BY <1>1, <1>2

(* Sources fed to one pipeline, from any recorded session and cut          *)
(* anywhere, lose no frame at their seams and repeat none; what one of     *)
(* them left unfinished never goes unnoticed, and a refused one makes      *)
(* every later one refused.                                                *)
THEOREM SourcesAlwaysJoin == MCSpec => []SourcesJoin
<1> DEFINE Inv == Shape /\ RefusedStays /\ RestShows /\ NoncesTaken /\ Seamless
<1>1. MCInit => Inv
    BY PipelineGoes, PipelineBegins
<1>2. Inv /\ [MCNext]_<<vars, subject, pipelineVars>> => Inv'
    BY PipelineGoes, ShapeKept, RefusedKept, RestKept, NoncesKept, SeamlessKept
<1>3. Inv => /\ Pipeline!TypeOK /\ Pipeline!SeamsLoseNothing /\ Pipeline!NoReplay
             /\ Pipeline!RestSurfaces /\ Pipeline!RefusalIsFinal
    BY ShapeIsTyped, SeamsJoined, NeverReplayed, RestSurfaced DEF RefusedStays
<1>4. MCSpec => []Inv
    BY <1>1, <1>2, PTL DEF MCSpec
<1>5. MCSpec => []OkEndsOnFrameBoundary
  <2>1. MCSpec => Spec
      BY PipelineGoes, PTL DEF MCSpec, Spec
  <2> QED
      BY <2>1, OkIsOnABoundary, PTL
<1> QED
    BY <1>3, <1>4, <1>5, PTL DEF SourcesJoin
=============================================================================
