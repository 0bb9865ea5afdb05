----------------------- MODULE ExternalBoundaryProofs -----------------------
(***************************************************************************)
(* The lifecycle of an external connection, for every set of frames, every *)
(* chunking and every limit: the connection and its session close          *)
(* together, and the log says so once.  Nothing is needed about what the   *)
(* frames are; what is needed of a step is what it appends to the log.     *)
(***************************************************************************)
EXTENDS ExternalBoundary, FiniteSetTheorems, SequenceTheorems, TLAPS

LiveStates == {"WaitingForServiceHandshake", "ServiceHandshakeComplete", "SessionEstablished",
               "EncryptedChannelEstablished", "Active"}

(* Chunks are only handled on a connection that is being read.             *)
Life ==
    /\ conn \in {"Accepted", "Reading", "ProtocolActive", "Closed"}
    /\ state \in LiveStates \cup {"Closed"}
    /\ step = "feeding" => conn \in {"Reading", "ProtocolActive"}
    /\ LifecyclesAgree

(* A message that is accepted leaves a live session live.                  *)
LEMMA StaysLive ==
    ASSUME NEW s \in LiveStates, NEW m
    PROVE  CompleteEncryptedHandshake(StateAfter(s, m)) \in LiveStates
<1>1. CASE s \in ReadyStates
    BY <1>1 DEF StateAfter, CompleteEncryptedHandshake, LiveStates
<1>2. CASE s \notin ReadyStates /\ Awaits(s, m.id)
  <2> DEFINE t == CHOOSE t \in States : <<s, m.id, t>> \in HandshakeSteps
  <2>1. <<s, m.id, t>> \in HandshakeSteps
      BY <1>2 DEF Awaits
  <2>2. StateAfter(s, m) = t
      BY <1>2 DEF StateAfter
  <2> HIDE DEF t
  <2>3. t \in {"ServiceHandshakeComplete", "SessionEstablished", "WaitingForEncryptedHandshake"}
      BY <2>1 DEF HandshakeSteps
  <2> QED
      BY <2>2, <2>3 DEF CompleteEncryptedHandshake, LiveStates
<1>3. CASE s \notin ReadyStates /\ ~Awaits(s, m.id)
    BY <1>3 DEF StateAfter, CompleteEncryptedHandshake, LiveStates
<1> QED
    BY <1>1, <1>2, <1>3

-----------------------------------------------------------------------------
(* The log                                                                 *)

CountIn(l, e) == Cardinality({i \in 1..Len(l) : l[i] = e})

LEMMA CountInType ==
    ASSUME NEW l \in Seq(Events), NEW e
    PROVE  IsFiniteSet({i \in 1..Len(l) : l[i] = e}) /\ CountIn(l, e) \in Nat
<1>1. IsFiniteSet(1..Len(l))
    BY FS_Interval
<1> QED
    BY <1>1, FS_Subset, FS_CardinalityType DEF CountIn

LEMMA CountInAppend ==
    ASSUME NEW l \in Seq(Events), NEW x \in Events, NEW e
    PROVE  CountIn(Append(l, x), e) = CountIn(l, e) + IF x = e THEN 1 ELSE 0
<1> DEFINE n == Len(l)
           v == Append(l, x)
           At(s) == {i \in 1..Len(s) : s[i] = e}
<1>1. n \in Nat /\ Len(v) = n + 1 /\ v[n + 1] = x /\ \A i \in 1..n : v[i] = l[i]
    OBVIOUS
<1>2. IsFiniteSet(At(l)) /\ Cardinality(At(l)) \in Nat
    BY CountInType DEF CountIn
<1>3. CountIn(v, e) = Cardinality(At(v)) /\ CountIn(l, e) = Cardinality(At(l))
    BY DEF CountIn
<1>4. CASE x = e
  <2>1. At(v) = At(l) \cup {n + 1} /\ n + 1 \notin At(l)
    <3> HIDE DEF v
    <3> QED
        BY <1>1, <1>4
  <2>2. Cardinality(At(l) \cup {n + 1}) = Cardinality(At(l)) + 1
    <3> HIDE DEF At, n
    <3> QED
        BY <1>2, <2>1, FS_AddElement
  <2>3. Cardinality(At(v)) = Cardinality(At(l)) + 1
      BY <2>1, <2>2
  <2> HIDE DEF At
  <2> QED
      BY <1>2, <1>3, <1>4, <2>3
<1>5. CASE x # e
  <2>1. At(v) = At(l)
    <3> HIDE DEF v
    <3> QED
        BY <1>1, <1>5
  <2> HIDE DEF At
  <2> QED
      BY <1>2, <1>3, <1>5, <2>1
<1> QED
    BY <1>4, <1>5

(* What is recovered and has no verdict yet.                               *)
Pending(l) == CountIn(l, "recovered") - CountIn(l, "protocol") - CountIn(l, "frame_rejected")

Weight(e) == IF e = "recovered" THEN 1
             ELSE IF e \in {"protocol", "frame_rejected"} THEN -1 ELSE 0

(* The log of a connection not closed, with b frames without a verdict.    *)
Open(l, b) ==
    /\ l \in Seq(Events)
    /\ CountIn(l, "closed") = 0
    /\ Pending(l) = b

(* The log of a connection between two steps.                              *)
Told(l, closed) ==
    /\ l \in Seq(Events)
    /\ CountIn(l, "closed") = IF closed THEN 1 ELSE 0
    /\ \A i \in 1..Len(l) - 1 : l[i] = "closed" => l[i + 1] = "error"
    /\ Pending(l) = 0

LEMMA NoneClosed ==
    ASSUME NEW l \in Seq(Events), CountIn(l, "closed") = 0
    PROVE  \A i \in 1..Len(l) : l[i] # "closed"
<1>1. {i \in 1..Len(l) : l[i] = "closed"} = {}
    BY CountInType, FS_EmptySet DEF CountIn
<1> QED
    BY <1>1

LEMMA PendingAppend ==
    ASSUME NEW l \in Seq(Events), NEW e \in Events
    PROVE  /\ Pending(l) \in Int
           /\ Pending(Append(l, e)) = Pending(l) + Weight(e)
           /\ Append(l, e) \in Seq(Events)
<1>1. /\ CountIn(l, "recovered") \in Nat
      /\ CountIn(l, "protocol") \in Nat
      /\ CountIn(l, "frame_rejected") \in Nat
    BY CountInType
<1>2. \A x : CountIn(Append(l, e), x) = CountIn(l, x) + IF e = x THEN 1 ELSE 0
    BY CountInAppend
<1> QED
    BY <1>1, <1>2 DEF Pending, Weight

LEMMA OpenAppend ==
    ASSUME NEW l, NEW b \in Int, Open(l, b), NEW e \in Events \ {"closed"}
    PROVE  Open(Append(l, e), b + Weight(e))
<1>1. CountIn(Append(l, e), "closed") = 0
    BY CountInAppend DEF Open
<1> QED
    BY <1>1, PendingAppend DEF Open

LEMMA ClosedAppend ==
    ASSUME NEW l, Open(l, 0)
    PROVE  Told(Append(l, "closed"), TRUE)
<1>1. l \in Seq(Events) /\ "closed" \in Events
    BY DEF Open, Events
<1>2. CountIn(Append(l, "closed"), "closed") = 1
    BY <1>1, CountInAppend DEF Open
<1>3. \A i \in 1..Len(l) : l[i] # "closed"
    BY <1>1, NoneClosed DEF Open
<1>4. \A i \in 1..Len(Append(l, "closed")) - 1 : Append(l, "closed")[i] # "closed"
    BY <1>1, <1>3
<1> QED
    BY <1>1, <1>2, <1>4, PendingAppend DEF Open, Told, Weight

LEMMA OpenIsTold ==
    ASSUME NEW l
    PROVE  Open(l, 0) <=> Told(l, FALSE)
<1>1. ASSUME Open(l, 0) PROVE Told(l, FALSE)
  <2>1. \A i \in 1..Len(l) : l[i] # "closed"
      BY <1>1, NoneClosed DEF Open
  <2> QED
      BY <1>1, <2>1 DEF Open, Told
<1> QED
    BY <1>1 DEF Open, Told

(* An error may be logged at any time.                                     *)
LEMMA ErrorAppend ==
    ASSUME NEW l, NEW closed \in BOOLEAN, Told(l, closed)
    PROVE  Told(Append(l, "error"), closed)
<1>1. l \in Seq(Events) /\ "error" \in Events
    BY DEF Told, Events
<1>2. CountIn(Append(l, "error"), "closed") = IF closed THEN 1 ELSE 0
    BY <1>1, CountInAppend, CountInType DEF Told
<1>3. ASSUME NEW i \in 1..Len(l), Append(l, "error")[i] = "closed"
      PROVE  Append(l, "error")[i + 1] = "error"
  <2>1. CASE i = Len(l)
      BY <1>1, <2>1
  <2>2. CASE i \in 1..Len(l) - 1
      BY <1>1, <1>3, <2>2 DEF Told
  <2> QED
      BY <1>1, <2>1, <2>2
<1>4. Len(Append(l, "error")) - 1 = Len(l)
    BY <1>1
<1> QED
    BY <1>1, <1>2, <1>3, <1>4, PendingAppend DEF Told, Weight

-----------------------------------------------------------------------------
(* The steps                                                               *)

Agrees == Life /\ Told(log, conn = "Closed")

(* A close that is logged after what comes before it, or after nothing     *)
(* more when there was one.                                                *)
LEMMA CloseAgrees ==
    ASSUME NEW logged,
           conn = "Closed" => state = "Closed" /\ Told(logged, TRUE),
           conn # "Closed" => Open(logged, 0),
           BeginClose(logged), step' # "feeding"
    PROVE  Agrees'
<1>1. conn' = "Closed" /\ state' = "Closed"
    BY DEF BeginClose
<1>2. Told(log', TRUE)
    BY ClosedAppend DEF BeginClose
<1> QED
    BY <1>1, <1>2 DEF Agrees, Life, LifecyclesAgree, InitialState

LEMMA ReturnEnds ==
    ASSUME NEW kind, Return(kind)
    PROVE  step' # "feeding"
BY DEF Return

(* What Agrees says of a connection before a step.                         *)
LEMMA Before ==
    ASSUME Agrees
    PROVE  /\ conn = "Closed" => state = "Closed" /\ Told(log, TRUE)
           /\ conn # "Closed" => state \in LiveStates /\ Open(log, 0)
<1>1. conn = "Closed" => Told(log, TRUE)
    BY DEF Agrees
<1>2. conn # "Closed" => Told(log, FALSE)
    BY DEF Agrees
<1> QED
    BY <1>1, <1>2, OpenIsTold DEF Agrees, Life, LifecyclesAgree

(* A step that leaves the lifecycle alone.                                 *)
LEMMA SameAgrees ==
    ASSUME Agrees, UNCHANGED <<conn, state, log>>, step' # "feeding" \/ UNCHANGED step
    PROVE  Agrees'
BY DEF Agrees, Life, LifecyclesAgree

LEMMA InitAgrees == Init => Agrees
<1> SUFFICES ASSUME Init PROVE Agrees
    OBVIOUS
<1> DEFINE none == <<>>
<1>1. log = Append(none, "accepted") /\ "accepted" \in Events \ {"closed"}
    BY DEF Init, Events
<1>2. \A e : CountIn(none, e) = 0
    BY FS_EmptySet DEF CountIn
<1>3. Open(none, 0)
    BY <1>2 DEF Open, Pending
<1> HIDE DEF none
<1>4. Open(log, 0)
    BY <1>1, <1>3, OpenAppend DEF Weight
<1> QED
    BY <1>4, OpenIsTold DEF Init, Agrees, Life, LifecyclesAgree, LiveStates, InitialState

LEMMA FeedAgrees ==
    ASSUME Agrees, NEW new, NEW cut, FeedBytes(new, cut)
    PROVE  Agrees'
<1>1. CASE FeedClosed
    BY <1>1, SameAgrees, ReturnEnds DEF FeedClosed
<1>2. ASSUME NEW all, FeedOpen(all, cut) PROVE Agrees'
  <2>1. conn # "Closed" /\ state \in LiveStates /\ Open(log, 0)
      BY <1>2, Before DEF FeedOpen
  <2>2. log \o <<"bytes">> = Append(log, "bytes")
      BY <2>1 DEF Open
  <2>3. Open(Append(log, "bytes"), 0)
      BY <2>1, OpenAppend DEF Events, Weight
  <2>4. Open(Append(log, "input_rejected"), 0)
      BY <2>1, OpenAppend DEF Events, Weight
  <2>5. Open(Append(Append(log, "bytes"), "input_rejected"), 0)
      BY <2>3, OpenAppend DEF Events, Weight
  <2>6. ASSUME NEW logged, Open(logged, 0), BeginClose(logged), NEW kind, Return(kind)
        PROVE  Agrees'
      BY <2>1, <2>6, CloseAgrees, ReturnEnds
  <2>7. CASE /\ conn' = IF conn = "Accepted" THEN "Reading" ELSE conn
             /\ log' = Append(log, "bytes")
             /\ UNCHANGED state
    <3>1. conn' # "Closed" /\ Told(log', FALSE)
        BY <2>1, <2>3, <2>7, OpenIsTold
    <3> QED
        BY <2>1, <2>7, <3>1 DEF Agrees, Life, LifecyclesAgree, LiveStates
  <2> QED
      BY <1>2, <2>2, <2>4, <2>5, <2>6, <2>7 DEF FeedOpen
<1> QED
    BY <1>1, <1>2 DEF FeedBytes

LEMMA HandleAgrees ==
    ASSUME Agrees, HandleFrame
    PROVE  Agrees'
<1> DEFINE f == Head(queue)
           m == [id |-> f.id, dir |-> "c2s"]
<1>1. conn \in {"Reading", "ProtocolActive"} /\ state \in LiveStates /\ Open(log, 0)
    BY Before DEF HandleFrame, Agrees, Life
<1>2. Open(Recovered, 1)
    BY <1>1, OpenAppend DEF Recovered, Events, Weight
<1>3. Open(Append(Recovered, "frame_rejected"), 0) /\ Open(Append(Recovered, "protocol"), 0)
    BY <1>2, OpenAppend DEF Events, Weight
<1>4. CASE HandleCryptoError(f)
    BY <1>1, <1>3, <1>4, CloseAgrees, ReturnEnds DEF HandleCryptoError
<1>5. CASE HandleRejected(f)
  <2>1. Open(Append(Append(Recovered, "frame_rejected"), "protocol_rejected"), 0)
      BY <1>3, OpenAppend DEF Events, Weight
  <2>2. Recovered \o <<"frame_rejected", "protocol_rejected">>
            = Append(Append(Recovered, "frame_rejected"), "protocol_rejected")
      BY <1>2 DEF Open
  <2> QED
      BY <1>1, <1>5, <2>1, <2>2, CloseAgrees, ReturnEnds DEF HandleRejected
<1>6. CASE HandleProtocolError(f)
  <2>1. state' = state \/ (state \in ReadyStates /\ state' = "Active")
      BY <1>6 DEF HandleProtocolError, PolicyRejects, StateAfter
  <2>2. conn' = conn /\ log' = Append(Recovered, "frame_rejected") /\ step' # "feeding"
      BY <1>6, ReturnEnds DEF HandleProtocolError
  <2>3. Told(log', FALSE)
      BY <1>3, <2>2, OpenIsTold
  <2>4. state \in ReadyStates => conn = "ProtocolActive"
      BY <1>1 DEF Agrees, Life, LifecyclesAgree, ReadyStates, InitialState
  <2> QED
      BY <1>1, <2>1, <2>2, <2>3, <2>4 DEF Agrees, Life, LifecyclesAgree, LiveStates
<1>7. CASE HandleAccepted(f)
  <2>1. state' \in LiveStates
      BY <1>1, <1>7, StaysLive DEF HandleAccepted
  <2>2. conn' = "ProtocolActive" /\ log' = Append(Recovered, "protocol")
      BY <1>1, <1>7 DEF HandleAccepted
  <2>3. Told(log', FALSE)
      BY <1>3, <2>2, OpenIsTold
  <2> QED
      BY <2>1, <2>2, <2>3 DEF Agrees, Life, LifecyclesAgree, LiveStates
<1> QED
    BY <1>4, <1>5, <1>6, <1>7 DEF HandleFrame

LEMMA NextAgrees ==
    ASSUME Agrees, [Next]_vars
    PROVE  Agrees'
<1>1. CASE Feed
    BY <1>1, FeedAgrees DEF Feed
<1>2. CASE HandleFrame
    BY <1>2, HandleAgrees
<1>3. CASE FeedReturns
    BY <1>3, SameAgrees, ReturnEnds DEF FeedReturns
<1>4. CASE Close \/ ReadEnds
  <2>1. step' # "feeding"
      BY <1>4 DEF Close, ReadEnds
  <2>2. BeginClose(log)
      BY <1>4 DEF Close, ReadEnds
  <2> QED
      BY <2>1, <2>2, Before, CloseAgrees
<1>5. CASE HandleFailure
  <2>1. conn = "Closed" => Told(Append(log, "error"), TRUE)
      BY Before, ErrorAppend
  <2>2. conn # "Closed" => Open(Append(log, "error"), 0)
      BY Before, OpenAppend DEF Events, Weight
  <2> QED
      BY <1>5, <2>1, <2>2, Before, CloseAgrees DEF HandleFailure
<1>6. CASE SetUnknownPolicy
    BY <1>6, SameAgrees DEF SetUnknownPolicy
<1>7. CASE FlushEvents
    BY <1>7, SameAgrees DEF FlushEvents
<1>8. CASE UNCHANGED vars
    BY <1>8, SameAgrees DEF vars
<1> QED
    BY <1>1, <1>2, <1>3, <1>4, <1>5, <1>6, <1>7, <1>8 DEF Next, Work

LEMMA AgreesAlways == Spec => []Agrees
<1>1. Agrees /\ [Next]_vars => Agrees'
    BY NextAgrees
<1> QED
    BY <1>1, InitAgrees, PTL DEF Spec

(* The connection and its session are Closed together, and a session that  *)
(* has moved belongs to an active connection.                              *)
THEOREM LifecyclesAlwaysAgree == Spec => []LifecyclesAgree
<1>1. Agrees => LifecyclesAgree
    BY DEF Agrees, Life
<1> QED
    BY <1>1, AgreesAlways, PTL

(* Closing is logged once and when it happens, only an error can follow    *)
(* it, and each recovered frame has one verdict.                           *)
THEOREM LogAlwaysTells == Spec => []LogTellsTheLife
<1>1. Agrees => LogTellsTheLife
  <2> SUFFICES ASSUME Agrees PROVE LogTellsTheLife
      OBVIOUS
  <2>1. log \in Seq(Events)
      BY DEF Agrees, Told
  <2>2. \A e : Count(e) = CountIn(log, e) /\ CountIn(log, e) \in Nat
      BY <2>1, CountInType DEF Count, CountIn
  <2>3. CountIn(log, "recovered") = CountIn(log, "protocol") + CountIn(log, "frame_rejected")
      BY <2>2 DEF Agrees, Told, Pending
  <2> QED
      BY <2>2, <2>3 DEF Agrees, Told, LogTellsTheLife
<1> QED
    BY <1>1, AgreesAlways, PTL

-----------------------------------------------------------------------------
(* Types                                                                   *)

(* What a close keeps: the log only grows, and the buffer is emptied.      *)
LEMMA CloseTyped ==
    ASSUME TypeOK, NEW logged \in Seq(Events), Len(logged) >= Len(log), BeginClose(logged)
    PROVE  /\ conn' \in {"Accepted", "Reading", "ProtocolActive", "Closed"}
           /\ state' \in LiveStates \cup {"Closed"}
           /\ partial' \in Seq(Frames) /\ Len(partial') <= 1
           /\ log' \in Seq(Events) /\ Len(log') >= Len(log)
<1>1. CASE conn = "Closed"
    BY <1>1 DEF BeginClose, TypeOK, States, LiveStates
<1>2. CASE conn # "Closed"
  <2>1. log' = Append(logged, "closed") /\ "closed" \in Events
      BY <1>2 DEF BeginClose, Events
  <2>2. partial' = <<>> /\ conn' = "Closed" /\ state' = "Closed"
      BY <1>2 DEF BeginClose
  <2>3. Len(log) \in Nat
      BY DEF TypeOK
  <2> QED
      BY <2>1, <2>2, <2>3
<1> QED
    BY <1>1, <1>2

LEMMA ReturnTyped ==
    ASSUME NEW kind \in Results, Return(kind)
    PROVE  /\ result' \in Results
           /\ queue' \in Seq(Frames) /\ Len(queue') <= MaxFramesPerIter
           /\ step' \in {"idle", "failing", "flushing"}
BY LimitsAssumption DEF Return

LEMMA EncryptedType ==
    ASSUME NEW s \in Seq(Frames)
    PROVE  Encrypted(s) \in Nat
<1>1. IsFiniteSet(1..Len(s))
    BY FS_Interval
<1>2. IsFiniteSet({i \in 1..Len(s) : s[i].enc})
    BY <1>1, FS_Subset
<1> QED
    BY <1>2, FS_CardinalityType DEF Encrypted

LEMMA StatesTyped == States \ {"Connected", "WaitingForSessionLogin",
                               "WaitingForEncryptedHandshake", "Closing"}
                         = LiveStates \cup {"Closed"}
BY DEF States, LiveStates

LEMMA FeedTyped ==
    ASSUME Agrees, TypeOK, NEW n \in Nat, NEW new \in [1..n -> Frames], NEW cut \in BOOLEAN,
           FeedBytes(new, cut)
    PROVE  TypeOK'
<1> DEFINE all == partial \o new
           drained == IF cut THEN Front(all) ELSE all
<1>1. new \in Seq(Frames) /\ all \in Seq(Frames)
    BY DEF TypeOK
<1>2. cut => Len(all) > 0 /\ Front(all) \in Seq(Frames) /\ Last(all) \in Frames
  <2> SUFFICES ASSUME cut PROVE Len(all) > 0 /\ Front(all) \in Seq(Frames) /\ Last(all) \in Frames
      OBVIOUS
  <2>1. all # <<>>
      BY DEF FeedBytes
  <2> HIDE DEF all
  <2>2. Len(all) \in Nat \ {0}
      BY <1>1, <2>1
  <2> QED
      BY <1>1, <2>2 DEF Front, Last
<1>3. drained \in Seq(Frames)
  <2> HIDE DEF all
  <2> QED
      BY <1>1, <1>2
<1>4. /\ feeds' \in 0..MaxFeeds
      /\ UNCHANGED <<owner, unknown, sdec, senc, sink>>
    BY LimitsAssumption DEF FeedBytes, TypeOK
<1> DEFINE Moved == /\ conn' \in {"Accepted", "Reading", "ProtocolActive", "Closed"}
                    /\ state' \in LiveStates \cup {"Closed"}
                    /\ partial' \in Seq(Frames) /\ Len(partial') <= 1
                    /\ log' \in Seq(Events) /\ Len(log') >= Len(log)
                    /\ step' \in {"idle", "feeding", "failing", "flushing", "ended"}
                    /\ queue' \in Seq(Frames) /\ Len(queue') <= MaxFramesPerIter
                    /\ result' \in Results
                    /\ peer' \in Nat /\ tampered' \in BOOLEAN
<1>5. Moved => TypeOK'
    BY <1>4, StatesTyped DEF TypeOK
<1>6. CASE FeedClosed
  <2>1. "already_closed" \in Results
      BY DEF Results
  <2> QED
      BY <1>5, <1>6, <2>1, ReturnTyped, StatesTyped DEF FeedClosed, TypeOK
<1>7. CASE FeedOpen(all, cut)
  <2>1. log \in Seq(Events) /\ log \o <<"bytes">> = Append(log, "bytes")
      BY DEF TypeOK
  <2>2. /\ Append(log, "bytes") \in Seq(Events)
        /\ Len(Append(log, "bytes")) = Len(log) + 1
        /\ Append(log, "input_rejected") \in Seq(Events)
        /\ Len(Append(log, "input_rejected")) = Len(log) + 1
        /\ Append(Append(log, "bytes"), "input_rejected") \in Seq(Events)
        /\ Len(Append(Append(log, "bytes"), "input_rejected")) = Len(log) + 2
        /\ Len(log) \in Nat
      BY <2>1 DEF Events
  <2>3. ASSUME NEW logged \in Seq(Events), Len(logged) >= Len(log), BeginClose(logged),
               NEW kind \in Results, Return(kind), UNCHANGED <<peer, tampered>>
        PROVE  Moved
      BY <2>3, CloseTyped, ReturnTyped DEF TypeOK
  <2>4. ASSUME
             /\ conn' = IF conn = "Accepted" THEN "Reading" ELSE conn
             /\ log' = Append(log, "bytes")
             /\ partial' = IF cut THEN <<Last(all)>> ELSE <<>>
             /\ queue' = drained
             /\ ~TooMany(drained)
             /\ step' = "feeding"
             /\ peer' = peer + Encrypted(drained)
             /\ tampered' \in BOOLEAN
             /\ UNCHANGED <<state, result>>
        PROVE  Moved
    <3> HIDE DEF drained, all
    <3>1. partial' \in Seq(Frames) /\ Len(partial') <= 1
        BY <1>2, <2>4
    <3>2. queue' \in Seq(Frames) /\ Len(queue') <= MaxFramesPerIter
        BY <1>3, <2>4, LimitsAssumption DEF TooMany
    <3>3. peer' \in Nat /\ tampered' \in BOOLEAN
        BY <1>3, <2>4, EncryptedType DEF TypeOK
    <3>4. /\ conn' \in {"Accepted", "Reading", "ProtocolActive", "Closed"}
          /\ state' \in LiveStates \cup {"Closed"}
          /\ result' \in Results
        BY <2>4, StatesTyped DEF TypeOK
    <3> QED
        BY <2>2, <2>4, <3>1, <3>2, <3>3, <3>4
  <2>5. "limit" \in Results /\ "framing" \in Results
      BY DEF Results
  <2>6. tampered' \in BOOLEAN
      BY <1>7 DEF FeedOpen, TypeOK
  <2>7. \/ \E logged \in {Append(log, "input_rejected"),
                          Append(Append(log, "bytes"), "input_rejected")} :
             \E kind \in {"limit", "framing"} :
                BeginClose(logged) /\ Return(kind) /\ UNCHANGED <<peer, tampered>>
        \/ /\ conn' = IF conn = "Accepted" THEN "Reading" ELSE conn
           /\ log' = Append(log, "bytes")
           /\ partial' = IF cut THEN <<Last(all)>> ELSE <<>>
           /\ queue' = drained
           /\ ~TooMany(drained)
           /\ step' = "feeding"
           /\ peer' = peer + Encrypted(drained)
           /\ UNCHANGED <<state, result>>
      BY <1>7, <2>1 DEF FeedOpen
  <2> HIDE DEF Moved, all, drained
  <2>8. \A logged \in {Append(log, "input_rejected"),
                      Append(Append(log, "bytes"), "input_rejected")} :
            logged \in Seq(Events) /\ Len(logged) >= Len(log)
    <3>1. Len(Append(log, "input_rejected")) >= Len(log)
        BY <2>2
    <3>2. Len(Append(Append(log, "bytes"), "input_rejected")) >= Len(log)
        BY <2>2
    <3> QED
        BY <2>2, <3>1, <3>2, Zenon
  <2>9. ASSUME NEW logged \in {Append(log, "input_rejected"),
                               Append(Append(log, "bytes"), "input_rejected")},
               NEW kind \in {"limit", "framing"},
               BeginClose(logged), Return(kind), UNCHANGED <<peer, tampered>>
        PROVE  Moved
    <3>1. kind \in Results
        BY <2>5
    <3> QED
        BY <2>3, <2>8, <2>9, <3>1
  <2>10. Moved
      BY <2>4, <2>6, <2>7, <2>9
  <2> QED
      BY <1>5, <2>10
<1> QED
    BY <1>6, <1>7 DEF FeedBytes

LEMMA HandleTyped ==
    ASSUME Agrees, TypeOK, HandleFrame
    PROVE  TypeOK'
<1> DEFINE f == Head(queue)
           m == [id |-> f.id, dir |-> "c2s"]
           reply == Replies(state, f.id, TRUE)
<1>1. log \in Seq(Events) /\ Len(log) \in Nat /\ Recovered = Append(log, "recovered")
    BY DEF TypeOK, Recovered
<1>2. /\ Recovered \in Seq(Events) /\ Len(Recovered) = Len(log) + 1
      /\ Append(Recovered, "frame_rejected") \in Seq(Events)
      /\ Len(Append(Recovered, "frame_rejected")) = Len(log) + 2
      /\ Append(Recovered, "protocol") \in Seq(Events)
      /\ Len(Append(Recovered, "protocol")) = Len(log) + 2
      /\ Recovered \o <<"frame_rejected", "protocol_rejected">> \in Seq(Events)
      /\ Len(Recovered \o <<"frame_rejected", "protocol_rejected">>) = Len(log) + 3
    BY <1>1 DEF Events
<1>3. "crypto" \in Results /\ "protocol" \in Results /\ "io" \in Results
    BY DEF Results
<1>4. UNCHANGED <<owner, unknown, sink, peer, tampered, feeds>>
    BY DEF HandleFrame
<1>5. conn' \in {"Accepted", "Reading", "ProtocolActive", "Closed"}
         /\ state' \in LiveStates \cup {"Closed"}
    BY HandleAgrees DEF Agrees, Life
<1> DEFINE Moved == /\ sdec' \in Nat /\ senc' \in Nat
                    /\ partial' \in Seq(Frames) /\ Len(partial') <= 1
                    /\ log' \in Seq(Events) /\ Len(log') >= Len(log)
                    /\ step' \in {"idle", "feeding", "failing", "flushing", "ended"}
                    /\ queue' \in Seq(Frames) /\ Len(queue') <= MaxFramesPerIter
                    /\ result' \in Results
<1>6. Moved => TypeOK'
    BY <1>4, <1>5, StatesTyped DEF TypeOK
<1>7. CASE HandleCryptoError(f)
  <2>1. sdec' \in Nat /\ senc' \in Nat
      BY <1>7 DEF HandleCryptoError, TypeOK
  <2> DEFINE logged == Append(Recovered, "frame_rejected")
  <2>2. BeginClose(logged) /\ Return("crypto")
      BY <1>7 DEF HandleCryptoError
  <2>3. logged \in Seq(Events) /\ Len(logged) >= Len(log)
      BY <1>1, <1>2
  <2> HIDE DEF logged, Moved
  <2>4. /\ partial' \in Seq(Frames) /\ Len(partial') <= 1
        /\ log' \in Seq(Events) /\ Len(log') >= Len(log)
      BY <2>2, <2>3, CloseTyped
  <2> QED
      BY <1>3, <1>6, <2>1, <2>2, <2>4, ReturnTyped DEF Moved
<1>8. CASE HandleRejected(f)
  <2>1. sdec' \in Nat /\ senc' \in Nat
      BY <1>8 DEF HandleRejected, Decoded, TypeOK
  <2> DEFINE logged == Recovered \o <<"frame_rejected", "protocol_rejected">>
  <2>2. BeginClose(logged) /\ Return("protocol")
      BY <1>8 DEF HandleRejected
  <2>3. logged \in Seq(Events) /\ Len(logged) >= Len(log)
      BY <1>1, <1>2
  <2> HIDE DEF logged, Moved
  <2>4. /\ partial' \in Seq(Frames) /\ Len(partial') <= 1
        /\ log' \in Seq(Events) /\ Len(log') >= Len(log)
      BY <2>2, <2>3, CloseTyped
  <2> QED
      BY <1>3, <1>6, <2>1, <2>2, <2>4, ReturnTyped DEF Moved
<1>9. CASE HandleProtocolError(f)
  <2>1. sdec' \in Nat /\ senc' \in Nat
      BY <1>9 DEF HandleProtocolError, Decoded, TypeOK
  <2>2. partial' \in Seq(Frames) /\ Len(partial') <= 1
      BY <1>9 DEF HandleProtocolError, TypeOK
  <2>3. log' \in Seq(Events) /\ Len(log') >= Len(log)
      BY <1>1, <1>2, <1>9 DEF HandleProtocolError
  <2> QED
      BY <1>3, <1>6, <1>9, <2>1, <2>2, <2>3, ReturnTyped DEF HandleProtocolError
<1>10. CASE HandleAccepted(f)
  <2>1. reply \cap EncryptedReplies \subseteq {"x7A", "xSYN_RSP"}
      BY DEF EncryptedReplies
  <2>2. Cardinality(reply \cap EncryptedReplies) \in Nat
    <3> HIDE DEF reply
    <3>1. IsFiniteSet({"x7A"} \cup {"xSYN_RSP"})
        BY FS_Singleton, FS_Union
    <3> QED
        BY <2>1, <3>1, FS_Subset, FS_CardinalityType DEF EncryptedReplies
  <2>3. sdec' \in Nat /\ senc' \in Nat
      BY <1>10, <2>2 DEF HandleAccepted, Decoded, TypeOK
  <2>4. partial' \in Seq(Frames) /\ Len(partial') <= 1
      BY <1>10 DEF HandleAccepted, TypeOK
  <2>5. log' \in Seq(Events) /\ Len(log') >= Len(log)
      BY <1>1, <1>2, <1>10 DEF HandleAccepted
  <2>6. CASE queue' = Tail(queue) /\ UNCHANGED <<step, result>>
    <3>1. queue' \in Seq(Frames) /\ Len(queue') <= MaxFramesPerIter
        BY <2>6, LimitsAssumption DEF HandleFrame, TypeOK
    <3> QED
        BY <1>6, <2>3, <2>4, <2>5, <2>6, <3>1 DEF TypeOK
  <2>7. CASE Return("io")
      BY <1>3, <1>6, <2>3, <2>4, <2>5, <2>7, ReturnTyped
  <2> QED
      BY <1>10, <2>6, <2>7 DEF HandleAccepted
<1> QED
    BY <1>7, <1>8, <1>9, <1>10 DEF HandleFrame

LEMMA InitTyped == Init => TypeOK
<1> SUFFICES ASSUME Init PROVE TypeOK
    OBVIOUS
<1>1. log \in Seq(Events) /\ Len(log) = 1
    BY DEF Init, Events
<1>2. /\ partial \in Seq(Frames) /\ Len(partial) <= 1
      /\ queue \in Seq(Frames) /\ Len(queue) <= MaxFramesPerIter
    BY LimitsAssumption DEF Init
<1>3. /\ feeds \in 0..MaxFeeds /\ sink \in 0..Len(log)
      /\ sdec \in Nat /\ senc \in Nat /\ peer \in Nat /\ tampered \in BOOLEAN
  <2>1. feeds = 0 /\ sink = 0 /\ sdec = 0 /\ senc = 0 /\ peer = 0 /\ tampered = FALSE
      BY DEF Init
  <2>2. feeds \in 0..MaxFeeds
      BY <2>1, LimitsAssumption
  <2>3. sink \in 0..Len(log)
      BY <1>1, <2>1
  <2>4. tampered \in BOOLEAN
      BY <2>1
  <2> QED
      BY <2>1, <2>2, <2>3, <2>4
<1>4. /\ owner \in {"worker", "offline"}
      /\ conn \in {"Accepted", "Reading", "ProtocolActive", "Closed"}
      /\ state \in LiveStates \cup {"Closed"}
      /\ unknown \in UnknownPolicies
      /\ step \in {"idle", "feeding", "failing", "flushing", "ended"}
      /\ result \in Results
    BY DEF Init, LiveStates, InitialState, UnknownPolicies, Results
<1> QED
    BY <1>1, <1>2, <1>3, <1>4, StatesTyped DEF TypeOK

LEMMA NextTyped ==
    ASSUME Agrees, TypeOK, [Next]_vars
    PROVE  TypeOK'
<1>1. log \in Seq(Events) /\ Len(log) \in Nat
    BY DEF TypeOK
<1>2. CASE Feed
    BY <1>2, FeedTyped, LimitsAssumption DEF Feed
<1>3. CASE HandleFrame
    BY <1>3, HandleTyped
<1>4. CASE FeedReturns
  <2>1. "ok" \in Results
      BY DEF Results
  <2> QED
      BY <1>4, <2>1, ReturnTyped DEF FeedReturns, TypeOK
<1>5. CASE Close \/ ReadEnds
    BY <1>1, <1>5, CloseTyped, StatesTyped DEF Close, ReadEnds, TypeOK
<1>6. CASE HandleFailure
  <2>1. Append(log, "error") \in Seq(Events) /\ Len(Append(log, "error")) >= Len(log)
      BY <1>1 DEF Events
  <2>2. /\ conn' \in {"Accepted", "Reading", "ProtocolActive", "Closed"}
        /\ state' \in LiveStates \cup {"Closed"}
        /\ partial' \in Seq(Frames) /\ Len(partial') <= 1
        /\ log' \in Seq(Events) /\ Len(log') >= Len(log)
      BY <1>6, <2>1, CloseTyped DEF HandleFailure
  <2> QED
      BY <1>1, <1>6, <2>1, <2>2, StatesTyped DEF HandleFailure, TypeOK
<1>7. CASE SetUnknownPolicy
    BY <1>7 DEF SetUnknownPolicy, TypeOK, UnknownPolicies
<1>8. CASE FlushEvents
    BY <1>1, <1>8 DEF FlushEvents, TypeOK
<1>9. CASE UNCHANGED vars
    BY <1>9 DEF vars, TypeOK
<1> QED
    BY <1>2, <1>3, <1>4, <1>5, <1>6, <1>7, <1>8, <1>9 DEF Next, Work

(* In particular no more frames wait than one call may handle, at most one *)
(* header is buffered, and the collector is never ahead of the log.        *)
THEOREM TypeCorrect == Spec => []TypeOK
<1>1. Agrees /\ TypeOK /\ [Next]_vars => TypeOK'
    BY NextTyped
<1> QED
    BY <1>1, InitTyped, AgreesAlways, PTL DEF Spec

-----------------------------------------------------------------------------
(* The counters of a worker                                                *)

(* The encrypted frames of a queue are those of its tail, and its head.    *)
LEMMA EncryptedTail ==
    ASSUME NEW s \in Seq(Frames), s # <<>>
    PROVE  Encrypted(s) = Encrypted(Tail(s)) + IF Head(s).enc THEN 1 ELSE 0
<1> DEFINE n == Len(s)
           t == Tail(s)
           later == {i \in 1..Len(t) : t[i].enc}
           moved == {i \in 2..n : s[i].enc}
           f == [i \in later |-> i + 1]
<1>1. /\ n \in Nat \ {0} /\ t \in Seq(Frames) /\ Len(t) = n - 1
      /\ \A i \in 1..n - 1 : t[i] = s[i + 1]
      /\ Head(s) = s[1]
    OBVIOUS
<1>2. IsFiniteSet(later) /\ IsFiniteSet(moved)
  <2>1. IsFiniteSet(1..Len(t)) /\ IsFiniteSet(2..n)
      BY <1>1, FS_Interval
  <2> QED
      BY <2>1, FS_Subset
<1>3. Cardinality(moved) = Cardinality(later)
  <2> HIDE DEF t, n
  <2>1. f \in [later -> moved]
      BY <1>1
  <2>2. \A i, j \in later : f[i] = f[j] => i = j
      BY <1>1
  <2>3. \A k \in moved : \E i \in later : f[i] = k
    <3> TAKE k \in moved
    <3>1. k - 1 \in later /\ f[k - 1] = k
        BY <1>1
    <3> QED
        BY <3>1
  <2> HIDE DEF later, moved, f
  <2>4. f \in Bijection(later, moved)
      BY <2>1, <2>2, <2>3, Zenon DEF Bijection, Injection, Surjection, IsInjective
  <2> QED
      BY <1>2, <2>4, FS_Bijection DEF ExistsBijection
<1>4. Encrypted(t) = Cardinality(later) /\ Cardinality(later) \in Nat
    BY <1>2, FS_CardinalityType DEF Encrypted
<1>5. CASE s[1].enc
  <2>1. {i \in 1..n : s[i].enc} = moved \cup {1} /\ 1 \notin moved
    <3> HIDE DEF n
    <3> QED
        BY <1>1, <1>5
  <2>2. Encrypted(s) = Cardinality(moved \cup {1})
      BY <2>1 DEF Encrypted
  <2> HIDE DEF moved, later
  <2>3. Cardinality(moved \cup {1}) = Cardinality(moved) + 1
      BY <1>2, <2>1, FS_AddElement
  <2> QED
      BY <1>1, <1>3, <1>4, <1>5, <2>2, <2>3
<1>6. CASE ~s[1].enc
  <2>1. {i \in 1..n : s[i].enc} = moved
    <3> HIDE DEF n
    <3> QED
        BY <1>1, <1>6
  <2>2. Encrypted(s) = Cardinality(moved)
      BY <2>1 DEF Encrypted
  <2> HIDE DEF moved, later
  <2> QED
      BY <1>1, <1>3, <1>4, <1>6, <2>2
<1> QED
    BY <1>5, <1>6

(* As long as every frame is what the peer had encrypted, all that waits   *)
(* can be opened, and a worker that reads on has opened everything its     *)
(* peer encrypted: what is left of a chunk is never skipped.               *)
InStep ==
    ~tampered =>
        /\ \A i \in 1..Len(queue) : queue[i].body = "whole"
        /\ owner = "worker" =>
            /\ result # "crypto"
            /\ step = "feeding" => sdec = peer - Encrypted(queue)
            /\ step = "idle" => sdec = peer
            /\ step = "flushing" => conn = "Closed" \/ sdec = peer

LEMMA EmptyQueue == Encrypted(<<>>) = 0
<1> DEFINE none == <<>>
<1>1. Len(none) = 0
    OBVIOUS
<1>2. {i \in 1..Len(none) : none[i].enc} = {}
  <2> HIDE DEF none
  <2> QED
      BY <1>1
<1> QED
    BY <1>2, FS_EmptySet DEF Encrypted

(* A call that fails stops a worker from reading on.                       *)
LEMMA FailureInStep ==
    ASSUME NEW kind \in Results \ {"ok", "crypto"}, Return(kind), owner' = owner
    PROVE  InStep'
BY DEF Return, InStep

LEMMA FeedInStep ==
    ASSUME TypeOK, InStep, NEW n \in Nat, NEW new \in [1..n -> Frames], NEW cut \in BOOLEAN,
           FeedBytes(new, cut)
    PROVE  InStep'
<1> DEFINE all == partial \o new
           drained == IF cut THEN Front(all) ELSE all
<1>1. step = "idle" /\ owner' = owner /\ sdec' = sdec
    BY DEF FeedBytes
<1>2. {"already_closed", "limit", "framing"} \subseteq Results \ {"ok", "crypto"}
    BY DEF Results
<1>3. CASE FeedClosed
    BY <1>1, <1>2, <1>3, FailureInStep DEF FeedClosed
<1>4. CASE FeedOpen(all, cut) /\ (Return("limit") \/ Return("framing"))
    BY <1>1, <1>2, <1>4, FailureInStep
<1>5. CASE /\ \A i \in 1..Len(all) : all[i].body # "refused"
           /\ queue' = drained
           /\ step' = "feeding"
           /\ peer' = peer + Encrypted(drained)
           /\ tampered' = (tampered \/ \E i \in 1..Len(drained) :
                                drained[i].body \in {"tampered", "malformed"})
           /\ result' = result
  <2> SUFFICES ASSUME ~tampered'
               PROVE  /\ \A i \in 1..Len(queue') : queue'[i].body = "whole"
                      /\ owner' = "worker" =>
                            result' # "crypto" /\ sdec' = peer' - Encrypted(queue')
      BY <1>5 DEF InStep
  <2>1. ~tampered /\ \A i \in 1..Len(drained) : drained[i].body \notin {"tampered", "malformed"}
      BY <1>5
  <2>2. new \in Seq(Frames) /\ all \in Seq(Frames)
      BY DEF TypeOK
  <2>3. cut => all # <<>>
      BY DEF FeedBytes
  <2> HIDE DEF all
  <2>4. drained \in Seq(Frames)
        /\ \A i \in 1..Len(drained) : i \in 1..Len(all) /\ drained[i] = all[i]
      BY <2>2, <2>3 DEF Front
  <2> HIDE DEF drained
  <2>5. \A i \in 1..Len(drained) : drained[i].body = "whole"
    <3> TAKE i \in 1..Len(drained)
    <3>1. drained[i] \in FrameKinds
        BY <2>4, FramesAssumption
    <3>2. drained[i].body \notin {"tampered", "malformed", "refused"}
        BY <1>5, <2>1, <2>4
    <3> QED
        BY <3>1, <3>2 DEF FrameKinds
  <2>6. Encrypted(drained) \in Nat
      BY <2>4, EncryptedType
  <2> QED
      BY <1>1, <1>5, <2>1, <2>5, <2>6 DEF InStep, TypeOK
<1> QED
    BY <1>3, <1>4, <1>5 DEF FeedBytes, FeedOpen

LEMMA HandleInStep ==
    ASSUME TypeOK, InStep, HandleFrame
    PROVE  InStep'
<1> DEFINE f == Head(queue)
<1>1. /\ step = "feeding" /\ queue # <<>> /\ queue \in Seq(Frames)
      /\ owner' = owner /\ peer' = peer /\ tampered' = tampered
    BY DEF HandleFrame, TypeOK
<1>2. f = queue[1] /\ 1 \in 1..Len(queue)
    BY <1>1
<1>3. {"protocol", "io"} \subseteq Results \ {"ok", "crypto"}
    BY DEF Results
<1>4. CASE HandleCryptoError(f)
  <2>1. ~tampered => f.body = "whole"
      BY <1>2 DEF InStep
  <2>2. ~tampered /\ owner = "worker" => Decodes(f)
      BY <1>1, <2>1 DEF Decodes, InStep, TypeOK
  <2> QED
      BY <1>1, <1>4, <2>2 DEF HandleCryptoError, Return, InStep
<1>5. CASE HandleProtocolError(f) \/ HandleRejected(f)
    BY <1>1, <1>3, <1>5, FailureInStep DEF HandleProtocolError, HandleRejected
<1>6. CASE HandleAccepted(f) /\ Return("io")
    BY <1>1, <1>3, <1>6, FailureInStep
<1>7. CASE HandleAccepted(f) /\ queue' = Tail(queue) /\ UNCHANGED <<step, result>>
  <2>1. sdec' = IF f.enc THEN sdec + 1 ELSE sdec
      BY <1>7 DEF HandleAccepted, Decoded
  <2>2. Encrypted(queue) = Encrypted(queue') + IF f.enc THEN 1 ELSE 0
      BY <1>1, <1>7, EncryptedTail
  <2>3. Encrypted(queue') \in Nat
    <3>1. Tail(queue) \in Seq(Frames)
        BY <1>1
    <3> QED
        BY <1>7, <3>1, EncryptedType
  <2>4. \A i \in 1..Len(queue') : i + 1 \in 1..Len(queue) /\ queue'[i] = queue[i + 1]
      BY <1>1, <1>7
  <2>5. ~tampered => \A i \in 1..Len(queue') : queue'[i].body = "whole"
      BY <2>4 DEF InStep
  <2>6. owner = "worker" /\ ~tampered => sdec' = peer' - Encrypted(queue')
      BY <1>1, <2>1, <2>2, <2>3 DEF InStep, TypeOK
  <2> QED
      BY <1>1, <1>7, <2>5, <2>6 DEF InStep
<1> QED
    BY <1>4, <1>5, <1>6, <1>7 DEF HandleFrame, HandleAccepted

LEMMA NextInStep ==
    ASSUME TypeOK, InStep, [Next]_vars
    PROVE  InStep'
<1>1. CASE Feed
    BY <1>1, FeedInStep, LimitsAssumption DEF Feed
<1>2. CASE HandleFrame
    BY <1>2, HandleInStep
<1>3. CASE FeedReturns
    BY <1>3, EmptyQueue DEF FeedReturns, Return, InStep, TypeOK
<1>4. CASE ReadEnds \/ HandleFailure
  <2>1. conn' = "Closed"
      BY <1>4 DEF ReadEnds, HandleFailure, BeginClose
  <2> QED
      BY <1>4, <2>1 DEF ReadEnds, HandleFailure, InStep
<1>5. CASE Close \/ SetUnknownPolicy
    BY <1>5 DEF Close, SetUnknownPolicy, InStep
<1>6. CASE FlushEvents
    BY <1>6 DEF FlushEvents, InStep
<1>7. CASE UNCHANGED vars
    BY <1>7 DEF vars, InStep
<1> QED
    BY <1>1, <1>2, <1>3, <1>4, <1>5, <1>6, <1>7 DEF Next, Work

(* A worker whose peer's frames all arrive unaltered never meets a crypto  *)
(* error: its counter is the peer's whenever it reads on, whatever was     *)
(* dropped on the way.                                                     *)
THEOREM PeerIsNeverBlamed == Spec => []PeerNeverBlamed
<1>1. Init => InStep
    BY DEF Init, InStep
<1>2. TypeOK /\ InStep /\ [Next]_vars => InStep'
    BY NextInStep
<1>3. InStep => PeerNeverBlamed
    BY DEF InStep, PeerNeverBlamed
<1> QED
    BY <1>1, <1>2, <1>3, TypeCorrect, PTL DEF Spec
=============================================================================
