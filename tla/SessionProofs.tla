--------------------------- MODULE SessionProofs ---------------------------
(***************************************************************************)
(* Proofs about a session: its frames (BapSession, with FrameSpec) and     *)
(* what it makes of their messages (StatefulSession, with Spec), for every *)
(* bound.                                                                  *)
(*                                                                         *)
(* A frame is never accepted twice: a frame is accepted only under the     *)
(* receiver's own counter, and the counter has moved past every frame that *)
(* was accepted before.  Nothing is assumed about what the wire does.      *)
(*                                                                         *)
(* Of the messages, Inv, the conjunction of the three invariants, is       *)
(* inductive as it stands: the log ends in the current state, so a step    *)
(* only has to be checked against the last entry.  The two facts about     *)
(* transition() and decide() that the induction and the refinement need    *)
(* are lemmas of their own.                                                *)
(***************************************************************************)
EXTENDS BapSession, StatefulSession, FiniteSetTheorems, SequenceTheorems, TLAPS

Resting == States \ {"Connected", "WaitingForSessionLogin", "WaitingForEncryptedHandshake"}

Arrived(s, m) == IF s = "SessionEstablished" /\ m.id = "x79"
                 THEN CompleteEncryptedHandshake(StateAfter(s, m))
                 ELSE StateAfter(s, m)

(* What transition() does to a resting state for a message it accepts:     *)
(* one of the three handshake steps, activation, or nothing.               *)
LEMMA AcceptedStep ==
    ASSUME NEW s \in Resting, NEW m \in Messages, ~Rejects(s, m)
    PROVE  \/ /\ s = "WaitingForServiceHandshake" /\ m.id = "x1E"
              /\ StateAfter(s, m) = "ServiceHandshakeComplete"
           \/ /\ s = "ServiceHandshakeComplete" /\ m.id = "x19"
              /\ StateAfter(s, m) = "SessionEstablished"
           \/ /\ s = "SessionEstablished" /\ m.id = "x79"
              /\ StateAfter(s, m) = "WaitingForEncryptedHandshake"
           \/ /\ s \in ReadyStates
              /\ StateAfter(s, m) = "Active"
           \/ /\ s \in {"WaitingForServiceHandshake", "ServiceHandshakeComplete",
                        "SessionEstablished"}
              /\ m.id \notin SequencedIds
              /\ StateAfter(s, m) = s
<1>1. s \in {"WaitingForServiceHandshake", "ServiceHandshakeComplete",
             "SessionEstablished"} \cup ReadyStates
  BY DEF Rejects, Resting, States, ReadyStates, ClosingStates
<1>2. CASE s \in ReadyStates
  BY <1>2 DEF StateAfter
<1>3. CASE s = "WaitingForServiceHandshake"
  <2>1. s \notin ReadyStates  BY <1>3 DEF ReadyStates
  <2>2. \A t \in States : <<s, m.id, t>> \in HandshakeSteps
                            <=> m.id = "x1E" /\ t = "ServiceHandshakeComplete"
    BY <1>3 DEF HandshakeSteps
  <2>3. Awaits(s, m.id) <=> m.id = "x1E"
    BY <2>2 DEF Awaits, States
  <2>4. CASE m.id = "x1E"
    BY <2>1, <2>2, <2>3, <2>4, <1>3 DEF StateAfter, States
  <2>5. CASE m.id # "x1E"
    BY <2>1, <2>3, <2>5, <1>3 DEF StateAfter, Rejects
  <2> QED BY <2>4, <2>5
<1>4. CASE s = "ServiceHandshakeComplete"
  <2>1. s \notin ReadyStates  BY <1>4 DEF ReadyStates
  <2>2. \A t \in States : <<s, m.id, t>> \in HandshakeSteps
                            <=> m.id = "x19" /\ t = "SessionEstablished"
    BY <1>4 DEF HandshakeSteps
  <2>3. Awaits(s, m.id) <=> m.id = "x19"
    BY <2>2 DEF Awaits, States
  <2>4. CASE m.id = "x19"
    BY <2>1, <2>2, <2>3, <2>4, <1>4 DEF StateAfter, States
  <2>5. CASE m.id # "x19"
    BY <2>1, <2>3, <2>5, <1>4 DEF StateAfter, Rejects
  <2> QED BY <2>4, <2>5
<1>5. CASE s = "SessionEstablished"
  <2>1. s \notin ReadyStates  BY <1>5 DEF ReadyStates
  <2>2. \A t \in States : <<s, m.id, t>> \in HandshakeSteps
                            <=> m.id = "x79" /\ t = "WaitingForEncryptedHandshake"
    BY <1>5 DEF HandshakeSteps
  <2>3. Awaits(s, m.id) <=> m.id = "x79"
    BY <2>2 DEF Awaits, States
  <2>4. CASE m.id = "x79"
    BY <2>1, <2>2, <2>3, <2>4, <1>5 DEF StateAfter, States
  <2>5. CASE m.id # "x79"
    BY <2>1, <2>3, <2>5, <1>5 DEF StateAfter, Rejects
  <2> QED BY <2>4, <2>5
<1> QED BY <1>1, <1>2, <1>3, <1>4, <1>5

(* What decide() answers in a resting state: the handshake reply of the    *)
(* stage for the message the stage waits for, a chat reply on an           *)
(* established channel, and nothing otherwise.                             *)
LEMMA RepliesOfState ==
    ASSUME NEW s \in Resting, NEW id \in Ids, NEW k \in BOOLEAN
    PROVE  /\ s = "WaitingForServiceHandshake" =>
                 Replies(s, id, k) = IF id = "x1E" THEN {"x1F"} ELSE {}
           /\ s = "ServiceHandshakeComplete" =>
                 Replies(s, id, k) = IF id = "x19" THEN {"x1A"} ELSE {}
           /\ s = "SessionEstablished" =>
                 Replies(s, id, k) = IF id = "x79" THEN {"x7A"} ELSE {}
           /\ s \in ReadyStates => Replies(s, id, k) \subseteq ChatReplies
<1>1. CASE s = "WaitingForServiceHandshake"
  BY <1>1 DEF Replies, ReplySteps, ReadyStates, ChatReplies
<1>2. CASE s = "ServiceHandshakeComplete"
  BY <1>2 DEF Replies, ReplySteps, ReadyStates, ChatReplies
<1>3. CASE s = "SessionEstablished"
  BY <1>3 DEF Replies, ReplySteps, ReadyStates, ChatReplies
<1>4. CASE s \in ReadyStates
  BY <1>4 DEF Replies, ReplySteps, ReadyStates, ChatReplies
<1> QED BY <1>1, <1>2, <1>3, <1>4 DEF ReadyStates, ChatReplies

-----------------------------------------------------------------------------

Inv == TypeOK /\ LogIsAPath /\ DispatcherKeepsUp

(* What a state that is entered owes the dispatcher.                       *)
Owes(s, flags) ==
    /\ s \notin ClosingStates \cup {InitialState} => "startup" \in flags
    /\ s \in ReadyStates => "encrypted" \in flags

PathOK(path) ==
    /\ path \in Seq(States)
    /\ \A k \in 1..Len(path) - 1 : DocumentedChange(path[k], path[k + 1])

(* Appending a documented change to a path keeps it one.                   *)
LEMMA EnteringKeepsPath ==
    ASSUME NEW path, PathOK(path), path # <<>>, NEW s \in States,
           s = path[Len(path)] \/ DocumentedChange(path[Len(path)], s),
           NEW flags, \A k \in 1..Len(path) : Owes(path[k], flags), Owes(s, flags)
    PROVE  /\ PathOK(Entering(path, s))
           /\ Entering(path, s) # <<>>
           /\ Entering(path, s)[Len(Entering(path, s))] = s
           /\ \A k \in 1..Len(Entering(path, s)) : Owes(Entering(path, s)[k], flags)
<1>1. CASE s = path[Len(path)]
  BY <1>1 DEF Entering
<1>2. CASE s # path[Len(path)]
  <2> DEFINE longer == Append(path, s)
  <2>1. /\ Entering(path, s) = longer
        /\ path \in Seq(States) /\ Len(path) \in Nat \ {0}
    BY <1>2 DEF Entering, PathOK
  <2>2. /\ longer \in Seq(States)
        /\ Len(longer) = Len(path) + 1
        /\ \A k \in 1..Len(path) : longer[k] = path[k]
        /\ longer[Len(path) + 1] = s
    BY <2>1
  <2>3. \A k \in 1..Len(longer) - 1 : DocumentedChange(longer[k], longer[k + 1])
    <3> SUFFICES ASSUME NEW k \in 1..Len(longer) - 1
                 PROVE  DocumentedChange(longer[k], longer[k + 1])
      OBVIOUS
    <3>1. CASE k = Len(path)
      <4>1. longer[k] = path[Len(path)] /\ longer[k + 1] = s
        BY <2>1, <2>2, <3>1
      <4> QED BY <4>1, <1>2
    <3>2. CASE k # Len(path)
      <4>1. k \in 1..Len(path) - 1 /\ k + 1 \in 1..Len(path)
        BY <2>1, <2>2, <3>2
      <4>2. longer[k] = path[k] /\ longer[k + 1] = path[k + 1]
        BY <2>2, <4>1, <2>1
      <4> QED BY <4>1, <4>2 DEF PathOK
    <3> QED BY <3>1, <3>2
  <2>4. \A k \in 1..Len(longer) : Owes(longer[k], flags)
    <3> SUFFICES ASSUME NEW k \in 1..Len(longer) PROVE Owes(longer[k], flags)
      OBVIOUS
    <3>1. CASE k = Len(path) + 1  BY <3>1, <2>2
    <3>2. CASE k # Len(path) + 1
      <4>1. k \in 1..Len(path)  BY <3>2, <2>1, <2>2
      <4> QED BY <4>1, <2>2
    <3> QED BY <3>1, <3>2
  <2> QED BY <2>1, <2>2, <2>3, <2>4 DEF PathOK
<1> QED BY <1>1, <1>2

(* The parts of Inv a step that enters a state has to restore.             *)
LEMMA LogRestored ==
    ASSUME NEW path, NEW s, NEW flags,
           PathOK(path), path # <<>>, path[Len(path)] = s,
           \A k \in 1..Len(path) : Owes(path[k], flags),
           entered' = path, state' = s, seen' = flags
    PROVE  LogIsAPath' /\ DispatcherKeepsUp' /\ entered' \in Seq(States)
<1>1. LogIsAPath'  BY DEF LogIsAPath, PathOK
<1>2. DispatcherKeepsUp'  BY DEF DispatcherKeepsUp, Owes
<1> QED BY <1>1, <1>2 DEF PathOK

(* The log and the flags of a state that satisfies Inv.                    *)
LEMMA LogOfInv ==
    ASSUME Inv, NEW flags, seen \subseteq flags
    PROVE  /\ PathOK(entered) /\ entered # <<>> /\ entered[Len(entered)] = state
           /\ \A k \in 1..Len(entered) : Owes(entered[k], flags)
           /\ Owes(state, flags)
<1>1. entered \in Seq(States) /\ entered[Len(entered)] = state /\ state \in States
  BY DEF Inv, TypeOK, LogIsAPath
<1>2. entered # <<>>
  BY DEF Inv, LogIsAPath
<1>3. PathOK(entered)
  BY <1>1 DEF PathOK, Inv, LogIsAPath
<1>4. \A k \in 1..Len(entered) : Owes(entered[k], flags)
  BY DEF Inv, DispatcherKeepsUp, Owes
<1>5. Len(entered) \in 1..Len(entered)
  BY <1>1, <1>2
<1> QED BY <1>1, <1>2, <1>3, <1>4, <1>5

(* The states and the replies a step can produce keep their types.         *)
LEMMA Typing ==
    /\ Resting \subseteq States
    /\ InitialState \in Resting
    /\ ReadyStates \cup ClosingStates \subseteq Resting
    /\ \A s \in Resting, id \in Ids, k \in BOOLEAN :
          Replies(s, id, k) \subseteq ChatReplies \cup {"x1F", "x1A", "x7A"}
<1>1. Resting \subseteq States /\ InitialState \in Resting
  BY DEF Resting, InitialState, States
<1>2. ReadyStates \cup ClosingStates \subseteq Resting
  BY DEF Resting, States, ReadyStates, ClosingStates
<1> QED BY <1>1, <1>2 DEF Replies, ChatReplies

(* A session that has just been accepted satisfies the invariant.          *)
LEMMA InitInv == Init => Inv
<1> SUFFICES ASSUME Init PROVE Inv
  OBVIOUS
<1>1. TypeOK
  BY MaxCallsAssumption, Typing DEF Init, TypeOK, UnknownPolicies, Results, Resting
<1>2. LogIsAPath
  BY DEF Init, LogIsAPath
<1>3. DispatcherKeepsUp
  BY DEF Init, DispatcherKeepsUp, InitialState, ReadyStates
<1> QED BY <1>1, <1>2, <1>3 DEF Inv

(* A call that leaves log and flags alone.                                 *)
LEMMA QuietStep ==
    ASSUME Inv, TypeOK', UNCHANGED <<state, entered>>, seen \subseteq seen'
    PROVE  Inv'
<1>1. LogIsAPath'  BY DEF Inv, LogIsAPath
<1>2. DispatcherKeepsUp'  BY DEF Inv, DispatcherKeepsUp
<1> QED BY <1>1, <1>2 DEF Inv

(* Handling a message the state allows preserves the invariant.            *)
LEMMA AcceptedInv ==
    ASSUME Inv, NEW m \in Messages, HandleAccepted(m)
    PROVE  Inv'
<1> DEFINE mid == StateAfter(state, m)
           fin == Arrived(state, m)
           passed == Entering(entered, mid)
<1>1. /\ state \in Resting /\ ~Rejects(state, m) /\ m.id \in Ids
      /\ keepalive_reply \in BOOLEAN
  BY DEF Inv, TypeOK, Resting, HandleAccepted, Messages
<1>2. /\ state' = fin
      /\ entered' = Entering(passed, fin)
  BY DEF HandleAccepted, Arrived
<1>3. seen' = seen \cup FlagsOf(m.id) \/ (seen' = seen /\ state \in ReadyStates)
  BY DEF HandleAccepted, Dispatch, PolicyRejects
<1>4. seen \subseteq seen' /\ seen' \subseteq Flags
  BY <1>3 DEF FlagsOf, Flags, Inv, TypeOK
<1>5. /\ PathOK(entered) /\ entered # <<>> /\ entered[Len(entered)] = state
      /\ \A k \in 1..Len(entered) : Owes(entered[k], seen')
      /\ Owes(state, seen')
  BY <1>4, LogOfInv
<1>6. /\ mid \in States /\ fin \in Resting
      /\ mid = state \/ DocumentedChange(state, mid)
      /\ fin = mid \/ DocumentedChange(mid, fin)
      /\ Owes(mid, seen') /\ Owes(fin, seen')
  <2>1. CASE state = "WaitingForServiceHandshake" /\ m.id = "x1E"
    <3>1. mid = "ServiceHandshakeComplete" /\ fin = mid
      BY <2>1, <1>1, AcceptedStep DEF Arrived, ReadyStates, SequencedIds, KnownIds
    <3>2. "startup" \in seen'
      BY <1>3, <2>1 DEF FlagsOf, ReadyStates
    <3> QED BY <3>1, <3>2, <2>1 DEF Owes, DocumentedChange, States, Resting, ReadyStates
  <2>2. CASE state = "ServiceHandshakeComplete" /\ m.id = "x19"
    <3>1. mid = "SessionEstablished" /\ fin = mid
      BY <2>2, <1>1, AcceptedStep DEF Arrived, ReadyStates, SequencedIds, KnownIds
    <3>2. "startup" \in seen'
      BY <1>3, <2>2 DEF FlagsOf, ReadyStates
    <3> QED BY <3>1, <3>2, <2>2 DEF Owes, DocumentedChange, States, Resting, ReadyStates
  <2>3. CASE state = "SessionEstablished" /\ m.id = "x79"
    <3>1. mid = "WaitingForEncryptedHandshake"
      BY <2>3, <1>1, AcceptedStep DEF ReadyStates, SequencedIds, KnownIds
    <3>2. fin = "EncryptedChannelEstablished"
      BY <3>1, <2>3 DEF Arrived, CompleteEncryptedHandshake
    <3>3. "startup" \in seen' /\ "encrypted" \in seen'
      BY <1>3, <2>3 DEF FlagsOf, ReadyStates
    <3> QED BY <3>1, <3>2, <3>3, <2>3 DEF Owes, DocumentedChange, States, Resting, ReadyStates
  <2>4. CASE state \in ReadyStates
    <3>1. mid = "Active" /\ fin = mid
      BY <2>4 DEF StateAfter, Arrived, ReadyStates
    <3>2. Owes("Active", seen')
      BY <1>5, <2>4 DEF Owes, ReadyStates, ClosingStates, InitialState
    <3>3. mid = state \/ DocumentedChange(state, mid)
      BY <3>1, <2>4 DEF DocumentedChange, ReadyStates
    <3> QED BY <3>1, <3>2, <3>3 DEF States, Resting
  <2>5. CASE /\ state \in {"WaitingForServiceHandshake", "ServiceHandshakeComplete",
                           "SessionEstablished"}
             /\ m.id \notin SequencedIds
             /\ mid = state
    <3>1. fin = mid
      BY <2>5 DEF Arrived, SequencedIds, KnownIds
    <3> QED BY <3>1, <2>5, <1>5, <1>1, Typing
  <2> QED BY <2>1, <2>2, <2>3, <2>4, <2>5, <1>1, AcceptedStep
<1>7. /\ PathOK(passed) /\ passed # <<>> /\ passed[Len(passed)] = mid
      /\ \A k \in 1..Len(passed) : Owes(passed[k], seen')
  <2> HIDE DEF mid
  <2> QED BY <1>5, <1>6, EnteringKeepsPath
<1>8. /\ PathOK(entered') /\ entered' # <<>> /\ entered'[Len(entered')] = fin
      /\ \A k \in 1..Len(entered') : Owes(entered'[k], seen')
  <2>1. fin \in States  BY <1>6, Typing
  <2> HIDE DEF mid, fin, passed
  <2> QED BY <1>2, <1>6, <1>7, <2>1, EnteringKeepsPath
<1>9. LogIsAPath' /\ DispatcherKeepsUp' /\ entered' \in Seq(States)
  <2> HIDE DEF fin
  <2> QED BY <1>2, <1>8, LogRestored
<1>10. replies' \in Seq(ChatReplies \cup {"x1F", "x1A", "x7A"})
  <2>1. \/ replies' = replies
        \/ \E r \in Replies(state, m.id, keepalive_reply) : replies' = Append(replies, r)
    BY DEF HandleAccepted
  <2> QED BY <2>1, <1>1, Typing DEF Inv, TypeOK
<1>11. TypeOK'
  <2>1. calls' \in 0..MaxCalls
    BY MaxCallsAssumption DEF HandleAccepted, Call, Inv, TypeOK
  <2>2. result' \in Results
    BY DEF HandleAccepted, Results
  <2>3. UNCHANGED <<unknown, keepalive_reply>> /\ closings' \in 0..calls'
    BY MaxCallsAssumption DEF HandleAccepted, Call, Inv, TypeOK
  <2> QED BY <2>1, <2>2, <2>3, <1>2, <1>4, <1>6, <1>9, <1>10 DEF Inv, TypeOK, Resting
<1> QED BY <1>9, <1>11 DEF Inv

(* Both halves of close() preserve the invariant.                          *)
LEMMA ClosingInv ==
    ASSUME Inv, BeginClose \/ FinishClose
    PROVE  Inv'
<1>1. /\ state' \in ClosingStates /\ entered' = Entering(entered, state')
      /\ seen' = seen
  BY DEF BeginClose, FinishClose, BeginClosing, ClosingStates
<1>2. /\ PathOK(entered) /\ entered # <<>> /\ entered[Len(entered)] = state
      /\ \A k \in 1..Len(entered) : Owes(entered[k], seen')
  BY <1>1, LogOfInv
<1>3. state' = state \/ DocumentedChange(state, state')
  BY <1>1 DEF BeginClose, FinishClose, BeginClosing, DocumentedChange
<1>4. Owes(state', seen') /\ state' \in States
  BY <1>1 DEF Owes, ClosingStates, ReadyStates, States
<1>5. /\ PathOK(entered') /\ entered' # <<>> /\ entered'[Len(entered')] = state'
      /\ \A k \in 1..Len(entered') : Owes(entered'[k], seen')
  BY <1>1, <1>2, <1>3, <1>4, EnteringKeepsPath
<1>6. LogIsAPath' /\ DispatcherKeepsUp' /\ entered' \in Seq(States)
  BY <1>5, LogRestored
<1>7. TypeOK'
  <2>1. calls' \in 0..MaxCalls /\ result' \in Results
    BY MaxCallsAssumption DEF BeginClose, FinishClose, Call, Inv, TypeOK, Results
  <2>2. UNCHANGED <<unknown, keepalive_reply, replies>>
    BY DEF BeginClose, FinishClose
  <2>3. closings' \in 0..calls'
    BY MaxCallsAssumption DEF BeginClose, FinishClose, Call, Inv, TypeOK
  <2> QED BY <2>1, <2>2, <2>3, <1>1, <1>6, Typing DEF Inv, TypeOK, Resting
<1> QED BY <1>6, <1>7 DEF Inv

(* The calls that touch neither state nor log.                             *)
LEMMA QuietInv ==
    ASSUME Inv,
           \/ HandleUndecodable
           \/ \E m \in Messages : HandleRejected(m)
           \/ \E p \in UnknownPolicies : SetUnknownPolicy(p)
    PROVE  Inv'
<1>1. CASE HandleUndecodable
  <2>1. TypeOK'
    BY <1>1, MaxCallsAssumption DEF HandleUndecodable, Call, Inv, TypeOK, Results
  <2> QED BY <2>1, <1>1, QuietStep DEF HandleUndecodable
<1>2. CASE \E m \in Messages : HandleRejected(m)
  <2>1. TypeOK'
    BY <1>2, MaxCallsAssumption
    DEF HandleRejected, Dispatch, FlagsOf, Flags, Call, Inv, TypeOK, Results
  <2> QED BY <2>1, <1>2, QuietStep DEF HandleRejected, Dispatch
<1>3. CASE \E p \in UnknownPolicies : SetUnknownPolicy(p)
  <2>1. TypeOK'
    BY <1>3, MaxCallsAssumption DEF SetUnknownPolicy, Call, Inv, TypeOK, Results
  <2> QED BY <2>1, <1>3, QuietStep DEF SetUnknownPolicy
<1> QED BY <1>1, <1>2, <1>3

(* Every step of a session preserves the invariant.                        *)
LEMMA NextInv == Inv /\ [Next]_vars => Inv'
<1> SUFFICES ASSUME Inv, [Next]_vars PROVE Inv'
  OBVIOUS
<1>1. CASE UNCHANGED vars
  <2>1. TypeOK'  BY <1>1 DEF vars, Inv, TypeOK
  <2> QED BY <1>1, <2>1, QuietStep DEF vars
<1>2. CASE \E m \in Messages : Handle(m)
  BY <1>2, AcceptedInv, QuietInv DEF Handle
<1>3. CASE HandleUndecodable \/ \E p \in UnknownPolicies : SetUnknownPolicy(p)
  BY <1>3, QuietInv
<1>4. CASE BeginClose \/ FinishClose
  BY <1>4, ClosingInv
<1> QED BY <1>1, <1>2, <1>3, <1>4 DEF Next

(* Type correctness.  In particular a session never rests in Connected,    *)
(* in WaitingForSessionLogin or in WaitingForEncryptedHandshake.           *)
THEOREM TypeCorrect == Spec => []TypeOK
<1>1. Inv => TypeOK  BY DEF Inv
<1> QED BY <1>1, InitInv, NextInv, PTL DEF Spec

(* The transition log is a path through the documented state diagram that  *)
(* ends in the current state.                                              *)
THEOREM TransitionLogIsAPath == Spec => []LogIsAPath
<1>1. Inv => LogIsAPath  BY DEF Inv
<1> QED BY <1>1, InitInv, NextInv, PTL DEF Spec

(* The dispatcher has been shown the handshake of an established channel.  *)
THEOREM DispatcherInformed == Spec => []DispatcherKeepsUp
<1>1. Inv => DispatcherKeepsUp  BY DEF Inv
<1> QED BY <1>1, InitInv, NextInv, PTL DEF Spec

-----------------------------------------------------------------------------

(* An accepted message takes a step of the reply protocol, or none.        *)
LEMMA AcceptedReplies ==
    ASSUME Inv, NEW m \in Messages, HandleAccepted(m)
    PROVE  Order!Next \/ UNCHANGED <<Stage, replies>>
<1>1. /\ state \in Resting /\ ~Rejects(state, m) /\ m.id \in Ids
      /\ keepalive_reply \in BOOLEAN
  BY DEF Inv, TypeOK, Resting, HandleAccepted, Messages
<1>2. /\ state' = Arrived(state, m)
      /\ \/ PolicyRejects(state, m.id, unknown) /\ UNCHANGED replies
         \/ Replies(state, m.id, keepalive_reply) = {} /\ UNCHANGED replies
         \/ \E r \in Replies(state, m.id, keepalive_reply) : replies' = Append(replies, r)
      /\ PolicyRejects(state, m.id, unknown) => UNCHANGED replies
  <2>1. state' = Arrived(state, m)  BY DEF HandleAccepted, Arrived
  <2> QED BY <2>1 DEF HandleAccepted
<1>3. /\ Len(HandshakeReplies) = 3 /\ HandshakeReplies[1] = "x1F"
      /\ HandshakeReplies[2] = "x1A" /\ HandshakeReplies[3] = "x7A"
  BY DEF HandshakeReplies
<1>4. CASE state = "WaitingForServiceHandshake" /\ m.id = "x1E"
  <2>1. state' = "ServiceHandshakeComplete"
    BY <1>1, <1>2, <1>4, AcceptedStep DEF Arrived, ReadyStates, SequencedIds, KnownIds
  <2>2. replies' = Append(replies, "x1F")
    BY <1>1, <1>2, <1>4, RepliesOfState DEF PolicyRejects, ReadyStates
  <2>3. Stage = 0 /\ Stage' = 1
    BY <2>1, <1>4 DEF Stage
  <2>4. Order!Shake
    BY <2>2, <2>3, <1>3 DEF Order!Shake
  <2> QED BY <2>4 DEF Order!Next
<1>5. CASE state = "ServiceHandshakeComplete" /\ m.id = "x19"
  <2>1. state' = "SessionEstablished"
    BY <1>1, <1>2, <1>5, AcceptedStep DEF Arrived, ReadyStates, SequencedIds, KnownIds
  <2>2. replies' = Append(replies, "x1A")
    BY <1>1, <1>2, <1>5, RepliesOfState DEF PolicyRejects, ReadyStates
  <2>3. Stage = 1 /\ Stage' = 2
    BY <2>1, <1>5 DEF Stage
  <2>4. Order!Shake
    BY <2>2, <2>3, <1>3 DEF Order!Shake
  <2> QED BY <2>4 DEF Order!Next
<1>6. CASE state = "SessionEstablished" /\ m.id = "x79"
  <2>1. StateAfter(state, m) = "WaitingForEncryptedHandshake"
    BY <1>1, <1>6, AcceptedStep DEF ReadyStates, SequencedIds, KnownIds
  <2>2. state' = "EncryptedChannelEstablished"
    BY <2>1, <1>2, <1>6 DEF Arrived, CompleteEncryptedHandshake
  <2>3. replies' = Append(replies, "x7A")
    BY <1>1, <1>2, <1>6, RepliesOfState DEF PolicyRejects, ReadyStates
  <2>4. Stage = 2 /\ Stage' = 3
    BY <2>2, <1>6 DEF Stage, ReadyStates
  <2>5. Order!Shake
    BY <2>3, <2>4, <1>3 DEF Order!Shake
  <2> QED BY <2>5 DEF Order!Next
<1>7. CASE state \in ReadyStates
  <2>1. state' = "Active"
    BY <1>2, <1>7 DEF StateAfter, Arrived, ReadyStates
  <2>2. Stage = 3 /\ Stage' = 3
    BY <2>1, <1>7 DEF Stage, ReadyStates
  <2>3. UNCHANGED replies \/ \E r \in ChatReplies : replies' = Append(replies, r)
    BY <1>1, <1>2, <1>7, RepliesOfState
  <2>4. Order!Chat \/ UNCHANGED <<Stage, replies>>
    BY <2>2, <2>3, <1>3 DEF Order!Chat
  <2> QED BY <2>4 DEF Order!Next
<1>8. CASE /\ state \in {"WaitingForServiceHandshake", "ServiceHandshakeComplete",
                         "SessionEstablished"}
           /\ m.id \notin SequencedIds
           /\ StateAfter(state, m) = state
  <2>1. state' = state
    BY <1>2, <1>8 DEF Arrived, SequencedIds, KnownIds
  <2>2. UNCHANGED replies
    BY <1>1, <1>2, <1>8, RepliesOfState DEF SequencedIds, KnownIds
  <2> QED BY <2>1, <2>2 DEF Stage
<1> QED BY <1>1, <1>4, <1>5, <1>6, <1>7, <1>8, AcceptedStep

(* Every step of a session is a step of HandshakeOrder or a stutter of it. *)
LEMMA StepRefines == Inv /\ [Next]_vars => [Order!Next]_<<Stage, replies>>
<1> SUFFICES ASSUME Inv, [Next]_vars PROVE Order!Next \/ UNCHANGED <<Stage, replies>>
  OBVIOUS
<1>1. CASE UNCHANGED vars
  BY <1>1 DEF vars, Stage
<1>2. CASE HandleUndecodable \/ \E m \in Messages : HandleRejected(m)
  BY <1>2 DEF HandleUndecodable, HandleRejected, Stage
<1>3. CASE \E m \in Messages : HandleAccepted(m)
  BY <1>3, AcceptedReplies
<1>4. CASE \E p \in UnknownPolicies : SetUnknownPolicy(p)
  BY <1>4 DEF SetUnknownPolicy, Stage
<1>5. CASE BeginClose \/ FinishClose
  <2>1. state' \in ClosingStates /\ replies' = replies
    BY <1>5 DEF BeginClose, FinishClose, BeginClosing, ClosingStates
  <2>2. Stage' = Len(HandshakeReplies) + 1
    BY <2>1 DEF Stage, ClosingStates, ReadyStates, HandshakeReplies
  <2> QED BY <2>1, <2>2 DEF Order!Next, Order!Close
<1> QED BY <1>1, <1>2, <1>3, <1>4, <1>5 DEF Next, Handle

(* The session implements the abstract reply protocol: whatever arrives,   *)
(* handshake replies leave in order and once each, chat replies after      *)
(* them, nothing once closing began.                                       *)
THEOREM ImplementsHandshakeOrder == Spec => RepliesInOrder
<1>1. Init => Order!Init
  BY DEF Init, Order!Init, Stage, InitialState
<1>2. Inv /\ [Next]_vars => [Order!Next]_Order!vars
  BY StepRefines DEF Order!vars
<1> QED BY <1>1, <1>2, InitInv, NextInv, PTL DEF Spec, RepliesInOrder, Order!Spec

-----------------------------------------------------------------------------
(* The frames of a session                                                 *)

WireFrames == [kind : {"clear", "encrypted"}, nonce : 0..MaxFrames, body : Bodies]

(* The counter is ahead of the frames accepted, and the sender's is not    *)
(* ahead of the frames sent.                                               *)
Ahead == /\ Len(accepted) > 0 => accepted[Len(accepted)] < decoder
         /\ encoder <= frames

FrameInv == FrameTypeOK /\ wire \in Seq(WireFrames) /\ NoReplay /\ Ahead

(* A fresh session satisfies the invariant: nothing sent, nothing accepted.*)
LEMMA InitFrameInv == FrameInit => FrameInv
  BY BoundsAssumption DEF FrameInit, FrameInv, FrameTypeOK, NoReplay, Ahead, Outcomes, WireFrames, Bodies

(* The last element of a non-empty sequence over S is in S.                *)
LEMMA LastElement ==
    ASSUME NEW S, NEW s \in Seq(S), Len(s) > 0
    PROVE  s[Len(s)] \in S
<1>1. Len(s) \in 1..Len(s)
  OBVIOUS
<1> QED BY <1>1

(* Overwriting one position keeps a sequence over S, and its length.       *)
LEMMA ReplacedAt ==
    ASSUME NEW S, NEW s \in Seq(S), NEW j \in 1..Len(s), NEW e \in S
    PROVE  [s EXCEPT ![j] = e] \in Seq(S) /\ Len([s EXCEPT ![j] = e]) = Len(s)
  OBVIOUS

(* Sending leaves the receiver alone.                                      *)
LEMMA SendInv ==
    ASSUME FrameInv, EncodeClear \/ EncodeEncrypted
    PROVE  FrameInv'
<1> DEFINE f == IF EncodeClear THEN ClearFrame ELSE EncryptedFrame(encoder)
<1>1. ClearFrame \in WireFrames /\ EncryptedFrame(encoder) \in WireFrames
  BY BoundsAssumption
  DEF FrameInv, FrameTypeOK, ClearFrame, EncryptedFrame, WireFrames, Bodies
<1>2. PICK g \in WireFrames : wire' = Append(wire, g)
  BY <1>1 DEF EncodeClear, EncodeEncrypted, Send
<1>3. wire' \in Seq(WireFrames)
  BY <1>2 DEF FrameInv
<1>4. \A i \in 1..Len(wire') : wire'[i] \in WireFrames
  BY <1>3
<1>5. /\ UNCHANGED <<decoder, outcome, accepted, faults, gaps>>
      /\ frames' = frames + 1 /\ frames < MaxFrames
      /\ encoder' = encoder \/ encoder' = encoder + 1
  BY DEF EncodeClear, EncodeEncrypted, Send
<1>6. FrameTypeOK' /\ Ahead'
  BY <1>4, <1>5, BoundsAssumption DEF FrameInv, FrameTypeOK, Ahead, WireFrames
<1>7. NoReplay'
  BY <1>5 DEF FrameInv, NoReplay
<1> QED BY <1>3, <1>6, <1>7 DEF FrameInv

(* The frame at the front is refused, passed on, or decrypted under the    *)
(* receiver's counter.                                                     *)
LEMMA DecodeInv ==
    ASSUME FrameInv, DecodeFrame
    PROVE  FrameInv'
<1> DEFINE f == Head(wire)
<1>1. wire # <<>> /\ f \in WireFrames /\ wire' = Tail(wire) /\ wire' \in Seq(WireFrames)
  BY DEF FrameInv, DecodeFrame
<1>2. \A i \in 1..Len(wire') : wire'[i] \in WireFrames
  BY <1>1
<1>3. UNCHANGED <<encoder, frames, faults, gaps>> /\ outcome' \in Outcomes
  BY DEF DecodeFrame, DecodeEncrypted, Outcomes
<1>4. CASE UNCHANGED accepted
  <2>1. decoder' = decoder \/ decoder' = decoder + 1
    BY DEF DecodeFrame, DecodeEncrypted
  <2>2. FrameTypeOK' /\ Ahead'
    <3>1. FrameTypeOK'
      <4>1. decoder' \in Nat
        BY <2>1 DEF FrameInv, FrameTypeOK
      <4>2. UNCHANGED <<encoder, accepted, frames, faults, gaps>>
        BY <1>3, <1>4
      <4>3. \A i \in 1..Len(wire') :
               wire'[i] \in [kind : {"clear", "encrypted"}, nonce : 0..MaxFrames, body : Bodies]
        BY <1>2 DEF WireFrames
      <4> HIDE DEF f
      <4> QED BY <1>3, <4>1, <4>2, <4>3 DEF FrameInv, FrameTypeOK
    <3>2. Len(accepted) > 0 => accepted[Len(accepted)] \in Nat
      BY LastElement, BoundsAssumption DEF FrameInv, FrameTypeOK
    <3>3. Ahead'
      BY <1>3, <1>4, <2>1, <3>2 DEF FrameInv, FrameTypeOK, Ahead
    <3> QED BY <3>1, <3>3
  <2>3. NoReplay'
    BY <1>4 DEF FrameInv, NoReplay
  <2> QED BY <1>1, <2>2, <2>3 DEF FrameInv
<1>5. CASE /\ f.nonce = decoder
           /\ decoder' = decoder + 1
           /\ accepted' = Append(accepted, f.nonce)
  <2>1. /\ accepted \in Seq(0..MaxFrames) /\ decoder \in 0..MaxFrames
        /\ accepted' = Append(accepted, decoder)
    BY <1>1, <1>5 DEF FrameInv, FrameTypeOK, WireFrames
  <2>2. /\ accepted' \in Seq(0..MaxFrames)
        /\ Len(accepted') = Len(accepted) + 1
        /\ accepted'[Len(accepted) + 1] = decoder
        /\ \A k \in 1..Len(accepted) : accepted'[k] = accepted[k]
    BY <2>1
  <2>3. FrameTypeOK'
    BY <1>2, <1>3, <1>5, <2>2 DEF FrameInv, FrameTypeOK, WireFrames
  <2>4. Ahead'
    BY <1>3, <1>5, <2>1, <2>2 DEF FrameInv, Ahead
  <2>5. ASSUME NEW k \in 1..Len(accepted') - 1
        PROVE  accepted'[k] < accepted'[k + 1]
    <3>1. CASE k = Len(accepted)
      BY <2>1, <2>2, <3>1 DEF FrameInv, Ahead
    <3>2. CASE k # Len(accepted)
      BY <2>1, <2>2, <3>2 DEF FrameInv, NoReplay
    <3> QED BY <3>1, <3>2
  <2>6. NoReplay'
    BY <2>5 DEF NoReplay
  <2> QED BY <1>1, <2>3, <2>4, <2>6 DEF FrameInv
<1>6. \/ UNCHANGED accepted
      \/ /\ f.nonce = decoder
         /\ decoder' = decoder + 1
         /\ accepted' = Append(accepted, f.nonce)
  BY DEF DecodeFrame, DecodeEncrypted
<1> QED BY <1>4, <1>5, <1>6

(* A fault changes the wire and nothing else the invariant speaks of.      *)
LEMMA FaultInv ==
    ASSUME FrameInv, NEW w \in Seq(WireFrames), NEW gap \in 0..1, Fault(w, gap)
    PROVE  FrameInv'
<1>1. \A i \in 1..Len(wire') : wire'[i] \in WireFrames
  BY DEF Fault
<1>2. FrameTypeOK' /\ Ahead'
  BY <1>1, BoundsAssumption DEF Fault, FrameInv, FrameTypeOK, Ahead, WireFrames
<1>3. NoReplay'
  BY DEF Fault, FrameInv, NoReplay
<1> QED BY <1>2, <1>3 DEF Fault, FrameInv

(* No fault of the stream (loss, duplicate, damage, overtaking) breaks it. *)
LEMMA FaultsInv ==
    ASSUME FrameInv, Faults
    PROVE  FrameInv'
<1>1. PICK i \in 1..Len(wire) : Damage(i) \/ Lose(i) \/ Repeat(i) \/ Overtake(i)
  BY DEF Faults
<1>2. wire \in Seq(WireFrames) /\ wire[i] \in WireFrames /\ Len(wire) \in Nat
  BY DEF FrameInv
<1>3. CASE Damage(i)
  <2>1. \A b \in Bodies : [wire EXCEPT ![i].body = b] \in Seq(WireFrames)
    <3> SUFFICES ASSUME NEW b \in Bodies
                 PROVE  [wire EXCEPT ![i] = [@ EXCEPT !.body = b]] \in Seq(WireFrames)
      OBVIOUS
    <3>1. [wire[i] EXCEPT !.body = b] \in WireFrames
      BY <1>2 DEF WireFrames
    <3> QED BY <1>2, <3>1, ReplacedAt
  <2>2. PICK b \in Bodies, gap \in 0..1 : Fault([wire EXCEPT ![i].body = b], gap)
    BY <1>3 DEF Damage, Bodies
  <2> QED BY <2>1, <2>2, FaultInv
<1>4. CASE Lose(i)
  <2>1. RemoveAt(wire, i) \in Seq(WireFrames)
    BY <1>2 DEF RemoveAt
  <2> QED BY <1>4, <2>1, FaultInv DEF Lose
<1>5. CASE Repeat(i)
  <2>1. InsertAt(wire, i, wire[i]) \in Seq(WireFrames)
    BY <1>2 DEF InsertAt
  <2> QED BY <1>5, <2>1, FaultInv DEF Repeat
<1>6. CASE Overtake(i)
  <2>1. wire[i + 1] \in WireFrames
    BY <1>2, <1>6 DEF Overtake
  <2> DEFINE v == [wire EXCEPT ![i] = wire[i + 1]]
  <2>2. v \in Seq(WireFrames) /\ [v EXCEPT ![i + 1] = wire[i]] \in Seq(WireFrames)
    <3>1. v \in Seq(WireFrames) /\ Len(v) = Len(wire)
      BY <1>2, <2>1, ReplacedAt
    <3>2. i + 1 \in 1..Len(v)
      BY <1>2, <1>6, <3>1 DEF Overtake
    <3> HIDE DEF v
    <3> QED BY <1>2, <3>1, <3>2, ReplacedAt
  <2>3. Fault([v EXCEPT ![i + 1] = wire[i]], 1)
    BY <1>6 DEF Overtake
  <2> QED BY <2>2, <2>3, FaultInv
<1> QED BY <1>1, <1>3, <1>4, <1>5, <1>6

(* Every step of the two endpoints and of the stream preserves it.         *)
LEMMA NextFrameInv == FrameInv /\ [FrameNext]_frameVars => FrameInv'
<1> SUFFICES ASSUME FrameInv, [FrameNext]_frameVars PROVE FrameInv'
  OBVIOUS
<1>1. CASE UNCHANGED frameVars
  BY <1>1 DEF frameVars, FrameInv, FrameTypeOK, NoReplay, Ahead
<1>2. CASE FrameNext
  BY <1>2, SendInv, DecodeInv, FaultsInv DEF FrameNext
<1> QED BY <1>1, <1>2

(* Type correctness, with the bounds of a run.                             *)
THEOREM FramesTypeCorrect == FrameSpec => []FrameTypeOK
<1>1. FrameInv => FrameTypeOK  BY DEF FrameInv
<1> QED BY <1>1, InitFrameInv, NextFrameInv, PTL DEF FrameSpec

(* However many frames are damaged, lost, repeated or overtaken, those     *)
(* that decrypt are accepted once each and in the order they were encoded. *)
THEOREM AcceptedOnceInOrder == FrameSpec => []NoReplay
<1>1. FrameInv => NoReplay  BY DEF FrameInv
<1> QED BY <1>1, InitFrameInv, NextFrameInv, PTL DEF FrameSpec

-----------------------------------------------------------------------------
(* Why the two counters stay in step while frames are merely altered       *)

(* The encrypted frames before a place of a wire.                          *)
Places(w, i) == {j \in 1..i - 1 : w[j].kind = "encrypted"}
Before(w, i) == Cardinality(Places(w, i))

OneIf(f) == IF f.kind = "encrypted" THEN 1 ELSE 0

LEMMA BeforeType ==
    ASSUME NEW w, NEW i \in Nat
    PROVE  IsFiniteSet(Places(w, i)) /\ Before(w, i) \in Nat
<1>1. IsFiniteSet(1..i - 1)
  BY FS_Interval
<1> QED BY <1>1, FS_Subset, FS_CardinalityType DEF Before, Places

(* No frame comes before the first, and a place further is one frame more. *)
LEMMA BeforeStep ==
    ASSUME NEW w, NEW i \in Nat \ {0}
    PROVE  Before(w, 1) = 0 /\ Before(w, i + 1) = Before(w, i) + OneIf(w[i])
<1>1. Before(w, 1) = 0
  BY FS_EmptySet DEF Before, Places
<1>2. CASE w[i].kind = "encrypted"
  <2>1. Places(w, i + 1) = Places(w, i) \cup {i} /\ i \notin Places(w, i)
    BY <1>2 DEF Places
  <2> QED BY <1>1, <1>2, <2>1, BeforeType, FS_AddElement DEF Before, OneIf
<1>3. CASE w[i].kind # "encrypted"
  <2>1. Places(w, i + 1) = Places(w, i)
    BY <1>3 DEF Places
  <2> QED BY <1>1, <1>3, <2>1, BeforeType DEF Before, OneIf
<1> QED BY <1>2, <1>3

(* It depends on the kinds only.                                           *)
LEMMA BeforeSame ==
    ASSUME NEW w, NEW v, NEW i \in Nat, \A j \in 1..i - 1 : v[j].kind = w[j].kind
    PROVE  Before(v, i) = Before(w, i)
<1>1. Places(v, i) = Places(w, i)
  BY DEF Places
<1> QED BY <1>1 DEF Before

(* Without the first frame every other has come a place nearer.            *)
LEMMA BeforeTail ==
    ASSUME NEW S, NEW w \in Seq(S), w # <<>>, NEW i \in 1..Len(w)
    PROVE  Before(w, i + 1) = Before(Tail(w), i) + OneIf(w[1])
<1> DEFINE rest == Places(w, i + 1) \ {1}
           f == [j \in Places(Tail(w), i) |-> j + 1]
<1>1. /\ Tail(w) \in Seq(S) /\ Len(Tail(w)) = Len(w) - 1 /\ Len(w) \in Nat
      /\ \A j \in 1..Len(w) - 1 : Tail(w)[j] = w[j + 1]
  OBVIOUS
<1>2. \A j \in 1..i - 1 : j \in Places(Tail(w), i) <=> j + 1 \in rest
  BY <1>1 DEF Places
<1>3. f \in Bijection(Places(Tail(w), i), rest)
  <2>1. f \in [Places(Tail(w), i) -> rest]
    BY <1>2 DEF Places
  <2>2. \A a, b \in Places(Tail(w), i) : f[a] = f[b] => a = b
    BY DEF Places
  <2>3. \A k \in rest : \E j \in Places(Tail(w), i) : f[j] = k
    <3> SUFFICES ASSUME NEW k \in rest PROVE \E j \in Places(Tail(w), i) : f[j] = k
      OBVIOUS
    <3>1. k - 1 \in 1..i - 1 /\ k = (k - 1) + 1
      BY DEF Places
    <3>2. k - 1 \in Places(Tail(w), i)
      BY <1>2, <3>1
    <3> QED BY <3>1, <3>2
  <2> HIDE DEF f, rest
  <2> QED BY <2>1, <2>2, <2>3 DEF Bijection, Injection, IsInjective, Surjection
<1>4. IsFiniteSet(Places(Tail(w), i)) /\ IsFiniteSet(Places(w, i + 1))
  BY BeforeType
<1>5. Cardinality(rest) = Before(Tail(w), i)
  <2> HIDE DEF f, rest
  <2>1. ExistsBijection(Places(Tail(w), i), rest)
    BY <1>3 DEF ExistsBijection
  <2> QED BY <1>4, <2>1, FS_Bijection DEF Before
<1>6. Cardinality(rest) = Before(w, i + 1) - OneIf(w[1])
  <2>1. 1 \in Places(w, i + 1) <=> w[1].kind = "encrypted"
    BY DEF Places
  <2>2. Before(w, i + 1) \in Nat
    BY BeforeType
  <2>3. Cardinality(rest) = IF 1 \in Places(w, i + 1) THEN Cardinality(Places(w, i + 1)) - 1
                            ELSE Cardinality(Places(w, i + 1))
    BY <1>4, FS_RemoveElement
  <2> HIDE DEF rest
  <2> QED BY <2>1, <2>2, <2>3 DEF Before, OneIf
<1>7. Before(w, i + 1) \in Nat /\ OneIf(w[1]) \in Nat
  BY BeforeType DEF OneIf
<1> QED BY <1>5, <1>6, <1>7

(* Every encrypted frame still takes a nonce, and meets its own.           *)
InStep ==
    gaps = 0 =>
        /\ \A i \in 1..Len(wire) :
              wire[i].kind = "encrypted" =>
                  /\ wire[i].nonce = decoder + Before(wire, i)
                  /\ wire[i].body \in {"whole", "changed"}
        /\ encoder = decoder + Before(wire, Len(wire) + 1)

LEMMA InitInStep == FrameInit => InStep
<1> SUFFICES ASSUME FrameInit PROVE InStep
  OBVIOUS
<1>1. wire = <<>> /\ Len(wire) = 0 /\ encoder = 0 /\ decoder = 0
  BY DEF FrameInit
<1>2. Before(wire, 1) = 0
  BY BeforeStep
<1> QED BY <1>1, <1>2 DEF InStep

(* A frame sent is encrypted under the nonce the receiver will have when   *)
(* the frames before it are taken.                                         *)
LEMMA SendInStep ==
    ASSUME FrameInv, InStep, NEW f \in WireFrames, Send(f),
           f.kind = "encrypted" => f.nonce = encoder /\ f.body = "whole",
           encoder' = encoder + OneIf(f)
    PROVE  InStep'
<1> DEFINE n == Len(wire)
           v == Append(wire, f)
<1>1. /\ wire' = v /\ decoder' = decoder /\ gaps' = gaps
      /\ n \in Nat /\ Len(v) = n + 1 /\ v[n + 1] = f /\ \A i \in 1..n : v[i] = wire[i]
      /\ decoder \in Nat /\ encoder \in Nat
  BY DEF Send, FrameInv, FrameTypeOK
<1> HIDE DEF v, n
<1>2. ASSUME NEW i \in 1..n + 1 PROVE Before(v, i) = Before(wire, i)
  <2>1. i \in Nat /\ \A j \in 1..i - 1 : v[j].kind = wire[j].kind
    BY <1>1
  <2> QED BY <2>1, BeforeSame
<1>3. Before(v, n + 2) = Before(v, n + 1) + OneIf(f)
  <2>1. n + 1 \in Nat \ {0} /\ (n + 1) + 1 = n + 2
    BY <1>1
  <2> QED BY <1>1, <2>1, BeforeStep
<1>4. Before(wire, n + 1) \in Nat /\ OneIf(f) \in Nat
  BY <1>1, BeforeType DEF OneIf
<1>5. ASSUME gaps = 0 PROVE encoder = decoder + Before(wire, n + 1)
  BY <1>5 DEF InStep, n
<1>6. ASSUME gaps = 0, NEW i \in 1..n + 1, v[i].kind = "encrypted"
      PROVE  v[i].nonce = decoder + Before(v, i) /\ v[i].body \in {"whole", "changed"}
  <2>1. CASE i = n + 1
    BY <1>1, <1>2, <1>5, <1>6, <2>1
  <2>2. CASE i \in 1..n
    BY <1>1, <1>2, <1>6, <2>2 DEF InStep, n
  <2> QED BY <1>1, <2>1, <2>2
<1>7. ASSUME gaps = 0 PROVE encoder' = decoder + Before(v, n + 2)
  BY <1>1, <1>2, <1>3, <1>4, <1>5, <1>7
<1>8. Len(v) + 1 = n + 2
  BY <1>1
<1> QED BY <1>1, <1>6, <1>7, <1>8 DEF InStep

(* The frame taken moves the counter by as much as it stood before the     *)
(* others.                                                                 *)
LEMMA DecodeInStep ==
    ASSUME FrameInv, InStep, DecodeFrame
    PROVE  InStep'
<1> DEFINE n == Len(wire)
           v == Tail(wire)
<1>1. /\ wire \in Seq(WireFrames) /\ wire # <<>> /\ wire' = v
      /\ n \in Nat \ {0} /\ Len(v) = n - 1 /\ \A i \in 1..n - 1 : v[i] = wire[i + 1]
      /\ Head(wire) = wire[1] /\ wire[1] \in WireFrames
      /\ decoder \in Nat
      /\ UNCHANGED <<encoder, gaps>>
  BY DEF DecodeFrame, FrameInv, FrameTypeOK
<1> SUFFICES ASSUME gaps = 0
             PROVE  /\ \A i \in 1..n - 1 :
                           v[i].kind = "encrypted" =>
                               /\ v[i].nonce = decoder' + Before(v, i)
                               /\ v[i].body \in {"whole", "changed"}
                    /\ encoder = decoder' + Before(v, n)
  <2> HIDE DEF n, v
  <2>1. Len(v) + 1 = n
    BY <1>1
  <2> QED BY <1>1, <2>1 DEF InStep
<1> HIDE DEF v
<1>2. decoder' = decoder + OneIf(wire[1])
  <2>1. wire[1].kind = "encrypted" => wire[1].body \in {"whole", "changed"}
    BY <1>1 DEF InStep
  <2>2. CASE wire[1].kind = "encrypted"
    BY <1>1, <2>1, <2>2 DEF DecodeFrame, DecodeEncrypted, OneIf
  <2>3. CASE wire[1].kind = "clear"
    BY <1>1, <2>3 DEF DecodeFrame, OneIf
  <2> QED BY <1>1, <2>2, <2>3 DEF WireFrames
<1>3. \A i \in 1..n : Before(wire, i + 1) = Before(v, i) + OneIf(wire[1])
  BY <1>1, BeforeTail DEF v
<1>4. \A i \in 1..n : Before(v, i) \in Nat
  BY BeforeType
<1>5. OneIf(wire[1]) \in Nat
  BY DEF OneIf
<1>6. ASSUME NEW i \in 1..n - 1, v[i].kind = "encrypted"
      PROVE  v[i].nonce = decoder' + Before(v, i) /\ v[i].body \in {"whole", "changed"}
  <2>1. i + 1 \in 1..n /\ i \in 1..n /\ v[i] = wire[i + 1]
    BY <1>1
  <2>2. /\ wire[i + 1].nonce = decoder + Before(wire, i + 1)
        /\ wire[i + 1].body \in {"whole", "changed"}
    BY <1>6, <2>1 DEF InStep
  <2> QED BY <1>1, <1>2, <1>3, <1>4, <1>5, <2>1, <2>2
<1>7. encoder = decoder' + Before(v, n)
  <2>1. encoder = decoder + Before(wire, n + 1)
    BY DEF InStep
  <2> QED BY <1>1, <1>2, <1>3, <1>4, <1>5, <2>1
<1> QED BY <1>6, <1>7

(* A fault is a gap, or alters a frame and leaves it its place.            *)
LEMMA FaultsInStep ==
    ASSUME FrameInv, InStep, Faults
    PROVE  InStep'
<1>1. gaps \in Nat /\ wire \in Seq(WireFrames)
  BY BoundsAssumption DEF FrameInv, FrameTypeOK
<1>2. PICK i \in 1..Len(wire) : Damage(i) \/ Lose(i) \/ Repeat(i) \/ Overtake(i)
  BY DEF Faults
<1>3. CASE gaps' = gaps + 1
  BY <1>1, <1>3 DEF InStep
<1>4. CASE \/ Fault([wire EXCEPT ![i].body = "changed"], 0)
           \/ wire[i].kind = "clear" /\ Fault([wire EXCEPT ![i].body = "short"], 0)
  <2>1. PICK b \in {"changed", "short"} :
            /\ wire' = [wire EXCEPT ![i].body = b]
            /\ b = "short" => wire[i].kind = "clear"
    BY <1>4 DEF Fault
  <2>2. /\ Len(wire') = Len(wire) /\ Len(wire) \in Nat
        /\ \A j \in 1..Len(wire) : /\ wire'[j].kind = wire[j].kind
                                   /\ wire'[j].nonce = wire[j].nonce
        /\ \A j \in 1..Len(wire) : j # i => wire'[j].body = wire[j].body
        /\ wire'[i].body = b
    <3>1. wire[i] \in WireFrames
      BY <1>1, <1>2
    <3>2. wire' = [wire EXCEPT ![i] = [wire[i] EXCEPT !.body = b]]
      BY <2>1
    <3>3. [wire[i] EXCEPT !.body = b] \in WireFrames
      BY <2>1, <3>1 DEF WireFrames, Bodies
    <3>4. Len(wire') = Len(wire) /\ wire' \in Seq(WireFrames)
      BY <1>1, <3>2, <3>3, ReplacedAt
    <3>5. \A j \in 1..Len(wire) : wire'[j] = IF j = i THEN [wire[i] EXCEPT !.body = b]
                                             ELSE wire[j]
      BY <1>1, <3>2
    <3>6. /\ wire'[i].kind = wire[i].kind /\ wire'[i].nonce = wire[i].nonce
          /\ wire'[i].body = b
      BY <1>2, <3>1, <3>5 DEF WireFrames
    <3>7. \A j \in 1..Len(wire) : j # i => wire'[j] = wire[j]
      BY <3>5
    <3> QED BY <1>1, <3>4, <3>6, <3>7
  <2>3. \A j \in 1..Len(wire) + 1 : Before(wire', j) = Before(wire, j)
    BY <2>2, BeforeSame
  <2>4. UNCHANGED <<encoder, decoder, gaps>>
    BY <1>1, <1>4 DEF Fault
  <2>5. b = "changed" \/ wire[i].kind # "encrypted"
    BY <2>1
  <2> QED BY <2>2, <2>3, <2>4, <2>5 DEF InStep
<1> QED BY <1>2, <1>3, <1>4 DEF Damage, Lose, Repeat, Overtake, Fault

LEMMA NextInStep == FrameInv /\ InStep /\ [FrameNext]_frameVars => InStep'
<1> SUFFICES ASSUME FrameInv, InStep, [FrameNext]_frameVars PROVE InStep'
  OBVIOUS
<1>1. CASE EncodeClear
  <2>1. ClearFrame \in WireFrames /\ OneIf(ClearFrame) = 0 /\ ClearFrame.kind = "clear"
    BY BoundsAssumption DEF ClearFrame, WireFrames, Bodies, OneIf
  <2>2. encoder \in Nat
    BY DEF FrameInv, FrameTypeOK
  <2> QED BY <1>1, <2>1, <2>2, SendInStep DEF EncodeClear
<1>2. CASE EncodeEncrypted
  <2>1. /\ EncryptedFrame(encoder) \in WireFrames /\ OneIf(EncryptedFrame(encoder)) = 1
        /\ EncryptedFrame(encoder).nonce = encoder /\ EncryptedFrame(encoder).body = "whole"
    BY DEF EncryptedFrame, WireFrames, Bodies, OneIf, FrameInv, FrameTypeOK
  <2> QED BY <1>2, <2>1, SendInStep DEF EncodeEncrypted
<1>3. CASE UNCHANGED frameVars
  BY <1>3 DEF frameVars, InStep
<1> QED BY <1>1, <1>2, <1>3, DecodeInStep, FaultsInStep DEF FrameNext

(* As long as frames are merely altered, every encrypted frame on the wire *)
(* will meet the nonce it was encrypted under.                             *)
THEOREM TamperingKeepsAlignment == FrameSpec => []AlignedDespiteTampering
<1>1. InStep => AlignedDespiteTampering
  BY DEF InStep, AlignedDespiteTampering, Before, Places, EncryptedBefore
<1> QED BY <1>1, InitFrameInv, NextFrameInv, InitInStep, NextInStep, PTL DEF FrameSpec

(* A frame that fails was itself altered, as long as none is lost, cut     *)
(* short, repeated or overtaken.                                           *)
THEOREM FailuresAreCaused == FrameSpec => FailuresHaveACause
<1> DEFINE A == /\ gaps = 0 /\ faults' = faults
                /\ Len(wire') < Len(wire)
                /\ outcome' \in {"decrypt_failed", "empty_ciphertext", "framing_error"}
                => Head(wire).body # "whole"
<1>1. FrameInv /\ InStep /\ [FrameNext]_frameVars => [A]_frameVars
  <2> SUFFICES ASSUME FrameInv, InStep, FrameNext, gaps = 0, faults' = faults, Len(wire') < Len(wire),
                      outcome' \in {"decrypt_failed", "empty_ciphertext", "framing_error"},
                      Head(wire).body = "whole"
               PROVE  FALSE
    OBVIOUS
  <2>1. wire \in Seq(WireFrames) /\ faults \in Nat
    BY BoundsAssumption DEF FrameInv, FrameTypeOK
  <2>2. DecodeFrame
    <3>1. ASSUME NEW f, Send(f) PROVE FALSE
      BY <2>1, <3>1 DEF Send
    <3>2. ~Faults
      BY <2>1 DEF Faults, Damage, Lose, Repeat, Overtake, Fault
    <3> QED BY <3>1, <3>2 DEF FrameNext, EncodeClear, EncodeEncrypted
  <2>3. /\ wire # <<>> /\ Len(wire) \in Nat \ {0} /\ Head(wire) = wire[1]
        /\ wire[1] \in WireFrames
    BY <2>1, <2>2 DEF DecodeFrame
  <2>4. CASE wire[1].kind = "encrypted"
    <3>1. wire[1].nonce = decoder + Before(wire, 1) /\ decoder \in Nat
      BY <2>3, <2>4 DEF InStep, FrameInv, FrameTypeOK
    <3>2. wire[1].nonce = decoder
      BY <3>1, BeforeStep
    <3> QED BY <2>2, <2>3, <2>4, <3>2 DEF DecodeFrame, DecodeEncrypted
  <2>5. CASE wire[1].kind = "clear"
    BY <2>2, <2>3, <2>5 DEF DecodeFrame
  <2> QED BY <2>3, <2>4, <2>5 DEF WireFrames
<1> QED BY <1>1, InitFrameInv, NextFrameInv, InitInStep, NextInStep, PTL DEF FrameSpec, FailuresHaveACause
=============================================================================
