------------------------- MODULE LocalServerProofs -------------------------
(***************************************************************************)
(* The server from its three sides, for any number of calls, any clients,  *)
(* any streams and limits, and any number of reads and frames.             *)
(*                                                                         *)
(* A server that is started again: a step touches the port listened on,    *)
(* the threads and where each one is, the connections that wait, or those  *)
(* that were served; the invariant has one part for each, and a step is    *)
(* shown to keep it part by part.  The trace of a worker: what a step      *)
(* appends to it is followed event by event.  The limits: a frame is       *)
(* counted as complete where it ends, and the frames follow each other.    *)
(***************************************************************************)
EXTENDS MCLocalServer, FiniteSetTheorems, TLAPS

Ports == 1..MaxCalls
People == Clients \cup {Self}
Accepting == [port : Ports, next_id : Nat, at : {"check", "accept", "exited"}, late : BOOLEAN]
Connections == [id : Nat, by : Nat, who : People, starts : Nat]

Starts == 1..Len(threads)
Past == 1..Len(served)

(* The counters are bounded by the calls made: a port is asked for by a    *)
(* call, and serve_one gives one id, when it returns.                      *)
Typed ==
    /\ fixed \in BOOLEAN /\ stop \in BOOLEAN
    /\ calls \in 0..MaxCalls
    /\ bound \in 0..calls
    /\ listener \in {0, bound}
    /\ next_conn_id \in 1..calls + 1
    /\ call = "accepting" => next_conn_id <= calls /\ listener # 0
    /\ call \in {"none", "accepting", "forever", "joining"}
    /\ accept_thread \in 0..Len(threads)
    /\ call = "joining" => stop /\ accept_thread # 0
    /\ threads \in Seq(Accepting)
    /\ backlog \in [Ports -> Seq(People)]
    /\ served \in Seq(Connections)

(* Whoever waits, waits at a port that is listened on.                     *)
Attended == \A p \in Ports : backlog[p] # <<>> => Restart!InUse(p)

(* With a fixed port a listener and a living thread exclude each other.    *)
Alone ==
    fixed =>
        /\ bound \in {0, 1}
        /\ \A k \in Starts : threads[k].port = 1
        /\ listener # 0 => Restart!Living = {}
        /\ Restart!Living \subseteq {accept_thread}

(* Who accepted is known, and a counter is ahead of the ids it gave; one   *)
(* copied at a start is also ahead of those given before the first start.  *)
Counted ==
    /\ \A i \in Past : served[i].by \in 0..Len(threads)
    /\ \A i \in Past : served[i].by = 0 => served[i].id < next_conn_id
    /\ \A i \in Past : \A k \in Starts : served[i].by = k => served[i].id < threads[k].next_id
    /\ \A i \in Past : \A k \in Starts :
            served[i].by = 0 /\ served[i].starts = 0 => served[i].id < threads[k].next_id

(* A thread started after the stop flag was set never comes to accept.     *)
Idle == \A k \in Starts : threads[k].late => stop /\ threads[k].at # "accept"

RestartInv ==
    /\ Typed /\ Attended /\ Alone /\ Counted /\ Idle
    /\ Restart!IdsTellApart /\ Restart!RestartServesNobody

-----------------------------------------------------------------------------

USE DEF Ports

(* What the parts say of one thread and of one served connection.          *)
LEMMA Elements ==
    ASSUME Typed
    PROVE  /\ Len(threads) \in Nat /\ Len(served) \in Nat
           /\ \A k \in Starts : threads[k] \in Accepting
           /\ \A i \in Past : served[i] \in Connections
  BY DEF Typed, Starts, Past

LEMMA RestartStarts == Restart!Init => RestartInv
<1> SUFFICES ASSUME Restart!Init PROVE RestartInv
  OBVIOUS
<1>1. Starts = {} /\ Past = {} /\ Restart!Living = {}
  BY DEF Restart!Init, Starts, Past, Restart!Living
<1>2. Typed
  <2>1. threads \in Seq(Accepting) /\ served \in Seq(Connections) /\ Len(threads) = 0
    BY DEF Restart!Init
  <2>2. backlog \in [Ports -> Seq(People)]
    BY DEF Restart!Init, Restart!Ports
  <2>3. fixed \in BOOLEAN /\ stop \in BOOLEAN
    BY DEF Restart!Init
  <2>4. calls \in 0..MaxCalls /\ bound \in 0..calls /\ next_conn_id \in 1..calls + 1
    BY BoundsAssumption DEF Restart!Init
  <2>5. accept_thread \in 0..Len(threads) /\ listener \in {0, bound} /\ call = "none"
    BY <2>1 DEF Restart!Init
  <2> QED
    BY <2>1, <2>2, <2>3, <2>4, <2>5 DEF Typed
<1>3. Attended
  BY DEF Restart!Init, Attended, Restart!Ports
<1>4. Alone /\ Counted /\ Idle
  BY <1>1 DEF Restart!Init, Alone, Counted, Idle
<1>5. Restart!IdsTellApart /\ Restart!RestartServesNobody
  BY <1>1 DEF Restart!Init, Past, Restart!IdsTellApart, Restart!RestartServesNobody
<1> QED
  BY <1>2, <1>3, <1>4, <1>5 DEF RestartInv

-----------------------------------------------------------------------------
(* Steps that neither start a thread nor serve anybody                     *)

(* A step that leaves the threads, the counter and the served connections  *)
(* as they are can only set the stop flag.                                 *)
LEMMA ServedKept ==
    ASSUME RestartInv, UNCHANGED <<next_conn_id, threads, served>>, stop => stop'
    PROVE  Counted' /\ Idle' /\ Restart!IdsTellApart' /\ Restart!RestartServesNobody'
<1>1. Counted'
  BY DEF RestartInv, Counted, Starts, Past
<1>2. Idle'
  BY DEF RestartInv, Idle, Starts
<1>3. Restart!IdsTellApart' /\ Restart!RestartServesNobody'
  BY DEF RestartInv, Restart!IdsTellApart, Restart!RestartServesNobody
<1> QED
  BY <1>1, <1>2, <1>3

LEMMA BindKeeps == ASSUME RestartInv, Restart!Bind PROVE RestartInv'
<1> USE DEF Restart!Bind, Restart!Calls, Restart!Ports
<1>1. Typed /\ Attended /\ Alone
  BY DEF RestartInv
<1>2. Restart!Asked \in Ports /\ Restart!Asked \in 1..calls'
  BY <1>1, BoundsAssumption DEF Typed, Restart!Asked
<1>3. Typed'
  BY <1>1, <1>2, BoundsAssumption DEF Typed
<1>4. Attended'
  BY <1>1 DEF Attended, Typed, Restart!InUse, Restart!Living
<1>5. Alone'
  <2> SUFFICES ASSUME fixed PROVE Alone'
    BY DEF Alone
  <2>1. Restart!Asked = 1
    BY DEF Restart!Asked
  <2>2. \A k \in Restart!Living : threads[k].port # 1
    BY <2>1 DEF Restart!InUse
  <2>3. Restart!Living = {}
    BY <1>1, <2>2 DEF Alone, Starts, Restart!Living
  <2>4. Restart!Living' = Restart!Living /\ Starts' = Starts
    BY DEF Restart!Living, Starts
  <2> QED
    BY <1>1, <2>1, <2>3, <2>4 DEF Alone
<1>6. QED
  BY <1>3, <1>4, <1>5, ServedKept DEF RestartInv

(* A step that leaves the listener and the threads as they are, and that   *)
(* of the connections, has the same ports in use.                          *)
LEMMA PortsKept ==
    ASSUME UNCHANGED <<fixed, listener, bound, threads>>
    PROVE  /\ Restart!Living' = Restart!Living /\ Starts' = Starts
           /\ \A p : Restart!InUse(p)' = Restart!InUse(p)
  BY DEF Restart!Living, Starts, Restart!InUse

LEMMA BindFailsKeeps == ASSUME RestartInv, Restart!BindFails PROVE RestartInv'
<1> USE DEF Restart!BindFails, Restart!Calls
<1>1. Typed /\ Attended /\ Alone
  BY DEF RestartInv
<1>2. Typed'
  BY <1>1, BoundsAssumption DEF Typed
<1>3. Attended' /\ Alone'
  BY <1>1, PortsKept DEF Attended, Alone
<1> QED
  BY <1>2, <1>3, ServedKept DEF RestartInv

LEMMA RequestStopKeeps == ASSUME RestartInv, Restart!RequestStop PROVE RestartInv'
<1> USE DEF Restart!RequestStop, Restart!Calls
<1>1. Typed /\ Attended /\ Alone
  BY DEF RestartInv
<1>2. Typed'
  BY <1>1, BoundsAssumption DEF Typed
<1>3. Attended' /\ Alone'
  BY <1>1, PortsKept DEF Attended, Alone
<1> QED
  BY <1>2, <1>3, ServedKept DEF RestartInv

(* The connection shutdown makes waits at the port it was made to.         *)
LEMMA ShutDownKeeps ==
    ASSUME RestartInv, Restart!ShutDown, calls' \in {calls, calls + 1} \cap 0..MaxCalls, call # "accepting"
    PROVE  RestartInv'
<1> USE DEF Restart!ShutDown
<1>1. Typed /\ Attended /\ Alone
  BY DEF RestartInv
<1>2. Typed'
  <2>1. backlog' \in [Ports -> Seq(People)]
    <3>1. CASE bound # 0 /\ Restart!InUse(bound)
      <4>1. bound \in Ports /\ Self \in People
        BY <1>1, <3>1, BoundsAssumption DEF Typed, People
      <4>2. backlog' = [backlog EXCEPT ![bound] = Append(backlog[bound], Self)]
        BY <3>1
      <4>3. Append(backlog[bound], Self) \in Seq(People)
        BY <1>1, <4>1 DEF Typed
      <4> QED
        BY <1>1, <4>2, <4>3 DEF Typed
    <3>2. CASE ~(bound # 0 /\ Restart!InUse(bound))
      BY <1>1, <3>2 DEF Typed
    <3> QED
      BY <3>1, <3>2
  <2>2. calls' \in 0..MaxCalls /\ bound' \in 0..calls' /\ next_conn_id' \in 1..calls' + 1
    <3>1. /\ calls \in 0..MaxCalls /\ bound \in 0..calls /\ next_conn_id \in 1..calls + 1
          /\ UNCHANGED <<bound, next_conn_id>>
      BY <1>1 DEF Typed
    <3>2. CASE calls' = calls
      BY <3>1, <3>2
    <3>3. CASE calls' = calls + 1
      BY <3>1, <3>3, BoundsAssumption
    <3> QED
      BY <3>2, <3>3
  <2>3. call' \in {"none", "joining"} /\ stop' = TRUE /\ (call' = "joining" => accept_thread' # 0)
    OBVIOUS
  <2> QED
    BY <1>1, <2>1, <2>2, <2>3 DEF Typed
<1>3. Alone'
  BY <1>1, PortsKept DEF Alone
<1>4. Attended'
  <2> SUFFICES ASSUME NEW p \in Ports, backlog'[p] # <<>> PROVE Restart!InUse(p)'
    BY DEF Attended
  <2>1. Restart!InUse(p)
    <3>1. CASE p = bound /\ Restart!InUse(bound)
      BY <3>1
    <3>2. CASE ~(p = bound /\ Restart!InUse(bound))
      <4>1. backlog'[p] = backlog[p]
        BY <1>1, <3>2 DEF Typed
      <4> QED
        BY <1>1, <4>1 DEF Attended
    <3> QED
      BY <3>1, <3>2
  <2> QED
    BY <2>1, PortsKept
<1> QED
  BY <1>2, <1>3, <1>4, ServedKept DEF RestartInv

LEMMA ShutdownKeeps == ASSUME RestartInv, Restart!Shutdown PROVE RestartInv'
<1>1. Restart!ShutDown /\ call # "accepting"
  BY DEF Restart!Shutdown, Restart!Calls
<1>2. calls' \in {calls, calls + 1} \cap 0..MaxCalls
  BY BoundsAssumption DEF Restart!Shutdown, Restart!Calls, RestartInv, Typed
<1> QED
  BY <1>1, <1>2, ShutDownKeeps

LEMMA EndForeverKeeps == ASSUME RestartInv, Restart!EndForever PROVE RestartInv'
<1>1. Restart!ShutDown /\ call # "accepting"
  BY DEF Restart!EndForever
<1>2. calls' \in {calls, calls + 1} \cap 0..MaxCalls
  BY BoundsAssumption DEF Restart!EndForever, RestartInv, Typed
<1> QED
  BY <1>1, <1>2, ShutDownKeeps

(* With a fixed port the thread that is forgotten was the only one, and    *)
(* has exited.                                                             *)
LEMMA JoinKeeps == ASSUME RestartInv, Restart!Join PROVE RestartInv'
<1> USE DEF Restart!Join
<1>1. Typed /\ Attended /\ Alone
  BY DEF RestartInv
<1>2. Typed'
  BY <1>1, Elements DEF Typed
<1>3. Attended' /\ Alone'
  <2>1. /\ Restart!Living' = Restart!Living /\ Starts' = Starts
        /\ \A p : Restart!InUse(p)' = Restart!InUse(p)
    BY PortsKept
  <2>2. Attended'
    BY <1>1, <2>1 DEF Attended
  <2>3. Alone'
    BY <1>1, <2>1 DEF Alone
  <2> QED
    BY <2>2, <2>3
<1> QED
  BY <1>2, <1>3, ServedKept DEF RestartInv

LEMMA ConnectKeeps ==
    ASSUME RestartInv, NEW c \in Clients, NEW q \in Ports, Restart!Connect(c, q)
    PROVE  RestartInv'
<1> USE DEF Restart!Connect
<1>1. Typed /\ Attended /\ Alone
  BY DEF RestartInv
<1>2. Append(backlog[q], c) \in Seq(People)
  <2> HIDE DEF Restart!Connect
  <2>1. backlog \in [Ports -> Seq(People)] /\ c \in People
    BY <1>1, Zenon DEF Typed, People
  <2>2. backlog[q] \in Seq(People)
    BY <2>1, Zenon
  <2> QED
    BY <2>1, <2>2
<1>3. Typed'
  <2>1. backlog' \in [Ports -> Seq(People)]
    BY <1>1, <1>2 DEF Typed
  <2>2. /\ fixed' = fixed /\ listener' = listener /\ bound' = bound /\ stop' = stop
        /\ next_conn_id' = next_conn_id /\ threads' = threads /\ calls' = calls
        /\ accept_thread' = accept_thread /\ call' = call /\ served' = served
    OBVIOUS
  <2> HIDE DEF Restart!Connect
  <2> QED
    BY <1>1, <2>1, <2>2, Zenon DEF Typed
<1>4. /\ Restart!Living' = Restart!Living /\ Starts' = Starts
      /\ \A p : Restart!InUse(p)' = Restart!InUse(p)
  BY PortsKept
<1>5. Alone' /\ Attended'
  <2>1. Alone'
    BY <1>1, <1>4 DEF Alone
  <2>2. ASSUME NEW p \in Ports, backlog'[p] # <<>> PROVE Restart!InUse(p)
    BY <1>1, <2>2 DEF Attended, Typed
  <2> QED
    BY <1>4, <2>1, <2>2 DEF Attended
<1> QED
  BY <1>3, <1>4, <1>5, ServedKept DEF RestartInv

(* serve_one listens where nobody waits yet, or where it did before.       *)
LEMMA ServeOneKeeps == ASSUME RestartInv, Restart!ServeOne PROVE RestartInv'
<1> USE DEF Restart!ServeOne, Restart!Calls
<1>1. Typed /\ Attended /\ Alone
  BY DEF RestartInv
<1>2. Restart!Port \in 1..calls' /\ calls' \in 0..MaxCalls
  BY <1>1, BoundsAssumption DEF Typed, Restart!Port, Restart!Asked
<1>3. Typed'
  <2>1. next_conn_id' \in 1..calls' + 1 /\ next_conn_id' <= calls'
    BY <1>1 DEF Typed
  <2>2. bound' \in 0..calls' /\ listener' \in {0, bound'} /\ listener' # 0
    BY <1>2
  <2> QED
    BY <1>1, <1>2, <2>1, <2>2 DEF Typed
<1>4. Attended'
  BY <1>1 DEF Attended, Restart!InUse, Restart!Living, Restart!Port
<1>5. Alone'
  <2> SUFFICES ASSUME fixed PROVE Alone'
    BY DEF Alone
  <2>1. Restart!Port = 1
    BY <1>1 DEF Restart!Port, Restart!Asked, Alone, Typed
  <2>2. Restart!Living = {}
    <3>1. CASE listener # 0
      BY <1>1, <3>1 DEF Alone
    <3>2. CASE listener = 0
      BY <1>1, <3>2 DEF Restart!InUse, Restart!Asked, Restart!Living, Alone, Starts
    <3> QED
      BY <3>1, <3>2
  <2>3. Restart!Living' = Restart!Living /\ Starts' = Starts
    BY DEF Restart!Living, Starts
  <2> QED
    BY <1>1, <2>1, <2>2, <2>3 DEF Alone
<1> QED
  BY <1>3, <1>4, <1>5, ServedKept DEF RestartInv

-----------------------------------------------------------------------------
(* A start                                                                 *)

(* The new thread has the port, so that nobody who waits is left alone;    *)
(* with a fixed port there was no other.  It takes a copy of the counter,  *)
(* which is ahead of what serve_one gave, and nobody was served by it.     *)
LEMMA StartKeeps ==
    ASSUME RestartInv, Restart!Calls, Restart!Start, call' \in {call, "forever"}
    PROVE  RestartInv'
<1> DEFINE n == Len(threads) + 1
           new == Restart!Thread(next_conn_id)
<1>1. Typed /\ Attended /\ Alone /\ Counted /\ Idle
  BY DEF RestartInv
<1>2. /\ listener' = 0 /\ bound' = Restart!Port
      /\ threads' = Append(threads, new)
      /\ accept_thread' = n
      /\ UNCHANGED <<fixed, next_conn_id, stop, backlog, served>>
      /\ listener # 0 \/ ~Restart!InUse(Restart!Asked)
      /\ call = "none" /\ calls < MaxCalls /\ calls' = calls + 1
  BY DEF Restart!Start, Restart!Calls
<1>3. Restart!Port \in 1..calls' /\ calls' \in 0..MaxCalls
  BY <1>1, <1>2, BoundsAssumption DEF Typed, Restart!Port, Restart!Asked
<1>4. Restart!Port \in Ports /\ next_conn_id \in Nat /\ stop \in BOOLEAN
  BY <1>1, <1>3, BoundsAssumption DEF Typed
<1>5. new \in Accepting
  BY <1>4 DEF Accepting, Restart!Thread
<1>6. /\ new.port = Restart!Port /\ new.next_id = next_conn_id
      /\ new.at = "check" /\ new.late = stop
  BY DEF Restart!Thread
<1> HIDE DEF new
<1>7. /\ threads' \in Seq(Accepting) /\ Len(threads') = n /\ n \in Nat
      /\ Starts' = Starts \cup {n} /\ n \notin Starts
      /\ threads'[n] = new
      /\ \A k \in Starts : threads'[k] = threads[k]
  BY <1>1, <1>2, <1>5 DEF Typed, Starts
<1>8. Restart!Living' = Restart!Living \cup {n}
  BY <1>6, <1>7 DEF Restart!Living, Starts
<1> HIDE DEF n
<1>9. Typed'
  <2>1. accept_thread' \in 0..Len(threads')
    BY <1>2, <1>7
  <2>2. next_conn_id' \in 1..calls' + 1
    BY <1>1, <1>2 DEF Typed
  <2>3. bound' \in 0..calls' /\ listener' \in {0, bound'}
    BY <1>2, <1>3
  <2> QED
    BY <1>1, <1>2, <1>3, <1>7, <2>1, <2>2, <2>3 DEF Typed
<1>10. Attended'
  <2> SUFFICES ASSUME NEW p \in Ports, backlog[p] # <<>> PROVE Restart!InUse(p)'
    BY <1>2 DEF Attended
  <2>1. p = listener \/ \E k \in Restart!Living : threads[k].port = p
    BY <1>1 DEF Attended, Restart!InUse
  <2>2. CASE p = listener
    <3>1. threads'[n].port = p
      BY <2>2, <1>6, <1>7 DEF Restart!Port
    <3> QED
      BY <3>1, <1>8 DEF Restart!InUse
  <2>3. CASE \E k \in Restart!Living : threads[k].port = p
    BY <2>3, <1>7, <1>8 DEF Restart!InUse, Restart!Living, Starts
  <2> QED
    BY <2>1, <2>2, <2>3
<1>11. Alone'
  <2> SUFFICES ASSUME fixed PROVE Alone'
    BY <1>2 DEF Alone
  <2>1. Restart!Port = 1
    BY <1>1 DEF Restart!Port, Restart!Asked, Alone, Typed
  <2>2. Restart!Living = {}
    <3>1. CASE listener # 0
      BY <1>1, <3>1 DEF Alone
    <3>2. CASE listener = 0
      BY <1>1, <1>2, <3>2 DEF Restart!InUse, Restart!Asked, Restart!Living, Alone, Starts
    <3> QED
      BY <3>1, <3>2
  <2>3. \A k \in Starts' : threads'[k].port = 1
    BY <1>1, <1>6, <1>7, <2>1 DEF Alone
  <2> QED
    BY <1>2, <1>8, <2>1, <2>2, <2>3 DEF Alone
<1>12. Counted'
  <2>1. Past' = Past
    BY <1>2 DEF Past
  <2>2. \A i \in Past : served[i].by \in 0..Len(threads)
    BY <1>1 DEF Counted
  <2>3. \A i \in Past : served[i].by \in 0..Len(threads') /\ served[i].by # n
    BY <2>2, <1>1, <1>7 DEF n, Typed
  <2>4. \A i \in Past : \A k \in Starts' : served[i].by = k => served[i].id < threads'[k].next_id
    BY <1>1, <1>7, <2>3 DEF Counted
  <2>5. \A i \in Past : \A k \in Starts' :
            served[i].by = 0 /\ served[i].starts = 0 => served[i].id < threads'[k].next_id
    BY <1>1, <1>6, <1>7 DEF Counted
  <2> QED
    BY <1>1, <1>2, <2>1, <2>3, <2>4, <2>5 DEF Counted
<1>13. Idle'
  BY <1>1, <1>2, <1>6, <1>7 DEF Idle
<1>14. Restart!IdsTellApart'
  BY <1>2 DEF RestartInv, Restart!IdsTellApart
<1>15. Restart!RestartServesNobody'
  <2> SUFFICES ASSUME NEW i \in Past, served[i].by # 0 PROVE ~threads'[served[i].by].late
    BY <1>2 DEF Restart!RestartServesNobody, Past
  <2>1. served[i].by \in Starts
    BY <1>1, Elements DEF Counted, Starts, Connections
  <2> QED
    BY <2>1, <1>7 DEF RestartInv, Restart!RestartServesNobody, Past
<1> QED
  BY <1>9, <1>10, <1>11, <1>12, <1>13, <1>14, <1>15 DEF RestartInv

-----------------------------------------------------------------------------
(* Serving                                                                 *)

(* serve_one gives the next id of the server.  Before the first start      *)
(* everybody was served by it, so that the id is new.                      *)
LEMMA AcceptOneKeeps == ASSUME RestartInv, Restart!AcceptOne PROVE RestartInv'
<1> DEFINE n == Len(served) + 1
           new == [id |-> next_conn_id, by |-> 0, who |-> Head(backlog[listener]),
                   starts |-> Len(threads)]
<1>1. Typed /\ Attended /\ Alone /\ Counted /\ Idle
  BY DEF RestartInv
<1>2. /\ call = "accepting" /\ call' = "none"
      /\ backlog[listener] # <<>>
      /\ served' = Append(served, new)
      /\ backlog' = [backlog EXCEPT ![listener] = Tail(backlog[listener])]
      /\ next_conn_id' = next_conn_id + 1
      /\ UNCHANGED <<fixed, listener, bound, stop, threads, accept_thread, calls>>
  BY DEF Restart!AcceptOne
<1>3. listener \in Ports
  BY <1>1, <1>2, BoundsAssumption DEF Typed
<1>4. backlog[listener] \in Seq(People)
  BY <1>1, <1>3 DEF Typed
<1>5. Head(backlog[listener]) \in People /\ Tail(backlog[listener]) \in Seq(People)
  BY <1>2, <1>4
<1>6. next_conn_id \in Nat /\ Len(threads) \in Nat
  BY <1>1, BoundsAssumption DEF Typed
<1>7. new \in Connections
  BY <1>5, <1>6 DEF Connections
<1>8. new.id = next_conn_id /\ new.by = 0 /\ new.starts = Len(threads)
  OBVIOUS
<1> HIDE DEF new
<1>9. /\ served' \in Seq(Connections) /\ Len(served') = n /\ n \in Nat
      /\ Past' = Past \cup {n} /\ n \notin Past
      /\ served'[n] = new
      /\ \A i \in Past : served'[i] = served[i]
  BY <1>1, <1>2, <1>7 DEF Typed, Past
<1>10. Starts' = Starts /\ Restart!Living' = Restart!Living
  BY <1>2 DEF Starts, Restart!Living
<1>11. Typed'
  <2>1. backlog' \in [Ports -> Seq(People)]
    BY <1>1, <1>2, <1>3, <1>5 DEF Typed
  <2>2. next_conn_id' \in 1..calls' + 1
    BY <1>1, <1>2, BoundsAssumption DEF Typed
  <2> QED
    BY <1>1, <1>2, <1>9, <2>1, <2>2 DEF Typed
<1>12. Attended'
  <2> SUFFICES ASSUME NEW p \in Ports, backlog'[p] # <<>> PROVE Restart!InUse(p)'
    BY DEF Attended
  <2>1. backlog[p] # <<>>
    BY <1>1, <1>2, <1>3 DEF Typed
  <2> QED
    BY <2>1, <1>1, <1>2, PortsKept DEF Attended
<1>13. Alone' /\ Idle'
  BY <1>1, <1>2, <1>10 DEF Alone, Idle
<1>14. \A i \in Past : served[i].by = 0 => served[i].id # new.id
  <2> SUFFICES ASSUME NEW i \in Past, served[i].by = 0 PROVE served[i].id # next_conn_id
    BY <1>8
  <2>1. served[i].id < next_conn_id /\ served[i].id \in Nat
    BY <1>1, Elements DEF Counted, Connections
  <2> QED
    BY <2>1, <1>6
<1> HIDE DEF n
<1>15. Counted'
  <2> DEFINE first == \A k \in Starts : new.starts = 0 => new.id < threads[k].next_id
  <2>1. first
    BY <1>6, <1>8 DEF Starts
  <2>2. ASSUME NEW i \in Past'
        PROVE  /\ served'[i].by \in 0..Len(threads)
               /\ served'[i].by = 0 => served'[i].id < next_conn_id + 1
               /\ \A k \in Starts : served'[i].by = k => served'[i].id < threads[k].next_id
               /\ \A k \in Starts : served'[i].by = 0 /\ served'[i].starts = 0
                                          => served'[i].id < threads[k].next_id
    <3>1. CASE i = n
      <4>1. 0 \notin Starts /\ 0 \in 0..Len(threads)
        BY <1>6 DEF Starts
      <4>2. new.id < next_conn_id + 1
        BY <1>6, <1>8
      <4>3. served'[i] = new
        BY <3>1, <1>9
      <4> QED
        BY <4>1, <4>2, <4>3, <2>1, <1>8
    <3>2. CASE i \in Past
      <4>1. served'[i] = served[i]
        BY <3>2, <1>9
      <4>2. served[i].id \in Nat /\ (served[i].by = 0 => served[i].id < next_conn_id)
        BY <3>2, <1>1, Elements DEF Counted, Connections
      <4>3. served[i].by = 0 => served[i].id < next_conn_id + 1
        BY <4>2, <1>6
      <4> QED
        BY <3>2, <4>1, <4>3, <1>1 DEF Counted
    <3> QED
      BY <3>1, <3>2, <1>9
  <2> QED
    BY <2>2, <1>2, <1>10 DEF Counted
<1>16. Restart!IdsTellApart'
  <2> SUFFICES ASSUME NEW i \in Past', NEW j \in Past', i < j, served'[i].id = served'[j].id
               PROVE  /\ served'[i].by # served'[j].by
                      /\ served'[j].by = 0 => served'[j].starts > 0
                      /\ served'[i].by = 0 => served'[i].starts > 0
    BY DEF Restart!IdsTellApart, Past
  <2>1. CASE j \in Past
    <3>1. i \in Past
      BY <2>1, <1>9 DEF Past, n
    <3> QED
      BY <2>1, <3>1, <1>9 DEF RestartInv, Restart!IdsTellApart, Past
  <2>2. CASE j = n
    <3>1. i \in Past
      BY <2>2, <1>9 DEF Past
    <3>2. served[i].by # 0
      BY <2>2, <3>1, <1>9, <1>14
    <3>3. served[i].by \in 0..Len(threads)
      BY <3>1, <1>1 DEF Counted
    <3>4. Len(threads) > 0
      BY <3>2, <3>3, <1>6
    <3> QED
      BY <2>2, <3>1, <3>2, <3>4, <1>8, <1>9
  <2> QED
    BY <2>1, <2>2, <1>9
<1>17. Restart!RestartServesNobody'
  <2> SUFFICES ASSUME NEW i \in Past', served'[i].by # 0 PROVE ~threads[served'[i].by].late
    BY <1>2 DEF Restart!RestartServesNobody, Past
  <2>1. i \in Past /\ served'[i] = served[i]
    BY <1>8, <1>9
  <2> QED
    BY <2>1 DEF RestartInv, Restart!RestartServesNobody, Past
<1> QED
  BY <1>11, <1>12, <1>13, <1>15, <1>16, <1>17 DEF RestartInv

(* A thread keeps its port, and what it was when it started.               *)
LEMMA ThreadMoves ==
    ASSUME Typed, NEW i \in Starts, NEW t \in Accepting,
           threads' = [threads EXCEPT ![i] = t],
           t.port = threads[i].port, t.late = threads[i].late
    PROVE  /\ threads' \in Seq(Accepting)
           /\ Len(threads') = Len(threads) /\ Starts' = Starts
           /\ threads'[i] = t
           /\ \A k \in Starts : k # i => threads'[k] = threads[k]
           /\ \A k \in Starts : threads'[k].port = threads[k].port /\ threads'[k].late = threads[k].late
           /\ t.at # "exited" /\ threads[i].at # "exited" => Restart!Living' = Restart!Living
           /\ t.at = "exited" => Restart!Living' = Restart!Living \ {i}
<1>1. /\ threads' \in Seq(Accepting)
      /\ Len(threads') = Len(threads) /\ Starts' = Starts
      /\ threads'[i] = t
      /\ \A k \in Starts : k # i => threads'[k] = threads[k]
  BY DEF Typed, Starts
<1>2. \A k \in Starts : threads'[k].port = threads[k].port /\ threads'[k].late = threads[k].late
  BY <1>1
<1>3. /\ Restart!Living = {k \in Starts : threads[k].at # "exited"}
      /\ Restart!Living' = {k \in Starts : threads'[k].at # "exited"}
  BY <1>1 DEF Restart!Living, Starts
<1> QED
  BY <1>1, <1>2, <1>3

(* A thread that ends closes its port with whoever waits there; one that   *)
(* goes on to accept has seen the flag unset, so that it was not started   *)
(* late.                                                                   *)
LEMMA CheckStopKeeps ==
    ASSUME RestartInv, NEW i \in Starts, Restart!CheckStop(i)
    PROVE  RestartInv'
<1> DEFINE t == [threads[i] EXCEPT !.at = IF stop THEN "exited" ELSE "accept"]
<1>1. Typed /\ Attended /\ Alone /\ Counted /\ Idle
  BY DEF RestartInv
<1>2. /\ threads[i].at = "check"
      /\ UNCHANGED <<fixed, listener, bound, next_conn_id, stop, accept_thread, call, calls, served>>
      /\ stop \in BOOLEAN
  BY <1>1 DEF Restart!CheckStop, Typed
<1>3. threads' = [threads EXCEPT ![i] = t]
  BY <1>2 DEF Restart!CheckStop
<1>4. /\ threads[i] \in Accepting /\ t \in Accepting
      /\ t.port = threads[i].port /\ t.late = threads[i].late /\ t.next_id = threads[i].next_id
      /\ t.at = IF stop THEN "exited" ELSE "accept"
  BY <1>1, Elements DEF Accepting
<1> HIDE DEF t
<1>5. /\ threads' \in Seq(Accepting)
      /\ Len(threads') = Len(threads) /\ Starts' = Starts
      /\ threads'[i] = t
      /\ \A k \in Starts : k # i => threads'[k] = threads[k]
      /\ \A k \in Starts : threads'[k].port = threads[k].port /\ threads'[k].late = threads[k].late
      /\ t.at # "exited" /\ threads[i].at # "exited" => Restart!Living' = Restart!Living
      /\ t.at = "exited" => Restart!Living' = Restart!Living \ {i}
  BY <1>1, <1>3, <1>4, ThreadMoves
<1>6. \A k \in Starts : threads'[k].next_id = threads[k].next_id
  BY <1>4, <1>5
<1>7. Restart!Living' = IF stop THEN Restart!Living \ {i} ELSE Restart!Living
  BY <1>2, <1>4, <1>5
<1>8. backlog' = IF stop THEN [backlog EXCEPT ![threads[i].port] = <<>>] ELSE backlog
  BY <1>2 DEF Restart!CheckStop
<1>9. threads[i].port \in Ports
  BY <1>4 DEF Accepting
<1>10. Typed'
  <2>1. backlog' \in [Ports -> Seq(People)]
    BY <1>1, <1>8, <1>9 DEF Typed
  <2> QED
    BY <1>1, <1>2, <1>5, <2>1 DEF Typed
<1>11. Attended'
  <2> SUFFICES ASSUME NEW p \in Ports, backlog'[p] # <<>> PROVE Restart!InUse(p)'
    BY DEF Attended
  <2>1. backlog[p] # <<>> /\ (stop => p # threads[i].port)
    BY <1>1, <1>8, <1>9 DEF Typed
  <2>2. CASE p = listener
    BY <2>2, <1>2 DEF Restart!InUse
  <2>3. CASE p # listener
    <3>1. PICK k \in Restart!Living : threads[k].port = p
      BY <1>1, <2>1, <2>3 DEF Attended, Restart!InUse
    <3>2. k \in Starts /\ k \in Restart!Living'
      BY <2>1, <3>1, <1>7 DEF Restart!Living, Starts
    <3> QED
      BY <3>1, <3>2, <1>5 DEF Restart!InUse
  <2> QED
    BY <2>2, <2>3
<1>12. Alone'
  BY <1>1, <1>2, <1>5, <1>7 DEF Alone
<1>13. Past' = Past
  BY <1>2 DEF Past
<1>14. Counted'
  BY <1>1, <1>2, <1>5, <1>6, <1>13 DEF Counted
<1>15. Idle'
  <2> SUFFICES ASSUME NEW k \in Starts, threads[k].late PROVE stop /\ threads'[k].at # "accept"
    BY <1>2, <1>5 DEF Idle
  <2>1. stop /\ threads[k].at # "accept"
    BY <1>1 DEF Idle
  <2> QED
    BY <2>1, <1>4, <1>5
<1>16. Restart!IdsTellApart'
  BY <1>2 DEF RestartInv, Restart!IdsTellApart
<1>17. Restart!RestartServesNobody'
  <2> SUFFICES ASSUME NEW j \in Past, served[j].by # 0 PROVE ~threads'[served[j].by].late
    BY <1>2 DEF Restart!RestartServesNobody, Past
  <2>1. served[j].by \in Starts
    BY <1>1, Elements DEF Counted, Starts, Connections
  <2> QED
    BY <2>1, <1>5 DEF RestartInv, Restart!RestartServesNobody, Past
<1> QED
  BY <1>10, <1>11, <1>12, <1>14, <1>15, <1>16, <1>17 DEF RestartInv

(* Nobody waits: the thread asks for the flag again.                       *)
LEMMA AcceptNobody ==
    ASSUME RestartInv, NEW i \in Starts, Restart!Accept(i), backlog[threads[i].port] = <<>>
    PROVE  RestartInv'
<1> DEFINE t == [threads[i] EXCEPT !.at = "check"]
<1>1. Typed /\ Attended /\ Alone /\ Counted /\ Idle
  BY DEF RestartInv
<1>2. /\ threads[i].at = "accept"
      /\ UNCHANGED <<fixed, listener, bound, next_conn_id, stop, accept_thread, call, calls>>
      /\ UNCHANGED <<backlog, served>>
      /\ threads' = [threads EXCEPT ![i] = t]
  BY DEF Restart!Accept
<1>3. /\ threads[i] \in Accepting /\ t \in Accepting
      /\ t.port = threads[i].port /\ t.late = threads[i].late /\ t.next_id = threads[i].next_id
      /\ t.at = "check"
  BY <1>1, Elements DEF Accepting
<1> HIDE DEF t
<1>4. /\ threads' \in Seq(Accepting)
      /\ Len(threads') = Len(threads) /\ Starts' = Starts
      /\ threads'[i] = t
      /\ \A k \in Starts : k # i => threads'[k] = threads[k]
      /\ \A k \in Starts : threads'[k].port = threads[k].port /\ threads'[k].late = threads[k].late
      /\ t.at # "exited" /\ threads[i].at # "exited" => Restart!Living' = Restart!Living
  BY <1>1, <1>2, <1>3, ThreadMoves
<1>5. Restart!Living' = Restart!Living
  BY <1>2, <1>3, <1>4
<1>6. \A k \in Starts : threads'[k].next_id = threads[k].next_id
  BY <1>3, <1>4
<1>7. Typed'
  BY <1>1, <1>2, <1>4 DEF Typed
<1>8. Attended'
  BY <1>1, <1>2, <1>4, <1>5 DEF Attended, Restart!InUse, Restart!Living, Starts
<1>9. Alone'
  BY <1>1, <1>2, <1>4, <1>5 DEF Alone
<1>10. Counted'
  BY <1>1, <1>2, <1>4, <1>6 DEF Counted, Past
<1>11. Idle'
  BY <1>1, <1>2, <1>3, <1>4 DEF Idle
<1>12. Restart!IdsTellApart'
  BY <1>2 DEF RestartInv, Restart!IdsTellApart
<1>13. Restart!RestartServesNobody'
  <2> SUFFICES ASSUME NEW j \in Past, served[j].by # 0 PROVE ~threads'[served[j].by].late
    BY <1>2 DEF Restart!RestartServesNobody, Past
  <2>1. served[j].by \in Starts
    BY <1>1, Elements DEF Counted, Starts, Connections
  <2> QED
    BY <2>1, <1>4 DEF RestartInv, Restart!RestartServesNobody, Past
<1> QED
  BY <1>7, <1>8, <1>9, <1>10, <1>11, <1>12, <1>13 DEF RestartInv

(* A thread gives the next id of its own counter, which is ahead of those  *)
(* it gave and of those serve_one gave before the first start.             *)
LEMMA AcceptSomebody ==
    ASSUME RestartInv, NEW i \in Starts, Restart!Accept(i), backlog[threads[i].port] # <<>>
    PROVE  RestartInv'
<1> DEFINE old == threads[i]
           q == old.port
           t == [old EXCEPT !.at = "check", !.next_id = old.next_id + 1]
           n == Len(served) + 1
           new == [id |-> old.next_id, by |-> i, who |-> Head(backlog[q]), starts |-> Len(threads)]
<1>1. Typed /\ Attended /\ Alone /\ Counted /\ Idle
  BY DEF RestartInv
<1>2. /\ old.at = "accept"
      /\ UNCHANGED <<fixed, listener, bound, next_conn_id, stop, accept_thread, call, calls>>
      /\ backlog' = [backlog EXCEPT ![q] = Tail(backlog[q])]
      /\ served' = Append(served, new)
      /\ backlog[q] # <<>>
  BY DEF Restart!Accept
<1>3. old \in Accepting
  BY <1>1, Elements
<1>4. threads' = [threads EXCEPT ![i] = t]
  BY <1>1, <1>3 DEF Restart!Accept, Accepting, Typed
<1>5. /\ t \in Accepting
      /\ t.port = old.port /\ t.late = old.late /\ t.next_id = old.next_id + 1 /\ t.at = "check"
  <2>1. old.next_id + 1 \in Nat
    BY <1>3 DEF Accepting
  <2> DEFINE next == old.next_id + 1
  <2> HIDE DEF next, old
  <2>2. t = [[old EXCEPT !.at = "check"] EXCEPT !.next_id = next]
    BY DEF next
  <2> QED
    BY <2>1, <2>2, <1>3 DEF Accepting, next
<1>6. q \in Ports /\ old.next_id \in Nat /\ Len(threads) \in Nat /\ i \in Nat /\ i # 0
  BY <1>1, <1>3, Elements DEF Accepting, Starts
<1>7. backlog[q] \in Seq(People)
  BY <1>1, <1>6 DEF Typed
<1>8. Head(backlog[q]) \in People /\ Tail(backlog[q]) \in Seq(People)
  BY <1>2, <1>7
<1>9. new \in Connections
  BY <1>6, <1>8 DEF Connections
<1>10. new.id = old.next_id /\ new.by = i /\ new.starts = Len(threads)
  OBVIOUS
<1> HIDE DEF new, t
<1>11. /\ served' \in Seq(Connections) /\ Len(served') = n /\ n \in Nat
       /\ Past' = Past \cup {n} /\ n \notin Past
       /\ served'[n] = new
       /\ \A j \in Past : served'[j] = served[j]
  BY <1>1, <1>2, <1>9 DEF Typed, Past
<1>12. /\ threads' \in Seq(Accepting)
       /\ Len(threads') = Len(threads) /\ Starts' = Starts
       /\ threads'[i] = t
       /\ \A k \in Starts : k # i => threads'[k] = threads[k]
       /\ \A k \in Starts : threads'[k].port = threads[k].port /\ threads'[k].late = threads[k].late
       /\ t.at # "exited" /\ threads[i].at # "exited" => Restart!Living' = Restart!Living
  BY <1>1, <1>4, <1>5, ThreadMoves
<1>13. Restart!Living' = Restart!Living
  BY <1>2, <1>5, <1>12
<1>14. backlog' \in [Ports -> Seq(People)] /\ \A p \in Ports : backlog'[p] # <<>> => backlog[p] # <<>>
  BY <1>1, <1>2, <1>6, <1>8 DEF Typed
<1>15. Typed'
  BY <1>1, <1>2, <1>11, <1>12, <1>14 DEF Typed
<1> HIDE DEF n, q, old
<1>16. Attended'
  BY <1>1, <1>2, <1>12, <1>13, <1>14 DEF Attended, Restart!InUse, Restart!Living, Starts
<1>17. Alone'
  BY <1>1, <1>2, <1>12, <1>13 DEF Alone
<1>18. Idle'
  BY <1>1, <1>2, <1>5, <1>12 DEF Idle
<1>19. ASSUME NEW j \in Past
       PROVE  /\ served[j].id \in Nat
              /\ served[j].by = i => served[j].id < old.next_id
              /\ served[j].by = 0 /\ served[j].starts = 0 => served[j].id < old.next_id
  BY <1>1, Elements DEF Counted, Connections, old
<1>20. \A k \in Starts : /\ threads[k].next_id \in Nat
                         /\ threads'[k].next_id \in {threads[k].next_id, threads[k].next_id + 1}
  <2>1. \A k \in Starts : threads[k].next_id \in Nat
    BY <1>1, Elements DEF Accepting
  <2> QED
    BY <2>1, <1>5, <1>12 DEF old
<1>21. Counted'
  <2>1. ASSUME NEW j \in Past'
        PROVE  /\ served'[j].by \in 0..Len(threads)
               /\ served'[j].by = 0 => served'[j].id < next_conn_id
    <3>1. CASE j = n
      BY <3>1, <1>6, <1>10, <1>11 DEF Starts
    <3>2. CASE j \in Past
      BY <3>2, <1>1, <1>11 DEF Counted
    <3> QED
      BY <3>1, <3>2, <1>11
  <2>2. ASSUME NEW j \in Past', NEW k \in Starts,
               served'[j].by = k \/ (served'[j].by = 0 /\ served'[j].starts = 0)
        PROVE  served'[j].id < threads'[k].next_id
    <3>1. CASE j = n
      <4>1. served'[j].id = old.next_id /\ k = i
        BY <2>2, <3>1, <1>6, <1>10, <1>11
      <4>2. threads'[i].next_id = old.next_id + 1
        BY <1>5, <1>12
      <4> QED
        BY <4>1, <4>2, <1>6
    <3>2. CASE j \in Past
      <4>1. served'[j] = served[j]
        BY <3>2, <1>11
      <4>2. served[j].id < threads[k].next_id /\ served[j].id \in Nat
        BY <2>2, <3>2, <4>1, <1>1, <1>19 DEF Counted
      <4> QED
        BY <4>1, <4>2, <1>20
    <3> QED
      BY <3>1, <3>2, <1>11
  <2> QED
    BY <2>1, <2>2, <1>2, <1>12 DEF Counted
<1>22. Restart!IdsTellApart'
  <2> SUFFICES ASSUME NEW j \in Past', NEW m \in Past', j < m, served'[j].id = served'[m].id
               PROVE  /\ served'[j].by # served'[m].by
                      /\ served'[m].by = 0 => served'[m].starts > 0
                      /\ served'[j].by = 0 => served'[j].starts > 0
    BY DEF Restart!IdsTellApart, Past
  <2>1. CASE m \in Past
    <3>1. j \in Past
      BY <2>1, <1>11 DEF Past, n
    <3> QED
      BY <2>1, <3>1, <1>11 DEF RestartInv, Restart!IdsTellApart, Past
  <2>2. CASE m = n
    <3>1. j \in Past
      BY <2>2, <1>11 DEF Past
    <3>2. served[j].id = old.next_id /\ served'[j] = served[j] /\ served'[m].by = i
      BY <2>2, <3>1, <1>10, <1>11
    <3>3. served[j].by # i
      BY <3>1, <3>2, <1>6, <1>19
    <3>4. served[j].by = 0 => served[j].starts # 0
      BY <3>1, <3>2, <1>6, <1>19
    <3>5. served[j].starts \in Nat
      BY <3>1, <1>1, Elements DEF Connections
    <3> QED
      BY <3>2, <3>3, <3>4, <3>5, <1>6
  <2> QED
    BY <2>1, <2>2, <1>11
<1>23. Restart!RestartServesNobody'
  <2> SUFFICES ASSUME NEW j \in Past', served'[j].by # 0 PROVE ~threads'[served'[j].by].late
    BY DEF Restart!RestartServesNobody, Past
  <2>1. CASE j = n
    <3>1. ~threads[i].late
      BY <1>1, <1>2 DEF Idle, old
    <3> QED
      BY <2>1, <3>1, <1>10, <1>11, <1>12
  <2>2. CASE j \in Past
    <3>1. served[j].by \in Starts /\ served'[j] = served[j]
      BY <2>2, <1>1, <1>11, Elements DEF Counted, Starts, Connections
    <3> QED
      BY <2>2, <3>1, <1>12 DEF RestartInv, Restart!RestartServesNobody, Past
  <2> QED
    BY <2>1, <2>2, <1>11
<1> QED
  BY <1>15, <1>16, <1>17, <1>18, <1>21, <1>22, <1>23 DEF RestartInv

-----------------------------------------------------------------------------
(* The theorem                                                             *)

LEMMA RestartStep == ASSUME RestartInv, Restart!Next PROVE RestartInv'
<1>1. CASE Restart!Bind
  BY <1>1, BindKeeps
<1>2. CASE Restart!BindFails
  BY <1>2, BindFailsKeeps
<1>3. CASE Restart!StartBackground
  BY <1>3, StartKeeps DEF Restart!StartBackground
<1>4. CASE Restart!ServeForever
  BY <1>4, StartKeeps DEF Restart!ServeForever
<1>5. CASE Restart!ServeOne
  BY <1>5, ServeOneKeeps
<1>6. CASE Restart!AcceptOne
  BY <1>6, AcceptOneKeeps
<1>7. CASE Restart!RequestStop
  BY <1>7, RequestStopKeeps
<1>8. CASE Restart!Shutdown
  BY <1>8, ShutdownKeeps
<1>9. CASE Restart!EndForever
  BY <1>9, EndForeverKeeps
<1>10. CASE Restart!Join
  BY <1>10, JoinKeeps
<1>11. ASSUME NEW i \in Restart!Ports, Restart!ThreadStep(i)
       PROVE  RestartInv'
  <2>1. i \in Starts /\ (Restart!CheckStop(i) \/ Restart!Accept(i))
    BY <1>11 DEF Restart!ThreadStep, Starts
  <2>2. CASE Restart!CheckStop(i)
    BY <2>1, <2>2, CheckStopKeeps
  <2>3. CASE Restart!Accept(i)
    BY <2>1, <2>3, AcceptNobody, AcceptSomebody
  <2> QED
    BY <2>1, <2>2, <2>3
<1>12. ASSUME NEW c \in Clients, NEW p \in Restart!Ports, Restart!Connect(c, p)
       PROVE  RestartInv'
  BY <1>12, ConnectKeeps DEF Restart!Ports
<1> QED
  BY <1>1, <1>2, <1>3, <1>4, <1>5, <1>6, <1>7, <1>8, <1>9, <1>10, <1>11, <1>12 DEF Restart!Next

LEMMA RestartStutters == ASSUME RestartInv, UNCHANGED restartVars PROVE RestartInv'
<1> USE DEF restartVars
<1>1. Typed' /\ Attended' /\ Alone'
  BY PortsKept DEF RestartInv, Typed, Attended, Alone
<1> QED
  BY <1>1, ServedKept DEF RestartInv

(* However often a server is started, asked to serve one, stopped and      *)
(* started again, and whoever connects: the ids in its trace tell apart    *)
(* the connections of one counter, a fixed port never has two accept       *)
(* threads, and a start after the stop flag was set serves nobody.         *)
THEOREM SecondStartTold == FairSpec => []SecondStart
<1>1. Init => RestartInv
  BY RestartStarts DEF Init
<1>2. RestartInv /\ [Next]_vars => RestartInv'
  <2> SUFFICES ASSUME RestartInv, [Next]_vars PROVE RestartInv'
    OBVIOUS
  <2>1. CASE Restarting(Restart!Next)
    BY <2>1, RestartStep DEF Restarting
  <2>2. CASE Feeding(Ingress!Next) \/ Tracing(Worker!Next) \/ UNCHANGED vars
    BY <2>2, RestartStutters DEF Feeding, Tracing, vars
  <2> QED
    BY <2>1, <2>2 DEF Next
<1>3. RestartInv => SecondStart
  <2> SUFFICES ASSUME RestartInv PROVE SecondStart
    OBVIOUS
  <2>1. Restart!TypeOK
    BY BoundsAssumption DEF RestartInv, Typed, Attended, Restart!TypeOK, Restart!Ports
  <2>2. Restart!OnePortOneThread
    BY DEF RestartInv, Alone, Restart!OnePortOneThread
  <2> QED
    BY <2>1, <2>2 DEF RestartInv, SecondStart
<1> QED
  BY <1>1, <1>2, <1>3, PTL DEF FairSpec

-----------------------------------------------------------------------------
(* The trace of a worker                                                   *)

Actions == Worker!EndEvents \cup {"ACCEPT", "RECV", "ChangeState", "SendFrame"}
Answers == {"x1F", "x1A", "x7A", "xFB", "xSYN_RSP"}
Texts == Worker!Ids \cup Worker!States \cup Answers \cup {"none"}
Events == [action : Actions, id : Texts, state : Worker!States]

(* What the properties say of the trace, of any list of events.            *)
Tells(l, i) == l[i].action \in {"RECV", "ChangeState"}

Sent(l, i) == {k \in 1..i : l[k].action = "SendFrame"}

Answered(l, i) ==
    LET request == IF l[i - 1].action = "ChangeState" THEN i - 2 ELSE i - 1
    IN  /\ l[request].action = "RECV"
        /\ l[i].id \in Worker!Replies(l[request].state, l[request].id, TRUE)

RepliesIn(l, w) ==
    /\ Len(w) = Cardinality(Sent(l, Len(l)))
    /\ \A i \in Sent(l, Len(l)) : Answered(l, i) /\ l[i].id = w[Cardinality(Sent(l, i))]

Follows(d, e) ==
    \/ e.state = d.state
    \/ e.action = "ChangeState"
    \/ <<d.state, e.state>> \in Worker!UntracedMoves

Started(l, i) ==
    /\ l[i - 1].action = "RECV"
    /\ l[i - 1].state = l[i].id /\ l[i].id # l[i].state

MovesIn(l) ==
    /\ \A i \in 1..Len(l) : l[i].action = "ChangeState" => Started(l, i)
    /\ \A i, j \in 1..Len(l) :
          /\ i < j /\ Tells(l, i) /\ Tells(l, j)
          /\ \A k \in i + 1..j - 1 : ~Tells(l, k)
          => Follows(l[i], l[j])

Story(l, w) ==
    /\ l \in Seq(Events) /\ w \in Seq(Texts)
    /\ Len(l) >= 1 /\ l[1].action = "ACCEPT"
    /\ RepliesIn(l, w)
    /\ MovesIn(l)

(* Nothing has ended yet.                                                  *)
Calm(l) == \A i \in 1..Len(l) : l[i].action \notin Worker!EndEvents /\ l[i].state # "Closed"

(* The last event that tells the state tells s, but for a move that is not *)
(* traced.                                                                 *)
Abreast(l, s) ==
    \A i \in 1..Len(l) :
        Tells(l, i) /\ (\A k \in i + 1..Len(l) : ~Tells(l, k))
            => l[i].state = s \/ <<l[i].state, s>> \in Worker!UntracedMoves

(* A message that asks for a reply, where the reply belongs, and whether   *)
(* it is missing.                                                          *)
Asking(l, i) == l[i].action = "RECV" /\ Worker!Replies(l[i].state, l[i].id, TRUE) # {}
Place(l, i) == IF i < Len(l) /\ l[i + 1].action = "ChangeState" THEN i + 2 ELSE i + 1
Missing(l, i) == Asking(l, i) /\ ~(Place(l, i) <= Len(l) /\ l[Place(l, i)].action = "SendFrame")
NoneMissing(l) == \A i \in 1..Len(l) : ~Missing(l, i)

(* What a list of events tells of an end, and of c closings.               *)
TellsEnd(l, how, c) ==
    /\ \A i \in 1..Len(l) : l[i].action \in Worker!EndEvents => i = Len(l)
    /\ how \in {"break", "error"} <=> l[Len(l)].action \in Worker!EndEvents
    /\ how = "write" <=> \E i \in 1..Len(l) : Missing(l, i)
    /\ \A i \in 1..Len(l) : Missing(l, i) => Place(l, i) > Len(l)
    /\ \A i \in 1..Len(l) : l[i].state = "Closed" <=> l[i].action = "EOF"
    /\ c > 0 <=> how = "break"

(* While the worker runs, its session is where the trace says it is, and   *)
(* only a reply that is not written is ever missing.                       *)
WorkerInv ==
    /\ state \in Worker!States
    /\ closings \in Nat
    /\ batch \in Seq(Worker!Frames)
    /\ ended \in {"no", "break", "error", "read", "write"}
    /\ Story(trace, written)
    /\ ended \in {"no", "read", "write"} => Calm(trace) /\ closings = 0
    /\ ended # "write" => NoneMissing(trace)
    /\ ended = "no" => state # "Closed" /\ Abreast(trace, state)
    /\ TellsEnd(trace, ended, closings)

(* What an event put at the end of a list changes of it.                   *)
LEMMA Appended ==
    ASSUME NEW l \in Seq(Events), NEW e \in Events
    PROVE  LET n == Len(l) + 1
               new == Append(l, e)
           IN  /\ n \in Nat /\ Len(l) \in Nat /\ new \in Seq(Events) /\ Len(new) = n
               /\ 1..n = (1..Len(l)) \cup {n} /\ n \notin 1..Len(l)
               /\ new[n] = e
               /\ \A i \in 1..Len(l) : new[i] = l[i] /\ l[i] \in Events
  OBVIOUS

LEMMA SentAppended ==
    ASSUME NEW l \in Seq(Events), NEW e \in Events
    PROVE  LET n == Len(l) + 1
               new == Append(l, e)
           IN  /\ \A i \in 1..Len(l) : Sent(new, i) = Sent(l, i)
               /\ e.action # "SendFrame" => Sent(new, n) = Sent(l, Len(l))
               /\ e.action = "SendFrame" =>
                    /\ Sent(new, n) = Sent(l, Len(l)) \cup {n}
                    /\ Cardinality(Sent(new, n)) = Cardinality(Sent(l, Len(l))) + 1
               /\ IsFiniteSet(Sent(l, Len(l))) /\ Cardinality(Sent(l, Len(l))) \in Nat
<1> DEFINE n == Len(l) + 1
           new == Append(l, e)
<1>1. /\ n \in Nat /\ Len(l) \in Nat /\ new[n] = e
      /\ 1..n = (1..Len(l)) \cup {n} /\ n \notin 1..Len(l)
      /\ \A i \in 1..Len(l) : new[i] = l[i]
  BY Appended
<1> HIDE DEF new
<1>2. \A i \in 1..Len(l) : 1..i \subseteq 1..Len(l)
  BY <1>1
<1>3. \A i \in 1..Len(l) : Sent(new, i) = Sent(l, i)
  BY <1>1, <1>2 DEF Sent
<1> HIDE DEF n
<1>4. e.action # "SendFrame" => Sent(new, n) = Sent(l, Len(l))
  BY <1>1 DEF Sent
<1>5. e.action = "SendFrame" => Sent(new, n) = Sent(l, Len(l)) \cup {n}
  BY <1>1 DEF Sent
<1>6. IsFiniteSet(Sent(l, Len(l))) /\ Cardinality(Sent(l, Len(l))) \in Nat
  <2>1. IsFiniteSet(1..Len(l))
    BY <1>1, FS_Interval
  <2>2. Sent(l, Len(l)) \subseteq 1..Len(l)
    BY DEF Sent
  <2> QED
    BY <2>1, <2>2, FS_Subset, FS_CardinalityType
<1>7. e.action = "SendFrame" => Cardinality(Sent(new, n)) = Cardinality(Sent(l, Len(l))) + 1
  <2>1. n \notin Sent(l, Len(l))
    BY <1>1 DEF Sent
  <2> QED
    BY <2>1, <1>5, <1>6, FS_AddElement
<1> QED
  BY <1>3, <1>4, <1>5, <1>6, <1>7 DEF new, n

(* What is told of an earlier reply stays as it is.                        *)
LEMMA EarlierSame ==
    ASSUME NEW l \in Seq(Events), NEW e \in Events, NEW w,
           Len(l) >= 1, l[1].action = "ACCEPT", RepliesIn(l, w),
           NEW i \in Sent(l, Len(l))
    PROVE  /\ i \in 1..Len(l)
           /\ Append(l, e)[i] = l[i]
           /\ Answered(Append(l, e), i)
           /\ l[i].id = w[Cardinality(Sent(l, i))]
<1> DEFINE new == Append(l, e)
<1>1. i \in 1..Len(l) /\ l[i].action = "SendFrame" /\ Answered(l, i) /\ l[i].id = w[Cardinality(Sent(l, i))]
  BY DEF Sent, RepliesIn
<1>2. Len(l) \in Nat /\ \A k \in 1..Len(l) : new[k] = l[k]
  BY Appended
<1> HIDE DEF new
<1>3. i # 1 /\ i - 1 \in 1..Len(l)
  BY <1>1, <1>2
<1>4. l[i - 1].action = "ChangeState" => i - 2 \in 1..Len(l)
  BY <1>1, <1>2, <1>3
<1>5. Answered(new, i)
  BY <1>1, <1>2, <1>3, <1>4 DEF Answered
<1> QED
  BY <1>1, <1>2, <1>5 DEF new

LEMMA RepliesKept ==
    ASSUME NEW l \in Seq(Events), NEW e \in Events, NEW w,
           Len(l) >= 1, l[1].action = "ACCEPT", RepliesIn(l, w), e.action # "SendFrame"
    PROVE  RepliesIn(Append(l, e), w)
<1> DEFINE new == Append(l, e)
           n == Len(l) + 1
<1>1. Len(new) = n /\ Sent(new, n) = Sent(l, Len(l)) /\ \A i \in 1..Len(l) : Sent(new, i) = Sent(l, i)
  BY Appended, SentAppended
<1>2. Len(w) = Cardinality(Sent(new, Len(new)))
  BY <1>1 DEF RepliesIn
<1>3. ASSUME NEW i \in Sent(new, Len(new))
      PROVE  Answered(new, i) /\ new[i].id = w[Cardinality(Sent(new, i))]
  <2>1. i \in Sent(l, Len(l))
    BY <1>1
  <2>2. i \in 1..Len(l) /\ new[i] = l[i] /\ Answered(new, i) /\ l[i].id = w[Cardinality(Sent(l, i))]
    BY <2>1, EarlierSame
  <2> QED
    BY <2>2, <1>1
<1> QED
  BY <1>2, <1>3 DEF RepliesIn

LEMMA RepliesSent ==
    ASSUME NEW l \in Seq(Events), NEW e \in Events, NEW w \in Seq(Texts),
           Len(l) >= 1, l[1].action = "ACCEPT", RepliesIn(l, w), e.action = "SendFrame",
           Answered(Append(l, e), Len(l) + 1)
    PROVE  RepliesIn(Append(l, e), Append(w, e.id))
<1> DEFINE new == Append(l, e)
           n == Len(l) + 1
           ws == Append(w, e.id)
           c == Cardinality(Sent(l, Len(l)))
<1>1. /\ Len(new) = n /\ new[n] = e
      /\ Sent(new, n) = Sent(l, Len(l)) \cup {n} /\ Cardinality(Sent(new, n)) = c + 1
      /\ \A i \in 1..Len(l) : Sent(new, i) = Sent(l, i)
      /\ IsFiniteSet(Sent(l, Len(l))) /\ c \in Nat
  BY Appended, SentAppended
<1>2. Len(w) = c
  BY DEF RepliesIn
<1>3. Len(ws) = c + 1 /\ ws[c + 1] = e.id /\ \A k \in 1..c : ws[k] = w[k]
  <2>1. e.id \in Texts
    BY DEF Events
  <2> HIDE DEF c
  <2> QED
    BY <2>1, <1>2
<1>4. ASSUME NEW i \in Sent(l, Len(l))
      PROVE  Answered(new, i) /\ new[i].id = ws[Cardinality(Sent(new, i))]
  <2>1. i \in 1..Len(l) /\ new[i] = l[i] /\ Answered(new, i) /\ l[i].id = w[Cardinality(Sent(l, i))]
    BY EarlierSame
  <2>2. Sent(l, i) \subseteq Sent(l, Len(l)) /\ i \in Sent(l, i)
    <3>1. 1..i \subseteq 1..Len(l) /\ i \in 1..i
      BY <2>1, Appended
    <3> QED
      BY <3>1 DEF Sent
  <2>3. IsFiniteSet(Sent(l, i)) /\ Cardinality(Sent(l, i)) \in Nat /\ Cardinality(Sent(l, i)) <= c
    BY <2>2, <1>1, FS_Subset, FS_CardinalityType
  <2>4. Cardinality(Sent(l, i)) # 0
    BY <2>2, <2>3, FS_EmptySet
  <2>5. Cardinality(Sent(l, i)) \in 1..c
    <3> DEFINE d == Cardinality(Sent(l, i))
    <3> HIDE DEF c, d
    <3>1. d \in Nat /\ d <= c /\ d # 0 /\ c \in Nat
      BY <2>3, <2>4, <1>1 DEF d
    <3>2. d \in 1..c
      BY <3>1
    <3> QED
      BY <3>2 DEF d
  <2> QED
    BY <2>1, <2>5, <1>1, <1>3
<1>5. Answered(new, n) /\ new[n].id = ws[Cardinality(Sent(new, n))]
  BY <1>1, <1>3
<1> HIDE DEF new, n, ws
<1>6. \A i \in Sent(new, n) : Answered(new, i) /\ new[i].id = ws[Cardinality(Sent(new, i))]
  BY <1>1, <1>4, <1>5
<1>7. RepliesIn(new, ws)
  BY <1>1, <1>3, <1>6 DEF RepliesIn
<1> QED
  BY <1>7 DEF new, ws

(* An event continues the moves if it follows the last that tells a state. *)
LEMMA MovesKept ==
    ASSUME NEW l \in Seq(Events), NEW e \in Events,
           Len(l) >= 1, l[1].action = "ACCEPT", MovesIn(l),
           e.action = "ChangeState" => Started(Append(l, e), Len(l) + 1),
           e.action = "RECV" => Abreast(l, e.state)
    PROVE  MovesIn(Append(l, e))
<1> DEFINE new == Append(l, e)
           n == Len(l) + 1
<1>1. /\ n \in Nat /\ Len(l) \in Nat /\ Len(new) = n
      /\ 1..n = (1..Len(l)) \cup {n} /\ n \notin 1..Len(l)
      /\ new[n] = e
      /\ \A i \in 1..Len(l) : new[i] = l[i]
  BY Appended
<1>2. e.action = "ChangeState" => Started(new, n)
  OBVIOUS
<1> HIDE DEF new
<1>3. ASSUME NEW i \in 1..n, new[i].action = "ChangeState"
      PROVE  Started(new, i)
  <2>1. CASE i = n
    BY <2>1, <1>1, <1>2, <1>3
  <2>2. CASE i \in 1..Len(l)
    <3>1. l[i].action = "ChangeState" /\ Started(l, i)
      BY <2>2, <1>1, <1>3 DEF MovesIn
    <3>2. i # 1 /\ i - 1 \in 1..Len(l)
      BY <2>2, <3>1, <1>1
    <3> QED
      BY <2>2, <3>1, <3>2, <1>1 DEF Started
  <2> QED
    BY <2>1, <2>2, <1>1
<1>4. ASSUME NEW i \in 1..n, NEW j \in 1..n, i < j, Tells(new, i), Tells(new, j),
             \A k \in i + 1..j - 1 : ~Tells(new, k)
      PROVE  Follows(new[i], new[j])
  <2>1. i \in 1..Len(l)
    BY <1>1, <1>4
  <2>2. CASE j = n
    <3>1. i + 1..n - 1 = i + 1..Len(l)
      BY <1>1 DEF n
    <3>2. \A k \in i + 1..Len(l) : new[k] = l[k]
      BY <2>1, <1>1
    <3>3. Tells(l, i) /\ \A k \in i + 1..Len(l) : ~Tells(l, k)
      BY <2>1, <2>2, <3>1, <3>2, <1>1, <1>4 DEF Tells
    <3>4. CASE e.action = "RECV"
      <4>1. l[i].state = e.state \/ <<l[i].state, e.state>> \in Worker!UntracedMoves
        BY <2>1, <3>3, <3>4 DEF Abreast
      <4> QED
        BY <4>1, <2>1, <2>2, <1>1 DEF Follows
    <3>5. CASE e.action = "ChangeState"
      BY <3>5, <2>2, <1>1 DEF Follows
    <3> QED
      BY <2>2, <3>4, <3>5, <1>1, <1>4 DEF Tells
  <2>3. CASE j \in 1..Len(l)
    <3>1. \A k \in i + 1..j - 1 : k \in 1..Len(l)
      BY <2>1, <2>3, <1>1
    <3>2. Tells(l, i) /\ Tells(l, j) /\ \A k \in i + 1..j - 1 : ~Tells(l, k)
      BY <2>1, <2>3, <3>1, <1>1, <1>4 DEF Tells
    <3> QED
      BY <2>1, <2>3, <3>2, <1>1, <1>4 DEF MovesIn
  <2> QED
    BY <2>2, <2>3, <1>1
<1> HIDE DEF n
<1>5. MovesIn(new)
  BY <1>1, <1>3, <1>4 DEF MovesIn
<1> QED
  BY <1>5 DEF new

LEMMA AbreastTelling ==
    ASSUME NEW l \in Seq(Events), NEW e \in Events, NEW s,
           e.action \in {"RECV", "ChangeState"},
           s = e.state \/ <<e.state, s>> \in Worker!UntracedMoves
    PROVE  Abreast(Append(l, e), s)
<1> DEFINE new == Append(l, e)
           n == Len(l) + 1
<1>1. /\ n \in Nat /\ Len(l) \in Nat /\ Len(new) = n /\ new[n] = e
      /\ 1..n = (1..Len(l)) \cup {n}
  BY Appended
<1> HIDE DEF new
<1>2. ASSUME NEW i \in 1..n, Tells(new, i), \A k \in i + 1..n : ~Tells(new, k)
      PROVE  i = n
  <2>1. Tells(new, n)
    BY <1>1 DEF Tells
  <2>2. n \notin i + 1..n
    BY <2>1, <1>2
  <2> QED
    BY <2>2, <1>1
<1> QED
  BY <1>1, <1>2 DEF Abreast, new

LEMMA AbreastKept ==
    ASSUME NEW l \in Seq(Events), NEW e \in Events, NEW s,
           e.action \notin {"RECV", "ChangeState"}, Abreast(l, s)
    PROVE  Abreast(Append(l, e), s)
<1> DEFINE new == Append(l, e)
           n == Len(l) + 1
<1>1. /\ n \in Nat /\ Len(l) \in Nat /\ Len(new) = n /\ new[n] = e
      /\ 1..n = (1..Len(l)) \cup {n}
      /\ \A i \in 1..Len(l) : new[i] = l[i]
  BY Appended
<1> HIDE DEF new
<1>2. ASSUME NEW i \in 1..n, Tells(new, i), \A k \in i + 1..n : ~Tells(new, k)
      PROVE  new[i].state = s \/ <<new[i].state, s>> \in Worker!UntracedMoves
  <2>1. i \in 1..Len(l)
    BY <1>1, <1>2 DEF Tells
  <2>2. \A k \in i + 1..Len(l) : k \in i + 1..n /\ k \in 1..Len(l)
    BY <2>1, <1>1
  <2>3. Tells(l, i) /\ \A k \in i + 1..Len(l) : ~Tells(l, k)
    BY <2>1, <2>2, <1>1, <1>2 DEF Tells
  <2> QED
    BY <2>1, <2>3, <1>1 DEF Abreast
<1> QED
  BY <1>1, <1>2 DEF Abreast, new

LEMMA CalmKept ==
    ASSUME NEW l \in Seq(Events), NEW e \in Events, Calm(l),
           e.action \notin Worker!EndEvents, e.state # "Closed"
    PROVE  Calm(Append(l, e))
  BY Appended DEF Calm

(* The story goes on with an event that is neither a message, a move nor a *)
(* reply.                                                                  *)
LEMMA StoryKept ==
    ASSUME NEW l, NEW w, NEW e \in Events, Story(l, w),
           e.action \notin {"RECV", "ChangeState", "SendFrame"}
    PROVE  Story(Append(l, e), w)
<1>1. /\ Append(l, e) \in Seq(Events) /\ Len(Append(l, e)) = Len(l) + 1 /\ Len(l) \in Nat
      /\ Append(l, e)[1] = l[1]
  BY DEF Story
<1>2. RepliesIn(Append(l, e), w)
  BY RepliesKept DEF Story
<1>3. MovesIn(Append(l, e))
  BY MovesKept DEF Story
<1> QED
  BY <1>1, <1>2, <1>3 DEF Story

LEMMA StoryReceives ==
    ASSUME NEW l, NEW w, NEW e \in Events, Story(l, w),
           e.action = "RECV", Abreast(l, e.state)
    PROVE  Story(Append(l, e), w)
<1>1. /\ Append(l, e) \in Seq(Events) /\ Len(Append(l, e)) = Len(l) + 1 /\ Len(l) \in Nat
      /\ Append(l, e)[1] = l[1]
  BY DEF Story
<1>2. RepliesIn(Append(l, e), w)
  BY RepliesKept DEF Story
<1>3. MovesIn(Append(l, e))
  BY MovesKept DEF Story
<1> QED
  BY <1>1, <1>2, <1>3 DEF Story

LEMMA StoryMoves ==
    ASSUME NEW l, NEW w, NEW e \in Events, Story(l, w),
           e.action = "ChangeState", e.id # e.state,
           l[Len(l)].action = "RECV", l[Len(l)].state = e.id
    PROVE  Story(Append(l, e), w)
<1>1. /\ Append(l, e) \in Seq(Events) /\ Len(Append(l, e)) = Len(l) + 1 /\ Len(l) \in Nat
      /\ Append(l, e)[1] = l[1]
  BY DEF Story
<1>2. RepliesIn(Append(l, e), w)
  BY RepliesKept DEF Story
<1>3. Started(Append(l, e), Len(l) + 1)
  <2> DEFINE new == Append(l, e)
             n == Len(l) + 1
  <2>1. new[n] = e /\ new[Len(l)] = l[Len(l)] /\ Len(l) \in Nat
    BY DEF Story
  <2>2. n - 1 = Len(l)
    BY <2>1
  <2> HIDE DEF new, n
  <2>3. new[n - 1] = l[Len(l)]
    BY <2>1, <2>2
  <2>4. Started(new, n)
    BY <2>1, <2>3 DEF Started
  <2> QED
    BY <2>4 DEF new, n
<1>4. MovesIn(Append(l, e))
  BY <1>3, MovesKept DEF Story
<1> QED
  BY <1>1, <1>2, <1>4 DEF Story

LEMMA StorySends ==
    ASSUME NEW l, NEW w, NEW e \in Events, Story(l, w),
           e.action = "SendFrame", Answered(Append(l, e), Len(l) + 1)
    PROVE  Story(Append(l, e), Append(w, e.id))
<1>1. /\ Append(l, e) \in Seq(Events) /\ Len(Append(l, e)) = Len(l) + 1 /\ Len(l) \in Nat
      /\ Append(l, e)[1] = l[1]
  BY DEF Story
<1>2. Append(w, e.id) \in Seq(Texts)
  BY DEF Story, Events
<1>3. RepliesIn(Append(l, e), Append(w, e.id))
  BY RepliesSent DEF Story
<1>4. MovesIn(Append(l, e))
  BY MovesKept DEF Story
<1> QED
  BY <1>1, <1>2, <1>3, <1>4 DEF Story

-----------------------------------------------------------------------------
(* Replies that are missing                                                *)

(* A later event takes no reply away.                                      *)
LEMMA PresentKept ==
    ASSUME NEW l \in Seq(Events), NEW e \in Events, NEW i \in 1..Len(l), ~Missing(l, i)
    PROVE  ~Missing(Append(l, e), i)
<1> DEFINE new == Append(l, e)
<1>1. /\ Len(l) \in Nat /\ Len(new) = Len(l) + 1
      /\ \A k \in 1..Len(l) : new[k] = l[k]
  BY Appended
<1> HIDE DEF new
<1>2. CASE ~Asking(l, i)
  BY <1>1, <1>2 DEF Asking, Missing, new
<1>3. CASE Place(l, i) <= Len(l) /\ l[Place(l, i)].action = "SendFrame"
  <2>1. i + 1 \in 1..Len(l)
    BY <1>1, <1>3 DEF Place
  <2>2. Place(new, i) = Place(l, i) /\ Place(l, i) \in 1..Len(l)
    BY <2>1, <1>1, <1>3 DEF Place
  <2>3. new[Place(new, i)].action = "SendFrame" /\ Place(new, i) <= Len(new)
    BY <2>2, <1>1, <1>3
  <2> QED
    BY <2>3 DEF Missing, new
<1> QED
  BY <1>2, <1>3 DEF Missing

LEMMA NoneMissingKept ==
    ASSUME NEW l \in Seq(Events), NEW e \in Events, NoneMissing(l), e.action # "RECV"
    PROVE  NoneMissing(Append(l, e))
<1> DEFINE new == Append(l, e)
           n == Len(l) + 1
<1>1. 1..Len(new) = (1..Len(l)) \cup {n} /\ new[n] = e
  BY Appended
<1>2. ~Missing(new, n)
  BY <1>1 DEF Missing, Asking
<1>3. \A i \in 1..Len(l) : ~Missing(new, i)
  BY PresentKept DEF NoneMissing
<1> HIDE DEF new, n
<1>4. NoneMissing(new)
  BY <1>1, <1>2, <1>3 DEF NoneMissing
<1> QED
  BY <1>4 DEF new

(* Behind a message, and the change it made, only its own reply is         *)
(* missing, if it asks for one; and the reply ends that.                   *)
LEMMA ReplyDue ==
    ASSUME NEW l \in Seq(Events), NoneMissing(l),
           NEW d \in Events, d.action = "RECV",
           NEW c \in Events, c.action = "ChangeState",
           NEW r, r \in {Append(l, d), Append(Append(l, d), c)}
    PROVE  /\ r \in Seq(Events)
           /\ Worker!Replies(d.state, d.id, TRUE) = {} => NoneMissing(r)
           /\ Worker!Replies(d.state, d.id, TRUE) # {} => \E i \in 1..Len(r) : Missing(r, i)
           /\ \A i \in 1..Len(r) : Missing(r, i) => Place(r, i) > Len(r)
           /\ \A e \in Events : e.action = "SendFrame" => NoneMissing(Append(r, e))
<1> DEFINE n == Len(l) + 1
           asked == Append(l, d)
<1>1. /\ n \in Nat /\ n > 0 /\ asked \in Seq(Events) /\ Len(asked) = n /\ asked[n] = d
      /\ 1..n = (1..Len(l)) \cup {n}
      /\ \A i \in 1..Len(l) : ~Missing(asked, i)
  BY Appended, PresentKept DEF NoneMissing
<1> HIDE DEF n, asked
<1>2. \/ r = asked
      \/ r = Append(asked, c) /\ Len(r) = n + 1 /\ r[n + 1] = c /\ 1..n + 1 = (1..n) \cup {n + 1}
  BY <1>1, Appended DEF asked
<1>3. r \in Seq(Events) /\ Len(r) \in {n, n + 1} /\ r[n] = d
  <2>1. CASE r = asked
    BY <2>1, <1>1
  <2>2. CASE r = Append(asked, c)
    <3>1. r \in Seq(Events) /\ \A i \in 1..n : r[i] = asked[i]
      BY <2>2, <1>1, Appended
    <3> QED
      BY <3>1, <2>2, <1>1, <1>2
  <2> QED
    BY <2>1, <2>2, <1>2
<1>4. \A i \in 1..Len(r) : i # n => ~Missing(r, i)
  <2>1. CASE r = asked
    BY <2>1, <1>1
  <2>2. CASE r = Append(asked, c) /\ Len(r) = n + 1 /\ r[n + 1] = c
    <3>1. \A i \in 1..Len(l) : ~Missing(r, i)
      BY <2>2, <1>1, PresentKept
    <3>2. ~Missing(r, n + 1)
      BY <2>2 DEF Missing, Asking
    <3> QED
      BY <3>1, <3>2, <2>2, <1>1, <1>2
  <2> QED
    BY <2>1, <2>2, <1>2
<1>5. n \in 1..Len(r) /\ Place(r, n) = Len(r) + 1
  BY <1>1, <1>2, <1>3 DEF Place
<1>6. Missing(r, n) <=> Worker!Replies(d.state, d.id, TRUE) # {}
  <2>1. ~(Place(r, n) <= Len(r))
    BY <1>1, <1>3, <1>5
  <2> QED
    BY <2>1, <1>3 DEF Missing, Asking
<1>7. ASSUME NEW e \in Events, e.action = "SendFrame" PROVE NoneMissing(Append(r, e))
  <2> DEFINE new == Append(r, e)
             m == Len(r) + 1
  <2>1. /\ m \in Nat /\ Len(new) = m /\ new[m] = e /\ 1..m = (1..Len(r)) \cup {m}
        /\ \A i \in 1..Len(r) : new[i] = r[i]
    BY <1>3, Appended
  <2>2. \A i \in 1..Len(r) : i # n => ~Missing(new, i)
    BY <1>3, <1>4, PresentKept
  <2> HIDE DEF new, m
  <2>3. ~Missing(new, m)
    BY <2>1, <1>7 DEF Missing, Asking
  <2>4. Place(new, n) = m
    <3>1. CASE Len(r) = n
      BY <3>1, <2>1, <1>1, <1>7 DEF Place, m
    <3>2. CASE Len(r) = n + 1
      <4>1. new[n + 1] = r[n + 1] /\ r[n + 1] = c
        BY <3>2, <2>1, <1>1, <1>2
      <4> QED
        BY <4>1, <3>2, <2>1, <1>1 DEF Place, m
    <3> QED
      BY <3>1, <3>2, <1>3
  <2>5. ~Missing(new, n)
    BY <2>1, <2>4, <1>7 DEF Missing
  <2>6. NoneMissing(new)
    BY <2>1, <2>2, <2>3, <2>5 DEF NoneMissing
  <2> QED
    BY <2>6 DEF new
<1>8. \A i \in 1..Len(r) : Missing(r, i) => Place(r, i) > Len(r)
  BY <1>1, <1>3, <1>4, <1>5
<1> QED
  BY <1>3, <1>4, <1>5, <1>6, <1>7, <1>8 DEF NoneMissing

(* A message that is rejected asks for nothing.                            *)
LEMMA RejectedAskNothing ==
    ASSUME NEW f, Worker!Rejects(state, Worker!Message(f)), state \in Worker!States
    PROVE  Worker!Replies(state, f.id, TRUE) = {}
<1> SUFFICES ASSUME Worker!Replies(state, f.id, TRUE) # {} PROVE FALSE
  OBVIOUS
<1>1. \/ \E r : <<state, f.id, r>> \in Worker!ReplySteps
      \/ state \in Worker!ReadyStates /\ f.id = "xFA"
  BY DEF Worker!Replies
<1>2. Worker!Message(f).id = f.id /\ Worker!Message(f).dir = "c2s"
  BY DEF Worker!Message
<1>3. f.id \notin Worker!S2CIds
  BY <1>1 DEF Worker!ReplySteps, Worker!S2CIds
<1>4. state \notin Worker!ClosingStates \cup {"Connected"}
  BY <1>1 DEF Worker!ReplySteps, Worker!ClosingStates, Worker!ReadyStates
<1>5. state \notin Worker!ReadyStates /\ f.id \in Worker!SequencedIds /\ ~Worker!Awaits(state, f.id)
  BY <1>2, <1>3, <1>4 DEF Worker!Rejects, Worker!WrongDirection
<1>6. <<state, f.id>> \in {<<"WaitingForServiceHandshake", "x1E">>, <<"ServiceHandshakeComplete", "x19">>,
                         <<"WaitingForSessionLogin", "x19">>, <<"SessionEstablished", "x79">>}
  BY <1>1, <1>5 DEF Worker!ReplySteps, Worker!ReadyStates
<1>7. Worker!Awaits(state, f.id)
  BY <1>6 DEF Worker!Awaits, Worker!HandshakeSteps, Worker!States
<1> QED
  BY <1>5, <1>7

(* One event that ends a calm story is the last and the only one.          *)
LEMMA LastWord ==
    ASSUME NEW l \in Seq(Events), NEW e \in Events, Calm(l), NoneMissing(l),
           e.action \in Worker!EndEvents, e.state = "Closed" <=> e.action = "EOF",
           NEW how \in {"break", "error"}, NEW c, c > 0 <=> how = "break"
    PROVE  TellsEnd(Append(l, e), how, c)
<1> DEFINE new == Append(l, e)
<1>1. /\ Len(new) = Len(l) + 1 /\ new[Len(l) + 1] = e
      /\ 1..Len(new) = (1..Len(l)) \cup {Len(l) + 1}
      /\ \A i \in 1..Len(l) : new[i] = l[i]
  BY Appended
<1>2. "EOF" \in Worker!EndEvents /\ e.action # "RECV"
  BY DEF Worker!EndEvents, Worker!Unexplained
<1>3. NoneMissing(new)
  BY <1>2, NoneMissingKept
<1> HIDE DEF new
<1>4. /\ \A i \in 1..Len(new) : new[i].action \in Worker!EndEvents => i = Len(new)
      /\ new[Len(new)].action \in Worker!EndEvents
      /\ \A i \in 1..Len(new) : new[i].state = "Closed" <=> new[i].action = "EOF"
  BY <1>1, <1>2 DEF Calm
<1>5. TellsEnd(new, how, c)
  BY <1>3, <1>4 DEF TellsEnd, NoneMissing
<1> QED
  BY <1>5 DEF new

(* Of a calm story nothing is told, unless a reply is missing.             *)
LEMMA NothingTold ==
    ASSUME NEW l \in Seq(Events), Len(l) >= 1, Calm(l), NEW how \in {"no", "read", "write"},
           how = "write" <=> \E i \in 1..Len(l) : Missing(l, i),
           \A i \in 1..Len(l) : Missing(l, i) => Place(l, i) > Len(l)
    PROVE  TellsEnd(l, how, 0)
<1>1. "EOF" \in Worker!EndEvents /\ Len(l) \in 1..Len(l)
  BY DEF Worker!EndEvents
<1> QED
  BY <1>1 DEF Calm, TellsEnd

-----------------------------------------------------------------------------
(* What a message does to the state of a live session.                     *)

LEMMA OneStep ==
    ASSUME NEW s, NEW id, Worker!Awaits(s, id)
    PROVE  LET t == CHOOSE t \in Worker!States : <<s, id, t>> \in Worker!HandshakeSteps
           IN  /\ t \in Worker!States \ {"Closed"} /\ t # s
               /\ <<s, id, t>> \in Worker!HandshakeSteps
<1> DEFINE t == CHOOSE u \in Worker!States : <<s, id, u>> \in Worker!HandshakeSteps
<1>1. t \in Worker!States /\ <<s, id, t>> \in Worker!HandshakeSteps
  BY DEF Worker!Awaits
<1>2. \A u : <<s, id, u>> \in Worker!HandshakeSteps => u # "Closed" /\ u # s
  BY DEF Worker!HandshakeSteps
<1> QED
  BY <1>1, <1>2

LEMMA Moves ==
    ASSUME NEW s \in Worker!States, s # "Closed", NEW m, ~Worker!Rejects(s, m)
    PROVE  LET a == Worker!StateAfter(s, m)
               t == Worker!CompleteEncryptedHandshake(a)
           IN  /\ a \in Worker!States /\ a # "Closed"
               /\ t \in Worker!States /\ t # "Closed"
               /\ Worker!Advances(s, m) =>
                     a # s /\ (t = a \/ <<a, t>> \in Worker!UntracedMoves)
               /\ ~Worker!Advances(s, m) =>
                     t = s \/ <<s, t>> \in Worker!UntracedMoves
<1> DEFINE a == Worker!StateAfter(s, m)
           t == Worker!CompleteEncryptedHandshake(a)
<1>1. \/ s \in Worker!ReadyStates /\ a = "Active"
      \/ s \notin Worker!ReadyStates /\ Worker!Awaits(s, m.id) /\ a \in Worker!States \ {"Closed"} /\ a # s
      \/ s \notin Worker!ReadyStates /\ ~Worker!Awaits(s, m.id) /\ a = s
  BY OneStep DEF Worker!StateAfter
<1>2. \A id : ~Worker!Awaits("Active", id)
  BY DEF Worker!Awaits, Worker!HandshakeSteps
<1>3. a \in Worker!States /\ a # "Closed"
  BY <1>1 DEF Worker!States
<1> HIDE DEF a
<1>4. t \in Worker!States /\ t # "Closed" /\ (t = a \/ <<a, t>> \in Worker!UntracedMoves)
  BY <1>3 DEF Worker!CompleteEncryptedHandshake, Worker!States, Worker!UntracedMoves
<1>5. ASSUME Worker!Advances(s, m) PROVE a # s
  BY <1>1, <1>2, <1>5 DEF Worker!Advances, Worker!ReadyStates
<1>6. ASSUME ~Worker!Advances(s, m) PROVE t = s \/ <<s, t>> \in Worker!UntracedMoves
  <2>1. CASE s \in Worker!ReadyStates /\ a = "Active"
    BY <2>1 DEF Worker!ReadyStates, Worker!CompleteEncryptedHandshake, Worker!UntracedMoves
  <2>2. CASE a = s
    BY <2>2, <1>4
  <2> QED
    BY <2>1, <2>2, <1>1, <1>6 DEF Worker!Advances
<1> QED
  BY <1>3, <1>4, <1>5, <1>6 DEF a

-----------------------------------------------------------------------------
(* The steps of the worker                                                 *)

LEMMA FrameTypes ==
    ASSUME NEW f \in Worker!Frames
    PROVE  /\ f.id \in Worker!Ids \cup {"none"}
           /\ f.body \in {"whole", "tampered", "malformed", "short", "refused"}
  BY DEF Worker!Frames, Worker!Ids, Worker!KnownIds

LEMMA EventTypes ==
    ASSUME NEW a \in Actions, NEW id \in Texts, NEW s \in Worker!States
    PROVE  /\ Worker!Event(a, id, s) \in Events
           /\ Worker!Event(a, id, s).action = a
           /\ Worker!Event(a, id, s).id = id
           /\ Worker!Event(a, id, s).state = s
  BY DEF Worker!Event, Events

LEMMA WorkerStarts == Worker!Init => WorkerInv
<1> SUFFICES ASSUME Worker!Init PROVE WorkerInv
  OBVIOUS
<1> DEFINE e == Worker!Event("ACCEPT", "none", "WaitingForServiceHandshake")
<1>1. e \in Events /\ e.action = "ACCEPT" /\ e.state = "WaitingForServiceHandshake"
  <2>1. /\ "ACCEPT" \in Actions /\ "none" \in Texts
        /\ "WaitingForServiceHandshake" \in Worker!States
    BY DEF Actions, Texts, Worker!States
  <2> QED
    BY <2>1, EventTypes
<1>2. trace = <<e>>
  BY DEF Worker!Init, Worker!InitialState
<1> HIDE DEF e
<1>3. trace \in Seq(Events) /\ Len(trace) = 1 /\ trace[1] = e /\ 1..Len(trace) = {1}
  BY <1>1, <1>2
<1>4. written \in Seq(Texts) /\ Len(written) = 0
  BY DEF Worker!Init
<1>5. Sent(trace, Len(trace)) = {}
  BY <1>1, <1>3 DEF Sent
<1>6. RepliesIn(trace, written)
  BY <1>4, <1>5, FS_EmptySet DEF RepliesIn
<1>7. MovesIn(trace)
  BY <1>1, <1>3 DEF MovesIn
<1>8. Story(trace, written)
  BY <1>1, <1>3, <1>4, <1>6, <1>7 DEF Story
<1>9. "ACCEPT" \notin Worker!EndEvents
  BY DEF Worker!EndEvents, Worker!Unexplained
<1>10. Calm(trace) /\ Abreast(trace, state)
  BY <1>1, <1>3, <1>9 DEF Calm, Abreast, Tells
<1>11. /\ state \in Worker!States /\ state # "Closed" /\ closings = 0 /\ closings \in Nat
       /\ batch \in Seq(Worker!Frames) /\ ended = "no"
  BY DEF Worker!Init, Worker!InitialState, Worker!States
<1>12. NoneMissing(trace)
  BY <1>1, <1>3 DEF NoneMissing, Missing, Asking
<1>13. TellsEnd(trace, ended, closings)
  <2>1. TellsEnd(trace, "no", 0)
    <3>1. "no" \in {"no", "read", "write"} /\ "no" # "write" /\ Len(trace) >= 1
      BY <1>3
    <3>2. ~\E i \in 1..Len(trace) : Missing(trace, i)
      BY <1>12 DEF NoneMissing
    <3> QED
      BY <3>1, <3>2, <1>3, <1>10, NothingTold
  <2> QED
    BY <2>1, <1>11
<1> QED
  BY <1>8, <1>10, <1>11, <1>12, <1>13 DEF WorkerInv

(* The worker ends with an event that says so.                             *)
LEMMA WorkerEnds ==
    ASSUME NEW l, NEW e \in Events, Story(l, written), Calm(l), NoneMissing(l),
           e.action \in Worker!EndEvents, e.state = "Closed" <=> e.action = "EOF",
           trace' = Append(l, e), written' = written,
           state' \in Worker!States, closings' \in Nat, batch' \in Seq(Worker!Frames),
           ended' \in {"break", "error"}, closings' > 0 <=> ended' = "break"
    PROVE  WorkerInv'
<1>1. e.action \notin {"RECV", "ChangeState", "SendFrame"}
  BY DEF Worker!EndEvents, Worker!Unexplained
<1>2. Story(Append(l, e), written)
  BY <1>1, StoryKept
<1>3. Story(trace', written')
  BY <1>2
<1>4. l \in Seq(Events)
  BY DEF Story
<1>5. TellsEnd(trace', ended', closings')
  BY <1>4, LastWord
<1>6. NoneMissing(trace')
  BY <1>1, <1>4, NoneMissingKept
<1>7. ended' \notin {"no", "read", "write"}
  OBVIOUS
<1> QED
  BY <1>3, <1>5, <1>6, <1>7 DEF WorkerInv

LEMMA ReadKeeps ==
    ASSUME WorkerInv, NEW n \in Nat, NEW new \in [1..n -> Worker!Frames], Worker!Read(new)
    PROVE  WorkerInv'
<1>1. /\ ended = "no" /\ state \in Worker!States /\ state # "Closed" /\ closings = 0
      /\ Story(trace, written) /\ Calm(trace) /\ Abreast(trace, state) /\ NoneMissing(trace)
  BY DEF WorkerInv, Worker!Read, Worker!Reading
<1>2. CASE Worker!ReturnError(Append(trace, Worker!Event("PROTOCOL_ERROR", "none", state)))
  <2> DEFINE e == Worker!Event("PROTOCOL_ERROR", "none", state)
  <2>1. /\ e \in Events /\ e.action = "PROTOCOL_ERROR" /\ e.state = state
    <3>1. "PROTOCOL_ERROR" \in Actions /\ "none" \in Texts
      BY DEF Actions, Texts, Worker!EndEvents
    <3> QED
      BY <3>1, <1>1, EventTypes
  <2>2. "PROTOCOL_ERROR" \in Worker!EndEvents
    BY DEF Worker!EndEvents
  <2>3. /\ trace' = Append(trace, e) /\ written' = written /\ state' = state
        /\ closings' = closings /\ ended' = "error" /\ batch' = <<>>
    BY <1>2 DEF Worker!ReturnError
  <2> HIDE DEF e
  <2>4. batch' \in Seq(Worker!Frames) /\ closings' \in Nat /\ ~(closings' > 0)
    BY <1>1, <2>3
  <2> QED
    BY <1>1, <2>1, <2>2, <2>3, <2>4, WorkerEnds
<1>3. CASE batch' = new /\ UNCHANGED <<state, closings, trace, written, ended>>
  <2>1. batch' \in Seq(Worker!Frames)
    BY <1>3
  <2>2. TellsEnd(trace', ended', closings')
    BY <1>3 DEF WorkerInv
  <2> QED
    BY <1>3, <2>1, <2>2 DEF WorkerInv
<1> QED
  BY <1>2, <1>3 DEF Worker!Read

LEMMA ReadEndKeeps ==
    ASSUME WorkerInv, Worker!ReadEof \/ Worker!ReadTimeout \/ Worker!ReadFails
    PROVE  WorkerInv'
<1>1. /\ ended = "no" /\ state \in Worker!States /\ state # "Closed" /\ closings = 0
      /\ Story(trace, written) /\ Calm(trace) /\ Abreast(trace, state) /\ NoneMissing(trace)
      /\ batch \in Seq(Worker!Frames)
  BY DEF WorkerInv, Worker!ReadEof, Worker!ReadTimeout, Worker!ReadFails, Worker!Reading
<1>2. "Closed" \in Worker!States /\ "EOF" \in Worker!EndEvents /\ "TIMEOUT" \in Worker!EndEvents
  BY DEF Worker!States, Worker!EndEvents
<1>3. CASE Worker!ReadEof
  <2> DEFINE e == Worker!Event("EOF", "none", "Closed")
  <2>1. e \in Events /\ e.action = "EOF" /\ e.state = "Closed"
    BY <1>2, EventTypes DEF Actions, Texts
  <2>2. /\ trace' = Append(trace, e) /\ written' = written /\ state' = "Closed"
        /\ closings' = 2 /\ ended' = "break" /\ batch' = batch
    BY <1>1, <1>3 DEF Worker!ReadEof
  <2> HIDE DEF e
  <2>3. batch' \in Seq(Worker!Frames) /\ closings' \in Nat /\ closings' > 0
    BY <1>1, <2>2
  <2> QED
    BY <1>1, <1>2, <2>1, <2>2, <2>3, WorkerEnds
<1>4. CASE Worker!ReadTimeout
  <2> DEFINE e == Worker!Event("TIMEOUT", "none", state)
  <2>1. e \in Events /\ e.action = "TIMEOUT" /\ e.state = state
    <3>1. "TIMEOUT" \in Actions /\ "none" \in Texts
      BY <1>2 DEF Actions, Texts
    <3> QED
      BY <3>1, <1>1, <1>2, EventTypes
  <2>2. /\ trace' = Append(trace, e) /\ written' = written /\ state' = "Closed"
        /\ closings' = 1 /\ ended' = "break" /\ batch' = batch
    BY <1>1, <1>4 DEF Worker!ReadTimeout
  <2> HIDE DEF e
  <2>3. batch' \in Seq(Worker!Frames) /\ closings' \in Nat /\ closings' > 0
    BY <1>1, <2>2
  <2> QED
    BY <1>1, <1>2, <2>1, <2>2, <2>3, WorkerEnds
<1>5. CASE Worker!ReadFails
  <2>1. ended' = "read" /\ UNCHANGED <<state, closings, batch, trace, written>>
    BY <1>5 DEF Worker!ReadFails
  <2>2. TellsEnd(trace, "read", 0)
    BY <1>1, NothingTold DEF Story, NoneMissing
  <2> QED
    BY <1>1, <2>1, <2>2 DEF WorkerInv
<1> QED
  BY <1>3, <1>4, <1>5

(* What a frame is received with: the message it has, and the state it     *)
(* meets.                                                                  *)
LEMMA ReceivedStory ==
    ASSUME WorkerInv, ended = "no", NEW f \in Worker!Frames
    PROVE  LET e == Worker!Event("RECV", f.id, state)
               l == Worker!Received(f)
           IN  /\ l = Append(trace, e) /\ e \in Events
               /\ e.action = "RECV" /\ e.id = f.id /\ e.state = state
               /\ Story(l, written) /\ Calm(l)
<1> DEFINE e == Worker!Event("RECV", f.id, state)
           l == Worker!Received(f)
<1>1. state \in Worker!States /\ state # "Closed" /\ Story(trace, written) /\ Calm(trace) /\ Abreast(trace, state)
  BY DEF WorkerInv
<1>2. "RECV" \in Actions /\ f.id \in Texts
  BY FrameTypes DEF Actions, Texts
<1>3. e \in Events /\ e.action = "RECV" /\ e.id = f.id /\ e.state = state
  BY <1>1, <1>2, EventTypes
<1>4. l = Append(trace, e)
  BY DEF Worker!Received
<1> HIDE DEF e
<1>5. Story(Append(trace, e), written)
  BY <1>1, <1>3, StoryReceives
<1>6. "RECV" \notin Worker!EndEvents
  BY DEF Worker!EndEvents, Worker!Unexplained
<1>7. Calm(Append(trace, e))
  <2>1. trace \in Seq(Events)
    BY <1>1 DEF Story
  <2> QED
    BY <2>1, <1>1, <1>3, <1>6, CalmKept
<1> HIDE DEF l
<1>8. l = Append(trace, e) /\ Story(l, written) /\ Calm(l)
  BY <1>4, <1>5, <1>7
<1> QED
  BY <1>3, <1>8 DEF e, l

LEMMA UndecodedKeeps ==
    ASSUME WorkerInv, ended = "no", NEW f \in Worker!Frames, Worker!Undecoded(f)
    PROVE  WorkerInv'
<1> DEFINE a == IF f.body = "tampered" THEN "GCM DECRYPT FAILURE" ELSE "AUTH/CRYPTO ERROR"
           e == Worker!Event(a, "none", state)
<1>1. /\ state \in Worker!States /\ state # "Closed" /\ closings = 0
      /\ Story(trace, written) /\ Calm(trace) /\ NoneMissing(trace)
  BY DEF WorkerInv
<1>2. a \in Worker!EndEvents /\ a # "EOF" /\ "none" \in Texts
  BY DEF Worker!EndEvents, Worker!Unexplained, Texts
<1>3. /\ trace' = Append(trace, e) /\ written' = written /\ state' = state
      /\ closings' = closings /\ ended' = "error" /\ batch' = <<>>
  BY DEF Worker!Undecoded, Worker!ReturnError
<1> HIDE DEF a
<1>4. e \in Events /\ e.action = a /\ e.state = state
  BY <1>1, <1>2, EventTypes DEF Actions
<1> HIDE DEF e
<1>5. batch' \in Seq(Worker!Frames) /\ closings' \in Nat /\ ~(closings' > 0)
  BY <1>1, <1>3
<1> QED
  BY <1>1, <1>2, <1>3, <1>4, <1>5, WorkerEnds

LEMMA NotHandledKeeps ==
    ASSUME WorkerInv, ended = "no", NEW f \in Worker!Frames, Worker!NotHandled(f)
    PROVE  WorkerInv'
<1> DEFINE a == IF f.body = "short" THEN "InvalidMessage" ELSE "UNEXPECTED_MESSAGE"
           e == Worker!Event(a, f.id, state)
           l == Worker!Received(f)
<1>1. /\ state \in Worker!States /\ state # "Closed" /\ closings = 0
      /\ Story(l, written) /\ Calm(l)
  BY ReceivedStory DEF WorkerInv
<1>2. NoneMissing(l)
  <2> DEFINE d == Worker!Event("RECV", f.id, state)
  <2>1. /\ l = Append(trace, d) /\ d \in Events
        /\ d.action = "RECV" /\ d.id = f.id /\ d.state = state
    BY ReceivedStory
  <2>2. trace \in Seq(Events) /\ NoneMissing(trace)
    BY DEF WorkerInv, Story
  <2>3. Worker!Replies(state, f.id, TRUE) = {}
    <3>1. CASE f.body = "short"
      <4>1. f.id = "none"
        BY <3>1 DEF Worker!Frames
      <4> QED
        BY <4>1 DEF Worker!Replies, Worker!ReplySteps
    <3>2. CASE f.body = "whole" /\ Worker!Rejects(state, Worker!Message(f))
      BY <3>2, <1>1, RejectedAskNothing
    <3> QED
      BY <3>1, <3>2 DEF Worker!NotHandled
  <2> DEFINE c == Worker!Event("ChangeState", state, state)
  <2>4. c \in Events /\ c.action = "ChangeState"
    BY <1>1, EventTypes DEF Actions, Texts
  <2> HIDE DEF l, d, c
  <2> QED
    BY <2>1, <2>2, <2>3, <2>4, ReplyDue
<1>3. a \in Worker!EndEvents /\ a # "EOF" /\ f.id \in Texts
  BY FrameTypes DEF Worker!EndEvents, Texts
<1>4. /\ trace' = Append(l, e) /\ written' = written /\ state' = state
      /\ closings' = closings /\ ended' = "error" /\ batch' = <<>>
  BY DEF Worker!NotHandled, Worker!ReturnError
<1> HIDE DEF a, l
<1>5. e \in Events /\ e.action = a /\ e.state = state
  BY <1>1, <1>3, EventTypes DEF Actions
<1> HIDE DEF e
<1>6. batch' \in Seq(Worker!Frames) /\ closings' \in Nat /\ ~(closings' > 0)
  BY <1>1, <1>4
<1> QED
  BY <1>1, <1>2, <1>3, <1>4, <1>5, <1>6, WorkerEnds

(* After the message and the move it made, if any, the trace is abreast    *)
(* with the session, and a reply to the message may follow.                *)
LEMMA MovedStory ==
    ASSUME WorkerInv, ended = "no", NEW f \in Worker!Frames,
           ~Worker!Rejects(state, Worker!Message(f))
    PROVE  LET l == Worker!Moved(f)
               next == Worker!CompleteEncryptedHandshake(Worker!StateAfter(state, Worker!Message(f)))
           IN  /\ next \in Worker!States /\ next # "Closed"
               /\ Story(l, written) /\ Calm(l) /\ Abreast(l, next)
               /\ \A e \in Events :
                     e.action = "SendFrame" /\ e.id \in Worker!Replies(state, f.id, TRUE)
                         => Answered(Append(l, e), Len(l) + 1)
               /\ Worker!Replies(state, f.id, TRUE) = {} => NoneMissing(l)
               /\ Worker!Replies(state, f.id, TRUE) # {} => \E i \in 1..Len(l) : Missing(l, i)
               /\ \A i \in 1..Len(l) : Missing(l, i) => Place(l, i) > Len(l)
               /\ \A e \in Events : e.action = "SendFrame" => NoneMissing(Append(l, e))
<1> DEFINE r == Worker!Received(f)
           d == Worker!Event("RECV", f.id, state)
           m == Worker!Message(f)
           after == Worker!StateAfter(state, m)
           next == Worker!CompleteEncryptedHandshake(after)
           l == Worker!Moved(f)
<1>1. /\ r = Append(trace, d) /\ d \in Events
      /\ d.action = "RECV" /\ d.id = f.id /\ d.state = state
      /\ Story(r, written) /\ Calm(r)
  BY ReceivedStory
<1>2. state \in Worker!States /\ state # "Closed" /\ trace \in Seq(Events)
  BY DEF WorkerInv, Story
<1>3. /\ after \in Worker!States /\ after # "Closed"
      /\ next \in Worker!States /\ next # "Closed"
      /\ Worker!Advances(state, m) => after # state /\ (next = after \/ <<after, next>> \in Worker!UntracedMoves)
      /\ ~Worker!Advances(state, m) => next = state \/ <<state, next>> \in Worker!UntracedMoves
  BY <1>2, Moves
<1> DEFINE c == Worker!Event("ChangeState", state, after)
<1>4. IF Worker!Advances(state, m) THEN l = Append(r, c) ELSE l = r
  BY DEF Worker!Moved
<1> HIDE DEF l, r, d, after, next
<1>5. /\ r \in Seq(Events) /\ Len(r) \in Nat /\ Len(r) = Len(trace) + 1 /\ Len(trace) >= 1
      /\ r[Len(r)] = d
  BY <1>1, <1>2 DEF Story, WorkerInv
<1>6. /\ c \in Events /\ c.action = "ChangeState" /\ c.id = state /\ c.state = after
  <2>1. "ChangeState" \in Actions /\ state \in Texts
    BY <1>2 DEF Actions, Texts
  <2> QED
    BY <2>1, <1>3, EventTypes
<1> HIDE DEF c
<1>7. /\ Worker!Replies(state, f.id, TRUE) = {} => NoneMissing(l)
      /\ Worker!Replies(state, f.id, TRUE) # {} => \E i \in 1..Len(l) : Missing(l, i)
      /\ \A i \in 1..Len(l) : Missing(l, i) => Place(l, i) > Len(l)
      /\ \A e \in Events : e.action = "SendFrame" => NoneMissing(Append(l, e))
  <2>1. NoneMissing(trace)
    BY DEF WorkerInv
  <2>2. l \in {Append(trace, d), Append(Append(trace, d), c)}
    BY <1>1, <1>4
  <2> QED
    BY <2>1, <2>2, <1>1, <1>2, <1>6, ReplyDue
<1>8. CASE Worker!Advances(state, m)
  <2>1. l = Append(r, c) /\ after # state
    BY <1>3, <1>4, <1>8
  <2>2. Story(Append(r, c), written)
    BY <2>1, <1>1, <1>5, <1>6, StoryMoves
  <2>3. Calm(Append(r, c))
    <3>1. "ChangeState" \notin Worker!EndEvents
      BY DEF Worker!EndEvents, Worker!Unexplained
    <3> QED
      BY <3>1, <1>1, <1>3, <1>5, <1>6, CalmKept
  <2>4. Abreast(Append(r, c), next)
    BY <1>3, <1>5, <1>6, <1>8, AbreastTelling
  <2>5. l \in Seq(Events) /\ Len(l) = Len(r) + 1 /\ l[Len(l)] = c /\ l[Len(l) - 1] = d
    BY <2>1, <1>5, <1>6
  <2>6. ASSUME NEW e \in Events, e.action = "SendFrame", e.id \in Worker!Replies(state, f.id, TRUE)
        PROVE  Answered(Append(l, e), Len(l) + 1)
    <3> DEFINE n == Len(l) + 1
               new == Append(l, e)
    <3>1. n - 1 = Len(l) /\ n - 2 = Len(r) /\ Len(r) = Len(l) - 1
      BY <2>5, <1>5
    <3>2. new[n] = e /\ new[Len(l)] = c /\ new[Len(r)] = d
      <4>1. new[n] = e /\ \A k \in 1..Len(l) : new[k] = l[k]
        BY <2>5, Appended
      <4>2. Len(l) \in 1..Len(l) /\ Len(r) \in 1..Len(l)
        BY <2>5, <1>5
      <4>3. l[Len(r)] = d
        BY <2>5, <3>1
      <4> HIDE DEF new, n
      <4> QED
        BY <4>1, <4>2, <4>3, <2>5
    <3>3. new[n - 1] = c /\ new[n - 2] = d
      BY <3>1, <3>2
    <3> HIDE DEF new, n
    <3>4. Answered(new, n)
      BY <3>2, <3>3, <2>6, <1>1, <1>6 DEF Answered
    <3> QED
      BY <3>4 DEF new, n
  <2> QED
    BY <2>1, <2>2, <2>3, <2>4, <2>6, <1>3, <1>7 DEF l, next, after
<1>9. CASE ~Worker!Advances(state, m)
  <2>1. l = r
    BY <1>4, <1>9
  <2>2. Abreast(r, next)
    BY <1>1, <1>2, <1>3, <1>9, AbreastTelling
  <2>3. ASSUME NEW e \in Events, e.action = "SendFrame", e.id \in Worker!Replies(state, f.id, TRUE)
        PROVE  Answered(Append(l, e), Len(l) + 1)
    <3> DEFINE n == Len(l) + 1
               new == Append(l, e)
    <3>1. n - 1 = Len(l) /\ Len(l) = Len(r)
      BY <2>1, <1>5
    <3>2. new[n] = e /\ new[Len(l)] = d
      BY <2>1, <1>5
    <3>3. new[n - 1] = d
      BY <3>1, <3>2
    <3> HIDE DEF new, n
    <3>4. Answered(new, n)
      BY <3>2, <3>3, <2>3, <1>1 DEF Answered
    <3> QED
      BY <3>4 DEF new, n
  <2> QED
    BY <2>1, <2>2, <2>3, <1>1, <1>3, <1>7 DEF l, next, after
<1> QED
  BY <1>8, <1>9

LEMMA HandledKeeps ==
    ASSUME WorkerInv, ended = "no", batch # <<>>, NEW f \in Worker!Frames, Worker!Handled(f)
    PROVE  WorkerInv'
<1> DEFINE l == Worker!Moved(f)
           next == Worker!CompleteEncryptedHandshake(Worker!StateAfter(state, Worker!Message(f)))
<1>1. /\ next \in Worker!States /\ next # "Closed"
      /\ Story(l, written) /\ Calm(l) /\ Abreast(l, next)
      /\ \A e \in Events :
            e.action = "SendFrame" /\ e.id \in Worker!Replies(state, f.id, TRUE)
                => Answered(Append(l, e), Len(l) + 1)
      /\ Worker!Replies(state, f.id, TRUE) = {} => NoneMissing(l)
      /\ Worker!Replies(state, f.id, TRUE) # {} => \E i \in 1..Len(l) : Missing(l, i)
      /\ \A i \in 1..Len(l) : Missing(l, i) => Place(l, i) > Len(l)
      /\ \A e \in Events : e.action = "SendFrame" => NoneMissing(Append(l, e))
  BY MovedStory DEF Worker!Handled
<1>2. closings = 0 /\ batch \in Seq(Worker!Frames) /\ closings' = closings /\ state' = next
  BY DEF WorkerInv, Worker!Handled
<1>3. Tail(batch) \in Seq(Worker!Frames)
  BY <1>2
<1>4. \/ /\ Worker!Replies(state, f.id, TRUE) = {}
         /\ trace' = l /\ batch' = Tail(batch) /\ UNCHANGED <<written, ended>>
      \/ \E r \in Worker!Replies(state, f.id, TRUE) : Worker!Send(r, state', l)
  BY DEF Worker!Handled
<1> HIDE DEF l, next
<1>5. l \in Seq(Events) /\ Len(l) >= 1
  BY <1>1 DEF Story
<1>6. CASE /\ Worker!Replies(state, f.id, TRUE) = {}
           /\ trace' = l /\ batch' = Tail(batch) /\ UNCHANGED <<written, ended>>
  <2>1. Story(trace', written') /\ Calm(trace') /\ Abreast(trace', state') /\ NoneMissing(trace')
    BY <1>1, <1>2, <1>6
  <2>2. TellsEnd(trace', ended', closings')
    <3>1. TellsEnd(l, "no", 0)
      BY <1>1, <1>6, <1>5, NothingTold DEF NoneMissing
    <3> QED
      BY <3>1, <1>2, <1>6
  <2> QED
    BY <2>1, <2>2, <1>1, <1>2, <1>3, <1>6 DEF WorkerInv
<1>7. CASE \E r \in Worker!Replies(state, f.id, TRUE) : Worker!Send(r, state', l)
  <2> PICK r \in Worker!Replies(state, f.id, TRUE) : Worker!Send(r, state', l)
    BY <1>7
  <2> DEFINE e == Worker!Event("SendFrame", r, next)
  <2>1. /\ e \in Events /\ e.action = "SendFrame" /\ e.id = r /\ e.state = next
    <3>1. r \in Texts /\ "SendFrame" \in Actions
      BY DEF Worker!Replies, Worker!ChatReplies, Answers, Texts, Actions
    <3> QED
      BY <3>1, <1>1, EventTypes
  <2>2. \/ /\ written' = Append(written, e.id) /\ trace' = Append(l, e)
           /\ batch' = Tail(batch) /\ ended' = ended
        \/ trace' = l /\ ended' = "write" /\ batch' = <<>> /\ written' = written
    BY <2>1, <1>2 DEF Worker!Send
  <2> HIDE DEF e
  <2>3. CASE /\ written' = Append(written, e.id) /\ trace' = Append(l, e)
             /\ batch' = Tail(batch) /\ ended' = ended
    <3>1. Story(Append(l, e), Append(written, e.id))
      BY <1>1, <2>1, StorySends
    <3>2. l \in Seq(Events)
      BY <1>1 DEF Story
    <3>3. "SendFrame" \notin Worker!EndEvents
      BY DEF Worker!EndEvents, Worker!Unexplained
    <3>4. Calm(Append(l, e))
      BY <3>2, <3>3, <1>1, <2>1, CalmKept
    <3>5. Abreast(Append(l, e), next)
      BY <3>2, <1>1, <2>1, AbreastKept
    <3>6. Story(trace', written') /\ Calm(trace') /\ Abreast(trace', state')
      BY <3>1, <3>4, <3>5, <2>3, <1>2
    <3>7. NoneMissing(trace')
      BY <1>1, <2>1, <2>3
    <3>8. TellsEnd(trace', ended', closings')
      <4>1. Append(l, e) \in Seq(Events) /\ Len(Append(l, e)) >= 1
        BY <3>1 DEF Story
      <4>2. TellsEnd(Append(l, e), "no", 0)
        BY <4>1, <3>4, <3>7, <2>3, NothingTold DEF NoneMissing
      <4> QED
        BY <4>2, <2>3, <1>2
    <3> QED
      BY <3>6, <3>8, <3>7, <1>1, <1>2, <1>3, <2>3 DEF WorkerInv
  <2>4. CASE trace' = l /\ ended' = "write" /\ batch' = <<>> /\ written' = written
    <3>1. Story(trace', written') /\ Calm(trace')
      BY <1>1, <2>4
    <3>2. TellsEnd(trace', ended', closings')
      <4>1. TellsEnd(l, "write", 0)
        BY <1>1, <1>5, NothingTold
      <4> QED
        BY <4>1, <1>2, <2>4
    <3>3. batch' \in Seq(Worker!Frames)
      BY <2>4
    <3> QED
      BY <3>1, <3>2, <3>3, <1>1, <1>2, <2>4 DEF WorkerInv
  <2> QED
    BY <2>2, <2>3, <2>4
<1> QED
  BY <1>4, <1>6, <1>7

LEMMA WorkerStep == ASSUME WorkerInv, Worker!Next PROVE WorkerInv'
<1>1. ASSUME NEW n \in 0..MaxChunk, NEW new \in [1..n -> Worker!Frames], Worker!Read(new)
      PROVE  WorkerInv'
  BY <1>1, ReadKeeps, BoundsAssumption
<1>2. CASE Worker!ReadEof \/ Worker!ReadTimeout \/ Worker!ReadFails
  BY <1>2, ReadEndKeeps
<1>3. CASE Worker!HandleFrame
  <2> DEFINE f == Head(batch)
  <2>1. /\ ended = "no" /\ batch # <<>>
        /\ Worker!Undecoded(f) \/ Worker!NotHandled(f) \/ Worker!Handled(f)
    BY <1>3 DEF Worker!HandleFrame
  <2>2. f \in Worker!Frames
    BY <2>1 DEF WorkerInv
  <2> HIDE DEF f
  <2> QED
    BY <2>1, <2>2, UndecodedKeeps, NotHandledKeeps, HandledKeeps
<1> QED
  BY <1>1, <1>2, <1>3 DEF Worker!Next

LEMMA WorkerStutters == ASSUME WorkerInv, UNCHANGED traceVars PROVE WorkerInv'
  BY DEF WorkerInv, traceVars

(* Whatever a worker reads, in whatever pieces, and however it ends: the   *)
(* trace has the replies that reached the stream, each behind the message  *)
(* it answers, and every move of the session but the two that              *)
(* handle_connection does not look for.  It has an event of an end the     *)
(* worker chose, and only of one; a message without its reply is there if  *)
(* and only if a reply was not written; so that a worker of whose end it   *)
(* tells nothing still runs, or failed to read.                            *)
THEOREM TraceIsReliable == FairSpec => []TraceReliable
<1>1. Init => WorkerInv
  BY WorkerStarts DEF Init
<1>2. WorkerInv /\ [Next]_vars => WorkerInv'
  <2> SUFFICES ASSUME WorkerInv, [Next]_vars PROVE WorkerInv'
    OBVIOUS
  <2>1. CASE Tracing(Worker!Next)
    BY <2>1, WorkerStep DEF Tracing
  <2>2. CASE Restarting(Restart!Next) \/ Feeding(Ingress!Next) \/ UNCHANGED vars
    BY <2>2, WorkerStutters DEF Restarting, Feeding, vars
  <2> QED
    BY <2>1, <2>2 DEF Next
<1>3. WorkerInv => TraceReliable
  <2> SUFFICES ASSUME WorkerInv PROVE TraceReliable
    OBVIOUS
  <2>1. RepliesIn(trace, written) /\ MovesIn(trace) /\ TellsEnd(trace, ended, closings)
    BY DEF WorkerInv, Story
  <2>2. Worker!RepliesTraced
    <3>1. \A i : Worker!SentBy(i) = Sent(trace, i)
      BY DEF Sent, Worker!SentBy
    <3>2. \A S : Worker!Cardinality(S) = Cardinality(S)
      BY DEF Cardinality, Worker!Cardinality, IsFiniteSet, Worker!IsFiniteSet
    <3>3. Len(written) = Worker!Cardinality(Worker!SentBy(Len(trace)))
      BY <2>1, <3>1, <3>2 DEF RepliesIn
    <3>4. ASSUME NEW i \in Worker!SentBy(Len(trace))
          PROVE  Answered(trace, i) /\ trace[i].id = written[Worker!Cardinality(Worker!SentBy(i))]
      BY <2>1, <3>1, <3>2 DEF RepliesIn
    <3> QED
      BY <3>3, <3>4 DEF Answered, Worker!RepliesTraced, Worker!Before
  <2>3. Worker!MovesTraced
    BY <2>1 DEF MovesIn, Tells, Follows, Started, Worker!MovesTraced, Worker!TellsState, Worker!Before
  <2>4. Worker!EndTold
    <3>1. \A i : Worker!Unanswered(i) <=> Missing(trace, i)
      BY DEF Worker!Unanswered, Worker!Asks, Worker!ReplyAt, Missing, Asking, Place
    <3>2. \A i : Worker!ReplyAt(i) = Place(trace, i)
      BY DEF Worker!ReplyAt, Place
    <3> QED
      BY <2>1, <3>1, <3>2 DEF TellsEnd, Worker!EndTold
  <2> QED
    BY <2>2, <2>3, <2>4 DEF TraceReliable
<1> QED
  BY <1>1, <1>2, <1>3, PTL DEF FairSpec

-----------------------------------------------------------------------------
(* The limits on a stream                                                  *)

(* Between two pushes less than the next frame is buffered, and that less  *)
(* than the longest frame: a longer one is refused with its header.        *)
IngressInv ==
    /\ ends \in Streams /\ chunk \in ReadSizes
    /\ fed \in Nat /\ fed <= Ingress!Total
    /\ done \in 0..Len(ends)
    /\ held \in Nat /\ held < MaxFrame
    /\ refused = "none" =>
          /\ Ingress!EndOf(done) <= fed /\ fed < Ingress!EndOf(done) + MaxFrame
          /\ done # Len(ends) => fed < Ingress!EndOf(done + 1)
    /\ Ingress!SmallStreamsPass /\ Ingress!RoomForReads

(* The frames of a stream follow each other.                               *)
LEMMA StreamShape ==
    ASSUME ends \in Streams
    PROVE  /\ Len(ends) \in Nat \ {0}
           /\ \A i \in 0..Len(ends) : Ingress!EndOf(i) \in Nat
           /\ \A i, j \in 0..Len(ends) : i < j => Ingress!EndOf(i) + Header <= Ingress!EndOf(j)
           /\ Ingress!EndOf(0) = 0 /\ Ingress!Total = Ingress!EndOf(Len(ends))
           /\ Ingress!Total \in Nat
<1>1. /\ ends \in Seq(Nat) /\ ends # <<>>
      /\ \A i \in 1..Len(ends) : ends[i] >= Header
      /\ \A i, j \in 1..Len(ends) : i < j => ends[j] - ends[i] >= Header
  BY StreamsAssumption
<1>2. Len(ends) \in Nat \ {0} /\ \A i \in 1..Len(ends) : ends[i] \in Nat
  BY <1>1
<1>3. \A i \in 0..Len(ends) : Ingress!EndOf(i) \in Nat
  BY <1>2 DEF Ingress!EndOf
<1>4. ASSUME NEW i \in 0..Len(ends), NEW j \in 0..Len(ends), i < j
      PROVE  Ingress!EndOf(i) + Header <= Ingress!EndOf(j)
  <2>1. CASE i = 0
    BY <2>1, <1>1, <1>2, <1>4, LimitsAssumption DEF Ingress!EndOf
  <2>2. CASE i # 0
    BY <2>2, <1>1, <1>2, <1>4, LimitsAssumption DEF Ingress!EndOf
  <2> QED
    BY <2>1, <2>2
<1> QED
  BY <1>2, <1>3, <1>4 DEF Ingress!EndOf, Ingress!Total

LEMMA NextFrame ==
    ASSUME NEW i \in Nat
    PROVE  /\ Ingress!Length(i + 1) = Ingress!EndOf(i + 1) - Ingress!EndOf(i)
           /\ \A n : i + 1 \in Ingress!HeaderSeen(n) <=>
                        i + 1 \in 1..Len(ends) /\ Ingress!EndOf(i) + Header <= fed + n
<1> DEFINE next == i + 1
<1>1. next - 1 = i
  OBVIOUS
<1> HIDE DEF next
<1>2. Ingress!EndOf(next - 1) = Ingress!EndOf(i)
  BY <1>1
<1>3. /\ Ingress!Length(next) = Ingress!EndOf(next) - Ingress!EndOf(i)
      /\ \A n : next \in Ingress!HeaderSeen(n) <=>
                   next \in 1..Len(ends) /\ Ingress!EndOf(i) + Header <= fed + n
  BY <1>2 DEF Ingress!Length, Ingress!HeaderSeen
<1> QED
  BY <1>3 DEF next

(* The frames that are complete are the first ones, as many as are counted.*)
LEMMA CompleteFirst ==
    ASSUME ends \in Streams, NEW n, fed + n \in Nat
    PROVE  LET k == Ingress!Complete(n)
           IN  /\ k \in 0..Len(ends)
               /\ Ingress!EndOf(k) <= fed + n
               /\ k # Len(ends) => fed + n < Ingress!EndOf(k + 1)
<1> DEFINE x == fed + n
           S == {i \in 1..Len(ends) : Ingress!EndOf(i) <= x}
           k == Cardinality(S)
<1>1. Ingress!Complete(n) = k
  <2>1. \A T : Ingress!Cardinality(T) = Cardinality(T)
    BY DEF Cardinality, Ingress!Cardinality, IsFiniteSet, Ingress!IsFiniteSet
  <2> QED
    BY <2>1 DEF Ingress!Complete
<1>2. /\ Len(ends) \in Nat \ {0} /\ Ingress!EndOf(0) = 0 /\ Header \in Nat
      /\ \A i \in 0..Len(ends) : Ingress!EndOf(i) \in Nat
      /\ \A i, j \in 0..Len(ends) : i < j => Ingress!EndOf(i) + Header <= Ingress!EndOf(j)
  BY StreamShape, LimitsAssumption
<1>3. x \in Nat
  OBVIOUS
<1> HIDE DEF x
<1>4. IsFiniteSet(1..Len(ends)) /\ Cardinality(1..Len(ends)) = Len(ends)
  <2>1. \A N \in Nat \ {0} : IsFiniteSet(1..N) /\ Cardinality(1..N) = N
    BY FS_Interval
  <2> QED
    BY <2>1, <1>2
<1>5. S \subseteq 1..Len(ends)
  OBVIOUS
<1>6. IsFiniteSet(S) /\ k \in Nat /\ k <= Len(ends)
  BY <1>4, <1>5, FS_Subset, FS_CardinalityType
<1>7. ASSUME NEW m \in S PROVE m \in 1..k
  <2>1. 1..m \subseteq S
    <3>1. ASSUME NEW i \in 1..m PROVE i \in S
      <4>1. m \in 1..Len(ends) /\ Ingress!EndOf(m) <= x /\ i \in 0..Len(ends) /\ m \in 0..Len(ends)
        BY <1>2, <1>7, <3>1
      <4>2. Ingress!EndOf(i) <= Ingress!EndOf(m)
        BY <4>1, <1>2, <3>1
      <4>3. Ingress!EndOf(i) \in Nat /\ Ingress!EndOf(m) \in Nat
        BY <4>1, <1>2
      <4>4. Ingress!EndOf(i) <= x
        BY <4>1, <4>2, <4>3, <1>3
      <4> QED
        BY <4>1, <4>4, <3>1, <1>2
    <3> QED
      BY <3>1
  <2>2. m \in Nat /\ 1 <= m
    BY <1>7, <1>2
  <2>3. IsFiniteSet(1..m) /\ Cardinality(1..m) = m
    BY <2>2, FS_Interval
  <2> HIDE DEF S, k
  <2>4. Cardinality(1..m) <= Cardinality(S)
    BY <2>1, <1>6, FS_Subset
  <2>5. m <= k
    BY <2>3, <2>4 DEF k
  <2> QED
    BY <2>2, <2>5, <1>6
<1>8. S = 1..k
  <2> HIDE DEF S
  <2>1. IsFiniteSet(1..k) /\ Cardinality(1..k) = k
    BY <1>6, FS_Interval
  <2>2. S \subseteq 1..k
    BY <1>7
  <2> QED
    BY <2>1, <2>2, <1>6, FS_Subset
<1> HIDE DEF k
<1>9. Ingress!EndOf(k) <= x
  <2>1. CASE k = 0
    BY <2>1, <1>2, <1>3
  <2>2. CASE k # 0
    BY <2>2, <1>6, <1>8
  <2> QED
    BY <2>1, <2>2
<1>10. ASSUME k # Len(ends) PROVE x < Ingress!EndOf(k + 1)
  <2>1. k + 1 \in 1..Len(ends) /\ k + 1 \notin 1..k
    BY <1>2, <1>6, <1>10
  <2>2. ~(Ingress!EndOf(k + 1) <= x)
    BY <2>1, <1>8
  <2>3. Ingress!EndOf(k + 1) \in Nat
    BY <2>1, <1>2
  <2> QED
    BY <2>2, <2>3, <1>3
<1> QED
  BY <1>1, <1>2, <1>6, <1>9, <1>10 DEF x

LEMMA IngressStarts == Ingress!Init => IngressInv
<1> SUFFICES ASSUME Ingress!Init PROVE IngressInv
  OBVIOUS
<1>1. /\ ends \in Streams /\ chunk \in ReadSizes /\ fed = 0 /\ done = 0 /\ held = 0 /\ refused = "none"
  BY DEF Ingress!Init
<1>2. /\ Len(ends) \in Nat \ {0} /\ Ingress!EndOf(0) = 0 /\ Ingress!Total \in Nat
      /\ 0 < MaxFrame /\ MaxFrame \in Nat
      /\ Ingress!EndOf(0) + Header <= Ingress!EndOf(1) /\ Ingress!EndOf(1) \in Nat
  <2>1. 0 \in 0..Len(ends) /\ 1 \in 0..Len(ends)
    BY <1>1, StreamShape
  <2> QED
    BY <1>1, <2>1, StreamShape, LimitsAssumption
<1>3. 0 < Ingress!EndOf(1)
  BY <1>2, LimitsAssumption
<1>4. Ingress!SmallStreamsPass /\ Ingress!RoomForReads
  BY <1>1 DEF Ingress!SmallStreamsPass, Ingress!RoomForReads
<1> QED
  BY <1>1, <1>2, <1>3, <1>4 DEF IngressInv

LEMMA FeedKeeps ==
    ASSUME IngressInv, NEW n \in 1..chunk, fed + n <= Ingress!Total, Ingress!FeedBytes(n)
    PROVE  IngressInv'
<1> DEFINE E(i) == Ingress!EndOf(i)
           N == Len(ends)
           k == Ingress!Complete(n)
           v == Ingress!Verdict(n)
<1>1. /\ ends \in Streams /\ chunk \in ReadSizes
      /\ fed \in Nat /\ fed <= Ingress!Total /\ done \in 0..N
      /\ held \in Nat /\ held < MaxFrame
      /\ refused = "none" /\ E(done) <= fed /\ fed < E(done) + MaxFrame
      /\ done # N => fed < E(done + 1)
  BY DEF IngressInv, Ingress!FeedBytes
<1>2. /\ fed' = fed + n /\ UNCHANGED <<ends, chunk>>
      /\ \/ v # "none" /\ refused' = v /\ UNCHANGED <<done, held>>
         \/ /\ v = "none" /\ done' = k /\ UNCHANGED refused
            /\ held' = IF held > fed + n - E(k) THEN held ELSE fed + n - E(k)
  BY DEF Ingress!FeedBytes, Ingress!Refuse
<1>3. /\ chunk \in Nat /\ n \in Nat \ {0} /\ n <= chunk
      /\ Header \in Nat \ {0} /\ MaxFrame \in Nat /\ MaxBuffered \in Nat /\ MaxFramesPerIter \in Nat
      /\ Header <= MaxFrame /\ MaxFrame <= MaxBuffered
  BY <1>1, LimitsAssumption
<1>4. /\ N \in Nat \ {0} /\ Ingress!Total = E(N) /\ Ingress!Total \in Nat
      /\ \A i \in 0..N : E(i) \in Nat
      /\ \A i, j \in 0..N : i < j => E(i) + Header <= E(j)
  BY <1>1, StreamShape
<1>5. /\ k \in 0..N /\ E(k) <= fed + n
      /\ k # N => fed + n < E(k + 1)
  BY <1>1, <1>3, CompleteFirst
<1>6. UNCHANGED <<Ingress!Total, N>> /\ \A i : Ingress!EndOf(i)' = E(i)
  BY <1>2 DEF Ingress!Total, Ingress!EndOf
<1>7. fed' \in Nat /\ fed' <= Ingress!Total'
  BY <1>1, <1>2, <1>3, <1>6
<1>8. CASE v # "none"
  <2>1. refused' = v /\ UNCHANGED <<done, held>>
    BY <1>2, <1>8
  <2>2. ASSUME v = "buffered"
        PROVE  /\ Ingress!Total > MaxBuffered
               /\ Ingress!Legal => /\ chunk > MaxBuffered - MaxFrame + 1
                                   /\ done + 1 \in 1..N /\ E(done + 1) < fed'
    <3>1. fed - E(done) + n > MaxBuffered
      BY <2>2 DEF Ingress!Verdict, Ingress!Buffered
    <3>2. E(done) \in Nat
      BY <1>1, <1>4
    <3>3. Ingress!Total > MaxBuffered
      BY <1>1, <1>3, <1>4, <3>1, <3>2
    <3>4. chunk > MaxBuffered - MaxFrame + 1
      BY <1>1, <1>3, <3>1, <3>2
    <3>5. done # N
      BY <1>1, <1>3, <1>4, <3>2
    <3>6. done + 1 \in 1..N /\ E(done + 1) \in Nat
      BY <1>1, <1>4, <3>5
    <3>7. ASSUME Ingress!Legal PROVE E(done + 1) < fed'
      <4>1. E(done + 1) - E(done) <= MaxFrame
        <5>1. Ingress!Length(done + 1) <= MaxFrame
          BY <3>6, <3>7 DEF Ingress!Legal
        <5>2. Ingress!Length(done + 1) = E(done + 1) - E(done)
          BY <1>1, NextFrame
        <5> QED
          BY <5>1, <5>2
      <4> HIDE DEF E
      <4> QED
        BY <4>1, <3>1, <3>2, <3>6, <1>1, <1>2, <1>3
    <3> QED
      BY <3>3, <3>4, <3>6, <3>7
  <2>3. ASSUME v = "frames" PROVE N > MaxFramesPerIter
    <3>1. k - done > MaxFramesPerIter
      BY <2>3 DEF Ingress!Verdict
    <3> QED
      BY <3>1, <1>1, <1>3, <1>4, <1>5
  <2>4. Ingress!SmallStreamsPass'
    BY <2>1, <2>2, <2>3, <1>6 DEF Ingress!SmallStreamsPass
  <2>5. Ingress!Legal' = Ingress!Legal
    BY <1>2 DEF Ingress!Legal, Ingress!Length, Ingress!EndOf
  <2>6. Ingress!RoomForReads'
    <3> SUFFICES ASSUME Ingress!Legal, v = "buffered"
                 PROVE  /\ chunk > MaxBuffered - MaxFrame + 1
                        /\ \E i \in 1..N : i > done /\ E(i) < fed'
      BY <2>1, <2>5, <1>2, <1>6 DEF Ingress!RoomForReads
    <3>1. done + 1 > done
      BY <1>1
    <3> QED
      BY <2>2, <3>1
  <2> QED
    BY <2>1, <2>4, <2>6, <1>1, <1>2, <1>6, <1>7, <1>8 DEF IngressInv
<1>9. CASE v = "none"
  <2>1. /\ done' = k /\ refused' = "none"
        /\ held' = IF held > fed + n - E(k) THEN held ELSE fed + n - E(k)
    BY <1>1, <1>2, <1>9
  <2>2. E(k) \in Nat
    BY <1>4, <1>5
  <2>3. fed + n < E(k) + MaxFrame
    <3>1. CASE k = N
      BY <3>1, <1>3, <1>4, <1>1, <2>2
    <3>2. CASE k # N /\ E(k) + Header <= fed + n
      <4>1. k + 1 \in 1..N /\ k \in Nat /\ E(k + 1) \in Nat
        BY <3>2, <1>4, <1>5
      <4>2. k + 1 \in Ingress!HeaderSeen(n)
        BY <3>2, <4>1, NextFrame
      <4>3. ~(Ingress!Length(k + 1) > MaxFrame)
        BY <4>2, <1>9 DEF Ingress!Verdict
      <4>4. ~(E(k + 1) - E(k) > MaxFrame)
        BY <4>1, <4>3, NextFrame
      <4>5. fed + n < E(k + 1)
        BY <3>2, <1>5
      <4> HIDE DEF E, k
      <4> QED
        BY <4>1, <4>4, <4>5, <2>2, <1>1, <1>3
    <3>3. CASE ~(E(k) + Header <= fed + n)
      BY <3>3, <2>2, <1>1, <1>3
    <3> QED
      BY <3>1, <3>2, <3>3
  <2>4. held' \in Nat /\ held' < MaxFrame
    <3>1. fed + n - E(k) \in Nat /\ fed + n - E(k) < MaxFrame
      BY <2>2, <2>3, <1>1, <1>3, <1>5
    <3> QED
      BY <3>1, <2>1, <1>1
  <2>5. Ingress!SmallStreamsPass' /\ Ingress!RoomForReads'
    BY <2>1 DEF Ingress!SmallStreamsPass, Ingress!RoomForReads
  <2>6. /\ Ingress!EndOf(done)' = E(k) /\ Ingress!EndOf(done + 1)' = E(k + 1)
    BY <1>2, <2>1 DEF Ingress!EndOf
  <2> HIDE DEF E, k, v
  <2>7. /\ Ingress!EndOf(done)' <= fed' /\ fed' < Ingress!EndOf(done)' + MaxFrame
        /\ done' # N => fed' < Ingress!EndOf(done + 1)'
    BY <2>1, <2>3, <2>6, <1>2, <1>5
  <2> QED
    BY <2>1, <2>4, <2>5, <2>7, <1>1, <1>2, <1>5, <1>6, <1>7 DEF IngressInv
<1> QED
  BY <1>8, <1>9

LEMMA IngressStutters == ASSUME IngressInv, UNCHANGED ingressVars PROVE IngressInv'
<1> USE DEF ingressVars
<1>1. /\ Ingress!Total' = Ingress!Total /\ Ingress!EndOf(done)' = Ingress!EndOf(done)
      /\ Ingress!EndOf(done + 1)' = Ingress!EndOf(done + 1)
  BY DEF Ingress!Total, Ingress!EndOf
<1>2. Ingress!SmallStreamsPass' /\ Ingress!RoomForReads'
  BY DEF IngressInv, Ingress!SmallStreamsPass, Ingress!RoomForReads, Ingress!Legal,
         Ingress!Length, Ingress!Total, Ingress!EndOf
<1> QED
  BY <1>1, <1>2 DEF IngressInv

(* However a stream is cut: it is refused for its size only if it is       *)
(* large, legal frames only with reads larger than the room beside the     *)
(* longest frame, and less than a frame is kept between two reads.         *)
THEOREM LimitsOnlyMeetTheLarge == FairSpec => []LimitsMeetTheLarge
<1>1. Init => IngressInv
  BY IngressStarts DEF Init
<1>2. IngressInv /\ [Next]_vars => IngressInv'
  <2> SUFFICES ASSUME IngressInv, [Next]_vars PROVE IngressInv'
    OBVIOUS
  <2>1. CASE Feeding(Ingress!Next)
    <3>1. PICK n \in 1..chunk : fed + n <= Ingress!Total /\ Ingress!FeedBytes(n)
      BY <2>1 DEF Feeding, Ingress!Next
    <3> QED
      BY <3>1, FeedKeeps
  <2>2. CASE Restarting(Restart!Next) \/ Tracing(Worker!Next) \/ UNCHANGED vars
    BY <2>2, IngressStutters DEF Restarting, Tracing, vars
  <2> QED
    BY <2>1, <2>2 DEF Next
<1>3. IngressInv => LimitsMeetTheLarge
  BY DEF IngressInv, LimitsMeetTheLarge, Ingress!LessThanAFrameHeld
<1> QED
  BY <1>1, <1>2, <1>3, PTL DEF FairSpec
=============================================================================
