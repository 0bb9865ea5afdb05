------------------------ MODULE ConnectionPoolProofs ------------------------
(* The limit on connections holds, and shutdown is final, for any finite   *)
(* set of clients, any limit and any number of failing accepts.            *)
EXTENDS ConnectionPool, FiniteSetTheorems, SequenceTheorems, TLAPS

USE SelfAssumption, ClientsFinite, LimitsAssumption

(* The types of everything but the list of events.                         *)
Types ==
    /\ kind \in {"server", "harness"} /\ stop \in BOOLEAN
    /\ owner \in {"running", "stopping", "joining", "stopped"}
    /\ acceptor \in {"check", "accept", "limit", "count", "number", "spawn", "exited"}
    /\ holding \in Connections /\ backlog \in Seq(Connections)
    /\ active \in Nat /\ next_id \in Nat \ {0}
    /\ id \in [Connections -> 0..next_id - 1]
    /\ worker \in [Connections -> {"none", "waiting", "running", "leaving", "gone"}]
    /\ logged \in [Connections -> 0..MaxEvents]
    /\ errors \in 0..MaxErrors

(* A connection is where its worker says: in the backlog or in the hands   *)
(* of the accept thread while it waits, and never in both.                 *)
Handing == acceptor \in {"limit", "count", "number", "spawn"}

WhereWaiting ==
    /\ \A i \in 1..Len(backlog) : worker[backlog[i]] = "waiting"
    /\ \A i, j \in 1..Len(backlog) : backlog[i] = backlog[j] => i = j
    /\ Handing => /\ worker[holding] = "waiting"
                  /\ \A i \in 1..Len(backlog) : backlog[i] # holding

(* The place of the connection in hand, counted or not yet.                *)
Counted == acceptor = "spawn" \/ (kind = "harness" /\ acceptor = "number")
Promised == acceptor = "count" \/ (kind = "server" /\ acceptor = "number")

PlaceKept ==
    /\ active = Cardinality(Serving) + (IF Counted THEN 1 ELSE 0)
    /\ active <= MaxConnections
    /\ Promised => active < MaxConnections

Placed == Types /\ WhereWaiting /\ PlaceKept

-----------------------------------------------------------------------------

(* The connections served are finitely many.                               *)
LEMMA ServingFinite == IsFiniteSet(Serving) /\ Cardinality(Serving) \in Nat
<1>1. IsFiniteSet(Connections)
    BY FS_AddElement DEF Connections
<1>2. Serving \in SUBSET Connections
    BY DEF Serving
<1> QED
    BY <1>1, <1>2, FS_Subset, FS_CardinalityType

(* A step in which no worker begins or ends to be served keeps the count.  *)
LEMMA ServingSame ==
    ASSUME \A c \in Connections :
               worker[c] \in {"running", "leaving"} <=> worker'[c] \in {"running", "leaving"}
    PROVE  Serving' = Serving
BY DEF Serving, Connections

(* Who waits goes on waiting where it does.                                *)
LEMMA WaitingStays ==
    ASSUME Types, WhereWaiting, UNCHANGED <<backlog, holding, acceptor>>,
           \A c \in Connections : worker[c] = "waiting" => worker'[c] = "waiting"
    PROVE  WhereWaiting'
<1>1. Handing' = Handing
    BY DEF Handing
<1>2. holding \in Connections /\ \A i \in 1..Len(backlog) : backlog[i] \in Connections
    BY DEF Types
<1> QED
    BY <1>1, <1>2 DEF WhereWaiting

(* Every connection starts without a worker, and so none is served.        *)
LEMMA PlacedInit == Init => Placed
<1> SUFFICES ASSUME Init PROVE Placed
    OBVIOUS
<1>1. Types
  <2>1. backlog \in Seq(Connections)
      BY DEF Init
  <2>2. /\ id \in [Connections -> 0..next_id - 1]
        /\ logged \in [Connections -> 0..MaxEvents]
        /\ worker \in [Connections -> {"none", "waiting", "running", "leaving", "gone"}]
      BY DEF Init
  <2>3. active \in Nat /\ next_id \in Nat \ {0} /\ errors \in 0..MaxErrors
      BY DEF Init
  <2>4. stop \in BOOLEAN
      BY DEF Init
  <2> QED
      BY <2>1, <2>2, <2>3, <2>4 DEF Init, Types, Connections
<1>2. WhereWaiting
    BY DEF Init, WhereWaiting, Handing
<1>3. PlaceKept
  <2>1. Serving = {}
      BY DEF Init, Serving
  <2> QED
      BY <2>1, FS_EmptySet DEF Init, PlaceKept, Counted, Promised
<1> QED
    BY <1>1, <1>2, <1>3 DEF Placed

-----------------------------------------------------------------------------

(* The listener takes a connection that was in nobody's hands.             *)
LEMMA ConnectPlaces ==
    ASSUME Placed, NEW c \in Connections, Connect(c),
           UNCHANGED <<kind, stop, acceptor, holding, active, next_id, id, logged, errors>>,
           owner' \in {"running", "stopping", "joining", "stopped"}
    PROVE  Placed'
<1>1. Types'
    BY DEF Placed, Types, Connect
<1>2. WhereWaiting'
  <2>1. /\ \A i \in 1..Len(backlog) : backlog[i] # c
        /\ Handing => holding # c
      BY DEF Placed, Types, WhereWaiting, Connect
  <2>2. /\ backlog \in Seq(Connections) /\ worker \in [Connections -> {"none", "waiting", "running", "leaving", "gone"}]
        /\ worker' = [worker EXCEPT ![c] = "waiting"]
        /\ backlog' = Append(backlog, c)
        /\ Handing' = Handing /\ holding' = holding
      BY DEF Placed, Types, Connect, Handing
  <2>3. /\ Len(backlog') = Len(backlog) + 1
        /\ \A i \in 1..Len(backlog) : backlog'[i] = backlog[i] /\ backlog[i] \in Connections
        /\ backlog'[Len(backlog) + 1] = c
      BY <2>2
  <2> QED
      BY <2>1, <2>2, <2>3 DEF Placed, WhereWaiting, Types
<1>3. PlaceKept'
  <2>1. Serving' = Serving
      BY ServingSame DEF Placed, Types, Connect
  <2> QED
      BY <2>1 DEF Placed, PlaceKept, Counted, Promised
<1> QED
    BY <1>1, <1>2, <1>3 DEF Placed

(* When the listener closes, whoever waits in it is gone.                  *)
LEMMA ClosingPlaces ==
    ASSUME Placed, ListenerCloses, ~Handing,
           UNCHANGED <<kind, stop, owner, holding, active, next_id, id, logged>>,
           errors' \in 0..MaxErrors
    PROVE  Placed'
<1>1. Types'
    BY DEF Placed, Types, ListenerCloses
<1>2. WhereWaiting'
    BY DEF Placed, Types, WhereWaiting, ListenerCloses, Handing
<1>3. PlaceKept'
  <2>1. Serving' = Serving
      BY ServingSame DEF Placed, Types, WhereWaiting, ListenerCloses
  <2> QED
      BY <2>1 DEF Placed, PlaceKept, Counted, Promised, ListenerCloses, Handing
<1> QED
    BY <1>1, <1>2, <1>3 DEF Placed

(* A step of the accept thread with the connection in its hands, in which  *)
(* it stays waiting: the places stay as they are told by its new state.    *)
LEMMA HandingPlaces ==
    ASSUME Placed, Handing, Handing',
           active' \in Nat, next_id' \in Nat \ {0}, id' \in [Connections -> 0..next_id' - 1],
           active' - (IF Counted' THEN 1 ELSE 0) = active - (IF Counted THEN 1 ELSE 0),
           active' <= MaxConnections, Promised' => active' < MaxConnections,
           UNCHANGED <<kind, stop, owner, holding, backlog, worker, logged, errors>>
    PROVE  Placed'
<1>1. Types'
    BY DEF Placed, Types, Handing
<1>2. WhereWaiting'
    BY DEF Placed, WhereWaiting
<1>3. PlaceKept'
  <2>1. Serving' = Serving
      BY ServingSame
  <2>2. active = Cardinality(Serving) + (IF Counted THEN 1 ELSE 0)
      BY DEF Placed, PlaceKept
  <2>3. active \in Nat /\ Cardinality(Serving) \in Nat
      BY ServingFinite DEF Placed, Types
  <2> QED
      BY <2>1, <2>2, <2>3 DEF PlaceKept
<1> QED
    BY <1>1, <1>2, <1>3 DEF Placed

-----------------------------------------------------------------------------

(* Every step keeps each connection in its place.                          *)
LEMMA PlacedNext == Placed /\ [Next]_vars => Placed'
<1> SUFFICES ASSUME Placed, [Next]_vars PROVE Placed'
    OBVIOUS
<1> USE DEF Placed
<1>card. Cardinality(Serving) \in Nat
    BY ServingFinite
<1>1. CASE CheckStop
  <2>1. CASE stop /\ ListenerCloses
      BY <1>1, <2>1, ClosingPlaces DEF CheckStop, Types, Handing
  <2>2. CASE ~stop /\ acceptor' = "accept" /\ UNCHANGED <<backlog, worker>>
    <3>1. Serving' = Serving
        BY <2>2, ServingSame
    <3> QED
        BY <1>1, <2>2, <3>1
           DEF CheckStop, Types, WhereWaiting, Handing, PlaceKept, Counted, Promised
  <2> QED
      BY <1>1, <2>1, <2>2 DEF CheckStop
<1>2. CASE Accept
  <2>1. CASE backlog = <<>>
    <3>1. Serving' = Serving
        BY <1>2, ServingSame DEF Accept
    <3> QED
        BY <1>2, <2>1, <3>1
           DEF Accept, Types, WhereWaiting, Handing, PlaceKept, Counted, Promised
  <2>2. CASE backlog # <<>>
    <3> DEFINE n == Len(backlog)
    <3>1. /\ n \in Nat \ {0} /\ backlog \in Seq(Connections)
          /\ backlog' = Tail(backlog) /\ holding' = Head(backlog) /\ acceptor' = "limit"
          /\ UNCHANGED <<kind, stop, owner, active, next_id, id, worker, logged, errors>>
        BY <1>2, <2>2 DEF Accept, Types
    <3>2. /\ backlog' \in Seq(Connections) /\ Len(backlog') = n - 1
          /\ \A i \in 1..n - 1 : backlog'[i] = backlog[i + 1]
          /\ holding' = backlog[1] /\ holding' \in Connections
        BY <3>1
    <3>3. Types'
        BY <3>1, <3>2 DEF Types
    <3>4. WhereWaiting'
        BY <3>1, <3>2 DEF WhereWaiting
    <3>5. PlaceKept'
      <4>1. Serving' = Serving
          BY <3>1, ServingSame
      <4> QED
          BY <1>2, <3>1, <4>1 DEF Accept, PlaceKept, Counted, Promised
    <3> QED
        BY <3>3, <3>4, <3>5
  <2> QED
      BY <2>1, <2>2
<1>3. CASE AcceptFails
  <2>1. CASE ListenerCloses
      BY <1>3, <2>1, ClosingPlaces DEF AcceptFails, Types, Handing
  <2>2. CASE acceptor' = "check" /\ UNCHANGED <<backlog, worker>>
    <3>1. Serving' = Serving
        BY <2>2, ServingSame
    <3> QED
        BY <1>3, <2>2, <3>1
           DEF AcceptFails, Types, WhereWaiting, Handing, PlaceKept, Counted, Promised
  <2> QED
      BY <1>3, <2>1, <2>2 DEF AcceptFails
<1>4. CASE CheckLimit
  <2>1. CASE active >= MaxConnections /\ worker' = [worker EXCEPT ![holding] = "gone"]
                                      /\ acceptor' = "check"
    <3>1. worker[holding] = "waiting" /\ holding \in Connections
        BY <1>4 DEF CheckLimit, WhereWaiting, Handing, Types
    <3>2. Serving' = Serving
        BY <2>1, <3>1, ServingSame DEF Types
    <3>3. Types'
        BY <1>4, <2>1 DEF CheckLimit, Types
    <3>4. WhereWaiting'
        BY <1>4, <2>1, <3>1 DEF CheckLimit, WhereWaiting, Handing, Types
    <3> QED
        BY <1>4, <2>1, <3>2, <3>3, <3>4 DEF CheckLimit, PlaceKept, Counted, Promised
  <2>2. CASE active < MaxConnections
      BY <1>4, <2>2, HandingPlaces
         DEF CheckLimit, Types, Handing, Counted, Promised
  <2> QED
      BY <1>4, <2>1, <2>2 DEF CheckLimit, Types
<1>5. CASE CountActive
    BY <1>5, HandingPlaces
       DEF CountActive, Types, Handing, Counted, Promised, PlaceKept
<1>6. CASE Number
  <2>1. /\ next_id' \in Nat \ {0} /\ id' \in [Connections -> 0..next_id' - 1]
      BY <1>6 DEF Number, Types
  <2> QED
      BY <1>6, <2>1, HandingPlaces
         DEF Number, Types, Handing, Counted, Promised, PlaceKept
<1>7. CASE Spawn
  <2>1. worker[holding] = "waiting" /\ holding \in Connections
      BY <1>7 DEF Spawn, WhereWaiting, Handing, Types
  <2>2. Serving' = Serving \cup {holding} /\ holding \notin Serving
      BY <1>7, <2>1 DEF Spawn, Serving, Types
  <2>3. Cardinality(Serving') = Cardinality(Serving) + 1
      BY <2>2, ServingFinite, FS_AddElement
  <2>4. Types'
      BY <1>7 DEF Spawn, Types
  <2>5. WhereWaiting'
      BY <1>7, <2>1 DEF Spawn, WhereWaiting, Handing, Types
  <2>6. PlaceKept'
      BY <1>7, <2>3, <1>card DEF Spawn, PlaceKept, Counted, Promised, Types
  <2> QED
      BY <2>4, <2>5, <2>6
<1>8. ASSUME NEW c \in Connections, Log(c) \/ FlushEvents(c) PROVE Placed'
  <2>1. Types'
    <3>1. CASE Log(c)
      <4>1. logged' = [logged EXCEPT ![c] = @ + 1] /\ logged[c] < MaxEvents
          BY <3>1 DEF Log
      <4>2. logged' \in [Connections -> 0..MaxEvents]
          BY <4>1 DEF Types
      <4> QED
          BY <3>1, <4>2 DEF Log, Types
    <3>2. CASE FlushEvents(c)
        BY <3>2 DEF FlushEvents, Types
    <3> QED
        BY <1>8, <3>1, <3>2
  <2>2. Serving' = Serving
      BY <1>8, ServingSame DEF Log, FlushEvents
  <2>3. WhereWaiting'
      BY <1>8 DEF Log, FlushEvents, WhereWaiting, Handing
  <2> QED
      BY <1>8, <2>1, <2>2, <2>3 DEF Log, FlushEvents, PlaceKept, Counted, Promised
<1>9. ASSUME NEW c \in Connections, Finish(c) PROVE Placed'
  <2>1. Types'
      BY <1>9 DEF Finish, Types
  <2>2. Serving' = Serving
      BY <1>9, ServingSame DEF Finish, Types
  <2>3. WhereWaiting'
    <3>1. \A d \in Connections : worker[d] = "waiting" => worker'[d] = "waiting"
        BY <1>9 DEF Finish, Types
    <3> QED
        BY <1>9, <3>1, WaitingStays DEF Finish
  <2> QED
      BY <1>9, <2>1, <2>2, <2>3 DEF Finish, PlaceKept, Counted, Promised
<1>10. ASSUME NEW c \in Connections, Leave(c) PROVE Placed'
  <2>1. c \in Serving /\ Serving' = Serving \ {c}
      BY <1>10 DEF Leave, Serving, Types
  <2>2. Cardinality(Serving') = Cardinality(Serving) - 1
      BY <2>1, ServingFinite, FS_RemoveElement
  <2>3. Cardinality(Serving) > 0
      BY <2>1, ServingFinite, FS_EmptySet
  <2>4. active' \in Nat
      BY <1>10, <2>3, <1>card DEF Leave, PlaceKept, Types
  <2>5. Types'
      BY <1>10, <2>4 DEF Leave, Types
  <2>6. WhereWaiting'
    <3>1. \A d \in Connections : worker[d] = "waiting" => worker'[d] = "waiting"
        BY <1>10 DEF Leave, Types
    <3> QED
        BY <1>10, <3>1, WaitingStays DEF Leave
  <2>7. PlaceKept'
    <3>1. active' = active - 1 /\ acceptor' = acceptor /\ kind' = kind
        BY <1>10, <2>3, <1>card DEF Leave, PlaceKept, Types
    <3>2. Counted' = Counted /\ Promised' = Promised
        BY <3>1 DEF Counted, Promised
    <3>3. active \in Nat /\ Cardinality(Serving') = Cardinality(Serving) - 1
        BY <2>2 DEF Types
    <3> QED
        BY <3>1, <3>2, <3>3, <1>card, LimitsAssumption DEF PlaceKept
  <2> QED
      BY <2>5, <2>6, <2>7
<1>11. ASSUME NEW c \in Clients, ClientConnects(c) PROVE Placed'
    BY <1>11, ConnectPlaces DEF ClientConnects, Connections, Types
<1>12. CASE RequestStop \/ Shutdown \/ Join
  <2>1. Serving' = Serving
      BY <1>12, ServingSame DEF RequestStop, Shutdown, Join
  <2>2. Types'
      BY <1>12 DEF RequestStop, Shutdown, Join, Types
  <2>3. WhereWaiting'
      BY <1>12 DEF RequestStop, Shutdown, Join, WhereWaiting, Handing
  <2> QED
      BY <1>12, <2>1, <2>2, <2>3
         DEF RequestStop, Shutdown, Join, PlaceKept, Counted, Promised
<1>13. CASE ConnectSelf
  <2>1. CASE Connect(Self)
      BY <1>13, <2>1, ConnectPlaces DEF ConnectSelf, Connections
  <2>2. CASE UNCHANGED <<backlog, worker>>
    <3>1. Serving' = Serving
        BY <2>2, ServingSame
    <3> QED
        BY <1>13, <2>2, <3>1
           DEF ConnectSelf, Types, WhereWaiting, Handing, PlaceKept, Counted, Promised
  <2> QED
      BY <1>13, <2>1, <2>2 DEF ConnectSelf
<1>14. CASE UNCHANGED vars
  <2>1. Serving' = Serving
      BY <1>14, ServingSame DEF vars
  <2> QED
      BY <1>14, <2>1
         DEF vars, Types, WhereWaiting, Handing, PlaceKept, Counted, Promised
<1> QED
    BY <1>1, <1>2, <1>3, <1>4, <1>5, <1>6, <1>7, <1>8, <1>9, <1>10, <1>11, <1>12, <1>13, <1>14
       DEF Next, AcceptThread, Ending

(* No more than MaxConnections are served at a time, and no place is lost, *)
(* though the accept thread adds to the count after it has read it.        *)
THEOREM LimitAlwaysHolds == Spec => []LimitHolds
<1>1. Placed => LimitHolds
    BY ServingFinite DEF Placed, PlaceKept, Counted, LimitHolds, Types
<1> QED
    BY <1>1, PlacedInit, PlacedNext, PTL DEF Spec

-----------------------------------------------------------------------------

(* shutdown returns only when the accept thread has ended, for good.       *)
Final == owner = "stopped" => acceptor = "exited"

LEMMA FinalHolds == Spec => []Final
<1>1. Init => Final
    BY DEF Init, Final
<1>2. Final /\ [Next]_vars => Final'
    BY DEF Final, Next, vars, AcceptThread, Ending, CheckStop, Accept, AcceptFails, CheckLimit,
           CountActive, Number, Spawn, Log, FlushEvents, Finish, Leave, ClientConnects,
           RequestStop, Shutdown, ConnectSelf, Join, ListenerCloses, Connect
<1> QED
    BY <1>1, <1>2, PTL DEF Spec

(* After shutdown has returned no connection begins to be served.          *)
THEOREM ShutdownIsFinal == Spec => NothingServedAfterShutdown
<1> DEFINE A == owner = "stopped" =>
                    \A c \in Connections : worker'[c] = "running" => worker[c] = "running"
<1>1. Types /\ Final /\ [Next]_vars => [A]_vars
  <2> SUFFICES ASSUME Types, Final, [Next]_vars, owner = "stopped",
                      NEW c \in Connections, worker'[c] = "running"
               PROVE  worker[c] = "running"
      OBVIOUS
  <2>1. acceptor = "exited"
      BY DEF Final
  <2>2. \/ UNCHANGED worker
        \/ \E d \in Connections : Finish(d) \/ Leave(d)
        \/ Spawn
      BY <2>1 DEF Next, vars, AcceptThread, Ending, CheckStop, Accept, AcceptFails, CheckLimit,
                  CountActive, Number, Log, FlushEvents, ClientConnects,
                  RequestStop, Shutdown, ConnectSelf, Join, ListenerCloses, Connect
  <2> QED
      BY <2>1, <2>2 DEF Finish, Leave, Spawn, Types
<1>2. Spec => []Types
    BY PlacedInit, PlacedNext, PTL DEF Spec, Placed
<1> QED
    BY <1>1, <1>2, FinalHolds, PTL DEF Spec, NothingServedAfterShutdown

-----------------------------------------------------------------------------

(* How often a value is in a sequence.                                     *)
CountOf(s, v) == Cardinality({i \in 1..Len(s) : s[i] = v})

LEMMA CountType ==
    ASSUME NEW s \in Seq(Nat), NEW v
    PROVE  IsFiniteSet({i \in 1..Len(s) : s[i] = v}) /\ CountOf(s, v) \in Nat
<1>1. IsFiniteSet(1..Len(s))
    BY FS_Interval
<1> QED
    BY <1>1, FS_Subset, FS_CardinalityType DEF CountOf

(* What is appended of one value is so much more of it, and of no other.   *)
LEMMA CountCopies ==
    ASSUME NEW s \in Seq(Nat), NEW r \in Seq(Nat), NEW v \in Nat,
           \A i \in 1..Len(r) : r[i] = v
    PROVE  /\ CountOf(s \o r, v) = CountOf(s, v) + Len(r)
           /\ \A w \in Nat \ {v} : CountOf(s \o r, w) = CountOf(s, w)
<1> DEFINE new == (Len(s) + 1)..(Len(s) + Len(r))
           At(q, w) == {i \in 1..Len(q) : q[i] = w}
<1>1. Len(s) \in Nat /\ Len(r) \in Nat
    OBVIOUS
<1>2. /\ Len(s \o r) = Len(s) + Len(r)
      /\ \A i \in 1..Len(s) : (s \o r)[i] = s[i]
      /\ \A i \in new : (s \o r)[i] = v
  <2>1. /\ Len(s \o r) = Len(s) + Len(r)
        /\ \A i \in 1..Len(s) + Len(r) :
              (s \o r)[i] = IF i <= Len(s) THEN s[i] ELSE r[i - Len(s)]
      BY ConcatProperties
  <2> QED
      BY <1>1, <2>1
<1>3. At(s \o r, v) = At(s, v) \cup new /\ At(s, v) \cap new = {}
  <2>1. 1..Len(s \o r) = (1..Len(s)) \cup new /\ (1..Len(s)) \cap new = {}
      BY <1>1, <1>2
  <2> QED
      BY <1>2, <2>1
<1>4. IsFiniteSet(new) /\ Cardinality(new) = Len(r)
  <2>1. Len(s) + 1 \in Int /\ Len(s) + Len(r) \in Int
      BY <1>1
  <2>2. /\ IsFiniteSet(new)
        /\ Cardinality(new) = IF Len(s) + 1 > Len(s) + Len(r) THEN 0
                              ELSE (Len(s) + Len(r)) - (Len(s) + 1) + 1
      BY <2>1, FS_Interval
  <2> QED
      BY <1>1, <2>2
<1>5. CountOf(s \o r, v) = CountOf(s, v) + Len(r)
  <2>1. IsFiniteSet(At(s, v)) /\ Cardinality(At(s, v)) \in Nat
      BY CountType DEF CountOf
  <2>2. Cardinality(At(s, v) \cap new) = 0
      BY <1>3, FS_EmptySet
  <2> HIDE DEF At, new
  <2>3. Cardinality(At(s, v) \cup new)
            = Cardinality(At(s, v)) + Cardinality(new) - Cardinality(At(s, v) \cap new)
      BY <1>4, <2>1, FS_Union
  <2>4. Cardinality(At(s, v) \cup new) = Cardinality(At(s, v)) + Len(r)
      BY <1>1, <1>4, <2>1, <2>2, <2>3
  <2> QED
      BY <1>3, <2>4 DEF CountOf, At
<1>6. \A w \in Nat \ {v} : At(s \o r, w) = At(s, w)
  <2>1. 1..Len(s \o r) = (1..Len(s)) \cup new
      BY <1>1, <1>2
  <2> QED
      BY <1>2, <2>1
<1> QED
    BY <1>5, <1>6 DEF CountOf

-----------------------------------------------------------------------------

(* A connection has its id, unlike any other, before it is served, and     *)
(* only then logs.                                                         *)
Ready == acceptor = "spawn" \/ (kind = "server" /\ acceptor = "count")

Numbered ==
    /\ \A c, d \in Connections : id[c] # 0 /\ id[c] = id[d] => c = d
    /\ \A c \in Serving : id[c] # 0
    /\ \A c \in Connections :
          /\ worker[c] \in {"none", "waiting"} => logged[c] = 0
          /\ worker[c] = "none" => id[c] = 0
          /\ worker[c] = "waiting" /\ id[c] # 0 => Ready /\ c = holding
    /\ Ready => id[holding] # 0

(* The list has ids that were given; the server's workers are never behind *)
(* with theirs, the harness's catch up when they end.                      *)
Caught ==
    /\ sink \in Seq(1..next_id - 1)
    /\ \A c \in Connections : id[c] # 0 =>
          /\ InSink(c) <= logged[c]
          /\ kind = "server" \/ worker[c] \in {"leaving", "gone"} => InSink(c) = logged[c]

Attributed == Numbered /\ Caught

(* What every event of a step must keep of the list, when it stays.        *)
LEMMA CaughtSame ==
    ASSUME Types, Caught, UNCHANGED <<kind, next_id, id, logged, sink>>,
           \A c \in Connections :
              worker'[c] \in {"leaving", "gone"} =>
                 worker[c] \in {"leaving", "gone"} \/ id[c] = 0
    PROVE  Caught'
BY DEF Caught, Types, InSink

LEMMA NumberedInit == Init => Attributed
<1> SUFFICES ASSUME Init PROVE Attributed
    OBVIOUS
<1>1. \A c \in Connections : id[c] = 0 /\ worker[c] = "none" /\ logged[c] = 0
    BY DEF Init
<1>2. Numbered
    BY <1>1 DEF Init, Numbered, Ready, Serving
<1>3. Caught
    BY <1>1 DEF Init, Caught
<1> QED
    BY <1>2, <1>3 DEF Attributed

LEMMA NumberedNext == Placed /\ Attributed /\ [Next]_vars => Numbered'
<1> SUFFICES ASSUME Placed, Attributed, [Next]_vars PROVE Numbered'
    OBVIOUS
<1> USE DEF Placed, Attributed
<1>1. CASE CheckStop \/ AcceptFails
  <2>1. CASE ListenerCloses
      BY <1>1, <2>1
         DEF CheckStop, AcceptFails, ListenerCloses, Numbered, Serving, Ready, Types
  <2>2. CASE UNCHANGED <<backlog, worker>>
    <3>1. UNCHANGED <<kind, holding, id, worker, logged>> /\ ~Ready /\ ~Ready'
        BY <1>1, <2>2 DEF CheckStop, AcceptFails, Ready, ListenerCloses
    <3> QED
        BY <3>1 DEF Numbered, Serving
  <2> QED
      BY <1>1, <2>1, <2>2 DEF CheckStop, AcceptFails
<1>2. CASE Accept
    BY <1>2 DEF Accept, Numbered, Serving, Ready
<1>3. CASE CheckLimit
    BY <1>3 DEF CheckLimit, Numbered, Serving, Ready, Types
<1>4. CASE CountActive
    BY <1>4 DEF CountActive, Numbered, Serving, Ready, Types
<1>5. CASE Number
  <2>1. /\ worker[holding] = "waiting" /\ holding \in Connections /\ id[holding] = 0
        /\ ~Ready
      BY <1>5 DEF Number, WhereWaiting, Handing, Types, Numbered, Ready
  <2>2. /\ id'[holding] = next_id /\ next_id \in Nat \ {0}
        /\ \A c \in Connections \ {holding} : id'[c] = id[c] /\ id[c] \in 0..next_id - 1
      BY <1>5, <2>1 DEF Number, Types
  <2>3. \A c, d \in Connections : id'[c] # 0 /\ id'[c] = id'[d] => c = d
      BY <2>1, <2>2 DEF Numbered
  <2>4. \A c \in Connections : worker[c] = "waiting" /\ id'[c] # 0 => c = holding
      BY <2>1, <2>2 DEF Numbered
  <2>5. \A c \in Connections : worker[c] = "none" => id'[c] = 0
      BY <2>1, <2>2 DEF Numbered
  <2>6. Ready'
      BY <1>5 DEF Number, Ready, Types
  <2> QED
      BY <1>5, <2>1, <2>2, <2>3, <2>4, <2>5, <2>6 DEF Number, Numbered, Serving
<1>6. CASE Spawn
  <2>1. holding \in Connections /\ id[holding] # 0
      BY <1>6 DEF Spawn, Numbered, Ready, Types
  <2> QED
      BY <1>6, <2>1 DEF Spawn, Numbered, Serving, Ready, Types
<1>7. ASSUME NEW c \in Connections, Log(c) \/ FlushEvents(c) \/ Finish(c) \/ Leave(c)
      PROVE  Numbered'
  <2>1. CASE Log(c)
      BY <2>1 DEF Log, Numbered, Serving, Ready, Types
  <2>2. CASE FlushEvents(c)
      BY <2>2 DEF FlushEvents, Numbered, Serving, Ready
  <2>3. CASE Finish(c)
      BY <2>3 DEF Finish, Numbered, Serving, Ready, Types
  <2>4. CASE Leave(c)
      BY <2>4 DEF Leave, Numbered, Serving, Ready, Types
  <2> QED
      BY <1>7, <2>1, <2>2, <2>3, <2>4
<1>8. ASSUME NEW c \in Connections, Connect(c), UNCHANGED <<kind, acceptor, holding, id, logged>>
      PROVE  Numbered'
    BY <1>8 DEF Connect, Numbered, Serving, Ready, Types
<1>9. CASE \E c \in Clients : ClientConnects(c)
    BY <1>8, <1>9 DEF ClientConnects, Connections
<1>10. CASE RequestStop \/ Shutdown \/ Join
    BY <1>10 DEF RequestStop, Shutdown, Join, Numbered, Serving, Ready
<1>11. CASE ConnectSelf
  <2>1. CASE UNCHANGED <<backlog, worker>>
      BY <1>11, <2>1 DEF ConnectSelf, Numbered, Serving, Ready
  <2> QED
      BY <1>8, <1>11, <2>1 DEF ConnectSelf, Connections
<1>12. CASE UNCHANGED vars
    BY <1>12 DEF vars, Numbered, Serving, Ready
<1> QED
    BY <1>1, <1>2, <1>3, <1>4, <1>5, <1>6, <1>7, <1>9, <1>10, <1>11, <1>12
       DEF Next, AcceptThread, Ending

(* A worker with an id appends as many events of it as it says.            *)
LEMMA CaughtGrows ==
    ASSUME Types, Numbered, Caught, NEW c \in Connections, id[c] # 0, NEW n \in Nat,
           UNCHANGED <<kind, next_id, id>>, sink' = sink \o Copies(c, n)
    PROVE  /\ sink' \in Seq(1..next_id - 1)
           /\ InSink(c)' = InSink(c) + n
           /\ \A d \in Connections \ {c} : id[d] # 0 => InSink(d)' = InSink(d)
<1>1. sink \in Seq(Nat) /\ id[c] \in Nat /\ id[c] \in 1..next_id - 1
    BY DEF Types, Caught
<1>2. /\ Copies(c, n) \in Seq(Nat) /\ Copies(c, n) \in Seq(1..next_id - 1)
      /\ Len(Copies(c, n)) = n
      /\ \A i \in 1..n : Copies(c, n)[i] = id[c]
    BY <1>1 DEF Copies
<1>3. /\ CountOf(sink', id[c]) = CountOf(sink, id[c]) + n
      /\ \A w \in Nat \ {id[c]} : CountOf(sink', w) = CountOf(sink, w)
    BY <1>1, <1>2, CountCopies
<1>4. \A d \in Connections \ {c} : id[d] # 0 => id[d] \in Nat \ {id[c]}
    BY DEF Types, Numbered
<1>5. sink' \in Seq(1..next_id - 1)
    BY <1>2, ConcatProperties DEF Caught
<1>6. \A d \in Connections : /\ InSink(d)' = CountOf(sink', id[d])
                             /\ InSink(d) = CountOf(sink, id[d])
    BY DEF CountOf, InSink
<1> QED
    BY <1>3, <1>4, <1>5, <1>6

LEMMA CaughtNext == Placed /\ Attributed /\ [Next]_vars => Caught'
<1> SUFFICES ASSUME Placed, Attributed, [Next]_vars PROVE Caught'
    OBVIOUS
<1> USE DEF Placed, Attributed
<1>1. CASE \E c \in Connections : Log(c)
  <2> PICK c \in Connections : Log(c)
      BY <1>1
  <2>1. id[c] # 0
      BY DEF Log, Numbered, Serving
  <2>2. logged' = [logged EXCEPT ![c] = @ + 1] /\ logged[c] \in Nat
      BY DEF Log, Types
  <2>3. CASE kind = "server"
    <3>1. sink' = sink \o Copies(c, 1)
      <4>1. sink' = Append(sink, id[c]) /\ sink \in Seq(Nat) /\ id[c] \in Nat
          BY <2>3 DEF Log, Types, Caught
      <4> QED
          BY <4>1 DEF Copies
    <3>2. /\ sink' \in Seq(1..next_id - 1)
          /\ InSink(c)' = InSink(c) + 1
          /\ \A d \in Connections \ {c} : id[d] # 0 => InSink(d)' = InSink(d)
        BY <2>1, <3>1, CaughtGrows DEF Log
    <3> QED
        BY <2>1, <2>2, <2>3, <3>2 DEF Log, Caught, Types
  <2>4. CASE kind # "server"
    <3>1. UNCHANGED <<sink, id>>
        BY <2>4 DEF Log
    <3>2. \A d \in Connections : InSink(d)' = InSink(d)
        BY <3>1 DEF InSink
    <3>3. \A d \in Connections : id[d] # 0 => InSink(d) \in Nat
      <4>1. sink \in Seq(Nat)
          BY DEF Caught, Types
      <4> QED
          BY <4>1, CountType DEF InSink, CountOf
    <3> QED
        BY <2>1, <2>2, <2>4, <3>1, <3>2, <3>3 DEF Log, Caught, Types
  <2> QED
      BY <2>3, <2>4
<1>2. ASSUME NEW c \in Connections, FlushEvents(c) \/ Finish(c), kind = "harness" PROVE Caught'
  <2>1. id[c] # 0 /\ Missing(c) \in Nat /\ InSink(c) \in Nat /\ InSink(c) <= logged[c]
    <3>1. id[c] # 0
        BY <1>2 DEF FlushEvents, Finish, Numbered, Serving
    <3>2. sink \in Seq(Nat)
        BY DEF Caught, Types
    <3>3. InSink(c) \in Nat
        BY <3>2, CountType DEF InSink, CountOf
    <3> QED
        BY <3>1, <3>3 DEF Caught, Missing, Types
  <2>2. sink' = sink \o Copies(c, Missing(c)) /\ UNCHANGED <<kind, next_id, id, logged>>
      BY <1>2 DEF FlushEvents, Finish
  <2>3. /\ sink' \in Seq(1..next_id - 1)
        /\ InSink(c)' = InSink(c) + Missing(c)
        /\ \A d \in Connections \ {c} : id[d] # 0 => InSink(d)' = InSink(d)
      BY <2>1, <2>2, CaughtGrows
  <2>4. InSink(c)' = logged[c]
      BY <2>1, <2>3 DEF Missing, Types
  <2>5. \A d \in Connections \ {c} : worker'[d] = worker[d]
      BY <1>2 DEF FlushEvents, Finish, Types
  <2>6. logged[c] \in Nat
      BY DEF Types
  <2> QED
      BY <2>2, <2>3, <2>4, <2>5, <2>6 DEF Caught
<1>3. ASSUME NEW c \in Connections, Finish(c), kind = "server" PROVE Caught'
    BY <1>3, CaughtSame DEF Finish, Types, Caught, InSink
<1>4. CASE Number
  <2>1. /\ holding \in Connections /\ logged[holding] = 0
        /\ id' = [id EXCEPT ![holding] = next_id] /\ next_id' = next_id + 1
        /\ UNCHANGED <<kind, holding, worker, logged, sink>>
      BY <1>4 DEF Number, WhereWaiting, Handing, Types, Numbered
  <2>2. sink \in Seq(1..next_id - 1) /\ next_id \in Nat \ {0}
      BY DEF Caught, Types
  <2>3. sink \in Seq(1..next_id' - 1)
      BY <2>1, <2>2
  <2>4. InSink(holding)' = 0
    <3>1. \A i \in 1..Len(sink) : sink[i] # next_id
        BY <2>2
    <3>2. id'[holding] = next_id
        BY <2>1 DEF Types
    <3>3. {i \in 1..Len(sink) : sink[i] = id'[holding]} = {}
        BY <3>1, <3>2
    <3> QED
        BY <2>1, <3>3, FS_EmptySet DEF InSink
  <2>5. \A c \in Connections \ {holding} : id'[c] = id[c] /\ InSink(c)' = InSink(c)
      BY <2>1 DEF InSink, Types
  <2> QED
      BY <2>1, <2>3, <2>4, <2>5 DEF Caught
<1>5. CASE CheckStop \/ AcceptFails
  <2>1. CASE ListenerCloses
    <3>1. ~Handing
        BY <1>5 DEF CheckStop, AcceptFails, Handing
    <3>2. \A c \in Connections : worker[c] = "waiting" => id[c] = 0
        BY <3>1 DEF Numbered, Ready, Handing
    <3>3. \A c \in Connections : worker'[c] # worker[c] => worker[c] = "waiting"
        BY <2>1 DEF ListenerCloses, WhereWaiting, Types
    <3> QED
        BY <1>5, <3>2, <3>3, CaughtSame DEF CheckStop, AcceptFails
  <2>2. CASE UNCHANGED <<backlog, worker>>
      BY <1>5, <2>2, CaughtSame DEF CheckStop, AcceptFails
  <2> QED
      BY <1>5, <2>1, <2>2 DEF CheckStop, AcceptFails
<1>6. CASE CheckLimit
  <2>1. id[holding] = 0
      BY <1>6 DEF CheckLimit, WhereWaiting, Handing, Types, Numbered, Ready
  <2> QED
      BY <1>6, <2>1, CaughtSame DEF CheckLimit, Types
<1>7. CASE Accept \/ CountActive \/ RequestStop \/ Shutdown \/ Join
    BY <1>7, CaughtSame DEF Accept, CountActive, RequestStop, Shutdown, Join
<1>8. CASE Spawn
    BY <1>8, CaughtSame DEF Spawn, Types
<1>9. ASSUME NEW c \in Connections, Leave(c) PROVE Caught'
    BY <1>9, CaughtSame DEF Leave, Types
<1>10. ASSUME NEW c \in Connections, Connect(c), UNCHANGED <<kind, next_id, id, logged, sink>>
       PROVE  Caught'
    BY <1>10, CaughtSame DEF Connect, Types
<1>11. CASE \E c \in Clients : ClientConnects(c)
    BY <1>10, <1>11 DEF ClientConnects, Connections
<1>12. CASE ConnectSelf
  <2>1. CASE UNCHANGED <<backlog, worker>>
      BY <1>12, <2>1, CaughtSame DEF ConnectSelf
  <2> QED
      BY <1>10, <1>12, <2>1 DEF ConnectSelf, Connections
<1>13. CASE UNCHANGED vars
    BY <1>13, CaughtSame DEF vars
<1>14. kind \in {"server", "harness"}
    BY DEF Types
<1> QED
    BY <1>1, <1>2, <1>3, <1>4, <1>5, <1>6, <1>7, <1>8, <1>9, <1>11, <1>12, <1>13, <1>14
       DEF Next, AcceptThread, Ending, FlushEvents

(* Whatever the workers log and flush in between, the shared list has the  *)
(* events of each connection under its own id, none twice, and all when    *)
(* its worker ends.                                                        *)
THEOREM EventsAlwaysAttributed == Spec => [](TypeOK /\ EventsAttributed)
<1>1. Placed /\ Attributed => TypeOK /\ EventsAttributed
    BY DEF Placed, Types, Attributed, Numbered, Caught, TypeOK, EventsAttributed
<1>2. Init => Placed /\ Attributed
    BY PlacedInit, NumberedInit
<1>3. Placed /\ Attributed /\ [Next]_vars => (Placed /\ Attributed)'
    BY PlacedNext, NumberedNext, CaughtNext DEF Attributed
<1> QED
    BY <1>1, <1>2, <1>3, PTL DEF Spec
=============================================================================
