---------------------------- MODULE ConnectionPool ----------------------------
(***************************************************************************)
(* The accept thread, the workers and the owner of LocalBapServer, kind    *)
(* "server", and of ExternalBoundaryHarness, kind "harness": they share a  *)
(* stop flag, a count of active connections and a list of events.          *)
(*                                                                         *)
(* What a worker does with its connection is LocalSession and              *)
(* ExternalBoundary; here it logs events and ends.  A client connects at   *)
(* most once; the connection shutdown makes to its own port is one more.   *)
(***************************************************************************)
EXTENDS Integers, Sequences, FiniteSets

CONSTANTS
    Clients,
    Self,               \* the connection of shutdown
    MaxConnections,     \* max_connections
    MaxEvents,          \* bound on the events of a connection
    MaxErrors           \* bound on failing accepts

ASSUME SelfAssumption == Self \notin Clients
ASSUME ClientsFinite == IsFiniteSet(Clients)
ASSUME LimitsAssumption ==
    MaxConnections \in Nat /\ MaxEvents \in Nat \ {0} /\ MaxErrors \in Nat

VARIABLES
    kind,       \* "server" or "harness"
    stop,       \* the stop flag
    owner,      \* "running", "stopping", "joining", "stopped"
    acceptor,   \* where the accept thread is
    holding,    \* the connection it has accepted and not yet handed over
    backlog,    \* connections the listener has not accepted
    active,     \* the shared count of connections
    next_id,
    id,         \* the id of each connection, 0 before it has one
    worker,     \* "none", "waiting", "running", "leaving", "gone", for each
    logged,     \* events a connection has logged
    sink,       \* ids of the events in the shared list
    errors      \* failing accepts (bound)

vars == <<kind, stop, owner, acceptor, holding, backlog, active, next_id, id, worker,
          logged, sink, errors>>

Connections == Clients \cup {Self}

Init ==
    /\ kind \in {"server", "harness"}
    /\ stop = FALSE
    /\ owner = "running"
    /\ acceptor = "check"
    /\ holding = Self
    /\ backlog = <<>>
    /\ active = 0
    /\ next_id = 1
    /\ id = [c \in Connections |-> 0]
    /\ worker = [c \in Connections |-> "none"]
    /\ logged = [c \in Connections |-> 0]
    /\ sink = <<>>
    /\ errors = 0

(* A connection request is taken by the listener, which is closed when the *)
(* accept thread exits.                                                    *)
Connect(c) ==
    /\ acceptor # "exited"
    /\ worker[c] = "none"
    /\ worker' = [worker EXCEPT ![c] = "waiting"]
    /\ backlog' = Append(backlog, c)

ListenerCloses ==
    /\ acceptor' = "exited"
    /\ backlog' = <<>>
    /\ worker' = [c \in Connections |->
                     IF \E i \in 1..Len(backlog) : backlog[i] = c THEN "gone" ELSE worker[c]]

-----------------------------------------------------------------------------
(* The accept thread                                                       *)

CheckStop ==
    /\ acceptor = "check"
    /\ \/ stop /\ ListenerCloses
       \/ /\ ~stop
          /\ acceptor' = "accept"
          /\ UNCHANGED <<backlog, worker>>
    /\ UNCHANGED <<kind, stop, owner, holding, active, next_id, id, logged, sink, errors>>

(* A non-blocking accept: without a connection, back to the stop flag.     *)
Accept ==
    /\ acceptor = "accept"
    /\ \/ /\ backlog = <<>>
          /\ acceptor' = "check"
          /\ UNCHANGED <<holding, backlog>>
       \/ /\ backlog # <<>>
          /\ holding' = Head(backlog)
          /\ backlog' = Tail(backlog)
          /\ acceptor' = "limit"
    /\ UNCHANGED <<kind, stop, owner, active, next_id, id, worker, logged, sink, errors>>

(* Another error of accept ends the harness's thread, not the server's.    *)
AcceptFails ==
    /\ acceptor = "accept"
    /\ errors < MaxErrors
    /\ errors' = errors + 1
    /\ \/ kind = "harness" /\ ListenerCloses
       \/ /\ kind = "server"
          /\ acceptor' = "check"
          /\ UNCHANGED <<backlog, worker>>
    /\ UNCHANGED <<kind, stop, owner, holding, active, next_id, id, logged, sink>>

(* Mutant of CheckLimit: the thread waits for a place.                     *)
CheckLimit_Waits ==
    /\ acceptor = "limit"
    /\ active < MaxConnections
    /\ acceptor' = IF kind = "harness" THEN "count" ELSE "number"
    /\ UNCHANGED <<kind, stop, owner, holding, backlog, active, next_id, id, worker, logged,
                   sink, errors>>

(* At the limit the connection is shut down.                               *)
CheckLimit ==
    /\ acceptor = "limit"
    /\ \/ /\ active >= MaxConnections
          /\ worker' = [worker EXCEPT ![holding] = "gone"]
          /\ acceptor' = "check"
       \/ /\ active < MaxConnections
          /\ acceptor' = IF kind = "harness" THEN "count" ELSE "number"
          /\ UNCHANGED worker
    /\ UNCHANGED <<kind, stop, owner, holding, backlog, active, next_id, id, logged, sink,
                   errors>>

(* The harness counts a connection before it numbers it, the server after. *)
CountActive ==
    /\ acceptor = "count"
    /\ active' = active + 1
    /\ acceptor' = IF kind = "harness" THEN "number" ELSE "spawn"
    /\ UNCHANGED <<kind, stop, owner, holding, backlog, next_id, id, worker, logged, sink,
                   errors>>

Number ==
    /\ acceptor = "number"
    /\ id' = [id EXCEPT ![holding] = next_id]
    /\ next_id' = next_id + 1
    /\ acceptor' = IF kind = "harness" THEN "spawn" ELSE "count"
    /\ UNCHANGED <<kind, stop, owner, holding, backlog, active, worker, logged, sink, errors>>

Spawn ==
    /\ acceptor = "spawn"
    /\ worker' = [worker EXCEPT ![holding] = "running"]
    /\ acceptor' = "check"
    /\ UNCHANGED <<kind, stop, owner, holding, backlog, active, next_id, id, logged, sink,
                   errors>>

-----------------------------------------------------------------------------
(* The workers                                                             *)

InSink(c) == Cardinality({i \in 1..Len(sink) : sink[i] = id[c]})

(* Mutant of Missing: the events of every connection are counted.          *)
Missing_CountsAll(c) == logged[c] - Len(sink)

(* flush_events skips as many events as the list has with this id.         *)
Missing(c) == logged[c] - InSink(c)

Copies(c, n) == [k \in 1..n |-> id[c]]

(* The server's workers push an event at once, the harness's keep it.      *)
Log(c) ==
    /\ worker[c] = "running"
    /\ logged[c] < MaxEvents
    /\ logged' = [logged EXCEPT ![c] = @ + 1]
    /\ sink' = IF kind = "server" THEN Append(sink, id[c]) ELSE sink
    /\ UNCHANGED <<kind, stop, owner, acceptor, holding, backlog, active, next_id, id,
                   worker, errors>>

FlushEvents(c) ==
    /\ kind = "harness"
    /\ worker[c] = "running"
    /\ sink' = sink \o Copies(c, Missing(c))
    /\ UNCHANGED <<kind, stop, owner, acceptor, holding, backlog, active, next_id, id,
                   worker, logged, errors>>

(* The connection is over, the harness's worker has flushed once more.     *)
Finish(c) ==
    /\ worker[c] = "running"
    /\ logged[c] > 0
    /\ sink' = IF kind = "harness" THEN sink \o Copies(c, Missing(c)) ELSE sink
    /\ worker' = [worker EXCEPT ![c] = "leaving"]
    /\ UNCHANGED <<kind, stop, owner, acceptor, holding, backlog, active, next_id, id,
                   logged, errors>>

(* Mutant of Leave: a worker that ends early is not counted down.          *)
Leave_Uncounted(c) ==
    /\ worker[c] = "leaving"
    /\ active' = IF logged[c] < 2 THEN active ELSE active - 1
    /\ worker' = [worker EXCEPT ![c] = "gone"]
    /\ UNCHANGED <<kind, stop, owner, acceptor, holding, backlog, next_id, id, logged, sink,
                   errors>>

Leave(c) ==
    /\ worker[c] = "leaving"
    /\ active' = active - 1
    /\ worker' = [worker EXCEPT ![c] = "gone"]
    /\ UNCHANGED <<kind, stop, owner, acceptor, holding, backlog, next_id, id, logged, sink,
                   errors>>

-----------------------------------------------------------------------------
(* Clients and owner                                                       *)

ClientConnects(c) ==
    /\ Connect(c)
    /\ UNCHANGED <<kind, stop, owner, acceptor, holding, active, next_id, id, logged, sink,
                   errors>>

RequestStop ==
    /\ kind = "server" /\ owner = "running"
    /\ stop' = TRUE
    /\ UNCHANGED <<kind, owner, acceptor, holding, backlog, active, next_id, id, worker,
                   logged, sink, errors>>

(* shutdown, also from drop: stop, connect once to wake the accept thread, *)
(* join it.  The workers are not joined.                                   *)
Shutdown ==
    /\ owner = "running"
    /\ owner' = "stopping"
    /\ stop' = TRUE
    /\ UNCHANGED <<kind, acceptor, holding, backlog, active, next_id, id, worker, logged,
                   sink, errors>>

ConnectSelf ==
    /\ owner = "stopping"
    /\ owner' = "joining"
    /\ Connect(Self) \/ UNCHANGED <<backlog, worker>>
    /\ UNCHANGED <<kind, stop, acceptor, holding, active, next_id, id, logged, sink, errors>>

(* Mutant of Join: the accept thread is not joined.                        *)
Join_Skipped ==
    /\ owner = "joining"
    /\ owner' = "stopped"
    /\ UNCHANGED <<kind, stop, acceptor, holding, backlog, active, next_id, id, worker,
                   logged, sink, errors>>

Join ==
    /\ owner = "joining"
    /\ acceptor = "exited"
    /\ owner' = "stopped"
    /\ UNCHANGED <<kind, stop, acceptor, holding, backlog, active, next_id, id, worker,
                   logged, sink, errors>>

-----------------------------------------------------------------------------

AcceptThread == CheckStop \/ Accept \/ CheckLimit \/ CountActive \/ Number \/ Spawn

Ending == ConnectSelf \/ Join

Next ==
    \/ AcceptThread \/ AcceptFails
    \/ \E c \in Connections : Log(c) \/ FlushEvents(c) \/ Finish(c) \/ Leave(c)
    \/ \E c \in Clients : ClientConnects(c)
    \/ RequestStop \/ Shutdown \/ Ending

Spec == Init /\ [][Next]_vars

(* The accept thread polls, shutdown runs through; the reads of a worker   *)
(* time out, but nothing below depends on it.                              *)
FairSpec == Spec /\ WF_vars(AcceptThread) /\ WF_vars(Ending)

-----------------------------------------------------------------------------

TypeOK ==
    /\ kind \in {"server", "harness"} /\ stop \in BOOLEAN
    /\ owner \in {"running", "stopping", "joining", "stopped"}
    /\ acceptor \in {"check", "accept", "limit", "count", "number", "spawn", "exited"}
    /\ holding \in Connections /\ backlog \in Seq(Connections)
    /\ active \in Nat /\ next_id \in Nat \ {0}
    /\ id \in [Connections -> 0..next_id - 1]
    /\ worker \in [Connections -> {"none", "waiting", "running", "leaving", "gone"}]
    /\ logged \in [Connections -> 0..MaxEvents]
    /\ sink \in Seq(1..next_id - 1)
    /\ errors \in 0..MaxErrors

Serving == {c \in Connections : worker[c] \in {"running", "leaving"}}

(* The accept thread reads the count and only later adds to it, while the  *)
(* workers take from it; still no more than MaxConnections connections are *)
(* served at a time, and no place is lost: the count is that of the        *)
(* connections served and the one about to be.                             *)
LimitHolds ==
    LET counted == acceptor = "spawn" \/ (kind = "harness" /\ acceptor = "number")
    IN  /\ Cardinality(Serving) <= MaxConnections
        /\ active = Cardinality(Serving) + (IF counted THEN 1 ELSE 0)

(* The shared list has the events of a connection under its own id, none   *)
(* twice, and all of them once its worker ends, whatever the other workers *)
(* add in between.                                                         *)
EventsAttributed ==
    \A c \in Connections : id[c] # 0 =>
        /\ \A d \in Connections \ {c} : id[d] # id[c]
        /\ InSink(c) <= logged[c]
        /\ worker[c] \in {"leaving", "gone"} => InSink(c) = logged[c]

(* After shutdown has returned no connection is served any more that was   *)
(* not served before.  (Workers may still run: they are not joined.)       *)
NothingServedAfterShutdown ==
    [][owner = "stopped" =>
          \A c \in Connections : worker'[c] = "running" => worker[c] = "running"]_vars

(* shutdown returns, and a client that connects is served or turned away,  *)
(* with every place taken by workers that go on forever and with the       *)
(* connection of shutdown failing.                                         *)
NobodyWaitsForever ==
    /\ owner # "running" ~> owner = "stopped"
    /\ \A c \in Clients : worker[c] = "waiting" ~> worker[c] # "waiting"
=============================================================================
