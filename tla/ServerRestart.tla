---------------------------- MODULE ServerRestart ----------------------------
(***************************************************************************)
(* The methods of LocalBapServer, called by its owner in any order: bind,  *)
(* start_background, serve_one, serve_forever, request_stop and shutdown,  *)
(* several times each.  ConnectionPool has one accept thread and what it   *)
(* does with its workers; here connections are served at once, and the     *)
(* question is what a second start finds of the first: the stop flag, the  *)
(* counter of connection ids and the port.                                 *)
(***************************************************************************)
EXTENDS Integers, Sequences

CONSTANTS
    Clients,        \* each connects once
    Self,           \* the connection shutdown makes to its own port
    MaxCalls        \* bound on the owner's calls

VARIABLES
    fixed,          \* config.port is not 0: every bind asks for the same port
    listener,       \* port of the listener no thread has taken, 0 without one
    bound,          \* port of bound_addr, 0 before the first bind
    next_conn_id,
    stop,
    threads,        \* the accept threads, in the order of their start
    accept_thread,  \* the one whose handle is kept, 0 without one
    call,           \* the call that blocks: "none", "accepting", "forever", "joining"
    calls,          \* calls made (bound)
    backlog,        \* connections waiting at each port
    served          \* connections with their id and who accepted them

vars == <<fixed, listener, bound, next_conn_id, stop, threads, accept_thread, call, calls,
          backlog, served>>

Ports == 1..MaxCalls

Init ==
    /\ fixed \in BOOLEAN
    /\ listener = 0 /\ bound = 0
    /\ next_conn_id = 1
    /\ stop = FALSE
    /\ threads = <<>> /\ accept_thread = 0
    /\ call = "none" /\ calls = 0
    /\ backlog = [p \in Ports |-> <<>>]
    /\ served = <<>>

Living == {i \in 1..Len(threads) : threads[i].at # "exited"}

InUse(p) == p = listener \/ \E i \in Living : threads[i].port = p

-----------------------------------------------------------------------------
(* The owner.  A call that needs a listener binds one unless it has it,    *)
(* and fails without any change when the port is in use.                   *)

Asked == IF fixed THEN 1 ELSE bound + 1

Port == IF listener # 0 THEN listener ELSE Asked

Calls ==
    /\ call = "none"
    /\ calls < MaxCalls
    /\ calls' = calls + 1
    /\ UNCHANGED fixed

(* The listener that bind replaces is closed with whoever waits at it.     *)
Bind ==
    /\ Calls
    /\ ~InUse(Asked)
    /\ listener' = Asked /\ bound' = Asked
    /\ backlog' = [p \in Ports |-> IF p = listener THEN <<>> ELSE backlog[p]]
    /\ UNCHANGED <<next_conn_id, stop, threads, accept_thread, call, served>>

BindFails ==
    /\ Calls
    /\ InUse(Asked)
    /\ UNCHANGED <<listener, bound, next_conn_id, stop, threads, accept_thread, call,
                   backlog, served>>

Thread(first) == [port |-> Port, next_id |-> first, at |-> "check", late |-> stop]

(* Mutant of Start: the thread counts from one.                            *)
Start_FromOne ==
    /\ listener # 0 \/ ~InUse(Asked)
    /\ listener' = 0 /\ bound' = Port
    /\ threads' = Append(threads, Thread(1))
    /\ accept_thread' = Len(threads) + 1
    /\ UNCHANGED <<next_conn_id, stop, backlog, served>>

(* start_background: the thread takes the listener and a copy of the       *)
(* counter; the handle of an earlier thread is dropped.                    *)
Start ==
    /\ listener # 0 \/ ~InUse(Asked)
    /\ listener' = 0 /\ bound' = Port
    /\ threads' = Append(threads, Thread(next_conn_id))
    /\ accept_thread' = Len(threads) + 1
    /\ UNCHANGED <<next_conn_id, stop, backlog, served>>

StartBackground == Calls /\ Start /\ UNCHANGED call

(* serve_forever holds the server until the flag is set.                   *)
ServeForever == Calls /\ Start /\ call' = "forever"

(* serve_one keeps the listener and serves the connection itself.          *)
ServeOne ==
    /\ Calls
    /\ listener # 0 \/ ~InUse(Asked)
    /\ listener' = Port /\ bound' = Port
    /\ call' = "accepting"
    /\ UNCHANGED <<next_conn_id, stop, threads, accept_thread, backlog, served>>

AcceptOne ==
    /\ call = "accepting"
    /\ backlog[listener] # <<>>
    /\ served' = Append(served, [id |-> next_conn_id, by |-> 0, who |-> Head(backlog[listener]),
                                 starts |-> Len(threads)])
    /\ backlog' = [backlog EXCEPT ![listener] = Tail(@)]
    /\ next_conn_id' = next_conn_id + 1
    /\ call' = "none"
    /\ UNCHANGED <<fixed, listener, bound, stop, threads, accept_thread, calls>>

RequestStop ==
    /\ Calls
    /\ stop' = TRUE
    /\ UNCHANGED <<listener, bound, next_conn_id, threads, accept_thread, call, backlog, served>>

(* shutdown: one connection to the last port bound, in case accept blocks, *)
(* then the thread whose handle is kept is waited for.                     *)
ShutDown ==
    /\ stop' = TRUE
    /\ backlog' = IF bound # 0 /\ InUse(bound)
                  THEN [backlog EXCEPT ![bound] = Append(@, Self)] ELSE backlog
    /\ call' = IF accept_thread = 0 THEN "none" ELSE "joining"
    /\ UNCHANGED <<fixed, listener, bound, next_conn_id, threads, accept_thread, served>>

Shutdown == Calls /\ ShutDown

EndForever == call = "forever" /\ stop /\ ShutDown /\ UNCHANGED calls

Join ==
    /\ call = "joining"
    /\ accept_thread \notin Living
    /\ accept_thread' = 0
    /\ call' = "none"
    /\ UNCHANGED <<fixed, listener, bound, next_conn_id, stop, threads, calls, backlog, served>>

-----------------------------------------------------------------------------
(* An accept thread and the clients                                        *)

(* Mutant of CheckStop: a thread that does not accept anybody any more     *)
(* keeps asking.                                                           *)
CheckStop_Never(i) ==
    /\ threads[i].at = "check"
    /\ threads' = [threads EXCEPT ![i].at = IF stop THEN "check" ELSE "accept"]
    /\ UNCHANGED backlog
    /\ UNCHANGED <<fixed, listener, bound, next_conn_id, stop, accept_thread, call, calls, served>>

(* The listener is closed with the thread, whoever waits is turned away.   *)
CheckStop(i) ==
    /\ threads[i].at = "check"
    /\ IF stop
       THEN /\ threads' = [threads EXCEPT ![i].at = "exited"]
            /\ backlog' = [backlog EXCEPT ![threads[i].port] = <<>>]
       ELSE threads' = [threads EXCEPT ![i].at = "accept"] /\ UNCHANGED backlog
    /\ UNCHANGED <<fixed, listener, bound, next_conn_id, stop, accept_thread, call, calls, served>>

Accept(i) ==
    LET t == threads[i]
        waiting == backlog[t.port]
    IN  /\ t.at = "accept"
        /\ IF waiting = <<>>
           THEN threads' = [threads EXCEPT ![i].at = "check"] /\ UNCHANGED <<backlog, served>>
           ELSE /\ threads' = [threads EXCEPT ![i].at = "check", ![i].next_id = @ + 1]
                /\ backlog' = [backlog EXCEPT ![t.port] = Tail(@)]
                /\ served' = Append(served, [id |-> t.next_id, by |-> i, who |-> Head(waiting),
                                             starts |-> Len(threads)])
        /\ UNCHANGED <<fixed, listener, bound, next_conn_id, stop, accept_thread, call, calls>>

Connect(c, p) ==
    /\ InUse(p)
    /\ \A q \in Ports : \A i \in 1..Len(backlog[q]) : backlog[q][i] # c
    /\ \A i \in 1..Len(served) : served[i].who # c
    /\ backlog' = [backlog EXCEPT ![p] = Append(@, c)]
    /\ UNCHANGED <<fixed, listener, bound, next_conn_id, stop, threads, accept_thread, call,
                   calls, served>>

-----------------------------------------------------------------------------

ThreadStep(i) == i \in 1..Len(threads) /\ (CheckStop(i) \/ Accept(i))

Next ==
    \/ Bind \/ BindFails \/ StartBackground \/ ServeForever \/ ServeOne \/ AcceptOne
    \/ RequestStop \/ Shutdown \/ EndForever \/ Join
    \/ \E i \in Ports : ThreadStep(i)
    \/ \E c \in Clients, p \in Ports : Connect(c, p)

Spec == Init /\ [][Next]_vars

(* The threads run, and a call that can return does.  The owner need not   *)
(* call anything, and no client need connect.                              *)
FairSpec ==
    /\ Spec
    /\ \A i \in Ports : WF_vars(ThreadStep(i))
    /\ WF_vars(Join) /\ WF_vars(EndForever)

-----------------------------------------------------------------------------

TypeOK ==
    /\ fixed \in BOOLEAN /\ stop \in BOOLEAN
    /\ bound \in 0..MaxCalls /\ listener \in {0, bound}
    /\ next_conn_id \in 1..MaxCalls + 1
    /\ call \in {"none", "accepting", "forever", "joining"}
    /\ accept_thread \in 0..Len(threads)
    /\ call = "joining" => stop /\ accept_thread # 0
    /\ \A p \in Ports : backlog[p] # <<>> => InUse(p)

(* The trace of a server tells its connections apart by id, which holds    *)
(* while they are numbered by one counter: no second start, and no         *)
(* serve_one after the first.  The ids serve_one gave before are not given *)
(* again, and with any number of counters one never repeats itself.        *)
IdsTellApart ==
    \A i, j \in 1..Len(served) :
        i < j /\ served[i].id = served[j].id =>
            /\ served[i].by # served[j].by
            /\ served[j].by = 0 => served[j].starts > 0
            /\ served[i].by = 0 => served[i].starts > 0

(* The flag is never cleared: a start after shutdown or request_stop       *)
(* succeeds and serves nobody.  Only serve_one still does.                 *)
RestartServesNobody == \A i \in 1..Len(served) : served[i].by # 0 => ~threads[served[i].by].late

(* With a fixed port no thread is left behind: a second start fails while  *)
(* the first thread runs, so the thread shutdown waits for is the only     *)
(* one.  (With port 0 it waits for the last one only.)                     *)
OnePortOneThread == fixed => Living \subseteq {accept_thread}

(* Once the flag is set, every thread ends, also those whose handle was    *)
(* dropped, and a shutdown that waits for one returns.                     *)
StopEnds == stop ~> (Living = {} /\ call # "joining")
=============================================================================
