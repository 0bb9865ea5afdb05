--------------------------- MODULE ReplaySession ---------------------------
(***************************************************************************)
(* A BapReplayClient and the worker of LocalSession that serves its        *)
(* connection.  What the client does is a list of steps, to send a frame   *)
(* or to expect one: run_handshake and run_encrypted_sequence have theirs  *)
(* built in, run_fixture reads them from a file.  Unlike the compatibility *)
(* client it keeps its session, its undelivered frames and its state when  *)
(* it connects again.                                                      *)
(*                                                                         *)
(* LocalSession's client and crypto_ready are not of this client and do    *)
(* not change; its stream, call, outcome, cenc, cdec and pending are the   *)
(* replay client's.  Beside the worker runs the LocalMessageDispatcher     *)
(* that the tests drive by hand, on the frames the worker handles.         *)
(***************************************************************************)
EXTENDS LocalSession

CONSTANTS Fixtures      \* lists of steps the fixture files hold

VARIABLES
    sim_state,
    todo,           \* steps of the call under way
    dispatcher,     \* state of the LocalMessageDispatcher
    answered,       \* history: replies of worker and dispatcher to the last frame
    before,         \* history: what the client brought to its connection
    shaken          \* history: run_handshake has succeeded on this connection

replayVars == <<sim_state, todo, dispatcher, answered, before, shaken>>

Send(id, enc, to) == [op |-> "send", id |-> id, enc |-> enc, to |-> to]
Expect(id, enc, to) == [op |-> "expect", id |-> id, enc |-> enc, to |-> to]

(* Where a step leaves the state alone.                                    *)
Same == "same"

SimHandshake ==
    <<Send("x1E", FALSE, "Sim1eSent"), Expect("x1F", FALSE, "Sim1fSent"),
      Send("x19", FALSE, "Sim19Sent"), Expect("x1A", FALSE, "Sim1aSent"),
      Send("x79", TRUE, "Sim79Sent"), Expect("x7A", TRUE, "SimReady")>>

EncryptedSteps ==
    <<Send("xSYN_A", TRUE, Same), Expect("xSYN_RSP", TRUE, Same),
      Send("xSYN_A", TRUE, Same), Expect("xSYN_RSP", TRUE, Same)>>

(* The steps of a fixture file: messages of either direction, no states.   *)
FileSteps ==
    {Send(id, enc, Same) : id \in Ids, enc \in BOOLEAN}
        \cup {Expect(id, enc, Same) : id \in Ids \cup {"xSYN_RSP"}, enc \in BOOLEAN}

ASSUME FixturesAssumption == Fixtures \subseteq Seq(FileSteps) \ {<<>>}

(* LocalMessageDispatcher: <<state, id, encrypted, reply, next>>           *)
DispatcherSteps ==
    {<<"SimStart", "x1E", FALSE, "x1F", "Sim1fSent">>,
     <<"Sim1fSent", "x19", FALSE, "x1A", "Sim1aSent">>,
     <<"Sim1aSent", "x79", TRUE, "x7A", "SimReady">>,
     <<"SimReady", "xSYN_A", TRUE, "xSYN_RSP", "SimReady">>}

ReplayInit ==
    /\ Init
    /\ sim_state = "SimStart" /\ todo = <<>>
    /\ dispatcher = "SimStart" /\ answered = [worker |-> {}, dispatcher |-> {}, erred |-> FALSE]
    /\ before = [enc |-> 0, sim |-> "SimStart", pending |-> <<>>]
    /\ shaken = FALSE

-----------------------------------------------------------------------------
(* The client                                                              *)

(* Mutant of KeptSession: the session is made anew.                        *)
KeptSession_Fresh == FreshSession

(* connect_timeout replaces the stream and nothing else.                   *)
KeptSession == UNCHANGED <<cenc, cdec, pending>>

ReplayConnect ==
    /\ todo = <<>>
    /\ connects < MaxConnects
    /\ connects' = connects + 1
    /\ stream' = "open" /\ outcome' = "ok"
    /\ KeptSession
    /\ worker' \in {"running", "ended"}
    /\ server' = InitialState /\ senc' = 0 /\ sdec' = 0 /\ batch' = <<>>
    /\ c2s' = <<>> /\ s2c' = <<>>
    /\ dispatcher' = "SimStart" /\ answered' = [worker |-> {}, dispatcher |-> {}, erred |-> FALSE]
    /\ before' = [enc |-> cenc, sim |-> sim_state, pending |-> pending]
    /\ shaken' = FALSE
    /\ UNCHANGED <<same_keys, client, crypto_ready, call, calls, timeouts, raw, sim_state, todo>>

ReplayClose ==
    /\ todo = <<>>
    /\ stream' = "none" /\ outcome' = "ok"
    /\ UNCHANGED <<same_keys, client, crypto_ready, call, cenc, cdec, pending, workerVars, c2s, s2c,
                   calls, connects, timeouts, raw, replayVars>>

(* A call of the owner starts; only the encrypted sequence asks for a      *)
(* state.                                                                  *)
Start(steps, beyond) ==
    /\ todo = <<>>
    /\ calls < MaxCalls
    /\ calls' = calls + 1
    /\ todo' = steps
    /\ raw' = (raw \/ beyond)
    /\ UNCHANGED <<same_keys, clientVars, workerVars, c2s, s2c, connects, timeouts,
                   sim_state, dispatcher, answered, before, shaken>>

(* run_fixture: the state is set when all steps have been made.            *)
FixtureSteps(fx) == [fx EXCEPT ![Len(fx)].to = "SimReady"]

ReplayCall ==
    \/ Start(SimHandshake, FALSE)
    \/ sim_state = "SimReady" /\ Start(EncryptedSteps, FALSE)
    \/ \E fx \in Fixtures : Start(FixtureSteps(fx), FALSE)
    \/ \E id \in RawIds, enc \in BOOLEAN : Start(<<Send(id, enc, Same)>>, TRUE)
    \/ stream = "open" /\ Start(<<Expect("any", FALSE, Same)>>, TRUE)

Stepped == sim_state' = IF Head(todo).to = Same THEN sim_state ELSE Head(todo).to

(* The call returns its error; the state it had reached stays.             *)
Fails(kind) == todo' = <<>> /\ outcome' = kind /\ UNCHANGED <<sim_state, shaken>>

(* Without a connection an encrypted frame takes its nonce all the same.   *)
SendStep ==
    /\ todo # <<>> /\ Head(todo).op = "send"
    /\ LET s == Head(todo)
       IN  \/ Written(s.id, s.enc) /\ todo' = Tail(todo) /\ Stepped /\ UNCHANGED <<outcome, shaken>>
           \/ WriteFails(s.enc) /\ Fails("write_failed")
           \/ /\ stream = "none"
              /\ cenc' = IF s.enc THEN cenc + 1 ELSE cenc
              /\ Fails("invalid_state")
              /\ UNCHANGED c2s
    /\ UNCHANGED <<same_keys, client, stream, crypto_ready, call, cdec, pending, workerVars, s2c,
                   calls, connects, timeouts, raw, dispatcher, answered, before>>

Expecting == todo # <<>> /\ Head(todo).op = "expect"

(* expect_clear, expect_decrypted                                          *)
Delivered(f) ==
    LET s == Head(todo)
    IN  IF s.id = "any" \/ (s.id = f.id /\ s.enc = f.enc)
          THEN /\ todo' = Tail(todo) /\ Stepped /\ UNCHANGED outcome
               /\ shaken' = (shaken \/ s = Last(SimHandshake))
          ELSE Fails("unexpected")

TakePending ==
    /\ Expecting /\ pending # <<>>
    /\ pending' = Tail(pending)
    /\ Delivered(Head(pending))
    /\ UNCHANGED <<same_keys, client, stream, crypto_ready, call, cenc, cdec, workerVars, c2s, s2c,
                   calls, connects, timeouts, raw, dispatcher, answered, before>>

(* One read returns n frames; one that does not decrypt loses them all.    *)
TakeSocket(n) ==
    /\ Expecting /\ pending = <<>> /\ stream = "open"
    /\ s2c' = SubSeq(s2c, n + 1, Len(s2c))
    /\ \/ /\ \A i \in 1..n : Decrypts(s2c, i, cdec)
          /\ cdec' = cdec + Encrypted(SubSeq(s2c, 1, n))
          /\ pending' = SubSeq(s2c, 2, n)
          /\ Delivered(s2c[1])
       \/ \E bad \in 1..n :
             /\ ~Decrypts(s2c, bad, cdec)
             /\ \A i \in 1..bad - 1 : Decrypts(s2c, i, cdec)
             /\ cdec' = cdec + Encrypted(SubSeq(s2c, 1, bad))
             /\ UNCHANGED pending
             /\ Fails("crypto")
    /\ UNCHANGED <<same_keys, client, stream, crypto_ready, call, cenc, workerVars, c2s,
                   calls, connects, timeouts, raw, dispatcher, answered, before>>

(* The stream ended, or there is none.                                     *)
TakeEnd ==
    /\ Expecting /\ pending = <<>>
    /\ \/ stream = "none" /\ Fails("invalid_state")
       \/ stream = "open" /\ worker = "ended" /\ s2c = <<>> /\ Fails("eof")
       \/ stream = "open" /\ worker = "ended" /\ c2s # <<>> /\ Fails("reset")
    /\ s2c' = <<>>
    /\ UNCHANGED <<same_keys, client, stream, crypto_ready, call, cenc, cdec, pending, workerVars,
                   c2s, calls, connects, timeouts, raw, dispatcher, answered, before>>

TakeTimeout ==
    /\ Expecting /\ pending = <<>> /\ s2c = <<>> /\ stream = "open" /\ worker = "running"
    /\ timeouts < MaxTimeouts
    /\ timeouts' = timeouts + 1
    /\ Fails("timeout")
    /\ UNCHANGED <<same_keys, client, stream, crypto_ready, call, cenc, cdec, pending, workerVars,
                   c2s, s2c, calls, connects, raw, dispatcher, answered, before>>

-----------------------------------------------------------------------------
(* The worker, and the dispatcher beside it                                *)

DispatcherFor(f) == {s \in DispatcherSteps : s[1] = dispatcher /\ s[2] = f.id /\ s[3] = f.enc}

(* A frame that is answered with a ProtocolError leaves the state.         *)
WorkerHandles ==
    /\ ServerHandle
    /\ LET f == Head(batch)
           m == [id |-> f.id, dir |-> "c2s"]
       IN  IF Decrypts(batch, 1, sdec)
             THEN /\ dispatcher' = IF DispatcherFor(f) = {} THEN dispatcher
                                   ELSE (CHOOSE s \in DispatcherFor(f) : TRUE)[5]
                  /\ answered' = [worker |-> IF Rejects(server, m) THEN {} ELSE Replies(server, f.id, TRUE),
                                  dispatcher |-> {s[4] : s \in DispatcherFor(f)},
                                  erred |-> answered.erred \/ DispatcherFor(f) = {}]
             ELSE UNCHANGED <<dispatcher, answered>>
    /\ UNCHANGED <<sim_state, todo, before, shaken>>

OtherWork == (ServerRead \/ ServerEnd) /\ UNCHANGED replayVars

-----------------------------------------------------------------------------

ClientStep == SendStep \/ TakePending \/ (\E n \in 1..Len(s2c) : TakeSocket(n)) \/ TakeEnd

ReplayNext ==
    \/ ReplayConnect \/ ReplayClose \/ ReplayCall \/ ClientStep \/ TakeTimeout
    \/ WorkerHandles \/ OtherWork
    \/ ServerTimeout /\ UNCHANGED replayVars

-----------------------------------------------------------------------------

(* On a connection to which the client came with encrypted frames behind   *)
(* it no encrypted frame is ever taken by the server: the first one fails  *)
(* to authenticate and ends the worker, whatever was sent before it.       *)
StaleSessionFails == before.enc > 0 => sdec = 0 \/ worker = "ended"

(* A client that brought nothing to its connection knows where the server  *)
(* is: it never believes in a step of the handshake that the server has    *)
(* not taken.                                                              *)
SimAgreement ==
    before = [enc |-> 0, sim |-> "SimStart", pending |-> <<>>] =>
        /\ sim_state \in {"Sim1fSent", "Sim19Sent"} =>
              ServerPast({"ServiceHandshakeComplete", "SessionEstablished"})
        /\ sim_state \in {"Sim1aSent", "Sim79Sent"} => ServerPast({"SessionEstablished"})
        /\ sim_state = "SimReady" => ServerPast({}) /\ same_keys

(* The dispatcher of the tests and the server it stands for agree: as long *)
(* as the dispatcher has had no error, the worker gives the answers it     *)
(* gives.                                                                  *)
DispatcherAgrees == ~answered.erred => answered.dispatcher = answered.worker

(* A call of the replay client returns without the help of a timeout, but  *)
(* for one: run_handshake and run_fixture have no guard, and the 0x1E of a *)
(* handshake on a connection that is ready is observed and not answered.   *)
ReplayReturns ==
    todo # <<>> /\ ~raw
      ~> todo = <<>> \/ (Expecting /\ Head(todo).id = "x1F" /\ server = "Active")
=============================================================================
