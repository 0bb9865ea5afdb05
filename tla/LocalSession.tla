---------------------------- MODULE LocalSession ----------------------------
(***************************************************************************)
(* A BapCompatibilityClient and the LocalBapServer worker that serves its  *)
(* connection, over TCP.  Frames arrive whole and in order (StreamFraming  *)
(* shows that chunking does not matter); either end may stop waiting,      *)
(* close, or find its peer gone between any two steps of the other.        *)
(*                                                                         *)
(* The client's blocking calls are split where they block: `call` is what  *)
(* the read under way waits for.  A nonce is the number of its frame in    *)
(* the direction's schedule (SessionNonces).  A connection given up by a   *)
(* reconnect is not followed further: its worker shares nothing with the   *)
(* next one.                                                               *)
(***************************************************************************)
EXTENDS ProtocolState, Sequences, SequencesExt, FiniteSets

CONSTANTS
    RawIds,         \* ids the owner passes to send_clear and send_encrypted
    MaxCalls,       \* bound on the calls that send or read
    MaxConnects,    \* bound on connect calls
    MaxTimeouts     \* bound on reads, of either end, that time out

ASSUME RawIdsAssumption == RawIds \subseteq Ids \ {"x1A"}
ASSUME LimitsAssumption == MaxCalls \in Nat /\ MaxConnects \in Nat /\ MaxTimeouts \in Nat

VARIABLES
    same_keys,      \* both ends were built from the same key and nonce
    \* BapCompatibilityClient
    client,         \* state
    stream,         \* the client's end: "none", "open"
    crypto_ready,
    call,           \* reply the blocking read waits for, or "none"
    outcome,        \* how the last call returned
    cenc, cdec,     \* counters of the client's crypto context
    pending,        \* decoded frames not yet handed out
    \* handle_connection
    worker,         \* "running", "ended"
    server,         \* protocol_state of its session
    senc, sdec,     \* counters of the worker's crypto context
    batch,          \* frames of the last read not yet processed
    \* the connection
    c2s, s2c,       \* frames written and not yet read
    \* bounds and history
    calls, connects, timeouts,
    raw             \* the owner went beyond run_handshake, send_nat_probe,
                    \* send_keepalive, send_unknown and close

clientVars == <<client, stream, crypto_ready, call, outcome, cenc, cdec, pending>>
workerVars == <<worker, server, senc, sdec, batch>>
vars == <<same_keys, clientVars, workerVars, c2s, s2c, calls, connects, timeouts, raw>>

ClientStates == {"Disconnected", "Connected", "ServiceHandshakeSent",
                 "ServiceHandshakeComplete", "SessionLoginSent", "SessionEstablished",
                 "EncryptedHandshakeSent", "EncryptedChannelEstablished", "Active",
                 "Closing", "Closed"}

Outcomes == {"none", "ok", "invalid_state", "write_failed", "unexpected", "mismatch",
             "crypto", "eof", "reset", "timeout"}

(* An encrypted frame carries its place in the schedule, a clear one 0.    *)
Frame(id, enc, n) == [id |-> id, enc |-> enc, nonce |-> IF enc THEN n ELSE 0]

Encrypted(fs) == Cardinality({i \in 1..Len(fs) : fs[i].enc})

(* Mutant of Decrypts: the authentication tag is not checked.              *)
Decrypts_Unauthenticated(fs, i, n) ==
    fs[i].enc => fs[i].nonce = n + Encrypted(SubSeq(fs, 1, i - 1))

(* Frame i of fs decrypts under counter n and the frames before it.        *)
Decrypts(fs, i, n) ==
    fs[i].enc => same_keys /\ fs[i].nonce = n + Encrypted(SubSeq(fs, 1, i - 1))

Init ==
    /\ same_keys \in BOOLEAN
    /\ client = "Disconnected" /\ stream = "none" /\ crypto_ready = FALSE
    /\ call = "none" /\ outcome = "none"
    /\ cenc = 0 /\ cdec = 0 /\ pending = <<>>
    /\ worker = "ended" /\ server = "Closed" /\ senc = 0 /\ sdec = 0 /\ batch = <<>>
    /\ c2s = <<>> /\ s2c = <<>>
    /\ calls = 0 /\ connects = 0 /\ timeouts = 0
    /\ raw = FALSE

-----------------------------------------------------------------------------
(* The client                                                              *)

(* Mutant of FreshSession: what BapReplayClient does, which reconnects     *)
(* with the session of the connection before.                              *)
FreshSession_Kept == UNCHANGED <<cenc, cdec, pending>>

FreshSession == cenc' = 0 /\ cdec' = 0 /\ pending' = <<>>

(* connect_timeout: everything of the session is made anew.  At its        *)
(* connection limit the server drops the connection at once.               *)
Connect ==
    /\ call = "none"
    /\ client \notin {"Closing", "Closed"}
    /\ connects < MaxConnects
    /\ connects' = connects + 1
    /\ client' = "Connected" /\ stream' = "open" /\ crypto_ready' = FALSE
    /\ outcome' = "ok"
    /\ FreshSession
    /\ worker' \in {"running", "ended"}
    /\ server' = InitialState
    /\ senc' = 0 /\ sdec' = 0 /\ batch' = <<>>
    /\ c2s' = <<>> /\ s2c' = <<>>
    /\ UNCHANGED <<same_keys, call, calls, timeouts, raw>>

(* encode and send_raw: an encrypted frame takes its nonce whether or not  *)
(* the write succeeds, and a write may fail once the worker has ended.     *)
Written(id, enc) ==
    /\ stream = "open"
    /\ cenc' = IF enc THEN cenc + 1 ELSE cenc
    /\ c2s' = Append(c2s, Frame(id, enc, cenc))

WriteFails(enc) ==
    /\ stream = "open"
    /\ worker = "ended"
    /\ cenc' = IF enc THEN cenc + 1 ELSE cenc
    /\ UNCHANGED c2s

(* Send, then go to `to` and wait for `reply`; or fail in `from`.          *)
SendThen(id, enc, from, to, reply) ==
    \/ /\ Written(id, enc)
       /\ client' = to
       /\ call' = reply
       /\ outcome' = IF reply = "none" THEN "ok" ELSE outcome
    \/ /\ WriteFails(enc)
       /\ client' = from
       /\ call' = "none"
       /\ outcome' = "write_failed"

(* A call of the owner; none is made while another one blocks.             *)
Calls ==
    /\ call = "none"
    /\ calls < MaxCalls
    /\ calls' = calls + 1

RunHandshake ==
    /\ Calls /\ client = "Connected"
    /\ SendThen("x1E", FALSE, client, "ServiceHandshakeSent", "x1F")
    /\ UNCHANGED <<same_keys, stream, crypto_ready, cdec, pending, workerVars, s2c,
                   connects, timeouts, raw>>

Ready == client \in {"EncryptedChannelEstablished", "Active"}

SendNatProbe ==
    /\ Calls /\ Ready
    /\ SendThen("x12E", TRUE, client, "Active", "none")
    /\ UNCHANGED <<same_keys, stream, crypto_ready, cdec, pending, workerVars, s2c,
                   connects, timeouts, raw>>

SendKeepalive ==
    /\ Calls /\ Ready
    /\ SendThen("xFA", FALSE, client, client, "xFB")
    /\ UNCHANGED <<same_keys, stream, crypto_ready, cdec, pending, workerVars, s2c,
                   connects, timeouts, raw>>

(* send_unknown has no guard on the state.                                 *)
SendUnknown ==
    /\ Calls
    /\ SendThen("other", FALSE, client, client, "none")
    /\ UNCHANGED <<same_keys, stream, crypto_ready, cdec, pending, workerVars, s2c,
                   connects, timeouts, raw>>

SendClear(id) ==
    /\ Calls
    /\ SendThen(id, FALSE, client, client, "none")
    /\ raw' = TRUE
    /\ UNCHANGED <<same_keys, stream, crypto_ready, cdec, pending, workerVars, s2c,
                   connects, timeouts>>

SendEncrypted(id) ==
    /\ Calls
    /\ crypto_ready \/ client \in {"SessionEstablished", "EncryptedHandshakeSent"} \/ Ready
    /\ SendThen(id, TRUE, client, client, "none")
    /\ raw' = TRUE
    /\ UNCHANGED <<same_keys, stream, crypto_ready, cdec, pending, workerVars, s2c,
                   connects, timeouts>>

(* read_frame called by the owner: any frame will do.                      *)
ReadFrame ==
    /\ Calls /\ stream = "open"
    /\ call' = "any"
    /\ raw' = TRUE
    /\ UNCHANGED <<same_keys, client, stream, crypto_ready, outcome, cenc, cdec, pending,
                   workerVars, c2s, s2c, connects, timeouts>>

Close ==
    /\ call = "none"
    /\ client' = "Closed" /\ stream' = "none" /\ crypto_ready' = FALSE
    /\ outcome' = "ok"
    /\ FreshSession
    /\ UNCHANGED <<same_keys, call, workerVars, c2s, s2c, calls, connects, timeouts, raw>>

-----------------------------------------------------------------------------
(* The client's blocking read                                              *)

(* The call ends where it is: the state it had reached stays.              *)
Returns(kind) ==
    /\ call' = "none"
    /\ outcome' = kind
    /\ UNCHANGED <<client, crypto_ready, cenc, c2s>>

(* expect_inbound, and the rest of the call up to its next read.           *)
Got(f) ==
    IF call = "any" THEN Returns("ok")
    ELSE IF f.id # call THEN Returns("unexpected")
    ELSE IF f.enc # (call = "x7A") THEN Returns("mismatch")
    ELSE CASE call = "x1F" ->
                 /\ SendThen("x19", FALSE, "ServiceHandshakeComplete",
                             "SessionLoginSent", "x1A")
                 /\ UNCHANGED crypto_ready
           [] call = "x1A" ->
                 /\ SendThen("x79", TRUE, "SessionEstablished",
                             "EncryptedHandshakeSent", "x7A")
                 /\ crypto_ready' = TRUE
           [] OTHER ->
                 /\ client' = "Active"
                 /\ call' = "none"
                 /\ outcome' = "ok"
                 /\ UNCHANGED <<crypto_ready, cenc, c2s>>

ReadPending ==
    /\ call # "none"
    /\ pending # <<>>
    /\ pending' = Tail(pending)
    /\ Got(Head(pending))
    /\ UNCHANGED <<same_keys, stream, cdec, workerVars, s2c, calls, connects, timeouts,
                   raw>>

(* One read of the socket returns n frames.  The first is handed on, the   *)
(* others wait; if one does not decrypt, those before it are lost too.     *)
ReadSocket(n) ==
    /\ call # "none"
    /\ pending = <<>>
    /\ s2c' = SubSeq(s2c, n + 1, Len(s2c))
    /\ \/ /\ \A i \in 1..n : Decrypts(s2c, i, cdec)
          /\ cdec' = cdec + Encrypted(SubSeq(s2c, 1, n))
          /\ pending' = SubSeq(s2c, 2, n)
          /\ Got(s2c[1])
       \/ \E bad \in 1..n :
             /\ ~Decrypts(s2c, bad, cdec)
             /\ \A i \in 1..bad - 1 : Decrypts(s2c, i, cdec)
             /\ cdec' = cdec + Encrypted(SubSeq(s2c, 1, bad))
             /\ UNCHANGED pending
             /\ Returns("crypto")
    /\ UNCHANGED <<same_keys, stream, workerVars, calls, connects, timeouts, raw>>

(* The worker closed its end: the rest of the stream is read first, unless *)
(* the worker left bytes of ours unread and the connection was reset.      *)
ReadEnd ==
    /\ call # "none"
    /\ pending = <<>>
    /\ worker = "ended"
    /\ \/ s2c = <<>> /\ Returns("eof")
       \/ c2s # <<>> /\ Returns("reset")
    /\ s2c' = <<>>
    /\ UNCHANGED <<same_keys, stream, cdec, pending, workerVars, calls, connects, timeouts,
                   raw>>

ReadTimeout ==
    /\ call # "none"
    /\ pending = <<>> /\ s2c = <<>> /\ worker = "running"
    /\ timeouts < MaxTimeouts
    /\ timeouts' = timeouts + 1
    /\ Returns("timeout")
    /\ UNCHANGED <<same_keys, stream, cdec, pending, workerVars, s2c, calls, connects, raw>>

-----------------------------------------------------------------------------
(* The worker                                                              *)

(* Mutant of Abandon: the frame in error is skipped, the stream stays open. *)
Abandon_Skips == batch' = Tail(batch) /\ UNCHANGED <<worker, senc, s2c>>

(* The early returns: the stream is shut down, the session's state stays.  *)
Abandon ==
    /\ worker' = "ended"
    /\ batch' = <<>>
    /\ UNCHANGED <<senc, s2c>>

(* The reply is written, or the client has closed and the write fails.     *)
Answer(r) ==
    LET enc == r \in EncryptedReplies
    IN  /\ senc' = IF enc THEN senc + 1 ELSE senc
        /\ \/ /\ s2c' = Append(s2c, Frame(r, enc, senc))
              /\ batch' = Tail(batch)
              /\ UNCHANGED worker
           \/ /\ stream = "none"
              /\ worker' = "ended"
              /\ batch' = <<>>
              /\ UNCHANGED s2c

ServerRead ==
    /\ worker = "running" /\ batch = <<>>
    /\ \E n \in 1..Len(c2s) :
          /\ batch' = SubSeq(c2s, 1, n)
          /\ c2s' = SubSeq(c2s, n + 1, Len(c2s))
    /\ UNCHANGED <<same_keys, clientVars, worker, server, senc, sdec, s2c, calls,
                   connects, timeouts, raw>>

(* decode_frame, handle_decoded_frame and the actions, for one frame.      *)
ServerHandle ==
    /\ worker = "running" /\ batch # <<>>
    /\ LET f == Head(batch)
           m == [id |-> f.id, dir |-> "c2s"]
       IN  /\ sdec' = IF f.enc THEN sdec + 1 ELSE sdec
           /\ \/ /\ ~Decrypts(batch, 1, sdec) \/ Rejects(server, m)
                 /\ Abandon
                 /\ UNCHANGED server
              \/ /\ Decrypts(batch, 1, sdec) /\ ~Rejects(server, m)
                 /\ server' = CompleteEncryptedHandshake(StateAfter(server, m))
                 /\ \/ \E r \in Replies(server, f.id, TRUE) : Answer(r)
                    \/ /\ Replies(server, f.id, TRUE) = {}
                       /\ batch' = Tail(batch)
                       /\ UNCHANGED <<worker, senc, s2c>>
    /\ UNCHANGED <<same_keys, clientVars, c2s, calls, connects, timeouts, raw>>

(* read returned 0: the client closed and its bytes have all been read; or *)
(* an error, when the client left bytes of ours unread.                    *)
ServerEnd ==
    /\ worker = "running" /\ batch = <<>> /\ stream = "none"
    /\ \/ c2s = <<>> /\ server' = "Closed"
       \/ s2c # <<>> /\ UNCHANGED server
    /\ worker' = "ended"
    /\ UNCHANGED <<same_keys, clientVars, senc, sdec, batch, c2s, s2c, calls, connects,
                   timeouts, raw>>

ServerTimeout ==
    /\ worker = "running" /\ batch = <<>> /\ c2s = <<>> /\ stream = "open"
    /\ timeouts < MaxTimeouts
    /\ timeouts' = timeouts + 1
    /\ server' = "Closed"
    /\ worker' = "ended"
    /\ UNCHANGED <<same_keys, clientVars, senc, sdec, batch, c2s, s2c, calls, connects, raw>>

-----------------------------------------------------------------------------

Owner == \/ Connect \/ RunHandshake \/ SendNatProbe \/ SendKeepalive \/ SendUnknown
         \/ \E id \in RawIds : SendClear(id) \/ SendEncrypted(id)
         \/ ReadFrame \/ Close

ClientRead == ReadPending \/ (\E n \in 1..Len(s2c) : ReadSocket(n)) \/ ReadEnd

Worker == ServerRead \/ ServerHandle \/ ServerEnd

Next == Owner \/ ClientRead \/ ReadTimeout \/ Worker \/ ServerTimeout

Spec == Init /\ [][Next]_vars

(* The worker is a thread of its own, and a blocked read returns when      *)
(* there is something to return.  Nobody has to call, to close or to time  *)
(* out.                                                                    *)
FairSpec == Spec /\ WF_vars(ClientRead) /\ WF_vars(Worker)

-----------------------------------------------------------------------------

FrameSeqs == Seq([id : Ids \cup {"xSYN_RSP"}, enc : BOOLEAN, nonce : Nat])

TypeOK ==
    /\ same_keys \in BOOLEAN /\ crypto_ready \in BOOLEAN /\ raw \in BOOLEAN
    /\ client \in ClientStates /\ stream \in {"none", "open"}
    /\ call \in {"none", "any", "x1F", "x1A", "x7A", "xFB"} /\ outcome \in Outcomes
    /\ call # "none" => stream = "open"
    /\ worker \in {"running", "ended"} /\ server \in States
    /\ cenc \in Nat /\ cdec \in Nat /\ senc \in Nat /\ sdec \in Nat
    /\ pending \in FrameSeqs /\ batch \in FrameSeqs /\ c2s \in FrameSeqs /\ s2c \in FrameSeqs
    /\ calls \in 0..MaxCalls /\ connects \in 0..MaxConnects /\ timeouts \in 0..MaxTimeouts

(* The nonce counters of the two ends stay in step over any mix of clear   *)
(* and encrypted frames, errors, timeouts and reconnects: a frame in       *)
(* flight meets the counter it was encrypted under, so that two ends with  *)
(* the same keys never see an authentication failure.                      *)
NoncesInStep ==
    same_keys =>
        /\ worker = "running" /\ stream = "open" =>
              \A i \in 1..Len(batch \o c2s) : Decrypts(batch \o c2s, i, sdec)
        /\ stream = "open" => \A i \in 1..Len(s2c) : Decrypts(s2c, i, cdec)
        /\ outcome # "crypto"

(* What the server has been through when the client believes it has; a     *)
(* server that timed out meanwhile is Closed.                              *)
ServerPast(states) == server \in states \cup ReadyStates \cup {"Closed"}

(* The two state machines agree: the client never believes in a step of    *)
(* the handshake the server has not taken, and it believes in the          *)
(* encrypted channel only if both hold the same keys.                      *)
HandshakeAgreement ==
    /\ client \in {"ServiceHandshakeComplete", "SessionLoginSent"} =>
          ServerPast({"ServiceHandshakeComplete", "SessionEstablished"})
    /\ client \in {"SessionEstablished", "EncryptedHandshakeSent"} =>
          ServerPast({"SessionEstablished"})
    /\ Ready => ServerPast({}) /\ same_keys

(* As long as nobody timed out and the owner kept to the high-level calls, *)
(* no frame is left over between two calls: the next reply the client      *)
(* reads answers the next request it sends.                                *)
NoStaleReplies ==
    timeouts = 0 /\ ~raw /\ call = "none" /\ stream = "open" => pending = <<>> /\ s2c = <<>>

(* A call that waits for a reply returns without the help of a timeout:    *)
(* the server answers it or closes the connection.                         *)
CallsReturn == call \in {"x1F", "x1A", "x7A", "xFB"} ~> call = "none"

(* A client that went away leaves no worker behind, whatever the worker    *)
(* was doing.  (local-server.md: EOF, no threads left hanging.)            *)
WorkerFollowsClose == stream = "none" ~> worker = "ended"
=============================================================================
