# Verification of the `network/` crate

TLA+ models, TLC configurations and TLAPS proofs for the Rust crate under
`network/`: a compatibility layer for the BAP protocol of Destiny 1, made of a
framing decoder, an AES-GCM session, a local server, a client for it, a hardened
ingress boundary, and a large set of offline analysers of captured traffic. The
other directories of the repository (`client/`, `server/`, `launcher/`, `web/`,
`tools/`, `external/`) hold a README each and no code.

Everything is translated from the source; `PROJECT.json` maps each definition to
the lines it stands for. Paths below are relative to `network/src/`.

## 1. Inventory

### Components with state of their own

| component | state | operations | talks to | hard because |
|---|---|---|---|---|
| `BapStreamDecoder` (`stream_framing.rs`) | a byte buffer | `push`, `finish`, `reset` | fed by every reader of a socket | chunks cut anywhere; a bad header poisons the buffer |
| byte sources, pipeline (`byte_source.rs`, `tcp_byte_source.rs`, `bap_pipeline.rs`) | an optional TCP stream, frames gathered | `read`, `close`, `collect_raw_frames` | decoder, session | timeouts and retries, partial results, close looks like end of stream |
| `SessionCryptoContext` (`crypto/session_context.rs`, `crypto/gcm_nonce.rs`) | base nonce, current nonce and counter per direction | `next_nonce` | session | carries across bytes; two directions in one nonce space |
| `BapSession` (`bap_session.rs`, `framing.rs`) | the crypto context | `encode_clear`, `encode_encrypted`, `decode_frame` | its peer, over the wire | implicit nonces: both ends must count alike through every error |
| `transition`, `ResponsePolicy` (`protocol_state.rs`, `response_policy.rs`) | the protocol state; two options | state and reply of a message | stateful session | two tables that must agree, written apart |
| `StatefulBapSession`, `MessageDispatcher` | protocol state, policy, event log, observation flags | `handle_message`, `set_unknown_policy`, `begin_close`, `finish_close` | server worker, boundary | several state changes and an error in one call |
| server worker (`handle_connection` in `local_server.rs`) | decoder, stateful session, frames of the last read | a loop over reads | client | early returns, a write that fails after the state has moved |
| server accept thread (`start_background`, `shutdown`) | stop flag, active count, ids, traces | accept, spawn, stop, join | workers, owner | check-then-add, shared lists, joins |
| `BapCompatibilityClient` (`compatibility_client.rs`) | stream, session, decoder, pending frames, state | `connect`, `run_handshake`, `send_*`, `read_frame`, `close` | server | blocking reads, timeouts, reconnects |
| `ExternalClientConnection`, harness (`external_client_boundary.rs`) | two lifecycles, decoder, event log, limits, shared collector | `feed_bytes`, `begin_close`, `flush_events`, accept, shutdown | any client on localhost | limits, a failure at each stage of a chunk, logs merged from several threads |
| `BapReplayClient`, `SimState` (`replay_client.rs`, `local_protocol.rs`) | as the client, with a simpler state | connect, replay of a fixture | server | keeps its session across connects |

Who calls whom: a thread accepts a connection and starts a worker; the worker
reads chunks, the decoder makes frames of them, the session decrypts a frame, the
stateful session moves its state, the policy chooses a reply, the worker encrypts
and writes it. Workers share with the accept thread and the owner only an atomic
flag, an atomic count, and one list behind a mutex. The client is a single thread
that blocks in its reads. There is no persistence, so no crash recovery.

### Components without (batch analysis and I/O)

They read captures or tables, compute a report and end. Their hard part is that a
report is assembled from several passes over the same frames which must agree.

| component | what it must get right | module |
|---|---|---|
| `gcm_sequence`, `gcm_first_frame`, `bap_session_verify`, `bap_pipeline_verify` | each counts nonces for itself; what it vouches for must be the schedule | `OfflineVerify` |
| `bap_pipeline` | keeps decoder and counters from source to source, with a list of directions or one for all | `OfflinePipeline` |
| `message_codec`, `message_registry`, `messages` | lengths that disagree; three tables of the same ids | `MessageCodec` |
| `evidence_adapter`, `jsonl`, `timeline` | two formats, one record; times that are missing or equal | `EvidenceInput` |
| `message_inventory`, `message_correlation` | order rebuilt from groups; several tables of the same steps | `MessageInventory`, `MessageCorrelation`, `SequenceAlignment` |
| `state_machine` | a divergence found in one index is applied in another | `ObservedStateMachine` |
| `payload_structure` | payloads of different lengths, stability within and across captures | `PayloadStructure` |
| `multi_capture` | a verdict that needs two independent captures | `MultiCapture` |
| `udp_evidence`, `udp_analysis` | packets in a file, cut off or out of order; before, during, after | `UdpEvidence` |
| `compatibility_matrix` | rules that keep claims from outgrowing the evidence | `CompatibilityMatrix` |

Not modelled: the ciphers (`crypto/aead.rs`, `crypto/cbc_hmac.rs`), which are
abstract in the models that use them, the observation harness, the SignOn
evidence, and the drivers (`cli.rs`, the `*_verify` programs). Section 7 says why.

The hazards of the code, each at its line, with the properties aimed at it, are
in `PROJECT.json` under `hazards`.

## 2. Modules

| module | models | extends / instantiates |
|---|---|---|
| `StreamFraming` | decoder, TCP source, `collect_raw_frames` | |
| `FreshNonces` | abstract: a supply of nonces that never repeats | |
| `SessionNonces` | nonce schedule, a nonce split into last byte and the rest | `FreshNonces` (refinement) |
| `NonceBytes` | the byte arithmetic of `gcm_nonce.rs` | |
| `BapSession` | encoder and decoder of one direction, faulty transport | |
| `HandshakeOrder` | abstract: three handshake replies in order, then chat | |
| `ProtocolState` | `transition()` and `decide()` as operators | |
| `StatefulSession` | one `StatefulBapSession` | `ProtocolState`, `HandshakeOrder` (refinement) |
| `LocalSession` | compatibility client, TCP connection, server worker | `ProtocolState` |
| `ReplaySession` | the replay client and the dispatcher of the tests, with the same worker | `LocalSession` |
| `WorkerTrace` | the worker alone, every kind of bad frame, and the trace it leaves | `ProtocolState` |
| `ConnectionPool` | accept thread, workers, owner, of server and harness | |
| `ServerRestart` | the owner's calls of a server in any order, several starts | |
| `ExternalBoundary` | `ExternalClientConnection` and the harness's worker | `ProtocolState` |
| `IngressLimits` | the size limits of `feed_bytes` against every cutting of a stream | |
| `OfflinePipeline`, `OfflineVerify` | offline decoding, and its verifiers | |
| `MessageInventory` | observations of two captures, filed by id | |
| `MessageCorrelation` | the tables made of them | `MessageInventory` |
| `ObservedStateMachine` | the traces replayed over them | `MessageCorrelation` |
| `SequenceAlignment` | longest common subsequence and divergence | |
| `UdpEvidence`, `EvidenceInput`, `PayloadStructure`, `MultiCapture`, `MessageCodec`, `CompatibilityMatrix` | one component each, see section 1 | |
| `MCStreamFraming` | | `StreamFraming`, `OfflinePipeline` |
| `MCSessionNonces` | | `SessionNonces`, `NonceBytes`, `OfflineVerify` |
| `MCLocalSession` | | `ReplaySession` |
| `MCExternalBoundary` | | `ExternalBoundary` |
| `MCLocalServer` | | `ServerRestart`, `IngressLimits`, `WorkerTrace` |
| `MCCaptures` | | `ObservedStateMachine`, `SequenceAlignment` |
| `MCEvidence` | | the six one-component modules above |
| `SessionProofs` | theorems | `StatefulSession`, `BapSession` |
| the other `*Proofs` | theorems | the module of the name, or its MC module |

**One subject per behaviour.** Components that do not interact, but answer the
same question (is what a capture says kept?), share an MC module: its initial
state chooses a `subject` (or `study`, `owner`), the actions of that component
run, and the variables of the others rest. Every behaviour is one of the component
alone, so nothing is checked of a composition that does not exist; properties are
stated under `subject = ...` where they would otherwise speak of a resting part.

Names of variables and actions follow the code. Where they do not speak for
themselves:

* **StreamFraming.** A byte is its position in the peer's stream; the buffer is
  the interval from `consumed` to `received`; a frame is the interval it occupies
  and the verdict of its header. `ReadData(n)` is one `read` and the `push` of
  what it returned: the loop of `drain_complete` in one step, as no one else can
  touch the decoder in between.
* **SessionNonces.** The 12-byte array is a pair: the last byte, `high`, which
  `XorLastByte` flips, and the number in the other eleven, `low`, which the
  increments count up. `NonceBytes` has the array, the flip and the increment with its
  carry from byte to byte; `Spelled` is the pair an array stands for, and
  `BytewiseScheduleAgrees` compares what the code computes with the schedule.
* **OfflineVerify.** Each verifier's report is state: a frame of the file is recorded and
  every verifier takes it in, with counters of its own, as their loops do.
* **OfflinePipeline.** A byte is its place in the recorded stream. A call is steps: `Run`
  is fed a stretch of it, `DrainFrame` takes a frame off the buffer, `Collected` ends the
  collection, well or with one of three errors, `DecodeRaw` decodes a frame, `Decoded`
  returns. `run` is given a direction for each frame, `run_unidirectional` one for all.
* **BapSession.** Its specification is `FrameSpec`, so that one module of proofs can extend it
  together with `StatefulSession`. A frame carries the counter it was encrypted under. It decrypts
  exactly if it is unaltered and meets that counter: what AES-GCM promises.
* **ProtocolState.** Ids are model strings: the ten the codec knows, and a
  representative of each class of the others. `HandshakeSteps` and `ReplySteps`
  are the arms of the two `match` expressions.
* **LocalSession.** `call` is the reply for which the client is blocked in
  `read_frame`, so that a call of several sends and reads, such as
  `run_handshake`, is several steps, with the worker running in between. A read
  takes any number of whole frames off the stream; cutting frames is
  `StreamFraming`'s matter. A worker is created with each connection; a connection
  refused at the limit is one whose worker has ended.
* **ExternalBoundary.** `owner` is who calls: a worker, which reads, feeds, handles
  the error and flushes (`step`), or code that calls the methods offline, as the
  tests do. Lengths are in units of a header, so that `max_buffered` depends on
  where a chunk was cut.
* **ConnectionPool.** Each atomic access of the accept thread is a step. `kind`
  chooses between the server and the harness, which differ in the order of
  counting and numbering, in what a failing accept does, and in how events reach
  the shared list.
* **ServerRestart.** Connections are served at once; what a second start finds of
  the first is the question. Each accept thread has its own port and its own copy
  of the id counter; `accept_thread` is the one whose handle is still held.
* **ReplaySession.** `run_handshake`, `run_encrypted_sequence` and `run_fixture` are
  lists of steps; the client keeps `SimState`, counters and pending frames over a
  reconnect, as the code does. Beside it runs the dispatcher the tests call by hand.
* **The analysers.** The state is what has been captured so far, and grows by one
  frame, packet, line or manifest entry at a time; a report is an operator on it, so
  its properties hold of every prefix too. Where the code loops over an algorithm
  with state of its own (`SequenceAlignment`), the loop is steps.
  Fingerprints are the payloads themselves, times are small integers, and text is a
  member of a small set; what the code computes of them is translated.
* **MessageCodec.** A field of fixed size is one byte, so that lengths that disagree
  by one, at either end, fit in six bytes. Ids keep their values, and the dump's ids
  may exceed 16 bits.
* **CompatibilityMatrix.** `Revise`, `Copy` and `Drop` stand for whoever edits the fixture,
  `Verify` is the program, which writes the canonical matrix first.

## 3. Runs

| run | instance | distinct states | shows |
|---|---|---|---|
| `framing` | streams of at most 3 frames with bodies of 0 or 2 bytes, any cutoff, 2 failing calls; a pipeline fed 3 sources | 363 k | chunks do not matter; what is lost, and what never is, when a call fails and is retried; sources join, or the rest of one surfaces in the next |
| `nonces` | 3-byte nonces with bytes 0..3, 15 nonces per direction; files of 4 frames | 105 k | no nonce twice; bytes and schedule agree; a verifier vouches only for the schedule |
| `bap_session` | 5 frames, 2 faults | 39 k | counters stay aligned through tampering; no replay; who fails was altered |
| `stateful` | 7 calls | 16 k | both tables agree with one handshake; log and flags |
| `observed_moves` | 5 calls | violation | see section 6 |
| `local_session` | compatibility client: 4 calls, replay client: 3; 2 connects, 1 timeout | 269 k | the ends agree, a stale session fails and never passes, nobody hangs |
| `boundary` | 9 frames, chunks that begin at most 2, 4 calls of `feed_bytes` | 638 k | one close, one verdict per frame, aligned counters, the worker ends and reports |
| `errors_leave_open` | the same | violation | see section 6 |
| `pool` | 3 clients and the connection of `shutdown`, limit 2, 1 event, 1 failing accept | 101 k | the limit, the shared list, shutdown |
| `server` | 4 calls of the owner, 2 clients; streams of up to 4 frames in reads of 1, 2, 3, 7; 4 reads of 2 frames | 479 k | what a second start does; who is refused for size; what a trace tells of a worker and what not |
| `captures` | pairs of captures, 3 to 7 frames in the first and 1 to 3 in the second, 13 when the ids alternate; lists of 2 entries; sequences of 4 ids | 260 k | tables keep what was captured and agree with each other |
| `evidence` | 3 packets and 2 messages, 3 lines, 4 payloads of 2-bit bytes, 3 manifest entries, 2 scanned lines, 2 edits | 156 k | reading, comparing, encoding, claiming: nothing lost or invented |

### Bounds

Each bound is a constant, and each is large enough for the case it could hide.

* `framing` keeps the real header length, so a cut falls at each place of a header,
  at its end, and inside a body; three frames give one before, at and after a
  refused one; two failures give a retry that fails again. Three sources are one that
  leaves a rest, one that meets it, and one after that; frame lengths are chosen so
  that the rest of one frame can be completed by another.
* `nonces`: 15 increments from every base run through every carry of a three-byte
  counter, including the carry into the last byte in one direction, which is where
  they could meet. `MaxIssued < LowRange` is an assumption: in the code 256^11
  frames of a direction, out of reach of its 64-bit counter. Files of four frames hold
  three in order and one that is not, or a gap and what follows it.
* `bap_session`: two faults give each pair (lose and repeat, repeat and overtake).
* `stateful`: the longest path through the states is seven calls.
* `local_session`: four calls are a handshake, an exchange, and a keepalive or a raw
  send; two connects are a reconnect; one timeout, at either end, leaves one late reply. Three
  calls of the replay client are a handshake, an exchange, and one on what is left.
* `boundary`: four chunks of two frames pass the handshake and then fail in each
  way; the limits (6 units, 2 frames) are reached by legal frames.
* `pool`: with a limit of two and four connections the limit is met, and met again
  after a place was given back. One event of each worker is enough for lists that are
  merged in any order: order within a connection is `ExternalBoundary`'s.
* `server`: four calls are start, stop, start, stop. A stream is the ends of its
  frames, up to four of the lengths 2, 3, 5 and 6, which lie on both
  sides of the decoder's limit (5) and the reads on both sides of the room the buffer
  leaves (6 - 5). Four reads of the worker pass the handshake and use the channel.
* `captures`: each study has the frames that make its question occur: equal ids with
  each other field different, payloads whose windows recur, keepalives at uneven
  distances, captures that part in the middle and at the start. Thirteen alternating
  messages hold two clusters that overlap. The lists that the code cuts at 64 or 128
  entries are cut at 2 (`MaxTransitions`, `MaxRepeats`, `MaxVariations`, `MaxValues`): each
  of them is met empty, with room to spare, full, and with an entry cut that is as frequent
  as one kept or less so. The payloads of the study `repeated` come in one order, that of
  their table: in which order they come tells the counts nothing. The traces are replayed over captures of at
  most five frames together, one of them opaque.
* `evidence`: three packets are one before, in and after a session, with a fragment and a
  file of nanoseconds among them, and the dump beside them may hold a frame without id or
  time, or with an id too large; three lines are a
  frame between two others with and without times; four payloads are two of each
  capture, in four lengths; three entries are two captures and a repetition; two edits
  break two rules at once. `ContextMod` is 2^32 in the code, and two contexts that
  differ only above it occur. Frames and records go through the codec before the scan
  of a dump only; the two share no state but a last result.

`CHECK_DEADLOCK FALSE` stands in every configuration: the behaviours stop at the
bounds, and closed sessions and stopped servers really are at an end. That nobody
waits for another is stated as liveness instead.

### Fairness

* `framing`: the loop of `collect_raw_frames` goes on as long as the peer writes
  or closes (`WF(Read)`). A read that fails is never required.
* `local_session`: the worker is a thread of its own, and a blocked read returns
  when there is something to return. No call, close or timeout is required, so
  `NobodyLeftWaiting` holds without the five-second timeouts of the code.
* `boundary`: the worker runs, and its read ends in the end: it has a timeout, and
  chunks are bounded by `MaxFeeds`.
* `pool`: the accept thread polls and `shutdown` runs through. Workers need not
  ever end, so `NobodyWaitsForever` is shown against workers that keep their
  places forever.
* `server`: each accept thread polls, a join ends when its thread has, and the loop of
  `feed_bytes` over a stream goes on. No call of the owner is required.

The other runs check safety alone.

Each property has a mutant, next to the definition it mutates (`Of_Change`): a
plausible bug in that code under which TLC finds the property violated.

## 4. Properties worth knowing

* `NeverReused` (`nonces`): the schedule implements `FreshNonces`, which meets each
  request with a nonce not in use. Both directions
  share key and base, and only the lowest bit of the last byte, which is also the
  most significant byte of the counter, keeps them apart.
* `AlignedDespiteTampering` (`bap_session`): because a failed authentication still
  consumes its nonce, an altered frame costs only itself. A frame cut so short
  that no nonce is taken costs the rest of the session; the model says so in `gaps`.
* `RepliesInOrder` (`stateful`): whatever arrives, 0x1F, 0x1A and 0x7A are announced
  once each and in order. `transition()` and `decide()` are two tables; this is
  what it means that they agree.
* `FailuresHaveACause` (`bap_session`): no innocent frame fails. What fails was
  altered, or follows a loss, a repetition, an overtaking or a gap.
* `PeersAgree` (`local_session`): the client never believes in a step that the server
  has not taken, and in the channel only if both hold the same keys; the dispatcher
  that the tests drive by hand answers as the server would.
* `ClientInStep` (`local_session`): without timeouts and with the high-level calls
  alone, no frame is left over between calls. A timeout does leave one: the late
  reply is taken for the answer to the next request, which then fails.
* `StaleSessionFails` (`local_session`): the replay client keeps its counters over a
  reconnect, so what it sends then fails at the server; it never passes for an answer
  of the new connection.
* `SourcesJoin` (`framing`): sources that go on where the last one stopped give the
  frames of the whole stretch, as long as every call returns ok. What a source leaves in
  the decoder is not lost silently: it makes the next call fail, or it is swallowed by a
  clear frame, the first of that call, which is then made of two. It is never an encrypted
  one: that would have to authenticate.
* `VerifiersVouchFor` (`nonces`): four programs count the nonces of a file, each for
  itself. A file one of them passes holds the first frames of each direction, in order.
* `SecondStart` (`server`): ids tell connections apart only under one start; a second
  start on a fixed port fails, on a free one leaves a thread nobody joins; and after
  `shutdown` the flag stays set, so a start succeeds and serves nobody.
* `LimitsMeetTheLarge` (`server`): whether a stream is refused depends on how it is
  cut, but only a stream with a large frame, or read in pieces larger than the room
  beside the longest frame, ever is.
* `TraceReliable` (`server`): a reply is in the trace if and only if it reached the
  stream, behind the message it answers. How the worker ended is told by one last event
  if the worker chose to end, at the end of the stream, after a timeout or by refusing.
  An error of the stream or of the encryption is not traced and the thread drops it
  (section 6): a write that failed can still be told, because the last message asked is
  the only one without its reply, but a read that failed leaves a trace like that of a
  connection still served.
* `PeerNeverBlamed` (`boundary`): `feed_bytes` drops the rest of a chunk on an
  error, and with it nonces of the peer's. It is the worker's not reading on that
  keeps an innocent peer from failing authentication.
* `LimitHolds` (`pool`): reading the count and adding to it later is safe because
  only the accept thread adds.
* `NothingServedAfterShutdown`, `NobodyWaitsForever` (`pool`): the join in `shutdown`
  is what makes the first true, the non-blocking accept the second.
* `TracesPartOnce` (`captures`): the branch begins where the captures part and the
  startup is left once, though the place comes from one list and is applied to another;
  `TablesAgree`: the same steps are counted in several tables, which agree as long as
  none of the lists is full, and a full list has lost the least frequent entries.
* `IntakeFaithful` (`evidence`): for the reader in `evidence_adapter.rs` a frame that nobody
  could open costs no other and no id is cut; the one in `udp_evidence_verify.rs` does both,
  so what is said of datagrams is said of runs whose dumps were read to the end.
* `VerdictSound` (`evidence`): listing a capture again, or one that is not independent,
  never promotes the verdict. It is an action property: it compares the verdict
  before and after an entry is read.
* `MatrixClaims` (`evidence`): validation stops at the first rule that is broken, and
  still accepts exactly the matrices that break none; what it accepts claims nothing of
  a real client or server.

## 5. Proofs

Checked by `tlapm` for every value of the constants, in eight modules.

| theorem | statement | argument |
|---|---|---|
| `StreamFramingProofs!TypeCorrect` | `[]TypeOK` | inductive as it stands; a well-formed stream bounds its own frames (`WireShape`) |
| `!ChunkingDoesNotMatter` | `[]ChunkIndependence` | with `TypeOK`: the end of the loop depends on the bytes received alone |
| `!NothingLost` | `[]NothingLostWithoutFailure` | `out` and `delivered` together are 1, 2, ..., `next - 1`; a step appends a run of numbers (`AppendRun`) |
| `!NothingRepeated` | `[]NeverRepeatedOrReordered` | not inductive: `Rising` adds that the numbers in `delivered` and `out` grow and are below `next`, which survives a failure because `next` only rises |
| `!OkIsOnABoundary` | `[]OkEndsOnFrameBoundary` | `OkIsTheEnd`: an Ok result leaves the buffer empty and the source closed; with `ChunkingDoesNotMatter` |
| `SessionNoncesProofs!VerifiersOnlyVouch` | `MCSpec => []VerifiersVouchFor` | `FileInv`: what each report says of the file read so far (`SequenceTells`, `SessionTells`), and what two of them say of the same file (`ReportsAgree`), followed frame by frame |
| `!BytesSpellSchedule` | `MCSpec => []BytewiseScheduleAgrees` | an increment of the array spells an increment of the pair: the carry stops at the first byte that does not wrap; then by induction on the number of increments |
| `!ScheduleHolds` | `[](TypeOK /\ Schedule)` | an increment advances by one (`IncrementAdvances`) |
| `!NoncesAreFresh` | `Spec => NeverReused` | advancing is injective below `LowRange` (`AdvancedInjective`), the two directions never meet (`DirectionsApart`); each step is an `Issue` of `FreshNonces` |
| `!SourcesAlwaysJoin` | `MCSpec => []SourcesJoin` | five invariants of the pipeline, each kept by every step with the help of the first. `Shape`: the types, and what buffer and frames hold between and within calls; `RefusedStays`: refused bytes stay in front; `RestShows`: what is in front of the buffer leads with the rest of the source before; `NoncesTaken`: frames given are in the order of their nonces, below the counters; `Seamless`: as long as nothing failed, what was drained are the next frames of the stream, and the buffer is the bytes after them (`NextFrame`) |
| `SessionProofs!FramesTypeCorrect`, `!AcceptedOnceInOrder` | `FrameSpec => []FrameTypeOK`, `[]NoReplay` | `NoReplay` says nothing of the counter, so it is not inductive; `Ahead` adds that the counter has passed every accepted frame |
| `!TamperingKeepsAlignment` | `[]AlignedDespiteTampering` | `InStep`: without a gap, each encrypted frame on the wire carries the receiver's counter plus the number of encrypted frames before it, and the sender's counter is that of the end of the wire |
| `!FailuresAreCaused` | `FrameSpec => FailuresHaveACause` | from `InStep` of the state before the step: the head of the wire meets its own nonce |
| `!TypeCorrect`, `!TransitionLogIsAPath`, `!DispatcherInformed` | the three invariants of `stateful` and the types | inductive together: `TypeOK` excludes WaitingForEncryptedHandshake between calls, which the log needs for the double step of 0x79 |
| `!ImplementsHandshakeOrder` | `Spec => RepliesInOrder` | each call is a step or a stutter of `HandshakeOrder` under `Stage`; `RepliesOfState` says which replies a state allows |
| `ConnectionPoolProofs!LimitAlwaysHolds` | `[]LimitHolds` | `Placed`: the count is the number of workers served, and one more between counting and spawning; below the limit as long as the accept thread relies on having found it so. Workers only subtract |
| `!ShutdownIsFinal` | `Spec => NothingServedAfterShutdown` | after the join the accept thread has exited (`Final`), and only it spawns a worker |
| `!EventsAlwaysAttributed` | `[](TypeOK /\ EventsAttributed)` | `Numbered`: ids are given once, by one thread, before a worker logs; `Caught`: the list has no more of an id than was logged, and all when the worker leaves |
| `ExternalBoundaryProofs!LifecyclesAlwaysAgree`, `!LogAlwaysTells` | `[]LifecyclesAgree`, `[]LogTellsTheLife` | `Agrees`: frames are handled only on a connection being read, and the log is `Told`. What a step appends is followed event by event: a recovered frame opens a verdict (`Open(l, 1)`), its verdict settles it, and only a settled open log is closed (`ClosedAppend`); an error may follow (`ErrorAppend`) |
| `!TypeCorrect` | `[]TypeOK` of the boundary | with `Agrees`; the log only grows, so the collector is never ahead |
| `!PeerIsNeverBlamed` | `[]PeerNeverBlamed` | `InStep`: while a worker reads on, its counter and the encrypted frames still queued make up what the peer has sent; a chunk is dropped only with an error, after which the worker reads no more |
| `LocalSessionProofs!CompatibilityInStep` | `MCSpec => []ClientInStep` | `InStep`: the frames of a direction that are under way, from the batch in hand to the last one written, carry the numbers from the reader's counter to the writer's without a gap (`Up`, `Down`); of requests, replies and frames not handed out there is at most one during a call and none between two (`Quiet`) |
| `!KeptSessionFails` | `MCSpec => []StaleSessionFails` | `Stale`: on a connection reached with frames encrypted before, all that is on its way is numbered beyond the worker's counter, which therefore stays 0 |
| `!PeersAlwaysAgree` | `FixturesShakeHands => (MCSpec => []PeersAgree)` | `Truths`: a reply under way tells of a step the server has taken, and it takes none back; `Plan`: the steps left of a call lead from one state to another only by such a reply. Dispatcher and worker stand at the same stage until the dispatcher errs (`Together`) |
| `LocalServerProofs!SecondStartTold` | `FairSpec => []SecondStart` | `Attended`: whoever waits, waits at a port that is listened on; `Alone`: on a fixed port a listener and a living thread exclude each other; `Counted`: each counter is ahead of the ids it gave; `Idle`: a thread started late never accepts |
| `!TraceIsReliable` | `FairSpec => []TraceReliable` | `Story`: what the trace means, event by event; `Abreast`: the last event that tells a state tells the session's, but for a move that is not traced; `NoneMissing`: every message that asks has its reply, unless a write has failed, and then all but the last; `TellsEnd`: an event of an end is the last, and there only if the worker chose to end |
| `!LimitsOnlyMeetTheLarge` | `FairSpec => []LimitsMeetTheLarge` | the frames that are complete are the first ones, so that their number is the index of the last (`CompleteFirst`); `IngressInv` bounds what is buffered by what precedes the next end of a frame |
| `EvidenceProofs!MatrixClaimsOnlyWhatHolds` | `Spec => []MatrixClaims` | `IsMatrix`, that every entry has the types of the code, is all that an edit has to leave (`MatrixKept`) and all that is needed. The rules are looked at entry by entry (`EntryPasses`, `MatrixPasses`), ids are counted by a function onto them (`IdsCounted`), and the places of each evidence are apart (`CountedOnce`) |
| `!CodecSurvives` | `Spec => []CodecFaithful` | `LastTold`: what was decoded last was decoded from the bytes of a line, a frame or a record (`DecodedFromBytes`); a message of bytes encodes to them and is decoded from them again (`MessageRoundTrip`), for a 0x1A body that decodes is the encoding of its record (`DecodeThenEncode`) and the other way round (`EncodeThenDecode`). `Adds`: each line adds one to each column, and nothing to the failures |
| `!VerdictIsSound` | `Spec => VerdictSound` | `IsReports`: each report has the startup its ids begin with (`StartupBegins`), whatever part of the hint that is. The verdict is a function of the first independent report of each capture (`SameVerdict`); those have different names, and a repetition leaves them as they are (`RepeatCountsNothing`). Only fixtures whose every frame decodes become reports (`EntryRead`, `KnownFrames`), so what `pipeline_ok` asks of the framing follows and is not assumed |

What a theorem says of one part of a composed model (`MCSpec`, the local server) holds there
by its `subject` or `owner`: the variables of the others rest, and the proofs show that first.

Three proofs need induction. The library's theorems for it take an operator as a parameter, which
the provers cannot instantiate; here it is done with sets: a set of numbers that is not empty
has a least element (`LeastElement`, from the well-foundedness of < on Nat), so that there is
no first number for which the claim fails. The functions that the loops of `NonceBytes` define
recursively are shown to exist in the same way, from their unique beginnings, and so is the
one that gathers the ids of a capture (`IdsGathered`).

Assumptions are the named `ASSUME`s on constants, which TLC evaluates in the runs: a
header has a length; streams are laid end to end, and their frames have a header
(`WiresAssumption`, `StreamsAssumption`); a header fits a frame, and a frame the buffer
(`LimitsAssumption` of `MCLocalServer`); a byte has an even number of values; fewer
nonces than `LowRange`; the clients of a server are finitely many; a client's raw ids are
ids (`RawIdsAssumption`); the frames of a file are frames (`CapturedFramesAssumption`); the pairs
have the size of the byte arrays (`RangesAssumption`); a recorded session is frames with a
header and a body, end to end (`RecordedAssumption`); a fixture has steps (`FixturesAssumption`); an edit of the matrix
sets fields to values they have in the code, for serde refuses a file with others
(`RevisionsAssumption`); dumps, frames and records given to the codec are bytes, and a line
of a dump has a body with or without id and context in front (`CodecAssumption`); the frames of
a fixture have a length, and the startup hint is a sequence (`ManifestAssumption`); bounds are natural numbers. One theorem has a hypothesis of its own, `FixturesShakeHands` of
`PeersAlwaysAgree`: the last step of each fixture expects the encrypted 0x7A. It is true
of `fixtures/local_server/handshake_replay.json`, the only fixture there is, and of the
run's; it is needed because `run_fixture` ends in `SimReady` whatever the file asked for,
so a file of a single message would make the client believe in a channel it does not have.

Only model-checked:

* liveness under fairness, which is out of the prover's reach: `CollectReturns`,
  `NobodyLeftWaiting`, `WorkerEndsReported`, `NobodyWaitsForever`, `EverythingEnds`;
* the properties of `captures`, and `IntakeFaithful` and `RegionsFaithful` of `evidence`, which
  compare folds over captures, or over the packets of a file and the bytes of payloads, with what
  they count. They are statements about recursively defined values of ever new data, each of
  which would need an induction of its own over the definition.

## 6. Where code and documents differ

* **An observed message moves the state** (`observed_moves`). The comment on
  `apply_transition` calls it a no-op for `Observed`; but `transition()` answers
  `Observed { Active }` in EncryptedChannelEstablished, and the state is taken over.
* **An error that leaves the connection open** (`errors_leave_open`).
  `docs/networking/external-client-boundary.md` has every error end in
  `FrameRejected` and `ConnectionClosed`. Two paths of `handle_raw_frame`, an
  undecodable message and a refusal by the policy, log the first and return without
  closing. The harness's worker closes afterwards; a caller of `feed_bytes` has to
  do it itself.

Further differences were met while translating. They are in the models as the code
has them, where the models reach that detail, and no run is made of them:

* `local_server.rs:402`, `:610`, `:643`, `:646`: when a read, a write or an encryption fails,
  `handle_connection` returns without an event, and the threads of `start_background`
  drop the error (`:241`).
* `udp_evidence_verify.rs:143` and `:148` refuse a dump for one frame without an id or
  without a time, where `docs/networking/evidence-jsonl.md:115` and `:58` say that both
  occur, and `evidence_adapter.rs` reads on; `:144` casts the id to 16 bits, so that 65566
  is taken for 0x1E.
* `multi_capture_verify.rs:242`: the report of an opaque frame is never made. The session
  gives one only for a kind that is neither clear nor encrypted (`framing.rs:124`), and the
  decoder of `run_directed` refuses such a kind before (`stream_framing.rs:113`), which
  ends the reading of the manifest.
* `message_correlation.rs:1058`, `:1095`, `:1130`, `:828`: four tables are cut to 128 or 64
  entries, which nothing in the report says; sums over a full one fall short of the others.
* `replay_client.rs:85`: after a reconnect
  `run_encrypted_sequence` goes ahead on a connection without a handshake, where
  `replay_client.rs:221` calls it "Post-handshake encrypted A/B exchange".
  `StaleSessionFails` shows what becomes of it.
* `message_correlation.rs:582`: when a payload is at most one byte longer than the
  window, the windows at 0 and at (len - width) / 2 are one, and one pair of windows
  is counted up to four times in `matching_pairs`.
* `state_machine.rs:226` compares the position in the list with an index that the
  comment at `:212` calls a `frame_index`.
* `udp_evidence.rs:331`: a fragment of a datagram becomes a record of its own, with
  ports read out of its payload; `:323`: with a nanosecond magic, which is accepted, the
  fraction of a second is still divided by 10^6.
* `udp_analysis.rs:597`: the row "UDP during/after BAP session" has the traffic
  labelled POST_STARTUP alone.
* `payload_structure.rs:275`: an offset seen in one capture is UNKNOWN, where
  `docs/networking/payload-structure.md:111` says CAPTURE_SPECIFIC; `:331`: a region takes
  its stability within a capture from its first offset.
* `multi_capture_verify.rs:302` reports the session record as checked for every
  capture; `multi_capture.rs:338`: CaptureSpecific is also said of two out of three.
* `message_codec.rs:149` accepts a record whose ciphertext is no whole number of
  blocks, where `docs/networking/message-codec.md:80` speaks of alignment.
* `evidence_adapter.rs:93`: `adapt_line` returns an error for a failed frame without an
  id, which its comment says is skipped; the caller does skip it.
* `compatibility_matrix.rs:1212` does not count an entry whose verification alone is
  blocked; `compatibility_matrix_verify.rs:48` overwrites the fixture and then compares
  it with itself.

## 7. Not modelled, and the plan

* **Ciphers.** AES-GCM and AES-CBC with HMAC are assumed to do what they promise.
* **Observation harness** (`observation*.rs`), **SignOn evidence** (`signon*.rs`):
  documents of fields, redaction and their comparison. Nothing here interacts with the
  session; the comparison of traces and the rule on which material may be used are the
  next candidates.
* **Command line and verifiers** (`cli.rs`, `*_verify.rs`): parsing of arguments,
  reading of files and printing. Where a verifier has logic of its own
  (`gcm_sequence`, `multi_capture_verify`, `compatibility_matrix_verify`,
  `message_codec_verify`) that logic is in the module of its component.
* **Two starts at one limit.** `ServerRestart` serves connections at once, and
  `ConnectionPool` has one accept thread; that the threads of two starts share an active
  count, and could exceed the limit together, is in neither.
* **Tables of text**: most of `protocol_spec.rs`, the semantic matrix of
  `state_machine.rs`, the reports and safe exports of the analysers and the shorter lists they
  copy from the tables, except where an
  export chooses what to keep (`PayloadStructure`, `MultiCapture`).
* Within the modelled components: `reset()` of the decoder and `accept_one` of the
  listener (one blocking accept, no limit, no thread), entropy and prefixes of
  datagrams, the wording of events, and payloads of the session.
* **Client, launcher, server, web, tools**: no code.

Worth doing next: proofs about the other analysers, beginning with the alignment of two
captures; that the worker of `LocalSession` implements `StatefulSession`; and the comparison of
observation traces.
