-------------------------- MODULE CompatibilityMatrix --------------------------
(***************************************************************************)
(* The compatibility matrix: what is known, implemented and verified of    *)
(* every part of the protocol, in dimensions of their own.  The program    *)
(* has a canonical matrix; a matrix can also be read from a file that      *)
(* people edit, and compatibility-matrix-verify writes that file anew.     *)
(*                                                                         *)
(* References, reasons and claims are there or not; a scope list is a set. *)
(* Message entries have an id <<"msg", n>>, others <<name, NoMessage>>.     *)
(***************************************************************************)
EXTENDS Integers, Sequences, SequencesExt, FiniteSets

CONSTANTS
    Edited,         \* ids of the entries that are edited
    Revisions,      \* what an edit sets of an entry, as records of some fields
    Negatives,      \* entries of the negative fixture
    MaxEdits

VARIABLES
    file,           \* the matrix of the file
    edits,          \* edits since the file was written
    verdict         \* of the last verification, "none" before

vars == <<file, edits, verdict>>

NoMessage == 0
Local == {"OFFLINE_CAPTURE", "SYNTHETIC_LOCAL", "LOCAL_TCP", "EXTERNAL_BOUNDARY"}
Real == {"REAL_CLIENT", "REAL_SERVER"}

Areas == {"BAP_FRAMING", "TCP_STREAM", "SERVICE_HANDSHAKE", "SESSION_LOGIN", "SESSION_CRYPTO",
          "ENCRYPTED_HANDSHAKE", "NAT_REPORTING", "KEEPALIVE", "MESSAGE_CODEC",
          "MESSAGE_DISPATCH", "PROTOCOL_STATE", "LOCAL_SERVER", "COMPATIBILITY_CLIENT",
          "EXTERNAL_CLIENT_BOUNDARY", "OBSERVATION_HARNESS", "UDP_TRANSPORT",
          "GAMEPLAY_NETWORKING", "SIGNON", "REAL_DESTINY_CLIENT", "REAL_DESTINY_SERVER"}

EXPECTED_MESSAGE_IDS ==
    <<10, 11, 12, 13, 16, 17, 18, 19, 21, 22, 23, 24, 25, 26, 30, 31, 32, 33, 42, 43,
      121, 122, 123, 171, 250, 251, 302, 303>>

CODEC_KNOWN_IDS == {30, 31, 25, 26, 121, 122, 302, 303, 250, 251}

(* What a field of an entry can be; `proven` are the real ends an entry    *)
(* says are proven compatible.                                             *)
FieldValues ==
    [evidence |-> {"CONFIRMED", "OBSERVED", "STRUCTURAL", "HYPOTHESIS", "UNKNOWN", "BLOCKED"},
     implementation |-> {"IMPLEMENTED", "PARTIAL", "NOT_IMPLEMENTED", "BLOCKED"},
     verification |-> {"VERIFIED", "NOT_VERIFIED", "BLOCKED"},
     scopes |-> SUBSET (Local \cup Real), proven |-> SUBSET Real,
     evidence_refs |-> BOOLEAN, verification_refs |-> BOOLEAN,
     reason |-> BOOLEAN, claim |-> BOOLEAN]

(* Some of the fields, with values they can have.                          *)
IsRevision(r) ==
    DOMAIN r \subseteq DOMAIN FieldValues /\ \A f \in DOMAIN r : r[f] \in FieldValues[f]

(* entry: nothing is claimed of the real world, and no semantics.          *)
Entry(id, area, evidence, implementation, verification, scopes) ==
    [id |-> id, area |-> area, evidence |-> evidence, implementation |-> implementation,
     verification |-> verification, scopes |-> scopes,
     evidence_refs |-> evidence \in {"CONFIRMED", "OBSERVED"},
     verification_refs |-> verification = "VERIFIED",
     reason |-> implementation = "BLOCKED", claim |-> FALSE,
     proven |-> {}]

Done(name, area, scopes) ==
    Entry(<<name, NoMessage>>, area, "CONFIRMED", "IMPLEMENTED", "VERIFIED", scopes)

Capture == {"OFFLINE_CAPTURE", "SYNTHETIC_LOCAL", "LOCAL_TCP"}
Synthetic == {"SYNTHETIC_LOCAL", "LOCAL_TCP"}

(* The areas of the wire: framing, stream, and what is said in a session.  *)
WireEntries ==
    <<Done("bap_framing", "BAP_FRAMING", Capture),
      Done("tcp_stream", "TCP_STREAM", Synthetic),
      Done("service_handshake_pair", "SERVICE_HANDSHAKE", Capture),
      Done("session_login_pair", "SESSION_LOGIN", Capture),
      Done("session_crypto_context", "SESSION_CRYPTO", Capture),
      Done("encrypted_handshake_pair", "ENCRYPTED_HANDSHAKE", Capture),
      [Done("nat_reporting_pair", "NAT_REPORTING", Capture) EXCEPT !.evidence = "OBSERVED"],
      Done("keepalive_pair", "KEEPALIVE", Capture)>>

(* The layers of the program.                                              *)
LayerEntries ==
    <<Done("message_codec_layer", "MESSAGE_CODEC", {"OFFLINE_CAPTURE", "SYNTHETIC_LOCAL"}),
      Done("message_dispatch_layer", "MESSAGE_DISPATCH", Synthetic),
      Done("protocol_state_layer", "PROTOCOL_STATE", Capture),
      Done("local_server_layer", "LOCAL_SERVER", Synthetic),
      Done("compatibility_client_layer", "COMPATIBILITY_CLIENT", Synthetic),
      Done("external_boundary_layer", "EXTERNAL_CLIENT_BOUNDARY",
           Synthetic \cup {"EXTERNAL_BOUNDARY"}),
      Done("observation_harness_layer", "OBSERVATION_HARNESS",
           {"SYNTHETIC_LOCAL", "EXTERNAL_BOUNDARY"})>>

(* What is not implemented, or blocked, and SignOn, which is both analysed *)
(* and blocked.                                                            *)
OutsideEntries ==
    <<Entry(<<"udp_transport_layer", NoMessage>>, "UDP_TRANSPORT", "OBSERVED",
            "NOT_IMPLEMENTED", "VERIFIED", {"OFFLINE_CAPTURE"}),
      Entry(<<"gameplay_networking_layer", NoMessage>>, "GAMEPLAY_NETWORKING", "UNKNOWN",
            "BLOCKED", "BLOCKED", {"OFFLINE_CAPTURE"}),
      [Entry(<<"signon_layer", NoMessage>>, "SIGNON", "CONFIRMED", "PARTIAL", "VERIFIED",
             {"OFFLINE_CAPTURE", "SYNTHETIC_LOCAL"}) EXCEPT !.reason = TRUE],
      Entry(<<"signon_real_provider", NoMessage>>, "SIGNON", "BLOCKED", "BLOCKED", "BLOCKED",
            {"REAL_SERVER"}),
      Entry(<<"real_destiny_client", NoMessage>>, "REAL_DESTINY_CLIENT", "UNKNOWN", "BLOCKED",
            "NOT_VERIFIED", {"REAL_CLIENT"}),
      Entry(<<"real_destiny_server", NoMessage>>, "REAL_DESTINY_SERVER", "UNKNOWN", "BLOCKED",
            "NOT_VERIFIED", {"REAL_SERVER"})>>

(* message_capability *)
MessageCapability(n) ==
    LET of(area, evidence) == Entry(<<"msg", n>>, area, evidence, "IMPLEMENTED", "VERIFIED", Capture) IN
    CASE n \in {30, 31} -> of("SERVICE_HANDSHAKE", "CONFIRMED")
      [] n \in {25, 26} -> of("SESSION_LOGIN", "CONFIRMED")
      [] n \in {121, 122} -> of("ENCRYPTED_HANDSHAKE", "CONFIRMED")
      [] n \in {302, 303} -> of("NAT_REPORTING", "OBSERVED")
      [] n \in {250, 251} -> of("KEEPALIVE", "CONFIRMED")
      [] OTHER -> Entry(<<"msg", n>>, "MESSAGE_CODEC", "OBSERVED", "PARTIAL", "VERIFIED",
                        {"OFFLINE_CAPTURE", "SYNTHETIC_LOCAL"})

(* get_compatibility_matrix *)
Canonical ==
    WireEntries \o LayerEntries \o OutsideEntries
        \o [i \in 1..Len(EXPECTED_MESSAGE_IDS) |-> MessageCapability(EXPECTED_MESSAGE_IDS[i])]

-----------------------------------------------------------------------------

VerifiedIn(e, scope) == e.verification = "VERIFIED" /\ scope \in e.scopes

(* validate_entry: the first rule that is broken.                          *)
ValidateEntry(e) ==
    IF "BLOCKED" \in {e.evidence, e.implementation, e.verification} /\ ~e.reason
        THEN "BlockedWithoutReason"
    ELSE IF e.evidence = "CONFIRMED" /\ ~e.evidence_refs THEN "ConfirmedWithoutEvidence"
    ELSE IF e.verification = "VERIFIED" /\ ~e.verification_refs THEN "VerifiedWithoutEvidence"
    ELSE IF e.evidence = "UNKNOWN" /\ e.claim THEN "UnknownWithSemantics"
    ELSE IF e.proven # {} THEN "RealWorldProven"
    ELSE IF VerifiedIn(e, "REAL_CLIENT") THEN "VerifiedRealClient"
    ELSE IF VerifiedIn(e, "REAL_SERVER") THEN "VerifiedRealServer"
    ELSE IF e.evidence = "HYPOTHESIS" /\ e.verification = "VERIFIED" /\ e.claim
        THEN "IncompatibleStatuses"
    ELSE IF e.scopes = {} THEN "ImpossibleScope"
    ELSE "ok"

Repeats(m, i) == \E j \in 1..i - 1 : m[j].id = m[i].id

(* validate_matrix: entries in order, each first for a repeated id, then   *)
(* the areas and the message ids that must be there.                       *)
ValidateMatrix(m) ==
    LET bad == {i \in 1..Len(m) : Repeats(m, i) \/ ValidateEntry(m[i]) # "ok"} IN
    IF bad # {} THEN
        LET first == CHOOSE i \in bad : \A j \in bad : i <= j IN
        IF Repeats(m, first) THEN "DuplicateId" ELSE ValidateEntry(m[first])
    ELSE IF Areas \ {m[i].area : i \in 1..Len(m)} # {} THEN "MissingArea"
    ELSE IF \E n \in Range(EXPECTED_MESSAGE_IDS) : \A i \in 1..Len(m) : m[i].id # <<"msg", n>>
        THEN "MissingMessageId"
    ELSE "ok"

(* Mutant of Metrics: the evidence dimension is not exempt.                *)
Metrics_BlockedTwice(m) ==
    LET count(P(_)) == Cardinality({i \in 1..Len(m) : P(m[i])}) IN
    [entries |-> Len(m),
     evidence |-> [s \in {"CONFIRMED", "OBSERVED", "STRUCTURAL", "HYPOTHESIS", "UNKNOWN"} |->
                    count(LAMBDA e : e.evidence = s)],
     blocked |-> count(LAMBDA e : e.evidence = "BLOCKED")
                 + count(LAMBDA e : e.implementation = "BLOCKED"),
     verified |-> count(LAMBDA e : e.verification = "VERIFIED"),
     offline_verified |-> count(LAMBDA e : e.verification = "VERIFIED" /\ e.scopes \cap Local # {}),
     real_verified |-> count(LAMBDA e : e.verification = "VERIFIED" /\ e.scopes \cap e.proven # {})]

(* compute_metrics: blocked is counted by the evidence, and for the others *)
(* by the implementation.                                                  *)
Metrics(m) ==
    LET count(P(_)) == Cardinality({i \in 1..Len(m) : P(m[i])}) IN
    [entries |-> Len(m),
     evidence |-> [s \in {"CONFIRMED", "OBSERVED", "STRUCTURAL", "HYPOTHESIS", "UNKNOWN"} |->
                    count(LAMBDA e : e.evidence = s)],
     blocked |-> count(LAMBDA e : e.evidence = "BLOCKED")
                 + count(LAMBDA e : e.implementation = "BLOCKED" /\ e.evidence # "BLOCKED"),
     verified |-> count(LAMBDA e : e.verification = "VERIFIED"),
     offline_verified |-> count(LAMBDA e : e.verification = "VERIFIED" /\ e.scopes \cap Local # {}),
     real_verified |-> count(LAMBDA e : e.verification = "VERIFIED" /\ e.scopes \cap e.proven # {})]

-----------------------------------------------------------------------------

Init == file = Canonical /\ edits = 0 /\ verdict = "none"

Edit(new) ==
    /\ edits < MaxEdits /\ edits' = edits + 1
    /\ file' = new
    /\ UNCHANGED verdict

(* People revise an entry of the file, copy it or remove it.               *)
Revise(i, r) ==
    Edit([file EXCEPT ![i] = [f \in DOMAIN file[i] |->
                                 IF f \in DOMAIN r THEN r[f] ELSE file[i][f]]])
Copy(i) == Edit(Append(file, file[i]))
Drop(i) == Edit(RemoveAt(file, i))

(* run_verify_from_dir: the canonical matrix is validated and written to   *)
(* the file, which is then read and compared with it.                      *)
Verify ==
    /\ \/ /\ ValidateMatrix(Canonical) # "ok"
          /\ verdict' = "invalid"
          /\ UNCHANGED <<file, edits>>
       \/ /\ ValidateMatrix(Canonical) = "ok"
          /\ file' = Canonical /\ edits' = 0
          /\ verdict' = IF /\ \A e \in Negatives : ValidateEntry(e) # "ok"
                           /\ Metrics(Canonical).real_verified = 0
                        THEN "VERIFIED" ELSE "failed"

Next ==
    \/ \E i \in 1..Len(file) :
        /\ file[i].id \in Edited
        /\ \/ \E r \in Revisions : Revise(i, r)
           \/ Copy(i) \/ Drop(i)
    \/ Verify

Spec == Init /\ [][Next]_vars

-----------------------------------------------------------------------------

Valid == ValidateMatrix(file) = "ok"

(* What the documentation rules out of a matrix: a claim without what      *)
(* backs it, a real world verified, an id said twice.                      *)
Backed(e) ==
    /\ e.evidence = "CONFIRMED" => e.evidence_refs
    /\ e.verification = "VERIFIED" => e.verification_refs
    /\ "BLOCKED" \in {e.evidence, e.implementation, e.verification} => e.reason
    /\ e.evidence = "UNKNOWN" => ~e.claim
    /\ e.claim => e.evidence # "HYPOTHESIS" \/ e.verification # "VERIFIED"
    /\ e.proven = {}

(* A matrix passes exactly if every rule holds of every entry, whatever    *)
(* the rule that is looked at first, and nothing is missing or repeated.   *)
RulesDecide ==
    Valid <=>
        /\ \A i \in 1..Len(file) :
            /\ Backed(file[i]) /\ file[i].scopes # {}
            /\ file[i].verification = "VERIFIED" => file[i].scopes \subseteq Local
        /\ Cardinality({file[i].id : i \in 1..Len(file)}) = Len(file)
        /\ \A a \in Areas : \E i \in 1..Len(file) : file[i].area = a
        /\ {<<"msg", n>> : n \in Range(EXPECTED_MESSAGE_IDS)}
                \subseteq {file[i].id : i \in 1..Len(file)}

(* The numbers of a valid matrix claim nothing of the real world: what is  *)
(* verified is verified offline, all of it.                                *)
NumbersClaimNothingReal ==
    Valid => /\ Metrics(file).real_verified = 0
             /\ Metrics(file).offline_verified = Metrics(file).verified

(* Every entry is counted once by its evidence or as blocked, and blocked  *)
(* are never more than the entries with anything blocked.                  *)
MetricsAddUp ==
    LET m == Metrics(file)
        evidence == m.evidence["CONFIRMED"] + m.evidence["OBSERVED"] + m.evidence["STRUCTURAL"]
                        + m.evidence["HYPOTHESIS"] + m.evidence["UNKNOWN"]
        blocked(e) == "BLOCKED" \in {e.evidence, e.implementation, e.verification} IN
    /\ evidence <= m.entries /\ m.entries <= evidence + m.blocked
    /\ m.blocked <= Cardinality({i \in 1..Len(file) : blocked(file[i])})

(* The matrix calls a message implemented exactly if the codec has a       *)
(* variant of its own for it.                                              *)
ImplementedHasCodec ==
    \A i \in 1..Len(file) :
        file[i].id[1] = "msg" /\ file[i] \in Range(Canonical) =>
            (file[i].implementation = "IMPLEMENTED" <=> file[i].id[2] \in CODEC_KNOWN_IDS)
=============================================================================
