---------------------------- MODULE UdpEvidence ----------------------------
(***************************************************************************)
(* The offline analysis of UDP: the datagrams of a capture file are read   *)
(* out of its packets (parse_classic_pcap_udp), grouped into flows by      *)
(* their ports and set against the time line of the messages of the same   *)
(* session (analyze_capture); two captures are compared.  The state is     *)
(* what was read of the capture files and of the dumps of the session; the *)
(* analysis is a function of it, and there is none if a dump was refused.  *)
(*                                                                         *)
(* Times are in hundredths of a second.  A flow is named by its ports: its *)
(* number in flow_id follows from them.                                    *)
(***************************************************************************)
EXTENDS Integers, Sequences, SequencesExt, FiniteSets, FiniteSetsExt

CONSTANTS
    Packets,        \* packets that occur, by capture
    Lines,          \* lines of a dump that occur, by capture: [kind, id, at]
    MaxPackets,     \* bounds on the packets and messages, by capture
    MaxEvents,
    Magics          \* kinds of capture file: "usec", "nsec"

Captures == {"A", "B"}
Second == 100
None == -1

VARIABLES magic, packets, events, load_error
vars == <<magic, packets, events, load_error>>

(* A packet is a whole datagram ("udp"), a later part of one ("fragment",  *)
(* whose bytes at the place of the ports, length and payload are given),   *)
(* or something else ("other"); the file may end before the packet does.   *)
Init ==
    /\ magic \in [Captures -> Magics]
    /\ packets = [c \in Captures |-> <<>>]
    /\ events = [c \in Captures |-> <<>>]
    /\ load_error = "none"

Unread(files, c) == files[c] = <<>>

(* The capture files are read after the dumps, and A is read before B.     *)
Capture(c, p) ==
    /\ load_error = "none"
    /\ c = "A" => Unread(packets, "B")
    /\ Len(packets[c]) < MaxPackets[c]
    /\ \A p0 \in ToSet(packets[c]) : p0.whole
    /\ packets' = [packets EXCEPT ![c] = Append(@, p)]
    /\ UNCHANGED <<magic, events, load_error>>

(* What load_bap_timeline returns the error for, if any; "skipped" for a   *)
(* line that is passed over.                                               *)
LineError(line) ==
    CASE line.kind = "broken" -> "Json"
      [] line.kind \notin {"broken", "bap_frame"} -> "skipped"
      [] line.kind = "bap_frame" /\ line.id = None -> "missing id"
      [] line.kind = "bap_frame" /\ line.id # None /\ line.at = None -> "missing frame_ts"
      [] OTHER -> "none"

(* load_bap_timeline keeps the order of the lines and the lower sixteen    *)
(* bits of an id; the first error ends the whole run.                      *)
ReadLine(c, line) ==
    /\ load_error = "none"
    /\ \A d \in Captures : Unread(packets, d)
    /\ c = "A" => Unread(events, "B")
    /\ Len(events[c]) < MaxEvents[c]
    /\ \/ /\ LineError(line) = "none"
          /\ events' = [events EXCEPT ![c] = Append(@, [id |-> line.id % 65536, at |-> line.at])]
          /\ UNCHANGED load_error
       \/ /\ LineError(line) = "skipped"
          /\ UNCHANGED <<events, load_error>>
       \/ /\ LineError(line) \notin {"none", "skipped"}
          /\ load_error' = LineError(line)
          /\ UNCHANGED events
    /\ UNCHANGED <<magic, packets>>

Next ==
    \E c \in Captures : (\E p \in Packets[c] : Capture(c, p)) \/ (\E l \in Lines[c] : ReadLine(c, l))

Spec == Init /\ [][Next]_vars

-----------------------------------------------------------------------------
(* parse_classic_pcap_udp                                                  *)

(* The packet's time as it is read: the fraction counts as microseconds    *)
(* also where the file holds nanoseconds.                                  *)
Timestamp(c, p) ==
    LET fraction == (p.at % Second) * (IF magic[c] = "nsec" THEN 1000 ELSE 1)
    IN  (p.at \div Second) * Second + fraction

(* extract_udp_from_ethernet: the protocol says UDP; the fragment offset   *)
(* is not looked at.                                                       *)
IsUdp(p) == p.kind \in {"udp", "fragment"}

Records(c) ==
    LET whole == SelectSeq(packets[c], LAMBDA p : p.whole)
        udp == SelectSeq([i \in 1..Len(whole) |-> i], LAMBDA i : IsUdp(whole[i]))
    IN  [k \in 1..Len(udp) |->
            LET p == whole[udp[k]]
            IN  [packet_index |-> udp[k], at |-> Timestamp(c, p), sport |-> p.sport,
                 dport |-> p.dport, payload |-> p.payload]]

-----------------------------------------------------------------------------
(* analyze_capture: flows                                                  *)

(* port_pair_key *)
PortPair(r) == <<Min({r.sport, r.dport}), Max({r.sport, r.dport})>>

Pairs(c) == {PortPair(r) : r \in ToSet(Records(c))}

Of(c, pair) == SelectSeq(Records(c), LAMBDA r : PortPair(r) = pair)

Times(recs) == {r.at : r \in ToSet(recs)}
Bytes(recs) == FoldSeq(LAMBDA r, n : Len(r.payload) + n, 0, recs)

(* Mutant of Startup: the startup ends with its last message in the file.  *)
Startup_LastRead(c) ==
    LET ids == {30, 31, 25, 26, 121, 122}
        of == SelectSeq(events[c], LAMBDA e : e.id \in ids)
        first == SelectSeq(events[c], LAMBDA e : e.id = 30)
    IN  IF first = <<>> THEN [start |-> None, end |-> None]
        ELSE [start |-> first[1].at, end |-> Last(of).at]

(* relate_to_session: the session starts with the first 0x1E in the file,  *)
(* the startup ends with the latest of its six messages.                   *)
Startup(c) ==
    LET ids == {30, 31, 25, 26, 121, 122}
        of == SelectSeq(events[c], LAMBDA e : e.id \in ids)
        first == SelectSeq(events[c], LAMBDA e : e.id = 30)
    IN  IF first = <<>> THEN [start |-> None, end |-> None]
        ELSE [start |-> first[1].at, end |-> Max({e.at : e \in ToSet(of)})]

SessionRelation(c, pair) ==
    LET times == Times(Of(c, pair))
    IN  IF Startup(c).start = None THEN "UNKNOWN"
        ELSE IF Max(times) < Startup(c).start THEN "BEFORE_SESSION"
        ELSE IF Min(times) <= Startup(c).end THEN "DURING_STARTUP"
        ELSE "POST_STARTUP"

(* analyze_flows *)
Flow(c, pair) ==
    LET recs == Of(c, pair)
    IN  [first |-> Min(Times(recs)), last |-> Max(Times(recs)), packets |-> Len(recs),
         bytes |-> Bytes(recs), relation |-> SessionRelation(c, pair)]

(* build_inventory *)
Inventory(c) ==
    LET recs == Records(c)
    IN  [udp_flows |-> Cardinality(Pairs(c)), udp_packets |-> Len(recs), udp_bytes |-> Bytes(recs),
         ports |-> {r.sport : r \in ToSet(recs)} \cup {r.dport : r \in ToSet(recs)},
         timing_range |-> IF recs = <<>> THEN <<>> ELSE <<Min(Times(recs)), Max(Times(recs))>>,
         udp_observed |-> recs # <<>>]

(* transport_observations: <<state_label, udp_observed>>                   *)
TransportObservations(c) ==
    {<<l, TRUE>> : l \in {Flow(c, q).relation : q \in Pairs(c)} \cap {"POST_STARTUP", "BEFORE_SESSION"}}
      \cup (IF Records(c) = <<>> THEN {<<"CAPTURE", FALSE>>} ELSE {})

-----------------------------------------------------------------------------
(* analyze_capture: lengths, timing, counters and the messages nearby      *)

Lengths(recs) ==
    LET ls == {Len(r.payload) : r \in ToSet(recs)}
    IN  IF recs = <<>> THEN "UDP_NOT_OBSERVED_IN_CAPTURE"
        ELSE IF Cardinality(ls) = 1 THEN "fixed-size"
        ELSE IF Max(ls) - Min(ls) <= 16 THEN "small_variation" ELSE "high_variation"

InterPacketDeltas(recs) ==
    LET ts == SortSeq([i \in 1..Len(recs) |-> recs[i].at], <)
    IN  [i \in 1..(Len(ts) - 1) |-> ts[i + 1] - ts[i]]

(* analyze_timing: best_burst and the pattern.                             *)
Timing(recs) ==
    LET deltas == InterPacketDeltas(recs)
        burst[i \in 0..Len(deltas)] == IF i > 0 /\ deltas[i] < 5 THEN burst[i - 1] + 1 ELSE 1
        best == Max({burst[i] : i \in 0..Len(deltas)})
        sum == FoldSeq(+, 0, deltas)
    IN  [burst_size |-> best,
         pattern |-> IF deltas = <<>> THEN "UNKNOWN"
                     ELSE IF best >= 3 THEN "BURST"
                     ELSE IF sum > Second * Len(deltas) THEN "IDLE"
                     ELSE "IRREGULAR"]

BigEndian(bytes) == FoldLeft(LAMBDA n, b : n * 256 + b, 0, bytes)

Places == {[offset |-> 0, width |-> 2], [offset |-> 2, width |-> 2], [offset |-> 0, width |-> 4]}

(* detect_sequence_candidates, in the order of the capture.                *)
SequenceCandidates(recs) ==
    {k \in {[place |-> p, values |-> [i \in 1..Len(recs) |->
                 BigEndian(SubSeq(recs[i].payload, p.offset + 1, p.offset + p.width))]] :
              p \in {q \in Places : /\ Len(recs) >= 3
                                    /\ \A r \in ToSet(recs) : Len(r.payload) >= q.offset + q.width}} :
        /\ \A i \in 1..(Len(recs) - 1) : k.values[i + 1] >= k.values[i]
        /\ \E i \in 1..(Len(recs) - 1) : k.values[i + 1] = k.values[i] + 1}

Watched == {302, 303, 301, 10, 11, 12, 13, 250, 251}
Distance(r, e) == IF r.at >= e.at THEN r.at - e.at ELSE e.at - r.at

(* correlate_with_bap: the first of the nearest packets.                   *)
Nearest(recs, e) ==
    recs[Min({i \in 1..Len(recs) : \A r \in ToSet(recs) : Distance(recs[i], e) <= Distance(r, e)})]

(* One record for each watched message, in the order of the ids watched;   *)
(* the records of the flows repeat their relation.                         *)
Correlation(c, e) ==
    IF Records(c) = <<>>
      THEN [id |-> e.id, flow |-> <<>>, delta |-> None, class |-> "UDP_NOT_OBSERVED_IN_CAPTURE"]
      ELSE LET r == Nearest(Records(c), e)
           IN  [id |-> e.id, flow |-> PortPair(r), delta |-> Distance(r, e),
                class |-> IF Distance(r, e) <= Second \div 2 THEN "TEMPORAL_CORRELATION_CANDIDATE"
                          ELSE "UNKNOWN"]

Correlations(c) ==
    LET of == SelectSeq(events[c], LAMBDA e : e.id \in Watched)
    IN  [i \in 1..Len(of) |-> Correlation(c, of[i])]

-----------------------------------------------------------------------------
(* cross_capture_compare                                                   *)

Post(c) == <<"POST_STARTUP", TRUE>> \in TransportObservations(c)

Property(name, a, b, equal, different) ==
    [name |-> name, a |-> a, b |-> b, stability |-> IF a = b THEN equal ELSE different]

CrossProperties ==
    LET has(c, port) == port \in Inventory(c).ports
    IN  {Property("UDP observed", Inventory("A").udp_observed, Inventory("B").udp_observed,
                  "stable", "divergent"),
         Property("UDP port 3074", has("A", 3074), has("B", 3074),
                  IF has("A", 3074) THEN "stable" ELSE "unknown", "capture-specific"),
         Property("UDP DNS (53)", has("A", 53), has("B", 53),
                  IF has("A", 53) THEN "stable" ELSE "divergent", "divergent"),
         Property("UDP during/after BAP session", Post("A"), Post("B"), "stable", "divergent")}

-----------------------------------------------------------------------------

(* Every datagram is in one flow, the one of its two ports whichever way   *)
(* it went: the flows add up to the inventory, and their times span it.    *)
FlowsPartition ==
    \A c \in Captures :
        /\ MapThenSumSet(LAMBDA q : Flow(c, q).packets, Pairs(c)) = Inventory(c).udp_packets
        /\ MapThenSumSet(LAMBDA q : Flow(c, q).bytes, Pairs(c)) = Inventory(c).udp_bytes
        /\ Inventory(c).udp_observed =>
              Inventory(c).timing_range = <<Min({Flow(c, q).first : q \in Pairs(c)}),
                                            Max({Flow(c, q).last : q \in Pairs(c)})>>
        /\ \A r, s \in ToSet(Records(c)) :
              {r.sport, r.dport} = {s.sport, s.dport} <=> PortPair(r) = PortPair(s)

(* Where a flow is said to be wholly before the session or after the       *)
(* startup, none of its datagrams is elsewhere, in whatever order the      *)
(* messages were read; only a flow that does both or neither is "during".  *)
RelationHolds ==
    \A c \in Captures : \A q \in Pairs(c) : Startup(c).start # None =>
        LET starts == {events[c][i].at : i \in {j \in 1..Len(events[c]) : events[c][j].id = 30}}
            startup == {e.at : e \in {f \in ToSet(events[c]) : f.id \in {30, 31, 25, 26, 121, 122}}}
            relation == Flow(c, q).relation
        IN  /\ relation = "POST_STARTUP" <=>
                  \A t \in Times(Of(c, q)) : \A s \in startup : t > s
            /\ relation = "BEFORE_SESSION" => \A t \in Times(Of(c, q)) : \E s \in starts : t < s

(* What the comparison of the captures says of the game's port is so of    *)
(* their datagrams: stable if each has one from or to it, unknown if none  *)
(* has.                                                                    *)
ComparisonHolds ==
    LET uses(c) == \E r \in ToSet(Records(c)) : 3074 \in {r.sport, r.dport}
    IN  \A p \in CrossProperties : p.name = "UDP port 3074" =>
          /\ p.stability = "stable" <=> \A c \in Captures : uses(c)
          /\ p.stability = "unknown" <=> \A c \in Captures : ~uses(c)

(* A burst is three datagrams of which each follows the one before within  *)
(* a twentieth of a second, however the capture orders them.               *)
BurstsFound ==
    \A c \in Captures : \A q \in Pairs(c) :
        LET recs == Of(c, q)
            follows(i, j) == i # j /\ recs[j].at \in recs[i].at..(recs[i].at + 4)
        IN  (\E i, j, k \in 1..Len(recs) : i # k /\ follows(i, j) /\ follows(j, k))
              <=> Timing(recs).pattern = "BURST"

(* A counter that each datagram of a flow raises by one is found, and what *)
(* is taken for a counter never falls from one datagram to a later one.    *)
CountersFound ==
    \A c \in Captures : \A q \in Pairs(c) :
        LET recs == Of(c, q)
            at(i) == BigEndian(SubSeq(recs[i].payload, 1, 2))
        IN  /\ (/\ Len(recs) >= 3
                /\ \A i \in 1..Len(recs) : Len(recs[i].payload) >= 2
                /\ \A i \in 2..Len(recs) : at(i) = at(i - 1) + 1)
                  => \E k \in SequenceCandidates(recs) : k.place = [offset |-> 0, width |-> 2]
            /\ \A k \in SequenceCandidates(recs) : \A i, j \in 1..Len(recs) :
                  i < j => k.values[i] <= k.values[j]

(* A watched message is set against a datagram, and its flow, than which   *)
(* none is nearer, before or after; a candidate is within half a second.   *)
NearestFound ==
    \A c \in Captures : \A k \in ToSet(Correlations(c)) :
        \/ k.flow = <<>> /\ Pairs(c) = {}
        \/ \E e \in ToSet(events[c]) :
              /\ e.id = k.id
              /\ k.delta \in {Distance(r, e) : r \in ToSet(Of(c, k.flow))}
              /\ \A r \in ToSet(Records(c)) : k.delta <= Distance(r, e)
              /\ k.class = "TEMPORAL_CORRELATION_CANDIDATE" <=>
                    \E r \in ToSet(Of(c, k.flow)) : Distance(r, e) <= 50
=============================================================================
