------------------------- MODULE MessageCorrelation -------------------------
(***************************************************************************)
(* The correlation analysis of two captures (analyze_two_captures): what   *)
(* follows what, in which directions and contexts, how often, at which     *)
(* intervals, and in how many captures.  The captures grow as in           *)
(* MessageInventory; the analysis is a function of what they hold.         *)
(*                                                                         *)
(* A capture is known by its capture_id, which a fixture may leave out:    *)
(* then both are called "unknown" and count as one (same_ids).             *)
(* Intervals are whole numbers; `median2` is twice a median.               *)
(***************************************************************************)
EXTENDS MessageInventory

CONSTANTS
    MaySameIds,             \* may both captures have the same capture_id?
    MaxTransitions,         \* context transitions listed: 128 in the code
    MaxRepeats,             \* repeats listed: 64
    MaxVariations,          \* variations listed: 64
    MaxValues               \* equal values listed: 64
ASSUME MaySameIdsAssumption == MaySameIds \subseteq BOOLEAN
ASSUME ListsAssumption == {MaxTransitions, MaxRepeats, MaxVariations, MaxValues} \subseteq Nat \ {0}

VARIABLES same_ids

corrVars == <<vars, same_ids>>

CaptureId(c) == IF same_ids THEN "unknown" ELSE c

InitCorr == Init /\ same_ids \in MaySameIds
NextCorr == Next /\ UNCHANGED same_ids

Window(c, i, n) == [capture |-> c, at |-> i, obs |-> SubSeq(OrderedObservations(c), i, i + n - 1)]

(* windows(n) of each capture's sequence: n consecutive observations.      *)
Windows(n) ==
    UNION {{Window(c, i, n) : i \in 1..Len(OrderedObservations(c)) - n + 1} : c \in Captures}

Seen(ws) == {CaptureId(w.capture) : w \in ws}

Keyed(ws, key(_)) == [k \in {key(w) : w \in ws} |-> {w \in ws : key(w) = k}]

(* The order of tuples of numbers, as of the keys of the maps.             *)
Precedes(s, t) == \E i \in DOMAIN s : s[i] < t[i] /\ \A j \in 1..i - 1 : s[j] = t[j]

(* sort_by and truncate: what comes among the first of a table.            *)
Listed(table, limit, key(_)) ==
    {x \in table : Cardinality({y \in table : Precedes(key(y), key(x))}) < limit}

(* build_sequence: how often the direction, or the context, changes.       *)
Changes(c, value(_)) ==
    LET s == OrderedObservations(c)
    IN  Cardinality({i \in 1..Len(s) - 1 : value(s[i]) # value(s[i + 1])})

-----------------------------------------------------------------------------
(* N-grams and stable sequences                                            *)

Grams == UNION {{IdsOf(w.obs) : w \in Windows(n)} : n \in 1..4}

Occurrences(g) == {w \in Windows(Len(g)) : IdsOf(w.obs) = g}

Stability(g) ==
    CASE Cardinality(Seen(Occurrences(g))) = 2 /\ Len(g) >= 2 -> "STABLE_SEQUENCE"
      [] Cardinality(Seen(Occurrences(g))) = 2 /\ Len(g) < 2 -> "PARTIALLY_STABLE"
      [] OTHER -> "CAPTURE_SPECIFIC"

(* count_subsequence *)
CountSubsequence(hay, needle) ==
    Cardinality({i \in 1..Len(hay) - Len(needle) + 1 :
                    SubSeq(hay, i, i + Len(needle) - 1) = needle})

StableSequences ==
    {[ids |-> g,
      a |-> CountSubsequence(IdsOf(OrderedObservations("A")), g),
      b |-> CountSubsequence(IdsOf(OrderedObservations("B")), g)] :
        g \in {g \in Grams : Stability(g) = "STABLE_SEQUENCE"}}

-----------------------------------------------------------------------------
(* Intervals                                                               *)

(* delta_between: none if an order is missing or goes backwards.           *)
Deltas(s) ==
    LET ok == SelectSeq([i \in 1..Len(s) |-> i], LAMBDA i :
                /\ i < Len(s) /\ s[i].order # None /\ s[i + 1].order # None
                /\ s[i + 1].order >= s[i].order)
    IN  [k \in 1..Len(ok) |-> s[ok[k] + 1].order - s[ok[k]].order]

(* timing_stats, of which only the median is used further on.              *)
Median2(values) ==
    LET s == SortSeq(values, <)
        n == Len(values)
    IN  IF n % 2 = 1 THEN 2 * s[n \div 2 + 1] ELSE s[n \div 2] + s[n \div 2 + 1]

-----------------------------------------------------------------------------
(* Transitions between consecutive messages                                *)

Ids(w) == <<w.obs[1].id, w.obs[2].id>>
Dirs(w) == <<w.obs[1].dir, w.obs[2].dir>>

DirectionTransitions ==
    LET by == Keyed(Windows(2), LAMBDA w : <<Ids(w), Dirs(w)>>)
    IN  {[ids |-> k[1], dirs |-> k[2], count |-> Cardinality(by[k]), captures |-> Seen(by[k])] :
            k \in DOMAIN by}

Rank(dir) == IF dir = "S2C" THEN 1 ELSE 0
DirRank(d) == 2 * Rank(d[1]) + Rank(d[2])

(* max_by_key: the most frequent directions, the last of the map if tied.  *)
Majority(ws) ==
    LET by == Keyed(ws, Dirs)
    IN  CHOOSE d \in DOMAIN by : \A e \in DOMAIN by :
            \/ Cardinality(by[e]) < Cardinality(by[d])
            \/ Cardinality(by[e]) = Cardinality(by[d]) /\ DirRank(e) <= DirRank(d)

EdgeIn(c, ids) == {w \in Windows(2) : Ids(w) = ids /\ w.capture = c}

(* The edge's captures_seen names capture c.                               *)
NamedIn(c, ids) == CaptureId(c) \in Seen(EdgeIn("A", ids) \cup EdgeIn("B", ids))

(* classify_edge.  Of captures with one id, each is taken to have every    *)
(* edge, and one that does not have it agrees with anything.               *)
EdgeClass(ids) ==
    IF \E c \in Captures : ~NamedIn(c, ids) THEN "CAPTURE_SPECIFIC_EDGE"
    ELSE IF /\ \A c \in Captures : EdgeIn(c, ids) # {}
            /\ Majority(EdgeIn("A", ids)) # Majority(EdgeIn("B", ids))
         THEN "DIVERGENT_EDGE" ELSE "STABLE_EDGE"

(* The median interval of an edge, both captures together.                 *)
EdgeMedian2(ws) ==
    LET s == Sorted(ws, LAMBDA v, w : \/ v.capture = "A" /\ w.capture = "B"
                                      \/ v.capture = w.capture /\ v.at < w.at)
        deltas == FlattenSeq([i \in 1..Len(s) |-> Deltas(s[i].obs)])
    IN  IF deltas = <<>> THEN None ELSE Median2(deltas)

Edges ==
    LET by == Keyed(Windows(2), Ids)
    IN  [k \in DOMAIN by |->
           [count |-> Cardinality(by[k]), captures |-> Seen(by[k]),
            dirs |-> Majority(by[k]), median2 |-> EdgeMedian2(by[k]), class |-> EdgeClass(k)]]

-----------------------------------------------------------------------------
(* Request and response candidates                                         *)

(* direction_transitions as a list: by count, then in the map's order.     *)
TransitionList ==
    LET key(t) == <<-t.count, t.ids[1], t.ids[2], DirRank(t.dirs)>>
    IN  Sorted(DirectionTransitions, LAMBDA t, u : Precedes(key(t), key(u)))

SameContext(ids) == \E w \in Windows(2) : Ids(w) = ids /\ w.obs[1].ctx = w.obs[2].ctx

LengthConsistent(c, id) ==
    Cardinality({Len(o.payload) : o \in {o \in ToSet(OrderedObservations(c)) : o.id = id}}) <= 1

Signals(t) ==
    {s \in {"opposite_direction", "consecutive_ids", "stable_across_captures", "repeated",
            "compatible_context", "consistent_lengths", "stable_edge"} :
        CASE s = "opposite_direction" -> t.dirs[1] # t.dirs[2]
          [] s = "consecutive_ids" -> t.ids[1] - t.ids[2] \in {1, -1}
          [] s = "stable_across_captures" -> Cardinality(t.captures) = 2
          [] s = "repeated" -> t.count >= 2
          [] s = "compatible_context" -> SameContext(t.ids)
          [] s = "consistent_lengths" -> \A c \in Captures : LengthConsistent(c, t.ids[2])
          [] s = "stable_edge" -> EdgeClass(t.ids) = "STABLE_EDGE"}

Supported(t) == "opposite_direction" \in Signals(t) /\ Cardinality(Signals(t)) >= 3

(* Mutant of Candidates: dedup_by drops the first of two alike.            *)
Candidates_KeepLast ==
    LET s == SelectSeq(TransitionList, Supported)
    IN  {s[i] : i \in {i \in 1..Len(s) : i = Len(s) \/ s[i].ids # s[i + 1].ids}}

(* build_rr_candidates; dedup_by compares neighbours only, so that the two *)
(* directions of a pair of ids are merged only if nothing sorts between.   *)
Candidates ==
    LET s == SelectSeq(TransitionList, Supported)
    IN  {s[i] : i \in {i \in 1..Len(s) : i = 1 \/ s[i].ids # s[i - 1].ids}}

-----------------------------------------------------------------------------
(* Contexts and fingerprints                                               *)

Sightings == Windows(1)

(* build_context_correlations *)
ContextBuckets ==
    LET by == Keyed(Sightings, LAMBDA w : <<w.obs[1].id, w.obs[1].ctx>>)
    IN  [k \in DOMAIN by |-> [count |-> Cardinality(by[k]), captures |-> Seen(by[k])]]

ChangesContext(w) == w.obs[1].ctx # w.obs[2].ctx
ContextStep(w) == <<w.obs[1].ctx, w.obs[2].id, w.obs[2].ctx>>

(* build_context_transitions: the most frequent ones.                      *)
ContextTransitions ==
    LET by == Keyed({w \in Windows(2) : ChangesContext(w)}, ContextStep)
    IN  Listed({[step |-> k, count |-> Cardinality(by[k])] : k \in DOMAIN by},
               MaxTransitions, LAMBDA t : <<-t.count>> \o t.step)

Facet(w) == <<w.obs[1].id, w.obs[1].dir, w.obs[1].ctx>>
FacetKey(facet) == <<facet[1], Rank(facet[2]), facet[3]>>

(* A number for a payload.  Repeats tie in the order of their hashes: that *)
(* of these numbers stands for it, any order of the payloads would do.     *)
Fingerprint(payload) == FoldLeft(LAMBDA n, b : 256 * n + b, 1, payload)

(* build_fingerprint_facts: the most frequent repeats, and of the facets   *)
(* seen with several payloads those seen with most.                        *)
FingerprintRepeats ==
    LET by == Keyed(Sightings, LAMBDA w : <<Facet(w), w.obs[1].payload>>)
    IN  Listed({[facet |-> k[1], payload |-> k[2], count |-> Cardinality(by[k])] :
                   k \in {k \in DOMAIN by : Cardinality(by[k]) >= 2}},
               MaxRepeats,
               LAMBDA r : <<-r.count>> \o FacetKey(r.facet) \o <<Fingerprint(r.payload)>>)

PayloadVariations ==
    LET by == Keyed(Sightings, Facet)
        payloads(k) == {w.obs[1].payload : w \in by[k]}
    IN  Listed({[facet |-> k, distinct |-> Cardinality(payloads(k))] :
                   k \in {k \in DOMAIN by : Cardinality(payloads(k)) > 1}},
               MaxVariations, LAMBDA v : <<-v.distinct>> \o FacetKey(v.facet))

-----------------------------------------------------------------------------
(* Equal values in consecutive messages                                    *)

Starts(payload, width) == <<0, (Len(payload) - width) \div 2>>

Slice(payload, offset, width) == SubSeq(payload, offset + 1, offset + width)

(* Hits of one pair of messages; a payload of the very width, or one byte  *)
(* longer, has the same start twice, and is compared with it twice.        *)
WindowHits(x, y, from, to, width) ==
    IF width > Min({4, Len(x), Len(y)}) THEN 0
    ELSE Cardinality({k \in (1..2) \X (1..2) :
            /\ Starts(x, width)[k[1]] = from /\ Starts(y, width)[k[2]] = to
            /\ Slice(x, from, width) = Slice(y, to, width)})

WholeHits(x, y, from, to, width) ==
    IF x = y /\ Len(x) >= 2 /\ from = 0 /\ to = 0 /\ width = Min({8, Len(x)}) THEN 1 ELSE 0

Hits(w, from, to, width) ==
    LET x == w.obs[1].payload
        y == w.obs[2].payload
    IN  IF x = <<>> \/ y = <<>> THEN 0
        ELSE (IF width \in {2, 4} THEN WindowHits(x, y, from, to, width) ELSE 0)
             + WholeHits(x, y, from, to, width)

(* cross_message_value_correlations: the matches counted at a place (both  *)
(* offsets, width) of two ids, where there are at least two.               *)
ValueMatches ==
    LET places(x, y, width) == ToSet(Starts(x, width)) \X ToSet(Starts(y, width)) \X {width}
        keys == UNION {{Ids(w)} \X (UNION {places(w.obs[1].payload, w.obs[2].payload, n) : n \in {2, 4}}
                                     \cup {<<0, 0, Min({8, Len(w.obs[1].payload)})>>}) : w \in Windows(2)}
        matches(k) == FoldSet(LAMBDA w, n : n + Hits(w, k[2][1], k[2][2], k[2][3]), 0,
                              {w \in Windows(2) : Ids(w) = k[1]})
        counts == [k \in keys |-> matches(k)]
    IN  Restrict(counts, {k \in keys : counts[k] >= 2})

(* Those of most matches.                                                  *)
ValueCorrelations ==
    LET counts == ValueMatches
    IN  Restrict(counts, Listed(DOMAIN counts, MaxValues, LAMBDA k : <<-counts[k]>> \o k[1] \o k[2]))

-----------------------------------------------------------------------------
(* Periodic messages                                                       *)

Abs(n) == IF n < 0 THEN -n ELSE n
Total(s) == FoldSeq(LAMBDA x, n : x + n, 0, s)

(* is_approximately_periodic: the mean deviation from the median is at     *)
(* most a quarter of it.                                                   *)
Periodic(deltas) ==
    LET m == Median2(deltas)
    IN  /\ Len(deltas) >= 3 /\ m > 0
        /\ 4 * Total([i \in 1..Len(deltas) |-> Abs(2 * deltas[i] - m)]) <= Len(deltas) * m

Of(c, id) == SelectSeq(OrderedObservations(c), LAMBDA o : o.id = id)

IdDeltas(id) == Deltas(Of("A", id)) \o Deltas(Of("B", id))

(* Deltas between the requests that are answered at once.                  *)
PairStarts(c, x, y) ==
    LET s == OrderedObservations(c)
        at == SelectSeq([i \in 1..Len(s) |-> i],
                LAMBDA i : i < Len(s) /\ s[i].id = x /\ s[i + 1].id = y)
    IN  [k \in 1..Len(at) |-> s[at[k]]]

PairDeltas(x, y) == Deltas(PairStarts("A", x, y)) \o Deltas(PairStarts("B", x, y))

KeepaliveRequest == 250     \* 0xFA
KeepaliveStatus == 251      \* 0xFB

(* build_periodic_candidates.  The keepalive pair is listed from three     *)
(* samples on, periodic or not; a single id that is not needs five.        *)
PeriodicCandidates ==
    {[id |-> id, deltas |-> IdDeltas(id), periodic |-> Periodic(IdDeltas(id))] :
        id \in {id \in DOMAIN groups["A"] \cup DOMAIN groups["B"] :
                  Len(IdDeltas(id)) >= IF Periodic(IdDeltas(id)) THEN 3 ELSE 5}}
    \cup
    LET d == PairDeltas(KeepaliveRequest, KeepaliveStatus)
    IN  IF Len(d) < 3 THEN {}
        ELSE {[id |-> KeepaliveRequest, deltas |-> d, periodic |-> Periodic(d)]}

-----------------------------------------------------------------------------
(* Temporal clusters                                                       *)

(* How many times the pair at i repeats from there on.                     *)
Repeats(ids, i) ==
    Max({n \in 1..Len(ids) : /\ i + 2 * n - 1 <= Len(ids)
                             /\ \A k \in 0..n - 1 : /\ ids[i + 2 * k] = ids[i]
                                                    /\ ids[i + 2 * k + 1] = ids[i + 1]})

(* Mutant of Clusters: after a cluster the next message is skipped too.    *)
Clusters_SkipOne(ids) ==
    LET From[i \in 1..Len(ids) + 2] ==
            IF i + 3 > Len(ids) THEN <<>>
            ELSE IF ids[i] # ids[i + 1] /\ Repeats(ids, i) >= 3
                 THEN <<[pair |-> <<ids[i], ids[i + 1]>>, at |-> i, size |-> Repeats(ids, i)]>>
                      \o From[i + 2 * Repeats(ids, i) + 1]
                 ELSE From[i + 1]
    IN  From[1]

(* build_temporal_clusters: the scan of one capture.                       *)
Clusters(ids) ==
    LET From[i \in 1..Len(ids) + 1] ==
            IF i + 3 > Len(ids) THEN <<>>
            ELSE IF ids[i] # ids[i + 1] /\ Repeats(ids, i) >= 3
                 THEN <<[pair |-> <<ids[i], ids[i + 1]>>, at |-> i, size |-> Repeats(ids, i)]>>
                      \o From[i + 2 * Repeats(ids, i)]
                 ELSE From[i + 1]
    IN  From[1]

(* The clusters of a pair are added up, over both captures; the intervals  *)
(* found in each are dropped.                                              *)
TemporalClusters ==
    LET found == UNION {{[capture |-> c, cluster |-> k] :
                            k \in ToSet(Clusters(IdsOf(OrderedObservations(c))))} : c \in Captures}
        by == Keyed(found, LAMBDA f : f.cluster.pair)
    IN  [p \in DOMAIN by |->
           [size |-> FoldSet(LAMBDA f, n : n + f.cluster.size, 0, by[p]),
            captures |-> Seen(by[p])]]

-----------------------------------------------------------------------------

SumOver(S, value(_)) == FoldSet(LAMBDA x, n : n + value(x), 0, S)

(* Every step from one message to the next is counted once in each of the  *)
(* tables made of them: the counts of the direction transitions and of the *)
(* edges add up to the steps of the two captures, none leads from the end  *)
(* of A to the start of B, and the transitions that change direction are   *)
(* as many as build_sequence counted on its own.  So are those that change *)
(* context until their list is full; then it leaves out none that is more  *)
(* frequent than one it has.                                               *)
StepsConserved ==
    LET steps == SumOver(Captures, LAMBDA c : Max({0, Len(arrivals[c]) - 1}))
    IN  /\ SumOver(DirectionTransitions, LAMBDA t : t.count) = steps
        /\ SumOver(DOMAIN Edges, LAMBDA k : Edges[k].count) = steps
        /\ SumOver({t \in DirectionTransitions : t.dirs[1] # t.dirs[2]}, LAMBDA t : t.count)
             = SumOver(Captures, LAMBDA c : Changes(c, LAMBDA o : o.dir))
        /\ LET listed == SumOver(ContextTransitions, LAMBDA t : t.count)
               changes == SumOver(Captures, LAMBDA c : Changes(c, LAMBDA o : o.ctx))
           IN  /\ listed <= changes
               /\ Cardinality(ContextTransitions) < MaxTransitions => listed = changes
        /\ \A w \in {v \in Windows(2) : ChangesContext(v)} :
              \/ ContextStep(w) \in {t.step : t \in ContextTransitions}
              \/ /\ Cardinality(ContextTransitions) = MaxTransitions
                 /\ \A t \in ContextTransitions : t.count >=
                       Cardinality({v \in Windows(2) : ChangesContext(v) /\ ContextStep(v) = ContextStep(w)})

(* The occurrences of an n-gram, counted window by window into a map, and  *)
(* those of count_subsequence, which searches the finished sequences, are  *)
(* the same; and no part of a sequence is rarer than the sequence.         *)
TwoCountsAgree ==
    /\ \A s \in StableSequences : s.a + s.b = Cardinality(Occurrences(s.ids))
    /\ \A g \in Grams : Len(g) > 1 =>
          /\ Cardinality(Occurrences(Tail(g))) >= Cardinality(Occurrences(g))
          /\ Cardinality(Occurrences(Front(g))) >= Cardinality(Occurrences(g))

(* What is called stable was seen in both captures: a stable sequence is   *)
(* in each, and so is an edge as long as the captures have ids of their    *)
(* own; its directions are then the most frequent ones in both.            *)
StableSeenInBoth ==
    /\ \A s \in StableSequences : s.a > 0 /\ s.b > 0
    /\ ~same_ids => \A k \in DOMAIN Edges :
          Edges[k].class = "STABLE_EDGE" =>
             \A c \in Captures : EdgeIn(c, k) # {} /\ Majority(EdgeIn(c, k)) = Edges[k].dirs

(* Merging the candidates of the same two ids loses none: whatever had the *)
(* three signals is there, under its ids, with at least its occurrences;   *)
(* and every candidate has them.                                           *)
NoCandidateLost ==
    /\ \A t \in DirectionTransitions : Supported(t) =>
          \E u \in Candidates : u.ids = t.ids /\ u.count >= t.count
    /\ \A u \in Candidates : Supported(u)

(* The repeats, the variations and the context buckets are three tables of *)
(* the same sightings: as long as neither of the lists is full, the        *)
(* sightings of an id in a context are the repeats plus the payloads seen  *)
(* once, where a facet varies if it has a payload beside the one that      *)
(* repeats.  A full list accounts for fewer sightings and never for more,  *)
(* and leaves out no payload, and no facet, that it should have put before *)
(* one it has.                                                             *)
FactsAgree ==
    LET full == \/ Cardinality(FingerprintRepeats) = MaxRepeats
                \/ Cardinality(PayloadVariations) = MaxVariations
        repeats(f) == {r \in FingerprintRepeats : r.facet = f}
        distinct(f) == IF \E v \in PayloadVariations : v.facet = f
                       THEN (CHOOSE v \in PayloadVariations : v.facet = f).distinct ELSE 1
        alike(w) == {v \in Sightings : Facet(v) = Facet(w) /\ v.obs[1].payload = w.obs[1].payload}
        payloads(f) == {w.obs[1].payload : w \in {v \in Sightings : Facet(v) = f}}
    IN  /\ \A k \in DOMAIN ContextBuckets :
              LET facets == {f \in {Facet(w) : w \in Sightings} : f[1] = k[1] /\ f[3] = k[2]}
                  told == SumOver(facets, LAMBDA f : distinct(f) - Cardinality(repeats(f))
                                                      + SumOver(repeats(f), LAMBDA r : r.count))
              IN  IF full THEN told <= ContextBuckets[k].count ELSE told = ContextBuckets[k].count
        /\ \A w \in Sightings : Cardinality(alike(w)) >= 2 =>
              \/ \E r \in repeats(Facet(w)) : r.payload = w.obs[1].payload
              \/ /\ Cardinality(FingerprintRepeats) = MaxRepeats
                 /\ \A r \in FingerprintRepeats : r.count >= Cardinality(alike(w))
        /\ \A f \in {Facet(w) : w \in Sightings} : Cardinality(payloads(f)) >= 2 =>
              \/ distinct(f) = Cardinality(payloads(f))
              \/ /\ Cardinality(PayloadVariations) = MaxVariations
                 /\ \A v \in PayloadVariations : v.distinct >= Cardinality(payloads(f))

(* Two pairs of consecutive messages that begin with the same two bytes    *)
(* are enough to have the value reported, unless the list is full of       *)
(* values matched as often; and a value that is reported was equal in a    *)
(* pair.                                                                   *)
RecurringWindowsFound ==
    LET found == ValueCorrelations
        alike(ids) == {w \in Windows(2) :
                         /\ Ids(w) = ids /\ Len(w.obs[1].payload) >= 2 /\ Len(w.obs[2].payload) >= 2
                         /\ Slice(w.obs[1].payload, 0, 2) = Slice(w.obs[2].payload, 0, 2)}
    IN  /\ \A ids \in {Ids(w) : w \in Windows(2)} : Cardinality(alike(ids)) >= 2 =>
              \/ <<ids, <<0, 0, 2>>>> \in DOMAIN found
              \/ /\ Cardinality(DOMAIN found) = MaxValues
                 /\ \A k \in DOMAIN found : found[k] >= Cardinality(alike(ids))
        /\ \A k \in DOMAIN found : \E w \in Windows(2) :
              LET from == k[2][1]
                  to == k[2][2]
              IN  /\ Ids(w) = k[1]
                  /\ from + 2 <= Len(w.obs[1].payload) /\ to + 2 <= Len(w.obs[2].payload)
                  /\ Slice(w.obs[1].payload, from, 2) = Slice(w.obs[2].payload, to, 2)

(* Periodic is said only of what has a period: at least half the intervals *)
(* lie between half the median and one and a half times the median, in     *)
(* whichever capture they were seen.                                       *)
PeriodicIsCentred ==
    \A p \in PeriodicCandidates : p.periodic =>
        LET m == Median2(p.deltas)
            near == {i \in 1..Len(p.deltas) : 2 * Abs(2 * p.deltas[i] - m) <= m}
        IN  2 * Cardinality(near) >= Len(p.deltas)

Alternates(ids, i, n) ==
    /\ ids[i] # ids[i + 1]
    /\ \A k \in i..i + n - 3 : ids[k] = ids[k + 2]

(* An alternation of two ids is not lost by starting inside the cluster    *)
(* before it: one of seven messages (three pairs and one to spare) is in   *)
(* the clusters, under one of its two orders.  No two clusters overlap.    *)
AlternationsReported ==
    \A c \in Captures :
        LET ids == IdsOf(OrderedObservations(c))
            ks == Clusters(ids)
        IN  /\ \A i \in 1..Len(ids) - 6 : Alternates(ids, i, 7) =>
                  \/ <<ids[i], ids[i + 1]>> \in DOMAIN TemporalClusters
                  \/ <<ids[i + 1], ids[i]>> \in DOMAIN TemporalClusters
            /\ \A k \in 1..Len(ks) - 1 : ks[k].at + 2 * ks[k].size <= ks[k + 1].at
=============================================================================
