-------------------------- MODULE MessageInventory --------------------------
(***************************************************************************)
(* The message inventory of two captures: every decoded frame that has a   *)
(* message id becomes an observation, filed in the group of its id.  The   *)
(* arrival order survives only in the frame index of the observations,     *)
(* which counts the frames without an id too; everything later analyses    *)
(* do starts from ordered_observations, which rebuilds the order.          *)
(*                                                                         *)
(* A payload is a short sequence of byte values, and its fingerprint       *)
(* (SHA-256) the payload itself.                                           *)
(***************************************************************************)
EXTENDS Integers, Sequences, SequencesExt, FiniteSets, Bags, TLC

CONSTANTS
    Frames,         \* decoded frames that occur, see FrameKinds
    MaxFrames,      \* bound on the frames of each capture
    StartupLength   \* ids kept in startup_sequence (8 in the code)

Captures == {"A", "B"}
NoId == -1          \* msg_id of a frame that decrypted to less than a header
None == -1

VARIABLES
    next_index,     \* frames seen, by capture
    groups,         \* MessageInventory.groups, by capture: id -> group
    startup,        \* startup_sequence, by capture
    arrivals        \* history: the observations in the order they were made

vars == <<next_index, groups, startup, arrivals>>

FrameKinds == {"clear", "decrypted", "opaque"}
Directions == {"C2S", "S2C"}

Count(x) == SetToBag({x})

EmptyGroup == [total |-> 0, directions |-> EmptyBag, contexts |-> EmptyBag,
               lengths |-> EmptyBag, hashes |-> EmptyBag,
               first |-> None, last |-> None, observations |-> <<>>]

(* MessageIdGroup::push *)
Push(g, o) ==
    [total |-> g.total + 1,
     directions |-> g.directions (+) Count(o.dir),
     contexts |-> g.contexts (+) Count(o.ctx),
     lengths |-> g.lengths (+) Count(Len(o.payload)),
     hashes |-> g.hashes (+) Count(o.payload),
     first |-> IF g.first = None THEN o.index ELSE Min({g.first, o.index}),
     last |-> Max({g.last, o.index}),
     observations |-> Append(g.observations, o)]

Group(c, id) == IF id \in DOMAIN groups[c] THEN groups[c][id] ELSE EmptyGroup

(* from_decoded: None for an opaque frame and for one without an id.       *)
Inventoried(f) == f.kind # "opaque" /\ f.id # NoId

Observation(f, i, order) ==
    [index |-> i, order |-> order, id |-> f.id, dir |-> f.dir, ctx |-> f.ctx,
     payload |-> f.payload]

Init ==
    /\ next_index = [c \in Captures |-> 0]
    /\ groups = [c \in Captures |-> <<>>]
    /\ startup = [c \in Captures |-> <<>>]
    /\ arrivals = [c \in Captures |-> <<>>]

(* from_observations: the first ids make up the startup sequence.          *)
Add(c, o) ==
    /\ groups' = [groups EXCEPT ![c] = (o.id :> Push(Group(c, o.id), o)) @@ @]
    /\ startup' = [startup EXCEPT ![c] = IF Len(@) < StartupLength THEN Append(@, o.id) ELSE @]
    /\ arrivals' = [arrivals EXCEPT ![c] = Append(@, o)]

(* The next frame of a capture: inventory_from_pipeline_fixture numbers it *)
(* whether or not it is inventoried.  The fixture gives frame_order, or    *)
(* leaves it out: f.gap is its distance from the greatest order so far.    *)
Observe(c, f) ==
    /\ next_index[c] < MaxFrames[c]
    /\ next_index' = [next_index EXCEPT ![c] = @ + 1]
    /\ IF Inventoried(f)
         THEN Add(c, Observation(f, next_index[c],
                                 IF f.gap = None THEN None
                                 ELSE f.gap + Max({o.order : o \in ToSet(arrivals[c])} \cup {0})))
         ELSE UNCHANGED <<groups, startup, arrivals>>

Next == \E c \in Captures, f \in Frames : Observe(c, f)

Spec == Init /\ [][Next]_vars

-----------------------------------------------------------------------------
(* ordered_observations (message_correlation.rs)                           *)

(* The elements of S in the order of a strict total order on them.         *)
Sorted(S, before(_, _)) ==
    [i \in 1..Cardinality(S) |->
        CHOOSE x \in S : Cardinality({y \in S : before(y, x)}) = i - 1]

(* The groups one after the other.                                         *)
Grouped(c) ==
    LET ids == SetToSeq(DOMAIN groups[c])
    IN  FlattenSeq([k \in 1..Len(ids) |-> groups[c][ids[k]].observations])

(* Mutant of OrderedObservations: the sort is left out.                    *)
OrderedObservations_ByGroup(c) == Grouped(c)

OrderedObservations(c) == SortSeq(Grouped(c), LAMBDA o, p : o.index < p.index)

IdsOf(obs) == [k \in 1..Len(obs) |-> obs[k].id]

-----------------------------------------------------------------------------
(* CrossCaptureMessageComparison::compare                                  *)

Presence(a, b, id) ==
    CASE id \in DOMAIN groups[a] /\ id \in DOMAIN groups[b] -> "both"
      [] id \in DOMAIN groups[a] /\ id \notin DOMAIN groups[b] -> "A_only"
      [] OTHER -> "B_only"

(* compare_key_sets: the counts themselves do not matter.                  *)
KeySetStatus(x, y) ==
    IF BagToSet(x) = BagToSet(y) THEN "CROSS_CAPTURE_STABLE" ELSE "DIVERGENT"

CommonPrefix(x, y) ==
    CHOOSE n \in 0..Min({Len(x), Len(y)}) :
        /\ \A i \in 1..n : x[i] = y[i]
        /\ n < Min({Len(x), Len(y)}) => x[n + 1] # y[n + 1]

PayloadByteDiff(x, y) ==
    LET prefix == CommonPrefix(x, y)
        shorter == Min({Len(x), Len(y)})
    IN  [prefix |-> prefix,
         first |-> IF prefix < Len(x) \/ prefix < Len(y) THEN prefix ELSE None,
         different |-> Max({Len(x), Len(y)}) - shorter
                       + Cardinality({i \in prefix + 1..shorter : x[i] # y[i]})]

Statuses(a, b, id) ==
    LET g == Group(a, id)
        h == Group(b, id)
    IN  IF Presence(a, b, id) = "both"
          THEN [directions |-> KeySetStatus(g.directions, h.directions),
                contexts |-> KeySetStatus(g.contexts, h.contexts),
                lengths |-> KeySetStatus(g.lengths, h.lengths),
                diff |-> PayloadByteDiff(g.observations[1].payload, h.observations[1].payload)]
          ELSE [directions |-> "UNKNOWN", contexts |-> "UNKNOWN", lengths |-> "UNKNOWN",
                diff |-> None]

Rows(a, b) ==
    [id \in DOMAIN groups[a] \cup DOMAIN groups[b] |->
        [presence |-> Presence(a, b, id), status |-> Statuses(a, b, id)]]

StartupStatus(a, b) ==
    IF startup[a] = startup[b] THEN "CROSS_CAPTURE_STABLE" ELSE "DIVERGENT"

PairsIn(s) == {<<s[i], s[i + 1]>> : i \in 1..Len(s) - 1}

(* enrich_pairs_with_dirs: the directions of a pair where it first occurs  *)
(* anywhere in capture a.                                                  *)
PairDirections(a, p) ==
    LET s == OrderedObservations(a)
        at == {i \in 1..Len(s) - 1 : s[i].id = p[1] /\ s[i + 1].id = p[2]}
    IN  IF at = {} THEN <<"unknown", "unknown">> ELSE <<s[Min(at)].dir, s[Min(at) + 1].dir>>

SequencePairs(a, b) ==
    {[ids |-> p, dirs |-> PairDirections(a, p)] : p \in PairsIn(startup[a]) \cup PairsIn(startup[b])}

-----------------------------------------------------------------------------

(* Every group holds observations of its own id, and its frame indexes lie *)
(* below the number of frames seen.                                        *)
TypeOK ==
    \A c \in Captures :
        /\ next_index[c] \in 0..MaxFrames[c]
        /\ Len(startup[c]) <= StartupLength
        /\ \A id \in DOMAIN groups[c] :
              /\ groups[c][id].total = Len(groups[c][id].observations)
              /\ 0 <= groups[c][id].first /\ groups[c][id].first <= groups[c][id].last
              /\ groups[c][id].last < next_index[c]
              /\ \A o \in ToSet(groups[c][id].observations) : o.id = id

(* Filing the observations by id loses nothing of the capture: the order   *)
(* ordered_observations rebuilds is the order of arrival, whatever frames  *)
(* without an id came in between, and startup_sequence is its beginning.   *)
OrderRecovered ==
    \A c \in Captures :
        /\ OrderedObservations(c) = arrivals[c]
        /\ startup[c] = IdsOf(SubSeq(arrivals[c], 1, Min({StartupLength, Len(arrivals[c])})))

Tally(c, id, value(_)) ==
    LET of == {o \in ToSet(arrivals[c]) : o.id = id}
    IN  [v \in {value(o) : o \in of} |-> Cardinality({o \in of : value(o) = v})]

(* The five tallies of a group count the observations made of its id, each *)
(* once: no first observation is lost to or_insert, and none counts twice. *)
TalliesAgree ==
    \A c \in Captures : \A id \in DOMAIN groups[c] :
        LET g == groups[c][id]
        IN  /\ g.directions = Tally(c, id, LAMBDA o : o.dir)
            /\ g.contexts = Tally(c, id, LAMBDA o : o.ctx)
            /\ g.lengths = Tally(c, id, LAMBDA o : Len(o.payload))
            /\ g.hashes = Tally(c, id, LAMBDA o : o.payload)

Mirrored(p) == CASE p = "A_only" -> "B_only" [] p = "B_only" -> "A_only" [] OTHER -> p

(* Which capture is called A makes no difference to what the comparison    *)
(* says of an id: presence is mirrored, the three statuses and the sample  *)
(* of payload differences are the same.                                    *)
ComparisonMirrors ==
    /\ DOMAIN Rows("A", "B") = DOMAIN Rows("B", "A")
    /\ \A id \in DOMAIN Rows("A", "B") :
          LET ab == Rows("A", "B")[id]
              ba == Rows("B", "A")[id]
          IN  ab.presence = Mirrored(ba.presence) /\ ab.status = ba.status
    /\ StartupStatus("A", "B") = StartupStatus("B", "A")

(* payload_byte_diff is a distance: it is the number of positions at which *)
(* the payloads differ, a byte one of them lacks included, so that it is   *)
(* zero exactly for equal payloads and never more by way of a third.       *)
DiffIsDistance ==
    LET payloads == {o.payload : o \in ToSet(arrivals["A"]) \cup ToSet(arrivals["B"])}
        D(x, y) == PayloadByteDiff(x, y).different
    IN  \A x, y \in payloads :
            /\ D(x, y) = 0 <=> x = y
            /\ PayloadByteDiff(x, y).first = None <=> x = y
            /\ \A z \in payloads : D(x, z) <= D(x, y) + D(y, z)

(* The directions of a startup pair come from capture A alone.  A pair of  *)
(* A's startup always has them, whatever frames without an id lie between; *)
(* a pair only B started with has those of an occurrence in A or none.     *)
PairsAttributed ==
    \A p \in SequencePairs("A", "B") :
        /\ p.ids \in PairsIn(startup["A"]) => p.dirs # <<"unknown", "unknown">>
        /\ p.dirs # <<"unknown", "unknown">> =>
              \E i \in 1..Len(arrivals["A"]) - 1 :
                  /\ p.ids = <<arrivals["A"][i].id, arrivals["A"][i + 1].id>>
                  /\ p.dirs = <<arrivals["A"][i].dir, arrivals["A"][i + 1].dir>>
=============================================================================
