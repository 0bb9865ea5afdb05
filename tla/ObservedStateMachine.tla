------------------------ MODULE ObservedStateMachine ------------------------
(***************************************************************************)
(* The state machine observed in two captures (build_state_machine): every *)
(* message of a capture moves it to a state, by its place in the startup   *)
(* sequence, by being a keepalive, and by whether the captures have parted *)
(* before it.  Not the machine the server runs (ProtocolState) but the one *)
(* the analysis reports; it is made of the captures of MessageInventory    *)
(* and the tables of MessageCorrelation.                                   *)
(***************************************************************************)
EXTENDS MessageCorrelation

CONSTANTS StartupIds        \* STABLE_STARTUP_SEQUENCE (eight ids in the code)

START == "START"
STARTUP_SEQUENCE == "STARTUP_SEQUENCE"
POST_STARTUP == "POST_STARTUP"
REPEATING_CLUSTER_01 == "REPEATING_CLUSTER_01"
Branch(c) == IF c = "A" THEN "BRANCH_CAPTURE_A_01" ELSE "BRANCH_CAPTURE_B_01"

IdsIn(c) == IdsOf(OrderedObservations(c))

(* startup_prefix_len *)
StartupPrefix(ids) ==
    Max({n \in 0..Min({Len(StartupIds), Len(ids)}) : SubSeq(ids, 1, n) = SubSeq(StartupIds, 1, n)})

(* divergence_index of compute_sequence_divergence.                        *)
Divergence ==
    LET a == IdsIn("A")
        b == IdsIn("B")
        prefix == Max({n \in 0..Min({Len(a), Len(b)}) : SubSeq(a, 1, n) = SubSeq(b, 1, n)})
    IN  IF prefix < Len(a) \/ prefix < Len(b) THEN prefix ELSE None

IsClusterMember(id) == id \in {KeepaliveRequest, KeepaliveStatus}

(* Mutant of NextState: after a keepalive the state is not chosen anew.    *)
NextState_StaysInCluster(index, id, current, startup_len, div, branch) ==
    IF index < startup_len THEN STARTUP_SEQUENCE
    ELSE IF IsClusterMember(id) THEN REPEATING_CLUSTER_01
    ELSE IF current = REPEATING_CLUSTER_01 THEN POST_STARTUP
    ELSE IF div # None /\ index >= div THEN branch
    ELSE IF current \in {STARTUP_SEQUENCE, START} THEN POST_STARTUP ELSE current

(* next_state: index is the place among the messages, from 0.              *)
NextState(index, id, current, startup_len, div, branch) ==
    IF index < startup_len THEN STARTUP_SEQUENCE
    ELSE IF IsClusterMember(id) THEN REPEATING_CLUSTER_01
    ELSE IF div # None /\ index >= div THEN branch
    ELSE IF current \in {REPEATING_CLUSTER_01, STARTUP_SEQUENCE, START} THEN POST_STARTUP
    ELSE current

(* replay_state_trace *)
Trace(c) ==
    LET s == OrderedObservations(c)
        startup_len == StartupPrefix(IdsIn(c))
        div == Divergence
        to[i \in 0..Len(s)] ==
            IF i = 0 THEN START
            ELSE NextState(i - 1, s[i].id, to[i - 1], startup_len, div, Branch(c))
    IN  [i \in 1..Len(s) |-> [frame_index |-> s[i].index, id |-> s[i].id, dir |-> s[i].dir,
                              ctx |-> s[i].ctx, from |-> to[i - 1], to |-> to[i]]]

Steps == UNION {{[capture |-> c, at |-> i, step |-> Trace(c)[i]] : i \in 1..Len(Trace(c))} :
                  c \in Captures}

(* aggregate_states *)
StatesOf(c) ==
    LET by == Keyed({s \in Steps : s.capture = c}, LAMBDA s : s.step.to)
    IN  [q \in DOMAIN by |->
           [count |-> Cardinality(by[q]),
            first |-> Min({s.step.frame_index : s \in by[q]}),
            last |-> Max({s.step.frame_index : s \in by[q]}),
            repeating |-> q = REPEATING_CLUSTER_01]]

EdgeOf(s) == <<s.step.from, s.step.to, s.step.id, s.step.dir>>

(* collect_transitions of each capture, and merge_transitions, whose key   *)
(* leaves the context out: the edge keeps the least one of the first       *)
(* capture it was seen in.                                                 *)
MergedEdges ==
    LET by == Keyed(Steps, EdgeOf)
        first(ss) == IF \E s \in ss : s.capture = "A" THEN {s \in ss : s.capture = "A"} ELSE ss
    IN  [k \in DOMAIN by |->
           [occurrences |-> Cardinality(by[k]),
            captures |-> Seen(by[k]),
            ctx |-> Min({s.step.ctx : s \in first(by[k])}),
            class |-> IF Cardinality(Seen(by[k])) = 2 THEN "STABLE_CROSS_CAPTURE"
                      ELSE "CAPTURE_SPECIFIC"]]

(* StartupSequenceEvidence.classification *)
StartupClass ==
    LET matched == {StartupPrefix(IdsIn(c)) : c \in Captures}
    IN  IF matched = {Len(StartupIds)} THEN "OBSERVED"
        ELSE IF 0 \notin matched THEN "STRUCTURAL_HYPOTHESIS" ELSE "UNKNOWN"

-----------------------------------------------------------------------------

(* Up to where the captures part, they are in the same states: whatever    *)
(* follows in one of them does not reach back.                             *)
SameUntilDivergence ==
    LET n == IF Divergence = None THEN Len(Trace("A")) ELSE Divergence
    IN  \A i \in 1..n : Trace("A")[i].to = Trace("B")[i].to

(* From where they part a capture is in its own branch or in the cluster,  *)
(* whatever came in between, except that it may still be in the startup;   *)
(* before that it is in no branch, and it never is in the other's.         *)
BranchesAfterDivergence ==
    \A s \in Steps :
        LET after == Divergence # None /\ s.at - 1 >= Divergence
            starting == s.at <= StartupPrefix(IdsIn(s.capture))
        IN  IF after /\ ~starting
              THEN s.step.to \in {Branch(s.capture), REPEATING_CLUSTER_01}
              ELSE s.step.to \in {STARTUP_SEQUENCE, POST_STARTUP, REPEATING_CLUSTER_01}

(* The startup is left once: a trace is in it exactly as long as the ids   *)
(* follow the startup sequence, though later ids may spell it again; and   *)
(* START is never come back to.                                            *)
StartupLeftOnce ==
    \A s \in Steps :
        /\ s.step.to = STARTUP_SEQUENCE <=>
              /\ s.at <= Len(StartupIds)
              /\ SubSeq(IdsIn(s.capture), 1, s.at) = SubSeq(StartupIds, 1, s.at)
        /\ s.step.to # START
        /\ s.step.from = START <=> s.at = 1

(* Merging the transitions of the captures loses none: their occurrences   *)
(* add up to the messages of both; an edge is stable only if each capture  *)
(* has it, and an edge into a branch never is.                             *)
EdgesMerged ==
    LET edges == MergedEdges
    IN  /\ SumOver(DOMAIN edges, LAMBDA k : edges[k].occurrences)
              = SumOver(Captures, LAMBDA c : Len(arrivals[c]))
        /\ \A k \in DOMAIN edges : edges[k].class = "STABLE_CROSS_CAPTURE" =>
              /\ \A c \in Captures : \E s \in Steps : s.capture = c /\ EdgeOf(s) = k
              /\ k[2] \notin {Branch("A"), Branch("B")}

Passages(edges, ks) == SumOver(ks, LAMBDA k : edges[k].occurrences)

Into(edges, q) == Passages(edges, {k \in DOMAIN edges : k[2] = q})
OutOf(edges, q) == Passages(edges, {k \in DOMAIN edges : k[1] = q})

CountOf(states, q) == IF q \in DOMAIN states THEN states[q].count ELSE 0

LastStates == {t[Len(t)].to : t \in {Trace(c) : c \in Captures} \ {<<>>}}

(* A state was entered as often as its edges say, and left as often unless *)
(* a capture ended in it.                                                  *)
Balanced(edges, states, last) ==
    \A q \in UNION {DOMAIN states[c] : c \in Captures} :
        /\ Into(edges, q) = CountOf(states["A"], q) + CountOf(states["B"], q)
        /\ OutOf(edges, q) <= Into(edges, q)
        /\ q \notin last => OutOf(edges, q) = Into(edges, q)

StartupCounted(states) ==
    StartupClass = "OBSERVED" <=>
        \A c \in Captures : CountOf(states[c], STARTUP_SEQUENCE) = Len(StartupIds)

(* The states, aggregated by capture, and the edges, merged over both, are *)
(* two tables of the same steps, which balance; and the startup is         *)
(* OBSERVED exactly if both captures went all through it.                  *)
StatesCounted ==
    LET states == [c \in Captures |-> StatesOf(c)]
    IN  Balanced(MergedEdges, states, LastStates) /\ StartupCounted(states)
=============================================================================
