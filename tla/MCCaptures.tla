----------------------------- MODULE MCCaptures -----------------------------
(* What is made of two captures: their inventories, the tables correlated  *)
(* from them, the state machine replayed over them, and the alignment of   *)
(* their ids.  Each study has frames of its own, chosen so that what it    *)
(* looks for occurs; a behaviour belongs to one study.                     *)
EXTENDS ObservedStateMachine

CONSTANTS MaxLength     \* of the sequences that are aligned

VARIABLES
    study,
    left, right, table, common, at_left, at_right, at_common, segments, phase

alignVars == <<left, right, table, common, at_left, at_right, at_common, segments, phase>>

Alignment == INSTANCE SequenceAlignment
    WITH AlignedIds <- 30..32, a <- left, b <- right, dp <- table, lcs <- common, ia <- at_left,
         ib <- at_right, li <- at_common

Frame(id, dir, ctx, payload, gap) ==
    [kind |-> "clear", id |-> id, dir |-> dir, ctx |-> ctx, payload |-> payload, gap |-> gap]

Opaque(dir) == [kind |-> "opaque", id |-> NoId, dir |-> dir, ctx |-> 0, payload |-> <<>>, gap |-> 1]

Decrypted(id) == [Frame(id, "C2S", 0, <<>>, 1) EXCEPT !.kind = "decrypted"]

(* Messages that differ in kind and payload, and frames without an id.     *)
Mixed ==
    {Frame(30, "C2S", 0, <<1>>, 1), Frame(30, "S2C", 1, <<1, 2>>, 1), Frame(31, "S2C", 0, <<2>>, 1),
     Decrypted(31), Decrypted(NoId), Opaque("S2C")}

(* Four messages of two ids that differ in each of the other fields.       *)
Varied ==
    {Frame(30, "C2S", 0, <<1>>, 1), Frame(30, "S2C", 0, <<1>>, 1),
     Frame(31, "S2C", 0, <<1>>, 1), Frame(31, "C2S", 1, <<2, 3>>, -1)}

(* Payloads that repeat and vary, in two directions of one id.             *)
Repeated ==
    {Frame(30, "C2S", 0, <<n>>, 1) : n \in 1..3}
    \cup {Frame(30, "S2C", 0, <<n>>, 1) : n \in 1..2}
    \cup {Frame(31, "S2C", 0, <<n>>, 1) : n \in 1..2}

(* Payloads of which parts recur: at the start, in the middle, whole.      *)
Alike ==
    {Frame(30, "C2S", 0, <<1, 2>>, 1), Frame(30, "C2S", 0, <<1, 2, 1, 2, 5>>, 1),
     Frame(31, "S2C", 0, <<1, 2>>, 1), Frame(31, "S2C", 0, <<1, 2, 1, 8>>, 1)}

(* Keepalives at several distances, some without an order of their own.    *)
Timed ==
    {Frame(KeepaliveRequest, "C2S", 0, <<>>, 2), Frame(KeepaliveRequest, "C2S", 0, <<>>, 9),
     Frame(KeepaliveStatus, "S2C", 0, <<>>, 1), Frame(KeepaliveRequest, "C2S", 0, <<>>, None)}

Alternating ==
    {Frame(30, "C2S", 0, <<>>, 1), Frame(31, "S2C", 0, <<>>, 1), Frame(32, "C2S", 0, <<>>, 1)}

(* A startup of two ids, a member of the cluster, one of neither.          *)
Replayed ==
    {Frame(30, "C2S", 0, <<>>, 1), Frame(31, "S2C", 0, <<>>, 1),
     Frame(KeepaliveRequest, "C2S", 0, <<>>, 1), Frame(64, "S2C", 0, <<>>, 1), Opaque("S2C")}

MCStartupIds == <<30, 31>>

(* The frames of a study, and how many of them each capture has.           *)
Studies ==
    [mixed |-> [frames |-> Mixed, A |-> 3, B |-> 2],
     varied |-> [frames |-> Varied, A |-> 3, B |-> 3],
     repeated |-> [frames |-> Repeated, A |-> 7, B |-> 1],
     alike |-> [frames |-> Alike, A |-> 4, B |-> 2],
     timed |-> [frames |-> Timed, A |-> 6, B |-> 1],
     alternating |-> [frames |-> Alternating, A |-> 13, B |-> 0],
     replayed |-> [frames |-> Replayed, A |-> 4, B |-> 2]]

MCFrames == UNION {Studies[s].frames : s \in DOMAIN Studies}

MCMaxFrames == [c \in Captures |-> Max({Studies[s][c] : s \in DOMAIN Studies})]

(* A few alternations one after the other: at most three messages differ   *)
(* from the one two before them.                                           *)
FewBreaks ==
    \A c \in Captures :
        Cardinality({i \in 1..Len(arrivals[c]) - 2 : arrivals[c][i].id # arrivals[c][i + 2].id}) <= 3

(* The sightings are looked at as they come from their tables: in which    *)
(* order they came tells those nothing.                                    *)
InOrder ==
    LET key(o) == <<o.id, Rank(o.dir), Fingerprint(o.payload)>>
    IN  \A c \in Captures : \A i \in 1..Len(arrivals[c]) - 1 :
            ~Precedes(key(arrivals[c][i + 1]), key(arrivals[c][i]))

(* Five frames are replayed, at most one of them never opened: one is      *)
(* enough to part the index of a capture from the count of its messages.   *)
FewReplayed ==
    /\ next_index["A"] + next_index["B"] <= 5
    /\ SumOver(Captures, LAMBDA c : next_index[c] - Len(arrivals[c])) <= 1

MCInit ==
    /\ InitCorr /\ Alignment!Init
    /\ study \in DOMAIN Studies \cup {"alignment"}
    /\ study \notin {"varied", "replayed"} => ~same_ids
    /\ study # "alignment" => left = <<>> /\ right = <<>>

MCNext ==
    \/ /\ study # "alignment"
       /\ \E c \in Captures, f \in Studies[study].frames :
             next_index[c] < Studies[study][c] /\ Observe(c, f)
       /\ study = "alternating" => FewBreaks'
       /\ study = "repeated" => InOrder'
       /\ study = "replayed" => FewReplayed'
       /\ UNCHANGED <<same_ids, study, alignVars>>
    \/ study = "alignment" /\ Alignment!Next /\ UNCHANGED <<corrVars, study>>

MCSpec == MCInit /\ [][MCNext]_<<corrVars, study, alignVars>>

-----------------------------------------------------------------------------

(* Filing the observations by id loses nothing: the order of arrival is    *)
(* rebuilt, the tallies count each observation once, and the comparison of *)
(* two captures says the same whichever of them is called A.               *)
InventoryFaithful ==
    study = "mixed" =>
        TypeOK /\ OrderRecovered /\ TalliesAgree /\ ComparisonMirrors /\ DiffIsDistance /\ PairsAttributed

(* The tables made of the same steps, and those made of the same           *)
(* sightings, agree: each is counted once in each table, two ways of       *)
(* counting a sequence give one count, what is called stable was seen in   *)
(* both captures, and no candidate is lost in merging.  A list that is     *)
(* full has lost the least frequent entries only.                          *)
TablesAgree ==
    /\ study = "varied" =>
          StepsConserved /\ TwoCountsAgree /\ StableSeenInBoth /\ NoCandidateLost
    /\ study = "repeated" => FactsAgree

(* Patterns that are there are reported, and what is reported is there:    *)
(* values that recur (the most frequent, as far as they are listed),       *)
(* periods, and alternations of two ids.                                   *)
PatternsFound ==
    /\ study = "alike" => RecurringWindowsFound
    /\ study = "timed" => PeriodicIsCentred
    /\ study = "alternating" => AlternationsReported

(* The replayed traces are the same up to where the captures part; from    *)
(* there each is in its own branch or in the cluster; the startup is left  *)
(* once; and merging the transitions of both loses none, so that a state   *)
(* is entered as often as it is left or ended in.                          *)
TracesPartOnce ==
    study = "replayed" =>
        /\ SameUntilDivergence /\ BranchesAfterDivergence /\ StartupLeftOnce
        /\ EdgesMerged /\ StatesCounted

(* An alignment drops, invents and moves no id, and what it calls common   *)
(* is the longest there is; prefix, difference and suffix split each       *)
(* sequence.                                                               *)
AlignmentFaithful ==
    study = "alignment" =>
        Alignment!TypeOK /\ Alignment!AlignmentRebuilds /\ Alignment!CommonIsLongest /\ Alignment!DivergenceSplits
=============================================================================
