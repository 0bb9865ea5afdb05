------------------------- MODULE SequenceAlignment -------------------------
(***************************************************************************)
(* How two captures' id sequences are laid side by side                    *)
(* (message_correlation.rs): the longest common subsequence by its table,  *)
(* the segments of the alignment by a walk along it, and where the two     *)
(* part.  The loops are steps: a row of the table, the walk back from its  *)
(* corner, and each run of both sequences up to the next common id.        *)
(***************************************************************************)
EXTENDS Integers, Sequences, SequencesExt, FiniteSets

CONSTANTS
    AlignedIds,     \* message ids
    MaxLength       \* bound on the length of the sequences

VARIABLES
    a, b,           \* the two sequences
    dp,             \* table of lcs_ids: one row for each id of a so far
    lcs,            \* its result
    ia, ib, li,     \* ids of a, of b and of their LCS already aligned
    segments,       \* alignment so far: <<kind, ids>>
    phase

vars == <<a, b, dp, lcs, ia, ib, li, segments, phase>>

Kinds == {"COMMON", "A_ONLY", "B_ONLY"}

-----------------------------------------------------------------------------

Phases == {"table", "walk", "done"}

Init ==
    /\ a \in UNION {[1..n -> AlignedIds] : n \in 0..MaxLength}
    /\ b \in UNION {[1..n -> AlignedIds] : n \in 0..MaxLength}
    /\ dp = <<[j \in 0..Len(b) |-> 0]>>
    /\ lcs = <<>>
    /\ ia = 0 /\ ib = 0 /\ li = 0
    /\ segments = <<>>
    /\ phase = "table"

-----------------------------------------------------------------------------
(* lcs_ids                                                                 *)

(* Lengths of the longest common subsequences of a, up to id, and each     *)
(* prefix of b.                                                            *)
Row(above, id) ==
    LET cell[j \in 0..Len(b)] ==
            IF j = 0 THEN 0
            ELSE IF id = b[j] THEN above[j - 1] + 1
            ELSE Max({above[j], cell[j - 1]})
    IN  cell

FillRow ==
    /\ phase = "table" /\ Len(dp) <= Len(a)
    /\ dp' = Append(dp, Row(Last(dp), a[Len(dp)]))
    /\ UNCHANGED <<a, b, lcs, ia, ib, li, segments, phase>>

(* The walk back from cell i, j of the full table.                         *)
Back(i, j) ==
    LET from[n \in 0..Len(a) + Len(b), k \in 0..Len(a)] ==
            LET m == n - k
            IN  IF k = 0 \/ m = 0 THEN <<>>
                ELSE IF a[k] = b[m] THEN Append(from[n - 2, k - 1], a[k])
                ELSE IF dp[k][m] >= dp[k + 1][m - 1] THEN from[n - 1, k - 1]
                ELSE from[n - 1, k]
    IN  from[i + j, i]

WalkBack ==
    /\ phase = "table" /\ Len(dp) = Len(a) + 1
    /\ lcs' = Back(Len(a), Len(b))
    /\ phase' = "walk"
    /\ UNCHANGED <<a, b, dp, ia, ib, li, segments>>

-----------------------------------------------------------------------------
(* align_sequences                                                         *)

(* Mutant of Pushed: the ids of the last segment are overwritten.          *)
Pushed_Overwrites(segs, kind, ids) ==
    IF ids = <<>> THEN segs
    ELSE IF segs # <<>> /\ Last(segs)[1] = kind
         THEN Append(Front(segs), <<kind, ids>>)
         ELSE Append(segs, <<kind, ids>>)

(* push: nothing for no ids; ids of the kind of the last segment join it.  *)
Pushed(segs, kind, ids) ==
    IF ids = <<>> THEN segs
    ELSE IF segs # <<>> /\ Last(segs)[1] = kind
         THEN Append(Front(segs), <<kind, Last(segs)[2] \o ids>>)
         ELSE Append(segs, <<kind, ids>>)

(* The ids of s before the next `target`, or to the end.                   *)
UpTo(s, from, target) ==
    IF \E k \in from + 1..Len(s) : s[k] = target
    THEN Min({k \in from + 1..Len(s) : s[k] = target}) - 1
    ELSE Len(s)

(* One round of the loop over the LCS; it breaks if an end is reached.     *)
Align ==
    /\ phase = "walk" /\ li < Len(lcs)
    /\ LET target == lcs[li + 1]
           na == UpTo(a, ia, target)
           nb == UpTo(b, ib, target)
           apart == Pushed(Pushed(segments, "A_ONLY", SubSeq(a, ia + 1, na)),
                           "B_ONLY", SubSeq(b, ib + 1, nb))
       IN  IF na < Len(a) /\ nb < Len(b) /\ a[na + 1] = target /\ b[nb + 1] = target
             THEN /\ segments' = Pushed(apart, "COMMON", <<target>>)
                  /\ ia' = na + 1 /\ ib' = nb + 1 /\ li' = li + 1
             ELSE /\ segments' = apart
                  /\ ia' = na /\ ib' = nb /\ li' = Len(lcs)
    /\ UNCHANGED <<a, b, dp, lcs, phase>>

(* What is left of the two after the last common id.                       *)
Finish ==
    /\ phase = "walk" /\ li = Len(lcs)
    /\ segments' = Pushed(Pushed(segments, "A_ONLY", SubSeq(a, ia + 1, Len(a))),
                          "B_ONLY", SubSeq(b, ib + 1, Len(b)))
    /\ ia' = Len(a) /\ ib' = Len(b)
    /\ phase' = "done"
    /\ UNCHANGED <<a, b, dp, lcs, li>>

Next == FillRow \/ WalkBack \/ Align \/ Finish

Spec == Init /\ [][Next]_vars

-----------------------------------------------------------------------------
(* compute_sequence_divergence                                             *)

SharedPrefix(x, y) ==
    Max({n \in 0..Min({Len(x), Len(y)}) : SubSeq(x, 1, n) = SubSeq(y, 1, n)})

(* The suffix begins after the prefix in both.                             *)
SharedSuffix(x, y) ==
    Min({SharedPrefix(Reverse(x), Reverse(y)),
         Len(x) - SharedPrefix(x, y), Len(y) - SharedPrefix(x, y)})

-----------------------------------------------------------------------------

IdSeqs == Seq(AlignedIds)

TypeOK ==
    /\ a \in IdSeqs /\ b \in IdSeqs /\ phase \in Phases
    /\ ia \in 0..Len(a) /\ ib \in 0..Len(b) /\ Len(dp) \in 1..Len(a) + 1
    /\ lcs \in IdSeqs /\ li \in 0..Len(lcs)
    /\ \A k \in 1..Len(segments) : segments[k][1] \in Kinds /\ segments[k][2] \in IdSeqs \ {<<>>}

(* The ids of all segments of some kinds, one after the other.             *)
Rebuilt(kinds) ==
    FlattenSeq([k \in 1..Len(segments) |-> IF segments[k][1] \in kinds THEN segments[k][2] ELSE <<>>])

(* No id is dropped, invented or moved: at every step the common and the   *)
(* A-only segments spell what was read of a, the common and the B-only     *)
(* ones what was read of b, and no two neighbours are of one kind.         *)
AlignmentRebuilds ==
    /\ Rebuilt({"COMMON", "A_ONLY"}) = SubSeq(a, 1, ia)
    /\ Rebuilt({"COMMON", "B_ONLY"}) = SubSeq(b, 1, ib)
    /\ phase = "done" => ia = Len(a) /\ ib = Len(b)
    /\ \A k \in 1..Len(segments) - 1 : segments[k][1] # segments[k + 1][1]

SubsequencesOf(s) ==
    {[i \in 1..Cardinality(at) |-> s[CHOOSE k \in at : Cardinality({j \in at : j < k}) = i - 1]] :
        at \in SUBSET (1..Len(s))}

(* The walk always gets to the end of the LCS, though each round looks for *)
(* the next id only: what it calls common is, once done, a subsequence of  *)
(* both that no other common subsequence outlasts.                         *)
CommonIsLongest ==
    LET common == Rebuilt({"COMMON"})
        shared == SubsequencesOf(a) \cap SubsequencesOf(b)
    IN  /\ common \in shared
        /\ phase = "done" => \A s \in shared : Len(s) <= Len(common)

(* Prefix, what differs and suffix do not overlap and make up each of the  *)
(* sequences; none of the two could be longer.  A divergence is given      *)
(* exactly if the sequences differ.                                        *)
DivergenceSplits ==
    LET p == SharedPrefix(a, b)
        s == SharedSuffix(a, b)
    IN  /\ p + s <= Min({Len(a), Len(b)})
        /\ SubSeq(a, Len(a) - s + 1, Len(a)) = SubSeq(b, Len(b) - s + 1, Len(b))
        /\ p + s < Min({Len(a), Len(b)}) =>
              a[p + 1] # b[p + 1] /\ a[Len(a) - s] # b[Len(b) - s]
        /\ (p < Len(a) \/ p < Len(b)) <=> a # b
=============================================================================
