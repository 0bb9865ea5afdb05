-------------------------- MODULE PayloadStructure --------------------------
(***************************************************************************)
(* analyze_message_id: what the payloads of one message, seen in two       *)
(* captures, have in common at each offset, the regions of like offsets,   *)
(* and what each region might hold: numbers, bits, text.                   *)
(*                                                                         *)
(* The observations are gathered one at a time; a payload is a sequence of *)
(* bytes of ByteBits bits, and offsets count from 0 as in the code.        *)
(***************************************************************************)
EXTENDS Integers, Sequences, SequencesExt, FiniteSets, FiniteSetsExt

CONSTANTS
    Payloads, MaxObs,
    ByteBits,       \* 8 in the code
    Printable,      \* bytes from 0x20 to 0x7e
    Widths,         \* {1, 2, 4, 8} in the code
    ExportLimit     \* SAFE_EXPORT_REGION_LIMIT

Captures == {"A", "B"}

VARIABLE observations

Init == observations = <<>>

Observe == /\ Len(observations) < MaxObs
           /\ \E c \in Captures, p \in Payloads :
                 observations' = Append(observations, [cap |-> c, payload |-> p])

Spec == Init /\ [][Observe]_observations

-----------------------------------------------------------------------------

Has(p, off) == off < Len(p)
At(p, off) == p[off + 1]

(* The payloads of a capture in their order; of both, A's come first.      *)
Obs(c) ==
    LET own == SelectSeq(observations, LAMBDA o : o.cap = c) IN
    [i \in 1..Len(own) |-> own[i].payload]

All == Obs("A") \o Obs("B")

PayloadsOf(obs) == {obs[i] : i \in 1..Len(obs)}

(* The keys of count_lengths.                                              *)
Lengths(obs) == {Len(p) : p \in PayloadsOf(obs)}

LengthClass ==
    LET a == Lengths(Obs("A"))
        b == Lengths(Obs("B")) IN
    CASE a = {} \/ b = {} ->
            IF Cardinality(a \cup b) <= 1 THEN "FixedLength" ELSE "VariableLength"
      [] a = b -> "CrossCaptureLengthStable"
      [] OTHER -> "CrossCaptureLengthDivergent"

ValuesAt(obs, off) == {At(p, off) : p \in {q \in PayloadsOf(obs) : Has(q, off)}}

Missing(obs, off) == \E p \in PayloadsOf(obs) : ~Has(p, off)

(* Mutant of OffsetStability: payloads that end before are not counted.    *)
OffsetStability_IgnoresShort(obs, off) ==
    CASE ValuesAt(obs, off) = {} -> "Unobserved"
      [] Cardinality(ValuesAt(obs, off)) = 1 -> "Constant"
      [] OTHER -> "Variable"

OffsetStability(obs, off) ==
    CASE ValuesAt(obs, off) = {} -> "Unobserved"
      [] Cardinality(ValuesAt(obs, off)) = 1 ->
            IF Missing(obs, off) THEN "LengthDependent" ELSE "Constant"
      [] OTHER -> "Variable"

(* cross_offset_stability.                                                 *)
Cross(off) ==
    LET within == {OffsetStability(Obs(c), off) : c \in Captures} IN
    CASE Obs("A") = <<>> \/ Obs("B") = <<>> -> "Unobserved"
      [] Obs("A") # <<>> /\ Obs("B") # <<>> /\ within \cap {"Unobserved", "LengthDependent"} # {} ->
            "LengthDependent"
      [] OTHER -> IF Cardinality(ValuesAt(All, off)) = 1 THEN "Constant" ELSE "Variable"

MaxLen == Max(Lengths(All) \cup {0})

Offsets == 0..MaxLen - 1

Starts == {s \in Offsets : s = 0 \/ Cross(s) # Cross(s - 1)}

EndOf(s) == Min({t \in Starts : t > s} \cup {MaxLen})

StructuralStatus(stability) ==
    CASE stability = "Constant" -> "StructuralStable"
      [] stability = "Variable" -> "StructuralDivergent"
      [] stability = "LengthDependent" -> "CaptureSpecific"
      [] stability = "Unobserved" -> "Unknown"

(* One region per run of offsets with the same cross-capture stability;    *)
(* what it says of the captures within is read at its first offset.        *)
Region(s) ==
    LET a == OffsetStability(Obs("A"), s)
        b == OffsetStability(Obs("B"), s) IN
    [start |-> s, end |-> EndOf(s), cross |-> Cross(s),
     within |-> IF a = b THEN a ELSE "Variable",
     status |-> StructuralStatus(Cross(s))]

Regions == {Region(s) : s \in Starts}

-----------------------------------------------------------------------------

(* read_int on a payload that has the bytes.                               *)
ReadInt(p, off, width, be) ==
    FoldLeft(LAMBDA v, k : v * 2^ByteBits + At(p, off + (IF be THEN k ELSE width - 1 - k)), 0,
             [k \in 1..width |-> k - 1])

Values(off, width, be) ==
    LET reaching == SelectSeq(All, LAMBDA p : off + width <= Len(p)) IN
    [i \in 1..Len(reaching) |-> ReadInt(reaching[i], off, width, be)]

IsMonotonic(v) ==
    /\ Cardinality(Range(v)) >= 3
    /\ \/ \A i \in 1..Len(v) - 1 : v[i] <= v[i + 1]
       \/ \A i \in 1..Len(v) - 1 : v[i] >= v[i + 1]

(* Where build_regions probes for integers: at the region's start, with    *)
(* the region's own width and, unless it is one variable byte, with every  *)
(* greater width that still lies in the longest payload.                   *)
Probes(r) ==
    LET width == r.end - r.start
        spans == IF width > 1 \/ r.cross = "Constant"
                 THEN {w \in Widths \ {1} : w # width /\ r.start + w <= MaxLen} ELSE {}
    IN  IF r.cross = "Unobserved" THEN {} ELSE ({width} \cap Widths) \cup spans

NumericCandidates(r) ==
    {[offset |-> r.start, width |-> w, be |-> be, monotonic |-> IsMonotonic(Values(r.start, w, be))] :
        w \in {v \in Probes(r) : Values(r.start, v, TRUE) # <<>>}, be \in BOOLEAN}

Bit(v, k) == (v \div 2^k) % 2

(* Bit k of the bytes' disjunction and of their conjunction.               *)
OrBit(vs, k) == IF \E v \in vs : Bit(v, k) = 1 THEN 1 ELSE 0
AndBit(vs, k) == IF vs # {} /\ \A v \in vs : Bit(v, k) = 1 THEN 1 ELSE 0

VariableBits(off) ==
    LET vs == ValuesAt(All, off) IN {k \in 0..ByteBits - 1 : OrBit(vs, k) # AndBit(vs, k)}

PrintableRatio(p, off, width) ==
    (Cardinality({k \in off..off + width - 1 : At(p, k) \in Printable}) * 100) \div width

(* text_candidate_at: the ratio it reports, -1 for none.                   *)
TextCandidate(r) ==
    LET width == r.end - r.start
        reaching == SelectSeq(All, LAMBDA p : r.end <= Len(p))
        sum == FoldLeft(LAMBDA s, p : s + PrintableRatio(p, r.start, width), 0, reaching)
        average == IF reaching = <<>> THEN 0 ELSE sum \div Len(reaching)
    IN  IF width < 3 \/ average < 80 THEN -1 ELSE average

SliceDiffers(p, q, r) ==
    LET width(x) == Min({r.end, Len(x)}) - Min({r.start, Len(x)}) IN
    IF width(p) # width(q) \/ ~Has(p, r.start) \/ ~Has(q, r.start)
    THEN Len(p) # Len(q)
    ELSE \E k \in r.start..r.start + width(p) - 1 : At(p, k) # At(q, k)

(* regions_change_together: every observation is compared to the first.    *)
ChangeTogether(r1, r2) ==
    LET differs(r) == {i \in 2..Len(All) : SliceDiffers(All[1], All[i], r)} IN
    /\ Cardinality(differs(r1) \cup differs(r2)) >= 2
    /\ differs(r1) = differs(r2)

(* find_correlations.  Its limits of 48 regions and 32 pairs are not       *)
(* reached by payloads this short.                                         *)
CorrelatedPairs ==
    {rr \in Regions \X Regions :
        /\ rr[1].start < rr[2].start
        /\ rr[1].cross = "Variable" /\ rr[2].cross = "Variable"
        /\ ChangeTogether(rr[1], rr[2])}

(* to_safe_report: the regions that do not vary come first, each kind in   *)
(* its order, up to the limit.                                             *)
Exported ==
    LET before(q, r) == \/ q.cross # "Variable" /\ r.cross = "Variable"
                        \/ /\ (q.cross = "Variable") = (r.cross = "Variable")
                           /\ q.start < r.start
    IN  {r \in Regions : Cardinality({q \in Regions : before(q, r)}) < ExportLimit}

-----------------------------------------------------------------------------

(* The regions lie end to end over the longest payload, and two neighbours *)
(* never have the same cross-capture stability.                            *)
RegionsPartition ==
    /\ \A off \in Offsets : Cardinality({r \in Regions : r.start <= off /\ off < r.end}) = 1
    /\ \A r, q \in Regions : r.end = q.start => r.cross # q.cross

(* A region called STRUCTURAL_STABLE holds the same bytes in every payload *)
(* of both captures, and every payload reaches to its end; and every       *)
(* stretch of that kind lies in such a region.                             *)
StableIsEverywhere ==
    \A off \in Offsets :
        (\E r \in Regions : r.status = "StructuralStable" /\ r.start <= off /\ off < r.end)
        <=> /\ \A c \in Captures : Obs(c) # <<>>
            /\ \A p, q \in PayloadsOf(All) : Has(p, off) /\ At(p, off) = At(q, off)

(* A message always as long in both captures has no offset that depends on *)
(* the length.                                                             *)
OneLengthNoDependence ==
    LengthClass = "CrossCaptureLengthStable" /\ Cardinality(Lengths(All)) = 1
    => \A r \in Regions : r.cross \in {"Constant", "Variable"}

(* An integer that seems to count leads with a part that never turns back: *)
(* its first byte read in big-endian order, its last in little-endian.     *)
MonotonicKeepsLead ==
    \A r \in Regions : \A n \in NumericCandidates(r) :
        n.monotonic =>
            LET lead == IF n.be THEN n.offset ELSE n.offset + n.width - 1
                seen == SelectSeq(All, LAMBDA p : n.offset + n.width <= Len(p)) IN
            \/ \A i \in 1..Len(seen) - 1 : At(seen[i], lead) <= At(seen[i + 1], lead)
            \/ \A i \in 1..Len(seen) - 1 : At(seen[i], lead) >= At(seen[i + 1], lead)

(* A bit is reported as variable exactly if two payloads differ in it.     *)
BitsThatVary ==
    \A off \in Offsets : \A k \in 0..ByteBits - 1 :
        k \in VariableBits(off) <=>
            \E v, w \in ValuesAt(All, off) : Bit(v, k) # Bit(w, k)

(* The ratio of printable bytes a text candidate reports is never more     *)
(* than that of the bytes together.                                        *)
TextNotOverstated ==
    \A r \in Regions :
        LET reaching == SelectSeq(All, LAMBDA p : r.end <= Len(p))
            count(p) == Cardinality({k \in r.start..r.end - 1 : At(p, k) \in Printable})
            printable == FoldLeft(LAMBDA s, p : s + count(p), 0, reaching) IN
        TextCandidate(r) * Len(reaching) * (r.end - r.start) <= printable * 100

(* Of two regions reported to change together, no payload as long as the   *)
(* first one changes only one.                                             *)
NeverAlone ==
    \A rr \in CorrelatedPairs : \A p \in PayloadsOf(All) :
        Len(p) = Len(All[1]) =>
            ((\E k \in rr[1].start..rr[1].end - 1 : Has(p, k) /\ At(p, k) # At(All[1], k))
             <=> (\E k \in rr[2].start..rr[2].end - 1 : Has(p, k) /\ At(p, k) # At(All[1], k)))

(* The limit of the export takes variable regions before any other.        *)
ExportKeepsStable ==
    /\ (\E r \in Regions \ Exported : r.cross # "Variable")
       => \A r \in Exported : r.cross # "Variable"
    /\ Cardinality(Exported) = Min({ExportLimit, Cardinality(Regions)})
=============================================================================
