---------------------------- MODULE EvidenceProofs ----------------------------
(***************************************************************************)
(* Why a compatibility matrix that passes claims no more than its entries  *)
(* back, whatever people wrote into the file; why a message survives the   *)
(* codec, whatever its bytes; and why a verdict on several captures rests  *)
(* on what was captured, whatever manifest is read.                        *)
(*                                                                         *)
(* The matrix: its entries have the types of the code, and what the        *)
(* validation and the numbers say follows from the types alone, entry by   *)
(* entry.                                                                  *)
(***************************************************************************)
EXTENDS MCEvidence, FiniteSetTheorems, SequenceTheorems, WellFoundedInduction, TLAPS

(* Every field of an entry has a value of its type.                        *)
IsEntry(e) ==
    /\ DOMAIN Matrix!FieldValues \subseteq DOMAIN e
    /\ \A f \in DOMAIN Matrix!FieldValues : e[f] \in Matrix!FieldValues[f]

IsMatrix(m) == \E T : m \in Seq(T) /\ \A e \in T : IsEntry(e)

(* The elements of a matrix are entries.                                   *)
LEMMA MatrixShape ==
    ASSUME NEW m, IsMatrix(m)
    PROVE  /\ Len(m) \in Nat /\ DOMAIN m = 1..Len(m)
           /\ \A i \in 1..Len(m) : IsEntry(m[i])
BY DEF IsMatrix

(* What the types say of the fields that the rules look at.                *)
LEMMA EntryFields ==
    ASSUME NEW e, IsEntry(e)
    PROVE  /\ e.evidence \in {"CONFIRMED", "OBSERVED", "STRUCTURAL", "HYPOTHESIS",
                              "UNKNOWN", "BLOCKED"}
           /\ e.implementation \in {"IMPLEMENTED", "PARTIAL", "NOT_IMPLEMENTED", "BLOCKED"}
           /\ e.verification \in {"VERIFIED", "NOT_VERIFIED", "BLOCKED"}
           /\ e.scopes \subseteq Matrix!Local \cup Matrix!Real
           /\ e.evidence_refs \in BOOLEAN /\ e.verification_refs \in BOOLEAN
           /\ e.reason \in BOOLEAN /\ e.claim \in BOOLEAN
<1> DEFINE F == DOMAIN Matrix!FieldValues
<1>1. /\ "evidence" \in F /\ "implementation" \in F /\ "verification" \in F /\ "scopes" \in F
      /\ "evidence_refs" \in F /\ "verification_refs" \in F /\ "reason" \in F /\ "claim" \in F
    BY DEF Matrix!FieldValues
<1>2. \A f \in F : e[f] \in Matrix!FieldValues[f]
    BY DEF IsEntry
<1> HIDE DEF F
<1>3. /\ e.evidence \in Matrix!FieldValues.evidence
      /\ e.implementation \in Matrix!FieldValues.implementation
      /\ e.verification \in Matrix!FieldValues.verification
      /\ e.scopes \in Matrix!FieldValues.scopes
      /\ e.evidence_refs \in Matrix!FieldValues.evidence_refs
      /\ e.verification_refs \in Matrix!FieldValues.verification_refs
      /\ e.reason \in Matrix!FieldValues.reason
      /\ e.claim \in Matrix!FieldValues.claim
    BY <1>1, <1>2
<1> QED
    BY <1>3 DEF Matrix!FieldValues

(* An entry passes exactly if every rule holds of it, and the rule that is *)
(* looked at first does not matter.                                        *)
LEMMA EntryPasses ==
    ASSUME NEW e, IsEntry(e)
    PROVE  Matrix!ValidateEntry(e) = "ok" <=>
               /\ Matrix!Backed(e) /\ e.scopes # {}
               /\ e.verification = "VERIFIED" => e.scopes \subseteq Matrix!Local
<1>1. /\ e.scopes \subseteq Matrix!Local \cup Matrix!Real
      /\ e.evidence_refs \in BOOLEAN /\ e.verification_refs \in BOOLEAN
      /\ e.reason \in BOOLEAN /\ e.claim \in BOOLEAN
    BY EntryFields
<1>2. e.scopes \subseteq Matrix!Local
          <=> "REAL_CLIENT" \notin e.scopes /\ "REAL_SERVER" \notin e.scopes
  <2>1. "REAL_CLIENT" \notin Matrix!Local /\ "REAL_SERVER" \notin Matrix!Local
        /\ Matrix!Real = {"REAL_CLIENT", "REAL_SERVER"}
      BY DEF Matrix!Local, Matrix!Real
  <2> QED
      BY <1>1, <2>1
<1> DEFINE blocked == "BLOCKED" \in {e.evidence, e.implementation, e.verification}
           verified == e.verification = "VERIFIED"
<1>3. Matrix!Backed(e) <=>
          /\ e.evidence = "CONFIRMED" => e.evidence_refs
          /\ verified => e.verification_refs
          /\ blocked => e.reason
          /\ e.evidence = "UNKNOWN" => ~e.claim
          /\ e.claim => e.evidence # "HYPOTHESIS" \/ ~verified
          /\ e.proven = {}
    BY <1>1 DEF Matrix!Backed
<1>4. Matrix!ValidateEntry(e) = "ok" <=>
          /\ ~(blocked /\ ~e.reason)
          /\ ~(e.evidence = "CONFIRMED" /\ ~e.evidence_refs)
          /\ ~(verified /\ ~e.verification_refs)
          /\ ~(e.evidence = "UNKNOWN" /\ e.claim)
          /\ ~(e.proven # {})
          /\ ~(verified /\ "REAL_CLIENT" \in e.scopes)
          /\ ~(verified /\ "REAL_SERVER" \in e.scopes)
          /\ ~(e.evidence = "HYPOTHESIS" /\ verified /\ e.claim)
          /\ ~(e.scopes = {})
    BY DEF Matrix!ValidateEntry, Matrix!VerifiedIn
<1> HIDE DEF blocked, verified
<1> QED
    BY <1>1, <1>2, <1>3, <1>4 DEF verified

-----------------------------------------------------------------------------

(* An entry field by field.                                                *)
LEMMA FieldByField ==
    ASSUME NEW e,
           {"evidence", "implementation", "verification", "scopes", "proven", "evidence_refs",
            "verification_refs", "reason", "claim"} \subseteq DOMAIN e,
           e.evidence \in Matrix!FieldValues.evidence,
           e.implementation \in Matrix!FieldValues.implementation,
           e.verification \in Matrix!FieldValues.verification,
           e.scopes \in Matrix!FieldValues.scopes,
           e.proven \in Matrix!FieldValues.proven,
           e.evidence_refs \in Matrix!FieldValues.evidence_refs,
           e.verification_refs \in Matrix!FieldValues.verification_refs,
           e.reason \in Matrix!FieldValues.reason,
           e.claim \in Matrix!FieldValues.claim
    PROVE  IsEntry(e)
<1> DEFINE V == Matrix!FieldValues
<1>1. DOMAIN V = {"evidence", "implementation", "verification", "scopes",
             "proven", "evidence_refs", "verification_refs", "reason", "claim"}
    BY DEF Matrix!FieldValues
<1> HIDE DEF V
<1>2. ASSUME NEW f \in DOMAIN V PROVE e[f] \in V[f]
  <2>1. e["evidence"] \in V["evidence"] /\ e["implementation"] \in V["implementation"]
        /\ e["verification"] \in V["verification"] /\ e["scopes"] \in V["scopes"]
        /\ e["proven"] \in V["proven"] /\ e["evidence_refs"] \in V["evidence_refs"]
        /\ e["verification_refs"] \in V["verification_refs"]
        /\ e["reason"] \in V["reason"] /\ e["claim"] \in V["claim"]
      BY DEF V
  <2> QED
      BY <1>1, <2>1, Zenon
<1> QED
    BY <1>1, <1>2 DEF IsEntry, V

(* The entries of the program have the types of their fields.              *)
LEMMA EntryTyped ==
    ASSUME NEW id, NEW area,
           NEW evidence \in {"CONFIRMED", "OBSERVED", "UNKNOWN", "BLOCKED"},
           NEW implementation \in {"IMPLEMENTED", "PARTIAL", "NOT_IMPLEMENTED", "BLOCKED"},
           NEW verification \in {"VERIFIED", "NOT_VERIFIED", "BLOCKED"},
           NEW scopes \in SUBSET (Matrix!Local \cup Matrix!Real)
    PROVE  IsEntry(Matrix!Entry(id, area, evidence, implementation, verification, scopes))
<1> DEFINE e == Matrix!Entry(id, area, evidence, implementation, verification, scopes)
<1>1. {"evidence", "implementation", "verification", "scopes", "proven", "evidence_refs",
       "verification_refs", "reason", "claim"} \subseteq DOMAIN e
    BY DEF Matrix!Entry
<1>2. /\ e.evidence \in Matrix!FieldValues.evidence
      /\ e.implementation \in Matrix!FieldValues.implementation
      /\ e.verification \in Matrix!FieldValues.verification
      /\ e.scopes \in Matrix!FieldValues.scopes
    BY DEF Matrix!FieldValues, Matrix!Entry
<1>3. e.proven \in Matrix!FieldValues.proven /\ e.claim \in Matrix!FieldValues.claim
    BY DEF Matrix!FieldValues, Matrix!Entry
<1>4. e.evidence_refs \in Matrix!FieldValues.evidence_refs
    BY DEF Matrix!FieldValues, Matrix!Entry
<1>5. e.verification_refs \in Matrix!FieldValues.verification_refs
    BY DEF Matrix!FieldValues, Matrix!Entry
<1>6. e.reason \in Matrix!FieldValues.reason
    BY DEF Matrix!FieldValues, Matrix!Entry
<1> HIDE DEF e
<1>7. IsEntry(e)
    BY <1>1, <1>2, <1>3, <1>4, <1>5, <1>6, FieldByField
<1> QED
    BY <1>7 DEF e

(* What is implemented and verified locally has them too.                  *)
LEMMA DoneTyped ==
    ASSUME NEW name, NEW area, NEW scopes \in SUBSET Matrix!Local
    PROVE  IsEntry(Matrix!Done(name, area, scopes))
<1>1. scopes \in SUBSET (Matrix!Local \cup Matrix!Real)
    OBVIOUS
<1>2. /\ "CONFIRMED" \in {"CONFIRMED", "OBSERVED", "UNKNOWN", "BLOCKED"}
      /\ "IMPLEMENTED" \in {"IMPLEMENTED", "PARTIAL", "NOT_IMPLEMENTED", "BLOCKED"}
      /\ "VERIFIED" \in {"VERIFIED", "NOT_VERIFIED", "BLOCKED"}
    OBVIOUS
<1> QED
    BY <1>1, <1>2, EntryTyped DEF Matrix!Done

(* A matrix is one of entries.                                             *)
LEMMA MatrixOf ==
    ASSUME NEW m, NEW T, m \in Seq(T), \A i \in 1..Len(m) : IsEntry(m[i])
    PROVE  IsMatrix(m)
<1> DEFINE U == {m[i] : i \in 1..Len(m)}
<1>1. Len(m) \in Nat /\ m = [i \in 1..Len(m) |-> m[i]]
    OBVIOUS
<1>2. \A i \in 1..Len(m) : m[i] \in U
    OBVIOUS
<1>3. \A e \in U : IsEntry(e)
    OBVIOUS
<1> HIDE DEF U
<1>4. m \in [1..Len(m) -> U]
    BY <1>1, <1>2
<1>5. m \in Seq(U)
    BY <1>1, <1>4
<1> QED
    BY <1>3, <1>5 DEF IsMatrix

(* One matrix after another is a matrix.                                   *)
LEMMA MatricesJoin ==
    ASSUME NEW s, NEW t, IsMatrix(s), IsMatrix(t)
    PROVE  IsMatrix(s \o t)
<1>1. PICK S : s \in Seq(S) /\ \A e \in S : IsEntry(e)
    BY DEF IsMatrix
<1>2. PICK T : t \in Seq(T) /\ \A e \in T : IsEntry(e)
    BY DEF IsMatrix
<1> DEFINE U == S \cup T
<1>3. s \in Seq(U) /\ t \in Seq(U) /\ \A e \in U : IsEntry(e)
  <2>1. s \in Seq(U)
    <3>1. Len(s) \in Nat /\ s = [i \in 1..Len(s) |-> s[i]] /\ \A i \in 1..Len(s) : s[i] \in U
        BY <1>1
    <3> HIDE DEF U
    <3>2. s \in [1..Len(s) -> U]
        BY <3>1
    <3> QED
        BY <3>1, <3>2
  <2>2. t \in Seq(U)
    <3>1. Len(t) \in Nat /\ t = [i \in 1..Len(t) |-> t[i]] /\ \A i \in 1..Len(t) : t[i] \in U
        BY <1>2
    <3> HIDE DEF U
    <3>2. t \in [1..Len(t) -> U]
        BY <3>1
    <3> QED
        BY <3>1, <3>2
  <2> QED
      BY <1>1, <1>2, <2>1, <2>2
<1> HIDE DEF U
<1>4. s \o t \in Seq(U)
    BY <1>3
<1> QED
    BY <1>3, <1>4 DEF IsMatrix

(* The lists of scopes the program names are lists of scopes.              *)
LEMMA ScopesTyped ==
    /\ Matrix!Capture \in SUBSET Matrix!Local /\ Matrix!Synthetic \in SUBSET Matrix!Local
    /\ {"OFFLINE_CAPTURE"} \in SUBSET Matrix!Local
    /\ {"OFFLINE_CAPTURE", "SYNTHETIC_LOCAL"} \in SUBSET Matrix!Local
    /\ {"SYNTHETIC_LOCAL", "EXTERNAL_BOUNDARY"} \in SUBSET Matrix!Local
    /\ Matrix!Synthetic \cup {"EXTERNAL_BOUNDARY"} \in SUBSET Matrix!Local
    /\ SUBSET Matrix!Local \subseteq SUBSET (Matrix!Local \cup Matrix!Real)
    /\ {"REAL_CLIENT"} \in SUBSET (Matrix!Local \cup Matrix!Real)
    /\ {"REAL_SERVER"} \in SUBSET (Matrix!Local \cup Matrix!Real)
BY DEF Matrix!Capture, Matrix!Synthetic, Matrix!Local, Matrix!Real

(* The entries of the wire are entries.                                    *)
LEMMA WireTyped == IsMatrix(Matrix!WireEntries)
<1> DEFINE W == Matrix!WireEntries
           nat == [Matrix!Done("nat_reporting_pair", "NAT_REPORTING", Matrix!Capture)
                      EXCEPT !.evidence = "OBSERVED"]
<1>1. IsEntry(nat)
  <2>1. /\ {"evidence", "implementation", "verification", "scopes", "proven", "evidence_refs",
             "verification_refs", "reason", "claim"} \subseteq DOMAIN nat
        /\ nat.evidence = "OBSERVED" /\ nat.implementation = "IMPLEMENTED"
        /\ nat.verification = "VERIFIED" /\ nat.scopes = Matrix!Capture /\ nat.proven = {}
        /\ nat.evidence_refs \in BOOLEAN /\ nat.verification_refs \in BOOLEAN
        /\ nat.reason \in BOOLEAN /\ nat.claim \in BOOLEAN
      BY DEF Matrix!Done, Matrix!Entry
  <2> HIDE DEF nat
  <2>2. /\ nat.evidence \in Matrix!FieldValues.evidence
        /\ nat.implementation \in Matrix!FieldValues.implementation
        /\ nat.verification \in Matrix!FieldValues.verification
      BY <2>1 DEF Matrix!FieldValues
  <2>3. nat.scopes \in Matrix!FieldValues.scopes /\ nat.proven \in Matrix!FieldValues.proven
      BY <2>1, ScopesTyped DEF Matrix!FieldValues
  <2>4. /\ nat.evidence_refs \in Matrix!FieldValues.evidence_refs
        /\ nat.verification_refs \in Matrix!FieldValues.verification_refs
        /\ nat.reason \in Matrix!FieldValues.reason /\ nat.claim \in Matrix!FieldValues.claim
      BY <2>1 DEF Matrix!FieldValues
  <2> QED
      BY <2>1, <2>2, <2>3, <2>4, FieldByField
<1>2. /\ IsEntry(W[1]) /\ IsEntry(W[2]) /\ IsEntry(W[3]) /\ IsEntry(W[4])
      /\ IsEntry(W[5]) /\ IsEntry(W[6]) /\ IsEntry(W[7]) /\ IsEntry(W[8])
    BY <1>1, ScopesTyped, DoneTyped DEF Matrix!WireEntries
<1>3. Len(W) = 8 /\ W \in Seq({W[1], W[2], W[3], W[4], W[5], W[6], W[7], W[8]})
    BY DEF Matrix!WireEntries
<1> HIDE DEF W
<1>4. \A i \in 1..8 : IsEntry(W[i])
    BY <1>2
<1> QED
    BY <1>3, <1>4, MatrixOf DEF W

(* Those of the layers are.                                                *)
LEMMA LayerTyped == IsMatrix(Matrix!LayerEntries)
<1> DEFINE W == Matrix!LayerEntries
<1>1. /\ IsEntry(W[1]) /\ IsEntry(W[2]) /\ IsEntry(W[3]) /\ IsEntry(W[4])
      /\ IsEntry(W[5]) /\ IsEntry(W[6]) /\ IsEntry(W[7])
    BY ScopesTyped, DoneTyped DEF Matrix!LayerEntries
<1>2. Len(W) = 7 /\ W \in Seq({W[1], W[2], W[3], W[4], W[5], W[6], W[7]})
    BY DEF Matrix!LayerEntries
<1> HIDE DEF W
<1>3. \A i \in 1..7 : IsEntry(W[i])
    BY <1>1
<1> QED
    BY <1>2, <1>3, MatrixOf DEF W

(* Those of what is not implemented or blocked are.                        *)
LEMMA OutsideTyped == IsMatrix(Matrix!OutsideEntries)
<1> DEFINE W == Matrix!OutsideEntries
           signon == [Matrix!Entry(<<"signon_layer", Matrix!NoMessage>>, "SIGNON", "CONFIRMED",
                                   "PARTIAL", "VERIFIED", {"OFFLINE_CAPTURE", "SYNTHETIC_LOCAL"})
                         EXCEPT !.reason = TRUE]
<1>1. IsEntry(signon)
  <2>1. /\ {"evidence", "implementation", "verification", "scopes", "proven", "evidence_refs",
             "verification_refs", "reason", "claim"} \subseteq DOMAIN signon
        /\ signon.evidence = "CONFIRMED" /\ signon.implementation = "PARTIAL"
        /\ signon.verification = "VERIFIED"
        /\ signon.scopes = {"OFFLINE_CAPTURE", "SYNTHETIC_LOCAL"}
        /\ signon.proven = {}
        /\ signon.evidence_refs \in BOOLEAN /\ signon.verification_refs \in BOOLEAN
        /\ signon.reason \in BOOLEAN /\ signon.claim \in BOOLEAN
      BY DEF Matrix!Entry
  <2> HIDE DEF signon
  <2>2. /\ signon.evidence \in Matrix!FieldValues.evidence
        /\ signon.implementation \in Matrix!FieldValues.implementation
        /\ signon.verification \in Matrix!FieldValues.verification
      BY <2>1 DEF Matrix!FieldValues
  <2>3. signon.scopes \in Matrix!FieldValues.scopes /\ signon.proven \in Matrix!FieldValues.proven
      BY <2>1, ScopesTyped DEF Matrix!FieldValues
  <2>4. /\ signon.evidence_refs \in Matrix!FieldValues.evidence_refs
        /\ signon.verification_refs \in Matrix!FieldValues.verification_refs
        /\ signon.reason \in Matrix!FieldValues.reason /\ signon.claim \in Matrix!FieldValues.claim
      BY <2>1 DEF Matrix!FieldValues
  <2> QED
      BY <2>1, <2>2, <2>3, <2>4, FieldByField
<1>2. /\ IsEntry(W[1]) /\ IsEntry(W[2]) /\ IsEntry(W[4]) /\ IsEntry(W[5]) /\ IsEntry(W[6])
    BY ScopesTyped, EntryTyped DEF Matrix!OutsideEntries
<1>3. W[3] = signon
    BY DEF Matrix!OutsideEntries
<1>4. Len(W) = 6 /\ W \in Seq({W[1], W[2], W[3], W[4], W[5], W[6]})
    BY DEF Matrix!OutsideEntries
<1> HIDE DEF W, signon
<1>5. \A i \in 1..6 : IsEntry(W[i])
    BY <1>1, <1>2, <1>3
<1> QED
    BY <1>4, <1>5, MatrixOf DEF W

(* The entry of a message.                                                 *)
LEMMA MessageTyped == \A n : IsEntry(Matrix!MessageCapability(n))
<1> TAKE n
<1>1. \A area : \A evidence \in {"CONFIRMED", "OBSERVED"} :
          IsEntry(Matrix!Entry(<<"msg", n>>, area, evidence, "IMPLEMENTED", "VERIFIED",
                               Matrix!Capture))
    BY ScopesTyped, EntryTyped
<1>2. IsEntry(Matrix!Entry(<<"msg", n>>, "MESSAGE_CODEC", "OBSERVED", "PARTIAL", "VERIFIED",
                           {"OFFLINE_CAPTURE", "SYNTHETIC_LOCAL"}))
    BY ScopesTyped, EntryTyped
<1> QED
    BY <1>1, <1>2 DEF Matrix!MessageCapability

(* Those of the messages are.                                              *)
LEMMA MessagesTyped ==
    IsMatrix([i \in 1..Len(Matrix!EXPECTED_MESSAGE_IDS) |->
                 Matrix!MessageCapability(Matrix!EXPECTED_MESSAGE_IDS[i])])
<1> DEFINE M == [i \in 1..Len(Matrix!EXPECTED_MESSAGE_IDS) |->
                    Matrix!MessageCapability(Matrix!EXPECTED_MESSAGE_IDS[i])]
<1>1. Len(Matrix!EXPECTED_MESSAGE_IDS) = 28
    BY DEF Matrix!EXPECTED_MESSAGE_IDS
<1>2. M \in Seq({M[i] : i \in 1..28}) /\ Len(M) = 28
    BY <1>1
<1>3. \A i \in 1..28 : M[i] = Matrix!MessageCapability(Matrix!EXPECTED_MESSAGE_IDS[i])
    BY <1>1
<1> HIDE DEF M
<1>4. \A i \in 1..Len(M) : IsEntry(M[i])
    BY <1>2, <1>3, MessageTyped
<1> QED
    BY <1>2, <1>4, MatrixOf DEF M

(* The matrix of the program is one of entries.                            *)
LEMMA CanonicalTyped == IsMatrix(Matrix!Canonical)
<1> DEFINE M == [i \in 1..Len(Matrix!EXPECTED_MESSAGE_IDS) |->
                    Matrix!MessageCapability(Matrix!EXPECTED_MESSAGE_IDS[i])]
<1>1. IsMatrix(M)
    BY MessagesTyped
<1> HIDE DEF M
<1>2. IsMatrix(Matrix!WireEntries \o Matrix!LayerEntries)
    BY WireTyped, LayerTyped, MatricesJoin
<1>3. IsMatrix((Matrix!WireEntries \o Matrix!LayerEntries) \o Matrix!OutsideEntries)
    BY <1>2, OutsideTyped, MatricesJoin
<1>4. IsMatrix(((Matrix!WireEntries \o Matrix!LayerEntries) \o Matrix!OutsideEntries) \o M)
    BY <1>1, <1>3, MatricesJoin
<1> QED
    BY <1>4 DEF Matrix!Canonical, M

(* A revised entry is an entry.                                            *)
LEMMA RevisedTyped ==
    ASSUME NEW e, IsEntry(e), NEW r, Matrix!IsRevision(r)
    PROVE  IsEntry([f \in DOMAIN e |-> IF f \in DOMAIN r THEN r[f] ELSE e[f]])
BY DEF IsEntry, Matrix!IsRevision

(* An element is replaced by another.                                      *)
LEMMA ElementReplaced ==
    ASSUME NEW S, NEW s \in Seq(S), NEW i \in 1..Len(s), NEW e
    PROVE  [s EXCEPT ![i] = e] \in Seq(S \cup {e})
<1> DEFINE T == S \cup {e}
<1>1. Len(s) \in Nat /\ s \in [1..Len(s) -> T]
    OBVIOUS
<1>2. e \in T
    OBVIOUS
<1> HIDE DEF T
<1>3. [s EXCEPT ![i] = e] \in [1..Len(s) -> T]
    BY <1>1, <1>2
<1> QED
    BY <1>1, <1>3 DEF T

(* Whatever is edited, the file stays a matrix of entries.                 *)
LEMMA MatrixKept ==
    ASSUME IsMatrix(file), [Matrix!Next]_matrixVars
    PROVE  IsMatrix(file)'
<1> SUFFICES IsMatrix(file')
    BY DEF IsMatrix, IsEntry, Matrix!FieldValues
<1>1. /\ Len(file) \in Nat /\ file \in Seq({file[i] : i \in 1..Len(file)})
      /\ \A i \in 1..Len(file) : IsEntry(file[i])
  <2>1. PICK T : file \in Seq(T) /\ \A e \in T : IsEntry(e)
      BY DEF IsMatrix
  <2>2. Len(file) \in Nat /\ file = [i \in 1..Len(file) |-> file[i]]
      BY <2>1
  <2> DEFINE U == {file[i] : i \in 1..Len(file)}
  <2>3. \A i \in 1..Len(file) : file[i] \in U
      OBVIOUS
  <2> HIDE DEF U
  <2>4. file \in Seq(U)
    <3>1. file \in [1..Len(file) -> U]
        BY <2>2, <2>3
    <3> QED
        BY <2>2, <3>1
  <2> QED
      BY <2>1, <2>2, <2>4 DEF U
<1> DEFINE U == {file[i] : i \in 1..Len(file)}
<1>2. /\ file \in Seq(U) /\ \A e \in U : IsEntry(e)
      /\ \A i \in 1..Len(file) : file[i] \in U
    BY <1>1
<1> HIDE DEF U
<1>3. ASSUME NEW i \in 1..Len(file), NEW r \in EntryRevisions, Matrix!Revise(i, r)
      PROVE  IsMatrix(file')
  <2> DEFINE e == [f \in DOMAIN file[i] |-> IF f \in DOMAIN r THEN r[f] ELSE file[i][f]]
             T == U \cup {e}
  <2>1. IsEntry(e)
      BY <1>1, RevisionsAssumption, RevisedTyped
  <2>2. file' = [file EXCEPT ![i] = e]
      BY <1>3 DEF Matrix!Revise, Matrix!Edit
  <2> HIDE DEF e
  <2>3. file' \in Seq(T)
      BY <1>2, <2>2, ElementReplaced
  <2>4. \A x \in T : IsEntry(x)
      BY <1>2, <2>1
  <2> QED
      BY <2>3, <2>4 DEF IsMatrix
<1>4. ASSUME NEW i \in 1..Len(file), Matrix!Copy(i)
      PROVE  IsMatrix(file')
  <2>1. file' = Append(file, file[i])
      BY <1>4 DEF Matrix!Copy, Matrix!Edit
  <2>2. file' \in Seq(U)
      BY <1>2, <2>1
  <2> QED
      BY <1>2, <2>2 DEF IsMatrix
<1>5. ASSUME NEW i \in 1..Len(file), Matrix!Drop(i)
      PROVE  IsMatrix(file')
  <2>1. file' = SubSeq(file, 1, i - 1) \o SubSeq(file, i + 1, Len(file))
      BY <1>5 DEF Matrix!Drop, Matrix!Edit, Matrix!RemoveAt
  <2>2. SubSeq(file, 1, i - 1) \in Seq(U) /\ SubSeq(file, i + 1, Len(file)) \in Seq(U)
      BY <1>1, <1>2
  <2>3. file' \in Seq(U)
      BY <2>1, <2>2
  <2> QED
      BY <1>2, <2>3 DEF IsMatrix
<1>6. CASE Matrix!Verify
  <2>1. file' = Matrix!Canonical \/ file' = file
      BY <1>6 DEF Matrix!Verify
  <2> QED
      BY <2>1, CanonicalTyped
<1>7. CASE UNCHANGED matrixVars
    BY <1>7 DEF matrixVars
<1> QED
    BY <1>3, <1>4, <1>5, <1>6, <1>7 DEF Matrix!Next

-----------------------------------------------------------------------------

(* A set of numbers has a least one.                                       *)
LEMMA LeastElement ==
    ASSUME NEW T \in SUBSET Nat, T # {}
    PROVE  \E x \in T : \A y \in T : x <= y
<1> DEFINE Less == OpToRel(<, Nat)
<1>1. IsWellFoundedOn(Less, Nat)
    BY NatLessThanWellFounded
<1>2. \A x \in Nat, y \in Nat : <<x, y>> \in Less <=> x < y
    BY DEF OpToRel
<1> HIDE DEF Less
<1>3. PICK x \in T : \A y \in T : ~(<<y, x>> \in Less)
    BY <1>1, WFMin, Zenon
<1>4. ASSUME NEW y \in T PROVE x <= y
  <2>1. x \in Nat /\ y \in Nat
      OBVIOUS
  <2>2. ~(y < x)
      BY <1>2, <1>3, <2>1, Zenon
  <2> QED
      BY <2>1, <2>2
<1> QED
    BY <1>4

(* The matrix counts as everybody does.                                    *)
LEMMA MatrixCardinality == \A S : Matrix!Cardinality(S) = Cardinality(S)
BY DEF Matrix!Cardinality, Cardinality

(* The numbers up to n are n.                                              *)
LEMMA CountTo ==
    ASSUME NEW n \in Nat
    PROVE  IsFiniteSet(1..n) /\ Cardinality(1..n) = n
<1>1. 1 \in Int /\ n \in Int
    OBVIOUS
<1>2. IsFiniteSet(1..n) /\ Cardinality(1..n) = IF 1 > n THEN 0 ELSE n - 1 + 1
    BY <1>1, FS_Interval, Zenon
<1> QED
    BY <1>2

(* No id is said twice exactly if there are as many ids as entries.        *)
LEMMA IdsCounted ==
    ASSUME NEW m, Len(m) \in Nat
    PROVE  (\A i \in 1..Len(m) : ~Matrix!Repeats(m, i))
               <=> Matrix!Cardinality({m[i].id : i \in 1..Len(m)}) = Len(m)
<1> DEFINE S == 1..Len(m)
           T == {m[i].id : i \in S}
           f == [i \in S |-> m[i].id]
<1>1. IsFiniteSet(S) /\ Cardinality(S) = Len(m)
    BY CountTo
<1>2. f \in Surjection(S, T) /\ \A i \in S : f[i] = m[i].id
    BY DEF Surjection
<1>3. (\A i \in S : ~Matrix!Repeats(m, i)) <=> \A i, j \in S : f[i] = f[j] => i = j
  <2>1. ASSUME \A i \in S : ~Matrix!Repeats(m, i), NEW i \in S, NEW j \in S, f[i] = f[j], i < j
        PROVE  FALSE
    <3>1. i \in 1..j - 1 /\ m[i].id = m[j].id
        BY <2>1
    <3> QED
        BY <2>1, <3>1 DEF Matrix!Repeats
  <2>2. ASSUME \A i, j \in S : f[i] = f[j] => i = j, NEW i \in S, Matrix!Repeats(m, i)
        PROVE  FALSE
    <3>1. PICK j \in 1..i - 1 : m[j].id = m[i].id
        BY <2>2 DEF Matrix!Repeats
    <3>2. j \in S /\ j # i /\ f[j] = f[i]
        BY <3>1
    <3> QED
        BY <2>2, <3>2
  <2>3. \A i, j \in S : i = j \/ i < j \/ j < i
      OBVIOUS
  <2> HIDE DEF S, f
  <2> QED
      BY <2>1, <2>2, <2>3
<1>4. (\A i \in S : ~Matrix!Repeats(m, i))
          <=> Matrix!Cardinality({m[i].id : i \in S}) = Len(m)
  <2> HIDE DEF S, f
  <2>1. f \in [S -> T]
      BY <1>2 DEF Surjection
  <2>2. f \in Injection(S, T) <=> \A i, j \in S : f[i] = f[j] => i = j
      BY <2>1 DEF Injection, IsInjective
  <2>3. Cardinality(T) = Cardinality(S) <=> f \in Injection(S, T)
      BY <1>1, <1>2, FS_Surjection, Zenon
  <2> QED
      BY <1>1, <1>3, <2>2, <2>3, MatrixCardinality
<1> QED
    BY <1>4

(* A matrix passes exactly if every rule holds of every entry, no id is    *)
(* said twice and no area or message is missing.                           *)
LEMMA MatrixPasses ==
    ASSUME NEW m, IsMatrix(m)
    PROVE  Matrix!ValidateMatrix(m) = "ok" <=>
               /\ \A i \in 1..Len(m) :
                   /\ Matrix!Backed(m[i]) /\ m[i].scopes # {}
                   /\ m[i].verification = "VERIFIED" => m[i].scopes \subseteq Matrix!Local
               /\ Matrix!Cardinality({m[i].id : i \in 1..Len(m)}) = Len(m)
               /\ \A a \in Matrix!Areas : \E i \in 1..Len(m) : m[i].area = a
               /\ {<<"msg", n>> : n \in Matrix!Range(Matrix!EXPECTED_MESSAGE_IDS)}
                       \subseteq {m[i].id : i \in 1..Len(m)}
<1> DEFINE S == 1..Len(m)
           bad == {i \in S : Matrix!Repeats(m, i) \/ Matrix!ValidateEntry(m[i]) # "ok"}
           least == CHOOSE i \in bad : \A j \in bad : i <= j
           missing == Matrix!Areas \ {m[i].area : i \in S}
           ids == Matrix!Range(Matrix!EXPECTED_MESSAGE_IDS)
           Silent == \E n \in ids : \A i \in S : m[i].id # <<"msg", n>>
<1>1. Matrix!ValidateMatrix(m) =
          IF bad # {} THEN
              IF Matrix!Repeats(m, least) THEN "DuplicateId" ELSE Matrix!ValidateEntry(m[least])
          ELSE IF missing # {} THEN "MissingArea"
          ELSE IF Silent THEN "MissingMessageId"
          ELSE "ok"
    BY DEF Matrix!ValidateMatrix
<1>2. Len(m) \in Nat /\ \A i \in S : IsEntry(m[i])
    BY MatrixShape
<1>3. ASSUME bad # {} PROVE Matrix!ValidateMatrix(m) # "ok"
  <2>1. bad \in SUBSET Nat
      BY <1>2
  <2>2. least \in bad
    <3> HIDE DEF bad
    <3>1. \E i \in bad : \A j \in bad : i <= j
        BY <1>3, <2>1, LeastElement
    <3> QED
        BY <3>1, Zenon
  <2> HIDE DEF least
  <2>3. Matrix!Repeats(m, least) \/ Matrix!ValidateEntry(m[least]) # "ok"
      BY <2>2
  <2> HIDE DEF bad
  <2> QED
      BY <1>1, <1>3, <2>3
<1>4. bad = {} <=> \A i \in S : ~Matrix!Repeats(m, i) /\ Matrix!ValidateEntry(m[i]) = "ok"
    OBVIOUS
<1>5. missing = {} <=> \A a \in Matrix!Areas : \E i \in S : m[i].area = a
    OBVIOUS
<1>6. ~Silent <=> {<<"msg", n>> : n \in ids} \subseteq {m[i].id : i \in S}
  <2> HIDE DEF ids, S
  <2> QED
      OBVIOUS
<1> HIDE DEF bad, least, missing, Silent
<1>7. Matrix!ValidateMatrix(m) = "ok" <=> bad = {} /\ missing = {} /\ ~Silent
    BY <1>1, <1>3
<1>8. \A i \in S : Matrix!ValidateEntry(m[i]) = "ok" <=>
          /\ Matrix!Backed(m[i]) /\ m[i].scopes # {}
          /\ m[i].verification = "VERIFIED" => m[i].scopes \subseteq Matrix!Local
    BY <1>2, EntryPasses
<1>9. (\A i \in S : ~Matrix!Repeats(m, i))
          <=> Matrix!Cardinality({m[i].id : i \in S}) = Len(m)
    BY <1>2, IdsCounted
<1> DEFINE Good(i) ==
        /\ Matrix!Backed(m[i]) /\ m[i].scopes # {}
        /\ m[i].verification = "VERIFIED" => m[i].scopes \subseteq Matrix!Local
<1>10. \A i \in S : Matrix!ValidateEntry(m[i]) = "ok" <=> Good(i)
    BY <1>8
<1> HIDE DEF Good, S
<1>11. bad = {} <=> /\ \A i \in S : Good(i)
                    /\ Matrix!Cardinality({m[i].id : i \in S}) = Len(m)
    BY <1>4, <1>9, <1>10
<1> QED
    BY <1>5, <1>6, <1>7, <1>11, Zenon DEF Good, S

-----------------------------------------------------------------------------

Places(m) == 1..Len(m)

(* The places of a matrix are as many as its entries, and a part of them   *)
(* can be counted.                                                         *)
LEMMA PlacesFinite ==
    ASSUME NEW m, Len(m) \in Nat
    PROVE  /\ IsFiniteSet(Places(m)) /\ Cardinality(Places(m)) = Len(m)
           /\ \A S \in SUBSET Places(m) :
                 /\ IsFiniteSet(S) /\ Cardinality(S) \in Nat
                 /\ Cardinality(S) <= Len(m)
<1>1. IsFiniteSet(Places(m)) /\ Cardinality(Places(m)) = Len(m)
    BY CountTo, Zenon DEF Places
<1>2. ASSUME NEW S \in SUBSET Places(m)
      PROVE  IsFiniteSet(S) /\ Cardinality(S) <= Cardinality(Places(m))
    BY <1>1, FS_Subset
<1> QED
    BY <1>1, <1>2, FS_CardinalityType

(* Two parts without a place in common.                                    *)
LEMMA Apart ==
    ASSUME NEW m, Len(m) \in Nat,
           NEW S \in SUBSET Places(m), NEW T \in SUBSET Places(m), S \cap T = {}
    PROVE  /\ S \cup T \in SUBSET Places(m)
           /\ Cardinality(S \cup T) = Cardinality(S) + Cardinality(T)
<1>1. IsFiniteSet(S) /\ IsFiniteSet(T) /\ Cardinality(S) \in Nat /\ Cardinality(T) \in Nat
    BY PlacesFinite
<1>2. Cardinality(S \cup T) = Cardinality(S) + Cardinality(T) - Cardinality({})
    BY <1>1, FS_Union
<1> QED
    BY <1>1, <1>2, FS_EmptySet

(* What is verified in a matrix that passes is verified offline, and       *)
(* nothing in the real world.                                              *)
LEMMA NothingReal ==
    ASSUME NEW m, IsMatrix(m), Matrix!ValidateMatrix(m) = "ok"
    PROVE  /\ Matrix!Metrics(m).real_verified = 0
           /\ Matrix!Metrics(m).offline_verified = Matrix!Metrics(m).verified
<1> DEFINE Verified == {i \in 1..Len(m) : m[i].verification = "VERIFIED"}
           Offline == {i \in 1..Len(m) : m[i].verification = "VERIFIED"
                                         /\ m[i].scopes \cap Matrix!Local # {}}
           RealOnes == {i \in 1..Len(m) : m[i].verification = "VERIFIED"
                                          /\ m[i].scopes \cap m[i].proven # {}}
<1>1. \A i \in 1..Len(m) :
          /\ Matrix!Backed(m[i]) /\ m[i].scopes # {}
          /\ m[i].verification = "VERIFIED" => m[i].scopes \subseteq Matrix!Local
    BY MatrixPasses
<1>2. Offline = Verified
    BY <1>1
<1>3. RealOnes = {}
    BY <1>1 DEF Matrix!Backed
<1>4. /\ Matrix!Metrics(m).real_verified = Matrix!Cardinality(RealOnes)
      /\ Matrix!Metrics(m).offline_verified = Matrix!Cardinality(Offline)
      /\ Matrix!Metrics(m).verified = Matrix!Cardinality(Verified)
    BY DEF Matrix!Metrics
<1> HIDE DEF Verified, Offline, RealOnes
<1> QED
    BY <1>2, <1>3, <1>4, MatrixCardinality, FS_EmptySet

(* Every entry is counted once by its evidence or as blocked, and blocked  *)
(* are never more than the entries with anything blocked.                  *)
LEMMA CountedOnce ==
    ASSUME NEW m, IsMatrix(m)
    PROVE  LET n == Matrix!Metrics(m)
               evidence == n.evidence["CONFIRMED"] + n.evidence["OBSERVED"]
                               + n.evidence["STRUCTURAL"] + n.evidence["HYPOTHESIS"]
                               + n.evidence["UNKNOWN"]
               blocked(e) == "BLOCKED" \in {e.evidence, e.implementation, e.verification} IN
           /\ evidence <= n.entries /\ n.entries <= evidence + n.blocked
           /\ n.blocked <= Matrix!Cardinality({i \in 1..Len(m) : blocked(m[i])})
<1> DEFINE n == Matrix!Metrics(m)
           Of(s) == {i \in Places(m) : m[i].evidence = s}
           ByOthers == {i \in Places(m) : m[i].implementation = "BLOCKED"
                                          /\ m[i].evidence # "BLOCKED"}
           AnyBlocked == {i \in Places(m) :
               "BLOCKED" \in {m[i].evidence, m[i].implementation, m[i].verification}}
           S2 == Of("CONFIRMED") \cup Of("OBSERVED")
           S3 == S2 \cup Of("STRUCTURAL")
           S4 == S3 \cup Of("HYPOTHESIS")
           S5 == S4 \cup Of("UNKNOWN")
<1>1. Len(m) \in Nat /\ \A i \in Places(m) : IsEntry(m[i])
    BY MatrixShape DEF Places
<1>2. \A i \in Places(m) : m[i].evidence \in
          {"CONFIRMED", "OBSERVED", "STRUCTURAL", "HYPOTHESIS", "UNKNOWN", "BLOCKED"}
    BY <1>1, EntryFields
<1>3. \A s : Of(s) \in SUBSET Places(m)
    OBVIOUS
<1>4. ByOthers \in SUBSET Places(m) /\ AnyBlocked \in SUBSET Places(m)
    OBVIOUS
<1>5. \A s, t : s # t => Of(s) \cap Of(t) = {}
    OBVIOUS
<1>6. /\ S2 \cap Of("STRUCTURAL") = {} /\ S3 \cap Of("HYPOTHESIS") = {}
      /\ S4 \cap Of("UNKNOWN") = {} /\ S5 \cap Of("BLOCKED") = {}
    BY <1>5
<1>7. S5 \cup Of("BLOCKED") = Places(m)
    BY <1>2
<1>8. Of("BLOCKED") \cap ByOthers = {} /\ Of("BLOCKED") \cup ByOthers \subseteq AnyBlocked
    OBVIOUS
<1>9. /\ n.entries = Len(m)
      /\ n.evidence["CONFIRMED"] = Cardinality(Of("CONFIRMED"))
      /\ n.evidence["OBSERVED"] = Cardinality(Of("OBSERVED"))
      /\ n.evidence["STRUCTURAL"] = Cardinality(Of("STRUCTURAL"))
      /\ n.evidence["HYPOTHESIS"] = Cardinality(Of("HYPOTHESIS"))
      /\ n.evidence["UNKNOWN"] = Cardinality(Of("UNKNOWN"))
    BY MatrixCardinality DEF Matrix!Metrics, Places
<1>10. n.blocked = Cardinality(Of("BLOCKED")) + Cardinality(ByOthers)
    BY MatrixCardinality DEF Matrix!Metrics, Places
<1> HIDE DEF n, Of, ByOthers, AnyBlocked
<1>11. /\ S2 \in SUBSET Places(m)
       /\ Cardinality(S2) = Cardinality(Of("CONFIRMED")) + Cardinality(Of("OBSERVED"))
  <2>1. Of("CONFIRMED") \cap Of("OBSERVED") = {}
      BY <1>5
  <2> QED
      BY <1>1, <1>3, <2>1, Apart
<1> HIDE DEF S2
<1>12. S3 \in SUBSET Places(m) /\ Cardinality(S3) = Cardinality(S2) + Cardinality(Of("STRUCTURAL"))
    BY <1>1, <1>3, <1>6, <1>11, Apart
<1> HIDE DEF S3
<1>13. S4 \in SUBSET Places(m) /\ Cardinality(S4) = Cardinality(S3) + Cardinality(Of("HYPOTHESIS"))
    BY <1>1, <1>3, <1>6, <1>12, Apart
<1> HIDE DEF S4
<1>14. S5 \in SUBSET Places(m) /\ Cardinality(S5) = Cardinality(S4) + Cardinality(Of("UNKNOWN"))
    BY <1>1, <1>3, <1>6, <1>13, Apart
<1> HIDE DEF S5
<1>15. Len(m) = Cardinality(S5) + Cardinality(Of("BLOCKED"))
  <2>1. Cardinality(S5 \cup Of("BLOCKED")) = Cardinality(S5) + Cardinality(Of("BLOCKED"))
      BY <1>1, <1>3, <1>6, <1>14, Apart
  <2>2. Cardinality(Places(m)) = Len(m)
      BY <1>1, PlacesFinite
  <2> QED
      BY <1>7, <2>1, <2>2
<1>16. Cardinality(Of("BLOCKED")) + Cardinality(ByOthers) <= Cardinality(AnyBlocked)
  <2>1. Cardinality(Of("BLOCKED") \cup ByOthers)
            = Cardinality(Of("BLOCKED")) + Cardinality(ByOthers)
      BY <1>1, <1>3, <1>4, <1>8, Apart
  <2>2. IsFiniteSet(AnyBlocked)
      BY <1>1, <1>4, PlacesFinite
  <2>3. Cardinality(Of("BLOCKED") \cup ByOthers) <= Cardinality(AnyBlocked)
      BY <1>8, <2>2, FS_Subset
  <2> QED
      BY <2>1, <2>3
<1>17. /\ Cardinality(Of("CONFIRMED")) \in Nat /\ Cardinality(Of("OBSERVED")) \in Nat
       /\ Cardinality(Of("STRUCTURAL")) \in Nat /\ Cardinality(Of("HYPOTHESIS")) \in Nat
       /\ Cardinality(Of("UNKNOWN")) \in Nat /\ Cardinality(Of("BLOCKED")) \in Nat
       /\ Cardinality(ByOthers) \in Nat /\ Cardinality(AnyBlocked) \in Nat
    BY <1>1, <1>3, <1>4, PlacesFinite
<1> DEFINE evidence == n.evidence["CONFIRMED"] + n.evidence["OBSERVED"]
                           + n.evidence["STRUCTURAL"] + n.evidence["HYPOTHESIS"]
                           + n.evidence["UNKNOWN"]
<1>18. evidence = Cardinality(S5)
    BY <1>9, <1>11, <1>12, <1>13, <1>14, <1>17
<1>19. Cardinality(S5) \in Nat
    BY <1>1, <1>14, PlacesFinite
<1> HIDE DEF evidence
<1>20. /\ evidence <= n.entries /\ n.entries <= evidence + n.blocked
       /\ n.blocked <= Matrix!Cardinality(AnyBlocked)
  <2>1. n.entries = Len(m)
      BY <1>9
  <2> QED
      BY <1>10, <1>15, <1>16, <1>17, <1>18, <1>19, <2>1, MatrixCardinality
<1> QED
    BY <1>20 DEF evidence, n, AnyBlocked, Places

-----------------------------------------------------------------------------

(* An entry calls its message implemented exactly if the codec has it.     *)
SaysCodec(e) ==
    e.id[1] = "msg" =>
        (e.implementation = "IMPLEMENTED" <=> e.id[2] \in Matrix!CODEC_KNOWN_IDS)

AllSayCodec(m) == \A i \in 1..Len(m) : SaysCodec(m[i])

(* One matrix after another, if it holds of both.                          *)
LEMMA SayingJoins ==
    ASSUME NEW s, NEW t, IsMatrix(s), IsMatrix(t), AllSayCodec(s), AllSayCodec(t)
    PROVE  AllSayCodec(s \o t)
<1>1. PICK S : s \in Seq(S)
    BY DEF IsMatrix
<1>2. PICK T : t \in Seq(T)
    BY DEF IsMatrix
<1>3. Len(s) \in Nat /\ Len(t) \in Nat /\ Len(s \o t) = Len(s) + Len(t)
    BY <1>1, <1>2
<1>4. ASSUME NEW i \in 1..Len(s \o t) PROVE SaysCodec((s \o t)[i])
  <2>1. CASE i <= Len(s)
    <3>1. i \in 1..Len(s) /\ (s \o t)[i] = s[i]
        BY <1>1, <1>2, <1>3, <2>1
    <3> QED
        BY <3>1 DEF AllSayCodec
  <2>2. CASE i > Len(s)
    <3>1. i - Len(s) \in 1..Len(t) /\ (s \o t)[i] = t[i - Len(s)]
        BY <1>1, <1>2, <1>3, <2>2
    <3> QED
        BY <3>1 DEF AllSayCodec
  <2> QED
      BY <1>3, <2>1, <2>2
<1> QED
    BY <1>4 DEF AllSayCodec

(* What is no message says nothing of the codec.                           *)
LEMMA NoMessageSays ==
    ASSUME NEW name, name # "msg"
    PROVE  /\ \A area, scopes : SaysCodec(Matrix!Done(name, area, scopes))
           /\ \A area, evidence, implementation, verification, scopes :
                 SaysCodec(Matrix!Entry(<<name, Matrix!NoMessage>>, area, evidence,
                                        implementation, verification, scopes))
BY DEF SaysCodec, Matrix!Done, Matrix!Entry

(* The entries before those of the messages are none.                      *)
LEMMA LayersSay ==
    /\ AllSayCodec(Matrix!WireEntries) /\ AllSayCodec(Matrix!LayerEntries)
    /\ AllSayCodec(Matrix!OutsideEntries)
<1>1. AllSayCodec(Matrix!WireEntries)
  <2> DEFINE W == Matrix!WireEntries
  <2>1. /\ SaysCodec(W[1]) /\ SaysCodec(W[2]) /\ SaysCodec(W[3]) /\ SaysCodec(W[4])
        /\ SaysCodec(W[5]) /\ SaysCodec(W[6]) /\ SaysCodec(W[8])
      BY NoMessageSays DEF Matrix!WireEntries
  <2>2. W[7].id = <<"nat_reporting_pair", Matrix!NoMessage>>
      BY DEF Matrix!WireEntries, Matrix!Done, Matrix!Entry
  <2>3. Len(W) = 8
      BY DEF Matrix!WireEntries
  <2> HIDE DEF W
  <2>4. SaysCodec(W[7])
      BY <2>2 DEF SaysCodec
  <2>5. AllSayCodec(W)
      BY <2>1, <2>3, <2>4 DEF AllSayCodec
  <2> QED
      BY <2>5 DEF W
<1>2. AllSayCodec(Matrix!LayerEntries)
  <2> DEFINE W == Matrix!LayerEntries
  <2>1. /\ SaysCodec(W[1]) /\ SaysCodec(W[2]) /\ SaysCodec(W[3]) /\ SaysCodec(W[4])
        /\ SaysCodec(W[5]) /\ SaysCodec(W[6]) /\ SaysCodec(W[7])
      BY NoMessageSays DEF Matrix!LayerEntries
  <2>2. Len(W) = 7
      BY DEF Matrix!LayerEntries
  <2> HIDE DEF W
  <2>3. AllSayCodec(W)
      BY <2>1, <2>2 DEF AllSayCodec
  <2> QED
      BY <2>3 DEF W
<1>3. AllSayCodec(Matrix!OutsideEntries)
  <2> DEFINE W == Matrix!OutsideEntries
  <2>1. SaysCodec(W[1]) /\ SaysCodec(W[2]) /\ SaysCodec(W[4]) /\ SaysCodec(W[5]) /\ SaysCodec(W[6])
      BY NoMessageSays DEF Matrix!OutsideEntries
  <2>2. W[3].id = <<"signon_layer", Matrix!NoMessage>>
      BY DEF Matrix!OutsideEntries, Matrix!Entry
  <2>3. Len(W) = 6
      BY DEF Matrix!OutsideEntries
  <2> HIDE DEF W
  <2>4. SaysCodec(W[3])
      BY <2>2 DEF SaysCodec
  <2>5. AllSayCodec(W)
      BY <2>1, <2>3, <2>4 DEF AllSayCodec
  <2> QED
      BY <2>5 DEF W
<1> QED
    BY <1>1, <1>2, <1>3

(* The entry of a message says it of its message.                          *)
LEMMA MessageSays == \A n : SaysCodec(Matrix!MessageCapability(n))
<1> TAKE n
<1> DEFINE e == Matrix!MessageCapability(n)
<1>1. CASE n \in {30, 31, 25, 26, 121, 122, 302, 303, 250, 251}
  <2>1. e.id = <<"msg", n>> /\ e.implementation = "IMPLEMENTED"
      BY <1>1 DEF Matrix!MessageCapability, Matrix!Entry
  <2> HIDE DEF e
  <2>2. SaysCodec(e)
      BY <1>1, <2>1 DEF SaysCodec, Matrix!CODEC_KNOWN_IDS
  <2> QED
      BY <2>2 DEF e
<1>2. CASE n \notin {30, 31, 25, 26, 121, 122, 302, 303, 250, 251}
  <2>1. e.id = <<"msg", n>> /\ e.implementation = "PARTIAL"
      BY <1>2 DEF Matrix!MessageCapability, Matrix!Entry
  <2> HIDE DEF e
  <2>2. SaysCodec(e)
      BY <1>2, <2>1 DEF SaysCodec, Matrix!CODEC_KNOWN_IDS
  <2> QED
      BY <2>2 DEF e
<1> QED
    BY <1>1, <1>2

(* Every entry of the program says it.                                     *)
LEMMA CanonicalSays == \A e \in Matrix!Range(Matrix!Canonical) : SaysCodec(e)
<1> DEFINE M == [i \in 1..Len(Matrix!EXPECTED_MESSAGE_IDS) |->
                    Matrix!MessageCapability(Matrix!EXPECTED_MESSAGE_IDS[i])]
           W == (Matrix!WireEntries \o Matrix!LayerEntries) \o Matrix!OutsideEntries
<1>1. AllSayCodec(M)
  <2>1. Len(Matrix!EXPECTED_MESSAGE_IDS) = 28
      BY DEF Matrix!EXPECTED_MESSAGE_IDS
  <2>2. Len(M) = 28 /\ \A i \in 1..28 :
            M[i] = Matrix!MessageCapability(Matrix!EXPECTED_MESSAGE_IDS[i])
      BY <2>1
  <2> HIDE DEF M
  <2> QED
      BY <2>2, MessageSays DEF AllSayCodec
<1>2. IsMatrix(M)
    BY MessagesTyped
<1> HIDE DEF M
<1>3. IsMatrix(Matrix!WireEntries \o Matrix!LayerEntries)
      /\ AllSayCodec(Matrix!WireEntries \o Matrix!LayerEntries)
    BY WireTyped, LayerTyped, MatricesJoin, LayersSay, SayingJoins
<1>4. IsMatrix(W) /\ AllSayCodec(W)
    BY <1>3, OutsideTyped, MatricesJoin, LayersSay, SayingJoins
<1> HIDE DEF W
<1>5. AllSayCodec(W \o M)
    BY <1>1, <1>2, <1>4, SayingJoins
<1>6. Matrix!Canonical = W \o M
    BY DEF Matrix!Canonical, W, M
<1>7. DOMAIN Matrix!Canonical = 1..Len(Matrix!Canonical)
    BY CanonicalTyped, MatrixShape
<1> QED
    BY <1>5, <1>6, <1>7 DEF AllSayCodec, Matrix!Range

-----------------------------------------------------------------------------

(* What a matrix of entries claims, it claims rightly.                     *)
LEMMA MatrixClaimsHold ==
    ASSUME IsMatrix(file)
    PROVE  MatrixClaims
<1>1. Matrix!RulesDecide
    BY MatrixPasses DEF Matrix!RulesDecide, Matrix!Valid
<1>2. Matrix!NumbersClaimNothingReal
    BY NothingReal DEF Matrix!NumbersClaimNothingReal, Matrix!Valid
<1>3. Matrix!MetricsAddUp
    BY CountedOnce DEF Matrix!MetricsAddUp
<1>4. Matrix!ImplementedHasCodec
    BY CanonicalSays DEF Matrix!ImplementedHasCodec, SaysCodec
<1> QED
    BY <1>1, <1>2, <1>3, <1>4 DEF MatrixClaims

(* Whatever entries people revise, copy or remove, and with whatever       *)
(* values, validate_matrix passes the file exactly if every rule holds of  *)
(* every entry and nothing is missing or repeated; the numbers of          *)
(* compute_metrics then claim nothing of the real world and count every    *)
(* entry once; and what is called implemented has its codec.               *)
THEOREM MatrixClaimsOnlyWhatHolds == Spec => []MatrixClaims
<1>1. Init => IsMatrix(file)
    BY CanonicalTyped DEF Init, Matrix!Init
<1>2. IsMatrix(file) /\ [Next]_allVars => IsMatrix(file)'
  <2>1. [Next]_allVars => [Matrix!Next]_matrixVars
      BY DEF Next, allVars
  <2> QED
      BY <2>1, MatrixKept
<1>3. IsMatrix(file) => MatrixClaims
    BY MatrixClaimsHold
<1> QED
    BY <1>1, <1>2, <1>3, PTL DEF Spec

-----------------------------------------------------------------------------
(* The codec: whatever was decoded was decoded from bytes, of a line, a    *)
(* frame or a record; such a message is what its bytes encode and back.    *)

(* Sequences with the same elements are the same.                          *)
LEMMA SameElements ==
    ASSUME NEW S, NEW s \in Seq(S), NEW t \in Seq(S), Len(s) = Len(t),
           \A i \in 1..Len(s) : s[i] = t[i]
    PROVE  s = t
<1>1. s = [i \in 1..Len(s) |-> s[i]] /\ t = [i \in 1..Len(t) |-> t[i]]
    OBVIOUS
<1> QED
    BY <1>1

(* A stretch of a sequence.                                                *)
LEMMA Stretch ==
    ASSUME NEW S, NEW s \in Seq(S), NEW a \in Nat \ {0}, NEW z \in Nat, z <= Len(s), a <= z + 1
    PROVE  /\ SubSeq(s, a, z) \in Seq(S) /\ Len(SubSeq(s, a, z)) = z - a + 1
           /\ \A i \in 1..z - a + 1 : SubSeq(s, a, z)[i] = s[a + i - 1]
<1>1. Len(s) \in Nat /\ \A i \in a..z : i \in 1..Len(s)
    OBVIOUS
<1> QED
    BY <1>1

(* A sequence after another.                                               *)
LEMMA Joined ==
    ASSUME NEW S, NEW s \in Seq(S), NEW t \in Seq(S)
    PROVE  /\ s \o t \in Seq(S) /\ Len(s \o t) = Len(s) + Len(t)
           /\ \A i \in 1..Len(s) : (s \o t)[i] = s[i]
           /\ \A i \in 1..Len(t) : (s \o t)[Len(s) + i] = t[i]
OBVIOUS

(* What the bytes of an encoded record are.                                *)
LEMMA PayloadBytes ==
    ASSUME NEW r, r.prefix \in Nat, r.record_len \in Nat, r.iv \in Nat, r.hmac \in Nat,
           r.ciphertext \in Seq(Nat)
    PROVE  LET c == r.ciphertext
               e == Codec!EncodePayload(r) IN
           /\ e \in Seq(Nat) /\ Len(e) = Len(c) + 4
           /\ e[1] = r.prefix /\ e[2] = r.record_len /\ e[3] = r.iv /\ e[Len(c) + 4] = r.hmac
           /\ \A i \in 1..Len(c) : e[i + 3] = c[i]
<1> DEFINE c == r.ciphertext
           h == <<r.prefix, r.record_len, r.iv>>
           t == <<r.hmac>>
           b == h \o c
           e == Codec!EncodePayload(r)
<1>1. h \in Seq(Nat) /\ Len(h) = 3 /\ h[1] = r.prefix /\ h[2] = r.record_len /\ h[3] = r.iv
    OBVIOUS
<1>2. t \in Seq(Nat) /\ Len(t) = 1 /\ t[1] = r.hmac
    OBVIOUS
<1>3. e = (h \o c) \o t
    BY DEF Codec!EncodePayload
<1>4. c \in Seq(Nat) /\ Len(c) \in Nat
    OBVIOUS
<1> HIDE DEF h, t, c, e
<1>5. /\ b \in Seq(Nat) /\ Len(b) = Len(h) + Len(c)
      /\ \A i \in 1..Len(h) : b[i] = h[i]
      /\ \A i \in 1..Len(c) : b[Len(h) + i] = c[i]
  <2>1. h \in Seq(Nat) /\ c \in Seq(Nat)
      BY <1>1, <1>4
  <2> QED
      BY <2>1, Joined
<1> HIDE DEF b
<1>6. /\ e \in Seq(Nat) /\ Len(e) = Len(b) + Len(t)
      /\ \A i \in 1..Len(b) : e[i] = b[i]
      /\ \A i \in 1..Len(t) : e[Len(b) + i] = t[i]
  <2>1. b \in Seq(Nat) /\ t \in Seq(Nat)
      BY <1>2, <1>5
  <2>2. /\ b \o t \in Seq(Nat) /\ Len(b \o t) = Len(b) + Len(t)
        /\ \A i \in 1..Len(b) : (b \o t)[i] = b[i]
        /\ \A i \in 1..Len(t) : (b \o t)[Len(b) + i] = t[i]
      BY <2>1, Joined
  <2>3. e = b \o t
      BY <1>3 DEF b
  <2> QED
      BY <2>2, <2>3
<1>7. Len(b) = 3 + Len(c) /\ Len(e) = Len(c) + 4
    BY <1>1, <1>2, <1>4, <1>5, <1>6
<1>8. \A i \in 1..Len(c) : e[i + 3] = c[i]
  <2> TAKE i \in 1..Len(c)
  <2>1. 3 + i \in 1..Len(b) /\ 3 + i = i + 3
      BY <1>4, <1>7
  <2> QED
      BY <1>1, <1>5, <1>6, <2>1
<1>9. e[1] = h[1] /\ e[2] = h[2] /\ e[3] = h[3]
  <2>1. \A i \in 1..3 : i \in 1..Len(b) /\ i \in 1..Len(h)
      BY <1>1, <1>4, <1>7
  <2> QED
      BY <1>5, <1>6, <2>1
<1>10. e[Len(c) + 4] = t[1]
  <2>1. 1 \in 1..Len(t) /\ Len(b) + 1 = Len(c) + 4
      BY <1>2, <1>4, <1>7
  <2> QED
      BY <1>6, <2>1
<1> QED
    BY <1>1, <1>2, <1>6, <1>7, <1>8, <1>9, <1>10 DEF c, e

(* A body that holds a record is the record's encoding.                    *)
LEMMA DecodeThenEncode ==
    ASSUME NEW p \in Seq(Nat), Codec!DecodePayload(p) # Codec!NoRecord
    PROVE  Codec!EncodePayload(Codec!DecodePayload(p)) = p
<1> DEFINE r == Codec!DecodePayload(p)
           c == SubSeq(p, 4, Len(p) - 1)
<1>1. Len(p) >= 4 /\ p[2] >= 2 /\ Len(p) = 2 + p[2]
    BY DEF Codec!DecodePayload, Codec!MIN_RECORD_LEN, Codec!HeaderLen, Codec!IvLen, Codec!HmacLen
<1>2. /\ r.prefix = p[1] /\ r.record_len = p[2] /\ r.iv = p[3] /\ r.ciphertext = c
      /\ r.hmac = p[Len(p)]
    BY <1>1 DEF Codec!DecodePayload, Codec!MIN_RECORD_LEN, Codec!HeaderLen, Codec!IvLen,
                Codec!HmacLen
<1>3. p[1] \in Nat /\ p[2] \in Nat /\ p[3] \in Nat /\ p[Len(p)] \in Nat /\ Len(p) \in Nat
    BY <1>1
<1>4. /\ c \in Seq(Nat) /\ Len(c) = Len(p) - 4
      /\ \A i \in 1..Len(p) - 4 : c[i] = p[i + 3]
  <2> DEFINE z == Len(p) - 1
  <2>1. z \in Nat /\ z <= Len(p) /\ 4 <= z + 1 /\ z - 4 + 1 = Len(p) - 4 /\ 4 \in Nat \ {0}
    <3>1. Len(p) \in Nat /\ Len(p) >= 4
        BY <1>1, <1>3
    <3> QED
        BY <3>1
  <2> HIDE DEF z
  <2>2. /\ SubSeq(p, 4, z) \in Seq(Nat) /\ Len(SubSeq(p, 4, z)) = z - 4 + 1
        /\ \A i \in 1..z - 4 + 1 : SubSeq(p, 4, z)[i] = p[4 + i - 1]
      BY <2>1, Stretch
  <2>3. \A i \in 1..Len(p) - 4 : 4 + i - 1 = i + 3
      OBVIOUS
  <2>4. c = SubSeq(p, 4, z)
      BY DEF z
  <2> HIDE DEF c
  <2> QED
      BY <2>1, <2>2, <2>3, <2>4
<1> HIDE DEF c, r
<1> DEFINE e == Codec!EncodePayload(r)
<1>5. /\ e \in Seq(Nat) /\ Len(e) = Len(c) + 4
      /\ e[1] = p[1] /\ e[2] = p[2] /\ e[3] = p[3] /\ e[Len(c) + 4] = p[Len(p)]
      /\ \A i \in 1..Len(c) : e[i + 3] = c[i]
  <2> HIDE DEF e
  <2> QED
      BY <1>2, <1>3, <1>4, PayloadBytes DEF e
<1> HIDE DEF e
<1>6. ASSUME NEW i \in 1..Len(p) PROVE e[i] = p[i]
  <2>1. CASE i \in 4..Len(p) - 1
    <3>1. i - 3 \in 1..Len(p) - 4 /\ (i - 3) + 3 = i
        BY <1>3, <2>1
    <3>2. \A k \in 1..Len(p) - 4 : e[k + 3] = p[k + 3]
        BY <1>4, <1>5
    <3> QED
        BY <3>1, <3>2
  <2>2. CASE i = Len(p)
      BY <1>3, <1>4, <1>5, <2>2
  <2>3. CASE i \in 1..3
      BY <1>5, <2>3
  <2> QED
      BY <1>1, <1>3, <2>1, <2>2, <2>3
<1>7. Len(e) = Len(p)
    BY <1>3, <1>4, <1>5
<1>8. e = p
    BY <1>5, <1>6, <1>7, SameElements
<1> QED
    BY <1>8 DEF e, r

(* A record whose lengths agree is decoded from its encoding.              *)
LEMMA EncodeThenDecode ==
    ASSUME NEW r, Codec!IsRecord(r), Codec!ValidLengths(r)
    PROVE  /\ Codec!EncodePayload(r) \in Seq(Nat)
           /\ Codec!DecodePayload(Codec!EncodePayload(r)) = r
<1> DEFINE c == r.ciphertext
           p == Codec!EncodePayload(r)
           d == SubSeq(p, 4, Len(p) - 1)
<1>1. /\ r.prefix \in Nat /\ r.record_len \in Nat /\ r.iv \in Nat /\ c \in Seq(Nat) /\ r.hmac \in Nat
      /\ r = [prefix |-> r.prefix, record_len |-> r.record_len, iv |-> r.iv,
              ciphertext |-> c, hmac |-> r.hmac]
    BY DEF Codec!IsRecord
<1>2. r.record_len >= 2 /\ Len(c) = r.record_len - 2
    BY DEF Codec!ValidLengths, Codec!MIN_RECORD_LEN, Codec!IvLen, Codec!HmacLen
<1>3. /\ p \in Seq(Nat) /\ Len(p) = Len(c) + 4
      /\ p[1] = r.prefix /\ p[2] = r.record_len /\ p[3] = r.iv /\ p[Len(c) + 4] = r.hmac
      /\ \A i \in 1..Len(c) : p[i + 3] = c[i]
    BY <1>1, PayloadBytes
<1> HIDE DEF c, p
<1>4. Len(p) = 2 + p[2] /\ Len(p) >= 4 /\ p[2] >= 2 /\ Len(c) \in Nat
    BY <1>1, <1>2, <1>3
<1>5. d = c
  <2> DEFINE z == Len(p) - 1
  <2>1. z \in Nat /\ z <= Len(p) /\ 4 <= z + 1 /\ z - 4 + 1 = Len(c) /\ 4 \in Nat \ {0}
      BY <1>3, <1>4
  <2> HIDE DEF z
  <2> DEFINE y == SubSeq(p, 4, z)
  <2>2. /\ y \in Seq(Nat) /\ Len(y) = z - 4 + 1
        /\ \A i \in 1..z - 4 + 1 : y[i] = p[4 + i - 1]
    <3>1. p \in Seq(Nat)
        BY <1>3
    <3> QED
        BY <2>1, <3>1, Stretch
  <2> HIDE DEF y
  <2>3. \A i \in 1..Len(c) : y[i] = c[i]
    <3> TAKE i \in 1..Len(c)
    <3>1. 4 + i - 1 = i + 3
        BY <1>4
    <3>2. y[i] = p[4 + i - 1]
        BY <2>1, <2>2
    <3>3. p[i + 3] = c[i]
        BY <1>3
    <3> QED
        BY <3>1, <3>2, <3>3
  <2>4. y = c
    <3>1. c \in Seq(Nat) /\ Len(c) = Len(y)
        BY <1>1, <2>1, <2>2
    <3> QED
        BY <2>2, <2>3, <3>1, SameElements
  <2> QED
      BY <2>4 DEF y, z
<1>6. Codec!DecodePayload(p) = [prefix |-> p[1], record_len |-> p[2], iv |-> p[3],
                                ciphertext |-> d, hmac |-> p[Len(p)]]
  <2>1. Codec!HeaderLen + Codec!MIN_RECORD_LEN = 4 /\ Codec!MIN_RECORD_LEN = 2
        /\ Codec!HeaderLen + 1 = 3 /\ Codec!HeaderLen + Codec!IvLen + 1 = 4
        /\ Codec!HeaderLen = 2 /\ Codec!HmacLen = 1
      BY DEF Codec!MIN_RECORD_LEN, Codec!HeaderLen, Codec!IvLen, Codec!HmacLen
  <2>2. ~(Len(p) < 4) /\ ~(p[2] < 2) /\ 2 + p[2] = Len(p)
      BY <1>1, <1>3, <1>4
  <2> QED
      BY <2>1, <2>2 DEF Codec!DecodePayload
<1> HIDE DEF d
<1>7. p[Len(p)] = r.hmac
    BY <1>3
<1>8. Codec!DecodePayload(p) = [prefix |-> r.prefix, record_len |-> r.record_len, iv |-> r.iv,
                                ciphertext |-> c, hmac |-> r.hmac]
    BY <1>3, <1>5, <1>6, <1>7, Zenon
<1> QED
    BY <1>1, <1>3, <1>8 DEF p

(* Encoding a decoded message gives its body back.                         *)
LEMMA BodyKept ==
    ASSUME NEW env, env.payload \in Seq(Nat)
    PROVE  Codec!EncodeMessage(Codec!DecodeMessage(env)) = env.payload
<1> DEFINE m == Codec!DecodeMessage(env)
<1>1. /\ m.payload = env.payload
      /\ m.record = IF env.id = 26 THEN Codec!DecodePayload(env.payload) ELSE Codec!NoRecord
    BY DEF Codec!DecodeMessage
<1> HIDE DEF m
<1>2. m.record # Codec!NoRecord => Codec!EncodePayload(m.record) = env.payload
    BY <1>1, DecodeThenEncode
<1>3. Codec!EncodeMessage(m) = env.payload
    BY <1>1, <1>2 DEF Codec!EncodeMessage
<1> QED
    BY <1>3 DEF m

(* A message decoded from its parts.                                       *)
Message(id, context, direction, payload) ==
    Codec!DecodeMessage(Codec!Envelope(id, context, direction, payload))

(* Its fields.                                                             *)
LEMMA MessageFields ==
    ASSUME NEW id, NEW context, NEW direction, NEW payload
    PROVE  LET m == Message(id, context, direction, payload) IN
           /\ m.id = id /\ m.context = context /\ m.direction = direction /\ m.payload = payload
           /\ m.record = IF id = 26 THEN Codec!DecodePayload(payload) ELSE Codec!NoRecord
BY DEF Message, Codec!DecodeMessage, Codec!Envelope

(* A message is known if its id is.                                        *)
LEMMA KnownField ==
    ASSUME NEW id, NEW context, NEW direction, NEW payload
    PROVE  Message(id, context, direction, payload).known = (id \in Codec!CODEC_KNOWN_IDS)
<1> DEFINE m == Message(id, context, direction, payload)
           record == IF id = 26 THEN Codec!DecodePayload(payload) ELSE Codec!NoRecord
<1>1. m = [id |-> id, context |-> context, direction |-> direction,
           known |-> id \in Codec!CODEC_KNOWN_IDS, record |-> record, payload |-> payload]
    BY DEF Message, Codec!DecodeMessage, Codec!Envelope, Codec!CODEC_KNOWN_IDS
<1> HIDE DEF m, record
<1>2. m.known = (id \in Codec!CODEC_KNOWN_IDS)
    BY <1>1, Zenon
<1> QED
    BY <1>2, Zenon DEF m

(* Of a message decoded from bytes: encoding gives them back, and decoding *)
(* these gives the message back.                                           *)
LEMMA MessageRoundTrip ==
    ASSUME NEW id, NEW context, NEW direction, NEW payload \in Seq(Nat)
    PROVE  LET m == Message(id, context, direction, payload) IN
           /\ Codec!EncodeMessage(m) = payload
           /\ Message(m.id, m.context, m.direction, Codec!EncodeMessage(m)) = m
           /\ Codec!RoundtripOk(m)
<1> DEFINE m == Message(id, context, direction, payload)
<1>1. Codec!EncodeMessage(m) = payload
  <2> DEFINE env == Codec!Envelope(id, context, direction, payload)
  <2>1. env.payload = payload
      BY DEF Codec!Envelope
  <2> HIDE DEF env
  <2>2. Codec!EncodeMessage(Codec!DecodeMessage(env)) = payload
      BY <2>1, BodyKept
  <2> QED
      BY <2>2 DEF env, Message
<1>2. m.id = id /\ m.context = context /\ m.direction = direction
    BY MessageFields
<1> HIDE DEF m
<1>3. Message(m.id, m.context, m.direction, Codec!EncodeMessage(m)) = m
    BY <1>1, <1>2 DEF m
<1>4. Codec!RoundtripOk(m)
    BY <1>3 DEF Codec!RoundtripOk, Message
<1> QED
    BY <1>1, <1>3, <1>4 DEF m

(* What was done last with the codec, of what was given to it.             *)
ScanTold(line) ==
    [op |-> "scan", line |-> line,
     decoded |-> <<Message(line.id % 65536, 0, line.dir, Codec!Payload(line))>>]
FrameTold(frame) ==
    [op |-> "frame", frame |-> frame, decoded |-> Codec!DecodeFromFrame(frame)]
SendTold(r) ==
    [op |-> "send", built |-> r,
     decoded |-> IF Codec!ValidLengths(r)
                 THEN <<Message(26, 0, "S2C", Codec!EncodePayload(r))>> ELSE <<>>]

LastTold ==
    \/ last = Codec!Nothing
    \/ \E line \in ScannedLines : last = ScanTold(line)
    \/ \E frame \in OpenedFrames : last = FrameTold(frame)
    \/ \E r \in BuiltRecords : last = SendTold(r)

(* The bytes of a line, from the body on or from the id on, are bytes.     *)
LEMMA LinePayload ==
    ASSUME NEW line \in ScannedLines
    PROVE  /\ Codec!Payload(line) \in Seq(Nat)
           /\ \/ Codec!Payload(line) = line.body
              \/ /\ line.kind = "plaintext" /\ line.hex = line.body
                 /\ Len(line.body) >= Codec!HeaderLen /\ line.body[1] = line.id % 65536
<1>1. Codec!IsLine(line)
    BY CodecAssumption
<1> DEFINE headed == line.kind = "plaintext" /\ Len(line.hex) >= Codec!HeaderLen
                     /\ line.hex[1] = line.id % 65536
           rest == SubSeq(line.hex, Codec!HeaderLen + 1, Len(line.hex))
<1>2. line.hex \in Seq(Nat) /\ (line.body = line.hex \/ (headed /\ line.body = rest))
    BY <1>1 DEF Codec!IsLine
<1>3. Codec!Payload(line) = IF headed THEN rest ELSE line.hex
    BY DEF Codec!Payload
<1>4. headed => rest \in Seq(Nat)
  <2> SUFFICES ASSUME Len(line.hex) >= 2
               PROVE  SubSeq(line.hex, 3, Len(line.hex)) \in Seq(Nat)
      BY DEF Codec!HeaderLen
  <2> DEFINE z == Len(line.hex)
  <2>1. z \in Nat /\ z <= Len(line.hex) /\ 3 <= z + 1 /\ 3 \in Nat \ {0}
      BY <1>2
  <2> HIDE DEF z
  <2>2. SubSeq(line.hex, 3, z) \in Seq(Nat)
      BY <1>2, <2>1, Stretch
  <2> QED
      BY <2>2 DEF z
<1> HIDE DEF rest
<1> QED
    BY <1>2, <1>3, <1>4

(* A decoded frame has its first two numbers as id and context, and the    *)
(* others as its body.                                                     *)
LEMMA FrameParts ==
    ASSUME NEW frame \in OpenedFrames
    PROVE  \/ /\ Codec!DecodeFromFrame(frame) = <<>>
              /\ frame.kind = "opaque" \/ Len(frame.plaintext) < Codec!HeaderLen
           \/ \E body \in Seq(Nat) :
                /\ <<frame.plaintext[1], frame.plaintext[2]>> \o body = frame.plaintext
                /\ Codec!DecodeFromFrame(frame) =
                      <<Message(frame.plaintext[1], frame.plaintext[2], frame.dir, body)>>
<1> DEFINE p == frame.plaintext
           body == SubSeq(p, 3, Len(p))
           h == <<p[1], p[2]>>
<1>1. p \in Seq(Nat) /\ Len(p) \in Nat
    BY CodecAssumption
<1>2. Codec!HeaderLen = 2 /\ Codec!HeaderLen + 1 = 3
    BY DEF Codec!HeaderLen
<1>3. CASE frame.kind = "opaque" \/ Len(p) < 2
    BY <1>2, <1>3 DEF Codec!DecodeFromFrame
<1>4. CASE ~(frame.kind = "opaque" \/ Len(p) < 2)
  <2>1. Codec!DecodeFromFrame(frame) = <<Message(p[1], p[2], frame.dir, body)>>
      BY <1>2, <1>4 DEF Codec!DecodeFromFrame, Message
  <2>2. Len(p) >= 2
      BY <1>1, <1>4
  <2>3. /\ body \in Seq(Nat) /\ Len(body) = Len(p) - 2
        /\ \A i \in 1..Len(p) - 2 : body[i] = p[i + 2]
    <3> DEFINE z == Len(p)
    <3>1. z \in Nat /\ z <= Len(p) /\ 3 <= z + 1 /\ 3 \in Nat \ {0} /\ z - 3 + 1 = Len(p) - 2
        BY <1>1, <2>2
    <3> HIDE DEF z, p
    <3>2. /\ SubSeq(p, 3, z) \in Seq(Nat) /\ Len(SubSeq(p, 3, z)) = z - 3 + 1
          /\ \A i \in 1..z - 3 + 1 : SubSeq(p, 3, z)[i] = p[3 + i - 1]
        BY <1>1, <3>1, Stretch
    <3>3. \A i \in 1..Len(p) - 2 : 3 + i - 1 = i + 2
        OBVIOUS
    <3>4. body = SubSeq(p, 3, z)
        BY DEF z
    <3> HIDE DEF body
    <3> QED
        BY <3>1, <3>2, <3>3, <3>4
  <2>4. h \in Seq(Nat) /\ Len(h) = 2 /\ h[1] = p[1] /\ h[2] = p[2]
    <3>1. p[1] \in Nat /\ p[2] \in Nat
        BY <1>1, <2>2
    <3> HIDE DEF p
    <3> QED
        BY <3>1
  <2> HIDE DEF p, body, h
  <2>5. /\ h \o body \in Seq(Nat) /\ Len(h \o body) = Len(h) + Len(body)
        /\ \A i \in 1..Len(h) : (h \o body)[i] = h[i]
        /\ \A i \in 1..Len(body) : (h \o body)[Len(h) + i] = body[i]
    <3>1. h \in Seq(Nat) /\ body \in Seq(Nat)
        BY <2>3, <2>4
    <3> QED
        BY <3>1, Joined
  <2> DEFINE e == h \o body
  <2>6. /\ e \in Seq(Nat) /\ Len(e) = Len(h) + Len(body)
        /\ \A i \in 1..Len(h) : e[i] = h[i]
        /\ \A i \in 1..Len(body) : e[Len(h) + i] = body[i]
      BY <2>5
  <2> HIDE DEF e
  <2>7. Len(e) = Len(p)
      BY <1>1, <2>3, <2>4, <2>6
  <2>8. ASSUME NEW i \in 1..Len(e) PROVE e[i] = p[i]
    <3>1. CASE i \in 1..2
        BY <2>4, <2>6, <3>1
    <3>2. CASE i \in 3..Len(p)
      <4>1. i - 2 \in 1..Len(body) /\ 2 + (i - 2) = i /\ (i - 2) + 2 = i /\ i - 2 \in 1..Len(p) - 2
          BY <1>1, <2>3, <3>2
      <4>2. \A k \in 1..Len(body) : e[2 + k] = p[k + 2]
          BY <2>3, <2>4, <2>6
      <4> QED
          BY <4>1, <4>2
    <3>3. i \in 1..2 \/ i \in 3..Len(p)
        BY <1>1, <2>7
    <3> QED
        BY <3>1, <3>2, <3>3
  <2>9. e = p
      BY <1>1, <2>6, <2>7, <2>8, SameElements
  <2> QED
      BY <2>1, <2>3, <2>9 DEF e, h, p
<1> QED
    BY <1>3, <1>4

(* A message is what the codec makes of some bytes.                        *)
FromBytes(m) ==
    \E id, context, direction : \E payload \in Seq(Nat) :
        m = Message(id, context, direction, payload)

(* A message decoded from bytes, by construction.                          *)
LEMMA AnyMessage ==
    \A id, context, direction : \A payload \in Seq(Nat) :
        FromBytes(Message(id, context, direction, payload))
BY Zenon DEF FromBytes

(* Whatever was decoded was decoded from bytes.                            *)
LEMMA DecodedFromBytes ==
    ASSUME LastTold, NEW m \in Codec!Decoded
    PROVE  FromBytes(m)
<1>1. PICK i \in 1..Len(last.decoded) : m = last.decoded[i]
    BY DEF Codec!Decoded
<1>2. last # Codec!Nothing
    BY <1>1 DEF Codec!Nothing
<1>3. ASSUME NEW line \in ScannedLines,
             last = ScanTold(line)
      PROVE  FromBytes(m)
  <2>1. m = Message(line.id % 65536, 0, line.dir, Codec!Payload(line))
    <3> DEFINE x == Message(line.id % 65536, 0, line.dir, Codec!Payload(line))
    <3>1. last.decoded = <<x>>
        BY <1>3 DEF ScanTold
    <3> HIDE DEF x
    <3>2. m = x
        BY <1>1, <3>1
    <3> QED
        BY <3>2 DEF x
  <2>2. Codec!Payload(line) \in Seq(Nat)
      BY LinePayload
  <2> QED
      BY <2>1, <2>2, AnyMessage
<1>4. ASSUME NEW frame \in OpenedFrames,
             last = FrameTold(frame)
      PROVE  FromBytes(m)
  <2>1. last.decoded = Codec!DecodeFromFrame(frame)
      BY <1>4 DEF FrameTold
  <2>2. Codec!DecodeFromFrame(frame) # <<>>
      BY <1>1, <2>1
  <2>3. PICK body \in Seq(Nat) : Codec!DecodeFromFrame(frame) =
            <<Message(frame.plaintext[1], frame.plaintext[2], frame.dir, body)>>
      BY <2>2, FrameParts
  <2> DEFINE x == Message(frame.plaintext[1], frame.plaintext[2], frame.dir, body)
  <2>4. last.decoded = <<x>>
      BY <2>1, <2>3
  <2> HIDE DEF x
  <2>5. m = x
      BY <1>1, <2>4
  <2> QED
      BY <2>5, AnyMessage DEF x
<1>5. ASSUME NEW r \in BuiltRecords,
             last = SendTold(r)
      PROVE  FromBytes(m)
  <2> DEFINE x == Message(26, 0, "S2C", Codec!EncodePayload(r))
  <2>1. last.decoded = IF Codec!ValidLengths(r) THEN <<x>> ELSE <<>>
      BY <1>5 DEF SendTold
  <2> HIDE DEF x
  <2>2. Codec!ValidLengths(r) /\ m = x
      BY <1>1, <2>1
  <2>3. Codec!EncodePayload(r) \in Seq(Nat)
      BY <2>2, CodecAssumption, EncodeThenDecode
  <2> QED
      BY <2>2, <2>3, AnyMessage DEF x
<1> QED
    BY <1>2, <1>3, <1>4, <1>5, Zenon DEF LastTold

(* What the tables say of an id.                                           *)
LEMMA Directions ==
    /\ \A id \in {30, 25, 121, 302, 250, 10, 12, 18, 21, 23, 32, 123, 171, 16, 42} :
          Codec!TypicalDirection(id) = "C2S"
    /\ \A id \in {31, 26, 122, 303, 251, 11, 13, 19, 22, 24, 33, 17, 43} :
          Codec!TypicalDirection(id) = "S2C"
BY DEF Codec!TypicalDirection

(* The tables agree on every id.                                           *)
LEMMA Tables ==
    ASSUME NEW id
    PROVE  LET e == Codec!RegistryEntry(id) IN
           /\ id \in Codec!CODEC_KNOWN_IDS <=> e.status # "UNKNOWN"
           /\ id = 26 => e.status = "CONFIRMED_STRUCTURE"
           /\ id \in Codec!CODEC_KNOWN_IDS => e.named /\ e.direction # "UNKNOWN"
           /\ {id, id + 1} \subseteq Codec!EXPECTED_MESSAGE_IDS =>
                  {e.direction, Codec!TypicalDirection(id + 1)} = {"C2S", "S2C"}
<1> DEFINE e == Codec!RegistryEntry(id)
           C == {30, 25, 121, 302, 250, 10, 12, 18, 21, 23, 32, 123, 171, 16, 42}
           S == {31, 26, 122, 303, 251, 11, 13, 19, 22, 24, 33, 17, 43}
<1>1. e.status = Codec!StatusFor(id) /\ e.direction = Codec!TypicalDirection(id)
    BY DEF Codec!RegistryEntry
<1>2. e.named = (id \in Codec!NamedIds)
    BY Zenon DEF Codec!RegistryEntry
<1> HIDE DEF e
<1>3. id \in Codec!CODEC_KNOWN_IDS <=> e.status # "UNKNOWN"
    BY <1>1 DEF Codec!StatusFor, Codec!CODEC_KNOWN_IDS
<1>4. id = 26 => e.status = "CONFIRMED_STRUCTURE"
    BY <1>1 DEF Codec!StatusFor
<1>5. ASSUME id \in Codec!CODEC_KNOWN_IDS PROVE e.named /\ e.direction # "UNKNOWN"
  <2>1. id \in Codec!NamedIds
      BY <1>5 DEF Codec!CODEC_KNOWN_IDS, Codec!NamedIds
  <2>2. e.named
      BY <1>2, <2>1, Zenon
  <2>3. id \in C \/ id \in S
      BY <1>5 DEF Codec!CODEC_KNOWN_IDS
  <2>4. e.direction # "UNKNOWN"
      BY <1>1, <2>3, Directions
  <2> QED
      BY <2>2, <2>4
<1>6. ASSUME {id, id + 1} \subseteq Codec!EXPECTED_MESSAGE_IDS
      PROVE  {e.direction, Codec!TypicalDirection(id + 1)} = {"C2S", "S2C"}
  <2>1. id \in Codec!EXPECTED_MESSAGE_IDS /\ id + 1 \in Codec!EXPECTED_MESSAGE_IDS
      BY <1>6
  <2>2. (id \in C /\ id + 1 \in S) \/ (id \in S /\ id + 1 \in C)
      BY <2>1 DEF Codec!EXPECTED_MESSAGE_IDS
  <2>3. CASE id \in C /\ id + 1 \in S
    <3>1. e.direction = "C2S" /\ Codec!TypicalDirection(id + 1) = "S2C"
        BY <1>1, <2>3, Directions
    <3> QED
        BY <3>1
  <2>4. CASE id \in S /\ id + 1 \in C
    <3>1. e.direction = "S2C" /\ Codec!TypicalDirection(id + 1) = "C2S"
        BY <1>1, <2>4, Directions
    <3> QED
        BY <3>1
  <2> QED
      BY <2>2, <2>3, <2>4
<1> QED
    BY <1>3, <1>4, <1>5, <1>6, Zenon DEF e

(* Registry, codec and names agree on what was decoded, and it survives    *)
(* another round.                                                          *)
LEMMA DecodedWell ==
    ASSUME LastTold
    PROVE  Codec!RoundTrip /\ Codec!RegistryAgrees
<1> SUFFICES ASSUME NEW m \in Codec!Decoded
             PROVE  /\ Message(m.id, m.context, m.direction, Codec!EncodeMessage(m)) = m
                    /\ LET e == Codec!RegistryEntry(m.id) IN
                       /\ m.known <=> e.status # "UNKNOWN"
                       /\ m.record # Codec!NoRecord => e.status = "CONFIRMED_STRUCTURE"
                       /\ m.known => e.named /\ e.direction # "UNKNOWN"
                       /\ {m.id, m.id + 1} \subseteq Codec!EXPECTED_MESSAGE_IDS =>
                              {e.direction, Codec!TypicalDirection(m.id + 1)} = {"C2S", "S2C"}
    BY Zenon DEF Codec!RoundTrip, Codec!RegistryAgrees, Message
<1>1. FromBytes(m)
    BY DecodedFromBytes
<1>2. PICK id, context, direction : \E payload \in Seq(Nat) :
          m = Message(id, context, direction, payload)
    BY <1>1, Zenon DEF FromBytes
<1>3. PICK payload \in Seq(Nat) : m = Message(id, context, direction, payload)
    BY <1>2
<1>4. Message(m.id, m.context, m.direction, Codec!EncodeMessage(m)) = m
    BY <1>3, MessageRoundTrip
<1>5. /\ m.id = id
      /\ m.record = IF id = 26 THEN Codec!DecodePayload(payload) ELSE Codec!NoRecord
    BY <1>3, MessageFields
<1>6. m.known = (id \in Codec!CODEC_KNOWN_IDS)
  <2>1. Message(id, context, direction, payload).known = (id \in Codec!CODEC_KNOWN_IDS)
      BY KnownField, Zenon
  <2> QED
      BY <1>3, <2>1, Zenon
<1>7. m.record # Codec!NoRecord => id = 26
    BY <1>5
<1> QED
    BY <1>4, <1>5, <1>6, <1>7, Tables, Zenon

(* A line was scanned by its body, whichever way it was dumped.            *)
LEMMA ScanKeeps == ASSUME LastTold PROVE Codec!BodyRecovered
<1> SUFFICES ASSUME last.op = "scan" PROVE Codec!BodyRecovered
    BY DEF Codec!BodyRecovered
<1>1. PICK line \in ScannedLines : last = ScanTold(line)
    BY DEF LastTold, Codec!Nothing, FrameTold, SendTold
<1> DEFINE x == Message(line.id % 65536, 0, line.dir, Codec!Payload(line))
<1>2. last.line = line /\ last.decoded = <<x>>
    BY <1>1 DEF ScanTold
<1>3. x.payload = Codec!Payload(line)
    BY MessageFields
<1> HIDE DEF x
<1>4. last.decoded[1].payload = Codec!Payload(line)
    BY <1>2, <1>3
<1>5. \/ Codec!Payload(line) = line.body
      \/ /\ line.kind = "plaintext" /\ line.hex = line.body
         /\ Len(line.body) >= Codec!HeaderLen /\ line.body[1] = line.id % 65536
    BY LinePayload
<1> QED
    BY <1>2, <1>4, <1>5 DEF Codec!BodyRecovered

(* A record that was sent arrives as it was built; one was held back for   *)
(* its lengths only.                                                       *)
LEMMA SendKeeps == ASSUME LastTold PROVE Codec!RecordArrives
<1> SUFFICES ASSUME last.op = "send" PROVE Codec!RecordArrives
    BY DEF Codec!RecordArrives
<1>1. PICK r \in BuiltRecords : last = SendTold(r)
    BY DEF LastTold, Codec!Nothing, FrameTold, ScanTold
<1> DEFINE x == Message(26, 0, "S2C", Codec!EncodePayload(r))
<1>2. last.built = r /\ last.decoded = IF Codec!ValidLengths(r) THEN <<x>> ELSE <<>>
    BY <1>1 DEF SendTold
<1>3. x.record = Codec!DecodePayload(Codec!EncodePayload(r))
    BY MessageFields
<1> HIDE DEF x
<1>4. Codec!IsRecord(r)
    BY CodecAssumption
<1>5. CASE Codec!ValidLengths(r)
  <2>1. x.record = r
      BY <1>3, <1>4, <1>5, EncodeThenDecode
  <2>2. last.decoded # <<>> /\ last.decoded[1].record = r
      BY <1>2, <1>5, <2>1
  <2> QED
      BY <1>2, <2>2 DEF Codec!RecordArrives
<1>6. CASE ~Codec!ValidLengths(r)
  <2>1. r.record_len \in Nat /\ Len(r.ciphertext) \in Nat
    <3>1. r.ciphertext \in Seq(Nat) /\ r.record_len \in Nat
        BY <1>4 DEF Codec!IsRecord
    <3> QED
        BY <3>1
  <2>2. r.record_len # Codec!IvLen + Len(r.ciphertext) + Codec!HmacLen
      BY <1>6, <2>1
      DEF Codec!ValidLengths, Codec!MIN_RECORD_LEN, Codec!IvLen, Codec!HmacLen
  <2> QED
      BY <1>2, <1>6, <2>2 DEF Codec!RecordArrives
<1> QED
    BY <1>5, <1>6

(* A frame gives the message that was sent, or none if there was none.     *)
LEMMA FrameKeeps == ASSUME LastTold PROVE Codec!FrameKeepsMessage
<1> SUFFICES ASSUME last.op = "frame" PROVE Codec!FrameKeepsMessage
    BY DEF Codec!FrameKeepsMessage
<1>1. PICK frame \in OpenedFrames : last = FrameTold(frame)
    BY DEF LastTold, Codec!Nothing, SendTold, ScanTold
<1>2. last.frame = frame /\ last.decoded = Codec!DecodeFromFrame(frame)
    BY <1>1 DEF FrameTold
<1>3. CASE /\ Codec!DecodeFromFrame(frame) = <<>>
           /\ frame.kind = "opaque" \/ Len(frame.plaintext) < Codec!HeaderLen
    BY <1>2, <1>3 DEF Codec!FrameKeepsMessage
<1>4. ASSUME NEW body \in Seq(Nat),
             <<frame.plaintext[1], frame.plaintext[2]>> \o body = frame.plaintext,
             Codec!DecodeFromFrame(frame) =
                 <<Message(frame.plaintext[1], frame.plaintext[2], frame.dir, body)>>
      PROVE  Codec!FrameKeepsMessage
  <2> DEFINE x == Message(frame.plaintext[1], frame.plaintext[2], frame.dir, body)
  <2>1. x.id = frame.plaintext[1] /\ x.context = frame.plaintext[2]
      BY MessageFields
  <2>2. Codec!EncodeMessage(x) = body
      BY MessageRoundTrip
  <2>3. last.decoded = <<x>>
      BY <1>2, <1>4
  <2> HIDE DEF x
  <2>4. last.decoded # <<>> /\ last.decoded[1] = x
      BY <2>3
  <2>5. <<x.id, x.context>> \o Codec!EncodeMessage(x) = frame.plaintext
      BY <1>4, <2>1, <2>2, Zenon
  <2> QED
      BY <1>2, <2>4, <2>5, Zenon DEF Codec!FrameKeepsMessage
<1> QED
    BY <1>3, <1>4, FrameParts

(* The counters are numbers, and they add up.                              *)
Adds ==
    /\ tally \in [frames_decoded : Nat, known : Nat, unknown : Nat, structured_1a : Nat,
                  opaque_1a : Nat, roundtrip_failures : Nat]
    /\ countable \in [lines : Nat, of_1a : Nat]
    /\ Codec!TalliesAddUp

(* A line that is counted is counted once in each column.                  *)
LEMMA LineCounted ==
    ASSUME Adds, NEW line \in ScannedLines,
           tally' = Codec!Counted(Message(line.id % 65536, 0, line.dir, Codec!Payload(line))),
           countable' = [lines |-> countable.lines + 1,
                         of_1a |-> countable.of_1a + Codec!One(line.id % 65536 = 26)]
    PROVE  Adds'
<1> DEFINE id == line.id % 65536
           m == Message(id, 0, line.dir, Codec!Payload(line))
           k == Codec!One(m.known)
           u == Codec!One(~m.known)
           s == Codec!One(m.id = 26 /\ m.record # Codec!NoRecord)
           o == Codec!One(m.id = 26 /\ m.record = Codec!NoRecord)
           f == Codec!One(~Codec!RoundtripOk(m))
           n == Codec!One(id = 26)
<1>1. Codec!RoundtripOk(m)
    BY LinePayload, MessageRoundTrip
<1>2. m.id = id
    BY MessageFields
<1> HIDE DEF m, id
<1>3. k \in Nat /\ u \in Nat /\ k + u = 1
  <2>1. CASE m.known
    <3>1. k = 1 /\ u = 0
        BY <2>1 DEF Codec!One
    <3> QED
        BY <3>1
  <2>2. CASE ~m.known
    <3>1. k = 0 /\ u = 1
        BY <2>2 DEF Codec!One
    <3> QED
        BY <3>1
  <2> HIDE DEF k, u
  <2> QED
      BY <2>1, <2>2
<1>4. s \in Nat /\ o \in Nat /\ n \in Nat /\ s + o = n
    BY <1>2 DEF Codec!One
<1>5. f = 0
    BY <1>1 DEF Codec!One
<1>6. tally' = [frames_decoded |-> tally.frames_decoded + 1,
                known |-> tally.known + k, unknown |-> tally.unknown + u,
                structured_1a |-> tally.structured_1a + s, opaque_1a |-> tally.opaque_1a + o,
                roundtrip_failures |-> tally.roundtrip_failures + f]
    BY DEF Codec!Counted, m, id
<1>7. countable' = [lines |-> countable.lines + 1, of_1a |-> countable.of_1a + n]
    BY DEF id
<1> HIDE DEF k, u, s, o, f, n
<1> QED
    BY <1>3, <1>4, <1>5, <1>6, <1>7 DEF Adds, Codec!TalliesAddUp

(* Nothing is decoded or counted at first.                                 *)
LEMMA CodecStarts == Init => LastTold /\ Adds
BY DEF Init, Codec!Init, LastTold, Adds, Codec!TalliesAddUp, Codec!NoTally

(* No step of the codec miscounts, and each tells what it was given.       *)
LEMMA CodecKept ==
    ASSUME LastTold, Adds, [Codec!Next]_codecVars
    PROVE  LastTold' /\ Adds'
<1>1. CASE UNCHANGED codecVars
    BY <1>1 DEF codecVars, LastTold, Adds, Codec!TalliesAddUp
<1>2. ASSUME NEW line \in ScannedLines, Codec!ScanLine(line)
      PROVE  LastTold' /\ Adds'
  <2>1. CASE UNCHANGED <<tally, countable, last>>
      BY <2>1 DEF LastTold, Adds, Codec!TalliesAddUp
  <2>2. CASE ~UNCHANGED <<tally, countable, last>>
    <3> DEFINE x == Message(line.id % 65536, 0, line.dir, Codec!Payload(line))
    <3>1. /\ tally' = Codec!Counted(x)
          /\ last' = [op |-> "scan", line |-> line, decoded |-> <<x>>]
          /\ countable' = [lines |-> countable.lines + 1,
                           of_1a |-> countable.of_1a + Codec!One(line.id % 65536 = 26)]
        BY <1>2, <2>2, SMT DEF Codec!ScanLine, Message
    <3>2. Adds'
        BY <3>1, LineCounted
    <3>3. last' = ScanTold(line)
        BY <3>1 DEF ScanTold
    <3> QED
        BY <3>2, <3>3, Zenon DEF LastTold
  <2> QED
      BY <2>1, <2>2
<1>3. CASE Codec!NextCapture \/ Codec!Finish
    BY <1>3 DEF Codec!NextCapture, Codec!Finish, LastTold, Adds, Codec!TalliesAddUp
<1>4. ASSUME NEW frame \in OpenedFrames, Codec!DecodeFrame(frame)
      PROVE  LastTold' /\ Adds'
  <2>1. last' = FrameTold(frame) /\ UNCHANGED <<tally, countable>>
      BY <1>4, Zenon DEF Codec!DecodeFrame, Codec!Uses, FrameTold
  <2>2. Adds'
      BY <2>1 DEF Adds, Codec!TalliesAddUp
  <2> QED
      BY <2>1, <2>2, Zenon DEF LastTold
<1>5. ASSUME NEW r \in BuiltRecords, Codec!SendRecord(r)
      PROVE  LastTold' /\ Adds'
  <2>1. last' = SendTold(r) /\ UNCHANGED <<tally, countable>>
      BY <1>5, Zenon DEF Codec!SendRecord, Codec!Uses, SendTold, Message
  <2>2. Adds'
      BY <2>1 DEF Adds, Codec!TalliesAddUp
  <2> QED
      BY <2>1, <2>2, Zenon DEF LastTold
<1> QED
    BY <1>1, <1>2, <1>3, <1>4, <1>5, Zenon DEF Codec!Next

(* Whatever lines are scanned, frames decoded and records sent, of any     *)
(* length: decode_message gives back what encode_message was given, field  *)
(* by field, and the other way round; the scan of message-codec-verify     *)
(* takes each line by its body and counts it once in each column, without  *)
(* a failure; a record with lengths that agree arrives as it was built;    *)
(* and registry, codec and names say the same of every id.                 *)
THEOREM CodecSurvives == Spec => []CodecFaithful
<1>1. Init => LastTold /\ Adds
    BY CodecStarts
<1>2. LastTold /\ Adds /\ [Next]_allVars => LastTold' /\ Adds'
  <2>1. [Next]_allVars => [Codec!Next]_codecVars
      BY DEF Next, allVars
  <2> QED
      BY <2>1, CodecKept
<1>3. LastTold /\ Adds => CodecFaithful
    BY DecodedWell, ScanKeeps, SendKeeps, FrameKeeps DEF CodecFaithful, Adds
<1> QED
    BY <1>1, <1>2, <1>3, PTL DEF Spec

-----------------------------------------------------------------------------
(* Several captures: every report has the startup its ids begin with, and  *)
(* the verdict looks at the first report of each capture only.             *)

(* What holds of 0 and goes on from n to n + 1 holds of every number.      *)
LEMMA SetInduction ==
    ASSUME NEW T, 0 \in T, \A n \in Nat : n \in T => n + 1 \in T
    PROVE  Nat \subseteq T
<1> SUFFICES ASSUME Nat \ T # {} PROVE FALSE
    OBVIOUS
<1>1. PICK x \in Nat \ T : \A y \in Nat \ T : x <= y
    BY LeastElement
<1>2. x - 1 \in Nat /\ x = (x - 1) + 1 /\ ~(x <= x - 1)
    BY <1>1
<1>3. x - 1 \in T
    BY <1>1, <1>2
<1> QED
    BY <1>1, <1>2, <1>3

(* The ids of the frames are a sequence: the function that gathers them    *)
(* exists, whatever the frames are.                                        *)
LEMMA IdsGathered ==
    ASSUME NEW frames, Len(frames) \in Nat
    PROVE  \E S : Manifest!MessageIds(frames) \in Seq(S)
<1> DEFINE n == Len(frames)
           id(f) == IF f.kind = "encrypted" /\ f.id = "none" THEN f.hint ELSE f.id
           X == {id(frames[i]) : i \in 1..n}
           Gather(f, i) ==
               IF i = 0 THEN <<>>
               ELSE IF id(frames[i]) = "none" THEN f[i - 1] ELSE Append(f[i - 1], id(frames[i]))
           Gathers(f, m) == f = [i \in 0..m |-> Gather(f, i)]
           ids == CHOOSE f : Gathers(f, n)
           T == {m \in Nat : \E f : Gathers(f, m)}
           Typed == {m \in Nat : m <= n => ids[m] \in Seq(X)}
<1>1. Manifest!MessageIds(frames) = ids[n]
    BY DEF Manifest!MessageIds
<1>2. \A i \in 1..n : id(frames[i]) \in X
    OBVIOUS
<1> HIDE DEF n, X, id
<1>3. 0 \in T
  <2> DEFINE f == [i \in 0..0 |-> <<>>]
  <2>1. f = [i \in 0..0 |-> Gather(f, i)]
      OBVIOUS
  <2> QED
      BY <2>1
<1>4. ASSUME NEW m \in Nat, m \in T PROVE m + 1 \in T
  <2>1. PICK f : f = [i \in 0..m |-> Gather(f, i)]
      BY <1>4
  <2>2. \A i \in 0..m : f[i] = Gather(f, i)
    <3> HIDE DEF Gather
    <3> QED
        BY <2>1
  <2> DEFINE last1 == Gather(f, m + 1)
             g == [i \in 0..m + 1 |-> IF i = m + 1 THEN last1 ELSE f[i]]
  <2>3. /\ g[m + 1] = last1 /\ g[m] = f[m]
        /\ \A i \in 0..m : g[i] = f[i]
        /\ \A i \in 1..m : g[i - 1] = f[i - 1]
        /\ g = [i \in 0..m + 1 |-> g[i]]
    <3> HIDE DEF last1
    <3> QED
        OBVIOUS
  <2> HIDE DEF g
  <2>4. ASSUME NEW i \in 0..m + 1 PROVE g[i] = Gather(g, i)
    <3>1. CASE i = m + 1
      <4>1. i - 1 = m /\ (m + 1) - 1 = m /\ i # 0
          BY <3>1
      <4> QED
          BY <2>3, <3>1, <4>1
    <3>2. CASE i \in 1..m
      <4>1. i \in 0..m /\ i # 0
          BY <3>2
      <4>2. g[i - 1] = f[i - 1] /\ g[i] = f[i]
          BY <2>3, <3>2, <4>1
      <4>3. f[i] = Gather(f, i)
          BY <2>2, <4>1
      <4> QED
          BY <4>1, <4>2, <4>3
    <3>3. CASE i = 0
      <4>1. 0 \in 0..m
          OBVIOUS
      <4>2. g[0] = f[0] /\ f[0] = <<>>
          BY <2>3, <2>2, <4>1
      <4> QED
          BY <3>3, <4>2
    <3> QED
        BY <3>1, <3>2, <3>3
  <2> HIDE DEF Gather
  <2>5. Gathers(g, m + 1)
      BY <2>3, <2>4
  <2> QED
      BY <2>5
<1>5. \E f : Gathers(f, n)
  <2> HIDE DEF T, Gathers
  <2>1. Nat \subseteq T
      BY <1>3, <1>4, SetInduction
  <2>2. n \in T
      BY <2>1 DEF n
  <2> QED
      BY <2>2 DEF T
<1>6. Gathers(ids, n)
  <2> HIDE DEF Gathers
  <2> QED
      BY <1>5
<1> HIDE DEF ids
<1>7. n \in Nat
    BY DEF n
<1>8. \A i \in 0..n : ids[i] = Gather(ids, i)
  <2> HIDE DEF Gather
  <2> QED
      BY <1>6
<1>9. 0 \in Typed
  <2>1. ids[0] = <<>>
      BY <1>7, <1>8
  <2>2. ids[0] \in Seq(X)
      BY <2>1
  <2> QED
      BY <2>2
<1>10. ASSUME NEW m \in Nat, m \in Typed PROVE m + 1 \in Typed
  <2> SUFFICES ASSUME m + 1 <= n PROVE ids[m + 1] \in Seq(X)
      OBVIOUS
  <2>1. m <= n /\ m + 1 \in 1..n /\ m + 1 \in 0..n /\ m + 1 # 0 /\ (m + 1) - 1 = m
      BY <1>7
  <2>2. ids[m] \in Seq(X)
      BY <1>10, <2>1
  <2>3. ids[m + 1] = IF id(frames[m + 1]) = "none" THEN ids[m]
                     ELSE Append(ids[m], id(frames[m + 1]))
      BY <1>8, <2>1
  <2>4. id(frames[m + 1]) \in X
      BY <1>2, <2>1
  <2> QED
      BY <2>2, <2>3, <2>4
<1>11. ids[n] \in Seq(X)
  <2> HIDE DEF Typed
  <2>1. Nat \subseteq Typed
      BY <1>9, <1>10, SetInduction
  <2>2. n \in Typed /\ n <= n
      BY <1>7, <2>1
  <2> QED
      BY <2>2 DEF Typed
<1> QED
    BY <1>1, <1>11

(* One sequence begins with another.                                       *)
Begins(s, t) ==
    /\ Len(s) \in Nat /\ Len(t) \in Nat /\ Len(s) <= Len(t)
    /\ \A k \in 1..Len(s) : s[k] = t[k]

(* The startup sequence is where the ids begin, whether they begin with a  *)
(* part of the hint or not.                                                *)
LEMMA StartupBegins ==
    ASSUME NEW S, NEW ids \in Seq(S)
    PROVE  Begins(Manifest!Startup(ids), ids)
<1> DEFINE h == Len(StartupHint)
           same == {k \in 0..h : k <= Len(ids) /\ SubSeq(ids, 1, k) = SubSeq(StartupHint, 1, k)}
           prefix == CHOOSE k \in same : \A j \in same : j <= k
           six == IF Len(ids) < h THEN Len(ids) ELSE h
<1>1. Manifest!Startup(ids) = IF prefix > 0 THEN SubSeq(ids, 1, prefix) ELSE SubSeq(ids, 1, six)
    BY DEF Manifest!Startup
<1>2. h \in Nat /\ Len(ids) \in Nat
    BY ManifestAssumption
<1>3. 0 \in same
  <2>1. SubSeq(ids, 1, 0) = <<>>
      OBVIOUS
  <2>2. SubSeq(StartupHint, 1, 0) = <<>>
      BY ManifestAssumption
  <2> QED
      BY <1>2, <2>1, <2>2
<1>4. \A k \in same : k \in Nat /\ k <= h /\ k <= Len(ids)
    BY <1>2
<1> HIDE DEF same, h
<1>5. \E k \in same : \A j \in same : j <= k
  <2> DEFINE below == {h - k : k \in same}
  <2>1. below \in SUBSET Nat /\ below # {}
      BY <1>2, <1>3, <1>4
  <2> HIDE DEF below
  <2>2. PICK x \in below : \A y \in below : x <= y
      BY <2>1, LeastElement
  <2>3. PICK k \in same : x = h - k
      BY DEF below
  <2>4. \A j \in same : h - k <= h - j
      BY <2>2, <2>3 DEF below
  <2> QED
      BY <1>2, <1>4, <2>4
<1>6. prefix \in same
    BY <1>5
<1> HIDE DEF prefix
<1>7. ASSUME NEW k \in Nat, k <= Len(ids) PROVE Begins(SubSeq(ids, 1, k), ids)
  <2>1. /\ SubSeq(ids, 1, k) \in Seq(S) /\ Len(SubSeq(ids, 1, k)) = k - 1 + 1
        /\ \A i \in 1..k - 1 + 1 : SubSeq(ids, 1, k)[i] = ids[1 + i - 1]
    <3>1. 1 \in Nat \ {0} /\ 1 <= k + 1
        BY <1>7
    <3> QED
        BY <1>7, <3>1, Stretch
  <2>2. k - 1 + 1 = k /\ \A i \in 1..k : 1 + i - 1 = i
      BY <1>7
  <2> HIDE DEF six
  <2> QED
      BY <1>2, <1>7, <2>1, <2>2 DEF Begins
<1>8. six \in Nat /\ six <= Len(ids)
    BY <1>2
<1> HIDE DEF six
<1>9. Begins(SubSeq(ids, 1, prefix), ids)
    BY <1>4, <1>6, <1>7
<1>10. Begins(SubSeq(ids, 1, six), ids)
    BY <1>7, <1>8
<1> QED
    BY <1>1, <1>9, <1>10

(* A report has known frames only, and only nothing encrypted blocks it.   *)
Framed(r) == r.framing_valid /\ (r.gcm_validation <=> r.encrypted_frames # 0)

(* The reports have the startup their ids begin with, and known frames.    *)
IsReports(rs) ==
    \E T : rs \in Seq(T) /\ \A r \in T : Begins(r.startup_sequence, r.message_ids) /\ Framed(r)

(* A new report has the startup its ids begin with.                        *)
LEMMA ReportBegins ==
    ASSUME NEW e \in ManifestEntries
    PROVE  Begins(Manifest!Report(e).startup_sequence, Manifest!Report(e).message_ids)
<1> DEFINE ids == Manifest!MessageIds(e.fixture.frames)
           r == Manifest!Report(e)
<1>1. r.message_ids = ids /\ r.startup_sequence = Manifest!Startup(ids)
    BY DEF Manifest!Report
<1>2. Len(e.fixture.frames) \in Nat
    BY ManifestAssumption
<1>3. PICK S : ids \in Seq(S)
    BY <1>2, IdsGathered
<1> HIDE DEF ids, r
<1>4. Begins(r.startup_sequence, r.message_ids)
    BY <1>1, <1>3, StartupBegins
<1> QED
    BY <1>4 DEF r

(* The comparison counts as everybody does.                                *)
LEMMA ManifestCardinality == \A S : Manifest!Cardinality(S) = Cardinality(S)
BY DEF Manifest!Cardinality, Cardinality

(* The report of frames that all decode has known frames only.             *)
LEMMA ReportFramed ==
    ASSUME NEW e \in ManifestEntries,
           \A i \in 1..Len(e.fixture.frames) : Manifest!Decodes(e.fixture.frames[i])
    PROVE  Framed(Manifest!Report(e))
<1> DEFINE frames == e.fixture.frames
           S == {i \in 1..Len(frames) : frames[i].kind = "encrypted"}
           n == Manifest!Cardinality(S)
           framed == \A i \in 1..Len(frames) : frames[i].kind # "other"
           r == Manifest!Report(e)
<1>1. r.encrypted_frames = n /\ r.framing_valid = framed /\ r.gcm_validation = (framed /\ n > 0)
    BY Zenon DEF Manifest!Report
<1>2. framed
    BY Zenon DEF Manifest!Decodes
<1>3. n \in Nat
  <2>1. Len(frames) \in Nat
      BY ManifestAssumption
  <2>2. S \in SUBSET (1..Len(frames))
      OBVIOUS
  <2> HIDE DEF S, frames
  <2>3. IsFiniteSet(S)
      BY <2>1, <2>2, CountTo, FS_Subset
  <2>4. Cardinality(S) \in Nat
      BY <2>3, FS_CardinalityType
  <2> QED
      BY <2>4, ManifestCardinality
<1> HIDE DEF n
<1>4. n # 0 <=> n > 0
    BY <1>3
<1> HIDE DEF r, framed
<1>5. Framed(r)
    BY <1>1, <1>2, <1>4, Zenon DEF Framed
<1> QED
    BY <1>5 DEF r

(* What an entry does to the reports.                                      *)
LEMMA EntryRead ==
    ASSUME [Manifest!Next]_manifestVars, reports' # reports
    PROVE  \E e \in ManifestEntries :
              /\ reports' = Append(reports, Manifest!Report(e))
              /\ \A i \in 1..Len(e.fixture.frames) : Manifest!Decodes(e.fixture.frames[i])
<1>1. Manifest!Next
    BY DEF manifestVars
<1>2. PICK e \in ManifestEntries : Manifest!ReadEntry(e)
    BY <1>1 DEF Manifest!Next
<1>3. /\ reports' = Append(reports, Manifest!Report(e))
      /\ \A i \in 1..Len(e.fixture.frames) : Manifest!Decodes(e.fixture.frames[i])
    BY <1>2, Zenon DEF Manifest!ReadEntry, Manifest!Fails
<1> QED
    BY <1>3

(* Whatever is read, the reports keep their shape.                         *)
LEMMA ReportsKept ==
    ASSUME IsReports(reports), [Manifest!Next]_manifestVars
    PROVE  IsReports(reports')
<1>1. CASE reports' = reports
    BY <1>1
<1>2. CASE reports' # reports
  <2>1. PICK e \in ManifestEntries :
            /\ reports' = Append(reports, Manifest!Report(e))
            /\ \A i \in 1..Len(e.fixture.frames) : Manifest!Decodes(e.fixture.frames[i])
      BY <1>2, EntryRead
  <2>2. PICK T :
            reports \in Seq(T) /\ \A r \in T : Begins(r.startup_sequence, r.message_ids) /\ Framed(r)
      BY DEF IsReports
  <2> DEFINE new == Manifest!Report(e)
             B == T \cup {new}
  <2>3. Begins(new.startup_sequence, new.message_ids) /\ Framed(new)
      BY <2>1, ReportBegins, ReportFramed
  <2> HIDE DEF new
  <2>4. \A r \in B : Begins(r.startup_sequence, r.message_ids) /\ Framed(r)
      BY <2>2, <2>3, Zenon
  <2>5. reports \in Seq(B) /\ new \in B
      BY <2>2
  <2> HIDE DEF B
  <2>6. Append(reports, new) \in Seq(B)
      BY <2>5
  <2> QED
      BY <2>1, <2>4, <2>6 DEF IsReports, new
<1> QED
    BY <1>1, <1>2

(* What the shape says of each of them.                                    *)
LEMMA ReportsShape ==
    ASSUME NEW rs, IsReports(rs)
    PROVE  /\ Len(rs) \in Nat
           /\ \A i \in 1..Len(rs) : Begins(rs[i].startup_sequence, rs[i].message_ids)
           /\ \A i \in 1..Len(rs) : Framed(rs[i])
<1>1. PICK T : rs \in Seq(T) /\ \A r \in T : Begins(r.startup_sequence, r.message_ids) /\ Framed(r)
    BY DEF IsReports
<1>2. Len(rs) \in Nat /\ \A i \in 1..Len(rs) : rs[i] \in T
    BY <1>1
<1> QED
    BY <1>1, <1>2, Zenon

(* The reports that count: the first independent one of each capture.      *)
Counts(rs, j) ==
    /\ rs[j].independent
    /\ \A k \in 1..j - 1 : ~(rs[k].independent /\ rs[k].capture_id = rs[j].capture_id)

(* They are what by_id keeps.                                              *)
LEMMA UniqueReports ==
    ASSUME NEW rs
    PROVE  Manifest!Unique(rs) = {rs[j] : j \in {k \in 1..Len(rs) : Counts(rs, k)}}
BY DEF Manifest!Unique, Counts

(* They are finitely many.                                                 *)
LEMMA UniqueFinite ==
    ASSUME NEW rs, Len(rs) \in Nat
    PROVE  IsFiniteSet(Manifest!Unique(rs))
<1> DEFINE P == {k \in 1..Len(rs) : Counts(rs, k)}
           S == {rs[j] : j \in P}
           f == [j \in P |-> rs[j]]
<1>1. IsFiniteSet(1..Len(rs))
    BY CountTo
<1>2. IsFiniteSet(P)
  <2>1. P \in SUBSET (1..Len(rs))
      OBVIOUS
  <2> HIDE DEF P
  <2> QED
      BY <1>1, <2>1, FS_Subset
<1> HIDE DEF P
<1>3. f \in Surjection(P, S)
    BY DEF Surjection
<1> HIDE DEF f
<1>4. IsFiniteSet(S)
    BY <1>2, <1>3, FS_Surjection
<1>5. Manifest!Unique(rs) = S
    BY UniqueReports DEF P
<1> QED
    BY <1>4, <1>5

(* The reports that count are reports.                                     *)
LEMMA UniqueFramed ==
    ASSUME IsReports(reports), NEW r \in Manifest!Unique(reports)
    PROVE  Framed(r)
<1>1. PICK j \in 1..Len(reports) : r = reports[j]
    BY UniqueReports
<1> QED
    BY <1>1, ReportsShape

(* A capture that counts and has nothing encrypted blocks the verdict.     *)
LEMMA Blocks == ASSUME IsReports(reports) PROVE Manifest!BadCaptureBlocks
<1> SUFFICES ASSUME NEW r \in Manifest!Unique(reports), r.encrypted_frames = 0
             PROVE  Manifest!Status(reports) = "Blocked"
    BY DEF Manifest!BadCaptureBlocks, Manifest!U
<1>1. ~Manifest!PipelineOk(r)
    BY UniqueFramed, Zenon DEF Framed, Manifest!PipelineOk
<1>2. ~(\A q \in Manifest!Unique(reports) : Manifest!PipelineOk(q))
    BY <1>1, Zenon
<1> QED
    BY <1>2 DEF Manifest!Status

(* It is blocked for that only.                                            *)
LEMMA KnownFrames == ASSUME IsReports(reports) PROVE Manifest!FramesAreKnown
<1>1. \A i \in 1..Len(reports) : reports[i].framing_valid
    BY ReportsShape, Zenon DEF Framed
<1>2. \A r \in Manifest!Unique(reports) : ~Manifest!PipelineOk(r) => r.encrypted_frames = 0
    BY UniqueFramed, Zenon DEF Framed, Manifest!PipelineOk
<1> QED
    BY <1>1, <1>2, Zenon DEF Manifest!FramesAreKnown, Manifest!U

(* A verdict of two captures rests on two of different names.              *)
LEMMA NeedsTwo == ASSUME IsReports(reports) PROVE Manifest!VerifiedNeedsTwo
<1> DEFINE u == Manifest!Unique(reports)
           names == {r.capture_id : r \in {q \in Manifest!Range(reports) : q.independent}}
<1> SUFFICES ASSUME Manifest!Status(reports) = "VerifiedMultiCapture"
             PROVE  Cardinality(names) >= 2
    BY ManifestCardinality, Zenon DEF Manifest!VerifiedNeedsTwo
<1>1. u # {} /\ Cardinality(u) # 1
    BY ManifestCardinality DEF Manifest!Status
<1>2. Len(reports) \in Nat /\ DOMAIN reports = 1..Len(reports)
    BY DEF IsReports
<1>3. IsFiniteSet(u)
    BY <1>2, UniqueFinite
<1>4. PICK r \in u : TRUE
    BY <1>1
<1>5. u # {r}
    BY <1>1, FS_Singleton
<1>6. PICK q \in u : q # r
    BY <1>4, <1>5
<1>7. u = {reports[j] : j \in {k \in 1..Len(reports) : Counts(reports, k)}}
    BY UniqueReports
<1>8. PICK i \in 1..Len(reports) : Counts(reports, i) /\ r = reports[i]
    BY <1>7
<1>9. PICK j \in 1..Len(reports) : Counts(reports, j) /\ q = reports[j]
    BY <1>7
<1>10. r.independent /\ q.independent
    BY <1>8, <1>9, Zenon DEF Counts
<1>11. r.capture_id # q.capture_id
  <2>1. i < j \/ j < i
      BY <1>6, <1>8, <1>9
  <2>2. CASE i < j
    <3>1. i \in 1..j - 1
        BY <2>2
    <3> QED
        BY <1>8, <1>9, <1>10, <3>1, Zenon DEF Counts
  <2>3. CASE j < i
    <3>1. j \in 1..i - 1
        BY <2>3
    <3> QED
        BY <1>8, <1>9, <1>10, <3>1, Zenon DEF Counts
  <2> QED
      BY <2>1, <2>2, <2>3
<1>12. r.capture_id \in names /\ q.capture_id \in names
  <2>1. r \in Manifest!Range(reports) /\ q \in Manifest!Range(reports)
      BY <1>2, <1>8, <1>9 DEF Manifest!Range
  <2> QED
      BY <1>10, <2>1, Zenon
<1>13. IsFiniteSet(names)
  <2> DEFINE I == {k \in 1..Len(reports) : reports[k].independent}
             f == [k \in I |-> reports[k].capture_id]
  <2>1. IsFiniteSet(I)
    <3>1. I \in SUBSET (1..Len(reports))
        OBVIOUS
    <3> HIDE DEF I
    <3> QED
        BY <1>2, <3>1, CountTo, FS_Subset
  <2>2. names = {reports[k].capture_id : k \in I}
      BY <1>2 DEF Manifest!Range
  <2> HIDE DEF names, I
  <2>3. f \in Surjection(I, names)
      BY <2>2 DEF Surjection
  <2> HIDE DEF f
  <2> QED
      BY <2>1, <2>3, FS_Surjection
<1> HIDE DEF names
<1>14. Cardinality({r.capture_id, q.capture_id}) = 2
  <2> DEFINE S == {r.capture_id}
  <2>1. IsFiniteSet(S) /\ Cardinality(S) = 1
      BY FS_Singleton
  <2>2. q.capture_id \notin S /\ {r.capture_id, q.capture_id} = S \cup {q.capture_id}
      BY <1>11
  <2> HIDE DEF S
  <2>3. Cardinality(S \cup {q.capture_id}) = 2
      BY <2>1, <2>2, FS_AddElement
  <2> QED
      BY <2>2, <2>3
<1>15. {r.capture_id, q.capture_id} \in SUBSET names
    BY <1>12
<1>16. Cardinality({r.capture_id, q.capture_id}) <= Cardinality(names) /\ Cardinality(names) \in Nat
    BY <1>13, <1>15, FS_Subset, FS_CardinalityType
<1> QED
    BY <1>14, <1>16

(* What a stable startup row says.                                         *)
LEMMA StableMeans ==
    ASSUME NEW u, Manifest!Rows(u).startup = "Stable"
    PROVE  LET measured == {r \in u : r.startup_sequence # <<>>} IN
           measured = u /\ Cardinality({r.startup_sequence : r \in measured}) = 1
<1> DEFINE measured == {r \in u : r.startup_sequence # <<>>}
           values == {r.startup_sequence : r \in measured}
<1>1. Manifest!Rows(u).startup =
          CASE values = {} -> "Unknown"
            [] values # {} /\ Manifest!Cardinality(u) = 1 -> "Observed"
            [] Manifest!Cardinality(values) = 1 /\ Manifest!Cardinality(u) > 1 ->
                  IF measured = u THEN "Stable" ELSE "CaptureSpecific"
            [] OTHER -> "Divergent"
    BY DEF Manifest!Rows, Manifest!Classify
<1> HIDE DEF values, measured
<1>2. measured = u /\ Manifest!Cardinality(values) = 1
    BY <1>1
<1> QED
    BY <1>2, ManifestCardinality DEF values, measured

(* Captures with a stable startup row agree on their first messages.       *)
LEMMA StableAgrees == ASSUME IsReports(reports) PROVE Manifest!StableStartupAgrees
<1> DEFINE u == Manifest!Unique(reports)
           values == {r.startup_sequence : r \in u}
<1> SUFFICES ASSUME Manifest!Rows(u).startup = "Stable", NEW r \in u, NEW q \in u,
                    NEW k \in 1..Len(r.startup_sequence)
             PROVE  k <= Len(q.message_ids) /\ q.message_ids[k] = r.message_ids[k]
    BY Zenon DEF Manifest!StableStartupAgrees, Manifest!U
<1>1. Len(reports) \in Nat
    BY DEF IsReports
<1>2. IsFiniteSet(u)
    BY <1>1, UniqueFinite
<1>3. u = {reports[j] : j \in {i \in 1..Len(reports) : Counts(reports, i)}}
    BY UniqueReports
<1>4. \A x \in u : Begins(x.startup_sequence, x.message_ids)
    BY <1>3, ReportsShape
<1>5. Cardinality(values) = 1
  <2> HIDE DEF u
  <2> QED
      BY StableMeans
<1> HIDE DEF u
<1>6. IsFiniteSet(values)
  <2> DEFINE f == [x \in u |-> x.startup_sequence]
  <2>1. f \in Surjection(u, values)
      BY DEF Surjection
  <2> HIDE DEF f, values
  <2> QED
      BY <1>2, <2>1, FS_Surjection
<1>7. r.startup_sequence \in values /\ q.startup_sequence \in values
    OBVIOUS
<1> HIDE DEF values
<1>8. r.startup_sequence = q.startup_sequence
  <2>1. PICK x : values = {x}
      BY <1>5, <1>6, FS_Singleton
  <2> QED
      BY <1>7, <2>1
<1> QED
    BY <1>4, <1>8 DEF Begins

(* A report of a capture that is there, or of no source of its own, leaves *)
(* what counts as it is.                                                   *)
LEMMA RepeatCountsNothing ==
    ASSUME IsReports(reports), NEW x,
           \/ ~x.independent
           \/ \E r \in Manifest!Unique(reports) : r.capture_id = x.capture_id
    PROVE  Manifest!Unique(Append(reports, x)) = Manifest!Unique(reports)
<1> DEFINE n == Len(reports)
           all == Append(reports, x)
           P == {j \in 1..n : Counts(reports, j)}
           Q == {j \in 1..n + 1 : Counts(all, j)}
<1>1. n \in Nat
    BY DEF IsReports
<1>2. Len(all) = n + 1 /\ all[n + 1] = x /\ \A i \in 1..n : all[i] = reports[i]
  <2>1. PICK S : reports \in Seq(S)
      BY DEF IsReports
  <2>2. reports \in Seq(S \cup {x}) /\ x \in S \cup {x}
      BY <2>1
  <2> QED
      BY <2>2
<1>3. /\ Manifest!Unique(reports) = {reports[j] : j \in P}
      /\ Manifest!Unique(all) = {all[j] : j \in Q}
    BY <1>2, UniqueReports
<1> HIDE DEF all, n
<1>4. ~Counts(all, n + 1)
  <2>1. CASE ~x.independent
      BY <1>2, <2>1, Zenon DEF Counts
  <2>2. CASE \E r \in Manifest!Unique(reports) : r.capture_id = x.capture_id
    <3>1. PICK j \in 1..n : Counts(reports, j) /\ reports[j].capture_id = x.capture_id
        BY <1>3, <2>2
    <3>2. reports[j].independent
        BY <3>1, Zenon DEF Counts
    <3>3. j \in 1..(n + 1) - 1
        BY <1>1
    <3>4. all[j] = reports[j]
        BY <1>2
    <3> QED
        BY <1>2, <3>1, <3>2, <3>3, <3>4, Zenon DEF Counts
  <2> QED
      BY <2>1, <2>2, Zenon
<1>5. ASSUME NEW j \in 1..n PROVE Counts(all, j) <=> Counts(reports, j)
  <2>1. all[j] = reports[j] /\ \A k \in 1..j - 1 : all[k] = reports[k]
    <3>1. \A k \in 1..j - 1 : k \in 1..n
        BY <1>1
    <3> QED
        BY <1>2, <3>1
  <2> QED
      BY <2>1, Zenon DEF Counts
<1>6. P = Q
  <2>1. \A j \in 1..n + 1 : j \in 1..n \/ j = n + 1
      BY <1>1
  <2>2. \A j \in 1..n : j \in 1..n + 1
      BY <1>1
  <2> QED
      BY <1>4, <1>5, <2>1, <2>2
<1>7. \A j \in P : all[j] = reports[j]
    BY <1>2
<1>8. {all[j] : j \in Q} = {reports[j] : j \in P}
  <2> HIDE DEF P, Q
  <2> QED
      BY <1>6, <1>7
<1> QED
    BY <1>3, <1>8 DEF all

(* The verdict is one of the reports that count.                           *)
LEMMA SameVerdict ==
    ASSUME NEW rs, NEW qs, Manifest!Unique(rs) = Manifest!Unique(qs)
    PROVE  Manifest!Status(rs) = Manifest!Status(qs)
BY DEF Manifest!Status

(* The step of RepeatsNeverPromote.                                        *)
NothingPromoted ==
    LET new == reports'[Len(reports')] IN
    (/\ reports # <<>> /\ reports' # reports
     /\ \/ ~new.independent
        \/ \E r \in Manifest!U : r.capture_id = new.capture_id)
    => /\ Manifest!Status(reports') = Manifest!Status(reports)
       /\ Manifest!Rows(Manifest!Unique(reports')) = Manifest!Rows(Manifest!U)

(* No reading of an entry that repeats a capture changes the verdict.      *)
LEMMA RepeatPromotesNothing ==
    ASSUME IsReports(reports), [Manifest!Next]_manifestVars
    PROVE  NothingPromoted
<1> DEFINE new == reports'[Len(reports')]
<1> SUFFICES ASSUME reports' # reports,
                    \/ ~new.independent
                    \/ \E r \in Manifest!Unique(reports) : r.capture_id = new.capture_id
             PROVE  Manifest!Unique(reports') = Manifest!Unique(reports)
    BY SameVerdict, Zenon DEF NothingPromoted, Manifest!U
<1>1. PICK e \in ManifestEntries : reports' = Append(reports, Manifest!Report(e))
    BY EntryRead
<1> DEFINE x == Manifest!Report(e)
<1> HIDE DEF x
<1>2. reports' = Append(reports, x)
    BY <1>1 DEF x
<1>3. new = x
  <2>1. PICK S : reports \in Seq(S)
      BY DEF IsReports
  <2>2. reports \in Seq(S \cup {x}) /\ x \in S \cup {x}
      BY <2>1
  <2>3. Append(reports, x)[Len(Append(reports, x))] = x
      BY <2>2
  <2> QED
      BY <1>2, <2>3
<1> HIDE DEF new
<1> QED
    BY <1>2, <1>3, RepeatCountsNothing, Zenon

(* Whatever manifest is read, and in whatever order: no report has a frame *)
(* of an unknown kind, a capture that counts and has nothing encrypted     *)
(* blocks the comparison for good and no other does, captures with         *)
(* a stable startup row agree on their first messages, a verdict of two    *)
(* captures rests on two of different names, and a capture that is there   *)
(* already, or is no source of its own, changes neither verdict nor rows.  *)
THEOREM VerdictIsSound == Spec => VerdictSound
<1>1. Init => IsReports(reports)
  <2>1. <<>> \in Seq({})
      OBVIOUS
  <2>2. \A r \in {} : Begins(r.startup_sequence, r.message_ids) /\ Framed(r)
      OBVIOUS
  <2>3. IsReports(<<>>)
    <3> DEFINE T == {}
    <3>1. <<>> \in Seq(T) /\ \A r \in T : Begins(r.startup_sequence, r.message_ids) /\ Framed(r)
        BY <2>1, <2>2
    <3> HIDE DEF T
    <3> QED
        BY <3>1 DEF IsReports
  <2> QED
      BY <2>3 DEF Init, Manifest!Init
<1>2. [Next]_allVars => [Manifest!Next]_manifestVars
    BY DEF Next, allVars
<1>3. IsReports(reports) /\ [Next]_allVars => IsReports(reports)'
    BY <1>2, ReportsKept
<1>4. IsReports(reports) =>
          (subject = "manifest" =>
              /\ Manifest!BadCaptureBlocks /\ Manifest!FramesAreKnown
              /\ Manifest!StableStartupAgrees /\ Manifest!VerifiedNeedsTwo)
    BY Blocks, KnownFrames, StableAgrees, NeedsTwo
<1>5. IsReports(reports) /\ [Next]_allVars => [NothingPromoted]_(Manifest!vars)
    BY <1>2, RepeatPromotesNothing
<1> QED
    BY <1>1, <1>3, <1>4, <1>5, PTL
    DEF Spec, VerdictSound, Manifest!RepeatsNeverPromote, NothingPromoted
=============================================================================
