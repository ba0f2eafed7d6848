------------------------ MODULE TokenContractProofs ------------------------
(***************************************************************************)
(* The token contract keeps its type, and a stream that follows it is      *)
(* well formed.                                                            *)
(***************************************************************************)
EXTENDS TokenContract, FiniteSetTheorems, SequenceTheorems, TLAPS

(* The contract's variables keep their types.                              *)
THEOREM ContractTypeOK == Spec => []TypeOK
<1>1. ASSUME Init
      PROVE  TypeOK
  <2>1. <<>> \in Seq(Kinds)
    BY EmptySeq
  <2> QED
    BY <1>1, <2>1 DEF Init, TypeOK
<1>2. TypeOK /\ [Next]_vars => TypeOK'
  <2> SUFFICES ASSUME TypeOK, [Next]_vars
               PROVE  TypeOK'
    OBVIOUS
  <2> USE DEF TypeOK, Kinds, Content
  <2>1. CASE Word
    BY <2>1 DEF Word
  <2>2. CASE Report
    BY <2>2 DEF Report
  <2>3. CASE Invalid
    BY <2>3 DEF Invalid
  <2>4. CASE EndLine
    BY <2>4 DEF EndLine
  <2>5. CASE Open
    BY <2>5 DEF Open
  <2>6. CASE Close
    BY <2>6 DEF Close
  <2>7. CASE EndOfInput
    BY <2>7 DEF EndOfInput
  <2>8. CASE Finish
    BY <2>8 DEF Finish
  <2>9. CASE UNCHANGED vars
    BY <2>9 DEF vars
  <2> QED
    BY <2>1, <2>2, <2>3, <2>4, <2>5, <2>6, <2>7, <2>8, <2>9 DEF Next
<1> QED
  BY <1>1, <1>2, PTL DEF Spec

----------------------------------------------------------------------------
(* The positions of a kind, while the stream grows.                        *)

LEMMA PositionsFinite ==
  ASSUME TypeOK, NEW k
  PROVE  IsFiniteSet(Positions(k)) /\ Positions(k) \subseteq 1..Len(kinds)
<1>1. Len(kinds) \in Nat
  BY DEF TypeOK
<1>2. Positions(k) \subseteq 1..Len(kinds)
  BY DEF Positions
<1>3. IsFiniteSet(1..Len(kinds))
  BY <1>1, FS_Interval
<1> QED
  BY <1>2, <1>3, FS_Subset

LEMMA PositionsAppend ==
  ASSUME TypeOK, NEW k \in Kinds, kinds' = Append(kinds, k)
  PROVE  /\ Positions(k)' = Positions(k) \cup {Len(kinds) + 1}
         /\ \A j : j # k => Positions(j)' = Positions(j)
         /\ Cardinality(Positions(k)') = Cardinality(Positions(k)) + 1
<1>1. /\ Len(kinds) \in Nat
      /\ Len(kinds') = Len(kinds) + 1
      /\ kinds'[Len(kinds) + 1] = k
      /\ \A i \in 1..Len(kinds) : kinds'[i] = kinds[i]
  BY DEF TypeOK
<1>2. Positions(k)' = Positions(k) \cup {Len(kinds) + 1}
  BY <1>1 DEF Positions
<1>3. ASSUME NEW j, j # k
      PROVE  Positions(j)' = Positions(j)
  BY <1>1, <1>3 DEF Positions
<1>4. Cardinality(Positions(k)') = Cardinality(Positions(k)) + 1
  <2>1. Len(kinds) + 1 \notin Positions(k)
    BY <1>1 DEF Positions
  <2> QED
    BY <1>2, <2>1, PositionsFinite, FS_AddElement
<1> QED
  BY <1>2, <1>3, <1>4

----------------------------------------------------------------------------
(* The stream, with the fact BlocksBalanced needs: the contract closes     *)
(* only when no block is open.                                             *)
IInv ==
  /\ TypeOK
  /\ StreamOK
  /\ phase = "closed" => depth = 0

LEMMA InitIInv == Init => IInv
<1> SUFFICES ASSUME Init
             PROVE  IInv
  OBVIOUS
<1>1. TypeOK
  BY EmptySeq DEF Init, TypeOK
<1>2. \A k : Positions(k) = {}
  BY DEF Init, Positions
<1>3. BlocksBalanced
  <2>1. Cardinality(Positions("INDENT")) = 0 /\ Cardinality(Positions("DEDENT")) = 0
    BY <1>2, FS_EmptySet
  <2> QED
    BY <2>1 DEF Init, BlocksBalanced
<1> QED
  BY <1>1, <1>2, <1>3
     DEF Init, IInv, StreamOK, LinesHaveContent, OpensAtLineStart, InvalidReported

(* A step that leaves the stream alone.                                    *)
LEMMA SameStream ==
  ASSUME IInv, UNCHANGED <<kinds, depth>>, errors => errors',
         TypeOK', phase' = "closed" => depth' = 0
  PROVE  IInv'
<1>1. \A k : Positions(k)' = Positions(k)
  BY DEF Positions
<1>2. Cardinality(Positions("DEDENT")) \in Nat
  BY PositionsFinite, FS_CardinalityType DEF IInv
<1>3. BlocksBalanced'
  BY <1>1, <1>2 DEF IInv, StreamOK, BlocksBalanced
<1>4. LinesHaveContent' /\ OpensAtLineStart' /\ InvalidReported'
  BY <1>1 DEF IInv, StreamOK, LinesHaveContent, OpensAtLineStart, InvalidReported
<1> QED
  BY <1>3, <1>4 DEF IInv, StreamOK

(* A step that appends a token of kind k.                                  *)
LEMMA GrownStream ==
  ASSUME IInv, TypeOK', NEW k \in Kinds, kinds' = Append(kinds, k),
         depth' = CASE k = "INDENT" -> depth + 1
                    [] k = "DEDENT" -> depth - 1
                    [] OTHER        -> depth,
         k = "NEWLINE" => Last \in Content,
         k = "INDENT" => Last = "NEWLINE",
         errors => errors', k = "INVALID" => errors',
         phase' # "closed"
  PROVE  IInv'
<1>1. /\ Positions(k)' = Positions(k) \cup {Len(kinds) + 1}
      /\ \A j : j # k => Positions(j)' = Positions(j)
      /\ Cardinality(Positions(k)') = Cardinality(Positions(k)) + 1
  BY PositionsAppend DEF IInv
<1>2. \A j : Cardinality(Positions(j)) \in Nat
  BY PositionsFinite, FS_CardinalityType DEF IInv
<1>3. BlocksBalanced'
  <2>1. Cardinality(Positions("INDENT")) = Cardinality(Positions("DEDENT")) + depth
    BY DEF IInv, StreamOK, BlocksBalanced
  <2>2. depth \in Nat
    BY DEF IInv, TypeOK
  <2>3. CASE k = "INDENT"
    <3>1. depth' = depth + 1
      BY <2>3
    <3>2. /\ Cardinality(Positions("INDENT"))' = Cardinality(Positions("INDENT")) + 1
          /\ Cardinality(Positions("DEDENT"))' = Cardinality(Positions("DEDENT"))
      BY <1>1, <2>3
    <3> QED
      BY <3>1, <3>2, <1>2, <2>1, <2>2 DEF BlocksBalanced
  <2>4. CASE k = "DEDENT"
    <3>1. depth' = depth - 1
      BY <2>4
    <3>2. /\ Cardinality(Positions("DEDENT"))' = Cardinality(Positions("DEDENT")) + 1
          /\ Cardinality(Positions("INDENT"))' = Cardinality(Positions("INDENT"))
      BY <1>1, <2>4
    <3> QED
      BY <3>1, <3>2, <1>2, <2>1, <2>2 DEF BlocksBalanced
  <2>5. CASE k \notin {"INDENT", "DEDENT"}
    BY <1>1, <1>2, <2>1, <2>2, <2>5 DEF BlocksBalanced
  <2> QED
    BY <2>3, <2>4, <2>5
<1>4. /\ Len(kinds) \in Nat
      /\ \A i \in 1..Len(kinds) : kinds'[i] = kinds[i]
      /\ kinds' # <<>> /\ Len(kinds') = Len(kinds) + 1
      /\ kinds = <<>> <=> Len(kinds) = 0
  BY DEF IInv, TypeOK
<1>5. LinesHaveContent'
  <2> SUFFICES ASSUME NEW i \in Positions("NEWLINE")'
               PROVE  i > 1 /\ kinds'[i - 1] \in Content
    BY DEF LinesHaveContent
  <2>1. CASE i \in Positions("NEWLINE")
    <3>1. i > 1 /\ kinds[i - 1] \in Content /\ i \in 1..Len(kinds)
      BY <2>1, PositionsFinite DEF IInv, StreamOK, LinesHaveContent
    <3> QED
      BY <3>1, <1>4
  <2>2. CASE i \notin Positions("NEWLINE")
    <3>1. i = Len(kinds) + 1 /\ k = "NEWLINE"
      BY <1>1, <2>2
    <3>2. Last \in Content /\ kinds # <<>>
      BY <3>1 DEF Last, Content
    <3> QED
      BY <3>1, <3>2, <1>4 DEF Last
  <2> QED
    BY <2>1, <2>2
<1>6. OpensAtLineStart'
  <2> SUFFICES ASSUME NEW i \in Positions("INDENT")'
               PROVE  i = 1 \/ kinds'[i - 1] = "NEWLINE"
    BY DEF OpensAtLineStart
  <2>1. CASE i \in Positions("INDENT")
    <3>1. i \in 1..Len(kinds) /\ (i = 1 \/ kinds[i - 1] = "NEWLINE")
      BY <2>1, PositionsFinite DEF IInv, StreamOK, OpensAtLineStart
    <3> QED
      BY <3>1, <1>4
  <2>2. CASE i \notin Positions("INDENT")
    <3>1. i = Len(kinds) + 1 /\ k = "INDENT"
      BY <1>1, <2>2
    <3> QED
      BY <3>1, <1>4 DEF Last
  <2> QED
    BY <2>1, <2>2
<1>7. InvalidReported'
  <2>1. CASE k = "INVALID"
    BY <2>1 DEF InvalidReported
  <2>2. CASE k # "INVALID"
    BY <2>2, <1>1 DEF IInv, StreamOK, InvalidReported
  <2> QED
    BY <2>1, <2>2
<1> QED
  BY <1>3, <1>5, <1>6, <1>7 DEF IInv, StreamOK

(* Every stream that follows the contract is well formed, at every moment: *)
(* INDENT and DEDENT balance, NEWLINE and INDENT stand where they should,  *)
(* and an INVALID token implies a reported error.                          *)
THEOREM ContractStreamOK == Spec => []StreamOK
<1>1. Init => IInv
  BY InitIInv
<1>2. IInv /\ TypeOK' /\ [Next]_vars => IInv'
  <2> SUFFICES ASSUME IInv, TypeOK', [Next]_vars
               PROVE  IInv'
    OBVIOUS
  <2> USE DEF Kinds, Content
  <2>1. CASE Word
    BY <2>1, GrownStream DEF Word
  <2>2. CASE Report
    BY <2>2, SameStream DEF Report, IInv
  <2>3. CASE Invalid
    BY <2>3, GrownStream DEF Invalid
  <2>4. CASE EndLine
    BY <2>4, GrownStream DEF EndLine
  <2>5. CASE Open
    BY <2>5, GrownStream DEF Open
  <2>6. CASE Close
    BY <2>6, GrownStream DEF Close
  <2>7. CASE EndOfInput
    BY <2>7, SameStream DEF EndOfInput
  <2>8. CASE Finish
    BY <2>8, SameStream DEF Finish
  <2>9. CASE UNCHANGED vars
    BY <2>9, SameStream DEF vars, IInv
  <2> QED
    BY <2>1, <2>2, <2>3, <2>4, <2>5, <2>6, <2>7, <2>8, <2>9 DEF Next
<1>3. IInv => StreamOK
  BY DEF IInv
<1> QED
  BY <1>1, <1>2, <1>3, ContractTypeOK, PTL DEF Spec
============================================================================
