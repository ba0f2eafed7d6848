--------------------------- MODULE GrammarProofs ---------------------------
(***************************************************************************)
(* The parser reads the language of ParserReference: it accepts exactly    *)
(* the sentences of the grammar, and builds for each line the one tree the *)
(* grammar has for it, whatever the token stream.  First what the parser   *)
(* builds is shown to be of the grammar, then whatever the grammar has for *)
(* a stream to be what the parser builds; last, that the parser reads what *)
(* PrettyPrinter prints for a program as that program.                     *)
(***************************************************************************)
EXTENDS ParserReference, RoundTrip, ParserProofs, WellFoundedInduction

----------------------------------------------------------------------------
(* Induction over a set of numbers.                                        *)

LEMMA NumbersAreOrdered ==
  \E R : IsWellFoundedOn(R, Nat) /\ \A m, n \in Nat : m < n => <<m, n>> \in R
<1>1. IsWellFoundedOn(OpToRel(<, Nat), Nat)
  BY NatLessThanWellFounded
<1>2. \A m, n \in Nat : m < n => <<m, n>> \in OpToRel(<, Nat)
  BY DEF OpToRel
<1> QED
  BY <1>1, <1>2

LEMMA FromSmallerNumbers ==
  ASSUME NEW S, \A n \in Nat : (\A m \in Nat : m < n => m \in S) => n \in S
  PROVE  \A n \in Nat : n \in S
<1> SUFFICES ASSUME Nat \ S # {} PROVE FALSE
  OBVIOUS
<1>1. PICK R : IsWellFoundedOn(R, Nat) /\ \A m, n \in Nat : m < n => <<m, n>> \in R
  BY NumbersAreOrdered
<1> DEFINE X == Nat \ S
<1>2. X \subseteq Nat /\ X # {} /\ IsWellFoundedOn(R, Nat)
  BY <1>1
<1> HIDE DEF X
<1>3. PICK n \in X : \A m \in X : ~ (<<m, n>> \in R)
  BY <1>2, WFMin, Zenon
<1>4. \A m \in Nat : m < n => m \in S
  BY <1>1, <1>2, <1>3 DEF X
<1> QED
  BY <1>3, <1>4 DEF X

LEMMA FromNumberToNext ==
  ASSUME NEW S, 0 \in S, \A n \in Nat : n \in S => n + 1 \in S
  PROVE  \A n \in Nat : n \in S
<1>1. ASSUME NEW n \in Nat, \A m \in Nat : m < n => m \in S
      PROVE  n \in S
  <2>1. CASE n = 0
    BY <2>1
  <2>2. CASE n # 0
    <3>1. n - 1 \in Nat /\ n - 1 < n /\ (n - 1) + 1 = n
      BY <2>2
    <3> QED
      BY <1>1, <3>1
  <2> QED
    BY <2>1, <2>2
<1> QED
  BY <1>1, FromSmallerNumbers

(***************************************************************************)
(* The grammar, unfolded.                                                  *)
(***************************************************************************)

(* The levels of the operands of a binary operator of a level.             *)
LeftLevel(l) == IF l = 4 THEN 5 ELSE l
RightLevel(l) == IF l = 4 THEN 4 ELSE l + 1

BinaryLevels == {1, 2, 4, 5, 6}

IsOperatorTree(t, d, l, r, i, j, ops, ts) ==
  \E k \in (i + 1)..(j - 1) :
    /\ ts[k] \in ops
    /\ \E a \in d[<<l, i, k - 1>>], b \in d[<<r, k + 1, j>>] :
         t = Tree("BinaryExpression", k, <<a, b>>)

IsBinary(t, d, l, i, j, ts) ==
  IsOperatorTree(t, d, LeftLevel(l), RightLevel(l), i, j, Operators[l], ts)

IsUnary(t, d, l, i, j, ts) ==
  /\ ts[i] \in Operators[l]
  /\ \E a \in d[<<l, i + 1, j>>] : t = Tree("UnaryExpression", i, <<a>>)

IsLeaf(t, i, j, ts) ==
  /\ i = j
  /\ \/ ts[i] = "ID" /\ t = Tree("Identifier", i, <<>>)
     \/ ts[i] \in Literals /\ t = Tree("Literal", i, <<>>)

IsGroup(t, d, i, j, ts) ==
  /\ i < j /\ ts[i] = "OPENPAREN" /\ ts[j] = "CLOSEPAREN"
  /\ \E a \in d[<<1, i + 1, j - 1>>] : t = Tree("GroupingExpression", i, <<a>>)

InRule(t, d, l, i, j, ts) ==
  /\ i <= j
  /\ \/ l \in 1..7 /\ t \in d[<<l + 1, i, j>>]
     \/ l \in BinaryLevels /\ IsBinary(t, d, l, i, j, ts)
     \/ l \in {3, 7} /\ IsUnary(t, d, l, i, j, ts)
     \/ l = 8 /\ IsLeaf(t, i, j, ts)
     \/ l = 8 /\ IsGroup(t, d, i, j, ts)

LEMMA BinaryTrees ==
  ASSUME NEW d, NEW l, NEW r, NEW i \in Int, NEW j \in Int, NEW ts, NEW ops, NEW t
  PROVE  t \in OperatorTrees(d, l, r, i, j, ops, ts)
         <=> IsOperatorTree(t, d, l, r, i, j, ops, ts)
<1> DEFINE of(k) == {Tree("BinaryExpression", k, <<a, b>>) :
                       a \in d[<<l, i, k - 1>>], b \in d[<<r, k + 1, j>>]}
           splits == {k \in (i + 1)..(j - 1) : ts[k] \in ops}
<1>1. \A k : t \in of(k) <=> \E a \in d[<<l, i, k - 1>>], b \in d[<<r, k + 1, j>>] :
                              t = Tree("BinaryExpression", k, <<a, b>>)
  <2> HIDE DEF Tree
  <2> QED
    OBVIOUS
<1>2. \A k : k \in splits <=> k \in (i + 1)..(j - 1) /\ ts[k] \in ops
  OBVIOUS
<1>3. t \in UNION {of(k) : k \in splits} <=> \E k \in splits : t \in of(k)
  <2> HIDE DEF of, splits
  <2> QED
    OBVIOUS
<1>4. OperatorTrees(d, l, r, i, j, ops, ts) = UNION {of(k) : k \in splits}
  BY DEF OperatorTrees
<1> HIDE DEF of, splits
<1> QED
  BY <1>1, <1>2, <1>3, <1>4 DEF IsOperatorTree

LEMMA RuleMembers ==
  ASSUME NEW d, NEW ts, NEW l \in Level, NEW i \in Int, NEW j \in Int, NEW t
  PROVE  t \in Rule(d, <<l, i, j>>, ts) <=> InRule(t, d, l, i, j, ts)
<1> DEFINE part == <<l, i, j>>
           binary(x, y) == OperatorTrees(d, x, y, i, j, Operators[l], ts)
           unary == {Tree("UnaryExpression", i, <<a>>) :
                       a \in IF ts[i] \in Operators[l] THEN d[<<l, i + 1, j>>] ELSE {}}
           leaf == IF ts[i] = "ID" THEN {Tree("Identifier", i, <<>>)}
                   ELSE IF ts[i] \in Literals THEN {Tree("Literal", i, <<>>)} ELSE {}
           group == {Tree("GroupingExpression", i, <<a>>) :
                       a \in IF ts[i] = "OPENPAREN" /\ ts[j] = "CLOSEPAREN"
                             THEN d[<<1, i + 1, j - 1>>] ELSE {}}
<1>0. part[1] = l /\ part[2] = i /\ part[3] = j
  OBVIOUS
<1>1. Rule(d, part, ts) =
        CASE i > j -> {}
          [] i <= j /\ l \in {1, 2, 5, 6} -> d[<<l + 1, i, j>>] \cup binary(l, l + 1)
          [] i <= j /\ l = 4 -> d[<<l + 1, i, j>>] \cup binary(5, 4)
          [] i <= j /\ l \in {3, 7} -> d[<<l + 1, i, j>>] \cup unary
          [] i = j /\ l = 8 -> leaf
          [] i < j /\ l = 8 -> group
  <2> HIDE DEF part
  <2> QED
    BY <1>0 DEF Rule
<1>2. \A x, y : t \in binary(x, y) <=> IsOperatorTree(t, d, x, y, i, j, Operators[l], ts)
  BY BinaryTrees
<1>3. t \in unary <=> IsUnary(t, d, l, i, j, ts)
  BY DEF IsUnary
<1>4. i = j => (t \in leaf <=> IsLeaf(t, i, j, ts))
  BY DEF IsLeaf, Literals
<1>5. i < j => (t \in group <=> IsGroup(t, d, i, j, ts))
  BY DEF IsGroup
<1> SUFFICES t \in Rule(d, part, ts) <=> InRule(t, d, l, i, j, ts)
  OBVIOUS
<1> HIDE DEF part, binary, unary, leaf, group
<1>6. CASE i > j
  BY <1>1, <1>6 DEF InRule
<1>7. CASE i <= j /\ l \in {1, 2, 5, 6}
  <2>1. Rule(d, part, ts) = d[<<l + 1, i, j>>] \cup binary(l, l + 1)
    BY <1>1, <1>7
  <2>2. LeftLevel(l) = l /\ RightLevel(l) = l + 1
    BY <1>7 DEF LeftLevel, RightLevel
  <2>3. t \in binary(l, l + 1) <=> IsBinary(t, d, l, i, j, ts)
    BY <1>2, <2>2 DEF IsBinary
  <2>4. l \in 1..7 /\ l \in BinaryLevels /\ l \notin {3, 7} /\ l # 8
    BY <1>7 DEF BinaryLevels
  <2> QED
    BY <1>7, <2>1, <2>3, <2>4 DEF InRule
<1>8. CASE i <= j /\ l = 4
  <2>1. Rule(d, part, ts) = d[<<l + 1, i, j>>] \cup binary(5, 4)
    BY <1>1, <1>8
  <2>2. LeftLevel(l) = 5 /\ RightLevel(l) = 4
    BY <1>8 DEF LeftLevel, RightLevel
  <2>3. t \in binary(5, 4) <=> IsBinary(t, d, l, i, j, ts)
    BY <1>2, <2>2 DEF IsBinary
  <2>4. l \in 1..7 /\ l \in BinaryLevels /\ l \notin {3, 7} /\ l # 8
    BY <1>8 DEF BinaryLevels
  <2> QED
    BY <1>8, <2>1, <2>3, <2>4 DEF InRule
<1>9. CASE i <= j /\ l \in {3, 7}
  <2>1. Rule(d, part, ts) = d[<<l + 1, i, j>>] \cup unary
    BY <1>1, <1>9
  <2>4. l \in 1..7 /\ l \notin BinaryLevels /\ l # 8
    BY <1>9 DEF BinaryLevels
  <2> QED
    BY <1>3, <1>9, <2>1, <2>4 DEF InRule
<1>10. CASE i <= j /\ l = 8
  <2>1. l \notin 1..7 /\ l \notin BinaryLevels /\ l \notin {3, 7}
    BY <1>10 DEF BinaryLevels
  <2>2. CASE i = j
    <3>1. Rule(d, part, ts) = leaf
      BY <1>1, <1>10, <2>2
    <3>2. ~IsGroup(t, d, i, j, ts)
      BY <2>2 DEF IsGroup
    <3> QED
      BY <1>4, <1>10, <2>1, <2>2, <3>1, <3>2 DEF InRule
  <2>3. CASE i < j
    <3>1. Rule(d, part, ts) = group
      BY <1>1, <1>10, <2>3
    <3>2. ~IsLeaf(t, i, j, ts)
      BY <2>3 DEF IsLeaf
    <3> QED
      BY <1>5, <1>10, <2>1, <2>3, <3>1, <3>2 DEF InRule
  <2> QED
    BY <1>10, <2>2, <2>3
<1> QED
  BY <1>6, <1>7, <1>8, <1>9, <1>10 DEF Level

(* The rules ask for smaller parts only.                                   *)
Weight(l, i, j, ts) == 9 * (Len(ts) + 1 + j - i) + 8 - l

IsPart(l, i, j, ts) == l \in Level /\ i \in 1..(Len(ts) + 1) /\ j \in 0..Len(ts)

LEMMA PartFacts ==
  ASSUME NEW ts, Len(ts) \in Nat, NEW l, NEW i, NEW j
  PROVE  /\ IsPart(l, i, j, ts) <=> <<l, i, j>> \in Parts(ts)
         /\ IsPart(l, i, j, ts) => Weight(l, i, j, ts) \in Nat
<1>1. IsPart(l, i, j, ts) <=> <<l, i, j>> \in Parts(ts)
  BY DEF IsPart, Parts
<1>2. ASSUME IsPart(l, i, j, ts)
      PROVE  Weight(l, i, j, ts) \in Nat
  <2> DEFINE N == Len(ts)
             w == (N + 1) + (j - i)
  <2>1. N \in Nat /\ l \in Int /\ l <= 8 /\ i \in Int /\ j \in Int /\ i <= N + 1 /\ 0 <= j
    BY <1>2 DEF IsPart, Level
  <2> HIDE DEF N
  <2>2. w \in Nat /\ N + 1 + j - i = w
    BY <2>1
  <2> HIDE DEF w
  <2>3. 9 * w + 8 - l \in Nat
    BY <2>1, <2>2
  <2> QED
    BY <2>2, <2>3 DEF Weight, N
<1> QED
  BY <1>1, <1>2

AgreeBelow(d, h, w, ts) ==
  \A l, i, j : IsPart(l, i, j, ts) /\ Weight(l, i, j, ts) < w => d[<<l, i, j>>] = h[<<l, i, j>>]

LEMMA RuleFromSmaller ==
  ASSUME NEW ts, Len(ts) \in Nat, NEW d, NEW h, NEW l, NEW i, NEW j, IsPart(l, i, j, ts),
         AgreeBelow(d, h, Weight(l, i, j, ts), ts), NEW t, InRule(t, d, l, i, j, ts)
  PROVE  InRule(t, h, l, i, j, ts)
<1> DEFINE w == Weight(l, i, j, ts)
           N == Len(ts)
<1>1. N \in Nat /\ l \in 1..8 /\ i \in 1..(N + 1) /\ j \in 0..N /\ i <= j
      /\ w = 9 * (N + 1 + j - i) + 8 - l
  BY DEF IsPart, InRule, Level, Weight
<1>2. ASSUME NEW l2 \in 1..8, NEW i2 \in 1..(N + 1), NEW j2 \in 0..N,
             9 * (N + 1 + j2 - i2) + 8 - l2 < w
      PROVE  d[<<l2, i2, j2>>] = h[<<l2, i2, j2>>]
  <2>1. IsPart(l2, i2, j2, ts) /\ Weight(l2, i2, j2, ts) < w
    BY <1>2 DEF IsPart, Weight, Level
  <2> QED
    BY <2>1 DEF AgreeBelow
<1> HIDE DEF w
<1>3. CASE l \in 1..7 /\ t \in d[<<l + 1, i, j>>]
  <2>1. d[<<l + 1, i, j>>] = h[<<l + 1, i, j>>]
    <3> DEFINE m == 9 * (N + 1 + j - i)
    <3>1. l + 1 \in 1..8 /\ m \in Int /\ w = m + 8 - l
      BY <1>1, <1>3
    <3> HIDE DEF m
    <3>2. m + 8 - (l + 1) < w
      BY <1>1, <3>1
    <3> QED
      BY <1>1, <1>2, <3>1, <3>2 DEF m
  <2> QED
    BY <1>1, <1>3, <2>1 DEF InRule
<1>4. CASE l \in BinaryLevels /\ IsBinary(t, d, l, i, j, ts)
  <2> DEFINE x == LeftLevel(l)
             y == RightLevel(l)
  <2>1. x \in 1..8 /\ y \in 1..8 /\ x >= l /\ y >= l
    BY <1>4 DEF LeftLevel, RightLevel, BinaryLevels
  <2> HIDE DEF x, y
  <2>a. PICK k \in (i + 1)..(j - 1) :
          /\ ts[k] \in Operators[l]
          /\ \E a \in d[<<x, i, k - 1>>], b \in d[<<y, k + 1, j>>] :
               t = Tree("BinaryExpression", k, <<a, b>>)
    BY <1>4 DEF IsBinary, IsOperatorTree, x, y
  <2>2. PICK a \in d[<<x, i, k - 1>>], b \in d[<<y, k + 1, j>>] :
          ts[k] \in Operators[l] /\ t = Tree("BinaryExpression", k, <<a, b>>)
    BY <2>a
  <2>3. k - 1 \in 0..N /\ k + 1 \in 1..(N + 1)
    BY <1>1
  <2>4. d[<<x, i, k - 1>>] = h[<<x, i, k - 1>>]
    <3>1. 9 * (N + 1 + (k - 1) - i) + 8 - x < w
      BY <1>1, <2>1
    <3> QED
      BY <1>1, <1>2, <2>1, <2>3, <3>1
  <2>5. d[<<y, k + 1, j>>] = h[<<y, k + 1, j>>]
    <3>1. 9 * (N + 1 + j - (k + 1)) + 8 - y < w
      BY <1>1, <2>1
    <3> QED
      BY <1>1, <1>2, <2>1, <2>3, <3>1
  <2>6. IsBinary(t, h, l, i, j, ts)
    BY <2>2, <2>4, <2>5 DEF IsBinary, IsOperatorTree, x, y
  <2> QED
    BY <1>1, <1>4, <2>6 DEF InRule
<1>5. CASE l \in {3, 7} /\ IsUnary(t, d, l, i, j, ts)
  <2>1. i + 1 \in 1..(N + 1) /\ 9 * (N + 1 + j - (i + 1)) + 8 - l < w
    BY <1>1
  <2>2. d[<<l, i + 1, j>>] = h[<<l, i + 1, j>>]
    BY <1>1, <1>2, <2>1
  <2> QED
    BY <1>1, <1>5, <2>2 DEF InRule, IsUnary
<1>6. CASE l = 8 /\ IsLeaf(t, i, j, ts)
  BY <1>1, <1>6 DEF InRule
<1>7. CASE l = 8 /\ IsGroup(t, d, i, j, ts)
  <2>0. i < j
    BY <1>7 DEF IsGroup
  <2>1. /\ i + 1 \in 1..(N + 1) /\ j - 1 \in 0..N
        /\ 9 * (N + 1 + (j - 1) - (i + 1)) + 8 - 1 < w
    BY <1>1, <1>7, <2>0
  <2>2. d[<<1, i + 1, j - 1>>] = h[<<1, i + 1, j - 1>>]
    BY <1>1, <1>2, <2>1
  <2> QED
    BY <1>1, <1>7, <2>2 DEF InRule, IsGroup
<1> QED
  BY <1>3, <1>4, <1>5, <1>6, <1>7 DEF InRule

LEMMA RuleIsLocal ==
  ASSUME NEW ts, Len(ts) \in Nat, NEW d, NEW h, NEW l, NEW i, NEW j, IsPart(l, i, j, ts),
         AgreeBelow(d, h, Weight(l, i, j, ts), ts)
  PROVE  Rule(d, <<l, i, j>>, ts) = Rule(h, <<l, i, j>>, ts)
<1>1. AgreeBelow(h, d, Weight(l, i, j, ts), ts)
  BY DEF AgreeBelow
<1>2. l \in Level /\ i \in Int /\ j \in Int
  BY DEF IsPart
<1>3. \A t : t \in Rule(d, <<l, i, j>>, ts) <=> InRule(t, d, l, i, j, ts)
  BY <1>2, RuleMembers
<1>4. \A t : t \in Rule(h, <<l, i, j>>, ts) <=> InRule(t, h, l, i, j, ts)
  BY <1>2, RuleMembers
<1>5. \A t : InRule(t, d, l, i, j, ts) <=> InRule(t, h, l, i, j, ts)
  BY <1>1, RuleFromSmaller
<1> QED
  BY <1>3, <1>4, <1>5

(* So there are derivations, which Derivations(ts) then are.               *)
PartsBelow(w, ts) == {part \in Parts(ts) : Weight(part[1], part[2], part[3], ts) < w}

LEMMA DerivationsUnfold ==
  ASSUME NEW ts, Len(ts) \in Nat
  PROVE  Derivations(ts) = [part \in Parts(ts) |-> Rule(Derivations(ts), part, ts)]
<1> DEFINE S == {w \in Nat : \E d : d = [part \in PartsBelow(w, ts) |-> Rule(d, part, ts)]}
<1>0. \A part \in Parts(ts) :
        part = <<part[1], part[2], part[3]>> /\ IsPart(part[1], part[2], part[3], ts)
  BY DEF Parts, IsPart
<1>1. 0 \in S
  <2>1. PartsBelow(0, ts) = {}
    BY <1>0, PartFacts DEF PartsBelow
  <2> DEFINE d == [part \in PartsBelow(0, ts) |-> {}]
  <2>2. d = [part \in PartsBelow(0, ts) |-> Rule(d, part, ts)]
    BY <2>1
  <2> HIDE DEF d
  <2> QED
    BY <2>2
<1>2. ASSUME NEW w \in Nat, w \in S
      PROVE  w + 1 \in S
  <2>1. PICK d : d = [part \in PartsBelow(w, ts) |-> Rule(d, part, ts)]
    BY <1>2
  <2> DEFINE h == [part \in PartsBelow(w + 1, ts) |-> Rule(d, part, ts)]
  <2>2. PartsBelow(w, ts) \subseteq PartsBelow(w + 1, ts)
    BY <1>0, PartFacts DEF PartsBelow
  <2>3. \A part \in PartsBelow(w, ts) : h[part] = d[part]
    <3>1. \A part \in PartsBelow(w, ts) : d[part] = Rule(d, part, ts)
      BY <2>1
    <3> QED
      BY <2>2, <3>1
  <2>4. h = [part \in PartsBelow(w + 1, ts) |-> h[part]]
    OBVIOUS
  <2>5. \A part \in PartsBelow(w + 1, ts) : h[part] = Rule(d, part, ts)
    OBVIOUS
  <2> HIDE DEF h
  <2>6. ASSUME NEW part \in PartsBelow(w + 1, ts)
        PROVE  h[part] = Rule(h, part, ts)
    <3>1. PICK l, i, j : part = <<l, i, j>> /\ IsPart(l, i, j, ts)
                         /\ Weight(l, i, j, ts) \in Nat /\ Weight(l, i, j, ts) < w + 1
      BY <1>0, PartFacts DEF PartsBelow
    <3>2. AgreeBelow(d, h, Weight(l, i, j, ts), ts)
      <4> SUFFICES ASSUME NEW l2, NEW i2, NEW j2, IsPart(l2, i2, j2, ts),
                          Weight(l2, i2, j2, ts) < Weight(l, i, j, ts)
                   PROVE  d[<<l2, i2, j2>>] = h[<<l2, i2, j2>>]
        BY DEF AgreeBelow
      <4>1. <<l2, i2, j2>> \in Parts(ts) /\ Weight(l2, i2, j2, ts) \in Nat
        BY PartFacts
      <4>2. Weight(l2, i2, j2, ts) < w
        BY <3>1, <4>1
      <4>3. <<l2, i2, j2>> \in PartsBelow(w, ts)
        BY <4>1, <4>2 DEF PartsBelow
      <4> QED
        BY <2>3, <4>3
    <3>3. Rule(d, part, ts) = Rule(h, part, ts)
      BY <3>1, <3>2, RuleIsLocal
    <3> QED
      BY <2>5, <3>3
  <2>7. h = [part \in PartsBelow(w + 1, ts) |-> Rule(h, part, ts)]
    BY <2>4, <2>6
  <2> QED
    BY <2>7
<1> HIDE DEF S
<1>3. \A w \in Nat : w \in S
  BY <1>1, <1>2, FromNumberToNext
<1>4. PICK w \in Nat : w = 9 * (2 * Len(ts) + 1) + 9
  OBVIOUS
<1>5. PartsBelow(w, ts) = Parts(ts)
  <2>1. ASSUME NEW part \in Parts(ts)
        PROVE  Weight(part[1], part[2], part[3], ts) < w
    BY <1>0, <1>4 DEF IsPart, Weight, Level
  <2> QED
    BY <2>1 DEF PartsBelow
<1>6. PICK d : d = [part \in Parts(ts) |-> Rule(d, part, ts)]
  <2>1. w \in S
    BY <1>3
  <2> QED
    BY <1>5, <2>1 DEF S
<1> QED
  BY <1>6 DEF Derivations

(* The trees of a level.                                                   *)
Derives(t, l, i, j, ts) == IsPart(l, i, j, ts) /\ t \in Derivations(ts)[<<l, i, j>>]

LEMMA DerivesByRule ==
  ASSUME NEW ts, Len(ts) \in Nat, NEW l, NEW i, NEW j, NEW t, IsPart(l, i, j, ts)
  PROVE  Derives(t, l, i, j, ts) <=> InRule(t, Derivations(ts), l, i, j, ts)
<1> DEFINE d == Derivations(ts)
<1>1. <<l, i, j>> \in Parts(ts)
  BY PartFacts
<1>2. d[<<l, i, j>>] = Rule(d, <<l, i, j>>, ts)
  BY <1>1, DerivationsUnfold
<1>3. l \in Level /\ i \in Int /\ j \in Int
  BY DEF IsPart
<1> HIDE DEF d
<1>4. t \in Rule(d, <<l, i, j>>, ts) <=> InRule(t, d, l, i, j, ts)
  BY <1>3, RuleMembers
<1> QED
  BY <1>2, <1>4 DEF Derives, d

----------------------------------------------------------------------------
(* The trees of the heap, unfolded.                                        *)

NodeTree(f, p, ns) ==
  IF p = Null THEN Tree("nullptr", 0, <<>>)
  ELSE Tree(ns[p].kind, ns[p].token, [k \in DOMAIN ns[p].kids |-> f[ns[p].kids[k]]])

(* Children are older.                                                     *)
Down(ns) ==
  \A p \in 1..Len(ns) : \A k \in DOMAIN ns[p].kids : ns[p].kids[k] \in 0..(p - 1)

LEMMA NodeTreeIsLocal ==
  ASSUME NEW ns, Len(ns) \in Nat, Down(ns), NEW p \in 0..Len(ns), NEW f, NEW h,
         \A q \in 0..(p - 1) : f[q] = h[q]
  PROVE  NodeTree(f, p, ns) = NodeTree(h, p, ns)
<1>1. CASE p = Null
  BY <1>1 DEF NodeTree
<1>2. CASE p # Null
  <2>1. \A k \in DOMAIN ns[p].kids : f[ns[p].kids[k]] = h[ns[p].kids[k]]
    BY <1>2 DEF Down, Null
  <2>2. [k \in DOMAIN ns[p].kids |-> f[ns[p].kids[k]]]
        = [k \in DOMAIN ns[p].kids |-> h[ns[p].kids[k]]]
    BY <2>1
  <2> QED
    BY <1>2, <2>2 DEF NodeTree
<1> QED
  BY <1>1, <1>2

LEMMA TreesUnfold ==
  ASSUME NEW ns, Len(ns) \in Nat, Down(ns)
  PROVE  Trees(ns) = [p \in 0..Len(ns) |-> NodeTree(Trees(ns), p, ns)]
<1> DEFINE S == {m \in Nat : m <= Len(ns) => \E f : f = [p \in 0..m |-> NodeTree(f, p, ns)]}
<1>1. 0 \in S
  <2> DEFINE f == [p \in 0..0 |-> Tree("nullptr", 0, <<>>)]
  <2>1. f = [p \in 0..0 |-> NodeTree(f, p, ns)]
    BY DEF NodeTree, Null
  <2> HIDE DEF f
  <2> QED
    BY <2>1
<1>2. ASSUME NEW m \in Nat, m \in S
      PROVE  m + 1 \in S
  <2> SUFFICES ASSUME m + 1 <= Len(ns)
               PROVE  \E f : f = [p \in 0..(m + 1) |-> NodeTree(f, p, ns)]
    OBVIOUS
  <2>1. PICK f : f = [p \in 0..m |-> NodeTree(f, p, ns)]
    BY <1>2
  <2> DEFINE h == [p \in 0..(m + 1) |-> NodeTree(f, p, ns)]
  <2>2. \A p \in 0..m : h[p] = f[p]
    <3>1. \A p \in 0..m : f[p] = NodeTree(f, p, ns)
      BY <2>1
    <3> QED
      BY <3>1
  <2>3. h = [p \in 0..(m + 1) |-> h[p]] /\ \A p \in 0..(m + 1) : h[p] = NodeTree(f, p, ns)
    OBVIOUS
  <2> HIDE DEF h
  <2>4. ASSUME NEW p \in 0..(m + 1)
        PROVE  h[p] = NodeTree(h, p, ns)
    <3>1. p \in 0..Len(ns) /\ \A q \in 0..(p - 1) : q \in 0..m
      OBVIOUS
    <3>2. NodeTree(f, p, ns) = NodeTree(h, p, ns)
      BY <2>2, <3>1, NodeTreeIsLocal
    <3> QED
      BY <2>3, <3>2
  <2> QED
    BY <2>3, <2>4
<1> HIDE DEF S
<1>3. \A m \in Nat : m \in S
  BY <1>1, <1>2, FromNumberToNext
<1>4. PICK f : f = [p \in 0..Len(ns) |-> NodeTree(f, p, ns)]
  BY <1>3 DEF S
<1> QED
  BY <1>4 DEF Trees, NodeTree

TreeOf(p, ns) == Trees(ns)[p]

LEMMA TreesGrow ==
  ASSUME NEW ns, NEW ns2, Grows(ns, ns2), Down(ns2), NEW p \in 0..Len(ns)
  PROVE  TreeOf(p, ns2) = TreeOf(p, ns)
<1> DEFINE f == Trees(ns)
           h == Trees(ns2)
           S == {q \in Nat : q <= Len(ns) => h[q] = f[q]}
<1>1. /\ Len(ns) \in Nat /\ Len(ns2) \in Nat /\ Len(ns) <= Len(ns2)
      /\ \A q \in 1..Len(ns) : ns2[q] = ns[q]
  BY DEF Grows
<1>2. Down(ns)
  BY <1>1 DEF Down
<1>3. /\ \A q \in 0..Len(ns) : f[q] = NodeTree(f, q, ns)
      /\ \A q \in 0..Len(ns2) : h[q] = NodeTree(h, q, ns2)
  BY <1>1, <1>2, TreesUnfold
<1> HIDE DEF f, h
<1>4. ASSUME NEW n \in Nat, \A m \in Nat : m < n => m \in S
      PROVE  n \in S
  <2> SUFFICES ASSUME n <= Len(ns) PROVE h[n] = f[n]
    OBVIOUS
  <2>1. \A q \in 0..(n - 1) : h[q] = f[q]
    BY <1>1, <1>4
  <2>2. NodeTree(h, n, ns) = NodeTree(f, n, ns)
    BY <1>1, <1>2, <2>1, NodeTreeIsLocal
  <2>3. NodeTree(h, n, ns2) = NodeTree(h, n, ns)
    BY <1>1 DEF NodeTree, Null
  <2> QED
    BY <1>1, <1>3, <2>2, <2>3
<1> HIDE DEF S
<1>5. \A n \in Nat : n \in S
  BY <1>4, FromSmallerNumbers
<1> QED
  BY <1>1, <1>5 DEF S, TreeOf, f, h

(* The tree of a node from those of its children.                          *)
LEMMA TreeOfNode ==
  ASSUME NEW ns, Len(ns) \in Nat, Down(ns), NEW p \in 1..Len(ns)
  PROVE  TreeOf(p, ns) =
           Tree(ns[p].kind, ns[p].token, [k \in DOMAIN ns[p].kids |-> TreeOf(ns[p].kids[k], ns)])
BY TreesUnfold DEF TreeOf, NodeTree, Null

LEMMA TreeOfLeaf ==
  ASSUME NEW ns, Len(ns) \in Nat, Down(ns), NEW p \in 1..Len(ns), ns[p].kids = <<>>
  PROVE  TreeOf(p, ns) = Tree(ns[p].kind, ns[p].token, <<>>)
<1>1. TreeOf(p, ns) =
        Tree(ns[p].kind, ns[p].token, [k \in DOMAIN ns[p].kids |-> TreeOf(ns[p].kids[k], ns)])
  BY TreeOfNode
<1>2. [k \in DOMAIN ns[p].kids |-> TreeOf(ns[p].kids[k], ns)] = <<>>
  OBVIOUS
<1> QED
  BY <1>1, <1>2

LEMMA TreeOfOne ==
  ASSUME NEW ns, Len(ns) \in Nat, Down(ns), NEW p \in 1..Len(ns), NEW a, ns[p].kids = <<a>>
  PROVE  TreeOf(p, ns) = Tree(ns[p].kind, ns[p].token, <<TreeOf(a, ns)>>)
<1>1. TreeOf(p, ns) =
        Tree(ns[p].kind, ns[p].token, [k \in DOMAIN ns[p].kids |-> TreeOf(ns[p].kids[k], ns)])
  BY TreeOfNode
<1>2. [k \in DOMAIN ns[p].kids |-> TreeOf(ns[p].kids[k], ns)] = <<TreeOf(a, ns)>>
  OBVIOUS
<1> QED
  BY <1>1, <1>2

LEMMA TreeOfTwo ==
  ASSUME NEW ns, Len(ns) \in Nat, Down(ns), NEW p \in 1..Len(ns), NEW a, NEW b, ns[p].kids = <<a, b>>
  PROVE  TreeOf(p, ns) = Tree(ns[p].kind, ns[p].token, <<TreeOf(a, ns), TreeOf(b, ns)>>)
<1>1. TreeOf(p, ns) =
        Tree(ns[p].kind, ns[p].token, [k \in DOMAIN ns[p].kids |-> TreeOf(ns[p].kids[k], ns)])
  BY TreeOfNode
<1>2. [k \in DOMAIN ns[p].kids |-> TreeOf(ns[p].kids[k], ns)] = <<TreeOf(a, ns), TreeOf(b, ns)>>
  OBVIOUS
<1> QED
  BY <1>1, <1>2

----------------------------------------------------------------------------
(* What an expression of a level is.                                       *)

BinaryOf(t, l, k, i, j, ts) ==
  /\ k \in (i + 1)..(j - 1) /\ ts[k] \in Operators[l]
  /\ \E a, b : /\ Derives(a, LeftLevel(l), i, k - 1, ts)
               /\ Derives(b, RightLevel(l), k + 1, j, ts)
               /\ t = Tree("BinaryExpression", k, <<a, b>>)

UnaryOf(t, l, i, j, ts) ==
  /\ ts[i] \in Operators[l]
  /\ \E a : Derives(a, l, i + 1, j, ts) /\ t = Tree("UnaryExpression", i, <<a>>)

GroupOf(t, i, j, ts) ==
  /\ i < j /\ ts[i] = "OPENPAREN" /\ ts[j] = "CLOSEPAREN"
  /\ \E a : Derives(a, 1, i + 1, j - 1, ts) /\ t = Tree("GroupingExpression", i, <<a>>)

ExpressionOf(t, l, i, j, ts) ==
  \/ l \in 1..7 /\ Derives(t, l + 1, i, j, ts)
  \/ l \in BinaryLevels /\ \E k : BinaryOf(t, l, k, i, j, ts)
  \/ l \in {3, 7} /\ UnaryOf(t, l, i, j, ts)
  \/ l = 8 /\ IsLeaf(t, i, j, ts)
  \/ l = 8 /\ GroupOf(t, i, j, ts)

LEMMA Derivation ==
  ASSUME NEW ts, Len(ts) \in Nat, NEW l, NEW i, NEW j, NEW t, IsPart(l, i, j, ts)
  PROVE  Derives(t, l, i, j, ts) <=> i <= j /\ ExpressionOf(t, l, i, j, ts)
<1> DEFINE d == Derivations(ts)
           N == Len(ts)
<1>1. l \in 1..8 /\ i \in 1..(N + 1) /\ j \in 0..N /\ N \in Nat
  BY DEF IsPart, Level
<1>2. \A a, m, x, y : Derives(a, m, x, y, ts) <=>
                        m \in 1..8 /\ x \in 1..(N + 1) /\ y \in 0..N /\ a \in d[<<m, x, y>>]
  BY DEF Derives, IsPart, Level
<1>3. Derives(t, l, i, j, ts) <=> InRule(t, d, l, i, j, ts)
  BY DerivesByRule
<1> HIDE DEF d, N
<1> SUFFICES ASSUME i <= j
             PROVE  InRule(t, d, l, i, j, ts) <=> ExpressionOf(t, l, i, j, ts)
  BY <1>3 DEF InRule
<1>4. l \in 1..7 => (t \in d[<<l + 1, i, j>>] <=> Derives(t, l + 1, i, j, ts))
  BY <1>1, <1>2
<1>5. ASSUME l \in BinaryLevels
      PROVE  IsBinary(t, d, l, i, j, ts) <=> \E k : BinaryOf(t, l, k, i, j, ts)
  <2> DEFINE x == LeftLevel(l)
             y == RightLevel(l)
  <2>1. x \in 1..8 /\ y \in 1..8
    BY <1>5 DEF LeftLevel, RightLevel, BinaryLevels
  <2> HIDE DEF x, y
  <2>2. \A k \in (i + 1)..(j - 1) :
          /\ \A a : a \in d[<<x, i, k - 1>>] <=> Derives(a, x, i, k - 1, ts)
          /\ \A b : b \in d[<<y, k + 1, j>>] <=> Derives(b, y, k + 1, j, ts)
    <3> TAKE k \in (i + 1)..(j - 1)
    <3>1. /\ k - 1 \in 0..N /\ i <= (k - 1) + 1
          /\ k + 1 \in 1..(N + 1) /\ k + 1 <= j + 1
      BY <1>1
    <3>2. \A a : a \in d[<<x, i, k - 1>>] <=> Derives(a, x, i, k - 1, ts)
      BY <1>1, <1>2, <2>1, <3>1
    <3>3. \A b : b \in d[<<y, k + 1, j>>] <=> Derives(b, y, k + 1, j, ts)
      BY <1>1, <1>2, <2>1, <3>1
    <3> QED
      BY <3>2, <3>3
  <2>3. \A k \in (i + 1)..(j - 1) :
          (\E a \in d[<<x, i, k - 1>>], b \in d[<<y, k + 1, j>>] :
             t = Tree("BinaryExpression", k, <<a, b>>))
          <=> \E a, b : /\ Derives(a, x, i, k - 1, ts)
                        /\ Derives(b, y, k + 1, j, ts)
                        /\ t = Tree("BinaryExpression", k, <<a, b>>)
    BY <2>2
  <2> QED
    BY <2>3 DEF IsBinary, IsOperatorTree, BinaryOf, x, y
<1>6. IsUnary(t, d, l, i, j, ts) <=> UnaryOf(t, l, i, j, ts)
  <2>1. \A a : a \in d[<<l, i + 1, j>>] <=> Derives(a, l, i + 1, j, ts)
    BY <1>1, <1>2
  <2> QED
    BY <2>1 DEF IsUnary, UnaryOf
<1>7. IsGroup(t, d, i, j, ts) <=> GroupOf(t, i, j, ts)
  <2>1. i < j => \A a : a \in d[<<1, i + 1, j - 1>>] <=> Derives(a, 1, i + 1, j - 1, ts)
    BY <1>1, <1>2
  <2> QED
    BY <2>1 DEF IsGroup, GroupOf
<1> QED
  BY <1>4, <1>5, <1>6, <1>7 DEF InRule, ExpressionOf

LEMMA DerivesFacts ==
  ASSUME NEW ts, Len(ts) \in Nat, NEW l, NEW i, NEW j, NEW t, Derives(t, l, i, j, ts)
  PROVE  /\ IsPart(l, i, j, ts) /\ ExpressionOf(t, l, i, j, ts)
         /\ l \in 1..8 /\ i \in 1..Len(ts) /\ j \in 1..Len(ts) /\ i <= j
<1>1. IsPart(l, i, j, ts)
  BY DEF Derives
<1>2. i <= j /\ ExpressionOf(t, l, i, j, ts)
  BY <1>1, Derivation
<1> QED
  BY <1>1, <1>2 DEF IsPart, Level

(* What is of a level is of every looser one.                              *)
LEMMA DerivesLooser ==
  ASSUME NEW ts, Len(ts) \in Nat, NEW l, NEW i, NEW j, NEW t, Derives(t, l, i, j, ts),
         NEW m \in 1..8, m <= l
  PROVE  Derives(t, m, i, j, ts)
<1>1. l \in 1..8 /\ i \in 1..(Len(ts) + 1) /\ j \in 0..Len(ts) /\ i <= j
  BY DerivesFacts
<1> DEFINE S == {n \in Nat : l - n >= 1 => Derives(t, l - n, i, j, ts)}
<1>2. 0 \in S
  BY <1>1
<1>3. ASSUME NEW n \in Nat, n \in S
      PROVE  n + 1 \in S
  <2> SUFFICES ASSUME l - (n + 1) >= 1 PROVE Derives(t, l - (n + 1), i, j, ts)
    OBVIOUS
  <2>1. PICK x \in 1..7 : x = l - (n + 1) /\ x + 1 = l - n
    BY <1>1
  <2>2. Derives(t, x + 1, i, j, ts)
    BY <1>1, <1>3, <2>1
  <2>3. IsPart(x, i, j, ts)
    BY <1>1 DEF IsPart, Level
  <2>4. Derives(t, x, i, j, ts)
    BY <1>1, <2>2, <2>3, Derivation DEF ExpressionOf
  <2> QED
    BY <2>1, <2>4
<1> HIDE DEF S
<1>4. \A n \in Nat : n \in S
  BY <1>2, <1>3, FromNumberToNext
<1>5. l - m \in Nat /\ l - (l - m) = m /\ m >= 1
  BY <1>1
<1> QED
  BY <1>4, <1>5 DEF S

(* The level of a tree is that of its topmost operator.                    *)
TreeLevel(t, ts) ==
  CASE t.kind = "BinaryExpression" -> BinaryLevel(ts[t.token])
    [] t.kind = "UnaryExpression" -> UnaryLevel(ts[t.token])
    [] OTHER -> 8

LEMMA OperatorLevels ==
  ASSUME NEW l \in 1..8, NEW op
  PROVE  /\ l \in BinaryLevels /\ op \in Operators[l] => BinaryLevel(op) = l
         /\ l \in {3, 7} /\ op \in Operators[l] => UnaryLevel(op) = l
<1>1. /\ Operators[1] = {"OR"} /\ Operators[2] = {"AND"} /\ Operators[3] = {"NOT"}
      /\ Operators[4] = Comparisons /\ Operators[5] = Additive
      /\ Operators[6] = Multiplicative /\ Operators[7] = {"MINUS"}
  BY DEF Operators
<1>2. ASSUME l \in BinaryLevels, op \in Operators[l]
      PROVE  BinaryLevel(op) = l
  <2>1. CASE l = 1
    BY <1>1, <1>2, <2>1 DEF BinaryLevel, Comparisons, Additive, Multiplicative
  <2>2. CASE l = 2
    BY <1>1, <1>2, <2>2 DEF BinaryLevel, Comparisons, Additive, Multiplicative
  <2>3. CASE l = 4
    BY <1>1, <1>2, <2>3 DEF BinaryLevel, Comparisons, Additive, Multiplicative
  <2>4. CASE l = 5
    BY <1>1, <1>2, <2>4 DEF BinaryLevel, Comparisons, Additive, Multiplicative
  <2>5. CASE l = 6
    BY <1>1, <1>2, <2>5 DEF BinaryLevel, Comparisons, Additive, Multiplicative
  <2> QED
    BY <1>2, <2>1, <2>2, <2>3, <2>4, <2>5 DEF BinaryLevels
<1>3. ASSUME l \in {3, 7}, op \in Operators[l]
      PROVE  UnaryLevel(op) = l
  BY <1>1, <1>3 DEF UnaryLevel
<1> QED
  BY <1>2, <1>3

LEMMA TreeFields ==
  ASSUME NEW kind, NEW token, NEW kids
  PROVE  /\ Tree(kind, token, kids).kind = kind
         /\ Tree(kind, token, kids).token = token
         /\ Tree(kind, token, kids).kids = kids
BY DEF Tree

----------------------------------------------------------------------------
(* No expression has a token of these.                                     *)
Between == {"NEWLINE", "ASSIGN", "COLON", "INDENT", "DEDENT"}

Inside(i, j, ts) == \A x \in i..j : ts[x] \notin Between

LEMMA OperatorsAreInside ==
  ASSUME NEW l \in 1..8, NEW op, l # 8, op \in Operators[l]
  PROVE  op \notin Between
<1>1. /\ Operators[1] = {"OR"} /\ Operators[2] = {"AND"} /\ Operators[3] = {"NOT"}
      /\ Operators[4] = Comparisons /\ Operators[5] = Additive
      /\ Operators[6] = Multiplicative /\ Operators[7] = {"MINUS"}
  BY DEF Operators
<1>2. l \in {1, 2, 3, 4, 5, 6, 7}
  OBVIOUS
<1> QED
  BY <1>1, <1>2 DEF Between, Comparisons, Additive, Multiplicative

LEMMA DerivedInside ==
  ASSUME NEW ts, Len(ts) \in Nat, NEW l, NEW i, NEW j, NEW t, Derives(t, l, i, j, ts)
  PROVE  Inside(i, j, ts)
<1> DEFINE S == {w \in Nat : \A t2, l2, i2, j2 :
                   Derives(t2, l2, i2, j2, ts) /\ Weight(l2, i2, j2, ts) = w => Inside(i2, j2, ts)}
<1>1. ASSUME NEW w \in Nat, \A v \in Nat : v < w => v \in S
      PROVE  w \in S
  <2> SUFFICES ASSUME NEW t2, NEW l2, NEW i2, NEW j2, Derives(t2, l2, i2, j2, ts),
                      Weight(l2, i2, j2, ts) = w
               PROVE  Inside(i2, j2, ts)
    OBVIOUS
  <2>1. /\ IsPart(l2, i2, j2, ts) /\ ExpressionOf(t2, l2, i2, j2, ts)
        /\ l2 \in 1..8 /\ i2 \in 1..Len(ts) /\ j2 \in 1..Len(ts) /\ i2 <= j2
    BY DerivesFacts
  <2>2. w = 9 * (Len(ts) + 1 + j2 - i2) + 8 - l2
    BY DEF Weight
  <2>3. ASSUME NEW t3, NEW l3, NEW i3, NEW j3, Derives(t3, l3, i3, j3, ts),
               9 * (Len(ts) + 1 + j3 - i3) + 8 - l3 < 9 * (Len(ts) + 1 + j2 - i2) + 8 - l2
        PROVE  Inside(i3, j3, ts)
    <3>1. Weight(l3, i3, j3, ts) \in Nat
      BY <2>3, DerivesFacts, PartFacts
    <3>2. Weight(l3, i3, j3, ts) < w
      BY <2>2, <2>3 DEF Weight
    <3>3. Weight(l3, i3, j3, ts) \in S
      BY <1>1, <3>1, <3>2
    <3> QED
      BY <2>3, <3>3
  <2> HIDE DEF S
  <2>4. CASE l2 \in 1..7 /\ Derives(t2, l2 + 1, i2, j2, ts)
    BY <2>1, <2>3, <2>4
  <2>5. CASE l2 \in BinaryLevels /\ \E k : BinaryOf(t2, l2, k, i2, j2, ts)
    <3>1. PICK k : BinaryOf(t2, l2, k, i2, j2, ts)
      BY <2>5
    <3>2. PICK a, b : Derives(a, LeftLevel(l2), i2, k - 1, ts) /\ Derives(b, RightLevel(l2), k + 1, j2, ts)
      BY <3>1 DEF BinaryOf
    <3>3. LeftLevel(l2) \in 1..8 /\ RightLevel(l2) \in 1..8 /\ l2 # 8
      BY <2>5 DEF LeftLevel, RightLevel, BinaryLevels
    <3>4. k \in (i2 + 1)..(j2 - 1) /\ ts[k] \in Operators[l2]
      BY <3>1 DEF BinaryOf
    <3>5. Inside(i2, k - 1, ts)
      <4>0. k \in Int /\ k - 1 < j2 - 1 /\ (k - 1) - i2 <= (j2 - i2) - 2
        BY <2>1, <3>4
      <4>1. 9 * (Len(ts) + 1 + (k - 1) - i2) + 8 - LeftLevel(l2)
              < 9 * (Len(ts) + 1 + j2 - i2) + 8 - l2
        BY <2>1, <3>3, <4>0
      <4> QED
        BY <2>3, <3>2, <4>1
    <3>6. Inside(k + 1, j2, ts)
      <4>0. k \in Int /\ i2 + 2 <= k + 1 /\ j2 - (k + 1) <= (j2 - i2) - 2
        BY <2>1, <3>4
      <4>1. 9 * (Len(ts) + 1 + j2 - (k + 1)) + 8 - RightLevel(l2)
              < 9 * (Len(ts) + 1 + j2 - i2) + 8 - l2
        BY <2>1, <3>3, <4>0
      <4> QED
        BY <2>3, <3>2, <4>1
    <3>7. ts[k] \notin Between
      BY <2>1, <3>3, <3>4, OperatorsAreInside
    <3>8. \A x \in i2..j2 : x \in i2..(k - 1) \/ x = k \/ x \in (k + 1)..j2
      BY <2>1, <3>4
    <3> QED
      BY <3>5, <3>6, <3>7, <3>8 DEF Inside
  <2>6. CASE l2 \in {3, 7} /\ UnaryOf(t2, l2, i2, j2, ts)
    <3>1. PICK a : Derives(a, l2, i2 + 1, j2, ts)
      BY <2>6 DEF UnaryOf
    <3>2. Inside(i2 + 1, j2, ts)
      BY <2>1, <2>3, <3>1
    <3>3. ts[i2] \notin Between
      BY <2>1, <2>6, OperatorsAreInside DEF UnaryOf
    <3>4. \A x \in i2..j2 : x = i2 \/ x \in (i2 + 1)..j2
      BY <2>1
    <3> QED
      BY <3>2, <3>3, <3>4 DEF Inside
  <2>7. CASE l2 = 8 /\ IsLeaf(t2, i2, j2, ts)
    <3>1. i2 = j2 /\ ts[i2] \in Literals \cup {"ID"}
      BY <2>7 DEF IsLeaf
    <3>2. ts[i2] \notin Between
      BY <3>1 DEF Between, Literals
    <3>3. \A x \in i2..j2 : x = i2
      BY <2>1, <3>1
    <3> QED
      BY <3>2, <3>3 DEF Inside
  <2>8. CASE l2 = 8 /\ GroupOf(t2, i2, j2, ts)
    <3>1. PICK a : Derives(a, 1, i2 + 1, j2 - 1, ts)
      BY <2>8 DEF GroupOf
    <3>2. Inside(i2 + 1, j2 - 1, ts)
      BY <2>1, <2>3, <2>8, <3>1
    <3>3. ts[i2] \notin Between /\ ts[j2] \notin Between
      BY <2>8 DEF GroupOf, Between
    <3>4. \A x \in i2..j2 : x = i2 \/ x = j2 \/ x \in (i2 + 1)..(j2 - 1)
      BY <2>1
    <3> QED
      BY <3>2, <3>3, <3>4 DEF Inside
  <2> QED
    BY <2>1, <2>4, <2>5, <2>6, <2>7, <2>8 DEF ExpressionOf
<1> HIDE DEF S
<1>2. \A w \in Nat : w \in S
  BY <1>1, FromSmallerNumbers
<1>3. Weight(l, i, j, ts) \in Nat
  BY DerivesFacts, PartFacts
<1> QED
  BY <1>2, <1>3 DEF S

----------------------------------------------------------------------------
(* The binding powers of the code and the levels of the grammar.           *)

Powered(op, level, left, right) ==
  BinaryLevel(op) = level /\ Left(op) = left /\ InfixPower[op].right = right

LEMMA OperatorPowers ==
  ASSUME NEW op \in DOMAIN InfixPower
  PROVE  \/ op \in Logical /\ Powered(op, 1, 20, 21)
         \/ op \in Logical /\ Powered(op, 2, 30, 31)
         \/ op \notin Logical /\ Powered(op, 4, 50, 50)
         \/ op \notin Logical /\ Powered(op, 5, 60, 61)
         \/ op \notin Logical /\ Powered(op, 6, 70, 71)
<1>1. op \in Logical \cup Comparisons \cup Additive \cup Multiplicative
  BY DEF InfixPower
<1>2. CASE op = "OR"
  BY <1>1, <1>2 DEF InfixPower, BinaryLevel, Logical, Comparisons, Additive, Multiplicative, Left, Powered
<1>3. CASE op = "AND"
  BY <1>1, <1>3 DEF InfixPower, BinaryLevel, Logical, Comparisons, Additive, Multiplicative, Left, Powered
<1>4. CASE op \in Comparisons
  BY <1>1, <1>4 DEF InfixPower, BinaryLevel, Logical, Comparisons, Additive, Multiplicative, Left, Powered
<1>5. CASE op \in Additive
  BY <1>1, <1>5 DEF InfixPower, BinaryLevel, Logical, Comparisons, Additive, Multiplicative, Left, Powered
<1>6. CASE op \in Multiplicative
  BY <1>1, <1>6 DEF InfixPower, BinaryLevel, Logical, Comparisons, Additive, Multiplicative, Left, Powered
<1> QED
  BY <1>1, <1>2, <1>3, <1>4, <1>5, <1>6 DEF Logical

LEMMA OperatorsOfLevels ==
  ASSUME NEW l \in 1..8, NEW op
  PROVE  /\ l \in BinaryLevels /\ op \in Operators[l] => op \in DOMAIN InfixPower /\ BinaryLevel(op) = l
         /\ op \in DOMAIN InfixPower => op \in Operators[BinaryLevel(op)] /\ BinaryLevel(op) \in BinaryLevels
         /\ l \in {3, 7} /\ op \in Operators[l] => op \in DOMAIN PrefixPower /\ UnaryLevel(op) = l
         /\ op \in DOMAIN PrefixPower => op \in Operators[UnaryLevel(op)] /\ UnaryLevel(op) \in {3, 7}
<1>1. /\ Operators[1] = {"OR"} /\ Operators[2] = {"AND"} /\ Operators[3] = {"NOT"}
      /\ Operators[4] = Comparisons /\ Operators[5] = Additive
      /\ Operators[6] = Multiplicative /\ Operators[7] = {"MINUS"}
  BY DEF Operators
<1>2. DOMAIN PrefixPower = {"NOT", "MINUS"}
      /\ DOMAIN InfixPower = {"OR", "AND"} \cup Comparisons \cup Additive \cup Multiplicative
  BY DEF PrefixPower, InfixPower, Logical
<1>3. ASSUME l \in BinaryLevels, op \in Operators[l]
      PROVE  op \in DOMAIN InfixPower /\ BinaryLevel(op) = l
  <2>1. BinaryLevel(op) = l
    BY <1>3, OperatorLevels
  <2>2. op \in DOMAIN InfixPower
    BY <1>1, <1>2, <1>3 DEF BinaryLevels
  <2> QED
    BY <2>1, <2>2
<1>4. ASSUME op \in DOMAIN InfixPower
      PROVE  op \in Operators[BinaryLevel(op)] /\ BinaryLevel(op) \in BinaryLevels
  <2>1. CASE op = "OR"
    BY <1>1, <2>1, 1 \in BinaryLevels, 1 \in 1..8, OperatorLevels DEF BinaryLevels
  <2>2. CASE op = "AND"
    BY <1>1, <2>2, 2 \in 1..8, OperatorLevels DEF BinaryLevels
  <2>3. CASE op \in Comparisons
    BY <1>1, <2>3, 4 \in 1..8, OperatorLevels DEF BinaryLevels
  <2>4. CASE op \in Additive
    BY <1>1, <2>4, 5 \in 1..8, OperatorLevels DEF BinaryLevels
  <2>5. CASE op \in Multiplicative
    BY <1>1, <2>5, 6 \in 1..8, OperatorLevels DEF BinaryLevels
  <2> QED
    BY <1>2, <1>4, <2>1, <2>2, <2>3, <2>4, <2>5
<1>5. ASSUME l \in {3, 7}, op \in Operators[l]
      PROVE  op \in DOMAIN PrefixPower /\ UnaryLevel(op) = l
  BY <1>1, <1>2, <1>5 DEF UnaryLevel
<1>6. ASSUME op \in DOMAIN PrefixPower
      PROVE  op \in Operators[UnaryLevel(op)] /\ UnaryLevel(op) \in {3, 7}
  BY <1>1, <1>2, <1>6 DEF UnaryLevel
<1> QED
  BY <1>3, <1>4, <1>5, <1>6

(* The level that parseExpression(min) reads.                              *)
LevelOf(min) ==
  CASE min = 0 -> 1
    [] min = 21 -> 2
    [] min \in {31, 40} -> 3
    [] min = 50 -> 4
    [] min = 61 -> 6
    [] min \in {71, 80} -> 7

(* No operator of a level or a tighter one is left to the caller.          *)
Admits(min, l) == \A op \in DOMAIN InfixPower : BinaryLevel(op) >= l => Left(op) >= min

LEMMA LevelsOfPowers ==
  /\ LevelOf(0) = 1 /\ LevelOf(21) = 2 /\ LevelOf(31) = 3 /\ LevelOf(40) = 3
  /\ LevelOf(50) = 4 /\ LevelOf(61) = 6 /\ LevelOf(71) = 7 /\ LevelOf(80) = 7
BY DEF LevelOf

Mins == {0, 21, 31, 40, 50, 61, 71, 80}

LEMMA LevelsAdmit ==
  ASSUME NEW min \in Mins
  PROVE  Admits(min, LevelOf(min)) /\ LevelOf(min) \in 1..8
<1>1. LevelOf(min) \in 1..8
  BY LevelsOfPowers DEF Mins
<1>2. ASSUME NEW op \in DOMAIN InfixPower, BinaryLevel(op) >= LevelOf(min)
      PROVE  Left(op) >= min
  BY <1>2, OperatorPowers, LevelsOfPowers DEF Mins, Powered
<1> QED
  BY <1>1, <1>2 DEF Admits

(* The operands' calls read the operands' levels.                          *)
LEMMA OperandLevels ==
  /\ \A op \in DOMAIN InfixPower :
       /\ InfixPower[op].right \in Mins /\ Left(op) \in Nat /\ Left(op) <= InfixPower[op].right
       /\ LevelOf(InfixPower[op].right) = RightLevel(BinaryLevel(op))
  /\ \A op \in DOMAIN PrefixPower :
       /\ PrefixPower[op] \in Mins
       /\ LevelOf(PrefixPower[op]) = UnaryLevel(op)
<1>1. ASSUME NEW op \in DOMAIN InfixPower
      PROVE  /\ InfixPower[op].right \in Mins /\ Left(op) \in Nat /\ Left(op) <= InfixPower[op].right
             /\ LevelOf(InfixPower[op].right) = RightLevel(BinaryLevel(op))
  BY OperatorPowers, LevelsOfPowers DEF Mins, Powered, RightLevel
<1>2. ASSUME NEW op \in DOMAIN PrefixPower
      PROVE  PrefixPower[op] \in Mins /\ LevelOf(PrefixPower[op]) = UnaryLevel(op)
  BY LevelsOfPowers DEF Mins, PrefixPower, UnaryLevel
<1> QED
  BY <1>1, <1>2

----------------------------------------------------------------------------
(* What is topmost in an expression of a level.                            *)
TopFits(t, l, ts) ==
  /\ TreeLevel(t, ts) \in 1..8 /\ TreeLevel(t, ts) >= l
  /\ t.kind \in ExpressionKinds
  /\ t.kind = "BinaryExpression" => ts[t.token] \in DOMAIN InfixPower
  /\ t.kind = "UnaryExpression" => ts[t.token] \in DOMAIN PrefixPower

LEMMA TopLevel ==
  ASSUME NEW ts, Len(ts) \in Nat, NEW l, NEW i, NEW j, NEW t, Derives(t, l, i, j, ts)
  PROVE  TopFits(t, l, ts)
<1>1. l \in 1..8
  BY DerivesFacts
<1> DEFINE S == {n \in Nat : \A m \in 1..8 : m = 8 - n /\ Derives(t, m, i, j, ts) =>
                               TopFits(t, m, ts)}
<1>2. ASSUME NEW m \in 1..8, Derives(t, m, i, j, ts),
             m \in 1..7 /\ Derives(t, m + 1, i, j, ts) => TopFits(t, m + 1, ts)
      PROVE  TopFits(t, m, ts)
  <2>1. ExpressionOf(t, m, i, j, ts)
    BY <1>2, DerivesFacts
  <2>2. CASE m \in 1..7 /\ Derives(t, m + 1, i, j, ts)
    BY <1>2, <2>2 DEF TopFits
  <2>3. CASE m \in BinaryLevels /\ \E k : BinaryOf(t, m, k, i, j, ts)
    <3>1. PICK k : BinaryOf(t, m, k, i, j, ts)
      BY <2>3
    <3>2. t.kind = "BinaryExpression" /\ t.token = k /\ ts[k] \in Operators[m]
      BY <3>1, TreeFields DEF BinaryOf
    <3>3. BinaryLevel(ts[k]) = m /\ ts[k] \in DOMAIN InfixPower
      BY <2>3, <3>2, OperatorsOfLevels
    <3> QED
      BY <3>2, <3>3 DEF TopFits, TreeLevel, ExpressionKinds
  <2>4. CASE m \in {3, 7} /\ UnaryOf(t, m, i, j, ts)
    <3>2. t.kind = "UnaryExpression" /\ t.token = i /\ ts[i] \in Operators[m]
      BY <2>4, TreeFields DEF UnaryOf
    <3>3. UnaryLevel(ts[i]) = m /\ ts[i] \in DOMAIN PrefixPower
      BY <2>4, <3>2, OperatorsOfLevels
    <3> QED
      BY <3>2, <3>3 DEF TopFits, TreeLevel, ExpressionKinds
  <2>5. CASE m = 8 /\ IsLeaf(t, i, j, ts)
    <3>1. t.kind \in {"Identifier", "Literal"}
      BY <2>5, TreeFields DEF IsLeaf
    <3> QED
      BY <3>1, <2>5 DEF TopFits, TreeLevel, ExpressionKinds
  <2>6. CASE m = 8 /\ GroupOf(t, i, j, ts)
    <3>1. t.kind = "GroupingExpression"
      BY <2>6, TreeFields DEF GroupOf
    <3> QED
      BY <3>1, <2>6 DEF TopFits, TreeLevel, ExpressionKinds
  <2> QED
    BY <2>1, <2>2, <2>3, <2>4, <2>5, <2>6 DEF ExpressionOf
<1>3. 0 \in S
  BY <1>2
<1>4. ASSUME NEW n \in Nat, n \in S
      PROVE  n + 1 \in S
  <2> SUFFICES ASSUME NEW m \in 1..8, m = 8 - (n + 1), Derives(t, m, i, j, ts)
               PROVE  TopFits(t, m, ts)
    OBVIOUS
  <2>1. m + 1 \in 1..8 /\ m + 1 = 8 - n
    OBVIOUS
  <2> QED
    BY <1>2, <1>4, <2>1
<1> HIDE DEF S
<1>5. \A n \in Nat : n \in S
  BY <1>3, <1>4, FromNumberToNext
<1>6. 8 - l \in Nat /\ l = 8 - (8 - l)
  BY <1>1
<1> QED
  BY <1>1, <1>5, <1>6 DEF S

(* What isConstantExpression says of a tree.                               *)
ConstantTree(t, ts) ==
  /\ t.kind = "BinaryExpression" => ts[t.token] \notin Logical
  /\ t.kind = "UnaryExpression" => ts[t.token] = "MINUS"

TreePower(t, ts) ==
  IF t.kind = "UnaryExpression" THEN PrefixPower[ts[t.token]] ELSE InfixPower[ts[t.token]].right

LEMMA TightIsConstant ==
  ASSUME NEW t, NEW ts, TopFits(t, 4, ts)
  PROVE  ConstantTree(t, ts)
<1>1. CASE t.kind = "BinaryExpression"
  <2>1. BinaryLevel(ts[t.token]) >= 4 /\ ts[t.token] \in DOMAIN InfixPower
    BY <1>1 DEF TopFits, TreeLevel
  <2>2. ts[t.token] \notin Logical
    BY <2>1, OperatorPowers DEF Powered
  <2> QED
    BY <1>1, <2>2 DEF ConstantTree
<1>2. CASE t.kind = "UnaryExpression"
  <2>1. UnaryLevel(ts[t.token]) >= 4 /\ ts[t.token] \in DOMAIN PrefixPower
    BY <1>2 DEF TopFits, TreeLevel
  <2>2. ts[t.token] = "MINUS"
    BY <2>1 DEF UnaryLevel, PrefixPower
  <2> QED
    BY <1>2, <2>2 DEF ConstantTree
<1> QED
  BY <1>1, <1>2 DEF ConstantTree

(* The operator behind a left operand of its level takes it.               *)
LEMMA TightIsTaken ==
  ASSUME NEW t, NEW ts, NEW op \in DOMAIN InfixPower, TopFits(t, LeftLevel(BinaryLevel(op)), ts),
         t.kind \in Operations
  PROVE  Left(op) < TreePower(t, ts)
<1>1. CASE t.kind = "BinaryExpression"
  <2> DEFINE o == ts[t.token]
  <2>1. BinaryLevel(o) >= LeftLevel(BinaryLevel(op)) /\ o \in DOMAIN InfixPower
    BY <1>1 DEF TopFits, TreeLevel
  <2>2. TreePower(t, ts) = InfixPower[o].right
    BY <1>1 DEF TreePower
  <2> HIDE DEF o
  <2>3. Left(op) < InfixPower[o].right
    BY <2>1, OperatorPowers DEF Powered, LeftLevel
  <2> QED
    BY <2>2, <2>3
<1>2. CASE t.kind = "UnaryExpression"
  <2> DEFINE o == ts[t.token]
  <2>1. UnaryLevel(o) >= LeftLevel(BinaryLevel(op)) /\ o \in DOMAIN PrefixPower
    BY <1>2 DEF TopFits, TreeLevel
  <2>2. TreePower(t, ts) = PrefixPower[o]
    BY <1>2 DEF TreePower
  <2> HIDE DEF o
  <2>3. Left(op) < PrefixPower[o]
    BY <2>1, OperatorPowers DEF Powered, LeftLevel, UnaryLevel, PrefixPower
  <2> QED
    BY <2>2, <2>3
<1> QED
  BY <1>1, <1>2 DEF Operations

----------------------------------------------------------------------------
(* An expression as parseExpression reads it: what parsePrefix reads, then *)
(* one operator with its right operand after the other.                    *)

PrefixTree(t, b, e, ts) ==
  \/ b + 1 \in 1..Len(ts) /\ IsLeaf(t, b + 1, e, ts)
  \/ b + 1 \in 1..Len(ts) /\ e \in 1..Len(ts) /\ GroupOf(t, b + 1, e, ts)
  \/ \E l \in {3, 7} : b + 1 \in 1..Len(ts) /\ UnaryOf(t, l, b + 1, e, ts)

(* With the operator behind v, the tree u up to v becomes u2 up to v2.     *)
Joined(u, v, u2, v2, min, ts) ==
  LET op == ts[v + 1]
  IN  /\ v + 1 \in 1..Len(ts) /\ op \in DOMAIN InfixPower /\ Left(op) >= min
      /\ u.kind \in Operations => Left(op) < TreePower(u, ts)
      /\ \E rhs : /\ Derives(rhs, RightLevel(BinaryLevel(op)), v + 2, v2, ts)
                  /\ u2 = Tree("BinaryExpression", v + 1, <<u, rhs>>)
                  /\ op \notin Logical => ConstantTree(u, ts) /\ ConstantTree(rhs, ts)

Spine(n, q, w, min, ts) == \A r \in 1..(n - 1) : Joined(q[r], w[r], q[r + 1], w[r + 1], min, ts)

OnSpine(u, v, t, e, min, ts) ==
  \E n \in Nat \ {0} : \E q, w :
    /\ q[1] = u /\ w[1] = v /\ q[n] = t /\ w[n] = e
    /\ Spine(n, q, w, min, ts)

LEMMA SpineStays ==
  ASSUME NEW t, NEW e, NEW min, NEW ts
  PROVE  OnSpine(t, e, t, e, min, ts)
<1> DEFINE q == [r \in 1..1 |-> t]
           w == [r \in 1..1 |-> e]
<1>1. q[1] = t /\ w[1] = e /\ 1 \in Nat \ {0}
  OBVIOUS
<1>2. Spine(1, q, w, min, ts)
  BY DEF Spine
<1> QED
  BY <1>1, <1>2 DEF OnSpine

LEMMA SpineTail ==
  ASSUME NEW u, NEW v, NEW t, NEW e, NEW min, NEW ts, OnSpine(u, v, t, e, min, ts)
  PROVE  \/ u = t /\ v = e
         \/ \E u2, v2 : Joined(u, v, u2, v2, min, ts) /\ OnSpine(u2, v2, t, e, min, ts)
<1>1. PICK n \in Nat \ {0} : \E q, w :
        q[1] = u /\ w[1] = v /\ q[n] = t /\ w[n] = e /\ Spine(n, q, w, min, ts)
  BY DEF OnSpine
<1>2. PICK q, w : q[1] = u /\ w[1] = v /\ q[n] = t /\ w[n] = e /\ Spine(n, q, w, min, ts)
  BY <1>1
<1>3. CASE n = 1
  BY <1>2, <1>3
<1>4. CASE n # 1
  <2> DEFINE q2 == [r \in 1..(n - 1) |-> q[r + 1]]
             w2 == [r \in 1..(n - 1) |-> w[r + 1]]
  <2>1. n - 1 \in Nat \ {0} /\ 1 \in 1..(n - 1)
    BY <1>4
  <2>2. \A r \in 1..(n - 1) : q2[r] = q[r + 1] /\ w2[r] = w[r + 1]
    OBVIOUS
  <2> HIDE DEF q2, w2
  <2>3. ASSUME NEW r \in 1..((n - 1) - 1)
        PROVE  Joined(q2[r], w2[r], q2[r + 1], w2[r + 1], min, ts)
    <3>1. r \in 1..(n - 1) /\ r + 1 \in 1..(n - 1)
      OBVIOUS
    <3>2. Joined(q[r + 1], w[r + 1], q[(r + 1) + 1], w[(r + 1) + 1], min, ts)
      BY <1>2, <3>1 DEF Spine
    <3> QED
      BY <2>2, <3>1, <3>2
  <2>4. q2[1] = q[2] /\ w2[1] = w[2] /\ q2[n - 1] = t /\ w2[n - 1] = e
    BY <1>2, <2>1, <2>2
  <2>5. Spine(n - 1, q2, w2, min, ts)
    BY <2>3 DEF Spine
  <2>6. OnSpine(q[2], w[2], t, e, min, ts)
    BY <2>1, <2>4, <2>5 DEF OnSpine
  <2>7. Joined(u, v, q[2], w[2], min, ts)
    <3>1. Joined(q[1], w[1], q[1 + 1], w[1 + 1], min, ts)
      BY <1>2, <2>1 DEF Spine
    <3> QED
      BY <1>2, <3>1
  <2> QED
    BY <2>6, <2>7
<1> QED
  BY <1>3, <1>4

LEMMA SpineLonger ==
  ASSUME NEW u, NEW v, NEW t, NEW e, NEW min, NEW ts, OnSpine(u, v, t, e, min, ts),
         NEW t2, NEW e2, Joined(t, e, t2, e2, min, ts)
  PROVE  OnSpine(u, v, t2, e2, min, ts)
<1>1. PICK n \in Nat \ {0} : \E q, w :
        q[1] = u /\ w[1] = v /\ q[n] = t /\ w[n] = e /\ Spine(n, q, w, min, ts)
  BY DEF OnSpine
<1>2. PICK q, w : q[1] = u /\ w[1] = v /\ q[n] = t /\ w[n] = e /\ Spine(n, q, w, min, ts)
  BY <1>1
<1> DEFINE q2 == [r \in 1..(n + 1) |-> IF r = n + 1 THEN t2 ELSE q[r]]
           w2 == [r \in 1..(n + 1) |-> IF r = n + 1 THEN e2 ELSE w[r]]
<1>3. /\ \A r \in 1..n : q2[r] = q[r] /\ w2[r] = w[r]
      /\ q2[n + 1] = t2 /\ w2[n + 1] = e2
  OBVIOUS
<1> HIDE DEF q2, w2
<1>4. ASSUME NEW r \in 1..((n + 1) - 1)
      PROVE  Joined(q2[r], w2[r], q2[r + 1], w2[r + 1], min, ts)
  <2>1. CASE r = n
    <3>1. q2[r] = t /\ w2[r] = e
      BY <1>2, <1>3, <2>1
    <3>2. q2[r + 1] = t2 /\ w2[r + 1] = e2
      BY <1>3, <2>1
    <3> QED
      BY <3>1, <3>2
  <2>2. CASE r # n
    <3>1. r \in 1..(n - 1) /\ r \in 1..n /\ r + 1 \in 1..n
      BY <2>2
    <3>2. Joined(q[r], w[r], q[r + 1], w[r + 1], min, ts)
      BY <1>2, <3>1 DEF Spine
    <3> QED
      BY <1>3, <3>1, <3>2
  <2> QED
    BY <2>1, <2>2
<1>5. Spine(n + 1, q2, w2, min, ts)
  BY <1>4 DEF Spine
<1>6. q2[1] = u /\ w2[1] = v /\ n + 1 \in Nat \ {0}
  BY <1>2, <1>3
<1> QED
  BY <1>3, <1>5, <1>6 DEF OnSpine

HasSpine(t, i, j, min, ts) ==
  \E u, v : PrefixTree(u, i - 1, v, ts) /\ OnSpine(u, v, t, j, min, ts)

LEMMA Spines ==
  ASSUME NEW ts, Len(ts) \in Nat, NEW l, NEW i, NEW j, NEW t, Derives(t, l, i, j, ts),
         NEW min, Admits(min, l)
  PROVE  HasSpine(t, i, j, min, ts)
<1> DEFINE S == {w \in Nat : \A t2, l2, i2, j2 :
                   Derives(t2, l2, i2, j2, ts) /\ Weight(l2, i2, j2, ts) = w /\ Admits(min, l2)
                   => HasSpine(t2, i2, j2, min, ts)}
<1>1. ASSUME NEW w \in Nat, \A v \in Nat : v < w => v \in S
      PROVE  w \in S
  <2> SUFFICES ASSUME NEW t2, NEW l2, NEW i2, NEW j2, Derives(t2, l2, i2, j2, ts),
                      Weight(l2, i2, j2, ts) = w, Admits(min, l2)
               PROVE  HasSpine(t2, i2, j2, min, ts)
    OBVIOUS
  <2>1. /\ IsPart(l2, i2, j2, ts) /\ ExpressionOf(t2, l2, i2, j2, ts)
        /\ l2 \in 1..8 /\ i2 \in 1..Len(ts) /\ j2 \in 1..Len(ts) /\ i2 <= j2
    BY DerivesFacts
  <2>2. w = 9 * (Len(ts) + 1 + j2 - i2) + 8 - l2
    BY DEF Weight
  <2>3. ASSUME NEW t3, NEW l3, NEW j3, Derives(t3, l3, i2, j3, ts), Admits(min, l3),
               9 * (Len(ts) + 1 + j3 - i2) + 8 - l3 < 9 * (Len(ts) + 1 + j2 - i2) + 8 - l2
        PROVE  HasSpine(t3, i2, j3, min, ts)
    <3>1. Weight(l3, i2, j3, ts) \in Nat
      BY <2>3, DerivesFacts, PartFacts
    <3>2. Weight(l3, i2, j3, ts) < w
      BY <2>2, <2>3 DEF Weight
    <3>3. Weight(l3, i2, j3, ts) \in S
      BY <1>1, <3>1, <3>2
    <3> QED
      BY <2>3, <3>3
  <2> HIDE DEF S
  <2>4. ASSUME PrefixTree(t2, i2 - 1, j2, ts)
        PROVE  HasSpine(t2, i2, j2, min, ts)
    BY <2>4, SpineStays DEF HasSpine
  <2>a. (i2 - 1) + 1 = i2
    BY <2>1
  <2>5. CASE l2 \in 1..7 /\ Derives(t2, l2 + 1, i2, j2, ts)
    <3>1. Admits(min, l2 + 1)
      <4>1. ASSUME NEW op \in DOMAIN InfixPower, BinaryLevel(op) >= l2 + 1
            PROVE  Left(op) >= min
        <5>1. BinaryLevel(op) \in Nat
          BY OperatorPowers DEF Powered
        <5>2. BinaryLevel(op) >= l2
          BY <2>1, <4>1, <5>1
        <5> QED
          BY <5>2 DEF Admits
      <4> QED
        BY <4>1 DEF Admits
    <3> QED
      BY <2>1, <2>3, <2>5, <3>1
  <2>6. CASE l2 \in BinaryLevels /\ \E k : BinaryOf(t2, l2, k, i2, j2, ts)
    <3>1. PICK k : BinaryOf(t2, l2, k, i2, j2, ts)
      BY <2>6
    <3>2. PICK a, b : /\ Derives(a, LeftLevel(l2), i2, k - 1, ts)
                      /\ Derives(b, RightLevel(l2), k + 1, j2, ts)
                      /\ t2 = Tree("BinaryExpression", k, <<a, b>>)
      BY <3>1 DEF BinaryOf
    <3>3. /\ LeftLevel(l2) \in 1..8 /\ LeftLevel(l2) >= l2 /\ RightLevel(l2) \in 1..8
          /\ (l2 >= 4 => LeftLevel(l2) >= 4 /\ RightLevel(l2) >= 4)
      BY <2>6 DEF LeftLevel, RightLevel, BinaryLevels
    <3>4. /\ k \in (i2 + 1)..(j2 - 1) /\ ts[k] \in Operators[l2] /\ k \in 1..Len(ts)
          /\ (k - 1) + 1 = k /\ (k - 1) + 2 = k + 1
      BY <2>1, <3>1 DEF BinaryOf
    <3>5. ts[k] \in DOMAIN InfixPower /\ BinaryLevel(ts[k]) = l2
      BY <2>1, <2>6, <3>4, OperatorsOfLevels
    <3>6. TopFits(a, LeftLevel(l2), ts) /\ TopFits(b, RightLevel(l2), ts)
      BY <3>2, TopLevel
    <3>7. HasSpine(a, i2, k - 1, min, ts)
      <4>1. Admits(min, LeftLevel(l2))
        <5>1. ASSUME NEW op \in DOMAIN InfixPower, BinaryLevel(op) >= LeftLevel(l2)
              PROVE  Left(op) >= min
          <6>1. BinaryLevel(op) \in Nat
            BY OperatorPowers DEF Powered
          <6>2. BinaryLevel(op) >= l2
            BY <2>1, <3>3, <5>1, <6>1
          <6> QED
            BY <6>2 DEF Admits
        <5> QED
          BY <5>1 DEF Admits
      <4>0. k \in Int /\ (k - 1) - i2 <= (j2 - i2) - 2
        BY <2>1, <3>4
      <4>2. 9 * (Len(ts) + 1 + (k - 1) - i2) + 8 - LeftLevel(l2)
              < 9 * (Len(ts) + 1 + j2 - i2) + 8 - l2
        BY <2>1, <3>3, <4>0
      <4> QED
        BY <2>3, <3>2, <4>1, <4>2
    <3>8. Joined(a, k - 1, t2, j2, min, ts)
      <4>1. Left(ts[k]) >= min
        <5>1. BinaryLevel(ts[k]) >= l2
          BY <2>1, <3>5
        <5> QED
          BY <3>5, <5>1 DEF Admits
      <4>2. a.kind \in Operations => Left(ts[k]) < TreePower(a, ts)
        BY <3>5, <3>6, TightIsTaken
      <4>3. ts[k] \notin Logical => ConstantTree(a, ts) /\ ConstantTree(b, ts)
        <5> SUFFICES ASSUME ts[k] \notin Logical
                     PROVE  ConstantTree(a, ts) /\ ConstantTree(b, ts)
          OBVIOUS
        <5>1. l2 >= 4
          BY <3>5, OperatorPowers DEF Powered
        <5>2. TopFits(a, 4, ts) /\ TopFits(b, 4, ts)
          BY <3>3, <3>6, <5>1 DEF TopFits
        <5> QED
          BY <5>2, TightIsConstant
      <4> QED
        BY <3>2, <3>4, <3>5, <4>1, <4>2, <4>3 DEF Joined
    <3>9. PICK u, v : PrefixTree(u, i2 - 1, v, ts) /\ OnSpine(u, v, a, k - 1, min, ts)
      BY <3>7 DEF HasSpine
    <3> QED
      BY <3>8, <3>9, SpineLonger DEF HasSpine
  <2>7. CASE l2 \in {3, 7} /\ UnaryOf(t2, l2, i2, j2, ts)
    BY <2>1, <2>4, <2>7, <2>a DEF PrefixTree
  <2>8. CASE l2 = 8 /\ IsLeaf(t2, i2, j2, ts)
    BY <2>1, <2>4, <2>8, <2>a DEF PrefixTree
  <2>9. CASE l2 = 8 /\ GroupOf(t2, i2, j2, ts)
    BY <2>1, <2>4, <2>9, <2>a DEF PrefixTree
  <2> QED
    BY <2>1, <2>5, <2>6, <2>7, <2>8, <2>9 DEF ExpressionOf
<1> HIDE DEF S
<1>2. \A w \in Nat : w \in S
  BY <1>1, FromSmallerNumbers
<1>3. Weight(l, i, j, ts) \in Nat
  BY DerivesFacts, PartFacts
<1> QED
  BY <1>2, <1>3 DEF S

----------------------------------------------------------------------------
(* What a step leaves behind, field by field.                              *)

Back(at, own, token) == [Top EXCEPT !.at = at, !.own = own, !.token = token]

LEMMA BackFacts ==
  ASSUME IInv, stack # <<>>, NEW at \in Places, NEW own \in Seq(Nat), NEW token \in Nat
  PROVE  /\ Back(at, own, token) \in Frame /\ Back(at, own, token).at = at
         /\ Back(at, own, token).own = own /\ Back(at, own, token).token = token
         /\ Back(at, own, token).min = Top.min
<1>1. Top \in Frame
  BY TopFacts
<1> QED
  BY <1>1 DEF Back, Frame

LEMMA EnterFacts ==
  ASSUME NEW at \in Places, NEW min \in Nat, NEW token \in Nat
  PROVE  /\ Enter(at, min, token) \in Frame /\ Enter(at, min, token).at = at
         /\ Enter(at, min, token).own = <<>> /\ Enter(at, min, token).token = token
         /\ Enter(at, min, token).min = min
<1>1. <<>> \in Seq(Nat)
  OBVIOUS
<1> QED
  BY <1>1 DEF Enter, Frame

LEMMA CallForms ==
  ASSUME IInv, stack # <<>>, NEW at, NEW own, NEW token, NEW c
  PROVE  /\ Call(c, at) =>
              stack' = <<c, Back(at, Top.own, Top.token)>> \o Tail(stack) /\ result' = result
         /\ CallFrom([Top EXCEPT !.at = at, !.own = own], c) =>
              stack' = <<c, Back(at, own, Top.token)>> \o Tail(stack) /\ result' = result
         /\ CallFrom([Top EXCEPT !.at = at, !.token = token], c) =>
              stack' = <<c, Back(at, Top.own, token)>> \o Tail(stack) /\ result' = result
<1>1. Top \in Frame
  BY TopFacts
<1>2. /\ [Top EXCEPT !.at = at] = Back(at, Top.own, Top.token)
      /\ [Top EXCEPT !.at = at, !.own = own] = Back(at, own, Top.token)
      /\ [Top EXCEPT !.at = at, !.token = token] = Back(at, Top.own, token)
  BY <1>1, SameFrame DEF Back
<1> QED
  BY <1>2 DEF Call, CallFrom

LEMMA GoOnForms ==
  ASSUME IInv, stack # <<>>, NEW at
  PROVE  /\ GoOn([Top EXCEPT !.at = at]) => stack' = <<Back(at, Top.own, Top.token)>> \o Tail(stack)
         /\ \A own : GoOn([Top EXCEPT !.at = at, !.own = own]) =>
                      stack' = <<Back(at, own, Top.token)>> \o Tail(stack)
<1>1. Top \in Frame
  BY TopFacts
<1>2. /\ [Top EXCEPT !.at = at] = Back(at, Top.own, Top.token)
      /\ \A own : [Top EXCEPT !.at = at, !.own = own] = Back(at, own, Top.token)
  BY <1>1, SameFrame DEF Back
<1> QED
  BY <1>2 DEF GoOn

LEMMA OwnForms ==
  ASSUME IInv, stack # <<>>, NEW own, GoOn([Top EXCEPT !.own = own])
  PROVE  stack' = <<Back(Top.at, own, Top.token)>> \o Tail(stack)
<1>1. Top \in Frame
  BY TopFacts
<1>2. [Top EXCEPT !.own = own] = Back(Top.at, own, Top.token)
  BY <1>1, SameFrame DEF Back
<1> QED
  BY <1>2 DEF GoOn

(* The heap with a new node.                                               *)
LEMMA NewFacts ==
  ASSUME IInv, IInv', NEW kind, NEW token, NEW kids, NEW dim, NEW from, NEW to,
         New(kind, token, kids, dim, from, to)
  PROVE  /\ Grows(nodes, nodes') /\ Len(nodes') = NewPtr /\ NewPtr = Len(nodes) + 1
         /\ NewPtr \in 1..Len(nodes') /\ NewPtr # Null /\ Len(nodes) \in Nat
         /\ nodes'[NewPtr].kind = kind /\ nodes'[NewPtr].token = token
         /\ nodes'[NewPtr].kids = kids /\ nodes'[NewPtr].dim = dim
         /\ nodes'[NewPtr].from = from /\ nodes'[NewPtr].to = to
         /\ nodes'[NewPtr] \in Node
<1> DEFINE n == [kind |-> kind, token |-> token, kids |-> kids, dim |-> dim,
                 from |-> from, to |-> to]
<1>1. nodes' = Append(nodes, n)
  BY DEF New
<1>2. /\ n.kind = kind /\ n.token = token /\ n.kids = kids /\ n.dim = dim
      /\ n.from = from /\ n.to = to
  OBVIOUS
<1> HIDE DEF n
<1>3. nodes \in Seq(Node) /\ Len(nodes) \in Nat /\ nodes' \in Seq(Node)
  BY DEF IInv, TypeOK
<1>4. Len(nodes') = Len(nodes) + 1 /\ nodes'[Len(nodes) + 1] = n
  BY <1>1, <1>3
<1>5. n \in Node
  <2>1. Len(nodes) + 1 \in 1..Len(nodes')
    BY <1>3, <1>4
  <2> QED
    BY <1>3, <1>4, <2>1
<1>6. Grows(nodes, nodes')
  BY <1>1, <1>3, <1>5, GrowsAppend
<1> QED
  BY <1>2, <1>3, <1>4, <1>5, <1>6 DEF NewPtr, Null

----------------------------------------------------------------------------
(***************************************************************************)
(* What the nodes are made of: each kind of node has children of the kinds *)
(* the grammar has in its place, with the tokens of the grammar between    *)
(* them.                                                                   *)
(***************************************************************************)

Behind(p, type, ts, ns) == ts[ns[p].to + 1] = type

IsExpression(p, ns) == ns[p].kind \in ExpressionKinds

Brackets(token, dim, ts) ==
  /\ ts[token] \in {"ID", "IDSTRING"}
  /\ \A k \in 1..dim : ts[token - k] = "OPENBRACK" /\ ts[token + k] = "CLOSEBRACK"

TypedMade(n, ts, ns) ==
  /\ n.token = NoToken
  /\ ns[n.kids[1]].kind = "Identifier" /\ ns[n.kids[2]].kind = "Type"
  /\ Behind(n.kids[1], "COLON", ts, ns)

NodeMade(n, ts, ns) ==
  /\ n.kind \in {"Identifier", "Literal", "Type"} => n.kids = <<>>
  /\ n.kind = "Type" => Brackets(n.token, n.dim, ts)
  /\ n.kind = "TypedVariable" => Len(n.kids) = 2 /\ TypedMade(n, ts, ns)
  /\ n.kind = "VariableDefinition" =>
       /\ Len(n.kids) = 3 /\ TypedMade(n, ts, ns)
       /\ Behind(n.kids[2], "ASSIGN", ts, ns)
       /\ ns[n.kids[3]].kind = "Literal"
  /\ n.kind = "AssignmentStatement" =>
       /\ n.token = NoToken /\ n.kids # <<>>
       /\ IsExpression(n.kids[Len(n.kids)], ns)
       /\ \A k \in 1..(Len(n.kids) - 1) : Behind(n.kids[k], "ASSIGN", ts, ns)
  /\ n.kind \in Operations => \A k \in 1..Len(n.kids) : IsExpression(n.kids[k], ns)
  /\ n.kind = "GroupingExpression" =>
       /\ ts[n.from] = "OPENPAREN" /\ TypeIn(ts, n.to) = "CLOSEPAREN"
       /\ n.kids[1] # Null => IsExpression(n.kids[1], ns)

HeapMade(ts, ns) == Down(ns) /\ \A p \in 1..Len(ns) : NodeMade(ns[p], ts, ns)

(* What an activation owns, and the token it has seen behind it.           *)
FrameMade(f, ts, ns) ==
  /\ f.at \in {"expression.operator", "expression.operand"} => IsExpression(f.own[1], ns)
  /\ f.at \in {"typedVariable.colon", "typedVariable.type"} => ns[f.own[1]].kind = "Identifier"
  /\ f.at = "typedVariable.type" => Behind(f.own[1], "COLON", ts, ns)
  /\ f.at = "definition.literal" => Behind(f.own[1], "ASSIGN", ts, ns)
  /\ f.at \in {"assignment", "assignment.expression"} =>
       \A k \in 1..Len(f.own) : Behind(f.own[k], "ASSIGN", ts, ns)
  /\ f.at = "type.bracket" => ts[f.token] = "OPENBRACK"
  /\ f.at = "prefix.group" => ts[f.token] = "OPENPAREN"

StackMade(S, ts, ns) == \A k \in 1..Len(S) : FrameMade(S[k], ts, ns)

(* What a parse function returns.                                          *)
GivenBack(fn, p, ns) ==
  /\ fn = "literal" => ns[p].kind = "Literal"
  /\ fn \in ExpressionFunctions => IsExpression(p, ns)

ResultMade ==
  stack # <<>> /\ result # Null /\ Top.at \in CallPlaces =>
    GivenBack(Callee(Top.at), result, nodes)

MInv == HeapMade(toks, nodes) /\ StackMade(stack, toks, nodes) /\ ResultMade

(* What is known of a node or an activation stays true in a larger heap.   *)
LEMMA NodeMadeGrows ==
  ASSUME NEW ts, NEW ns, NEW ns2, Grows(ns, ns2), NEW n \in Node, Linked(n, ns), NodeMade(n, ts, ns)
  PROVE  NodeMade(n, ts, ns2)
<1>1. \A k \in 1..Len(n.kids) : n.kids[k] \in 1..Len(ns) => ns2[n.kids[k]] = ns[n.kids[k]]
  BY DEF Grows
<1>2. n.kind # "GroupingExpression" =>
        \A k \in 1..Len(n.kids) : n.kids[k] \in 1..Len(ns) /\ ns2[n.kids[k]] = ns[n.kids[k]]
  BY <1>1 DEF Linked
<1>3. n.kids \in Seq(Nat)
  BY DEF Node
<1>4. CASE n.kind \in {"Identifier", "Literal", "Type"}
  BY <1>4 DEF NodeMade, Operations
<1>5. CASE n.kind \in {"TypedVariable", "VariableDefinition"}
  <2>1. (Len(n.kids) = 2 \/ Len(n.kids) = 3) /\ TypedMade(n, ts, ns)
    BY <1>5 DEF NodeMade
  <2>2. 1 \in 1..Len(n.kids) /\ 2 \in 1..Len(n.kids) /\ (Len(n.kids) = 3 => 3 \in 1..Len(n.kids))
    <3> DEFINE m == Len(n.kids)
    <3>1. m = 2 \/ m = 3
      BY <2>1
    <3> HIDE DEF m
    <3>2. 1 \in 1..m /\ 2 \in 1..m /\ (m = 3 => 3 \in 1..m)
      BY <3>1
    <3> QED
      BY <3>2 DEF m
  <2>3. /\ ns2[n.kids[1]] = ns[n.kids[1]] /\ ns2[n.kids[2]] = ns[n.kids[2]]
        /\ Len(n.kids) = 3 => ns2[n.kids[3]] = ns[n.kids[3]]
    BY <1>2, <1>5, <2>2
  <2>4. TypedMade(n, ts, ns2)
    BY <2>1, <2>3 DEF TypedMade, Behind
  <2> QED
    BY <1>5, <2>3, <2>4 DEF NodeMade, Behind, Operations
<1>6. CASE n.kind = "AssignmentStatement"
  <2>1. Len(n.kids) \in 1..Len(n.kids) /\ \A k \in 1..(Len(n.kids) - 1) : k \in 1..Len(n.kids)
    BY <1>3, <1>6 DEF NodeMade
  <2> QED
    BY <1>2, <1>6, <2>1 DEF NodeMade, Behind, IsExpression, Operations
<1>7. CASE n.kind \in Operations
  BY <1>2, <1>7 DEF NodeMade, Operations, IsExpression
<1>8. CASE n.kind = "GroupingExpression"
  <2>1. 1 \in 1..Len(n.kids)
    BY <1>8 DEF Linked
  <2>2. n.kids[1] # Null => ns2[n.kids[1]] = ns[n.kids[1]]
    BY <1>1, <1>8, <2>1 DEF Linked
  <2> QED
    BY <1>8, <2>2 DEF NodeMade, Operations, IsExpression
<1>9. CASE n.kind = "Program"
  BY <1>9 DEF NodeMade, Operations
<1> QED
  BY <1>4, <1>5, <1>6, <1>7, <1>8, <1>9 DEF Node, NodeKinds, Operations

LEMMA FrameMadeGrows ==
  ASSUME NEW ts, NEW ns, NEW ns2, Grows(ns, ns2), NEW f \in Frame, FrameFine(f, ts, ns),
         FrameMade(f, ts, ns)
  PROVE  FrameMade(f, ts, ns2)
<1>1. \A i \in 1..Len(f.own) : ns2[f.own[i]] = ns[f.own[i]]
  BY DEF FrameFine, Grows
<1>2. f.at \in OwnsOne => ns2[f.own[1]] = ns[f.own[1]]
  <2>1. f.at \in OwnsOne => Len(f.own) = 1
    BY DEF FrameFine
  <2>2. f.at \in OwnsOne => 1 \in 1..Len(f.own)
    BY ONLY <2>1
  <2> QED
    BY <1>1, <2>2
<1> QED
  BY <1>1, <1>2 DEF FrameMade, Behind, IsExpression, OwnsOne

LEMMA HeapMadeAppends ==
  ASSUME IInv, IInv', CInv, CInv', MInv, toks' = toks,
         NEW kind, NEW token, NEW kids, NEW dim, NEW from, NEW to,
         New(kind, token, kids, dim, from, to),
         \A k \in 1..Len(kids) : kids[k] \in 0..Len(nodes),
         NodeMade(nodes'[NewPtr], toks, nodes)
  PROVE  HeapMade(toks, nodes') /\ Grows(nodes, nodes')
<1> DEFINE n == nodes'[NewPtr]
           N == Len(nodes)
<1>1. /\ Grows(nodes, nodes') /\ Len(nodes') = N + 1 /\ NewPtr = N + 1
      /\ N \in Nat /\ n.kids = kids /\ n \in Node /\ NewPtr \in 1..Len(nodes')
  BY NewFacts
<1>2. \A p \in 1..N : nodes'[p] = nodes[p]
  BY <1>1 DEF Grows
<1>3. /\ \A p \in 1..N : Linked(nodes[p], nodes) /\ NodeMade(nodes[p], toks, nodes)
      /\ \A p \in 1..N : nodes[p] \in Node
      /\ Linked(n, nodes') /\ NodeMade(n, toks, nodes)
      /\ Down(nodes)
  BY <1>1 DEF CInv, HeapTiles, MInv, HeapMade, IInv, TypeOK
<1>4. \A k \in 1..Len(n.kids) : n.kids[k] \in 0..N
  BY <1>1
<1>a. n.kids \in Seq(Nat) /\ \A p \in 1..N : nodes[p].kids \in Seq(Nat)
  BY <1>1, <1>3 DEF Node
<1> HIDE DEF n, N
<1>5. Linked(n, nodes)
  <2>1. \A k \in 1..Len(n.kids) : n.kids[k] = Null \/ n.kids[k] \in 1..N
    BY <1>1, <1>4 DEF Null
  <2>2. \A k \in 1..Len(n.kids) : Null \notin 1..Len(nodes')
    BY DEF Null
  <2> QED
    BY <1>3, <2>1, <2>2 DEF Linked, N
<1>6. Down(nodes')
  <2> SUFFICES ASSUME NEW p \in 1..Len(nodes'), NEW k \in DOMAIN nodes'[p].kids
               PROVE  nodes'[p].kids[k] \in 0..(p - 1)
    BY DEF Down
  <2>1. CASE p \in 1..N
    BY <1>2, <1>3, <2>1 DEF Down, N
  <2>2. CASE p = N + 1
    <3>1. nodes'[p] = n
      BY <1>1, <2>2 DEF n
    <3>2. k \in 1..Len(n.kids)
      BY <1>a, <3>1
    <3> QED
      BY <1>1, <1>4, <2>2, <3>1, <3>2
  <2> QED
    BY <1>1, <2>1, <2>2
<1>7. ASSUME NEW p \in 1..Len(nodes')
      PROVE  NodeMade(nodes'[p], toks, nodes')
  <2>1. CASE p \in 1..N
    BY <1>1, <1>2, <1>3, <2>1, NodeMadeGrows
  <2>2. CASE p = N + 1
    <3>1. nodes'[p] = n
      BY <1>1, <2>2 DEF n
    <3> QED
      BY <1>1, <1>3, <1>5, <3>1, NodeMadeGrows
  <2> QED
    BY <1>1, <2>1, <2>2
<1> QED
  BY <1>1, <1>6, <1>7 DEF HeapMade

LEMMA OthersMade ==
  ASSUME IInv, stack # <<>>, MInv, Grows(nodes, nodes')
  PROVE  \A k \in 1..Len(stack) : FrameMade(stack[k], toks, nodes')
<1> SUFFICES ASSUME NEW k \in 1..Len(stack)
             PROVE  FrameMade(stack[k], toks, nodes')
  OBVIOUS
<1>1. stack[k] \in Frame /\ FrameFine(stack[k], toks, nodes)
  BY TopFacts DEF StackFine, FramesFine
<1>2. FrameMade(stack[k], toks, nodes)
  BY DEF MInv, StackMade
<1> QED
  BY <1>1, <1>2, FrameMadeGrows

LEMMA SameMade ==
  ASSUME IInv, MInv, nodes' = nodes
  PROVE  HeapMade(toks, nodes') /\ Grows(nodes, nodes')
<1>1. nodes \in Seq(Node)
  BY DEF IInv, TypeOK
<1> QED
  BY <1>1, GrowsSame DEF MInv

LEMMA GoOnMade ==
  ASSUME IInv, stack # <<>>, MInv, toks' = toks, HeapMade(toks, nodes'), Grows(nodes, nodes'),
         NEW f \in Frame, stack' = <<f>> \o Tail(stack), f.at \notin CallPlaces,
         FrameMade(f, toks, nodes')
  PROVE  MInv'
<1> DEFINE S == <<f>> \o Tail(stack)
<1>1. /\ S \in Seq(Frame) /\ S # <<>> /\ Len(S) = Len(stack) /\ S[1] = f /\ Head(S) = f
      /\ \A k \in 2..Len(stack) : S[k] = stack[k]
  BY TopFacts, ReplaceTop
<1> HIDE DEF S
<1>2. ASSUME NEW k \in 1..Len(S)
      PROVE  FrameMade(S[k], toks, nodes')
  <2>1. CASE k = 1
    BY <1>1, <2>1
  <2>2. CASE k # 1
    <3>1. k \in 2..Len(stack) /\ k \in 1..Len(stack)
      BY <1>1, <1>2, <2>2
    <3> QED
      BY <1>1, <3>1, OthersMade
  <2> QED
    BY <2>1, <2>2
<1>3. stack' = S /\ Top' = f
  BY <1>1 DEF S, Top
<1>4. ResultMade'
  BY ONLY <1>3, f.at \notin CallPlaces DEF ResultMade
<1> QED
  BY <1>2, <1>3, <1>4 DEF MInv, StackMade

LEMMA CallMade ==
  ASSUME IInv, stack # <<>>, MInv, toks' = toks, nodes' = nodes,
         NEW f \in Frame, NEW c \in Frame, stack' = <<c, f>> \o Tail(stack),
         c.at \notin CallPlaces, c.own = <<>>, c.at \notin OwnsOne, FrameMade(f, toks, nodes)
  PROVE  MInv'
<1> DEFINE S == <<c, f>> \o Tail(stack)
<1>1. /\ S \in Seq(Frame) /\ S # <<>> /\ Len(S) = Len(stack) + 1 /\ S[1] = c /\ S[2] = f
      /\ Head(S) = c /\ \A k \in 2..Len(stack) : S[k + 1] = stack[k]
  BY TopFacts, PushCallee
<1> HIDE DEF S
<1>a. Len(stack) \in Nat
  BY TopFacts
<1>2. FrameMade(c, toks, nodes)
  <2>1. Len(c.own) = 0
    OBVIOUS
  <2> QED
    BY <2>1, CallPlaceNames DEF FrameMade, OwnsOne
<1>3. ASSUME NEW k \in 1..Len(S)
      PROVE  FrameMade(S[k], toks, nodes)
  <2>1. CASE k \in {1, 2}
    BY <1>1, <1>2, <2>1
  <2>2. CASE k \notin {1, 2}
    <3> DEFINE j == k - 1
    <3>1. j \in 2..Len(stack) /\ j \in 1..Len(stack) /\ j + 1 = k
      BY <1>1, <1>3, <1>a, <2>2
    <3> HIDE DEF j
    <3>2. S[k] = stack[j]
      BY <1>1, <3>1
    <3> QED
      BY <3>1, <3>2 DEF MInv, StackMade
  <2> QED
    BY <2>1, <2>2
<1>4. stack' = S /\ Top' = c
  BY <1>1 DEF S, Top
<1>5. ResultMade'
  BY ONLY <1>4, c.at \notin CallPlaces DEF ResultMade
<1> QED
  BY <1>3, <1>4, <1>5 DEF MInv, StackMade

LEMMA ReturnMade ==
  ASSUME IInv, CInv, stack # <<>>, MInv, toks' = toks, HeapMade(toks, nodes'),
         Grows(nodes, nodes'), stack' = Tail(stack),
         result' # Null => GivenBack(Function(Top.at), result', nodes')
  PROVE  MInv'
<1> DEFINE S == Tail(stack)
<1>1. /\ Len(stack) \in Nat /\ Len(stack) > 0 /\ stack \in Seq(Frame) /\ Top = stack[1]
  BY TopFacts
<1>2. /\ S \in Seq(Frame) /\ Len(S) = Len(stack) - 1 /\ Len(S) \in Nat
      /\ \A k \in 1..Len(S) : S[k] = stack[k + 1]
  BY <1>1, HeadTailProperties
<1> HIDE DEF S
<1>3. ASSUME NEW k \in 1..Len(S)
      PROVE  FrameMade(S[k], toks, nodes')
  <2>1. k + 1 \in 1..Len(stack)
    BY <1>1, <1>2, <1>3
  <2> QED
    BY <1>2, <2>1, OthersMade
<1>4. stack' = S
  BY DEF S
<1>5. stack' # <<>> => Callee(Top'.at) = Function(Top.at)
  <2> SUFFICES ASSUME S # <<>> PROVE Callee(Top'.at) = Function(Top.at)
    BY <1>4
  <2>1. Top' = S[1] /\ 1 \in 1..Len(S) /\ 2 \in 2..Len(stack)
    BY <1>1, <1>2, <1>4 DEF Top
  <2>2. PICK st : CoveredBy(st)
    BY DEF CInv, Covered
  <2>3. Callee(stack[2].at) = Function(stack[2 - 1].at)
    BY <2>1, <2>2, CoverFacts
  <2> QED
    BY <1>1, <1>2, <2>1, <2>3
<1>6. ResultMade'
  BY ONLY <1>5, (result' # Null => GivenBack(Function(Top.at), result', nodes')) DEF ResultMade
<1> QED
  BY <1>3, <1>4, <1>6 DEF MInv, StackMade

LEMMA FailureMade ==
  ASSUME IInv, CInv, stack # <<>>, MInv, toks' = toks
  PROVE  /\ FailExpected => MInv'
         /\ FailSilently => MInv'
         /\ \A id, t : Fail(id, t) => MInv'
<1>1. ASSUME nodes' = nodes, Return(Null)
      PROVE  MInv'
  BY <1>1, SameMade, ReturnMade DEF Return
<1> QED
  BY <1>1 DEF FailExpected, FailSilently, Fail

(* What was returned to the running activation.                            *)
LEMMA GivenToTop ==
  ASSUME IInv, CInv, MInv, stack # <<>>, result # Null, Top.at \in CallPlaces
  PROVE  /\ GivenBack(Callee(Top.at), result, nodes)
         /\ \E b, e \in Nat : /\ Pieces(Top, b, e, toks, nodes)
                              /\ Returned(Callee(Top.at), e, pos, nodes[result], toks)
<1>1. PICK st : CoveredBy(st)
  BY DEF CInv, Covered
<1>2. st[1] \in Nat
  BY <1>1, CoverFacts
<1> QED
  BY <1>1, <1>2, TopPieces DEF MInv, ResultMade

LEMMA TopMade ==
  ASSUME IInv, MInv, stack # <<>>
  PROVE  FrameMade(Top, toks, nodes) /\ \A p \in 1..Len(nodes) : NodeMade(nodes[p], toks, nodes)
<1>1. 1 \in 1..Len(stack) /\ Top = stack[1]
  BY TopFacts
<1> QED
  BY <1>1 DEF MInv, HeapMade, StackMade

LEMMA PlaceNames ==
  /\ CallPlaces \subseteq Places
  /\ "program" \in Places /\ "statements" \in Places /\ "definition" \in Places
  /\ "typedVariable" \in Places /\ "typedVariable.colon" \in Places /\ "type" \in Places
  /\ "literal" \in Places /\ "statement" \in Places /\ "assignment" \in Places
  /\ "expression" \in Places /\ "expression.operator" \in Places /\ "prefix" \in Places
BY DEF Places, CallPlaces

(* A call that leaves the caller with what it had, and a plain return.     *)
LEMMA MakesCall ==
  ASSUME IInv, stack # <<>>, MInv, toks' = toks, nodes' = nodes,
         NEW at \in Places \ (CallPlaces \cup OwnsOne), NEW min \in Nat, NEW token \in Nat,
         NEW back \in CallPlaces, NEW own \in Seq(Nat), NEW here \in Nat,
         stack' = <<Enter(at, min, token), Back(back, own, here)>> \o Tail(stack),
         FrameMade(Back(back, own, here), toks, nodes)
  PROVE  MInv'
<1> DEFINE c == Enter(at, min, token)
           f == Back(back, own, here)
<1>1. f \in Frame
  BY BackFacts, PlaceNames
<1>2. c \in Frame /\ c.at = at /\ c.own = <<>>
  BY EnterFacts
<1>3. stack' = <<c, f>> \o Tail(stack) /\ FrameMade(f, toks, nodes)
  OBVIOUS
<1> HIDE DEF c, f
<1> QED
  BY <1>1, <1>2, <1>3, CallMade

----------------------------------------------------------------------------
(* One lemma per parse function.                                           *)

LEMMA NewMade ==
  ASSUME IInv, IInv', CInv, CInv', MInv, stack # <<>>, toks' = toks,
         NEW kind, NEW token, NEW kids, NEW dim, NEW from, NEW to,
         New(kind, token, kids, dim, from, to), Return(NewPtr),
         \A k \in 1..Len(kids) : kids[k] \in 0..Len(nodes),
         NodeMade(nodes'[NewPtr], toks, nodes),
         Function(Top.at) = "literal" => kind = "Literal",
         Function(Top.at) \in ExpressionFunctions => kind \in ExpressionKinds
  PROVE  MInv'
<1>1. HeapMade(toks, nodes') /\ Grows(nodes, nodes')
  BY HeapMadeAppends
<1>2. nodes'[NewPtr].kind = kind
  BY NewFacts
<1>3. GivenBack(Function(Top.at), result', nodes')
  BY <1>2 DEF GivenBack, IsExpression, Return
<1> QED
  BY <1>1, <1>3, ReturnMade DEF Return

LEMMA LeafMade ==
  ASSUME IInv, IInv', NEW kind \in {"Identifier", "Literal"}, NEW token, NEW from, NEW to,
         New(kind, token, <<>>, 0, from, to)
  PROVE  NodeMade(nodes'[NewPtr], toks, nodes) /\ \A k \in 1..Len(<<>>) : <<>>[k] \in 0..Len(nodes)
<1>1. nodes'[NewPtr].kind = kind /\ nodes'[NewPtr].kids = <<>>
  BY NewFacts
<1>2. Len(<<>>) = 0
  OBVIOUS
<1> QED
  BY <1>1, <1>2 DEF NodeMade, Operations

LEMMA ProgramMade ==
  ASSUME IInv, IInv', CInv, CInv', MInv
  PROVE  /\ Program => MInv'
         /\ Statements => MInv'
         /\ ProgramChild => MInv'
<1>1. ASSUME Program
      PROVE  MInv'
  <2>1. stack # <<>> /\ toks' = toks /\ nodes' = nodes /\ pos + 1 \in Nat
    BY <1>1 DEF Program, At, IInv, TypeOK
  <2>2. Top.own \in Seq(Nat) /\ Top.token \in Nat
    BY <2>1, TopFacts
  <2>3. CASE Call(Enter("definition", 0, pos + 1), "program.definition")
    <3>1. "definition" \in Places \ (CallPlaces \cup OwnsOne) /\ "program.definition" \in CallPlaces
      BY CallPlaceNames DEF Places, OwnsOne
    <3>2. stack' = <<Enter("definition", 0, pos + 1), Back("program.definition", Top.own, Top.token)>>
                     \o Tail(stack)
      BY <2>1, <2>3, CallForms
    <3>3. FrameMade(Back("program.definition", Top.own, Top.token), toks, nodes)
      BY <2>1, <2>2, <3>1, BackFacts, PlaceNames DEF FrameMade
    <3> QED
      BY <2>1, <2>2, <3>1, <3>2, <3>3, MakesCall
  <2>4. CASE GoOn([Top EXCEPT !.at = "statements"])
    <3> DEFINE f == Back("statements", Top.own, Top.token)
    <3>1. f \in Frame /\ f.at = "statements"
      BY <2>1, <2>2, BackFacts, PlaceNames
    <3>2. stack' = <<f>> \o Tail(stack)
      BY <2>1, <2>4, GoOnForms
    <3> HIDE DEF f
    <3>3. f.at \notin CallPlaces /\ FrameMade(f, toks, nodes')
      BY <3>1, CallPlaceNames DEF FrameMade
    <3>4. HeapMade(toks, nodes') /\ Grows(nodes, nodes')
      BY <2>1, SameMade
    <3> QED
      BY <2>1, <3>1, <3>2, <3>3, <3>4, GoOnMade
  <2> QED
    BY <1>1, <2>3, <2>4 DEF Program
<1>2. ASSUME Statements
      PROVE  MInv'
  <2>1. stack # <<>> /\ toks' = toks /\ Top.at = "statements"
    BY <1>2 DEF Statements, At
  <2>2. Top.own \in Seq(Nat) /\ Top.token \in Nat /\ FrameFine(Top, toks, nodes) /\ Len(nodes) \in Nat
    BY <2>1, TopFacts
  <2>3. CASE Call(Enter("statement", 0, 0), "program.statement") /\ nodes' = nodes
    <3>1. "statement" \in Places \ (CallPlaces \cup OwnsOne) /\ "program.statement" \in CallPlaces
      BY CallPlaceNames DEF Places, OwnsOne
    <3>2. stack' = <<Enter("statement", 0, 0), Back("program.statement", Top.own, Top.token)>>
                     \o Tail(stack)
      BY <2>1, <2>3, CallForms
    <3>3. FrameMade(Back("program.statement", Top.own, Top.token), toks, nodes)
      BY <2>1, <2>2, <3>1, BackFacts, PlaceNames DEF FrameMade
    <3> QED
      BY <2>1, <2>2, <2>3, <3>1, <3>2, <3>3, MakesCall
  <2>4. CASE New("Program", NoToken, Top.own, 0, 1, Len(toks)) /\ Return(NewPtr)
    <3>1. nodes'[NewPtr].kind = "Program"
      BY <2>4, NewFacts
    <3>2. NodeMade(nodes'[NewPtr], toks, nodes)
      BY <3>1 DEF NodeMade, Operations
    <3>3. Function(Top.at) = "program"
      BY <2>1, FunctionsOfPlaces DEF OuterPlaces
    <3>4. \A k \in 1..Len(Top.own) : Top.own[k] \in 0..Len(nodes)
      BY <2>2 DEF FrameFine
    <3> QED
      BY <2>1, <2>4, <3>2, <3>3, <3>4, NewMade DEF ExpressionFunctions
  <2> QED
    BY <1>2, <2>3, <2>4 DEF Statements
<1>3. ASSUME ProgramChild
      PROVE  MInv'
  <2> DEFINE own == Append(Top.own, result)
             at == IF Top.at = "program.definition" THEN "program" ELSE "statements"
             f == Back(at, own, Top.token)
  <2>1. stack # <<>> /\ toks' = toks /\ nodes' = nodes /\ result \in Nat
    BY <1>3 DEF ProgramChild, At, IInv, TypeOK
  <2>2. Top.own \in Seq(Nat) /\ Top.token \in Nat
    BY <2>1, TopFacts
  <2>3. own \in Seq(Nat) /\ at \in {"program", "statements"}
    BY <2>1, <2>2
  <2>4. stack' = <<f>> \o Tail(stack)
    <3>1. [Top EXCEPT !.own = Append(Top.own, result),
                      !.at = IF Top.at = "program.definition" THEN "program" ELSE "statements"]
            = [Top EXCEPT !.at = at, !.own = own]
      BY <2>1, TopFacts DEF Frame
    <3>2. GoOn([Top EXCEPT !.own = Append(Top.own, result),
                      !.at = IF Top.at = "program.definition" THEN "program" ELSE "statements"])
      BY <1>3 DEF ProgramChild
    <3>3. GoOn([Top EXCEPT !.at = at, !.own = own])
      BY <3>1, <3>2
    <3> HIDE DEF own, at
    <3> QED
      BY <2>1, <3>3, GoOnForms
  <2> HIDE DEF own, at
  <2>5. f \in Frame /\ f.at = at
    BY <2>1, <2>2, <2>3, BackFacts, PlaceNames
  <2> HIDE DEF f
  <2>6. FrameMade(f, toks, nodes') /\ f.at \notin CallPlaces
    BY <2>3, <2>5, CallPlaceNames DEF FrameMade
  <2> QED
    BY <2>1, <2>4, <2>5, <2>6, SameMade, GoOnMade
<1> QED
  BY <1>1, <1>2, <1>3

LEMMA DefinitionMade ==
  ASSUME IInv, IInv', CInv, CInv', MInv, Definition
  PROVE  MInv'
<1>1. stack # <<>> /\ toks' = toks /\ nodes' = nodes
      /\ Call(Enter("typedVariable", 0, 0), "definition.variable")
  BY DEF Definition, At
<1>2. Top.own \in Seq(Nat) /\ Top.token \in Nat
  BY <1>1, TopFacts
<1>3. "typedVariable" \in Places \ (CallPlaces \cup OwnsOne) /\ "definition.variable" \in CallPlaces
  BY CallPlaceNames DEF Places, OwnsOne
<1>4. stack' = <<Enter("typedVariable", 0, 0), Back("definition.variable", Top.own, Top.token)>>
                 \o Tail(stack)
  BY <1>1, CallForms
<1>5. FrameMade(Back("definition.variable", Top.own, Top.token), toks, nodes)
  BY <1>1, <1>2, <1>3, BackFacts, PlaceNames DEF FrameMade
<1> QED
  BY <1>1, <1>2, <1>3, <1>4, <1>5, MakesCall

LEMMA DefinitionAssignMade ==
  ASSUME IInv, IInv', CInv, CInv', MInv, DefinitionAssign
  PROVE  MInv'
<1> DEFINE own == <<result>>
           f == Back("definition.literal", own, Top.token)
<1>1. stack # <<>> /\ Top.at = "definition.variable" /\ toks' = toks /\ result # Null
  BY DEF DefinitionAssign, At
<1>2. CASE /\ Expect({"ASSIGN"}) /\ nodes' = nodes
           /\ CallFrom([Top EXCEPT !.at = "definition.literal", !.own = own],
                       Enter("literal", 0, 0))
  <2>1. Top.token \in Nat /\ result \in Nat /\ own \in Seq(Nat) /\ own[1] = result
    BY <1>1, TopFacts, ResultFacts
  <2> HIDE DEF own
  <2>2. stack' = <<Enter("literal", 0, 0), f>> \o Tail(stack)
    BY <1>1, <1>2, CallForms
  <2>3. "literal" \in Places \ (CallPlaces \cup OwnsOne) /\ "definition.literal" \in CallPlaces
    BY CallPlaceNames DEF Places, OwnsOne
  <2>4. f.at = "definition.literal" /\ f.own = own
    BY <1>1, <2>1, <2>3, BackFacts, PlaceNames
  <2>5. Behind(result, "ASSIGN", toks, nodes)
    <3>1. Top.at \in CallPlaces /\ Callee(Top.at) = "typedVariable"
      BY <1>1, CallPlaceNames, Callees
    <3>2. \E e \in Nat : Returned(Callee(Top.at), e, pos, nodes[result], toks)
      BY <1>1, <3>1, GivenToTop
    <3>3. nodes[result].to = pos
      BY <3>1, <3>2 DEF Returned, Spans
    <3>4. {"ASSIGN"} \subseteq TokenTypes
      BY TokenClasses
    <3> QED
      BY <1>1, <1>2, <3>3, <3>4, Matches DEF Behind
  <2>6. FrameMade(f, toks, nodes)
    BY <2>1, <2>4, <2>5 DEF FrameMade
  <2> QED
    BY <1>1, <1>2, <2>1, <2>2, <2>3, <2>6, MakesCall
<1>3. CASE FailExpected
  BY <1>1, <1>3, FailureMade
<1> QED
  BY <1>2, <1>3 DEF DefinitionAssign

LEMMA DefinitionEndMade ==
  ASSUME IInv, IInv', CInv, CInv', MInv, DefinitionEnd
  PROVE  MInv'
<1> DEFINE v == nodes[Top.own[1]]
           kids == Append(v.kids, result)
<1>1. stack # <<>> /\ Top.at = "definition.literal" /\ toks' = toks /\ result # Null
  BY DEF DefinitionEnd, At
<1>2. CASE New("VariableDefinition", NoToken, kids, 0, Top.token, pos) /\ Return(NewPtr)
  <2>1. Top.own[1] \in 1..Len(nodes) /\ Len(nodes) \in Nat /\ result \in 1..Len(nodes)
    BY <1>1, TopFacts, ResultFacts DEF FrameFine, OwnsOne
  <2>2. Top.at \in CallPlaces /\ Callee(Top.at) = "literal" /\ Function(Top.at) = "definition"
    BY <1>1, CallPlaceNames, Callees, FunctionsOfPlaces DEF DefinitionPlaces
  <2>3. nodes[result].kind = "Literal"
    BY <1>1, <2>2, GivenToTop DEF GivenBack
  <2>4. v.kind = "TypedVariable" /\ Len(v.kids) = 2
    <3>1. \E b, e \in Nat : Pieces(Top, b, e, toks, nodes)
      BY <1>1, <2>2, GivenToTop
    <3> QED
      BY <1>1, <3>1 DEF Pieces
  <2>5. v \in Node /\ NodeMade(v, toks, nodes) /\ Linked(v, nodes) /\ CompleteIn(v, toks, nodes)
    BY <1>1, <2>1, TopMade DEF CInv, HeapTiles, IInv, TypeOK
  <2>6. Behind(Top.own[1], "ASSIGN", toks, nodes)
    BY <1>1, TopMade DEF FrameMade
  <2>7. v.kids \in Seq(Nat) /\ v.kids[1] \in 1..Len(nodes) /\ v.kids[2] \in 1..Len(nodes)
    <3> DEFINE m == Len(v.kids)
    <3>1. v.kids \in Seq(Nat) /\ m = 2
      BY <2>4, <2>5 DEF Node
    <3>2. \A k \in 1..m : v.kids[k] \in 1..Len(nodes)
      BY <2>4, <2>5 DEF Linked
    <3> HIDE DEF m, v
    <3>3. 1 \in 1..m /\ 2 \in 1..m
      BY <3>1
    <3> QED
      BY <3>1, <3>2, <3>3
  <2>8. nodes[v.kids[2]].to = v.to
    <3>1. TilesIn(v, 0, 1, 0, nodes)
      BY <2>4, <2>5 DEF CompleteIn
    <3>2. nodes[v.kids[2]].to \in Nat
      <4>1. nodes \in Seq(Node) /\ v.kids[2] \in 1..Len(nodes)
        BY <2>7 DEF IInv, TypeOK
      <4> HIDE DEF v
      <4> QED
        BY <4>1, NodeParts
    <3> HIDE DEF v
    <3>3. nodes[v.kids[2]].to + 0 = v.to
      BY <2>4, <3>1 DEF TilesIn
    <3> QED
      BY <3>2, <3>3
  <2>9. TypedMade(v, toks, nodes)
    BY <2>4, <2>5 DEF NodeMade
  <2> HIDE DEF v
  <2>10. /\ Len(kids) = 3 /\ kids[1] = v.kids[1] /\ kids[2] = v.kids[2] /\ kids[3] = result
    <3> DEFINE m == Len(v.kids)
    <3>1. /\ Len(kids) = m + 1 /\ kids[m + 1] = result /\ m = 2
          /\ \A k \in 1..m : kids[k] = v.kids[k]
      BY <2>1, <2>4, <2>7, ResultFacts, <1>1, OneMore
    <3> HIDE DEF m, kids
    <3>2. 1 \in 1..m /\ 2 \in 1..m /\ m + 1 = 3
      BY <3>1
    <3> QED
      BY <3>1, <3>2
  <2>11. \A k \in 1..Len(kids) : kids[k] \in 0..Len(nodes)
    <3>1. \A k \in 1..Len(kids) : k = 1 \/ k = 2 \/ k = 3
      BY <2>10
    <3> QED
      BY <2>1, <2>7, <2>10, <3>1
  <2> HIDE DEF kids
  <2>12. /\ nodes'[NewPtr].kind = "VariableDefinition" /\ nodes'[NewPtr].kids = kids
         /\ nodes'[NewPtr].token = NoToken
    BY <1>2, NewFacts
  <2>13. Behind(kids[2], "ASSIGN", toks, nodes)
    BY <2>6, <2>8, <2>10 DEF Behind, v
  <2>14. TypedMade(nodes'[NewPtr], toks, nodes)
    BY <2>9, <2>10, <2>12 DEF TypedMade
  <2>15. NodeMade(nodes'[NewPtr], toks, nodes)
    BY <2>3, <2>10, <2>12, <2>13, <2>14 DEF NodeMade, Operations
  <2> QED
    BY <1>1, <1>2, <2>2, <2>11, <2>15, NewMade DEF ExpressionFunctions
<1>3. CASE Fail("ExpectedNewLine", pos)
  BY <1>1, <1>3, FailureMade
<1> QED
  BY <1>2, <1>3 DEF DefinitionEnd

----------------------------------------------------------------------------
LEMMA TypedVariableMade ==
  ASSUME IInv, IInv', CInv, CInv', MInv, TypedVariable
  PROVE  MInv'
<1> DEFINE own == <<NewPtr>>
           f == Back("typedVariable.colon", own, Top.token)
<1>1. stack # <<>> /\ toks' = toks
  BY DEF TypedVariable, At
<1>2. CASE /\ New("Identifier", pos + 1, <<>>, 0, pos + 1, pos + 1)
           /\ GoOn([Top EXCEPT !.at = "typedVariable.colon", !.own = own])
  <2>1. HeapMade(toks, nodes') /\ Grows(nodes, nodes')
    BY <1>1, <1>2, LeafMade, HeapMadeAppends
  <2>2. nodes'[NewPtr].kind = "Identifier" /\ NewPtr \in Nat /\ Top.token \in Nat
    BY <1>1, <1>2, NewFacts, TopFacts
  <2>3. own \in Seq(Nat) /\ own[1] = NewPtr
    BY <2>2
  <2> HIDE DEF own
  <2>4. stack' = <<f>> \o Tail(stack)
    BY <1>1, <1>2, GoOnForms
  <2>5. f \in Frame /\ f.at = "typedVariable.colon" /\ f.own = own
    BY <1>1, <2>2, <2>3, BackFacts, PlaceNames
  <2> HIDE DEF f
  <2>6. FrameMade(f, toks, nodes') /\ f.at \notin CallPlaces
    BY <2>2, <2>3, <2>5, CallPlaceNames DEF FrameMade
  <2> QED
    BY <1>1, <2>1, <2>4, <2>5, <2>6, GoOnMade
<1>3. CASE FailExpected
  BY <1>1, <1>3, FailureMade
<1> QED
  BY <1>2, <1>3 DEF TypedVariable

LEMMA TypedVariableColonMade ==
  ASSUME IInv, IInv', CInv, CInv', MInv, TypedVariableColon
  PROVE  MInv'
<1> DEFINE f == Back("typedVariable.type", Top.own, Top.token)
<1>1. stack # <<>> /\ Top.at = "typedVariable.colon" /\ toks' = toks
  BY DEF TypedVariableColon, At
<1>2. CASE /\ Match({"COLON"}) /\ Advance /\ nodes' = nodes
           /\ Call(Enter("type", 0, 0), "typedVariable.type")
  <2>1. Top.own \in Seq(Nat) /\ Top.token \in Nat
    BY <1>1, TopFacts
  <2>2. stack' = <<Enter("type", 0, 0), f>> \o Tail(stack)
    BY <1>1, <1>2, CallForms
  <2>3. "type" \in Places \ (CallPlaces \cup OwnsOne) /\ "typedVariable.type" \in CallPlaces
    BY CallPlaceNames DEF Places, OwnsOne
  <2>4. f.at = "typedVariable.type" /\ f.own = Top.own
    BY <1>1, <2>1, <2>3, BackFacts, PlaceNames
  <2>5. Behind(Top.own[1], "COLON", toks, nodes)
    <3>1. PICK st : CoveredBy(st)
      BY <1>1 DEF CInv, Covered
    <3>2. nodes[Top.own[1]].to = pos
      BY <1>1, <3>1, TopPieces, CallPlaceNames DEF Pieces, Spans
    <3>3. {"COLON"} \subseteq TokenTypes /\ Expect({"COLON"})
      BY <1>2, TokenClasses DEF Expect
    <3> QED
      BY <1>1, <3>2, <3>3, Matches DEF Behind
  <2>6. FrameMade(f, toks, nodes)
    BY <1>1, <2>4, <2>5, TopMade DEF FrameMade
  <2> QED
    BY <1>1, <1>2, <2>1, <2>2, <2>3, <2>6, MakesCall
<1>3. CASE FailExpected
  BY <1>1, <1>3, FailureMade
<1> QED
  BY <1>2, <1>3 DEF TypedVariableColon

LEMMA TypedVariableEndMade ==
  ASSUME IInv, IInv', CInv, CInv', MInv, TypedVariableEnd
  PROVE  MInv'
<1> DEFINE kids == <<Top.own[1], result>>
<1>1. /\ stack # <<>> /\ Top.at = "typedVariable.type" /\ toks' = toks /\ result # Null
      /\ New("TypedVariable", NoToken, kids, 0, nodes[Top.own[1]].from, pos) /\ Return(NewPtr)
  BY DEF TypedVariableEnd, At
<1>2. Top.own[1] \in 1..Len(nodes) /\ Len(nodes) \in Nat /\ result \in 1..Len(nodes)
  BY <1>1, TopFacts, ResultFacts DEF FrameFine, OwnsOne
<1>3. Top.at \in CallPlaces /\ Callee(Top.at) = "type" /\ Function(Top.at) = "typedVariable"
  BY <1>1, CallPlaceNames, Callees, FunctionsOfPlaces
<1>4. nodes[result].kind = "Type"
  BY <1>1, <1>3, GivenToTop DEF Returned
<1>5. nodes[Top.own[1]].kind = "Identifier" /\ Behind(Top.own[1], "COLON", toks, nodes)
  BY <1>1, TopMade DEF FrameMade
<1>6. kids[1] = Top.own[1] /\ kids[2] = result /\ Len(kids) = 2
      /\ \A k \in 1..Len(kids) : kids[k] \in 0..Len(nodes)
  BY <1>2
<1> HIDE DEF kids
<1>7. /\ nodes'[NewPtr].kind = "TypedVariable" /\ nodes'[NewPtr].kids = kids
      /\ nodes'[NewPtr].token = NoToken
  BY <1>1, NewFacts
<1>8. NodeMade(nodes'[NewPtr], toks, nodes)
  BY <1>4, <1>5, <1>6, <1>7 DEF NodeMade, TypedMade, Operations
<1> QED
  BY <1>1, <1>3, <1>6, <1>8, NewMade DEF ExpressionFunctions

LEMMA TypeMade ==
  ASSUME IInv, IInv', CInv, CInv', MInv, Type
  PROVE  MInv'
<1> DEFINE f == Back("type.bracket", Top.own, pos + 1)
<1>1. stack # <<>> /\ Top.at = "type" /\ toks' = toks /\ pos \in Nat
  BY DEF Type, At, IInv, TypeOK
<1>2. CASE /\ Expect({"ID", "IDSTRING"})
           /\ New("Type", pos + 1, <<>>, 0, pos + 1, pos + 1)
           /\ Return(NewPtr)
  <2>1. {"ID", "IDSTRING"} \subseteq TokenTypes /\ Function(Top.at) = "type"
    BY <1>1, TokenClasses, FunctionsOfPlaces
  <2>2. toks[pos + 1] \in {"ID", "IDSTRING"}
    BY <1>1, <1>2, <2>1, Matches
  <2>3. /\ nodes'[NewPtr].kind = "Type" /\ nodes'[NewPtr].kids = <<>>
        /\ nodes'[NewPtr].token = pos + 1 /\ nodes'[NewPtr].dim = 0
    BY <1>2, NewFacts
  <2>4. Brackets(pos + 1, 0, toks)
    BY <2>2 DEF Brackets
  <2>5. NodeMade(nodes'[NewPtr], toks, nodes)
    BY <2>3, <2>4 DEF NodeMade, Operations
  <2>6. \A k \in 1..Len(<<>>) : <<>>[k] \in 0..Len(nodes)
    OBVIOUS
  <2> QED
    BY <1>1, <1>2, <2>1, <2>5, <2>6, NewMade DEF ExpressionFunctions
<1>3. CASE /\ Expect({"OPENBRACK"}) /\ nodes' = nodes
           /\ CallFrom([Top EXCEPT !.at = "type.bracket", !.token = pos + 1],
                       Enter("type", 0, 0))
  <2>1. stack' = <<Enter("type", 0, 0), f>> \o Tail(stack)
    BY <1>1, <1>3, CallForms
  <2>2. "type" \in Places \ (CallPlaces \cup OwnsOne) /\ "type.bracket" \in CallPlaces
    BY CallPlaceNames DEF Places, OwnsOne
  <2>3. Top.own \in Seq(Nat) /\ pos + 1 \in Nat
    BY <1>1, TopFacts
  <2>4. f.at = "type.bracket" /\ f.token = pos + 1
    BY <1>1, <2>2, <2>3, BackFacts, PlaceNames
  <2>5. {"OPENBRACK"} \subseteq TokenTypes
    BY TokenClasses
  <2>6. toks[pos + 1] = "OPENBRACK"
    BY <1>1, <1>3, <2>5, Matches
  <2>7. FrameMade(f, toks, nodes)
    BY <2>4, <2>6 DEF FrameMade
  <2> QED
    BY <1>1, <1>3, <2>1, <2>2, <2>3, <2>7, MakesCall
<1>4. CASE FailExpected
  BY <1>1, <1>4, FailureMade
<1> QED
  BY <1>2, <1>3, <1>4 DEF Type

LEMMA TypeBracketMade ==
  ASSUME IInv, IInv', CInv, CInv', MInv, TypeBracket
  PROVE  MInv'
<1> DEFINE n == nodes[result]
<1>1. stack # <<>> /\ Top.at = "type.bracket" /\ toks' = toks /\ result # Null
  BY DEF TypeBracket, At
<1>2. CASE /\ Expect({"CLOSEBRACK"})
           /\ New("Type", n.token, <<>>, n.dim + 1, Top.token, pos + 1)
           /\ Return(NewPtr)
  <2>1. Top.at \in CallPlaces /\ Callee(Top.at) = "type" /\ Function(Top.at) = "type"
    BY <1>1, CallPlaceNames, Callees, FunctionsOfPlaces
  <2>2. {"CLOSEBRACK"} \subseteq TokenTypes
    BY TokenClasses
  <2>3. toks[pos + 1] = "CLOSEBRACK" /\ pos \in Nat
    BY <1>1, <1>2, <2>2, Matches
  <2>4. result \in 1..Len(nodes) /\ n \in Node
    BY <1>1, ResultFacts
  <2>5. n.kind = "Type" /\ n.from = Top.token + 1 /\ n.to = pos /\ Top.token \in Nat
    <3>1. PICK b, e \in Nat : /\ Pieces(Top, b, e, toks, nodes)
                              /\ Returned(Callee(Top.at), e, pos, n, toks)
      BY <1>1, <2>1, GivenToTop
    <3>2. e = Top.token
      BY <1>1, <3>1 DEF Pieces
    <3> QED
      BY <1>1, <2>1, <3>1, <3>2 DEF Returned, Spans
  <2>6. n.from = n.token - n.dim /\ n.to = n.token + n.dim
    BY <2>4, <2>5 DEF CInv, HeapTiles, CompleteIn
  <2>7. Brackets(n.token, n.dim, toks)
    BY <1>1, <2>4, <2>5, TopMade DEF NodeMade
  <2>8. n.token \in Nat /\ n.dim \in Nat
    BY <2>4 DEF Node
  <2>9. toks[Top.token] = "OPENBRACK"
    BY <1>1, TopMade DEF FrameMade
  <2>10. Brackets(n.token, n.dim + 1, toks)
    <3> DEFINE t == n.token
               d == n.dim
               u == Top.token
    <3> HIDE DEF n, t, d, u
    <3>1. u = t - (d + 1) /\ pos + 1 = t + (d + 1) /\ t \in Nat /\ d \in Nat
      BY <2>3, <2>5, <2>6, <2>8 DEF t, d, u
    <3>2. ASSUME NEW k \in 1..(d + 1)
          PROVE  toks[t - k] = "OPENBRACK" /\ toks[t + k] = "CLOSEBRACK"
      <4>1. k \in 1..d \/ k = d + 1
        BY <3>1, <3>2
      <4>2. CASE k \in 1..d
        BY <2>7, <4>2 DEF Brackets, t, d
      <4>3. CASE k = d + 1
        <5>1. t - k = u /\ t + k = pos + 1
          BY <3>1, <4>3
        <5> QED
          BY <2>3, <2>9, <5>1 DEF u
      <4> QED
        BY <4>1, <4>2, <4>3
    <3> QED
      BY <2>7, <3>2 DEF Brackets, t, d
  <2>11. /\ nodes'[NewPtr].kind = "Type" /\ nodes'[NewPtr].kids = <<>>
         /\ nodes'[NewPtr].token = n.token /\ nodes'[NewPtr].dim = n.dim + 1
    BY <1>2, NewFacts
  <2>12. NodeMade(nodes'[NewPtr], toks, nodes)
    BY <2>10, <2>11 DEF NodeMade, Operations
  <2>13. \A k \in 1..Len(<<>>) : <<>>[k] \in 0..Len(nodes)
    OBVIOUS
  <2> QED
    BY <1>1, <1>2, <2>1, <2>12, <2>13, NewMade DEF ExpressionFunctions
<1>3. CASE FailExpected
  BY <1>1, <1>3, FailureMade
<1> QED
  BY <1>2, <1>3 DEF TypeBracket

LEMMA LiteralMade ==
  ASSUME IInv, IInv', CInv, CInv', MInv, Literal
  PROVE  MInv'
<1>1. stack # <<>> /\ Top.at = "literal" /\ toks' = toks
  BY DEF Literal, At
<1>2. CASE New("Literal", pos + 1, <<>>, 0, pos + 1, pos + 1) /\ Return(NewPtr)
  <2>1. Function(Top.at) = "literal"
    BY <1>1, FunctionsOfPlaces
  <2> QED
    BY <1>1, <1>2, <2>1, LeafMade, NewMade DEF ExpressionFunctions
<1>3. CASE FailExpected
  BY <1>1, <1>3, FailureMade
<1> QED
  BY <1>2, <1>3 DEF Literal

----------------------------------------------------------------------------
LEMMA StatementMade ==
  ASSUME IInv, IInv', CInv, CInv', MInv, Statement
  PROVE  MInv'
<1>1. stack # <<>> /\ Top.at = "statement" /\ toks' = toks /\ pos + 1 \in Nat
  BY DEF Statement, At, IInv, TypeOK
<1>2. CASE Call(Enter("assignment", 0, pos + 1), "statement.simple") /\ nodes' = nodes
  <2>1. Top.own \in Seq(Nat) /\ Top.token \in Nat
    BY <1>1, TopFacts
  <2>2. "assignment" \in Places \ (CallPlaces \cup OwnsOne) /\ "statement.simple" \in CallPlaces
    BY CallPlaceNames DEF Places, OwnsOne
  <2>3. stack' = <<Enter("assignment", 0, pos + 1), Back("statement.simple", Top.own, Top.token)>>
                   \o Tail(stack)
    BY <1>1, <1>2, CallForms
  <2>4. FrameMade(Back("statement.simple", Top.own, Top.token), toks, nodes)
    BY <1>1, <2>1, <2>2, BackFacts, PlaceNames DEF FrameMade
  <2> QED
    BY <1>1, <1>2, <2>1, <2>2, <2>3, <2>4, MakesCall
<1>3. CASE FailSilently \/ FailExpected
  BY <1>1, <1>3, FailureMade
<1> QED
  BY <1>2, <1>3 DEF Statement

LEMMA StatementEndMade ==
  ASSUME IInv, IInv', CInv, CInv', MInv, StatementEnd
  PROVE  MInv'
<1>1. stack # <<>> /\ Top.at = "statement.simple" /\ toks' = toks
  BY DEF StatementEnd, At
<1>2. CASE Return(result) /\ nodes' = nodes
  <2>1. Function(Top.at) = "statement"
    BY <1>1, FunctionsOfPlaces DEF StatementPlaces
  <2>2. GivenBack(Function(Top.at), result', nodes')
    BY <2>1 DEF GivenBack, ExpressionFunctions
  <2> QED
    BY <1>1, <1>2, <2>2, SameMade, ReturnMade DEF Return
<1>3. CASE Fail("ExpectedNewLine", pos)
  BY <1>1, <1>3, FailureMade
<1> QED
  BY <1>2, <1>3 DEF StatementEnd

----------------------------------------------------------------------------
LEMMA AssignmentTargetMade ==
  ASSUME IInv, IInv', CInv, CInv', MInv, AssignmentTarget
  PROVE  MInv'
<1> DEFINE own == Append(Top.own, NewPtr)
           f == Back(Top.at, own, Top.token)
           m == Len(Top.own)
<1>1. /\ stack # <<>> /\ Top.at = "assignment" /\ toks' = toks
      /\ Next1 = "ASSIGN" /\ pos \in Nat
      /\ New("Identifier", pos + 1, <<>>, 0, pos + 1, pos + 1)
      /\ GoOn([Top EXCEPT !.own = own])
  BY DEF AssignmentTarget, At, StartsTarget, IInv, TypeOK
<1>2. HeapMade(toks, nodes') /\ Grows(nodes, nodes')
  BY <1>1, LeafMade, HeapMadeAppends
<1>3. nodes'[NewPtr].to = pos + 1 /\ NewPtr \in Nat
  BY <1>1, NewFacts
<1>4. Top.own \in Seq(Nat) /\ Top.token \in Nat /\ FrameFine(Top, toks, nodes)
  BY <1>1, TopFacts
<1>5. toks[pos + 2] = "ASSIGN"
  BY <1>1, InRange, TokenClasses
<1>6. Behind(NewPtr, "ASSIGN", toks, nodes')
  BY <1>1, <1>3, <1>5 DEF Behind
<1>7. \A k \in 1..m : Behind(Top.own[k], "ASSIGN", toks, nodes')
  <2>1. FrameMade(Top, toks, nodes')
    <3>1. 1 \in 1..Len(stack) /\ Top = stack[1]
      BY <1>1, TopFacts
    <3> QED
      BY <1>1, <1>2, <3>1, OthersMade
  <2> QED
    BY <1>1, <2>1 DEF FrameMade
<1>8. /\ own \in Seq(Nat) /\ \A k \in 1..m : own[k] = Top.own[k]
      /\ own[m + 1] = NewPtr /\ \A k \in 1..Len(own) : k \in 1..m \/ k = m + 1
  BY <1>3, <1>4, OneMore
<1> HIDE DEF own, m
<1>9. stack' = <<f>> \o Tail(stack)
  BY <1>1, OwnForms
<1>10. f \in Frame /\ f.at = "assignment" /\ f.own = own
  BY <1>1, <1>4, <1>8, BackFacts, PlaceNames
<1> HIDE DEF f
<1>11. \A k \in 1..Len(own) : Behind(own[k], "ASSIGN", toks, nodes')
  BY <1>6, <1>7, <1>8
<1>12. FrameMade(f, toks, nodes') /\ f.at \notin CallPlaces
  BY <1>10, <1>11, CallPlaceNames DEF FrameMade
<1> QED
  BY <1>1, <1>2, <1>9, <1>10, <1>12, GoOnMade

LEMMA AssignmentExpressionMade ==
  ASSUME IInv, IInv', CInv, CInv', MInv, AssignmentExpression
  PROVE  MInv'
<1> DEFINE f == Back("assignment.expression", Top.own, Top.token)
<1>1. /\ stack # <<>> /\ Top.at = "assignment" /\ toks' = toks /\ nodes' = nodes
      /\ Call(Enter("expression", 0, 0), "assignment.expression")
  BY DEF AssignmentExpression, At
<1>2. Top.own \in Seq(Nat) /\ Top.token \in Nat
  BY <1>1, TopFacts
<1>3. "expression" \in Places \ (CallPlaces \cup OwnsOne) /\ "assignment.expression" \in CallPlaces
  BY CallPlaceNames DEF Places, OwnsOne
<1>4. stack' = <<Enter("expression", 0, 0), f>> \o Tail(stack)
  BY <1>1, CallForms
<1>5. f.at = "assignment.expression" /\ f.own = Top.own
  BY <1>1, <1>2, <1>3, BackFacts, PlaceNames
<1>6. FrameMade(f, toks, nodes)
  BY <1>1, <1>5, TopMade DEF FrameMade
<1> QED
  BY <1>1, <1>2, <1>3, <1>4, <1>6, MakesCall

LEMMA AssignmentEndMade ==
  ASSUME IInv, IInv', CInv, CInv', MInv, AssignmentEnd
  PROVE  MInv'
<1> DEFINE kids == Append(Top.own, result)
           m == Len(Top.own)
<1>1. /\ stack # <<>> /\ Top.at = "assignment.expression" /\ toks' = toks /\ result # Null
      /\ New("AssignmentStatement", NoToken, kids, 0, Top.token, pos) /\ Return(NewPtr)
  BY DEF AssignmentEnd, At
<1>2. /\ Top.own \in Seq(Nat) /\ FrameFine(Top, toks, nodes)
      /\ result \in 1..Len(nodes) /\ result \in Nat
  BY <1>1, TopFacts, ResultFacts
<1>3. Top.at \in CallPlaces /\ Callee(Top.at) = "expression" /\ Function(Top.at) = "assignment"
  BY <1>1, CallPlaceNames, Callees, FunctionsOfPlaces
<1>4. IsExpression(result, nodes)
  BY <1>1, <1>3, GivenToTop DEF GivenBack, ExpressionFunctions
<1>5. \A k \in 1..m : Behind(Top.own[k], "ASSIGN", toks, nodes)
  BY <1>1, TopMade DEF FrameMade
<1>6. \A k \in 1..m : Top.own[k] \in 0..Len(nodes)
  BY <1>2 DEF FrameFine
<1>7. /\ kids \in Seq(Nat) /\ Len(kids) = m + 1 /\ m \in Nat
      /\ \A k \in 1..m : kids[k] = Top.own[k]
      /\ kids[m + 1] = result /\ \A k \in 1..Len(kids) : k \in 1..m \/ k = m + 1
  BY <1>2, OneMore
<1> HIDE DEF kids, m
<1>8. \A k \in 1..Len(kids) : kids[k] \in 0..Len(nodes)
  BY <1>2, <1>6, <1>7
<1>9. /\ nodes'[NewPtr].kind = "AssignmentStatement" /\ nodes'[NewPtr].kids = kids
      /\ nodes'[NewPtr].token = NoToken
  BY <1>1, NewFacts
<1>10. \A k \in 1..(Len(kids) - 1) : Behind(kids[k], "ASSIGN", toks, nodes)
  <2>1. Len(kids) - 1 = m
    BY <1>7
  <2> QED
    BY <1>5, <1>7, <2>1
<1>11. kids # <<>> /\ IsExpression(kids[Len(kids)], nodes)
  BY <1>4, <1>7
<1>12. NodeMade(nodes'[NewPtr], toks, nodes)
  BY <1>9, <1>10, <1>11 DEF NodeMade, Operations
<1> QED
  BY <1>1, <1>3, <1>8, <1>12, NewMade DEF ExpressionFunctions

----------------------------------------------------------------------------
LEMMA ExpressionMade ==
  ASSUME IInv, IInv', CInv, CInv', MInv, Expression
  PROVE  MInv'
<1> DEFINE f == Back("expression.prefix", Top.own, Top.token)
<1>1. /\ stack # <<>> /\ Top.at = "expression" /\ toks' = toks /\ nodes' = nodes
      /\ Call(Enter("prefix", 0, 0), "expression.prefix")
  BY DEF Expression, At
<1>2. Top.own \in Seq(Nat) /\ Top.token \in Nat
  BY <1>1, TopFacts
<1>3. "prefix" \in Places \ (CallPlaces \cup OwnsOne) /\ "expression.prefix" \in CallPlaces
  BY CallPlaceNames DEF Places, OwnsOne
<1>4. stack' = <<Enter("prefix", 0, 0), f>> \o Tail(stack)
  BY <1>1, CallForms
<1>5. FrameMade(f, toks, nodes)
  BY <1>1, <1>2, <1>3, BackFacts, PlaceNames DEF FrameMade
<1> QED
  BY <1>1, <1>2, <1>3, <1>4, <1>5, MakesCall

LEMMA ExpressionPrefixMade ==
  ASSUME IInv, IInv', CInv, CInv', MInv, ExpressionPrefix
  PROVE  MInv'
<1> DEFINE own == <<result>>
           f == Back("expression.operator", own, Top.token)
<1>1. /\ stack # <<>> /\ Top.at = "expression.prefix" /\ toks' = toks /\ nodes' = nodes
      /\ result # Null /\ GoOn([Top EXCEPT !.at = "expression.operator", !.own = own])
  BY DEF ExpressionPrefix, At
<1>2. Top.token \in Nat /\ result \in Nat /\ own \in Seq(Nat) /\ own[1] = result
  BY <1>1, TopFacts, ResultFacts
<1>3. Top.at \in CallPlaces /\ Callee(Top.at) = "prefix"
  BY <1>1, CallPlaceNames, Callees
<1>4. IsExpression(result, nodes)
  BY <1>1, <1>3, GivenToTop DEF GivenBack, ExpressionFunctions
<1> HIDE DEF own
<1>5. stack' = <<f>> \o Tail(stack)
  BY <1>1, GoOnForms
<1>6. f \in Frame /\ f.at = "expression.operator" /\ f.own = own
  BY <1>1, <1>2, BackFacts, PlaceNames
<1> HIDE DEF f
<1>7. FrameMade(f, toks, nodes') /\ f.at \notin CallPlaces
  BY <1>1, <1>2, <1>4, <1>6, CallPlaceNames DEF FrameMade
<1> QED
  BY <1>1, <1>5, <1>6, <1>7, SameMade, GoOnMade

LEMMA ExpressionOperatorMade ==
  ASSUME IInv, IInv', CInv, CInv', MInv, ExpressionOperator
  PROVE  MInv'
<1> DEFINE right == InfixPower[Current].right
           f == Back("expression.operand", Top.own, pos + 1)
<1>1. /\ stack # <<>> /\ Top.at = "expression.operator" /\ toks' = toks /\ nodes' = nodes
      /\ pos \in Nat
  BY DEF ExpressionOperator, At, IInv, TypeOK
<1>2. IsExpression(Top.own[1], nodes)
  BY <1>1, TopMade DEF FrameMade
<1>3. CASE Binds /\ CallFrom([Top EXCEPT !.at = "expression.operand", !.token = pos + 1],
                             Enter("expression", right, 0))
  <2>1. Top.own \in Seq(Nat) /\ pos + 1 \in Nat
    BY <1>1, TopFacts
  <2>2. right \in Nat
    BY <1>3, OperatorTokens DEF Binds, Match
  <2> HIDE DEF right
  <2>3. "expression" \in Places \ (CallPlaces \cup OwnsOne) /\ "expression.operand" \in CallPlaces
    BY CallPlaceNames DEF Places, OwnsOne
  <2>4. stack' = <<Enter("expression", right, 0), f>> \o Tail(stack)
    BY <1>1, <1>3, CallForms
  <2>5. f.at = "expression.operand" /\ f.own = Top.own
    BY <1>1, <2>1, <2>3, BackFacts, PlaceNames
  <2>6. FrameMade(f, toks, nodes)
    BY <1>2, <2>5 DEF FrameMade
  <2> QED
    BY <1>1, <2>1, <2>2, <2>3, <2>4, <2>6, MakesCall
<1>4. CASE Return(Top.own[1])
  <2>1. Function(Top.at) = "expression"
    BY <1>1, FunctionsOfPlaces
  <2>2. GivenBack(Function(Top.at), result', nodes')
    BY <1>1, <1>2, <1>4, <2>1 DEF GivenBack, ExpressionFunctions, Return
  <2> QED
    BY <1>1, <1>4, <2>2, SameMade, ReturnMade DEF Return
<1> QED
  BY <1>3, <1>4 DEF ExpressionOperator

LEMMA ExpressionOperandMade ==
  ASSUME IInv, IInv', CInv, CInv', MInv, ExpressionOperand
  PROVE  MInv'
<1> DEFINE lhs == Top.own[1]
           kids == <<lhs, result>>
           own == <<NewPtr>>
           f == Back("expression.operator", own, Top.token)
<1>1. /\ stack # <<>> /\ Top.at = "expression.operand" /\ toks' = toks /\ result # Null
  BY DEF ExpressionOperand, At
<1>2. CASE /\ New("BinaryExpression", Top.token, kids, 0, nodes[lhs].from, nodes[result].to)
           /\ GoOn([Top EXCEPT !.at = "expression.operator", !.own = own])
  <2>1. lhs \in 1..Len(nodes) /\ result \in 1..Len(nodes) /\ Len(nodes) \in Nat /\ Top.token \in Nat
    BY <1>1, TopFacts, ResultFacts DEF FrameFine, OwnsOne
  <2>2. Top.at \in CallPlaces /\ Callee(Top.at) = "expression"
    BY <1>1, CallPlaceNames, Callees
  <2>3. IsExpression(lhs, nodes) /\ IsExpression(result, nodes)
    BY <1>1, <2>2, TopMade, GivenToTop DEF FrameMade, GivenBack, ExpressionFunctions
  <2>4. Len(kids) = 2 /\ kids[1] = lhs /\ kids[2] = result
        /\ \A k \in 1..Len(kids) : kids[k] \in {lhs, result}
    OBVIOUS
  <2> HIDE DEF kids, lhs
  <2>5. /\ nodes'[NewPtr].kind = "BinaryExpression" /\ nodes'[NewPtr].kids = kids
    BY <1>2, NewFacts
  <2>6. NodeMade(nodes'[NewPtr], toks, nodes)
    BY <2>3, <2>4, <2>5 DEF NodeMade, Operations
  <2>7. \A k \in 1..Len(kids) : kids[k] \in 0..Len(nodes)
    BY <2>1, <2>4
  <2>8. HeapMade(toks, nodes') /\ Grows(nodes, nodes')
    BY <1>1, <1>2, <2>6, <2>7, HeapMadeAppends
  <2>9. NewPtr \in Nat
    BY <1>2, NewFacts
  <2>10. own \in Seq(Nat) /\ own[1] = NewPtr
    BY <2>9
  <2> HIDE DEF own
  <2>11. stack' = <<f>> \o Tail(stack)
    BY <1>1, <1>2, GoOnForms
  <2>12. f \in Frame /\ f.at = "expression.operator" /\ f.own = own
    BY <1>1, <2>1, <2>10, BackFacts, PlaceNames
  <2> HIDE DEF f
  <2>13. FrameMade(f, toks, nodes') /\ f.at \notin CallPlaces
    BY <2>5, <2>10, <2>12, CallPlaceNames DEF FrameMade, IsExpression, ExpressionKinds
  <2> QED
    BY <1>1, <2>8, <2>11, <2>12, <2>13, GoOnMade
<1>3. ASSUME NEW t, Fail("ExpectedToken", t)
      PROVE  MInv'
  BY <1>1, <1>3, FailureMade
<1> QED
  BY <1>2, <1>3 DEF ExpressionOperand

LEMMA PrefixMade ==
  ASSUME IInv, IInv', CInv, CInv', MInv, Prefix
  PROVE  MInv'
<1>1. stack # <<>> /\ Top.at = "prefix" /\ toks' = toks /\ pos \in Nat
  BY DEF Prefix, At, IInv, TypeOK
<1>2. Top.own \in Seq(Nat) /\ pos + 1 \in Nat /\ Function(Top.at) = "prefix"
  BY <1>1, TopFacts, FunctionsOfPlaces
<1>3. "expression" \in Places \ (CallPlaces \cup OwnsOne) /\ "prefix.group" \in CallPlaces
      /\ "prefix.unary" \in CallPlaces
  BY CallPlaceNames DEF Places, OwnsOne
<1>4. CASE /\ New(IF Match({"ID"}) THEN "Identifier" ELSE "Literal",
                  pos + 1, <<>>, 0, pos + 1, pos + 1)
           /\ Return(NewPtr)
  <2> DEFINE kind == IF Match({"ID"}) THEN "Identifier" ELSE "Literal"
  <2>1. kind \in {"Identifier", "Literal"}
    OBVIOUS
  <2>2. New(kind, pos + 1, <<>>, 0, pos + 1, pos + 1) /\ Return(NewPtr)
    BY <1>4
  <2> HIDE DEF kind
  <2>3. kind \in ExpressionKinds
    BY <2>1 DEF ExpressionKinds
  <2> QED
    BY <1>1, <1>2, <2>1, <2>2, <2>3, LeafMade, NewMade DEF ExpressionFunctions
<1>5. CASE /\ Expect({"OPENPAREN"}) /\ nodes' = nodes
           /\ CallFrom([Top EXCEPT !.at = "prefix.group", !.token = pos + 1],
                       Enter("expression", 0, 0))
  <2> DEFINE f == Back("prefix.group", Top.own, pos + 1)
  <2>1. stack' = <<Enter("expression", 0, 0), f>> \o Tail(stack)
    BY <1>1, <1>5, CallForms
  <2>2. f.at = "prefix.group" /\ f.token = pos + 1
    BY <1>1, <1>2, <1>3, BackFacts, PlaceNames
  <2>3. {"OPENPAREN"} \subseteq TokenTypes
    BY TokenClasses
  <2>4. toks[pos + 1] = "OPENPAREN"
    BY <1>1, <1>5, <2>3, Matches
  <2>5. FrameMade(f, toks, nodes)
    BY <2>2, <2>4 DEF FrameMade
  <2> QED
    BY <1>1, <1>2, <1>3, <1>5, <2>1, <2>5, MakesCall
<1>6. CASE /\ Expect(DOMAIN PrefixPower) /\ nodes' = nodes
           /\ CallFrom([Top EXCEPT !.at = "prefix.unary", !.token = pos + 1],
                       Enter("expression", PrefixPower[Current], 0))
  <2> DEFINE f == Back("prefix.unary", Top.own, pos + 1)
             min == PrefixPower[Current]
  <2>1. stack' = <<Enter("expression", min, 0), f>> \o Tail(stack)
    BY <1>1, <1>6, CallForms
  <2>2. min \in Nat
    BY <1>6, OperatorTokens DEF Expect, Match
  <2> HIDE DEF min
  <2>3. f.at = "prefix.unary"
    BY <1>1, <1>2, <1>3, BackFacts, PlaceNames
  <2>4. FrameMade(f, toks, nodes)
    BY <2>3 DEF FrameMade
  <2> QED
    BY <1>1, <1>2, <1>3, <1>6, <2>1, <2>2, <2>4, MakesCall
<1>7. CASE FailSilently
  BY <1>1, <1>7, FailureMade
<1> QED
  BY <1>4, <1>5, <1>6, <1>7 DEF Prefix

LEMMA PrefixGroupMade ==
  ASSUME IInv, IInv', CInv, CInv', MInv, PrefixGroup
  PROVE  MInv'
<1> DEFINE kids == <<result>>
<1>1. stack # <<>> /\ Top.at = "prefix.group" /\ toks' = toks
  BY DEF PrefixGroup, At
<1>2. CASE /\ Expect({"CLOSEPAREN"})
           /\ New("GroupingExpression", Top.token, kids, 0, Top.token, pos + 1)
           /\ Return(NewPtr)
  <2>1. Top.at \in CallPlaces /\ Callee(Top.at) = "expression" /\ Function(Top.at) = "prefix"
    BY <1>1, CallPlaceNames, Callees, FunctionsOfPlaces
  <2>2. {"CLOSEPAREN"} \subseteq TokenTypes
    BY TokenClasses
  <2>3. TypeIn(toks, pos + 1) = "CLOSEPAREN"
    BY <1>1, <1>2, <2>2, Matches DEF TypeIn
  <2>4. toks[Top.token] = "OPENPAREN"
    BY <1>1, TopMade DEF FrameMade
  <2>5. result # Null => IsExpression(result, nodes)
    BY <1>1, <2>1, GivenToTop DEF GivenBack, ExpressionFunctions
  <2>6. Len(kids) = 1 /\ kids[1] = result /\ result \in 0..Len(nodes)
        /\ \A k \in 1..Len(kids) : kids[k] = result
    BY DEF IInv, TypeOK
  <2> HIDE DEF kids
  <2>7. /\ nodes'[NewPtr].kind = "GroupingExpression" /\ nodes'[NewPtr].kids = kids
        /\ nodes'[NewPtr].from = Top.token /\ nodes'[NewPtr].to = pos + 1
    BY <1>2, NewFacts
  <2>8. NodeMade(nodes'[NewPtr], toks, nodes)
    BY <2>3, <2>4, <2>5, <2>6, <2>7 DEF NodeMade, Operations
  <2>9. \A k \in 1..Len(kids) : kids[k] \in 0..Len(nodes)
    BY <2>6
  <2> QED
    BY <1>1, <1>2, <2>1, <2>8, <2>9, NewMade DEF ExpressionKinds
<1>3. CASE Fail("UnclosedParenthesis", Top.token)
  BY <1>1, <1>3, FailureMade
<1> QED
  BY <1>2, <1>3 DEF PrefixGroup

LEMMA PrefixUnaryMade ==
  ASSUME IInv, IInv', CInv, CInv', MInv, PrefixUnary
  PROVE  MInv'
<1> DEFINE kids == <<result>>
<1>1. stack # <<>> /\ Top.at = "prefix.unary" /\ toks' = toks
  BY DEF PrefixUnary, At
<1>2. CASE /\ result # Null
           /\ New("UnaryExpression", Top.token, kids, 0, Top.token, nodes[result].to)
           /\ Return(NewPtr)
  <2>1. Top.at \in CallPlaces /\ Callee(Top.at) = "expression" /\ Function(Top.at) = "prefix"
    BY <1>1, CallPlaceNames, Callees, FunctionsOfPlaces
  <2>2. IsExpression(result, nodes)
    BY <1>1, <1>2, <2>1, GivenToTop DEF GivenBack, ExpressionFunctions
  <2>3. Len(kids) = 1 /\ kids[1] = result /\ result \in 0..Len(nodes)
        /\ \A k \in 1..Len(kids) : kids[k] = result
    BY DEF IInv, TypeOK
  <2> HIDE DEF kids
  <2>4. nodes'[NewPtr].kind = "UnaryExpression" /\ nodes'[NewPtr].kids = kids
    BY <1>2, NewFacts
  <2>5. NodeMade(nodes'[NewPtr], toks, nodes)
    BY <2>2, <2>3, <2>4 DEF NodeMade, Operations
  <2>6. \A k \in 1..Len(kids) : kids[k] \in 0..Len(nodes)
    BY <2>3
  <2> QED
    BY <1>1, <1>2, <2>1, <2>5, <2>6, NewMade DEF ExpressionKinds
<1>3. CASE Fail("MissingUnaryOperand", Top.token)
  BY <1>1, <1>3, FailureMade
<1> QED
  BY <1>2, <1>3 DEF PrefixUnary

----------------------------------------------------------------------------
LEMMA NothingMade == Init => MInv
<1> SUFFICES ASSUME Init PROVE MInv
  OBVIOUS
<1>1. nodes = <<>> /\ result = Null /\ stack = <<Enter("program", 0, 0)>>
  BY DEF Init
<1>2. HeapMade(toks, nodes)
  <2>1. Len(nodes) = 0
    BY <1>1
  <2> QED
    BY <2>1 DEF HeapMade, Down
<1>3. StackMade(stack, toks, nodes)
  <2>1. Enter("program", 0, 0).at = "program"
    BY DEF Enter
  <2>2. \A k \in 1..Len(stack) : stack[k] = Enter("program", 0, 0)
    BY <1>1
  <2> QED
    BY <2>1, <2>2 DEF StackMade, FrameMade
<1> QED
  BY <1>1, <1>2, <1>3 DEF MInv, ResultMade

LEMMA OthersStepMade ==
  ASSUME IInv, CInv, MInv
  PROVE  /\ CalleeFailed => MInv'
         /\ Crash => MInv'
         /\ UNCHANGED vars => MInv'
<1>1. ASSUME CalleeFailed
      PROVE  MInv'
  BY <1>1, FailureMade DEF CalleeFailed
<1>2. ASSUME Crash
      PROVE  MInv'
  <2>1. stack' = <<>> /\ result' = Null /\ toks' = toks /\ nodes' = nodes /\ Len(stack') = 0
    BY <1>2 DEF Crash
  <2> QED
    BY <2>1 DEF MInv, StackMade, ResultMade
<1>3. ASSUME UNCHANGED vars
      PROVE  MInv'
  BY <1>3 DEF vars, MInv, ResultMade, Top
<1> QED
  BY <1>1, <1>2, <1>3

(* Every node is made of what the grammar has in its place, whatever the   *)
(* token stream.                                                           *)
THEOREM ParserMakesNodes == Spec => []MInv
<1>1. Init => MInv
  BY NothingMade
<1>2. ASSUME IInv, IInv', CInv, CInv', MInv, [Next]_vars
      PROVE  MInv'
  BY <1>2, ProgramMade, DefinitionMade, DefinitionAssignMade, DefinitionEndMade,
     TypedVariableMade, TypedVariableColonMade, TypedVariableEndMade, TypeMade,
     TypeBracketMade, LiteralMade, StatementMade, StatementEndMade, AssignmentTargetMade,
     AssignmentExpressionMade, AssignmentEndMade, ExpressionMade, ExpressionPrefixMade,
     ExpressionOperatorMade, ExpressionOperandMade, PrefixMade, PrefixGroupMade,
     PrefixUnaryMade, OthersStepMade
     DEF Next, Terminating
<1> QED
  BY <1>1, <1>2, ParserInvariant, ParserCover, PTL DEF Spec

----------------------------------------------------------------------------
(* What the trees of the heap are: expressions of the grammar, of the level*)
(* of their topmost operator.                                              *)

Known(n, ts, ns) ==
  /\ n \in Node /\ NodeFine(n, ts, ns) /\ Linked(n, ns) /\ CompleteIn(n, ts, ns)
  /\ NodeMade(n, ts, ns) /\ NodeBinds(n, ts, ns)
  /\ n.kind = "GroupingExpression" => n.kids # <<Null>>

HeapKnown(ts, ns) ==
  /\ ts \in Seq(TokenTypes) /\ ns \in Seq(Node) /\ Down(ns)
  /\ \A p \in 1..Len(ns) : Known(ns[p], ts, ns)

Sound(p, ts, ns) ==
  Derives(TreeOf(p, ns), TreeLevel(TreeOf(p, ns), ts), ns[p].from, ns[p].to, ts)

LEMMA HeapIsKnown ==
  ASSUME IInv, CInv, MInv, BInv, ~HasHole
  PROVE  HeapKnown(toks, nodes)
<1>1. toks \in Seq(TokenTypes) /\ nodes \in Seq(Node) /\ Down(nodes)
  BY DEF IInv, TypeOK, MInv, HeapMade
<1>2. ASSUME NEW p \in 1..Len(nodes)
      PROVE  Known(nodes[p], toks, nodes)
  <2>1. nodes[p] \in Node /\ NodeFine(nodes[p], toks, nodes)
    BY <1>1 DEF IInv, HeapFine
  <2>2. Linked(nodes[p], nodes) /\ CompleteIn(nodes[p], toks, nodes)
    BY DEF CInv, HeapTiles
  <2>3. NodeMade(nodes[p], toks, nodes) /\ NodeBinds(nodes[p], toks, nodes)
    BY DEF MInv, HeapMade, BInv, HeapBinds
  <2>4. nodes[p].kind = "GroupingExpression" => nodes[p].kids # <<Null>>
    BY DEF HasHole
  <2> QED
    BY <2>1, <2>2, <2>3, <2>4 DEF Known
<1> QED
  BY <1>1, <1>2 DEF HeapKnown

LEMMA PrefixPowers ==
  ASSUME NEW op \in DOMAIN PrefixPower
  PROVE  \/ op = "NOT" /\ PrefixPower[op] = 40 /\ UnaryLevel(op) = 3
         \/ op = "MINUS" /\ PrefixPower[op] = 80 /\ UnaryLevel(op) = 7
BY DEF PrefixPower, UnaryLevel

(* The level of an operand.                                                *)
LEMMA LeftFits ==
  ASSUME NEW ts, NEW ns, NEW a, NEW op \in DOMAIN InfixPower, a.kind \in ExpressionKinds,
         NodeFine(a, ts, ns), a.kind \in Operations => Loose(op, NodePower(a, ts))
  PROVE  /\ TreeLevel(a, ts) \in 1..8 /\ LeftLevel(BinaryLevel(op)) \in 1..8
         /\ LeftLevel(BinaryLevel(op)) <= TreeLevel(a, ts)
<1>1. CASE a.kind = "BinaryExpression"
  <2>1. ts[a.token] \in DOMAIN InfixPower
    BY <1>1 DEF NodeFine
  <2>2. Left(op) < InfixPower[ts[a.token]].right
    BY <1>1 DEF Loose, NodePower, Operations
  <2>3. TreeLevel(a, ts) = BinaryLevel(ts[a.token])
    BY <1>1 DEF TreeLevel
  <2> QED
    BY <2>1, <2>2, <2>3, OperatorPowers DEF Powered, LeftLevel
<1>2. CASE a.kind = "UnaryExpression"
  <2>1. ts[a.token] \in DOMAIN PrefixPower
    BY <1>2 DEF NodeFine
  <2>2. Left(op) < PrefixPower[ts[a.token]]
    BY <1>2 DEF Loose, NodePower, Operations
  <2>3. TreeLevel(a, ts) = UnaryLevel(ts[a.token])
    BY <1>2 DEF TreeLevel
  <2> QED
    BY <2>1, <2>2, <2>3, OperatorPowers, PrefixPowers DEF Powered, LeftLevel
<1>3. CASE a.kind \notin Operations
  <2>1. TreeLevel(a, ts) = 8
    BY <1>3 DEF TreeLevel, Operations
  <2> QED
    BY <2>1, OperatorPowers DEF Powered, LeftLevel
<1> QED
  BY <1>1, <1>2, <1>3 DEF Operations

LEMMA RightFits ==
  ASSUME NEW ts, NEW ns, NEW p, NEW op \in DOMAIN InfixPower, ns[p].kind \in ExpressionKinds,
         p # Null, NodeFine(ns[p], ts, ns), TopBinds(p, InfixPower[op].right, ts, ns),
         op \notin Logical => Constant(p, ts, ns)
  PROVE  /\ TreeLevel(ns[p], ts) \in 1..8 /\ RightLevel(BinaryLevel(op)) \in 1..8
         /\ RightLevel(BinaryLevel(op)) <= TreeLevel(ns[p], ts)
<1> DEFINE a == ns[p]
<1>1. CASE a.kind = "BinaryExpression"
  <2>1. ts[a.token] \in DOMAIN InfixPower
    BY <1>1 DEF NodeFine
  <2>2. Left(ts[a.token]) >= InfixPower[op].right
    BY <1>1 DEF TopBinds
  <2>3. TreeLevel(a, ts) = BinaryLevel(ts[a.token])
    BY <1>1 DEF TreeLevel
  <2> HIDE DEF a
  <2> QED
    BY <2>1, <2>2, <2>3, OperatorPowers DEF Powered, RightLevel, a
<1>2. CASE a.kind = "UnaryExpression"
  <2>1. ts[a.token] \in DOMAIN PrefixPower
    BY <1>2 DEF NodeFine
  <2>2. op \notin Logical => ts[a.token] = "MINUS"
    BY <1>2 DEF Constant
  <2>3. TreeLevel(a, ts) = UnaryLevel(ts[a.token])
    BY <1>2 DEF TreeLevel
  <2> HIDE DEF a
  <2> QED
    BY <2>1, <2>2, <2>3, OperatorPowers, PrefixPowers DEF Powered, RightLevel, a
<1>3. CASE a.kind \notin Operations
  <2>1. TreeLevel(a, ts) = 8
    BY <1>3 DEF TreeLevel, Operations
  <2> QED
    BY <2>1, OperatorPowers DEF Powered, RightLevel
<1> QED
  BY <1>1, <1>2, <1>3 DEF Operations

LEMMA UnaryFits ==
  ASSUME NEW ts, NEW ns, NEW p, NEW op \in DOMAIN PrefixPower, ns[p].kind \in ExpressionKinds,
         p # Null, NodeFine(ns[p], ts, ns), TopBinds(p, PrefixPower[op], ts, ns),
         op = "MINUS" => Constant(p, ts, ns)
  PROVE  /\ TreeLevel(ns[p], ts) \in 1..8 /\ UnaryLevel(op) \in 1..8
         /\ UnaryLevel(op) <= TreeLevel(ns[p], ts)
<1> DEFINE a == ns[p]
<1>1. CASE a.kind = "BinaryExpression"
  <2>1. ts[a.token] \in DOMAIN InfixPower
    BY <1>1 DEF NodeFine
  <2>2. Left(ts[a.token]) >= PrefixPower[op]
    BY <1>1 DEF TopBinds
  <2>3. TreeLevel(a, ts) = BinaryLevel(ts[a.token])
    BY <1>1 DEF TreeLevel
  <2> HIDE DEF a
  <2> QED
    BY <2>1, <2>2, <2>3, OperatorPowers, PrefixPowers DEF Powered, a
<1>2. CASE a.kind = "UnaryExpression"
  <2>1. ts[a.token] \in DOMAIN PrefixPower
    BY <1>2 DEF NodeFine
  <2>2. op = "MINUS" => ts[a.token] = "MINUS"
    BY <1>2 DEF Constant
  <2>3. TreeLevel(a, ts) = UnaryLevel(ts[a.token])
    BY <1>2 DEF TreeLevel
  <2> HIDE DEF a
  <2> QED
    BY <2>1, <2>2, <2>3, PrefixPowers DEF a
<1>3. CASE a.kind \notin Operations
  <2>1. TreeLevel(a, ts) = 8
    BY <1>3 DEF TreeLevel, Operations
  <2> QED
    BY <2>1, PrefixPowers
<1> QED
  BY <1>1, <1>2, <1>3 DEF Operations

LEMMA SameTop ==
  ASSUME NEW ts, NEW ns, Len(ns) \in Nat, Down(ns), NEW p \in 1..Len(ns)
  PROVE  /\ TreeOf(p, ns).kind = ns[p].kind /\ TreeOf(p, ns).token = ns[p].token
         /\ TreeLevel(TreeOf(p, ns), ts) = TreeLevel(ns[p], ts)
<1>1. TreeOf(p, ns).kind = ns[p].kind /\ TreeOf(p, ns).token = ns[p].token
  <2> DEFINE kids == [k \in DOMAIN ns[p].kids |-> TreeOf(ns[p].kids[k], ns)]
  <2>1. TreeOf(p, ns) = Tree(ns[p].kind, ns[p].token, kids)
    BY TreeOfNode
  <2> HIDE DEF kids
  <2> QED
    BY <2>1, TreeFields
<1>2. ASSUME NEW t, NEW n, t.kind = n.kind, t.token = n.token
      PROVE  TreeLevel(t, ts) = TreeLevel(n, ts)
  BY <1>2 DEF TreeLevel
<1> QED
  BY <1>1, <1>2

LEMMA KnownFacts ==
  ASSUME NEW ts, NEW ns, HeapKnown(ts, ns), NEW p \in 1..Len(ns)
  PROVE  /\ Len(ts) \in Nat /\ Len(ns) \in Nat /\ Down(ns) /\ ts \in Seq(TokenTypes)
         /\ Known(ns[p], ts, ns) /\ ns[p].from \in Nat /\ ns[p].to \in Nat
         /\ ns[p].token \in Nat /\ ns[p].kids \in Seq(Nat)
<1>1. ts \in Seq(TokenTypes) /\ ns \in Seq(Node) /\ Down(ns) /\ Known(ns[p], ts, ns)
  BY DEF HeapKnown
<1> QED
  BY <1>1, NodeParts

LEMMA SoundLeaf ==
  ASSUME NEW ts, NEW ns, HeapKnown(ts, ns), NEW p \in 1..Len(ns),
         ns[p].kind \in {"Identifier", "Literal"}
  PROVE  Sound(p, ts, ns)
<1> DEFINE n == ns[p]
           t == TreeOf(p, ns)
           i == n.from
<1>1. Len(ts) \in Nat /\ Len(ns) \in Nat /\ Down(ns) /\ Known(n, ts, ns) /\ i \in Nat
  BY KnownFacts
<1>2. n.kids = <<>> /\ i = n.token /\ n.to = i /\ i \in 1..Len(ts)
  BY <1>1 DEF Known, NodeMade, CompleteIn, NodeFine
<1>3. n.kind = "Identifier" => ts[i] = "ID"
  BY <1>1, <1>2 DEF Known, NodeFine
<1>4. n.kind = "Literal" => ts[i] \in Literals
  BY <1>1, <1>2 DEF Known, NodeFine
<1>5. t = Tree(n.kind, i, <<>>) /\ TreeLevel(t, ts) = TreeLevel(n, ts)
  BY <1>1, <1>2, TreeOfLeaf, SameTop
<1>6. TreeLevel(n, ts) = 8
  BY DEF TreeLevel
<1> HIDE DEF t
<1>7. IsLeaf(t, i, i, ts)
  BY <1>3, <1>4, <1>5 DEF IsLeaf
<1>8. IsPart(8, i, i, ts)
  BY <1>1, <1>2 DEF IsPart, Level
<1>9. Derives(t, 8, i, i, ts)
  <2>1. ExpressionOf(t, 8, i, i, ts) /\ i <= i /\ Len(ts) \in Nat
    BY <1>1, <1>7 DEF ExpressionOf
  <2> HIDE DEF i, n
  <2> QED
    BY <1>8, <2>1, Derivation
<1> QED
  BY <1>2, <1>5, <1>6, <1>9 DEF Sound, t

LEMMA SoundGroup ==
  ASSUME NEW ts, NEW ns, HeapKnown(ts, ns), NEW p \in 1..Len(ns),
         ns[p].kind = "GroupingExpression",
         \A q \in 1..Len(ns) : q < p /\ ns[q].kind \in ExpressionKinds => Sound(q, ts, ns)
  PROVE  Sound(p, ts, ns)
<1> DEFINE n == ns[p]
           t == TreeOf(p, ns)
           i == n.from
           j == n.to
           a == n.kids[1]
           u == TreeOf(a, ns)
<1>1. /\ Len(ts) \in Nat /\ Len(ns) \in Nat /\ Down(ns) /\ Known(n, ts, ns) /\ i \in Nat
      /\ j \in Nat /\ n.kids \in Seq(Nat) /\ ts \in Seq(TokenTypes)
  BY KnownFacts
<1>2. n.kids = <<a>> /\ 1 \in DOMAIN n.kids
  <2>1. Len(n.kids) = 1
    BY <1>1 DEF Known, Linked
  <2> QED
    BY <1>1, <2>1
<1>3. a \in 1..Len(ns) /\ a < p
  <2>1. a # Null
    BY <1>1, <1>2 DEF Known
  <2>2. a \in 0..(p - 1)
    BY <1>1, <1>2 DEF Down
  <2> QED
    BY <1>1, <2>1, <2>2 DEF Null
<1>4. /\ ts[i] = "OPENPAREN" /\ TypeIn(ts, j) = "CLOSEPAREN" /\ ns[a].kind \in ExpressionKinds
      /\ i \in 1..Len(ts)
  <2>1. a # Null
    BY <1>3 DEF Null
  <2> QED
    BY <1>1, <2>1 DEF Known, NodeMade, IsExpression, NodeFine
<1>5. j \in 1..Len(ts) /\ ts[j] = "CLOSEPAREN"
  BY <1>4 DEF TypeIn
<1>6. n.token = i /\ ns[a].from = i + 1 /\ ns[a].to + 1 = j
  <2>1. a # Null /\ Len(n.kids) = 1
    BY <1>1, <1>3 DEF Null, Known, Linked
  <2>2. TilesIn(n, 1, 0, 1, ns) /\ n.token = i
    BY <1>1, <2>1 DEF Known, CompleteIn
  <2> QED
    BY <2>1, <2>2 DEF TilesIn
<1>7. Sound(a, ts, ns) /\ ns[a].to \in Nat
  BY <1>3, <1>4, KnownFacts
<1>8. t = Tree("GroupingExpression", i, <<u>>) /\ TreeLevel(t, ts) = 8
  <2>1. t = Tree(n.kind, n.token, <<u>>) /\ TreeLevel(t, ts) = TreeLevel(n, ts)
    <3>1. t = Tree(n.kind, n.token, <<u>>)
      BY <1>1, <1>2, TreeOfOne
    <3>2. TreeLevel(t, ts) = TreeLevel(n, ts)
      BY <1>1, SameTop
    <3> QED
      BY <3>1, <3>2
  <2>2. TreeLevel(n, ts) = 8
    BY DEF TreeLevel
  <2> QED
    BY <1>6, <2>1, <2>2
<1>9. Derives(u, TreeLevel(u, ts), i + 1, j - 1, ts)
  <2>1. ns[a].to = j - 1
    <3>1. j \in Nat /\ ns[a].to \in Nat /\ ns[a].to + 1 = j
      BY <1>1, <1>6, <1>7
    <3> HIDE DEF j, a
    <3> QED
      BY <3>1
  <2> QED
    BY <1>6, <1>7, <2>1 DEF Sound
<1> HIDE DEF t, u
<1>10. Derives(u, 1, i + 1, j - 1, ts) /\ i < j
  <2>1. TreeLevel(u, ts) \in 1..8 /\ i + 1 <= j - 1
    BY <1>1, <1>9, DerivesFacts
  <2>2. Derives(u, 1, i + 1, j - 1, ts)
    <3> DEFINE v == TreeLevel(u, ts)
    <3>1. 1 \in 1..8 /\ 1 <= v /\ Derives(u, v, i + 1, j - 1, ts)
      BY <1>9, <2>1
    <3> HIDE DEF v
    <3> QED
      BY <1>1, <3>1, DerivesLooser
  <2> QED
    BY <1>1, <2>1, <2>2
<1>11. GroupOf(t, i, j, ts)
  BY <1>4, <1>5, <1>8, <1>10 DEF GroupOf
<1>12. IsPart(8, i, j, ts)
  BY <1>1, <1>4, <1>5 DEF IsPart, Level
<1>13. Derives(t, 8, i, j, ts)
  <2>1. ExpressionOf(t, 8, i, j, ts) /\ i <= j /\ Len(ts) \in Nat
    BY <1>1, <1>10, <1>11 DEF ExpressionOf
  <2> HIDE DEF i, j, n
  <2> QED
    BY <1>12, <2>1, Derivation
<1> QED
  BY <1>8, <1>13 DEF Sound, t

LEMMA SoundUnary ==
  ASSUME NEW ts, NEW ns, HeapKnown(ts, ns), NEW p \in 1..Len(ns),
         ns[p].kind = "UnaryExpression",
         \A q \in 1..Len(ns) : q < p /\ ns[q].kind \in ExpressionKinds => Sound(q, ts, ns)
  PROVE  Sound(p, ts, ns)
<1> DEFINE n == ns[p]
           t == TreeOf(p, ns)
           i == n.from
           j == n.to
           a == n.kids[1]
           u == TreeOf(a, ns)
           op == ts[n.token]
           l == UnaryLevel(op)
<1>1. /\ Len(ts) \in Nat /\ Len(ns) \in Nat /\ Down(ns) /\ Known(n, ts, ns) /\ i \in Nat
      /\ j \in Nat /\ n.kids \in Seq(Nat) /\ ts \in Seq(TokenTypes)
  BY KnownFacts
<1>2. /\ Len(n.kids) = 1 /\ op \in DOMAIN PrefixPower /\ a # Null /\ i \in 1..Len(ts)
      /\ op = "MINUS" => Constant(a, ts, ns)
  BY <1>1 DEF Known, NodeFine
<1>3. n.kids = <<a>> /\ 1 \in DOMAIN n.kids
  BY <1>1, <1>2
<1>4. a \in 1..Len(ns) /\ a < p
  <2>1. a \in 0..(p - 1)
    BY <1>1, <1>3 DEF Down
  <2> QED
    BY <1>1, <1>2, <2>1 DEF Null
<1>5. ns[a].kind \in ExpressionKinds
  <2>1. 1 \in 1..Len(n.kids)
    BY <1>2
  <2> QED
    BY <1>1, <2>1 DEF Known, NodeMade, Operations, IsExpression
<1>6. n.token = i /\ ns[a].from = i + 1 /\ ns[a].to + 0 = j
  <2>1. TilesIn(n, 1, 0, 0, ns) /\ n.token = i
    BY <1>1 DEF Known, CompleteIn
  <2> QED
    BY <1>2, <2>1 DEF TilesIn
<1>7. Sound(a, ts, ns) /\ ns[a].to \in Nat /\ NodeFine(ns[a], ts, ns)
  BY <1>4, <1>5, KnownFacts DEF Known
<1>8. t = Tree("UnaryExpression", i, <<u>>) /\ TreeLevel(t, ts) = l
      /\ TreeLevel(u, ts) = TreeLevel(ns[a], ts)
  <2>1. t = Tree(n.kind, n.token, <<u>>) /\ TreeLevel(t, ts) = TreeLevel(n, ts)
        /\ TreeLevel(u, ts) = TreeLevel(ns[a], ts)
    BY <1>1, <1>3, <1>4, TreeOfOne, SameTop
  <2>2. TreeLevel(n, ts) = l
    BY DEF TreeLevel
  <2> QED
    BY <1>6, <2>1, <2>2
<1>9. TopBinds(a, PrefixPower[op], ts, ns)
  BY <1>1, <1>2 DEF Known, NodeBinds, NodePower, Operations
<1> HIDE DEF op, l
<1>10. TreeLevel(u, ts) \in 1..8 /\ l \in 1..8 /\ l <= TreeLevel(u, ts) /\ l \in {3, 7}
       /\ op \in Operators[l]
  <2>1. /\ TreeLevel(ns[a], ts) \in 1..8 /\ UnaryLevel(op) \in 1..8
        /\ UnaryLevel(op) <= TreeLevel(ns[a], ts)
    BY <1>2, <1>5, <1>7, <1>9, UnaryFits
  <2>2. op \in Operators[UnaryLevel(op)] /\ UnaryLevel(op) \in {3, 7}
    BY <1>2, OperatorsOfLevels
  <2> QED
    BY <1>8, <2>1, <2>2 DEF l
<1>11. Derives(u, TreeLevel(u, ts), i + 1, j, ts)
  <2>1. ns[a].to = j
    BY <1>1, <1>6, <1>7
  <2> QED
    BY <1>6, <1>7, <2>1 DEF Sound
<1> HIDE DEF t, u
<1>12. Derives(u, l, i + 1, j, ts) /\ i <= j /\ j \in 1..Len(ts)
  BY <1>1, <1>10, <1>11, DerivesFacts, DerivesLooser
<1>13. UnaryOf(t, l, i, j, ts)
  BY <1>6, <1>8, <1>10, <1>12 DEF UnaryOf, op
<1>14. IsPart(l, i, j, ts)
  BY <1>1, <1>2, <1>10, <1>12 DEF IsPart, Level
<1>15. Derives(t, l, i, j, ts)
  BY <1>1, <1>10, <1>12, <1>13, <1>14, Derivation DEF ExpressionOf
<1> QED
  BY <1>8, <1>15 DEF Sound, t

LEMMA SoundBinary ==
  ASSUME NEW ts, NEW ns, HeapKnown(ts, ns), NEW p \in 1..Len(ns),
         ns[p].kind = "BinaryExpression",
         \A q \in 1..Len(ns) : q < p /\ ns[q].kind \in ExpressionKinds => Sound(q, ts, ns)
  PROVE  Sound(p, ts, ns)
<1> DEFINE n == ns[p]
           t == TreeOf(p, ns)
           i == n.from
           j == n.to
           k == n.token
           a == n.kids[1]
           b == n.kids[2]
           u == TreeOf(a, ns)
           v == TreeOf(b, ns)
           op == ts[k]
           l == BinaryLevel(op)
<1>1. /\ Len(ts) \in Nat /\ Len(ns) \in Nat /\ Down(ns) /\ Known(n, ts, ns) /\ i \in Nat
      /\ j \in Nat /\ n.kids \in Seq(Nat) /\ ts \in Seq(TokenTypes) /\ k \in Nat
  BY KnownFacts
<1>2. /\ Len(n.kids) = 2 /\ op \in DOMAIN InfixPower /\ a # Null /\ b # Null /\ i \in 1..Len(ts)
      /\ op \notin Logical => Constant(a, ts, ns) /\ Constant(b, ts, ns)
  BY <1>1 DEF Known, NodeFine
<1>3. n.kids = <<a, b>> /\ 1 \in DOMAIN n.kids /\ 2 \in DOMAIN n.kids
  BY <1>1, <1>2
<1>4. a \in 1..Len(ns) /\ a < p /\ b \in 1..Len(ns) /\ b < p
  <2>1. a \in 0..(p - 1) /\ b \in 0..(p - 1)
    BY <1>1, <1>3 DEF Down
  <2>2. a # 0 /\ b # 0 /\ Len(ns) \in Nat
    BY <1>1, <1>2 DEF Null
  <2> HIDE DEF a, b
  <2> QED
    BY <2>1, <2>2
<1>5. ns[a].kind \in ExpressionKinds /\ ns[b].kind \in ExpressionKinds
  <2>1. 1 \in 1..Len(n.kids) /\ 2 \in 1..Len(n.kids)
    BY <1>2
  <2> QED
    BY <1>1, <2>1 DEF Known, NodeMade, Operations, IsExpression
<1>6. /\ k = ns[a].to + 1 /\ ns[a].from = i + 0 /\ ns[b].to + 0 = j
      /\ ns[b].from = ns[a].to + 1 + 1
  <2>1. TilesIn(n, 0, 1, 0, ns) /\ k = ns[a].to + 1
    BY <1>1 DEF Known, CompleteIn
  <2>2. 1 \in 1..(Len(n.kids) - 1)
    BY <1>2
  <2>3. ns[n.kids[1 + 1]].from = ns[n.kids[1]].to + 1 + 1
    BY <2>1, <2>2 DEF TilesIn
  <2> QED
    BY <1>2, <2>1, <2>3 DEF TilesIn
<1>7. /\ Sound(a, ts, ns) /\ ns[a].to \in Nat /\ NodeFine(ns[a], ts, ns) /\ NodeBinds(ns[a], ts, ns)
      /\ Sound(b, ts, ns) /\ ns[b].to \in Nat /\ NodeFine(ns[b], ts, ns)
      /\ ns[a].from \in Nat
  BY <1>4, <1>5, KnownFacts DEF Known
<1>8. t = Tree("BinaryExpression", k, <<u, v>>) /\ TreeLevel(t, ts) = l
      /\ TreeLevel(u, ts) = TreeLevel(ns[a], ts)
      /\ TreeLevel(v, ts) = TreeLevel(ns[b], ts)
  <2>1. t = Tree(n.kind, k, <<u, v>>) /\ TreeLevel(t, ts) = TreeLevel(n, ts)
        /\ TreeLevel(u, ts) = TreeLevel(ns[a], ts) /\ TreeLevel(v, ts) = TreeLevel(ns[b], ts)
    <3>1. t = Tree(n.kind, k, <<u, v>>)
      BY <1>1, <1>3, TreeOfTwo
    <3>2. TreeLevel(t, ts) = TreeLevel(n, ts)
      BY <1>1, SameTop
    <3>3. TreeLevel(u, ts) = TreeLevel(ns[a], ts)
      BY <1>1, <1>4, SameTop
    <3>4. TreeLevel(v, ts) = TreeLevel(ns[b], ts)
      BY <1>1, <1>4, SameTop
    <3> QED
      BY <3>1, <3>2, <3>3, <3>4
  <2>2. TreeLevel(n, ts) = l
    BY DEF TreeLevel
  <2> QED
    BY <2>1, <2>2
<1>9. TopBinds(b, InfixPower[op].right, ts, ns)
  BY <1>1, <1>2 DEF Known, NodeBinds, NodePower, Operations
<1>10. Derives(u, TreeLevel(u, ts), i, k - 1, ts) /\ Derives(v, TreeLevel(v, ts), k + 1, j, ts)
  <2>1. ns[a].to = k - 1 /\ ns[a].from = i /\ ns[b].from = k + 1 /\ ns[b].to = j
    <3> DEFINE x == ns[a].to
               y == ns[b].to
               z == ns[a].from
    <3>1. /\ i \in Nat /\ j \in Nat /\ k \in Nat /\ x \in Nat /\ y \in Nat
          /\ k = x + 1 /\ z = i + 0 /\ y + 0 = j /\ ns[b].from = x + 1 + 1
      BY <1>1, <1>6, <1>7
    <3> HIDE DEF a, b, i, j, k, x, y, z
    <3>2. x = k - 1 /\ z = i /\ y = j /\ x + 1 + 1 = k + 1
      BY <3>1
    <3> QED
      BY <3>1, <3>2 DEF x, y, z
  <2> QED
    BY <1>7, <2>1 DEF Sound
<1> HIDE DEF t, u, v
<1>11. i <= k - 1 /\ k + 1 <= j /\ j \in 1..Len(ts) /\ k + 1 \in 1..Len(ts)
  BY <1>1, <1>10, DerivesFacts
<1>12. k \in (i + 1)..(j - 1) /\ k \in 1..Len(ts) /\ i <= j
  <2>1. i \in 1..Len(ts) /\ j \in Nat /\ k \in Nat /\ Len(ts) \in Nat
    BY <1>1, <1>2
  <2> HIDE DEF i, j, k
  <2> QED
    BY <2>1, <1>11
<1>13. ns[a].kind \in Operations => Loose(op, NodePower(ns[a], ts))
  <2>1. TypeIn(ts, ns[a].to + 1) = op
    BY <1>6, <1>12 DEF TypeIn
  <2> QED
    BY <1>7, <2>1 DEF NodeBinds
<1> HIDE DEF op, l
<1>14. /\ TreeLevel(u, ts) \in 1..8 /\ LeftLevel(l) \in 1..8 /\ LeftLevel(l) <= TreeLevel(u, ts)
       /\ TreeLevel(v, ts) \in 1..8 /\ RightLevel(l) \in 1..8 /\ RightLevel(l) <= TreeLevel(v, ts)
  <2>1. /\ TreeLevel(ns[a], ts) \in 1..8 /\ LeftLevel(BinaryLevel(op)) \in 1..8
        /\ LeftLevel(BinaryLevel(op)) <= TreeLevel(ns[a], ts)
    BY <1>2, <1>5, <1>7, <1>13, LeftFits
  <2>2. /\ TreeLevel(ns[b], ts) \in 1..8 /\ RightLevel(BinaryLevel(op)) \in 1..8
        /\ RightLevel(BinaryLevel(op)) <= TreeLevel(ns[b], ts)
    BY <1>2, <1>5, <1>7, <1>9, RightFits
  <2> QED
    BY <1>8, <2>1, <2>2 DEF l
<1>15. Derives(u, LeftLevel(l), i, k - 1, ts) /\ Derives(v, RightLevel(l), k + 1, j, ts)
  BY <1>1, <1>10, <1>14, DerivesLooser
<1>16. op \in Operators[l] /\ l \in BinaryLevels /\ l \in 1..8
  BY <1>2, OperatorsOfLevels DEF l, BinaryLevels
<1>17. BinaryOf(t, l, k, i, j, ts)
  BY <1>8, <1>12, <1>15, <1>16 DEF BinaryOf, op
<1>18. IsPart(l, i, j, ts)
  BY <1>1, <1>2, <1>11, <1>16 DEF IsPart, Level
<1>19. Derives(t, l, i, j, ts)
  BY <1>1, <1>12, <1>16, <1>17, <1>18, Derivation DEF ExpressionOf
<1> QED
  BY <1>8, <1>19 DEF Sound, t

(* Every expression that has been built is one of the grammar.             *)
LEMMA SoundExpressions ==
  ASSUME NEW ts, NEW ns, HeapKnown(ts, ns)
  PROVE  \A p \in 1..Len(ns) : ns[p].kind \in ExpressionKinds => Sound(p, ts, ns)
<1> DEFINE S == {p \in Nat : p \in 1..Len(ns) /\ ns[p].kind \in ExpressionKinds => Sound(p, ts, ns)}
<1>1. ASSUME NEW p \in Nat, \A q \in Nat : q < p => q \in S
      PROVE  p \in S
  <2> SUFFICES ASSUME p \in 1..Len(ns), ns[p].kind \in ExpressionKinds
               PROVE  Sound(p, ts, ns)
    OBVIOUS
  <2>1. \A q \in 1..Len(ns) : q < p /\ ns[q].kind \in ExpressionKinds => Sound(q, ts, ns)
    BY <1>1
  <2> QED
    BY <2>1, SoundLeaf, SoundGroup, SoundUnary, SoundBinary DEF ExpressionKinds
<1> HIDE DEF S
<1>2. \A p \in Nat : p \in S
  BY <1>1, FromSmallerNumbers
<1> QED
  BY <1>2 DEF S

----------------------------------------------------------------------------
(* The lines of the grammar.                                               *)

DefinitionTree(d, i, j) ==
  Tree("VariableDefinition", 0,
       <<Tree("Identifier", i, <<>>), Tree("Type", i + 2 + d, <<>>), Tree("Literal", j - 1, <<>>)>>)

DefinitionLine(d, i, j, ts) ==
  /\ j = i + 2 * d + 5
  /\ ts[i] = "ID" /\ ts[i + 1] = "COLON"
  /\ \A k \in 1..d : ts[i + 1 + k] = "OPENBRACK"
  /\ ts[i + 2 + d] \in {"ID", "IDSTRING"}
  /\ \A k \in 1..d : ts[i + 2 + d + k] = "CLOSEBRACK"
  /\ ts[j - 2] = "ASSIGN" /\ ts[j - 1] \in Literals

TargetTrees(n, i) == [k \in 1..n |-> Tree("Identifier", i + 2 * k - 2, <<>>)]

AssignmentTree(n, x, i) == Tree("AssignmentStatement", 0, TargetTrees(n, i) \o <<x>>)

TargetsLine(n, i, j, ts) ==
  /\ i + 2 * n < j
  /\ \A k \in 1..n : ts[i + 2 * k - 2] = "ID" /\ ts[i + 2 * k - 1] = "ASSIGN"

LEMMA DefinitionMembers ==
  ASSUME NEW ts, NEW i, NEW j, NEW t
  PROVE  t \in DefinitionTrees(i, j, ts) <=>
           \E d \in 0..Len(ts) : DefinitionLine(d, i, j, ts) /\ t = DefinitionTree(d, i, j)
BY Zenon DEF DefinitionTrees, DefinitionLine, DefinitionTree

AssignmentTreesOf(n, i, j, ts) ==
  {AssignmentTree(n, x, i) : x \in Derivations(ts)[<<1, i + 2 * n, j - 1>>]}

LEMMA AssignmentMembers ==
  ASSUME NEW ts, Len(ts) \in Nat, NEW i \in 1..Len(ts), NEW j \in 1..Len(ts), NEW t
  PROVE  t \in AssignmentTrees(i, j, ts) <=>
           \E n \in 1..Len(ts) :
             /\ TargetsLine(n, i, j, ts)
             /\ \E x : Derives(x, 1, i + 2 * n, j - 1, ts) /\ t = AssignmentTree(n, x, i)
<1> DEFINE NN == {n \in 1..Len(ts) : TargetsLine(n, i, j, ts)}
<1>1. AssignmentTrees(i, j, ts) = UNION {AssignmentTreesOf(n, i, j, ts) : n \in NN}
  BY Zenon DEF AssignmentTrees, AssignmentTreesOf, AssignmentTree, TargetTrees, TargetsLine
<1>2. ASSUME NEW n \in 1..Len(ts), TargetsLine(n, i, j, ts)
      PROVE  t \in AssignmentTreesOf(n, i, j, ts) <=>
               \E x : Derives(x, 1, i + 2 * n, j - 1, ts) /\ t = AssignmentTree(n, x, i)
  <2>1. i + 2 * n \in 1..(Len(ts) + 1) /\ j - 1 \in 0..Len(ts)
    BY <1>2 DEF TargetsLine
  <2>2. IsPart(1, i + 2 * n, j - 1, ts)
    BY <2>1 DEF IsPart, Level
  <2>3. \A x : Derives(x, 1, i + 2 * n, j - 1, ts) <=> x \in Derivations(ts)[<<1, i + 2 * n, j - 1>>]
    BY <2>2 DEF Derives
  <2> QED
    BY <2>3 DEF AssignmentTreesOf
<1>3. t \in AssignmentTrees(i, j, ts) <=> \E n \in NN : t \in AssignmentTreesOf(n, i, j, ts)
  BY <1>1, Zenon
<1> QED
  BY <1>2, <1>3

(* A line has its NEWLINE at its end only.                                 *)
Unbroken(i, j, ts) == \A x \in i..(j - 1) : ts[x] # "NEWLINE"

LEMMA DefinitionUnbroken ==
  ASSUME NEW ts, NEW i \in Nat, NEW j \in Nat, NEW d \in Nat, DefinitionLine(d, i, j, ts)
  PROVE  Unbroken(i, j, ts) /\ i < j
<1>1. i < j
  BY DEF DefinitionLine
<1>2. ASSUME NEW x \in i..(j - 1), ts[x] = "NEWLINE"
      PROVE  FALSE
  <2> DEFINE k == x - (i + 1)
             m == x - (i + 2 + d)
  <2>0. x \in Int /\ x >= i /\ x <= j - 1 /\ j = i + 2 * d + 5
    BY <1>2 DEF DefinitionLine
  <2>1. \/ x = i \/ x = i + 1 \/ k \in 1..d \/ x = i + 2 + d \/ m \in 1..d \/ x = j - 2 \/ x = j - 1
    BY <2>0
  <2>2. x = i + 1 + k /\ x = i + 2 + d + m
    BY <2>0
  <2> HIDE DEF k, m
  <2>3. x # i /\ x # i + 1 /\ x # i + 2 + d /\ x # j - 2 /\ x # j - 1
    BY <1>2 DEF DefinitionLine, Literals
  <2>4. k \notin 1..d
    BY <1>2, <2>2 DEF DefinitionLine
  <2>5. m \notin 1..d
    BY <1>2, <2>2 DEF DefinitionLine
  <2> QED
    BY <2>1, <2>3, <2>4, <2>5
<1> QED
  BY <1>1, <1>2 DEF Unbroken

LEMMA AssignmentUnbroken ==
  ASSUME NEW ts, Len(ts) \in Nat, NEW i \in Nat, NEW j \in Nat, NEW n \in Nat,
         TargetsLine(n, i, j, ts), NEW x, Derives(x, 1, i + 2 * n, j - 1, ts)
  PROVE  Unbroken(i, j, ts) /\ i < j
<1>1. i < j
  BY DEF TargetsLine
<1>2. Inside(i + 2 * n, j - 1, ts)
  BY DerivedInside
<1>3. ASSUME NEW y \in i..(j - 1), ts[y] = "NEWLINE"
      PROVE  FALSE
  <2>0. y \in Int /\ y >= i /\ y <= j - 1
    BY <1>3
  <2>1. CASE y >= i + 2 * n
    <3>1. y \in (i + 2 * n)..(j - 1)
      BY <2>0, <2>1
    <3> QED
      BY <1>2, <1>3, <3>1 DEF Inside, Between
  <2>2. CASE y < i + 2 * n
    <3>1. PICK k \in 1..n : y = i + 2 * k - 2 \/ y = i + 2 * k - 1
      <4> DEFINE k == 1 + ((y - i) \div 2)
      <4>1. k \in 1..n /\ (y = i + 2 * k - 2 \/ y = i + 2 * k - 1)
        BY <2>0, <2>2
      <4> QED
        BY <4>1
    <3> QED
      BY <1>3, <3>1 DEF TargetsLine
  <2> QED
    BY <2>0, <2>1, <2>2
<1> QED
  BY <1>1, <1>3 DEF Unbroken

(* Where a line starts.                                                    *)
LEMMA LineStartIs ==
  ASSUME NEW ts, Len(ts) \in Nat, NEW i \in Nat, NEW j \in NewLines(ts), 1 <= i, i <= j,
         i = 1 \/ i - 1 \in NewLines(ts), Unbroken(i, j, ts)
  PROVE  LineStart(j, ts) = i
<1> DEFINE before == {x \in NewLines(ts) : x < j}
<1>1. \A x \in NewLines(ts) : x \in Int /\ 1 <= x /\ ts[x] = "NEWLINE"
  BY DEF NewLines
<1>2. \A x \in before : x <= i - 1
  <2> SUFFICES ASSUME NEW x \in NewLines(ts), x < j, ~(x <= i - 1)
               PROVE  FALSE
    BY DEF before
  <2>1. x \in i..(j - 1)
    BY <1>1
  <2> QED
    BY <1>1, <2>1 DEF Unbroken
<1>3. CASE i = 1
  <2>1. before = {}
    BY <1>1, <1>2, <1>3
  <2> QED
    BY <1>3, <2>1 DEF LineStart
<1>4. CASE i - 1 \in NewLines(ts)
  <2>1. i - 1 \in before
    BY <1>1, <1>4
  <2>2. \A x \in before : x \in Int
    BY <1>1
  <2>3. \A y \in before : (\A k \in before : k <= y) => y = i - 1
    BY <1>2, <2>1, <2>2
  <2>4. (CHOOSE y \in before : \A k \in before : k <= y) = i - 1
    <3> DEFINE P(y) == \A k \in before : k <= y
    <3>1. \E y \in before : P(y)
      BY <1>2, <2>1
    <3>2. (CHOOSE y \in before : P(y)) \in before /\ P(CHOOSE y \in before : P(y))
      BY <3>1, Zenon
    <3> QED
      BY <2>3, <3>2, Zenon
  <2>5. LineStart(j, ts) = 1 + (CHOOSE y \in before : \A k \in before : k <= y)
    BY <2>1, Zenon DEF LineStart
  <2>6. LineStart(j, ts) = 1 + (i - 1)
    BY <2>4, <2>5, Zenon
  <2> QED
    BY <2>6
<1> QED
  BY <1>3, <1>4

LEMMA TreeOfThree ==
  ASSUME NEW ns, Len(ns) \in Nat, Down(ns), NEW p \in 1..Len(ns), NEW a, NEW b, NEW c,
         ns[p].kids = <<a, b, c>>
  PROVE  TreeOf(p, ns) = Tree(ns[p].kind, ns[p].token,
                              <<TreeOf(a, ns), TreeOf(b, ns), TreeOf(c, ns)>>)
<1>1. TreeOf(p, ns) =
        Tree(ns[p].kind, ns[p].token, [k \in DOMAIN ns[p].kids |-> TreeOf(ns[p].kids[k], ns)])
  BY TreeOfNode
<1>2. [k \in DOMAIN ns[p].kids |-> TreeOf(ns[p].kids[k], ns)]
        = <<TreeOf(a, ns), TreeOf(b, ns), TreeOf(c, ns)>>
  OBVIOUS
<1> QED
  BY <1>1, <1>2

(* A leaf is of one token.                                                 *)
LEMMA LeafIs ==
  ASSUME NEW ts, NEW ns, HeapKnown(ts, ns), NEW p \in 1..Len(ns),
         ns[p].kind \in {"Identifier", "Literal"}
  PROVE  /\ ns[p].from \in 1..Len(ts) /\ ns[p].to = ns[p].from
         /\ TreeOf(p, ns) = Tree(ns[p].kind, ns[p].from, <<>>)
         /\ ns[p].kind = "Identifier" => ts[ns[p].from] = "ID"
         /\ ns[p].kind = "Literal" => ts[ns[p].from] \in Literals
<1> DEFINE n == ns[p]
           i == n.from
<1>1. Len(ts) \in Nat /\ Len(ns) \in Nat /\ Down(ns) /\ Known(n, ts, ns) /\ i \in Nat
  BY KnownFacts
<1>2. n.kids = <<>> /\ i = n.token /\ n.to = i /\ i \in 1..Len(ts)
  BY <1>1 DEF Known, NodeMade, CompleteIn, NodeFine
<1>3. n.kind = "Identifier" => ts[i] = "ID"
  BY <1>1, <1>2 DEF Known, NodeFine
<1>4. n.kind = "Literal" => ts[i] \in Literals
  BY <1>1, <1>2 DEF Known, NodeFine
<1>5. TreeOf(p, ns) = Tree(n.kind, i, <<>>)
  BY <1>1, <1>2, TreeOfLeaf
<1> QED
  BY <1>2, <1>3, <1>4, <1>5

LEMMA ThreeKids ==
  ASSUME NEW kids \in Seq(Nat), Len(kids) = 3
  PROVE  /\ kids = <<kids[1], kids[2], kids[3]>>
         /\ 1 \in 1..Len(kids) /\ 2 \in 1..Len(kids) /\ 3 \in 1..Len(kids)
         /\ 1 \in 1..(Len(kids) - 1) /\ 2 \in 1..(Len(kids) - 1)
OBVIOUS

LEMMA SoundDefinition ==
  ASSUME NEW ts, NEW ns, HeapKnown(ts, ns), NEW p \in 1..Len(ns),
         ns[p].kind = "VariableDefinition", ns[p].token = NoToken
  PROVE  \E d \in 0..Len(ts) : /\ DefinitionLine(d, ns[p].from, ns[p].to + 1, ts)
                               /\ TreeOf(p, ns) = DefinitionTree(d, ns[p].from, ns[p].to + 1)
<1> DEFINE n == ns[p]
           i == n.from
           j == n.to + 1
           a == n.kids[1]
           b == n.kids[2]
           c == n.kids[3]
           d == ns[b].dim
           q == ns[b].token
<1>1. /\ Len(ts) \in Nat /\ Len(ns) \in Nat /\ Down(ns) /\ Known(n, ts, ns) /\ i \in Nat
      /\ n.to \in Nat /\ n.kids \in Seq(Nat) /\ ts \in Seq(TokenTypes)
  BY KnownFacts
<1>2. /\ Len(n.kids) = 3 /\ TypedMade(n, ts, ns) /\ Behind(b, "ASSIGN", ts, ns)
      /\ ns[c].kind = "Literal"
  BY <1>1 DEF Known, NodeMade
<1>3. n.kids = <<a, b, c>> /\ 1 \in 1..Len(n.kids) /\ 2 \in 1..Len(n.kids) /\ 3 \in 1..Len(n.kids)
      /\ 1 \in 1..(Len(n.kids) - 1) /\ 2 \in 1..(Len(n.kids) - 1)
  BY <1>1, <1>2, ThreeKids
<1>4. a \in 1..Len(ns) /\ b \in 1..Len(ns) /\ c \in 1..Len(ns)
  BY <1>1, <1>3 DEF Known, Linked
<1>5. TilesIn(n, 0, 1, 0, ns)
  BY <1>1 DEF Known, CompleteIn
<1>6. /\ ns[a].from = i + 0 /\ ns[n.kids[1 + 1]].from = ns[a].to + 1 + 1
      /\ ns[n.kids[2 + 1]].from = ns[b].to + 1 + 1 /\ ns[c].to + 0 = n.to
  BY <1>2, <1>3, <1>5 DEF TilesIn
<1>7. /\ ns[a].kind = "Identifier" /\ ns[b].kind = "Type"
      /\ ts[ns[a].to + 1] = "COLON" /\ ts[ns[b].to + 1] = "ASSIGN"
  BY <1>2 DEF TypedMade, Behind
<1>8. /\ ns[a].from \in 1..Len(ts) /\ ns[a].to = ns[a].from
      /\ TreeOf(a, ns) = Tree("Identifier", ns[a].from, <<>>) /\ ts[ns[a].from] = "ID"
      /\ ns[c].from \in 1..Len(ts) /\ ns[c].to = ns[c].from
      /\ TreeOf(c, ns) = Tree("Literal", ns[c].from, <<>>) /\ ts[ns[c].from] \in Literals
  <2>1. ns[a].kind = "Identifier" /\ ns[c].kind = "Literal"
    BY <1>2, <1>7
  <2> HIDE DEF n, a, c
  <2>2. /\ ns[a].from \in 1..Len(ts) /\ ns[a].to = ns[a].from
        /\ TreeOf(a, ns) = Tree(ns[a].kind, ns[a].from, <<>>) /\ ts[ns[a].from] = "ID"
    BY <1>4, <2>1, LeafIs
  <2>3. /\ ns[c].from \in 1..Len(ts) /\ ns[c].to = ns[c].from
        /\ TreeOf(c, ns) = Tree(ns[c].kind, ns[c].from, <<>>) /\ ts[ns[c].from] \in Literals
    BY <1>4, <2>1, LeafIs
  <2> QED
    BY <2>1, <2>2, <2>3
<1>9. /\ Known(ns[b], ts, ns) /\ d \in Nat /\ q \in Nat /\ ns[b].to \in Nat /\ ns[b].from \in Nat
  <2>1. ns[b] \in Node /\ Known(ns[b], ts, ns)
    BY <1>4 DEF HeapKnown, Known
  <2> QED
    BY <2>1 DEF Node
<1>10. /\ ns[b].kids = <<>> /\ Brackets(q, d, ts) /\ ns[b].from = q - d /\ ns[b].to = q + d
  BY <1>7, <1>9 DEF Known, NodeMade, CompleteIn
<1>11. TreeOf(b, ns) = Tree("Type", q, <<>>)
  BY <1>1, <1>4, <1>7, <1>10, TreeOfLeaf
<1>12. TreeOf(p, ns) = Tree("VariableDefinition", 0, <<TreeOf(a, ns), TreeOf(b, ns), TreeOf(c, ns)>>)
  BY <1>1, <1>3, TreeOfThree DEF NoToken
<1>13. /\ ns[a].from = i /\ ns[a].to = i /\ q = i + 2 + d /\ ns[b].to = i + 2 + 2 * d
       /\ ns[c].from = i + 4 + 2 * d /\ j = i + 2 * d + 5 /\ ns[c].from = j - 1
       /\ ns[b].to + 1 = j - 2
  <2>1. ns[b].from = ns[a].to + 1 + 1 /\ ns[c].from = ns[b].to + 1 + 1
    BY <1>6
  <2>2. ns[a].from \in Nat /\ ns[c].from \in Nat /\ i \in Nat /\ n.to \in Nat /\ j = n.to + 1
    <3>1. ns[a].from \in 1..Len(ts) /\ ns[c].from \in 1..Len(ts)
      BY <1>8
    <3>2. ns[a].from \in Nat /\ ns[c].from \in Nat
      <4> HIDE DEF a, c
      <4> QED
        BY <1>1, <3>1
    <3> QED
      BY <1>1, <3>2
  <2>3. ns[a].to \in Nat /\ ns[b].to \in Nat /\ ns[b].from \in Nat /\ d \in Nat /\ q \in Nat
        /\ ns[c].to \in Nat
    <3>1. ns[a].to = ns[a].from /\ ns[c].to = ns[c].from
      BY <1>8
    <3> HIDE DEF a, b, c, d, q
    <3> QED
      BY <1>9, <2>2, <3>1
  <2>4. ns[a].from = i + 0 /\ ns[c].to + 0 = n.to
    BY <1>6
  <2>5. ns[a].to = ns[a].from /\ ns[c].to = ns[c].from
    BY <1>8
  <2>6. ns[b].from = q - d /\ ns[b].to = q + d
    BY <1>10
  <2> HIDE DEF n, i, j, a, b, c, d, q
  <2>7. ns[a].from = i /\ ns[a].to = i /\ ns[b].from = i + 2
    BY <2>1, <2>2, <2>3, <2>4, <2>5
  <2>8. q = i + 2 + d /\ ns[b].to = i + 2 + 2 * d
    <3> DEFINE f == ns[b].from
               g == ns[b].to
    <3>1. /\ f \in Nat /\ g \in Nat /\ i \in Nat /\ d \in Nat /\ q \in Nat
          /\ f = q - d /\ g = q + d /\ f = i + 2
      BY <2>2, <2>3, <2>6, <2>7
    <3> HIDE DEF f, g
    <3>2. q = i + 2 + d
      BY <3>1
    <3>3. g = i + 2 + 2 * d
      BY <3>1, <3>2
    <3> QED
      BY <3>2, <3>3 DEF g
  <2>9. ns[c].from = i + 4 + 2 * d /\ n.to = i + 4 + 2 * d
    BY <2>1, <2>2, <2>3, <2>4, <2>5, <2>8
  <2>10. j = i + 2 * d + 5
    BY <2>2, <2>3, <2>9
  <2>11. ns[c].from = j - 1 /\ ns[b].to + 1 = j - 2
    BY <2>2, <2>3, <2>8, <2>9, <2>10
  <2> QED
    BY <2>7, <2>8, <2>9, <2>10, <2>11
<1>14. d \in 0..Len(ts)
  <2>1. d \in Nat /\ i \in Nat /\ ns[c].from \in 1..Len(ts) /\ ns[c].from = i + 4 + 2 * d
    BY <1>1, <1>8, <1>9, <1>13
  <2>2. ns[c].from <= Len(ts) /\ Len(ts) \in Nat
    BY <1>1, <2>1
  <2> HIDE DEF d, i, c
  <2> QED
    BY <2>1, <2>2
<1>15. DefinitionLine(d, i, j, ts)
  <2>1. ts[i] = "ID" /\ ts[i + 1] = "COLON" /\ ts[j - 2] = "ASSIGN" /\ ts[j - 1] \in Literals
    BY <1>7, <1>8, <1>13
  <2>2. ts[i + 2 + d] \in {"ID", "IDSTRING"}
    BY <1>10, <1>13 DEF Brackets
  <2>3. ASSUME NEW k \in 1..d
        PROVE  ts[i + 1 + k] = "OPENBRACK" /\ ts[i + 2 + d + k] = "CLOSEBRACK"
    <3> DEFINE m == d + 1 - k
    <3>1. m \in 1..d /\ i + 1 + k = q - m /\ i + 2 + d + k = q + k
      <4>1. i \in Nat /\ d \in Nat /\ q = i + 2 + d /\ k \in Int /\ 1 <= k /\ k <= d
        BY <1>1, <1>9, <1>13, <2>3
      <4> HIDE DEF d, i, q
      <4> QED
        BY <4>1
    <3> QED
      BY <1>10, <2>3, <3>1 DEF Brackets
  <2> QED
    BY <1>13, <2>1, <2>2, <2>3 DEF DefinitionLine
<1>16. TreeOf(p, ns) = DefinitionTree(d, i, j)
  BY <1>8, <1>11, <1>12, <1>13 DEF DefinitionTree
<1> QED
  BY <1>14, <1>15, <1>16

LEMMA RowAndOne ==
  ASSUME NEW m \in Nat, NEW f, f = [k \in 1..(m + 1) |-> f[k]]
  PROVE  f = [k \in 1..m |-> f[k]] \o <<f[m + 1]>>
<1> DEFINE S == {f[k] : k \in 1..(m + 1)}
           g == [k \in 1..m |-> f[k]]
<1>1. f \in Seq(S) /\ Len(f) = m + 1
  <2>1. f \in [1..(m + 1) -> S]
    OBVIOUS
  <2> HIDE DEF S
  <2> QED
    BY <2>1
<1>2. g \in Seq(S) /\ Len(g) = m /\ \A k \in 1..m : g[k] = f[k]
  <2>1. g \in [1..m -> S] /\ \A k \in 1..m : g[k] = f[k]
    OBVIOUS
  <2> HIDE DEF S, g
  <2> QED
    BY <2>1
<1>3. <<f[m + 1]>> \in Seq(S)
  <2>1. f[m + 1] \in S
    OBVIOUS
  <2> HIDE DEF S
  <2> QED
    BY <2>1
<1> HIDE DEF S, g
<1>4. /\ g \o <<f[m + 1]>> \in Seq(S) /\ Len(g \o <<f[m + 1]>>) = m + 1
      /\ \A k \in 1..(m + 1) : (g \o <<f[m + 1]>>)[k] = f[k]
  <2> DEFINE h == <<f[m + 1]>>
  <2>1. Len(h) = 1 /\ h[1] = f[m + 1] /\ h \in Seq(S)
    BY <1>3
  <2> HIDE DEF h
  <2>2. /\ g \o h \in Seq(S) /\ Len(g \o h) = m + 1
        /\ \A k \in 1..(m + 1) : (g \o h)[k] = IF k <= m THEN g[k] ELSE h[k - m]
    <3>1. /\ g \o h \in Seq(S) /\ Len(g \o h) = Len(g) + Len(h)
          /\ \A k \in 1..(Len(g) + Len(h)) :
               (g \o h)[k] = IF k <= Len(g) THEN g[k] ELSE h[k - Len(g)]
      BY <1>2, <2>1, ConcatProperties
    <3>2. Len(g) = m /\ Len(h) = 1
      BY <1>2, <2>1
    <3> QED
      BY <3>1, <3>2
  <2>3. ASSUME NEW k \in 1..(m + 1)
        PROVE  (g \o h)[k] = f[k]
    <3>1. CASE k <= m
      <4>1. k \in 1..m
        BY <3>1
      <4> QED
        BY <1>2, <2>2, <3>1, <4>1
    <3>2. CASE k = m + 1
      <4>1. m + 1 \in 1..(m + 1) /\ (m + 1) - m = 1 /\ ~(m + 1 <= m)
        OBVIOUS
      <4>2. (g \o h)[m + 1] = IF m + 1 <= m THEN g[m + 1] ELSE h[(m + 1) - m]
        BY <2>2, <4>1
      <4>3. (g \o h)[m + 1] = h[(m + 1) - m]
        BY <4>1, <4>2
      <4>4. (g \o h)[m + 1] = h[1]
        BY <4>1, <4>3
      <4>5. (g \o h)[m + 1] = f[m + 1]
        BY <2>1, <4>4
      <4> QED
        BY <3>2, <4>5
    <3>3. k <= m \/ k = m + 1
      <4> HIDE DEF g
      <4>1. k \in Int /\ m \in Int /\ k <= m + 1
        BY <2>3
      <4> QED
        BY <4>1
    <3> QED
      BY <3>1, <3>2, <3>3, Zenon
  <2> QED
    BY <2>2, <2>3 DEF h
<1>5. g \o <<f[m + 1]>> = f
  BY <1>1, <1>4, SeqEqual
<1> QED
  BY <1>5 DEF g

LEMMA KidsOfAssignment ==
  ASSUME NEW ts, NEW ns, HeapKnown(ts, ns), NEW p \in 1..Len(ns),
         ns[p].kind = "AssignmentStatement", NEW m \in Nat, Len(ns[p].kids) = m + 1
  PROVE  /\ \A k \in 1..(m + 1) : ns[p].kids[k] \in 1..Len(ns)
         /\ \A k \in 1..m : /\ ns[ns[p].kids[k]].kind = "Identifier"
                            /\ Behind(ns[p].kids[k], "ASSIGN", ts, ns)
         /\ ns[ns[p].kids[m + 1]].kind \in ExpressionKinds
         /\ ns[ns[p].kids[1]].from = ns[p].from
         /\ \A k \in 1..m : ns[ns[p].kids[k + 1]].from = ns[ns[p].kids[k]].to + 2
         /\ ns[ns[p].kids[m + 1]].to = ns[p].to
         /\ ns[p].token = 0
         /\ \A k \in 1..(m + 1) : ns[ns[p].kids[k]].from \in Nat /\ ns[ns[p].kids[k]].to \in Nat
<1> DEFINE n == ns[p]
           K == n.kids
<1>1. /\ Len(ts) \in Nat /\ Len(ns) \in Nat /\ Down(ns) /\ Known(n, ts, ns) /\ n.from \in Nat
      /\ n.to \in Nat /\ K \in Seq(Nat)
  BY KnownFacts
<1>2. Len(K) = m + 1 /\ n.kind = "AssignmentStatement" /\ Len(K) - 1 = m
  OBVIOUS
<1>3. \A k \in 1..(m + 1) : K[k] \in 1..Len(ns)
  BY <1>1, <1>2 DEF Known, Linked
<1>4. \A k \in 1..m : ns[K[k]].kind = "Identifier"
  BY <1>1, <1>2 DEF Known, NodeFine
<1>5. /\ n.token = 0 /\ ns[K[m + 1]].kind \in ExpressionKinds
      /\ \A k \in 1..m : Behind(K[k], "ASSIGN", ts, ns)
  BY <1>1, <1>2 DEF Known, NodeMade, IsExpression, NoToken
<1>6. TilesIn(n, 0, 1, 0, ns)
  BY <1>1, <1>2 DEF Known, CompleteIn
<1>7. ASSUME NEW k \in 1..(m + 1)
      PROVE  ns[K[k]].from \in Nat /\ ns[K[k]].to \in Nat
  <2>1. K[k] \in 1..Len(ns)
    BY <1>3
  <2> HIDE DEF n
  <2> QED
    BY <2>1, KnownFacts
<1>8. /\ ns[K[1]].from = n.from + 0 /\ ns[K[m + 1]].to + 0 = n.to
      /\ \A k \in 1..m : ns[K[k + 1]].from = ns[K[k]].to + 1 + 1
  BY <1>2, <1>6 DEF TilesIn
<1>9. ns[K[1]].from = n.from /\ ns[K[m + 1]].to = n.to
  <2>1. m + 1 \in 1..(m + 1)
    OBVIOUS
  <2>2. ns[K[m + 1]].to \in Nat
    BY <1>7, <2>1
  <2> HIDE DEF n, K
  <2> QED
    BY <1>1, <1>8, <2>2
<1>10. ASSUME NEW k \in 1..m
       PROVE  ns[K[k + 1]].from = ns[K[k]].to + 2
  <2>1. k \in 1..(m + 1)
    OBVIOUS
  <2>2. ns[K[k]].to \in Nat /\ ns[K[k + 1]].from = ns[K[k]].to + 1 + 1
    BY <1>7, <1>8, <2>1
  <2> HIDE DEF n, K
  <2> QED
    BY <2>2
<1> QED
  BY <1>3, <1>4, <1>5, <1>7, <1>9, <1>10

LEMMA SoundAssignment ==
  ASSUME NEW ts, NEW ns, HeapKnown(ts, ns), NEW p \in 1..Len(ns),
         ns[p].kind = "AssignmentStatement", Len(ns[p].kids) > 1
  PROVE  \E m \in 1..Len(ts) :
           /\ TargetsLine(m, ns[p].from, ns[p].to + 1, ts)
           /\ \E x : /\ Derives(x, 1, ns[p].from + 2 * m, ns[p].to, ts)
                     /\ TreeOf(p, ns) = AssignmentTree(m, x, ns[p].from)
<1> DEFINE n == ns[p]
           K == n.kids
           m == Len(K) - 1
           i == n.from
           x == TreeOf(K[m + 1], ns)
           f == [k \in DOMAIN K |-> TreeOf(K[k], ns)]
<1>1. /\ Len(ts) \in Nat /\ Len(ns) \in Nat /\ Down(ns) /\ Known(n, ts, ns) /\ i \in Nat
      /\ n.to \in Nat /\ K \in Seq(Nat)
  BY KnownFacts
<1>2. m \in Nat /\ Len(K) = m + 1 /\ m >= 1
  BY <1>1
<1> HIDE DEF m
<1>3. /\ \A k \in 1..(m + 1) : K[k] \in 1..Len(ns)
      /\ \A k \in 1..m : ns[K[k]].kind = "Identifier" /\ Behind(K[k], "ASSIGN", ts, ns)
      /\ ns[K[m + 1]].kind \in ExpressionKinds
      /\ ns[K[1]].from = i
      /\ \A k \in 1..m : ns[K[k + 1]].from = ns[K[k]].to + 2
      /\ ns[K[m + 1]].to = n.to
      /\ n.token = 0
      /\ \A k \in 1..(m + 1) : ns[K[k]].from \in Nat /\ ns[K[k]].to \in Nat
  BY <1>2, KidsOfAssignment
<1>4. \A k \in 1..m : /\ ns[K[k]].to = ns[K[k]].from /\ ts[ns[K[k]].from] = "ID"
                      /\ TreeOf(K[k], ns) = Tree("Identifier", ns[K[k]].from, <<>>)
                      /\ ts[ns[K[k]].from + 1] = "ASSIGN"
  <2> SUFFICES ASSUME NEW k \in 1..m
               PROVE  /\ ns[K[k]].to = ns[K[k]].from /\ ts[ns[K[k]].from] = "ID"
                      /\ TreeOf(K[k], ns) = Tree("Identifier", ns[K[k]].from, <<>>)
                      /\ ts[ns[K[k]].from + 1] = "ASSIGN"
    OBVIOUS
  <2> DEFINE a == K[k]
  <2>1. k \in 1..(m + 1)
    BY <1>2
  <2>2. a \in 1..Len(ns) /\ ns[a].kind = "Identifier" /\ Behind(a, "ASSIGN", ts, ns)
    BY <1>3, <2>1
  <2> HIDE DEF n, K, a
  <2>3. ns[a].to = ns[a].from /\ ts[ns[a].from] = "ID"
        /\ TreeOf(a, ns) = Tree(ns[a].kind, ns[a].from, <<>>)
    BY <2>2, LeafIs
  <2>4. ts[ns[a].to + 1] = "ASSIGN"
    BY <2>2 DEF Behind
  <2>5. /\ ns[a].to = ns[a].from /\ ts[ns[a].from] = "ID"
        /\ TreeOf(a, ns) = Tree("Identifier", ns[a].from, <<>>)
        /\ ts[ns[a].from + 1] = "ASSIGN"
    BY <2>2, <2>3, <2>4
  <2> QED
    BY <2>5 DEF a
<1>5. \A k \in Nat : k <= m => ns[K[k + 1]].from = i + 2 * k
  <2> DEFINE S == {k \in Nat : k <= m => ns[K[k + 1]].from = i + 2 * k}
  <2>1. 0 \in S
    <3>1. K[0 + 1] = K[1] /\ i + 2 * 0 = i
      BY <1>1
    <3> HIDE DEF n, K, i
    <3> QED
      BY <1>3, <3>1
  <2>2. ASSUME NEW k \in Nat, k \in S
        PROVE  k + 1 \in S
    <3>1. k + 1 \in Nat
      OBVIOUS
    <3>2. CASE k + 1 <= m
      <4>1. k <= m /\ k + 1 \in 1..m /\ k + 1 \in 1..(m + 1)
        BY <1>2, <3>2
      <4> DEFINE a == K[k + 1]
                 b == K[(k + 1) + 1]
      <4>2. ns[a].from = i + 2 * k
        BY <2>2, <4>1
      <4>3. ns[b].from = ns[a].to + 2 /\ ns[a].to = ns[a].from
        BY <1>3, <1>4, <4>1
      <4> HIDE DEF n, K, i, a, b
      <4>4. ns[b].from = i + 2 * (k + 1)
        BY <1>1, <4>2, <4>3
      <4> QED
        BY <3>1, <4>4 DEF b
    <3> QED
      BY <3>1, <3>2
  <2>3. \A k \in Nat : k \in S
    <3> HIDE DEF S
    <3> QED
      BY <2>1, <2>2, FromNumberToNext
  <2> QED
    BY <2>3
<1>6. \A k \in 1..m : ns[K[k]].from = i + 2 * k - 2
  <2> SUFFICES ASSUME NEW k \in 1..m
               PROVE  ns[K[k]].from = i + 2 * k - 2
    OBVIOUS
  <2>1. k \in Int /\ 1 <= k /\ k <= m
    BY <1>2
  <2>2. k - 1 \in Nat /\ k - 1 <= m /\ (k - 1) + 1 = k /\ i + 2 * (k - 1) = i + 2 * k - 2
    <3> HIDE DEF n, i, K
    <3> QED
      BY <1>1, <1>2, <2>1
  <2>3. ns[K[(k - 1) + 1]].from = i + 2 * (k - 1)
    BY <1>5, <2>2
  <2> HIDE DEF n, K, i
  <2> QED
    BY <2>2, <2>3
<1>7. ns[K[m + 1]].from = i + 2 * m
  BY <1>2, <1>5
<1>8. Derives(x, 1, i + 2 * m, n.to, ts)
  <2>1. K[m + 1] \in 1..Len(ns)
    BY <1>2, <1>3
  <2> DEFINE q == K[m + 1]
  <2>2. q \in 1..Len(ns) /\ ns[q].kind \in ExpressionKinds
    BY <1>3, <2>1
  <2>3. ns[q].from = i + 2 * m /\ ns[q].to = n.to
    BY <1>3, <1>7
  <2> HIDE DEF n, K, i, q
  <2>4. Derives(TreeOf(q, ns), TreeLevel(TreeOf(q, ns), ts), ns[q].from, ns[q].to, ts)
    BY <2>2, SoundExpressions DEF Sound
  <2>5. Derives(TreeOf(q, ns), 1, ns[q].from, ns[q].to, ts)
    <3> DEFINE t == TreeOf(q, ns)
               l == TreeLevel(t, ts)
               u == ns[q].from
               v == ns[q].to
    <3>1. Derives(t, l, u, v, ts)
      BY <2>4
    <3> HIDE DEF t, l, u, v
    <3>2. l \in 1..8
      BY <1>1, <3>1, DerivesFacts
    <3>3. 1 \in 1..8 /\ 1 <= l
      BY <3>2
    <3>4. Derives(t, 1, u, v, ts)
      BY <1>1, <3>1, <3>3, DerivesLooser
    <3> QED
      BY <3>4 DEF t, u, v
  <2> QED
    BY <2>3, <2>5 DEF q
<1>9. i + 2 * m \in 1..Len(ts) /\ n.to \in 1..Len(ts) /\ i + 2 * m <= n.to
  <2> HIDE DEF n, i, x
  <2> QED
    BY <1>1, <1>8, DerivesFacts
<1>10. m \in 1..Len(ts) /\ i + 2 * m < n.to + 1
  <2> HIDE DEF n, i
  <2> QED
    BY <1>1, <1>2, <1>9
<1>11. TargetsLine(m, i, n.to + 1, ts)
  <2> SUFFICES ASSUME NEW k \in 1..m
               PROVE  ts[i + 2 * k - 2] = "ID" /\ ts[i + 2 * k - 1] = "ASSIGN"
    BY <1>10 DEF TargetsLine
  <2>1. ts[ns[K[k]].from] = "ID" /\ ts[ns[K[k]].from + 1] = "ASSIGN"
        /\ ns[K[k]].from = i + 2 * k - 2
    BY <1>4, <1>6
  <2>2. (i + 2 * k - 2) + 1 = i + 2 * k - 1
    <3>1. k \in Int
      OBVIOUS
    <3> HIDE DEF n, i
    <3> QED
      BY <1>1, <3>1
  <2> HIDE DEF n, K, i
  <2> QED
    BY <2>1, <2>2
<1>12. TreeOf(p, ns) = AssignmentTree(m, x, i)
  <2>1. TreeOf(p, ns) = Tree("AssignmentStatement", 0, f)
    <3>1. TreeOf(p, ns) = Tree(n.kind, n.token, f)
      BY <1>1, TreeOfNode
    <3> QED
      BY <1>3, <3>1
  <2>2. f = [k \in 1..(m + 1) |-> f[k]] /\ f[m + 1] = x
    BY <1>1, <1>2
  <2>3. f = [k \in 1..m |-> f[k]] \o <<f[m + 1]>>
    <3> HIDE DEF f
    <3> QED
      BY <1>2, <2>2, RowAndOne
  <2>4. [k \in 1..m |-> f[k]] = TargetTrees(m, i)
    <3>1. ASSUME NEW k \in 1..m
          PROVE  f[k] = Tree("Identifier", i + 2 * k - 2, <<>>)
      <4>1. k \in DOMAIN K
        BY <1>1, <1>2
      <4>2. f[k] = TreeOf(K[k], ns)
        BY <4>1
      <4>3. TreeOf(K[k], ns) = Tree("Identifier", ns[K[k]].from, <<>>)
        BY <1>4
      <4>4. ns[K[k]].from = i + 2 * k - 2
        BY <1>6
      <4> QED
        BY <4>2, <4>3, <4>4
    <3> HIDE DEF f, i
    <3> QED
      BY <3>1 DEF TargetTrees
  <2> HIDE DEF f, x, n, i
  <2>5. f = TargetTrees(m, i) \o <<x>>
    BY <2>2, <2>3, <2>4
  <2> QED
    BY <2>1, <2>5 DEF AssignmentTree
<1> QED
  BY <1>8, <1>10, <1>11, <1>12

----------------------------------------------------------------------------
(* What an accepted stream is: its lines are those of the grammar.         *)

LineEnd(p, ns) == ns[p].to + 1

IsDefinition(p, ns) == ns[p].kind = "VariableDefinition"

LinesRead(K, ts, ns) ==
  /\ HeapKnown(ts, ns) /\ K \in Seq(Nat) /\ K # <<>> /\ Sorted(K, ns)
  /\ \A k \in 1..Len(K) : K[k] \in 1..Len(ns) /\ IsChild(ns[K[k]], ts)
  /\ ns[K[1]].from = 1 /\ LineEnd(K[Len(K)], ns) = Len(ts)
  /\ \A k \in 1..(Len(K) - 1) : ns[K[k + 1]].from = LineEnd(K[k], ns) + 1

LEMMA LineIs ==
  ASSUME NEW ts, NEW ns, HeapKnown(ts, ns), NEW p \in 1..Len(ns), IsChild(ns[p], ts),
         LineEnd(p, ns) <= Len(ts)
  PROVE  /\ Len(ts) \in Nat /\ LineEnd(p, ns) \in NewLines(ts)
         /\ ns[p].from \in 1..Len(ts) /\ ns[p].from < LineEnd(p, ns)
         /\ Unbroken(ns[p].from, LineEnd(p, ns), ts)
         /\ IsDefinition(p, ns) =>
              TreeOf(p, ns) \in DefinitionTrees(ns[p].from, LineEnd(p, ns), ts)
         /\ ~IsDefinition(p, ns) =>
              TreeOf(p, ns) \in AssignmentTrees(ns[p].from, LineEnd(p, ns), ts)
<1> DEFINE n == ns[p]
           i == n.from
           j == n.to + 1
<1>1. /\ Len(ts) \in Nat /\ Known(n, ts, ns) /\ i \in Nat /\ n.to \in Nat /\ n.kids \in Seq(Nat)
      /\ ts \in Seq(TokenTypes)
  BY KnownFacts
<1>2. /\ n.kind \in {"VariableDefinition", "AssignmentStatement"} /\ ts[j] = "NEWLINE"
      /\ n.kind = "AssignmentStatement" => Len(n.kids) > 1
  BY DEF IsChild
<1>3. i \in 1..Len(ts)
  BY <1>1, <1>2 DEF Known, NodeFine
<1>4. LineEnd(p, ns) = j /\ j \in Nat
  BY <1>1 DEF LineEnd
<1>5. i \in 1..Len(ts) /\ j \in 1..Len(ts) /\ j \in NewLines(ts)
  <2>1. j \in 1..Len(ts)
    BY <1>1, <1>4
  <2> QED
    BY <1>2, <1>3, <2>1 DEF NewLines
<1>6. CASE n.kind = "VariableDefinition"
  <2>1. n.token = NoToken
    BY <1>1, <1>6 DEF Known, NodeMade, TypedMade
  <2>2. PICK d \in 0..Len(ts) : DefinitionLine(d, i, j, ts) /\ TreeOf(p, ns) = DefinitionTree(d, i, j)
    BY <1>6, <2>1, SoundDefinition
  <2> HIDE DEF i, j, n
  <2>3. TreeOf(p, ns) \in DefinitionTrees(i, j, ts)
    BY <2>2, DefinitionMembers
  <2>4. d \in Nat
    OBVIOUS
  <2>5. Unbroken(i, j, ts) /\ i < j
    BY <1>1, <1>4, <2>2, <2>4, DefinitionUnbroken
  <2> QED
    BY <1>1, <1>4, <1>5, <1>6, <2>3, <2>5 DEF IsDefinition, n, i
<1>7. CASE n.kind = "AssignmentStatement"
  <2>1. Len(n.kids) > 1
    BY <1>2, <1>7
  <2>2. PICK m \in 1..Len(ts) : /\ TargetsLine(m, i, j, ts)
                                /\ \E x : /\ Derives(x, 1, i + 2 * m, n.to, ts)
                                          /\ TreeOf(p, ns) = AssignmentTree(m, x, i)
    BY <1>7, <2>1, SoundAssignment
  <2>3. PICK x : Derives(x, 1, i + 2 * m, n.to, ts) /\ TreeOf(p, ns) = AssignmentTree(m, x, i)
    BY <2>2
  <2>4. n.to = j - 1
    BY <1>1
  <2> HIDE DEF i, j, n
  <2>5. Derives(x, 1, i + 2 * m, j - 1, ts)
    BY <2>3, <2>4
  <2>6. TreeOf(p, ns) \in AssignmentTrees(i, j, ts)
    BY <1>1, <1>5, <2>2, <2>3, <2>5, AssignmentMembers
  <2>7. m \in Nat
    OBVIOUS
  <2>8. Unbroken(i, j, ts) /\ i < j
    BY <1>1, <1>4, <2>2, <2>5, <2>7, AssignmentUnbroken
  <2> QED
    BY <1>1, <1>4, <1>5, <1>7, <2>6, <2>8 DEF IsDefinition, n, i
<1> QED
  BY <1>2, <1>6, <1>7

LEMMA LinesAre ==
  ASSUME NEW ts, NEW ns, NEW K, LinesRead(K, ts, ns), NEW k \in 1..Len(K)
  PROVE  /\ K[k] \in 1..Len(ns) /\ IsChild(ns[K[k]], ts) /\ LineEnd(K[k], ns) <= Len(ts)
         /\ LineEnd(K[k], ns) \in NewLines(ts)
         /\ Unbroken(ns[K[k]].from, LineEnd(K[k], ns), ts)
         /\ ns[K[k]].from \in 1..Len(ts) /\ ns[K[k]].from < LineEnd(K[k], ns)
         /\ Len(ts) \in Nat
<1>1. K \in Seq(Nat) /\ HeapKnown(ts, ns)
  BY DEF LinesRead
<1>2. ASSUME NEW q \in 1..Len(K)
      PROVE  K[q] \in 1..Len(ns) /\ IsChild(ns[K[q]], ts)
             /\ ns[K[q]].from \in Nat /\ ns[K[q]].to \in Nat /\ ns[K[q]].from \in 1..Len(ts)
             /\ Len(ts) \in Nat
  <2>1. K[q] \in 1..Len(ns) /\ IsChild(ns[K[q]], ts)
    BY DEF LinesRead
  <2>2. Known(ns[K[q]], ts, ns) /\ ns[K[q]].from \in Nat /\ ns[K[q]].to \in Nat
        /\ Len(ts) \in Nat
    BY <1>1, <2>1, KnownFacts
  <2>3. ns[K[q]].from \in 1..Len(ts)
    BY <2>1, <2>2 DEF Known, NodeFine, IsChild
  <2> QED
    BY <2>1, <2>2, <2>3
<1>3. LineEnd(K[k], ns) <= Len(ts)
  <2>1. CASE k = Len(K)
    <3>1. LineEnd(K[k], ns) = Len(ts) /\ Len(ts) \in Nat
      BY <1>2, <2>1 DEF LinesRead
    <3> QED
      BY <3>1
  <2>2. CASE k # Len(K)
    <3>1. k \in 1..(Len(K) - 1) /\ k + 1 \in 1..Len(K)
      BY <1>1, <2>2
    <3>2. ns[K[k + 1]].from = LineEnd(K[k], ns) + 1
      BY <3>1 DEF LinesRead
    <3>3. ns[K[k + 1]].from \in 1..Len(ts) /\ LineEnd(K[k], ns) \in Nat /\ Len(ts) \in Nat
      BY <1>2, <3>1 DEF LineEnd
    <3> QED
      BY <3>2, <3>3
  <2> QED
    BY <2>1, <2>2
<1>4. K[k] \in 1..Len(ns) /\ IsChild(ns[K[k]], ts)
  BY <1>2
<1> DEFINE p == K[k]
<1> HIDE DEF p
<1>5. p \in 1..Len(ns) /\ IsChild(ns[p], ts) /\ LineEnd(p, ns) <= Len(ts)
  BY <1>3, <1>4 DEF p
<1>6. /\ LineEnd(p, ns) \in NewLines(ts) /\ Unbroken(ns[p].from, LineEnd(p, ns), ts)
      /\ ns[p].from \in 1..Len(ts) /\ ns[p].from < LineEnd(p, ns) /\ Len(ts) \in Nat
  BY <1>1, <1>5, LineIs
<1> QED
  BY <1>5, <1>6 DEF p

(* What the lines up to the k-th make of the stream.                       *)
ReadTo(k, last, K, ts, ns) ==
  /\ last \in NewLines(ts) \cup {0} /\ last <= LineEnd(K[k], ns)
  /\ IsDefinition(K[k], ns) => last = LineEnd(K[k], ns)
  /\ \A q \in 1..k : /\ LineEnd(K[q], ns) <= LineEnd(K[k], ns)
                     /\ LineEnd(K[q], ns) <= last <=> IsDefinition(K[q], ns)
  /\ \A j \in NewLines(ts) : j <= LineEnd(K[k], ns) => \E q \in 1..k : j = LineEnd(K[q], ns)

LEMMA FirstLine ==
  ASSUME NEW ts, NEW ns, NEW K, LinesRead(K, ts, ns)
  PROVE  \E last : ReadTo(1, last, K, ts, ns)
<1> DEFINE e == LineEnd(K[1], ns)
           last == IF IsDefinition(K[1], ns) THEN e ELSE 0
<1>1. 1 \in 1..Len(K) /\ ns[K[1]].from = 1
  BY DEF LinesRead
<1>2. e \in NewLines(ts) /\ Unbroken(1, e, ts) /\ 1 < e /\ Len(ts) \in Nat
  BY <1>1, LinesAre
<1>3. e \in Nat /\ NewLines(ts) \subseteq Nat
  BY <1>2 DEF NewLines
<1>4. \A q \in 1..1 : q = 1
  OBVIOUS
<1>5. ASSUME NEW j \in NewLines(ts), j <= e
      PROVE  j = e
  <2>1. j \in Nat /\ 1 <= j /\ ts[j] = "NEWLINE"
    BY <1>2 DEF NewLines
  <2> HIDE DEF e
  <2>2. j < e => j \in 1..(e - 1)
    BY <1>3, <2>1
  <2>3. ~(j < e)
    BY <1>2, <2>1, <2>2 DEF Unbroken
  <2> QED
    BY <1>3, <1>5, <2>1, <2>3
<1>6. /\ last \in NewLines(ts) \cup {0} /\ last <= e /\ (IsDefinition(K[1], ns) => last = e)
      /\ e <= last <=> IsDefinition(K[1], ns)
  <2> HIDE DEF e
  <2> QED
    BY <1>2, <1>3
<1>7. e <= e /\ 1 \in 1..1
  BY <1>3
<1>8. ReadTo(1, last, K, ts, ns)
  <2> HIDE DEF last
  <2>1. \A q \in 1..1 : LineEnd(K[q], ns) = e /\ (IsDefinition(K[q], ns) <=> IsDefinition(K[1], ns))
    BY <1>4
  <2>2. \A j \in NewLines(ts) : j <= e => \E q \in 1..1 : j = LineEnd(K[q], ns)
    BY <1>5, <1>7, <2>1
  <2> HIDE DEF e
  <2>3. \A q \in 1..1 : LineEnd(K[q], ns) <= e /\ (LineEnd(K[q], ns) <= last <=> IsDefinition(K[q], ns))
    BY <1>6, <1>7, <2>1
  <2> QED
    BY <1>6, <2>2, <2>3 DEF ReadTo, e
<1> QED
  BY <1>8

LEMMA NextLineRead ==
  ASSUME NEW ts, NEW ns, NEW K, LinesRead(K, ts, ns), NEW k \in 1..(Len(K) - 1),
         NEW last, ReadTo(k, last, K, ts, ns)
  PROVE  \E last2 : ReadTo(k + 1, last2, K, ts, ns)
<1> DEFINE a == LineEnd(K[k], ns)
           e == LineEnd(K[k + 1], ns)
           last2 == IF IsDefinition(K[k + 1], ns) THEN e ELSE last
<1>1. K \in Seq(Nat) /\ k \in 1..Len(K) /\ k + 1 \in 1..Len(K) /\ k \in Nat
  BY DEF LinesRead
<1>2. ns[K[k + 1]].from = a + 1
  BY DEF LinesRead
<1>3. a \in NewLines(ts) /\ e \in NewLines(ts) /\ Unbroken(a + 1, e, ts) /\ a + 1 < e /\ Len(ts) \in Nat
  BY <1>1, <1>2, LinesAre
<1>4. a \in Nat /\ e \in Nat /\ NewLines(ts) \subseteq Nat /\ last \in Nat
  BY <1>3 DEF NewLines, ReadTo
<1>5. IsDefinition(K[k + 1], ns) => IsDefinition(K[k], ns)
  <2>1. Sorted(K, ns)
    BY DEF LinesRead
  <2>2. k + 1 > 1 /\ (k + 1) - 1 = k
    BY <1>1
  <2> QED
    BY <1>1, <2>1, <2>2 DEF Sorted, IsDefinition
<1>6. last <= a /\ (IsDefinition(K[k], ns) => last = a) /\ last \in NewLines(ts) \cup {0}
  BY DEF ReadTo
<1>7. \A q \in 1..(k + 1) : q \in 1..k \/ q = k + 1
  BY <1>1
<1>8. \A q \in 1..k : LineEnd(K[q], ns) <= a /\ (LineEnd(K[q], ns) <= last <=> IsDefinition(K[q], ns))
  BY DEF ReadTo
<1>9. \A q \in 1..k : LineEnd(K[q], ns) \in Nat
  <2> SUFFICES ASSUME NEW q \in 1..k PROVE LineEnd(K[q], ns) \in Nat
    OBVIOUS
  <2>1. q \in 1..Len(K)
    BY <1>1
  <2> QED
    BY <2>1, <1>4, LinesAre
<1> HIDE DEF a, e
<1>10. last2 \in NewLines(ts) \cup {0} /\ last2 <= e /\ (IsDefinition(K[k + 1], ns) => last2 = e)
       /\ (e <= last2 <=> IsDefinition(K[k + 1], ns))
  BY <1>3, <1>4, <1>6
<1>11. ASSUME NEW q \in 1..k
       PROVE  LineEnd(K[q], ns) <= e /\ (LineEnd(K[q], ns) <= last2 <=> IsDefinition(K[q], ns))
  <2> DEFINE g == LineEnd(K[q], ns)
  <2>1. g \in Nat /\ g <= a /\ (g <= last <=> IsDefinition(K[q], ns))
    BY <1>8, <1>9
  <2> HIDE DEF g
  <2>2. g <= e
    BY <1>3, <1>4, <2>1
  <2>3. g <= e /\ (g <= last2 <=> IsDefinition(K[q], ns))
    <3>1. CASE IsDefinition(K[k + 1], ns)
      <4>1. last2 = e /\ last = a
        BY <1>5, <1>6, <3>1
      <4>2. IsDefinition(K[q], ns)
        BY <2>1, <4>1
      <4> HIDE DEF last2
      <4> QED
        BY <2>2, <4>1, <4>2
    <3>2. CASE ~IsDefinition(K[k + 1], ns)
      <4>1. last2 = last
        BY <3>2
      <4> HIDE DEF last2
      <4> QED
        BY <2>1, <2>2, <4>1
    <3> QED
      BY <3>1, <3>2
  <2> QED
    BY <2>3 DEF g
<1>12. ASSUME NEW j \in NewLines(ts), j <= e
       PROVE  \E q \in 1..(k + 1) : j = LineEnd(K[q], ns)
  <2>1. j \in Nat /\ ts[j] = "NEWLINE"
    BY <1>3 DEF NewLines
  <2>2. CASE j <= a
    <3>1. \E q \in 1..k : j = LineEnd(K[q], ns)
      BY <2>2 DEF ReadTo, a
    <3>2. \A q \in 1..k : q \in 1..(k + 1)
      BY <1>1
    <3> QED
      BY <3>1, <3>2
  <2>3. CASE ~(j <= a)
    <3>1. j < e => j \in (a + 1)..(e - 1)
      BY <1>4, <2>1, <2>3
    <3>2. ~(j < e)
      BY <1>3, <2>1, <3>1 DEF Unbroken
    <3>3. j = e
      BY <1>4, <1>12, <2>1, <3>2
    <3>4. k + 1 \in 1..(k + 1)
      BY <1>1
    <3> QED
      BY <3>3, <3>4 DEF e
  <2> QED
    BY <2>2, <2>3
<1>13. ReadTo(k + 1, last2, K, ts, ns)
  <2> HIDE DEF last2
  <2>1. \A q \in 1..(k + 1) :
          /\ LineEnd(K[q], ns) <= e
          /\ LineEnd(K[q], ns) <= last2 <=> IsDefinition(K[q], ns)
    <3>1. e <= e
      BY <1>4
    <3> QED
      BY <1>7, <1>10, <1>11, <3>1 DEF e
  <2> QED
    BY <1>10, <1>12, <2>1 DEF ReadTo, e
<1> QED
  BY <1>13

(* The stream is a sentence: definitions up to last, then assignments.     *)
LineTrees(j, last, ts) ==
  IF j <= last THEN DefinitionTrees(LineStart(j, ts), j, ts)
  ELSE AssignmentTrees(LineStart(j, ts), j, ts)

Sentence(last, tree, ts) ==
  /\ ts # <<>> => Len(ts) \in NewLines(ts)
  /\ last \in NewLines(ts) \cup {0}
  /\ \A j \in NewLines(ts) : tree[j] \in LineTrees(j, last, ts)

LEMMA ReadToTheEnd ==
  ASSUME NEW ts, NEW ns, NEW K, LinesRead(K, ts, ns)
  PROVE  \E last : ReadTo(Len(K), last, K, ts, ns)
<1> DEFINE S == {k \in Nat : k + 1 <= Len(K) => \E last : ReadTo(k + 1, last, K, ts, ns)}
<1>1. K \in Seq(Nat) /\ K # <<>> /\ Len(K) \in Nat /\ Len(K) > 0
  BY DEF LinesRead
<1>2. 0 \in S
  <2>1. 0 + 1 = 1
    OBVIOUS
  <2> QED
    BY <2>1, FirstLine
<1>3. ASSUME NEW k \in Nat, k \in S
      PROVE  k + 1 \in S
  <2>1. CASE (k + 1) + 1 <= Len(K)
    <3>1. k + 1 <= Len(K) /\ k + 1 \in 1..(Len(K) - 1)
      BY <1>1, <2>1
    <3>2. PICK last : ReadTo(k + 1, last, K, ts, ns)
      BY <1>3, <3>1
    <3> DEFINE k1 == k + 1
    <3>3. k1 \in 1..(Len(K) - 1) /\ ReadTo(k1, last, K, ts, ns)
      BY <3>1, <3>2
    <3> HIDE DEF k1
    <3>4. \E last2 : ReadTo(k1 + 1, last2, K, ts, ns)
      BY <3>3, NextLineRead
    <3> QED
      BY <3>4 DEF k1
  <2>2. CASE ~((k + 1) + 1 <= Len(K))
    BY <2>2
  <2> QED
    BY <2>1, <2>2
<1>4. \A k \in Nat : k \in S
  <2> HIDE DEF S
  <2> QED
    BY <1>2, <1>3, FromNumberToNext
<1>5. Len(K) - 1 \in Nat /\ (Len(K) - 1) + 1 = Len(K)
  BY <1>1
<1>6. Len(K) - 1 \in S
  BY <1>4, <1>5
<1> QED
  BY <1>1, <1>5, <1>6

LEMMA LineStarts ==
  ASSUME NEW ts, NEW ns, NEW K, LinesRead(K, ts, ns), NEW k \in 1..Len(K)
  PROVE  LineStart(LineEnd(K[k], ns), ts) = ns[K[k]].from
<1> DEFINE i == ns[K[k]].from
           j == LineEnd(K[k], ns)
<1>1. j \in NewLines(ts) /\ Unbroken(i, j, ts) /\ i \in 1..Len(ts) /\ i < j /\ Len(ts) \in Nat
  BY LinesAre
<1>2. i = 1 \/ i - 1 \in NewLines(ts)
  <2>1. CASE k = 1
    BY <2>1 DEF LinesRead
  <2>2. CASE k # 1
    <3>1. K \in Seq(Nat) /\ k - 1 \in 1..Len(K) /\ k - 1 \in 1..(Len(K) - 1) /\ (k - 1) + 1 = k
      BY <2>2 DEF LinesRead
    <3>2. ns[K[(k - 1) + 1]].from = LineEnd(K[k - 1], ns) + 1
      BY <3>1 DEF LinesRead
    <3>3. LineEnd(K[k - 1], ns) \in NewLines(ts)
      BY <3>1, LinesAre
    <3>4. LineEnd(K[k - 1], ns) \in Nat
      BY <1>1, <3>3 DEF NewLines
    <3>5. i = LineEnd(K[k - 1], ns) + 1
      BY <3>1, <3>2
    <3> HIDE DEF i
    <3>6. i - 1 = LineEnd(K[k - 1], ns)
      BY <3>4, <3>5
    <3> QED
      BY <3>3, <3>6
  <2> QED
    BY <2>1, <2>2
<1> HIDE DEF i, j
<1>3. j \in Nat /\ 1 <= i /\ i <= j /\ i \in Nat
  BY <1>1 DEF NewLines
<1>4. LineStart(j, ts) = i
  BY <1>1, <1>2, <1>3, LineStartIs
<1> QED
  BY <1>4 DEF i, j

(* Every accepted stream is a sentence, and its lines' trees are of the    *)
(* grammar.                                                                *)
LEMMA ReadIsSentence ==
  ASSUME NEW ts, NEW ns, NEW K, LinesRead(K, ts, ns)
  PROVE  \E last, tree :
           /\ Sentence(last, tree, ts)
           /\ \A k \in 1..Len(K) : TreeOf(K[k], ns) \in LineTrees(LineEnd(K[k], ns), last, ts)
<1>1. PICK last : ReadTo(Len(K), last, K, ts, ns)
  BY ReadToTheEnd
<1>2. K \in Seq(Nat) /\ K # <<>> /\ Len(K) \in Nat /\ Len(K) \in 1..Len(K)
      /\ LineEnd(K[Len(K)], ns) = Len(ts)
  BY DEF LinesRead
<1>3. ASSUME NEW k \in 1..Len(K)
      PROVE  TreeOf(K[k], ns) \in LineTrees(LineEnd(K[k], ns), last, ts)
  <2> DEFINE p == K[k]
  <2>1. p \in 1..Len(ns) /\ IsChild(ns[p], ts) /\ LineEnd(p, ns) <= Len(ts) /\ HeapKnown(ts, ns)
    BY LinesAre DEF LinesRead
  <2>2. LineStart(LineEnd(p, ns), ts) = ns[p].from
    BY LineStarts
  <2>3. LineEnd(p, ns) <= last <=> IsDefinition(p, ns)
    BY <1>1 DEF ReadTo
  <2> HIDE DEF p
  <2>4. /\ IsDefinition(p, ns) => TreeOf(p, ns) \in DefinitionTrees(ns[p].from, LineEnd(p, ns), ts)
        /\ ~IsDefinition(p, ns) => TreeOf(p, ns) \in AssignmentTrees(ns[p].from, LineEnd(p, ns), ts)
    BY <2>1, LineIs
  <2>5. TreeOf(p, ns) \in LineTrees(LineEnd(p, ns), last, ts)
    BY <2>2, <2>3, <2>4 DEF LineTrees
  <2> QED
    BY <2>5 DEF p
<1>4. Len(ts) \in NewLines(ts)
  BY <1>2, LinesAre
<1> DEFINE tree == [j \in NewLines(ts) |-> CHOOSE t : t \in LineTrees(j, last, ts)]
<1>5. ASSUME NEW j \in NewLines(ts)
      PROVE  tree[j] \in LineTrees(j, last, ts)
  <2>1. j <= LineEnd(K[Len(K)], ns)
    <3>1. Len(ts) \in Nat /\ j \in 1..Len(ts)
      BY <1>2, LinesAre DEF NewLines
    <3> QED
      BY <1>2, <3>1
  <2>2. PICK q \in 1..Len(K) : j = LineEnd(K[q], ns)
    BY <1>1, <2>1 DEF ReadTo
  <2>3. TreeOf(K[q], ns) \in LineTrees(j, last, ts)
    BY <1>3, <2>2
  <2>4. tree[j] = CHOOSE t : t \in LineTrees(j, last, ts)
    OBVIOUS
  <2> HIDE DEF tree
  <2> QED
    BY <2>3, <2>4, Zenon
<1>6. last \in NewLines(ts) \cup {0}
  BY <1>1 DEF ReadTo
<1>7. Sentence(last, tree, ts)
  <2> HIDE DEF tree
  <2> QED
    BY <1>4, <1>5, <1>6 DEF Sentence
<1> QED
  BY <1>3, <1>7

LEMMA AcceptedIsRead ==
  ASSUME IInv, CInv, MInv, BInv, Accepted, ~HasHole, toks # <<>>
  PROVE  LinesRead(nodes[result].kids, toks, nodes)
<1> DEFINE n == nodes[result]
           K == n.kids
<1>1. HeapKnown(toks, nodes)
  BY HeapIsKnown
<1>2. stack = <<>> /\ result # Null /\ result \in 1..Len(nodes) /\ nodes \in Seq(Node)
  BY ResultFacts DEF Accepted, Done, IInv, TypeOK
<1>3. /\ n.kind = "Program" /\ n.from = 1 /\ n.to = Len(toks)
      /\ \A k \in 1..Len(K) : IsChild(nodes[K[k]], toks)
      /\ Sorted(K, nodes)
  BY <1>2 DEF CInv, Root
<1>4. Known(n, toks, nodes) /\ K \in Seq(Nat) /\ Len(toks) \in Nat
  BY <1>1, <1>2, KnownFacts
<1>5. TilesIn(n, 0, 1, 1, nodes)
  BY <1>3, <1>4 DEF Known, CompleteIn
<1>6. \A k \in 1..Len(K) : K[k] \in 1..Len(nodes)
  BY <1>3, <1>4 DEF Known, Linked
<1>7. /\ K # <<>> /\ nodes[K[1]].from = n.from + 0
      /\ nodes[K[Len(K)]].to + 1 = n.to
      /\ \A k \in 1..(Len(K) - 1) : nodes[K[k + 1]].from = nodes[K[k]].to + 1 + 1
  BY <1>5 DEF TilesIn
<1>8. nodes[K[1]].from = 1
  BY <1>3, <1>7
<1> HIDE DEF n, K
<1> QED
  BY <1>1, <1>3, <1>4, <1>6, <1>7, <1>8 DEF LinesRead, LineEnd, n, K

LEMMA AcceptedNothing ==
  ASSUME IInv, CInv, MInv, BInv, Accepted, ~HasHole, toks = <<>>
  PROVE  nodes[result].kids = <<>> /\ \E last, tree : Sentence(last, tree, toks)
<1> DEFINE n == nodes[result]
           K == n.kids
<1>1. HeapKnown(toks, nodes)
  BY HeapIsKnown
<1>2. stack = <<>> /\ result # Null /\ result \in 1..Len(nodes) /\ nodes \in Seq(Node)
  BY ResultFacts DEF Accepted, Done, IInv, TypeOK
<1>3. /\ n.kind = "Program"
      /\ \A k \in 1..Len(K) : IsChild(nodes[K[k]], toks)
  BY <1>2 DEF CInv, Root
<1>4. Known(n, toks, nodes) /\ K \in Seq(Nat) /\ Len(toks) \in Nat
  BY <1>1, <1>2, KnownFacts
<1>5. K = <<>>
  <2> SUFFICES ASSUME K # <<>> PROVE FALSE
    OBVIOUS
  <2>1. 1 \in 1..Len(K)
    BY <1>4
  <2>2. K[1] \in 1..Len(nodes) /\ IsChild(nodes[K[1]], toks)
    BY <1>3, <1>4, <2>1 DEF Known, Linked
  <2>3. Known(nodes[K[1]], toks, nodes)
    BY <1>1, <2>2, KnownFacts
  <2>4. nodes[K[1]].from \in 1..Len(toks)
    BY <2>2, <2>3 DEF Known, NodeFine, IsChild
  <2> QED
    BY <2>4
<1>6. NewLines(toks) = {}
  BY DEF NewLines
<1>7. Sentence(0, <<>>, toks)
  BY <1>6 DEF Sentence
<1> QED
  BY <1>5, <1>7

(* A stream is grammatical if it is a sentence with some choice of trees.  *)
LEMMA GrammaticalIsSentence ==
  Grammatical <=> \E last, tree : Sentence(last, tree, toks)
<1>1. ASSUME NEW last, NEW tree, Sentence(last, tree, toks)
      PROVE  Grammatical
  <2>1. \A j \in NewLines(toks) :
          IF j <= last THEN DefinitionTrees(LineStart(j, toks), j, toks) # {}
          ELSE AssignmentTrees(LineStart(j, toks), j, toks) # {}
    BY <1>1 DEF Sentence, LineTrees
  <2> QED
    BY <1>1, <2>1 DEF Sentence, Grammatical
<1>2. ASSUME Grammatical
      PROVE  \E last, tree : Sentence(last, tree, toks)
  <2>1. PICK last \in NewLines(toks) \cup {0} : \A j \in NewLines(toks) :
          IF j <= last THEN DefinitionTrees(LineStart(j, toks), j, toks) # {}
          ELSE AssignmentTrees(LineStart(j, toks), j, toks) # {}
    BY <1>2 DEF Grammatical
  <2> DEFINE tree == [j \in NewLines(toks) |-> CHOOSE t : t \in LineTrees(j, last, toks)]
  <2>2. ASSUME NEW j \in NewLines(toks)
        PROVE  tree[j] \in LineTrees(j, last, toks)
    <3>1. LineTrees(j, last, toks) # {}
      BY <2>1 DEF LineTrees
    <3>2. \E t : t \in LineTrees(j, last, toks)
      BY <3>1
    <3>3. tree[j] = CHOOSE t : t \in LineTrees(j, last, toks)
      OBVIOUS
    <3> HIDE DEF tree
    <3> QED
      BY <3>2, <3>3, Zenon
  <2>3. Sentence(last, tree, toks)
    <3> HIDE DEF tree
    <3> QED
      BY <1>2, <2>2 DEF Sentence, Grammatical
  <2> QED
    BY <2>3
<1> QED
  BY <1>1, <1>2

----------------------------------------------------------------------------
(***************************************************************************)
(* How a sentence is accepted: with a tree for each of its lines, every    *)
(* activation has a goal, the tree of the tokens behind b up to e, and the *)
(* tree's parts are the goals of those it calls.  n is the dimension of a  *)
(* type or the number of targets, x the expression of an assignment.       *)
(***************************************************************************)

Goal(tree, b, e, n, x) == [tree |-> tree, b |-> b, e |-> e, n |-> n, x |-> x]

NameTree(i) == Tree("Identifier", i, <<>>)
TypeTree(i) == Tree("Type", i, <<>>)
LiteralTree(i) == Tree("Literal", i, <<>>)
TypedTree(d, i) == Tree("TypedVariable", 0, <<NameTree(i), TypeTree(i + 2 + d)>>)

EndsAt(j, ts) == j \in 1..Len(ts) /\ ts[j] = "NEWLINE"

DefinitionGoal(G, ts) ==
  /\ G.b \in Nat /\ G.n \in Nat /\ EndsAt(G.e, ts)
  /\ DefinitionLine(G.n, G.b + 1, G.e, ts) /\ G.tree = DefinitionTree(G.n, G.b + 1, G.e)

TypeGoal(G, ts) ==
  /\ G.b \in Nat /\ G.n \in Nat /\ G.e = G.b + 2 * G.n + 1 /\ G.tree = TypeTree(G.b + G.n + 1)
  /\ \A k \in 1..G.n : ts[G.b + k] = "OPENBRACK" /\ ts[G.b + G.n + 1 + k] = "CLOSEBRACK"
  /\ ts[G.b + G.n + 1] \in {"ID", "IDSTRING"} /\ G.e \in 1..Len(ts)

TypedGoal(G, ts) ==
  /\ ts[G.b + 1] = "ID" /\ ts[G.b + 2] = "COLON" /\ G.b \in Nat
  /\ TypeGoal(Goal(TypeTree(G.b + 3 + G.n), G.b + 2, G.e, G.n, 0), ts)
  /\ G.tree = TypedTree(G.n, G.b + 1)

LiteralGoal(G, ts) ==
  /\ G.b \in Nat /\ G.e = G.b + 1 /\ G.e \in 1..Len(ts)
  /\ ts[G.e] \in Literals /\ G.tree = LiteralTree(G.e)

(* An assignment of x to n targets that ends before the NEWLINE at j.      *)
AssignmentIs(G, j, ts) ==
  /\ G.b \in Nat /\ G.n \in Nat /\ G.n >= 1 /\ EndsAt(j, ts)
  /\ TargetsLine(G.n, G.b + 1, j, ts) /\ Derives(G.x, 1, G.b + 1 + 2 * G.n, j - 1, ts)
  /\ G.tree = AssignmentTree(G.n, G.x, G.b + 1)

ExpressionGoal(G, min, ts) ==
  /\ G.b \in Nat /\ min \in Mins /\ Derives(G.tree, LevelOf(min), G.b + 1, G.e, ts)
  /\ Loose(TypeIn(ts, G.e + 1), min)

PrefixGoal(G, ts) ==
  /\ G.b \in Nat /\ PrefixTree(G.tree, G.b, G.e, ts)
  /\ G.tree.kind = "UnaryExpression" => Loose(TypeIn(ts, G.e + 1), TreePower(G.tree, ts))

(* Between the lines; C has the end of the last definition and the trees.  *)
LinePoint(p, ts) == p = 0 \/ p \in NewLines(ts)

LinesOf(own, C, ns) ==
  \A k \in 1..Len(own) : TreeOf(own[k], ns) = C.tree[LineEnd(own[k], ns)]

OnlyAssignments(p, C, ts) == \A j \in NewLines(ts) : j > p => j > C.last

TargetsOwned(own, b, ns) ==
  \A k \in 1..Len(own) : TreeOf(own[k], ns) = NameTree(b + 2 * k - 1)

(* Activation f, whose goal is G, is on its way at p.                      *)
Tracks(f, G, p, C, ts, ns) ==
  /\ f.at \in {"program", "statements"} => LinePoint(p, ts) /\ LinesOf(f.own, C, ns)
  /\ f.at = "statements" => OnlyAssignments(p, C, ts)
  /\ f.at = "definition" => p = G.b /\ DefinitionGoal(G, ts)
  /\ f.at = "typedVariable" => p = G.b /\ TypedGoal(G, ts)
  /\ f.at = "typedVariable.colon" =>
       p = G.b + 1 /\ TypedGoal(G, ts) /\ TreeOf(f.own[1], ns) = NameTree(G.b + 1)
  /\ f.at = "type" => p = G.b /\ TypeGoal(G, ts)
  /\ f.at = "literal" => p = G.b /\ LiteralGoal(G, ts)
  /\ f.at = "statement" => p = G.b /\ AssignmentIs(G, G.e, ts)
  /\ f.at = "assignment" =>
       /\ AssignmentIs(G, G.e + 1, ts) /\ G.e \in Nat
       /\ Len(f.own) <= G.n /\ p = G.b + 2 * Len(f.own) /\ TargetsOwned(f.own, G.b, ns)
  /\ f.at = "expression" => p = G.b /\ ExpressionGoal(G, f.min, ts)
  /\ f.at = "expression.operator" =>
       /\ ExpressionGoal(G, f.min, ts)
       /\ OnSpine(TreeOf(f.own[1], ns), p, G.tree, G.e, f.min, ts)
  /\ f.at = "prefix" => p = G.b /\ PrefixGoal(G, ts)

(* Activation f, whose goal is G, needs goal H of the one it has called.   *)
Expects(f, G, H, C, ts, ns) ==
  /\ f.at \in {"program.definition", "program.statement"} =>
       /\ LinesOf(f.own, C, ns)
       /\ H.e \in NewLines(ts) /\ H.tree = C.tree[H.e]
  /\ f.at = "program.statement" => OnlyAssignments(H.e, C, ts)
  /\ f.at = "definition.variable" =>
       DefinitionGoal(G, ts) /\ H.tree = TypedTree(G.n, G.b + 1) /\ H.e = G.e - 3
  /\ f.at = "definition.literal" =>
       /\ DefinitionGoal(G, ts) /\ H.tree = LiteralTree(G.e - 1) /\ H.e = G.e - 1
       /\ TreeOf(f.own[1], ns) = TypedTree(G.n, G.b + 1)
  /\ f.at = "typedVariable.type" =>
       /\ TypedGoal(G, ts) /\ H.tree = TypeTree(G.b + 3 + G.n) /\ H.e = G.e
       /\ TreeOf(f.own[1], ns) = NameTree(G.b + 1)
  /\ f.at = "type.bracket" =>
       TypeGoal(G, ts) /\ G.n >= 1 /\ H.tree = G.tree /\ H.e = G.e - 1
  /\ f.at = "statement.simple" =>
       AssignmentIs(G, G.e, ts) /\ H.tree = G.tree /\ H.e = G.e - 1
  /\ f.at = "assignment.expression" =>
       /\ AssignmentIs(G, G.e + 1, ts) /\ H.tree = G.x /\ H.e = G.e
       /\ Len(f.own) = G.n /\ TargetsOwned(f.own, G.b, ns)
  /\ f.at = "expression.prefix" =>
       ExpressionGoal(G, f.min, ts) /\ OnSpine(H.tree, H.e, G.tree, G.e, f.min, ts)
  /\ f.at = "expression.operand" =>
       /\ ExpressionGoal(G, f.min, ts)
       /\ OnSpine(Tree("BinaryExpression", f.token, <<TreeOf(f.own[1], ns), H.tree>>), H.e,
                  G.tree, G.e, f.min, ts)
       /\ ts[f.token] \notin Logical =>
            ConstantTree(TreeOf(f.own[1], ns), ts) /\ ConstantTree(H.tree, ts)
  /\ f.at = "prefix.group" =>
       /\ G.tree = Tree("GroupingExpression", f.token, <<H.tree>>)
       /\ G.e \in 1..Len(ts) /\ ts[G.e] = "CLOSEPAREN" /\ H.e = G.e - 1
  /\ f.at = "prefix.unary" =>
       /\ G.tree = Tree("UnaryExpression", f.token, <<H.tree>>) /\ H.e = G.e
       /\ ts[f.token] = "MINUS" => ConstantTree(H.tree, ts)

(* Goal H has been reached at p with node r.                               *)
Met(H, p, r, ns) == r # Null /\ TreeOf(r, ns) = H.tree /\ p = H.e

FollowsPlan(S, pl, p, r, C, ts, ns) ==
  /\ S[1].at \notin CallPlaces => Tracks(S[1], pl[1], p, C, ts, ns)
  /\ S[1].at \in CallPlaces => \E H : Expects(S[1], pl[1], H, C, ts, ns) /\ Met(H, p, r, ns)
  /\ \A k \in 2..Len(S) : Expects(S[k], pl[k], pl[k - 1], C, ts, ns)

Followed(C) ==
  /\ diags = <<>> /\ ~HasHole
  /\ stack # <<>> => \E pl : FollowsPlan(stack, pl, pos, result, C, toks, nodes)
  /\ stack = <<>> => result # Null /\ LinesOf(nodes[result].kids, C, nodes)

Choice(last, tree) == [last |-> last, tree |-> tree]

TInv == \A last, tree : Sentence(last, tree, toks) => Followed(Choice(last, tree))

----------------------------------------------------------------------------
LEMMA GoalFields ==
  ASSUME NEW tree, NEW b, NEW e, NEW n, NEW x
  PROVE  /\ Goal(tree, b, e, n, x).tree = tree /\ Goal(tree, b, e, n, x).b = b
         /\ Goal(tree, b, e, n, x).e = e /\ Goal(tree, b, e, n, x).n = n
         /\ Goal(tree, b, e, n, x).x = x
BY DEF Goal

LEMMA ExpectsGrows ==
  ASSUME NEW ts, NEW ns, NEW ns2, Grows(ns, ns2), Down(ns2), NEW f \in Frame,
         FrameFine(f, ts, ns), NEW G, NEW H, NEW C, Expects(f, G, H, C, ts, ns)
  PROVE  Expects(f, G, H, C, ts, ns2)
<1>1. Len(ns) \in Nat /\ \A i \in 1..Len(f.own) : f.own[i] \in 1..Len(ns)
  BY DEF Grows, FrameFine
<1>2. \A i \in 1..Len(f.own) : TreeOf(f.own[i], ns2) = TreeOf(f.own[i], ns)
  <2> SUFFICES ASSUME NEW i \in 1..Len(f.own)
               PROVE  TreeOf(f.own[i], ns2) = TreeOf(f.own[i], ns)
    OBVIOUS
  <2>1. f.own[i] \in 0..Len(ns)
    BY <1>1
  <2> QED
    BY <2>1, TreesGrow
<1>3. \A i \in 1..Len(f.own) : LineEnd(f.own[i], ns2) = LineEnd(f.own[i], ns)
  BY <1>1 DEF Grows, LineEnd
<1>4. LinesOf(f.own, C, ns) => LinesOf(f.own, C, ns2)
  BY <1>2, <1>3 DEF LinesOf
<1>5. TargetsOwned(f.own, G.b, ns) => TargetsOwned(f.own, G.b, ns2)
  BY <1>2 DEF TargetsOwned
<1>6. f.at \in OwnsOne => TreeOf(f.own[1], ns2) = TreeOf(f.own[1], ns)
  BY <1>2 DEF FrameFine
<1>7. f.at \in {"definition.literal", "typedVariable.type", "expression.operand"} =>
        TreeOf(f.own[1], ns2) = TreeOf(f.own[1], ns)
  BY <1>6 DEF OwnsOne
<1> QED
  BY <1>4, <1>5, <1>7 DEF Expects

----------------------------------------------------------------------------
(* A step of a sentence's run, as one lemma per shape of it.               *)

Tracked(C, pl) ==
  /\ IInv /\ CInv /\ MInv /\ Sentence(C.last, C.tree, toks)
  /\ stack # <<>> /\ diags = <<>> /\ ~HasHole
  /\ FollowsPlan(stack, pl, pos, result, C, toks, nodes)

Grown == toks' = toks /\ diags' = diags /\ Grows(nodes, nodes') /\ Down(nodes') /\ ~HasHole'

LEMMA OthersExpect ==
  ASSUME NEW C, NEW pl, Tracked(C, pl), Grown, NEW k \in 2..Len(stack)
  PROVE  Expects(stack[k], pl[k], pl[k - 1], C, toks, nodes')
<1> DEFINE f == stack[k]
           G == pl[k]
           H == pl[k - 1]
<1>1. Expects(f, G, H, C, toks, nodes)
  BY DEF Tracked, FollowsPlan
<1>2. f \in Frame /\ FrameFine(f, toks, nodes)
  BY DEF Tracked, IInv, StackFine, FramesFine
<1>3. Grows(nodes, nodes') /\ Down(nodes')
  BY DEF Grown
<1> HIDE DEF f, G, H
<1>4. Expects(f, G, H, C, toks, nodes')
  BY <1>1, <1>2, <1>3, ExpectsGrows
<1> QED
  BY <1>4 DEF f, G, H

LEMMA FollowGoOn ==
  ASSUME NEW C, NEW pl, Tracked(C, pl), Grown, NEW f \in Frame,
         stack' = <<f>> \o Tail(stack), f.at \notin CallPlaces,
         Tracks(f, pl[1], pos', C, toks, nodes')
  PROVE  Followed(C)'
<1>1. stack \in Seq(Frame) /\ stack # <<>> /\ Len(stack) \in Nat
  BY DEF Tracked, IInv, StackFine
<1>2. /\ Len(stack') = Len(stack) /\ stack'[1] = f /\ stack' # <<>>
      /\ \A k \in 2..Len(stack) : stack'[k] = stack[k]
  BY <1>1, ReplaceTop
<1>3. \A k \in 2..Len(stack) : Expects(stack[k], pl[k], pl[k - 1], C, toks, nodes')
  BY OthersExpect
<1>4. FollowsPlan(stack', pl, pos', result', C, toks', nodes')
  <2>1. toks' = toks
    BY DEF Grown
  <2> QED
    BY <1>2, <1>3, <2>1 DEF FollowsPlan
<1>5. diags' = <<>> /\ ~HasHole'
  BY DEF Grown, Tracked
<1> QED
  BY <1>2, <1>4, <1>5 DEF Followed

Push(H, pl) == [k \in Nat |-> IF k = 1 THEN H ELSE pl[k - 1]]
Pop(pl) == [k \in Nat |-> pl[k + 1]]

LEMMA FollowCall ==
  ASSUME NEW C, NEW pl, Tracked(C, pl), Grown, nodes' = nodes, NEW f \in Frame, NEW c \in Frame,
         stack' = <<c, f>> \o Tail(stack), c.at \notin CallPlaces, NEW H,
         Tracks(c, H, pos', C, toks, nodes), Expects(f, pl[1], H, C, toks, nodes)
  PROVE  Followed(C)'
<1>1. stack \in Seq(Frame) /\ stack # <<>> /\ Len(stack) \in Nat
  BY DEF Tracked, IInv, StackFine
<1>2. /\ Len(stack') = Len(stack) + 1 /\ stack'[1] = c /\ stack'[2] = f /\ stack' # <<>>
      /\ \A k \in 2..Len(stack) : stack'[k + 1] = stack[k]
  BY <1>1, PushCallee
<1>3. \A k \in 2..Len(stack) : Expects(stack[k], pl[k], pl[k - 1], C, toks, nodes')
  BY OthersExpect
<1> DEFINE pl2 == Push(H, pl)
<1>4. pl2[1] = H /\ pl2[2] = pl[1] /\ \A k \in 2..Len(stack) : pl2[k + 1] = pl[k] /\ pl2[k] = pl[k - 1]
  <2>1. pl2[1] = H
    BY DEF Push
  <2>2. pl2[2] = pl[1]
    BY DEF Push
  <2>3. ASSUME NEW k \in 2..Len(stack)
        PROVE  pl2[k + 1] = pl[k] /\ pl2[k] = pl[k - 1]
    <3>1. k \in Nat /\ k + 1 \in Nat /\ k # 1 /\ k + 1 # 1 /\ (k + 1) - 1 = k
      BY <1>1
    <3> QED
      BY <3>1 DEF Push
  <2> QED
    BY <2>1, <2>2, <2>3
<1> HIDE DEF pl2
<1>5. \A k \in 2..Len(stack') : Expects(stack'[k], pl2[k], pl2[k - 1], C, toks, nodes')
  <2> SUFFICES ASSUME NEW k \in 2..Len(stack')
               PROVE  Expects(stack'[k], pl2[k], pl2[k - 1], C, toks, nodes')
    OBVIOUS
  <2>1. CASE k = 2
    <3>1. stack'[k] = f /\ pl2[k] = pl[1] /\ pl2[k - 1] = H
      <4>1. k - 1 = 1
        BY <2>1
      <4> QED
        BY <1>2, <1>4, <2>1, <4>1
    <3> QED
      BY <3>1
  <2>2. CASE k # 2
    <3> DEFINE q == k - 1
    <3>1. q \in 2..Len(stack) /\ q + 1 = k
      BY <1>1, <1>2, <2>2
    <3>2. stack'[q + 1] = stack[q] /\ pl2[q + 1] = pl[q] /\ pl2[q] = pl[q - 1]
      BY <1>2, <1>4, <3>1
    <3>3. Expects(stack[q], pl[q], pl[q - 1], C, toks, nodes')
      BY <1>3, <3>1
    <3> QED
      BY <3>1, <3>2, <3>3
  <2> QED
    BY <2>1, <2>2
<1>6. FollowsPlan(stack', pl2, pos', result', C, toks', nodes')
  <2>1. toks' = toks
    BY DEF Grown
  <2>2. Tracks(stack'[1], pl2[1], pos', C, toks', nodes')
    BY <1>2, <1>4, <2>1
  <2> QED
    BY <1>2, <1>5, <2>1, <2>2 DEF FollowsPlan
<1>7. diags' = <<>> /\ ~HasHole'
  BY DEF Grown, Tracked
<1> QED
  BY <1>2, <1>6, <1>7 DEF Followed

LEMMA FollowReturn ==
  ASSUME NEW C, NEW pl, Tracked(C, pl), Grown, stack' = Tail(stack), Top.at \in InnerPlaces,
         Met(pl[1], pos', result', nodes')
  PROVE  Followed(C)'
<1>1. stack \in Seq(Frame) /\ stack # <<>> /\ Len(stack) \in Nat /\ Chain(stack) /\ Top = stack[1]
  BY DEF Tracked, IInv, StackFine, Top
<1>2. Len(stack) >= 2
  <2>1. Len(stack) > 0
    BY <1>1
  <2>2. Len(stack) = 1 => Top.at \in OuterPlaces
    BY <1>1, <2>1 DEF Chain
  <2>3. Top.at \notin OuterPlaces
    BY DEF InnerPlaces
  <2>4. Len(stack) # 1
    BY <2>2, <2>3
  <2> DEFINE L == Len(stack)
  <2>5. L \in Nat /\ L > 0 /\ L # 1
    BY <1>1, <2>1, <2>4
  <2> HIDE DEF L
  <2>6. L >= 2
    BY <2>5
  <2> QED
    BY <2>6 DEF L
<1>3. /\ Len(stack') = Len(stack) - 1 /\ stack' # <<>>
      /\ \A k \in 1..(Len(stack) - 1) : stack'[k] = stack[k + 1]
  <2>1. Tail(stack) \in Seq(Frame) /\ Len(Tail(stack)) = Len(stack) - 1
        /\ \A k \in 1..Len(Tail(stack)) : Tail(stack)[k] = stack[k + 1]
    BY <1>1, HeadTailProperties
  <2>2. Len(stack') = Len(stack) - 1 /\ Len(stack') > 0
    BY <1>1, <1>2, <2>1
  <2>3. stack' # <<>>
    <3>1. Tail(stack) # <<>>
      <4> DEFINE T == Tail(stack)
      <4>1. Len(T) > 0
        BY <1>1, <1>2, <2>1
      <4> HIDE DEF T
      <4>2. T # <<>>
        <5>1. Len(<<>>) = 0
          OBVIOUS
        <5> QED
          BY <4>1, <5>1
      <4> QED
        BY <4>2 DEF T
    <3> QED
      BY <3>1
  <2>4. \A k \in 1..(Len(stack) - 1) : Tail(stack)[k] = stack[k + 1]
    BY <2>1
  <2>5. \A k \in 1..(Len(stack) - 1) : stack'[k] = stack[k + 1]
    BY <2>4, Zenon
  <2> QED
    BY <2>2, <2>3, <2>5
<1>4. stack'[1] = stack[2]
  BY <1>2, <1>1, <1>3
<1>5. stack[2].at \in CallPlaces
  <2>1. PICK st \in Seq(Nat) : CoveredBy(st)
    BY DEF Tracked, CInv, Covered
  <2> QED
    BY <1>1, <1>2, <2>1 DEF CoveredBy, Cover
<1>6. \A k \in 2..Len(stack) : Expects(stack[k], pl[k], pl[k - 1], C, toks, nodes')
  BY OthersExpect
<1> DEFINE pl2 == Pop(pl)
<1>7. \A k \in 1..Len(stack) : pl2[k] = pl[k + 1]
  BY <1>1 DEF Pop
<1>8. Expects(stack'[1], pl2[1], pl[1], C, toks, nodes')
  <2>1. 2 \in 2..Len(stack) /\ 2 - 1 = 1 /\ 1 \in 1..Len(stack) /\ 1 + 1 = 2
    BY <1>1, <1>2
  <2>2. pl2[1] = pl[2]
    BY <1>7, <2>1
  <2>3. Expects(stack[2], pl[2], pl[2 - 1], C, toks, nodes')
    BY <1>6, <2>1
  <2> HIDE DEF pl2
  <2> QED
    BY <1>4, <2>1, <2>2, <2>3
<1>9. \A k \in 2..Len(stack') : Expects(stack'[k], pl2[k], pl2[k - 1], C, toks, nodes')
  <2> SUFFICES ASSUME NEW k \in 2..Len(stack')
               PROVE  Expects(stack'[k], pl2[k], pl2[k - 1], C, toks, nodes')
    OBVIOUS
  <2> DEFINE q == k + 1
  <2>1. /\ k \in 1..(Len(stack) - 1) /\ q \in 2..Len(stack) /\ k \in 1..Len(stack)
        /\ k - 1 \in 1..Len(stack) /\ (k - 1) + 1 = k /\ q - 1 = k
    BY <1>1, <1>3
  <2>2. stack'[k] = stack[q] /\ pl2[k] = pl[q] /\ pl2[k - 1] = pl[k]
    <3>1. pl2[k - 1] = pl[(k - 1) + 1]
      BY <1>7, <2>1
    <3> QED
      BY <1>3, <1>7, <2>1, <3>1
  <2>3. Expects(stack[q], pl[q], pl[q - 1], C, toks, nodes')
    BY <1>6, <2>1
  <2> HIDE DEF pl2, q
  <2> QED
    BY <2>1, <2>2, <2>3
<1> HIDE DEF pl2
<1>10. FollowsPlan(stack', pl2, pos', result', C, toks', nodes')
  <2>1. toks' = toks
    BY DEF Grown
  <2> QED
    BY <1>4, <1>5, <1>8, <1>9, <2>1 DEF FollowsPlan
<1>11. diags' = <<>> /\ ~HasHole'
  BY DEF Grown, Tracked
<1> QED
  BY <1>3, <1>10, <1>11 DEF Followed

----------------------------------------------------------------------------
(* The line behind p and what it is.                                       *)

LEMMA SmallestNumber ==
  ASSUME NEW S, S \subseteq Nat, NEW q \in S
  PROVE  \E j \in S : \A k \in S : j <= k
<1> SUFFICES ASSUME \A j \in S : \E k \in S : ~(j <= k)
             PROVE  FALSE
  OBVIOUS
<1> DEFINE T == {n \in Nat : n \notin S}
<1>1. ASSUME NEW n \in Nat, \A m \in Nat : m < n => m \in T
      PROVE  n \in T
  <2> SUFFICES ASSUME n \in S PROVE FALSE
    OBVIOUS
  <2>1. PICK k \in S : ~(n <= k)
    OBVIOUS
  <2>2. k \in Nat /\ k < n
    BY <2>1
  <2>3. k \in T
    BY <1>1, <2>2
  <2> QED
    BY <2>3
<1>2. \A n \in Nat : n \in T
  <2> HIDE DEF T
  <2> QED
    BY <1>1, FromSmallerNumbers
<1>3. q \in Nat /\ q \in T
  BY <1>2
<1> QED
  BY <1>3

LEMMA NextLine ==
  ASSUME NEW ts, Len(ts) \in Nat, Len(ts) \in NewLines(ts), NEW p \in Nat, p < Len(ts), LinePoint(p, ts)
  PROVE  \E j \in NewLines(ts) : /\ p < j /\ LineStart(j, ts) = p + 1
                                 /\ \A k \in NewLines(ts) : k > p => j <= k
<1> DEFINE S == {k \in NewLines(ts) : k > p}
<1>1. S \subseteq Nat /\ Len(ts) \in S
  BY DEF NewLines
<1>2. PICK j \in S : \A k \in S : j <= k
  <2> HIDE DEF S
  <2> QED
    BY <1>1, SmallestNumber
<1>3. j \in NewLines(ts) /\ j > p /\ j \in Nat
  BY <1>1, <1>2
<1>4. \A k \in NewLines(ts) : k > p => j <= k
  BY <1>2
<1>5. Unbroken(p + 1, j, ts)
  <2> SUFFICES ASSUME NEW x \in (p + 1)..(j - 1), ts[x] = "NEWLINE"
               PROVE  FALSE
    BY DEF Unbroken
  <2>1. x \in Nat /\ x > p /\ x < j /\ j <= Len(ts)
    BY <1>3 DEF NewLines
  <2>2. x \in 1..Len(ts)
    <3>1. x \in Nat /\ x > p /\ x <= Len(ts)
      <4>1. j \in Nat /\ x < j /\ j <= Len(ts) /\ x \in Nat
        BY <1>3, <2>1
      <4> QED
        BY <2>1, <4>1
    <3> QED
      BY <3>1
  <2>3. x \in NewLines(ts)
    BY <2>2 DEF NewLines
  <2>4. j <= x
    BY <1>4, <2>1, <2>3
  <2> QED
    BY <1>3, <2>1, <2>4
<1> DEFINE i == p + 1
<1>6. i \in Nat /\ 1 <= i /\ i <= j /\ (i = 1 \/ i - 1 \in NewLines(ts))
  <2>1. i \in Nat /\ 1 <= i /\ i <= j /\ i - 1 = p /\ (p = 0 => i = 1)
    BY <1>3
  <2> HIDE DEF i
  <2> QED
    BY <2>1 DEF LinePoint
<1>7. Unbroken(i, j, ts)
  BY <1>5
<1> HIDE DEF i
<1>8. LineStart(j, ts) = i
  BY <1>3, <1>6, <1>7, LineStartIs
<1> QED
  BY <1>3, <1>4, <1>8 DEF i

LEMMA LineGoals ==
  ASSUME NEW ts, Len(ts) \in Nat, NEW C, Sentence(C.last, C.tree, ts), NEW p \in Nat, p < Len(ts),
         LinePoint(p, ts)
  PROVE  \E j \in NewLines(ts) :
           /\ p < j /\ \A k \in NewLines(ts) : k > p => j <= k
           /\ j <= C.last =>
                /\ ts[p + 1] = "ID" /\ ts[p + 2] = "COLON"
                /\ \E d : DefinitionGoal(Goal(C.tree[j], p, j, d, 0), ts)
           /\ ~(j <= C.last) =>
                /\ ts[p + 1] = "ID" /\ ts[p + 2] = "ASSIGN"
                /\ \E n, x : AssignmentIs(Goal(C.tree[j], p, j, n, x), j, ts)
<1>1. Len(ts) \in NewLines(ts)
  <2>1. ts # <<>>
    <3>1. Len(<<>>) = 0 /\ Len(ts) # 0
      OBVIOUS
    <3> QED
      BY <3>1
  <2> QED
    BY <2>1 DEF Sentence
<1>2. PICK j \in NewLines(ts) : /\ p < j /\ LineStart(j, ts) = p + 1
                                /\ \A k \in NewLines(ts) : k > p => j <= k
  BY <1>1, NextLine
<1> DEFINE t == C.tree[j]
           i == p + 1
<1>3. t \in LineTrees(j, C.last, ts) /\ LineStart(j, ts) = i
  BY <1>2 DEF Sentence
<1>4. j \in 1..Len(ts) /\ ts[j] = "NEWLINE" /\ i \in 1..Len(ts) /\ i \in Nat /\ i + 1 = p + 2
      /\ j \in Nat /\ EndsAt(j, ts)
  BY <1>2 DEF NewLines, EndsAt
<1> HIDE DEF t
<1>5. ASSUME j <= C.last
      PROVE  /\ ts[i] = "ID" /\ ts[i + 1] = "COLON"
             /\ \E d : DefinitionGoal(Goal(t, p, j, d, 0), ts)
  <2>1. t \in DefinitionTrees(i, j, ts)
    BY <1>3, <1>5 DEF LineTrees
  <2>2. PICK d \in 0..Len(ts) : DefinitionLine(d, i, j, ts) /\ t = DefinitionTree(d, i, j)
    <3> HIDE DEF i
    <3> QED
      BY <2>1, DefinitionMembers
  <2>3. DefinitionGoal(Goal(t, p, j, d, 0), ts)
    <3>1. d \in Nat
      OBVIOUS
    <3> QED
      BY <1>4, <2>2, <3>1, GoalFields DEF DefinitionGoal
  <2>4. ts[i] = "ID" /\ ts[i + 1] = "COLON"
    BY <2>2 DEF DefinitionLine
  <2> QED
    BY <2>3, <2>4
<1>6. ASSUME ~(j <= C.last)
      PROVE  /\ ts[i] = "ID" /\ ts[i + 1] = "ASSIGN"
             /\ \E n, x : AssignmentIs(Goal(t, p, j, n, x), j, ts)
  <2>1. t \in AssignmentTrees(i, j, ts)
    BY <1>3, <1>6 DEF LineTrees
  <2>2. PICK n \in 1..Len(ts) :
             /\ TargetsLine(n, i, j, ts)
             /\ \E x : Derives(x, 1, i + 2 * n, j - 1, ts) /\ t = AssignmentTree(n, x, i)
    <3> HIDE DEF i
    <3> QED
      BY <1>4, <2>1, AssignmentMembers
  <2>3. PICK x : Derives(x, 1, i + 2 * n, j - 1, ts) /\ t = AssignmentTree(n, x, i)
    BY <2>2
  <2>4. n \in Nat /\ n >= 1 /\ 1 \in 1..n
    BY <1>4
  <2>5. AssignmentIs(Goal(t, p, j, n, x), j, ts)
    <3> DEFINE G == Goal(t, p, j, n, x)
    <3>1. G.tree = t /\ G.b = p /\ G.n = n /\ G.x = x
      BY GoalFields
    <3> HIDE DEF G
    <3>2. AssignmentIs(G, j, ts)
      BY <1>4, <2>2, <2>3, <2>4, <3>1 DEF AssignmentIs
    <3> QED
      BY <3>2 DEF G
  <2>6. ts[i + 2 * 1 - 2] = "ID" /\ ts[i + 2 * 1 - 1] = "ASSIGN"
    BY <2>2, <2>4 DEF TargetsLine
  <2>7. i + 2 * 1 - 2 = i /\ i + 2 * 1 - 1 = i + 1
    <3> HIDE DEF i
    <3> QED
      BY <1>4
  <2>8. ts[i] = "ID" /\ ts[i + 1] = "ASSIGN"
    <3> HIDE DEF i
    <3> QED
      BY <2>6, <2>7
  <2> QED
    BY <2>5, <2>8
<1> QED
  BY <1>2, <1>4, <1>5, <1>6 DEF t

----------------------------------------------------------------------------
(* What is known where a step is taken, and of what it leaves behind.      *)

After == IInv' /\ MInv' /\ toks' = toks /\ diags' = diags

LEMMA TrackedFacts ==
  ASSUME NEW C, NEW pl, Tracked(C, pl)
  PROVE  /\ IInv /\ CInv /\ MInv /\ stack # <<>> /\ Len(toks) \in Nat /\ pos \in Nat
         /\ pos <= Len(toks) /\ toks \in Seq(TokenTypes) /\ Sentence(C.last, C.tree, toks)
         /\ Top.own \in Seq(Nat) /\ Top.token \in Nat /\ Top.min \in Nat /\ Top \in Frame
         /\ Top.at \in Places /\ FrameFine(Top, toks, nodes) /\ ~HasHole /\ diags = <<>>
         /\ Down(nodes) /\ nodes \in Seq(Node) /\ Len(nodes) \in Nat
<1>1. IInv /\ stack # <<>> /\ CInv /\ MInv /\ Sentence(C.last, C.tree, toks) /\ ~HasHole /\ diags = <<>>
  BY DEF Tracked
<1>2. Top \in Frame /\ Top.min \in Nat
  BY <1>1, TopFacts DEF Frame
<1>3. Down(nodes)
  BY <1>1 DEF MInv, HeapMade
<1> QED
  BY <1>1, <1>2, <1>3, TopFacts

LEMMA TopTracks ==
  ASSUME NEW C, NEW pl, Tracked(C, pl), Top.at \notin CallPlaces
  PROVE  Tracks(Top, pl[1], pos, C, toks, nodes)
<1>1. Top = stack[1]
  BY TopFacts DEF Tracked
<1> QED
  BY <1>1 DEF Tracked, FollowsPlan

LEMMA TopExpects ==
  ASSUME NEW C, NEW pl, Tracked(C, pl), Top.at \in CallPlaces
  PROVE  /\ result # Null /\ result \in 1..Len(nodes)
         /\ \E H : /\ Expects(Top, pl[1], H, C, toks, nodes)
                   /\ TreeOf(result, nodes) = H.tree /\ pos = H.e
<1>1. Top = stack[1]
  BY TopFacts DEF Tracked
<1>2. PICK H : Expects(Top, pl[1], H, C, toks, nodes) /\ Met(H, pos, result, nodes)
  BY <1>1 DEF Tracked, FollowsPlan
<1>3. result # Null
  BY <1>2 DEF Met
<1> QED
  BY <1>2, <1>3, ResultFacts DEF Met, Tracked

LEMMA SameGrown ==
  ASSUME NEW C, NEW pl, Tracked(C, pl), After, nodes' = nodes
  PROVE  Grown
<1>1. nodes \in Seq(Node) /\ Down(nodes) /\ ~HasHole
  BY TrackedFacts
<1>2. Grows(nodes, nodes') /\ Down(nodes')
  BY <1>1, GrowsSame
<1>3. ~HasHole'
  BY <1>1 DEF HasHole
<1> QED
  BY <1>2, <1>3 DEF Grown, After

LEMMA NewGrown ==
  ASSUME NEW C, NEW pl, Tracked(C, pl), After,
         NEW kind, NEW token, NEW kids, NEW dim, NEW from, NEW to,
         New(kind, token, kids, dim, from, to), kind = "GroupingExpression" => kids # <<Null>>
  PROVE  /\ Grown /\ NewPtr # Null /\ NewPtr \in 1..Len(nodes') /\ Down(nodes') /\ Len(nodes') \in Nat
         /\ nodes'[NewPtr].kind = kind /\ nodes'[NewPtr].token = token /\ nodes'[NewPtr].kids = kids
         /\ nodes'[NewPtr].to = to
         /\ \A q \in 0..Len(nodes) : TreeOf(q, nodes') = TreeOf(q, nodes)
<1>1. IInv /\ IInv' /\ ~HasHole
  BY TrackedFacts DEF After
<1>2. /\ Grows(nodes, nodes') /\ Len(nodes') = NewPtr /\ NewPtr = Len(nodes) + 1
      /\ NewPtr \in 1..Len(nodes') /\ NewPtr # Null /\ Len(nodes) \in Nat
      /\ nodes'[NewPtr].kind = kind /\ nodes'[NewPtr].token = token
      /\ nodes'[NewPtr].kids = kids /\ nodes'[NewPtr].to = to
  BY <1>1, NewFacts
<1>3. Down(nodes')
  BY DEF After, MInv, HeapMade
<1>4. ~HasHole'
  <2>1. \A p \in 1..Len(nodes) : ~(nodes[p].kind = "GroupingExpression" /\ nodes[p].kids = <<Null>>)
    BY <1>1 DEF HasHole
  <2>2. ~(nodes'[NewPtr].kind = "GroupingExpression" /\ nodes'[NewPtr].kids = <<Null>>)
    BY <1>2
  <2>3. \A p \in 1..Len(nodes') : p \in 1..Len(nodes) \/ p = NewPtr
    BY <1>2
  <2>4. \A p \in 1..Len(nodes) : nodes'[p] = nodes[p]
    BY <1>2 DEF Grows
  <2>5. ASSUME NEW p \in 1..Len(nodes')
        PROVE  ~(nodes'[p].kind = "GroupingExpression" /\ nodes'[p].kids = <<Null>>)
    BY <2>1, <2>2, <2>3, <2>4
  <2> QED
    BY <2>5 DEF HasHole
<1>5. ASSUME NEW q \in 0..Len(nodes)
      PROVE  TreeOf(q, nodes') = TreeOf(q, nodes)
  BY <1>2, <1>3, TreesGrow
<1> QED
  BY <1>2, <1>3, <1>4, <1>5 DEF Grown, After

LEMMA FollowEnter ==
  ASSUME NEW C, NEW pl, Tracked(C, pl), After, nodes' = nodes,
         NEW at \in Places \ CallPlaces, NEW min \in Nat, NEW token \in Nat,
         NEW back \in Places, NEW own \in Seq(Nat), NEW here \in Nat,
         stack' = <<Enter(at, min, token), Back(back, own, here)>> \o Tail(stack), NEW H,
         Tracks(Enter(at, min, token), H, pos', C, toks, nodes),
         Expects(Back(back, own, here), pl[1], H, C, toks, nodes)
  PROVE  Followed(C)'
<1> DEFINE c == Enter(at, min, token)
           f == Back(back, own, here)
<1>1. c \in Frame /\ c.at = at /\ f \in Frame
  BY EnterFacts, BackFacts, TrackedFacts
<1>2. Grown
  BY SameGrown
<1>3. stack' = <<c, f>> \o Tail(stack) /\ Tracks(c, H, pos', C, toks, nodes)
      /\ Expects(f, pl[1], H, C, toks, nodes)
  OBVIOUS
<1> HIDE DEF c, f
<1> QED
  BY <1>1, <1>2, <1>3, FollowCall

LEMMA FollowMove ==
  ASSUME NEW C, NEW pl, Tracked(C, pl), Grown, NEW at \in Places \ CallPlaces, NEW own \in Seq(Nat),
         stack' = <<Back(at, own, Top.token)>> \o Tail(stack),
         Tracks(Back(at, own, Top.token), pl[1], pos', C, toks, nodes')
  PROVE  Followed(C)'
<1> DEFINE f == Back(at, own, Top.token)
<1>1. f \in Frame /\ f.at = at
  BY BackFacts, TrackedFacts
<1>2. stack' = <<f>> \o Tail(stack) /\ Tracks(f, pl[1], pos', C, toks, nodes')
  OBVIOUS
<1> HIDE DEF f
<1> QED
  BY <1>1, <1>2, FollowGoOn

LEMMA HereTokens ==
  ASSUME IInv, stack # <<>>
  PROVE  /\ pos + 1 \in 1..Len(toks) => Current = toks[pos + 1]
         /\ pos + 2 \in 1..Len(toks) => Next1 = toks[pos + 2]
BY DEF Current, Next1, TypeAt

LEMMA NotCallPlaces ==
  {"program", "statements", "definition", "typedVariable", "typedVariable.colon", "type", "literal",
   "statement", "assignment", "expression", "expression.operator", "prefix"}
    \subseteq Places \ CallPlaces
<1>1. /\ "program" \notin CallPlaces /\ "statements" \notin CallPlaces /\ "definition" \notin CallPlaces
      /\ "typedVariable" \notin CallPlaces /\ "typedVariable.colon" \notin CallPlaces
      /\ "type" \notin CallPlaces /\ "literal" \notin CallPlaces
      /\ "statement" \notin CallPlaces /\ "assignment" \notin CallPlaces
      /\ "expression" \notin CallPlaces /\ "expression.operator" \notin CallPlaces
      /\ "prefix" \notin CallPlaces
  BY CallPlaceNames
<1> QED
  BY <1>1, PlaceNames

LEMMA AreCallPlaces ==
  {"program.definition", "program.statement", "definition.variable", "definition.literal",
   "typedVariable.type", "type.bracket", "statement.simple", "assignment.expression",
   "expression.prefix", "expression.operand", "prefix.group", "prefix.unary"}
    \subseteq Places \cap CallPlaces
BY CallPlaceNames, PlaceNames

----------------------------------------------------------------------------
(* parseProgram                                                            *)

LEMMA ProgramFollows ==
  ASSUME NEW C, NEW pl, Tracked(C, pl), After, Program
  PROVE  Followed(C)'
<1>1. Top.at = "program" /\ nodes' = nodes /\ pos' = pos
  BY DEF Program, At
<1>2. Top.at \notin CallPlaces
  BY <1>1, NotCallPlaces
<1>3. LinePoint(pos, toks) /\ LinesOf(Top.own, C, nodes)
  BY <1>1, <1>2, TopTracks DEF Tracks
<1>4. /\ IInv /\ stack # <<>> /\ Len(toks) \in Nat /\ pos \in Nat /\ pos <= Len(toks)
      /\ Sentence(C.last, C.tree, toks) /\ Top.own \in Seq(Nat) /\ Top.token \in Nat
  BY TrackedFacts
<1>5. CASE StartsDefinition /\ Call(Enter("definition", 0, pos + 1), "program.definition")
  <2>1. toks[pos + 1] = "ID" /\ toks[pos + 2] = "COLON" /\ pos < Len(toks)
    <3>1. Current = "ID" /\ Next1 = "COLON"
      BY <1>5 DEF StartsDefinition, Match
    <3>2. pos + 1 \in 1..Len(toks) /\ toks[pos + 1] = Current /\ toks[pos + 2] = Next1
      BY <1>4, <3>1, InRange
    <3> QED
      BY <1>4, <3>1, <3>2
  <2>2. PICK j \in NewLines(toks) :
           /\ j <= C.last => \E d : DefinitionGoal(Goal(C.tree[j], pos, j, d, 0), toks)
           /\ ~(j <= C.last) => toks[pos + 2] = "ASSIGN"
    BY <1>3, <1>4, <2>1, LineGoals
  <2>3. PICK d : DefinitionGoal(Goal(C.tree[j], pos, j, d, 0), toks)
    BY <2>1, <2>2
  <2> DEFINE H == Goal(C.tree[j], pos, j, d, 0)
  <2>4. DefinitionGoal(H, toks) /\ H.b = pos /\ H.e = j /\ H.tree = C.tree[j]
    BY <2>3, GoalFields
  <2> HIDE DEF H
  <2>5. "definition" \in Places \ CallPlaces /\ "program.definition" \in Places /\ 0 \in Nat /\ pos + 1 \in Nat
    BY <1>4, NotCallPlaces, AreCallPlaces
  <2>6. stack' = <<Enter("definition", 0, pos + 1), Back("program.definition", Top.own, Top.token)>>
                   \o Tail(stack)
    BY <1>4, <1>5, CallForms
  <2>7. Tracks(Enter("definition", 0, pos + 1), H, pos', C, toks, nodes)
    <3>1. Enter("definition", 0, pos + 1).at = "definition"
      BY <2>5, EnterFacts
    <3> QED
      BY <1>1, <2>4, <3>1 DEF Tracks
  <2>8. Expects(Back("program.definition", Top.own, Top.token), pl[1], H, C, toks, nodes)
    <3>1. /\ Back("program.definition", Top.own, Top.token).at = "program.definition"
          /\ Back("program.definition", Top.own, Top.token).own = Top.own
      BY <1>4, <2>5, BackFacts
    <3> QED
      BY <1>3, <2>4, <3>1 DEF Expects
  <2> QED
    BY <1>1, <1>4, <2>5, <2>6, <2>7, <2>8, FollowEnter
<1>6. CASE ~StartsDefinition /\ GoOn([Top EXCEPT !.at = "statements"])
  <2>1. OnlyAssignments(pos, C, toks)
    <3> SUFFICES ASSUME NEW k \in NewLines(toks), k > pos
                 PROVE  k > C.last
      BY DEF OnlyAssignments
    <3>1. k \in 1..Len(toks) /\ C.last \in Nat
      BY <1>4 DEF NewLines, Sentence
    <3>2. pos < Len(toks)
      BY <1>4, <3>1
    <3>3. PICK j \in NewLines(toks) :
             /\ pos < j /\ \A q \in NewLines(toks) : q > pos => j <= q
             /\ j <= C.last => toks[pos + 1] = "ID" /\ toks[pos + 2] = "COLON"
      BY <1>3, <1>4, <3>2, LineGoals
    <3>4. j \in 1..Len(toks) /\ j <= k
      BY <3>3 DEF NewLines
    <3>5. ~(j <= C.last)
      <4> SUFFICES ASSUME toks[pos + 1] = "ID", toks[pos + 2] = "COLON"
                   PROVE  FALSE
        BY <3>3
      <4>1. Current = "ID"
        <5>1. pos + 1 \in 1..Len(toks)
          BY <1>4, <3>2
        <5> QED
          BY <1>4, <5>1, HereTokens
      <4>2. j # pos + 1
        <5>1. toks[j] = "NEWLINE"
          BY <3>3 DEF NewLines
        <5> QED
          BY <5>1
      <4>3. Next1 = "COLON"
        <5>1. pos + 2 \in 1..Len(toks)
          BY <1>4, <3>3, <3>4, <4>2
        <5> QED
          BY <1>4, <5>1, HereTokens
      <4> QED
        BY <1>6, <4>1, <4>3 DEF StartsDefinition, Match
    <3> QED
      BY <3>1, <3>4, <3>5
  <2>2. "statements" \in Places \ CallPlaces
    BY NotCallPlaces
  <2>3. stack' = <<Back("statements", Top.own, Top.token)>> \o Tail(stack)
    BY <1>4, <1>6, GoOnForms
  <2>4. Tracks(Back("statements", Top.own, Top.token), pl[1], pos', C, toks, nodes')
    <3>1. /\ Back("statements", Top.own, Top.token).at = "statements"
          /\ Back("statements", Top.own, Top.token).own = Top.own
      BY <1>4, <2>2, BackFacts
    <3> QED
      BY <1>1, <1>3, <2>1, <3>1 DEF Tracks
  <2>5. Grown
    BY <1>1, SameGrown
  <2> QED
    BY <1>4, <2>2, <2>3, <2>4, <2>5, FollowMove
<1> QED
  BY <1>5, <1>6 DEF Program

LEMMA StatementsFollow ==
  ASSUME NEW C, NEW pl, Tracked(C, pl), After, Statements
  PROVE  Followed(C)'
<1>1. Top.at = "statements" /\ pos' = pos
  BY DEF Statements, At
<1>2. Top.at \notin CallPlaces
  BY <1>1, NotCallPlaces
<1>3. LinePoint(pos, toks) /\ LinesOf(Top.own, C, nodes) /\ OnlyAssignments(pos, C, toks)
  BY <1>1, <1>2, TopTracks DEF Tracks
<1>4. /\ IInv /\ stack # <<>> /\ Len(toks) \in Nat /\ pos \in Nat /\ pos <= Len(toks)
      /\ Sentence(C.last, C.tree, toks) /\ Top.own \in Seq(Nat) /\ Top.token \in Nat
      /\ FrameFine(Top, toks, nodes) /\ diags = <<>>
  BY TrackedFacts
<1>5. CASE ~AtEnd /\ Call(Enter("statement", 0, 0), "program.statement") /\ nodes' = nodes
  <2>1. pos < Len(toks)
    BY <1>4, <1>5 DEF AtEnd
  <2>2. PICK j \in NewLines(toks) :
           /\ pos < j /\ \A k \in NewLines(toks) : k > pos => j <= k
           /\ ~(j <= C.last) => \E n, x : AssignmentIs(Goal(C.tree[j], pos, j, n, x), j, toks)
    BY <1>3, <1>4, <2>1, LineGoals
  <2>3. j \in Nat /\ C.last \in Nat
    BY <1>4 DEF NewLines, Sentence
  <2>4. j > C.last
    BY <1>3, <2>2, <2>3 DEF OnlyAssignments
  <2>5. PICK n, x : AssignmentIs(Goal(C.tree[j], pos, j, n, x), j, toks)
    <3>1. ~(j <= C.last)
      BY <2>3, <2>4
    <3> QED
      BY <2>2, <3>1
  <2> DEFINE H == Goal(C.tree[j], pos, j, n, x)
  <2>6. AssignmentIs(H, H.e, toks) /\ H.b = pos /\ H.e = j /\ H.tree = C.tree[j]
    BY <2>5, GoalFields
  <2> HIDE DEF H
  <2>7. "statement" \in Places \ CallPlaces /\ "program.statement" \in Places /\ 0 \in Nat
    BY NotCallPlaces, AreCallPlaces
  <2>8. stack' = <<Enter("statement", 0, 0), Back("program.statement", Top.own, Top.token)>> \o Tail(stack)
    BY <1>4, <1>5, CallForms
  <2>9. Tracks(Enter("statement", 0, 0), H, pos', C, toks, nodes)
    <3>1. Enter("statement", 0, 0).at = "statement"
      BY <2>7, EnterFacts
    <3> QED
      BY <1>1, <2>6, <3>1 DEF Tracks
  <2>10. OnlyAssignments(j, C, toks)
    <3> SUFFICES ASSUME NEW k \in NewLines(toks), k > j
                 PROVE  k > C.last
      BY DEF OnlyAssignments
    <3>1. k \in Nat
      BY <1>4 DEF NewLines
    <3> QED
      BY <2>3, <2>4, <3>1
  <2>11. Expects(Back("program.statement", Top.own, Top.token), pl[1], H, C, toks, nodes)
    <3>1. /\ Back("program.statement", Top.own, Top.token).at = "program.statement"
          /\ Back("program.statement", Top.own, Top.token).own = Top.own
      BY <1>4, <2>7, BackFacts
    <3> QED
      BY <1>3, <2>6, <2>10, <3>1 DEF Expects
  <2> QED
    BY <1>4, <1>5, <2>7, <2>8, <2>9, <2>11, FollowEnter
<1>6. CASE AtEnd /\ New("Program", NoToken, Top.own, 0, 1, Len(toks)) /\ Return(NewPtr)
  <2>1. /\ Grown /\ NewPtr # Null /\ nodes'[NewPtr].kids = Top.own /\ Grows(nodes, nodes')
        /\ \A q \in 0..Len(nodes) : TreeOf(q, nodes') = TreeOf(q, nodes)
    BY <1>6, NewGrown DEF Grown
  <2>2. stack' = <<>>
    <3>1. stack \in Seq(Frame) /\ Chain(stack) /\ Top = stack[1]
      BY <1>4, TopFacts DEF StackFine
    <3>2. Top.at \in OuterPlaces
      BY <1>1 DEF OuterPlaces
    <3> QED
      BY <1>4, <1>6, <3>1, <3>2, ChainReturn DEF Return
  <2>3. result' = NewPtr
    BY <1>6 DEF Return
  <2>4. LinesOf(Top.own, C, nodes')
    <3> SUFFICES ASSUME NEW k \in 1..Len(Top.own)
                 PROVE  TreeOf(Top.own[k], nodes') = C.tree[LineEnd(Top.own[k], nodes')]
      BY DEF LinesOf
    <3> DEFINE q == Top.own[k]
    <3>1. q \in 1..Len(nodes) /\ TreeOf(q, nodes) = C.tree[LineEnd(q, nodes)]
      BY <1>3, <1>4 DEF LinesOf, FrameFine
    <3>2. Len(nodes) \in Nat
      BY TrackedFacts
    <3> HIDE DEF q
    <3>3. q \in 0..Len(nodes) /\ nodes'[q] = nodes[q]
      BY <2>1, <3>1, <3>2 DEF Grows
    <3>4. TreeOf(q, nodes') = C.tree[LineEnd(q, nodes')]
      BY <2>1, <3>1, <3>3 DEF LineEnd
    <3> QED
      BY <3>4 DEF q
  <2>5. result' # Null /\ LinesOf(nodes'[result'].kids, C, nodes')
    BY <2>1, <2>3, <2>4
  <2>6. diags' = <<>> /\ ~HasHole'
    BY <1>4, <2>1 DEF Grown
  <2> QED
    BY <2>2, <2>5, <2>6 DEF Followed
<1> QED
  BY <1>5, <1>6 DEF Statements

LEMMA ProgramChildFollows ==
  ASSUME NEW C, NEW pl, Tracked(C, pl), After, ProgramChild
  PROVE  Followed(C)'
<1> DEFINE own == Append(Top.own, result)
           at == IF Top.at = "program.definition" THEN "program" ELSE "statements"
<1>1. /\ Top.at \in {"program.definition", "program.statement"} /\ pos' = pos /\ nodes' = nodes
      /\ GoOn([Top EXCEPT !.own = Append(@, result),
                          !.at = IF @ = "program.definition" THEN "program" ELSE "statements"])
  BY DEF ProgramChild, At
<1>2. Top.at \in CallPlaces /\ Callee(Top.at) \in {"definition", "statement"}
  BY <1>1, CallPlaceNames, Callees
<1>3. PICK H : /\ Expects(Top, pl[1], H, C, toks, nodes)
               /\ TreeOf(result, nodes) = H.tree /\ pos = H.e
  BY <1>2, TopExpects
<1>4. /\ IInv /\ CInv /\ MInv /\ stack # <<>> /\ Len(toks) \in Nat /\ pos \in Nat /\ Top \in Frame
      /\ Top.own \in Seq(Nat) /\ Top.token \in Nat /\ result # Null /\ result \in 1..Len(nodes)
      /\ Len(nodes) \in Nat /\ result \in Nat
  BY <1>2, TopExpects, TrackedFacts, ResultFacts
<1>5. LinesOf(Top.own, C, nodes) /\ H.e \in NewLines(toks) /\ H.tree = C.tree[H.e]
      /\ (Top.at = "program.statement" => OnlyAssignments(H.e, C, toks))
  BY <1>1, <1>3 DEF Expects
<1>6. LineEnd(result, nodes) = pos
  <2>1. \E e \in Nat : Returned(Callee(Top.at), e, pos, nodes[result], toks)
    BY <1>2, <1>4, GivenToTop
  <2> QED
    BY <1>2, <2>1 DEF Returned, SpansBefore, LineEnd
<1>7. LinesOf(own, C, nodes)
  <2> SUFFICES ASSUME NEW k \in 1..Len(own)
               PROVE  TreeOf(own[k], nodes) = C.tree[LineEnd(own[k], nodes)]
    BY DEF LinesOf
  <2> DEFINE m == Len(Top.own)
  <2>1. /\ \A q \in 1..m : own[q] = Top.own[q]
        /\ own[m + 1] = result /\ (k \in 1..m \/ k = m + 1)
    BY <1>4, OneMore
  <2>2. CASE k \in 1..m
    BY <1>5, <2>1, <2>2 DEF LinesOf
  <2>3. CASE k = m + 1
    <3>1. own[k] = result
      BY <2>1, <2>3
    <3>2. TreeOf(result, nodes) = C.tree[LineEnd(result, nodes)]
      BY <1>3, <1>5, <1>6
    <3> QED
      BY <3>1, <3>2
  <2> QED
    BY <2>1, <2>2, <2>3
<1>8. own \in Seq(Nat) /\ at \in Places \ CallPlaces /\ at \in {"program", "statements"}
      /\ (at = "statements" <=> Top.at = "program.statement")
  BY <1>1, <1>4, OneMore, NotCallPlaces
<1>9. stack' = <<Back(at, own, Top.token)>> \o Tail(stack)
  <2>1. [Top EXCEPT !.own = Append(@, result),
                    !.at = IF @ = "program.definition" THEN "program" ELSE "statements"]
          = Back(at, own, Top.token)
    BY <1>4 DEF Back, Frame
  <2> QED
    BY <1>1, <2>1 DEF GoOn
<1>10. Tracks(Back(at, own, Top.token), pl[1], pos', C, toks, nodes')
  <2> HIDE DEF own, at
  <2>1. Back(at, own, Top.token).at = at /\ Back(at, own, Top.token).own = own
    BY <1>4, <1>8, BackFacts
  <2>2. at # "definition" /\ at # "typedVariable" /\ at # "typedVariable.colon" /\ at # "type"
        /\ at # "literal" /\ at # "statement" /\ at # "assignment" /\ at # "expression"
        /\ at # "expression.operator" /\ at # "prefix"
    BY <1>8
  <2>3. LinePoint(pos', toks) /\ LinesOf(own, C, nodes')
    BY <1>1, <1>3, <1>5, <1>7 DEF LinePoint
  <2>4. at = "statements" => OnlyAssignments(pos', C, toks)
    BY <1>1, <1>3, <1>5, <1>8
  <2> QED
    BY <2>1, <2>2, <2>3, <2>4 DEF Tracks
<1>11. Grown
  BY <1>1, SameGrown
<1> HIDE DEF own, at
<1> QED
  BY <1>8, <1>9, <1>10, <1>11, FollowMove

----------------------------------------------------------------------------
(* What the goal of a definition is made of.                               *)

LEMMA GoalOfDefinition ==
  ASSUME NEW ts, Len(ts) \in Nat, NEW G, DefinitionGoal(G, ts)
  PROVE  /\ G.b \in Nat /\ G.e \in Nat /\ G.e - 3 \in Nat /\ G.n \in Nat /\ G.e \in 1..Len(ts)
         /\ TypedGoal(Goal(TypedTree(G.n, G.b + 1), G.b, G.e - 3, G.n, 0), ts)
         /\ LiteralGoal(Goal(LiteralTree(G.e - 1), G.e - 2, G.e - 1, 0, 0), ts)
         /\ ts[G.e - 2] = "ASSIGN" /\ ts[G.e] = "NEWLINE"
         /\ G.e - 2 \in 1..Len(ts) /\ G.e - 1 \in 1..Len(ts)
         /\ G.tree = Tree("VariableDefinition", 0,
                          <<NameTree(G.b + 1), TypeTree(G.b + 3 + G.n), LiteralTree(G.e - 1)>>)
<1> DEFINE b == G.b
           e == G.e
           n == G.n
           i == b + 1
<1>1. b \in Nat /\ n \in Nat /\ e \in 1..Len(ts) /\ ts[e] = "NEWLINE" /\ i = b + 1
      /\ DefinitionLine(n, i, e, ts) /\ G.tree = DefinitionTree(n, i, e)
  BY DEF DefinitionGoal, EndsAt
<1> HIDE DEF b, e, n, i
<1>2. /\ e = i + 2 * n + 5 /\ ts[i] = "ID" /\ ts[i + 1] = "COLON"
      /\ \A k \in 1..n : ts[i + 1 + k] = "OPENBRACK"
      /\ ts[i + 2 + n] \in {"ID", "IDSTRING"}
      /\ \A k \in 1..n : ts[i + 2 + n + k] = "CLOSEBRACK"
      /\ ts[e - 2] = "ASSIGN" /\ ts[e - 1] \in Literals
  BY <1>1 DEF DefinitionLine
<1>3. /\ e \in Nat /\ i \in Nat /\ e = b + 2 * n + 6 /\ i + 1 = b + 2 /\ i + 2 + n = b + 2 + n + 1
      /\ i + 2 + n = b + 3 + n /\ e - 3 = b + 2 + 2 * n + 1 /\ e - 3 \in 1..Len(ts)
      /\ e - 2 \in 1..Len(ts) /\ e - 1 \in 1..Len(ts) /\ e - 1 = (e - 2) + 1 /\ e - 2 \in Nat
      /\ e - 3 \in Nat
  BY <1>1, <1>2
<1> DEFINE q == b + 2
           H == Goal(TypeTree(b + 3 + n), q, e - 3, n, 0)
<1>4. H.b = q /\ H.e = e - 3 /\ H.n = n /\ H.tree = TypeTree(b + 3 + n) /\ q \in Nat
      /\ e - 3 = q + 2 * n + 1 /\ b + 3 + n = q + n + 1 /\ i + 2 + n = q + n + 1
  BY <1>1, <1>3, GoalFields
<1>5. \A k \in 1..n : ts[q + k] = "OPENBRACK" /\ ts[q + n + 1 + k] = "CLOSEBRACK"
  <2> SUFFICES ASSUME NEW k \in 1..n
               PROVE  ts[q + k] = "OPENBRACK" /\ ts[q + n + 1 + k] = "CLOSEBRACK"
    OBVIOUS
  <2>1. q + k = i + 1 + k /\ q + n + 1 + k = i + 2 + n + k
    BY <1>1, <1>3
  <2> QED
    BY <1>2, <2>1
<1>6. TypeGoal(H, ts)
  <2> HIDE DEF H, q
  <2> QED
    BY <1>1, <1>2, <1>3, <1>4, <1>5 DEF TypeGoal
<1>7. TypedGoal(Goal(TypedTree(n, b + 1), b, e - 3, n, 0), ts)
  <2> DEFINE T == Goal(TypedTree(n, b + 1), b, e - 3, n, 0)
  <2>1. T.tree = TypedTree(n, b + 1) /\ T.b = b /\ T.e = e - 3 /\ T.n = n
    BY GoalFields
  <2> HIDE DEF T
  <2>2. ts[b + 1] = "ID" /\ ts[b + 2] = "COLON"
    BY <1>1, <1>2, <1>3
  <2>3. TypedGoal(T, ts)
    BY <1>1, <1>6, <2>1, <2>2 DEF TypedGoal
  <2> QED
    BY <2>3 DEF T
<1>8. LiteralGoal(Goal(LiteralTree(e - 1), e - 2, e - 1, 0, 0), ts)
  <2> DEFINE T == Goal(LiteralTree(e - 1), e - 2, e - 1, 0, 0)
  <2>1. T.tree = LiteralTree(e - 1) /\ T.b = e - 2 /\ T.e = e - 1
    BY GoalFields
  <2> HIDE DEF T
  <2>2. /\ T.b \in Nat /\ T.e = T.b + 1 /\ T.e \in 1..Len(ts)
    BY <1>3, <2>1
  <2>3. ts[T.e] \in Literals /\ T.tree = LiteralTree(T.e)
    BY <1>2, <2>1
  <2>4. LiteralGoal(T, ts)
    BY <2>2, <2>3 DEF LiteralGoal
  <2> QED
    BY <2>4 DEF T
<1>9. G.tree = Tree("VariableDefinition", 0,
                    <<NameTree(b + 1), TypeTree(b + 3 + n), LiteralTree(e - 1)>>)
  <2>1. DefinitionTree(n, i, e) = Tree("VariableDefinition", 0,
           <<NameTree(i), TypeTree(i + 2 + n), LiteralTree(e - 1)>>)
    BY DEF DefinitionTree, NameTree, TypeTree, LiteralTree
  <2> QED
    BY <1>1, <1>3, <2>1
<1> QED
  BY <1>1, <1>2, <1>3, <1>7, <1>8, <1>9 DEF b, e, n

----------------------------------------------------------------------------
(* parseVariableDefinition                                                 *)

Fine == IInv' /\ MInv'

(* What the tokens of the goal say of the token that is looked at.         *)
LEMMA HereMatches ==
  ASSUME IInv, stack # <<>>, pos + 1 \in 1..Len(toks), NEW types
  PROVE  Match(types) <=> toks[pos + 1] \in types
BY HereTokens DEF Match

LEMMA DefinitionFollows ==
  ASSUME NEW C, NEW pl, Tracked(C, pl), Fine, Definition
  PROVE  Followed(C)'
<1> DEFINE G == pl[1]
<1>1. Top.at = "definition" /\ nodes' = nodes /\ pos' = pos /\ After
      /\ Call(Enter("typedVariable", 0, 0), "definition.variable")
  BY DEF Definition, At, After, Fine
<1>2. Top.at \notin CallPlaces
  BY <1>1, NotCallPlaces
<1>3. pos = G.b /\ DefinitionGoal(G, toks)
  BY <1>1, <1>2, TopTracks DEF Tracks
<1>4. /\ IInv /\ stack # <<>> /\ Len(toks) \in Nat /\ Top.own \in Seq(Nat) /\ Top.token \in Nat
  BY TrackedFacts
<1> DEFINE H == Goal(TypedTree(G.n, G.b + 1), G.b, G.e - 3, G.n, 0)
<1> HIDE DEF G
<1>5. TypedGoal(H, toks) /\ H.tree = TypedTree(G.n, G.b + 1) /\ H.e = G.e - 3 /\ H.b = G.b
  <2>1. TypedGoal(H, toks)
    BY <1>3, <1>4, GoalOfDefinition
  <2>2. H.tree = TypedTree(G.n, G.b + 1) /\ H.e = G.e - 3 /\ H.b = G.b
    BY GoalFields
  <2> QED
    BY <2>1, <2>2
<1> HIDE DEF H
<1>6. "typedVariable" \in Places \ CallPlaces /\ "definition.variable" \in Places /\ 0 \in Nat
  BY NotCallPlaces, AreCallPlaces
<1>7. stack' = <<Enter("typedVariable", 0, 0), Back("definition.variable", Top.own, Top.token)>>
                 \o Tail(stack)
  BY <1>1, <1>4, CallForms
<1>8. Tracks(Enter("typedVariable", 0, 0), H, pos', C, toks, nodes)
  <2>1. Enter("typedVariable", 0, 0).at = "typedVariable"
    BY <1>6, EnterFacts
  <2> QED
    BY <1>1, <1>3, <1>5, <2>1 DEF Tracks
<1>9. Expects(Back("definition.variable", Top.own, Top.token), G, H, C, toks, nodes)
  <2>1. Back("definition.variable", Top.own, Top.token).at = "definition.variable"
    BY <1>4, <1>6, BackFacts
  <2> QED
    BY <1>3, <1>5, <2>1 DEF Expects
<1> QED
  BY <1>1, <1>4, <1>6, <1>7, <1>8, <1>9, FollowEnter DEF G

LEMMA DefinitionAssignFollows ==
  ASSUME NEW C, NEW pl, Tracked(C, pl), Fine, DefinitionAssign
  PROVE  Followed(C)'
<1> DEFINE G == pl[1]
<1>1. Top.at = "definition.variable"
  BY DEF DefinitionAssign, At
<1>2. Top.at \in CallPlaces
  BY <1>1, AreCallPlaces
<1> HIDE DEF G
<1>3. DefinitionGoal(G, toks) /\ TreeOf(result, nodes) = TypedTree(G.n, G.b + 1) /\ pos = G.e - 3
      /\ result \in 1..Len(nodes) /\ result # Null
  BY <1>1, <1>2, TopExpects DEF Expects, G
<1>4. /\ IInv /\ stack # <<>> /\ Len(toks) \in Nat /\ Top.own \in Seq(Nat) /\ Top.token \in Nat
      /\ Len(nodes) \in Nat
  BY TrackedFacts
<1> DEFINE H == Goal(LiteralTree(G.e - 1), G.e - 2, G.e - 1, 0, 0)
<1>5. /\ LiteralGoal(H, toks) /\ H.tree = LiteralTree(G.e - 1) /\ H.e = G.e - 1 /\ H.b = G.e - 2
      /\ G.e \in Nat /\ toks[G.e - 2] = "ASSIGN" /\ G.e - 2 \in 1..Len(toks)
  <2>1. LiteralGoal(H, toks) /\ G.e \in Nat /\ toks[G.e - 2] = "ASSIGN" /\ G.e - 2 \in 1..Len(toks)
    BY <1>3, <1>4, GoalOfDefinition
  <2>2. H.tree = LiteralTree(G.e - 1) /\ H.e = G.e - 1 /\ H.b = G.e - 2
    BY GoalFields
  <2> QED
    BY <2>1, <2>2
<1> HIDE DEF H
<1>6. pos + 1 = G.e - 2 /\ pos + 1 \in 1..Len(toks)
  BY <1>3, <1>5
<1>7. Match({"ASSIGN"})
  BY <1>4, <1>5, <1>6, HereMatches
<1>8. /\ pos' = pos + 1 /\ nodes' = nodes /\ After
      /\ CallFrom([Top EXCEPT !.at = "definition.literal", !.own = <<result>>], Enter("literal", 0, 0))
  BY <1>7 DEF DefinitionAssign, Expect, Advance, After, Fine
<1>9. "literal" \in Places \ CallPlaces /\ "definition.literal" \in Places /\ 0 \in Nat
      /\ <<result>> \in Seq(Nat) /\ <<result>>[1] = result
  BY <1>3, <1>4, NotCallPlaces, AreCallPlaces
<1>10. stack' = <<Enter("literal", 0, 0), Back("definition.literal", <<result>>, Top.token)>>
                 \o Tail(stack)
  BY <1>4, <1>8, CallForms
<1>11. Tracks(Enter("literal", 0, 0), H, pos', C, toks, nodes)
  <2>1. Enter("literal", 0, 0).at = "literal"
    BY <1>9, EnterFacts
  <2> QED
    BY <1>5, <1>6, <1>8, <2>1 DEF Tracks
<1>12. Expects(Back("definition.literal", <<result>>, Top.token), G, H, C, toks, nodes)
  <2> DEFINE own == <<result>>
             f == Back("definition.literal", own, Top.token)
  <2>1. f.at = "definition.literal" /\ f.own[1] = result
    <3>1. own \in Seq(Nat) /\ own[1] = result
      BY <1>9
    <3> HIDE DEF own
    <3>2. f.at = "definition.literal" /\ f.own = own
      BY <1>4, <1>9, <3>1, BackFacts
    <3> HIDE DEF f
    <3> QED
      BY <3>1, <3>2
  <2> HIDE DEF f
  <2>2. Expects(f, G, H, C, toks, nodes)
    BY <1>3, <1>5, <2>1 DEF Expects
  <2> QED
    BY <2>2 DEF f
<1> QED
  BY <1>4, <1>8, <1>9, <1>10, <1>11, <1>12, FollowEnter DEF G

LEMMA AppendToTwo ==
  ASSUME NEW a \in Nat, NEW b \in Nat, NEW c \in Nat
  PROVE  Append(<<a, b>>, c) = <<a, b, c>>
<1> DEFINE S == Append(<<a, b>>, c)
           T == <<a, b, c>>
<1>1. <<a, b>> \in Seq(Nat) /\ Len(<<a, b>>) = 2
  OBVIOUS
<1>2. S \in Seq(Nat) /\ Len(S) = 3 /\ S[3] = c /\ S[1] = a /\ S[2] = b
  <2> DEFINE P == <<a, b>>
  <2>1. P \in Seq(Nat) /\ Len(P) = 2 /\ P[1] = a /\ P[2] = b
    OBVIOUS
  <2> HIDE DEF P
  <2>2. /\ Append(P, c) \in Seq(Nat) /\ Len(Append(P, c)) = 3
        /\ Append(P, c)[3] = c /\ Append(P, c)[1] = a /\ Append(P, c)[2] = b
    <3> DEFINE R == Append(P, c)
    <3>1. /\ R \in Seq(Nat) /\ Len(R) = Len(P) + 1 /\ R[Len(P) + 1] = c
          /\ \A k \in 1..Len(P) : R[k] = P[k]
      BY <2>1, OneMore
    <3> HIDE DEF R
    <3>2. R \in Seq(Nat) /\ Len(R) = 3 /\ R[3] = c /\ R[1] = a /\ R[2] = b
      BY <2>1, <3>1
    <3> QED
      BY <3>2 DEF R
  <2> QED
    BY <2>2 DEF P
<1>3. T \in Seq(Nat) /\ Len(T) = 3 /\ T[1] = a /\ T[2] = b /\ T[3] = c
  OBVIOUS
<1> HIDE DEF S, T
<1>4. \A k \in 1..3 : S[k] = T[k]
  BY <1>2, <1>3
<1>5. S = T
  BY <1>2, <1>3, <1>4
<1> QED
  BY <1>5 DEF S, T

LEMMA FollowNewReturn ==
  ASSUME NEW C, NEW pl, Tracked(C, pl), After, Top.at \in InnerPlaces,
         NEW kind, NEW token, NEW kids, NEW dim, NEW from, NEW to,
         New(kind, token, kids, dim, from, to), kind = "GroupingExpression" => kids # <<Null>>,
         Return(NewPtr), TreeOf(NewPtr, nodes') = pl[1].tree, pos' = pl[1].e
  PROVE  Followed(C)'
<1>1. Grown /\ NewPtr # Null
  BY NewGrown
<1>2. stack' = Tail(stack) /\ result' = NewPtr
  BY DEF Return
<1>3. Met(pl[1], pos', result', nodes')
  BY <1>1, <1>2 DEF Met
<1> QED
  BY <1>1, <1>2, <1>3, FollowReturn

LEMMA DefinitionEndFollows ==
  ASSUME NEW C, NEW pl, Tracked(C, pl), Fine, DefinitionEnd
  PROVE  Followed(C)'
<1> DEFINE G == pl[1]
<1>1. Top.at = "definition.literal"
  BY DEF DefinitionEnd, At
<1>2. Top.at \in CallPlaces /\ Top.at \in InnerPlaces /\ Top.at \in OwnsOne
  BY <1>1, AreCallPlaces DEF InnerPlaces, OuterPlaces, OwnsOne
<1> HIDE DEF G
<1>3. DefinitionGoal(G, toks) /\ TreeOf(result, nodes) = LiteralTree(G.e - 1) /\ pos = G.e - 1
      /\ result \in 1..Len(nodes) /\ result # Null /\ TreeOf(Top.own[1], nodes) = TypedTree(G.n, G.b + 1)
  BY <1>1, <1>2, TopExpects DEF Expects, G
<1>4. /\ IInv /\ CInv /\ MInv /\ stack # <<>> /\ Len(toks) \in Nat /\ Top.own \in Seq(Nat)
      /\ Len(nodes) \in Nat /\ Down(nodes) /\ FrameFine(Top, toks, nodes) /\ nodes \in Seq(Node)
  BY TrackedFacts
<1>5. /\ G.e \in Nat /\ G.e \in 1..Len(toks) /\ toks[G.e] = "NEWLINE"
      /\ G.tree = Tree("VariableDefinition", 0,
                       <<NameTree(G.b + 1), TypeTree(G.b + 3 + G.n), LiteralTree(G.e - 1)>>)
  BY <1>3, <1>4, GoalOfDefinition
<1>6. pos + 1 = G.e /\ pos + 1 \in 1..Len(toks)
  BY <1>3, <1>5
<1>7. Match({"NEWLINE"})
  BY <1>4, <1>5, <1>6, HereMatches
<1> DEFINE v == Top.own[1]
           kids == Append(nodes[v].kids, result)
<1>8. /\ pos' = pos + 1 /\ After /\ Return(NewPtr)
      /\ New("VariableDefinition", NoToken, kids, 0, Top.token, pos)
  BY <1>7 DEF DefinitionEnd, EndsLine, Expect, Advance, After, Fine
<1>9. v \in 1..Len(nodes) /\ nodes[v].kids \in Seq(Nat)
  <2>1. v \in 1..Len(nodes)
    BY <1>2, <1>4 DEF FrameFine
  <2> QED
    BY <1>4, <2>1, NodeFacts DEF Node
<1>10. Len(nodes[v].kids) = 2
  <2>1. PICK b \in Nat, e \in Nat : Pieces(Top, b, e, toks, nodes)
    BY <1>2, <1>3, <1>4, GivenToTop
  <2> QED
    BY <1>1, <2>1 DEF Pieces
<1> DEFINE a == nodes[v].kids[1]
           c == nodes[v].kids[2]
<1>11. nodes[v].kids = <<a, c>> /\ a \in 0..Len(nodes) /\ c \in 0..Len(nodes)
  <2>1. nodes[v].kids = <<a, c>> /\ 1 \in DOMAIN nodes[v].kids /\ 2 \in DOMAIN nodes[v].kids
    BY <1>9, <1>10
  <2>2. a \in 0..(v - 1) /\ c \in 0..(v - 1)
    BY <1>4, <1>9, <2>1 DEF Down
  <2> HIDE DEF v, a, c
  <2>3. a \in 0..Len(nodes) /\ c \in 0..Len(nodes)
    BY <1>4, <1>9, <2>2
  <2> QED
    BY <2>1, <2>3
<1>12. kids = <<a, c, result>>
  <2> HIDE DEF v, a, c
  <2>1. Append(<<a, c>>, result) = <<a, c, result>>
    <3>1. a \in Nat /\ c \in Nat /\ result \in Nat
      BY <1>3, <1>4, <1>11
    <3> QED
      BY <3>1, AppendToTwo
  <2>2. kids = Append(<<a, c>>, result)
    BY <1>11, Zenon
  <2> QED
    BY <2>1, <2>2, Zenon
<1> HIDE DEF v, a, c, kids
<1>13. TreeOf(v, nodes) = Tree(nodes[v].kind, nodes[v].token, <<TreeOf(a, nodes), TreeOf(c, nodes)>>)
  BY <1>4, <1>9, <1>11, TreeOfTwo
<1>14. TreeOf(a, nodes) = NameTree(G.b + 1) /\ TreeOf(c, nodes) = TypeTree(G.b + 3 + G.n)
  <2>1. TreeOf(v, nodes) = Tree("TypedVariable", 0,
                                <<NameTree(G.b + 1), TypeTree((G.b + 1) + 2 + G.n)>>)
    BY <1>3 DEF TypedTree, v
  <2>2. <<TreeOf(a, nodes), TreeOf(c, nodes)>> = <<NameTree(G.b + 1), TypeTree((G.b + 1) + 2 + G.n)>>
    BY <1>13, <2>1, TreeFields
  <2>3. (G.b + 1) + 2 + G.n = G.b + 3 + G.n
    <3>1. G.b \in Nat /\ G.n \in Nat
      BY <1>3, <1>4, GoalOfDefinition
    <3> QED
      BY <3>1
  <2>4. TreeOf(a, nodes) = NameTree(G.b + 1) /\ TreeOf(c, nodes) = TypeTree((G.b + 1) + 2 + G.n)
    <3> HIDE DEF a, c
    <3>1. \A x1, x2, y1, y2 : <<x1, x2>> = <<y1, y2>> => x1 = y1 /\ x2 = y2
      OBVIOUS
    <3> QED
      BY <2>2, <3>1
  <2> QED
    BY <2>3, <2>4, Zenon
<1>15. /\ NewPtr \in 1..Len(nodes') /\ Down(nodes') /\ Len(nodes') \in Nat
       /\ nodes'[NewPtr].kind = "VariableDefinition" /\ nodes'[NewPtr].token = NoToken
       /\ nodes'[NewPtr].kids = <<a, c, result>>
       /\ \A q \in 0..Len(nodes) : TreeOf(q, nodes') = TreeOf(q, nodes)
  BY <1>8, <1>12, NewGrown
<1>16. TreeOf(NewPtr, nodes') = Tree("VariableDefinition", 0,
                                     <<TreeOf(a, nodes'), TreeOf(c, nodes'), TreeOf(result, nodes')>>)
  BY <1>15, TreeOfThree DEF NoToken
<1>17. result \in 0..Len(nodes)
  BY <1>3, <1>4
<1>18. TreeOf(NewPtr, nodes') = G.tree
  BY <1>3, <1>5, <1>11, <1>14, <1>15, <1>16, <1>17
<1>19. pos' = G.e
  BY <1>6, <1>8
<1> QED
  BY <1>2, <1>8, <1>18, <1>19, FollowNewReturn DEF G

----------------------------------------------------------------------------
(* parseTypedVariable, parseType and parseLiteral                          *)

LEMMA GoalOfTyped ==
  ASSUME NEW ts, Len(ts) \in Nat, NEW G, TypedGoal(G, ts)
  PROVE  /\ G.b \in Nat /\ G.n \in Nat /\ G.e \in Nat /\ G.b + 1 \in 1..Len(ts) /\ G.b + 2 \in 1..Len(ts)
         /\ ts[G.b + 1] = "ID" /\ ts[G.b + 2] = "COLON"
         /\ G.tree = Tree("TypedVariable", 0, <<NameTree(G.b + 1), TypeTree(G.b + 3 + G.n)>>)
<1> DEFINE H == Goal(TypeTree(G.b + 3 + G.n), G.b + 2, G.e, G.n, 0)
<1>1. G.b \in Nat /\ ts[G.b + 1] = "ID" /\ ts[G.b + 2] = "COLON" /\ G.tree = TypedTree(G.n, G.b + 1)
      /\ TypeGoal(H, ts)
  BY DEF TypedGoal
<1>2. H.b = G.b + 2 /\ H.e = G.e /\ H.n = G.n
  BY GoalFields
<1> HIDE DEF H
<1>3. G.n \in Nat /\ G.e = (G.b + 2) + 2 * G.n + 1 /\ G.e \in 1..Len(ts)
  BY <1>1, <1>2 DEF TypeGoal
<1>4. G.e \in Nat /\ G.b + 1 \in 1..Len(ts) /\ G.b + 2 \in 1..Len(ts) /\ (G.b + 1) + 2 + G.n = G.b + 3 + G.n
  <2> DEFINE b == G.b
             n == G.n
             e == G.e
  <2>1. b \in Nat /\ n \in Nat /\ e = (b + 2) + 2 * n + 1 /\ e \in 1..Len(ts)
    BY <1>1, <1>3
  <2> HIDE DEF b, n, e
  <2>2. e \in Nat /\ b + 1 \in 1..Len(ts) /\ b + 2 \in 1..Len(ts) /\ (b + 1) + 2 + n = b + 3 + n
    BY <2>1
  <2> QED
    BY <2>2 DEF b, n, e
<1> QED
  BY <1>1, <1>3, <1>4 DEF TypedTree

LEMMA GoalOfType ==
  ASSUME NEW ts, Len(ts) \in Nat, NEW G, TypeGoal(G, ts)
  PROVE  /\ G.b \in Nat /\ G.n \in Nat /\ G.e \in 1..Len(ts) /\ G.b + 1 \in 1..Len(ts) /\ G.e \in Nat
         /\ G.tree = TypeTree(G.b + G.n + 1)
         /\ G.n = 0 => /\ ts[G.b + 1] \in {"ID", "IDSTRING"} /\ G.e = G.b + 1
                       /\ G.tree = TypeTree(G.b + 1)
         /\ G.n # 0 => /\ ts[G.b + 1] = "OPENBRACK" /\ ts[G.e] = "CLOSEBRACK" /\ G.e - 1 \in Nat
                       /\ TypeGoal(Goal(G.tree, G.b + 1, G.e - 1, G.n - 1, 0), ts)
<1> DEFINE b == G.b
           e == G.e
           n == G.n
<1>1. /\ b \in Nat /\ n \in Nat /\ e = b + 2 * n + 1 /\ G.tree = TypeTree(b + n + 1)
      /\ \A k \in 1..n : ts[b + k] = "OPENBRACK" /\ ts[b + n + 1 + k] = "CLOSEBRACK"
      /\ ts[b + n + 1] \in {"ID", "IDSTRING"} /\ e \in 1..Len(ts)
  BY DEF TypeGoal
<1> HIDE DEF b, e, n
<1>2. b + 1 \in 1..Len(ts) /\ e \in Nat
  BY <1>1
<1>3. n = 0 => ts[b + 1] \in {"ID", "IDSTRING"} /\ e = b + 1 /\ G.tree = TypeTree(b + 1)
  <2> SUFFICES ASSUME n = 0
               PROVE  ts[b + 1] \in {"ID", "IDSTRING"} /\ e = b + 1 /\ G.tree = TypeTree(b + 1)
    OBVIOUS
  <2>1. b + n + 1 = b + 1 /\ e = b + 1
    BY <1>1
  <2> QED
    BY <1>1, <2>1
<1>4. ASSUME n # 0
      PROVE  /\ ts[b + 1] = "OPENBRACK" /\ ts[e] = "CLOSEBRACK" /\ e - 1 \in Nat
             /\ TypeGoal(Goal(G.tree, b + 1, e - 1, n - 1, 0), ts)
  <2> DEFINE c == b + 1
             m == n - 1
             H == Goal(G.tree, c, e - 1, m, 0)
  <2>1. 1 \in 1..n /\ n \in 1..n /\ b + n + 1 + n = e /\ e - 1 \in 1..Len(ts) /\ e - 1 \in Nat
        /\ c \in Nat /\ m \in Nat /\ e - 1 = c + 2 * m + 1 /\ c + m + 1 = b + n + 1
    BY <1>1, <1>4
  <2>2. \A k \in 1..m : ts[c + k] = "OPENBRACK" /\ ts[c + m + 1 + k] = "CLOSEBRACK"
    <3> SUFFICES ASSUME NEW k \in 1..m
                 PROVE  ts[c + k] = "OPENBRACK" /\ ts[c + m + 1 + k] = "CLOSEBRACK"
      OBVIOUS
    <3>1. k + 1 \in 1..n /\ k \in 1..n /\ c + k = b + (k + 1) /\ c + m + 1 + k = b + n + 1 + k
      BY <1>1, <1>4
    <3> HIDE DEF c, m
    <3>2. ts[b + (k + 1)] = "OPENBRACK" /\ ts[b + n + 1 + k] = "CLOSEBRACK"
      BY <1>1, <3>1
    <3> QED
      BY <3>1, <3>2
  <2>3. ts[b + 1] = "OPENBRACK" /\ ts[b + n + 1 + n] = "CLOSEBRACK"
    BY <1>1, <2>1
  <2>4. H.tree = G.tree /\ H.b = c /\ H.e = e - 1 /\ H.n = m
    BY GoalFields
  <2> HIDE DEF H, c, m
  <2>5. TypeGoal(H, ts)
    BY <1>1, <2>1, <2>2, <2>4 DEF TypeGoal
  <2> QED
    BY <2>1, <2>3, <2>5 DEF H, c, m
<1> QED
  BY <1>1, <1>2, <1>3, <1>4 DEF b, e, n

(* A new leaf and its tree.                                                *)
LEMMA NewLeaf ==
  ASSUME NEW C, NEW pl, Tracked(C, pl), After, NEW kind, NEW token, NEW dim, NEW from, NEW to,
         New(kind, token, <<>>, dim, from, to)
  PROVE  /\ TreeOf(NewPtr, nodes') = Tree(kind, token, <<>>) /\ Grown /\ NewPtr \in Nat
         /\ NewPtr \in 1..Len(nodes')
<1> DEFINE kids == <<>>
<1>1. kids # <<Null>> /\ New(kind, token, kids, dim, from, to)
  OBVIOUS
<1> HIDE DEF kids
<1>2. /\ Grown /\ NewPtr \in 1..Len(nodes') /\ Down(nodes') /\ Len(nodes') \in Nat
      /\ nodes'[NewPtr].kind = kind /\ nodes'[NewPtr].token = token /\ nodes'[NewPtr].kids = kids
  BY <1>1, NewGrown
<1>3. nodes'[NewPtr].kids = <<>>
  BY <1>2 DEF kids
<1>4. TreeOf(NewPtr, nodes') = Tree(nodes'[NewPtr].kind, nodes'[NewPtr].token, <<>>)
  BY <1>2, <1>3, TreeOfLeaf
<1> QED
  BY <1>2, <1>4

LEMMA TypedVariableFollows ==
  ASSUME NEW C, NEW pl, Tracked(C, pl), Fine, TypedVariable
  PROVE  Followed(C)'
<1> DEFINE G == pl[1]
<1>1. Top.at = "typedVariable"
  BY DEF TypedVariable, At
<1>2. Top.at \notin CallPlaces
  BY <1>1, NotCallPlaces
<1> HIDE DEF G
<1>3. pos = G.b /\ TypedGoal(G, toks)
  BY <1>1, <1>2, TopTracks DEF Tracks, G
<1>4. IInv /\ stack # <<>> /\ Len(toks) \in Nat /\ pos \in Nat
  BY TrackedFacts
<1>5. pos + 1 \in 1..Len(toks) /\ toks[pos + 1] = "ID"
  BY <1>3, <1>4, GoalOfTyped
<1>6. Match({"ID"})
  BY <1>4, <1>5, HereMatches
<1>7. /\ pos' = pos + 1 /\ After /\ New("Identifier", pos + 1, <<>>, 0, pos + 1, pos + 1)
      /\ GoOn([Top EXCEPT !.at = "typedVariable.colon", !.own = <<NewPtr>>])
  BY <1>6 DEF TypedVariable, Advance, After, Fine
<1>8. TreeOf(NewPtr, nodes') = NameTree(pos + 1) /\ Grown /\ NewPtr \in Nat
  BY <1>7, NewLeaf DEF NameTree
<1> DEFINE own == <<NewPtr>>
<1>9. own \in Seq(Nat) /\ own[1] = NewPtr
  BY <1>8
<1>10. GoOn([Top EXCEPT !.at = "typedVariable.colon", !.own = own])
  BY <1>7
<1> HIDE DEF own
<1>11. "typedVariable.colon" \in Places \ CallPlaces
  BY NotCallPlaces
<1>12. stack' = <<Back("typedVariable.colon", own, Top.token)>> \o Tail(stack)
  BY <1>4, <1>10, GoOnForms
<1>13. Tracks(Back("typedVariable.colon", own, Top.token), G, pos', C, toks, nodes')
  <2> DEFINE f == Back("typedVariable.colon", own, Top.token)
  <2>1. Top.token \in Nat
    BY TrackedFacts
  <2>2. f.at = "typedVariable.colon" /\ f.own = own
    BY <1>4, <1>9, <1>11, <2>1, BackFacts
  <2> HIDE DEF f
  <2>3. Tracks(f, G, pos', C, toks, nodes')
    BY <1>3, <1>7, <1>8, <1>9, <2>2 DEF Tracks
  <2> QED
    BY <2>3 DEF f
<1> QED
  BY <1>8, <1>9, <1>11, <1>12, <1>13, FollowMove DEF G

LEMMA TypedVariableColonFollows ==
  ASSUME NEW C, NEW pl, Tracked(C, pl), Fine, TypedVariableColon
  PROVE  Followed(C)'
<1> DEFINE G == pl[1]
           H == Goal(TypeTree(G.b + 3 + G.n), G.b + 2, G.e, G.n, 0)
<1>1. Top.at = "typedVariable.colon"
  BY DEF TypedVariableColon, At
<1>2. Top.at \notin CallPlaces
  BY <1>1, NotCallPlaces
<1> HIDE DEF G
<1>3. pos = G.b + 1 /\ TypedGoal(G, toks) /\ TreeOf(Top.own[1], nodes) = NameTree(G.b + 1)
  BY <1>1, <1>2, TopTracks DEF Tracks, G
<1>4. IInv /\ stack # <<>> /\ Len(toks) \in Nat /\ pos \in Nat /\ Top.own \in Seq(Nat) /\ Top.token \in Nat
  BY TrackedFacts
<1>5. TypeGoal(H, toks)
  BY <1>3 DEF TypedGoal
<1>6. H.tree = TypeTree(G.b + 3 + G.n) /\ H.b = G.b + 2 /\ H.e = G.e
  BY GoalFields
<1> HIDE DEF H
<1>7. pos + 1 = G.b + 2 /\ pos + 1 \in 1..Len(toks) /\ toks[pos + 1] = "COLON"
  <2>1. G.b \in Nat /\ G.b + 2 \in 1..Len(toks) /\ toks[G.b + 2] = "COLON"
    BY <1>3, <1>4, GoalOfTyped
  <2>2. pos + 1 = G.b + 2
    BY <1>3, <2>1
  <2> QED
    BY <2>1, <2>2
<1>8. Match({"COLON"})
  BY <1>4, <1>7, HereMatches
<1>9. /\ pos' = pos + 1 /\ After /\ nodes' = nodes /\ Call(Enter("type", 0, 0), "typedVariable.type")
  BY <1>8 DEF TypedVariableColon, Advance, After, Fine
<1>10. "type" \in Places \ CallPlaces /\ "typedVariable.type" \in Places /\ 0 \in Nat
  BY NotCallPlaces, AreCallPlaces
<1>11. stack' = <<Enter("type", 0, 0), Back("typedVariable.type", Top.own, Top.token)>> \o Tail(stack)
  BY <1>4, <1>9, CallForms
<1>12. Tracks(Enter("type", 0, 0), H, pos', C, toks, nodes)
  <2>1. Enter("type", 0, 0).at = "type"
    BY <1>10, EnterFacts
  <2> QED
    BY <1>5, <1>6, <1>7, <1>9, <2>1 DEF Tracks
<1>13. Expects(Back("typedVariable.type", Top.own, Top.token), G, H, C, toks, nodes)
  <2>1. /\ Back("typedVariable.type", Top.own, Top.token).at = "typedVariable.type"
        /\ Back("typedVariable.type", Top.own, Top.token).own = Top.own
    BY <1>4, <1>10, BackFacts
  <2> QED
    BY <1>3, <1>6, <2>1 DEF Expects
<1> QED
  BY <1>4, <1>9, <1>10, <1>11, <1>12, <1>13, FollowEnter DEF G

LEMMA TypedVariableEndFollows ==
  ASSUME NEW C, NEW pl, Tracked(C, pl), Fine, TypedVariableEnd
  PROVE  Followed(C)'
<1> DEFINE G == pl[1]
           v == Top.own[1]
           kids == <<v, result>>
<1>1. Top.at = "typedVariable.type" /\ pos' = pos /\ After /\ Return(NewPtr)
      /\ New("TypedVariable", NoToken, kids, 0, nodes[v].from, pos)
  BY DEF TypedVariableEnd, At, After, Fine
<1>2. Top.at \in CallPlaces /\ Top.at \in InnerPlaces /\ Top.at \in OwnsOne
  BY <1>1, AreCallPlaces DEF InnerPlaces, OuterPlaces, OwnsOne
<1> HIDE DEF G
<1>3. TypedGoal(G, toks) /\ TreeOf(result, nodes) = TypeTree(G.b + 3 + G.n) /\ pos = G.e
      /\ result \in 1..Len(nodes) /\ result # Null /\ TreeOf(v, nodes) = NameTree(G.b + 1)
  BY <1>1, <1>2, TopExpects DEF Expects, G
<1>4. Len(toks) \in Nat /\ Len(nodes) \in Nat /\ FrameFine(Top, toks, nodes)
  BY TrackedFacts
<1>5. v \in 0..Len(nodes) /\ result \in 0..Len(nodes)
  BY <1>2, <1>3, <1>4 DEF FrameFine
<1> HIDE DEF v
<1>6. /\ NewPtr \in 1..Len(nodes') /\ Down(nodes') /\ Len(nodes') \in Nat
      /\ nodes'[NewPtr].kind = "TypedVariable" /\ nodes'[NewPtr].token = NoToken
      /\ nodes'[NewPtr].kids = kids
      /\ \A q \in 0..Len(nodes) : TreeOf(q, nodes') = TreeOf(q, nodes)
  <2> HIDE DEF kids
  <2> QED
    BY <1>1, NewGrown
<1>7. nodes'[NewPtr].kids = <<v, result>>
  BY <1>6
<1>8. TreeOf(NewPtr, nodes') = Tree("TypedVariable", 0, <<TreeOf(v, nodes'), TreeOf(result, nodes')>>)
  BY <1>6, <1>7, TreeOfTwo DEF NoToken
<1>9. G.tree = Tree("TypedVariable", 0, <<NameTree(G.b + 1), TypeTree(G.b + 3 + G.n)>>)
  BY <1>3, <1>4, GoalOfTyped
<1>10. TreeOf(NewPtr, nodes') = G.tree
  BY <1>3, <1>5, <1>6, <1>8, <1>9
<1> HIDE DEF kids
<1>11. "TypedVariable" # "GroupingExpression"
  OBVIOUS
<1> QED
  BY <1>1, <1>2, <1>3, <1>10, <1>11, FollowNewReturn DEF G

LEMMA TypeFollows ==
  ASSUME NEW C, NEW pl, Tracked(C, pl), Fine, Type
  PROVE  Followed(C)'
<1> DEFINE G == pl[1]
           H == Goal(G.tree, G.b + 1, G.e - 1, G.n - 1, 0)
<1>1. Top.at = "type" /\ toks' = toks
  BY DEF Type, At
<1>2. Top.at \notin CallPlaces /\ Top.at \in InnerPlaces
  BY <1>1, NotCallPlaces DEF InnerPlaces, OuterPlaces
<1> HIDE DEF G
<1>3. pos = G.b /\ TypeGoal(G, toks)
  BY <1>1, <1>2, TopTracks DEF Tracks, G
<1>4. IInv /\ stack # <<>> /\ Len(toks) \in Nat /\ pos \in Nat /\ Top.own \in Seq(Nat) /\ Top.token \in Nat
  BY TrackedFacts
<1>5. pos + 1 \in 1..Len(toks) /\ G.n \in Nat /\ G.e \in Nat
  BY <1>3, <1>4, GoalOfType
<1>6. CASE G.n = 0
  <2>1. toks[pos + 1] \in {"ID", "IDSTRING"} /\ G.e = pos + 1 /\ G.tree = TypeTree(pos + 1)
    BY <1>3, <1>4, <1>6, GoalOfType
  <2>2. Match({"ID", "IDSTRING"}) /\ Match({"ID", "IDSTRING", "OPENBRACK"}) /\ ~Match({"OPENBRACK"})
    BY <1>4, <1>5, <2>1, HereMatches
  <2>3. pos' = pos + 1 /\ After /\ New("Type", pos + 1, <<>>, 0, pos + 1, pos + 1) /\ Return(NewPtr)
    BY <2>2 DEF Type, Expect, Advance, After, Fine
  <2>4. TreeOf(NewPtr, nodes') = G.tree /\ Grown
    BY <2>1, <2>3, NewLeaf DEF TypeTree
  <2>5. "Type" # "GroupingExpression" /\ pos' = G.e
    BY <2>1, <2>3
  <2> QED
    BY <1>2, <2>3, <2>4, <2>5, FollowNewReturn DEF G
<1>7. CASE G.n # 0
  <2>1. toks[pos + 1] = "OPENBRACK" /\ TypeGoal(H, toks)
    BY <1>3, <1>4, <1>7, GoalOfType
  <2>2. H.tree = G.tree /\ H.b = G.b + 1 /\ H.e = G.e - 1
    BY GoalFields
  <2> HIDE DEF H
  <2>3. Match({"OPENBRACK"}) /\ Match({"ID", "IDSTRING", "OPENBRACK"}) /\ ~Match({"ID", "IDSTRING"})
    BY <1>4, <1>5, <2>1, HereMatches
  <2>4. /\ pos' = pos + 1 /\ After /\ nodes' = nodes
        /\ CallFrom([Top EXCEPT !.at = "type.bracket", !.token = pos + 1], Enter("type", 0, 0))
    BY <2>3 DEF Type, Expect, Advance, After, Fine
  <2> DEFINE t == pos + 1
  <2>5. t \in Nat /\ CallFrom([Top EXCEPT !.at = "type.bracket", !.token = t], Enter("type", 0, 0))
    BY <1>4, <2>4
  <2> HIDE DEF t
  <2>6. "type" \in Places \ CallPlaces /\ "type.bracket" \in Places /\ 0 \in Nat
    BY NotCallPlaces, AreCallPlaces
  <2>7. stack' = <<Enter("type", 0, 0), Back("type.bracket", Top.own, t)>> \o Tail(stack)
    BY <1>4, <2>5, CallForms
  <2>8. Tracks(Enter("type", 0, 0), H, pos', C, toks, nodes)
    <3>1. Enter("type", 0, 0).at = "type"
      BY <2>6, EnterFacts
    <3> QED
      BY <1>3, <2>1, <2>2, <2>4, <3>1 DEF Tracks
  <2>9. Expects(Back("type.bracket", Top.own, t), G, H, C, toks, nodes)
    <3>1. Back("type.bracket", Top.own, t).at = "type.bracket"
      BY <1>4, <2>5, <2>6, BackFacts
    <3>2. G.n >= 1
      BY <1>5, <1>7
    <3> QED
      BY <1>3, <2>2, <3>1, <3>2 DEF Expects
  <2> QED
    BY <1>4, <2>4, <2>5, <2>6, <2>7, <2>8, <2>9, FollowEnter DEF G
<1> QED
  BY <1>6, <1>7

LEMMA TypeBracketFollows ==
  ASSUME NEW C, NEW pl, Tracked(C, pl), Fine, TypeBracket
  PROVE  Followed(C)'
<1> DEFINE G == pl[1]
<1>1. Top.at = "type.bracket"
  BY DEF TypeBracket, At
<1>2. Top.at \in CallPlaces /\ Top.at \in InnerPlaces
  BY <1>1, AreCallPlaces DEF InnerPlaces, OuterPlaces
<1> HIDE DEF G
<1>3. TypeGoal(G, toks) /\ G.n >= 1 /\ TreeOf(result, nodes) = G.tree /\ pos = G.e - 1
      /\ result \in 1..Len(nodes)
  BY <1>1, <1>2, TopExpects DEF Expects, G
<1>4. IInv /\ stack # <<>> /\ Len(toks) \in Nat /\ pos \in Nat /\ Len(nodes) \in Nat /\ Down(nodes)
  BY TrackedFacts
<1>5. G.e \in Nat /\ G.e \in 1..Len(toks) /\ toks[G.e] = "CLOSEBRACK" /\ G.tree = TypeTree(G.b + G.n + 1)
  <2>1. G.n # 0
    BY <1>3
  <2> QED
    BY <1>3, <1>4, <2>1, GoalOfType
<1>6. pos + 1 = G.e /\ pos + 1 \in 1..Len(toks)
  BY <1>3, <1>5
<1>7. Match({"CLOSEBRACK"})
  BY <1>4, <1>5, <1>6, HereMatches
<1> DEFINE dim == nodes[result].dim + 1
           token == nodes[result].token
           from == Top.token
           to == pos + 1
<1>8. pos' = pos + 1 /\ After /\ Return(NewPtr) /\ New("Type", token, <<>>, dim, from, to)
  BY <1>7 DEF TypeBracket, Expect, Advance, After, Fine
<1>9. G.tree = Tree("Type", token, <<>>)
  <2>1. TreeOf(result, nodes).token = token
    BY <1>3, <1>4, SameTop
  <2>2. G.tree = Tree("Type", G.b + G.n + 1, <<>>) /\ G.tree.token = G.b + G.n + 1
    BY <1>5, TreeFields DEF TypeTree
  <2> QED
    BY <1>3, <2>1, <2>2
<1> HIDE DEF dim, token, from, to
<1>10. TreeOf(NewPtr, nodes') = G.tree
  BY <1>8, <1>9, NewLeaf
<1>11. "Type" # "GroupingExpression" /\ pos' = G.e
  BY <1>6, <1>8
<1> QED
  BY <1>2, <1>8, <1>10, <1>11, FollowNewReturn DEF G

LEMMA LiteralFollows ==
  ASSUME NEW C, NEW pl, Tracked(C, pl), Fine, Literal
  PROVE  Followed(C)'
<1> DEFINE G == pl[1]
<1>1. Top.at = "literal"
  BY DEF Literal, At
<1>2. Top.at \notin CallPlaces /\ Top.at \in InnerPlaces
  BY <1>1, NotCallPlaces DEF InnerPlaces, OuterPlaces
<1> HIDE DEF G
<1>3. pos = G.b /\ LiteralGoal(G, toks)
  BY <1>1, <1>2, TopTracks DEF Tracks, G
<1>4. IInv /\ stack # <<>>
  BY TrackedFacts
<1>5. pos + 1 \in 1..Len(toks) /\ toks[pos + 1] \in Literals /\ G.e = pos + 1 /\ G.tree = LiteralTree(pos + 1)
  BY <1>3 DEF LiteralGoal
<1>6. Match(Literals)
  BY <1>4, <1>5, HereMatches
<1>7. pos' = pos + 1 /\ After /\ New("Literal", pos + 1, <<>>, 0, pos + 1, pos + 1) /\ Return(NewPtr)
  BY <1>6 DEF Literal, Expect, Advance, After, Fine
<1>8. TreeOf(NewPtr, nodes') = G.tree
  BY <1>5, <1>7, NewLeaf DEF LiteralTree
<1>9. "Literal" # "GroupingExpression" /\ pos' = G.e
  BY <1>5, <1>7
<1> QED
  BY <1>2, <1>7, <1>8, <1>9, FollowNewReturn DEF G

----------------------------------------------------------------------------
(* parseStatement and parseSimpleStatement                                 *)

LEMMA GoalOfAssignment ==
  ASSUME NEW ts, Len(ts) \in Nat, NEW G, NEW j, AssignmentIs(G, j, ts)
  PROVE  /\ G.b \in Nat /\ G.n \in Nat /\ G.n >= 1 /\ j \in 1..Len(ts) /\ j \in Nat /\ ts[j] = "NEWLINE"
         /\ G.b + 2 * G.n + 1 < j /\ G.b + 1 \in 1..Len(ts) /\ G.b + 2 \in 1..Len(ts)
         /\ ts[G.b + 1] = "ID" /\ ts[G.b + 2] = "ASSIGN"
         /\ \A k \in 1..G.n : ts[G.b + 2 * k - 1] = "ID" /\ ts[G.b + 2 * k] = "ASSIGN"
         /\ Derives(G.x, 1, G.b + 2 * G.n + 1, j - 1, ts)
         /\ G.tree = AssignmentTree(G.n, G.x, G.b + 1)
<1> DEFINE b == G.b
           n == G.n
           i == b + 1
<1>1. /\ b \in Nat /\ n \in Nat /\ n >= 1 /\ j \in 1..Len(ts) /\ ts[j] = "NEWLINE"
      /\ TargetsLine(n, i, j, ts) /\ Derives(G.x, 1, i + 2 * n, j - 1, ts)
      /\ G.tree = AssignmentTree(n, G.x, i) /\ i = b + 1
  BY DEF AssignmentIs, EndsAt
<1> HIDE DEF b, n, i
<1>2. i + 2 * n < j /\ \A k \in 1..n : ts[i + 2 * k - 2] = "ID" /\ ts[i + 2 * k - 1] = "ASSIGN"
  BY <1>1 DEF TargetsLine
<1>3. i + 2 * n = b + 2 * n + 1 /\ b + 2 * n + 1 < j /\ b + 1 \in 1..Len(ts) /\ b + 2 \in 1..Len(ts) /\ j \in Nat
      /\ 1 \in 1..n
  BY <1>1, <1>2
<1>4. \A k \in 1..n : ts[b + 2 * k - 1] = "ID" /\ ts[b + 2 * k] = "ASSIGN"
  <2> SUFFICES ASSUME NEW k \in 1..n
               PROVE  ts[b + 2 * k - 1] = "ID" /\ ts[b + 2 * k] = "ASSIGN"
    OBVIOUS
  <2>1. k \in Int /\ i + 2 * k - 2 = b + 2 * k - 1 /\ i + 2 * k - 1 = b + 2 * k
    BY <1>1
  <2> QED
    BY <1>2, <2>1
<1>5. ts[b + 1] = "ID" /\ ts[b + 2] = "ASSIGN"
  <2>1. ts[b + 2 * 1 - 1] = "ID" /\ ts[b + 2 * 1] = "ASSIGN"
    BY <1>3, <1>4
  <2>2. b + 2 * 1 - 1 = b + 1 /\ b + 2 * 1 = b + 2
    BY <1>1
  <2> QED
    BY <2>1, <2>2
<1> QED
  BY <1>1, <1>3, <1>4, <1>5 DEF b, n, i

LEMMA StatementFollows ==
  ASSUME NEW C, NEW pl, Tracked(C, pl), Fine, Statement
  PROVE  Followed(C)'
<1> DEFINE G == pl[1]
           e == G.e - 1
           H == Goal(G.tree, G.b, e, G.n, G.x)
<1>1. Top.at = "statement"
  BY DEF Statement, At
<1>2. Top.at \notin CallPlaces
  BY <1>1, NotCallPlaces
<1> HIDE DEF G
<1>3. pos = G.b /\ AssignmentIs(G, G.e, toks)
  BY <1>1, <1>2, TopTracks DEF Tracks, G
<1>4. IInv /\ stack # <<>> /\ Len(toks) \in Nat /\ pos \in Nat /\ Top.own \in Seq(Nat) /\ Top.token \in Nat
  BY TrackedFacts
<1>5. /\ pos + 1 \in 1..Len(toks) /\ pos + 2 \in 1..Len(toks) /\ toks[pos + 1] = "ID"
      /\ toks[pos + 2] = "ASSIGN" /\ G.e \in Nat /\ G.n \in Nat
  BY <1>3, <1>4, GoalOfAssignment
<1>6. Match(SimpleStarts) /\ Next1 = "ASSIGN" /\ Match(SimpleStarts \cup Compound) /\ ~Match(Compound)
  <2>1. Current = "ID" /\ Next1 = "ASSIGN"
    BY <1>4, <1>5, HereTokens
  <2> QED
    BY <2>1 DEF Match, SimpleStarts, Compound
<1>7. pos' = pos /\ After /\ nodes' = nodes /\ Call(Enter("assignment", 0, pos + 1), "statement.simple")
  BY <1>6 DEF Statement, After, Fine
<1>8. e + 1 = G.e /\ e \in Nat /\ H.tree = G.tree /\ H.b = G.b /\ H.e = e /\ H.n = G.n /\ H.x = G.x
  <2>1. G.e \in 1..Len(toks)
    BY <1>3, <1>4, GoalOfAssignment
  <2> QED
    BY <1>4, <1>5, <2>1, GoalFields
<1> HIDE DEF H, e
<1>9. AssignmentIs(H, H.e + 1, toks)
  BY <1>3, <1>8 DEF AssignmentIs
<1>10. "assignment" \in Places \ CallPlaces /\ "statement.simple" \in Places /\ 0 \in Nat
  BY NotCallPlaces, AreCallPlaces
<1> DEFINE t == pos + 1
<1>11. t \in Nat /\ Call(Enter("assignment", 0, t), "statement.simple")
  BY <1>4, <1>7
<1> HIDE DEF t
<1>12. stack' = <<Enter("assignment", 0, t), Back("statement.simple", Top.own, Top.token)>> \o Tail(stack)
  BY <1>4, <1>11, CallForms
<1>13. Tracks(Enter("assignment", 0, t), H, pos', C, toks, nodes)
  <2> DEFINE f == Enter("assignment", 0, t)
  <2>1. f.at = "assignment" /\ f.own = <<>>
    BY <1>10, <1>11, EnterFacts
  <2> HIDE DEF f
  <2>2. Len(f.own) = 0
    BY <2>1
  <2>3. Len(f.own) <= H.n /\ pos' = H.b + 2 * Len(f.own)
    BY <1>3, <1>4, <1>5, <1>7, <1>8, <2>2
  <2>4. TargetsOwned(f.own, H.b, nodes)
    BY <2>2 DEF TargetsOwned
  <2>5. Tracks(f, H, pos', C, toks, nodes)
    BY <1>8, <1>9, <2>1, <2>3, <2>4 DEF Tracks
  <2> QED
    BY <2>5 DEF f
<1>14. Expects(Back("statement.simple", Top.own, Top.token), G, H, C, toks, nodes)
  <2>1. Back("statement.simple", Top.own, Top.token).at = "statement.simple"
    BY <1>4, <1>10, BackFacts
  <2> QED
    BY <1>3, <1>8, <2>1 DEF Expects, e
<1> QED
  BY <1>4, <1>7, <1>10, <1>11, <1>12, <1>13, <1>14, FollowEnter DEF G

LEMMA StatementEndFollows ==
  ASSUME NEW C, NEW pl, Tracked(C, pl), Fine, StatementEnd
  PROVE  Followed(C)'
<1> DEFINE G == pl[1]
<1>1. Top.at = "statement.simple"
  BY DEF StatementEnd, At
<1>2. Top.at \in CallPlaces /\ Top.at \in InnerPlaces
  BY <1>1, AreCallPlaces DEF InnerPlaces, OuterPlaces
<1> HIDE DEF G
<1>3. AssignmentIs(G, G.e, toks) /\ TreeOf(result, nodes) = G.tree /\ pos = G.e - 1 /\ result # Null
  BY <1>1, <1>2, TopExpects DEF Expects, G
<1>4. IInv /\ stack # <<>> /\ Len(toks) \in Nat
  BY TrackedFacts
<1>5. pos + 1 = G.e /\ pos + 1 \in 1..Len(toks) /\ toks[pos + 1] = "NEWLINE"
  <2>1. G.e \in Nat /\ G.e \in 1..Len(toks) /\ toks[G.e] = "NEWLINE"
    BY <1>3, <1>4, GoalOfAssignment
  <2>2. pos + 1 = G.e
    BY <1>3, <2>1
  <2> QED
    BY <2>1, <2>2
<1>6. Match({"NEWLINE"})
  BY <1>4, <1>5, HereMatches
<1>7. pos' = pos + 1 /\ After /\ nodes' = nodes /\ Return(result)
  BY <1>6 DEF StatementEnd, EndsLine, Expect, Advance, After, Fine
<1>8. Grown /\ stack' = Tail(stack) /\ result' = result
  BY <1>7, SameGrown DEF Return
<1>9. Met(G, pos', result', nodes')
  BY <1>3, <1>5, <1>7, <1>8 DEF Met
<1> QED
  BY <1>2, <1>8, <1>9, FollowReturn DEF G

----------------------------------------------------------------------------
(* parseAssignmentStatement                                                *)

LEMMA GoalInAssignment ==
  ASSUME NEW ts, Len(ts) \in Nat, NEW G, G.e \in Nat, AssignmentIs(G, G.e + 1, ts)
  PROVE  /\ G.b \in Nat /\ G.n \in Nat /\ G.n >= 1 /\ G.e + 1 \in Nat /\ ts[G.e + 1] = "NEWLINE"
         /\ G.e + 1 \in 1..Len(ts) /\ Derives(G.x, 1, G.b + 2 * G.n + 1, G.e, ts)
         /\ G.b + 2 * G.n + 1 < G.e + 1
         /\ \A k \in 1..G.n : ts[G.b + 2 * k - 1] = "ID" /\ ts[G.b + 2 * k] = "ASSIGN"
         /\ G.tree = AssignmentTree(G.n, G.x, G.b + 1)
<1> DEFINE j == G.e + 1
<1>1. j - 1 = G.e /\ j \in Nat
  OBVIOUS
<1> HIDE DEF j
<1>2. /\ G.b \in Nat /\ G.n \in Nat /\ G.n >= 1 /\ j \in 1..Len(ts) /\ ts[j] = "NEWLINE"
      /\ G.b + 2 * G.n + 1 < j /\ Derives(G.x, 1, G.b + 2 * G.n + 1, j - 1, ts)
      /\ \A k \in 1..G.n : ts[G.b + 2 * k - 1] = "ID" /\ ts[G.b + 2 * k] = "ASSIGN"
      /\ G.tree = AssignmentTree(G.n, G.x, G.b + 1)
  <2>1. AssignmentIs(G, j, ts)
    BY DEF j
  <2> QED
    BY <2>1, GoalOfAssignment
<1> QED
  BY <1>1, <1>2 DEF j

LEMMA AssignmentTargetFollows ==
  ASSUME NEW C, NEW pl, Tracked(C, pl), Fine, AssignmentTarget
  PROVE  Followed(C)'
<1> DEFINE G == pl[1]
           m == Len(Top.own)
           own == Append(Top.own, NewPtr)
<1>1. /\ Top.at = "assignment" /\ StartsTarget /\ pos' = pos + 2 /\ After
      /\ New("Identifier", pos + 1, <<>>, 0, pos + 1, pos + 1) /\ GoOn([Top EXCEPT !.own = own])
  BY DEF AssignmentTarget, At, After, Fine
<1>2. Top.at \notin CallPlaces
  BY <1>1, NotCallPlaces
<1> HIDE DEF G
<1>3. AssignmentIs(G, G.e + 1, toks) /\ G.e \in Nat /\ m <= G.n /\ pos = G.b + 2 * m /\ TargetsOwned(Top.own, G.b, nodes)
  BY <1>1, <1>2, TopTracks DEF Tracks, G
<1>4. IInv /\ stack # <<>> /\ Len(toks) \in Nat /\ pos \in Nat /\ Top.own \in Seq(Nat) /\ Top.token \in Nat
      /\ m \in Nat /\ FrameFine(Top, toks, nodes) /\ Len(nodes) \in Nat
  BY TrackedFacts
<1> HIDE DEF m, own
<1>5. /\ G.b \in Nat /\ G.n \in Nat /\ G.e + 1 \in Nat /\ toks[G.e + 1] = "NEWLINE"
      /\ G.e + 1 \in 1..Len(toks) /\ Derives(G.x, 1, G.b + 2 * G.n + 1, G.e, toks)
      /\ G.b + 2 * G.n + 1 < G.e + 1
  BY <1>3, <1>4, GoalInAssignment
<1>6. m < G.n
  <2> SUFFICES ASSUME m = G.n
               PROVE  FALSE
    BY <1>3, <1>4, <1>5
  <2> DEFINE j == G.e + 1
             i == G.b + 2 * G.n + 1
  <2>1. toks[pos + 2] = "ASSIGN" /\ pos + 2 \in 1..Len(toks)
    <3>1. Next1 = "ASSIGN"
      BY <1>1 DEF StartsTarget
    <3> QED
      BY <1>4, <3>1, InRange
  <2>2. Inside(i, j - 1, toks)
    <3>1. j - 1 = G.e
      BY <1>3
    <3>2. Inside(i, G.e, toks)
      BY <1>4, <1>5, DerivedInside
    <3> QED
      BY <3>1, <3>2
  <2>3. pos + 2 = i + 1 /\ i \in Nat /\ j \in Nat /\ i < j
    BY <1>3, <1>5
  <2>4. toks[j] = "NEWLINE" /\ "ASSIGN" # "NEWLINE" /\ "ASSIGN" \in Between
    BY <1>5 DEF Between
  <2> HIDE DEF i, j
  <2>5. CASE i + 1 = j
    BY <2>1, <2>3, <2>4, <2>5
  <2>6. CASE i + 1 # j
    <3>1. i + 1 \in i..(j - 1)
      BY <2>3, <2>6
    <3> QED
      BY <2>1, <2>2, <2>3, <2>4, <3>1 DEF Inside
  <2> QED
    BY <2>5, <2>6
<1>7. /\ TreeOf(NewPtr, nodes') = NameTree(pos + 1) /\ Grown /\ NewPtr \in Nat
  BY <1>1, NewLeaf DEF NameTree
<1>8. /\ own \in Seq(Nat) /\ Len(own) = m + 1 /\ own[m + 1] = NewPtr
      /\ \A k \in 1..m : own[k] = Top.own[k]
      /\ \A k \in 1..Len(own) : k \in 1..m \/ k = m + 1
  BY <1>4, <1>7, OneMore DEF own, m
<1>9. TargetsOwned(own, G.b, nodes')
  <2> SUFFICES ASSUME NEW k \in 1..Len(own)
               PROVE  TreeOf(own[k], nodes') = NameTree(G.b + 2 * k - 1)
    BY DEF TargetsOwned
  <2>1. CASE k \in 1..m
    <3>1. own[k] = Top.own[k] /\ Top.own[k] \in 1..Len(nodes)
          /\ TreeOf(Top.own[k], nodes) = NameTree(G.b + 2 * k - 1)
      BY <1>3, <1>4, <1>8, <2>1 DEF TargetsOwned, FrameFine, m
    <3> DEFINE q == Top.own[k]
    <3>2. q \in 0..Len(nodes)
      BY <1>4, <3>1
    <3> HIDE DEF q
    <3>3. TreeOf(q, nodes') = TreeOf(q, nodes)
      <4>1. Grows(nodes, nodes') /\ Down(nodes')
        BY <1>7 DEF Grown
      <4> QED
        BY <3>2, <4>1, TreesGrow
    <3> QED
      BY <3>1, <3>3 DEF q
  <2>2. CASE k = m + 1
    <3>1. own[k] = NewPtr /\ pos + 1 = G.b + 2 * k - 1
      <4> DEFINE b == G.b
      <4>1. b \in Nat /\ pos = b + 2 * m
        BY <1>3, <1>5
      <4> HIDE DEF b
      <4>2. pos + 1 = b + 2 * (m + 1) - 1
        BY <1>4, <4>1
      <4> QED
        BY <1>8, <2>2, <4>2 DEF b
    <3> QED
      BY <1>7, <3>1
  <2> QED
    BY <1>8, <2>1, <2>2
<1>10. "assignment" \in Places \ CallPlaces
  BY NotCallPlaces
<1>11. stack' = <<Back("assignment", own, Top.token)>> \o Tail(stack)
  BY <1>1, <1>4, OwnForms
<1>12. Tracks(Back("assignment", own, Top.token), G, pos', C, toks, nodes')
  <2> DEFINE f == Back("assignment", own, Top.token)
  <2>1. f.at = "assignment" /\ f.own = own
    BY <1>4, <1>8, <1>10, BackFacts
  <2> HIDE DEF f
  <2>2. Len(f.own) <= G.n /\ pos' = G.b + 2 * Len(f.own)
    <3>1. m + 1 <= G.n /\ pos + 2 = G.b + 2 * (m + 1)
      <4> DEFINE n == G.n
                 b == G.b
      <4>1. n \in Nat /\ b \in Nat /\ m < n /\ pos = b + 2 * m
        BY <1>3, <1>5, <1>6
      <4> HIDE DEF n, b
      <4>2. m + 1 <= n /\ pos + 2 = b + 2 * (m + 1)
        BY <1>4, <4>1
      <4> QED
        BY <4>2 DEF n, b
    <3> QED
      BY <1>1, <1>8, <2>1, <3>1
  <2>3. Tracks(f, G, pos', C, toks, nodes')
    BY <1>3, <1>9, <2>1, <2>2 DEF Tracks
  <2> QED
    BY <2>3 DEF f
<1> QED
  BY <1>7, <1>8, <1>10, <1>11, <1>12, FollowMove DEF G

LEMMA AssignmentExpressionFollows ==
  ASSUME NEW C, NEW pl, Tracked(C, pl), Fine, AssignmentExpression
  PROVE  Followed(C)'
<1> DEFINE G == pl[1]
           m == Len(Top.own)
           H == Goal(G.x, pos, G.e, 0, 0)
<1>1. /\ Top.at = "assignment" /\ ~StartsTarget /\ pos' = pos /\ After /\ nodes' = nodes
      /\ Call(Enter("expression", 0, 0), "assignment.expression")
  BY DEF AssignmentExpression, At, After, Fine
<1>2. Top.at \notin CallPlaces
  BY <1>1, NotCallPlaces
<1> HIDE DEF G
<1>3. AssignmentIs(G, G.e + 1, toks) /\ G.e \in Nat /\ m <= G.n /\ pos = G.b + 2 * m /\ TargetsOwned(Top.own, G.b, nodes)
  BY <1>1, <1>2, TopTracks DEF Tracks, G
<1>4. IInv /\ stack # <<>> /\ Len(toks) \in Nat /\ pos \in Nat /\ Top.own \in Seq(Nat) /\ Top.token \in Nat
      /\ m \in Nat
  BY TrackedFacts
<1> HIDE DEF m
<1>5. /\ G.b \in Nat /\ G.n \in Nat /\ G.e + 1 \in Nat /\ toks[G.e + 1] = "NEWLINE"
      /\ G.e + 1 \in 1..Len(toks) /\ Derives(G.x, 1, G.b + 2 * G.n + 1, G.e, toks)
      /\ G.b + 2 * G.n + 1 < G.e + 1
      /\ \A k \in 1..G.n : toks[G.b + 2 * k - 1] = "ID" /\ toks[G.b + 2 * k] = "ASSIGN"
  BY <1>3, <1>4, GoalInAssignment
<1>6. m = G.n
  <2> SUFFICES ASSUME m < G.n
               PROVE  FALSE
    BY <1>3, <1>4, <1>5
  <2> DEFINE k == m + 1
             n == G.n
             b == G.b
             j == G.e + 1
  <2>1. n \in Nat /\ b \in Nat /\ j \in 1..Len(toks) /\ b + 2 * n + 1 < j /\ pos = b + 2 * m /\ m < n
    BY <1>3, <1>5
  <2> HIDE DEF n, b, j
  <2>2. k \in 1..n /\ pos + 1 = b + 2 * k - 1 /\ pos + 2 = b + 2 * k
    BY <1>4, <2>1
  <2>3. pos + 1 \in 1..Len(toks) /\ pos + 2 \in 1..Len(toks)
    BY <1>4, <2>1
  <2>4. toks[pos + 1] = "ID" /\ toks[pos + 2] = "ASSIGN"
    <3> HIDE DEF k
    <3>1. toks[b + 2 * k - 1] = "ID" /\ toks[b + 2 * k] = "ASSIGN"
      BY <1>5, <2>2 DEF n, b
    <3> QED
      BY <2>2, <3>1
  <2>5. Current = "ID" /\ Next1 = "ASSIGN"
    BY <1>4, <2>3, <2>4, HereTokens
  <2> QED
    BY <1>1, <2>5 DEF StartsTarget, Match
<1>7. H.tree = G.x /\ H.b = pos /\ H.e = G.e
  BY GoalFields
<1> HIDE DEF H
<1>8. ExpressionGoal(H, 0, toks)
  <2>1. 0 \in Mins /\ LevelOf(0) = 1
    BY LevelsOfPowers DEF Mins
  <2>2. Derives(G.x, 1, pos + 1, G.e, toks)
    <3>1. pos + 1 = G.b + 2 * G.n + 1
      BY <1>3, <1>6
    <3> QED
      BY <1>5, <3>1
  <2>3. Loose(TypeIn(toks, G.e + 1), 0)
    <3>1. TypeIn(toks, G.e + 1) = "NEWLINE"
      BY <1>5 DEF TypeIn
    <3>2. "NEWLINE" \notin DOMAIN InfixPower
      BY TokenClasses DEF Layout
    <3> QED
      BY <3>1, <3>2 DEF Loose
  <2> QED
    BY <1>4, <1>7, <2>1, <2>2, <2>3 DEF ExpressionGoal
<1>9. "expression" \in Places \ CallPlaces /\ "assignment.expression" \in Places /\ 0 \in Nat
  BY NotCallPlaces, AreCallPlaces
<1>10. stack' = <<Enter("expression", 0, 0), Back("assignment.expression", Top.own, Top.token)>>
                  \o Tail(stack)
  BY <1>1, <1>4, CallForms
<1>11. Tracks(Enter("expression", 0, 0), H, pos', C, toks, nodes)
  <2>1. Enter("expression", 0, 0).at = "expression" /\ Enter("expression", 0, 0).min = 0
    BY <1>9, EnterFacts
  <2> QED
    BY <1>1, <1>7, <1>8, <2>1 DEF Tracks
<1>12. Expects(Back("assignment.expression", Top.own, Top.token), G, H, C, toks, nodes)
  <2>1. /\ Back("assignment.expression", Top.own, Top.token).at = "assignment.expression"
        /\ Back("assignment.expression", Top.own, Top.token).own = Top.own
    BY <1>4, <1>9, BackFacts
  <2> QED
    BY <1>3, <1>6, <1>7, <2>1 DEF Expects, m
<1> QED
  BY <1>1, <1>4, <1>9, <1>10, <1>11, <1>12, FollowEnter DEF G

(* The tree of an assignment from those of its targets and its expression. *)
LEMMA TreeOfAssignment ==
  ASSUME NEW ns, Len(ns) \in Nat, Down(ns), NEW p \in 1..Len(ns), NEW own \in Seq(Nat), NEW r \in Nat,
         NEW b \in Nat, NEW x, ns[p].kind = "AssignmentStatement", ns[p].token = 0,
         ns[p].kids = Append(own, r), TargetsOwned(own, b, ns), TreeOf(r, ns) = x
  PROVE  TreeOf(p, ns) = AssignmentTree(Len(own), x, b + 1)
<1> DEFINE m == Len(own)
           K == Append(own, r)
           f == [k \in DOMAIN K |-> TreeOf(K[k], ns)]
<1>1. /\ m \in Nat /\ DOMAIN K = 1..(m + 1) /\ K[m + 1] = r
      /\ \A k \in 1..m : K[k] = own[k]
  BY OneMore
<1> HIDE DEF K
<1>2. TreeOf(p, ns) = Tree("AssignmentStatement", 0, f)
  <2>1. TreeOf(p, ns) = Tree(ns[p].kind, ns[p].token, [k \in DOMAIN ns[p].kids |-> TreeOf(ns[p].kids[k], ns)])
    BY TreeOfNode
  <2>2. ns[p].kids = K
    BY DEF K
  <2> QED
    BY <2>1, <2>2
<1>3. f = [k \in 1..(m + 1) |-> f[k]] /\ f[m + 1] = x
  BY <1>1
<1>4. f = [k \in 1..m |-> f[k]] \o <<f[m + 1]>>
  <2> HIDE DEF f, m
  <2> QED
    BY <1>1, <1>3, RowAndOne
<1>5. [k \in 1..m |-> f[k]] = TargetTrees(m, b + 1)
  <2>1. ASSUME NEW k \in 1..m
        PROVE  f[k] = Tree("Identifier", (b + 1) + 2 * k - 2, <<>>)
    <3>1. f[k] = TreeOf(own[k], ns)
      BY <1>1
    <3>2. TreeOf(own[k], ns) = NameTree(b + 2 * k - 1)
      BY DEF TargetsOwned
    <3>3. (b + 1) + 2 * k - 2 = b + 2 * k - 1
      <4>1. k \in Int
        OBVIOUS
      <4> QED
        BY <4>1
    <3> QED
      BY <3>1, <3>2, <3>3 DEF NameTree
  <2> HIDE DEF f, m
  <2> QED
    BY <2>1 DEF TargetTrees
<1> HIDE DEF f, m
<1>6. f = TargetTrees(m, b + 1) \o <<x>>
  BY <1>3, <1>4, <1>5
<1> QED
  BY <1>2, <1>6 DEF AssignmentTree, m

LEMMA AssignmentEndFollows ==
  ASSUME NEW C, NEW pl, Tracked(C, pl), Fine, AssignmentEnd
  PROVE  Followed(C)'
<1> DEFINE G == pl[1]
           kids == Append(Top.own, result)
           from == Top.token
<1>1. /\ Top.at = "assignment.expression" /\ pos' = pos /\ After /\ Return(NewPtr)
      /\ New("AssignmentStatement", NoToken, kids, 0, from, pos)
  BY DEF AssignmentEnd, At, After, Fine
<1>2. Top.at \in CallPlaces /\ Top.at \in InnerPlaces
  BY <1>1, AreCallPlaces DEF InnerPlaces, OuterPlaces
<1> HIDE DEF G, kids, from
<1>3. /\ AssignmentIs(G, G.e + 1, toks) /\ TreeOf(result, nodes) = G.x /\ pos = G.e
      /\ Len(Top.own) = G.n /\ TargetsOwned(Top.own, G.b, nodes) /\ result \in 1..Len(nodes)
  BY <1>1, <1>2, TopExpects DEF Expects, G
<1>4. Len(toks) \in Nat /\ Len(nodes) \in Nat /\ FrameFine(Top, toks, nodes) /\ Top.own \in Seq(Nat)
      /\ pos \in Nat
  BY TrackedFacts
<1>5. /\ Grown /\ NewPtr \in 1..Len(nodes') /\ Down(nodes') /\ Len(nodes') \in Nat
      /\ nodes'[NewPtr].kind = "AssignmentStatement" /\ nodes'[NewPtr].token = NoToken
      /\ nodes'[NewPtr].kids = kids
      /\ \A q \in 0..Len(nodes) : TreeOf(q, nodes') = TreeOf(q, nodes)
  BY <1>1, NewGrown
<1>6. TargetsOwned(Top.own, G.b, nodes')
  <2> SUFFICES ASSUME NEW k \in 1..Len(Top.own)
               PROVE  TreeOf(Top.own[k], nodes') = NameTree(G.b + 2 * k - 1)
    BY DEF TargetsOwned
  <2> DEFINE q == Top.own[k]
  <2>1. q \in 1..Len(nodes) /\ TreeOf(q, nodes) = NameTree(G.b + 2 * k - 1)
    BY <1>3, <1>4 DEF TargetsOwned, FrameFine
  <2> HIDE DEF q
  <2>2. q \in 0..Len(nodes)
    BY <1>4, <2>1
  <2>3. TreeOf(q, nodes') = NameTree(G.b + 2 * k - 1)
    BY <1>5, <2>1, <2>2
  <2> QED
    BY <2>3 DEF q
<1>7. TreeOf(result, nodes') = G.x /\ result \in Nat
  BY <1>3, <1>4, <1>5
<1>8. G.b \in Nat /\ G.tree = AssignmentTree(G.n, G.x, G.b + 1)
  BY <1>3, <1>4, GoalInAssignment
<1>9. TreeOf(NewPtr, nodes') = AssignmentTree(Len(Top.own), G.x, G.b + 1)
  <2> DEFINE own == Top.own
             b == G.b
             ns == nodes'
             p == NewPtr
  <2>1. /\ Len(ns) \in Nat /\ Down(ns) /\ p \in 1..Len(ns) /\ own \in Seq(Nat) /\ result \in Nat
        /\ b \in Nat /\ ns[p].kind = "AssignmentStatement" /\ ns[p].token = 0
        /\ TargetsOwned(own, b, ns) /\ TreeOf(result, ns) = G.x
    BY <1>4, <1>5, <1>6, <1>7, <1>8 DEF NoToken
  <2>2. ns[p].kids = Append(own, result)
    BY <1>5 DEF kids
  <2> HIDE DEF own, b, ns, p
  <2>3. TreeOf(p, ns) = AssignmentTree(Len(own), G.x, b + 1)
    BY <2>1, <2>2, TreeOfAssignment
  <2> QED
    BY <2>3 DEF own, b, ns, p
<1>10. TreeOf(NewPtr, nodes') = G.tree /\ pos' = G.e /\ "AssignmentStatement" # "GroupingExpression"
  BY <1>1, <1>3, <1>8, <1>9
<1> QED
  BY <1>1, <1>2, <1>10, FollowNewReturn DEF G

----------------------------------------------------------------------------
(* parseExpression.  What follows the left operand on the spine is loose   *)
(* for the operators inside it.                                            *)

LEMMA UnaryIsLoose ==
  ASSUME NEW ts, Len(ts) \in Nat, NEW G, NEW min, ExpressionGoal(G, min, ts),
         NEW u, NEW v, OnSpine(u, v, G.tree, G.e, min, ts), u.kind = "UnaryExpression"
  PROVE  Loose(TypeIn(ts, v + 1), TreePower(u, ts))
<1>1. CASE u = G.tree /\ v = G.e
  <2>1. /\ min \in Mins /\ Derives(u, LevelOf(min), G.b + 1, G.e, ts) /\ Loose(TypeIn(ts, G.e + 1), min)
    BY <1>1 DEF ExpressionGoal
  <2>2. TopFits(u, LevelOf(min), ts)
    BY <2>1, TopLevel
  <2>3. ts[u.token] \in DOMAIN PrefixPower /\ TreeLevel(u, ts) >= LevelOf(min)
        /\ TreeLevel(u, ts) = UnaryLevel(ts[u.token])
    BY <2>2 DEF TopFits, TreeLevel
  <2>4. min <= TreePower(u, ts) /\ TreePower(u, ts) \in Nat /\ min \in Nat
    <3>1. TreePower(u, ts) = PrefixPower[ts[u.token]]
      BY DEF TreePower
    <3>2. min \in Nat /\ (LevelOf(min) <= 3 => min <= 40) /\ min <= 80
      BY <2>1, LevelsOfPowers DEF Mins
    <3> QED
      BY <2>3, <3>1, <3>2, PrefixPowers
  <2> DEFINE op == TypeIn(ts, G.e + 1)
             power == TreePower(u, ts)
  <2>5. Loose(op, min) /\ min <= power /\ power \in Nat /\ min \in Nat
    BY <2>1, <2>4
  <2>6. op \in DOMAIN InfixPower => Left(op) \in Nat
    BY OperandLevels
  <2> HIDE DEF op, power
  <2>7. Loose(op, power)
    BY <2>5, <2>6 DEF Loose
  <2> QED
    BY <1>1, <2>7 DEF op, power
<1>2. ASSUME NEW u2, NEW v2, Joined(u, v, u2, v2, min, ts)
      PROVE  Loose(TypeIn(ts, v + 1), TreePower(u, ts))
  <2>1. v + 1 \in 1..Len(ts) /\ (u.kind \in Operations => Left(ts[v + 1]) < TreePower(u, ts))
    BY <1>2 DEF Joined
  <2>2. TypeIn(ts, v + 1) = ts[v + 1] /\ u.kind \in Operations
    BY <2>1 DEF TypeIn, Operations
  <2> QED
    BY <2>1, <2>2 DEF Loose
<1> QED
  BY <1>1, <1>2, SpineTail

LEMMA OperandGoal ==
  ASSUME NEW ts, Len(ts) \in Nat, NEW G, NEW min, ExpressionGoal(G, min, ts),
         NEW u, NEW v, v \in Nat, NEW rhs, NEW v2, v + 1 \in 1..Len(ts), ts[v + 1] \in DOMAIN InfixPower,
         Left(ts[v + 1]) >= min, Derives(rhs, RightLevel(BinaryLevel(ts[v + 1])), v + 2, v2, ts),
         OnSpine(Tree("BinaryExpression", v + 1, <<u, rhs>>), v2, G.tree, G.e, min, ts)
  PROVE  ExpressionGoal(Goal(rhs, v + 1, v2, 0, 0), InfixPower[ts[v + 1]].right, ts)
<1> DEFINE op == ts[v + 1]
           power == InfixPower[op].right
           u2 == Tree("BinaryExpression", v + 1, <<u, rhs>>)
           H == Goal(rhs, v + 1, v2, 0, 0)
<1>1. power \in Mins /\ Left(op) \in Nat /\ Left(op) <= power /\ LevelOf(power) = RightLevel(BinaryLevel(op))
  BY OperandLevels
<1>2. power \in Nat /\ min \in Nat
  BY <1>1 DEF Mins, ExpressionGoal
<1>3. H.tree = rhs /\ H.b = v + 1 /\ H.e = v2
  BY GoalFields
<1>4. Loose(TypeIn(ts, v2 + 1), power)
  <2>1. CASE u2 = G.tree /\ v2 = G.e
    <3>1. Loose(TypeIn(ts, v2 + 1), min)
      BY <2>1 DEF ExpressionGoal
    <3> DEFINE p2 == TypeIn(ts, v2 + 1)
    <3>2. p2 \in DOMAIN InfixPower => Left(p2) \in Nat
      BY OperandLevels
    <3>3. Left(op) >= min
      OBVIOUS
    <3> HIDE DEF p2, op, power
    <3>4. min <= power
      BY <1>1, <1>2, <3>3
    <3>5. Loose(p2, power)
      BY <1>2, <3>1, <3>2, <3>4 DEF Loose, p2
    <3> QED
      BY <3>5 DEF p2
  <2>2. ASSUME NEW u3, NEW v3, Joined(u2, v2, u3, v3, min, ts)
        PROVE  Loose(TypeIn(ts, v2 + 1), power)
    <3>1. v2 + 1 \in 1..Len(ts) /\ (u2.kind \in Operations => Left(ts[v2 + 1]) < TreePower(u2, ts))
      BY <2>2 DEF Joined
    <3>2. u2.kind = "BinaryExpression" /\ u2.token = v + 1
      BY TreeFields
    <3>3. TreePower(u2, ts) = power /\ u2.kind \in Operations
      BY <3>2 DEF TreePower, Operations
    <3> QED
      BY <3>1, <3>3 DEF Loose, TypeIn
  <2> HIDE DEF u2, power
  <2>3. OnSpine(u2, v2, G.tree, G.e, min, ts)
    BY DEF u2
  <2> QED
    BY <2>1, <2>2, <2>3, SpineTail
<1>5. (v + 1) + 1 = v + 2 /\ v + 1 \in Nat
  OBVIOUS
<1> HIDE DEF H, power
<1>6. ExpressionGoal(H, power, ts)
  BY <1>1, <1>3, <1>4, <1>5 DEF ExpressionGoal
<1> QED
  BY <1>6 DEF H, power

LEMMA ExpressionFollows ==
  ASSUME NEW C, NEW pl, Tracked(C, pl), Fine, Expression
  PROVE  Followed(C)'
<1> DEFINE G == pl[1]
           min == Top.min
<1>1. /\ Top.at = "expression" /\ pos' = pos /\ After /\ nodes' = nodes
      /\ Call(Enter("prefix", 0, 0), "expression.prefix")
  BY DEF Expression, At, After, Fine
<1>2. Top.at \notin CallPlaces
  BY <1>1, NotCallPlaces
<1> HIDE DEF G
<1>3. pos = G.b /\ ExpressionGoal(G, min, toks)
  BY <1>1, <1>2, TopTracks DEF Tracks, G
<1>4. IInv /\ stack # <<>> /\ Len(toks) \in Nat /\ pos \in Nat /\ Top.own \in Seq(Nat) /\ Top.token \in Nat
  BY TrackedFacts
<1> HIDE DEF min
<1>5. /\ G.b \in Nat /\ min \in Mins /\ Derives(G.tree, LevelOf(min), G.b + 1, G.e, toks)
  BY <1>3 DEF ExpressionGoal
<1> DEFINE i == G.b + 1
<1>6. HasSpine(G.tree, i, G.e, min, toks)
  <2> DEFINE l == LevelOf(min)
  <2>1. Admits(min, l)
    BY <1>5, LevelsAdmit
  <2>2. Derives(G.tree, l, i, G.e, toks)
    BY <1>5
  <2> HIDE DEF l, i
  <2> QED
    BY <1>4, <2>1, <2>2, Spines
<1>7. i - 1 = pos
  BY <1>3, <1>5
<1> HIDE DEF i
<1>8. PICK u, v : PrefixTree(u, i - 1, v, toks) /\ OnSpine(u, v, G.tree, G.e, min, toks)
  BY <1>6 DEF HasSpine
<1> DEFINE H == Goal(u, pos, v, 0, 0)
<1>9. H.tree = u /\ H.b = pos /\ H.e = v
  BY GoalFields
<1> HIDE DEF H
<1>10. PrefixGoal(H, toks)
  <2>2. PrefixTree(u, pos, v, toks)
    BY <1>7, <1>8
  <2>3. u.kind = "UnaryExpression" => Loose(TypeIn(toks, v + 1), TreePower(u, toks))
    BY <1>3, <1>4, <1>8, UnaryIsLoose
  <2> QED
    BY <1>4, <1>9, <2>2, <2>3 DEF PrefixGoal
<1>11. "prefix" \in Places \ CallPlaces /\ "expression.prefix" \in Places /\ 0 \in Nat
  BY NotCallPlaces, AreCallPlaces
<1>12. stack' = <<Enter("prefix", 0, 0), Back("expression.prefix", Top.own, Top.token)>> \o Tail(stack)
  BY <1>1, <1>4, CallForms
<1>13. Tracks(Enter("prefix", 0, 0), H, pos', C, toks, nodes)
  <2>1. Enter("prefix", 0, 0).at = "prefix"
    BY <1>11, EnterFacts
  <2> QED
    BY <1>1, <1>9, <1>10, <2>1 DEF Tracks
<1>14. Expects(Back("expression.prefix", Top.own, Top.token), G, H, C, toks, nodes)
  <2>1. /\ Back("expression.prefix", Top.own, Top.token).at = "expression.prefix"
        /\ Back("expression.prefix", Top.own, Top.token).min = min
    BY <1>4, <1>11, BackFacts DEF min
  <2> QED
    BY <1>3, <1>8, <1>9, <2>1 DEF Expects
<1> QED
  BY <1>1, <1>4, <1>11, <1>12, <1>13, <1>14, FollowEnter DEF G

LEMMA ExpressionPrefixFollows ==
  ASSUME NEW C, NEW pl, Tracked(C, pl), Fine, ExpressionPrefix
  PROVE  Followed(C)'
<1> DEFINE G == pl[1]
           own == <<result>>
<1>1. /\ Top.at = "expression.prefix" /\ pos' = pos /\ After /\ nodes' = nodes
      /\ GoOn([Top EXCEPT !.at = "expression.operator", !.own = own])
  BY DEF ExpressionPrefix, At, After, Fine
<1>2. Top.at \in CallPlaces
  BY <1>1, AreCallPlaces
<1> HIDE DEF G
<1>3. /\ ExpressionGoal(G, Top.min, toks) /\ result \in 1..Len(nodes)
      /\ OnSpine(TreeOf(result, nodes), pos, G.tree, G.e, Top.min, toks)
  BY <1>1, <1>2, TopExpects DEF Expects, G
<1>4. IInv /\ stack # <<>> /\ Top.token \in Nat /\ Len(nodes) \in Nat
  BY TrackedFacts
<1>5. own \in Seq(Nat) /\ own[1] = result
  BY <1>3, <1>4
<1> HIDE DEF own
<1>6. "expression.operator" \in Places \ CallPlaces
  BY NotCallPlaces
<1>7. stack' = <<Back("expression.operator", own, Top.token)>> \o Tail(stack)
  BY <1>1, <1>4, GoOnForms
<1>8. Tracks(Back("expression.operator", own, Top.token), G, pos', C, toks, nodes')
  <2> DEFINE f == Back("expression.operator", own, Top.token)
  <2>1. f.at = "expression.operator" /\ f.own = own /\ f.min = Top.min
    BY <1>4, <1>5, <1>6, BackFacts
  <2> HIDE DEF f
  <2>2. Tracks(f, G, pos', C, toks, nodes')
    BY <1>1, <1>3, <1>5, <2>1 DEF Tracks
  <2> QED
    BY <2>2 DEF f
<1>9. Grown
  BY <1>1, SameGrown
<1> QED
  BY <1>5, <1>6, <1>7, <1>8, <1>9, FollowMove DEF G

LEMMA ExpressionOperatorFollows ==
  ASSUME NEW C, NEW pl, Tracked(C, pl), Fine, ExpressionOperator
  PROVE  Followed(C)'
<1> DEFINE G == pl[1]
           min == Top.min
           u == TreeOf(Top.own[1], nodes)
           op == toks[pos + 1]
<1>1. Top.at = "expression.operator" /\ After /\ nodes' = nodes
  BY DEF ExpressionOperator, At, After, Fine
<1>2. Top.at \notin CallPlaces /\ Top.at \in InnerPlaces /\ Top.at \in OwnsOne
  BY <1>1, NotCallPlaces DEF InnerPlaces, OuterPlaces, OwnsOne
<1> HIDE DEF G
<1>3. ExpressionGoal(G, min, toks) /\ OnSpine(u, pos, G.tree, G.e, min, toks)
  BY <1>1, <1>2, TopTracks DEF Tracks, G
<1>4. IInv /\ stack # <<>> /\ Len(toks) \in Nat /\ pos \in Nat /\ Top.own \in Seq(Nat) /\ Top.token \in Nat
      /\ FrameFine(Top, toks, nodes)
  BY TrackedFacts
<1>5. Top.own[1] \in 1..Len(nodes)
  BY <1>2, <1>4 DEF FrameFine
<1> HIDE DEF min, u
<1>6. CASE u = G.tree /\ pos = G.e
  <2>1. ~Binds
    <3> SUFFICES ASSUME Current \in DOMAIN InfixPower, InfixPower[Current].left >= min
                 PROVE  FALSE
      BY DEF Binds, Match, min
    <3>1. Loose(TypeIn(toks, pos + 1), min)
      BY <1>3, <1>6 DEF ExpressionGoal
    <3>2. TypeIn(toks, pos + 1) = Current
      BY DEF TypeIn, Current, TypeAt
    <3>3. min \in Nat /\ Left(Current) \in Nat
      BY <1>3, OperandLevels DEF ExpressionGoal, Mins
    <3> QED
      BY <3>1, <3>2, <3>3 DEF Loose, Left
  <2>2. Return(Top.own[1]) /\ pos' = pos
    BY <2>1 DEF ExpressionOperator
  <2>3. Grown /\ stack' = Tail(stack) /\ result' = Top.own[1]
    BY <1>1, <2>2, SameGrown DEF Return
  <2>4. Met(G, pos', result', nodes')
    BY <1>1, <1>5, <1>6, <2>2, <2>3 DEF Met, u, Null
  <2> QED
    BY <1>2, <2>3, <2>4, FollowReturn DEF G
<1>7. ASSUME NEW u2, NEW v2, Joined(u, pos, u2, v2, min, toks), OnSpine(u2, v2, G.tree, G.e, min, toks)
      PROVE  Followed(C)'
  <2>1. /\ pos + 1 \in 1..Len(toks) /\ op \in DOMAIN InfixPower /\ Left(op) >= min
        /\ \E rhs : /\ Derives(rhs, RightLevel(BinaryLevel(op)), pos + 2, v2, toks)
                    /\ u2 = Tree("BinaryExpression", pos + 1, <<u, rhs>>)
                    /\ op \notin Logical => ConstantTree(u, toks) /\ ConstantTree(rhs, toks)
    BY <1>7 DEF Joined
  <2>2. PICK rhs : /\ Derives(rhs, RightLevel(BinaryLevel(op)), pos + 2, v2, toks)
                   /\ u2 = Tree("BinaryExpression", pos + 1, <<u, rhs>>)
                   /\ op \notin Logical => ConstantTree(u, toks) /\ ConstantTree(rhs, toks)
    BY <2>1
  <2> DEFINE power == InfixPower[op].right
             t == pos + 1
             H == Goal(rhs, t, v2, 0, 0)
  <2>3. Current = op
    BY <1>4, <2>1, HereTokens
  <2>4. Binds
    BY <2>1, <2>3 DEF Binds, Match, Left, min
  <2>5. /\ pos' = pos + 1
        /\ CallFrom([Top EXCEPT !.at = "expression.operand", !.token = pos + 1],
                    Enter("expression", InfixPower[Current].right, 0))
    BY <2>4 DEF ExpressionOperator, Advance
  <2>6. ExpressionGoal(H, power, toks)
    <3>1. OnSpine(Tree("BinaryExpression", pos + 1, <<u, rhs>>), v2, G.tree, G.e, min, toks)
      BY <1>7, <2>2
    <3> QED
      BY <1>3, <1>4, <2>1, <2>2, <3>1, OperandGoal
  <2>7. H.tree = rhs /\ H.b = t /\ H.e = v2
    BY GoalFields
  <2>8. CallFrom([Top EXCEPT !.at = "expression.operand", !.token = t], Enter("expression", power, 0))
    BY <2>3, <2>5
  <2>9. power \in Nat /\ t \in Nat
    <3>1. power \in Mins
      BY <2>1, OperandLevels
    <3> QED
      BY <1>4, <3>1 DEF Mins
  <2>10. toks[t] \notin Logical => ConstantTree(u, toks) /\ ConstantTree(rhs, toks)
    BY <2>2
  <2>11. OnSpine(Tree("BinaryExpression", t, <<u, rhs>>), v2, G.tree, G.e, min, toks) /\ pos' = t
    BY <1>7, <2>2, <2>5
  <2> HIDE DEF H, power, t, op
  <2>12. "expression" \in Places \ CallPlaces /\ "expression.operand" \in Places /\ 0 \in Nat
    BY NotCallPlaces, AreCallPlaces
  <2>13. stack' = <<Enter("expression", power, 0), Back("expression.operand", Top.own, t)>> \o Tail(stack)
    BY <1>4, <2>8, CallForms
  <2>14. Tracks(Enter("expression", power, 0), H, pos', C, toks, nodes)
    <3>1. Enter("expression", power, 0).at = "expression" /\ Enter("expression", power, 0).min = power
      BY <2>9, <2>12, EnterFacts
    <3> QED
      BY <2>6, <2>7, <2>11, <3>1 DEF Tracks
  <2>15. Expects(Back("expression.operand", Top.own, t), G, H, C, toks, nodes)
    <3> DEFINE f == Back("expression.operand", Top.own, t)
    <3>1. f.at = "expression.operand" /\ f.own = Top.own /\ f.min = min /\ f.token = t
      BY <1>4, <2>9, <2>12, BackFacts DEF min
    <3> HIDE DEF f
    <3>2. TreeOf(f.own[1], nodes) = u
      BY <3>1 DEF u
    <3>3. Expects(f, G, H, C, toks, nodes)
      BY <1>3, <2>7, <2>10, <2>11, <3>1, <3>2 DEF Expects
    <3> QED
      BY <3>3 DEF f
  <2> QED
    BY <1>1, <1>4, <2>9, <2>12, <2>13, <2>14, <2>15, FollowEnter DEF G
<1> QED
  BY <1>3, <1>6, <1>7, SpineTail

(* isConstantExpression of a node is what the tree says.                   *)
LEMMA ConstantIsTree ==
  ASSUME Len(nodes) \in Nat, Down(nodes), NEW p \in 1..Len(nodes)
  PROVE  IsConstant(p) <=> ConstantTree(TreeOf(p, nodes), toks)
<1>1. TreeOf(p, nodes).kind = nodes[p].kind /\ TreeOf(p, nodes).token = nodes[p].token
  BY SameTop
<1> QED
  BY <1>1 DEF IsConstant, ConstantTree

LEMMA ExpressionOperandFollows ==
  ASSUME NEW C, NEW pl, Tracked(C, pl), Fine, ExpressionOperand
  PROVE  Followed(C)'
<1> DEFINE G == pl[1]
           min == Top.min
           t == Top.token
           lhs == Top.own[1]
           u == TreeOf(lhs, nodes)
           rhs == TreeOf(result, nodes)
           kids == <<lhs, result>>
           own == <<NewPtr>>
<1>1. Top.at = "expression.operand" /\ toks' = toks
  BY DEF ExpressionOperand, At
<1>2. Top.at \in CallPlaces /\ Top.at \in OwnsOne
  BY <1>1, AreCallPlaces DEF OwnsOne
<1> HIDE DEF G
<1>3. PICK H : Expects(Top, G, H, C, toks, nodes) /\ TreeOf(result, nodes) = H.tree /\ pos = H.e
  BY <1>2, TopExpects DEF G
<1>4. /\ ExpressionGoal(G, min, toks) /\ result # Null /\ result \in 1..Len(nodes)
      /\ OnSpine(Tree("BinaryExpression", t, <<u, rhs>>), pos, G.tree, G.e, min, toks)
      /\ toks[t] \notin Logical => ConstantTree(u, toks) /\ ConstantTree(rhs, toks)
  <2>1. result # Null /\ result \in 1..Len(nodes)
    BY <1>2, TopExpects
  <2> QED
    BY <1>1, <1>3, <2>1 DEF Expects
<1>5. IInv /\ stack # <<>> /\ Len(nodes) \in Nat /\ Top.token \in Nat /\ FrameFine(Top, toks, nodes)
      /\ Down(nodes)
  BY TrackedFacts
<1>6. lhs \in 1..Len(nodes) /\ lhs \in 0..Len(nodes) /\ result \in 0..Len(nodes)
  BY <1>2, <1>4, <1>5 DEF FrameFine
<1>7. MayJoin(toks[t], lhs, result)
  BY <1>4, <1>5, <1>6, ConstantIsTree DEF MayJoin
<1> DEFINE from == nodes[lhs].from
           to == nodes[result].to
<1>8. /\ New("BinaryExpression", t, kids, 0, from, to) /\ pos' = pos /\ After
      /\ GoOn([Top EXCEPT !.at = "expression.operator", !.own = own])
  BY <1>7 DEF ExpressionOperand, After, Fine
<1> HIDE DEF from, to, kids, lhs, t, own
<1>9. /\ Grown /\ NewPtr \in 1..Len(nodes') /\ Down(nodes') /\ Len(nodes') \in Nat
      /\ nodes'[NewPtr].kind = "BinaryExpression" /\ nodes'[NewPtr].token = t
      /\ nodes'[NewPtr].kids = kids
      /\ \A q \in 0..Len(nodes) : TreeOf(q, nodes') = TreeOf(q, nodes)
  BY <1>8, NewGrown
<1>10. TreeOf(NewPtr, nodes') = Tree("BinaryExpression", t, <<TreeOf(lhs, nodes'), TreeOf(result, nodes')>>)
  BY <1>9, TreeOfTwo DEF kids
<1>11. TreeOf(NewPtr, nodes') = Tree("BinaryExpression", t, <<u, rhs>>)
  BY <1>6, <1>9, <1>10
<1>12. own \in Seq(Nat) /\ own[1] = NewPtr
  <2>1. NewPtr \in Nat
    BY <1>9
  <2> QED
    BY <2>1 DEF own
<1>13. "expression.operator" \in Places \ CallPlaces
  BY NotCallPlaces
<1>14. stack' = <<Back("expression.operator", own, Top.token)>> \o Tail(stack)
  BY <1>5, <1>8, GoOnForms
<1>15. Tracks(Back("expression.operator", own, Top.token), G, pos', C, toks, nodes')
  <2> DEFINE f == Back("expression.operator", own, Top.token)
  <2>1. f.at = "expression.operator" /\ f.own = own /\ f.min = min
    BY <1>5, <1>12, <1>13, BackFacts
  <2> HIDE DEF f, u, rhs, min
  <2>2. Tracks(f, G, pos', C, toks, nodes')
    BY <1>4, <1>8, <1>11, <1>12, <2>1 DEF Tracks
  <2> QED
    BY <2>2 DEF f
<1> QED
  BY <1>9, <1>12, <1>13, <1>14, <1>15, FollowMove DEF G

----------------------------------------------------------------------------
(* parsePrefix                                                             *)

(* The token decides what parsePrefix reads.                               *)
LEMMA PrefixClasses ==
  /\ "OPENPAREN" \notin Literals \cup {"ID"} \cup DOMAIN PrefixPower
  /\ (Literals \cup {"ID"}) \cap DOMAIN PrefixPower = {}
  /\ "ID" \notin Literals /\ "CLOSEPAREN" \notin DOMAIN InfixPower
<1>1. DOMAIN InfixPower = Logical \cup Comparisons \cup Additive \cup Multiplicative
  BY DEF InfixPower
<1>2. DOMAIN PrefixPower = {"NOT", "MINUS"}
  BY DEF PrefixPower
<1> QED
  BY <1>1, <1>2 DEF Literals, Logical, Comparisons, Additive, Multiplicative

(* The goals of the calls that parsePrefix makes.                          *)
LEMMA GroupGoal ==
  ASSUME NEW ts, Len(ts) \in Nat, NEW b \in Nat, NEW e, e \in 1..Len(ts), NEW a,
         Derives(a, 1, b + 2, e - 1, ts), ts[e] = "CLOSEPAREN"
  PROVE  ExpressionGoal(Goal(a, b + 1, e - 1, 0, 0), 0, ts)
<1> DEFINE t == b + 1
           v == e - 1
           H == Goal(a, t, v, 0, 0)
<1>1. H.tree = a /\ H.b = t /\ H.e = v
  BY GoalFields
<1>2. t \in Nat /\ t + 1 = b + 2 /\ v + 1 = e /\ 0 \in Mins /\ LevelOf(0) = 1
  BY LevelsOfPowers DEF Mins
<1>3. TypeIn(ts, v + 1) = "CLOSEPAREN"
  BY <1>2 DEF TypeIn
<1>4. Loose(TypeIn(ts, v + 1), 0)
  BY <1>3, PrefixClasses DEF Loose
<1>5. Derives(a, LevelOf(0), t + 1, v, ts)
  BY <1>2
<1> HIDE DEF H, t, v
<1>6. ExpressionGoal(H, 0, ts)
  BY <1>1, <1>2, <1>4, <1>5 DEF ExpressionGoal
<1> QED
  BY <1>6 DEF H, t, v

LEMMA UnaryGoal ==
  ASSUME NEW ts, Len(ts) \in Nat, NEW b \in Nat, NEW e, NEW a, NEW op \in DOMAIN PrefixPower,
         Derives(a, UnaryLevel(op), b + 2, e, ts), Loose(TypeIn(ts, e + 1), PrefixPower[op])
  PROVE  /\ ExpressionGoal(Goal(a, b + 1, e, 0, 0), PrefixPower[op], ts)
         /\ op = "MINUS" => ConstantTree(a, ts)
<1> DEFINE t == b + 1
           power == PrefixPower[op]
           H == Goal(a, t, e, 0, 0)
<1>1. H.tree = a /\ H.b = t /\ H.e = e
  BY GoalFields
<1>2. t \in Nat /\ t + 1 = b + 2 /\ power \in Mins /\ LevelOf(power) = UnaryLevel(op)
  BY OperandLevels
<1>3. Derives(a, LevelOf(power), t + 1, e, ts)
  BY <1>2
<1>4. op = "MINUS" => ConstantTree(a, ts)
  <2> SUFFICES ASSUME op = "MINUS"
               PROVE  ConstantTree(a, ts)
    OBVIOUS
  <2>1. UnaryLevel(op) = 7
    BY PrefixPowers
  <2>2. TopFits(a, 7, ts)
    BY <2>1, TopLevel
  <2>3. TopFits(a, 4, ts)
    BY <2>2 DEF TopFits
  <2> QED
    BY <2>3, TightIsConstant
<1> HIDE DEF H, t, power
<1>5. Loose(TypeIn(ts, e + 1), power)
  BY DEF power
<1>6. ExpressionGoal(H, power, ts)
  BY <1>1, <1>2, <1>3, <1>5 DEF ExpressionGoal
<1> QED
  BY <1>4, <1>6 DEF H, t, power

LEMMA PrefixIs ==
  ASSUME NEW C, NEW pl, Tracked(C, pl), Top.at = "prefix"
  PROVE  /\ IInv /\ stack # <<>> /\ Len(toks) \in Nat /\ pos \in Nat /\ Top.own \in Seq(Nat)
         /\ Top.token \in Nat /\ Top.at \in InnerPlaces
         /\ pos = pl[1].b /\ PrefixGoal(pl[1], toks) /\ pos + 1 \in 1..Len(toks)
<1> DEFINE G == pl[1]
<1>1. Top.at \notin CallPlaces /\ Top.at \in InnerPlaces
  BY NotCallPlaces DEF InnerPlaces, OuterPlaces
<1> HIDE DEF G
<1>2. pos = G.b /\ PrefixGoal(G, toks)
  BY <1>1, TopTracks DEF Tracks, G
<1>3. IInv /\ stack # <<>> /\ Len(toks) \in Nat /\ pos \in Nat /\ Top.own \in Seq(Nat) /\ Top.token \in Nat
  BY TrackedFacts
<1>4. pos + 1 \in 1..Len(toks)
  BY <1>2 DEF PrefixGoal, PrefixTree
<1> QED
  BY <1>1, <1>2, <1>3, <1>4 DEF G

LEMMA PrefixLeafFollows ==
  ASSUME NEW C, NEW pl, Tracked(C, pl), Fine, Prefix, IsLeaf(pl[1].tree, pos + 1, pl[1].e, toks)
  PROVE  Followed(C)'
<1> DEFINE G == pl[1]
           t == pos + 1
           kind == IF Match({"ID"}) THEN "Identifier" ELSE "Literal"
<1>1. Top.at = "prefix"
  BY DEF Prefix, At
<1>2. IInv /\ stack # <<>> /\ Top.at \in InnerPlaces /\ t \in 1..Len(toks)
  BY <1>1, PrefixIs
<1>3. /\ t = G.e
      /\ \/ toks[t] = "ID" /\ G.tree = Tree("Identifier", t, <<>>)
         \/ toks[t] \in Literals /\ G.tree = Tree("Literal", t, <<>>)
  BY DEF IsLeaf
<1>4. Match(Literals \cup {"ID"}) /\ ~Match({"OPENPAREN"}) /\ ~Match(DOMAIN PrefixPower)
      /\ (Match({"ID"}) <=> toks[t] = "ID")
  BY <1>2, <1>3, HereMatches, PrefixClasses
<1>5. G.tree = Tree(kind, t, <<>>)
  BY <1>3, <1>4, PrefixClasses
<1>6. pos' = t /\ After /\ New(kind, t, <<>>, 0, t, t) /\ Return(NewPtr)
  <2>1. Match(Literals \cup {"ID", "OPENPAREN"} \cup DOMAIN PrefixPower)
    BY <1>4 DEF Match
  <2> QED
    BY <1>4, <2>1 DEF Prefix, Expect, Advance, After, Fine
<1>7. kind # "GroupingExpression"
  OBVIOUS
<1> HIDE DEF G, t, kind
<1>8. TreeOf(NewPtr, nodes') = G.tree
  BY <1>5, <1>6, NewLeaf
<1>9. pos' = G.e
  BY <1>3, <1>6
<1> QED
  BY <1>2, <1>6, <1>7, <1>8, <1>9, FollowNewReturn DEF G

LEMMA PrefixGroupingFollows ==
  ASSUME NEW C, NEW pl, Tracked(C, pl), Fine, Prefix, GroupOf(pl[1].tree, pos + 1, pl[1].e, toks),
         pl[1].e \in 1..Len(toks)
  PROVE  Followed(C)'
<1> DEFINE G == pl[1]
           t == pos + 1
           v == G.e - 1
<1>1. Top.at = "prefix"
  BY DEF Prefix, At
<1>2. IInv /\ stack # <<>> /\ pos \in Nat /\ Len(toks) \in Nat /\ Top.own \in Seq(Nat) /\ t \in 1..Len(toks)
  BY <1>1, PrefixIs
<1>3. toks[t] = "OPENPAREN" /\ toks[G.e] = "CLOSEPAREN" /\ G.e \in 1..Len(toks)
  BY DEF GroupOf
<1>4. PICK a : Derives(a, 1, t + 1, v, toks) /\ G.tree = Tree("GroupingExpression", t, <<a>>)
  BY DEF GroupOf
<1>5. Match({"OPENPAREN"}) /\ ~Match(Literals \cup {"ID"}) /\ ~Match(DOMAIN PrefixPower)
  BY <1>2, <1>3, HereMatches, PrefixClasses
<1>6. pos' = t /\ After /\ nodes' = nodes
      /\ CallFrom([Top EXCEPT !.at = "prefix.group", !.token = t], Enter("expression", 0, 0))
  <2>1. Match(Literals \cup {"ID", "OPENPAREN"} \cup DOMAIN PrefixPower)
    BY <1>5 DEF Match
  <2> QED
    BY <1>5, <2>1 DEF Prefix, Expect, Advance, After, Fine
<1> DEFINE H == Goal(a, t, v, 0, 0)
<1>7. ExpressionGoal(H, 0, toks)
  <2>1. t + 1 = pos + 2
    BY <1>2
  <2>2. Derives(a, 1, pos + 2, G.e - 1, toks)
    BY <1>4, <2>1
  <2> HIDE DEF G
  <2>3. ExpressionGoal(Goal(a, pos + 1, G.e - 1, 0, 0), 0, toks)
    BY <1>2, <1>3, <2>2, GroupGoal
  <2> QED
    BY <2>3
<1>8. H.tree = a /\ H.b = t /\ H.e = v
  BY GoalFields
<1>9. t \in Nat /\ 0 \in Nat
  BY <1>2
<1>10. v = G.e - 1
  OBVIOUS
<1> HIDE DEF G, t, v, H
<1>11. "expression" \in Places \ CallPlaces /\ "prefix.group" \in Places
  BY NotCallPlaces, AreCallPlaces
<1>12. stack' = <<Enter("expression", 0, 0), Back("prefix.group", Top.own, t)>> \o Tail(stack)
  BY <1>2, <1>6, CallForms
<1>13. Tracks(Enter("expression", 0, 0), H, pos', C, toks, nodes)
  <2>1. Enter("expression", 0, 0).at = "expression" /\ Enter("expression", 0, 0).min = 0
    BY <1>9, <1>11, EnterFacts
  <2> QED
    BY <1>6, <1>7, <1>8, <2>1 DEF Tracks
<1>14. Expects(Back("prefix.group", Top.own, t), G, H, C, toks, nodes)
  <2> DEFINE f == Back("prefix.group", Top.own, t)
  <2>1. f.at = "prefix.group" /\ f.token = t
    BY <1>2, <1>9, <1>11, BackFacts
  <2> HIDE DEF f
  <2>2. Expects(f, G, H, C, toks, nodes)
    BY <1>3, <1>4, <1>8, <1>10, <2>1 DEF Expects
  <2> QED
    BY <2>2 DEF f
<1> QED
  BY <1>2, <1>6, <1>9, <1>11, <1>12, <1>13, <1>14, FollowEnter DEF G

LEMMA PrefixOperandFollows ==
  ASSUME NEW C, NEW pl, Tracked(C, pl), Fine, Prefix, NEW l \in {3, 7},
         UnaryOf(pl[1].tree, l, pos + 1, pl[1].e, toks)
  PROVE  Followed(C)'
<1> DEFINE G == pl[1]
           t == pos + 1
           op == toks[t]
           e == G.e
           power == PrefixPower[op]
<1>1. Top.at = "prefix"
  BY DEF Prefix, At
<1>2. IInv /\ stack # <<>> /\ pos \in Nat /\ Len(toks) \in Nat /\ Top.own \in Seq(Nat) /\ t \in 1..Len(toks)
      /\ PrefixGoal(G, toks)
  BY <1>1, PrefixIs
<1>3. op \in Operators[l]
  BY DEF UnaryOf
<1>4. PICK a : Derives(a, l, t + 1, e, toks) /\ G.tree = Tree("UnaryExpression", t, <<a>>)
  BY DEF UnaryOf
<1>5. op \in DOMAIN PrefixPower /\ UnaryLevel(op) = l
  BY <1>3, OperatorsOfLevels
<1>6. Match(DOMAIN PrefixPower) /\ ~Match(Literals \cup {"ID"}) /\ ~Match({"OPENPAREN"})
  BY <1>2, <1>5, HereMatches, PrefixClasses
<1>7. Current = op
  BY <1>2, HereTokens
<1>8. pos' = t /\ After /\ nodes' = nodes
      /\ CallFrom([Top EXCEPT !.at = "prefix.unary", !.token = t], Enter("expression", power, 0))
  <2>1. Match(Literals \cup {"ID", "OPENPAREN"} \cup DOMAIN PrefixPower)
    BY <1>6 DEF Match
  <2> QED
    BY <1>6, <1>7, <2>1 DEF Prefix, Expect, Advance, After, Fine
<1>9. Loose(TypeIn(toks, e + 1), power)
  <2>1. G.tree.kind = "UnaryExpression" /\ G.tree.token = t
    BY <1>4, TreeFields
  <2>2. TreePower(G.tree, toks) = power
    BY <2>1 DEF TreePower
  <2> QED
    BY <1>2, <2>1, <2>2 DEF PrefixGoal
<1> DEFINE H == Goal(a, t, e, 0, 0)
<1>10. ExpressionGoal(H, power, toks) /\ (op = "MINUS" => ConstantTree(a, toks))
  <2>1. t + 1 = pos + 2
    BY <1>2
  <2>2. Derives(a, UnaryLevel(op), pos + 2, e, toks)
    BY <1>4, <1>5, <2>1
  <2> HIDE DEF e, op
  <2>3. /\ ExpressionGoal(Goal(a, pos + 1, e, 0, 0), PrefixPower[op], toks)
        /\ op = "MINUS" => ConstantTree(a, toks)
    BY <1>2, <1>5, <1>9, <2>2, UnaryGoal
  <2> QED
    BY <2>3
<1>11. H.tree = a /\ H.b = t /\ H.e = e
  BY GoalFields
<1>12. t \in Nat /\ 0 \in Nat /\ power \in Nat
  <2>1. power \in Mins
    BY <1>5, OperandLevels
  <2> QED
    BY <1>2, <2>1 DEF Mins
<1>13. e = G.e /\ op = toks[t]
  OBVIOUS
<1> HIDE DEF G, t, e, op, power, H
<1>14. "expression" \in Places \ CallPlaces /\ "prefix.unary" \in Places
  BY NotCallPlaces, AreCallPlaces
<1>15. stack' = <<Enter("expression", power, 0), Back("prefix.unary", Top.own, t)>> \o Tail(stack)
  BY <1>2, <1>8, CallForms
<1>16. Tracks(Enter("expression", power, 0), H, pos', C, toks, nodes)
  <2>1. Enter("expression", power, 0).at = "expression" /\ Enter("expression", power, 0).min = power
    BY <1>12, <1>14, EnterFacts
  <2> QED
    BY <1>8, <1>10, <1>11, <2>1 DEF Tracks
<1>17. Expects(Back("prefix.unary", Top.own, t), G, H, C, toks, nodes)
  <2> DEFINE f == Back("prefix.unary", Top.own, t)
  <2>1. f.at = "prefix.unary" /\ f.token = t
    BY <1>2, <1>12, <1>14, BackFacts
  <2> HIDE DEF f
  <2>2. Expects(f, G, H, C, toks, nodes)
    BY <1>4, <1>10, <1>11, <1>13, <2>1 DEF Expects
  <2> QED
    BY <2>2 DEF f
<1> QED
  BY <1>2, <1>8, <1>12, <1>14, <1>15, <1>16, <1>17, FollowEnter DEF G

LEMMA PrefixFollows ==
  ASSUME NEW C, NEW pl, Tracked(C, pl), Fine, Prefix
  PROVE  Followed(C)'
<1> DEFINE t == pos + 1
<1>1. Top.at = "prefix"
  BY DEF Prefix, At
<1>2. pos = pl[1].b /\ PrefixGoal(pl[1], toks)
  BY <1>1, PrefixIs
<1>3. \/ IsLeaf(pl[1].tree, t, pl[1].e, toks)
      \/ pl[1].e \in 1..Len(toks) /\ GroupOf(pl[1].tree, t, pl[1].e, toks)
      \/ \E l \in {3, 7} : UnaryOf(pl[1].tree, l, t, pl[1].e, toks)
  BY <1>2 DEF PrefixGoal, PrefixTree
<1> QED
  BY <1>3, PrefixLeafFollows, PrefixGroupingFollows, PrefixOperandFollows

LEMMA PrefixGroupFollows ==
  ASSUME NEW C, NEW pl, Tracked(C, pl), Fine, PrefixGroup
  PROVE  Followed(C)'
<1> DEFINE G == pl[1]
           t == Top.token
           kids == <<result>>
           here == pos + 1
<1>1. Top.at = "prefix.group" /\ toks' = toks
  BY DEF PrefixGroup, At
<1>2. Top.at \in CallPlaces /\ Top.at \in InnerPlaces
  BY <1>1, AreCallPlaces DEF InnerPlaces, OuterPlaces
<1> HIDE DEF G
<1>3. PICK H : Expects(Top, G, H, C, toks, nodes) /\ TreeOf(result, nodes) = H.tree /\ pos = H.e
  BY <1>2, TopExpects DEF G
<1>4. /\ result # Null /\ result \in 1..Len(nodes)
      /\ G.tree = Tree("GroupingExpression", t, <<TreeOf(result, nodes)>>)
      /\ G.e \in 1..Len(toks) /\ toks[G.e] = "CLOSEPAREN" /\ pos = G.e - 1
  <2>1. result # Null /\ result \in 1..Len(nodes)
    BY <1>2, TopExpects
  <2> QED
    BY <1>1, <1>3, <2>1 DEF Expects
<1>5. IInv /\ stack # <<>> /\ Len(nodes) \in Nat /\ Len(toks) \in Nat
  BY TrackedFacts
<1>6. here = G.e /\ here \in 1..Len(toks) /\ toks[here] = "CLOSEPAREN"
  BY <1>4, <1>5
<1>7. Match({"CLOSEPAREN"})
  BY <1>5, <1>6, HereMatches
<1>8. /\ New("GroupingExpression", t, kids, 0, t, here) /\ pos' = here /\ After /\ Return(NewPtr)
  BY <1>7 DEF PrefixGroup, Expect, Advance, After, Fine
<1>9. kids # <<Null>>
  <2>1. \A x, y : <<x>> = <<y>> => x = y
    OBVIOUS
  <2> QED
    BY <1>4, <2>1
<1> HIDE DEF t, here
<1>10. NewPtr \in 1..Len(nodes') /\ Down(nodes') /\ Len(nodes') \in Nat
       /\ nodes'[NewPtr].kind = "GroupingExpression" /\ nodes'[NewPtr].token = t
       /\ nodes'[NewPtr].kids = kids
       /\ \A q \in 0..Len(nodes) : TreeOf(q, nodes') = TreeOf(q, nodes)
  <2> HIDE DEF kids
  <2> QED
    BY <1>8, <1>9, NewGrown
<1>11. TreeOf(NewPtr, nodes') = Tree("GroupingExpression", t, <<TreeOf(result, nodes')>>)
  BY <1>10, TreeOfOne
<1>12. TreeOf(NewPtr, nodes') = G.tree
  <2>1. result \in 0..Len(nodes)
    BY <1>4, <1>5
  <2> QED
    BY <1>4, <1>10, <1>11, <2>1
<1>13. pos' = G.e
  BY <1>6, <1>8
<1> HIDE DEF kids
<1> QED
  BY <1>2, <1>8, <1>9, <1>12, <1>13, FollowNewReturn DEF G

LEMMA PrefixUnaryFollows ==
  ASSUME NEW C, NEW pl, Tracked(C, pl), Fine, PrefixUnary
  PROVE  Followed(C)'
<1> DEFINE G == pl[1]
           t == Top.token
           kids == <<result>>
           to == nodes[result].to
<1>1. Top.at = "prefix.unary" /\ toks' = toks
  BY DEF PrefixUnary, At
<1>2. Top.at \in CallPlaces /\ Top.at \in InnerPlaces
  BY <1>1, AreCallPlaces DEF InnerPlaces, OuterPlaces
<1> HIDE DEF G
<1>3. PICK H : Expects(Top, G, H, C, toks, nodes) /\ TreeOf(result, nodes) = H.tree /\ pos = H.e
  BY <1>2, TopExpects DEF G
<1>4. /\ result # Null /\ result \in 1..Len(nodes)
      /\ G.tree = Tree("UnaryExpression", t, <<TreeOf(result, nodes)>>) /\ pos = G.e
      /\ toks[t] = "MINUS" => ConstantTree(TreeOf(result, nodes), toks)
  <2>1. result # Null /\ result \in 1..Len(nodes)
    BY <1>2, TopExpects
  <2> QED
    BY <1>1, <1>3, <2>1 DEF Expects
<1>5. IInv /\ stack # <<>> /\ Len(nodes) \in Nat /\ Down(nodes) /\ FrameFine(Top, toks, nodes)
  BY TrackedFacts
<1>6. toks[t] = "NOT" \/ toks[t] = "MINUS"
  <2>1. toks[t] \in DOMAIN PrefixPower
    BY <1>1, <1>5 DEF FrameFine
  <2> QED
    BY <2>1 DEF PrefixPower
<1>7. result # Null /\ (toks[Top.token] = "NOT" \/ IsConstant(result))
  BY <1>4, <1>5, <1>6, ConstantIsTree
<1>8. /\ New("UnaryExpression", t, kids, 0, t, to) /\ pos' = pos /\ After /\ Return(NewPtr)
  BY <1>7 DEF PrefixUnary, After, Fine
<1>9. "UnaryExpression" # "GroupingExpression"
  OBVIOUS
<1> HIDE DEF t, to
<1>10. NewPtr \in 1..Len(nodes') /\ Down(nodes') /\ Len(nodes') \in Nat
       /\ nodes'[NewPtr].kind = "UnaryExpression" /\ nodes'[NewPtr].token = t
       /\ nodes'[NewPtr].kids = kids
       /\ \A q \in 0..Len(nodes) : TreeOf(q, nodes') = TreeOf(q, nodes)
  <2> HIDE DEF kids
  <2> QED
    BY <1>8, <1>9, NewGrown
<1>11. TreeOf(NewPtr, nodes') = Tree("UnaryExpression", t, <<TreeOf(result, nodes')>>)
  BY <1>10, TreeOfOne
<1>12. TreeOf(NewPtr, nodes') = G.tree
  <2>1. result \in 0..Len(nodes)
    BY <1>4, <1>5
  <2> QED
    BY <1>4, <1>10, <1>11, <2>1
<1>13. pos' = G.e
  BY <1>4, <1>8
<1> HIDE DEF kids
<1> QED
  BY <1>2, <1>8, <1>9, <1>12, <1>13, FollowNewReturn DEF G

----------------------------------------------------------------------------
(* A sentence is accepted, with the trees that were chosen for its lines.  *)

LEMMA TokensStay == [Next]_vars => toks' = toks
<1>1. UNCHANGED vars => toks' = toks
  BY DEF vars
<1>2. Program \/ Statements \/ ProgramChild \/ Definition \/ DefinitionAssign \/ DefinitionEnd
        => toks' = toks
  BY DEF Program, Statements, ProgramChild, Definition, DefinitionAssign, DefinitionEnd
<1>3. TypedVariable \/ TypedVariableColon \/ TypedVariableEnd \/ Type \/ TypeBracket \/ Literal
        => toks' = toks
  BY DEF TypedVariable, TypedVariableColon, TypedVariableEnd, Type, TypeBracket, Literal
<1>4. Statement \/ StatementEnd \/ AssignmentTarget \/ AssignmentExpression \/ AssignmentEnd
        => toks' = toks
  BY DEF Statement, StatementEnd, AssignmentTarget, AssignmentExpression, AssignmentEnd
<1>5. Expression \/ ExpressionPrefix \/ ExpressionOperator \/ ExpressionOperand => toks' = toks
  BY DEF Expression, ExpressionPrefix, ExpressionOperator, ExpressionOperand
<1>6. Prefix \/ PrefixGroup \/ PrefixUnary \/ CalleeFailed \/ Crash => toks' = toks
  BY DEF Prefix, PrefixGroup, PrefixUnary, CalleeFailed, Crash
<1> QED
  BY <1>1, <1>2, <1>3, <1>4, <1>5, <1>6 DEF Next, Terminating

LEMMA NothingFails ==
  ASSUME NEW C, NEW pl, Tracked(C, pl)
  PROVE  ~CalleeFailed /\ ~Crash
<1>1. ~CalleeFailed
  <2> SUFFICES ASSUME CalleeFailed PROVE FALSE
    OBVIOUS
  <2>1. Top.at \in Propagating /\ result = Null
    BY DEF CalleeFailed
  <2>2. Top.at \in CallPlaces
    BY <2>1 DEF CallPlaces
  <2> QED
    BY <2>1, <2>2, TopExpects
<1>2. ~Crash
  <2>1. IInv /\ stack # <<>> /\ Sentence(C.last, C.tree, toks)
    BY TrackedFacts
  <2>2. EndsInLayout
    BY <2>1 DEF Sentence, NewLines, EndsInLayout
  <2>3. ~undefined
    BY <2>1, <2>2 DEF IInv, LocationsExist
  <2> QED
    BY <2>3 DEF Crash
<1> QED
  BY <1>1, <1>2

LEMMA StepFollows ==
  ASSUME NEW C, NEW pl, Tracked(C, pl), Fine, toks' = toks, Next
  PROVE  Followed(C)'
<1>1. Program \/ Statements \/ ProgramChild => Followed(C)'
  <2>1. Program \/ Statements \/ ProgramChild => diags' = diags
    BY DEF Program, Statements, ProgramChild
  <2>2. Program \/ Statements \/ ProgramChild => After
    BY <2>1 DEF After, Fine
  <2> QED
    BY <2>2, ProgramFollows, StatementsFollow, ProgramChildFollows
<1>2. Definition \/ DefinitionAssign \/ DefinitionEnd => Followed(C)'
  BY DefinitionFollows, DefinitionAssignFollows, DefinitionEndFollows
<1>3. TypedVariable \/ TypedVariableColon \/ TypedVariableEnd => Followed(C)'
  BY TypedVariableFollows, TypedVariableColonFollows, TypedVariableEndFollows
<1>4. Type \/ TypeBracket \/ Literal => Followed(C)'
  BY TypeFollows, TypeBracketFollows, LiteralFollows
<1>5. Statement \/ StatementEnd => Followed(C)'
  BY StatementFollows, StatementEndFollows
<1>6. AssignmentTarget \/ AssignmentExpression \/ AssignmentEnd => Followed(C)'
  BY AssignmentTargetFollows, AssignmentExpressionFollows, AssignmentEndFollows
<1>7. Expression \/ ExpressionPrefix \/ ExpressionOperator \/ ExpressionOperand => Followed(C)'
  BY ExpressionFollows, ExpressionPrefixFollows, ExpressionOperatorFollows, ExpressionOperandFollows
<1>8. Prefix \/ PrefixGroup \/ PrefixUnary => Followed(C)'
  BY PrefixFollows, PrefixGroupFollows, PrefixUnaryFollows
<1>9. ~CalleeFailed /\ ~Crash
  BY NothingFails
<1>10. ~Terminating
  BY TrackedFacts DEF Terminating
<1> QED
  BY <1>1, <1>2, <1>3, <1>4, <1>5, <1>6, <1>7, <1>8, <1>9, <1>10 DEF Next

LEMMA FollowedStays ==
  ASSUME NEW C, Followed(C), UNCHANGED vars
  PROVE  Followed(C)'
<1>1. /\ toks' = toks /\ pos' = pos /\ diags' = diags /\ nodes' = nodes /\ stack' = stack
      /\ result' = result
  BY DEF vars
<1>2. HasHole' <=> HasHole
  BY <1>1 DEF HasHole
<1> QED
  BY <1>1, <1>2 DEF Followed

LEMMA TInvStep ==
  ASSUME IInv, IInv', CInv, MInv, MInv', TInv, [Next]_vars
  PROVE  TInv'
<1>1. toks' = toks
  BY TokensStay
<1>2. ASSUME NEW last, NEW tree, Sentence(last, tree, toks)
      PROVE  Followed(Choice(last, tree))'
  <2> DEFINE C == Choice(last, tree)
  <2>1. Followed(C)
    BY <1>2 DEF TInv
  <2>2. C.last = last /\ C.tree = tree
    BY DEF Choice
  <2> HIDE DEF C
  <2>3. CASE UNCHANGED vars
    <3>1. Followed(C)'
      BY <2>1, <2>3, FollowedStays
    <3> QED
      BY <3>1 DEF C
  <2>4. CASE Next /\ stack = <<>>
    <3>1. Terminating
      BY <2>4 DEF Next, Program, Statements, ProgramChild, Definition, DefinitionAssign,
         DefinitionEnd, TypedVariable, TypedVariableColon, TypedVariableEnd, Type, TypeBracket,
         Literal, Statement, StatementEnd, AssignmentTarget, AssignmentExpression, AssignmentEnd,
         Expression, ExpressionPrefix, ExpressionOperator, ExpressionOperand, Prefix, PrefixGroup,
         PrefixUnary, CalleeFailed, Crash, At
    <3>2. Followed(C)'
      BY <2>1, <3>1, FollowedStays DEF Terminating
    <3> QED
      BY <3>2 DEF C
  <2>5. CASE Next /\ stack # <<>>
    <3>1. diags = <<>> /\ ~HasHole /\ \E pl : FollowsPlan(stack, pl, pos, result, C, toks, nodes)
      BY <2>1, <2>5 DEF Followed
    <3>2. PICK pl : FollowsPlan(stack, pl, pos, result, C, toks, nodes)
      BY <3>1
    <3>3. Tracked(C, pl)
      BY <1>2, <2>2, <2>5, <3>1, <3>2 DEF Tracked
    <3>4. Followed(C)'
      BY <1>1, <2>5, <3>3, StepFollows DEF Fine
    <3> QED
      BY <3>4 DEF C
  <2> QED
    BY <2>3, <2>4, <2>5
<1> QED
  BY <1>1, <1>2 DEF TInv

LEMMA TInvStarts == Init => TInv
<1> SUFFICES ASSUME Init, NEW last, NEW tree, Sentence(last, tree, toks)
             PROVE  Followed(Choice(last, tree))
  BY DEF TInv
<1> DEFINE C == Choice(last, tree)
           f == Enter("program", 0, 0)
           pl == [k \in Nat |-> 0]
<1>1. diags = <<>> /\ nodes = <<>> /\ stack = <<f>> /\ pos = 0
  BY DEF Init
<1>2. ~HasHole
  BY <1>1 DEF HasHole
<1>3. f.at = "program" /\ f.own = <<>> /\ "program" \notin CallPlaces
  BY NotCallPlaces, EnterFacts
<1> HIDE DEF C, f, pl
<1>4. stack[1] = f /\ stack # <<>> /\ Len(stack) = 1
  BY <1>1
<1>5. Tracks(f, pl[1], pos, C, toks, nodes)
  <2>1. LinePoint(pos, toks)
    BY <1>1 DEF LinePoint
  <2>2. LinesOf(f.own, C, nodes)
    BY <1>3 DEF LinesOf
  <2> QED
    BY <1>3, <2>1, <2>2 DEF Tracks
<1>6. FollowsPlan(stack, pl, pos, result, C, toks, nodes)
  BY <1>3, <1>4, <1>5 DEF FollowsPlan
<1>7. Followed(C)
  BY <1>1, <1>2, <1>4, <1>6 DEF Followed
<1> QED
  BY <1>7 DEF C

(* Whatever the trees chosen for the lines of a sentence, no step of the   *)
(* parser strays from building them: it never reports, and its activations *)
(* have the parts of these trees as their goals.                           *)
THEOREM ParserFollowsSentences == Spec => []TInv
<1>1. Init => TInv
  BY TInvStarts
<1>2. IInv /\ IInv' /\ CInv /\ MInv /\ MInv' /\ TInv /\ [Next]_vars => TInv'
  BY TInvStep
<1> QED
  BY <1>1, <1>2, ParserInvariant, ParserCover, ParserMakesNodes, PTL DEF Spec

----------------------------------------------------------------------------
(* The grammar and the parser agree.                                       *)

LEMMA SentencesAreAccepted ==
  ASSUME TInv, Done, Grammatical
  PROVE  Accepted /\ ~HasHole
<1>1. PICK last, tree : Sentence(last, tree, toks)
  BY GrammaticalIsSentence
<1>2. Followed(Choice(last, tree))
  BY <1>1 DEF TInv
<1> QED
  BY <1>2 DEF Followed, Accepted, Done

LEMMA AcceptedAreSentences ==
  ASSUME IInv, CInv, MInv, BInv, Accepted, ~HasHole
  PROVE  Grammatical
<1>1. CASE toks = <<>>
  BY <1>1, AcceptedNothing, GrammaticalIsSentence
<1>2. CASE toks # <<>>
  BY <1>2, AcceptedIsRead, ReadIsSentence, GrammaticalIsSentence
<1> QED
  BY <1>1, <1>2

(* A line that can be read as a definition cannot be as an assignment.     *)
LEMMA LineIsOne ==
  ASSUME NEW ts, Len(ts) \in Nat, NEW i \in 1..Len(ts), NEW j \in 1..Len(ts)
  PROVE  DefinitionTrees(i, j, ts) = {} \/ AssignmentTrees(i, j, ts) = {}
<1> SUFFICES ASSUME NEW t \in DefinitionTrees(i, j, ts), NEW u \in AssignmentTrees(i, j, ts)
             PROVE  FALSE
  OBVIOUS
<1>1. ts[i + 1] = "COLON"
  BY DefinitionMembers DEF DefinitionLine
<1>2. PICK n \in 1..Len(ts) : TargetsLine(n, i, j, ts)
  BY AssignmentMembers
<1>3. 1 \in 1..n /\ i + 2 * 1 - 1 = i + 1
  BY <1>2
<1>4. ts[i + 2 * 1 - 1] = "ASSIGN"
  BY <1>2, <1>3 DEF TargetsLine
<1>5. ts[i + 1] = "ASSIGN"
  BY <1>3, <1>4
<1> QED
  BY <1>1, <1>5

(* Another tree for one line of a sentence is another choice.              *)
Other(tree, end, t, ts) == [j \in NewLines(ts) |-> IF j = end THEN t ELSE tree[j]]

LEMMA OtherSentence ==
  ASSUME NEW ts, NEW last, NEW tree, Sentence(last, tree, ts), NEW end \in NewLines(ts),
         NEW t \in LineTrees(end, last, ts)
  PROVE  Sentence(last, Other(tree, end, t, ts), ts) /\ Other(tree, end, t, ts)[end] = t
<1>1. \A j \in NewLines(ts) : Other(tree, end, t, ts)[j] = IF j = end THEN t ELSE tree[j]
  BY DEF Other
<1>2. \A j \in NewLines(ts) : Other(tree, end, t, ts)[j] \in LineTrees(j, last, ts)
  BY <1>1 DEF Sentence
<1> QED
  BY <1>1, <1>2 DEF Sentence

LEMMA LinesHaveOneTree ==
  ASSUME IInv, CInv, MInv, BInv, TInv, Accepted, ~HasHole, NEW k \in DOMAIN nodes[result].kids
  PROVE  LET line == nodes[result].kids[k]
             end == nodes[line].to + 1
         IN  DefinitionTrees(LineStart(end, toks), end, toks) \cup AssignmentTrees(LineStart(end, toks), end, toks)
               = {Trees(nodes)[line]}
<1> DEFINE K == nodes[result].kids
           line == K[k]
           end == LineEnd(line, nodes)
           i == LineStart(end, toks)
<1>1. toks # <<>>
  <2> SUFFICES ASSUME toks = <<>> PROVE FALSE
    OBVIOUS
  <2>1. nodes[result].kids = <<>>
    BY AcceptedNothing
  <2> QED
    BY <2>1
<1>2. LinesRead(K, toks, nodes)
  BY <1>1, AcceptedIsRead
<1>3. k \in 1..Len(K)
  BY <1>2 DEF LinesRead
<1> HIDE DEF K
<1>4. /\ end \in NewLines(toks) /\ i = nodes[line].from /\ i \in 1..Len(toks) /\ Len(toks) \in Nat
      /\ end \in 1..Len(toks)
  <2>1. end \in NewLines(toks) /\ nodes[line].from \in 1..Len(toks) /\ Len(toks) \in Nat
    BY <1>2, <1>3, LinesAre
  <2>2. i = nodes[line].from
    BY <1>2, <1>3, LineStarts
  <2> QED
    BY <2>1, <2>2 DEF NewLines
<1>5. PICK last, tree : /\ Sentence(last, tree, toks)
                        /\ \A q \in 1..Len(K) :
                             TreeOf(K[q], nodes) \in LineTrees(LineEnd(K[q], nodes), last, toks)
  BY <1>2, ReadIsSentence
<1>6. TreeOf(line, nodes) \in LineTrees(end, last, toks)
  BY <1>3, <1>5
<1> DEFINE D == DefinitionTrees(i, end, toks)
           A == AssignmentTrees(i, end, toks)
<1>7. LineTrees(end, last, toks) = D \/ LineTrees(end, last, toks) = A
  BY DEF LineTrees
<1>8. D = {} \/ A = {}
  <2> HIDE DEF i, end
  <2> QED
    BY <1>4, LineIsOne
<1> HIDE DEF D, A, end, i
<1>9. D \cup A = LineTrees(end, last, toks)
  BY <1>6, <1>7, <1>8
<1>10. ASSUME NEW t \in LineTrees(end, last, toks)
       PROVE  t = TreeOf(line, nodes)
  <2> DEFINE tree2 == Other(tree, end, t, toks)
             C == Choice(last, tree2)
  <2>1. Sentence(last, tree2, toks) /\ tree2[end] = t
    BY <1>4, <1>5, OtherSentence
  <2> HIDE DEF tree2
  <2>2. Followed(C)
    BY <2>1 DEF TInv
  <2>3. stack = <<>>
    BY DEF Accepted, Done
  <2>4. LinesOf(K, C, nodes)
    BY <2>2, <2>3 DEF Followed, K
  <2>5. TreeOf(K[k], nodes) = C.tree[LineEnd(K[k], nodes)]
    BY <1>3, <2>4 DEF LinesOf
  <2>6. C.tree = tree2
    BY DEF Choice
  <2> QED
    BY <2>1, <2>5, <2>6 DEF end
<1>11. D \cup A = {TreeOf(line, nodes)}
  BY <1>6, <1>9, <1>10
<1> QED
  BY <1>11 DEF D, A, i, end, K, LineEnd, TreeOf

(* Whatever the token stream: the parser accepts exactly the sentences of  *)
(* the grammar, and the tree it builds for a line is the only one that the *)
(* grammar has for it; so the grammar is unambiguous too.                  *)
THEOREM ParserParsesTheGrammar == Spec => []ParsesTheGrammar
<1>1. IInv /\ CInv /\ MInv /\ BInv /\ TInv => ParsesTheGrammar
  <2> SUFFICES ASSUME IInv, CInv, MInv, BInv, TInv, Done
               PROVE  ParsesTheGrammar
    BY DEF ParsesTheGrammar
  <2>1. Accepted /\ ~HasHole <=> Grammatical
    BY SentencesAreAccepted, AcceptedAreSentences
  <2> QED
    BY <2>1, LinesHaveOneTree DEF ParsesTheGrammar
<1> QED
  BY <1>1, ParserInvariant, ParserCover, ParserPrecedence, ParserMakesNodes,
     ParserFollowsSentences, PTL

----------------------------------------------------------------------------
(***************************************************************************)
(* The parser reads what the pretty printer writes.  What is printed for a *)
(* program is a sentence of the grammar, with a tree for every line that   *)
(* has the shape of the line; so, by the above, that is the tree that is   *)
(* built.                                                                  *)
(***************************************************************************)

(* The trees to print, and the recursive definitions over them.            *)
Syntax == INSTANCE TreeProofs

LEMMA PrintedSyntax ==
  /\ Syntax!ASTAssumption /\ Syntax!ExpressionsAreTrees
  /\ Syntax!Null = Printer!Null /\ \A e : Syntax!Inner(e) = Printer!Inner(e)
  /\ Syntax!Tokens = Printer!Tokens
<1>1. /\ Syntax!Types = Printer!Types /\ Syntax!Literals = Printer!Literals
      /\ Syntax!Identifiers = Printer!Identifiers
  BY DEF Syntax!Types, Printer!Types, Syntax!Literals, Printer!Literals, Syntax!Identifiers,
         Printer!Identifiers, Syntax!LiteralTypes, Printer!LiteralTypes, Syntax!Names, Printer!Names
<1>2. /\ Syntax!Binaries(Expressions) = Printer!Binaries(Expressions)
      /\ Syntax!Unaries(Expressions) = Printer!Unaries(Expressions)
      /\ Syntax!Groupings(Expressions) = Printer!Groupings(Expressions)
      /\ Syntax!Definitions = Printer!Definitions
      /\ Syntax!Assignments(Expressions) = Printer!Assignments(Expressions)
  BY <1>1 DEF Syntax!Binaries, Printer!Binaries, Syntax!Unaries, Printer!Unaries, Syntax!Groupings,
     Printer!Groupings, Syntax!Definitions, Printer!Definitions, Syntax!Assignments,
     Printer!Assignments, Syntax!Null, Printer!Null, Syntax!Names, Printer!Names, Syntax!Operators,
     Printer!Operators, Syntax!Logical, Printer!Logical, Syntax!Comparing, Printer!Comparing,
     Syntax!Arithmetic, Printer!Arithmetic, Syntax!UnaryOperators, Printer!UnaryOperators
<1>3. Syntax!Size = Printer!Size
  BY DEF Syntax!Size, Printer!Size, Syntax!Null, Printer!Null
<1>4. Syntax!Null = Printer!Null /\ \A e : Syntax!Inner(e) = Printer!Inner(e)
  BY DEF Syntax!Inner, Printer!Inner, Syntax!Operands, Printer!Operands, Syntax!Null, Printer!Null
<1>5. Syntax!Tokens = Printer!Tokens
  BY DEF Syntax!Tokens, Printer!Tokens, Syntax!Null, Printer!Null, Syntax!BinaryTokens,
         Printer!BinaryTokens, Syntax!LiteralTokens, Printer!LiteralTokens
<1>6. Syntax!ASTAssumption
  BY <1>1, <1>2, PrintedTrees DEF Syntax!ASTAssumption, Printer!ASTAssumption
<1>7. Syntax!ExpressionsAreTrees
  BY <1>3, <1>4, PrintedTrees DEF Syntax!ExpressionsAreTrees, Printer!ExpressionsAreTrees
<1> QED
  BY <1>4, <1>5, <1>6, <1>7

(* What an expression is made of, and that all expressions are made of     *)
(* smaller ones.                                                           *)
LEMMA PrintedKinds ==
  ASSUME NEW e \in Expressions
  PROVE  /\ e.kind \in {"Literal", "Identifier", "BinaryExpression", "UnaryExpression",
                        "GroupingExpression"}
         /\ e # Printer!Null
         /\ e.kind = "Literal" => e.value \in Literals
         /\ e.kind = "BinaryExpression" =>
              /\ e.op \in Printer!Operators
              /\ {e.lhs, e.rhs} \subseteq Expressions \cap Printer!Inner(e)
         /\ e.kind = "UnaryExpression" =>
              e.op \in Printer!UnaryOperators /\ e.rhs \in Expressions \cap Printer!Inner(e)
         /\ e.kind = "GroupingExpression" /\ e.expr # Printer!Null =>
              e.expr \in Expressions \cap Printer!Inner(e)
<1>1. \/ e \in Printer!Literals \/ e \in Printer!Identifiers
      \/ e \in Printer!Binaries(Expressions) \/ e \in Printer!Unaries(Expressions)
      \/ e \in Printer!Groupings(Expressions)
  BY PrintedTrees DEF Printer!ASTAssumption
<1>2. Printer!Null.kind = "nullptr" /\ Values \subseteq Literals
  BY PrintedTrees DEF Printer!Null
<1>3. \A d \in Expressions : d # Printer!Null
  <2> SUFFICES ASSUME NEW d \in Expressions PROVE d.kind # "nullptr"
    BY <1>2
  <2> QED
    BY PrintedTrees DEF Printer!ASTAssumption, Printer!Literals, Printer!Identifiers,
       Printer!Binaries, Printer!Unaries, Printer!Groupings
<1>4. CASE e \in Printer!Literals
  BY <1>2, <1>3, <1>4 DEF Printer!Literals
<1>5. CASE e \in Printer!Identifiers
  BY <1>3, <1>5 DEF Printer!Identifiers
<1>6. CASE e \in Printer!Binaries(Expressions)
  BY <1>3, <1>6 DEF Printer!Binaries, Printer!Inner, Printer!Operands
<1>7. CASE e \in Printer!Unaries(Expressions)
  BY <1>3, <1>7 DEF Printer!Unaries, Printer!Inner, Printer!Operands
<1>8. CASE e \in Printer!Groupings(Expressions)
  BY <1>3, <1>8 DEF Printer!Groupings, Printer!Inner, Printer!Operands
<1> QED
  BY <1>1, <1>4, <1>5, <1>6, <1>7, <1>8

LEMMA PrintedInduction ==
  ASSUME NEW S, \A e \in Expressions : Printer!Inner(e) \subseteq S => e \in S
  PROVE  Expressions \subseteq S
BY PrintedSyntax, Syntax!TreeInduction, Syntax!ASTAssumption, Syntax!ExpressionsAreTrees

(* The tokens of an expression, from those of its operands.                *)
LEMMA PrintedTokens ==
  ASSUME NEW e \in Expressions
  PROVE  /\ Len(Printer!Tokens[e]) \in Nat
         /\ \E S : Printer!Tokens[e] \in Seq(S)
         /\ e.kind = "Literal" => Printer!Tokens[e] = Printer!LiteralTokens(e)
         /\ e.kind = "Identifier" => Printer!Tokens[e] = <<"ID">>
         /\ e.kind = "BinaryExpression" =>
              Printer!Tokens[e]
                = Printer!BinaryTokens(e.op, Printer!Tokens[e.lhs], Printer!Tokens[e.rhs])
         /\ e.kind = "UnaryExpression" =>
              Printer!Tokens[e]
                = <<"OPENPAREN", e.op>> \o Printer!Tokens[e.rhs] \o <<"CLOSEPAREN">>
         /\ e.kind = "GroupingExpression" /\ e.expr # Printer!Null =>
              Printer!Tokens[e] = Printer!Tokens[e.expr]
<1>1. /\ Syntax!LiteralTokens(e) = Printer!LiteralTokens(e)
      /\ \A op, l, r : Syntax!BinaryTokens(op, l, r) = Printer!BinaryTokens(op, l, r)
  BY DEF Syntax!LiteralTokens, Printer!LiteralTokens, Syntax!BinaryTokens, Printer!BinaryTokens
<1>2. Syntax!Tokens[e] \in Seq(Syntax!PrintedTypes)
  BY PrintedSyntax, Syntax!TokensUnfold, Syntax!ASTAssumption, Syntax!ExpressionsAreTrees
<1> QED
  BY <1>1, <1>2, PrintedSyntax, Syntax!TokensUnfold, Syntax!ASTAssumption, Syntax!ExpressionsAreTrees

(* What can be printed, and the shape of an expression, unfolded.          *)
PrintsRule(f, e) ==
  CASE e.kind = "Literal" -> e.type # "<None>"
    [] e.kind = "BinaryExpression" -> e.op # "IS" /\ f[e.lhs] /\ f[e.rhs]
    [] e.kind = "UnaryExpression" -> f[e.rhs]
    [] e.kind = "GroupingExpression" -> e.expr # Printer!Null /\ f[e.expr]
    [] OTHER -> TRUE

LEMMA PrintsUnfolds ==
  ASSUME NEW e \in Expressions
  PROVE  Prints[e] = PrintsRule(Prints, e)
<1> DEFINE V == BOOLEAN
           step == [f \in [Expressions -> V] |-> [d \in Expressions |-> PrintsRule(f, d)]]
<1>1. \A f \in [Expressions -> V], d \in Expressions : PrintsRule(f, d) \in V
  BY PrintedKinds DEF PrintsRule
<1>2. \A f, g \in [Expressions -> V] : \A d \in Expressions :
        (\A o \in Printer!Inner(d) : f[o] = g[o]) => PrintsRule(f, d) = PrintsRule(g, d)
  <2> SUFFICES ASSUME NEW f \in [Expressions -> V], NEW g \in [Expressions -> V],
                      NEW d \in Expressions, \A o \in Printer!Inner(d) : f[o] = g[o]
               PROVE  PrintsRule(f, d) = PrintsRule(g, d)
    OBVIOUS
  <2>1. CASE d.kind = "BinaryExpression"
    <3>1. f[d.lhs] = g[d.lhs] /\ f[d.rhs] = g[d.rhs]
      BY <2>1, PrintedKinds
    <3> QED
      BY <2>1, <3>1 DEF PrintsRule
  <2>2. CASE d.kind = "UnaryExpression"
    <3>1. f[d.rhs] = g[d.rhs]
      BY <2>2, PrintedKinds
    <3> QED
      BY <2>2, <3>1 DEF PrintsRule
  <2>3. CASE d.kind = "GroupingExpression"
    <3>1. d.expr # Printer!Null => f[d.expr] = g[d.expr]
      BY <2>3, PrintedKinds
    <3> QED
      BY <2>3, <3>1 DEF PrintsRule
  <2>4. CASE d.kind \in {"Literal", "Identifier"}
    BY <2>4 DEF PrintsRule
  <2> QED
    BY <2>1, <2>2, <2>3, <2>4, PrintedKinds
<1>3. step \in [[Expressions -> V] -> [Expressions -> V]]
  BY <1>1
<1>4. Syntax!Local(V, step)
  BY <1>2, PrintedSyntax DEF Syntax!Local
<1>5. \E f \in [Expressions -> V] : step[f] = f
  <2>1. V # {}
    OBVIOUS
  <2> HIDE DEF step, V
  <2> QED
    BY <1>3, <1>4, <2>1, PrintedSyntax, Syntax!TreeRecursion, Syntax!ASTAssumption,
       Syntax!ExpressionsAreTrees
<1>6. PICK f \in [Expressions -> V] : f = [d \in Expressions |-> PrintsRule(f, d)]
  BY <1>5
<1>7. Prints = [d \in Expressions |-> PrintsRule(Prints, d)]
  BY <1>6 DEF Prints, PrintsRule
<1> QED
  BY <1>7

ShapeRule(f, e) ==
  CASE e.kind = "Literal" -> Leaf(e.value)
    [] e.kind = "Identifier" -> Leaf("ID")
    [] e.kind = "BinaryExpression" -> Apply(e.op, <<f[e.lhs], f[e.rhs]>>)
    [] e.kind = "UnaryExpression" -> Apply(e.op, <<f[e.rhs]>>)
    [] OTHER -> IF e.expr = Printer!Null THEN Leaf("nullptr") ELSE f[e.expr]

LEMMA ShapeRuleIsLocal ==
  ASSUME NEW f, NEW g, NEW d \in Expressions, \A o \in Printer!Inner(d) : f[o] = g[o]
  PROVE  ShapeRule(f, d) = ShapeRule(g, d)
<1>1. CASE d.kind = "BinaryExpression"
  <2>1. f[d.lhs] = g[d.lhs] /\ f[d.rhs] = g[d.rhs]
    BY <1>1, PrintedKinds
  <2> QED
    BY <1>1, <2>1 DEF ShapeRule
<1>2. CASE d.kind = "UnaryExpression"
  <2>1. f[d.rhs] = g[d.rhs]
    BY <1>2, PrintedKinds
  <2> QED
    BY <1>2, <2>1 DEF ShapeRule
<1>3. CASE d.kind = "GroupingExpression"
  <2>1. d.expr # Printer!Null => f[d.expr] = g[d.expr]
    BY <1>3, PrintedKinds
  <2> QED
    BY <1>3, <2>1 DEF ShapeRule
<1>4. CASE d.kind \in {"Literal", "Identifier"}
  BY <1>4 DEF ShapeRule
<1> QED
  BY <1>1, <1>2, <1>3, <1>4, PrintedKinds

(* The shapes of the expressions of less than n nodes.                     *)
Smaller(n) == {e \in Expressions : Printer!Size[e] < n}
ShapesBelow(f, n) == f = [e \in Smaller(n) |-> ShapeRule(f, e)]

LEMMA SizeFacts ==
  ASSUME NEW e \in Expressions
  PROVE  /\ Printer!Size[e] \in Nat
         /\ \A o \in Printer!Inner(e) :
              o \in Expressions /\ Printer!Size[o] \in Nat /\ Printer!Size[o] < Printer!Size[e]
<1>1. Printer!Inner(e) \subseteq Expressions
  BY PrintedSyntax, Syntax!InnerFacts, Syntax!ASTAssumption, Syntax!ExpressionsAreTrees
<1> QED
  BY <1>1, PrintedTrees DEF Printer!ExpressionsAreTrees

LEMMA ShapesAgree ==
  ASSUME NEW f, NEW g, NEW m \in Nat, NEW n \in Nat, ShapesBelow(f, m), ShapesBelow(g, n), m <= n
  PROVE  \A e \in Smaller(m) : f[e] = g[e]
<1> DEFINE S == {e \in Expressions : e \in Smaller(m) => f[e] = g[e]}
<1>1. ASSUME NEW e \in Expressions, Printer!Inner(e) \subseteq S
      PROVE  e \in S
  <2> SUFFICES ASSUME e \in Smaller(m) PROVE f[e] = g[e]
    OBVIOUS
  <2>1. e \in Smaller(n) /\ \A o \in Printer!Inner(e) : o \in Smaller(m)
    BY SizeFacts DEF Smaller
  <2>2. ShapeRule(f, e) = ShapeRule(g, e)
    BY <1>1, <2>1, ShapeRuleIsLocal
  <2>3. f[e] = ShapeRule(f, e)
    BY Zenon DEF ShapesBelow
  <2>4. g[e] = ShapeRule(g, e)
    BY <2>1, Zenon DEF ShapesBelow
  <2> QED
    BY <2>2, <2>3, <2>4
<1> HIDE DEF S
<1>2. Expressions \subseteq S
  BY <1>1, PrintedInduction
<1> QED
  BY <1>2 DEF S, Smaller

LEMMA ShapesExist ==
  ASSUME NEW n \in Nat
  PROVE  \E f : ShapesBelow(f, n)
<1> DEFINE S == {m \in Nat : \E f : ShapesBelow(f, m)}
<1>1. 0 \in S
  <2> DEFINE f == [e \in {} |-> e]
  <2>1. Smaller(0) = {}
    BY SizeFacts DEF Smaller
  <2>2. \A h : [e \in Smaller(0) |-> ShapeRule(h, e)] = f
    BY <2>1
  <2>3. ShapesBelow(f, 0)
    BY <2>2 DEF ShapesBelow
  <2> QED
    BY <2>3
<1>2. ASSUME NEW m \in Nat, m \in S
      PROVE  m + 1 \in S
  <2>1. PICK f : ShapesBelow(f, m)
    BY <1>2
  <2> DEFINE h == [e \in Smaller(m + 1) |-> ShapeRule(f, e)]
  <2>2. \A e \in Smaller(m) : e \in Smaller(m + 1)
    BY SizeFacts DEF Smaller
  <2>3. \A e \in Smaller(m) : f[e] = ShapeRule(f, e)
    BY <2>1, Zenon DEF ShapesBelow
  <2>4. \A e \in Smaller(m) : h[e] = f[e]
    BY <2>2, <2>3
  <2>5. ASSUME NEW e \in Smaller(m + 1)
        PROVE  ShapeRule(f, e) = ShapeRule(h, e)
    <3>1. e \in Expressions /\ \A o \in Printer!Inner(e) : o \in Smaller(m)
      BY SizeFacts DEF Smaller
    <3> HIDE DEF h
    <3> QED
      BY <2>4, <3>1, ShapeRuleIsLocal
  <2>6. h = [e \in Smaller(m + 1) |-> ShapeRule(h, e)]
    BY <2>5, Zenon
  <2> HIDE DEF h
  <2>7. ShapesBelow(h, m + 1)
    BY <2>6 DEF ShapesBelow
  <2> QED
    BY <2>7
<1> HIDE DEF S
<1>3. n \in S
  BY <1>1, <1>2, FromNumberToNext
<1> QED
  BY <1>3 DEF S

LEMMA ShapeUnfolds ==
  ASSUME NEW e \in Expressions
  PROVE  Shape[e] = ShapeRule(Shape, e)
<1> DEFINE G(d) == CHOOSE f : ShapesBelow(f, Printer!Size[d] + 1)
           F == [d \in Expressions |-> G(d)[d]]
<1>1. ASSUME NEW d \in Expressions
      PROVE  ShapesBelow(G(d), Printer!Size[d] + 1) /\ d \in Smaller(Printer!Size[d] + 1)
  <2> DEFINE n == Printer!Size[d] + 1
  <2>1. n \in Nat /\ d \in Smaller(n)
    BY SizeFacts DEF Smaller
  <2> HIDE DEF n
  <2>2. \E f : ShapesBelow(f, n)
    BY <2>1, ShapesExist
  <2>3. ShapesBelow(CHOOSE f : ShapesBelow(f, n), n)
    BY <2>2, Zenon
  <2> QED
    BY <2>1, <2>3 DEF n
<1>2. ASSUME NEW d \in Expressions
      PROVE  F[d] = ShapeRule(F, d)
  <2> DEFINE g == G(d)
             n == Printer!Size[d] + 1
  <2>1. ShapesBelow(g, n) /\ d \in Smaller(n) /\ n \in Nat
    BY <1>1, SizeFacts
  <2>2. ASSUME NEW o \in Printer!Inner(d)
        PROVE  F[o] = g[o]
    <3> DEFINE h == G(o)
               m == Printer!Size[o] + 1
    <3>1. o \in Expressions /\ m \in Nat /\ m <= n
      BY SizeFacts
    <3>2. ShapesBelow(h, m) /\ o \in Smaller(m)
      BY <1>1, <3>1
    <3>3. F[o] = h[o]
      BY <3>1
    <3> HIDE DEF h, g, m, n, F, G
    <3> QED
      BY <2>1, <3>1, <3>2, <3>3, ShapesAgree
  <2>3. F[d] = g[d]
    OBVIOUS
  <2> HIDE DEF g, F, G, n
  <2>4. g[d] = ShapeRule(g, d)
    BY <2>1, Zenon DEF ShapesBelow
  <2>5. ShapeRule(F, d) = ShapeRule(g, d)
    BY <2>2, ShapeRuleIsLocal
  <2> QED
    BY <2>3, <2>4, <2>5
<1>3. F = [d \in Expressions |-> F[d]]
  OBVIOUS
<1> HIDE DEF F, G
<1>4. F = [d \in Expressions |-> ShapeRule(F, d)]
  BY <1>2, <1>3
<1>5. Shape = [d \in Expressions |-> ShapeRule(Shape, d)]
  BY <1>4 DEF Shape, ShapeRule
<1> QED
  BY <1>5

----------------------------------------------------------------------------
(* What a node of the heap is without parentheses, unfolded.               *)
NodeShape(f, p) ==
  LET n == nodes[p]
      operands == [k \in 1..Len(n.kids) |-> f[n.kids[k]]]
  IN  CASE n.kind \in {"Literal", "Identifier", "Type"} -> Leaf(toks[n.token])
        [] n.kind \in {"BinaryExpression", "UnaryExpression"} -> Apply(toks[n.token], operands)
        [] n.kind = "GroupingExpression" -> operands[1]
        [] OTHER -> Apply(n.kind, operands)

(* Without holes every child is a node, an older one.                      *)
LEMMA KidsExist ==
  ASSUME HeapKnown(toks, nodes), NEW p \in 1..Len(nodes)
  PROVE  \A k \in 1..Len(nodes[p].kids) : nodes[p].kids[k] \in 1..(p - 1)
<1>1. /\ Linked(nodes[p], nodes) /\ Down(nodes) /\ nodes[p].kids \in Seq(Nat) /\ Len(nodes) \in Nat
      /\ nodes[p].kind = "GroupingExpression" => nodes[p].kids # <<Null>>
  BY KnownFacts DEF Known
<1> DEFINE kids == nodes[p].kids
<1>2. SUFFICES ASSUME NEW k \in 1..Len(kids) PROVE kids[k] \in 1..(p - 1)
  OBVIOUS
<1>3. kids[k] \in 0..(p - 1)
  BY <1>1 DEF Down
<1>4. kids[k] # Null
  <2> SUFFICES ASSUME kids[k] = Null PROVE FALSE
    OBVIOUS
  <2>1. nodes[p].kind = "GroupingExpression" /\ Len(kids) = 1
    BY <1>1 DEF Linked, Null
  <2>2. k = 1
    BY <2>1
  <2>3. kids = <<Null>>
    <3>1. kids \in Seq(Nat) /\ Len(kids) = 1 /\ kids[1] = Null
      BY <1>1, <2>1, <2>2
    <3> HIDE DEF kids
    <3> QED
      BY <3>1
  <2> QED
    BY <1>1, <2>1, <2>3
<1> QED
  BY <1>3, <1>4 DEF Null

LEMMA NodeShapeIsLocal ==
  ASSUME HeapKnown(toks, nodes), NEW p \in 1..Len(nodes), NEW f, NEW h,
         \A q \in 1..(p - 1) : f[q] = h[q]
  PROVE  NodeShape(f, p) = NodeShape(h, p)
<1>1. \A k \in 1..Len(nodes[p].kids) : f[nodes[p].kids[k]] = h[nodes[p].kids[k]]
  BY KidsExist
<1>2. [k \in 1..Len(nodes[p].kids) |-> f[nodes[p].kids[k]]]
      = [k \in 1..Len(nodes[p].kids) |-> h[nodes[p].kids[k]]]
  BY <1>1
<1> QED
  BY <1>2 DEF NodeShape

LEMMA NodeShapesUnfold ==
  ASSUME HeapKnown(toks, nodes), NEW p \in 1..Len(nodes)
  PROVE  ShapeOfNode[p] = NodeShape(ShapeOfNode, p)
<1> DEFINE S == {m \in Nat : m <= Len(nodes) => \E f : f = [q \in 1..m |-> NodeShape(f, q)]}
<1>0. Len(nodes) \in Nat
  BY KnownFacts
<1>1. 0 \in S
  <2> DEFINE f == [q \in {} |-> q]
  <2>1. \A h : [q \in 1..0 |-> NodeShape(h, q)] = f
    <3>1. 1..0 = {}
      OBVIOUS
    <3> QED
      BY <3>1
  <2> QED
    BY <2>1
<1>2. ASSUME NEW m \in Nat, m \in S
      PROVE  m + 1 \in S
  <2> SUFFICES ASSUME m + 1 <= Len(nodes)
               PROVE  \E f : f = [q \in 1..(m + 1) |-> NodeShape(f, q)]
    OBVIOUS
  <2>1. PICK f : f = [q \in 1..m |-> NodeShape(f, q)]
    BY <1>0, <1>2
  <2> DEFINE h == [q \in 1..(m + 1) |-> NodeShape(f, q)]
  <2>2. \A q \in 1..m : h[q] = f[q]
    <3>1. \A q \in 1..m : f[q] = NodeShape(f, q)
      BY <2>1
    <3> QED
      BY <3>1
  <2>3. h = [q \in 1..(m + 1) |-> h[q]] /\ \A q \in 1..(m + 1) : h[q] = NodeShape(f, q)
    OBVIOUS
  <2> HIDE DEF h
  <2>4. ASSUME NEW q \in 1..(m + 1)
        PROVE  h[q] = NodeShape(h, q)
    <3>1. q \in 1..Len(nodes) /\ \A r \in 1..(q - 1) : r \in 1..m
      BY <1>0
    <3>2. NodeShape(f, q) = NodeShape(h, q)
      BY <2>2, <3>1, NodeShapeIsLocal
    <3> QED
      BY <2>3, <3>2
  <2> QED
    BY <2>3, <2>4
<1> HIDE DEF S
<1>3. \A m \in Nat : m \in S
  BY <1>1, <1>2, FromNumberToNext
<1>4. PICK f : f = [q \in 1..Len(nodes) |-> NodeShape(f, q)]
  BY <1>0, <1>3 DEF S
<1>5. ShapeOfNode = [q \in 1..Len(nodes) |-> NodeShape(ShapeOfNode, q)]
  BY <1>4 DEF ShapeOfNode, NodeShape
<1> QED
  BY <1>5, Zenon

(* By the tree of the node.                                                *)
LEMMA TreeOfKids ==
  ASSUME HeapKnown(toks, nodes), NEW p \in 1..Len(nodes), NEW kind, NEW token, NEW kids,
         TreeOf(p, nodes) = Tree(kind, token, kids)
  PROVE  /\ nodes[p].kind = kind /\ nodes[p].token = token
         /\ DOMAIN kids = 1..Len(nodes[p].kids) /\ Len(nodes[p].kids) \in Nat
         /\ \A k \in DOMAIN kids : /\ nodes[p].kids[k] \in 1..Len(nodes)
                                   /\ TreeOf(nodes[p].kids[k], nodes) = kids[k]
<1>1. Len(nodes) \in Nat /\ Down(nodes) /\ nodes[p].kids \in Seq(Nat)
  BY KnownFacts
<1>2. TreeOf(p, nodes) =
        Tree(nodes[p].kind, nodes[p].token,
             [k \in DOMAIN nodes[p].kids |-> TreeOf(nodes[p].kids[k], nodes)])
  BY <1>1, TreeOfNode
<1>3. /\ nodes[p].kind = kind /\ nodes[p].token = token
      /\ kids = [k \in DOMAIN nodes[p].kids |-> TreeOf(nodes[p].kids[k], nodes)]
  <2> DEFINE row == [k \in DOMAIN nodes[p].kids |-> TreeOf(nodes[p].kids[k], nodes)]
  <2> HIDE DEF row
  <2>1. Tree(nodes[p].kind, nodes[p].token, row) = Tree(kind, token, kids)
    BY <1>2 DEF row
  <2>2. nodes[p].kind = kind /\ nodes[p].token = token /\ row = kids
    BY <2>1, TreeFields
  <2> QED
    BY <2>2 DEF row
<1>4. DOMAIN nodes[p].kids = 1..Len(nodes[p].kids) /\ Len(nodes[p].kids) \in Nat
  BY <1>1
<1>5. \A k \in 1..Len(nodes[p].kids) : nodes[p].kids[k] \in 1..Len(nodes)
  BY <1>1, KidsExist
<1>6. DOMAIN kids = DOMAIN nodes[p].kids
  BY <1>3
<1>7. \A k \in DOMAIN nodes[p].kids : TreeOf(nodes[p].kids[k], nodes) = kids[k]
  BY <1>3, Zenon
<1> QED
  BY <1>3, <1>4, <1>5, <1>6, <1>7

(* A node of tree t is, without parentheses, s.                            *)
Mirrors(t, s) ==
  HeapKnown(toks, nodes) =>
    \A p \in 1..Len(nodes) : TreeOf(p, nodes) = t => ShapeOfNode[p] = s

LEMMA SameRange ==
  ASSUME NEW m \in Nat, NEW n \in Nat, 1..m = 1..n
  PROVE  m = n
<1>1. CASE m < n
  <2>1. n \in 1..n
    BY <1>1
  <2> QED
    BY <1>1, <2>1
<1>2. CASE n < m
  <2>1. m \in 1..m
    BY <1>2
  <2> QED
    BY <1>2, <2>1
<1> QED
  BY <1>1, <1>2

(* The shapes of the children of a node.                                   *)
KidShapes(p) == [k \in 1..Len(nodes[p].kids) |-> ShapeOfNode[nodes[p].kids[k]]]

LEMMA MirrorKids ==
  ASSUME HeapKnown(toks, nodes), NEW p \in 1..Len(nodes), NEW kind, NEW token, NEW kids,
         TreeOf(p, nodes) = Tree(kind, token, kids), NEW n \in Nat, DOMAIN kids = 1..n,
         NEW s, s = [k \in 1..n |-> s[k]], \A k \in 1..n : Mirrors(kids[k], s[k])
  PROVE  /\ nodes[p].kind = kind /\ nodes[p].token = token
         /\ KidShapes(p) = s
<1> DEFINE own == nodes[p].kids
<1>1. /\ nodes[p].kind = kind /\ nodes[p].token = token
      /\ DOMAIN kids = 1..Len(own) /\ Len(own) \in Nat
      /\ \A k \in DOMAIN kids : own[k] \in 1..Len(nodes) /\ TreeOf(own[k], nodes) = kids[k]
  BY TreeOfKids
<1> HIDE DEF own
<1>2. Len(own) = n
  BY <1>1, SameRange
<1>3. \A k \in 1..n : ShapeOfNode[own[k]] = s[k]
  BY <1>1 DEF Mirrors
<1>4. [k \in 1..Len(own) |-> ShapeOfNode[own[k]]] = s
  BY <1>2, <1>3
<1> QED
  BY <1>1, <1>4 DEF own, KidShapes

LEMMA ShapeByKind ==
  ASSUME HeapKnown(toks, nodes), NEW p \in 1..Len(nodes)
  PROVE  /\ nodes[p].kind \in {"BinaryExpression", "UnaryExpression"} =>
              ShapeOfNode[p] = Apply(toks[nodes[p].token], KidShapes(p))
         /\ nodes[p].kind = "GroupingExpression" => ShapeOfNode[p] = KidShapes(p)[1]
         /\ nodes[p].kind \in {"VariableDefinition", "AssignmentStatement"} =>
              ShapeOfNode[p] = Apply(nodes[p].kind, KidShapes(p))
         /\ nodes[p].kind \in {"Literal", "Identifier", "Type"} =>
              ShapeOfNode[p] = Leaf(toks[nodes[p].token])
<1> DEFINE n == nodes[p]
<1>1. ShapeOfNode[p] =
        CASE n.kind \in {"Literal", "Identifier", "Type"} -> Leaf(toks[n.token])
          [] n.kind \in {"BinaryExpression", "UnaryExpression"} -> Apply(toks[n.token], KidShapes(p))
          [] n.kind = "GroupingExpression" -> KidShapes(p)[1]
          [] OTHER -> Apply(n.kind, KidShapes(p))
  BY NodeShapesUnfold DEF NodeShape, KidShapes
<1> HIDE DEF n
<1> QED
  BY <1>1 DEF n

(* One lemma per kind of tree: it mirrors what its parts mirror.           *)
LEMMA MirrorLeaf ==
  ASSUME NEW kind \in {"Literal", "Identifier", "Type"}, NEW i
  PROVE  Mirrors(Tree(kind, i, <<>>), Leaf(toks[i]))
<1> SUFFICES ASSUME HeapKnown(toks, nodes), NEW p \in 1..Len(nodes),
                    TreeOf(p, nodes) = Tree(kind, i, <<>>)
             PROVE  ShapeOfNode[p] = Leaf(toks[i])
  BY DEF Mirrors
<1> DEFINE none == <<>>
<1>1. DOMAIN none = 1..0
  OBVIOUS
<1> HIDE DEF none
<1>2. nodes[p].kind = kind /\ nodes[p].token = i
  BY TreeOfKids
<1> QED
  BY <1>2, ShapeByKind

LEMMA MirrorBinary ==
  ASSUME NEW k, NEW a, NEW b, NEW s, NEW r, Mirrors(a, s), Mirrors(b, r)
  PROVE  Mirrors(Tree("BinaryExpression", k, <<a, b>>), Apply(toks[k], <<s, r>>))
<1> SUFFICES ASSUME HeapKnown(toks, nodes), NEW p \in 1..Len(nodes),
                    TreeOf(p, nodes) = Tree("BinaryExpression", k, <<a, b>>)
             PROVE  ShapeOfNode[p] = Apply(toks[k], <<s, r>>)
  BY DEF Mirrors
<1> DEFINE kids == <<a, b>>
           shapes == <<s, r>>
           n == 2
<1>1. /\ DOMAIN kids = 1..n /\ shapes = [i \in 1..n |-> shapes[i]] /\ n \in Nat
      /\ \A i \in 1..n : Mirrors(kids[i], shapes[i])
  OBVIOUS
<1>2. TreeOf(p, nodes) = Tree("BinaryExpression", k, kids)
  OBVIOUS
<1> HIDE DEF kids, shapes, n
<1>3. /\ nodes[p].kind = "BinaryExpression" /\ nodes[p].token = k
      /\ KidShapes(p) = shapes
  BY <1>1, <1>2, MirrorKids
<1>4. ShapeOfNode[p] = Apply(toks[k], shapes)
  BY <1>3, ShapeByKind
<1> QED
  BY <1>4 DEF shapes

LEMMA MirrorUnary ==
  ASSUME NEW k, NEW a, NEW s, Mirrors(a, s)
  PROVE  /\ Mirrors(Tree("UnaryExpression", k, <<a>>), Apply(toks[k], <<s>>))
         /\ Mirrors(Tree("GroupingExpression", k, <<a>>), s)
<1> DEFINE kids == <<a>>
           shapes == <<s>>
<1>1. /\ DOMAIN kids = 1..1 /\ shapes = [i \in 1..1 |-> shapes[i]] /\ 1 \in Nat
      /\ \A i \in 1..1 : Mirrors(kids[i], shapes[i])
  OBVIOUS
<1> SUFFICES ASSUME HeapKnown(toks, nodes), NEW p \in 1..Len(nodes)
             PROVE  /\ TreeOf(p, nodes) = Tree("UnaryExpression", k, kids) =>
                         ShapeOfNode[p] = Apply(toks[k], shapes)
                    /\ TreeOf(p, nodes) = Tree("GroupingExpression", k, kids) =>
                         ShapeOfNode[p] = shapes[1]
  BY DEF Mirrors
<1> HIDE DEF kids, shapes
<1>2. ASSUME TreeOf(p, nodes) = Tree("UnaryExpression", k, kids)
      PROVE  ShapeOfNode[p] = Apply(toks[k], shapes)
  <2>1. /\ nodes[p].kind = "UnaryExpression" /\ nodes[p].token = k
        /\ KidShapes(p) = shapes
    <3> DEFINE u == "UnaryExpression"
    <3>1. TreeOf(p, nodes) = Tree(u, k, kids)
      BY <1>2
    <3> HIDE DEF u
    <3>2. nodes[p].kind = u /\ nodes[p].token = k /\ KidShapes(p) = shapes
      BY <1>1, <3>1, MirrorKids
    <3> QED
      BY <3>2 DEF u
  <2> QED
    BY <2>1, ShapeByKind
<1>3. ASSUME TreeOf(p, nodes) = Tree("GroupingExpression", k, kids)
      PROVE  ShapeOfNode[p] = shapes[1]
  <2>1. /\ nodes[p].kind = "GroupingExpression"
        /\ KidShapes(p) = shapes
    <3> DEFINE u == "GroupingExpression"
    <3>1. TreeOf(p, nodes) = Tree(u, k, kids)
      BY <1>3
    <3> HIDE DEF u
    <3>2. nodes[p].kind = u /\ KidShapes(p) = shapes
      BY <1>1, <3>1, MirrorKids
    <3> QED
      BY <3>2 DEF u
  <2> QED
    BY <2>1, ShapeByKind
<1> QED
  BY <1>2, <1>3

(* A node of a kind that is named in its shape.                            *)
LEMMA MirrorNode ==
  ASSUME NEW kind \in {"VariableDefinition", "AssignmentStatement"}, NEW k, NEW kids, NEW n \in Nat,
         DOMAIN kids = 1..n, NEW s, s = [i \in 1..n |-> s[i]], \A i \in 1..n : Mirrors(kids[i], s[i])
  PROVE  Mirrors(Tree(kind, k, kids), Apply(kind, s))
<1> SUFFICES ASSUME HeapKnown(toks, nodes), NEW p \in 1..Len(nodes),
                    TreeOf(p, nodes) = Tree(kind, k, kids)
             PROVE  ShapeOfNode[p] = Apply(kind, s)
  BY DEF Mirrors
<1>1. /\ nodes[p].kind = kind
      /\ KidShapes(p) = s
  BY MirrorKids
<1> QED
  BY <1>1, ShapeByKind

----------------------------------------------------------------------------
(* What is printed for operators is an expression of the grammar.          *)
LEMMA ReadLeaf ==
  ASSUME NEW ts, Len(ts) \in Nat, NEW i \in 1..Len(ts)
  PROVE  /\ ts[i] = "ID" => Derives(Tree("Identifier", i, <<>>), 8, i, i, ts)
         /\ ts[i] \in Literals => Derives(Tree("Literal", i, <<>>), 8, i, i, ts)
<1>1. IsPart(8, i, i, ts)
  BY DEF IsPart, Level
<1>2. i <= i
  OBVIOUS
<1>3. ts[i] = "ID" => ExpressionOf(Tree("Identifier", i, <<>>), 8, i, i, ts)
  BY DEF ExpressionOf, IsLeaf
<1>4. ts[i] \in Literals => ExpressionOf(Tree("Literal", i, <<>>), 8, i, i, ts)
  BY DEF ExpressionOf, IsLeaf
<1> QED
  BY <1>1, <1>2, <1>3, <1>4, Derivation

LEMMA ReadGroup ==
  ASSUME NEW ts, Len(ts) \in Nat, NEW i \in Nat, NEW j \in Nat, NEW h \in Nat, NEW g \in Nat,
         1 <= i, j <= Len(ts), i < j, h = i + 1, g = j - 1,
         ts[i] = "OPENPAREN", ts[j] = "CLOSEPAREN", NEW l \in 1..8, NEW a, Derives(a, l, h, g, ts)
  PROVE  Derives(Tree("GroupingExpression", i, <<a>>), 8, i, j, ts)
<1>1. Derives(a, 1, h, g, ts)
  <2>1. 1 \in 1..8 /\ 1 <= l
    OBVIOUS
  <2> QED
    BY <2>1, DerivesLooser
<1>2. GroupOf(Tree("GroupingExpression", i, <<a>>), i, j, ts)
  BY <1>1 DEF GroupOf
<1>3. IsPart(8, i, j, ts) /\ i <= j
  BY DEF IsPart, Level
<1>4. ExpressionOf(Tree("GroupingExpression", i, <<a>>), 8, i, j, ts)
  BY <1>2 DEF ExpressionOf
<1> QED
  BY <1>3, <1>4, Derivation

LEMMA ReadBinary ==
  ASSUME NEW ts, Len(ts) \in Nat, NEW i \in Nat, NEW j \in Nat, NEW k \in Nat,
         NEW h \in Nat, NEW g \in Nat, 1 <= i, j <= Len(ts), i < k, k < j, h = k - 1, g = k + 1,
         ts[k] \in DOMAIN InfixPower,
         NEW a, NEW b, Derives(a, 8, i, h, ts), Derives(b, 8, g, j, ts)
  PROVE  \E l \in 1..8 : Derives(Tree("BinaryExpression", k, <<a, b>>), l, i, j, ts)
<1> DEFINE l == BinaryLevel(ts[k])
           t == Tree("BinaryExpression", k, <<a, b>>)
<1>1. l \in BinaryLevels /\ ts[k] \in Operators[l]
  <2>1. 1 \in 1..8
    OBVIOUS
  <2> QED
    BY <2>1, OperatorsOfLevels
<1> HIDE DEF l
<1>2. l \in 1..8 /\ LeftLevel(l) \in 1..8 /\ RightLevel(l) \in 1..8 /\ LeftLevel(l) <= 8
      /\ RightLevel(l) <= 8 /\ 8 \in 1..8
  BY <1>1 DEF LeftLevel, RightLevel, BinaryLevels
<1>3. Derives(a, LeftLevel(l), i, h, ts) /\ Derives(b, RightLevel(l), g, j, ts)
  BY <1>2, DerivesLooser
<1>4. k \in (i + 1)..(j - 1)
  OBVIOUS
<1>5. BinaryOf(t, l, k, i, j, ts)
  BY <1>1, <1>3, <1>4 DEF BinaryOf
<1>6. ExpressionOf(t, l, i, j, ts)
  BY <1>1, <1>5 DEF ExpressionOf
<1>7. IsPart(l, i, j, ts) /\ i <= j
  BY <1>2 DEF IsPart, Level
<1> HIDE DEF t
<1>8. Derives(t, l, i, j, ts)
  BY <1>6, <1>7, Derivation
<1> QED
  BY <1>2, <1>8 DEF t

LEMMA ReadUnary ==
  ASSUME NEW ts, Len(ts) \in Nat, NEW i \in Nat, NEW j \in Nat, NEW h \in Nat,
         1 <= i, j <= Len(ts), i < j, h = i + 1, ts[i] \in DOMAIN PrefixPower,
         NEW a, Derives(a, 8, h, j, ts)
  PROVE  \E l \in 1..8 : Derives(Tree("UnaryExpression", i, <<a>>), l, i, j, ts)
<1> DEFINE l == UnaryLevel(ts[i])
           t == Tree("UnaryExpression", i, <<a>>)
<1>1. l \in {3, 7} /\ ts[i] \in Operators[l]
  <2>1. 1 \in 1..8
    OBVIOUS
  <2> QED
    BY <2>1, OperatorsOfLevels
<1> HIDE DEF l
<1>2. l \in 1..8 /\ l <= 8
  BY <1>1
<1>3. Derives(a, l, h, j, ts)
  BY <1>2, DerivesLooser
<1>4. UnaryOf(t, l, i, j, ts)
  BY <1>1, <1>3 DEF UnaryOf
<1>5. ExpressionOf(t, l, i, j, ts)
  BY <1>1, <1>4 DEF ExpressionOf
<1>6. IsPart(l, i, j, ts) /\ i <= j
  BY <1>2 DEF IsPart, Level
<1> HIDE DEF t
<1>7. Derives(t, l, i, j, ts)
  BY <1>5, <1>6, Derivation
<1> QED
  BY <1>2, <1>7 DEF t

----------------------------------------------------------------------------
(* s is behind token i of ts.                                              *)
Stands(s, i, ts) == i \in Nat /\ i + Len(s) <= Len(ts) /\ \A k \in 1..Len(s) : ts[i + k] = s[k]

LEMMA StandsApart ==
  ASSUME NEW S, NEW s \in Seq(S), NEW t \in Seq(S), NEW i, NEW ts, Len(ts) \in Nat, Stands(s \o t, i, ts)
  PROVE  /\ Stands(s, i, ts) /\ Stands(t, i + Len(s), ts)
         /\ s \o t \in Seq(S) /\ Len(s \o t) = Len(s) + Len(t)
<1>1. /\ s \o t \in Seq(S) /\ Len(s \o t) = Len(s) + Len(t)
      /\ \A k \in 1..(Len(s) + Len(t)) :
           (s \o t)[k] = IF k <= Len(s) THEN s[k] ELSE t[k - Len(s)]
  BY ConcatProperties
<1> DEFINE m == Len(s)
           n == Len(t)
           u == s \o t
<1>2. m \in Nat /\ n \in Nat
  OBVIOUS
<1>3. /\ i \in Nat /\ i + (m + n) <= Len(ts) /\ \A k \in 1..(m + n) : ts[i + k] = u[k]
  BY <1>1 DEF Stands
<1>4. \A k \in 1..(m + n) : u[k] = IF k <= m THEN s[k] ELSE t[k - m]
  BY <1>1
<1> HIDE DEF m, n, u
<1>5. i + m <= Len(ts) /\ i + m + n <= Len(ts) /\ i + m \in Nat
  BY <1>2, <1>3
<1>6. \A k \in 1..m : ts[i + k] = s[k]
  <2> SUFFICES ASSUME NEW k \in 1..m PROVE ts[i + k] = s[k]
    OBVIOUS
  <2>1. k \in 1..(m + n) /\ k <= m
    BY <1>2
  <2> QED
    BY <1>3, <1>4, <2>1
<1>7. \A k \in 1..n : ts[i + m + k] = t[k]
  <2> SUFFICES ASSUME NEW k \in 1..n PROVE ts[i + m + k] = t[k]
    OBVIOUS
  <2>1. m + k \in 1..(m + n) /\ ~(m + k <= m) /\ (m + k) - m = k /\ i + (m + k) = i + m + k
    BY <1>2, <1>3
  <2>2. ts[i + (m + k)] = t[(m + k) - m]
    BY <1>3, <1>4, <2>1
  <2> QED
    BY <2>1, <2>2
<1>8. Stands(s, i, ts)
  BY <1>3, <1>5, <1>6 DEF Stands, m
<1>9. Stands(t, i + m, ts)
  BY <1>5, <1>7 DEF Stands, n
<1> QED
  BY <1>1, <1>8, <1>9 DEF m

(* What is printed are tokens, and the operators are the parser's.         *)
LEMMA PrintedAreTokens ==
  ASSUME NEW e \in Expressions
  PROVE  Printer!Tokens[e] \in Seq(TokenTypes)
<1>1. Syntax!PrintedTypes \subseteq TokenTypes
  <2>1. Values \subseteq TokenTypes
    BY PrintedTrees DEF TokenTypes, SimpleStarts
  <2>2. Syntax!Operators \subseteq TokenTypes
    BY DEF Syntax!Operators, Syntax!Logical, Syntax!Comparing, Syntax!Arithmetic, TokenTypes,
       InfixPower, Logical, Comparisons, Additive, Multiplicative
  <2>3. Syntax!UnaryOperators \cup {"ID", "OPENPAREN", "CLOSEPAREN"} \subseteq TokenTypes
    BY DEF Syntax!UnaryOperators, TokenTypes, SimpleStarts
  <2> QED
    BY <2>1, <2>2, <2>3 DEF Syntax!PrintedTypes
<1>2. Printer!Tokens[e] \in Seq(Syntax!PrintedTypes)
  BY PrintedSyntax, Syntax!TokensUnfold, Syntax!ASTAssumption, Syntax!ExpressionsAreTrees
<1> QED
  BY <1>1, <1>2

LEMMA PrintedOperators ==
  /\ \A op \in Printer!Operators : op \in DOMAIN InfixPower
  /\ \A op \in Printer!UnaryOperators : op \in DOMAIN PrefixPower
<1>1. \A op \in Printer!Operators : op \in DOMAIN InfixPower
  BY DEF Printer!Operators, Printer!Logical, Printer!Comparing, Printer!Arithmetic, InfixPower,
     Logical, Comparisons, Additive, Multiplicative
<1>2. \A op \in Printer!UnaryOperators : op \in DOMAIN PrefixPower
  BY DEF Printer!UnaryOperators, PrefixPower
<1> QED
  BY <1>1, <1>2

(* The parser's tree of what is printed for e has e's shape.               *)
Reads(e, n, i) ==
  \E t : Derives(t, 8, i + 1, i + n, toks) /\ Mirrors(t, Shape[e])

ReadsBack(e) ==
  /\ Len(Printer!Tokens[e]) >= 1
  /\ \A i : Stands(Printer!Tokens[e], i, toks) => Reads(e, Len(Printer!Tokens[e]), i)

LEMMA ReadsLeaf ==
  ASSUME Len(toks) \in Nat, NEW e \in Expressions, e.kind \in {"Literal", "Identifier"},
         PrintsRule(Prints, e)
  PROVE  ReadsBack(e)
<1> DEFINE type == IF e.kind = "Literal" THEN e.value ELSE "ID"
<1>1. Printer!Tokens[e] = <<type>> /\ Shape[e] = Leaf(type)
  BY PrintedTokens, ShapeUnfolds DEF Printer!LiteralTokens, PrintsRule, ShapeRule
<1>2. \/ type = "ID" /\ e.kind = "Identifier"
      \/ type \in Literals /\ e.kind = "Literal"
  BY PrintedKinds
<1> HIDE DEF type
<1>3. Len(Printer!Tokens[e]) = 1
  BY <1>1
<1>4. ASSUME NEW i, Stands(Printer!Tokens[e], i, toks)
      PROVE  Reads(e, 1, i)
  <2> DEFINE j == i + 1
  <2>1. i \in Nat /\ i + 1 <= Len(toks) /\ toks[i + 1] = type
    <3>1. Stands(<<type>>, i, toks)
      BY <1>1, <1>4
    <3>2. Len(<<type>>) = 1 /\ <<type>>[1] = type /\ 1 \in 1..1
      OBVIOUS
    <3> QED
      BY <3>1, <3>2 DEF Stands
  <2>2. j \in 1..Len(toks) /\ toks[j] = type /\ i + 1 = j
    BY <2>1
  <2> HIDE DEF j
  <2>3. CASE type = "ID" /\ e.kind = "Identifier"
    <3>1. Derives(Tree("Identifier", j, <<>>), 8, j, j, toks)
      BY <2>2, <2>3, ReadLeaf
    <3>2. Mirrors(Tree("Identifier", j, <<>>), Shape[e])
      BY <1>1, <2>2, MirrorLeaf
    <3> QED
      BY <2>2, <3>1, <3>2 DEF Reads
  <2>4. CASE type \in Literals /\ e.kind = "Literal"
    <3>1. Derives(Tree("Literal", j, <<>>), 8, j, j, toks)
      BY <2>2, <2>4, ReadLeaf
    <3>2. Mirrors(Tree("Literal", j, <<>>), Shape[e])
      BY <1>1, <2>2, MirrorLeaf
    <3> QED
      BY <2>2, <3>1, <3>2 DEF Reads
  <2> QED
    BY <1>2, <2>3, <2>4
<1> QED
  BY <1>3, <1>4 DEF ReadsBack

(* The parts of what is printed for an operation, in the stream.           *)
LEMMA StandsOne ==
  ASSUME NEW x, NEW i, NEW ts, Len(ts) \in Nat, Stands(<<x>>, i, ts)
  PROVE  i \in Nat /\ i + 1 <= Len(ts) /\ ts[i + 1] = x
<1>1. Len(<<x>>) = 1 /\ <<x>>[1] = x /\ 1 \in 1..1
  OBVIOUS
<1> QED
  BY <1>1 DEF Stands

LEMMA StandsBinary ==
  ASSUME NEW S, NEW L \in Seq(S), NEW R \in Seq(S), NEW p \in S, NEW o \in S, NEW c \in S,
         NEW i, NEW ts, Len(ts) \in Nat, Stands(<<p>> \o L \o <<o>> \o R \o <<c>>, i, ts)
  PROVE  /\ i \in Nat /\ i + Len(L) + Len(R) + 3 <= Len(ts)
         /\ ts[i + 1] = p /\ ts[i + Len(L) + 2] = o /\ ts[i + Len(L) + Len(R) + 3] = c
         /\ Stands(L, i + 1, ts) /\ Stands(R, i + Len(L) + 2, ts)
<1> DEFINE P == <<p>>
           O == <<o>>
           C == <<c>>
           s3 == P \o L
           s2 == s3 \o O
           s1 == s2 \o R
           l == Len(L)
           r == Len(R)
<1>1. /\ P \in Seq(S) /\ O \in Seq(S) /\ C \in Seq(S) /\ Len(P) = 1 /\ Len(O) = 1 /\ Len(C) = 1
      /\ l \in Nat /\ r \in Nat
  OBVIOUS
<1>2. s3 \in Seq(S) /\ Len(s3) = Len(P) + l
  BY <1>1, ConcatProperties
<1> HIDE DEF P, O, C, s3
<1>3. s2 \in Seq(S) /\ Len(s2) = Len(s3) + Len(O)
  BY <1>1, <1>2, ConcatProperties
<1> HIDE DEF s2
<1>4. s1 \in Seq(S) /\ Len(s1) = Len(s2) + r
  BY <1>3, ConcatProperties
<1> HIDE DEF s1, l, r
<1>5. Stands(s1 \o C, i, ts)
  BY DEF s1, s2, s3, P, O, C
<1>6. Stands(s1, i, ts) /\ Stands(C, i + Len(s1), ts)
  BY <1>1, <1>4, <1>5, StandsApart
<1>7. Stands(s2, i, ts) /\ Stands(R, i + Len(s2), ts)
  BY <1>3, <1>6, StandsApart DEF s1
<1>8. Stands(s3, i, ts) /\ Stands(O, i + Len(s3), ts)
  BY <1>1, <1>2, <1>7, StandsApart DEF s2
<1>9. Stands(P, i, ts) /\ Stands(L, i + Len(P), ts)
  BY <1>1, <1>8, StandsApart DEF s3
<1>10. Len(P) = 1 /\ Len(s3) = l + 1 /\ Len(s2) = l + 2 /\ Len(s1) = l + r + 2
  BY <1>1, <1>2, <1>3, <1>4
<1>11. i \in Nat
  BY <1>9 DEF Stands
<1>12. /\ i + Len(P) = i + 1 /\ i + Len(s3) = i + l + 1 /\ i + Len(s2) = i + l + 2
       /\ i + Len(s1) = i + l + r + 2
  BY <1>1, <1>10, <1>11
<1>13. ts[i + 1] = p
  BY <1>9, StandsOne DEF P
<1>14. ts[(i + l + 1) + 1] = o
  BY <1>8, <1>12, StandsOne DEF O
<1>15. ts[(i + l + r + 2) + 1] = c /\ (i + l + r + 2) + 1 <= Len(ts)
  BY <1>6, <1>12, StandsOne DEF C
<1>16. (i + l + 1) + 1 = i + l + 2 /\ (i + l + r + 2) + 1 = i + l + r + 3
  BY <1>1, <1>11
<1>17. Stands(L, i + 1, ts) /\ Stands(R, i + l + 2, ts)
  BY <1>7, <1>9, <1>12
<1> QED
  BY <1>11, <1>13, <1>14, <1>15, <1>16, <1>17 DEF l, r

LEMMA StandsUnary ==
  ASSUME NEW S, NEW R \in Seq(S), NEW p \in S, NEW o \in S, NEW c \in S,
         NEW i, NEW ts, Len(ts) \in Nat, Stands(<<p, o>> \o R \o <<c>>, i, ts)
  PROVE  /\ i \in Nat /\ i + Len(R) + 3 <= Len(ts)
         /\ ts[i + 1] = p /\ ts[i + 2] = o /\ ts[i + Len(R) + 3] = c
         /\ Stands(R, i + 2, ts)
<1> DEFINE P == <<p, o>>
           C == <<c>>
           s1 == P \o R
           r == Len(R)
<1>1. /\ P \in Seq(S) /\ C \in Seq(S) /\ Len(P) = 2 /\ Len(C) = 1 /\ r \in Nat
      /\ P[1] = p /\ P[2] = o
  OBVIOUS
<1>2. s1 \in Seq(S) /\ Len(s1) = Len(P) + r
  BY <1>1, ConcatProperties
<1> HIDE DEF P, C, s1, r
<1>3. Stands(s1 \o C, i, ts)
  BY DEF s1, P, C
<1>4. Stands(s1, i, ts) /\ Stands(C, i + Len(s1), ts)
  BY <1>1, <1>2, <1>3, StandsApart
<1>5. Stands(P, i, ts) /\ Stands(R, i + Len(P), ts)
  BY <1>1, <1>4, StandsApart DEF s1
<1>6. i \in Nat
  BY <1>5 DEF Stands
<1>7. i + Len(s1) = i + r + 2 /\ i + Len(P) = i + 2
  BY <1>1, <1>2, <1>6
<1>8. ts[(i + r + 2) + 1] = c /\ (i + r + 2) + 1 <= Len(ts)
  BY <1>4, <1>7, StandsOne DEF C
<1>9. (i + r + 2) + 1 = i + r + 3
  BY <1>1, <1>6
<1>10. ts[i + 1] = p /\ ts[i + 2] = o
  <2>1. 1 \in 1..Len(P) /\ 2 \in 1..Len(P)
    BY <1>1
  <2> QED
    BY <1>1, <1>5, <2>1 DEF Stands
<1> QED
  BY <1>5, <1>6, <1>7, <1>8, <1>9, <1>10 DEF r

(* One lemma per kind of expression: what is printed is read back.         *)
LEMMA LengthBinary ==
  ASSUME NEW S, NEW L \in Seq(S), NEW R \in Seq(S), NEW p \in S, NEW o \in S, NEW c \in S
  PROVE  /\ <<p>> \o L \o <<o>> \o R \o <<c>> \in Seq(S)
         /\ Len(<<p>> \o L \o <<o>> \o R \o <<c>>) = Len(L) + Len(R) + 3
<1> DEFINE P == <<p>>
           O == <<o>>
           C == <<c>>
           s3 == P \o L
           s2 == s3 \o O
           s1 == s2 \o R
           s0 == s1 \o C
           l == Len(L)
           r == Len(R)
<1>1. /\ P \in Seq(S) /\ O \in Seq(S) /\ C \in Seq(S) /\ Len(P) = 1 /\ Len(O) = 1 /\ Len(C) = 1
      /\ l \in Nat /\ r \in Nat
  OBVIOUS
<1>2. s3 \in Seq(S) /\ Len(s3) = Len(P) + l
  BY <1>1, ConcatProperties
<1> HIDE DEF P, O, C, s3
<1>3. s2 \in Seq(S) /\ Len(s2) = Len(s3) + Len(O)
  BY <1>1, <1>2, ConcatProperties
<1> HIDE DEF s2
<1>4. s1 \in Seq(S) /\ Len(s1) = Len(s2) + r
  BY <1>3, ConcatProperties
<1> HIDE DEF s1
<1>5. s0 \in Seq(S) /\ Len(s0) = Len(s1) + Len(C)
  BY <1>1, <1>4, ConcatProperties
<1> HIDE DEF s0, l, r
<1>6. Len(s0) = l + r + 3
  BY <1>1, <1>2, <1>3, <1>4, <1>5
<1> QED
  BY <1>5, <1>6 DEF s0, s1, s2, s3, P, O, C, l, r

LEMMA ReadsBinary ==
  ASSUME toks \in Seq(TokenTypes), NEW e \in Expressions, e.kind = "BinaryExpression",
         ReadsBack(e.lhs), ReadsBack(e.rhs)
  PROVE  ReadsBack(e)
<1> DEFINE L == Printer!Tokens[e.lhs]
           R == Printer!Tokens[e.rhs]
           l == Len(L)
           r == Len(R)
           o == e.op
<1>1. e.lhs \in Expressions /\ e.rhs \in Expressions /\ o \in DOMAIN InfixPower
  BY PrintedKinds, PrintedOperators
<1>2. L \in Seq(TokenTypes) /\ R \in Seq(TokenTypes)
  BY <1>1, PrintedAreTokens
<1>3. Printer!Tokens[e] = <<"OPENPAREN">> \o L \o <<o>> \o R \o <<"CLOSEPAREN">>
  BY PrintedTokens DEF Printer!BinaryTokens
<1>4. o \in TokenTypes /\ "OPENPAREN" \in TokenTypes /\ "CLOSEPAREN" \in TokenTypes
  BY <1>1 DEF TokenTypes, SimpleStarts
<1>5. l \in Nat /\ r \in Nat /\ Len(toks) \in Nat
  BY <1>2
<1>6. Len(Printer!Tokens[e]) = l + r + 3
  <2> DEFINE open == "OPENPAREN"
             close == "CLOSEPAREN"
             T == <<open>> \o L \o <<o>> \o R \o <<close>>
  <2>1. open \in TokenTypes /\ close \in TokenTypes /\ Printer!Tokens[e] = T
    BY <1>3, <1>4
  <2> HIDE DEF open, close, L, R, o
  <2>2. Len(T) = Len(L) + Len(R) + 3
    BY <1>2, <1>4, <2>1, LengthBinary
  <2> QED
    BY <2>1, <2>2
<1>7. Shape[e] = Apply(o, <<Shape[e.lhs], Shape[e.rhs]>>)
  BY ShapeUnfolds DEF ShapeRule
<1>8. /\ l >= 1 /\ \A i : Stands(L, i, toks) => Reads(e.lhs, l, i)
      /\ r >= 1 /\ \A i : Stands(R, i, toks) => Reads(e.rhs, r, i)
  BY DEF ReadsBack
<1> HIDE DEF L, R, l, r, o
<1>9. ASSUME NEW i, Stands(Printer!Tokens[e], i, toks)
      PROVE  Reads(e, l + r + 3, i)
  <2> DEFINE first == i + 1
             left == i + 2
             before == i + l + 1
             k == i + l + 2
             right == i + l + 3
             after == i + l + r + 2
             last == i + l + r + 3
  <2>1. Stands(<<"OPENPAREN">> \o L \o <<o>> \o R \o <<"CLOSEPAREN">>, i, toks)
    BY <1>3, <1>9
  <2>2. /\ i \in Nat /\ i + Len(L) + Len(R) + 3 <= Len(toks)
        /\ toks[i + 1] = "OPENPAREN" /\ toks[i + Len(L) + 2] = o
        /\ toks[i + Len(L) + Len(R) + 3] = "CLOSEPAREN"
        /\ Stands(L, i + 1, toks) /\ Stands(R, i + Len(L) + 2, toks)
    BY <1>2, <1>4, <1>5, <2>1, StandsBinary
  <2>3. /\ i \in Nat /\ last <= Len(toks)
        /\ toks[first] = "OPENPAREN" /\ toks[k] = o /\ toks[last] = "CLOSEPAREN"
        /\ Stands(L, first, toks) /\ Stands(R, k, toks)
    BY <2>2 DEF l, r
  <2>4. PICK a : Derives(a, 8, first + 1, first + l, toks) /\ Mirrors(a, Shape[e.lhs])
    BY <1>8, <2>3 DEF Reads
  <2>5. PICK b : Derives(b, 8, k + 1, k + r, toks) /\ Mirrors(b, Shape[e.rhs])
    BY <1>8, <2>3 DEF Reads
  <2>6. first + 1 = left /\ first + l = before /\ k + 1 = right /\ k + r = after
    BY <1>5, <2>3
  <2>7. /\ first \in Nat /\ left \in Nat /\ before \in Nat /\ k \in Nat /\ right \in Nat
        /\ after \in Nat /\ last \in Nat /\ 1 <= left /\ after <= Len(toks) /\ left < k /\ k < after
        /\ before = k - 1 /\ right = k + 1 /\ 1 <= first /\ first < last /\ left = first + 1
        /\ after = last - 1 /\ i + 1 = first /\ i + (l + r + 3) = last
    BY <1>5, <1>8, <2>3
  <2> HIDE DEF first, left, before, k, right, after, last
  <2>8. Derives(a, 8, left, before, toks) /\ Derives(b, 8, right, after, toks)
    BY <2>4, <2>5, <2>6
  <2>9. toks[k] \in DOMAIN InfixPower
    BY <1>1, <2>3
  <2>10. \E m \in 1..8 : Derives(Tree("BinaryExpression", k, <<a, b>>), m, left, after, toks)
    BY <1>5, <2>7, <2>8, <2>9, ReadBinary
  <2> DEFINE t == Tree("BinaryExpression", k, <<a, b>>)
             g == Tree("GroupingExpression", first, <<t>>)
  <2>11. Mirrors(t, Shape[e])
    BY <1>7, <2>3, <2>4, <2>5, MirrorBinary
  <2>12. PICK m \in 1..8 : Derives(t, m, left, after, toks)
    BY <2>10
  <2> HIDE DEF t
  <2>13. Derives(g, 8, first, last, toks)
    BY <1>5, <2>3, <2>7, <2>12, ReadGroup
  <2>14. Mirrors(g, Shape[e])
    BY <2>11, MirrorUnary
  <2> HIDE DEF g
  <2> QED
    BY <2>7, <2>13, <2>14 DEF Reads
<1>10. l + r + 3 >= 1
  BY <1>5
<1> QED
  BY <1>6, <1>9, <1>10 DEF ReadsBack

LEMMA ReadsUnary ==
  ASSUME toks \in Seq(TokenTypes), NEW e \in Expressions, e.kind = "UnaryExpression",
         ReadsBack(e.rhs)
  PROVE  ReadsBack(e)
<1> DEFINE R == Printer!Tokens[e.rhs]
           r == Len(R)
           o == e.op
<1>1. e.rhs \in Expressions /\ o \in DOMAIN PrefixPower
  BY PrintedKinds, PrintedOperators
<1>2. R \in Seq(TokenTypes)
  BY <1>1, PrintedAreTokens
<1>3. Printer!Tokens[e] = <<"OPENPAREN", o>> \o R \o <<"CLOSEPAREN">>
  BY PrintedTokens
<1>4. o \in TokenTypes /\ "OPENPAREN" \in TokenTypes /\ "CLOSEPAREN" \in TokenTypes
  BY <1>1 DEF TokenTypes, SimpleStarts, PrefixPower
<1>5. r \in Nat /\ Len(toks) \in Nat
  BY <1>2
<1>6. Len(Printer!Tokens[e]) = r + 3
  <2>1. Len(<<"OPENPAREN", o>> \o R \o <<"CLOSEPAREN">>) = 2 + r + 1
    BY <1>2, <1>4
  <2> QED
    BY <1>3, <1>5, <2>1
<1>7. Shape[e] = Apply(o, <<Shape[e.rhs]>>)
  BY ShapeUnfolds DEF ShapeRule
<1>8. r >= 1 /\ \A i : Stands(R, i, toks) => Reads(e.rhs, r, i)
  BY DEF ReadsBack
<1> HIDE DEF R, r, o
<1>9. ASSUME NEW i, Stands(Printer!Tokens[e], i, toks)
      PROVE  Reads(e, r + 3, i)
  <2> DEFINE first == i + 1
             k == i + 2
             right == i + 3
             after == i + r + 2
             last == i + r + 3
  <2>1. Stands(<<"OPENPAREN", o>> \o R \o <<"CLOSEPAREN">>, i, toks)
    BY <1>3, <1>9
  <2>2. /\ i \in Nat /\ i + Len(R) + 3 <= Len(toks)
        /\ toks[i + 1] = "OPENPAREN" /\ toks[i + 2] = o /\ toks[i + Len(R) + 3] = "CLOSEPAREN"
        /\ Stands(R, i + 2, toks)
    BY <1>2, <1>4, <1>5, <2>1, StandsUnary
  <2>3. /\ i \in Nat /\ last <= Len(toks)
        /\ toks[first] = "OPENPAREN" /\ toks[k] = o /\ toks[last] = "CLOSEPAREN"
        /\ Stands(R, k, toks)
    BY <2>2 DEF r
  <2>4. PICK a : Derives(a, 8, k + 1, k + r, toks) /\ Mirrors(a, Shape[e.rhs])
    BY <1>8, <2>3 DEF Reads
  <2>5. k + 1 = right /\ k + r = after
    BY <1>5, <2>3
  <2>6. /\ first \in Nat /\ k \in Nat /\ right \in Nat /\ after \in Nat /\ last \in Nat
        /\ 1 <= k /\ after <= Len(toks) /\ k < after /\ right = k + 1
        /\ 1 <= first /\ last <= Len(toks) /\ first < last /\ k = first + 1
        /\ after = last - 1 /\ i + 1 = first /\ i + (r + 3) = last
    BY <1>5, <1>8, <2>3
  <2> HIDE DEF first, k, right, after, last
  <2>7. Derives(a, 8, right, after, toks)
    BY <2>4, <2>5
  <2>8. toks[k] \in DOMAIN PrefixPower
    BY <1>1, <2>3
  <2>9. \E m \in 1..8 : Derives(Tree("UnaryExpression", k, <<a>>), m, k, after, toks)
    BY <1>5, <2>6, <2>7, <2>8, ReadUnary
  <2> DEFINE t == Tree("UnaryExpression", k, <<a>>)
             g == Tree("GroupingExpression", first, <<t>>)
  <2>10. Mirrors(t, Shape[e])
    BY <1>7, <2>3, <2>4, MirrorUnary
  <2>11. PICK m \in 1..8 : Derives(t, m, k, after, toks)
    BY <2>9
  <2> HIDE DEF t
  <2>12. Derives(g, 8, first, last, toks)
    BY <1>5, <2>3, <2>6, <2>11, ReadGroup
  <2>13. Mirrors(g, Shape[e])
    BY <2>10, MirrorUnary
  <2> HIDE DEF g
  <2> QED
    BY <2>6, <2>12, <2>13 DEF Reads
<1>10. r + 3 >= 1
  BY <1>5
<1> QED
  BY <1>6, <1>9, <1>10 DEF ReadsBack

(* By induction over the expressions.                                      *)
LEMMA ExpressionsReadBack ==
  ASSUME toks \in Seq(TokenTypes)
  PROVE  \A e \in Expressions : Prints[e] => ReadsBack(e)
<1> DEFINE S == {e \in Expressions : Prints[e] => ReadsBack(e)}
<1>1. ASSUME NEW e \in Expressions, Printer!Inner(e) \subseteq S
      PROVE  e \in S
  <2> SUFFICES ASSUME Prints[e] PROVE ReadsBack(e)
    OBVIOUS
  <2>1. PrintsRule(Prints, e) /\ Len(toks) \in Nat
    BY PrintsUnfolds
  <2>2. CASE e.kind \in {"Literal", "Identifier"}
    BY <2>1, <2>2, ReadsLeaf
  <2>3. CASE e.kind = "BinaryExpression"
    <3>1. Prints[e.lhs] /\ Prints[e.rhs]
      BY <2>1, <2>3 DEF PrintsRule
    <3>2. e.lhs \in S /\ e.rhs \in S
      BY <1>1, <2>3, PrintedKinds
    <3> QED
      BY <2>3, <3>1, <3>2, ReadsBinary
  <2>4. CASE e.kind = "UnaryExpression"
    <3>1. Prints[e.rhs]
      BY <2>1, <2>4 DEF PrintsRule
    <3>2. e.rhs \in S
      BY <1>1, <2>4, PrintedKinds
    <3> QED
      BY <2>4, <3>1, <3>2, ReadsUnary
  <2>5. CASE e.kind = "GroupingExpression"
    <3>1. e.expr # Printer!Null /\ Prints[e.expr]
      BY <2>1, <2>5 DEF PrintsRule
    <3>2. e.expr \in S
      BY <1>1, <2>5, <3>1, PrintedKinds
    <3>3. Printer!Tokens[e] = Printer!Tokens[e.expr] /\ Shape[e] = Shape[e.expr]
      BY <2>5, <3>1, PrintedTokens, ShapeUnfolds DEF ShapeRule
    <3> QED
      BY <3>1, <3>2, <3>3 DEF ReadsBack, Reads
  <2> QED
    BY <2>2, <2>3, <2>4, <2>5, PrintedKinds
<1> HIDE DEF S
<1>2. Expressions \subseteq S
  BY <1>1, PrintedInduction
<1> QED
  BY <1>2 DEF S

----------------------------------------------------------------------------
(* What is printed for a line is a line of the grammar, of one tree.       *)
LineFits(t, c, a, j) ==
  /\ Mirrors(t, ShapeOfChild(c))
  /\ IF c.kind = "VariableDefinition" THEN t \in DefinitionTrees(a + 1, j, toks)
     ELSE t \in AssignmentTrees(a + 1, j, toks)

LinePrinted(c, a, j) ==
  /\ a \in Nat /\ j \in 1..Len(toks) /\ a < j /\ toks[j] = "NEWLINE" /\ Unbroken(a + 1, j, toks)
  /\ \E t : LineFits(t, c, a, j)

LEMMA SixInARow ==
  ASSUME NEW a, NEW b, NEW c, NEW d, NEW e, NEW f
  PROVE  <<a, b, c, d>> \o <<e>> \o <<f>> = <<a, b, c, d, e, f>>
<1> DEFINE S == {a, b, c, d, e, f}
           P == <<a, b, c, d>>
           Q == <<e>>
           R == <<f>>
           U == P \o Q
           W == U \o R
<1>1. /\ P \in Seq(S) /\ Q \in Seq(S) /\ R \in Seq(S) /\ Len(P) = 4 /\ Len(Q) = 1 /\ Len(R) = 1
      /\ P[1] = a /\ P[2] = b /\ P[3] = c /\ P[4] = d /\ Q[1] = e /\ R[1] = f
  OBVIOUS
<1> HIDE DEF S, P, Q, R
<1>2. /\ U \in Seq(S) /\ Len(U) = 5
      /\ \A k \in 1..5 : U[k] = IF k <= 4 THEN P[k] ELSE Q[k - 4]
  <2>1. /\ U \in Seq(S) /\ Len(U) = Len(P) + Len(Q)
        /\ \A k \in 1..(Len(P) + Len(Q)) : U[k] = IF k <= Len(P) THEN P[k] ELSE Q[k - Len(P)]
    BY <1>1, ConcatProperties
  <2>2. 4 + 1 = 5
    OBVIOUS
  <2> HIDE DEF U
  <2> QED
    BY <1>1, <2>1, <2>2
<1> HIDE DEF U
<1>3. /\ W \in Seq(S) /\ Len(W) = 6
      /\ \A k \in 1..6 : W[k] = IF k <= 5 THEN U[k] ELSE R[k - 5]
  <2>1. /\ W \in Seq(S) /\ Len(W) = Len(U) + Len(R)
        /\ \A k \in 1..(Len(U) + Len(R)) : W[k] = IF k <= Len(U) THEN U[k] ELSE R[k - Len(U)]
    BY <1>1, <1>2, ConcatProperties
  <2>2. 5 + 1 = 6
    OBVIOUS
  <2> HIDE DEF W
  <2> QED
    BY <1>1, <1>2, <2>1, <2>2
<1> HIDE DEF W
<1>4. /\ U[1] = a /\ U[2] = b /\ U[3] = c /\ U[4] = d /\ U[5] = e
  <2>1. /\ 1 \in 1..5 /\ 2 \in 1..5 /\ 3 \in 1..5 /\ 4 \in 1..5 /\ 5 \in 1..5
        /\ 1 <= 4 /\ 2 <= 4 /\ 3 <= 4 /\ 4 <= 4 /\ ~(5 <= 4) /\ 5 - 4 = 1
    OBVIOUS
  <2>2. U[1] = P[1] /\ U[2] = P[2] /\ U[3] = P[3] /\ U[4] = P[4]
    BY <1>2, <2>1
  <2>3. U[5] = Q[1]
    BY <1>2, <2>1
  <2> QED
    BY <1>1, <2>2, <2>3
<1>5. W[1] = a /\ W[2] = b /\ W[3] = c /\ W[4] = d /\ W[5] = e /\ W[6] = f
  BY <1>1, <1>3, <1>4
<1>6. W = <<a, b, c, d, e, f>>
  <2> DEFINE V == <<a, b, c, d, e, f>>
  <2>1. /\ V[1] = a /\ V[2] = b /\ V[3] = c /\ V[4] = d /\ V[5] = e /\ V[6] = f
        /\ V = [k \in 1..6 |-> V[k]] /\ 1..6 = {1, 2, 3, 4, 5, 6}
    OBVIOUS
  <2>2. W = [k \in 1..6 |-> W[k]]
    BY <1>3
  <2> HIDE DEF V
  <2>3. \A k \in 1..6 : W[k] = V[k]
    BY <1>5, <2>1
  <2>4. W = V
    BY <2>1, <2>2, <2>3
  <2> QED
    BY <2>4 DEF V
<1> QED
  BY <1>6 DEF W, U, P, Q, R

(* A definition, without brackets around its type.                         *)
LEMMA DefinitionTokens ==
  ASSUME NEW c, c.kind = "VariableDefinition", c.value.type # "<None>", c.value.value \in TokenTypes
  PROVE  /\ Printer!ChildTokens(c) = <<"ID", "COLON", "ID", "ASSIGN", c.value.value, "NEWLINE">>
         /\ Printer!ChildTokens(c) \in Seq(TokenTypes)
<1> DEFINE v == c.value.value
<1>1. Printer!ChildTokens(c) = <<"ID", "COLON", "ID", "ASSIGN">> \o <<v>> \o <<"NEWLINE">>
  BY DEF Printer!ChildTokens, Printer!LiteralTokens
<1> HIDE DEF v
<1>2. <<"ID", "COLON", "ID", "ASSIGN">> \o <<v>> \o <<"NEWLINE">>
        = <<"ID", "COLON", "ID", "ASSIGN", v, "NEWLINE">>
  BY SixInARow
<1>3. {"ID", "COLON", "ASSIGN", "NEWLINE"} \subseteq TokenTypes
  BY DEF TokenTypes, SimpleStarts
<1>4. v \in TokenTypes
  BY DEF v
<1>5. <<"ID", "COLON", "ID", "ASSIGN", v, "NEWLINE">> \in Seq(TokenTypes)
  BY <1>3, <1>4
<1> QED
  BY <1>1, <1>2, <1>5 DEF v

LEMMA DefinitionPrinted ==
  ASSUME toks \in Seq(TokenTypes), NEW c, c.kind = "VariableDefinition", c.value.type # "<None>",
         c.value.value \in Literals, NEW a, Stands(Printer!ChildTokens(c), a, toks)
  PROVE  LinePrinted(c, a, a + Len(Printer!ChildTokens(c)))
<1> DEFINE v == c.value.value
           s == <<"ID", "COLON", "ID", "ASSIGN", v, "NEWLINE">>
           i == a + 1
           j == a + 6
           D == 0
           t == DefinitionTree(D, i, j)
<1>1. v \in TokenTypes
  BY DEF TokenTypes, SimpleStarts
<1>2. Printer!ChildTokens(c) = s /\ Len(s) = 6
  BY <1>1, DefinitionTokens
<1>3. a \in Nat /\ a + 6 <= Len(toks) /\ \A k \in 1..6 : toks[a + k] = s[k]
  BY <1>2 DEF Stands
<1>4. /\ s[1] = "ID" /\ s[2] = "COLON" /\ s[3] = "ID" /\ s[4] = "ASSIGN" /\ s[5] = v /\ s[6] = "NEWLINE"
      /\ 1 \in 1..6 /\ 2 \in 1..6 /\ 3 \in 1..6 /\ 4 \in 1..6 /\ 5 \in 1..6 /\ 6 \in 1..6
  OBVIOUS
<1> HIDE DEF s
<1>5. /\ toks[a + 1] = "ID" /\ toks[a + 2] = "COLON" /\ toks[a + 3] = "ID"
      /\ toks[a + 4] = "ASSIGN" /\ toks[a + 5] = v /\ toks[a + 6] = "NEWLINE"
  BY <1>3, <1>4
<1>6. /\ a + 1 = i /\ a + 2 = i + 1 /\ a + 3 = i + 2 + D /\ a + 4 = j - 2 /\ a + 5 = j - 1 /\ a + 6 = j
      /\ i \in Nat /\ j \in Nat /\ D \in Nat /\ D \in 0..Len(toks) /\ j = i + 2 * D + 5 /\ 1..D = {}
      /\ j \in 1..Len(toks) /\ a < j
  BY <1>3
<1> HIDE DEF i, j, D, t
<1>7. DefinitionLine(D, i, j, toks)
  BY <1>5, <1>6 DEF DefinitionLine, v
<1>8. Unbroken(i, j, toks)
  BY <1>6, <1>7, DefinitionUnbroken
<1>9. t \in DefinitionTrees(i, j, toks)
  BY <1>6, <1>7, DefinitionMembers DEF t
<1>10. Mirrors(t, ShapeOfChild(c))
  <2> DEFINE kids == <<Tree("Identifier", i, <<>>), Tree("Type", i + 2 + D, <<>>), Tree("Literal", j - 1, <<>>)>>
             shapes == <<Leaf("ID"), Leaf("ID"), Leaf(v)>>
             n == 3
             kind == "VariableDefinition"
  <2>1. t = Tree(kind, 0, kids) /\ ShapeOfChild(c) = Apply(kind, shapes)
    BY DEF t, DefinitionTree, ShapeOfChild, v
  <2>2. /\ Mirrors(Tree("Identifier", i, <<>>), Leaf(toks[i]))
        /\ Mirrors(Tree("Type", i + 2 + D, <<>>), Leaf(toks[i + 2 + D]))
        /\ Mirrors(Tree("Literal", j - 1, <<>>), Leaf(toks[j - 1]))
    BY MirrorLeaf
  <2>3. toks[i] = "ID" /\ toks[i + 2 + D] = "ID" /\ toks[j - 1] = v
    BY <1>5, <1>6
  <2>4. Mirrors(kids[1], shapes[1]) /\ Mirrors(kids[2], shapes[2]) /\ Mirrors(kids[3], shapes[3])
    BY <2>2, <2>3
  <2>5. n \in Nat /\ 1..n = {1, 2, 3} /\ DOMAIN kids = 1..n /\ shapes = [k \in 1..n |-> shapes[k]]
    OBVIOUS
  <2>6. kind \in {"VariableDefinition", "AssignmentStatement"}
    OBVIOUS
  <2> HIDE DEF kids, shapes, n, kind
  <2>7. \A k \in 1..n : Mirrors(kids[k], shapes[k])
    BY <2>4, <2>5
  <2>8. Mirrors(Tree(kind, 0, kids), Apply(kind, shapes))
    BY <2>5, <2>6, <2>7, MirrorNode
  <2> QED
    BY <2>1, <2>8
<1>11. LineFits(t, c, a, j)
  BY <1>6, <1>9, <1>10 DEF LineFits
<1>12. LinePrinted(c, a, j)
  BY <1>3, <1>5, <1>6, <1>8, <1>11 DEF LinePrinted
<1> QED
  BY <1>2, <1>6, <1>12

LEMMA RowAndMore ==
  ASSUME NEW n \in Nat, NEW V, NEW f \in [1..n -> V], NEW x
  PROVE  /\ DOMAIN (f \o <<x>>) = 1..(n + 1)
         /\ f \o <<x>> = [k \in 1..(n + 1) |-> (f \o <<x>>)[k]]
         /\ (f \o <<x>>)[n + 1] = x /\ \A k \in 1..n : (f \o <<x>>)[k] = f[k]
<1> DEFINE W == V \cup {x}
           g == <<x>>
           h == f \o g
<1>1. f \in Seq(W) /\ Len(f) = n
  BY SeqDef
<1>2. g \in Seq(W) /\ Len(g) = 1 /\ g[1] = x
  OBVIOUS
<1> HIDE DEF W, g
<1>3. /\ h \in Seq(W) /\ Len(h) = n + 1
      /\ \A k \in 1..(n + 1) : h[k] = IF k <= n THEN f[k] ELSE g[k - n]
  <2>1. /\ h \in Seq(W) /\ Len(h) = Len(f) + Len(g)
        /\ \A k \in 1..(Len(f) + Len(g)) : h[k] = IF k <= Len(f) THEN f[k] ELSE g[k - Len(f)]
    BY <1>1, <1>2, ConcatProperties
  <2> HIDE DEF h
  <2>2. Len(f) = n /\ Len(g) = 1
    BY <1>1, <1>2
  <2> QED
    BY <2>1, <2>2
<1> HIDE DEF h
<1>4. n + 1 \in 1..(n + 1) /\ ~(n + 1 <= n) /\ (n + 1) - n = 1 /\ \A k \in 1..n : k \in 1..(n + 1) /\ k <= n
  OBVIOUS
<1>5. DOMAIN h = 1..(n + 1) /\ h = [k \in 1..(n + 1) |-> h[k]]
  BY <1>3
<1>6. h[n + 1] = x /\ \A k \in 1..n : h[k] = f[k]
  BY <1>2, <1>3, <1>4
<1> QED
  BY <1>5, <1>6 DEF h, g

(* An assignment: its targets, each with its `=', and the expression.      *)
LEMMA TargetsPrinted ==
  ASSUME NEW targets, Len(targets) \in Nat
  PROVE  /\ Printer!TargetTokens(targets) \in Seq(TokenTypes)
         /\ Len(Printer!TargetTokens(targets)) = 2 * Len(targets)
         /\ \A k \in 1..Len(targets) :
              /\ Printer!TargetTokens(targets)[2 * k - 1] = "ID"
              /\ Printer!TargetTokens(targets)[2 * k] = "ASSIGN"
<1> DEFINE n == Len(targets)
           m == 2 * n
           T == [i \in 1..m |-> IF i % 2 = 1 THEN "ID" ELSE "ASSIGN"]
<1>1. Printer!TargetTokens(targets) = T
  BY DEF Printer!TargetTokens
<1>2. n \in Nat /\ m \in Nat
  OBVIOUS
<1>3. "ID" \in TokenTypes /\ "ASSIGN" \in TokenTypes
  BY DEF TokenTypes, SimpleStarts
<1>4. T \in [1..m -> TokenTypes]
  BY <1>3
<1>5. T \in Seq(TokenTypes) /\ Len(T) = m
  BY <1>2, <1>4, SeqDef
<1>6. ASSUME NEW k \in 1..n
      PROVE  T[2 * k - 1] = "ID" /\ T[2 * k] = "ASSIGN"
  <2>1. 2 * k - 1 \in 1..m /\ 2 * k \in 1..m /\ (2 * k - 1) % 2 = 1 /\ (2 * k) % 2 = 0
    BY <1>2
  <2> HIDE DEF m
  <2> QED
    BY <2>1
<1> HIDE DEF T
<1> QED
  BY <1>1, <1>5, <1>6

(* The three parts of what is printed for an assignment.                   *)
LEMMA ThreeParts ==
  ASSUME NEW S, NEW A \in Seq(S), NEW B \in Seq(S), NEW c \in S
  PROVE  A \o B \o <<c>> \in Seq(S) /\ Len(A \o B \o <<c>>) = Len(A) + Len(B) + 1
<1> DEFINE C == <<c>>
           s2 == A \o B
           s1 == s2 \o C
           a == Len(A)
           b == Len(B)
<1>1. C \in Seq(S) /\ Len(C) = 1 /\ a \in Nat /\ b \in Nat
  OBVIOUS
<1>2. s2 \in Seq(S) /\ Len(s2) = a + b
  BY ConcatProperties
<1> HIDE DEF C, s2
<1>3. s1 \in Seq(S) /\ Len(s1) = Len(s2) + Len(C)
  BY <1>1, <1>2, ConcatProperties
<1> HIDE DEF s1, a, b
<1> QED
  BY <1>1, <1>2, <1>3 DEF s1, s2, C, a, b

LEMMA ThreePartsStand ==
  ASSUME NEW S, NEW A \in Seq(S), NEW B \in Seq(S), NEW c \in S, NEW i, NEW ts, Len(ts) \in Nat,
         Stands(A \o B \o <<c>>, i, ts)
  PROVE  /\ Stands(A, i, ts) /\ Stands(B, i + Len(A), ts) /\ i \in Nat
         /\ i + Len(A) + Len(B) + 1 <= Len(ts) /\ ts[i + Len(A) + Len(B) + 1] = c
<1> DEFINE C == <<c>>
           s2 == A \o B
           a == Len(A)
           b == Len(B)
<1>1. C \in Seq(S) /\ Len(C) = 1 /\ a \in Nat /\ b \in Nat
  OBVIOUS
<1>2. s2 \in Seq(S) /\ Len(s2) = a + b
  BY ConcatProperties
<1>3. Stands(s2 \o C, i, ts)
  OBVIOUS
<1> HIDE DEF C, s2
<1>4. Stands(s2, i, ts) /\ Stands(C, i + Len(s2), ts)
  BY <1>1, <1>2, <1>3, StandsApart
<1>5. Stands(A, i, ts) /\ Stands(B, i + a, ts)
  BY <1>4, StandsApart DEF s2
<1>6. i \in Nat
  BY <1>5 DEF Stands
<1>7. ts[(i + Len(s2)) + 1] = c /\ (i + Len(s2)) + 1 <= Len(ts)
  BY <1>4, StandsOne DEF C
<1>8. (i + Len(s2)) + 1 = i + a + b + 1
  BY <1>1, <1>2, <1>6
<1> QED
  BY <1>5, <1>6, <1>7, <1>8

LEMMA AssignmentTokens ==
  ASSUME NEW c, c.kind # "VariableDefinition", Len(c.targets) \in Nat, c.expr \in Expressions
  PROVE  /\ Printer!ChildTokens(c)
              = Printer!TargetTokens(c.targets) \o Printer!Tokens[c.expr] \o <<"NEWLINE">>
         /\ Printer!ChildTokens(c) \in Seq(TokenTypes)
         /\ Len(Printer!ChildTokens(c)) = 2 * Len(c.targets) + Len(Printer!Tokens[c.expr]) + 1
<1> DEFINE A == Printer!TargetTokens(c.targets)
           B == Printer!Tokens[c.expr]
           nl == "NEWLINE"
           s == A \o B \o <<nl>>
<1>1. Printer!ChildTokens(c) = s
  BY DEF Printer!ChildTokens
<1>2. A \in Seq(TokenTypes) /\ Len(A) = 2 * Len(c.targets)
  BY TargetsPrinted
<1>3. B \in Seq(TokenTypes)
  BY PrintedAreTokens
<1>4. nl \in TokenTypes
  BY DEF TokenTypes
<1> HIDE DEF A, B, nl
<1>5. s \in Seq(TokenTypes) /\ Len(s) = Len(A) + Len(B) + 1
  BY <1>2, <1>3, <1>4, ThreeParts
<1> HIDE DEF s
<1> QED
  BY <1>1, <1>2, <1>5 DEF s, A, B, nl

LEMMA AssignmentMirrors ==
  ASSUME NEW c, c.kind # "VariableDefinition", NEW n \in Nat, Len(c.targets) = n,
         c.kind = "AssignmentStatement",
         NEW i \in Nat, \A k \in 1..n : toks[i + 2 * k - 2] = "ID",
         NEW x, Mirrors(x, Shape[c.expr])
  PROVE  Mirrors(AssignmentTree(n, x, i), ShapeOfChild(c))
<1> DEFINE F == TargetTrees(n, i)
           G == [k \in 1..n |-> Leaf("ID")]
           y == Shape[c.expr]
           kids == F \o <<x>>
           shapes == G \o <<y>>
           kind == "AssignmentStatement"
           m == n + 1
<1>1. AssignmentTree(n, x, i) = Tree(kind, 0, kids) /\ ShapeOfChild(c) = Apply(kind, shapes)
  BY DEF AssignmentTree, ShapeOfChild
<1>2. F = [k \in 1..n |-> F[k]] /\ G = [k \in 1..n |-> G[k]]
  BY DEF TargetTrees
<1>3. \A k \in 1..n : F[k] = Tree("Identifier", i + 2 * k - 2, <<>>) /\ G[k] = Leaf("ID")
  BY DEF TargetTrees
<1>4. \A k \in 1..n : Mirrors(F[k], G[k])
  <2> SUFFICES ASSUME NEW k \in 1..n PROVE Mirrors(F[k], G[k])
    OBVIOUS
  <2> DEFINE at == i + 2 * k - 2
             leaf == "Identifier"
  <2>1. toks[at] = "ID"
    OBVIOUS
  <2>2. F[k] = Tree(leaf, at, <<>>) /\ G[k] = Leaf("ID")
    BY <1>3
  <2>3. leaf \in {"Literal", "Identifier", "Type"}
    OBVIOUS
  <2> HIDE DEF at, leaf, F, G
  <2>4. Mirrors(Tree(leaf, at, <<>>), Leaf(toks[at]))
    BY <2>3, MirrorLeaf
  <2> QED
    BY <2>1, <2>2, <2>4
<1> HIDE DEF F, G, y
<1>5. F \in [1..n -> {F[k] : k \in 1..n}] /\ G \in [1..n -> {G[k] : k \in 1..n}]
  BY <1>2
<1>6. /\ DOMAIN kids = 1..m /\ kids[n + 1] = x /\ \A k \in 1..n : kids[k] = F[k]
  BY <1>5, RowAndMore
<1>7. /\ shapes = [k \in 1..m |-> shapes[k]] /\ shapes[n + 1] = y /\ \A k \in 1..n : shapes[k] = G[k]
  BY <1>5, RowAndMore
<1>8. kind \in {"VariableDefinition", "AssignmentStatement"} /\ m \in Nat
  OBVIOUS
<1> HIDE DEF kids, shapes, kind
<1>9. \A k \in 1..m : Mirrors(kids[k], shapes[k])
  <2> SUFFICES ASSUME NEW k \in 1..m PROVE Mirrors(kids[k], shapes[k])
    OBVIOUS
  <2>1. k \in 1..n \/ k = n + 1
    OBVIOUS
  <2> QED
    BY <1>4, <1>6, <1>7, <2>1 DEF y
<1> HIDE DEF m
<1>10. Mirrors(Tree(kind, 0, kids), Apply(kind, shapes))
  BY <1>6, <1>7, <1>8, <1>9, MirrorNode
<1> QED
  BY <1>1, <1>10

LEMMA AssignmentPrinted ==
  ASSUME toks \in Seq(TokenTypes), NEW c, c.kind = "AssignmentStatement", Len(c.targets) \in Nat,
         Len(c.targets) >= 1, c.expr \in Expressions, Prints[c.expr],
         NEW a, Stands(Printer!ChildTokens(c), a, toks)
  PROVE  LinePrinted(c, a, a + Len(Printer!ChildTokens(c)))
<1> DEFINE n == Len(c.targets)
           A == Printer!TargetTokens(c.targets)
           B == Printer!Tokens[c.expr]
           l == Len(B)
           nl == "NEWLINE"
           b == a + 2 * n
           i == a + 1
           j == a + 2 * n + l + 1
<1>1. /\ Printer!ChildTokens(c) = A \o B \o <<nl>> /\ Len(Printer!ChildTokens(c)) = 2 * n + l + 1
  BY AssignmentTokens
<1>2. A \in Seq(TokenTypes) /\ Len(A) = 2 * n /\ B \in Seq(TokenTypes)
      /\ \A k \in 1..n : A[2 * k - 1] = "ID" /\ A[2 * k] = "ASSIGN"
  BY TargetsPrinted, PrintedAreTokens
<1>3. nl \in TokenTypes /\ Len(toks) \in Nat
  BY DEF TokenTypes
<1>4. l \in Nat /\ l >= 1 /\ \A h : Stands(B, h, toks) => Reads(c.expr, l, h)
  <2>1. ReadsBack(c.expr)
    BY ExpressionsReadBack
  <2> QED
    BY <1>2, <2>1 DEF ReadsBack
<1>5. n \in Nat /\ n >= 1
  OBVIOUS
<1>6. Stands(A \o B \o <<nl>>, a, toks)
  BY <1>1
<1>7. /\ Stands(A, a, toks) /\ Stands(B, a + Len(A), toks) /\ a \in Nat
      /\ a + Len(A) + Len(B) + 1 <= Len(toks) /\ toks[a + Len(A) + Len(B) + 1] = nl
  <2> HIDE DEF A, B, nl
  <2>1. A \in Seq(TokenTypes) /\ B \in Seq(TokenTypes)
    BY <1>2
  <2> QED
    BY <2>1, <1>3, <1>6, ThreePartsStand
<1>8. Stands(B, b, toks) /\ j <= Len(toks) /\ toks[j] = "NEWLINE"
  BY <1>2, <1>7
<1>9. \A k \in 1..n : toks[a + (2 * k - 1)] = "ID" /\ toks[a + 2 * k] = "ASSIGN"
  <2> SUFFICES ASSUME NEW k \in 1..n
               PROVE  toks[a + (2 * k - 1)] = "ID" /\ toks[a + 2 * k] = "ASSIGN"
    OBVIOUS
  <2>1. 2 * k - 1 \in 1..(2 * n) /\ 2 * k \in 1..(2 * n)
    BY <1>5
  <2>2. \A h \in 1..(2 * n) : toks[a + h] = A[h]
    BY <1>2, <1>7 DEF Stands
  <2> QED
    BY <1>2, <2>1, <2>2
<1>10. PICK x : Derives(x, 8, b + 1, b + l, toks) /\ Mirrors(x, Shape[c.expr])
  BY <1>4, <1>8 DEF Reads
<1> HIDE DEF n, l, A, B, nl
<1>11. /\ b + 1 = i + 2 * n /\ b + l = j - 1 /\ i \in Nat /\ j \in Nat /\ i \in 1..Len(toks)
       /\ j \in 1..Len(toks) /\ i + 2 * n < j /\ a < j /\ n \in 1..Len(toks)
       /\ \A k \in 1..n : a + (2 * k - 1) = i + 2 * k - 2 /\ a + 2 * k = i + 2 * k - 1
       /\ a + (2 * n + l + 1) = j /\ a + 1 = i
  BY <1>3, <1>4, <1>5, <1>7, <1>8
<1>12. /\ \A k \in 1..n : toks[i + 2 * k - 2] = "ID" /\ toks[i + 2 * k - 1] = "ASSIGN"
  BY <1>9, <1>11
<1> HIDE DEF b, i, j
<1>13. TargetsLine(n, i, j, toks)
  BY <1>11, <1>12 DEF TargetsLine
<1>14. Derives(x, 1, i + 2 * n, j - 1, toks)
  <2>1. Derives(x, 8, i + 2 * n, j - 1, toks)
    BY <1>10, <1>11
  <2> DEFINE m == 1
             u == 8
             f == i + 2 * n
             g == j - 1
  <2>2. m \in 1..8 /\ m <= u
    OBVIOUS
  <2>3. Derives(x, u, f, g, toks)
    BY <2>1
  <2> HIDE DEF m, u, f, g
  <2>4. Derives(x, m, f, g, toks)
    BY <1>3, <2>2, <2>3, DerivesLooser
  <2> QED
    BY <2>4 DEF m, f, g
<1> DEFINE t == AssignmentTree(n, x, i)
<1>15. t \in AssignmentTrees(i, j, toks)
  BY <1>3, <1>11, <1>13, <1>14, AssignmentMembers
<1>16. Unbroken(i, j, toks)
  BY <1>3, <1>5, <1>11, <1>13, <1>14, AssignmentUnbroken
<1>17. Mirrors(t, ShapeOfChild(c))
  BY <1>5, <1>10, <1>11, <1>12, AssignmentMirrors DEF n
<1> HIDE DEF t
<1>18. LineFits(t, c, a, j)
  BY <1>11, <1>15, <1>17 DEF LineFits
<1>19. LinePrinted(c, a, j)
  BY <1>7, <1>8, <1>11, <1>16, <1>18 DEF LinePrinted
<1> QED
  BY <1>1, <1>11, <1>19

----------------------------------------------------------------------------
(* What is printed for a program, line by line.                            *)
Upto(p) ==
  LET upto[k \in 0..Len(p)] == IF k = 0 THEN <<>> ELSE upto[k - 1] \o Printer!ChildTokens(p[k])
  IN  upto

LEMMA UptoUnfolds ==
  ASSUME NEW p, Len(p) \in Nat
  PROVE  /\ Upto(p)[0] = <<>>
         /\ \A k \in 1..Len(p) : Upto(p)[k] = Upto(p)[k - 1] \o Printer!ChildTokens(p[k])
         /\ Printer!ProgramTokens(p) = Upto(p)[Len(p)]
<1> DEFINE N == Len(p)
           Body(f, n) == IF n = 0 THEN <<>> ELSE f[n - 1] \o Printer!ChildTokens(p[n])
           S == {m \in Nat : \E f : f = [n \in 0..m |-> Body(f, n)]}
<1>1. 0 \in S
  <2> DEFINE f == [n \in 0..0 |-> <<>>]
  <2>1. f = [n \in 0..0 |-> Body(f, n)]
    OBVIOUS
  <2> QED
    BY <2>1
<1>2. ASSUME NEW m \in Nat, m \in S
      PROVE  m + 1 \in S
  <2>1. PICK f : f = [n \in 0..m |-> Body(f, n)]
    BY <1>2
  <2> DEFINE h == [n \in 0..m + 1 |-> Body(f, n)]
  <2>2. \A n \in 0..m : h[n] = f[n]
    BY <2>1
  <2>3. ASSUME NEW n \in 0..m + 1
        PROVE  Body(f, n) = Body(h, n)
    <3>1. CASE n = 0
      BY <3>1
    <3>2. CASE n # 0
      <4>1. n - 1 \in 0..m
        BY <3>2
      <4>2. h[n - 1] = f[n - 1]
        BY <2>2, <4>1
      <4> QED
        BY <3>2, <4>2
    <3> QED
      BY <3>1, <3>2
  <2>4. h = [n \in 0..m + 1 |-> Body(h, n)]
    <3> HIDE DEF Body
    <3> QED
      BY <2>3
  <2>5. \E k : k = [n \in 0..m + 1 |-> Body(k, n)]
    <3> HIDE DEF Body, h
    <3> QED
      BY <2>4
  <2> HIDE DEF Body
  <2> QED
    BY <2>5
<1> HIDE DEF S
<1>3. N \in S
  BY <1>1, <1>2, FromNumberToNext
<1>4. PICK f : f = [n \in 0..N |-> Body(f, n)]
  BY <1>3 DEF S
<1>5. Upto(p) = [n \in 0..N |-> Body(Upto(p), n)]
  BY <1>4 DEF Upto
<1>6. Printer!ProgramTokens(p) = Upto(p)[N]
  BY DEF Upto, Printer!ProgramTokens
<1> HIDE DEF Body
<1>7. \A n \in 0..N : Upto(p)[n] = Body(Upto(p), n)
  BY <1>5
<1>8. 0 \in 0..N /\ \A n \in 1..N : n \in 0..N /\ n # 0
  OBVIOUS
<1> QED
  BY <1>6, <1>7, <1>8 DEF Body

(* What a program is made of.                                              *)
LEMMA ChildFacts ==
  ASSUME NEW p \in Programs, NEW k \in 1..Len(p)
  PROVE  /\ p[k].kind \in {"VariableDefinition", "AssignmentStatement"}
         /\ p[k].kind = "VariableDefinition" => p[k].value.value \in Literals
         /\ p[k].kind = "AssignmentStatement" =>
              Len(p[k].targets) \in Nat /\ Len(p[k].targets) >= 1 /\ p[k].expr \in Expressions
<1>1. p \in Seq(Printer!Definitions \cup Printer!Assignments(Expressions))
  BY PrintedTrees DEF Printer!ASTAssumption
<1>2. p[k] \in Printer!Definitions \cup Printer!Assignments(Expressions)
  BY <1>1
<1>3. p[k].kind = "AssignmentStatement" => p[k].targets # <<>>
  BY PrintedTrees
<1>4. CASE p[k] \in Printer!Definitions
  <2>1. p[k].kind = "VariableDefinition" /\ p[k].value \in Printer!Literals
    BY <1>4 DEF Printer!Definitions
  <2>2. p[k].value.value \in Values
    BY <2>1 DEF Printer!Literals
  <2> QED
    BY <2>1, <2>2, PrintedTrees
<1>5. CASE p[k] \in Printer!Assignments(Expressions)
  <2>1. /\ p[k].kind = "AssignmentStatement" /\ p[k].expr \in Expressions
        /\ p[k].targets \in Seq(Printer!Names)
    BY <1>5 DEF Printer!Assignments
  <2>2. p[k].targets # <<>>
    BY <1>3, <2>1
  <2> DEFINE targets == p[k].targets
  <2>3. targets \in Seq(Printer!Names) /\ targets # <<>>
    BY <2>1, <2>2
  <2> HIDE DEF targets
  <2>4. Len(targets) \in Nat /\ Len(targets) >= 1
    BY <2>3
  <2> QED
    BY <2>1, <2>4 DEF targets
<1> QED
  BY <1>2, <1>4, <1>5

LEMMA ProgramFacts ==
  ASSUME NEW p \in Programs
  PROVE  /\ Len(p) \in Nat /\ p = [k \in 1..Len(p) |-> p[k]]
         /\ \A c, d \in 1..Len(p) :
              c < d /\ p[d].kind = "VariableDefinition" => p[c].kind = "VariableDefinition"
<1>1. /\ p \in Seq(Printer!Definitions \cup Printer!Assignments(Expressions))
      /\ \A c, d \in 1..Len(p) :
           c < d /\ p[d].kind = "VariableDefinition" => p[c].kind = "VariableDefinition"
  BY PrintedTrees DEF Printer!ASTAssumption
<1> QED
  BY <1>1

LEMMA ChildPrinted ==
  ASSUME NEW p \in Programs, Printable(p), NEW k \in 1..Len(p)
  PROVE  /\ Printer!ChildTokens(p[k]) \in Seq(TokenTypes)
         /\ toks \in Seq(TokenTypes) =>
              \A a : Stands(Printer!ChildTokens(p[k]), a, toks) =>
                       LinePrinted(p[k], a, a + Len(Printer!ChildTokens(p[k])))
<1> DEFINE c == p[k]
<1>1. IF c.kind = "VariableDefinition" THEN c.value.type # "<None>" ELSE Prints[c.expr]
  BY DEF Printable
<1>2. /\ c.kind \in {"VariableDefinition", "AssignmentStatement"}
      /\ c.kind = "VariableDefinition" => c.value.value \in Literals
      /\ c.kind = "AssignmentStatement" =>
           Len(c.targets) \in Nat /\ Len(c.targets) >= 1 /\ c.expr \in Expressions
  BY ChildFacts
<1> HIDE DEF c
<1>3. CASE c.kind = "VariableDefinition"
  <2>1. c.value.value \in Literals /\ c.value.value \in TokenTypes /\ c.value.type # "<None>"
    BY <1>1, <1>2, <1>3 DEF TokenTypes, SimpleStarts
  <2>2. Printer!ChildTokens(c) \in Seq(TokenTypes)
    BY <1>3, <2>1, DefinitionTokens
  <2>3. ASSUME toks \in Seq(TokenTypes), NEW a, Stands(Printer!ChildTokens(c), a, toks)
        PROVE  LinePrinted(c, a, a + Len(Printer!ChildTokens(c)))
    BY <1>3, <2>1, <2>3, DefinitionPrinted
  <2> QED
    BY <2>2, <2>3 DEF c
<1>4. CASE c.kind = "AssignmentStatement"
  <2>1. /\ Len(c.targets) \in Nat /\ Len(c.targets) >= 1 /\ c.expr \in Expressions /\ Prints[c.expr]
        /\ c.kind # "VariableDefinition"
    BY <1>1, <1>2, <1>4
  <2>2. Printer!ChildTokens(c) \in Seq(TokenTypes)
    BY <2>1, AssignmentTokens
  <2>3. ASSUME toks \in Seq(TokenTypes), NEW a, Stands(Printer!ChildTokens(c), a, toks)
        PROVE  LinePrinted(c, a, a + Len(Printer!ChildTokens(c)))
    BY <1>4, <2>1, <2>3, AssignmentPrinted
  <2> QED
    BY <2>2, <2>3 DEF c
<1> QED
  BY <1>2, <1>3, <1>4

(* E[k] is the end of line k.                                              *)
Laid(p, E) ==
  /\ E[0] = 0 /\ E[Len(p)] = Len(toks)
  /\ \A k \in 1..Len(p) : LinePrinted(p[k], E[k - 1], E[k])

(* Every line of a printed program is in the stream, one behind the other. *)
LEMMA ProgramIsLaid ==
  ASSUME toks \in Seq(TokenTypes), NEW p \in Programs, Printable(p), Printer!ProgramTokens(p) = toks
  PROVE  \E E : Laid(p, E)
<1> DEFINE n == Len(p)
           U == Upto(p)
           C(k) == Printer!ChildTokens(p[k])
           E == [k \in 0..n |-> Len(U[k])]
<1>1. n \in Nat
  BY ProgramFacts
<1>2. U[0] = <<>> /\ U[n] = toks /\ \A k \in 1..n : U[k] = U[k - 1] \o C(k)
  BY <1>1, UptoUnfolds
<1>3. \A k \in 1..n : C(k) \in Seq(TokenTypes)
  BY ChildPrinted
<1> HIDE DEF U, C, n
<1>4. \A k \in Nat : k <= n => U[k] \in Seq(TokenTypes)
  <2> DEFINE S == {k \in Nat : k <= n => U[k] \in Seq(TokenTypes)}
  <2>1. 0 \in S
    <3>1. <<>> \in Seq(TokenTypes)
      OBVIOUS
    <3>2. U[0] \in Seq(TokenTypes)
      BY <1>2, <3>1, Zenon
    <3> QED
      BY <3>2
  <2>2. ASSUME NEW k \in Nat, k \in S PROVE k + 1 \in S
    <3> SUFFICES ASSUME k + 1 <= n PROVE U[k + 1] \in Seq(TokenTypes)
      OBVIOUS
    <3>1. k + 1 \in 1..n /\ (k + 1) - 1 = k /\ U[k] \in Seq(TokenTypes)
      BY <1>1, <2>2
    <3> DEFINE u == U[k]
               c == C(k + 1)
    <3>2. U[k + 1] = u \o c /\ c \in Seq(TokenTypes) /\ u \in Seq(TokenTypes)
      BY <1>2, <1>3, <3>1
    <3> HIDE DEF u, c
    <3>3. u \o c \in Seq(TokenTypes)
      BY <3>2, ConcatProperties
    <3> QED
      BY <3>2, <3>3
  <2> HIDE DEF S
  <2>3. \A k \in Nat : k \in S
    BY <2>1, <2>2, FromNumberToNext
  <2> QED
    BY <2>3 DEF S
<1>5. ASSUME NEW k \in 1..n, Stands(U[k], 0, toks)
      PROVE  /\ Stands(U[k - 1], 0, toks) /\ Stands(C(k), Len(U[k - 1]), toks)
             /\ Len(U[k]) = Len(U[k - 1]) + Len(C(k))
  <2> DEFINE u == U[k - 1]
             c == C(k)
             z == 0
  <2>1. u \in Seq(TokenTypes) /\ c \in Seq(TokenTypes) /\ U[k] = u \o c
    BY <1>1, <1>2, <1>3, <1>4
  <2>2. Len(toks) \in Nat /\ Stands(u \o c, z, toks)
    BY <1>5, <2>1
  <2> HIDE DEF u, c, z
  <2>3. Stands(u, z, toks) /\ Stands(c, z + Len(u), toks) /\ Len(u \o c) = Len(u) + Len(c)
    BY <2>1, <2>2, StandsApart
  <2>4. z + Len(u) = Len(u)
    BY <2>1 DEF z
  <2> QED
    BY <2>1, <2>3, <2>4 DEF u, c, z
<1>6. \A m \in Nat : m <= n => Stands(U[n - m], 0, toks)
  <2> DEFINE S == {m \in Nat : m <= n => Stands(U[n - m], 0, toks)}
  <2>1. 0 \in S
    <3>1. Stands(toks, 0, toks)
      BY DEF Stands
    <3>2. n - 0 = n
      BY <1>1
    <3> QED
      BY <1>2, <3>1, <3>2
  <2>2. ASSUME NEW m \in Nat, m \in S PROVE m + 1 \in S
    <3> SUFFICES ASSUME m + 1 <= n PROVE Stands(U[n - (m + 1)], 0, toks)
      OBVIOUS
    <3>1. n - m \in 1..n /\ n - (m + 1) = (n - m) - 1 /\ Stands(U[n - m], 0, toks)
      BY <1>1, <2>2
    <3> QED
      BY <1>5, <3>1
  <2> HIDE DEF S
  <2>3. \A m \in Nat : m \in S
    BY <2>1, <2>2, FromNumberToNext
  <2> QED
    BY <2>3 DEF S
<1>7. ASSUME NEW k \in 1..n
      PROVE  LinePrinted(p[k], E[k - 1], E[k])
  <2>1. n - k \in Nat /\ n - k <= n /\ n - (n - k) = k /\ k \in 0..n /\ k - 1 \in 0..n
    BY <1>1
  <2>2. Stands(U[k], 0, toks)
    BY <1>6, <2>1
  <2>3. Stands(C(k), Len(U[k - 1]), toks) /\ Len(U[k]) = Len(U[k - 1]) + Len(C(k))
    BY <1>5, <2>2
  <2>4. LinePrinted(p[k], Len(U[k - 1]), Len(U[k - 1]) + Len(C(k)))
    BY <2>3, ChildPrinted DEF C, n
  <2>5. E[k - 1] = Len(U[k - 1]) /\ E[k] = Len(U[k])
    BY <2>1
  <2> QED
    BY <2>3, <2>4, <2>5
<1>8. E[0] = 0 /\ E[n] = Len(toks)
  BY <1>1, <1>2
<1> HIDE DEF E
<1>9. Laid(p, E)
  BY <1>7, <1>8 DEF Laid, n
<1> QED
  BY <1>9

(* The lines do not overlap and leave nothing out.                         *)
LEMMA LaidLine ==
  ASSUME Len(toks) \in Nat, NEW p, NEW E, Laid(p, E), NEW k \in 1..Len(p)
  PROVE  /\ E[k - 1] \in Nat /\ E[k] \in 1..Len(toks) /\ E[k] \in Nat /\ E[k - 1] < E[k]
         /\ E[k] \in NewLines(toks) /\ Unbroken(E[k - 1] + 1, E[k], toks)
         /\ \E t : LineFits(t, p[k], E[k - 1], E[k])
<1>1. LinePrinted(p[k], E[k - 1], E[k])
  BY DEF Laid
<1> QED
  BY <1>1 DEF LinePrinted, NewLines

LEMMA LaidUp ==
  ASSUME Len(toks) \in Nat, NEW p, Len(p) \in Nat, NEW E, Laid(p, E)
  PROVE  /\ \A k \in 0..Len(p) : E[k] \in Nat
         /\ \A q, k \in 0..Len(p) : q < k => E[q] < E[k]
         /\ \A x \in 1..Len(toks) : \E k \in 1..Len(p) : E[k - 1] < x /\ x <= E[k]
<1> DEFINE n == Len(p)
           U(k) == /\ E[k] \in Nat
                   /\ \A q \in 0..k : q < k => E[q] < E[k]
                   /\ \A x \in 1..E[k] : \E h \in 1..k : E[h - 1] < x /\ x <= E[h]
           S == {k \in Nat : k <= n => U(k)}
<1>1. E[0] = 0 /\ E[n] = Len(toks)
  BY DEF Laid
<1>2. \A k \in 1..n : E[k - 1] \in Nat /\ E[k] \in Nat /\ E[k - 1] < E[k]
  BY LaidLine
<1> HIDE DEF n
<1>3. 0 \in S
  <2>1. E[0] \in Nat
    BY <1>1
  <2>2. \A q \in 0..0 : ~(q < 0)
    OBVIOUS
  <2>3. 1..E[0] = {}
    BY <1>1
  <2> QED
    BY <2>1, <2>2, <2>3
<1>4. ASSUME NEW k \in Nat, k \in S PROVE k + 1 \in S
  <2> SUFFICES ASSUME k + 1 <= n PROVE U(k + 1)
    OBVIOUS
  <2> DEFINE m == k + 1
  <2>1. n \in Nat
    BY DEF n
  <2>2. m \in 1..n /\ m - 1 = k /\ k <= n /\ m \in Nat
    BY <2>1
  <2>3. E[k] \in Nat /\ E[m] \in Nat /\ E[k] < E[m]
    BY <1>2, <2>2
  <2>4. U(k)
    BY <1>4, <2>2
  <2> HIDE DEF m
  <2>5. ASSUME NEW q \in 0..m, q < m PROVE E[q] < E[m]
    <3>1. q = k \/ (q \in 0..k /\ q < k)
      BY <2>2, <2>5
    <3>2. CASE q = k
      BY <2>3, <3>2
    <3>3. CASE q \in 0..k /\ q < k
      <4>1. E[q] < E[k]
        BY <2>4, <3>3
      <4>2. q \in 1..n \/ q = 0
        BY <2>1, <2>2, <3>3
      <4>3. E[q] \in Nat
        BY <1>1, <1>2, <4>2
      <4> QED
        BY <2>3, <4>1, <4>3
    <3> QED
      BY <3>1, <3>2, <3>3
  <2>6. ASSUME NEW x \in 1..E[m] PROVE \E h \in 1..m : E[h - 1] < x /\ x <= E[h]
    <3>1. CASE x <= E[k]
      <4>1. x \in 1..E[k]
        BY <2>3, <3>1
      <4>2. PICK h \in 1..k : E[h - 1] < x /\ x <= E[h]
        BY <2>4, <4>1
      <4>3. h \in 1..m
        BY <2>2
      <4> QED
        BY <4>2, <4>3
    <3>2. CASE ~(x <= E[k])
      <4>1. m \in 1..m /\ E[m - 1] < x /\ x <= E[m]
        BY <2>2, <2>3, <3>2
      <4> QED
        BY <4>1
    <3> QED
      BY <3>1, <3>2
  <2>7. U(m)
    BY <2>3, <2>5, <2>6
  <2> QED
    BY <2>7 DEF m
<1> HIDE DEF S
<1>5. \A k \in Nat : k \in S
  BY <1>3, <1>4, FromNumberToNext
<1>6. \A k \in 0..n : U(k)
  <2>1. n \in Nat
    BY DEF n
  <2> SUFFICES ASSUME NEW k \in 0..n PROVE U(k)
    OBVIOUS
  <2>2. k \in Nat /\ k <= n /\ k \in S
    BY <1>5, <2>1
  <2> QED
    BY <2>2 DEF S
<1>7. \A k \in 0..n : E[k] \in Nat
  BY <1>6
<1>8. \A q, k \in 0..n : q < k => E[q] < E[k]
  <2> SUFFICES ASSUME NEW q \in 0..n, NEW k \in 0..n, q < k PROVE E[q] < E[k]
    OBVIOUS
  <2>1. q \in 0..k
    BY DEF n
  <2> QED
    BY <1>6, <2>1
<1>9. \A x \in 1..Len(toks) : \E k \in 1..n : E[k - 1] < x /\ x <= E[k]
  <2>1. n \in 0..n
    BY DEF n
  <2>2. U(n)
    BY <1>6, <2>1
  <2> QED
    BY <1>1, <2>2
<1> QED
  BY <1>7, <1>8, <1>9 DEF n

(* The ends of its lines are the NEWLINEs.                                 *)
LEMMA LaidEnds ==
  ASSUME Len(toks) \in Nat, NEW p, Len(p) \in Nat, NEW E, Laid(p, E)
  PROVE  /\ \A j \in NewLines(toks) : \E k \in 1..Len(p) : j = E[k]
         /\ \A k \in 1..Len(p) : LineStart(E[k], toks) = E[k - 1] + 1
<1>1. ASSUME NEW j \in NewLines(toks)
      PROVE  \E k \in 1..Len(p) : j = E[k]
  <2>1. j \in 1..Len(toks) /\ toks[j] = "NEWLINE"
    BY DEF NewLines
  <2>2. PICK k \in 1..Len(p) : E[k - 1] < j /\ j <= E[k]
    BY <2>1, LaidUp
  <2> DEFINE a == E[k - 1]
             b == E[k]
  <2>3. a \in Nat /\ b \in Nat /\ Unbroken(a + 1, b, toks)
    BY LaidLine
  <2>4. a < j /\ j <= b
    BY <2>2
  <2> HIDE DEF a, b
  <2>5. ASSUME j # b PROVE FALSE
    <3>1. j \in (a + 1)..(b - 1)
      BY <2>1, <2>3, <2>4, <2>5
    <3> QED
      BY <2>1, <2>3, <3>1 DEF Unbroken
  <2> QED
    BY <2>5 DEF b
<1>2. ASSUME NEW k \in 1..Len(p)
      PROVE  LineStart(E[k], toks) = E[k - 1] + 1
  <2> DEFINE a == E[k - 1]
             b == E[k]
             i == a + 1
  <2>1. /\ a \in Nat /\ b \in NewLines(toks) /\ b \in Nat /\ a < b /\ Unbroken(i, b, toks)
    BY LaidLine
  <2>2. a = 0 \/ a \in NewLines(toks)
    <3>1. CASE k = 1
      BY <3>1 DEF Laid
    <3>2. CASE k # 1
      <4>1. k - 1 \in 1..Len(p)
        BY <3>2
      <4> QED
        BY <4>1, LaidLine
    <3> QED
      BY <3>1, <3>2
  <2> HIDE DEF a, b
  <2>3. i \in Nat /\ 1 <= i /\ i <= b /\ (i = 1 \/ i - 1 \in NewLines(toks))
    BY <2>1, <2>2
  <2> HIDE DEF i
  <2>4. LineStart(b, toks) = i
    BY <2>1, <2>3, LineStartIs
  <2> QED
    BY <2>4 DEF a, b, i
<1> QED
  BY <1>1, <1>2

(* How many lines of a program are definitions.                            *)
LEMMA DefinitionsCome ==
  ASSUME NEW p \in Programs
  PROVE  \E m \in 0..Len(p) : \A k \in 1..Len(p) : p[k].kind = "VariableDefinition" <=> k <= m
<1> DEFINE n == Len(p)
           S == {k \in 1..n : p[k].kind # "VariableDefinition"}
<1>1. n \in Nat /\ \A c, d \in 1..n :
        c < d /\ p[d].kind = "VariableDefinition" => p[c].kind = "VariableDefinition"
  BY ProgramFacts
<1> HIDE DEF n
<1>2. CASE S = {}
  <2>1. n \in 0..n /\ \A k \in 1..n : p[k].kind = "VariableDefinition" /\ k <= n
    BY <1>1, <1>2
  <2> QED
    BY <2>1 DEF n
<1>3. CASE S # {}
  <2>1. PICK q : q \in S
    BY <1>3
  <2>2. S \subseteq Nat
    BY <1>1
  <2>3. PICK j \in S : \A k \in S : j <= k
    BY <2>1, <2>2, SmallestNumber
  <2> DEFINE m == j - 1
  <2>4. m \in 0..n /\ j \in 1..n /\ p[j].kind # "VariableDefinition"
    BY <1>1, <2>3
  <2>5. ASSUME NEW k \in 1..n PROVE p[k].kind = "VariableDefinition" <=> k <= m
    <3>1. ASSUME k <= m PROVE p[k].kind = "VariableDefinition"
      <4>1. ~(j <= k)
        BY <1>1, <2>4, <3>1
      <4> QED
        BY <2>3, <4>1
    <3>2. ASSUME ~(k <= m), p[k].kind = "VariableDefinition" PROVE FALSE
      <4>1. j < k \/ j = k
        BY <1>1, <2>4, <3>2
      <4> QED
        BY <1>1, <2>4, <3>2, <4>1
    <3> QED
      BY <3>1, <3>2
  <2> QED
    BY <2>4, <2>5 DEF n
<1> QED
  BY <1>2, <1>3

(* The tree of each line that the shape of the program asks for.           *)
LineWith(p, E, j, t) == \E k \in 1..Len(p) : E[k] = j /\ LineFits(t, p[k], E[k - 1], E[k])

PlannedTrees(p, E) == [j \in NewLines(toks) |-> CHOOSE t : LineWith(p, E, j, t)]

(* There is one line for each NEWLINE, so the choice is its tree.          *)
LEMMA PlannedFits ==
  ASSUME Len(toks) \in Nat, NEW p, Len(p) \in Nat, NEW E, Laid(p, E), NEW k \in 1..Len(p)
  PROVE  LineFits(PlannedTrees(p, E)[E[k]], p[k], E[k - 1], E[k])
<1> DEFINE j == E[k]
           u == PlannedTrees(p, E)[j]
<1>1. j \in NewLines(toks) /\ \E t : LineFits(t, p[k], E[k - 1], E[k])
  BY LaidLine
<1>2. \E t : LineWith(p, E, j, t)
  BY <1>1 DEF LineWith
<1>3. u = CHOOSE t : LineWith(p, E, j, t)
  BY <1>1 DEF PlannedTrees
<1>4. LineWith(p, E, j, u)
  <2> HIDE DEF u, j
  <2> QED
    BY <1>2, <1>3, Zenon
<1>5. PICK q \in 1..Len(p) : E[q] = E[k] /\ LineFits(u, p[q], E[q - 1], E[q])
  <2> HIDE DEF u
  <2> QED
    BY <1>4 DEF LineWith
<1>6. q = k
  <2>1. q \in 0..Len(p) /\ k \in 0..Len(p) /\ E[k] \in Nat /\ (q < k \/ k < q \/ q = k)
    BY LaidLine
  <2>2. ~(E[q] < E[k]) /\ ~(E[k] < E[q])
    BY <1>5, <2>1
  <2> QED
    BY <2>1, <2>2, LaidUp
<1> QED
  BY <1>5, <1>6

(* What is printed is a sentence of the grammar, with trees that have the  *)
(* shape of the program.                                                   *)
LEMMA PrintedSentence ==
  ASSUME Len(toks) \in Nat, NEW p \in Programs, NEW E, Laid(p, E)
  PROVE  \E last, tree : /\ Sentence(last, tree, toks)
                         /\ \A k \in 1..Len(p) : Mirrors(tree[E[k]], ShapeOfChild(p[k]))
<1> DEFINE n == Len(p)
           tree == PlannedTrees(p, E)
<1>1. n \in Nat /\ E[0] = 0 /\ E[n] = Len(toks)
  BY ProgramFacts DEF Laid
<1>2. \A k \in 1..n : LineFits(tree[E[k]], p[k], E[k - 1], E[k])
  BY <1>1, PlannedFits
<1>3. PICK m \in 0..n : \A k \in 1..n : p[k].kind = "VariableDefinition" <=> k <= m
  BY DefinitionsCome
<1> DEFINE last == E[m]
<1> HIDE DEF tree
<1>4. \A k \in 1..n : E[k] \in NewLines(toks)
  BY LaidLine
<1>5. last \in NewLines(toks) \cup {0}
  <2>1. m = 0 \/ m \in 1..n
    BY <1>1
  <2> QED
    BY <1>1, <1>4, <2>1
<1>6. \A k \in 1..n : E[k] <= last <=> k <= m
  <2> SUFFICES ASSUME NEW k \in 1..n PROVE E[k] <= last <=> k <= m
    OBVIOUS
  <2>1. k \in 0..n /\ m \in 0..n /\ (k < m \/ k = m \/ m < k)
    BY <1>1
  <2>2. E[k] \in Nat /\ E[m] \in Nat
    BY <1>1, <2>1, LaidUp
  <2>3. k < m => E[k] < E[m]
    BY <1>1, <2>1, LaidUp
  <2>4. m < k => E[m] < E[k]
    BY <1>1, <2>1, LaidUp
  <2> QED
    BY <1>1, <2>1, <2>2, <2>3, <2>4
<1> HIDE DEF last
<1>7. toks # <<>> => Len(toks) \in NewLines(toks)
  <2> SUFFICES ASSUME toks # <<>>, n = 0 PROVE FALSE
    <3>1. n # 0 => n \in 1..n
      BY <1>1
    <3> QED
      BY <1>1, <1>4, <3>1
  <2>1. Len(toks) = 0
    BY <1>1
  <2>2. \A x \in 1..Len(toks) : FALSE
    BY <2>1
  <2> QED
    BY <2>1
<1>8. ASSUME NEW j \in NewLines(toks)
      PROVE  tree[j] \in LineTrees(j, last, toks)
  <2>1. PICK k \in 1..n : j = E[k]
    BY <1>1, LaidEnds
  <2>2. LineStart(j, toks) = E[k - 1] + 1
    BY <1>1, <2>1, LaidEnds
  <2>3. LineFits(tree[j], p[k], E[k - 1], j)
    BY <1>2, <2>1
  <2>4. j <= last <=> p[k].kind = "VariableDefinition"
    BY <1>3, <1>6, <2>1
  <2> QED
    BY <2>2, <2>3, <2>4 DEF LineFits, LineTrees
<1>9. Sentence(last, tree, toks)
  BY <1>5, <1>7, <1>8 DEF Sentence
<1>10. \A k \in 1..n : Mirrors(tree[E[k]], ShapeOfChild(p[k]))
  BY <1>2 DEF LineFits
<1> QED
  BY <1>9, <1>10

(* The lines that were read are the lines that were printed.               *)
LEMMA SameEnd ==
  ASSUME NEW ts, NEW i \in Nat, NEW j \in Nat, NEW e \in Nat, i <= j, i <= e,
         ts[j] = "NEWLINE", ts[e] = "NEWLINE", Unbroken(i, j, ts), Unbroken(i, e, ts)
  PROVE  j = e
<1>1. ASSUME j < e PROVE FALSE
  <2>1. j \in i..(e - 1)
    BY <1>1
  <2> QED
    BY <2>1 DEF Unbroken
<1>2. ASSUME e < j PROVE FALSE
  <2>1. e \in i..(j - 1)
    BY <1>2
  <2> QED
    BY <2>1 DEF Unbroken
<1> QED
  BY <1>1, <1>2

LEMMA LinesAreThose ==
  ASSUME Len(toks) \in Nat, NEW p, Len(p) \in Nat, NEW E, Laid(p, E),
         NEW ns, NEW K, LinesRead(K, toks, ns)
  PROVE  Len(K) = Len(p) /\ \A k \in 1..Len(p) : LineEnd(K[k], ns) = E[k]
<1> DEFINE n == Len(p)
           l == Len(K)
           F(k) == ns[K[k]].from
           G(k) == LineEnd(K[k], ns)
           S == {k \in Nat : k + 1 <= n /\ k + 1 <= l => F(k + 1) = E[k] + 1 /\ G(k + 1) = E[k + 1]}
<1>1. E[0] = 0 /\ E[n] = Len(toks) /\ n \in Nat
  BY DEF Laid
<1>2. /\ l \in Nat /\ l >= 1 /\ F(1) = 1 /\ G(l) = Len(toks)
      /\ \A k \in 1..(l - 1) : F(k + 1) = G(k) + 1
  BY DEF LinesRead
<1>3. \A k \in 1..l : /\ G(k) \in NewLines(toks) /\ G(k) \in 1..Len(toks) /\ toks[G(k)] = "NEWLINE"
                      /\ F(k) \in 1..Len(toks) /\ F(k) < G(k) /\ Unbroken(F(k), G(k), toks)
  BY LinesAre DEF NewLines
<1>4. \A k \in 1..n : /\ E[k - 1] \in Nat /\ E[k] \in Nat /\ E[k - 1] < E[k] /\ toks[E[k]] = "NEWLINE"
                      /\ Unbroken(E[k - 1] + 1, E[k], toks)
  BY LaidLine DEF NewLines
<1> HIDE DEF F, G, n, l
<1>5. ASSUME NEW k \in 1..n, k \in 1..l, F(k) = E[k - 1] + 1
      PROVE  G(k) = E[k]
  <2> DEFINE i == E[k - 1] + 1
             j == G(k)
             e == E[k]
  <2>1. /\ i \in Nat /\ j \in Nat /\ e \in Nat /\ i <= j /\ i <= e /\ toks[j] = "NEWLINE"
        /\ toks[e] = "NEWLINE" /\ Unbroken(i, j, toks) /\ Unbroken(i, e, toks)
    BY <1>3, <1>4, <1>5
  <2> HIDE DEF i, j, e
  <2>2. j = e
    BY <2>1, SameEnd
  <2> QED
    BY <2>2 DEF j, e
<1>6. 0 \in S
  <2> SUFFICES ASSUME 0 + 1 <= n, 0 + 1 <= l PROVE F(0 + 1) = E[0] + 1 /\ G(0 + 1) = E[0 + 1]
    OBVIOUS
  <2>1. 0 + 1 = 1 /\ 1 - 1 = 0 /\ 1 \in 1..n /\ 1 \in 1..l
    BY <1>1, <1>2
  <2>2. F(1) = E[1 - 1] + 1
    BY <1>1, <1>2, <2>1
  <2>3. G(1) = E[1]
    BY <1>5, <2>1, <2>2
  <2> QED
    BY <2>1, <2>2, <2>3
<1>7. ASSUME NEW k \in Nat, k \in S PROVE k + 1 \in S
  <2> DEFINE h == k + 1
  <2> SUFFICES ASSUME h + 1 <= n, h + 1 <= l PROVE F(h + 1) = E[h] + 1 /\ G(h + 1) = E[h + 1]
    OBVIOUS
  <2>1. h \in 1..(l - 1) /\ h + 1 \in 1..n /\ h + 1 \in 1..l /\ (h + 1) - 1 = h /\ h <= n /\ h <= l
    BY <1>1, <1>2
  <2>2. G(h) = E[h]
    BY <1>7, <2>1
  <2> HIDE DEF h
  <2>3. F(h + 1) = E[(h + 1) - 1] + 1
    BY <1>2, <2>1, <2>2
  <2>4. G(h + 1) = E[h + 1]
    BY <1>5, <2>1, <2>3
  <2> QED
    BY <2>1, <2>3, <2>4
<1> HIDE DEF S
<1>8. \A k \in Nat : k \in S
  BY <1>6, <1>7, FromNumberToNext
<1>9. \A k \in 1..n : k <= l => G(k) = E[k]
  <2> SUFFICES ASSUME NEW k \in 1..n, k <= l PROVE G(k) = E[k]
    OBVIOUS
  <2>1. k - 1 \in Nat /\ (k - 1) + 1 = k
    BY <1>1
  <2>2. k - 1 \in S
    BY <1>8, <2>1
  <2> QED
    BY <2>1, <2>2 DEF S
<1>10. n >= 1
  <2> SUFFICES ASSUME n = 0 PROVE FALSE
    BY <1>1
  <2>1. Len(toks) = 0
    BY <1>1
  <2>2. 1 \in 1..l
    BY <1>2
  <2>3. F(1) \in 1..Len(toks)
    BY <1>3, <2>2
  <2> QED
    BY <2>1, <2>3
<1>11. l = n
  <2>1. ASSUME l < n PROVE FALSE
    <3>1. l \in 1..n /\ l \in 0..n /\ n \in 0..n
      BY <1>1, <1>2, <2>1
    <3>2. G(l) = E[l]
      BY <1>2, <1>9, <3>1
    <3>3. E[l] < E[n]
      BY <2>1, <3>1, LaidUp DEF n
    <3> QED
      BY <1>1, <1>2, <3>2, <3>3
  <2>2. ASSUME n < l PROVE FALSE
    <3>1. n \in 1..n /\ n \in 1..(l - 1) /\ n + 1 \in 1..l /\ n <= l
      BY <1>1, <1>2, <1>10, <2>2
    <3>2. F(n + 1) = Len(toks) + 1
      BY <1>1, <1>2, <1>9, <3>1
    <3>3. F(n + 1) \in 1..Len(toks)
      BY <1>3, <3>1
    <3> QED
      BY <3>2, <3>3
  <2> QED
    BY <1>1, <1>2, <2>1, <2>2
<1> QED
  BY <1>9, <1>11, <1>1 DEF n, l, G

(* So each node that was read has the shape of the line it was printed for.*)
LEMMA NothingIsPrinted ==
  ASSUME toks = <<>>, NEW p, Len(p) \in Nat, NEW E, Laid(p, E)
  PROVE  Len(p) = 0
<1>1. Len(toks) = 0
  OBVIOUS
<1> SUFFICES ASSUME Len(p) # 0 PROVE FALSE
  OBVIOUS
<1>2. Len(p) \in 1..Len(p) /\ Len(toks) \in Nat
  BY <1>1
<1>3. E[Len(p)] \in 1..Len(toks)
  BY <1>2, LaidLine
<1> QED
  BY <1>1, <1>3

LEMMA LinesMirror ==
  ASSUME Len(toks) \in Nat, NEW p \in Programs, NEW E, Laid(p, E),
         NEW K, LinesRead(K, toks, nodes), NEW C, LinesOf(K, C, nodes),
         \A k \in 1..Len(p) : Mirrors(C.tree[E[k]], ShapeOfChild(p[k]))
  PROVE  /\ Len(K) = Len(p) /\ Len(p) \in Nat /\ DOMAIN K = 1..Len(p)
         /\ \A k \in 1..Len(p) : ShapeOfNode[K[k]] = ShapeOfChild(p[k])
<1>1. Len(p) \in Nat
  BY ProgramFacts
<1>2. Len(K) = Len(p) /\ \A k \in 1..Len(p) : LineEnd(K[k], nodes) = E[k]
  BY <1>1, LinesAreThose
<1>3. HeapKnown(toks, nodes) /\ K \in Seq(Nat) /\ \A k \in 1..Len(K) : K[k] \in 1..Len(nodes)
  BY DEF LinesRead
<1>4. ASSUME NEW k \in 1..Len(p)
      PROVE  ShapeOfNode[K[k]] = ShapeOfChild(p[k])
  <2> DEFINE line == K[k]
             s == ShapeOfChild(p[k])
             t == C.tree[E[k]]
  <2>1. line \in 1..Len(nodes) /\ LineEnd(line, nodes) = E[k] /\ k \in 1..Len(K)
    BY <1>2, <1>3
  <2>2. TreeOf(line, nodes) = t
    BY <2>1 DEF LinesOf
  <2>3. Mirrors(t, s)
    OBVIOUS
  <2> HIDE DEF line, s, t
  <2>4. ShapeOfNode[line] = s
    BY <1>3, <2>1, <2>2, <2>3 DEF Mirrors
  <2> QED
    BY <2>4 DEF line, s
<1>5. DOMAIN K = 1..Len(p)
  BY <1>2, <1>3
<1> QED
  BY <1>1, <1>2, <1>4, <1>5

LEMMA PrintedIsRead ==
  ASSUME IInv, CInv, MInv, BInv, TInv, Done,
         NEW p \in Programs, Printable(p), Printer!ProgramTokens(p) = toks
  PROVE  /\ Accepted
         /\ [k \in DOMAIN nodes[result].kids |-> ShapeOfNode[nodes[result].kids[k]]]
              = [k \in 1..Len(p) |-> ShapeOfChild(p[k])]
<1> DEFINE K == nodes[result].kids
<1>1. toks \in Seq(TokenTypes) /\ Len(toks) \in Nat /\ Len(p) \in Nat
  BY ProgramFacts DEF IInv, TypeOK
<1>2. PICK E : Laid(p, E)
  BY <1>1, ProgramIsLaid
<1>3. PICK last, tree : /\ Sentence(last, tree, toks)
                        /\ \A k \in 1..Len(p) : Mirrors(tree[E[k]], ShapeOfChild(p[k]))
  BY <1>1, <1>2, PrintedSentence
<1> DEFINE C == Choice(last, tree)
<1>4. Followed(C) /\ C.tree = tree
  BY <1>3 DEF TInv, Choice
<1> HIDE DEF C
<1>5. Accepted /\ ~HasHole /\ LinesOf(K, C, nodes)
  BY <1>4 DEF Followed, Accepted, Done
<1>6. DOMAIN K = 1..Len(p) /\ \A k \in 1..Len(p) : ShapeOfNode[K[k]] = ShapeOfChild(p[k])
  <2>1. CASE toks = <<>>
    <3>1. K = <<>> /\ Len(p) = 0
      BY <1>1, <1>2, <1>5, <2>1, AcceptedNothing, NothingIsPrinted
    <3> HIDE DEF K
    <3>2. DOMAIN K = {} /\ 1..Len(p) = {}
      BY <3>1
    <3> QED
      BY <3>2
  <2>2. CASE toks # <<>>
    <3>1. LinesRead(K, toks, nodes)
      BY <1>5, <2>2, AcceptedIsRead
    <3>2. \A k \in 1..Len(p) : Mirrors(C.tree[E[k]], ShapeOfChild(p[k]))
      BY <1>3, <1>4
    <3> HIDE DEF K
    <3> QED
      BY <1>1, <1>2, <1>5, <3>1, <3>2, LinesMirror
  <2> QED
    BY <2>1, <2>2
<1> HIDE DEF K
<1>7. [k \in DOMAIN K |-> ShapeOfNode[K[k]]] = [k \in 1..Len(p) |-> ShapeOfChild(p[k])]
  BY <1>6
<1> QED
  BY <1>5, <1>7 DEF K

(* Whatever programs the printer is given: the parser accepts what is      *)
(* printed for one that can be printed, and reads the program it was       *)
(* printed for, up to the parentheses.                                     *)
THEOREM ParserReadsWhatIsPrinted == Spec => []PrintsWhatItMeans
<1>1. IInv /\ CInv /\ MInv /\ BInv /\ TInv => PrintsWhatItMeans
  <2> SUFFICES ASSUME IInv, CInv, MInv, BInv, TInv, Done, NEW print \in Printed, print.tokens = toks
               PROVE  /\ Accepted
                      /\ [k \in DOMAIN nodes[result].kids |-> ShapeOfNode[nodes[result].kids[k]]]
                           = [k \in 1..Len(print.program) |-> ShapeOfChild(print.program[k])]
    BY DEF PrintsWhatItMeans
  <2>1. PICK p \in Programs : /\ Printable(p)
                              /\ print = [program |-> p, tokens |-> Printer!ProgramTokens(p)]
    BY DEF Printed
  <2>2. print.program = p /\ Printer!ProgramTokens(p) = toks
    BY <2>1
  <2> QED
    BY <2>1, <2>2, PrintedIsRead
<1> QED
  BY <1>1, ParserInvariant, ParserCover, ParserPrecedence, ParserMakesNodes,
     ParserFollowsSentences, PTL
=============================================================================
