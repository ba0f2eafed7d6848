----------------------------- MODULE TreeProofs -----------------------------
(***************************************************************************)
(* The functions that are defined by recursion over an expression satisfy  *)
(* their equations, and what holds of an expression if it holds of its     *)
(* operands holds of all.                                                  *)
(***************************************************************************)
EXTENDS SemanticReference, PrettyPrinter, Integers, SequenceTheorems, WellFoundedInduction, TLAPS

----------------------------------------------------------------------------
(* Induction, for sets: the library's theorems with a predicate for a      *)
(* parameter are out of the provers' reach, the existence of a minimum is  *)
(* not.                                                                    *)

LEMMA LessThanOnNat ==
  \E R : IsWellFoundedOn(R, Nat) /\ \A m, n \in Nat : m < n => <<m, n>> \in R
<1>1. IsWellFoundedOn(OpToRel(<, Nat), Nat)
  BY NatLessThanWellFounded
<1>2. \A m, n \in Nat : m < n => <<m, n>> \in OpToRel(<, Nat)
  BY DEF OpToRel
<1> QED
  BY <1>1, <1>2

LEMMA LeastNatural ==
  ASSUME NEW S, S \subseteq Nat, S # {}
  PROVE  \E n \in S : \A m \in S : n <= m
<1>1. PICK R : IsWellFoundedOn(R, Nat) /\ \A m, n \in Nat : m < n => <<m, n>> \in R
  BY LessThanOnNat
<1>2. IsWellFoundedOn(R, Nat)
  BY <1>1
<1>3. \E n \in S : \A m \in S : ~ (<<m, n>> \in R)
  BY <1>2, WFMin, Zenon
<1>4. PICK n \in S : \A m \in S : ~ (<<m, n>> \in R)
  BY <1>3
<1>5. \A m \in S : ~ (m < n)
  BY <1>1, <1>4
<1>6. \A m \in S : n <= m
  BY <1>5
<1> QED
  BY <1>6

LEMMA NatInductionOnSet ==
  ASSUME NEW S, 0 \in S, \A n \in Nat : n \in S => n + 1 \in S
  PROVE  Nat \subseteq S
<1> SUFFICES ASSUME Nat \ S # {} PROVE FALSE
  OBVIOUS
<1>1. PICK n \in Nat \ S : \A m \in Nat \ S : n <= m
  BY LeastNatural
<1>2. n # 0 /\ n - 1 \in Nat
  BY <1>1
<1>3. n - 1 \in S
  BY <1>1, <1>2
<1>4. (n - 1) + 1 = n
  BY <1>1
<1> QED
  BY <1>1, <1>2, <1>3, <1>4

----------------------------------------------------------------------------
(* Trees.                                                                  *)

LEMMA ExpressionShapes ==
  ASSUME NEW e \in Expressions
  PROVE  /\ e.kind \in {"Literal", "Identifier", "BinaryExpression", "UnaryExpression",
                        "GroupingExpression"}
         /\ e # Null
         /\ e.kind = "Literal" => e.type \in LiteralTypes /\ e.value \in Values
         /\ e.kind = "Identifier" => e.name \in Names
         /\ e.kind = "BinaryExpression" =>
              e.op \in Operators /\ e.lhs \in Expressions /\ e.rhs \in Expressions
         /\ e.kind = "UnaryExpression" => e.rhs \in Expressions
         /\ e.kind = "GroupingExpression" => e.expr \in Expressions \cup {Null}
<1>1. \/ e \in Literals \/ e \in Identifiers
      \/ e \in Binaries(Expressions) \/ e \in Unaries(Expressions)
      \/ e \in Groupings(Expressions)
  BY ASTAssumption
<1>2. Null.kind = "nullptr"
  BY DEF Null
<1>3. CASE e \in Literals
  BY <1>2, <1>3 DEF Literals
<1>4. CASE e \in Identifiers
  BY <1>2, <1>4 DEF Identifiers
<1>5. CASE e \in Binaries(Expressions)
  BY <1>2, <1>5 DEF Binaries
<1>6. CASE e \in Unaries(Expressions)
  BY <1>2, <1>6 DEF Unaries
<1>7. CASE e \in Groupings(Expressions)
  BY <1>2, <1>7 DEF Groupings
<1> QED
  BY <1>1, <1>3, <1>4, <1>5, <1>6, <1>7

LEMMA InnerFacts ==
  ASSUME NEW e \in Expressions
  PROVE  /\ Inner(e) \subseteq Expressions
         /\ Operands(e) \subseteq Expressions \cup {Null}
         /\ e.kind = "BinaryExpression" => e.lhs \in Inner(e) /\ e.rhs \in Inner(e)
         /\ e.kind = "UnaryExpression" => e.rhs \in Inner(e)
         /\ e.kind = "GroupingExpression" /\ e.expr # Null => e.expr \in Inner(e)
BY ExpressionShapes DEF Inner, Operands

(* What holds of an expression if it holds of its operands holds of all.   *)
LEMMA TreeInduction ==
  ASSUME NEW S, \A e \in Expressions : Inner(e) \subseteq S => e \in S
  PROVE  Expressions \subseteq S
<1> DEFINE T == {n \in Nat : \E e \in Expressions : e \notin S /\ Size[e] = n}
<1> SUFFICES ASSUME NEW e \in Expressions, e \notin S PROVE FALSE
  OBVIOUS
<1>1. Size[e] \in T
  BY ExpressionsAreTrees
<1>2. T \subseteq Nat
  OBVIOUS
<1> HIDE DEF T
<1>3. PICK n \in T : \A m \in T : n <= m
  BY <1>1, <1>2, LeastNatural
<1>4. PICK d \in Expressions : d \notin S /\ Size[d] = n
  BY <1>3 DEF T
<1>5. PICK o \in Inner(d) : o \notin S
  BY <1>4
<1>6. o \in Expressions /\ Size[o] \in Nat /\ Size[o] < n
  BY <1>4, <1>5, ExpressionsAreTrees, InnerFacts
<1>7. Size[o] \in T
  BY <1>5, <1>6 DEF T
<1> QED
  BY <1>2, <1>3, <1>6, <1>7

(* A function of functions whose value at an expression depends on its     *)
(* argument at the operands only has a fixed point.                        *)
Local(V, step) ==
  \A f, g \in [Expressions -> V] : \A e \in Expressions :
    (\A o \in Inner(e) : f[o] = g[o]) => step[f][e] = step[g][e]

FixedUpTo(V, step, n) ==
  {f \in [Expressions -> V] : \A e \in Expressions : Size[e] < n => f[e] = step[f][e]}

LEMMA FixedAgree ==
  ASSUME NEW V, NEW step \in [[Expressions -> V] -> [Expressions -> V]], Local(V, step),
         NEW n \in Nat, NEW f \in FixedUpTo(V, step, n),
         NEW m \in Nat, m <= n, NEW g \in FixedUpTo(V, step, m)
  PROVE  \A e \in Expressions : Size[e] < m => f[e] = g[e]
<1> DEFINE S == {e \in Expressions : Size[e] < m => f[e] = g[e]}
<1>1. ASSUME NEW e \in Expressions, Inner(e) \subseteq S
      PROVE  e \in S
  <2> SUFFICES ASSUME Size[e] < m PROVE f[e] = g[e]
    OBVIOUS
  <2>1. Size[e] \in Nat /\ \A o \in Inner(e) : Size[o] \in Nat /\ Size[o] < Size[e]
    BY ExpressionsAreTrees, InnerFacts
  <2>2. \A o \in Inner(e) : f[o] = g[o]
    BY <1>1, <2>1
  <2>3. step[f][e] = step[g][e]
    BY <2>2 DEF Local, FixedUpTo
  <2>4. f[e] = step[f][e] /\ g[e] = step[g][e]
    BY <2>1 DEF FixedUpTo
  <2> QED
    BY <2>3, <2>4
<1> HIDE DEF S
<1>2. Expressions \subseteq S
  BY <1>1, TreeInduction
<1> QED
  BY <1>2 DEF S

LEMMA FixedExist ==
  ASSUME NEW V, V # {}, NEW step \in [[Expressions -> V] -> [Expressions -> V]], Local(V, step)
  PROVE  \A n \in Nat : FixedUpTo(V, step, n) # {}
<1> DEFINE S == {n \in Nat : FixedUpTo(V, step, n) # {}}
<1>1. 0 \in S
  <2>1. PICK v \in V : TRUE
    OBVIOUS
  <2>2. [e \in Expressions |-> v] \in FixedUpTo(V, step, 0)
    BY ExpressionsAreTrees DEF FixedUpTo
  <2> QED
    BY <2>2
<1>2. ASSUME NEW n \in Nat, n \in S
      PROVE  n + 1 \in S
  <2>1. PICK f \in FixedUpTo(V, step, n) : TRUE
    BY <1>2
  <2>2. f \in [Expressions -> V] /\ step[f] \in [Expressions -> V]
    BY DEF FixedUpTo
  <2>3. ASSUME NEW e \in Expressions, Size[e] < n + 1
        PROVE  step[f][e] = step[step[f]][e]
    <3>1. \A o \in Inner(e) : o \in Expressions /\ Size[o] < n
      BY <2>3, ExpressionsAreTrees, InnerFacts
    <3>2. \A o \in Inner(e) : f[o] = step[f][o]
      BY <3>1 DEF FixedUpTo
    <3> QED
      BY <2>2, <3>2 DEF Local
  <2>4. step[f] \in FixedUpTo(V, step, n + 1)
    BY <2>2, <2>3 DEF FixedUpTo
  <2> QED
    BY <2>4
<1> HIDE DEF S
<1>3. Nat \subseteq S
  BY <1>1, <1>2, NatInductionOnSet
<1> QED
  BY <1>3 DEF S

LEMMA TreeRecursion ==
  ASSUME NEW V, V # {}, NEW step \in [[Expressions -> V] -> [Expressions -> V]], Local(V, step)
  PROVE  \E f \in [Expressions -> V] : step[f] = f
<1> DEFINE fix(n) == CHOOSE f \in FixedUpTo(V, step, n) : TRUE
           F == [e \in Expressions |-> fix(Size[e] + 1)[e]]
<1>1. \A n \in Nat : fix(n) \in FixedUpTo(V, step, n) /\ fix(n) \in [Expressions -> V]
  <2> TAKE n \in Nat
  <2>1. FixedUpTo(V, step, n) # {}
    BY FixedExist
  <2>2. fix(n) \in FixedUpTo(V, step, n)
    BY <2>1
  <2> QED
    BY <2>2 DEF FixedUpTo
<1> HIDE DEF fix
<1>2. F \in [Expressions -> V]
  BY <1>1, ExpressionsAreTrees
<1>3. ASSUME NEW e \in Expressions
      PROVE  step[F][e] = F[e]
  <2> DEFINE n == Size[e] + 1
  <2>1. Size[e] \in Nat /\ n \in Nat /\ Size[e] < n /\ n = Size[e] + 1
    BY ExpressionsAreTrees
  <2> HIDE DEF n
  <2>2. fix(n) \in FixedUpTo(V, step, n) /\ fix(n) \in [Expressions -> V]
    BY <1>1, <2>1
  <2>3. ASSUME NEW o \in Inner(e)
        PROVE  F[o] = fix(n)[o]
    <3>1. o \in Expressions /\ Size[o] \in Nat /\ Size[o] < Size[e]
      BY ExpressionsAreTrees, InnerFacts
    <3>2. PICK m \in Nat : m = Size[o] + 1 /\ m <= n /\ Size[o] < m
      BY <2>1, <3>1
    <3>3. fix(m) \in FixedUpTo(V, step, m)
      BY <1>1
    <3>4. \A d \in Expressions : Size[d] < m => fix(n)[d] = fix(m)[d]
      <4> DEFINE f == fix(n)
                 g == fix(m)
      <4>1. f \in FixedUpTo(V, step, n) /\ g \in FixedUpTo(V, step, m) /\ n \in Nat /\ m <= n
        BY <2>1, <2>2, <3>2, <3>3
      <4> HIDE DEF f, g
      <4>2. \A d \in Expressions : Size[d] < m => f[d] = g[d]
        BY ZenonT(60), <4>1, FixedAgree
      <4> QED
        BY <4>2 DEF f, g
    <3>5. F[o] = fix(m)[o]
      BY <3>1, <3>2
    <3> QED
      BY <3>1, <3>2, <3>4, <3>5
  <2>4. step[F][e] = step[fix(n)][e]
    BY <1>2, <2>2, <2>3 DEF Local
  <2>5. fix(n)[e] = step[fix(n)][e]
    BY <2>1, <2>2 DEF FixedUpTo
  <2>6. F[e] = fix(n)[e]
    BY <2>1
  <2> QED
    BY <2>4, <2>5, <2>6
<1>4. step[F] \in [Expressions -> V]
  BY <1>2
<1> HIDE DEF F
<1>5. step[F] = F
  BY <1>2, <1>3, <1>4
<1> QED
  BY <1>2, <1>5

----------------------------------------------------------------------------
(* The recursive functions over expressions, one step unfolded.            *)

LEMMA HollowUnfolds ==
  ASSUME NEW e \in Expressions
  PROVE  /\ e.kind = "GroupingExpression" => (Hollow[e] <=> e.expr = Null \/ Hollow[e.expr])
         /\ e.kind = "BinaryExpression" => (Hollow[e] <=> Hollow[e.lhs] \/ Hollow[e.rhs])
         /\ e.kind = "UnaryExpression" => (Hollow[e] <=> Hollow[e.rhs])
         /\ e.kind \in {"Literal", "Identifier"} => ~Hollow[e]
<1> DEFINE V == BOOLEAN
           Body(f, d) ==
             CASE d.kind = "GroupingExpression" -> IF d.expr = Null THEN TRUE ELSE f[d.expr]
               [] d.kind = "BinaryExpression" -> f[d.lhs] \/ f[d.rhs]
               [] d.kind = "UnaryExpression" -> f[d.rhs]
               [] OTHER -> FALSE
           step == [f \in [Expressions -> V] |-> [d \in Expressions |-> Body(f, d)]]
<1>1. \A f \in [Expressions -> V], d \in Expressions : Body(f, d) \in V
  BY ExpressionShapes
<1>2. \A f, g \in [Expressions -> V] : \A d \in Expressions :
        (\A o \in Inner(d) : f[o] = g[o]) => Body(f, d) = Body(g, d)
  BY ZenonT(60), ExpressionShapes, InnerFacts
<1> HIDE DEF Body
<1>3. step \in [[Expressions -> V] -> [Expressions -> V]]
  BY <1>1
<1>4. Local(V, step)
  BY <1>2 DEF Local
<1>5. \E f \in [Expressions -> V] : step[f] = f
  <2> HIDE DEF step, V
  <2> QED
    BY <1>3, <1>4, TreeRecursion DEF V
<1>6. PICK f \in [Expressions -> V] : f = [d \in Expressions |-> Body(f, d)]
  BY <1>5
<1>7. Hollow = [d \in Expressions |-> Body(Hollow, d)]
  BY <1>6 DEF Hollow, Body
<1>8. Hollow[e] = Body(Hollow, e)
  BY <1>7
<1>9. CASE e.kind = "GroupingExpression"
  <2>1. Hollow[e] = IF e.expr = Null THEN TRUE ELSE Hollow[e.expr]
    BY <1>8, <1>9 DEF Body
  <2> QED
    BY <1>9, <2>1
<1>10. CASE e.kind = "BinaryExpression"
  <2>1. Hollow[e] = (Hollow[e.lhs] \/ Hollow[e.rhs])
    BY <1>8, <1>10 DEF Body
  <2> QED
    BY <1>10, <2>1
<1>11. CASE e.kind = "UnaryExpression"
  <2>1. Hollow[e] = Hollow[e.rhs]
    BY <1>8, <1>11 DEF Body
  <2> QED
    BY <1>11, <2>1
<1>12. CASE e.kind \in {"Literal", "Identifier"}
  <2>1. Hollow[e] = FALSE
    BY <1>8, <1>12 DEF Body
  <2> QED
    BY <1>12, <2>1
<1> QED
  BY <1>9, <1>10, <1>11, <1>12, ExpressionShapes

LEMMA HasIsUnfolds ==
  ASSUME NEW e \in Expressions
  PROVE  /\ e.kind = "GroupingExpression" => (HasIs[e] <=> e.expr # Null /\ HasIs[e.expr])
         /\ e.kind = "BinaryExpression" => (HasIs[e] <=> e.op = "IS" \/ HasIs[e.lhs] \/ HasIs[e.rhs])
         /\ e.kind = "UnaryExpression" => (HasIs[e] <=> HasIs[e.rhs])
         /\ e.kind \in {"Literal", "Identifier"} => ~HasIs[e]
<1> DEFINE V == BOOLEAN
           Body(f, d) ==
             CASE d.kind = "BinaryExpression" -> d.op = "IS" \/ f[d.lhs] \/ f[d.rhs]
               [] d.kind = "UnaryExpression" -> f[d.rhs]
               [] d.kind = "GroupingExpression" -> d.expr # Null /\ f[d.expr]
               [] OTHER -> FALSE
           step == [f \in [Expressions -> V] |-> [d \in Expressions |-> Body(f, d)]]
<1>1. \A f \in [Expressions -> V], d \in Expressions : Body(f, d) \in V
  BY ExpressionShapes
<1>2. \A f, g \in [Expressions -> V] : \A d \in Expressions :
        (\A o \in Inner(d) : f[o] = g[o]) => Body(f, d) = Body(g, d)
  BY ZenonT(60), ExpressionShapes, InnerFacts
<1> HIDE DEF Body
<1>3. step \in [[Expressions -> V] -> [Expressions -> V]]
  BY <1>1
<1>4. Local(V, step)
  BY <1>2 DEF Local
<1>5. \E f \in [Expressions -> V] : step[f] = f
  <2>1. V # {}
    OBVIOUS
  <2> HIDE DEF step, V
  <2> QED
    BY <1>3, <1>4, <2>1, TreeRecursion
<1>6. PICK f \in [Expressions -> V] : f = [d \in Expressions |-> Body(f, d)]
  BY <1>5
<1>7. HasIs = [d \in Expressions |-> Body(HasIs, d)]
  BY <1>6 DEF HasIs, Body
<1>8. HasIs[e] = Body(HasIs, e)
  BY <1>7
<1>9. CASE e.kind = "GroupingExpression"
  <2>1. HasIs[e] = (e.expr # Null /\ HasIs[e.expr])
    BY <1>8, <1>9 DEF Body
  <2> QED
    BY <1>9, <2>1
<1>10. CASE e.kind = "BinaryExpression"
  <2>1. HasIs[e] = (e.op = "IS" \/ HasIs[e.lhs] \/ HasIs[e.rhs])
    BY <1>8, <1>10 DEF Body
  <2> QED
    BY <1>10, <2>1
<1>11. CASE e.kind = "UnaryExpression"
  <2>1. HasIs[e] = HasIs[e.rhs]
    BY <1>8, <1>11 DEF Body
  <2> QED
    BY <1>11, <2>1
<1>12. CASE e.kind \in {"Literal", "Identifier"}
  <2>1. HasIs[e] = FALSE
    BY <1>8, <1>12 DEF Body
  <2> QED
    BY <1>12, <2>1
<1> QED
  BY <1>9, <1>10, <1>11, <1>12, ExpressionShapes

(* What is printed for an expression.                                      *)
PrintedTypes ==
  Operators \cup UnaryOperators \cup Values \cup {"ID", "OPENPAREN", "CLOSEPAREN"}

LEMMA TokensUnfold ==
  ASSUME NEW e \in Expressions
  PROVE  /\ Tokens[e] \in Seq(PrintedTypes)
         /\ e.kind = "Literal" => Tokens[e] = LiteralTokens(e)
         /\ e.kind = "Identifier" => Tokens[e] = <<"ID">>
         /\ e.kind = "BinaryExpression" =>
              Tokens[e] = BinaryTokens(e.op, Tokens[e.lhs], Tokens[e.rhs])
         /\ e.kind = "UnaryExpression" =>
              Tokens[e] = <<"OPENPAREN", e.op>> \o Tokens[e.rhs] \o <<"CLOSEPAREN">>
         /\ e.kind = "GroupingExpression" /\ e.expr # Null => Tokens[e] = Tokens[e.expr]
<1> DEFINE V == Seq(PrintedTypes)
           Body(f, d) ==
             CASE d.kind = "Literal" -> LiteralTokens(d)
               [] d.kind = "Identifier" -> <<"ID">>
               [] d.kind = "BinaryExpression" -> BinaryTokens(d.op, f[d.lhs], f[d.rhs])
               [] d.kind = "UnaryExpression" ->
                    <<"OPENPAREN", d.op>> \o f[d.rhs] \o <<"CLOSEPAREN">>
               [] d.kind = "GroupingExpression" -> IF d.expr = Null THEN <<>> ELSE f[d.expr]
           step == [f \in [Expressions -> V] |-> [d \in Expressions |-> Body(f, d)]]
<1>1. ASSUME NEW f, NEW d \in Expressions, \A o \in Inner(d) : f[o] \in V
      PROVE  Body(f, d) \in V
  <2>1. <<>> \in V
    OBVIOUS
  <2>2. CASE d.kind = "Literal"
    <3>1. d.value \in PrintedTypes
      BY <2>2, ExpressionShapes DEF PrintedTypes
    <3>2. <<d.value>> \in V
      BY <3>1
    <3> QED
      BY <2>1, <2>2, <3>2 DEF LiteralTokens
  <2>3. CASE d.kind = "Identifier"
    BY <2>3 DEF PrintedTypes
  <2>4. CASE d.kind = "BinaryExpression"
    <3>1. d.op \in PrintedTypes
      BY <2>4, ExpressionShapes DEF PrintedTypes
    <3>2. f[d.lhs] \in V /\ f[d.rhs] \in V
      BY <1>1, <2>4, InnerFacts
    <3>3. <<"OPENPAREN">> \in V /\ <<d.op>> \in V /\ <<"CLOSEPAREN">> \in V
      BY <3>1 DEF PrintedTypes
    <3> HIDE DEF V
    <3>4. \A s, t \in V : s \o t \in V
      BY ConcatProperties DEF V
    <3>5. BinaryTokens(d.op, f[d.lhs], f[d.rhs]) \in V
      BY <3>2, <3>3, <3>4 DEF BinaryTokens
    <3> QED
      BY <2>4, <3>5
  <2>5. CASE d.kind = "UnaryExpression"
    <3>1. d.op \in PrintedTypes
      BY <2>5, ASTAssumption
         DEF PrintedTypes, Literals, Identifiers, Binaries, Unaries, Groupings
    <3>2. f[d.rhs] \in V
      BY <1>1, <2>5, InnerFacts
    <3>3. <<"OPENPAREN", d.op>> \in V /\ <<"CLOSEPAREN">> \in V
      BY <3>1 DEF PrintedTypes
    <3> HIDE DEF V
    <3>4. \A s, t \in V : s \o t \in V
      BY ConcatProperties DEF V
    <3>5. <<"OPENPAREN", d.op>> \o f[d.rhs] \o <<"CLOSEPAREN">> \in V
      BY <3>2, <3>3, <3>4
    <3> QED
      BY <2>5, <3>5
  <2>6. CASE d.kind = "GroupingExpression"
    <3>1. d.expr # Null => f[d.expr] \in V
      BY <1>1, <2>6, InnerFacts
    <3> QED
      BY <2>1, <2>6, <3>1
  <2> QED
    BY <2>2, <2>3, <2>4, <2>5, <2>6, ExpressionShapes
<1>2. ASSUME NEW f \in [Expressions -> V], NEW g \in [Expressions -> V], NEW d \in Expressions,
             \A o \in Inner(d) : f[o] = g[o]
      PROVE  Body(f, d) = Body(g, d)
  <2>1. CASE d.kind \in {"Literal", "Identifier"}
    BY <2>1
  <2>2. CASE d.kind = "BinaryExpression"
    <3>1. f[d.lhs] = g[d.lhs] /\ f[d.rhs] = g[d.rhs]
      BY <1>2, <2>2, InnerFacts
    <3> QED
      BY <2>2, <3>1
  <2>3. CASE d.kind = "UnaryExpression"
    <3>1. f[d.rhs] = g[d.rhs]
      BY <1>2, <2>3, InnerFacts
    <3> QED
      BY <2>3, <3>1
  <2>4. CASE d.kind = "GroupingExpression"
    <3>1. d.expr # Null => f[d.expr] = g[d.expr]
      BY <1>2, <2>4, InnerFacts
    <3> QED
      BY <2>4, <3>1
  <2> QED
    BY <2>1, <2>2, <2>3, <2>4, ExpressionShapes
<1> HIDE DEF Body
<1>3. step \in [[Expressions -> V] -> [Expressions -> V]]
  BY <1>1, InnerFacts
<1>4. Local(V, step)
  BY <1>2 DEF Local
<1>5. \E f \in [Expressions -> V] : step[f] = f
  <2>1. <<>> \in V
    OBVIOUS
  <2> HIDE DEF step, V
  <2> QED
    BY <1>3, <1>4, <2>1, TreeRecursion
<1>6. PICK f \in [Expressions -> V] : f = [d \in Expressions |-> Body(f, d)]
  BY <1>5
<1>7. Tokens = [d \in Expressions |-> Body(Tokens, d)]
  BY <1>6 DEF Tokens, Body
<1>8. \A d \in Expressions : Tokens[d] = Body(Tokens, d)
  BY <1>7
<1>9. Tokens[e] \in V
  <2> DEFINE S == {d \in Expressions : Tokens[d] \in V}
  <2>1. ASSUME NEW d \in Expressions, Inner(d) \subseteq S
        PROVE  d \in S
    <3>1. \A o \in Inner(d) : Tokens[o] \in V
      BY <2>1
    <3>2. Body(Tokens, d) \in V
      BY <1>1, <3>1
    <3> QED
      BY <1>8, <3>2
  <2> HIDE DEF S
  <2>2. e \in S
    BY <2>1, TreeInduction
  <2> QED
    BY <2>2 DEF S
<1>10. Tokens[e] = Body(Tokens, e)
  BY <1>8
<1> HIDE DEF V
<1>11. /\ e.kind = "Literal" => Tokens[e] = LiteralTokens(e)
       /\ e.kind = "Identifier" => Tokens[e] = <<"ID">>
       /\ e.kind = "BinaryExpression" =>
            Tokens[e] = BinaryTokens(e.op, Tokens[e.lhs], Tokens[e.rhs])
       /\ e.kind = "UnaryExpression" =>
            Tokens[e] = <<"OPENPAREN", e.op>> \o Tokens[e.rhs] \o <<"CLOSEPAREN">>
       /\ e.kind = "GroupingExpression" /\ e.expr # Null => Tokens[e] = Tokens[e.expr]
  BY <1>10 DEF Body
<1> QED
  BY <1>9, <1>11 DEF V

LEMMA WithinUnfolds ==
  ASSUME NEW e \in Expressions
  PROVE  Within[e] = {e} \cup UNION {IF o = Null THEN {Null} ELSE Within[o] : o \in Operands(e)}
<1> DEFINE V == SUBSET (Expressions \cup {Null})
           Body(f, d) ==
             {d} \cup UNION {IF o = Null THEN {Null} ELSE f[o] : o \in Operands(d)}
           step == [f \in [Expressions -> V] |-> [d \in Expressions |-> Body(f, d)]]
<1>1. ASSUME NEW f \in [Expressions -> V], NEW d \in Expressions
      PROVE  Body(f, d) \in V
  <2>1. \A o \in Operands(d) : (IF o = Null THEN {Null} ELSE f[o]) \in V
    BY InnerFacts
  <2> QED
    BY <2>1
<1>2. ASSUME NEW f \in [Expressions -> V], NEW g \in [Expressions -> V],
             NEW d \in Expressions, \A o \in Inner(d) : f[o] = g[o]
      PROVE  Body(f, d) = Body(g, d)
  <2>1. \A o \in Operands(d) : (IF o = Null THEN {Null} ELSE f[o])
                               = (IF o = Null THEN {Null} ELSE g[o])
    BY <1>2 DEF Inner
  <2> QED
    BY <2>1
<1> HIDE DEF Body
<1>3. step \in [[Expressions -> V] -> [Expressions -> V]]
  BY <1>1
<1>4. Local(V, step)
  BY <1>2 DEF Local
<1>5. \E f \in [Expressions -> V] : step[f] = f
  <2>1. V # {}
    OBVIOUS
  <2> HIDE DEF step, V
  <2> QED
    BY <1>3, <1>4, <2>1, TreeRecursion
<1>6. PICK f \in [Expressions -> V] : f = [d \in Expressions |-> Body(f, d)]
  BY <1>5
<1>7. Within = [d \in Expressions |-> Body(Within, d)]
  BY <1>6 DEF Within, Body
<1> QED
  BY <1>7 DEF Body

(* An expression's parts are all in it, and theirs too.                    *)
LEMMA WithinIsClosed ==
  ASSUME NEW e \in Expressions
  PROVE  /\ e \in Within[e]
         /\ Within[e] \subseteq Expressions \cup {Null}
         /\ \A n \in Within[e] : n # Null => Operands(n) \subseteq Within[e]
<1> DEFINE Closed(d) ==
             /\ Within[d] \subseteq Expressions \cup {Null}
             /\ \A n \in Within[d] : n # Null => Operands(n) \subseteq Within[d]
           S == {d \in Expressions : Closed(d)}
<1>1. ASSUME NEW d \in Expressions
      PROVE  /\ d \in Within[d]
             /\ Operands(d) \subseteq Within[d]
             /\ \A o \in Inner(d) : Within[o] \subseteq Within[d]
             /\ \A n \in Within[d] :
                  n = d \/ n = Null \/ \E o \in Inner(d) : n \in Within[o]
  <2>1. Within[d] = {d} \cup UNION {IF o = Null THEN {Null} ELSE Within[o] : o \in Operands(d)}
    BY WithinUnfolds
  <2>2. \A o \in Inner(d) : o \in Within[o]
    BY InnerFacts, WithinUnfolds
  <2> QED
    BY <2>1, <2>2 DEF Inner
<1>2. ASSUME NEW d \in Expressions, Inner(d) \subseteq S
      PROVE  d \in S
  <2>1. \A o \in Inner(d) : Closed(o)
    BY <1>2
  <2>2. Within[d] \subseteq Expressions \cup {Null}
    BY <1>1, <2>1
  <2>3. ASSUME NEW n \in Within[d], n # Null
        PROVE  Operands(n) \subseteq Within[d]
    <3>1. CASE n = d
      BY <1>1, <3>1
    <3>2. CASE n # d
      <4>1. PICK o \in Inner(d) : n \in Within[o]
        BY <1>1, <2>3, <3>2
      <4>2. Operands(n) \subseteq Within[o] /\ Within[o] \subseteq Within[d]
        BY <1>1, <2>1, <2>3, <4>1
      <4> QED
        BY <4>2
    <3> QED
      BY <3>1, <3>2
  <2> QED
    BY <2>2, <2>3
<1> HIDE DEF S
<1>3. Expressions \subseteq S
  BY <1>2, TreeInduction
<1>4. Closed(e)
  BY <1>3 DEF S
<1> QED
  BY <1>1, <1>4

(* What an expression consists of, by its kind.                            *)
LEMMA WithinByKind ==
  ASSUME NEW e \in Expressions
  PROVE  /\ e.kind \in {"Literal", "Identifier"} => Within[e] = {e}
         /\ e.kind = "BinaryExpression" =>
              Within[e] = {e} \cup Within[e.lhs] \cup Within[e.rhs]
         /\ e.kind = "UnaryExpression" => Within[e] = {e} \cup Within[e.rhs]
         /\ e.kind = "GroupingExpression" =>
              Within[e] = {e} \cup IF e.expr = Null THEN {Null} ELSE Within[e.expr]
<1>1. Within[e] = {e} \cup UNION {IF o = Null THEN {Null} ELSE Within[o] : o \in Operands(e)}
  BY WithinUnfolds
<1>2. \A o \in Expressions : o # Null
  BY ExpressionShapes
<1>3. CASE e.kind \in {"Literal", "Identifier"}
  <2>1. Operands(e) = {}
    BY <1>3 DEF Operands
  <2> QED
    BY <1>1, <1>3, <2>1
<1>4. CASE e.kind = "BinaryExpression"
  <2>1. Operands(e) = {e.lhs, e.rhs} /\ e.lhs # Null /\ e.rhs # Null
    BY <1>2, <1>4, ExpressionShapes DEF Operands
  <2> QED
    BY <1>1, <1>4, <2>1
<1>5. CASE e.kind = "UnaryExpression"
  <2>1. Operands(e) = {e.rhs} /\ e.rhs # Null
    BY <1>2, <1>5, ExpressionShapes DEF Operands
  <2> QED
    BY <1>1, <1>5, <2>1
<1>6. CASE e.kind = "GroupingExpression"
  <2>1. Operands(e) = {e.expr}
    BY <1>6 DEF Operands
  <2> QED
    BY <1>1, <1>6, <2>1
<1> QED
  BY <1>3, <1>4, <1>5, <1>6, ExpressionShapes

(* The traversal meets a null expression if there is one.                  *)
LEMMA HollowMeansNull ==
  ASSUME NEW e \in Expressions
  PROVE  Hollow[e] <=> Null \in Within[e]
<1> DEFINE S == {d \in Expressions : Hollow[d] <=> Null \in Within[d]}
<1>1. ASSUME NEW d \in Expressions, Inner(d) \subseteq S
      PROVE  d \in S
  <2>1. d # Null
    BY ExpressionShapes
  <2>2. \A o \in Inner(d) : Hollow[o] <=> Null \in Within[o]
    BY <1>1
  <2>3. Hollow[d] <=> Null \in Within[d]
    BY <2>1, <2>2, ExpressionShapes, InnerFacts, HollowUnfolds, WithinByKind
  <2> QED
    BY <2>3
<1> HIDE DEF S
<1>2. Expressions \subseteq S
  BY <1>1, TreeInduction
<1> QED
  BY <1>2 DEF S

LEMMA StaticTypeUnfolds ==
  ASSUME NEW p, NEW e \in Expressions
  PROVE  /\ e.kind = "Literal" => StaticType(p)[e] = e.type
         /\ e.kind = "Identifier" => StaticType(p)[e] = TypeDeclared(p, e.name)
         /\ e.kind = "GroupingExpression" => StaticType(p)[e] =
              IF e.expr = Null THEN Unknown ELSE StaticType(p)[e.expr]
         /\ e.kind = "BinaryExpression" => StaticType(p)[e] =
              IF e.op \in Logical /\ StaticType(p)[e.lhs] = "bool" /\ StaticType(p)[e.rhs] = "bool"
              THEN "bool" ELSE Unknown
         /\ e.kind = "UnaryExpression" => StaticType(p)[e] = Unknown
<1> DEFINE V == Types \cup {Unknown} \cup {TypeDeclared(p, name) : name \in Names}
           Body(f, d) ==
             CASE d.kind = "Literal" -> d.type
               [] d.kind = "Identifier" -> TypeDeclared(p, d.name)
               [] d.kind = "GroupingExpression" ->
                    IF d.expr = Null THEN Unknown ELSE f[d.expr]
               [] d.kind = "BinaryExpression" /\ d.op \in Logical
                    /\ {f[d.lhs], f[d.rhs]} = {"bool"} -> "bool"
               [] OTHER -> Unknown
           step == [f \in [Expressions -> V] |-> [d \in Expressions |-> Body(f, d)]]
<1>1. \A f \in [Expressions -> V], d \in Expressions : Body(f, d) \in V
  BY ExpressionShapes DEF LiteralTypes, Types
<1>2. \A f, g \in [Expressions -> V] : \A d \in Expressions :
        (\A o \in Inner(d) : f[o] = g[o]) => Body(f, d) = Body(g, d)
  BY ExpressionShapes, InnerFacts
<1> HIDE DEF Body
<1>3. step \in [[Expressions -> V] -> [Expressions -> V]]
  BY <1>1
<1>4. Local(V, step)
  BY <1>2 DEF Local
<1>5. \E f \in [Expressions -> V] : step[f] = f
  <2>1. V # {}
    OBVIOUS
  <2> HIDE DEF step, V
  <2> QED
    BY <1>3, <1>4, <2>1, TreeRecursion
<1>6. PICK f \in [Expressions -> V] : f = [d \in Expressions |-> Body(f, d)]
  BY <1>5
<1>7. StaticType(p) = [d \in Expressions |-> Body(StaticType(p), d)]
  BY <1>6 DEF StaticType, Body
<1>8. StaticType(p)[e] = Body(StaticType(p), e)
  BY <1>7
<1>9. CASE e.kind = "Literal"
  BY <1>8, <1>9 DEF Body
<1>10. CASE e.kind = "Identifier"
  BY <1>8, <1>10 DEF Body
<1>11. CASE e.kind = "GroupingExpression"
  BY <1>8, <1>11 DEF Body
<1>12. CASE e.kind = "BinaryExpression"
  BY <1>8, <1>12 DEF Body
<1>13. CASE e.kind = "UnaryExpression"
  BY <1>8, <1>13 DEF Body
<1> QED
  BY <1>9, <1>10, <1>11, <1>12, <1>13, ExpressionShapes

----------------------------------------------------------------------------
(* Programs and their declarations.                                        *)

LEMMA ProgramFacts ==
  ASSUME NEW p \in Programs
  PROVE  /\ Len(p) \in Nat
         /\ \A c \in 1..Len(p) :
              /\ p[c] \in Definitions \cup Assignments(Expressions)
              /\ c \in DefinitionsOf(p) \/ c \in AssignmentsOf(p)
         /\ \A c \in DefinitionsOf(p) :
              /\ c \in 1..Len(p) /\ p[c].kind = "VariableDefinition"
              /\ p[c].name \in Names /\ p[c].type \in Names
              /\ p[c].value.type \in LiteralTypes
         /\ \A a \in AssignmentsOf(p) :
              /\ a \in 1..Len(p) /\ p[a].kind = "AssignmentStatement"
              /\ p[a].expr \in Expressions
              /\ p[a].targets \in Seq(Names) /\ Len(p[a].targets) \in Nat
<1>1. p \in Seq(Definitions \cup Assignments(Expressions))
  BY ASTAssumption
<1>2. Len(p) \in Nat /\ \A c \in 1..Len(p) : p[c] \in Definitions \cup Assignments(Expressions)
  BY <1>1
<1>3. ASSUME NEW c \in 1..Len(p)
      PROVE  \/ c \in DefinitionsOf(p) /\ p[c] \in Definitions
             \/ c \in AssignmentsOf(p) /\ p[c] \in Assignments(Expressions)
  BY <1>2 DEF DefinitionsOf, AssignmentsOf, OfKind, Definitions, Assignments
<1>4. ASSUME NEW c \in DefinitionsOf(p)
      PROVE  c \in 1..Len(p) /\ p[c].kind = "VariableDefinition" /\ p[c] \in Definitions
  BY <1>2 DEF DefinitionsOf, OfKind, Definitions, Assignments
<1>5. ASSUME NEW c \in AssignmentsOf(p)
      PROVE  /\ c \in 1..Len(p) /\ p[c].kind = "AssignmentStatement"
             /\ p[c] \in Assignments(Expressions)
  BY <1>2 DEF AssignmentsOf, OfKind, Definitions, Assignments
<1>6. \A d \in Definitions : d.name \in Names /\ d.type \in Names /\ d.value.type \in LiteralTypes
  BY DEF Definitions, Literals
<1>7. \A a \in Assignments(Expressions) :
        a.expr \in Expressions /\ a.targets \in Seq(Names) /\ Len(a.targets) \in Nat
  BY DEF Assignments
<1> QED
  BY <1>2, <1>3, <1>4, <1>5, <1>6, <1>7

(* The first of the definitions that could declare a name declares it.     *)
LEMMA FirstDeclares ==
  ASSUME NEW p \in Programs, NEW d \in DefinitionsOf(p),
         p[d].name \notin Types, p[d].type \in Types
  PROVE  \E c \in Declarations(p) : c <= d /\ p[c].name = p[d].name
<1> DEFINE T == {c \in DefinitionsOf(p) : p[c].name = p[d].name /\ p[c].type \in Types}
<1>1. T \subseteq Nat /\ d \in T
  BY ProgramFacts
<1>2. PICK c \in T : \A e \in T : c <= e
  BY <1>1, LeastNatural
<1>3. Declares(p, c)
  BY <1>1, <1>2 DEF Declares
<1> QED
  BY <1>1, <1>2, <1>3 DEF Declarations

LEMMA DeclaredOnce ==
  ASSUME NEW p \in Programs, NEW c \in Declarations(p), NEW d \in Declarations(p),
         p[c].name = p[d].name
  PROVE  c = d
BY ProgramFacts DEF Declarations, Declares

LEMMA DeclarationFacts ==
  ASSUME NEW p \in Programs
  PROVE  /\ \A c \in Declarations(p) :
              /\ c \in DefinitionsOf(p) /\ p[c].name \in Declared(p)
              /\ p[c].type \in Types /\ TypeDeclared(p, p[c].name) = p[c].type
         /\ \A name \in Declared(p) :
              /\ name \notin Types
              /\ TypeDeclared(p, name) \in Types \ {"<None>", "<Empty>"}
              /\ \E c \in Declarations(p) : p[c].name = name
<1>1. ASSUME NEW c \in Declarations(p)
      PROVE  /\ c \in DefinitionsOf(p) /\ p[c].name \in Declared(p)
             /\ p[c].name \notin Types
             /\ p[c].type \in Types \ {"<None>", "<Empty>"}
             /\ TypeDeclared(p, p[c].name) = p[c].type
  <2>1. c \in DefinitionsOf(p) /\ p[c].name \in Declared(p) /\ Declares(p, c)
    BY DEF Declarations, Declared
  <2>2. p[c].type \in Names
    BY <2>1, ProgramFacts
  <2>3. \A d \in Declarations(p) : p[d].name = p[c].name => d = c
    BY DeclaredOnce
  <2>4. (CHOOSE d \in Declarations(p) : p[d].name = p[c].name) = c
    BY <2>3
  <2> QED
    BY <2>1, <2>2, <2>4 DEF Declares, TypeDeclared, Names
<1>2. \A name \in Declared(p) : \E c \in Declarations(p) : p[c].name = name
  BY DEF Declared
<1> QED
  BY <1>1, <1>2

(* If every definition declares its name, no name is defined twice.        *)
LEMMA AllDeclared ==
  ASSUME NEW p \in Programs, \A d \in DefinitionsOf(p) : Declares(p, d),
         NEW c \in DefinitionsOf(p)
  PROVE  /\ c \in Declarations(p)
         /\ \A d \in DefinitionsOf(p) : d # c => p[d].name # p[c].name
<1>1. \A d \in DefinitionsOf(p) : d \in Declarations(p)
  BY DEF Declarations
<1> QED
  BY <1>1, DeclaredOnce

=============================================================================
