--------------------------- MODULE SemanticProofs ---------------------------
(***************************************************************************)
(* The semantic analysis keeps its types, reports every definition that    *)
(* leaves the type checker without a variable, and reports no mismatch     *)
(* that follows from another error, whatever the program; its verdict is   *)
(* that of the typing rules, and it fails on exactly the programs that it  *)
(* has no answer for.                                                      *)
(***************************************************************************)
EXTENDS SemanticProperties, TreeProofs, SequenceTheorems, TLAPS

Node == Expressions \cup {Null}

(* A binary expression stands behind the activations that visit one.       *)
FrameFine(f) ==
  f.at \in {"binary.lhs", "binary.rhs"} => f.node \in Binaries(Expressions)

StackFine == \A k \in 1..Len(stack) : FrameFine(stack[k])

TypeInv == TypeOK /\ StackFine

----------------------------------------------------------------------------
(* The stack.                                                              *)

LEMMA ReplaceTop ==
  ASSUME NEW S \in Seq(Frames), S # <<>>, NEW f \in Frames
  PROVE  /\ <<f>> \o Tail(S) \in Seq(Frames)
         /\ Len(<<f>> \o Tail(S)) = Len(S)
         /\ (<<f>> \o Tail(S))[1] = f
         /\ \A k \in 2..Len(S) : (<<f>> \o Tail(S))[k] = S[k]
         /\ <<f>> \o Tail(S) # <<>>
<1>1. /\ Tail(S) \in Seq(Frames) /\ Len(Tail(S)) = Len(S) - 1
      /\ \A k \in 1..Len(Tail(S)) : Tail(S)[k] = S[k + 1]
      /\ Len(S) \in Nat /\ Len(S) > 0
  BY HeadTailProperties
<1>2. <<f>> \in Seq(Frames) /\ Len(<<f>>) = 1 /\ <<f>>[1] = f
  OBVIOUS
<1> DEFINE T == <<f>> \o Tail(S)
<1>3. /\ T \in Seq(Frames) /\ Len(T) = Len(<<f>>) + Len(Tail(S))
      /\ \A k \in 1..Len(<<f>>) + Len(Tail(S)) :
           T[k] = IF k <= Len(<<f>>) THEN <<f>>[k] ELSE Tail(S)[k - Len(<<f>>)]
  BY <1>1, <1>2, ConcatProperties
<1> HIDE DEF T
<1>4. Len(T) = Len(S) /\ T[1] = f /\ \A k \in 2..Len(S) : T[k] = S[k]
  BY <1>1, <1>2, <1>3
<1>5. T # <<>>
  BY <1>1, <1>3, <1>4
<1> QED
  BY <1>3, <1>4, <1>5 DEF T

LEMMA PushCallee ==
  ASSUME NEW S \in Seq(Frames), S # <<>>, NEW c \in Frames, NEW f \in Frames
  PROVE  /\ <<c, f>> \o Tail(S) \in Seq(Frames)
         /\ Len(<<c, f>> \o Tail(S)) = Len(S) + 1
         /\ (<<c, f>> \o Tail(S))[1] = c
         /\ (<<c, f>> \o Tail(S))[2] = f
         /\ \A k \in 2..Len(S) : (<<c, f>> \o Tail(S))[k + 1] = S[k]
         /\ <<c, f>> \o Tail(S) # <<>>
<1>1. /\ Tail(S) \in Seq(Frames) /\ Len(Tail(S)) = Len(S) - 1
      /\ \A k \in 1..Len(Tail(S)) : Tail(S)[k] = S[k + 1]
      /\ Len(S) \in Nat /\ Len(S) > 0
  BY HeadTailProperties
<1>2. /\ <<c, f>> \in Seq(Frames) /\ Len(<<c, f>>) = 2
      /\ <<c, f>>[1] = c /\ <<c, f>>[2] = f
  OBVIOUS
<1> DEFINE T == <<c, f>> \o Tail(S)
<1>3. /\ T \in Seq(Frames) /\ Len(T) = Len(<<c, f>>) + Len(Tail(S))
      /\ \A k \in 1..Len(<<c, f>>) + Len(Tail(S)) :
           T[k] = IF k <= Len(<<c, f>>) THEN <<c, f>>[k] ELSE Tail(S)[k - Len(<<c, f>>)]
  BY <1>1, <1>2, ConcatProperties
<1> HIDE DEF T
<1>4. /\ Len(T) = Len(S) + 1 /\ T[1] = c /\ T[2] = f
      /\ \A k \in 2..Len(S) : T[k + 1] = S[k]
  BY <1>1, <1>2, <1>3
<1>5. T # <<>>
  BY <1>1, <1>3, <1>4
<1> QED
  BY <1>3, <1>4, <1>5 DEF T

LEMMA PopTop ==
  ASSUME NEW S \in Seq(Frames), S # <<>>
  PROVE  /\ Tail(S) \in Seq(Frames)
         /\ Len(Tail(S)) = Len(S) - 1
         /\ Len(S) \in Nat /\ Len(S) > 0
         /\ \A k \in 2..Len(S) : Tail(S)[k - 1] = S[k]
         /\ \A k \in 1..Len(Tail(S)) : Tail(S)[k] = S[k + 1]
<1>1. /\ Tail(S) \in Seq(Frames) /\ Len(Tail(S)) = Len(S) - 1
      /\ \A k \in 1..Len(Tail(S)) : Tail(S)[k] = S[k + 1]
      /\ Len(S) \in Nat /\ Len(S) > 0
  BY HeadTailProperties
<1>2. ASSUME NEW k \in 2..Len(S)
      PROVE  Tail(S)[k - 1] = S[k]
  BY <1>1, <1>2
<1> QED
  BY <1>1, <1>2

LEMMA TopFacts ==
  ASSUME TypeInv, stack # <<>>
  PROVE  /\ Top = stack[1] /\ Top \in Frames /\ FrameFine(Top)
         /\ stack \in Seq(Frames) /\ Len(stack) \in Nat /\ Len(stack) > 0
<1>1. stack \in Seq(Frames) /\ Len(stack) \in Nat /\ Len(stack) > 0
  BY DEF TypeInv, TypeOK
<1>2. Top = stack[1] /\ Top \in Frames
  BY <1>1 DEF Top
<1> QED
  BY <1>1, <1>2 DEF TypeInv, StackFine

(* What a step of the type checker leaves on the stack is well formed: a   *)
(* caller waiting for its callee, another expression, or what was below.   *)
LEMMA CallFine ==
  ASSUME TypeInv, stack # <<>>, NEW f \in Frames, FrameFine(f), NEW e \in Node,
         Call(f, e)
  PROVE  stack' \in Seq(Frames) /\ StackFine'
<1> DEFINE c == Visit(e)
<1>1. c \in Frames /\ FrameFine(c)
  BY DEF Visit, Frame, Frames, FrameFine, Node, Optionals, Nothing
<1>2. stack' = <<c, f>> \o Tail(stack)
  BY DEF Call
<1> HIDE DEF c
<1>3. /\ stack' \in Seq(Frames) /\ Len(stack') = Len(stack) + 1
      /\ stack'[1] = c /\ stack'[2] = f
      /\ \A k \in 2..Len(stack) : stack'[k + 1] = stack[k]
      /\ Len(stack) \in Nat /\ Len(stack) > 0
  BY <1>1, <1>2, TopFacts, PushCallee
<1>4. ASSUME NEW k \in 1..Len(stack')
      PROVE  FrameFine(stack'[k])
  <2>1. CASE k = 1
    BY <1>1, <1>3, <2>1
  <2>2. CASE k = 2
    BY <1>3, <2>2
  <2>3. CASE k > 2
    <3>1. k - 1 \in 2..Len(stack) /\ stack'[(k - 1) + 1] = stack[k - 1] /\ (k - 1) + 1 = k
      BY <1>3, <1>4, <2>3
    <3>2. FrameFine(stack[k - 1])
      BY <1>3, <3>1 DEF TypeInv, StackFine
    <3> QED
      BY <3>1, <3>2
  <2> QED
    BY <1>3, <1>4, <2>1, <2>2, <2>3
<1> QED
  BY <1>3, <1>4 DEF StackFine, FrameFine

LEMMA VisitFine ==
  ASSUME TypeInv, stack # <<>>, NEW e \in Node,
         stack' = <<Visit(e)>> \o Tail(stack)
  PROVE  stack' \in Seq(Frames) /\ StackFine'
<1> DEFINE c == Visit(e)
<1>1. c \in Frames /\ FrameFine(c)
  BY DEF Visit, Frame, Frames, FrameFine, Node, Optionals, Nothing
<1> HIDE DEF c
<1>2. /\ stack' \in Seq(Frames) /\ Len(stack') = Len(stack)
      /\ stack'[1] = c /\ \A k \in 2..Len(stack) : stack'[k] = stack[k]
      /\ Len(stack) \in Nat
  BY <1>1, TopFacts, ReplaceTop DEF c
<1>3. ASSUME NEW k \in 1..Len(stack')
      PROVE  FrameFine(stack'[k])
  <2>1. CASE k = 1
    BY <1>1, <1>2, <2>1
  <2>2. CASE k > 1
    <3>1. stack'[k] = stack[k] /\ k \in 1..Len(stack)
      BY <1>2, <1>3, <2>2
    <3> QED
      BY <3>1 DEF TypeInv, StackFine
  <2> QED
    BY <1>2, <1>3, <2>1, <2>2
<1> QED
  BY <1>2, <1>3 DEF StackFine, FrameFine

LEMMA ReturnFine ==
  ASSUME TypeInv, stack # <<>>, NEW v, Return(v)
  PROVE  stack' \in Seq(Frames) /\ StackFine'
<1>1. /\ stack' \in Seq(Frames) /\ Len(stack') = Len(stack) - 1
      /\ \A k \in 1..Len(stack') : stack'[k] = stack[k + 1]
      /\ Len(stack) \in Nat
  BY TopFacts, PopTop DEF Return
<1>2. ASSUME NEW k \in 1..Len(stack')
      PROVE  FrameFine(stack'[k])
  <2>1. stack'[k] = stack[k + 1] /\ k + 1 \in 1..Len(stack)
    BY <1>1, <1>2
  <2> QED
    BY <2>1 DEF TypeInv, StackFine
<1> QED
  BY <1>1, <1>2 DEF StackFine, FrameFine

----------------------------------------------------------------------------
(* Types.                                                                  *)

LEMMA BasicFacts ==
  ASSUME TypeOK
  PROVE  /\ program \in Seq(Definitions \cup Assignments(Expressions))
         /\ Len(program) \in Nat /\ child \in Nat
         /\ diags \in Seq(Diagnostics) /\ Len(diags) \in Nat
BY ASTAssumption DEF TypeOK

LEMMA ChildFacts ==
  ASSUME TypeOK, NEW visitor, NEW kind, Visits(visitor, kind)
  PROVE  /\ phase = visitor /\ child \in 1..Len(program) /\ Child.kind = kind
         /\ kind = "VariableDefinition" => Child \in Definitions
         /\ kind = "AssignmentStatement" => Child \in Assignments(Expressions)
         /\ child + 1 \in 1..(Len(program) + 1)
<1>1. phase = visitor /\ child \in 1..Len(program) /\ Child.kind = kind
  BY DEF Visits
<1>2. Child \in Definitions \cup Assignments(Expressions)
  BY <1>1, BasicFacts DEF Child
<1>3. /\ kind = "VariableDefinition" => Child \in Definitions
      /\ kind = "AssignmentStatement" => Child \in Assignments(Expressions)
  BY <1>1, <1>2 DEF Definitions, Assignments
<1> QED
  BY <1>1, <1>3, BasicFacts

LEMMA NodeShapes ==
  ASSUME NEW e \in Node
  PROVE  /\ e.kind = "Literal" => e.type \in LiteralTypes
         /\ e.kind = "Identifier" => e.name \in Texts
         /\ e.kind = "BinaryExpression" => e \in Binaries(Expressions)
         /\ e.kind = "UnaryExpression" => e.rhs \in Node
         /\ e.kind = "GroupingExpression" => e.expr \in Node
<1>1. CASE e \in Expressions
  <2>1. \/ e \in Literals \/ e \in Identifiers
        \/ e \in Binaries(Expressions) \/ e \in Unaries(Expressions)
        \/ e \in Groupings(Expressions)
    BY <1>1, ASTAssumption
  <2> QED
    BY <2>1 DEF Names, Literals, Identifiers, Binaries, Unaries, Groupings, Node
<1>2. CASE e = Null
  BY <1>2 DEF Null
<1> QED
  BY <1>1, <1>2 DEF Node

LEMMA BinaryShape ==
  ASSUME NEW e \in Binaries(Expressions)
  PROVE  e.lhs \in Node /\ e.rhs \in Node /\ e.op \in Operators
BY DEF Binaries, Node

LEMMA TopNode ==
  ASSUME TypeInv, stack # <<>>
  PROVE  Top.node \in Node /\ Top.lhs \in Optionals
BY TopFacts DEF Frames, Node

LEMMA ReportFine ==
  ASSUME TypeOK, NEW id \in DiagIDs, NEW place \in {"definition", "expression", "target"},
         Report(id, place)
  PROVE  diags' \in Seq(Diagnostics)
<1>1. [id |-> id, child |-> child, place |-> place] \in Diagnostics
  BY BasicFacts DEF Diagnostics
<1> QED
  BY <1>1, BasicFacts DEF Report

LEMMA TypesOfFine ==
  ASSUME TypeOK, NEW name
  PROVE  TypesOf(name) \subseteq Types
BY DEF TypeOK, TypesOf, IsVariable, Has, Entries

LEMMA AddEntryFine ==
  ASSUME TypeOK, NEW name \in Texts, NEW entry \in Entries, AddEntry(name, entry)
  PROVE  /\ Types \subseteq DOMAIN table' /\ DOMAIN table' \subseteq Texts
         /\ \A text \in DOMAIN table' : table'[text] \in Entries
         /\ \A type \in Types : table'[type] = Builtins[type]
         /\ \A text \in DOMAIN table :
              text \in DOMAIN table' /\ table'[text] = table[text]
         /\ ~Has(name) => name \in DOMAIN table' /\ table'[name] = entry
<1>1. /\ DOMAIN table' = DOMAIN table \cup {name}
      /\ \A text \in DOMAIN table' :
           table'[text] = IF Has(text) THEN table[text] ELSE entry
  BY DEF AddEntry
<1>2. /\ Types \subseteq DOMAIN table /\ DOMAIN table \subseteq Texts
      /\ \A text \in DOMAIN table : table[text] \in Entries
      /\ \A type \in Types : table[type] = Builtins[type]
  BY DEF TypeOK
<1> QED
  BY <1>1, <1>2 DEF Has

(* TypeInv is kept by a step that keeps the types of what it changes.      *)
LEMMA TypesKept ==
  ASSUME TypeInv, program' = program, table' = table,
         phase' \in {"build", "check", "accepted", "rejected", "crashed"},
         child' \in 1..(Len(program) + 1), target' \in Nat,
         stack' \in Seq(Frames), StackFine',
         result' \in Optionals \cup {EmptyAny},
         diags' = diags \/ diags' \in Seq(Diagnostics),
         undefined' \in BOOLEAN
  PROVE  TypeInv'
<1>1. TypeOK
  BY DEF TypeInv
<1>2. diags' \in Seq(Diagnostics)
  BY <1>1 DEF TypeOK
<1>3. /\ program' \in Programs
      /\ Types \subseteq DOMAIN table' /\ DOMAIN table' \subseteq Texts
      /\ \A text \in DOMAIN table' : table'[text] \in Entries
      /\ \A type \in Types : table'[type] = Builtins[type]
  BY <1>1 DEF TypeOK
<1> QED
  BY <1>2, <1>3 DEF TypeInv, TypeOK

(* The part of the state that TypesKept asks about, when it is unchanged.  *)
LEMMA Unchanged ==
  ASSUME TypeInv
  PROVE  /\ TypeOK
         /\ phase' = phase =>
              phase' \in {"build", "check", "accepted", "rejected", "crashed"}
         /\ program' = program /\ child' = child => child' \in 1..(Len(program) + 1)
         /\ target' = target => target' \in Nat
         /\ stack' = stack => stack' \in Seq(Frames) /\ StackFine'
         /\ result' = result => result' \in Optionals \cup {EmptyAny}
         /\ undefined' = undefined => undefined' \in BOOLEAN
<1>1. TypeOK
  BY DEF TypeInv
<1>2. stack' = stack => StackFine'
  BY DEF TypeInv, StackFine, FrameFine
<1> QED
  BY <1>1, <1>2 DEF TypeOK

(* A step within the table, the builder and the ends of the phases.        *)
LEMMA BuilderTypes ==
  ASSUME TypeInv,
         Redefinition \/ UndefinedType \/ Declare \/ Traverse \/ TraverseNull \/ EndOfBuild
  PROVE  TypeInv'
<1>1. CASE Redefinition
  <2>1. child' \in 1..(Len(program) + 1) /\ diags' \in Seq(Diagnostics)
    BY <1>1, Unchanged, ChildFacts, ReportFine DEF Redefinition, DiagIDs
  <2> QED
    BY <1>1, <2>1, Unchanged, TypesKept DEF Redefinition
<1>2. CASE UndefinedType
  <2>1. child' \in 1..(Len(program) + 1) /\ diags' \in Seq(Diagnostics)
    BY <1>2, Unchanged, ChildFacts, ReportFine DEF UndefinedType, DiagIDs
  <2> QED
    BY <1>2, <2>1, Unchanged, TypesKept DEF UndefinedType
<1>3. CASE Declare
  <2> DEFINE entry == [kind |-> "Variable", type |-> table[Child.type].type]
  <2>1. /\ child' \in 1..(Len(program) + 1) /\ Child \in Definitions
        /\ Has(Child.type) /\ TypeOK
    BY <1>3, Unchanged, ChildFacts DEF Declare, IsType
  <2>2. Child.name \in Texts /\ entry \in Entries
    BY <2>1 DEF Names, Definitions, Has, TypeOK, Entries
  <2>3. AddEntry(Child.name, entry)
    BY <1>3 DEF Declare
  <2> HIDE DEF entry
  <2>4. /\ Types \subseteq DOMAIN table' /\ DOMAIN table' \subseteq Texts
        /\ \A text \in DOMAIN table' : table'[text] \in Entries
        /\ \A type \in Types : table'[type] = Builtins[type]
    BY <2>1, <2>2, <2>3, AddEntryFine
  <2>5. UNCHANGED <<program, phase, target, stack, result, diags, undefined>>
    BY <1>3 DEF Declare
  <2>6. StackFine'
    BY <2>5, Unchanged
  <2> QED
    BY <2>1, <2>4, <2>5, <2>6 DEF TypeInv, TypeOK
<1>4. CASE Traverse
  <2>1. child' \in 1..(Len(program) + 1)
    BY <1>4, Unchanged, ChildFacts DEF Traverse
  <2> QED
    BY <1>4, <2>1, Unchanged, TypesKept DEF Traverse
<1>5. CASE TraverseNull
  BY <1>5, Unchanged, TypesKept DEF TraverseNull
<1>6. CASE EndOfBuild
  <2>1. child' \in 1..(Len(program) + 1)
    BY <1>6, Unchanged, BasicFacts DEF EndOfBuild
  <2> QED
    BY <1>6, <2>1, Unchanged, TypesKept DEF EndOfBuild
<1> QED
  BY <1>1, <1>2, <1>3, <1>4, <1>5, <1>6

LEMMA StatementTypes ==
  ASSUME TypeInv,
         CheckDefinition \/ CheckAssignment \/ CheckTarget \/ CheckUndefinedTarget
           \/ EndAssignment
  PROVE  TypeInv'
<1>1. CASE CheckDefinition
  <2>1. child' \in 1..(Len(program) + 1)
    BY <1>1, Unchanged, ChildFacts DEF CheckDefinition
  <2>2. diags' = diags \/ diags' \in Seq(Diagnostics)
    BY <1>1, Unchanged, ReportFine DEF CheckDefinition, DiagIDs
  <2>3. undefined' \in BOOLEAN
    BY <1>1 DEF CheckDefinition
  <2> QED
    BY <1>1, <2>1, <2>2, <2>3, Unchanged, TypesKept DEF CheckDefinition
<1>2. CASE CheckAssignment
  <2> DEFINE c == Visit(Child.expr)
  <2>1. Child.expr \in Node
    BY <1>2, Unchanged, ChildFacts DEF CheckAssignment, Assignments, Node
  <2>2. c \in Frames /\ FrameFine(c)
    BY <2>1 DEF Visit, Frame, Frames, FrameFine, Node, Optionals, Nothing
  <2>3. stack' = <<c>> /\ target' = 1
    BY <1>2 DEF CheckAssignment
  <2> HIDE DEF c
  <2>4. stack' \in Seq(Frames) /\ Len(stack') = 1 /\ stack'[1] = c
    BY <2>2, <2>3
  <2>5. StackFine'
    BY <2>2, <2>4 DEF StackFine, FrameFine
  <2> QED
    BY <1>2, <2>3, <2>4, <2>5, Unchanged, TypesKept DEF CheckAssignment
<1>3. CASE CheckTarget
  <2>1. diags' = diags \/ diags' \in Seq(Diagnostics)
    BY <1>3, Unchanged, ReportFine DEF CheckTarget, DiagIDs
  <2>2. undefined' \in BOOLEAN /\ target' \in Nat
    BY <1>3, Unchanged DEF CheckTarget, TypeOK
  <2> QED
    BY <1>3, <2>1, <2>2, Unchanged, TypesKept DEF CheckTarget
<1>4. CASE CheckUndefinedTarget
  <2>1. diags' \in Seq(Diagnostics)
    BY <1>4, Unchanged, ReportFine DEF CheckUndefinedTarget, DiagIDs
  <2>2. target' \in Nat
    BY <1>4, Unchanged DEF CheckUndefinedTarget, TypeOK
  <2> QED
    BY <1>4, <2>1, <2>2, Unchanged, TypesKept DEF CheckUndefinedTarget
<1>5. CASE EndAssignment
  <2>1. child' \in 1..(Len(program) + 1)
    BY <1>5, Unchanged, ChildFacts DEF EndAssignment
  <2> QED
    BY <1>5, <2>1, Unchanged, TypesKept DEF EndAssignment
<1> QED
  BY <1>1, <1>2, <1>3, <1>4, <1>5

LEMMA NameTypes ==
  ASSUME TypeInv, VisitLiteral \/ VisitName \/ VisitUndefinedName
  PROVE  TypeInv'
<1>1. CASE VisitLiteral
  <2>1. Top.node.type \in Types /\ stack # <<>>
    BY <1>1, TopNode, NodeShapes DEF VisitLiteral, Enters, Working, LiteralTypes, Types
  <2>2. stack' \in Seq(Frames) /\ StackFine'
    BY <1>1, <2>1, ReturnFine DEF VisitLiteral
  <2>3. result' \in Optionals
    BY <1>1, <2>1 DEF VisitLiteral, Return, Optionals
  <2> QED
    BY <1>1, <2>2, <2>3, Unchanged, TypesKept DEF VisitLiteral
<1>2. CASE VisitName
  <2>1. PICK type \in TypesOf(Top.node.name) : Return(type)
    BY <1>2 DEF VisitName
  <2>2. type \in Types /\ stack # <<>>
    BY <1>2, Unchanged, TypesOfFine DEF VisitName, Enters, Working
  <2>3. stack' \in Seq(Frames) /\ StackFine'
    BY <2>1, <2>2, ReturnFine
  <2>4. result' \in Optionals
    BY <2>1, <2>2 DEF Return, Optionals
  <2>5. undefined' \in BOOLEAN
    BY <1>2 DEF VisitName
  <2> QED
    BY <1>2, <2>3, <2>4, <2>5, Unchanged, TypesKept DEF VisitName
<1>3. CASE VisitUndefinedName
  <2>1. stack # <<>>
    BY <1>3 DEF VisitUndefinedName, Enters, Working
  <2>2. stack' \in Seq(Frames) /\ StackFine'
    BY <1>3, <2>1, ReturnFine DEF VisitUndefinedName
  <2>3. result' \in Optionals
    BY <1>3 DEF VisitUndefinedName, Return, Optionals
  <2>4. diags' \in Seq(Diagnostics)
    BY <1>3, Unchanged, ReportFine DEF VisitUndefinedName, DiagIDs
  <2> QED
    BY <1>3, <2>2, <2>3, <2>4, Unchanged, TypesKept DEF VisitUndefinedName
<1> QED
  BY <1>1, <1>2, <1>3

LEMMA OperatorTypes ==
  ASSUME TypeInv,
         VisitGrouping \/ VisitUnary \/ EndUnary \/ VisitBinary \/ VisitRHS \/ EndBinary
  PROVE  TypeInv'
<1>1. CASE VisitGrouping
  <2>1. Top.node.expr \in Node /\ stack # <<>>
    BY <1>1, TopNode, NodeShapes DEF VisitGrouping, Enters, Working
  <2>2. stack' \in Seq(Frames) /\ StackFine'
    BY <1>1, <2>1, VisitFine DEF VisitGrouping
  <2> QED
    BY <1>1, <2>2, Unchanged, TypesKept DEF VisitGrouping
<1>2. CASE VisitUnary
  <2> DEFINE f == Frame("unary", Top.node, Nothing)
  <2>1. Top.node \in Node /\ Top.node.rhs \in Node /\ stack # <<>>
    BY <1>2, TopNode, NodeShapes DEF VisitUnary, Enters, Working
  <2>2. f \in Frames /\ FrameFine(f)
    BY <2>1 DEF Frame, Frames, FrameFine, Node, Optionals, Nothing
  <2>3. Call(f, Top.node.rhs)
    BY <1>2 DEF VisitUnary
  <2> HIDE DEF f
  <2>4. stack' \in Seq(Frames) /\ StackFine'
    BY <2>1, <2>2, <2>3, CallFine
  <2> QED
    BY <1>2, <2>4, Unchanged, TypesKept DEF VisitUnary
<1>3. CASE EndUnary
  <2>1. stack # <<>>
    BY <1>3 DEF EndUnary, Resumes, Working
  <2>2. stack' \in Seq(Frames) /\ StackFine'
    BY <1>3, <2>1, ReturnFine DEF EndUnary
  <2>3. result' = EmptyAny
    BY <1>3 DEF EndUnary, Return
  <2> QED
    BY <1>3, <2>2, <2>3, Unchanged, TypesKept DEF EndUnary
<1>4. CASE VisitBinary
  <2> DEFINE f == Frame("binary.lhs", Top.node, Nothing)
  <2>1. Top.node \in Node /\ Top.node \in Binaries(Expressions) /\ stack # <<>>
    BY <1>4, TopNode, NodeShapes DEF VisitBinary, Enters, Working
  <2>2. f \in Frames /\ FrameFine(f)
    BY <2>1 DEF Frame, Frames, FrameFine, Node, Optionals, Nothing
  <2>3. Call(f, Top.node.lhs) /\ Top.node.lhs \in Node
    BY <1>4, <2>1, BinaryShape DEF VisitBinary
  <2> HIDE DEF f
  <2>4. stack' \in Seq(Frames) /\ StackFine'
    BY <2>1, <2>2, <2>3, CallFine
  <2> QED
    BY <1>4, <2>4, Unchanged, TypesKept DEF VisitBinary
<1>5. CASE VisitRHS
  <2> DEFINE f == Frame("binary.rhs", Top.node, result)
  <2>1. stack # <<>> /\ Top.at = "binary.lhs" /\ result \in Optionals
    BY <1>5, Unchanged DEF VisitRHS, Resumes, Working, TypeOK
  <2>2. Top.node \in Node /\ Top.node \in Binaries(Expressions)
    BY <2>1, TopNode, TopFacts DEF FrameFine
  <2>3. f \in Frames /\ FrameFine(f)
    BY <2>1, <2>2 DEF Frame, Frames, FrameFine, Node
  <2>4. Call(f, Top.node.rhs) /\ Top.node.rhs \in Node
    BY <1>5, <2>2, BinaryShape DEF VisitRHS
  <2> HIDE DEF f
  <2>5. stack' \in Seq(Frames) /\ StackFine'
    BY <2>1, <2>3, <2>4, CallFine
  <2> QED
    BY <1>5, <2>5, Unchanged, TypesKept DEF VisitRHS
<1>6. CASE EndBinary
  <2>1. stack # <<>>
    BY <1>6 DEF EndBinary, Resumes, Working
  <2>2. stack' \in Seq(Frames) /\ StackFine'
    BY <1>6, <2>1, ReturnFine DEF EndBinary
  <2>3. result' \in Optionals
    BY <1>6 DEF EndBinary, Return, BinaryType, Optionals, Types
  <2>4. diags' = diags \/ diags' \in Seq(Diagnostics)
    BY <1>6, Unchanged, ReportFine DEF EndBinary, DiagIDs
  <2> QED
    BY <1>6, <2>2, <2>3, <2>4, Unchanged, TypesKept DEF EndBinary
<1> QED
  BY <1>1, <1>2, <1>3, <1>4, <1>5, <1>6

LEMMA EndTypes ==
  ASSUME TypeInv, BadAnyCast \/ EndOfCheck \/ Crash \/ UNCHANGED vars
  PROVE  TypeInv'
<1>1. CASE BadAnyCast
  BY <1>1, Unchanged, TypesKept DEF BadAnyCast
<1>2. CASE EndOfCheck
  BY <1>2, Unchanged, TypesKept DEF EndOfCheck
<1>3. CASE Crash
  BY <1>3, Unchanged, TypesKept DEF Crash
<1>4. CASE UNCHANGED vars
  BY <1>4, Unchanged, TypesKept DEF vars
<1> QED
  BY <1>1, <1>2, <1>3, <1>4

LEMMA InitTypes ==
  ASSUME Init
  PROVE  TypeInv
<1>1. program \in Programs /\ Len(program) \in Nat
  BY ASTAssumption DEF Init
<1>2. Builtins \in [Types -> Entries] /\ Types \subseteq Texts
  BY ASTAssumption DEF Builtins, Entries
<1>3. stack = <<>> /\ diags = <<>>
  BY DEF Init
<1>4. stack \in Seq(Frames) /\ StackFine /\ diags \in Seq(Diagnostics)
  BY <1>3 DEF StackFine
<1>5. /\ Types \subseteq DOMAIN table /\ DOMAIN table \subseteq Texts
      /\ \A text \in DOMAIN table : table[text] \in Entries
      /\ \A type \in Types : table[type] = Builtins[type]
  BY <1>2 DEF Init
<1>6. /\ phase \in {"build", "check", "accepted", "rejected", "crashed"}
      /\ child \in 1..(Len(program) + 1) /\ target \in Nat
      /\ result \in Optionals \cup {EmptyAny}
  BY <1>1 DEF Init
<1>7. undefined \in BOOLEAN
  BY Zenon DEF Init
<1> QED
  BY <1>1, <1>4, <1>5, <1>6, <1>7 DEF TypeInv, TypeOK

LEMMA NextTypes ==
  ASSUME TypeInv, [Next]_vars
  PROVE  TypeInv'
BY BuilderTypes, StatementTypes, NameTypes, OperatorTypes, EndTypes DEF Next, Terminating

(* The variables keep their types, and a binary expression stands behind   *)
(* every activation that waits for an operand.                             *)
THEOREM SemanticTypeInvariant == Spec => []TypeInv
<1>1. Init => TypeInv
  BY InitTypes
<1>2. TypeInv /\ [Next]_vars => TypeInv'
  BY NextTypes
<1> QED
  BY <1>1, <1>2, PTL DEF Spec

(* The variables of the semantic analysis keep their types.                *)
THEOREM SemanticTypeOK == Spec => []TypeOK
<1>1. TypeInv => TypeOK
  BY DEF TypeInv
<1> QED
  BY <1>1, SemanticTypeInvariant, PTL

----------------------------------------------------------------------------
(* The diagnostics of the builder.                                         *)

LEMMA ReportFacts ==
  ASSUME TypeOK, NEW id \in DiagIDs, NEW place \in {"definition", "expression", "target"},
         Report(id, place)
  PROVE  /\ diags' \in Seq(Diagnostics) /\ Len(diags') = Len(diags) + 1
         /\ Len(diags) \in Nat
         /\ \A i \in 1..Len(diags) : diags'[i] = diags[i]
         /\ diags'[Len(diags) + 1] = [id |-> id, child |-> child, place |-> place]
<1> DEFINE d == [id |-> id, child |-> child, place |-> place]
<1>1. d \in Diagnostics
  BY BasicFacts DEF Diagnostics
<1>2. diags' = Append(diags, d) /\ diags \in Seq(Diagnostics)
  BY BasicFacts DEF Report
<1> HIDE DEF d
<1>3. /\ diags' \in Seq(Diagnostics) /\ Len(diags') = Len(diags) + 1
      /\ Len(diags) \in Nat
      /\ \A i \in 1..Len(diags) : diags'[i] = diags[i]
      /\ diags'[Len(diags) + 1] = d
  BY <1>1, <1>2, AppendProperties
<1> QED
  BY <1>3 DEF d

(* What the type checker, and what ends it, leave alone.                   *)
CheckerStep ==
  \/ CheckDefinition
  \/ VisitLiteral \/ VisitName \/ VisitUndefinedName \/ VisitGrouping
  \/ VisitUnary \/ EndUnary \/ VisitBinary \/ VisitRHS \/ EndBinary
  \/ CheckAssignment \/ CheckTarget \/ CheckUndefinedTarget \/ EndAssignment
  \/ BadAnyCast \/ EndOfCheck \/ Crash

DiagsGrow ==
  \/ diags' = diags
  \/ \E id \in DiagIDs, place \in {"definition", "expression", "target"} : Report(id, place)

LEMMA ReportGrows ==
  ASSUME NEW id \in DiagIDs, NEW place \in {"definition", "expression", "target"},
         diags' = diags \/ Report(id, place)
  PROVE  DiagsGrow
BY DEF DiagsGrow

LEMMA CheckerKeeps ==
  ASSUME CheckerStep
  PROVE  /\ phase = "check" /\ phase' # "build"
         /\ program' = program /\ table' = table
         /\ DiagsGrow
<1>1. phase = "check" /\ phase' # "build"
  BY DEF CheckerStep, CheckDefinition, VisitLiteral, VisitName, VisitUndefinedName,
         VisitGrouping, VisitUnary, EndUnary, VisitBinary, VisitRHS, EndBinary,
         CheckAssignment, CheckTarget, CheckUndefinedTarget, EndAssignment,
         BadAnyCast, EndOfCheck, Crash, Visits, Enters, Resumes, Working, AtTarget, Casts
<1>2. program' = program /\ table' = table
  BY DEF CheckerStep, CheckDefinition, VisitLiteral, VisitName, VisitUndefinedName,
         VisitGrouping, VisitUnary, EndUnary, VisitBinary, VisitRHS, EndBinary,
         CheckAssignment, CheckTarget, CheckUndefinedTarget, EndAssignment,
         BadAnyCast, EndOfCheck, Crash
<1>3. CASE CheckDefinition
  <2>1. diags' = diags \/ Report("TypeMismatch", "definition")
    BY <1>3 DEF CheckDefinition
  <2> QED
    BY <1>1, <1>2, <2>1, ReportGrows DEF DiagIDs
<1>4. CASE VisitUndefinedName
  <2>1. diags' = diags \/ Report("UndefinedName", "expression")
    BY <1>4 DEF VisitUndefinedName
  <2> QED
    BY <1>1, <1>2, <2>1, ReportGrows DEF DiagIDs
<1>5. CASE EndBinary
  <2>1. diags' = diags \/ Report("UnsupportedBinaryOperandType", "expression")
    BY <1>5 DEF EndBinary
  <2> QED
    BY <1>1, <1>2, <2>1, ReportGrows DEF DiagIDs
<1>6. CASE CheckTarget
  <2>1. diags' = diags \/ Report("TypeMismatch", "target")
    BY <1>6 DEF CheckTarget
  <2> QED
    BY <1>1, <1>2, <2>1, ReportGrows DEF DiagIDs
<1>7. CASE CheckUndefinedTarget
  <2>1. diags' = diags \/ Report("UndefinedName", "target")
    BY <1>7 DEF CheckUndefinedTarget
  <2> QED
    BY <1>1, <1>2, <2>1, ReportGrows DEF DiagIDs
<1>8. CASE \/ VisitLiteral \/ VisitName \/ VisitGrouping \/ VisitUnary \/ EndUnary
           \/ VisitBinary \/ VisitRHS \/ CheckAssignment \/ EndAssignment
           \/ BadAnyCast \/ EndOfCheck \/ Crash
  <2>1. diags' = diags
    BY <1>8 DEF VisitLiteral, VisitName, VisitGrouping, VisitUnary, EndUnary,
                VisitBinary, VisitRHS, CheckAssignment, EndAssignment, BadAnyCast,
                EndOfCheck, Crash
  <2> QED
    BY <1>1, <1>2, <2>1 DEF DiagsGrow
<1> QED
  BY <1>1, <1>2, <1>3, <1>4, <1>5, <1>6, <1>7, <1>8 DEF CheckerStep

LEMMA ReportsStay ==
  ASSUME TypeOK, DiagsGrow, NEW c, NEW places, ReportedAt(c, places)
  PROVE  ReportedAt(c, places)'
<1>1. CASE diags' = diags
  BY <1>1 DEF ReportedAt
<1>2. CASE \E id \in DiagIDs, place \in {"definition", "expression", "target"} :
             Report(id, place)
  <2>1. PICK i \in 1..Len(diags) : diags[i].child = c /\ diags[i].place \in places
    BY DEF ReportedAt
  <2>2. PICK id \in DiagIDs, place \in {"definition", "expression", "target"} :
          Report(id, place)
    BY <1>2
  <2>3. i \in 1..Len(diags') /\ diags'[i] = diags[i]
    <3>1. /\ Len(diags') = Len(diags) + 1 /\ Len(diags) \in Nat
          /\ \A k \in 1..Len(diags) : diags'[k] = diags[k]
      BY <2>2, ReportFacts
    <3> QED
      BY <2>1, <3>1
  <2> QED
    BY <2>1, <2>3 DEF ReportedAt
<1> QED
  BY <1>1, <1>2 DEF DiagsGrow

MissingInv == TypeOK /\ MissingVariablesAreReported

LEMMA BuilderReports ==
  ASSUME MissingInv, NEW id \in DiagIDs, Report(id, "definition"), phase = "build",
         child' = child + 1, program' = program, table' = table, phase' = phase
  PROVE  MissingVariablesAreReported'
<1> SUFFICES ASSUME NEW c \in DefinitionsOf(program), Visited(c)'
             PROVE  \/ IsVariable(program[c].name)'
                    \/ ReportedAt(c, {"definition"})'
  BY DEF MissingVariablesAreReported, DefinitionsOf, OfKind
<1>1. /\ TypeOK /\ DiagsGrow /\ child \in Nat /\ c \in Nat /\ c < child + 1
      /\ MissingVariablesAreReported
  BY BasicFacts DEF MissingInv, DiagsGrow, Visited, DefinitionsOf, OfKind
<1>2. CASE c = child
  <2>1. /\ Len(diags) + 1 \in 1..Len(diags')
        /\ diags'[Len(diags) + 1].child = child
        /\ diags'[Len(diags) + 1].place = "definition"
    <3>1. /\ Len(diags') = Len(diags) + 1 /\ Len(diags) \in Nat
          /\ diags'[Len(diags) + 1] = [id |-> id, child |-> child, place |-> "definition"]
      BY <1>1, ReportFacts
    <3> QED
      BY <3>1
  <2> QED
    BY <1>2, <2>1 DEF ReportedAt
<1>3. CASE c < child
  <2>1. IsVariable(program[c].name) \/ ReportedAt(c, {"definition"})
    BY <1>1, <1>3 DEF MissingVariablesAreReported, Visited
  <2>2. CASE IsVariable(program[c].name)
    BY <2>2 DEF IsVariable, Has
  <2>3. CASE ReportedAt(c, {"definition"})
    BY <1>1, <2>3, ReportsStay
  <2> QED
    BY <2>1, <2>2, <2>3
<1> QED
  BY <1>1, <1>2, <1>3

LEMMA DeclareDeclares ==
  ASSUME MissingInv, Declare
  PROVE  MissingVariablesAreReported'
<1> SUFFICES ASSUME NEW c \in DefinitionsOf(program), Visited(c)'
             PROVE  \/ IsVariable(program[c].name)'
                    \/ ReportedAt(c, {"definition"})'
  BY DEF MissingVariablesAreReported, DefinitionsOf, OfKind, Declare
<1> DEFINE entry == [kind |-> "Variable", type |-> table[Child.type].type]
<1>1. /\ TypeOK /\ child \in Nat /\ c \in Nat /\ c < child + 1
      /\ MissingVariablesAreReported /\ phase = "build"
      /\ program' = program /\ diags' = diags
      /\ Child \in Definitions /\ Has(Child.type) /\ ~Has(Child.name)
  BY BasicFacts, ChildFacts
     DEF MissingInv, Declare, Visited, Visits, DefinitionsOf, OfKind, IsType, Redefines
<1>2. Child.name \in Texts /\ entry \in Entries
  BY <1>1 DEF Names, Definitions, Has, TypeOK, Entries
<1>3. AddEntry(Child.name, entry) /\ entry.kind = "Variable"
  BY DEF Declare
<1> HIDE DEF entry
<1>4. /\ \A text \in DOMAIN table :
           text \in DOMAIN table' /\ table'[text] = table[text]
      /\ Child.name \in DOMAIN table' /\ table'[Child.name] = entry
  BY <1>1, <1>2, <1>3, AddEntryFine
<1>5. CASE c = child
  BY <1>1, <1>3, <1>4, <1>5 DEF Child, IsVariable, Has
<1>6. CASE c < child
  <2>1. IsVariable(program[c].name) \/ ReportedAt(c, {"definition"})
    BY <1>1, <1>6 DEF MissingVariablesAreReported, Visited
  <2>2. CASE IsVariable(program[c].name)
    BY <1>1, <1>4, <2>2 DEF IsVariable, Has
  <2>3. CASE ReportedAt(c, {"definition"})
    BY <1>1, <2>3 DEF ReportedAt
  <2> QED
    BY <2>1, <2>2, <2>3
<1> QED
  BY <1>1, <1>5, <1>6

LEMMA CheckerReports ==
  ASSUME MissingInv, CheckerStep
  PROVE  MissingVariablesAreReported'
<1> SUFFICES ASSUME NEW c \in DefinitionsOf(program)
             PROVE  \/ IsVariable(program[c].name)'
                    \/ ReportedAt(c, {"definition"})'
  BY CheckerKeeps DEF MissingVariablesAreReported, DefinitionsOf, OfKind
<1>1. /\ IsVariable(program[c].name) \/ ReportedAt(c, {"definition"})
      /\ TypeOK
  BY CheckerKeeps DEF MissingInv, MissingVariablesAreReported, Visited
<1>2. CASE IsVariable(program[c].name)
  BY <1>2, CheckerKeeps DEF IsVariable, Has
<1>3. CASE ReportedAt(c, {"definition"})
  BY <1>1, <1>3, CheckerKeeps, ReportsStay
<1> QED
  BY <1>1, <1>2, <1>3

(* Every definition that leaves the type checker without a variable to     *)
(* look up has been reported by the symbol table builder before.           *)
THEOREM SemanticMissingVariablesAreReported == Spec => []MissingVariablesAreReported
<1>1. Init => MissingVariablesAreReported
  <2> SUFFICES ASSUME Init, NEW c \in DefinitionsOf(program), Visited(c)
               PROVE  FALSE
    BY DEF MissingVariablesAreReported
  <2> QED
    BY DEF Init, Visited, DefinitionsOf, OfKind
<1>2. ASSUME TypeOK, MissingVariablesAreReported, [Next]_vars
      PROVE  MissingVariablesAreReported'
  <2> USE <1>2 DEF MissingInv
  <2>1. CASE Redefinition
    BY <2>1, BuilderReports DEF Redefinition, Visits, DiagIDs
  <2>2. CASE UndefinedType
    BY <2>2, BuilderReports DEF UndefinedType, Visits, DiagIDs
  <2>3. CASE Declare
    BY <2>3, DeclareDeclares
  <2>4. CASE Traverse
    <3> SUFFICES ASSUME NEW c \in DefinitionsOf(program), Visited(c)'
                 PROVE  \/ IsVariable(program[c].name)'
                        \/ ReportedAt(c, {"definition"})'
      BY <2>4 DEF MissingVariablesAreReported, DefinitionsOf, OfKind, Traverse
    <3>1. /\ child \in Nat /\ c \in Nat /\ c < child + 1 /\ c # child
          /\ phase = "build" /\ UNCHANGED <<program, table, diags>>
      BY <2>4, BasicFacts DEF Traverse, Visits, Child, Visited, DefinitionsOf, OfKind
    <3>2. IsVariable(program[c].name) \/ ReportedAt(c, {"definition"})
      BY <3>1 DEF MissingVariablesAreReported, Visited
    <3> QED
      BY <3>1, <3>2 DEF IsVariable, Has, ReportedAt
  <2>5. CASE TraverseNull
    BY <2>5 DEF TraverseNull, MissingVariablesAreReported
  <2>6. CASE EndOfBuild
    <3> SUFFICES ASSUME NEW c \in DefinitionsOf(program)
                 PROVE  \/ IsVariable(program[c].name)'
                        \/ ReportedAt(c, {"definition"})'
      BY <2>6 DEF MissingVariablesAreReported, DefinitionsOf, OfKind, EndOfBuild
    <3>1. /\ c < child /\ phase = "build" /\ UNCHANGED <<program, table, diags>>
      BY <2>6, BasicFacts DEF EndOfBuild, DefinitionsOf, OfKind
    <3>2. IsVariable(program[c].name) \/ ReportedAt(c, {"definition"})
      BY <3>1 DEF MissingVariablesAreReported, Visited
    <3> QED
      BY <3>1, <3>2 DEF IsVariable, Has, ReportedAt
  <2>7. CASE CheckerStep
    BY <2>7, CheckerReports
  <2>8. CASE UNCHANGED vars
    BY <2>8 DEF vars, MissingVariablesAreReported, DefinitionsOf, OfKind, Visited,
                IsVariable, Has, ReportedAt
  <2> QED
    BY <2>1, <2>2, <2>3, <2>4, <2>5, <2>6, <2>7, <2>8 DEF Next, CheckerStep, Terminating
<1> QED
  BY <1>1, <1>2, SemanticTypeOK, PTL DEF Spec

----------------------------------------------------------------------------
(* Errors do not cascade.                                                  *)

Tainted == \E i \in 1..Len(diags) :
             diags[i].child = child /\ diags[i].place = "expression"

(* An operand that has no type is kept until its operator is dealt with.   *)
Pending(S) ==
  \E k \in 1..Len(S) : S[k].at = "binary.rhs" /\ S[k].lhs \notin Types

(* Which diagnostics there are at a kind of child, and up to which child.  *)
Placed(d) ==
  /\ d.child \in 1..Len(program)
  /\ d.place = "definition" <=> program[d.child].kind = "VariableDefinition"
  /\ d.place = "expression" => d.id # "TypeMismatch"
  /\ d.place # "definition" =>
       /\ phase # "build"
       /\ d.child <= child
       /\ phase = "check" /\ target = 0 => d.child < child
  /\ d.place = "target" /\ stack # <<>> => d.child < child

DiagsPlaced == \A i \in 1..Len(diags) : Placed(diags[i])

(* The stack is that of the assignment being checked, and only its top has *)
(* yet to be visited.                                                      *)
InAssignment ==
  /\ target > 0 => /\ phase # "build" /\ child \in 1..Len(program)
                   /\ Child.kind = "AssignmentStatement"
  /\ stack # <<>> => target = 1
  /\ \A k \in 2..Len(stack) : stack[k].at # "visit"

(* After an error, the expression being checked will have no type.         *)
TaintKept ==
  Tainted =>
    /\ stack # <<>> =>
         Pending(stack) \/ (Top.at # "visit" /\ result \notin Types)
    /\ stack = <<>> /\ target > 0 => result \notin Types

CascadeInv ==
  /\ TypeInv
  /\ DiagsPlaced
  /\ InAssignment
  /\ TaintKept
  /\ ErrorsDoNotCascade

(* How Pending goes with the ways a step changes the stack, when it is not *)
(* the top that is pending.                                                *)
Below(S) ==
  \E k \in 2..Len(S) : S[k].at = "binary.rhs" /\ S[k].lhs \notin Types

LEMMA PendingBelow ==
  ASSUME NEW S \in Seq(Frames), S # <<>>, Pending(S),
         ~(S[1].at = "binary.rhs" /\ S[1].lhs \notin Types)
  PROVE  Below(S)
<1>1. PICK k \in 1..Len(S) : S[k].at = "binary.rhs" /\ S[k].lhs \notin Types
  BY DEF Pending
<1>2. k \in 2..Len(S)
  BY <1>1
<1> QED
  BY <1>1, <1>2 DEF Below

LEMMA BelowPopped ==
  ASSUME NEW S \in Seq(Frames), S # <<>>, Below(S)
  PROVE  Pending(Tail(S)) /\ Tail(S) # <<>>
<1> DEFINE T == Tail(S)
<1>1. PICK k \in 2..Len(S) : S[k].at = "binary.rhs" /\ S[k].lhs \notin Types
  BY DEF Below
<1>2. Len(S) \in Nat /\ Len(T) = Len(S) - 1 /\ T[k - 1] = S[k]
  BY <1>1, PopTop
<1> HIDE DEF T
<1>3. k - 1 \in 1..Len(T) /\ Len(T) > 0
  BY <1>1, <1>2
<1>4. Pending(T) /\ T # <<>>
  BY <1>1, <1>2, <1>3 DEF Pending
<1> QED
  BY <1>4 DEF T

LEMMA BelowReplaced ==
  ASSUME NEW S \in Seq(Frames), S # <<>>, Below(S), NEW f \in Frames
  PROVE  Pending(<<f>> \o Tail(S))
<1> DEFINE T == <<f>> \o Tail(S)
<1>1. PICK k \in 2..Len(S) : S[k].at = "binary.rhs" /\ S[k].lhs \notin Types
  BY DEF Below
<1>2. Len(S) \in Nat /\ Len(T) = Len(S) /\ T[k] = S[k]
  BY <1>1, ReplaceTop
<1> HIDE DEF T
<1>3. k \in 1..Len(T)
  BY <1>1, <1>2
<1>4. Pending(T)
  BY <1>1, <1>2, <1>3 DEF Pending
<1> QED
  BY <1>4 DEF T

LEMMA BelowPushed ==
  ASSUME NEW S \in Seq(Frames), S # <<>>, Below(S), NEW c \in Frames, NEW f \in Frames
  PROVE  Pending(<<c, f>> \o Tail(S))
<1> DEFINE T == <<c, f>> \o Tail(S)
<1>1. PICK k \in 2..Len(S) : S[k].at = "binary.rhs" /\ S[k].lhs \notin Types
  BY DEF Below
<1>2. Len(S) \in Nat /\ Len(T) = Len(S) + 1 /\ T[k + 1] = S[k]
  BY <1>1, PushCallee
<1> HIDE DEF T
<1>3. k + 1 \in 1..Len(T)
  BY <1>1, <1>2
<1>4. Pending(T)
  BY <1>1, <1>2, <1>3 DEF Pending
<1> QED
  BY <1>4 DEF T

----------------------------------------------------------------------------

LEMMA CascadeFacts ==
  ASSUME CascadeInv
  PROVE  /\ TypeOK /\ TypeInv /\ DiagsPlaced /\ InAssignment /\ TaintKept
         /\ ErrorsDoNotCascade
         /\ child \in Nat /\ target \in Nat /\ Len(diags) \in Nat
         /\ diags \in Seq(Diagnostics) /\ Len(program) \in Nat
         /\ result \in Optionals \cup {EmptyAny}
<1>1. TypeOK
  BY DEF CascadeInv, TypeInv
<1> QED
  BY <1>1, BasicFacts DEF CascadeInv, TypeOK

LEMMA DiagnosticFacts ==
  ASSUME CascadeInv, NEW i \in 1..Len(diags)
  PROVE  /\ diags[i].place \in {"definition", "expression", "target"}
         /\ diags[i].child \in Nat /\ diags[i].id \in DiagIDs
         /\ Placed(diags[i])
<1>1. diags[i] \in Diagnostics
  BY CascadeFacts
<1> QED
  BY <1>1 DEF Diagnostics, CascadeInv, DiagsPlaced

(* A step that reports nothing about an expression, or nothing at all.     *)
LEMMA NoNewError ==
  ASSUME CascadeInv, diags' = diags
  PROVE  /\ ErrorsDoNotCascade'
         /\ child' = child => (Tainted' <=> Tainted)
BY DEF CascadeInv, ErrorsDoNotCascade, Tainted

(* While the builder works, there are only its own diagnostics.            *)
LEMMA BuildFacts ==
  ASSUME CascadeInv, phase = "build"
  PROVE  /\ \A i \in 1..Len(diags) : diags[i].place = "definition"
         /\ stack = <<>> /\ target = 0
<1>1. target = 0
  BY CascadeFacts DEF InAssignment
<1> QED
  BY <1>1, CascadeFacts, DiagnosticFacts DEF Placed, InAssignment

LEMMA BuilderCascade ==
  ASSUME CascadeInv, TypeInv', phase = "build",
         \/ diags' = diags
         \/ /\ Child.kind = "VariableDefinition" /\ child \in 1..Len(program)
            /\ \E id \in DiagIDs : Report(id, "definition"),
         program' = program, target' = target, stack' = stack
  PROVE  CascadeInv'
<1> DEFINE Good(d) == /\ d.place = "definition" /\ d.child \in 1..Len(program)
                      /\ program[d.child].kind = "VariableDefinition"
<1>1. \A i \in 1..Len(diags) : Good(diags[i])
  BY BuildFacts, DiagnosticFacts DEF Placed
<1>2. \A i \in 1..Len(diags') : Good(diags'[i])
  <2>1. CASE diags' = diags
    BY <1>1, <2>1
  <2>2. CASE diags' # diags
    <3>1. PICK id \in DiagIDs : Report(id, "definition")
      BY <2>2
    <3>2. /\ Len(diags') = Len(diags) + 1 /\ Len(diags) \in Nat
          /\ \A i \in 1..Len(diags) : diags'[i] = diags[i]
          /\ diags'[Len(diags) + 1] = [id |-> id, child |-> child, place |-> "definition"]
      BY <3>1, CascadeFacts, ReportFacts
    <3>3. Good(diags'[Len(diags) + 1])
      BY <2>2, <3>2 DEF Child
    <3> HIDE DEF Good
    <3> QED
      BY <1>1, <3>2, <3>3
  <2> QED
    BY <2>1, <2>2
<1>3. DiagsPlaced'
  BY <1>2 DEF DiagsPlaced, Placed
<1>4. stack' = <<>> /\ target' = 0
  BY BuildFacts
<1>5. InAssignment'
  BY <1>4 DEF InAssignment
<1>6. TaintKept' /\ ErrorsDoNotCascade'
  BY <1>2 DEF TaintKept, Tainted, ErrorsDoNotCascade
<1> QED
  BY <1>3, <1>5, <1>6 DEF CascadeInv

(* While an expression is being checked, no mismatch of its assignment has *)
(* been reported.                                                          *)
LEMMA MismatchIsPast ==
  ASSUME CascadeInv, stack # <<>>, NEW j \in 1..Len(diags), diags[j].id = "TypeMismatch"
  PROVE  diags[j].child # child
<1>1. child \in 1..Len(program) /\ program[child].kind = "AssignmentStatement"
  BY CascadeFacts DEF InAssignment, Child
<1> QED
  BY <1>1, DiagnosticFacts, CascadeFacts DEF Placed

(* A step within an expression, given what it makes of the stack.          *)
LEMMA ExpressionCascade ==
  ASSUME CascadeInv, TypeInv', phase = "check", stack # <<>>,
         \/ diags' = diags
         \/ \E id \in DiagIDs \ {"TypeMismatch"} : Report(id, "expression"),
         UNCHANGED <<program, phase, child, target>>,
         \A k \in 2..Len(stack') : stack'[k].at # "visit",
         TaintKept'
  PROVE  CascadeInv'
<1>1. /\ target = 1 /\ child \in 1..Len(program)
      /\ program[child].kind = "AssignmentStatement"
  BY CascadeFacts DEF InAssignment, Child
<1>2. InAssignment'
  BY <1>1 DEF InAssignment, Child
<1> DEFINE Old(d) == /\ d.child \in 1..Len(program)
                     /\ d.place \in {"definition", "expression", "target"}
                     /\ d.place = "definition"
                          <=> program[d.child].kind = "VariableDefinition"
                     /\ d.place = "expression" => d.id # "TypeMismatch"
                     /\ d.place # "definition" => d.child <= child
                     /\ d.place = "target" => d.child < child
           New(d) == d.place = "expression" /\ d.id # "TypeMismatch" /\ d.child = child
<1>3. \A i \in 1..Len(diags) : Old(diags[i])
  BY <1>1, DiagnosticFacts DEF Placed
<1>4. \A d : New(d) => Old(d)
  BY <1>1, CascadeFacts
<1>5. ASSUME \A i \in 1..Len(diags') : Old(diags'[i])
      PROVE  DiagsPlaced'
  BY <1>1, <1>5 DEF DiagsPlaced, Placed
<1>6. CASE diags' = diags
  <2>1. DiagsPlaced'
    <3>1. \A i \in 1..Len(diags') : Old(diags'[i])
      BY <1>3, <1>6
    <3> HIDE DEF Old
    <3> QED
      BY <1>5, <3>1
  <2> QED
    BY <1>2, <1>6, <2>1, NoNewError DEF CascadeInv
<1>7. CASE diags' # diags
  <2>1. PICK id \in DiagIDs \ {"TypeMismatch"} : Report(id, "expression")
    BY <1>7
  <2>2. /\ Len(diags') = Len(diags) + 1 /\ Len(diags) \in Nat
        /\ \A i \in 1..Len(diags) : diags'[i] = diags[i]
        /\ diags'[Len(diags) + 1] = [id |-> id, child |-> child, place |-> "expression"]
    BY <2>1, CascadeFacts, ReportFacts
  <2>3. New(diags'[Len(diags) + 1])
    BY <2>2, <2>1
  <2>4. \A i \in 1..Len(diags') : Old(diags'[i]) /\ (Old(diags'[i]) \/ New(diags'[i]))
    <3> HIDE DEF Old, New
    <3> QED
      BY <1>3, <1>4, <2>2, <2>3
  <2>5. DiagsPlaced'
    <3> HIDE DEF Old
    <3> QED
      BY <1>5, <2>4
  <2>6. ASSUME NEW i \in 1..Len(diags'), NEW j \in 1..Len(diags'),
               diags'[i].place = "expression", diags'[j].id = "TypeMismatch"
        PROVE  diags'[i].child # diags'[j].child
    <3>1. j \in 1..Len(diags) /\ diags'[j] = diags[j]
      BY <2>2, <2>3, <2>6
    <3>2. CASE i \in 1..Len(diags)
      BY <2>2, <2>6, <3>1, <3>2, CascadeFacts DEF ErrorsDoNotCascade
    <3>3. CASE i = Len(diags) + 1
      <4>1. diags[j].child # child
        BY <1>1, <1>3, <2>6, <3>1, MismatchIsPast
      <4> QED
        BY <2>3, <3>1, <3>3, <4>1
    <3> QED
      BY <2>2, <2>6, <3>2, <3>3
  <2>7. ErrorsDoNotCascade'
    BY <2>6 DEF ErrorsDoNotCascade
  <2> QED
    BY <1>2, <2>5, <2>7 DEF CascadeInv
<1> QED
  BY <1>6, <1>7

(* Returning no type keeps the taint, whatever is below.                   *)
LEMMA ReturnsNoType ==
  ASSUME CascadeInv, stack # <<>>, NEW v, v \notin Types, Return(v)
  PROVE  TaintKept' /\ \A k \in 2..Len(stack') : stack'[k].at # "visit"
<1>1. /\ stack' \in Seq(Frames) /\ Len(stack') = Len(stack) - 1
      /\ Len(stack) \in Nat /\ Len(stack) > 0
      /\ \A k \in 1..Len(stack') : stack'[k] = stack[k + 1]
      /\ result' = v
  BY CascadeFacts, TopFacts, PopTop DEF Return
<1>2. \A k \in 1..Len(stack') : stack'[k].at # "visit"
  BY <1>1, CascadeFacts DEF InAssignment
<1>3. stack' # <<>> => Top'.at # "visit"
  <2> SUFFICES ASSUME stack' # <<>> PROVE Top'.at # "visit"
    OBVIOUS
  <2>1. Top' = stack'[1] /\ 1 \in 1..Len(stack')
    BY <1>1 DEF Top
  <2> QED
    BY <1>2, <2>1
<1> QED
  BY <1>1, <1>2, <1>3 DEF TaintKept

(* Returning from an activation that is not pending itself, and whose      *)
(* operands have types, keeps the taint of what is below.                  *)
LEMMA ReturnsType ==
  ASSUME CascadeInv, stack # <<>>, NEW v, Return(v), diags' = diags, child' = child,
         Top.at = "visit" \/ (Top.lhs \in Types /\ result \in Types)
  PROVE  TaintKept' /\ \A k \in 2..Len(stack') : stack'[k].at # "visit"
<1>1. /\ stack' \in Seq(Frames) /\ Len(stack') = Len(stack) - 1
      /\ Len(stack) \in Nat /\ Len(stack) > 0 /\ stack' = Tail(stack)
      /\ \A k \in 1..Len(stack') : stack'[k] = stack[k + 1]
      /\ stack \in Seq(Frames) /\ Top = stack[1]
  BY CascadeFacts, TopFacts, PopTop DEF Return
<1>2. \A k \in 1..Len(stack') : stack'[k].at # "visit"
  BY <1>1, CascadeFacts DEF InAssignment
<1>3. ASSUME Tainted PROVE Pending(stack') /\ stack' # <<>>
  <2>1. Pending(stack)
    BY <1>3, CascadeFacts DEF TaintKept
  <2>2. Below(stack)
    <3>1. ~(Top.at = "binary.rhs" /\ Top.lhs \notin Types)
      OBVIOUS
    <3> QED
      BY <1>1, <2>1, <3>1, PendingBelow
  <2> QED
    BY <1>1, <2>2, BelowPopped
<1>4. Tainted' <=> Tainted
  BY NoNewError
<1> QED
  BY <1>2, <1>3, <1>4, <1>1 DEF TaintKept

(* Calling for an operand: the taint is below, or goes into the new caller.*)
LEMMA CallsOperand ==
  ASSUME CascadeInv, stack # <<>>, NEW f \in Frames, NEW e \in Node, Call(f, e),
         f.at # "visit", diags' = diags, child' = child,
         ~(Top.at = "binary.rhs" /\ Top.lhs \notin Types),
         Top.at = "visit" \/ (f.at = "binary.rhs" /\ f.lhs = result)
  PROVE  TaintKept' /\ \A k \in 2..Len(stack') : stack'[k].at # "visit"
<1> DEFINE c == Visit(e)
<1>1. c \in Frames
  BY DEF Visit, Frame, Frames, Node, Optionals, Nothing
<1>2. stack' = <<c, f>> \o Tail(stack)
  BY DEF Call
<1> HIDE DEF c
<1>3. /\ stack' \in Seq(Frames) /\ Len(stack') = Len(stack) + 1
      /\ stack'[1] = c /\ stack'[2] = f
      /\ \A k \in 2..Len(stack) : stack'[k + 1] = stack[k]
      /\ Len(stack) \in Nat /\ Len(stack) > 0 /\ stack' # <<>>
      /\ stack \in Seq(Frames) /\ Top = stack[1]
  BY <1>1, <1>2, CascadeFacts, TopFacts, PushCallee
<1>4. ASSUME NEW k \in 2..Len(stack')
      PROVE  stack'[k].at # "visit"
  <2>1. CASE k = 2
    BY <1>3, <2>1
  <2>2. CASE k > 2
    <3>1. k - 1 \in 2..Len(stack) /\ stack'[(k - 1) + 1] = stack[k - 1] /\ (k - 1) + 1 = k
      BY <1>3, <1>4, <2>2
    <3>2. stack[k - 1].at # "visit"
      BY <3>1, CascadeFacts DEF InAssignment
    <3> QED
      BY <3>1, <3>2
  <2> QED
    BY <1>4, <2>1, <2>2
<1>5. ASSUME Tainted PROVE Pending(stack')
  <2>1. CASE Pending(stack)
    <3>1. Below(stack)
      BY <1>3, <2>1, PendingBelow
    <3> QED
      BY <1>1, <1>2, <1>3, <3>1, BelowPushed
  <2>2. CASE ~Pending(stack)
    <3>1. Top.at # "visit" /\ result \notin Types
      BY <1>5, <2>2, CascadeFacts DEF TaintKept
    <3>2. f.at = "binary.rhs" /\ f.lhs \notin Types
      BY <3>1
    <3>3. 2 \in 1..Len(stack')
      BY <1>3
    <3> QED
      BY <1>3, <3>2, <3>3 DEF Pending
  <2> QED
    BY <2>1, <2>2
<1>6. Tainted' <=> Tainted
  BY NoNewError
<1> QED
  BY <1>3, <1>4, <1>5, <1>6 DEF TaintKept

----------------------------------------------------------------------------
(* The steps of the type checker.                                          *)

LEMMA DefinitionCascade ==
  ASSUME CascadeInv, TypeInv', CheckDefinition
  PROVE  CascadeInv'
<1> DEFINE Old(d) == /\ d.child \in 1..Len(program)
                     /\ d.place = "definition"
                          <=> program[d.child].kind = "VariableDefinition"
                     /\ d.place = "expression" => d.id # "TypeMismatch"
                     /\ d.place # "definition" => d.child < child
           New(d) == d.place = "definition" /\ d.child = child
<1>1. /\ phase = "check" /\ child \in 1..Len(program) /\ target = 0 /\ stack = <<>>
      /\ program[child].kind = "VariableDefinition"
  BY CascadeFacts DEF CheckDefinition, Visits, InAssignment, Child
<1>2. /\ program' = program /\ phase' = phase /\ child' = child + 1
      /\ target' = 0 /\ stack' = <<>>
  BY <1>1 DEF CheckDefinition
<1>3. \A i \in 1..Len(diags) : Old(diags[i])
  BY <1>1, DiagnosticFacts DEF Placed
<1>4. \A d : New(d) => Old(d)
  BY <1>1
<1>5. \A i \in 1..Len(diags') :
        \/ i \in 1..Len(diags) /\ diags'[i] = diags[i]
        \/ New(diags'[i])
  <2>1. CASE diags' = diags
    BY <2>1
  <2>2. CASE diags' # diags
    <3>1. Report("TypeMismatch", "definition") /\ "TypeMismatch" \in DiagIDs
      BY <2>2 DEF CheckDefinition, DiagIDs
    <3>2. /\ Len(diags') = Len(diags) + 1 /\ Len(diags) \in Nat
          /\ \A i \in 1..Len(diags) : diags'[i] = diags[i]
          /\ diags'[Len(diags) + 1]
               = [id |-> "TypeMismatch", child |-> child, place |-> "definition"]
      BY <3>1, CascadeFacts, ReportFacts
    <3> QED
      BY <3>2
  <2> QED
    BY <2>1, <2>2
<1>6. \A i \in 1..Len(diags') : Old(diags'[i])
  <2> HIDE DEF Old, New
  <2> QED
    BY <1>3, <1>4, <1>5
<1>7. DiagsPlaced'
  BY <1>1, <1>2, <1>6, CascadeFacts DEF DiagsPlaced, Placed
<1>8. InAssignment' /\ TaintKept'
  BY <1>2 DEF InAssignment, TaintKept
<1>9. ASSUME NEW i \in 1..Len(diags'), NEW j \in 1..Len(diags'),
             diags'[i].place = "expression", diags'[j].id = "TypeMismatch"
      PROVE  diags'[i].child # diags'[j].child
  <2>1. i \in 1..Len(diags) /\ diags'[i] = diags[i] /\ diags[i].child < child
    BY <1>3, <1>5, <1>9
  <2>2. CASE j \in 1..Len(diags) /\ diags'[j] = diags[j]
    BY <1>9, <2>1, <2>2, CascadeFacts DEF ErrorsDoNotCascade
  <2>3. CASE New(diags'[j])
    BY <2>1, <2>3, CascadeFacts, DiagnosticFacts
  <2> QED
    BY <1>5, <2>2, <2>3
<1> QED
  BY <1>7, <1>8, <1>9 DEF CascadeInv, ErrorsDoNotCascade

(* Between the parts of an assignment, and at the end of the analysis.     *)
LEMMA AssignmentCascade ==
  ASSUME CascadeInv, TypeInv', CheckAssignment
  PROVE  CascadeInv'
<1>1. /\ phase = "check" /\ child \in 1..Len(program) /\ target = 0
      /\ Child.kind = "AssignmentStatement"
  BY DEF CheckAssignment, Visits
<1>2. /\ program' = program /\ phase' = phase /\ child' = child /\ diags' = diags
      /\ target' = 1 /\ stack' = <<Visit(Child.expr)>>
  BY DEF CheckAssignment
<1>3. \A i \in 1..Len(diags) : diags[i].place # "definition" => diags[i].child < child
  BY <1>1, DiagnosticFacts DEF Placed
<1>4. DiagsPlaced'
  <2>1. ASSUME NEW i \in 1..Len(diags)
        PROVE  Placed(diags[i])'
    BY <1>1, <1>2, <1>3, DiagnosticFacts, CascadeFacts DEF Placed
  <2> QED
    BY <1>2, <2>1 DEF DiagsPlaced
<1>5. InAssignment'
  <2>1. Len(stack') = 1
    BY <1>2
  <2> QED
    BY <1>1, <1>2, <2>1 DEF InAssignment, Child
<1>6. TaintKept'
  BY <1>2, <1>3, CascadeFacts DEF TaintKept, Tainted
<1>7. ErrorsDoNotCascade'
  BY <1>2, NoNewError
<1> QED
  BY <1>4, <1>5, <1>6, <1>7 DEF CascadeInv

LEMMA EndAssignmentCascade ==
  ASSUME CascadeInv, TypeInv', EndAssignment
  PROVE  CascadeInv'
<1>1. /\ program' = program /\ phase' = phase /\ child' = child + 1
      /\ diags' = diags /\ target' = 0 /\ stack' = <<>> /\ phase = "check"
  BY DEF EndAssignment, Visits
<1>2. DiagsPlaced'
  <2>1. ASSUME NEW i \in 1..Len(diags)
        PROVE  Placed(diags[i])'
    BY <1>1, DiagnosticFacts, CascadeFacts DEF Placed
  <2> QED
    BY <1>1, <2>1 DEF DiagsPlaced
<1>3. InAssignment' /\ TaintKept'
  BY <1>1 DEF InAssignment, TaintKept
<1>4. ErrorsDoNotCascade'
  BY <1>1, NoNewError
<1> QED
  BY <1>2, <1>3, <1>4 DEF CascadeInv

LEMMA EndCascade ==
  ASSUME CascadeInv, TypeInv', phase = "check", phase' \notin {"build", "check"},
         UNCHANGED <<program, child, target, stack, result, diags>>
  PROVE  CascadeInv'
<1>1. DiagsPlaced'
  <2>1. ASSUME NEW i \in 1..Len(diags)
        PROVE  Placed(diags[i])'
    BY DiagnosticFacts, CascadeFacts DEF Placed
  <2> QED
    BY <2>1 DEF DiagsPlaced
<1>2. InAssignment' /\ TaintKept'
  BY CascadeFacts DEF InAssignment, TaintKept, Tainted, Pending, Child, Top
<1>3. ErrorsDoNotCascade'
  BY NoNewError
<1> QED
  BY <1>1, <1>2, <1>3 DEF CascadeInv

(* A target is compared with the type of an expression without an error.   *)
LEMMA TargetCascade ==
  ASSUME CascadeInv, TypeInv', AtTarget,
         \/ diags' = diags
         \/ \E id \in DiagIDs :
              Report(id, "target") /\ (id = "TypeMismatch" => result \in Types),
         target' = target + 1, UNCHANGED <<program, phase, child, stack, result>>
  PROVE  CascadeInv'
<1> DEFINE Old(d) == /\ d.child \in 1..Len(program)
                     /\ d.place = "definition"
                          <=> program[d.child].kind = "VariableDefinition"
                     /\ d.place = "expression" => d.id # "TypeMismatch"
                     /\ d.place # "definition" => d.child <= child
           New(d) == /\ d.place = "target" /\ d.child = child
                     /\ d.id = "TypeMismatch" => result \in Types
<1>1. /\ phase = "check" /\ child \in 1..Len(program) /\ target > 0 /\ stack = <<>>
      /\ program[child].kind = "AssignmentStatement" /\ target \in Nat
  BY CascadeFacts DEF AtTarget, Visits, Child
<1>2. \A i \in 1..Len(diags) : Old(diags[i])
  BY <1>1, DiagnosticFacts DEF Placed
<1>3. \A d : New(d) => Old(d)
  BY <1>1, CascadeFacts
<1>4. \A i \in 1..Len(diags') :
        \/ i \in 1..Len(diags) /\ diags'[i] = diags[i]
        \/ New(diags'[i])
  <2>1. CASE diags' = diags
    BY <2>1
  <2>2. CASE diags' # diags
    <3>1. PICK id \in DiagIDs :
            Report(id, "target") /\ (id = "TypeMismatch" => result \in Types)
      BY <2>2
    <3>2. TypeOK /\ Report(id, "target")
      BY <3>1, CascadeFacts
    <3>3. /\ Len(diags') = Len(diags) + 1 /\ Len(diags) \in Nat
          /\ \A i \in 1..Len(diags) : diags'[i] = diags[i]
          /\ diags'[Len(diags) + 1] = [id |-> id, child |-> child, place |-> "target"]
      BY <3>2, ReportFacts
    <3>4. New(diags'[Len(diags) + 1])
      BY <3>1, <3>3
    <3> HIDE DEF New
    <3> QED
      BY <3>3, <3>4
  <2> QED
    BY <2>1, <2>2
<1>5. \A i \in 1..Len(diags') : Old(diags'[i])
  <2> HIDE DEF Old, New
  <2> QED
    BY <1>2, <1>3, <1>4
<1>6. DiagsPlaced' /\ InAssignment'
  BY <1>1, <1>5 DEF DiagsPlaced, Placed, InAssignment, Child
<1>7. Tainted' => Tainted
  BY <1>4 DEF Tainted
<1>8. TaintKept'
  BY <1>1, <1>7, CascadeFacts DEF TaintKept
<1>9. ASSUME NEW i \in 1..Len(diags'), NEW j \in 1..Len(diags'),
             diags'[i].place = "expression", diags'[j].id = "TypeMismatch"
      PROVE  diags'[i].child # diags'[j].child
  <2>1. i \in 1..Len(diags) /\ diags'[i] = diags[i]
    BY <1>4, <1>9
  <2>2. CASE j \in 1..Len(diags) /\ diags'[j] = diags[j]
    BY <1>9, <2>1, <2>2, CascadeFacts DEF ErrorsDoNotCascade
  <2>3. CASE New(diags'[j])
    <3>1. ~Tainted
      BY <1>1, <1>9, <2>3, CascadeFacts DEF TaintKept
    <3> QED
      BY <1>9, <2>1, <2>3, <3>1 DEF Tainted
  <2> QED
    BY <1>4, <2>2, <2>3
<1> QED
  BY <1>6, <1>8, <1>9 DEF CascadeInv, ErrorsDoNotCascade

(* The steps within an expression.                                         *)
LEMMA LeafCascade ==
  ASSUME CascadeInv, TypeInv', VisitLiteral \/ VisitName \/ VisitUndefinedName
  PROVE  CascadeInv'
<1>1. /\ phase = "check" /\ stack # <<>> /\ Top.at = "visit"
      /\ UNCHANGED <<program, phase, child, target>>
  BY DEF VisitLiteral, VisitName, VisitUndefinedName, Enters, Working
<1>2. CASE VisitLiteral \/ VisitName
  <2>1. diags' = diags /\ \E v : Return(v)
    BY <1>2 DEF VisitLiteral, VisitName
  <2>2. TaintKept' /\ \A k \in 2..Len(stack') : stack'[k].at # "visit"
    BY <1>1, <2>1, ReturnsType
  <2> QED
    BY <1>1, <2>1, <2>2, ExpressionCascade
<1>3. CASE VisitUndefinedName
  <2>1. Report("UndefinedName", "expression") /\ Return(Nothing) /\ Nothing \notin Types
    BY <1>3 DEF VisitUndefinedName, Nothing, Types
  <2>2. TaintKept' /\ \A k \in 2..Len(stack') : stack'[k].at # "visit"
    BY <1>1, <2>1, ReturnsNoType
  <2>3. "UndefinedName" \in DiagIDs \ {"TypeMismatch"}
    BY DEF DiagIDs
  <2> QED
    BY <1>1, <2>1, <2>2, <2>3, ExpressionCascade
<1> QED
  BY <1>2, <1>3

LEMMA GroupingCascade ==
  ASSUME CascadeInv, TypeInv', VisitGrouping
  PROVE  CascadeInv'
<1> DEFINE c == Visit(Top.node.expr)
<1>1. /\ phase = "check" /\ stack # <<>> /\ Top.at = "visit"
      /\ Top.node.kind = "GroupingExpression" /\ diags' = diags
      /\ UNCHANGED <<program, phase, child, target>>
  BY DEF VisitGrouping, Enters, Working
<1>2. stack' = <<c>> \o Tail(stack)
  BY DEF VisitGrouping
<1>3. c \in Frames
  <2>1. Top.node.expr \in Node
    BY <1>1, CascadeFacts, TopNode, NodeShapes
  <2> QED
    BY <2>1 DEF Visit, Frame, Frames, Node, Optionals, Nothing
<1> HIDE DEF c
<1>4. /\ Len(stack') = Len(stack) /\ Len(stack) \in Nat
      /\ \A k \in 2..Len(stack) : stack'[k] = stack[k]
      /\ stack' # <<>> /\ stack \in Seq(Frames) /\ Top = stack[1]
  BY <1>1, <1>2, <1>3, CascadeFacts, TopFacts, ReplaceTop
<1>5. \A k \in 2..Len(stack') : stack'[k].at # "visit"
  BY <1>4, CascadeFacts DEF InAssignment
<1>6. ASSUME Tainted PROVE Pending(stack')
  <2>1. Pending(stack)
    BY <1>1, <1>6, CascadeFacts DEF TaintKept
  <2>2. Below(stack)
    BY <1>1, <1>4, <2>1, PendingBelow
  <2> QED
    BY <1>1, <1>2, <1>3, <1>4, <2>2, BelowReplaced
<1>7. Tainted' <=> Tainted
  BY <1>1, NoNewError
<1>8. TaintKept'
  BY <1>4, <1>6, <1>7 DEF TaintKept
<1> QED
  BY <1>1, <1>5, <1>8, ExpressionCascade

LEMMA OperandCascade ==
  ASSUME CascadeInv, TypeInv', VisitUnary \/ VisitBinary \/ VisitRHS
  PROVE  CascadeInv'
<1>1. /\ phase = "check" /\ stack # <<>> /\ diags' = diags
      /\ UNCHANGED <<program, phase, child, target>>
  BY DEF VisitUnary, VisitBinary, VisitRHS, Enters, Resumes, Working
<1>2. Top.node \in Node /\ Top \in Frames /\ FrameFine(Top)
  BY <1>1, CascadeFacts, TopNode, TopFacts
<1>3. CASE VisitUnary \/ VisitBinary
  <2>1. Top.at = "visit"
    BY <1>3 DEF VisitUnary, VisitBinary, Enters
  <2>2. PICK f \in Frames, e \in Node : Call(f, e) /\ f.at # "visit"
    <3>1. CASE VisitUnary
      <4>1. Top.node.rhs \in Node
        BY <1>2, <3>1, NodeShapes DEF VisitUnary, Enters
      <4>2. /\ Frame("unary", Top.node, Nothing) \in Frames
            /\ Frame("unary", Top.node, Nothing).at # "visit"
        BY <1>2 DEF Frame, Frames, Node, Optionals
      <4> QED
        BY <3>1, <4>1, <4>2 DEF VisitUnary
    <3>2. CASE VisitBinary
      <4>1. Top.node.lhs \in Node
        BY <1>2, <3>2, NodeShapes, BinaryShape DEF VisitBinary, Enters
      <4>2. /\ Frame("binary.lhs", Top.node, Nothing) \in Frames
            /\ Frame("binary.lhs", Top.node, Nothing).at # "visit"
        BY <1>2 DEF Frame, Frames, Node, Optionals
      <4> QED
        BY <3>2, <4>1, <4>2 DEF VisitBinary
    <3> QED
      BY <1>3, <3>1, <3>2
  <2>3. TaintKept' /\ \A k \in 2..Len(stack') : stack'[k].at # "visit"
    BY <1>1, <2>1, <2>2, CallsOperand
  <2> QED
    BY <1>1, <2>3, ExpressionCascade
<1>4. CASE VisitRHS
  <2> DEFINE f == Frame("binary.rhs", Top.node, result)
  <2>1. Top.at = "binary.lhs" /\ result \in Optionals
    BY <1>4, CascadeFacts DEF VisitRHS, Resumes
  <2>2. Top.node.rhs \in Node
    BY <1>2, <2>1, BinaryShape DEF FrameFine
  <2>3. f \in Frames /\ f.at = "binary.rhs" /\ f.lhs = result
    BY <1>2, <2>1 DEF Frame, Frames, Node
  <2>4. Call(f, Top.node.rhs)
    BY <1>4 DEF VisitRHS
  <2> HIDE DEF f
  <2>5. TaintKept' /\ \A k \in 2..Len(stack') : stack'[k].at # "visit"
    BY <1>1, <2>1, <2>2, <2>3, <2>4, CallsOperand
  <2> QED
    BY <1>1, <2>5, ExpressionCascade
<1> QED
  BY <1>3, <1>4

LEMMA OperatorCascade ==
  ASSUME CascadeInv, TypeInv', EndUnary \/ EndBinary
  PROVE  CascadeInv'
<1>1. /\ phase = "check" /\ stack # <<>>
      /\ UNCHANGED <<program, phase, child, target>>
  BY DEF EndUnary, EndBinary, Resumes, Working
<1>2. \/ diags' = diags
      \/ \E id \in DiagIDs \ {"TypeMismatch"} : Report(id, "expression")
  BY DEF EndUnary, EndBinary, DiagIDs
<1>3. CASE \E v : v \notin Types /\ Return(v)
  <2>1. TaintKept' /\ \A k \in 2..Len(stack') : stack'[k].at # "visit"
    BY <1>1, <1>3, ReturnsNoType
  <2> QED
    BY <1>1, <1>2, <2>1, ExpressionCascade
<1>4. CASE EndUnary
  <2>1. EmptyAny \notin Types /\ Return(EmptyAny)
    BY <1>4 DEF EndUnary, EmptyAny, Types
  <2> QED
    BY <1>3, <2>1
<1>5. CASE EndBinary /\ BinaryType(Top.node.op, Top.lhs, result) = Nothing
  <2>1. Nothing \notin Types /\ Return(Nothing)
    BY <1>5 DEF EndBinary, Nothing, Types
  <2> QED
    BY <1>3, <2>1
<1>6. CASE EndBinary /\ BinaryType(Top.node.op, Top.lhs, result) # Nothing
  <2>1. Top.lhs = "bool" /\ result = "bool" /\ "bool" \in Types
    BY <1>6 DEF BinaryType, Types
  <2>2. diags' = diags /\ \E v : Return(v)
    BY <1>6, <2>1 DEF EndBinary, Unsupported
  <2>3. TaintKept' /\ \A k \in 2..Len(stack') : stack'[k].at # "visit"
    BY <1>1, <2>1, <2>2, ReturnsType
  <2> QED
    BY <1>1, <1>2, <2>3, ExpressionCascade
<1> QED
  BY <1>4, <1>5, <1>6

LEMMA CheckerCascade ==
  ASSUME CascadeInv, TypeInv', CheckerStep
  PROVE  CascadeInv'
<1>1. CASE CheckTarget
  <2>1. \/ diags' = diags
        \/ Report("TypeMismatch", "target") /\ result # Nothing
    BY <1>1 DEF CheckTarget
  <2>2. /\ AtTarget /\ result # EmptyAny /\ target' = target + 1
        /\ UNCHANGED <<program, phase, child, stack, result>>
    BY <1>1 DEF CheckTarget, AtTarget
  <2>3. result # Nothing => result \in Types
    BY <2>2, CascadeFacts DEF Optionals
  <2>4. "TypeMismatch" \in DiagIDs
    BY DEF DiagIDs
  <2> QED
    BY <2>1, <2>2, <2>3, <2>4, TargetCascade
<1>2. CASE CheckUndefinedTarget
  <2>1. Report("UndefinedName", "target") /\ "UndefinedName" \in DiagIDs
    BY <1>2 DEF CheckUndefinedTarget, DiagIDs
  <2>2. /\ AtTarget /\ target' = target + 1
        /\ UNCHANGED <<program, phase, child, stack, result>>
    BY <1>2 DEF CheckUndefinedTarget
  <2> QED
    BY <2>1, <2>2, TargetCascade
<1>3. CASE BadAnyCast \/ EndOfCheck \/ Crash
  <2>1. /\ phase = "check" /\ phase' \notin {"build", "check"}
        /\ UNCHANGED <<program, child, target, stack, result, diags>>
    BY <1>3 DEF BadAnyCast, EndOfCheck, Crash, Casts, Resumes, Working
  <2> QED
    BY <2>1, EndCascade
<1> QED
  BY <1>1, <1>2, <1>3, DefinitionCascade, AssignmentCascade, EndAssignmentCascade,
     LeafCascade, GroupingCascade, OperandCascade, OperatorCascade DEF CheckerStep

LEMMA InitCascade ==
  ASSUME Init
  PROVE  CascadeInv
<1>1. diags = <<>> /\ stack = <<>> /\ target = 0
  BY DEF Init
<1>2. \A i \in 1..Len(diags) : FALSE
  BY <1>1
<1>3. DiagsPlaced /\ InAssignment
  BY <1>1, <1>2 DEF DiagsPlaced, InAssignment
<1>4. TaintKept /\ ErrorsDoNotCascade
  BY <1>1, <1>2 DEF TaintKept, Tainted, ErrorsDoNotCascade
<1> QED
  BY <1>3, <1>4, InitTypes DEF CascadeInv

LEMMA NextCascade ==
  ASSUME CascadeInv, [Next]_vars
  PROVE  CascadeInv'
<1>1. TypeInv'
  BY CascadeFacts, NextTypes
<1>2. CASE Redefinition \/ UndefinedType
  <2>1. /\ Child.kind = "VariableDefinition" /\ child \in 1..Len(program)
        /\ \E id \in DiagIDs : Report(id, "definition")
    BY <1>2 DEF Redefinition, UndefinedType, Visits, DiagIDs
  <2>2. /\ phase = "build" /\ program' = program /\ target' = target
        /\ stack' = stack
    BY <1>2 DEF Redefinition, UndefinedType, Visits
  <2> QED
    BY <1>1, <2>1, <2>2, BuilderCascade
<1>3. CASE Declare \/ Traverse \/ TraverseNull \/ EndOfBuild
  <2>1. /\ phase = "build" /\ program' = program /\ target' = target
        /\ stack' = stack /\ diags' = diags
    BY <1>3 DEF Declare, Traverse, TraverseNull, EndOfBuild, Visits
  <2> QED
    BY <1>1, <2>1, BuilderCascade
<1>4. CASE CheckerStep
  BY <1>1, <1>4, CheckerCascade
<1>5. CASE UNCHANGED vars
  BY <1>1, <1>5 DEF vars, CascadeInv, DiagsPlaced, Placed, InAssignment, TaintKept, Tainted,
              Pending, ErrorsDoNotCascade, Child, Top
<1> QED
  BY <1>2, <1>3, <1>4, <1>5 DEF Next, CheckerStep, Terminating

LEMMA SemanticCascade == Spec => []CascadeInv
<1>1. Init => CascadeInv
  BY InitCascade
<1>2. CascadeInv /\ [Next]_vars => CascadeInv'
  BY NextCascade
<1> QED
  BY <1>1, <1>2, PTL DEF Spec

(* A program's errors do not cascade (TypeChecker.cpp:79-82): an operand   *)
(* without a type leaves its expression without one, so an assignment      *)
(* whose expression was reported gets no TypeMismatch.                     *)
THEOREM SemanticErrorsDoNotCascade == Spec => []ErrorsDoNotCascade
<1>1. CascadeInv => ErrorsDoNotCascade
  BY DEF CascadeInv
<1> QED
  BY <1>1, SemanticCascade, PTL

----------------------------------------------------------------------------
(***************************************************************************)
(* The verdict and the typing rules.                                       *)
(***************************************************************************)

Checks == {"check", "accepted", "rejected"}   \* the phases after the build

(* The definitions before the child b that declare a variable.             *)
DeclaredBefore(p, b) == {c \in Declarations(p) : c < b}

(* The table holds the types, and the variables declared so far.           *)
TableHolds(p, b, t) ==
  /\ DOMAIN t = Types \cup {p[c].name : c \in DeclaredBefore(p, b)}
  /\ \A c \in DeclaredBefore(p, b) :
       t[p[c].name] = [kind |-> "Variable", type |-> p[c].type]

Reached == IF phase = "build" THEN child ELSE Len(program) + 1

(* What the analysis makes of an expression's node if it has an answer     *)
(* for it, and if it finds nothing wrong with it.                          *)
Typable(n) ==
  /\ n.kind \notin {"UnaryExpression", "nullptr"}
  /\ n.kind = "Identifier" => n.name \notin Types

NodeFine(p, n) ==
  /\ n.kind = "Identifier" => n.name \in Declared(p)
  /\ n.kind = "BinaryExpression" /\ n.op \in Logical =>
       LET types == {StaticType(p)[n.lhs], StaticType(p)[n.rhs]}
       IN  Unknown \in types \/ types = {"bool"}

TargetFine(p, a, i) ==
  /\ a.targets[i] \in Declared(p)
  /\ LET type == StaticType(p)[a.expr]
     IN  type # Unknown => MayHold(TypeDeclared(p, a.targets[i]), type)

NodePasses(p, n, clean) == Typable(n) /\ (clean => NodeFine(p, n))

ChildPasses(p, c, clean) ==
  /\ p[c].kind = "VariableDefinition" =>
       p[c].name \in Declared(p) /\ (clean => DefinitionFine(p, c))
  /\ p[c].kind = "AssignmentStatement" =>
       /\ \A i \in 1..Len(p[c].targets) :
            p[c].targets[i] \notin Types /\ (clean => TargetFine(p, p[c], i))
       /\ \A n \in Within[p[c].expr] : NodePasses(p, n, clean)

(* The nodes that the activations have yet to deal with.                   *)
Todo(f) ==
  CASE f.at = "visit" -> IF f.node = Null THEN {Null} ELSE Within[f.node]
    [] f.at = "binary.lhs" -> {f.node} \cup Within[f.node.rhs]
    [] OTHER -> {f.node}

ToVisit(S) == UNION {Todo(S[k]) : k \in 1..Len(S)}

(* A callee has returned; with nothing, where a type is expected.          *)
Returning(S) == S = <<>> \/ S[1].at # "visit"

(* Which expression an activation has called, and that all the activations *)
(* above another one are about an expression of the type it asked for.     *)
Called(f) == IF f.at = "binary.lhs" THEN f.node.lhs ELSE f.node.rhs

Caller(S, k, e) == IF k = Len(S) THEN e ELSE Called(S[k + 1])

Asked(S, e) == IF S = <<>> THEN e ELSE Called(S[1])   \* what has returned

Matches(value, type) ==
  IF type = Unknown THEN value = Nothing ELSE value = type /\ value \in Types

Serves(p, S, e) ==
  \A k \in 1..Len(S) : StaticType(p)[S[k].node] = StaticType(p)[Caller(S, k, e)]

OperandsTyped(p, S) ==
  \A k \in 1..Len(S) :
    S[k].at = "binary.rhs" => Matches(S[k].lhs, StaticType(p)[S[k].node.lhs])

ResultTyped(p, S, r, e) ==
  Returning(S) /\ r # EmptyAny =>
    Matches(r, StaticType(p)[Asked(S, e)])

FrameInside(f, e) ==
  /\ f.node \in Within[e]
  /\ f.at = "unary" => f.node.kind = "UnaryExpression"

Inside(S, e) == \A k \in 1..Len(S) : FrameInside(S[k], e)

(* An expression of an assignment, while it is being checked and until the *)
(* last target has been.                                                   *)
EmptyExplained(S, r, e) ==
  Returning(S) /\ r = EmptyAny => \E n \in Within[e] : n.kind = "UnaryExpression"

Covered(p, S, r, e, clean) ==
  \/ Returning(S) /\ r = EmptyAny
  \/ \A n \in Within[e] : n \in ToVisit(S) \/ NodePasses(p, n, clean)

(***************************************************************************)
(* The invariant.                                                          *)
(***************************************************************************)
TableInv ==
  phase # "crashed" =>
    /\ TableHolds(program, Reached, table)
    /\ diags = <<>> =>
         \A d \in DefinitionsOf(program) : d < Reached => Declares(program, d)

HollowInv ==
  phase # "crashed" =>
    \A a \in AssignmentsOf(program) : a < Reached => ~Hollow[program[a].expr]

EndInv ==
  /\ phase = "crashed" \/ undefined => Untypable(program)
  /\ phase \in {"accepted", "rejected"} => child > Len(program)
  /\ phase = "accepted" => diags = <<>>
  /\ phase = "rejected" => diags # <<>>

RejectInv == ~undefined /\ diags # <<>> => ~WellTyped(program)

PassedInv ==
  phase \in Checks /\ ~undefined =>
    \A c \in 1..Len(program) : c < child => ChildPasses(program, c, diags = <<>>)

TargetsInv ==
  phase = "check" /\ ~undefined /\ target > 0 =>
    \A i \in 1..Len(Child.targets) : i < target =>
      Child.targets[i] \notin Types /\ (diags = <<>> => TargetFine(program, Child, i))

InsideInv ==
  phase = "check" /\ target > 0 =>
    Inside(stack, Child.expr) /\ EmptyExplained(stack, result, Child.expr)

CoveredInv ==
  phase = "check" /\ ~undefined /\ target > 0 =>
    Covered(program, stack, result, Child.expr, diags = <<>>)

TypedInv ==
  phase = "check" /\ ~undefined /\ diags = <<>> /\ target > 0 =>
    /\ Serves(program, stack, Child.expr)
    /\ OperandsTyped(program, stack)
    /\ ResultTyped(program, stack, result, Child.expr)

VerdictInv ==
  /\ TableInv /\ HollowInv /\ EndInv /\ RejectInv
  /\ PassedInv /\ TargetsInv /\ InsideInv /\ CoveredInv /\ TypedInv

----------------------------------------------------------------------------
(* The symbol table.                                                       *)

LEMMA CompatibleMeans ==
  ASSUME NEW t \in Types, NEW u \in Types, u \notin {"<None>", "<Empty>"}
  PROVE  Compatible(t, u) <=> MayHold(u, t)
BY DEF Compatible, ConformsTo, IsSubclass, MayHold, Types

LEMMA TableEntry ==
  ASSUME NEW p, NEW b, NEW t, TableHolds(p, b, t), NEW c \in DeclaredBefore(p, b)
  PROVE  t[p[c].name].kind = "Variable" /\ t[p[c].name].type = p[c].type
<1>1. t[p[c].name] = [kind |-> "Variable", type |-> p[c].type]
  BY DEF TableHolds
<1>2. \A r : r = [kind |-> "Variable", type |-> p[c].type] =>
        r.kind = "Variable" /\ r.type = p[c].type
  OBVIOUS
<1> QED
  BY <1>1, <1>2

LEMMA TableMeans ==
  ASSUME TypeOK, NEW b, TableHolds(program, b, table), NEW name
  PROVE  /\ IsType(name) <=> name \in Types
         /\ IsVariable(name) <=>
              \E c \in DeclaredBefore(program, b) : program[c].name = name
         /\ Has(name) <=> name \in Types \/ IsVariable(name)
<1>1. program \in Programs /\ \A type \in Types : table[type] = Builtins[type]
  BY DEF TypeOK
<1>2. \A type \in Types : table[type].kind = "Type"
  <2>1. \A type \in Types : Builtins[type].kind = "Type"
    BY DEF Builtins
  <2> QED
    BY <1>1, <2>1
<1>3. \A c \in DeclaredBefore(program, b) :
        program[c].name \notin Types /\ table[program[c].name].kind = "Variable"
  <2>1. \A c \in DeclaredBefore(program, b) : table[program[c].name].kind = "Variable"
    BY TableEntry
  <2>2. \A c \in DeclaredBefore(program, b) : program[c].name \notin Types
    BY DEF DeclaredBefore, Declarations, Declares
  <2> QED
    BY <2>1, <2>2
<1>4. name \in DOMAIN table <=>
        name \in Types \/ \E c \in DeclaredBefore(program, b) : program[c].name = name
  <2>1. DOMAIN table = Types \cup {program[c].name : c \in DeclaredBefore(program, b)}
    BY DEF TableHolds
  <2> QED
    BY <2>1
<1> QED
  BY <1>2, <1>3, <1>4 DEF Has, IsType, IsVariable

(* Once the table is built, it is that of the declarations.                *)
LEMMA TableIsComplete ==
  ASSUME TypeOK, TableInv, phase \in Checks, NEW name
  PROVE  /\ Has(name) <=> name \in Types \cup Declared(program)
         /\ IsVariable(name) <=> name \in Declared(program)
         /\ IsVariable(name) => TypesOf(name) = {TypeDeclared(program, name)}
<1>1. program \in Programs
  BY DEF TypeOK
<1>2. DeclaredBefore(program, Reached) = Declarations(program)
  BY <1>1, DeclarationFacts, ProgramFacts DEF Reached, DeclaredBefore, Checks
<1> DEFINE b == Reached
<1>3. DeclaredBefore(program, b) = Declarations(program) /\ TableHolds(program, b, table)
  BY <1>2 DEF TableInv, Checks
<1> HIDE DEF b
<1>4. /\ Has(name) <=> name \in Types \/ IsVariable(name)
      /\ IsVariable(name) <=> \E c \in Declarations(program) : program[c].name = name
  BY <1>3, TableMeans
<1>5. IsVariable(name) <=> name \in Declared(program)
  BY <1>4 DEF Declared
<1>6. ASSUME IsVariable(name)
      PROVE  TypesOf(name) = {TypeDeclared(program, name)}
  <2>1. PICK c \in Declarations(program) : program[c].name = name
    BY <1>1, <1>5, <1>6, DeclarationFacts
  <2>2. table[name].type = program[c].type
    BY <1>3, <2>1, TableEntry
  <2>3. TypeDeclared(program, name) = program[c].type
    BY <1>1, <2>1, DeclarationFacts
  <2> QED
    BY <1>6, <2>2, <2>3 DEF TypesOf
<1> QED
  BY <1>4, <1>5, <1>6

(* While it is being built, it tells the builder whether the definition it *)
(* is at declares its name.                                                *)
LEMMA BuilderDeclares ==
  ASSUME TypeOK, TableInv, Visits("build", "VariableDefinition")
  PROVE  /\ child \in DefinitionsOf(program)
         /\ ~Redefines(Child.name) /\ IsType(Child.type) <=> Declares(program, child)
<1>1. /\ program \in Programs /\ child \in 1..Len(program) /\ Reached = child
      /\ phase # "crashed"
      /\ Child = program[child] /\ Child.kind = "VariableDefinition"
  BY DEF TypeOK, Visits, Reached, Child
<1>2. child \in DefinitionsOf(program) /\ child \in Nat
  BY <1>1, ProgramFacts DEF DefinitionsOf, OfKind
<1>3. /\ Has(Child.name) <=>
           \/ Child.name \in Types
           \/ \E c \in DeclaredBefore(program, child) : program[c].name = Child.name
      /\ IsType(Child.type) <=> Child.type \in Types
  BY <1>1, TableMeans DEF TableInv
<1>4. ASSUME Child.name \notin Types, NEW d \in DefinitionsOf(program), d < child,
             program[d].name = Child.name, program[d].type \in Types
      PROVE  Has(Child.name)
  <2>1. PICK c \in Declarations(program) : c <= d /\ program[c].name = program[d].name
    BY <1>1, <1>4, FirstDeclares
  <2>2. c \in DefinitionsOf(program) /\ c \in Nat /\ d \in Nat
    BY <1>1, <2>1, ProgramFacts, DeclarationFacts
  <2>3. c \in DeclaredBefore(program, child)
    BY <1>2, <1>4, <2>1, <2>2 DEF DeclaredBefore
  <2> QED
    BY <1>3, <1>4, <2>1, <2>3
<1>5. ASSUME Has(Child.name), Child.name \notin Types
      PROVE  ~Declares(program, child)
  <2>1. PICK c \in DeclaredBefore(program, child) : program[c].name = Child.name
    BY <1>3, <1>5
  <2>2. c \in DefinitionsOf(program) /\ c < child /\ program[c].type \in Types
    BY <1>1, <2>1, DeclarationFacts DEF DeclaredBefore
  <2> QED
    BY <1>1, <2>1, <2>2 DEF Declares
<1> QED
  BY <1>1, <1>2, <1>3, <1>4, <1>5 DEF Declares, Redefines

----------------------------------------------------------------------------
(* The builder.                                                            *)

LEMMA BadChild ==
  ASSUME NEW p
  PROVE  /\ \A d \in DefinitionsOf(p) : ~DefinitionFine(p, d) => ~WellTyped(p)
         /\ \A a \in AssignmentsOf(p) : ~AssignmentFine(p, p[a]) => ~WellTyped(p)
BY DEF WellTyped

LEMMA BuilderRest ==
  ASSUME CascadeInv, phase = "build", target' = target, phase' \in Checks => child' = 1,
         CascadeInv'
  PROVE  PassedInv' /\ TargetsInv' /\ InsideInv' /\ CoveredInv' /\ TypedInv'
<1>1. target' = 0
  BY BuildFacts
<1>2. PassedInv'
  <2> SUFFICES ASSUME phase' \in Checks, NEW c \in 1..Len(program'), c < child'
               PROVE  FALSE
    BY DEF PassedInv
  <2> QED
    OBVIOUS
<1> QED
  BY <1>1, <1>2 DEF TargetsInv, InsideInv, CoveredInv, TypedInv

LEMMA BuilderTable ==
  ASSUME TypeOK, TableInv, HollowInv, phase = "build", program' = program, phase' = "build",
         child' = child + 1, child \in 1..Len(program),
         \/ /\ Child.kind = "VariableDefinition" /\ ~Declares(program, child)
            /\ table' = table /\ diags' # <<>>
         \/ /\ Child.kind = "AssignmentStatement" /\ ~Hollow[Child.expr]
            /\ table' = table /\ diags' = diags
         \/ /\ Child.kind = "VariableDefinition" /\ Declares(program, child)
            /\ AddEntry(Child.name, [kind |-> "Variable", type |-> Child.type])
            /\ ~Has(Child.name) /\ diags' = diags
  PROVE  TableInv' /\ HollowInv'
<1> DEFINE p == program
           now == DeclaredBefore(p, child)
           then == DeclaredBefore(p, child + 1)
<1>1. /\ p \in Programs /\ child \in Nat /\ Reached = child /\ Reached' = child + 1
      /\ Child = p[child]
  BY BasicFacts DEF TypeOK, Reached, Child
<1>2. \A d \in DefinitionsOf(p) : d \in Nat /\ (d < child + 1 => d < child \/ d = child)
  BY <1>1, ProgramFacts
<1>3. TableHolds(p, child, table) /\
      (diags = <<>> => \A d \in DefinitionsOf(p) : d < child => Declares(p, d))
  BY <1>1 DEF TableInv
<1>4. DefinitionsOf(p) = {c \in 1..Len(p) : p[c].kind = "VariableDefinition"}
  BY DEF DefinitionsOf, OfKind
<1>5. then = now \cup IF child \in Declarations(p) THEN {child} ELSE {}
  BY <1>1, <1>2 DEF DeclaredBefore, Declarations
<1>6. /\ TableHolds(p, child + 1, table')
      /\ diags' = <<>> => \A d \in DefinitionsOf(p) : d < child + 1 => Declares(p, d)
  <2>1. CASE /\ Child.kind = "VariableDefinition" /\ ~Declares(p, child)
             /\ table' = table /\ diags' # <<>>
    <3>1. then = now
      BY <1>5, <2>1 DEF Declarations
    <3> QED
      BY <1>3, <2>1, <3>1 DEF TableHolds
  <2>2. CASE /\ Child.kind = "AssignmentStatement"
             /\ table' = table /\ diags' = diags
    <3>1. child \notin DefinitionsOf(p)
      BY <1>1, <1>4, <2>2
    <3>2. then = now
      BY <1>5, <3>1 DEF Declarations
    <3> QED
      BY <1>2, <1>3, <2>2, <3>1, <3>2 DEF TableHolds
  <2>3. CASE /\ Child.kind = "VariableDefinition" /\ Declares(p, child)
             /\ AddEntry(Child.name, [kind |-> "Variable", type |-> Child.type])
             /\ ~Has(Child.name) /\ diags' = diags
    <3> DEFINE entry == [kind |-> "Variable", type |-> Child.type]
    <3>1. child \in Declarations(p)
      BY <1>1, <1>4, <2>3 DEF Declarations
    <3>2. then = now \cup {child}
      BY <1>5, <3>1
    <3>3. table' = [text \in DOMAIN table \cup {Child.name} |->
                      IF Has(text) THEN table[text] ELSE entry]
      BY <2>3 DEF AddEntry
    <3>4. DOMAIN table' = DOMAIN table \cup {Child.name}
      BY <3>3
    <3>5. DOMAIN table = Types \cup {p[c].name : c \in now}
      BY <1>3 DEF TableHolds
    <3>6. DOMAIN table' = Types \cup {p[c].name : c \in then}
      BY <1>1, <3>2, <3>4, <3>5
    <3>7. ASSUME NEW c \in then
          PROVE  table'[p[c].name] = [kind |-> "Variable", type |-> p[c].type]
      <4>1. CASE c = child
        <5>1. table'[Child.name] = entry
          BY <2>3, <3>3
        <5> QED
          BY <1>1, <4>1, <5>1
      <4>2. CASE c \in now
        <5>1. Has(p[c].name)
          BY <3>5, <4>2 DEF Has
        <5>2. table'[p[c].name] = table[p[c].name]
          BY <3>3, <5>1 DEF Has
        <5>3. table[p[c].name] = [kind |-> "Variable", type |-> p[c].type]
          BY <1>3, <4>2 DEF TableHolds
        <5> QED
          BY <5>2, <5>3
      <4> QED
        BY <3>2, <3>7, <4>1, <4>2
    <3>8. TableHolds(p, child + 1, table')
      BY <3>6, <3>7 DEF TableHolds
    <3> QED
      BY <1>2, <1>3, <2>3, <3>8
  <2> QED
    BY <2>1, <2>2, <2>3
<1>7. TableInv'
  <2>1. p' = p /\ Reached' = child + 1
    BY <1>1
  <2> QED
    BY <1>6, <2>1 DEF TableInv
<1>8. ASSUME NEW a \in AssignmentsOf(p), a < child + 1
      PROVE  ~Hollow[p[a].expr]
  <2>1. a \in Nat /\ p[a].kind = "AssignmentStatement"
    BY <1>1, ProgramFacts
  <2>2. CASE a < child
    BY <1>1, <2>2 DEF HollowInv
  <2>3. CASE a = child
    BY <1>1, <2>1, <2>3
  <2> QED
    BY <1>1, <1>8, <2>1, <2>2, <2>3
<1>9. HollowInv'
  BY <1>1, <1>8 DEF HollowInv
<1> QED
  BY <1>7, <1>9

LEMMA BuilderVerdict ==
  ASSUME CascadeInv, CascadeInv', VerdictInv,
         Redefinition \/ UndefinedType \/ Declare \/ Traverse \/ TraverseNull \/ EndOfBuild
  PROVE  VerdictInv'
<1>1. /\ TypeOK /\ phase = "build" /\ program \in Programs
      /\ program' = program /\ target' = target /\ undefined' = undefined
      /\ TableInv /\ HollowInv /\ EndInv /\ RejectInv
  BY CascadeFacts DEF VerdictInv, TypeOK, Redefinition, UndefinedType, Declare, Traverse,
     TraverseNull, EndOfBuild, Visits
<1>2. CASE Redefinition \/ UndefinedType
  <2>1. /\ Visits("build", "VariableDefinition")
        /\ Redefines(Child.name) \/ ~IsType(Child.type)
        /\ phase' = phase /\ child' = child + 1 /\ table' = table
        /\ \E id \in DiagIDs : Report(id, "definition")
    BY <1>2 DEF Redefinition, UndefinedType, DiagIDs
  <2>2. child \in DefinitionsOf(program) /\ ~Declares(program, child)
    BY <1>1, <2>1, BuilderDeclares
  <2>3. child \in 1..Len(program) /\ Child.kind = "VariableDefinition"
    BY <2>1 DEF Visits
  <2>4. diags' # <<>>
    <3>1. PICK id \in DiagIDs : Report(id, "definition")
      BY <2>1
    <3>2. Len(diags') = Len(diags) + 1 /\ Len(diags) \in Nat
      BY <1>1, <3>1, ReportFacts
    <3> QED
      BY <3>2
  <2>5. TableInv' /\ HollowInv'
    BY <1>1, <2>1, <2>2, <2>3, <2>4, BuilderTable
  <2>6. ~WellTyped(program)
    BY <2>2, BadChild DEF DefinitionFine, Declarations
  <2>7. EndInv' /\ RejectInv'
    BY <1>1, <2>1, <2>6 DEF EndInv, RejectInv
  <2>8. PassedInv' /\ TargetsInv' /\ InsideInv' /\ CoveredInv' /\ TypedInv'
    BY <1>1, <2>1, BuilderRest DEF Checks
  <2> QED
    BY <2>5, <2>7, <2>8 DEF VerdictInv
<1>3. CASE Declare
  <2>1. /\ Visits("build", "VariableDefinition")
        /\ ~Redefines(Child.name) /\ IsType(Child.type)
        /\ phase' = phase /\ child' = child + 1 /\ diags' = diags
        /\ AddEntry(Child.name, [kind |-> "Variable", type |-> table[Child.type].type])
    BY <1>3 DEF Declare
  <2>2. child \in DefinitionsOf(program) /\ Declares(program, child) /\ ~Has(Child.name)
    BY <1>1, <2>1, BuilderDeclares DEF Redefines
  <2>3. child \in 1..Len(program) /\ Child.kind = "VariableDefinition" /\ Child = program[child]
    BY <2>1 DEF Visits, Child
  <2>4. table[Child.type].type = Child.type
    <3>1. Child.type \in Types
      BY <2>2, <2>3 DEF Declares
    <3>2. \A type \in Types : table[type] = Builtins[type] /\ Builtins[type].type = type
      BY <1>1 DEF TypeOK, Builtins
    <3> QED
      BY <3>1, <3>2
  <2>5. TableInv' /\ HollowInv'
    BY <1>1, <2>1, <2>2, <2>3, <2>4, BuilderTable
  <2>6. EndInv' /\ RejectInv'
    BY <1>1, <2>1 DEF EndInv, RejectInv
  <2>7. PassedInv' /\ TargetsInv' /\ InsideInv' /\ CoveredInv' /\ TypedInv'
    BY <1>1, <2>1, BuilderRest DEF Checks
  <2> QED
    BY <2>5, <2>6, <2>7 DEF VerdictInv
<1>4. CASE Traverse
  <2>1. /\ child \in 1..Len(program) /\ Child.kind = "AssignmentStatement"
        /\ ~Hollow[Child.expr] /\ phase' = phase /\ child' = child + 1
        /\ diags' = diags /\ table' = table
    BY <1>4 DEF Traverse, Visits
  <2>2. TableInv' /\ HollowInv'
    BY <1>1, <2>1, BuilderTable
  <2>3. EndInv' /\ RejectInv'
    BY <1>1, <2>1 DEF EndInv, RejectInv
  <2>4. PassedInv' /\ TargetsInv' /\ InsideInv' /\ CoveredInv' /\ TypedInv'
    BY <1>1, <2>1, BuilderRest DEF Checks
  <2> QED
    BY <2>2, <2>3, <2>4 DEF VerdictInv
<1>5. CASE TraverseNull
  <2>1. /\ child \in 1..Len(program) /\ program[child].kind = "AssignmentStatement"
        /\ Hollow[program[child].expr] /\ phase' = "crashed" /\ diags' = diags
    BY <1>5 DEF TraverseNull, Visits, Child
  <2>2. child \in AssignmentsOf(program)
    BY <2>1 DEF AssignmentsOf, OfKind
  <2>3. Null \in Within[program[child].expr]
    BY <1>1, <2>1, <2>2, ProgramFacts, HollowMeansNull
  <2>4. Null.kind \in {"UnaryExpression", "nullptr"}
    BY DEF Null
  <2>5. Untypable(program)
    BY <2>2, <2>3, <2>4 DEF Untypable
  <2>6. TableInv' /\ HollowInv' /\ EndInv' /\ RejectInv'
    BY <1>1, <2>1, <2>5 DEF TableInv, HollowInv, EndInv, RejectInv
  <2>7. PassedInv' /\ TargetsInv' /\ InsideInv' /\ CoveredInv' /\ TypedInv'
    BY <1>1, <2>1, BuilderRest DEF Checks
  <2> QED
    BY <2>6, <2>7 DEF VerdictInv
<1>6. CASE EndOfBuild
  <2>1. /\ phase' = "check" /\ child' = 1 /\ diags' = diags /\ table' = table
        /\ child = Len(program) + 1
    BY <1>1, <1>6 DEF EndOfBuild, TypeOK
  <2>2. Reached' = Reached
    BY <1>1, <2>1 DEF Reached
  <2>3. TableInv' /\ HollowInv' /\ EndInv' /\ RejectInv'
    BY <1>1, <2>1, <2>2 DEF TableInv, HollowInv, EndInv, RejectInv
  <2>4. PassedInv' /\ TargetsInv' /\ InsideInv' /\ CoveredInv' /\ TypedInv'
    BY <1>1, <2>1, BuilderRest DEF Checks
  <2> QED
    BY <2>3, <2>4 DEF VerdictInv
<1> QED
  BY <1>2, <1>3, <1>4, <1>5, <1>6

----------------------------------------------------------------------------
(* The type checker: what all its steps have in common.                    *)

LEMMA UndefinedStays ==
  ASSUME CheckerStep, undefined
  PROVE  undefined'
BY DEF CheckerStep, CheckDefinition, VisitLiteral, VisitName, VisitUndefinedName,
       VisitGrouping, VisitUnary, EndUnary, VisitBinary, VisitRHS, EndBinary,
       CheckAssignment, CheckTarget, CheckUndefinedTarget, EndAssignment,
       BadAnyCast, EndOfCheck, Crash

LEMMA CheckerFacts ==
  ASSUME CascadeInv, VerdictInv, CheckerStep
  PROVE  /\ TypeOK /\ phase = "check" /\ phase \in Checks /\ phase' # "build"
         /\ program \in Programs /\ program' = program /\ table' = table
         /\ child \in Nat /\ target \in Nat /\ Len(program) \in Nat
         /\ diags' = <<>> => diags = <<>>
         /\ undefined => undefined'
         /\ TableInv /\ HollowInv /\ EndInv /\ RejectInv /\ PassedInv /\ TargetsInv
         /\ InsideInv /\ CoveredInv /\ TypedInv
         /\ TableInv' /\ HollowInv'
<1>1. /\ TypeOK /\ phase = "check" /\ phase \in Checks /\ phase' # "build"
      /\ program \in Programs /\ program' = program /\ table' = table
      /\ child \in Nat /\ target \in Nat /\ Len(program) \in Nat
      /\ TableInv /\ HollowInv
  BY CheckerKeeps, CascadeFacts DEF VerdictInv, Checks, TypeOK
<1>2. diags' = <<>> => diags = <<>>
  <2>1. CASE \E id \in DiagIDs, place \in {"definition", "expression", "target"} :
               Report(id, place)
    <3>1. Len(diags') = Len(diags) + 1 /\ Len(diags) \in Nat
      BY <1>1, <2>1, ReportFacts
    <3> QED
      BY <3>1
  <2> QED
    BY <2>1, CheckerKeeps DEF DiagsGrow
<1>3. Reached' = Reached
  BY <1>1 DEF Reached
<1>4. TableInv' /\ HollowInv'
  BY <1>1, <1>2, <1>3 DEF TableInv, HollowInv
<1> QED
  BY <1>1, <1>2, <1>4, UndefinedStays DEF VerdictInv

LEMMA CheckerGoesOn ==
  ASSUME CascadeInv, VerdictInv, CheckerStep, phase' = "check",
         undefined' => undefined \/ Untypable(program),
         ~undefined' => diags' = diags \/ ~WellTyped(program)
  PROVE  EndInv' /\ RejectInv'
BY CheckerFacts DEF EndInv, RejectInv

LEMMA PassesMore ==
  ASSUME NEW p, NEW c, NEW clean \in BOOLEAN, NEW more \in BOOLEAN,
         ChildPasses(p, c, clean), more => clean
  PROVE  ChildPasses(p, c, more)
BY DEF ChildPasses, NodePasses

LEMMA CheckerPasses ==
  ASSUME CascadeInv, VerdictInv, CheckerStep,
         \/ child' = child
         \/ child' = child + 1 /\ (~undefined' => ChildPasses(program, child, diags' = <<>>))
  PROVE  PassedInv'
<1> SUFFICES ASSUME ~undefined', NEW c \in 1..Len(program), c < child'
             PROVE  ChildPasses(program, c, diags' = <<>>)
  BY CheckerFacts DEF PassedInv
<1>1. CASE c < child
  <2>1. ChildPasses(program, c, diags = <<>>)
    BY <1>1, CheckerFacts DEF PassedInv
  <2> DEFINE clean == diags = <<>>
             more == diags' = <<>>
  <2>2. clean \in BOOLEAN /\ more \in BOOLEAN /\ (more => clean)
    BY CheckerFacts
  <2>3. ChildPasses(program, c, clean)
    BY <2>1
  <2> HIDE DEF clean, more
  <2>4. ChildPasses(program, c, more)
    BY <2>2, <2>3, PassesMore
  <2> QED
    BY <2>4 DEF more
<1>2. CASE c = child
  BY <1>2, CheckerFacts
<1> QED
  BY <1>1, <1>2, CheckerFacts

(* The targets before the one to be compared, and its expression, pass.    *)
LEMMA TargetsStay ==
  ASSUME CascadeInv, VerdictInv, CheckerStep, target' = target, child' = child
  PROVE  TargetsInv'
<1>1. Child' = Child
  BY CheckerFacts DEF Child
<1> SUFFICES ASSUME phase' = "check", ~undefined', target > 0,
                    NEW i \in 1..Len(Child.targets), i < target
             PROVE  /\ Child.targets[i] \notin Types
                    /\ diags' = <<>> => TargetFine(program, Child, i)
  BY <1>1, CheckerFacts DEF TargetsInv
<1> QED
  BY CheckerFacts DEF TargetsInv

LEMMA NoTarget ==
  ASSUME CascadeInv, VerdictInv, CheckerStep, target' = 0
  PROVE  TargetsInv' /\ InsideInv' /\ CoveredInv' /\ TypedInv'
BY DEF TargetsInv, InsideInv, CoveredInv, TypedInv

LEMMA ExpressionStays ==
  ASSUME CascadeInv, VerdictInv, CheckerStep, child' = child, stack' = stack, result' = result,
         target > 0
  PROVE  InsideInv' /\ CoveredInv' /\ TypedInv'
<1>1. Child' = Child
  BY CheckerFacts DEF Child
<1>2. InsideInv'
  BY <1>1, CheckerFacts DEF InsideInv
<1>3. CoveredInv'
  <2> SUFFICES ASSUME ~undefined'
               PROVE  Covered(program, stack, result, Child.expr, diags' = <<>>)
    BY <1>1, CheckerFacts DEF CoveredInv
  <2>1. Covered(program, stack, result, Child.expr, diags = <<>>)
    BY CheckerFacts DEF CoveredInv
  <2> QED
    BY <2>1, CheckerFacts DEF Covered, NodePasses
<1>4. TypedInv'
  BY <1>1, CheckerFacts DEF TypedInv
<1> QED
  BY <1>2, <1>3, <1>4

----------------------------------------------------------------------------
(* The type checker: definitions and targets.                              *)

(* What the type checker makes of a name, unless that is undefined.        *)
LEMMA NameMeans ==
  ASSUME CascadeInv, VerdictInv, CheckerStep, NEW name
  PROVE  /\ Has(name) <=> name \in Types \cup Declared(program)
         /\ IsVariable(name) =>
              /\ TypesOf(name) = {TypeDeclared(program, name)}
              /\ name \in Declared(program) /\ name \notin Types
              /\ TypeDeclared(program, name) \in Types \ {"<None>", "<Empty>"}
         /\ name \in Declared(program) => IsVariable(name)
BY CheckerFacts, TableIsComplete, DeclarationFacts

LEMMA DefinitionVerdict ==
  ASSUME CascadeInv, CascadeInv', VerdictInv, CheckDefinition
  PROVE  VerdictInv'
<1> USE DEF CheckerStep
<1> DEFINE p == program
           name == Child.name
           t == Child.value.type
           u == TypeDeclared(p, name)
<1>1. /\ child \in DefinitionsOf(p) /\ Child = p[child] /\ child \in 1..Len(p)
      /\ Child.kind = "VariableDefinition"
  BY DEF CheckDefinition, Visits, Child, DefinitionsOf, OfKind
<1>2. /\ phase' = "check" /\ target' = target /\ child' = child + 1
      /\ undefined' = (undefined \/ ~IsVariable(name))
      /\ \E type \in TypesOf(name) :
           IF Compatible(t, type)
           THEN UNCHANGED diags
           ELSE Report("TypeMismatch", "definition")
  BY DEF CheckDefinition, Visits
<1>3. p \in Programs /\ t \in Types
  BY <1>1, CheckerFacts, ProgramFacts DEF LiteralTypes, Types
<1>4. target = 0
  BY <1>1, CascadeFacts DEF InAssignment
<1>5. undefined' => undefined \/ Untypable(p)
  <2> SUFFICES ASSUME ~IsVariable(name) PROVE Untypable(p)
    BY <1>2
  <2>1. name \notin Declared(p)
    BY NameMeans
  <2> QED
    BY <1>1, <2>1 DEF Untypable
<1>6. ASSUME ~undefined'
      PROVE  /\ name \in Declared(p) /\ u \in Types \ {"<None>", "<Empty>"}
             /\ MayHold(u, t) => diags' = diags
             /\ ~MayHold(u, t) => diags' # <<>>
  <2>1. TypesOf(name) = {u} /\ name \in Declared(p) /\ u \in Types \ {"<None>", "<Empty>"}
    BY <1>2, <1>6, NameMeans
  <2>2. Compatible(t, u) <=> MayHold(u, t)
    BY <1>3, <2>1, CompatibleMeans
  <2>3. IF MayHold(u, t) THEN UNCHANGED diags ELSE Report("TypeMismatch", "definition")
    BY <1>2, <2>1, <2>2
  <2>4. Report("TypeMismatch", "definition") => diags' # <<>>
    <3>1. Report("TypeMismatch", "definition") =>
            Len(diags') = Len(diags) + 1 /\ Len(diags) \in Nat
      BY CheckerFacts, ReportFacts DEF DiagIDs
    <3> QED
      BY <3>1
  <2> QED
    BY <2>1, <2>3, <2>4
<1>7. child \in Declarations(p) => u = p[child].type
  BY <1>1, <1>3, DeclarationFacts
<1>8. ~undefined' => diags' = diags \/ ~WellTyped(p)
  <2>1. ASSUME ~undefined', ~MayHold(u, t)
        PROVE  ~WellTyped(p)
    <3>1. ~DefinitionFine(p, child)
      BY <1>1, <1>7, <2>1 DEF DefinitionFine
    <3> QED
      BY <1>1, <3>1, BadChild
  <2> QED
    BY <1>6, <2>1
<1>9. ~undefined' => ChildPasses(p, child, diags' = <<>>)
  <2> SUFFICES ASSUME ~undefined', diags' = <<>>
               PROVE  DefinitionFine(p, child)
    BY <1>1, <1>6 DEF ChildPasses
  <2>1. \A d \in DefinitionsOf(p) : Declares(p, d)
    <3>1. /\ diags = <<>> /\ \A d \in DefinitionsOf(p) : d \in 1..Len(p) /\ d < Len(p) + 1
      BY <1>3, CheckerFacts, ProgramFacts
    <3>2. Reached = Len(p) + 1
      BY CheckerFacts DEF Reached
    <3> QED
      BY <3>1, <3>2, CheckerFacts DEF TableInv
  <2>2. /\ child \in Declarations(p)
        /\ \A d \in DefinitionsOf(p) : d # child => p[d].name # p[child].name
    BY <1>1, <1>3, <2>1, AllDeclared
  <2>3. MayHold(u, t)
    BY <1>6
  <2> QED
    BY <1>1, <1>7, <2>2, <2>3 DEF DefinitionFine
<1>10. EndInv' /\ RejectInv'
  BY <1>2, <1>5, <1>8, CheckerGoesOn
<1>11. PassedInv'
  BY <1>2, <1>9, CheckerPasses
<1>12. TargetsInv' /\ InsideInv' /\ CoveredInv' /\ TypedInv'
  BY <1>2, <1>4, NoTarget
<1> QED
  BY <1>10, <1>11, <1>12, CheckerFacts DEF VerdictInv

(* The assignment being checked.                                           *)
LEMMA AssignmentFacts ==
  ASSUME CascadeInv, VerdictInv, CheckerStep, Child.kind = "AssignmentStatement",
         child \in 1..Len(program)
  PROVE  /\ child \in AssignmentsOf(program) /\ Child = program[child]
         /\ Child.expr \in Expressions
         /\ Child.targets \in Seq(Names) /\ Len(Child.targets) \in Nat
         /\ Null \notin Within[Child.expr]
         /\ Within[Child.expr] \subseteq Expressions
         /\ Child.expr \in Within[Child.expr]
<1>1. child \in AssignmentsOf(program) /\ Child = program[child] /\ program \in Programs
  BY CheckerFacts DEF AssignmentsOf, OfKind, Child
<1>2. /\ Child.expr \in Expressions /\ Child.targets \in Seq(Names)
      /\ Len(Child.targets) \in Nat
  BY <1>1, ProgramFacts
<1>3. ~Hollow[Child.expr]
  <2>1. child < Reached
    BY <1>1, CheckerFacts DEF Reached
  <2> QED
    BY <1>1, <2>1, CheckerFacts DEF HollowInv
<1> QED
  BY <1>1, <1>2, <1>3, HollowMeansNull, WithinIsClosed

LEMMA TargetVerdict ==
  ASSUME CascadeInv, CascadeInv', VerdictInv, CheckTarget \/ CheckUndefinedTarget
  PROVE  VerdictInv'
<1> USE DEF CheckerStep
<1> DEFINE p == program
           name == Child.targets[target]
           u == TypeDeclared(p, name)
           type == StaticType(p)[Child.expr]
<1>1. /\ phase' = "check" /\ phase = "check" /\ child' = child /\ stack' = stack
      /\ result' = result /\ target' = target + 1 /\ target \in 1..Len(Child.targets)
      /\ stack = <<>> /\ result # EmptyAny /\ Child.kind = "AssignmentStatement"
      /\ child \in 1..Len(p)
  BY DEF CheckTarget, CheckUndefinedTarget, AtTarget, Visits
<1>2. /\ child \in AssignmentsOf(p) /\ Child = p[child] /\ p \in Programs
      /\ Len(Child.targets) \in Nat
  BY <1>1, AssignmentFacts, CheckerFacts
<1>3. CheckTarget =>
        /\ Has(name)
        /\ undefined' = (undefined \/ ~IsVariable(name))
        /\ \E v \in TypesOf(name) :
             IF result # Nothing /\ ~Compatible(result, v)
             THEN Report("TypeMismatch", "target")
             ELSE UNCHANGED diags
  BY DEF CheckTarget
<1>4. CheckUndefinedTarget =>
        ~Has(name) /\ undefined' = undefined /\ Report("UndefinedName", "target")
  BY DEF CheckUndefinedTarget
<1>5. \A id \in DiagIDs : Report(id, "target") => diags' # <<>>
  <2>1. \A id \in DiagIDs : Report(id, "target") =>
          Len(diags') = Len(diags) + 1 /\ Len(diags) \in Nat
    BY CheckerFacts, ReportFacts
  <2> QED
    BY <2>1
<1>6. undefined' => undefined \/ Untypable(p)
  <2> SUFFICES ASSUME CheckTarget, ~IsVariable(name) PROVE Untypable(p)
    BY <1>3, <1>4
  <2>1. name \in Types
    BY <1>3, NameMeans
  <2> QED
    BY <1>1, <1>2, <2>1 DEF Untypable
<1>7. ASSUME NEW i \in 1..Len(Child.targets), ~TargetFine(p, Child, i)
      PROVE  ~WellTyped(p)
  <2>1. ~AssignmentFine(p, p[child])
    BY <1>2, <1>7 DEF AssignmentFine, TargetFine
  <2> QED
    BY <1>2, <2>1, BadChild
<1>8. ASSUME ~undefined', CheckTarget
      PROVE  /\ name \notin Types /\ name \in Declared(p)
             /\ u \in Types \ {"<None>", "<Empty>"}
             /\ IF result # Nothing /\ ~MayHold(u, result)
                THEN Report("TypeMismatch", "target")
                ELSE UNCHANGED diags
  <2>1. /\ TypesOf(name) = {u} /\ name \in Declared(p) /\ name \notin Types
        /\ u \in Types \ {"<None>", "<Empty>"}
    BY <1>3, <1>8, NameMeans
  <2>2. result # Nothing => result \in Types
    BY <1>1, CascadeFacts DEF Optionals
  <2>3. result # Nothing => (Compatible(result, u) <=> MayHold(u, result))
    BY <2>1, <2>2, CompatibleMeans
  <2> QED
    BY <1>3, <1>8, <2>1, <2>3
<1>9. ASSUME ~undefined', diags = <<>>
      PROVE  Matches(result, type)
  <2>1. Returning(stack) /\ TypedInv /\ ~undefined /\ target > 0
    BY <1>1, <1>9, CheckerFacts DEF Returning
  <2> QED
    BY <1>1, <1>9, <2>1 DEF TypedInv, ResultTyped, Asked
<1>10. /\ Matches(result, type) /\ result # Nothing => type # Unknown /\ result = type
       /\ Matches(result, type) /\ type # Unknown => result # Nothing /\ result = type
  BY DEF Nothing, Types, Matches
<1>11. ASSUME ~undefined', diags = <<>>, diags' # <<>>
       PROVE  ~TargetFine(p, Child, target)
  <2>1. CASE CheckUndefinedTarget
    BY <1>4, <2>1, NameMeans DEF TargetFine
  <2>2. CASE CheckTarget
    <3>1. result # Nothing /\ ~MayHold(u, result)
      BY <1>8, <1>11, <2>2
    <3>2. type # Unknown /\ result = type
      BY <1>9, <1>10, <1>11, <3>1
    <3> QED
      BY <3>1, <3>2 DEF TargetFine
  <2> QED
    BY <2>1, <2>2
<1>12. ~undefined' => diags' = diags \/ ~WellTyped(p)
  <2>1. CASE diags = <<>>
    BY <1>1, <1>7, <1>11, <2>1
  <2>2. CASE diags # <<>>
    BY <2>2, CheckerFacts DEF RejectInv
  <2> QED
    BY <2>1, <2>2
<1>13. ASSUME ~undefined'
       PROVE  /\ name \notin Types
              /\ diags' = <<>> => TargetFine(p, Child, target)
  <2>1. CASE CheckUndefinedTarget
    <3>1. diags' # <<>> /\ name \notin Types
      BY <1>4, <1>5, <2>1, NameMeans DEF DiagIDs
    <3> QED
      BY <3>1
  <2>2. CASE CheckTarget
    <3>1. name \notin Types /\ name \in Declared(p)
      BY <1>8, <1>13, <2>2
    <3>2. ASSUME diags' = <<>>, type # Unknown
          PROVE  MayHold(u, type)
      <4>1. "TypeMismatch" \in DiagIDs
        BY DEF DiagIDs
      <4>2. result = Nothing \/ MayHold(u, result)
        BY <1>5, <1>8, <1>13, <2>2, <3>2, <4>1
      <4>3. result = type /\ result # Nothing
        BY <1>9, <1>10, <1>13, <3>2, CheckerFacts
      <4> QED
        BY <4>2, <4>3
    <3> QED
      BY <3>1, <3>2 DEF TargetFine
  <2> QED
    BY <2>1, <2>2
<1>14. TargetsInv'
  <2>1. Child' = Child
    BY <1>1, CheckerFacts DEF Child
  <2> SUFFICES ASSUME ~undefined', NEW i \in 1..Len(Child.targets), i < target + 1
               PROVE  /\ Child.targets[i] \notin Types
                      /\ diags' = <<>> => TargetFine(p, Child, i)
    BY <1>1, <2>1, CheckerFacts DEF TargetsInv
  <2>2. CASE i = target
    BY <1>13, <2>2
  <2>3. CASE i < target
    BY <1>1, <2>3, CheckerFacts DEF TargetsInv
  <2> QED
    BY <1>1, <1>2, <2>2, <2>3
<1>15. EndInv' /\ RejectInv'
  BY <1>1, <1>6, <1>12, CheckerGoesOn
<1>16. PassedInv' /\ InsideInv' /\ CoveredInv' /\ TypedInv'
  BY <1>1, CheckerPasses, ExpressionStays
<1> QED
  BY <1>14, <1>15, <1>16, CheckerFacts DEF VerdictInv

----------------------------------------------------------------------------
(* The type checker: the beginning and the end of an assignment, and the   *)
(* end of the analysis.                                                    *)

LEMMA OneFrame ==
  ASSUME NEW f
  PROVE  Len(<<f>>) = 1 /\ <<f>>[1] = f /\ <<f>> # <<>>
OBVIOUS

LEMMA AssignmentVerdict ==
  ASSUME CascadeInv, CascadeInv', VerdictInv, CheckAssignment
  PROVE  VerdictInv'
<1> USE DEF CheckerStep
<1> DEFINE e == Child.expr
           f == Visit(e)
<1>1. /\ phase' = "check" /\ phase = "check" /\ child' = child /\ stack' = <<f>>
      /\ target' = 1 /\ diags' = diags /\ undefined' = undefined
      /\ Child.kind = "AssignmentStatement" /\ child \in 1..Len(program)
  BY DEF CheckAssignment, Visits
<1>2. /\ e \in Expressions /\ e # Null /\ e \in Within[e]
      /\ Child' = Child /\ Len(Child.targets) \in Nat
  BY <1>1, AssignmentFacts, CheckerFacts DEF Child
<1>3. f.at = "visit" /\ f.node = e
  BY DEF Visit, Frame
<1>4. Len(stack') = 1 /\ stack'[1] = f /\ stack' # <<>>
  BY <1>1, OneFrame
<1> HIDE DEF f
<1>5. ~Returning(stack')
  BY <1>3, <1>4 DEF Returning
<1>6. InsideInv'
  <2>1. Inside(stack', e)
    BY <1>2, <1>3, <1>4 DEF Inside, FrameInside
  <2> QED
    BY <1>2, <1>5, <2>1 DEF InsideInv, EmptyExplained
<1>7. CoveredInv'
  <2>1. Todo(f) = Within[e]
    BY <1>2, <1>3 DEF Todo
  <2>2. Within[e] \subseteq ToVisit(stack')
    BY <1>4, <2>1 DEF ToVisit
  <2> QED
    BY <1>2, <2>2 DEF CoveredInv, Covered
<1>8. TypedInv'
  <2>1. Serves(program, stack', e)
    BY <1>3, <1>4 DEF Serves, Caller
  <2>2. OperandsTyped(program, stack')
    BY <1>3, <1>4 DEF OperandsTyped
  <2> QED
    BY <1>2, <1>5, <2>1, <2>2, CheckerFacts DEF TypedInv, ResultTyped
<1>9. TargetsInv'
  BY <1>1, <1>2 DEF TargetsInv
<1>10. EndInv' /\ RejectInv' /\ PassedInv'
  BY <1>1, CheckerGoesOn, CheckerPasses
<1> QED
  BY <1>6, <1>7, <1>8, <1>9, <1>10, CheckerFacts DEF VerdictInv

LEMMA EndAssignmentVerdict ==
  ASSUME CascadeInv, CascadeInv', VerdictInv, EndAssignment
  PROVE  VerdictInv'
<1> USE DEF CheckerStep
<1> DEFINE e == Child.expr
           p == program
<1>1. /\ phase' = "check" /\ phase = "check" /\ child' = child + 1 /\ target' = 0
      /\ diags' = diags /\ undefined' = undefined /\ stack = <<>> /\ result # EmptyAny
      /\ target > Len(Child.targets)
      /\ Child.kind = "AssignmentStatement" /\ child \in 1..Len(p)
  BY DEF EndAssignment, Visits
<1>2. /\ Child = p[child] /\ child \in AssignmentsOf(p) /\ Len(Child.targets) \in Nat
      /\ target \in Nat /\ target > 0
  BY <1>1, AssignmentFacts, CheckerFacts
<1>3. ASSUME ~undefined
      PROVE  ChildPasses(p, child, diags = <<>>)
  <2>1. \A i \in 1..Len(Child.targets) :
          Child.targets[i] \notin Types /\ (diags = <<>> => TargetFine(p, Child, i))
    BY <1>1, <1>2, <1>3, CheckerFacts DEF TargetsInv
  <2>2. Covered(p, stack, result, e, diags = <<>>)
    BY <1>1, <1>2, <1>3, CheckerFacts DEF CoveredInv
  <2>3. ToVisit(stack) = {}
    BY <1>1 DEF ToVisit
  <2>4. \A n \in Within[e] : NodePasses(p, n, diags = <<>>)
    BY <1>1, <2>2, <2>3 DEF Covered
  <2> QED
    BY <1>1, <1>2, <2>1, <2>4 DEF ChildPasses
<1>4. EndInv' /\ RejectInv'
  BY <1>1, CheckerGoesOn
<1>5. PassedInv'
  BY <1>1, <1>3, CheckerPasses
<1>6. TargetsInv' /\ InsideInv' /\ CoveredInv' /\ TypedInv'
  BY <1>1, NoTarget
<1> QED
  BY <1>4, <1>5, <1>6, CheckerFacts DEF VerdictInv

LEMMA EndVerdict ==
  ASSUME CascadeInv, CascadeInv', VerdictInv, BadAnyCast \/ EndOfCheck \/ Crash
  PROVE  VerdictInv'
<1> USE DEF CheckerStep
<1>1. /\ phase = "check" /\ phase' # "check" /\ child' = child
      /\ diags' = diags /\ undefined' = undefined
  BY CheckerFacts DEF BadAnyCast, EndOfCheck, Crash
<1>2. CASE BadAnyCast
  <2>1. Casts /\ result = EmptyAny /\ phase' = "crashed"
    BY <1>2 DEF BadAnyCast
  <2>2. target > 0 /\ Returning(stack)
    <3>1. CASE stack = <<>>
      BY <2>1, <3>1 DEF Casts, Resumes, Working, Returning
    <3>2. CASE stack # <<>>
      BY <2>1, <3>2, CascadeFacts, TopFacts DEF Casts, Resumes, Working, Returning, InAssignment
    <3> QED
      BY <3>1, <3>2
  <2>3. PICK n \in Within[Child.expr] : n.kind = "UnaryExpression"
    BY <1>1, <2>1, <2>2, CheckerFacts DEF InsideInv, EmptyExplained
  <2>4. child \in AssignmentsOf(program) /\ Child = program[child]
    BY <2>2, CascadeFacts, AssignmentFacts DEF InAssignment
  <2>5. Untypable(program)
    BY <2>3, <2>4 DEF Untypable
  <2>6. EndInv' /\ RejectInv'
    BY <1>1, <2>1, <2>5, CheckerFacts DEF EndInv, RejectInv
  <2> QED
    BY <1>1, <2>6, CheckerFacts, CheckerPasses DEF VerdictInv, TargetsInv, InsideInv, CoveredInv,
       TypedInv
<1>3. CASE EndOfCheck
  <2>1. child > Len(program) /\ phase' = IF diags = <<>> THEN "accepted" ELSE "rejected"
    BY <1>3 DEF EndOfCheck
  <2>2. EndInv' /\ RejectInv'
    BY <1>1, <2>1, CheckerFacts DEF EndInv, RejectInv
  <2> QED
    BY <1>1, <2>2, CheckerFacts, CheckerPasses DEF VerdictInv, TargetsInv, InsideInv, CoveredInv,
       TypedInv
<1>4. CASE Crash
  <2>1. undefined /\ phase' = "crashed"
    BY <1>4 DEF Crash
  <2>2. EndInv' /\ RejectInv'
    BY <1>1, <2>1, CheckerFacts DEF EndInv, RejectInv
  <2> QED
    BY <1>1, <2>2, CheckerFacts, CheckerPasses DEF VerdictInv, TargetsInv, InsideInv, CoveredInv,
       TypedInv
<1> QED
  BY <1>2, <1>3, <1>4

----------------------------------------------------------------------------
(* The stack: what goes when an activation returns, is replaced by that of *)
(* the expression it ends with, or calls another.                          *)

LEMMA PoppedFrames ==
  ASSUME NEW S \in Seq(Frames), S # <<>>, NEW T, T = Tail(S)
  PROVE  /\ T \in Seq(Frames) /\ Len(T) = Len(S) - 1 /\ Len(S) \in Nat /\ Len(S) > 0
         /\ \A k \in 2..Len(S) : T[k - 1] = S[k]
         /\ \A k \in 1..Len(T) : T[k] = S[k + 1]
         /\ T = <<>> <=> Len(S) = 1
<1>1. /\ T \in Seq(Frames) /\ Len(T) = Len(S) - 1 /\ Len(S) \in Nat /\ Len(S) > 0
      /\ \A k \in 2..Len(S) : T[k - 1] = S[k]
      /\ \A k \in 1..Len(T) : T[k] = S[k + 1]
  BY PopTop
<1>2. T = <<>> <=> Len(S) = 1
  <2>1. T = <<>> <=> Len(T) = 0
    BY <1>1, EmptySeq
  <2> QED
    BY <1>1, <2>1
<1> QED
  BY <1>1, <1>2

LEMMA PoppedVisits ==
  ASSUME NEW S \in Seq(Frames), S # <<>>, NEW T, T = Tail(S)
  PROVE  ToVisit(S) \subseteq Todo(S[1]) \cup ToVisit(T)
<1> SUFFICES ASSUME NEW n \in ToVisit(S), n \notin Todo(S[1]) PROVE n \in ToVisit(T)
  OBVIOUS
<1>1. PICK k \in 1..Len(S) : n \in Todo(S[k])
  BY DEF ToVisit
<1>2. k - 1 \in 1..Len(T) /\ T[k - 1] = S[k]
  BY PoppedFrames, <1>1
<1> QED
  BY <1>1, <1>2 DEF ToVisit

LEMMA PoppedInside ==
  ASSUME NEW S \in Seq(Frames), S # <<>>, NEW T, T = Tail(S),
         NEW e, Inside(S, e)
  PROVE  Inside(T, e)
BY PoppedFrames DEF Inside

LEMMA PoppedOperands ==
  ASSUME NEW S \in Seq(Frames), S # <<>>, NEW T, T = Tail(S),
         NEW p, OperandsTyped(p, S)
  PROVE  OperandsTyped(p, T)
BY PoppedFrames DEF OperandsTyped

LEMMA PoppedServes ==
  ASSUME NEW S \in Seq(Frames), S # <<>>, NEW T, T = Tail(S),
         NEW p, NEW e, Serves(p, S, e)
  PROVE  Serves(p, T, e)
<1>1. ASSUME NEW k \in 1..Len(T)
      PROVE  StaticType(p)[T[k].node] = StaticType(p)[Caller(T, k, e)]
  <2>1. k + 1 \in 1..Len(S) /\ T[k] = S[k + 1] /\ (k = Len(T) <=> k + 1 = Len(S))
    BY PoppedFrames, <1>1
  <2>2. Caller(S, k + 1, e) = Caller(T, k, e)
    <3>1. CASE k = Len(T)
      BY <2>1, <3>1 DEF Caller
    <3>2. CASE k # Len(T)
      <4>1. k + 1 \in 1..Len(T) /\ T[k + 1] = S[(k + 1) + 1]
        BY PoppedFrames, <1>1, <3>2
      <4> QED
        BY <2>1, <3>2, <4>1 DEF Caller
    <3> QED
      BY <3>1, <3>2
  <2> QED
    BY PoppedFrames, <2>1, <2>2 DEF Serves
<1> QED
  BY <1>1 DEF Serves

LEMMA PoppedAsked ==
  ASSUME NEW S \in Seq(Frames), S # <<>>, NEW T, T = Tail(S), NEW e
  PROVE  Caller(S, 1, e) = Asked(T, e) /\ 1 \in 1..Len(S)
<1>1. CASE Len(S) = 1
  BY PoppedFrames, <1>1 DEF Caller, Asked
<1>2. CASE Len(S) # 1
  <2>1. T[1] = S[1 + 1] /\ T # <<>>
    BY PoppedFrames, <1>2
  <2> QED
    BY PoppedFrames, <1>2, <2>1 DEF Caller, Asked
<1> QED
  BY PoppedFrames, <1>1, <1>2

LEMMA ReplacedFrames ==
  ASSUME NEW S \in Seq(Frames), S # <<>>, NEW f \in Frames,
         NEW T, T = <<f>> \o Tail(S)
  PROVE  /\ T \in Seq(Frames) /\ Len(T) = Len(S) /\ T[1] = f /\ T # <<>>
         /\ \A k \in 2..Len(S) : T[k] = S[k]
         /\ Len(S) \in Nat /\ Len(S) > 0
         /\ \A k \in 1..Len(T) : k = 1 \/ (k \in 2..Len(S) /\ T[k] = S[k])
         /\ 1 \in 1..Len(T) /\ 1..Len(T) = 1..Len(S)
<1>1. /\ T \in Seq(Frames) /\ Len(T) = Len(S) /\ T[1] = f
      /\ \A k \in 2..Len(S) : T[k] = S[k]
      /\ T # <<>> /\ Len(S) \in Nat /\ Len(S) > 0
  BY ReplaceTop, PopTop
<1>2. \A k \in 1..Len(T) : k = 1 \/ (k \in 2..Len(S) /\ T[k] = S[k])
  BY <1>1
<1>3. 1 \in 1..Len(T) /\ 1..Len(T) = 1..Len(S)
  BY <1>1
<1> QED
  BY <1>1, <1>2, <1>3

LEMMA ReplacedVisits ==
  ASSUME NEW S \in Seq(Frames), S # <<>>, NEW f \in Frames,
         NEW T, T = <<f>> \o Tail(S)
  PROVE  ToVisit(S) \subseteq Todo(S[1]) \cup ToVisit(T) /\ Todo(f) \subseteq ToVisit(T)
<1>1. /\ T[1] = f /\ 1 \in 1..Len(T) /\ 1..Len(T) = 1..Len(S)
      /\ \A k \in 1..Len(S) : k = 1 \/ T[k] = S[k]
  BY ReplacedFrames
<1>2. Todo(f) \subseteq ToVisit(T)
  BY <1>1 DEF ToVisit
<1>3. ASSUME NEW n \in ToVisit(S), n \notin Todo(S[1])
      PROVE  n \in ToVisit(T)
  <2>1. PICK k \in 1..Len(S) : n \in Todo(S[k])
    BY <1>3 DEF ToVisit
  <2>2. k \in 1..Len(T) /\ T[k] = S[k]
    BY <1>1, <1>3, <2>1
  <2> QED
    BY <2>1, <2>2 DEF ToVisit
<1> QED
  BY <1>2, <1>3

LEMMA ReplacedInside ==
  ASSUME NEW S \in Seq(Frames), S # <<>>, NEW f \in Frames,
         NEW T, T = <<f>> \o Tail(S),
         NEW e, Inside(S, e), FrameInside(f, e)
  PROVE  Inside(T, e)
BY ReplacedFrames DEF Inside

LEMMA ReplacedOperands ==
  ASSUME NEW S \in Seq(Frames), S # <<>>, NEW f \in Frames,
         NEW T, T = <<f>> \o Tail(S),
         NEW p, OperandsTyped(p, S), f.at # "binary.rhs"
  PROVE  OperandsTyped(p, T)
BY ReplacedFrames DEF OperandsTyped

LEMMA ReplacedServes ==
  ASSUME NEW S \in Seq(Frames), S # <<>>, NEW f \in Frames,
         NEW T, T = <<f>> \o Tail(S),
         NEW p, NEW e, Serves(p, S, e), StaticType(p)[f.node] = StaticType(p)[S[1].node]
  PROVE  Serves(p, T, e)
<1>1. \A k \in 1..Len(T) : Caller(T, k, e) = Caller(S, k, e)
  <2> SUFFICES ASSUME NEW k \in 1..Len(T) PROVE Caller(T, k, e) = Caller(S, k, e)
    OBVIOUS
  <2>1. k \in 1..Len(S)
    BY ReplacedFrames
  <2>2. k # Len(S) => k + 1 \in 2..Len(S)
    <3>1. \A n \in Nat : \A i \in 1..n : i # n => i + 1 \in 2..n
      OBVIOUS
    <3> QED
      BY ReplacedFrames, <2>1, <3>1
  <2>3. k # Len(S) => T[k + 1] = S[k + 1]
    BY ReplacedFrames, <2>2
  <2> QED
    BY ReplacedFrames, <2>3 DEF Caller
<1> QED
  BY ReplacedFrames, <1>1 DEF Serves

LEMMA PushedFrames ==
  ASSUME NEW S \in Seq(Frames), S # <<>>, NEW c \in Frames, NEW f \in Frames,
         NEW T, T = <<c, f>> \o Tail(S)
  PROVE  /\ T \in Seq(Frames) /\ Len(T) = Len(S) + 1 /\ T[1] = c /\ T[2] = f /\ T # <<>>
         /\ \A k \in 2..Len(S) : T[k + 1] = S[k]
         /\ Len(S) \in Nat /\ Len(S) > 0
         /\ \A k \in 1..Len(T) : k = 1 \/ k = 2 \/ (k - 1 \in 2..Len(S) /\ T[k] = S[k - 1])
         /\ 1 \in 1..Len(T) /\ 2 \in 1..Len(T) /\ 2..Len(S) \subseteq 1..Len(S)
         /\ 1 \in 1..Len(S)
<1>1. /\ T \in Seq(Frames) /\ Len(T) = Len(S) + 1 /\ T[1] = c /\ T[2] = f
      /\ \A k \in 2..Len(S) : T[k + 1] = S[k]
      /\ T # <<>> /\ Len(S) \in Nat /\ Len(S) > 0
  BY PushCallee, PopTop
<1>2. \A k \in 1..Len(T) : k = 1 \/ k = 2 \/ (k - 1 \in 2..Len(S) /\ T[k] = S[k - 1])
  <2> SUFFICES ASSUME NEW k \in 1..Len(T), k # 1, k # 2
               PROVE  k - 1 \in 2..Len(S) /\ T[k] = S[k - 1]
    OBVIOUS
  <2>1. k - 1 \in 2..Len(S) /\ (k - 1) + 1 = k
    BY <1>1
  <2> QED
    BY <1>1, <2>1
<1>3. 1 \in 1..Len(T) /\ 2 \in 1..Len(T) /\ 2..Len(S) \subseteq 1..Len(S) /\ 1 \in 1..Len(S)
  BY <1>1
<1> QED
  BY <1>1, <1>2, <1>3

LEMMA PushedVisits ==
  ASSUME NEW S \in Seq(Frames), S # <<>>, NEW c \in Frames, NEW f \in Frames,
         NEW T, T = <<c, f>> \o Tail(S)
  PROVE  /\ ToVisit(S) \subseteq Todo(S[1]) \cup ToVisit(T)
         /\ Todo(c) \subseteq ToVisit(T) /\ Todo(f) \subseteq ToVisit(T)
<1>1. Todo(c) \subseteq ToVisit(T) /\ Todo(f) \subseteq ToVisit(T)
  <2>1. T[1] = c /\ T[2] = f /\ 1 \in 1..Len(T) /\ 2 \in 1..Len(T)
    BY PushedFrames
  <2> QED
    BY <2>1 DEF ToVisit
<1> SUFFICES ASSUME NEW n \in ToVisit(S), n \notin Todo(S[1]) PROVE n \in ToVisit(T)
  BY <1>1
<1>2. PICK k \in 1..Len(S) : n \in Todo(S[k])
  BY DEF ToVisit
<1>3. k \in 2..Len(S) /\ k + 1 \in 1..Len(T) /\ T[k + 1] = S[k]
  BY PushedFrames, <1>2
<1> QED
  BY <1>2, <1>3 DEF ToVisit

LEMMA PushedInside ==
  ASSUME NEW S \in Seq(Frames), S # <<>>, NEW c \in Frames, NEW f \in Frames,
         NEW T, T = <<c, f>> \o Tail(S),
         NEW e, Inside(S, e), FrameInside(c, e), FrameInside(f, e)
  PROVE  Inside(T, e)
BY PushedFrames DEF Inside

LEMMA PushedOperands ==
  ASSUME NEW S \in Seq(Frames), S # <<>>, NEW c \in Frames, NEW f \in Frames,
         NEW T, T = <<c, f>> \o Tail(S),
         NEW p, OperandsTyped(p, S), c.at # "binary.rhs",
         f.at = "binary.rhs" => Matches(f.lhs, StaticType(p)[f.node.lhs])
  PROVE  OperandsTyped(p, T)
<1>1. /\ T[1] = c /\ T[2] = f /\ 2..Len(S) \subseteq 1..Len(S)
      /\ \A k \in 1..Len(T) : k = 1 \/ k = 2 \/ (k - 1 \in 2..Len(S) /\ T[k] = S[k - 1])
  BY PushedFrames
<1> QED
  BY <1>1 DEF OperandsTyped

LEMMA PushedServes ==
  ASSUME NEW S \in Seq(Frames), S # <<>>, NEW c \in Frames, NEW f \in Frames,
         NEW T, T = <<c, f>> \o Tail(S),
         NEW p, NEW e, Serves(p, S, e), StaticType(p)[f.node] = StaticType(p)[S[1].node],
         StaticType(p)[c.node] = StaticType(p)[Called(f)]
  PROVE  Serves(p, T, e)
<1>1. Caller(T, 1, e) = Called(f)
  BY PushedFrames DEF Caller
<1>2. \A k \in 1..Len(S) : Caller(T, k + 1, e) = Caller(S, k, e)
  <2> SUFFICES ASSUME NEW k \in 1..Len(S) PROVE Caller(T, k + 1, e) = Caller(S, k, e)
    OBVIOUS
  <2>1. k # Len(S) => k + 1 \in 2..Len(S) /\ T[(k + 1) + 1] = S[k + 1]
    BY PushedFrames
  <2>2. k = Len(S) <=> k + 1 = Len(T)
    BY PushedFrames
  <2> QED
    BY <2>1, <2>2 DEF Caller
<1> SUFFICES ASSUME NEW k \in 1..Len(T)
             PROVE  StaticType(p)[T[k].node] = StaticType(p)[Caller(T, k, e)]
  BY DEF Serves
<1>3. CASE k = 1
  BY PushedFrames, <1>1, <1>3
<1>4. CASE k = 2
  <2>1. Caller(T, 1 + 1, e) = Caller(S, 1, e)
    BY PushedFrames, <1>2
  <2>2. StaticType(p)[S[1].node] = StaticType(p)[Caller(S, 1, e)]
    BY PushedFrames DEF Serves
  <2> QED
    BY PushedFrames, <1>4, <2>1, <2>2
<1>5. CASE k # 1 /\ k # 2
  <2>1. k - 1 \in 1..Len(S) /\ T[k] = S[k - 1] /\ (k - 1) + 1 = k
    BY PushedFrames, <1>5
  <2>2. Caller(T, k, e) = Caller(S, k - 1, e)
    BY <1>2, <2>1
  <2> QED
    BY PushedFrames, <2>1, <2>2 DEF Serves
<1> QED
  BY <1>3, <1>4, <1>5

----------------------------------------------------------------------------
(* The type checker: expressions.                                          *)

LEMMA WorkingFacts ==
  ASSUME CascadeInv, VerdictInv, CheckerStep, stack # <<>>
  PROVE  /\ target = 1 /\ Child.expr \in Expressions
         /\ child \in AssignmentsOf(program) /\ Child = program[child]
         /\ stack \in Seq(Frames) /\ Top = stack[1] /\ Top \in Frames /\ FrameFine(Top)
         /\ Top.node \in Within[Child.expr] /\ Top.node \in Expressions
         /\ Operands(Top.node) \subseteq Within[Child.expr]
         /\ Null \notin Within[Child.expr]
         /\ Inside(stack, Child.expr) /\ FrameInside(Top, Child.expr)
         /\ ~undefined => Covered(program, stack, result, Child.expr, diags = <<>>)
         /\ ~undefined /\ diags = <<>> =>
              /\ Serves(program, stack, Child.expr)
              /\ OperandsTyped(program, stack)
              /\ ResultTyped(program, stack, result, Child.expr)
         /\ Returning(stack) <=> Top.at # "visit"
<1> DEFINE e == Child.expr
<1>1. /\ target = 1 /\ child \in 1..Len(program) /\ Child.kind = "AssignmentStatement"
      /\ phase = "check" /\ TypeInv
  BY CascadeFacts, CheckerFacts DEF InAssignment
<1>2. /\ stack \in Seq(Frames) /\ Top = stack[1] /\ Top \in Frames /\ FrameFine(Top)
      /\ Len(stack) \in Nat /\ Len(stack) > 0
  BY <1>1, TopFacts
<1>3. /\ e \in Expressions /\ child \in AssignmentsOf(program) /\ Child = program[child]
      /\ Null \notin Within[e] /\ Within[e] \subseteq Expressions
  BY <1>1, AssignmentFacts
<1>4. Inside(stack, e) /\ FrameInside(Top, e)
  BY <1>1, <1>2, CheckerFacts DEF InsideInv, Inside
<1>5. Top.node \in Within[e] /\ Top.node \in Expressions /\ Top.node # Null
  BY <1>3, <1>4 DEF FrameInside
<1>6. Operands(Top.node) \subseteq Within[e]
  BY <1>3, <1>5, WithinIsClosed
<1>7. /\ ~undefined => Covered(program, stack, result, e, diags = <<>>)
      /\ ~undefined /\ diags = <<>> =>
           /\ Serves(program, stack, e)
           /\ OperandsTyped(program, stack)
           /\ ResultTyped(program, stack, result, e)
  BY <1>1, CheckerFacts DEF CoveredInv, TypedInv
<1>8. Returning(stack) <=> Top.at # "visit"
  BY <1>2 DEF Returning
<1> QED
  BY <1>1, <1>2, <1>3, <1>4, <1>5, <1>6, <1>7, <1>8

LEMMA ExpressionVerdict ==
  ASSUME CascadeInv, CascadeInv', VerdictInv, CheckerStep, stack # <<>>,
         phase' = "check", child' = child, target' = target,
         undefined' => undefined \/ Untypable(program),
         ~undefined' => diags' = diags \/ ~WellTyped(program),
         InsideInv', CoveredInv', TypedInv'
  PROVE  VerdictInv'
<1>1. EndInv' /\ RejectInv'
  BY CheckerGoesOn
<1>2. PassedInv' /\ TargetsInv'
  BY CheckerPasses, TargetsStay
<1> QED
  BY <1>1, <1>2, CheckerFacts DEF VerdictInv

LEMMA FrameMade ==
  ASSUME NEW at \in {"visit", "unary", "binary.lhs", "binary.rhs"}, NEW node \in Expressions,
         NEW lhs \in Optionals
  PROVE  /\ Frame(at, node, lhs) \in Frames
         /\ Frame(at, node, lhs).at = at /\ Frame(at, node, lhs).node = node
         /\ Frame(at, node, lhs).lhs = lhs
BY DEF Frame, Frames

(* The nodes that are no longer to be visited pass.                        *)
LEMMA CoverFurther ==
  ASSUME CascadeInv, VerdictInv, CheckerStep, stack # <<>>, child' = child,
         Returning(stack) => result # EmptyAny,
         ToVisit(stack) \subseteq Todo(Top) \cup ToVisit(stack'),
         ~undefined' => \A n \in Todo(Top) :
                          n \in ToVisit(stack') \/ NodePasses(program, n, diags' = <<>>)
  PROVE  CoveredInv'
<1>1. Child' = Child
  BY CheckerFacts DEF Child
<1> SUFFICES ASSUME ~undefined', NEW n \in Within[Child.expr]
             PROVE  n \in ToVisit(stack') \/ NodePasses(program, n, diags' = <<>>)
  BY <1>1, CheckerFacts DEF CoveredInv, Covered
<1>2. n \in ToVisit(stack) \/ NodePasses(program, n, diags = <<>>)
  BY CheckerFacts, WorkingFacts DEF Covered
<1>3. NodePasses(program, n, diags = <<>>) => NodePasses(program, n, diags' = <<>>)
  BY CheckerFacts DEF NodePasses
<1> QED
  BY <1>2, <1>3

LEMMA CallVerdict ==
  ASSUME CascadeInv, CascadeInv', VerdictInv, CheckerStep, stack # <<>>,
         UNCHANGED <<phase, child, target, result, diags, undefined>>,
         NEW f \in Frames, f.node = Top.node, f.at # "visit",
         f.at = "unary" => f.node.kind = "UnaryExpression",
         NEW d \in Operands(Top.node), d = Called(f), Call(f, d),
         Todo(Top) \subseteq Todo(f) \cup Within[d],
         Returning(stack) => result # EmptyAny,
         f.at = "binary.rhs" /\ ~undefined /\ diags = <<>> =>
           Matches(f.lhs, StaticType(program)[f.node.lhs])
  PROVE  VerdictInv'
<1> DEFINE c == Visit(d)
           e == Child.expr
           p == program
<1>1. /\ d \in Within[e] /\ d \in Expressions /\ d # Null
  BY WorkingFacts, WithinIsClosed
<1>2. c \in Frames /\ c.at = "visit" /\ c.node = d /\ Todo(c) = Within[d]
  BY <1>1 DEF Visit, Frame, Frames, Todo, Optionals
<1>3. stack' = <<c, f>> \o Tail(stack)
  BY DEF Call
<1> HIDE DEF c
<1>4. FrameInside(c, e) /\ FrameInside(f, e)
  BY <1>1, <1>2, WorkingFacts DEF FrameInside
<1>5. stack \in Seq(Frames) /\ stack[1] = Top /\ Inside(stack, e)
  BY WorkingFacts
<1>6. stack'[1] = c /\ stack' # <<>>
  BY <1>2, <1>3, <1>5, PushedFrames
<1>7. /\ ToVisit(stack) \subseteq Todo(Top) \cup ToVisit(stack')
       /\ Todo(c) \subseteq ToVisit(stack') /\ Todo(f) \subseteq ToVisit(stack')
  BY <1>2, <1>3, <1>5, PushedVisits
<1>8. Inside(stack', e)
  BY <1>2, <1>3, <1>4, <1>5, PushedInside
<1>9. ~Returning(stack')
  BY <1>2, <1>6 DEF Returning
<1>10. Child' = Child /\ p' = p
  BY CheckerFacts DEF Child
<1>11. InsideInv'
  BY <1>9, <1>10, <1>8 DEF InsideInv, EmptyExplained
<1>12. CoveredInv'
  BY <1>2, <1>7, CoverFurther
<1>13. TypedInv'
  <2> SUFFICES ASSUME ~undefined, diags = <<>>
               PROVE  /\ Serves(p, stack', e) /\ OperandsTyped(p, stack')
                      /\ ResultTyped(p, stack', result', e)
    BY <1>10 DEF TypedInv
  <2>1. Serves(p, stack, e) /\ OperandsTyped(p, stack)
    BY WorkingFacts
  <2>2. Serves(p, stack', e)
    BY <1>2, <1>3, <1>5, <2>1, PushedServes
  <2>3. OperandsTyped(p, stack')
    BY <1>2, <1>3, <1>5, <2>1, PushedOperands
  <2> QED
    BY <1>9, <2>2, <2>3 DEF ResultTyped
<1> QED
  BY <1>11, <1>12, <1>13, ExpressionVerdict, CheckerFacts

LEMMA OperandVerdict ==
  ASSUME CascadeInv, CascadeInv', VerdictInv, VisitUnary \/ VisitBinary \/ VisitRHS
  PROVE  VerdictInv'
<1> USE DEF CheckerStep
<1> DEFINE n == Top.node
<1>1. /\ stack # <<>> /\ UNCHANGED <<phase, child, target, result, diags, undefined>>
  BY DEF VisitUnary, VisitBinary, VisitRHS, Enters, Resumes, Working
<1>2. /\ n \in Expressions /\ n # Null
      /\ Top.at = "visit" => Todo(Top) = Within[n]
      /\ Returning(stack) <=> Top.at # "visit"
  BY <1>1, WorkingFacts, WithinIsClosed, ExpressionShapes DEF Todo
<1>3. CASE VisitUnary
  <2> DEFINE f == Frame("unary", n, Nothing)
  <2>1. n.kind = "UnaryExpression" /\ Top.at = "visit" /\ Call(f, n.rhs)
    BY <1>3 DEF VisitUnary, Enters
  <2>2. f \in Frames /\ f.at = "unary" /\ f.node = n
    BY <1>2, FrameMade DEF Optionals
  <2> HIDE DEF f
  <2>3. n.rhs \in Operands(n) /\ n.rhs = Called(f)
    BY <2>1, <2>2 DEF Operands, Called
  <2>4. Todo(Top) \subseteq Todo(f) \cup Within[n.rhs]
    BY <1>2, <2>1, <2>2, WithinByKind DEF Todo
  <2> QED
    BY <1>1, <1>2, <2>1, <2>2, <2>3, <2>4, CallVerdict
<1>4. CASE VisitBinary
  <2> DEFINE f == Frame("binary.lhs", n, Nothing)
  <2>1. n.kind = "BinaryExpression" /\ Top.at = "visit" /\ Call(f, n.lhs)
    BY <1>4 DEF VisitBinary, Enters
  <2>2. f \in Frames /\ f.at = "binary.lhs" /\ f.node = n
    BY <1>2, FrameMade DEF Optionals
  <2> HIDE DEF f
  <2>3. n.lhs \in Operands(n) /\ n.lhs = Called(f)
    BY <2>1, <2>2 DEF Operands, Called
  <2>4. Todo(Top) \subseteq Todo(f) \cup Within[n.lhs]
    BY <1>2, <2>1, <2>2, WithinByKind DEF Todo
  <2> QED
    BY <1>1, <1>2, <2>1, <2>2, <2>3, <2>4, CallVerdict
<1>5. CASE VisitRHS
  <2> DEFINE f == Frame("binary.rhs", n, result)
  <2>1. Top.at = "binary.lhs" /\ result # EmptyAny /\ Call(f, n.rhs)
    BY <1>5 DEF VisitRHS, Resumes
  <2>2. n.kind = "BinaryExpression"
    BY <1>1, <2>1, WorkingFacts DEF FrameFine, Binaries
  <2>3. f \in Frames /\ f.at = "binary.rhs" /\ f.node = n /\ f.lhs = result
    BY <1>2, <2>1, FrameMade, CascadeFacts
  <2> HIDE DEF f
  <2>4. n.rhs \in Operands(n) /\ n.rhs = Called(f) /\ n.lhs = Called(Top)
    BY <2>1, <2>2, <2>3 DEF Operands, Called
  <2>5. Todo(Top) \subseteq Todo(f) \cup Within[n.rhs]
    BY <1>2, <2>1, <2>2, <2>3 DEF Todo
  <2>6. ~undefined /\ diags = <<>> => Matches(f.lhs, StaticType(program)[f.node.lhs])
    <3> SUFFICES ASSUME ~undefined, diags = <<>>
                 PROVE  Matches(result, StaticType(program)[n.lhs])
      BY <2>3
    <3>1. /\ ResultTyped(program, stack, result, Child.expr) /\ Returning(stack)
          /\ Top = stack[1]
      BY <1>1, <2>1, WorkingFacts
    <3> QED
      BY <1>1, <2>1, <2>4, <3>1 DEF ResultTyped, Asked
  <2> QED
    BY <1>1, <1>2, <2>1, <2>3, <2>4, <2>5, <2>6, CallVerdict
<1> QED
  BY <1>3, <1>4, <1>5

LEMMA ReturnVerdict ==
  ASSUME CascadeInv, CascadeInv', VerdictInv, CheckerStep, stack # <<>>,
         UNCHANGED <<phase, child, target>>, NEW v, Return(v),
         undefined' => undefined \/ Untypable(program),
         ~undefined' => diags' = diags \/ ~WellTyped(program),
         v = EmptyAny => \E n \in Within[Child.expr] : n.kind = "UnaryExpression",
         v # EmptyAny /\ Returning(stack) => result # EmptyAny,
         v # EmptyAny /\ ~undefined' =>
           \A n \in Todo(Top) : NodePasses(program, n, diags' = <<>>),
         v # EmptyAny /\ ~undefined' /\ diags' = <<>> =>
           Matches(v, StaticType(program)[Top.node])
  PROVE  VerdictInv'
<1> DEFINE e == Child.expr
           p == program
<1>1. stack' = Tail(stack) /\ result' = v
  BY DEF Return
<1>2. stack \in Seq(Frames) /\ stack[1] = Top /\ Inside(stack, e)
  BY WorkingFacts
<1>3. Child' = Child /\ p' = p
  BY CheckerFacts DEF Child
<1>4. Returning(stack')
  <2>1. stack' \in Seq(Frames) /\ Len(stack) \in Nat
        /\ (stack' = <<>> \/ (2 \in 2..Len(stack) /\ stack'[1] = stack[2]))
    <3>1. /\ Len(stack) \in Nat /\ Len(stack) > 0 /\ (stack' = <<>> <=> Len(stack) = 1)
          /\ \A k \in 1..Len(stack') : stack'[k] = stack[k + 1]
          /\ Len(stack') = Len(stack) - 1 /\ stack' \in Seq(Frames)
      BY <1>1, <1>2, PoppedFrames
    <3>2. CASE Len(stack) = 1
      BY <3>1, <3>2
    <3>3. CASE Len(stack) # 1
      <4>1. 1 \in 1..Len(stack') /\ 2 \in 2..Len(stack)
        BY <3>1, <3>3
      <4>2. stack'[1] = stack[1 + 1]
        BY <3>1, <4>1
      <4> QED
        BY <3>1, <4>1, <4>2
    <3> QED
      BY <3>2, <3>3
  <2>2. \A k \in 2..Len(stack) : stack[k].at # "visit"
    BY CascadeFacts DEF InAssignment
  <2> QED
    BY <2>1, <2>2 DEF Returning
<1>5. InsideInv'
  <2>1. Inside(stack', e)
    BY <1>1, <1>2, PoppedInside
  <2>2. EmptyExplained(stack', v, e)
    BY DEF EmptyExplained
  <2> QED
    BY <1>1, <1>3, <2>1, <2>2 DEF InsideInv
<1>6. CoveredInv'
  <2>1. CASE v = EmptyAny
    BY <1>1, <1>4, <2>1 DEF CoveredInv, Covered
  <2>2. CASE v # EmptyAny
    <3>1. ToVisit(stack) \subseteq Todo(Top) \cup ToVisit(stack')
      BY <1>1, <1>2, PoppedVisits
    <3> QED
      BY <2>2, <3>1, CoverFurther
  <2> QED
    BY <2>1, <2>2
<1>7. TypedInv'
  <2> SUFFICES ASSUME ~undefined', diags' = <<>>
               PROVE  /\ Serves(p, stack', e) /\ OperandsTyped(p, stack')
                      /\ ResultTyped(p, stack', v, e)
    BY <1>1, <1>3 DEF TypedInv
  <2>1. Serves(p, stack, e) /\ OperandsTyped(p, stack)
    BY CheckerFacts, WorkingFacts
  <2>2. /\ Serves(p, stack', e)
        /\ StaticType(p)[Top.node] = StaticType(p)[Asked(stack', e)]
    <3>1. Serves(p, stack', e)
      BY <1>1, <1>2, <2>1, PoppedServes
    <3>2. StaticType(p)[stack[1].node] = StaticType(p)[Asked(stack', e)]
      <4>1. Caller(stack, 1, e) = Asked(stack', e) /\ 1 \in 1..Len(stack)
        <5>1. stack \in Seq(Frames) /\ stack # <<>> /\ stack' = Tail(stack)
          BY <1>1, <1>2
        <5> HIDE DEF e
        <5> QED
          BY ONLY <5>1, PoppedAsked
      <4> QED
        BY <2>1, <4>1 DEF Serves
    <3> QED
      BY <1>2, <3>1, <3>2
  <2>3. OperandsTyped(p, stack')
    BY <1>1, <1>2, <2>1, PoppedOperands
  <2> QED
    BY <2>2, <2>3 DEF ResultTyped
<1> QED
  BY <1>5, <1>6, <1>7, ExpressionVerdict, CheckerFacts

LEMMA LeafVerdict ==
  ASSUME CascadeInv, CascadeInv', VerdictInv, VisitLiteral \/ VisitName \/ VisitUndefinedName
  PROVE  VerdictInv'
<1> USE DEF CheckerStep
<1> DEFINE n == Top.node
           p == program
<1>1. /\ stack # <<>> /\ UNCHANGED <<phase, child, target>> /\ Top.at = "visit"
      /\ n.kind \in {"Literal", "Identifier"}
  BY DEF VisitLiteral, VisitName, VisitUndefinedName, Enters, Working
<1>2. /\ n \in Expressions /\ n # Null /\ n \in Within[Child.expr] /\ ~Returning(stack)
      /\ Null \notin Within[Child.expr] /\ child \in AssignmentsOf(p) /\ Child = p[child]
  BY <1>1, WorkingFacts
<1>3. Todo(Top) = {n}
  BY <1>1, <1>2, WithinByKind DEF Todo
<1>4. EmptyAny \notin Types /\ EmptyAny # Nothing /\ Nothing \notin Types /\ Unknown \notin Types
  BY DEF EmptyAny, Nothing, Types, Unknown
<1>5. CASE VisitLiteral
  <2>1. /\ n.kind = "Literal" /\ Return(n.type) /\ undefined' = undefined /\ diags' = diags
    BY <1>5 DEF VisitLiteral, Enters
  <2>2. n.type \in Types
    BY <1>2, <2>1, ExpressionShapes DEF LiteralTypes, Types
  <2>3. StaticType(p)[n] = n.type
    BY <1>2, <2>1, StaticTypeUnfolds
  <2>4. Matches(n.type, StaticType(p)[n])
    BY <1>4, <2>2, <2>3 DEF Matches
  <2>5. NodePasses(p, n, diags' = <<>>)
    BY <2>1 DEF NodePasses, Typable, NodeFine
  <2> QED
    BY <1>1, <1>2, <1>3, <1>4, <2>1, <2>2, <2>4, <2>5, ReturnVerdict
<1>6. CASE VisitName
  <2>1. PICK type \in TypesOf(n.name) : Return(type)
    BY <1>6 DEF VisitName
  <2>2. /\ n.kind = "Identifier" /\ Has(n.name) /\ diags' = diags
        /\ undefined' = (undefined \/ ~IsVariable(n.name))
    BY <1>6 DEF VisitName, Enters
  <2>3. type \in Types
    BY CheckerFacts, TypesOfFine
  <2>4. undefined' => undefined \/ Untypable(p)
    <3> SUFFICES ASSUME ~IsVariable(n.name) PROVE Untypable(p)
      BY <2>2
    <3>1. n.name \in Types
      BY <2>2, NameMeans
    <3>2. n.name \in NamesIn(Child.expr)
      BY <1>2, <2>2 DEF NamesIn
    <3> QED
      BY <1>2, <3>1, <3>2 DEF Untypable
  <2>5. ASSUME ~undefined'
        PROVE  NodePasses(p, n, diags' = <<>>) /\ Matches(type, StaticType(p)[n])
    <3>1. /\ TypesOf(n.name) = {TypeDeclared(p, n.name)}
          /\ n.name \in Declared(p) /\ n.name \notin Types
      BY <2>2, <2>5, NameMeans
    <3>2. StaticType(p)[n] = TypeDeclared(p, n.name)
      BY <1>2, <2>2, StaticTypeUnfolds
    <3>3. type = StaticType(p)[n]
      BY <3>1, <3>2
    <3> QED
      BY <1>4, <2>2, <2>3, <3>1, <3>3 DEF NodePasses, Typable, NodeFine, Matches
  <2> QED
    BY <1>1, <1>2, <1>3, <1>4, <2>1, <2>2, <2>3, <2>4, <2>5, ReturnVerdict
<1>7. CASE VisitUndefinedName
  <2>1. /\ n.kind = "Identifier" /\ ~Has(n.name) /\ Return(Nothing)
        /\ undefined' = undefined /\ Report("UndefinedName", "expression")
    BY <1>7 DEF VisitUndefinedName, Enters
  <2>2. n.name \notin Types /\ n.name \notin Declared(p)
    BY <2>1, NameMeans
  <2>3. n.name \in NamesIn(Child.expr)
    BY <1>2, <2>1 DEF NamesIn
  <2>4. ~WellTyped(p)
    BY <1>2, <2>2, <2>3, BadChild DEF AssignmentFine
  <2>5. diags' # <<>>
    <3>1. Len(diags') = Len(diags) + 1 /\ Len(diags) \in Nat
      BY <2>1, CheckerFacts, ReportFacts DEF DiagIDs
    <3> QED
      BY <3>1
  <2>6. NodePasses(p, n, diags' = <<>>)
    BY <2>1, <2>2, <2>5 DEF NodePasses, Typable
  <2> QED
    BY <1>1, <1>2, <1>3, <1>4, <2>1, <2>4, <2>5, <2>6, ReturnVerdict
<1> QED
  BY <1>5, <1>6, <1>7

LEMMA GroupingVerdict ==
  ASSUME CascadeInv, CascadeInv', VerdictInv, VisitGrouping
  PROVE  VerdictInv'
<1> USE DEF CheckerStep
<1> DEFINE g == Top.node
           d == g.expr
           f == Visit(d)
           e == Child.expr
           p == program
<1>1. /\ stack # <<>> /\ UNCHANGED <<phase, child, target, result, diags, undefined>>
      /\ g.kind = "GroupingExpression" /\ Top.at = "visit"
      /\ stack' = <<f>> \o Tail(stack)
  BY DEF VisitGrouping, Enters, Working
<1>2. /\ g \in Expressions /\ g # Null /\ g \in Within[e] /\ d \in Operands(g)
      /\ d \in Within[e] /\ d \in Expressions /\ d # Null /\ ~Returning(stack)
  BY <1>1, WorkingFacts, WithinIsClosed, ExpressionShapes DEF Operands
<1>3. f \in Frames /\ f.at = "visit" /\ f.node = d /\ Todo(f) = Within[d]
  BY <1>2 DEF Visit, Frame, Frames, Todo, Optionals
<1>4. Todo(Top) = {g} \cup Within[d]
  BY <1>1, <1>2, WithinByKind DEF Todo
<1>5. StaticType(p)[d] = StaticType(p)[g]
  BY <1>1, <1>2, StaticTypeUnfolds
<1> HIDE DEF f
<1>6. stack \in Seq(Frames) /\ stack[1] = Top /\ Inside(stack, e) /\ FrameInside(f, e)
  BY <1>1, <1>2, <1>3, WorkingFacts DEF FrameInside
<1>7. stack'[1] = f /\ stack' # <<>>
  BY <1>1, <1>3, <1>6, ReplacedFrames
<1>8. ToVisit(stack) \subseteq Todo(Top) \cup ToVisit(stack') /\ Todo(f) \subseteq ToVisit(stack')
  BY <1>1, <1>3, <1>6, ReplacedVisits
<1>9. Inside(stack', e)
  BY <1>1, <1>3, <1>6, ReplacedInside
<1>10. ~Returning(stack')
  BY <1>3, <1>7 DEF Returning
<1>11. Child' = Child /\ p' = p
  BY <1>1, CheckerFacts DEF Child
<1>12. InsideInv'
  BY <1>9, <1>10, <1>11 DEF InsideInv, EmptyExplained
<1>13. CoveredInv'
  <2>1. NodePasses(p, g, diags' = <<>>)
    BY <1>1 DEF NodePasses, Typable, NodeFine
  <2> QED
    BY <1>1, <1>2, <1>3, <1>4, <1>8, <2>1, CoverFurther
<1>14. TypedInv'
  <2> SUFFICES ASSUME ~undefined, diags = <<>>
               PROVE  /\ Serves(p, stack', e) /\ OperandsTyped(p, stack')
                      /\ ResultTyped(p, stack', result', e)
    BY <1>1, <1>11 DEF TypedInv
  <2>1. Serves(p, stack, e) /\ OperandsTyped(p, stack)
    BY <1>1, WorkingFacts
  <2>2. Serves(p, stack', e)
    BY <1>1, <1>3, <1>5, <1>6, <2>1, ReplacedServes
  <2>3. OperandsTyped(p, stack')
    BY <1>1, <1>3, <1>6, <2>1, ReplacedOperands
  <2> QED
    BY <1>10, <2>2, <2>3 DEF ResultTyped
<1> QED
  BY <1>1, <1>12, <1>13, <1>14, ExpressionVerdict, CheckerFacts

(* The operators: a logical one, whose operands have types, is supported   *)
(* if both are booleans.                                                   *)
LEMMA BinaryMeans ==
  ASSUME NEW p, NEW b \in Expressions, b.kind = "BinaryExpression", NEW l, NEW r,
         Matches(l, StaticType(p)[b.lhs]), Matches(r, StaticType(p)[b.rhs])
  PROVE  /\ Matches(BinaryType(b.op, l, r), StaticType(p)[b])
         /\ ~Unsupported(b.op, l, r) => NodeFine(p, b)
         /\ Unsupported(b.op, l, r) => ~NodeFine(p, b)
<1> DEFINE tl == StaticType(p)[b.lhs]
           tr == StaticType(p)[b.rhs]
           t == StaticType(p)[b]
<1>1. t = IF b.op \in Logical /\ tl = "bool" /\ tr = "bool" THEN "bool" ELSE Unknown
  BY StaticTypeUnfolds
<1>2. /\ "bool" \in Types /\ Nothing \notin Types /\ Unknown \notin Types
      /\ Unknown # "bool" /\ Nothing # "bool"
  BY DEF Types, Nothing, Unknown
<1>3. NodeFine(p, b) <=>
        (b.op \in Logical => Unknown \in {tl, tr} \/ {tl, tr} = {"bool"})
  BY DEF NodeFine
<1> HIDE DEF tl, tr, t
<1>4. Matches(l, tl) /\ Matches(r, tr)
  BY DEF tl, tr
<1>5. /\ tl = Unknown <=> l = Nothing
      /\ tr = Unknown <=> r = Nothing
      /\ tl # Unknown => l = tl
      /\ tr # Unknown => r = tr
  BY <1>2, <1>4 DEF Matches
<1>6. Matches(BinaryType(b.op, l, r), t)
  BY <1>1, <1>2, <1>5 DEF BinaryType, Matches
<1>7. Unsupported(b.op, l, r) <=> ~NodeFine(p, b)
  BY <1>2, <1>3, <1>5 DEF Unsupported
<1> QED
  BY <1>6, <1>7 DEF t

LEMMA OperatorVerdict ==
  ASSUME CascadeInv, CascadeInv', VerdictInv, EndUnary \/ EndBinary
  PROVE  VerdictInv'
<1> USE DEF CheckerStep
<1> DEFINE b == Top.node
           e == Child.expr
           p == program
           v == BinaryType(b.op, Top.lhs, result)
<1>1. /\ stack # <<>> /\ UNCHANGED <<phase, child, target, undefined>>
      /\ Top.at \in {"unary", "binary.rhs"}
  BY DEF EndUnary, EndBinary, Resumes, Working
<1>2. /\ b \in Expressions /\ b # Null /\ b \in Within[e] /\ Top = stack[1]
      /\ FrameInside(Top, e) /\ FrameFine(Top) /\ Returning(stack)
      /\ child \in AssignmentsOf(p) /\ Child = p[child] /\ Todo(Top) = {b}
  BY <1>1, WorkingFacts DEF Todo
<1>3. CASE EndUnary
  <2>1. Return(EmptyAny) /\ diags' = diags /\ b.kind = "UnaryExpression"
    BY <1>2, <1>3 DEF EndUnary, Resumes, FrameInside
  <2> QED
    BY <1>1, <1>2, <2>1, ReturnVerdict
<1>4. CASE EndBinary
  <2>1. /\ Top.at = "binary.rhs" /\ result # EmptyAny /\ Return(v)
        /\ IF Unsupported(b.op, Top.lhs, result)
           THEN Report("UnsupportedBinaryOperandType", "expression")
           ELSE UNCHANGED diags
    BY <1>4 DEF EndBinary, Resumes
  <2>2. b.kind = "BinaryExpression"
    BY <1>2, <2>1 DEF FrameFine, Binaries
  <2>3. ASSUME ~undefined, diags = <<>>
        PROVE  Matches(Top.lhs, StaticType(p)[b.lhs]) /\ Matches(result, StaticType(p)[b.rhs])
    <3>1. /\ OperandsTyped(p, stack) /\ ResultTyped(p, stack, result, e)
          /\ 1 \in 1..Len(stack)
      BY <1>1, <2>3, WorkingFacts, PoppedFrames
    <3>2. Called(Top) = b.rhs
      BY <2>1 DEF Called
    <3> QED
      BY <1>1, <1>2, <2>1, <3>1, <3>2 DEF OperandsTyped, ResultTyped, Asked
  <2>4. ASSUME ~undefined, diags = <<>>
        PROVE  /\ Matches(v, StaticType(p)[b])
               /\ diags' = <<>> <=> NodeFine(p, b)
    <3>1. Report("UnsupportedBinaryOperandType", "expression") => diags' # <<>>
      <4>1. Report("UnsupportedBinaryOperandType", "expression") =>
              Len(diags') = Len(diags) + 1 /\ Len(diags) \in Nat
        BY <1>1, CheckerFacts, ReportFacts DEF DiagIDs
      <4> QED
        BY <4>1
    <3> QED
      BY <1>2, <2>1, <2>2, <2>3, <2>4, <3>1, BinaryMeans
  <2>5. ~NodeFine(p, b) => ~WellTyped(p)
    <3>1. ~NodeFine(p, b) => ~LogicalFine(p, e)
      BY <1>2, <2>2 DEF NodeFine, LogicalFine
    <3> QED
      BY <1>2, <3>1, BadChild DEF AssignmentFine
  <2>6. ~undefined' => diags' = diags \/ ~WellTyped(p)
    <3>1. diags # <<>> /\ ~undefined => ~WellTyped(p)
      BY <1>1, CheckerFacts DEF RejectInv
    <3> QED
      BY <1>1, <2>4, <2>5, <3>1
  <2>7. NodePasses(p, b, diags' = <<>>) \/ undefined
    <3>1. diags' = <<>> => diags = <<>>
      BY <1>1, CheckerFacts
    <3> QED
      BY <2>2, <2>4, <3>1 DEF NodePasses, Typable
  <2>8. v # EmptyAny
    BY DEF BinaryType, EmptyAny, Nothing
  <2>9. diags' = <<>> => diags = <<>>
    BY <1>1, CheckerFacts
  <2> HIDE DEF v
  <2> QED
    BY <1>1, <1>2, <2>1, <2>4, <2>6, <2>7, <2>8, <2>9, ReturnVerdict
<1> QED
  BY <1>3, <1>4

LEMMA CheckerVerdict ==
  ASSUME CascadeInv, CascadeInv', VerdictInv, CheckerStep
  PROVE  VerdictInv'
BY DefinitionVerdict, AssignmentVerdict, EndAssignmentVerdict, TargetVerdict, LeafVerdict,
   GroupingVerdict, OperandVerdict, OperatorVerdict, EndVerdict DEF CheckerStep

----------------------------------------------------------------------------

LEMMA InitVerdict ==
  ASSUME Init, TypeOK
  PROVE  VerdictInv
<1> DEFINE p == program
<1>1. /\ p \in Programs /\ phase = "build" /\ child = 1 /\ target = 0 /\ table = Builtins
      /\ diags = <<>> /\ undefined = FALSE /\ Reached = 1
  BY DEF Init, Reached
<1>2. /\ \A c \in DefinitionsOf(p) \cup AssignmentsOf(p) : ~(c < 1)
      /\ Declarations(p) \subseteq DefinitionsOf(p)
  BY <1>1, ProgramFacts DEF Declarations
<1>3. DeclaredBefore(p, 1) = {}
  BY <1>2 DEF DeclaredBefore
<1>4. DOMAIN table = Types
  BY <1>1 DEF Builtins
<1>5. TableHolds(p, 1, table)
  BY <1>3, <1>4 DEF TableHolds
<1>6. TableInv /\ HollowInv
  BY <1>1, <1>2, <1>5 DEF TableInv, HollowInv
<1>7. EndInv /\ RejectInv /\ PassedInv
  BY <1>1 DEF EndInv, RejectInv, PassedInv, Checks
<1>8. TargetsInv /\ InsideInv /\ CoveredInv /\ TypedInv
  BY <1>1 DEF TargetsInv, InsideInv, CoveredInv, TypedInv
<1> QED
  BY <1>6, <1>7, <1>8 DEF VerdictInv

LEMMA UnchangedVerdict ==
  ASSUME VerdictInv, UNCHANGED vars
  PROVE  VerdictInv'
<1> USE DEF vars
<1>1. Child' = Child /\ Reached' = Reached
  BY DEF Child, Reached
<1>2. TableInv' /\ HollowInv' /\ EndInv' /\ RejectInv'
  BY <1>1 DEF VerdictInv, TableInv, HollowInv, EndInv, RejectInv
<1>3. PassedInv' /\ TargetsInv'
  BY <1>1 DEF VerdictInv, PassedInv, TargetsInv
<1>4. InsideInv' /\ CoveredInv' /\ TypedInv'
  BY <1>1 DEF VerdictInv, InsideInv, CoveredInv, TypedInv
<1> QED
  BY <1>2, <1>3, <1>4 DEF VerdictInv

LEMMA NextVerdict ==
  ASSUME CascadeInv, VerdictInv, [Next]_vars
  PROVE  CascadeInv' /\ VerdictInv'
<1>1. CascadeInv'
  BY NextCascade
<1>2. CASE Redefinition \/ UndefinedType \/ Declare \/ Traverse \/ TraverseNull \/ EndOfBuild
  BY <1>1, <1>2, BuilderVerdict
<1>3. CASE CheckerStep
  BY <1>1, <1>3, CheckerVerdict
<1>4. CASE UNCHANGED vars
  BY <1>1, <1>4, UnchangedVerdict
<1> QED
  BY <1>1, <1>2, <1>3, <1>4 DEF Next, CheckerStep, Terminating

LEMMA SemanticVerdict == Spec => [](CascadeInv /\ VerdictInv)
<1>1. Init => CascadeInv /\ VerdictInv
  BY InitCascade, CascadeFacts, InitVerdict
<1>2. CascadeInv /\ VerdictInv /\ [Next]_vars => CascadeInv' /\ VerdictInv'
  BY NextVerdict
<1> QED
  BY <1>1, <1>2, PTL DEF Spec

(* What has been analysed to the end without a failure has been analysed   *)
(* as a whole.                                                             *)
LEMMA AllPass ==
  ASSUME CascadeInv, VerdictInv, phase \in {"accepted", "rejected"}, ~undefined
  PROVE  /\ \A d \in DefinitionsOf(program) :
              program[d].name \in Declared(program)
                /\ (diags = <<>> => DefinitionFine(program, d))
         /\ \A a \in AssignmentsOf(program) :
              /\ \A i \in 1..Len(program[a].targets) :
                   program[a].targets[i] \notin Types
                     /\ (diags = <<>> => TargetFine(program, program[a], i))
              /\ \A n \in Within[program[a].expr] : NodePasses(program, n, diags = <<>>)
<1>1. program \in Programs /\ Len(program) \in Nat /\ child > Len(program) /\ child \in Nat
  BY CascadeFacts DEF TypeOK, VerdictInv, EndInv
<1>2. \A c \in 1..Len(program) : ChildPasses(program, c, diags = <<>>)
  BY <1>1 DEF VerdictInv, PassedInv, Checks
<1>3. /\ \A d \in DefinitionsOf(program) :
           d \in 1..Len(program) /\ program[d].kind = "VariableDefinition"
      /\ \A a \in AssignmentsOf(program) :
           a \in 1..Len(program) /\ program[a].kind = "AssignmentStatement"
  BY <1>1, ProgramFacts
<1> QED
  BY <1>2, <1>3 DEF ChildPasses

LEMMA AcceptedIsWellTyped ==
  ASSUME CascadeInv, VerdictInv, phase = "accepted", ~undefined
  PROVE  WellTyped(program)
<1>1. diags = <<>>
  BY DEF VerdictInv, EndInv
<1>2. ASSUME NEW a \in AssignmentsOf(program)
      PROVE  AssignmentFine(program, program[a])
  <2>1. /\ \A i \in 1..Len(program[a].targets) : TargetFine(program, program[a], i)
        /\ \A n \in Within[program[a].expr] : NodeFine(program, n)
    BY <1>1, AllPass DEF NodePasses
  <2>2. NamesIn(program[a].expr) \subseteq Declared(program)
    BY <2>1 DEF NamesIn, NodeFine
  <2>3. LogicalFine(program, program[a].expr)
    BY <2>1 DEF LogicalFine, NodeFine
  <2> QED
    BY <2>1, <2>2, <2>3 DEF AssignmentFine, TargetFine
<1> QED
  BY <1>1, <1>2, AllPass DEF WellTyped

LEMMA VerdictIsTypable ==
  ASSUME CascadeInv, VerdictInv, phase \in {"accepted", "rejected"}, ~undefined
  PROVE  ~Untypable(program)
<1>1. \A d \in DefinitionsOf(program) : program[d].name \in Declared(program)
  BY AllPass
<1>2. ASSUME NEW a \in AssignmentsOf(program)
      PROVE  /\ \A i \in 1..Len(program[a].targets) : program[a].targets[i] \notin Types
             /\ NamesIn(program[a].expr) \cap Types = {}
             /\ \A n \in Within[program[a].expr] :
                  n.kind \notin {"UnaryExpression", "nullptr"}
  BY AllPass DEF NodePasses, Typable, NamesIn
<1> QED
  BY <1>1, <1>2 DEF Untypable

(* The table of a program that is accepted holds the builtin types, its    *)
(* variables and nothing else.                                             *)
LEMMA AcceptedTable ==
  ASSUME CascadeInv, VerdictInv, phase = "accepted"
  PROVE  /\ DOMAIN table = Types \cup Declared(program)
         /\ \A type \in Types : table[type] = [kind |-> "Type", type |-> type]
         /\ \A name \in Declared(program) :
              /\ name \notin Types
              /\ table[name] = [kind |-> "Variable", type |-> TypeDeclared(program, name)]
<1>1. program \in Programs /\ Len(program) \in Nat /\ TypeOK
  BY CascadeFacts DEF TypeOK
<1>2. TableHolds(program, Len(program) + 1, table)
  BY DEF VerdictInv, TableInv, Reached
<1>3. DeclaredBefore(program, Len(program) + 1) = Declarations(program)
  <2>1. \A c \in Declarations(program) : c \in 1..Len(program)
    BY <1>1, ProgramFacts, DeclarationFacts
  <2>2. \A c \in Declarations(program) : c < Len(program) + 1
    BY <1>1, <2>1
  <2> QED
    BY <2>2 DEF DeclaredBefore
<1>4. \A type \in Types : table[type] = [kind |-> "Type", type |-> type]
  BY <1>1 DEF TypeOK, Builtins
<1>5. ASSUME NEW name \in Declared(program)
      PROVE  /\ name \notin Types
             /\ table[name] = [kind |-> "Variable", type |-> TypeDeclared(program, name)]
  <2>1. PICK c \in Declarations(program) : program[c].name = name
    BY <1>1, DeclarationFacts
  <2>2. TypeDeclared(program, name) = program[c].type /\ name \notin Types
    BY <1>1, <2>1, DeclarationFacts
  <2>3. table[name] = [kind |-> "Variable", type |-> program[c].type]
    BY <1>2, <1>3, <2>1 DEF TableHolds
  <2> QED
    BY <2>2, <2>3
<1> QED
  BY <1>2, <1>3, <1>4, <1>5 DEF TableHolds, Declared

(* The checker only meets names of variables, or undeclared ones, unless   *)
(* the program is one that it has no answer for.                           *)
LEMMA NamesAreVariables ==
  ASSUME CascadeInv, VerdictInv, ~Untypable(program)
  PROVE  /\ Visits("check", "VariableDefinition") => IsVariable(Child.name)
         /\ Enters("Identifier") /\ Has(Top.node.name) => IsVariable(Top.node.name)
         /\ AtTarget /\ Has(Child.targets[target]) => IsVariable(Child.targets[target])
<1>1. /\ TypeOK /\ TypeInv /\ InAssignment /\ TableInv
      /\ target > 0 /\ phase = "check" => Inside(stack, Child.expr)
  BY CascadeFacts DEF VerdictInv, InsideInv
<1>2. ASSUME phase = "check", NEW name
      PROVE  /\ name \in Declared(program) => IsVariable(name)
             /\ Has(name) /\ name \notin Types => IsVariable(name)
  BY <1>1, <1>2, TableIsComplete DEF Checks
<1>3. ASSUME Visits("check", "VariableDefinition")
      PROVE  IsVariable(Child.name)
  <2>1. phase = "check" /\ child \in DefinitionsOf(program)
    BY <1>3 DEF Visits, DefinitionsOf, OfKind, Child
  <2>2. Child.name \in Declared(program)
    BY <2>1 DEF Untypable, Child
  <2> QED
    BY <1>2, <2>1, <2>2
<1>4. ASSUME Enters("Identifier"), Has(Top.node.name)
      PROVE  IsVariable(Top.node.name)
  <2>1. phase = "check" /\ stack # <<>> /\ Top.node.kind = "Identifier"
    BY <1>4 DEF Enters, Working
  <2>2. target = 1 /\ target > 0 /\ child \in AssignmentsOf(program) /\ Child = program[child]
    BY <1>1, <2>1 DEF InAssignment, AssignmentsOf, OfKind, Child
  <2>3. Top = stack[1] /\ 1 \in 1..Len(stack)
    BY <1>1, <2>1, TopFacts
  <2>4. Top.node \in Within[Child.expr]
    BY <1>1, <2>1, <2>2, <2>3 DEF Inside, FrameInside
  <2>5. Top.node.name \in NamesIn(Child.expr)
    BY <2>1, <2>4 DEF NamesIn
  <2>6. Top.node.name \notin Types
    BY <2>2, <2>5 DEF Untypable
  <2> QED
    BY <1>2, <1>4, <2>1, <2>6
<1>5. ASSUME AtTarget, Has(Child.targets[target])
      PROVE  IsVariable(Child.targets[target])
  <2>1. /\ phase = "check" /\ child \in AssignmentsOf(program) /\ Child = program[child]
        /\ target \in 1..Len(Child.targets)
    BY <1>5 DEF AtTarget, Visits, AssignmentsOf, OfKind, Child
  <2>2. Child.targets[target] \notin Types
    BY <2>1 DEF Untypable
  <2> QED
    BY <1>2, <1>5, <2>1, <2>2
<1> QED
  BY <1>3, <1>4, <1>5

(* The verdict of src/chocopc.cpp:73-83 is that of the typing rules: if    *)
(* SymbolTableBuilder and TypeChecker come to an end without undefined     *)
(* behaviour, they have reported nothing if and only if every definition   *)
(* and every assignment of the program is well typed.                      *)
THEOREM SemanticVerdictIsTyping == Spec => []VerdictIsTyping
<1>1. CascadeInv /\ VerdictInv => VerdictIsTyping
  <2>1. VerdictInv /\ phase = "rejected" /\ ~undefined => ~WellTyped(program)
    BY DEF VerdictInv, EndInv, RejectInv
  <2> QED
    BY <2>1, AcceptedIsWellTyped DEF VerdictIsTyping
<1> QED
  BY <1>1, SemanticVerdict, PTL

(* The analysis fails, by an exception nothing catches, a call through     *)
(* nullptr or undefined behaviour, on exactly the programs that hold what  *)
(* it has no answer for (TypeChecker.cpp:6, TypeEnvironment.cpp:16,        *)
(* ASTVisitor's visit of a unary expression and of the expression of a     *)
(* grouping): on every other program it ends with a verdict.               *)
THEOREM SemanticFailuresAreExplained == Spec => []FailuresAreExplained
<1>1. CascadeInv /\ VerdictInv => FailuresAreExplained
  <2>1. VerdictInv /\ (phase = "crashed" \/ undefined) => Untypable(program)
    BY DEF VerdictInv, EndInv
  <2> QED
    BY <2>1, VerdictIsTypable DEF FailuresAreExplained, Done
<1> QED
  BY <1>1, SemanticVerdict, PTL
=============================================================================
