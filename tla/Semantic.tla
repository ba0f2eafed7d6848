------------------------------ MODULE Semantic ------------------------------
(***************************************************************************)
(* The semantic analysis: SymbolTableBuilder and then TypeChecker visit    *)
(* the tree the parser has accepted, in the order src/chocopc.cpp:73-83    *)
(* runs them, with SymbolTable, TypeEnvironment and Type.  The visitors    *)
(* are recursive; the activations of TypeChecker on an expression are the  *)
(* explicit stack of Frames, as in Parser.                                 *)
(***************************************************************************)
EXTENDS AST

VARIABLES
  program,    \* the children of the tree's root
  phase,      \* the visitor at work, or how the analysis ended
  child,      \* the child being visited
  target,     \* the next target of an assignment, 0 before its expression
  stack,      \* the activations of the type checker within an expression
  result,     \* the std::any the last of them returned
  table,      \* SymbolTable::m_entries
  diags,      \* the diagnostics, with the child they are about
  undefined   \* whether the code has done what C++ does not define

vars == <<program, phase, child, target, stack, result, table, diags, undefined>>

Nothing == "nullopt"       \* an std::any of an empty std::optional<const Type>
EmptyAny == "empty any"    \* an std::any of nothing
Optionals == Types \cup {Nothing}

DiagIDs ==
  {"Redefinition", "UndefinedType", "UndefinedName", "TypeMismatch",
   "UnsupportedBinaryOperandType"}

Builtins == [t \in Types |-> [kind |-> "Type", type |-> t]]

Init ==
  /\ program \in Programs
  /\ phase = "build"
  /\ child = 1
  /\ target = 0
  /\ stack = <<>>
  /\ result = EmptyAny
  /\ table = Builtins
  /\ diags = <<>>
  /\ undefined = FALSE

----------------------------------------------------------------------------
(* Type::isAssignmentCompatible.  Its third rule is about lists; so is its *)
(* fourth, which asks for a type that is a list and equal to <None>.       *)

IsSubclass(t, super) == t # "object" /\ super = "object"

ConformsTo(t, type) == t = type \/ IsSubclass(t, type)

CompatibleUpward(t, type) ==   \* mutant: subtyping the wrong way round
  ConformsTo(type, t) \/ (t = "<None>" /\ type \notin {"int", "bool", "str"})

Compatible(t, type) ==
  \/ ConformsTo(t, type)
  \/ t = "<None>" /\ type \notin {"int", "bool", "str"}

----------------------------------------------------------------------------
(* The symbol table.                                                       *)

Has(text) == text \in DOMAIN table
IsType(text) == Has(text) /\ table[text].kind = "Type"
IsVariable(text) == Has(text) /\ table[text].kind = "Variable"

(* StringMap::try_emplace keeps an entry that is there already.            *)
AddEntry(name, entry) ==
  table' = [text \in DOMAIN table \cup {name} |->
              IF Has(text) THEN table[text] ELSE entry]

RedefinesVariable(name) == IsVariable(name)   \* mutant: a type's name is free

Redefines(name) == Has(name)

(* What typeOf() gives for a name that is not missing: the type of the     *)
(* variable.  For the name of a type it runs into std::unreachable(): if   *)
(* it returns, with anything.                                              *)
TypesOf(name) == IF IsVariable(name) THEN {table[name].type} ELSE Types

(* A diagnostic, with the child and the part of it that it is about.       *)
Report(id, place) ==
  diags' = Append(diags, [id |-> id, child |-> child, place |-> place])

Child == program[child]

Visits(visitor, kind) ==
  /\ phase = visitor
  /\ child \in 1..Len(program)
  /\ Child.kind = kind

----------------------------------------------------------------------------
(* SymbolTableBuilder.                                                     *)

Redefinition ==
  /\ Visits("build", "VariableDefinition")
  /\ Redefines(Child.name)
  /\ Report("Redefinition", "definition")
  /\ child' = child + 1
  /\ UNCHANGED <<program, phase, target, stack, result, table, undefined>>

UndefinedType ==
  /\ Visits("build", "VariableDefinition")
  /\ ~Redefines(Child.name)
  /\ ~IsType(Child.type)
  /\ Report("UndefinedType", "definition")
  /\ child' = child + 1
  /\ UNCHANGED <<program, phase, target, stack, result, table, undefined>>

Declare ==
  /\ Visits("build", "VariableDefinition")
  /\ ~Redefines(Child.name)
  /\ IsType(Child.type)
  /\ AddEntry(Child.name, [kind |-> "Variable", type |-> table[Child.type].type])
  /\ child' = child + 1
  /\ UNCHANGED <<program, phase, target, stack, result, diags, undefined>>

TraverseStays ==   \* mutant: the loop over the children does not go on
  /\ Visits("build", "AssignmentStatement")
  /\ ~Hollow[Child.expr]
  /\ UNCHANGED vars

Traverse ==
  /\ Visits("build", "AssignmentStatement")
  /\ ~Hollow[Child.expr]
  /\ child' = child + 1
  /\ UNCHANGED <<program, phase, target, stack, result, table, diags, undefined>>

(* A virtual call through nullptr.                                         *)
TraverseNull ==
  /\ Visits("build", "AssignmentStatement")
  /\ Hollow[Child.expr]
  /\ phase' = "crashed"
  /\ UNCHANGED <<program, child, target, stack, result, table, diags, undefined>>

(* The driver starts the type checker whatever the builder has reported.   *)
EndOfBuild ==
  /\ phase = "build"
  /\ child > Len(program)
  /\ phase' = "check"
  /\ child' = 1
  /\ UNCHANGED <<program, target, stack, result, table, diags, undefined>>

----------------------------------------------------------------------------
(* TypeChecker: definitions.                                               *)

(* The type of the variable; if the table has no entry, the assertion      *)
(* fails, or, in a release build, the optional is dereferenced empty.      *)
CheckDefinition ==
  /\ Visits("check", "VariableDefinition")
  /\ \E type \in TypesOf(Child.name) :
       IF Compatible(Child.value.type, type)
       THEN UNCHANGED diags
       ELSE Report("TypeMismatch", "definition")
  /\ undefined' = (undefined \/ ~IsVariable(Child.name))
  /\ child' = child + 1
  /\ UNCHANGED <<program, phase, target, stack, result, table>>

----------------------------------------------------------------------------
(* TypeChecker: expressions.                                               *)

Frame(at, node, lhs) == [at |-> at, node |-> node, lhs |-> lhs]
Visit(e) == Frame("visit", e, Nothing)

Top == Head(stack)

Working == phase = "check" /\ stack # <<>>

Enters(kind) == Working /\ Top.at = "visit" /\ Top.node.kind = kind

(* The callee of the activation has returned.                              *)
Resumes(at) == Working /\ Top.at = at

Call(frame, e) == stack' = <<Visit(e), frame>> \o Tail(stack)

Return(value) ==
  /\ stack' = Tail(stack)
  /\ result' = value

VisitLiteral ==
  /\ Enters("Literal")
  /\ Return(Top.node.type)
  /\ UNCHANGED <<program, phase, child, target, table, diags, undefined>>

VisitName ==
  /\ Enters("Identifier")
  /\ Has(Top.node.name)
  /\ \E type \in TypesOf(Top.node.name) : Return(type)
  /\ undefined' = (undefined \/ ~IsVariable(Top.node.name))
  /\ UNCHANGED <<program, phase, child, target, table, diags>>

VisitUndefinedName ==
  /\ Enters("Identifier")
  /\ ~Has(Top.node.name)
  /\ Report("UndefinedName", "expression")
  /\ Return(Nothing)
  /\ UNCHANGED <<program, phase, child, target, table, undefined>>

VisitGrouping ==
  /\ Enters("GroupingExpression")
  /\ stack' = <<Visit(Top.node.expr)>> \o Tail(stack)
  /\ UNCHANGED <<program, phase, child, target, result, table, diags, undefined>>

(* TypeChecker has no visit for it: this is ASTVisitor's, which returns {}.*)
VisitUnary ==
  /\ Enters("UnaryExpression")
  /\ Call(Frame("unary", Top.node, Nothing), Top.node.rhs)
  /\ UNCHANGED <<program, phase, child, target, result, table, diags, undefined>>

EndUnary ==
  /\ Resumes("unary")
  /\ Return(EmptyAny)
  /\ UNCHANGED <<program, phase, child, target, table, diags, undefined>>

VisitBinary ==
  /\ Enters("BinaryExpression")
  /\ Call(Frame("binary.lhs", Top.node, Nothing), Top.node.lhs)
  /\ UNCHANGED <<program, phase, child, target, result, table, diags, undefined>>

VisitRHSUncast ==   \* mutant: the left type is taken without any_cast
  /\ Resumes("binary.lhs")
  /\ Call(Frame("binary.rhs", Top.node, result), Top.node.rhs)
  /\ UNCHANGED <<program, phase, child, target, result, table, diags, undefined>>

VisitRHS ==
  /\ Resumes("binary.lhs")
  /\ result # EmptyAny
  /\ Call(Frame("binary.rhs", Top.node, result), Top.node.rhs)
  /\ UNCHANGED <<program, phase, child, target, result, table, diags, undefined>>

BinaryTypeEmpty(op, lhs, rhs) ==   \* mutant: `return {}' for no type
  IF op \in Logical /\ lhs = "bool" /\ rhs = "bool" THEN "bool" ELSE EmptyAny

BinaryTypeLogical(op, lhs, rhs) ==   \* mutant: a boolean in spite of the error
  IF op \in Logical THEN "bool" ELSE Nothing

(* The type of a binary expression, as far as the checker knows it.        *)
BinaryType(op, lhs, rhs) ==
  IF op \in Logical /\ lhs = "bool" /\ rhs = "bool" THEN "bool" ELSE Nothing

Unsupported(op, lhs, rhs) ==
  /\ lhs # Nothing /\ rhs # Nothing
  /\ op \in Logical
  /\ lhs # "bool" \/ rhs # "bool"

EndBinary ==
  /\ Resumes("binary.rhs")
  /\ result # EmptyAny
  /\ IF Unsupported(Top.node.op, Top.lhs, result)
     THEN Report("UnsupportedBinaryOperandType", "expression")
     ELSE UNCHANGED diags
  /\ Return(BinaryType(Top.node.op, Top.lhs, result))
  /\ UNCHANGED <<program, phase, child, target, table, undefined>>

----------------------------------------------------------------------------
(* TypeChecker: assignments.                                               *)

CheckAssignment ==
  /\ Visits("check", "AssignmentStatement")
  /\ target = 0
  /\ stack' = <<Visit(Child.expr)>>
  /\ target' = 1
  /\ UNCHANGED <<program, phase, child, result, table, diags, undefined>>

(* The type of the expression is known, and every target is compared to it.*)
AtTarget ==
  /\ Visits("check", "AssignmentStatement")
  /\ target \in 1..Len(Child.targets)
  /\ stack = <<>>
  /\ result # EmptyAny

CheckTarget ==
  /\ AtTarget
  /\ Has(Child.targets[target])
  /\ \E type \in TypesOf(Child.targets[target]) :
       IF result # Nothing /\ ~Compatible(result, type)
       THEN Report("TypeMismatch", "target")
       ELSE UNCHANGED diags
  /\ undefined' = (undefined \/ ~IsVariable(Child.targets[target]))
  /\ target' = target + 1
  /\ UNCHANGED <<program, phase, child, stack, result, table>>

CheckUndefinedTarget ==
  /\ AtTarget
  /\ ~Has(Child.targets[target])
  /\ Report("UndefinedName", "target")
  /\ target' = target + 1
  /\ UNCHANGED <<program, phase, child, stack, result, table, undefined>>

EndAssignment ==
  /\ Visits("check", "AssignmentStatement")
  /\ target > Len(Child.targets)
  /\ stack = <<>>
  /\ result # EmptyAny
  /\ target' = 0
  /\ child' = child + 1
  /\ UNCHANGED <<program, phase, stack, result, table, diags, undefined>>

----------------------------------------------------------------------------

(* Whether the caller expects a type: all but the traversal of a unary     *)
(* expression any_cast what their callee returns.                          *)
Casts ==
  \/ Resumes("binary.lhs") \/ Resumes("binary.rhs")
  \/ phase = "check" /\ stack = <<>> /\ target > 0

(* std::bad_any_cast, which nothing catches.                               *)
BadAnyCast ==
  /\ Casts
  /\ result = EmptyAny
  /\ phase' = "crashed"
  /\ UNCHANGED <<program, child, target, stack, result, table, diags, undefined>>

(* The driver's verdict (src/chocopc.cpp:81).                              *)
EndOfCheck ==
  /\ phase = "check"
  /\ child > Len(program)
  /\ phase' = IF diags = <<>> THEN "accepted" ELSE "rejected"
  /\ UNCHANGED <<program, child, target, stack, result, table, diags, undefined>>

(* After undefined behaviour the process may die, at once or later.        *)
Crash ==
  /\ undefined
  /\ phase = "check"
  /\ phase' = "crashed"
  /\ UNCHANGED <<program, child, target, stack, result, table, diags, undefined>>

Done == phase \in {"accepted", "rejected", "crashed"}

Terminating == Done /\ UNCHANGED vars

Next ==
  \/ Redefinition \/ UndefinedType \/ Declare
  \/ Traverse \/ TraverseNull \/ EndOfBuild
  \/ CheckDefinition
  \/ VisitLiteral \/ VisitName \/ VisitUndefinedName \/ VisitGrouping
  \/ VisitUnary \/ EndUnary \/ VisitBinary \/ VisitRHS \/ EndBinary
  \/ CheckAssignment \/ CheckTarget \/ CheckUndefinedTarget \/ EndAssignment
  \/ BadAnyCast \/ EndOfCheck \/ Crash \/ Terminating

Spec == Init /\ [][Next]_vars

(* The visitors are sequential calls that keep running until they return.  *)
FairSpec == Spec /\ WF_vars(Next)
============================================================================
