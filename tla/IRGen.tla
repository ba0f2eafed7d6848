-------------------------------- MODULE IRGen --------------------------------
(***************************************************************************)
(* The IR generator (include/ir/LLVM.h, src/ir/LLVM.cpp) on a tree and the *)
(* symbol table of a program that the semantic analysis has accepted.  The *)
(* activations of the visitor within an expression are the stack of        *)
(* frames, as in Semantic.  LLVM is external: the module is its global     *)
(* variables and the instructions of `main', and IRBuilder appends an      *)
(* instruction for every operation, also for one it may fold.  There is no *)
(* action for a unary expression: the type checker accepts none.           *)
(***************************************************************************)
EXTENDS SemanticReference

VARIABLES
  program,      \* the children of the tree's root
  table,        \* SymbolTable::m_entries
  phase,        \* "generate", or how the generation ended
  child,        \* the child being visited
  target,       \* the next target of an assignment, 0 before its expression
  stack,        \* the activations of the visitor within an expression
  result,       \* the llvm::Value* in the std::any the last of them returned
  undefined,    \* whether the code has done what C++ or LLVM does not define
  allocation,   \* Variable::allocation of the table's variables
  strings,      \* m_string_allocations: the global of each interned text
  globals,      \* the module's global variables
  code          \* the instructions of main

input == <<program, table>>
vars == <<input, phase, child, target, stack, result, undefined,
          allocation, strings, globals, code>>

(* A std::any of nothing, and the values: a literal's, the address of a    *)
(* global, the result of an instruction.                                   *)
EmptyAny == [kind |-> "empty any"]
Constant(lit) == [kind |-> "constant", literal |-> lit]
Global(n) == [kind |-> "global", at |-> n]
Instruction(n) == [kind |-> "instruction", at |-> n]

LLVMType(lit) ==
  CASE lit.type = "int" -> "i32" [] lit.type = "bool" -> "i1" [] OTHER -> "ptr"

TypeOf(v) ==
  CASE v.kind = "constant" -> LLVMType(v.literal)
    [] v.kind = "instruction" -> code[v.at].type
    [] OTHER -> "ptr"

(* What SymbolTableBuilder has made of a program without errors.           *)
TableOf(p) ==
  [text \in Types \cup Declared(p) |->
     IF text \in Types THEN [kind |-> "Type", type |-> text]
     ELSE [kind |-> "Variable", type |-> TypeDeclared(p, text)]]

NoAllocations(t) == [text \in {x \in DOMAIN t : t[x].kind = "Variable"} |-> Null]

Init ==
  /\ program \in Programs
  /\ WellTyped(program) /\ ~Untypable(program)
  /\ table = TableOf(program)
  /\ phase = "generate"
  /\ child = 1
  /\ target = 0
  /\ stack = <<>>
  /\ result = EmptyAny
  /\ undefined = FALSE
  /\ allocation = NoAllocations(table)
  /\ strings = <<>>
  /\ globals = <<>>
  /\ code = <<>>

Child == program[child]

Visits(kind) ==
  /\ phase = "generate"
  /\ child \in 1..Len(program)
  /\ Child.kind = kind

(* What LLVM.cpp:73, 74 and 84 expect of the names they look up, and       *)
(* NamesHaveAllocations shows.                                             *)
IsVariable(text) == text \in DOMAIN table /\ table[text].kind = "Variable"

----------------------------------------------------------------------------
(* Literals.  The characters of a string are a global variable, one for    *)
(* all the literals with this text; the string's value is its address.     *)

NewStringAlways(lit) == lit.type = "str"   \* mutant: no look-up

NewString(lit) == lit.type = "str" /\ lit.value \notin DOMAIN strings

Interned(lit) ==
  IF NewString(lit) THEN Append(globals, [type |-> "chars", init |-> lit]) ELSE globals

InternedStrings(lit) ==
  IF NewString(lit)
  THEN [text \in DOMAIN strings \cup {lit.value} |->
          IF text = lit.value THEN Len(globals) + 1 ELSE strings[text]]
  ELSE strings

ValueOf(lit) ==
  CASE lit.type = "str" -> Global(InternedStrings(lit)[lit.value])
    [] lit.type = "<None>" -> EmptyAny
    [] OTHER -> Constant(lit)

----------------------------------------------------------------------------
(* Definitions.  The scope is always 0: every variable is a global, of the *)
(* type of its first value.                                                *)

AllocateCopy(name, n) == UNCHANGED allocation   \* mutant: `auto variable'

Allocate(name, n) ==
  allocation' = [text \in DOMAIN allocation |->
                   IF text = name THEN Global(n) ELSE allocation[text]]

VariableDefinition ==
  /\ Visits("VariableDefinition")
  /\ IsVariable(Child.name)
  /\ Child.value.type # "<None>"
  /\ LET lit == Child.value
     IN  /\ globals' = Append(Interned(lit), [type |-> LLVMType(lit), init |-> lit])
         /\ strings' = InternedStrings(lit)
         /\ Allocate(Child.name, Len(Interned(lit)) + 1)
  /\ child' = child + 1
  /\ UNCHANGED <<input, phase, target, stack, result, undefined, code>>

----------------------------------------------------------------------------
(* Instructions.                                                           *)

EmitAtFront(c, op, type, args) ==   \* mutant: the insertion point stays at the start
  <<[op |-> op, type |-> type, args |-> args]>> \o c

Emit(c, op, type, args) == Append(c, [op |-> op, type |-> type, args |-> args])

(* createLoadOrConstant: the value of an address is what it holds.         *)
Loaded(v) == IF v.kind = "global" THEN Instruction(Len(code) + 1) ELSE v

LoadedType(v) == IF v.kind = "global" THEN globals[v.at].type ELSE TypeOf(v)

WithLoadOfInt(v) ==   \* mutant: every variable is loaded as an integer
  IF v.kind = "global" THEN Emit(code, "load", "i32", <<v>>) ELSE code

WithLoad(v) ==
  IF v.kind = "global" THEN Emit(code, "load", globals[v.at].type, <<v>>) ELSE code

(* Integer operations are for integers of one type; icmp compares pointers *)
(* as well.                                                                *)
OperandsFit(op, lhs, rhs) ==
  /\ lhs = rhs
  /\ lhs \in {"i32", "i1"} \/ (lhs = "ptr" /\ op \in Comparing)

OperationTypeLeft(op, lhs) == lhs   \* mutant: a comparison has its operands' type

OperationType(op, lhs) == IF op \in Comparing THEN "i1" ELSE lhs

(* The cases of the switch an operator may end in: its own, and for `is',  *)
(* which has none, whichever std::unreachable() runs into.                 *)
Cases(op) == IF op = "IS" THEN Operators \ {"IS"} ELSE {op}

ArgumentsSwapped(lhs, rhs) == <<rhs, lhs>>   \* mutant: a - b becomes b - a

Arguments(lhs, rhs) == <<lhs, rhs>>

----------------------------------------------------------------------------
(* Expressions.                                                            *)

Frame(at, node, lhs) == [at |-> at, node |-> node, lhs |-> lhs]
Visit(e) == Frame("visit", e, EmptyAny)

Top == Head(stack)

Working == phase = "generate" /\ stack # <<>>

Enters(kind) == Working /\ Top.at = "visit" /\ Top.node.kind = kind

ResumesUncast(at) == Working /\ Top.at = at   \* mutant: no any_cast

(* The callee of the activation has returned a value.                      *)
Resumes(at) == Working /\ Top.at = at /\ result # EmptyAny

Call(frame, e) == stack' = <<Visit(e), frame>> \o Tail(stack)

Return(value) ==
  /\ stack' = Tail(stack)
  /\ result' = value

VisitLiteral ==
  /\ Enters("Literal")
  /\ globals' = Interned(Top.node)
  /\ strings' = InternedStrings(Top.node)
  /\ Return(ValueOf(Top.node))
  /\ UNCHANGED <<input, phase, child, target, undefined, allocation, code>>

VisitName ==
  /\ Enters("Identifier")
  /\ IsVariable(Top.node.name)
  /\ Return(allocation[Top.node.name])
  /\ UNCHANGED <<input, phase, child, target, undefined,
                 allocation, strings, globals, code>>

VisitGroupingStays ==   \* mutant: the visit of the parentheses itself
  /\ Enters("GroupingExpression")
  /\ UNCHANGED vars

VisitGrouping ==
  /\ Enters("GroupingExpression")
  /\ stack' = <<Visit(Top.node.expr)>> \o Tail(stack)
  /\ UNCHANGED <<input, phase, child, target, result, undefined,
                 allocation, strings, globals, code>>

VisitBinary ==
  /\ Enters("BinaryExpression")
  /\ Call(Frame("binary.lhs", Top.node, EmptyAny), Top.node.lhs)
  /\ UNCHANGED <<input, phase, child, target, result, undefined,
                 allocation, strings, globals, code>>

VisitRHS ==
  /\ Resumes("binary.lhs")
  /\ code' = WithLoad(result)
  /\ Call(Frame("binary.rhs", Top.node, Loaded(result)), Top.node.rhs)
  /\ undefined' = (undefined \/ result = Null)
  /\ UNCHANGED <<input, phase, child, target, result, allocation, strings, globals>>

EndBinary ==
  /\ Resumes("binary.rhs")
  /\ \E op \in Cases(Top.node.op) :
       /\ code' = Emit(WithLoad(result), op, OperationType(op, TypeOf(Top.lhs)),
                       Arguments(Top.lhs, Loaded(result)))
       /\ undefined' =
            (\/ undefined \/ Top.node.op = "IS" \/ result = Null
             \/ ~OperandsFit(op, TypeOf(Top.lhs), LoadedType(result)))
  /\ Return(Instruction(Len(WithLoad(result)) + 1))
  /\ UNCHANGED <<input, phase, child, target, allocation, strings, globals>>

----------------------------------------------------------------------------
(* Assignments.                                                            *)

VisitExpression ==
  /\ Visits("AssignmentStatement")
  /\ target = 0
  /\ stack' = <<Visit(Child.expr), Frame("assignment", Child.expr, EmptyAny)>>
  /\ target' = 1
  /\ UNCHANGED <<input, phase, child, result, undefined,
                 allocation, strings, globals, code>>

LoadExpression ==
  /\ Resumes("assignment")
  /\ code' = WithLoad(result)
  /\ Return(Loaded(result))
  /\ undefined' = (undefined \/ result = Null)
  /\ UNCHANGED <<input, phase, child, target, allocation, strings, globals>>

(* The expression has its value, and every target is visited for its own.  *)
AtTarget ==
  /\ Visits("AssignmentStatement")
  /\ target \in 1..Len(Child.targets)
  /\ stack = <<>>

StoreTarget ==
  /\ AtTarget
  /\ LET name == Child.targets[target]
     IN  /\ IsVariable(name)
         /\ code' = Emit(code, "store", "void", <<result, allocation[name]>>)
         /\ undefined' = (undefined \/ allocation[name] = Null)
  /\ target' = target + 1
  /\ UNCHANGED <<input, phase, child, stack, result, allocation, strings, globals>>

EndAssignment ==
  /\ Visits("AssignmentStatement")
  /\ target > Len(Child.targets)
  /\ stack = <<>>
  /\ target' = 0
  /\ child' = child + 1
  /\ UNCHANGED <<input, phase, stack, result, undefined,
                 allocation, strings, globals, code>>

----------------------------------------------------------------------------

(* std::bad_any_cast, which nothing catches: None has no value.            *)
BadAnyCast ==
  /\ \/ Visits("VariableDefinition") /\ Child.value.type = "<None>"
     \/ Working /\ Top.at # "visit" /\ result = EmptyAny
  /\ phase' = "crashed"
  /\ UNCHANGED <<input, child, target, stack, result, undefined,
                 allocation, strings, globals, code>>

(* epilogue().                                                             *)
EndOfProgram ==
  /\ phase = "generate"
  /\ child > Len(program)
  /\ code' = Emit(code, "ret", "void", <<>>)
  /\ phase' = "generated"
  /\ UNCHANGED <<input, child, target, stack, result, undefined,
                 allocation, strings, globals>>

(* After undefined behaviour the process may die, at once or later.        *)
Crash ==
  /\ undefined
  /\ phase = "generate"
  /\ phase' = "crashed"
  /\ UNCHANGED <<input, child, target, stack, result, undefined,
                 allocation, strings, globals, code>>

Done == phase \in {"generated", "crashed"}

Terminating == Done /\ UNCHANGED vars

Next ==
  \/ VariableDefinition
  \/ VisitLiteral \/ VisitName \/ VisitGrouping
  \/ VisitBinary \/ VisitRHS \/ EndBinary
  \/ VisitExpression \/ LoadExpression \/ StoreTarget \/ EndAssignment
  \/ BadAnyCast \/ EndOfProgram \/ Crash \/ Terminating

Spec == Init /\ [][Next]_vars

(* The visitor's calls keep running until they return.                     *)
FairSpec == Spec /\ WF_vars(Next)
============================================================================
