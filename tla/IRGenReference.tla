--------------------------- MODULE IRGenReference ---------------------------
(***************************************************************************)
(* Which of the programs that the type checker accepts have a translation, *)
(* from the tree alone: what IRGen.tla and Compiler.tla are compared with. *)
(***************************************************************************)
EXTENDS SemanticReference

(* The literal that a declared variable starts with.                       *)
DefinitionOf(p, name) == CHOOSE c \in Declarations(p) : p[c].name = name
FirstValue(p, name) == p[DefinitionOf(p, name)].value

MachineTypeOfLiteral(lit) ==
  CASE lit.type = "int" -> "i32" [] lit.type = "bool" -> "i1" [] OTHER -> "ptr"

(* The LLVM type of an operand or of the right side of an assignment: that *)
(* of a variable is its first value's, and a string literal in such a place*)
(* gives its characters.                                                   *)
MachineType(p) ==
  LET type[e \in Expressions] ==
        CASE e.kind = "Literal" ->
               IF e.type = "str" THEN "chars" ELSE MachineTypeOfLiteral(e)
          [] e.kind = "Identifier" -> MachineTypeOfLiteral(FirstValue(p, e.name))
          [] e.kind = "GroupingExpression" /\ e.expr # Null -> type[e.expr]
          [] e.kind = "BinaryExpression" /\ e.op \notin Comparing -> type[e.lhs]
          [] OTHER -> "i1"
  IN  type

Combine(op, l, r) == l = r /\ l # "chars" /\ (l = "ptr" => op \in Comparing)

(* None has no value and `is' no instruction, and LLVM cannot operate on   *)
(* values of two types, which the type checker lets pass where it knows no *)
(* types.                                                                  *)
Unsupported(p, e) ==
  \/ e.kind = "Literal" /\ e.type = "<None>"
  \/ /\ e.kind = "BinaryExpression"
     /\ e.op = "IS" \/ ~Combine(e.op, MachineType(p)[e.lhs], MachineType(p)[e.rhs])

Untranslatable(p) ==
  \/ \E c \in DefinitionsOf(p) : p[c].value.type = "<None>"
  \/ \E c \in AssignmentsOf(p) : \E e \in Within[p[c].expr] : Unsupported(p, e)
============================================================================
