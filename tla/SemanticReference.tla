-------------------------- MODULE SemanticReference --------------------------
(***************************************************************************)
(* The typing rules a program is judged by, stated over the whole tree     *)
(* without a symbol table, an order of visits or diagnostics: what         *)
(* Semantic.tla is compared with.  As in the code, the type of an          *)
(* arithmetic or comparing expression is not known, and nothing is asked   *)
(* of what is not known.                                                   *)
(***************************************************************************)
EXTENDS AST, FiniteSets

Unknown == "unknown"

(* The expressions within an expression, itself included.                  *)
Within[e \in Expressions] ==
  {e} \cup UNION {IF o = Null THEN {Null} ELSE Within[o] : o \in Operands(e)}

NamesIn(e) == {i.name : i \in {j \in Within[e] : j.kind = "Identifier"}}

OfKind(p, kind) == {c \in 1..Len(p) : p[c].kind = kind}
DefinitionsOf(p) == OfKind(p, "VariableDefinition")
AssignmentsOf(p) == OfKind(p, "AssignmentStatement")

(* The definitions that declare a variable: of a name that is no type's,   *)
(* with a type that is one, and the first of its name to do so.            *)
Declares(p, c) ==
  /\ p[c].name \notin Types
  /\ p[c].type \in Types
  /\ \A d \in DefinitionsOf(p) : d < c => p[d].name # p[c].name \/ p[d].type \notin Types

Declarations(p) == {c \in DefinitionsOf(p) : Declares(p, c)}

Declared(p) == {p[c].name : c \in Declarations(p)}

TypeDeclared(p, name) == p[CHOOSE c \in Declarations(p) : p[c].name = name].type

(* A value of type t may be stored in a variable of type u.  None is no    *)
(* number, boolean or string, so it is an object's value only.             *)
MayHold(u, t) == t = u \/ u = "object"

(* The static type of every expression of a program whose names are        *)
(* declared.                                                               *)
StaticType(p) ==
  LET type[e \in Expressions] ==
        CASE e.kind = "Literal" -> e.type
          [] e.kind = "Identifier" -> TypeDeclared(p, e.name)
          [] e.kind = "GroupingExpression" ->
               IF e.expr = Null THEN Unknown ELSE type[e.expr]
          [] e.kind = "BinaryExpression" /\ e.op \in Logical
               /\ {type[e.lhs], type[e.rhs]} = {"bool"} -> "bool"
          [] OTHER -> Unknown
  IN  type

(* `and' and `or' are for booleans.                                        *)
LogicalFine(p, e) ==
  \A b \in Within[e] :
    b.kind = "BinaryExpression" /\ b.op \in Logical =>
      LET types == {StaticType(p)[b.lhs], StaticType(p)[b.rhs]}
      IN  Unknown \in types \/ types = {"bool"}

DefinitionFine(p, c) ==
  /\ c \in Declarations(p)
  /\ \A d \in DefinitionsOf(p) : d # c => p[d].name # p[c].name
  /\ MayHold(p[c].type, p[c].value.type)

AssignmentFine(p, a) ==
  /\ \A i \in 1..Len(a.targets) : a.targets[i] \in Declared(p)
  /\ NamesIn(a.expr) \subseteq Declared(p)
  /\ LogicalFine(p, a.expr)
  /\ LET type == StaticType(p)[a.expr]
     IN  type # Unknown =>
           \A i \in 1..Len(a.targets) : MayHold(TypeDeclared(p, a.targets[i]), type)

WellTyped(p) ==
  /\ \A c \in DefinitionsOf(p) : DefinitionFine(p, c)
  /\ \A c \in AssignmentsOf(p) : AssignmentFine(p, p[c])

(* What the analysis does not survive, or survives by luck only: a name    *)
(* that is not a variable's where a definition or an expression needs its  *)
(* type, a unary expression, and a null expression.                        *)
Untypable(p) ==
  \/ \E c \in DefinitionsOf(p) : p[c].name \notin Declared(p)
  \/ \E c \in AssignmentsOf(p) :
       \/ \E i \in 1..Len(p[c].targets) : p[c].targets[i] \in Types
       \/ NamesIn(p[c].expr) \cap Types # {}
       \/ \E e \in Within[p[c].expr] : e.kind \in {"UnaryExpression", "nullptr"}
============================================================================
