--------------------------------- MODULE AST ---------------------------------
(***************************************************************************)
(* The tree a parse leaves behind (include/ast, src/ast), as the visitors  *)
(* after the parser read it: what Semantic and IRGen have in common.       *)
(* A location is left out, the text of a name or type is a member of       *)
(* Texts, and the value of a literal a member of Values.                   *)
(***************************************************************************)
EXTENDS Naturals, Sequences

CONSTANTS
  Texts,         \* the texts looked up in the symbol table: names, types
  Values,        \* the values of literals
  Expressions,   \* expression trees, with all their subexpressions
  Programs       \* what Program::getChildren() may be

(* The types of SymbolTable's initial entries.  Every type of a program is *)
(* one of these objects: the text of a list type is never a key, so no     *)
(* type has a dimension, and the super class of all but `object' is it.    *)
Types == {"object", "int", "str", "bool", "<None>", "<Empty>"}

LiteralTypes == {"int", "str", "bool", "<None>"}   \* Literal::getType()

Logical == {"AND", "OR"}
Comparing == {"EQUAL", "NEQUAL", "LESS", "GREAT", "LESSEQ", "GREATEQ"}
Arithmetic == {"PLUS", "MINUS", "MULT", "DIV", "MOD"}
Operators == Logical \cup Comparing \cup Arithmetic \cup {"IS"}

UnaryOperators == {"MINUS", "NOT"}

(* No name and no type is written with angle brackets, so a program cannot *)
(* name two of the initial entries.                                        *)
Names == Texts \ {"<None>", "<Empty>"}

Null == [kind |-> "nullptr"]

(* The nodes of include/ast over expressions E.  The expression in         *)
(* parentheses may be nullptr, because the parser does not check it.       *)
Literals == [kind : {"Literal"}, type : LiteralTypes, value : Values]
Identifiers == [kind : {"Identifier"}, name : Names]
Binaries(E) == [kind : {"BinaryExpression"}, op : Operators, lhs : E, rhs : E]
Unaries(E) == [kind : {"UnaryExpression"}, op : UnaryOperators, rhs : E]
Groupings(E) == [kind : {"GroupingExpression"}, expr : E \cup {Null}]

Definitions ==
  [kind : {"VariableDefinition"}, name : Names, type : Names, value : Literals]
Assignments(E) ==
  [kind : {"AssignmentStatement"}, targets : Seq(Names), expr : E]

(* A program is what the parser accepts: all definitions come first.       *)
ASSUME ASTAssumption ==
  /\ Types \subseteq Texts
  /\ \A e \in Expressions :
       \/ e \in Literals \/ e \in Identifiers
       \/ e \in Binaries(Expressions) \/ e \in Unaries(Expressions)
       \/ e \in Groupings(Expressions)
  /\ \A p \in Programs :
       /\ p \in Seq(Definitions \cup Assignments(Expressions))
       /\ \A c, d \in 1..Len(p) :
            c < d /\ p[d].kind = "VariableDefinition" => p[c].kind = "VariableDefinition"

(* The expressions that a node points to, nullptr if it is one.            *)
Operands(e) ==
  CASE e.kind = "BinaryExpression" -> {e.lhs, e.rhs}
    [] e.kind = "UnaryExpression" -> {e.rhs}
    [] e.kind = "GroupingExpression" -> {e.expr}
    [] OTHER -> {}

Inner(e) == Operands(e) \ {Null}

(* The number of nodes of an expression.  Expressions are finite trees: no *)
(* expression is within itself, so each has one that its operands' are     *)
(* less than.                                                              *)
Size[e \in Expressions] ==
  CASE e.kind = "BinaryExpression" -> Size[e.lhs] + Size[e.rhs] + 1
    [] e.kind = "UnaryExpression" -> Size[e.rhs] + 1
    [] e.kind = "GroupingExpression" -> IF e.expr = Null THEN 1 ELSE Size[e.expr] + 1
    [] OTHER -> 1

ASSUME ExpressionsAreTrees ==
  \A e \in Expressions : Size[e] \in Nat /\ \A o \in Inner(e) : Size[o] < Size[e]

(* Whether ASTVisitor's default traversal meets a null expression.          *)
Hollow[e \in Expressions] ==
  CASE e.kind = "GroupingExpression" -> IF e.expr = Null THEN TRUE ELSE Hollow[e.expr]
    [] e.kind = "BinaryExpression" -> Hollow[e.lhs] \/ Hollow[e.rhs]
    [] e.kind = "UnaryExpression" -> Hollow[e.rhs]
    [] OTHER -> FALSE
============================================================================
