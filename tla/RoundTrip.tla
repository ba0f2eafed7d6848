------------------------------ MODULE RoundTrip ------------------------------
(***************************************************************************)
(* The parser reads what the pretty printer writes: Parser.tla on the      *)
(* tokens of PrettyPrinter.tla.                                            *)
(***************************************************************************)
EXTENDS ParserProperties

CONSTANTS Texts, Values, Expressions, Programs   \* of AST

Printer == INSTANCE PrettyPrinter

(* The value of a literal is the type of its token, and an assignment has *)
(* a target: parseSimpleStatement reads one only if there is an `='.       *)
ASSUME PrintedTrees ==
  /\ Printer!ASTAssumption /\ Printer!ExpressionsAreTrees
  /\ Values \subseteq Literals
  /\ \A p \in Programs : \A c \in 1..Len(p) :
       p[c].kind = "AssignmentStatement" => p[c].targets # <<>>

(* The programs that it can print: `is' and empty parentheses are undefined*)
(* behaviour, and for None there is nothing to read.                       *)
Prints[e \in Expressions] ==
  CASE e.kind = "Literal" -> e.type # "<None>"
    [] e.kind = "BinaryExpression" -> e.op # "IS" /\ Prints[e.lhs] /\ Prints[e.rhs]
    [] e.kind = "UnaryExpression" -> Prints[e.rhs]
    [] e.kind = "GroupingExpression" -> e.expr # Printer!Null /\ Prints[e.expr]
    [] OTHER -> TRUE

Printable(p) ==
  \A c \in 1..Len(p) :
    IF p[c].kind = "VariableDefinition" THEN p[c].value.type # "<None>" ELSE Prints[p[c].expr]

(* A tree without its parentheses, which the printer puts where it likes:  *)
(* every leaf is its token.                                                *)
Leaf(type) == [op |-> type, operands |-> <<>>]
Apply(op, operands) == [op |-> op, operands |-> operands]

Shape[e \in Expressions] ==
  CASE e.kind = "Literal" -> Leaf(e.value)
    [] e.kind = "Identifier" -> Leaf("ID")
    [] e.kind = "BinaryExpression" -> Apply(e.op, <<Shape[e.lhs], Shape[e.rhs]>>)
    [] e.kind = "UnaryExpression" -> Apply(e.op, <<Shape[e.rhs]>>)
    [] OTHER -> IF e.expr = Printer!Null THEN Leaf("nullptr") ELSE Shape[e.expr]

ShapeOfChild(c) ==
  IF c.kind = "VariableDefinition"
  THEN Apply(c.kind, <<Leaf("ID"), Leaf("ID"), Leaf(c.value.value)>>)
  ELSE Apply(c.kind, [i \in 1..Len(c.targets) |-> Leaf("ID")] \o <<Shape[c.expr]>>)

ShapeOfNode ==
  LET shape[p \in 1..Len(nodes)] ==
        LET n == nodes[p]
            operands == [k \in 1..Len(n.kids) |-> shape[n.kids[k]]]
        IN  CASE n.kind \in {"Literal", "Identifier", "Type"} -> Leaf(toks[n.token])
              [] n.kind \in {"BinaryExpression", "UnaryExpression"} ->
                   Apply(toks[n.token], operands)
              [] n.kind = "GroupingExpression" -> operands[1]
              [] OTHER -> Apply(n.kind, operands)
  IN  shape

(* The programs with what is printed for them.                             *)
Printed ==
  {[program |-> p, tokens |-> Printer!ProgramTokens(p)] : p \in {p \in Programs : Printable(p)}}

(* What the parser makes of a printed program is the program, up to the    *)
(* parentheses: the ones the printer writes are enough for every precedence*)
(* and associativity, enough for the constant operands that the parser     *)
(* insists on, and balanced.                                               *)
PrintsWhatItMeans ==
  Done =>
    \A print \in Printed : print.tokens = toks =>
      /\ Accepted
      /\ [k \in DOMAIN nodes[result].kids |-> ShapeOfNode[nodes[result].kids[k]]]
           = [k \in 1..Len(print.program) |-> ShapeOfChild(print.program[k])]
============================================================================
