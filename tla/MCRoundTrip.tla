---------------------------- MODULE MCRoundTrip ----------------------------
(***************************************************************************)
(* Programs for TLC: one assignment of any two operators, with parentheses *)
(* or without, and a few with definitions and several targets.             *)
(***************************************************************************)
EXTENDS MCParser, RoundTrip

Lit(t, v) == [kind |-> "Literal", type |-> t, value |-> v]
Name(n) == [kind |-> "Identifier", name |-> n]
Op(op, l, r) == [kind |-> "BinaryExpression", op |-> op, lhs |-> l, rhs |-> r]
Unary(op, e) == [kind |-> "UnaryExpression", op |-> op, rhs |-> e]
Paren(e) == [kind |-> "GroupingExpression", expr |-> e]

MCTexts == {"object", "int", "str", "bool", "<None>", "<Empty>", "a", "b"}
MCValues == {"INTLIT", "TRUE", "FALSE", "STRING", "IDSTRING", "NONE"}

One == Lit("int", "INTLIT")
Yes == Lit("bool", "TRUE")
String == Lit("str", "STRING")
None == Lit("<None>", "NONE")

Atoms == {Name("a"), One, Yes, String, None}

(* Trees that differ in how an operator binds: every level of precedence,  *)
(* both unary operators.                                                   *)
Ops == {"OR", "AND", "EQUAL", "IS", "PLUS", "MINUS", "MULT"}

Apply1(E) == {Unary(op, e) : op \in {"MINUS", "NOT"}, e \in E} \cup {Paren(e) : e \in E}
Apply2(L, R) == {Op(op, l, r) : op \in Ops, l \in L, r \in R}

Ones == Apply1(Atoms) \cup Apply2({Name("a")}, {Name("a"), One})
Twos == Apply1(Ones) \cup Apply2(Ones, {Name("a")}) \cup Apply2({One}, Ones)

MCExpressions == Atoms \cup Ones \cup Twos

Define(t, v) == [kind |-> "VariableDefinition", name |-> "a", type |-> t, value |-> v]
Assign(targets, e) == [kind |-> "AssignmentStatement", targets |-> targets, expr |-> e]

Definitions == {Define("int", One), Define("str", String), Define("object", None)}

MCTrees ==
  {<<Assign(<<"a">>, e)>> : e \in MCExpressions}
    \cup {<<d, Assign(<<"a", "b">>, e), Assign(<<"b">>, Yes)>> : d \in Definitions, e \in Ones}
    \cup {<<c, d>> : c \in Definitions, d \in Definitions} \cup {<<>>}

(* What the printer gives the parser.                                      *)
MCPrinted == {print.tokens : print \in Printed}

(* All the streams of MCParser, and these.                                 *)
MCStreams ==
  UNION {Upto({}, 0), MCOperators(5), MCNesting(5), MCDefinitions(5), MCPrograms(3),
         MCPrinted}
============================================================================
