---------------------------- MODULE PrettyPrinter ----------------------------
(***************************************************************************)
(* ast::PrettyPrinter (src/ast/PrettyPrinter.cpp) as the function from a   *)
(* tree to the tokens its output consists of: spaces are left out, every   *)
(* name and type is an ID, and the value of a literal is its token.        *)
(***************************************************************************)
EXTENDS AST

(* What it cannot print: parentheses around nothing, and `is', which its   *)
(* switch has no case for.                                                 *)
HasIs[e \in Expressions] ==
  CASE e.kind = "BinaryExpression" -> e.op = "IS" \/ HasIs[e.lhs] \/ HasIs[e.rhs]
    [] e.kind = "UnaryExpression" -> HasIs[e.rhs]
    [] e.kind = "GroupingExpression" -> e.expr # Null /\ HasIs[e.expr]
    [] OTHER -> FALSE

(* None is a std::monostate, for which nothing is printed.                 *)
LiteralTokens(lit) == IF lit.type = "<None>" THEN <<>> ELSE <<lit.value>>

BinaryTokensBare(op, lhs, rhs) == lhs \o <<op>> \o rhs   \* mutant: no parentheses

BinaryTokens(op, lhs, rhs) ==
  <<"OPENPAREN">> \o lhs \o <<op>> \o rhs \o <<"CLOSEPAREN">>

(* There is no visit of a GroupingExpression: ASTVisitor's goes on to what *)
(* is in the parentheses, and they are gone.  For a nullptr there is no    *)
(* output to speak of.                                                     *)
Tokens[e \in Expressions] ==
  CASE e.kind = "Literal" -> LiteralTokens(e)
    [] e.kind = "Identifier" -> <<"ID">>
    [] e.kind = "BinaryExpression" -> BinaryTokens(e.op, Tokens[e.lhs], Tokens[e.rhs])
    [] e.kind = "UnaryExpression" ->
         <<"OPENPAREN", e.op>> \o Tokens[e.rhs] \o <<"CLOSEPAREN">>
    [] e.kind = "GroupingExpression" -> IF e.expr = Null THEN <<>> ELSE Tokens[e.expr]

TargetTokens(targets) ==
  [i \in 1..(2 * Len(targets)) |-> IF i % 2 = 1 THEN "ID" ELSE "ASSIGN"]

ChildTokens(c) ==
  IF c.kind = "VariableDefinition"
  THEN <<"ID", "COLON", "ID", "ASSIGN">> \o LiteralTokens(c.value) \o <<"NEWLINE">>
  ELSE TargetTokens(c.targets) \o Tokens[c.expr] \o <<"NEWLINE">>

ProgramTokens(p) ==
  LET upto[k \in 0..Len(p)] == IF k = 0 THEN <<>> ELSE upto[k - 1] \o ChildTokens(p[k])
  IN  upto[Len(p)]
============================================================================
