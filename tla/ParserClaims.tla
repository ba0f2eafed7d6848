---------------------------- MODULE ParserClaims ----------------------------
(***************************************************************************)
(* What comments and messages of the repository say of the parser and the  *)
(* code does not do.                                                       *)
(***************************************************************************)
EXTENDS ParserReference

(* "Get the token n positions ahead of the current token. @returns The     *)
(* token n positions ahead." (include/TokenStream.h:13): the parser finds  *)
(* a token wherever it asks for the location of one.  A file that ends     *)
(* without a newline, after `x:' for instance, leaves none.                *)
EveryPeekHasAToken == ~undefined

(* "Get the expression within the grouping. @returns The expression within *)
(* the grouping." (include/ast/GroupingExpression.h:25): an accepted       *)
(* program has one in each of its groupings.  `x = ()' has none, and the   *)
(* visitors of later phases dereference it.                                *)
GroupingsHaveAnExpression == Accepted => ~HasHole

(* "missing operand for binary '{0}'" (src/diagnostics/DiagInfo.cpp:29): a *)
(* program that is given up right after a binary operator is given up with *)
(* a diagnostic.  Nothing reports this message; `x = 1 +' ends without any.*)
MissingOperandsAreReported ==
  Done /\ result = Null /\ TypeAt(pos) \in DOMAIN InfixPower => diags # <<>>
============================================================================
