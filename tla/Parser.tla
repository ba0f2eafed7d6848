------------------------------- MODULE Parser -------------------------------
(***************************************************************************)
(* chocopy::parser::Parser (include/parser/Parser.h, src/parser/Parser.cpp)*)
(* over a chocopy::TokenStream: recursive descent, with operator           *)
(* precedence by binding powers.  One step runs an activation of a parse   *)
(* function to its next call or return; stack holds the activations, the   *)
(* running one first.                                                      *)
(***************************************************************************)
EXTENDS Integers, Sequences

CONSTANT Streams   \* the token streams: sequences of token types

Literals == {"NONE", "FALSE", "TRUE", "INTLIT", "IDSTRING", "STRING"}

Compound == {"IF", "WHILE", "FOR"}

(* The tokens a simple statement may start with.                           *)
SimpleStarts ==
  Literals \cup {"PASS", "RETURN", "ID", "NOT", "OPENBRACK", "OPENPAREN", "MINUS"}

(* getPrefixPower and getInfixPower; isBinOp is DOMAIN InfixPower.         *)
PrefixPower == [op \in {"NOT", "MINUS"} |-> IF op = "NOT" THEN 40 ELSE 80]

Comparisons == {"EQUAL", "NEQUAL", "LESS", "GREAT", "LESSEQ", "GREATEQ", "IS"}
Additive == {"PLUS", "MINUS"}
Multiplicative == {"MULT", "DIV", "MOD"}
Logical == {"AND", "OR"}

AdditiveToTheRight ==   \* mutant: a - b - c becomes a - (b - c)
  [op \in Logical \cup Comparisons \cup Additive \cup Multiplicative |->
     CASE op = "OR"              -> [left |-> 20, right |-> 21]
       [] op = "AND"             -> [left |-> 30, right |-> 31]
       [] op \in Comparisons     -> [left |-> 50, right |-> 50]
       [] op \in Additive        -> [left |-> 60, right |-> 60]
       [] op \in Multiplicative  -> [left |-> 70, right |-> 71]]

InfixPower ==
  [op \in Logical \cup Comparisons \cup Additive \cup Multiplicative |->
     CASE op = "OR"              -> [left |-> 20, right |-> 21]
       [] op = "AND"             -> [left |-> 30, right |-> 31]
       [] op \in Comparisons     -> [left |-> 50, right |-> 50]
       [] op \in Additive        -> [left |-> 60, right |-> 61]
       [] op \in Multiplicative  -> [left |-> 70, right |-> 71]]

(* "OTHER" stands for the tokens that no parse function asks for.          *)
TokenTypes ==
  SimpleStarts \cup Compound \cup DOMAIN InfixPower
    \cup {"COLON", "ASSIGN", "CLOSEBRACK", "CLOSEPAREN",
          "NEWLINE", "INDENT", "DEDENT", "OTHER"}

DiagIDs == {"ExpectedToken", "ExpectedNewLine", "UnclosedParenthesis",
            "MissingUnaryOperand"}

ASSUME ParserAssumption == Streams \subseteq Seq(TokenTypes)

VARIABLES
  toks,       \* m_tokens: the type of each token; a token is its position
  pos,        \* m_current_idx
  diags,      \* what was reported to m_diag_manager: ID and token
  nodes,      \* the heap of syntax tree nodes; a pointer is a position in it
  stack,      \* the activations of the parse functions
  result,     \* what the last of them to return returned
  undefined   \* whether an empty optional has been dereferenced

vars == <<toks, pos, diags, nodes, stack, result, undefined>>

Null == 0      \* nullptr
NoToken == 0   \* the token of an empty optional

----------------------------------------------------------------------------
(* TokenStream::peek; Parser::match and expect.                            *)

TypeAt(i) == IF i \in 1..Len(toks) THEN toks[i] ELSE "empty optional"

Current == TypeAt(pos + 1)
Next1 == TypeAt(pos + 2)

AtEndLate == pos > Len(toks)   \* mutant: idx > size for idx >= size

AtEnd == pos >= Len(toks)

MatchNothing(types) == Current \in types \/ AtEnd   \* mutant: no current token matches

Match(types) == Current \in types

Advance == pos' = pos + 1

(* expect() when the token matches, and after it peek(-1).                 *)
Expect(types) == Match(types) /\ Advance

EndsLineOrFile ==   \* mutant: the last NEWLINE is optional
  \/ Expect({"NEWLINE"})
  \/ AtEnd /\ UNCHANGED pos

EndsLine == Expect({"NEWLINE"})

StartsDefinition == Match({"ID"}) /\ Next1 = "COLON"

StartsTarget == Match({"ID"}) /\ Next1 = "ASSIGN"

Report(id, token) == diags' = Append(diags, [id |-> id, token |-> token])

(* A node: its own token (an operator, a name, an opening parenthesis), its*)
(* children, the dimension of a type, and the tokens it was made from.     *)
New(kind, token, kids, dim, from, to) ==
  nodes' = Append(nodes, [kind |-> kind, token |-> token, kids |-> kids,
                          dim |-> dim, from |-> from, to |-> to])

NewPtr == Len(nodes) + 1

(* isConstantExpression() of an expression.                                *)
IsConstant(p) ==
  CASE nodes[p].kind = "BinaryExpression" -> toks[nodes[p].token] \notin Logical
    [] nodes[p].kind = "UnaryExpression"  -> toks[nodes[p].token] = "MINUS"
    [] OTHER -> TRUE

----------------------------------------------------------------------------
(* Calls.  An activation has the place it is at, the pointers it owns, and *)
(* its min_power and token where it has them.                              *)

Enter(at, min, token) == [at |-> at, own |-> <<>>, min |-> min, token |-> token]

Top == Head(stack)

At(place) == stack # <<>> /\ Top.at = place

GoOn(frame) == stack' = <<frame>> \o Tail(stack) /\ UNCHANGED result

CallFrom(frame, callee) ==
  stack' = <<callee, frame>> \o Tail(stack) /\ UNCHANGED result

Call(callee, back) == CallFrom([Top EXCEPT !.at = back], callee)

Return(p) == stack' = Tail(stack) /\ result' = p

(* A diagnostic and nullptr.                                               *)
Fail(id, token) ==
  /\ Report(id, token)
  /\ Return(Null)
  /\ UNCHANGED <<pos, nodes, undefined>>

(* ExpectedToken, at peek()->get(): without a current token its location   *)
(* is read from nowhere.                                                   *)
FailExpected ==
  /\ Report("ExpectedToken", IF AtEnd THEN NoToken ELSE pos + 1)
  /\ Return(Null)
  /\ undefined' = (undefined \/ AtEnd)
  /\ UNCHANGED <<pos, nodes>>

(* nullptr without a diagnostic.                                           *)
FailSilently == Return(Null) /\ UNCHANGED <<pos, diags, nodes, undefined>>

(* The places where a caller returns nullptr because its callee did.       *)
Propagating ==
  {"program.definition", "program.statement", "definition.variable",
   "definition.literal", "typedVariable.type", "type.bracket",
   "statement.simple", "assignment.expression", "expression.prefix",
   "expression.operand"}

CalleeFailedNextStatement ==   \* mutant: goes on after an if, while or for
  /\ stack # <<>>
  /\ Top.at \in Propagating
  /\ result = Null
  /\ IF Top.at = "program.statement" /\ Match(Compound)
     THEN GoOn([Top EXCEPT !.at = "statements"]) /\ UNCHANGED <<pos, diags, nodes, undefined>>
     ELSE FailSilently
  /\ UNCHANGED toks

CalleeFailed ==
  /\ stack # <<>>
  /\ Top.at \in Propagating
  /\ result = Null
  /\ FailSilently
  /\ UNCHANGED toks

----------------------------------------------------------------------------
Init ==
  /\ toks \in Streams
  /\ pos = 0
  /\ diags = <<>>
  /\ nodes = <<>>
  /\ stack = <<Enter("program", 0, 0)>>
  /\ result = Null
  /\ undefined = FALSE

(* parseProgram: the variable definitions, then the statements.            *)
Program ==
  /\ At("program")
  /\ \/ /\ StartsDefinition
        /\ Call(Enter("definition", 0, pos + 1), "program.definition")
     \/ /\ ~StartsDefinition
        /\ GoOn([Top EXCEPT !.at = "statements"])
  /\ UNCHANGED <<toks, pos, diags, nodes, undefined>>

Statements ==
  /\ At("statements")
  /\ \/ /\ ~AtEnd
        /\ Call(Enter("statement", 0, 0), "program.statement")
        /\ UNCHANGED nodes
     \/ /\ AtEnd
        /\ New("Program", NoToken, Top.own, 0, 1, Len(toks))
        /\ Return(NewPtr)
  /\ UNCHANGED <<toks, pos, diags, undefined>>

ProgramChild ==
  /\ At("program.definition") \/ At("program.statement")
  /\ result # Null
  /\ GoOn([Top EXCEPT !.own = Append(@, result),
                      !.at = IF @ = "program.definition" THEN "program" ELSE "statements"])
  /\ UNCHANGED <<toks, pos, diags, nodes, undefined>>

(* parseVariableDefinition                                                 *)
Definition ==
  /\ At("definition")
  /\ Call(Enter("typedVariable", 0, 0), "definition.variable")
  /\ UNCHANGED <<toks, pos, diags, nodes, undefined>>

DefinitionAssign ==
  /\ At("definition.variable")
  /\ result # Null
  /\ \/ /\ Expect({"ASSIGN"})
        /\ CallFrom([Top EXCEPT !.at = "definition.literal", !.own = <<result>>],
                    Enter("literal", 0, 0))
        /\ UNCHANGED <<diags, nodes, undefined>>
     \/ ~Match({"ASSIGN"}) /\ FailExpected
  /\ UNCHANGED toks

DefinitionEnd ==
  /\ At("definition.literal")
  /\ result # Null
  /\ \/ /\ EndsLine
        /\ New("VariableDefinition", NoToken,
               Append(nodes[Top.own[1]].kids, result), 0, Top.token, pos)
        /\ Return(NewPtr)
        /\ UNCHANGED <<diags, undefined>>
     \/ ~Match({"NEWLINE"}) /\ Fail("ExpectedNewLine", pos)
  /\ UNCHANGED toks

(* parseTypedVariable.  Its caller has seen the two tokens, so the branches*)
(* that report their absence are never taken.                              *)
TypedVariable ==
  /\ At("typedVariable")
  /\ IF ~Match({"ID"})
     THEN FailExpected
     ELSE /\ Advance
          /\ New("Identifier", pos + 1, <<>>, 0, pos + 1, pos + 1)
          /\ GoOn([Top EXCEPT !.at = "typedVariable.colon", !.own = <<NewPtr>>])
          /\ UNCHANGED <<diags, undefined>>
  /\ UNCHANGED toks

TypedVariableColon ==
  /\ At("typedVariable.colon")
  /\ IF ~Match({"COLON"})
     THEN FailExpected
     ELSE /\ Advance
          /\ Call(Enter("type", 0, 0), "typedVariable.type")
          /\ UNCHANGED <<diags, nodes, undefined>>
  /\ UNCHANGED toks

TypedVariableEnd ==
  /\ At("typedVariable.type")
  /\ result # Null
  /\ New("TypedVariable", NoToken, <<Top.own[1], result>>, 0,
         nodes[Top.own[1]].from, pos)
  /\ Return(NewPtr)
  /\ UNCHANGED <<toks, pos, diags, undefined>>

(* parseType                                                               *)
Type ==
  /\ At("type")
  /\ \/ /\ Expect({"ID", "IDSTRING"})
        /\ New("Type", pos + 1, <<>>, 0, pos + 1, pos + 1)
        /\ Return(NewPtr)
        /\ UNCHANGED <<diags, undefined>>
     \/ /\ Expect({"OPENBRACK"})
        /\ CallFrom([Top EXCEPT !.at = "type.bracket", !.token = pos + 1],
                    Enter("type", 0, 0))
        /\ UNCHANGED <<diags, nodes, undefined>>
     \/ ~Match({"ID", "IDSTRING", "OPENBRACK"}) /\ FailExpected
  /\ UNCHANGED toks

TypeBracket ==
  /\ At("type.bracket")
  /\ result # Null
  /\ \/ /\ Expect({"CLOSEBRACK"})
        /\ New("Type", nodes[result].token, <<>>, nodes[result].dim + 1,
               Top.token, pos + 1)
        /\ Return(NewPtr)
        /\ UNCHANGED <<diags, undefined>>
     \/ ~Match({"CLOSEBRACK"}) /\ FailExpected
  /\ UNCHANGED toks

(* parseLiteral                                                            *)
Literal ==
  /\ At("literal")
  /\ \/ /\ Expect(Literals)
        /\ New("Literal", pos + 1, <<>>, 0, pos + 1, pos + 1)
        /\ Return(NewPtr)
        /\ UNCHANGED <<diags, undefined>>
     \/ ~Match(Literals) /\ FailExpected
  /\ UNCHANGED toks

(* parseStatement and parseSimpleStatement                                 *)
Statement ==
  /\ At("statement")
  /\ \/ /\ Match(SimpleStarts) /\ Next1 = "ASSIGN"
        /\ Call(Enter("assignment", 0, pos + 1), "statement.simple")
        /\ UNCHANGED <<pos, diags, nodes, undefined>>
     \/ /\ \/ Match(SimpleStarts) /\ Next1 # "ASSIGN"
           \/ Match(Compound)
        /\ FailSilently
     \/ ~Match(SimpleStarts \cup Compound) /\ FailExpected
  /\ UNCHANGED toks

StatementEnd ==
  /\ At("statement.simple")
  /\ result # Null
  /\ \/ /\ EndsLine
        /\ Return(result)
        /\ UNCHANGED <<diags, nodes, undefined>>
     \/ ~Match({"NEWLINE"}) /\ Fail("ExpectedNewLine", pos)
  /\ UNCHANGED toks

(* parseAssignmentStatement, with parseTarget: the loop has seen the two   *)
(* tokens that its body expects.                                           *)
AssignmentTarget ==
  /\ At("assignment")
  /\ StartsTarget
  /\ pos' = pos + 2
  /\ New("Identifier", pos + 1, <<>>, 0, pos + 1, pos + 1)
  /\ GoOn([Top EXCEPT !.own = Append(@, NewPtr)])
  /\ UNCHANGED <<toks, diags, undefined>>

AssignmentExpression ==
  /\ At("assignment")
  /\ ~StartsTarget
  /\ Call(Enter("expression", 0, 0), "assignment.expression")
  /\ UNCHANGED <<toks, pos, diags, nodes, undefined>>

AssignmentEnd ==
  /\ At("assignment.expression")
  /\ result # Null
  /\ New("AssignmentStatement", NoToken, Append(Top.own, result), 0, Top.token, pos)
  /\ Return(NewPtr)
  /\ UNCHANGED <<toks, pos, diags, undefined>>

(* parseExpression(min)                                                    *)
Expression ==
  /\ At("expression")
  /\ Call(Enter("prefix", 0, 0), "expression.prefix")
  /\ UNCHANGED <<toks, pos, diags, nodes, undefined>>

ExpressionPrefix ==
  /\ At("expression.prefix")
  /\ result # Null
  /\ GoOn([Top EXCEPT !.at = "expression.operator", !.own = <<result>>])
  /\ UNCHANGED <<toks, pos, diags, nodes, undefined>>

BindsStrictly ==   \* mutant: an operator that binds equally is left to the caller
  Match(DOMAIN InfixPower) /\ InfixPower[Current].left > Top.min

Binds == Match(DOMAIN InfixPower) /\ InfixPower[Current].left >= Top.min

ExpressionOperator ==
  /\ At("expression.operator")
  /\ \/ /\ Binds
        /\ Advance
        /\ CallFrom([Top EXCEPT !.at = "expression.operand", !.token = pos + 1],
                    Enter("expression", InfixPower[Current].right, 0))
     \/ ~Binds /\ Return(Top.own[1]) /\ UNCHANGED pos
  /\ UNCHANGED <<toks, diags, nodes, undefined>>

MayJoinUnlessLeft(op, lhs, rhs) ==   \* mutant: the right operand is not looked at
  op \in Logical \/ IsConstant(lhs)

MayJoin(op, lhs, rhs) == op \in Logical \/ (IsConstant(lhs) /\ IsConstant(rhs))

ExpressionOperand ==
  /\ At("expression.operand")
  /\ result # Null
  /\ LET lhs == Top.own[1]
         allowed == MayJoin(toks[Top.token], lhs, result)
         culprit == IF IsConstant(lhs) THEN result ELSE lhs
     IN  \/ /\ allowed
            /\ New("BinaryExpression", Top.token, <<lhs, result>>, 0,
                   nodes[lhs].from, nodes[result].to)
            /\ GoOn([Top EXCEPT !.at = "expression.operator", !.own = <<NewPtr>>])
            /\ UNCHANGED <<pos, diags, undefined>>
         \/ ~allowed /\ Fail("ExpectedToken", nodes[culprit].from)
  /\ UNCHANGED toks

(* parsePrefix                                                             *)
Prefix ==
  /\ At("prefix")
  /\ \/ /\ Expect(Literals \cup {"ID"})
        /\ New(IF Match({"ID"}) THEN "Identifier" ELSE "Literal",
               pos + 1, <<>>, 0, pos + 1, pos + 1)
        /\ Return(NewPtr)
        /\ UNCHANGED <<diags, undefined>>
     \/ /\ Expect({"OPENPAREN"})
        /\ CallFrom([Top EXCEPT !.at = "prefix.group", !.token = pos + 1],
                    Enter("expression", 0, 0))
        /\ UNCHANGED <<diags, nodes, undefined>>
     \/ /\ Expect(DOMAIN PrefixPower)
        /\ CallFrom([Top EXCEPT !.at = "prefix.unary", !.token = pos + 1],
                    Enter("expression", PrefixPower[Current], 0))
        /\ UNCHANGED <<diags, nodes, undefined>>
     \/ /\ ~Match(Literals \cup {"ID", "OPENPAREN"} \cup DOMAIN PrefixPower)
        /\ FailSilently
  /\ UNCHANGED toks

(* The expression in the parentheses may be nullptr.                       *)
PrefixGroup ==
  /\ At("prefix.group")
  /\ \/ /\ Expect({"CLOSEPAREN"})
        /\ New("GroupingExpression", Top.token, <<result>>, 0, Top.token, pos + 1)
        /\ Return(NewPtr)
        /\ UNCHANGED <<diags, undefined>>
     \/ ~Match({"CLOSEPAREN"}) /\ Fail("UnclosedParenthesis", Top.token)
  /\ UNCHANGED toks

PrefixUnary ==
  /\ At("prefix.unary")
  /\ LET allowed == result # Null /\ (toks[Top.token] = "NOT" \/ IsConstant(result))
     IN  \/ /\ allowed
            /\ New("UnaryExpression", Top.token, <<result>>, 0, Top.token, nodes[result].to)
            /\ Return(NewPtr)
            /\ UNCHANGED <<pos, diags, undefined>>
         \/ ~allowed /\ Fail("MissingUnaryOperand", Top.token)
  /\ UNCHANGED toks

(* After undefined behaviour the process may die, at once or later.        *)
Crash ==
  /\ undefined
  /\ stack # <<>>
  /\ stack' = <<>>
  /\ result' = Null
  /\ UNCHANGED <<toks, pos, diags, nodes, undefined>>

Terminating == stack = <<>> /\ UNCHANGED vars

Next ==
  \/ Program \/ Statements \/ ProgramChild
  \/ Definition \/ DefinitionAssign \/ DefinitionEnd
  \/ TypedVariable \/ TypedVariableColon \/ TypedVariableEnd
  \/ Type \/ TypeBracket \/ Literal
  \/ Statement \/ StatementEnd
  \/ AssignmentTarget \/ AssignmentExpression \/ AssignmentEnd
  \/ Expression \/ ExpressionPrefix \/ ExpressionOperator \/ ExpressionOperand
  \/ Prefix \/ PrefixGroup \/ PrefixUnary
  \/ CalleeFailed \/ Crash \/ Terminating

Spec == Init /\ [][Next]_vars

(* parse() is a sequential call: it keeps running until it returns.        *)
FairSpec == Spec /\ WF_vars(Next)
============================================================================
