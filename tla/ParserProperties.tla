-------------------------- MODULE ParserProperties --------------------------
(***************************************************************************)
(* What Parser.tla is checked and proved to do.                            *)
(***************************************************************************)
EXTENDS Parser

NodeKinds ==
  {"Program", "VariableDefinition", "TypedVariable", "Type", "Identifier",
   "Literal", "AssignmentStatement", "BinaryExpression", "UnaryExpression",
   "GroupingExpression"}

ExpressionKinds ==
  {"Identifier", "Literal", "BinaryExpression", "UnaryExpression",
   "GroupingExpression"}

Places ==
  Propagating \cup
  {"program", "statements", "definition", "typedVariable",
   "typedVariable.colon", "type", "literal", "statement", "assignment",
   "expression", "expression.operator", "prefix", "prefix.group",
   "prefix.unary"}

Frame == [at : Places, own : Seq(Nat), min : Nat, token : Nat]

Node == [kind : NodeKinds, token : Nat, kids : Seq(Nat), dim : Nat,
         from : Nat, to : Nat]

(* The variables keep their C++ types: a pointer is a position in the heap *)
(* or nullptr, and no activation or node points beyond the heap.           *)
TypeOK ==
  /\ toks \in Seq(TokenTypes)
  /\ pos \in 0..Len(toks)
  /\ diags \in Seq([id : DiagIDs, token : Nat])
  /\ nodes \in Seq(Node)
  /\ stack \in Seq(Frame)
  /\ result \in 0..Len(nodes)
  /\ undefined \in BOOLEAN

----------------------------------------------------------------------------
Done == stack = <<>>

(* What the driver goes on with: `!root || diag_manager.hadError()' stops  *)
(* it (src/chocopc.cpp:61).                                                *)
Accepted == Done /\ result # Null /\ diags = <<>>

(* The stream ends in a layout token: the file ends in a newline.          *)
EndsInLayout == toks = <<>> \/ toks[Len(toks)] \in {"NEWLINE", "DEDENT"}

(* Every location a diagnostic is reported at exists, if the file ends in  *)
(* a newline: no parse function can run past the last NEWLINE before it    *)
(* reads peek()->get().                                                    *)
LocationsExist ==
  EndsInLayout =>
    /\ ~undefined
    /\ \A i \in 1..Len(diags) : diags[i].token \in 1..Len(toks)

(* The assertions of the node constructors (include/ast/Identifier.h:11,   *)
(* Literal.h:14, BinaryExpression.h:17, UnaryExpression.h:15,              *)
(* AssignmentStatement.h:18), which a release build leaves out: operands   *)
(* of a comparison or an arithmetic operator are constant expressions, so  *)
(* the parser's own checks before each construction are complete.          *)
NodeAsserts(n) ==
  CASE n.kind = "Identifier" -> toks[n.token] = "ID"
    [] n.kind = "Literal" -> toks[n.token] \in Literals
    [] n.kind = "BinaryExpression" ->
         /\ toks[n.token] \in DOMAIN InfixPower
         /\ n.kids[1] # Null /\ n.kids[2] # Null
         /\ toks[n.token] \notin Logical => IsConstant(n.kids[1]) /\ IsConstant(n.kids[2])
    [] n.kind = "UnaryExpression" ->
         /\ toks[n.token] \in DOMAIN PrefixPower
         /\ n.kids[1] # Null
         /\ toks[n.token] = "MINUS" => IsConstant(n.kids[1])
    [] n.kind = "AssignmentStatement" ->
         \A k \in 1..(Len(n.kids) - 1) : nodes[n.kids[k]].kind = "Identifier"
    [] OTHER -> TRUE

ConstructorAssertions == \A p \in 1..Len(nodes) : NodeAsserts(nodes[p])

(* The children of a node follow each other in the source, with exactly    *)
(* the tokens between them that the node itself stands for: first and last *)
(* are the tokens around them, gap those between two of them.              *)
Tiles(n, first, gap, last) ==
  /\ n.kids # <<>>
  /\ nodes[n.kids[1]].from = n.from + first
  /\ \A k \in 1..(Len(n.kids) - 1) :
       nodes[n.kids[k + 1]].from = nodes[n.kids[k]].to + 1 + gap
  /\ nodes[n.kids[Len(n.kids)]].to + last = n.to

Complete(n) ==
  CASE n.kind \in {"Identifier", "Literal"} -> n.from = n.token /\ n.to = n.token
    [] n.kind = "Type" -> n.from = n.token - n.dim /\ n.to = n.token + n.dim
    [] n.kind = "BinaryExpression" ->
         Tiles(n, 0, 1, 0) /\ n.token = nodes[n.kids[1]].to + 1
    [] n.kind = "UnaryExpression" -> Tiles(n, 1, 0, 0) /\ n.token = n.from
    [] n.kind = "GroupingExpression" ->
         (n.kids[1] # Null => Tiles(n, 1, 0, 1)) /\ n.token = n.from
    [] n.kind \in {"TypedVariable", "VariableDefinition", "AssignmentStatement"} ->
         Tiles(n, 0, 1, 0)
    [] n.kind = "Program" ->
         /\ toks # <<>> => Tiles(n, 0, 1, 1)
         /\ \A k \in 1..Len(n.kids) : toks[nodes[n.kids[k]].to + 1] = "NEWLINE"

(* No token is lost or read twice: every node that is built covers a run   *)
(* of tokens that its own tokens and its children's tile, and the root of  *)
(* an accepted program covers the whole stream, line by line, definitions  *)
(* before statements, each statement with a target to assign to.           *)
TreesCoverTokens ==
  /\ \A p \in 1..Len(nodes) : Complete(nodes[p])
  /\ Accepted =>
       LET children == nodes[result].kids
           kind(k) == nodes[children[k]].kind
       IN  /\ nodes[result].kind = "Program"
           /\ nodes[result].from = 1 /\ nodes[result].to = Len(toks)
           /\ \A k \in 1..Len(children) :
                /\ kind(k) \in {"VariableDefinition", "AssignmentStatement"}
                /\ k > 1 /\ kind(k) = "VariableDefinition" =>
                     kind(k - 1) = "VariableDefinition"
                /\ kind(k) = "AssignmentStatement" => Len(nodes[children[k]].kids) > 1

(* The levels of the language's operators, loosest first, and whether an   *)
(* operator that follows the operand of n belongs to this operand: if it is*)
(* tighter than n, or both are comparisons, which associate to the right.  *)
BinaryLevel(op) ==
  CASE op = "OR" -> 1
    [] op = "AND" -> 2
    [] op \in Comparisons -> 4
    [] op \in Additive -> 5
    [] op \in Multiplicative -> 6

UnaryLevel(op) == IF op = "NOT" THEN 3 ELSE 7

Takes(n, op) ==
  LET level == IF n.kind = "UnaryExpression" THEN UnaryLevel(toks[n.token])
               ELSE BinaryLevel(toks[n.token])
  IN  BinaryLevel(op) > level \/ (BinaryLevel(op) = 4 /\ level = 4)

(* Precedence and associativity: whatever calls it was built in, the right *)
(* operand of an operator is not topped by an operator that does not belong*)
(* to it, and does not end before one that does.                           *)
OperatorsBind ==
  \A p \in 1..Len(nodes) :
    LET n == nodes[p]
        operand == nodes[n.kids[Len(n.kids)]]
        next == TypeAt(n.to + 1)
    IN  n.kind \in {"BinaryExpression", "UnaryExpression"} =>
          /\ operand.kind = "BinaryExpression" => Takes(n, toks[operand.token])
          /\ next \in DOMAIN InfixPower => ~Takes(n, next)

(* Parsing ends, whatever the stream: every recursion and every loop has   *)
(* consumed a token before it comes round.                                 *)
Termination == <>Done
============================================================================
