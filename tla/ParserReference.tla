-------------------------- MODULE ParserReference --------------------------
(***************************************************************************)
(* The language of the parser as a grammar, and the one tree the grammar   *)
(* gives each sentence, to compare the parser's results with.  The levels  *)
(* of the grammar for expressions are, loosest first,                      *)
(*   1 or   2 and   3 not   4 comparison   5 + -   6 * // %   7 -   8 atom *)
(* and all but 4 associate to the left.                                    *)
(***************************************************************************)
EXTENDS ParserProperties

Level == 1..8

Operators ==
  <<{"OR"}, {"AND"}, {"NOT"}, Comparisons, Additive, Multiplicative, {"MINUS"}>>

Tree(kind, token, kids) == [kind |-> kind, token |-> token, kids |-> kids]

(* A level with the first and the last token of an expression.             *)
Parts(ts) == Level \X (1..(Len(ts) + 1)) \X (0..Len(ts))

(* The trees of a binary operator of ops, from the trees d of smaller parts*)
(* of its operands' levels.                                                *)
OperatorTrees(d, l, r, i, j, ops, ts) ==
  UNION {{Tree("BinaryExpression", k, <<a, b>>) :
            a \in d[<<l, i, k - 1>>], b \in d[<<r, k + 1, j>>]} :
         k \in {k \in (i + 1)..(j - 1) : ts[k] \in ops}}

(* The trees of a part, from those of smaller parts.                       *)
Rule(d, part, ts) ==
  LET level == part[1]
      i == part[2]
      j == part[3]
      tighter == d[<<level + 1, i, j>>]
      binary(l, r) == OperatorTrees(d, l, r, i, j, Operators[level], ts)
  IN  CASE i > j -> {}
        [] i <= j /\ level \in {1, 2, 5, 6} -> tighter \cup binary(level, level + 1)
        [] i <= j /\ level = 4 -> tighter \cup binary(5, 4)
        [] i <= j /\ level \in {3, 7} ->
             tighter \cup
               {Tree("UnaryExpression", i, <<a>>) :
                  a \in IF ts[i] \in Operators[level] THEN d[<<level, i + 1, j>>] ELSE {}}
        [] i = j /\ level = 8 ->
             IF ts[i] = "ID" THEN {Tree("Identifier", i, <<>>)}
             ELSE IF ts[i] \in Literals THEN {Tree("Literal", i, <<>>)}
             ELSE {}
        [] i < j /\ level = 8 ->
             {Tree("GroupingExpression", i, <<a>>) :
                a \in IF ts[i] = "OPENPAREN" /\ ts[j] = "CLOSEPAREN"
                      THEN d[<<1, i + 1, j - 1>>] ELSE {}}

(* The trees of the expressions of a level from token i to token j of ts.  *)
Derivations(ts) ==
  LET derive[part \in Parts(ts)] == Rule(derive, part, ts) IN derive

(* A line from token i to the NEWLINE at token j.                          *)
DefinitionTrees(i, j, ts) ==
  {Tree("VariableDefinition", 0,
        <<Tree("Identifier", i, <<>>), Tree("Type", i + 2 + d, <<>>), Tree("Literal", j - 1, <<>>)>>) :
     d \in {d \in 0..Len(ts) :
              /\ j = i + 2 * d + 5
              /\ ts[i] = "ID" /\ ts[i + 1] = "COLON"
              /\ \A k \in 1..d : ts[i + 1 + k] = "OPENBRACK"
              /\ ts[i + 2 + d] \in {"ID", "IDSTRING"}
              /\ \A k \in 1..d : ts[i + 2 + d + k] = "CLOSEBRACK"
              /\ ts[j - 2] = "ASSIGN" /\ ts[j - 1] \in Literals}}

AssignmentTrees(i, j, ts) ==
  UNION {{Tree("AssignmentStatement", 0,
               [k \in 1..n |-> Tree("Identifier", i + 2 * k - 2, <<>>)] \o <<e>>) :
            e \in Derivations(ts)[<<1, i + 2 * n, j - 1>>]} :
           n \in {n \in 1..Len(ts) :
                    /\ i + 2 * n < j
                    /\ \A k \in 1..n : ts[i + 2 * k - 2] = "ID" /\ ts[i + 2 * k - 1] = "ASSIGN"}}

NewLines(ts) == {i \in 1..Len(ts) : ts[i] = "NEWLINE"}

LineStart(j, ts) ==
  LET before == {i \in NewLines(ts) : i < j}
  IN  IF before = {} THEN 1 ELSE 1 + (CHOOSE i \in before : \A k \in before : k <= i)

(* Definitions, then assignments.                                          *)
Grammatical ==
  /\ toks # <<>> => Len(toks) \in NewLines(toks)
  /\ \E last \in NewLines(toks) \cup {0} : \A j \in NewLines(toks) :
       IF j <= last THEN DefinitionTrees(LineStart(j, toks), j, toks) # {}
       ELSE AssignmentTrees(LineStart(j, toks), j, toks) # {}

Trees(ns) ==
  LET tree[p \in 0..Len(ns)] ==
        IF p = Null THEN Tree("nullptr", 0, <<>>)
        ELSE Tree(ns[p].kind, ns[p].token,
                  [k \in DOMAIN ns[p].kids |-> tree[ns[p].kids[k]]])
  IN  tree

HasHole ==
  \E p \in 1..Len(nodes) : nodes[p].kind = "GroupingExpression" /\ nodes[p].kids = <<Null>>

(* The parser accepts exactly the sentences of the grammar and builds for  *)
(* each the tree of the grammar: precedence and associativity are right    *)
(* across every nesting of binary, unary and parenthesised expressions.    *)
(* Parentheses around a missing expression, which the parser lets through, *)
(* are the exception; ParserClaims has it.                                 *)
ParsesTheGrammar ==
  Done /\ ~undefined =>
    /\ Accepted /\ ~HasHole <=> Grammatical
    /\ Accepted /\ ~HasHole =>
         \A k \in DOMAIN nodes[result].kids :
           LET line == nodes[result].kids[k]
               end == nodes[line].to + 1
           IN  DefinitionTrees(LineStart(end, toks), end, toks) \cup AssignmentTrees(LineStart(end, toks), end, toks)
                 = {Trees(nodes)[line]}
============================================================================
