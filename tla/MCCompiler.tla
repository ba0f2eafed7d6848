----------------------------- MODULE MCCompiler -----------------------------
(***************************************************************************)
(* Command lines for TLC: up to two files of every kind, and three of the  *)
(* kinds that could disturb each other.                                    *)
(***************************************************************************)
EXTENDS CompilerProperties, Functions

Lit(t) == [kind |-> "Literal", type |-> t, value |-> "v"]
Name(n) == [kind |-> "Identifier", name |-> n]
Op(op, l, r) == [kind |-> "BinaryExpression", op |-> op, lhs |-> l, rhs |-> r]
Minus(e) == [kind |-> "UnaryExpression", op |-> "MINUS", rhs |-> e]
Empty == [kind |-> "GroupingExpression", expr |-> Null]

MCTexts == Types \cup {"a", "b", "foo"}
MCValues == {"v"}

A == Name("a")
Sum == Op("PLUS", A, Lit("int"))
Mixed == Op("PLUS", A, Lit("bool"))
Same == Op("IS", A, A)
Negative == Minus(A)

MCExpressions ==
  {Lit(t) : t \in LiteralTypes} \cup {A, Name("int"), Sum, Mixed, Same, Negative, Empty}

Define(n, t, v) == [kind |-> "VariableDefinition", name |-> n, type |-> t, value |-> Lit(v)]
Assign(n, e) == [kind |-> "AssignmentStatement", targets |-> <<n>>, expr |-> e]

IntA == Define("a", "int", "int")

(* Programs that define `a', that use it without a definition, and one of  *)
(* every kind that some phase has no answer for.                           *)
Sound == <<<<>>, <<IntA, Assign("a", Sum)>>, <<Define("a", "str", "str"), Assign("a", A)>>>>
Unsound == <<<<Define("b", "int", "int"), Assign("b", A)>>, <<Define("a", "int", "str")>>>>
Fatal ==
  <<<<Define("a", "foo", "int")>>, <<IntA, Assign("int", Lit("int"))>>,
    <<IntA, Assign("a", Name("int"))>>, <<IntA, Assign("a", Negative)>>,
    <<IntA, Assign("a", Empty)>>, <<Define("a", "object", "<None>")>>,
    <<IntA, Assign("a", Same)>>, <<IntA, Assign("a", Mixed)>>>>

MCPrograms == Range(Sound \o Unsound \o Fatal)

Source(lexer, parser, tree) ==
  [readable |-> TRUE, lexer |-> lexer, parser |-> parser, tree |-> tree]

Parsed(programs) == [i \in 1..Len(programs) |-> Source(0, 0, programs[i])]

Broken ==
  <<[readable |-> FALSE, lexer |-> 0, parser |-> 0, tree |-> NoTree],
    Source(2, 0, NoTree), Source(0, 1, NoTree), Source(0, 0, NoTree),
    Source(0, 1, <<IntA, Assign("a", Empty)>>)>>

(* The files are numbered, the ones that cannot kill the process first.    *)
Harmless == Broken \o Parsed(Sound \o Unsound)
MCContents == Harmless \o Parsed(Fatal)

MCFileNames == 1..Len(MCContents)

CommandLine(files, pprint, emit) ==
  [files |-> files, prettyPrint |-> pprint, emitLLVM |-> emit]

MCCommandLines ==
  {CommandLine(fs, p, e) : fs \in UNION {[1..n -> MCFileNames] : n \in 1..2},
                           p \in BOOLEAN, e \in BOOLEAN}
  \cup {CommandLine(fs, FALSE, TRUE) : fs \in [1..3 -> 1..Len(Harmless)]}
============================================================================
