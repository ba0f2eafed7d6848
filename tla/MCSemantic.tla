----------------------------- MODULE MCSemantic -----------------------------
(***************************************************************************)
(* Programs for TLC: a table of definitions in front of every expression   *)
(* of a kind, and every short list of definitions.                         *)
(***************************************************************************)
EXTENDS SemanticProperties

MCValues == {"v"}

MCTexts == Types \cup {"a", "b", "u", "[int]"}

Lit(t) == [kind |-> "Literal", type |-> t, value |-> "v"]
Name(n) == [kind |-> "Identifier", name |-> n]
Op(op, l, r) == [kind |-> "BinaryExpression", op |-> op, lhs |-> l, rhs |-> r]
Minus(e) == [kind |-> "UnaryExpression", op |-> "MINUS", rhs |-> e]
Paren(e) == [kind |-> "GroupingExpression", expr |-> e]

Define(n, t, v) == [kind |-> "VariableDefinition", name |-> n, type |-> t, value |-> Lit(v)]
Assign(targets, e) == [kind |-> "AssignmentStatement", targets |-> targets, expr |-> e]

(* One representative of the operators the checker tells apart: `is' stands*)
(* for all whose type it does not know.                                    *)
SomeOperators == {"AND", "IS"}

Atoms == {Lit(t) : t \in LiteralTypes} \cup {Name(n) : n \in {"a", "b", "u", "int"}}

Small == {Lit("int"), Lit("bool"), Name("a"), Name("u")}

Ops(L, R) == {Op(op, l, r) : op \in SomeOperators, l \in L, r \in R}

Twos == Ops(Atoms, Atoms) \cup {Minus(e) : e \in Atoms} \cup {Paren(e) : e \in Atoms}
          \cup {Paren(Null)}

SmallTwos == Ops(Small, Small) \cup {Minus(Name("u")), Paren(Null), Paren(Name("a"))}

Threes ==
  Ops(Small, SmallTwos) \cup Ops(SmallTwos, Small)
    \cup {Minus(e) : e \in SmallTwos} \cup {Paren(e) : e \in SmallTwos}

MCExpressions == Atoms \cup Twos \cup Threes

(* One assignment of every expression, to one target or two, behind        *)
(* definitions of `a' and of `b', or of neither `b' nor `u'.               *)
Headers ==
  {<<Define("a", "bool", "bool")>>, <<Define("a", "object", "bool")>>,
   <<Define("a", "bool", "bool"), Define("b", "str", "str")>>}

MCAssignments ==
  {Assign(ts, e) : ts \in {<<"a">>, <<"a", "u">>, <<"u", "b">>, <<"int">>}, e \in MCExpressions}

OneAssignment == {h \o <<a>> : h \in Headers, a \in MCAssignments}

(* Every list of at most two definitions, and a use of their variables;    *)
(* every list of three that differ in what the builder looks at.           *)
MCDefinitions ==
  {Define(n, t, v) : n \in {"a", "b", "int"}, t \in {"int", "object", "[int]", "a"},
                     v \in {"int", "<None>"}}

IntDefinitions ==
  {Define(n, t, "int") : n \in {"a", "b"}, t \in {"int", "object", "[int]", "a"}}

Uses == {Assign(<<"a">>, Name("b")), Assign(<<"b">>, Lit("str"))}

Lists(D, n) == UNION {[1..k -> D] : k \in 0..n}

OnlyDefinitions == Lists(MCDefinitions, 2) \cup Lists(IntDefinitions, 3)

Used == {ds \o <<u>> : ds \in Lists(MCDefinitions, 2), u \in Uses}

MCOneDefinition == Lists(MCDefinitions, 1)

(* Two assignments after each other.                                       *)
TwoAssignments ==
  {<<Define("a", "bool", "bool"), Assign(<<"a">>, e), Assign(<<"a">>, f)>> :
      e \in SmallTwos, f \in SmallTwos}

MCPrograms == OneAssignment \cup OnlyDefinitions \cup Used \cup TwoAssignments
============================================================================
