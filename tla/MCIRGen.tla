------------------------------ MODULE MCIRGen ------------------------------
(***************************************************************************)
(* Programs for TLC: definitions of two or three variables, and every      *)
(* assignment of a kind, or two small ones after each other.               *)
(***************************************************************************)
EXTENDS IRGenClaims

Lit(t, v) == [kind |-> "Literal", type |-> t, value |-> v]
One == Lit("int", "1")
Yes == Lit("bool", "True")
S == Lit("str", "s")
T == Lit("str", "t")
None == Lit("<None>", "None")
Name(n) == [kind |-> "Identifier", name |-> n]
Op(op, l, r) == [kind |-> "BinaryExpression", op |-> op, lhs |-> l, rhs |-> r]
Paren(e) == [kind |-> "GroupingExpression", expr |-> e]

MCTexts == Types \cup {"a", "b", "c"}
MCValues == {"1", "True", "s", "t", "None"}

Define(n, t, v) == [kind |-> "VariableDefinition", name |-> n, type |-> t, value |-> v]
Assign(targets, e) == [kind |-> "AssignmentStatement", targets |-> targets, expr |-> e]

(* One representative of every way the operators are translated.           *)
SomeOperators == {"MINUS", "EQUAL", "AND", "IS"}

Ops(operators, L, R) == {Op(op, l, r) : op \in operators, l \in L, r \in R}

Atoms == {One, Yes, S, None} \cup {Name(n) : n \in {"a", "b", "c"}}

Twos == Ops(SomeOperators, Atoms, Atoms) \cup {Paren(e) : e \in Atoms \cup {T}}

Small == {Op("MINUS", Name("a"), Name("b")), Op("MINUS", One, Name("a")),
          Op("EQUAL", Name("a"), Name("b")), Op("AND", Name("c"), Yes), Paren(Name("b"))}

Threes == Ops({"MINUS", "AND"}, {One, Name("c")}, Small)
            \cup Ops({"MINUS", "AND"}, Small, {Name("b"), Name("c")})
            \cup {Paren(e) : e \in Small}

MCExpressions == Atoms \cup {T} \cup Twos \cup Threes

Headers ==
  {<<Define("a", "int", One), Define("b", "int", One), Define("c", "bool", Yes)>>,
   <<Define("a", "str", S), Define("b", "str", S), Define("c", "str", T)>>,
   <<Define("a", "object", One), Define("b", "object", S), Define("c", "bool", Yes)>>,
   <<Define("a", "object", None), Define("b", "int", One), Define("c", "int", One)>>}

OneAssignment ==
  {h \o <<Assign(ts, e)>> : h \in Headers, ts \in {<<"c">>, <<"b", "a">>}, e \in MCExpressions}

(* Assignments that read what the ones before them wrote.                  *)
Steps ==
  {Assign(ts, e) : ts \in {<<"a">>, <<"b">>, <<"b", "a">>}, e \in Small \cup {S, T, Name("a")}}

TwoAssignments == {h \o <<s, t>> : h \in Headers, s \in Steps, t \in Steps}

OneDefinition == {SubSeq(h, 1, n) : h \in Headers, n \in 0..3}

MCPrograms == OneAssignment \cup TwoAssignments \cup OneDefinition
============================================================================
