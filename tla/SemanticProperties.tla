------------------------- MODULE SemanticProperties -------------------------
(***************************************************************************)
(* What Semantic.tla is checked and proved to do.                          *)
(***************************************************************************)
EXTENDS Semantic, SemanticReference

Frames ==
  [at : {"visit", "unary", "binary.lhs", "binary.rhs"},
   node : Expressions \cup {Null}, lhs : Optionals]

Entries == [kind : {"Type", "Variable"}, type : Types]

Diagnostics ==
  [id : DiagIDs, child : Nat, place : {"definition", "expression", "target"}]

(* The variables keep their C++ types; a pointer to an expression is only  *)
(* null where the parser left it so, and the builtin types stay in the     *)
(* table.                                                                  *)
TypeOK ==
  /\ program \in Programs
  /\ phase \in {"build", "check", "accepted", "rejected", "crashed"}
  /\ child \in 1..(Len(program) + 1)
  /\ target \in Nat
  /\ stack \in Seq(Frames)
  /\ result \in Optionals \cup {EmptyAny}
  /\ Types \subseteq DOMAIN table /\ DOMAIN table \subseteq Texts
  /\ \A text \in DOMAIN table : table[text] \in Entries
  /\ \A type \in Types : table[type] = Builtins[type]
  /\ diags \in Seq(Diagnostics)
  /\ undefined \in BOOLEAN

ReportedAt(c, places) ==
  \E i \in 1..Len(diags) : diags[i].child = c /\ diags[i].place \in places

(* If the analysis comes to a verdict without undefined behaviour, it is   *)
(* that of the typing rules: what it lets through is well typed, and what  *)
(* it rejects is not.                                                      *)
VerdictIsTyping ==
  phase \in {"accepted", "rejected"} /\ ~undefined =>
    (phase = "accepted" <=> WellTyped(program))

(* The analysis fails on exactly the programs that hold something it has   *)
(* no answer for; on every other program it ends with a verdict.           *)
FailuresAreExplained ==
  Done => (phase = "crashed" \/ undefined <=> Untypable(program))

(* A definition that leaves no variable for the type checker to find       *)
(* (TypeChecker.cpp:6, TypeEnvironment.cpp:16) has been reported by the    *)
(* builder: asking hadError() between the two (src/chocopc.cpp:75) would   *)
(* be enough to make the type checker's assertion hold.                    *)
Visited(c) == phase # "build" \/ c < child

MissingVariablesAreReported ==
  phase # "crashed" =>
    \A c \in DefinitionsOf(program) :
      Visited(c) => IsVariable(program[c].name) \/ ReportedAt(c, {"definition"})

(* An error in the expression of an assignment does not show up again as a *)
(* mismatch with a target: an expression with an error in it has no type,  *)
(* through all the operators and parentheses around it.                    *)
ErrorsDoNotCascade ==
  \A i, j \in 1..Len(diags) :
    diags[i].place = "expression" /\ diags[j].id = "TypeMismatch" =>
      diags[i].child # diags[j].child

(* The analysis of every program ends.                                     *)
Termination == <>Done

(* The assertion of src/semantic/TypeChecker.cpp:6: "Variable does not     *)
(* exist in symbol table".                                                 *)
DefinitionsHaveAnEntry ==
  Visits("check", "VariableDefinition") => Has(Child.name)
============================================================================
