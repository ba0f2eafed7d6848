--------------------------- MODULE IRGenProperties ---------------------------
(***************************************************************************)
(* What IRGen.tla is checked and proved to do: among others, that the code *)
(* it emits, run with symbolic values, does what the program says.         *)
(***************************************************************************)
EXTENDS IRGen, IRGenReference

Pointers ==
  [kind : {"global"}, at : 1..Len(globals)] \cup [kind : {"instruction"}, at : 1..Len(code)]
    \cup {Null}

LLVMValues == [kind : {"constant"}, literal : Literals] \cup Pointers

Frames ==
  [at : {"visit", "binary.lhs", "binary.rhs", "assignment"},
   node : Expressions \cup {Null}, lhs : LLVMValues \cup {EmptyAny}]

LLVMTypes == {"i32", "i1", "ptr", "chars", "void"}

(* The variables keep their C++ types, and no pointer leads out of the     *)
(* module.                                                                 *)
TypeOK ==
  /\ program \in Programs
  /\ phase \in {"generate", "generated", "crashed"}
  /\ child \in 1..(Len(program) + 1)
  /\ target \in Nat
  /\ stack \in Seq(Frames)
  /\ result \in LLVMValues \cup {EmptyAny}
  /\ undefined \in BOOLEAN
  /\ allocation \in [{x \in DOMAIN table : table[x].kind = "Variable"} -> Pointers]
  /\ \A text \in DOMAIN strings : strings[text] \in 1..Len(globals)
  /\ globals \in Seq([type : LLVMTypes, init : Literals])
  /\ code \in Seq([op : Operators \cup {"load", "store", "ret"}, type : LLVMTypes,
                   args : Seq(LLVMValues)])

----------------------------------------------------------------------------
(* The assertions of LLVM.cpp:73, 74 and 108, and the pointer that line 5  *)
(* casts: a name that is reached in a definition, in an expression or as a *)
(* target is a variable's, and in the latter two its definition has given  *)
(* it an allocation.                                                       *)
NamesHaveAllocations ==
  /\ Visits("VariableDefinition") => IsVariable(Child.name)
  /\ Enters("Identifier") =>
       IsVariable(Top.node.name) /\ allocation[Top.node.name].kind = "global"
  /\ AtTarget =>
       LET name == Child.targets[target]
       IN  IsVariable(name) /\ allocation[name].kind = "global"

(* Interned strings and variables own one global each and share none: two  *)
(* literals have the same global exactly if they have the same text, and   *)
(* every variable that is visited has a global with its own first value.   *)
OneGlobalEach ==
  /\ \A n \in 1..Len(globals) : globals[n].type = "chars" =>
       LET text == globals[n].init.value
       IN  text \in DOMAIN strings /\ strings[text] = n
  /\ \A text \in DOMAIN strings :
       globals[strings[text]].type = "chars" /\ globals[strings[text]].init.value = text
  /\ \A name \in DOMAIN allocation :
       IF DefinitionOf(program, name) >= child THEN allocation[name] = Null
       ELSE LET global == globals[allocation[name].at]
            IN  global.type # "chars" /\ global.init = FirstValue(program, name)
  /\ \A m, n \in DOMAIN allocation :
       allocation[m] = allocation[n] => m = n \/ allocation[m] = Null

(* Every operand of an instruction is a constant, a global, or the result  *)
(* of an earlier instruction that has one.                                 *)
OperandsAreDefined ==
  \A i \in 1..Len(code) : \A k \in 1..Len(code[i].args) :
    LET v == code[i].args[k]
    IN  v.kind = "instruction" => v.at < i /\ code[v.at].type # "void"

----------------------------------------------------------------------------
(* The meaning of the program and of the code, in symbolic values: trees of*)
(* literals and operations.                                                *)

Operation(op, l, r) == [kind |-> "BinaryExpression", op |-> op, lhs |-> l, rhs |-> r]

Characters(lit) == [kind |-> "characters", of |-> lit]

Evaluate(env) ==
  LET value[e \in Expressions] ==
        CASE e.kind = "Identifier" -> env[e.name]
          [] e.kind = "GroupingExpression" /\ e.expr # Null -> value[e.expr]
          [] e.kind = "BinaryExpression" -> Operation(e.op, value[e.lhs], value[e.rhs])
          [] OTHER -> e
  IN  value

AssignTo(env, targets, v) ==
  [n \in DOMAIN env |-> IF \E i \in 1..Len(targets) : targets[i] = n THEN v ELSE env[n]]

(* The values of the variables after the first c children.                 *)
ProgramAfter ==
  LET after[c \in 0..Len(program)] ==
        IF c = 0 THEN [n \in DOMAIN allocation |-> Null]
        ELSE LET node == program[c]
                 env == after[c - 1]
             IN  IF node.kind = "VariableDefinition"
                 THEN AssignTo(env, <<node.name>>, node.value)
                 ELSE AssignTo(env, node.targets, Evaluate(env)[node.expr])
  IN  after

ProgramNow ==
  LET env == ProgramAfter[child - 1]
  IN  IF target < 2 THEN env
      ELSE AssignTo(env, SubSeq(Child.targets, 1, target - 1), Evaluate(env)[Child.expr])

(* The memory and the results after the first n instructions.  The address *)
(* of the characters of a string is the string's value.                    *)
CodeAfter ==
  LET operand(s, v) ==
        CASE v.kind = "constant" -> v.literal
          [] v.kind = "instruction" -> s.results[v.at]
          [] v.kind = "global" -> globals[v.at].init
      after[n \in 0..Len(code)] ==
        IF n = 0
        THEN [memory |-> [g \in 1..Len(globals) |->
                            IF globals[g].type = "chars" THEN Characters(globals[g].init)
                            ELSE globals[g].init],
              results |-> <<>>]
        ELSE LET s == after[n - 1]
                 args == code[n].args
                 results(v) == Append(s.results, v)
             IN  CASE code[n].op = "load" ->
                        [s EXCEPT !.results = results(s.memory[args[1].at])]
                   [] code[n].op = "store" ->
                        [memory |-> [s.memory EXCEPT ![args[2].at] = operand(s, args[1])],
                         results |-> results(Null)]
                   [] code[n].op = "ret" -> [s EXCEPT !.results = results(Null)]
                   [] OTHER ->
                        [s EXCEPT !.results = results(
                           Operation(code[n].op, operand(s, args[1]), operand(s, args[2])))]
  IN  after

(* Whether the stores write as much as there is room for.                  *)
Fits(v, name) == TypeOf(v) = globals[allocation[name].at].type

StoresHaveRoom ==
  \A i \in 1..Len(code) : code[i].op = "store" =>
    TypeOf(code[i].args[1]) = globals[code[i].args[2].at].type

(* The code emitted so far, when it runs, leaves every variable with the   *)
(* value that the program so far gives it, unless LLVM could not make sense*)
(* of an operation or a store is out of the bounds of its variable.        *)
CodeMeansProgram ==
  ~undefined /\ StoresHaveRoom =>
    \A name \in DOMAIN allocation : allocation[name] # Null =>
      CodeAfter[Len(code)].memory[allocation[name].at] = ProgramNow[name]

----------------------------------------------------------------------------
(* The generator fails on exactly these programs and ends on every other.  *)
GenerationFailuresAreExplained ==
  Done => (phase = "crashed" \/ undefined <=> Untranslatable(program))

(* What the type checker promises of a store: if it knows the type of the  *)
(* expression and the target is not an object's, the value has the size of *)
(* the variable.  Not for the characters of a string literal, which the    *)
(* generator loads and stores in place of their address.                   *)
TypedStoresFit ==
  AtTarget /\ ~undefined =>
    LET name == Child.targets[target]
    IN  \/ Fits(result, name)
        \/ StaticType(program)[Child.expr] = Unknown
        \/ TypeDeclared(program, name) = "object"
        \/ TypeOf(result) = "chars"

(* The generation of every program ends.                                   *)
Termination == <>Done
============================================================================
