------------------------- MODULE CompilerProperties -------------------------
(***************************************************************************)
(* What Compiler.tla is checked and proved to do.                          *)
(***************************************************************************)
EXTENDS Compiler, IRGenReference

Phases ==
  {"next file", "parse", "print", "build", "check", "accepted", "rejected",
   "generate", "generated", "crashed"}

(* The driver's variables keep their C++ types, and past the parser there  *)
(* is a tree.                                                              *)
TypeOK ==
  /\ args.files \in Seq(FileNames)
  /\ file \in 1..(Len(args.files) + 1)
  /\ phase \in Phases
  /\ \A i \in 1..Len(output) :
       /\ output[i].file \in 1..file
       /\ output[i].what \in {"system error", "diagnostics", "tree", "module"}
  /\ phase \in Phases \ {"next file", "parse"} => File.tree \in Programs
  /\ phase \in Phases \ {"next file", "parse", "print", "crashed"} => program = File.tree
  /\ undefined \in BOOLEAN

(* What the IR generator is given is what it is written for (the initial   *)
(* states of IRGen): a program without errors, and a table with exactly its*)
(* variables and the builtin types, nothing left from another file.        *)
HandOver ==
  phase = "generate" /\ ~undefined =>
    /\ WellTyped(program) /\ ~Untypable(program)
    /\ table = Generation!TableOf(program)

(* Although printAll() prints the whole list and is called three times for *)
(* a file (src/chocopc.cpp:50, 60, 80), no diagnostic is printed twice, and*)
(* none is lost when the loop goes on to the next file.                    *)
PrintedOnce ==
  /\ \A i, j \in 1..Len(output) :
       output[i].what = "diagnostics" /\ output[j].what = "diagnostics"
         /\ output[i].file = output[j].file => i = j
  /\ phase = "next file" /\ file > 1 /\ Contents[args.files[file - 1]].readable /\ diags # <<>> =>
       \E i \in 1..Len(output) :
         output[i] = [file |-> file - 1, what |-> "diagnostics", about |-> diags]

----------------------------------------------------------------------------
(* What follows from a file and the options.                               *)

ToTree(f) == f.readable /\ f.lexer = 0 /\ f.parser = 0 /\ f.tree # NoTree

Shows(a, f) ==
  LET tree == IF a.prettyPrint THEN <<"tree">> ELSE <<>>
      module == IF a.emitLLVM THEN <<"module">> ELSE <<>>
      errors == <<"diagnostics">>
  IN  IF ~f.readable THEN {<<"system error">>}
      ELSE IF f.lexer > 0 \/ f.parser > 0 THEN {errors}
      ELSE IF f.tree = NoTree THEN {<<>>}
      ELSE IF Untypable(f.tree) THEN {tree \o errors, tree \o module}
      ELSE IF WellTyped(f.tree) THEN {tree \o module}
      ELSE {tree \o errors}

Deadly(a, f) ==
  /\ ToTree(f)
  /\ \/ Untypable(f.tree)
     \/ WellTyped(f.tree) /\ Untranslatable(f.tree)
     \/ a.prettyPrint /\ HasIsIn(f.tree)

ShownIn(o, f) ==
  LET shown[n \in 0..Len(o)] ==
        IF n = 0 THEN <<>>
        ELSE IF o[n].file = f THEN Append(shown[n - 1], o[n].what)
        ELSE shown[n - 1]
  IN  shown[Len(o)]

ShownFor(f) == ShownIn(output, f)

Promise == INSTANCE Batch WITH
  Files <- FileNames,
  Shows <- LAMBDA a, name : Shows(a, Contents[name]),
  Deadly <- LAMBDA a, name : Deadly(a, Contents[name]),
  shown <- [f \in 1..(file - 1) |-> ShownFor(f)],
  died <- phase = "crashed"

(* The compiler does what Batch promises: every file has the verdict it    *)
(* would have alone, and the compilation of every command line ends.       *)
BatchSpec == Promise!Spec
============================================================================
