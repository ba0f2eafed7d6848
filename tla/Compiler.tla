------------------------------ MODULE Compiler ------------------------------
(***************************************************************************)
(* The driver (src/chocopc.cpp): one file after the other through lexer,   *)
(* parser, pretty printer, semantic analysis and IR generator, and what is *)
(* printed on the way.  What the lexer and the parser make of a file is    *)
(* part of the file; the visitors after them are Semantic and IRGen, which *)
(* work on the variables here.  A diagnostics manager, symbol table and    *)
(* module live as long as the iteration of the loop they belong to.        *)
(***************************************************************************)
EXTENDS PrettyPrinter

CONSTANTS
  FileNames,     \* the files of the command lines
  Contents,      \* what lexer and parser make of the file of a name
  CommandLines   \* the command lines

NoTree == <<Null>>   \* the nullptr in the place of the root

(* Of a file: whether it can be read, the number of errors the lexer and   *)
(* the parser report, and the tree the parser returns, if any.             *)
ASSUME CompilerAssumption ==
  /\ \A name \in FileNames :
       LET f == Contents[name]
       IN  /\ f.readable \in BOOLEAN
           /\ f.lexer \in Nat /\ f.parser \in Nat
           /\ f.tree \in Programs \cup {NoTree}
  /\ CommandLines \subseteq
       [files : Seq(FileNames), prettyPrint : BOOLEAN, emitLLVM : BOOLEAN]

VARIABLES
  args,       \* the parsed command line
  file,       \* the file of the iteration
  output,     \* what has been printed, with the file it is about
  \* The visitors, one at a time, as in Semantic and IRGen.
  program, phase, child, target, stack, result, table, diags, undefined,
  value, allocation, strings, globals, code

visitors == <<program, child, target, stack, result, table, value, allocation,
              strings, globals, code>>
driver == <<args, file, output>>
vars == <<driver, visitors, phase, diags, undefined>>

Analysis == INSTANCE Semantic
Generation == INSTANCE IRGen WITH result <- value

Init ==
  /\ args \in CommandLines
  /\ file = 1
  /\ output = <<>>
  /\ phase = "next file"
  /\ program = <<>> /\ child = 1 /\ target = 0 /\ stack = <<>>
  /\ result = Analysis!EmptyAny
  /\ table = Analysis!Builtins
  /\ diags = <<>>
  /\ undefined = FALSE
  /\ value = Generation!EmptyAny
  /\ allocation = <<>> /\ strings = <<>> /\ globals = <<>> /\ code = <<>>

File == Contents[args.files[file]]

AtFile(at) == phase = at /\ file <= Len(args.files)

Prints(what, about) == output' = Append(output, [file |-> file, what |-> what, about |-> about])

(* printAll().                                                             *)
PrintAll(list) ==
  IF list = <<>> THEN UNCHANGED output ELSE Prints("diagnostics", list)

Errors(n, where) == [i \in 1..n |-> [id |-> where, child |-> i, place |-> where]]

StaleTable == table   \* mutant: the table outlives the loop

FreshTable == Analysis!Builtins

(* `continue', or the end of the loop's body: what the visitors keep for   *)
(* the file is destroyed.                                                  *)
NextFile ==
  /\ phase' = "next file"
  /\ file' = file + 1
  /\ program' = <<>> /\ child' = 1 /\ target' = 0 /\ stack' = <<>>
  /\ result' = Analysis!EmptyAny
  /\ table' = FreshTable
  /\ value' = Generation!EmptyAny
  /\ allocation' = <<>> /\ strings' = <<>> /\ globals' = <<>> /\ code' = <<>>

GoOn(to) == phase' = to /\ UNCHANGED <<file, visitors>>

----------------------------------------------------------------------------
(* Reading, lexing, parsing.                                               *)

Unreadable ==
  /\ AtFile("next file")
  /\ ~File.readable
  /\ Prints("system error", <<>>)
  /\ NextFile
  /\ UNCHANGED <<args, diags, undefined>>

NewManager(reported) == reported

LexUnchecked ==   \* mutant: no hadError() after the lexer
  /\ AtFile("next file")
  /\ File.readable
  /\ diags' = NewManager(Errors(File.lexer, "lexer"))
  /\ PrintAll(diags')
  /\ GoOn("parse")
  /\ UNCHANGED <<args, undefined>>

Lex ==
  /\ AtFile("next file")
  /\ File.readable
  /\ diags' = NewManager(Errors(File.lexer, "lexer"))
  /\ PrintAll(diags')
  /\ IF diags' # <<>> THEN NextFile ELSE GoOn("parse")
  /\ UNCHANGED <<args, undefined>>

ParseUnchecked ==   \* mutant: `!root' is not asked
  /\ AtFile("parse")
  /\ diags' = diags \o Errors(File.parser, "parser")
  /\ PrintAll(diags')
  /\ IF diags' # <<>> THEN NextFile ELSE GoOn("print")
  /\ UNCHANGED <<args, undefined>>

Parse ==
  /\ AtFile("parse")
  /\ diags' = diags \o Errors(File.parser, "parser")
  /\ PrintAll(diags')
  /\ IF File.tree = NoTree \/ diags' # <<>> THEN NextFile ELSE GoOn("print")
  /\ UNCHANGED <<args, undefined>>

----------------------------------------------------------------------------
(* The pretty printer.                                                     *)

HasNull(p) == \E c \in 1..Len(p) : p[c].kind = "AssignmentStatement" /\ Hollow[p[c].expr]
HasIsIn(p) == \E c \in 1..Len(p) : p[c].kind = "AssignmentStatement" /\ HasIs[p[c].expr]

StartAnalysis ==
  /\ phase' = "build"
  /\ program' = File.tree
  /\ UNCHANGED <<args, file, child, target, stack, result, table, diags,
                 value, allocation, strings, globals, code>>

SkipPrint ==
  /\ AtFile("print")
  /\ ~args.prettyPrint
  /\ StartAnalysis
  /\ UNCHANGED <<output, undefined>>

PrettyPrint ==
  /\ AtFile("print")
  /\ args.prettyPrint
  /\ ~HasNull(File.tree)
  /\ Prints("tree", <<>>)
  /\ undefined' = (undefined \/ HasIsIn(File.tree))
  /\ StartAnalysis

(* A virtual call through nullptr, or what std::unreachable() leads to.    *)
PrintCrash ==
  /\ AtFile("print")
  /\ args.prettyPrint
  /\ HasNull(File.tree) \/ HasIsIn(File.tree)
  /\ phase' = "crashed"
  /\ UNCHANGED <<driver, visitors, diags, undefined>>

----------------------------------------------------------------------------
(* The semantic analysis and the IR generation.                            *)

Analyse ==
  /\ phase \in {"build", "check"}
  /\ Analysis!Next
  /\ UNCHANGED <<driver, value, allocation, strings, globals, code>>

Reject ==
  /\ phase = "rejected"
  /\ PrintAll(diags)
  /\ NextFile
  /\ UNCHANGED <<args, diags, undefined>>

(* The generator starts with the builder's table.                          *)
StartGeneration ==
  /\ phase' = "generate"
  /\ child' = 1 /\ target' = 0 /\ stack' = <<>>
  /\ value' = Generation!EmptyAny
  /\ allocation' = Generation!NoAllocations(table)
  /\ UNCHANGED <<driver, program, result, table, diags, undefined, strings, globals, code>>

AcceptAnyway == phase \in {"accepted", "rejected"} /\ StartGeneration   \* mutant: no hadError()

Accept == phase = "accepted" /\ StartGeneration

Generate ==
  /\ phase = "generate"
  /\ Generation!Next
  /\ UNCHANGED <<driver, result, diags>>

EndOfFile ==
  /\ phase = "generated"
  /\ IF args.emitLLVM THEN Prints("module", <<>>) ELSE UNCHANGED output
  /\ NextFile
  /\ UNCHANGED <<args, diags, undefined>>

----------------------------------------------------------------------------

(* The end of the loop and `return 0', or the death of the process.        *)
Done ==
  \/ phase = "next file" /\ file > Len(args.files)
  \/ phase = "crashed"

Terminating == Done /\ UNCHANGED vars

Next ==
  \/ Unreadable \/ Lex \/ Parse
  \/ SkipPrint \/ PrettyPrint \/ PrintCrash
  \/ Analyse \/ Reject \/ Accept \/ Generate \/ EndOfFile
  \/ Terminating

Spec == Init /\ [][Next]_vars

(* The driver's calls keep running until they return.                      *)
FairSpec == Spec /\ WF_vars(Next)
============================================================================
