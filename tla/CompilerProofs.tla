--------------------------- MODULE CompilerProofs ---------------------------
(***************************************************************************)
(* Proofs about Compiler, for every command line and whatever lexer and    *)
(* parser make of the files: the driver's variables keep their types, every*)
(* diagnostic is printed exactly once, the generator is only given what it *)
(* is written for, and the loop implements Batch.  The visitors are proved *)
(* about in SemanticProofs and IRGenProofs, which are used as instances.   *)
(***************************************************************************)
EXTENDS CompilerProperties, TreeProofs, SequenceTheorems

(* At work on a file, past the parser, past a phase that had no errors.    *)
InFile == phase # "next file" => file <= Len(args.files)

WithoutErrors ==
  phase \in {"parse", "print", "accepted", "generate", "generated"} => diags = <<>>

(* A diagnostic about the file is the last thing printed about it.         *)
NotYetPrinted ==
  \A i \in 1..Len(output) : output[i].what = "diagnostics" => output[i].file < file

Once ==
  \A i, j \in 1..Len(output) :
    output[i].what = "diagnostics" /\ output[j].what = "diagnostics"
      /\ output[i].file = output[j].file => i = j

NothingLostSoFar ==
  phase = "next file" /\ file > 1 /\ Contents[args.files[file - 1]].readable /\ diags # <<>> =>
    \E i \in 1..Len(output) :
      output[i] = [file |-> file - 1, what |-> "diagnostics", about |-> diags]

OutputIsSeq == \E S : output \in Seq(S)

Inv ==
  /\ TypeOK
  /\ OutputIsSeq
  /\ InFile
  /\ WithoutErrors
  /\ NotYetPrinted
  /\ Once
  /\ NothingLostSoFar

----------------------------------------------------------------------------
(* The visitors.                                                           *)

LEMMA AnalysisFrame ==
  ASSUME phase \in {"build", "check"}, Analysis!Next, undefined \in BOOLEAN
  PROVE  /\ program' = program
         /\ phase' \in {"build", "check", "accepted", "rejected", "crashed"}
         /\ phase' = "accepted" => diags' = <<>>
         /\ undefined' \in BOOLEAN
<1>1. CASE Analysis!EndOfCheck
  BY <1>1 DEF Analysis!EndOfCheck
<1>2. CASE Analysis!CheckDefinition \/ Analysis!VisitName \/ Analysis!CheckTarget
  <2>1. program' = program /\ phase' = phase
    BY <1>2 DEF Analysis!CheckDefinition, Analysis!VisitName, Analysis!CheckTarget
  <2>2. \/ undefined' = (undefined \/ ~Analysis!IsVariable(Analysis!Child.name))
        \/ undefined' = (undefined \/ ~Analysis!IsVariable(Analysis!Top.node.name))
        \/ undefined' = (undefined \/ ~Analysis!IsVariable(Analysis!Child.targets[target]))
    BY <1>2 DEF Analysis!CheckDefinition, Analysis!VisitName, Analysis!CheckTarget
  <2>3. undefined' \in BOOLEAN
    BY <2>2, ZenonT(20)
  <2> QED
    BY <2>1, <2>3
<1>3. CASE Analysis!Terminating
  BY <1>3 DEF Analysis!Terminating, Analysis!Done
<1>4. CASE \/ Analysis!Redefinition \/ Analysis!UndefinedType \/ Analysis!Declare
           \/ Analysis!Traverse \/ Analysis!TraverseNull \/ Analysis!EndOfBuild
           \/ Analysis!BadAnyCast \/ Analysis!Crash
  BY <1>4 DEF Analysis!Redefinition, Analysis!UndefinedType, Analysis!Declare,
              Analysis!Traverse, Analysis!TraverseNull, Analysis!EndOfBuild,
              Analysis!BadAnyCast, Analysis!Crash
<1>5. CASE \/ Analysis!VisitLiteral \/ Analysis!VisitUndefinedName
           \/ Analysis!VisitGrouping \/ Analysis!VisitUnary \/ Analysis!EndUnary
           \/ Analysis!VisitBinary \/ Analysis!VisitRHS \/ Analysis!EndBinary
           \/ Analysis!CheckAssignment \/ Analysis!CheckUndefinedTarget
           \/ Analysis!EndAssignment
  BY <1>5 DEF Analysis!VisitLiteral, Analysis!VisitUndefinedName,
              Analysis!VisitGrouping, Analysis!VisitUnary, Analysis!EndUnary,
              Analysis!VisitBinary, Analysis!VisitRHS, Analysis!EndBinary,
              Analysis!CheckAssignment, Analysis!CheckUndefinedTarget,
              Analysis!EndAssignment
<1> QED
  BY <1>1, <1>2, <1>3, <1>4, <1>5 DEF Analysis!Next

LEMMA GenerationFrame ==
  ASSUME phase = "generate", Generation!Next, undefined \in BOOLEAN
  PROVE  /\ program' = program /\ table' = table
         /\ phase' \in {"generate", "generated", "crashed"}
         /\ undefined' \in BOOLEAN
<1>1. CASE Generation!VisitRHS \/ Generation!EndBinary \/ Generation!LoadExpression
           \/ Generation!StoreTarget
  <2>1. program' = program /\ table' = table /\ phase' = phase
    BY <1>1 DEF Generation!VisitRHS, Generation!EndBinary, Generation!LoadExpression,
                Generation!StoreTarget, Generation!input
  <2>2. CASE Generation!VisitRHS \/ Generation!LoadExpression
    <3>1. undefined' = (undefined \/ value = Generation!Null)
      BY <2>2 DEF Generation!VisitRHS, Generation!LoadExpression
    <3> QED
      BY <3>1, <2>1, ZenonT(20)
  <2>3. CASE Generation!EndBinary
    <3>1. undefined' \in BOOLEAN
      BY <2>3, ZenonT(20) DEF Generation!EndBinary
    <3> QED
      BY <2>1, <3>1
  <2>4. CASE Generation!StoreTarget
    <3>1. undefined' \in BOOLEAN
      BY <2>4, ZenonT(20) DEF Generation!StoreTarget
    <3> QED
      BY <2>1, <3>1
  <2> QED
    BY <1>1, <2>1, <2>2, <2>3, <2>4
<1>2. CASE \/ Generation!VariableDefinition
           \/ Generation!VisitLiteral \/ Generation!VisitName \/ Generation!VisitGrouping
           \/ Generation!VisitBinary \/ Generation!VisitExpression \/ Generation!EndAssignment
           \/ Generation!BadAnyCast \/ Generation!EndOfProgram \/ Generation!Crash
  BY <1>2 DEF Generation!VariableDefinition, Generation!VisitLiteral, Generation!VisitName,
              Generation!VisitGrouping, Generation!VisitBinary, Generation!VisitExpression,
              Generation!EndAssignment, Generation!BadAnyCast, Generation!EndOfProgram,
              Generation!Crash, Generation!input
<1>3. CASE Generation!Terminating
  BY <1>3 DEF Generation!Terminating, Generation!Done, Generation!vars, Generation!input
<1> QED
  BY <1>1, <1>2, <1>3 DEF Generation!Next

----------------------------------------------------------------------------
(* What is printed.                                                        *)

LEMMA AppendAny ==
  ASSUME NEW S, NEW s \in Seq(S), NEW x
  PROVE  /\ Append(s, x) \in Seq(S \cup {x})
         /\ Len(s) \in Nat /\ Len(Append(s, x)) = Len(s) + 1
         /\ Append(s, x)[Len(s) + 1] = x
         /\ \A k \in 1..Len(s) : Append(s, x)[k] = s[k]
<1>1. s \in Seq(S \cup {x})
  <2>1. s \in [1..Len(s) -> S] /\ Len(s) \in Nat
    OBVIOUS
  <2>2. s \in [1..Len(s) -> S \cup {x}]
    BY <2>1
  <2> QED
    BY <2>1, <2>2, SeqDef
<1> QED
  BY <1>1, AppendProperties

LEMMA OutputLength ==
  ASSUME OutputIsSeq
  PROVE  Len(output) \in Nat
BY DEF OutputIsSeq

LEMMA PrintsFacts ==
  ASSUME OutputIsSeq, NEW what, NEW about, Prints(what, about)
  PROVE  /\ OutputIsSeq'
         /\ Len(output) \in Nat /\ Len(output') = Len(output) + 1
         /\ output'[Len(output) + 1] = [file |-> file, what |-> what, about |-> about]
         /\ \A k \in 1..Len(output) : output'[k] = output[k]
<1> DEFINE x == [file |-> file, what |-> what, about |-> about]
<1>1. PICK S : output \in Seq(S)
  BY DEF OutputIsSeq
<1>2. output' = Append(output, x)
  BY DEF Prints
<1> HIDE DEF x
<1>3. /\ output' \in Seq(S \cup {x})
      /\ Len(output) \in Nat /\ Len(output') = Len(output) + 1
      /\ output'[Len(output) + 1] = x
      /\ \A k \in 1..Len(output) : output'[k] = output[k]
  BY <1>1, <1>2, AppendAny
<1>4. OutputIsSeq'
  BY <1>3 DEF OutputIsSeq
<1> QED
  BY <1>3, <1>4 DEF x

LEMMA Numbers ==
  ASSUME Inv
  PROVE  /\ Len(args.files) \in Nat
         /\ file \in Nat /\ 1 <= file /\ file <= Len(args.files) + 1
         /\ file \in 1..file
         /\ \A i \in 1..Len(output) : output[i].file \in Nat /\ output[i].file <= file
<1>1. args.files \in Seq(FileNames) /\ file \in 1..(Len(args.files) + 1)
  BY DEF Inv, TypeOK
<1>2. Len(args.files) \in Nat
  BY <1>1
<1>3. file \in Nat /\ 1 <= file /\ file <= Len(args.files) + 1
  BY <1>1, <1>2
<1>4. \A i \in 1..Len(output) : output[i].file \in 1..file
  BY DEF Inv, TypeOK
<1> QED
  BY <1>2, <1>3, <1>4

LEMMA LastOrBefore ==
  ASSUME NEW n \in Nat, NEW i \in 1..(n + 1)
  PROVE  i \in 1..n \/ i = n + 1
OBVIOUS

(* Printing nothing, or something that is not a diagnostic.                *)
OutputFine(n, o) ==
  \A i \in 1..Len(o) :
    /\ o[i].file \in 1..n
    /\ o[i].what \in {"system error", "diagnostics", "tree", "module"}

LEMMA PrintOther ==
  ASSUME Inv, file <= Len(args.files), NEW what \in {"system error", "tree", "module"},
         NEW about, Prints(what, about) \/ UNCHANGED output
  PROVE  /\ OutputIsSeq' /\ OutputFine(file, output') /\ Once'
         /\ \A i \in 1..Len(output') :
              output'[i].what = "diagnostics" => output'[i].file < file
<1>1. CASE UNCHANGED output
  BY <1>1 DEF Inv, TypeOK, OutputFine, OutputIsSeq, Once, NotYetPrinted
<1>2. CASE Prints(what, about)
  <2> DEFINE x == [file |-> file, what |-> what, about |-> about]
  <2>1. /\ OutputIsSeq'
        /\ Len(output) \in Nat /\ Len(output') = Len(output) + 1
        /\ output'[Len(output) + 1] = x
        /\ \A k \in 1..Len(output) : output'[k] = output[k]
    BY <1>2, PrintsFacts DEF Inv
  <2>2. /\ x.what \in {"system error", "tree", "module"} /\ x.what # "diagnostics"
        /\ x.file = file /\ file \in 1..file
    BY Numbers
  <2> HIDE DEF x
  <2>3. ASSUME NEW i \in 1..Len(output')
        PROVE  \/ i \in 1..Len(output) /\ output'[i] = output[i]
               \/ i = Len(output) + 1 /\ output'[i] = x
    <3>1. Len(output) \in Nat /\ i \in 1..(Len(output) + 1)
      BY <2>1
    <3>2. i \in 1..Len(output) \/ i = Len(output) + 1
      BY <3>1, LastOrBefore
    <3> QED
      BY <2>1, <3>2
  <2>4. OutputFine(file, output')
    BY <2>2, <2>3 DEF Inv, TypeOK, OutputFine
  <2>5. ASSUME NEW i \in 1..Len(output'), output'[i].what = "diagnostics"
        PROVE  i \in 1..Len(output) /\ output'[i] = output[i]
    BY <2>2, <2>3, <2>5
  <2>6. Once'
    BY <2>5 DEF Inv, Once
  <2>7. \A i \in 1..Len(output') : output'[i].what = "diagnostics" => output'[i].file < file
    BY <2>5 DEF Inv, NotYetPrinted
  <2> QED
    BY <2>1, <2>4, <2>6, <2>7
<1> QED
  BY <1>1, <1>2

(* Printing the diagnostics, the last thing about the file.                *)
LEMMA PrintDiagnostics ==
  ASSUME Inv, file <= Len(args.files), NEW list, PrintAll(list)
  PROVE  /\ OutputIsSeq' /\ OutputFine(file, output') /\ Once'
         /\ list = <<>> => UNCHANGED output
         /\ list # <<>> =>
              \E i \in 1..Len(output') :
                output'[i] = [file |-> file, what |-> "diagnostics", about |-> list]
<1>1. CASE list = <<>>
  BY <1>1, PrintOther DEF PrintAll
<1>2. CASE list # <<>>
  <2> DEFINE x == [file |-> file, what |-> "diagnostics", about |-> list]
  <2>1. Prints("diagnostics", list)
    BY <1>2 DEF PrintAll
  <2>2. /\ OutputIsSeq'
        /\ Len(output) \in Nat /\ Len(output') = Len(output) + 1
        /\ output'[Len(output) + 1] = x
        /\ \A k \in 1..Len(output) : output'[k] = output[k]
    BY <2>1, PrintsFacts DEF Inv
  <2>3. x.what = "diagnostics" /\ x.file = file /\ file \in 1..file
    BY Numbers
  <2> HIDE DEF x
  <2>4. ASSUME NEW i \in 1..Len(output')
        PROVE  \/ i \in 1..Len(output) /\ output'[i] = output[i]
               \/ i = Len(output) + 1 /\ output'[i] = x
    <3>1. Len(output) \in Nat /\ i \in 1..(Len(output) + 1)
      BY <2>2
    <3>2. i \in 1..Len(output) \/ i = Len(output) + 1
      BY <3>1, LastOrBefore
    <3> QED
      BY <2>2, <3>2
  <2>5. OutputFine(file, output')
    BY <2>3, <2>4 DEF Inv, TypeOK, OutputFine
  <2>6. ASSUME NEW i \in 1..Len(output), output[i].what = "diagnostics"
        PROVE  output[i].file # file
    <3>1. output[i].file < file
      BY <2>6 DEF Inv, NotYetPrinted
    <3>2. output[i].file \in Nat /\ file \in Nat
      BY Numbers
    <3> QED
      BY <3>1, <3>2
  <2>7. ASSUME NEW i \in 1..Len(output'), NEW j \in 1..Len(output'),
               output'[i].what = "diagnostics", output'[j].what = "diagnostics",
               output'[i].file = output'[j].file
        PROVE  i = j
    BY <2>3, <2>4, <2>6, <2>7 DEF Inv, Once
  <2>8. Once'
    BY <2>7 DEF Once
  <2>9. Len(output) + 1 \in 1..Len(output')
    BY <2>2
  <2> QED
    BY <1>2, <2>2, <2>5, <2>8, <2>9 DEF x
<1> QED
  BY <1>1, <1>2

----------------------------------------------------------------------------
(* The two ways a step leaves the loop's body or stays in it.              *)

LEMMA Leaves ==
  ASSUME Inv, file <= Len(args.files), NextFile, UNCHANGED args,
         OutputIsSeq', OutputFine(file, output'), Once', undefined' \in BOOLEAN,
         Contents[args.files[file]].readable /\ diags' # <<>> =>
           \E i \in 1..Len(output') :
             output'[i] = [file |-> file, what |-> "diagnostics", about |-> diags']
  PROVE  Inv'
<1>1. phase' = "next file" /\ file' = file + 1 /\ args' = args
  BY DEF NextFile
<1>2. /\ Len(args.files) \in Nat /\ file \in Nat /\ 1 <= file
      /\ file + 1 \in 1..(Len(args.files) + 1) /\ (file + 1) - 1 = file
      /\ 1..file \subseteq 1..(file + 1)
  BY Numbers
<1>3. \A i \in 1..Len(output') : output'[i].file \in 1..file /\ output'[i].file < file + 1
  <2>1. \A f \in 1..file : f < file + 1
    BY <1>2
  <2> QED
    BY <2>1 DEF OutputFine
<1>4. TypeOK'
  <2>1. args.files \in Seq(FileNames)
    BY DEF Inv, TypeOK
  <2>2. \A i \in 1..Len(output') :
          /\ output'[i].file \in 1..(file + 1)
          /\ output'[i].what \in {"system error", "diagnostics", "tree", "module"}
    BY <1>2, <1>3 DEF OutputFine
  <2> QED
    BY <1>1, <1>2, <2>1, <2>2 DEF TypeOK, Phases
<1>5. NotYetPrinted'
  BY <1>1, <1>3 DEF NotYetPrinted
<1>6. InFile' /\ WithoutErrors'
  BY <1>1 DEF InFile, WithoutErrors
<1>7. NothingLostSoFar'
  BY <1>1, <1>2 DEF NothingLostSoFar
<1> QED
  BY <1>4, <1>5, <1>6, <1>7 DEF Inv

LEMMA Stays ==
  ASSUME Inv, file <= Len(args.files), UNCHANGED <<args, file>>,
         phase' \in Phases \ {"next file"},
         OutputIsSeq', OutputFine(file, output'), Once', undefined' \in BOOLEAN,
         \A i \in 1..Len(output') : output'[i].what = "diagnostics" => output'[i].file < file,
         phase' # "parse" => File.tree \in Programs,
         phase' \notin {"parse", "print", "crashed"} => program' = File.tree,
         WithoutErrors'
  PROVE  Inv'
<1>1. TypeOK'
  <2>1. args.files \in Seq(FileNames) /\ file \in 1..(Len(args.files) + 1)
    BY DEF Inv, TypeOK
  <2>2. File' = File
    BY DEF File
  <2> QED
    BY <2>1, <2>2 DEF TypeOK, OutputFine
<1>2. NotYetPrinted' /\ InFile' /\ NothingLostSoFar'
  BY DEF NotYetPrinted, InFile, NothingLostSoFar
<1> QED
  BY <1>1, <1>2 DEF Inv

LEMMA FileFacts ==
  ASSUME Inv, file <= Len(args.files)
  PROVE  /\ File = Contents[args.files[file]]
         /\ File.tree \in Programs \cup {NoTree}
         /\ undefined \in BOOLEAN
         /\ phase \notin {"next file", "parse"} => File.tree \in Programs
         /\ phase \notin {"next file", "parse", "print", "crashed"} => program = File.tree
<1>1. args.files \in Seq(FileNames) /\ file \in 1..Len(args.files)
  <2>1. Len(args.files) \in Nat /\ file \in Nat /\ 1 <= file
    BY Numbers
  <2>2. file \in 1..Len(args.files)
    BY <2>1
  <2> QED
    BY <2>2 DEF Inv, TypeOK
<1>2. args.files[file] \in FileNames
  BY <1>1, ElementOfSeq
<1>3. File.tree \in Programs \cup {NoTree}
  BY <1>2, CompilerAssumption DEF File
<1> QED
  BY <1>3 DEF File, Inv, TypeOK

LEMMA OutputKept ==
  ASSUME Inv, UNCHANGED output
  PROVE  /\ OutputIsSeq' /\ OutputFine(file, output') /\ Once'
         /\ \A i \in 1..Len(output') :
              output'[i].what = "diagnostics" => output'[i].file < file
BY DEF Inv, TypeOK, OutputFine, OutputIsSeq, Once, NotYetPrinted

----------------------------------------------------------------------------
(* The steps.                                                              *)

LEMMA ReadingKeeps ==
  ASSUME Inv, Unreadable \/ Lex
  PROVE  Inv'
<1>1. file <= Len(args.files) /\ phase = "next file" /\ UNCHANGED <<args, undefined>>
  BY DEF Unreadable, Lex, AtFile
<1>2. undefined' \in BOOLEAN /\ File = Contents[args.files[file]]
  BY <1>1, FileFacts
<1>3. CASE Unreadable
  <2>1. Prints("system error", <<>>) /\ NextFile /\ ~File.readable
    BY <1>3 DEF Unreadable
  <2> QED
    BY <1>1, <1>2, <2>1, PrintOther, Leaves
<1>4. CASE Lex /\ diags' # <<>>
  <2>1. PrintAll(diags') /\ NextFile
    BY <1>4 DEF Lex
  <2> QED
    BY <1>1, <1>2, <1>4, <2>1, PrintDiagnostics, Leaves
<1>5. CASE Lex /\ diags' = <<>>
  <2>1. UNCHANGED output /\ phase' = "parse" /\ file' = file
    BY <1>5 DEF Lex, GoOn, PrintAll
  <2>2. WithoutErrors'
    BY <1>5 DEF WithoutErrors
  <2> QED
    BY <1>1, <1>2, <2>1, <2>2, OutputKept, Stays DEF Phases
<1> QED
  BY <1>3, <1>4, <1>5

LEMMA ParsingKeeps ==
  ASSUME Inv, Parse
  PROVE  Inv'
<1>1. file <= Len(args.files) /\ phase = "parse" /\ UNCHANGED <<args, undefined>>
  BY DEF Parse, AtFile
<1>2. undefined' \in BOOLEAN /\ File = Contents[args.files[file]]
      /\ File.tree \in Programs \cup {NoTree}
  BY <1>1, FileFacts
<1>3. CASE File.tree = NoTree \/ diags' # <<>>
  <2>1. PrintAll(diags') /\ NextFile
    BY <1>3 DEF Parse
  <2> QED
    BY <1>1, <1>2, <2>1, PrintDiagnostics, Leaves
<1>4. CASE File.tree # NoTree /\ diags' = <<>>
  <2>1. UNCHANGED output /\ phase' = "print" /\ file' = file
    BY <1>4 DEF Parse, GoOn, PrintAll
  <2>2. WithoutErrors' /\ File.tree \in Programs
    BY <1>2, <1>4 DEF WithoutErrors
  <2> QED
    BY <1>1, <1>2, <2>1, <2>2, OutputKept, Stays DEF Phases
<1> QED
  BY <1>3, <1>4

LEMMA PrintingKeeps ==
  ASSUME Inv, SkipPrint \/ PrettyPrint \/ PrintCrash
  PROVE  Inv'
<1>1. /\ file <= Len(args.files) /\ phase = "print" /\ UNCHANGED <<args, file>>
      /\ Prints("tree", <<>>) \/ UNCHANGED output
  BY DEF SkipPrint, PrettyPrint, PrintCrash, AtFile, StartAnalysis, driver
<1>2. undefined \in BOOLEAN /\ File.tree \in Programs
  BY <1>1, FileFacts
<1>3. undefined' \in BOOLEAN
  <2>1. CASE PrettyPrint
    BY <2>1, ZenonT(20) DEF PrettyPrint
  <2>2. CASE SkipPrint \/ PrintCrash
    BY <1>2, <2>2 DEF SkipPrint, PrintCrash
  <2> QED
    BY <2>1, <2>2
<1>4. /\ OutputIsSeq' /\ OutputFine(file, output') /\ Once'
      /\ \A i \in 1..Len(output') :
           output'[i].what = "diagnostics" => output'[i].file < file
  BY <1>1, PrintOther
<1>5. \/ phase' = "build" /\ program' = File.tree
      \/ phase' = "crashed"
  BY DEF SkipPrint, PrettyPrint, PrintCrash, StartAnalysis
<1>6. WithoutErrors'
  BY <1>5 DEF WithoutErrors
<1> QED
  BY <1>1, <1>2, <1>3, <1>4, <1>5, <1>6, Stays DEF Phases

LEMMA AnalysisKeeps ==
  ASSUME Inv, Analyse \/ Accept
  PROVE  Inv'
<1>1. file <= Len(args.files) /\ UNCHANGED <<args, file, output>>
      /\ phase \in {"build", "check", "accepted"}
  BY DEF Analyse, Accept, StartGeneration, driver, Inv, InFile
<1>2. undefined \in BOOLEAN /\ File.tree \in Programs /\ program = File.tree
  BY <1>1, FileFacts
<1>3. /\ phase' \in {"build", "check", "accepted", "rejected", "crashed", "generate"}
      /\ program' = program /\ undefined' \in BOOLEAN
      /\ phase' \in {"accepted", "generate"} => diags' = <<>>
  <2>1. CASE Analyse
    BY <1>2, <2>1, AnalysisFrame DEF Analyse
  <2>2. CASE Accept
    BY <1>2, <2>2 DEF Accept, StartGeneration, Inv, WithoutErrors
  <2> QED
    BY <2>1, <2>2
<1>4. WithoutErrors'
  BY <1>3 DEF WithoutErrors
<1> QED
  BY <1>1, <1>2, <1>3, <1>4, OutputKept, Stays DEF Phases

LEMMA GenerationKeeps ==
  ASSUME Inv, Generate
  PROVE  Inv'
<1>1. file <= Len(args.files) /\ UNCHANGED <<args, file, output, diags>> /\ phase = "generate"
  BY DEF Generate, driver, Inv, InFile
<1>2. undefined \in BOOLEAN /\ File.tree \in Programs /\ program = File.tree
  BY <1>1, FileFacts
<1>3. /\ phase' \in {"generate", "generated", "crashed"}
      /\ program' = program /\ undefined' \in BOOLEAN
  BY <1>1, <1>2, GenerationFrame DEF Generate
<1>4. WithoutErrors'
  BY <1>1 DEF Inv, WithoutErrors
<1> QED
  BY <1>1, <1>2, <1>3, <1>4, OutputKept, Stays DEF Phases

LEMMA EndKeeps ==
  ASSUME Inv, Reject \/ EndOfFile
  PROVE  Inv'
<1>1. file <= Len(args.files) /\ NextFile /\ UNCHANGED <<args, undefined, diags>>
  BY DEF Reject, EndOfFile, Inv, InFile
<1>2. undefined' \in BOOLEAN
  BY <1>1, FileFacts
<1>3. CASE Reject
  BY <1>1, <1>2, <1>3, PrintDiagnostics, Leaves DEF Reject
<1>4. CASE EndOfFile
  <2>1. Prints("module", <<>>) \/ UNCHANGED output
    BY <1>4 DEF EndOfFile
  <2>2. diags' = <<>>
    BY <1>1, <1>4 DEF EndOfFile, Inv, WithoutErrors
  <2> QED
    BY <1>1, <1>2, <2>1, <2>2, PrintOther, Leaves
<1> QED
  BY <1>3, <1>4

LEMMA InitHolds ==
  ASSUME Init
  PROVE  Inv
<1>1. args.files \in Seq(FileNames) /\ file = 1 /\ output = <<>> /\ phase = "next file"
      /\ undefined = FALSE
  BY CompilerAssumption DEF Init
<1>2. 1 \in 1..(Len(args.files) + 1)
  <2>1. Len(args.files) \in Nat
    BY <1>1, LenProperties
  <2> QED
    BY <2>1
<1>3. output \in Seq({}) /\ 1..Len(output) = {}
  <2>1. output \in Seq({}) /\ Len(output) = 0
    BY <1>1, EmptySeq
  <2>2. 1..0 = {}
    OBVIOUS
  <2> QED
    BY <2>1, <2>2
<1>4. TypeOK
  BY <1>1, <1>2, <1>3 DEF TypeOK, Phases
<1>5. OutputIsSeq /\ NotYetPrinted /\ Once
  BY <1>3 DEF OutputIsSeq, NotYetPrinted, Once
<1>6. InFile /\ WithoutErrors /\ NothingLostSoFar
  <2>1. ~(1 > 1)
    OBVIOUS
  <2> QED
    BY <1>1, <2>1 DEF InFile, WithoutErrors, NothingLostSoFar
<1> QED
  BY <1>4, <1>5, <1>6 DEF Inv

LEMMA StutterKeeps ==
  ASSUME Inv, UNCHANGED vars
  PROVE  Inv'
BY DEF vars, driver, visitors, Inv, TypeOK, File, OutputIsSeq, InFile, WithoutErrors,
       NotYetPrinted, Once, NothingLostSoFar

LEMMA CompilerInv == Spec => []Inv
<1>1. Init => Inv
  BY InitHolds
<1>2. Inv /\ [Next]_vars => Inv'
  BY ReadingKeeps, ParsingKeeps, PrintingKeeps, AnalysisKeeps, GenerationKeeps,
     EndKeeps, StutterKeeps DEF Next, Terminating
<1> QED
  BY <1>1, <1>2, PTL DEF Spec

(* The driver's variables have their types, and what is behind the parser  *)
(* has a tree: no visitor is given nullptr (src/chocopc.cpp:61).           *)
THEOREM CompilerTypeOK == Spec => []TypeOK
<1>1. Inv => TypeOK
  BY DEF Inv
<1> QED
  BY <1>1, CompilerInv, PTL

(* Every diagnostic is printed, and none twice, although printAll() is     *)
(* called three times on one list (src/chocopc.cpp:50, 60, 80).            *)
THEOREM CompilerPrintedOnce == Spec => []PrintedOnce
<1>1. Inv => PrintedOnce
  BY DEF Inv, Once, NothingLostSoFar, PrintedOnce
<1> QED
  BY <1>1, CompilerInv, PTL

----------------------------------------------------------------------------
(* The semantic analysis, as proved about.  Its module and the syntax of   *)
(* the trees are included once more; the definitions are the same.  What   *)
(* the driver did to an earlier file may have been undefined: to analyse   *)
(* this one is so only if it is untypable.                                 *)
Here == undefined /\ Untypable(program)

Verdict == INSTANCE SemanticProofs WITH undefined <- Here

LEMMA SameSyntax ==
  /\ Verdict!Types = Types /\ Verdict!Literals = Literals
  /\ Verdict!Identifiers = Identifiers /\ Verdict!Definitions = Definitions
  /\ Verdict!Binaries(Expressions) = Binaries(Expressions)
  /\ Verdict!Unaries(Expressions) = Unaries(Expressions)
  /\ Verdict!Groupings(Expressions) = Groupings(Expressions)
  /\ Verdict!Assignments(Expressions) = Assignments(Expressions)
  /\ Verdict!Size = Size
  /\ \A e : Verdict!Inner(e) = Inner(e)
<1>1. Verdict!Types = Types /\ Verdict!Literals = Literals /\ Verdict!Identifiers = Identifiers
  BY DEF Verdict!Types, Types, Verdict!Literals, Literals, Verdict!Identifiers, Identifiers,
         Verdict!LiteralTypes, LiteralTypes, Verdict!Names, Names
<1>2. /\ Verdict!Binaries(Expressions) = Binaries(Expressions)
      /\ Verdict!Unaries(Expressions) = Unaries(Expressions)
      /\ Verdict!Groupings(Expressions) = Groupings(Expressions)
      /\ Verdict!Definitions = Definitions
      /\ Verdict!Assignments(Expressions) = Assignments(Expressions)
  BY <1>1 DEF Verdict!Binaries, Binaries, Verdict!Unaries, Unaries, Verdict!Groupings,
     Groupings, Verdict!Definitions, Definitions, Verdict!Assignments, Assignments,
     Verdict!Null, Null, Verdict!Names, Names, Verdict!Operators, Operators,
     Verdict!Logical, Logical, Verdict!Comparing, Comparing, Verdict!Arithmetic, Arithmetic,
     Verdict!UnaryOperators, UnaryOperators
<1>3. Verdict!Size = Size
  BY DEF Verdict!Size, Size, Verdict!Null, Null
<1>4. \A e : Verdict!Inner(e) = Inner(e)
  BY DEF Verdict!Inner, Inner, Verdict!Operands, Operands, Verdict!Null, Null
<1> QED
  BY <1>1, <1>2, <1>3, <1>4

LEMMA SameRules ==
  ASSUME NEW p
  PROVE  /\ Verdict!WellTyped(p) <=> WellTyped(p)
         /\ Verdict!Untypable(p) <=> Untypable(p)
         /\ Verdict!Declared(p) = Declared(p)
         /\ \A name : Verdict!TypeDeclared(p, name) = TypeDeclared(p, name)
<1>1. /\ Verdict!Types = Types /\ Verdict!Null = Null /\ Verdict!Logical = Logical
      /\ Verdict!Unknown = Unknown
  BY SameSyntax DEF Verdict!Null, Null, Verdict!Logical, Logical, Verdict!Unknown, Unknown
<1>2. /\ Verdict!DefinitionsOf(p) = DefinitionsOf(p) /\ Verdict!AssignmentsOf(p) = AssignmentsOf(p)
  BY DEF Verdict!DefinitionsOf, DefinitionsOf, Verdict!AssignmentsOf, AssignmentsOf,
         Verdict!OfKind, OfKind
<1>3. Verdict!Declarations(p) = Declarations(p)
  BY <1>1, <1>2 DEF Verdict!Declarations, Declarations, Verdict!Declares, Declares
<1>4. /\ Verdict!Declared(p) = Declared(p)
      /\ \A name : Verdict!TypeDeclared(p, name) = TypeDeclared(p, name)
  BY <1>3 DEF Verdict!Declared, Declared, Verdict!TypeDeclared, TypeDeclared
<1>5. Verdict!Within = Within
  BY DEF Verdict!Within, Within, Verdict!Operands, Operands, Verdict!Null, Null
<1>6. Verdict!StaticType(p) = StaticType(p)
  BY DEF Verdict!StaticType, StaticType, Verdict!TypeDeclared, TypeDeclared,
     Verdict!Declarations, Declarations, Verdict!Declares, Declares, Verdict!Types, Types,
     Verdict!DefinitionsOf, DefinitionsOf, Verdict!OfKind, OfKind, Verdict!Unknown, Unknown,
     Verdict!Null, Null, Verdict!Logical, Logical
<1>7. \A e : Verdict!NamesIn(e) = NamesIn(e)
  BY <1>5 DEF Verdict!NamesIn, NamesIn
<1>8. \A e : Verdict!LogicalFine(p, e) <=> LogicalFine(p, e)
  BY <1>1, <1>5, <1>6 DEF Verdict!LogicalFine, LogicalFine
<1>9. \A u, t : Verdict!MayHold(u, t) <=> MayHold(u, t)
  BY DEF Verdict!MayHold, MayHold
<1>10. \A c : Verdict!DefinitionFine(p, c) <=> DefinitionFine(p, c)
  BY <1>2, <1>3, <1>9 DEF Verdict!DefinitionFine, DefinitionFine
<1>11. \A a : Verdict!AssignmentFine(p, a) <=> AssignmentFine(p, a)
  BY <1>1, <1>4, <1>6, <1>7, <1>8, <1>9 DEF Verdict!AssignmentFine, AssignmentFine
<1>12. Verdict!WellTyped(p) <=> WellTyped(p)
  BY <1>2, <1>10, <1>11 DEF Verdict!WellTyped, WellTyped
<1>13. Verdict!Untypable(p) <=> Untypable(p)
  BY <1>1, <1>2, <1>4, <1>5, <1>7 DEF Verdict!Untypable, Untypable
<1> QED
  BY <1>4, <1>12, <1>13

LEMMA HereStays ==
  ASSUME UNCHANGED <<undefined, program>>
  PROVE  Here' = Here
BY DEF Here

LEMMA HereGrows ==
  ASSUME NEW x \in BOOLEAN, undefined' = (undefined \/ x), program' = program,
         x => Untypable(program)
  PROVE  Here' = (Here \/ x)
<1>1. Here' <=> undefined' /\ Untypable(program)
  BY DEF Here
<1>2. Here' <=> Here \/ x
  BY <1>1 DEF Here
<1> QED
  BY <1>2 DEF Here

LEMMA NamesAreVariables ==
  ASSUME Verdict!CascadeInv, Verdict!VerdictInv, ~Untypable(program)
  PROVE  /\ Verdict!Visits("check", "VariableDefinition") =>
              Verdict!IsVariable(Verdict!Child.name)
         /\ Verdict!Enters("Identifier") /\ Verdict!Has(Verdict!Top.node.name) =>
              Verdict!IsVariable(Verdict!Top.node.name)
         /\ Verdict!AtTarget /\ Verdict!Has(Verdict!Child.targets[target]) =>
              Verdict!IsVariable(Verdict!Child.targets[target])
BY Verdict!NamesAreVariables, SameRules, SameSyntax, ASTAssumption, ExpressionsAreTrees

LEMMA AnalysisStep ==
  ASSUME Analysis!Next, Verdict!CascadeInv, Verdict!VerdictInv, Analysis!Crash => Untypable(program)
  PROVE  Verdict!Next
<1>1. Analysis!Redefinition => Verdict!Redefinition
  BY HereStays DEF Analysis!Redefinition, Verdict!Redefinition, Analysis!Visits,
     Verdict!Visits, Analysis!Redefines, Verdict!Redefines, Analysis!Has,
     Verdict!Has, Analysis!Report, Verdict!Report, Analysis!Child,
     Verdict!Child
<1>2. Analysis!UndefinedType => Verdict!UndefinedType
  BY HereStays DEF Analysis!UndefinedType, Verdict!UndefinedType, Analysis!Visits,
     Verdict!Visits, Analysis!Redefines, Verdict!Redefines, Analysis!Has,
     Verdict!Has, Analysis!IsType, Verdict!IsType, Analysis!Report,
     Verdict!Report, Analysis!Child, Verdict!Child
<1>3. Analysis!Declare => Verdict!Declare
  BY HereStays DEF Analysis!Declare, Verdict!Declare, Analysis!Visits, Verdict!Visits,
     Analysis!Redefines, Verdict!Redefines, Analysis!Has, Verdict!Has,
     Analysis!IsType, Verdict!IsType, Analysis!AddEntry, Verdict!AddEntry,
     Analysis!Child, Verdict!Child
<1>4. Analysis!Traverse => Verdict!Traverse
  BY HereStays DEF Analysis!Traverse, Verdict!Traverse, Analysis!Visits, Verdict!Visits,
     Analysis!Child, Verdict!Child, Analysis!Hollow, Verdict!Hollow,
     Analysis!Null, Verdict!Null
<1>5. Analysis!TraverseNull => Verdict!TraverseNull
  BY HereStays DEF Analysis!TraverseNull, Verdict!TraverseNull, Analysis!Visits,
     Verdict!Visits, Analysis!Child, Verdict!Child, Analysis!Hollow,
     Verdict!Hollow, Analysis!Null, Verdict!Null
<1>6. Analysis!EndOfBuild => Verdict!EndOfBuild
  BY HereStays DEF Analysis!EndOfBuild, Verdict!EndOfBuild
<1>7. ASSUME Analysis!CheckDefinition PROVE Verdict!CheckDefinition
  <2>1. /\ undefined' = (undefined \/ ~Verdict!IsVariable(Verdict!Child.name)) /\ program' = program
        /\ Verdict!IsVariable(Verdict!Child.name) \/ Untypable(program)
    BY <1>7, NamesAreVariables
    DEF Analysis!CheckDefinition, Analysis!Visits,
     Verdict!Visits, Analysis!Child, Verdict!Child, Analysis!TypesOf,
     Verdict!TypesOf, Analysis!IsVariable, Verdict!IsVariable, Analysis!Has,
     Verdict!Has, Analysis!Compatible, Verdict!Compatible,
     Analysis!ConformsTo, Verdict!ConformsTo, Analysis!IsSubclass,
     Verdict!IsSubclass, Analysis!Report, Verdict!Report, Analysis!Types,
     Verdict!Types
  <2>2. Here' = (Here \/ ~Verdict!IsVariable(Verdict!Child.name))
    BY <2>1, HereGrows
  <2> QED
    BY <1>7, <2>2
    DEF Analysis!CheckDefinition, Verdict!CheckDefinition, Analysis!Visits,
     Verdict!Visits, Analysis!Child, Verdict!Child, Analysis!TypesOf,
     Verdict!TypesOf, Analysis!IsVariable, Verdict!IsVariable, Analysis!Has,
     Verdict!Has, Analysis!Compatible, Verdict!Compatible,
     Analysis!ConformsTo, Verdict!ConformsTo, Analysis!IsSubclass,
     Verdict!IsSubclass, Analysis!Report, Verdict!Report, Analysis!Types,
     Verdict!Types
<1>8. Analysis!VisitLiteral => Verdict!VisitLiteral
  BY HereStays DEF Analysis!VisitLiteral, Verdict!VisitLiteral, Analysis!Enters,
     Verdict!Enters, Analysis!Working, Verdict!Working, Analysis!Top,
     Verdict!Top, Analysis!Return, Verdict!Return
<1>9. ASSUME Analysis!VisitName PROVE Verdict!VisitName
  <2>1. /\ undefined' = (undefined \/ ~Verdict!IsVariable(Verdict!Top.node.name)) /\ program' = program
        /\ Verdict!IsVariable(Verdict!Top.node.name) \/ Untypable(program)
    BY <1>9, NamesAreVariables
    DEF Analysis!VisitName, Analysis!Enters, Verdict!Enters,
     Analysis!Working, Verdict!Working, Analysis!Top, Verdict!Top,
     Analysis!Return, Verdict!Return, Analysis!Has, Verdict!Has,
     Analysis!TypesOf, Verdict!TypesOf, Analysis!IsVariable,
     Verdict!IsVariable, Analysis!Types, Verdict!Types
  <2>2. Here' = (Here \/ ~Verdict!IsVariable(Verdict!Top.node.name))
    BY <2>1, HereGrows
  <2> QED
    BY <1>9, <2>2
    DEF Analysis!VisitName, Verdict!VisitName, Analysis!Enters, Verdict!Enters,
     Analysis!Working, Verdict!Working, Analysis!Top, Verdict!Top,
     Analysis!Return, Verdict!Return, Analysis!Has, Verdict!Has,
     Analysis!TypesOf, Verdict!TypesOf, Analysis!IsVariable,
     Verdict!IsVariable, Analysis!Types, Verdict!Types
<1>10. Analysis!VisitUndefinedName => Verdict!VisitUndefinedName
  BY HereStays DEF Analysis!VisitUndefinedName, Verdict!VisitUndefinedName, Analysis!Enters,
     Verdict!Enters, Analysis!Working, Verdict!Working, Analysis!Top,
     Verdict!Top, Analysis!Return, Verdict!Return, Analysis!Has,
     Verdict!Has, Analysis!Report, Verdict!Report, Analysis!Nothing,
     Verdict!Nothing
<1>11. Analysis!VisitGrouping => Verdict!VisitGrouping
  BY HereStays DEF Analysis!VisitGrouping, Verdict!VisitGrouping, Analysis!Enters,
     Verdict!Enters, Analysis!Working, Verdict!Working, Analysis!Top,
     Verdict!Top, Analysis!Visit, Verdict!Visit, Analysis!Frame,
     Verdict!Frame, Analysis!Nothing, Verdict!Nothing
<1>12. Analysis!VisitUnary => Verdict!VisitUnary
  BY HereStays DEF Analysis!VisitUnary, Verdict!VisitUnary, Analysis!Enters, Verdict!Enters,
     Analysis!Working, Verdict!Working, Analysis!Top, Verdict!Top,
     Analysis!Call, Verdict!Call, Analysis!Visit, Verdict!Visit,
     Analysis!Frame, Verdict!Frame, Analysis!Nothing, Verdict!Nothing
<1>13. Analysis!EndUnary => Verdict!EndUnary
  BY HereStays DEF Analysis!EndUnary, Verdict!EndUnary, Analysis!Resumes, Verdict!Resumes,
     Analysis!Working, Verdict!Working, Analysis!Top, Verdict!Top,
     Analysis!Return, Verdict!Return, Analysis!EmptyAny, Verdict!EmptyAny
<1>14. Analysis!VisitBinary => Verdict!VisitBinary
  BY HereStays DEF Analysis!VisitBinary, Verdict!VisitBinary, Analysis!Enters, Verdict!Enters,
     Analysis!Working, Verdict!Working, Analysis!Top, Verdict!Top,
     Analysis!Call, Verdict!Call, Analysis!Visit, Verdict!Visit,
     Analysis!Frame, Verdict!Frame, Analysis!Nothing, Verdict!Nothing
<1>15. Analysis!VisitRHS => Verdict!VisitRHS
  BY HereStays DEF Analysis!VisitRHS, Verdict!VisitRHS, Analysis!Resumes, Verdict!Resumes,
     Analysis!Working, Verdict!Working, Analysis!Top, Verdict!Top,
     Analysis!Call, Verdict!Call, Analysis!Visit, Verdict!Visit,
     Analysis!Frame, Verdict!Frame, Analysis!Nothing, Verdict!Nothing,
     Analysis!EmptyAny, Verdict!EmptyAny
<1>16. Analysis!EndBinary => Verdict!EndBinary
  BY HereStays DEF Analysis!EndBinary, Verdict!EndBinary, Analysis!Resumes, Verdict!Resumes,
     Analysis!Working, Verdict!Working, Analysis!Top, Verdict!Top,
     Analysis!Return, Verdict!Return, Analysis!Unsupported,
     Verdict!Unsupported, Analysis!BinaryType, Verdict!BinaryType,
     Analysis!Nothing, Verdict!Nothing, Analysis!Logical, Verdict!Logical,
     Analysis!Report, Verdict!Report, Analysis!EmptyAny, Verdict!EmptyAny
<1>17. Analysis!CheckAssignment => Verdict!CheckAssignment
  BY HereStays DEF Analysis!CheckAssignment, Verdict!CheckAssignment, Analysis!Visits,
     Verdict!Visits, Analysis!Child, Verdict!Child, Analysis!Visit,
     Verdict!Visit, Analysis!Frame, Verdict!Frame, Analysis!Nothing,
     Verdict!Nothing
<1>18. ASSUME Analysis!CheckTarget PROVE Verdict!CheckTarget
  <2>1. /\ undefined' = (undefined \/ ~Verdict!IsVariable(Verdict!Child.targets[target])) /\ program' = program
        /\ Verdict!IsVariable(Verdict!Child.targets[target]) \/ Untypable(program)
    BY <1>18, NamesAreVariables
    DEF Analysis!CheckTarget, Analysis!AtTarget,
     Verdict!AtTarget, Analysis!Visits, Verdict!Visits, Analysis!Child,
     Verdict!Child, Analysis!EmptyAny, Verdict!EmptyAny, Analysis!Has,
     Verdict!Has, Analysis!TypesOf, Verdict!TypesOf, Analysis!IsVariable,
     Verdict!IsVariable, Analysis!Types, Verdict!Types, Analysis!Nothing,
     Verdict!Nothing, Analysis!Compatible, Verdict!Compatible,
     Analysis!ConformsTo, Verdict!ConformsTo, Analysis!IsSubclass,
     Verdict!IsSubclass, Analysis!Report, Verdict!Report
  <2>2. Here' = (Here \/ ~Verdict!IsVariable(Verdict!Child.targets[target]))
    BY <2>1, HereGrows
  <2> QED
    BY <1>18, <2>2
    DEF Analysis!CheckTarget, Verdict!CheckTarget, Analysis!AtTarget,
     Verdict!AtTarget, Analysis!Visits, Verdict!Visits, Analysis!Child,
     Verdict!Child, Analysis!EmptyAny, Verdict!EmptyAny, Analysis!Has,
     Verdict!Has, Analysis!TypesOf, Verdict!TypesOf, Analysis!IsVariable,
     Verdict!IsVariable, Analysis!Types, Verdict!Types, Analysis!Nothing,
     Verdict!Nothing, Analysis!Compatible, Verdict!Compatible,
     Analysis!ConformsTo, Verdict!ConformsTo, Analysis!IsSubclass,
     Verdict!IsSubclass, Analysis!Report, Verdict!Report
<1>19. Analysis!CheckUndefinedTarget => Verdict!CheckUndefinedTarget
  BY HereStays DEF Analysis!CheckUndefinedTarget, Verdict!CheckUndefinedTarget,
     Analysis!AtTarget, Verdict!AtTarget, Analysis!Visits, Verdict!Visits,
     Analysis!Child, Verdict!Child, Analysis!EmptyAny, Verdict!EmptyAny,
     Analysis!Has, Verdict!Has, Analysis!Report, Verdict!Report
<1>20. Analysis!EndAssignment => Verdict!EndAssignment
  BY HereStays DEF Analysis!EndAssignment, Verdict!EndAssignment, Analysis!Visits,
     Verdict!Visits, Analysis!Child, Verdict!Child, Analysis!EmptyAny,
     Verdict!EmptyAny
<1>21. Analysis!BadAnyCast => Verdict!BadAnyCast
  BY HereStays DEF Analysis!BadAnyCast, Verdict!BadAnyCast, Analysis!Casts, Verdict!Casts,
     Analysis!Resumes, Verdict!Resumes, Analysis!Working, Verdict!Working,
     Analysis!Top, Verdict!Top, Analysis!EmptyAny, Verdict!EmptyAny
<1>22. Analysis!EndOfCheck => Verdict!EndOfCheck
  BY HereStays DEF Analysis!EndOfCheck, Verdict!EndOfCheck
<1>23. Analysis!Crash => Verdict!Crash
  BY HereStays DEF Analysis!Crash, Verdict!Crash, Here
<1>24. Analysis!Terminating => Verdict!Terminating
  BY HereStays DEF Analysis!Terminating, Verdict!Terminating, Analysis!Done, Verdict!Done,
     Analysis!vars, Verdict!vars
<1> QED
  BY <1>1, <1>2, <1>3, <1>4, <1>5, <1>6, <1>7, <1>8, <1>9, <1>10, <1>11, <1>12, <1>13,
     <1>14, <1>15, <1>16, <1>17, <1>18, <1>19, <1>20, <1>21, <1>22, <1>23, <1>24
     DEF Analysis!Next, Verdict!Next

LEMMA VerdictInit ==
  Verdict!Init => Verdict!CascadeInv /\ Verdict!VerdictInv
BY Verdict!InitCascade, Verdict!CascadeFacts, Verdict!InitVerdict, SameSyntax,
   ASTAssumption, ExpressionsAreTrees

LEMMA VerdictInitNext ==
  Verdict!Init' => Verdict!CascadeInv' /\ Verdict!VerdictInv'
BY VerdictInit, PTL

LEMMA VerdictNext ==
  ASSUME Verdict!CascadeInv, Verdict!VerdictInv, Analysis!Next,
         Analysis!Crash => Untypable(program)
  PROVE  Verdict!CascadeInv' /\ Verdict!VerdictInv'
BY Verdict!NextVerdict, AnalysisStep, SameSyntax, ASTAssumption, ExpressionsAreTrees

----------------------------------------------------------------------------
(* Undefined behaviour is never taken back.                                *)

LEMMA UndefinedStays ==
  ASSUME Next, undefined
  PROVE  undefined'
<1>1. CASE Analyse
  BY <1>1 DEF Analyse, Analysis!Next, Analysis!Redefinition, Analysis!UndefinedType,
     Analysis!Declare, Analysis!Traverse, Analysis!TraverseNull, Analysis!EndOfBuild,
     Analysis!CheckDefinition, Analysis!VisitLiteral, Analysis!VisitName,
     Analysis!VisitUndefinedName, Analysis!VisitGrouping, Analysis!VisitUnary,
     Analysis!EndUnary, Analysis!VisitBinary, Analysis!VisitRHS, Analysis!EndBinary,
     Analysis!CheckAssignment, Analysis!CheckTarget, Analysis!CheckUndefinedTarget,
     Analysis!EndAssignment, Analysis!BadAnyCast, Analysis!EndOfCheck, Analysis!Crash,
     Analysis!Terminating, Analysis!vars
<1>2. CASE Generate
  BY <1>2 DEF Generate, Generation!Next, Generation!Terminating, Generation!vars,
     Generation!VariableDefinition, Generation!VisitLiteral, Generation!VisitName,
     Generation!VisitGrouping, Generation!VisitBinary, Generation!VisitRHS,
     Generation!EndBinary, Generation!VisitExpression, Generation!LoadExpression,
     Generation!StoreTarget, Generation!EndAssignment, Generation!BadAnyCast,
     Generation!EndOfProgram, Generation!Crash
<1>3. CASE PrettyPrint
  BY <1>3 DEF PrettyPrint
<1>4. CASE \/ Unreadable \/ Lex \/ Parse \/ SkipPrint \/ PrintCrash \/ Reject \/ Accept
           \/ EndOfFile \/ Terminating
  BY <1>4 DEF Unreadable, Lex, Parse, SkipPrint, PrintCrash, Reject, Accept,
     StartGeneration, EndOfFile, Terminating, vars
<1> QED
  BY <1>1, <1>2, <1>3, <1>4 DEF Next

----------------------------------------------------------------------------
(* What the visitors are given.  A file that has an answer is analysed as  *)
(* if nothing undefined had ever happened.                                 *)

AtRest ==
  /\ child = 1 /\ target = 0 /\ stack = <<>>
  /\ result = Analysis!EmptyAny /\ table = Analysis!Builtins

NoModule == strings = <<>> /\ globals = <<>> /\ code = <<>>

IsTable == table = [text \in DOMAIN table |-> table[text]]

HandedOver ==
  /\ WellTyped(program) /\ ~Untypable(program)
  /\ table = Generation!TableOf(program)

HandOverInv ==
  /\ phase \in {"next file", "parse", "print"} => AtRest
  /\ phase \notin {"generate", "generated", "crashed"} => NoModule
  /\ ~undefined \/ ~Untypable(program) =>
       /\ phase \in {"build", "check", "accepted", "rejected"} =>
            Verdict!CascadeInv /\ Verdict!VerdictInv /\ IsTable
       /\ phase \in {"generate", "generated"} => HandedOver

LEMMA StartsAtRest ==
  ASSUME AtRest, program' \in Programs, phase' = "build", diags = <<>>, diags' = diags,
         ~undefined' \/ ~Untypable(program)', UNCHANGED <<child, target, stack, result, table>>
  PROVE  Verdict!Init' /\ IsTable'
<1>1. Verdict!EmptyAny = Analysis!EmptyAny /\ Verdict!Builtins = Analysis!Builtins
  BY DEF Analysis!EmptyAny, Verdict!EmptyAny, Analysis!Builtins, Verdict!Builtins,
         Analysis!Types, Verdict!Types
<1>2. Here' = FALSE
  BY DEF Here
<1>3. Verdict!Init'
  BY <1>1, <1>2 DEF AtRest, Verdict!Init
<1>4. IsTable'
  BY DEF AtRest, IsTable, Analysis!Builtins
<1> QED
  BY <1>3, <1>4

(* What the analysis accepts is what the generator is written for.         *)
LEMMA AcceptedIsHandedOver ==
  ASSUME Verdict!CascadeInv, Verdict!VerdictInv, IsTable, phase = "accepted",
         ~undefined \/ ~Untypable(program)
  PROVE  HandedOver
<1>1. ~Here
  BY DEF Here
<1>2. Verdict!WellTyped(program) /\ ~Verdict!Untypable(program)
  BY <1>1, Verdict!AcceptedIsWellTyped, Verdict!VerdictIsTypable, SameSyntax, ASTAssumption,
     ExpressionsAreTrees
<1>3. /\ DOMAIN table = Verdict!Types \cup Verdict!Declared(program)
      /\ \A type \in Verdict!Types : table[type] = [kind |-> "Type", type |-> type]
      /\ \A name \in Verdict!Declared(program) :
           /\ name \notin Verdict!Types
           /\ table[name] =
                [kind |-> "Variable", type |-> Verdict!TypeDeclared(program, name)]
  BY Verdict!AcceptedTable, SameSyntax, ASTAssumption, ExpressionsAreTrees
<1>4. table = Generation!TableOf(program)
  <2>1. /\ Verdict!Types = Generation!Types
        /\ Verdict!Declared(program) = Generation!Declared(program)
        /\ \A name : Verdict!TypeDeclared(program, name) = Generation!TypeDeclared(program, name)
    BY DEF Verdict!Types, Generation!Types, Verdict!Declared, Generation!Declared,
       Verdict!TypeDeclared, Generation!TypeDeclared, Verdict!Declarations,
       Generation!Declarations, Verdict!Declares, Generation!Declares,
       Verdict!DefinitionsOf, Generation!DefinitionsOf, Verdict!OfKind, Generation!OfKind
  <2> QED
    BY <1>3, <2>1 DEF IsTable, Generation!TableOf
<1> QED
  BY <1>2, <1>4, SameRules DEF HandedOver

LEMMA AnalysisTable ==
  ASSUME IsTable, Analysis!Next
  PROVE  IsTable'
<1>1. table' = table \/ Analysis!Declare
  BY DEF Analysis!Next, Analysis!Redefinition, Analysis!UndefinedType, Analysis!Traverse,
     Analysis!TraverseNull, Analysis!EndOfBuild, Analysis!CheckDefinition,
     Analysis!VisitLiteral, Analysis!VisitName, Analysis!VisitUndefinedName,
     Analysis!VisitGrouping, Analysis!VisitUnary, Analysis!EndUnary, Analysis!VisitBinary,
     Analysis!VisitRHS, Analysis!EndBinary, Analysis!CheckAssignment, Analysis!CheckTarget,
     Analysis!CheckUndefinedTarget, Analysis!EndAssignment, Analysis!BadAnyCast,
     Analysis!EndOfCheck, Analysis!Crash, Analysis!Terminating, Analysis!vars
<1>2. Analysis!Declare => IsTable'
  BY DEF Analysis!Declare, Analysis!AddEntry, IsTable
<1> QED
  BY <1>1, <1>2 DEF IsTable

LEMMA HandOverNext ==
  ASSUME Inv, HandOverInv, [Next]_vars
  PROVE  HandOverInv'
<1>1. undefined => undefined'
  BY UndefinedStays DEF vars
<1>2. CASE Unreadable \/ Lex \/ Parse \/ Reject \/ EndOfFile
  <2>1. \/ NextFile
        \/ phase' \in {"parse", "print"} /\ phase \in {"next file", "parse"} /\ UNCHANGED visitors
    BY <1>2 DEF Unreadable, Lex, Parse, Reject, EndOfFile, AtFile, GoOn
  <2>2. AtRest' /\ NoModule'
    BY <2>1 DEF HandOverInv, NextFile, visitors, AtRest, NoModule, FreshTable,
                Analysis!EmptyAny, Analysis!Builtins, Analysis!Types
  <2>3. phase' \in {"next file", "parse", "print"}
    BY <2>1 DEF NextFile
  <2> QED
    BY <2>2, <2>3 DEF HandOverInv
<1>3. CASE SkipPrint \/ PrettyPrint
  <2>1. phase = "print" /\ file <= Len(args.files) /\ StartAnalysis
    BY <1>3 DEF SkipPrint, PrettyPrint, AtFile
  <2>2. File.tree \in Programs /\ diags = <<>> /\ AtRest /\ NoModule
    BY <2>1, FileFacts DEF Inv, WithoutErrors, HandOverInv
  <2>3. NoModule'
    BY <2>1, <2>2 DEF StartAnalysis, NoModule
  <2>4. ~undefined' \/ ~Untypable(program)' => Verdict!Init' /\ IsTable'
    BY <2>1, <2>2, StartsAtRest DEF StartAnalysis
  <2> QED
    BY <2>1, <2>3, <2>4, VerdictInitNext DEF HandOverInv, StartAnalysis
<1>4. CASE PrintCrash
  BY <1>4 DEF PrintCrash, HandOverInv
<1>5. CASE Analyse
  <2>1. phase' \in {"build", "check", "accepted", "rejected", "crashed"} /\ program' = program
    BY <1>5, AnalysisFrame DEF Analyse, Inv, TypeOK
  <2>2. NoModule'
    BY <1>5 DEF Analyse, HandOverInv, NoModule
  <2>3. ASSUME phase' # "crashed", ~undefined' \/ ~Untypable(program)
        PROVE  Verdict!CascadeInv' /\ Verdict!VerdictInv' /\ IsTable'
    <3>1. Verdict!CascadeInv /\ Verdict!VerdictInv /\ IsTable /\ Analysis!Next
      BY <1>1, <1>5, <2>3 DEF HandOverInv, Analyse
    <3>2. ~Analysis!Crash
      BY <2>3 DEF Analysis!Crash
    <3> QED
      BY <3>1, <3>2, VerdictNext, AnalysisTable
  <2> QED
    BY <2>1, <2>2, <2>3 DEF HandOverInv
<1>6. CASE Accept
  <2>1. phase' = "generate" /\ program' = program /\ table' = table /\ undefined' = undefined
    BY <1>6 DEF Accept, StartGeneration
  <2>2. ~undefined \/ ~Untypable(program) => HandedOver
    BY <1>6, AcceptedIsHandedOver DEF HandOverInv, Accept
  <2> QED
    BY <2>1, <2>2 DEF HandOverInv, HandedOver
<1>7. CASE Generate
  <2>1. phase' \in {"generate", "generated", "crashed"} /\ program' = program /\ table' = table
    BY <1>7, GenerationFrame DEF Generate, Inv, TypeOK
  <2>2. ~undefined' \/ ~Untypable(program) => HandedOver
    BY <1>1, <1>7 DEF HandOverInv, Generate
  <2> QED
    BY <2>1, <2>2 DEF HandOverInv, HandedOver
<1>8. CASE UNCHANGED vars
  <2>1. UNCHANGED <<phase, child, target, stack, result, table, diags, program, undefined,
                    strings, globals, code>>
    BY <1>8 DEF vars, visitors
  <2>2. UNCHANGED Verdict!vars
    BY <2>1, HereStays DEF Verdict!vars
  <2>3. Verdict!CascadeInv /\ Verdict!VerdictInv => Verdict!CascadeInv' /\ Verdict!VerdictInv'
    BY <2>2, Verdict!NextVerdict, SameSyntax, ASTAssumption, ExpressionsAreTrees
  <2> QED
    BY <2>1, <2>3 DEF HandOverInv, AtRest, NoModule, IsTable, HandedOver
<1> QED
  BY <1>2, <1>3, <1>4, <1>5, <1>6, <1>7, <1>8 DEF Next, Terminating

LEMMA HandOverInit ==
  ASSUME Init
  PROVE  HandOverInv
BY DEF Init, HandOverInv, AtRest, NoModule

LEMMA CompilerHandOverInv == Spec => [](Inv /\ HandOverInv)
<1>1. Init => HandOverInv
  BY HandOverInit
<1>2. Inv /\ HandOverInv /\ [Next]_vars => HandOverInv'
  BY HandOverNext
<1> QED
  BY <1>1, <1>2, CompilerInv, PTL DEF Spec

(* What the semantic analysis hands over is what the generator is written  *)
(* for: a program is only translated if the typing rules accept it and     *)
(* nothing in it is beyond the type checker, and the table has exactly its *)
(* variables and the builtin types, nothing of another file                *)
(* (src/chocopc.cpp:73-87).                                                *)
THEOREM CompilerHandOver == Spec => []HandOver
<1>1. HandOverInv => HandOver
  BY DEF HandOverInv, HandedOver, HandOver
<1> QED
  BY <1>1, CompilerHandOverInv, PTL

----------------------------------------------------------------------------
(* The IR generator, as proved about.  It has run into nothing undefined   *)
(* of its own, as long as the file is translatable.                        *)
Made == INSTANCE IRGenProofs WITH result <- value, undefined <- FALSE

LEMMA SameSyntaxMade ==
  /\ Made!Types = Types /\ Made!Literals = Literals
  /\ Made!Identifiers = Identifiers /\ Made!Definitions = Definitions
  /\ Made!Binaries(Expressions) = Binaries(Expressions)
  /\ Made!Unaries(Expressions) = Unaries(Expressions)
  /\ Made!Groupings(Expressions) = Groupings(Expressions)
  /\ Made!Assignments(Expressions) = Assignments(Expressions)
  /\ Made!Size = Size
  /\ \A e : Made!Inner(e) = Inner(e)
<1>1. Made!Types = Types /\ Made!Literals = Literals /\ Made!Identifiers = Identifiers
  BY DEF Made!Types, Types, Made!Literals, Literals, Made!Identifiers, Identifiers,
         Made!LiteralTypes, LiteralTypes, Made!Names, Names
<1>2. /\ Made!Binaries(Expressions) = Binaries(Expressions)
      /\ Made!Unaries(Expressions) = Unaries(Expressions)
      /\ Made!Groupings(Expressions) = Groupings(Expressions)
      /\ Made!Definitions = Definitions
      /\ Made!Assignments(Expressions) = Assignments(Expressions)
  BY <1>1 DEF Made!Binaries, Binaries, Made!Unaries, Unaries, Made!Groupings,
     Groupings, Made!Definitions, Definitions, Made!Assignments, Assignments,
     Made!Null, Null, Made!Names, Names, Made!Operators, Operators,
     Made!Logical, Logical, Made!Comparing, Comparing, Made!Arithmetic, Arithmetic,
     Made!UnaryOperators, UnaryOperators
<1>3. Made!Size = Size
  BY DEF Made!Size, Size, Made!Null, Null
<1>4. \A e : Made!Inner(e) = Inner(e)
  BY DEF Made!Inner, Inner, Made!Operands, Operands, Made!Null, Null
<1> QED
  BY <1>1, <1>2, <1>3, <1>4

LEMMA SameRulesMade ==
  ASSUME NEW p
  PROVE  /\ Made!WellTyped(p) <=> WellTyped(p)
         /\ Made!Untypable(p) <=> Untypable(p)
         /\ Made!Untranslatable(p) <=> Untranslatable(p)
         /\ Made!Declared(p) = Declared(p)
         /\ \A name : Made!TypeDeclared(p, name) = TypeDeclared(p, name)
<1>1. /\ Made!Types = Types /\ Made!Null = Null /\ Made!Logical = Logical
      /\ Made!Unknown = Unknown /\ Made!Comparing = Comparing
  BY SameSyntaxMade DEF Made!Null, Null, Made!Logical, Logical, Made!Unknown, Unknown,
     Made!Comparing, Comparing
<1>2. /\ Made!DefinitionsOf(p) = DefinitionsOf(p) /\ Made!AssignmentsOf(p) = AssignmentsOf(p)
  BY DEF Made!DefinitionsOf, DefinitionsOf, Made!AssignmentsOf, AssignmentsOf,
         Made!OfKind, OfKind
<1>3. Made!Declarations(p) = Declarations(p)
  BY <1>1, <1>2 DEF Made!Declarations, Declarations, Made!Declares, Declares
<1>4. /\ Made!Declared(p) = Declared(p)
      /\ \A name : Made!TypeDeclared(p, name) = TypeDeclared(p, name)
  BY <1>3 DEF Made!Declared, Declared, Made!TypeDeclared, TypeDeclared
<1>5. Made!Within = Within
  BY DEF Made!Within, Within, Made!Operands, Operands, Made!Null, Null
<1>6. Made!StaticType(p) = StaticType(p)
  BY DEF Made!StaticType, StaticType, Made!TypeDeclared, TypeDeclared,
     Made!Declarations, Declarations, Made!Declares, Declares, Made!Types, Types,
     Made!DefinitionsOf, DefinitionsOf, Made!OfKind, OfKind, Made!Unknown, Unknown,
     Made!Null, Null, Made!Logical, Logical
<1>7. \A e : Made!NamesIn(e) = NamesIn(e)
  BY <1>5 DEF Made!NamesIn, NamesIn
<1>8. \A e : Made!LogicalFine(p, e) <=> LogicalFine(p, e)
  BY <1>1, <1>5, <1>6 DEF Made!LogicalFine, LogicalFine
<1>9. \A u, t : Made!MayHold(u, t) <=> MayHold(u, t)
  BY DEF Made!MayHold, MayHold
<1>10. \A c : Made!DefinitionFine(p, c) <=> DefinitionFine(p, c)
  BY <1>2, <1>3, <1>9 DEF Made!DefinitionFine, DefinitionFine
<1>11. \A a : Made!AssignmentFine(p, a) <=> AssignmentFine(p, a)
  BY <1>1, <1>4, <1>6, <1>7, <1>8, <1>9 DEF Made!AssignmentFine, AssignmentFine
<1>12. Made!WellTyped(p) <=> WellTyped(p)
  BY <1>2, <1>10, <1>11 DEF Made!WellTyped, WellTyped
<1>13. Made!Untypable(p) <=> Untypable(p)
  BY <1>1, <1>2, <1>4, <1>5, <1>7 DEF Made!Untypable, Untypable
<1>14. Made!MachineType(p) = MachineType(p)
  BY DEF Made!MachineType, MachineType, Made!MachineTypeOfLiteral, MachineTypeOfLiteral,
     Made!FirstValue, FirstValue, Made!DefinitionOf, DefinitionOf, Made!Declarations,
     Declarations, Made!Declares, Declares, Made!Types, Types, Made!DefinitionsOf,
     DefinitionsOf, Made!OfKind, OfKind, Made!Null, Null, Made!Comparing, Comparing
<1>15. Made!Untranslatable(p) <=> Untranslatable(p)
  BY <1>1, <1>2, <1>5, <1>14 DEF Made!Untranslatable, Untranslatable, Made!Unsupported,
     Unsupported, Made!Combine, Combine
<1> QED
  BY <1>4, <1>12, <1>13, <1>15

MadeInv == Made!TypeInv /\ Made!NamesInv /\ Made!GenInv

EmptyValue == Generation!EmptyAny

LEMMA MadeInit ==
  Made!Init => MadeInv
BY Made!InitTypes, Made!InitNames, Made!InitGen, SameSyntaxMade, ASTAssumption,
   ExpressionsAreTrees DEF MadeInv

LEMMA MadeInitNext ==
  Made!Init' => MadeInv'
BY MadeInit, PTL

LEMMA MadeNext ==
  ASSUME MadeInv, [Made!Next]_(Made!vars)
  PROVE  MadeInv'
BY Made!NextTypes, Made!NextNames, Made!NextGen, SameSyntaxMade, ASTAssumption,
   ExpressionsAreTrees DEF MadeInv

(* What the steps of the generator ask, and the answers.                   *)
LEMMA MadeDefined ==
  ASSUME MadeInv, phase = "generate", ~Untranslatable(program)
  PROVE  /\ stack # <<>> /\ Generation!Top.at # "visit" => value # EmptyValue /\ value # Null
         /\ Generation!Resumes("binary.rhs") =>
              /\ Generation!Top.node.op # "IS"
              /\ Generation!OperandsFit(Generation!Top.node.op,
                   Generation!TypeOf(Generation!Top.lhs), Generation!LoadedType(value))
         /\ Generation!Visits("VariableDefinition") => Generation!Child.value.type # "<None>"
         /\ Generation!AtTarget =>
              allocation[Generation!Child.targets[target]] # Null
<1>1. ~Made!Untranslatable(program)
  BY SameRulesMade
<1>2. Made!TypeInv /\ Made!NamesInv /\ Made!GenInv
  BY DEF MadeInv
<1>3. /\ stack # <<>> /\ Made!Top.at # "visit" => value # Made!EmptyAny /\ value # Made!Null
      /\ Made!Resumes("binary.rhs") =>
           /\ Made!Top.node.op # "IS"
           /\ Made!OperandsFit(Made!Top.node.op, Made!TypeOf(Made!Top.lhs),
                               Made!LoadedType(value))
      /\ Made!Visits("VariableDefinition") => Made!Child.value.type # "<None>"
      /\ Made!AtTarget => allocation[Made!Child.targets[target]] # Made!Null
  BY <1>1, <1>2, Made!NothingUndefined, SameSyntaxMade, ASTAssumption, ExpressionsAreTrees
<1>4. /\ Made!Top = Generation!Top /\ Made!EmptyAny = EmptyValue /\ Made!Null = Null
      /\ Made!Child = Generation!Child
      /\ \A kind : Made!Visits(kind) <=> Generation!Visits(kind)
      /\ Made!AtTarget <=> Generation!AtTarget
      /\ \A at : Made!Resumes(at) <=> Generation!Resumes(at)
  BY DEF Made!Top, Generation!Top, Made!EmptyAny, EmptyValue, Made!Null, Null,
     Made!Child, Generation!Child, Made!Visits, Generation!Visits, Made!AtTarget,
     Generation!AtTarget, Made!Resumes, Generation!Resumes, Made!Working, Generation!Working,
     Generation!EmptyAny
<1>5. /\ \A v : Made!TypeOf(v) = Generation!TypeOf(v)
      /\ \A v : Made!LoadedType(v) = Generation!LoadedType(v)
      /\ \A op, l, r : Made!OperandsFit(op, l, r) <=> Generation!OperandsFit(op, l, r)
  BY DEF Made!TypeOf, Generation!TypeOf, Made!LoadedType, Generation!LoadedType,
     Made!OperandsFit, Generation!OperandsFit, Made!LLVMType, Generation!LLVMType,
     Made!Comparing, Generation!Comparing
<1> QED
  BY <1>3, <1>4, <1>5

LEMMA SameModule ==
  /\ Made!Null = Null /\ Made!EmptyAny = EmptyValue /\ Generation!Null = Null
  /\ Generation!EmptyAny = EmptyValue
  /\ Made!Child = Generation!Child /\ Made!Top = Generation!Top
  /\ Made!Working <=> Generation!Working
  /\ Made!AtTarget <=> Generation!AtTarget
  /\ \A kind : Made!Visits(kind) <=> Generation!Visits(kind)
  /\ \A kind : Made!Enters(kind) <=> Generation!Enters(kind)
  /\ \A at : Made!Resumes(at) <=> Generation!Resumes(at)
  /\ \A text : Made!IsVariable(text) <=> Generation!IsVariable(text)
  /\ \A e : Made!Visit(e) = Generation!Visit(e)
  /\ \A at, n, v : Made!Frame(at, n, v) = Generation!Frame(at, n, v)
  /\ \A f, e : Made!Call(f, e) <=> Generation!Call(f, e)
  /\ \A v : Made!Return(v) <=> Generation!Return(v)
BY DEF Made!Null, Null, Made!EmptyAny, EmptyValue, Generation!Null, Generation!EmptyAny,
   Made!Child, Generation!Child, Made!Top, Generation!Top, Made!Working, Generation!Working,
   Made!AtTarget, Generation!AtTarget, Made!Visits, Generation!Visits, Made!Enters,
   Generation!Enters, Made!Resumes, Generation!Resumes, Made!IsVariable,
   Generation!IsVariable, Made!Visit, Generation!Visit, Made!Frame, Generation!Frame,
   Made!Call, Generation!Call, Made!Return, Generation!Return

LEMMA SameValues ==
  /\ \A lit : Made!LLVMType(lit) = Generation!LLVMType(lit)
  /\ \A lit : Made!Interned(lit) = Generation!Interned(lit)
  /\ \A lit : Made!InternedStrings(lit) = Generation!InternedStrings(lit)
  /\ \A lit : Made!ValueOf(lit) = Generation!ValueOf(lit)
  /\ \A name, n : Made!Allocate(name, n) <=> Generation!Allocate(name, n)
  /\ \A n : Made!Instruction(n) = Generation!Instruction(n)
  /\ \A v : Made!TypeOf(v) = Generation!TypeOf(v)
  /\ \A v : Made!Loaded(v) = Generation!Loaded(v)
  /\ \A v : Made!LoadedType(v) = Generation!LoadedType(v)
  /\ \A v : Made!WithLoad(v) = Generation!WithLoad(v)
  /\ \A c, op, t, a : Made!Emit(c, op, t, a) = Generation!Emit(c, op, t, a)
  /\ \A op, l, r : Made!OperandsFit(op, l, r) <=> Generation!OperandsFit(op, l, r)
  /\ \A op, l : Made!OperationType(op, l) = Generation!OperationType(op, l)
  /\ \A l, r : Made!Arguments(l, r) = Generation!Arguments(l, r)
  /\ \A op : Made!Cases(op) = Generation!Cases(op)
BY DEF Made!LLVMType, Generation!LLVMType, Made!Interned, Generation!Interned,
   Made!InternedStrings, Generation!InternedStrings, Made!ValueOf, Generation!ValueOf,
   Made!NewString, Generation!NewString, Made!Global, Generation!Global, Made!Constant,
   Generation!Constant, Made!EmptyAny, Generation!EmptyAny, Made!Allocate,
   Generation!Allocate, Made!Instruction, Generation!Instruction, Made!TypeOf,
   Generation!TypeOf, Made!Loaded, Generation!Loaded, Made!LoadedType,
   Generation!LoadedType, Made!WithLoad, Generation!WithLoad, Made!Emit, Generation!Emit,
   Made!OperandsFit, Generation!OperandsFit, Made!OperationType, Generation!OperationType,
   Made!Arguments, Generation!Arguments, Made!Cases, Generation!Cases, Made!Comparing,
   Generation!Comparing, Made!Operators, Generation!Operators, Made!Logical,
   Generation!Logical, Made!Arithmetic, Generation!Arithmetic

(* A step of the generator for a translatable program is one that meets    *)
(* nothing undefined.                                                      *)
LEMMA GenerationStep ==
  ASSUME MadeInv, phase = "generate", ~Untranslatable(program), Generation!Next,
         ~Generation!Crash
  PROVE  /\ Made!Next
         /\ ~Generation!BadAnyCast
         /\ undefined' => undefined
<1>1. Generation!VariableDefinition => Made!VariableDefinition /\ (undefined' => undefined)
  BY SameModule, SameValues DEF Generation!VariableDefinition, Made!VariableDefinition,
     Generation!input, Made!input
<1>2. Generation!VisitLiteral => Made!VisitLiteral /\ (undefined' => undefined)
  BY SameModule, SameValues DEF Generation!VisitLiteral, Made!VisitLiteral,
     Generation!input, Made!input
<1>3. Generation!VisitName => Made!VisitName /\ (undefined' => undefined)
  BY SameModule, SameValues DEF Generation!VisitName, Made!VisitName,
     Generation!input, Made!input
<1>4. Generation!VisitGrouping => Made!VisitGrouping /\ (undefined' => undefined)
  BY SameModule, SameValues DEF Generation!VisitGrouping, Made!VisitGrouping,
     Generation!input, Made!input
<1>5. Generation!VisitBinary => Made!VisitBinary /\ (undefined' => undefined)
  BY SameModule, SameValues DEF Generation!VisitBinary, Made!VisitBinary,
     Generation!input, Made!input
<1>6. ASSUME Generation!VisitRHS PROVE Made!VisitRHS /\ (undefined' => undefined)
  <2>1. value # Null
    BY <1>6, MadeDefined DEF Generation!VisitRHS, Generation!Resumes, Generation!Working
  <2> QED
    BY <1>6, <2>1, SameModule, SameValues DEF Generation!VisitRHS, Made!VisitRHS,
       Generation!input, Made!input
<1>7. ASSUME Generation!EndBinary PROVE Made!EndBinary /\ (undefined' => undefined)
  <2>1. /\ value # Null /\ Generation!Top.node.op # "IS"
        /\ Generation!OperandsFit(Generation!Top.node.op,
             Generation!TypeOf(Generation!Top.lhs), Generation!LoadedType(value))
    BY <1>7, MadeDefined DEF Generation!EndBinary, Generation!Resumes, Generation!Working
  <2>2. Generation!Cases(Generation!Top.node.op) = {Generation!Top.node.op}
    BY <2>1 DEF Generation!Cases
  <2> QED
    BY <1>7, <2>1, <2>2, SameModule, SameValues DEF Generation!EndBinary, Made!EndBinary,
       Generation!input, Made!input
<1>8. Generation!VisitExpression => Made!VisitExpression /\ (undefined' => undefined)
  BY SameModule, SameValues DEF Generation!VisitExpression, Made!VisitExpression,
     Generation!input, Made!input
<1>9. ASSUME Generation!LoadExpression PROVE Made!LoadExpression /\ (undefined' => undefined)
  <2>1. value # Null
    BY <1>9, MadeDefined DEF Generation!LoadExpression, Generation!Resumes, Generation!Working
  <2> QED
    BY <1>9, <2>1, SameModule, SameValues DEF Generation!LoadExpression, Made!LoadExpression,
       Generation!input, Made!input
<1>10. ASSUME Generation!StoreTarget PROVE Made!StoreTarget /\ (undefined' => undefined)
  <2>1. allocation[Generation!Child.targets[target]] # Null
    BY <1>10, MadeDefined DEF Generation!StoreTarget
  <2> QED
    BY <1>10, <2>1, SameModule, SameValues DEF Generation!StoreTarget, Made!StoreTarget,
       Generation!input, Made!input
<1>11. Generation!EndAssignment => Made!EndAssignment /\ (undefined' => undefined)
  BY SameModule, SameValues DEF Generation!EndAssignment, Made!EndAssignment,
     Generation!input, Made!input
<1>12. ~Generation!BadAnyCast
  BY MadeDefined, SameModule DEF Generation!BadAnyCast, Generation!Working
<1>13. Generation!EndOfProgram => Made!EndOfProgram /\ (undefined' => undefined)
  BY SameModule, SameValues DEF Generation!EndOfProgram, Made!EndOfProgram,
     Generation!input, Made!input
<1>14. ~Generation!Terminating
  BY DEF Generation!Terminating, Generation!Done
<1> QED
  BY <1>1, <1>2, <1>3, <1>4, <1>5, <1>6, <1>7, <1>8, <1>9, <1>10, <1>11, <1>12, <1>13, <1>14
     DEF Generation!Next, Made!Next

----------------------------------------------------------------------------
(* Who is to blame: if a process dies or does what is not defined, it has  *)
(* met a file that is deadly for these options.                            *)

DeadlySoFar ==
  \E f \in 1..file : f <= Len(args.files) /\ Deadly(args, Contents[args.files[f]])

BlameInv ==
  /\ phase # "next file" => File.readable /\ File.lexer = 0
  /\ phase \notin {"next file", "parse"} => ToTree(File)
  /\ phase = "rejected" => diags # <<>>
  /\ phase = "generate" /\ HandedOver /\ ~Untranslatable(program) => MadeInv
  /\ undefined => DeadlySoFar

LEMMA ThisFileIsDeadly ==
  ASSUME Inv, file <= Len(args.files), Deadly(args, File)
  PROVE  DeadlySoFar
BY Numbers DEF DeadlySoFar, File

LEMMA AnalysisFails ==
  ASSUME Inv, HandOverInv, Analyse, ~undefined, ~Untypable(program)
  PROVE  ~undefined' /\ phase' # "crashed"
<1>1. /\ phase \in {"build", "check"} /\ Analysis!Next /\ undefined \in BOOLEAN
      /\ Verdict!CascadeInv /\ Verdict!VerdictInv
  BY DEF Analyse, HandOverInv, Inv, TypeOK
<1>2. ~Analysis!Crash
  BY DEF Analysis!Crash
<1>3. Verdict!CascadeInv' /\ Verdict!VerdictInv' /\ program' = program
  BY <1>1, <1>2, VerdictNext, AnalysisFrame
<1>4. phase' = "crashed" => Verdict!Untypable(program')
  BY <1>3 DEF Verdict!VerdictInv, Verdict!EndInv
<1>5. phase' # "crashed"
  BY <1>3, <1>4, SameRules
<1>6. CASE Analysis!CheckDefinition
  <2>1. Verdict!Visits("check", "VariableDefinition") /\ Verdict!Child = Analysis!Child
    BY <1>6 DEF Analysis!CheckDefinition, Analysis!Visits, Verdict!Visits, Analysis!Child,
       Verdict!Child
  <2>2. Verdict!IsVariable(Analysis!Child.name)
    BY <1>1, <2>1, NamesAreVariables
  <2>3. Analysis!IsVariable(Analysis!Child.name)
    BY <2>2 DEF Verdict!IsVariable, Analysis!IsVariable, Verdict!Has, Analysis!Has
  <2> QED
    BY <1>5, <1>6, <2>3 DEF Analysis!CheckDefinition
<1>7. CASE Analysis!VisitName
  <2>1. /\ Verdict!Enters("Identifier") /\ Verdict!Top = Analysis!Top
        /\ Verdict!Has(Analysis!Top.node.name)
    BY <1>7 DEF Analysis!VisitName, Analysis!Enters, Verdict!Enters, Analysis!Working,
       Verdict!Working, Analysis!Top, Verdict!Top, Analysis!Has, Verdict!Has
  <2>2. Verdict!IsVariable(Analysis!Top.node.name)
    BY <1>1, <2>1, NamesAreVariables
  <2>3. Analysis!IsVariable(Analysis!Top.node.name)
    BY <2>2 DEF Verdict!IsVariable, Analysis!IsVariable, Verdict!Has, Analysis!Has
  <2> QED
    BY <1>5, <1>7, <2>3 DEF Analysis!VisitName
<1>8. CASE Analysis!CheckTarget
  <2>1. /\ Verdict!AtTarget /\ Verdict!Child = Analysis!Child
        /\ Verdict!Has(Analysis!Child.targets[target])
    BY <1>8 DEF Analysis!CheckTarget, Analysis!AtTarget, Verdict!AtTarget, Analysis!Visits,
       Verdict!Visits, Analysis!Child, Verdict!Child, Analysis!EmptyAny, Verdict!EmptyAny,
       Analysis!Has, Verdict!Has
  <2>2. Verdict!IsVariable(Analysis!Child.targets[target])
    BY <1>1, <2>1, NamesAreVariables
  <2>3. Analysis!IsVariable(Analysis!Child.targets[target])
    BY <2>2 DEF Verdict!IsVariable, Analysis!IsVariable, Verdict!Has, Analysis!Has
  <2> QED
    BY <1>5, <1>8, <2>3 DEF Analysis!CheckTarget
<1>9. CASE ~(Analysis!CheckDefinition \/ Analysis!VisitName \/ Analysis!CheckTarget)
  <2>1. undefined' = undefined
    BY <1>1, <1>9 DEF Analysis!Next, Analysis!Redefinition, Analysis!UndefinedType,
       Analysis!Declare, Analysis!Traverse, Analysis!TraverseNull, Analysis!EndOfBuild,
       Analysis!VisitLiteral, Analysis!VisitUndefinedName, Analysis!VisitGrouping,
       Analysis!VisitUnary, Analysis!EndUnary, Analysis!VisitBinary, Analysis!VisitRHS,
       Analysis!EndBinary, Analysis!CheckAssignment, Analysis!CheckUndefinedTarget,
       Analysis!EndAssignment, Analysis!BadAnyCast, Analysis!EndOfCheck, Analysis!Crash,
       Analysis!Terminating, Analysis!vars
  <2> QED
    BY <1>5, <2>1
<1> QED
  BY <1>6, <1>7, <1>8, <1>9

LEMMA GenerationFails ==
  ASSUME Inv, HandOverInv, BlameInv, Generate, ~undefined, ~Untypable(program),
         ~Untranslatable(program)
  PROVE  ~undefined' /\ phase' # "crashed"
<1>1. phase = "generate" /\ Generation!Next /\ MadeInv
  BY DEF Generate, HandOverInv, BlameInv
<1>2. ~Generation!Crash
  BY DEF Generation!Crash
<1>3. Made!Next /\ ~Generation!BadAnyCast /\ ~undefined'
  BY <1>1, <1>2, GenerationStep
<1>4. phase' # "crashed"
  BY <1>1, <1>2, <1>3 DEF Generation!Next, Generation!VariableDefinition,
     Generation!VisitLiteral, Generation!VisitName, Generation!VisitGrouping,
     Generation!VisitBinary, Generation!VisitRHS, Generation!EndBinary,
     Generation!VisitExpression, Generation!LoadExpression, Generation!StoreTarget,
     Generation!EndAssignment, Generation!EndOfProgram, Generation!Terminating,
     Generation!vars
<1> QED
  BY <1>3, <1>4

(* The virtual call through nullptr in the pretty printer.                 *)
LEMMA NullIsUntypable ==
  ASSUME NEW p \in Programs, HasNull(p)
  PROVE  Untypable(p)
<1>1. PICK c \in 1..Len(p) : p[c].kind = "AssignmentStatement" /\ Hollow[p[c].expr]
  BY DEF HasNull
<1>2. c \in AssignmentsOf(p)
  BY <1>1 DEF AssignmentsOf, OfKind
<1>3. p[c].expr \in Expressions
  BY <1>2, ProgramFacts
<1>4. Null \in Within[p[c].expr] /\ Null.kind = "nullptr"
  BY <1>1, <1>3, HollowMeansNull DEF Null
<1> QED
  BY <1>2, <1>4 DEF Untypable

LEMMA FileNumbers ==
  ASSUME Inv, file <= Len(args.files)
  PROVE  File.lexer \in Nat /\ File.parser \in Nat /\ File.readable \in BOOLEAN
<1>1. args.files \in Seq(FileNames) /\ file \in 1..Len(args.files)
  <2>1. Len(args.files) \in Nat /\ file \in Nat /\ 1 <= file
    BY Numbers
  <2>2. file \in 1..Len(args.files)
    BY <2>1
  <2> QED
    BY <2>2 DEF Inv, TypeOK
<1>2. args.files[file] \in FileNames
  BY <1>1, ElementOfSeq
<1> QED
  BY <1>2, CompilerAssumption DEF File

(* The file that the visitors are at work on.                              *)
LEMMA AtWork ==
  ASSUME Inv, BlameInv, phase \in {"print", "build", "check", "accepted", "rejected",
                                   "generate", "generated"}
  PROVE  /\ file <= Len(args.files) /\ ToTree(File) /\ File.tree \in Programs
         /\ phase # "print" => program = File.tree
<1>1. file <= Len(args.files)
  BY DEF Inv, InFile
<1> QED
  BY <1>1, FileFacts DEF BlameInv

LEMMA StepIsBlamed ==
  ASSUME Inv, HandOverInv, BlameInv, Next, phase # "crashed", undefined' \/ phase' = "crashed"
  PROVE  DeadlySoFar
<1> SUFFICES ASSUME ~undefined
             PROVE  DeadlySoFar
  BY DEF BlameInv
<1>1. CASE Analyse
  <2>1. Untypable(program)
    BY <1>1, AnalysisFails
  <2>2. phase \in {"build", "check"}
    BY <1>1 DEF Analyse
  <2> QED
    BY <2>1, <2>2, AtWork, ThisFileIsDeadly DEF Deadly
<1>2. CASE Generate
  <2>1. phase = "generate"
    BY <1>2 DEF Generate
  <2>2. Untypable(program) \/ Untranslatable(program)
    BY <1>2, GenerationFails
  <2>3. Untypable(program) \/ WellTyped(program)
    BY <2>1 DEF HandOverInv, HandedOver
  <2> QED
    BY <2>1, <2>2, <2>3, AtWork, ThisFileIsDeadly DEF Deadly
<1>3. CASE PrettyPrint \/ PrintCrash
  <2>1. /\ phase = "print" /\ args.prettyPrint
        /\ HasNull(File.tree) \/ HasIsIn(File.tree)
    BY <1>3 DEF PrettyPrint, PrintCrash, AtFile, StartAnalysis
  <2>2. Untypable(File.tree) \/ HasIsIn(File.tree)
    BY <2>1, AtWork, NullIsUntypable
  <2> QED
    BY <2>1, <2>2, AtWork, ThisFileIsDeadly DEF Deadly
<1>4. CASE Unreadable \/ Lex \/ Parse \/ SkipPrint \/ Reject \/ Accept \/ EndOfFile
  BY <1>4 DEF Unreadable, Lex, Parse, SkipPrint, Reject, Accept, EndOfFile, NextFile, GoOn,
     StartAnalysis, StartGeneration
<1>5. CASE Terminating
  BY <1>5 DEF Terminating, Done, vars
<1> QED
  BY <1>1, <1>2, <1>3, <1>4, <1>5 DEF Next

LEMMA DeadlyStays ==
  ASSUME Inv, DeadlySoFar, args' = args, file' = file \/ file' = file + 1
  PROVE  DeadlySoFar'
<1>1. PICK f \in 1..file : f <= Len(args.files) /\ Deadly(args, Contents[args.files[f]])
  BY DEF DeadlySoFar
<1>2. f \in 1..file'
  BY Numbers
<1> QED
  BY <1>1, <1>2 DEF DeadlySoFar

LEMMA FileAfter ==
  ASSUME Next
  PROVE  /\ args' = args
         /\ file' = file \/ file' = file + 1
         /\ phase' # "next file" => file' = file
BY DEF Next, Unreadable, Lex, Parse, SkipPrint, PrettyPrint, PrintCrash, Analyse, Reject, Accept,
   Generate, EndOfFile, Terminating, NextFile, GoOn, StartAnalysis, StartGeneration, driver, vars

LEMMA RejectedHasErrors ==
  ASSUME phase \in {"build", "check"}, Analysis!Next, phase' = "rejected"
  PROVE  diags' # <<>>
<1>1. Analysis!EndOfCheck
  BY DEF Analysis!Next, Analysis!Redefinition, Analysis!UndefinedType,
     Analysis!Declare, Analysis!Traverse, Analysis!TraverseNull, Analysis!EndOfBuild,
     Analysis!CheckDefinition, Analysis!VisitLiteral, Analysis!VisitName,
     Analysis!VisitUndefinedName, Analysis!VisitGrouping, Analysis!VisitUnary,
     Analysis!EndUnary, Analysis!VisitBinary, Analysis!VisitRHS, Analysis!EndBinary,
     Analysis!CheckAssignment, Analysis!CheckTarget, Analysis!CheckUndefinedTarget,
     Analysis!EndAssignment, Analysis!BadAnyCast, Analysis!Crash,
     Analysis!Terminating, Analysis!vars
<1> QED
  BY <1>1 DEF Analysis!EndOfCheck

(* No diagnostics, no errors: the manager has one for each.                *)
LEMMA ErrorsCounted ==
  ASSUME NEW n \in Nat, NEW where
  PROVE  /\ Errors(n, where) \in Seq([id : {where}, child : Nat, place : {where}])
         /\ Errors(n, where) = <<>> <=> n = 0
         /\ <<>> \o Errors(n, where) = Errors(n, where)
<1> DEFINE D == [id : {where}, child : Nat, place : {where}]
           e == Errors(n, where)
<1>1. e \in [1..n -> D]
  BY DEF Errors
<1> HIDE DEF D
<1>2. e \in Seq(D) /\ Len(e) = n
  BY <1>1, SeqDef, LenProperties
<1>3. e = <<>> <=> Len(e) = 0
  BY <1>2, EmptySeq
<1>4. <<>> \o e = e
  BY <1>2, ConcatEmptySeq
<1> QED
  BY <1>2, <1>3, <1>4 DEF D

(* The five parts of BlameInv, the file's first.                           *)
LEMMA FileBlame ==
  ASSUME Inv, BlameInv, Next
  PROVE  /\ phase' # "next file" => (File.readable /\ File.lexer = 0)'
         /\ phase' \notin {"next file", "parse"} => ToTree(File)'
<1>1. args' = args /\ (phase' # "next file" => file' = file)
  BY FileAfter
<1>2. phase' # "next file" => File' = File
  BY <1>1 DEF File
<1>3. CASE Unreadable \/ Reject \/ EndOfFile
  BY <1>3 DEF Unreadable, Reject, EndOfFile, NextFile
<1>4. CASE Lex
  <2>1. /\ phase = "next file" /\ file <= Len(args.files) /\ File.readable
        /\ phase' = "next file" \/ (phase' = "parse" /\ Errors(File.lexer, "lexer") = <<>>)
    BY <1>4 DEF Lex, AtFile, NextFile, GoOn, NewManager
  <2>2. File.lexer \in Nat
    BY <2>1, FileNumbers
  <2>3. phase' = "parse" => File.lexer = 0
    BY <2>1, <2>2, ErrorsCounted
  <2> QED
    BY <1>2, <2>1, <2>3
<1>5. CASE Parse
  <2>1. /\ phase = "parse" /\ file <= Len(args.files)
        /\ \/ phase' = "next file"
           \/ /\ phase' = "print" /\ File.tree # NoTree
              /\ diags \o Errors(File.parser, "parser") = <<>>
    BY <1>5 DEF Parse, AtFile, NextFile, GoOn
  <2>2. File.parser \in Nat /\ diags = <<>> /\ File.readable /\ File.lexer = 0
    BY <2>1, FileNumbers DEF BlameInv, Inv, WithoutErrors
  <2>3. phase' = "print" => ToTree(File)
    BY <2>1, <2>2, ErrorsCounted DEF ToTree
  <2> QED
    BY <1>2, <2>1, <2>2, <2>3
<1>6. CASE SkipPrint \/ PrettyPrint \/ PrintCrash \/ Analyse \/ Accept \/ Generate \/ Terminating
  <2>1. \/ phase \notin {"next file", "parse"}
        \/ phase' = phase
    BY <1>6 DEF SkipPrint, PrettyPrint, PrintCrash, Analyse, Accept, Generate, AtFile,
       Terminating, vars
  <2> QED
    BY <1>2, <2>1 DEF BlameInv
<1> QED
  BY <1>3, <1>4, <1>5, <1>6 DEF Next

LEMMA BlameNext ==
  ASSUME Inv, HandOverInv, BlameInv, [Next]_vars
  PROVE  BlameInv'
<1>1. CASE Next
  <2>1. phase' = "rejected" => diags' # <<>>
    <3>1. CASE Analyse
      BY <1>1, <3>1, RejectedHasErrors DEF Analyse
    <3>2. CASE ~Analyse
      <4>1. phase' = "rejected" => Terminating
        <5>1. ~(Generate /\ phase' = "rejected")
          BY GenerationFrame DEF Inv, TypeOK, Generate
        <5> QED
          BY <1>1, <3>2, <5>1 DEF Next, Unreadable, Lex, Parse, SkipPrint, PrettyPrint,
             PrintCrash, Reject, Accept, EndOfFile, NextFile, GoOn, StartAnalysis,
             StartGeneration
      <4> QED
        BY <4>1 DEF Terminating, vars, BlameInv
    <3> QED
      BY <3>1, <3>2
  <2>2. ASSUME phase' = "generate", HandedOver', ~Untranslatable(program')
        PROVE  MadeInv'
    <3>1. CASE Accept
      <4>1. Made!Init'
        <5>1. /\ program' = program /\ program \in Programs /\ phase' = "generate" /\ child' = 1
              /\ target' = 0 /\ stack' = <<>> /\ value' = Generation!EmptyAny
              /\ table' = table /\ allocation' = Generation!NoAllocations(table)
              /\ NoModule'
          BY <3>1, AtWork DEF Accept, StartGeneration, HandOverInv, NoModule
        <5>2. /\ Made!EmptyAny = Generation!EmptyAny
              /\ \A t : Made!NoAllocations(t) = Generation!NoAllocations(t)
              /\ \A p : Made!TableOf(p) = Generation!TableOf(p)
          BY DEF Made!EmptyAny, Generation!EmptyAny, Made!NoAllocations,
             Generation!NoAllocations, Made!TableOf, Generation!TableOf, Made!Null,
             Generation!Null, Made!Types, Generation!Types, Made!Declared,
             Generation!Declared, Made!TypeDeclared, Generation!TypeDeclared,
             Made!Declarations, Generation!Declarations, Made!Declares, Generation!Declares,
             Made!DefinitionsOf, Generation!DefinitionsOf, Made!OfKind, Generation!OfKind
        <5>3. Made!WellTyped(program') /\ ~Made!Untypable(program')
          BY <2>2, SameRulesMade DEF HandedOver
        <5> QED
          BY <2>2, <5>1, <5>2, <5>3 DEF Made!Init, NoModule, HandedOver
      <4> QED
        BY <4>1, MadeInitNext
    <3>2. CASE Generate
      <4>1. /\ phase = "generate" /\ Generation!Next /\ ~Generation!Crash
            /\ program' = program /\ table' = table
        BY <2>2, <3>2, GenerationFrame DEF Generate, Generation!Crash, Inv, TypeOK
      <4>2. MadeInv
        BY <2>2, <4>1 DEF BlameInv, HandedOver
      <4>3. ~Untranslatable(program)
        BY <2>2, <4>1
      <4> QED
        BY <4>1, <4>2, <4>3, GenerationStep, MadeNext
    <3>3. ~Accept /\ ~Generate => FALSE
      <4>1. ~(Analyse /\ phase' = "generate")
        BY AnalysisFrame DEF Analyse, Inv, TypeOK
      <4> QED
        BY <1>1, <2>2, <4>1 DEF Next, Unreadable, Lex, Parse, SkipPrint, PrettyPrint,
           PrintCrash, Reject, EndOfFile, NextFile, GoOn, StartAnalysis, Terminating, Done,
           vars
    <3> QED
      BY <3>1, <3>2, <3>3
  <2>3. undefined' => DeadlySoFar'
    <3>1. CASE phase = "crashed"
      <4>1. undefined' = undefined
        BY <1>1, <3>1 DEF Next, Unreadable, Lex, Parse, SkipPrint, PrettyPrint, PrintCrash,
           Analyse, Reject, Accept, Generate, EndOfFile, AtFile, Terminating, vars
      <4> QED
        BY <1>1, <4>1, FileAfter, DeadlyStays DEF BlameInv
    <3>2. CASE phase # "crashed"
      BY <1>1, <3>2, StepIsBlamed, FileAfter, DeadlyStays
    <3> QED
      BY <3>1, <3>2
  <2> QED
    BY <1>1, <2>1, <2>2, <2>3, FileBlame DEF BlameInv
<1>2. CASE UNCHANGED vars
  <2>1. UNCHANGED <<args, file, phase, diags, program, table, undefined>> /\ UNCHANGED Made!vars
    BY <1>2 DEF vars, driver, visitors, Made!vars, Made!input
  <2>2. MadeInv => MadeInv'
    BY <2>1, MadeNext
  <2> QED
    BY <2>1, <2>2 DEF BlameInv, File, HandedOver, DeadlySoFar
<1> QED
  BY <1>1, <1>2

----------------------------------------------------------------------------
(* What is shown of a file, as the output grows.                           *)

IsShown(o, f, n, g) ==
  g = [m \in 0..n |->
         IF m = 0 THEN <<>>
         ELSE IF o[m].file = f THEN Append(g[m - 1], o[m].what)
         ELSE g[m - 1]]

LEMMA ShownExists ==
  ASSUME NEW o, NEW f
  PROVE  \A n \in Nat : \E g : IsShown(o, f, n, g)
<1> DEFINE S == {n \in Nat : \E g : IsShown(o, f, n, g)}
<1>1. 0 \in S
  <2> DEFINE g == [m \in 0..0 |-> <<>>]
  <2>1. IsShown(o, f, 0, g)
    BY DEF IsShown
  <2> HIDE DEF g
  <2> QED
    BY <2>1
<1>2. ASSUME NEW n \in Nat, n \in S
      PROVE  n + 1 \in S
  <2>1. PICK g : IsShown(o, f, n, g)
    BY <1>2
  <2> DEFINE last == IF o[n + 1].file = f THEN Append(g[n], o[n + 1].what) ELSE g[n]
             h == [m \in 0..(n + 1) |-> IF m = n + 1 THEN last ELSE g[m]]
  <2>2. ASSUME NEW m \in 0..n
        PROVE  h[m] = IF m = 0 THEN <<>>
                      ELSE IF o[m].file = f THEN Append(h[m - 1], o[m].what)
                      ELSE h[m - 1]
    <3>1. m \in 0..(n + 1) /\ m # n + 1 /\ (m # 0 => m - 1 \in 0..(n + 1) /\ m - 1 # n + 1)
      OBVIOUS
    <3>2. h[m] = g[m] /\ (m # 0 => h[m - 1] = g[m - 1])
      BY <3>1
    <3> HIDE DEF h
    <3>3. g[m] = IF m = 0 THEN <<>>
                 ELSE IF o[m].file = f THEN Append(g[m - 1], o[m].what)
                 ELSE g[m - 1]
      BY <2>1 DEF IsShown
    <3> QED
      BY <3>2, <3>3
  <2>3. /\ n + 1 \in 0..(n + 1) /\ n \in 0..(n + 1) /\ n # n + 1 /\ n + 1 # 0
        /\ (n + 1) - 1 = n
    OBVIOUS
  <2>4. h[n + 1] = last /\ h[n] = g[n]
    BY <2>3
  <2>5. h = [m \in 0..(n + 1) |-> h[m]]
    OBVIOUS
  <2> HIDE DEF h
  <2>6. ASSUME NEW m \in 0..(n + 1)
        PROVE  h[m] = IF m = 0 THEN <<>>
                      ELSE IF o[m].file = f THEN Append(h[m - 1], o[m].what)
                      ELSE h[m - 1]
    <3>1. CASE m = n + 1
      BY <2>3, <2>4, <3>1
    <3>2. CASE m # n + 1
      <4>1. m \in 0..n
        BY <3>2
      <4> QED
        BY <2>2, <4>1
    <3> QED
      BY <3>1, <3>2
  <2>7. IsShown(o, f, n + 1, h)
    BY <2>5, <2>6 DEF IsShown
  <2> QED
    BY <2>7
<1> HIDE DEF S
<1>3. Nat \subseteq S
  BY <1>1, <1>2, NatInductionOnSet
<1> QED
  BY <1>3 DEF S

LEMMA ShownAgree ==
  ASSUME NEW f, NEW o, NEW p, NEW n \in Nat, NEW k \in Nat, n <= k,
         \A m \in 1..n : p[m] = o[m],
         NEW g, NEW h, IsShown(o, f, n, g), IsShown(p, f, k, h)
  PROVE  \A m \in 0..n : h[m] = g[m]
<1> DEFINE S == {m \in Nat : m <= n => h[m] = g[m]}
<1>1. 0 \in S
  <2>1. 0 \in 0..n /\ 0 \in 0..k
    OBVIOUS
  <2>2. g[0] = <<>> /\ h[0] = <<>>
    BY <2>1 DEF IsShown
  <2> QED
    BY <2>2
<1>2. ASSUME NEW m \in Nat, m \in S
      PROVE  m + 1 \in S
  <2> SUFFICES ASSUME m + 1 <= n
               PROVE  h[m + 1] = g[m + 1]
    OBVIOUS
  <2>1. /\ m + 1 \in 0..n /\ m + 1 \in 0..k /\ m + 1 \in 1..n /\ m + 1 # 0
        /\ (m + 1) - 1 = m /\ m <= n
    OBVIOUS
  <2>2. g[m + 1] = IF o[m + 1].file = f THEN Append(g[m], o[m + 1].what) ELSE g[m]
    BY <2>1 DEF IsShown
  <2>3. h[m + 1] = IF p[m + 1].file = f THEN Append(h[m], p[m + 1].what) ELSE h[m]
    BY <2>1 DEF IsShown
  <2> QED
    BY <1>2, <2>1, <2>2, <2>3
<1> HIDE DEF S
<1>3. Nat \subseteq S
  BY <1>1, <1>2, NatInductionOnSet
<1>4. \A m \in 0..n : m \in Nat /\ m <= n
  OBVIOUS
<1> QED
  BY <1>3, <1>4 DEF S

LEMMA ShownIsLast ==
  ASSUME NEW o, NEW f, Len(o) \in Nat
  PROVE  \E g : IsShown(o, f, Len(o), g) /\ ShownIn(o, f) = g[Len(o)]
<1>1. \E g : IsShown(o, f, Len(o), g)
  BY ShownExists
<1> DEFINE g == CHOOSE g : IsShown(o, f, Len(o), g)
<1>2. IsShown(o, f, Len(o), g)
  BY <1>1
<1>3. ShownIn(o, f) = g[Len(o)]
  BY DEF ShownIn, IsShown
<1> QED
  BY <1>2, <1>3

LEMMA ShownFurther ==
  ASSUME NEW f, NEW o, NEW p, Len(o) \in Nat, Len(p) = Len(o) + 1,
         \A m \in 1..Len(o) : p[m] = o[m]
  PROVE  ShownIn(p, f) = IF p[Len(p)].file = f THEN Append(ShownIn(o, f), p[Len(p)].what)
                         ELSE ShownIn(o, f)
<1> DEFINE n == Len(o)
           k == Len(p)
<1>1. n \in Nat /\ k \in Nat /\ k = n + 1
  OBVIOUS
<1>2. PICK g : IsShown(o, f, n, g) /\ ShownIn(o, f) = g[n]
  BY ShownIsLast
<1>3. PICK h : IsShown(p, f, k, h) /\ ShownIn(p, f) = h[k]
  BY <1>1, ShownIsLast
<1> HIDE DEF n, k
<1>4. n <= k /\ n \in 0..n /\ k \in 0..k /\ k # 0 /\ k - 1 = n
  BY <1>1
<1>5. \A m \in 1..n : p[m] = o[m]
  BY DEF n
<1>6. h[n] = g[n]
  <2>1. IsShown(o, f, n, g) /\ IsShown(p, f, k, h) /\ n \in Nat /\ k \in Nat /\ n <= k
    BY <1>1, <1>2, <1>3, <1>4
  <2>2. \A m \in 0..n : h[m] = g[m]
    BY ONLY <2>1, <1>5, ShownAgree
  <2> QED
    BY <1>4, <2>2
<1>7. h[k] = IF p[k].file = f THEN Append(h[n], p[k].what) ELSE h[n]
  BY <1>3, <1>4 DEF IsShown
<1> QED
  BY <1>2, <1>3, <1>6, <1>7 DEF k

LEMMA ShownNothing ==
  ASSUME NEW o, NEW f, Len(o) = 0
  PROVE  ShownIn(o, f) = <<>>
<1>1. PICK g : IsShown(o, f, 0, g) /\ ShownIn(o, f) = g[0]
  BY ShownIsLast
<1>2. 0 \in 0..0
  OBVIOUS
<1> QED
  BY <1>1, <1>2 DEF IsShown

----------------------------------------------------------------------------
(* What has been shown of the file of the iteration, and nothing yet of    *)
(* those after it.                                                         *)

TreeShown == IF args.prettyPrint THEN <<"tree">> ELSE <<>>

ShowingInv ==
  /\ phase \in {"next file", "parse", "print"} => ShownIn(output, file) = <<>>
  /\ phase \in {"build", "check", "accepted", "rejected", "generate", "generated"} =>
       ShownIn(output, file) = TreeShown
  /\ \A f \in Nat : f > file => ShownIn(output, f) = <<>>

LEMMA PrintsShown ==
  ASSUME OutputIsSeq, NEW what, NEW about, Prints(what, about), NEW f
  PROVE  ShownIn(output', f) = IF f = file THEN Append(ShownIn(output, f), what)
                               ELSE ShownIn(output, f)
<1> DEFINE x == [file |-> file, what |-> what, about |-> about]
           p == output'
<1>1. /\ Len(output) \in Nat /\ Len(p) = Len(output) + 1 /\ p[Len(p)] = x
      /\ \A k \in 1..Len(output) : p[k] = output[k]
  BY PrintsFacts
<1>2. x.file = file /\ x.what = what
  OBVIOUS
<1> HIDE DEF x, p
<1>3. ShownIn(p, f) = IF p[Len(p)].file = f THEN Append(ShownIn(output, f), p[Len(p)].what)
                      ELSE ShownIn(output, f)
  BY ONLY <1>1, ShownFurther
<1>4. ShownIn(p, f) = IF f = file THEN Append(ShownIn(output, f), what)
                      ELSE ShownIn(output, f)
  BY <1>1, <1>2, <1>3
<1> QED
  BY <1>4 DEF p

(* Nothing but the file of the iteration is printed about.                 *)
LEMMA OthersShown ==
  ASSUME Inv, Next, NEW f, f # file
  PROVE  ShownIn(output', f) = ShownIn(output, f)
<1>1. UNCHANGED output \/ \E what, about : Prints(what, about)
  BY DEF Next, Unreadable, Lex, Parse, SkipPrint, PrettyPrint, PrintCrash, Analyse, Reject,
     Accept, Generate, EndOfFile, Terminating, PrintAll, StartGeneration, driver, vars
<1>2. CASE UNCHANGED output
  BY <1>2
<1>3. ASSUME NEW what, NEW about, Prints(what, about)
      PROVE  ShownIn(output', f) = ShownIn(output, f)
  BY <1>3, PrintsShown DEF Inv
<1> QED
  BY <1>1, <1>2, <1>3

LEMMA PrintAllShown ==
  ASSUME Inv, NEW list, PrintAll(list)
  PROVE  ShownIn(output', file) =
           IF list = <<>> THEN ShownIn(output, file)
           ELSE Append(ShownIn(output, file), "diagnostics")
BY PrintsShown DEF PrintAll, Inv

LEMMA ShowingInit ==
  ASSUME Init
  PROVE  ShowingInv
<1>1. output = <<>> /\ phase = "next file"
  BY DEF Init
<1>2. Len(output) = 0
  BY <1>1
<1> QED
  BY <1>1, <1>2, ShownNothing DEF ShowingInv

LEMMA NextNumber ==
  ASSUME NEW n \in Nat
  PROVE  /\ n + 1 > n /\ n + 1 # n /\ n + 1 \in Nat
         /\ \A f \in Nat : f > n => f # n
         /\ \A f \in Nat : f > n + 1 => f > n
OBVIOUS

LEMMA SameOrNext ==
  ASSUME NEW n \in Nat, NEW m, m = n \/ m = n + 1
  PROVE  \A f \in Nat : f > m => f > n
<1>1. CASE m = n
  BY <1>1
<1>2. CASE m = n + 1
  BY <1>2
<1> QED
  BY <1>1, <1>2

LEMMA ShowingNext ==
  ASSUME Inv, ShowingInv, [Next]_vars
  PROVE  ShowingInv'
<1>1. CASE UNCHANGED vars
  BY <1>1 DEF vars, driver, ShowingInv, TreeShown
<1>2. CASE Next
  <2>1. \A f : f # file => ShownIn(output', f) = ShownIn(output, f)
    BY <1>2, OthersShown
  <2>2. /\ args' = args /\ file \in Nat /\ (file' = file \/ file' = file + 1)
        /\ phase' # "next file" => file' = file
    BY <1>2, FileAfter, Numbers
  <2>3. \A f \in Nat : f > file => ShownIn(output', f) = <<>>
    <3>1. \A f \in Nat : f > file => f # file
      BY ONLY <2>2, NextNumber
    <3>2. \A f \in Nat : f > file => ShownIn(output, f) = <<>>
      BY DEF ShowingInv
    <3> QED
      BY ONLY <2>1, <3>1, <3>2
  <2>4. \A f \in Nat : f > file' => ShownIn(output', f) = <<>>
    <3>1. \A f \in Nat : f > file' => f > file
      <4>1. file \in Nat
        BY <2>2
      <4>2. file' = file \/ file' = file + 1
        BY <2>2
      <4> QED
        BY ONLY <4>1, <4>2, SameOrNext
    <3> QED
      BY ONLY <2>3, <3>1
  <2>5. file + 1 > file /\ file + 1 # file /\ file + 1 \in Nat
    BY ONLY <2>2, NextNumber
  <2>6. ShownIn(output', file + 1) = <<>>
    BY ONLY <2>3, <2>5
  <2>7. CASE file' = file + 1
    <3>1. phase' = "next file"
      BY <2>2, <2>5, <2>7
    <3> QED
      BY <2>4, <2>6, <2>7, <3>1 DEF ShowingInv
  <2>8. CASE file' = file
    <3>1. CASE \/ UNCHANGED output /\ phase' = phase
               \/ phase' = "crashed"
      BY <2>2, <2>4, <2>8, <3>1 DEF ShowingInv, TreeShown
    <3>2. CASE Lex \/ Parse
      <4>1. /\ phase \in {"next file", "parse"} /\ phase' \in {"parse", "print"}
            /\ UNCHANGED output
        BY <2>5, <2>8, <3>2 DEF Lex, Parse, AtFile, NextFile, GoOn, PrintAll
      <4> QED
        BY <2>4, <2>8, <4>1 DEF ShowingInv
    <3>3. CASE SkipPrint
      <4>1. /\ phase = "print" /\ phase' = "build" /\ UNCHANGED output /\ TreeShown' = <<>>
        BY <2>2, <3>3 DEF SkipPrint, AtFile, StartAnalysis, TreeShown
      <4> QED
        BY <2>4, <2>8, <4>1 DEF ShowingInv
    <3>4. CASE PrettyPrint
      <4>1. /\ phase = "print" /\ phase' = "build" /\ Prints("tree", <<>>)
            /\ TreeShown' = <<"tree">> /\ ShownIn(output, file) = <<>>
        BY <2>2, <3>4 DEF PrettyPrint, AtFile, StartAnalysis, TreeShown, ShowingInv
      <4>2. ShownIn(output', file) = Append(<<>>, "tree")
        BY <4>1, PrintsShown DEF Inv
      <4>3. ShownIn(output', file') = TreeShown'
        BY <2>8, <4>1, <4>2
      <4> QED
        BY <2>4, <4>1, <4>3 DEF ShowingInv
    <3>5. CASE Analyse \/ Accept \/ Generate
      <4>1. /\ phase \in {"build", "check", "accepted", "generate"} /\ UNCHANGED output
            /\ phase' \in {"build", "check", "accepted", "rejected", "generate", "generated",
                           "crashed"}
        BY <3>5, AnalysisFrame, GenerationFrame DEF Analyse, Accept, Generate,
           StartGeneration, driver, Inv, TypeOK
      <4> QED
        BY <2>2, <2>4, <2>8, <4>1 DEF ShowingInv, TreeShown
    <3>6. CASE Unreadable \/ Reject \/ EndOfFile
      BY <2>5, <2>8, <3>6 DEF Unreadable, Reject, EndOfFile, NextFile
    <3>7. CASE PrintCrash \/ Terminating
      BY <3>1, <3>7 DEF PrintCrash, Terminating, vars, driver
    <3> QED
      BY <1>2, <3>2, <3>3, <3>4, <3>5, <3>6, <3>7 DEF Next
  <2> QED
    BY <2>2, <2>7, <2>8
<1> QED
  BY <1>1, <1>2

----------------------------------------------------------------------------
(* The refinement: a step that leaves the loop's body finishes the file, a *)
(* death is the fault of a deadly file, and every other step is not seen.  *)

ShownFiles == [f \in 1..(file - 1) |-> ShownFor(f)]

LEMMA ShownOneMore ==
  ASSUME NEW n \in Nat, NEW S, NEW g \in [1..n -> S], NEW T, NEW h \in [1..(n + 1) -> T],
         \A f \in 1..n : h[f] = g[f]
  PROVE  h = Append(g, h[n + 1])
<1> DEFINE x == h[n + 1]
<1>1. g \in [1..n -> S]
  OBVIOUS
<1>2. g \in Seq(S) /\ Len(g) = n
  BY <1>1, SeqDef, LenProperties
<1> HIDE DEF x
<1>3. /\ Append(g, x) \in Seq(S \cup {x}) /\ Len(Append(g, x)) = n + 1
      /\ Append(g, x)[n + 1] = x
      /\ \A k \in 1..n : Append(g, x)[k] = g[k]
  BY <1>2, AppendAny
<1>4. Append(g, x) = [k \in 1..(n + 1) |-> Append(g, x)[k]]
  <2> DEFINE a == Append(g, x)
             U == S \cup {x}
  <2>1. a \in Seq(U) /\ Len(a) = n + 1
    BY <1>3
  <2> HIDE DEF a, U
  <2>2. a \in [1..(n + 1) -> U]
    BY <2>1, LenProperties
  <2>3. a = [k \in 1..(n + 1) |-> a[k]]
    BY <2>2
  <2> QED
    BY <2>3 DEF a
<1>5. \A k \in 1..(n + 1) : h[k] = Append(g, x)[k]
  <2> TAKE k \in 1..(n + 1)
  <2>1. k \in 1..n \/ k = n + 1
    BY LastOrBefore
  <2> QED
    BY <1>3, <2>1 DEF x
<1> QED
  BY <1>4, <1>5 DEF x

LEMMA ShownFilesLength ==
  ASSUME Inv
  PROVE  Len(ShownFiles) = file - 1 /\ Len(ShownFiles) \in Nat
<1>1. file - 1 \in Nat
  BY Numbers
<1> DEFINE n == file - 1
           S == {ShownFor(f) : f \in 1..n}
<1>2. ShownFiles \in [1..n -> S]
  BY DEF ShownFiles
<1> HIDE DEF n, S
<1>3. n \in Nat
  BY <1>1 DEF n
<1>4. Len(ShownFiles) = n
  BY <1>2, <1>3, SeqDef, LenProperties
<1> QED
  BY <1>3, <1>4 DEF n

LEMMA Finishes ==
  ASSUME Inv, Next, NextFile, file <= Len(args.files), phase # "crashed",
         ShownIn(output', file) \in Shows(args, File)
  PROVE  Promise!Finish
<1>1. args' = args /\ file' = file + 1 /\ phase' = "next file"
  BY FileAfter DEF NextFile
<1>2. /\ file - 1 \in Nat /\ file \in Nat /\ (file - 1) + 1 = file /\ file' - 1 = file
      /\ \A f \in 1..(file - 1) : f # file /\ f \in 1..file
      /\ file \in 1..file
  <2>1. \A n \in Nat : 1 <= n =>
          /\ n - 1 \in Nat /\ (n - 1) + 1 = n /\ (n + 1) - 1 = n /\ n \in 1..n
          /\ \A f \in 1..(n - 1) : f # n /\ f \in 1..n
    OBVIOUS
  <2>2. file \in Nat /\ 1 <= file
    BY Numbers
  <2> QED
    BY <1>1, <2>1, <2>2
<1>3. ShownFiles' = Append(ShownFiles, ShownIn(output', file))
  <2> DEFINE h == [f \in 1..file |-> ShownIn(output', f)]
             g == [f \in 1..(file - 1) |-> ShownIn(output, f)]
             S == {ShownIn(output, f) : f \in 1..(file - 1)}
             T == {ShownIn(output', f) : f \in 1..file}
  <2>1. \A f \in 1..(file - 1) : ShownIn(output', f) = ShownIn(output, f) /\ f \in 1..file
    BY <1>2, OthersShown
  <2>2. \A f \in 1..(file - 1) : h[f] = g[f]
    BY <2>1
  <2>3. h[file] = ShownIn(output', file)
    BY <1>2
  <2>4. g \in [1..(file - 1) -> S] /\ h \in [1..file -> T]
    OBVIOUS
  <2>5. ShownFiles' = h /\ ShownFiles = g
    BY <1>2 DEF ShownFiles, ShownFor
  <2> HIDE DEF h, g, S, T
  <2>6. \A n \in Nat : g \in [1..n -> S] /\ h \in [1..(n + 1) -> T]
                       /\ (\A f \in 1..n : h[f] = g[f]) => h = Append(g, h[n + 1])
    BY ONLY ShownOneMore
  <2>7. h = Append(g, h[file])
    BY <1>2, <2>2, <2>4, <2>6
  <2> QED
    BY <2>3, <2>5, <2>7
<1>4. Len(ShownFiles) = file - 1 /\ Len(args.files) \in Nat
  BY ShownFilesLength, Numbers
<1>5. Len(ShownFiles) + 1 = file /\ Len(ShownFiles) < Len(args.files)
  BY <1>2, <1>4
<1> QED
  BY <1>1, <1>3, <1>5 DEF Promise!Finish, Promise!Working, ShownFiles, File

LEMMA Dies ==
  ASSUME Inv, DeadlySoFar, file <= Len(args.files), phase # "crashed", phase' = "crashed",
         UNCHANGED <<args, file>>, ShownFiles' = ShownFiles
  PROVE  Promise!Die
<1>1. Len(ShownFiles) = file - 1 /\ Len(args.files) \in Nat /\ file \in Nat
  BY ShownFilesLength, Numbers
<1>2. Len(ShownFiles) + 1 = file /\ Len(ShownFiles) < Len(args.files)
  BY <1>1
<1>3. \E f \in 1..file : Deadly(args, Contents[args.files[f]])
  BY DEF DeadlySoFar
<1> QED
  BY <1>2, <1>3 DEF Promise!Die, Promise!Working, ShownFiles

LEMMA TreeAndMore ==
  ASSUME NEW x
  PROVE  /\ Append(<<>>, x) = <<x>>
         /\ Append(TreeShown, x) = TreeShown \o <<x>>
         /\ TreeShown \o <<>> = TreeShown
<1>1. TreeShown = <<>> \/ TreeShown = <<"tree">>
  BY DEF TreeShown
<1> QED
  BY <1>1

(* What is shown of a file at its end is what follows from the file.       *)
LEMMA EarlyEnd ==
  ASSUME Inv, BlameInv, ShowingInv, Unreadable \/ Lex \/ Parse, NextFile
  PROVE  ShownIn(output', file) \in Shows(args, File)
<1>1. /\ file <= Len(args.files) /\ phase \in {"next file", "parse"}
      /\ ShownIn(output, file) = <<>>
  BY DEF Unreadable, Lex, Parse, AtFile, ShowingInv
<1>2. File.lexer \in Nat /\ File.parser \in Nat
  BY <1>1, FileNumbers
<1>3. CASE Unreadable
  <2>1. Prints("system error", <<>>) /\ ~File.readable
    BY <1>3 DEF Unreadable
  <2>2. ShownIn(output', file) = <<"system error">>
    BY <1>1, <2>1, PrintsShown, TreeAndMore DEF Inv
  <2> QED
    BY <2>1, <2>2 DEF Shows
<1>4. CASE Lex
  <2>1. /\ File.readable /\ PrintAll(diags') /\ diags' = Errors(File.lexer, "lexer")
        /\ diags' # <<>>
    BY <1>4 DEF Lex, NewManager, NextFile, GoOn
  <2>2. File.lexer > 0
    <3>1. Errors(File.lexer, "lexer") # <<>>
      BY <2>1
    <3>2. File.lexer # 0
      BY ONLY <1>2, <3>1, ErrorsCounted
    <3> QED
      BY ONLY <1>2, <3>2
  <2>3. ShownIn(output', file) = <<"diagnostics">>
    BY <1>1, <2>1, PrintAllShown, TreeAndMore
  <2> QED
    BY <2>1, <2>2, <2>3 DEF Shows
<1>5. CASE Parse
  <2>1. /\ File.readable /\ File.lexer = 0 /\ PrintAll(diags') /\ diags = <<>>
        /\ diags' = <<>> \o Errors(File.parser, "parser")
        /\ File.tree = NoTree \/ diags' # <<>>
    BY <1>5 DEF Parse, AtFile, BlameInv, Inv, WithoutErrors, NextFile, GoOn
  <2>2. CASE diags' # <<>>
    <3>1. File.parser > 0
      <4>1. Errors(File.parser, "parser") # <<>>
        BY <1>2, <2>1, <2>2, ErrorsCounted
      <4>2. File.parser # 0
        BY ONLY <1>2, <4>1, ErrorsCounted
      <4> QED
        BY ONLY <1>2, <4>2
    <3>2. ShownIn(output', file) = <<"diagnostics">>
      BY <1>1, <2>1, <2>2, PrintAllShown, TreeAndMore
    <3> QED
      BY <2>1, <3>1, <3>2 DEF Shows
  <2>3. CASE diags' = <<>>
    <3>1. File.parser = 0 /\ File.tree = NoTree
      BY ZenonT(60), <1>2, <2>1, <2>3, ErrorsCounted
    <3>2. ShownIn(output', file) = <<>>
      BY <1>1, <2>1, <2>3, PrintAllShown
    <3>3. ~(File.lexer > 0) /\ ~(File.parser > 0)
      BY <2>1, <3>1
    <3> QED
      BY <2>1, <3>1, <3>2, <3>3 DEF Shows
  <2> QED
    BY <2>2, <2>3
<1> QED
  BY <1>3, <1>4, <1>5

(* The verdict, and then the module.                                       *)
LEMMA RejectedIsUntyped ==
  ASSUME HandOverInv, phase = "rejected", ~Untypable(program)
  PROVE  ~WellTyped(program)
<1>1. Verdict!VerdictInv /\ ~Here
  BY DEF HandOverInv, Here
<1>2. ~Verdict!WellTyped(program)
  BY <1>1 DEF Verdict!VerdictInv, Verdict!EndInv, Verdict!RejectInv
<1> QED
  BY <1>2, SameRules

LEMMA LateEnd ==
  ASSUME Inv, HandOverInv, BlameInv, ShowingInv, Reject \/ EndOfFile
  PROVE  ShownIn(output', file) \in Shows(args, File)
<1> DEFINE errors == <<"diagnostics">>
           module == IF args.emitLLVM THEN <<"module">> ELSE <<>>
<1>1. /\ phase \in {"rejected", "generated"} /\ ToTree(File) /\ program = File.tree
      /\ file <= Len(args.files) /\ ShownIn(output, file) = TreeShown
  BY AtWork DEF Reject, EndOfFile, ShowingInv
<1>2. Shows(args, File) =
        IF Untypable(program) THEN {TreeShown \o errors, TreeShown \o module}
        ELSE IF WellTyped(program) THEN {TreeShown \o module}
        ELSE {TreeShown \o errors}
  <2>1. File.lexer = 0 /\ File.parser = 0 /\ ~(0 > 0)
    BY <1>1 DEF ToTree
  <2>2. File.readable /\ File.tree # NoTree
    BY <1>1 DEF ToTree
  <2> QED
    BY <1>1, <2>1, <2>2 DEF Shows, TreeShown
<1>3. CASE Reject
  <2>1. PrintAll(diags) /\ diags # <<>> /\ phase = "rejected"
    BY <1>3 DEF Reject, BlameInv
  <2>2. ShownIn(output', file) = TreeShown \o errors
    BY <1>1, <2>1, PrintAllShown, TreeAndMore
  <2>3. Untypable(program) \/ ~WellTyped(program)
    BY <2>1, RejectedIsUntyped
  <2> QED
    BY <1>2, <2>2, <2>3
<1>4. CASE EndOfFile
  <2>1. ShownIn(output', file) = TreeShown \o module
    <3>1. CASE args.emitLLVM
      <4>1. Prints("module", <<>>)
        BY <1>4, <3>1 DEF EndOfFile
      <4>2. ShownIn(output', file) = Append(TreeShown, "module")
        BY <1>1, <4>1, PrintsShown DEF Inv
      <4> QED
        BY <3>1, <4>2, TreeAndMore
    <3>2. CASE ~args.emitLLVM
      <4>1. output' = output
        BY <1>4, <3>2 DEF EndOfFile
      <4> QED
        BY <1>1, <3>2, <4>1, TreeAndMore
    <3> QED
      BY <3>1, <3>2
  <2>2. Untypable(program) \/ WellTyped(program)
    BY <1>4 DEF EndOfFile, HandOverInv, HandedOver
  <2> QED
    BY <1>2, <2>1, <2>2
<1> QED
  BY <1>3, <1>4

LEMMA SameShown ==
  ASSUME Inv, Next, file' = file
  PROVE  ShownFiles' = ShownFiles
<1>1. \A f \in 1..(file - 1) : f # file
  <2>1. \A n \in Nat : \A f \in 1..(n - 1) : f # n
    OBVIOUS
  <2>2. file \in Nat
    BY Numbers
  <2> QED
    BY <2>1, <2>2
<1>2. \A f \in 1..(file - 1) : ShownIn(output', f) = ShownIn(output, f)
  BY <1>1, OthersShown
<1>3. /\ ShownFiles' = [f \in 1..(file - 1) |-> ShownIn(output', f)]
      /\ ShownFiles = [f \in 1..(file - 1) |-> ShownIn(output, f)]
  BY DEF ShownFiles, ShownFor
<1> QED
  BY <1>2, <1>3

LEMMA StepKeepsPromise ==
  ASSUME Inv, HandOverInv, BlameInv, ShowingInv, Next
  PROVE  [Promise!Next]_(Promise!vars)
<1>1. CASE NextFile /\ (Unreadable \/ Lex \/ Parse \/ Reject \/ EndOfFile)
  <2>1. ShownIn(output', file) \in Shows(args, File)
    BY <1>1, EarlyEnd, LateEnd
  <2>2. file <= Len(args.files) /\ phase # "crashed"
    BY <1>1 DEF Unreadable, Lex, Parse, Reject, EndOfFile, AtFile, Inv, InFile
  <2> QED
    BY <1>1, <2>1, <2>2, Finishes DEF Promise!Next
<1>2. CASE phase # "crashed" /\ phase' = "crashed"
  <2>1. DeadlySoFar
    BY <1>2, StepIsBlamed
  <2>2. args' = args /\ file' = file /\ ShownFiles' = ShownFiles
    BY <1>2, FileAfter, SameShown
  <2>3. file <= Len(args.files)
    <3>1. phase # "next file"
      BY <1>2 DEF Next, Unreadable, Lex, Parse, SkipPrint, PrettyPrint, PrintCrash, Analyse,
         Reject, Accept, Generate, EndOfFile, AtFile, NextFile, GoOn, Terminating, vars
    <3> QED
      BY <3>1 DEF Inv, InFile
  <2> QED
    BY <1>2, <2>1, <2>2, <2>3, Dies DEF Promise!Next
<1>3. CASE /\ ~(NextFile /\ (Unreadable \/ Lex \/ Parse \/ Reject \/ EndOfFile))
           /\ ~(phase # "crashed" /\ phase' = "crashed")
  <2>1. file' = file
    BY <1>3 DEF Next, Unreadable, Lex, Parse, SkipPrint, PrettyPrint, PrintCrash, Analyse,
       Reject, Accept, Generate, EndOfFile, AtFile, GoOn, StartAnalysis, StartGeneration,
       Terminating, vars, driver
  <2>2. phase = "crashed" => phase' = "crashed"
    BY DEF Next, Unreadable, Lex, Parse, SkipPrint, PrettyPrint, PrintCrash, Analyse,
       Reject, Accept, Generate, EndOfFile, AtFile, Terminating, vars
  <2>3. args' = args /\ ShownFiles' = ShownFiles
    BY <2>1, FileAfter, SameShown
  <2>4. (phase = "crashed")' = (phase = "crashed")
    BY <1>3, <2>2
  <2> QED
    BY <2>3, <2>4 DEF Promise!vars, ShownFiles
<1> QED
  BY <1>1, <1>2, <1>3

LEMMA BlameInit ==
  ASSUME Init
  PROVE  BlameInv
BY DEF Init, BlameInv

LEMMA StartsPromise ==
  ASSUME Init
  PROVE  Promise!Init
<1>1. args.files \in Seq(FileNames) /\ file = 1 /\ phase = "next file"
  BY CompilerAssumption DEF Init
<1>2. [f \in 1..(file - 1) |-> ShownFor(f)] = <<>>
  <2>1. 1..(1 - 1) = {}
    OBVIOUS
  <2>2. ShownFiles = [f \in {} |-> ShownFor(f)]
    BY <1>1, <2>1 DEF ShownFiles
  <2> QED
    BY <2>2 DEF ShownFiles
<1> QED
  BY <1>1, <1>2 DEF Promise!Init

LEMMA CompilerBlame == Spec => [](Inv /\ HandOverInv /\ BlameInv /\ ShowingInv)
<1>1. Init => BlameInv /\ ShowingInv
  BY BlameInit, ShowingInit
<1>2. Inv /\ HandOverInv /\ BlameInv /\ [Next]_vars => BlameInv'
  BY BlameNext
<1>3. Inv /\ ShowingInv /\ [Next]_vars => ShowingInv'
  BY ShowingNext
<1> QED
  BY <1>1, <1>2, <1>3, CompilerHandOverInv, PTL DEF Spec

(* The compiler does what Batch promises, but for the end of every         *)
(* compilation, which is for TLC: what is shown of a file follows from the *)
(* file and the options, whatever the files before it were, and the        *)
(* process only dies if it has come to a file that is deadly               *)
(* (src/chocopc.cpp:36-95).                                                *)
THEOREM CompilerKeepsPromise == Spec => Promise!Init /\ [][Promise!Next]_(Promise!vars)
<1>1. Init => Promise!Init
  BY StartsPromise
<1>2. Inv /\ HandOverInv /\ BlameInv /\ ShowingInv /\ [Next]_vars
        => [Promise!Next]_(Promise!vars)
  <2>1. ASSUME UNCHANGED vars
        PROVE  UNCHANGED Promise!vars
    <3>1. UNCHANGED <<args, file, output, phase>>
      BY <2>1 DEF vars, driver
    <3> QED
      BY <3>1 DEF Promise!vars, ShownFor
  <2> QED
    BY <2>1, StepKeepsPromise
<1> QED
  BY <1>1, <1>2, CompilerBlame, PTL DEF Spec
=============================================================================
