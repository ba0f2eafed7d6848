-------------------------------- MODULE Batch --------------------------------
(***************************************************************************)
(* What the compiler promises of a command line: it deals with every file, *)
(* in order, shows for each what follows from that file and the options    *)
(* alone, whatever the files before it were, and does not die but of a file*)
(* that it has no answer for, one it has come to or left behind.           *)
(***************************************************************************)
EXTENDS Naturals, Sequences

CONSTANTS
  Files,
  Shows(_, _),    \* the possible sequences of outputs for a command line's file
  Deadly(_, _)    \* whether the file may kill the process

VARIABLES
  args,     \* the command line: its files and the options
  shown,    \* what has been shown for every file that is dealt with
  died

vars == <<args, shown, died>>

Init ==
  /\ args.files \in Seq(Files)
  /\ shown = <<>>
  /\ died = FALSE

Working == ~died /\ Len(shown) < Len(args.files)

Finish ==
  /\ Working
  /\ \E s \in Shows(args, args.files[Len(shown) + 1]) : shown' = Append(shown, s)
  /\ UNCHANGED <<args, died>>

Die ==
  /\ Working
  /\ \E f \in 1..(Len(shown) + 1) : Deadly(args, args.files[f])
  /\ died' = TRUE
  /\ UNCHANGED <<args, shown>>

Next == Finish \/ Die

Spec == Init /\ [][Next]_vars /\ WF_vars(Next)
============================================================================
