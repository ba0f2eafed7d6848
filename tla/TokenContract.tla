--------------------------- MODULE TokenContract ---------------------------
(***************************************************************************)
(* What the lexer promises to the parser about the token stream, whatever  *)
(* the source file: blocks are opened and closed in balance, layout tokens *)
(* stand at the start of a line, a line that has ended had something on    *)
(* it, and no INVALID token goes unreported.  Lexer.tla implements it.     *)
(***************************************************************************)
EXTENDS Integers, Sequences, FiniteSets

VARIABLES
  kinds,   \* the stream so far: the kind of each token, in order
  depth,   \* how many blocks are open
  errors,  \* whether DiagnosticsManager::hadError() holds
  phase    \* "lines", then "closing" once the input is used up, then "closed"

vars == <<kinds, depth, errors, phase>>

(* A content token is one a statement is made of; the rest is layout.      *)
Content == {"WORD", "INVALID"}
Kinds == Content \cup {"NEWLINE", "INDENT", "DEDENT"}

(* The kind of the last token; "NEWLINE" before the first one, because the *)
(* start of the file is the start of a line.                               *)
Last == IF kinds = <<>> THEN "NEWLINE" ELSE kinds[Len(kinds)]

TypeOK ==
  /\ kinds \in Seq(Kinds)
  /\ depth \in Nat
  /\ errors \in BOOLEAN
  /\ phase \in {"lines", "closing", "closed"}

Init ==
  /\ kinds = <<>>
  /\ depth = 0
  /\ errors = FALSE
  /\ phase = "lines"

Word ==
  /\ phase = "lines"
  /\ kinds' = Append(kinds, "WORD")
  /\ UNCHANGED <<depth, errors, phase>>

(* A diagnostic may precede the INVALID token it is about.                 *)
Report ==
  /\ phase = "lines"
  /\ errors' = TRUE
  /\ UNCHANGED <<kinds, depth, phase>>

Invalid ==
  /\ phase = "lines"
  /\ errors' = TRUE
  /\ kinds' = Append(kinds, "INVALID")
  /\ UNCHANGED <<depth, phase>>

EndLine ==
  /\ phase = "lines"
  /\ Last \in Content
  /\ kinds' = Append(kinds, "NEWLINE")
  /\ UNCHANGED <<depth, errors, phase>>

Open ==
  /\ phase = "lines"
  /\ Last = "NEWLINE"
  /\ kinds' = Append(kinds, "INDENT")
  /\ depth' = depth + 1
  /\ UNCHANGED <<errors, phase>>

Close ==
  /\ \/ phase = "lines" /\ Last \in {"NEWLINE", "DEDENT"}
     \/ phase = "closing"
  /\ depth > 0
  /\ kinds' = Append(kinds, "DEDENT")
  /\ depth' = depth - 1
  /\ UNCHANGED <<errors, phase>>

EndOfInput ==
  /\ phase = "lines"
  /\ phase' = "closing"
  /\ UNCHANGED <<kinds, depth, errors>>

Finish ==
  /\ phase = "closing"
  /\ depth = 0
  /\ phase' = "closed"
  /\ UNCHANGED <<kinds, depth, errors>>

Next ==
  \/ Word \/ Report \/ Invalid
  \/ EndLine \/ Open \/ Close
  \/ EndOfInput \/ Finish

Spec == Init /\ [][Next]_vars

----------------------------------------------------------------------------

(* The positions of the tokens of kind k.                                  *)
Positions(k) == {i \in 1..Len(kinds) : kinds[i] = k}

(* INDENT and DEDENT tokens balance once the stream is complete, and in    *)
(* the meantime differ by the blocks still open: Lexer::lex pops every     *)
(* level it has pushed.                                                    *)
BlocksBalanced ==
  /\ Cardinality(Positions("INDENT")) = Cardinality(Positions("DEDENT")) + depth
  /\ phase = "closed" =>
       Cardinality(Positions("INDENT")) = Cardinality(Positions("DEDENT"))

(* A NEWLINE always ends a line with something on it, so the parser never  *)
(* meets an empty statement: blank and comment lines give no NEWLINE.      *)
LinesHaveContent ==
  \A i \in Positions("NEWLINE") : i > 1 /\ kinds[i - 1] \in Content

(* A block is opened only at the start of a line, one level at a time.     *)
OpensAtLineStart ==
  \A i \in Positions("INDENT") : i = 1 \/ kinds[i - 1] = "NEWLINE"

(* An INVALID token never reaches the parser: hadError() stops the driver  *)
(* before.                                                                 *)
InvalidReported == Positions("INVALID") # {} => errors

StreamOK ==
  /\ BlocksBalanced
  /\ LinesHaveContent
  /\ OpensAtLineStart
  /\ InvalidReported
============================================================================
