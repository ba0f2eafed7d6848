---------------------------- MODULE LexerClaims ----------------------------
(***************************************************************************)
(* What comments and messages of the repository say of the lexer and the   *)
(* code does not do.                                                       *)
(***************************************************************************)
EXTENDS LexerProperties

(* "Indentation should only be handled for logical lines. A logical line   *)
(* is a line that does not solely consist of whitespace or a comment."     *)
(* (src/lexer/Lexer.cpp:332): an INDENT is followed by what it indents.    *)
(* White space before the end of the file is taken for a logical line.     *)
OnlyLogicalLinesIndent ==
  pc = "done" =>
    \A i \in 1..Len(tokens) :
      tokens[i].type = "INDENT" => i < Len(tokens) /\ IsContent(i + 1)

(* "Perform scanning for an identifier or keyword.", "Skip any whitespace  *)
(* characters." (include/lexer/Lexer.h:79, 73): a name or a keyword is     *)
(* made of word characters.  The white space of a line that is as indented *)
(* as the line before stays in the lexeme: `in` is no keyword there, and a *)
(* name is another name.                                                   *)
WordsHaveNoWhitespace ==
  \A i \in 1..Len(tokens) :
    tokens[i].type \in {"ID", "KEYWORD"} =>
      \A p \in tokens[i].from..(tokens[i].to - 1) : CharAt(p) \in WordChars
============================================================================
