------------------------------ MODULE MCLexer ------------------------------
(***************************************************************************)
(* The lexer on every source buffer of a bounded length over alphabets     *)
(* that bring its branches together.                                       *)
(***************************************************************************)
EXTENDS LexerClaims

Texts(alphabet, maxLen) == UNION {[1..n -> alphabet] : n \in 0..maxLen}

(* Lines and blocks; two kinds of new lines; strings and NULs; operators,  *)
(* numbers and words; everything that runs to the end of the buffer.       *)
MCBuffers ==
  Texts({"i", "sp", "LF"}, 9)
    \cup Texts({"i", "sp", "LF", "CR", "#"}, 6)
    \cup Texts({"n", "7", "sp", "quote", "backslash", "LF", "NUL"}, 5)
    \cup Texts({"-", ">", "=", "/", "!", "plus", "0", "7", "8", "i", "n", "?"}, 4)
    \cup Texts({"i", "7", "sp", "LF", "#", "quote", "backslash"}, 5)

(* Two lines with the keyword.                                             *)
MCKeywordLines == Texts({"i", "n", "sp", "LF"}, 6)

(* Two lines without it.                                                   *)
MCLines == Texts({"i", "sp", "LF"}, 3)

(* The keyword `in`.                                                       *)
MCKeywords == {<<"i", "n">>}
============================================================================
