-------------------------- MODULE LexerProperties --------------------------
(***************************************************************************)
(* What Lexer.tla is checked and proved to do.                             *)
(***************************************************************************)
EXTENDS Lexer

(* The variables keep their C++ types: locations and lengths are naturals, *)
(* a token has one of the TokenTypes of the lexer.                         *)
TypeOK ==
  /\ buf \in Seq(Char)
  /\ start \in Nat /\ cur \in Nat
  /\ tokens \in Seq([type : TokenTypes, from : Nat, to : Nat])
  /\ diags \in Seq(DiagIDs)
  /\ levels \in Seq(Nat)
  /\ blank \in BOOLEAN
  /\ level \in Nat
  /\ strType \in {"STRING", "IDSTRING", "INVALID"}
  /\ ret \in {"top", "next"}
  /\ pc \in {"indent", "dedent", "top", "next", "comment", "white", "number",
             "word", "string", "flush", "done"}

(* Where the code writes *peek() or *advance(), the optional holds a       *)
(* character, and m_indentation_levels.top() is never asked of an empty    *)
(* stack: lex, scanNumber, scanIdOrKeyword and scanString rely on the      *)
(* character at m_buffer_end being a readable NUL that no loop runs past.  *)
NoEmptyDeref ==
  /\ pc \in {"top", "number", "word"} => Peek # NoChar
  /\ pc = "string" /\ InString =>
       Peek # NoChar /\ (Match({"backslash"}) => CharAt(cur + 1) # NoChar)
  /\ start <= cur /\ cur <= End + 1
  /\ Len(levels) > 0

----------------------------------------------------------------------------
(* The token stream.                                                       *)

Kind(type) ==
  CASE type \in TokenTypes \ ContentTypes -> type
    [] type = "INVALID"                   -> "INVALID"
    [] OTHER                              -> "WORD"

Phase ==
  CASE pc = "flush" -> "closing"
    [] pc = "done"  -> "closed"
    [] OTHER        -> "lines"

KindSeq == [i \in DOMAIN tokens |-> Kind(tokens[i].type)]

Contract ==
  INSTANCE TokenContract WITH
    kinds  <- KindSeq,
    depth  <- Len(levels) - 1,
    errors <- diags # <<>>,
    phase  <- Phase

(* The lexer implements the token contract: blocks balance and follow the  *)
(* stack of indentation levels, NEWLINE ends a line that has content,      *)
(* INDENT stands at the start of one, and every INVALID token has been     *)
(* reported before hadError() is asked.                                    *)
ContractSpec == Contract!Spec

(* So at every moment the stream is well formed: blocks balance, a NEWLINE *)
(* follows something on its line, blocks open at the start of a line, and  *)
(* an INVALID token has been reported.                                     *)
StreamOK == Contract!StreamOK

(* lex() returns for every source buffer: no loop of the lexer stops       *)
(* advancing.                                                              *)
Termination == <>(pc = "done")

----------------------------------------------------------------------------
(* The text and the tokens.                                                *)

IsContent(i) == tokens[i].type \in ContentTypes

(* The offsets the lexer has passed without making them part of a token.   *)
Skipped ==
  {p \in 0..(End - 1) :
     /\ p < start
     /\ \A i \in 1..Len(tokens) : p \notin tokens[i].from..(tokens[i].to - 1)}

SameLine(p, q) == \A r \in p..q : CharAt(r) \notin NewLines

InComment(p) ==
  \E q \in Skipped : q <= p /\ CharAt(q) = "#" /\ SameLine(q, p)

(* Nothing stands on the line of offset p before p.                        *)
BlankBefore(p) ==
  LET before == {i \in 1..Len(tokens) : tokens[i].to <= p}
  IN  \A i \in before : i + 1 \notin before => tokens[i].type = "NEWLINE"

(* Tokens are in the order of the text and do not overlap, and the text    *)
(* between them is white space, comments, and the new lines of lines with  *)
(* nothing on them: no character the parser should see is dropped when a   *)
(* lexeme is reset, and no NEWLINE is.  Up to the first NUL, everything    *)
(* has been looked at in the end.                                          *)
NothingLost ==
  /\ \A i \in 1..Len(tokens) :
       /\ tokens[i].from <= tokens[i].to /\ tokens[i].to <= start
       /\ i > 1 => tokens[i - 1].to <= tokens[i].from
  /\ \A p \in Skipped :
       \/ CharAt(p) \in {"sp", "NUL"}
       \/ InComment(p)
       \/ CharAt(p) \in NewLines /\ BlankBefore(p)
  /\ pc = "done" => \A p \in 0..(End - 1) :
                      cur <= p => \E q \in 0..p : CharAt(q) = "NUL"

(* The end of a line is not lost between two tokens of its content and of  *)
(* the next line's: whatever stands between them, a NEWLINE parts them.    *)
(* Only a string that lacks its closing quote, or that escapes the new     *)
(* line, takes the new line into its token; it is INVALID then, and the    *)
(* error has been reported, so that the joined lines never pass as valid.  *)
LinesAreKept ==
  \A i \in 1..(Len(tokens) - 1) :
    IsContent(i) /\ IsContent(i + 1) /\ ~SameLine(tokens[i].from, tokens[i + 1].from) =>
      /\ tokens[i].type = "INVALID"
      /\ \E d \in 1..Len(diags) : diags[d] \in {"UnterminatedString", "InvalidEscapeCharacter"}

(* A token never stops short: a number or a word ends where its characters *)
(* end, and an operator of one character is not the start of one of two.   *)
MaximalMunch ==
  \A i \in 1..Len(tokens) :
    LET first == CharAt(tokens[i].from)
        after == CharAt(tokens[i].to)
    IN  /\ tokens[i].type \in {"ID", "KEYWORD"} => after \notin WordChars
        /\ tokens[i].type = "INTLIT" => after \notin Digits
        /\ \A op \in TwoCharOps :
             first = op[1] /\ tokens[i].to = tokens[i].from + 1 => after # op[2]

(* The opening quote of a string token, after the leading white space it   *)
(* may have kept, and the characters between the quotes.                   *)
Opening(i) ==
  CHOOSE p \in tokens[i].from..(tokens[i].to - 1) :
    /\ CharAt(p) = "quote"
    /\ \A q \in tokens[i].from..(p - 1) : CharAt(q) = "sp"

Body(i) == (Opening(i) + 1)..(tokens[i].to - 2)

(* The backslashes right before offset p, inside token i.                  *)
Backslashes(i, p) ==
  {q \in Body(i) : q < p /\ \A r \in q..(p - 1) : CharAt(r) = "backslash"}

Escaped(i, p) == Cardinality(Backslashes(i, p)) % 2 = 1

(* A string that is accepted is one: it is closed by a quote that is not   *)
(* escaped, holds no other such quote and no new line, escapes only what   *)
(* may be escaped, and is an IDSTRING, which may name a type, just when it *)
(* has the form of a name.                                                 *)
StringsAreClosed ==
  \A i \in 1..Len(tokens) :
    tokens[i].type \in {"STRING", "IDSTRING"} =>
      /\ tokens[i].to - 1 > Opening(i)
      /\ CharAt(tokens[i].to - 1) = "quote"
      /\ ~Escaped(i, tokens[i].to - 1)
      /\ \A p \in Body(i) :
           IF Escaped(i, p) THEN CharAt(p) \in Escapable
                            ELSE CharAt(p) \notin NewLines \cup {"quote", "NUL"}
      /\ tokens[i].type = "IDSTRING" <=>
           /\ \A p \in Body(i) : CharAt(p) \in WordChars
           /\ CharAt(Opening(i) + 1) \notin Digits

----------------------------------------------------------------------------
(* Indentation, against its definition on the text.                        *)

(* The tokens that are the first content of their lines.                   *)
FirstOfLine ==
  {i \in 1..Len(tokens) : IsContent(i) /\ (i = 1 \/ ~IsContent(i - 1))}

(* The white space in front of token i's line.                             *)
LineStart(i) ==
  CHOOSE p \in 0..tokens[i].from :
    /\ p = 0 \/ CharAt(p - 1) \in NewLines
    /\ SameLine(p, tokens[i].from)

Indentation(i) ==
  CHOOSE n \in 0..End :
    /\ \A p \in LineStart(i)..(LineStart(i) + n - 1) : CharAt(p) = "sp"
    /\ CharAt(LineStart(i) + n) # "sp"

(* The indentations of the blocks that enclose line i: those of the lines  *)
(* since which no line has been less indented.                             *)
Enclosing(i) ==
  {Indentation(j) : j \in {j \in FirstOfLine : j <= i /\
      \A k \in FirstOfLine : k \in j..i => Indentation(k) >= Indentation(j)}} \ {0}

(* Every line that goes back in goes back to the indentation of an open    *)
(* block.                                                                  *)
ConsistentDedents ==
  \A i \in FirstOfLine : \A j \in FirstOfLine :
    j < i /\ (\A k \in FirstOfLine : k \notin (j + 1)..(i - 1)) =>
      \/ Indentation(i) > Indentation(j)
      \/ Indentation(i) \in Enclosing(j) \cup {0}

Depth(i) ==
  Cardinality({j \in 1..i : tokens[j].type = "INDENT"})
    - Cardinality({j \in 1..i : tokens[j].type = "DEDENT"})

(* In a file whose dedents are consistent, a line is as deep in INDENT and *)
(* DEDENT tokens as the blocks that enclose it in the text, whatever blank *)
(* lines, comments, white space and lexical errors come between.           *)
BlocksFollowIndentation ==
  pc = "done" /\ ConsistentDedents =>
    \A i \in FirstOfLine : Depth(i) = Cardinality(Enclosing(i))

(* Line j is the first, or more indented than the line before it.          *)
GoesIn(j) ==
  \A k \in FirstOfLine :
    k < j /\ (\A h \in FirstOfLine : h \notin (k + 1)..(j - 1)) =>
      Indentation(k) < Indentation(j)

(* The enclosing blocks of line i to which a line has gone in.             *)
Entered(i) ==
  {Indentation(j) : j \in {j \in FirstOfLine : j <= i /\ GoesIn(j) /\
      \A k \in FirstOfLine : k \in j..i => Indentation(k) >= Indentation(j)}} \ {0}

(* Whatever the dedents, also where a line goes back in to the indentation *)
(* of no open block: the line is at least as deep in INDENT and DEDENT     *)
(* tokens as the blocks it is in that a line has gone in to, and no deeper *)
(* than all that enclose it.  A dedent closes every block that is more     *)
(* indented than the line, and no block the line is still in.              *)
DepthIsBounded ==
  pc = "done" =>
    \A i \in FirstOfLine :
      /\ Cardinality(Entered(i)) <= Depth(i)
      /\ Depth(i) <= Cardinality(Enclosing(i))
============================================================================
