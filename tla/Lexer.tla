------------------------------- MODULE Lexer -------------------------------
(***************************************************************************)
(* chocopy::Lexer (include/lexer/Lexer.h, src/lexer/Lexer.cpp): one source *)
(* buffer is scanned from left to right into tokens.  Every iteration of a *)
(* loop of the code is one step; pc names the loop, ret the return address *)
(* of handleIndentation, which has two callers.                            *)
(***************************************************************************)
EXTENDS Integers, Sequences, FiniteSets

CONSTANTS
  Buffers,   \* the source files: sequences of characters
  Keywords,  \* the lexemes of the keyword table, over Letters
  IntMax     \* the largest std::int32_t

(* Characters that every branch of the lexer treats alike are represented  *)
(* by one of them: "sp" is a space or a tab, "i" any letter or '_', "n" a  *)
(* letter that may follow a backslash, "?" an unexpected character.        *)
Letters == {"i", "n"}
Digits == {"0", "7", "8"}
NewLines == {"LF", "CR"}
WordChars == Letters \cup Digits
Escapable == {"n", "quote", "backslash"}

(* The operators of one character, and those whose meaning depends on the  *)
(* next one: <<first, second, type if it follows, type if it does not>>.   *)
(* Where the short form is INVALID, the code calls expect, not match.      *)
OneCharOps ==
  {<<"plus", "PLUS">>, <<"star", "MULT">>, <<"percent", "MOD">>, <<"dot", "DOT">>,
   <<"lbrack", "OPENBRACK">>, <<"rbrack", "CLOSEBRACK">>, <<"comma", "COMMA">>,
   <<"colon", "COLON">>, <<"lparen", "OPENPAREN">>, <<"rparen", "CLOSEPAREN">>}

TwoCharOps ==
  {<<"-", ">", "RARROW", "MINUS">>, <<"=", "=", "EQUAL", "ASSIGN">>,
   <<"<", "=", "LESSEQ", "LESS">>, <<">", "=", "GREATEQ", "GREAT">>,
   <<"/", "/", "DIV", "INVALID">>, <<"!", "=", "NEQUAL", "INVALID">>}

Char ==
  WordChars \cup NewLines \cup {op[1] : op \in OneCharOps \cup TwoCharOps}
    \cup {"sp", "#", "quote", "backslash", "?", "NUL"}

ContentTypes ==
  {op[2] : op \in OneCharOps}
    \cup {op[3] : op \in TwoCharOps} \cup {op[4] : op \in TwoCharOps}
    \cup {"INTLIT", "ID", "KEYWORD", "STRING", "IDSTRING", "INVALID"}

TokenTypes == ContentTypes \cup {"NEWLINE", "INDENT", "DEDENT"}

DiagIDs == {"UnexpectedCharacter", "LeadingZeros", "IntegerOutOfRange",
            "InvalidEscapeCharacter", "UnterminatedString"}

ASSUME LexerAssumption ==
  /\ Buffers \subseteq Seq(Char)
  /\ Keywords \subseteq Seq(Letters)
  /\ IntMax \in Nat

VARIABLES
  buf,      \* the text between the first character and m_buffer_end
  start,    \* m_lexeme_start, as an offset into the buffer
  cur,      \* m_lexeme_start + m_lexeme_length
  tokens,   \* m_tokens: type and source range of each token
  diags,    \* the IDs reported to m_diag_manager
  levels,   \* m_indentation_levels, its top last
  blank,    \* m_is_blank_line
  level,    \* handleIndentation's local indentation_level
  strType,  \* scanString's local token_type
  ret,      \* where handleIndentation returns to
  pc

vars == <<buf, start, cur, tokens, diags, levels, blank, level, strType, ret, pc>>

----------------------------------------------------------------------------
(* The helpers of the class.                                               *)

End == Len(buf)

(* peek(n): the buffer is followed by a terminating NUL, which peek        *)
(* returns; beyond it peek returns an empty optional.                      *)
NoChar == "empty optional"

CharAt(i) ==
  CASE i < End -> buf[i + 1]
    [] i = End -> "NUL"
    [] OTHER   -> NoChar

Peek == CharAt(cur)

Match(chars) == Peek \in chars

(* match(), once the current character has been advanced over.             *)
FollowedBySecond(char) == CharAt(cur + 2) = char   \* mutant: looks one too far

FollowedBy(char) == CharAt(cur + 1) = char

(* advance() stays where it is when there is no character.                 *)
Advanced == IF Peek = NoChar THEN cur ELSE cur + 1

AtEndExactly == cur = End   \* mutant: == for >=

AtEnd == cur >= End

Top == levels[Len(levels)]

Lexeme == SubSeq(buf, start + 1, cur)

(* addToken, for a lexeme that ends before offset to, and the same reset   *)
(* of the lexeme without a token.                                          *)
AddTokenTooEarly(type, to) ==   \* mutant: the location starts one too early
  /\ tokens' = Append(tokens, [type |-> type, from |-> start - 1, to |-> to])
  /\ start' = to
  /\ cur' = to

AddToken(type, to) ==
  /\ tokens' = Append(tokens, [type |-> type, from |-> start, to |-> to])
  /\ start' = to
  /\ cur' = to

DropLexeme(to) ==
  /\ start' = to
  /\ cur' = to
  /\ UNCHANGED tokens

ReportLost(id) == diags' = diags   \* mutant: the diagnostic is not emitted

Report(id) == diags' = Append(diags, id)

(* to_integer(value, value_as_int, 10): fails on anything but a numeral in *)
(* the range of the result.                                                *)
DigitValue == [d \in Digits |-> CASE d = "0" -> 0 [] d = "7" -> 7 [] d = "8" -> 8]

NumeralValue(s) ==
  LET value[i \in 0..Len(s)] ==
        IF i = 0 THEN 0 ELSE 10 * value[i - 1] + DigitValue[s[i]]
  IN  value[Len(s)]

FitsInt32(s) ==
  /\ \A i \in 1..Len(s) : s[i] \in Digits
  /\ NumeralValue(s) <= IntMax

----------------------------------------------------------------------------
(* The constructor, and lex() calling handleIndentation for the first line.*)

Init ==
  /\ buf \in Buffers
  /\ start = 0 /\ cur = 0
  /\ tokens = <<>> /\ diags = <<>>
  /\ levels = <<0>>
  /\ blank = TRUE
  /\ level = 0
  /\ strType = "STRING"
  /\ ret = "top"
  /\ pc = "indent"

----------------------------------------------------------------------------
(* handleIndentation.                                                      *)

(* What a line that is not a logical one starts with.                      *)
BlankStartNoLF == {"#", "CR"}   \* mutant: the new line is forgotten

BlankStart == {"#"} \cup NewLines

(* indentation_level > m_indentation_levels.top()                          *)
DeeperOrEqual == cur - start >= Top   \* mutant: >= for >

Deeper == cur - start > Top

IndentWhitespace ==
  /\ pc = "indent"
  /\ Match({"sp"})
  /\ cur' = Advanced
  /\ UNCHANGED <<buf, start, tokens, diags, levels, blank, level, strType, ret, pc>>

(* A comment or a new line comes first: not a logical line.                *)
IndentBlankLine ==
  /\ pc = "indent"
  /\ Match(BlankStart)
  /\ pc' = ret
  /\ UNCHANGED <<buf, start, cur, tokens, diags, levels, blank, level, strType, ret>>

IndentDeeper ==
  /\ pc = "indent"
  /\ ~Match({"sp"} \cup BlankStart)
  /\ Deeper
  /\ blank' = FALSE
  /\ AddToken("INDENT", cur)
  /\ levels' = Append(levels, cur - start)
  /\ pc' = ret
  /\ UNCHANGED <<buf, diags, level, strType, ret>>

(* The lexeme is left as it is when the line is as deep as the last one.   *)
IndentNotDeeper ==
  /\ pc = "indent"
  /\ ~Match({"sp"} \cup BlankStart)
  /\ ~Deeper
  /\ blank' = FALSE
  /\ level' = cur - start
  /\ pc' = "dedent"
  /\ UNCHANGED <<buf, start, cur, tokens, diags, levels, strType, ret>>

DedentOnce ==   \* mutant: 'if' for 'while'
  /\ pc = "dedent"
  /\ level < Top
  /\ AddToken("DEDENT", cur)
  /\ levels' = SubSeq(levels, 1, Len(levels) - 1)
  /\ level' = 0
  /\ pc' = ret
  /\ UNCHANGED <<buf, diags, blank, strType, ret>>

Dedent ==
  /\ pc = "dedent"
  /\ level < Top
  /\ AddToken("DEDENT", cur)
  /\ levels' = SubSeq(levels, 1, Len(levels) - 1)
  /\ UNCHANGED <<buf, diags, blank, level, strType, ret, pc>>

DedentDone ==
  /\ pc = "dedent"
  /\ level >= Top
  /\ level' = 0
  /\ pc' = ret
  /\ UNCHANGED <<buf, start, cur, tokens, diags, levels, blank, strType, ret>>

----------------------------------------------------------------------------
(* The loop of lex(): *advance() and the switch on the character.          *)

ScanOneCharOp ==
  /\ pc = "top"
  /\ \E op \in OneCharOps : Peek = op[1] /\ AddToken(op[2], cur + 1)
  /\ pc' = "next"
  /\ UNCHANGED <<buf, diags, levels, blank, level, strType, ret>>

ScanTwoCharOp ==
  /\ pc = "top"
  /\ \E op \in TwoCharOps :
       /\ Peek = op[1]
       /\ IF FollowedBy(op[2])
          THEN AddToken(op[3], cur + 2) /\ UNCHANGED diags
          ELSE /\ AddToken(op[4], cur + 1)
               /\ IF op[4] = "INVALID" THEN Report("UnexpectedCharacter")
                                       ELSE UNCHANGED diags
  /\ pc' = "next"
  /\ UNCHANGED <<buf, levels, blank, level, strType, ret>>

(* handleNewLine, up to its call of handleIndentation.  A CR LF pair is    *)
(* one new line.                                                           *)
ScanNewLine ==
  /\ pc = "top"
  /\ Match(NewLines)
  /\ LET to == IF Match({"CR"}) /\ FollowedBy("LF") THEN cur + 2 ELSE cur + 1
     IN  IF blank THEN DropLexeme(to) ELSE AddToken("NEWLINE", to)
  /\ blank' = TRUE
  /\ ret' = "next"
  /\ pc' = "indent"
  /\ UNCHANGED <<buf, diags, levels, level, strType>>

ScanUnexpected ==
  /\ pc = "top"
  /\ Match({"?", "backslash"})
  /\ Report("UnexpectedCharacter")
  /\ AddToken("INVALID", cur + 1)
  /\ pc' = "next"
  /\ UNCHANGED <<buf, levels, blank, level, strType, ret>>

(* The characters that start a run: the run itself is scanned by the loop  *)
(* the character leads to.                                                 *)
RunOf ==
  {<<"#", "comment">>, <<"sp", "white">>}
    \cup {<<c, "word">> : c \in Letters} \cup {<<c, "number">> : c \in Digits}

EnterRun ==
  /\ pc = "top"
  /\ \E run \in RunOf : Peek = run[1] /\ pc' = run[2]
  /\ cur' = Advanced
  /\ UNCHANGED <<buf, start, tokens, diags, levels, blank, level, strType, ret>>

EnterString ==
  /\ pc = "top"
  /\ Match({"quote"})
  /\ cur' = Advanced
  /\ strType' = IF CharAt(cur + 1) \in Digits THEN "STRING" ELSE "IDSTRING"
  /\ pc' = "string"
  /\ UNCHANGED <<buf, start, tokens, diags, levels, blank, level, ret>>

(* A NUL, the terminating one or one in the file, ends the loop.           *)
ScanNul ==
  /\ pc = "top"
  /\ Match({"NUL"})
  /\ cur' = Advanced
  /\ pc' = "flush"
  /\ UNCHANGED <<buf, start, tokens, diags, levels, blank, level, strType, ret>>

(* if (is_at_end()) break; after the switch.                               *)
NextChar ==
  /\ pc = "next"
  /\ pc' = IF AtEnd THEN "flush" ELSE "top"
  /\ UNCHANGED <<buf, start, cur, tokens, diags, levels, blank, level, strType, ret>>

----------------------------------------------------------------------------
(* skipComment, skipWhitespace, scanNumber and scanIdOrKeyword: a loop     *)
(* that advances while the character belongs to the run, then what the     *)
(* method does with the lexeme.                                            *)

CommentEndNoNul == NewLines            \* mutant: runs on at the end of the file
CommentEndNoLF == {"CR", "NUL"}        \* mutant: swallows the new line

CommentEnd == NewLines \cup {"NUL"}

InRun(char) ==
  CASE pc = "comment" -> char \notin CommentEnd
    [] pc = "white"   -> char = "sp"
    [] pc = "number"  -> char \in Digits
    [] pc = "word"    -> char \in WordChars
    [] OTHER          -> FALSE

Run ==
  /\ pc \in {"comment", "white", "number", "word"}
  /\ InRun(Peek)
  /\ cur' = Advanced
  /\ UNCHANGED <<buf, start, tokens, diags, levels, blank, level, strType, ret, pc>>

EndSkip ==
  /\ pc \in {"comment", "white"}
  /\ ~InRun(Peek)
  /\ DropLexeme(cur)
  /\ pc' = "next"
  /\ UNCHANGED <<buf, diags, levels, blank, level, strType, ret>>

NumberErrors ==
  (IF Lexeme[1] = "0" /\ Len(Lexeme) > 1 THEN <<"LeadingZeros">> ELSE <<>>)
    \o (IF FitsInt32(Lexeme) THEN <<>> ELSE <<"IntegerOutOfRange">>)

EndNumber ==
  /\ pc = "number"
  /\ ~InRun(Peek)
  /\ diags' = diags \o NumberErrors
  /\ AddToken(IF NumberErrors = <<>> THEN "INTLIT" ELSE "INVALID", cur)
  /\ pc' = "next"
  /\ UNCHANGED <<buf, levels, blank, level, strType, ret>>

EndWord ==
  /\ pc = "word"
  /\ ~InRun(Peek)
  /\ AddToken(IF Lexeme \in Keywords THEN "KEYWORD" ELSE "ID", cur)
  /\ pc' = "next"
  /\ UNCHANGED <<buf, diags, levels, blank, level, strType, ret>>

----------------------------------------------------------------------------
(* scanString.                                                             *)

InStringOverLines == ~AtEnd /\ ~Match({"quote", "NUL"})   \* mutant: a string runs on over lines

InString == ~AtEnd /\ ~Match({"quote", "NUL"} \cup NewLines)

(* A string that is not a word can not name a type.                        *)
StringTypeForgets(char) ==   \* mutant: an invalid string turns valid again
  IF char \notin WordChars THEN "STRING" ELSE strType

StringTypeWith(char) ==
  IF strType # "INVALID" /\ char \notin WordChars THEN "STRING" ELSE strType

StringChar ==
  /\ pc = "string"
  /\ InString
  /\ ~Match({"backslash"})
  /\ strType' = StringTypeWith(Peek)
  /\ cur' = Advanced
  /\ UNCHANGED <<buf, start, tokens, diags, levels, blank, level, ret, pc>>

StringEscape ==
  /\ pc = "string"
  /\ InString
  /\ Match({"backslash"})
  /\ IF CharAt(cur + 1) \in Escapable
     THEN strType' = StringTypeWith(Peek) /\ UNCHANGED diags
     ELSE strType' = "INVALID" /\ Report("InvalidEscapeCharacter")
  /\ cur' = cur + 2
  /\ UNCHANGED <<buf, start, tokens, levels, blank, level, ret, pc>>

EndString ==
  /\ pc = "string"
  /\ ~InString
  /\ IF Match({"quote"}) THEN UNCHANGED diags ELSE Report("UnterminatedString")
  /\ AddToken(IF Match({"quote"}) THEN strType ELSE "INVALID", Advanced)
  /\ strType' = "STRING"
  /\ pc' = "next"
  /\ UNCHANGED <<buf, levels, blank, level, ret>>

----------------------------------------------------------------------------
(* The end of lex(): the blocks still open are closed.                     *)

Flush ==
  /\ pc = "flush"
  /\ Top > 0
  /\ AddToken("DEDENT", cur)
  /\ levels' = SubSeq(levels, 1, Len(levels) - 1)
  /\ UNCHANGED <<buf, diags, blank, level, strType, ret, pc>>

Return ==
  /\ pc = "flush"
  /\ Top = 0
  /\ pc' = "done"
  /\ UNCHANGED <<buf, start, cur, tokens, diags, levels, blank, level, strType, ret>>

Terminating == pc = "done" /\ UNCHANGED vars

HandleIndentation ==
  \/ IndentWhitespace \/ IndentBlankLine \/ IndentDeeper \/ IndentNotDeeper
  \/ Dedent \/ DedentDone

Switch ==
  \/ ScanOneCharOp \/ ScanTwoCharOp \/ ScanNewLine \/ ScanUnexpected
  \/ EnterRun \/ EnterString \/ ScanNul \/ NextChar

Scan ==
  \/ Run \/ EndSkip \/ EndNumber \/ EndWord
  \/ StringChar \/ StringEscape \/ EndString

Next == HandleIndentation \/ Switch \/ Scan \/ Flush \/ Return \/ Terminating

Spec == Init /\ [][Next]_vars

(* lex() is a sequential function: it takes its next step.                 *)
FairSpec == Spec /\ WF_vars(Next)
============================================================================
