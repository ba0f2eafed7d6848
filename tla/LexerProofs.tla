---------------------------- MODULE LexerProofs ----------------------------
(***************************************************************************)
(* The lexer keeps its type, never dereferences an empty optional,         *)
(* implements the token contract, divides the text into tokens without     *)
(* losing any of it or the end of a line, and nests blocks as the text     *)
(* does, whatever the source buffer.                                       *)
(***************************************************************************)
EXTENDS LexerProperties, SequenceTheorems, FiniteSetTheorems, TLAPS

(* The type of the last token; the start of the file starts a line.        *)
LastType == IF Len(tokens) = 0 THEN "NEWLINE" ELSE tokens[Len(tokens)].type

(* What the next character is not, where handleIndentation finds a logical *)
(* line.                                                                   *)
Layout == {"sp"} \cup BlankStart

(* The cursor stands at most on the terminating NUL wherever a character   *)
(* is dereferenced, and at most one past it elsewhere.                     *)
CursorInv ==
  /\ start <= cur /\ cur <= End + 1
  /\ pc \in {"indent", "dedent", "top", "comment", "white", "number", "word"} =>
       cur <= End

(* The stack of indentation levels starts with 0 and grows upwards.        *)
LevelsInv ==
  /\ Len(levels) > 0
  /\ levels[1] = 0
  /\ \A i \in 1..(Len(levels) - 1) : levels[i] < levels[i + 1]

(* How m_is_blank_line, the last token and the next character go together. *)
LineInv ==
  /\ blank /\ pc \notin {"flush", "done"} => LastType = "NEWLINE"
  /\ blank /\ pc \in {"top", "next"} => Peek \in BlankStart \cup {"NUL"}
  /\ ~blank /\ pc \in {"top", "next"} =>
       LastType \in ContentTypes \/ Peek \notin Layout
  /\ pc = "indent" => blank
  /\ pc = "dedent" =>
       ~blank /\ Peek \notin Layout /\ LastType \in {"NEWLINE", "DEDENT"}
  /\ pc \in {"number", "word", "string"} => ~blank
  /\ pc = "white" => ~blank /\ LastType \in ContentTypes
  /\ pc = "comment" => blank \/ LastType \in ContentTypes
  /\ pc = "string" /\ strType = "INVALID" => diags # <<>>

IInv == TypeOK /\ CursorInv /\ LevelsInv /\ LineInv

----------------------------------------------------------------------------
(* Characters.                                                             *)

LEMMA NoCharIsNone ==
  NoChar \notin Char \cup Letters \cup Digits \cup NewLines \cup {"sp", "#", "NUL"}
<1>1. \A op \in OneCharOps :
        op[1] \in {"plus", "star", "percent", "dot", "lbrack", "rbrack", "comma",
                   "colon", "lparen", "rparen"}
  BY DEF OneCharOps
<1>2. \A op \in TwoCharOps : op[1] \in {"-", "=", "<", ">", "/", "!"}
  BY DEF TwoCharOps
<1> QED
  BY <1>1, <1>2 DEF NoChar, Char, WordChars, Letters, Digits, NewLines

LEMMA OperatorChars ==
  /\ \A op \in OneCharOps : op[1] \notin {"NUL", NoChar}
  /\ \A op \in TwoCharOps : op[1] \notin {"NUL", NoChar} /\ op[2] \notin {"NUL", NoChar}
<1>1. \A op \in OneCharOps :
        op[1] \in {"plus", "star", "percent", "dot", "lbrack", "rbrack", "comma",
                   "colon", "lparen", "rparen"}
  BY DEF OneCharOps
<1>2. \A op \in TwoCharOps : op[1] \in {"-", "=", "<", ">", "/", "!"}
                             /\ op[2] \in {">", "=", "/"}
  BY DEF TwoCharOps
<1> QED
  BY <1>1, <1>2 DEF NoChar

LEMMA CharAtBounds ==
  ASSUME TypeOK, NEW i \in Nat
  PROVE  /\ CharAt(i) # NoChar <=> i <= End
         /\ CharAt(i) \notin {"NUL", NoChar} => i + 1 <= End
         /\ i = End => CharAt(i) = "NUL"
<1>1. buf \in Seq(Char) /\ End \in Nat
  BY LexerAssumption DEF TypeOK, End
<1>2. NoChar \notin Char /\ NoChar # "NUL"
  BY NoCharIsNone
<1>3. CASE i < End
  <2>1. buf[i + 1] \in Char
    BY <1>1, <1>3 DEF End
  <2> QED
    BY <1>1, <1>2, <1>3, <2>1 DEF CharAt
<1>4. CASE i = End
  BY <1>1, <1>2, <1>4 DEF CharAt
<1>5. CASE i > End
  <2>1. ~(i < End) /\ i # End
    BY <1>1, <1>5
  <2>2. CharAt(i) = NoChar
    BY <2>1 DEF CharAt
  <2> QED
    BY <2>1, <2>2, <1>1, <1>5
<1> QED
  BY <1>1, <1>3, <1>4, <1>5

----------------------------------------------------------------------------
(* Type correctness.                                                       *)

Tokens == [type : TokenTypes, from : Nat, to : Nat]

LEMMA AddTokenType ==
  ASSUME TypeOK, NEW type \in TokenTypes, NEW to \in Nat, AddToken(type, to)
  PROVE  tokens' \in Seq(Tokens) /\ start' \in Nat /\ cur' \in Nat
<1>1. [type |-> type, from |-> start, to |-> to] \in Tokens
  BY DEF TypeOK, Tokens
<1> QED
  BY <1>1 DEF TypeOK, AddToken, Tokens

LEMMA ReportType ==
  ASSUME TypeOK, NEW id \in DiagIDs, Report(id)
  PROVE  diags' \in Seq(DiagIDs)
BY DEF TypeOK, Report

LEMMA PopType ==
  ASSUME TypeOK, Len(levels) > 0, levels' = SubSeq(levels, 1, Len(levels) - 1)
  PROVE  levels' \in Seq(Nat) /\ Len(levels') = Len(levels) - 1
         /\ \A i \in 1..(Len(levels) - 1) : levels'[i] = levels[i]
<1>1. /\ Len(levels) - 1 \in Nat
      /\ \A i \in 1..(Len(levels) - 1) : levels[i] \in Nat
  BY DEF TypeOK
<1> DEFINE n == Len(levels) - 1
<1>2. n \in Int /\ \A i \in 1..n : levels[i] \in Nat
  BY <1>1
<1>3. /\ SubSeq(levels, 1, n) \in Seq(Nat)
      /\ Len(SubSeq(levels, 1, n)) = IF 1 <= n THEN n - 1 + 1 ELSE 0
      /\ \A i \in 1..(n - 1 + 1) : SubSeq(levels, 1, n)[i] = levels[1 + i - 1]
  <2> HIDE DEF n
  <2> QED
    BY <1>2, SubSeqProperties
<1>4. Len(SubSeq(levels, 1, n)) = n /\ \A i \in 1..n : SubSeq(levels, 1, n)[i] = levels[i]
  <2>1. n \in Nat
    BY <1>1
  <2> HIDE DEF n
  <2> QED
    BY <1>3, <2>1
<1> QED
  BY <1>3, <1>4

LEMMA NumberErrorsType == NumberErrors \in Seq(DiagIDs)
<1>1. /\ <<>> \in Seq(DiagIDs)
      /\ <<"LeadingZeros">> \in Seq(DiagIDs)
      /\ <<"IntegerOutOfRange">> \in Seq(DiagIDs)
  BY EmptySeq DEF DiagIDs
<1> QED
  BY <1>1, ConcatProperties DEF NumberErrors

LEMMA TypeInit == Init => TypeOK
<1> SUFFICES ASSUME Init
             PROVE  TypeOK
  OBVIOUS
<1>1. tokens \in Seq(Tokens) /\ diags \in Seq(DiagIDs)
  BY EmptySeq DEF Init
<1>2. levels \in Seq(Nat)
  BY DEF Init
<1> QED
  BY <1>1, <1>2, LexerAssumption DEF Init, TypeOK, Tokens

LEMMA TypeStep ==
  ASSUME TypeOK, Len(levels) > 0, start <= cur, [Next]_vars
  PROVE  TypeOK'
<1> USE DEF Advanced, DropLexeme
<1>a. /\ ContentTypes \cup {"NEWLINE", "INDENT", "DEDENT"} = TokenTypes
      /\ {"INTLIT", "ID", "KEYWORD", "STRING", "IDSTRING", "INVALID"} \subseteq ContentTypes
      /\ \A op \in OneCharOps : op[2] \in ContentTypes
      /\ \A op \in TwoCharOps : op[3] \in ContentTypes /\ op[4] \in ContentTypes
  BY DEF TokenTypes, ContentTypes
<1>b. cur \in Nat /\ start \in Nat /\ cur + 1 \in Nat /\ cur + 2 \in Nat
  BY DEF TypeOK
<1>1. CASE IndentWhitespace
  BY <1>1, <1>b DEF IndentWhitespace, TypeOK
<1>2. CASE IndentBlankLine
  BY <1>2 DEF IndentBlankLine, TypeOK
<1>3. CASE IndentDeeper
  <2>1. tokens' \in Seq(Tokens) /\ start' \in Nat /\ cur' \in Nat
    BY <1>3, <1>a, <1>b, AddTokenType DEF IndentDeeper
  <2>2. levels' \in Seq(Nat)
    <3>1. levels \in Seq(Nat) /\ levels[Len(levels)] \in Nat
      BY DEF TypeOK
    <3>2. cur - start \in Nat
      BY <1>3, <1>b, <3>1 DEF IndentDeeper, Deeper, Top
    <3> QED
      BY <1>3, <3>1, <3>2 DEF IndentDeeper
  <2> QED
    BY <1>3, <2>1, <2>2 DEF IndentDeeper, TypeOK, Tokens
<1>4. CASE IndentNotDeeper
  <2>1. cur - start \in Nat
    BY <1>b
  <2> QED
    BY <1>4, <2>1 DEF IndentNotDeeper, TypeOK
<1>5. CASE Dedent
  <2>1. tokens' \in Seq(Tokens) /\ start' \in Nat /\ cur' \in Nat
    BY <1>5, <1>a, <1>b, AddTokenType DEF Dedent
  <2> QED
    BY <1>5, <2>1, PopType DEF Dedent, TypeOK, Tokens
<1>6. CASE DedentDone
  BY <1>6 DEF DedentDone, TypeOK
<1>7. CASE ScanOneCharOp
  <2>1. tokens' \in Seq(Tokens) /\ start' \in Nat /\ cur' \in Nat
    BY <1>7, <1>a, <1>b, AddTokenType DEF ScanOneCharOp
  <2> QED
    BY <1>7, <2>1 DEF ScanOneCharOp, TypeOK, Tokens
<1>8. CASE ScanTwoCharOp
  <2>1. tokens' \in Seq(Tokens) /\ start' \in Nat /\ cur' \in Nat
    BY <1>8, <1>a, <1>b, AddTokenType DEF ScanTwoCharOp
  <2>2. diags' \in Seq(DiagIDs)
    BY <1>8, ReportType DEF ScanTwoCharOp, TypeOK, DiagIDs
  <2> QED
    BY <1>8, <2>1, <2>2 DEF ScanTwoCharOp, TypeOK, Tokens
<1>9. CASE ScanNewLine
  <2>1. tokens' \in Seq(Tokens) /\ start' \in Nat /\ cur' \in Nat
    BY <1>9, <1>a, <1>b, AddTokenType DEF ScanNewLine, TypeOK, Tokens
  <2> QED
    BY <1>9, <2>1 DEF ScanNewLine, TypeOK, Tokens
<1>10. CASE ScanUnexpected
  <2>1. tokens' \in Seq(Tokens) /\ start' \in Nat /\ cur' \in Nat
    BY <1>10, <1>a, <1>b, AddTokenType DEF ScanUnexpected
  <2>2. diags' \in Seq(DiagIDs)
    BY <1>10, ReportType DEF ScanUnexpected, DiagIDs
  <2> QED
    BY <1>10, <2>1, <2>2 DEF ScanUnexpected, TypeOK, Tokens
<1>11. CASE EnterRun
  <2>1. \A run \in RunOf : run[2] \in {"comment", "white", "number", "word"}
    BY DEF RunOf
  <2> QED
    BY <1>11, <1>b, <2>1 DEF EnterRun, TypeOK
<1>12. CASE EnterString
  BY <1>12, <1>b DEF EnterString, TypeOK
<1>13. CASE ScanNul
  BY <1>13, <1>b DEF ScanNul, TypeOK
<1>14. CASE NextChar
  BY <1>14 DEF NextChar, TypeOK
<1>15. CASE Run
  BY <1>15, <1>b DEF Run, TypeOK
<1>16. CASE EndSkip
  BY <1>16, <1>b DEF EndSkip, TypeOK
<1>17. CASE EndNumber
  <2>1. tokens' \in Seq(Tokens) /\ start' \in Nat /\ cur' \in Nat
    BY <1>17, <1>a, <1>b, AddTokenType DEF EndNumber
  <2>2. diags' \in Seq(DiagIDs)
    BY <1>17, NumberErrorsType, ConcatProperties DEF EndNumber, TypeOK
  <2> QED
    BY <1>17, <2>1, <2>2 DEF EndNumber, TypeOK, Tokens
<1>18. CASE EndWord
  <2>1. tokens' \in Seq(Tokens) /\ start' \in Nat /\ cur' \in Nat
    BY <1>18, <1>a, <1>b, AddTokenType DEF EndWord
  <2> QED
    BY <1>18, <2>1 DEF EndWord, TypeOK, Tokens
<1>19. CASE StringChar
  BY <1>19, <1>b DEF StringChar, StringTypeWith, TypeOK
<1>20. CASE StringEscape
  <2>1. diags' \in Seq(DiagIDs)
    BY <1>20, ReportType DEF StringEscape, TypeOK, DiagIDs
  <2> QED
    BY <1>20, <1>b, <2>1 DEF StringEscape, StringTypeWith, TypeOK
<1>21. CASE EndString
  <2>1. tokens' \in Seq(Tokens) /\ start' \in Nat /\ cur' \in Nat
    <3>1. (IF Match({"quote"}) THEN strType ELSE "INVALID") \in TokenTypes
      BY <1>a DEF TypeOK
    <3> QED
      BY <1>21, <1>b, <3>1, AddTokenType DEF EndString
  <2>2. diags' \in Seq(DiagIDs)
    BY <1>21, ReportType DEF EndString, TypeOK, DiagIDs
  <2> QED
    BY <1>21, <2>1, <2>2 DEF EndString, TypeOK, Tokens
<1>22. CASE Flush
  <2>1. tokens' \in Seq(Tokens) /\ start' \in Nat /\ cur' \in Nat
    BY <1>22, <1>a, <1>b, AddTokenType DEF Flush
  <2> QED
    BY <1>22, <2>1, PopType DEF Flush, TypeOK, Tokens
<1>23. CASE Return
  BY <1>23 DEF Return, TypeOK
<1>24. CASE UNCHANGED vars
  BY <1>24 DEF vars, TypeOK
<1> QED
  BY <1>1, <1>2, <1>3, <1>4, <1>5, <1>6, <1>7, <1>8, <1>9, <1>10, <1>11, <1>12,
     <1>13, <1>14, <1>15, <1>16, <1>17, <1>18, <1>19, <1>20, <1>21, <1>22, <1>23,
     <1>24 DEF Next, HandleIndentation, Switch, Scan, Terminating

----------------------------------------------------------------------------
(* The cursor.                                                             *)

LEMMA CursorStep ==
  ASSUME TypeOK, CursorInv, [Next]_vars
  PROVE  CursorInv'
<1>a. cur \in Nat /\ start \in Nat /\ End \in Nat /\ ret \in {"top", "next"}
  BY LexerAssumption DEF TypeOK, End
<1>b. End' = End
  BY DEF Next, HandleIndentation, Switch, Scan, Terminating, vars, End,
         IndentWhitespace, IndentBlankLine, IndentDeeper, IndentNotDeeper, Dedent,
         DedentDone, ScanOneCharOp, ScanTwoCharOp, ScanNewLine, ScanUnexpected,
         EnterRun, EnterString, ScanNul, NextChar, Run, EndSkip, EndNumber, EndWord,
         StringChar, StringEscape, EndString, Flush, Return
<1>c. /\ Peek # NoChar <=> cur <= End
      /\ Peek \notin {"NUL", NoChar} => cur + 1 <= End
      /\ CharAt(cur + 1) \notin {"NUL", NoChar} => cur + 2 <= End
  <2>1. cur + 1 \in Nat /\ cur + 1 + 1 = cur + 2
    BY <1>a
  <2> QED
    BY <1>a, <2>1, CharAtBounds DEF Peek
<1> USE <1>a, <1>b, <1>c DEF CursorInv, Advanced, AddToken, DropLexeme
<1>1. CASE IndentWhitespace
  BY <1>1, NoCharIsNone DEF IndentWhitespace, Match
<1>2. CASE IndentBlankLine
  BY <1>2 DEF IndentBlankLine
<1>3. CASE IndentDeeper
  BY <1>3 DEF IndentDeeper
<1>4. CASE IndentNotDeeper
  BY <1>4 DEF IndentNotDeeper
<1>5. CASE Dedent
  BY <1>5 DEF Dedent
<1>6. CASE DedentDone
  BY <1>6 DEF DedentDone
<1>7. CASE ScanOneCharOp
  BY <1>7, OperatorChars DEF ScanOneCharOp
<1>8. CASE ScanTwoCharOp
  BY <1>8, OperatorChars DEF ScanTwoCharOp, FollowedBy
<1>9. CASE ScanNewLine
  BY <1>9, NoCharIsNone DEF ScanNewLine, Match, NewLines, FollowedBy
<1>10. CASE ScanUnexpected
  BY <1>10 DEF ScanUnexpected, Match
<1>11. CASE EnterRun
  <2>1. \A run \in RunOf : run[1] \notin {"NUL", NoChar}
    BY NoCharIsNone DEF RunOf, Letters, Digits
  <2> QED
    BY <1>11, <2>1 DEF EnterRun
<1>12. CASE EnterString
  BY <1>12 DEF EnterString, Match
<1>13. CASE ScanNul
  BY <1>13 DEF ScanNul
<1>14. CASE NextChar
  BY <1>14 DEF NextChar, AtEnd
<1>15. CASE Run
  <2>1. InRun(Peek) => Peek # "NUL"
    BY DEF InRun, CommentEnd, Digits, WordChars, Letters
  <2> QED
    BY <1>15, <2>1 DEF Run
<1>16. CASE EndSkip
  BY <1>16 DEF EndSkip
<1>17. CASE EndNumber
  BY <1>17 DEF EndNumber
<1>18. CASE EndWord
  BY <1>18 DEF EndWord
<1>19. CASE StringChar
  BY <1>19 DEF StringChar, InString, AtEnd
<1>20. CASE StringEscape
  BY <1>20 DEF StringEscape, InString, AtEnd
<1>21. CASE EndString
  BY <1>21 DEF EndString
<1>22. CASE Flush
  BY <1>22 DEF Flush
<1>23. CASE Return
  BY <1>23 DEF Return
<1>24. CASE UNCHANGED vars
  BY <1>24 DEF vars
<1> QED
  BY <1>1, <1>2, <1>3, <1>4, <1>5, <1>6, <1>7, <1>8, <1>9, <1>10, <1>11, <1>12,
     <1>13, <1>14, <1>15, <1>16, <1>17, <1>18, <1>19, <1>20, <1>21, <1>22, <1>23,
     <1>24 DEF Next, HandleIndentation, Switch, Scan, Terminating

----------------------------------------------------------------------------
(* The stack of indentation levels.                                        *)

(* Only the actions that push or pop a level touch the stack.              *)
LEMMA LevelsSame ==
  ASSUME [Next]_vars, ~IndentDeeper, ~Dedent, ~Flush
  PROVE  levels' = levels
BY DEF Next, HandleIndentation, Switch, Scan, Terminating, vars, IndentWhitespace,
       IndentBlankLine, IndentNotDeeper, DedentDone, ScanOneCharOp, ScanTwoCharOp,
       ScanNewLine, ScanUnexpected, EnterRun, EnterString, ScanNul, NextChar, Run,
       EndSkip, EndNumber, EndWord, StringChar, StringEscape, EndString, Return

LEMMA TopPositive ==
  ASSUME TypeOK, LevelsInv
  PROVE  /\ Len(levels) \in Nat \ {0} /\ Top \in Nat
         /\ Top > 0 <=> Len(levels) > 1
<1>1. Len(levels) \in Nat \ {0} /\ \A i \in 1..Len(levels) : levels[i] \in Nat
  BY DEF TypeOK, LevelsInv
<1>2. CASE Len(levels) = 1
  BY <1>1, <1>2 DEF LevelsInv, Top
<1>3. CASE Len(levels) > 1
  <2>1. Len(levels) - 1 \in 1..(Len(levels) - 1) /\ Len(levels) - 1 + 1 = Len(levels)
    BY <1>1, <1>3
  <2>2. levels[Len(levels) - 1] < levels[Len(levels)]
    BY <2>1 DEF LevelsInv
  <2> QED
    BY <1>1, <1>3, <2>1, <2>2 DEF Top
<1>4. Len(levels) = 1 \/ Len(levels) > 1
  BY <1>1
<1> QED
  BY <1>2, <1>3, <1>4

LEMMA PopLevels ==
  ASSUME TypeOK, LevelsInv, Top > 0, levels' = SubSeq(levels, 1, Len(levels) - 1)
  PROVE  LevelsInv' /\ Len(levels') = Len(levels) - 1
<1>1. Len(levels) \in Nat /\ Len(levels) > 1
  BY TopPositive
<1>2. /\ levels' \in Seq(Nat) /\ Len(levels') = Len(levels) - 1
      /\ \A i \in 1..(Len(levels) - 1) : levels'[i] = levels[i]
  BY <1>1, PopType
<1>3. Len(levels') > 0 /\ levels'[1] = 0
  <2>1. 1 \in 1..(Len(levels) - 1)
    BY <1>1
  <2> QED
    BY <1>1, <1>2, <2>1 DEF LevelsInv
<1>4. ASSUME NEW i \in 1..(Len(levels') - 1)
      PROVE  levels'[i] < levels'[i + 1]
  <2>1. i \in 1..(Len(levels) - 1) /\ i + 1 \in 1..(Len(levels) - 1)
    BY <1>1, <1>2
  <2> QED
    BY <1>2, <2>1 DEF LevelsInv
<1> QED
  BY <1>2, <1>3, <1>4 DEF LevelsInv

LEMMA LevelsStep ==
  ASSUME TypeOK, CursorInv, LevelsInv, [Next]_vars
  PROVE  LevelsInv'
<1>a. Len(levels) \in Nat \ {0} /\ Top \in Nat
  BY TopPositive
<1>1. CASE IndentDeeper
  <2>1. cur - start \in Nat /\ cur - start > Top
    BY <1>1, <1>a DEF IndentDeeper, Deeper, TypeOK, CursorInv
  <2>2. levels' = Append(levels, cur - start)
    BY <1>1 DEF IndentDeeper
  <2> HIDE DEF Deeper
  <2>3. /\ Len(levels') = Len(levels) + 1
        /\ levels'[Len(levels) + 1] = cur - start
        /\ \A i \in 1..Len(levels) : levels'[i] = levels[i]
    BY <2>1, <2>2 DEF TypeOK
  <2>4. ASSUME NEW i \in 1..(Len(levels') - 1)
        PROVE  levels'[i] < levels'[i + 1]
    <3>1. CASE i = Len(levels)
      BY <1>a, <2>1, <2>3, <3>1 DEF Top
    <3>2. CASE i < Len(levels)
      BY <1>a, <2>3, <3>2 DEF LevelsInv
    <3> QED
      BY <1>a, <2>3, <3>1, <3>2
  <2> QED
    BY <1>a, <2>3, <2>4 DEF LevelsInv
<1>2. CASE Dedent
  BY <1>2, <1>a, PopLevels DEF Dedent, TypeOK
<1>3. CASE Flush
  BY <1>3, PopLevels DEF Flush
<1>4. CASE ~IndentDeeper /\ ~Dedent /\ ~Flush
  BY <1>4, LevelsSame DEF LevelsInv
<1> QED
  BY <1>1, <1>2, <1>3, <1>4

----------------------------------------------------------------------------
(* Lines.                                                                  *)

LEMMA LastAdded ==
  ASSUME TypeOK, NEW type \in TokenTypes, NEW to \in Nat, AddToken(type, to)
  PROVE  LastType' = type
<1>1. /\ Len(tokens) \in Nat
      /\ Len(tokens') = Len(tokens) + 1
      /\ tokens'[Len(tokens) + 1].type = type
  BY DEF TypeOK, AddToken
<1> QED
  BY <1>1 DEF LastType

LEMMA ReportedNotEmpty ==
  ASSUME TypeOK, NEW id, Report(id)
  PROVE  diags' # <<>>
<1>1. Len(diags) \in Nat
  BY DEF TypeOK
<1>2. Len(diags') = Len(diags) + 1
  BY <1>1 DEF Report
<1> QED
  BY <1>1, <1>2

LEMMA BufferSame ==
  ASSUME [Next]_vars
  PROVE  buf' = buf
BY DEF Next, HandleIndentation, Switch, Scan, Terminating, vars,
       IndentWhitespace, IndentBlankLine, IndentDeeper, IndentNotDeeper, Dedent,
       DedentDone, ScanOneCharOp, ScanTwoCharOp, ScanNewLine, ScanUnexpected,
       EnterRun, EnterString, ScanNul, NextChar, Run, EndSkip, EndNumber, EndWord,
       StringChar, StringEscape, EndString, Flush, Return

LEMMA OperatorsAreContent ==
  /\ \A op \in OneCharOps :
       op[1] \notin Layout \cup {"NUL"} /\ op[2] \in ContentTypes
  /\ \A op \in TwoCharOps :
       op[1] \notin Layout \cup {"NUL"} /\ op[3] \in ContentTypes /\ op[4] \in ContentTypes
<1>1. \A op \in OneCharOps :
        op[1] \in {"plus", "star", "percent", "dot", "lbrack", "rbrack", "comma",
                   "colon", "lparen", "rparen"}
  BY DEF OneCharOps
<1>2. \A op \in TwoCharOps : op[1] \in {"-", "=", "<", ">", "/", "!"}
  BY DEF TwoCharOps
<1> QED
  BY <1>1, <1>2 DEF Layout, BlankStart, NewLines, ContentTypes

LEMMA LayoutIsNoContent == ContentTypes \cap {"NEWLINE", "INDENT", "DEDENT"} = {}
<1>1. \A op \in OneCharOps : op[2] \notin {"NEWLINE", "INDENT", "DEDENT"}
  BY DEF OneCharOps
<1>2. \A op \in TwoCharOps : {op[3], op[4]} \cap {"NEWLINE", "INDENT", "DEDENT"} = {}
  BY DEF TwoCharOps
<1> QED
  BY <1>1, <1>2 DEF ContentTypes

LEMMA LineStep ==
  ASSUME TypeOK, LineInv, [Next]_vars
  PROVE  LineInv'
<1>a. /\ cur \in Nat /\ cur + 1 \in Nat /\ cur + 2 \in Nat
      /\ ret \in {"top", "next"} /\ blank \in BOOLEAN
  BY DEF TypeOK
<1>b. cur' = cur => Peek' = Peek
  BY BufferSame DEF Peek, CharAt, End
<1>c. tokens' = tokens => LastType' = LastType
  BY DEF LastType
<1>d. /\ ContentTypes \subseteq TokenTypes
      /\ {"NEWLINE", "INDENT", "DEDENT"} \subseteq TokenTypes
      /\ {"INTLIT", "ID", "KEYWORD", "STRING", "IDSTRING", "INVALID"} \subseteq ContentTypes
  BY DEF TokenTypes, ContentTypes
<1>e. Advanced \in Nat
  BY <1>a DEF Advanced
<1> USE DEF LineInv
<1>1. CASE IndentWhitespace
  BY <1>1, <1>c DEF IndentWhitespace
<1>2. CASE IndentBlankLine
  BY <1>2, <1>a, <1>b, <1>c DEF IndentBlankLine, Match
<1>3. CASE IndentDeeper
  <2>1. cur' = cur /\ Peek \notin Layout
    BY <1>3 DEF IndentDeeper, AddToken, Match, Layout
  <2> QED
    BY <1>3, <1>a, <1>b, <2>1 DEF IndentDeeper
<1>4. CASE IndentNotDeeper
  <2>1. Peek \notin Layout
    BY <1>4 DEF IndentNotDeeper, Match, Layout
  <2> QED
    BY <1>4, <1>b, <1>c, <2>1 DEF IndentNotDeeper
<1>5. CASE Dedent
  <2>1. LastType' = "DEDENT" /\ cur' = cur
    BY <1>5, <1>a, <1>d, LastAdded DEF Dedent, AddToken
  <2> QED
    BY <1>5, <1>b, <2>1 DEF Dedent
<1>6. CASE DedentDone
  BY <1>6, <1>a, <1>b, <1>c DEF DedentDone
<1>7. CASE ScanOneCharOp
  <2>1. LastType' \in ContentTypes
    BY <1>7, <1>a, <1>d, LastAdded, OperatorsAreContent DEF ScanOneCharOp
  <2>2. ~blank
    BY <1>7, OperatorsAreContent DEF ScanOneCharOp, Layout
  <2> QED
    BY <1>7, <2>1, <2>2 DEF ScanOneCharOp
<1>8. CASE ScanTwoCharOp
  <2>1. LastType' \in ContentTypes
    BY <1>8, <1>a, <1>d, LastAdded, OperatorsAreContent DEF ScanTwoCharOp
  <2>2. ~blank
    BY <1>8, OperatorsAreContent DEF ScanTwoCharOp, Layout
  <2> QED
    BY <1>8, <2>1, <2>2 DEF ScanTwoCharOp
<1>9. CASE ScanNewLine
  <2>1. LastType' = "NEWLINE"
    <3>1. CASE blank
      BY <1>9, <1>c, <3>1 DEF ScanNewLine, DropLexeme
    <3>2. CASE ~blank
      BY <1>9, <1>a, <1>d, <3>2, LastAdded DEF ScanNewLine
    <3> QED
      BY <3>1, <3>2
  <2> QED
    BY <1>9, <2>1 DEF ScanNewLine
<1>10. CASE ScanUnexpected
  <2>1. LastType' \in ContentTypes
    BY <1>10, <1>a, <1>d, LastAdded DEF ScanUnexpected
  <2>2. ~blank
    BY <1>10 DEF ScanUnexpected, Match, BlankStart, NewLines
  <2> QED
    BY <1>10, <2>1, <2>2 DEF ScanUnexpected
<1>11. CASE EnterRun
  <2>1. /\ pc' \in {"comment", "white", "number", "word"}
        /\ pc' \in {"comment", "white"} => Peek \in Layout
        /\ pc' # "comment" => Peek \notin BlankStart \cup {"NUL"}
    BY <1>11 DEF EnterRun, RunOf, Layout, BlankStart, NewLines, Letters, Digits
  <2> QED
    BY <1>11, <1>c, <2>1 DEF EnterRun
<1>12. CASE EnterString
  <2>1. ~blank
    BY <1>12 DEF EnterString, Match, BlankStart, NewLines
  <2> QED
    BY <1>12, <2>1 DEF EnterString
<1>13. CASE ScanNul
  BY <1>13 DEF ScanNul
<1>14. CASE NextChar
  BY <1>14, <1>b, <1>c DEF NextChar
<1>15. CASE Run
  BY <1>15, <1>c DEF Run
<1>16. CASE EndSkip
  <2>1. pc = "comment" => Peek \in BlankStart \cup {"NUL"}
    BY <1>16 DEF EndSkip, InRun, CommentEnd, BlankStart
  <2> QED
    BY <1>16, <1>b, <1>c, <2>1 DEF EndSkip, DropLexeme
<1>17. CASE EndNumber
  <2>1. LastType' \in ContentTypes
    BY <1>17, <1>a, <1>d, LastAdded DEF EndNumber
  <2> QED
    BY <1>17, <2>1 DEF EndNumber
<1>18. CASE EndWord
  <2>1. LastType' \in ContentTypes
    BY <1>18, <1>a, <1>d, LastAdded DEF EndWord
  <2> QED
    BY <1>18, <2>1 DEF EndWord
<1>19. CASE StringChar
  BY <1>19, <1>c DEF StringChar, StringTypeWith
<1>20. CASE StringEscape
  <2>1. strType' = "INVALID" => diags' # <<>>
    BY <1>20, ReportedNotEmpty DEF StringEscape, StringTypeWith
  <2> QED
    BY <1>20, <2>1 DEF StringEscape
<1>21. CASE EndString
  <2>1. LastType' \in ContentTypes
    <3>1. (IF Match({"quote"}) THEN strType ELSE "INVALID") \in ContentTypes
      BY <1>d DEF TypeOK
    <3> QED
      BY <1>21, <1>d, <1>e, <3>1, LastAdded DEF EndString
  <2> QED
    BY <1>21, <2>1 DEF EndString
<1>22. CASE Flush
  BY <1>22 DEF Flush
<1>23. CASE Return
  BY <1>23 DEF Return
<1>24. CASE UNCHANGED vars
  BY <1>24, <1>b, <1>c DEF vars
<1> QED
  BY <1>1, <1>2, <1>3, <1>4, <1>5, <1>6, <1>7, <1>8, <1>9, <1>10, <1>11, <1>12,
     <1>13, <1>14, <1>15, <1>16, <1>17, <1>18, <1>19, <1>20, <1>21, <1>22, <1>23,
     <1>24 DEF Next, HandleIndentation, Switch, Scan, Terminating

----------------------------------------------------------------------------
(* The invariant.                                                          *)

LEMMA InitIInv == Init => IInv
<1> SUFFICES ASSUME Init
             PROVE  IInv
  OBVIOUS
<1>1. TypeOK
  BY TypeInit
<1>2. CursorInv
  BY <1>1, LexerAssumption DEF Init, CursorInv, TypeOK, End
<1>3. LevelsInv
  BY DEF Init, LevelsInv
<1>4. LineInv
  <2>1. LastType = "NEWLINE"
    BY EmptySeq DEF Init, LastType
  <2> QED
    BY <2>1 DEF Init, LineInv
<1> QED
  BY <1>1, <1>2, <1>3, <1>4 DEF IInv

LEMMA NextIInv == IInv /\ [Next]_vars => IInv'
<1> SUFFICES ASSUME IInv, [Next]_vars
             PROVE  IInv'
  OBVIOUS
<1>1. TypeOK'
  BY TypeStep DEF IInv, LevelsInv, CursorInv
<1>2. CursorInv'
  BY CursorStep DEF IInv
<1>3. LevelsInv'
  BY LevelsStep DEF IInv
<1>4. LineInv'
  BY LineStep DEF IInv
<1> QED
  BY <1>1, <1>2, <1>3, <1>4 DEF IInv

THEOREM LexerInvariant == Spec => []IInv
BY InitIInv, NextIInv, PTL DEF Spec

(* The variables of the lexer keep their C++ types, whatever the buffer.   *)
THEOREM LexerTypeOK == Spec => []TypeOK
<1>1. IInv => TypeOK
  BY DEF IInv
<1> QED
  BY <1>1, LexerInvariant, PTL

(* No *peek() or *advance() meets an empty optional, the cursor never runs *)
(* past the terminating NUL's end, and the stack of indentation levels is  *)
(* never empty when its top is read, whatever the source buffer.           *)
THEOREM LexerNoEmptyDeref == Spec => []NoEmptyDeref
<1>1. IInv => NoEmptyDeref
  <2> SUFFICES ASSUME IInv
               PROVE  NoEmptyDeref
    OBVIOUS
  <2>1. cur \in Nat /\ cur + 1 \in Nat /\ End \in Nat
    BY LexerAssumption DEF IInv, TypeOK, End
  <2>2. /\ CharAt(cur) # NoChar <=> cur <= End
        /\ CharAt(cur + 1) # NoChar <=> cur + 1 <= End
    BY <2>1, CharAtBounds DEF IInv
  <2>3. pc \in {"top", "number", "word"} => Peek # NoChar
    BY <2>1, <2>2 DEF IInv, CursorInv, Peek
  <2>4. InString => Peek # NoChar /\ CharAt(cur + 1) # NoChar
    BY <2>1, <2>2 DEF InString, AtEnd, Peek
  <2> QED
    BY <2>3, <2>4 DEF NoEmptyDeref, IInv, CursorInv, LevelsInv
<1> QED
  BY <1>1, LexerInvariant, PTL

----------------------------------------------------------------------------
(* The refinement of the token contract.                                   *)

LEMMA KindType ==
  ASSUME NEW type \in TokenTypes
  PROVE  /\ Kind(type) \in {"WORD", "INVALID", "NEWLINE", "INDENT", "DEDENT"}
         /\ type \in {"NEWLINE", "INDENT", "DEDENT", "INVALID"} <=> Kind(type) = type
         /\ type \in ContentTypes <=> Kind(type) \in {"WORD", "INVALID"}
         /\ type \in ContentTypes /\ type # "INVALID" => Kind(type) = "WORD"
<1>1. \A op \in OneCharOps :
        op[2] \in {"PLUS", "MULT", "MOD", "DOT", "OPENBRACK", "CLOSEBRACK", "COMMA",
                   "COLON", "OPENPAREN", "CLOSEPAREN"}
  BY DEF OneCharOps
<1>2. \A op \in TwoCharOps :
        /\ op[3] \in {"RARROW", "EQUAL", "LESSEQ", "GREATEQ", "DIV", "NEQUAL"}
        /\ op[4] \in {"MINUS", "ASSIGN", "LESS", "GREAT", "INVALID"}
  BY DEF TwoCharOps
<1>3. /\ ContentTypes \cap {"NEWLINE", "INDENT", "DEDENT", "WORD"} = {}
      /\ "INVALID" \in ContentTypes
  BY <1>1, <1>2 DEF ContentTypes
<1>4. TokenTypes = ContentTypes \cup {"NEWLINE", "INDENT", "DEDENT"}
  BY DEF TokenTypes
<1>5. CASE type \in {"NEWLINE", "INDENT", "DEDENT"}
  BY <1>3, <1>4, <1>5 DEF Kind
<1>6. CASE type = "INVALID"
  BY <1>3, <1>4, <1>6 DEF Kind
<1>7. CASE type \notin {"NEWLINE", "INDENT", "DEDENT", "INVALID"}
  BY <1>3, <1>4, <1>7 DEF Kind
<1> QED
  BY <1>5, <1>6, <1>7

LEMMA KindsAppended ==
  ASSUME TypeOK, NEW type \in TokenTypes, NEW to \in Nat, AddToken(type, to)
  PROVE  KindSeq' = Append(KindSeq, Kind(type))
<1> DEFINE n == Len(tokens)
           K == {"WORD", "INVALID", "NEWLINE", "INDENT", "DEDENT"}
<1>0. tokens \in Seq(Tokens) /\ tokens' \in Seq(Tokens)
  BY AddTokenType DEF TypeOK, Tokens
<1>1. /\ n \in Nat /\ Len(tokens') = n + 1
      /\ DOMAIN tokens = 1..n /\ DOMAIN tokens' = 1..(n + 1)
      /\ tokens'[n + 1].type = type
      /\ \A i \in 1..n : tokens'[i] = tokens[i] /\ tokens[i].type \in TokenTypes
  <2>1. [type |-> type, from |-> start, to |-> to] \in Tokens
    BY DEF TypeOK, Tokens
  <2>2. /\ n \in Nat /\ DOMAIN tokens = 1..n
        /\ \A i \in 1..n : tokens[i].type \in TokenTypes
    <3>1. n \in Nat /\ DOMAIN tokens = 1..n
      BY <1>0, LenProperties
    <3>2. ASSUME NEW i \in 1..n
          PROVE  tokens[i].type \in TokenTypes
      <4>1. tokens[i] \in Tokens
        BY <1>0, <3>2, ElementOfSeq
      <4> QED
        BY <4>1 DEF Tokens
    <3> QED
      BY <3>1, <3>2
  <2>3. /\ Len(tokens') = n + 1 /\ DOMAIN tokens' = 1..(n + 1)
        /\ tokens'[n + 1] = [type |-> type, from |-> start, to |-> to]
        /\ \A i \in 1..n : tokens'[i] = tokens[i]
    BY <1>0, <2>1, AppendProperties, LenProperties DEF AddToken
  <2> QED
    BY <2>2, <2>3
<1>2. KindSeq = [i \in 1..n |-> Kind(tokens[i].type)] /\ KindSeq \in Seq(K) /\ Len(KindSeq) = n
  BY <1>1, KindType DEF KindSeq
<1>3. KindSeq' = [i \in 1..(n + 1) |-> Kind(tokens'[i].type)]
  BY <1>1 DEF KindSeq
<1>4. Kind(type) \in K
  BY KindType
<1>5. /\ Append(KindSeq, Kind(type)) \in Seq(K)
      /\ Len(Append(KindSeq, Kind(type))) = n + 1
      /\ Append(KindSeq, Kind(type))[n + 1] = Kind(type)
      /\ \A i \in 1..n : Append(KindSeq, Kind(type))[i] = KindSeq[i]
  <2> DEFINE k == Kind(type)
  <2>1. k \in K /\ KindSeq \in Seq(K) /\ Len(KindSeq) = n
    BY <1>2, <1>4
  <2> HIDE DEF n, K, k
  <2>2. /\ Append(KindSeq, k) \in Seq(K)
        /\ Len(Append(KindSeq, k)) = Len(KindSeq) + 1
        /\ \A i \in 1..Len(KindSeq) : Append(KindSeq, k)[i] = KindSeq[i]
        /\ Append(KindSeq, k)[Len(KindSeq) + 1] = k
    BY <2>1, AppendProperties
  <2> QED
    BY <2>1, <2>2 DEF k
<1> QED
  BY <1>1, <1>2, <1>3, <1>5

LEMMA ContractLast ==
  ASSUME TypeOK
  PROVE  Contract!Last = Kind(LastType)
<1>0. tokens \in Seq(Tokens)
  BY DEF TypeOK, Tokens
<1>1. /\ Len(tokens) \in Nat /\ DOMAIN tokens = 1..Len(tokens)
  BY <1>0, LenProperties
<1>2. CASE Len(tokens) = 0
  <2>1. KindSeq = <<>>
    BY <1>1, <1>2 DEF KindSeq
  <2>2. Kind("NEWLINE") = "NEWLINE"
    BY KindType DEF TokenTypes
  <2> QED
    BY <1>2, <2>1, <2>2 DEF Contract!Last, LastType
<1>3. CASE Len(tokens) > 0
  <2>1. KindSeq = [i \in 1..Len(tokens) |-> Kind(tokens[i].type)]
    BY <1>1 DEF KindSeq
  <2>2. Len(KindSeq) = Len(tokens) /\ KindSeq # <<>>
    BY <1>1, <1>3, <2>1
  <2>3. KindSeq[Len(KindSeq)] = Kind(tokens[Len(tokens)].type)
    BY <1>1, <1>3, <2>1, <2>2
  <2> QED
    BY <1>3, <2>2, <2>3 DEF Contract!Last, LastType
<1> QED
  BY <1>1, <1>2, <1>3

LEMMA KindsSame ==
  ASSUME tokens' = tokens
  PROVE  KindSeq' = KindSeq
BY DEF KindSeq

(* A token a statement is made of.                                         *)
LEMMA ContentStep ==
  ASSUME TypeOK, NEW type \in ContentTypes, NEW to \in Nat, AddToken(type, to),
         levels' = levels, Phase = "lines", Phase' = "lines",
         IF type = "INVALID" THEN diags' # <<>> ELSE diags' = diags
  PROVE  Contract!Next
<1>1. KindSeq' = Append(KindSeq, Kind(type))
  BY KindsAppended DEF TokenTypes
<1>2. CASE type = "INVALID"
  <2>1. Kind(type) = "INVALID"
    BY <1>2, KindType DEF TokenTypes
  <2>2. (diags # <<>>)' = TRUE
    BY <1>2
  <2>3. (Len(levels) - 1)' = Len(levels) - 1
    OBVIOUS
  <2>4. Contract!Invalid
    BY <1>1, <2>1, <2>2, <2>3 DEF Contract!Invalid
  <2> QED
    BY <2>4 DEF Contract!Next
<1>3. CASE type # "INVALID"
  <2>1. Kind(type) = "WORD"
    BY <1>3, KindType DEF TokenTypes
  <2>2. Contract!Word
    BY <1>1, <1>3, <2>1 DEF Contract!Word
  <2> QED
    BY <2>2 DEF Contract!Next
<1> QED
  BY <1>2, <1>3

(* A step that adds no token and leaves the stack alone.                   *)
LEMMA QuietStep ==
  ASSUME tokens' = tokens, levels' = levels, diags' = diags, Phase' = Phase
  PROVE  UNCHANGED Contract!vars
BY KindsSame DEF Contract!vars

LEMMA EndOfInputStep ==
  ASSUME tokens' = tokens, levels' = levels, diags' = diags,
         Phase = "lines", Phase' = "closing"
  PROVE  Contract!Next
<1>1. Contract!EndOfInput
  BY KindsSame DEF Contract!EndOfInput
<1> QED
  BY <1>1 DEF Contract!Next

LEMMA CloseStep ==
  ASSUME TypeOK, LevelsInv, Top > 0, AddToken("DEDENT", cur),
         levels' = SubSeq(levels, 1, Len(levels) - 1), diags' = diags,
         Phase' = Phase, Phase \in {"lines", "closing"},
         Phase = "lines" => LastType \in {"NEWLINE", "DEDENT"}
  PROVE  Contract!Next
<1>1. KindSeq' = Append(KindSeq, "DEDENT")
  <2>1. "DEDENT" \in TokenTypes /\ cur \in Nat
    BY DEF TokenTypes, TypeOK
  <2>2. Kind("DEDENT") = "DEDENT"
    BY <2>1, KindType
  <2> QED
    BY <2>1, <2>2, KindsAppended
<1>2. Len(levels) \in Nat /\ Len(levels) > 1 /\ Len(levels') = Len(levels) - 1
  BY TopPositive, PopLevels
<1>3. (Len(levels) - 1)' = Len(levels) - 1 - 1 /\ Len(levels) - 1 > 0
  BY <1>2
<1>4. LastType \in {"NEWLINE", "DEDENT"} => Contract!Last \in {"NEWLINE", "DEDENT"}
  BY ContractLast, KindType DEF TokenTypes
<1>5. Contract!Close
  BY <1>1, <1>3, <1>4 DEF Contract!Close
<1> QED
  BY <1>5 DEF Contract!Next

LEMMA ContractInit == Init => Contract!Init
<1> SUFFICES ASSUME Init
             PROVE  Contract!Init
  OBVIOUS
<1>1. KindSeq = <<>>
  BY DEF Init, KindSeq
<1>2. Phase = "lines" /\ Len(levels) - 1 = 0
  BY DEF Init, Phase
<1>3. (diags # <<>>) = FALSE
  BY DEF Init
<1> QED
  BY <1>1, <1>2, <1>3 DEF Contract!Init

LEMMA ContractNext ==
  ASSUME IInv, IInv', [Next]_vars
  PROVE  [Contract!Next]_(Contract!vars)
<1>a. /\ TypeOK /\ LevelsInv
      /\ cur \in Nat /\ cur + 1 \in Nat /\ cur + 2 \in Nat
      /\ ret \in {"top", "next"} /\ Advanced \in Nat
  BY DEF IInv, TypeOK, Advanced
<1>b. /\ {"INTLIT", "ID", "KEYWORD", "STRING", "IDSTRING", "INVALID"} \subseteq ContentTypes
      /\ ContentTypes \subseteq TokenTypes /\ {"INDENT", "NEWLINE"} \subseteq TokenTypes
  BY DEF ContentTypes, TokenTypes
<1>1. CASE IndentWhitespace
  BY <1>1, QuietStep DEF IndentWhitespace, Phase
<1>2. CASE IndentBlankLine
  BY <1>2, <1>a, QuietStep DEF IndentBlankLine, Phase
<1>3. CASE IndentDeeper
  <2>1. KindSeq' = Append(KindSeq, "INDENT")
    BY <1>3, <1>a, <1>b, KindsAppended, KindType DEF IndentDeeper
  <2>2. Contract!Last = "NEWLINE"
    BY <1>3, <1>a, <1>b, ContractLast, KindType DEF IndentDeeper, IInv, LineInv
  <2>3. (Len(levels) - 1)' = Len(levels) - 1 + 1
    <3>1. cur - start \in Nat
      BY <1>a DEF IInv, CursorInv, TypeOK
    <3>2. Len(levels') = Len(levels) + 1 /\ Len(levels) \in Nat
      BY <1>3, <1>a, <3>1 DEF IndentDeeper, TypeOK
    <3> QED
      BY <3>2
  <2>4. Phase = "lines" /\ Phase' = "lines" /\ diags' = diags
    BY <1>3, <1>a DEF IndentDeeper, Phase
  <2>5. Contract!Open
    BY <2>1, <2>2, <2>3, <2>4 DEF Contract!Open
  <2> QED
    BY <2>5 DEF Contract!Next
<1>4. CASE IndentNotDeeper
  BY <1>4, QuietStep DEF IndentNotDeeper, Phase
<1>5. CASE Dedent
  <2>1. Top > 0
    BY <1>5, <1>a, TopPositive DEF Dedent, TypeOK
  <2>2. Phase = "lines" /\ Phase' = "lines"
    BY <1>5 DEF Dedent, Phase
  <2> QED
    BY <1>5, <1>a, <2>1, <2>2, CloseStep DEF Dedent, IInv, LineInv
<1>6. CASE DedentDone
  BY <1>6, <1>a, QuietStep DEF DedentDone, Phase
<1>7. CASE ScanOneCharOp
  <2>1. Phase = "lines" /\ Phase' = "lines"
    BY <1>7 DEF ScanOneCharOp, Phase
  <2>2. PICK op \in OneCharOps : AddToken(op[2], cur + 1)
    BY <1>7 DEF ScanOneCharOp
  <2>3. op[2] \in ContentTypes /\ op[2] # "INVALID"
    BY <2>2, OperatorsAreContent DEF OneCharOps
  <2> QED
    BY <1>7, <1>a, <2>1, <2>2, <2>3, ContentStep DEF ScanOneCharOp
<1>8. CASE ScanTwoCharOp
  <2>1. Phase = "lines" /\ Phase' = "lines"
    BY <1>8 DEF ScanTwoCharOp, Phase
  <2>2. PICK op \in TwoCharOps :
          IF FollowedBy(op[2])
          THEN AddToken(op[3], cur + 2) /\ UNCHANGED diags
          ELSE /\ AddToken(op[4], cur + 1)
               /\ IF op[4] = "INVALID" THEN Report("UnexpectedCharacter")
                                       ELSE UNCHANGED diags
    BY <1>8 DEF ScanTwoCharOp
  <2>3. op[3] \in ContentTypes /\ op[4] \in ContentTypes /\ op[3] # "INVALID"
    BY <2>2, OperatorsAreContent DEF TwoCharOps
  <2>4. CASE FollowedBy(op[2])
    BY <1>8, <1>a, <2>1, <2>2, <2>3, <2>4, ContentStep DEF ScanTwoCharOp
  <2>5. CASE ~FollowedBy(op[2])
    <3>1. IF op[4] = "INVALID" THEN diags' # <<>> ELSE diags' = diags
      BY <1>a, <2>2, <2>5, ReportedNotEmpty
    <3> QED
      BY <1>8, <1>a, <2>1, <2>2, <2>3, <2>5, <3>1, ContentStep DEF ScanTwoCharOp
  <2> QED
    BY <2>4, <2>5
<1>9. CASE ScanNewLine
  <2>1. Phase = "lines" /\ Phase' = "lines"
    BY <1>9 DEF ScanNewLine, Phase
  <2>2. CASE blank
    BY <1>9, <2>1, <2>2, QuietStep DEF ScanNewLine, DropLexeme
  <2>3. CASE ~blank
    <3>1. LastType \in ContentTypes
      BY <1>9, <2>3 DEF ScanNewLine, Match, IInv, LineInv, Layout, BlankStart
    <3>2. Contract!Last \in {"WORD", "INVALID"}
      BY <1>a, <1>b, <3>1, ContractLast, KindType
    <3>3. KindSeq' = Append(KindSeq, "NEWLINE")
      BY <1>9, <1>a, <1>b, <2>3, KindsAppended, KindType DEF ScanNewLine
    <3>4. Contract!EndLine
      BY <1>9, <2>1, <3>2, <3>3 DEF ScanNewLine, Contract!EndLine, Contract!Content
    <3> QED
      BY <3>4 DEF Contract!Next
  <2> QED
    BY <2>2, <2>3
<1>10. CASE ScanUnexpected
  BY <1>10, <1>a, <1>b, ReportedNotEmpty, ContentStep DEF ScanUnexpected, Phase
<1>11. CASE EnterRun
  <2>1. Phase = "lines" /\ Phase' = "lines"
    BY <1>11 DEF EnterRun, RunOf, Phase
  <2> QED
    BY <1>11, <2>1, QuietStep DEF EnterRun
<1>12. CASE EnterString
  BY <1>12, QuietStep DEF EnterString, Phase
<1>13. CASE ScanNul
  BY <1>13, EndOfInputStep DEF ScanNul, Phase
<1>14. CASE NextChar
  <2>1. CASE AtEnd
    BY <1>14, <2>1, EndOfInputStep DEF NextChar, Phase
  <2>2. CASE ~AtEnd
    BY <1>14, <2>2, QuietStep DEF NextChar, Phase
  <2> QED
    BY <2>1, <2>2
<1>15. CASE Run
  BY <1>15, QuietStep DEF Run, Phase
<1>16. CASE EndSkip
  BY <1>16, QuietStep DEF EndSkip, DropLexeme, Phase
<1>17. CASE EndNumber
  <2>1. Phase = "lines" /\ Phase' = "lines"
    BY <1>17 DEF EndNumber, Phase
  <2>2. /\ diags \in Seq(DiagIDs) /\ NumberErrors \in Seq(DiagIDs)
        /\ diags' = diags \o NumberErrors
    BY <1>17, <1>a, NumberErrorsType DEF EndNumber, TypeOK
  <2>3. CASE NumberErrors = <<>>
    <3>1. diags' = diags
      BY <2>2, <2>3, ConcatEmptySeq
    <3> QED
      BY <1>17, <1>a, <1>b, <2>1, <2>3, <3>1, ContentStep DEF EndNumber
  <2>4. CASE NumberErrors # <<>>
    <3>1. diags' # <<>>
      BY <2>2, <2>4, ConcatEqualIffEmpty
    <3> QED
      BY <1>17, <1>a, <1>b, <2>1, <2>4, <3>1, ContentStep DEF EndNumber
  <2> QED
    BY <2>3, <2>4
<1>18. CASE EndWord
  BY <1>18, <1>a, <1>b, ContentStep DEF EndWord, Phase
<1>19. CASE StringChar
  BY <1>19, QuietStep DEF StringChar, Phase
<1>20. CASE StringEscape
  <2>1. Phase = "lines" /\ Phase' = "lines" /\ tokens' = tokens /\ levels' = levels
    BY <1>20 DEF StringEscape, Phase
  <2>2. CASE diags' = diags
    BY <2>1, <2>2, QuietStep
  <2>3. CASE diags' # diags
    <3>1. diags' # <<>>
      BY <1>20, <1>a, <2>3, ReportedNotEmpty DEF StringEscape
    <3>2. (diags # <<>>)' = TRUE
      BY <3>1
    <3>3. Contract!Report
      BY <2>1, <3>2, KindsSame DEF Contract!Report
    <3> QED
      BY <3>3 DEF Contract!Next
  <2> QED
    BY <2>2, <2>3
<1>21. CASE EndString
  <2>1. Phase = "lines" /\ Phase' = "lines"
    BY <1>21 DEF EndString, Phase
  <2>2. CASE Match({"quote"})
    <3>1. strType \in ContentTypes /\ (strType = "INVALID" => diags # <<>>)
      BY <1>21, <1>a, <1>b DEF EndString, TypeOK, IInv, LineInv
    <3> QED
      BY <1>21, <1>a, <2>1, <2>2, <3>1, ContentStep DEF EndString
  <2>3. CASE ~Match({"quote"})
    <3>1. diags' # <<>>
      BY <1>21, <1>a, <2>3, ReportedNotEmpty DEF EndString
    <3> QED
      BY <1>21, <1>a, <1>b, <2>1, <2>3, <3>1, ContentStep DEF EndString
  <2> QED
    BY <2>2, <2>3
<1>22. CASE Flush
  <2>1. Phase = "closing" /\ Phase' = "closing"
    BY <1>22 DEF Flush, Phase
  <2>2. /\ Top > 0 /\ AddToken("DEDENT", cur) /\ diags' = diags
        /\ levels' = SubSeq(levels, 1, Len(levels) - 1)
    BY <1>22 DEF Flush
  <2> QED
    BY <1>a, <2>1, <2>2, CloseStep
<1>23. CASE Return
  <2>1. Phase = "closing" /\ Phase' = "closed"
    BY <1>23 DEF Return, Phase
  <2>2. Len(levels) - 1 = 0
    <3>1. Top = 0
      BY <1>23 DEF Return
    <3>2. Top > 0 <=> Len(levels) > 1
      BY <1>a, TopPositive
    <3>3. Len(levels) \in Nat /\ Len(levels) # 0
      BY <1>a, TopPositive
    <3> QED
      BY <3>1, <3>2, <3>3
  <2>3. Contract!Finish
    BY <1>23, <2>1, <2>2, KindsSame DEF Return, Contract!Finish
  <2> QED
    BY <2>3 DEF Contract!Next
<1>24. CASE UNCHANGED vars
  BY <1>24, QuietStep DEF vars, Phase
<1> QED
  BY <1>1, <1>2, <1>3, <1>4, <1>5, <1>6, <1>7, <1>8, <1>9, <1>10, <1>11, <1>12,
     <1>13, <1>14, <1>15, <1>16, <1>17, <1>18, <1>19, <1>20, <1>21, <1>22, <1>23,
     <1>24 DEF Next, HandleIndentation, Switch, Scan, Terminating

(* The lexer implements the token contract, for every set of source        *)
(* buffers, every keyword table and every integer range.                   *)
THEOREM LexerImplementsContract == Spec => ContractSpec
<1>1. Init => Contract!Init
  BY ContractInit
<1>2. IInv /\ IInv' /\ [Next]_vars => [Contract!Next]_(Contract!vars)
  BY ContractNext
<1> QED
  BY <1>1, <1>2, LexerInvariant, PTL DEF Spec, ContractSpec, Contract!Spec

ContractTheorems ==
  INSTANCE TokenContractProofs WITH
    kinds  <- KindSeq,
    depth  <- Len(levels) - 1,
    errors <- diags # <<>>,
    phase  <- Phase

(* What the parser receives is a well formed stream: INDENT and DEDENT     *)
(* balance when lex() returns, a NEWLINE ends a line that has content, an  *)
(* INDENT follows a NEWLINE, and no INVALID token is unreported.           *)
THEOREM LexerStreamOK == Spec => []StreamOK
<1>1. Contract!Init => ContractTheorems!Init
  BY DEF Contract!Init, ContractTheorems!Init
<1>2. [Contract!Next]_(Contract!vars) => [ContractTheorems!Next]_(ContractTheorems!vars)
  BY DEF Contract!Next, ContractTheorems!Next, Contract!vars,
         ContractTheorems!vars, Contract!Word, ContractTheorems!Word,
         Contract!Report, ContractTheorems!Report, Contract!Invalid,
         ContractTheorems!Invalid, Contract!EndLine, ContractTheorems!EndLine,
         Contract!Open, ContractTheorems!Open, Contract!Close,
         ContractTheorems!Close, Contract!EndOfInput,
         ContractTheorems!EndOfInput, Contract!Finish,
         ContractTheorems!Finish, Contract!Last, ContractTheorems!Last,
         Contract!Content, ContractTheorems!Content
<1>3. ContractTheorems!StreamOK => Contract!StreamOK
  <2>1. \A k : ContractTheorems!Positions(k) = Contract!Positions(k)
    BY DEF ContractTheorems!Positions, Contract!Positions
  <2>2. ContractTheorems!BlocksBalanced => Contract!BlocksBalanced
    <3>1. /\ ContractTheorems!Positions("INDENT") = Contract!Positions("INDENT")
          /\ ContractTheorems!Positions("DEDENT") = Contract!Positions("DEDENT")
      BY <2>1
    <3>2. \A S : ContractTheorems!Cardinality(S) = Contract!Cardinality(S)
      BY DEF ContractTheorems!Cardinality, Contract!Cardinality
    <3> QED
      BY <3>1, <3>2, Zenon DEF ContractTheorems!BlocksBalanced, Contract!BlocksBalanced
  <2>3. ContractTheorems!LinesHaveContent => Contract!LinesHaveContent
    BY <2>1 DEF ContractTheorems!LinesHaveContent, Contract!LinesHaveContent,
                ContractTheorems!Content, Contract!Content
  <2>4. ContractTheorems!OpensAtLineStart => Contract!OpensAtLineStart
    BY <2>1 DEF ContractTheorems!OpensAtLineStart, Contract!OpensAtLineStart
  <2>5. ContractTheorems!InvalidReported => Contract!InvalidReported
    BY <2>1 DEF ContractTheorems!InvalidReported, Contract!InvalidReported
  <2> QED
    BY <2>2, <2>3, <2>4, <2>5 DEF ContractTheorems!StreamOK, Contract!StreamOK
<1> QED
  BY <1>1, <1>2, <1>3, LexerImplementsContract, ContractTheorems!ContractStreamOK, PTL
     DEF StreamOK, ContractSpec, Contract!Spec, ContractTheorems!Spec

----------------------------------------------------------------------------
(* The text and the tokens.  The character at offset i of the text s.      *)

TextAt(s, i) ==
  CASE i < Len(s) -> s[i + 1]
    [] i = Len(s) -> "NUL"
    [] OTHER      -> NoChar

Spaces(s, a, c) == \A p \in a..(c - 1) : TextAt(s, p) = "sp"

OpStart(char) == \E op \in TwoCharOps : op[1] = char

(* The backslashes right before offset p of the string opened at b.        *)
BackslashesIn(s, b, p) ==
  {q \in (b + 1)..(p - 1) : \A r \in q..(p - 1) : TextAt(s, r) = "backslash"}

EscapedIn(s, b, p) == Cardinality(BackslashesIn(s, b, p)) % 2 = 1

(* A string opened at b, of this type and without errors up to c, where    *)
(* the next character stands by itself.                                    *)
StringBody(s, b, c, type) ==
  /\ ~EscapedIn(s, b, c)
  /\ \A p \in (b + 1)..(c - 1) :
       IF EscapedIn(s, b, p) THEN TextAt(s, p) \in Escapable
                             ELSE TextAt(s, p) \notin NewLines \cup {"quote", "NUL"}
  /\ type = "IDSTRING" <=>
       /\ \A p \in (b + 1)..(c - 1) : TextAt(s, p) \in WordChars
       /\ TextAt(s, b + 1) \notin Digits

(* The lexeme up to c that is scanned at place, after leading white space, *)
(* from b on.                                                              *)
Content(s, place, type, b, c) ==
  /\ place = "comment" =>
       TextAt(s, b) = "#" /\ \A p \in b..(c - 1) : TextAt(s, p) \notin CommentEnd
  /\ place = "white" => Spaces(s, b, c)
  /\ place = "number" => TextAt(s, b) \in Digits
  /\ place = "word" => TextAt(s, b) \in Letters
  /\ place = "string" =>
       TextAt(s, b) = "quote" /\ (type # "INVALID" => StringBody(s, b, c, type))

LexemeInv ==
  /\ pc \in {"indent", "dedent", "top", "next"} => Spaces(buf, start, cur)
  /\ pc \in {"comment", "white", "number", "word", "string"} =>
       \E b \in start..(cur - 1) :
         Spaces(buf, start, b) /\ Content(buf, pc, strType, b, cur)
  /\ pc \in {"flush", "done"} =>
       /\ \A p \in start..(cur - 1) : TextAt(buf, p) \in {"sp", "NUL"}
       /\ cur >= End \/ (cur > 0 /\ TextAt(buf, cur - 1) = "NUL")

(* What is claimed of a single token t of the text s.                      *)
Munched(s, t) ==
  /\ t.type \in {"ID", "KEYWORD"} => TextAt(s, t.to) \notin WordChars
  /\ t.type = "INTLIT" => TextAt(s, t.to) \notin Digits
  /\ \A op \in TwoCharOps :
       TextAt(s, t.from) = op[1] /\ t.to = t.from + 1 => TextAt(s, t.to) # op[2]

StringClosed(s, t) ==
  t.type \in {"STRING", "IDSTRING"} =>
    \E b \in t.from..(t.to - 2) :
      /\ Spaces(s, t.from, b) /\ TextAt(s, b) = "quote"
      /\ TextAt(s, t.to - 1) = "quote"
      /\ StringBody(s, b, t.to - 1, t.type)

(* What may be skipped at offset p, from offset a on.                      *)
CommentIn(s, a, p) ==
  \E q \in a..p : TextAt(s, q) = "#" /\ \A r \in q..p : TextAt(s, r) \notin NewLines

Uncovered(ts, p) == \A i \in 1..Len(ts) : p \notin ts[i].from..(ts[i].to - 1)

(* The parts of NothingLost.                                               *)
Ordered ==
  \A i \in 1..Len(tokens) :
    /\ tokens[i].from <= tokens[i].to /\ tokens[i].to <= start
    /\ i > 1 => tokens[i - 1].to <= tokens[i].from

SkippedOK ==
  \A p \in Skipped :
    \/ CharAt(p) \in {"sp", "NUL"}
    \/ InComment(p)
    \/ CharAt(p) \in NewLines /\ BlankBefore(p)

TokensInv ==
  /\ Ordered /\ SkippedOK
  /\ \A i \in 1..Len(tokens) : Munched(buf, tokens[i]) /\ StringClosed(buf, tokens[i])

TInv == IInv /\ LexemeInv /\ TokensInv

LEMMA TextIs == \A i : CharAt(i) = TextAt(buf, i)
BY DEF CharAt, TextAt, End

LEMMA SpacesMore ==
  ASSUME NEW s, NEW a \in Nat, NEW c \in Nat, Spaces(s, a, c), TextAt(s, c) = "sp"
  PROVE  Spaces(s, a, c + 1)
BY DEF Spaces

LEMMA SpacesNone ==
  ASSUME NEW s, NEW a \in Nat, NEW c \in Nat, c <= a
  PROVE  Spaces(s, a, c)
BY DEF Spaces

LEMMA BackslashesFinite ==
  ASSUME NEW s, NEW b \in Nat, NEW p \in Nat
  PROVE  IsFiniteSet(BackslashesIn(s, b, p))
<1>1. BackslashesIn(s, b, p) \in SUBSET ((b + 1)..(p - 1))
  BY DEF BackslashesIn
<1>2. IsFiniteSet((b + 1)..(p - 1))
  <2>1. b + 1 \in Int /\ p - 1 \in Int
    OBVIOUS
  <2> QED
    BY ONLY <2>1, FS_Interval
<1> QED
  BY ONLY <1>1, <1>2, FS_Subset

(* No character of a string is escaped before one was scanned, and then    *)
(* the one after a backslash that is not escaped itself.                   *)
LEMMA EscapedFirst ==
  ASSUME NEW s, NEW b \in Nat
  PROVE  ~EscapedIn(s, b, b + 1)
<1>1. BackslashesIn(s, b, b + 1) = {}
  BY DEF BackslashesIn
<1>2. Cardinality(BackslashesIn(s, b, b + 1)) = 0
  BY <1>1, FS_EmptySet
<1> QED
  BY <1>2 DEF EscapedIn

LEMMA NextParity ==
  ASSUME NEW n \in Nat
  PROVE  (n + 1) % 2 = 1 <=> n % 2 # 1
OBVIOUS

LEMMA EscapedNext ==
  ASSUME NEW s, NEW b \in Nat, NEW p \in Nat, b < p
  PROVE  EscapedIn(s, b, p + 1) <=> TextAt(s, p) = "backslash" /\ ~EscapedIn(s, b, p)
<1> DEFINE before == BackslashesIn(s, b, p)
           after == BackslashesIn(s, b, p + 1)
<1>1. CASE TextAt(s, p) = "backslash"
  <2>1. after = before \cup {p} /\ p \notin before
    BY <1>1 DEF BackslashesIn
  <2>2. IsFiniteSet(before) /\ Cardinality(before) \in Nat
    BY BackslashesFinite, FS_CardinalityType
  <2> HIDE DEF before, after
  <2>3. Cardinality(after) = Cardinality(before) + 1
    BY <2>1, <2>2, FS_AddElement
  <2>4. Cardinality(after) % 2 = 1 <=> Cardinality(before) % 2 # 1
    BY ONLY <2>2, <2>3, NextParity
  <2> QED
    BY <1>1, <2>4 DEF EscapedIn, before, after
<1>2. CASE TextAt(s, p) # "backslash"
  <2>1. after = {}
    BY <1>2 DEF BackslashesIn
  <2>2. Cardinality(after) = 0
    BY <2>1, FS_EmptySet
  <2> QED
    BY <1>2, <2>2 DEF EscapedIn
<1> QED
  BY <1>1, <1>2

LEMMA BodyPlain ==
  ASSUME NEW s, NEW b \in Nat, NEW c \in Nat, b < c,
         NEW type \in {"STRING", "IDSTRING"}, StringBody(s, b, c, type),
         TextAt(s, c) \notin NewLines \cup {"quote", "backslash", "NUL"}
  PROVE  StringBody(s, b, c + 1, IF TextAt(s, c) \in WordChars THEN type ELSE "STRING")
<1>1. ~EscapedIn(s, b, c + 1) /\ ~EscapedIn(s, b, c)
  BY EscapedNext DEF StringBody
<1>2. \A p \in (b + 1)..c : p = c \/ p \in (b + 1)..(c - 1)
  OBVIOUS
<1>3. c + 1 - 1 = c /\ c \in (b + 1)..c /\ (b + 1)..(c - 1) \subseteq (b + 1)..c
  OBVIOUS
<1>4. \A p \in (b + 1)..c :
        IF EscapedIn(s, b, p) THEN TextAt(s, p) \in Escapable
                              ELSE TextAt(s, p) \notin NewLines \cup {"quote", "NUL"}
  BY <1>1, <1>2 DEF StringBody
<1>5. (\A p \in (b + 1)..c : TextAt(s, p) \in WordChars) <=>
        /\ \A p \in (b + 1)..(c - 1) : TextAt(s, p) \in WordChars
        /\ TextAt(s, c) \in WordChars
  BY <1>2, <1>3
<1> QED
  BY <1>1, <1>3, <1>4, <1>5 DEF StringBody

LEMMA BodyEscape ==
  ASSUME NEW s, NEW b \in Nat, NEW c \in Nat, b < c, NEW type, StringBody(s, b, c, type),
         TextAt(s, c) = "backslash", TextAt(s, c + 1) \in Escapable
  PROVE  StringBody(s, b, c + 2, "STRING")
<1>0. c + 1 \in Nat /\ b < c + 1 /\ (c + 1) + 1 = c + 2 /\ c + 2 - 1 = c + 1
      /\ c \in (b + 1)..(c + 1)
  OBVIOUS
<1>1. EscapedIn(s, b, c + 1) /\ ~EscapedIn(s, b, c)
  BY EscapedNext DEF StringBody
<1>2. ~EscapedIn(s, b, c + 2)
  BY <1>0, <1>1, EscapedNext
<1>3. \A p \in (b + 1)..(c + 1) : p = c \/ p = c + 1 \/ p \in (b + 1)..(c - 1)
  OBVIOUS
<1>4. \A p \in (b + 1)..(c + 1) :
        IF EscapedIn(s, b, p) THEN TextAt(s, p) \in Escapable
                              ELSE TextAt(s, p) \notin NewLines \cup {"quote", "NUL"}
  BY <1>1, <1>3 DEF StringBody, NewLines
<1>5. ~(\A p \in (b + 1)..(c + 1) : TextAt(s, p) \in WordChars)
  BY <1>0 DEF WordChars, Letters, Digits
<1> QED
  BY <1>0, <1>2, <1>4, <1>5 DEF StringBody

LEMMA BodyEmpty ==
  ASSUME NEW s, NEW b \in Nat
  PROVE  StringBody(s, b, b + 1,
                    IF TextAt(s, b + 1) \in Digits THEN "STRING" ELSE "IDSTRING")
<1>1. \A p \in (b + 1)..(b + 1 - 1) : FALSE
  OBVIOUS
<1> QED
  BY <1>1, EscapedFirst DEF StringBody

LEMMA LexemeInit == Init => LexemeInv
BY SpacesNone DEF Init, LexemeInv

(* A step that puts the lexeme back to nothing.                            *)
LEMMA LexemeEmpty ==
  ASSUME start' \in Nat, cur' = start', pc' \in {"indent", "dedent", "top", "next"}
  PROVE  LexemeInv'
<1>1. Spaces(buf', start', cur')
  BY SpacesNone
<1> QED
  BY <1>1 DEF LexemeInv

LEMMA LexemeSame ==
  ASSUME LexemeInv, [Next]_vars, start' = start, cur' = cur,
         pc \in {"indent", "dedent", "top", "next"},
         pc' \in {"indent", "dedent", "top", "next"}
  PROVE  LexemeInv'
BY BufferSame DEF LexemeInv

(* The run that the character at the cursor starts.                        *)
LEMMA LexemeEnter ==
  ASSUME start \in Nat, cur \in Nat, start <= cur, Spaces(buf, start, cur),
         start' = start, cur' = cur + 1, buf' = buf,
         pc' \in {"comment", "white", "number", "word", "string"},
         Content(buf, pc', strType', cur, cur + 1)
  PROVE  LexemeInv'
<1>1. cur \in start'..(cur' - 1)
  OBVIOUS
<1> QED
  BY <1>1 DEF LexemeInv

LEMMA ContentRun ==
  ASSUME NEW s, NEW type, NEW place \in {"comment", "white", "number", "word"},
         NEW b \in Nat, NEW c \in Nat, b < c, Content(s, place, type, b, c),
         place = "comment" => TextAt(s, c) \notin CommentEnd,
         place = "white" => TextAt(s, c) = "sp"
  PROVE  Content(s, place, type, b, c + 1)
<1>1. CASE place = "comment"
  <2>1. \A p \in b..(c + 1 - 1) : p = c \/ p \in b..(c - 1)
    OBVIOUS
  <2> QED
    BY <1>1, <2>1 DEF Content
<1>2. CASE place = "white"
  BY <1>2, SpacesMore DEF Content
<1>3. CASE place \in {"number", "word"}
  BY <1>3 DEF Content
<1> QED
  BY <1>1, <1>2, <1>3

LEMMA ContentFirst ==
  ASSUME NEW s, NEW type, NEW b \in Nat,
         NEW place \in {"comment", "white", "number", "word"},
         /\ place = "comment" => TextAt(s, b) = "#"
         /\ place = "white" => TextAt(s, b) = "sp"
         /\ place = "number" => TextAt(s, b) \in Digits
         /\ place = "word" => TextAt(s, b) \in Letters
  PROVE  Content(s, place, type, b, b + 1)
<1>1. \A p \in b..(b + 1 - 1) : p = b
  OBVIOUS
<1>2. "#" \notin CommentEnd
  BY DEF CommentEnd, NewLines
<1>3. CASE place = "comment"
  BY <1>1, <1>2, <1>3 DEF Content
<1>4. CASE place = "white"
  BY <1>1, <1>4 DEF Content, Spaces
<1>5. CASE place \in {"number", "word"}
  BY <1>5 DEF Content
<1> QED
  BY <1>3, <1>4, <1>5

LEMMA NulLast ==
  ASSUME NEW s, NEW a \in Nat, NEW c \in Nat, Spaces(s, a, c), TextAt(s, c) = "NUL",
         NEW d, d = c + 1
  PROVE  /\ \A p \in a..(d - 1) : TextAt(s, p) \in {"sp", "NUL"}
         /\ d > 0 /\ TextAt(s, d - 1) = "NUL"
<1>1. \A p \in a..(d - 1) : p = c \/ p \in a..(c - 1)
  OBVIOUS
<1>2. d - 1 = c /\ d > 0
  OBVIOUS
<1> QED
  BY <1>1, <1>2 DEF Spaces

LEMMA LexemeStep ==
  ASSUME IInv, LexemeInv, [Next]_vars
  PROVE  LexemeInv'
<1>a. /\ cur \in Nat /\ start \in Nat /\ End \in Nat /\ start <= cur
      /\ ret \in {"top", "next"} /\ cur + 1 \in Nat /\ cur + 2 \in Nat
      /\ strType \in {"STRING", "IDSTRING", "INVALID"}
  BY LexerAssumption DEF IInv, CursorInv, TypeOK, End
<1>b. Peek = TextAt(buf, cur) /\ \A c : FollowedBy(c) <=> TextAt(buf, cur + 1) = c
  BY TextIs DEF Peek, FollowedBy
<1>c. buf' = buf
  BY BufferSame
<1>d. Peek # NoChar => Advanced = cur + 1
  BY DEF Advanced
<1>1. CASE IndentWhitespace
  <2>1. Peek = "sp" /\ cur' = cur + 1
    BY <1>1, <1>d DEF IndentWhitespace, Match, NoChar
  <2>2. Spaces(buf, start, cur)
    BY <1>1 DEF IndentWhitespace, LexemeInv
  <2>3. Spaces(buf', start', cur')
    BY <1>1, <1>a, <1>b, <1>c, <2>1, <2>2, SpacesMore DEF IndentWhitespace
  <2> QED
    BY <1>1, <2>3 DEF IndentWhitespace, LexemeInv
<1>2. CASE IndentBlankLine \/ IndentNotDeeper \/ DedentDone
  BY <1>2, <1>a, LexemeSame DEF IndentBlankLine, IndentNotDeeper, DedentDone
<1>3. CASE IndentDeeper \/ Dedent
  BY <1>3, <1>a, LexemeEmpty DEF IndentDeeper, Dedent, AddToken
<1>4. CASE ScanOneCharOp
  BY <1>4, <1>a, LexemeEmpty DEF ScanOneCharOp, AddToken
<1>5. CASE ScanTwoCharOp
  BY <1>5, <1>a, LexemeEmpty DEF ScanTwoCharOp, AddToken
<1>6. CASE ScanNewLine
  BY <1>6, <1>a, LexemeEmpty DEF ScanNewLine, AddToken, DropLexeme
<1>7. CASE ScanUnexpected
  BY <1>7, <1>a, LexemeEmpty DEF ScanUnexpected, AddToken
<1>8. CASE EnterRun
  <2>1. Peek # NoChar
    BY <1>8, NoCharIsNone DEF EnterRun, RunOf
  <2>2. Spaces(buf, start, cur)
    BY <1>8 DEF EnterRun, LexemeInv
  <2>3. /\ pc' \in {"comment", "white", "number", "word"}
        /\ pc' = "comment" => Peek = "#"
        /\ pc' = "white" => Peek = "sp"
        /\ pc' = "number" => Peek \in Digits
        /\ pc' = "word" => Peek \in Letters
    BY <1>8 DEF EnterRun, RunOf
  <2>4. Content(buf, pc', strType', cur, cur + 1)
    BY <1>a, <1>b, <2>3, ContentFirst
  <2> QED
    BY <1>8, <1>a, <1>c, <1>d, <2>1, <2>2, <2>3, <2>4, LexemeEnter DEF EnterRun
<1>9. CASE EnterString
  <2>1. Peek = "quote" /\ cur' = cur + 1
    BY <1>9, <1>d DEF EnterString, Match, NoChar
  <2>2. Spaces(buf, start, cur)
    BY <1>9 DEF EnterString, LexemeInv
  <2>3. StringBody(buf, cur, cur + 1, strType')
    BY <1>9, <1>a, BodyEmpty, TextIs DEF EnterString
  <2>4. Content(buf, pc', strType', cur, cur + 1)
    BY <1>9, <1>b, <2>1, <2>3 DEF Content, EnterString
  <2> QED
    BY <1>9, <1>a, <1>c, <2>1, <2>2, <2>4, LexemeEnter DEF EnterString
<1>10. CASE ScanNul
  <2>1. Peek = "NUL" /\ cur' = cur + 1
    BY <1>10, <1>d DEF ScanNul, Match, NoChar
  <2>2. Spaces(buf, start, cur)
    BY <1>10 DEF ScanNul, LexemeInv
  <2>3. /\ \A p \in start..(cur' - 1) : TextAt(buf, p) \in {"sp", "NUL"}
        /\ cur' > 0 /\ TextAt(buf, cur' - 1) = "NUL"
    <3>1. start \in Nat /\ cur \in Nat /\ TextAt(buf, cur) = "NUL"
      BY <1>a, <1>b, <2>1
    <3> QED
      BY ONLY <2>1, <2>2, <3>1, NulLast, ZenonT(60)
  <2>4. start' = start
    BY <1>10 DEF ScanNul
  <2>5. /\ \A p \in start'..(cur' - 1) : TextAt(buf', p) \in {"sp", "NUL"}
        /\ cur' > 0 /\ TextAt(buf', cur' - 1) = "NUL"
    BY ONLY <1>c, <2>3, <2>4
  <2> QED
    BY <1>10, <2>5 DEF ScanNul, LexemeInv
<1>11. CASE NextChar
  <2>1. Spaces(buf, start, cur)
    BY <1>11 DEF NextChar, LexemeInv
  <2>2. CASE AtEnd
    <3>1. cur' >= End'
      BY <1>11, <1>c, <2>2 DEF NextChar, AtEnd, End
    <3> QED
      BY <1>11, <1>c, <2>1, <2>2, <3>1 DEF NextChar, LexemeInv, Spaces
  <2>3. CASE ~AtEnd
    BY <1>11, <2>3, LexemeSame DEF NextChar
  <2> QED
    BY <2>2, <2>3
<1>12. CASE Run
  <2>1. PICK b \in start..(cur - 1) : Spaces(buf, start, b) /\ Content(buf, pc, strType, b, cur)
    BY <1>12 DEF Run, LexemeInv
  <2>2. Peek # NoChar
    BY <1>12, CharAtBounds DEF Run, IInv, CursorInv, Peek, TypeOK
  <2>3. /\ pc = "comment" => Peek \notin CommentEnd
        /\ pc = "white" => Peek = "sp"
    BY <1>12 DEF Run, InRun
  <2>4. Content(buf, pc, strType, b, cur + 1)
    <3>1. b \in Nat /\ b < cur /\ pc \in {"comment", "white", "number", "word"}
      BY <1>12, <1>a, <2>1 DEF Run
    <3>2. /\ pc = "comment" => TextAt(buf, cur) \notin CommentEnd
          /\ pc = "white" => TextAt(buf, cur) = "sp"
      BY <1>b, <2>3
    <3>3. cur \in Nat /\ Content(buf, pc, strType, b, cur)
      BY <1>a, <2>1
    <3> QED
      BY ONLY <3>1, <3>2, <3>3, ContentRun
  <2>5. b \in start'..(cur' - 1)
    BY <1>12, <1>a, <1>d, <2>1, <2>2 DEF Run
  <2> QED
    BY <1>12, <1>c, <1>d, <2>1, <2>2, <2>4, <2>5 DEF Run, LexemeInv
<1>13. CASE EndSkip \/ EndNumber \/ EndWord
  BY <1>13, <1>a, LexemeEmpty DEF EndSkip, EndNumber, EndWord, AddToken, DropLexeme
<1>14. CASE StringChar
  <2>1. PICK b \in start..(cur - 1) : Spaces(buf, start, b) /\ Content(buf, pc, strType, b, cur)
    BY <1>14 DEF StringChar, LexemeInv
  <2>2. Peek # NoChar
    <3>1. cur <= End
      BY <1>14, <1>a DEF StringChar, InString, AtEnd
    <3> QED
      BY <1>a, <3>1, CharAtBounds DEF IInv, Peek
  <2>3. Peek \notin NewLines \cup {"quote", "backslash", "NUL"}
    BY <1>14 DEF StringChar, InString, Match
  <2>4. strType' # "INVALID" => StringBody(buf, b, cur + 1, strType')
    <3>1. SUFFICES ASSUME strType' # "INVALID"
                   PROVE  StringBody(buf, b, cur + 1, strType')
      OBVIOUS
    <3>2. strType \in {"STRING", "IDSTRING"}
      BY <1>14, <1>a, <3>1 DEF StringChar, StringTypeWith
    <3>3. StringBody(buf, b, cur, strType)
      BY <1>14, <2>1, <3>2 DEF StringChar, Content
    <3>4. strType' = IF TextAt(buf, cur) \in WordChars THEN strType ELSE "STRING"
      BY <1>14, <1>b, <3>2 DEF StringChar, StringTypeWith
    <3>5. b \in Nat /\ b < cur
      BY <1>a, <2>1
    <3> QED
      BY <1>a, <1>b, <2>3, <3>2, <3>3, <3>4, <3>5, BodyPlain
  <2>5. Content(buf, pc', strType', b, cur + 1)
    BY <1>14, <2>1, <2>4 DEF Content, StringChar
  <2>6. b \in start'..(cur' - 1) /\ cur' = cur + 1
    BY <1>14, <1>a, <1>d, <2>1, <2>2 DEF StringChar
  <2> QED
    BY <1>14, <1>c, <2>1, <2>5, <2>6 DEF StringChar, LexemeInv
<1>15. CASE StringEscape
  <2>1. PICK b \in start..(cur - 1) : Spaces(buf, start, b) /\ Content(buf, pc, strType, b, cur)
    BY <1>15 DEF StringEscape, LexemeInv
  <2>2. Peek = "backslash"
    BY <1>15 DEF StringEscape, Match
  <2>3. strType' # "INVALID" => StringBody(buf, b, cur + 2, strType')
    <3>1. SUFFICES ASSUME strType' # "INVALID"
                   PROVE  StringBody(buf, b, cur + 2, strType')
      OBVIOUS
    <3>2. CharAt(cur + 1) \in Escapable /\ strType # "INVALID" /\ strType' = "STRING"
      BY <1>15, <1>a, <2>2, <3>1
         DEF StringEscape, StringTypeWith, WordChars, Letters, Digits
    <3>3. StringBody(buf, b, cur, strType)
      BY <1>15, <2>1, <3>2 DEF StringEscape, Content
    <3>4. b \in Nat /\ b < cur
      BY <1>a, <2>1
    <3> QED
      BY <1>a, <1>b, <2>2, <3>2, <3>3, <3>4, BodyEscape, TextIs
  <2>4. Content(buf, pc', strType', b, cur + 2)
    BY <1>15, <2>1, <2>3 DEF Content, StringEscape
  <2>5. b \in start'..(cur' - 1) /\ cur' = cur + 2
    BY <1>15, <1>a, <2>1 DEF StringEscape
  <2> QED
    BY <1>15, <1>c, <2>1, <2>4, <2>5 DEF StringEscape, LexemeInv
<1>16. CASE EndString
  <2>1. Advanced \in Nat
    BY <1>a DEF Advanced
  <2> QED
    BY <1>16, <2>1, LexemeEmpty DEF EndString, AddToken
<1>17. CASE Flush
  <2>1. start' = cur' /\ cur' = cur
    BY <1>17 DEF Flush, AddToken
  <2>2. \A p \in start'..(cur' - 1) : FALSE
    BY <1>a, <2>1
  <2>3. cur' >= End' \/ (cur' > 0 /\ TextAt(buf', cur' - 1) = "NUL")
    BY <1>17, <1>c, <2>1 DEF Flush, LexemeInv, End
  <2> QED
    BY <1>17, <2>2, <2>3 DEF Flush, LexemeInv
<1>18. CASE Return
  BY <1>18, <1>c DEF Return, LexemeInv, End
<1>19. CASE UNCHANGED vars
  BY <1>19 DEF vars, LexemeInv, End
<1> QED
  BY <1>1, <1>2, <1>3, <1>4, <1>5, <1>6, <1>7, <1>8, <1>9, <1>10, <1>11, <1>12,
     <1>13, <1>14, <1>15, <1>16, <1>17, <1>18, <1>19
     DEF Next, HandleIndentation, Switch, Scan, Terminating

----------------------------------------------------------------------------
(* What a step makes of the lexeme: it goes on, it is skipped, or it is a  *)
(* token that ends where it should.                                        *)

Skippable(s, a, p) ==
  \/ TextAt(s, p) \in {"sp", "NUL"}
  \/ CommentIn(s, a, p)
  \/ TextAt(s, p) \in NewLines /\ LastType = "NEWLINE"

Adds(type, to) ==
  LET t == [type |-> type, from |-> start, to |-> to]
  IN  /\ type \in TokenTypes /\ to \in Nat /\ start <= to
      /\ AddToken(type, to)
      /\ Munched(buf, t) /\ StringClosed(buf, t)

Skips(to) ==
  /\ to \in Nat /\ start <= to
  /\ DropLexeme(to)
  /\ \A p \in start..(to - 1) : Skippable(buf, start, p)

PlainChars ==
  WordChars \cup NewLines \cup {"sp", "#", "quote", "backslash", "?", "NUL"}
    \cup {op[1] : op \in OneCharOps}

LEMMA PlainStarts == \A char \in PlainChars : ~OpStart(char)
<1>1. \A op \in OneCharOps :
        op[1] \in {"plus", "star", "percent", "dot", "lbrack", "rbrack", "comma",
                   "colon", "lparen", "rparen"}
  BY DEF OneCharOps
<1>2. \A op \in TwoCharOps : op[1] \in {"-", "=", "<", ">", "/", "!"}
  BY DEF TwoCharOps
<1> QED
  BY <1>1, <1>2 DEF PlainChars, OpStart, WordChars, NewLines, Letters, Digits

(* Operators that start alike are the same.                                *)
LEMMA OneOperator ==
  \A op1, op2 \in TwoCharOps : op1[1] = op2[1] => op1[2] = op2[2]
BY DEF TwoCharOps

(* A token that is not a number, a word or a string, and does not start an *)
(* operator of two characters.                                             *)
LEMMA PlainToken ==
  ASSUME start \in Nat, NEW to \in Nat, start <= to,
         NEW type \in TokenTypes, AddToken(type, to),
         type \notin {"ID", "KEYWORD", "INTLIT", "STRING", "IDSTRING"},
         to = start \/ TextAt(buf, start) \in PlainChars
  PROVE  Adds(type, to)
<1>1. to = start => to # start + 1
  OBVIOUS
<1> QED
  BY <1>1, PlainStarts DEF Adds, Munched, StringClosed, OpStart

LEMMA FirstChar ==
  ASSUME NEW s, NEW a \in Nat, NEW c \in Nat, a <= c, Spaces(s, a, c)
  PROVE  a = c \/ TextAt(s, a) = "sp"
<1>1. a = c \/ a \in a..(c - 1)
  OBVIOUS
<1> QED
  BY <1>1 DEF Spaces

LEMMA OperatorTypes ==
  /\ \A op \in OneCharOps :
       op[2] \in TokenTypes \ {"ID", "KEYWORD", "INTLIT", "STRING", "IDSTRING"}
  /\ \A op \in TwoCharOps :
       {op[3], op[4]} \subseteq TokenTypes \ {"ID", "KEYWORD", "INTLIT", "STRING", "IDSTRING"}
<1>1. \A op \in OneCharOps :
        /\ op[2] \in {"PLUS", "MULT", "MOD", "DOT", "OPENBRACK", "CLOSEBRACK", "COMMA",
                      "COLON", "OPENPAREN", "CLOSEPAREN"}
        /\ op[2] \in TokenTypes
  BY DEF OneCharOps, TokenTypes, ContentTypes
<1>2. \A op \in TwoCharOps :
        /\ {op[3], op[4]} \subseteq
              {"RARROW", "MINUS", "EQUAL", "ASSIGN", "LESSEQ", "LESS", "GREATEQ", "GREAT",
               "DIV", "INVALID", "NEQUAL"}
        /\ op[3] \in TokenTypes /\ op[4] \in TokenTypes
  BY DEF TwoCharOps, TokenTypes, ContentTypes
<1> QED
  BY <1>1, <1>2

LEMMA TwoCharToken ==
  ASSUME IInv, Spaces(buf, start, cur), NEW op \in TwoCharOps, Peek = op[1],
         IF FollowedBy(op[2]) THEN AddToken(op[3], cur + 2) ELSE AddToken(op[4], cur + 1)
  PROVE  \E type, to : Adds(type, to)
<1>a. cur \in Nat /\ start \in Nat /\ start <= cur
  BY DEF IInv, CursorInv, TypeOK
<1>b. Peek = TextAt(buf, cur) /\ (FollowedBy(op[2]) <=> TextAt(buf, cur + 1) = op[2])
  BY TextIs DEF Peek, FollowedBy
<1>c. start = cur \/ TextAt(buf, start) = "sp"
  BY <1>a, FirstChar
<1>d. cur + 2 \in Nat /\ start <= cur + 2 /\ cur + 1 \in Nat /\ start <= cur + 1
  BY <1>a
<1>e. /\ op[3] \in TokenTypes \ {"ID", "KEYWORD", "INTLIT", "STRING", "IDSTRING"}
      /\ op[4] \in TokenTypes \ {"ID", "KEYWORD", "INTLIT", "STRING", "IDSTRING"}
  BY OperatorTypes
<1>1. CASE TextAt(buf, start) = "sp"
  <2>1. TextAt(buf, start) \in PlainChars
    BY <1>1 DEF PlainChars
  <2> QED
    BY <1>a, <1>d, <1>e, <2>1, PlainToken
<1>2. CASE start = cur
  <2>1. CASE FollowedBy(op[2])
    <3>1. start + 1 # cur + 2
      BY <1>a, <1>2
    <3> QED
      BY <1>d, <1>e, <2>1, <3>1 DEF Adds, Munched, StringClosed
  <2>2. CASE ~FollowedBy(op[2])
    <3>1. \A o \in TwoCharOps : TextAt(buf, start) = o[1] => TextAt(buf, cur + 1) # o[2]
      BY <1>2, <1>b, <2>2, OneOperator
    <3> QED
      BY <1>d, <1>e, <2>2, <3>1 DEF Adds, Munched, StringClosed
  <2> QED
    BY <2>1, <2>2
<1> QED
  BY <1>c, <1>1, <1>2

(* The lexemes that end in a token or are skipped, loop by loop.           *)
LEMMA WordToken ==
  ASSUME IInv, LexemeInv, EndNumber \/ EndWord
  PROVE  \E type, to : Adds(type, to)
<1>a. cur \in Nat /\ start \in Nat /\ start <= cur
  BY DEF IInv, CursorInv, TypeOK
<1>b. Peek = TextAt(buf, cur)
  BY TextIs DEF Peek
<1>c. {"INTLIT", "INVALID", "KEYWORD", "ID"} \subseteq TokenTypes
  BY DEF TokenTypes, ContentTypes
<1>1. PICK b \in start..(cur - 1) : Spaces(buf, start, b) /\ Content(buf, pc, strType, b, cur)
  BY DEF EndNumber, EndWord, LexemeInv
<1>2. b \in Nat /\ start <= b
  BY <1>a, <1>1
<1>3. TextAt(buf, start) \in PlainChars
  <2>1. TextAt(buf, b) \in WordChars
    BY <1>1 DEF Content, EndNumber, EndWord, WordChars
  <2>2. start = b \/ TextAt(buf, start) = "sp"
    BY <1>1, <1>2, <1>a, FirstChar
  <2> QED
    BY <2>1, <2>2 DEF PlainChars
<1>4. \A op \in TwoCharOps : TextAt(buf, start) # op[1]
  BY <1>3, PlainStarts DEF OpStart
<1>5. CASE EndNumber
  <2>1. PICK type \in {"INTLIT", "INVALID"} : AddToken(type, cur)
    BY <1>5 DEF EndNumber
  <2>2. TextAt(buf, cur) \notin Digits
    BY <1>5, <1>b DEF EndNumber, InRun
  <2>3. Adds(type, cur)
    BY <1>a, <1>c, <1>4, <2>1, <2>2 DEF Adds, Munched, StringClosed
  <2> QED
    BY <2>3
<1>6. CASE EndWord
  <2>1. PICK type \in {"KEYWORD", "ID"} : AddToken(type, cur)
    BY <1>6 DEF EndWord
  <2>2. TextAt(buf, cur) \notin WordChars
    BY <1>6, <1>b DEF EndWord, InRun
  <2>3. Adds(type, cur)
    BY <1>a, <1>c, <1>4, <2>1, <2>2 DEF Adds, Munched, StringClosed
  <2> QED
    BY <2>3
<1> QED
  BY <1>5, <1>6

LEMMA StringToken ==
  ASSUME IInv, LexemeInv, EndString
  PROVE  \E type, to : Adds(type, to)
<1>a. /\ cur \in Nat /\ start \in Nat /\ start <= cur
      /\ strType \in {"STRING", "IDSTRING", "INVALID"}
  BY DEF IInv, CursorInv, TypeOK
<1>b. Peek = TextAt(buf, cur)
  BY TextIs DEF Peek
<1>c. {"INVALID", "STRING", "IDSTRING"} \subseteq TokenTypes
  BY DEF TokenTypes, ContentTypes
<1>1. PICK b \in start..(cur - 1) : Spaces(buf, start, b) /\ Content(buf, pc, strType, b, cur)
  BY DEF EndString, LexemeInv
<1>2. b \in Nat /\ start <= b /\ b < cur
  BY <1>a, <1>1
<1>3. TextAt(buf, b) = "quote" /\ (strType # "INVALID" => StringBody(buf, b, cur, strType))
  BY <1>1 DEF Content, EndString
<1>4. TextAt(buf, start) \in PlainChars
  <2>1. start = b \/ TextAt(buf, start) = "sp"
    BY <1>1, <1>2, <1>a, FirstChar
  <2> QED
    BY <1>3, <2>1 DEF PlainChars
<1>5. Advanced \in Nat /\ start <= Advanced
  BY <1>a DEF Advanced
<1>6. CASE Match({"quote"}) /\ strType # "INVALID"
  <2>1. TextAt(buf, cur) = "quote" /\ Advanced = cur + 1
    BY <1>6, <1>b DEF Match, Advanced, NoChar
  <2>2. AddToken(strType, cur + 1)
    BY <1>6, <2>1 DEF EndString
  <2> DEFINE t == [type |-> strType, from |-> start, to |-> cur + 1]
  <2>3. b \in t.from..(t.to - 2) /\ t.to - 1 = cur /\ cur + 1 \in Nat /\ start <= cur + 1
    BY <1>a, <1>2
  <2>4. StringClosed(buf, t)
    BY <1>1, <1>3, <1>6, <2>1, <2>3 DEF StringClosed
  <2>5. Munched(buf, t)
    BY <1>a, <1>4, <1>6, PlainStarts DEF Munched, OpStart
  <2>6. Adds(strType, cur + 1)
    BY <1>a, <1>c, <2>2, <2>3, <2>4, <2>5 DEF Adds
  <2> QED
    BY <2>6
<1>7. CASE ~(Match({"quote"}) /\ strType # "INVALID")
  <2>1. AddToken("INVALID", Advanced)
    BY <1>7 DEF EndString
  <2> QED
    BY <1>a, <1>c, <1>4, <1>5, <2>1, PlainToken
<1> QED
  BY <1>6, <1>7

LEMMA SkippedRun ==
  ASSUME IInv, LexemeInv, EndSkip
  PROVE  Skips(cur)
<1>a. cur \in Nat /\ start \in Nat /\ start <= cur
  BY DEF IInv, CursorInv, TypeOK
<1>1. PICK b \in start..(cur - 1) : Spaces(buf, start, b) /\ Content(buf, pc, strType, b, cur)
  BY DEF EndSkip, LexemeInv
<1>2. b \in Nat /\ start <= b /\ b < cur
  BY <1>a, <1>1
<1>3. ASSUME NEW p \in start..(cur - 1)
      PROVE  Skippable(buf, start, p)
  <2>1. CASE p < b
    <3>1. p \in start..(b - 1)
      BY <1>a, <1>2, <1>3, <2>1
    <3> QED
      BY <1>1, <3>1 DEF Spaces, Skippable
  <2>2. CASE b <= p
    <3>0. p \in b..(cur - 1) /\ b \in start..p /\ \A r \in b..p : r \in b..(cur - 1)
      BY <1>a, <1>2, <1>3, <2>2
    <3>1. CASE pc = "white"
      BY <1>1, <3>0, <3>1 DEF Content, Spaces, Skippable
    <3>2. CASE pc = "comment"
      <4>1. /\ TextAt(buf, b) = "#"
            /\ \A r \in b..p : TextAt(buf, r) \notin NewLines
        BY <1>1, <3>0, <3>2 DEF Content, CommentEnd
      <4> QED
        BY <3>0, <4>1 DEF CommentIn, Skippable
    <3> QED
      BY <3>1, <3>2 DEF EndSkip
  <2> QED
    BY <1>a, <1>2, <1>3, <2>1, <2>2
<1> QED
  BY <1>a, <1>3 DEF Skips, EndSkip

LEMMA NewLineSkipped ==
  ASSUME IInv, Spaces(buf, start, cur), ScanNewLine
  PROVE  (\E to : Skips(to)) \/ (\E type, to : Adds(type, to))
<1>a. cur \in Nat /\ start \in Nat /\ start <= cur
  BY DEF IInv, CursorInv, TypeOK
<1>b. /\ TextAt(buf, cur) \in NewLines
      /\ FollowedBy("LF") <=> TextAt(buf, cur + 1) = "LF"
  BY TextIs DEF ScanNewLine, Match, Peek, FollowedBy
<1> DEFINE to == IF Match({"CR"}) /\ FollowedBy("LF") THEN cur + 2 ELSE cur + 1
<1>1. /\ to \in Nat /\ start <= to /\ (to = cur + 1 \/ to = cur + 2)
      /\ to = cur + 2 => TextAt(buf, cur + 1) = "LF"
  BY <1>a, <1>b
<1>2. IF blank THEN DropLexeme(to) ELSE AddToken("NEWLINE", to)
  BY DEF ScanNewLine
<1> HIDE DEF to
<1>3. CASE blank
  <2>1. LastType = "NEWLINE"
    BY <1>3 DEF IInv, LineInv, ScanNewLine
  <2>2. ASSUME NEW p \in start..(to - 1)
        PROVE  Skippable(buf, start, p)
    <3>1. p \in start..(cur - 1) \/ p = cur \/ (p = cur + 1 /\ to = cur + 2)
      BY <1>a, <1>1, <2>2
    <3>2. TextAt(buf, p) = "sp" \/ TextAt(buf, p) \in NewLines
      BY <1>b, <1>1, <3>1 DEF Spaces, NewLines
    <3> QED
      BY <2>1, <3>2 DEF Skippable
  <2>3. Skips(to)
    BY <1>1, <1>2, <1>3, <2>2 DEF Skips
  <2> QED
    BY <2>3
<1>4. CASE ~blank
  <2>1. TextAt(buf, start) \in PlainChars
    BY <1>a, <1>b, FirstChar DEF PlainChars
  <2>2. Adds("NEWLINE", to)
    BY <1>a, <1>1, <1>2, <1>4, <2>1, PlainToken DEF TokenTypes
  <2> QED
    BY <2>2
<1> QED
  BY <1>3, <1>4

LEMMA StepAdds ==
  ASSUME IInv, LexemeInv, [Next]_vars
  PROVE  \/ start' = start /\ tokens' = tokens
         \/ \E to : Skips(to)
         \/ \E type, to : Adds(type, to)
<1>a. cur \in Nat /\ start \in Nat /\ start <= cur /\ cur + 1 \in Nat /\ start <= cur + 1
  BY DEF IInv, CursorInv, TypeOK
<1>b. Peek = TextAt(buf, cur)
  BY TextIs DEF Peek
<1>c. {"INDENT", "DEDENT", "INVALID"} \subseteq TokenTypes
  BY DEF TokenTypes, ContentTypes
<1>1. CASE IndentDeeper \/ Dedent \/ Flush
  <2>1. PICK type \in {"INDENT", "DEDENT"} : AddToken(type, cur)
    BY <1>1 DEF IndentDeeper, Dedent, Flush
  <2>2. start = cur \/ TextAt(buf, start) \in {"sp", "NUL"}
    <3>1. CASE pc = "flush"
      <4>1. start = cur \/ start \in start..(cur - 1)
        BY <1>a
      <4> QED
        BY <3>1, <4>1 DEF LexemeInv
    <3>2. CASE pc # "flush"
      <4>1. Spaces(buf, start, cur)
        BY <1>1, <3>2 DEF IndentDeeper, Dedent, Flush, LexemeInv
      <4> QED
        BY <1>a, <4>1, FirstChar
    <3> QED
      BY <3>1, <3>2
  <2>3. Adds(type, cur)
    BY <1>a, <1>c, <2>1, <2>2, PlainToken DEF PlainChars
  <2> QED
    BY <2>3
<1>2. CASE ScanOneCharOp
  <2>1. PICK op \in OneCharOps : Peek = op[1] /\ AddToken(op[2], cur + 1)
    BY <1>2 DEF ScanOneCharOp
  <2>2. Spaces(buf, start, cur)
    BY <1>2 DEF ScanOneCharOp, LexemeInv
  <2>3. TextAt(buf, start) \in PlainChars
    BY <1>a, <1>b, <2>1, <2>2, FirstChar DEF PlainChars
  <2>4. Adds(op[2], cur + 1)
    BY <1>a, <2>1, <2>3, OperatorTypes, PlainToken
  <2> QED
    BY <2>4
<1>3. CASE ScanTwoCharOp
  <2>1. PICK op \in TwoCharOps :
          /\ Peek = op[1]
          /\ IF FollowedBy(op[2]) THEN AddToken(op[3], cur + 2) ELSE AddToken(op[4], cur + 1)
    BY <1>3 DEF ScanTwoCharOp
  <2>2. Spaces(buf, start, cur)
    BY <1>3 DEF ScanTwoCharOp, LexemeInv
  <2> QED
    BY <2>1, <2>2, TwoCharToken
<1>4. CASE ScanNewLine
  BY <1>4, NewLineSkipped DEF ScanNewLine, LexemeInv
<1>5. CASE ScanUnexpected
  <2>1. AddToken("INVALID", cur + 1) /\ Peek \in {"?", "backslash"}
    BY <1>5 DEF ScanUnexpected, Match
  <2>2. Spaces(buf, start, cur)
    BY <1>5 DEF ScanUnexpected, LexemeInv
  <2>3. TextAt(buf, start) \in PlainChars
    BY <1>a, <1>b, <2>1, <2>2, FirstChar DEF PlainChars
  <2>4. Adds("INVALID", cur + 1)
    BY <1>a, <1>c, <2>1, <2>3, PlainToken
  <2> QED
    BY <2>4
<1>6. CASE EndSkip
  BY <1>6, SkippedRun
<1>7. CASE EndNumber \/ EndWord
  BY <1>7, WordToken
<1>8. CASE EndString
  BY <1>8, StringToken
<1>9. CASE \/ IndentWhitespace \/ IndentBlankLine \/ IndentNotDeeper \/ DedentDone
           \/ EnterRun \/ EnterString \/ ScanNul \/ NextChar \/ Run \/ StringChar
           \/ StringEscape \/ Return \/ UNCHANGED vars
  BY <1>9 DEF IndentWhitespace, IndentBlankLine, IndentNotDeeper, DedentDone,
              EnterRun, EnterString, ScanNul, NextChar, Run, StringChar,
              StringEscape, Return, vars
<1> QED
  BY <1>1, <1>2, <1>3, <1>4, <1>5, <1>6, <1>7, <1>8, <1>9
     DEF Next, HandleIndentation, Switch, Scan, Terminating

----------------------------------------------------------------------------
(* The text between the tokens.                                            *)

LEMMA SkippedIs ==
  ASSUME NEW p
  PROVE  p \in Skipped <=> p \in 0..(End - 1) /\ p < start /\ Uncovered(tokens, p)
BY DEF Skipped, Uncovered

LEMMA RangesAreOffsets ==
  ASSUME TypeOK
  PROVE  \A i \in 1..Len(tokens) : tokens[i].from \in Nat /\ tokens[i].to \in Nat
<1>1. tokens \in Seq(Tokens)
  BY DEF TypeOK, Tokens
<1>2. \A i \in 1..Len(tokens) : tokens[i] \in Tokens
  BY ONLY <1>1
<1>3. \A t \in Tokens : t.from \in Nat /\ t.to \in Nat
  BY DEF Tokens
<1> QED
  BY <1>2, <1>3

LEMMA TokensInit == Init => TokensInv
<1> SUFFICES ASSUME Init
             PROVE  TokensInv
  OBVIOUS
<1>1. 1..Len(tokens) = {} /\ start = 0
  BY DEF Init
<1>2. Skipped = {}
  BY <1>1 DEF Skipped
<1> QED
  BY <1>1, <1>2 DEF TokensInv, Ordered, SkippedOK

LEMMA TokensSame ==
  ASSUME TokensInv, buf' = buf, start' = start, tokens' = tokens
  PROVE  TokensInv'
<1>1. Ordered'
  BY DEF TokensInv, Ordered
<1>2. \A i \in 1..Len(tokens') : Munched(buf', tokens'[i]) /\ StringClosed(buf', tokens'[i])
  BY DEF TokensInv
<1>3. Skipped' = Skipped /\ \A p : CharAt(p)' = CharAt(p)
  BY DEF Skipped, CharAt, End
<1>4. \A p : InComment(p) => InComment(p)'
  BY <1>3 DEF InComment, SameLine
<1>5. \A p : BlankBefore(p) => BlankBefore(p)'
  BY DEF BlankBefore
<1>6. SkippedOK'
  BY <1>3, <1>4, <1>5 DEF TokensInv, SkippedOK
<1> QED
  BY <1>1, <1>2, <1>6 DEF TokensInv

LEMMA TokensSkip ==
  ASSUME IInv, TokensInv, buf' = buf, NEW to, Skips(to)
  PROVE  TokensInv'
<1>a. /\ start \in Nat /\ End \in Nat /\ to \in Nat /\ start <= to
      /\ tokens \in Seq(Tokens) /\ tokens' = tokens /\ start' = to
  BY DEF IInv, TypeOK, End, Skips, DropLexeme, Tokens
<1>b. \A i \in 1..Len(tokens) : tokens[i].from \in Nat /\ tokens[i].to \in Nat
  BY RangesAreOffsets DEF IInv
<1>1. Ordered'
  <2>1. \A i \in 1..Len(tokens) : tokens[i].to <= start
    BY DEF TokensInv, Ordered
  <2>2. \A i \in 1..Len(tokens) : tokens[i].to <= to
    BY <1>a, <1>b, <2>1
  <2> QED
    BY <1>a, <2>2 DEF TokensInv, Ordered
<1>2. \A i \in 1..Len(tokens') : Munched(buf', tokens'[i]) /\ StringClosed(buf', tokens'[i])
  BY <1>a DEF TokensInv
<1>3. \A p : CharAt(p)' = CharAt(p)
  BY DEF CharAt, End
<1>4. End' = End
  BY DEF End
<1>5. \A p : p \in Skipped' <=> p \in 0..(End - 1) /\ p < to /\ Uncovered(tokens, p)
  BY <1>a, <1>4 DEF Skipped, Uncovered
<1>6. Skipped \subseteq Skipped'
  <2>1. \A p \in 0..(End - 1) : p < start => p < to
    BY <1>a
  <2> QED
    BY <1>5, <2>1, SkippedIs
<1>7. \A p \in start..(to - 1) : Uncovered(tokens, p)
  <2>1. ASSUME NEW p \in start..(to - 1), NEW i \in 1..Len(tokens)
        PROVE  p \notin tokens[i].from..(tokens[i].to - 1)
    <3>1. tokens[i].to <= start /\ tokens[i].to \in Nat /\ tokens[i].from \in Nat
      BY <1>b DEF TokensInv, Ordered
    <3> QED
      BY <1>a, <3>1
  <2> QED
    BY <2>1 DEF Uncovered
<1>8. \A p \in start..(to - 1) : p \in 0..(End - 1) => p \in Skipped'
  <2>1. \A p \in start..(to - 1) : p < to
    BY <1>a
  <2> QED
    BY <1>5, <1>7, <2>1
<1>9. \A p : InComment(p) => InComment(p)'
  BY <1>3, <1>6 DEF InComment, SameLine
<1>10. \A p : BlankBefore(p) => BlankBefore(p)'
  BY <1>a DEF BlankBefore
<1>11. ASSUME NEW p \in Skipped'
       PROVE  \/ CharAt(p)' \in {"sp", "NUL"}
              \/ InComment(p)'
              \/ CharAt(p)' \in NewLines /\ BlankBefore(p)'
  <2>1. CASE p \in Skipped
    BY <2>1, <1>3, <1>9, <1>10 DEF TokensInv, SkippedOK
  <2>2. CASE p \notin Skipped
    <3>1. p \in start..(to - 1) /\ p \in 0..(End - 1)
      BY <1>a, <1>5, <1>11, <2>2, SkippedIs
    <3>2. Skippable(buf, start, p) /\ CharAt(p)' = TextAt(buf, p)
      BY <1>3, <3>1, TextIs DEF Skips
    <3>3. CommentIn(buf, start, p) => InComment(p)'
      <4>1. SUFFICES ASSUME CommentIn(buf, start, p)
                     PROVE  InComment(p)'
        OBVIOUS
      <4>2. PICK q \in start..p : /\ TextAt(buf, q) = "#"
                                  /\ \A r \in q..p : TextAt(buf, r) \notin NewLines
        BY <4>1 DEF CommentIn
      <4>3. q \in start..(to - 1) /\ q \in 0..(End - 1) /\ q <= p
        BY <1>a, <3>1, <4>2
      <4>4. q \in Skipped'
        BY <1>8, <4>3
      <4>5. CharAt(q)' = "#" /\ \A r \in q..p : CharAt(r)' \notin NewLines
        BY <1>3, <4>2, TextIs
      <4> QED
        BY <4>3, <4>4, <4>5 DEF InComment, SameLine
    <3>4. LastType = "NEWLINE" => BlankBefore(p)'
      <4>1. SUFFICES ASSUME LastType = "NEWLINE"
                     PROVE  BlankBefore(p)'
        OBVIOUS
      <4>2. \A i \in 1..Len(tokens) : tokens[i].to <= p
        <5>1. \A i \in 1..Len(tokens) : tokens[i].to <= start
          BY DEF TokensInv, Ordered
        <5> QED
          BY <1>a, <1>b, <3>1, <5>1
      <4>3. \A i \in 1..Len(tokens) : i + 1 \notin 1..Len(tokens) => i = Len(tokens)
        OBVIOUS
      <4>4. \A i \in 1..Len(tokens) :
              i + 1 \notin 1..Len(tokens) => tokens[i].type = "NEWLINE"
        <5>1. Len(tokens) # 0 => tokens[Len(tokens)].type = "NEWLINE"
          BY <4>1 DEF LastType
        <5> QED
          BY <4>3, <5>1
      <4> QED
        BY <1>a, <4>2, <4>4 DEF BlankBefore
    <3> QED
      BY <3>2, <3>3, <3>4 DEF Skippable
  <2> QED
    BY <2>1, <2>2
<1>12. SkippedOK'
  BY <1>11 DEF SkippedOK
<1> QED
  BY <1>1, <1>2, <1>12 DEF TokensInv

LEMMA TokensAdd ==
  ASSUME IInv, TokensInv, buf' = buf, NEW type, NEW to, Adds(type, to)
  PROVE  TokensInv'
<1> DEFINE t == [type |-> type, from |-> start, to |-> to]
           n == Len(tokens)
<1>a. /\ start \in Nat /\ End \in Nat /\ to \in Nat /\ start <= to
      /\ tokens \in Seq(Tokens) /\ t \in Tokens
      /\ tokens' = Append(tokens, t) /\ start' = to
      /\ Munched(buf, t) /\ StringClosed(buf, t)
  BY DEF IInv, TypeOK, End, Adds, AddToken, Tokens
<1>b. /\ t.type = type /\ t.from = start /\ t.to = to
  OBVIOUS
<1> HIDE DEF t
<1>c. /\ n \in Nat /\ Len(tokens') = n + 1
      /\ \A i \in 1..n : tokens'[i] = tokens[i]
      /\ tokens'[n + 1] = t
  BY <1>a
<1>d. \A i \in 1..n : tokens[i].from \in Nat /\ tokens[i].to \in Nat
  BY RangesAreOffsets DEF IInv
<1>e. \A i \in 1..n : tokens[i].from <= tokens[i].to /\ tokens[i].to <= start
  BY DEF TokensInv, Ordered
<1>f. \A i \in 1..(n + 1) : i \in 1..n \/ i = n + 1
  BY <1>c
<1> HIDE DEF n
<1>1. Ordered'
  <2>1. ASSUME NEW i \in 1..(n + 1)
        PROVE  /\ tokens'[i].from <= tokens'[i].to /\ tokens'[i].to <= to
               /\ i > 1 => tokens'[i - 1].to <= tokens'[i].from
    <3>1. CASE i \in 1..n
      <4>1. i > 1 => i - 1 \in 1..n
        BY <1>c, <3>1
      <4>2. i > 1 => tokens[i - 1].to <= tokens[i].from
        BY <3>1 DEF TokensInv, Ordered, n
      <4>3. tokens[i].to <= to
        BY <1>a, <1>d, <1>e, <3>1
      <4> QED
        BY <1>c, <1>e, <3>1, <4>1, <4>2, <4>3
    <3>2. CASE i = n + 1
      <4>1. i > 1 => i - 1 = n /\ n \in 1..n
        BY <1>c, <3>2
      <4>2. n \in 1..n => tokens[n].to <= start
        BY <1>e
      <4>3. to <= to
        BY <1>a
      <4> QED
        BY <1>a, <1>b, <1>c, <3>2, <4>1, <4>2, <4>3
    <3> QED
      BY <1>f, <3>1, <3>2
  <2> QED
    BY <1>a, <1>c, <2>1 DEF Ordered
<1>2. \A i \in 1..Len(tokens') : Munched(buf', tokens'[i]) /\ StringClosed(buf', tokens'[i])
  BY <1>a, <1>c, <1>f DEF TokensInv, n
<1>3. \A p : CharAt(p)' = CharAt(p)
  BY DEF CharAt, End
<1>4. End' = End
  BY DEF End
<1>5. ASSUME NEW p \in Nat, p < to
      PROVE  Uncovered(tokens', p) <=> Uncovered(tokens, p) /\ p < start
  <2>1. p \notin t.from..(t.to - 1) <=> p < start
    BY <1>a, <1>b, <1>5
  <2> QED
    BY <1>c, <1>f, <2>1 DEF Uncovered, n
<1>6. Skipped' = Skipped
  <2>1. \A p : p \in Skipped' <=> p \in 0..(End - 1) /\ p < to /\ Uncovered(tokens', p)
    BY <1>a, <1>4 DEF Skipped, Uncovered
  <2>2. \A p \in 0..(End - 1) : p \in Nat /\ (p < start => p < to)
    BY <1>a
  <2> QED
    BY <1>5, <2>1, <2>2, SkippedIs
<1>7. \A p : InComment(p) => InComment(p)'
  BY <1>3, <1>6 DEF InComment, SameLine
<1>8. ASSUME NEW p \in Skipped, BlankBefore(p)
      PROVE  BlankBefore(p)'
  <2>1. p \in Nat /\ p < start
    BY <1>a DEF Skipped
  <2>2. \A i \in 1..(n + 1) :
          tokens'[i].to <= p <=> i \in 1..n /\ tokens[i].to <= p
    <3>1. ~(to <= p)
      BY <1>a, <2>1
    <3>2. n + 1 \notin 1..n
      BY <1>c
    <3> QED
      BY <1>b, <1>c, <1>f, <3>1, <3>2
  <2>3. 1..n \subseteq 1..(n + 1)
    BY <1>c
  <2>4. {i \in 1..Len(tokens') : tokens'[i].to <= p} = {i \in 1..n : tokens[i].to <= p}
    BY <1>c, <2>2, <2>3
  <2>5. \A i \in {i \in 1..n : tokens[i].to <= p} :
          i + 1 \notin {j \in 1..n : tokens[j].to <= p} => tokens[i].type = "NEWLINE"
    BY <1>8 DEF BlankBefore, n
  <2> QED
    BY <1>c, <2>4, <2>5 DEF BlankBefore
<1>9. SkippedOK'
  BY <1>3, <1>6, <1>7, <1>8 DEF TokensInv, SkippedOK
<1> QED
  BY <1>1, <1>2, <1>9 DEF TokensInv

LEMMA InitTInv == Init => TInv
BY InitIInv, LexemeInit, TokensInit DEF TInv

LEMMA NextTInv == TInv /\ [Next]_vars => TInv'
<1> SUFFICES ASSUME TInv, [Next]_vars
             PROVE  TInv'
  OBVIOUS
<1>1. IInv' /\ LexemeInv'
  BY NextIInv, LexemeStep DEF TInv
<1>2. buf' = buf
  BY BufferSame
<1>3. TokensInv'
  BY <1>2, StepAdds, TokensSame, TokensSkip, TokensAdd DEF TInv
<1> QED
  BY <1>1, <1>3 DEF TInv

(* At every moment the text is divided into tokens, each scanned to its    *)
(* end, and what may be skipped between them, whatever the source buffer.  *)
THEOREM LexerTextInvariant == Spec => []TInv
BY InitTInv, NextTInv, PTL DEF Spec

(* Tokens and the text between them are all of the text: nothing but white *)
(* space, comments and the new lines of blank lines is skipped.            *)
LEMMA NothingIsLost == TInv => NothingLost
<1> SUFFICES ASSUME TInv
             PROVE  NothingLost
  OBVIOUS
<1>1. /\ \A i \in 1..Len(tokens) :
           /\ tokens[i].from <= tokens[i].to /\ tokens[i].to <= start
           /\ i > 1 => tokens[i - 1].to <= tokens[i].from
      /\ SkippedOK
  BY DEF TInv, TokensInv, Ordered
<1>2. ASSUME pc = "done", NEW p \in 0..(End - 1), cur <= p
      PROVE  \E q \in 0..p : CharAt(q) = "NUL"
  <2>1. cur \in Nat /\ End \in Nat
    BY LexerAssumption DEF TInv, IInv, TypeOK, End
  <2>2. cur > 0 /\ TextAt(buf, cur - 1) = "NUL"
    BY <1>2, <2>1 DEF TInv, LexemeInv
  <2>3. cur - 1 \in 0..p
    BY <1>2, <2>1, <2>2
  <2> QED
    BY <2>2, <2>3, TextIs
<1> QED
  BY <1>1, <1>2 DEF NothingLost, SkippedOK

LEMMA TokensAreMaximal == TInv => MaximalMunch
<1> SUFFICES ASSUME TInv, NEW i \in 1..Len(tokens)
             PROVE  LET first == CharAt(tokens[i].from)
                        after == CharAt(tokens[i].to)
                    IN  /\ tokens[i].type \in {"ID", "KEYWORD"} => after \notin WordChars
                        /\ tokens[i].type = "INTLIT" => after \notin Digits
                        /\ \A op \in TwoCharOps :
                             first = op[1] /\ tokens[i].to = tokens[i].from + 1 =>
                               after # op[2]
  BY DEF MaximalMunch
<1>1. Munched(buf, tokens[i])
  BY DEF TInv, TokensInv
<1> QED
  BY <1>1, TextIs DEF Munched

(* The opening quote of a string is the first character that is not white  *)
(* space.                                                                  *)
LEMMA OpeningIs ==
  ASSUME NEW i, tokens[i].from \in Nat, tokens[i].to \in Nat,
         NEW b \in tokens[i].from..(tokens[i].to - 2),
         Spaces(buf, tokens[i].from, b), TextAt(buf, b) = "quote"
  PROVE  Opening(i) = b
<1> DEFINE IsOpening(p) == /\ CharAt(p) = "quote"
                           /\ \A q \in tokens[i].from..(p - 1) : CharAt(q) = "sp"
<1>1. b \in tokens[i].from..(tokens[i].to - 1) /\ IsOpening(b)
  BY TextIs DEF Spaces
<1>2. ASSUME NEW p \in tokens[i].from..(tokens[i].to - 1), IsOpening(p)
      PROVE  p = b
  <2>1. ~(p < b)
    <3>1. p < b => p \in tokens[i].from..(b - 1)
      BY <1>2
    <3> QED
      BY <1>1, <1>2, <3>1
  <2>2. ~(b < p)
    <3>1. b < p => b \in tokens[i].from..(p - 1)
      BY <1>2
    <3> QED
      BY <1>1, <1>2, <3>1
  <2> QED
    BY <1>2, <2>1, <2>2
<1>3. Opening(i) = CHOOSE p \in tokens[i].from..(tokens[i].to - 1) : IsOpening(p)
  BY DEF Opening
<1> HIDE DEF IsOpening
<1> QED
  BY <1>1, <1>2, <1>3

LEMMA EscapedIs ==
  ASSUME NEW i, tokens[i].to \in Nat, NEW b \in Nat, Opening(i) = b,
         NEW p \in Nat, p <= tokens[i].to - 1
  PROVE  Escaped(i, p) <=> EscapedIn(buf, b, p)
<1>1. \A q : q \in (b + 1)..(tokens[i].to - 2) /\ q < p <=> q \in (b + 1)..(p - 1)
  OBVIOUS
<1>2. Backslashes(i, p) = BackslashesIn(buf, b, p)
  BY <1>1, TextIs DEF Backslashes, BackslashesIn, Body
<1> QED
  BY <1>2 DEF Escaped, EscapedIn

LEMMA StringsEnd == TInv => StringsAreClosed
<1> SUFFICES ASSUME TInv, NEW i \in 1..Len(tokens),
                    tokens[i].type \in {"STRING", "IDSTRING"}
             PROVE  /\ tokens[i].to - 1 > Opening(i)
                    /\ CharAt(tokens[i].to - 1) = "quote"
                    /\ ~Escaped(i, tokens[i].to - 1)
                    /\ \A p \in Body(i) :
                         IF Escaped(i, p)
                         THEN CharAt(p) \in Escapable
                         ELSE CharAt(p) \notin NewLines \cup {"quote", "NUL"}
                    /\ tokens[i].type = "IDSTRING" <=>
                         /\ \A p \in Body(i) : CharAt(p) \in WordChars
                         /\ CharAt(Opening(i) + 1) \notin Digits
  BY DEF StringsAreClosed
<1>1. tokens[i].from \in Nat /\ tokens[i].to \in Nat
  BY RangesAreOffsets DEF TInv, IInv
<1>2. StringClosed(buf, tokens[i])
  BY DEF TInv, TokensInv
<1>3. PICK b \in tokens[i].from..(tokens[i].to - 2) :
        /\ Spaces(buf, tokens[i].from, b) /\ TextAt(buf, b) = "quote"
        /\ TextAt(buf, tokens[i].to - 1) = "quote"
        /\ StringBody(buf, b, tokens[i].to - 1, tokens[i].type)
  BY <1>2 DEF StringClosed
<1>4. Opening(i) = b
  BY <1>1, <1>3, OpeningIs
<1>5. b \in Nat /\ tokens[i].to - 1 > b /\ tokens[i].to - 1 \in Nat
      /\ tokens[i].to - 1 <= tokens[i].to - 1 /\ tokens[i].to - 1 - 1 = tokens[i].to - 2
  BY <1>1
<1>6. Body(i) = (b + 1)..(tokens[i].to - 1 - 1)
  BY <1>4, <1>5 DEF Body
<1>7. \A p \in Body(i) : p \in Nat /\ p <= tokens[i].to - 1
  BY <1>1, <1>5, <1>6
<1>8. \A p \in Body(i) : Escaped(i, p) <=> EscapedIn(buf, b, p)
  BY <1>1, <1>4, <1>5, <1>7, EscapedIs
<1>9. Escaped(i, tokens[i].to - 1) <=> EscapedIn(buf, b, tokens[i].to - 1)
  BY <1>1, <1>4, <1>5, EscapedIs
<1>10. \A p \in Body(i) :
         IF Escaped(i, p) THEN CharAt(p) \in Escapable
                          ELSE CharAt(p) \notin NewLines \cup {"quote", "NUL"}
  BY <1>3, <1>6, <1>8, TextIs DEF StringBody
<1>11. tokens[i].type = "IDSTRING" <=>
         /\ \A p \in Body(i) : CharAt(p) \in WordChars
         /\ CharAt(b + 1) \notin Digits
  BY <1>3, <1>6, TextIs DEF StringBody
<1>12. ~Escaped(i, tokens[i].to - 1) /\ CharAt(tokens[i].to - 1) = "quote"
  BY <1>3, <1>9, TextIs DEF StringBody
<1> QED
  BY <1>4, <1>5, <1>10, <1>11, <1>12

(* The lexer loses nothing of the text, whatever the source buffer.        *)
THEOREM LexerNothingLost == Spec => []NothingLost
BY LexerTextInvariant, NothingIsLost, PTL

(* No token stops short of its end, whatever the source buffer and the     *)
(* keywords.                                                               *)
THEOREM LexerMaximalMunch == Spec => []MaximalMunch
BY LexerTextInvariant, TokensAreMaximal, PTL

(* A string that is accepted is closed, escapes only what may be escaped,  *)
(* and names a type just when it has the form of a name, whatever the      *)
(* source buffer.                                                          *)
THEOREM LexerStringsAreClosed == Spec => []StringsAreClosed
BY LexerTextInvariant, StringsEnd, PTL

----------------------------------------------------------------------------
(* Blocks and indentation.  The definitions of BlocksFollowIndentation for *)
(* the text s and the tokens ts.                                           *)

FirstIn(ts) ==
  {i \in 1..Len(ts) :
     ts[i].type \in ContentTypes /\ (i = 1 \/ ts[i - 1].type \notin ContentTypes)}

StartsLine(s, p) == p = 0 \/ TextAt(s, p - 1) \in NewLines

SameLineIn(s, p, q) == \A r \in p..q : TextAt(s, r) \notin NewLines

LineStartIn(s, from) ==
  CHOOSE p \in 0..from : StartsLine(s, p) /\ SameLineIn(s, p, from)

IndentationIn(s, from) ==
  CHOOSE n \in 0..Len(s) :
    /\ \A p \in LineStartIn(s, from)..(LineStartIn(s, from) + n - 1) : TextAt(s, p) = "sp"
    /\ TextAt(s, LineStartIn(s, from) + n) # "sp"

IndentAt(s, ts, i) == IndentationIn(s, ts[i].from)

EnclosingIn(s, ts, i) ==
  {IndentAt(s, ts, j) : j \in {j \in FirstIn(ts) : j <= i /\
      \A k \in FirstIn(ts) : k \in j..i => IndentAt(s, ts, k) >= IndentAt(s, ts, j)}} \ {0}

ConsistentIn(s, ts) ==
  \A i \in FirstIn(ts) : \A j \in FirstIn(ts) :
    j < i /\ (\A k \in FirstIn(ts) : k \notin (j + 1)..(i - 1)) =>
      \/ IndentAt(s, ts, i) > IndentAt(s, ts, j)
      \/ IndentAt(s, ts, i) \in EnclosingIn(s, ts, j) \cup {0}

Marks(ts, i, type) == {j \in 1..i : ts[j].type = type}

DepthIn(ts, i) ==
  Cardinality(Marks(ts, i, "INDENT")) - Cardinality(Marks(ts, i, "DEDENT"))

(* The indentations of the blocks that a further line can go back to.      *)
OpenIn(s, ts) ==
  {0} \cup {IndentAt(s, ts, j) : j \in {j \in FirstIn(ts) :
              \A k \in FirstIn(ts) : k >= j => IndentAt(s, ts, k) >= IndentAt(s, ts, j)}}

HasLast(ts) == FirstIn(ts) = {} \/ \E j \in FirstIn(ts) : \A k \in FirstIn(ts) : k <= j

(* The first character of a line that starts at l is at c; the lexeme has  *)
(* kept the white space before it, or an INDENT or DEDENT has taken it.    *)
LineAt(s, l, a, c) ==
  /\ l \in Nat /\ c \in Nat /\ l <= c /\ c <= Len(s)
  /\ StartsLine(s, l) /\ Spaces(s, l, c) /\ TextAt(s, c) \notin Layout
  /\ a = l \/ a = c

(* The levels when a line with indentation m follows the open blocks E.    *)
LevelsFor(V, E, m) ==
  /\ V = {e \in E : e <= m} \/ V = {e \in E : e <= m} \cup {m}
  /\ (\A e \in E : m > e) => m \in V

Levels == {levels[k] : k \in 1..Len(levels)}

LevelsCounted ==
  /\ \A a, b \in 1..Len(levels) : a < b => levels[a] < levels[b]
  /\ IsFiniteSet(Levels) /\ Cardinality(Levels) = Len(levels)
  /\ DepthIn(tokens, Len(tokens)) = Len(levels) - 1

(* m_indentation_levels between two lines, while a line goes back, and     *)
(* before the first token of a line.                                       *)
LevelsPlaced ==
  LET E == OpenIn(buf, tokens)
  IN  pc \notin {"flush", "done"} =>
        /\ blank \/ LastType \in ContentTypes => Levels = E
        /\ pc = "dedent" =>
             \E l \in Nat :
               /\ LineAt(buf, l, start, cur) /\ level = cur - l
               /\ Levels \subseteq E /\ {e \in E : e <= level} \subseteq Levels
               /\ \E e \in E : e >= level
        /\ pc # "dedent" /\ ~blank /\ LastType \notin ContentTypes =>
             \E l, c \in Nat : LineAt(buf, l, start, c) /\ LevelsFor(Levels, E, c - l)

LinesNested(s, ts) ==
  \A i \in FirstIn(ts) :
    /\ IndentAt(s, ts, i) \in Nat
    /\ DepthIn(ts, i) = Cardinality(EnclosingIn(s, ts, i))

BlockInv ==
  /\ LevelsCounted /\ HasLast(tokens)
  /\ pc = "indent" => StartsLine(buf, start)
  /\ ConsistentIn(buf, tokens) => LevelsPlaced /\ LinesNested(buf, tokens)

(* ts2 is ts with token t behind it.                                       *)
Appended(ts, t, ts2) ==
  /\ Len(ts) \in Nat /\ Len(ts2) = Len(ts) + 1
  /\ \A i \in 1..Len(ts) : ts2[i] = ts[i]
  /\ ts2[Len(ts) + 1] = t

StartsContent(ts, t) ==
  t.type \in ContentTypes /\ (Len(ts) = 0 \/ ts[Len(ts)].type \notin ContentTypes)

LEMMA FirstNext ==
  ASSUME NEW ts, NEW t, NEW ts2, Appended(ts, t, ts2)
  PROVE  FirstIn(ts2) = FirstIn(ts) \cup (IF StartsContent(ts, t) THEN {Len(ts) + 1} ELSE {})
<1> DEFINE n == Len(ts)
           IsFirst(i) == ts[i].type \in ContentTypes /\ (i = 1 \/ ts[i - 1].type \notin ContentTypes)
           IsFirst2(i) == ts2[i].type \in ContentTypes /\ (i = 1 \/ ts2[i - 1].type \notin ContentTypes)
<1>1. n \in Nat /\ Len(ts2) = n + 1 /\ ts2[n + 1] = t /\ \A i \in 1..n : ts2[i] = ts[i]
  BY DEF Appended
<1>2. \A i \in 1..n : i # 1 => i - 1 \in 1..n
  BY <1>1
<1>3. \A i \in 1..n : IsFirst2(i) <=> IsFirst(i)
  BY <1>1, <1>2
<1>4. IsFirst2(n + 1) <=> StartsContent(ts, t)
  <2>1. n # 0 => n \in 1..n
    BY <1>1
  <2>2. n + 1 = 1 <=> n = 0
    BY <1>1
  <2>3. n + 1 - 1 = n
    BY <1>1
  <2>4. n # 0 => ts2[n] = ts[n]
    BY <1>1, <2>1
  <2> QED
    BY <1>1, <2>2, <2>3, <2>4 DEF StartsContent
<1>5. FirstIn(ts) = {i \in 1..n : IsFirst(i)} /\ FirstIn(ts2) = {i \in 1..(n + 1) : IsFirst2(i)}
  BY <1>1 DEF FirstIn
<1>6. \A i : i \in 1..(n + 1) <=> i \in 1..n \/ i = n + 1
  BY <1>1
<1> HIDE DEF IsFirst, IsFirst2, n
<1>7. \A i : i \in FirstIn(ts2) <=> i \in FirstIn(ts) \/ (i = n + 1 /\ StartsContent(ts, t))
  BY <1>3, <1>4, <1>5, <1>6
<1> QED
  BY <1>7 DEF n

LEMMA FirstAre == \A ts : \A i \in FirstIn(ts) : i \in 1..Len(ts)
BY DEF FirstIn

LEMMA IndentSame ==
  ASSUME NEW s, NEW ts, NEW t, NEW ts2, Appended(ts, t, ts2), NEW i \in 1..Len(ts)
  PROVE  IndentAt(s, ts2, i) = IndentAt(s, ts, i)
BY DEF Appended, IndentAt

(* A line before the new token.                                            *)
LEMMA NewIsLast ==
  ASSUME NEW ts, NEW t, NEW ts2, Appended(ts, t, ts2), NEW i \in 1..Len(ts)
  PROVE  /\ i \in Nat /\ i < Len(ts) + 1 /\ i <= Len(ts) + 1 /\ ~(Len(ts) + 1 <= i)
         /\ ~(Len(ts) + 1 < i) /\ i # Len(ts) + 1 /\ Len(ts) + 1 \in Nat
         /\ \A j : Len(ts) + 1 \notin j..i
BY DEF Appended

LEMMA EnclosingSame ==
  ASSUME NEW s, NEW ts, NEW t, NEW ts2, Appended(ts, t, ts2), NEW i \in FirstIn(ts)
  PROVE  EnclosingIn(s, ts2, i) = EnclosingIn(s, ts, i)
<1> DEFINE n == Len(ts) + 1
<1>1. FirstIn(ts) \subseteq FirstIn(ts2) /\ FirstIn(ts2) \subseteq FirstIn(ts) \cup {n}
  BY FirstNext
<1>2. ~(n <= i) /\ \A j : n \notin j..i
  BY FirstAre, NewIsLast
<1>3. \A j \in FirstIn(ts) : IndentAt(s, ts2, j) = IndentAt(s, ts, j)
  BY FirstAre, IndentSame
<1> HIDE DEF n
<1>4. ASSUME NEW j
      PROVE  /\ j \in FirstIn(ts2) /\ j <= i
             /\ \A k \in FirstIn(ts2) :
                  k \in j..i => IndentAt(s, ts2, k) >= IndentAt(s, ts2, j)
         <=> /\ j \in FirstIn(ts) /\ j <= i
             /\ \A k \in FirstIn(ts) :
                  k \in j..i => IndentAt(s, ts, k) >= IndentAt(s, ts, j)
  BY <1>1, <1>2, <1>3
<1> QED
  BY <1>3, <1>4 DEF EnclosingIn

LEMMA ConsistentBefore ==
  ASSUME NEW s, NEW ts, NEW t, NEW ts2, Appended(ts, t, ts2), ConsistentIn(s, ts2)
  PROVE  ConsistentIn(s, ts)
<1> DEFINE n == Len(ts) + 1
<1>1. FirstIn(ts) \subseteq FirstIn(ts2) /\ FirstIn(ts2) \subseteq FirstIn(ts) \cup {n}
  BY FirstNext
<1>2. \A i \in FirstIn(ts) : \A j : n \notin j..(i - 1)
  <2>1. \A i \in FirstIn(ts) : i \in Nat /\ i < n
    BY FirstAre, NewIsLast
  <2>2. n \in Nat
    BY DEF Appended
  <2> HIDE DEF n
  <2> QED
    BY <2>1, <2>2
<1>3. \A j \in FirstIn(ts) : IndentAt(s, ts2, j) = IndentAt(s, ts, j)
  BY FirstAre, IndentSame
<1>4. \A j \in FirstIn(ts) : EnclosingIn(s, ts2, j) = EnclosingIn(s, ts, j)
  BY EnclosingSame
<1> HIDE DEF n
<1>5. ASSUME NEW i \in FirstIn(ts), NEW j \in FirstIn(ts), j < i,
             \A k \in FirstIn(ts) : k \notin (j + 1)..(i - 1)
      PROVE  \/ IndentAt(s, ts, i) > IndentAt(s, ts, j)
             \/ IndentAt(s, ts, i) \in EnclosingIn(s, ts, j) \cup {0}
  <2>1. \A k \in FirstIn(ts2) : k \notin (j + 1)..(i - 1)
    BY <1>1, <1>2, <1>5
  <2>2. \/ IndentAt(s, ts2, i) > IndentAt(s, ts2, j)
        \/ IndentAt(s, ts2, i) \in EnclosingIn(s, ts2, j) \cup {0}
    BY <1>1, <1>5, <2>1 DEF ConsistentIn
  <2> QED
    BY <1>3, <1>4, <2>2
<1> QED
  BY <1>5 DEF ConsistentIn

LEMMA OpenSame ==
  ASSUME NEW s, NEW ts, NEW t, NEW ts2, Appended(ts, t, ts2), ~StartsContent(ts, t)
  PROVE  OpenIn(s, ts2) = OpenIn(s, ts) /\ FirstIn(ts2) = FirstIn(ts)
<1>1. FirstIn(ts2) = FirstIn(ts)
  BY FirstNext
<1>2. \A j \in FirstIn(ts) : IndentAt(s, ts2, j) = IndentAt(s, ts, j)
  BY FirstAre, IndentSame
<1>3. ASSUME NEW j
      PROVE  /\ j \in FirstIn(ts2)
             /\ \A k \in FirstIn(ts2) : k >= j => IndentAt(s, ts2, k) >= IndentAt(s, ts2, j)
         <=> /\ j \in FirstIn(ts)
             /\ \A k \in FirstIn(ts) : k >= j => IndentAt(s, ts, k) >= IndentAt(s, ts, j)
  BY <1>1, <1>2
<1> QED
  BY <1>1, <1>2, <1>3 DEF OpenIn

(* A new line with indentation m.                                          *)
LEMMA OpenNext ==
  ASSUME NEW s, NEW ts, NEW t, NEW ts2, Appended(ts, t, ts2), StartsContent(ts, t),
         \A j \in FirstIn(ts) : IndentAt(s, ts, j) \in Nat,
         NEW m \in Nat, m = IndentAt(s, ts2, Len(ts) + 1)
  PROVE  /\ OpenIn(s, ts2) = {0, m} \cup {e \in OpenIn(s, ts) : e <= m}
         /\ EnclosingIn(s, ts2, Len(ts) + 1) = OpenIn(s, ts2) \ {0}
<1> DEFINE n == Len(ts) + 1
<1>1. FirstIn(ts2) = FirstIn(ts) \cup {n}
  BY FirstNext
<1>2. \A j \in FirstIn(ts) : IndentAt(s, ts2, j) = IndentAt(s, ts, j)
  BY FirstAre, IndentSame
<1>3. \A j \in FirstIn(ts) : j \in Nat /\ j <= n /\ ~(j >= n) /\ n >= j /\ j # n
  <2>1. \A j \in FirstIn(ts) : j \in 1..Len(ts)
    BY FirstAre
  <2>2. Len(ts) \in Nat
    BY DEF Appended
  <2> QED
    BY <2>1, <2>2
<1>4. n \in Nat /\ n <= n /\ n >= n /\ m >= m
  BY DEF Appended
<1>5. IndentAt(s, ts2, n) = m
  OBVIOUS
<1> HIDE DEF n
<1> DEFINE Open(j) == \A k \in FirstIn(ts) : k >= j => IndentAt(s, ts, k) >= IndentAt(s, ts, j)
           Open2(j) == \A k \in FirstIn(ts2) : k >= j => IndentAt(s, ts2, k) >= IndentAt(s, ts2, j)
<1>6. \A j \in FirstIn(ts) : Open2(j) <=> Open(j) /\ IndentAt(s, ts, j) <= m
  <2>1. \A j \in FirstIn(ts) : m >= IndentAt(s, ts, j) <=> IndentAt(s, ts, j) <= m
    OBVIOUS
  <2> QED
    BY <1>1, <1>2, <1>3, <1>5, <2>1
<1>7. Open2(n)
  BY <1>1, <1>3, <1>4, <1>5
<1>8. /\ OpenIn(s, ts) = {0} \cup {IndentAt(s, ts, j) : j \in {j \in FirstIn(ts) : Open(j)}}
      /\ OpenIn(s, ts2) = {0} \cup {IndentAt(s, ts2, j) : j \in {j \in FirstIn(ts2) : Open2(j)}}
  BY DEF OpenIn
<1> HIDE DEF Open, Open2
<1>9. OpenIn(s, ts2) = {0, m} \cup {e \in OpenIn(s, ts) : e <= m}
  <2>1. ASSUME NEW e
        PROVE  e \in OpenIn(s, ts2) <=> e \in {0, m} \cup {e1 \in OpenIn(s, ts) : e1 <= m}
    <3>1. e \in OpenIn(s, ts2) =>
            e = 0 \/ e = m \/ \E j \in FirstIn(ts) : Open(j) /\ e = IndentAt(s, ts, j) /\ e <= m
      BY <1>1, <1>2, <1>5, <1>6, <1>8
    <3>2. (\E j \in FirstIn(ts) : Open(j) /\ e = IndentAt(s, ts, j) /\ e <= m) =>
            e \in OpenIn(s, ts) /\ e \in OpenIn(s, ts2)
      BY <1>1, <1>2, <1>6, <1>8
    <3>3. e \in OpenIn(s, ts) =>
            e = 0 \/ \E j \in FirstIn(ts) : Open(j) /\ e = IndentAt(s, ts, j)
      BY <1>8
    <3>4. m \in OpenIn(s, ts2) /\ 0 \in OpenIn(s, ts2)
      BY <1>1, <1>5, <1>7, <1>8
    <3> QED
      BY <3>1, <3>2, <3>3, <3>4
  <2> QED
    BY <2>1
<1>10. EnclosingIn(s, ts2, n) = OpenIn(s, ts2) \ {0}
  <2>1. \A k \in FirstIn(ts2) : k \in Nat /\ k <= n
    BY <1>1, <1>3, <1>4
  <2>2. \A j, k \in FirstIn(ts2) : k \in j..n <=> k >= j
    BY <1>4, <2>1
  <2>3. \A j \in FirstIn(ts2) :
          Open2(j) <=> \A k \in FirstIn(ts2) :
                         k \in j..n => IndentAt(s, ts2, k) >= IndentAt(s, ts2, j)
    BY <2>2 DEF Open2
  <2>4. {j \in FirstIn(ts2) : j <= n /\ \A k \in FirstIn(ts2) :
           k \in j..n => IndentAt(s, ts2, k) >= IndentAt(s, ts2, j)}
        = {j \in FirstIn(ts2) : Open2(j)}
    BY <2>1, <2>3
  <2>5. EnclosingIn(s, ts2, n)
          = {IndentAt(s, ts2, j) : j \in {j \in FirstIn(ts2) : Open2(j)}} \ {0}
    BY <2>4 DEF EnclosingIn
  <2> QED
    BY <1>8, <2>5
<1> QED
  BY <1>9, <1>10 DEF n

LEMMA LastNext ==
  ASSUME NEW ts, NEW t, NEW ts2, Appended(ts, t, ts2), HasLast(ts)
  PROVE  HasLast(ts2)
<1>1. CASE StartsContent(ts, t)
  <2>1. FirstIn(ts2) = FirstIn(ts) \cup {Len(ts) + 1}
    BY <1>1, FirstNext
  <2>2. \A k \in FirstIn(ts) : k <= Len(ts) + 1
    BY FirstAre, NewIsLast
  <2>3. Len(ts) + 1 <= Len(ts) + 1
    BY DEF Appended
  <2> QED
    BY <2>1, <2>2, <2>3 DEF HasLast
<1>2. CASE ~StartsContent(ts, t)
  BY <1>2, FirstNext DEF HasLast
<1> QED
  BY <1>1, <1>2

LEMMA ConsistentNext ==
  ASSUME NEW s, NEW ts, NEW t, NEW ts2, Appended(ts, t, ts2), StartsContent(ts, t),
         HasLast(ts), ConsistentIn(s, ts2),
         \A j \in FirstIn(ts) : IndentAt(s, ts, j) \in Nat,
         NEW m \in Nat, m = IndentAt(s, ts2, Len(ts) + 1)
  PROVE  m \in OpenIn(s, ts) \/ \A e \in OpenIn(s, ts) : m > e
<1>1. CASE FirstIn(ts) = {}
  <2>1. OpenIn(s, ts) = {0}
    BY <1>1 DEF OpenIn
  <2> QED
    BY <2>1
<1>2. CASE FirstIn(ts) # {}
  <2>1. PICK j \in FirstIn(ts) : \A k \in FirstIn(ts) : k <= j
    BY <1>2 DEF HasLast
  <2>2. FirstIn(ts2) = FirstIn(ts) \cup {Len(ts) + 1}
    BY FirstNext
  <2>3. /\ Len(ts) \in Nat /\ j \in Nat /\ j < Len(ts) + 1
        /\ \A k \in FirstIn(ts) : k \in Nat
    BY FirstAre, NewIsLast DEF Appended
  <2>4. \A k \in FirstIn(ts2) : k \notin (j + 1)..(Len(ts) + 1 - 1)
    BY <2>1, <2>2, <2>3
  <2>5. m > IndentAt(s, ts2, j) \/ m \in EnclosingIn(s, ts2, j) \cup {0}
    BY <2>2, <2>3, <2>4 DEF ConsistentIn
  <2>6. IndentAt(s, ts2, j) = IndentAt(s, ts, j) /\ EnclosingIn(s, ts2, j) = EnclosingIn(s, ts, j)
    BY FirstAre, IndentSame, EnclosingSame
  <2>7. EnclosingIn(s, ts, j) \subseteq OpenIn(s, ts)
    <3>1. \A a, k \in FirstIn(ts) : k >= a => k \in a..j
      BY <2>1, <2>3
    <3>2. \A a \in FirstIn(ts) :
            (\A k \in FirstIn(ts) : k \in a..j => IndentAt(s, ts, k) >= IndentAt(s, ts, a))
            => \A k \in FirstIn(ts) : k >= a => IndentAt(s, ts, k) >= IndentAt(s, ts, a)
      BY <3>1
    <3>3. \A e \in EnclosingIn(s, ts, j) : \E a \in FirstIn(ts) :
            /\ e = IndentAt(s, ts, a)
            /\ \A k \in FirstIn(ts) : k \in a..j => IndentAt(s, ts, k) >= IndentAt(s, ts, a)
      BY DEF EnclosingIn
    <3>4. \A a \in FirstIn(ts) :
            (\A k \in FirstIn(ts) : k >= a => IndentAt(s, ts, k) >= IndentAt(s, ts, a))
            => IndentAt(s, ts, a) \in OpenIn(s, ts)
      BY DEF OpenIn
    <3> QED
      BY <3>2, <3>3, <3>4
  <2>8. \A e \in OpenIn(s, ts) : e \in Nat /\ e <= IndentAt(s, ts, j)
    <3>1. \A a \in FirstIn(ts) : j >= a
      BY <2>1, <2>3
    <3>2. \A e \in OpenIn(s, ts) : e = 0 \/ \E a \in FirstIn(ts) :
            e = IndentAt(s, ts, a) /\ IndentAt(s, ts, j) >= IndentAt(s, ts, a)
      BY <3>1 DEF OpenIn
    <3> QED
      BY <3>2
  <2>9. 0 \in OpenIn(s, ts)
    BY DEF OpenIn
  <2>10. CASE m > IndentAt(s, ts, j)
    BY <2>8, <2>10
  <2> QED
    BY <2>5, <2>6, <2>7, <2>9, <2>10
<1> QED
  BY <1>1, <1>2

(* Where the line of a token starts, and its indentation.                  *)
LEMMA LineStartIs ==
  ASSUME NEW s, NEW l, NEW a \in Nat, NEW c, LineAt(s, l, a, c)
  PROVE  LineStartIn(s, a) = l
<1>1. /\ l \in Nat /\ c \in Nat /\ l <= c /\ (a = l \/ a = c) /\ l \in 0..a
      /\ StartsLine(s, l) /\ Spaces(s, l, c) /\ TextAt(s, c) \notin Layout
  BY DEF LineAt
<1>2. SameLineIn(s, l, a)
  <2>1. \A r \in l..a : r = c \/ r \in l..(c - 1)
    BY <1>1
  <2>2. "sp" \notin NewLines /\ NewLines \subseteq Layout
    BY DEF NewLines, Layout, BlankStart
  <2> QED
    BY <1>1, <2>1, <2>2 DEF SameLineIn, Spaces
<1>3. ASSUME NEW p \in 0..a, StartsLine(s, p), SameLineIn(s, p, a)
      PROVE  p = l
  <2>1. ~(p < l)
    <3>1. SUFFICES ASSUME p < l
                   PROVE  FALSE
      OBVIOUS
    <3>2. l - 1 \in p..a /\ l # 0
      BY <1>1, <3>1
    <3> QED
      BY <1>1, <1>3, <3>2 DEF StartsLine, SameLineIn
  <2>2. ~(l < p)
    <3>1. SUFFICES ASSUME l < p
                   PROVE  FALSE
      OBVIOUS
    <3>2. p - 1 \in l..a /\ p # 0
      BY <1>1, <3>1
    <3> QED
      BY <1>2, <1>3, <3>2 DEF StartsLine, SameLineIn
  <2> QED
    BY <1>1, <1>3, <2>1, <2>2
<1> QED
  BY <1>1, <1>2, <1>3 DEF LineStartIn

LEMMA IndentationIs ==
  ASSUME NEW s, Len(s) \in Nat, NEW l, NEW a \in Nat, NEW c, LineAt(s, l, a, c)
  PROVE  IndentationIn(s, a) = c - l /\ c - l \in Nat
<1>1. /\ l \in Nat /\ c \in Nat /\ l <= c /\ c <= Len(s)
      /\ Spaces(s, l, c) /\ TextAt(s, c) \notin Layout
  BY DEF LineAt
<1>2. LineStartIn(s, a) = l
  BY LineStartIs
<1> DEFINE Fits(n) == /\ \A p \in l..(l + n - 1) : TextAt(s, p) = "sp"
                      /\ TextAt(s, l + n) # "sp"
<1>3. IndentationIn(s, a) = CHOOSE n \in 0..Len(s) : Fits(n)
  BY <1>2 DEF IndentationIn
<1>4. c - l \in 0..Len(s) /\ c - l \in Nat /\ l + (c - l) = c
  BY <1>1
<1>5. Fits(c - l)
  <2>1. "sp" \in Layout
    BY DEF Layout
  <2>2. \A p \in l..(l + (c - l) - 1) : p \in l..(c - 1)
    BY <1>1
  <2> QED
    BY <1>1, <1>4, <2>1, <2>2 DEF Spaces
<1>6. ASSUME NEW n \in 0..Len(s), Fits(n)
      PROVE  n = c - l
  <2>1. ~(n < c - l)
    <3>1. n < c - l => l + n \in l..(c - 1)
      BY <1>1, <1>6
    <3> QED
      BY <1>1, <1>6, <3>1 DEF Spaces
  <2>2. ~(c - l < n)
    <3>1. c - l < n => c \in l..(l + n - 1)
      BY <1>1, <1>6
    <3>2. TextAt(s, c) # "sp"
      BY <1>1 DEF Layout
    <3> QED
      BY <1>6, <3>1, <3>2
  <2> QED
    BY <1>1, <1>4, <1>6, <2>1, <2>2
<1> HIDE DEF Fits
<1> QED
  BY <1>3, <1>4, <1>5, <1>6

LEMMA LevelsNext ==
  ASSUME NEW V, NEW E, E \subseteq Nat, 0 \in E, NEW m \in Nat, LevelsFor(V, E, m),
         m \in E \/ \A e \in E : m > e
  PROVE  \A e : e \in V <=> e \in {0, m} \/ (e \in E /\ e <= m)
<1>1. 0 <= m /\ m <= m
  OBVIOUS
<1>2. m \in V
  BY <1>1 DEF LevelsFor
<1> QED
  BY <1>1, <1>2 DEF LevelsFor

(* INDENT and DEDENT tokens, counted.                                      *)
LEMMA MarksFinite ==
  ASSUME NEW ts, NEW i \in Nat, NEW type
  PROVE  IsFiniteSet(Marks(ts, i, type)) /\ Cardinality(Marks(ts, i, type)) \in Nat
<1>1. Marks(ts, i, type) \in SUBSET (1..i)
  BY DEF Marks
<1>2. IsFiniteSet(1..i)
  <2>1. 1 \in Int /\ i \in Int
    OBVIOUS
  <2> QED
    BY ONLY <2>1, FS_Interval
<1>3. IsFiniteSet(Marks(ts, i, type))
  BY ONLY <1>1, <1>2, FS_Subset
<1> QED
  BY ONLY <1>3, FS_CardinalityType

LEMMA DepthSame ==
  ASSUME NEW ts, NEW t, NEW ts2, Appended(ts, t, ts2), NEW i \in Nat, i <= Len(ts)
  PROVE  DepthIn(ts2, i) = DepthIn(ts, i)
<1>1. \A j \in 1..i : ts2[j] = ts[j]
  BY DEF Appended
<1>2. \A type : Marks(ts2, i, type) = Marks(ts, i, type)
  BY <1>1 DEF Marks
<1> QED
  BY <1>2 DEF DepthIn

LEMMA MarksNext ==
  ASSUME NEW ts, NEW t, NEW ts2, Appended(ts, t, ts2), NEW type
  PROVE  Cardinality(Marks(ts2, Len(ts2), type)) =
           Cardinality(Marks(ts, Len(ts), type)) + (IF t.type = type THEN 1 ELSE 0)
<1> DEFINE n == Len(ts)
<1>1. /\ n \in Nat /\ Len(ts2) = n + 1 /\ ts2[n + 1] = t
      /\ \A j \in 1..n : ts2[j] = ts[j]
  BY DEF Appended
<1>2. \A j : j \in 1..(n + 1) <=> j \in 1..n \/ j = n + 1
  BY <1>1
<1>3. n + 1 \notin 1..n
  BY <1>1
<1>4. IsFiniteSet(Marks(ts, n, type)) /\ Cardinality(Marks(ts, n, type)) \in Nat
  BY <1>1, MarksFinite
<1> HIDE DEF n
<1>5. CASE t.type = type
  <2>1. /\ Marks(ts2, n + 1, type) = Marks(ts, n, type) \cup {n + 1}
        /\ n + 1 \notin Marks(ts, n, type)
    BY <1>1, <1>2, <1>3, <1>5 DEF Marks
  <2>2. Cardinality(Marks(ts2, n + 1, type)) = Cardinality(Marks(ts, n, type)) + 1
    BY <1>4, <2>1, FS_AddElement
  <2> QED
    BY <1>1, <1>5, <2>2 DEF n
<1>6. CASE t.type # type
  <2>1. Marks(ts2, n + 1, type) = Marks(ts, n, type)
    BY <1>1, <1>2, <1>3, <1>6 DEF Marks
  <2>2. Cardinality(Marks(ts, n, type)) + 0 = Cardinality(Marks(ts, n, type))
    BY <1>4
  <2> QED
    BY <1>1, <1>6, <2>1, <2>2 DEF n
<1> QED
  BY <1>5, <1>6

LEMMA DepthNext ==
  ASSUME NEW ts, NEW t, NEW ts2, Appended(ts, t, ts2)
  PROVE  /\ DepthIn(ts, Len(ts)) \in Int
         /\ t.type = "INDENT" => DepthIn(ts2, Len(ts2)) = DepthIn(ts, Len(ts)) + 1
         /\ t.type = "DEDENT" => DepthIn(ts2, Len(ts2)) = DepthIn(ts, Len(ts)) - 1
         /\ t.type \notin {"INDENT", "DEDENT"} =>
              DepthIn(ts2, Len(ts2)) = DepthIn(ts, Len(ts))
<1>1. /\ Cardinality(Marks(ts, Len(ts), "INDENT")) \in Nat
      /\ Cardinality(Marks(ts, Len(ts), "DEDENT")) \in Nat
  BY MarksFinite DEF Appended
<1>2. /\ Cardinality(Marks(ts2, Len(ts2), "INDENT")) =
           Cardinality(Marks(ts, Len(ts), "INDENT")) + (IF t.type = "INDENT" THEN 1 ELSE 0)
      /\ Cardinality(Marks(ts2, Len(ts2), "DEDENT")) =
           Cardinality(Marks(ts, Len(ts), "DEDENT")) + (IF t.type = "DEDENT" THEN 1 ELSE 0)
  BY MarksNext
<1> QED
  BY <1>1, <1>2 DEF DepthIn

LEMMA Appends ==
  ASSUME TypeOK, NEW type, NEW to, AddToken(type, to), type \in TokenTypes, to \in Nat
  PROVE  Appended(tokens, [type |-> type, from |-> start, to |-> to], tokens')
<1>1. tokens \in Seq(Tokens) /\ [type |-> type, from |-> start, to |-> to] \in Tokens
  BY DEF TypeOK, Tokens
<1>2. tokens' = Append(tokens, [type |-> type, from |-> start, to |-> to])
  BY DEF AddToken
<1> DEFINE t == [type |-> type, from |-> start, to |-> to]
<1> HIDE DEF t
<1>3. /\ Len(tokens) \in Nat /\ Len(Append(tokens, t)) = Len(tokens) + 1
      /\ \A i \in 1..Len(tokens) : Append(tokens, t)[i] = tokens[i]
      /\ Append(tokens, t)[Len(tokens) + 1] = t
  BY <1>1 DEF t
<1> QED
  BY <1>2, <1>3 DEF Appended, t

(* The stack of levels, pushed and popped.                                 *)
LEMMA LevelsPush ==
  ASSUME TypeOK, LevelsCounted, Len(levels) > 0, NEW n \in Nat, n > Top,
         levels' = Append(levels, n)
  PROVE  /\ Levels' = Levels \cup {n} /\ Len(levels') = Len(levels) + 1
         /\ \A a, b \in 1..Len(levels') : a < b => levels'[a] < levels'[b]
         /\ IsFiniteSet(Levels') /\ Cardinality(Levels') = Len(levels')
         /\ \A e \in Levels : e <= Top
<1> DEFINE k == Len(levels)
<1>1. /\ k \in Nat /\ k > 0 /\ Len(levels') = k + 1 /\ levels'[k + 1] = n
      /\ \A i \in 1..k : levels'[i] = levels[i] /\ levels[i] \in Nat
  BY DEF TypeOK
<1>2. \A i : i \in 1..(k + 1) <=> i \in 1..k \/ i = k + 1
  BY <1>1
<1>3. Top = levels[k] /\ k \in 1..k
  BY <1>1 DEF Top
<1>4. \A a, b \in 1..k : a < b => levels[a] < levels[b]
  BY DEF LevelsCounted
<1>5. Levels = {levels[i] : i \in 1..k} /\ Levels' = {levels'[i] : i \in 1..(k + 1)}
  BY <1>1 DEF Levels
<1>6. IsFiniteSet(Levels) /\ Cardinality(Levels) = k
  BY DEF LevelsCounted
<1> HIDE DEF k
<1>7. \A i \in 1..k : levels[i] <= levels[k]
  <2>1. \A i \in 1..k : i = k \/ i < k
    BY <1>1
  <2>2. \A i \in 1..k : levels[i] <= levels[i]
    BY <1>1
  <2>3. \A i \in 1..k : levels[i] < levels[k] => levels[i] <= levels[k]
    BY <1>1, <1>3
  <2> QED
    BY <1>3, <1>4, <2>1, <2>2, <2>3
<1>8. \A i \in 1..k : levels[i] < n
  BY <1>1, <1>3, <1>7
<1>9. Levels' = Levels \cup {n}
  BY <1>1, <1>2, <1>5
<1>10. n \notin Levels
  <2>1. ~(n < n)
    OBVIOUS
  <2> QED
    BY <1>5, <1>8, <2>1
<1>11. IsFiniteSet(Levels') /\ Cardinality(Levels') = k + 1
  BY <1>6, <1>9, <1>10, FS_AddElement
<1>12. \A a, b \in 1..(k + 1) : a < b => levels'[a] < levels'[b]
  <2>1. \A a, b \in 1..(k + 1) : a < b => a \in 1..k
    BY <1>1
  <2> QED
    BY <1>1, <1>2, <1>4, <1>8, <2>1
<1> QED
  BY <1>1, <1>3, <1>5, <1>7, <1>9, <1>11, <1>12 DEF k

LEMMA LevelsPop ==
  ASSUME TypeOK, LevelsCounted, Len(levels) > 0,
         levels' = SubSeq(levels, 1, Len(levels) - 1)
  PROVE  /\ Levels' = Levels \ {Top} /\ Len(levels') = Len(levels) - 1
         /\ \A a, b \in 1..Len(levels') : a < b => levels'[a] < levels'[b]
         /\ IsFiniteSet(Levels') /\ Cardinality(Levels') = Len(levels')
<1> DEFINE k == Len(levels)
<1>1. /\ k \in Nat /\ k > 0 /\ \A i \in 1..k : levels[i] \in Nat
  BY DEF TypeOK
<1>2. Len(levels') = k - 1 /\ \A i \in 1..(k - 1) : levels'[i] = levels[i]
  BY PopType
<1>3. Top = levels[k] /\ k \in 1..k
  BY <1>1 DEF Top
<1>4. \A a, b \in 1..k : a < b => levels[a] < levels[b]
  BY DEF LevelsCounted
<1>5. Levels = {levels[i] : i \in 1..k} /\ Levels' = {levels'[i] : i \in 1..(k - 1)}
  BY <1>2 DEF Levels
<1>6. IsFiniteSet(Levels) /\ Cardinality(Levels) = k
  BY DEF LevelsCounted
<1> HIDE DEF k
<1>7. \A i : i \in 1..(k - 1) <=> i \in 1..k /\ i # k
  BY <1>1
<1>8. \A i \in 1..(k - 1) : levels[i] # levels[k]
  <2>1. \A i \in 1..(k - 1) : i < k
    BY <1>1
  <2>2. ~(levels[k] < levels[k])
    BY <1>1, <1>3
  <2> QED
    BY <1>3, <1>4, <1>7, <2>1, <2>2
<1>9. Levels' = Levels \ {Top}
  BY <1>2, <1>3, <1>5, <1>7, <1>8
<1>10. Top \in Levels
  BY <1>3, <1>5
<1>11. IsFiniteSet(Levels') /\ Cardinality(Levels') = k - 1
  BY <1>6, <1>9, <1>10, FS_RemoveElement
<1> QED
  BY <1>2, <1>4, <1>7, <1>9, <1>11 DEF k

LEMMA TopIsHighest ==
  ASSUME TypeOK, LevelsCounted, Len(levels) > 0
  PROVE  /\ Top \in Levels /\ Top \in Nat
         /\ \A e \in Levels : e \in Nat /\ e <= Top
<1> DEFINE k == Len(levels)
<1>1. k \in Nat /\ k > 0 /\ k \in 1..k /\ \A i \in 1..k : levels[i] \in Nat
  BY DEF TypeOK
<1>2. \A a, b \in 1..k : a < b => levels[a] < levels[b]
  BY DEF LevelsCounted
<1>3. Levels = {levels[i] : i \in 1..k} /\ Top = levels[k]
  BY DEF Levels, Top
<1> HIDE DEF k
<1>4. \A i \in 1..k : levels[i] <= levels[k]
  <2>1. \A i \in 1..k : i = k \/ i < k
    BY <1>1
  <2> QED
    BY <1>1, <1>2, <2>1
<1> QED
  BY <1>1, <1>3, <1>4

LEMMA NestedSame ==
  ASSUME NEW s, NEW ts, NEW t, NEW ts2, Appended(ts, t, ts2), ~StartsContent(ts, t),
         LinesNested(s, ts)
  PROVE  LinesNested(s, ts2)
<1>1. FirstIn(ts2) = FirstIn(ts)
  BY OpenSame
<1>2. \A i \in FirstIn(ts) : i \in Nat /\ i <= Len(ts)
  BY FirstAre DEF Appended
<1>3. \A i \in FirstIn(ts) :
        /\ IndentAt(s, ts2, i) = IndentAt(s, ts, i)
        /\ EnclosingIn(s, ts2, i) = EnclosingIn(s, ts, i)
        /\ DepthIn(ts2, i) = DepthIn(ts, i)
  BY <1>2, FirstAre, IndentSame, EnclosingSame, DepthSame
<1> QED
  BY <1>1, <1>3 DEF LinesNested

LEMMA OpenAreOffsets ==
  ASSUME NEW s, NEW ts, LinesNested(s, ts)
  PROVE  OpenIn(s, ts) \subseteq Nat /\ 0 \in OpenIn(s, ts)
BY DEF OpenIn, LinesNested

LEMMA BlockInit == Init => BlockInv
<1> SUFFICES ASSUME Init
             PROVE  BlockInv
  OBVIOUS
<1>1. /\ tokens = <<>> /\ Len(tokens) = 0 /\ levels = <<0>> /\ Len(levels) = 1
      /\ levels[1] = 0 /\ start = 0 /\ blank /\ pc = "indent"
  BY DEF Init
<1>2. 1..Len(tokens) = {} /\ 1..Len(levels) = {1}
  BY <1>1
<1>3. FirstIn(tokens) = {} /\ \A type : Marks(tokens, Len(tokens), type) = {}
  BY <1>2 DEF FirstIn, Marks
<1>4. Levels = {0} /\ OpenIn(buf, tokens) = {0}
  BY <1>1, <1>2, <1>3 DEF Levels, OpenIn
<1>5. IsFiniteSet(Levels) /\ Cardinality(Levels) = 1
  <2>1. Levels = {} \cup {0}
    BY <1>4
  <2>2. Cardinality({} \cup {0}) = 0 + 1 /\ IsFiniteSet({} \cup {0})
    BY FS_EmptySet, FS_AddElement
  <2> QED
    BY <2>1, <2>2
<1>6. DepthIn(tokens, Len(tokens)) = 0
  BY <1>3, FS_EmptySet DEF DepthIn
<1>7. \A a, b \in 1..Len(levels) : ~(a < b)
  BY <1>2
<1>8. LevelsCounted
  BY <1>1, <1>5, <1>6, <1>7 DEF LevelsCounted
<1>9. LevelsPlaced
  BY <1>1, <1>4 DEF LevelsPlaced
<1> QED
  BY <1>1, <1>3, <1>8, <1>9 DEF BlockInv, HasLast, StartsLine, LinesNested

(* A step that goes on with the lexeme.                                    *)
LEMMA BlockQuiet ==
  ASSUME BlockInv, buf' = buf, tokens' = tokens, start' = start, levels' = levels,
         blank' = blank, pc # "dedent", pc' # "dedent", pc' = "indent" => pc = "indent",
         pc \in {"flush", "done"} => pc' \in {"flush", "done"}
  PROVE  BlockInv'
<1>1. LevelsCounted'
  BY DEF BlockInv, LevelsCounted, Levels
<1>2. LastType' = LastType /\ Levels' = Levels
  BY DEF LastType, Levels
<1>3. LevelsPlaced => LevelsPlaced'
  BY <1>2 DEF LevelsPlaced
<1> QED
  BY <1>1, <1>3 DEF BlockInv

(* A token that ends a line or a block, or opens a block.                  *)
LEMMA MarkAdded ==
  ASSUME TypeOK, BlockInv, buf' = buf, NEW type \in {"NEWLINE", "INDENT", "DEDENT"},
         NEW to \in Nat, AddToken(type, to)
  PROVE  /\ HasLast(tokens') /\ OpenIn(buf', tokens') = OpenIn(buf, tokens)
         /\ ConsistentIn(buf', tokens') =>
              /\ ConsistentIn(buf, tokens) /\ LevelsPlaced /\ LinesNested(buf, tokens)
              /\ LinesNested(buf', tokens')
         /\ LastType' = type /\ LastType' \notin ContentTypes
         /\ type = "INDENT" =>
              DepthIn(tokens', Len(tokens')) = DepthIn(tokens, Len(tokens)) + 1
         /\ type = "DEDENT" =>
              DepthIn(tokens', Len(tokens')) = DepthIn(tokens, Len(tokens)) - 1
         /\ type = "NEWLINE" =>
              DepthIn(tokens', Len(tokens')) = DepthIn(tokens, Len(tokens))
<1> DEFINE t == [type |-> type, from |-> start, to |-> to]
<1>1. type \in TokenTypes /\ type \notin ContentTypes
  <2>1. ContentTypes \cap {"NEWLINE", "INDENT", "DEDENT"} = {}
    <3>1. \A op \in OneCharOps : op[2] \notin {"NEWLINE", "INDENT", "DEDENT"}
      BY DEF OneCharOps
    <3>2. \A op \in TwoCharOps : {op[3], op[4]} \cap {"NEWLINE", "INDENT", "DEDENT"} = {}
      BY DEF TwoCharOps
    <3> QED
      BY <3>1, <3>2 DEF ContentTypes
  <2> QED
    BY <2>1 DEF TokenTypes
<1>2. Appended(tokens, t, tokens') /\ t.type = type
  BY <1>1, Appends
<1> HIDE DEF t
<1>3. ~StartsContent(tokens, t)
  BY <1>1, <1>2 DEF StartsContent
<1>4. HasLast(tokens') /\ OpenIn(buf, tokens') = OpenIn(buf, tokens)
  BY <1>2, <1>3, LastNext, OpenSame DEF BlockInv
<1>5. ConsistentIn(buf, tokens') =>
        /\ ConsistentIn(buf, tokens) /\ LevelsPlaced /\ LinesNested(buf, tokens)
        /\ LinesNested(buf, tokens')
  BY <1>2, <1>3, ConsistentBefore, NestedSame DEF BlockInv
<1>6. LastType' = type
  BY <1>1, LastAdded
<1>7. /\ type = "INDENT" => DepthIn(tokens', Len(tokens')) = DepthIn(tokens, Len(tokens)) + 1
      /\ type = "DEDENT" => DepthIn(tokens', Len(tokens')) = DepthIn(tokens, Len(tokens)) - 1
      /\ type = "NEWLINE" => DepthIn(tokens', Len(tokens')) = DepthIn(tokens, Len(tokens))
  BY <1>2, DepthNext
<1> QED
  BY <1>1, <1>4, <1>5, <1>6, <1>7

(* A token of a line's content.                                            *)
LEMMA BlockContent ==
  ASSUME TypeOK, LineInv, BlockInv, buf' = buf, NEW type \in ContentTypes, NEW to \in Nat,
         AddToken(type, to), levels' = levels, Len(levels) > 0, blank' = blank, ~blank,
         pc \in {"top", "number", "word", "string"}, pc' = "next"
  PROVE  BlockInv'
<1> DEFINE t == [type |-> type, from |-> start, to |-> to]
           n == Len(tokens) + 1
<1>1. type \in TokenTypes /\ type \notin {"INDENT", "DEDENT"}
  <2>1. \A op \in OneCharOps : op[2] \notin {"INDENT", "DEDENT"}
    BY DEF OneCharOps
  <2>2. \A op \in TwoCharOps : op[3] \notin {"INDENT", "DEDENT"} /\ op[4] \notin {"INDENT", "DEDENT"}
    BY DEF TwoCharOps
  <2> QED
    BY <2>1, <2>2 DEF TokenTypes, ContentTypes
<1>2. Appended(tokens, t, tokens') /\ t.type = type /\ t.from = start
  BY <1>1, Appends
<1> HIDE DEF t
<1>3. LastType' = type
  BY <1>1, LastAdded
<1>4. HasLast(tokens')
  BY <1>2, LastNext DEF BlockInv
<1>5. Levels' = Levels
  BY DEF Levels
<1>6. DepthIn(tokens', Len(tokens')) = DepthIn(tokens, Len(tokens))
  BY <1>1, <1>2, DepthNext
<1>7. LevelsCounted'
  BY <1>5, <1>6 DEF BlockInv, LevelsCounted
<1>8. ASSUME ConsistentIn(buf, tokens')
      PROVE  Levels = OpenIn(buf, tokens') /\ LinesNested(buf, tokens')
  <2>1. ConsistentIn(buf, tokens) /\ LevelsPlaced /\ LinesNested(buf, tokens)
    BY <1>2, <1>8, ConsistentBefore DEF BlockInv
  <2>2. CASE ~StartsContent(tokens, t)
    <3>1. LastType \in ContentTypes
      BY <1>2, <2>2 DEF StartsContent, LastType
    <3>2. Levels = OpenIn(buf, tokens)
      BY <2>1, <3>1 DEF LevelsPlaced
    <3> QED
      BY <1>2, <2>1, <2>2, <3>2, OpenSame, NestedSame
  <2>3. CASE StartsContent(tokens, t)
    <3> DEFINE E == OpenIn(buf, tokens)
    <3>1. LastType \notin ContentTypes
      <4>1. "NEWLINE" \notin ContentTypes
        <5>1. \A op \in OneCharOps : op[2] # "NEWLINE"
          BY DEF OneCharOps
        <5>2. \A op \in TwoCharOps : op[3] # "NEWLINE" /\ op[4] # "NEWLINE"
          BY DEF TwoCharOps
        <5> QED
          BY <5>1, <5>2 DEF ContentTypes
      <4> QED
        BY <2>3, <4>1 DEF StartsContent, LastType
    <3>2. PICK l, c \in Nat : LineAt(buf, l, start, c) /\ LevelsFor(Levels, E, c - l)
      BY <2>1, <3>1 DEF LevelsPlaced
    <3>3. Len(buf) \in Nat /\ start \in Nat
      BY LexerAssumption DEF TypeOK
    <3>4. IndentationIn(buf, start) = c - l /\ c - l \in Nat
      BY <3>2, <3>3, IndentationIs
    <3> DEFINE m == c - l
    <3>5. IndentAt(buf, tokens', n) = m /\ m \in Nat
      BY <1>2, <3>4 DEF IndentAt, Appended
    <3>6. \A j \in FirstIn(tokens) : IndentAt(buf, tokens, j) \in Nat
      BY <2>1 DEF LinesNested
    <3>7. E \subseteq Nat /\ 0 \in E
      BY <2>1, OpenAreOffsets
    <3>8. LevelsFor(Levels, E, m)
      BY <3>2
    <3>9. HasLast(tokens)
      BY DEF BlockInv
    <3> HIDE DEF m
    <3>10. m \in E \/ \A e \in E : m > e
      BY <1>2, <1>8, <2>3, <3>5, <3>6, <3>9, ConsistentNext
    <3>11. /\ OpenIn(buf, tokens') = {0, m} \cup {e \in E : e <= m}
           /\ EnclosingIn(buf, tokens', n) = OpenIn(buf, tokens') \ {0}
      BY <1>2, <2>3, <3>5, <3>6, OpenNext
    <3>12. Levels = {0, m} \cup {e \in E : e <= m}
      <4> HIDE DEF E
      <4>1. \A e : e \in Levels <=> e \in {0, m} \/ (e \in E /\ e <= m)
        <5>1. m \in Nat
          BY <3>5
        <5> QED
          BY ONLY <3>7, <3>8, <3>10, <5>1, LevelsNext
      <4> QED
        BY ONLY <4>1
    <3>13. Levels = OpenIn(buf, tokens')
      BY <3>11, <3>12
    <3>14. Len(tokens') = n
      BY <1>2 DEF Appended
    <3>15. DepthIn(tokens', n) = Len(levels) - 1
      BY <1>6, <3>14 DEF BlockInv, LevelsCounted
    <3>16. Cardinality(Levels \ {0}) = Len(levels) - 1
      <4>1. 0 \in Levels
        BY <3>12
      <4>2. IsFiniteSet(Levels) /\ Cardinality(Levels) = Len(levels)
        BY DEF BlockInv, LevelsCounted
      <4> QED
        BY ONLY <4>1, <4>2, FS_RemoveElement
    <3>17. DepthIn(tokens', n) = Cardinality(EnclosingIn(buf, tokens', n))
      BY <3>11, <3>13, <3>15, <3>16
    <3>18. \A i \in FirstIn(tokens) :
             /\ IndentAt(buf, tokens', i) \in Nat
             /\ DepthIn(tokens', i) = Cardinality(EnclosingIn(buf, tokens', i))
      <4>1. \A i \in FirstIn(tokens) : i \in Nat /\ i <= Len(tokens)
        BY <1>2, FirstAre DEF Appended
      <4>2. \A i \in FirstIn(tokens) :
              /\ IndentAt(buf, tokens', i) = IndentAt(buf, tokens, i)
              /\ EnclosingIn(buf, tokens', i) = EnclosingIn(buf, tokens, i)
              /\ DepthIn(tokens', i) = DepthIn(tokens, i)
        BY <1>2, <4>1, FirstAre, IndentSame, EnclosingSame, DepthSame
      <4> QED
        BY <2>1, <4>2 DEF LinesNested
    <3>19. FirstIn(tokens') = FirstIn(tokens) \cup {n}
      BY <1>2, <2>3, FirstNext
    <3>20. LinesNested(buf, tokens')
      BY <3>5, <3>17, <3>18, <3>19 DEF LinesNested
    <3> QED
      BY <3>13, <3>20
  <2> QED
    BY <2>2, <2>3
<1>9. ConsistentIn(buf, tokens') => LevelsPlaced'
  BY <1>3, <1>5, <1>8 DEF LevelsPlaced
<1> QED
  BY <1>4, <1>7, <1>8, <1>9 DEF BlockInv

LEMMA BlockStep ==
  ASSUME TInv, BlockInv, [Next]_vars
  PROVE  BlockInv'
<1>a. /\ TypeOK /\ LineInv /\ Len(levels) > 0 /\ buf' = buf
      /\ cur \in Nat /\ start \in Nat /\ start <= cur /\ End \in Nat
      /\ cur + 1 \in Nat /\ cur + 2 \in Nat /\ ret \in {"top", "next"} /\ blank \in BOOLEAN
  BY BufferSame, LexerAssumption
     DEF TInv, IInv, LevelsInv, CursorInv, TypeOK, End
<1>b. Peek = TextAt(buf, cur)
  BY TextIs DEF Peek
<1>c. /\ Top \in Levels /\ Top \in Nat
      /\ \A e \in Levels : e \in Nat /\ e <= Top
  BY <1>a, TopIsHighest DEF BlockInv
<1>d. /\ \A op \in OneCharOps : op[1] \notin Layout \cup {"NUL"} /\ op[2] \in ContentTypes
      /\ \A op \in TwoCharOps :
           op[1] \notin Layout \cup {"NUL"} /\ op[3] \in ContentTypes /\ op[4] \in ContentTypes
      /\ {"INTLIT", "ID", "KEYWORD", "STRING", "IDSTRING", "INVALID"} \subseteq ContentTypes
  BY OperatorsAreContent DEF ContentTypes
<1>1. CASE IndentDeeper
  <2>1. /\ pc = "indent" /\ blank /\ AddToken("INDENT", cur) /\ cur - start > Top
        /\ levels' = Append(levels, cur - start) /\ pc' = ret /\ ~blank'
        /\ Peek \notin Layout
    BY <1>1, <1>a DEF IndentDeeper, Deeper, LineInv, Match, Layout
  <2>2. cur - start \in Nat /\ cur <= Len(buf) /\ start' = cur
    BY <2>1, <1>a DEF TInv, IInv, CursorInv, End, AddToken
  <2>3. /\ Levels' = Levels \cup {cur - start} /\ Len(levels') = Len(levels) + 1
        /\ \A a, b \in 1..Len(levels') : a < b => levels'[a] < levels'[b]
        /\ IsFiniteSet(Levels') /\ Cardinality(Levels') = Len(levels')
        /\ \A e \in Levels : e <= Top
    BY <1>a, <2>1, <2>2, LevelsPush DEF BlockInv
  <2>4. /\ HasLast(tokens') /\ OpenIn(buf', tokens') = OpenIn(buf, tokens)
        /\ ConsistentIn(buf', tokens') =>
             /\ ConsistentIn(buf, tokens) /\ LevelsPlaced /\ LinesNested(buf, tokens)
             /\ LinesNested(buf', tokens')
        /\ LastType' = "INDENT" /\ LastType' \notin ContentTypes
        /\ DepthIn(tokens', Len(tokens')) = DepthIn(tokens, Len(tokens)) + 1
    BY <1>a, <2>1, MarkAdded
  <2>5. LevelsCounted'
    <3>1. DepthIn(tokens, Len(tokens)) = Len(levels) - 1 /\ Len(levels) \in Nat
      BY <1>a DEF BlockInv, LevelsCounted, TypeOK
    <3>2. Len(levels) - 1 + 1 = Len(levels) + 1 - 1
      BY <3>1
    <3> QED
      BY <2>3, <2>4, <3>1, <3>2 DEF LevelsCounted
  <2>6. LineAt(buf, start, cur, cur)
    <3>1. Spaces(buf, start, cur)
      BY <2>1 DEF TInv, LexemeInv
    <3>2. StartsLine(buf, start)
      BY <2>1 DEF BlockInv
    <3> QED
      BY <1>a, <1>b, <2>1, <2>2, <3>1, <3>2 DEF LineAt
  <2>7. ASSUME LevelsPlaced
        PROVE  LevelsFor(Levels', OpenIn(buf, tokens), cur - start)
    <3>1. Levels = OpenIn(buf, tokens)
      BY <2>1, <2>7 DEF LevelsPlaced
    <3>2. \A e \in Levels : e <= cur - start
      BY <1>c, <2>1, <2>2
    <3>3. {e \in Levels : e <= cur - start} = Levels
      BY <3>2
    <3> QED
      BY <2>3, <3>1, <3>3 DEF LevelsFor
  <2>8. ASSUME LevelsPlaced
        PROVE  LevelsPlaced'
    <3>1. \E l, c \in Nat : LineAt(buf', l, start', c)
                            /\ LevelsFor(Levels', OpenIn(buf', tokens'), c - l)
      BY <1>a, <2>2, <2>4, <2>6, <2>7, <2>8
    <3>2. pc' # "dedent" /\ ~blank' /\ LastType' \notin ContentTypes
      BY <1>a, <2>1, <2>4
    <3> QED
      BY <3>1, <3>2 DEF LevelsPlaced
  <2>9. pc' # "indent"
    BY <1>a, <2>1
  <2> QED
    BY <2>4, <2>5, <2>8, <2>9 DEF BlockInv
<1>2. CASE IndentNotDeeper
  <2>1. /\ pc = "indent" /\ blank /\ ~(cur - start > Top) /\ level' = cur - start
        /\ pc' = "dedent" /\ ~blank' /\ Peek \notin Layout
        /\ start' = start /\ cur' = cur /\ tokens' = tokens /\ levels' = levels
    BY <1>2, <1>a DEF IndentNotDeeper, Deeper, LineInv, Match, Layout
  <2>2. cur <= Len(buf) /\ Spaces(buf, start, cur) /\ StartsLine(buf, start)
    BY <2>1 DEF TInv, IInv, CursorInv, End, LexemeInv, BlockInv
  <2>3. LevelsCounted' /\ Levels' = Levels /\ LastType' = LastType
    BY <2>1 DEF BlockInv, LevelsCounted, Levels, LastType
  <2>4. LastType = "NEWLINE" /\ "NEWLINE" \notin ContentTypes
    <3>1. \A op \in OneCharOps : op[2] # "NEWLINE"
      BY DEF OneCharOps
    <3>2. \A op \in TwoCharOps : op[3] # "NEWLINE" /\ op[4] # "NEWLINE"
      BY DEF TwoCharOps
    <3> QED
      BY <1>a, <2>1, <3>1, <3>2 DEF LineInv, ContentTypes
  <2>5. LineAt(buf, start, start, cur)
    BY <1>a, <1>b, <2>1, <2>2 DEF LineAt
  <2>6. ASSUME LevelsPlaced
        PROVE  LevelsPlaced'
    <3>1. Levels = OpenIn(buf, tokens)
      BY <2>1, <2>6 DEF LevelsPlaced
    <3>2. Top >= cur - start
      BY <1>a, <1>c, <2>1
    <3>3. /\ Levels \subseteq Levels /\ {e \in Levels : e <= cur - start} \subseteq Levels
          /\ \E e \in Levels : e >= cur - start
      BY <1>c, <3>2
    <3>4. \E l \in Nat :
            /\ LineAt(buf', l, start', cur') /\ level' = cur' - l
            /\ Levels' \subseteq OpenIn(buf', tokens')
            /\ {e \in OpenIn(buf', tokens') : e <= level'} \subseteq Levels'
            /\ \E e \in OpenIn(buf', tokens') : e >= level'
      BY <1>a, <2>1, <2>3, <2>5, <3>1, <3>3
    <3> QED
      BY <2>1, <2>3, <2>4, <3>4 DEF LevelsPlaced
  <2> QED
    BY <1>a, <2>1, <2>3, <2>6 DEF BlockInv
<1>3. CASE Dedent
  <2>1. /\ pc = "dedent" /\ level < Top /\ AddToken("DEDENT", cur)
        /\ levels' = SubSeq(levels, 1, Len(levels) - 1)
        /\ pc' = "dedent" /\ level' = level /\ ~blank /\ blank' = blank
        /\ cur' = cur /\ start' = cur
    BY <1>3, <1>a DEF Dedent, LineInv, AddToken
  <2>2. /\ Levels' = Levels \ {Top} /\ Len(levels') = Len(levels) - 1
        /\ \A a, b \in 1..Len(levels') : a < b => levels'[a] < levels'[b]
        /\ IsFiniteSet(Levels') /\ Cardinality(Levels') = Len(levels')
    BY <1>a, <2>1, LevelsPop DEF BlockInv
  <2>3. /\ HasLast(tokens') /\ OpenIn(buf', tokens') = OpenIn(buf, tokens)
        /\ ConsistentIn(buf', tokens') =>
             /\ ConsistentIn(buf, tokens) /\ LevelsPlaced /\ LinesNested(buf, tokens)
             /\ LinesNested(buf', tokens')
        /\ LastType' = "DEDENT" /\ LastType' \notin ContentTypes
        /\ DepthIn(tokens', Len(tokens')) = DepthIn(tokens, Len(tokens)) - 1
    BY <1>a, <2>1, MarkAdded
  <2>4. LevelsCounted'
    BY <2>2, <2>3 DEF LevelsCounted, BlockInv
  <2>5. ASSUME LevelsPlaced
        PROVE  LevelsPlaced'
    <3>1. PICK l \in Nat :
            /\ LineAt(buf, l, start, cur) /\ level = cur - l
            /\ Levels \subseteq OpenIn(buf, tokens)
            /\ {e \in OpenIn(buf, tokens) : e <= level} \subseteq Levels
            /\ \E e \in OpenIn(buf, tokens) : e >= level
      BY <2>1, <2>5 DEF LevelsPlaced
    <3>2. LineAt(buf, l, cur, cur)
      BY <3>1 DEF LineAt
    <3>3. ~(Top <= level)
      BY <1>a, <1>c, <2>1 DEF TypeOK
    <3>4. {e \in OpenIn(buf, tokens) : e <= level} \subseteq Levels \ {Top}
      BY <3>1, <3>3
    <3>5. \E l1 \in Nat :
            /\ LineAt(buf', l1, start', cur') /\ level' = cur' - l1
            /\ Levels' \subseteq OpenIn(buf', tokens')
            /\ {e \in OpenIn(buf', tokens') : e <= level'} \subseteq Levels'
            /\ \E e \in OpenIn(buf', tokens') : e >= level'
      BY <1>a, <2>1, <2>2, <2>3, <3>1, <3>2, <3>4
    <3> QED
      BY <2>1, <2>3, <3>5 DEF LevelsPlaced
  <2> QED
    BY <2>1, <2>3, <2>4, <2>5 DEF BlockInv
<1>4. CASE DedentDone
  <2>1. /\ pc = "dedent" /\ level >= Top /\ pc' = ret /\ ~blank /\ blank' = blank
        /\ start' = start /\ cur' = cur /\ tokens' = tokens /\ levels' = levels
        /\ LastType \in {"NEWLINE", "DEDENT"}
    BY <1>4, <1>a DEF DedentDone, LineInv
  <2>2. LevelsCounted' /\ Levels' = Levels /\ LastType' = LastType
    BY <2>1 DEF BlockInv, LevelsCounted, Levels, LastType
  <2>3. {"NEWLINE", "DEDENT"} \cap ContentTypes = {}
    <3>1. \A op \in OneCharOps : op[2] \notin {"NEWLINE", "DEDENT"}
      BY DEF OneCharOps
    <3>2. \A op \in TwoCharOps : op[3] \notin {"NEWLINE", "DEDENT"} /\ op[4] \notin {"NEWLINE", "DEDENT"}
      BY DEF TwoCharOps
    <3> QED
      BY <3>1, <3>2 DEF ContentTypes
  <2>4. ASSUME LevelsPlaced, LinesNested(buf, tokens)
        PROVE  LevelsPlaced'
    <3>1. PICK l \in Nat :
            /\ LineAt(buf, l, start, cur) /\ level = cur - l
            /\ Levels \subseteq OpenIn(buf, tokens)
            /\ {e \in OpenIn(buf, tokens) : e <= level} \subseteq Levels
            /\ \E e \in OpenIn(buf, tokens) : e >= level
      BY <2>1, <2>4 DEF LevelsPlaced
    <3>2. level \in Nat
      BY <1>a DEF TypeOK
    <3>3. \A e \in Levels : e <= level
      BY <1>c, <2>1, <3>2
    <3>4. Levels = {e \in OpenIn(buf, tokens) : e <= level}
      BY <3>1, <3>3
    <3>5. (\A e \in OpenIn(buf, tokens) : level > e) => level \in Levels
      <4>1. PICK e \in OpenIn(buf, tokens) : e >= level
        BY <3>1
      <4>2. e \in Nat
        BY <2>4, OpenAreOffsets
      <4>3. ~(level > e)
        BY <3>2, <4>1, <4>2
      <4> QED
        BY <4>1, <4>3
    <3>6. LevelsFor(Levels, OpenIn(buf, tokens), cur - l)
      BY <3>1, <3>4, <3>5 DEF LevelsFor
    <3>7. \E l1, c \in Nat : LineAt(buf', l1, start', c)
                             /\ LevelsFor(Levels', OpenIn(buf', tokens'), c - l1)
      BY <1>a, <2>1, <2>2, <3>1, <3>6
    <3>8. pc' # "dedent" /\ ~blank' /\ LastType' \notin ContentTypes
      BY <1>a, <2>1, <2>2, <2>3
    <3> QED
      BY <3>7, <3>8 DEF LevelsPlaced
  <2>5. pc' # "indent"
    BY <1>a, <2>1
  <2> QED
    BY <1>a, <2>1, <2>2, <2>4, <2>5 DEF BlockInv
<1>5. CASE Flush
  <2>1. /\ AddToken("DEDENT", cur) /\ levels' = SubSeq(levels, 1, Len(levels) - 1)
        /\ pc' = "flush"
    BY <1>5 DEF Flush
  <2>2. /\ Levels' = Levels \ {Top} /\ Len(levels') = Len(levels) - 1
        /\ \A a, b \in 1..Len(levels') : a < b => levels'[a] < levels'[b]
        /\ IsFiniteSet(Levels') /\ Cardinality(Levels') = Len(levels')
    BY <1>a, <2>1, LevelsPop DEF BlockInv
  <2>3. /\ HasLast(tokens')
        /\ ConsistentIn(buf', tokens') => LinesNested(buf', tokens')
        /\ DepthIn(tokens', Len(tokens')) = DepthIn(tokens, Len(tokens)) - 1
    BY <1>a, <2>1, MarkAdded
  <2>4. LevelsCounted'
    BY <2>2, <2>3 DEF LevelsCounted, BlockInv
  <2>5. LevelsPlaced'
    BY <2>1 DEF LevelsPlaced
  <2> QED
    BY <2>1, <2>3, <2>4, <2>5 DEF BlockInv
<1>6. CASE EndSkip
  <2>1. /\ tokens' = tokens /\ levels' = levels /\ blank' = blank /\ pc' = "next"
        /\ pc \in {"comment", "white"} /\ (blank \/ LastType \in ContentTypes)
    BY <1>6, <1>a DEF EndSkip, DropLexeme, LineInv
  <2>2. LevelsCounted' /\ Levels' = Levels /\ LastType' = LastType
    BY <2>1 DEF BlockInv, LevelsCounted, Levels, LastType
  <2>3. LevelsPlaced => LevelsPlaced'
    BY <1>a, <2>1, <2>2 DEF LevelsPlaced
  <2> QED
    BY <1>a, <2>1, <2>2, <2>3 DEF BlockInv
<1>7. CASE ScanNewLine
  <2> DEFINE to == IF Match({"CR"}) /\ FollowedBy("LF") THEN cur + 2 ELSE cur + 1
  <2>1. /\ pc = "top" /\ Peek \in NewLines /\ (IF blank THEN DropLexeme(to) ELSE AddToken("NEWLINE", to))
        /\ blank' /\ pc' = "indent" /\ levels' = levels
    BY <1>7 DEF ScanNewLine, Match
  <2>2. to \in Nat /\ to # 0 /\ start' = to /\ TextAt(buf, to - 1) \in NewLines
    <3>1. TextAt(buf, cur) \in NewLines
      BY <1>b, <2>1
    <3>2. FollowedBy("LF") => TextAt(buf, cur + 1) \in NewLines
      BY TextIs DEF FollowedBy, NewLines
    <3>3. cur + 2 - 1 = cur + 1 /\ cur + 1 - 1 = cur /\ cur + 1 # 0 /\ cur + 2 # 0
      BY <1>a
    <3>4. start' = to
      BY <2>1 DEF DropLexeme, AddToken
    <3> QED
      BY <1>a, <3>1, <3>2, <3>3, <3>4
  <2>3. StartsLine(buf', start')
    BY <1>a, <2>2 DEF StartsLine
  <2> HIDE DEF to
  <2>4. Levels' = Levels
    BY <2>1 DEF Levels
  <2>5. CASE blank
    <3>1. tokens' = tokens
      BY <2>1, <2>5 DEF DropLexeme
    <3>2. LevelsCounted'
      BY <2>1, <2>4, <3>1 DEF BlockInv, LevelsCounted
    <3>3. LevelsPlaced => LevelsPlaced'
      BY <1>a, <2>1, <2>4, <2>5, <3>1 DEF LevelsPlaced
    <3> QED
      BY <1>a, <2>3, <3>1, <3>2, <3>3 DEF BlockInv
  <2>6. CASE ~blank
    <3>1. AddToken("NEWLINE", to)
      BY <2>1, <2>6
    <3>2. /\ HasLast(tokens') /\ OpenIn(buf', tokens') = OpenIn(buf, tokens)
          /\ ConsistentIn(buf', tokens') =>
               /\ ConsistentIn(buf, tokens) /\ LevelsPlaced /\ LinesNested(buf, tokens)
               /\ LinesNested(buf', tokens')
          /\ DepthIn(tokens', Len(tokens')) = DepthIn(tokens, Len(tokens))
      BY <1>a, <2>2, <3>1, MarkAdded
    <3>3. LastType \in ContentTypes
      BY <1>a, <2>1, <2>6 DEF LineInv, Layout, BlankStart
    <3>4. LevelsCounted'
      BY <2>1, <2>4, <3>2 DEF LevelsCounted, BlockInv
    <3>5. LevelsPlaced => LevelsPlaced'
      BY <2>1, <2>4, <3>2, <3>3 DEF LevelsPlaced
    <3> QED
      BY <2>3, <3>2, <3>4, <3>5 DEF BlockInv
  <2> QED
    BY <2>5, <2>6
<1>8. CASE ScanOneCharOp
  <2>1. PICK op \in OneCharOps : Peek = op[1] /\ AddToken(op[2], cur + 1)
    BY <1>8 DEF ScanOneCharOp
  <2>2. ~blank
    BY <1>8, <1>a, <1>d, <2>1 DEF ScanOneCharOp, LineInv, Layout
  <2> QED
    BY <1>8, <1>a, <1>d, <2>1, <2>2, BlockContent DEF ScanOneCharOp
<1>9. CASE ScanTwoCharOp
  <2>1. PICK op \in TwoCharOps :
          /\ Peek = op[1]
          /\ AddToken(op[3], cur + 2) \/ AddToken(op[4], cur + 1)
    BY <1>9 DEF ScanTwoCharOp
  <2>2. ~blank
    BY <1>9, <1>a, <1>d, <2>1 DEF ScanTwoCharOp, LineInv, Layout
  <2> QED
    BY <1>9, <1>a, <1>d, <2>1, <2>2, BlockContent DEF ScanTwoCharOp
<1>10. CASE ScanUnexpected
  <2>1. ~blank
    BY <1>10, <1>a DEF ScanUnexpected, Match, LineInv, BlankStart, NewLines
  <2> QED
    BY <1>10, <1>a, <1>d, <2>1, BlockContent DEF ScanUnexpected
<1>11. CASE EndNumber
  <2>1. PICK type \in {"INTLIT", "INVALID"} : AddToken(type, cur)
    BY <1>11 DEF EndNumber
  <2> QED
    BY <1>11, <1>a, <1>d, <2>1, BlockContent DEF EndNumber, LineInv
<1>12. CASE EndWord
  <2>1. PICK type \in {"KEYWORD", "ID"} : AddToken(type, cur)
    BY <1>12 DEF EndWord
  <2> QED
    BY <1>12, <1>a, <1>d, <2>1, BlockContent DEF EndWord, LineInv
<1>13. CASE EndString
  <2>1. PICK type \in {"STRING", "IDSTRING", "INVALID"} : AddToken(type, Advanced)
    BY <1>13, <1>a DEF EndString, TypeOK
  <2>2. Advanced \in Nat
    BY <1>a DEF Advanced
  <2> QED
    BY <1>13, <1>a, <1>d, <2>1, <2>2, BlockContent DEF EndString, LineInv
<1>14. CASE \/ IndentWhitespace \/ IndentBlankLine \/ EnterRun \/ EnterString \/ ScanNul
            \/ NextChar \/ Run \/ StringChar \/ StringEscape \/ Return
  <2>1. /\ tokens' = tokens /\ start' = start /\ levels' = levels /\ blank' = blank
        /\ pc # "dedent"
    BY <1>14 DEF IndentWhitespace, IndentBlankLine, EnterRun, EnterString, ScanNul,
                 NextChar, Run, StringChar, StringEscape, Return
  <2>2. /\ pc' # "dedent" /\ (pc' = "indent" => pc = "indent")
        /\ pc \in {"flush", "done"} => pc' \in {"flush", "done"}
    <3>1. \A run \in RunOf : run[2] \in {"comment", "white", "number", "word"}
      BY DEF RunOf
    <3> QED
      BY <1>14, <1>a, <3>1 DEF IndentWhitespace, IndentBlankLine, EnterRun, EnterString,
                 ScanNul, NextChar, Run, StringChar, StringEscape, Return
  <2> QED
    BY <1>a, <2>1, <2>2, BlockQuiet
<1>15. CASE UNCHANGED vars
  <2>1. LevelsCounted' /\ Levels' = Levels /\ LastType' = LastType
    BY <1>15 DEF vars, BlockInv, LevelsCounted, Levels, LastType
  <2>2. LevelsPlaced => LevelsPlaced'
    BY <1>15, <2>1 DEF vars, LevelsPlaced
  <2> QED
    BY <1>15, <2>1, <2>2 DEF vars, BlockInv
<1> QED
  BY <1>1, <1>2, <1>3, <1>4, <1>5, <1>6, <1>7, <1>8, <1>9, <1>10, <1>11, <1>12,
     <1>13, <1>14, <1>15 DEF Next, HandleIndentation, Switch, Scan, Terminating

BInv == TInv /\ BlockInv

LEMMA InitBInv == Init => BInv
BY InitTInv, BlockInit DEF BInv

LEMMA NextBInv == BInv /\ [Next]_vars => BInv'
BY NextTInv, BlockStep DEF BInv

(* The stack of levels is the open blocks of the text, as long as no line  *)
(* goes back to where no block starts, whatever the source buffer.         *)
THEOREM LexerBlockInvariant == Spec => []BInv
BY InitBInv, NextBInv, PTL DEF Spec

LEMMA FirstIs == FirstOfLine = FirstIn(tokens)
BY DEF FirstOfLine, FirstIn, IsContent

LEMMA IndentationOf ==
  ASSUME NEW i
  PROVE  Indentation(i) = IndentAt(buf, tokens, i)
<1>1. LineStart(i) = LineStartIn(buf, tokens[i].from)
  BY DEF LineStart, LineStartIn, SameLine, SameLineIn, StartsLine, CharAt, TextAt, End
<1> QED
  BY <1>1 DEF Indentation, IndentAt, IndentationIn, CharAt, TextAt, End

LEMMA EnclosingOf ==
  ASSUME NEW i
  PROVE  Enclosing(i) = EnclosingIn(buf, tokens, i)
BY FirstIs, IndentationOf DEF Enclosing, EnclosingIn

LEMMA BlocksNest == BInv => BlocksFollowIndentation
<1> SUFFICES ASSUME BInv, ConsistentDedents, NEW i \in FirstOfLine
             PROVE  Depth(i) = Cardinality(Enclosing(i))
  BY DEF BlocksFollowIndentation
<1>1. ConsistentIn(buf, tokens)
  BY FirstIs, IndentationOf, EnclosingOf DEF ConsistentDedents, ConsistentIn
<1>2. DepthIn(tokens, i) = Cardinality(EnclosingIn(buf, tokens, i))
  BY <1>1, FirstIs DEF BInv, BlockInv, LinesNested
<1>3. Depth(i) = DepthIn(tokens, i)
  BY DEF Depth, DepthIn, Marks
<1> QED
  BY <1>2, <1>3, EnclosingOf

(* INDENT and DEDENT tokens nest as the lines of the text do, whatever the *)
(* source buffer, if every line goes back to an open block.                *)
THEOREM LexerBlocksFollowIndentation == Spec => []BlocksFollowIndentation
BY LexerBlockInvariant, BlocksNest, PTL

----------------------------------------------------------------------------
(* Blocks and indentation where lines go back to any column.  The          *)
(* definitions of DepthIsBounded for the text s and the tokens ts.         *)

GoesInAt(s, ts, j) ==
  \A k \in FirstIn(ts) :
    k < j /\ (\A h \in FirstIn(ts) : h \notin (k + 1)..(j - 1)) =>
      IndentAt(s, ts, k) < IndentAt(s, ts, j)

EnteredIn(s, ts, i) ==
  {IndentAt(s, ts, j) : j \in {j \in FirstIn(ts) : j <= i /\ GoesInAt(s, ts, j) /\
      \A k \in FirstIn(ts) : k \in j..i => IndentAt(s, ts, k) >= IndentAt(s, ts, j)}} \ {0}

(* The indentations in OpenIn to which a line has gone in.                 *)
EntryIn(s, ts) ==
  {0} \cup {IndentAt(s, ts, j) : j \in {j \in FirstIn(ts) : GoesInAt(s, ts, j) /\
              \A k \in FirstIn(ts) : k >= j => IndentAt(s, ts, k) >= IndentAt(s, ts, j)}}

(* The levels when a line with indentation m follows the open blocks E, of *)
(* which O have been entered.                                              *)
BetweenFor(V, O, E, m) ==
  /\ \A e \in V : e = m \/ (e \in E /\ e <= m)
  /\ \A e \in O : e <= m => e \in V
  /\ (\A e \in E : m > e) => m \in V

(* Between lines the levels are open blocks, all the entered ones among    *)
(* them; a dedent has popped as far as that holds for its own indentation. *)
LevelsBetween ==
  LET E == OpenIn(buf, tokens)
      O == EntryIn(buf, tokens)
  IN  pc \notin {"flush", "done"} =>
        /\ blank \/ LastType \in ContentTypes => O \subseteq Levels /\ Levels \subseteq E
        /\ pc = "dedent" =>
             \E l \in Nat :
               /\ LineAt(buf, l, start, cur) /\ level = cur - l
               /\ Levels \subseteq E /\ \A e \in O : e <= level => e \in Levels
               /\ \E e \in E : e >= level
        /\ pc # "dedent" /\ ~blank /\ LastType \notin ContentTypes =>
             \E l, c \in Nat : LineAt(buf, l, start, c) /\ BetweenFor(Levels, O, E, c - l)

LinesBounded(s, ts) ==
  \A i \in FirstIn(ts) :
    /\ IndentAt(s, ts, i) \in Nat
    /\ Cardinality(EnteredIn(s, ts, i)) <= DepthIn(ts, i)
    /\ DepthIn(ts, i) <= Cardinality(EnclosingIn(s, ts, i))

BoundInv == LevelsBetween /\ LinesBounded(buf, tokens)

LEMMA GoesInSame ==
  ASSUME NEW s, NEW ts, NEW t, NEW ts2, Appended(ts, t, ts2), NEW j \in FirstIn(ts)
  PROVE  GoesInAt(s, ts2, j) <=> GoesInAt(s, ts, j)
<1> DEFINE n == Len(ts) + 1
<1>1. FirstIn(ts) \subseteq FirstIn(ts2) /\ FirstIn(ts2) \subseteq FirstIn(ts) \cup {n}
  BY FirstNext
<1>2. n \in Nat /\ j \in Nat /\ j < n
  BY FirstAre, NewIsLast
<1>3. \A k \in FirstIn(ts) : IndentAt(s, ts2, k) = IndentAt(s, ts, k)
  BY FirstAre, IndentSame
<1> HIDE DEF n
<1>4. ~(n < j) /\ \A k \in FirstIn(ts) : n \notin (k + 1)..(j - 1)
  BY <1>2
<1>5. \A k \in FirstIn(ts) :
        (\A h \in FirstIn(ts2) : h \notin (k + 1)..(j - 1))
        <=> \A h \in FirstIn(ts) : h \notin (k + 1)..(j - 1)
  BY <1>1, <1>4
<1>6. \A k \in FirstIn(ts2) : k < j => k \in FirstIn(ts)
  BY <1>1, <1>4
<1> QED
  BY <1>1, <1>3, <1>5, <1>6 DEF GoesInAt

LEMMA EnteredSame ==
  ASSUME NEW s, NEW ts, NEW t, NEW ts2, Appended(ts, t, ts2), NEW i \in FirstIn(ts)
  PROVE  EnteredIn(s, ts2, i) = EnteredIn(s, ts, i)
<1> DEFINE n == Len(ts) + 1
<1>1. FirstIn(ts) \subseteq FirstIn(ts2) /\ FirstIn(ts2) \subseteq FirstIn(ts) \cup {n}
  BY FirstNext
<1>2. ~(n <= i) /\ \A j : n \notin j..i
  BY FirstAre, NewIsLast
<1>3. \A j \in FirstIn(ts) : IndentAt(s, ts2, j) = IndentAt(s, ts, j)
  BY FirstAre, IndentSame
<1>4. \A j \in FirstIn(ts) : GoesInAt(s, ts2, j) <=> GoesInAt(s, ts, j)
  BY GoesInSame
<1> HIDE DEF n
<1>5. ASSUME NEW j
      PROVE  /\ j \in FirstIn(ts2) /\ j <= i /\ GoesInAt(s, ts2, j)
             /\ \A k \in FirstIn(ts2) :
                  k \in j..i => IndentAt(s, ts2, k) >= IndentAt(s, ts2, j)
         <=> /\ j \in FirstIn(ts) /\ j <= i /\ GoesInAt(s, ts, j)
             /\ \A k \in FirstIn(ts) :
                  k \in j..i => IndentAt(s, ts, k) >= IndentAt(s, ts, j)
  BY <1>1, <1>2, <1>3, <1>4
<1> QED
  BY <1>3, <1>5 DEF EnteredIn

LEMMA EntrySame ==
  ASSUME NEW s, NEW ts, NEW t, NEW ts2, Appended(ts, t, ts2), ~StartsContent(ts, t)
  PROVE  EntryIn(s, ts2) = EntryIn(s, ts)
<1>1. FirstIn(ts2) = FirstIn(ts)
  BY FirstNext
<1>2. \A j \in FirstIn(ts) : IndentAt(s, ts2, j) = IndentAt(s, ts, j)
  BY FirstAre, IndentSame
<1>3. \A j \in FirstIn(ts) : GoesInAt(s, ts2, j) <=> GoesInAt(s, ts, j)
  BY GoesInSame
<1>4. ASSUME NEW j
      PROVE  /\ j \in FirstIn(ts2) /\ GoesInAt(s, ts2, j)
             /\ \A k \in FirstIn(ts2) : k >= j => IndentAt(s, ts2, k) >= IndentAt(s, ts2, j)
         <=> /\ j \in FirstIn(ts) /\ GoesInAt(s, ts, j)
             /\ \A k \in FirstIn(ts) : k >= j => IndentAt(s, ts, k) >= IndentAt(s, ts, j)
  BY <1>1, <1>2, <1>3
<1> QED
  BY <1>1, <1>2, <1>4 DEF EntryIn

(* A line that goes in is more indented than every open block.             *)
LEMMA NewGoesIn ==
  ASSUME NEW s, NEW ts, NEW t, NEW ts2, Appended(ts, t, ts2), StartsContent(ts, t),
         HasLast(ts), \A j \in FirstIn(ts) : IndentAt(s, ts, j) \in Nat,
         NEW m \in Nat, m = IndentAt(s, ts2, Len(ts) + 1), GoesInAt(s, ts2, Len(ts) + 1)
  PROVE  m = 0 \/ \A e \in OpenIn(s, ts) : m > e
<1> DEFINE n == Len(ts) + 1
<1>1. CASE FirstIn(ts) = {}
  <2>1. OpenIn(s, ts) = {0}
    BY <1>1 DEF OpenIn
  <2> QED
    BY <2>1
<1>2. CASE FirstIn(ts) # {}
  <2>1. PICK j \in FirstIn(ts) : \A k \in FirstIn(ts) : k <= j
    BY <1>2 DEF HasLast
  <2>2. FirstIn(ts2) = FirstIn(ts) \cup {n}
    BY FirstNext
  <2>3. n \in Nat /\ j \in Nat /\ j < n /\ \A k \in FirstIn(ts) : k \in Nat
    BY FirstAre, NewIsLast DEF Appended
  <2>4. IndentAt(s, ts2, n) = m /\ GoesInAt(s, ts2, n)
    OBVIOUS
  <2>5. IndentAt(s, ts2, j) = IndentAt(s, ts, j)
    BY FirstAre, IndentSame
  <2> HIDE DEF n
  <2>6. \A k \in FirstIn(ts2) : k \notin (j + 1)..(n - 1)
    BY <2>1, <2>2, <2>3
  <2>7. IndentAt(s, ts, j) < m
    BY <2>2, <2>3, <2>4, <2>5, <2>6 DEF GoesInAt
  <2>8. \A e \in OpenIn(s, ts) : e \in Nat /\ e <= IndentAt(s, ts, j)
    <3>1. \A a \in FirstIn(ts) : j >= a
      BY <2>1, <2>3
    <3>2. \A e \in OpenIn(s, ts) : e = 0 \/ \E a \in FirstIn(ts) :
            e = IndentAt(s, ts, a) /\ IndentAt(s, ts, j) >= IndentAt(s, ts, a)
      BY <3>1 DEF OpenIn
    <3> QED
      BY <3>2
  <2> QED
    BY <2>7, <2>8
<1> QED
  BY <1>1, <1>2

(* A new line with indentation m.                                          *)
LEMMA EntryNext ==
  ASSUME NEW s, NEW ts, NEW t, NEW ts2, Appended(ts, t, ts2), StartsContent(ts, t),
         HasLast(ts), \A j \in FirstIn(ts) : IndentAt(s, ts, j) \in Nat,
         NEW m \in Nat, m = IndentAt(s, ts2, Len(ts) + 1)
  PROVE  /\ \A e \in EntryIn(s, ts2) :
              \/ e = 0
              \/ e = m /\ \A x \in OpenIn(s, ts) : m > x
              \/ e \in EntryIn(s, ts) /\ e <= m
         /\ EnteredIn(s, ts2, Len(ts) + 1) \subseteq EntryIn(s, ts2) \ {0}
<1> DEFINE n == Len(ts) + 1
<1>1. FirstIn(ts2) = FirstIn(ts) \cup {n}
  BY FirstNext
<1>2. \A j \in FirstIn(ts) : IndentAt(s, ts2, j) = IndentAt(s, ts, j)
  BY FirstAre, IndentSame
<1>3. \A j \in FirstIn(ts) : GoesInAt(s, ts2, j) => GoesInAt(s, ts, j)
  BY GoesInSame
<1>4. n \in Nat /\ \A j \in FirstIn(ts) : j \in Nat /\ j <= n /\ n >= j
  <2>1. \A j \in FirstIn(ts) : j \in 1..Len(ts)
    BY FirstAre
  <2>2. Len(ts) \in Nat
    BY DEF Appended
  <2> QED
    BY <2>1, <2>2
<1>5. IndentAt(s, ts2, n) = m /\ (GoesInAt(s, ts2, n) => m = 0 \/ \A x \in OpenIn(s, ts) : m > x)
  BY NewGoesIn
<1> HIDE DEF n
<1> DEFINE Open(j) == \A k \in FirstIn(ts) : k >= j => IndentAt(s, ts, k) >= IndentAt(s, ts, j)
           Open2(j) == \A k \in FirstIn(ts2) : k >= j => IndentAt(s, ts2, k) >= IndentAt(s, ts2, j)
<1>6. \A j \in FirstIn(ts) : Open2(j) => Open(j) /\ IndentAt(s, ts, j) <= m
  <2>1. \A j \in FirstIn(ts) : m >= IndentAt(s, ts, j) => IndentAt(s, ts, j) <= m
    OBVIOUS
  <2> QED
    BY <1>1, <1>2, <1>4, <1>5, <2>1
<1>7. /\ \A j \in FirstIn(ts) : GoesInAt(s, ts, j) /\ Open(j) => IndentAt(s, ts, j) \in EntryIn(s, ts)
      /\ \A e \in EntryIn(s, ts2) :
           e = 0 \/ \E j \in FirstIn(ts2) : GoesInAt(s, ts2, j) /\ Open2(j) /\ e = IndentAt(s, ts2, j)
      /\ \A j \in FirstIn(ts2) : GoesInAt(s, ts2, j) /\ Open2(j) =>
           IndentAt(s, ts2, j) \in EntryIn(s, ts2)
  BY DEF EntryIn
<1>8. \A e \in EnteredIn(s, ts2, n) :
        /\ e # 0
        /\ \E j \in FirstIn(ts2) :
             /\ GoesInAt(s, ts2, j) /\ e = IndentAt(s, ts2, j)
             /\ \A k \in FirstIn(ts2) : k \in j..n => IndentAt(s, ts2, k) >= IndentAt(s, ts2, j)
  BY DEF EnteredIn
<1>9. \A j, k \in FirstIn(ts2) : k >= j => k \in j..n
  <2>1. \A k \in FirstIn(ts2) : k \in Nat /\ k <= n
    BY <1>1, <1>4
  <2> QED
    BY <1>4, <2>1
<1>10. \A j \in FirstIn(ts2) :
         (\A k \in FirstIn(ts2) : k \in j..n => IndentAt(s, ts2, k) >= IndentAt(s, ts2, j))
         => Open2(j)
  BY <1>9
<1> HIDE DEF Open, Open2
<1>11. ASSUME NEW e \in EntryIn(s, ts2), e # 0
       PROVE  \/ e = m /\ \A x \in OpenIn(s, ts) : m > x
              \/ e \in EntryIn(s, ts) /\ e <= m
  <2>1. PICK j \in FirstIn(ts2) : GoesInAt(s, ts2, j) /\ Open2(j) /\ e = IndentAt(s, ts2, j)
    BY <1>7, <1>11
  <2>2. CASE j = n
    BY <1>5, <1>11, <2>1, <2>2
  <2>3. CASE j \in FirstIn(ts)
    BY <1>2, <1>3, <1>6, <1>7, <2>1, <2>3
  <2> QED
    BY <1>1, <2>2, <2>3
<1>12. EnteredIn(s, ts2, n) \subseteq EntryIn(s, ts2) \ {0}
  BY <1>7, <1>8, <1>10
<1> QED
  BY <1>11, <1>12 DEF n

LEMMA BoundedSame ==
  ASSUME NEW s, NEW ts, NEW t, NEW ts2, Appended(ts, t, ts2), LinesBounded(s, ts),
         NEW i \in FirstIn(ts)
  PROVE  /\ IndentAt(s, ts2, i) \in Nat
         /\ Cardinality(EnteredIn(s, ts2, i)) <= DepthIn(ts2, i)
         /\ DepthIn(ts2, i) <= Cardinality(EnclosingIn(s, ts2, i))
<1>1. i \in 1..Len(ts) /\ i \in Nat /\ i <= Len(ts)
  BY FirstAre DEF Appended
<1>2. /\ IndentAt(s, ts2, i) = IndentAt(s, ts, i)
      /\ EnteredIn(s, ts2, i) = EnteredIn(s, ts, i)
      /\ EnclosingIn(s, ts2, i) = EnclosingIn(s, ts, i)
      /\ DepthIn(ts2, i) = DepthIn(ts, i)
  BY <1>1, IndentSame, EnteredSame, EnclosingSame, DepthSame
<1> QED
  BY <1>2 DEF LinesBounded

LEMMA BoundInit == Init => BoundInv
<1> SUFFICES ASSUME Init
             PROVE  BoundInv
  OBVIOUS
<1>1. /\ tokens = <<>> /\ Len(tokens) = 0 /\ levels = <<0>> /\ Len(levels) = 1
      /\ levels[1] = 0 /\ blank /\ pc = "indent"
  BY DEF Init
<1>2. FirstIn(tokens) = {} /\ 1..Len(levels) = {1}
  BY <1>1 DEF FirstIn
<1>3. Levels = {0} /\ OpenIn(buf, tokens) = {0} /\ EntryIn(buf, tokens) = {0}
  BY <1>1, <1>2 DEF Levels, OpenIn, EntryIn
<1> QED
  BY <1>1, <1>2, <1>3 DEF BoundInv, LevelsBetween, LinesBounded

(* A step that leaves the tokens and the levels as they are.               *)
LEMMA BoundQuiet ==
  ASSUME BoundInv, buf' = buf, tokens' = tokens, start' = start, levels' = levels,
         blank' = blank, pc # "dedent", pc' # "dedent",
         pc \in {"flush", "done"} => pc' \in {"flush", "done"}
  PROVE  BoundInv'
<1>1. LastType' = LastType /\ Levels' = Levels
  BY DEF LastType, Levels
<1>2. LevelsBetween => LevelsBetween'
  BY <1>1 DEF LevelsBetween
<1> QED
  BY <1>2 DEF BoundInv

(* A token that ends a line or a block, or opens a block.                  *)
LEMMA MarkBounded ==
  ASSUME TypeOK, BoundInv, buf' = buf, NEW type \in {"NEWLINE", "INDENT", "DEDENT"},
         NEW to \in Nat, AddToken(type, to)
  PROVE  /\ OpenIn(buf', tokens') = OpenIn(buf, tokens)
         /\ EntryIn(buf', tokens') = EntryIn(buf, tokens)
         /\ LinesBounded(buf', tokens')
         /\ LastType' = type /\ LastType' \notin ContentTypes
<1> DEFINE t == [type |-> type, from |-> start, to |-> to]
<1>1. type \in TokenTypes /\ type \notin ContentTypes
  BY LayoutIsNoContent DEF TokenTypes
<1>2. Appended(tokens, t, tokens') /\ t.type = type
  BY <1>1, Appends
<1> HIDE DEF t
<1>3. ~StartsContent(tokens, t)
  BY <1>1, <1>2 DEF StartsContent
<1>4. OpenIn(buf, tokens') = OpenIn(buf, tokens) /\ FirstIn(tokens') = FirstIn(tokens)
  BY <1>2, <1>3, OpenSame
<1>5. EntryIn(buf, tokens') = EntryIn(buf, tokens)
  BY <1>2, <1>3, EntrySame
<1>6. LinesBounded(buf, tokens')
  <2>1. LinesBounded(buf, tokens)
    BY DEF BoundInv
  <2>2. \A i \in FirstIn(tokens) :
          /\ IndentAt(buf, tokens', i) \in Nat
          /\ Cardinality(EnteredIn(buf, tokens', i)) <= DepthIn(tokens', i)
          /\ DepthIn(tokens', i) <= Cardinality(EnclosingIn(buf, tokens', i))
    BY <1>2, <2>1, BoundedSame
  <2> QED
    BY <1>4, <2>2 DEF LinesBounded
<1>7. LastType' = type
  BY <1>1, LastAdded
<1> QED
  BY <1>1, <1>4, <1>5, <1>6, <1>7

(* The depth of a line whose levels are V.                                 *)
LEMMA BoundsCounted ==
  ASSUME NEW V, NEW A, NEW B, NEW m \in Nat, V \subseteq B, B \subseteq 0..m,
         0 \in V, A \subseteq V \ {0}
  PROVE  /\ Cardinality(A) <= Cardinality(V) - 1
         /\ Cardinality(V) - 1 <= Cardinality(B \ {0})
<1>1. IsFiniteSet(0..m)
  <2>1. 0 \in Int /\ m \in Int
    OBVIOUS
  <2> QED
    BY ONLY <2>1, FS_Interval
<1>2. IsFiniteSet(V)
  <2>1. V \in SUBSET (0..m)
    OBVIOUS
  <2> QED
    BY ONLY <1>1, <2>1, FS_Subset
<1>3. IsFiniteSet(V \ {0}) /\ Cardinality(V \ {0}) = Cardinality(V) - 1
  BY <1>2, FS_RemoveElement
<1>4. Cardinality(A) <= Cardinality(V \ {0})
  <2>1. A \in SUBSET (V \ {0})
    OBVIOUS
  <2> QED
    BY ONLY <1>3, <2>1, FS_Subset
<1>5. Cardinality(V \ {0}) <= Cardinality(B \ {0})
  <2>1. B \ {0} \in SUBSET (0..m)
    OBVIOUS
  <2>2. IsFiniteSet(B \ {0})
    BY ONLY <1>1, <2>1, FS_Subset
  <2>3. V \ {0} \in SUBSET (B \ {0})
    OBVIOUS
  <2> QED
    BY ONLY <2>2, <2>3, FS_Subset
<1> QED
  BY <1>3, <1>4, <1>5

(* A token of a line's content.                                            *)
LEMMA BoundContent ==
  ASSUME TypeOK, LineInv, BlockInv, BoundInv, buf' = buf, NEW type \in ContentTypes,
         NEW to \in Nat, AddToken(type, to), levels' = levels, blank' = blank, ~blank,
         pc \in {"top", "number", "word", "string"}, pc' = "next"
  PROVE  BoundInv'
<1> DEFINE t == [type |-> type, from |-> start, to |-> to]
           n == Len(tokens) + 1
           E == OpenIn(buf, tokens)
           O == EntryIn(buf, tokens)
           E2 == OpenIn(buf, tokens')
           O2 == EntryIn(buf, tokens')
<1>1. type \in TokenTypes /\ type \notin {"INDENT", "DEDENT"}
  BY LayoutIsNoContent DEF TokenTypes
<1>2. Appended(tokens, t, tokens') /\ t.type = type /\ t.from = start
  BY <1>1, Appends
<1> HIDE DEF t
<1>3. LastType' = type /\ Levels' = Levels
  BY <1>1, LastAdded DEF Levels
<1>4. LinesBounded(buf, tokens) /\ LevelsBetween
  BY DEF BoundInv
<1>5. CASE ~StartsContent(tokens, t)
  <2>1. LastType \in ContentTypes
    BY <1>2, <1>5 DEF StartsContent, LastType
  <2>2. O \subseteq Levels /\ Levels \subseteq E
    BY <1>4, <2>1 DEF LevelsBetween
  <2>3. E2 = E /\ O2 = O /\ FirstIn(tokens') = FirstIn(tokens)
    BY <1>2, <1>5, OpenSame, EntrySame
  <2>4. LevelsBetween'
    BY <1>3, <2>2, <2>3 DEF LevelsBetween
  <2>5. LinesBounded(buf, tokens')
    BY <1>2, <1>4, <2>3, BoundedSame DEF LinesBounded
  <2> QED
    BY <2>4, <2>5 DEF BoundInv
<1>6. CASE StartsContent(tokens, t)
  <2>1. LastType \notin ContentTypes
    BY <1>6, LayoutIsNoContent DEF StartsContent, LastType
  <2>2. PICK l, c \in Nat : LineAt(buf, l, start, c) /\ BetweenFor(Levels, O, E, c - l)
    BY <1>4, <2>1 DEF LevelsBetween
  <2> DEFINE m == c - l
  <2>3. IndentAt(buf, tokens', n) = m /\ m \in Nat
    <3>1. Len(buf) \in Nat /\ start \in Nat
      BY LexerAssumption DEF TypeOK
    <3>2. IndentationIn(buf, start) = m /\ m \in Nat
      BY <2>2, <3>1, IndentationIs
    <3> QED
      BY <1>2, <3>2 DEF IndentAt, Appended
  <2>4. BetweenFor(Levels, O, E, m)
    BY <2>2
  <2> HIDE DEF m
  <2>5. \A j \in FirstIn(tokens) : IndentAt(buf, tokens, j) \in Nat
    BY <1>4 DEF LinesBounded
  <2>6. E \subseteq Nat /\ 0 \in E /\ 0 \in O
    BY <2>5 DEF OpenIn, EntryIn
  <2>7. E2 = {0, m} \cup {e \in E : e <= m} /\ EnclosingIn(buf, tokens', n) = E2 \ {0}
    BY <1>2, <1>6, <2>3, <2>5, OpenNext
  <2>8. /\ \A e \in O2 : e = 0 \/ (e = m /\ \A x \in E : m > x) \/ (e \in O /\ e <= m)
        /\ EnteredIn(buf, tokens', n) \subseteq O2 \ {0}
    <3>1. HasLast(tokens)
      BY DEF BlockInv
    <3>2. m \in Nat /\ m = IndentAt(buf, tokens', Len(tokens) + 1)
      BY <2>3
    <3>3. Appended(tokens, t, tokens') /\ StartsContent(tokens, t)
      BY <1>2, <1>6
    <3> QED
      BY ONLY <2>5, <3>1, <3>2, <3>3, EntryNext
  <2> HIDE DEF E, O, E2, O2
  <2>9. O2 \subseteq Levels /\ Levels \subseteq E2 /\ 0 \in Levels /\ E2 \subseteq 0..m
    <3>1. m \in Nat
      BY <2>3
    <3>2. E \subseteq Nat /\ 0 \in E /\ 0 \in O
      BY <2>6
    <3>3. E2 = {0, m} \cup {e \in E : e <= m}
      BY <2>7
    <3>4. \A e \in O2 : e = 0 \/ (e = m /\ \A x \in E : m > x) \/ (e \in O /\ e <= m)
      BY <2>8
    <3>5. Levels \subseteq E2
      BY ONLY <2>4, <3>3 DEF BetweenFor
    <3>6. 0 \in Levels
      BY ONLY <2>4, <3>1, <3>2 DEF BetweenFor
    <3>7. O2 \subseteq Levels
      BY ONLY <2>4, <3>4, <3>6 DEF BetweenFor
    <3>8. E2 \subseteq 0..m
      <4> SUFFICES ASSUME NEW e \in E2 PROVE e \in 0..m
        OBVIOUS
      <4>1. e \in {0, m} \/ (e \in E /\ e <= m)
        BY ONLY <3>3
      <4>2. e \in Nat /\ e <= m
        <5>1. CASE e = 0
          BY <3>1, <5>1
        <5>2. CASE e = m
          BY <3>1, <5>2
        <5>3. CASE e \in E /\ e <= m
          BY <3>2, <5>3
        <5> QED
          BY <4>1, <5>1, <5>2, <5>3
      <4> QED
        BY ONLY <3>1, <4>2
    <3> QED
      BY <3>5, <3>6, <3>7, <3>8
  <2>10. /\ Cardinality(EnteredIn(buf, tokens', n)) <= Cardinality(Levels) - 1
         /\ Cardinality(Levels) - 1 <= Cardinality(E2 \ {0})
    <3>1. EnteredIn(buf, tokens', n) \subseteq Levels \ {0} /\ m \in Nat
      BY <2>3, <2>8, <2>9
    <3> QED
      BY ONLY <2>9, <3>1, BoundsCounted
  <2>11. DepthIn(tokens', n) = Cardinality(Levels) - 1
    <3>1. DepthIn(tokens', Len(tokens')) = DepthIn(tokens, Len(tokens)) /\ Len(tokens') = n
      BY <1>1, <1>2, DepthNext DEF Appended
    <3> QED
      BY <3>1 DEF BlockInv, LevelsCounted
  <2>12. FirstIn(tokens') = FirstIn(tokens) \cup {n}
    BY <1>2, <1>6, FirstNext
  <2> HIDE DEF n
  <2>13. LinesBounded(buf, tokens')
    <3>1. /\ IndentAt(buf, tokens', n) \in Nat
          /\ Cardinality(EnteredIn(buf, tokens', n)) <= DepthIn(tokens', n)
          /\ DepthIn(tokens', n) <= Cardinality(EnclosingIn(buf, tokens', n))
      BY <2>3, <2>7, <2>10, <2>11
    <3>2. \A i \in FirstIn(tokens) :
            /\ IndentAt(buf, tokens', i) \in Nat
            /\ Cardinality(EnteredIn(buf, tokens', i)) <= DepthIn(tokens', i)
            /\ DepthIn(tokens', i) <= Cardinality(EnclosingIn(buf, tokens', i))
      BY <1>2, <1>4, BoundedSame
    <3> QED
      BY <2>12, <3>1, <3>2 DEF LinesBounded
  <2>14. LevelsBetween'
    BY <1>3, <2>9 DEF LevelsBetween, E2, O2
  <2> QED
    BY <2>13, <2>14 DEF BoundInv
<1> QED
  BY <1>5, <1>6

LEMMA BoundStep ==
  ASSUME TInv, BlockInv, BoundInv, [Next]_vars
  PROVE  BoundInv'
<1>a. /\ TypeOK /\ LineInv /\ Len(levels) > 0 /\ buf' = buf
      /\ cur \in Nat /\ start \in Nat /\ start <= cur /\ End \in Nat
      /\ cur + 1 \in Nat /\ cur + 2 \in Nat /\ ret \in {"top", "next"} /\ blank \in BOOLEAN
  BY BufferSame, LexerAssumption
     DEF TInv, IInv, LevelsInv, CursorInv, TypeOK, End
<1>b. Peek = TextAt(buf, cur)
  BY TextIs DEF Peek
<1>c. Top \in Levels /\ Top \in Nat /\ \A e \in Levels : e \in Nat /\ e <= Top
  BY <1>a, TopIsHighest DEF BlockInv
<1>d. /\ \A op \in OneCharOps : op[1] \notin Layout \cup {"NUL"} /\ op[2] \in ContentTypes
      /\ \A op \in TwoCharOps :
           op[1] \notin Layout \cup {"NUL"} /\ op[3] \in ContentTypes /\ op[4] \in ContentTypes
      /\ {"INTLIT", "INVALID", "KEYWORD", "ID", "STRING", "IDSTRING"} \subseteq ContentTypes
  BY OperatorsAreContent DEF ContentTypes
<1>e. LevelsBetween /\ LinesBounded(buf, tokens)
  BY DEF BoundInv
<1> DEFINE E == OpenIn(buf, tokens)
           O == EntryIn(buf, tokens)
<1>f. E \subseteq Nat
  BY <1>e DEF OpenIn, LinesBounded
<1>1. CASE IndentDeeper
  <2>1. /\ pc = "indent" /\ blank /\ AddToken("INDENT", cur) /\ cur - start > Top
        /\ levels' = Append(levels, cur - start) /\ pc' = ret /\ ~blank'
        /\ Peek \notin Layout
    BY <1>1, <1>a DEF IndentDeeper, Deeper, LineInv, Match, Layout
  <2>2. cur - start \in Nat /\ cur <= Len(buf) /\ start' = cur
    BY <2>1, <1>a DEF TInv, IInv, CursorInv, End, AddToken
  <2>3. Levels' = Levels \cup {cur - start}
    BY <1>a, <2>1, <2>2, LevelsPush DEF BlockInv
  <2>4. /\ OpenIn(buf', tokens') = E /\ EntryIn(buf', tokens') = O /\ LinesBounded(buf', tokens')
        /\ LastType' \notin ContentTypes
    BY <1>a, <2>1, MarkBounded
  <2>5. LineAt(buf, start, cur, cur)
    <3>1. Spaces(buf, start, cur)
      BY <2>1 DEF TInv, LexemeInv
    <3>2. StartsLine(buf, start)
      BY <2>1 DEF BlockInv
    <3> QED
      BY <1>a, <1>b, <2>1, <2>2, <3>1, <3>2 DEF LineAt
  <2>6. O \subseteq Levels /\ Levels \subseteq E
    BY <1>e, <2>1 DEF LevelsBetween
  <2>7. \A e \in Levels : e <= cur - start
    BY <1>c, <2>1, <2>2
  <2> HIDE DEF E, O
  <2>8. BetweenFor(Levels', O, E, cur - start)
    BY <2>3, <2>6, <2>7 DEF BetweenFor
  <2>9. \E l, c \in Nat : LineAt(buf', l, start', c) /\ BetweenFor(Levels', O, E, c - l)
    BY <1>a, <2>2, <2>5, <2>8
  <2>10. pc' # "dedent" /\ ~blank'
    BY <1>a, <2>1
  <2>11. LevelsBetween'
    BY <2>4, <2>9, <2>10 DEF LevelsBetween
  <2> QED
    BY <2>4, <2>11 DEF BoundInv
<1>2. CASE IndentNotDeeper
  <2>1. /\ pc = "indent" /\ blank /\ ~(cur - start > Top) /\ level' = cur - start
        /\ pc' = "dedent" /\ ~blank' /\ Peek \notin Layout
        /\ start' = start /\ cur' = cur /\ tokens' = tokens /\ levels' = levels
    BY <1>2, <1>a DEF IndentNotDeeper, Deeper, LineInv, Match, Layout
  <2>2. cur <= Len(buf) /\ Spaces(buf, start, cur) /\ StartsLine(buf, start)
    BY <2>1 DEF TInv, IInv, CursorInv, End, LexemeInv, BlockInv
  <2>3. Levels' = Levels /\ LastType' = LastType
    BY <2>1 DEF Levels, LastType
  <2>4. LastType \notin ContentTypes
    BY <1>a, <2>1, LayoutIsNoContent DEF LineInv
  <2>5. LineAt(buf, start, start, cur)
    BY <1>a, <1>b, <2>1, <2>2 DEF LineAt
  <2>6. O \subseteq Levels /\ Levels \subseteq E
    BY <1>e, <2>1 DEF LevelsBetween
  <2>7. Top >= cur - start
    BY <1>a, <1>c, <2>1
  <2>8. OpenIn(buf', tokens') = E /\ EntryIn(buf', tokens') = O
    BY <1>a, <2>1
  <2> HIDE DEF E, O
  <2>9. \E l \in Nat :
          /\ LineAt(buf', l, start', cur') /\ level' = cur' - l
          /\ Levels' \subseteq E /\ \A e \in O : e <= level' => e \in Levels'
          /\ \E e \in E : e >= level'
    BY <1>a, <1>c, <2>1, <2>3, <2>5, <2>6, <2>7
  <2>10. LevelsBetween'
    BY <2>1, <2>3, <2>4, <2>8, <2>9 DEF LevelsBetween
  <2> QED
    BY <1>a, <1>e, <2>1, <2>10 DEF BoundInv
<1>3. CASE Dedent
  <2>1. /\ pc = "dedent" /\ level < Top /\ AddToken("DEDENT", cur)
        /\ levels' = SubSeq(levels, 1, Len(levels) - 1)
        /\ pc' = "dedent" /\ level' = level /\ ~blank /\ blank' = blank
        /\ cur' = cur /\ start' = cur
    BY <1>3, <1>a DEF Dedent, LineInv, AddToken
  <2>2. Levels' = Levels \ {Top}
    BY <1>a, <2>1, LevelsPop DEF BlockInv
  <2>3. /\ OpenIn(buf', tokens') = E /\ EntryIn(buf', tokens') = O /\ LinesBounded(buf', tokens')
        /\ LastType' \notin ContentTypes
    BY <1>a, <2>1, MarkBounded
  <2>4. PICK l \in Nat :
          /\ LineAt(buf, l, start, cur) /\ level = cur - l
          /\ Levels \subseteq E /\ \A e \in O : e <= level => e \in Levels
          /\ \E e \in E : e >= level
    BY <1>e, <2>1 DEF LevelsBetween
  <2>5. LineAt(buf, l, cur, cur)
    BY <2>4 DEF LineAt
  <2>6. ~(Top <= level)
    BY <1>a, <1>c, <2>1 DEF TypeOK
  <2> HIDE DEF E, O
  <2>7. \A e \in O : e <= level => e \in Levels \ {Top}
    BY <2>4, <2>6
  <2>8. \E l1 \in Nat :
          /\ LineAt(buf', l1, start', cur') /\ level' = cur' - l1
          /\ Levels' \subseteq E /\ \A e \in O : e <= level' => e \in Levels'
          /\ \E e \in E : e >= level'
    BY <1>a, <2>1, <2>2, <2>4, <2>5, <2>7
  <2>9. LevelsBetween'
    BY <2>1, <2>3, <2>8 DEF LevelsBetween
  <2> QED
    BY <2>3, <2>9 DEF BoundInv
<1>4. CASE DedentDone
  <2>1. /\ pc = "dedent" /\ level >= Top /\ pc' = ret /\ ~blank /\ blank' = blank
        /\ start' = start /\ cur' = cur /\ tokens' = tokens /\ levels' = levels
        /\ LastType \notin ContentTypes
    BY <1>4, <1>a, LayoutIsNoContent DEF DedentDone, LineInv
  <2>2. Levels' = Levels /\ LastType' = LastType
    BY <2>1 DEF Levels, LastType
  <2>3. PICK l \in Nat :
          /\ LineAt(buf, l, start, cur) /\ level = cur - l
          /\ Levels \subseteq E /\ \A e \in O : e <= level => e \in Levels
          /\ \E e \in E : e >= level
    BY <1>e, <2>1 DEF LevelsBetween
  <2>4. level \in Nat
    BY <1>a DEF TypeOK
  <2>5. \A e \in Levels : e <= level
    BY <1>c, <2>1, <2>4
  <2>6. OpenIn(buf', tokens') = E /\ EntryIn(buf', tokens') = O
    BY <1>a, <2>1
  <2> HIDE DEF E, O
  <2>7. ~(\A e \in E : level > e)
    BY <1>f, <2>3, <2>4
  <2>8. BetweenFor(Levels, O, E, level)
    BY <2>3, <2>5, <2>7 DEF BetweenFor
  <2>9. \E l1, c \in Nat : LineAt(buf', l1, start', c) /\ BetweenFor(Levels', O, E, c - l1)
    BY <1>a, <2>1, <2>2, <2>3, <2>8
  <2>10. pc' # "dedent" /\ ~blank' /\ LastType' \notin ContentTypes
    BY <1>a, <2>1, <2>2
  <2>11. LevelsBetween'
    BY <2>6, <2>9, <2>10 DEF LevelsBetween
  <2> QED
    BY <1>a, <1>e, <2>1, <2>11 DEF BoundInv
<1>5. CASE Flush
  <2>1. AddToken("DEDENT", cur) /\ pc' = "flush"
    BY <1>5 DEF Flush
  <2>2. LinesBounded(buf', tokens')
    BY <1>a, <2>1, MarkBounded
  <2>3. LevelsBetween'
    BY <2>1 DEF LevelsBetween
  <2> QED
    BY <2>2, <2>3 DEF BoundInv
<1>6. CASE EndSkip
  <2>1. /\ tokens' = tokens /\ levels' = levels /\ blank' = blank /\ pc' = "next"
        /\ pc \in {"comment", "white"} /\ (blank \/ LastType \in ContentTypes)
    BY <1>6, <1>a DEF EndSkip, DropLexeme, LineInv
  <2>2. Levels' = Levels /\ LastType' = LastType
    BY <2>1 DEF Levels, LastType
  <2>3. LevelsBetween'
    BY <1>a, <1>e, <2>1, <2>2 DEF LevelsBetween
  <2> QED
    BY <1>a, <1>e, <2>1, <2>3 DEF BoundInv
<1>7. CASE ScanNewLine
  <2> DEFINE to == IF Match({"CR"}) /\ FollowedBy("LF") THEN cur + 2 ELSE cur + 1
  <2>1. /\ pc = "top" /\ Peek \in NewLines /\ (IF blank THEN DropLexeme(to) ELSE AddToken("NEWLINE", to))
        /\ blank' /\ pc' = "indent" /\ levels' = levels
    BY <1>7 DEF ScanNewLine, Match
  <2>2. to \in Nat
    BY <1>a
  <2> HIDE DEF to
  <2>3. Levels' = Levels
    BY <2>1 DEF Levels
  <2>4. blank \/ LastType \in ContentTypes
    BY <1>a, <2>1 DEF LineInv, Layout, BlankStart
  <2>5. O \subseteq Levels /\ Levels \subseteq E
    BY <1>e, <2>1, <2>4 DEF LevelsBetween
  <2>6. OpenIn(buf', tokens') = E /\ EntryIn(buf', tokens') = O /\ LinesBounded(buf', tokens')
    <3>1. CASE blank
      BY <1>a, <1>e, <2>1, <3>1 DEF DropLexeme
    <3>2. CASE ~blank
      BY <1>a, <2>1, <2>2, <3>2, MarkBounded
    <3> QED
      BY <3>1, <3>2
  <2> HIDE DEF E, O
  <2>7. LevelsBetween'
    BY <2>1, <2>3, <2>5, <2>6 DEF LevelsBetween
  <2> QED
    BY <2>6, <2>7 DEF BoundInv
<1>8. CASE ScanOneCharOp
  <2>1. PICK op \in OneCharOps : Peek = op[1] /\ AddToken(op[2], cur + 1)
    BY <1>8 DEF ScanOneCharOp
  <2>2. ~blank
    BY <1>8, <1>a, <1>d, <2>1 DEF ScanOneCharOp, LineInv, Layout
  <2> QED
    BY <1>8, <1>a, <1>d, <2>1, <2>2, BoundContent DEF ScanOneCharOp
<1>9. CASE ScanTwoCharOp
  <2>1. PICK op \in TwoCharOps :
          /\ Peek = op[1]
          /\ AddToken(op[3], cur + 2) \/ AddToken(op[4], cur + 1)
    BY <1>9 DEF ScanTwoCharOp
  <2>2. ~blank
    BY <1>9, <1>a, <1>d, <2>1 DEF ScanTwoCharOp, LineInv, Layout
  <2> QED
    BY <1>9, <1>a, <1>d, <2>1, <2>2, BoundContent DEF ScanTwoCharOp
<1>10. CASE ScanUnexpected
  <2>1. ~blank
    BY <1>10, <1>a DEF ScanUnexpected, Match, LineInv, BlankStart, NewLines
  <2> QED
    BY <1>10, <1>a, <1>d, <2>1, BoundContent DEF ScanUnexpected
<1>11. CASE EndNumber
  <2>1. PICK type \in {"INTLIT", "INVALID"} : AddToken(type, cur)
    BY <1>11 DEF EndNumber
  <2> QED
    BY <1>11, <1>a, <1>d, <2>1, BoundContent DEF EndNumber, LineInv
<1>12. CASE EndWord
  <2>1. PICK type \in {"KEYWORD", "ID"} : AddToken(type, cur)
    BY <1>12 DEF EndWord
  <2> QED
    BY <1>12, <1>a, <1>d, <2>1, BoundContent DEF EndWord, LineInv
<1>13. CASE EndString
  <2>1. PICK type \in {"STRING", "IDSTRING", "INVALID"} : AddToken(type, Advanced)
    BY <1>13, <1>a DEF EndString, TypeOK
  <2>2. Advanced \in Nat
    BY <1>a DEF Advanced
  <2> QED
    BY <1>13, <1>a, <1>d, <2>1, <2>2, BoundContent DEF EndString, LineInv
<1>14. CASE \/ IndentWhitespace \/ IndentBlankLine \/ EnterRun \/ EnterString \/ ScanNul
            \/ NextChar \/ Run \/ StringChar \/ StringEscape \/ Return
  <2>1. /\ tokens' = tokens /\ start' = start /\ levels' = levels /\ blank' = blank
        /\ pc # "dedent"
    BY <1>14 DEF IndentWhitespace, IndentBlankLine, EnterRun, EnterString, ScanNul,
                 NextChar, Run, StringChar, StringEscape, Return
  <2>2. pc' # "dedent" /\ (pc \in {"flush", "done"} => pc' \in {"flush", "done"})
    <3>1. \A run \in RunOf : run[2] \in {"comment", "white", "number", "word"}
      BY DEF RunOf
    <3> QED
      BY <1>14, <1>a, <3>1 DEF IndentWhitespace, IndentBlankLine, EnterRun, EnterString,
                 ScanNul, NextChar, Run, StringChar, StringEscape, Return
  <2> QED
    BY <1>a, <2>1, <2>2, BoundQuiet
<1>15. CASE UNCHANGED vars
  <2>1. Levels' = Levels /\ LastType' = LastType
    BY <1>15 DEF vars, Levels, LastType
  <2>2. LevelsBetween'
    BY <1>15, <1>e, <2>1 DEF vars, LevelsBetween
  <2> QED
    BY <1>15, <1>e, <2>2 DEF vars, BoundInv
<1> QED
  BY <1>1, <1>2, <1>3, <1>4, <1>5, <1>6, <1>7, <1>8, <1>9, <1>10, <1>11, <1>12,
     <1>13, <1>14, <1>15 DEF Next, HandleIndentation, Switch, Scan, Terminating

(* The levels lie between the blocks a line has gone in to and the blocks  *)
(* that enclose the line, whatever the source buffer.                      *)
THEOREM LexerLevelsBetween == Spec => []BoundInv
<1>1. Init => BInv /\ BoundInv
  BY InitBInv, BoundInit
<1>2. BInv /\ BoundInv /\ [Next]_vars => (BInv /\ BoundInv)'
  BY NextBInv, BoundStep DEF BInv
<1> QED
  BY <1>1, <1>2, PTL DEF Spec

LEMMA DepthsAreBounded == BoundInv => DepthIsBounded
<1> SUFFICES ASSUME BoundInv, NEW i \in FirstOfLine
             PROVE  /\ Cardinality(Entered(i)) <= Depth(i)
                    /\ Depth(i) <= Cardinality(Enclosing(i))
  BY DEF DepthIsBounded
<1>1. Entered(i) = EnteredIn(buf, tokens, i)
  <2>1. \A j : GoesIn(j) <=> GoesInAt(buf, tokens, j)
    BY FirstIs, IndentationOf DEF GoesIn, GoesInAt
  <2> QED
    BY <2>1, FirstIs, IndentationOf DEF Entered, EnteredIn
<1>2. Depth(i) = DepthIn(tokens, i)
  BY DEF Depth, DepthIn, Marks
<1> QED
  BY <1>1, <1>2, FirstIs, EnclosingOf DEF BoundInv, LinesBounded

(* A line is at least as deep as the blocks it has gone in to and at most  *)
(* as the blocks that enclose it, whatever the source buffer.              *)
THEOREM LexerDepthIsBounded == Spec => []DepthIsBounded
BY LexerLevelsBetween, DepthsAreBounded, PTL

----------------------------------------------------------------------------
(* The new lines of the text and the tokens.                               *)

NoBreak(s, a, c) == \A p \in a..(c - 1) : TextAt(s, p) \notin NewLines

(* The report that goes with a token that has swallowed a new line.        *)
Reported ==
  \E d \in 1..Len(diags) : diags[d] \in {"UnterminatedString", "InvalidEscapeCharacter"}

(* A content token t stands on one line, or is a string without an end on  *)
(* its line, of which reported tells.                                      *)
Unbroken(s, reported, t) ==
  t.type \in ContentTypes =>
    /\ t.from < t.to /\ TextAt(s, t.from) \notin NewLines
    /\ NoBreak(s, t.from, t.to) \/ (t.type = "INVALID" /\ reported)

Joined(s, t1, t2) ==
  t1.type \in ContentTypes /\ t2.type \in ContentTypes => NoBreak(s, t1.to, t2.from)

TokensUnbroken ==
  /\ \A i \in 1..Len(tokens) : Unbroken(buf, Reported, tokens[i])
  /\ \A i \in 1..(Len(tokens) - 1) : Joined(buf, tokens[i], tokens[i + 1])
  /\ LastType \in ContentTypes => NoBreak(buf, tokens[Len(tokens)].to, start)

LexemeUnbroken ==
  /\ pc \in {"number", "word"} => NoBreak(buf, start, cur)
  /\ pc = "string" => NoBreak(buf, start, cur) \/ (strType = "INVALID" /\ Reported)

LineBreakInv == TokensUnbroken /\ LexemeUnbroken

LEMMA NoBreakNone ==
  ASSUME NEW s, NEW a \in Nat
  PROVE  NoBreak(s, a, a)
BY DEF NoBreak

LEMMA NoBreakSpaces ==
  ASSUME NEW s, NEW a, NEW c, Spaces(s, a, c)
  PROVE  NoBreak(s, a, c)
BY DEF NoBreak, Spaces, NewLines

LEMMA NoBreakNext ==
  ASSUME NEW s, NEW a \in Nat, NEW c \in Nat, NoBreak(s, a, c), TextAt(s, c) \notin NewLines
  PROVE  NoBreak(s, a, c + 1)
<1>1. \A p \in a..(c + 1 - 1) : p = c \/ p \in a..(c - 1)
  OBVIOUS
<1> QED
  BY <1>1 DEF NoBreak

LEMMA NoBreakJoin ==
  ASSUME NEW s, NEW a \in Nat, NEW b \in Nat, NEW c \in Nat, NoBreak(s, a, b), NoBreak(s, b, c)
  PROVE  NoBreak(s, a, c)
<1>1. \A p \in a..(c - 1) : p \in a..(b - 1) \/ p \in b..(c - 1)
  OBVIOUS
<1> QED
  BY <1>1 DEF NoBreak

(* What has been reported stays reported.                                  *)
LEMMA ReportedKept ==
  ASSUME TypeOK, NEW new \in Seq(DiagIDs), diags' = diags \o new
  PROVE  Reported => Reported'
<1>1. diags \in Seq(DiagIDs)
  BY DEF TypeOK
<1>2. /\ Len(diags) \in Nat /\ Len(diags') = Len(diags) + Len(new) /\ Len(new) \in Nat
      /\ \A d \in 1..Len(diags) : diags'[d] = diags[d]
  BY <1>1, ConcatProperties
<1>3. \A d \in 1..Len(diags) : d \in 1..Len(diags')
  BY <1>2
<1> QED
  BY <1>2, <1>3 DEF Reported

LEMMA ReportKept ==
  ASSUME TypeOK, NEW id \in DiagIDs, Report(id)
  PROVE  /\ Reported => Reported'
         /\ id \in {"UnterminatedString", "InvalidEscapeCharacter"} => Reported'
<1>1. diags \in Seq(DiagIDs)
  BY DEF TypeOK
<1>2. /\ Len(diags) \in Nat /\ Len(diags') = Len(diags) + 1
      /\ \A d \in 1..Len(diags) : diags'[d] = diags[d]
      /\ diags'[Len(diags) + 1] = id
  BY <1>1 DEF Report
<1>3. \A d \in 1..Len(diags) : d \in 1..Len(diags')
  BY <1>2
<1>4. Len(diags) + 1 \in 1..Len(diags')
  BY <1>2
<1> QED
  BY <1>2, <1>3, <1>4 DEF Reported

(* The three things a step makes of the lexeme.                            *)
LEMMA UnbrokenSame ==
  ASSUME TokensUnbroken, buf' = buf, start' = start, tokens' = tokens, Reported => Reported'
  PROVE  TokensUnbroken'
<1>1. LastType' = LastType
  BY DEF LastType
<1>2. \A i \in 1..Len(tokens') : Unbroken(buf', Reported', tokens'[i])
  BY DEF TokensUnbroken, Unbroken
<1> QED
  BY <1>1, <1>2 DEF TokensUnbroken

LEMMA UnbrokenSkip ==
  ASSUME TypeOK, TokensUnbroken, buf' = buf, diags' = diags, NEW to \in Nat, DropLexeme(to),
         LastType \in ContentTypes => NoBreak(buf, start, to)
  PROVE  TokensUnbroken'
<1>1. LastType' = LastType /\ tokens' = tokens /\ start' = to /\ Reported' = Reported
  BY DEF LastType, DropLexeme, Reported
<1>2. ASSUME LastType \in ContentTypes
      PROVE  NoBreak(buf, tokens[Len(tokens)].to, to)
  <2>1. Len(tokens) \in 1..Len(tokens)
    <3>1. Len(tokens) \in Nat
      BY DEF TypeOK
    <3>2. Len(tokens) # 0
      BY <1>2, LayoutIsNoContent DEF LastType
    <3> QED
      BY <3>1, <3>2
  <2>2. tokens[Len(tokens)].to \in Nat /\ start \in Nat
    BY <2>1, RangesAreOffsets DEF TypeOK
  <2>3. NoBreak(buf, tokens[Len(tokens)].to, start) /\ NoBreak(buf, start, to)
    BY <1>2 DEF TokensUnbroken
  <2> QED
    BY <2>2, <2>3, NoBreakJoin
<1>3. \A i \in 1..Len(tokens') : Unbroken(buf', Reported', tokens'[i])
  BY <1>1 DEF TokensUnbroken
<1> QED
  BY <1>1, <1>2, <1>3 DEF TokensUnbroken

LEMMA UnbrokenAdd ==
  ASSUME TypeOK, TokensUnbroken, buf' = buf, Reported => Reported',
         NEW type \in TokenTypes, NEW to \in Nat, AddToken(type, to),
         type \in ContentTypes =>
           /\ start < to /\ TextAt(buf, start) \notin NewLines
           /\ NoBreak(buf, start, to) \/ (type = "INVALID" /\ Reported')
  PROVE  TokensUnbroken'
<1> DEFINE t == [type |-> type, from |-> start, to |-> to]
           n == Len(tokens) + 1
<1>1. Appended(tokens, t, tokens')
  BY Appends
<1>2. t.type = type /\ t.from = start /\ t.to = to /\ start' = to
  BY DEF AddToken
<1> HIDE DEF t
<1>3. /\ Len(tokens) \in Nat /\ Len(tokens') = n
      /\ \A i \in 1..Len(tokens) : tokens'[i] = tokens[i]
      /\ tokens'[n] = t
  BY <1>1 DEF Appended
<1>4. LastType' = type
  BY LastAdded
<1>5. ASSUME NEW i \in 1..Len(tokens')
      PROVE  Unbroken(buf', Reported', tokens'[i])
  <2>1. CASE i \in 1..Len(tokens)
    <3>1. Unbroken(buf, Reported, tokens[i])
      BY <2>1 DEF TokensUnbroken
    <3> QED
      BY <1>3, <2>1, <3>1 DEF Unbroken
  <2>2. CASE i = n
    BY <1>2, <1>3, <2>2 DEF Unbroken
  <2> QED
    BY <1>3, <1>5, <2>1, <2>2
<1>6. ASSUME NEW i \in 1..(Len(tokens') - 1)
      PROVE  Joined(buf', tokens'[i], tokens'[i + 1])
  <2>1. CASE i \in 1..(Len(tokens) - 1)
    <3>1. i \in 1..Len(tokens) /\ i + 1 \in 1..Len(tokens)
      BY <1>3, <2>1
    <3> QED
      BY <1>3, <2>1, <3>1 DEF TokensUnbroken
  <2>2. CASE i = Len(tokens)
    <3>1. i \in 1..Len(tokens) /\ i + 1 = n
      BY <1>3, <1>6, <2>2
    <3>2. LastType = tokens[i].type
      BY <2>2, <3>1 DEF LastType
    <3>3. Joined(buf, tokens[i], t)
      BY <1>2, <2>2, <3>2 DEF TokensUnbroken, Joined
    <3> QED
      BY <1>3, <3>1, <3>3
  <2> QED
    BY <1>3, <1>6, <2>1, <2>2
<1>7. NoBreak(buf', tokens'[Len(tokens')].to, start')
  <2>1. tokens'[Len(tokens')].to = to
    BY <1>2, <1>3
  <2> QED
    BY <1>2, <2>1, NoBreakNone
<1> QED
  BY <1>5, <1>6, <1>7 DEF TokensUnbroken

(* A step that leaves the tokens alone.                                    *)
LEMMA BreakQuiet ==
  ASSUME TokensUnbroken, buf' = buf, start' = start, tokens' = tokens, Reported => Reported',
         LexemeUnbroken'
  PROVE  LineBreakInv'
BY UnbrokenSame DEF LineBreakInv

LEMMA BreakInit == Init => LineBreakInv
<1> SUFFICES ASSUME Init
             PROVE  LineBreakInv
  OBVIOUS
<1>1. 1..Len(tokens) = {} /\ 1..(Len(tokens) - 1) = {} /\ LastType = "NEWLINE"
  BY DEF Init, LastType
<1>2. LastType \notin ContentTypes
  BY <1>1, LayoutIsNoContent
<1> QED
  BY <1>1, <1>2 DEF LineBreakInv, TokensUnbroken, LexemeUnbroken, Init

LEMMA BreakStep ==
  ASSUME TInv, LineBreakInv, [Next]_vars
  PROVE  LineBreakInv'
<1>a. /\ TypeOK /\ IInv /\ LexemeInv /\ buf' = buf
      /\ cur \in Nat /\ start \in Nat /\ start <= cur /\ cur + 1 \in Nat /\ cur + 2 \in Nat
      /\ ret \in {"top", "next"}
  BY BufferSame DEF TInv, IInv, CursorInv, TypeOK
<1>b. /\ Peek = TextAt(buf, cur)
      /\ \A c : FollowedBy(c) <=> TextAt(buf, cur + 1) = c
  BY TextIs DEF Peek, FollowedBy
<1>c. /\ \A op \in OneCharOps : op[1] \notin NewLines /\ op[2] \in TokenTypes
      /\ \A op \in TwoCharOps :
           /\ op[1] \notin NewLines /\ op[2] \notin NewLines
           /\ op[3] \in TokenTypes /\ op[4] \in TokenTypes
      /\ {"INTLIT", "INVALID", "KEYWORD", "ID", "STRING", "IDSTRING"} \subseteq ContentTypes
      /\ ContentTypes \cup {"NEWLINE", "INDENT", "DEDENT"} = TokenTypes
  <2>1. \A op \in TwoCharOps : op[2] \notin NewLines
    BY DEF TwoCharOps, NewLines
  <2>2. "NEWLINE" \notin NewLines
    BY DEF NewLines
  <2> QED
    BY <2>1, OperatorsAreContent, OperatorTypes
       DEF Layout, BlankStart, ContentTypes, TokenTypes
<1>d. TokensUnbroken /\ LexemeUnbroken
  BY DEF LineBreakInv
<1>e. diags' = diags => (Reported => Reported')
  BY DEF Reported
<1>f. Peek # NoChar => Advanced = cur + 1
  BY DEF Advanced
<1>g. pc \in {"top", "indent", "dedent", "next"} =>
        /\ NoBreak(buf, start, cur)
        /\ start = cur \/ TextAt(buf, start) \notin NewLines
  <2> SUFFICES ASSUME pc \in {"top", "indent", "dedent", "next"}
               PROVE  /\ NoBreak(buf, start, cur)
                      /\ start = cur \/ TextAt(buf, start) \notin NewLines
    OBVIOUS
  <2>1. Spaces(buf, start, cur)
    BY <1>a DEF LexemeInv
  <2> QED
    BY <1>a, <2>1, FirstChar, NoBreakSpaces DEF NewLines
<1>h. pc \in {"number", "word", "string", "comment", "white"} =>
        /\ start < cur /\ TextAt(buf, start) \notin NewLines
  <2> SUFFICES ASSUME pc \in {"number", "word", "string", "comment", "white"}
               PROVE  start < cur /\ TextAt(buf, start) \notin NewLines
    OBVIOUS
  <2>1. PICK b \in start..(cur - 1) : Spaces(buf, start, b) /\ Content(buf, pc, strType, b, cur)
    BY <1>a DEF LexemeInv
  <2>2. b \in Nat /\ start <= b /\ b < cur
    BY <1>a, <2>1
  <2>3. TextAt(buf, b) \notin NewLines
    <3>1. CASE pc = "white"
      <4>1. b \in b..(cur - 1)
        BY <1>a, <2>2
      <4> QED
        BY <2>1, <3>1, <4>1 DEF Content, Spaces, NewLines
    <3>2. CASE pc # "white"
      BY <2>1, <3>2 DEF Content, NewLines, Digits, Letters
    <3> QED
      BY <3>1, <3>2
  <2>4. start = b \/ TextAt(buf, start) = "sp"
    BY <1>a, <2>1, <2>2, FirstChar
  <2> QED
    BY <1>a, <2>2, <2>3, <2>4 DEF NewLines
<1>1. CASE \/ IndentWhitespace \/ IndentBlankLine \/ IndentNotDeeper \/ DedentDone
           \/ ScanNul \/ NextChar \/ Return \/ UNCHANGED vars
  <2>1. start' = start /\ tokens' = tokens /\ diags' = diags
    BY <1>1 DEF IndentWhitespace, IndentBlankLine, IndentNotDeeper, DedentDone, ScanNul,
                NextChar, Return, vars
  <2>2. LexemeUnbroken'
    <3>1. CASE UNCHANGED vars
      BY <1>d, <3>1 DEF LexemeUnbroken, vars, Reported
    <3>2. CASE ~UNCHANGED vars
      <4>1. pc' \notin {"number", "word", "string"}
        BY <1>1, <1>a, <3>2 DEF IndentWhitespace, IndentBlankLine, IndentNotDeeper,
                                DedentDone, ScanNul, NextChar, Return
      <4> QED
        BY <4>1 DEF LexemeUnbroken
    <3> QED
      BY <3>1, <3>2
  <2> QED
    BY <1>a, <1>d, <1>e, <2>1, <2>2, BreakQuiet
<1>2. CASE IndentDeeper \/ Dedent \/ Flush
  <2>1. PICK type \in {"INDENT", "DEDENT"} : AddToken(type, cur)
    BY <1>2 DEF IndentDeeper, Dedent, Flush
  <2>2. diags' = diags /\ pc' \notin {"number", "word", "string"}
    BY <1>2, <1>a DEF IndentDeeper, Dedent, Flush
  <2>3. TokensUnbroken'
    BY <1>a, <1>c, <1>d, <1>e, <2>1, <2>2, LayoutIsNoContent, UnbrokenAdd
  <2> QED
    BY <2>2, <2>3 DEF LineBreakInv, LexemeUnbroken
<1>3. CASE ScanOneCharOp
  <2>1. PICK op \in OneCharOps : Peek = op[1] /\ AddToken(op[2], cur + 1)
    BY <1>3 DEF ScanOneCharOp
  <2>2. diags' = diags /\ pc' = "next" /\ pc = "top"
    BY <1>3 DEF ScanOneCharOp
  <2>3. /\ start < cur + 1 /\ TextAt(buf, start) \notin NewLines
        /\ NoBreak(buf, start, cur + 1)
    <3>1. TextAt(buf, cur) \notin NewLines
      BY <1>b, <1>c, <2>1
    <3>2. NoBreak(buf, start, cur) /\ (start = cur \/ TextAt(buf, start) \notin NewLines)
      BY <1>g, <2>2
    <3>3. NoBreak(buf, start, cur + 1)
      BY <1>a, <3>1, <3>2, NoBreakNext
    <3> QED
      BY <1>a, <3>1, <3>2, <3>3
  <2>4. TokensUnbroken'
    BY <1>a, <1>c, <1>d, <1>e, <2>1, <2>2, <2>3, UnbrokenAdd
  <2> QED
    BY <2>2, <2>4 DEF LineBreakInv, LexemeUnbroken
<1>4. CASE ScanTwoCharOp
  <2>1. PICK op \in TwoCharOps :
          /\ Peek = op[1]
          /\ IF FollowedBy(op[2])
             THEN AddToken(op[3], cur + 2) /\ UNCHANGED diags
             ELSE /\ AddToken(op[4], cur + 1)
                  /\ IF op[4] = "INVALID" THEN Report("UnexpectedCharacter")
                                          ELSE UNCHANGED diags
    BY <1>4 DEF ScanTwoCharOp
  <2>2. pc' = "next" /\ pc = "top"
    BY <1>4 DEF ScanTwoCharOp
  <2>3. /\ start < cur + 1 /\ start < cur + 2 /\ TextAt(buf, start) \notin NewLines
        /\ NoBreak(buf, start, cur + 1)
    <3>1. TextAt(buf, cur) \notin NewLines
      BY <1>b, <1>c, <2>1
    <3>2. NoBreak(buf, start, cur) /\ (start = cur \/ TextAt(buf, start) \notin NewLines)
      BY <1>g, <2>2
    <3>3. NoBreak(buf, start, cur + 1)
      BY <1>a, <3>1, <3>2, NoBreakNext
    <3> QED
      BY <1>a, <3>1, <3>2, <3>3
  <2>4. Reported => Reported'
    <3>1. diags' = diags \/ Report("UnexpectedCharacter")
      BY <2>1
    <3> QED
      BY <1>a, <1>e, <3>1, ReportKept DEF DiagIDs
  <2>5. TokensUnbroken'
    <3>1. CASE FollowedBy(op[2])
      <4>1. NoBreak(buf, start, cur + 2)
        <5>1. TextAt(buf, cur + 1) \notin NewLines
          BY <1>b, <1>c, <3>1
        <5>2. NoBreak(buf, start, cur + 1 + 1)
          BY <1>a, <2>3, <5>1, NoBreakNext
        <5> QED
          BY <1>a, <5>2
      <4>2. AddToken(op[3], cur + 2) /\ op[3] \in TokenTypes
        BY <1>c, <2>1, <3>1
      <4> QED
        BY <1>a, <1>d, <2>3, <2>4, <4>1, <4>2, UnbrokenAdd
    <3>2. CASE ~FollowedBy(op[2])
      <4>1. AddToken(op[4], cur + 1) /\ op[4] \in TokenTypes
        BY <1>c, <2>1, <3>2
      <4> QED
        BY <1>a, <1>d, <2>3, <2>4, <4>1, UnbrokenAdd
    <3> QED
      BY <3>1, <3>2
  <2> QED
    BY <2>2, <2>5 DEF LineBreakInv, LexemeUnbroken
<1>5. CASE ScanNewLine
  <2> DEFINE to == IF Match({"CR"}) /\ FollowedBy("LF") THEN cur + 2 ELSE cur + 1
  <2>1. to \in Nat
    BY <1>a
  <2>2. /\ IF blank THEN DropLexeme(to) ELSE AddToken("NEWLINE", to)
        /\ diags' = diags /\ pc' = "indent" /\ pc = "top"
    BY <1>5 DEF ScanNewLine
  <2> HIDE DEF to
  <2>3. TokensUnbroken'
    <3>1. CASE blank
      <4>1. LastType \notin ContentTypes
        BY <1>a, <2>2, <3>1, LayoutIsNoContent DEF IInv, LineInv
      <4> QED
        BY <1>a, <1>d, <2>1, <2>2, <3>1, <4>1, UnbrokenSkip
    <3>2. CASE ~blank
      <4>1. "NEWLINE" \in TokenTypes \ ContentTypes
        BY LayoutIsNoContent DEF TokenTypes
      <4> QED
        BY <1>a, <1>d, <1>e, <2>1, <2>2, <3>2, <4>1, UnbrokenAdd
    <3> QED
      BY <3>1, <3>2
  <2> QED
    BY <2>2, <2>3 DEF LineBreakInv, LexemeUnbroken
<1>6. CASE ScanUnexpected
  <2>1. /\ Peek \in {"?", "backslash"} /\ AddToken("INVALID", cur + 1)
        /\ Report("UnexpectedCharacter") /\ pc = "top" /\ pc' = "next"
    BY <1>6 DEF ScanUnexpected, Match
  <2>2. /\ start < cur + 1 /\ TextAt(buf, start) \notin NewLines
        /\ NoBreak(buf, start, cur + 1)
    <3>1. TextAt(buf, cur) \notin NewLines
      BY <1>b, <2>1 DEF NewLines
    <3> QED
      BY <1>a, <1>g, <2>1, <3>1, NoBreakNext
  <2>3. Reported => Reported'
    BY <1>a, <2>1, ReportKept DEF DiagIDs
  <2>4. TokensUnbroken'
    BY <1>a, <1>c, <1>d, <2>1, <2>2, <2>3, UnbrokenAdd
  <2> QED
    BY <2>1, <2>4 DEF LineBreakInv, LexemeUnbroken
<1>7. CASE EnterRun \/ EnterString
  <2>1. /\ start' = start /\ tokens' = tokens /\ diags' = diags /\ pc = "top"
        /\ cur' = Advanced /\ Peek \notin NewLines \cup {NoChar}
    <3>1. CASE EnterRun
      <4>1. \A run \in RunOf : run[1] \notin NewLines \cup {NoChar}
        BY NoCharIsNone DEF RunOf, NewLines, Letters, Digits
      <4> QED
        BY <3>1, <4>1 DEF EnterRun
    <3>2. CASE EnterString
      BY <3>2 DEF EnterString, Match, NewLines, NoChar
    <3> QED
      BY <1>7, <3>1, <3>2
  <2>2. NoBreak(buf', start', cur')
    BY <1>a, <1>b, <1>f, <1>g, <2>1, NoBreakNext
  <2>3. LexemeUnbroken'
    BY <2>2 DEF LexemeUnbroken
  <2> QED
    BY <1>a, <1>d, <1>e, <2>1, <2>3, BreakQuiet
<1>8. CASE Run
  <2>1. /\ start' = start /\ tokens' = tokens /\ diags' = diags /\ pc' = pc
        /\ cur' = Advanced /\ pc \in {"comment", "white", "number", "word"}
    BY <1>8 DEF Run
  <2>2. pc \in {"number", "word"} => NoBreak(buf', start', cur')
    <3> SUFFICES ASSUME pc \in {"number", "word"}
                 PROVE  NoBreak(buf', start', cur')
      OBVIOUS
    <3>1. Peek \in WordChars
      BY <1>8 DEF Run, InRun, WordChars
    <3>2. Peek \notin NewLines \cup {NoChar}
      BY <3>1, NoCharIsNone DEF WordChars, Letters, Digits, NewLines
    <3>3. NoBreak(buf, start, cur)
      BY <1>d DEF LexemeUnbroken
    <3> QED
      BY <1>a, <1>b, <1>f, <2>1, <3>2, <3>3, NoBreakNext
  <2>3. LexemeUnbroken'
    BY <2>1, <2>2 DEF LexemeUnbroken
  <2> QED
    BY <1>a, <1>d, <1>e, <2>1, <2>3, BreakQuiet
<1>9. CASE EndSkip
  <2>1. DropLexeme(cur) /\ diags' = diags /\ pc' = "next" /\ pc \in {"comment", "white"}
    BY <1>9 DEF EndSkip
  <2>2. NoBreak(buf, start, cur)
    <3>1. PICK b \in start..(cur - 1) :
            Spaces(buf, start, b) /\ Content(buf, pc, strType, b, cur)
      BY <1>a, <2>1 DEF LexemeInv
    <3>2. NoBreak(buf, b, cur)
      BY <2>1, <3>1, NoBreakSpaces DEF Content, NoBreak, CommentEnd
    <3>3. NoBreak(buf, start, b) /\ b \in Nat
      BY <1>a, <3>1, NoBreakSpaces
    <3> QED
      BY <1>a, <3>2, <3>3, NoBreakJoin
  <2>3. TokensUnbroken'
    BY <1>a, <1>d, <2>1, <2>2, UnbrokenSkip
  <2> QED
    BY <2>1, <2>3 DEF LineBreakInv, LexemeUnbroken
<1>10. CASE EndNumber \/ EndWord
  <2>1. PICK type \in {"INTLIT", "INVALID", "KEYWORD", "ID"} : AddToken(type, cur)
    BY <1>10 DEF EndNumber, EndWord
  <2>2. pc \in {"number", "word"} /\ pc' = "next"
    BY <1>10 DEF EndNumber, EndWord
  <2>3. Reported => Reported'
    <3>1. CASE EndNumber
      BY <1>a, <3>1, NumberErrorsType, ReportedKept DEF EndNumber
    <3>2. CASE EndWord
      BY <1>e, <3>2 DEF EndWord
    <3> QED
      BY <1>10, <3>1, <3>2
  <2>4. NoBreak(buf, start, cur) /\ start < cur /\ TextAt(buf, start) \notin NewLines
    BY <1>d, <1>h, <2>2 DEF LexemeUnbroken
  <2>5. TokensUnbroken'
    BY <1>a, <1>c, <1>d, <2>1, <2>3, <2>4, UnbrokenAdd
  <2> QED
    BY <2>2, <2>5 DEF LineBreakInv, LexemeUnbroken
<1>11. CASE StringChar
  <2>1. /\ start' = start /\ tokens' = tokens /\ diags' = diags
        /\ cur' = Advanced /\ pc = "string" /\ pc' = "string"
        /\ strType = "INVALID" => strType' = "INVALID"
    BY <1>11 DEF StringChar, StringTypeWith
  <2>2. Peek \notin NewLines \cup {NoChar}
    <3>1. Peek \notin NewLines /\ cur <= End
      BY <1>11, <1>a, LexerAssumption DEF StringChar, InString, Match, AtEnd, End, TypeOK
    <3> QED
      BY <1>a, <3>1, CharAtBounds DEF Peek
  <2>3. NoBreak(buf, start, cur) => NoBreak(buf', start', cur')
    BY <1>a, <1>b, <1>f, <2>1, <2>2, NoBreakNext
  <2>4. LexemeUnbroken'
    BY <1>d, <1>e, <2>1, <2>3 DEF LexemeUnbroken
  <2> QED
    BY <1>a, <1>d, <1>e, <2>1, <2>4, BreakQuiet
<1>12. CASE StringEscape
  <2>1. /\ start' = start /\ tokens' = tokens /\ cur' = cur + 2
        /\ pc = "string" /\ pc' = "string" /\ Peek = "backslash"
    BY <1>12 DEF StringEscape, Match
  <2>2. CASE CharAt(cur + 1) \in Escapable
    <3>1. diags' = diags /\ (strType = "INVALID" => strType' = "INVALID")
      BY <1>12, <2>2 DEF StringEscape, StringTypeWith
    <3>2. TextAt(buf, cur) \notin NewLines /\ TextAt(buf, cur + 1) \notin NewLines
      BY <1>b, <2>1, <2>2, TextIs DEF Escapable, NewLines
    <3>3. NoBreak(buf, start, cur) => NoBreak(buf', start', cur')
      <4>1. NoBreak(buf, start, cur) => NoBreak(buf, start, cur + 1)
        BY <1>a, <3>2, NoBreakNext
      <4>2. NoBreak(buf, start, cur + 1) => NoBreak(buf, start, cur + 1 + 1)
        BY <1>a, <3>2, NoBreakNext
      <4>3. cur + 1 + 1 = cur + 2
        BY <1>a
      <4> QED
        BY <1>a, <2>1, <4>1, <4>2, <4>3
    <3>4. LexemeUnbroken'
      BY <1>d, <1>e, <2>1, <3>1, <3>3 DEF LexemeUnbroken
    <3> QED
      BY <1>a, <1>d, <1>e, <2>1, <3>1, <3>4, BreakQuiet
  <2>3. CASE CharAt(cur + 1) \notin Escapable
    <3>1. strType' = "INVALID" /\ Report("InvalidEscapeCharacter")
      BY <1>12, <2>3 DEF StringEscape
    <3>2. Reported' /\ (Reported => Reported')
      BY <1>a, <3>1, ReportKept DEF DiagIDs
    <3>3. LexemeUnbroken'
      BY <2>1, <3>1, <3>2 DEF LexemeUnbroken
    <3> QED
      BY <1>a, <1>d, <2>1, <3>2, <3>3, BreakQuiet
  <2> QED
    BY <2>2, <2>3
<1>13. CASE EndString
  <2>1. /\ IF Match({"quote"}) THEN UNCHANGED diags ELSE Report("UnterminatedString")
        /\ AddToken(IF Match({"quote"}) THEN strType ELSE "INVALID", Advanced)
        /\ pc = "string" /\ pc' = "next"
    BY <1>13 DEF EndString
  <2>2. Advanced \in Nat /\ start < Advanced /\ TextAt(buf, start) \notin NewLines
    BY <1>a, <1>h, <2>1 DEF Advanced
  <2>3. strType \in {"STRING", "IDSTRING", "INVALID"}
    BY <1>a DEF TypeOK
  <2>4. Reported => Reported'
    BY <1>a, <1>e, <2>1, ReportKept DEF DiagIDs
  <2>5. CASE Match({"quote"})
    <3>1. TextAt(buf, cur) \notin NewLines /\ Advanced = cur + 1 /\ diags' = diags
      BY <1>b, <1>f, <2>1, <2>5 DEF Match, NewLines, NoChar
    <3>2. NoBreak(buf, start, Advanced) \/ (strType = "INVALID" /\ Reported')
      BY <1>a, <1>d, <1>e, <2>1, <3>1, NoBreakNext DEF LexemeUnbroken
    <3>3. AddToken(strType, Advanced) /\ strType \in TokenTypes
      BY <1>c, <2>1, <2>3, <2>5
    <3>4. TokensUnbroken'
      BY <1>a, <1>d, <2>2, <2>4, <3>2, <3>3, UnbrokenAdd
    <3> QED
      BY <2>1, <3>4 DEF LineBreakInv, LexemeUnbroken
  <2>6. CASE ~Match({"quote"})
    <3>1. Reported'
      BY <1>a, <2>1, <2>6, ReportKept DEF DiagIDs
    <3>2. AddToken("INVALID", Advanced) /\ "INVALID" \in TokenTypes
      BY <1>c, <2>1, <2>6
    <3>3. TokensUnbroken'
      BY <1>a, <1>d, <2>2, <3>1, <3>2, UnbrokenAdd
    <3> QED
      BY <2>1, <3>3 DEF LineBreakInv, LexemeUnbroken
  <2> QED
    BY <2>5, <2>6
<1> QED
  BY <1>1, <1>2, <1>3, <1>4, <1>5, <1>6, <1>7, <1>8, <1>9, <1>10, <1>11, <1>12, <1>13
     DEF Next, HandleIndentation, Switch, Scan, Terminating

(* A content token stands on one line, or its string has been reported as  *)
(* one without an end, whatever the source buffer.                         *)
THEOREM LexerLineBreaks == Spec => []LineBreakInv
<1>1. Init => TInv /\ LineBreakInv
  BY InitTInv, BreakInit
<1>2. TInv /\ LineBreakInv /\ [Next]_vars => (TInv /\ LineBreakInv)'
  BY NextTInv, BreakStep
<1> QED
  BY <1>1, <1>2, PTL DEF Spec

LEMMA LinesKept == TInv /\ LineBreakInv => LinesAreKept
<1> SUFFICES ASSUME TInv, LineBreakInv, NEW i \in 1..(Len(tokens) - 1),
                    IsContent(i), IsContent(i + 1),
                    ~SameLine(tokens[i].from, tokens[i + 1].from)
             PROVE  tokens[i].type = "INVALID" /\ Reported
  BY DEF LinesAreKept, Reported
<1>1. i \in 1..Len(tokens) /\ i + 1 \in 1..Len(tokens)
  BY DEF TInv, IInv, TypeOK
<1>2. /\ tokens[i].from \in Nat /\ tokens[i].to \in Nat
      /\ tokens[i + 1].from \in Nat /\ tokens[i + 1].to \in Nat
  BY <1>1, RangesAreOffsets DEF TInv, IInv
<1>3. PICK r \in tokens[i].from..tokens[i + 1].from : TextAt(buf, r) \in NewLines
  BY TextIs DEF SameLine
<1>4. Unbroken(buf, Reported, tokens[i]) /\ Unbroken(buf, Reported, tokens[i + 1])
  BY <1>1 DEF LineBreakInv, TokensUnbroken
<1>5. NoBreak(buf, tokens[i].to, tokens[i + 1].from)
  BY DEF LineBreakInv, TokensUnbroken, Joined, IsContent
<1>6. r # tokens[i + 1].from
  BY <1>3, <1>4 DEF Unbroken, IsContent
<1>7. r \notin tokens[i].to..(tokens[i + 1].from - 1)
  BY <1>3, <1>5 DEF NoBreak
<1>8. r \in tokens[i].from..(tokens[i].to - 1)
  BY <1>2, <1>3, <1>6, <1>7
<1>9. ~NoBreak(buf, tokens[i].from, tokens[i].to)
  BY <1>3, <1>8 DEF NoBreak
<1> QED
  BY <1>4, <1>9 DEF Unbroken, IsContent

(* No new line between two tokens of content goes without a NEWLINE, but   *)
(* for the reported string that swallowed it, whatever the source buffer.  *)
THEOREM LexerLinesAreKept == Spec => []LinesAreKept
BY LexerTextInvariant, LexerLineBreaks, LinesKept, PTL

============================================================================
