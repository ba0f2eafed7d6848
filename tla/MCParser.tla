------------------------------ MODULE MCParser ------------------------------
(***************************************************************************)
(* The parser on every token stream of the lexer of a given form.          *)
(***************************************************************************)
EXTENDS ParserClaims

(* The streams the lexer gives the driver to parse: those of its contract, *)
(* without errors.                                                         *)
Kind(type) ==
  IF type \in {"NEWLINE", "INDENT", "DEDENT"} THEN type ELSE "WORD"

LexerContract(s) ==
  INSTANCE TokenContract WITH
    kinds  <- [i \in DOMAIN s |-> Kind(s[i])],
    depth  <- 0,
    errors <- FALSE,
    phase  <- "closed"

FromLexer(streams) == {s \in streams : LexerContract(s)!StreamOK}

Upto(set, n) == UNION {[1..k -> set] : k \in 0..n}

(* At most n tokens of alphabet between before and after.                  *)
Between(before, alphabet, n, after) ==
  {before \o s \o after : s \in Upto(alphabet, n)}

(* One line of words, which the contract always allows.                    *)
Assigned(alphabet, n) == Between(<<"ID", "ASSIGN">>, alphabet, n, <<"NEWLINE">>)

(* An assignment of operators without parentheses, and of nested ones.     *)
MCOperators(n) == Assigned({"ID", "AND", "OR", "NOT", "EQUAL", "PLUS", "MINUS"}, n)

MCNesting(n) ==
  Assigned({"ID", "OR", "NOT", "EQUAL", "MINUS", "OPENPAREN", "CLOSEPAREN"}, n)

MCDefinitions(n) ==
  FromLexer(Between(<<"ID", "COLON">>,
                    {"ID", "OPENBRACK", "CLOSEBRACK", "ASSIGN", "INTLIT", "NEWLINE"}, n, <<>>))

MCUnfinished == FromLexer(Between(<<"ID", "COLON">>, {"ID", "OPENBRACK", "ASSIGN"}, 2, <<>>))

MCGroups == Assigned({"ID", "PLUS", "OPENPAREN", "CLOSEPAREN"}, 3)

MCStatements == Between(<<>>, {"ID", "ASSIGN", "PLUS"}, 4, <<"NEWLINE">>)

(* Programs of at most n lines, complete or not.                           *)
Lines ==
  {<<"ID", "COLON", "ID", "ASSIGN", "INTLIT">>,
   <<"ID", "ASSIGN", "ID", "ASSIGN", "INTLIT">>,
   <<"INTLIT", "ASSIGN", "INTLIT">>,
   <<"ID", "ASSIGN", "OPENPAREN", "CLOSEPAREN">>,
   <<"ID", "COLON", "OPENBRACK", "ID">>,
   <<"ID", "COLON", "ID">>, <<"ID", "COLON">>, <<"ID">>, <<"PASS">>,
   <<"IF">>, <<"OTHER">>}

Layout == {<<"NEWLINE">>, <<"NEWLINE", "INDENT">>, <<"NEWLINE", "DEDENT">>, <<>>}

MCLines == {line \o layout : line \in Lines, layout \in Layout}

Join(lines) ==
  LET join[k \in 0..Len(lines)] == IF k = 0 THEN <<>> ELSE join[k - 1] \o lines[k]
  IN  join[Len(lines)]

MCPrograms(n) == FromLexer({Join(ls) : ls \in Upto(MCLines, n)})
============================================================================
