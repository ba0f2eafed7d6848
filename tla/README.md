# A verification of ChocoC

ChocoC (`chocopc`) compiles ChocoPy source files to LLVM IR. This directory
models the compiler in TLA+, checks the models with TLC on small instances, and
proves what matters most about them with TLAPS for every value of the constants.
Paths in the modules' comments are relative to the repository.

## 1. The system

`main` in `src/chocopc.cpp` takes the input files one after the other through
five phases in one process and one thread:

    file -> Lexer -> TokenStream -> Parser -> (PrettyPrinter) -> SymbolTableBuilder
                                                  -> TypeChecker -> IRGen -> module

Every phase works on what the one before has left: the parser on the lexer's
`m_tokens` through a `TokenStream`, the visitors on the parser's tree, the type
checker and the IR generator on the symbol table. All phases of a file share one
`DiagnosticsManager`; after the lexer, the parser and the type checker the
driver asks `hadError()` (and, after the parser, for a null root) and skips the
rest of the file.

| Component | State | Operations | What makes it correct |
| --- | --- | --- | --- |
| Lexer | lexeme start and length, tokens, stack of indentation levels, blank-line flag | `lex` and the scanners it dispatches to | it ends; no dereference past the terminating NUL; INDENT/DEDENT follow the blocks of the text; nothing but white space, comments and blank lines is dropped, and no line end between two lines of content; an INVALID token is always reported |
| TokenStream | index | `peek(n)`, `advance` | never beyond the tokens |
| Parser | the stream, the call stack, the tree | one function per non-terminal, precedence climbing for expressions | it ends; it accepts the grammar and builds its tree; operators bind by level and associativity; every token is in the tree; the constructors' assertions hold; diagnostics have a location |
| AST | nodes, immutable once built; children, a constant-expression flag | constructors, `accept`; `ASTVisitor`'s default traversal | children are never null; tokens outlive the tree |
| Diagnostics | the list of diagnostics of a file | `report` (emits when its builder dies), `hadError`, `printAll` | `hadError` holds once anything is reported: every severity is an error |
| Semantic analysis | symbol table: name to type or variable | `SymbolTableBuilder`, `TypeChecker`, `TypeEnvironment::typeOf`, `Type::isAssignmentCompatible` | an accepted program is well typed; no name is looked up that the table does not hold |
| IR generation | module, insertion point, interned strings, allocations in the symbol table | `IRGen` visitors | every identifier has an allocation when it is used; operands come before their use; the code does what the program says; stores fit the variable |
| Driver | current file, options; a manager, a table and a module per file | `main` | no phase runs on what an earlier one rejected; each file is dealt with as if it were alone; every diagnostic is printed once |
| PrettyPrinter | output text | visitors | covers every operator the parser accepts; what it prints parses to what was printed |

There is no concurrency and nothing persistent. What is hard here is

- **sequences**: indentation levels, lexeme bounds, the string type and the
  blank-line flag are carried over the whole file by loops and flags that each
  look right alone;
- **boundaries**: the end of the buffer, the end of the token stream, a file
  that does not end in a newline, a NUL in the file, the range of integers;
- **partial failure**: errors are reported *and* signalled by a null pointer,
  independently, and each caller has to pass both on;
- **termination** of the loops that only advance when there is a character, and
  of the recursion that only ends when tokens have been consumed;
- **order between phases**: what one phase rejects, the next must not rely on;
  the driver does not ask between the symbol table builder and the type checker;
- **values by kind**: the IR generator decides by the kind of LLVM object whether
  a value is loaded, and takes a variable's type from its first value;
- **one file after another**: five early exits leave the loop's body at different
  points, and nothing of a file may be seen in the next;
- **errors that return**: an expression that was reported has no type, and every
  operator around it has to hand that on.

`PROJECT.json` lists the hazards line by line with the properties that cover them.

## 2. Plan

1. `TokenContract`: what the lexer promises the parser (abstract specification).
2. `Lexer`: the lexer, proved to implement the contract.
3. `Parser`: the parser on the streams of the contract, its invariants proved.
4. `Semantic`: symbol table builder and type checker over the trees the parser
   accepts; the verdict against declarative typing rules; which inputs fail.
5. `IRGen`: the module and its code over the table the type checker leaves,
   compared with the meaning of the program; its assertions, proved.
6. `PrettyPrinter` and `RoundTrip`: what it prints, composed with the parser.
7. `Batch`: what the compiler promises of a command line (abstract
   specification). `Compiler`: the driver's loop, composing 4 to 6 with `INSTANCE`,
   checked to implement `Batch`.

8. The theorems, first about a component's state alone, then about what it has
   to do with the rules over the whole tree, then about the driver around it.

All of it is done.

## 3. The modules

| Module | What it is |
| --- | --- |
| `TokenContract.tla` | The abstract specification of the token stream: words, ends of lines, blocks opened and closed, errors reported. |
| `Lexer.tla` | `Lexer.cpp`: one action per branch of `lex()` and per iteration of a loop. |
| `LexerProperties.tla` | Its properties and the refinement mapping to `TokenContract`. |
| `LexerClaims.tla`, `ParserClaims.tla`, `IRGenClaims.tla` | What a comment or message of the repository says and the code does not do. |
| `Parser.tla` | `Parser.cpp` over `TokenStream.cpp`, with the constructors of `include/ast`. |
| `ParserProperties.tla` | Its properties. |
| `ParserReference.tla` | The language as a grammar: the derivation trees of a span of tokens, to compare the parser with. |
| `AST.tla` | The tree as the visitors read it; what the parser can leave in it. |
| `Semantic.tla` | `SymbolTableBuilder` and `TypeChecker` over the tree, with `SymbolTable`, `TypeEnvironment`, `Type` and the default traversal of `ASTVisitor`. |
| `SemanticReference.tla` | The typing rules over the whole tree, without table, order or diagnostics. |
| `SemanticProperties.tla` | The properties of `Semantic`. |
| `IRGen.tla` | `LLVM.cpp` over the tree and the table. |
| `IRGenReference.tla` | Which accepted programs have a translation, from the tree alone. |
| `IRGenProperties.tla` | The properties of `IRGen`, with the meaning of a program and of emitted code. |
| `PrettyPrinter.tla` | `PrettyPrinter.cpp` as a function from trees to tokens. |
| `RoundTrip.tla` | The parser on what the printer writes. |
| `Batch.tla` | The abstract specification of a command line. |
| `Compiler.tla` | `chocopc.cpp`: the loop over the files, around instances of `Semantic` and `IRGen`. |
| `CompilerProperties.tla` | Its properties and the refinement mapping to `Batch`. |
| `MCLexer.tla`, `MCParser.tla`, `MCRoundTrip.tla`, `MCSemantic.tla`, `MCIRGen.tla`, `MCCompiler.tla` | Sources, token streams, programs and command lines for TLC. |
| `TreeProofs.tla` | Induction and recursion over the trees: the recursive functions of `AST`, `SemanticReference` and `PrettyPrinter` satisfy their equations, and what follows. |
| `TokenContractProofs.tla`, `LexerProofs.tla`, `ParserProofs.tla`, `GrammarProofs.tla`, `SemanticProofs.tla`, `IRGenProofs.tla`, `CompilerProofs.tla` | The theorems; `GrammarProofs` compares `Parser` with the grammar of `ParserReference` and with what is printed (`RoundTrip`). |

### Lexer

`buf` is the text up to `m_buffer_end`; `start` and `cur` are `m_lexeme_start`
and the end of the lexeme as offsets; `tokens` holds type and source range. `pc`
names the loop the code is in and `ret` the caller of `handleIndentation`.
`CharAt` is `peek`: the character, the NUL that `MemoryBuffer` puts behind the
text, and an empty optional beyond it. Characters that every branch treats alike
share a representative (a tab is a blank, one letter stands for all but `n`,
which may follow a backslash). A token's value is left out: it is a function of
its text. `to_integer` is modelled by what it does, with the largest integer as
a constant. Every token but a DEDENT resets the lexeme; the lexeme that
`handleIndentation` leaves standing is kept, as in the code.

### Parser

`toks` are the types of the tokens, `pos` the index of the stream. `stack` is
the call stack: an activation has the place it is at (`"expression.operand"` is
`parseExpression` after its call for the right operand), the pointers it owns
and its `min_power`. A step runs the top activation to its next call or return;
`result` is what was returned, 0 for `nullptr`. `nodes` is the heap: a node has
its token, its children, the dimension of a type and the range of tokens it was
made from. A dereferenced empty optional sets `undefined`; from then on the
process may die (`Crash`) at any step, or go on. Text is left out: the parser
never looks at it.

### Semantic analysis

`program` is the list of children of the tree's root; its nodes are records with
the fields of `include/ast`, names and type annotations being their texts.
`phase` is the visitor at work (`"build"`, `"check"`) or how the analysis ended;
`child` is the child it is at, `target` how far an assignment has come: 0 before
its expression, then the target that is compared next. `stack` holds the
activations of the type checker inside the expression, `result` the `std::any`
the last one returned: a type, an empty optional (`Nothing`) or an empty `any`
(`EmptyAny`). `table` is `m_entries`; `diags` keeps for each diagnostic the child
and the part of it that it is about.

A type is its name. All types of a program are the six objects the table starts
with (a list annotation is looked up by its text `[T]`, which is no key), so no
type has a dimension, every type but `object` has `object` as its super class,
and rules 3 and 4 of `isAssignmentCompatible`, which are about lists, cannot
apply. The builder's own work per definition is one step with three outcomes; its
traversal of an assignment reads nothing and is one step, which crashes if it
meets the null expression of `x = ()`.

Undefined behaviour is a choice. `typeOf` of a type's name runs into
`std::unreachable()`, and a definition without an entry fails an assertion or, in
a release build, dereferences an empty optional: in both cases the step goes on
with any type, `undefined` is set, and `Crash` may end the process from then on.
`std::bad_any_cast`, which nothing catches, is the step `BadAnyCast`.

### IR generation

The module is its global variables (`globals`) and the instructions of `main`
(`code`); a value is a literal's constant, the address of a global or the result
of an instruction. LLVM is external: `IRBuilder` appends an instruction for every
operation, and `OperandsFit` says which operations it can make sense of; of the
others, `undefined` is set, as it is for `is`, whose case is missing in the switch
and which may end in any other. `strings` is `m_string_allocations`, `allocation`
the field of the table's variables. `stack` holds the activations of the visitor
as in the semantic analysis, `result` the pointer in the `std::any` that the last
one returned. The initial states are the well-typed programs with the table that
the builder makes of them; that these are what the driver hands over is
`HandOver` of the run `compiler`.

`CodeMeansProgram` runs both: `ProgramNow` evaluates the program up to the child
and target being visited, `CodeAfter` executes the emitted instructions on a
memory of one cell per global. The values of both are symbolic, trees of
operations over literals, so they agree only if every operation gets the operands
it should, in order, and every load and store its cell at the right time.

### Pretty printer

`ProgramTokens` is the sequence of tokens that the output consists of; spaces and
the escapes within strings are left out, and every name is an `ID`. `RoundTrip`
gives these tokens to `Parser` and compares the shape of its heap with that of the
tree. The printer's own parentheses and those of the source are both left out of
a shape.

### Driver

What lexer and parser make of a file, as far as the driver can tell, is part of
the file (`Contents`): whether it can be read, how many errors each of them
reports, and the tree. The visitors run in full, as instances of `Semantic` and
`IRGen` on the variables of `Compiler`; the field `result` of the latter is
`value` here. `output` is what has been printed, with the file it is about.
`NextFile` is the end of the loop's body, where the destructors run. An exception
or undefined behaviour in any visitor ends the process with the files that are
left. The output before that is taken as printed, although `outs()` is buffered.

The mapping to `Batch` takes what was printed for every file that is dealt with,
and `phase = "crashed"` for the death of the process. `Shows` and `Deadly` are
derived from the file and the options by the typing rules and `IRGenReference`,
without a word about the files before it: that the verdict on a file does not
depend on them is what the refinement shows.

## 4. The runs

| Run | Instance | What it shows |
| --- | --- | --- |
| `lexer` | every text of at most 9 characters of words, blanks and new lines; at most 6 with comments and both kinds of new line; at most 5 with strings, escapes, NULs and everything that can run to the end of the buffer; at most 4 with operators, digits and words; integers up to 7, the keyword `in` | types; no empty optional dereferenced; the contract is implemented and the stream well formed; nothing lost; no line end lost but with a reported string; tokens never stop short; only closed strings accepted; depth of every line equals the blocks around it in the text, and stays within bounds where a dedent meets no open block; `lex()` returns |
| `parser` | `x = e` for every `e` of at most 5 tokens of names, one binary operator of each precedence (two for `+`/`-`), both unary operators, and of nested parentheses; `x:` followed by at most 5 tokens of types, literals and new lines; programs of at most 3 lines out of 11, complete or broken, ended by a NEWLINE with or without INDENT or DEDENT, or by nothing; and what the printer writes for every nesting of two operators out of 7, unary operators and parentheses over five atoms, alone and between definitions | the parser accepts the grammar and builds its tree; operators bind by level and associativity; constructor assertions; locations exist; every token is in the tree; what is printed parses to what was printed; `parse()` returns |
| `lexer_blank_end` | violation | blanks at the end of a file open a block |
| `lexer_same_indent` | violation | the first word of an equally indented line has the blanks in its text |
| `parser_no_newline` | violation | location read from a missing token |
| `parser_empty_group` | violation | `x = ()` is accepted with a null child |
| `parser_missing_operand` | violation | `x = 1 +` is rejected without a diagnostic |
| `semantic` | every expression of at most one operator over 8 literals and names, and of two over 4, assigned to one or two targets, declared, undeclared or a type's name, behind three headers of definitions; every list of at most two definitions (three, if only names and types differ), with and without a use; pairs of assignments | types; the verdict is that of the typing rules; the analysis fails on exactly the programs it has no answer for; a definition that leaves no variable was reported; an error is not reported again as a mismatch; the analysis ends |
| `semantic_no_entry` | violation | `x: foo = 1` fails the type checker's assertion |
| `irgen` | four headers of three definitions: integers and a boolean, strings with one text and with two, objects with different first values, and one that starts with `None`; behind them every expression of at most one operator out of four over 7 atoms, and selected ones of two, assigned to one or two variables; and every two assignments of 8 small right sides, to one or two targets, after each other | types; names have allocations; one global for each variable and text; operands are defined; the code means the program; the generation fails on exactly the programs without a translation; stores fit where the type checker knows the type; the generation ends |
| `irgen_string` | violation | the characters of a string literal are loaded in place of its address |
| `compiler` | 18 kinds of files: broken for each phase, sound, unsound, and one for each way a visitor can die; every command line of two of them with every combination of the options, and of three of those that cannot kill the process | types; the generator is handed well-typed programs and their own table; every diagnostic is printed once; each file gets the verdict it would have alone, and the compilation ends |

**Bounds.** Nine characters are two nested blocks and a dedent over one or both,
with an indented first line; six with comments put a comment, a CR LF pair and a
blank line between two lines; five hold an escape before each way a string can
end. Five tokens of an expression are two binary operators with any operand
nested or negated or in parentheses, which is every pair of binding powers in
both nestings. Five tokens after the colon are a list type with a literal, and
each of them missing or doubled. Three lines give each line a
predecessor and a successor. The streams of the parser's runs are filtered by
the lexer's contract, so no stream is checked that the lexer cannot produce.
Two operators are an operator whose operand has any of the results there are: a
type, no type, no value at all. `is` stands for the twelve operators the type
checker does not tell apart. Three definitions are one that is rejected between
two of the same name. In `irgen`, `-`, `==`, `and` and `is` stand for the four
ways an operator is translated; two assignments are one that reads what the other
wrote, and three variables a store with a bystander. In `compiler`, a third file
sees what two others may have left behind.

**Fairness.** `lex()`, `parse()` and the visitors are sequential functions in a
process that is scheduled: `WF_vars(Next)` says that a call which can go on does. Nothing
stronger is assumed, and no state but the last is without a step.

**Deadlock** is checked in every run; the end of the program is the explicit
step `Terminating`.

## 5. What is proved

All theorems hold for every set of source files, keyword table, integer range,
token streams, programs and command lines. The assumptions are those of the
constants: buffers are sequences of characters, keywords sequences of letters,
`IntMax` a natural (`LexerAssumption`); streams are sequences of token types
(`ParserAssumption`); expressions contain their subexpressions and programs are
sequences of definitions followed by assignments (`ASTAssumption`); an operand is
smaller than its expression, that is, expressions are finite trees
(`ExpressionsAreTrees`, which says no more than that the parser builds a node after
its operands); a file has a tree that is one of the programs, or none
(`CompilerAssumption`); a literal is printed as a token of one of the literal types,
and an assignment has a target, which `parseStatement` has seen to
(`PrintedTrees`, of the trees to print; the theorems about the parser alone do not
use it). TLC evaluates them in the runs.

- `TokenContractProofs`: the contract keeps its type (`ContractTypeOK`) and every
  stream that follows it is well formed (`ContractStreamOK`). The count of
  INDENT and DEDENT tokens needs cardinalities of position sets, one lemma for
  each way a set grows by one.
- `LexerProofs`: `LexerTypeOK`, `LexerNoEmptyDeref`, `LexerImplementsContract` and,
  from it and the contract's theorem, `LexerStreamOK`. The inductive invariant
  adds to the types (1) how far the cursor may be in each loop: at most on the
  terminating NUL wherever a character is dereferenced, one past it elsewhere;
  (2) the stack of levels starts with 0 and grows strictly, so the top can be
  popped whenever it is positive; (3) how the blank-line flag, the type of the
  last token and the next character go together. Without (3) a NEWLINE could
  not be shown to follow content, nor an INDENT to start a line.
  `LexerNothingLost`, `LexerMaximalMunch` and `LexerStringsAreClosed` compare the
  tokens with the text. Their invariant says what the lexeme holds in each loop
  (`LexemeInv`: for a string, also how many backslashes in a row precede the
  cursor), that every step goes on, skips what is no content, or adds one token
  with the text it read (`StepAdds`), and keeps of the tokens what the three
  properties say (`TokensInv`). `LexerLinesAreKept` adds `LineBreakInv`: a lexeme and a
  token of content hold no new line unless they are a string in error that has been
  reported, and no new line stands between a token of content and the next one or the
  lexeme; a new line that is skipped comes after a NEWLINE, which is (3) above.
  `LexerBlocksFollowIndentation` has `BlockInv`: between
  lines, the stack of levels is what the indentations of the lines so far leave
  open, and the INDENT and DEDENT tokens so far are as many as its changes. That
  holds as long as the lines go back to blocks that are open; the code accepts
  others. For these `LexerDepthIsBounded` has `BoundInv`: the stack is no longer
  the set of open indentations (a line between two levels opens a block of the text but
  none of the lexer's), but it lies between those that a line has gone in to and all of
  them (`LevelsBetween`), on every file.
- `ParserProofs`: `ParserTypeOK`, `ParserLocationsExist`, `ParserConstructorAssertions`,
  `ParserTreesCoverTokens` and `ParserOperatorsBind`. The invariant of the first three says
  that the stack is a chain of calls that starts at `parseProgram`, each activation at
  the place its callee returns to and owning well formed nodes; that nodes only point
  down; that what a call should have consumed has been consumed; and, for the locations, that
  inside a line of a stream which ends in a layout token the end of the line is
  still ahead: only layout tokens end a line, and no function consumes one
  before the end of its line. `ParserTreesCoverTokens` needs to know what a tree not
  yet finished has made of the tokens (`ParserCover`): there is, for each activation, the
  token behind which it began, such that its nodes and tokens are those from there
  to where its callee began, or to the cursor (`Pieces`, `Cover`); what it returned
  spans them (`Returned`). Where activations began is no variable of the model, so the
  invariant says that such a sequence exists. That an accepted assignment has a target
  does not follow from its own tokens: `parseStatement` has seen that the second token
  is an ASSIGN, and the invariant adds that none is consumed within an expression
  (`Since`), so a statement without target fails where its NEWLINE is expected.
  `ParserOperatorsBind` is about the trees, `ParserPrecedence` about the calls that build
  them (`BInv`): the power an activation of `parseExpression` carries is the one its caller's
  operator asks for, what it has consumed so far binds at least as tightly, and what it
  has just returned stops before an operator that does not. It rests on the other
  two: where the returned operand ends is where the cursor is (`ParserCover`), and the
  token of an operation is in the table. That the numbers of `Parser.cpp:13-57` order
  the operators as the levels of the language do is a lemma (`Powers`). There is one
  lemma per action, or per shape of a step, for each of the three invariants.
- `GrammarProofs`: `ParserParsesTheGrammar`, in two halves. *What is accepted is of the
  grammar*: `ParserMakesNodes` (`MInv`) adds to the invariants above which kinds of
  nodes and which tokens a node is made of; then, node by node from the oldest, every
  expression in the heap is a derivation of the level of its topmost operator
  (`SoundExpressions`), the powers giving the levels of its operands, and every line
  of an accepted tree is a line of the grammar (`ReadIsSentence`). *What is of the
  grammar is accepted*: fix any derivation tree for each line of a sentence. `TInv` says
  that the parser is on its way to exactly these trees: each activation has a goal, the
  part of a chosen tree that it is going to return and where it ends (`Tracks`), and is
  waiting for the goal of its callee (`Expects`). For `parseExpression` the derivation
  is taken apart as the loop will read it, a prefix expression and then one operator
  with its right operand after the other (`Spines`), and nothing behind the goal binds
  tightly enough to be read too (`ExpressionGoal`). Since the parser is deterministic
  and the choice of trees was free, the tree that it builds is the only one: the
  second half proves the grammar unambiguous as well. The derivation sets and the
  trees of the heap are recursive functions; that they satisfy their equations
  (`DerivationsUnfold`, `TreesUnfold`) is proved from the order of spans and pointers.
  `ParserReadsWhatIsPrinted`, the last section, needs no further invariant. By
  induction over the expression, the tokens printed for it are, wherever they stand in
  a stream, an expression of the grammar with a tree of the shape of the expression
  (`ExpressionsReadBack`; that a node of this tree has the shape too is `Mirrors`): the
  printer puts every operation in parentheses, so each operand is an atom and fits any
  level. The lines of a program are printed one behind the other (`ProgramIsLaid`), each
  is a line of the grammar, so the whole is a sentence with one chosen tree for each
  line (`PrintedSentence`), which `TInv` says is the tree that is built; and the lines
  that were read are those that were printed (`LinesAreThose`).
- `TreeProofs`: `Hollow`, `HasIs`, `Tokens`, `Within`, `StaticType` and `MachineType` are defined by
  recursion over the tree, and what they compute is needed for every tree. The
  induction theorems of the library take operators as parameters and cannot be
  used, so the module goes back to the least element of a set: a set that holds
  every expression whose operands it holds is all of `Expressions` (`TreeInduction`),
  and an equation whose right side looks at the operands only has a solution
  (`TreeRecursion`). From these, each of the functions is shown to satisfy its
  equation, and `Hollow` to find the nulls that `Within` contains.
- `SemanticProofs`: `SemanticTypeOK`, `SemanticMissingVariablesAreReported` and
  `SemanticErrorsDoNotCascade`. The first needs that a binary expression stands
  behind each activation waiting for an operand. The second is inductive with
  the types: the builder never drops an entry, and the checker never touches the
  table or an earlier diagnostic, so it is enough to ask `hadError()` between
  the two to make the assertion of `TypeChecker.cpp:6` hold. The third is not
  inductive. Its invariant `CascadeInv` says where diagnostics can be while the
  checker is at a child, and that once the expression at hand has been reported
  its lack of a type is on its way: the value just returned has none, or some
  operator on the stack keeps a left operand that has none (`Pending`). That
  operator cannot yield a type later, whatever its right operand does.
  `SemanticVerdictIsTyping` and `SemanticFailuresAreExplained`
  need to know what the analysis knows half way, which is `VerdictInv`: the table
  holds the declarations before the child being visited, and each of them as the
  rules over the whole tree would have it (`TableInv`); every child left behind passes
  the rules as far as there are no diagnostics, and holds nothing the analysis has
  no answer for (`PassedInv`); inside an expression every node is either visited,
  and then it passes, or yet within what the stack is going to visit (`CoveredInv`);
  and each saved or returned type is the static type of its node, up to types that
  are not known (`TypedInv`). The converse, that what is reported is an error of the
  rules, is `RejectInv`.
- `IRGenProofs`: `IRGenTypeInvariant` and `IRGenOperandsAreDefined` from `TypeInv`: the
  types, every pointer within the module, and every activation's saved operand an
  instruction that is already there and has a value, which is needed because the
  right operand's code comes in between. `IRGenNamesHaveAllocations` and
  `IRGenOneGlobalEach` from `NamesInv`: the tables `m_string_allocations` and
  `globals` are inverse to each other on strings, every definition that is behind
  the visitor has a global of its own that starts with its value, those ahead have
  none, and whatever is on the stack is within the right side at hand, so that the
  type checker's rule about its names applies. That all definitions come before
  the first assignment, which the parser enforces, is what makes a name's
  definition lie behind. `IRGenGenerationFailuresAreExplained` and
  `IRGenTypedStoresFit` from `GenInv`, which is built as `VerdictInv` is: what is behind
  the visitor has a translation as long as nothing undefined has happened, and the
  LLVM type of every saved or returned value is the machine type that the tree
  assigns to its node. The second theorem also needs that a known static type
  determines the machine type (`StaticToMachine`), by induction over the tree.
  `IRGenCodeMeansProgram`, that the code does what the program says, is the induction
  of a compiler's correctness proof, with the tree visitor's stack as its difficulty: in
  the middle of an expression most of its code is missing. `MeanInv` says what is
  already true then. The code of the instructions so far is plain: operands are
  constants or results, only loads and stores touch globals (`PlainCode`). Run from
  the start, it leaves every variable with the value the program gives it after the children
  and targets so far (`MemoryMeans`). The left operand that an activation has saved
  denotes the value of the left expression, also after the code of the right one
  (`OperandsMean`), what was returned holds the value of what was called
  (`ResultMeans`), and callers and callees agree on the values that they pass on
  (`Chain`). It needs that an instruction appended changes no earlier result
  (`RunOfPrefix`), that a global added changes no run (`RunLater`), and that the recursive
  functions of the property, `CodeAfter`, `ProgramAfter` and `Evaluate`, satisfy
  their equations for every sequence and tree (`RunUnfolds`, `AfterUnfolds`,
  `EvaluateUnfolds`). Where a store does not have the size of its variable (`RoomIn`
  is false), and for the characters of a string, which are loaded in place of
  their address, the invariant says nothing of the value, as the property does.
- `CompilerProofs`: `CompilerTypeOK`, `CompilerPrintedOnce`, `CompilerHandOver` and
  `CompilerKeepsPromise`, the safety part of the refinement of `Batch`.
  `CompilerPrintedOnce` needs that from a silent phase to the next the list of
  diagnostics is empty (`WithoutErrors`), and that nothing about the present file has
  been printed as long as the loop is in its body (`NotYetPrinted`). The other two use
  the invariants of the visitors through instances of their proof modules. The
  difficulty is that `undefined` survives the file it belongs to, and the theorems
  about a visitor say nothing of a run that starts with it. So each instance is
  given an `undefined` of its own: for the analysis, whether this file can do
  anything undefined (`Here`), and `FALSE` for the generator. A step of a visitor is
  then a step of the instance as long as the file is typable, or translatable, and
  this is what its invariant gives (`AnalysisStep`, `GenerationStep`). `HandOverInv`
  says so for every phase, and that the loop's body starts on a fresh table.
  For the refinement, `BlameInv` adds that something undefined, or a death, is the
  fault of a file at or before the present one that `Deadly` names, and `ShowingInv`
  what has been shown of the present file in each phase; then every step that
  leaves the body is a `Finish`, every death a `Die`, and no other step is seen.

Only model-checked, because liveness is out of the prover's reach: termination, and
`BatchSpec` as far as it says that every compilation ends. Every invariant and every
action property of the passing runs is a theorem.

## 6. What the code does otherwise

The seven `violation` runs are in `PROJECT.json` under findings. Further
observations without a run:

- a NUL in a file ends it silently (`Lexer.cpp:19`); `-2147483648` is rejected as out
  of a range that includes it (`Lexer.cpp:214`); an unterminated string takes the
  new line with it (`Lexer.cpp:297`; `LinesAreKept` says that nothing else does, and that
  it is reported); a dedent to a level that was never opened is accepted
  (`Lexer.cpp:347`; `DepthIsBounded` says what becomes of the blocks then);
- statements that are not implemented are rejected without a diagnostic
  (`Parser.cpp:261-271, 303`); `- not a` is reported as a missing operand
  (`Parser.cpp:370`);
- `x = -1` passes the parser and ends the compiler with an uncaught
  `std::bad_any_cast` (`TypeChecker.cpp:26`); `object: int = 1` and `x = int` reach
  `std::unreachable()` (`TypeEnvironment.cpp:16`); the last rule of
  `isAssignmentCompatible` can never apply (`Type.cpp:34`);
- arithmetic and comparisons have no type, so nothing is asked of them:
  `x: int = 0`, `x = 1 + "a"` is accepted, and the generator asks LLVM for operations
  on values of different types (`LLVM.cpp:123-149`); `b: bool = True`, `b = 1 + 1`
  stores 32 bits into a global of one (`LLVM.cpp:110`), as does `x: object = True`,
  `x = 1`; the module is never verified;
- a variable that starts with `None` ends the compiler (`LLVM.cpp:89`), and with it
  the files that are left; so do `is` in an expression (`LLVM.cpp:150`,
  `PrettyPrinter.cpp:120`) and, with `--pretty-print-ast`, `x = ()`;
- the printer prints nothing for `None`, so that `x: object = None` comes out as
  `x: object = `;
- `and` and `or` evaluate both operands (`LLVM.cpp:146-149`), and comparisons are
  signed also of booleans.

## 7. What is not modelled

- `Block` and the call expression, which the parser never builds, and the visit of
  a unary expression in the IR generator, which no program reaches: the type
  checker throws on every one.
- LLVM, but for what `IRGen` uses of it: constant folding, its renaming of a global
  called `main`, the run-time values of operations (overflow, division by zero) and
  the printed module.
- Formatting and wording of diagnostics, the values of tokens, list brackets and
  string escapes in the printer's output, the parsing of command line options (`-o`
  is read and never used), the buffering of `outs()`.
- Stack overflow: nested parentheses recurse without a bound (`Parser.cpp:353`).
- Tests and build files, which are no behaviour of the program.
