# Verification of rfc, the compiler of RFLang

TLA+ models of `rfc` (C, `src/src`), with the TLC configurations that check them
and proofs that TLAPS checks.  The program is a tokenizer driven by regular
expressions, a shift-reduce parser *without a table* that builds a tree in an
arena, two walks over that tree, and a command line that chooses among them.
Code generation is mostly unfinished in the code.

## 1. Inventory

| component | state it keeps | operations | interacts with |
|---|---|---|---|
| Tokenizer (`tokenizer.c`) | text, cursor, location | `tctx_get_next`, `tctx_advance` | called three times per turn by the loop of `parse`/`compile`, twice by that of `tokenize` |
| Reductions (`lalr.c`, `lalr_reduce`) | none of its own; reads the top five nodes and the lookahead | one `if` per production, tried from top to bottom | answers how many nodes the caller must pop; allocates nodes; reads numbers |
| Parse stack and loop (`lalr.c`, `main.c`) | `stack[255]`, `stack_top`, `lookahead` | `lalr_push`, `lalr_pop_n`, `lalr_peek_n`; `parse`, `compile` | pulls tokens, calls `lalr_reduce` until it answers 0 |
| Number parser (`number_parser.c`) | locals only | `number_parse_isvalidbase`, `_integer_base`, `_hex` | called by the reductions for literals |
| Arena (`lib/arena.h`) | list of regions, `end` | `arena_alloc`, `arena_reset`, `arena_free` | all nodes but the ones on the stack live in it |
| Syntax tree (`ast.h`) | nodes, three kinds of linked lists, unions | written by the reductions; the lists are appended to in place | built by the parser, walked by the printers |
| Tree printer, reconstruction (`ast_print.c`, `ast_reconstruct.c`) | - | recursive walks | the tree; standard output |
| Driver (`main.c`) | - | `main`, `tokenize`, `compile`, `reconstruct`, `codegen` | everything above; the exit status |
| Code generators (`codegen_*.c`) | an output file | x86_32: partial walk; the others: an assertion | the stack |
| Error checker, command line, `sv.h`, `cvector.h`, tests | | a stub; generated code; vendored | |

Nothing is concurrent, nothing is persistent and nothing is sent: one thread
runs from a file to a printout.  What is hard here is of another kind:

* **Order.** `lalr_reduce` is a list of conditions, and which one comes first,
  and which lookaheads it excludes, decides what every longer input means.
* **Protocol between functions.** `lalr_reduce` builds the node and the *caller*
  pops; `tctx_get_next` looks and also *moves*; `tctx_advance` fetches a second
  time.  Each relies on the others having seen the same thing.
* **Memory that is not cleared.** `arena_alloc` returns what was there, and some
  fields of some nodes are never written.
* **Mutation in place.** An append walks a list it found on the stack and writes
  into its last cell.
* **No error path.** What no rule wants stays on the stack and the parser goes on;
  a file that does not open is a context of zeros; what a walk does not support
  is an assertion.
* **Limits.** 255 nodes, a text that ends, an `int`, a region's capacity.

What makes each component correct:

* *Parser*: no token is lost or parsed twice; a node only covers tokens its
  documented productions derive; documented sentences are understood; the inner
  loop ends; the stack's depth is bounded by nesting, not by length; a node's
  location is that of one of its own tokens.
* *Tree*: each node holds what its own tokens say, in their order; no cell is in
  two lists; what is followed has been written.
* *Tokenizer*: each character is in one token; the lookahead is the next token;
  the longest token wins; the end is found where it is; no newline is
  counted twice, and none is missed besides those the code is known to miss.
* *Both together*: the parser sees the tokens of the text, each once.
* *Driver*: status 0 means that the action did what it says.
* *Number parser*: the value, sign and length of what the digits spell, as far as
  a double and an int hold it.
* *Arena*: allocations never overlap and never leave their region.

The list of hazards, each at its line, is in `PROJECT.json`.

## 2. Modules

```
LalrRules       the reductions, one record per `if`
  |     \
  |      RfProductions   the documented productions
  |       |        \
  |       |         RfGrammar   their token strings, enumerated for TLC
  |       |
  |      LalrLanguage    what a node may cover (with LalrParser)  <- LalrLanguageProofs
  |     /
LalrParser      stack and loop over those rules         <- LalrParserProofs
  |
AstBuilder      what the reductions put into the nodes  <- AstBuilderProofs
  |
AstWalk         the printer and the reconstruction
  |  \
  |   AstTree     what the nodes should be made of, to compare with
  |
Driver          main.c: actions, failures, exit status  <- DriverProofs

Tokenizer       characters to tokens, both loops
  |
FrontEnd        Tokenizer and LalrRules in one loop     <- FrontEndProofs
                which implements LalrParser                (and of Tokenizer)

NumberParser    digits to numbers                       <- NumberParserProofs
Arena           regions and allocations                 <- ArenaProofs

MCLalrAny, MCLalrSentences, MCLalrGaps, MCDriver, MCTokenizer, MCFrontEnd,
MCNumberParser, MCArena        instances for TLC

NaturalNumbers  induction and recursion without operators, for the proofs
```

A line downwards is EXTENDS; an arrow is the module with the theorems.  There
are two refinements, both of them theorems.  `AstBuilder` implements `LalrParser`
with the identity on the variables they share.  `FrontEnd` implements
`LalrParser` with a mapping (`Parser`, also a property of the run `frontend`):
the input is what the text says, the position is the number of tokens pushed.

### LalrRules and LalrParser (`lalr.c`, loops of `main.c`)

Every `if` of `lalr_reduce` is a record: its line `at`, what `peeked[]` must
hold (`rhs`, `under`), the lookaheads it accepts (`la`), the kind of node
(`lhs`), the value returned (`pops`) and the slot the location is copied from
(`loc`).  The returned value and the handle are written down *separately*,
because in the code they are two numbers in two places; that they agree is a
property (`TilesInput`), not an assumption.  `Takeable` is the code's order:
among the rules that match, the one with the smallest line.  One branch,
`lalr.c:264`, reads `token.type` of whatever node lies under a bracket; where
that node is not a token the value is another member of the union and the rule
is `sure = FALSE`: it may or may not be taken.

`LalrParser` is the loop: `Shift` (token, lookahead, push), `Reduce` (one
successful call, pops and push), `NothingToReduce` (the call that answers 0),
`Finish`, and `Overflow`, the push beyond `stack[255]`, after which nothing is
modelled.  A node is its kind, the range of tokens it was built from and the
token its location comes from.  The location is the one inside the payload
(`number.loc`, `term->loc`, ...); `AST_Node.loc`, which `main.c:78` writes and
no rule reads, is left out.  The lookahead is the next token and tokens arrive
once each: that is what `FrontEnd` shows for texts without comments between
tokens.  The branch for `skip_next` is dead code: nothing sets it.

`RfProductions` is the other side: the productions in the comments of `lalr.c`
and in `grammar.g` (`Documented`).  `LalrLanguage` says what they have to do with
the parser: a *language* gives every kind of node a set of token strings, it is
`Closed` when what a production puts together out of its strings is one of them
again, and `NodesIn` says that the nodes on the stack cover strings of it.  What
the productions derive is the least closed language; the constant `Language` is
any closed one.  `RfGrammar` enumerates the derived strings up to a length, which
is what `lalr_any` gives for `Language` (TLC checks that it is closed).
`Supported` is the part of the grammar that the parser accepts, and `MCLalrGaps` has a family of documented
sentences for each restriction, which the parser refuses; one of them is the run
`gap_comparison`, and the others refute `AcceptsSentences` when `Inputs` is set
to them.

### AstBuilder (`lalr.c`, `ast.h`)

The same reductions, with what they write.  A node is written once, when its
reduction makes it, and copied or pointed to afterwards, which is no difference
as long as nothing writes to it again: `tree` has all the nodes in the order they
were made, each with the tokens it was made from, and one refers to another by
its index.  Only the cells of the three lists are written again after they were
made, so they live in a heap, `cells`, in the order of their allocation; a
pointer is an index, and 0 is NULL.  `values[i]` says where `stack[i]` is: a token
is its position in the input (a `String_View` is that and nothing more here), a
node its index, a list the pointer to its first cell.  The one text that matters
is that of a decimal literal: `literals` gives each of them a `value`, which is the
long that the number parser answers, and whether it is `plain`, that is, spelled
as `%d` would write that number (`007` is not, nor is a text that the number parser
reads wrong).  A NUMBER node holds `ToInt` of the value, which is what an `int`
keeps of a `long`, and 0 for a hexadecimal literal.  Where the code writes no
field the field holds `Unwritten`; following one makes the run `defined = FALSE`
and ends it.  Line 641 makes two nodes at once: the typed id of a parameter list
that is only a type, whose name it does not write (`Unnamed`), and the header.

One turn of `while (curr->next) curr = curr->next` is a step (`Walk`), so that a
list that never ends is a behaviour that never ends, not an operator without a
value.  `Build` is the reduction itself, at the end of the walk or without one;
it is `Apply` of `LalrParser` with the node (`Payload`, `TreeWith`) and the cells
(`CellsWith`).  The first cells allocated at `lalr.c:215` and `lalr.c:529` keep
their `next` unwritten (`NextOf`); on memory fresh from the system it is NULL.  An
append to such a list may follow it (`WalkAstray`, an undefined run) or see NULL
(`Build`).

### AstWalk (`ast_reconstruct.c`, `ast_print.c`)

The two recursive walks yield a sequence of pieces: the tokens written, or the
names and numbers shown.  What stops a walk is a piece as well: `ABORT` (an
assertion), `CRASH` (NULL is followed), `UNWRITTEN` (a field nobody wrote is
used).  A node only refers to nodes made before it, so what a walk yields for
node `n` is an operator of `n` and of what it yields for earlier nodes
(`ReconstructNode`, `ShowNode`), and a recursive function over the indices ties
them together (`Reconstructions`, `Showings`); `WalkList` is the loop over a list,
a recursive function over its cells.  A number is written from the `int` of its node (`Decimal`): as
the token it was read from if it is plain and was kept, as a sign and a number if
it is negative now, and otherwise as some other number.  Blanks, indentation,
labels and locations are left out.

### AstTree

The other side of `AstBuilder`, as `LalrLanguage` is that of `LalrParser`: what the
fields of each kind of node are in terms of its tokens (`Formed`), written from
`ast.h` and the productions and not from the reductions.  An assignment over
`a..b` is a name at `a` or a typed id over `a..c`, an `=` at `c + 1` and the
expression made from `c + 2..b`; a list over `a..b` begins with an element that
begins at `a`, ends with one that ends at `b`, and in between each begins where
the one before ends, with a comma or without (`ListAt`, `CellFormed`); and no list
to which something may still be appended leads into it (`Frozen`).  `Edges` says
with what a node can begin and end, and what can follow it.

### Driver (`main.c`)

`main` chooses by the first flag of a fixed order (`Action`).  `Open`,
`CompileFails` and `ParseFails` are what becomes of the file: the last one goes
on with a context of zeros, whose `stack_top` is 0, so the walk meets one node
that was never pushed.  `Parse` is a step of `AstBuilder`; `WalkNode` walks one
node of the stack and stops where a walk stops.  A piece `UNWRITTEN` either
shows nothing (zeros) or ends the run as `undefined`.  `Codegen` opens its output
and generates from an empty context: `codegen` never parses its file.  A process
that reconstructed its file may be followed by a second one, on what the first
one wrote (`RunAgain`, which is the user and not the code).  It reads the tokens
that were written if `ReadAsWritten`: every node was written in whole lines, since
the tokenizer loses the last character of a text without a final newline
(`gap_last_char`) and two leftovers side by side may become one token; and no sign
was written.  Other output is not given to a second process.  What it reads for a
number that was not copied is any plain literal that fits an int.

### FrontEnd (`parse` of `main.c`)

`Tokenizer` with the parse stack behind it: `Read` is a call of
`tctx_get_next` or `tctx_advance`, `Shift` pushes the token that was fetched
first in the turn, `Reduce` and `NothingToReduce` use the kind of the token
fetched last.  `parsing` says which of the two loops of `parse` runs; the
tokenizer keeps its own `phase`, so that every step here is a step of
`Tokenizer` or leaves it alone.  `source` is a history variable: the text read once, blanks
skipped and the longest token taken, without a cursor and without side
effects.  The mapping takes `source` for the input; between two turns the
lookahead is that of the last push, and the terminating zero, which is a token
`UNKNOWN` of the real one, is the end of the input.

### Tokenizer

Texts are sequences of characters, the cursor a position.  `GetNext` is
`tctx_get_next`: end test, one comment, blanks, then the expressions in the
order of the file (`Patterns`).  `Fetch`, `Advance`, `Look` and `Deliver` are
the calls of one turn of the loop, each with the side effect the code has.
Both clients are modelled: `parse`/`compile` (with lookahead) and `tokenize`
(without).  Blanks other than newlines are one character, letters are lower
case; a comment that runs past the end of the text is the phase `overrun`.

### NumberParser

The code's loop, digit by digit, on ASCII codes, with the two entries
(`number_parse_hex` and the calls of `lalr_reduce`) and the store of the `long`
into the `int` of the node.  `v += digit * pow(base, n)` is done as the code does
it: `pow` is a double, so is the product, `v` becomes one, and the sum is converted
back to a long (`Weighed`, `Plus`).  A double is the nearest number of those that
`DoubleLimit` allows, the even one of two (`Double`, `Spacing`).  A sum that a long
does not hold is undefined; `ToLong` lets it be the least or the greatest long,
which is what processors answer.  `v * sign` and the store keep the low bits
(`Wrapped`).  `IntLimit`, `DoubleLimit` and `LongLimit` are 2^31, 2^53 and 2^63 in
the program.  `isspace`, `tolower`, `isalpha`, `pow` and the doubles are external;
`pow` is taken to be rounded once, and that it overflows beyond 308 decimal digits
is left out.

### Arena

The list of regions, the position of `end`, and a history variable `live` of
what the caller may still use.  Addresses are (region, word) pairs.  A
`malloc` that fails ends the process by the assertion (`OutOfMemory`).

## 3. Runs

| run | question | bounds, and why they are enough |
|---|---|---|
| `lalr_any` | on *every* token string, right or wrong: `TilesInput`, `LocInSpan`, `NodesDerive`, `WorkShrinks` | all strings of up to 5 or 6 tokens over seven alphabets, one per family of productions: the longest handle has 5 nodes, and 6 tokens hold two operators of different levels with their operands |
| `lalr_sentences` | supported sentences are understood; depth of the stack; which files overrun it; termination | all expressions of up to 8 tokens over 11 kinds, programs of 7, functions of up to 14, typed assignments of up to 11: every production, next to every other it can meet.  17 families of lists, chains and nestings, repeated 1 to 20 times: a depth that grew with the length would pass the bound after a dozen repetitions, and the deepest nestings overrun the 100 nodes of this run's stack, which `OverrunNeedsTokens` allows only to files of more than 100 tokens |
| `driver` | whole processes: are lists built without sharing, has each node the parts of its tokens, is it written and shown as what it was built from, do the walks fail exactly where they should, is status 0 true, does the output come back, does every append get to the end of its list (`WalkAdvances`) | every choice of action, file, target and output that can go on differently; expressions of up to 6 tokens with every operator and 8 with calls and subscripts (a list of three in a list), programs of 6, functions of up to 14 tokens (three typed ids), array types of up to 15, and all strings of 4 or 5 tokens over two alphabets that need not be programs.  Programs and expressions of up to 4 tokens have numbers (also with a string or a hexadecimal literal in their place): ints are -2..1, and each number is one that is kept, one that becomes negative, or one that is spelled with a leading zero |
| `frontend` | the three calls of a turn agree, longest match, end, comments, which newlines the line numbers miss, and the loop implements `LalrParser` | all texts of 4 to 6 characters, newline included, over six alphabets (the longest sequences in which one token can hide another have 3 characters), sums and headers of up to 7 words, and a stack of 5 nodes, so that some overflow |
| `tok_any` | both loops end on any text with less to do after every step (`TurnsRunOut`), cursor in bounds, nothing delivered twice | texts of up to 5 characters without restrictions: comments in a row, unclosed quotes, no newline |
| `number` | value, sign, length, store | texts of up to 4 characters in bases 2 to 10, 13, 16 and 20.  The limits are 2^11 for an int, which 4 decimal digits exceed, 2^15 for doubles and 2^17 for longs, which 4 letters exceed, the first in base 16 and both in base 20: sums that are rounded and sums that leave the long are among the states |
| `arena` | no overlap, no leak | three regions of four words (or more, for a request of five), requests of 0, 9 and 40 bytes: regions filled exactly, passed with room left, and reused after a reset |
| `gap_comparison`, `gap_unnamed`, `gap_comment`, `gap_last_char`, `gap_hex` | one documented statement each that the code does not keep | the smallest inputs that show it |

`StackSize`, `IntLimit`, `DoubleLimit`, `LongLimit`, `DefaultCapacity` and
`MaxRegions` are the named bounds.  The program's own values are 255 (also used by
`lalr_any` and `driver`), 2^31, 2^53, 2^63, 8192 and what memory allows.

What the properties of `driver` say together: every list on the stack is a chain
of its own (`ListsOwned`), so an append changes one list; every node refers to the
parts that its tokens have (`TreeWellFormed`); every node is written
down as its own tokens in their order, parentheses aside, where its numbers are
such that an int keeps them and `%d` writes them so (`NodesRebuilt`, `Spelled`), and
the tree shows every name and number once, a number as it is written exactly if
it is of that kind (`NamesShown`); `assert(0)` is met
exactly for strings and nested array types (`ReconstructionGivesUp`), and NULL
followed exactly for a call without arguments (`TreeCrashes`); parentheses are
written where they keep the tree as it is (`ReconstructionIsStable`), with the
exceptions below.

### What the code does not keep of its documents

The ones with a run have a quotation in `PROJECT.json`; the others were met on
the way and are the same question on other inputs, except where said otherwise.

* parser: `a < b + c` is cut after `b` (`gap_comparison`); `if a { }`, `(a)` at
  the start of a file, `[[a; 1]; 1]`, `a -> b` as a header and `x : _ = a` are
  documented and not accepted.  `module (` is a header, because `lalr.c:66`
  tests `peeked[1]` twice and `peeked[0]` never: it is the one thing the parser
  builds that no production allows, and `LalrLanguage` adds it (`AnyHeader`).
* lines: a newline is counted where blanks are skipped and nowhere else, so the one
  that ends a comment and those inside a string are missing from every line number
  behind them; after an unrecognised character the numbers start again at 0.
  `LinesMissed` says that nothing else is missing.
* tokenizer: a comment behind blanks is delivered as `/` and the token behind
  it is lost (`gap_comment`); the last character of a text without a final
  newline is lost (`gap_last_char`); trailing blanks become a token; `ifx` is
  `if` and a name.
* numbers: beyond base 10 decimal digits are refused (`gap_hex`), upper case
  digits have the wrong value, a hexadecimal literal is always 0; a literal of
  2^31 or more becomes another number, often a negative one (without `Spelled`, the
  inputs of `driver` refute `NodesRebuilt` and `SuccessIsComplete`); one above 2^53
  may not even be read right (`9007199254740993`).
* reconstruction: the name of the parameter `_` was never written
  (`gap_unnamed`); the stars of a pointer to an array are dropped
  (`StarredArrays` refutes `NodesRebuilt` in place of `UnnamedParameters`), and
  so is the inside of a nested array type; a hexadecimal literal comes back as
  0, `007` as 7 and `3000000000` as `-1294967296`, which the parser does not accept;
  output that ends in a leftover (a typed id, a list of expressions) has no newline
  at its end and loses its last character when it is read again; a sum that stands alone as a statement comes back in parentheses, which the
  parser does not accept at the start of a statement, and `if (a) {` comes back
  as `if a {`, which it does not accept either.
* printer: `f()` crashes `--parse`; the inside of a nested array type is read
  though it was never written, and so is the left operand of every disjunction
  and sum of one operand.
* driver: `--parse` ends with 1 when all went well; `--reconstruct` of a file
  that does not open aborts; `--codegen` never reads its file, and crashes when
  its output cannot be created.

The passing runs therefore consider inputs on which these do not bite, and say
so: `Supported` for sentences; texts with a final newline and a comment at most
at the start for `frontend`; digits of one kind for numbers; for `driver` no
parameter `_`, no starred array type, no operators in a
statement that is an expression, and no condition that is a name in
parentheses.  Numbers that are lost are among its inputs: what is said of them is
in the properties (`Spelled`, `Changed`).  `lalr_any`, `tok_any` and `arena` are not restricted.  The
behaviours of the printer and of the driver that are listed here are not left
out of the runs: `TreeCrashes`, `WalkEnds` and `Codegen` have them.

### Fairness

The program is one thread of straight-line code and loops, and never waits.
`FairSpec` adds weak fairness of `Next` and nothing else: as long as a step is
possible, one is taken.  It is used for `Termination` only.  The terminal
states loop (`Terminated`, `Stop`, `Stopped`), so deadlock is checked everywhere.

## 4. Proofs

`LalrParserProofs`, for every set of token strings and every stack size:

* `NoTokenLost`, `LocationsHold`: `Spec => []TilesInput`, `[]LocInSpan`.  The
  inductive invariant is the conjunction of the two and of the type invariant
  (`TypeCorrect`).  None is inductive alone: the span of a new node is that of
  its handle only because the nodes below are in order, and its location lies
  in that span only because that of the copied part does.
* `ParseRunsOut`: `Spec => WorkShrinks`.  The measure `Remaining` counts two for
  every token still to be pushed and one for every node on the stack, then the
  ranks its top can still rise, then where the loop stands; every step lowers it
  and it is a natural number, so parse ends if it keeps going, after at most
  26 n + 12 steps.  This is the half of `Termination` that is about the table;
  the other half is the fairness of `Next`.
* `ShortFilesFit`: `Spec => []OverrunNeedsTokens`: a file overruns the stack only
  if it has more tokens than the stack has places, since every node covers a
  token (`FInv`).

What the parser needs of the branches is one lemma, `RulesSound`,
proved from the table group by group: the value returned is the length of the
handle, the location comes from the handle, and a rule of one symbol raises
the rank.  The rest of the proof does not look at the table again.

`LalrLanguageProofs`, with the same generality:

* `NodesInEveryClosedLanguage`: in every reachable state and for every closed
  language, the nodes on the stack cover strings of it; `NodesAreDerived` is the
  case of the constant, `Spec => []NodesDerive`.  Nothing about the order of the
  conditions or their lookaheads is used: they decide *which* derivation is
  found, and no choice among them can build a node over tokens that its kind
  does not derive.  `RulesDocumented` goes through the table once more, with the
  productions beside it.  The other half is `HandlePieces`: what the nodes of a
  handle cover lies end to end, which is `TilesInput` again.  The invariant
  `LInv` is `IInv`, the input still being one of `Inputs`, and the property.

`AstBuilderProofs`, with the same generality:

* `BuilderImplementsParser`: `BuildSpec => Spec`.  A step of a walk leaves the
  variables of `LalrParser` alone, and `Build` is a `Reduce`.
* `BuildTypeCorrect`, `ListsAreOwned`: `BuildSpec => []BuildTypeOK`,
  `[]ListsOwned`.  The invariant `BInv` is the two with the parser's own: that
  an append walks inside the cells needs that the handle of an appending branch
  starts with a list (`ListRules`, again from the table), that it is on the
  stack, and that lists on the stack start at cells nothing leads to; that the
  list keeps its cells to itself needs that the new cell is one nothing leads
  to yet.
* `WalksAdvance`: `BuildSpec => WalkAdvances`.  A reduction that appends takes
  several steps; each of them goes on to a younger cell, since links of a list
  only lead there, and the last lowers `Remaining`.
* `BuilderLosesNoToken`: what was proved of `LalrParser` holds of the parser
  that builds the tree, through the refinement.
* `TreesAreFormed`: `BuildSpec => []TreeWellFormed`.  The invariant `TreeInv` is
  the two parts of the property (`TreeFormed`, `CellsFormed`), `BInv`, what the
  values on the stack say of their nodes (`StackPlaced`), that no two lists of the
  stack end in the same cell (`ListsApart`), that `curr` is in the list of the
  append under way, and that the lookahead is the next token.  Two arguments carry
  it.  The first is about mutation in place: a store only `Grows`, and the one old
  cell that changes is the last of a list on the stack, while a list that is
  part of a node has left the stack (`Frozen`), so what was formed stays formed
  (`NodesGrow`).  The second goes through the table: what the handle of a rule
  holds (`RuleGives`) is what the node it makes must have (`NewFormed`, a lemma
  for every kind of node).

`DriverProofs`, for every set of inputs and command lines and every stack size:

* `NodesAreRebuilt`, `GivesUpWhereItMust`: `DriverSpec => [](Rebuildable =>
  NodesRebuilt)` and `[]ReconstructionGivesUp`.  `Rebuilds(s, a, b)` is what a
  sequence of pieces has to be for the tokens `a..b`: fatal exactly where there
  is a string or a nested array type, and otherwise the tokens themselves,
  parentheses aside.  It holds of single tokens and is kept when two parts are
  put one behind the other (`RebuildsConcat`), if no nested array type comes
  about where they meet (`NestedAt`), which is what `Edges` excludes.  So every
  kind of node is rebuilt when the nodes before it are (`NodeRebuilt`), a list
  when its elements are (`ListRebuilt`, from its last cell to its first), and all
  of them by induction over the index (`AllRebuilt`), where the recursive
  functions are shown to be defined first.
* `Rebuildable` is a condition on the tree: no typed id without a name, no stars
  behind anything but a name.  Each of the two is something the code loses
  (section 3), and each refutes `NodesRebuilt` on its own.  The programs of
  `driver` all give such trees: none of their alphabets has `_`, and the one with
  array types has no stars.  What TLC checks there is this theorem on small
  inputs.  Of the other theorems about the walks only `CompleteOnSuccess` needs the
  condition.  What the code loses of numbers is excluded by the properties
  themselves (`Spelled`: decimal, plain and below `IntLimit`); that such a number
  comes back is `NumberRebuilt`, from `ToIntKeeps`, and the theorems hold for every
  set of literals and every `IntLimit`.
* `NamesAreShown`, `CrashesWhereItMust`: `DriverSpec => []NamesShown` and
  `[]TreeCrashes`.  The same induction with `Displays`: NULL is followed exactly
  where there is a call without arguments, and otherwise every name and number
  is there.  The seams are others (`CallAt`): a part must not end in a name before
  a parenthesis.  Nested array types are excluded by the properties themselves,
  since the code drops what is inside.
* `CompleteOnSuccess`: `DriverSpec => [](Rebuildable => SuccessIsComplete)`.  The
  invariant `DInv` ties the stages of the process together: the tree is formed
  whenever it is walked, in the first process and in the second; while the stack
  is walked, what was written is the source up to the last token of the nodes
  passed; and status 0 is only reached at the end of such a walk, of a
  tokenizer that found its file, or of a generator that had nothing to do.

`FrontEndProofs`, first part, for every set of texts:

* `TokenizerTypeCorrect`, `TokensStayApart`: `Spec => []TypeOK`,
  `[]TokensApart`, for any text.  `TInv` adds the order of the cursor, the
  fetched token and the delivered ones: `tctx_advance` may step over another
  token than the one that is pushed, but that one lies behind it (a comment
  after a comment) or the end of the text has been reached, where nothing more
  is delivered.
* `TokenizerRunsOut`: `Spec => TurnsRunOut`, for any text.  Before the end of the
  text every call of `tctx_advance` moves the cursor, since no token is empty; at
  the end none does, and the turn that is under way is the last one.
* `NoCharacterLost`, `LookaheadIsPushedNext`, `EofOnlyAtEnd`,
  `NoTokenOfComment`: `Spec /\ WellFormedText => []...` for texts whose last
  character is a newline and which have a comment at their start or not at all.
  The hypothesis is what the findings show to be needed, and every text of
  `frontend` but the unfinished comment `//x` satisfies it.  `WInv` adds where
  the cursor can stand (never on a blank or a comment once something has been
  fetched), that what lies behind it is covered, and that the lookahead is what
  the next fetch will find.
* `NoOtherLineMissed`: `Spec /\ WellFormedText => []LinesMissed`.  A token's line
  is the number of newlines before it; `Missed` has those that the code does not
  count, each with its reason: the comment at the start, a token they are inside
  of, an unrecognised character at or behind them.  `LineInv` says of the cursor
  what the property says of a token, the other way round: the line of the location
  is the number of newlines passed and not missed.  `Passed` has them as a set, so
  a call of `get_next` adds the newlines of its blanks, moving over a token adds
  none, and an unrecognised character empties it.
* `LongestUnlessKeyword`: in every state of every text, the token delivered is
  the longest match where it starts, unless a keyword begins a longer name there
  (`ifx`, which the code does cut).  Two expressions that match at the same place
  start with the same character, which leaves a keyword with a name and two
  numbers; `TokensAreLongest` is the property itself, under the hypothesis that
  the first case does not come up.

`FrontEndProofs`, second part, for every set of texts and every stack size:

* `FrontEndRunsTokenizer`: `FrontSpec => Spec` of `Tokenizer`, so what
  the first part shows holds with the parser behind it.
* `FrontEndImplementsParser`: `FrontSpec => ImplementsParser`, that is,
  `Parser!Spec`, under four hypotheses.  The text is well formed as above.  It is
  empty or has more than blanks behind its comment (`HasText`): a file of blanks
  gives one token, its terminating zero.  No token or lookahead starts with a
  keyword that only begins a longer name (`KeywordsApart`): there the code's
  reading is not the one with the longest tokens, which `source` is.  Every text
  of `frontend` meets the first two but the unfinished comment, and none of its
  texts has a name that begins with a keyword, so what TLC checks there is this
  theorem on small texts.
  The invariant `SourceInv` says that what is left of `source` is what the text
  says behind the last token delivered; `LoopInv`, where the two loops stand and
  that their tokens are what `TokenAt` finds.  A push takes the first word of what
  is left (`TokenSays`); its lookahead is the word after that, or the zero at
  the end for "EOF" (`LookaheadSays`), and no rule tells these two apart
  (`EndsAlike`, from the table).  `Readings` is a recursive function; that it is
  defined (`ReadingsDefined`) is an induction from the end of the text, done with
  the least number principle.

`NumberParserProofs`, for every set of calls and all limits of int, double and long:

* `NumberTypeCorrect`: `Spec => []TypeOK`, with `Places`, which says where the
  cursor stands before the digits are scanned.  What is stored is an int and the
  sum a long, whatever becomes of one too large (`Converted`).
* `NumberIsRead`, `NumberConverges`: `Spec => []ReadsNumber`, `[]SumConverges`
  under `OneKindOfDigits(Calls)`, which is nothing in bases up to 10 and, above,
  that there are no decimal digits and no upper case letters besides the `0` of
  `0x` (`gap_hex` is why; `MCNumberParser` checks that the calls of `number`
  satisfy it).  `NumberInv` says that the digits counted are digits, that
  the one behind them is none, and that the sum is the value of the digits added
  times the weight of the last.  The sum is exact only for numbers that a double
  holds, which both properties assume (`HeldExactly`: the weight of the first digit
  and the number are at most `DoubleLimit`): then no power, product or partial sum
  is larger than the number, and `Double` and `ToLong` change nothing.  The model adds from the left with powers, the
  property multiplies and adds; that the two agree is `SumKeepsInv`, one step of
  distributivity, and that the rest is less than the weight is `WhatIsLeft`, an
  induction over the digits left.

Positions are found with CHOOSE, as the first place where a run of characters
ends.  That there is one is the least number principle, `LeastOf`, which
`NaturalNumbers` derives from the library's theorem that strict inclusion of
finite sets is well founded, since the library's induction over the naturals
takes an operator.  `Induction` (a set with 0 and all successors has all numbers)
and `Defined` (a first value and a step, given as a function, determine a
function) follow from it; with them `Power` and `Positional`, which are recursive
functions, are what their definitions say.

`ArenaProofs`, for every set of sizes, default capacity and amount of memory:
`RegionsHold`, `AllocationsApart`, `UsedWordsOwned`.  The conjunction of
`TypeOK`, `NoOverlap` and `EveryWordOwned` is inductive; that a new allocation
is apart from the old ones needs that every old one ends before the count of
its region, which is where the new one starts.

Assumed: inputs are sequences of tokens, texts sequences of characters of which
none is the terminating zero, the stack size is positive, sizes are natural
numbers, the default capacity is positive, and what a field nobody wrote holds
is no pointer; a literal that is plain is no negative number
(`LiteralsAssumption`); an int is no larger than what a double holds exactly, and
that is less than a long (`LimitsAssumption`); and `Language` is closed under the
productions.

Only model-checked:

* `AcceptsSentences`, `StackBound`: they hold of sentences only, and what a
  sentence is, with the one order of reductions that accepts it, is defined by
  recursion over its length.
* `ReconstructionIsStable`: it says that the parser accepts what the
  reconstruction writes, with its parentheses, which is `AcceptsSentences` again.
* liveness (`Termination`), which needs `ENABLED`.  What is proved of it is that
  the loops of the parser and of the tokenizer cannot go on for ever
  (`ParseRunsOut`, `WalksAdvance`, `TokenizerRunsOut`); those of
  `number_parser.c` count up to a length.

## 5. Not modelled

* The x86_32 generator behind its entry: `codegen` hands it an empty stack, so
  nothing of it can run, and there is no behaviour to compare a model with.
* The functions of the other targets, the error checker and the readers of
  floats and strings in `number_parser.c`: empty, or an answer of failure.
* `tctx_save`, `tctx_restore`, `tctx_from_cstr`, `lalr_peek`, `lalr_peek_pn`: no
  callers.
* The compilation of regular expressions, the parser of the command line
  (generated), `sv.h` and `cvector.h` (vendored), the unit tests.
* The layout of what is printed, and `AST_Node.loc`.
* What happens after undefined behaviour: a push beyond the stack, a comment
  that runs off the text, a link that was never written.  Each is a state the
  models stop in.

## 6. What could follow

1. The x86_32 walk, once `codegen` parses its file.
2. The lists under an allocator that hands memory out again: `Arena` never does
   while a parser runs, which is why `Unwritten` covers it.
