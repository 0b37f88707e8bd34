------------------------------- MODULE Driver -------------------------------
(***************************************************************************)
(* main.c: the command line, what each action of it does with the file,    *)
(* and the status the process ends with.  The parse loop is AstBuilder's,  *)
(* run here as one stage of a process.                                     *)
(*                                                                         *)
(* A process that reconstructed its file may be followed by another one    *)
(* that reads what the first one wrote (round 2).                          *)
(***************************************************************************)
EXTENDS AstWalk

CONSTANT CommandLines

\* flags: the actions asked for; opens: the file can be read; target: what -t
\* says, "none" without it; writes: the output file can be created.
ASSUME CommandLinesAssumption ==
  CommandLines \subseteq [flags : SUBSET {"tokenize", "parse", "reconstruct", "codegen"}, opens : BOOLEAN,
                          target : {"none", "x86_32", "x86_64", "arm64"}, writes : BOOLEAN]

VARIABLES
  args,          \* args_info of main
  stage,         \* what the process is doing
  at,            \* the loop variable of the walk over the stack
  out,           \* what it has written, as pieces
  status,        \* how it ended
  round

driverVars == <<buildVars, args, stage, at, out, status, round>>

\* The chain of if and else in main: the first flag of this order counts.
Action ==
  IF "tokenize" \in args.flags THEN "tokenize"
  ELSE IF "parse" \in args.flags THEN "parse"
  ELSE IF "reconstruct" \in args.flags THEN "reconstruct"
  ELSE IF "codegen" \in args.flags THEN "codegen"
  ELSE "none"

Parses == Action \in {"parse", "reconstruct"} /\ args.opens

Exit(s) == stage' = "exit" /\ status' = s
Idle == UNCHANGED <<buildVars, args, at, out, round>>

-----------------------------------------------------------------------------
DriverInit ==
  /\ BuildInit
  /\ args \in CommandLines
  /\ Parses \/ input = <<>>        \* nothing else looks at the tokens
  /\ stage = "main"
  /\ at = 1
  /\ out = <<>>
  /\ status = "none"
  /\ round = 1

\* return 2 at the end of main, and -1 when codegen lacks its target.
Refuse ==
  /\ stage = "main"
  /\ \/ Action = "none" /\ Exit("2")
     \/ Action = "codegen" /\ args.target = "none" /\ Exit("-1")
  /\ Idle

\* tokenize: its loop is Tokenizer's.
Tokenize ==
  /\ stage = "main" /\ Action = "tokenize"
  /\ Exit(IF args.opens THEN "0" ELSE "2")
  /\ Idle

Open ==
  /\ stage = "main" /\ Parses
  /\ stage' = "parse"
  /\ UNCHANGED status
  /\ Idle

\* compile gives up when the file cannot be opened.
CompileFails ==
  /\ stage = "main" /\ Action = "parse" /\ ~args.opens
  /\ Exit("2")
  /\ Idle

\* Variant: parse answers the context of lalr_create, whose stack is empty.
ParseFailsEmpty ==
  /\ stage = "main" /\ Action = "reconstruct" /\ ~args.opens
  /\ stack' = <<>>
  /\ values' = <<>>
  /\ stage' = "walk"
  /\ UNCHANGED <<input, pos, lookahead, phase, literals, tree, cells, curr, defined, args, at, out, status, round>>

\* parse answers a context of zeros, whose stack_top is 0: the one node on
\* its stack is NT_UNDEF.
ParseFails ==
  /\ stage = "main" /\ Action = "reconstruct" /\ ~args.opens
  /\ stack' = <<Node(Bottom, 0, 0, 0)>>
  /\ values' = <<NULL>>
  /\ stage' = "walk"
  /\ UNCHANGED <<input, pos, lookahead, phase, literals, tree, cells, curr, defined, args, at, out, status, round>>

Parse ==
  /\ stage = "parse"
  /\ BuildStep
  /\ UNCHANGED <<args, stage, at, out, status, round>>

ParseEnds ==
  /\ stage = "parse"
  /\ \/ phase = "done" /\ stage' = "walk" /\ UNCHANGED status
     \/ (phase = "overrun" \/ ~defined) /\ Exit("undefined")
  /\ Idle

-----------------------------------------------------------------------------
\* Variant: a build with NDEBUG.
EndsWithoutAssertions == {"CRASH"}

Ends == {"ABORT", "CRASH"}

Least(indices) == CHOOSE i \in indices : \A j \in indices : i <= j
Fatal(pieces) == {i \in DOMAIN pieces : pieces[i].sym \in Ends}

\* The pieces of a node that come before the first one that ends the process.
Written(pieces) == IF Fatal(pieces) = {} THEN pieces ELSE SubSeq(pieces, 1, Least(Fatal(pieces)) - 1)
Ending(pieces) == IF Fatal(pieces) = {} THEN "none" ELSE pieces[Least(Fatal(pieces))].sym

\* The pieces of some kinds, in their order.
Only(syms, pieces) ==
  LET kept[n \in 0..Len(pieces)] ==
        IF n = 0 THEN <<>> ELSE IF pieces[n].sym \in syms THEN Append(kept[n - 1], pieces[n]) ELSE kept[n - 1]
  IN kept[Len(pieces)]

\* An unwritten field that holds zeros shows nothing.
Zeroed(pieces) == Only(Tokens, pieces)

Walked(n) == IF Action = "parse" THEN Show(stack[n].sym, values[n]) ELSE Reconstruct(stack[n].sym, values[n])

\* One turn of the loop of reconstruct, or of lalr_show_stack.
WalkNode ==
  /\ stage = "walk" /\ at <= Depth
  /\ LET pieces == Walked(at)
     IN \/ /\ out' = out \o Zeroed(Written(pieces))
           /\ IF Ending(pieces) = "none" THEN UNCHANGED <<stage, status>> ELSE Exit(Ending(pieces))
        \/ /\ \E p \in DOMAIN Written(pieces) : Written(pieces)[p].sym = "UNWRITTEN"
           /\ Exit("undefined")
           /\ UNCHANGED out
  /\ at' = at + 1
  /\ UNCHANGED <<buildVars, args, round>>

\* compile reports 1 when all went well.
WalkEnds ==
  /\ stage = "walk" /\ at > Depth
  /\ Exit(IF Action = "parse" THEN "1" ELSE "0")
  /\ Idle

\* codegen does not parse: it generates from an empty context, so the loop of
\* codegen_entry_x86_32 has nothing to do, and the other targets assert(0).
\* Without an output file it closes NULL.
Codegen ==
  /\ stage = "main" /\ Action = "codegen" /\ args.target # "none"
  /\ Exit(IF ~args.writes THEN "CRASH" ELSE IF args.target = "x86_32" THEN "0" ELSE "ABORT")
  /\ Idle

-----------------------------------------------------------------------------
Syms(pieces) == [i \in DOMAIN pieces |-> pieces[i].sym]

\* The nodes that are written with a newline at their end.
WholeLines == {"HEADER", "STATEMENT", "STATEMENT_LIST", "BLOCK", "NT_IF", "FUNCTION"}

\* The tokenizer finds the tokens in the file that were written to it.  Without
\* a newline at its end it would miss the last character (EofAtEnd of
\* Tokenizer), of the last token or of all of it, and two leftovers in one line
\* may have become one token.  A sign may have become an operator of the line
\* before.
ReadAsWritten ==
  /\ \A i \in 1..Depth : stack[i].sym \in WholeLines
  /\ \A k \in DOMAIN out : out[k] # Piece("MINUS", NULL)

\* A literal copied, and one that printf wrote; which number that was is not kept.
Read(piece) ==
  IF piece.at # NULL THEN {literals[piece.at]} ELSE {x \in Literals : x.plain /\ x.value < IntLimit}

\* The same command line for what the first process wrote.
RunAgain ==
  /\ stage = "exit" /\ status = "0" /\ Action = "reconstruct" /\ round = 1 /\ ReadAsWritten
  /\ input' = Syms(out)
  /\ literals' \in {w \in Spellings(input') : \A k \in DOMAIN w : w[k] \in Read(out[k])}
  /\ pos' = 0 /\ lookahead' = "ID" /\ stack' = <<>> /\ phase' = "next"
  /\ values' = <<>> /\ tree' = <<>> /\ cells' = <<>> /\ curr' = NULL /\ defined' = TRUE
  /\ stage' = "main" /\ at' = 1 /\ out' = <<>> /\ status' = "none" /\ round' = 2
  /\ UNCHANGED args

Stop ==
  /\ stage = "exit"
  /\ UNCHANGED driverVars

DriverNext ==
  \/ Refuse \/ Tokenize \/ Open \/ CompileFails \/ ParseFails
  \/ Parse \/ ParseEnds \/ WalkNode \/ WalkEnds \/ Codegen
  \/ RunAgain \/ Stop

DriverSpec == DriverInit /\ [][DriverNext]_driverVars

-----------------------------------------------------------------------------
(* Properties. *)

\* A node has just been pushed; the tokens it was built from, and its walks.
Fresh(action) ==
  Action = action /\ stage = "parse" /\ phase = "reduce" /\ Depth > 0 /\ stack[Depth].sym \in NonTerminals
Top == stack[Depth]
Source(from, to) == [i \in 1..(to - from + 1) |-> TokenPiece(from + i - 1)]
Rebuilt == Reconstruct(Top.sym, values[Depth])
Shown == Show(Top.sym, values[Depth])

\* "Rebuilds the original source from the parse tree" (ast_reconstruct.h):
\* what a node is written as are its own tokens, in their order, parentheses
\* aside: no operand is swapped, dropped or taken from another node, and no
\* list has lost or gained an element.
Parens == {"LP", "RP"}

\* What has a text of its own is copied from the token.
Names == {"ID", "DECIMAL_LIT", "STRING_LIT"}

Same(pieces, tokens) ==
  /\ Len(pieces) = Len(tokens)
  /\ \A i \in DOMAIN tokens :
       /\ pieces[i].sym = tokens[i].sym
       /\ pieces[i].at = tokens[i].at \/ (pieces[i].at = NULL /\ tokens[i].sym \notin Names)

\* An int keeps the number, and %d writes it as it was.
Kept(i) == literals[i].plain /\ literals[i].value < IntLimit

\* Where all numbers are of this kind.
Spelled(from, to) ==
  \A i \in from..to : TypeOf(i) # "HEX_LIT" /\ (TypeOf(i) = "DECIMAL_LIT" => Kept(i))

NodesRebuilt ==
  Fresh("reconstruct") /\ Ending(Rebuilt) = "none" /\ Spelled(Top.from, Top.to) =>
    Same(Only(Tokens \ Parens, Rebuilt), Only(Tokens \ Parens, Source(Top.from, Top.to)))

\* A nested array type begins like no other tokens of a program.
NestedIn(from, to) == \E i \in from..(to - 1) : TypeOf(i) = "LBRK" /\ TypeOf(i + 1) = "LBRK"

\* The reconstruction gives up exactly on strings and nested array types.  (A
\* header is no exception: it is written with whatever token is its name.)
ReconstructionGivesUp ==
  Fresh("reconstruct") =>
    (Ending(Rebuilt) # "none" <=>
       /\ Top.sym # "HEADER"
       /\ NestedIn(Top.from, Top.to) \/ \E i \in Top.from..Top.to : TypeOf(i) = "STRING_LIT")

\* The tree shows every name and number of the source once, in their order: a
\* number as it is written exactly if it is decimal and kept by an int.  The
\* inside of a nested array type is the only thing the tree does not show.
Changed(name) == name.sym = "HEX_LIT" \/ (name.sym = "DECIMAL_LIT" /\ ~Kept(name.at))

Shows(pieces, names) ==
  /\ Len(pieces) = Len(names)
  /\ \A i \in DOMAIN names : pieces[i].at = IF Changed(names[i]) THEN NULL ELSE names[i].at

NamesShown ==
  Fresh("parse") /\ Ending(Shown) = "none" /\ ~NestedIn(Top.from, Top.to) =>
    Shows(Only(Names, Shown), Only(Names \cup {"HEX_LIT"}, Source(Top.from, Top.to)))

\* The tree follows NULL exactly where a call has no arguments: the parser
\* gives it no list, and the walk does not ask.
TreeCrashes ==
  Fresh("parse") /\ ~NestedIn(Top.from, Top.to) =>
    (Ending(Shown) = "CRASH" <=>
       \E i \in Top.from..(Top.to - 2) :
         TypeOf(i) \in IdTokens /\ TypeOf(i + 1) = "LP" /\ TypeOf(i + 2) = "RP")

\* A process that ends with 0 did find the files its action works on.  When the
\* action was to reconstruct a program whose numbers an int keeps, it has written
\* the whole program, token by token.
SuccessIsComplete ==
  status = "0" =>
    /\ Action \in {"tokenize", "reconstruct"} => args.opens
    /\ Action = "codegen" => args.writes /\ args.target = "x86_32"
    /\ Action = "reconstruct" /\ Spelled(1, Len(input)) =>
         Same(Only(Tokens \ Parens, out), Only(Tokens \ Parens, Source(1, Len(input))))

\* What was written by a reconstruction, in whole lines and without signs, is a
\* program again, and its reconstruction is the same text: parentheses are put
\* where they keep the tree as it is.
ReconstructionIsStable ==
  round = 2 /\ stage = "exit" /\ status # "undefined" => status = "0" /\ Syms(out) = input
=============================================================================
