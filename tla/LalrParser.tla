----------------------------- MODULE LalrParser -----------------------------
(***************************************************************************)
(* The parse loop of main.c (parse) over the stack of lalr.c.  One token   *)
(* is pushed, then lalr_reduce is called until it answers 0; each call     *)
(* that answers n pops n nodes and pushes the node it built.  There is no  *)
(* error path: what no rule wants simply stays on the stack, and the loop  *)
(* ends when the tokens do.                                                *)
(*                                                                         *)
(* The input is the sequence of token kinds the tokenizer delivers, and    *)
(* the lookahead is the kind after the current one ("EOF" at the end).     *)
(* A node is abstracted to its kind, the tokens it was built from          *)
(* (from..to), and the token whose location it carries (0 when the code    *)
(* never writes the location).                                             *)
(***************************************************************************)
EXTENDS LalrRules, FiniteSets

CONSTANTS
  Inputs,        \* the token sequences considered
  StackSize      \* AST_Node stack[255] in lalr.h

ASSUME InputsAssumption == Inputs \subseteq Seq(Tokens)
ASSUME StackSizeAssumption == StackSize \in Nat \ {0}

VARIABLES
  input,         \* the tokens of the file being parsed
  pos,           \* how many of them have been pushed
  lookahead,     \* ctx.lookahead.type
  stack,         \* ctx.stack[0..stack_top], bottom first
  phase          \* where the loop stands

vars == <<input, pos, lookahead, stack, phase>>

Phases == {"next", "reduce", "done", "overrun"}

Node(sym, from, to, loc) == [sym |-> sym, from |-> from, to |-> to, loc |-> loc]
Nodes == [sym : Symbols, from : Nat, to : Nat, loc : Nat]

-----------------------------------------------------------------------------
(* The stack operations. *)

Depth == Len(stack)
Peek(n) == IF n < Depth THEN stack[Depth - n].sym ELSE Bottom
PeekLoc(n) == IF n < Depth THEN stack[Depth - n].loc ELSE 0
Push(s, n) == Append(s, n)

\* Variant: a loop from 1 below n.
PopNOneFewer(s, n) == SubSeq(s, 1, IF n <= Len(s) THEN Len(s) - n + 1 ELSE 0)

PopN(s, n) == SubSeq(s, 1, IF n <= Len(s) THEN Len(s) - n ELSE 0)

-----------------------------------------------------------------------------
(* lalr_reduce. *)

Matches(r) ==
  LET k == Len(r.rhs)
  IN /\ k <= Depth
     /\ \A i \in 0..(k - 1) : Peek(i) \in r.rhs[k - i]
     /\ Peek(k) \in r.under
     /\ lookahead \in r.la

\* The rules lalr_reduce may take now.  A sure rule hides every later one; an
\* unsure one does not, since its test may come out false.
Takeable ==
  LET matching == {r \in Rules : Matches(r)}
  IN {r \in matching : \A q \in matching : q.sure => r.at <= q.at}

TakesNothing == \A r \in Takeable : ~r.sure

\* The node a rule builds out of the handle it matched.
Built(r) ==
  Node(r.lhs,
       stack[Depth - Len(r.rhs) + 1].from,
       stack[Depth].to,
       IF r.loc = Unset THEN 0 ELSE PeekLoc(r.loc))

-----------------------------------------------------------------------------
TypeOf(i) == IF i \in 1..Len(input) THEN input[i] ELSE "EOF"

Init ==
  /\ input \in Inputs
  /\ pos = 0
  /\ lookahead = "ID"              \* lalr_create zeroes it, and T_ID is 0
  /\ stack = <<>>
  /\ phase = "next"

\* tctx_get_next, tctx_advance, the lookahead, and the push of the token.
Shift ==
  /\ phase = "next"
  /\ pos < Len(input)
  /\ Depth < StackSize
  /\ pos' = pos + 1
  /\ lookahead' = TypeOf(pos + 2)
  /\ stack' = Push(stack, Node(input[pos + 1], pos + 1, pos + 1, pos + 1))
  /\ phase' = "reduce"
  /\ UNCHANGED input

\* lalr_push does not compare stack_top with the size of the array.  What a
\* write past its end does is undefined, and nothing after it is modelled.
Overflow ==
  /\ phase = "next"
  /\ pos < Len(input)
  /\ Depth >= StackSize
  /\ phase' = "overrun"
  /\ UNCHANGED <<input, pos, lookahead, stack>>

\* What parse does with the answer of lalr_reduce.
Apply(r) == stack' = Push(PopN(stack, r.pops), Built(r))

Reduce ==
  /\ phase = "reduce"
  /\ \E r \in Takeable : Apply(r)
  /\ UNCHANGED <<input, pos, lookahead, phase>>

\* Variant: the inner loop waits for an answer that is not given.
NothingToReduceLoops ==
  /\ phase = "reduce"
  /\ TakesNothing
  /\ UNCHANGED <<input, pos, lookahead, stack, phase>>

NothingToReduce ==
  /\ phase = "reduce"
  /\ TakesNothing
  /\ phase' = "next"
  /\ UNCHANGED <<input, pos, lookahead, stack>>

Finish ==
  /\ phase = "next"
  /\ pos = Len(input)
  /\ phase' = "done"
  /\ UNCHANGED <<input, pos, lookahead, stack>>

\* parse has returned, or the process is in undefined territory.
Terminated ==
  /\ phase \in {"done", "overrun"}
  /\ UNCHANGED vars

Next ==
  \/ Shift
  \/ Overflow
  \/ Reduce
  \/ NothingToReduce
  \/ Finish
  \/ Terminated

Spec == Init /\ [][Next]_vars

\* parse is one thread of straight-line code and loops that never wait: as
\* long as a step is possible, one is taken.
FairSpec == Spec /\ WF_vars(Next)
-----------------------------------------------------------------------------
(* Properties. *)

\* The state is well formed, and the stack stays inside AST_Node stack[255].
TypeOK ==
  /\ input \in Seq(Tokens)
  /\ pos \in 0..Len(input)
  /\ lookahead \in Lookaheads
  /\ stack \in Seq(Nodes)
  /\ Depth <= StackSize
  /\ phase \in Phases

\* lalr_reduce answers how many nodes to pop, main.c pops that many and pushes
\* the node built from the ones lalr_reduce looked at.  The two must agree in
\* every branch: the nodes on the stack, in order, cover exactly the tokens
\* read so far, each token once, and a token on the stack is the one read.
TilesInput ==
  /\ \A i \in 1..Depth : stack[i].from <= stack[i].to
  /\ \A i \in 1..Depth : i > 1 => stack[i].from = stack[i - 1].to + 1
  /\ \A i \in 1..Depth : stack[i].sym \in Tokens =>
        /\ stack[i].from = stack[i].to
        /\ stack[i].sym = TypeOf(stack[i].from)
  /\ Depth = 0 => pos = 0
  /\ Depth > 0 => stack[1].from = 1 /\ stack[Depth].to = pos

\* The location a node carries is copied from one of the nodes it was built
\* from, over any number of reductions, so it is that of one of its own
\* tokens.  Only typed_id_list never gets one, and func_header copies its.
LocInSpan ==
  \A i \in 1..Depth :
    \/ stack[i].loc \in stack[i].from..stack[i].to
    \/ stack[i].loc = 0 /\ stack[i].sym \in {"TYPED_ID_LIST", "FUNC_HEADER"}

\* Nothing asks for room on the stack, and chains of reductions replace a node
\* ten times over.  Yet all of them together never keep more nodes than tokens
\* were read, so only a file of more tokens than the array has places can get
\* to the push beyond its end.
OverrunNeedsTokens == phase = "overrun" => Len(input) > StackSize

\* What is left to do: every token still to be pushed makes room for one more
\* node, and a node can be replaced by one of a higher rank 11 times.
TopRank == IF Depth > 0 THEN Rank(stack[Depth].sym) ELSE 0
Turn == CASE phase = "next" -> 1 [] phase = "reduce" -> 2 [] OTHER -> 0
Remaining == 13 * (2 * (Len(input) - pos) + Depth) + (11 - TopRank) + Turn

\* Neither loop of parse has a bound of its own: the outer one ends when the
\* tokens do, and the inner one when lalr_reduce finds nothing, after
\* reductions that need not shorten the stack.  There is less to do after
\* every step, so n tokens are parsed in at most 26 n + 12 steps.
WorkShrinks == [][Remaining' \in Nat /\ Remaining' < Remaining]_vars

\* parse returns, whatever the file holds.
Termination == <>(phase \in {"done", "overrun"})

\* Nothing else reports a syntax error, so a file has been understood when
\* parse leaves only headers, functions and joined-up statement lists.
Goals == {"HEADER", "FUNCTION", "STATEMENT_LIST"}

Understood ==
  /\ \A i \in 1..Depth : stack[i].sym \in Goals
  /\ \A i \in 1..Depth : i > 1 =>
        ~(stack[i].sym = "STATEMENT_LIST" /\ stack[i - 1].sym = "STATEMENT_LIST")

\* Every input of the run that fits on the stack is understood (the runs give
\* sentences as inputs).
AcceptsSentences == phase = "done" => Understood

\* How full the stack gets does not depend on the length of lists, sums and
\* argument lists, which are folded from the left, but only on how deeply
\* brackets nest and on how many functions the file has: nothing joins the
\* functions, and each stays on the stack to the end.
PerLevel == 13
CountOnStack(syms) == Cardinality({i \in 1..Depth : stack[i].sym \in syms})
StackBound ==
  Depth <= PerLevel * (1 + CountOnStack({"LP", "LBRC", "LBRK"}))
           + 2 * CountOnStack({"FUNCTION"})
=============================================================================
