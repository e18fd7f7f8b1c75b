------------------------------ MODULE Lowering ------------------------------
(***************************************************************************)
(* How lower_stmt, lower_match and finish (src/driver_pipeline/lower.rs)   *)
(* turn the structured statements of an action into a graph of basic       *)
(* blocks, what validate_return_consistency makes of it, and the run of    *)
(* the graph beside the run of the statements it came from.                *)
(*                                                                         *)
(* The recursion of the lowerer over nested statements is a list `todo` of *)
(* what it still has to do.  Expressions are events: computing a condition *)
(* or a value leaves one mark in the block it is emitted to.  Arm guards,  *)
(* scopes and a panic in the middle of an expression are left out.         *)
(***************************************************************************)
EXTENDS Naturals, Sequences, Selection

CONSTANT Programs   \* records [unit |-> is the action Unit, code |-> statements]

VARIABLES
  program,
  phase,       \* "lower", then "run" or "rejected"
  todo,        \* statements and steps the lowerer has yet to take
  blocks,      \* body blocks; the code's block b is blocks[b + 1]
  cur,         \* cur_block
  cur_stmts,
  loop_ctx,    \* the enclosing loops, innermost last
  src,         \* what the source program has yet to do
  at, pos,     \* where the graph is
  skipped      \* history: the source ran `continue` in a counted loop

lowVars == <<todo, blocks, cur, cur_stmts, loop_ctx>>
runVars == <<src, at, pos, skipped>>
vars == <<program, phase, lowVars, runVars>>

-----------------------------------------------------------------------------
(* Statements.  Everything without control flow is a Do.                   *)
Do(e) == [kind |-> "do", event |-> e]
Arm(cond, body) == [cond |-> cond, body |-> body]
If(arms, otherwise) == [kind |-> "if", arms |-> arms, otherwise |-> otherwise]
While(c, body) == [kind |-> "while", cond |-> c, body |-> body]
Forever(body) == [kind |-> "loop", body |-> body]
For(i, body) == [kind |-> "for", counter |-> i, body |-> body]
Case(catchall, body) == [catchall |-> catchall, body |-> body]
Match(c, cases) == [kind |-> "match", cond |-> c, cases |-> cases]
Break == [kind |-> "break"]
Continue == [kind |-> "continue"]
Return(value) == [kind |-> "return", value |-> value]
Panic == [kind |-> "panic"]

(* The programs are made of the statements in S, which are made of others. *)
Grammar(S) ==
  /\ \A p \in Programs : p.code \in Seq(S)
  /\ \A s \in S :
       \/ s.kind \in {"do", "break", "continue", "panic"}
       \/ s.kind = "return" /\ s.value \in BOOLEAN
       \/ /\ s.kind = "if" /\ s = If(s.arms, s.otherwise)
          /\ s.arms # <<>> /\ s.otherwise \in Seq(S)
          /\ s.arms \in Seq([cond : STRING, body : Seq(S)])
       \/ s.kind \in {"while", "loop", "for"} /\ s.body \in Seq(S)
       \/ s.kind = "match" /\ s.cases \in Seq([catchall : BOOLEAN, body : Seq(S)])

(* Terminators.                                                            *)
Goto(b) == [kind |-> "goto", to |-> <<b>>]
SwitchInt(targets, otherwise) == [kind |-> "switch", to |-> Append(targets, otherwise)]
Returns(value) == [kind |-> "return", to |-> <<>>, value |-> value]
Abort == [kind |-> "abort", to |-> <<>>]
Unreachable == [kind |-> "unreachable", to |-> <<>>]

Block(stmts, term) == [stmts |-> stmts, term |-> term]
Placeholder == Block(<<>>, Unreachable)
Targets(b) == Seqs!ToSet(blocks[b].term.to)

(* Steps between the statements: flush(Goto), start_block, loop_ctx.pop.   *)
Jump(b) == [kind |-> "jump", block |-> b]
Start(b) == [kind |-> "start", block |-> b]
LeaveLoop == [kind |-> "leave"]

-----------------------------------------------------------------------------
LowInit ==
  /\ program \in Programs
  /\ phase = "lower"
  /\ todo = program.code
  /\ blocks = <<Placeholder>>
  /\ cur = 1
  /\ cur_stmts = <<>>
  /\ loop_ctx = <<>>
  /\ src = program.code
  /\ at = 1
  /\ pos = 1
  /\ skipped = FALSE

Task == Head(todo)
Rest == Tail(todo)
At(kind) == phase = "lower" /\ todo # <<>> /\ Task.kind = kind
Lowers == UNCHANGED <<program, phase, runVars>>

(* The n-th block allocated from here, and the graph with the current      *)
(* block flushed and n placeholders allocated.                             *)
New(n) == Len(blocks) + n
Flushed(stmts, term) == [blocks EXCEPT ![cur] = Block(cur_stmts \o stmts, term)]
Fresh(n) == [i \in 1 .. n |-> Placeholder]

LowerDo ==
  /\ At("do")
  /\ cur_stmts' = Append(cur_stmts, Task.event)
  /\ todo' = Rest
  /\ UNCHANGED <<blocks, cur, loop_ctx>> /\ Lowers

MutNoDeadBlock(stmts, term) ==
  /\ blocks' = Flushed(stmts, term)
  /\ cur_stmts' = <<>>
  /\ cur' = cur
  /\ todo' = Rest
  /\ UNCHANGED loop_ctx /\ Lowers

(* What leaves the block for good opens a dead block for what follows.     *)
Terminate(stmts, term) ==
  /\ blocks' = Append(Flushed(stmts, term), Placeholder)
  /\ cur' = New(1)
  /\ cur_stmts' = <<>>
  /\ todo' = Rest
  /\ UNCHANGED loop_ctx /\ Lowers

LowerReturn ==
  /\ At("return")
  /\ Terminate(IF Task.value THEN <<"value">> ELSE <<>>, Returns(Task.value))

LowerPanic == At("panic") /\ Terminate(<<>>, Abort)

LowerBreak ==
  /\ At("break") /\ loop_ctx # <<>>
  /\ Terminate(<<>>, Goto(Seqs!Last(loop_ctx).exit))

LowerContinue ==
  /\ At("continue") /\ loop_ctx # <<>>
  /\ Terminate(<<>>, Goto(Seqs!Last(loop_ctx).header))

(* Outside of every loop they lower to nothing.                            *)
LowerStray ==
  /\ At("break") \/ At("continue")
  /\ loop_ctx = <<>>
  /\ todo' = Rest
  /\ UNCHANGED <<blocks, cur, cur_stmts, loop_ctx>> /\ Lowers

(* The merge block comes first, then each branch as a link of the chain.   *)
LowerIf ==
  /\ At("if")
  /\ blocks' = blocks \o Fresh(1)
  /\ todo' = <<[kind |-> "link", arms |-> Task.arms, otherwise |-> Task.otherwise,
                merge |-> New(1)]>> \o Rest
  /\ UNCHANGED <<cur, cur_stmts, loop_ctx>> /\ Lowers

LowerLink ==
  /\ At("link")
  /\ LET arm == Head(Task.arms)
         more == Tail(Task.arms)
     IN  /\ blocks' = Flushed(<<arm.cond>>, SwitchInt(<<New(1)>>, New(2))) \o Fresh(2)
         /\ todo' = arm.body \o <<Jump(Task.merge), Start(New(2))>>
                    \o (IF more # <<>> THEN <<[Task EXCEPT !.arms = more]>>
                        ELSE Task.otherwise \o <<Jump(Task.merge), Start(Task.merge)>>)
                    \o Rest
  /\ cur' = New(1)
  /\ cur_stmts' = <<>>
  /\ UNCHANGED loop_ctx /\ Lowers

EnterLoop(header, exit) == loop_ctx' = Append(loop_ctx, [header |-> header, exit |-> exit])

LowerWhile ==
  /\ At("while")
  /\ blocks' = Flushed(<<>>, Goto(New(1)))
                 \o <<Block(<<Task.cond>>, SwitchInt(<<New(2)>>, New(3)))>> \o Fresh(2)
  /\ cur' = New(2)
  /\ cur_stmts' = <<>>
  /\ EnterLoop(New(1), New(3))
  /\ todo' = Task.body \o <<LeaveLoop, Jump(New(1)), Start(New(3))>> \o Rest
  /\ Lowers

LowerLoop ==
  /\ At("loop")
  /\ blocks' = Flushed(<<>>, Goto(New(1))) \o Fresh(2)
  /\ cur' = New(1)
  /\ cur_stmts' = <<>>
  /\ EnterLoop(New(1), New(2))
  /\ todo' = Task.body \o <<LeaveLoop, Jump(New(1)), Start(New(2))>> \o Rest
  /\ Lowers

(* for i in lo .. hi: bounds and counter first, the increment last.        *)
Init(i) == <<"from", i>>
Less(i) == <<"less", i>>
Incr(i) == <<"incr", i>>

LowerFor ==
  /\ At("for")
  /\ blocks' = Flushed(<<Init(Task.counter)>>, Goto(New(1)))
                 \o <<Block(<<Less(Task.counter)>>, SwitchInt(<<New(2)>>, New(3)))>>
                 \o Fresh(2)
  /\ cur' = New(2)
  /\ cur_stmts' = <<>>
  /\ EnterLoop(New(1), New(3))
  /\ todo' = Task.body
               \o <<LeaveLoop, Do(Incr(Task.counter)), Jump(New(1)), Start(New(3))>> \o Rest
  /\ Lowers

(* lower_match: the merge block, a block for no match unless some case     *)
(* catches all, then a block per case.                                     *)
Catchalls(cases) == {n \in DOMAIN cases : cases[n].catchall}
FirstOf(S) == CHOOSE n \in S : \A m \in S : n <= m

LowerMatch ==
  /\ At("match")
  /\ LET cases == Task.cases
         caught == Catchalls(cases) # {}
         before == IF caught THEN 1 ELSE 2
         literals == Only([n \in DOMAIN cases |-> n], DOMAIN cases \ Catchalls(cases))
         otherwise == IF caught THEN New(before + FirstOf(Catchalls(cases))) ELSE New(2)
     IN  /\ blocks' = Flushed(<<Task.cond>>,
                              SwitchInt([k \in DOMAIN literals |-> New(before + literals[k])],
                                        otherwise))
                        \o Fresh(before + Len(cases))
         /\ todo' = Seqs!FlattenSeq([n \in DOMAIN cases |->
                        <<Start(New(before + n))>> \o cases[n].body \o <<Jump(New(1))>>])
                      \o (IF caught THEN <<>> ELSE <<Start(New(2)), Jump(New(1))>>)
                      \o <<Start(New(1))>> \o Rest
  /\ cur_stmts' = <<>>
  /\ UNCHANGED <<cur, loop_ctx>> /\ Lowers

TakeJump ==
  /\ At("jump")
  /\ blocks' = Flushed(<<>>, Goto(Task.block))
  /\ cur_stmts' = <<>>
  /\ todo' = Rest
  /\ UNCHANGED <<cur, loop_ctx>> /\ Lowers

StartBlock ==
  /\ At("start")
  /\ cur' = Task.block
  /\ todo' = Rest
  /\ UNCHANGED <<blocks, cur_stmts, loop_ctx>> /\ Lowers

MutKeepLoop ==
  /\ At("leave")
  /\ todo' = Rest
  /\ UNCHANGED <<blocks, cur, cur_stmts, loop_ctx>> /\ Lowers

PopLoop ==
  /\ At("leave")
  /\ loop_ctx' = Seqs!Front(loop_ctx)
  /\ todo' = Rest
  /\ UNCHANGED <<blocks, cur, cur_stmts>> /\ Lowers

MutNeverEntered(b) == FALSE

(* finish: is the last block entered from anywhere?                        *)
HasPred(b) == b = 1 \/ \E i \in DOMAIN blocks \ {b} : b \in Targets(i)

Finished ==
  IF blocks[cur].term = Unreachable /\ HasPred(cur)
  THEN Flushed(<<>>, Returns(FALSE)) ELSE blocks

MutAllButLast(body) ==
  program.unit \/ \A b \in DOMAIN body \ {Len(body)} : body[b].term # Returns(FALSE)

(* validate_return_consistency: every block counts, entered or not.        *)
Consistent(body) == program.unit \/ \A b \in DOMAIN body : body[b].term # Returns(FALSE)

Finish ==
  /\ phase = "lower" /\ todo = <<>>
  /\ blocks' = Finished
  /\ phase' = IF Consistent(blocks') THEN "run" ELSE "rejected"
  /\ UNCHANGED <<program, todo, cur, cur_stmts, loop_ctx, runVars>>

Lower ==
  \/ LowerDo \/ LowerReturn \/ LowerPanic \/ LowerBreak \/ LowerContinue \/ LowerStray
  \/ LowerIf \/ LowerLink \/ LowerWhile \/ LowerLoop \/ LowerFor \/ LowerMatch
  \/ TakeJump \/ StartBlock \/ PopLoop \/ Finish
-----------------------------------------------------------------------------
(***************************************************************************)
(* The reference: structured statements run in order (LANGUAGE.md section  *)
(* 7).  `src` is a list of statements, of choices with the statements each *)
(* alternative goes on with, and of marks, each the end of an iteration.   *)
(***************************************************************************)
Choice(alternatives) == [kind |-> "choice", alternatives |-> alternatives]
EndOf(loop) == [kind |-> "end", loop |-> loop]
Counted(loop) == <<Do(Less(loop.counter)),
                   Choice(<<loop.body \o <<EndOf(loop)>>, <<>>>>)>>

(* A statement in terms of simpler ones.                                   *)
Unfolded(s) ==
  CASE s.kind = "if" ->
         <<Do(Head(s.arms).cond),
           Choice(<<Head(s.arms).body,
                    IF Len(s.arms) > 1 THEN <<[s EXCEPT !.arms = Tail(@)]>>
                                       ELSE s.otherwise>>)>>
    [] s.kind = "while" ->
         <<Do(s.cond), Choice(<<s.body \o <<EndOf(s)>>, <<>>>>)>>
    [] s.kind = "loop" -> s.body \o <<EndOf(s)>>
    [] s.kind = "for" -> <<Do(Init(s.counter))>> \o Counted(s)
    [] s.kind = "end" -> IF s.loop.kind = "for"
                         THEN <<Do(Incr(s.loop.counter))>> \o Counted(s.loop)
                         ELSE <<s.loop>>
    [] s.kind = "match" ->
         LET bodies(S) ==
               LET some == Only(s.cases, {c \in Seqs!ToSet(s.cases) : c.catchall = S})
               IN  [n \in DOMAIN some |-> some[n].body]
         IN  <<Do(s.cond), Choice(bodies(FALSE) \o <<Head(Append(bodies(TRUE), <<>>))>>)>>

Iterations == {n \in DOMAIN src : src[n].kind = "end"}

Unfold ==
  /\ src # <<>>
  /\ Head(src).kind \in {"if", "while", "loop", "for", "end", "match"}
  /\ src' = Unfolded(Head(src)) \o Tail(src)
  /\ skipped' = skipped

(* To the end of the iteration, or past it.                                *)
Leave ==
  /\ src # <<>>
  /\ Head(src).kind \in {"break", "continue"}
  /\ LET n == FirstOf(Iterations)
         skip == IF Iterations = {} THEN 1
                 ELSE IF Head(src).kind = "break" THEN n ELSE n - 1
     IN  /\ src' = SubSeq(src, skip + 1, Len(src))
         /\ skipped' = (skipped \/ (/\ Iterations # {}
                                    /\ Head(src).kind = "continue"
                                    /\ src[n].loop.kind = "for"))

SourceSilent ==
  /\ phase = "run"
  /\ Unfold \/ Leave
  /\ UNCHANGED <<program, phase, lowVars, at, pos>>

(* What the statements do next that can be told from outside.              *)
SourceNext ==
  IF src = <<>> THEN <<"return", FALSE>>
  ELSE LET s == Head(src) IN
    CASE s.kind = "do" -> <<"do", s.event>>
      [] s.kind = "choice" -> <<"choice", Len(s.alternatives)>>
      [] s.kind = "return" -> IF s.value THEN <<"do", "value">> ELSE <<"return", FALSE>>
      [] s.kind = "handed" -> <<"return", TRUE>>
      [] s.kind = "panic" -> <<"abort", FALSE>>
      [] OTHER -> <<"silent", FALSE>>

(* The same for the graph (lower_terminator of codegen/cranelift.rs).      *)
GraphNext ==
  LET b == blocks[at] IN
  IF pos <= Len(b.stmts) THEN <<"do", b.stmts[pos]>>
  ELSE CASE b.term.kind = "switch" -> <<"choice", Len(b.term.to)>>
         [] b.term.kind = "return" -> <<"return", b.term.value>>
         [] b.term.kind = "abort" -> <<"abort", FALSE>>
         [] b.term.kind = "goto" -> <<"silent", FALSE>>
         [] OTHER -> <<"trap", FALSE>>

GraphSilent ==
  /\ phase = "run"
  /\ SourceNext[1] # "silent"
  /\ GraphNext[1] = "silent"
  /\ at' = blocks[at].term.to[1]
  /\ pos' = 1
  /\ UNCHANGED <<program, phase, lowVars, src, skipped>>

Both(kind) == phase = "run" /\ SourceNext = GraphNext /\ SourceNext[1] = kind

BothDo ==
  /\ Both("do")
  /\ src' = (IF Head(src).kind = "return" THEN <<[kind |-> "handed"]>> ELSE <<>>)
              \o Tail(src)
  /\ pos' = pos + 1
  /\ UNCHANGED <<program, phase, lowVars, at, skipped>>

BothChoose ==
  /\ Both("choice")
  /\ \E n \in DOMAIN blocks[at].term.to :
       /\ src' = Head(src).alternatives[n] \o Tail(src)
       /\ at' = blocks[at].term.to[n]
  /\ pos' = 1
  /\ UNCHANGED <<program, phase, lowVars, skipped>>

LowNext == Lower \/ SourceSilent \/ GraphSilent \/ BothDo \/ BothChoose

LowSpec == LowInit /\ [][LowNext]_vars
-----------------------------------------------------------------------------
(* The graph is well formed while it is built: every jump is to a block,   *)
(* and so are the current one and the ones loops jump to.                  *)
LowTypeOK ==
  /\ phase \in {"lower", "run", "rejected"}
  /\ \A b \in DOMAIN blocks : Targets(b) \subseteq DOMAIN blocks
  /\ {cur, at} \subseteq DOMAIN blocks
  /\ \A n \in DOMAIN loop_ctx :
       {loop_ctx[n].header, loop_ctx[n].exit} \subseteq DOMAIN blocks
  /\ phase # "lower" => todo = <<>> /\ loop_ctx = <<>>

(* lower.rs:509: a block that ends in a jump or a return keeps it; no later *)
(* step of the lowering writes over it.                                    *)
NothingClobbered ==
  [][\A b \in DOMAIN blocks :
       blocks[b].term # Unreachable => blocks'[b] = blocks[b]]_blocks

Agree ==
  phase = "run" /\ SourceNext[1] # "silent" /\ GraphNext[1] # "silent" =>
    SourceNext = GraphNext

(* The graph does what the statements do, in the order they do it, and     *)
(* ends as they end, on every path without a `continue` in a counted loop. *)
GraphFollowsSource == ~skipped => Agree

(* LANGUAGE.md section 7.7: an action that is not Unit and passed the      *)
(* validator cannot run off its end.                                       *)
AcceptedActionsReturn ==
  phase = "run" /\ ~program.unit /\ ~skipped => SourceNext # <<"return", FALSE>>

(* LANGUAGE.md section 7.4: the variable of a counted loop runs from lo to *)
(* hi - 1, whatever way an iteration ends.                                 *)
CountedLoopsAdvance == Agree

Entered ==
  LET Grow(S) == S \cup UNION {Targets(b) : b \in S}
  IN  Seqs!FoldLeft(LAMBDA S, b : Grow(S), {1}, blocks)

(* The comment at lower.rs:1767: a block nothing enters is no reason to    *)
(* report that the action returns without a value.                         *)
RejectedForAReason ==
  phase = "rejected" => \E b \in Entered : blocks[b].term = Returns(FALSE)
=============================================================================
