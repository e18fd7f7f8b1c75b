----------------------------- MODULE DropProofs -----------------------------
(***************************************************************************)
(* Proofs about drop elaboration and the program that comes of it, for     *)
(* every set of locals and every body.  What is known of the loop that     *)
(* both passes run comes from OwnershipProofs, where the program stands    *)
(* still.  What the rules keep of the states that some run can bring about *)
(* comes from there too: that is what tells which owners no run can leave  *)
(* unreleased.                                                             *)
(***************************************************************************)
EXTENDS DropElaborate, SequenceFacts

O == INSTANCE OwnershipProofs WITH at <- Entry, pos <- 1, live <- body.params

-----------------------------------------------------------------------------
(* The loop of the instance is the loop of the pass.                       *)

(* The definitions of the instance are those of this module.               *)
LEMMA SameRules ==
  /\ Blocks = O!Blocks /\ Entry = O!Entry /\ Unreached = O!Unreached /\ O!Body = Body
  /\ O!StateMap = StateMap /\ O!PartialMap = PartialMap
  /\ O!EntryState(body) = EntryState(body)
  /\ \A s, t : O!MeetStates(s, t) = MeetStates(s, t)
  /\ \A s, st : O!Transfer(s, st) = Transfer(s, st) /\ O!Misuses(s, st) = Misuses(s, st)
  /\ \A t : O!Successors(t) = Successors(t)
<1>1. /\ Blocks = O!Blocks /\ Entry = O!Entry /\ Unreached = O!Unreached /\ O!Body = Body
      /\ O!StateMap = StateMap /\ O!PartialMap = PartialMap
  BY DEF Blocks, O!Blocks, Entry, O!Entry, Unreached, O!Unreached, Body, O!Body,
         Stmt, O!Stmt, Rvalues, O!Rvalues, Callees, O!Callees, Terminator, O!Terminator,
         StateMap, O!StateMap, PartialMap, O!PartialMap, State, O!State
<1>2. O!EntryState(body) = EntryState(body)
  BY DEF EntryState, O!EntryState
<1>3. \A s, t : O!MeetStates(s, t) = MeetStates(s, t)
  BY DEF MeetStates, O!MeetStates, Meet, O!Meet
<1>4. \A s, st : O!Transfer(s, st) = Transfer(s, st)
  BY DEF Transfer, O!Transfer, MoveOut, O!MoveOut, IsMove, O!IsMove, Reads, O!Reads
<1>5. \A s, st : O!Misuses(s, st) = Misuses(s, st)
  BY DEF Misuses, O!Misuses, Reads, O!Reads, UseKind, O!UseKind, DropKind, O!DropKind
<1>6. \A t : O!Successors(t) = Successors(t)
  BY DEF Successors, O!Successors
<1> QED BY <1>1, <1>2, <1>3, <1>4, <1>5, <1>6

(* What OwnershipProofs assumes of the constants.                          *)
LEMMA Assumed == Bodies \subseteq O!Body /\ NBlocks \in Nat \ {0}
BY SameRules, BodiesAssumption, NBlocksAssumption

(* The loop, with its memory, keeps what is known of it.                   *)
LEMMA NextKeepsChecked ==
  ASSUME O!RunInv, Next, Record
  PROVE  O!RunInv'
<1>1. Code = O!Code /\ Succ = O!Succ
  BY SameRules DEF Code, O!Code, Succ, O!Succ
<1>2. O!Next
  <2>1. PopBlock => O!PopBlock
    BY SameRules DEF PopBlock, O!PopBlock
  <2>2. TransferStmt => O!TransferStmt
    BY SameRules, <1>1 DEF TransferStmt, O!TransferStmt
  <2>3. SkipEdge => O!SkipEdge
    BY SameRules, <1>1 DEF SkipEdge, O!SkipEdge, AtEdge, O!AtEdge
  <2>4. Propagate => O!Propagate
    BY SameRules, <1>1 DEF Propagate, O!Propagate, AtEdge, O!AtEdge, Update, O!Update
  <2>5. EndBlock => O!EndBlock
    BY SameRules, <1>1 DEF EndBlock, O!EndBlock
  <2>6. Finish => O!Finish
    BY SameRules, <1>1 DEF Finish, O!Finish
  <2> QED BY <2>1, <2>2, <2>3, <2>4, <2>5, <2>6 DEF Next, O!Next
<1>3. body' = body
  BY DEF Next, PopBlock, TransferStmt, SkipEdge, Propagate, EndBlock, Finish
<1>4. O!CheckStep
  BY <1>2, <1>3 DEF O!CheckStep, O!runVars, Record, O!Record
<1> QED BY <1>4, Assumed, O!CheckStepKeepsRunInv

(* So does a step that leaves it alone.                                    *)
LEMMA StutterKeepsChecked ==
  ASSUME O!RunInv, UNCHANGED <<vars, point>>
  PROVE  O!RunInv'
<1>1. UNCHANGED O!allVars
  BY DEF vars, O!allVars, O!vars, O!runVars
<1> QED BY <1>1, Assumed, O!StutterKeepsRunInv

(* A start with the entry queued establishes it.                           *)
LEMMA StartChecked == O!RunInit => O!RunInv
BY Assumed, O!InitRunInv

(* Both loops start like the checker.                                      *)
LEMMA InitChecked ==
  ASSUME Init, point = Unrecorded
  PROVE  O!RunInv
<1>1. O!RunInit
  BY SameRules DEF Init, Unrecorded, O!RunInit, O!Init, O!Unrecorded
<1> QED BY <1>1, StartChecked

(* And so does the second.                                                 *)
LEMMA RestartChecked ==
  ASSUME Restart, body \in Bodies, diags = {}
  PROVE  O!RunInv'
<1>1. O!RunInit'
  BY SameRules DEF Restart, EntryState, O!EntryState, Unrecorded, O!RunInit, O!Init, O!Unrecorded
<1>2. O!RunInit' => O!RunInv'
  BY StartChecked, PTL
<1> QED BY <1>1, <1>2

(* What is known of the variables of the loop.                             *)
LEMMA CheckedTypes ==
  ASSUME O!RunInv
  PROVE  /\ body \in Body /\ body.params \in SUBSET Locals /\ Entry \in Blocks
         /\ \A b \in Blocks : /\ IsSeq(body.stmts[b]) /\ body.stmts[b] \in Seq(Stmt)
                              /\ DOMAIN body.stmts[b] = 1 .. Len(body.stmts[b])
                              /\ Len(body.stmts[b]) \in Nat
                              /\ Successors(body.term[b]) \in Seq(Nat)
         /\ in_states \in [Blocks -> StateMap \cup {Unreached}]
         /\ PointType
<1>1. O!TypeOK /\ O!PointType
  BY DEF O!RunInv
<1>2. body \in Body /\ in_states \in [Blocks -> StateMap \cup {Unreached}]
  BY <1>1, SameRules DEF O!TypeOK
<1>3. Entry \in Blocks
  BY NBlocksAssumption DEF Entry, Blocks
<1>4. PointType
  BY <1>1, SameRules DEF O!PointType, PointType
<1>5. body.params \in SUBSET Locals /\ body.stmts \in [Blocks -> Seq(Stmt)]
      /\ body.term \in [Blocks -> Terminator]
  BY <1>2 DEF Body
<1>6. \A t \in Terminator : Successors(t) \in Seq(Nat)
  BY DEF Terminator, Successors
<1>7. \A b \in Blocks : IsSeq(body.stmts[b]) /\ Len(body.stmts[b]) \in Nat
                        /\ DOMAIN body.stmts[b] = 1 .. Len(body.stmts[b])
  BY <1>5, SeqIs
<1> QED BY <1>2, <1>3, <1>4, <1>5, <1>6, <1>7
-----------------------------------------------------------------------------
(* A fixpoint without a misuse: what either loop leaves in `point`.        *)

(* `in` is a map, and takes no local for live that `out` does not.         *)
Follows(in, out) ==
  \A l \in Locals : in[l] # "absent" /\ (in[l] = "Init" => out[l] = "Init")

(* Block b was transferred from map I[b], to M[b][n] before its statement   *)
(* n, without a misuse, and its out-state flowed on.                       *)
Solves(I, M, b) ==
  /\ M[b][1] = I[b]
  /\ \A n \in DOMAIN body.stmts[b] :
       /\ M[b][n] \in StateMap
       /\ M[b][n + 1] = Transfer(body.stmts[b][n], M[b][n])
       /\ Misuses(body.stmts[b][n], M[b][n]) = {}
  /\ \A n \in DOMAIN Successors(body.term[b]) :
       Successors(body.term[b])[n] \in Blocks =>
         Follows(I[Successors(body.term[b])[n]], M[b][Len(body.stmts[b]) + 1])

Solution(I, M) ==
  /\ \A l \in Locals : I[Entry][l] # "absent" /\ (I[Entry][l] = "Init" => l \in body.params)
  /\ \A b \in Blocks, l \in Locals : I[b][l] # "absent" => Solves(I, M, b)

(* A statement makes a map of a map.                                       *)
LEMMA TransferWhole ==
  ASSUME NEW s \in Stmt, NEW st \in StateMap
  PROVE  Transfer(s, st) \in StateMap
BY DEF Stmt, StateMap, State, Transfer, MoveOut, IsMove, Reads

(* When a loop is through and has nothing to report `point` solves.        *)
LEMMA Fixpoint ==
  ASSUME O!RunInv, pc = "done", diags = {}
  PROVE  Solution(in_states, point)
<1>1. /\ O!Settled /\ O!EntryStrict /\ O!TypeOK
      /\ \A b \in Blocks : ~in_worklist[b]
  BY SameRules DEF O!RunInv, O!RunFollows, O!Accepted
<1>2. PointType /\ Entry \in Blocks /\ in_states \in [Blocks -> StateMap \cup {Unreached}]
      /\ \A b \in Blocks : /\ body.stmts[b] \in Seq(Stmt) /\ Len(body.stmts[b]) \in Nat
                           /\ DOMAIN body.stmts[b] = 1 .. Len(body.stmts[b])
                           /\ Successors(body.term[b]) \in Seq(Nat)
  BY CheckedTypes
<1>3. ASSUME NEW b \in Blocks, NEW l \in Locals, in_states[b][l] # "absent"
      PROVE  Solves(in_states, point, b)
  <2> DEFINE L == Len(body.stmts[b])
  <2>1. L \in Nat /\ in_states[b] \in StateMap /\ body.stmts[b] \in Seq(Stmt)
        /\ DOMAIN body.stmts[b] = 1 .. L /\ Successors(body.term[b]) \in Seq(Nat)
    BY <1>2, <1>3 DEF Unreached
  <2>2. O!Transferred(b, L + 1) /\ O!Flowed(b, Len(Successors(body.term[b])) + 1)
    BY <1>1, <1>3, SameRules DEF O!Settled, O!Busy
  <2>3. point[b][1] = in_states[b]
    BY <2>2 DEF O!Transferred
  <2>4. \A n \in 1 .. L : /\ point[b][n + 1] = Transfer(body.stmts[b][n], point[b][n])
                          /\ Misuses(body.stmts[b][n], point[b][n]) = {}
    <3>1. 1 .. L = 1 .. (L + 1) - 1
      BY <2>1
    <3> QED BY <2>2, <3>1, SameRules DEF O!Transferred
  <2>5. \A n \in Nat : n <= L => point[b][n + 1] \in StateMap
    <3> DEFINE T == {n \in Nat : n <= L => point[b][n + 1] \in StateMap}
    <3>1. 0 \in T
      BY <2>1, <2>3
    <3>2. ASSUME NEW n \in Nat, n \in T PROVE n + 1 \in T
      <4> SUFFICES ASSUME n + 1 <= L PROVE point[b][(n + 1) + 1] \in StateMap
        OBVIOUS
      <4>1. n + 1 \in 1 .. L /\ point[b][n + 1] \in StateMap
        BY <2>1, <3>2
      <4>2. body.stmts[b][n + 1] \in Stmt
        BY <2>1, <4>1
      <4> QED BY <2>4, <4>1, <4>2, TransferWhole
    <3> HIDE DEF T
    <3>3. Nat \subseteq T
      BY <3>1, <3>2, Inducted
    <3> QED BY <3>3 DEF T
  <2>6. \A n \in 1 .. L : point[b][n] \in StateMap
    <3> TAKE n \in 1 .. L
    <3>1. n - 1 \in Nat /\ n - 1 <= L /\ (n - 1) + 1 = n
      BY <2>1
    <3> QED BY <2>5, <3>1
  <2>7. ASSUME NEW n \in DOMAIN Successors(body.term[b]),
               Successors(body.term[b])[n] \in Blocks
        PROVE  Follows(in_states[Successors(body.term[b])[n]], point[b][L + 1])
    <3>1. n \in 1 .. (Len(Successors(body.term[b])) + 1) - 1
      BY <2>1
    <3> QED BY <2>2, <2>7, <3>1, SameRules DEF O!Flowed, O!AsStrict, Follows
  <2> QED BY <2>1, <2>3, <2>4, <2>6, <2>7 DEF Solves
<1>4. \A l \in Locals : in_states[Entry][l] # "absent"
                        /\ (in_states[Entry][l] = "Init" => l \in body.params)
  BY <1>1, SameRules DEF O!EntryStrict
<1> QED BY <1>3, <1>4 DEF Solution

(* The out-state of a block is the last map recorded for it.               *)
LEMMA OutIsRecorded ==
  ASSUME O!RunInv, NEW b \in Blocks, Solves(in_states, point, b)
  PROVE  OutState(b) = point[b][Len(body.stmts[b]) + 1]
<1> DEFINE L == Len(body.stmts[b])
           At(f, n) == IF n = 0 THEN in_states[b] ELSE Transfer(body.stmts[b][n], f[n - 1])
           E(f) == f = [n \in 0 .. L |-> At(f, n)]
           F == CHOOSE f : E(f)
           h == [n \in 0 .. L |-> point[b][n + 1]]
<1>1. L \in Nat /\ DOMAIN body.stmts[b] = 1 .. L
  BY CheckedTypes
<1>2. point[b][1] = in_states[b]
      /\ \A n \in 1 .. L : point[b][n + 1] = Transfer(body.stmts[b][n], point[b][n])
  BY <1>1 DEF Solves
<1>3. E(h)
  <2>1. \A n \in 0 .. L : h[n] = At(h, n)
    <3> TAKE n \in 0 .. L
    <3>1. CASE n = 0
      BY <1>2, <3>1
    <3>2. CASE n # 0
      <4>1. n \in 1 .. L /\ n - 1 \in 0 .. L /\ (n - 1) + 1 = n
        BY <1>1, <3>2
      <4> QED BY <1>2, <3>2, <4>1
    <3> QED BY <3>1, <3>2
  <2> QED BY <2>1
<1>4. E(F)
  BY <1>3
<1>5. OutState(b) = F[L]
  BY DEF OutState
<1> HIDE DEF F
<1>6. \A n \in 0 .. L : F[n] = At(F, n)
  BY <1>4
<1>7. \A n \in Nat : n <= L => F[n] = point[b][n + 1]
  <2> DEFINE T == {n \in Nat : n <= L => F[n] = point[b][n + 1]}
  <2>1. 0 \in T
    BY <1>1, <1>2, <1>6
  <2>2. ASSUME NEW n \in Nat, n \in T PROVE n + 1 \in T
    <3> SUFFICES ASSUME n + 1 <= L PROVE F[n + 1] = point[b][(n + 1) + 1]
      OBVIOUS
    <3>1. n + 1 \in 0 .. L /\ n + 1 \in 1 .. L /\ n + 1 # 0 /\ (n + 1) - 1 = n
      BY <1>1
    <3>2. F[n + 1] = Transfer(body.stmts[b][n + 1], F[n])
      BY <1>6, <3>1
    <3>3. F[n] = point[b][n + 1]
      BY <1>1, <2>2
    <3> QED BY <1>2, <3>1, <3>2, <3>3
  <2> HIDE DEF T
  <2>3. Nat \subseteq T
    BY <2>1, <2>2, Inducted
  <2> QED BY <2>3 DEF T
<1> QED BY <1>1, <1>5, <1>7
-----------------------------------------------------------------------------
(* The second loop reports nothing: what it knows is never less than what  *)
(* the first, which reported nothing, ended with.                          *)

AsLive(st, from) == \A l \in Locals : from[l] = "Init" => st[l] = "Init"

Above(I, M) ==
  /\ \A b \in Blocks, l \in Locals :
       in_states[b][l] # "absent" => I[b][l] # "absent" /\ AsLive(in_states[b], I[b])
  /\ pc = "block" => (\A l \in Locals : I[idx][l] # "absent") /\ AsLive(state, M[idx][stmt])

(* A statement that misuses nothing in one state misuses nothing where no  *)
(* less is live, and leaves no less.                                       *)
LEMMA TransferAbove ==
  ASSUME NEW s \in Stmt, NEW st \in StateMap, NEW from \in StateMap, AsLive(st, from),
         Misuses(s, from) = {}
  PROVE  Misuses(s, st) = {} /\ AsLive(Transfer(s, st), Transfer(s, from))
<1>1. Reads(s) \subseteq Locals /\ s.dest \in Locals
  BY DEF Reads, Stmt
<1>2. /\ \A l \in Reads(s) : from[l] = "Init"
      /\ s.op = "drop" => from[s.dest] = "Init"
  BY DEF Misuses
<1>3. Misuses(s, st) = {}
  BY <1>1, <1>2 DEF Misuses, AsLive
<1>4. AsLive(Transfer(s, st), Transfer(s, from))
  BY <1>1 DEF AsLive, Transfer, MoveOut, StateMap
<1> QED BY <1>3, <1>4

(* A step of the second loop reports nothing and goes on knowing no less.  *)
LEMMA NextKeepsAbove ==
  ASSUME O!RunInv, Next, diags = {}, NEW I, NEW M, Solution(I, M), Above(I, M)
  PROVE  diags' = {} /\ Solution(I, M)' /\ Above(I, M)'
<1>1. body' = body
  BY DEF Next, PopBlock, TransferStmt, SkipEdge, Propagate, EndBlock, Finish
<1>2. Solution(I, M)'
  BY <1>1, ZenonT(40) DEF Solution, Solves
<1>3. /\ O!TypeOK /\ O!QueueMatchesFlags /\ O!QueuedReached
      /\ in_states \in [Blocks -> StateMap \cup {Unreached}]
      /\ \A b \in Blocks : /\ body.stmts[b] \in Seq(Stmt) /\ Len(body.stmts[b]) \in Nat
                           /\ DOMAIN body.stmts[b] = 1 .. Len(body.stmts[b])
                           /\ Successors(body.term[b]) \in Seq(Nat)
  BY CheckedTypes DEF O!RunInv
<1>4. idx \in Blocks /\ stmt \in Nat \ {0} /\ edge \in Nat \ {0}
      /\ (pc = "block" => state \in StateMap) /\ worklist \in Seq(Blocks)
  BY <1>3, SameRules DEF O!TypeOK
<1>5. CASE PopBlock
  <2>1. Len(worklist) \in DOMAIN worklist /\ idx' = worklist[Len(worklist)] /\ idx' \in Blocks
        /\ state' = in_states[idx'] /\ stmt' = 1 /\ diags' = diags /\ in_states' = in_states
    BY <1>4, <1>5 DEF PopBlock
  <2>2. in_states[idx'] \in StateMap
    BY <1>3, <2>1, SameRules DEF O!QueueMatchesFlags, O!QueuedReached
  <2>3. \A l \in Locals : in_states[idx'][l] # "absent"
    BY <2>2 DEF StateMap, State
  <2>4. \A l \in Locals : I[idx'][l] # "absent" /\ AsLive(state', I[idx'])
    BY <2>1, <2>3 DEF Above
  <2>5. AsLive(state', M[idx'][1])
    <3>1. ASSUME NEW l \in Locals PROVE M[idx'][1] = I[idx']
      BY <2>1, <2>4, <3>1 DEF Solution, Solves
    <3> QED BY <2>4, <3>1 DEF AsLive
  <2> QED BY <1>2, <2>1, <2>4, <2>5 DEF Above
<1>6. CASE TransferStmt
  <2>1. /\ pc = "block" /\ stmt \in DOMAIN body.stmts[idx] /\ Code = body.stmts[idx]
        /\ Code[stmt] \in Stmt
    BY <1>3, <1>4, <1>6 DEF TransferStmt, Code
  <2>2. Code[stmt].dest \in Locals
    BY <2>1 DEF Stmt
  <2>3. Solves(I, M, idx)
    BY <1>4, <2>1, <2>2 DEF Above, Solution
  <2>4. /\ M[idx][stmt] \in StateMap /\ M[idx][stmt + 1] = Transfer(Code[stmt], M[idx][stmt])
        /\ Misuses(Code[stmt], M[idx][stmt]) = {}
    BY <2>1, <2>3 DEF Solves
  <2>5. AsLive(state, M[idx][stmt]) /\ state \in StateMap
    BY <1>4, <2>1 DEF Above
  <2>6. Misuses(Code[stmt], state) = {}
        /\ AsLive(Transfer(Code[stmt], state), M[idx][stmt + 1])
    BY <2>1, <2>4, <2>5, TransferAbove
  <2>7. diags' = {}
    BY <1>6, <2>6 DEF TransferStmt
  <2>8. Above(I, M)'
    BY <1>6, <2>1, <2>6 DEF Above, TransferStmt
  <2> QED BY <1>2, <2>7, <2>8
<1>7. CASE Propagate
  <2> DEFINE t == Succ[edge]
             in == MeetStates(in_states[t], state)
  <2>1. /\ pc = "block" /\ stmt = Len(body.stmts[idx]) + 1 /\ t \in Blocks
        /\ Succ = Successors(body.term[idx]) /\ edge \in DOMAIN Succ
        /\ state \in StateMap
    BY <1>3, <1>4, <1>7 DEF Propagate, AtEdge, Code, Succ
  <2>2. ASSUME NEW l \in Locals
        PROVE  I[t][l] # "absent" /\ (I[t][l] = "Init" => in[l] = "Init")
    <3>1. Solves(I, M, idx)
      BY <1>4, <2>1 DEF Above, Solution
    <3>2. Follows(I[t], M[idx][stmt])
      BY <2>1, <3>1 DEF Solves
    <3>3. I[t][l] # "absent" /\ (I[t][l] = "Init" => state[l] = "Init")
      BY <2>1, <3>2 DEF Follows, Above, AsLive
    <3>4. in_states[t][l] # "absent" => (I[t][l] = "Init" => in_states[t][l] = "Init")
      BY <2>1 DEF Above, AsLive
    <3>5. state[l] # "absent"
      BY <2>1 DEF StateMap, State
    <3>6. in[l] = IF in_states[t][l] = "absent" THEN state[l] ELSE Meet(in_states[t][l], state[l])
      BY <3>5 DEF MeetStates
    <3> HIDE DEF in
    <3> QED BY <3>3, <3>4, <3>6 DEF Meet
  <2>3. in_states'[t] = in /\ \A b \in Blocks : b # t => in_states'[b] = in_states[b]
    BY <1>3, <1>7, <2>1 DEF Propagate, Update
  <2> HIDE DEF in
  <2>4. \A b \in Blocks, l \in Locals :
          in_states'[b][l] # "absent" => I[b][l] # "absent" /\ AsLive(in_states'[b], I[b])
    <3> TAKE b \in Blocks, l \in Locals
    <3>1. CASE b = t
      BY <2>2, <2>3, <3>1 DEF AsLive
    <3>2. CASE b # t
      BY <2>3, <3>2 DEF Above
    <3> QED BY <3>1, <3>2
  <2>5. UNCHANGED <<pc, idx, stmt, state, diags>>
    BY <1>7 DEF Propagate
  <2> QED BY <1>2, <2>4, <2>5 DEF Above
<1>8. CASE SkipEdge \/ EndBlock \/ Finish
  BY <1>2, <1>8 DEF SkipEdge, EndBlock, Finish, Above
<1> QED BY <1>5, <1>6, <1>7, <1>8 DEF Next

(* As does its start.                                                      *)
LEMMA RestartAbove ==
  ASSUME O!RunInv, Restart, NEW I, NEW M, Solution(I, M)
  PROVE  Solution(I, M)' /\ Above(I, M)'
<1>1. Solution(I, M)'
  BY ZenonT(40) DEF Restart, Solution, Solves
<1>2. \A b \in Blocks, l \in Locals :
        in_states'[b][l] # "absent" =>
          b = Entry /\ in_states'[b][l] = (IF l \in body.params THEN "Init" ELSE "Uninit")
  BY DEF Restart, EntryState, Unreached
<1>3. \A l \in Locals : I[Entry][l] # "absent" /\ (I[Entry][l] = "Init" => l \in body.params)
  BY DEF Solution
<1>4. AsLive(in_states'[Entry], I[Entry])
  BY <1>3, CheckedTypes DEF AsLive, Restart, EntryState
<1>5. pc' = "pop"
  BY DEF Restart
<1> QED BY <1>1, <1>2, <1>3, <1>4, <1>5 DEF Above
-----------------------------------------------------------------------------
(* What is appended to a Return block.                                     *)

Dies(s, l) == s = StorageDead(l)

Frees(s, b, l) ==
  /\ s = Call(l, "free", <<l>>)
  /\ l \notin body.params
  /\ OutState(b)[l] = "Init"

(* No local is freed twice in q.                                           *)
Distinct(q) ==
  \A j, k \in DOMAIN q :
    q[j].how = "free" /\ q[k].how = "free" /\ q[j].dest = q[k].dest => j = k

(* What is appended for one local: its end, perhaps after its release.     *)
LEMMA OneRelease ==
  ASSUME NEW b, NEW l
  PROVE  /\ IsSeq(Release(b, l))
         /\ \A k \in DOMAIN Release(b, l) :
              Dies(Release(b, l)[k], l) \/ (k = 1 /\ Frees(Release(b, l)[k], b, l))
<1> DEFINE free == Call(l, "free", <<l>>)
           dead == StorageDead(l)
<1>1. CASE l \in HeapOwners(body) \ body.params /\ OutState(b)[l] = "Init"
  <2>1. Release(b, l) = <<free, dead>>
    BY <1>1 DEF Release
  <2>2. /\ IsSeq(<<free, dead>>) /\ DOMAIN <<free, dead>> = {1, 2}
        /\ <<free, dead>>[1] = free /\ <<free, dead>>[2] = dead
    BY Two
  <2>3. Frees(free, b, l) /\ Dies(dead, l)
    BY <1>1 DEF Frees, Dies
  <2> HIDE DEF free, dead
  <2> QED BY <2>1, <2>2, <2>3
<1>2. CASE ~(l \in HeapOwners(body) \ body.params /\ OutState(b)[l] = "Init")
  <2>1. Release(b, l) = <<dead>>
    BY <1>2 DEF Release
  <2>2. IsSeq(<<dead>>) /\ DOMAIN <<dead>> = {1} /\ <<dead>>[1] = dead
    BY One
  <2>3. Dies(dead, l)
    BY DEF Dies
  <2> HIDE DEF dead
  <2> QED BY <2>1, <2>2, <2>3
<1> QED BY <1>1, <1>2

(* What is appended for all of them, and none is released twice.           *)
LEMMA ReleasesAre ==
  ASSUME DropConstants, NEW b
  PROVE  /\ IsSeq(Releases(b))
         /\ \A k \in DOMAIN Releases(b) : \E l \in Locals :
              Dies(Releases(b)[k], l) \/ Frees(Releases(b)[k], b, l)
         /\ Distinct(Releases(b))
<1>0. IsSeq(<<>>) /\ DOMAIN <<>> = {}
  BY EmptySeq DEF IsSeq
<1> DEFINE N == Len(LocalOrder)
           R == [n \in DOMAIN LocalOrder |-> Release(b, LocalOrder[N + 1 - n])]
<1>1. /\ N \in Nat /\ DOMAIN LocalOrder = 1 .. N
      /\ \A n \in 1 .. N : LocalOrder[n] \in Locals
      /\ \A m, n \in 1 .. N : LocalOrder[m] = LocalOrder[n] => m = n
  BY DEF DropConstants
<1>2. CASE body.term[b].kind # "return"
  BY <1>0, <1>2 DEF Releases, Distinct
<1>3. CASE body.term[b].kind = "return" /\ LocalOrder = <<>>
  <2>1. Releases(b) = Seqs!FlattenSeq(R) /\ R = <<>>
    BY <1>3 DEF Releases
  <2>2. Seqs!FlattenSeq(<<>>) = <<>>
    BY IsSeqLen, <1>0 DEF Seqs!FlattenSeq
  <2> QED BY <1>0, <2>1, <2>2 DEF Distinct
<1>4. CASE body.term[b].kind = "return" /\ LocalOrder # <<>>
  <2>1. Releases(b) = Seqs!FlattenSeq(R)
    BY <1>4 DEF Releases
  <2>2. IsSeq(R) /\ Len(R) = N /\ DOMAIN R = 1 .. N
    BY <1>1, Mapped
  <2>3. N # 0 /\ R # <<>>
    BY <1>4, <2>2, EmptySeq DEF DropConstants
  <2>4. PICK f : /\ DOMAIN f = 1 .. N /\ f[1] = R[1]
                 /\ \A i \in 2 .. N : f[i] = f[i - 1] \o R[i]
                 /\ Seqs!FlattenSeq(R) = f[N]
    BY <2>2, <2>3, FlattenedInSteps
  <2> DEFINE At(i) == LocalOrder[N + 1 - i]
             Is(s, i) == Dies(s, At(i)) \/ Frees(s, b, At(i))
             Good(q, n) == /\ IsSeq(q) /\ Distinct(q)
                           /\ \A k \in DOMAIN q : \E i \in 1 .. n : Is(q[k], i)
             T == {n \in Nat : 0 < n /\ n <= N => Good(f[n], n)}
  <2>5. ASSUME NEW i \in 1 .. N
        PROVE  /\ IsSeq(R[i]) /\ Distinct(R[i]) /\ At(i) \in Locals
               /\ \A k \in DOMAIN R[i] : Is(R[i][k], i)
    <3>1. R[i] = Release(b, At(i)) /\ N + 1 - i \in 1 .. N
      BY <1>1
    <3>2. \A k \in DOMAIN R[i] : Dies(R[i][k], At(i)) \/ (k = 1 /\ Frees(R[i][k], b, At(i)))
      BY <3>1, OneRelease
    <3>3. IsSeq(R[i])
      BY <3>1, OneRelease
    <3> HIDE DEF R, At
    <3>4. Distinct(R[i])
      BY <3>2 DEF Distinct, Dies, StorageDead
    <3>5. At(i) \in Locals
      BY <1>1, <3>1 DEF At
    <3> QED BY <3>2, <3>3, <3>4, <3>5
  <2>6. \A i \in 1 .. N : \A s : Is(s, i) => s.dest = At(i)
    BY DEF Dies, Frees, StorageDead, Call
  <2>7. \A i, j \in 1 .. N : At(i) = At(j) => i = j
    <3> TAKE i, j \in 1 .. N
    <3>1. N + 1 - i \in 1 .. N /\ N + 1 - j \in 1 .. N
      BY <1>1
    <3>2. At(i) = At(j) => N + 1 - i = N + 1 - j
      BY <1>1, <3>1
    <3> QED BY <1>1, <3>2
  <2> HIDE DEF R, At
  <2>8. 0 \in T
    OBVIOUS
  <2>9. ASSUME NEW n \in Nat, n \in T PROVE n + 1 \in T
    <3> SUFFICES ASSUME n + 1 <= N PROVE Good(f[n + 1], n + 1)
      OBVIOUS
    <3>0. n + 1 \in 1 .. N
      BY <1>1
    <3>1. CASE n = 0
      BY <2>4, <2>5, <3>0, <3>1
    <3>2. CASE n # 0
      <4>1. IsSeq(f[n]) /\ Distinct(f[n]) /\ \A k \in DOMAIN f[n] : \E i \in 1 .. n : Is(f[n][k], i)
        BY <1>1, <2>9, <3>2
      <4>2. n + 1 \in 2 .. N /\ (n + 1) - 1 = n
        BY <1>1, <3>2
      <4> DEFINE q == f[n]
                 r == R[n + 1]
                 u == f[n + 1]
      <4>3. u = q \o r
        BY <2>4, <4>2
      <4>4. /\ IsSeq(r) /\ Distinct(r) /\ \A k \in DOMAIN r : Is(r[k], n + 1)
        BY <2>5, <3>0
      <4>5. Joins(u, q, r)
        BY <4>1, <4>3, <4>4, Joined
      <4>6. \A i \in 1 .. n : i \in 1 .. n + 1 /\ i \in 1 .. N /\ i # n + 1
        BY <3>0
      <4> HIDE DEF q, r, u, Is
      <4>7. IsSeq(u)
        BY <4>5 DEF Joins
      <4>8. \A k \in DOMAIN u : \E i \in 1 .. n + 1 : Is(u[k], i)
        <5> TAKE k \in DOMAIN u
        <5>1. CASE k \in DOMAIN q /\ u[k] = q[k]
          BY <4>1, <4>6, <5>1 DEF q
        <5>2. CASE k - Len(q) \in DOMAIN r /\ u[k] = r[k - Len(q)]
          BY <3>0, <4>4, <5>2
        <5> QED BY <4>5, <5>1, <5>2 DEF Joins
      <4>9. Distinct(u)
        <5> SUFFICES ASSUME NEW j \in DOMAIN u, NEW k \in DOMAIN u, u[j].how = "free",
                            u[k].how = "free", u[j].dest = u[k].dest
                     PROVE  j = k
          BY DEF Distinct
        <5> DEFINE InQ(x) == x \in DOMAIN q /\ u[x] = q[x]
                   InR(x) == x - Len(q) \in DOMAIN r /\ x = Len(q) + (x - Len(q)) /\ u[x] = r[x - Len(q)]
        <5>1. (InQ(j) \/ InR(j)) /\ (InQ(k) \/ InR(k))
          BY <4>5 DEF Joins
        <5>2. CASE InQ(j) /\ InQ(k)
          BY <4>1, <5>2 DEF Distinct, q
        <5>3. CASE InR(j) /\ InR(k)
          <6>1. j - Len(q) = k - Len(q)
            BY <4>4, <5>3 DEF Distinct
          <6> QED BY <5>3, <6>1
        <5>4. ASSUME NEW x \in DOMAIN u, NEW y \in DOMAIN u, InQ(x), InR(y), u[x].dest = u[y].dest
              PROVE  FALSE
          <6>1. PICK i \in 1 .. n : Is(u[x], i)
            BY <4>1, <5>4 DEF q
          <6>2. Is(u[y], n + 1)
            BY <4>4, <5>4
          <6>3. At(i) = At(n + 1)
            BY <2>6, <3>0, <4>6, <5>4, <6>1, <6>2
          <6> QED BY <2>7, <3>0, <4>6, <6>3
        <5> QED BY <5>1, <5>2, <5>3, <5>4
      <4> QED BY <4>7, <4>8, <4>9 DEF u
    <3> QED BY <3>1, <3>2
  <2>10. N \in T
    <3> HIDE DEF T
    <3>1. Nat \subseteq T
      BY <2>8, <2>9, Inducted
    <3> QED BY <1>1, <3>1
  <2>11. Good(f[N], N)
    BY <1>1, <2>3, <2>10
  <2>12. \A k \in DOMAIN f[N] : \E l \in Locals : Dies(f[N][k], l) \/ Frees(f[N][k], b, l)
    <3> TAKE k \in DOMAIN f[N]
    <3>1. PICK i \in 1 .. N : Is(f[N][k], i)
      BY <2>11
    <3> QED BY <2>5, <3>1
  <2> QED BY <2>1, <2>4, <2>11, <2>12
<1> QED BY <1>2, <1>3, <1>4
-----------------------------------------------------------------------------
(* The heap.  `held` is a set of locals whose value the program may still  *)
(* come to use, move or free; v, f and m are the contents of val, frees    *)
(* and moved.                                                              *)

CallersAllocs == Len(ParamOrder(body))

HeapTyped(v, f, m) ==
  /\ f \in Seq(Nat) /\ CallersAllocs <= Len(f) /\ Len(f) <= MaxAllocs
  /\ v \in [Locals -> (1 .. Len(f)) \cup {0, Unset}]
  /\ m \subseteq 1 .. Len(f)

(* What is held points to memory not yet freed, each to other memory, and  *)
(* to the caller's only if it is a parameter or was handed on.             *)
HeldLive(held, v, f, m) ==
  \A l \in held :
    v[l] \in 1 .. Len(f) =>
      /\ f[v[l]] = 0
      /\ \A k \in held : v[k] = v[l] => k = l
      /\ ParamsKept /\ v[l] <= CallersAllocs => l \in body.params \/ v[l] \in m

FreedOnce(f, m) ==
  \A n \in 1 .. Len(f) :
    f[n] <= 1 /\ (ParamsKept /\ n <= CallersAllocs /\ f[n] = 1 => n \in m)

Sound(held, v, f, m) ==
  /\ \A l \in held : v[l] # Unset
  /\ NoCopies => HeldLive(held, v, f, m) /\ FreedOnce(f, m)

(* The one operand that is copied, moved or freed is held; and what the    *)
(* premises of the properties say of a statement.                          *)
Takes(s, held) ==
  /\ s.how \in {"use", "move", "free"} => s.args[1] \in held
  /\ NoCopies => s.how # "use"
  /\ ParamsKept /\ s.how = "free" => s.args[1] \notin body.params

(* Behind statement s no more is held than before it and what s gives.     *)
Leaves(s, held, rest) ==
  \A l \in rest :
    \/ l = s.dest /\ s.op \in {"assign", "call"}
    \/ /\ l \in held
       /\ s.op \in {"assign", "call"} => l # s.dest
       /\ s.how \in {"move", "free"} => l # s.args[1]

HeapStep(s) == Allocate(s) \/ Free(s) \/ Write(s) \/ Pass(s)

(* There is one allocation of the caller per parameter.                    *)
LEMMA CallersCounted ==
  ASSUME DropConstants
  PROVE  /\ IsSeq(ParamOrder(body)) /\ CallersAllocs \in Nat
         /\ DOMAIN ParamOrder(body) = 1 .. CallersAllocs
         /\ Elems(ParamOrder(body)) = Locals \cap body.params
<1>1. IsSeq(LocalOrder) /\ Elems(LocalOrder) = Locals
  BY SeqIs DEF DropConstants, Elems
<1> QED BY <1>1, OnlyElems, IsSeqLen DEF ParamOrder, CallersAllocs

(* A statement keeps the heap typed.                                       *)
LEMMA StmtKeepsTyped ==
  ASSUME DropConstants, NEW s \in Stmt, HeapTyped(val, frees, moved), HeapStep(s)
  PROVE  HeapTyped(val', frees', moved')
<1>1. /\ frees \in Seq(Nat) /\ Len(frees) \in Nat /\ DOMAIN frees = 1 .. Len(frees)
      /\ CallersAllocs <= Len(frees) /\ Len(frees) <= MaxAllocs /\ MaxAllocs \in Nat
      /\ val \in [Locals -> (1 .. Len(frees)) \cup {0, Unset}]
      /\ moved \subseteq 1 .. Len(frees)
      /\ \A n \in 1 .. Len(frees) : frees[n] \in Nat
  BY DEF HeapTyped, DropConstants
<1>2. s.dest \in Locals /\ (s.how \in {"use", "move", "free"} => s.args[1] \in Locals)
  <2>1. s.args \in Seq(Locals) /\ s.dest \in Locals
        /\ (s.how \in {"use", "move", "free"} => Len(s.args) = 1)
    BY DEF Stmt
  <2> QED BY <2>1, ElementOfSeq
<1>3. CASE Allocate(s)
  <2>1. /\ frees' = Append(frees, 0) /\ val' = [val EXCEPT ![s.dest] = Len(frees) + 1]
        /\ moved' = moved /\ Len(frees) < MaxAllocs
    BY <1>3 DEF Allocate
  <2>2. frees' \in Seq(Nat) /\ Len(frees') = Len(frees) + 1
    BY <1>1, <2>1, AppendProperties
  <2>3. CallersAllocs <= Len(frees')
    BY <1>1, <2>2, CallersCounted
  <2>4. 1 .. Len(frees) \subseteq 1 .. Len(frees') /\ Len(frees) + 1 \in 1 .. Len(frees')
    BY <1>1, <2>2
  <2> QED BY <1>1, <1>2, <2>1, <2>2, <2>3, <2>4 DEF HeapTyped
<1>4. CASE Free(s)
  <2>1. val' = [val EXCEPT ![s.dest] = 0] /\ moved' = moved
    BY <1>4 DEF Free
  <2>2. frees' \in Seq(Nat) /\ Len(frees') = Len(frees)
    <3> DEFINE n == val[s.args[1]]
    <3>1. CASE n \in Allocs
      <4>1. frees' = [frees EXCEPT ![n] = frees[n] + 1] /\ n \in 1 .. Len(frees)
        BY <1>1, <1>4, <3>1 DEF Free, Allocs
      <4>2. frees[n] + 1 \in Nat
        BY <1>1, <4>1
      <4> HIDE DEF n
      <4> QED BY <1>1, <4>1, <4>2, ExceptSeq
    <3>2. CASE n \notin Allocs
      BY <1>1, <1>4, <3>2 DEF Free
    <3> QED BY <3>1, <3>2
  <2> QED BY <1>1, <1>2, <2>1, <2>2 DEF HeapTyped
<1>5. CASE Write(s)
  <2>1. frees' = frees /\ moved' \subseteq 1 .. Len(frees)
    BY <1>1, <1>5 DEF Write, Allocs
  <2>2. val' \in [Locals -> (1 .. Len(frees)) \cup {0, Unset}]
    BY <1>1, <1>2, <1>5 DEF Write, Assigned
  <2> QED BY <1>1, <2>1, <2>2 DEF HeapTyped
<1>6. CASE Pass(s)
  BY <1>6 DEF Pass
<1> QED BY <1>3, <1>4, <1>5, <1>6 DEF HeapStep

(* A statement that takes what is held keeps sound what it leaves.         *)
LEMMA StmtKeepsSound ==
  ASSUME DropConstants, NEW s \in Stmt, HeapTyped(val, frees, moved), HeapStep(s),
         NEW held \in SUBSET Locals, Sound(held, val, frees, moved), Takes(s, held),
         NEW rest \in SUBSET Locals, Leaves(s, held, rest)
  PROVE  Sound(rest, val', frees', moved')
<1>1. /\ frees \in Seq(Nat) /\ Len(frees) \in Nat /\ DOMAIN frees = 1 .. Len(frees)
      /\ CallersAllocs <= Len(frees) /\ CallersAllocs \in Nat
      /\ val \in [Locals -> (1 .. Len(frees)) \cup {0, Unset}]
      /\ moved \subseteq 1 .. Len(frees) /\ Unset \notin Nat
      /\ \A n \in 1 .. Len(frees) : frees[n] \in Nat
      /\ Allocs = 1 .. Len(frees)
  BY CallersCounted DEF HeapTyped, DropConstants, Allocs
<1>2. s.dest \in Locals /\ (s.how \in {"use", "move", "free"} => s.args[1] \in Locals)
      /\ (s.how \in {"use", "move"} => s.op = "assign")
      /\ (s.how = "free" => s.op = "call")
  <2>1. s.args \in Seq(Locals) /\ s.dest \in Locals
        /\ (s.how \in {"use", "move", "free"} => Len(s.args) = 1)
        /\ (s.how \in {"use", "move"} => s.op = "assign")
        /\ (s.how = "free" => s.op = "call")
    BY DEF Stmt, Rvalues, Callees
  <2> QED BY <2>1, ElementOfSeq
<1>3. CASE Allocate(s)
  <2>1. /\ frees' = Append(frees, 0) /\ val' = [val EXCEPT ![s.dest] = Len(frees) + 1]
        /\ moved' = moved /\ s.op = "call"
    BY <1>3 DEF Allocate
  <2>2. Len(frees') = Len(frees) + 1 /\ frees'[Len(frees) + 1] = 0
        /\ \A n \in 1 .. Len(frees) : frees'[n] = frees[n]
    BY <1>1, <2>1, AppendProperties
  <2>3. \A n \in 1 .. Len(frees') : n \in 1 .. Len(frees) \/ n = Len(frees) + 1
    BY <1>1, <2>2
  <2>4. \A l \in rest :
          \/ l = s.dest /\ val'[l] = Len(frees) + 1
          \/ l \in held /\ val'[l] = val[l] /\ val[l] # Len(frees) + 1
    <3>1. \A l \in Locals : /\ val[l] # Len(frees) + 1
                          /\ val'[l] = IF l = s.dest THEN Len(frees) + 1 ELSE val[l]
      <4>1. Len(frees) + 1 \notin (1 .. Len(frees)) \cup {0, Unset}
        BY <1>1
      <4> QED BY <1>1, <2>1, <4>1
    <3> QED BY <2>1, <3>1 DEF Leaves
  <2>5. \A l \in rest : val'[l] # Unset
    BY <1>1, <2>4 DEF Sound
  <2>6. ASSUME NoCopies PROVE HeldLive(rest, val', frees', moved')
    <3> SUFFICES ASSUME NEW l \in rest, val'[l] \in 1 .. Len(frees')
                 PROVE  /\ frees'[val'[l]] = 0
                        /\ \A k \in rest : val'[k] = val'[l] => k = l
                        /\ ParamsKept /\ val'[l] <= CallersAllocs => l \in body.params \/ val'[l] \in moved'
      BY DEF HeldLive
    <3>1. CASE val'[l] = Len(frees) + 1
      <4>1. l = s.dest /\ \A k \in rest : val'[k] = val'[l] => k = l
        BY <2>4, <3>1
      <4>2. ~(val'[l] <= CallersAllocs)
        BY <1>1, <3>1
      <4> QED BY <2>2, <3>1, <4>1, <4>2
    <3>2. CASE val'[l] # Len(frees) + 1
      <4>1. l \in held /\ val'[l] = val[l] /\ val[l] \in 1 .. Len(frees)
        BY <2>3, <2>4, <3>2
      <4>2. HeldLive(held, val, frees, moved)
        BY <2>6 DEF Sound
      <4>3. /\ frees[val[l]] = 0
            /\ \A k \in held : val[k] = val[l] => k = l
            /\ ParamsKept /\ val[l] <= CallersAllocs => l \in body.params \/ val[l] \in moved
        BY <4>1, <4>2 DEF HeldLive
      <4>4. \A k \in rest : val'[k] = val'[l] => k = l
        BY <2>4, <3>2, <4>1, <4>3
      <4> QED BY <2>1, <2>2, <4>1, <4>3, <4>4
    <3> QED BY <3>1, <3>2
  <2>7. ASSUME NoCopies PROVE FreedOnce(frees', moved')
    <3>1. FreedOnce(frees, moved)
      BY <2>7 DEF Sound
    <3>2. \A n \in 1 .. Len(frees) :
            frees[n] <= 1 /\ (ParamsKept /\ n <= CallersAllocs /\ frees[n] = 1 => n \in moved)
      BY <3>1 DEF FreedOnce
    <3>3. \A n \in 1 .. Len(frees') :
            frees'[n] <= 1 /\ (ParamsKept /\ n <= CallersAllocs /\ frees'[n] = 1 => n \in moved')
      BY <2>1, <2>2, <2>3, <3>2
    <3> QED BY <3>3 DEF FreedOnce
  <2> QED BY <2>5, <2>6, <2>7 DEF Sound
<1>4. CASE Free(s)
  <2> DEFINE a == s.args[1]
             n == val[a]
  <2>1. /\ a \in held /\ a \in Locals /\ s.op = "call" /\ s.how = "free"
        /\ val' = [val EXCEPT ![s.dest] = 0] /\ moved' = moved
        /\ frees' = IF n \in 1 .. Len(frees) THEN [frees EXCEPT ![n] = frees[n] + 1] ELSE frees
    BY <1>1, <1>2, <1>4 DEF Free, Takes
  <2>2. /\ Len(frees') = Len(frees)
        /\ \A m \in 1 .. Len(frees) : frees'[m] = IF m = n THEN frees[m] + 1 ELSE frees[m]
    <3>1. CASE n \in 1 .. Len(frees)
      <4>1. frees[n] + 1 \in Nat
        BY <1>1, <3>1
      <4> HIDE DEF n, a
      <4> QED BY <1>1, <2>1, <3>1, <4>1, ExceptSeq
    <3>2. CASE n \notin 1 .. Len(frees)
      BY <1>1, <2>1, <3>2
    <3> QED BY <3>1, <3>2
  <2> HIDE DEF a
  <2>3. \A l \in rest :
          \/ l = s.dest /\ val'[l] = 0
          \/ l \in held /\ val'[l] = val[l] /\ l # a
    <3>1. \A l \in Locals : val'[l] = IF l = s.dest THEN 0 ELSE val[l]
      BY <1>1, <2>1
    <3> QED BY <2>1, <3>1 DEF Leaves, a
  <2>4. \A l \in rest : val'[l] # Unset
    BY <1>1, <2>3 DEF Sound
  <2>5. ASSUME NoCopies, NEW l \in held, val[l] \in 1 .. Len(frees)
        PROVE  /\ frees[val[l]] = 0
               /\ \A k \in held : val[k] = val[l] => k = l
               /\ ParamsKept /\ val[l] <= CallersAllocs => l \in body.params \/ val[l] \in moved
    BY <2>5 DEF Sound, HeldLive
  <2>6. ASSUME NoCopies PROVE HeldLive(rest, val', frees', moved')
    <3> SUFFICES ASSUME NEW l \in rest, val'[l] \in 1 .. Len(frees')
                 PROVE  /\ frees'[val'[l]] = 0
                        /\ \A k \in rest : val'[k] = val'[l] => k = l
                        /\ ParamsKept /\ val'[l] <= CallersAllocs => l \in body.params \/ val'[l] \in moved'
      BY DEF HeldLive
    <3>1. val'[l] # 0
      BY <2>2
    <3>2. l \in held /\ val'[l] = val[l] /\ l # a /\ val[l] \in 1 .. Len(frees)
      BY <2>2, <2>3, <3>1
    <3>3. n # val[l]
      BY <2>1, <2>5, <2>6, <3>2
    <3>4. \A k \in rest : val'[k] = val'[l] => k = l
      BY <2>3, <2>5, <2>6, <3>1, <3>2
    <3> QED BY <2>1, <2>2, <2>5, <2>6, <3>2, <3>3, <3>4
  <2>7. ASSUME NoCopies PROVE FreedOnce(frees', moved')
    <3>1. \A m \in 1 .. Len(frees) :
            frees[m] <= 1 /\ (ParamsKept /\ m <= CallersAllocs /\ frees[m] = 1 => m \in moved)
      BY <2>7 DEF Sound, FreedOnce
    <3>2. n \in 1 .. Len(frees) =>
            frees[n] = 0 /\ (ParamsKept /\ n <= CallersAllocs => n \in moved)
      BY <2>1, <2>5, <2>7 DEF Takes, a
    <3> HIDE DEF n
    <3>3. \A m \in 1 .. Len(frees) :
            frees'[m] <= 1 /\ (ParamsKept /\ m <= CallersAllocs /\ frees'[m] = 1 => m \in moved)
      BY <2>2, <3>1, <3>2
    <3> QED BY <2>1, <2>2, <3>3 DEF FreedOnce
  <2> QED BY <2>4, <2>6, <2>7 DEF Sound
<1>5. CASE Write(s)
  <2> DEFINE a == s.args[1]
             Takers == s.op = "assign" /\ s.how \in {"use", "move"}
  <2>1. /\ s.op \in {"assign", "call"} /\ s.how # "free" /\ frees' = frees
        /\ val' = [val EXCEPT ![s.dest] = IF Takers THEN val[a] ELSE 0]
        /\ moved' = IF s.how = "move" THEN moved \cup ({val[a]} \cap Allocs) ELSE moved
    BY <1>2, <1>5 DEF Write, Assigned, IsMove, Stmt
  <2>2. Takers => a \in held
    BY DEF Takes
  <2>3. \A l \in rest :
          \/ l = s.dest /\ Takers /\ val'[l] = val[a]
          \/ l = s.dest /\ val'[l] = 0
          \/ l \in held /\ val'[l] = val[l] /\ (s.how = "move" => l # a)
    <3>1. \A l \in Locals : val'[l] = IF l = s.dest THEN (IF Takers THEN val[a] ELSE 0) ELSE val[l]
      BY <1>1, <2>1
    <3> QED BY <2>1, <3>1 DEF Leaves
  <2>4. NoCopies => (Takers => s.how = "move")
    BY DEF Takes
  <2> HIDE DEF a, Takers
  <2>5. \A l \in rest : val'[l] # Unset
    BY <1>1, <2>2, <2>3 DEF Sound
  <2>6. ASSUME NoCopies, NEW l \in held, val[l] \in 1 .. Len(frees)
        PROVE  /\ frees[val[l]] = 0
               /\ \A k \in held : val[k] = val[l] => k = l
               /\ ParamsKept /\ val[l] <= CallersAllocs => l \in body.params \/ val[l] \in moved
    BY <2>6 DEF Sound, HeldLive
  <2>7. moved \subseteq moved'
    BY <2>1
  <2>8. ASSUME NoCopies PROVE HeldLive(rest, val', frees', moved')
    <3> SUFFICES ASSUME NEW l \in rest, val'[l] \in 1 .. Len(frees)
                 PROVE  /\ frees[val'[l]] = 0
                        /\ \A k \in rest : val'[k] = val'[l] => k = l
                        /\ ParamsKept /\ val'[l] <= CallersAllocs => l \in body.params \/ val'[l] \in moved'
      BY <2>1 DEF HeldLive
    <3>1. val'[l] # 0
      OBVIOUS
    <3>2. CASE l = s.dest /\ Takers /\ val'[l] = val[a]
      <4>1. a \in held /\ val[a] \in 1 .. Len(frees) /\ s.how = "move" /\ val[a] \in moved'
        BY <1>1, <2>1, <2>2, <2>4, <2>8, <3>2
      <4>2. \A k \in rest : val'[k] = val'[l] => k = l
        BY <2>3, <2>6, <2>8, <3>1, <3>2, <4>1
      <4> QED BY <2>6, <2>8, <3>2, <4>1, <4>2
    <3>3. CASE l \in held /\ val'[l] = val[l] /\ (s.how = "move" => l # a)
      <4>1. \A k \in rest : val'[k] = val'[l] => k = l
        BY <2>2, <2>3, <2>4, <2>6, <2>8, <3>1, <3>3
      <4> QED BY <2>6, <2>7, <2>8, <3>3, <4>1
    <3> QED BY <2>3, <3>1, <3>2, <3>3
  <2>9. ASSUME NoCopies PROVE FreedOnce(frees', moved')
    BY <2>1, <2>7, <2>9 DEF Sound, FreedOnce
  <2> QED BY <2>5, <2>8, <2>9 DEF Sound
<1>6. CASE Pass(s)
  <2>1. val' = val /\ frees' = frees /\ moved' = moved /\ s.op \notin {"assign", "call"}
    BY <1>6 DEF Pass
  <2>2. rest \subseteq held
    BY <2>1 DEF Leaves
  <2> QED BY <2>1, <2>2 DEF Sound, HeldLive
<1> QED BY <1>3, <1>4, <1>5, <1>6 DEF HeapStep
-----------------------------------------------------------------------------
(* What is held where: in the body, what the fixpoint says is Init, except *)
(* a local just freed, which gets new memory next; in the releases, what   *)
(* they are still to free.                                                 *)
JustFreed(b, n, l) ==
  n > 1 /\ body.stmts[b][n - 1].how = "free" /\ body.stmts[b][n - 1].args[1] = l

HeldAt(b, n) ==
  {l \in Locals :
     IF n <= Len(body.stmts[b]) + 1
     THEN point[b][n][l] = "Init" /\ ~JustFreed(b, n, l)
     ELSE \E k \in DOMAIN code[b] :
            n <= k /\ code[b][k].how = "free" /\ code[b][k].dest = l}

(* A statement of the body takes what is held, and leaves no more.         *)
LEMMA BodyStmtHeld ==
  ASSUME O!RunInv, body \in Bodies, DropConstants, NEW b \in Blocks,
         Solves(in_states, point, b), NEW n \in DOMAIN body.stmts[b]
  PROVE  /\ body.stmts[b][n] \in Stmt
         /\ Takes(body.stmts[b][n], HeldAt(b, n))
         /\ Leaves(body.stmts[b][n], HeldAt(b, n), HeldAt(b, n + 1))
<1> DEFINE L == Len(body.stmts[b])
           s == body.stmts[b][n]
           st == point[b][n]
<1>1. /\ L \in Nat /\ DOMAIN body.stmts[b] = 1 .. L /\ n \in 1 .. L /\ s \in Stmt
  BY CheckedTypes, ElementOfSeq
<1>2. st \in StateMap /\ point[b][n + 1] = Transfer(s, st) /\ Misuses(s, st) = {}
  BY DEF Solves
<1>3. /\ s.args \in Seq(Locals) /\ s.dest \in Locals
      /\ s.how \in {"use", "move", "free"} => Len(s.args) = 1
      /\ s.how \in {"use", "move"} => s.op = "assign"
      /\ s.how \in {"alloc", "free"} => s.op = "call"
  BY <1>1 DEF Stmt, Rvalues, Callees
<1>4. s.how \in {"use", "move", "free"} => s.args[1] \in Locals /\ s.args[1] \in Reads(s)
  BY <1>3, ElementOfSeq DEF Reads
<1>5. \A l : JustFreed(b, n, l) => s.how = "alloc" /\ s.dest = l
  <2>1. GivenAnew(body)
    BY DEF DropConstants
  <2>2. n > 1 => n - 1 \in DOMAIN body.stmts[b] /\ (n - 1) + 1 = n
    BY <1>1
  <2> QED BY <2>1, <2>2 DEF GivenAnew, JustFreed
<1>6. Takes(s, HeldAt(b, n))
  <2>1. s.how \in {"use", "move", "free"} => s.args[1] \in HeldAt(b, n)
    <3>1. \A l \in Reads(s) : st[l] = "Init"
      BY <1>2 DEF Misuses
    <3>2. n <= L + 1
      BY <1>1
    <3> QED BY <1>4, <1>5, <3>1, <3>2 DEF HeldAt
  <2>2. (NoCopies => s.how # "use") /\ (ParamsKept /\ s.how = "free" => s.args[1] \notin body.params)
    BY DEF NoCopies, ParamsKept
  <2> QED BY <2>1, <2>2 DEF Takes
<1>7. Leaves(s, HeldAt(b, n), HeldAt(b, n + 1))
  <2> SUFFICES ASSUME NEW l \in HeldAt(b, n + 1), ~(l = s.dest /\ s.op \in {"assign", "call"})
               PROVE  /\ l \in HeldAt(b, n)
                      /\ s.op \in {"assign", "call"} => l # s.dest
                      /\ s.how \in {"move", "free"} => l # s.args[1]
    BY DEF Leaves
  <2>1. l \in Locals /\ Transfer(s, st)[l] = "Init" /\ ~JustFreed(b, n + 1, l)
    BY <1>1, <1>2 DEF HeldAt
  <2>2. s.how = "free" => l # s.args[1]
    <3>1. n + 1 > 1 /\ (n + 1) - 1 = n
      BY <1>1
    <3> QED BY <2>1, <3>1 DEF JustFreed
  <2>3. st[l] = "Init" /\ (s.how = "move" => l \notin Reads(s))
    <3>1. CASE s.op \in {"assign", "call"}
      <4>1. MoveOut(s, st)[l] = "Init"
        BY <1>3, <2>1, <3>1 DEF Transfer, MoveOut
      <4> QED BY <1>3, <2>1, <4>1 DEF MoveOut, IsMove
    <3>2. CASE s.op \notin {"assign", "call"}
      BY <1>2, <1>3, <2>1, <3>2 DEF Transfer, StateMap
    <3> QED BY <3>1, <3>2
  <2>4. ~JustFreed(b, n, l)
    BY <1>3, <1>5
  <2>5. n <= L + 1
    BY <1>1
  <2>6. l \in HeldAt(b, n)
    BY <2>1, <2>3, <2>4, <2>5 DEF HeldAt
  <2> QED BY <1>4, <2>2, <2>3, <2>6
<1> QED BY <1>1, <1>6, <1>7

(* So does a statement the pass appended.                                  *)
LEMMA ReleaseHeld ==
  ASSUME O!RunInv, body \in Bodies, DropConstants, NEW b \in Blocks,
         Solves(in_states, point, b), code[b] = body.stmts[b] \o Releases(b),
         NEW n \in DOMAIN code[b], n \notin DOMAIN body.stmts[b]
  PROVE  /\ code[b][n] \in Stmt
         /\ Takes(code[b][n], HeldAt(b, n))
         /\ Leaves(code[b][n], HeldAt(b, n), HeldAt(b, n + 1))
<1> DEFINE L == Len(body.stmts[b])
           R == Releases(b)
           s == code[b][n]
<1>1. /\ L \in Nat /\ DOMAIN body.stmts[b] = 1 .. L /\ IsSeq(body.stmts[b])
      /\ IsSeq(R) /\ Distinct(R)
      /\ \A k \in DOMAIN R : \E l \in Locals : Dies(R[k], l) \/ Frees(R[k], b, l)
  BY CheckedTypes, ReleasesAre
<1>2. Joins(code[b], body.stmts[b], R) /\ Len(R) \in Nat /\ DOMAIN R = 1 .. Len(R)
  BY <1>1, Joined, IsSeqLen
<1>3. \A k \in DOMAIN code[b] :
        k \notin DOMAIN body.stmts[b] =>
          k - L \in DOMAIN R /\ k = L + (k - L) /\ code[b][k] = R[k - L] /\ L < k /\ k \in Nat
  <2> TAKE k \in DOMAIN code[b]
  <2> HAVE k \notin DOMAIN body.stmts[b]
  <2>1. k - L \in DOMAIN R /\ k = L + (k - L) /\ code[b][k] = R[k - L]
    BY <1>2 DEF Joins
  <2>2. DOMAIN code[b] = 1 .. Len(code[b]) /\ Len(code[b]) \in Nat
    BY <1>2, IsSeqLen DEF Joins
  <2>3. k \in Nat /\ k - L >= 1
    BY <1>2, <2>1, <2>2
  <2> HIDE DEF R
  <2> QED BY <1>1, <2>1, <2>3
<1>4. OutState(b) = point[b][L + 1]
  BY OutIsRecorded
<1> HIDE DEF R
<1>5. \A l : ~JustFreed(b, L + 1, l)
  <2>1. GivenAnew(body)
    BY DEF DropConstants
  <2>2. L + 1 > 1 => (L + 1) - 1 \in DOMAIN body.stmts[b] /\ ((L + 1) - 1) + 1 \notin DOMAIN body.stmts[b]
    BY <1>1
  <2> QED BY <2>1, <2>2 DEF GivenAnew, JustFreed
<1>6. PICK l \in Locals : Dies(s, l) \/ Frees(s, b, l)
  BY <1>1, <1>3
<1>7. /\ s \in Stmt /\ s.how \in {"none", "free"} /\ s.op \in {"dead", "call"}
      /\ s.how = "free" => s.args[1] = l /\ s.dest = l /\ l \notin body.params /\ OutState(b)[l] = "Init"
      /\ s.how = "none" => s.op = "dead"
  <2>1. CASE Dies(s, l)
    BY <1>6, <2>1 DEF Dies, StorageDead, Stmt, Rvalues, Callees
  <2>2. CASE Frees(s, b, l)
    <3>1. <<l>> \in Seq(Locals) /\ Len(<<l>>) = 1
      OBVIOUS
    <3> QED BY <2>2, <3>1 DEF Frees, Call, Stmt, Rvalues, Callees
  <2> QED BY <1>6, <2>1, <2>2
<1>8. \A j, k \in DOMAIN code[b] :
        /\ j \notin DOMAIN body.stmts[b] /\ k \notin DOMAIN body.stmts[b]
        /\ code[b][j].how = "free" /\ code[b][k].how = "free" /\ code[b][j].dest = code[b][k].dest
        => j = k
  <2> TAKE j \in DOMAIN code[b], k \in DOMAIN code[b]
  <2> HAVE /\ j \notin DOMAIN body.stmts[b] /\ k \notin DOMAIN body.stmts[b]
           /\ code[b][j].how = "free" /\ code[b][k].how = "free" /\ code[b][j].dest = code[b][k].dest
  <2>1. /\ j - L \in DOMAIN R /\ j = L + (j - L) /\ code[b][j] = R[j - L]
        /\ k - L \in DOMAIN R /\ k = L + (k - L) /\ code[b][k] = R[k - L]
    BY <1>3
  <2>2. \A x, y \in DOMAIN R :
          R[x].how = "free" /\ R[y].how = "free" /\ R[x].dest = R[y].dest => x = y
    BY <1>1 DEF Distinct
  <2>3. j - L = k - L
    BY <2>1, <2>2
  <2> QED BY <2>1, <2>3
<1>9. \A k \in DOMAIN code[b] :
        k \notin DOMAIN body.stmts[b] /\ code[b][k].how = "free" =>
          OutState(b)[code[b][k].dest] = "Init"
  <2> TAKE k \in DOMAIN code[b]
  <2> HAVE k \notin DOMAIN body.stmts[b] /\ code[b][k].how = "free"
  <2>1. k - L \in DOMAIN R /\ code[b][k] = R[k - L]
    BY <1>3
  <2>2. PICK x \in Locals : Dies(R[k - L], x) \/ Frees(R[k - L], b, x)
    BY <1>1, <2>1
  <2> QED BY <2>1, <2>2 DEF Dies, Frees, StorageDead, Call
<1>10. n \in Nat /\ L < n /\ \A k \in DOMAIN code[b] : n <= k => k \notin DOMAIN body.stmts[b]
  BY <1>1, <1>3
<1> HIDE DEF L, s
<1>11. Takes(s, HeldAt(b, n))
  <2>1. s.how = "free" => l \in HeldAt(b, n)
    <3>1. CASE n = L + 1
      BY <1>4, <1>5, <1>7, <3>1 DEF HeldAt, L
    <3>2. CASE n # L + 1
      <4>1. ~(n <= L + 1) /\ n <= n
        BY <1>1, <1>10, <3>2 DEF L
      <4> QED BY <1>7, <4>1 DEF HeldAt, L, s
    <3> QED BY <3>1, <3>2
  <2> QED BY <1>7, <2>1 DEF Takes
<1>12. Leaves(s, HeldAt(b, n), HeldAt(b, n + 1))
  <2> SUFFICES ASSUME NEW x \in HeldAt(b, n + 1)
               PROVE  x \in HeldAt(b, n) /\ (s.how = "free" => x # s.dest)
    BY <1>7 DEF Leaves
  <2>1. ~(n + 1 <= L + 1)
    BY <1>1, <1>10 DEF L
  <2>2. PICK k \in DOMAIN code[b] : n + 1 <= k /\ code[b][k].how = "free" /\ code[b][k].dest = x
    BY <2>1 DEF HeldAt, L
  <2>3. k \in Nat /\ n <= k /\ n # k /\ k \notin DOMAIN body.stmts[b]
    <3>1. IsSeq(code[b])
      BY <1>2 DEF Joins
    <3>2. Len(code[b]) \in Nat /\ DOMAIN code[b] = 1 .. Len(code[b])
      BY <3>1, IsSeqLen
    <3>3. k \in Nat
      BY <3>2
    <3>4. n <= k /\ n # k
      BY <1>10, <2>2, <3>3
    <3> QED BY <1>10, <3>3, <3>4
  <2>4. s.how = "free" => x # s.dest
    BY <1>8, <2>2, <2>3 DEF s
  <2>5. x \in HeldAt(b, n)
    <3>1. CASE n = L + 1
      BY <1>4, <1>5, <1>9, <2>2, <2>3, <3>1 DEF HeldAt, L
    <3>2. CASE n # L + 1
      <4>1. ~(n <= L + 1)
        BY <1>1, <1>10, <3>2 DEF L
      <4> QED BY <2>2, <2>3, <4>1 DEF HeldAt, L
    <3> QED BY <3>1, <3>2
  <2> QED BY <2>4, <2>5
<1> QED BY <1>7, <1>11, <1>12 DEF s

(* A jump leaves no more held than the end of the block it comes from, and *)
(* nothing was appended to that block.                                     *)
LEMMA JumpHeld ==
  ASSUME O!RunInv, NEW b \in Blocks, NEW t \in Blocks,
         Solves(in_states, point, b), Solves(in_states, point, t),
         body \in Bodies, DropConstants,
         NEW n \in DOMAIN Successors(body.term[b]), Successors(body.term[b])[n] = t
  PROVE  /\ HeldAt(t, 1) \subseteq HeldAt(b, Len(body.stmts[b]) + 1)
         /\ Releases(b) = <<>>
<1> DEFINE L == Len(body.stmts[b])
<1>1. L \in Nat /\ DOMAIN body.stmts[b] = 1 .. L /\ Len(body.stmts[t]) \in Nat
  BY CheckedTypes
<1>2. Follows(in_states[t], point[b][L + 1]) /\ point[t][1] = in_states[t]
  BY DEF Solves
<1>3. \A l : ~JustFreed(b, L + 1, l)
  <2>1. GivenAnew(body)
    BY DEF DropConstants
  <2>2. L + 1 > 1 => (L + 1) - 1 \in DOMAIN body.stmts[b] /\ ((L + 1) - 1) + 1 \notin DOMAIN body.stmts[b]
    BY <1>1
  <2> QED BY <2>1, <2>2 DEF GivenAnew, JustFreed
<1>4. 1 <= Len(body.stmts[t]) + 1 /\ L + 1 <= L + 1
  BY <1>1
<1>5. body.term[b].kind # "return"
  BY DEF Successors
<1> QED BY <1>2, <1>3, <1>4, <1>5 DEF HeldAt, Follows, Releases
-----------------------------------------------------------------------------
(* The inductive invariant: while either loop runs the program stands at   *)
(* its entry; the second knows no less than the first, and where the       *)
(* program is what is held is live.                                        *)
DropInv ==
  /\ O!RunInv
  /\ body \in Bodies
  /\ phase \in {"check", "flow", "run"}
  /\ HeapTyped(val, frees, moved)
  /\ phase # "run" => /\ at = Entry /\ pos = 1 /\ code = body.stmts
                      /\ Sound(body.params, val, frees, moved)
  /\ phase # "check" => diags = {}
  /\ phase = "flow" => \E I, M : Solution(I, M) /\ Above(I, M)
  /\ phase = "run" => /\ pc = "done" /\ at \in Blocks /\ pos \in 1 .. Len(RunCode) + 1
                      /\ code = [b \in Blocks |-> body.stmts[b] \o Releases(b)]
                      /\ \A l \in Locals : in_states[at][l] # "absent"
                      /\ Sound(HeldAt(at, pos), val, frees, moved)

(* It holds at the start, where each parameter is held.                    *)
LEMMA DropInvInit ==
  ASSUME DropConstants, DropInit
  PROVE  DropInv
<1> DEFINE P == ParamOrder(body)
<1>1. O!RunInv /\ body \in Bodies
  BY InitChecked DEF DropInit, Init
<1>2. /\ IsSeq(P) /\ CallersAllocs \in Nat /\ DOMAIN P = 1 .. CallersAllocs
      /\ Elems(P) = body.params /\ body.params \in SUBSET Locals
  <2>1. Elems(P) = Locals \cap body.params /\ body.params \in SUBSET Locals
    BY <1>1, CallersCounted, CheckedTypes
  <2> QED BY <2>1, CallersCounted
<1>3. CallersAllocs <= MaxAllocs /\ MaxAllocs \in Nat /\ Unset \notin Nat
  BY <1>1 DEF DropConstants, CallersAllocs
<1>4. frees = [n \in 1 .. CallersAllocs |-> 0] /\ moved = {}
  BY DEF DropInit, CallersAllocs
<1>5. /\ frees \in Seq(Nat) /\ Len(frees) = CallersAllocs
      /\ \A n \in 1 .. CallersAllocs : frees[n] = 0
  <2>1. frees \in [1 .. CallersAllocs -> Nat]
    BY <1>4
  <2> QED BY <1>2, <1>4, <2>1, SeqDef, LenProperties
<1>6. /\ val = [l \in Locals |-> val[l]]
      /\ \A l \in body.params : val[l] \in 1 .. CallersAllocs /\ P[val[l]] = l
      /\ \A l \in Locals \ body.params : val[l] = Unset
  <2>1. val = [l \in Locals |-> IF l \in body.params
                                THEN CHOOSE n \in DOMAIN P : P[n] = l ELSE Unset]
    BY DEF DropInit
  <2>2. \A l \in body.params : \E n \in DOMAIN P : P[n] = l
    BY <1>2 DEF Elems
  <2> HIDE DEF P
  <2>3. \A l \in Locals : val[l] = IF l \in body.params
                                  THEN CHOOSE n \in DOMAIN P : P[n] = l ELSE Unset
    BY <2>1
  <2>4. \A l \in body.params :
          (CHOOSE n \in DOMAIN P : P[n] = l) \in DOMAIN P /\ P[CHOOSE n \in DOMAIN P : P[n] = l] = l
    BY <2>2
  <2>5. val = [l \in Locals |-> val[l]]
    BY <2>1
  <2> QED BY <1>2, <2>3, <2>4, <2>5
<1> HIDE DEF P
<1>7. HeapTyped(val, frees, moved)
  <2>1. val \in [Locals -> (1 .. Len(frees)) \cup {0, Unset}]
    <3>1. \A l \in Locals : val[l] \in (1 .. Len(frees)) \cup {0, Unset}
      BY <1>5, <1>6
    <3> QED BY <1>6, <3>1
  <2>2. CallersAllocs <= Len(frees) /\ Len(frees) <= MaxAllocs /\ moved \subseteq 1 .. Len(frees)
    BY <1>2, <1>3, <1>4, <1>5
  <2> QED BY <1>5, <2>1, <2>2 DEF HeapTyped
<1>8. Sound(body.params, val, frees, moved)
  <2>1. \A l \in body.params : val[l] # Unset
    <3>1. \A n \in 1 .. CallersAllocs : n \in Nat
      BY <1>2
    <3> QED BY <1>3, <1>6, <3>1
  <2>2. HeldLive(body.params, val, frees, moved)
    <3>1. \A l, k \in body.params : val[k] = val[l] => k = l
      BY <1>6
    <3> QED BY <1>5, <1>6, <3>1 DEF HeldLive
  <2>3. FreedOnce(frees, moved)
    BY <1>5 DEF FreedOnce
  <2> QED BY <2>1, <2>2, <2>3 DEF Sound
<1> QED BY <1>1, <1>7, <1>8 DEF DropInv, DropInit

(* What is sound stays so when less is held.                               *)
LEMMA SoundLess ==
  ASSUME NEW held, NEW rest, rest \subseteq held, Sound(held, val, frees, moved)
  PROVE  Sound(rest, val, frees, moved)
BY DEF Sound, HeldLive

(* The releases depend on the body and its maps alone.                     *)
LEMMA SameCode ==
  ASSUME UNCHANGED <<body, in_states>>
  PROVE  [b \in Blocks |-> body.stmts[b] \o Releases(b)]'
           = [b \in Blocks |-> body.stmts[b] \o Releases(b)]
<1>1. ASSUME NEW b PROVE Releases(b)' = Releases(b)
  <2>1. OutState(b)' = OutState(b)
    BY DEF OutState
  <2>2. HeapOwners(body)' = HeapOwners(body)
    BY DEF HeapOwners
  <2>3. ASSUME NEW l PROVE Release(b, l)' = Release(b, l)
    BY <2>1, <2>2 DEF Release
  <2> QED BY <2>3 DEF Releases
<1> QED BY <1>1

(* A step of either loop keeps it.                                         *)
LEMMA LoopKeepsDropInv ==
  ASSUME DropConstants, DropInv, Loop
  PROVE  DropInv'
<1>1. /\ Next /\ Record /\ phase \in {"check", "flow"}
      /\ UNCHANGED <<phase, code, at, pos, val, frees, moved>>
  BY DEF Loop, runVars
<1>2. body' = body
  BY <1>1 DEF Next, PopBlock, TransferStmt, SkipEdge, Propagate, EndBlock, Finish
<1>3. O!RunInv'
  BY <1>1, NextKeepsChecked DEF DropInv
<1>4. phase = "flow" => diags' = {} /\ \E I, M : Solution(I, M)' /\ Above(I, M)'
  <2> HAVE phase = "flow"
  <2>1. PICK I, M : Solution(I, M) /\ Above(I, M)
    BY DEF DropInv
  <2>2. O!RunInv /\ diags = {}
    BY DEF DropInv
  <2>3. diags' = {} /\ Solution(I, M)' /\ Above(I, M)'
    BY <1>1, <2>1, <2>2, NextKeepsAbove
  <2> QED BY <2>3
<1>5. HeapTyped(val, frees, moved)'
  BY <1>1, <1>2 DEF DropInv, HeapTyped, CallersAllocs
<1>6. Sound(body.params, val, frees, moved)'
  <2>1. Sound(body.params, val, frees, moved)
    BY <1>1 DEF DropInv
  <2> QED BY <1>1, <1>2, <2>1
       DEF Sound, HeldLive, FreedOnce, NoCopies, ParamsKept, CallersAllocs
<1> QED BY <1>1, <1>2, <1>3, <1>4, <1>5, <1>6 DEF DropInv

(* The start of the second loop: the first has left a solution.            *)
LEMMA StartKeepsDropInv ==
  ASSUME DropConstants, DropInv, StartElaboration
  PROVE  DropInv'
<1>1. /\ phase = "check" /\ pc = "done" /\ diags = {} /\ phase' = "flow" /\ Restart
      /\ UNCHANGED <<code, at, pos, val, frees, moved, body, diags>>
  BY DEF StartElaboration, runVars, Restart
<1>2. O!RunInv /\ body \in Bodies
  BY DEF DropInv
<1>3. O!RunInv'
  BY <1>1, <1>2, RestartChecked
<1>4. Solution(in_states, point)
  BY <1>1, <1>2, Fixpoint
<1>5. \E I, M : Solution(I, M)' /\ Above(I, M)'
  <2>1. \A I, M : Solution(I, M) => Solution(I, M)' /\ Above(I, M)'
    BY <1>1, <1>2, RestartAbove
  <2>2. \E I, M : Solution(I, M)
    BY <1>4
  <2> QED BY <2>1, <2>2
<1>6. HeapTyped(val, frees, moved)'
  BY <1>1 DEF DropInv, HeapTyped, CallersAllocs
<1>7. Sound(body.params, val, frees, moved)'
  <2>1. Sound(body.params, val, frees, moved)
    BY <1>1 DEF DropInv
  <2> QED BY <1>1, <2>1
       DEF Sound, HeldLive, FreedOnce, NoCopies, ParamsKept, CallersAllocs
<1> QED BY <1>1, <1>2, <1>3, <1>5, <1>6, <1>7 DEF DropInv

(* The start of the program: the second loop has left one too.             *)
LEMMA InsertKeepsDropInv ==
  ASSUME DropConstants, DropInv, InsertReleases
  PROVE  DropInv'
<1>1. /\ phase = "flow" /\ pc = "done" /\ phase' = "run"
      /\ code' = [b \in Blocks |-> body.stmts[b] \o Releases(b)]
      /\ UNCHANGED <<vars, point>> /\ UNCHANGED <<at, pos, val, frees, moved>>
      /\ UNCHANGED <<body, pc, in_states, diags>>
  BY DEF InsertReleases, runVars, vars
<1>2. O!RunInv /\ diags = {} /\ at = Entry /\ pos = 1 /\ Entry \in Blocks
      /\ Sound(body.params, val, frees, moved)
  BY <1>1, CheckedTypes DEF DropInv
<1>3. O!RunInv'
  BY <1>1, <1>2, StutterKeepsChecked
<1>4. Solution(in_states, point)
  BY <1>1, <1>2, Fixpoint
<1>5. \A l \in Locals : in_states[Entry][l] # "absent"
  BY <1>4 DEF Solution
<1>6. HeldAt(Entry, 1)' \subseteq body.params
  <2> SUFFICES ASSUME NEW l \in HeldAt(Entry, 1)' PROVE l \in body.params
    OBVIOUS
  <2>1. 1 <= Len(body.stmts[Entry]) + 1
    BY <1>2, CheckedTypes
  <2>2. l \in Locals /\ point[Entry][1][l] = "Init"
    BY <1>1, <2>1 DEF HeldAt, JustFreed
  <2>3. Solves(in_states, point, Entry)
    BY <1>2, <1>4, <1>5, <2>2 DEF Solution
  <2> QED BY <1>4, <2>2, <2>3 DEF Solution, Solves
<1>7. Sound(HeldAt(Entry, 1), val, frees, moved)'
  <2>1. Sound(HeldAt(Entry, 1)', val, frees, moved)
    BY <1>2, <1>6, SoundLess
  <2> QED BY <1>1, <2>1 DEF Sound, HeldLive, FreedOnce, NoCopies, ParamsKept, CallersAllocs
<1>8. HeapTyped(val, frees, moved)'
  BY <1>1 DEF DropInv, HeapTyped, CallersAllocs
<1>9. code' = [b \in Blocks |-> body.stmts[b] \o Releases(b)]'
  BY <1>1, SameCode
<1>10. pos' \in 1 .. Len(RunCode') + 1
  <2>1. code'[Entry] = body.stmts[Entry] \o Releases(Entry)
    BY <1>1, <1>2
  <2>2. Len(body.stmts[Entry] \o Releases(Entry)) \in Nat
    <3>1. IsSeq(body.stmts[Entry]) /\ IsSeq(Releases(Entry))
      BY <1>2, CheckedTypes, ReleasesAre
    <3>2. IsSeq(body.stmts[Entry] \o Releases(Entry))
      BY <3>1, Concatenated
    <3> QED BY <3>2, IsSeqLen
  <2> QED BY <1>1, <1>2, <2>1, <2>2 DEF RunCode
<1> QED BY <1>1, <1>2, <1>3, <1>5, <1>7, <1>8, <1>9, <1>10 DEF DropInv

(* Where the program is: the code of its block, and the next statement.    *)
LEMMA RunningAt ==
  ASSUME DropConstants, DropInv, phase = "run"
  PROVE  /\ O!RunInv /\ body \in Bodies /\ at \in Blocks /\ pos \in Nat \ {0}
         /\ Solution(in_states, point) /\ code[at] = body.stmts[at] \o Releases(at)
         /\ \A l \in Locals : in_states[at][l] # "absent" /\ Solves(in_states, point, at)
         /\ IsSeq(RunCode) /\ Len(RunCode) \in Nat /\ DOMAIN RunCode = 1 .. Len(RunCode)
         /\ \A n \in DOMAIN body.stmts[at] : n \in DOMAIN RunCode /\ RunCode[n] = body.stmts[at][n]
<1>1. O!RunInv /\ body \in Bodies /\ at \in Blocks /\ pos \in 1 .. Len(RunCode) + 1
      /\ code[at] = body.stmts[at] \o Releases(at) /\ pc = "done" /\ diags = {}
      /\ \A l \in Locals : in_states[at][l] # "absent"
  BY DEF DropInv
<1>2. Solution(in_states, point)
  BY <1>1, Fixpoint
<1>3. Joins(RunCode, body.stmts[at], Releases(at))
  <2>1. IsSeq(body.stmts[at]) /\ IsSeq(Releases(at))
    BY <1>1, CheckedTypes, ReleasesAre
  <2> QED BY <1>1, <2>1, Joined DEF RunCode
<1>4. IsSeq(RunCode)
  BY <1>3 DEF Joins
<1>5. Len(RunCode) \in Nat /\ DOMAIN RunCode = 1 .. Len(RunCode)
  BY <1>4, IsSeqLen
<1>6. \A l \in Locals : Solves(in_states, point, at)
  BY <1>1, <1>2 DEF Solution
<1>7. \A n \in DOMAIN body.stmts[at] : n \in DOMAIN RunCode /\ RunCode[n] = body.stmts[at][n]
  BY <1>3 DEF Joins
<1>8. pos \in Nat \ {0}
  BY <1>1, <1>5
<1> QED BY <1>1, <1>2, <1>4, <1>5, <1>6, <1>7, <1>8

(* What the statement the program is at takes and leaves.                  *)
LEMMA RunningHeld ==
  ASSUME DropConstants, DropInv, phase = "run", pos \in DOMAIN RunCode
  PROVE  /\ RunCode[pos] \in Stmt
         /\ Takes(RunCode[pos], HeldAt(at, pos))
         /\ Leaves(RunCode[pos], HeldAt(at, pos), HeldAt(at, pos + 1))
<1>1. /\ O!RunInv /\ body \in Bodies /\ at \in Blocks /\ code[at] = body.stmts[at] \o Releases(at)
      /\ \A l \in Locals : Solves(in_states, point, at)
      /\ \A n \in DOMAIN body.stmts[at] : RunCode[n] = body.stmts[at][n]
  BY RunningAt
<1>2. Locals # {}
  <2>1. CASE pos \in DOMAIN body.stmts[at]
    <3>1. body.stmts[at] \in Seq(Stmt)
      BY <1>1, CheckedTypes
    <3>2. body.stmts[at][pos] \in Stmt
      BY <2>1, <3>1, ElementOfSeq
    <3> QED BY <3>2 DEF Stmt
  <2>2. CASE pos \notin DOMAIN body.stmts[at]
    <3>1. IsSeq(body.stmts[at]) /\ IsSeq(Releases(at))
      BY <1>1, CheckedTypes, ReleasesAre
    <3>2. Joins(RunCode, body.stmts[at], Releases(at))
      BY <1>1, <3>1, Joined DEF RunCode
    <3>3. pos - Len(body.stmts[at]) \in DOMAIN Releases(at)
      BY <2>2, <3>2 DEF Joins
    <3> QED BY <3>3, ReleasesAre
  <2> QED BY <2>1, <2>2
<1>3. Solves(in_states, point, at)
  BY <1>1, <1>2
<1>4. CASE pos \in DOMAIN body.stmts[at]
  BY <1>1, <1>3, <1>4, BodyStmtHeld
<1>5. CASE pos \notin DOMAIN body.stmts[at]
  BY <1>1, <1>3, <1>5, ReleaseHeld DEF RunCode
<1> QED BY <1>4, <1>5

(* A statement of the program keeps it.                                    *)
LEMMA RunStmtKeepsDropInv ==
  ASSUME DropConstants, DropInv, RunStmt
  PROVE  DropInv'
<1>1. /\ phase = "run" /\ pos <= Len(RunCode) /\ HeapStep(RunCode[pos]) /\ pos' = pos + 1
      /\ UNCHANGED <<vars, point>> /\ UNCHANGED <<phase, code, at>>
      /\ UNCHANGED <<body, pc, in_states, diags>>
  BY DEF RunStmt, HeapStep, vars
<1>2. /\ O!RunInv /\ body \in Bodies /\ at \in Blocks /\ pos \in DOMAIN RunCode
      /\ pos + 1 \in 1 .. Len(RunCode) + 1
  BY <1>1, RunningAt
<1>3. O!RunInv'
  BY <1>1, <1>2, StutterKeepsChecked
<1>4. RunCode[pos] \in Stmt /\ Takes(RunCode[pos], HeldAt(at, pos))
      /\ Leaves(RunCode[pos], HeldAt(at, pos), HeldAt(at, pos + 1))
  BY <1>1, <1>2, RunningHeld
<1>5. HeapTyped(val, frees, moved) /\ Sound(HeldAt(at, pos), val, frees, moved)
  BY <1>1 DEF DropInv
<1>6. HeldAt(at, pos) \in SUBSET Locals /\ HeldAt(at, pos + 1) \in SUBSET Locals
  BY DEF HeldAt
<1>7. HeapTyped(val', frees', moved')
  BY <1>1, <1>4, <1>5, StmtKeepsTyped
<1>8. Sound(HeldAt(at, pos + 1), val', frees', moved')
  BY <1>1, <1>4, <1>5, <1>6, StmtKeepsSound
<1>9. HeapTyped(val, frees, moved)'
  BY <1>1, <1>7 DEF HeapTyped, CallersAllocs
<1>10. HeldAt(at, pos)' = HeldAt(at, pos + 1)
  BY <1>1 DEF HeldAt, JustFreed
<1>11. Sound(HeldAt(at, pos), val, frees, moved)'
  <2>1. Sound(HeldAt(at, pos)', val', frees', moved')
    BY <1>8, <1>10
  <2> QED BY <1>1, <2>1 DEF Sound, HeldLive, FreedOnce, NoCopies, ParamsKept, CallersAllocs
<1>12. code' = [b \in Blocks |-> body.stmts[b] \o Releases(b)]'
  BY <1>1, SameCode DEF DropInv
<1>13. pos' \in 1 .. Len(RunCode') + 1 /\ pc' = "done" /\ at' \in Blocks /\ phase' = "run"
       /\ \A l \in Locals : in_states'[at'][l] # "absent"
  BY <1>1, <1>2 DEF DropInv, RunCode
<1>14. body' \in Bodies /\ (phase' # "check" => diags' = {})
  BY <1>1, <1>2 DEF DropInv
<1> QED BY <1>3, <1>9, <1>11, <1>12, <1>13, <1>14 DEF DropInv

(* A jump keeps it.                                                        *)
LEMMA RunJumpKeepsDropInv ==
  ASSUME DropConstants, DropInv, RunJump
  PROVE  DropInv'
<1>1. /\ phase = "run" /\ pos = Len(RunCode) + 1 /\ pos' = 1
      /\ UNCHANGED <<vars, point>> /\ UNCHANGED <<phase, code, val, frees, moved>>
      /\ UNCHANGED <<body, pc, in_states, diags>>
  BY DEF RunJump, vars
<1>2. PICK n \in DOMAIN Successors(body.term[at]) :
        at' = Successors(body.term[at])[n] /\ at' \in Blocks
  BY DEF RunJump
<1>3. /\ O!RunInv /\ body \in Bodies /\ at \in Blocks /\ Solution(in_states, point)
      /\ code[at] = body.stmts[at] \o Releases(at)
      /\ \A l \in Locals : Solves(in_states, point, at)
  BY <1>1, RunningAt
<1>4. O!RunInv'
  BY <1>1, <1>3, StutterKeepsChecked
<1>5. HeapTyped(val, frees, moved) /\ Sound(HeldAt(at, pos), val, frees, moved)
      /\ code = [b \in Blocks |-> body.stmts[b] \o Releases(b)] /\ pc = "done" /\ diags = {}
  BY <1>1 DEF DropInv
<1>6. \A l \in Locals : in_states[at'][l] # "absent"
  <2> TAKE l \in Locals
  <2>1. Solves(in_states, point, at)
    BY <1>3
  <2> QED BY <1>2, <2>1 DEF Solves, Follows
<1>7. HeldAt(at', 1) \subseteq HeldAt(at, pos)
  <2> SUFFICES ASSUME NEW l \in HeldAt(at', 1) PROVE l \in HeldAt(at, pos)
    OBVIOUS
  <2>1. l \in Locals
    BY DEF HeldAt
  <2>2. Solves(in_states, point, at) /\ Solves(in_states, point, at')
    BY <1>2, <1>3, <1>6, <2>1 DEF Solution
  <2>3. /\ HeldAt(at', 1) \subseteq HeldAt(at, Len(body.stmts[at]) + 1)
        /\ Releases(at) = <<>>
    BY <1>2, <1>3, <2>2, JumpHeld
  <2>4. Len(RunCode) = Len(body.stmts[at])
    <3>1. IsSeq(body.stmts[at]) /\ IsSeq(<<>>) /\ Len(<<>>) = 0 /\ Len(body.stmts[at]) \in Nat
      BY <1>3, <2>3, CheckedTypes, ReleasesAre
    <3>2. Len(body.stmts[at] \o <<>>) = Len(body.stmts[at]) + Len(<<>>)
      BY <3>1, Concatenated
    <3> QED BY <1>3, <2>3, <3>1, <3>2 DEF RunCode
  <2> QED BY <1>1, <2>3, <2>4
<1>8. Sound(HeldAt(at', 1), val, frees, moved)
  BY <1>5, <1>7, SoundLess
<1>9. HeapTyped(val, frees, moved)'
  BY <1>1, <1>5 DEF HeapTyped, CallersAllocs
<1>10. HeldAt(at, pos)' = HeldAt(at', 1)
  BY <1>1 DEF HeldAt, JustFreed
<1>11. Sound(HeldAt(at, pos), val, frees, moved)'
  <2>1. Sound(HeldAt(at, pos)', val, frees, moved)
    BY <1>8, <1>10
  <2> QED BY <1>1, <2>1 DEF Sound, HeldLive, FreedOnce, NoCopies, ParamsKept, CallersAllocs
<1>12. code' = [b \in Blocks |-> body.stmts[b] \o Releases(b)]'
  BY <1>1, <1>5, SameCode
<1>13. pos' \in 1 .. Len(RunCode)' + 1
  <2>1. code[at'] = body.stmts[at'] \o Releases(at')
    BY <1>2, <1>5
  <2>2. IsSeq(body.stmts[at']) /\ IsSeq(Releases(at'))
    BY <1>2, <1>3, CheckedTypes, ReleasesAre
  <2>3. Len(code[at']) \in Nat
    BY <2>1, <2>2, Concatenated, IsSeqLen
  <2> QED BY <1>1, <2>3 DEF RunCode
<1> QED BY <1>1, <1>2, <1>3, <1>4, <1>5, <1>6, <1>9, <1>11, <1>12, <1>13 DEF DropInv
(* Every step keeps it.                                                    *)
LEMMA DropInvNext ==
  ASSUME DropConstants, DropInv, [DropNext]_allVars
  PROVE  DropInv'
<1>1. CASE Loop
  BY <1>1, LoopKeepsDropInv
<1>2. CASE StartElaboration
  BY <1>2, StartKeepsDropInv
<1>3. CASE InsertReleases
  BY <1>3, InsertKeepsDropInv
<1>4. CASE RunStmt
  BY <1>4, RunStmtKeepsDropInv
<1>5. CASE RunJump
  BY <1>5, RunJumpKeepsDropInv
<1>6. CASE UNCHANGED allVars
  <2>1. /\ UNCHANGED <<vars, point>> /\ UNCHANGED <<phase, code, at, pos, val, frees, moved>>
        /\ UNCHANGED <<body, pc, in_states, idx, stmt, state, diags>>
    BY <1>6 DEF allVars, runVars, vars
  <2>2. O!RunInv'
    BY <2>1, StutterKeepsChecked DEF DropInv
  <2>3. HeldAt(at, pos)' = HeldAt(at, pos)
    BY <2>1 DEF HeldAt, JustFreed
  <2>4. Sound(HeldAt(at, pos), val, frees, moved) => Sound(HeldAt(at, pos), val, frees, moved)'
    BY <2>1, <2>3 DEF Sound, HeldLive, FreedOnce, NoCopies, ParamsKept, CallersAllocs
  <2>5. Sound(body.params, val, frees, moved) => Sound(body.params, val, frees, moved)'
    BY <2>1 DEF Sound, HeldLive, FreedOnce, NoCopies, ParamsKept, CallersAllocs
  <2>6. HeapTyped(val, frees, moved)'
    BY <2>1 DEF DropInv, HeapTyped, CallersAllocs
  <2>7. \A I, M : Solution(I, M) /\ Above(I, M) => Solution(I, M)' /\ Above(I, M)'
    BY <2>1 DEF Solution, Above, Solves
  <2>8. phase = "run" => code' = [b \in Blocks |-> body.stmts[b] \o Releases(b)]'
    BY <2>1, SameCode DEF DropInv
  <2>9. phase' = "flow" => \E I, M : Solution(I, M)' /\ Above(I, M)'
    BY <2>1, <2>7 DEF DropInv
  <2>10. phase' = "run" =>
           /\ pc' = "done" /\ at' \in Blocks /\ pos' \in 1 .. Len(RunCode') + 1
           /\ \A l \in Locals : in_states'[at'][l] # "absent"
           /\ Sound(HeldAt(at, pos), val, frees, moved)'
    BY <2>1, <2>4 DEF DropInv, RunCode
  <2>11. phase' # "run" => /\ at' = Entry /\ pos' = 1 /\ code' = body'.stmts
                           /\ Sound(body.params, val, frees, moved)'
    BY <2>1, <2>5 DEF DropInv
  <2>12. body' \in Bodies /\ phase' \in {"check", "flow", "run"} /\ (phase' # "check" => diags' = {})
    BY <2>1 DEF DropInv
  <2> QED BY <2>1, <2>2, <2>6, <2>8, <2>9, <2>10, <2>11, <2>12 DEF DropInv
<1> QED BY <1>1, <1>2, <1>3, <1>4, <1>5, <1>6 DEF DropNext

(* It holds of every behaviour.                                            *)
LEMMA DropInvHolds ==
  ASSUME DropConstants
  PROVE  DropSpec => []DropInv
<1>1. DropInit => DropInv
  BY DropInvInit
<1>2. DropInv /\ [DropNext]_allVars => DropInv'
  BY DropInvNext
<1> QED BY <1>1, <1>2, PTL DEF DropSpec

(* The pass and the program it makes keep every variable in its range: the *)
(* program never leaves its code, and only a body the checker accepted is  *)
(* elaborated (elaborate_drops, emit_function).                            *)
THEOREM ElaborationTyped ==
  ASSUME DropConstants
  PROVE  DropSpec => []DropTypeOK
<1>1. DropInv => DropTypeOK
  <2> SUFFICES ASSUME DropInv PROVE DropTypeOK
    OBVIOUS
  <2>1. O!RunInv /\ HeapTyped(val, frees, moved) /\ phase \in {"check", "flow", "run"}
        /\ (phase # "check" => diags = {})
    BY DEF DropInv
  <2>2. frees \in Seq(Nat) /\ DOMAIN frees = 1 .. Len(frees) /\ Len(frees) <= MaxAllocs
        /\ val \in [Locals -> Allocs \cup {0, Unset}] /\ moved \subseteq Allocs
    BY <2>1 DEF HeapTyped, Allocs
  <2>3. /\ \A b \in Blocks : body.stmts[b] \in Seq(Stmt) /\ IsSeq(body.stmts[b])
                             /\ Len(body.stmts[b]) \in Nat
        /\ body \in Body /\ Entry \in Blocks
    BY <2>1, CheckedTypes
  <2>4. body.stmts \in [Blocks -> Seq(Stmt)]
    BY <2>3 DEF Body
  <2>5. ASSUME NEW b \in Blocks PROVE body.stmts[b] \o Releases(b) \in Seq(Stmt)
    <3>1. IsSeq(Releases(b))
      BY ReleasesAre
    <3>2. \A k \in DOMAIN Releases(b) : Releases(b)[k] \in Stmt
      <4> TAKE k \in DOMAIN Releases(b)
      <4>1. PICK l \in Locals : Dies(Releases(b)[k], l) \/ Frees(Releases(b)[k], b, l)
        BY ReleasesAre
      <4>2. <<l>> \in Seq(Locals) /\ Len(<<l>>) = 1 /\ <<>> \in Seq(Locals)
        OBVIOUS
      <4>3. CASE Dies(Releases(b)[k], l)
        BY <4>2, <4>3 DEF Dies, StorageDead, Stmt, Rvalues, Callees
      <4>4. CASE Frees(Releases(b)[k], b, l)
        BY <4>2, <4>4 DEF Frees, Call, Stmt, Rvalues, Callees
      <4> QED BY <4>1, <4>3, <4>4
    <3>3. Releases(b) \in Seq(Stmt)
      BY <3>1, <3>2, IsSeqIn DEF Elems
    <3> QED BY <2>3, <3>3, ConcatProperties
  <2>6. CASE phase = "run"
    <3>1. code \in [Blocks -> Seq(Stmt)]
      BY <2>5, <2>6 DEF DropInv
    <3>2. at \in Blocks /\ pos \in 1 .. Len(RunCode) + 1
      BY <2>6 DEF DropInv
    <3> QED BY <2>1, <2>2, <3>1, <3>2 DEF DropTypeOK
  <2>7. CASE phase # "run"
    <3>1. code = body.stmts /\ at = Entry /\ pos = 1
      BY <2>7 DEF DropInv
    <3>2. pos \in 1 .. Len(RunCode) + 1
      BY <2>3, <3>1 DEF RunCode
    <3> QED BY <2>1, <2>2, <2>3, <2>4, <3>1, <3>2 DEF DropTypeOK
  <2> QED BY <2>6, <2>7
<1> QED BY <1>1, DropInvHolds, PTL

(* Whatever way the program takes, what it frees was given a value on it:  *)
(* a local that is Init on every path into a Return is what the pass       *)
(* releases there (elaborate_drops, InsertReleases).                       *)
THEOREM ReleasesAreAssigned ==
  ASSUME DropConstants
  PROVE  DropSpec => []FreesOnlyAssigned
<1>1. DropInv => FreesOnlyAssigned
  <2> SUFFICES ASSUME DropInv, phase = "run", pos <= Len(RunCode), RunCode[pos].how = "free"
               PROVE  val[RunCode[pos].args[1]] # Unset
    BY DEF FreesOnlyAssigned
  <2>1. pos \in DOMAIN RunCode
    BY RunningAt
  <2>2. Takes(RunCode[pos], HeldAt(at, pos))
    BY <2>1, RunningHeld
  <2>3. Sound(HeldAt(at, pos), val, frees, moved)
    BY DEF DropInv
  <2> QED BY <2>2, <2>3 DEF Takes, Sound
<1> QED BY <1>1, DropInvHolds, PTL

(* Without copies of pointers every allocation is freed at most once, and  *)
(* one of the caller's only if it was moved: of two locals that may still  *)
(* be read or released no two hold the same memory (elaborate_drops).      *)
THEOREM NoDoubleFree ==
  ASSUME DropConstants
  PROVE  DropSpec => []UnsharedFreedOnce
<1>1. DropInv => UnsharedFreedOnce
  <2> SUFFICES ASSUME DropInv, NoCopies, NEW n \in Allocs
               PROVE  /\ frees[n] <= 1
                      /\ ParamsKept /\ n <= Len(ParamOrder(body)) /\ frees[n] = 1 => n \in moved
    BY DEF UnsharedFreedOnce
  <2>1. DOMAIN frees = 1 .. Len(frees)
    BY DEF DropInv, HeapTyped
  <2>2. FreedOnce(frees, moved)
    <3>1. CASE phase = "run"
      BY <3>1 DEF DropInv, Sound
    <3>2. CASE phase # "run"
      BY <3>2 DEF DropInv, Sound
    <3> QED BY <3>1, <3>2
  <2> QED BY <2>1, <2>2 DEF FreedOnce, Allocs, CallersAllocs
<1> QED BY <1>1, DropInvHolds, PTL

-----------------------------------------------------------------------------
(* Nothing that is live on all ways is left unreleased.                    *)

(* Some appended statement frees every owner that is Init at the end.      *)
LEMMA OwnersAreReleased ==
  ASSUME DropConstants, NEW b \in Blocks, body.term[b].kind = "return", NEW l \in Locals,
         l \in HeapOwners(body) \ body.params, OutState(b)[l] = "Init"
  PROVE  \E k \in DOMAIN Releases(b) : Frees(Releases(b)[k], b, l)
<1> DEFINE N == Len(LocalOrder)
           R == [n \in DOMAIN LocalOrder |-> Release(b, LocalOrder[N + 1 - n])]
<1>1. /\ N \in Nat /\ DOMAIN LocalOrder = 1 .. N
      /\ \A n \in 1 .. N : LocalOrder[n] \in Locals
  BY DEF DropConstants
<1>2. PICK n \in 1 .. N : LocalOrder[n] = l
  BY <1>1 DEF DropConstants
<1>3. N + 1 - n \in 1 .. N /\ N + 1 - (N + 1 - n) = n
  BY <1>1
<1>4. IsSeq(R) /\ Len(R) = N /\ DOMAIN R = 1 .. N
  BY <1>1, Mapped
<1>5. \A i \in DOMAIN R : IsSeq(R[i])
  BY OneRelease
<1>6. R[N + 1 - n] = Release(b, l)
  BY <1>1, <1>2, <1>3
<1>7. Releases(b) = Seqs!FlattenSeq(R)
  BY DEF Releases
<1> HIDE DEF R
<1>8. Elems(Release(b, l)) \subseteq Elems(Releases(b))
  BY <1>3, <1>4, <1>5, <1>6, <1>7, FlattenElems
<1> DEFINE free == Call(l, "free", <<l>>)
           dead == StorageDead(l)
<1>9. Release(b, l) = <<free, dead>> /\ Frees(free, b, l)
  BY DEF Release, Frees
<1> HIDE DEF free, dead
<1>10. free \in Elems(Release(b, l))
  BY <1>9, Two
<1> QED BY <1>8, <1>9, <1>10 DEF Elems

(* Ways of the instance are those of this module.                          *)
LEMMA SamePaths ==
  /\ \A s, c : O!After(s, c) = After(s, c)
  /\ O!Paths = PathPositions(body, After, body.params, PathBound)
  /\ RunsCovered(Bodies) => O!RunsCovered(Bodies)
<1>1. \A s, c : O!After(s, c) = After(s, c)
  BY DEF After, O!After, IsMove, O!IsMove, Reads, O!Reads
<1>2. O!Paths = PathPositions(body, After, body.params, PathBound)
  BY DEF O!Paths, O!PathPositions, PathPositions, O!Moves, Moves, O!Entry, Entry,
         O!Blocks, Blocks, O!Successors, Successors, After, O!After, IsMove, O!IsMove,
         Reads, O!Reads
<1>3. RunsCovered(Bodies) => O!RunsCovered(Bodies)
  BY DEF RunsCovered, O!RunsCovered, Covered, O!Covered,
         O!PathPositions, PathPositions, O!Moves, Moves, O!Entry, Entry,
         O!Blocks, Blocks, O!Successors, Successors, After, O!After, IsMove, O!IsMove,
         Reads, O!Reads
<1> QED BY <1>1, <1>2, <1>3

(* The loop makes nothing up.                                              *)
LEMMA NextKeepsBacked ==
  ASSUME O!RunInv, O!Backing, Next
  PROVE  O!Backing'
<1>1. Code = O!Code /\ Succ = O!Succ
  BY SameRules DEF Code, O!Code, Succ, O!Succ
<1>2. O!Next
  <2>1. PopBlock => O!PopBlock
    BY SameRules DEF PopBlock, O!PopBlock
  <2>2. TransferStmt => O!TransferStmt
    BY SameRules, <1>1 DEF TransferStmt, O!TransferStmt
  <2>3. SkipEdge => O!SkipEdge
    BY SameRules, <1>1 DEF SkipEdge, O!SkipEdge, AtEdge, O!AtEdge
  <2>4. Propagate => O!Propagate
    BY SameRules, <1>1 DEF Propagate, O!Propagate, AtEdge, O!AtEdge, Update, O!Update
  <2>5. EndBlock => O!EndBlock
    BY SameRules, <1>1 DEF EndBlock, O!EndBlock
  <2>6. Finish => O!Finish
    BY SameRules, <1>1 DEF Finish, O!Finish
  <2> QED BY <2>1, <2>2, <2>3, <2>4, <2>5, <2>6 DEF Next, O!Next
<1>3. O!LoopType
  BY Assumed, O!RunInvLoopType
<1> QED BY <1>2, <1>3, Assumed, O!NextKeepsBacking

(* So does a step that leaves it alone.                                    *)
LEMMA StutterKeepsBacked ==
  ASSUME O!RunInv, O!Backing, UNCHANGED vars
  PROVE  O!Backing'
<1>1. UNCHANGED O!vars
  BY DEF vars, O!vars
<1>2. O!LoopType
  BY Assumed, O!RunInvLoopType
<1> QED BY <1>1, <1>2, Assumed, O!NextKeepsBacking

(* Nothing is made up at the start of either loop.                         *)
LEMMA StartBacked == O!Init => O!Backing
BY Assumed, O!InitBacking

(* Nor when the graph has been checked and elaboration begins.             *)
LEMMA RestartBacked ==
  ASSUME Restart, body \in Bodies, diags = {}
  PROVE  O!Backing'
<1>1. O!Init'
  BY SameRules DEF Restart, EntryState, O!EntryState, O!Init
<1>2. O!Init' => O!Backing'
  BY StartBacked, PTL
<1> QED BY <1>1, <1>2

(* What the releases of block b have freed before statement n holds no     *)
(* memory in v, of which there are f.                                      *)
FreedUpTo(b, n, v, f) ==
  \A k \in DOMAIN code[b] :
    Len(body.stmts[b]) < k /\ k < n /\ code[b][k].how = "free" =>
      v[code[b][k].dest] \notin 1 .. Len(f)

(* The inductive invariant of what is left.                                *)
LeftInv ==
  /\ DropInv
  /\ O!Backing
  /\ phase = "run" => FreedUpTo(at, pos, val, frees)

(* A statement of the program keeps it: behind the body there are only     *)
(* releases, each of which empties its local and no other.                 *)
LEMMA RunStmtKeepsLeft ==
  ASSUME DropConstants, LeftInv, RunStmt
  PROVE  FreedUpTo(at, pos, val, frees)'
<1>1. /\ phase = "run" /\ pos <= Len(RunCode) /\ HeapStep(RunCode[pos]) /\ pos' = pos + 1
      /\ UNCHANGED <<code, at, body>> /\ DropInv
  BY DEF RunStmt, HeapStep, vars, LeftInv
<1>2. /\ at \in Blocks /\ pos \in DOMAIN RunCode /\ RunCode = code[at] /\ pos \in Nat
      /\ DOMAIN RunCode = 1 .. Len(RunCode) /\ Len(RunCode) \in Nat
      /\ code[at] = body.stmts[at] \o Releases(at) /\ Len(body.stmts[at]) \in Nat
      /\ IsSeq(body.stmts[at]) /\ DOMAIN body.stmts[at] = 1 .. Len(body.stmts[at])
  BY <1>1, RunningAt, CheckedTypes DEF RunCode
<1> SUFFICES ASSUME NEW k \in DOMAIN code[at], Len(body.stmts[at]) < k, k < pos + 1,
                    code[at][k].how = "free"
             PROVE  val'[code[at][k].dest] \notin 1 .. Len(frees')
  BY <1>1 DEF FreedUpTo
<1>3. pos \notin DOMAIN body.stmts[at] /\ k \in Nat
  BY <1>2
<1>4. PICK l \in Locals : Dies(RunCode[pos], l) \/ Frees(RunCode[pos], at, l)
  <2>1. IsSeq(Releases(at))
    BY ReleasesAre
  <2>2. Joins(RunCode, body.stmts[at], Releases(at))
    BY <1>2, <2>1, Joined
  <2>3. pos - Len(body.stmts[at]) \in DOMAIN Releases(at)
        /\ RunCode[pos] = Releases(at)[pos - Len(body.stmts[at])]
    BY <1>2, <1>3, <2>2 DEF Joins
  <2> QED BY <2>3, ReleasesAre
<1>5. val \in [Locals -> (1 .. Len(frees)) \cup {0, Unset}] /\ Len(frees) \in Nat
      /\ DOMAIN frees = 1 .. Len(frees) /\ frees \in Seq(Nat)
  BY <1>1 DEF DropInv, HeapTyped
<1>6. k < pos => val[code[at][k].dest] \notin 1 .. Len(frees)
  BY <1>1, <1>3 DEF LeftInv, FreedUpTo
<1>7. CASE Dies(RunCode[pos], l)
  <2>1. RunCode[pos].op = "dead" /\ RunCode[pos].how = "none"
    BY <1>7 DEF Dies, StorageDead
  <2>2. val' = val /\ frees' = frees
    BY <1>1, <2>1 DEF HeapStep, Allocate, Free, Write, Pass
  <2>3. k # pos
    BY <1>2, <2>1
  <2> QED BY <1>2, <1>3, <1>6, <2>2, <2>3
<1>8. CASE Frees(RunCode[pos], at, l)
  <2>1. RunCode[pos].op = "call" /\ RunCode[pos].how = "free" /\ RunCode[pos].dest = l
    BY <1>8 DEF Frees, Call
  <2>2. Free(RunCode[pos])
    BY <1>1, <2>1 DEF HeapStep, Allocate, Free, Write, Pass
  <2>3. val' = [val EXCEPT ![l] = 0]
    BY <2>1, <2>2 DEF Free
  <2>4. Len(frees') = Len(frees)
    BY <1>5, <2>2, ExceptSeq DEF Free, Allocs
  <2>5. val'[l] = 0 /\ \A m : m # l => val'[m] = val[m]
    BY <1>5, <2>3
  <2>6. CASE code[at][k].dest = l
    BY <1>5, <2>4, <2>5, <2>6
  <2>7. CASE code[at][k].dest # l
    <3>1. k < pos
      BY <1>2, <1>3, <2>1, <2>7
    <3> QED BY <1>6, <2>4, <2>5, <2>7, <3>1
  <2> QED BY <2>6, <2>7
<1> QED BY <1>4, <1>7, <1>8

(* Every step keeps it.                                                    *)
LEMMA LeftInvNext ==
  ASSUME DropConstants, LeftInv, [DropNext]_allVars
  PROVE  LeftInv'
<1>1. DropInv' /\ DropInv /\ O!RunInv /\ O!Backing /\ body \in Bodies
  BY DropInvNext DEF LeftInv, DropInv
<1>2. CASE Loop
  <2>1. O!Backing'
    BY <1>1, <1>2, NextKeepsBacked DEF Loop
  <2>2. phase' # "run"
    BY <1>2 DEF Loop
  <2> QED BY <1>1, <2>1, <2>2 DEF LeftInv
<1>3. CASE StartElaboration
  <2>1. O!Backing'
    BY <1>1, <1>3, RestartBacked DEF StartElaboration
  <2>2. phase' # "run"
    BY <1>3 DEF StartElaboration
  <2> QED BY <1>1, <2>1, <2>2 DEF LeftInv
<1>4. CASE InsertReleases
  <2>1. O!Backing'
    BY <1>1, <1>4, StutterKeepsBacked DEF InsertReleases
  <2>2. at' = Entry /\ pos' = 1
    BY <1>1, <1>4 DEF InsertReleases, runVars, DropInv
  <2>3. FreedUpTo(at, pos, val, frees)'
    <3>1. \A b \in Blocks : Len(body.stmts[b]) \in Nat
      BY <1>1, CheckedTypes
    <3>2. \A k : Len(body.stmts[Entry]) < k /\ k < 1 => k \notin DOMAIN code'[Entry]
      <4>1. body.stmts[Entry] \o Releases(Entry) = code'[Entry] /\ Entry \in Blocks
        BY <1>1, <1>4, CheckedTypes DEF InsertReleases
      <4>2. DOMAIN (body.stmts[Entry] \o Releases(Entry)) = 1 .. Len(body.stmts[Entry]) + Len(Releases(Entry))
            /\ Len(body.stmts[Entry]) \in Nat /\ Len(Releases(Entry)) \in Nat
        BY <1>1, <4>1, CheckedTypes, ReleasesAre, Concatenated, IsSeqLen
      <4> QED BY <4>1, <4>2
    <3>3. body' = body
      BY <1>4 DEF InsertReleases, vars
    <3> QED BY <2>2, <3>2, <3>3 DEF FreedUpTo
  <2> QED BY <1>1, <2>1, <2>3 DEF LeftInv
<1>5. CASE RunStmt
  <2>1. O!Backing'
    BY <1>1, <1>5, StutterKeepsBacked DEF RunStmt
  <2> QED BY <1>1, <1>5, <2>1, RunStmtKeepsLeft DEF LeftInv
<1>6. CASE RunJump
  <2>1. O!Backing'
    BY <1>1, <1>6, StutterKeepsBacked DEF RunJump
  <2>2. phase = "run" /\ at' \in Blocks /\ pos' = 1 /\ code' = code /\ body' = body
    BY <1>6 DEF RunJump, vars
  <2>3. code[at'] = body.stmts[at'] \o Releases(at')
    BY <1>1, <2>2 DEF DropInv
  <2>4. DOMAIN code[at'] = 1 .. Len(body.stmts[at']) + Len(Releases(at'))
        /\ Len(body.stmts[at']) \in Nat /\ Len(Releases(at')) \in Nat
    BY <1>1, <2>2, <2>3, CheckedTypes, ReleasesAre, Concatenated, IsSeqLen
  <2>5. \A k \in DOMAIN code[at'] : ~(Len(body.stmts[at']) < k /\ k < 1)
    BY <2>4
  <2>6. FreedUpTo(at, pos, val, frees)'
    BY <2>2, <2>5 DEF FreedUpTo
  <2> QED BY <1>1, <2>1, <2>6 DEF LeftInv
<1>7. CASE UNCHANGED allVars
  <2>1. UNCHANGED vars /\ UNCHANGED <<phase, code, at, pos, val, frees, body>>
    BY <1>7 DEF allVars, runVars, vars
  <2>2. O!Backing'
    BY <1>1, <2>1, StutterKeepsBacked
  <2>3. phase' = "run" => FreedUpTo(at, pos, val, frees)'
    BY <2>1 DEF LeftInv, FreedUpTo
  <2> QED BY <1>1, <2>2, <2>3 DEF LeftInv
<1> QED BY <1>2, <1>3, <1>4, <1>5, <1>6, <1>7 DEF DropNext

(* It holds of every behaviour.                                            *)
LEMMA LeftInvHolds ==
  ASSUME DropConstants
  PROVE  DropSpec => []LeftInv
<1>1. DropInit => LeftInv
  <2> SUFFICES ASSUME DropInit PROVE LeftInv
    OBVIOUS
  <2>1. O!Init
    BY SameRules DEF DropInit, Init, O!Init
  <2>2. O!Backing
    BY <2>1, StartBacked
  <2>3. phase # "run"
    BY DEF DropInit
  <2> QED BY <2>2, <2>3, DropInvInit DEF LeftInv
<1>2. LeftInv /\ [DropNext]_allVars => LeftInv'
  BY LeftInvNext
<1> QED BY <1>1, <1>2, PTL DEF DropSpec

(* At the end of a block a program comes to, a local is Init when it is    *)
(* live on all ways there.                                                 *)
LEMMA LiveIsInit ==
  ASSUME O!RunInv, O!Backing, RunsCovered(Bodies), body \in Bodies, NEW b \in Blocks,
         Solves(in_states, point, b), NEW l \in Locals, in_states[b][l] # "absent",
         \A p \in PathPositions(body, After, body.params, PathBound) :
           p[1] = b /\ p[2] = Len(body.stmts[b]) + 1 => l \in p[3]
  PROVE  OutState(b)[l] = "Init"
<1> DEFINE L == Len(body.stmts[b])
           R == O!Paths
           T == {n \in Nat : n <= L =>
                   /\ point[b][n + 1] \in StateMap
                   /\ O!Comes(R, b, n + 1)
                   /\ \A m \in Locals : point[b][n + 1][m] # "Init" => O!Dead(R, b, n + 1, m)}
<1>1. /\ L \in Nat /\ DOMAIN body.stmts[b] = 1 .. L /\ body \in O!Body
      /\ in_states[b] \in StateMap \cup {Unreached} /\ b \in O!Blocks
  BY CheckedTypes, SameRules
<1>2. O!Ways(R) /\ O!Backed(R)
  <2>1. O!Ways(R)
    BY SamePaths, Assumed, O!PathsAreWays
  <2> QED BY <2>1 DEF O!Backing
<1>3. point[b][1] = in_states[b] /\ in_states[b] \in StateMap
  BY <1>1 DEF Solves, Unreached
<1>4. 0 \in T
  <2>1. O!Comes(R, b, 1)
    BY <1>1, <1>2 DEF O!Backed
  <2>2. ASSUME NEW m \in Locals, point[b][1][m] # "Init" PROVE O!Dead(R, b, 1, m)
    <3>1. in_states[b][m] \notin {"absent", "Init"}
      BY <1>3, <2>2 DEF StateMap, State
    <3> QED BY <1>1, <1>2, <3>1 DEF O!Backed
  <2> QED BY <1>3, <2>1, <2>2
<1>5. ASSUME NEW n \in Nat, n \in T PROVE n + 1 \in T
  <2> SUFFICES ASSUME n + 1 <= L
               PROVE  /\ point[b][(n + 1) + 1] \in StateMap
                      /\ O!Comes(R, b, (n + 1) + 1)
                      /\ \A m \in Locals :
                           point[b][(n + 1) + 1][m] # "Init" => O!Dead(R, b, (n + 1) + 1, m)
    OBVIOUS
  <2>1. /\ n + 1 \in 1 .. L /\ point[b][n + 1] \in StateMap /\ O!Comes(R, b, n + 1)
        /\ \A m \in Locals : point[b][n + 1][m] # "Init" => O!Dead(R, b, n + 1, m)
    BY <1>1, <1>5
  <2> HIDE DEF R, T
  <2>2. /\ point[b][n + 1] \in O!StateMap /\ n + 1 \in 1 .. Len(body.stmts[b])
        /\ body.stmts[b][n + 1] \in Stmt
    BY <1>1, <2>1, SameRules, CheckedTypes, ElementOfSeq
  <2>3. /\ O!Comes(R, b, (n + 1) + 1)
        /\ \A m \in Locals :
             O!Transfer(body.stmts[b][n + 1], point[b][n + 1])[m] # "Init" =>
               O!Dead(R, b, (n + 1) + 1, m)
    BY <1>1, <1>2, <2>1, <2>2, Assumed, O!StmtBacked
  <2>4. point[b][(n + 1) + 1] = Transfer(body.stmts[b][n + 1], point[b][n + 1])
    BY <1>1, <2>1 DEF Solves
  <2>5. point[b][(n + 1) + 1] \in StateMap
    BY <2>1, <2>2, <2>4, TransferWhole
  <2> QED BY <2>3, <2>4, <2>5, SameRules
<1>6. L \in T
  <2> HIDE DEF T
  <2>1. Nat \subseteq T
    BY <1>4, <1>5, Inducted
  <2> QED BY <1>1, <2>1
<1>7. point[b][L + 1][l] # "Init" => O!Dead(R, b, L + 1, l)
  BY <1>1, <1>6
<1>8. ~O!Dead(R, b, L + 1, l)
  BY SamePaths DEF O!Dead
<1> QED BY <1>7, <1>8, OutIsRecorded

(* Drop elaboration leaks no heap owner that is live on all ways to a      *)
(* Return: the releases there free it (elaborate_drops).                   *)
THEOREM OwnersReleased ==
  ASSUME DropConstants, RunsCovered(Bodies)
  PROVE  DropSpec => []LiveOwnersReleased
<1>1. LeftInv => LiveOwnersReleased
  <2> SUFFICES ASSUME LeftInv, Returned, NEW l \in HeapOwners(body) \ body.params,
                      \A p \in PathPositions(body, After, body.params, PathBound) :
                        p[1] = at /\ p[2] = Len(body.stmts[at]) + 1 => l \in p[3]
               PROVE  val[l] \notin Allocs
    BY DEF LiveOwnersReleased
  <2>1. /\ DropInv /\ O!Backing /\ FreedUpTo(at, pos, val, frees) /\ phase = "run"
        /\ pos = Len(RunCode) + 1 /\ body.term[at].kind = "return"
    BY DEF LeftInv, Returned
  <2>2. /\ O!RunInv /\ body \in Bodies /\ at \in Blocks
        /\ code[at] = body.stmts[at] \o Releases(at) /\ RunCode = code[at]
        /\ \A m \in Locals : in_states[at][m] # "absent" /\ Solves(in_states, point, at)
        /\ Len(RunCode) \in Nat /\ DOMAIN RunCode = 1 .. Len(RunCode)
    BY <2>1, RunningAt DEF RunCode
  <2>3. l \in Locals
    <3>1. \A b \in Blocks : \A k \in DOMAIN body.stmts[b] : body.stmts[b][k].dest \in Locals
      <4> TAKE b \in Blocks
      <4> TAKE k \in DOMAIN body.stmts[b]
      <4>1. body.stmts[b][k] \in Stmt
        BY <2>2, CheckedTypes, ElementOfSeq
      <4> QED BY <4>1 DEF Stmt
    <3> QED BY <3>1 DEF HeapOwners
  <2>4. OutState(at)[l] = "Init"
    BY <2>1, <2>2, <2>3, LiveIsInit
  <2>5. PICK k \in DOMAIN Releases(at) : Frees(Releases(at)[k], at, l)
    BY <2>1, <2>2, <2>3, <2>4, OwnersAreReleased
  <2>6. /\ Len(body.stmts[at]) + k \in DOMAIN RunCode /\ Len(body.stmts[at]) \in Nat
        /\ RunCode[Len(body.stmts[at]) + k] = Releases(at)[k]
        /\ k \in Nat /\ 0 < k
    <3>1. IsSeq(body.stmts[at]) /\ IsSeq(Releases(at)) /\ Len(body.stmts[at]) \in Nat
      BY <2>2, CheckedTypes, ReleasesAre
    <3>2. Joins(RunCode, body.stmts[at], Releases(at))
      BY <2>2, <3>1, Joined
    <3>3. DOMAIN Releases(at) = 1 .. Len(Releases(at)) /\ Len(Releases(at)) \in Nat
      BY <3>1, IsSeqLen
    <3> QED BY <3>1, <3>2, <3>3 DEF Joins
  <2>7. /\ Len(body.stmts[at]) < Len(body.stmts[at]) + k
        /\ Len(body.stmts[at]) + k < pos
    BY <2>1, <2>2, <2>6
  <2>8. Releases(at)[k].how = "free" /\ Releases(at)[k].dest = l
    BY <2>5 DEF Frees, Call
  <2>9. val[l] \notin 1 .. Len(frees)
    BY <2>1, <2>2, <2>6, <2>7, <2>8 DEF FreedUpTo
  <2>10. Allocs = 1 .. Len(frees)
    BY <2>1 DEF Allocs, DropInv, HeapTyped
  <2> QED BY <2>9, <2>10
<1> QED BY <1>1, LeftInvHolds, PTL
=============================================================================
