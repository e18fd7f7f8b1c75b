-------------------------- MODULE OwnershipProofs --------------------------
(***************************************************************************)
(* Proofs about the ownership checker, for every set of locals, number of  *)
(* blocks and set of bodies.  First the lemmas about the operators, then   *)
(* the invariants of the fixpoint loop, then what acceptance means for the *)
(* accepted program, and last that the verdict is that of CheckerVerdict.  *)
(***************************************************************************)
EXTENDS OwnershipRun, SequenceFacts

-----------------------------------------------------------------------------
(* Meeting a whole map into any map gives a whole map, no less strict than *)
(* either side, and lower in the order of Rank than what was there.        *)
LEMMA MeetLemma ==
  ASSUME NEW a \in StateMap \cup {Unreached}, NEW b \in StateMap
  PROVE  /\ MeetStates(a, b) \in StateMap
         /\ \A l \in Locals :
              /\ MeetStates(a, b)[l] = "Init" => b[l] = "Init"
              /\ MeetStates(a, b)[l] = "Init" /\ a[l] # "absent" => a[l] = "Init"
              /\ MeetStates(a, b)[l] # "absent"
              /\ Rank(MeetStates(a, b)[l]) <= Rank(a[l])
<1>1. ASSUME NEW s \in State, NEW t \in State
      PROVE  /\ Meet(s, t) \in State
             /\ Meet(s, t) = "Init" => s = "Init" /\ t = "Init"
             /\ Rank(Meet(s, t)) <= Rank(s)
  BY DEF State, Meet, Rank
<1>2. a \in PartialMap
  BY DEF StateMap, PartialMap, Unreached
<1>3. ASSUME NEW l \in Locals
      PROVE  /\ MeetStates(a, b)[l] \in State
             /\ MeetStates(a, b)[l] = "Init" => b[l] = "Init"
             /\ MeetStates(a, b)[l] = "Init" /\ a[l] # "absent" => a[l] = "Init"
             /\ Rank(MeetStates(a, b)[l]) <= Rank(a[l])
  <2>1. b[l] \in State /\ b[l] # "absent"
    BY DEF StateMap, State
  <2>2. a[l] \in State \cup {"absent"}
    BY <1>2 DEF PartialMap
  <2>3. CASE a[l] = "absent"
    <3>1. MeetStates(a, b)[l] = b[l]
      BY <2>1, <2>3 DEF MeetStates
    <3>2. Rank(b[l]) <= Rank("absent")
      BY <2>1 DEF Rank, State
    <3> QED BY <2>1, <2>3, <3>1, <3>2
  <2>4. CASE a[l] # "absent"
    <3>1. MeetStates(a, b)[l] = Meet(a[l], b[l])
      BY <2>1, <2>4 DEF MeetStates
    <3> QED BY <1>1, <2>1, <2>2, <2>4, <3>1
  <2> QED BY <2>3, <2>4
<1>4. MeetStates(a, b) \in StateMap
  BY <1>3 DEF MeetStates, StateMap
<1> QED BY <1>3, <1>4 DEF State

(* A statement takes a whole map to a whole map.                           *)
LEMMA TransferType ==
  ASSUME NEW s \in Stmt, NEW st \in StateMap
  PROVE  Transfer(s, st) \in StateMap
  BY DEF Stmt, StateMap, State, Transfer, MoveOut, IsMove, Reads

(* A diagnostic is of one of the three kinds and about one of the locals.  *)
LEMMA MisuseType ==
  ASSUME NEW s \in Stmt, NEW st \in StateMap, NEW m \in Misuses(s, st)
  PROVE  m[1] \in Kinds /\ m[2] \in Locals
<1>1. Reads(s) \subseteq Locals /\ s.dest \in Locals
  BY DEF Reads, Stmt
<1> QED BY <1>1 DEF Misuses, UseKind, DropKind, Kinds

(* If the map takes no local for live that is not, and the statement       *)
(* raises no diagnostic, then it does not fault and the map stays right.   *)
LEMMA TransferSound ==
  ASSUME NEW s \in Stmt, NEW st \in StateMap, NEW lv \in SUBSET Locals,
         \A l \in Locals : st[l] = "Init" => l \in lv,
         Misuses(s, st) = {}
  PROVE  /\ Faults(s, lv) = {}
         /\ After(s, lv) \in SUBSET Locals
         /\ \A l \in Locals : Transfer(s, st)[l] = "Init" => l \in After(s, lv)
<1>1. Reads(s) \subseteq Locals /\ s.dest \in Locals
  BY DEF Reads, Stmt
<1>2. \A l \in Reads(s) : st[l] = "Init"
  BY <1>1 DEF Misuses
<1>3. s.op = "drop" => st[s.dest] = "Init"
  BY DEF Misuses
<1>4. Faults(s, lv) = {}
  BY <1>1, <1>2, <1>3 DEF Faults
<1>5. After(s, lv) \in SUBSET Locals
  BY <1>1 DEF After, Stmt
<1>6. ASSUME NEW l \in Locals, Transfer(s, st)[l] = "Init"
      PROVE  l \in After(s, lv)
  <2>1. CASE s.op \in {"assign", "call"}
    <3>1. l = s.dest \/ MoveOut(s, st)[l] = "Init"
      BY <1>1, <1>6, <2>1 DEF Transfer, MoveOut
    <3>2. MoveOut(s, st)[l] = "Init" => st[l] = "Init" /\ ~(IsMove(s) /\ l \in Reads(s))
      BY DEF MoveOut, StateMap
    <3> QED BY <2>1, <3>1, <3>2 DEF After
  <2>2. CASE s.op = "assert"
    BY <1>6, <2>2 DEF Transfer, After
  <2>3. CASE s.op \in {"live", "dead", "drop"}
    <3>1. st[l] = "Init" /\ l # s.dest
      BY <1>1, <1>6, <2>3 DEF Transfer, StateMap
    <3> QED BY <2>3, <3>1 DEF After
  <2> QED BY <2>1, <2>2, <2>3 DEF Stmt
<1> QED BY <1>4, <1>5, <1>6

-----------------------------------------------------------------------------
(* The invariants of the loop itself, kept by every step of the checker.   *)

(* A flagged block is a block that was reached: needed for the type of     *)
(* `state`, which is a clone of the in-state of a queued block.            *)
LoopType == TypeOK /\ QueueMatchesFlags /\ QueuedReached

LEMMA InitLoopType ==
  ASSUME Init
  PROVE  LoopType
<1> USE NBlocksAssumption, BodiesAssumption
<1>1. Entry \in Blocks
  BY DEF Entry, Blocks
<1>2. body \in Body /\ EntryState(body) \in StateMap
  BY DEF Init, EntryState, StateMap, State
<1>3. Unreached \in PartialMap
  BY DEF Unreached, PartialMap
<1>4. TypeOK
  <2>1. in_states \in [Blocks -> StateMap \cup {Unreached}]
    BY <1>1, <1>2 DEF Init
  <2>2. in_worklist \in [Blocks -> BOOLEAN] /\ worklist \in Seq(Blocks)
    BY <1>1 DEF Init
  <2>3. stmt = 1 /\ edge = 1 /\ pc = "pop" /\ idx \in Blocks /\ diags = {}
    BY <1>1 DEF Init
  <2>4. state \in PartialMap
    BY <1>3 DEF Init
  <2> QED BY <1>2, <2>1, <2>2, <2>3, <2>4 DEF TypeOK
<1>5. QueueMatchesFlags
  <2>1. \A b \in Blocks : in_worklist[b] <=> b = Entry
    BY DEF Init
  <2>2. DOMAIN worklist = {1} /\ worklist[1] = Entry
    BY DEF Init
  <2> QED BY <2>1, <2>2 DEF QueueMatchesFlags
<1>6. QueuedReached
  BY <1>1, <1>2 DEF Init, QueuedReached
<1> QED BY <1>4, <1>5, <1>6 DEF LoopType

(* The statements and successors of the block in progress.                 *)
LEMMA CodeType ==
  ASSUME TypeOK
  PROVE  /\ Code \in Seq(Stmt)
         /\ Succ \in Seq(Nat)
         /\ \A b \in Blocks : body.stmts[b] \in Seq(Stmt)
         /\ \A b \in Blocks : Successors(body.term[b]) \in Seq(Nat)
<1>1. \A b \in Blocks : body.stmts[b] \in Seq(Stmt) /\ body.term[b] \in Terminator
  BY DEF TypeOK, Body
<1>2. \A t \in Terminator : Successors(t) \in Seq(Nat)
  BY DEF Terminator, Successors
<1> QED BY <1>1, <1>2 DEF TypeOK, Code, Succ

LEMMA PopKeepsLoopType ==
  ASSUME LoopType, PopBlock
  PROVE  LoopType'
<1> USE DEF LoopType
<1>1. /\ worklist \in Seq(Blocks)
      /\ Len(worklist) \in 1 .. Len(worklist)
      /\ idx' \in Blocks
      /\ idx' = worklist[Len(worklist)]
  BY DEF PopBlock, TypeOK
<1>2. in_worklist[idx'] /\ in_states[idx'] \in StateMap
  BY <1>1 DEF QueueMatchesFlags, QueuedReached
<1>3. /\ worklist' \in Seq(Blocks)
      /\ DOMAIN worklist' = 1 .. Len(worklist) - 1
      /\ \A n \in DOMAIN worklist' : worklist'[n] = worklist[n]
  BY <1>1 DEF PopBlock
<1>4. in_worklist' = [in_worklist EXCEPT ![idx'] = FALSE]
  BY DEF PopBlock
<1>5. Code' \in Seq(Stmt) /\ Succ' \in Seq(Nat)
  <2>1. body' = body
    BY DEF PopBlock
  <2> QED BY <1>1, <2>1, CodeType DEF Code, Succ
<1>6. TypeOK'
  <2>1. state' \in StateMap
    BY <1>2 DEF PopBlock
  <2>2. StateMap \subseteq PartialMap
    BY DEF StateMap, PartialMap
  <2>3. stmt' = 1 /\ edge' = 1 /\ pc' = "block"
    BY DEF PopBlock
  <2>4. stmt' <= Len(Code') + 1 /\ edge' <= Len(Succ') + 1
    BY <1>5, <2>3
  <2>5. in_worklist' \in [Blocks -> BOOLEAN]
    BY <1>4 DEF TypeOK
  <2> QED BY <1>1, <1>3, <2>1, <2>2, <2>3, <2>4, <2>5 DEF PopBlock, TypeOK
<1>7. QueueMatchesFlags'
  <2>1. DOMAIN worklist = 1 .. Len(worklist)
    BY <1>1
  <2>2. \A m, n \in DOMAIN worklist' : m # n => worklist'[m] # worklist'[n]
    BY <1>1, <1>3, <2>1 DEF QueueMatchesFlags
  <2>3. ASSUME NEW b \in Blocks
        PROVE  in_worklist'[b] <=> \E n \in DOMAIN worklist' : worklist'[n] = b
    <3>1. CASE b = idx'
      <4>1. ~in_worklist'[b]
        BY <1>4, <3>1 DEF TypeOK
      <4>2. \A n \in DOMAIN worklist' : worklist'[n] # b
        BY <1>1, <1>3, <2>1, <3>1 DEF QueueMatchesFlags
      <4> QED BY <4>1, <4>2
    <3>2. CASE b # idx'
      <4>1. in_worklist'[b] <=> in_worklist[b]
        BY <1>4, <3>2 DEF TypeOK
      <4>2. (\E n \in DOMAIN worklist : worklist[n] = b)
               <=> \E n \in DOMAIN worklist' : worklist'[n] = b
        BY <1>1, <1>3, <2>1, <3>2
      <4> QED BY <4>1, <4>2 DEF QueueMatchesFlags
    <3> QED BY <3>1, <3>2
  <2> QED BY <2>2, <2>3 DEF QueueMatchesFlags
<1>8. QueuedReached'
  <2>1. in_states' = in_states
    BY DEF PopBlock
  <2> QED BY <1>4, <2>1 DEF QueuedReached, TypeOK
<1> QED BY <1>6, <1>7, <1>8

LEMMA StmtKeepsLoopType ==
  ASSUME LoopType, TransferStmt
  PROVE  LoopType'
<1> USE DEF LoopType
<1>1. Code \in Seq(Stmt) /\ Succ \in Seq(Nat)
  BY CodeType
<1>2. stmt \in 1 .. Len(Code) /\ Code[stmt] \in Stmt /\ state \in StateMap
  BY <1>1 DEF TransferStmt, TypeOK
<1>3. state' \in StateMap
  BY <1>2, TransferType DEF TransferStmt
<1>4. StateMap \subseteq PartialMap
  BY DEF StateMap, PartialMap
<1>5. diags' \in SUBSET Diag
  <2>1. \A m \in Misuses(Code[stmt], state) : m[1] \in Kinds /\ m[2] \in Locals
    BY <1>2, MisuseType
  <2>2. idx \in Blocks /\ stmt \in Nat /\ diags \in SUBSET Diag
    BY DEF TypeOK
  <2> QED BY <2>1, <2>2 DEF TransferStmt, Diag
<1>6. stmt' \in Nat \ {0} /\ stmt' <= Len(Code) + 1
  BY <1>1, <1>2 DEF TransferStmt
<1>7. Code' = Code /\ Succ' = Succ
  BY DEF TransferStmt, Code, Succ
<1>8. TypeOK'
  BY <1>3, <1>4, <1>5, <1>6, <1>7 DEF TransferStmt, TypeOK
<1>9. QueueMatchesFlags' /\ QueuedReached'
  BY DEF TransferStmt, QueueMatchesFlags, QueuedReached
<1> QED BY <1>8, <1>9

(* What Propagate does to the target block.                                *)
LEMMA UpdateFacts ==
  ASSUME LoopType, NEW b \in Blocks, NEW in \in StateMap, Update(b, in)
  PROVE  /\ in_states' = [in_states EXCEPT ![b] = in]
         /\ in_states' \in [Blocks -> StateMap \cup {Unreached}]
         /\ in_worklist' \in [Blocks -> BOOLEAN]
         /\ worklist' \in Seq(Blocks)
         /\ QueueMatchesFlags'
         /\ QueuedReached'
         /\ \A c \in Blocks : in_worklist[c] => in_worklist'[c]
         /\ \A c \in Blocks : ~in_worklist'[c] => in_states'[c] = in_states[c]
<1> USE DEF LoopType
<1>1. CASE in = in_states[b]
  <2>1. UNCHANGED <<in_states, in_worklist, worklist>>
    BY <1>1 DEF Update
  <2>2. in_states = [in_states EXCEPT ![b] = in]
    BY <1>1 DEF TypeOK
  <2> QED BY <2>1, <2>2 DEF TypeOK, QueueMatchesFlags, QueuedReached
<1>2. CASE in # in_states[b]
  <2>1. /\ in_states' = [in_states EXCEPT ![b] = in]
        /\ in_worklist' = [in_worklist EXCEPT ![b] = TRUE]
        /\ worklist' = IF in_worklist[b] THEN worklist ELSE Append(worklist, b)
    BY <1>2 DEF Update
  <2>2. worklist \in Seq(Blocks) /\ DOMAIN worklist = 1 .. Len(worklist)
    BY DEF TypeOK
  <2>3. worklist' \in Seq(Blocks)
    BY <2>1, <2>2
  <2>4. QueueMatchesFlags'
    <3>1. CASE in_worklist[b]
      BY <2>1, <3>1 DEF QueueMatchesFlags, TypeOK
    <3>2. CASE ~in_worklist[b]
      <4>1. /\ DOMAIN worklist' = 1 .. Len(worklist) + 1
            /\ worklist'[Len(worklist) + 1] = b
            /\ \A n \in DOMAIN worklist : worklist'[n] = worklist[n]
        BY <2>1, <2>2, <3>2
      <4>2. \A n \in DOMAIN worklist : worklist[n] # b
        BY <3>2 DEF QueueMatchesFlags
      <4>3. \A m, n \in DOMAIN worklist' : m # n => worklist'[m] # worklist'[n]
        BY <2>2, <4>1, <4>2 DEF QueueMatchesFlags
      <4>4. ASSUME NEW c \in Blocks
            PROVE  in_worklist'[c] <=> \E n \in DOMAIN worklist' : worklist'[n] = c
        <5>1. CASE c = b
          <6>1. Len(worklist) + 1 \in DOMAIN worklist'
            BY <2>2, <4>1
          <6> QED BY <2>1, <4>1, <5>1, <6>1 DEF TypeOK
        <5>2. CASE c # b
          <6>1. in_worklist'[c] <=> in_worklist[c]
            BY <2>1, <5>2 DEF TypeOK
          <6>2. (\E n \in DOMAIN worklist : worklist[n] = c)
                  <=> \E n \in DOMAIN worklist' : worklist'[n] = c
            BY <2>2, <4>1, <5>2
          <6> QED BY <6>1, <6>2 DEF QueueMatchesFlags
        <5> QED BY <5>1, <5>2
      <4> QED BY <4>3, <4>4 DEF QueueMatchesFlags
    <3> QED BY <3>1, <3>2
  <2>5. QueuedReached'
    BY <2>1 DEF QueuedReached, TypeOK
  <2> QED BY <2>1, <2>3, <2>4, <2>5 DEF TypeOK
<1> QED BY <1>1, <1>2

LEMMA EdgeType ==
  ASSUME LoopType, AtEdge
  PROVE  edge \in 1 .. Len(Succ) /\ Succ \in Seq(Nat) /\ state \in StateMap
  BY CodeType DEF LoopType, AtEdge, TypeOK

LEMMA PropagateKeepsLoopType ==
  ASSUME LoopType, Propagate
  PROVE  LoopType'
<1>1. edge \in 1 .. Len(Succ) /\ Succ \in Seq(Nat) /\ state \in StateMap
  BY EdgeType DEF Propagate
<1>2. Succ[edge] \in Blocks
  BY DEF Propagate
<1>3. MeetStates(in_states[Succ[edge]], state) \in StateMap
  BY <1>1, <1>2, MeetLemma DEF LoopType, TypeOK
<1>4. Update(Succ[edge], MeetStates(in_states[Succ[edge]], state))
  BY DEF Propagate
<1>5. /\ in_states' \in [Blocks -> StateMap \cup {Unreached}]
      /\ in_worklist' \in [Blocks -> BOOLEAN]
      /\ worklist' \in Seq(Blocks)
      /\ QueueMatchesFlags'
      /\ QueuedReached'
  BY <1>2, <1>3, <1>4, UpdateFacts
<1>6. Code' = Code /\ Succ' = Succ
  BY DEF Propagate, Code, Succ
<1>7. edge' \in Nat \ {0} /\ edge' <= Len(Succ) + 1
  BY <1>1 DEF Propagate
<1>8. TypeOK'
  BY <1>5, <1>6, <1>7 DEF Propagate, LoopType, TypeOK
<1> QED BY <1>5, <1>8 DEF LoopType

LEMMA StutterKeepsLoopType ==
  ASSUME LoopType, UNCHANGED vars
  PROVE  LoopType'
<1>1. Code' = Code /\ Succ' = Succ
  BY DEF vars, Code, Succ
<1> QED BY <1>1 DEF vars, LoopType, TypeOK, QueueMatchesFlags, QueuedReached

LEMMA NextKeepsLoopType ==
  ASSUME LoopType, [Next]_vars
  PROVE  LoopType'
<1>1. CASE PopBlock
  BY <1>1, PopKeepsLoopType
<1>2. CASE TransferStmt
  BY <1>2, StmtKeepsLoopType
<1>3. CASE SkipEdge
  <2>1. edge \in 1 .. Len(Succ) /\ Succ \in Seq(Nat)
    BY <1>3, EdgeType DEF SkipEdge
  <2>2. Code' = Code /\ Succ' = Succ
    BY <1>3 DEF SkipEdge, Code, Succ
  <2>3. edge' \in Nat \ {0} /\ edge' <= Len(Succ) + 1
    BY <1>3, <2>1 DEF SkipEdge
  <2> QED BY <1>3, <2>2, <2>3
       DEF SkipEdge, LoopType, TypeOK, QueueMatchesFlags, QueuedReached
<1>4. CASE Propagate
  BY <1>4, PropagateKeepsLoopType
<1>5. CASE EndBlock
  BY <1>5 DEF EndBlock, LoopType, TypeOK, QueueMatchesFlags, QueuedReached
<1>6. CASE Finish
  BY <1>6 DEF Finish, LoopType, TypeOK, QueueMatchesFlags, QueuedReached
<1>7. CASE UNCHANGED vars
  BY <1>7, StutterKeepsLoopType
<1> QED BY <1>1, <1>2, <1>3, <1>4, <1>5, <1>6, <1>7 DEF Next

(* The queue and the flags of the worklist never disagree, and every       *)
(* variable keeps its type, on every body.                                 *)
THEOREM LoopTypeCorrect == Spec => [](TypeOK /\ QueueMatchesFlags)
<1>1. Init => LoopType
  BY InitLoopType
<1>2. LoopType /\ [Next]_vars => LoopType'
  BY NextKeepsLoopType
<1>3. LoopType => TypeOK /\ QueueMatchesFlags
  BY DEF LoopType
<1> QED BY <1>1, <1>2, <1>3, PTL DEF Spec

(* The checker never leaves its types: the cursors stay within the block   *)
(* they walk, and what is queued are blocks of the body.                   *)
THEOREM CheckerTyped == Spec => []TypeOK
BY LoopTypeCorrect, PTL

(* No step raises the in-state of any block.                               *)
LEMMA NextDescends ==
  ASSUME LoopType, [Next]_vars, NEW b \in Blocks, NEW l \in Locals
  PROVE  Rank(in_states'[b][l]) <= Rank(in_states[b][l])
<1>1. CASE Propagate
  <2> DEFINE t == Succ[edge]
             in == MeetStates(in_states[t], state)
  <2>1. t \in Blocks /\ Update(t, in) /\ state \in StateMap
    BY <1>1, EdgeType DEF Propagate
  <2>2. in_states[t] \in StateMap \cup {Unreached}
    BY <2>1 DEF LoopType, TypeOK
  <2>3. in \in StateMap /\ Rank(in[l]) <= Rank(in_states[t][l])
    BY <2>1, <2>2, MeetLemma
  <2>4. in_states' = [in_states EXCEPT ![t] = in]
    BY <2>1, <2>3, UpdateFacts
  <2>5. CASE b = t
    BY <2>3, <2>4, <2>5 DEF LoopType, TypeOK
  <2>6. CASE b # t
    <3>1. in_states'[b] = in_states[b]
      BY <2>4, <2>6 DEF LoopType, TypeOK
    <3>2. in_states[b][l] \in State \cup {"absent"}
      BY DEF LoopType, TypeOK, StateMap, Unreached
    <3> QED BY <3>1, <3>2 DEF Rank, State
  <2> QED BY <2>5, <2>6
<1>2. CASE ~Propagate
  <2>1. in_states' = in_states
    BY <1>2 DEF Next, PopBlock, TransferStmt, SkipEdge, EndBlock, Finish, vars
  <2>2. in_states[b][l] \in State \cup {"absent"}
    BY DEF LoopType, TypeOK, StateMap, Unreached
  <2> QED BY <2>1, <2>2 DEF Rank, State
<1> QED BY <1>1, <1>2

(* In-states only ever go down, on every body and in whatever order the    *)
(* worklist hands out the blocks: the measure behind termination.          *)
THEOREM Descent == Spec => InStatesDescend
<1>1. Init => LoopType
  BY InitLoopType
<1>2. LoopType /\ [Next]_vars => LoopType'
  BY NextKeepsLoopType
<1>3. LoopType /\ [Next]_vars =>
        [\A b \in Blocks, l \in Locals :
           Rank(in_states'[b][l]) <= Rank(in_states[b][l])]_in_states
  BY NextDescends
<1> QED BY <1>1, <1>2, <1>3, PTL DEF Spec, InStatesDescend

-----------------------------------------------------------------------------
(* Acceptance.  RunInv is kept by every step of the checker and of the run.*)

LEMMA RunInvLoopType == RunInv => LoopType
  BY DEF RunInv, LoopType

LEMMA InitRunInv ==
  ASSUME RunInit
  PROVE  RunInv
<1> USE NBlocksAssumption
<1>1. Init /\ LoopType
  BY InitLoopType DEF RunInit
<1>2. Entry \in Blocks
  BY DEF Entry, Blocks
<1>3. \A b \in Blocks : body.stmts[b] \in Seq(Stmt)
  BY <1>1, CodeType DEF LoopType
<1>4. Unreached \in PartialMap
  BY DEF Unreached, PartialMap
<1>5. PointType
  BY <1>3, <1>4 DEF RunInit, Unrecorded, PointType
<1>6. EntryStrict
  <2>1. in_states[Entry] = EntryState(body)
    BY <1>1, <1>2 DEF Init
  <2> QED BY <2>1 DEF EntryStrict, EntryState
<1>7. Working
  BY <1>1 DEF Init, Working
<1>8. Settled
  <2>1. ASSUME NEW b \in Blocks, ~in_worklist[b], NEW l \in Locals,
               in_states[b][l] # "absent"
        PROVE  FALSE
    <3>1. b # Entry
      BY <1>1, <1>2, <2>1 DEF Init
    <3>2. in_states[b] = Unreached
      BY <1>1, <3>1 DEF Init
    <3> QED BY <2>1, <3>2 DEF Unreached
  <2> QED BY <2>1 DEF Settled
<1>9. RunFollows
  <2>1. ~Accepted /\ body \in Body
    BY <1>1 DEF Init, Accepted, LoopType, TypeOK
  <2>2. body.params \in SUBSET Locals
    BY <2>1 DEF Body
  <2>3. RunCode \in Seq(Stmt)
    BY <1>2, <1>3 DEF RunInit, RunCode
  <2> QED BY <1>2, <2>1, <2>2, <2>3 DEF RunInit, RunFollows
<1> QED BY <1>1, <1>5, <1>6, <1>7, <1>8, <1>9 DEF RunInv, LoopType

(* Recording a map at one point leaves every other point alone.            *)
LEMMA PointUpdate ==
  ASSUME PointType, body' = body, idx' \in Blocks,
         stmt' \in 1 .. Len(body.stmts[idx']) + 1, state' \in PartialMap,
         point' = [point EXCEPT ![idx'][stmt'] = state']
  PROVE  /\ PointType'
         /\ point'[idx'][stmt'] = state'
         /\ \A m \in 1 .. Len(body.stmts[idx']) + 1 :
              m # stmt' => point'[idx'][m] = point[idx'][m]
         /\ \A c \in Blocks : c # idx' => point'[c] = point[c]
<1>1. point[idx'] \in [1 .. Len(body.stmts[idx']) + 1 -> PartialMap]
  BY DEF PointType
<1>2. DOMAIN point = Blocks
  BY DEF PointType
<1>3. point'[idx'] = [point[idx'] EXCEPT ![stmt'] = state']
  BY <1>2
<1>4. \A c \in Blocks : c # idx' => point'[c] = point[c]
  BY <1>2
<1>5. point'[idx'] \in [1 .. Len(body.stmts[idx']) + 1 -> PartialMap]
  BY <1>1, <1>3
<1>6. point' = [c \in Blocks |-> point'[c]]
  BY <1>2
<1>7. PointType'
  BY <1>4, <1>5, <1>6 DEF PointType
<1> QED BY <1>1, <1>3, <1>4, <1>7

LEMMA PopKeepsRunInv ==
  ASSUME RunInv, PopBlock, Record, UNCHANGED runVars
  PROVE  RunInv'
<1> USE DEF RunInv
<1>1. LoopType /\ LoopType'
  BY RunInvLoopType, PopKeepsLoopType
<1>2. /\ idx' \in Blocks /\ stmt' = 1 /\ edge' = 1 /\ pc' = "block" /\ pc = "pop"
      /\ body' = body /\ in_states' = in_states /\ diags' = diags
      /\ in_worklist' = [in_worklist EXCEPT ![idx'] = FALSE]
      /\ state' = in_states[idx'] /\ state' \in PartialMap
  BY <1>1 DEF PopBlock, LoopType, TypeOK
<1>3. stmt' \in 1 .. Len(body.stmts[idx']) + 1
  BY <1>2, CodeType
<1>4. point' = [point EXCEPT ![idx'][stmt'] = state']
  BY <1>2 DEF Record
<1>5. /\ PointType'
      /\ point'[idx'][1] = state'
      /\ \A c \in Blocks : c # idx' => point'[c] = point[c]
  BY <1>2, <1>3, <1>4, PointUpdate
<1>6. EntryStrict'
  BY <1>2 DEF EntryStrict
<1>7. Working'
  <2>1. Transferred(idx, stmt)'
    BY <1>2, <1>5 DEF Transferred
  <2>2. Flowed(idx, edge)'
    BY <1>2 DEF Flowed
  <2> QED BY <1>2, <1>5, <2>1, <2>2 DEF Working
<1>8. Settled'
  <2> SUFFICES ASSUME NEW b \in Blocks, ~in_worklist'[b], ~Busy(b)',
                      NEW l \in Locals, in_states'[b][l] # "absent"
               PROVE  /\ Transferred(b, Len(body.stmts[b]) + 1)'
                      /\ Flowed(b, Len(Successors(body.term[b])) + 1)'
    BY DEF Settled
  <2>1. b # idx' /\ ~in_worklist[b] /\ ~Busy(b)
    BY <1>2 DEF Busy, TypeOK
  <2>2. /\ Transferred(b, Len(body.stmts[b]) + 1)
        /\ Flowed(b, Len(Successors(body.term[b])) + 1)
    BY <1>2, <2>1 DEF Settled
  <2> QED BY <1>2, <1>5, <2>1, <2>2 DEF Transferred, Flowed
<1>9. RunFollows'
  BY <1>2 DEF RunFollows, Accepted, runVars, RunCode
<1> QED BY <1>1, <1>5, <1>6, <1>7, <1>8, <1>9 DEF LoopType

LEMMA StmtKeepsRunInv ==
  ASSUME RunInv, TransferStmt, Record, UNCHANGED runVars
  PROVE  RunInv'
<1> USE DEF RunInv
<1>1. LoopType /\ LoopType'
  BY RunInvLoopType, StmtKeepsLoopType
<1>2. /\ idx \in Blocks /\ idx' = idx /\ pc = "block" /\ pc' = pc
      /\ stmt' = stmt + 1 /\ edge' = edge /\ body' = body
      /\ in_states' = in_states /\ in_worklist' = in_worklist
      /\ state' = Transfer(body.stmts[idx][stmt], state) /\ state' \in PartialMap
  BY <1>1 DEF TransferStmt, LoopType, TypeOK, Code
<1>3. Len(body.stmts[idx]) \in Nat /\ stmt \in 1 .. Len(body.stmts[idx])
  BY <1>2, CodeType DEF TransferStmt, TypeOK, Code
<1>4. /\ diags \subseteq diags'
      /\ Misuses(body.stmts[idx][stmt], state) # {} => diags' # {}
  BY DEF TransferStmt, Code
<1>5. stmt' \in 1 .. Len(body.stmts[idx']) + 1
  BY <1>2, <1>3
<1>6. /\ PointType'
      /\ point'[idx][stmt + 1] = state'
      /\ \A m \in 1 .. Len(body.stmts[idx]) + 1 :
           m # stmt + 1 => point'[idx][m] = point[idx][m]
      /\ \A c \in Blocks : c # idx => point'[c] = point[c]
  <2>1. point' = [point EXCEPT ![idx'][stmt'] = state']
    BY <1>2 DEF Record
  <2> QED BY <1>2, <1>5, <2>1, PointUpdate
<1>7. EntryStrict'
  BY <1>2 DEF EntryStrict
<1>8. edge = 1 /\ state = point[idx][stmt]
  BY <1>2, <1>3 DEF Working, Code
<1>9. Working'
  <2>1. ASSUME ~in_worklist[idx]
        PROVE  Transferred(idx, stmt)'
    <3>1. Transferred(idx, stmt)
      BY <1>2, <2>1 DEF Working
    <3>2. point'[idx][1] = in_states'[idx]
      BY <1>2, <1>3, <1>6, <3>1 DEF Transferred
    <3>3. ASSUME NEW m \in 1 .. stmt
          PROVE  /\ point'[idx][m + 1] = Transfer(body.stmts[idx][m], point'[idx][m])
                 /\ Misuses(body.stmts[idx][m], point'[idx][m]) # {} => diags' # {}
      <4>1. point'[idx][m] = point[idx][m]
        BY <1>2, <1>3, <1>6
      <4>2. CASE m = stmt
        BY <1>2, <1>4, <1>6, <1>8, <4>1, <4>2
      <4>3. CASE m < stmt
        <5>1. m \in 1 .. stmt - 1 /\ m + 1 \in 1 .. Len(body.stmts[idx]) + 1
              /\ m + 1 # stmt + 1
          BY <1>2, <1>3, <4>3
        <5>2. point'[idx][m + 1] = point[idx][m + 1]
          BY <1>6, <5>1
        <5> QED BY <1>2, <1>4, <3>1, <4>1, <5>1, <5>2 DEF Transferred
      <4> QED BY <1>3, <4>2, <4>3
    <3>4. 1 .. (stmt + 1) - 1 = 1 .. stmt
      BY <1>3
    <3> QED BY <1>2, <3>2, <3>3, <3>4 DEF Transferred
  <2>2. Flowed(idx, edge)'
    BY <1>2, <1>8 DEF Flowed
  <2> QED BY <1>2, <1>6, <1>8, <2>1, <2>2 DEF Working
<1>10. Settled'
  <2> SUFFICES ASSUME NEW b \in Blocks, ~in_worklist'[b], ~Busy(b)',
                      NEW l \in Locals, in_states'[b][l] # "absent"
               PROVE  /\ Transferred(b, Len(body.stmts[b]) + 1)'
                      /\ Flowed(b, Len(Successors(body.term[b])) + 1)'
    BY DEF Settled
  <2>1. b # idx /\ ~Busy(b) /\ ~in_worklist[b]
    BY <1>2 DEF Busy
  <2>2. /\ Transferred(b, Len(body.stmts[b]) + 1)
        /\ Flowed(b, Len(Successors(body.term[b])) + 1)
    BY <1>2, <2>1 DEF Settled
  <2>3. diags # {} => diags' # {}
    BY <1>4
  <2> QED BY <1>2, <1>6, <2>1, <2>2, <2>3 DEF Transferred, Flowed
<1>11. RunFollows'
  BY <1>2 DEF RunFollows, Accepted, runVars, RunCode
<1> QED BY <1>1, <1>6, <1>7, <1>9, <1>10, <1>11 DEF LoopType

(* Steps that leave the checker at an edge: the point map does not change. *)
LEMMA RecordAtEdge ==
  ASSUME RunInv, AtEdge, Record, pc' = pc, idx' = idx, stmt' = stmt, state' = state
  PROVE  point' = point
<1>1. idx \in Blocks /\ stmt \in 1 .. Len(body.stmts[idx]) + 1 /\ pc = "block"
  BY CodeType DEF RunInv, AtEdge, TypeOK, Code
<1>2. state = point[idx][stmt]
  BY <1>1 DEF RunInv, Working
<1>3. point' = [point EXCEPT ![idx][stmt] = state]
  BY <1>1 DEF Record
<1>4. DOMAIN point = Blocks /\ point[idx] \in [1 .. Len(body.stmts[idx]) + 1 -> PartialMap]
  BY <1>1 DEF RunInv, PointType
<1>5. [point[idx] EXCEPT ![stmt] = state] = point[idx]
  BY <1>1, <1>2, <1>4
<1>6. point' = [point EXCEPT ![idx] = point[idx]]
  BY <1>3, <1>5
<1>7. point = [b \in Blocks |-> point[b]]
  BY DEF RunInv, PointType
<1> QED BY <1>4, <1>6, <1>7

LEMMA SkipKeepsRunInv ==
  ASSUME RunInv, SkipEdge, Record, UNCHANGED runVars
  PROVE  RunInv'
<1> USE DEF RunInv
<1>1. LoopType'
  BY RunInvLoopType, NextKeepsLoopType DEF Next
<1>2. point' = point
  BY RecordAtEdge DEF SkipEdge
<1>3. /\ UNCHANGED <<body, pc, in_states, in_worklist, worklist, idx, stmt, state, diags>>
      /\ edge' = edge + 1 /\ edge \in Nat \ {0} /\ pc = "block" /\ AtEdge
      /\ Succ[edge] \notin Blocks
  BY DEF SkipEdge, AtEdge, TypeOK
<1>4. Working'
  <2>1. Flowed(idx, edge)
    BY <1>3 DEF Working
  <2>2. ASSUME NEW m \in 1 .. edge,
               Successors(body.term[idx])[m] \in Blocks
        PROVE  AsStrict(in_states[Successors(body.term[idx])[m]],
                        point[idx][Len(body.stmts[idx]) + 1])
    <3>1. m \in 1 .. edge - 1
      BY <1>3, <2>2 DEF Succ
    <3> QED BY <2>1, <2>2, <3>1 DEF Flowed
  <2>3. Flowed(idx, edge)'
    <3>1. 1 .. (edge + 1) - 1 = 1 .. edge
      BY <1>3
    <3> QED BY <1>2, <1>3, <2>2, <3>1 DEF Flowed, AsStrict
  <2>4. stmt = Len(Code) + 1 /\ Len(Code) \in Nat
    BY <1>3, CodeType DEF AtEdge
  <2>5. ~(stmt' <= Len(Code'))
    BY <1>3, <2>4 DEF Code
  <2>6. ~in_worklist'[idx'] => Transferred(idx, stmt)'
    BY <1>2, <1>3 DEF Working, Transferred
  <2> QED BY <1>2, <1>3, <2>3, <2>5, <2>6 DEF Working
<1>5. Settled'
  BY <1>2, <1>3 DEF Settled, Busy, Transferred, Flowed
<1>6. PointType' /\ EntryStrict'
  BY <1>2, <1>3 DEF PointType, EntryStrict
<1>7. RunFollows'
  BY <1>2, <1>3 DEF RunFollows, Accepted, runVars, RunCode
<1> QED BY <1>1, <1>4, <1>5, <1>6, <1>7 DEF LoopType

LEMMA PropagateKeepsRunInv ==
  ASSUME RunInv, Propagate, Record, UNCHANGED runVars
  PROVE  RunInv'
<1> USE DEF RunInv
<1> DEFINE t == Succ[edge]
           in == MeetStates(in_states[t], state)
<1>1. LoopType /\ LoopType'
  BY RunInvLoopType, PropagateKeepsLoopType
<1>2. point' = point
  BY RecordAtEdge DEF Propagate
<1>3. /\ UNCHANGED <<body, pc, idx, stmt, state, diags>> /\ edge' = edge + 1
      /\ edge \in Nat \ {0} /\ pc = "block" /\ AtEdge /\ t \in Blocks
      /\ idx \in Blocks /\ Update(t, in)
  BY DEF Propagate, AtEdge, TypeOK
<1>4. state \in StateMap /\ in_states[t] \in StateMap \cup {Unreached}
  BY <1>1, <1>3, EdgeType DEF TypeOK
<1>5. /\ in \in StateMap
      /\ \A l \in Locals :
           /\ in[l] = "Init" => state[l] = "Init"
           /\ in[l] = "Init" /\ in_states[t][l] # "absent" => in_states[t][l] = "Init"
           /\ in[l] # "absent"
  BY <1>4, MeetLemma
<1>6. /\ in_states' = [in_states EXCEPT ![t] = in]
      /\ \A c \in Blocks : in_worklist[c] => in_worklist'[c]
      /\ \A c \in Blocks : ~in_worklist'[c] => in_states'[c] = in_states[c]
  BY <1>1, <1>3, <1>5, UpdateFacts
<1>7. in_states'[t] = in /\ \A c \in Blocks : c # t => in_states'[c] = in_states[c]
  BY <1>3, <1>6 DEF TypeOK
<1>8. ASSUME NEW c \in Blocks, NEW out, AsStrict(in_states[c], out)
      PROVE  AsStrict(in_states'[c], out)
  BY <1>5, <1>7, <1>8 DEF AsStrict
<1>9. EntryStrict'
  <2>1. Entry \in Blocks
    BY NBlocksAssumption DEF Entry, Blocks
  <2> QED BY <1>3, <1>5, <1>7, <2>1 DEF EntryStrict
<1>10. ASSUME NEW b \in Blocks, NEW n \in Nat, Flowed(b, n)
       PROVE  Flowed(b, n)'
  BY <1>2, <1>3, <1>8, <1>10 DEF Flowed
<1>11. Working'
  <2>1. stmt = Len(Code) + 1 /\ Len(Code) \in Nat /\ state = point[idx][stmt]
    BY <1>3, CodeType DEF AtEdge, Working
  <2>2. AsStrict(in_states'[t], point[idx][Len(body.stmts[idx]) + 1])
    <3>1. AsStrict(in, state)
      BY <1>5 DEF AsStrict
    <3> QED BY <1>7, <2>1, <3>1 DEF Code
  <2>3. Flowed(idx, edge)
    BY <1>3 DEF Working
  <2>4. ASSUME NEW m \in 1 .. edge,
               Successors(body.term[idx])[m] \in Blocks
        PROVE  AsStrict(in_states'[Successors(body.term[idx])[m]],
                        point[idx][Len(body.stmts[idx]) + 1])
    <3>1. CASE m = edge
      BY <2>2, <3>1 DEF Succ
    <3>2. CASE m # edge
      <4>1. m \in 1 .. edge - 1
        BY <1>3, <3>2
      <4> QED BY <1>8, <2>3, <2>4, <4>1 DEF Flowed
    <3> QED BY <3>1, <3>2
  <2>5. Flowed(idx, edge)'
    <3>1. 1 .. (edge + 1) - 1 = 1 .. edge
      BY <1>3
    <3> QED BY <1>2, <1>3, <2>4, <3>1 DEF Flowed
  <2>6. ~in_worklist'[idx] => Transferred(idx, stmt)'
    BY <1>2, <1>3, <1>6 DEF Working, Transferred
  <2>7. ~(stmt' <= Len(Code'))
    BY <1>3, <2>1 DEF Code
  <2> QED BY <1>2, <1>3, <2>1, <2>5, <2>6, <2>7 DEF Working
<1>12. Settled'
  <2> SUFFICES ASSUME NEW b \in Blocks, ~in_worklist'[b], ~Busy(b)',
                      NEW l \in Locals, in_states'[b][l] # "absent"
               PROVE  /\ Transferred(b, Len(body.stmts[b]) + 1)'
                      /\ Flowed(b, Len(Successors(body.term[b])) + 1)'
    BY DEF Settled
  <2>1. ~in_worklist[b] /\ ~Busy(b) /\ in_states'[b] = in_states[b]
    BY <1>3, <1>6 DEF Busy
  <2>2. /\ Transferred(b, Len(body.stmts[b]) + 1)
        /\ Flowed(b, Len(Successors(body.term[b])) + 1)
    BY <2>1 DEF Settled
  <2>3. Transferred(b, Len(body.stmts[b]) + 1)'
    BY <1>2, <1>3, <2>1, <2>2 DEF Transferred
  <2>4. Len(Successors(body.term[b])) + 1 \in Nat
    BY CodeType
  <2>5. Flowed(b, Len(Successors(body.term[b])) + 1)'
    BY <1>3, <1>10, <2>2, <2>4
  <2> QED BY <2>3, <2>5
<1>13. PointType'
  BY <1>2, <1>3 DEF PointType
<1>14. RunFollows'
  BY <1>2, <1>3 DEF RunFollows, Accepted, runVars, RunCode
<1> QED BY <1>1, <1>9, <1>11, <1>12, <1>13, <1>14 DEF LoopType

LEMMA EndKeepsRunInv ==
  ASSUME RunInv, EndBlock, Record, UNCHANGED runVars
  PROVE  RunInv'
<1> USE DEF RunInv
<1>1. LoopType'
  BY RunInvLoopType, NextKeepsLoopType DEF Next
<1>2. /\ UNCHANGED <<body, in_states, in_worklist, worklist, idx, stmt, edge, state, diags>>
      /\ pc = "block" /\ pc' = "pop" /\ point' = point
      /\ stmt = Len(Code) + 1 /\ edge = Len(Succ) + 1
  BY DEF EndBlock, Record
<1>3. Settled'
  <2> SUFFICES ASSUME NEW b \in Blocks, ~in_worklist'[b],
                      NEW l \in Locals, in_states'[b][l] # "absent"
               PROVE  /\ Transferred(b, Len(body.stmts[b]) + 1)'
                      /\ Flowed(b, Len(Successors(body.term[b])) + 1)'
    BY DEF Settled
  <2>1. /\ Transferred(b, Len(body.stmts[b]) + 1)
        /\ Flowed(b, Len(Successors(body.term[b])) + 1)
    <3>1. CASE b = idx
      BY <1>2, <3>1 DEF Working, Code, Succ
    <3>2. CASE b # idx
      BY <1>2, <3>2 DEF Settled, Busy
    <3> QED BY <3>1, <3>2
  <2> QED BY <1>2, <2>1 DEF Transferred, Flowed
<1>4. Working' /\ EntryStrict' /\ PointType'
  BY <1>2 DEF Working, EntryStrict, PointType
<1>5. RunFollows'
  BY <1>2 DEF RunFollows, Accepted, runVars, RunCode
<1> QED BY <1>1, <1>3, <1>4, <1>5 DEF LoopType

(* The checker is through: if it has nothing to report, the run may start. *)
LEMMA FinishKeepsRunInv ==
  ASSUME RunInv, Finish, Record, UNCHANGED runVars
  PROVE  RunInv'
<1> USE DEF RunInv
<1>1. LoopType'
  BY RunInvLoopType, NextKeepsLoopType DEF Next
<1>2. /\ UNCHANGED <<body, in_states, in_worklist, worklist, idx, stmt, edge, state, diags>>
      /\ pc = "pop" /\ pc' = "done" /\ point' = point /\ worklist = <<>>
  BY DEF Finish, Record
<1>3. Settled'
  BY <1>2 DEF Settled, Busy, Transferred, Flowed
<1>4. Working' /\ EntryStrict' /\ PointType'
  BY <1>2 DEF Working, EntryStrict, PointType
<1>5. /\ at = Entry /\ pos = 1 /\ live = body.params
      /\ at' = at /\ pos' = pos /\ live' = live
  BY <1>2 DEF RunFollows, Accepted, runVars
<1>6. ASSUME NEW l \in Locals
      PROVE  /\ in_states[Entry][l] # "absent"
             /\ point[Entry][1][l] # "absent"
             /\ point[Entry][1][l] = "Init" => l \in body.params
  <2>1. Entry \in Blocks
    BY NBlocksAssumption DEF Entry, Blocks
  <2>2. ~in_worklist[Entry] /\ ~Busy(Entry)
    BY <1>2, <2>1 DEF QueueMatchesFlags, Busy
  <2>3. in_states[Entry][l] # "absent"
    BY DEF EntryStrict
  <2>4. point[Entry][1] = in_states[Entry]
    BY <2>1, <2>2, <2>3 DEF Settled, Transferred
  <2> QED BY <2>3, <2>4 DEF EntryStrict
<1>7. RunFollows'
  <2>1. RunCode' = RunCode
    BY <1>2, <1>5 DEF RunCode
  <2>2. \A b \in Blocks : ~in_worklist'[b]
    BY <1>2 DEF QueueMatchesFlags
  <2> QED BY <1>2, <1>5, <1>6, <2>1, <2>2 DEF RunFollows, Accepted
<1> QED BY <1>1, <1>3, <1>4, <1>7 DEF LoopType

(* Once the body is accepted every block a run is in has been transferred  *)
(* without a misuse, and its out-state met into its successors.            *)
LEMMA AcceptedBlock ==
  ASSUME RunInv, Accepted, NEW b \in Blocks, NEW l \in Locals,
         in_states[b][l] # "absent"
  PROVE  /\ Transferred(b, Len(body.stmts[b]) + 1)
         /\ Flowed(b, Len(Successors(body.term[b])) + 1)
  BY DEF RunInv, Settled, Busy, Accepted, RunFollows

(* The statement an accepted program is about to run was transferred from  *)
(* the map recorded there, and misuses nothing of it.                      *)
LEMMA AcceptedPoint ==
  ASSUME RunInv, Accepted, pos <= Len(RunCode), NEW l \in Locals
  PROVE  /\ RunCode[pos] \in Stmt
         /\ point[at][pos] \in StateMap
         /\ point[at][pos + 1] = Transfer(RunCode[pos], point[at][pos])
         /\ Misuses(RunCode[pos], point[at][pos]) = {}
<1>1. /\ at \in Blocks /\ pos \in 1 .. Len(RunCode) + 1 /\ diags = {}
      /\ in_states[at][l] # "absent"
      /\ \A m \in Locals : point[at][pos][m] # "absent"
  BY DEF RunInv, RunFollows, Accepted
<1>2. /\ RunCode \in Seq(Stmt) /\ RunCode = body.stmts[at]
      /\ Len(RunCode) \in Nat
  BY <1>1, CodeType DEF RunInv, RunCode
<1>3. pos \in 1 .. Len(RunCode)
  BY <1>1, <1>2
<1>4. Transferred(at, Len(RunCode) + 1)
  BY <1>1, <1>2, AcceptedBlock
<1>5. point[at][pos] \in PartialMap
  BY <1>1, <1>2 DEF RunInv, PointType
<1>6. point[at][pos] \in StateMap
  BY <1>1, <1>5 DEF PartialMap, StateMap
<1>7. pos \in 1 .. (Len(RunCode) + 1) - 1
  BY <1>2, <1>3
<1>8. RunCode[pos] \in Stmt
  BY <1>2, <1>3
<1>9. /\ point[at][pos + 1] = Transfer(RunCode[pos], point[at][pos])
      /\ Misuses(RunCode[pos], point[at][pos]) # {} => diags # {}
  BY <1>2, <1>4, <1>7 DEF Transferred
<1> QED BY <1>1, <1>6, <1>8, <1>9

(* A step of the accepted program: what the checker took for live before   *)
(* the statement is live, so what it takes for live after it is too.       *)
LEMMA RunStmtKeepsRunInv ==
  ASSUME RunInv, RunStmt
  PROVE  RunInv'
<1> USE DEF RunInv
<1>1. /\ Accepted /\ UNCHANGED <<vars, point, at>> /\ pos' = pos + 1
      /\ pos <= Len(RunCode) /\ live' = After(RunCode[pos], live)
  BY DEF RunStmt
<1>2. /\ at \in Blocks /\ pos \in 1 .. Len(RunCode) + 1 /\ live \in SUBSET Locals
      /\ RunCode \in Seq(Stmt) /\ Len(RunCode) \in Nat
  BY CodeType DEF RunFollows, RunCode
<1>3. RunCode[pos] \in Stmt
  BY <1>1, <1>2
<1>4. After(RunCode[pos], live) \in SUBSET Locals
  BY <1>2, <1>3 DEF After, Stmt
<1>5. ASSUME NEW l \in Locals
      PROVE  /\ point[at][pos + 1][l] # "absent"
             /\ point[at][pos + 1][l] = "Init" => l \in live'
  <2>1. /\ point[at][pos] \in StateMap
        /\ point[at][pos + 1] = Transfer(RunCode[pos], point[at][pos])
        /\ Misuses(RunCode[pos], point[at][pos]) = {}
    BY <1>1, AcceptedPoint
  <2>2. \A m \in Locals : point[at][pos][m] = "Init" => m \in live
    BY <1>1 DEF RunFollows
  <2>3. point[at][pos + 1][l] = "Init" => l \in After(RunCode[pos], live)
    BY <1>2, <1>3, <2>1, <2>2, TransferSound
  <2>4. point[at][pos + 1] \in StateMap
    BY <1>3, <2>1, TransferType
  <2> QED BY <1>1, <2>3, <2>4 DEF StateMap, State
<1>6. RunFollows'
  <2>1. RunCode' = RunCode /\ (Accepted' <=> Accepted)
    BY <1>1 DEF RunCode, Accepted, vars
  <2>2. pos' \in 1 .. Len(RunCode) + 1
    BY <1>1, <1>2
  <2>3. /\ \A b \in Blocks : ~in_worklist[b]
        /\ \A l \in Locals : in_states[at][l] # "absent"
    BY <1>1 DEF RunFollows
  <2>4. UNCHANGED <<in_worklist, in_states, point, at>>
    BY <1>1 DEF vars
  <2> QED BY <1>1, <1>2, <1>4, <1>5, <2>1, <2>2, <2>3, <2>4 DEF RunFollows
<1>7. (TypeOK /\ QueueMatchesFlags)'
  BY <1>1, StutterKeepsLoopType DEF LoopType
<1> QED BY <1>1, <1>6, <1>7
        DEF vars, PointType, QueuedReached, EntryStrict, Working, Settled, Busy,
            Transferred, Flowed, Code, Succ

(* A jump: the out-state was met into the target, which is at the fixpoint *)
(* and at least as strict.                                                 *)
LEMMA RunJumpKeepsRunInv ==
  ASSUME RunInv, RunJump
  PROVE  RunInv'
<1> USE DEF RunInv
<1>1. /\ Accepted /\ UNCHANGED <<vars, point, live>> /\ pos' = 1
      /\ pos = Len(RunCode) + 1 /\ at' \in Blocks
  BY DEF RunJump
<1>2. /\ at \in Blocks /\ live \in SUBSET Locals
      /\ Len(Successors(body.term[at])) \in Nat /\ body.stmts[at'] \in Seq(Stmt)
  BY <1>1, CodeType DEF RunFollows
<1>3. PICK n \in DOMAIN Successors(body.term[at]) :
        at' = Successors(body.term[at])[n]
  BY DEF RunJump
<1>4. n \in 1 .. (Len(Successors(body.term[at])) + 1) - 1
  BY <1>2, <1>3, CodeType
<1>5. ASSUME NEW l \in Locals
      PROVE  /\ in_states[at'][l] # "absent"
             /\ point[at'][1][l] # "absent"
             /\ point[at'][1][l] = "Init" => l \in live
  <2>1. in_states[at][l] # "absent"
    BY <1>1 DEF RunFollows
  <2>2. Flowed(at, Len(Successors(body.term[at])) + 1)
    BY <1>1, <1>2, <2>1, AcceptedBlock
  <2>3. AsStrict(in_states[at'], point[at][Len(RunCode) + 1])
    BY <1>1, <1>3, <1>4, <2>2 DEF Flowed, RunCode
  <2>4. /\ in_states[at'][l] # "absent"
        /\ in_states[at'][l] = "Init" => point[at][pos][l] = "Init"
    BY <1>1, <2>3 DEF AsStrict
  <2>5. Transferred(at', Len(body.stmts[at']) + 1)
    <3>1. at' \in Blocks
      BY <1>1
    <3> HIDE DEF RunInv
    <3> QED BY <1>1, <2>4, <3>1, AcceptedBlock
  <2>6. point[at'][1] = in_states[at']
    BY <2>5 DEF Transferred
  <2> QED BY <1>1, <2>4, <2>6 DEF RunFollows
<1>6. RunFollows'
  <2>1. (Accepted' <=> Accepted) /\ RunCode' = body.stmts[at']
    BY <1>1 DEF RunCode, Accepted, vars
  <2>2. 1 \in 1 .. Len(body.stmts[at']) + 1
    BY <1>2
  <2>3. \A b \in Blocks : ~in_worklist[b]
    BY <1>1 DEF RunFollows
  <2>4. UNCHANGED <<in_worklist, in_states, point, live>>
    BY <1>1 DEF vars
  <2> QED BY <1>1, <1>2, <1>5, <2>1, <2>2, <2>3, <2>4 DEF RunFollows
<1>7. (TypeOK /\ QueueMatchesFlags)'
  BY <1>1, StutterKeepsLoopType DEF LoopType
<1> QED BY <1>1, <1>6, <1>7
        DEF vars, PointType, QueuedReached, EntryStrict, Working, Settled, Busy,
            Transferred, Flowed, Code, Succ

LEMMA CheckStepKeepsRunInv ==
  ASSUME RunInv, CheckStep
  PROVE  RunInv'
<1>1. CASE PopBlock
  BY <1>1, PopKeepsRunInv DEF CheckStep
<1>2. CASE TransferStmt
  BY <1>2, StmtKeepsRunInv DEF CheckStep
<1>3. CASE SkipEdge
  BY <1>3, SkipKeepsRunInv DEF CheckStep
<1>4. CASE Propagate
  BY <1>4, PropagateKeepsRunInv DEF CheckStep
<1>5. CASE EndBlock
  BY <1>5, EndKeepsRunInv DEF CheckStep
<1>6. CASE Finish
  BY <1>6, FinishKeepsRunInv DEF CheckStep
<1> QED BY <1>1, <1>2, <1>3, <1>4, <1>5, <1>6 DEF CheckStep, Next

LEMMA StutterKeepsRunInv ==
  ASSUME RunInv, UNCHANGED allVars
  PROVE  RunInv'
<1>1. (TypeOK /\ QueueMatchesFlags)'
  BY StutterKeepsLoopType DEF LoopType, RunInv, allVars
<1> QED BY <1>1
    DEF RunInv, allVars, runVars, vars, PointType, QueuedReached, EntryStrict,
        Working, Settled, Busy, Transferred, Flowed, Code, Succ, RunFollows,
        RunCode, Accepted

(* What the checker promises about a program it accepts (OWNERSHIP.md,     *)
(* first paragraph): no path of it, through any number of loops, reads,    *)
(* moves or drops a local that holds no live value.                        *)
THEOREM Acceptance == RunSpec => []AcceptedRunsClean
<1>1. RunInit => RunInv
  BY InitRunInv
<1>2. RunInv /\ [RunNext]_allVars => RunInv'
  BY CheckStepKeepsRunInv, RunStmtKeepsRunInv, RunJumpKeepsRunInv, StutterKeepsRunInv
     DEF RunNext
<1>3. RunInv => AcceptedRunsClean
  <2> SUFFICES ASSUME RunInv, Accepted, pos <= Len(RunCode),
                      NEW l \in Faults(RunCode[pos], live)
               PROVE  FALSE
    BY DEF AcceptedRunsClean
  <2>1. /\ at \in Blocks /\ pos \in 1 .. Len(RunCode) + 1 /\ live \in SUBSET Locals
        /\ RunCode \in Seq(Stmt) /\ Len(RunCode) \in Nat
    BY CodeType DEF RunInv, RunFollows, RunCode
  <2>2. RunCode[pos] \in Stmt
    BY <2>1
  <2>3. l \in Locals
    BY <2>2 DEF Faults, Reads, Stmt
  <2>4. /\ point[at][pos] \in StateMap
        /\ Misuses(RunCode[pos], point[at][pos]) = {}
    BY <2>3, AcceptedPoint
  <2>5. \A m \in Locals : point[at][pos][m] = "Init" => m \in live
    BY DEF RunInv, RunFollows
  <2>6. Faults(RunCode[pos], live) = {}
    BY <2>1, <2>2, <2>4, <2>5, TransferSound
  <2> QED BY <2>6
<1> QED BY <1>1, <1>2, <1>3, PTL DEF RunSpec

-----------------------------------------------------------------------------
(* The verdict.  Runs as the positions they come to, with the live locals  *)
(* they carry.                                                             *)
Positions == Blocks \X (Nat \ {0}) \X SUBSET Locals

(* Where every run starts.                                                 *)
Start == <<Entry, 1, body.params>>

(* What runs come to.                                                      *)
Paths == PathPositions(body, After, body.params, PathBound)

(* R holds the start of every run, and wherever it goes on.                *)
Ways(R) ==
  /\ Start \in R
  /\ R \subseteq Positions
  /\ \A p \in R :
       IF p[2] <= Len(body.stmts[p[1]])
       THEN <<p[1], p[2] + 1, After(body.stmts[p[1]][p[2]], p[3])>> \in R
       ELSE \A n \in DOMAIN Successors(body.term[p[1]]) :
              Successors(body.term[p[1]])[n] \in Blocks =>
                <<Successors(body.term[p[1]])[n], 1, p[3]>> \in R

(* The parts of a position.                                                *)
LEMMA PositionParts ==
  ASSUME NEW p \in Positions
  PROVE  /\ p[1] \in Blocks /\ p[2] \in Nat \ {0} /\ p[3] \in SUBSET Locals
         /\ p = <<p[1], p[2], p[3]>>
BY DEF Positions

(* What a run does next.                                                   *)
LEMMA MoveParts ==
  ASSUME NEW p
  PROVE  Moves(body, After, p) =
           IF p[2] <= Len(body.stmts[p[1]])
           THEN {<<p[1], p[2] + 1, After(body.stmts[p[1]][p[2]], p[3])>>}
           ELSE {<<Successors(body.term[p[1]])[n], 1, p[3]>> :
                   n \in {m \in DOMAIN Successors(body.term[p[1]]) :
                            Successors(body.term[p[1]])[m] \in Blocks}}
BY DEF Moves

(* The live locals are locals.                                             *)
LEMMA AfterTyped ==
  ASSUME NEW s \in Stmt, NEW c \in SUBSET Locals
  PROVE  After(s, c) \in SUBSET Locals
BY DEF After, Stmt

(* The code and the edges of a body.                                       *)
LEMMA BodyParts ==
  ASSUME body \in Body, NEW b \in Blocks
  PROVE  /\ body.stmts[b] \in Seq(Stmt) /\ Len(body.stmts[b]) \in Nat
         /\ \A n \in 1 .. Len(body.stmts[b]) : body.stmts[b][n] \in Stmt
         /\ Successors(body.term[b]) \in Seq(Nat)
         /\ Len(Successors(body.term[b])) \in Nat
         /\ DOMAIN Successors(body.term[b]) = 1 .. Len(Successors(body.term[b]))
<1>1. body.stmts[b] \in Seq(Stmt) /\ body.term[b] \in Terminator
  BY DEF Body
<1>2. \A t \in Terminator : Successors(t) \in Seq(Nat)
  BY DEF Terminator, Successors
<1> QED BY <1>1, <1>2

(* Walks come to the start, only to positions, and to nothing that ways    *)
(* leave out.                                                              *)
LEMMA PathsAre ==
  ASSUME body \in Body, PathBound \in Nat
  PROVE  /\ Start \in Paths /\ Paths \subseteq Positions
         /\ \A S : Ways(S) => Paths \subseteq S
<1> DEFINE P == Positions
           Go(p) == Moves(body, After, p)
           G == [p \in P |-> Go(p)]
           On(x) == x \cup UNION {Go(p) : p \in x}
           At(f, n) == IF n = 0 THEN {Start} ELSE On(f[n - 1])
           E(f) == f = [n \in 0 .. PathBound |-> At(f, n)]
           reach == CHOOSE f : E(f)
<1>1. \A p \in P : Go(p) \in SUBSET P
  <2> TAKE p \in P
  <2>1. p[1] \in Blocks /\ p[2] \in Nat \ {0} /\ p[3] \in SUBSET Locals
    BY PositionParts
  <2>2. CASE p[2] <= Len(body.stmts[p[1]])
    <3>1. body.stmts[p[1]][p[2]] \in Stmt
      BY <2>1, <2>2, BodyParts
    <3>2. After(body.stmts[p[1]][p[2]], p[3]) \in SUBSET Locals
      BY <2>1, <3>1, AfterTyped
    <3> QED BY <2>1, <2>2, <3>2 DEF Moves, Positions
  <2>3. CASE ~(p[2] <= Len(body.stmts[p[1]]))
    BY <2>1, <2>3 DEF Moves, Positions
  <2> QED BY <2>2, <2>3
<1>2. {Start} \in SUBSET P
  <2>1. body.params \in SUBSET Locals
    BY DEF Body
  <2> QED BY <2>1, NBlocksAssumption DEF Start, Positions, Entry, Blocks
<1>3. Paths = reach[PathBound]
  BY DEF Paths, PathPositions, Start
<1> HIDE DEF P, Go
<1>4. G \in [P -> SUBSET P] /\ \A p \in P : G[p] = Go(p)
  BY <1>1
<1> HIDE DEF G
<1>5. \A x \in SUBSET P : Further(G, x) = On(x)
  BY <1>4 DEF Further
<1> HIDE DEF On
<1>6. PICK f : Spreads(f, {Start}, G, PathBound) /\ \A n \in 0 .. PathBound : f[n] \subseteq P
  BY <1>2, <1>4, SpreadExists
<1>7. E(f)
  <2>1. \A n \in 0 .. PathBound : n # 0 => f[n - 1] \in SUBSET P
    BY <1>6
  <2> QED BY <1>5, <1>6, <2>1 DEF Spreads
<1>8. E(reach)
  BY <1>7
<1> HIDE DEF reach
<1>9. /\ reach[0] = {Start}
      /\ \A n \in Nat : n < PathBound /\ reach[n] \subseteq P =>
           reach[n + 1] = Further(G, reach[n])
  <2>1. \A n \in 0 .. PathBound : reach[n] = At(reach, n)
    BY <1>8
  <2>2. \A n \in Nat : n < PathBound => n + 1 \in 0 .. PathBound /\ (n + 1) # 0 /\ (n + 1) - 1 = n
    OBVIOUS
  <2> QED BY <1>5, <2>1, <2>2
<1>10. ASSUME NEW S, Ways(S)
       PROVE  S \in SUBSET P /\ {Start} \subseteq S /\ \A p \in S : G[p] \subseteq S
  <2>1. S \in SUBSET P /\ {Start} \subseteq S
    BY <1>10 DEF Ways, P
  <2>2. ASSUME NEW p \in S PROVE Go(p) \subseteq S
    <3>1. Go(p) = IF p[2] <= Len(body.stmts[p[1]])
                  THEN {<<p[1], p[2] + 1, After(body.stmts[p[1]][p[2]], p[3])>>}
                  ELSE {<<Successors(body.term[p[1]])[n], 1, p[3]>> :
                          n \in {m \in DOMAIN Successors(body.term[p[1]]) :
                                   Successors(body.term[p[1]])[m] \in Blocks}}
      BY MoveParts DEF Go
    <3>2. CASE p[2] <= Len(body.stmts[p[1]])
      BY <1>10, <3>1, <3>2 DEF Ways
    <3>3. CASE ~(p[2] <= Len(body.stmts[p[1]]))
      <4>1. \A n \in DOMAIN Successors(body.term[p[1]]) :
              Successors(body.term[p[1]])[n] \in Blocks =>
                <<Successors(body.term[p[1]])[n], 1, p[3]>> \in S
        BY <1>10, <3>3 DEF Ways
      <4> QED BY <3>1, <3>3, <4>1
    <3> QED BY <3>2, <3>3
  <2> QED BY <1>4, <2>1, <2>2
<1> DEFINE A == {Start}
<1>11. A \in SUBSET P /\ GoesOn(reach, A, G, PathBound, P)
  BY <1>2, <1>9 DEF GoesOn
<1> HIDE DEF A
<1>12. Spread(Paths, A, G, P)
  BY <1>3, <1>4, <1>11, SpreadIs
<1> QED BY <1>10, <1>12 DEF P, A, Spread

(* Walks that are long enough are ways.                                    *)
LEMMA PathsAreWays ==
  ASSUME RunsCovered(Bodies), body \in Bodies
  PROVE  Ways(Paths)
<1>1. body \in Body /\ PathBound \in Nat
  BY BodiesAssumption DEF RunsCovered
<1>2. Start \in Paths /\ Paths \subseteq Positions
  BY <1>1, PathsAre
<1>3. \A p \in Paths : Moves(body, After, p) \subseteq Paths
  BY DEF RunsCovered, Covered, Paths
<1>4. ASSUME NEW p \in Paths
      PROVE  IF p[2] <= Len(body.stmts[p[1]])
             THEN <<p[1], p[2] + 1, After(body.stmts[p[1]][p[2]], p[3])>> \in Paths
             ELSE \A n \in DOMAIN Successors(body.term[p[1]]) :
                    Successors(body.term[p[1]])[n] \in Blocks =>
                      <<Successors(body.term[p[1]])[n], 1, p[3]>> \in Paths
  BY <1>3, MoveParts
<1> QED BY <1>2, <1>4 DEF Ways

-----------------------------------------------------------------------------
(* Nothing is made up: R accounts for what the checker knows and reports.  *)

(* Some way comes to statement n of block b.                               *)
Comes(R, b, n) == \E p \in R : p[1] = b /\ p[2] = n

(* Some way comes there with l dead.                                       *)
Dead(R, b, n, l) == \E p \in R : p[1] = b /\ p[2] = n /\ l \notin p[3]

(* Some way comes to a statement it faults at.                             *)
Blames(R) ==
  \E p \in R : /\ p[2] <= Len(body.stmts[p[1]])
              /\ Faults(body.stmts[p[1]][p[2]], p[3]) # {}

(* A block is queued, worked on or has a map because ways of R come to it; *)
(* what is not live for the checker is dead on one of them; and what it    *)
(* reports is a fault of one.                                              *)
Backed(R) ==
  /\ \A b \in Blocks : in_worklist[b] => Comes(R, b, 1)
  /\ \A b \in Blocks, l \in Locals : in_states[b][l] # "absent" => Comes(R, b, 1)
  /\ \A b \in Blocks, l \in Locals :
       in_states[b][l] \notin {"absent", "Init"} => Dead(R, b, 1, l)
  /\ pc = "block" =>
       /\ Comes(R, idx, stmt)
       /\ \A l \in Locals : state[l] # "Init" => Dead(R, idx, stmt, l)
  /\ diags # {} => Blames(R)

(* So it is with every set of ways.                                        *)
Backing == \A R : Ways(R) => Backed(R)

(* The ways of a body are those of the step before.                        *)
LEMMA WaysKept ==
  ASSUME body' = body, NEW R
  PROVE  Ways(R)' <=> Ways(R)
BY DEF Ways, Start

(* The checker starts where every run does, with the parameters live.      *)
LEMMA InitBacking ==
  ASSUME Init
  PROVE  Backing
<1> SUFFICES ASSUME NEW R, Ways(R) PROVE Backed(R)
  BY DEF Backing
<1>1. /\ pc = "pop" /\ diags = {} /\ body.params \in SUBSET Locals
      /\ in_states = [b \in Blocks |-> IF b = Entry THEN EntryState(body) ELSE Unreached]
      /\ in_worklist = [b \in Blocks |-> b = Entry]
  BY BodiesAssumption DEF Init, Body
<1>2. Start \in R /\ Start[1] = Entry /\ Start[2] = 1 /\ Start[3] = body.params
  BY DEF Ways, Start
<1>3. \A b \in Blocks : in_worklist[b] => Comes(R, b, 1)
  BY <1>1, <1>2 DEF Comes
<1>4. ASSUME NEW b \in Blocks, NEW l \in Locals, in_states[b][l] \notin {"absent", "Init"}
      PROVE  Dead(R, b, 1, l)
  <2>1. b = Entry /\ l \notin body.params
    BY <1>1, <1>4 DEF Unreached, EntryState
  <2> QED BY <1>2, <2>1 DEF Dead
<1>5. \A b \in Blocks, l \in Locals : in_states[b][l] # "absent" => Comes(R, b, 1)
  BY <1>1, <1>2 DEF Comes, Unreached
<1> QED BY <1>1, <1>3, <1>4, <1>5 DEF Backed

LEMMA PopKeepsBacking ==
  ASSUME LoopType, Backing, PopBlock
  PROVE  Backing'
<1> SUFFICES ASSUME NEW R, Ways(R)' PROVE Backed(R)'
  BY DEF Backing
<1>1. /\ body' = body /\ in_states' = in_states /\ diags' = diags
      /\ worklist \in Seq(Blocks) /\ worklist # <<>> /\ idx' = worklist[Len(worklist)]
      /\ in_worklist' = [in_worklist EXCEPT ![idx'] = FALSE]
      /\ state' = in_states[idx'] /\ stmt' = 1 /\ pc' = "block"
  BY DEF PopBlock, LoopType, TypeOK
<1>2. Backed(R)
  BY <1>1, WaysKept DEF Backing
<1>3. Len(worklist) \in DOMAIN worklist /\ idx' \in Blocks /\ in_worklist[idx']
  BY <1>1 DEF LoopType, QueueMatchesFlags
<1>4. Comes(R, idx', 1)
  BY <1>2, <1>3 DEF Backed
<1>5. ASSUME NEW l \in Locals, state'[l] # "Init"
      PROVE  Dead(R, idx', 1, l)
  <2>1. in_states[idx'][l] \in State
    BY <1>3 DEF LoopType, QueuedReached, StateMap
  <2>2. in_states[idx'][l] \notin {"absent", "Init"}
    BY <1>1, <1>5, <2>1 DEF State
  <2> QED BY <1>2, <1>3, <2>2 DEF Backed
<1>6. \A b \in Blocks : in_worklist'[b] => in_worklist[b]
  BY <1>1 DEF LoopType, TypeOK
<1>7. Blames(R)' <=> Blames(R)
  BY <1>1 DEF Blames
<1>8. Backed(R)' <=>
        /\ \A b \in Blocks : in_worklist'[b] => Comes(R, b, 1)
        /\ \A b \in Blocks, l \in Locals : in_states'[b][l] # "absent" => Comes(R, b, 1)
        /\ \A b \in Blocks, l \in Locals :
             in_states'[b][l] \notin {"absent", "Init"} => Dead(R, b, 1, l)
        /\ pc' = "block" =>
             /\ Comes(R, idx', stmt')
             /\ \A l \in Locals : state'[l] # "Init" => Dead(R, idx', stmt', l)
        /\ diags' # {} => Blames(R)'
  BY DEF Backed, Comes, Dead
<1> QED BY <1>1, <1>2, <1>4, <1>5, <1>6, <1>7, <1>8 DEF Backed

(* What a statement makes dead, and what it reports, is so on a way.       *)
LEMMA StmtBacked ==
  ASSUME body \in Body, NEW R, Ways(R), NEW b \in Blocks,
         NEW n \in 1 .. Len(body.stmts[b]), NEW st \in StateMap,
         Comes(R, b, n), \A l \in Locals : st[l] # "Init" => Dead(R, b, n, l)
  PROVE  /\ Comes(R, b, n + 1)
         /\ \A l \in Locals :
              Transfer(body.stmts[b][n], st)[l] # "Init" => Dead(R, b, n + 1, l)
         /\ Misuses(body.stmts[b][n], st) # {} => Blames(R)
<1> DEFINE s == body.stmts[b][n]
<1>1. s \in Stmt /\ n <= Len(body.stmts[b])
  BY BodyParts
<1>2. Reads(s) \subseteq Locals /\ s.dest \in Locals
  BY <1>1 DEF Reads, Stmt
<1>3. ASSUME NEW p \in R, p[1] = b, p[2] = n
      PROVE  <<b, n + 1, After(s, p[3])>> \in R
  BY <1>1, <1>3 DEF Ways
<1>4. ASSUME NEW p \in R, p[1] = b, p[2] = n, NEW l, l \in Faults(s, p[3])
      PROVE  Blames(R)
  BY <1>1, <1>4 DEF Blames
<1> HIDE DEF s
<1>5. Comes(R, b, n + 1)
  <2>1. PICK p \in R : p[1] = b /\ p[2] = n
    BY DEF Comes
  <2>2. <<b, n + 1, After(s, p[3])>> \in R
    BY <1>3, <2>1
  <2> QED BY <2>2 DEF Comes
<1>6. ASSUME NEW l \in Locals, Transfer(s, st)[l] # "Init"
      PROVE  Dead(R, b, n + 1, l)
  <2>1. PICK p \in R : p[1] = b /\ p[2] = n /\ l \notin After(s, p[3])
    <3>1. CASE st[l] # "Init"
      <4>1. PICK p \in R : p[1] = b /\ p[2] = n /\ l \notin p[3]
        BY <3>1 DEF Dead
      <4>2. ~(s.op \in {"assign", "call"} /\ l = s.dest)
        BY <1>2, <1>6 DEF Transfer, MoveOut
      <4>3. l \notin After(s, p[3])
        BY <4>1, <4>2 DEF After
      <4> QED BY <4>1, <4>3
    <3>2. CASE st[l] = "Init"
      <4>1. PICK p \in R : p[1] = b /\ p[2] = n
        BY DEF Comes
      <4>2. CASE s.op \in {"assign", "call"}
        <5>1. l # s.dest /\ MoveOut(s, st)[l] # "Init"
          BY <1>2, <1>6, <4>2 DEF Transfer, MoveOut
        <5>2. IsMove(s) /\ l \in Reads(s)
          BY <3>2, <5>1 DEF MoveOut
        <5> QED BY <4>1, <4>2, <5>1, <5>2 DEF After
      <4>3. CASE s.op = "assert"
        BY <1>6, <3>2, <4>3 DEF Transfer
      <4>4. CASE s.op \in {"live", "dead", "drop"}
        <5>1. l = s.dest
          BY <1>6, <3>2, <4>4 DEF Transfer, StateMap
        <5>2. l \notin After(s, p[3])
          BY <4>4, <5>1 DEF After
        <5> QED BY <4>1, <5>2
      <4> QED BY <1>1, <4>2, <4>3, <4>4 DEF Stmt
    <3> QED BY <3>1, <3>2
  <2>2. <<b, n + 1, After(s, p[3])>> \in R
    BY <1>3, <2>1
  <2> QED BY <2>1, <2>2 DEF Dead
<1>7. ASSUME Misuses(s, st) # {}
      PROVE  Blames(R)
  <2>1. PICK l \in Locals : st[l] # "Init" /\ (l \in Reads(s) \/ (s.op = "drop" /\ l = s.dest))
    BY <1>2, <1>7 DEF Misuses
  <2>2. PICK p \in R : p[1] = b /\ p[2] = n /\ l \notin p[3]
    BY <2>1 DEF Dead
  <2>3. l \in Faults(s, p[3])
    BY <2>1, <2>2 DEF Faults
  <2> QED BY <1>4, <2>2, <2>3
<1> QED BY <1>5, <1>6, <1>7 DEF s

LEMMA StmtKeepsBacking ==
  ASSUME LoopType, Backing, TransferStmt
  PROVE  Backing'
<1> SUFFICES ASSUME NEW R, Ways(R)' PROVE Backed(R)'
  BY DEF Backing
<1>1. /\ body' = body /\ body \in Body /\ in_states' = in_states /\ in_worklist' = in_worklist
      /\ pc = "block" /\ idx' = idx /\ idx \in Blocks /\ stmt' = stmt + 1
      /\ stmt \in Nat \ {0} /\ stmt <= Len(body.stmts[idx]) /\ state \in StateMap
      /\ state' = Transfer(body.stmts[idx][stmt], state)
  BY DEF TransferStmt, LoopType, TypeOK, Code
<1>2. Ways(R) /\ Backed(R)
  BY <1>1, WaysKept DEF Backing
<1>3. stmt \in 1 .. Len(body.stmts[idx])
  BY <1>1, BodyParts
<1>4. /\ Comes(R, idx, stmt + 1)
      /\ \A l \in Locals : state'[l] # "Init" => Dead(R, idx, stmt + 1, l)
      /\ Misuses(body.stmts[idx][stmt], state) # {} => Blames(R)
  BY <1>1, <1>2, <1>3, StmtBacked DEF Backed
<1>5. diags' # {} => diags # {} \/ Misuses(body.stmts[idx][stmt], state) # {}
  BY DEF TransferStmt, Code
<1>6. Blames(R)' <=> Blames(R)
  BY <1>1 DEF Blames
<1>7. diags' # {} => Blames(R)'
  BY <1>2, <1>4, <1>5, <1>6 DEF Backed
<1> QED BY <1>1, <1>2, <1>4, <1>7 DEF Backed, Comes, Dead

(* What meeting makes of a local that is not live on both sides.           *)
LEMMA MeetBacked ==
  ASSUME NEW a \in StateMap \cup {Unreached}, NEW c \in StateMap, NEW l \in Locals,
         MeetStates(a, c)[l] # "Init"
  PROVE  a[l] \notin {"absent", "Init"} \/ c[l] # "Init"
<1>1. MeetStates(a, c)[l] = CASE c[l] = "absent" -> a[l]
                              [] a[l] = "absent" -> c[l]
                              [] OTHER -> Meet(a[l], c[l])
  BY DEF MeetStates
<1>2. c[l] \in State /\ c[l] # "absent"
  BY DEF StateMap, State
<1>3. CASE a[l] = "absent"
  BY <1>1, <1>2, <1>3
<1>4. CASE a[l] # "absent"
  <2>1. MeetStates(a, c)[l] = Meet(a[l], c[l])
    BY <1>1, <1>2, <1>4
  <2> QED BY <1>4, <2>1 DEF Meet
<1> QED BY <1>3, <1>4

LEMMA PropagateKeepsBacking ==
  ASSUME LoopType, Backing, Propagate
  PROVE  Backing'
<1> SUFFICES ASSUME NEW R, Ways(R)' PROVE Backed(R)'
  BY DEF Backing
<1> DEFINE t == Succ[edge]
           in == MeetStates(in_states[t], state)
<1>1. /\ UNCHANGED <<body, pc, idx, stmt, state, diags>>
      /\ pc = "block" /\ t \in Blocks /\ idx \in Blocks /\ Update(t, in)
      /\ stmt = Len(body.stmts[idx]) + 1 /\ body \in Body
      /\ in_states \in [Blocks -> StateMap \cup {Unreached}]
      /\ in_worklist \in [Blocks -> BOOLEAN]
  BY DEF Propagate, AtEdge, LoopType, TypeOK, Code
<1>2. Ways(R) /\ Backed(R)
  BY <1>1, WaysKept DEF Backing
<1>3. /\ edge \in 1 .. Len(Succ) /\ Succ \in Seq(Nat) /\ state \in StateMap
      /\ Succ = Successors(body.term[idx])
  BY EdgeType DEF Propagate, Succ
<1>4. in \in StateMap
  BY <1>1, <1>3, MeetLemma
<1>5. /\ \A b \in Blocks : b # t => in_states'[b] = in_states[b]
      /\ in_states'[t] = in
      /\ \A b \in Blocks : in_worklist'[b] => in_worklist[b] \/ b = t
  <2>1. in_states' = [in_states EXCEPT ![t] = in]
    BY <1>1, <1>4, UpdateFacts
  <2>2. in_worklist' = in_worklist \/ in_worklist' = [in_worklist EXCEPT ![t] = TRUE]
    BY <1>1 DEF Update
  <2> QED BY <1>1, <2>1, <2>2
<1>6. ASSUME NEW p \in R, p[1] = idx, p[2] = stmt
      PROVE  <<t, 1, p[3]>> \in R
  <2>1. edge \in DOMAIN Successors(body.term[idx]) /\ t = Successors(body.term[idx])[edge]
    BY <1>3
  <2>2. ~(p[2] <= Len(body.stmts[p[1]]))
    BY <1>1, <1>6, BodyParts
  <2> HIDE DEF t
  <2> QED BY <1>1, <1>2, <1>6, <2>1, <2>2 DEF Ways
<1> HIDE DEF t
<1>7. Comes(R, t, 1)
  <2>1. PICK p \in R : p[1] = idx /\ p[2] = stmt
    BY <1>1, <1>2 DEF Backed, Comes
  <2>2. <<t, 1, p[3]>> \in R
    BY <1>6, <2>1
  <2> QED BY <2>2 DEF Comes
<1>8. ASSUME NEW l \in Locals, in[l] # "Init"
      PROVE  Dead(R, t, 1, l)
  <2>1. CASE in_states[t][l] \notin {"absent", "Init"}
    BY <1>1, <1>2, <2>1 DEF Backed
  <2>2. CASE state[l] # "Init"
    <3>1. PICK p \in R : p[1] = idx /\ p[2] = stmt /\ l \notin p[3]
      BY <1>1, <1>2, <2>2 DEF Backed, Dead
    <3>2. <<t, 1, p[3]>> \in R
      BY <1>6, <3>1
    <3> QED BY <3>1, <3>2 DEF Dead
  <2> QED BY <1>1, <1>3, <1>8, <2>1, <2>2, MeetBacked
<1> HIDE DEF in
<1>9. \A b \in Blocks : in_worklist'[b] => Comes(R, b, 1)
  BY <1>2, <1>5, <1>7 DEF Backed
<1>10. \A b \in Blocks, l \in Locals :
         in_states'[b][l] \notin {"absent", "Init"} => Dead(R, b, 1, l)
  BY <1>2, <1>5, <1>8 DEF Backed
<1>11. Blames(R)' <=> Blames(R)
  BY <1>1 DEF Blames
<1>12. \A b \in Blocks, l \in Locals : in_states'[b][l] # "absent" => Comes(R, b, 1)
  BY <1>2, <1>5, <1>7 DEF Backed
<1> QED BY <1>1, <1>2, <1>9, <1>10, <1>11, <1>12 DEF Backed, Comes, Dead

(* No step of the checker makes anything up.                               *)
LEMMA NextKeepsBacking ==
  ASSUME LoopType, Backing, [Next]_vars
  PROVE  Backing'
<1>1. CASE PopBlock
  BY <1>1, PopKeepsBacking
<1>2. CASE TransferStmt
  BY <1>2, StmtKeepsBacking
<1>3. CASE Propagate
  BY <1>3, PropagateKeepsBacking
<1>4. CASE SkipEdge \/ EndBlock \/ Finish \/ UNCHANGED vars
  <2> SUFFICES ASSUME NEW R, Ways(R)' PROVE Backed(R)'
    BY DEF Backing
  <2>1. /\ UNCHANGED <<body, in_states, in_worklist, idx, stmt, state, diags>>
        /\ pc' = "block" => pc = "block"
    BY <1>4 DEF SkipEdge, EndBlock, Finish, AtEdge, vars
  <2>2. Backed(R)
    BY <2>1, WaysKept DEF Backing
  <2> QED BY <2>1, <2>2 DEF Backed, Comes, Dead, Blames
<1> QED BY <1>1, <1>2, <1>3, <1>4 DEF Next

-----------------------------------------------------------------------------
(* Nothing is left out: what the checker holds at its end, if it reports   *)
(* nothing, is true of all runs.                                           *)

(* At the end every block that was reached was gone through as it now is,  *)
(* with nothing to report.                                                 *)
LEMMA SettledPoint ==
  ASSUME RunInv, pc # "block", \A c \in Blocks : ~in_worklist[c], diags = {},
         NEW b \in Blocks, NEW n \in 1 .. Len(body.stmts[b]), NEW l \in Locals,
         in_states[b][l] # "absent", \A m \in Locals : point[b][n][m] # "absent"
  PROVE  /\ point[b][n] \in StateMap
         /\ point[b][n + 1] = Transfer(body.stmts[b][n], point[b][n])
         /\ Misuses(body.stmts[b][n], point[b][n]) = {}
<1>1. Len(body.stmts[b]) \in Nat /\ body \in Body
  BY CodeType DEF RunInv, TypeOK
<1>2. Transferred(b, Len(body.stmts[b]) + 1)
  BY DEF RunInv, Settled, Busy
<1>3. n \in 1 .. (Len(body.stmts[b]) + 1) - 1 /\ n \in 1 .. Len(body.stmts[b]) + 1
  BY <1>1
<1>4. point[b][n] \in PartialMap
  BY <1>3 DEF RunInv, PointType
<1> QED BY <1>2, <1>3, <1>4 DEF Transferred, PartialMap, StateMap

(* So no run faults: what was last taken for live there is live.           *)
LEMMA SilenceIsClean ==
  ASSUME RunInv, pc # "block", \A c \in Blocks : ~in_worklist[c], diags = {}
  PROVE  \E S : Ways(S) /\ ~Blames(S)
<1> DEFINE Fits(p) ==
             /\ p[2] <= Len(body.stmts[p[1]]) + 1
             /\ \A l \in Locals :
                  /\ in_states[p[1]][l] # "absent"
                  /\ point[p[1]][p[2]][l] # "absent"
                  /\ point[p[1]][p[2]][l] = "Init" => l \in p[3]
           S == {p \in Positions : Fits(p)}
<1>1. body \in Body
  BY DEF RunInv, TypeOK
<1>2. ASSUME NEW b \in Blocks, NEW l \in Locals, in_states[b][l] # "absent"
      PROVE  /\ point[b][1] = in_states[b]
             /\ Flowed(b, Len(Successors(body.term[b])) + 1)
  BY <1>2 DEF RunInv, Settled, Busy, Transferred
<1>3. Start \in S
  <2>1. Entry \in Blocks /\ 1 <= Len(body.stmts[Entry]) + 1 /\ body.params \in SUBSET Locals
    BY <1>1, NBlocksAssumption, BodyParts DEF Entry, Blocks, Body
  <2>2. \A l \in Locals : /\ in_states[Entry][l] # "absent"
                          /\ in_states[Entry][l] = "Init" => l \in body.params
    BY DEF RunInv, EntryStrict
  <2>3. \A l \in Locals : point[Entry][1] = in_states[Entry]
    BY <1>2, <2>1, <2>2
  <2>4. Start \in Positions
    BY <2>1 DEF Start, Positions
  <2>5. Fits(Start)
    BY <2>1, <2>2, <2>3 DEF Start
  <2> QED BY <2>4, <2>5
<1>4. ASSUME NEW p \in S
      PROVE  IF p[2] <= Len(body.stmts[p[1]])
             THEN /\ <<p[1], p[2] + 1, After(body.stmts[p[1]][p[2]], p[3])>> \in S
                  /\ Faults(body.stmts[p[1]][p[2]], p[3]) = {}
             ELSE \A n \in DOMAIN Successors(body.term[p[1]]) :
                    Successors(body.term[p[1]])[n] \in Blocks =>
                      <<Successors(body.term[p[1]])[n], 1, p[3]>> \in S
  <2>1. /\ p \in Positions /\ Fits(p)
        /\ p[1] \in Blocks /\ p[2] \in Nat \ {0} /\ p[3] \in SUBSET Locals
    BY PositionParts
  <2>2. CASE p[2] <= Len(body.stmts[p[1]])
    <3> DEFINE s == body.stmts[p[1]][p[2]]
               q == <<p[1], p[2] + 1, After(s, p[3])>>
    <3>1. p[2] \in 1 .. Len(body.stmts[p[1]]) /\ s \in Stmt /\ Len(body.stmts[p[1]]) \in Nat
      BY <1>1, <2>1, <2>2, BodyParts
    <3> HIDE DEF s
    <3>2. After(s, p[3]) \in SUBSET Locals
      BY <2>1, <3>1, AfterTyped
    <3>3. ASSUME NEW l \in Locals
          PROVE  /\ Faults(s, p[3]) = {}
                 /\ point[p[1]][p[2] + 1][l] # "absent"
                 /\ point[p[1]][p[2] + 1][l] = "Init" => l \in After(s, p[3])
      <4>1. /\ point[p[1]][p[2]] \in StateMap
            /\ point[p[1]][p[2] + 1] = Transfer(s, point[p[1]][p[2]])
            /\ Misuses(s, point[p[1]][p[2]]) = {}
        <5>1. /\ p[1] \in Blocks /\ p[2] \in 1 .. Len(body.stmts[p[1]])
              /\ in_states[p[1]][l] # "absent"
              /\ \A m \in Locals : point[p[1]][p[2]][m] # "absent"
          BY <2>1, <3>1
        <5> QED BY <5>1, SettledPoint DEF s
      <4>2. /\ Faults(s, p[3]) = {}
            /\ Transfer(s, point[p[1]][p[2]])[l] = "Init" => l \in After(s, p[3])
        BY <2>1, <3>1, <4>1, TransferSound
      <4>3. Transfer(s, point[p[1]][p[2]]) \in StateMap
        BY <3>1, <4>1, TransferType
      <4> QED BY <4>1, <4>2, <4>3 DEF StateMap, State
    <3>4. Faults(s, p[3]) = {}
      <4>1. Faults(s, p[3]) \subseteq Locals
        BY <3>1 DEF Faults, Reads, Stmt
      <4> QED BY <3>3, <4>1
    <3>5. q \in Positions
      BY <2>1, <3>2 DEF Positions
    <3>6. Fits(q)
      BY <2>1, <3>1, <3>3
    <3> QED BY <2>2, <3>4, <3>5, <3>6 DEF s
  <2>3. CASE ~(p[2] <= Len(body.stmts[p[1]]))
    <3> SUFFICES ASSUME NEW n \in DOMAIN Successors(body.term[p[1]]),
                        Successors(body.term[p[1]])[n] \in Blocks
                 PROVE  <<Successors(body.term[p[1]])[n], 1, p[3]>> \in S
      BY <2>3
    <3> DEFINE t == Successors(body.term[p[1]])[n]
               q == <<t, 1, p[3]>>
    <3>1. /\ p[2] = Len(body.stmts[p[1]]) + 1 /\ 1 <= Len(body.stmts[t]) + 1
          /\ n \in 1 .. (Len(Successors(body.term[p[1]])) + 1) - 1
      <4>1. /\ Len(body.stmts[p[1]]) \in Nat /\ Len(body.stmts[t]) \in Nat
            /\ n \in 1 .. Len(Successors(body.term[p[1]]))
            /\ Len(Successors(body.term[p[1]])) \in Nat
        BY <1>1, <2>1, BodyParts
      <4> HIDE DEF t
      <4> QED BY <2>1, <2>3, <4>1
    <3>2. ASSUME NEW l \in Locals
          PROVE  /\ in_states[t][l] # "absent"
                 /\ point[t][1][l] # "absent"
                 /\ point[t][1][l] = "Init" => l \in p[3]
      <4>1. Flowed(p[1], Len(Successors(body.term[p[1]])) + 1)
        BY <1>2, <2>1
      <4>2. AsStrict(in_states[t], point[p[1]][Len(body.stmts[p[1]]) + 1])
        BY <3>1, <4>1 DEF Flowed
      <4>3. /\ in_states[t][l] # "absent"
            /\ in_states[t][l] = "Init" => point[p[1]][p[2]][l] = "Init"
        BY <3>1, <4>2 DEF AsStrict
      <4>4. point[t][1] = in_states[t]
        BY <1>2, <4>3
      <4> QED BY <2>1, <4>3, <4>4
    <3>3. q \in Positions
      BY <2>1 DEF Positions
    <3>4. Fits(q)
      BY <3>1, <3>2
    <3> QED BY <3>3, <3>4
  <2> QED BY <2>2, <2>3
<1> HIDE DEF S
<1>5. S \subseteq Positions
  BY DEF S
<1>6. Ways(S)
  BY <1>3, <1>4, <1>5 DEF Ways
<1>7. ~Blames(S)
  BY <1>4 DEF Blames
<1> QED BY <1>6, <1>7

(* The checker reports nothing just when no run faults.                    *)
LEMMA SilenceIsExact ==
  ASSUME RunsCovered(Bodies), body \in Bodies, RunInv, Backing,
         pc # "block", \A c \in Blocks : ~in_worklist[c]
  PROVE  diags # {} <=> CanFault(body, PathBound)
<1>1. CanFault(body, PathBound) <=> Blames(Paths)
  BY DEF CanFault, SomePathDoes, IsFault, Blames, Paths
<1>2. diags # {} => Blames(Paths)
  BY PathsAreWays DEF Backing, Backed
<1>3. ASSUME diags = {}
      PROVE  ~Blames(Paths)
  <2>1. PICK S : Ways(S) /\ ~Blames(S)
    BY <1>3, SilenceIsClean
  <2>2. Paths \subseteq S
    BY <2>1, PathsAre, BodiesAssumption DEF RunsCovered
  <2> QED BY <2>1, <2>2 DEF Blames
<1> QED BY <1>1, <1>2, <1>3

(* The checker decides exactly: it gives one verdict and keeps it, and it  *)
(* rejects a body just when a path through it, over any loops and joins,   *)
(* faults at a statement.                                                  *)
THEOREM VerdictIsExact ==
  ASSUME RunsCovered(Bodies)
  PROVE  RunSpec => DecidesExactly
<1> DEFINE Inv == RunInv /\ Backing /\ body \in Bodies
           Verdict == IF pc # "done" THEN "pending"
                      ELSE IF diags = {} THEN "accept" ELSE "reject"
<1>1. RunInit => Inv
  BY InitRunInv, InitBacking DEF RunInit, Init
<1>2. Inv /\ [RunNext]_allVars => Inv'
  <2> SUFFICES ASSUME Inv, [RunNext]_allVars PROVE Inv'
    OBVIOUS
  <2>1. RunInv'
    BY CheckStepKeepsRunInv, RunStmtKeepsRunInv, RunJumpKeepsRunInv, StutterKeepsRunInv
       DEF RunNext
  <2>2. [Next]_vars
    BY DEF RunNext, CheckStep, RunStmt, RunJump, allVars
  <2>3. body' = body
    BY <2>2 DEF Next, PopBlock, TransferStmt, SkipEdge, Propagate, EndBlock, Finish, vars
  <2> QED BY <2>1, <2>2, <2>3, RunInvLoopType, NextKeepsBacking
<1>3. RunInit => Judge!Init
  BY DEF RunInit, Init, Judge!Init
<1>4. Inv /\ [RunNext]_allVars => [Judge!Decide]_Verdict
  <2> SUFFICES ASSUME Inv, [RunNext]_allVars PROVE Judge!Decide \/ Verdict' = Verdict
    OBVIOUS
  <2>1. [Next]_vars
    BY DEF RunNext, CheckStep, RunStmt, RunJump, allVars
  <2>2. CASE Finish
    <3>1. /\ pc = "pop" /\ pc' = "done" /\ diags' = diags
          /\ \A c \in Blocks : ~in_worklist[c]
      BY <2>2 DEF Finish, RunInv, QueueMatchesFlags
    <3>2. diags # {} <=> CanFault(body, PathBound)
      BY <3>1, SilenceIsExact
    <3> QED BY <3>1, <3>2 DEF Judge!Decide
  <2>3. CASE ~Finish
    <3>1. \/ pc # "done" /\ pc' # "done"
          \/ pc' = pc /\ diags' = diags
      BY <2>1, <2>3 DEF Next, PopBlock, TransferStmt, SkipEdge, Propagate, EndBlock, AtEdge, vars
    <3> QED BY <3>1
  <2> QED BY <2>2, <2>3
<1> HIDE DEF Inv
<1> QED BY <1>1, <1>2, <1>3, <1>4, PTL DEF RunSpec, DecidesExactly, Judge!Spec
=============================================================================
