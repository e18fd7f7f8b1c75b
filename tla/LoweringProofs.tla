--------------------------- MODULE LoweringProofs ---------------------------
(***************************************************************************)
(* Lowering builds well-formed graphs and writes no block twice, whatever  *)
(* the programs are, so long as they are made by the grammar.              *)
(*                                                                         *)
(* `cur_block` is set by the steps the lowerer has still to take, so what  *)
(* keeps a block from being written over is said of the list `todo`: each  *)
(* block that is allocated and not begun is begun by exactly one of its    *)
(* steps, and until then has no terminator; a jump ends the current block  *)
(* and a start_block follows it at once; and the current block has no      *)
(* terminator unless a start_block comes next.  Each step of the lowerer   *)
(* puts a list of new steps (a Piece) before the rest, and the lemmas say  *)
(* which blocks the pieces begin and how many loops they leave.            *)
(***************************************************************************)
EXTENDS Lowering, SequenceFacts, FiniteSets, FiniteSetTheorems, TLAPS

(* What a task of the lowerer may be while the graph has n blocks: a        *)
(* statement, or a step whose blocks are allocated.                         *)
TaskOK(S, t, n) ==
  \/ t \in S
  \/ t.kind \in {"do", "leave"}
  \/ t.kind \in {"jump", "start"} /\ t.block \in 1 .. n
  \/ /\ t.kind = "link" /\ t.merge \in 1 .. n
     /\ t = [kind |-> "link", arms |-> t.arms, otherwise |-> t.otherwise, merge |-> t.merge]
     /\ t.arms # <<>> /\ t.otherwise \in Seq(S)
     /\ t.arms \in Seq([cond : STRING, body : Seq(S)])

(* The block that a task is to begin: start_block begins one, and the last  *)
(* branch of a chain of conditions its merge block.                         *)
Promise(t) ==
  IF t.kind = "start" THEN {t.block} ELSE IF t.kind = "link" THEN {t.merge} ELSE {}
(* The blocks that a list of tasks is to begin.                             *)
Promised(q) == UNION {Promise(q[n]) : n \in DOMAIN q}
(* No block is begun twice.                                                 *)
Once(q) == \A n, m \in DOMAIN q : Promise(q[n]) \cap Promise(q[m]) # {} => n = m
(* Behind every jump comes the start of a block.                            *)
Leads(q) ==
  \A n \in DOMAIN q : q[n].kind = "jump" => n + 1 \in DOMAIN q /\ q[n + 1].kind = "start"
(* A list that is to follow a jump and may end in one.                      *)
Chained(q) ==
  /\ q # <<>> => q[1].kind = "start"
  /\ \A n \in DOMAIN q :
       q[n].kind = "jump" => n = Len(q) \/ (n + 1 \in DOMAIN q /\ q[n + 1].kind = "start")
(* The ends of loops in a list of tasks.                                    *)
LoopEnds(q) == {n \in DOMAIN q : q[n].kind = "leave"}
(* A list of such tasks.                                                    *)
Tasks(S, q, n) == IsSeq(q) /\ \A t \in Elems(q) : TaskOK(S, t, n)

(* Two lists in which jumps lead to starts, one behind the other.           *)
LEMMA LeadsConcat ==
  ASSUME NEW p, NEW q, IsSeq(p), IsSeq(q), Leads(p), Leads(q)
  PROVE  Leads(p \o q)
<1> PICK r : r = p \o q
  OBVIOUS
<1>0. Joins(r, p, q)
  BY Joined
<1>1. /\ \A i \in DOMAIN p : i \in DOMAIN r /\ r[i] = p[i]
      /\ \A i \in DOMAIN q : Len(p) + i \in DOMAIN r /\ r[Len(p) + i] = q[i]
      /\ \A i \in DOMAIN r :
           \/ i \in DOMAIN p /\ r[i] = p[i]
           \/ i - Len(p) \in DOMAIN q /\ i = Len(p) + (i - Len(p)) /\ r[i] = q[i - Len(p)]
      /\ IsSeq(r) /\ Len(r) = Len(p) + Len(q)
  BY <1>0 DEF Joins
<1>2. Len(p) \in Nat /\ DOMAIN q = 1 .. Len(q) /\ DOMAIN p = 1 .. Len(p)
  BY IsSeqLen
<1> SUFFICES ASSUME NEW n \in DOMAIN r, r[n].kind = "jump"
             PROVE  n + 1 \in DOMAIN r /\ r[n + 1].kind = "start"
  BY DEF Leads
<1>3. CASE n \in DOMAIN p
  <2>1. n + 1 \in DOMAIN p /\ p[n + 1].kind = "start"
    BY <1>1, <1>3 DEF Leads
  <2> QED
    BY <1>1, <2>1
<1>4. CASE n - Len(p) \in DOMAIN q /\ n = Len(p) + (n - Len(p)) /\ r[n] = q[n - Len(p)]
  <2>1. (n - Len(p)) + 1 \in DOMAIN q /\ q[(n - Len(p)) + 1].kind = "start"
    BY <1>4 DEF Leads
  <2>2. n + 1 = Len(p) + ((n - Len(p)) + 1)
    BY <1>2, <1>4
  <2> QED
    BY <1>1, <2>1, <2>2
<1> QED
  BY <1>1, <1>3, <1>4

(* Two lists that begin with a start and may end with a jump.               *)
LEMMA ChainedConcat ==
  ASSUME NEW p, NEW q, IsSeq(p), IsSeq(q), Chained(p), Chained(q)
  PROVE  Chained(p \o q)
<1> PICK r : r = p \o q
  OBVIOUS
<1>0. Joins(r, p, q)
  BY Joined
<1>1. /\ \A i \in DOMAIN p : i \in DOMAIN r /\ r[i] = p[i]
      /\ \A i \in DOMAIN q : Len(p) + i \in DOMAIN r /\ r[Len(p) + i] = q[i]
      /\ \A i \in DOMAIN r :
           \/ i \in DOMAIN p /\ r[i] = p[i]
           \/ i - Len(p) \in DOMAIN q /\ i = Len(p) + (i - Len(p)) /\ r[i] = q[i - Len(p)]
      /\ IsSeq(r) /\ Len(r) = Len(p) + Len(q)
  BY <1>0 DEF Joins
<1>2. /\ Len(p) \in Nat /\ DOMAIN q = 1 .. Len(q) /\ DOMAIN p = 1 .. Len(p) /\ Len(q) \in Nat
      /\ (p # <<>> <=> Len(p) > 0) /\ (q # <<>> <=> Len(q) > 0)
  BY IsSeqLen
<1>3. DOMAIN r = 1 .. Len(r) /\ (r # <<>> <=> Len(r) > 0)
  BY <1>1, IsSeqLen
<1>4. r # <<>> => r[1].kind = "start"
  <2>1. CASE p # <<>>
    BY <1>1, <1>2, <2>1 DEF Chained
  <2>2. CASE p = <<>> /\ q # <<>>
    <3>1. Len(p) = 0 /\ 1 \in DOMAIN q
      BY <1>2, <2>2
    <3> QED
      BY <1>1, <3>1, <2>2 DEF Chained
  <2> QED
    BY <1>1, <1>2, <1>3, <2>1, <2>2
<1>5. ASSUME NEW n \in DOMAIN r, r[n].kind = "jump"
      PROVE  n = Len(r) \/ (n + 1 \in DOMAIN r /\ r[n + 1].kind = "start")
  <2>1. CASE n \in DOMAIN p
    <3>1. r[n] = p[n] /\ (n = Len(p) \/ (n + 1 \in DOMAIN p /\ p[n + 1].kind = "start"))
      BY <1>1, <1>5, <2>1 DEF Chained
    <3>2. CASE n = Len(p) /\ q # <<>>
      <4>1. 1 \in DOMAIN q /\ q[1].kind = "start"
        BY <1>2, <3>2 DEF Chained
      <4> QED
        BY <1>1, <3>2, <4>1
    <3>3. CASE n = Len(p) /\ q = <<>>
      BY <1>1, <1>2, <3>3
    <3> QED
      BY <1>1, <3>1, <3>2, <3>3
  <2>2. CASE n - Len(p) \in DOMAIN q /\ n = Len(p) + (n - Len(p)) /\ r[n] = q[n - Len(p)]
    <3>1. \/ n - Len(p) = Len(q)
          \/ (n - Len(p)) + 1 \in DOMAIN q /\ q[(n - Len(p)) + 1].kind = "start"
      BY <1>5, <2>2 DEF Chained
    <3>2. n + 1 = Len(p) + ((n - Len(p)) + 1)
      BY <1>2, <2>2
    <3> QED
      BY <1>1, <1>2, <2>2, <3>1, <3>2
  <2> QED
    BY <1>1, <2>1, <2>2
<1> QED
  BY <1>4, <1>5 DEF Chained

(* Such a list with the start of a block behind it.                         *)
LEMMA ChainedLeads ==
  ASSUME NEW p, IsSeq(p), Chained(p), NEW b
  PROVE  Leads(p \o <<Start(b)>>)
<1> DEFINE q == <<Start(b)>>
           r == p \o q
<1>1. IsSeq(q) /\ Len(q) = 1 /\ DOMAIN q = {1} /\ q[1].kind = "start"
  BY One DEF Start
<1>2. /\ Len(p) \in Nat /\ DOMAIN p = 1 .. Len(p)
  BY IsSeqLen
<1>3. /\ \A i \in DOMAIN p : i \in DOMAIN r /\ r[i] = p[i]
      /\ Len(p) + 1 \in DOMAIN r /\ r[Len(p) + 1].kind = "start"
      /\ \A i \in DOMAIN r : i \in DOMAIN p \/ i = Len(p) + 1
  <2> HIDE DEF q
  <2>1. /\ \A i \in DOMAIN p : i \in DOMAIN r /\ r[i] = p[i]
        /\ \A i \in DOMAIN q : Len(p) + i \in DOMAIN r /\ r[Len(p) + i] = q[i]
        /\ \A i \in DOMAIN r :
             \/ i \in DOMAIN p
             \/ i - Len(p) \in DOMAIN q /\ i = Len(p) + (i - Len(p)) /\ r[i] = q[i - Len(p)]
    BY <1>1, Concatenated
  <2> QED
    BY <1>1, <1>2, <2>1
<1> HIDE DEF r, q
<1> SUFFICES ASSUME NEW n \in DOMAIN r, r[n].kind = "jump"
             PROVE  n + 1 \in DOMAIN r /\ r[n + 1].kind = "start"
  BY DEF r, q, Leads
<1>4. n \in DOMAIN p
  BY <1>3
<1>5. r[n] = p[n] /\ (n = Len(p) \/ (n + 1 \in DOMAIN p /\ p[n + 1].kind = "start"))
  BY <1>3, <1>4 DEF Chained
<1> QED
  BY <1>3, <1>4, <1>5

(* Two lists that begin different blocks.                                   *)
LEMMA OnceConcat ==
  ASSUME NEW p, NEW q, IsSeq(p), IsSeq(q), Once(p), Once(q), Promised(p) \cap Promised(q) = {}
  PROVE  Once(p \o q)
<1> PICK r : r = p \o q
  OBVIOUS
<1>0. Joins(r, p, q)
  BY Joined
<1>1. /\ \A i \in DOMAIN p : i \in DOMAIN r /\ r[i] = p[i]
      /\ \A i \in DOMAIN q : Len(p) + i \in DOMAIN r /\ r[Len(p) + i] = q[i]
      /\ \A i \in DOMAIN r :
           \/ i \in DOMAIN p /\ r[i] = p[i]
           \/ i - Len(p) \in DOMAIN q /\ i = Len(p) + (i - Len(p)) /\ r[i] = q[i - Len(p)]
      /\ IsSeq(r) /\ Len(r) = Len(p) + Len(q)
  BY <1>0 DEF Joins
<1> SUFFICES ASSUME NEW n \in DOMAIN r, NEW m \in DOMAIN r,
                    Promise(r[n]) \cap Promise(r[m]) # {}
             PROVE  n = m
  BY DEF Once
<1>2. \A i \in DOMAIN p, j \in DOMAIN q : Promise(p[i]) \cap Promise(q[j]) = {}
  BY DEF Promised
<1>3. CASE n \in DOMAIN p /\ m \in DOMAIN p /\ r[n] = p[n] /\ r[m] = p[m]
  BY <1>3 DEF Once
<1>4. CASE /\ n - Len(p) \in DOMAIN q /\ n = Len(p) + (n - Len(p)) /\ r[n] = q[n - Len(p)]
          /\ m - Len(p) \in DOMAIN q /\ m = Len(p) + (m - Len(p)) /\ r[m] = q[m - Len(p)]
  <2>1. n - Len(p) = m - Len(p)
    BY <1>4 DEF Once
  <2> QED
    BY <1>4, <2>1
<1>5. CASE n \in DOMAIN p /\ r[n] = p[n] /\ m - Len(p) \in DOMAIN q /\ r[m] = q[m - Len(p)]
  BY <1>2, <1>5
<1>6. CASE m \in DOMAIN p /\ r[m] = p[m] /\ n - Len(p) \in DOMAIN q /\ r[n] = q[n - Len(p)]
  BY <1>2, <1>6
<1> QED
  BY <1>1, <1>3, <1>4, <1>5, <1>6

(* What two lists begin.                                                    *)
LEMMA PromisedConcat ==
  ASSUME NEW p, NEW q, IsSeq(p), IsSeq(q)
  PROVE  Promised(p \o q) = Promised(p) \cup Promised(q)
<1>1. Elems(p \o q) = Elems(p) \cup Elems(q)
  BY ConcatElems
<1>2. \A s : Promised(s) = UNION {Promise(t) : t \in Elems(s)}
  BY DEF Promised, Elems
<1> QED
  BY <1>1, <1>2

(* How many loops two lists end.                                            *)
LEMMA LoopEndsConcat ==
  ASSUME NEW p, NEW q, IsSeq(p), IsSeq(q)
  PROVE  /\ IsFiniteSet(LoopEnds(p)) /\ Cardinality(LoopEnds(p)) \in Nat
         /\ Cardinality(LoopEnds(p \o q)) =
              Cardinality(LoopEnds(p)) + Cardinality(LoopEnds(q))
<1> PICK r : r = p \o q
  OBVIOUS
<1>0. Joins(r, p, q)
  BY Joined
<1>1. /\ \A i \in DOMAIN p : i \in DOMAIN r /\ r[i] = p[i]
      /\ \A i \in DOMAIN q : Len(p) + i \in DOMAIN r /\ r[Len(p) + i] = q[i]
      /\ \A i \in DOMAIN r :
           \/ i \in DOMAIN p /\ r[i] = p[i]
           \/ i - Len(p) \in DOMAIN q /\ i = Len(p) + (i - Len(p)) /\ r[i] = q[i - Len(p)]
      /\ IsSeq(r) /\ Len(r) = Len(p) + Len(q)
  BY <1>0 DEF Joins
<1>2. /\ Len(p) \in Nat /\ DOMAIN q = 1 .. Len(q) /\ DOMAIN p = 1 .. Len(p) /\ Len(q) \in Nat
  BY IsSeqLen
<1> DEFINE B == {n \in DOMAIN r : n \notin DOMAIN p /\ r[n].kind = "leave"}
           f == [i \in LoopEnds(q) |-> Len(p) + i]
<1>3. IsFiniteSet(LoopEnds(p)) /\ IsFiniteSet(LoopEnds(q))
  <2>1. LoopEnds(p) \subseteq 1 .. Len(p) /\ LoopEnds(q) \subseteq 1 .. Len(q)
    BY <1>2 DEF LoopEnds
  <2>2. IsFiniteSet(1 .. Len(p)) /\ IsFiniteSet(1 .. Len(q))
    BY <1>2, FS_Interval
  <2> QED
    BY <2>1, <2>2, FS_Subset
<1>4. LoopEnds(r) = LoopEnds(p) \cup B /\ LoopEnds(p) \cap B = {}
  BY <1>1 DEF LoopEnds
<1>5. f \in Bijection(LoopEnds(q), B)
  <2>1. f \in [LoopEnds(q) -> B]
    BY <1>1, <1>2 DEF LoopEnds
  <2>2. \A i, j \in LoopEnds(q) : f[i] = f[j] => i = j
    BY <1>2 DEF LoopEnds
  <2>3. \A n \in B : \E i \in LoopEnds(q) : f[i] = n
    BY <1>1 DEF LoopEnds
  <2> QED
    BY <2>1, <2>2, <2>3 DEF Bijection, Injection, Surjection, IsInjective
<1>6. IsFiniteSet(B) /\ Cardinality(B) = Cardinality(LoopEnds(q))
  BY <1>3, <1>5, FS_Bijection DEF ExistsBijection
<1> HIDE DEF B, f
<1>7. Cardinality(LoopEnds(r)) =
        Cardinality(LoopEnds(p)) + Cardinality(B) - Cardinality(LoopEnds(p) \cap B)
  BY <1>3, <1>4, <1>6, FS_Union
<1>8. Cardinality(LoopEnds(p) \cap B) = 0
  BY <1>4, FS_EmptySet
<1>9. Cardinality(LoopEnds(p)) \in Nat /\ Cardinality(B) \in Nat
  BY <1>3, <1>6, FS_CardinalityType
<1> QED
  BY <1>3, <1>6, <1>7, <1>8, <1>9

(* A terminator in a graph of n blocks.                                     *)
TermOK(t, n) ==
  /\ \A i \in DOMAIN t.to : t.to[i] \in 1 .. n
  /\ t.kind = "goto" => 1 \in DOMAIN t.to
(* Block b has no terminator yet.                                           *)
Open(b) == blocks[b].term = Unreachable

(* The graph, where it is built and where it runs, is well formed.          *)
Graph ==
  /\ IsSeq(blocks) /\ {cur, at} \subseteq DOMAIN blocks
  /\ \A b \in DOMAIN blocks : TermOK(blocks[b].term, Len(blocks))
  /\ IsSeq(loop_ctx)
  /\ \A n \in DOMAIN loop_ctx :
       {loop_ctx[n].header, loop_ctx[n].exit} \subseteq DOMAIN blocks

(* What the lowerer has still to do fits the graph it has: each promised    *)
(* block is open and not the current one, the current block is open unless  *)
(* a start comes next, and each open loop is left once.                     *)
Agenda(S) ==
  /\ Tasks(S, todo, Len(blocks))
  /\ Once(todo) /\ Leads(todo)
  /\ \A b \in Promised(todo) : b # cur /\ Open(b)
  /\ Open(cur) \/ (todo # <<>> /\ Task.kind = "start")
  /\ Cardinality(LoopEnds(todo)) = Len(loop_ctx)

(* The inductive invariant.                                                 *)
LowInv(S) ==
  /\ Grammar(S)
  /\ phase \in {"lower", "run", "rejected"}
  /\ Graph
  /\ phase = "lower" => Agenda(S)
  /\ phase # "lower" => todo = <<>> /\ loop_ctx = <<>>

(* The step writes over no block that has a terminator.                     *)
Unclobbered == \A b \in DOMAIN blocks : ~Open(b) => blocks'[b] = blocks[b]

(* The tasks p may take the place of the first task: they begin the block   *)
(* it promised and new ones, each of them open and not current.             *)
Fits(S, p) ==
  /\ Tasks(S, p, Len(blocks')) /\ Once(p) /\ Leads(p)
  /\ Promised(p) \subseteq Promise(Task) \cup (Len(blocks) + 1 .. Len(blocks'))
  /\ \A b \in Promised(p) : b # cur' /\ blocks'[b].term = Unreachable
  /\ cur' \in {cur} \cup Promise(Task) \cup (Len(blocks) + 1 .. Len(blocks'))

(* The tasks behind the first.                                              *)
LEMMA TodoIs ==
  ASSUME NEW S, LowInv(S), phase = "lower", todo # <<>>
  PROVE  /\ Tasks(S, Rest, Len(blocks)) /\ Once(Rest) /\ Leads(Rest)
         /\ Promised(todo) = Promise(Task) \cup Promised(Rest)
         /\ Promise(Task) \cap Promised(Rest) = {}
         /\ Cardinality(LoopEnds(Rest)) \in Nat
         /\ Cardinality(LoopEnds(todo)) =
              (IF Task.kind = "leave" THEN 1 ELSE 0) + Cardinality(LoopEnds(Rest))
         /\ TaskOK(S, Task, Len(blocks))
         /\ Task.kind = "jump" => Rest # <<>> /\ Head(Rest).kind = "start"
         /\ Task.kind # "start" => Open(cur)
         /\ Rest = <<>> \o Rest
<1>1. /\ IsSeq(todo) /\ Once(todo) /\ Leads(todo) /\ \A t \in Elems(todo) : TaskOK(S, t, Len(blocks))
      /\ Open(cur) \/ Task.kind = "start"
  BY DEF LowInv, Agenda, Tasks
<1>2. /\ IsSeq(Rest) /\ Len(Rest) = Len(todo) - 1 /\ 1 \in DOMAIN todo /\ Task = todo[1]
      /\ \A i \in DOMAIN Rest : i + 1 \in DOMAIN todo /\ Rest[i] = todo[i + 1]
      /\ \A i \in DOMAIN todo : i = 1 \/ (i - 1 \in DOMAIN Rest /\ todo[i] = Rest[i - 1])
      /\ Elems(todo) = {Task} \cup Elems(Rest)
  <2>1. IsSeq(Rest) /\ Len(Rest) = Len(todo) - 1 /\ 1 \in DOMAIN todo /\ Task = todo[1]
    BY <1>1, Tailed DEF Rest, Task
  <2>2. \A i \in DOMAIN Rest : i + 1 \in DOMAIN todo /\ Rest[i] = todo[i + 1]
    BY <1>1, Tailed DEF Rest
  <2>3. \A i \in DOMAIN todo : i = 1 \/ (i - 1 \in DOMAIN Rest /\ todo[i] = Rest[i - 1])
    BY <1>1, Tailed DEF Rest
  <2>4. Elems(todo) = {Task} \cup Elems(Rest)
    BY <1>1, Tailed DEF Rest, Task
  <2> QED
    BY <2>1, <2>2, <2>3, <2>4
<1>3. /\ Len(todo) \in Nat /\ DOMAIN todo = 1 .. Len(todo) /\ Len(Rest) \in Nat
      /\ DOMAIN Rest = 1 .. Len(Rest) /\ (Rest # <<>> <=> Len(Rest) > 0)
  BY <1>1, <1>2, IsSeqLen
<1>4. Tasks(S, Rest, Len(blocks)) /\ TaskOK(S, Task, Len(blocks))
  BY <1>1, <1>2 DEF Tasks
<1>5. Once(Rest)
  <2> SUFFICES ASSUME NEW n \in DOMAIN Rest, NEW m \in DOMAIN Rest,
                      Promise(Rest[n]) \cap Promise(Rest[m]) # {}
               PROVE  n = m
    BY DEF Once
  <2>1. n + 1 = m + 1
    BY <1>1, <1>2 DEF Once
  <2> QED
    BY <1>3, <2>1
<1>6. Leads(Rest)
  <2> SUFFICES ASSUME NEW n \in DOMAIN Rest, Rest[n].kind = "jump"
               PROVE  n + 1 \in DOMAIN Rest /\ Rest[n + 1].kind = "start"
    BY DEF Leads
  <2>1. (n + 1) + 1 \in DOMAIN todo /\ todo[(n + 1) + 1].kind = "start"
    BY <1>1, <1>2 DEF Leads
  <2>2. n + 1 \in DOMAIN Rest
    BY <1>2, <1>3, <2>1
  <2> QED
    BY <1>2, <2>1, <2>2
<1>7. Promised(todo) = Promise(Task) \cup Promised(Rest)
  <2>1. \A s : Promised(s) = UNION {Promise(t) : t \in Elems(s)}
    BY DEF Promised, Elems
  <2> QED
    BY <1>2, <2>1
<1>8. Promise(Task) \cap Promised(Rest) = {}
  <2> SUFFICES ASSUME NEW n \in DOMAIN Rest, Promise(Rest[n]) \cap Promise(Task) # {}
               PROVE  FALSE
    BY DEF Promised
  <2>1. n + 1 = 1
    BY <1>1, <1>2 DEF Once
  <2> QED
    BY <1>3, <2>1
<1>9. /\ Cardinality(LoopEnds(Rest)) \in Nat
      /\ Cardinality(LoopEnds(todo)) =
           (IF Task.kind = "leave" THEN 1 ELSE 0) + Cardinality(LoopEnds(Rest))
  <2>1. todo = <<Task>> \o Rest
    BY <1>1, HeadFirst DEF Task, Rest
  <2>2. IsSeq(<<Task>>) /\ DOMAIN <<Task>> = {1} /\ <<Task>>[1] = Task
    BY One
  <2>3. LoopEnds(<<Task>>) = IF Task.kind = "leave" THEN {1} ELSE {}
    BY <2>2 DEF LoopEnds
  <2>4. Cardinality(LoopEnds(<<Task>>)) = IF Task.kind = "leave" THEN 1 ELSE 0
    BY <2>3, FS_EmptySet, FS_Singleton
  <2>5. Cardinality(LoopEnds(<<Task>> \o Rest)) =
          Cardinality(LoopEnds(<<Task>>)) + Cardinality(LoopEnds(Rest))
    BY <1>2, <2>2, LoopEndsConcat
  <2>6. Cardinality(LoopEnds(Rest)) \in Nat
    BY <1>2, LoopEndsConcat
  <2> QED
    BY <2>1, <2>4, <2>5, <2>6
<1>10. Task.kind = "jump" => Rest # <<>> /\ Head(Rest).kind = "start"
  <2> SUFFICES ASSUME Task.kind = "jump" PROVE Rest # <<>> /\ Head(Rest).kind = "start"
    OBVIOUS
  <2>1. 1 + 1 \in DOMAIN todo /\ todo[1 + 1].kind = "start"
    BY <1>1, <1>2 DEF Leads
  <2>2. 1 \in DOMAIN Rest /\ Rest[1].kind = "start"
    BY <1>2, <1>3, <2>1
  <2>3. Rest # <<>>
    BY <1>3, <2>2
  <2>4. Head(Rest) = Rest[1]
    BY <1>2, <2>3, Tailed
  <2> QED
    BY <2>2, <2>3, <2>4
<1>11. Rest = <<>> \o Rest
  BY <1>2, ConcatEmptySeq DEF IsSeq
<1>12. Task.kind # "start" => Open(cur)
  BY <1>1
<1> QED
  BY <1>4, <1>5, <1>6, <1>7, <1>8, <1>9, <1>10, <1>11, <1>12

(* A step that puts tasks that fit in the place of the first, keeps the     *)
(* graph well formed, writes at most the current block if it is open, and   *)
(* leaves the current block open or has a start come next, keeps the        *)
(* invariant.                                                               *)
LEMMA Advances ==
  ASSUME NEW S, LowInv(S), phase = "lower", todo # <<>>, phase' = phase,
         NEW p, Fits(S, p), todo' = p \o Rest, Graph', Len(blocks') >= Len(blocks),
         \A b \in DOMAIN blocks : blocks'[b] = blocks[b] \/ (b = cur /\ Open(cur)),
         Cardinality(LoopEnds(p)) + Len(loop_ctx) =
           (IF Task.kind = "leave" THEN 1 ELSE 0) + Len(loop_ctx'),
         \/ blocks'[cur'].term = Unreachable
         \/ p # <<>> /\ p[1].kind = "start"
         \/ p = <<>> /\ Task.kind = "jump"
  PROVE  LowInv(S)' /\ Unclobbered
<1>1. /\ Tasks(S, Rest, Len(blocks)) /\ Once(Rest) /\ Leads(Rest) /\ IsSeq(Rest)
      /\ Promised(todo) = Promise(Task) \cup Promised(Rest)
      /\ Promise(Task) \cap Promised(Rest) = {}
      /\ Task.kind = "jump" => Rest # <<>> /\ Head(Rest).kind = "start"
      /\ Rest = <<>> \o Rest
  BY TodoIs DEF Tasks
<1>2. /\ Cardinality(LoopEnds(Rest)) \in Nat
      /\ Len(loop_ctx) = (IF Task.kind = "leave" THEN 1 ELSE 0) + Cardinality(LoopEnds(Rest))
  BY TodoIs DEF LowInv, Agenda
<1>3. IsSeq(p) /\ Len(blocks) \in Nat /\ Len(blocks') \in Nat /\ Len(loop_ctx') \in Nat
      /\ DOMAIN blocks = 1 .. Len(blocks)
  BY IsSeqLen DEF LowInv, Graph, Fits, Tasks
<1>4. \A t : TaskOK(S, t, Len(blocks)) => TaskOK(S, t, Len(blocks'))
  <2>1. \A b \in 1 .. Len(blocks) : b \in 1 .. Len(blocks')
    BY <1>3
  <2> QED
    BY <2>1 DEF TaskOK
<1>5. Elems(todo') = Elems(p) \cup Elems(Rest) /\ IsSeq(todo')
  BY <1>1, <1>3, ConcatElems, Concatenated
<1>6. Tasks(S, todo', Len(blocks'))
  BY <1>1, <1>4, <1>5 DEF Tasks, Fits
<1>7. \A b \in Promised(Rest) : b \in 1 .. Len(blocks) /\ b # cur /\ Open(b)
  <2>1. \A b \in Promised(Rest) : b # cur /\ Open(b)
    BY <1>1 DEF LowInv, Agenda
  <2>2. \A t \in Elems(Rest) : Promise(t) \subseteq 1 .. Len(blocks)
    <3> SUFFICES ASSUME NEW t \in Elems(Rest) PROVE Promise(t) \subseteq 1 .. Len(blocks)
      OBVIOUS
    <3>1. TaskOK(S, t, Len(blocks))
      BY <1>1 DEF Tasks
    <3>2. t \in S => t.kind \notin {"start", "link"}
      BY DEF LowInv, Grammar
    <3> QED
      BY <3>1, <3>2 DEF TaskOK, Promise
  <2> QED
    BY <2>1, <2>2 DEF Promised, Elems
<1>8. \A b \in Promised(Rest) : b # cur' /\ blocks'[b].term = Unreachable
  <2> SUFFICES ASSUME NEW b \in Promised(Rest) PROVE b # cur' /\ blocks'[b].term = Unreachable
    OBVIOUS
  <2>1. blocks'[b] = blocks[b]
    BY <1>3, <1>7
  <2>2. b \notin Promise(Task) /\ b \notin Len(blocks) + 1 .. Len(blocks')
    BY <1>1, <1>3, <1>7
  <2> QED
    BY <1>7, <2>1, <2>2 DEF Open, Fits
<1>9. Promised(p) \cap Promised(Rest) = {}
  BY <1>1, <1>3, <1>7 DEF Fits
<1>10. Once(todo')
  BY <1>1, <1>3, <1>9, OnceConcat DEF Fits
<1>11. Leads(todo')
  BY <1>1, <1>3, LeadsConcat DEF Fits
<1>12. \A b \in Promised(todo') : b # cur' /\ blocks'[b].term = Unreachable
  <2>1. Promised(todo') = Promised(p) \cup Promised(Rest)
    BY <1>1, <1>3, PromisedConcat
  <2> QED
    BY <1>8, <2>1 DEF Fits
<1>13. Cardinality(LoopEnds(todo')) = Len(loop_ctx')
  <2>1. /\ Cardinality(LoopEnds(todo')) = Cardinality(LoopEnds(p)) + Cardinality(LoopEnds(Rest))
        /\ Cardinality(LoopEnds(p)) \in Nat
    BY <1>1, <1>3, LoopEndsConcat
  <2> QED
    BY <1>2, <1>3, <2>1
<1>14. blocks'[cur'].term = Unreachable \/ (todo' # <<>> /\ Head(todo').kind = "start")
  <2>1. CASE p # <<>> /\ p[1].kind = "start"
    <3>1. 1 \in DOMAIN p
      BY <1>3, <2>1, IsSeqLen
    <3>2. 1 \in DOMAIN todo' /\ todo'[1] = p[1]
      BY <1>1, <1>3, <3>1, Joined DEF Joins
    <3>3. todo' # <<>>
      BY <3>2
    <3>4. Head(todo') = todo'[1]
      BY <1>5, <3>3, Tailed
    <3> QED
      BY <2>1, <3>2, <3>3, <3>4
  <2>2. CASE p = <<>> /\ Task.kind = "jump"
    BY <1>1, <2>2
  <2> QED
    BY <2>1, <2>2
<1>15. Agenda(S)'
  BY <1>6, <1>10, <1>11, <1>12, <1>13, <1>14 DEF Agenda, Open, Task
<1>16. Grammar(S)' /\ Unclobbered
  BY DEF LowInv, Grammar, Unclobbered
<1> QED
  BY <1>15, <1>16 DEF LowInv

(* The graph of the next state is base, which differs at most in an open    *)
(* current block, and behind it new blocks.                                 *)
Grows(base, new) ==
  /\ blocks' = base \o new /\ IsSeq(base) /\ IsSeq(new) /\ Len(base) = Len(blocks)
  /\ \A b \in DOMAIN blocks : base[b] = blocks[b] \/ (b = cur /\ Open(cur))
  /\ \A b \in DOMAIN blocks : TermOK(base[b].term, Len(blocks) + Len(new))
  /\ \A i \in DOMAIN new : TermOK(new[i].term, Len(blocks) + Len(new))

(* A terminator stays right when the graph grows.                           *)
LEMMA TermsLast ==
  ASSUME NEW t, NEW n \in Nat, NEW m \in Nat, m >= n, TermOK(t, n)
  PROVE  TermOK(t, m)
BY DEF TermOK

(* The graph after such a step.                                             *)
LEMMA Grown ==
  ASSUME Graph, NEW base, NEW new, Grows(base, new)
  PROVE  /\ IsSeq(blocks') /\ Len(blocks') = Len(blocks) + Len(new)
         /\ Len(blocks) \in Nat /\ Len(new) \in Nat
         /\ DOMAIN blocks = 1 .. Len(blocks) /\ DOMAIN blocks' = 1 .. Len(blocks')
         /\ Len(blocks') >= Len(blocks)
         /\ \A b \in DOMAIN blocks : blocks'[b] = base[b]
         /\ \A b \in DOMAIN blocks : blocks'[b] = blocks[b] \/ (b = cur /\ Open(cur))
         /\ \A i \in DOMAIN new : blocks'[Len(blocks) + i] = new[i]
         /\ \A b \in DOMAIN blocks' : TermOK(blocks'[b].term, Len(blocks'))
<1>1. Joins(blocks', base, new)
  BY Joined DEF Grows
<1>2. /\ Len(blocks) \in Nat /\ Len(new) \in Nat /\ DOMAIN new = 1 .. Len(new)
      /\ DOMAIN blocks = 1 .. Len(blocks) /\ DOMAIN base = 1 .. Len(blocks)
      /\ Len(base) = Len(blocks)
  BY IsSeqLen DEF Graph, Grows
<1>3. IsSeq(blocks') /\ Len(blocks') = Len(blocks) + Len(new) /\ DOMAIN blocks' = 1 .. Len(blocks')
  BY <1>1, <1>2, IsSeqLen DEF Joins
<1>4. /\ \A b \in DOMAIN blocks : blocks'[b] = base[b]
      /\ \A i \in DOMAIN new : blocks'[Len(blocks) + i] = new[i]
      /\ \A b \in DOMAIN blocks' :
           b \in DOMAIN blocks \/ \E i \in DOMAIN new : blocks'[b] = new[i]
  BY <1>1, <1>2 DEF Joins
<1>5. \A b \in DOMAIN blocks' : TermOK(blocks'[b].term, Len(blocks'))
  <2> SUFFICES ASSUME NEW b \in DOMAIN blocks' PROVE TermOK(blocks'[b].term, Len(blocks'))
    OBVIOUS
  <2>1. CASE b \in DOMAIN blocks
    BY <1>3, <1>4, <2>1 DEF Grows
  <2>2. CASE \E i \in DOMAIN new : blocks'[b] = new[i]
    BY <1>3, <2>2 DEF Grows
  <2> QED
    BY <1>4, <2>1, <2>2
<1>6. \A b \in DOMAIN blocks : blocks'[b] = blocks[b] \/ (b = cur /\ Open(cur))
  BY <1>4 DEF Grows
<1>7. Len(blocks') >= Len(blocks)
  BY <1>2, <1>3
<1> QED
  BY <1>2, <1>3, <1>4, <1>5, <1>6, <1>7

(* flush, and blocks allocated after it.                                    *)
LEMMA Flushes ==
  ASSUME Graph, Open(cur), NEW stmts, NEW term, NEW new, IsSeq(new),
         blocks' = Flushed(stmts, term) \o new,
         TermOK(term, Len(blocks) + Len(new)),
         \A i \in DOMAIN new : TermOK(new[i].term, Len(blocks) + Len(new))
  PROVE  /\ Grows(Flushed(stmts, term), new)
         /\ Flushed(stmts, term)[cur].term = term
<1> DEFINE base == Flushed(stmts, term)
<1>1. /\ IsSeq(blocks) /\ Len(blocks) \in Nat /\ DOMAIN blocks = 1 .. Len(blocks)
      /\ cur \in DOMAIN blocks /\ Len(new) \in Nat
  BY IsSeqLen DEF Graph
<1>2. /\ DOMAIN base = 1 .. Len(blocks) /\ base = [i \in DOMAIN base |-> base[i]]
      /\ \A b \in DOMAIN blocks \ {cur} : base[b] = blocks[b]
      /\ base[cur].term = term
  BY <1>1 DEF Flushed, Block
<1> HIDE DEF base
<1>3. IsSeq(base) /\ Len(base) = Len(blocks)
  BY <1>1, <1>2, Mapped
<1>4. \A b \in DOMAIN blocks : TermOK(base[b].term, Len(blocks) + Len(new))
  <2> SUFFICES ASSUME NEW b \in DOMAIN blocks
               PROVE  TermOK(base[b].term, Len(blocks) + Len(new))
    OBVIOUS
  <2>1. CASE b = cur
    BY <1>2, <2>1
  <2>2. CASE b # cur
    <3>1. TermOK(base[b].term, Len(blocks))
      BY <1>2, <2>2 DEF Graph
    <3> QED
      BY <1>1, <3>1, TermsLast
  <2> QED
    BY <2>1, <2>2
<1>5. Grows(base, new)
  BY <1>2, <1>3, <1>4 DEF Grows, base
<1> QED
  BY <1>2, <1>5 DEF base

(* Blocks allocated without a flush.                                        *)
LEMMA Allocates ==
  ASSUME Graph, NEW new, IsSeq(new), blocks' = blocks \o new,
         \A i \in DOMAIN new : TermOK(new[i].term, Len(blocks) + Len(new))
  PROVE  Grows(blocks, new)
<1>1. IsSeq(blocks) /\ Len(blocks) \in Nat /\ Len(new) \in Nat
  BY IsSeqLen DEF Graph
<1>2. \A b \in DOMAIN blocks : TermOK(blocks[b].term, Len(blocks) + Len(new))
  BY <1>1, TermsLast DEF Graph
<1> QED
  BY <1>1, <1>2 DEF Grows

(* What is allocated is open.                                               *)
LEMMA Placeholders ==
  ASSUME NEW n \in Nat
  PROVE  /\ IsSeq(Fresh(n)) /\ Len(Fresh(n)) = n /\ DOMAIN Fresh(n) = 1 .. n
         /\ \A i \in DOMAIN Fresh(n) : Fresh(n)[i].term = Unreachable
         /\ \A m : TermOK(Unreachable, m)
<1> DEFINE f == Fresh(n)
<1>1. DOMAIN f = 1 .. n /\ f = [i \in DOMAIN f |-> f[i]] /\ \A i \in 1 .. n : f[i].term = Unreachable
  BY DEF Fresh, Placeholder, Block
<1> HIDE DEF f
<1>2. IsSeq(f) /\ Len(f) = n
  BY <1>1, Mapped
<1>3. \A m : TermOK(Unreachable, m)
  BY DEF TermOK, Unreachable
<1> QED
  BY <1>1, <1>2, <1>3 DEF f

(* A task that is done with leaves none.                                    *)
LEMMA NoneFit ==
  ASSUME NEW S, cur' \in {cur} \cup Promise(Task) \cup (Len(blocks) + 1 .. Len(blocks'))
  PROVE  Fits(S, <<>>) /\ Cardinality(LoopEnds(<<>>)) = 0
<1>1. IsSeq(<<>>) /\ DOMAIN <<>> = {} /\ Elems(<<>>) = {}
  BY EmptySeq DEF Elems, IsSeq
<1>2. LoopEnds(<<>>) = {}
  BY <1>1 DEF LoopEnds
<1> QED
  BY <1>1, <1>2, FS_EmptySet DEF Fits, Tasks, Once, Leads, Promised

(* A step that leaves the blocks alone.                                     *)
LEMMA SameGraph ==
  ASSUME NEW S, LowInv(S), blocks' = blocks, at' = at, cur' \in DOMAIN blocks, loop_ctx' = loop_ctx
  PROVE  /\ Graph' /\ Len(blocks') >= Len(blocks)
         /\ \A b \in DOMAIN blocks : blocks'[b] = blocks[b]
BY IsSeqLen DEF LowInv, Graph

(* A plain statement, and a break or continue outside of every loop.        *)
LEMMA SkipsAdvance ==
  ASSUME NEW S, LowInv(S), LowerDo \/ LowerStray
  PROVE  LowInv(S)' /\ Unclobbered
<1>1. /\ phase = "lower" /\ todo # <<>> /\ todo' = Rest /\ Task.kind \in {"do", "break", "continue"}
      /\ UNCHANGED <<blocks, cur, loop_ctx>> /\ UNCHANGED <<phase, at>>
  BY DEF LowerDo, LowerStray, At, Lowers, runVars
<1>2. Rest = <<>> \o Rest /\ Open(cur) /\ Len(loop_ctx) \in Nat
  BY <1>1, TodoIs, IsSeqLen DEF LowInv, Graph
<1>3. /\ Graph' /\ Len(blocks') >= Len(blocks)
      /\ \A b \in DOMAIN blocks : blocks'[b] = blocks[b]
  BY <1>1, SameGraph DEF LowInv, Graph
<1>4. Fits(S, <<>>) /\ Cardinality(LoopEnds(<<>>)) = 0
  BY <1>1, NoneFit
<1>5. blocks'[cur'].term = Unreachable
  BY <1>1, <1>2 DEF Open
<1>6. todo' = <<>> \o Rest
  BY <1>1, <1>2
<1>7. Cardinality(LoopEnds(<<>>)) + Len(loop_ctx) =
        (IF Task.kind = "leave" THEN 1 ELSE 0) + Len(loop_ctx')
  BY <1>1, <1>2, <1>4
<1> QED
  BY <1>1, <1>3, <1>4, <1>5, <1>6, <1>7, Advances

(* start_block.                                                             *)
LEMMA StartAdvances ==
  ASSUME NEW S, LowInv(S), StartBlock
  PROVE  LowInv(S)' /\ Unclobbered
<1>1. /\ phase = "lower" /\ todo # <<>> /\ todo' = Rest /\ Task.kind = "start"
      /\ cur' = Task.block
      /\ UNCHANGED <<blocks, loop_ctx>> /\ UNCHANGED <<phase, at>>
  BY DEF StartBlock, At, Lowers, runVars
<1>2. /\ Rest = <<>> \o Rest /\ Len(loop_ctx) \in Nat /\ TaskOK(S, Task, Len(blocks))
      /\ cur' \in Promised(todo) /\ cur' \in Promise(Task)
  BY <1>1, TodoIs, IsSeqLen DEF LowInv, Graph, Promise
<1>3. cur' \in DOMAIN blocks /\ blocks'[cur'].term = Unreachable
  <2>1. Task \notin S
    BY <1>1 DEF LowInv, Grammar
  <2>2. Task.block \in 1 .. Len(blocks)
    BY <1>1, <1>2, <2>1 DEF TaskOK
  <2>3. Open(Task.block)
    BY <1>1, <1>2 DEF LowInv, Agenda
  <2> QED
    BY <1>1, <2>2, <2>3, IsSeqLen DEF LowInv, Graph, Open
<1>4. /\ Graph' /\ Len(blocks') >= Len(blocks)
      /\ \A b \in DOMAIN blocks : blocks'[b] = blocks[b]
  BY <1>1, <1>3, SameGraph DEF LowInv, Graph
<1>5. Fits(S, <<>>) /\ Cardinality(LoopEnds(<<>>)) = 0
  BY <1>2, NoneFit
<1>6. todo' = <<>> \o Rest
  BY <1>1, <1>2
<1>7. Cardinality(LoopEnds(<<>>)) + Len(loop_ctx) =
        (IF Task.kind = "leave" THEN 1 ELSE 0) + Len(loop_ctx')
  BY <1>1, <1>2, <1>5
<1> QED
  BY <1>1, <1>3, <1>4, <1>5, <1>6, <1>7, Advances

(* loop_ctx.pop: there is a loop to leave.                                  *)
LEMMA LeaveAdvances ==
  ASSUME NEW S, LowInv(S), PopLoop
  PROVE  LowInv(S)' /\ Unclobbered
<1>1. /\ phase = "lower" /\ todo # <<>> /\ todo' = Rest /\ Task.kind = "leave"
      /\ loop_ctx' = Seqs!Front(loop_ctx)
      /\ UNCHANGED <<blocks, cur>> /\ UNCHANGED <<phase, at>>
  BY DEF PopLoop, At, Lowers, runVars
<1>2. /\ Rest = <<>> \o Rest /\ Len(loop_ctx) \in Nat /\ IsSeq(loop_ctx) /\ Open(cur)
      /\ Cardinality(LoopEnds(Rest)) \in Nat
      /\ Len(loop_ctx) = 1 + Cardinality(LoopEnds(Rest))
  BY <1>1, TodoIs, IsSeqLen DEF LowInv, Graph, Agenda
<1>3. loop_ctx # <<>>
  BY <1>2, IsSeqLen
<1>4. /\ IsSeq(loop_ctx') /\ Len(loop_ctx') = Len(loop_ctx) - 1
      /\ \A i \in DOMAIN loop_ctx' : i \in DOMAIN loop_ctx /\ loop_ctx'[i] = loop_ctx[i]
  BY <1>1, <1>2, <1>3, Fronted
<1>5. Graph' /\ Len(blocks') >= Len(blocks) /\ \A b \in DOMAIN blocks : blocks'[b] = blocks[b]
  <2>1. \A n \in DOMAIN loop_ctx' :
          {loop_ctx'[n].header, loop_ctx'[n].exit} \subseteq DOMAIN blocks'
    BY <1>1, <1>4 DEF LowInv, Graph
  <2>2. Len(blocks') >= Len(blocks)
    BY <1>1, IsSeqLen DEF LowInv, Graph
  <2> QED
    BY <1>1, <1>4, <2>1, <2>2 DEF LowInv, Graph
<1>6. Fits(S, <<>>) /\ Cardinality(LoopEnds(<<>>)) = 0
  BY <1>1, NoneFit
<1>7. todo' = <<>> \o Rest /\ blocks'[cur'].term = Unreachable
  BY <1>1, <1>2 DEF Open
<1>8. Cardinality(LoopEnds(<<>>)) + Len(loop_ctx) =
        (IF Task.kind = "leave" THEN 1 ELSE 0) + Len(loop_ctx')
  BY <1>1, <1>2, <1>4, <1>6
<1> QED
  BY <1>1, <1>5, <1>6, <1>7, <1>8, Advances

(* What ends a block for good and opens a dead one behind it.               *)
LEMMA TerminateAdvances ==
  ASSUME NEW S, LowInv(S), phase = "lower", todo # <<>>, Task.kind \notin {"start", "leave"},
         NEW stmts, NEW term, TermOK(term, Len(blocks)), Terminate(stmts, term)
  PROVE  LowInv(S)' /\ Unclobbered
<1>1. /\ blocks' = Append(Flushed(stmts, term), Placeholder) /\ cur' = Len(blocks) + 1
      /\ todo' = Rest /\ UNCHANGED <<loop_ctx, phase, at>>
  BY DEF Terminate, Lowers, runVars, New
<1>2. /\ Rest = <<>> \o Rest /\ Len(loop_ctx) \in Nat /\ Open(cur) /\ Graph /\ Len(blocks) \in Nat
      /\ IsSeq(blocks) /\ DOMAIN blocks = 1 .. Len(blocks) /\ IsSeq(loop_ctx) /\ at \in DOMAIN blocks
  BY TodoIs, IsSeqLen DEF LowInv, Graph
<1> DEFINE new == <<Placeholder>>
           base == Flushed(stmts, term)
<1>3. IsSeq(new) /\ Len(new) = 1 /\ DOMAIN new = {1} /\ new[1].term = Unreachable
  BY One DEF Placeholder, Block
<1>4. IsSeq(base)
  <2>1. DOMAIN base = 1 .. Len(blocks) /\ base = [i \in DOMAIN base |-> base[i]]
    BY <1>2 DEF Flushed
  <2> HIDE DEF base
  <2> QED
    BY <1>2, <2>1, Mapped
<1>5. blocks' = base \o new
  BY <1>1, <1>4, AppendIs
<1>6. TermOK(term, Len(blocks) + Len(new)) /\ \A m : TermOK(Unreachable, m)
  BY <1>2, <1>3, TermsLast, Placeholders
<1>7. Grows(base, new)
  <2> HIDE DEF new
  <2> QED
    BY <1>2, <1>3, <1>5, <1>6, Flushes
<1> HIDE DEF new, base
<1>8. /\ IsSeq(blocks') /\ Len(blocks') = Len(blocks) + 1
      /\ DOMAIN blocks' = 1 .. Len(blocks') /\ Len(blocks') >= Len(blocks)
      /\ \A b \in DOMAIN blocks : blocks'[b] = blocks[b] \/ (b = cur /\ Open(cur))
      /\ blocks'[Len(blocks) + 1].term = Unreachable
      /\ \A b \in DOMAIN blocks' : TermOK(blocks'[b].term, Len(blocks'))
  <2>1. /\ IsSeq(blocks') /\ Len(blocks') = Len(blocks) + 1
        /\ DOMAIN blocks' = 1 .. Len(blocks') /\ Len(blocks') >= Len(blocks)
    BY <1>2, <1>3, <1>7, Grown
  <2>2. \A b \in DOMAIN blocks : blocks'[b] = blocks[b] \/ (b = cur /\ Open(cur))
    BY <1>2, <1>7, Grown
  <2>3. \A i \in DOMAIN new : blocks'[Len(blocks) + i] = new[i]
    BY <1>2, <1>7, Grown
  <2>4. \A b \in DOMAIN blocks' : TermOK(blocks'[b].term, Len(blocks'))
    BY <1>2, <1>7, Grown
  <2> QED
    BY <1>3, <2>1, <2>2, <2>3, <2>4
<1>9. Graph'
  BY <1>1, <1>2, <1>8 DEF Graph
<1>10. Fits(S, <<>>) /\ Cardinality(LoopEnds(<<>>)) = 0
  BY <1>1, <1>2, <1>8, NoneFit
<1>11. todo' = <<>> \o Rest /\ blocks'[cur'].term = Unreachable
  BY <1>1, <1>2, <1>8
<1>12. Cardinality(LoopEnds(<<>>)) + Len(loop_ctx) =
        (IF Task.kind = "leave" THEN 1 ELSE 0) + Len(loop_ctx')
  BY <1>1, <1>2, <1>10
<1> QED
  BY <1>1, <1>8, <1>9, <1>10, <1>11, <1>12, Advances

(* return, panic, and break and continue in a loop.                         *)
LEMMA ExitsAdvance ==
  ASSUME NEW S, LowInv(S), LowerReturn \/ LowerPanic \/ LowerBreak \/ LowerContinue
  PROVE  LowInv(S)' /\ Unclobbered
<1>1. /\ phase = "lower" /\ todo # <<>> /\ Task.kind \in {"return", "panic", "break", "continue"}
  BY DEF LowerReturn, LowerPanic, LowerBreak, LowerContinue, At
<1>2. CASE LowerReturn
  <2>1. TermOK(Returns(Task.value), Len(blocks))
    BY DEF TermOK, Returns
  <2> QED
    BY <1>1, <1>2, <2>1, TerminateAdvances DEF LowerReturn
<1>3. CASE LowerPanic
  <2>1. TermOK(Abort, Len(blocks))
    BY DEF TermOK, Abort
  <2> QED
    BY <1>1, <1>3, <2>1, TerminateAdvances DEF LowerPanic
<1>4. loop_ctx # <<>> =>
        /\ TermOK(Goto(Seqs!Last(loop_ctx).header), Len(blocks))
        /\ TermOK(Goto(Seqs!Last(loop_ctx).exit), Len(blocks))
  <2> SUFFICES ASSUME loop_ctx # <<>>
               PROVE  /\ TermOK(Goto(Seqs!Last(loop_ctx).header), Len(blocks))
                      /\ TermOK(Goto(Seqs!Last(loop_ctx).exit), Len(blocks))
    OBVIOUS
  <2>1. {Seqs!Last(loop_ctx).header, Seqs!Last(loop_ctx).exit} \subseteq DOMAIN blocks
    BY Fronted DEF LowInv, Graph
  <2>2. DOMAIN blocks = 1 .. Len(blocks)
    BY IsSeqLen DEF LowInv, Graph
  <2>3. \A b \in DOMAIN blocks : TermOK(Goto(b), Len(blocks))
    BY <2>2 DEF TermOK, Goto
  <2> QED
    BY <2>1, <2>3
<1>5. CASE LowerBreak
  BY <1>1, <1>4, <1>5, TerminateAdvances DEF LowerBreak
<1>6. CASE LowerContinue
  BY <1>1, <1>4, <1>6, TerminateAdvances DEF LowerContinue
<1> QED
  BY <1>2, <1>3, <1>5, <1>6

(* A list of tasks that begins the blocks in opens and leaves that many     *)
(* loops.                                                                   *)
Piece(S, q, n, opens, leaves) ==
  /\ Tasks(S, q, n) /\ Once(q) /\ Leads(q)
  /\ Promised(q) = opens /\ Cardinality(LoopEnds(q)) = leaves

(* Two pieces, one behind the other.                                        *)
LEMMA PieceConcat ==
  ASSUME NEW S, NEW n, NEW p, NEW B, NEW j, Piece(S, p, n, B, j),
         NEW q, NEW C, NEW k, Piece(S, q, n, C, k), B \cap C = {}
  PROVE  Piece(S, p \o q, n, B \cup C, j + k)
<1>1. IsSeq(p) /\ IsSeq(q)
  BY DEF Piece, Tasks
<1>2. Once(p \o q) /\ Leads(p \o q)
  BY <1>1, OnceConcat, LeadsConcat DEF Piece
<1>3. Promised(p \o q) = B \cup C
  BY <1>1, PromisedConcat DEF Piece
<1>4. Cardinality(LoopEnds(p \o q)) = j + k
  BY <1>1, LoopEndsConcat DEF Piece
<1>5. IsSeq(p \o q) /\ Elems(p \o q) = Elems(p) \cup Elems(q)
  BY <1>1, Concatenated, ConcatElems
<1>6. Tasks(S, p \o q, n)
  BY <1>5 DEF Piece, Tasks
<1> QED
  BY <1>2, <1>3, <1>4, <1>6 DEF Piece

(* The statements of a body begin no block and leave no loop.               *)
LEMMA BodyPiece ==
  ASSUME NEW S, Grammar(S), NEW body \in Seq(S), NEW n
  PROVE  Piece(S, body, n, {}, 0) /\ \A i \in DOMAIN body : body[i].kind # "jump"
<1>1. IsSeq(body) /\ Elems(body) \subseteq S
  BY SeqIs
<1>2. \A t \in S : t.kind \notin {"jump", "start", "leave", "link"}
  BY DEF Grammar
<1>3. \A i \in DOMAIN body : body[i].kind \notin {"jump", "start", "leave", "link"}
  BY <1>1, <1>2 DEF Elems
<1>4. \A i \in DOMAIN body : Promise(body[i]) = {}
  BY <1>3 DEF Promise
<1>5. Tasks(S, body, n)
  BY <1>1 DEF Tasks, TaskOK
<1>6. LoopEnds(body) = {}
  BY <1>3 DEF LoopEnds
<1>7. Cardinality(LoopEnds(body)) = 0
  BY <1>6, FS_EmptySet
<1>8. Once(body) /\ Leads(body) /\ Promised(body) = {}
  BY <1>3, <1>4 DEF Once, Leads, Promised
<1> QED
  BY <1>3, <1>5, <1>7, <1>8 DEF Piece

(* A task by itself.                                                        *)
LEMMA TaskPiece ==
  ASSUME NEW S, NEW n, NEW t, TaskOK(S, t, n), t.kind # "jump"
  PROVE  Piece(S, <<t>>, n, Promise(t), IF t.kind = "leave" THEN 1 ELSE 0)
<1> PICK q : q = <<t>>
  OBVIOUS
<1>1. IsSeq(q) /\ DOMAIN q = {1} /\ q[1] = t /\ Elems(q) = {t}
  BY One
<1>2. Tasks(S, q, n) /\ Once(q) /\ Leads(q) /\ Promised(q) = Promise(t)
  BY <1>1 DEF Tasks, Once, Leads, Promised
<1>3. LoopEnds(q) = IF t.kind = "leave" THEN {1} ELSE {}
  BY <1>1 DEF LoopEnds
<1>4. Cardinality(LoopEnds(q)) = IF t.kind = "leave" THEN 1 ELSE 0
  BY <1>3, FS_EmptySet, FS_Singleton
<1> QED
  BY <1>2, <1>4 DEF Piece

(* A jump and the start behind it.                                          *)
LEMMA JumpPiece ==
  ASSUME NEW S, NEW n, NEW a \in 1 .. n, NEW b \in 1 .. n
  PROVE  Piece(S, <<Jump(a), Start(b)>>, n, {b}, 0)
<1> PICK q : q = <<Jump(a), Start(b)>>
  OBVIOUS
<1>1. /\ IsSeq(q) /\ DOMAIN q = {1, 2} /\ q[1] = Jump(a) /\ q[2] = Start(b)
      /\ Elems(q) = {Jump(a), Start(b)}
  BY Two
<1>2. /\ Jump(a).kind = "jump" /\ Start(b).kind = "start"
      /\ Promise(Jump(a)) = {} /\ Promise(Start(b)) = {b}
      /\ Jump(a).block = a /\ Start(b).block = b
  BY DEF Jump, Start, Promise
<1>3. TaskOK(S, Jump(a), n) /\ TaskOK(S, Start(b), n)
  BY <1>2 DEF TaskOK
<1>4. Tasks(S, q, n)
  BY <1>1, <1>3 DEF Tasks
<1>5. Promised(q) = {b}
  BY <1>1, <1>2 DEF Promised
<1>6. Once(q) /\ Leads(q) /\ LoopEnds(q) = {}
  BY <1>1, <1>2 DEF Once, Leads, LoopEnds
<1> QED
  BY <1>4, <1>5, <1>6, FS_EmptySet DEF Piece

(* What follows the body of a loop.                                         *)
LEMMA LoopPiece ==
  ASSUME NEW S, NEW n, NEW a \in 1 .. n, NEW b \in 1 .. n, NEW e
  PROVE  /\ Piece(S, <<LeaveLoop, Jump(a), Start(b)>>, n, {b}, 1)
         /\ Piece(S, <<LeaveLoop, Do(e), Jump(a), Start(b)>>, n, {b}, 1)
<1>1. Piece(S, <<LeaveLoop>>, n, {}, 1)
  <2>1. LeaveLoop.kind = "leave" /\ Promise(LeaveLoop) = {}
    BY DEF LeaveLoop, Promise
  <2>2. TaskOK(S, LeaveLoop, n)
    BY <2>1 DEF TaskOK
  <2> QED
    BY <2>1, <2>2, TaskPiece
<1>2. Piece(S, <<Do(e)>>, n, {}, 0)
  <2>1. Do(e).kind = "do" /\ Promise(Do(e)) = {}
    BY DEF Do, Promise
  <2>2. TaskOK(S, Do(e), n)
    BY <2>1 DEF TaskOK
  <2> QED
    BY <2>1, <2>2, TaskPiece
<1>3. Piece(S, <<Jump(a), Start(b)>>, n, {b}, 0)
  BY JumpPiece
<1>4. Piece(S, <<LeaveLoop>> \o <<Jump(a), Start(b)>>, n, {} \cup {b}, 1 + 0)
  BY <1>1, <1>3, PieceConcat
<1>5. Piece(S, <<Do(e)>> \o <<Jump(a), Start(b)>>, n, {} \cup {b}, 0 + 0)
  BY <1>2, <1>3, PieceConcat
<1>6. {} \cup {b} = {b} /\ 1 + 0 = 1 /\ 0 + 0 = 0
  OBVIOUS
<1>7. Piece(S, <<Do(e), Jump(a), Start(b)>>, n, {b}, 0)
  <2>1. <<Do(e)>> \o <<Jump(a), Start(b)>> = <<Do(e), Jump(a), Start(b)>>
    BY ThreeIs
  <2> QED
    BY <1>5, <1>6, <2>1
<1>8. Piece(S, <<LeaveLoop>> \o <<Do(e), Jump(a), Start(b)>>, n, {} \cup {b}, 1 + 0)
  BY <1>1, <1>7, PieceConcat
<1>9. Piece(S, <<LeaveLoop, Jump(a), Start(b)>>, n, {b}, 1)
  <2>1. <<LeaveLoop>> \o <<Jump(a), Start(b)>> = <<LeaveLoop, Jump(a), Start(b)>>
    BY ThreeIs
  <2> QED
    BY <1>4, <1>6, <2>1
<1>10. Piece(S, <<LeaveLoop, Do(e), Jump(a), Start(b)>>, n, {b}, 1)
  <2>1. <<LeaveLoop>> \o <<Do(e), Jump(a), Start(b)>> = <<LeaveLoop, Do(e), Jump(a), Start(b)>>
    BY FourIs
  <2> QED
    BY <1>6, <1>8, <2>1
<1> QED
  BY <1>9, <1>10

(* When a piece may take the place of the first task.                       *)
LEMMA PieceFits ==
  ASSUME NEW S, NEW p, NEW B, NEW k, Piece(S, p, Len(blocks'), B, k),
         B \subseteq Promise(Task) \cup (Len(blocks) + 1 .. Len(blocks')),
         \A b \in B : b # cur' /\ blocks'[b].term = Unreachable,
         cur' \in {cur} \cup Promise(Task) \cup (Len(blocks) + 1 .. Len(blocks'))
  PROVE  Fits(S, p) /\ Cardinality(LoopEnds(p)) = k
BY DEF Piece, Fits

(* What the invariant says of the task at hand.                             *)
LEMMA Here ==
  ASSUME NEW S, LowInv(S), phase = "lower", todo # <<>>
  PROVE  /\ Graph /\ Grammar(S) /\ IsSeq(blocks) /\ Len(blocks) \in Nat
         /\ DOMAIN blocks = 1 .. Len(blocks) /\ cur \in 1 .. Len(blocks) /\ at \in 1 .. Len(blocks)
         /\ Len(loop_ctx) \in Nat /\ IsSeq(loop_ctx)
         /\ TaskOK(S, Task, Len(blocks))
         /\ Task.kind # "start" => Open(cur)
BY IsSeqLen, TodoIs DEF LowInv, Graph

(* flush with a jump.                                                       *)
LEMMA JumpAdvances ==
  ASSUME NEW S, LowInv(S), TakeJump
  PROVE  LowInv(S)' /\ Unclobbered
<1>1. /\ phase = "lower" /\ todo # <<>> /\ Task.kind = "jump" /\ todo' = Rest
      /\ blocks' = Flushed(<<>>, Goto(Task.block))
      /\ UNCHANGED <<cur, loop_ctx, phase, at>>
  BY DEF TakeJump, At, Lowers, runVars
<1>2. /\ Graph /\ IsSeq(blocks) /\ Len(blocks) \in Nat /\ DOMAIN blocks = 1 .. Len(blocks)
      /\ cur \in 1 .. Len(blocks) /\ at \in 1 .. Len(blocks) /\ Len(loop_ctx) \in Nat
      /\ IsSeq(loop_ctx) /\ Open(cur) /\ TaskOK(S, Task, Len(blocks)) /\ Rest = <<>> \o Rest
  BY <1>1, Here, TodoIs
<1>3. Task.block \in 1 .. Len(blocks)
  <2>1. Task \notin S
    BY <1>1 DEF LowInv, Grammar
  <2> QED
    BY <1>1, <1>2, <2>1 DEF TaskOK
<1> DEFINE base == Flushed(<<>>, Goto(Task.block))
<1>4. IsSeq(base)
  <2>1. DOMAIN base = 1 .. Len(blocks) /\ base = [i \in DOMAIN base |-> base[i]]
    BY <1>2 DEF Flushed
  <2> HIDE DEF base
  <2> QED
    BY <1>2, <2>1, Mapped
<1>5. IsSeq(<<>>) /\ Len(<<>>) = 0 /\ DOMAIN <<>> = {}
  BY EmptySeq DEF IsSeq
<1>6. blocks' = base \o <<>>
  BY <1>1, <1>4, ConcatEmptySeq DEF IsSeq
<1>7. TermOK(Goto(Task.block), Len(blocks) + Len(<<>>))
  BY <1>2, <1>3, <1>5 DEF TermOK, Goto
<1>8. Grows(base, <<>>)
  BY <1>2, <1>5, <1>6, <1>7, Flushes
<1> HIDE DEF base
<1>9. /\ IsSeq(blocks') /\ Len(blocks') = Len(blocks) /\ DOMAIN blocks' = 1 .. Len(blocks)
      /\ Len(blocks') >= Len(blocks)
      /\ \A b \in DOMAIN blocks : blocks'[b] = blocks[b] \/ (b = cur /\ Open(cur))
  BY <1>2, <1>5, <1>8, Grown
<1>10. \A b \in DOMAIN blocks' : TermOK(blocks'[b].term, Len(blocks'))
  BY <1>2, <1>8, Grown
<1>11. Graph'
  BY <1>1, <1>2, <1>9, <1>10 DEF Graph
<1>12. Fits(S, <<>>) /\ Cardinality(LoopEnds(<<>>)) = 0
  BY <1>1, NoneFit
<1>13. Cardinality(LoopEnds(<<>>)) + Len(loop_ctx) =
         (IF Task.kind = "leave" THEN 1 ELSE 0) + Len(loop_ctx')
  BY <1>1, <1>2, <1>12
<1>14. todo' = <<>> \o Rest
  BY <1>1, <1>2
<1> QED
  BY <1>1, <1>9, <1>11, <1>12, <1>13, <1>14, Advances

(* The merge block of a chain of conditions.                                *)
LEMMA IfAdvances ==
  ASSUME NEW S, LowInv(S), LowerIf
  PROVE  LowInv(S)' /\ Unclobbered
<1> DEFINE link == [kind |-> "link", arms |-> Task.arms, otherwise |-> Task.otherwise,
                    merge |-> Len(blocks) + 1]
<1>1. /\ phase = "lower" /\ todo # <<>> /\ Task.kind = "if" /\ todo' = <<link>> \o Rest
      /\ blocks' = blocks \o Fresh(1)
      /\ UNCHANGED <<cur, loop_ctx, phase, at>>
  BY DEF LowerIf, At, Lowers, runVars, New
<1>2. /\ Graph /\ IsSeq(blocks) /\ Len(blocks) \in Nat /\ DOMAIN blocks = 1 .. Len(blocks)
      /\ cur \in 1 .. Len(blocks) /\ at \in 1 .. Len(blocks) /\ Len(loop_ctx) \in Nat
      /\ IsSeq(loop_ctx) /\ Open(cur) /\ TaskOK(S, Task, Len(blocks)) /\ Grammar(S)
  BY <1>1, Here
<1>3. Grows(blocks, Fresh(1)) /\ Len(Fresh(1)) = 1 /\ Fresh(1)[1].term = Unreachable
  <2>1. /\ IsSeq(Fresh(1)) /\ Len(Fresh(1)) = 1 /\ 1 \in DOMAIN Fresh(1)
        /\ \A i \in DOMAIN Fresh(1) : Fresh(1)[i].term = Unreachable
    <3>1. 1 \in Nat /\ 1 \in 1 .. 1
      OBVIOUS
    <3> QED
      BY <3>1, Placeholders
  <2>2. \A m : TermOK(Unreachable, m)
    BY Placeholders
  <2>3. \A i \in DOMAIN Fresh(1) : TermOK(Fresh(1)[i].term, Len(blocks) + Len(Fresh(1)))
    BY <2>1, <2>2
  <2> QED
    BY <1>1, <1>2, <2>1, <2>3, Allocates
<1>4. /\ IsSeq(blocks') /\ Len(blocks') = Len(blocks) + 1 /\ DOMAIN blocks' = 1 .. Len(blocks) + 1
      /\ Len(blocks') >= Len(blocks)
      /\ \A b \in DOMAIN blocks : blocks'[b] = blocks[b]
  BY <1>2, <1>3, Grown
<1>5. blocks'[Len(blocks) + 1].term = Unreachable
  <2>1. 1 \in DOMAIN Fresh(1)
    BY Placeholders
  <2>2. \A i \in DOMAIN Fresh(1) : blocks'[Len(blocks) + i] = Fresh(1)[i]
    BY <1>2, <1>3, Grown
  <2> QED
    BY <1>3, <2>1, <2>2
<1>6. \A b \in DOMAIN blocks' : TermOK(blocks'[b].term, Len(blocks'))
  BY <1>2, <1>3, Grown
<1>7. Graph'
  BY <1>1, <1>2, <1>4, <1>6 DEF Graph
<1>8. Piece(S, <<link>>, Len(blocks'), {Len(blocks) + 1}, 0)
  <2>1. /\ Task.arms # <<>> /\ Task.otherwise \in Seq(S)
        /\ Task.arms \in Seq([cond : STRING, body : Seq(S)])
    BY <1>1, <1>2 DEF TaskOK, Grammar
  <2>2. /\ link.kind = "link" /\ link.merge = Len(blocks) + 1 /\ link.arms = Task.arms
        /\ link.otherwise = Task.otherwise
        /\ link = [kind |-> "link", arms |-> link.arms, otherwise |-> link.otherwise,
                   merge |-> link.merge]
    OBVIOUS
  <2> HIDE DEF link
  <2>3. TaskOK(S, link, Len(blocks')) /\ Promise(link) = {Len(blocks) + 1}
    BY <1>2, <1>4, <2>1, <2>2 DEF TaskOK, Promise
  <2>4. link.kind # "jump" /\ (IF link.kind = "leave" THEN 1 ELSE 0) = 0
    BY <2>2
  <2>5. Piece(S, <<link>>, Len(blocks'), Promise(link), IF link.kind = "leave" THEN 1 ELSE 0)
    BY <2>3, <2>4, TaskPiece
  <2> QED
    BY <2>3, <2>4, <2>5
<1> HIDE DEF link
<1>9. Fits(S, <<link>>) /\ Cardinality(LoopEnds(<<link>>)) = 0
  <2>1. {Len(blocks) + 1} \subseteq Len(blocks) + 1 .. Len(blocks')
    <3>1. Len(blocks) + 1 \in Len(blocks) + 1 .. Len(blocks')
      BY <1>2, <1>4
    <3> QED
      BY <3>1
  <2>2. Len(blocks) + 1 # cur'
    BY <1>1, <1>2
  <2> QED
    <3>1. \A b \in {Len(blocks) + 1} : b # cur' /\ blocks'[b].term = Unreachable
      BY <1>5, <2>2
    <3>2. cur' \in {cur} \cup Promise(Task) \cup (Len(blocks) + 1 .. Len(blocks'))
      BY <1>1
    <3>3. {Len(blocks) + 1} \subseteq Promise(Task) \cup (Len(blocks) + 1 .. Len(blocks'))
      BY <2>1
    <3> QED
      BY <1>8, <3>1, <3>2, <3>3, PieceFits
<1>10. Cardinality(LoopEnds(<<link>>)) + Len(loop_ctx) =
         (IF Task.kind = "leave" THEN 1 ELSE 0) + Len(loop_ctx')
  BY <1>1, <1>2, <1>9
<1>11. blocks'[cur'].term = Unreachable
  BY <1>1, <1>2, <1>4 DEF Open
<1> QED
  BY <1>1, <1>4, <1>7, <1>9, <1>10, <1>11, Advances

(* A step that flushes the current block, allocates new ones and puts a     *)
(* piece in the place of the task.                                          *)
LEMMA MovesOn ==
  ASSUME NEW S, LowInv(S), phase = "lower", todo # <<>>, phase' = phase, at' = at,
         Task.kind \notin {"start", "leave"},
         NEW stmts, NEW term, NEW new, IsSeq(new), blocks' = Flushed(stmts, term) \o new,
         TermOK(term, Len(blocks) + Len(new)),
         \A i \in DOMAIN new : TermOK(new[i].term, Len(blocks) + Len(new)),
         NEW p, NEW B, NEW k \in Nat, Piece(S, p, Len(blocks) + Len(new), B, k), todo' = p \o Rest,
         IsSeq(loop_ctx'), Len(loop_ctx') = Len(loop_ctx) + k,
         \A n \in DOMAIN loop_ctx' :
           {loop_ctx'[n].header, loop_ctx'[n].exit} \subseteq 1 .. Len(blocks) + Len(new),
         B \subseteq Promise(Task) \cup {Len(blocks) + i : i \in DOMAIN new},
         cur' \notin B,
         \A i \in DOMAIN new : Len(blocks) + i \in B => new[i].term = Unreachable,
         \/ cur' = cur /\ p # <<>> /\ p[1].kind = "start"
         \/ \E i \in DOMAIN new : cur' = Len(blocks) + i /\ new[i].term = Unreachable
  PROVE  LowInv(S)' /\ Unclobbered
<1>1. /\ Graph /\ IsSeq(blocks) /\ Len(blocks) \in Nat /\ DOMAIN blocks = 1 .. Len(blocks)
      /\ cur \in 1 .. Len(blocks) /\ at \in 1 .. Len(blocks) /\ Len(loop_ctx) \in Nat
      /\ IsSeq(loop_ctx) /\ Open(cur) /\ TaskOK(S, Task, Len(blocks)) /\ Grammar(S)
      /\ Len(new) \in Nat /\ DOMAIN new = 1 .. Len(new)
  BY Here, IsSeqLen
<1> DEFINE base == Flushed(stmts, term)
<1>2. Grows(base, new)
  BY <1>1, Flushes
<1> HIDE DEF base
<1>3. /\ IsSeq(blocks') /\ Len(blocks') = Len(blocks) + Len(new) /\ DOMAIN blocks' = 1 .. Len(blocks')
      /\ Len(blocks') >= Len(blocks)
      /\ \A b \in DOMAIN blocks : blocks'[b] = blocks[b] \/ (b = cur /\ Open(cur))
  BY <1>1, <1>2, Grown
<1>4. \A i \in DOMAIN new : blocks'[Len(blocks) + i] = new[i]
  BY <1>1, <1>2, Grown, SMTT(40)
<1>5. \A b \in DOMAIN blocks' : TermOK(blocks'[b].term, Len(blocks'))
  BY <1>1, <1>2, Grown
<1>6. {Len(blocks) + i : i \in DOMAIN new} \subseteq Len(blocks) + 1 .. Len(blocks')
  BY <1>1, <1>3
<1>7. cur' \in {cur} \cup (Len(blocks) + 1 .. Len(blocks')) /\ cur' \in DOMAIN blocks'
  <2>1. CASE cur' = cur
    BY <1>1, <1>3, <2>1
  <2>2. CASE \E i \in DOMAIN new : cur' = Len(blocks) + i
    <3>1. cur' \in Len(blocks) + 1 .. Len(blocks')
      BY <1>6, <2>2
    <3> QED
      BY <1>1, <1>3, <3>1
  <2> QED
    BY <2>1, <2>2
<1>8. Graph'
  BY <1>1, <1>3, <1>5, <1>7 DEF Graph
<1>9. \A b \in B : blocks'[b].term = Unreachable
  <2> SUFFICES ASSUME NEW b \in B PROVE blocks'[b].term = Unreachable
    OBVIOUS
  <2>1. CASE b \in Promise(Task)
    <3>1. b # cur /\ Open(b)
      BY <2>1, TodoIs DEF LowInv, Agenda
    <3>2. b \in DOMAIN blocks
      <4>1. Task.kind = "link" /\ b = Task.merge
        BY <2>1 DEF Promise
      <4>2. Task \notin S
        BY <4>1, <1>1 DEF Grammar
      <4> QED
        BY <1>1, <4>1, <4>2 DEF TaskOK
    <3> QED
      BY <1>3, <3>1, <3>2 DEF Open
  <2>2. CASE \E i \in DOMAIN new : b = Len(blocks) + i
    BY <1>4, <2>2
  <2> QED
    BY <2>1, <2>2
<1>10. Fits(S, p) /\ Cardinality(LoopEnds(p)) = k
  <2>1. Piece(S, p, Len(blocks'), B, k)
    BY <1>3
  <2>2. B \subseteq Promise(Task) \cup (Len(blocks) + 1 .. Len(blocks'))
    BY <1>6
  <2>3. \A b \in B : b # cur' /\ blocks'[b].term = Unreachable
    BY <1>9
  <2>4. cur' \in {cur} \cup Promise(Task) \cup (Len(blocks) + 1 .. Len(blocks'))
    BY <1>7
  <2> QED
    BY <2>1, <2>2, <2>3, <2>4, PieceFits
<1>11. \/ blocks'[cur'].term = Unreachable
       \/ p # <<>> /\ p[1].kind = "start"
  BY <1>4
<1>12. Cardinality(LoopEnds(p)) + Len(loop_ctx) =
         (IF Task.kind = "leave" THEN 1 ELSE 0) + Len(loop_ctx')
  <2>1. Cardinality(LoopEnds(p)) + Len(loop_ctx) = Len(loop_ctx')
    <3>1. k + Len(loop_ctx) = Len(loop_ctx')
      <4> HIDE DEF base
      <4> PICK a, c : a = Len(loop_ctx) /\ c = Len(loop_ctx')
        OBVIOUS
      <4>1. a \in Nat /\ c = a + k
        BY <1>1
      <4> QED
        BY <4>1
    <3> QED
      BY <1>10, <3>1
  <2>2. Task.kind # "leave" /\ Len(loop_ctx') \in Nat
    BY IsSeqLen
  <2>3. (IF Task.kind = "leave" THEN 1 ELSE 0) + Len(loop_ctx') = Len(loop_ctx')
    BY <2>2
  <2> QED
    BY <2>1, <2>3
<1> QED
  BY <1>3, <1>8, <1>10, <1>11, <1>12, Advances

(* A block that a task adds comes behind those there are.                  *)
LEMMA NewBlock ==
  ASSUME Len(blocks) \in Nat, NEW m \in Nat, NEW k \in 1 .. m
  PROVE  New(k) = Len(blocks) + k /\ New(k) \in 1 .. Len(blocks) + m
BY DEF New

(* A loop: its header and exit are among the new blocks, and so is the      *)
(* block its body goes to.                                                  *)
LEMMA LoopAdvances ==
  ASSUME NEW S, LowInv(S), phase = "lower", todo # <<>>, phase' = phase, at' = at,
         Task.kind \in {"while", "loop", "for"},
         NEW stmts, NEW new, IsSeq(new), blocks' = Flushed(stmts, Goto(New(1))) \o new,
         \A i \in DOMAIN new : TermOK(new[i].term, Len(blocks) + Len(new)),
         NEW c \in DOMAIN new, cur' = New(c), new[c].term = Unreachable,
         NEW x \in DOMAIN new, new[x].term = Unreachable, x # c,
         EnterLoop(New(1), New(x)),
         NEW q, todo' = (Task.body \o q) \o Rest,
         \E e : q \in {<<LeaveLoop, Jump(New(1)), Start(New(x))>>,
                       <<LeaveLoop, Do(e), Jump(New(1)), Start(New(x))>>}
  PROVE  LowInv(S)' /\ Unclobbered
<1>1. /\ Len(blocks) \in Nat /\ DOMAIN blocks = 1 .. Len(blocks) /\ Len(loop_ctx) \in Nat
      /\ IsSeq(loop_ctx) /\ TaskOK(S, Task, Len(blocks)) /\ Grammar(S)
      /\ Len(new) \in Nat /\ DOMAIN new = 1 .. Len(new)
  BY Here, IsSeqLen
<1>2. Task.body \in Seq(S)
  BY <1>1 DEF TaskOK, Grammar
<1>3. /\ New(1) \in 1 .. Len(blocks) + Len(new) /\ New(x) \in 1 .. Len(blocks) + Len(new)
      /\ New(1) = Len(blocks) + 1 /\ New(x) = Len(blocks) + x /\ New(c) = Len(blocks) + c
      /\ New(c) # New(x)
  <2>1. Len(blocks) \in Nat /\ Len(new) \in Nat
    BY <1>1
  <2>2. c \in 1 .. Len(new) /\ x \in 1 .. Len(new) /\ x # c
    BY <1>1
  <2>3. 1 \in 1 .. Len(new)
    BY <2>1, <2>2
  <2>4. ASSUME NEW k \in 1 .. Len(new)
        PROVE  New(k) = Len(blocks) + k /\ New(k) \in 1 .. Len(blocks) + Len(new)
    BY <2>1, NewBlock
  <2>5. New(c) # New(x)
    BY <2>1, <2>2, NewBlock
  <2> QED
    BY <2>2, <2>3, <2>4, <2>5
<1> HIDE DEF New
<1>4. Piece(S, q, Len(blocks) + Len(new), {New(x)}, 1)
  BY <1>3, LoopPiece
<1>5. Piece(S, Task.body, Len(blocks) + Len(new), {}, 0)
  BY <1>1, <1>2, BodyPiece
<1>6. Piece(S, Task.body \o q, Len(blocks) + Len(new), {New(x)}, 1)
  <2>1. Piece(S, Task.body \o q, Len(blocks) + Len(new), {} \cup {New(x)}, 0 + 1)
    BY <1>4, <1>5, PieceConcat
  <2>2. {} \cup {New(x)} = {New(x)} /\ 0 + 1 = 1
    OBVIOUS
  <2> QED
    BY <2>1, <2>2
<1>7. TermOK(Goto(New(1)), Len(blocks) + Len(new))
  BY <1>3 DEF TermOK, Goto
<1>8. /\ IsSeq(loop_ctx') /\ Len(loop_ctx') = Len(loop_ctx) + 1
      /\ \A n \in DOMAIN loop_ctx' :
           {loop_ctx'[n].header, loop_ctx'[n].exit} \subseteq 1 .. Len(blocks) + Len(new)
  <2> DEFINE frame == [header |-> New(1), exit |-> New(x)]
  <2>1. loop_ctx' = Append(loop_ctx, frame) /\ frame.header = New(1) /\ frame.exit = New(x)
    BY DEF EnterLoop
  <2> HIDE DEF frame
  <2>2. /\ IsSeq(loop_ctx') /\ Len(loop_ctx') = Len(loop_ctx) + 1
        /\ Elems(loop_ctx') = Elems(loop_ctx) \cup {frame}
    BY <1>1, <2>1, Appended
  <2>3. \A f \in Elems(loop_ctx) : {f.header, f.exit} \subseteq 1 .. Len(blocks) + Len(new)
    <3>1. \A f \in Elems(loop_ctx) : {f.header, f.exit} \subseteq 1 .. Len(blocks)
      BY <1>1 DEF LowInv, Graph, Elems
    <3> QED
      BY <1>1, <3>1
  <2>4. \A f \in Elems(loop_ctx') : {f.header, f.exit} \subseteq 1 .. Len(blocks) + Len(new)
    BY <1>3, <2>1, <2>2, <2>3
  <2> QED
    BY <2>2, <2>4 DEF Elems
<1>9. /\ {New(x)} \subseteq Promise(Task) \cup {Len(blocks) + i : i \in DOMAIN new}
      /\ cur' \notin {New(x)}
      /\ \A i \in DOMAIN new : Len(blocks) + i \in {New(x)} => new[i].term = Unreachable
      /\ \E i \in DOMAIN new : cur' = Len(blocks) + i /\ new[i].term = Unreachable
  <2>1. New(x) \in {Len(blocks) + i : i \in DOMAIN new}
    BY <1>3
  <2>2. \A i \in DOMAIN new : Len(blocks) + i = New(x) => i = x
    BY <1>1, <1>3
  <2> QED
    BY <1>3, <2>1, <2>2
<1>10. 1 \in Nat /\ Task.kind \notin {"start", "leave"}
  OBVIOUS
<1> QED
  BY <1>6, <1>7, <1>8, <1>9, <1>10, MovesOn

(* A header with its terminator and two open blocks.                        *)
Opens(new, term) ==
  /\ IsSeq(new) /\ Len(new) = 3 /\ DOMAIN new = 1 .. 3 /\ new[1].term = term
  /\ new[2].term = Unreachable /\ new[3].term = Unreachable

(* Such a header, as it is put together.                                    *)
LEMMA NewBlocks ==
  ASSUME NEW s, NEW term
  PROVE  Opens(<<Block(s, term)>> \o Fresh(2), term)
<1> PICK new : new = <<Block(s, term)>> \o Fresh(2)
  OBVIOUS
<1>1. /\ IsSeq(<<Block(s, term)>>) /\ Len(<<Block(s, term)>>) = 1
      /\ DOMAIN <<Block(s, term)>> = {1} /\ <<Block(s, term)>>[1] = Block(s, term)
  BY One
<1>2. /\ IsSeq(Fresh(2)) /\ Len(Fresh(2)) = 2 /\ DOMAIN Fresh(2) = 1 .. 2
      /\ \A i \in DOMAIN Fresh(2) : Fresh(2)[i].term = Unreachable
  BY Placeholders
<1>3. Joins(new, <<Block(s, term)>>, Fresh(2))
  BY <1>1, <1>2, Joined
<1>4. IsSeq(new) /\ Len(new) = 3 /\ DOMAIN new = 1 .. 3
  <2>1. IsSeq(new) /\ Len(new) = Len(<<Block(s, term)>>) + Len(Fresh(2))
    BY <1>3 DEF Joins
  <2>2. DOMAIN new = 1 .. Len(new)
    BY <2>1, IsSeqLen
  <2>3. Len(<<Block(s, term)>>) + Len(Fresh(2)) = 3
    BY <1>1, <1>2
  <2> QED
    BY <2>1, <2>2, <2>3
<1>5. new[1] = Block(s, term)
  BY <1>1, <1>3 DEF Joins
<1>6. 1 \in DOMAIN Fresh(2) /\ 2 \in DOMAIN Fresh(2) /\ 1 + 1 = 2 /\ 1 + 2 = 3
  BY <1>2
<1>7. new[1 + 1].term = Unreachable /\ new[1 + 2].term = Unreachable
  BY <1>1, <1>2, <1>3, <1>6 DEF Joins
<1> QED
  BY <1>4, <1>5, <1>6, <1>7 DEF Block, Opens

(* Loops with a condition: while and for.                                   *)
LEMMA CountsAdvance ==
  ASSUME NEW S, LowInv(S), LowerWhile \/ LowerFor
  PROVE  LowInv(S)' /\ Unclobbered
<1>1. PICK stmts, s :
        /\ phase = "lower" /\ todo # <<>> /\ Task.kind \in {"while", "for"}
        /\ blocks' = Flushed(stmts, Goto(New(1)))
                       \o <<Block(s, SwitchInt(<<New(2)>>, New(3)))>> \o Fresh(2)
        /\ cur' = New(2) /\ EnterLoop(New(1), New(3)) /\ phase' = phase /\ at' = at
        /\ \/ todo' = Task.body \o <<LeaveLoop, Jump(New(1)), Start(New(3))>> \o Rest
           \/ \E e : todo' =
                Task.body \o <<LeaveLoop, Do(e), Jump(New(1)), Start(New(3))>> \o Rest
  BY DEF LowerWhile, LowerFor, At, Lowers, runVars
<1>2. /\ IsSeq(blocks) /\ Len(blocks) \in Nat /\ DOMAIN blocks = 1 .. Len(blocks)
      /\ cur \in 1 .. Len(blocks)
  BY <1>1, Here
<1> DEFINE base == Flushed(stmts, Goto(New(1)))
           term == SwitchInt(<<New(2)>>, New(3))
           new == <<Block(s, term)>> \o Fresh(2)
<1>3. IsSeq(base)
  <2>1. DOMAIN base = 1 .. Len(blocks) /\ base = [i \in DOMAIN base |-> base[i]]
    BY <1>2 DEF Flushed
  <2> HIDE DEF base
  <2> QED
    BY <1>2, <2>1, Mapped
<1>4. blocks' = base \o new
  <2>1. IsSeq(<<Block(s, term)>>)
    BY One
  <2>2. IsSeq(Fresh(2))
    BY Placeholders
  <2>3. blocks' = (base \o <<Block(s, term)>>) \o Fresh(2)
    BY <1>1
  <2> HIDE DEF base, term
  <2> QED
    BY <1>3, <2>1, <2>2, <2>3, Associated
<1>5. /\ IsSeq(new) /\ Len(new) = 3 /\ DOMAIN new = 1 .. 3 /\ new[1].term = term
      /\ new[2].term = Unreachable /\ new[3].term = Unreachable
  <2>1. new = <<Block(s, term)>> \o Fresh(2)
    OBVIOUS
  <2> HIDE DEF term
  <2>2. Opens(new, term)
    BY NewBlocks
  <2> HIDE DEF new
  <2> QED
    BY <2>2 DEF Opens
<1>6. TermOK(term, Len(blocks) + 3)
  <2>1. New(2) \in 1 .. Len(blocks) + 3 /\ New(3) \in 1 .. Len(blocks) + 3
    BY <1>2 DEF New
  <2>2. term.kind = "switch" /\ term.to = Append(<<New(2)>>, New(3))
    BY DEF SwitchInt
  <2>3. Elems(Append(<<New(2)>>, New(3))) = {New(2), New(3)}
    BY One, Appended
  <2> QED
    BY <2>1, <2>2, <2>3 DEF TermOK, Elems
<1> HIDE DEF term, new
<1>7. \A i \in DOMAIN new : TermOK(new[i].term, Len(blocks) + Len(new))
  <2>1. \A m : TermOK(Unreachable, m)
    BY Placeholders
  <2>2. \A i \in DOMAIN new : i = 1 \/ i = 2 \/ i = 3
    BY <1>5
  <2> QED
    BY <1>5, <1>6, <2>1, <2>2
<1>8. 2 \in DOMAIN new /\ 3 \in DOMAIN new /\ 3 # 2
  BY <1>5
<1>9. PICK q : /\ todo' = (Task.body \o q) \o Rest
               /\ \E e : q \in {<<LeaveLoop, Jump(New(1)), Start(New(3))>>,
                                <<LeaveLoop, Do(e), Jump(New(1)), Start(New(3))>>}
  BY <1>1
<1>10. blocks' = Flushed(stmts, Goto(New(1))) \o new
  BY <1>4
<1> HIDE DEF base
<1> QED
  BY <1>1, <1>5, <1>7, <1>8, <1>9, <1>10, LoopAdvances, ZenonT(40)

(* Loops without one.                                                       *)
LEMMA ForeverAdvances ==
  ASSUME NEW S, LowInv(S), LowerLoop
  PROVE  LowInv(S)' /\ Unclobbered
<1>1. /\ phase = "lower" /\ todo # <<>> /\ Task.kind = "loop"
      /\ blocks' = Flushed(<<>>, Goto(New(1))) \o Fresh(2)
      /\ cur' = New(1) /\ EnterLoop(New(1), New(2)) /\ phase' = phase /\ at' = at
      /\ todo' = (Task.body \o <<LeaveLoop, Jump(New(1)), Start(New(2))>>) \o Rest
  BY DEF LowerLoop, At, Lowers, runVars
<1> PICK new : new = Fresh(2)
  OBVIOUS
<1>2. /\ IsSeq(new) /\ Len(new) = 2 /\ DOMAIN new = 1 .. 2
      /\ \A i \in DOMAIN new : new[i].term = Unreachable
  BY Placeholders
<1>3. \A i \in DOMAIN new : TermOK(new[i].term, Len(blocks) + Len(new))
  BY <1>2, Placeholders
<1>4. 1 \in DOMAIN new /\ 2 \in DOMAIN new /\ 2 # 1
  BY <1>2
<1>5. PICK q : q = <<LeaveLoop, Jump(New(1)), Start(New(2))>>
  OBVIOUS
<1>6. \E e : q \in {<<LeaveLoop, Jump(New(1)), Start(New(2))>>,
                    <<LeaveLoop, Do(e), Jump(New(1)), Start(New(2))>>}
  BY <1>5
<1> QED
  BY <1>1, <1>2, <1>3, <1>4, <1>5, <1>6, LoopAdvances

(* A switch with one literal.                                               *)
LEMMA TwoTargets ==
  ASSUME NEW n, NEW a \in 1 .. n, NEW b \in 1 .. n
  PROVE  TermOK(SwitchInt(<<a>>, b), n)
<1>1. Elems(Append(<<a>>, b)) = {a, b}
  BY One, Appended
<1>2. SwitchInt(<<a>>, b).kind = "switch" /\ SwitchInt(<<a>>, b).to = Append(<<a>>, b)
  BY DEF SwitchInt
<1> QED
  BY <1>1, <1>2 DEF TermOK, Elems

(* The rest of a chain of conditions.                                       *)
LEMMA NextLink ==
  ASSUME NEW S, NEW n, NEW t, t.kind = "link", t.merge \in 1 .. n, Grammar(S),
         TaskOK(S, t, n), NEW more, more # <<>>,
         more \in Seq([cond : STRING, body : Seq(S)])
  PROVE  Piece(S, <<[t EXCEPT !.arms = more]>>, n, {t.merge}, 0)
<1>1. t \notin S
  BY DEF Grammar
<1>2. /\ t = [kind |-> "link", arms |-> t.arms, otherwise |-> t.otherwise, merge |-> t.merge]
      /\ t.otherwise \in Seq(S)
  BY <1>1 DEF TaskOK
<1> PICK u : u = [t EXCEPT !.arms = more]
  OBVIOUS
<1>3. /\ u.kind = "link" /\ u.merge = t.merge /\ u.arms = more /\ u.otherwise = t.otherwise
      /\ u = [kind |-> "link", arms |-> u.arms, otherwise |-> u.otherwise, merge |-> u.merge]
  BY <1>2
<1>4. TaskOK(S, u, n) /\ Promise(u) = {t.merge}
  BY <1>2, <1>3 DEF TaskOK, Promise
<1>5. Piece(S, <<u>>, n, Promise(u), IF u.kind = "leave" THEN 1 ELSE 0)
  BY <1>3, <1>4, TaskPiece
<1>6. (IF u.kind = "leave" THEN 1 ELSE 0) = 0
  BY <1>3
<1> QED
  BY <1>4, <1>5, <1>6

(* A branch of a chain of conditions.                                       *)
LEMMA LinkAdvances ==
  ASSUME NEW S, LowInv(S), LowerLink
  PROVE  LowInv(S)' /\ Unclobbered
<1> DEFINE L == Len(blocks)
           arm == Head(Task.arms)
           more == Tail(Task.arms)
           m == Task.merge
           goOn == IF more # <<>> THEN <<[Task EXCEPT !.arms = more]>>
                   ELSE Task.otherwise \o <<Jump(m), Start(m)>>
           p == (arm.body \o <<Jump(m), Start(L + 2)>>) \o goOn
           term == SwitchInt(<<L + 1>>, L + 2)
<1>1. /\ phase = "lower" /\ todo # <<>> /\ Task.kind = "link" /\ todo' = p \o Rest
      /\ blocks' = Flushed(<<arm.cond>>, term) \o Fresh(2)
      /\ cur' = L + 1 /\ UNCHANGED <<loop_ctx, phase, at>>
  BY DEF LowerLink, At, Lowers, runVars, New
<1>2. /\ Graph /\ L \in Nat /\ DOMAIN blocks = 1 .. L /\ Len(loop_ctx) \in Nat
      /\ IsSeq(loop_ctx) /\ TaskOK(S, Task, L) /\ Grammar(S)
  BY <1>1, Here
<1>3. /\ m \in 1 .. L /\ Task.arms # <<>> /\ Task.otherwise \in Seq(S)
      /\ Task.arms \in Seq([cond : STRING, body : Seq(S)])
  <2>1. Task \notin S
    BY <1>1, <1>2 DEF Grammar
  <2> QED
    BY <1>1, <1>2, <2>1 DEF TaskOK
<1>4. arm.body \in Seq(S) /\ more \in Seq([cond : STRING, body : Seq(S)])
  <2> PICK R : R = [cond : STRING, body : Seq(S)]
    OBVIOUS
  <2>1. arm \in R /\ more \in Seq(R)
    <3>1. Task.arms \in Seq(R) /\ Task.arms # <<>>
      BY <1>3
    <3> PICK a : a = Task.arms
      OBVIOUS
    <3>2. a \in Seq(R) /\ a # <<>>
      BY <3>1
    <3> HIDE DEF arm, more
    <3>3. Head(a) \in R /\ Tail(a) \in Seq(R)
      BY <3>2, HeadTailProperties
    <3> QED
      BY <3>3 DEF arm, more
  <2> QED
    BY <2>1
<1>5. m \in 1 .. L + 2 /\ L + 1 \in 1 .. L + 2 /\ L + 2 \in 1 .. L + 2 /\ L + 2 # m /\ L + 1 # m
  BY <1>2, <1>3
<1>6. Grammar(S) /\ TaskOK(S, Task, L + 2)
  BY <1>2, <1>5 DEF TaskOK
<1>7. Piece(S, goOn, L + 2, {m}, 0)
  <2>1. CASE more # <<>>
    BY <1>1, <1>4, <1>5, <1>6, <2>1, NextLink
  <2>2. CASE more = <<>>
    <3>1. Piece(S, Task.otherwise, L + 2, {}, 0) /\ Piece(S, <<Jump(m), Start(m)>>, L + 2, {m}, 0)
      BY <1>3, <1>5, <1>6, BodyPiece, JumpPiece
    <3>2. Piece(S, Task.otherwise \o <<Jump(m), Start(m)>>, L + 2, {} \cup {m}, 0 + 0)
      BY <3>1, PieceConcat
    <3>3. {} \cup {m} = {m} /\ 0 + 0 = 0
      OBVIOUS
    <3> QED
      BY <2>2, <3>2, <3>3
  <2> QED
    BY <2>1, <2>2
<1> HIDE DEF goOn
<1>8. Piece(S, p, L + 2, {L + 2, m}, 0)
  <2>1. Piece(S, arm.body, L + 2, {}, 0) /\ Piece(S, <<Jump(m), Start(L + 2)>>, L + 2, {L + 2}, 0)
    BY <1>4, <1>5, <1>6, BodyPiece, JumpPiece
  <2>2. Piece(S, arm.body \o <<Jump(m), Start(L + 2)>>, L + 2, {} \cup {L + 2}, 0 + 0)
    BY <2>1, PieceConcat
  <2>3. {} \cup {L + 2} = {L + 2} /\ 0 + 0 = 0 /\ {L + 2} \cap {m} = {}
        /\ {L + 2} \cup {m} = {L + 2, m}
    BY <1>5
  <2>4. Piece(S, arm.body \o <<Jump(m), Start(L + 2)>>, L + 2, {L + 2}, 0)
    BY <2>2, <2>3
  <2>5. Piece(S, p, L + 2, {L + 2} \cup {m}, 0 + 0)
    BY <1>7, <2>3, <2>4, PieceConcat, ZenonT(40)
  <2> QED
    BY <2>3, <2>5
<1> HIDE DEF p
<1>9. PICK new : new = Fresh(2)
  OBVIOUS
<1>10. /\ IsSeq(new) /\ Len(new) = 2 /\ DOMAIN new = 1 .. 2
       /\ \A i \in DOMAIN new : new[i].term = Unreachable
  BY <1>9, Placeholders
<1>11. TermOK(term, L + Len(new)) /\ \A i \in DOMAIN new : TermOK(new[i].term, L + Len(new))
  <2>1. TermOK(term, L + 2)
    BY <1>5, TwoTargets
  <2>2. \A k : TermOK(Unreachable, k)
    BY Placeholders
  <2> QED
    BY <1>10, <2>1, <2>2
<1> HIDE DEF term
<1>12. \A n \in DOMAIN loop_ctx' :
         {loop_ctx'[n].header, loop_ctx'[n].exit} \subseteq 1 .. L + Len(new)
  <2>1. \A n \in DOMAIN loop_ctx : {loop_ctx[n].header, loop_ctx[n].exit} \subseteq 1 .. L
    BY <1>2 DEF Graph
  <2>2. 1 .. L \subseteq 1 .. L + Len(new)
    BY <1>2, <1>10
  <2> QED
    BY <1>1, <2>1, <2>2
<1>13. IsSeq(loop_ctx') /\ Len(loop_ctx') = Len(loop_ctx) + 0
  BY <1>1, <1>2
<1>14. {L + 2, m} \subseteq Promise(Task) \cup {Len(blocks) + i : i \in DOMAIN new}
  <2>1. m \in Promise(Task)
    BY <1>1 DEF Promise
  <2>2. L + 2 \in {Len(blocks) + i : i \in DOMAIN new}
    BY <1>10
  <2> QED
    BY <2>1, <2>2
<1>15. cur' \notin {L + 2, m}
  BY <1>1, <1>2, <1>5
<1>16. \E i \in DOMAIN new : cur' = Len(blocks) + i /\ new[i].term = Unreachable
  <2>1. 1 \in DOMAIN new
    BY <1>10
  <2> QED
    BY <1>1, <1>10, <2>1
<1>17. Piece(S, p, Len(blocks) + Len(new), {L + 2, m}, 0) /\ 0 \in Nat
  BY <1>8, <1>10
<1>18. blocks' = Flushed(<<arm.cond>>, term) \o new
  BY <1>1, <1>9
<1>19. Task.kind \notin {"start", "leave"} /\ phase' = phase /\ at' = at
  BY <1>1
<1>20. \A i \in DOMAIN new : Len(blocks) + i \in {L + 2, m} => new[i].term = Unreachable
  BY <1>10
<1>21. PICK stmts, B : stmts = <<arm.cond>> /\ B = {L + 2, m}
  OBVIOUS
<1> HIDE DEF arm, m
<1>22. /\ Piece(S, p, Len(blocks) + Len(new), B, 0)
       /\ B \subseteq Promise(Task) \cup {Len(blocks) + i : i \in DOMAIN new}
       /\ cur' \notin B
       /\ \A i \in DOMAIN new : Len(blocks) + i \in B => new[i].term = Unreachable
       /\ blocks' = Flushed(stmts, term) \o new
  BY <1>14, <1>15, <1>17, <1>18, <1>20, <1>21
<1>23. /\ phase = "lower" /\ todo # <<>> /\ todo' = p \o Rest
       /\ IsSeq(new)
  BY <1>1, <1>10
<1> QED
  BY <1>11, <1>12, <1>13, <1>16, <1>17, <1>19, <1>22, <1>23, MovesOn

(* A list like a piece that is to follow a jump and may end in one: the     *)
(* cases of a match.                                                        *)
Strand(S, q, n, opens) ==
  /\ Tasks(S, q, n) /\ Once(q) /\ Chained(q)
  /\ Promised(q) = opens /\ Cardinality(LoopEnds(q)) = 0

(* A match without cases.                                                   *)
LEMMA NoStrand ==
  ASSUME NEW S, NEW n
  PROVE  Strand(S, <<>>, n, {})
<1>1. IsSeq(<<>>) /\ DOMAIN <<>> = {} /\ Elems(<<>>) = {}
  BY EmptySeq DEF Elems, IsSeq
<1>2. LoopEnds(<<>>) = {}
  BY <1>1 DEF LoopEnds
<1> QED
  BY <1>1, <1>2, FS_EmptySet DEF Strand, Tasks, Once, Chained, Promised

(* Two of them, one behind the other.                                       *)
LEMMA StrandConcat ==
  ASSUME NEW S, NEW n, NEW p, NEW B, Strand(S, p, n, B), NEW q, NEW C, Strand(S, q, n, C),
         B \cap C = {}
  PROVE  Strand(S, p \o q, n, B \cup C)
<1>1. IsSeq(p) /\ IsSeq(q)
  BY DEF Strand, Tasks
<1>2. Once(p \o q) /\ Chained(p \o q)
  BY <1>1, OnceConcat, ChainedConcat DEF Strand
<1>3. Promised(p \o q) = B \cup C
  BY <1>1, PromisedConcat DEF Strand
<1>4. Cardinality(LoopEnds(p \o q)) = 0
  <2>1. Cardinality(LoopEnds(p \o q)) = 0 + 0
    BY <1>1, LoopEndsConcat DEF Strand
  <2> QED
    BY <2>1
<1>5. IsSeq(p \o q) /\ Elems(p \o q) = Elems(p) \cup Elems(q)
  BY <1>1, Concatenated, ConcatElems
<1>6. Tasks(S, p \o q, n)
  BY <1>5 DEF Strand, Tasks
<1> QED
  BY <1>2, <1>3, <1>4, <1>6 DEF Strand

(* A case: its block, its body, and the jump to the merge block.            *)
LEMMA CaseStrand ==
  ASSUME NEW S, Grammar(S), NEW body \in Seq(S), NEW n, NEW a \in 1 .. n, NEW b \in 1 .. n
  PROVE  Strand(S, <<Start(b)>> \o body \o <<Jump(a)>>, n, {b})
<1>1. /\ Start(b).kind = "start" /\ Promise(Start(b)) = {b} /\ TaskOK(S, Start(b), n)
      /\ Jump(a).kind = "jump" /\ Promise(Jump(a)) = {} /\ TaskOK(S, Jump(a), n)
  BY DEF Start, Jump, Promise, TaskOK
<1> PICK h, j : h = <<Start(b)>> /\ j = <<Jump(a)>>
  OBVIOUS
<1>2. /\ IsSeq(h) /\ Elems(h) = {Start(b)} /\ DOMAIN h = {1} /\ h[1] = Start(b)
      /\ IsSeq(j) /\ Elems(j) = {Jump(a)} /\ DOMAIN j = {1} /\ j[1] = Jump(a) /\ Len(j) = 1
  BY One
<1>3. /\ Piece(S, body, n, {}, 0) /\ IsSeq(body)
      /\ \A i \in DOMAIN body : body[i].kind # "jump"
  BY BodyPiece, SeqIs
<1>4. Piece(S, h, n, {b}, 0)
  <2>1. Piece(S, <<Start(b)>>, n, Promise(Start(b)), IF Start(b).kind = "leave" THEN 1 ELSE 0)
    BY <1>1, TaskPiece
  <2>2. (IF Start(b).kind = "leave" THEN 1 ELSE 0) = 0
    BY <1>1
  <2> QED
    BY <1>1, <2>1, <2>2
<1> PICK s : s = h \o body
  OBVIOUS
<1>5. Piece(S, s, n, {b}, 0)
  <2>1. {b} \cap {} = {} /\ {b} \cup {} = {b} /\ 0 + 0 = 0
    OBVIOUS
  <2>2. Piece(S, h \o body, n, {b} \cup {}, 0 + 0)
    BY <1>3, <1>4, <2>1, PieceConcat
  <2> QED
    BY <2>1, <2>2
<1>6. /\ IsSeq(s) /\ s # <<>> /\ s[1].kind = "start"
      /\ \A i \in DOMAIN s : s[i].kind # "jump"
  <2>1. IsSeq(s) /\ Elems(s) = Elems(h) \cup Elems(body)
    BY <1>2, <1>3, Concatenated, ConcatElems
  <2>2. \A t \in Elems(s) : t.kind # "jump"
    BY <1>1, <1>2, <1>3, <2>1 DEF Elems
  <2>3. Joins(s, h, body)
    BY <1>2, <1>3, Joined
  <2>4. 1 \in DOMAIN s /\ s[1] = Start(b)
    BY <1>2, <2>3 DEF Joins
  <2> QED
    BY <1>1, <2>1, <2>2, <2>4 DEF Elems
<1> PICK r : r = s \o j
  OBVIOUS
<1>7. Joins(r, s, j)
  BY <1>2, <1>6, Joined
<1>8. IsSeq(r) /\ Elems(r) = Elems(s) \cup Elems(j)
  BY <1>2, <1>6, Concatenated, ConcatElems
<1>9. Tasks(S, r, n)
  BY <1>1, <1>2, <1>5, <1>8 DEF Piece, Tasks
<1>10. Promised(j) = {} /\ Once(j) /\ Cardinality(LoopEnds(j)) = 0
  <2>1. LoopEnds(j) = {}
    BY <1>1, <1>2 DEF LoopEnds
  <2> QED
    <3>1. \A i \in DOMAIN j : i = 1 /\ Promise(j[i]) = {}
      BY <1>1, <1>2
    <3>2. Cardinality(LoopEnds(j)) = 0
      BY <2>1, FS_EmptySet
    <3> QED
      BY <3>1, <3>2, ZenonT(40) DEF Promised, Once
<1>11. Promised(r) = {b} /\ Once(r)
  <2>1. Promised(s) = {b} /\ Once(s)
    BY <1>5 DEF Piece
  <2>2. Promised(s) \cap Promised(j) = {} /\ Promised(s) \cup Promised(j) = {b}
    BY <1>10, <2>1
  <2>3. Promised(s \o j) = Promised(s) \cup Promised(j)
    BY <1>2, <1>6, PromisedConcat
  <2>4. Once(s \o j)
    BY <1>2, <1>6, <1>10, <2>1, <2>2, OnceConcat
  <2> QED
    BY <2>2, <2>3, <2>4
<1>12. Cardinality(LoopEnds(r)) = 0
  <2>1. Cardinality(LoopEnds(s)) = 0
    BY <1>5 DEF Piece
  <2>2. Cardinality(LoopEnds(s \o j)) = Cardinality(LoopEnds(s)) + Cardinality(LoopEnds(j))
    BY <1>2, <1>6, LoopEndsConcat
  <2>3. \A x, y : x = 0 /\ y = 0 => x + y = 0
    OBVIOUS
  <2>4. Cardinality(LoopEnds(s)) + Cardinality(LoopEnds(j)) = 0
    BY <1>10, <2>1, <2>3, Zenon
  <2> QED
    BY <2>2, <2>4
<1>13. Chained(r)
  <2>1. r[1].kind = "start"
    <3>1. 1 \in DOMAIN s
      BY <1>6, IsSeqLen
    <3> QED
      BY <1>6, <1>7, <3>1 DEF Joins
  <2>2. ASSUME NEW i \in DOMAIN r, r[i].kind = "jump" PROVE i = Len(r)
    <3>1. ~(i \in DOMAIN s /\ r[i] = s[i])
      BY <1>6, <2>2
    <3>2. i - Len(s) \in DOMAIN j /\ i = Len(s) + (i - Len(s)) /\ Len(r) = Len(s) + Len(j)
      BY <1>7, <3>1 DEF Joins
    <3> QED
      BY <1>2, <3>2
  <2> QED
    BY <2>1, <2>2 DEF Chained
<1> QED
  BY <1>9, <1>11, <1>12, <1>13 DEF Strand

(* With the start of the merge block behind it, it is a piece.              *)
LEMMA StrandPiece ==
  ASSUME NEW S, NEW n, NEW p, NEW B, Strand(S, p, n, B), NEW b \in 1 .. n, b \notin B
  PROVE  /\ Piece(S, p \o <<Start(b)>>, n, B \cup {b}, 0)
         /\ p \o <<Start(b)>> # <<>> /\ (p \o <<Start(b)>>)[1].kind = "start"
<1> PICK q : q = <<Start(b)>>
  OBVIOUS
<1>1. /\ Start(b).kind = "start" /\ Promise(Start(b)) = {b} /\ TaskOK(S, Start(b), n)
  BY DEF Start, Promise, TaskOK
<1>2. IsSeq(q) /\ Elems(q) = {Start(b)} /\ DOMAIN q = {1} /\ q[1] = Start(b) /\ IsSeq(p)
  BY One DEF Strand, Tasks
<1>3. Piece(S, q, n, {b}, 0)
  <2>1. Piece(S, <<Start(b)>>, n, Promise(Start(b)), IF Start(b).kind = "leave" THEN 1 ELSE 0)
    BY <1>1, TaskPiece
  <2>2. (IF Start(b).kind = "leave" THEN 1 ELSE 0) = 0
    BY <1>1
  <2> QED
    BY <1>1, <2>1, <2>2
<1> PICK r : r = p \o q
  OBVIOUS
<1>4. Leads(r)
  BY <1>2, ChainedLeads DEF Strand
<1>5. Once(r) /\ Promised(r) = B \cup {b}
  BY <1>2, <1>3, OnceConcat, PromisedConcat DEF Strand, Piece
<1>6. Cardinality(LoopEnds(r)) = 0
  <2>1. Cardinality(LoopEnds(p \o q)) = 0 + 0
    BY <1>2, <1>3, LoopEndsConcat DEF Strand, Piece
  <2> QED
    BY <2>1
<1>7. Tasks(S, r, n)
  <2>1. IsSeq(r) /\ Elems(r) = Elems(p) \cup Elems(q)
    BY <1>2, Concatenated, ConcatElems
  <2> QED
    BY <1>3, <2>1 DEF Strand, Piece, Tasks
<1>8. r # <<>> /\ r[1].kind = "start"
  <2>1. Joins(r, p, q)
    BY <1>2, Joined
  <2>2. CASE p = <<>>
    <3>1. Len(p) + 1 \in DOMAIN r /\ r[Len(p) + 1] = Start(b) /\ Len(p) + 1 = 1
      BY <1>2, <2>1, <2>2 DEF Joins
    <3> QED
      BY <1>1, <3>1
  <2>3. CASE p # <<>>
    <3>1. 1 \in DOMAIN p /\ p[1].kind = "start"
      BY <1>2, <2>3, IsSeqLen DEF Strand, Chained
    <3>2. 1 \in DOMAIN r /\ r[1] = p[1]
      BY <2>1, <3>1 DEF Joins
    <3> QED
      BY <3>1, <3>2
  <2> QED
    BY <2>2, <2>3
<1> QED
  BY <1>4, <1>5, <1>6, <1>7, <1>8 DEF Piece

(* What LowerMatch does for each case, the blocks they begin, and the       *)
(* switch to them.                                                          *)
CaseTasks(cases, L, before, a) ==
  [i \in DOMAIN cases |-> <<Start(L + (before + i))>> \o cases[i].body \o <<Jump(a)>>]
CaseStarts(cases, L, before) == {L + (before + i) : i \in DOMAIN cases}
CaseSwitch(cases, S, L, before, otherwise) ==
  LET literals == Only([i \in DOMAIN cases |-> i], S)
  IN  SwitchInt([k \in DOMAIN literals |-> L + (before + literals[k])], otherwise)

(* All the cases of a match, by induction on how many there are.            *)
LEMMA CasesStrand ==
  ASSUME NEW S, Grammar(S), NEW cases, cases \in Seq([catchall : BOOLEAN, body : Seq(S)]),
         NEW n, NEW a \in 1 .. n, NEW L \in Nat, NEW before \in Nat,
         \A i \in DOMAIN cases : L + (before + i) \in 1 .. n
  PROVE  Strand(S, Seqs!FlattenSeq(CaseTasks(cases, L, before, a)), n,
                CaseStarts(cases, L, before))
<1> DEFINE one(i) == <<Start(L + (before + i))>> \o cases[i].body \o <<Jump(a)>>
           lowered == [i \in DOMAIN cases |-> one(i)]
           K == Len(cases)
           upto(i) == {L + (before + k) : k \in 1 .. i}
<1>1. K \in Nat /\ DOMAIN cases = 1 .. K
  OBVIOUS
<1>2. ASSUME NEW i \in 1 .. K PROVE Strand(S, one(i), n, {L + (before + i)})
  <2>1. cases[i].body \in Seq(S)
    <3> PICK R : R = [catchall : BOOLEAN, body : Seq(S)]
      OBVIOUS
    <3>1. cases \in Seq(R)
      OBVIOUS
    <3>2. cases[i] \in R
      BY <1>1, <3>1, ElementOfSeq
    <3> QED
      BY <3>2
  <2>2. L + (before + i) \in 1 .. n
    BY <1>1
  <2> QED
    BY <2>1, <2>2, CaseStrand
<1> HIDE DEF one
<1>3. IsSeq(lowered) /\ Len(lowered) = K /\ \A i \in 1 .. K : lowered[i] = one(i)
  <2>1. DOMAIN lowered = 1 .. K /\ lowered = [i \in DOMAIN lowered |-> lowered[i]]
    BY <1>1
  <2>2. \A i \in 1 .. K : lowered[i] = one(i)
    BY <1>1
  <2> HIDE DEF lowered
  <2> QED
    BY <1>1, <2>1, <2>2, Mapped
<1>4. {L + (before + i) : i \in DOMAIN cases} = upto(K)
  BY <1>1
<1> SUFFICES Strand(S, Seqs!FlattenSeq(lowered), n, upto(K))
  BY <1>4 DEF CaseTasks, CaseStarts, one
<1>5. CASE K = 0
  <2>1. Seqs!FlattenSeq(lowered) = <<>>
    <3>1. Seqs!FlattenSeq(lowered) = lowered
      BY <1>3, <1>5 DEF Seqs!FlattenSeq
    <3>2. lowered = <<>>
      BY <1>3, <1>5, IsSeqLen
    <3> QED
      BY <3>1, <3>2
  <2>2. upto(K) = {}
    BY <1>5
  <2> QED
    BY <2>1, <2>2, NoStrand
<1>6. CASE K # 0
  <2>0. lowered # <<>>
    BY <1>1, <1>3, <1>6, IsSeqLen
  <2>1. PICK f : /\ DOMAIN f = 1 .. K /\ f[1] = lowered[1]
                 /\ \A i \in 2 .. K : f[i] = f[i - 1] \o lowered[i]
                 /\ Seqs!FlattenSeq(lowered) = f[K]
    BY <1>3, <2>0, FlattenedInSteps
  <2> HIDE DEF lowered
  <2> DEFINE T == {i \in Nat : i \in 1 .. K => Strand(S, f[i], n, upto(i))}
  <2>2. 0 \in T
    OBVIOUS
  <2>3. ASSUME NEW i \in Nat, i \in T PROVE i + 1 \in T
    <3> SUFFICES ASSUME i + 1 \in 1 .. K PROVE Strand(S, f[i + 1], n, upto(i + 1))
      OBVIOUS
    <3>1. Strand(S, one(i + 1), n, {L + (before + (i + 1))})
      BY <1>2
    <3>2. CASE i = 0
      <4>1. f[i + 1] = one(i + 1)
        BY <1>1, <1>3, <1>6, <2>1, <3>2
      <4>2. upto(i + 1) = {L + (before + (i + 1))}
        BY <3>2
      <4> QED
        BY <3>1, <4>1, <4>2
    <3>3. CASE i # 0
      <4>1. i \in 1 .. K /\ i + 1 \in 2 .. K /\ (i + 1) - 1 = i
        BY <1>1, <3>3
      <4>2. f[i + 1] = f[i] \o one(i + 1)
        BY <1>3, <2>1, <4>1
      <4>3. Strand(S, f[i], n, upto(i))
        BY <2>3, <4>1
      <4>4. /\ upto(i) \cap {L + (before + (i + 1))} = {}
            /\ upto(i) \cup {L + (before + (i + 1))} = upto(i + 1)
        <5>1. 1 .. i + 1 = (1 .. i) \cup {i + 1}
          OBVIOUS
        <5>2. \A k \in 1 .. i : L + (before + k) # L + (before + (i + 1))
          OBVIOUS
        <5> QED
          BY <5>1, <5>2, Zenon
      <4> HIDE DEF upto
      <4>5. Strand(S, f[i] \o one(i + 1), n, upto(i) \cup {L + (before + (i + 1))})
        BY <3>1, <4>3, <4>4, StrandConcat
      <4> QED
        BY <4>2, <4>4, <4>5
    <3> QED
      BY <3>2, <3>3
  <2>4. K \in T
    <3> HIDE DEF T
    <3>1. Nat \subseteq T
      BY <2>2, <2>3, Inducted
    <3> QED
      BY <1>1, <3>1
  <2>5. Strand(S, f[K], n, upto(K))
    <3>1. K \in 1 .. K
      BY <1>1, <1>6
    <3> QED
      BY <2>4, <3>1
  <2> QED
    BY <2>1, <2>5
<1> QED
  BY <1>5, <1>6

(* The switch of a match goes to blocks that are allocated.                 *)
LEMMA CaseTargets ==
  ASSUME NEW cases, IsSeq(cases), NEW L, NEW base, NEW n,
         \A i \in DOMAIN cases : L + (base + i) \in 1 .. n,
         NEW S, NEW otherwise \in 1 .. n
  PROVE  TermOK(CaseSwitch(cases, S, L, base, otherwise), n)
<1> DEFINE ids == [i \in DOMAIN cases |-> i]
           literals == Only(ids, S)
           targets == [k \in DOMAIN literals |-> L + (base + literals[k])]
<1>1. Len(cases) \in Nat /\ DOMAIN cases = 1 .. Len(cases)
  BY IsSeqLen
<1>2. IsSeq(ids) /\ Elems(ids) = DOMAIN cases
  <2>1. DOMAIN ids = 1 .. Len(cases) /\ ids = [i \in DOMAIN ids |-> ids[i]]
    BY <1>1
  <2>2. Elems(ids) = DOMAIN cases
    BY DEF Elems
  <2> HIDE DEF ids
  <2> QED
    BY <1>1, <2>1, <2>2, Mapped
<1> HIDE DEF ids
<1>3. IsSeq(literals) /\ Elems(literals) \subseteq DOMAIN cases
  BY <1>2, OnlyElems
<1> HIDE DEF literals
<1>4. Len(literals) \in Nat /\ DOMAIN literals = 1 .. Len(literals)
  BY <1>3, IsSeqLen
<1>5. IsSeq(targets) /\ \A k \in DOMAIN targets : targets[k] \in 1 .. n
  <2>1. DOMAIN targets = 1 .. Len(literals) /\ targets = [i \in DOMAIN targets |-> targets[i]]
    BY <1>4
  <2>2. \A k \in DOMAIN targets : targets[k] \in 1 .. n
    BY <1>3 DEF Elems
  <2> HIDE DEF targets
  <2> QED
    BY <1>4, <2>1, <2>2, Mapped
<1> HIDE DEF targets
<1>6. IsSeq(Append(targets, otherwise)) /\ Elems(Append(targets, otherwise)) = Elems(targets) \cup {otherwise}
  BY <1>5, Appended
<1>7. \A i \in DOMAIN Append(targets, otherwise) : Append(targets, otherwise)[i] \in 1 .. n
  BY <1>5, <1>6 DEF Elems
<1>8. TermOK(SwitchInt(targets, otherwise), n)
  BY <1>7 DEF TermOK, SwitchInt
<1> QED
  BY <1>8 DEF targets, literals, ids, CaseSwitch

(* FirstOf picks from the set.                                              *)
LEMMA LeastOf ==
  ASSUME NEW S, S \subseteq Nat, S # {}
  PROVE  FirstOf(S) \in S
<1>1. \E x \in S : \A y \in S : x <= y
  BY LeastNatural
<1> QED
  BY <1>1 DEF FirstOf

(* The block for no match.                                                  *)
LEMMA NoMatchStrand ==
  ASSUME NEW S, Grammar(S), NEW n, NEW a \in 1 .. n, NEW b \in 1 .. n
  PROVE  Strand(S, <<Start(b), Jump(a)>>, n, {b})
<1>1. <<>> \in Seq(S) /\ <<Start(b)>> \in Seq({Start(b)})
  OBVIOUS
<1>2. Strand(S, <<Start(b)>> \o <<>> \o <<Jump(a)>>, n, {b})
  BY <1>1, CaseStrand
<1>3. <<Start(b)>> \o <<>> = <<Start(b)>>
  BY <1>1, ConcatEmptySeq
<1>4. <<Start(b)>> \o <<Jump(a)>> = <<Start(b), Jump(a)>>
  BY TwoIs
<1> QED
  BY <1>2, <1>3, <1>4

(* match.                                                                   *)
LEMMA MatchAdvances ==
  ASSUME NEW S, LowInv(S), LowerMatch
  PROVE  LowInv(S)' /\ Unclobbered
<1> DEFINE L == Len(blocks)
           cases == Task.cases
           C == Catchalls(cases)
           caught == C # {}
           before == IF caught THEN 1 ELSE 2
           otherwise == IF caught THEN L + (before + FirstOf(C)) ELSE L + 2
           term == CaseSwitch(cases, DOMAIN cases \ C, L, before, otherwise)
           bodies == Seqs!FlattenSeq(CaseTasks(cases, L, before, L + 1))
           noMatch == IF caught THEN <<>> ELSE <<Start(L + 2), Jump(L + 1)>>
           p == (bodies \o noMatch) \o <<Start(L + 1)>>
           N == L + (before + Len(cases))
<1>1. /\ phase = "lower" /\ todo # <<>> /\ Task.kind = "match" /\ todo' = p \o Rest
      /\ blocks' = Flushed(<<Task.cond>>, term) \o Fresh(before + Len(cases))
      /\ UNCHANGED <<cur, loop_ctx, phase, at>>
  BY DEF LowerMatch, At, Lowers, runVars, New, CaseSwitch, CaseTasks
<1>2. /\ Graph /\ L \in Nat /\ DOMAIN blocks = 1 .. L /\ Len(loop_ctx) \in Nat /\ cur \in 1 .. L
      /\ IsSeq(loop_ctx) /\ TaskOK(S, Task, L) /\ Grammar(S)
  BY <1>1, Here
<1>3. cases \in Seq([catchall : BOOLEAN, body : Seq(S)])
  BY <1>1, <1>2 DEF TaskOK, Grammar
<1>4. Len(cases) \in Nat /\ DOMAIN cases = 1 .. Len(cases) /\ IsSeq(cases)
  <2> PICK R : R = [catchall : BOOLEAN, body : Seq(S)]
    OBVIOUS
  <2>1. cases \in Seq(R)
    BY <1>3
  <2> QED
    BY <2>1, SeqIs
<1>5. before \in {1, 2} /\ before \in Nat /\ (caught <=> before = 1)
  OBVIOUS
<1>6. C \subseteq DOMAIN cases /\ C \subseteq Nat
  BY <1>4 DEF Catchalls
<1>7. caught => FirstOf(C) \in DOMAIN cases
  BY <1>6, LeastOf
<1> PICK cs, c : cs = cases /\ c = FirstOf(C)
  OBVIOUS
<1>8. otherwise = IF caught THEN L + (before + c) ELSE L + 2
  OBVIOUS
<1> HIDE DEF C, cases
<1>9. /\ N \in Nat /\ L + 1 \in 1 .. N /\ (~caught => L + 2 \in 1 .. N)
      /\ \A i \in DOMAIN cases : L + (before + i) \in 1 .. N
      /\ \A i \in DOMAIN cases : L + (before + i) # L + 1 /\ (~caught => L + (before + i) # L + 2)
  BY <1>2, <1>4, <1>5, SMTT(40)
<1>10. otherwise \in 1 .. N
  BY <1>7, <1>8, <1>9
<1> HIDE DEF otherwise, before
<1>11. TermOK(term, N)
  BY <1>2, <1>4, <1>5, <1>9, <1>10, CaseTargets
<1> HIDE DEF term
<1> DEFINE B == {L + (before + i) : i \in DOMAIN cases}
           D == IF caught THEN {} ELSE {L + 2}
<1>12. Strand(S, bodies, N, B)
  <2> PICK n, a, l, u : n = N /\ a = L + 1 /\ l = L /\ u = before
    OBVIOUS
  <2>1. /\ l \in Nat /\ u \in Nat /\ a \in 1 .. n
        /\ \A i \in DOMAIN cases : l + (u + i) \in 1 .. n
    BY <1>2, <1>5, <1>9
  <2>2. Strand(S, Seqs!FlattenSeq(CaseTasks(cases, l, u, a)), n,
               CaseStarts(cases, l, u))
    BY <1>2, <1>3, <2>1, CasesStrand
  <2> QED
    BY <2>2 DEF CaseStarts
<1>13. Strand(S, noMatch, N, D)
  BY <1>2, <1>9, NoMatchStrand, NoStrand
<1>14. B \cap D = {} /\ L + 1 \notin B /\ L + 1 \notin D
  BY <1>2, <1>9
<1> HIDE DEF bodies, noMatch
<1>15. Strand(S, bodies \o noMatch, N, B \cup D)
  BY <1>12, <1>13, <1>14, StrandConcat
<1>16. /\ Piece(S, p, N, (B \cup D) \cup {L + 1}, 0)
       /\ p # <<>> /\ p[1].kind = "start"
  <2> PICK n, b, F : n = N /\ b = L + 1 /\ F = B \cup D
    OBVIOUS
  <2>1. b \in 1 .. n /\ b \notin F /\ Strand(S, bodies \o noMatch, n, F)
    BY <1>9, <1>14, <1>15
  <2>2. Piece(S, (bodies \o noMatch) \o <<Start(b)>>, n, F \cup {b}, 0)
    BY <2>1, StrandPiece
  <2>3. /\ (bodies \o noMatch) \o <<Start(b)>> # <<>>
        /\ ((bodies \o noMatch) \o <<Start(b)>>)[1].kind = "start"
    BY <2>1, StrandPiece, ZenonT(40)
  <2> QED
    BY <2>2, <2>3
<1> HIDE DEF p
<1>17. PICK new, stmts, Z : /\ new = Fresh(before + Len(cases)) /\ stmts = <<Task.cond>>
                            /\ Z = (B \cup D) \cup {L + 1}
  OBVIOUS
<1>18. before + Len(cases) \in Nat
  BY <1>4, <1>5
<1>19. /\ IsSeq(new) /\ Len(new) = before + Len(cases) /\ DOMAIN new = 1 .. Len(new)
       /\ \A i \in DOMAIN new : new[i].term = Unreachable
  BY <1>17, <1>18, Placeholders
<1>20. /\ TermOK(term, L + Len(new)) /\ \A i \in DOMAIN new : TermOK(new[i].term, L + Len(new))
       /\ N = L + Len(new)
  <2>1. \A k : TermOK(Unreachable, k)
    BY Placeholders
  <2> QED
    BY <1>11, <1>19, <2>1
<1>21. Z \subseteq Promise(Task) \cup {L + i : i \in DOMAIN new}
  <2>1. \A i \in DOMAIN cases : before + i \in DOMAIN new
    BY <1>4, <1>5, <1>19
  <2>2. 1 \in DOMAIN new /\ (~caught => 2 \in DOMAIN new)
    BY <1>4, <1>5, <1>19
  <2> QED
    BY <1>17, <2>1, <2>2
<1>22. cur' \notin Z
  <2>1. \A i \in DOMAIN cases : cur # L + (before + i)
    BY <1>2, <1>4, <1>5
  <2>2. cur # L + 1 /\ cur # L + 2
    BY <1>2
  <2> QED
    BY <1>1, <1>17, <2>1, <2>2
<1>23. \A n \in DOMAIN loop_ctx' :
         {loop_ctx'[n].header, loop_ctx'[n].exit} \subseteq 1 .. L + Len(new)
  <2>1. \A n \in DOMAIN loop_ctx : {loop_ctx[n].header, loop_ctx[n].exit} \subseteq 1 .. L
    BY <1>2 DEF Graph
  <2>2. 1 .. L \subseteq 1 .. L + Len(new)
    BY <1>2, <1>18, <1>19
  <2> QED
    BY <1>1, <2>1, <2>2
<1>24. IsSeq(loop_ctx') /\ Len(loop_ctx') = Len(loop_ctx) + 0 /\ 0 \in Nat
  BY <1>1, <1>2
<1>25. /\ Piece(S, p, L + Len(new), Z, 0) /\ blocks' = Flushed(stmts, term) \o new
       /\ Task.kind \notin {"start", "leave"} /\ phase' = phase /\ at' = at
       /\ phase = "lower" /\ todo # <<>> /\ todo' = p \o Rest
  BY <1>1, <1>16, <1>17, <1>20
<1>26. \A i \in DOMAIN new : L + i \in Z => new[i].term = Unreachable
  BY <1>19
<1>27. cur' = cur /\ p # <<>> /\ p[1].kind = "start"
  BY <1>1, <1>16
<1>28. IsSeq(new)
  BY <1>19
<1> HIDE DEF B, D
<1> QED
  BY <1>20, <1>21, <1>22, <1>23, <1>24, <1>25, <1>26, <1>27, <1>28, MovesOn

(* finish: nothing is left to do, so no loop is open, and the block it may  *)
(* return from is the current one, which is open.                           *)
LEMMA FinishKeeps ==
  ASSUME NEW S, LowInv(S), Finish
  PROVE  LowInv(S)' /\ Unclobbered
<1>1. /\ phase = "lower" /\ todo = <<>> /\ blocks' = Finished /\ phase' \in {"run", "rejected"}
      /\ UNCHANGED <<program, todo, cur, loop_ctx, at>>
  BY DEF Finish, runVars
<1>2. /\ Graph /\ IsSeq(blocks) /\ Len(blocks) \in Nat /\ DOMAIN blocks = 1 .. Len(blocks)
      /\ cur \in DOMAIN blocks /\ Open(cur) /\ IsSeq(loop_ctx)
  BY <1>1, IsSeqLen DEF LowInv, Graph, Agenda
<1>3. loop_ctx = <<>>
  <2>1. Cardinality(LoopEnds(<<>>)) = 0
    <3>1. LoopEnds(<<>>) = {}
      BY DEF LoopEnds
    <3> QED
      BY <3>1, FS_EmptySet
  <2>2. Len(loop_ctx) = 0
    BY <1>1, <2>1 DEF LowInv, Agenda
  <2> QED
    BY <1>2, <2>2, IsSeqLen
<1>4. /\ IsSeq(blocks') /\ Len(blocks') = Len(blocks) /\ DOMAIN blocks' = DOMAIN blocks
      /\ \A b \in DOMAIN blocks : blocks'[b] = blocks[b] \/ (b = cur /\ blocks'[b].term.to = <<>>
                                                             /\ blocks'[b].term.kind = "return")
  <2>1. CASE blocks' = blocks
    BY <1>2, <2>1
  <2>2. CASE blocks' = Flushed(<<>>, Returns(FALSE))
    <3> PICK B : B = Flushed(<<>>, Returns(FALSE))
      OBVIOUS
    <3>1. /\ DOMAIN B = 1 .. Len(blocks) /\ B = [i \in DOMAIN B |-> B[i]]
          /\ \A b \in DOMAIN blocks :
               B[b] = blocks[b] \/ (b = cur /\ B[b].term.to = <<>> /\ B[b].term.kind = "return")
      BY <1>2 DEF Flushed, Block, Returns
    <3>2. IsSeq(B) /\ Len(B) = Len(blocks)
      BY <1>2, <3>1, Mapped
    <3>3. blocks' = B
      BY <2>2
    <3> QED
      BY <1>2, <3>1, <3>2, <3>3
  <2> QED
    BY <1>1, <2>1, <2>2 DEF Finished
<1>5. \A b \in DOMAIN blocks' : TermOK(blocks'[b].term, Len(blocks'))
  <2> SUFFICES ASSUME NEW b \in DOMAIN blocks' PROVE TermOK(blocks'[b].term, Len(blocks'))
    OBVIOUS
  <2>1. CASE blocks'[b] = blocks[b]
    BY <1>2, <1>4, <2>1 DEF Graph
  <2>2. CASE blocks'[b].term.to = <<>> /\ blocks'[b].term.kind = "return"
    BY <2>2 DEF TermOK
  <2> QED
    BY <1>4, <2>1, <2>2
<1>6. Graph'
  BY <1>1, <1>2, <1>4, <1>5 DEF Graph
<1>7. Unclobbered
  BY <1>2, <1>4 DEF Unclobbered
<1> QED
  BY <1>1, <1>3, <1>6, <1>7 DEF LowInv, Grammar

(* The run of the finished graph beside its source.                         *)
LEMMA RunKeeps ==
  ASSUME NEW S, LowInv(S), SourceSilent \/ GraphSilent \/ BothDo \/ BothChoose
  PROVE  LowInv(S)' /\ Unclobbered
<1>1. phase = "run" /\ UNCHANGED <<program, phase, lowVars>>
  BY DEF SourceSilent, GraphSilent, BothDo, BothChoose, Both
<1>2. UNCHANGED <<todo, blocks, cur, loop_ctx>>
  BY <1>1 DEF lowVars
<1>3. /\ IsSeq(blocks) /\ DOMAIN blocks = 1 .. Len(blocks) /\ at \in DOMAIN blocks
      /\ TermOK(blocks[at].term, Len(blocks))
  BY IsSeqLen DEF LowInv, Graph
<1>4. at' \in DOMAIN blocks
  <2>1. CASE SourceSilent \/ BothDo
    BY <1>3, <2>1 DEF SourceSilent, BothDo
  <2>2. CASE GraphSilent
    <3>1. GraphNext[1] = "silent" /\ at' = blocks[at].term.to[1]
      BY <2>2 DEF GraphSilent
    <3>2. blocks[at].term.kind = "goto"
      BY <3>1 DEF GraphNext
    <3> QED
      BY <1>3, <3>1, <3>2 DEF TermOK
  <2>3. CASE BothChoose
    BY <1>3, <2>3 DEF BothChoose, TermOK
  <2> QED
    BY <2>1, <2>2, <2>3
<1>5. Graph'
  BY <1>2, <1>4 DEF LowInv, Graph
<1> QED
  BY <1>1, <1>2, <1>5 DEF LowInv, Grammar, Unclobbered

(* The invariant holds before the first statement.                          *)
LEMMA LowStarts ==
  ASSUME NEW S, Grammar(S), LowInit
  PROVE  LowInv(S)
<1>1. /\ phase = "lower" /\ todo = program.code /\ blocks = <<Placeholder>> /\ cur = 1 /\ at = 1
      /\ loop_ctx = <<>> /\ program.code \in Seq(S)
  BY DEF LowInit, Grammar
<1>2. IsSeq(blocks) /\ Len(blocks) = 1 /\ DOMAIN blocks = {1} /\ blocks[1].term = Unreachable
  BY <1>1, One DEF Placeholder, Block
<1>3. \A m : TermOK(Unreachable, m)
  BY Placeholders
<1>4. IsSeq(loop_ctx) /\ Len(loop_ctx) = 0 /\ DOMAIN loop_ctx = {}
  BY <1>1, EmptySeq DEF IsSeq
<1>5. Graph
  <2>1. \A b \in DOMAIN blocks : TermOK(blocks[b].term, Len(blocks))
    BY <1>2, <1>3
  <2> QED
    BY <1>1, <1>2, <1>4, <2>1 DEF Graph
<1>6. Piece(S, todo, Len(blocks), {}, 0)
  BY <1>1, BodyPiece
<1>7. Agenda(S)
  BY <1>1, <1>2, <1>4, <1>6 DEF Agenda, Piece, Open
<1> QED
  BY <1>1, <1>5, <1>7 DEF LowInv

(* Every step keeps the invariant and writes over no finished block.        *)
LEMMA StepKeeps ==
  ASSUME NEW S, LowInv(S), [LowNext]_vars
  PROVE  LowInv(S)' /\ Unclobbered
<1>1. CASE UNCHANGED vars
  <2>1. UNCHANGED <<phase, todo, blocks, cur, loop_ctx, at>>
    BY <1>1 DEF vars, lowVars, runVars
  <2>2. Agenda(S)' <=> Agenda(S)
    BY <2>1 DEF Agenda, Open, Task
  <2>3. Graph' <=> Graph
    BY <2>1 DEF Graph
  <2> QED
    BY <2>1, <2>2, <2>3 DEF LowInv, Grammar, Unclobbered
<1>2. CASE LowerDo \/ LowerStray
  BY <1>2, SkipsAdvance
<1>3. CASE LowerReturn \/ LowerPanic \/ LowerBreak \/ LowerContinue
  BY <1>3, ExitsAdvance
<1>4. CASE LowerIf
  BY <1>4, IfAdvances
<1>5. CASE LowerLink
  BY <1>5, LinkAdvances
<1>6. CASE LowerWhile \/ LowerFor
  BY <1>6, CountsAdvance
<1>7. CASE LowerLoop
  BY <1>7, ForeverAdvances
<1>8. CASE LowerMatch
  BY <1>8, MatchAdvances
<1>9. CASE TakeJump
  BY <1>9, JumpAdvances
<1>10. CASE StartBlock
  BY <1>10, StartAdvances
<1>11. CASE PopLoop
  BY <1>11, LeaveAdvances
<1>12. CASE Finish
  BY <1>12, FinishKeeps
<1>13. CASE SourceSilent \/ GraphSilent \/ BothDo \/ BothChoose
  BY <1>13, RunKeeps
<1> QED
  BY <1>1, <1>2, <1>3, <1>4, <1>5, <1>6, <1>7, <1>8, <1>9, <1>10, <1>11, <1>12, <1>13
     DEF LowNext, Lower

(* So it is an invariant.                                                   *)
LEMMA LowInvHolds ==
  ASSUME NEW S, Grammar(S)
  PROVE  LowSpec => []LowInv(S)
<1>1. LowInit => LowInv(S)
  BY LowStarts
<1>2. LowInv(S) /\ [LowNext]_vars => LowInv(S)'
  BY StepKeeps
<1> QED
  BY <1>1, <1>2, PTL DEF LowSpec

(* For all programs of the grammar: every jump, the current block, and the  *)
(* blocks that loops jump to are allocated, at every moment of the          *)
(* lowering (new_block, flush and start_block of lower.rs), and the loops   *)
(* are all left when it ends.                                               *)
THEOREM GraphStaysFormed ==
  ASSUME NEW S, Grammar(S)
  PROVE  LowSpec => []LowTypeOK
<1>1. LowInv(S) => LowTypeOK
  <2> SUFFICES ASSUME LowInv(S) PROVE LowTypeOK
    OBVIOUS
  <2>1. DOMAIN blocks = 1 .. Len(blocks)
    BY IsSeqLen DEF LowInv, Graph
  <2>2. ASSUME NEW b \in DOMAIN blocks PROVE Targets(b) \subseteq DOMAIN blocks
    BY <2>1 DEF LowInv, Graph, TermOK, Targets, Seqs!ToSet
  <2> QED
    BY <2>2 DEF LowTypeOK, LowInv, Graph
<1>2. LowSpec => []LowInv(S)
  BY LowInvHolds
<1> QED
  BY <1>1, <1>2, PTL

(* For all programs of the grammar: no step of the lowering writes over a   *)
(* block that has its terminator (the comment at lower.rs:509).             *)
THEOREM BlocksKept ==
  ASSUME NEW S, Grammar(S)
  PROVE  LowSpec => NothingClobbered
<1>1. LowInv(S) /\ [LowNext]_vars =>
        [\A b \in DOMAIN blocks :
           blocks[b].term # Unreachable => blocks'[b] = blocks[b]]_blocks
  BY StepKeeps DEF Unclobbered, Open
<1>2. LowSpec => []LowInv(S)
  BY LowInvHolds
<1> QED
  BY <1>1, <1>2, PTL DEF LowSpec, NothingClobbered
=============================================================================
