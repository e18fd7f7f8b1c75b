-------------------------- MODULE SimulationProofs --------------------------
(***************************************************************************)
(* What the lowering builds does what the statements do, whatever the      *)
(* programs are, so long as they are made by the grammar.                  *)
(*                                                                         *)
(* K says of each block what the source has still to do where the block    *)
(* begins, and Q in which order the blocks are finished.  While it lowers  *)
(* (Followed), each finished block is Right: its events are the next ones  *)
(* of the source, and its terminator goes on with the right source; and    *)
(* the tasks lead in a Thread from where the lowerer is to the end of the  *)
(* program, through what each of them makes of its place (Goes).  When it  *)
(* runs (Together), the block it is in has to do what the source has.      *)
(*                                                                         *)
(* A goto that costs the source no step is to a block that does something  *)
(* or is finished later, so no ring of blocks goes on while the source     *)
(* stands at its end.                                                      *)
(***************************************************************************)
EXTENDS LoweringProofs

(* The steps of the source that cannot be seen, as a relation between lists *)
(* of statements.                                                           *)

(* Unfold and Leave as functions of what there is to do.                   *)
EndsIn(u) == {n \in DOMAIN u : u[n].kind = "end"}
Left(u) ==
  LET n == FirstOf(EndsIn(u))
      skip == IF EndsIn(u) = {} THEN 1 ELSE IF Head(u).kind = "break" THEN n ELSE n - 1
  IN  SubSeq(u, skip + 1, Len(u))
(* The next step is the `continue` of a counted loop.                      *)
Skips(u) ==
  /\ u # <<>> /\ EndsIn(u) # {}
  /\ Head(u).kind = "continue" /\ u[FirstOf(EndsIn(u))].loop.kind = "for"
Structured == {"if", "while", "loop", "for", "end", "match"}
(* A step of the source that cannot be seen, and is not one of those.      *)
Moves(u, v) ==
  /\ u # <<>>
  /\ \/ Head(u).kind \in Structured /\ v = Unfolded(Head(u)) \o Tail(u)
     \/ Head(u).kind \in {"break", "continue"} /\ ~Skips(u) /\ v = Left(u)
(* n such steps.                                                           *)
Walk(f, n, s, t) ==
  n \in Nat /\ f[0] = s /\ f[n] = t /\ \A i \in 1 .. n : Moves(f[i - 1], f[i])
Path(s, t) == \E n \in Nat : \E f : Walk(f, n, s, t)

(* SourceNext as a function of what there is to do.                        *)
NextOf(u) ==
  IF u = <<>> THEN <<"return", FALSE>>
  ELSE LET s == Head(u) IN
    CASE s.kind = "do" -> <<"do", s.event>>
      [] s.kind = "choice" -> <<"choice", Len(s.alternatives)>>
      [] s.kind = "return" -> IF s.value THEN <<"do", "value">> ELSE <<"return", FALSE>>
      [] s.kind = "handed" -> <<"return", TRUE>>
      [] s.kind = "panic" -> <<"abort", FALSE>>
      [] OTHER -> <<"silent", FALSE>>

(* They are.                                                               *)
LEMMA SourceIs ==
  /\ SourceNext = NextOf(src)
  /\ SourceSilent => Moves(src, src') \/ skipped'
<1>1. SourceNext = NextOf(src)
  BY DEF SourceNext, NextOf
<1>2. ASSUME Unfold PROVE Moves(src, src')
  BY <1>2 DEF Unfold, Moves, Structured
<1>3. ASSUME Leave PROVE Moves(src, src') \/ skipped'
  <2>1. Iterations = EndsIn(src)
    BY DEF Iterations, EndsIn
  <2>2. src' = Left(src) /\ src # <<>> /\ Head(src).kind \in {"break", "continue"}
    BY <1>3, <2>1 DEF Leave, Left
  <2>3. Skips(src) => skipped'
    BY <1>3, <2>1 DEF Leave, Skips
  <2> QED
    BY <2>2, <2>3 DEF Moves
<1> QED
  BY <1>1, <1>2, <1>3 DEF SourceSilent

(* Where something can be seen next no other step is possible, and none is *)
(* from where a `continue` is skipped.                                     *)
LEMMA Stuck ==
  ASSUME NEW u, NEW v, NextOf(u)[1] # "silent" \/ Skips(u)
  PROVE  ~Moves(u, v)
<1>1. CASE u = <<>>
  BY <1>1 DEF Moves
<1>2. CASE u # <<>> /\ Skips(u)
  BY <1>2 DEF Moves, Skips, Structured
<1>3. CASE u # <<>> /\ ~Skips(u)
  <2>1. ASSUME Head(u).kind \in Structured \cup {"break", "continue"} PROVE FALSE
    <3>1. NextOf(u) = <<"silent", FALSE>>
      BY <1>3, <2>1 DEF NextOf, Structured
    <3> QED
      BY <1>3, <3>1
  <2> QED
    BY <1>3, <2>1 DEF Moves
<1> QED
  BY <1>1, <1>2, <1>3

(* And it can be seen that nothing more is skipped there.                  *)
LEMMA SkipsSilent == ASSUME NEW u, Skips(u) PROVE NextOf(u)[1] = "silent"
BY DEF Skips, NextOf

(* A step has one outcome.                                                 *)
LEMMA OneMove == ASSUME NEW u, NEW v, NEW w, Moves(u, v), Moves(u, w) PROVE v = w
BY DEF Moves, Structured

(* No step at all.                                                         *)
LEMMA PathSelf == ASSUME NEW s PROVE Path(s, s)
<1> DEFINE f == [i \in {0} |-> s]
<1>1. Walk(f, 0, s, s)
  BY DEF Walk
<1> HIDE DEF f
<1> QED
  BY <1>1 DEF Path

(* And one more.                                                           *)
LEMMA WalkMoves ==
  ASSUME NEW f, NEW n, NEW s, NEW t, Walk(f, n, s, t), NEW u, Moves(t, u)
  PROVE  n + 1 \in Nat /\ \E g : Walk(g, n + 1, s, u)
<1> DEFINE g == [i \in 0 .. n + 1 |-> IF i <= n THEN f[i] ELSE u]
<1>0. n \in Nat
  BY DEF Walk
<1>1. /\ n + 1 \in Nat /\ g[0] = s /\ g[n + 1] = u
      /\ \A i \in 1 .. n : g[i - 1] = f[i - 1] /\ g[i] = f[i]
      /\ g[(n + 1) - 1] = t
  BY <1>0 DEF Walk
<1> HIDE DEF g
<1>2. \A i \in 1 .. n + 1 : Moves(g[i - 1], g[i])
  <2> SUFFICES ASSUME NEW i \in 1 .. n + 1 PROVE Moves(g[i - 1], g[i])
    OBVIOUS
  <2>1. CASE i \in 1 .. n
    BY <1>1, <2>1 DEF Walk
  <2>2. CASE i = n + 1
    BY <1>1, <2>2
  <2> QED
    BY <1>0, <2>1, <2>2
<1>3. Walk(g, n + 1, s, u)
  BY <1>1, <1>2 DEF Walk
<1> QED
  BY <1>1, <1>3

(* Some steps, and one more.                                               *)
LEMMA PathMoves == ASSUME NEW s, NEW t, NEW u, Path(s, t), Moves(t, u) PROVE Path(s, u)
<1> PICK n \in Nat : \E f : Walk(f, n, s, t)
  BY DEF Path
<1>1. n + 1 \in Nat /\ \E g : Walk(g, n + 1, s, u)
  BY WalkMoves
<1> QED
  BY <1>1 DEF Path

(* Two ways from the same list are the same as far as both go.             *)
LEMMA SameWalk ==
  ASSUME NEW f, NEW n, NEW s, NEW t, Walk(f, n, s, t),
         NEW g, NEW m, NEW u, Walk(g, m, s, u)
  PROVE  \A i \in Nat : i <= n /\ i <= m => f[i] = g[i]
<1> DEFINE T == {i \in Nat : i <= n /\ i <= m => f[i] = g[i]}
<1>1. 0 \in T
  BY DEF Walk
<1>2. ASSUME NEW i \in Nat, i \in T PROVE i + 1 \in T
  <2> SUFFICES ASSUME i + 1 <= n, i + 1 <= m PROVE f[i + 1] = g[i + 1]
    OBVIOUS
  <2>1. n \in Nat /\ m \in Nat
    BY DEF Walk
  <2>2. i + 1 \in 1 .. n /\ i + 1 \in 1 .. m /\ (i + 1) - 1 = i /\ i <= n /\ i <= m
    BY <2>1
  <2>3. f[i] = g[i]
    BY <1>2, <2>2
  <2>4. Moves(f[i], f[i + 1])
    BY <2>2 DEF Walk
  <2>5. Moves(g[i], g[i + 1])
    BY <2>2 DEF Walk
  <2> QED
    BY <2>3, <2>4, <2>5, OneMove
<1> HIDE DEF T
<1>3. Nat \subseteq T
  BY <1>1, <1>2, Inducted
<1> QED
  BY <1>3 DEF T

(* If there are n steps to where none is possible, and m from the same     *)
(* start to some other place, the rest leads from there to the end.        *)
LEMMA Remains ==
  ASSUME NEW f, NEW n, NEW s, NEW t, Walk(f, n, s, t), \A w : ~Moves(t, w),
         NEW g, NEW m, NEW u, Walk(g, m, s, u)
  PROVE  m <= n /\ \E h : Walk(h, n - m, u, t)
<1>1. n \in Nat /\ m \in Nat
  BY DEF Walk
<1>2. \A i \in Nat : i <= n /\ i <= m => f[i] = g[i]
  BY SameWalk
<1>3. m <= n
  <2> SUFFICES ASSUME n < m PROVE FALSE
    BY <1>1
  <2>1. n + 1 \in 1 .. m /\ (n + 1) - 1 = n /\ n <= n /\ n <= m
    BY <1>1
  <2>2. Moves(g[n], g[n + 1])
    BY <2>1 DEF Walk
  <2>3. g[n] = t
    BY <1>1, <1>2, <2>1 DEF Walk
  <2> QED
    BY <2>2, <2>3
<1> DEFINE h == [i \in 0 .. n - m |-> f[i + m]]
<1>4. n - m \in Nat
  BY <1>1, <1>3
<1>5. h[0] = u /\ h[n - m] = t
  <2>1. h[0] = f[m] /\ h[n - m] = f[n]
    BY <1>1, <1>4
  <2>2. f[m] = g[m]
    BY <1>1, <1>2, <1>3
  <2> QED
    BY <2>1, <2>2 DEF Walk
<1>6. \A i \in 1 .. n - m : Moves(h[i - 1], h[i])
  <2> SUFFICES ASSUME NEW i \in 1 .. n - m PROVE Moves(h[i - 1], h[i])
    OBVIOUS
  <2>1. i + m \in 1 .. n /\ h[i - 1] = f[(i + m) - 1] /\ h[i] = f[i + m]
    <3>1. i \in 0 .. n - m /\ i - 1 \in 0 .. n - m /\ (i - 1) + m = (i + m) - 1
      BY <1>1, <1>4
    <3> QED
      BY <1>1, <1>4, <3>1
  <2> HIDE DEF h
  <2>2. Moves(f[(i + m) - 1], f[i + m])
    BY <2>1 DEF Walk
  <2> QED
    BY <2>1, <2>2
<1>7. Walk(h, n - m, u, t)
  BY <1>4, <1>5, <1>6 DEF Walk
<1> QED
  BY <1>3, <1>7

(* So what is between a list and the first place where something can be    *)
(* seen is on the way from everything else that follows the list.          *)
LEMMA Meeting ==
  ASSUME NEW s, NEW t, NEW u, Path(s, t), Path(s, u), \A w : ~Moves(t, w)
  PROVE  Path(u, t) /\ ((\A w : ~Moves(u, w)) => u = t)
<1> PICK n \in Nat : \E f : Walk(f, n, s, t)
  BY DEF Path
<1> PICK f : Walk(f, n, s, t)
  OBVIOUS
<1> PICK m \in Nat : \E g : Walk(g, m, s, u)
  BY DEF Path
<1> PICK g : Walk(g, m, s, u)
  OBVIOUS
<1>1. m <= n /\ \E h : Walk(h, n - m, u, t)
  BY Remains
<1>2. n - m \in Nat
  BY <1>1
<1>3. Path(u, t)
  BY <1>1, <1>2 DEF Path
<1>4. ASSUME \A w : ~Moves(u, w) PROVE u = t
  <2>1. n <= m
    BY <1>4, Remains
  <2>2. n = m
    BY <1>1, <2>1
  <2>3. PICK h : Walk(h, n - m, u, t)
    BY <1>1
  <2>4. n - m = 0
    BY <2>2
  <2> QED
    BY <2>3, <2>4 DEF Walk
<1> QED
  BY <1>3, <1>4

(* What is first, and what is behind it.                                   *)
LEMMA Consed ==
  ASSUME NEW a, NEW c, IsSeq(c)
  PROVE  /\ <<a>> \o c # <<>> /\ IsSeq(<<a>> \o c)
         /\ Head(<<a>> \o c) = a /\ Tail(<<a>> \o c) = c
         /\ Len(<<a>> \o c) = Len(c) + 1 /\ Elems(<<a>> \o c) = {a} \cup Elems(c)
<1> DEFINE E == Elems(c) \cup {a}
<1>1. c \in Seq(E) /\ <<a>> \in Seq(E) /\ Len(<<a>>) = 1 /\ <<a>>[1] = a
  BY One, IsSeqIn
<1> PICK r : r = <<a>> \o c
  OBVIOUS
<1>2. /\ r \in Seq(E) /\ Len(r) = Len(c) + 1 /\ Len(c) \in Nat
      /\ r[1] = a /\ \A i \in 1 .. Len(c) : r[i + 1] = c[i]
  <2>1. /\ r \in Seq(E) /\ Len(r) = 1 + Len(c) /\ Len(c) \in Nat
        /\ \A i \in 1 .. 1 + Len(c) : r[i] = IF i <= 1 THEN <<a>>[i] ELSE c[i - 1]
    BY <1>1, ConcatProperties, LenProperties
  <2>2. \A i \in 1 .. Len(c) : i + 1 \in 1 .. 1 + Len(c) /\ ~(i + 1 <= 1) /\ (i + 1) - 1 = i
    BY <2>1
  <2> QED
    BY <1>1, <2>1, <2>2
<1> HIDE DEF E
<1>3. r # <<>>
  BY <1>2, EmptySeq
<1>4. Head(r) = a
  BY <1>2, <1>3
<1>5. Tail(r) \in Seq(E) /\ Len(Tail(r)) = Len(c) /\ \A i \in 1 .. Len(c) : Tail(r)[i] = c[i]
  BY <1>2, <1>3, HeadTailProperties
<1>6. Tail(r) = c
  BY <1>1, <1>5, SeqEqual
<1>7. IsSeq(r)
  BY <1>2, SeqIs
<1>8. Elems(r) = {a} \cup Elems(c)
  <2>1. IsSeq(<<a>>) /\ Elems(<<a>>) = {a}
    BY One
  <2> QED
    BY <2>1, ConcatElems
<1> QED
  BY <1>2, <1>3, <1>4, <1>6, <1>7, <1>8

(* What is left when the front is gone.                                    *)
LEMMA FrontGone ==
  ASSUME NEW q, NEW t, IsSeq(q), IsSeq(t)
  PROVE  SubSeq(q \o t, Len(q) + 1, Len(q \o t)) = t
<1> DEFINE E == Elems(q) \cup Elems(t)
<1>1. q \in Seq(E) /\ t \in Seq(E)
  BY IsSeqIn
<1> HIDE DEF E
<1>2. Len(q) \in Nat /\ Len(t) \in Nat /\ Len(q \o t) = Len(q) + Len(t) /\ (t # <<>> <=> Len(t) > 0)
  BY <1>1, ConcatProperties, LenProperties, IsSeqLen
<1>3. CASE t = <<>>
  <2>1. Len(q \o t) < Len(q) + 1
    BY <1>2, <1>3
  <2> QED
    BY <1>2, <1>3, <2>1, SubSeqEmpty
<1>4. CASE t # <<>>
  <2> DEFINE m == Len(q) + 1
             n == Len(q) + Len(t)
  <2>1. /\ m \in Len(q) + 1 .. Len(q) + Len(t) /\ n \in Len(q) + 1 .. Len(q) + Len(t)
        /\ m - Len(q) = 1 /\ n - Len(q) = Len(t)
    BY <1>2, <1>4
  <2> HIDE DEF m, n
  <2>2. SubSeq(q \o t, m, n) = SubSeq(t, 1, Len(t))
    BY <1>1, <2>1, SubSeqOfConcat2
  <2>3. SubSeq(t, 1, Len(t)) = t
    BY <1>1, SubSeqFull
  <2> QED
    BY <1>2, <2>2, <2>3 DEF m, n
<1> QED
  BY <1>3, <1>4

-----------------------------------------------------------------------------
(* Where the lowerer is: what the source has still to do from here, if     *)
(* anything gets here, in which loops, and the blocks still to be begun.   *)
St(live, s, loops, due) == [live |-> live, src |-> s, loops |-> loops, due |-> due]

(* No iteration ends within s.                                             *)
NoEnds(s) == \A n \in DOMAIN s : s[n].kind # "end"
(* The end of an iteration, and what comes after the loop.                 *)
Ending(l) == <<EndOf(l.loop)>> \o l.after
(* The first iteration to end is that of the innermost loop.               *)
Within(s, loops) ==
  IF loops = <<>> THEN NoEnds(s)
  ELSE \E q : IsSeq(q) /\ NoEnds(q) /\ s = q \o Ending(Seqs!Last(loops))
(* The blocks of a loop go on as they should; K is what the source has to  *)
(* do where a block begins.                                                *)
LoopOK(K, l) ==
  /\ l.header \in DOMAIN K /\ l.exit \in DOMAIN K
  /\ IsSeq(l.after) /\ K[l.exit] = l.after
  /\ l.loop.kind \in {"while", "loop", "for"}
  /\ l.loop.kind # "for" => K[l.header] = Unfolded(l.loop) \o l.after
Valid(K, x) ==
  /\ x = St(x.live, x.src, x.loops, x.due) /\ x.live \in BOOLEAN
  /\ IsSeq(x.loops) /\ x.due \subseteq DOMAIN K
  /\ \A n \in DOMAIN x.loops : LoopOK(K, x.loops[n])
  /\ x.live => IsSeq(x.src) /\ Within(x.src, x.loops)
  /\ ~x.live => x.src = <<>>

(* What a task makes of the place it is done in.  A jump goes on with what *)
(* its block does, after a step of the source or to a block in E or one    *)
(* that is begun later.                                                    *)
Plain == {"do", "if", "while", "loop", "for", "match", "break", "continue", "return", "panic"}
Does(t, x, y) == t.kind \in Plain /\ x = St(TRUE, <<t>> \o y.src, y.loops, y.due) /\ y.live
Links(K, t, x, y) ==
  /\ t.kind = "link" /\ y.live
  /\ t.merge \in x.due /\ y.due = x.due \ {t.merge} /\ K[t.merge] = y.src
  /\ x = St(TRUE, <<If(t.arms, t.otherwise)>> \o y.src, y.loops, x.due)
Leaves(t, x, y) ==
  LET l == Seqs!Last(x.loops) IN
  /\ t.kind = "leave" /\ x.live /\ x.loops # <<>> /\ x.src = Ending(l)
  /\ y = St(TRUE, Unfolded(EndOf(l.loop)) \o l.after, Seqs!Front(x.loops), x.due)
Jumps(K, E, t, x, y) ==
  /\ t.kind = "jump" /\ x.live /\ t.block \in DOMAIN K
  /\ Moves(x.src, K[t.block]) \/ (K[t.block] = x.src /\ t.block \in E \cup x.due)
  /\ y = St(FALSE, <<>>, x.loops, x.due)
Starts(K, t, x, y) ==
  /\ t.kind = "start" /\ ~x.live /\ t.block \in x.due
  /\ y = St(TRUE, K[t.block], x.loops, x.due \ {t.block})
Goes(K, E, t, x, y) ==
  /\ Valid(K, x) /\ Valid(K, y)
  /\ \/ Does(t, x, y) \/ Links(K, t, x, y) \/ Leaves(t, x, y)
     \/ Jumps(K, E, t, x, y) \/ Starts(K, t, x, y)
(* A list of tasks leads from x to y.                                      *)
Along(K, E, q, c) == \A n \in DOMAIN q : Goes(K, E, q[n], c[n], c[n + 1])
Thread(K, E, q, x, y) ==
  /\ IsSeq(q) /\ Valid(K, x) /\ Valid(K, y)
  /\ \E c : c[1] = x /\ c[Len(q) + 1] = y /\ Along(K, E, q, c)

(* One task.                                                               *)
LEMMA ThreadOne ==
  ASSUME NEW K, NEW E, NEW t, NEW x, NEW y, Goes(K, E, t, x, y)
  PROVE  Thread(K, E, <<t>>, x, y)
<1> DEFINE c == [n \in {1, 2} |-> IF n = 1 THEN x ELSE y]
<1>1. c[1] = x /\ c[2] = y /\ 1 + 1 = 2
  OBVIOUS
<1> HIDE DEF c
<1>2. IsSeq(<<t>>) /\ Len(<<t>>) = 1 /\ DOMAIN <<t>> = {1} /\ <<t>>[1] = t
  BY One
<1>3. Along(K, E, <<t>>, c)
  BY <1>1, <1>2 DEF Along
<1>4. Valid(K, x) /\ Valid(K, y)
  BY DEF Goes
<1> QED
  BY <1>1, <1>2, <1>3, <1>4 DEF Thread

(* No task.                                                                *)
LEMMA ThreadNone ==
  ASSUME NEW K, NEW E, NEW x, Valid(K, x)
  PROVE  Thread(K, E, <<>>, x, x)
<1> DEFINE c == [n \in {1} |-> x]
<1>1. c[1] = x /\ Len(<<>>) + 1 = 1 /\ DOMAIN <<>> = {} /\ IsSeq(<<>>)
  BY EmptySeq DEF IsSeq
<1> HIDE DEF c
<1>2. Along(K, E, <<>>, c)
  BY <1>1 DEF Along
<1> QED
  BY <1>1, <1>2 DEF Thread

(* One list behind another.                                                *)
LEMMA ThreadConcat ==
  ASSUME NEW K, NEW E, NEW p, NEW q, NEW x, NEW y, NEW z,
         Thread(K, E, p, x, y), Thread(K, E, q, y, z)
  PROVE  Thread(K, E, p \o q, x, z)
<1>1. PICK c : c[1] = x /\ c[Len(p) + 1] = y /\ Along(K, E, p, c)
  BY DEF Thread
<1>2. PICK d : d[1] = y /\ d[Len(q) + 1] = z /\ Along(K, E, q, d)
  BY DEF Thread
<1>3. /\ IsSeq(p) /\ IsSeq(q) /\ Len(p) \in Nat /\ Len(q) \in Nat
      /\ DOMAIN p = 1 .. Len(p) /\ DOMAIN q = 1 .. Len(q)
  BY IsSeqLen DEF Thread
<1> PICK r : r = p \o q
  OBVIOUS
<1>4. Joins(r, p, q)
  BY <1>3, Joined
<1> DEFINE e == [n \in 1 .. Len(p) + Len(q) + 1 |-> IF n <= Len(p) THEN c[n] ELSE d[n - Len(p)]]
<1>5. e[1] = x
  <2>1. CASE Len(p) = 0
    BY <1>1, <1>2, <1>3, <2>1
  <2>2. CASE Len(p) # 0
    BY <1>1, <1>3, <2>2
  <2> QED
    BY <2>1, <2>2
<1>6. e[Len(r) + 1] = z
  <2>1. Len(r) = Len(p) + Len(q)
    BY <1>4 DEF Joins
  <2>2. e[Len(p) + Len(q) + 1] = d[Len(p) + Len(q) + 1 - Len(p)]
    BY <1>3
  <2>3. Len(p) + Len(q) + 1 - Len(p) = Len(q) + 1
    BY <1>3
  <2> QED
    BY <1>2, <2>1, <2>2, <2>3
<1>7. \A n \in 1 .. Len(p) : e[n] = c[n] /\ e[n + 1] = c[n + 1]
  <2> SUFFICES ASSUME NEW n \in 1 .. Len(p) PROVE e[n] = c[n] /\ e[n + 1] = c[n + 1]
    OBVIOUS
  <2>1. n \in Nat /\ 1 <= n /\ n <= Len(p)
    BY <1>3
  <2>2. CASE n # Len(p)
    <3> PICK L \in Nat : L = Len(p)
      BY <1>3
    <3>1. n + 1 <= L
      BY <2>1, <2>2
    <3> QED
      BY <1>3, <2>1, <3>1
  <2>3. CASE n = Len(p)
    <3>1. e[n] = c[n] /\ e[n + 1] = d[n + 1 - Len(p)] /\ n + 1 - Len(p) = 1
      BY <1>3, <2>3
    <3> QED
      BY <1>1, <1>2, <2>3, <3>1
  <2> QED
    BY <2>2, <2>3
<1>8. \A n \in 1 .. Len(q) : e[Len(p) + n] = d[n] /\ e[Len(p) + n + 1] = d[n + 1]
  <2> SUFFICES ASSUME NEW n \in 1 .. Len(q)
               PROVE  e[Len(p) + n] = d[n] /\ e[Len(p) + n + 1] = d[n + 1]
    OBVIOUS
  <2>1. /\ Len(p) + n \in 1 .. Len(p) + Len(q) + 1 /\ ~(Len(p) + n <= Len(p))
        /\ Len(p) + n + 1 \in 1 .. Len(p) + Len(q) + 1 /\ ~(Len(p) + n + 1 <= Len(p))
        /\ Len(p) + n - Len(p) = n /\ Len(p) + n + 1 - Len(p) = n + 1
    BY <1>3
  <2> QED
    BY <2>1
<1> HIDE DEF e
<1>9. Along(K, E, r, e)
  <2> SUFFICES ASSUME NEW n \in DOMAIN r PROVE Goes(K, E, r[n], e[n], e[n + 1])
    BY DEF Along
  <2>1. CASE n \in DOMAIN p /\ r[n] = p[n]
    BY <1>1, <1>3, <1>7, <2>1 DEF Along
  <2>2. CASE n - Len(p) \in DOMAIN q /\ n = Len(p) + (n - Len(p)) /\ r[n] = q[n - Len(p)]
    <3> PICK m \in 1 .. Len(q) : n = Len(p) + m /\ r[n] = q[m]
      BY <1>3, <2>2
    <3>1. e[n] = d[m] /\ e[n + 1] = d[m + 1]
      BY <1>8
    <3>2. Goes(K, E, q[m], d[m], d[m + 1])
      BY <1>2, <1>3 DEF Along
    <3> QED
      BY <3>1, <3>2
  <2> QED
    BY <1>4, <2>1, <2>2 DEF Joins
<1>10. Thread(K, E, r, x, z)
  BY <1>4, <1>5, <1>6, <1>9 DEF Thread, Joins
<1> QED
  BY <1>10

(* The first task, and the rest.                                           *)
LEMMA ThreadHead ==
  ASSUME NEW K, NEW E, NEW q, NEW x, NEW y, Thread(K, E, q, x, y), q # <<>>
  PROVE  \E z : Goes(K, E, Head(q), x, z) /\ Thread(K, E, Tail(q), z, y)
<1>1. PICK c : c[1] = x /\ c[Len(q) + 1] = y /\ Along(K, E, q, c)
  BY DEF Thread
<1>2. /\ IsSeq(Tail(q)) /\ Len(Tail(q)) = Len(q) - 1 /\ 1 \in DOMAIN q /\ Head(q) = q[1]
      /\ \A i \in DOMAIN Tail(q) : i + 1 \in DOMAIN q /\ Tail(q)[i] = q[i + 1]
      /\ Len(q) \in Nat /\ DOMAIN q = 1 .. Len(q) /\ DOMAIN Tail(q) = 1 .. Len(Tail(q))
      /\ Len(q) > 0
  BY Tailed, IsSeqLen DEF Thread
<1>3. Goes(K, E, Head(q), x, c[2])
  <2>1. Goes(K, E, q[1], c[1], c[1 + 1])
    BY <1>1, <1>2 DEF Along
  <2>2. 1 + 1 = 2
    OBVIOUS
  <2> QED
    BY <1>1, <1>2, <2>1, <2>2
<1> DEFINE d == [n \in 1 .. Len(q) |-> c[n + 1]]
<1>4. d[1] = c[2] /\ d[Len(q)] = y /\ \A i \in DOMAIN Tail(q) : d[i] = c[i + 1] /\ d[i + 1] = c[i + 1 + 1]
  BY <1>1, <1>2
<1> HIDE DEF d
<1>5. Along(K, E, Tail(q), d)
  BY <1>1, <1>2, <1>4 DEF Along
<1>6. Len(Tail(q)) + 1 = Len(q)
  BY <1>2
<1>7. Valid(K, c[2]) /\ Valid(K, y)
  BY <1>3 DEF Goes, Thread
<1>8. Thread(K, E, Tail(q), c[2], y)
  BY <1>2, <1>4, <1>5, <1>6, <1>7 DEF Thread
<1> QED
  BY <1>3, <1>8

(* M goes on where K does.                                                 *)
Extends(K, M) == \A b \in DOMAIN K : b \in DOMAIN M /\ M[b] = K[b]

(* What was right stays right when blocks are added.                       *)
LEMMA ValidGrows ==
  ASSUME NEW K, NEW M, Extends(K, M), NEW x, Valid(K, x)
  PROVE  Valid(M, x)
<1>1. ASSUME NEW l, LoopOK(K, l) PROVE LoopOK(M, l)
  BY <1>1 DEF LoopOK, Extends
<1>2. x.due \subseteq DOMAIN M
  BY DEF Valid, Extends
<1> QED
  BY <1>1, <1>2 DEF Valid

(* The same for a list of tasks.                                           *)
LEMMA ThreadGrows ==
  ASSUME NEW K, NEW M, Extends(K, M), NEW E, NEW F, E \subseteq F,
         NEW q, NEW x, NEW y, Thread(K, E, q, x, y)
  PROVE  Thread(M, F, q, x, y)
<1>1. ASSUME NEW t, NEW u, NEW v, Goes(K, E, t, u, v) PROVE Goes(M, F, t, u, v)
  <2>1. Valid(M, u) /\ Valid(M, v) /\ u.due \subseteq DOMAIN K
    BY <1>1, ValidGrows DEF Goes, Valid
  <2>2. Links(K, t, u, v) => Links(M, t, u, v)
    BY <2>1 DEF Links, Extends
  <2>3. Jumps(K, E, t, u, v) => Jumps(M, F, t, u, v)
    BY <2>1 DEF Jumps, Extends
  <2>4. Starts(K, t, u, v) => Starts(M, t, u, v)
    BY <2>1 DEF Starts, Extends
  <2> QED
    BY <1>1, <2>1, <2>2, <2>3, <2>4 DEF Goes
<1>2. PICK c : c[1] = x /\ c[Len(q) + 1] = y /\ Along(K, E, q, c)
  BY DEF Thread
<1>3. Along(M, F, q, c)
  BY <1>1, <1>2 DEF Along
<1>4. Valid(M, x) /\ Valid(M, y)
  BY ValidGrows DEF Thread
<1> QED
  BY <1>2, <1>3, <1>4 DEF Thread

-----------------------------------------------------------------------------
(* Where no iteration ends in either part, none ends in both.              *)
LEMMA NoEndsConcat ==
  ASSUME NEW p, NEW q, IsSeq(p), IsSeq(q), NoEnds(p), NoEnds(q)
  PROVE  NoEnds(p \o q)
<1> PICK r : r = p \o q
  OBVIOUS
<1>1. Joins(r, p, q)
  BY Joined
<1>2. NoEnds(r)
  BY <1>1 DEF Joins, NoEnds
<1> QED
  BY <1>2

(* Statements in front of s end no iteration.                              *)
LEMMA WithinMore ==
  ASSUME NEW p, NEW s, NEW loops, IsSeq(p), NoEnds(p), IsSeq(s), Within(s, loops),
         loops # <<>> => IsSeq(Ending(Seqs!Last(loops)))
  PROVE  Within(p \o s, loops)
<1>1. CASE loops = <<>>
  BY <1>1, NoEndsConcat DEF Within
<1>2. CASE loops # <<>>
  <2> PICK e : e = Ending(Seqs!Last(loops))
    OBVIOUS
  <2>1. PICK q : IsSeq(q) /\ NoEnds(q) /\ s = q \o e
    BY <1>2 DEF Within
  <2>0. IsSeq(e)
    BY <1>2
  <2>2. (p \o q) \o e = p \o (q \o e)
    <3>1. IsSeq(p) /\ IsSeq(q) /\ IsSeq(e)
      BY <2>0, <2>1
    <3> QED
      BY <3>1, Associated, SMTT(40)
  <2>3. IsSeq(p \o q) /\ NoEnds(p \o q)
    BY <2>1, NoEndsConcat, Concatenated
  <2>4. \E r : IsSeq(r) /\ NoEnds(r) /\ p \o s = r \o e
    BY <2>1, <2>2, <2>3
  <2> QED
    BY <1>2, <2>4 DEF Within
<1> QED
  BY <1>1, <1>2

(* In front of one statement.                                              *)
LEMMA WithinOne ==
  ASSUME NEW t, t.kind # "end", NEW s, NEW loops, IsSeq(s), Within(s, loops),
         loops # <<>> => IsSeq(Ending(Seqs!Last(loops)))
  PROVE  Within(<<t>> \o s, loops)
<1>1. IsSeq(<<t>>) /\ NoEnds(<<t>>)
  BY One DEF NoEnds
<1> QED
  BY <1>1, WithinMore

(* What a place says of its innermost loop.                                *)
LEMMA Innermost ==
  ASSUME NEW K, NEW x, Valid(K, x), x.loops # <<>>
  PROVE  LoopOK(K, Seqs!Last(x.loops)) /\ IsSeq(Ending(Seqs!Last(x.loops)))
<1>1. Len(x.loops) \in DOMAIN x.loops /\ Seqs!Last(x.loops) = x.loops[Len(x.loops)]
  BY Fronted DEF Valid
<1>2. LoopOK(K, Seqs!Last(x.loops))
  BY <1>1 DEF Valid
<1>3. IsSeq(Seqs!Last(x.loops).after)
  BY <1>2 DEF LoopOK
<1> QED
  BY <1>2, <1>3, Consed DEF Ending

(* More statements in front of a place.                                    *)
LEMMA ValidMore ==
  ASSUME NEW K, NEW s, NEW loops, NEW due, Valid(K, St(TRUE, s, loops, due)),
         NEW p, IsSeq(p), NoEnds(p)
  PROVE  Valid(K, St(TRUE, p \o s, loops, due))
<1> DEFINE x == St(TRUE, s, loops, due)
           y == St(TRUE, p \o s, loops, due)
<1>1. /\ x.live = TRUE /\ x.src = s /\ x.loops = loops /\ x.due = due
      /\ y.live = TRUE /\ y.src = p \o s /\ y.loops = loops /\ y.due = due
      /\ y = St(y.live, y.src, y.loops, y.due)
  BY DEF St
<1>2. IsSeq(s) /\ Within(s, loops)
  BY <1>1 DEF Valid
<1>3. loops # <<>> => IsSeq(Ending(Seqs!Last(loops)))
  BY <1>1, Innermost
<1>4. IsSeq(p \o s) /\ Within(p \o s, loops)
  BY <1>2, <1>3, WithinMore, Concatenated
<1>5. /\ IsSeq(loops) /\ due \subseteq DOMAIN K
      /\ \A n \in DOMAIN loops : LoopOK(K, loops[n])
  BY <1>1 DEF Valid
<1> HIDE DEF x, y
<1>6. Valid(K, y)
  BY <1>1, <1>4, <1>5 DEF Valid
<1> QED
  BY <1>6 DEF y

(* A place that nothing gets to.                                           *)
LEMMA ValidDead ==
  ASSUME NEW K, NEW x, Valid(K, x), NEW due, due \subseteq DOMAIN K
  PROVE  Valid(K, St(FALSE, <<>>, x.loops, due))
<1> PICK y : y = St(FALSE, <<>>, x.loops, due)
  OBVIOUS
<1>1. /\ y.live = FALSE /\ y.src = <<>> /\ y.loops = x.loops /\ y.due = due
      /\ y = St(y.live, y.src, y.loops, y.due)
  BY DEF St
<1>2. Valid(K, y)
  BY <1>1 DEF Valid
<1> QED
  BY <1>2

(* Other blocks to be begun.                                               *)
LEMMA ValidDue ==
  ASSUME NEW K, NEW s, NEW loops, NEW due, Valid(K, St(TRUE, s, loops, due)),
         NEW other, other \subseteq DOMAIN K
  PROVE  Valid(K, St(TRUE, s, loops, other))
<1> PICK x, y : x = St(TRUE, s, loops, due) /\ y = St(TRUE, s, loops, other)
  OBVIOUS
<1>1. /\ x.live = TRUE /\ x.src = s /\ x.loops = loops
      /\ y.live = TRUE /\ y.src = s /\ y.loops = loops /\ y.due = other
      /\ y = St(y.live, y.src, y.loops, y.due)
  BY DEF St
<1>2. Valid(K, y)
  BY <1>1 DEF Valid
<1> QED
  BY <1>2

(* What is first of a sequence is first of any longer one.                 *)
LEMMA FirstStays ==
  ASSUME NEW e, NEW t, NEW u, IsSeq(t), IsSeq(u)
  PROVE  (<<e>> \o t) \o u = <<e>> \o (t \o u)
<1>1. IsSeq(<<e>>)
  BY One
<1> QED
  BY <1>1, Associated

(* Statements do what they say, one after the other.                       *)
LEMMA BodyThread ==
  ASSUME NEW S, Grammar(S), NEW body \in Seq(S), NEW K, NEW E,
         NEW s, NEW loops, NEW due, Valid(K, St(TRUE, s, loops, due))
  PROVE  /\ Thread(K, E, body, St(TRUE, body \o s, loops, due), St(TRUE, s, loops, due))
         /\ NoEnds(body) /\ IsSeq(body)
<1> DEFINE N == Len(body)
           B(n) == SubSeq(body, n, N)
           c == [n \in 1 .. N + 1 |-> St(TRUE, B(n) \o s, loops, due)]
<1>1. N \in Nat /\ DOMAIN body = 1 .. N /\ IsSeq(body) /\ IsSeq(s)
  <2>1. St(TRUE, s, loops, due).live /\ St(TRUE, s, loops, due).src = s
    BY DEF St
  <2> QED
    BY <2>1, SeqIs DEF Valid
<1>2. \A n \in 1 .. N : body[n] \in S /\ body[n].kind \in Plain
  BY <1>1, ElementOfSeq DEF Grammar, Plain
<1>3. \A n \in 1 .. N + 1 : IsSeq(B(n)) /\ NoEnds(B(n))
  <2> SUFFICES ASSUME NEW n \in 1 .. N + 1 PROVE IsSeq(B(n)) /\ NoEnds(B(n))
    OBVIOUS
  <2>1. \A i \in n .. N : body[i] \in S
    BY <1>1, <1>2
  <2>2. n \in Int /\ N \in Int
    BY <1>1
  <2>3. /\ B(n) \in Seq(S)
    BY <2>1, <2>2, SubSeqProperties
  <2>4. IsSeq(B(n)) /\ Elems(B(n)) \subseteq S
    BY <2>3, SeqIs
  <2>5. \A m \in S : m.kind # "end"
    BY DEF Grammar
  <2> QED
    BY <2>4, <2>5 DEF NoEnds, Elems
<1>4. \A n \in 1 .. N : B(n) = <<body[n]>> \o B(n + 1)
  <2> SUFFICES ASSUME NEW n \in 1 .. N PROVE B(n) = <<body[n]>> \o B(n + 1)
    OBVIOUS
  <2>1. n \in 1 .. Len(body) /\ N \in n .. Len(body)
    BY <1>1
  <2> QED
    BY <2>1, SubSeqRecursiveFirst
<1>5. B(1) = body /\ B(N + 1) = <<>>
  <2>1. N < N + 1 /\ N \in Int /\ N + 1 \in Int
    BY <1>1
  <2> QED
    BY <2>1, SubSeqFull, SubSeqEmpty
<1>6. c[1] = St(TRUE, body \o s, loops, due) /\ c[N + 1] = St(TRUE, s, loops, due)
  <2>1. c[1] = St(TRUE, B(1) \o s, loops, due) /\ c[N + 1] = St(TRUE, B(N + 1) \o s, loops, due)
    <3>1. 1 \in 1 .. N + 1 /\ N + 1 \in 1 .. N + 1
      BY <1>1
    <3> QED
      BY <3>1
  <2>2. <<>> \o s = s
    BY <1>1, ConcatEmptySeq DEF IsSeq
  <2> QED
    BY <1>5, <2>1, <2>2
<1>7. \A n \in 1 .. N + 1 : Valid(K, c[n]) /\ c[n] = St(TRUE, B(n) \o s, loops, due)
  <2> SUFFICES ASSUME NEW n \in 1 .. N + 1
               PROVE  Valid(K, c[n]) /\ c[n] = St(TRUE, B(n) \o s, loops, due)
    OBVIOUS
  <2>1. c[n] = St(TRUE, B(n) \o s, loops, due)
    OBVIOUS
  <2> HIDE DEF c, B
  <2>2. IsSeq(B(n)) /\ NoEnds(B(n))
    BY <1>3
  <2> QED
    BY <2>1, <2>2, ValidMore
<1> HIDE DEF c, B
<1>8. Along(K, E, body, c)
  <2> SUFFICES ASSUME NEW n \in DOMAIN body PROVE Goes(K, E, body[n], c[n], c[n + 1])
    BY DEF Along
  <2>1. n \in 1 .. N /\ n \in 1 .. N + 1 /\ n + 1 \in 1 .. N + 1
    BY <1>1
  <2>2. B(n) \o s = <<body[n]>> \o (B(n + 1) \o s)
    <3>1. IsSeq(B(n + 1)) /\ IsSeq(s)
      BY <1>1, <1>3, <2>1
    <3>2. (<<body[n]>> \o B(n + 1)) \o s = <<body[n]>> \o (B(n + 1) \o s)
      BY <3>1, FirstStays
    <3> QED
      BY <1>4, <2>1, <3>2
  <2>3. Does(body[n], c[n], c[n + 1])
    <3> PICK y : y = c[n + 1]
      OBVIOUS
    <3>1. y = St(TRUE, B(n + 1) \o s, loops, due) /\ c[n] = St(TRUE, B(n) \o s, loops, due)
      BY <1>7, <2>1
    <3>2. y.live = TRUE /\ y.src = B(n + 1) \o s /\ y.loops = loops /\ y.due = due
      BY <3>1 DEF St
    <3>3. Does(body[n], c[n], y)
      BY <1>2, <2>1, <2>2, <3>1, <3>2 DEF Does
    <3> QED
      BY <3>3
  <2> QED
    BY <1>7, <2>1, <2>3 DEF Goes
<1>9. NoEnds(body)
  BY <1>1, <1>2 DEF NoEnds, Plain
<1>10. Valid(K, c[1]) /\ Valid(K, c[N + 1])
  <2>1. 1 \in 1 .. N + 1 /\ N + 1 \in 1 .. N + 1
    BY <1>1
  <2> QED
    BY <1>7, <2>1
<1> QED
  BY <1>1, <1>6, <1>8, <1>9, <1>10 DEF Thread

(* The first statement taken apart.                                        *)
LEMMA Unfolds ==
  ASSUME NEW s, s.kind \in Structured, NEW c, IsSeq(c)
  PROVE  Moves(<<s>> \o c, Unfolded(s) \o c)
BY Consed DEF Moves

(* The end of an iteration is the first one in what is left.               *)
LEMMA FirstEnd ==
  ASSUME NEW q, IsSeq(q), NoEnds(q), NEW l, IsSeq(l.after), NEW s, s = q \o Ending(l)
  PROVE  /\ EndsIn(s) # {} /\ FirstOf(EndsIn(s)) = Len(q) + 1
         /\ s[Len(q) + 1] = EndOf(l.loop) /\ IsSeq(s) /\ Len(q) \in Nat
<1> DEFINE e == Ending(l)
<1>1. IsSeq(e) /\ 1 \in DOMAIN e /\ e[1] = EndOf(l.loop)
  <2>1. IsSeq(e) /\ e # <<>> /\ Head(e) = EndOf(l.loop)
    BY Consed DEF Ending
  <2> HIDE DEF e
  <2> QED
    BY <2>1, Tailed
<1> HIDE DEF e
<1>2. Joins(s, q, e)
  BY <1>1, Joined DEF e
<1>3. Len(q) \in Nat /\ DOMAIN q = 1 .. Len(q) /\ IsSeq(s) /\ DOMAIN s = 1 .. Len(s)
  BY <1>2, IsSeqLen DEF Joins
<1>4. Len(q) + 1 \in DOMAIN s /\ s[Len(q) + 1] = EndOf(l.loop)
  BY <1>1, <1>2 DEF Joins
<1>5. Len(q) + 1 \in EndsIn(s)
  BY <1>4 DEF EndsIn, EndOf
<1>6. \A m \in EndsIn(s) : Len(q) + 1 <= m
  <2> SUFFICES ASSUME NEW m \in EndsIn(s), m < Len(q) + 1 PROVE FALSE
    BY <1>3 DEF EndsIn
  <2>1. m \in DOMAIN q
    BY <1>3 DEF EndsIn
  <2>2. s[m] = q[m]
    BY <1>2, <2>1 DEF Joins
  <2> QED
    BY <2>1, <2>2 DEF EndsIn, NoEnds
<1>7. EndsIn(s) \subseteq Nat
  BY <1>3 DEF EndsIn
<1>8. /\ FirstOf(EndsIn(s)) \in EndsIn(s)
      /\ \A m \in EndsIn(s) : FirstOf(EndsIn(s)) <= m
  BY <1>5, <1>6 DEF FirstOf
<1>9. FirstOf(EndsIn(s)) = Len(q) + 1
  <2> PICK f : f = FirstOf(EndsIn(s))
    OBVIOUS
  <2>1. f \in Nat /\ f <= Len(q) + 1 /\ Len(q) + 1 <= f
    BY <1>5, <1>6, <1>7, <1>8
  <2> QED
    BY <1>3, <2>1
<1> QED
  BY <1>3, <1>4, <1>5, <1>9

(* A break goes on behind the loop, a continue with the next iteration.    *)
LEMMA LeavesLoop ==
  ASSUME NEW s, NEW loops, loops # <<>>, Within(s, loops), s # <<>>,
         IsSeq(Seqs!Last(loops).after)
  PROVE  /\ Head(s).kind = "break" => Moves(s, Seqs!Last(loops).after)
         /\ Head(s).kind = "continue" =>
              \/ Seqs!Last(loops).loop.kind = "for" /\ Skips(s)
              \/ Seqs!Last(loops).loop.kind # "for" /\ Moves(s, Ending(Seqs!Last(loops)))
<1> PICK l : l = Seqs!Last(loops)
  OBVIOUS
<1>0. PICK q : IsSeq(q) /\ NoEnds(q) /\ s = q \o Ending(l)
  BY DEF Within
<1>1. /\ EndsIn(s) # {} /\ FirstOf(EndsIn(s)) = Len(q) + 1
      /\ s[Len(q) + 1] = EndOf(l.loop) /\ IsSeq(s) /\ Len(q) \in Nat
  BY <1>0, FirstEnd
<1>2. IsSeq(Ending(l)) /\ IsSeq(l.after)
  BY Consed DEF Ending
<1>3. Skips(s) <=> Head(s).kind = "continue" /\ l.loop.kind = "for"
  BY <1>1 DEF Skips, EndOf
<1>4. ASSUME Head(s).kind = "break" PROVE Left(s) = l.after
  <2>1. Left(s) = SubSeq(s, (Len(q) + 1) + 1, Len(s))
    BY <1>1, <1>4 DEF Left
  <2> PICK p : p = q \o <<EndOf(l.loop)>>
    OBVIOUS
  <2>2. IsSeq(p) /\ Len(p) = Len(q) + 1
    <3>1. IsSeq(<<EndOf(l.loop)>>) /\ Len(<<EndOf(l.loop)>>) = 1
      BY One
    <3> QED
      BY <1>0, <3>1, Concatenated
  <2>3. s = p \o l.after
    <3>0. PICK w, a : w = <<EndOf(l.loop)>> /\ a = l.after
      OBVIOUS
    <3>1. IsSeq(q) /\ IsSeq(w) /\ IsSeq(a)
      BY <1>0, <1>2, <3>0, One
    <3>2. (q \o w) \o a = q \o (w \o a)
      BY <3>1, Associated, SMTT(40)
    <3>3. p = q \o w /\ s = q \o (w \o a)
      BY <1>0, <3>0 DEF Ending
    <3> QED
      BY <3>0, <3>2, <3>3
  <2>4. SubSeq(p \o l.after, Len(p) + 1, Len(p \o l.after)) = l.after
    BY <1>2, <2>2, FrontGone
  <2> QED
    BY <2>1, <2>2, <2>3, <2>4
<1>5. ASSUME Head(s).kind = "continue" PROVE Left(s) = Ending(l)
  <2>1. Left(s) = SubSeq(s, ((Len(q) + 1) - 1) + 1, Len(s))
    BY <1>1, <1>5 DEF Left
  <2>2. ((Len(q) + 1) - 1) + 1 = Len(q) + 1
    BY <1>1
  <2>3. SubSeq(q \o Ending(l), Len(q) + 1, Len(q \o Ending(l))) = Ending(l)
    BY <1>0, <1>2, FrontGone
  <2> QED
    BY <1>0, <2>1, <2>2, <2>3
<1> QED
  BY <1>3, <1>4, <1>5 DEF Moves

(* Outside of every loop both do nothing.                                  *)
LEMMA StrayMoves ==
  ASSUME NEW t, t.kind \in {"break", "continue"}, NEW c, IsSeq(c), NoEnds(<<t>> \o c)
  PROVE  Moves(<<t>> \o c, c)
<1> PICK s : s = <<t>> \o c
  OBVIOUS
<1>1. s # <<>> /\ Head(s) = t /\ EndsIn(s) = {}
  BY Consed DEF NoEnds, EndsIn
<1>2. IsSeq(<<t>>) /\ Len(<<t>>) = 1
  BY One
<1>3. SubSeq(s, 1 + 1, Len(s)) = c
  BY <1>2, FrontGone
<1>4. Left(s) = c
  BY <1>1, <1>3 DEF Left
<1> QED
  BY <1>1, <1>4 DEF Moves, Skips

(* The end of an iteration starts the next one.                            *)
LEMMA Again ==
  ASSUME NEW l, IsSeq(l.after), l.loop.kind \in {"while", "loop"}
  PROVE  /\ Moves(Ending(l), <<l.loop>> \o l.after)
         /\ Unfolded(EndOf(l.loop)) \o l.after = <<l.loop>> \o l.after
         /\ Moves(<<l.loop>> \o l.after, Unfolded(l.loop) \o l.after)
<1>1. EndOf(l.loop).kind = "end" /\ EndOf(l.loop).loop = l.loop
  BY DEF EndOf
<1>2. Unfolded(EndOf(l.loop)) = <<l.loop>>
  BY <1>1 DEF Unfolded
<1>3. Moves(Ending(l), Unfolded(EndOf(l.loop)) \o l.after)
  BY <1>1, Unfolds DEF Ending, Structured
<1>4. Moves(<<l.loop>> \o l.after, Unfolded(l.loop) \o l.after)
  BY Unfolds DEF Structured
<1> QED
  BY <1>2, <1>3, <1>4

(* A jump, and the start of a block.                                       *)
LEMMA JumpStart ==
  ASSUME NEW K, NEW E, NEW s, NEW r, NEW loops, NEW more, NEW due,
         Valid(K, St(TRUE, s, loops, more)), Valid(K, St(TRUE, r, loops, due)),
         NEW a \in DOMAIN K, Moves(s, K[a]) \/ (K[a] = s /\ a \in E \cup more),
         NEW b \in more, K[b] = r, due = more \ {b}
  PROVE  Thread(K, E, <<Jump(a), Start(b)>>, St(TRUE, s, loops, more), St(TRUE, r, loops, due))
<1> DEFINE x == St(TRUE, s, loops, more)
           y == St(FALSE, <<>>, loops, more)
           z == St(TRUE, r, loops, due)
<1>1. /\ x.live = TRUE /\ x.src = s /\ x.loops = loops /\ x.due = more
      /\ y.live = FALSE /\ y.loops = loops /\ y.due = more
  BY DEF St
<1> HIDE DEF x, y, z
<1>2. Valid(K, x) /\ Valid(K, z)
  BY DEF x, z
<1>3. Valid(K, y)
  <2>1. more \subseteq DOMAIN K
    BY <1>1, <1>2 DEF Valid
  <2> QED
    BY <1>1, <1>2, <2>1, ValidDead DEF y
<1>4. Goes(K, E, Jump(a), x, y)
  <2>1. Jump(a).kind = "jump" /\ Jump(a).block = a
    BY DEF Jump
  <2>2. y = St(FALSE, <<>>, x.loops, x.due)
    BY <1>1 DEF y
  <2>3. Jumps(K, E, Jump(a), x, y)
    BY <1>1, <2>1, <2>2 DEF Jumps
  <2> QED
    BY <1>2, <1>3, <2>3 DEF Goes
<1>5. Goes(K, E, Start(b), y, z)
  <2>1. Start(b).kind = "start" /\ Start(b).block = b
    BY DEF Start
  <2>2. z = St(TRUE, K[b], y.loops, y.due \ {b})
    BY <1>1 DEF z
  <2>3. Starts(K, Start(b), y, z)
    BY <1>1, <2>1, <2>2 DEF Starts
  <2> QED
    BY <1>2, <1>3, <2>3 DEF Goes
<1>6. Thread(K, E, <<Jump(a)>> \o <<Start(b)>>, x, z)
  BY <1>4, <1>5, ThreadOne, ThreadConcat
<1>7. <<Jump(a)>> \o <<Start(b)>> = <<Jump(a), Start(b)>>
  BY TwoIs
<1> QED
  BY <1>6, <1>7 DEF x, z

(* Inside of one more loop.                                                *)
LEMMA OneMoreLoop ==
  ASSUME NEW K, NEW l, LoopOK(K, l), NEW loops, IsSeq(loops),
         \A n \in DOMAIN loops : LoopOK(K, loops[n])
  PROVE  LET inner == Append(loops, l)
         IN  /\ IsSeq(inner) /\ inner # <<>> /\ Seqs!Last(inner) = l /\ Seqs!Front(inner) = loops
             /\ \A n \in DOMAIN inner : LoopOK(K, inner[n])
<1>0. PICK inner : inner = Append(loops, l)
  OBVIOUS
<1>1. /\ IsSeq(inner) /\ Len(inner) = Len(loops) + 1 /\ inner[Len(loops) + 1] = l
      /\ \A n \in DOMAIN loops : inner[n] = loops[n]
      /\ Elems(inner) = Elems(loops) \cup {l}
  <2>1. /\ IsSeq(Append(loops, l)) /\ Len(Append(loops, l)) = Len(loops) + 1
        /\ \A i \in DOMAIN loops : i \in DOMAIN Append(loops, l) /\ Append(loops, l)[i] = loops[i]
        /\ Append(loops, l)[Len(loops) + 1] = l
        /\ Elems(Append(loops, l)) = Elems(loops) \cup {l}
    BY Appended
  <2> QED
    BY <1>0, <2>1
<1>2. Len(loops) \in Nat /\ DOMAIN loops = 1 .. Len(loops)
  BY IsSeqLen
<1>3. inner # <<>>
  BY <1>1, <1>2, IsSeqLen
<1>4. /\ IsSeq(Seqs!Front(inner)) /\ Len(Seqs!Front(inner)) = Len(loops)
      /\ Seqs!Last(inner) = l
      /\ \A i \in DOMAIN Seqs!Front(inner) : Seqs!Front(inner)[i] = inner[i]
  BY <1>1, <1>2, <1>3, Fronted
<1>5. Seqs!Front(inner) = loops
  <2>0. PICK f : f = Seqs!Front(inner)
    OBVIOUS
  <2> DEFINE G == Elems(f) \cup Elems(loops)
  <2>1. f \in Seq(G) /\ loops \in Seq(G)
    BY <1>4, <2>0, IsSeqIn
  <2>2. DOMAIN f = 1 .. Len(loops) /\ Len(f) = Len(loops)
    BY <1>4, <2>0, IsSeqLen
  <2>3. \A i \in 1 .. Len(f) : f[i] = loops[i]
    BY <1>1, <1>2, <1>4, <2>0, <2>2
  <2> HIDE DEF G
  <2>4. f = loops
    BY <2>1, <2>2, <2>3, SeqEqual
  <2> QED
    BY <2>0, <2>4
<1>6. \A n \in DOMAIN inner : LoopOK(K, inner[n])
  <2>1. \A m \in Elems(inner) : LoopOK(K, m)
    BY <1>1 DEF Elems
  <2> QED
    BY <2>1 DEF Elems
<1> QED
  BY <1>0, <1>1, <1>3, <1>4, <1>5, <1>6

(* At the end of a body the loop is left and the next iteration is ahead.  *)
LEMMA InnerLeaves ==
  ASSUME NEW K, NEW E, NEW l, LoopOK(K, l),
         IsSeq(Unfolded(EndOf(l.loop))), NoEnds(Unfolded(EndOf(l.loop))),
         NEW loops, NEW due, Valid(K, St(TRUE, l.after, loops, due))
  PROVE  LET x == St(TRUE, Ending(l), Append(loops, l), due)
             y == St(TRUE, Unfolded(EndOf(l.loop)) \o l.after, loops, due)
         IN  Valid(K, x) /\ Valid(K, y) /\ Thread(K, E, <<LeaveLoop>>, x, y)
<1>0. PICK inner, s : inner = Append(loops, l) /\ s = Unfolded(EndOf(l.loop)) \o l.after
  OBVIOUS
<1> DEFINE x == St(TRUE, Ending(l), inner, due)
           y == St(TRUE, s, loops, due)
           z == St(TRUE, l.after, loops, due)
<1>1. /\ IsSeq(l.after) /\ IsSeq(loops) /\ due \subseteq DOMAIN K
      /\ \A n \in DOMAIN loops : LoopOK(K, loops[n])
  <2>1. z.loops = loops /\ z.due = due
    BY DEF St
  <2> HIDE DEF z
  <2> QED
    BY <2>1 DEF LoopOK, Valid, z
<1>2. /\ IsSeq(inner) /\ inner # <<>> /\ Seqs!Last(inner) = l /\ Seqs!Front(inner) = loops
      /\ \A n \in DOMAIN inner : LoopOK(K, inner[n])
  BY <1>0, <1>1, OneMoreLoop
<1>3. /\ x.live = TRUE /\ x.src = Ending(l) /\ x.loops = inner /\ x.due = due
      /\ x = St(x.live, x.src, x.loops, x.due)
  BY DEF St
<1> HIDE DEF x
<1>4. Valid(K, x)
  <2>1. IsSeq(Ending(l))
    BY <1>1, Consed DEF Ending
  <2>2. <<>> \o Ending(l) = Ending(l) /\ IsSeq(<<>>) /\ NoEnds(<<>>)
    BY <2>1, ConcatEmptySeq, EmptySeq DEF IsSeq, NoEnds
  <2>3. Within(Ending(l), inner)
    BY <1>2, <2>2 DEF Within
  <2> QED
    BY <1>1, <1>2, <1>3, <2>1, <2>3 DEF Valid
<1>5. Valid(K, y)
  BY <1>0, ValidMore
<1> HIDE DEF y
<1>6. Leaves(LeaveLoop, x, y)
  BY <1>0, <1>2, <1>3 DEF Leaves, LeaveLoop, y
<1>7. Goes(K, E, LeaveLoop, x, y)
  BY <1>4, <1>5, <1>6 DEF Goes
<1>8. Thread(K, E, <<LeaveLoop>>, x, y)
  BY <1>7, ThreadOne
<1> QED
  BY <1>0, <1>4, <1>5, <1>8 DEF x, y

(* Where the body of a loop ends, z being where the loop does.             *)
Inner(z, l) == St(TRUE, Ending(l), Append(z.loops, l), z.due \cup {l.exit})

(* The end of a body of a loop that goes straight back to its header.      *)
LEMMA LoopThread ==
  ASSUME NEW K, NEW E, NEW l, l.loop.kind \in {"while", "loop"}, LoopOK(K, l),
         NEW z, Valid(K, z), z.live, z.src = l.after, l.exit \notin z.due
  PROVE  /\ Thread(K, E, <<LeaveLoop, Jump(l.header), Start(l.exit)>>, Inner(z, l), z)
         /\ Valid(K, Inner(z, l))
<1>a. PICK loops, due : loops = z.loops /\ due = z.due
  OBVIOUS
<1>b. z = St(TRUE, l.after, loops, due)
  BY <1>a DEF Valid
<1>c. Valid(K, St(TRUE, l.after, loops, due)) /\ l.exit \notin due
  BY <1>a, <1>b
<1>0. PICK more : more = due \cup {l.exit}
  OBVIOUS
<1>1. IsSeq(l.after) /\ l.header \in DOMAIN K /\ l.exit \in DOMAIN K /\ K[l.exit] = l.after
  BY DEF LoopOK
<1>2. due \subseteq DOMAIN K
  BY <1>a DEF Valid
<1>3. Valid(K, St(TRUE, l.after, loops, more))
  BY <1>0, <1>1, <1>2, <1>c, ValidDue
<1>4. /\ Unfolded(EndOf(l.loop)) = <<l.loop>>
      /\ Moves(<<l.loop>> \o l.after, K[l.header])
  <2>1. Unfolded(EndOf(l.loop)) = <<l.loop>>
    BY DEF Unfolded, EndOf
  <2> QED
    BY <1>1, <2>1, Again DEF LoopOK
<1>5. IsSeq(<<l.loop>>) /\ NoEnds(<<l.loop>>)
  BY One DEF NoEnds
<1>6. /\ Valid(K, St(TRUE, Ending(l), Append(loops, l), more))
      /\ Valid(K, St(TRUE, <<l.loop>> \o l.after, loops, more))
      /\ Thread(K, E, <<LeaveLoop>>, St(TRUE, Ending(l), Append(loops, l), more),
                St(TRUE, <<l.loop>> \o l.after, loops, more))
  <2>1. IsSeq(Unfolded(EndOf(l.loop))) /\ NoEnds(Unfolded(EndOf(l.loop)))
    BY <1>4, <1>5
  <2> QED
    BY <1>3, <1>4, <2>1, InnerLeaves
<1>7. l.exit \in more /\ due = more \ {l.exit}
  BY <1>0, <1>c
<1>8. Thread(K, E, <<Jump(l.header), Start(l.exit)>>,
             St(TRUE, <<l.loop>> \o l.after, loops, more), St(TRUE, l.after, loops, due))
  BY <1>1, <1>4, <1>6, <1>7, <1>c, JumpStart
<1>9. Thread(K, E, <<LeaveLoop>> \o <<Jump(l.header), Start(l.exit)>>,
             St(TRUE, Ending(l), Append(loops, l), more), St(TRUE, l.after, loops, due))
  BY <1>6, <1>8, ThreadConcat
<1>10. <<LeaveLoop>> \o <<Jump(l.header), Start(l.exit)>>
         = <<LeaveLoop, Jump(l.header), Start(l.exit)>>
  BY ThreeIs
<1>11. Inner(z, l) = St(TRUE, Ending(l), Append(loops, l), more)
  BY <1>0, <1>a DEF Inner
<1> QED
  BY <1>6, <1>9, <1>10, <1>11, <1>b

(* The end of the body of a counted loop: its counter is incremented first.*)
LEMMA CountThread ==
  ASSUME NEW K, NEW E, NEW l, l.loop.kind = "for", LoopOK(K, l),
         K[l.header] = Counted(l.loop) \o l.after, l.header \in E,
         NEW z, Valid(K, z), z.live, z.src = l.after, l.exit \notin z.due
  PROVE  /\ Thread(K, E, <<LeaveLoop, Do(Incr(l.loop.counter)), Jump(l.header), Start(l.exit)>>,
                   Inner(z, l), z)
         /\ Valid(K, Inner(z, l))
<1>a. PICK loops, due : loops = z.loops /\ due = z.due
  OBVIOUS
<1>b. z = St(TRUE, l.after, loops, due)
  BY <1>a DEF Valid
<1>c. Valid(K, St(TRUE, l.after, loops, due)) /\ l.exit \notin due
  BY <1>a, <1>b
<1>0. PICK more, d : more = due \cup {l.exit} /\ d = Do(Incr(l.loop.counter))
  OBVIOUS
<1>1. IsSeq(l.after) /\ l.header \in DOMAIN K /\ l.exit \in DOMAIN K /\ K[l.exit] = l.after
  BY DEF LoopOK
<1>2. due \subseteq DOMAIN K
  BY <1>a DEF Valid
<1>3. Valid(K, St(TRUE, l.after, loops, more))
  BY <1>0, <1>1, <1>2, <1>c, ValidDue
<1>4. Unfolded(EndOf(l.loop)) = <<d>> \o Counted(l.loop)
  BY <1>0 DEF Unfolded, EndOf
<1>5. IsSeq(Counted(l.loop)) /\ NoEnds(Counted(l.loop))
  BY Two DEF Counted, NoEnds, Do, Choice
<1>6. IsSeq(<<d>>) /\ NoEnds(<<d>>) /\ d.kind = "do"
  BY <1>0, One DEF NoEnds, Do
<1>7. IsSeq(<<d>> \o Counted(l.loop)) /\ NoEnds(<<d>> \o Counted(l.loop))
  BY <1>5, <1>6, NoEndsConcat, Concatenated
<1>8. (<<d>> \o Counted(l.loop)) \o l.after = <<d>> \o (Counted(l.loop) \o l.after)
  <2>0. PICK w, c, a : w = <<d>> /\ c = Counted(l.loop) /\ a = l.after
    OBVIOUS
  <2>1. IsSeq(w) /\ IsSeq(c) /\ IsSeq(a)
    BY <1>1, <1>5, <1>6, <2>0
  <2>2. (w \o c) \o a = w \o (c \o a)
    BY <2>1, Associated
  <2> QED
    BY <2>0, <2>2
<1>9. PICK s : s = Counted(l.loop) \o l.after
  OBVIOUS
<1>10. /\ Valid(K, St(TRUE, Ending(l), Append(loops, l), more))
       /\ Valid(K, St(TRUE, <<d>> \o s, loops, more))
       /\ Thread(K, E, <<LeaveLoop>>, St(TRUE, Ending(l), Append(loops, l), more),
                 St(TRUE, <<d>> \o s, loops, more))
  <2>1. IsSeq(Unfolded(EndOf(l.loop))) /\ NoEnds(Unfolded(EndOf(l.loop)))
    BY <1>4, <1>7
  <2>2. Unfolded(EndOf(l.loop)) \o l.after = <<d>> \o s
    BY <1>4, <1>8, <1>9
  <2> QED
    BY <1>3, <2>1, <2>2, InnerLeaves
<1>11. Valid(K, St(TRUE, s, loops, more))
  BY <1>3, <1>5, <1>9, ValidMore
<1>12. Thread(K, E, <<d>>, St(TRUE, <<d>> \o s, loops, more), St(TRUE, s, loops, more))
  <2>0. PICK y : y = St(TRUE, s, loops, more)
    OBVIOUS
  <2>1. y.live = TRUE /\ y.src = s /\ y.loops = loops /\ y.due = more
    BY <2>0 DEF St
  <2>2. Does(d, St(TRUE, <<d>> \o s, loops, more), y)
    BY <1>6, <2>1 DEF Does, Plain
  <2>3. Goes(K, E, d, St(TRUE, <<d>> \o s, loops, more), y)
    BY <1>10, <1>11, <2>0, <2>2 DEF Goes
  <2> QED
    BY <2>0, <2>3, ThreadOne
<1>13. l.exit \in more /\ due = more \ {l.exit}
  BY <1>0, <1>c
<1>14. Thread(K, E, <<Jump(l.header), Start(l.exit)>>,
              St(TRUE, s, loops, more), St(TRUE, l.after, loops, due))
  BY <1>1, <1>9, <1>11, <1>13, <1>c, JumpStart
<1>15. Thread(K, E, <<d>> \o <<Jump(l.header), Start(l.exit)>>,
              St(TRUE, <<d>> \o s, loops, more), St(TRUE, l.after, loops, due))
  BY <1>12, <1>14, ThreadConcat
<1>16. Thread(K, E, <<LeaveLoop>> \o (<<d>> \o <<Jump(l.header), Start(l.exit)>>),
              St(TRUE, Ending(l), Append(loops, l), more), St(TRUE, l.after, loops, due))
  BY <1>10, <1>15, ThreadConcat
<1>17. <<LeaveLoop>> \o (<<d>> \o <<Jump(l.header), Start(l.exit)>>)
         = <<LeaveLoop, d, Jump(l.header), Start(l.exit)>>
  <2>1. <<d>> \o <<Jump(l.header), Start(l.exit)>> = <<d, Jump(l.header), Start(l.exit)>>
    BY ThreeIs
  <2>2. <<LeaveLoop>> \o <<d, Jump(l.header), Start(l.exit)>>
          = <<LeaveLoop, d, Jump(l.header), Start(l.exit)>>
    BY FourIs
  <2> QED
    BY <2>1, <2>2
<1>18. Inner(z, l) = St(TRUE, Ending(l), Append(loops, l), more)
  BY <1>0, <1>a DEF Inner
<1> QED
  BY <1>0, <1>10, <1>16, <1>17, <1>18, <1>b

-----------------------------------------------------------------------------
(* e is what u does next, and v what is left then (BothDo).                *)
Sees(u, e, v) ==
  /\ NextOf(u) = <<"do", e>>
  /\ v = (IF Head(u).kind = "return" THEN <<[kind |-> "handed"]>> ELSE <<>>) \o Tail(u)
Events(g, s) == \A p \in DOMAIN s : \E u : Path(g[p], u) /\ Sees(u, s[p], g[p + 1])
(* The events s lead from k to l.                                          *)
Trace(k, s, l) == IsSeq(s) /\ \E g : g[1] = k /\ g[Len(s) + 1] = l /\ Events(g, s)
(* A block that ends with t goes on where l does.  A goto costs a step of  *)
(* the source unless it is to a block in F.                                *)
Closes(K, F, l, t) ==
  \/ \E b \in DOMAIN K : \E u :
       /\ t = Goto(b) /\ Path(l, u)
       /\ Skips(u) \/ Moves(u, K[b]) \/ (u = K[b] /\ b \in F)
  \/ /\ t.kind = "switch"
     /\ \E u : /\ Path(l, u) /\ NextOf(u) = <<"choice", Len(t.to)>>
               /\ \A n \in DOMAIN t.to :
                    t.to[n] \in DOMAIN K /\ K[t.to[n]] = Head(u).alternatives[n] \o Tail(u)
  \/ \E v : \E u : t = Returns(v) /\ Path(l, u) /\ NextOf(u) = <<"return", v>>
  \/ \E u : t = Abort /\ Path(l, u) /\ NextOf(u) = <<"abort", FALSE>>
Realizes(K, F, k, b) == \E l : Trace(k, b.stmts, l) /\ Closes(K, F, l, b.term)

(* Blocks that are finished and do something, and those and the unfinished *)
(* ones: from where a goto leads to nothing else than such a block, the    *)
(* source is not where it was or the block is finished later.  Q is the    *)
(* order in which they are.                                                *)
Busy == {b \in DOMAIN blocks : ~Open(b) /\ blocks[b].stmts # <<>>}
Unfinished == {b \in DOMAIN blocks : Open(b)}
Later(Q, b) == {t \in DOMAIN Q : Q[b] < Q[t]}
Ordered(Q, N) ==
  /\ DOMAIN Q = DOMAIN blocks /\ N \in Nat
  /\ \A b \in DOMAIN blocks : Q[b] \in Nat /\ Q[b] <= N /\ (Open(b) <=> Q[b] = N)
Right(K, Q) ==
  \A b \in DOMAIN blocks : ~Open(b) => Realizes(K, Busy \cup Later(Q, b), K[b], blocks[b])
(* Where the lowerer is in the graph: the current block has done up to here *)
(* what the source has.                                                    *)
Stands(K, x) ==
  /\ Unfinished = x.due \cup (IF x.live THEN {cur} ELSE {}) /\ cur \notin x.due
  /\ IF x.live THEN \E l : Trace(K[cur], cur_stmts, l) /\ Path(l, x.src) ELSE cur_stmts = <<>>
InLoops(x) ==
  /\ Len(x.loops) = Len(loop_ctx)
  /\ \A n \in DOMAIN loop_ctx : /\ x.loops[n].header = loop_ctx[n].header
                                /\ x.loops[n].exit = loop_ctx[n].exit
Begins(K) ==
  /\ src = program.code /\ at = 1 /\ pos = 1 /\ 1 \in DOMAIN blocks /\ K[1] = src
Last == St(TRUE, <<>>, <<>>, {})
Follows(K, Q, N, x) ==
  /\ DOMAIN K = DOMAIN blocks
  /\ Ordered(Q, N) /\ Right(K, Q) /\ Stands(K, x) /\ InLoops(x) /\ Begins(K)
  /\ Thread(K, Busy, todo, x, Last)

(* What is right stays right when blocks are added and finished.           *)
LEMMA ClosesGrows ==
  ASSUME NEW K, NEW M, Extends(K, M), NEW F, NEW G, F \subseteq G, NEW l, NEW t, Closes(K, F, l, t)
  PROVE  Closes(M, G, l, t)
<1>1. CASE \E b \in DOMAIN K : \E u :
             /\ t = Goto(b) /\ Path(l, u)
             /\ Skips(u) \/ Moves(u, K[b]) \/ (u = K[b] /\ b \in F)
  <2>1. PICK b \in DOMAIN K : \E u :
             /\ t = Goto(b) /\ Path(l, u)
             /\ Skips(u) \/ Moves(u, K[b]) \/ (u = K[b] /\ b \in F)
    BY <1>1
  <2>2. b \in DOMAIN M /\ M[b] = K[b]
    BY DEF Extends
  <2> QED
    BY <2>1, <2>2 DEF Closes
<1>2. CASE /\ t.kind = "switch"
           /\ \E u : /\ Path(l, u) /\ NextOf(u) = <<"choice", Len(t.to)>>
                     /\ \A n \in DOMAIN t.to :
                          t.to[n] \in DOMAIN K /\ K[t.to[n]] = Head(u).alternatives[n] \o Tail(u)
  BY <1>2 DEF Closes, Extends
<1>3. CASE \E v : \E u : t = Returns(v) /\ Path(l, u) /\ NextOf(u) = <<"return", v>>
  BY <1>3 DEF Closes
<1>4. CASE \E u : t = Abort /\ Path(l, u) /\ NextOf(u) = <<"abort", FALSE>>
  BY <1>4 DEF Closes
<1> QED
  BY <1>1, <1>2, <1>3, <1>4 DEF Closes

(* The same of a block.                                                    *)
LEMMA RealizesGrows ==
  ASSUME NEW K, NEW M, Extends(K, M), NEW F, NEW G, F \subseteq G, NEW k, NEW b,
         Realizes(K, F, k, b)
  PROVE  Realizes(M, G, k, b)
<1>1. PICK l : Trace(k, b.stmts, l) /\ Closes(K, F, l, b.term)
  BY DEF Realizes
<1>2. Closes(M, G, l, b.term)
  BY <1>1, ClosesGrows
<1> QED
  BY <1>1, <1>2 DEF Realizes

(* Nothing is done yet.                                                    *)
LEMMA TraceNone == ASSUME NEW k PROVE Trace(k, <<>>, k)
<1> DEFINE g == [i \in {1} |-> k]
<1>1. g[1] = k /\ Len(<<>>) + 1 = 1 /\ DOMAIN <<>> = {} /\ IsSeq(<<>>)
  BY EmptySeq DEF IsSeq
<1> HIDE DEF g
<1>2. Events(g, <<>>)
  BY <1>1 DEF Events
<1> QED
  BY <1>1, <1>2 DEF Trace

(* One more event.                                                         *)
LEMMA TraceMore ==
  ASSUME NEW k, NEW s, NEW l, Trace(k, s, l), NEW u, Path(l, u), NEW e, NEW m, Sees(u, e, m)
  PROVE  Trace(k, s \o <<e>>, m) /\ Append(s, e) = s \o <<e>>
<1>1. PICK g : g[1] = k /\ g[Len(s) + 1] = l /\ Events(g, s)
  BY DEF Trace
<1>2. PICK N \in Nat : N = Len(s) /\ DOMAIN s = 1 .. N /\ IsSeq(s)
  BY IsSeqLen DEF Trace
<1>3. PICK r : r = Append(s, e)
  OBVIOUS
<1>4. /\ IsSeq(r) /\ Len(r) = N + 1 /\ DOMAIN r = 1 .. N + 1
      /\ \A i \in 1 .. N : r[i] = s[i]
      /\ r[N + 1] = e
  BY <1>2, <1>3, Appended
<1>5. r = s \o <<e>>
  BY <1>2, <1>3, AppendIs
<1> DEFINE h == [i \in 1 .. N + 2 |-> IF i <= N + 1 THEN g[i] ELSE m]
<1>6. /\ h[1] = k /\ h[(N + 1) + 1] = m /\ h[N + 1] = l
      /\ \A i \in 1 .. N : h[i] = g[i] /\ h[i + 1] = g[i + 1]
  <2>1. 1 \in 1 .. N + 2 /\ 1 <= N + 1 /\ (N + 1) + 1 \in 1 .. N + 2 /\ ~((N + 1) + 1 <= N + 1)
    BY <1>2
  <2>2. N + 1 \in 1 .. N + 2 /\ g[N + 1] = l
    BY <1>1, <1>2
  <2>3. ASSUME NEW i \in 1 .. N PROVE h[i] = g[i] /\ h[i + 1] = g[i + 1]
    <3>1. i \in 1 .. N + 2 /\ i <= N + 1 /\ i + 1 \in 1 .. N + 2 /\ i + 1 <= N + 1
      BY <1>2
    <3> QED
      BY <3>1
  <2> QED
    BY <1>1, <2>1, <2>2, <2>3
<1> HIDE DEF h
<1>7. Events(h, r)
  <2> SUFFICES ASSUME NEW p \in DOMAIN r
               PROVE  \E w : Path(h[p], w) /\ Sees(w, r[p], h[p + 1])
    BY DEF Events
  <2>1. CASE p \in 1 .. N
    <3>1. \E w : Path(g[p], w) /\ Sees(w, s[p], g[p + 1])
      BY <1>1, <1>2, <2>1 DEF Events
    <3> QED
      BY <1>4, <1>6, <2>1, <3>1
  <2>2. CASE p = N + 1
    BY <1>4, <1>6, <2>2
  <2>3. p \in 1 .. N \/ p = N + 1
    BY <1>2, <1>4
  <2> QED
    BY <2>1, <2>2, <2>3
<1>8. Trace(k, r, m)
  <2>1. Len(r) + 1 = (N + 1) + 1
    BY <1>4
  <2> QED
    BY <1>4, <1>6, <1>7, <2>1 DEF Trace
<1> QED
  BY <1>3, <1>5, <1>8

(* A step that builds M from K, finishes blocks that go on as they should, *)
(* and leaves a list of tasks that leads to the end.                       *)
LEMMA Carries ==
  ASSUME NEW K, NEW Q, NEW N, NEW x, Follows(K, Q, N, x), Unclobbered,
         NEW M, DOMAIN M = DOMAIN blocks', Extends(K, M),
         \A b \in DOMAIN blocks' :
           /\ b \in DOMAIN blocks => Open(b)
           /\ blocks'[b].term # Unreachable
           => Realizes(M, Busy' \cup Unfinished', M[b], blocks'[b]),
         NEW z, Thread(K, Busy, Rest, z, Last),
         NEW p, todo' = p \o Rest, NEW y, Thread(M, Busy', p, y, z),
         Stands(M, y)', InLoops(y)', UNCHANGED <<program, src, at, pos>>
  PROVE  \E R, L : Follows(M, R, L, y)'
<1>0. PICK R : R = [b \in DOMAIN blocks' |->
                     IF b \in DOMAIN blocks /\ ~Open(b) THEN Q[b]
                     ELSE IF blocks'[b].term = Unreachable THEN N + 1 ELSE N]
  OBVIOUS
<1>1. DOMAIN K = DOMAIN blocks /\ DOMAIN blocks \subseteq DOMAIN blocks' /\ N \in Nat
  BY DEF Follows, Extends, Ordered
<1>2. \A b \in DOMAIN blocks : ~Open(b) => blocks'[b] = blocks[b]
  BY DEF Unclobbered
<1>3. Busy \subseteq Busy'
  BY <1>1, <1>2 DEF Busy, Open
<1>4. Ordered(R, N + 1)'
  <2>1. ASSUME NEW b \in DOMAIN blocks'
        PROVE  R[b] \in Nat /\ R[b] <= N + 1 /\ (blocks'[b].term = Unreachable <=> R[b] = N + 1)
    <3>1. CASE b \in DOMAIN blocks /\ ~Open(b)
      <4>1. R[b] = Q[b] /\ blocks'[b].term # Unreachable
        BY <1>0, <1>2, <3>1 DEF Open
      <4>2. Q[b] \in Nat /\ Q[b] <= N /\ Q[b] # N
        BY <3>1 DEF Follows, Ordered
      <4> QED
        BY <1>1, <4>1, <4>2
    <3>2. CASE ~(b \in DOMAIN blocks /\ ~Open(b))
      BY <1>0, <1>1, <3>2
    <3> QED
      BY <3>1, <3>2
  <2>2. DOMAIN R = DOMAIN blocks' /\ N + 1 \in Nat
    BY <1>0, <1>1
  <2> QED
    BY <2>1, <2>2 DEF Ordered, Open
<1>5. ASSUME NEW b \in DOMAIN blocks, ~Open(b) PROVE Later(Q, b) \subseteq Later(R, b)
  <2> SUFFICES ASSUME NEW t \in DOMAIN Q, Q[b] < Q[t] PROVE t \in DOMAIN R /\ R[b] < R[t]
    BY DEF Later
  <2>1. t \in DOMAIN blocks /\ t \in DOMAIN blocks' /\ b \in DOMAIN blocks'
    BY <1>1 DEF Follows, Ordered
  <2>2. Q[b] \in Nat /\ Q[t] \in Nat /\ Q[b] <= N /\ Q[b] # N /\ Q[t] <= N
    BY <1>5, <2>1 DEF Follows, Ordered
  <2>3. R[b] = Q[b]
    BY <1>0, <1>5, <2>1
  <2>4. R[t] = Q[t] \/ R[t] = N \/ R[t] = N + 1
    BY <1>0, <2>1
  <2>5. Q[b] < N
    BY <1>1, <2>2
  <2>6. t \in DOMAIN R
    BY <1>0, <2>1
  <2> QED
    BY <1>1, <2>2, <2>3, <2>4, <2>5, <2>6
<1>6. Right(M, R)'
  <2> SUFFICES ASSUME NEW b \in DOMAIN blocks', blocks'[b].term # Unreachable
               PROVE  Realizes(M, Busy' \cup Later(R, b), M[b], blocks'[b])
    BY DEF Right, Open
  <2>1. CASE b \in DOMAIN blocks /\ ~Open(b)
    <3>1. Realizes(K, Busy \cup Later(Q, b), K[b], blocks[b])
      BY <2>1 DEF Follows, Right
    <3>2. Busy \cup Later(Q, b) \subseteq Busy' \cup Later(R, b)
      BY <1>3, <1>5, <2>1
    <3>3. Realizes(M, Busy' \cup Later(R, b), K[b], blocks[b])
      BY <3>1, <3>2, RealizesGrows
    <3>4. M[b] = K[b] /\ blocks'[b] = blocks[b]
      BY <1>1, <1>2, <2>1 DEF Extends
    <3> QED
      BY <3>3, <3>4
  <2>2. CASE b \in DOMAIN blocks => Open(b)
    <3>1. Realizes(M, Busy' \cup Unfinished', M[b], blocks'[b])
      BY <2>2
    <3>2. R[b] = N
      BY <1>0, <2>2
    <3>3. \A t \in Unfinished' : t \in DOMAIN R /\ R[t] = N + 1
      <4> SUFFICES ASSUME NEW t \in DOMAIN blocks', blocks'[t].term = Unreachable
                   PROVE  t \in DOMAIN R /\ R[t] = N + 1
        BY DEF Unfinished, Open
      <4>1. ~(t \in DOMAIN blocks /\ ~Open(t))
        BY <1>2 DEF Open
      <4> QED
        BY <1>0, <4>1
    <3>4. Unfinished' \subseteq Later(R, b)
      BY <1>1, <3>2, <3>3 DEF Later
    <3>5. Busy' \cup Unfinished' \subseteq Busy' \cup Later(R, b)
      BY <3>4
    <3>6. Extends(M, M)
      BY DEF Extends
    <3> QED
      BY <3>1, <3>5, <3>6, RealizesGrows
  <2> QED
    BY <2>1, <2>2
<1>7. Thread(M, Busy', todo', y, Last)
  <2>1. Thread(M, Busy', Rest, z, Last)
    BY <1>3, ThreadGrows
  <2>2. Thread(M, Busy', p \o Rest, y, Last)
    BY <2>1, ThreadConcat
  <2> QED
    BY <2>2
<1>8. Begins(M)'
  <2>1. 1 \in DOMAIN blocks /\ K[1] = src /\ src = program.code /\ at = 1 /\ pos = 1
    BY DEF Follows, Begins
  <2>2. 1 \in DOMAIN blocks' /\ M[1] = K[1]
    BY <1>1, <2>1 DEF Extends
  <2> QED
    BY <2>1, <2>2 DEF Begins
<1>9. Follows(M, R, N + 1, y)'
  BY <1>4, <1>6, <1>7, <1>8 DEF Follows
<1> QED
  BY <1>9

(* One way behind another.                                                 *)
LEMMA PathJoin == ASSUME NEW s, NEW t, NEW u, Path(s, t), Path(t, u) PROVE Path(s, u)
<1> PICK n \in Nat : \E f : Walk(f, n, s, t)
  BY DEF Path
<1> PICK f : Walk(f, n, s, t)
  OBVIOUS
<1> PICK m \in Nat : \E g : Walk(g, m, t, u)
  BY DEF Path
<1> PICK g : Walk(g, m, t, u)
  OBVIOUS
<1> DEFINE h == [i \in 0 .. n + m |-> IF i <= n THEN f[i] ELSE g[i - n]]
<1>1. h[0] = s /\ \A i \in 1 .. n : h[i - 1] = f[i - 1] /\ h[i] = f[i]
  <2>1. \A i \in 1 .. n : i - 1 \in 0 .. n + m /\ i \in 0 .. n + m /\ i - 1 <= n /\ i <= n
    OBVIOUS
  <2>2. 0 \in 0 .. n + m /\ 0 <= n
    OBVIOUS
  <2> QED
    BY <2>1, <2>2 DEF Walk
<1>2. \A i \in 0 .. m : h[n + i] = g[i]
  <2> SUFFICES ASSUME NEW i \in 0 .. m PROVE h[n + i] = g[i]
    OBVIOUS
  <2>1. n + i \in 0 .. n + m /\ (n + i) - n = i
    OBVIOUS
  <2>2. CASE i = 0
    BY <2>1, <2>2 DEF Walk
  <2>3. CASE i # 0
    <3>1. ~(n + i <= n)
      BY <2>3
    <3> QED
      BY <2>1, <3>1
  <2> QED
    BY <2>2, <2>3
<1> HIDE DEF h
<1>3. \A i \in 1 .. n + m : Moves(h[i - 1], h[i])
  <2> SUFFICES ASSUME NEW i \in 1 .. n + m PROVE Moves(h[i - 1], h[i])
    OBVIOUS
  <2>1. CASE i \in 1 .. n
    BY <1>1, <2>1 DEF Walk
  <2>2. CASE i \notin 1 .. n
    <3> PICK k \in 1 .. m : k = i - n
      BY <2>2
    <3>1. i = n + k /\ i - 1 = n + (k - 1) /\ k - 1 \in 0 .. m /\ k \in 0 .. m
      OBVIOUS
    <3>2. h[i] = g[k] /\ h[i - 1] = g[k - 1]
      BY <1>2, <3>1
    <3> QED
      BY <3>2 DEF Walk
  <2> QED
    BY <2>1, <2>2
<1>4. h[n + m] = u /\ n + m \in Nat
  BY <1>2 DEF Walk
<1>5. Walk(h, n + m, s, u)
  BY <1>1, <1>3, <1>4 DEF Walk
<1> QED
  BY <1>4, <1>5 DEF Path

(* A block that goes on where m does goes on where the way to m begins.    *)
LEMMA ClosesBefore ==
  ASSUME NEW K, NEW F, NEW l, NEW m, Path(l, m), NEW t, Closes(K, F, m, t)
  PROVE  Closes(K, F, l, t)
<1>1. \A u : Path(m, u) => Path(l, u)
  BY PathJoin
<1>2. CASE \E b \in DOMAIN K : \E u :
             /\ t = Goto(b) /\ Path(m, u)
             /\ Skips(u) \/ Moves(u, K[b]) \/ (u = K[b] /\ b \in F)
  BY <1>1, <1>2 DEF Closes
<1>3. CASE /\ t.kind = "switch"
           /\ \E u : /\ Path(m, u) /\ NextOf(u) = <<"choice", Len(t.to)>>
                     /\ \A n \in DOMAIN t.to :
                          t.to[n] \in DOMAIN K /\ K[t.to[n]] = Head(u).alternatives[n] \o Tail(u)
  BY <1>1, <1>3 DEF Closes
<1>4. CASE \E v : \E u : t = Returns(v) /\ Path(m, u) /\ NextOf(u) = <<"return", v>>
  BY <1>1, <1>4 DEF Closes
<1>5. CASE \E u : t = Abort /\ Path(m, u) /\ NextOf(u) = <<"abort", FALSE>>
  BY <1>1, <1>5 DEF Closes
<1> QED
  BY <1>2, <1>3, <1>4, <1>5 DEF Closes

(* The current block with one more event, or none, and a terminator.       *)
Finishes(u, stmts, m) ==
  \/ stmts = <<>> /\ m = u
  \/ \E e, v : stmts = <<e>> /\ Path(u, v) /\ Sees(v, e, m)

(* It is right if it goes on where the source does.                        *)
LEMMA Ends ==
  ASSUME NEW K, NEW F, NEW k, NEW s, NEW l, Trace(k, s, l), NEW u, Path(l, u),
         NEW stmts, NEW m, Finishes(u, stmts, m), NEW t, Closes(K, F, m, t)
  PROVE  Realizes(K, F, k, Block(s \o stmts, t))
<1>1. CASE stmts = <<>> /\ m = u
  <2>1. s \o stmts = s
    BY <1>1, ConcatEmptySeq DEF Trace, IsSeq
  <2>2. Closes(K, F, l, t)
    BY <1>1, ClosesBefore
  <2> QED
    BY <2>1, <2>2 DEF Realizes, Block
<1>2. CASE \E e, v : stmts = <<e>> /\ Path(u, v) /\ Sees(v, e, m)
  <2>1. PICK e, v : stmts = <<e>> /\ Path(u, v) /\ Sees(v, e, m)
    BY <1>2
  <2>2. Path(l, v)
    BY <2>1, PathJoin
  <2>3. Trace(k, s \o stmts, m)
    BY <2>1, <2>2, TraceMore
  <2> QED
    BY <2>3 DEF Realizes, Block
<1> QED
  BY <1>1, <1>2 DEF Finishes

(* The lowering follows the source.                                        *)
Followed == \E K, Q, N, x : Follows(K, Q, N, x)

(* What the lowerer has to do first, and from where on the rest is done.   *)
LEMMA AtHand ==
  ASSUME NEW K, NEW Q, NEW N, NEW x, Follows(K, Q, N, x), todo # <<>>
  PROVE  \E z : /\ Thread(K, Busy, Rest, z, Last) /\ Valid(K, x) /\ Valid(K, z)
                /\ Task.kind \in Plain => Does(Task, x, z)
                /\ Task.kind = "link" => Links(K, Task, x, z)
                /\ Task.kind = "leave" => Leaves(Task, x, z)
                /\ Task.kind = "jump" => Jumps(K, Busy, Task, x, z)
                /\ Task.kind = "start" => Starts(K, Task, x, z)
<1>1. PICK z : Goes(K, Busy, Task, x, z) /\ Thread(K, Busy, Rest, z, Last)
  BY ThreadHead DEF Follows, Task, Rest
<1>2. /\ Valid(K, x) /\ Valid(K, z)
      /\ \/ Does(Task, x, z) \/ Links(K, Task, x, z) \/ Leaves(Task, x, z)
         \/ Jumps(K, Busy, Task, x, z) \/ Starts(K, Task, x, z)
  BY <1>1 DEF Goes
<1>3. Does(Task, x, z) => Task.kind \in Plain
  BY DEF Does
<1>4. Links(K, Task, x, z) => Task.kind = "link"
  BY DEF Links
<1>5. Leaves(Task, x, z) => Task.kind = "leave"
  BY DEF Leaves
<1>6. Jumps(K, Busy, Task, x, z) => Task.kind = "jump"
  BY DEF Jumps
<1>7. Starts(K, Task, x, z) => Task.kind = "start"
  BY DEF Starts
<1>8. "link" \notin Plain /\ "leave" \notin Plain /\ "jump" \notin Plain /\ "start" \notin Plain
  BY DEF Plain
<1> QED
  BY <1>1, <1>2, <1>3, <1>4, <1>5, <1>6, <1>7, <1>8

(* A step that leaves the blocks alone.                                    *)
LEMMA QuietCarries ==
  ASSUME NEW K, NEW Q, NEW N, NEW x, Follows(K, Q, N, x), blocks' = blocks, todo' = Rest,
         NEW z, Thread(K, Busy, Rest, z, Last), Stands(K, z)', InLoops(z)',
         UNCHANGED <<program, src, at, pos>>
  PROVE  Followed'
<1>1. DOMAIN K = DOMAIN blocks' /\ Extends(K, K)
  BY DEF Follows, Extends
<1>2. Unclobbered /\ Busy' = Busy
  BY DEF Unclobbered, Busy, Open
<1>3. Ordered(Q, N)' /\ Right(K, Q)'
  BY <1>2 DEF Follows, Ordered, Right, Open
<1>4. Thread(K, Busy', todo', z, Last)
  BY <1>2
<1>5. Begins(K)'
  BY DEF Follows, Begins
<1>6. Follows(K, Q, N, z)'
  BY <1>1, <1>3, <1>4, <1>5 DEF Follows
<1> QED
  BY <1>6 DEF Followed

(* What the source has to do where n more blocks begin.                    *)
Longer(K, L, n, add) == [b \in 1 .. L + n |-> IF b <= L THEN K[b] ELSE add[b - L]]

(* It is.                                                                  *)
LEMMA More ==
  ASSUME NEW K, NEW L \in Nat, DOMAIN K = 1 .. L, NEW n \in Nat, NEW add
  PROVE  /\ DOMAIN Longer(K, L, n, add) = 1 .. L + n /\ Extends(K, Longer(K, L, n, add))
         /\ \A i \in 1 .. n : Longer(K, L, n, add)[L + i] = add[i]
<1>0. PICK M : M = Longer(K, L, n, add)
  OBVIOUS
<1>1. /\ DOMAIN M = 1 .. L + n
      /\ \A b \in 1 .. L + n : M[b] = IF b <= L THEN K[b] ELSE add[b - L]
  BY <1>0 DEF Longer
<1>2. Extends(K, M)
  BY <1>1 DEF Extends
<1>3. \A i \in 1 .. n : M[L + i] = add[i]
  <2> SUFFICES ASSUME NEW i \in 1 .. n PROVE M[L + i] = add[i]
    OBVIOUS
  <2>1. L + i \in 1 .. L + n /\ ~(L + i <= L) /\ (L + i) - L = i
    OBVIOUS
  <2> QED
    BY <1>1, <2>1
<1> QED
  BY <1>0, <1>1, <1>2, <1>3

-----------------------------------------------------------------------------
(* New blocks, where they are: those that are finished and do something,   *)
(* and those that are not.                                                 *)
Filled(new) ==
  {Len(blocks) + i : i \in {j \in DOMAIN new : new[j].term # Unreachable /\ new[j].stmts # <<>>}}
Bare(new) == {Len(blocks) + i : i \in {j \in DOMAIN new : new[j].term = Unreachable}}

(* flush, with new blocks behind it, and tasks that lead to what was ahead.*)
LEMMA FlushCarries ==
  ASSUME NEW S, LowInv(S), phase = "lower", todo # <<>>, Task.kind # "start", Unclobbered,
         NEW K, NEW Q, NEW N, NEW x, Follows(K, Q, N, x), x.live,
         NEW stmts, NEW term, term # Unreachable,
         NEW new, IsSeq(new), blocks' = Flushed(stmts, term) \o new,
         NEW M, DOMAIN M = 1 .. Len(blocks) + Len(new), Extends(K, M),
         NEW m, Finishes(x.src, stmts, m),
         NEW E, E = Busy \cup Filled(new), NEW F, F = E \cup x.due \cup Bare(new),
         Closes(M, F, m, term),
         \A i \in DOMAIN new :
           new[i].term # Unreachable => Realizes(M, F, M[Len(blocks) + i], new[i]),
         NEW z, Thread(K, Busy, Rest, z, Last),
         NEW p, todo' = p \o Rest,
         NEW y, Thread(M, E, p, y, z), cur' \notin y.due, cur_stmts' = <<>>,
         \/ y.live /\ y.due \cup {cur'} = x.due \cup Bare(new) /\ M[cur'] = y.src
         \/ ~y.live /\ y.due = x.due \cup Bare(new),
         InLoops(y)', UNCHANGED <<program, src, at, pos>>
  PROVE  Followed'
<1>0. PICK L \in Nat, n \in Nat :
        /\ L = Len(blocks) /\ DOMAIN blocks = 1 .. L
        /\ n = Len(new) /\ DOMAIN new = 1 .. n
  BY Here, IsSeqLen
<1>1. Graph /\ IsSeq(blocks) /\ cur \in 1 .. L /\ Open(cur)
  BY <1>0, Here
<1> PICK base : base = Flushed(stmts, term)
  OBVIOUS
<1>2. /\ DOMAIN base = 1 .. L /\ base = [b \in DOMAIN base |-> base[b]]
      /\ base[cur] = Block(cur_stmts \o stmts, term)
      /\ \A b \in DOMAIN blocks \ {cur} : base[b] = blocks[b]
  BY <1>0, <1>1 DEF Flushed
<1>3. IsSeq(base) /\ Len(base) = L
  BY <1>0, <1>2, Mapped
<1>4. Joins(blocks', base, new)
  BY <1>3, Joined
<1>5. /\ DOMAIN blocks' = 1 .. L + n
      /\ \A b \in DOMAIN blocks \ {cur} : blocks'[b] = blocks[b]
      /\ blocks'[cur] = Block(cur_stmts \o stmts, term)
      /\ \A i \in 1 .. n : blocks'[L + i] = new[i]
  <2>1. DOMAIN blocks' = 1 .. L + n
    <3>1. IsSeq(blocks') /\ Len(blocks') = L + n
      BY <1>0, <1>3, <1>4 DEF Joins
    <3> QED
      BY <3>1, IsSeqLen
  <2>2. \A b \in DOMAIN blocks : blocks'[b] = base[b]
    BY <1>0, <1>2, <1>4 DEF Joins
  <2>3. \A i \in 1 .. n : blocks'[L + i] = new[i]
    BY <1>0, <1>3, <1>4 DEF Joins
  <2> QED
    BY <1>0, <1>1, <1>2, <2>1, <2>2, <2>3
<1>6. \A b \in 1 .. L + n : b \in 1 .. L \/ \E i \in 1 .. n : b = L + i
  <2> SUFFICES ASSUME NEW b \in 1 .. L + n, b \notin 1 .. L PROVE \E i \in 1 .. n : b = L + i
    OBVIOUS
  <2>1. b - L \in 1 .. n /\ b = L + (b - L)
    OBVIOUS
  <2> QED
    BY <2>1
<1>7. Unfinished = x.due \cup {cur} /\ cur \notin x.due
  BY DEF Follows, Stands
<1>8. Unfinished' = x.due \cup Bare(new)
  <2>1. \A b \in 1 .. L : b \in Unfinished' <=> b \in x.due
    <3> SUFFICES ASSUME NEW b \in 1 .. L PROVE b \in Unfinished' <=> b \in x.due
      OBVIOUS
    <3>1. b \in Unfinished' <=> blocks'[b].term = Unreachable
      <4>1. b \in DOMAIN blocks'
        BY <1>5
      <4> QED
        BY <4>1 DEF Unfinished, Open
    <3>2. b \in Unfinished <=> blocks[b].term = Unreachable
      BY <1>0 DEF Unfinished, Open
    <3>3. CASE b = cur
      <4>1. blocks'[b].term = term
        BY <1>5, <3>3 DEF Block
      <4> QED
        BY <1>7, <3>1, <3>3, <4>1
    <3>4. CASE b # cur
      BY <1>0, <1>5, <1>7, <3>1, <3>2, <3>4
    <3> QED
      BY <3>3, <3>4
  <2>2. \A i \in 1 .. n : L + i \in Unfinished' <=> new[i].term = Unreachable
    <3> SUFFICES ASSUME NEW i \in 1 .. n PROVE L + i \in Unfinished' <=> new[i].term = Unreachable
      OBVIOUS
    <3>1. L + i \in DOMAIN blocks'
      BY <1>5
    <3> QED
      BY <1>5, <3>1 DEF Unfinished, Open
  <2>3. Unfinished' \subseteq 1 .. L + n /\ x.due \subseteq 1 .. L
    BY <1>0, <1>5, <1>7 DEF Unfinished
  <2>4. \A i \in 1 .. n : L + i \in Bare(new) <=> new[i].term = Unreachable
    <3> SUFFICES ASSUME NEW i \in 1 .. n
                 PROVE  L + i \in Bare(new) <=> new[i].term = Unreachable
      OBVIOUS
    <3>1. \A j \in 1 .. n : L + i = L + j => i = j
      OBVIOUS
    <3> QED
      BY <1>0, <3>1 DEF Bare
  <2>5. Bare(new) \subseteq 1 .. L + n /\ \A b \in 1 .. L : b \notin Bare(new)
    BY <1>0 DEF Bare
  <2>6. \A b \in 1 .. L + n : b \in Unfinished' <=> b \in x.due \cup Bare(new)
    <3> SUFFICES ASSUME NEW b \in 1 .. L + n PROVE b \in Unfinished' <=> b \in x.due \cup Bare(new)
      OBVIOUS
    <3>1. CASE b \in 1 .. L
      BY <2>1, <2>5, <3>1
    <3>2. CASE \E i \in 1 .. n : b = L + i
      <4> PICK i \in 1 .. n : b = L + i
        BY <3>2
      <4>1. b \notin x.due
        BY <2>3
      <4> QED
        BY <2>2, <2>4, <4>1
    <3> QED
      BY <1>6, <3>1, <3>2
  <2>7. x.due \cup Bare(new) \subseteq 1 .. L + n
    BY <2>3, <2>5
  <2>8. \A b : b \in Unfinished' <=> b \in x.due \cup Bare(new)
    BY <2>3, <2>6, <2>7
  <2> QED
    BY <2>8
<1>9. Busy \cup Filled(new) \subseteq Busy'
  <2>1. ASSUME NEW b \in Busy PROVE b \in Busy'
    <3>1. b \in DOMAIN blocks /\ blocks'[b] = blocks[b] /\ b \in DOMAIN blocks'
      BY <1>0, <1>5 DEF Unclobbered, Busy
    <3> QED
      BY <3>1 DEF Busy, Open
  <2>2. ASSUME NEW i \in 1 .. n, new[i].term # Unreachable, new[i].stmts # <<>>
        PROVE  L + i \in Busy'
    <3>1. L + i \in 1 .. L + n
      OBVIOUS
    <3>2. L + i \in DOMAIN blocks' /\ blocks'[L + i] = new[i]
      BY <1>5, <3>1
    <3> QED
      BY <2>2, <3>2 DEF Busy, Open
  <2> QED
    BY <1>0, <2>1, <2>2 DEF Filled
<1>10. F \subseteq Busy' \cup Unfinished'
  BY <1>8, <1>9
<1>11. Extends(M, M)
  BY DEF Extends
<1>12. ASSUME NEW b \in DOMAIN blocks', b \in DOMAIN blocks => Open(b), blocks'[b].term # Unreachable
       PROVE  Realizes(M, Busy' \cup Unfinished', M[b], blocks'[b])
  <2>1. CASE b \in 1 .. L
    <3>1. b = cur
      <4> SUFFICES ASSUME b # cur PROVE FALSE
        OBVIOUS
      <4>1. blocks'[b] = blocks[b] /\ Open(b)
        BY <1>0, <1>5, <1>12, <2>1
      <4> QED
        BY <1>12, <4>1 DEF Open
    <3>2. PICK l : Trace(K[cur], cur_stmts, l) /\ Path(l, x.src)
      BY DEF Follows, Stands
    <3>4. Realizes(M, F, K[cur], Block(cur_stmts \o stmts, term))
      BY <3>2, Ends
    <3>5. M[cur] = K[cur]
      BY <1>0, <1>1 DEF Follows, Extends
    <3>6. Realizes(M, F, M[b], blocks'[b])
      BY <1>5, <3>1, <3>4, <3>5
    <3> QED
      BY <1>10, <1>11, <3>6, RealizesGrows
  <2>2. CASE \E i \in 1 .. n : b = L + i
    <3> PICK i \in 1 .. n : b = L + i
      BY <2>2
    <3>1. blocks'[b] = new[i] /\ i \in DOMAIN new
      BY <1>0, <1>5
    <3>2. Realizes(M, F, M[Len(blocks) + i], new[i])
      BY <1>12, <3>1
    <3>3. Realizes(M, F, M[b], blocks'[b])
      BY <1>0, <3>1, <3>2
    <3> QED
      BY <1>10, <1>11, <3>3, RealizesGrows
  <2> QED
    BY <1>5, <1>6, <2>1, <2>2
<1>13. Thread(M, Busy', p, y, z)
  BY <1>9, <1>11, ThreadGrows
<1>14. Stands(M, y)'
  <2>1. CASE y.live
    <3>1. Trace(M[cur'], cur_stmts', M[cur'])
      BY TraceNone
    <3>2. Path(M[cur'], y.src)
      BY <2>1, PathSelf
    <3> QED
      BY <1>8, <2>1, <3>1, <3>2 DEF Stands
  <2>2. CASE ~y.live
    BY <1>8, <2>2 DEF Stands
  <2> QED
    BY <2>1, <2>2
<1>15. DOMAIN M = DOMAIN blocks'
  BY <1>0, <1>5
<1>16. \E R, T : Follows(M, R, T, y)'
  BY <1>12, <1>13, <1>14, <1>15, Carries
<1> QED
  BY <1>16 DEF Followed

(* A jump to where the source goes on.                                     *)
LEMMA GotoCloses ==
  ASSUME NEW K, NEW F, NEW l, NEW b \in DOMAIN K, NEW u, Path(l, u),
         Skips(u) \/ Moves(u, K[b]) \/ (u = K[b] /\ b \in F)
  PROVE  Closes(K, F, l, Goto(b)) /\ Goto(b) # Unreachable
<1>1. \E v : /\ Goto(b) = Goto(b) /\ Path(l, v)
             /\ Skips(v) \/ Moves(v, K[b]) \/ (v = K[b] /\ b \in F)
  OBVIOUS
<1>2. \E a \in DOMAIN K : \E v :
        /\ Goto(b) = Goto(a) /\ Path(l, v)
        /\ Skips(v) \/ Moves(v, K[a]) \/ (v = K[a] /\ a \in F)
  BY <1>1
<1>3. Goto(b) # Unreachable
  BY DEF Goto, Unreachable
<1> QED
  BY <1>2, <1>3 DEF Closes

(* A statement that is at hand is what the source has to do next.          *)
LEMMA Next1 ==
  ASSUME NEW t, NEW K, NEW x, NEW z, Valid(K, x), Valid(K, z), Does(t, x, z)
  PROVE  /\ x.live /\ x.src = <<t>> \o z.src /\ x.loops = z.loops /\ x.due = z.due
         /\ IsSeq(z.src) /\ z.live
<1>1. x = St(TRUE, <<t>> \o z.src, z.loops, z.due) /\ z.live
  BY DEF Does
<1>2. x.live = TRUE /\ x.src = <<t>> \o z.src /\ x.loops = z.loops /\ x.due = z.due
  BY <1>1 DEF St
<1>3. IsSeq(z.src) /\ z = St(z.live, z.src, z.loops, z.due) /\ z.live = TRUE
  BY <1>1 DEF Valid
<1> QED
  BY <1>2, <1>3, Consed

(* Statements without control flow.                                        *)
LEMMA DoCarries ==
  ASSUME NEW S, LowInv(S), Followed, LowerDo
  PROVE  Followed'
<1>1. /\ phase = "lower" /\ todo # <<>> /\ Task.kind = "do"
      /\ cur_stmts' = Append(cur_stmts, Task.event) /\ todo' = Rest
      /\ UNCHANGED <<blocks, cur, loop_ctx, program, src, at, pos>>
  BY DEF LowerDo, At, Lowers, runVars
<1> PICK K, Q, N, x : Follows(K, Q, N, x)
  BY DEF Followed
<1>2. PICK z : Thread(K, Busy, Rest, z, Last) /\ Valid(K, x) /\ Valid(K, z) /\ Does(Task, x, z)
  BY <1>1, AtHand DEF Plain
<1> PICK t : t = Task
  OBVIOUS
<1>3. /\ x.live /\ x.src = <<t>> \o z.src /\ x.loops = z.loops /\ x.due = z.due
      /\ x.src # <<>> /\ Head(x.src) = t /\ Tail(x.src) = z.src /\ IsSeq(z.src) /\ z.live
  <2>1. /\ x.live /\ x.src = <<t>> \o z.src /\ x.loops = z.loops /\ x.due = z.due
        /\ IsSeq(z.src) /\ z.live
    BY <1>2, Next1
  <2> QED
    BY <2>1, Consed
<1>4. PICK l : Trace(K[cur], cur_stmts, l) /\ Path(l, x.src)
  BY <1>3 DEF Follows, Stands
<1>5. Sees(x.src, t.event, z.src)
  <2>1. t.kind = "do"
    BY <1>1
  <2>2. NextOf(x.src) = <<"do", t.event>>
    BY <1>3, <2>1 DEF NextOf
  <2>3. <<>> \o z.src = z.src
    BY <1>3, ConcatEmptySeq DEF IsSeq
  <2> QED
    BY <1>3, <2>1, <2>2, <2>3 DEF Sees
<1>6. Trace(K[cur], Append(cur_stmts, t.event), z.src)
  BY <1>4, <1>5, TraceMore
<1>7. Stands(K, z)'
  <2>1. Unfinished' = Unfinished
    BY <1>1 DEF Unfinished, Open
  <2>2. Trace(K[cur'], cur_stmts', z.src) /\ Path(z.src, z.src)
    BY <1>1, <1>6, PathSelf
  <2> QED
    BY <1>1, <1>3, <2>1, <2>2 DEF Follows, Stands
<1>8. InLoops(z)'
  BY <1>1, <1>3 DEF Follows, InLoops
<1> QED
  BY <1>1, <1>2, <1>7, <1>8, QuietCarries

(* A break or a continue outside of every loop.                            *)
LEMMA StrayCarries ==
  ASSUME NEW S, LowInv(S), Followed, LowerStray
  PROVE  Followed'
<1>1. /\ phase = "lower" /\ todo # <<>> /\ Task.kind \in {"break", "continue"}
      /\ todo' = Rest /\ loop_ctx = <<>>
      /\ UNCHANGED <<blocks, cur, cur_stmts, loop_ctx, program, src, at, pos>>
  BY DEF LowerStray, At, Lowers, runVars
<1> PICK K, Q, N, x : Follows(K, Q, N, x)
  BY DEF Followed
<1>2. PICK z : Thread(K, Busy, Rest, z, Last) /\ Valid(K, x) /\ Valid(K, z) /\ Does(Task, x, z)
  BY <1>1, AtHand DEF Plain
<1>3. /\ x.live /\ x.src = <<Task>> \o z.src /\ x.loops = z.loops /\ x.due = z.due
      /\ IsSeq(z.src) /\ z.live
  BY <1>2, Next1
<1>4. x.loops = <<>>
  <2>1. Len(x.loops) = 0 /\ IsSeq(x.loops)
    BY <1>1, <1>2, EmptySeq DEF Follows, InLoops, Valid
  <2> QED
    BY <2>1, IsSeqLen
<1>5. NoEnds(<<Task>> \o z.src)
  BY <1>2, <1>3, <1>4 DEF Valid, Within
<1>6. Moves(x.src, z.src)
  BY <1>1, <1>3, <1>5, StrayMoves
<1>7. Stands(K, z)'
  <2>1. Unfinished' = Unfinished
    BY <1>1 DEF Unfinished, Open
  <2>2. PICK l : Trace(K[cur], cur_stmts, l) /\ Path(l, x.src)
    BY <1>3 DEF Follows, Stands
  <2>3. Path(l, z.src)
    BY <1>6, <2>2, PathMoves
  <2> QED
    BY <1>1, <1>3, <2>1, <2>2, <2>3 DEF Follows, Stands
<1>8. InLoops(z)'
  BY <1>1, <1>3 DEF Follows, InLoops
<1> QED
  BY <1>1, <1>2, <1>7, <1>8, QuietCarries

(* The end of a loop's body: the next iteration is ahead.                  *)
LEMMA LeaveCarries ==
  ASSUME NEW S, LowInv(S), Followed, PopLoop
  PROVE  Followed'
<1>1. /\ phase = "lower" /\ todo # <<>> /\ Task.kind = "leave" /\ todo' = Rest
      /\ loop_ctx' = Seqs!Front(loop_ctx)
      /\ UNCHANGED <<blocks, cur, cur_stmts, program, src, at, pos>>
  BY DEF PopLoop, At, Lowers, runVars
<1> PICK K, Q, N, x : Follows(K, Q, N, x)
  BY DEF Followed
<1>2. PICK z : Thread(K, Busy, Rest, z, Last) /\ Valid(K, x) /\ Valid(K, z) /\ Leaves(Task, x, z)
  BY <1>1, AtHand
<1> PICK l : l = Seqs!Last(x.loops)
  OBVIOUS
<1>3. /\ x.live /\ x.loops # <<>> /\ x.src = Ending(l)
      /\ z = St(TRUE, Unfolded(EndOf(l.loop)) \o l.after, Seqs!Front(x.loops), x.due)
  BY <1>2 DEF Leaves
<1>4. /\ z.live = TRUE /\ z.src = Unfolded(EndOf(l.loop)) \o l.after
      /\ z.loops = Seqs!Front(x.loops) /\ z.due = x.due
  BY <1>3 DEF St
<1>5. LoopOK(K, l) /\ IsSeq(l.after)
  BY <1>2, <1>3, Innermost DEF LoopOK
<1>6. Moves(x.src, z.src)
  <2> PICK e : e = EndOf(l.loop)
    OBVIOUS
  <2>1. e.kind \in Structured
    BY DEF EndOf, Structured
  <2>2. Moves(<<e>> \o l.after, Unfolded(e) \o l.after)
    BY <1>5, <2>1, Unfolds
  <2> QED
    BY <1>3, <1>4, <2>2 DEF Ending
<1>7. Stands(K, z)'
  <2>1. Unfinished' = Unfinished
    BY <1>1 DEF Unfinished, Open
  <2>2. PICK k : Trace(K[cur], cur_stmts, k) /\ Path(k, x.src)
    BY <1>3 DEF Follows, Stands
  <2>3. Path(k, z.src)
    BY <1>6, <2>2, PathMoves
  <2> QED
    BY <1>1, <1>3, <1>4, <2>1, <2>2, <2>3 DEF Follows, Stands
<1>8. InLoops(z)'
  <2>1. IsSeq(x.loops) /\ IsSeq(loop_ctx) /\ Len(x.loops) = Len(loop_ctx) /\ Len(x.loops) \in Nat
    BY <1>1, <1>2, IsSeqLen, Here DEF Valid, Follows, InLoops
  <2>2. loop_ctx # <<>>
    BY <1>3, <2>1, IsSeqLen
  <2>3. /\ IsSeq(Seqs!Front(x.loops)) /\ Len(Seqs!Front(x.loops)) = Len(x.loops) - 1
        /\ \A i \in DOMAIN Seqs!Front(x.loops) : Seqs!Front(x.loops)[i] = x.loops[i]
    BY <1>3, <2>1, Fronted
  <2>4. /\ IsSeq(loop_ctx') /\ Len(loop_ctx') = Len(loop_ctx) - 1
        /\ \A i \in DOMAIN loop_ctx' : loop_ctx'[i] = loop_ctx[i] /\ i \in DOMAIN loop_ctx
    BY <1>1, <2>1, <2>2, Fronted, IsSeqLen
  <2>5. \A i \in DOMAIN loop_ctx' : /\ z.loops[i].header = loop_ctx'[i].header
                                    /\ z.loops[i].exit = loop_ctx'[i].exit
    <3> SUFFICES ASSUME NEW i \in DOMAIN loop_ctx'
                 PROVE  /\ z.loops[i].header = loop_ctx'[i].header
                        /\ z.loops[i].exit = loop_ctx'[i].exit
      OBVIOUS
    <3>1. i \in DOMAIN Seqs!Front(x.loops)
      BY <2>1, <2>3, <2>4, IsSeqLen
    <3>2. z.loops[i] = x.loops[i] /\ loop_ctx'[i] = loop_ctx[i] /\ i \in DOMAIN loop_ctx
      BY <1>4, <2>3, <2>4, <3>1
    <3> QED
      BY <3>2 DEF Follows, InLoops
  <2>6. Len(z.loops) = Len(loop_ctx')
    BY <1>4, <2>1, <2>3, <2>4
  <2> QED
    BY <2>5, <2>6 DEF InLoops
<1> QED
  BY <1>1, <1>2, <1>7, <1>8, QuietCarries

(* start_block.                                                            *)
LEMMA StartCarries ==
  ASSUME NEW S, LowInv(S), Followed, StartBlock
  PROVE  Followed'
<1>1. /\ phase = "lower" /\ todo # <<>> /\ Task.kind = "start" /\ todo' = Rest
      /\ cur' = Task.block
      /\ UNCHANGED <<blocks, cur_stmts, loop_ctx, program, src, at, pos>>
  BY DEF StartBlock, At, Lowers, runVars
<1> PICK K, Q, N, x : Follows(K, Q, N, x)
  BY DEF Followed
<1>2. PICK z : Thread(K, Busy, Rest, z, Last) /\ Valid(K, x) /\ Valid(K, z) /\ Starts(K, Task, x, z)
  BY <1>1, AtHand
<1> PICK b : b = Task.block
  OBVIOUS
<1>3. ~x.live /\ b \in x.due /\ z = St(TRUE, K[b], x.loops, x.due \ {b})
  BY <1>2 DEF Starts
<1>4. z.live = TRUE /\ z.src = K[b] /\ z.loops = x.loops /\ z.due = x.due \ {b}
  BY <1>3 DEF St
<1>5. Stands(K, z)'
  <2>1. Unfinished' = Unfinished
    BY <1>1 DEF Unfinished, Open
  <2>2. Unfinished = x.due /\ cur_stmts = <<>>
    BY <1>3 DEF Follows, Stands
  <2>3. Trace(K[b], <<>>, K[b]) /\ Path(K[b], z.src)
    BY <1>4, TraceNone, PathSelf
  <2> QED
    BY <1>1, <1>3, <1>4, <2>1, <2>2, <2>3 DEF Stands
<1>6. InLoops(z)'
  BY <1>1, <1>4 DEF Follows, InLoops
<1> QED
  BY <1>1, <1>2, <1>5, <1>6, QuietCarries

(* flush with a jump.                                                      *)
LEMMA JumpCarries ==
  ASSUME NEW S, LowInv(S), Unclobbered, Followed, TakeJump
  PROVE  Followed'
<1>1. /\ phase = "lower" /\ todo # <<>> /\ Task.kind = "jump" /\ todo' = Rest
      /\ blocks' = Flushed(<<>>, Goto(Task.block)) /\ cur_stmts' = <<>>
      /\ UNCHANGED <<cur, loop_ctx, program, src, at, pos>>
  BY DEF TakeJump, At, Lowers, runVars
<1> PICK K, Q, N, x : Follows(K, Q, N, x)
  BY DEF Followed
<1>2. PICK z : Thread(K, Busy, Rest, z, Last) /\ Valid(K, x) /\ Valid(K, z) /\ Jumps(K, Busy, Task, x, z)
  BY <1>1, AtHand
<1> PICK b : b = Task.block
  OBVIOUS
<1>3. /\ x.live /\ b \in DOMAIN K
      /\ Moves(x.src, K[b]) \/ (K[b] = x.src /\ b \in Busy \cup x.due)
  BY <1>2 DEF Jumps
<1>4. z.live = FALSE /\ z.loops = x.loops /\ z.due = x.due
  BY <1>2 DEF Jumps, St
<1> PICK e : e = <<>>
  OBVIOUS
<1>5. /\ IsSeq(e) /\ Len(e) = 0 /\ DOMAIN e = {} /\ e \o Rest = Rest
      /\ blocks' = Flushed(e, Goto(b)) \o e
  <2>1. IsSeq(e) /\ Len(e) = 0 /\ DOMAIN e = {}
    BY EmptySeq DEF IsSeq
  <2>2. e \o Rest = Rest
    BY <1>1, TodoIs
  <2>3. Flushed(e, Goto(b)) \o e = Flushed(e, Goto(b))
    <3> PICK f : f = Flushed(e, Goto(b))
      OBVIOUS
    <3>1. DOMAIN f = 1 .. Len(blocks) /\ f = [i \in DOMAIN f |-> f[i]] /\ Len(blocks) \in Nat
      BY <1>1, Here DEF Flushed
    <3>2. IsSeq(f)
      BY <3>1, Mapped
    <3>3. f \o <<>> = f
      BY <3>2, ConcatEmptySeq DEF IsSeq
    <3> QED
      BY <3>3
  <2> QED
    BY <1>1, <2>1, <2>2, <2>3
<1>6. Filled(e) = {} /\ Bare(e) = {}
  BY <1>5 DEF Filled, Bare
<1>7. DOMAIN K = 1 .. Len(blocks) + Len(e) /\ Extends(K, K)
  <2>1. DOMAIN K = 1 .. Len(blocks) /\ Len(blocks) + 0 = Len(blocks)
    BY <1>1, Here DEF Follows
  <2> QED
    BY <1>5, <2>1 DEF Extends
<1>7a. PICK E, F : E = Busy \cup Filled(e) /\ F = E \cup x.due \cup Bare(e)
  OBVIOUS
<1>8. Closes(K, F, x.src, Goto(b)) /\ Goto(b) # Unreachable
  <2>0. PICK s : s = x.src
    OBVIOUS
  <2>1. Path(s, s)
    BY PathSelf
  <2>2. b \in Busy \cup x.due => b \in F
    BY <1>7a
  <2>3. b \in DOMAIN K /\ (Moves(s, K[b]) \/ (s = K[b] /\ b \in F))
    BY <1>3, <2>0, <2>2
  <2>4. Closes(K, F, s, Goto(b)) /\ Goto(b) # Unreachable
    BY <2>1, <2>3, GotoCloses
  <2> QED
    BY <2>0, <2>4
<1>9. Finishes(x.src, e, x.src)
  BY DEF Finishes
<1>10. Thread(K, E, e, z, z)
  BY <1>2, ThreadNone
<1>11. InLoops(z)'
  BY <1>1, <1>4 DEF Follows, InLoops
<1>12. cur' \notin z.due
  BY <1>1, <1>4 DEF Follows, Stands
<1>13. ~z.live /\ z.due = x.due \cup Bare(e)
  BY <1>4, <1>6
<1>14. todo' = e \o Rest
  BY <1>1, <1>5
<1>15. \A i \in DOMAIN e : e[i].term # Unreachable => Realizes(K, F, K[Len(blocks) + i], e[i])
  BY <1>5
<1> QED
  BY <1>1, <1>2, <1>3, <1>5, <1>7, <1>7a, <1>8, <1>9, <1>10, <1>11, <1>12, <1>13, <1>14, <1>15,
     FlushCarries

(* What leaves the block for good goes on where the source does; the dead  *)
(* block behind it begins where the statements go on.                      *)
LEMMA TerminateCarries ==
  ASSUME NEW S, LowInv(S), Unclobbered, phase = "lower", todo # <<>>, Task.kind \in Plain,
         NEW stmts, NEW term, Terminate(stmts, term), term # Unreachable,
         NEW K, NEW Q, NEW N, NEW x, Follows(K, Q, N, x),
         NEW z, Thread(K, Busy, Rest, z, Last), Valid(K, x), Valid(K, z), Does(Task, x, z),
         NEW m, Finishes(x.src, stmts, m), Closes(K, {}, m, term)
  PROVE  Followed'
<1>1. /\ blocks' = Append(Flushed(stmts, term), Placeholder) /\ cur' = New(1) /\ cur_stmts' = <<>>
      /\ todo' = Rest /\ UNCHANGED <<loop_ctx, program, src, at, pos>>
  BY DEF Terminate, Lowers, runVars
<1>2. /\ x.live /\ x.loops = z.loops /\ x.due = z.due /\ z.live
  BY Next1, ZenonT(40)
<1>3. PICK L \in Nat : L = Len(blocks) /\ DOMAIN blocks = 1 .. L /\ DOMAIN K = 1 .. L /\ New(1) = L + 1
  BY Here DEF Follows, New
<1>4. PICK new : new = <<Placeholder>>
  OBVIOUS
<1>5. IsSeq(new) /\ Len(new) = 1 /\ DOMAIN new = {1} /\ new[1] = Placeholder
  BY <1>4, One
<1>6. blocks' = Flushed(stmts, term) \o new
  <2> PICK f : f = Flushed(stmts, term)
    OBVIOUS
  <2>1. DOMAIN f = 1 .. L /\ f = [i \in DOMAIN f |-> f[i]]
    BY <1>3 DEF Flushed
  <2>2. IsSeq(f)
    BY <2>1, Mapped
  <2>3. Append(f, Placeholder) = f \o <<Placeholder>>
    BY <2>2, AppendIs
  <2> QED
    BY <1>1, <1>4, <2>3
<1>7. Filled(new) = {} /\ Bare(new) = {L + 1}
  BY <1>3, <1>5 DEF Filled, Bare, Placeholder, Block
<1>8. PICK M : DOMAIN M = 1 .. L + 1 /\ Extends(K, M) /\ M[L + 1] = z.src
  <2>0. PICK add : add = [i \in {1} |-> z.src]
    OBVIOUS
  <2>m. PICK M : M = Longer(K, L, 1, add)
    OBVIOUS
  <2>n. DOMAIN K = 1 .. L /\ 1 \in Nat
    BY <1>3
  <2>1. DOMAIN M = 1 .. L + 1 /\ Extends(K, M) /\ \A i \in 1 .. 1 : M[L + i] = add[i]
    BY <2>m, <2>n, More
  <2>2. M[L + 1] = z.src
    BY <2>0, <2>1
  <2> QED
    BY <2>1, <2>2
<1>9. PICK E, F : E = Busy \cup Filled(new) /\ F = E \cup x.due \cup Bare(new)
  OBVIOUS
<1>10. Closes(M, F, m, term)
  BY <1>8, ClosesGrows
<1>11. \A i \in DOMAIN new : new[i].term # Unreachable => Realizes(M, F, M[Len(blocks) + i], new[i])
  BY <1>5 DEF Placeholder, Block
<1>12. PICK p : p = <<>> /\ todo' = p \o Rest
  BY <1>1, TodoIs
<1>13. Thread(M, E, p, z, z)
  <2>1. Valid(M, z)
    BY <1>8, ValidGrows
  <2> QED
    BY <1>12, <2>1, ThreadNone
<1>14. z.due \subseteq 1 .. L
  BY <1>3 DEF Valid
<1>15. cur' \notin z.due /\ z.due \cup {cur'} = x.due \cup Bare(new) /\ M[cur'] = z.src
  BY <1>1, <1>2, <1>3, <1>7, <1>8, <1>14
<1>15a. \/ z.live /\ z.due \cup {cur'} = x.due \cup Bare(new) /\ M[cur'] = z.src
        \/ ~z.live /\ z.due = x.due \cup Bare(new)
  BY <1>2, <1>15
<1>15b. cur' \notin z.due
  BY <1>15
<1>16. InLoops(z)'
  BY <1>1, <1>2 DEF Follows, InLoops
<1>17. DOMAIN M = 1 .. Len(blocks) + Len(new)
  BY <1>3, <1>5, <1>8
<1>18. Task.kind # "start"
  BY DEF Plain
<1> QED
  <2>1. IsSeq(new) /\ todo' = p \o Rest /\ cur_stmts' = <<>> /\ x.live /\ Extends(K, M)
    BY <1>1, <1>2, <1>5, <1>8, <1>12
  <2>2. UNCHANGED <<program, src, at, pos>>
    BY <1>1
  <2> QED
    BY <1>6, <1>9, <1>10, <1>11, <1>13, <1>15a, <1>15b, <1>16, <1>17, <1>18, <2>1, <2>2,
       FlushCarries

(* A return, with a value that is computed first or without one.           *)
LEMMA ReturnCarries ==
  ASSUME NEW S, LowInv(S), Unclobbered, Followed, LowerReturn
  PROVE  Followed'
<1>1. /\ phase = "lower" /\ todo # <<>> /\ Task.kind = "return" /\ Task.kind \in Plain
      /\ Terminate(IF Task.value THEN <<"value">> ELSE <<>>, Returns(Task.value))
  BY DEF LowerReturn, At, Plain
<1> PICK K, Q, N, x : Follows(K, Q, N, x)
  BY DEF Followed
<1>2. PICK z : Thread(K, Busy, Rest, z, Last) /\ Valid(K, x) /\ Valid(K, z) /\ Does(Task, x, z)
  BY <1>1, AtHand
<1>3. PICK t, v : t = Task /\ v = t.value
  OBVIOUS
<1>4. /\ x.src = <<t>> \o z.src /\ IsSeq(z.src) /\ t.kind = "return"
      /\ x.src # <<>> /\ Head(x.src) = t /\ Tail(x.src) = z.src
  <2>1. x.src = <<t>> \o z.src /\ IsSeq(z.src)
    BY <1>2, <1>3, Next1
  <2> QED
    BY <1>1, <1>3, <2>1, Consed
<1>5. PICK stmts : stmts = IF v THEN <<"value">> ELSE <<>>
  OBVIOUS
<1>6. v \in BOOLEAN
  <2>1. Task \in S
    BY <1>1, Here DEF TaskOK
  <2>2. Grammar(S)
    BY DEF LowInv
  <2> QED
    BY <1>1, <1>3, <2>1, <2>2 DEF Grammar
<1>7. Returns(v) # Unreachable
  BY DEF Returns, Unreachable
<1>8. \E m : Finishes(x.src, stmts, m) /\ Closes(K, {}, m, Returns(v))
  <2>1. CASE v
    <3>1. PICK m : m = <<[kind |-> "handed"]>> \o z.src
      OBVIOUS
    <3>2. m # <<>> /\ Head(m) = [kind |-> "handed"]
      BY <1>4, <3>1, Consed
    <3>3. NextOf(x.src) = <<"do", "value">>
      BY <1>3, <1>4, <2>1 DEF NextOf
    <3>4. Sees(x.src, "value", m)
      BY <1>4, <3>1, <3>3 DEF Sees
    <3>5. Finishes(x.src, stmts, m)
      BY <1>5, <2>1, <3>4, PathSelf DEF Finishes
    <3>6. NextOf(m) = <<"return", v>>
      <4>1. v = TRUE
        BY <1>6, <2>1
      <4>2. m # <<>> /\ Head(m).kind = "handed"
        BY <3>2
      <4>3. NextOf(m) = <<"return", TRUE>>
        BY <4>2 DEF NextOf
      <4> QED
        BY <4>1, <4>3
    <3>7. Closes(K, {}, m, Returns(v))
      BY <3>6, PathSelf DEF Closes
    <3> QED
      BY <3>5, <3>7
  <2>2. CASE ~v
    <3>1. Finishes(x.src, stmts, x.src)
      BY <1>5, <2>2 DEF Finishes
    <3>2. NextOf(x.src) = <<"return", v>>
      BY <1>3, <1>4, <1>6, <2>2 DEF NextOf
    <3>3. Closes(K, {}, x.src, Returns(v))
      BY <3>2, PathSelf DEF Closes
    <3> QED
      BY <3>1, <3>3
  <2> QED
    BY <2>1, <2>2
<1>9. PICK m : Finishes(x.src, stmts, m) /\ Closes(K, {}, m, Returns(v))
  BY <1>8
<1>10. Terminate(stmts, Returns(v))
  BY <1>1, <1>3, <1>5
<1> QED
  BY <1>1, <1>2, <1>7, <1>9, <1>10, TerminateCarries

(* A panic.                                                                *)
LEMMA PanicCarries ==
  ASSUME NEW S, LowInv(S), Unclobbered, Followed, LowerPanic
  PROVE  Followed'
<1>1. /\ phase = "lower" /\ todo # <<>> /\ Task.kind = "panic" /\ Task.kind \in Plain
      /\ Terminate(<<>>, Abort)
  BY DEF LowerPanic, At, Plain
<1> PICK K, Q, N, x : Follows(K, Q, N, x)
  BY DEF Followed
<1>2. PICK z : Thread(K, Busy, Rest, z, Last) /\ Valid(K, x) /\ Valid(K, z) /\ Does(Task, x, z)
  BY <1>1, AtHand
<1>3. PICK t : t = Task
  OBVIOUS
<1>4. t.kind = "panic" /\ x.src # <<>> /\ Head(x.src) = t
  <2>1. x.src = <<t>> \o z.src /\ IsSeq(z.src)
    BY <1>2, <1>3, Next1
  <2> QED
    BY <1>1, <1>3, <2>1, Consed
<1>5. NextOf(x.src) = <<"abort", FALSE>>
  BY <1>4 DEF NextOf
<1>6. Closes(K, {}, x.src, Abort)
  BY <1>5, PathSelf DEF Closes
<1>7. Finishes(x.src, <<>>, x.src) /\ Abort # Unreachable
  BY DEF Finishes, Abort, Unreachable
<1> QED
  BY <1>1, <1>2, <1>6, <1>7, TerminateCarries

(* A break or a continue in a loop.                                        *)
LEMMA ExitCarries ==
  ASSUME NEW S, LowInv(S), Unclobbered, Followed, LowerBreak \/ LowerContinue
  PROVE  Followed'
<1>1. /\ phase = "lower" /\ todo # <<>> /\ Task.kind \in Plain /\ loop_ctx # <<>>
      /\ \/ Task.kind = "break" /\ Terminate(<<>>, Goto(Seqs!Last(loop_ctx).exit))
         \/ Task.kind = "continue" /\ Terminate(<<>>, Goto(Seqs!Last(loop_ctx).header))
  BY DEF LowerBreak, LowerContinue, At, Plain
<1> PICK K, Q, N, x : Follows(K, Q, N, x)
  BY DEF Followed
<1>2. PICK z : Thread(K, Busy, Rest, z, Last) /\ Valid(K, x) /\ Valid(K, z) /\ Does(Task, x, z)
  BY <1>1, AtHand
<1>3. PICK t, l, s : t = Task /\ l = Seqs!Last(x.loops) /\ s = x.src
  OBVIOUS
<1>4. x.live /\ t.kind = Task.kind /\ s # <<>> /\ Head(s) = t
  <2>1. x.src = <<t>> \o z.src /\ IsSeq(z.src) /\ x.live
    BY <1>2, <1>3, Next1
  <2> QED
    BY <1>3, <2>1, Consed
<1>5. x.loops # <<>> /\ l.header = Seqs!Last(loop_ctx).header /\ l.exit = Seqs!Last(loop_ctx).exit
  <2>1. /\ IsSeq(x.loops) /\ IsSeq(loop_ctx) /\ Len(x.loops) = Len(loop_ctx)
    BY <1>1, <1>2, Here DEF Valid, Follows, InLoops
  <2>2. x.loops # <<>>
    BY <1>1, <2>1, IsSeqLen
  <2>3. l = x.loops[Len(x.loops)]
    BY <1>3, <2>1, <2>2, Fronted
  <2>4. Seqs!Last(loop_ctx) = loop_ctx[Len(loop_ctx)] /\ Len(loop_ctx) \in DOMAIN loop_ctx
    BY <1>1, <2>1, Fronted
  <2> QED
    BY <2>1, <2>2, <2>3, <2>4 DEF Follows, InLoops
<1>6. LoopOK(K, l)
  BY <1>2, <1>3, <1>5, Innermost
<1>7. /\ l.header \in DOMAIN K /\ l.exit \in DOMAIN K /\ IsSeq(l.after) /\ K[l.exit] = l.after
      /\ l.loop.kind \in {"while", "loop", "for"}
      /\ l.loop.kind # "for" => K[l.header] = Unfolded(l.loop) \o l.after
  BY <1>6 DEF LoopOK
<1>8. Within(s, x.loops)
  BY <1>2, <1>3, <1>4 DEF Valid
<1>9. /\ t.kind = "break" => Moves(s, l.after)
      /\ t.kind = "continue" =>
           (l.loop.kind = "for" /\ Skips(s)) \/ (l.loop.kind # "for" /\ Moves(s, Ending(l)))
  BY <1>3, <1>4, <1>5, <1>7, <1>8, LeavesLoop
<1>10. Finishes(x.src, <<>>, x.src)
  BY DEF Finishes
<1>11. CASE t.kind = "break"
  <2>1. Moves(s, K[l.exit])
    BY <1>7, <1>9, <1>11
  <2>2. Closes(K, {}, s, Goto(l.exit)) /\ Goto(l.exit) # Unreachable
    BY <1>7, <2>1, PathSelf, GotoCloses
  <2>3. Terminate(<<>>, Goto(l.exit))
    BY <1>1, <1>4, <1>5, <1>11
  <2> QED
    BY <1>1, <1>2, <1>3, <1>10, <2>2, <2>3, TerminateCarries
<1>12. CASE t.kind = "continue"
  <2>1. Closes(K, {}, s, Goto(l.header)) /\ Goto(l.header) # Unreachable
    <3>1. CASE l.loop.kind = "for"
      <4>1. Skips(s)
        BY <1>9, <1>12, <3>1
      <4> QED
        BY <1>7, <4>1, PathSelf, GotoCloses
    <3>2. CASE l.loop.kind # "for"
      <4>0. PICK u : u = <<l.loop>> \o l.after
        OBVIOUS
      <4>1. Moves(s, Ending(l))
        BY <1>9, <1>12, <3>2
      <4>2. Moves(Ending(l), u) /\ Moves(u, K[l.header])
        <5>1. l.loop.kind \in {"while", "loop"}
          BY <1>7, <3>2
        <5> QED
          BY <1>7, <3>2, <4>0, <5>1, Again
      <4>3. Path(s, u)
        BY <4>1, <4>2, PathSelf, PathMoves
      <4> QED
        BY <1>7, <4>2, <4>3, GotoCloses
    <3> QED
      BY <3>1, <3>2
  <2>2. Terminate(<<>>, Goto(l.header))
    BY <1>1, <1>4, <1>5, <1>12
  <2> QED
    BY <1>1, <1>2, <1>3, <1>10, <2>1, <2>2, TerminateCarries
<1> QED
  BY <1>1, <1>4, <1>11, <1>12

-----------------------------------------------------------------------------
(* An if becomes the first link of its chain; where it merges is allocated.*)
LEMMA IfCarries ==
  ASSUME NEW S, LowInv(S), Unclobbered, Followed, LowerIf
  PROVE  Followed'
<1>1. /\ phase = "lower" /\ todo # <<>> /\ Task.kind = "if" /\ Task.kind \in Plain
      /\ blocks' = blocks \o Fresh(1)
      /\ todo' = <<[kind |-> "link", arms |-> Task.arms, otherwise |-> Task.otherwise,
                    merge |-> New(1)]>> \o Rest
      /\ UNCHANGED <<cur, cur_stmts, loop_ctx, program, src, at, pos>>
  BY DEF LowerIf, At, Lowers, runVars, Plain
<1> PICK K, Q, N, x : Follows(K, Q, N, x)
  BY DEF Followed
<1>2. PICK z : Thread(K, Busy, Rest, z, Last) /\ Valid(K, x) /\ Valid(K, z) /\ Does(Task, x, z)
  BY <1>1, AtHand
<1>3. PICK t, k : /\ t = Task
                  /\ k = [kind |-> "link", arms |-> Task.arms, otherwise |-> Task.otherwise,
                          merge |-> New(1)]
  OBVIOUS
<1>4. /\ x.live /\ x.src = <<t>> \o z.src /\ x.loops = z.loops /\ x.due = z.due
      /\ IsSeq(z.src) /\ z.live
  BY <1>2, <1>3, Next1
<1>5. t = If(t.arms, t.otherwise)
  <2>1. Task \in S /\ Grammar(S)
    BY <1>1, Here DEF TaskOK, LowInv
  <2> QED
    BY <1>1, <1>3, <2>1 DEF Grammar
<1>6. PICK L \in Nat : L = Len(blocks) /\ DOMAIN blocks = 1 .. L /\ DOMAIN K = 1 .. L /\ New(1) = L + 1
  BY <1>1, Here DEF Follows, New
<1>7. PICK M : DOMAIN M = 1 .. L + 1 /\ Extends(K, M) /\ M[L + 1] = z.src
  <2>0. PICK add : add = [i \in {1} |-> z.src]
    OBVIOUS
  <2>m. PICK M : M = Longer(K, L, 1, add)
    OBVIOUS
  <2>n. DOMAIN K = 1 .. L /\ 1 \in Nat
    BY <1>6
  <2>1. DOMAIN M = 1 .. L + 1 /\ Extends(K, M) /\ \A i \in 1 .. 1 : M[L + i] = add[i]
    BY <2>m, <2>n, More
  <2>2. M[L + 1] = z.src
    BY <2>0, <2>1
  <2> QED
    BY <2>1, <2>2
<1>8. /\ DOMAIN blocks' = 1 .. L + 1 /\ blocks'[L + 1].term = Unreachable
      /\ \A b \in DOMAIN blocks : blocks'[b] = blocks[b]
  <2>1. /\ IsSeq(Fresh(1)) /\ Len(Fresh(1)) = 1 /\ DOMAIN Fresh(1) = 1 .. 1
        /\ Fresh(1)[1].term = Unreachable
    BY Placeholders
  <2>2. Joins(blocks', blocks, Fresh(1))
    BY <1>1, <2>1, Joined, Here
  <2>3. IsSeq(blocks') /\ Len(blocks') = L + 1
    BY <1>6, <2>1, <2>2 DEF Joins
  <2>4. DOMAIN blocks' = 1 .. L + 1
    BY <2>3, IsSeqLen
  <2>5. blocks'[L + 1] = Fresh(1)[1]
    BY <1>6, <2>1, <2>2 DEF Joins
  <2> QED
    BY <2>1, <2>2, <2>4, <2>5 DEF Joins
<1>9. PICK y, due : y = St(TRUE, x.src, x.loops, due) /\ due = x.due \cup {L + 1}
  OBVIOUS
<1>10. y.live = TRUE /\ y.src = x.src /\ y.loops = x.loops /\ y.due = x.due \cup {L + 1}
  BY <1>9 DEF St
<1>11. x.due \subseteq 1 .. L
  BY <1>2, <1>6 DEF Valid
<1>12. Valid(M, x) /\ Valid(M, z) /\ due \subseteq DOMAIN M
  BY <1>2, <1>7, <1>9, <1>11, ValidGrows
<1>13. Valid(M, y)
  <2>1. x = St(TRUE, x.src, x.loops, x.due)
    BY <1>2, <1>4 DEF Valid, Does, St
  <2>2. Valid(M, St(TRUE, x.src, x.loops, x.due))
    BY <1>12, <2>1
  <2> QED
    BY <1>9, <1>12, <2>2, ValidDue
<1>14. Thread(M, Busy', <<k>>, y, z)
  <2>1. k.kind = "link" /\ k.arms = t.arms /\ k.otherwise = t.otherwise /\ k.merge = L + 1
    BY <1>3, <1>6
  <2>2. y = St(TRUE, <<If(k.arms, k.otherwise)>> \o z.src, z.loops, y.due)
    <3>1. y = St(TRUE, x.src, x.loops, y.due)
      BY <1>9, <1>10
    <3>2. x.src = <<If(k.arms, k.otherwise)>> \o z.src
      BY <1>4, <1>5, <2>1
    <3> QED
      BY <1>4, <3>1, <3>2
  <2>3. z.due = y.due \ {L + 1} /\ L + 1 \in y.due
    BY <1>4, <1>10, <1>11
  <2>4. Links(M, k, y, z)
    BY <1>4, <1>7, <2>1, <2>2, <2>3 DEF Links
  <2>5. Goes(M, Busy', k, y, z)
    BY <1>12, <1>13, <2>4 DEF Goes
  <2> QED
    BY <2>5, ThreadOne
<1>15. Stands(M, y)'
  <2>1. Unfinished' = Unfinished \cup {L + 1}
    <3>1. \A b \in 1 .. L : b \in Unfinished' <=> b \in Unfinished
      BY <1>6, <1>8 DEF Unfinished, Open
    <3>2. L + 1 \in Unfinished'
      BY <1>8 DEF Unfinished, Open
    <3>3. Unfinished \subseteq 1 .. L /\ Unfinished' \subseteq 1 .. L + 1
      BY <1>6, <1>8 DEF Unfinished
    <3>4. \A b \in 1 .. L + 1 : b \in 1 .. L \/ b = L + 1
      OBVIOUS
    <3> QED
      BY <3>1, <3>2, <3>3, <3>4
  <2>2. cur \in 1 .. L
    BY <1>1, <1>6, Here
  <2>3. Unfinished' = y.due \cup {cur'} /\ cur' \notin y.due
    BY <1>1, <1>4, <1>10, <2>1, <2>2 DEF Follows, Stands
  <2>4. PICK l : Trace(K[cur], cur_stmts, l) /\ Path(l, x.src)
    BY <1>4 DEF Follows, Stands
  <2>5. M[cur'] = K[cur]
    BY <1>1, <1>6, <1>7, <2>2 DEF Extends
  <2> QED
    BY <1>1, <1>10, <2>3, <2>4, <2>5 DEF Stands
<1>16. InLoops(y)'
  BY <1>1, <1>10 DEF Follows, InLoops
<1>17. ASSUME NEW b \in DOMAIN blocks', b \in DOMAIN blocks => Open(b), blocks'[b].term # Unreachable
       PROVE  FALSE
  <2>1. CASE b \in DOMAIN blocks
    BY <1>8, <1>17, <2>1 DEF Open
  <2>2. CASE b = L + 1
    BY <1>8, <1>17, <2>2
  <2> QED
    BY <1>6, <1>8, <2>1, <2>2
<1>18. DOMAIN M = DOMAIN blocks' /\ todo' = <<k>> \o Rest
  BY <1>1, <1>3, <1>7, <1>8
<1>19. \E R, T : Follows(M, R, T, y)'
  <2>1. UNCHANGED <<program, src, at, pos>>
    BY <1>1
  <2>2. \A b \in DOMAIN blocks' :
          /\ b \in DOMAIN blocks => Open(b)
          /\ blocks'[b].term # Unreachable
          => Realizes(M, Busy' \cup Unfinished', M[b], blocks'[b])
    BY <1>17
  <2> QED
    BY <1>2, <1>7, <1>14, <1>15, <1>16, <1>18, <2>1, <2>2, Carries
<1> QED
  BY <1>19 DEF Followed

-----------------------------------------------------------------------------
(* A condition that is computed, then a choice between two ways on.        *)
LEMMA Branches ==
  ASSUME NEW e, NEW a, NEW b, NEW c, IsSeq(c)
  PROVE  /\ <<Do(e), Choice(<<a, b>>)>> \o c = <<Do(e)>> \o (<<Choice(<<a, b>>)>> \o c)
         /\ Sees(<<Do(e), Choice(<<a, b>>)>> \o c, e, <<Choice(<<a, b>>)>> \o c)
         /\ IsSeq(<<Choice(<<a, b>>)>> \o c)
<1>0. PICK d, h : d = Do(e) /\ h = Choice(<<a, b>>)
  OBVIOUS
<1>1. <<d, h>> \o c = <<d>> \o (<<h>> \o c)
  <2>0. PICK p, q : p = <<d>> /\ q = <<h>>
    OBVIOUS
  <2>1. IsSeq(p) /\ IsSeq(q)
    BY <2>0, One
  <2>2. (p \o q) \o c = p \o (q \o c)
    BY <2>1, Associated
  <2>3. p \o q = <<d, h>>
    BY <2>0, TwoIs
  <2> QED
    BY <2>0, <2>2, <2>3
<1>2. PICK m : m = <<h>> \o c
  OBVIOUS
<1>3. IsSeq(m)
  BY <1>2, Consed
<1>4. PICK u : u = <<d>> \o m
  OBVIOUS
<1>5. u # <<>> /\ Head(u) = d /\ Tail(u) = m
  BY <1>3, <1>4, Consed
<1>6. d.kind = "do" /\ d.event = e
  BY <1>0 DEF Do
<1>7. NextOf(u) = <<"do", e>>
  BY <1>5, <1>6 DEF NextOf
<1>8. <<>> \o m = m
  BY <1>3, ConcatEmptySeq DEF IsSeq
<1>9. Sees(u, e, m)
  BY <1>5, <1>6, <1>7, <1>8 DEF Sees
<1> QED
  BY <1>0, <1>1, <1>2, <1>3, <1>4, <1>9

(* The choice, where both blocks go on as they should.                     *)
LEMMA SwitchCloses ==
  ASSUME NEW K, NEW F, NEW a, NEW b, NEW c, IsSeq(c), NEW p \in DOMAIN K, NEW q \in DOMAIN K,
         K[p] = a \o c, K[q] = b \o c
  PROVE  /\ Closes(K, F, <<Choice(<<a, b>>)>> \o c, SwitchInt(<<p>>, q))
         /\ SwitchInt(<<p>>, q) # Unreachable
<1>0. PICK m, h, t : m = <<h>> \o c /\ h = Choice(<<a, b>>) /\ t = SwitchInt(<<p>>, q)
  OBVIOUS
<1>1. m # <<>> /\ Head(m) = h /\ Tail(m) = c
  BY <1>0, Consed
<1>2. /\ t.kind = "switch" /\ Len(t.to) = 2 /\ DOMAIN t.to = {1, 2} /\ t.to[1] = p /\ t.to[2] = q
  <2>1. t.kind = "switch" /\ t.to = Append(<<p>>, q)
    BY <1>0 DEF SwitchInt
  <2>2. Append(<<p>>, q) = <<p, q>>
    <3>1. IsSeq(<<p>>)
      BY One
    <3>2. Append(<<p>>, q) = <<p>> \o <<q>>
      BY <3>1, AppendIs
    <3> QED
      BY <3>2, TwoIs
  <2> QED
    BY <2>1, <2>2, Two
<1>3. h.kind = "choice" /\ h.alternatives = <<a, b>>
  BY <1>0 DEF Choice
<1>4. Len(h.alternatives) = 2 /\ h.alternatives[1] = a /\ h.alternatives[2] = b
  BY <1>3, Two
<1>5. NextOf(m) = <<"choice", Len(t.to)>>
  <2>1. NextOf(m) = <<"choice", Len(h.alternatives)>>
    BY <1>1, <1>3 DEF NextOf
  <2> QED
    BY <1>2, <1>4, <2>1
<1>6. \A n \in DOMAIN t.to : t.to[n] \in DOMAIN K /\ K[t.to[n]] = Head(m).alternatives[n] \o Tail(m)
  BY <1>1, <1>2, <1>4
<1>7. Closes(K, F, m, t)
  BY <1>2, <1>5, <1>6, PathSelf DEF Closes
<1>8. t # Unreachable
  BY <1>2 DEF Unreachable
<1> QED
  BY <1>0, <1>7, <1>8

(* What an if and the rest of its chain are in simpler terms.              *)
LEMMA IfUnfolds ==
  ASSUME NEW arms, NEW otherwise
  PROVE  LET more == IF Len(arms) > 1 THEN <<If(Tail(arms), otherwise)>> ELSE otherwise
         IN  /\ If(arms, otherwise).kind \in Structured
             /\ Unfolded(If(arms, otherwise)) =
                  <<Do(Head(arms).cond), Choice(<<Head(arms).body, more>>)>>
<1>0. PICK s : s = If(arms, otherwise)
  OBVIOUS
<1>1. /\ s.kind = "if" /\ s.arms = arms /\ s.otherwise = otherwise
      /\ [s EXCEPT !.arms = Tail(@)] = If(Tail(arms), otherwise)
  <2>1. s.kind = "if" /\ s.arms = arms /\ s.otherwise = otherwise
    BY <1>0 DEF If
  <2>2. PICK r : r = Tail(arms)
    OBVIOUS
  <2>3. [s EXCEPT !.arms = r] = If(r, otherwise)
    BY <1>0 DEF If
  <2>4. [s EXCEPT !.arms = Tail(@)] = [s EXCEPT !.arms = r]
    BY <2>1, <2>2
  <2> QED
    BY <2>1, <2>2, <2>3, <2>4
<1>2. Unfolded(s) =
        <<Do(Head(s.arms).cond),
          Choice(<<Head(s.arms).body,
                   IF Len(s.arms) > 1 THEN <<[s EXCEPT !.arms = Tail(@)]>> ELSE s.otherwise>>)>>
  BY <1>1 DEF Unfolded
<1> QED
  BY <1>0, <1>1, <1>2 DEF Structured

(* Two new blocks that are not finished.                                   *)
LEMMA TwoBare ==
  ASSUME NEW L \in Nat, L = Len(blocks)
  PROVE  /\ IsSeq(Fresh(2)) /\ Len(Fresh(2)) = 2 /\ Filled(Fresh(2)) = {}
         /\ Bare(Fresh(2)) = {L + 1, L + 2}
         /\ \A i \in DOMAIN Fresh(2) : Fresh(2)[i].term = Unreachable
<1>0. PICK new : new = Fresh(2)
  OBVIOUS
<1>1. /\ IsSeq(new) /\ Len(new) = 2 /\ DOMAIN new = 1 .. 2
      /\ \A i \in DOMAIN new : new[i].term = Unreachable
  BY <1>0, Placeholders
<1>2. {j \in DOMAIN new : new[j].term = Unreachable} = {1, 2}
  BY <1>1
<1>3. {j \in DOMAIN new : new[j].term # Unreachable /\ new[j].stmts # <<>>} = {}
  BY <1>1
<1>4. Filled(new) = {}
  BY <1>3 DEF Filled
<1>5. Bare(new) = {L + 1, L + 2}
  BY <1>2 DEF Bare
<1> QED
  BY <1>0, <1>1, <1>4, <1>5

-----------------------------------------------------------------------------
(* What the rest of a chain is to the source, and to the lowerer.          *)
Ahead(k) == IF k.arms # <<>> THEN <<If(k.arms, k.otherwise)>> ELSE k.otherwise
GoOn(k) ==
  IF k.arms # <<>> THEN <<k>> ELSE k.otherwise \o <<Jump(k.merge), Start(k.merge)>>

(* The tasks of a link lead through its body, and through the rest of the  *)
(* chain, to where it merges.                                              *)
LEMMA LinkThread ==
  ASSUME NEW S, Grammar(S), NEW body \in Seq(S), NEW k, k.kind = "link", k.otherwise \in Seq(S),
         NEW K, NEW E, NEW z, Valid(K, z), z.live,
         NEW due, due \subseteq DOMAIN K, k.merge \in due, z.due = due \ {k.merge},
         K[k.merge] = z.src, NEW n \in DOMAIN K, n \notin due,
         K[n] = Ahead(k) \o z.src
  PROVE  Thread(K, E, (body \o <<Jump(k.merge), Start(n)>>) \o GoOn(k),
                St(TRUE, body \o z.src, z.loops, due \cup {n}), z)
<1> PICK more, otherwise, merge, ahead, goOn :
      /\ more = k.arms /\ otherwise = k.otherwise /\ merge = k.merge
      /\ ahead = Ahead(k) /\ goOn = GoOn(k)
      /\ more # <<>> => ahead = <<If(more, otherwise)>> /\ goOn = <<k>>
      /\ more = <<>> => ahead = otherwise /\ goOn = otherwise \o <<Jump(merge), Start(merge)>>
  BY DEF Ahead, GoOn
<1>0. PICK c, loops, all : c = z.src /\ loops = z.loops /\ all = due \cup {n}
  OBVIOUS
<1>1. z = St(TRUE, c, loops, z.due) /\ Valid(K, St(TRUE, c, loops, z.due))
  BY <1>0 DEF Valid
<1>2. all \subseteq DOMAIN K /\ merge \in all /\ due = all \ {n} /\ n \in all /\ merge \in DOMAIN K
  BY <1>0
<1>3. Valid(K, St(TRUE, c, loops, all)) /\ Valid(K, St(TRUE, c, loops, due))
  BY <1>1, <1>2, ValidDue
<1>4. Thread(K, E, body, St(TRUE, body \o c, loops, all), St(TRUE, c, loops, all))
  BY <1>3, BodyThread
<1>5. IsSeq(ahead) /\ NoEnds(ahead)
  <2>1. CASE more # <<>>
    <3>1. PICK s : s = If(more, otherwise)
      OBVIOUS
    <3>2. s.kind # "end" /\ ahead = <<s>>
      BY <2>1, <3>1 DEF If
    <3> QED
      BY <3>2, One DEF NoEnds
  <2>2. CASE more = <<>>
    <3>1. IsSeq(otherwise) /\ NoEnds(otherwise)
      BY <1>3, BodyThread
    <3> QED
      BY <2>2, <3>1
  <2> QED
    BY <2>1, <2>2
<1>6. Valid(K, St(TRUE, ahead \o c, loops, due))
  BY <1>3, <1>5, ValidMore
<1>7. K[merge] = c /\ K[n] = ahead \o c
  BY <1>0
<1>8. Thread(K, E, <<Jump(merge), Start(n)>>, St(TRUE, c, loops, all), St(TRUE, ahead \o c, loops, due))
  <2>1. merge \in DOMAIN K /\ (Moves(c, K[merge]) \/ (K[merge] = c /\ merge \in E \cup all))
    BY <1>2, <1>7
  <2> QED
    BY <1>2, <1>3, <1>6, <1>7, <2>1, JumpStart, ZenonT(40)
<1> PICK y1, y2, y3, p : /\ y1 = St(TRUE, body \o c, loops, all) /\ y2 = St(TRUE, c, loops, all)
                         /\ y3 = St(TRUE, ahead \o c, loops, due) /\ p = <<Jump(merge), Start(n)>>
  OBVIOUS
<1>9. Thread(K, E, goOn, y3, z)
  <2>1. CASE more # <<>>
    <3>0. PICK y : y = St(TRUE, ahead \o c, loops, due)
      OBVIOUS
    <3>1. y.due = due
      BY <3>0 DEF St
    <3>2. y = St(TRUE, <<If(k.arms, k.otherwise)>> \o z.src, z.loops, y.due)
      <4>1. ahead = <<If(k.arms, k.otherwise)>>
        BY <2>1
      <4> QED
        BY <1>0, <3>0, <3>1, <4>1
    <3>3. Links(K, k, y, z)
      BY <3>1, <3>2 DEF Links
    <3>4. Goes(K, E, k, y, z)
      BY <1>6, <3>0, <3>3 DEF Goes
    <3>5. Thread(K, E, <<k>>, y, z) /\ goOn = <<k>> /\ y3 = y
      BY <2>1, <3>0, <3>4, ThreadOne
    <3> QED
      BY <3>5
  <2>2. CASE more = <<>>
    <3>1. ahead = otherwise /\ goOn = otherwise \o <<Jump(merge), Start(merge)>>
      BY <2>2
    <3>2. Thread(K, E, otherwise, St(TRUE, otherwise \o c, loops, due), St(TRUE, c, loops, due))
      BY <1>3, BodyThread
    <3>3. merge \in DOMAIN K /\ (Moves(c, K[merge]) \/ (K[merge] = c /\ merge \in E \cup due))
      BY <1>2, <1>7
    <3>4. Thread(K, E, <<Jump(merge), Start(merge)>>, St(TRUE, c, loops, due), St(TRUE, c, loops, z.due))
      BY <1>1, <1>3, <1>7, <3>3, JumpStart, ZenonT(40)
    <3> PICK w, q : w = St(TRUE, c, loops, due) /\ q = <<Jump(merge), Start(merge)>>
      OBVIOUS
    <3>5. Thread(K, E, otherwise, y3, w)
      BY <3>1, <3>2
    <3>6. Thread(K, E, q, w, z)
      BY <1>1, <3>4
    <3>7. Thread(K, E, otherwise \o q, y3, z)
      BY <3>5, <3>6, ThreadConcat
    <3>8. goOn = otherwise \o q
      BY <3>1
    <3> QED
      BY <3>7, <3>8
  <2> QED
    BY <2>1, <2>2
<1>10. Thread(K, E, body, y1, y2) /\ Thread(K, E, p, y2, y3)
  BY <1>4, <1>8
<1>11. Thread(K, E, body \o p, y1, y3)
  BY <1>10, ThreadConcat
<1> PICK h : h = body \o p
  OBVIOUS
<1>a. Thread(K, E, h, y1, y3)
  BY <1>11
<1>b. Thread(K, E, h \o goOn, y1, z)
  BY <1>9, <1>a, ThreadConcat
<1>12. h = body \o <<Jump(k.merge), Start(n)>> /\ y1 = St(TRUE, body \o z.src, z.loops, due \cup {n})
  BY <1>0
<1> QED
  BY <1>b, <1>12

(* A branch of a chain of conditions.                                      *)
LEMMA LinkCarries ==
  ASSUME NEW S, LowInv(S), Unclobbered, Followed, LowerLink
  PROVE  Followed'
<1>0. PICK t, arm, more, merge, rest :
        /\ t = Task /\ arm = Head(t.arms) /\ more = Tail(t.arms) /\ merge = t.merge /\ rest = Rest
  OBVIOUS
<1>1. PICK goOn, k :
        /\ k = [t EXCEPT !.arms = more]
        /\ goOn = IF more # <<>> THEN <<k>> ELSE t.otherwise \o <<Jump(merge), Start(merge)>>
  OBVIOUS
<1>2. PICK L \in Nat : L = Len(blocks) /\ DOMAIN blocks = 1 .. L /\ New(1) = L + 1 /\ New(2) = L + 2
  BY Here DEF New, LowerLink, At
<1>3. /\ phase = "lower" /\ todo # <<>> /\ Task.kind = "link" /\ t.kind = "link" /\ cur_stmts' = <<>>
      /\ blocks' = Flushed(<<arm.cond>>, SwitchInt(<<L + 1>>, L + 2)) \o Fresh(2)
      /\ todo' = ((arm.body \o <<Jump(merge), Start(L + 2)>>) \o goOn) \o rest
      /\ cur' = L + 1 /\ UNCHANGED <<loop_ctx, program, src, at, pos>>
  BY <1>0, <1>1, <1>2 DEF LowerLink, At, Lowers, runVars
<1> PICK K, Q, N, x : Follows(K, Q, N, x)
  BY DEF Followed
<1>4. PICK z : Thread(K, Busy, Rest, z, Last) /\ Valid(K, x) /\ Valid(K, z) /\ Links(K, Task, x, z)
  BY <1>3, AtHand
<1>5. /\ z.live /\ merge \in x.due /\ z.due = x.due \ {merge} /\ K[merge] = z.src
      /\ x.live /\ x.src = <<If(t.arms, t.otherwise)>> \o z.src /\ x.loops = z.loops
  BY <1>0, <1>4 DEF Links, St
<1>6. IsSeq(z.src) /\ x.due \subseteq 1 .. L /\ DOMAIN K = 1 .. L
  BY <1>2, <1>4, <1>5 DEF Valid, Follows
<1>7. /\ t.arms \in Seq([cond : STRING, body : Seq(S)]) /\ t.arms # <<>> /\ t.otherwise \in Seq(S)
      /\ t = [kind |-> "link", arms |-> t.arms, otherwise |-> t.otherwise, merge |-> t.merge]
  <2>1. TaskOK(S, t, Len(blocks)) /\ Grammar(S)
    BY <1>0, <1>3, Here
  <2>2. t \notin S
    BY <1>3, <2>1 DEF Grammar
  <2> QED
    BY <1>3, <2>1, <2>2 DEF TaskOK
<1>8. arm.body \in Seq(S) /\ (Len(t.arms) > 1 <=> more # <<>>)
  <2>0. PICK R, a : R = [cond : STRING, body : Seq(S)] /\ a = t.arms
    OBVIOUS
  <2>1. a \in Seq(R) /\ a # <<>>
    BY <1>7, <2>0
  <2>2. Head(a) \in R /\ Tail(a) \in Seq(R) /\ Len(Tail(a)) = Len(a) - 1 /\ Len(a) \in Nat
    BY <2>1, HeadTailProperties, LenProperties
  <2>3. PICK r : r = Tail(a)
    OBVIOUS
  <2>4. IsSeq(r) /\ Len(r) = Len(a) - 1 /\ Len(a) \in Nat
    BY <2>2, <2>3, SeqIs
  <2>5. Len(a) > 1 <=> r # <<>>
    BY <2>4, IsSeqLen
  <2> QED
    BY <1>0, <2>0, <2>2, <2>3, <2>5
<1>9. k.kind = "link" /\ k.arms = more /\ k.otherwise = t.otherwise /\ k.merge = merge
  BY <1>0, <1>1, <1>7
<1>10. PICK ahead : ahead = IF more # <<>> THEN <<If(more, t.otherwise)>> ELSE t.otherwise
  OBVIOUS
<1>11. PICK M : /\ DOMAIN M = 1 .. L + 2 /\ Extends(K, M)
                /\ M[L + 1] = arm.body \o z.src /\ M[L + 2] = ahead \o z.src
  <2>a. PICK u, v : u = arm.body \o z.src /\ v = ahead \o z.src
    OBVIOUS
  <2>0. PICK add : add = [i \in {1, 2} |-> IF i = 1 THEN u ELSE v]
    OBVIOUS
  <2>m. PICK M : M = Longer(K, L, 2, add)
    OBVIOUS
  <2>n. DOMAIN K = 1 .. L /\ 2 \in Nat
    BY <1>6
  <2>1. DOMAIN M = 1 .. L + 2 /\ Extends(K, M) /\ \A i \in 1 .. 2 : M[L + i] = add[i]
    BY <2>m, <2>n, More
  <2>2. add[1] = u /\ add[2] = v
    BY <2>0
  <2>3. 1 \in 1 .. 2 /\ 2 \in 1 .. 2
    OBVIOUS
  <2>4. M[L + 1] = add[1] /\ M[L + 2] = add[2]
    BY <2>1, <2>3
  <2> QED
    BY <2>a, <2>1, <2>2, <2>4
<1>12. PICK new, stmts, term : /\ new = Fresh(2) /\ stmts = <<arm.cond>>
                               /\ term = SwitchInt(<<L + 1>>, L + 2)
  OBVIOUS
<1>13. /\ IsSeq(new) /\ Len(new) = 2 /\ Filled(new) = {} /\ Bare(new) = {L + 1, L + 2}
       /\ \A i \in DOMAIN new : new[i].term = Unreachable
  BY <1>2, <1>12, TwoBare
<1>14. PICK E, F : E = Busy \cup Filled(new) /\ F = E \cup x.due \cup Bare(new)
  OBVIOUS
<1>15. PICK m : m = <<Choice(<<arm.body, ahead>>)>> \o z.src
  OBVIOUS
<1>16. Finishes(x.src, stmts, m)
  <2>1. PICK s, u : s = If(t.arms, t.otherwise) /\ u = Unfolded(s) \o z.src
    OBVIOUS
  <2>2. s.kind \in Structured /\ Unfolded(s) = <<Do(arm.cond), Choice(<<arm.body, ahead>>)>>
    BY <1>0, <1>8, <1>10, <2>1, IfUnfolds
  <2>3. Moves(x.src, u)
    BY <1>5, <1>6, <2>1, <2>2, Unfolds, ZenonT(40)
  <2>4. Path(x.src, u)
    BY <2>3, PathSelf, PathMoves
  <2>5. Sees(u, arm.cond, m)
    BY <1>6, <1>15, <2>1, <2>2, Branches
  <2> QED
    BY <1>12, <2>4, <2>5 DEF Finishes
<1>17. L + 1 \in DOMAIN M /\ L + 2 \in DOMAIN M
  BY <1>11
<1>18. Closes(M, F, m, term) /\ term # Unreachable
  BY <1>6, <1>11, <1>12, <1>15, <1>17, SwitchCloses
<1>19. PICK due, y, p, v : /\ v = arm.body \o z.src /\ due = x.due \cup {L + 2}
                           /\ y = St(TRUE, v, z.loops, due)
                           /\ p = (arm.body \o <<Jump(merge), Start(L + 2)>>) \o goOn
  OBVIOUS
<1>20. /\ y.live = TRUE /\ y.src = v /\ y.loops = z.loops /\ y.due = due
  BY <1>19 DEF St
<1>a. due = x.due \cup {L + 2} /\ v = arm.body \o z.src
      /\ p = (arm.body \o <<Jump(merge), Start(L + 2)>>) \o goOn
  BY <1>19
<1>21. Thread(M, E, p, y, z)
  <2>1. Valid(M, z)
    BY <1>4, <1>11, ValidGrows
  <2>2. x.due \subseteq DOMAIN M /\ L + 2 \notin x.due
    BY <1>6, <1>11
  <2>3. M[merge] = z.src
    BY <1>5, <1>6, <1>11 DEF Extends
  <2>4. Grammar(S)
    BY DEF LowInv
  <2>5. goOn = (IF more # <<>> THEN <<k>> ELSE t.otherwise \o <<Jump(merge), Start(merge)>>)
    BY <1>1
  <2> PICK due0, n, b : due0 = x.due /\ n = L + 2 /\ b = arm.body
    OBVIOUS
  <2>6. /\ b \in Seq(S) /\ k.otherwise \in Seq(S) /\ due0 \subseteq DOMAIN M /\ k.merge \in due0
        /\ z.due = due0 \ {k.merge} /\ n \in DOMAIN M /\ n \notin due0 /\ z.live
        /\ k.kind = "link"
    BY <1>5, <1>7, <1>8, <1>9, <1>10, <1>17, <2>2, <2>5
  <2>b. M[k.merge] = z.src
    BY <1>9, <2>3
  <2>7. M[n] = Ahead(k) \o z.src /\ goOn = GoOn(k)
    <3>1. ahead = Ahead(k)
      BY <1>9, <1>10 DEF Ahead
    <3>2. goOn = GoOn(k)
      BY <1>9, <2>5 DEF GoOn
    <3> QED
      BY <1>11, <3>1, <3>2
  <2>8. Thread(M, E, (b \o <<Jump(k.merge), Start(n)>>) \o GoOn(k),
               St(TRUE, b \o z.src, z.loops, due0 \cup {n}), z)
    BY <2>1, <2>4, <2>6, <2>7, <2>b, LinkThread
  <2>9. p = (b \o <<Jump(k.merge), Start(n)>>) \o goOn
    BY <1>9, <1>a
  <2>10. y = St(TRUE, b \o z.src, z.loops, due0 \cup {n})
    BY <1>19
  <2> QED
    BY <2>7, <2>8, <2>9, <2>10
<1>22. cur' \notin y.due /\ y.due \cup {cur'} = x.due \cup Bare(new) /\ M[cur'] = y.src
  <2>1. L + 1 # L + 2 /\ L + 1 \notin 1 .. L
    OBVIOUS
  <2>2. cur' \notin y.due
    BY <1>3, <1>6, <1>20, <1>a, <2>1
  <2>3. y.due \cup {cur'} = x.due \cup Bare(new)
    BY <1>3, <1>13, <1>20, <1>a
  <2>4. M[cur'] = y.src
    BY <1>3, <1>11, <1>20, <1>a
  <2> QED
    BY <2>2, <2>3, <2>4
<1>23. \/ y.live /\ y.due \cup {cur'} = x.due \cup Bare(new) /\ M[cur'] = y.src
       \/ ~y.live /\ y.due = x.due \cup Bare(new)
  BY <1>20, <1>22
<1>24. cur' \notin y.due
  BY <1>22
<1>25. InLoops(y)'
  BY <1>3, <1>5, <1>20 DEF Follows, InLoops
<1>26. DOMAIN M = 1 .. Len(blocks) + Len(new)
  BY <1>2, <1>11, <1>13
<1>27. blocks' = Flushed(stmts, term) \o new /\ todo' = p \o Rest
  BY <1>0, <1>3, <1>12, <1>a
<1>28. \A i \in DOMAIN new : new[i].term # Unreachable => Realizes(M, F, M[Len(blocks) + i], new[i])
  BY <1>13
<1>29. IsSeq(new) /\ cur_stmts' = <<>> /\ x.live /\ Extends(K, M) /\ Task.kind # "start"
  BY <1>3, <1>5, <1>11, <1>13
<1>30. phase = "lower" /\ todo # <<>> /\ UNCHANGED <<program, src, at, pos>>
  BY <1>3
<1>31. Thread(K, Busy, Rest, z, Last)
  BY <1>4
<1> QED
  BY <1>14, <1>16, <1>18, <1>21, <1>23, <1>24, <1>25, <1>26, <1>27, <1>28, <1>29, <1>30, <1>31,
     FlushCarries

-----------------------------------------------------------------------------
(* One more loop that the lowerer is in.                                   *)
LEMMA Deeper ==
  ASSUME NEW loops, IsSeq(loops), NEW ctx, IsSeq(ctx), Len(loops) = Len(ctx),
         \A n \in DOMAIN ctx : loops[n].header = ctx[n].header /\ loops[n].exit = ctx[n].exit,
         NEW l, NEW c, c.header = l.header, c.exit = l.exit
  PROVE  /\ Len(Append(loops, l)) = Len(Append(ctx, c))
         /\ \A n \in DOMAIN Append(ctx, c) :
              /\ Append(loops, l)[n].header = Append(ctx, c)[n].header
              /\ Append(loops, l)[n].exit = Append(ctx, c)[n].exit
<1>0. PICK p, q : p = Append(loops, l) /\ q = Append(ctx, c)
  OBVIOUS
<1>1. PICK N \in Nat : /\ Len(loops) = N /\ Len(ctx) = N
                       /\ DOMAIN loops = 1 .. N /\ DOMAIN ctx = 1 .. N
  BY IsSeqLen
<1>2. Len(p) = N + 1 /\ p[N + 1] = l /\ \A n \in 1 .. N : p[n] = loops[n]
  BY <1>0, <1>1, Appended
<1>3. IsSeq(q) /\ Len(q) = N + 1 /\ q[N + 1] = c /\ \A n \in 1 .. N : q[n] = ctx[n]
  BY <1>0, <1>1, Appended
<1>4. DOMAIN q = 1 .. N + 1
  BY <1>3, IsSeqLen
<1>5. \A n \in DOMAIN q : p[n].header = q[n].header /\ p[n].exit = q[n].exit
  <2> SUFFICES ASSUME NEW n \in 1 .. N + 1
               PROVE  p[n].header = q[n].header /\ p[n].exit = q[n].exit
    BY <1>4
  <2>1. n \in 1 .. N \/ n = N + 1
    OBVIOUS
  <2> QED
    BY <1>1, <1>2, <1>3, <2>1
<1> QED
  BY <1>0, <1>2, <1>3, <1>5

(* The block before a loop goes to its header, the body is done next, and  *)
(* what is behind it leads to where the loop ends.                         *)
LEMMA LoopCarries ==
  ASSUME NEW S, LowInv(S), phase = "lower", todo # <<>>, Task.kind \in {"while", "loop", "for"},
         Unclobbered, NEW K, NEW Q, NEW N, NEW x, Follows(K, Q, N, x),
         NEW z, Valid(K, x), Valid(K, z), Does(Task, x, z), Thread(K, Busy, Rest, z, Last),
         NEW stmts, NEW l, NEW new, IsSeq(new), blocks' = Flushed(stmts, Goto(l.header)) \o new,
         NEW M, DOMAIN M = 1 .. Len(blocks) + Len(new), Extends(K, M),
         LoopOK(M, l), l.after = z.src, M[cur'] = Task.body \o Ending(l),
         NEW m, Finishes(x.src, stmts, m),
         Moves(m, M[l.header]) \/ (m = M[l.header] /\ l.header \in Filled(new)),
         \A i \in DOMAIN new :
           new[i].term # Unreachable => Realizes(M, {}, M[Len(blocks) + i], new[i]),
         NEW back, todo' = (Task.body \o back) \o Rest,
         Valid(M, Inner(z, l)), Thread(M, Filled(new), back, Inner(z, l), z),
         Bare(new) = {cur', l.exit}, cur' # l.exit, cur' \notin DOMAIN blocks, cur_stmts' = <<>>,
         loop_ctx' = Append(loop_ctx, [header |-> l.header, exit |-> l.exit]),
         UNCHANGED <<program, src, at, pos>>
  PROVE  Followed'
<1>1. /\ x.live /\ x.src = <<Task>> \o z.src /\ x.loops = z.loops /\ x.due = z.due
      /\ IsSeq(z.src) /\ z.live
  BY Next1
<1>2. PICK body : body = Task.body /\ body \in Seq(S)
  BY Here DEF TaskOK, LowInv, Grammar
<1>3. PICK inner, due, w, y, v : /\ inner = Append(z.loops, l) /\ due = z.due \cup {l.exit}
                              /\ w = Inner(z, l) /\ v = body \o Ending(l)
                              /\ y = St(TRUE, v, inner, due)
  OBVIOUS
<1>4. y.live = TRUE /\ y.src = v /\ y.loops = inner /\ y.due = due
  BY <1>3 DEF St
<1>5. PICK E, F, p : /\ E = Busy \cup Filled(new) /\ F = E \cup x.due \cup Bare(new)
                     /\ p = body \o back
  OBVIOUS
<1>6. Thread(M, E, p, y, z)
  <2>1. w = St(TRUE, Ending(l), inner, due) /\ Valid(M, w)
    BY <1>3 DEF Inner
  <2>2. Thread(M, E, body, St(TRUE, body \o Ending(l), inner, due), St(TRUE, Ending(l), inner, due))
    BY <1>2, <2>1, BodyThread DEF LowInv
  <2>3. Thread(M, E, body, y, w)
    BY <1>3, <2>1, <2>2
  <2>4. Extends(M, M) /\ Filled(new) \subseteq E
    BY <1>5 DEF Extends
  <2>5. Thread(M, E, back, w, z)
    BY <1>3, <2>4, ThreadGrows
  <2>6. Thread(M, E, body \o back, y, z)
    BY <2>3, <2>5, ThreadConcat
  <2> QED
    BY <1>5, <2>6
<1>7. Closes(M, F, m, Goto(l.header)) /\ Goto(l.header) # Unreachable
  <2>1. l.header \in DOMAIN M /\ Path(m, m) /\ Filled(new) \subseteq F
    BY <1>5, PathSelf DEF LoopOK
  <2> QED
    BY <2>1, GotoCloses
<1>8. \A i \in DOMAIN new :
        new[i].term # Unreachable => Realizes(M, F, M[Len(blocks) + i], new[i])
  <2>1. Extends(M, M) /\ {} \subseteq F
    BY DEF Extends
  <2> QED
    BY <2>1, RealizesGrows
<1>9. x.due \subseteq DOMAIN blocks
  BY DEF Follows, Valid
<1>10. due = x.due \cup {l.exit} /\ v = Task.body \o Ending(l) /\ inner = Append(x.loops, l)
  BY <1>1, <1>2, <1>3
<1>11. cur' \notin y.due /\ y.due \cup {cur'} = x.due \cup Bare(new) /\ M[cur'] = y.src
  BY <1>4, <1>9, <1>10
<1>12. \/ y.live /\ y.due \cup {cur'} = x.due \cup Bare(new) /\ M[cur'] = y.src
       \/ ~y.live /\ y.due = x.due \cup Bare(new)
  BY <1>4, <1>11
<1>13. cur' \notin y.due
  BY <1>11
<1>14. InLoops(y)'
  <2>1. PICK c : c = [header |-> l.header, exit |-> l.exit]
    OBVIOUS
  <2>2. c.header = l.header /\ c.exit = l.exit
    BY <2>1
  <2>3. IsSeq(x.loops) /\ IsSeq(loop_ctx)
    BY Here DEF Valid
  <2>4. /\ Len(x.loops) = Len(loop_ctx)
        /\ \A n \in DOMAIN loop_ctx : /\ x.loops[n].header = loop_ctx[n].header
                                      /\ x.loops[n].exit = loop_ctx[n].exit
    BY DEF Follows, InLoops
  <2>5. loop_ctx' = Append(loop_ctx, c) /\ y.loops = Append(x.loops, l)
    BY <1>4, <1>10, <2>1
  <2>6. /\ Len(Append(x.loops, l)) = Len(Append(loop_ctx, c))
        /\ \A n \in DOMAIN Append(loop_ctx, c) :
             /\ Append(x.loops, l)[n].header = Append(loop_ctx, c)[n].header
             /\ Append(x.loops, l)[n].exit = Append(loop_ctx, c)[n].exit
    BY <2>2, <2>3, <2>4, Deeper
  <2> QED
    BY <2>5, <2>6 DEF InLoops
<1>15. todo' = p \o Rest
  BY <1>2, <1>5
<1>16. E = Busy \cup Filled(new) /\ F = E \cup x.due \cup Bare(new) /\ x.live /\ Task.kind # "start"
  BY <1>1, <1>5
<1>17. PICK term : term = Goto(l.header)
  OBVIOUS
<1>18. Closes(M, F, m, term) /\ term # Unreachable /\ blocks' = Flushed(stmts, term) \o new
  BY <1>7, <1>17
<1> QED
  BY <1>6, <1>8, <1>12, <1>13, <1>14, <1>15, <1>16, <1>18, FlushCarries

(* The header of a loop with a condition goes on with the body, or behind  *)
(* the loop.                                                               *)
LEMMA HeaderRealizes ==
  ASSUME NEW M, NEW e, NEW body, NEW c, IsSeq(c), NEW p \in DOMAIN M, NEW q \in DOMAIN M,
         M[p] = body \o c, M[q] = c
  PROVE  Realizes(M, {}, <<Do(e), Choice(<<body, <<>>>>)>> \o c,
                  Block(<<e>>, SwitchInt(<<p>>, q)))
<1>0. PICK k, m, t, s : /\ k = <<Do(e), Choice(<<body, <<>>>>)>> \o c
                        /\ m = <<Choice(<<body, <<>>>>)>> \o c
                        /\ t = SwitchInt(<<p>>, q) /\ s = <<e>>
  OBVIOUS
<1>1. Sees(k, e, m)
  BY <1>0, Branches
<1>2. Finishes(k, s, m)
  BY <1>0, <1>1, PathSelf DEF Finishes
<1>3. M[q] = <<>> \o c
  BY ConcatEmptySeq DEF IsSeq
<1>4. Closes(M, {}, m, t)
  <2>1. Closes(M, {}, <<Choice(<<body, <<>>>>)>> \o c, SwitchInt(<<p>>, q))
    BY <1>3, SwitchCloses
  <2> QED
    BY <1>0, <2>1
<1>5. Realizes(M, {}, k, Block(<<>> \o s, t))
  BY <1>2, <1>4, TraceNone, PathSelf, Ends
<1>6. <<>> \o s = s
  BY <1>0, One, ConcatEmptySeq DEF IsSeq
<1> QED
  BY <1>0, <1>5, <1>6

(* A header and two new blocks that are not finished.                      *)
LEMMA ThreeNew ==
  ASSUME NEW s, s # <<>>, NEW term, term # Unreachable
  PROVE  LET new == <<Block(s, term)>> \o Fresh(2)
         IN  /\ IsSeq(new) /\ Len(new) = 3 /\ DOMAIN new = 1 .. 3 /\ new[1] = Block(s, term)
             /\ new[2].term = Unreachable /\ new[3].term = Unreachable
             /\ Filled(new) = {Len(blocks) + 1} /\ Bare(new) = {Len(blocks) + 2, Len(blocks) + 3}
<1>0. PICK new : new = <<Block(s, term)>> \o Fresh(2)
  OBVIOUS
<1>1. Opens(new, term)
  BY <1>0, NewBlocks
<1>2. new[1] = Block(s, term)
  <2>1. /\ IsSeq(<<Block(s, term)>>) /\ Len(<<Block(s, term)>>) = 1
        /\ DOMAIN <<Block(s, term)>> = {1} /\ <<Block(s, term)>>[1] = Block(s, term)
    BY One
  <2>2. Joins(new, <<Block(s, term)>>, Fresh(2))
    BY <1>0, <2>1, Placeholders, Joined
  <2> QED
    BY <2>1, <2>2 DEF Joins
<1>3. new[1].term = term /\ new[1].stmts = s
  BY <1>2 DEF Block
<1>4. {j \in DOMAIN new : new[j].term # Unreachable /\ new[j].stmts # <<>>} = {1}
  BY <1>1, <1>3 DEF Opens
<1>5. {j \in DOMAIN new : new[j].term = Unreachable} = {2, 3}
  BY <1>1, <1>3 DEF Opens
<1>6. Filled(new) = {Len(blocks) + 1}
  BY <1>4 DEF Filled
<1>7. Bare(new) = {Len(blocks) + 2, Len(blocks) + 3}
  BY <1>5 DEF Bare
<1> QED
  BY <1>0, <1>1, <1>2, <1>6, <1>7 DEF Opens

(* The graph with a loop's header, as it is put together.                  *)
LEMMA HeaderBehind ==
  ASSUME NEW S, LowInv(S), phase = "lower", todo # <<>>, NEW stmts, NEW term, NEW b
  PROVE  (Flushed(stmts, term) \o <<b>>) \o Fresh(2) = Flushed(stmts, term) \o (<<b>> \o Fresh(2))
<1>1. /\ Len(blocks) \in Nat /\ DOMAIN blocks = 1 .. Len(blocks)
  BY Here
<1> PICK base, one, two : base = Flushed(stmts, term) /\ one = <<b>> /\ two = Fresh(2)
  OBVIOUS
<1>2. IsSeq(base)
  <2>1. DOMAIN base = 1 .. Len(blocks) /\ base = [i \in DOMAIN base |-> base[i]]
    BY <1>1 DEF Flushed
  <2> QED
    BY <1>1, <2>1, Mapped
<1>3. IsSeq(one) /\ IsSeq(two)
  BY One, Placeholders
<1>4. (base \o one) \o two = base \o (one \o two)
  BY <1>2, <1>3, Associated
<1> QED
  BY <1>4

(* A loop as its places know it.                                           *)
Frame(h, e, t, c) == [header |-> h, exit |-> e, loop |-> t, after |-> c]

(* A loop that begins here.                                                *)
LEMMA FrameOK ==
  ASSUME NEW M, NEW h \in DOMAIN M, NEW e \in DOMAIN M, NEW t, t.kind \in {"while", "loop", "for"},
         IsSeq(M[e]), t.kind # "for" => M[h] = Unfolded(t) \o M[e]
  PROVE  LET l == Frame(h, e, t, M[e])
         IN  /\ LoopOK(M, l) /\ l.header = h /\ l.exit = e /\ l.loop = t /\ l.after = M[e]
             /\ Ending(l) = <<EndOf(t)>> \o M[e]
<1>0. PICK l, c : l = Frame(h, e, t, c) /\ c = M[e]
  OBVIOUS
<1>1. l.header = h /\ l.exit = e /\ l.loop = t /\ l.after = c
  BY <1>0 DEF Frame
<1>2. LoopOK(M, l)
  BY <1>0, <1>1 DEF LoopOK
<1>3. Ending(l) = <<EndOf(t)>> \o c
  BY <1>1 DEF Ending
<1> QED
  BY <1>0, <1>1, <1>2, <1>3

(* while.                                                                  *)
LEMMA WhileCarries ==
  ASSUME NEW S, LowInv(S), Unclobbered, Followed, LowerWhile
  PROVE  Followed'
<1>1. PICK t : t = Task
  OBVIOUS
<1>2. PICK L \in Nat : /\ L = Len(blocks) /\ DOMAIN blocks = 1 .. L
                       /\ New(1) = L + 1 /\ New(2) = L + 2 /\ New(3) = L + 3
  BY Here DEF New, LowerWhile, At
<1>3. PICK s, term, new, back :
        /\ s = <<t.cond>> /\ term = SwitchInt(<<L + 2>>, L + 3)
        /\ new = <<Block(s, term)>> \o Fresh(2)
        /\ back = <<LeaveLoop, Jump(L + 1), Start(L + 3)>>
  OBVIOUS
<1>4. /\ phase = "lower" /\ todo # <<>> /\ Task.kind = "while" /\ t.kind = "while"
      /\ blocks' = (Flushed(<<>>, Goto(L + 1)) \o <<Block(s, term)>>) \o Fresh(2)
      /\ cur' = L + 2 /\ cur_stmts' = <<>>
      /\ loop_ctx' = Append(loop_ctx, [header |-> L + 1, exit |-> L + 3])
      /\ todo' = (Task.body \o back) \o Rest
      /\ UNCHANGED <<program, src, at, pos>>
  BY <1>1, <1>2, <1>3 DEF LowerWhile, EnterLoop, At, Lowers, runVars
<1> PICK K, Q, N, x : Follows(K, Q, N, x)
  BY DEF Followed
<1>5. PICK z : Thread(K, Busy, Rest, z, Last) /\ Valid(K, x) /\ Valid(K, z) /\ Does(Task, x, z)
  BY <1>4, AtHand DEF Plain
<1>6. /\ x.live /\ x.src = <<t>> \o z.src /\ x.loops = z.loops /\ x.due = z.due
      /\ IsSeq(z.src) /\ z.live
  BY <1>1, <1>5, Next1
<1>7. DOMAIN K = 1 .. L /\ z.due \subseteq 1 .. L
  BY <1>2, <1>5 DEF Follows, Valid
<1>8. PICK c, body, ending : c = z.src /\ body = t.body /\ ending = <<EndOf(t)>> \o c
  OBVIOUS
<1>9. IsSeq(c) /\ IsSeq(body) /\ IsSeq(<<EndOf(t)>>)
  <2>1. t \in S /\ Grammar(S)
    BY <1>1, <1>4, Here DEF TaskOK
  <2>2. body \in Seq(S)
    BY <1>4, <1>8, <2>1 DEF Grammar
  <2> QED
    BY <1>6, <1>8, <2>2, SeqIs, One
<1>10. PICK M : /\ DOMAIN M = 1 .. L + 3 /\ Extends(K, M) /\ M[L + 1] = Unfolded(t) \o c
                /\ M[L + 2] = body \o ending /\ M[L + 3] = c
  <2>0. PICK h, b, add : /\ h = Unfolded(t) \o c /\ b = body \o ending
                         /\ add = [i \in {1, 2, 3} |-> IF i = 1 THEN h ELSE IF i = 2 THEN b ELSE c]
    OBVIOUS
  <2>m. PICK M : M = Longer(K, L, 3, add)
    OBVIOUS
  <2>n. DOMAIN K = 1 .. L /\ 3 \in Nat
    BY <1>7
  <2>1. DOMAIN M = 1 .. L + 3 /\ Extends(K, M) /\ \A i \in 1 .. 3 : M[L + i] = add[i]
    BY <2>m, <2>n, More
  <2>2. add[1] = h /\ add[2] = b /\ add[3] = c
    BY <2>0
  <2>3. 1 \in 1 .. 3 /\ 2 \in 1 .. 3 /\ 3 \in 1 .. 3
    OBVIOUS
  <2>4. M[L + 1] = add[1] /\ M[L + 2] = add[2] /\ M[L + 3] = add[3]
    BY <2>1, <2>3
  <2> QED
    BY <2>0, <2>1, <2>2, <2>4
<1>11. L + 1 \in DOMAIN M /\ L + 2 \in DOMAIN M /\ L + 3 \in DOMAIN M
  BY <1>10
<1>12. PICK l : l = Frame(L + 1, L + 3, t, c)
  OBVIOUS
<1>13. /\ LoopOK(M, l) /\ l.header = L + 1 /\ l.exit = L + 3 /\ l.loop = t /\ l.after = c
       /\ Ending(l) = ending
  <2>0. PICK h, e : h = L + 1 /\ e = L + 3
    OBVIOUS
  <2>1. /\ h \in DOMAIN M /\ e \in DOMAIN M /\ t.kind \in {"while", "loop", "for"}
        /\ IsSeq(M[e]) /\ (t.kind # "for" => M[h] = Unfolded(t) \o M[e])
    BY <1>4, <1>9, <1>10, <1>11, <2>0
  <2>2. /\ LoopOK(M, Frame(h, e, t, M[e])) /\ Frame(h, e, t, M[e]).header = h
        /\ Frame(h, e, t, M[e]).exit = e /\ Frame(h, e, t, M[e]).loop = t
        /\ Frame(h, e, t, M[e]).after = M[e]
        /\ Ending(Frame(h, e, t, M[e])) = <<EndOf(t)>> \o M[e]
    BY <2>1, FrameOK, SMTT(40)
  <2>3. l = Frame(h, e, t, M[e]) /\ M[e] = c
    BY <1>10, <1>12, <2>0
  <2> QED
    BY <1>8, <2>0, <2>2, <2>3
<1>14. /\ IsSeq(new) /\ Len(new) = 3 /\ DOMAIN new = 1 .. 3 /\ new[1] = Block(s, term)
       /\ new[2].term = Unreachable /\ new[3].term = Unreachable
       /\ Filled(new) = {L + 1} /\ Bare(new) = {L + 2, L + 3}
  <2>1. s # <<>>
    BY <1>3, One, IsSeqLen
  <2>2. term # Unreachable
    BY <1>3 DEF SwitchInt, Unreachable
  <2>3. new = <<Block(s, term)>> \o Fresh(2)
    BY <1>3
  <2>4. L = Len(blocks)
    BY <1>2
  <2> PICK made : made = <<Block(s, term)>> \o Fresh(2)
    OBVIOUS
  <2>5. /\ IsSeq(made) /\ Len(made) = 3 /\ DOMAIN made = 1 .. 3 /\ made[1] = Block(s, term)
        /\ made[2].term = Unreachable /\ made[3].term = Unreachable
        /\ Filled(made) = {Len(blocks) + 1} /\ Bare(made) = {Len(blocks) + 2, Len(blocks) + 3}
    BY <2>1, <2>2, ThreeNew
  <2> QED
    BY <2>3, <2>4, <2>5
<1>15. blocks' = Flushed(<<>>, Goto(l.header)) \o new
  BY <1>3, <1>4, <1>13, HeaderBehind
<1>16. Unfolded(t) = <<Do(t.cond), Choice(<<body \o <<EndOf(t)>>, <<>>>>)>>
  BY <1>4, <1>8 DEF Unfolded
<1>17. Realizes(M, {}, M[L + 1], new[1])
  <2>1. (body \o <<EndOf(t)>>) \o c = body \o (<<EndOf(t)>> \o c)
    BY <1>9, Associated
  <2>2. M[L + 2] = (body \o <<EndOf(t)>>) \o c
    BY <1>8, <1>10, <2>1
  <2>3. Realizes(M, {}, <<Do(t.cond), Choice(<<body \o <<EndOf(t)>>, <<>>>>)>> \o c,
                 Block(<<t.cond>>, SwitchInt(<<L + 2>>, L + 3)))
    BY <1>9, <1>10, <1>11, <2>2, HeaderRealizes
  <2> QED
    BY <1>3, <1>10, <1>14, <1>16, <2>3
<1>18. \A i \in DOMAIN new :
         new[i].term # Unreachable => Realizes(M, {}, M[Len(blocks) + i], new[i])
  BY <1>2, <1>14, <1>17
<1>19. Moves(x.src, M[l.header])
  <2>1. t.kind \in Structured
    BY <1>4 DEF Structured
  <2>2. Moves(<<t>> \o c, Unfolded(t) \o c)
    BY <1>9, <2>1, Unfolds
  <2> QED
    BY <1>6, <1>8, <1>10, <1>13, <2>2
<1>20. Valid(M, Inner(z, l)) /\ Thread(M, Filled(new), back, Inner(z, l), z)
  <2>1. Valid(M, z) /\ z.live /\ z.src = l.after
    BY <1>5, <1>6, <1>8, <1>10, <1>13, ValidGrows
  <2>2. l.exit \notin z.due /\ l.loop.kind \in {"while", "loop"}
    BY <1>4, <1>7, <1>13
  <2>3. LoopOK(M, l)
    BY <1>13
  <2>4. /\ Thread(M, Filled(new), <<LeaveLoop, Jump(l.header), Start(l.exit)>>, Inner(z, l), z)
        /\ Valid(M, Inner(z, l))
    BY <2>1, <2>2, <2>3, LoopThread
  <2>5. back = <<LeaveLoop, Jump(l.header), Start(l.exit)>>
    BY <1>3, <1>13
  <2> QED
    BY <2>4, <2>5
<1>21. Finishes(x.src, <<>>, x.src)
  BY DEF Finishes
<1>22. /\ DOMAIN M = 1 .. Len(blocks) + Len(new) /\ Extends(K, M) /\ l.after = z.src
       /\ M[cur'] = Task.body \o Ending(l)
  BY <1>1, <1>2, <1>4, <1>8, <1>10, <1>13, <1>14
<1>23. /\ Bare(new) = {cur', l.exit} /\ cur' # l.exit /\ cur' \notin DOMAIN blocks
       /\ loop_ctx' = Append(loop_ctx, [header |-> l.header, exit |-> l.exit])
  BY <1>2, <1>4, <1>13, <1>14
<1>24. phase = "lower" /\ todo # <<>> /\ Task.kind \in {"while", "loop", "for"}
       /\ LoopOK(M, l) /\ IsSeq(new) /\ cur_stmts' = <<>> /\ todo' = (Task.body \o back) \o Rest
       /\ UNCHANGED <<program, src, at, pos>>
  BY <1>4, <1>13, <1>14
<1>25. Moves(x.src, M[l.header]) \/ (x.src = M[l.header] /\ l.header \in Filled(new))
  BY <1>19
<1> QED
  BY <1>5, <1>15, <1>18, <1>20, <1>21, <1>22, <1>23, <1>24, <1>25, LoopCarries

(* loop.                                                                   *)
LEMMA ForeverCarries ==
  ASSUME NEW S, LowInv(S), Unclobbered, Followed, LowerLoop
  PROVE  Followed'
<1>1. PICK t : t = Task
  OBVIOUS
<1>2. PICK L \in Nat : /\ L = Len(blocks) /\ DOMAIN blocks = 1 .. L
                       /\ New(1) = L + 1 /\ New(2) = L + 2
  BY Here DEF New, LowerLoop, At
<1>3. PICK new, back : new = Fresh(2) /\ back = <<LeaveLoop, Jump(L + 1), Start(L + 2)>>
  OBVIOUS
<1>4. /\ phase = "lower" /\ todo # <<>> /\ Task.kind = "loop" /\ t.kind = "loop"
      /\ blocks' = Flushed(<<>>, Goto(L + 1)) \o new
      /\ cur' = L + 1 /\ cur_stmts' = <<>>
      /\ loop_ctx' = Append(loop_ctx, [header |-> L + 1, exit |-> L + 2])
      /\ todo' = (Task.body \o back) \o Rest
      /\ UNCHANGED <<program, src, at, pos>>
  BY <1>1, <1>2, <1>3 DEF LowerLoop, EnterLoop, At, Lowers, runVars
<1> PICK K, Q, N, x : Follows(K, Q, N, x)
  BY DEF Followed
<1>5. PICK z : Thread(K, Busy, Rest, z, Last) /\ Valid(K, x) /\ Valid(K, z) /\ Does(Task, x, z)
  BY <1>4, AtHand DEF Plain
<1>6. /\ x.live /\ x.src = <<t>> \o z.src /\ x.loops = z.loops /\ x.due = z.due
      /\ IsSeq(z.src) /\ z.live
  BY <1>1, <1>5, Next1
<1>7. DOMAIN K = 1 .. L /\ z.due \subseteq 1 .. L
  BY <1>2, <1>5 DEF Follows, Valid
<1>8. PICK c, body, ending : c = z.src /\ body = t.body /\ ending = <<EndOf(t)>> \o c
  OBVIOUS
<1>9. IsSeq(c) /\ IsSeq(body) /\ IsSeq(<<EndOf(t)>>)
  <2>1. t \in S /\ Grammar(S)
    BY <1>1, <1>4, Here DEF TaskOK
  <2>2. body \in Seq(S)
    BY <1>4, <1>8, <2>1 DEF Grammar
  <2> QED
    BY <1>6, <1>8, <2>2, SeqIs, One
<1>10. PICK M : /\ DOMAIN M = 1 .. L + 2 /\ Extends(K, M)
                /\ M[L + 1] = body \o ending /\ M[L + 2] = c
  <2>a. PICK b : b = body \o ending
    OBVIOUS
  <2>0. PICK add : add = [i \in {1, 2} |-> IF i = 1 THEN b ELSE c]
    OBVIOUS
  <2>m. PICK M : M = Longer(K, L, 2, add)
    OBVIOUS
  <2>n. DOMAIN K = 1 .. L /\ 2 \in Nat
    BY <1>7
  <2>1. DOMAIN M = 1 .. L + 2 /\ Extends(K, M) /\ \A i \in 1 .. 2 : M[L + i] = add[i]
    BY <2>m, <2>n, More
  <2>2. add[1] = b /\ add[2] = c
    BY <2>0
  <2>3. 1 \in 1 .. 2 /\ 2 \in 1 .. 2
    OBVIOUS
  <2>4. M[L + 1] = add[1] /\ M[L + 2] = add[2]
    BY <2>1, <2>3
  <2> QED
    BY <2>a, <2>1, <2>2, <2>4
<1>11. L + 1 \in DOMAIN M /\ L + 2 \in DOMAIN M
  BY <1>10
<1>16. Unfolded(t) \o c = body \o ending
  <2>1. Unfolded(t) = body \o <<EndOf(t)>>
    BY <1>4, <1>8 DEF Unfolded
  <2>2. (body \o <<EndOf(t)>>) \o c = body \o (<<EndOf(t)>> \o c)
    BY <1>9, Associated
  <2> QED
    BY <1>8, <2>1, <2>2
<1>12. PICK l : l = Frame(L + 1, L + 2, t, c)
  OBVIOUS
<1>13. /\ LoopOK(M, l) /\ l.header = L + 1 /\ l.exit = L + 2 /\ l.loop = t /\ l.after = c
       /\ Ending(l) = ending
  <2>0. PICK h, e : h = L + 1 /\ e = L + 2
    OBVIOUS
  <2>1. /\ h \in DOMAIN M /\ e \in DOMAIN M /\ t.kind \in {"while", "loop", "for"}
        /\ IsSeq(M[e]) /\ (t.kind # "for" => M[h] = Unfolded(t) \o M[e])
    BY <1>4, <1>9, <1>10, <1>11, <1>16, <2>0
  <2>2. /\ LoopOK(M, Frame(h, e, t, M[e])) /\ Frame(h, e, t, M[e]).header = h
        /\ Frame(h, e, t, M[e]).exit = e /\ Frame(h, e, t, M[e]).loop = t
        /\ Frame(h, e, t, M[e]).after = M[e]
        /\ Ending(Frame(h, e, t, M[e])) = <<EndOf(t)>> \o M[e]
    BY <2>1, FrameOK, SMTT(40)
  <2>3. l = Frame(h, e, t, M[e]) /\ M[e] = c
    BY <1>10, <1>12, <2>0
  <2> QED
    BY <1>8, <2>0, <2>2, <2>3
<1>14. /\ IsSeq(new) /\ Len(new) = 2 /\ Bare(new) = {L + 1, L + 2}
       /\ \A i \in DOMAIN new : new[i].term = Unreachable
  BY <1>2, <1>3, TwoBare
<1>15. blocks' = Flushed(<<>>, Goto(l.header)) \o new
  BY <1>4, <1>13
<1>18. \A i \in DOMAIN new :
         new[i].term # Unreachable => Realizes(M, {}, M[Len(blocks) + i], new[i])
  BY <1>14
<1>19. Moves(x.src, M[l.header])
  <2>1. t.kind \in Structured
    BY <1>4 DEF Structured
  <2>2. Moves(<<t>> \o c, Unfolded(t) \o c)
    BY <1>9, <2>1, Unfolds
  <2> QED
    BY <1>6, <1>8, <1>10, <1>13, <1>16, <2>2
<1>20. Valid(M, Inner(z, l)) /\ Thread(M, Filled(new), back, Inner(z, l), z)
  <2>1. Valid(M, z) /\ z.live /\ z.src = l.after
    BY <1>5, <1>6, <1>8, <1>10, <1>13, ValidGrows
  <2>2. l.exit \notin z.due /\ l.loop.kind \in {"while", "loop"}
    BY <1>4, <1>7, <1>13
  <2>3. LoopOK(M, l)
    BY <1>13
  <2>4. /\ Thread(M, Filled(new), <<LeaveLoop, Jump(l.header), Start(l.exit)>>, Inner(z, l), z)
        /\ Valid(M, Inner(z, l))
    BY <2>1, <2>2, <2>3, LoopThread
  <2>5. back = <<LeaveLoop, Jump(l.header), Start(l.exit)>>
    BY <1>3, <1>13
  <2> QED
    BY <2>4, <2>5
<1>21. Finishes(x.src, <<>>, x.src)
  BY DEF Finishes
<1>22. /\ DOMAIN M = 1 .. Len(blocks) + Len(new) /\ Extends(K, M) /\ l.after = z.src
       /\ M[cur'] = Task.body \o Ending(l)
  BY <1>1, <1>2, <1>4, <1>8, <1>10, <1>13, <1>14
<1>23. /\ Bare(new) = {cur', l.exit} /\ cur' # l.exit /\ cur' \notin DOMAIN blocks
       /\ loop_ctx' = Append(loop_ctx, [header |-> l.header, exit |-> l.exit])
  BY <1>2, <1>4, <1>13, <1>14
<1>24. phase = "lower" /\ todo # <<>> /\ Task.kind \in {"while", "loop", "for"}
       /\ LoopOK(M, l) /\ IsSeq(new) /\ cur_stmts' = <<>> /\ todo' = (Task.body \o back) \o Rest
       /\ UNCHANGED <<program, src, at, pos>>
  BY <1>4, <1>13, <1>14
<1>25. Moves(x.src, M[l.header]) \/ (x.src = M[l.header] /\ l.header \in Filled(new))
  BY <1>19
<1> QED
  BY <1>5, <1>15, <1>18, <1>20, <1>21, <1>22, <1>23, <1>24, <1>25, LoopCarries
(* for.                                                                    *)
LEMMA ForCarries ==
  ASSUME NEW S, LowInv(S), Unclobbered, Followed, LowerFor
  PROVE  Followed'
<1>1. PICK t : t = Task
  OBVIOUS
<1>2. PICK L \in Nat : /\ L = Len(blocks) /\ DOMAIN blocks = 1 .. L
                       /\ New(1) = L + 1 /\ New(2) = L + 2 /\ New(3) = L + 3
  BY Here DEF New, LowerFor, At
<1>3. PICK s, stmts, term, new, back :
        /\ s = <<Less(t.counter)>> /\ stmts = <<Init(t.counter)>>
        /\ term = SwitchInt(<<L + 2>>, L + 3)
        /\ new = <<Block(s, term)>> \o Fresh(2)
        /\ back = <<LeaveLoop, Do(Incr(t.counter)), Jump(L + 1), Start(L + 3)>>
  OBVIOUS
<1>4. /\ phase = "lower" /\ todo # <<>> /\ Task.kind = "for" /\ t.kind = "for"
      /\ blocks' = (Flushed(stmts, Goto(L + 1)) \o <<Block(s, term)>>) \o Fresh(2)
      /\ cur' = L + 2 /\ cur_stmts' = <<>>
      /\ loop_ctx' = Append(loop_ctx, [header |-> L + 1, exit |-> L + 3])
      /\ todo' = (Task.body \o back) \o Rest
      /\ UNCHANGED <<program, src, at, pos>>
  BY <1>1, <1>2, <1>3 DEF LowerFor, EnterLoop, At, Lowers, runVars
<1> PICK K, Q, N, x : Follows(K, Q, N, x)
  BY DEF Followed
<1>5. PICK z : Thread(K, Busy, Rest, z, Last) /\ Valid(K, x) /\ Valid(K, z) /\ Does(Task, x, z)
  BY <1>4, AtHand DEF Plain
<1>6. /\ x.live /\ x.src = <<t>> \o z.src /\ x.loops = z.loops /\ x.due = z.due
      /\ IsSeq(z.src) /\ z.live
  BY <1>1, <1>5, Next1
<1>7. DOMAIN K = 1 .. L /\ z.due \subseteq 1 .. L
  BY <1>2, <1>5 DEF Follows, Valid
<1>8. PICK c, body, ending : c = z.src /\ body = t.body /\ ending = <<EndOf(t)>> \o c
  OBVIOUS
<1>9. IsSeq(c) /\ IsSeq(body) /\ IsSeq(<<EndOf(t)>>)
  <2>1. t \in S /\ Grammar(S)
    BY <1>1, <1>4, Here DEF TaskOK
  <2>2. body \in Seq(S)
    BY <1>4, <1>8, <2>1 DEF Grammar
  <2> QED
    BY <1>6, <1>8, <2>2, SeqIs, One
<1>10. PICK M : /\ DOMAIN M = 1 .. L + 3 /\ Extends(K, M) /\ M[L + 1] = Counted(t) \o c
                /\ M[L + 2] = body \o ending /\ M[L + 3] = c
  <2>0. PICK h, b, add : /\ h = Counted(t) \o c /\ b = body \o ending
                         /\ add = [i \in {1, 2, 3} |-> IF i = 1 THEN h ELSE IF i = 2 THEN b ELSE c]
    OBVIOUS
  <2>m. PICK M : M = Longer(K, L, 3, add)
    OBVIOUS
  <2>n. DOMAIN K = 1 .. L /\ 3 \in Nat
    BY <1>7
  <2>1. DOMAIN M = 1 .. L + 3 /\ Extends(K, M) /\ \A i \in 1 .. 3 : M[L + i] = add[i]
    BY <2>m, <2>n, More
  <2>2. add[1] = h /\ add[2] = b /\ add[3] = c
    BY <2>0
  <2>3. 1 \in 1 .. 3 /\ 2 \in 1 .. 3 /\ 3 \in 1 .. 3
    OBVIOUS
  <2>4. M[L + 1] = add[1] /\ M[L + 2] = add[2] /\ M[L + 3] = add[3]
    BY <2>1, <2>3
  <2> QED
    BY <2>0, <2>1, <2>2, <2>4
<1>11. L + 1 \in DOMAIN M /\ L + 2 \in DOMAIN M /\ L + 3 \in DOMAIN M
  BY <1>10
<1>12. PICK l : l = Frame(L + 1, L + 3, t, c)
  OBVIOUS
<1>13. /\ LoopOK(M, l) /\ l.header = L + 1 /\ l.exit = L + 3 /\ l.loop = t /\ l.after = c
       /\ Ending(l) = ending
  <2>0. PICK h, e : h = L + 1 /\ e = L + 3
    OBVIOUS
  <2>1. /\ h \in DOMAIN M /\ e \in DOMAIN M /\ t.kind \in {"while", "loop", "for"}
        /\ IsSeq(M[e]) /\ (t.kind # "for" => M[h] = Unfolded(t) \o M[e])
    BY <1>4, <1>9, <1>10, <1>11, <2>0
  <2>2. /\ LoopOK(M, Frame(h, e, t, M[e])) /\ Frame(h, e, t, M[e]).header = h
        /\ Frame(h, e, t, M[e]).exit = e /\ Frame(h, e, t, M[e]).loop = t
        /\ Frame(h, e, t, M[e]).after = M[e]
        /\ Ending(Frame(h, e, t, M[e])) = <<EndOf(t)>> \o M[e]
    BY <2>1, FrameOK, SMTT(40)
  <2>3. l = Frame(h, e, t, M[e]) /\ M[e] = c
    BY <1>10, <1>12, <2>0
  <2> QED
    BY <1>8, <2>0, <2>2, <2>3
<1>14. /\ IsSeq(new) /\ Len(new) = 3 /\ DOMAIN new = 1 .. 3 /\ new[1] = Block(s, term)
       /\ new[2].term = Unreachable /\ new[3].term = Unreachable
       /\ Filled(new) = {L + 1} /\ Bare(new) = {L + 2, L + 3}
  <2>1. s # <<>>
    BY <1>3, One, IsSeqLen
  <2>2. term # Unreachable
    BY <1>3 DEF SwitchInt, Unreachable
  <2>3. new = <<Block(s, term)>> \o Fresh(2)
    BY <1>3
  <2>4. L = Len(blocks)
    BY <1>2
  <2> PICK made : made = <<Block(s, term)>> \o Fresh(2)
    OBVIOUS
  <2>5. /\ IsSeq(made) /\ Len(made) = 3 /\ DOMAIN made = 1 .. 3 /\ made[1] = Block(s, term)
        /\ made[2].term = Unreachable /\ made[3].term = Unreachable
        /\ Filled(made) = {Len(blocks) + 1} /\ Bare(made) = {Len(blocks) + 2, Len(blocks) + 3}
    BY <2>1, <2>2, ThreeNew
  <2> QED
    BY <2>3, <2>4, <2>5
<1>15. blocks' = Flushed(stmts, Goto(l.header)) \o new
  <2>1. PICK b, term0 : b = Block(s, term) /\ term0 = Goto(L + 1)
    OBVIOUS
  <2>2. (Flushed(stmts, term0) \o <<b>>) \o Fresh(2) = Flushed(stmts, term0) \o (<<b>> \o Fresh(2))
    BY <1>4, HeaderBehind
  <2>3. blocks' = (Flushed(stmts, term0) \o <<b>>) \o Fresh(2) /\ new = <<b>> \o Fresh(2)
    BY <1>3, <1>4, <2>1
  <2> QED
    BY <1>13, <2>1, <2>2, <2>3
<1>16. Counted(t) = <<Do(Less(t.counter)), Choice(<<body \o <<EndOf(t)>>, <<>>>>)>>
  BY <1>8 DEF Counted
<1>17. Realizes(M, {}, M[L + 1], new[1])
  <2>1. (body \o <<EndOf(t)>>) \o c = body \o (<<EndOf(t)>> \o c)
    BY <1>9, Associated
  <2>2. M[L + 2] = (body \o <<EndOf(t)>>) \o c
    BY <1>8, <1>10, <2>1
  <2>3. Realizes(M, {}, <<Do(Less(t.counter)), Choice(<<body \o <<EndOf(t)>>, <<>>>>)>> \o c,
                 Block(<<Less(t.counter)>>, SwitchInt(<<L + 2>>, L + 3)))
    BY <1>9, <1>10, <1>11, <2>2, HeaderRealizes
  <2> QED
    BY <1>3, <1>10, <1>14, <1>16, <2>3
<1>18. \A i \in DOMAIN new :
         new[i].term # Unreachable => Realizes(M, {}, M[Len(blocks) + i], new[i])
  BY <1>2, <1>14, <1>17
<1>19. PICK m : m = Counted(t) \o c
  OBVIOUS
<1>a. Finishes(x.src, stmts, m)
  <2>1. PICK i, d : i = Init(t.counter) /\ d = Do(Init(t.counter))
    OBVIOUS
  <2>2. t.kind \in Structured /\ Unfolded(t) = <<d>> \o Counted(t)
    BY <1>4, <2>1 DEF Structured, Unfolded
  <2>3. IsSeq(Counted(t)) /\ IsSeq(<<d>>)
    BY <1>16, One, Two
  <2>4. (<<d>> \o Counted(t)) \o c = <<d>> \o m
    <3>1. PICK w, e : w = <<d>> /\ e = Counted(t)
      OBVIOUS
    <3>2. IsSeq(w) /\ IsSeq(e)
      BY <2>3, <3>1
    <3>3. (w \o e) \o c = w \o (e \o c)
      BY <1>9, <3>2, Associated, SMTT(40)
    <3> QED
      BY <1>19, <3>1, <3>3
  <2>5. Moves(<<t>> \o c, Unfolded(t) \o c)
    BY <1>9, <2>2, Unfolds
  <2>6. PICK u : u = <<d>> \o m
    OBVIOUS
  <2>7. Path(x.src, u)
    <3>1. Moves(x.src, u)
      BY <1>6, <1>8, <2>2, <2>4, <2>5, <2>6
    <3> QED
      BY <3>1, PathSelf, PathMoves
  <2>8. IsSeq(m)
    BY <1>9, <1>19, <2>3, Concatenated
  <2>9. u # <<>> /\ Head(u) = d /\ Tail(u) = m
    BY <2>6, <2>8, Consed
  <2>10. d.kind = "do" /\ d.event = i
    BY <2>1 DEF Do
  <2>11. NextOf(u) = <<"do", i>>
    BY <2>9, <2>10 DEF NextOf
  <2>12. <<>> \o m = m
    BY <2>8, ConcatEmptySeq DEF IsSeq
  <2>13. Sees(u, i, m)
    BY <2>9, <2>10, <2>11, <2>12 DEF Sees
  <2>14. stmts = <<i>>
    BY <1>3, <2>1
  <2> QED
    BY <2>7, <2>13, <2>14 DEF Finishes
<1>20. Valid(M, Inner(z, l)) /\ Thread(M, Filled(new), back, Inner(z, l), z)
  <2>1. Valid(M, z) /\ z.live /\ z.src = l.after
    BY <1>5, <1>6, <1>8, <1>10, <1>13, ValidGrows
  <2>2. l.exit \notin z.due /\ l.loop.kind = "for"
    BY <1>4, <1>7, <1>13
  <2>3. LoopOK(M, l)
    BY <1>13
  <2>6. M[l.header] = Counted(l.loop) \o l.after /\ l.header \in Filled(new)
    BY <1>10, <1>13, <1>14
  <2>4. /\ Thread(M, Filled(new), <<LeaveLoop, Do(Incr(l.loop.counter)), Jump(l.header), Start(l.exit)>>,
                  Inner(z, l), z)
        /\ Valid(M, Inner(z, l))
    BY <2>1, <2>2, <2>3, <2>6, CountThread
  <2>5. back = <<LeaveLoop, Do(Incr(l.loop.counter)), Jump(l.header), Start(l.exit)>>
    BY <1>3, <1>13
  <2> QED
    BY <2>4, <2>5
<1>22. /\ DOMAIN M = 1 .. Len(blocks) + Len(new) /\ Extends(K, M) /\ l.after = z.src
       /\ M[cur'] = Task.body \o Ending(l)
  BY <1>1, <1>2, <1>4, <1>8, <1>10, <1>13, <1>14
<1>23. /\ Bare(new) = {cur', l.exit} /\ cur' # l.exit /\ cur' \notin DOMAIN blocks
       /\ loop_ctx' = Append(loop_ctx, [header |-> l.header, exit |-> l.exit])
  BY <1>2, <1>4, <1>13, <1>14
<1>24. phase = "lower" /\ todo # <<>> /\ Task.kind \in {"while", "loop", "for"}
       /\ LoopOK(M, l) /\ IsSeq(new) /\ cur_stmts' = <<>> /\ todo' = (Task.body \o back) \o Rest
       /\ UNCHANGED <<program, src, at, pos>>
  BY <1>4, <1>13, <1>14
<1>25. Moves(m, M[l.header]) \/ (m = M[l.header] /\ l.header \in Filled(new))
  BY <1>10, <1>13, <1>14, <1>19
<1> QED
  BY <1>5, <1>15, <1>18, <1>20, <1>a, <1>22, <1>23, <1>24, <1>25, LoopCarries

-----------------------------------------------------------------------------
(* Where the elements are that are in S, in their order.                   *)
Places(s, P) == Only([n \in DOMAIN s |-> n], P)

(* What is selected from s is what is at those places, and the first of    *)
(* them comes first.                                                       *)
LEMMA SelectedPlaces ==
  ASSUME NEW s, IsSeq(s), NEW S, NEW P, \A i \in DOMAIN s : s[i] \in S <=> i \in P
  PROVE  /\ IsSeq(Only(s, S)) /\ IsSeq(Places(s, P)) /\ Len(Only(s, S)) = Len(Places(s, P))
         /\ \A k \in DOMAIN Places(s, P) :
              Places(s, P)[k] \in DOMAIN s /\ Only(s, S)[k] = s[Places(s, P)[k]]
         /\ IF Places(s, P) = <<>> THEN \A i \in DOMAIN s : i \notin P
            ELSE Places(s, P)[1] \in P /\ \A i \in DOMAIN s : i \in P => Places(s, P)[1] <= i
<1> PICK ids : ids = [n \in DOMAIN s |-> n]
  OBVIOUS
<1>1. PICK L \in Nat : L = Len(s) /\ DOMAIN s = 1 .. L
  BY IsSeqLen
<1>2. IsSeq(ids) /\ Len(ids) = L /\ \A n \in 1 .. L : ids[n] = n
  BY <1>1, Mapped
<1>3. PICK f : /\ f[0] = <<>>
               /\ \A n \in 1 .. L : f[n] = IF s[n] \in S THEN Append(f[n - 1], s[n]) ELSE f[n - 1]
               /\ Only(s, S) = f[L]
  BY <1>1, OnlyInSteps
<1>4. PICK g : /\ g[0] = <<>>
               /\ \A n \in 1 .. L : g[n] = IF n \in P THEN Append(g[n - 1], n) ELSE g[n - 1]
               /\ Places(s, P) = g[L]
  <2>0. IsSeq(ids)
    BY <1>2
  <2>1. PICK g : /\ g[0] = <<>>
                 /\ \A n \in 1 .. Len(ids) :
                      g[n] = IF ids[n] \in P THEN Append(g[n - 1], ids[n]) ELSE g[n - 1]
                 /\ Only(ids, P) = g[Len(ids)]
    BY <2>0, OnlyInSteps
  <2> QED
    BY <1>2, <2>1, ZenonT(40) DEF Places
<1> DEFINE Same(n) == /\ IsSeq(f[n]) /\ IsSeq(g[n]) /\ Len(f[n]) = Len(g[n])
                      /\ \A k \in DOMAIN g[n] : g[n][k] \in 1 .. n /\ f[n][k] = s[g[n][k]]
                      /\ g[n] = <<>> => \A i \in 1 .. n : i \notin P
                      /\ g[n] # <<>> => /\ g[n][1] \in P
                                        /\ \A i \in 1 .. n : i \in P => g[n][1] <= i
           T == {n \in Nat : n <= L => Same(n)}
<1>5. 0 \in T
  <2>1. IsSeq(<<>>) /\ DOMAIN <<>> = {}
    BY EmptySeq DEF IsSeq
  <2> QED
    BY <1>3, <1>4, <2>1
<1>6. ASSUME NEW n \in Nat, n \in T PROVE n + 1 \in T
  <2> SUFFICES ASSUME n + 1 <= L PROVE Same(n + 1)
    OBVIOUS
  <2>1. PICK m : m = n + 1
    OBVIOUS
  <2>2. Same(n) /\ m \in 1 .. L /\ m - 1 = n
    BY <1>6, <2>1
  <2>3. /\ f[m] = IF s[m] \in S THEN Append(f[n], s[m]) ELSE f[n]
        /\ g[m] = IF m \in P THEN Append(g[n], m) ELSE g[n]
        /\ (s[m] \in S <=> m \in P)
    BY <1>1, <1>3, <1>4, <2>2
  <2>4. CASE m \notin P
    <3>1. f[m] = f[n] /\ g[m] = g[n]
      BY <2>3, <2>4
    <3>2. \A i \in 1 .. m : i \in P => i \in 1 .. n
      BY <2>1, <2>4
    <3>3. Same(m)
      <4>1. 1 .. n \subseteq 1 .. m
        BY <2>1
      <4> QED
        BY <2>2, <3>1, <3>2, <4>1
    <3> QED
      BY <2>1, <3>3
  <2>5. CASE m \in P
    <3>0. PICK a, b, c, d, e : a = f[n] /\ b = g[n] /\ c = s[m] /\ d = f[m] /\ e = g[m]
      OBVIOUS
    <3>1. d = Append(a, c) /\ e = Append(b, m)
      BY <2>3, <2>5, <3>0
    <3>2. IsSeq(a) /\ IsSeq(b) /\ Len(a) = Len(b)
      BY <2>2, <3>0
    <3>3. PICK N \in Nat : N = Len(b) /\ DOMAIN b = 1 .. N /\ DOMAIN a = 1 .. N
      BY <3>2, IsSeqLen
    <3>4. /\ IsSeq(d) /\ Len(d) = N + 1 /\ \A i \in 1 .. N : d[i] = a[i]
          /\ d[N + 1] = c
      BY <3>1, <3>2, <3>3, Appended
    <3>5. /\ IsSeq(e) /\ Len(e) = N + 1 /\ DOMAIN e = 1 .. N + 1 /\ \A i \in 1 .. N : e[i] = b[i]
          /\ e[N + 1] = m
      BY <3>1, <3>2, <3>3, Appended
    <3>6. \A k \in 1 .. N : b[k] \in 1 .. n /\ a[k] = s[b[k]]
      BY <2>2, <3>0, <3>3
    <3>7. \A k \in DOMAIN e : e[k] \in 1 .. m /\ d[k] = s[e[k]]
      <4> SUFFICES ASSUME NEW k \in 1 .. N + 1 PROVE e[k] \in 1 .. m /\ d[k] = s[e[k]]
        BY <3>5
      <4>1. CASE k \in 1 .. N
        BY <2>1, <3>4, <3>5, <3>6, <4>1
      <4>2. CASE k = N + 1
        BY <2>1, <3>0, <3>4, <3>5, <4>2
      <4> QED
        BY <4>1, <4>2
    <3>8. e[1] \in P /\ \A i \in 1 .. m : i \in P => e[1] <= i
      <4>1. CASE N = 0
        <5>1. b = <<>> /\ e[1] = m
          BY <3>2, <3>3, <3>5, <4>1, IsSeqLen
        <5>2. \A i \in 1 .. n : i \notin P
          BY <2>2, <3>0, <5>1
        <5> QED
          BY <2>1, <2>5, <5>1, <5>2
      <4>2. CASE N # 0
        <5>1. b # <<>> /\ e[1] = b[1] /\ b[1] \in 1 .. n
          BY <3>2, <3>3, <3>5, <3>6, <4>2, IsSeqLen
        <5>2. b[1] \in P /\ \A i \in 1 .. n : i \in P => b[1] <= i
          BY <2>2, <3>0, <5>1
        <5> QED
          BY <2>1, <5>1, <5>2
      <4> QED
        BY <4>1, <4>2
    <3>9. e # <<>>
      BY <3>5, IsSeqLen
    <3>10. Same(m)
      BY <3>0, <3>4, <3>5, <3>7, <3>8, <3>9
    <3> QED
      BY <2>1, <3>10
  <2> QED
    BY <2>4, <2>5
<1>7. Same(L)
  <2> HIDE DEF Same
  <2>1. Nat \subseteq T
    <3> HIDE DEF T
    <3> QED
      BY <1>5, <1>6, Inducted
  <2> QED
    BY <2>1
<1> QED
  BY <1>1, <1>3, <1>4, <1>7

(* The cases that are tried, and the one that is taken if none matches.    *)
Tried(cases) == Places(cases, DOMAIN cases \ Catchalls(cases))
Default(cases) == IF Catchalls(cases) = {} THEN <<>> ELSE cases[FirstOf(Catchalls(cases))].body

(* What is first in S and nowhere behind another of S is FirstOf(S).       *)
LEMMA FirstIs ==
  ASSUME NEW S, S \subseteq Nat, NEW n \in S, \A m \in S : n <= m
  PROVE  FirstOf(S) = n
<1>1. \E k \in S : \A m \in S : k <= m
  OBVIOUS
<1> DEFINE least(k) == k \in S /\ \A m \in S : k <= m
<1>2. FirstOf(S) = CHOOSE k : least(k)
  BY DEF FirstOf
<1>3. least(n)
  OBVIOUS
<1> HIDE DEF least
<1>4. least(FirstOf(S))
  BY <1>2, <1>3, Zenon
<1>5. FirstOf(S) \in S /\ \A m \in S : FirstOf(S) <= m
  BY <1>4 DEF least
<1>6. PICK k : k = FirstOf(S)
  OBVIOUS
<1>7. k \in S /\ k <= n
  BY <1>5, <1>6
<1>8. n <= k /\ k \in Nat /\ n \in Nat
  BY <1>7
<1> QED
  BY <1>6, <1>7, <1>8

(* A match in simpler terms is a choice between the cases that are tried   *)
(* and the other one.                                                      *)
LEMMA MatchUnfolds ==
  ASSUME NEW t, t.kind = "match", IsSeq(t.cases), \A i \in DOMAIN t.cases : t.cases[i].catchall \in BOOLEAN
  PROVE  \E alts : /\ Unfolded(t) = <<Do(t.cond), Choice(alts)>>
                   /\ Len(alts) = Len(Tried(t.cases)) + 1 /\ Len(Tried(t.cases)) \in Nat
                   /\ \A k \in 1 .. Len(Tried(t.cases)) :
                        /\ Tried(t.cases)[k] \in DOMAIN t.cases
                        /\ alts[k] = t.cases[Tried(t.cases)[k]].body
                   /\ alts[Len(Tried(t.cases)) + 1] = Default(t.cases)
<1> PICK cases, C, no, yes : /\ cases = t.cases /\ C = Catchalls(cases)
                          /\ no = {c \in Seqs!ToSet(cases) : c.catchall = FALSE}
                          /\ yes = {c \in Seqs!ToSet(cases) : c.catchall = TRUE}
  OBVIOUS
<1>1. IsSeq(cases) /\ \A i \in DOMAIN cases : cases[i].catchall \in BOOLEAN
  OBVIOUS
<1>2. C \subseteq DOMAIN cases /\ \A i \in DOMAIN cases : (i \in C <=> cases[i].catchall)
  BY DEF Catchalls
<1>3. \A i \in DOMAIN cases : (cases[i] \in no <=> i \in DOMAIN cases \ C) /\ (cases[i] \in yes <=> i \in C)
  <2> SUFFICES ASSUME NEW i \in DOMAIN cases
               PROVE  (cases[i] \in no <=> i \in DOMAIN cases \ C) /\ (cases[i] \in yes <=> i \in C)
    OBVIOUS
  <2>1. cases[i] \in Seqs!ToSet(cases)
    BY DEF Seqs!ToSet
  <2> QED
    BY <1>1, <1>2, <2>1
<1>4. PICK F, G, tried, caught :
        /\ F = Only(cases, no) /\ G = Only(cases, yes)
        /\ tried = Places(cases, DOMAIN cases \ C) /\ caught = Places(cases, C)
  OBVIOUS
<1>5. /\ IsSeq(F) /\ IsSeq(tried) /\ Len(F) = Len(tried)
      /\ \A k \in DOMAIN tried : tried[k] \in DOMAIN cases /\ F[k] = cases[tried[k]]
  <2>1. \A i \in DOMAIN cases : cases[i] \in no <=> i \in DOMAIN cases \ C
    BY <1>3
  <2> QED
    BY <1>1, <1>4, <2>1, SelectedPlaces
<1>6. /\ IsSeq(G) /\ IsSeq(caught) /\ Len(G) = Len(caught)
      /\ \A k \in DOMAIN caught : caught[k] \in DOMAIN cases /\ G[k] = cases[caught[k]]
      /\ IF caught = <<>> THEN \A i \in DOMAIN cases : i \notin C
         ELSE caught[1] \in C /\ \A i \in DOMAIN cases : i \in C => caught[1] <= i
  <2>1. \A i \in DOMAIN cases : cases[i] \in yes <=> i \in C
    BY <1>3
  <2> QED
    BY <1>1, <1>4, <2>1, SelectedPlaces
<1>7. PICK N \in Nat, M \in Nat : /\ N = Len(tried) /\ DOMAIN tried = 1 .. N /\ DOMAIN F = 1 .. N
                                  /\ M = Len(G) /\ DOMAIN G = 1 .. M /\ DOMAIN caught = 1 .. M
  BY <1>5, <1>6, IsSeqLen
<1>8. PICK A, B, none, w : /\ A = [n \in DOMAIN F |-> F[n].body] /\ B = [n \in DOMAIN G |-> G[n].body]
                     /\ none = <<>> /\ w = Head(Append(B, none))
  OBVIOUS
<1>9. IsSeq(A) /\ Len(A) = N /\ \A k \in 1 .. N : A[k] = cases[tried[k]].body
  <2>1. DOMAIN A = 1 .. N /\ A = [n \in DOMAIN A |-> A[n]]
    BY <1>7, <1>8
  <2>2. \A k \in 1 .. N : A[k] = cases[tried[k]].body
    BY <1>5, <1>7, <1>8
  <2> QED
    BY <2>1, <2>2, Mapped
<1>10. IsSeq(B) /\ Len(B) = M /\ DOMAIN B = 1 .. M /\ \A k \in 1 .. M : B[k] = cases[caught[k]].body
  <2>1. DOMAIN B = 1 .. M /\ B = [n \in DOMAIN B |-> B[n]]
    BY <1>7, <1>8
  <2>2. \A k \in 1 .. M : B[k] = cases[caught[k]].body
    BY <1>6, <1>7, <1>8
  <2> QED
    BY <2>1, <2>2, Mapped
<1>11. w = Default(cases)
  <2>1. PICK q : q = Append(B, none)
    OBVIOUS
  <2>2. IsSeq(q) /\ Len(q) = M + 1 /\ \A i \in 1 .. M : q[i] = B[i] /\ q[M + 1] = none
    BY <1>10, <2>1, Appended
  <2>3. q # <<>> /\ w = q[1]
    <3>1. q # <<>>
      BY <2>2, IsSeqLen
    <3>2. Head(q) = q[1]
      BY <2>2, <3>1, Tailed
    <3> QED
      BY <1>8, <2>1, <3>1, <3>2
  <2>4. CASE M = 0
    <3>1. caught = <<>>
      BY <1>6, <1>7, <2>4, IsSeqLen
    <3>2. C = {}
      BY <1>2, <1>6, <3>1
    <3>3. q[1] = none
      <4>1. q[Len(B) + 1] = none
        BY <1>10, <2>1, Appended
      <4> QED
        BY <1>10, <2>4, <4>1
    <3> QED
      BY <1>8, <2>3, <3>2, <3>3 DEF Default
  <2>5. CASE M # 0
    <3>1. caught # <<>> /\ 1 \in 1 .. M
      BY <1>6, <1>7, <2>5, IsSeqLen
    <3>2. caught[1] \in C /\ \A i \in C : caught[1] <= i
      BY <1>2, <1>6, <3>1
    <3>3. C \subseteq Nat
      <4>1. DOMAIN cases \subseteq Nat
        BY <1>1, IsSeqLen
      <4> QED
        BY <1>2, <4>1
    <3>4. FirstOf(C) = caught[1]
      BY <3>2, <3>3, FirstIs
    <3>5. q[1] = cases[caught[1]].body
      BY <1>10, <2>2, <3>1
    <3> QED
      BY <2>3, <3>2, <3>4, <3>5 DEF Default
  <2> QED
    BY <2>4, <2>5
<1>12. PICK alts, last : last = <<w>> /\ alts = A \o last
  OBVIOUS
<1>13. /\ Len(alts) = N + 1 /\ \A k \in 1 .. N : alts[k] = A[k]
       /\ alts[N + 1] = w
  <2>1. IsSeq(last) /\ Len(last) = 1 /\ DOMAIN last = {1} /\ last[1] = w
    BY <1>12, One
  <2>2. DOMAIN A = 1 .. N
    BY <1>9, IsSeqLen
  <2>3. Joins(alts, A, last)
    BY <1>9, <1>12, <2>1, Joined
  <2> QED
    BY <1>9, <2>1, <2>2, <2>3 DEF Joins
<1>14. Unfolded(t) = <<Do(t.cond), Choice(alts)>>
  BY <1>4, <1>8, <1>12 DEF Unfolded
<1>15. Tried(cases) = tried
  BY <1>4 DEF Tried
<1> QED
  BY <1>5, <1>7, <1>9, <1>11, <1>13, <1>14, <1>15

(* The blocks tos go on with the alternatives, and then with c.            *)
LeadTo(K, tos, alts, c) ==
  /\ IsSeq(tos) /\ Len(alts) = Len(tos) + 1
  /\ \A k \in DOMAIN tos : tos[k] \in DOMAIN K /\ K[tos[k]] = alts[k] \o c

(* The choice of a match, where the blocks go on as they should.           *)
LEMMA MatchCloses ==
  ASSUME NEW K, NEW F, NEW c, IsSeq(c), NEW alts, NEW tos, LeadTo(K, tos, alts, c),
         NEW o \in DOMAIN K, K[o] = alts[Len(tos) + 1] \o c
  PROVE  /\ Closes(K, F, <<Choice(alts)>> \o c, SwitchInt(tos, o))
         /\ SwitchInt(tos, o) # Unreachable
<1>0. PICK m, h, t, q : m = <<h>> \o c /\ h = Choice(alts) /\ t = SwitchInt(tos, o) /\ q = Append(tos, o)
  OBVIOUS
<1>1. m # <<>> /\ Head(m) = h /\ Tail(m) = c
  BY <1>0, Consed
<1>2. PICK N \in Nat : N = Len(tos) /\ DOMAIN tos = 1 .. N
  BY IsSeqLen DEF LeadTo
<1>3. Len(q) = N + 1 /\ DOMAIN q = 1 .. N + 1 /\ (\A k \in 1 .. N : q[k] = tos[k]) /\ q[N + 1] = o
  BY <1>0, <1>2, Appended DEF LeadTo
<1>4. t.kind = "switch" /\ t.to = q
  BY <1>0 DEF SwitchInt
<1>5. h.kind = "choice" /\ h.alternatives = alts
  BY <1>0 DEF Choice
<1>6. NextOf(m) = <<"choice", Len(t.to)>>
  <2>1. NextOf(m) = <<"choice", Len(h.alternatives)>>
    BY <1>1, <1>5 DEF NextOf
  <2> QED
    BY <1>2, <1>3, <1>4, <1>5, <2>1 DEF LeadTo
<1>7. \A n \in DOMAIN t.to : t.to[n] \in DOMAIN K /\ K[t.to[n]] = Head(m).alternatives[n] \o Tail(m)
  <2> SUFFICES ASSUME NEW n \in 1 .. N + 1 PROVE q[n] \in DOMAIN K /\ K[q[n]] = alts[n] \o c
    BY <1>1, <1>3, <1>4, <1>5
  <2>1. CASE n \in 1 .. N
    BY <1>2, <1>3, <2>1 DEF LeadTo
  <2>2. CASE n = N + 1
    BY <1>2, <1>3, <2>2
  <2> QED
    BY <2>1, <2>2
<1>8. Closes(K, F, m, t)
  BY <1>4, <1>6, <1>7, PathSelf DEF Closes
<1>9. t # Unreachable
  BY <1>4 DEF Unreachable
<1> QED
  BY <1>0, <1>8, <1>9

(* Nothing gets here; z is where all the cases go on.                      *)
Dead(z, due) == St(FALSE, <<>>, z.loops, due)

(* A case: its block, its body, and the jump to the merge block.           *)
LEMMA CaseThread ==
  ASSUME NEW S, Grammar(S), NEW body \in Seq(S), NEW K, NEW E, NEW z, Valid(K, z), z.live,
         NEW due, due \subseteq DOMAIN K, NEW a \in due, K[a] = z.src,
         NEW b \in due, b # a, K[b] = body \o z.src
  PROVE  Thread(K, E, <<Start(b)>> \o body \o <<Jump(a)>>, Dead(z, due), Dead(z, due \ {b}))
<1> PICK less, c, loops : less = due \ {b} /\ c = z.src /\ loops = z.loops
  OBVIOUS
<1>1. PICK x, u, v, y : /\ x = Dead(z, due) /\ u = St(TRUE, body \o c, loops, less)
                        /\ v = St(TRUE, c, loops, less) /\ y = Dead(z, less)
  OBVIOUS
<1>2. /\ less \subseteq DOMAIN K /\ a \in less
  OBVIOUS
<1>3. Valid(K, v)
  <2>1. z = St(TRUE, c, loops, z.due)
    BY DEF Valid
  <2>2. Valid(K, St(TRUE, c, loops, z.due))
    BY <2>1
  <2>3. Valid(K, St(TRUE, c, loops, less))
    BY <1>2, <2>2, ValidDue
  <2> QED
    BY <1>1, <2>3
<1>4. Thread(K, E, body, u, v) /\ IsSeq(body)
  <2>1. Valid(K, St(TRUE, c, loops, less))
    BY <1>1, <1>3
  <2>2. /\ Thread(K, E, body, St(TRUE, body \o c, loops, less), St(TRUE, c, loops, less))
        /\ IsSeq(body)
    BY <2>1, BodyThread
  <2> QED
    BY <1>1, <2>2
<1>5. Valid(K, x) /\ Valid(K, y)
  <2>1. Valid(K, St(FALSE, <<>>, z.loops, due)) /\ Valid(K, St(FALSE, <<>>, z.loops, less))
    BY <1>2, ValidDead
  <2> QED
    BY <1>1, <2>1 DEF Dead
<1>6. Goes(K, E, Start(b), x, u)
  <2>1. Valid(K, u)
    BY <1>4 DEF Thread
  <2>2. x.live = FALSE /\ x.loops = loops /\ x.due = due
    BY <1>1 DEF Dead, St
  <2>3. u = St(TRUE, K[b], x.loops, x.due \ {b})
    BY <1>1, <2>2
  <2>4. Start(b).kind = "start" /\ Start(b).block = b
    BY DEF Start
  <2>5. Starts(K, Start(b), x, u)
    BY <2>2, <2>3, <2>4 DEF Starts
  <2> QED
    BY <1>5, <2>1, <2>5 DEF Goes
<1>7. Goes(K, E, Jump(a), v, y)
  <2>1. v.live = TRUE /\ v.loops = loops /\ v.due = less /\ v.src = c
    BY <1>1 DEF St
  <2>2. y = St(FALSE, <<>>, v.loops, v.due)
    BY <1>1, <2>1 DEF Dead
  <2>3. Jump(a).kind = "jump" /\ Jump(a).block = a
    BY DEF Jump
  <2>4. Jumps(K, E, Jump(a), v, y)
    BY <1>2, <2>1, <2>2, <2>3 DEF Jumps
  <2> QED
    BY <1>3, <1>5, <2>4 DEF Goes
<1>8. PICK p, q : p = <<Start(b)>> /\ q = <<Jump(a)>>
  OBVIOUS
<1>9. Thread(K, E, p, x, u) /\ Thread(K, E, q, v, y)
  BY <1>6, <1>7, <1>8, ThreadOne
<1>10. Thread(K, E, p \o body, x, v)
  BY <1>4, <1>9, ThreadConcat
<1>11. Thread(K, E, (p \o body) \o q, x, y)
  BY <1>9, <1>10, ThreadConcat
<1> QED
  BY <1>1, <1>8, <1>11

(* The tasks of all the cases, by induction on how many there are.         *)
LEMMA CasesThread ==
  ASSUME NEW S, Grammar(S), NEW cases, cases \in Seq([catchall : BOOLEAN, body : Seq(S)]),
         NEW K, NEW E, NEW z, Valid(K, z), z.live, NEW L \in Nat, NEW before \in Nat,
         NEW due, due \subseteq DOMAIN K, NEW a \in due, K[a] = z.src,
         \A i \in DOMAIN cases :
           /\ L + (before + i) \in DOMAIN K /\ L + (before + i) \notin due
           /\ K[L + (before + i)] = cases[i].body \o z.src
  PROVE  Thread(K, E, Seqs!FlattenSeq(CaseTasks(cases, L, before, a)),
                Dead(z, due \cup CaseStarts(cases, L, before)), Dead(z, due))
<1> DEFINE one(i) == <<Start(L + (before + i))>> \o cases[i].body \o <<Jump(a)>>
           lowered == [i \in DOMAIN cases |-> one(i)]
           N == Len(cases)
           left(i) == due \cup {L + (before + k) : k \in i + 1 .. N}
<1>1. N \in Nat /\ DOMAIN cases = 1 .. N
  OBVIOUS
<1>2. ASSUME NEW i \in Nat, i + 1 \in 1 .. N
      PROVE  Thread(K, E, one(i + 1), Dead(z, left(i)), Dead(z, left(i + 1)))
  <2>0. PICK body, b, more, less : /\ body = cases[i + 1].body /\ b = L + (before + (i + 1))
                                   /\ more = left(i) /\ less = left(i + 1)
    OBVIOUS
  <2>1. body \in Seq(S)
    <3> PICK R : R = [catchall : BOOLEAN, body : Seq(S)]
      OBVIOUS
    <3>1. cases \in Seq(R)
      OBVIOUS
    <3>2. cases[i + 1] \in R
      BY <1>1, <1>2, <3>1, ElementOfSeq
    <3> QED
      BY <2>0, <3>2
  <2>2. more \subseteq DOMAIN K /\ b \in more /\ b # a /\ a \in more /\ K[b] = body \o z.src
    <3>0. PICK j : j = i + 1
      OBVIOUS
    <3>1. b \in DOMAIN K /\ b \notin due /\ K[b] = body \o z.src
      <4>1. j \in DOMAIN cases /\ body = cases[j].body /\ b = L + (before + j)
        BY <1>1, <1>2, <2>0, <3>0
      <4>2. /\ L + (before + j) \in DOMAIN K /\ L + (before + j) \notin due
            /\ K[L + (before + j)] = cases[j].body \o z.src
        BY <4>1
      <4> QED
        BY <4>1, <4>2
    <3>2. \A k \in i + 1 .. N : L + (before + k) \in DOMAIN K
      <4>1. \A k \in i + 1 .. N : k \in DOMAIN cases
        BY <1>1
      <4>2. \A k \in DOMAIN cases : L + (before + k) \in DOMAIN K
        OBVIOUS
      <4> QED
        BY <4>1, <4>2
    <3>3. i + 1 \in i + 1 .. N
      BY <1>1, <1>2
    <3> QED
      BY <2>0, <3>1, <3>2, <3>3
  <2>3. less = more \ {b}
    <3>1. i + 1 .. N = {i + 1} \cup ((i + 1) + 1 .. N)
      BY <1>1, <1>2
    <3>2. \A k \in (i + 1) + 1 .. N : L + (before + k) # b
      BY <1>1, <1>2, <2>0
    <3>3. b \notin due
      BY <1>1, <1>2, <2>0
    <3> QED
      BY <2>0, <3>1, <3>2, <3>3, Zenon
  <2>4. Thread(K, E, <<Start(b)>> \o body \o <<Jump(a)>>, Dead(z, more), Dead(z, more \ {b}))
    BY <2>1, <2>2, CaseThread
  <2>5. one(i + 1) = <<Start(b)>> \o body \o <<Jump(a)>>
    BY <2>0
  <2> QED
    BY <2>0, <2>3, <2>4, <2>5
<1> HIDE DEF one
<1>3. IsSeq(lowered) /\ Len(lowered) = N /\ \A i \in 1 .. N : lowered[i] = one(i)
  <2>1. DOMAIN lowered = 1 .. N /\ lowered = [i \in DOMAIN lowered |-> lowered[i]]
    BY <1>1
  <2>2. \A i \in 1 .. N : lowered[i] = one(i)
    BY <1>1
  <2> HIDE DEF lowered
  <2> QED
    BY <1>1, <2>1, <2>2, Mapped
<1>4. left(0) = due \cup CaseStarts(cases, L, before) /\ left(N) = due
  BY <1>1 DEF CaseStarts
<1> SUFFICES Thread(K, E, Seqs!FlattenSeq(lowered), Dead(z, left(0)), Dead(z, left(N)))
  BY <1>4 DEF CaseTasks, one
<1> HIDE DEF left
<1>5. CASE N = 0
  <2>1. Seqs!FlattenSeq(lowered) = <<>>
    <3>1. Seqs!FlattenSeq(lowered) = lowered
      BY <1>3, <1>5 DEF Seqs!FlattenSeq
    <3>2. lowered = <<>>
      BY <1>3, <1>5, IsSeqLen
    <3> QED
      BY <3>1, <3>2
  <2>2. Valid(K, Dead(z, left(0)))
    BY <1>4, <1>5, ValidDead DEF Dead
  <2> QED
    BY <1>5, <2>1, <2>2, ThreadNone
<1>6. CASE N # 0
  <2>0. lowered # <<>>
    BY <1>1, <1>3, <1>6, IsSeqLen
  <2>1. PICK f : /\ DOMAIN f = 1 .. N /\ f[1] = lowered[1]
                 /\ \A i \in 2 .. N : f[i] = f[i - 1] \o lowered[i]
                 /\ Seqs!FlattenSeq(lowered) = f[N]
    BY <1>3, <2>0, FlattenedInSteps
  <2> HIDE DEF lowered
  <2> DEFINE T == {i \in Nat : i \in 1 .. N => Thread(K, E, f[i], Dead(z, left(0)), Dead(z, left(i)))}
  <2>2. 0 \in T
    OBVIOUS
  <2>3. ASSUME NEW i \in Nat, i \in T PROVE i + 1 \in T
    <3> SUFFICES ASSUME i + 1 \in 1 .. N
                 PROVE  Thread(K, E, f[i + 1], Dead(z, left(0)), Dead(z, left(i + 1)))
      OBVIOUS
    <3>1. Thread(K, E, one(i + 1), Dead(z, left(i)), Dead(z, left(i + 1)))
      BY <1>2
    <3>2. CASE i = 0
      <4>1. f[i + 1] = one(i + 1)
        BY <1>1, <1>3, <1>6, <2>1, <3>2
      <4> QED
        BY <3>1, <3>2, <4>1
    <3>3. CASE i # 0
      <4>1. i \in 1 .. N /\ i + 1 \in 2 .. N /\ (i + 1) - 1 = i
        BY <1>1, <3>3
      <4>2. f[i + 1] = f[i] \o one(i + 1)
        BY <1>3, <2>1, <4>1
      <4>3. Thread(K, E, f[i], Dead(z, left(0)), Dead(z, left(i)))
        BY <2>3, <4>1
      <4> QED
        BY <3>1, <4>2, <4>3, ThreadConcat
    <3> QED
      BY <3>2, <3>3
  <2>4. N \in T
    <3> HIDE DEF T
    <3>1. Nat \subseteq T
      BY <2>2, <2>3, Inducted
    <3> QED
      BY <1>1, <3>1
  <2>5. Thread(K, E, f[N], Dead(z, left(0)), Dead(z, left(N)))
    <3>1. N \in 1 .. N
      BY <1>1, <1>6
    <3> QED
      BY <2>4, <3>1
  <2> QED
    BY <2>1, <2>5
<1> QED
  BY <1>5, <1>6

(* n new blocks that are not finished.                                     *)
LEMMA AllBare ==
  ASSUME NEW n \in Nat
  PROVE  /\ IsSeq(Fresh(n)) /\ Len(Fresh(n)) = n /\ DOMAIN Fresh(n) = 1 .. n
         /\ Filled(Fresh(n)) = {} /\ Bare(Fresh(n)) = {Len(blocks) + i : i \in 1 .. n}
         /\ \A i \in DOMAIN Fresh(n) : Fresh(n)[i].term = Unreachable
<1>0. PICK new : new = Fresh(n)
  OBVIOUS
<1>1. /\ IsSeq(new) /\ Len(new) = n /\ DOMAIN new = 1 .. n
      /\ \A i \in DOMAIN new : new[i].term = Unreachable
  BY <1>0, Placeholders
<1>2. {j \in DOMAIN new : new[j].term = Unreachable} = 1 .. n
  BY <1>1
<1>3. {j \in DOMAIN new : new[j].term # Unreachable /\ new[j].stmts # <<>>} = {}
  BY <1>1
<1>4. Filled(new) = {}
  BY <1>3 DEF Filled
<1>5. Bare(new) = {Len(blocks) + i : i \in 1 .. n}
  BY <1>2 DEF Bare
<1> QED
  BY <1>0, <1>1, <1>4, <1>5

(* Where the blocks of a match begin: the merge block and the block for no *)
(* match behind it, each case in front of that.                            *)
CaseSource(cases, before, c) ==
  [j \in 1 .. before + Len(cases) |-> IF j <= before THEN c ELSE cases[j - before].body \o c]

(* What the source has to do where they begin.                             *)
WithCases(K, L, cases, before, c) ==
  Longer(K, L, before + Len(cases), CaseSource(cases, before, c))

(* The blocks of M are what they should be.                                *)
Beginning(M, L, cases, before, c) ==
  /\ \A i \in 1 .. before : L + i \in DOMAIN M /\ M[L + i] = c
  /\ \A i \in DOMAIN cases : /\ L + (before + i) \in DOMAIN M
                             /\ M[L + (before + i)] = cases[i].body \o c

(* They do.                                                                *)
LEMMA CaseSources ==
  ASSUME NEW K, NEW L \in Nat, DOMAIN K = 1 .. L, NEW cases, IsSeq(cases), NEW before \in Nat, NEW c
  PROVE  LET M == WithCases(K, L, cases, before, c)
         IN  /\ DOMAIN M = 1 .. L + (before + Len(cases)) /\ Extends(K, M)
             /\ Beginning(M, L, cases, before, c)
<1> PICK N \in Nat : N = Len(cases) /\ DOMAIN cases = 1 .. N
  BY IsSeqLen
<1> PICK n \in Nat : n = before + N
  OBVIOUS
<1> PICK add : add = CaseSource(cases, before, c)
  OBVIOUS
<1>1. \A j \in 1 .. n : add[j] = IF j <= before THEN c ELSE cases[j - before].body \o c
  BY DEF CaseSource
<1>m. PICK M : M = Longer(K, L, n, add)
  OBVIOUS
<1>2. DOMAIN M = 1 .. L + n /\ Extends(K, M) /\ \A j \in 1 .. n : M[L + j] = add[j]
  BY <1>m, More
<1>3. \A j \in 1 .. n : L + j \in DOMAIN M
  BY <1>2
<1>5. ASSUME NEW i \in 1 .. before PROVE L + i \in DOMAIN M /\ M[L + i] = c
  <2>1. i \in 1 .. n /\ i <= before
    OBVIOUS
  <2> QED
    BY <1>1, <1>2, <1>3, <2>1
<1>7. ASSUME NEW i \in DOMAIN cases
      PROVE  L + (before + i) \in DOMAIN M /\ M[L + (before + i)] = cases[i].body \o c
  <2>0. PICK j : j = before + i
    OBVIOUS
  <2>1. j \in 1 .. n /\ ~(j <= before) /\ j - before = i
    BY <2>0
  <2>2. add[j] = cases[i].body \o c
    BY <1>1, <2>1
  <2> QED
    BY <1>2, <1>3, <2>0, <2>1, <2>2
<1>8. M = WithCases(K, L, cases, before, c)
  BY <1>m DEF WithCases
<1> QED
  BY <1>2, <1>5, <1>7, <1>8 DEF Beginning

(* The block for no match, if there is one, and the merge block.           *)
LEMMA MergeThread ==
  ASSUME NEW S, Grammar(S), NEW K, NEW E, NEW z, Valid(K, z), z.live, IsSeq(z.src),
         NEW a \in DOMAIN K, a \notin z.due, K[a] = z.src, NEW b \in DOMAIN K, b \notin z.due, b # a,
         K[b] = z.src
  PROVE  /\ Thread(K, E, <<Start(a)>>, Dead(z, z.due \cup {a}), z)
         /\ Thread(K, E, <<Start(b), Jump(a)>>, Dead(z, (z.due \cup {a}) \cup {b}), Dead(z, z.due \cup {a}))
<1> PICK due, all : due = z.due \cup {a} /\ all = due \cup {b}
  OBVIOUS
<1>1. due \subseteq DOMAIN K /\ all \subseteq DOMAIN K /\ due = all \ {b} /\ a \in all /\ b \in all
      /\ due \ {a} = z.due
  BY DEF Valid
<1>2. PICK x : x = Dead(z, due)
  OBVIOUS
<1>3. Valid(K, x) /\ x.live = FALSE /\ x.loops = z.loops /\ x.due = due
  <2>1. Valid(K, St(FALSE, <<>>, z.loops, due))
    BY <1>1, ValidDead
  <2> QED
    BY <1>2, <2>1 DEF Dead, St
<1>4. z = St(TRUE, z.src, z.loops, z.due)
  BY DEF Valid
<1>5. Starts(K, Start(a), x, z)
  <2>1. Start(a).kind = "start" /\ Start(a).block = a
    BY DEF Start
  <2>2. z = St(TRUE, K[a], x.loops, x.due \ {a})
    BY <1>1, <1>3, <1>4
  <2>3. a \in x.due /\ ~x.live
    BY <1>3
  <2> QED
    BY <2>1, <2>2, <2>3 DEF Starts
<1>6. Goes(K, E, Start(a), x, z)
  BY <1>3, <1>5 DEF Goes
<1>7. Thread(K, E, <<Start(a)>>, x, z)
  BY <1>6, ThreadOne
<1>8. PICK none : none = <<>>
  OBVIOUS
<1>9. none \in Seq(S) /\ none \o z.src = z.src
  BY <1>8, ConcatEmptySeq DEF IsSeq
<1>10. Thread(K, E, <<Start(b)>> \o none \o <<Jump(a)>>, Dead(z, all), Dead(z, all \ {b}))
  BY <1>1, <1>9, CaseThread
<1>11. <<Start(b)>> \o none \o <<Jump(a)>> = <<Start(b), Jump(a)>>
  <2>1. <<Start(b)>> \o <<>> = <<Start(b)>>
    <3>1. IsSeq(<<Start(b)>>)
      BY One
    <3> QED
      BY <3>1, ConcatEmptySeq DEF IsSeq
  <2>2. <<Start(b)>> \o <<Jump(a)>> = <<Start(b), Jump(a)>>
    BY TwoIs
  <2> QED
    BY <1>8, <2>1, <2>2
<1>12. Thread(K, E, <<Start(b), Jump(a)>>, Dead(z, all), Dead(z, due))
  BY <1>1, <1>10, <1>11
<1> QED
  BY <1>2, <1>7, <1>12

(* match.                                                                  *)
LEMMA MatchCarries ==
  ASSUME NEW S, LowInv(S), Unclobbered, Followed, LowerMatch
  PROVE  Followed'
<1> DEFINE L0 == Len(blocks)
           cases0 == Task.cases
           C0 == Catchalls(cases0)
           before0 == IF C0 # {} THEN 1 ELSE 2
           o0 == IF C0 # {} THEN L0 + (before0 + FirstOf(C0)) ELSE L0 + 2
           tos0 == [k \in DOMAIN Tried(cases0) |-> L0 + (before0 + Tried(cases0)[k])]
           term0 == SwitchInt(tos0, o0)
           stmts0 == <<Task.cond>>
           new0 == Fresh(before0 + Len(cases0))
           bodies0 == Seqs!FlattenSeq(CaseTasks(cases0, L0, before0, L0 + 1))
           noMatch0 == IF C0 # {} THEN <<>> ELSE <<Start(L0 + 2), Jump(L0 + 1)>>
           join0 == <<Start(L0 + 1)>>
           p0 == (bodies0 \o noMatch0) \o join0
<1>0. /\ phase = "lower" /\ todo # <<>> /\ Task.kind = "match"
      /\ blocks' = Flushed(stmts0, term0) \o new0 /\ todo' = p0 \o Rest
      /\ cur_stmts' = <<>> /\ UNCHANGED <<cur, loop_ctx, program, src, at, pos>>
  BY DEF LowerMatch, At, Lowers, runVars, New, CaseTasks, Tried, Places
<1>a. PICK t, cases, C : t = Task /\ cases = t.cases /\ C = Catchalls(cases)
  OBVIOUS
<1>b. PICK L \in Nat : L = Len(blocks) /\ DOMAIN blocks = 1 .. L
  BY <1>0, Here
<1>c. PICK before \in {1, 2} : before = IF C # {} THEN 1 ELSE 2
  OBVIOUS
<1>d. PICK o : o = IF C # {} THEN L + (before + FirstOf(C)) ELSE L + 2
  OBVIOUS
<1>e. PICK tos : tos = [k \in DOMAIN Tried(cases) |-> L + (before + Tried(cases)[k])]
  OBVIOUS
<1>f. PICK term, stmts, new : /\ term = SwitchInt(tos, o) /\ stmts = <<t.cond>>
                              /\ new = Fresh(before + Len(cases))
  OBVIOUS
<1>g. PICK bodies : bodies = Seqs!FlattenSeq(CaseTasks(cases, L, before, L + 1))
  OBVIOUS
<1>j. PICK noMatch : noMatch = IF C # {} THEN <<>> ELSE <<Start(L + 2), Jump(L + 1)>>
  OBVIOUS
<1>l. PICK join : join = <<Start(L + 1)>>
  OBVIOUS
<1>h. PICK p : p = (bodies \o noMatch) \o join
  OBVIOUS
<1>1. /\ phase = "lower" /\ todo # <<>> /\ Task.kind = "match" /\ t.kind = "match"
      /\ blocks' = Flushed(stmts, term) \o new /\ todo' = p \o Rest
      /\ cur_stmts' = <<>> /\ UNCHANGED <<cur, loop_ctx, program, src, at, pos>>
  <2>1. L0 = L /\ cases0 = cases /\ C0 = C /\ before0 = before /\ o0 = o
    BY <1>a, <1>b, <1>c, <1>d
  <2>2. tos0 = tos /\ stmts0 = stmts /\ new0 = new /\ term0 = term
    BY <2>1, <1>a, <1>e, <1>f
  <2>3. bodies0 = bodies /\ noMatch0 = noMatch /\ join0 = join
    BY <2>1, <1>g, <1>j, <1>l
  <2>4. p0 = p
    BY <2>3, <1>h
  <2> HIDE DEF L0, cases0, C0, before0, o0, tos0, stmts0, new0, term0, bodies0, noMatch0, join0, p0
  <2> QED
    BY <1>0, <1>a, <2>2, <2>4
<1> HIDE DEF L0, cases0, C0, before0, o0, tos0, stmts0, new0, term0, bodies0, noMatch0, join0, p0
<1> PICK K, Q, N, x : Follows(K, Q, N, x)
  BY DEF Followed
<1>2. PICK z : Thread(K, Busy, Rest, z, Last) /\ Valid(K, x) /\ Valid(K, z) /\ Does(Task, x, z)
  BY <1>1, AtHand DEF Plain
<1>3. /\ x.live /\ x.src = <<t>> \o z.src /\ x.loops = z.loops /\ x.due = z.due
      /\ IsSeq(z.src) /\ z.live
  BY <1>2, <1>a, Next1
<1>4. DOMAIN K = 1 .. L /\ z.due \subseteq 1 .. L /\ cur \in 1 .. L /\ cur \notin z.due
  BY <1>1, <1>2, <1>3, <1>b, Here DEF Follows, Valid, Stands
<1>i. PICK c : c = z.src
  OBVIOUS
<1>5. Grammar(S) /\ cases \in Seq([catchall : BOOLEAN, body : Seq(S)])
  BY <1>1, <1>a, Here DEF TaskOK, Grammar
<1>6. IsSeq(cases) /\ \A i \in DOMAIN cases : cases[i].catchall \in BOOLEAN
  <2> PICK R : R = [catchall : BOOLEAN, body : Seq(S)]
    OBVIOUS
  <2>1. cases \in Seq(R)
    BY <1>5
  <2>2. IsSeq(cases) /\ \A i \in DOMAIN cases : cases[i] \in R
    <3>1. IsSeq(cases) /\ DOMAIN cases = 1 .. Len(cases)
      BY <2>1, SeqIs
    <3>2. \A i \in 1 .. Len(cases) : cases[i] \in R
      BY <2>1, ElementOfSeq
    <3> QED
      BY <3>1, <3>2
  <2> QED
    BY <2>2
<1>n. PICK n \in Nat : n = Len(cases) /\ DOMAIN cases = 1 .. n
  BY <1>6, IsSeqLen
<1>7. PICK M : /\ DOMAIN M = 1 .. L + (before + Len(cases)) /\ Extends(K, M)
               /\ L + 1 \in DOMAIN M /\ M[L + 1] = c
               /\ before = 2 => L + 2 \in DOMAIN M /\ M[L + 2] = c
               /\ \A i \in DOMAIN cases : /\ L + (before + i) \in DOMAIN M
                                          /\ M[L + (before + i)] = cases[i].body \o c
  <2>m. PICK M : M = WithCases(K, L, cases, before, c)
    OBVIOUS
  <2>1. DOMAIN K = 1 .. L /\ IsSeq(cases)
    BY <1>4, <1>6
  <2>2. /\ DOMAIN M = 1 .. L + (before + Len(cases)) /\ Extends(K, M)
        /\ L + 1 \in DOMAIN M /\ M[L + 1] = c
        /\ before = 2 => L + 2 \in DOMAIN M /\ M[L + 2] = c
        /\ \A i \in DOMAIN cases : /\ L + (before + i) \in DOMAIN M
                                   /\ M[L + (before + i)] = cases[i].body \o c
    <3>1. before \in Nat
      OBVIOUS
    <3>2. /\ DOMAIN M = 1 .. L + (before + Len(cases)) /\ Extends(K, M)
          /\ Beginning(M, L, cases, before, c)
      BY <2>m, <2>1, <3>1, CaseSources
    <3>3. 1 \in 1 .. before /\ (before = 2 => 2 \in 1 .. before)
      OBVIOUS
    <3> QED
      BY <3>2, <3>3 DEF Beginning
  <2> QED
    BY <2>2
<1>8. /\ IsSeq(new) /\ Len(new) = before + n /\ DOMAIN new = 1 .. before + n
      /\ Filled(new) = {} /\ Bare(new) = {L + i : i \in 1 .. before + n}
      /\ \A i \in DOMAIN new : new[i].term = Unreachable
  <2>1. before + n \in Nat /\ new = Fresh(before + n)
    BY <1>f, <1>n
  <2> QED
    BY <2>1, <1>b, AllBare
(* What the source does. *)
<1>9. PICK alts : /\ Unfolded(t) = <<Do(t.cond), Choice(alts)>>
                  /\ Len(alts) = Len(Tried(cases)) + 1 /\ Len(Tried(cases)) \in Nat
                  /\ \A k \in 1 .. Len(Tried(cases)) :
                       /\ Tried(cases)[k] \in DOMAIN cases
                       /\ alts[k] = cases[Tried(cases)[k]].body
                  /\ alts[Len(Tried(cases)) + 1] = Default(cases)
  BY <1>1, <1>6, <1>a, MatchUnfolds
<1>m. PICK d, h, m : d = Do(t.cond) /\ h = Choice(alts) /\ m = <<h>> \o c
  OBVIOUS
<1>10. Finishes(x.src, stmts, m)
  <2>u. PICK u : u = <<d>> \o m
    OBVIOUS
  <2>1. IsSeq(m) /\ IsSeq(<<d>>) /\ IsSeq(<<h>>)
    BY <1>3, <1>i, <1>m, Consed, One
  <2>2. Unfolded(t) \o c = u
    <3>1. Unfolded(t) = <<d>> \o <<h>>
      BY <1>9, <1>m, TwoIs
    <3>2. (<<d>> \o <<h>>) \o c = <<d>> \o (<<h>> \o c)
      BY <1>3, <1>i, <2>1, Associated
    <3> QED
      BY <1>m, <2>u, <3>1, <3>2
  <2>3. u # <<>> /\ Head(u) = d /\ Tail(u) = m
    BY <2>1, <2>u, Consed
  <2>4. d.kind = "do" /\ d.event = t.cond
    BY <1>m DEF Do
  <2>5. NextOf(u) = <<"do", t.cond>>
    BY <2>3, <2>4 DEF NextOf
  <2>6. <<>> \o m = m
    BY <2>1, ConcatEmptySeq DEF IsSeq
  <2>7. Sees(u, t.cond, m)
    BY <2>3, <2>4, <2>5, <2>6 DEF Sees
  <2>8. Moves(x.src, u)
    <3>1. t.kind \in Structured
      BY <1>1 DEF Structured
    <3>2. Moves(<<t>> \o c, Unfolded(t) \o c)
      BY <1>3, <1>i, <3>1, Unfolds
    <3> QED
      BY <1>3, <1>i, <2>2, <3>2
  <2>9. Path(x.src, u)
    BY <2>8, PathSelf, PathMoves
  <2> QED
    BY <1>f, <2>7, <2>9 DEF Finishes
(* Where the graph goes. *)
<1>11. FirstOf(C) \in DOMAIN cases \/ C = {}
  <2>1. C \subseteq DOMAIN cases /\ DOMAIN cases \subseteq Nat
    BY <1>a, <1>n DEF Catchalls
  <2> QED
    BY <2>1, LeastOf
<1>12. o \in DOMAIN M /\ M[o] = Default(cases) \o c
  <2>1. CASE C = {}
    <3>1. before = 2 /\ o = L + 2 /\ Default(cases) = <<>>
      BY <2>1, <1>a, <1>c, <1>d DEF Default
    <3>2. <<>> \o c = c
      BY <1>3, <1>i, ConcatEmptySeq DEF IsSeq
    <3> QED
      BY <1>7, <3>1, <3>2
  <2>2. CASE C # {}
    <3>1. o = L + (before + FirstOf(C)) /\ Default(cases) = cases[FirstOf(C)].body
      BY <2>2, <1>a, <1>d DEF Default
    <3> QED
      BY <1>7, <1>11, <2>2, <3>1
  <2> QED
    BY <2>1, <2>2
<1>13. Closes(M, {}, m, term) /\ term # Unreachable
  <2>t. PICK J \in Nat : J = Len(Tried(cases))
    BY <1>9
  <2>s. PICK T : T = Tried(cases)
    OBVIOUS
  <2>1. DOMAIN T = 1 .. J
    <3>1. IsSeq(T)
      <4>1. PICK ids : ids = [i \in DOMAIN cases |-> i]
        OBVIOUS
      <4>2. IsSeq(ids)
        BY <4>1, <1>n, Mapped
      <4>3. T = Only(ids, DOMAIN cases \ Catchalls(cases))
        BY <4>1, <2>s DEF Tried, Places
      <4> QED
        BY <4>2, <4>3, OnlyElems
    <3> QED
      BY <2>s, <2>t, <3>1, IsSeqLen
  <2>2. DOMAIN tos = 1 .. J /\ tos = [k \in DOMAIN tos |-> tos[k]]
    BY <1>e, <2>s, <2>1
  <2>3. IsSeq(tos) /\ Len(tos) = J
    BY <2>2, Mapped
  <2>4. ASSUME NEW k \in 1 .. J PROVE tos[k] \in DOMAIN M /\ M[tos[k]] = alts[k] \o c
    <3>1. T[k] \in DOMAIN cases /\ alts[k] = cases[T[k]].body
      BY <1>9, <2>s, <2>t
    <3>2. tos[k] = L + (before + T[k])
      BY <1>e, <2>s, <2>1
    <3> QED
      BY <1>7, <3>1, <3>2
  <2>5. M[o] = alts[J + 1] \o c
    BY <1>9, <1>12, <2>t
  <2>6. Len(alts) = J + 1
    BY <1>9, <2>t
  <2>c. IsSeq(tos) /\ Len(alts) = Len(tos) + 1 /\ M[o] = alts[Len(tos) + 1] \o c
        /\ \A k \in DOMAIN tos : tos[k] \in DOMAIN M /\ M[tos[k]] = alts[k] \o c
    BY <2>2, <2>3, <2>4, <2>5, <2>6
  <2>8. LeadTo(M, tos, alts, c) /\ M[o] = alts[Len(tos) + 1] \o c
    BY <2>c DEF LeadTo
  <2>9. IsSeq(c) /\ o \in DOMAIN M
    BY <1>3, <1>i, <1>12, <2>3
  <2>e. PICK none : none = {}
    OBVIOUS
  <2>7. /\ Closes(M, none, <<Choice(alts)>> \o c, SwitchInt(tos, o))
        /\ SwitchInt(tos, o) # Unreachable
    BY <2>8, <2>9, MatchCloses
  <2> QED
    BY <1>f, <1>m, <2>e, <2>7
(* What the tasks lead to. *)
<1>u. PICK due, all : due = z.due \cup {L + 1} /\ all = IF C = {} THEN due \cup {L + 2} ELSE due
  OBVIOUS
<1>14. Valid(M, z)
  BY <1>2, <1>7, ValidGrows
<1>15. L + 1 \notin z.due /\ L + 2 \notin z.due
  BY <1>4, <1>b
<1>16. Thread(M, Busy, join, Dead(z, due), z) /\ Thread(M, Busy, noMatch, Dead(z, all), Dead(z, due))
  <2>a. PICK a, b : a = L + 1 /\ b = IF C = {} THEN L + 2 ELSE L + 1
    OBVIOUS
  <2>1. Thread(M, Busy, join, Dead(z, due), z) /\ (C = {} => Thread(M, Busy, noMatch, Dead(z, all), Dead(z, due)))
    <3>1. CASE C = {}
      <4>1. /\ a \in DOMAIN M /\ a \notin z.due /\ M[a] = z.src
            /\ b \in DOMAIN M /\ b \notin z.due /\ b # a /\ M[b] = z.src
        BY <1>7, <1>15, <1>a, <1>c, <1>i, <2>a, <3>1
      <4>2. /\ Thread(M, Busy, <<Start(a)>>, Dead(z, z.due \cup {a}), z)
            /\ Thread(M, Busy, <<Start(b), Jump(a)>>, Dead(z, (z.due \cup {a}) \cup {b}),
                      Dead(z, z.due \cup {a}))
        BY <1>3, <1>5, <1>14, <4>1, MergeThread
      <4> QED
        BY <1>j, <1>l, <1>u, <2>a, <3>1, <4>2
    <3>2. CASE C # {}
      <4>w. PICK w : w = Dead(z, due)
        OBVIOUS
      <4>1. a \in DOMAIN M /\ M[a] = z.src /\ due = z.due \cup {a} /\ z.due = due \ {a}
        BY <1>7, <1>15, <1>i, <1>u, <2>a
      <4>2. due \subseteq DOMAIN M
        BY <1>14, <4>1 DEF Valid
      <4>3. Valid(M, w) /\ w.live = FALSE /\ w.loops = z.loops /\ w.due = due
        <5>1. Valid(M, St(FALSE, <<>>, z.loops, due))
          BY <1>14, <4>2, ValidDead
        <5> QED
          BY <4>w, <5>1 DEF Dead, St
      <4>4. z = St(TRUE, M[a], w.loops, w.due \ {a})
        <5>1. z = St(z.live, z.src, z.loops, z.due) /\ z.live = TRUE
          BY <1>3, <1>14 DEF Valid
        <5> QED
          BY <4>1, <4>3, <5>1
      <4>5. Start(a).kind = "start" /\ Start(a).block = a /\ a \in w.due
        BY <4>1, <4>3 DEF Start
      <4>6. Starts(M, Start(a), w, z)
        BY <4>3, <4>4, <4>5 DEF Starts
      <4>7. Goes(M, Busy, Start(a), w, z)
        BY <1>14, <4>3, <4>6 DEF Goes
      <4>8. Thread(M, Busy, <<Start(a)>>, w, z)
        BY <4>7, ThreadOne
      <4> QED
        BY <1>l, <2>a, <3>2, <4>w, <4>8
    <3> QED
      BY <3>1, <3>2
  <2>2. C # {} => Thread(M, Busy, noMatch, Dead(z, all), Dead(z, due))
    <3> SUFFICES ASSUME C # {} PROVE Thread(M, Busy, noMatch, Dead(z, all), Dead(z, due))
      OBVIOUS
    <3>1. noMatch = <<>> /\ all = due
      BY <1>j, <1>u
    <3>2. Valid(M, Dead(z, due))
      BY <2>1 DEF Thread
    <3> QED
      BY <3>1, <3>2, ThreadNone
  <2> QED
    BY <2>1, <2>2
<1>y. PICK y : y = Dead(z, all \cup CaseStarts(cases, L, before))
  OBVIOUS
<1>17. Thread(M, Busy, bodies, y, Dead(z, all))
  <2>a. PICK a, u : a = L + 1 /\ u = before
    OBVIOUS
  <2>1. all \subseteq DOMAIN M /\ a \in all /\ M[a] = z.src
    <3>1. z.due \subseteq DOMAIN M
      BY <1>14 DEF Valid
    <3>2. L + 1 \in DOMAIN M /\ (C = {} => L + 2 \in DOMAIN M) /\ M[a] = z.src
      BY <1>7, <1>c, <1>i, <2>a
    <3> QED
      BY <1>u, <2>a, <3>1, <3>2
  <2>2. ASSUME NEW i \in DOMAIN cases
        PROVE  /\ L + (u + i) \in DOMAIN M /\ L + (u + i) \notin all
               /\ M[L + (u + i)] = cases[i].body \o z.src
    <3>1. L + (u + i) \notin z.due /\ L + (u + i) # L + 1
      BY <1>4, <1>b, <1>c, <1>n, <2>a
    <3>2. C = {} => L + (u + i) # L + 2
      BY <1>b, <1>c, <1>n, <2>a
    <3>3. L + (u + i) \notin all
      BY <1>u, <3>1, <3>2
    <3>4. L + (u + i) \in DOMAIN M /\ M[L + (u + i)] = cases[i].body \o c
      BY <1>7, <2>a
    <3> QED
      BY <1>i, <3>3, <3>4
  <2>3. u \in Nat
    BY <1>c, <2>a
  <2>4. Thread(M, Busy, Seqs!FlattenSeq(CaseTasks(cases, L, u, a)),
               Dead(z, all \cup CaseStarts(cases, L, u)), Dead(z, all))
    BY <1>3, <1>5, <1>14, <2>1, <2>2, <2>3, CasesThread
  <2> QED
    BY <1>g, <1>y, <2>a, <2>4
<1>18. Thread(M, Busy \cup Filled(new), p, y, z)
  <2>1. Thread(M, Busy, bodies \o noMatch, y, Dead(z, due))
    BY <1>16, <1>17, ThreadConcat
  <2>2. Thread(M, Busy, p, y, z)
    BY <1>h, <1>16, <2>1, ThreadConcat
  <2>3. Busy \cup Filled(new) = Busy
    BY <1>8
  <2> QED
    BY <2>2, <2>3
<1>19. y.live = FALSE /\ y.loops = z.loops /\ y.due = x.due \cup Bare(new)
  <2>1. y.live = FALSE /\ y.loops = z.loops /\ y.due = all \cup CaseStarts(cases, L, before)
    BY <1>y DEF Dead, St
  <2>2. Bare(new) = {L + 1} \cup (IF C = {} THEN {L + 2} ELSE {}) \cup CaseStarts(cases, L, before)
    <3>1. \A i \in DOMAIN cases : before + i \in 1 .. before + n
      BY <1>n, <1>c
    <3>2. 1 \in 1 .. before + n /\ (C = {} => 2 \in 1 .. before + n)
      BY <1>n, <1>c
    <3>3. \A j \in 1 .. before + n : j = 1 \/ (C = {} /\ j = 2) \/ (j - before \in DOMAIN cases /\ j = before + (j - before))
      BY <1>n, <1>c
    <3>4. {L + 1} \cup (IF C = {} THEN {L + 2} ELSE {}) \cup CaseStarts(cases, L, before) \subseteq Bare(new)
      BY <1>8, <3>1, <3>2 DEF CaseStarts
    <3>5. ASSUME NEW j \in 1 .. before + n
          PROVE  L + j \in {L + 1} \cup (IF C = {} THEN {L + 2} ELSE {}) \cup CaseStarts(cases, L, before)
      BY <3>3 DEF CaseStarts
    <3> QED
      BY <1>8, <3>4, <3>5
  <2> QED
    BY <1>3, <1>u, <2>1, <2>2
<1>20. cur' = cur /\ cur' \notin y.due
  <2>1. \A i \in 1 .. before + n : cur # L + i
    BY <1>b, <1>4, <1>n, <1>c
  <2> QED
    BY <1>1, <1>3, <1>4, <1>8, <1>b, <1>19, <2>1
<1>21. InLoops(y)'
  <2>1. InLoops(x)
    BY DEF Follows
  <2> QED
    BY <1>1, <1>3, <1>19, <2>1 DEF InLoops
<1>k. PICK E, F : E = Busy \cup Filled(new) /\ F = E \cup x.due \cup Bare(new)
  OBVIOUS
<1>22. Closes(M, F, m, term)
  <2>1. {} \subseteq F /\ Extends(M, M)
    BY DEF Extends
  <2> QED
    BY <1>13, <2>1, ClosesGrows
<1>23. \A i \in DOMAIN new : new[i].term # Unreachable => Realizes(M, F, M[Len(blocks) + i], new[i])
  BY <1>8, <1>k
<1>24. \/ y.live /\ y.due \cup {cur'} = x.due \cup Bare(new) /\ M[cur'] = y.src
       \/ ~y.live /\ y.due = x.due \cup Bare(new)
  BY <1>19
<1>25. DOMAIN M = 1 .. Len(blocks) + Len(new) /\ Extends(K, M)
  BY <1>7, <1>8, <1>n, <1>b
<1>26. Task.kind # "start" /\ phase = "lower" /\ todo # <<>> /\ IsSeq(new) /\ cur_stmts' = <<>>
       /\ todo' = p \o Rest /\ UNCHANGED <<program, src, at, pos>> /\ term # Unreachable
       /\ blocks' = Flushed(stmts, term) \o new /\ x.live
  BY <1>1, <1>3, <1>8, <1>13
<1>27. Thread(M, E, p, y, z)
  BY <1>k, <1>18
<1> QED
  BY <1>2, <1>k, <1>10, <1>20, <1>21, <1>22, <1>23, <1>24, <1>25, <1>26, <1>27, FlushCarries

(* Before the first statement is lowered.                                  *)
LEMMA FollowedStarts ==
  ASSUME NEW S, Grammar(S), LowInit
  PROVE  Followed
<1> PICK c, K, Q, none : c = program.code /\ K = <<c>> /\ Q = <<0>> /\ none = <<>>
  OBVIOUS
<1> PICK x : x = St(TRUE, c, none, {})
  OBVIOUS
<1>1. c \in Seq(S) /\ IsSeq(c)
  BY SeqIs DEF LowInit, Grammar
<1>2. /\ blocks = <<Placeholder>> /\ cur = 1 /\ cur_stmts = none /\ loop_ctx = none /\ todo = c
      /\ src = c /\ at = 1 /\ pos = 1
  BY DEF LowInit
<1>3. DOMAIN blocks = {1} /\ blocks[1].term = Unreachable
  <2>1. DOMAIN <<Placeholder>> = {1} /\ <<Placeholder>>[1] = Placeholder
    BY One
  <2> QED
    BY <1>2, <2>1 DEF Placeholder, Block
<1>4. DOMAIN K = {1} /\ K[1] = c /\ DOMAIN Q = {1} /\ Q[1] = 0
  BY One
<1>5. Open(1) /\ Unfinished = {1}
  BY <1>3 DEF Open, Unfinished
<1>6. IsSeq(none) /\ Len(none) = 0 /\ DOMAIN none = {}
  BY EmptySeq DEF IsSeq
<1>7. Valid(K, Last)
  <2> PICK y : y = Last
    OBVIOUS
  <2>1. y.live = TRUE /\ y.src = none /\ y.loops = none /\ y.due = {} /\ y = St(y.live, y.src, y.loops, y.due)
    BY DEF Last, St
  <2>2. Within(none, none)
    BY <1>6 DEF Within, NoEnds
  <2> QED
    BY <1>6, <2>1, <2>2 DEF Valid
<1>8. Thread(K, Busy, todo, x, Last)
  <2>1. Valid(K, St(TRUE, none, none, {}))
    BY <1>7 DEF Last
  <2>2. Thread(K, Busy, c, St(TRUE, c \o none, none, {}), St(TRUE, none, none, {}))
    BY <1>1, <2>1, BodyThread
  <2>3. c \o none = c
    BY <1>1, ConcatEmptySeq DEF IsSeq
  <2>4. Last = St(TRUE, none, none, {})
    BY DEF Last
  <2> QED
    BY <1>2, <2>2, <2>3, <2>4
<1>9. x.live = TRUE /\ x.src = c /\ x.loops = none /\ x.due = {}
  BY DEF St
<1>10. Ordered(Q, 0)
  BY <1>3, <1>4, <1>5 DEF Ordered
<1>11. Right(K, Q)
  BY <1>3, <1>5 DEF Right
<1>12. Stands(K, x)
  <2>1. Trace(K[cur], cur_stmts, c) /\ Path(c, x.src)
    BY <1>2, <1>4, <1>9, TraceNone, PathSelf
  <2>2. Unfinished = x.due \cup {cur} /\ cur \notin x.due
    BY <1>2, <1>5, <1>9
  <2> QED
    BY <1>9, <2>1, <2>2 DEF Stands
<1>13. InLoops(x)
  BY <1>2, <1>6, <1>9 DEF InLoops
<1>14. Begins(K)
  BY <1>2, <1>3, <1>4 DEF Begins
<1>15. Follows(K, Q, 0, x)
  BY <1>3, <1>4, <1>8, <1>10, <1>11, <1>12, <1>13, <1>14 DEF Follows
<1> QED
  BY <1>15 DEF Followed

-----------------------------------------------------------------------------
(* No jump is to a block that is not finished.                              *)
Sealed ==
  \A b \in DOMAIN blocks : \A i \in DOMAIN blocks[b].term.to : ~Open(blocks[b].term.to[i])
(* The finished graph.                                                      *)
Built(K, Q, N) ==
  /\ DOMAIN K = DOMAIN blocks /\ DOMAIN Q = DOMAIN blocks /\ N \in Nat
  /\ \A b \in DOMAIN blocks : Q[b] \in Nat /\ Q[b] <= N
  /\ Right(K, Q)
  /\ Sealed

(* What block b has to do from its event p on is what there is to do in u.  *)
ToGo(K, F, b, p, u) ==
  /\ IsSeq(b.stmts) /\ p \in 1 .. Len(b.stmts) + 1
  /\ \E g : /\ Events(g, b.stmts) /\ Path(g[p], u)
            /\ Closes(K, F, g[Len(b.stmts) + 1], b.term)
(* The graph is where the source is.                                        *)
Where(K, Q) == ~Open(at) /\ ToGo(K, Busy \cup Later(Q, at), blocks[at], pos, src)

(* They are together until a `continue` is skipped.                         *)
Together == \E K, Q, N : Built(K, Q, N) /\ Where(K, Q)

(* A block from its beginning.                                              *)
LEMMA Begun ==
  ASSUME NEW K, NEW F, NEW k, NEW b, Realizes(K, F, k, b), NEW u, Path(k, u)
  PROVE  ToGo(K, F, b, 1, u)
<1>1. PICK l : Trace(k, b.stmts, l) /\ Closes(K, F, l, b.term)
  BY DEF Realizes
<1>2. PICK g : g[1] = k /\ g[Len(b.stmts) + 1] = l /\ Events(g, b.stmts)
  BY <1>1 DEF Trace
<1>3. IsSeq(b.stmts) /\ Len(b.stmts) \in Nat
  BY <1>1, IsSeqLen DEF Trace
<1> QED
  BY <1>1, <1>2, <1>3 DEF ToGo

(* finish.                                                                  *)
LEMMA FinishCarries ==
  ASSUME NEW S, LowInv(S), Unclobbered, Followed, Finish
  PROVE  Together'
<1>1. /\ phase = "lower" /\ todo = <<>> /\ blocks' = Finished
      /\ UNCHANGED <<cur, cur_stmts, src, at, pos>>
  BY DEF Finish, runVars
<1>2. PICK K, Q, N, x : Follows(K, Q, N, x)
  BY DEF Followed
<1>3. x = Last
  <2>1. PICK c : c[1] = x /\ c[Len(todo) + 1] = Last
    BY <1>2 DEF Follows, Thread
  <2> QED
    BY <1>1, <2>1
<1>4. x.live = TRUE /\ x.src = <<>> /\ x.due = {}
  BY <1>3 DEF Last, St
<1>5. Unfinished = {cur}
  BY <1>2, <1>4 DEF Follows, Stands
<1>6. PICK l : Trace(K[cur], cur_stmts, l) /\ Path(l, <<>>)
  BY <1>2, <1>4 DEF Follows, Stands
<1>7. Graph /\ cur \in DOMAIN blocks /\ Open(cur)
  BY <1>5 DEF LowInv, Graph, Unfinished
<1>8. \A b \in DOMAIN blocks : Open(b) <=> b = cur
  BY <1>5 DEF Unfinished
<1>9. blocks' = IF HasPred(cur) THEN Flushed(<<>>, Returns(FALSE)) ELSE blocks
  BY <1>1, <1>7 DEF Finished, Open
<1>10. /\ DOMAIN blocks' = DOMAIN blocks
       /\ \A b \in DOMAIN blocks : b # cur => blocks'[b] = blocks[b]
       /\ IF HasPred(cur) THEN blocks'[cur] = Block(cur_stmts \o <<>>, Returns(FALSE))
          ELSE blocks'[cur] = blocks[cur]
  BY <1>7, <1>9 DEF Flushed
<1>11. DOMAIN K = DOMAIN blocks /\ Ordered(Q, N) /\ Right(K, Q) /\ Begins(K)
  BY <1>2 DEF Follows
<1>12. Busy \subseteq Busy' /\ \A b : Later(Q, b)' = Later(Q, b)
  <2>1. ASSUME NEW b \in Busy PROVE b \in Busy'
    <3>1. b \in DOMAIN blocks /\ b # cur /\ ~Open(b) /\ blocks[b].stmts # <<>>
      BY <1>8 DEF Busy
    <3>2. blocks'[b] = blocks[b] /\ b \in DOMAIN blocks'
      BY <1>10, <3>1
    <3> QED
      BY <3>1, <3>2 DEF Busy, Open
  <2> QED
    BY <2>1 DEF Later
<1>13. Right(K, Q)'
  <2> SUFFICES ASSUME NEW b \in DOMAIN blocks', blocks'[b].term # Unreachable
               PROVE  Realizes(K, Busy' \cup Later(Q, b), K[b], blocks'[b])
    BY <1>12 DEF Right, Open
  <2>1. CASE b # cur
    <3>1. blocks'[b] = blocks[b] /\ ~Open(b) /\ b \in DOMAIN blocks
      BY <1>8, <1>10, <2>1
    <3>2. Realizes(K, Busy \cup Later(Q, b), K[b], blocks[b])
      BY <1>11, <3>1 DEF Right
    <3>3. Extends(K, K) /\ Busy \cup Later(Q, b) \subseteq Busy' \cup Later(Q, b)
      BY <1>12 DEF Extends
    <3> QED
      BY <3>1, <3>2, <3>3, RealizesGrows
  <2>2. CASE b = cur
    <3>1. blocks'[cur] = Block(cur_stmts \o <<>>, Returns(FALSE))
      BY <1>7, <1>10, <2>2 DEF Open
    <3> PICK F, none, t : F = Busy' \cup Later(Q, b) /\ none = <<>> /\ t = Returns(FALSE)
      OBVIOUS
    <3>2. NextOf(none) = <<"return", FALSE>>
      BY DEF NextOf
    <3>3. Closes(K, F, none, t)
      BY <3>2, PathSelf DEF Closes
    <3>4. Finishes(none, none, none)
      BY DEF Finishes
    <3>5. Realizes(K, F, K[cur], Block(cur_stmts \o none, t))
      BY <1>6, <3>3, <3>4, Ends
    <3> QED
      BY <2>2, <3>1, <3>5
  <2> QED
    BY <2>1, <2>2
<1>14. ~Open(1)' /\ Sealed'
  <2>1. 1 \in DOMAIN blocks
    BY <1>11 DEF Begins
  <2>2. CASE HasPred(cur)
    <3>1. \A b \in DOMAIN blocks : blocks'[b].term # Unreachable
      BY <1>7, <1>8, <1>10, <2>2 DEF Open, Block, Returns, Unreachable
    <3>2. \A b \in DOMAIN blocks' : \A i \in DOMAIN blocks'[b].term.to :
            blocks'[b].term.to[i] \in DOMAIN blocks
      <4>1. LowInv(S)'
        BY FinishKeeps
      <4>2. IsSeq(blocks') /\ \A b \in DOMAIN blocks' : TermOK(blocks'[b].term, Len(blocks'))
        BY <4>1 DEF LowInv, Graph
      <4>3. DOMAIN blocks' = 1 .. Len(blocks')
        BY <4>2, IsSeqLen
      <4> QED
        BY <1>10, <4>2, <4>3 DEF TermOK
    <3> QED
      BY <2>1, <3>1, <3>2 DEF Open, Sealed
  <2>3. CASE ~HasPred(cur)
    <3>1. cur # 1 /\ blocks' = blocks
      BY <1>9, <2>3 DEF HasPred
    <3>2. ASSUME NEW b \in DOMAIN blocks, NEW i \in DOMAIN blocks[b].term.to
          PROVE  blocks[b].term.to[i] # cur /\ blocks[b].term.to[i] \in DOMAIN blocks
      <4>1. blocks[b].term.to[i] \in DOMAIN blocks
        <5>1. TermOK(blocks[b].term, Len(blocks)) /\ DOMAIN blocks = 1 .. Len(blocks)
          BY <1>7, IsSeqLen DEF Graph
        <5> QED
          BY <5>1 DEF TermOK
      <4>2. b # cur
        <5>1. blocks[cur].term.to = <<>> /\ DOMAIN <<>> = {}
          BY <1>7, EmptySeq DEF Open, Unreachable
        <5> QED
          BY <3>2, <5>1
      <4>3. cur \notin Targets(b)
        BY <2>3, <4>2 DEF HasPred
      <4>4. blocks[b].term.to[i] \in Targets(b)
        BY DEF Targets, Seqs!ToSet
      <4> QED
        BY <4>1, <4>3, <4>4
    <3> QED
      BY <1>8, <2>1, <3>1, <3>2 DEF Open, Sealed
  <2> QED
    BY <2>2, <2>3
<1>15. Built(K, Q, N)'
  <2>1. DOMAIN Q = DOMAIN blocks' /\ N \in Nat /\ \A b \in DOMAIN blocks' : Q[b] \in Nat /\ Q[b] <= N
    BY <1>10, <1>11 DEF Ordered
  <2> QED
    BY <1>10, <1>11, <1>13, <1>14, <2>1 DEF Built
<1>16. Where(K, Q)'
  <2>1. at' = 1 /\ pos' = 1 /\ K[1] = src' /\ 1 \in DOMAIN blocks'
    BY <1>1, <1>10, <1>11 DEF Begins
  <2>2. Realizes(K, Busy' \cup Later(Q, 1)', K[1], blocks'[1])
    BY <1>13, <1>14, <2>1 DEF Right
  <2>3. ToGo(K, Busy' \cup Later(Q, 1)', blocks'[1], 1, K[1])
    BY <2>2, PathSelf, Begun
  <2> QED
    BY <1>14, <2>1, <2>3 DEF Where
<1> QED
  BY <1>15, <1>16 DEF Together

(* Where something can be seen next.                                        *)
Visible(u) == NextOf(u)[1] # "silent"

(* The first place where something can be seen, and what is before it.      *)
LEMMA Meets ==
  ASSUME NEW l, NEW t, Path(l, t), Visible(t), NEW u, Path(l, u)
  PROVE  Path(u, t) /\ (Visible(u) \/ Skips(u) => u = t)
<1>1. \A w : ~Moves(t, w)
  BY Stuck DEF Visible
<1>2. Path(u, t) /\ ((\A w : ~Moves(u, w)) => u = t)
  BY <1>1, Meeting
<1>3. Visible(u) \/ Skips(u) => \A w : ~Moves(u, w)
  BY Stuck DEF Visible
<1> QED
  BY <1>2, <1>3

(* The next event of a block is what the source does next.                  *)
LEMMA EventSeen ==
  ASSUME NEW g, NEW s, Events(g, s), NEW p \in DOMAIN s, NEW t, Path(g[p], t), Visible(t)
  PROVE  NextOf(t) = <<"do", s[p]>> /\ Sees(t, s[p], g[p + 1])
<1>1. PICK u : Path(g[p], u) /\ Sees(u, s[p], g[p + 1])
  BY DEF Events
<1>2. NextOf(u) = <<"do", s[p]>> /\ Visible(u)
  BY <1>1 DEF Sees, Visible
<1>3. u = t
  BY <1>1, <1>2, Meets
<1> QED
  BY <1>1, <1>2, <1>3

(* A goto leads on to what is done next.                                    *)
LEMMA GotoLeads ==
  ASSUME NEW K, NEW F, NEW l, NEW t, Closes(K, F, l, t), t.kind = "goto", NEW v, Path(l, v), Visible(v)
  PROVE  \E b \in DOMAIN K : t = Goto(b) /\ Path(K[b], v)
<1>0. t.kind # "switch" /\ (\A v0 : t # Returns(v0)) /\ t # Abort
  BY DEF Returns, Abort
<1>1. PICK b, u : /\ b \in DOMAIN K /\ t = Goto(b) /\ Path(l, u)
                  /\ Skips(u) \/ Moves(u, K[b]) \/ (u = K[b] /\ b \in F)
  BY <1>0 DEF Closes
<1>2. Path(u, v) /\ (Skips(u) => u = v)
  BY <1>1, Meets
<1>3. ~Skips(u)
  <2>1. ~Skips(v)
    BY SkipsSilent DEF Visible
  <2> QED
    BY <1>2, <2>1
<1>4. CASE Moves(u, K[b])
  <2>1. Path(l, K[b])
    BY <1>1, <1>4, PathMoves
  <2>2. Path(K[b], v)
    BY <2>1, Meets
  <2> QED
    BY <1>1, <2>2
<1>5. CASE u = K[b]
  BY <1>1, <1>2, <1>5
<1> QED
  BY <1>1, <1>3, <1>4, <1>5

(* A block ends with t as there is to do in v.                              *)
EndsAs(K, v, t) ==
  \/ /\ t.kind = "switch" /\ NextOf(v) = <<"choice", Len(t.to)>>
     /\ \A n \in DOMAIN t.to :
          t.to[n] \in DOMAIN K /\ K[t.to[n]] = Head(v).alternatives[n] \o Tail(v)
  \/ t.kind = "return" /\ NextOf(v) = <<"return", t.value>> /\ t = Returns(t.value)
  \/ t.kind = "abort" /\ NextOf(v) = <<"abort", FALSE>>

(* Every other end of a block is what the source does next.                 *)
LEMMA EndSeen ==
  ASSUME NEW K, NEW F, NEW l, NEW t, Closes(K, F, l, t), t.kind # "goto", NEW v, Path(l, v), Visible(v)
  PROVE  EndsAs(K, v, t)
<1>1. \A u : Path(l, u) /\ Visible(u) => u = v
  BY Meets
<1>2. CASE /\ t.kind = "switch"
           /\ \E u : /\ Path(l, u) /\ NextOf(u) = <<"choice", Len(t.to)>>
                     /\ \A n \in DOMAIN t.to :
                          t.to[n] \in DOMAIN K /\ K[t.to[n]] = Head(u).alternatives[n] \o Tail(u)
  <2> PICK u : /\ Path(l, u) /\ NextOf(u) = <<"choice", Len(t.to)>>
               /\ \A n \in DOMAIN t.to :
                    t.to[n] \in DOMAIN K /\ K[t.to[n]] = Head(u).alternatives[n] \o Tail(u)
    BY <1>2
  <2>1. u = v
    BY <1>1 DEF Visible
  <2> QED
    BY <1>2, <2>1 DEF EndsAs
<1>3. CASE \E k : \E u : t = Returns(k) /\ Path(l, u) /\ NextOf(u) = <<"return", k>>
  <2> PICK k, u : t = Returns(k) /\ Path(l, u) /\ NextOf(u) = <<"return", k>>
    BY <1>3
  <2>1. u = v
    BY <1>1 DEF Visible
  <2> QED
    BY <2>1 DEF Returns, EndsAs
<1>4. CASE \E u : t = Abort /\ Path(l, u) /\ NextOf(u) = <<"abort", FALSE>>
  <2> PICK u : t = Abort /\ Path(l, u) /\ NextOf(u) = <<"abort", FALSE>>
    BY <1>4
  <2>1. u = v
    BY <1>1 DEF Visible
  <2> QED
    BY <2>1 DEF Abort, EndsAs
<1>5. \A b : t # Goto(b)
  BY DEF Goto
<1> QED
  BY <1>2, <1>3, <1>4, <1>5 DEF Closes

-----------------------------------------------------------------------------
(* Where the graph is, taken apart.                                         *)
LEMMA Apart ==
  ASSUME NEW K, NEW Q, NEW N, Built(K, Q, N), Where(K, Q), at \in DOMAIN blocks
  PROVE  \E g : /\ Events(g, blocks[at].stmts) /\ Path(g[pos], src)
                /\ Closes(K, Busy \cup Later(Q, at), g[Len(blocks[at].stmts) + 1], blocks[at].term)
                /\ pos \in 1 .. Len(blocks[at].stmts) + 1 /\ Len(blocks[at].stmts) \in Nat
                /\ DOMAIN blocks[at].stmts = 1 .. Len(blocks[at].stmts)
                /\ IsSeq(blocks[at].stmts) /\ ~Open(at)
<1>1. ToGo(K, Busy \cup Later(Q, at), blocks[at], pos, src) /\ ~Open(at)
  BY DEF Where
<1> QED
  BY <1>1, IsSeqLen DEF ToGo

(* The graph and the source agree.                                          *)
LEMMA TogetherAgree ==
  ASSUME NEW S, LowInv(S), Together
  PROVE  Agree
<1> SUFFICES ASSUME SourceNext[1] # "silent", GraphNext[1] # "silent" PROVE SourceNext = GraphNext
  BY DEF Agree
<1> PICK K, Q, N : Built(K, Q, N) /\ Where(K, Q)
  BY DEF Together
<1> PICK b : b = blocks[at]
  OBVIOUS
<1>1. SourceNext = NextOf(src) /\ Visible(src) /\ at \in DOMAIN blocks
  BY SourceIs DEF Visible, LowInv, Graph
<1>2. PICK g : /\ Events(g, b.stmts) /\ Path(g[pos], src)
               /\ Closes(K, Busy \cup Later(Q, at), g[Len(b.stmts) + 1], b.term)
               /\ pos \in 1 .. Len(b.stmts) + 1 /\ Len(b.stmts) \in Nat
               /\ DOMAIN b.stmts = 1 .. Len(b.stmts)
  BY <1>1, Apart
<1>3. CASE pos <= Len(b.stmts)
  <2>1. pos \in DOMAIN b.stmts /\ GraphNext = <<"do", b.stmts[pos]>>
    BY <1>2, <1>3 DEF GraphNext
  <2> QED
    BY <1>1, <1>2, <2>1, EventSeen
<1>4. CASE ~(pos <= Len(b.stmts))
  <2>1. pos = Len(b.stmts) + 1
    BY <1>2, <1>4
  <2>2. GraphNext = CASE b.term.kind = "switch" -> <<"choice", Len(b.term.to)>>
                      [] b.term.kind = "return" -> <<"return", b.term.value>>
                      [] b.term.kind = "abort" -> <<"abort", FALSE>>
                      [] b.term.kind = "goto" -> <<"silent", FALSE>>
                      [] OTHER -> <<"trap", FALSE>>
    BY <1>4 DEF GraphNext
  <2>3. b.term.kind # "goto"
    BY <2>2
  <2>4. \/ b.term.kind = "switch" /\ NextOf(src) = <<"choice", Len(b.term.to)>>
        \/ b.term.kind = "return" /\ NextOf(src) = <<"return", b.term.value>>
        \/ b.term.kind = "abort" /\ NextOf(src) = <<"abort", FALSE>>
    <3> PICK F, l, t, v : /\ F = Busy \cup Later(Q, at) /\ l = g[pos] /\ t = b.term /\ v = src
      OBVIOUS
    <3>1. Closes(K, F, l, t) /\ t.kind # "goto" /\ Path(l, v) /\ Visible(v)
      BY <1>1, <1>2, <2>1, <2>3
    <3>2. EndsAs(K, v, t)
      BY <3>1, EndSeen
    <3> QED
      BY <3>2 DEF EndsAs
  <2> QED
    BY <1>1, <2>2, <2>4
<1> QED
  BY <1>3, <1>4

(* The finished graph stays.                                                *)
LEMMA BuiltKeeps ==
  ASSUME NEW K, NEW Q, NEW N, Built(K, Q, N), UNCHANGED blocks
  PROVE  Built(K, Q, N)' /\ Busy' = Busy /\ \A b : Later(Q, b)' = Later(Q, b)
<1>1. Busy' = Busy /\ \A b : Later(Q, b)' = Later(Q, b)
  BY DEF Busy, Open, Later
<1>2. Right(K, Q)' /\ Sealed'
  BY <1>1 DEF Built, Right, Sealed, Open
<1> QED
  BY <1>1, <1>2 DEF Built

(* The graph goes on with block b.                                          *)
LEMMA Enters ==
  ASSUME NEW K, NEW Q, NEW N, Built(K, Q, N), UNCHANGED blocks,
         NEW b \in DOMAIN blocks, ~Open(b), at' = b, pos' = 1, Path(K[b], src')
  PROVE  Together'
<1>1. Realizes(K, Busy \cup Later(Q, b), K[b], blocks[b])
  BY DEF Built, Right
<1>2. ToGo(K, Busy \cup Later(Q, b), blocks[b], 1, src')
  BY <1>1, Begun
<1>3. ~Open(at)'
  BY DEF Open
<1>4. Built(K, Q, N)' /\ Busy' = Busy /\ Later(Q, b)' = Later(Q, b)
  BY BuiltKeeps
<1>5. Where(K, Q)'
  BY <1>2, <1>3, <1>4 DEF Where
<1> QED
  BY <1>4, <1>5 DEF Together

(* The graph goes on in the same block.                                     *)
LEMMA StaysIn ==
  ASSUME NEW K, NEW Q, NEW N, Built(K, Q, N), UNCHANGED <<blocks, at>>, ~Open(at),
         ToGo(K, Busy \cup Later(Q, at), blocks[at], pos', src')
  PROVE  Together'
<1>1. ~Open(at)'
  BY DEF Open
<1>2. Built(K, Q, N)' /\ Busy' = Busy /\ Later(Q, at)' = Later(Q, at)
  <2>1. Built(K, Q, N)' /\ Busy' = Busy
    BY BuiltKeeps
  <2> QED
    BY <2>1 DEF Later
<1>3. Where(K, Q)'
  BY <1>1, <1>2 DEF Where
<1> QED
  BY <1>2, <1>3 DEF Together

(* A step of the source that cannot be seen.                                *)
LEMMA SourceTogether ==
  ASSUME NEW S, LowInv(S), Together, SourceSilent, ~skipped'
  PROVE  Together'
<1> PICK K, Q, N : Built(K, Q, N) /\ Where(K, Q)
  BY DEF Together
<1>1. Moves(src, src') /\ UNCHANGED <<blocks, at, pos>>
  BY SourceIs DEF SourceSilent, lowVars
<1>2. PICK F, b : F = Busy \cup Later(Q, at) /\ b = blocks[at]
  OBVIOUS
<1>3. ToGo(K, F, b, pos, src) /\ ~Open(at)
  BY <1>2 DEF Where
<1>4. PICK g : /\ Events(g, b.stmts) /\ Path(g[pos], src)
               /\ Closes(K, F, g[Len(b.stmts) + 1], b.term)
  BY <1>3 DEF ToGo
<1>5. Path(g[pos], src')
  BY <1>1, <1>4, PathMoves
<1>6. ToGo(K, F, b, pos', src')
  BY <1>1, <1>3, <1>4, <1>5 DEF ToGo
<1> QED
  BY <1>1, <1>2, <1>3, <1>6, StaysIn

(* A jump of the graph.                                                     *)
LEMMA GraphTogether ==
  ASSUME NEW S, LowInv(S), Together, GraphSilent
  PROVE  Together'
<1> PICK K, Q, N : Built(K, Q, N) /\ Where(K, Q)
  BY DEF Together
<1>1. /\ Visible(src) /\ GraphNext[1] = "silent" /\ at' = blocks[at].term.to[1] /\ pos' = 1
      /\ UNCHANGED <<blocks, src>>
  BY SourceIs DEF GraphSilent, lowVars, Visible
<1>2. at \in DOMAIN blocks
  BY DEF LowInv, Graph
<1>3. PICK b, t : b = blocks[at] /\ t = b.term
  OBVIOUS
<1>4. PICK g : /\ Events(g, b.stmts) /\ Path(g[pos], src)
               /\ Closes(K, Busy \cup Later(Q, at), g[Len(b.stmts) + 1], t)
               /\ pos \in 1 .. Len(b.stmts) + 1 /\ Len(b.stmts) \in Nat
  BY <1>2, <1>3, Apart
<1>5. ~(pos <= Len(b.stmts)) /\ t.kind = "goto"
  BY <1>1, <1>3 DEF GraphNext
<1>6. Path(g[Len(b.stmts) + 1], src)
  <2>1. pos = Len(b.stmts) + 1
    BY <1>4, <1>5
  <2> QED
    BY <1>4, <2>1
<1>7. PICK c \in DOMAIN K : t = Goto(c) /\ Path(K[c], src)
  BY <1>1, <1>4, <1>5, <1>6, GotoLeads
<1>8. t.to = <<c>> /\ DOMAIN <<c>> = {1} /\ <<c>>[1] = c
  BY <1>7, One DEF Goto
<1>9. at' = c /\ ~Open(c) /\ c \in DOMAIN blocks
  BY <1>1, <1>2, <1>3, <1>8 DEF Built, Sealed
<1> QED
  BY <1>1, <1>7, <1>9, Enters

(* An event that both see.                                                  *)
LEMMA DoTogether ==
  ASSUME NEW S, LowInv(S), Together, BothDo
  PROVE  Together'
<1> PICK K, Q, N : Built(K, Q, N) /\ Where(K, Q)
  BY DEF Together
<1>1. /\ SourceNext = GraphNext /\ SourceNext[1] = "do" /\ SourceNext = NextOf(src)
      /\ src' = (IF Head(src).kind = "return" THEN <<[kind |-> "handed"]>> ELSE <<>>) \o Tail(src)
      /\ pos' = pos + 1 /\ UNCHANGED <<blocks, at>>
  BY SourceIs DEF BothDo, Both, lowVars
<1>2. at \in DOMAIN blocks /\ Visible(src)
  BY <1>1 DEF LowInv, Graph, Visible
<1>3. PICK b, F : b = blocks[at] /\ F = Busy \cup Later(Q, at)
  OBVIOUS
<1>4. PICK g : /\ Events(g, b.stmts) /\ Path(g[pos], src)
               /\ Closes(K, F, g[Len(b.stmts) + 1], b.term)
               /\ pos \in 1 .. Len(b.stmts) + 1 /\ Len(b.stmts) \in Nat
               /\ DOMAIN b.stmts = 1 .. Len(b.stmts) /\ IsSeq(b.stmts) /\ ~Open(at)
  BY <1>2, <1>3, Apart
<1>5. pos <= Len(b.stmts)
  BY <1>1, <1>3 DEF GraphNext
<1>6. pos \in DOMAIN b.stmts /\ pos + 1 \in 1 .. Len(b.stmts) + 1
  BY <1>4, <1>5
<1>7. Sees(src, b.stmts[pos], g[pos + 1])
  BY <1>2, <1>4, <1>6, EventSeen
<1>8. g[pos + 1] = src'
  BY <1>1, <1>7 DEF Sees
<1>9. Path(g[pos'], src')
  BY <1>1, <1>8, PathSelf
<1>10. ToGo(K, F, b, pos', src')
  BY <1>1, <1>4, <1>6, <1>9 DEF ToGo
<1> QED
  BY <1>1, <1>3, <1>4, <1>10, StaysIn

(* A choice that both make.                                                 *)
LEMMA ChoiceTogether ==
  ASSUME NEW S, LowInv(S), Together, BothChoose
  PROVE  Together'
<1> PICK K, Q, N : Built(K, Q, N) /\ Where(K, Q)
  BY DEF Together
<1>1. PICK n \in DOMAIN blocks[at].term.to :
        /\ SourceNext = GraphNext /\ SourceNext[1] = "choice" /\ SourceNext = NextOf(src)
        /\ src' = Head(src).alternatives[n] \o Tail(src) /\ at' = blocks[at].term.to[n]
        /\ pos' = 1 /\ UNCHANGED blocks
  BY SourceIs DEF BothChoose, Both, lowVars
<1>2. at \in DOMAIN blocks /\ Visible(src)
  BY <1>1 DEF LowInv, Graph, Visible
<1>3. PICK b, t : b = blocks[at] /\ t = b.term
  OBVIOUS
<1>4. PICK g : /\ Events(g, b.stmts) /\ Path(g[pos], src)
               /\ Closes(K, Busy \cup Later(Q, at), g[Len(b.stmts) + 1], t)
               /\ pos \in 1 .. Len(b.stmts) + 1 /\ Len(b.stmts) \in Nat
  BY <1>2, <1>3, Apart
<1>5. ~(pos <= Len(b.stmts)) /\ t.kind = "switch"
  BY <1>1, <1>3 DEF GraphNext
<1>6. Path(g[Len(b.stmts) + 1], src)
  <2>1. pos = Len(b.stmts) + 1
    BY <1>4, <1>5
  <2> QED
    BY <1>4, <2>1
<1>7. EndsAs(K, src, t)
  BY <1>2, <1>4, <1>5, <1>6, EndSeen
<1>8. t.to[n] \in DOMAIN K /\ K[t.to[n]] = src'
  BY <1>1, <1>3, <1>5, <1>7 DEF EndsAs
<1>9. at' = t.to[n] /\ ~Open(t.to[n]) /\ t.to[n] \in DOMAIN blocks
  BY <1>1, <1>2, <1>3, <1>8 DEF Built, Sealed
<1>10. Path(K[t.to[n]], src')
  BY <1>8, PathSelf
<1> QED
  BY <1>1, <1>9, <1>10, Enters

-----------------------------------------------------------------------------
(* The inductive invariant: the graph so far is right for the statements    *)
(* so far, and runs with them.                                              *)
Sim ==
  /\ phase = "lower" => Followed
  /\ phase = "run" => /\ Consistent(blocks)
                      /\ ~skipped => Together

(* While it lowers, it lowers.                                              *)
LEMMA LowersPhase ==
  ASSUME Lower, ~Finish
  PROVE  phase = "lower" /\ phase' = "lower"
<1>1. \E kind : At(kind)
  BY ZenonT(40) DEF Lower, LowerDo, LowerReturn, LowerPanic, LowerBreak, LowerContinue, LowerStray,
         LowerIf, LowerLink, LowerWhile, LowerLoop, LowerFor, LowerMatch, TakeJump, StartBlock, PopLoop
<1>2. Lowers
  <2>1. \A s, t : Terminate(s, t) => Lowers
    BY DEF Terminate
  <2> QED
    BY <2>1 DEF Lower, LowerDo, LowerReturn, LowerPanic, LowerBreak, LowerContinue, LowerStray,
           LowerIf, LowerLink, LowerWhile, LowerLoop, LowerFor, LowerMatch, TakeJump, StartBlock, PopLoop
<1> QED
  BY <1>1, <1>2 DEF At, Lowers

(* Every step keeps it.                                                     *)
LEMMA SimKeeps ==
  ASSUME NEW S, LowInv(S), Sim, [LowNext]_vars
  PROVE  Sim'
<1>0. Unclobbered
  BY StepKeeps
<1>1. CASE UNCHANGED vars
  <2>1. UNCHANGED <<program, phase, todo, blocks, cur, cur_stmts, loop_ctx, src, at, pos, skipped>>
    BY <1>1 DEF vars, lowVars, runVars
  <2>2. Followed' <=> Followed
    <3>1. \A K, Q, N, x : Follows(K, Q, N, x)' <=> Follows(K, Q, N, x)
      BY <2>1 DEF Follows, Ordered, Right, Stands, InLoops, Begins, Busy, Unfinished, Open, Later
    <3> QED
      BY <3>1 DEF Followed
  <2>3. Together' <=> Together
    <3>1. \A K, Q, N : Built(K, Q, N)' <=> Built(K, Q, N)
      BY <2>1 DEF Built, Right, Sealed, Busy, Open, Later
    <3>2. \A K, Q : Where(K, Q)' <=> Where(K, Q)
      BY <2>1 DEF Where, Busy, Open, Later
    <3> QED
      BY <3>1, <3>2 DEF Together
  <2>4. Consistent(blocks)' <=> Consistent(blocks)
    BY <2>1 DEF Consistent
  <2> QED
    BY <2>1, <2>2, <2>3, <2>4 DEF Sim
<1>2. CASE /\ Lower /\ ~Finish
  <2>1. phase = "lower" /\ phase' = "lower"
    BY <1>2, LowersPhase
  <2>2. Followed
    BY <2>1 DEF Sim
  <2>3. SUFFICES Followed'
    BY <2>1 DEF Sim
  <2>4. CASE LowerDo
    BY <2>2, <2>4, DoCarries
  <2>5. CASE LowerStray
    BY <2>2, <2>5, StrayCarries
  <2>6. CASE LowerReturn
    BY <1>0, <2>2, <2>6, ReturnCarries
  <2>7. CASE LowerPanic
    BY <1>0, <2>2, <2>7, PanicCarries
  <2>8. CASE LowerBreak \/ LowerContinue
    BY <1>0, <2>2, <2>8, ExitCarries
  <2>9. CASE LowerIf
    BY <1>0, <2>2, <2>9, IfCarries
  <2>10. CASE LowerLink
    BY <1>0, <2>2, <2>10, LinkCarries
  <2>11. CASE LowerWhile
    BY <1>0, <2>2, <2>11, WhileCarries
  <2>12. CASE LowerLoop
    BY <1>0, <2>2, <2>12, ForeverCarries
  <2>13. CASE LowerFor
    BY <1>0, <2>2, <2>13, ForCarries
  <2>14. CASE LowerMatch
    BY <1>0, <2>2, <2>14, MatchCarries
  <2>15. CASE TakeJump
    BY <1>0, <2>2, <2>15, JumpCarries
  <2>16. CASE StartBlock
    BY <2>2, <2>16, StartCarries
  <2>17. CASE PopLoop
    BY <2>2, <2>17, LeaveCarries
  <2> QED
    BY <1>2, <2>4, <2>5, <2>6, <2>7, <2>8, <2>9, <2>10,
       <2>11, <2>12, <2>13, <2>14, <2>15, <2>16, <2>17 DEF Lower
<1>3. CASE Finish
  <2>1. phase = "lower" /\ Followed /\ phase' \in {"run", "rejected"}
        /\ (phase' = "run" => Consistent(blocks'))
    BY <1>3 DEF Finish, Sim
  <2>2. Together'
    BY <1>0, <1>3, <2>1, FinishCarries
  <2>3. Consistent(blocks)' <=> Consistent(blocks')
    BY <1>3 DEF Finish, Consistent
  <2> QED
    BY <2>1, <2>2, <2>3 DEF Sim
<1>4. CASE SourceSilent \/ GraphSilent \/ BothDo \/ BothChoose
  <2>1. phase = "run" /\ phase' = "run" /\ UNCHANGED <<program, blocks>>
    BY <1>4 DEF SourceSilent, GraphSilent, BothDo, BothChoose, Both, lowVars
  <2>2. Consistent(blocks)'
    BY <2>1 DEF Sim, Consistent
  <2>3. ASSUME ~skipped' PROVE Together'
    <3>1. ~skipped
      BY <1>4, <2>3 DEF SourceSilent, Unfold, Leave, GraphSilent, BothDo, BothChoose
    <3>2. Together
      BY <2>1, <3>1 DEF Sim
    <3> QED
      BY <1>4, <2>3, <3>2, SourceTogether, GraphTogether, DoTogether, ChoiceTogether
  <2> QED
    BY <2>1, <2>2, <2>3 DEF Sim
<1> QED
  BY <1>1, <1>2, <1>3, <1>4 DEF LowNext

(* So it is an invariant.                                                   *)
LEMMA SimHolds ==
  ASSUME NEW S, Grammar(S)
  PROVE  LowSpec => [](LowInv(S) /\ Sim)
<1>1. LowInit => LowInv(S) /\ Sim
  BY LowStarts, FollowedStarts DEF Sim, LowInit
<1>2. (LowInv(S) /\ Sim) /\ [LowNext]_vars => (LowInv(S) /\ Sim)'
  BY StepKeeps, SimKeeps
<1> QED
  BY <1>1, <1>2, PTL DEF LowSpec

(* For all programs of the grammar, on every path without a `continue` in a *)
(* counted loop: what the graph that lower_stmt and lower_match build does  *)
(* next is what the statements do next, event by event and choice by        *)
(* choice, and it returns or stops where they do.                           *)
THEOREM GraphIsSource ==
  ASSUME NEW S, Grammar(S)
  PROVE  LowSpec => []GraphFollowsSource
<1>1. LowInv(S) /\ Sim => GraphFollowsSource
  <2> SUFFICES ASSUME LowInv(S), Sim, ~skipped PROVE Agree
    BY DEF GraphFollowsSource
  <2>1. CASE phase = "run"
    BY <2>1, TogetherAgree DEF Sim
  <2>2. CASE phase # "run"
    BY <2>2 DEF Agree
  <2> QED
    BY <2>1, <2>2
<1>2. LowSpec => [](LowInv(S) /\ Sim)
  BY SimHolds
<1> QED
  BY <1>1, <1>2, PTL

-----------------------------------------------------------------------------
(* What ends as there is to do in v, where that is an end without a value. *)
LEMMA EndsBare ==
  ASSUME NEW K, NEW v, NEW t, EndsAs(K, v, t), NextOf(v) = <<"return", FALSE>>
  PROVE  t = Returns(FALSE)
<1>1. PICK w : w = NextOf(v)
  OBVIOUS
<1>2. w = <<"return", FALSE>>
  BY <1>1
<1>3. w[1] = "return" /\ w[2] = FALSE
  BY <1>2
<1>4. ASSUME NEW k, w = <<"choice", k>> PROVE FALSE
  <2>1. w[1] = "choice"
    BY <1>4
  <2> QED
    BY <1>3, <2>1
<1>5. ASSUME w = <<"abort", FALSE>> PROVE FALSE
  <2>1. w[1] = "abort"
    BY <1>5
  <2> QED
    BY <1>3, <2>1
<1>6. w = <<"return", t.value>> /\ t = Returns(t.value)
  BY <1>1, <1>4, <1>5, Zenon DEF EndsAs
<1>7. w[2] = t.value
  BY <1>6
<1> QED
  BY <1>3, <1>6, <1>7, Zenon

(* Block b is finished and leads in n steps to v.                          *)
Nears(K, b, n, v) == b \in DOMAIN blocks /\ ~Open(b) /\ n \in Nat /\ \E f : Walk(f, n, K[b], v)

(* A block that leads to an end without a value goes on to a block that is *)
(* nearer to it, or as near and finished later.                            *)
LEMMA Onwards ==
  ASSUME NEW K, NEW Q, NEW N, Built(K, Q, N), Consistent(blocks), ~program.unit,
         NEW v, NextOf(v) = <<"return", FALSE>>, NEW b, NEW n, Nears(K, b, n, v)
  PROVE  /\ blocks[b].stmts = <<>>
         /\ \E c, m : Nears(K, c, m, v) /\ m <= n /\ (m < n \/ c \in Busy \cup Later(Q, b))
<1>1. b \in DOMAIN blocks /\ ~Open(b) /\ n \in Nat
  BY DEF Nears
<1>2. PICK f : Walk(f, n, K[b], v)
  BY DEF Nears
<1>3. Path(K[b], v) /\ Visible(v)
  BY <1>1, <1>2 DEF Path, Visible
<1>4. PICK F, k, t, s : F = Busy \cup Later(Q, b) /\ k = K[b] /\ t = blocks[b].term /\ s = blocks[b].stmts
  OBVIOUS
<1>5. Realizes(K, F, k, blocks[b])
  BY <1>1, <1>4 DEF Built, Right
<1>6. PICK l : Trace(k, s, l) /\ Closes(K, F, l, t)
  BY <1>4, <1>5 DEF Realizes
<1>7. PICK g : g[1] = k /\ g[Len(s) + 1] = l /\ Events(g, s)
  BY <1>6 DEF Trace
<1>8. IsSeq(s)
  BY <1>6 DEF Trace
<1>9. s = <<>>
  <2> SUFFICES ASSUME s # <<>> PROVE FALSE
    OBVIOUS
  <2>1. 1 \in DOMAIN s
    BY <1>8, IsSeqLen, EmptySeq DEF IsSeq
  <2>2. NextOf(v) = <<"do", s[1]>>
    BY <1>3, <1>4, <1>7, <2>1, EventSeen
  <2> QED
    BY <2>2
<1>10. l = k
  BY <1>7, <1>9, EmptySeq
<1>11. \A w : ~Moves(v, w)
  BY <1>3, Stuck DEF Visible
<1>12. t.kind = "goto"
  <2> SUFFICES ASSUME t.kind # "goto" PROVE FALSE
    OBVIOUS
  <2>1. EndsAs(K, v, t)
    BY <1>3, <1>4, <1>6, <1>10, EndSeen
  <2>2. t = Returns(FALSE)
    BY <2>1, EndsBare
  <2> QED
    BY <1>1, <1>4, <2>2 DEF Consistent
<1>13. t.kind # "switch" /\ (\A w : t # Returns(w)) /\ t # Abort
  BY <1>12 DEF Returns, Abort
<1>14. PICK c, u : /\ c \in DOMAIN K /\ t = Goto(c) /\ Path(l, u)
                   /\ Skips(u) \/ Moves(u, K[c]) \/ (u = K[c] /\ c \in F)
  BY <1>6, <1>13 DEF Closes
<1>15. ~Skips(u)
  <2>1. Skips(u) => u = v
    BY <1>3, <1>4, <1>10, <1>14, Meets
  <2>2. ~Skips(v)
    BY <1>3, SkipsSilent DEF Visible
  <2> QED
    BY <2>1, <2>2
<1>16. c \in DOMAIN blocks /\ ~Open(c)
  <2>1. t.to = <<c>> /\ DOMAIN <<c>> = {1} /\ <<c>>[1] = c
    BY <1>14, One DEF Goto
  <2> QED
    BY <1>1, <1>4, <1>14, <2>1 DEF Built, Sealed
<1>17. PICK p \in Nat : \E e : Walk(e, p, k, u)
  BY <1>10, <1>14 DEF Path
<1>18. PICK e : Walk(e, p, k, u)
  BY <1>17
<1>19. CASE Moves(u, K[c])
  <2>1. PICK d : Walk(d, p + 1, k, K[c])
    BY <1>18, <1>19, WalkMoves
  <2>2. p + 1 <= n /\ \E h : Walk(h, n - (p + 1), K[c], v)
    BY <1>2, <1>4, <1>11, <2>1, Remains
  <2> PICK m : m = n - (p + 1)
    OBVIOUS
  <2>3. m \in Nat /\ m < n /\ m <= n
    BY <1>1, <1>17, <2>2
  <2>4. Nears(K, c, m, v)
    BY <1>16, <2>2, <2>3 DEF Nears
  <2> QED
    BY <1>4, <1>9, <2>3, <2>4
<1>20. CASE u = K[c] /\ c \in F
  <2>1. p <= n /\ \E h : Walk(h, n - p, u, v)
    BY <1>2, <1>4, <1>11, <1>18, Remains
  <2>2. n - p \in Nat /\ n - p <= n
    BY <1>1, <1>17, <2>1
  <2>3. Nears(K, c, n - p, v)
    BY <1>16, <1>20, <2>1, <2>2 DEF Nears
  <2> QED
    BY <1>4, <1>9, <1>20, <2>2, <2>3
<1> QED
  BY <1>14, <1>15, <1>19, <1>20

(* So no block leads there.                                                *)
LEMMA NoneNears ==
  ASSUME NEW K, NEW Q, NEW N, Built(K, Q, N), Consistent(blocks), ~program.unit,
         NEW v, NextOf(v) = <<"return", FALSE>>, NEW b, NEW n
  PROVE  ~Nears(K, b, n, v)
<1> SUFFICES ASSUME Nears(K, b, n, v) PROVE FALSE
  OBVIOUS
<1> DEFINE T == {i \in Nat : \E c : Nears(K, c, i, v)}
<1>1. T \subseteq Nat /\ n \in T
  BY DEF Nears
<1>2. PICK i \in T : \A j \in T : i <= j
  BY <1>1, LeastNatural
<1>3. i \in Nat /\ \A c, j : Nears(K, c, j, v) => i <= j
  BY <1>2 DEF Nears
<1>4. PICK a : Nears(K, a, i, v)
  BY <1>2
<1> HIDE DEF T
<1> DEFINE U == {j \in Nat : \E c : Nears(K, c, i, v) /\ j = N - Q[c]}
<1>5. N \in Nat /\ \A c : Nears(K, c, i, v) => Q[c] \in Nat /\ N - Q[c] \in Nat
  BY DEF Nears, Built
<1>6. N - Q[a] \in U
  BY <1>4, <1>5
<1>7. PICK r \in U : \A j \in U : r <= j
  BY <1>6, LeastNatural
<1>8. PICK c : Nears(K, c, i, v) /\ r = N - Q[c]
  BY <1>7
<1>9. PICK d, m : /\ Nears(K, d, m, v) /\ m <= i
                  /\ m < i \/ d \in Busy \cup Later(Q, c)
  BY <1>8, Onwards
<1>10. m \in Nat /\ i <= m /\ m = i
  BY <1>3, <1>9 DEF Nears
<1>11. blocks[d].stmts = <<>>
  BY <1>9, Onwards
<1>12. d \in Later(Q, c)
  BY <1>9, <1>10, <1>11 DEF Busy
<1>13. Nears(K, d, i, v)
  BY <1>9, <1>10
<1>14. N - Q[d] \in U
  BY <1>5, <1>13
<1>15. N - Q[c] <= N - Q[d]
  BY <1>7, <1>8, <1>14
<1>16. Q[c] \in Nat /\ Q[d] \in Nat /\ Q[c] < Q[d]
  BY <1>5, <1>8, <1>12, <1>13 DEF Later
<1> QED
  BY <1>5, <1>15, <1>16

(* And the graph is never where the source ends without a value.           *)
LEMMA TogetherReturns ==
  ASSUME NEW S, LowInv(S), Together, Consistent(blocks), ~program.unit
  PROVE  SourceNext # <<"return", FALSE>>
<1> SUFFICES ASSUME SourceNext = <<"return", FALSE>> PROVE FALSE
  OBVIOUS
<1> PICK K, Q, N : Built(K, Q, N) /\ Where(K, Q)
  BY DEF Together
<1>0. at \in DOMAIN blocks /\ NextOf(src) = <<"return", FALSE>>
  BY SourceIs DEF LowInv, Graph
<1>1. NextOf(src) = <<"return", FALSE>> /\ Visible(src) /\ at \in DOMAIN blocks
  BY <1>0 DEF Visible
<1>2. PICK b, t : b = blocks[at] /\ t = b.term
  OBVIOUS
<1>3. PICK g : /\ Events(g, b.stmts) /\ Path(g[pos], src)
               /\ Closes(K, Busy \cup Later(Q, at), g[Len(b.stmts) + 1], t)
               /\ pos \in 1 .. Len(b.stmts) + 1 /\ Len(b.stmts) \in Nat
               /\ DOMAIN b.stmts = 1 .. Len(b.stmts)
  BY <1>1, <1>2, Apart
<1>4. pos = Len(b.stmts) + 1
  <2> SUFFICES ASSUME pos # Len(b.stmts) + 1 PROVE FALSE
    OBVIOUS
  <2>1. pos \in DOMAIN b.stmts
    BY <1>3
  <2>2. NextOf(src) = <<"do", b.stmts[pos]>>
    BY <1>1, <1>3, <2>1, EventSeen
  <2> QED
    BY <1>1, <2>2
<1>5. PICK F, l : F = Busy \cup Later(Q, at) /\ l = g[pos]
  OBVIOUS
<1>6. Closes(K, F, l, t) /\ Path(l, src)
  BY <1>3, <1>4, <1>5
<1>7. t.kind = "goto"
  <2> SUFFICES ASSUME t.kind # "goto" PROVE FALSE
    OBVIOUS
  <2>1. EndsAs(K, src, t)
    BY <1>1, <1>6, EndSeen
  <2>2. t = Returns(FALSE)
    BY <1>1, <2>1, EndsBare
  <2> QED
    BY <1>1, <1>2, <2>2 DEF Consistent
<1>8. PICK c \in DOMAIN K : t = Goto(c) /\ Path(K[c], src)
  BY <1>1, <1>6, <1>7, GotoLeads
<1>9. c \in DOMAIN blocks /\ ~Open(c)
  <2>1. t.to = <<c>> /\ DOMAIN <<c>> = {1} /\ <<c>>[1] = c
    BY <1>8, One DEF Goto
  <2> QED
    BY <1>1, <1>2, <2>1 DEF Built, Sealed
<1>10. PICK n \in Nat : \E f : Walk(f, n, K[c], src)
  BY <1>8 DEF Path
<1>11. Nears(K, c, n, src)
  BY <1>9, <1>10 DEF Nears
<1> QED
  BY <1>1, <1>11, NoneNears

(* For all programs of the grammar: an action that must return a value and *)
(* that validate_return_consistency accepted does not run off its end, on  *)
(* any path without a `continue` in a counted loop.                        *)
THEOREM AcceptedReturn ==
  ASSUME NEW S, Grammar(S)
  PROVE  LowSpec => []AcceptedActionsReturn
<1>1. LowInv(S) /\ Sim => AcceptedActionsReturn
  BY TogetherReturns DEF Sim, AcceptedActionsReturn
<1>2. LowSpec => [](LowInv(S) /\ Sim)
  BY SimHolds
<1> QED
  BY <1>1, <1>2, PTL
=============================================================================
