---------------------------- MODULE SequenceFacts ----------------------------
(***************************************************************************)
(* What the other proofs need to know of sequences whose elements have no  *)
(* set of their own: of their ends, of concatenation, and of what two      *)
(* recursive functions of sequences return, Only (Selection) and the       *)
(* FlattenSeq of the community modules.  The library's induction theorems  *)
(* take an operator and cannot be used here; but a set of naturals without *)
(* a least element is empty (WFMin), which is induction about sets.        *)
(***************************************************************************)
EXTENDS Selection, SequenceTheorems, WellFoundedInduction, TLAPS

(* Every set of naturals but the empty one has a least element.             *)
LEMMA LeastNatural ==
  ASSUME NEW T, T \subseteq Nat, T # {}
  PROVE  \E x \in T : \A y \in T : x <= y
<1>1. IsWellFoundedOn(OpToRel(<, Nat), Nat)
  BY NatLessThanWellFounded
<1>2. OpToRel(<, Nat) = {rr \in Nat \X Nat : rr[1] < rr[2]}
  BY DEF OpToRel
<1>3. PICK x \in T : \A y \in T : ~(<<y, x>> \in OpToRel(<, Nat))
  BY <1>1, WFMin
<1>4. \A y \in T : ~(y < x)
  BY <1>2, <1>3
<1> QED
  BY <1>4

(* Induction: a set with 0, and with n + 1 wherever it has n, has every     *)
(* natural.                                                                 *)
LEMMA Inducted ==
  ASSUME NEW T, 0 \in T, \A n \in Nat : n \in T => n + 1 \in T
  PROVE  Nat \subseteq T
<1> DEFINE U == Nat \ T
<1> SUFFICES ASSUME U # {} PROVE FALSE
  OBVIOUS
<1>1. PICK x \in U : \A y \in U : x <= y
  BY LeastNatural
<1>2. x - 1 \in Nat /\ ~(x <= x - 1) /\ (x - 1) + 1 = x
  BY <1>1
<1> QED
  BY <1>1, <1>2

(* What is in a sequence.                                                   *)
Elems(s) == {s[i] : i \in DOMAIN s}
(* s is a sequence, whatever it is of.                                      *)
IsSeq(s) == s \in Seq(Elems(s))

(* A sequence of a set is one, and its elements are in the set.             *)
LEMMA SeqIs ==
  ASSUME NEW S, NEW s \in Seq(S)
  PROVE  IsSeq(s) /\ Elems(s) \subseteq S /\ Len(s) \in Nat /\ DOMAIN s = 1 .. Len(s)
<1>1. Len(s) \in Nat /\ DOMAIN s = 1 .. Len(s) /\ s \in [1 .. Len(s) -> S]
  BY LenProperties
<1>2. s \in [1 .. Len(s) -> Elems(s)]
  BY <1>1 DEF Elems
<1>3. s \in Seq(Elems(s))
  BY <1>1, <1>2, SeqDef
<1> QED
  BY <1>1, <1>3 DEF IsSeq, Elems

(* A sequence is one of any set that its elements are in.                   *)
LEMMA IsSeqIn ==
  ASSUME NEW s, IsSeq(s), NEW S, Elems(s) \subseteq S
  PROVE  s \in Seq(S)
BY SeqMonotonic DEF IsSeq

(* The length and the domain of a sequence.                                 *)
LEMMA IsSeqLen ==
  ASSUME NEW s, IsSeq(s)
  PROVE  Len(s) \in Nat /\ DOMAIN s = 1 .. Len(s) /\ (s # <<>> <=> Len(s) > 0)
<1>1. s \in Seq(Elems(s))
  BY DEF IsSeq
<1> QED
  BY <1>1, LenProperties, EmptySeq

(* A function of 1 .. n is a sequence of length n.                          *)
LEMMA Mapped ==
  ASSUME NEW q, NEW n \in Nat, DOMAIN q = 1 .. n, q = [i \in DOMAIN q |-> q[i]]
  PROVE  IsSeq(q) /\ Len(q) = n
<1>1. q \in [1 .. n -> Elems(q)]
  BY DEF Elems
<1>2. q \in Seq(Elems(q))
  BY <1>1, SeqDef
<1> QED
  BY <1>2, LenProperties, <1>1 DEF IsSeq

(* s \o t is s and behind it t.                                             *)
LEMMA Concatenated ==
  ASSUME NEW s, NEW t, IsSeq(s), IsSeq(t)
  PROVE  /\ IsSeq(s \o t) /\ Len(s \o t) = Len(s) + Len(t)
         /\ DOMAIN (s \o t) = 1 .. Len(s) + Len(t)
         /\ \A i \in DOMAIN s : i \in DOMAIN (s \o t) /\ (s \o t)[i] = s[i]
         /\ \A i \in DOMAIN t : Len(s) + i \in DOMAIN (s \o t) /\ (s \o t)[Len(s) + i] = t[i]
         /\ \A i \in DOMAIN (s \o t) :
              \/ i \in DOMAIN s
              \/ i - Len(s) \in DOMAIN t /\ i = Len(s) + (i - Len(s)) /\ (s \o t)[i] = t[i - Len(s)]
<1> DEFINE S == Elems(s) \cup Elems(t)
<1>1. s \in Seq(S) /\ t \in Seq(S)
  BY IsSeqIn
<1> HIDE DEF S
<1>2. /\ s \o t \in Seq(S) /\ Len(s \o t) = Len(s) + Len(t)
      /\ \A i \in 1 .. Len(s) + Len(t) :
           (s \o t)[i] = IF i <= Len(s) THEN s[i] ELSE t[i - Len(s)]
  BY <1>1, ConcatProperties
<1>3. /\ Len(s) \in Nat /\ Len(t) \in Nat /\ DOMAIN s = 1 .. Len(s) /\ DOMAIN t = 1 .. Len(t)
      /\ DOMAIN (s \o t) = 1 .. Len(s) + Len(t) /\ IsSeq(s \o t)
  BY <1>1, <1>2, SeqIs
<1>4. \A i \in DOMAIN t : Len(s) + i \in DOMAIN (s \o t) /\ (s \o t)[Len(s) + i] = t[i]
  <2> TAKE i \in DOMAIN t
  <2> DEFINE j == Len(s) + i
  <2>1. j \in 1 .. Len(s) + Len(t) /\ ~(j <= Len(s)) /\ j - Len(s) = i
    BY <1>3
  <2> HIDE DEF j
  <2>2. j \in DOMAIN (s \o t) /\ (s \o t)[j] = t[i]
    BY <1>2, <1>3, <2>1
  <2> QED
    BY <2>2 DEF j
<1>5. \A i \in DOMAIN s : i \in DOMAIN (s \o t) /\ (s \o t)[i] = s[i]
  BY <1>2, <1>3
<1>6. ASSUME NEW i \in DOMAIN (s \o t), i \notin DOMAIN s
      PROVE  i - Len(s) \in DOMAIN t /\ i = Len(s) + (i - Len(s)) /\ (s \o t)[i] = t[i - Len(s)]
  BY <1>2, <1>3, <1>6
<1> QED
  BY <1>2, <1>3, <1>4, <1>5, <1>6

(* What is in s \o t.                                                       *)
LEMMA ConcatElems ==
  ASSUME NEW s, NEW t, IsSeq(s), IsSeq(t)
  PROVE  Elems(s \o t) = Elems(s) \cup Elems(t)
<1>1. /\ \A i \in DOMAIN s : i \in DOMAIN (s \o t) /\ (s \o t)[i] = s[i]
      /\ \A i \in DOMAIN t : \E j \in DOMAIN (s \o t) : (s \o t)[j] = t[i]
      /\ \A i \in DOMAIN (s \o t) :
           i \in DOMAIN s \/ \E j \in DOMAIN t : (s \o t)[i] = t[j]
  <2> DEFINE u == s \o t
             n == Len(s)
  <2>1. /\ \A i \in DOMAIN s : i \in DOMAIN u /\ u[i] = s[i]
        /\ \A i \in DOMAIN t : n + i \in DOMAIN u /\ u[n + i] = t[i]
        /\ \A i \in DOMAIN u : i \in DOMAIN s \/ (i - n \in DOMAIN t /\ u[i] = t[i - n])
    BY Concatenated
  <2> HIDE DEF u, n
  <2>2. \A i \in DOMAIN t : \E j \in DOMAIN u : u[j] = t[i]
    BY <2>1
  <2>3. \A i \in DOMAIN u : i \in DOMAIN s \/ \E j \in DOMAIN t : u[i] = t[j]
    BY <2>1
  <2> QED
    BY <2>1, <2>2, <2>3 DEF u
<1> QED
  BY <1>1 DEF Elems

(* Append(s, x) is s and behind it x.                                       *)
LEMMA Appended ==
  ASSUME NEW s, NEW x, IsSeq(s)
  PROVE  /\ IsSeq(Append(s, x)) /\ Len(Append(s, x)) = Len(s) + 1
         /\ DOMAIN Append(s, x) = 1 .. Len(s) + 1
         /\ \A i \in DOMAIN s : i \in DOMAIN Append(s, x) /\ Append(s, x)[i] = s[i]
         /\ Append(s, x)[Len(s) + 1] = x
         /\ Elems(Append(s, x)) = Elems(s) \cup {x}
<1> DEFINE S == Elems(s) \cup {x}
<1>1. s \in Seq(S) /\ x \in S
  BY IsSeqIn
<1> HIDE DEF S
<1>2. /\ Append(s, x) \in Seq(S) /\ Len(Append(s, x)) = Len(s) + 1
      /\ \A i \in 1 .. Len(s) : Append(s, x)[i] = s[i]
      /\ Append(s, x)[Len(s) + 1] = x
  BY <1>1, AppendProperties
<1>3. /\ Len(s) \in Nat /\ DOMAIN s = 1 .. Len(s) /\ IsSeq(Append(s, x))
      /\ DOMAIN Append(s, x) = 1 .. Len(s) + 1
  BY <1>1, <1>2, SeqIs
<1>4. /\ \A i \in DOMAIN s : i \in DOMAIN Append(s, x)
      /\ \A i \in DOMAIN Append(s, x) : i \in DOMAIN s \/ i = Len(s) + 1
      /\ Len(s) + 1 \in DOMAIN Append(s, x)
  BY <1>3
<1>5. Elems(Append(s, x)) = Elems(s) \cup {x}
  <2> DEFINE n == Len(s) + 1
             a == Append(s, x)
  <2>1. /\ \A i \in DOMAIN s : i \in DOMAIN a /\ a[i] = s[i]
        /\ \A i \in DOMAIN a : i \in DOMAIN s \/ i = n
        /\ n \in DOMAIN a /\ a[n] = x
    BY <1>2, <1>3, <1>4
  <2> HIDE DEF n, a
  <2>2. Elems(a) = Elems(s) \cup {x}
    BY <2>1 DEF Elems
  <2> QED
    BY <2>2 DEF a
<1> QED
  BY <1>2, <1>3, <1>4, <1>5

(* A sequence is its head and behind it its tail.                           *)
LEMMA Tailed ==
  ASSUME NEW s, IsSeq(s), s # <<>>
  PROVE  /\ IsSeq(Tail(s)) /\ Len(Tail(s)) = Len(s) - 1
         /\ 1 \in DOMAIN s /\ Head(s) = s[1]
         /\ \A i \in DOMAIN Tail(s) : i + 1 \in DOMAIN s /\ Tail(s)[i] = s[i + 1]
         /\ \A i \in DOMAIN s : i = 1 \/ (i - 1 \in DOMAIN Tail(s) /\ s[i] = Tail(s)[i - 1])
         /\ Elems(s) = {Head(s)} \cup Elems(Tail(s))
<1>1. s \in Seq(Elems(s))
  BY DEF IsSeq
<1>2. /\ Head(s) \in Elems(s) /\ Tail(s) \in Seq(Elems(s)) /\ Len(Tail(s)) = Len(s) - 1
      /\ \A i \in 1 .. Len(Tail(s)) : Tail(s)[i] = s[i + 1]
  BY <1>1, HeadTailProperties
<1>3. /\ Len(s) \in Nat \ {0} /\ DOMAIN s = 1 .. Len(s) /\ Head(s) = s[1] /\ IsSeq(Tail(s))
      /\ DOMAIN Tail(s) = 1 .. Len(s) - 1
  <2>1. Len(s) \in Nat \ {0} /\ DOMAIN s = 1 .. Len(s) /\ Head(s) = s[1]
    BY IsSeqLen, <1>1
  <2>2. IsSeq(Tail(s)) /\ DOMAIN Tail(s) = 1 .. Len(Tail(s))
    BY <1>2, SeqIs
  <2> QED
    BY <1>2, <2>1, <2>2
<1>4. /\ \A i \in DOMAIN Tail(s) : i + 1 \in DOMAIN s /\ Tail(s)[i] = s[i + 1]
      /\ 1 \in DOMAIN s
  BY <1>2, <1>3
<1>5. ASSUME NEW i \in DOMAIN s, i # 1 PROVE i - 1 \in DOMAIN Tail(s) /\ s[i] = Tail(s)[i - 1]
  <2>1. i - 1 \in DOMAIN Tail(s) /\ (i - 1) + 1 = i
    BY <1>3, <1>5
  <2> QED
    BY <1>4, <2>1
<1>6. Elems(s) = {Head(s)} \cup Elems(Tail(s))
  <2>1. Head(s) \in Elems(s)
    BY <1>2
  <2>2. Elems(Tail(s)) \subseteq Elems(s)
    BY <1>4 DEF Elems
  <2>3. Elems(s) \subseteq {Head(s)} \cup Elems(Tail(s))
    BY <1>3, <1>5 DEF Elems
  <2> QED
    BY <2>1, <2>2, <2>3
<1> QED
  BY <1>2, <1>3, <1>4, <1>5, <1>6

(* A sequence is its front and behind it its last element.                  *)
LEMMA Fronted ==
  ASSUME NEW s, IsSeq(s), s # <<>>
  PROVE  /\ IsSeq(Seqs!Front(s)) /\ Len(Seqs!Front(s)) = Len(s) - 1
         /\ Len(s) \in DOMAIN s /\ Seqs!Last(s) = s[Len(s)]
         /\ \A i \in DOMAIN Seqs!Front(s) : i \in DOMAIN s /\ Seqs!Front(s)[i] = s[i]
         /\ Elems(s) = {Seqs!Last(s)} \cup Elems(Seqs!Front(s))
<1>1. s \in Seq(Elems(s)) /\ Len(s) \in Nat \ {0} /\ DOMAIN s = 1 .. Len(s)
  <2>1. s \in Seq(Elems(s))
    BY DEF IsSeq
  <2> QED
    BY <2>1, EmptySeq, SeqIs
<1> DEFINE f == Seqs!Front(s)
<1>2. f = SubSeq(s, 1, Len(s) - 1) /\ Seqs!Last(s) = s[Len(s)]
  BY DEF Seqs!Front, Seqs!Last
<1>3. f = [i \in 1 .. Len(s) - 1 |-> s[i]]
  BY <1>1, <1>2
<1>4. f \in Seq(Elems(s)) /\ Len(f) = Len(s) - 1 /\ DOMAIN f = 1 .. Len(s) - 1
  <2>1. \A i \in 1 .. Len(s) - 1 : s[i] \in Elems(s)
    BY <1>1 DEF Elems
  <2> QED
    BY <1>1, <1>3, <2>1
<1> HIDE DEF f
<1>5. /\ IsSeq(f) /\ \A i \in DOMAIN f : i \in DOMAIN s /\ f[i] = s[i]
      /\ Len(s) \in DOMAIN s
      /\ \A i \in DOMAIN s : i \in DOMAIN f \/ i = Len(s)
  <2>1. IsSeq(f)
    BY <1>4, SeqIs
  <2>2. \A i \in DOMAIN f : f[i] = s[i]
    BY <1>3, <1>4 DEF f
  <2> QED
    BY <1>1, <1>4, <2>1, <2>2
<1>6. Elems(s) = {Seqs!Last(s)} \cup Elems(f)
  BY <1>2, <1>5 DEF Elems
<1> QED
  BY <1>2, <1>4, <1>5, <1>6 DEF f

(* FlattenSeq(ss) is what is concatenated from ss step by step.  That the   *)
(* recursive function exists at all is shown by induction on its domain.    *)
LEMMA FlattenedInSteps ==
  ASSUME NEW ss, IsSeq(ss), ss # <<>>
  PROVE  \E f : /\ DOMAIN f = 1 .. Len(ss) /\ f[1] = ss[1]
                /\ \A i \in 2 .. Len(ss) : f[i] = f[i - 1] \o ss[i]
                /\ Seqs!FlattenSeq(ss) = f[Len(ss)]
<1> DEFINE L == Len(ss)
           At(f, i) == IF i = 1 THEN ss[i] ELSE f[i - 1] \o ss[i]
           Upto(f, m) == DOMAIN f = 1 .. m /\ \A i \in 1 .. m : f[i] = At(f, i)
           T == {m \in Nat : \E f : Upto(f, m)}
<1>1. L \in Nat \ {0}
  BY IsSeqLen
<1>2. 0 \in T
  <2>1. Upto(<<>>, 0)
    OBVIOUS
  <2> QED
    BY <2>1
<1>3. ASSUME NEW m \in Nat, m \in T PROVE m + 1 \in T
  <2>1. PICK f : Upto(f, m)
    BY <1>3
  <2> DEFINE g == [i \in 1 .. m + 1 |-> IF i <= m THEN f[i] ELSE At(f, m + 1)]
  <2>2. DOMAIN g = 1 .. m + 1
    OBVIOUS
  <2>3. ASSUME NEW i \in 1 .. m + 1 PROVE g[i] = At(g, i)
    <3>1. CASE i <= m
      <4>1. i \in 1 .. m /\ g[i] = f[i] /\ (i # 1 => g[i - 1] = f[i - 1])
        BY <3>1
      <4> QED
        BY <2>1, <4>1
    <3>2. CASE i = m + 1
      <4>1. g[i] = At(f, i) /\ (i # 1 => g[i - 1] = f[i - 1])
        BY <3>2
      <4> QED
        BY <4>1
    <3> QED
      BY <3>1, <3>2
  <2>4. Upto(g, m + 1)
    BY <2>2, <2>3
  <2> HIDE DEF g, Upto
  <2> QED
    BY <2>4
<1>4. L \in T
  <2> HIDE DEF T
  <2>1. Nat \subseteq T
    BY <1>2, <1>3, Inducted
  <2> QED
    BY <1>1, <2>1
<1>5. PICK f0 : Upto(f0, L)
  BY <1>4
<1> DEFINE E(f) == f = [i \in 1 .. L |-> At(f, i)]
           F == CHOOSE f : E(f)
<1>6. \E f : E(f)
  <2>1. DOMAIN f0 = 1 .. L /\ \A i \in 1 .. L : f0[i] = At(f0, i)
    BY <1>5
  <2> DEFINE h == [i \in 1 .. L |-> f0[i]]
  <2>2. \A i \in 1 .. L : h[i] = f0[i] /\ (i # 1 => h[i - 1] = f0[i - 1])
    BY <1>1
  <2>3. \A i \in 1 .. L : h[i] = At(h, i)
    BY <2>1, <2>2
  <2>4. E(h)
    BY <2>3
  <2> QED
    BY <2>4
<1>7. E(F)
  BY <1>6
<1>8. Seqs!FlattenSeq(ss) = F[L]
  BY <1>1 DEF Seqs!FlattenSeq
<1>9. DOMAIN F = 1 .. L /\ \A i \in 1 .. L : F[i] = At(F, i)
  <2> HIDE DEF F
  <2> QED
    BY <1>7
<1> HIDE DEF F
<1> HIDE DEF L
<1>10. F[1] = ss[1] /\ \A i \in 2 .. L : F[i] = F[i - 1] \o ss[i]
  <2>1. 1 \in 1 .. L /\ \A i \in 2 .. L : i \in 1 .. L /\ i # 1
    BY <1>1
  <2> QED
    BY <1>9, <2>1
<1> QED
  BY <1>8, <1>9, <1>10 DEF L

(* Only(s, S) is what is selected from s step by step.                      *)
LEMMA OnlyInSteps ==
  ASSUME NEW s, IsSeq(s), NEW S
  PROVE  \E f : /\ f[0] = <<>>
                /\ \A n \in 1 .. Len(s) :
                     f[n] = IF s[n] \in S THEN Append(f[n - 1], s[n]) ELSE f[n - 1]
                /\ Only(s, S) = f[Len(s)]
<1> DEFINE L == Len(s)
           At(f, n) == IF n = 0 THEN <<>>
                       ELSE IF s[n] \in S THEN Append(f[n - 1], s[n]) ELSE f[n - 1]
           Upto(f, m) == DOMAIN f = 0 .. m /\ \A i \in 0 .. m : f[i] = At(f, i)
           T == {m \in Nat : \E f : Upto(f, m)}
<1>1. L \in Nat
  BY IsSeqLen
<1>2. 0 \in T
  <2>1. Upto([i \in 0 .. 0 |-> <<>>], 0)
    OBVIOUS
  <2> QED
    BY <2>1
<1>3. ASSUME NEW m \in Nat, m \in T PROVE m + 1 \in T
  <2>1. PICK f : Upto(f, m)
    BY <1>3
  <2> DEFINE g == [i \in 0 .. m + 1 |-> IF i <= m THEN f[i] ELSE At(f, m + 1)]
  <2>2. DOMAIN g = 0 .. m + 1
    OBVIOUS
  <2>3. ASSUME NEW i \in 0 .. m + 1 PROVE g[i] = At(g, i)
    <3>1. CASE i <= m
      <4>1. i \in 0 .. m /\ g[i] = f[i] /\ (i # 0 => g[i - 1] = f[i - 1])
        BY <3>1
      <4> QED
        BY <2>1, <4>1
    <3>2. CASE i = m + 1
      <4>1. g[i] = At(f, i) /\ (i # 0 => g[i - 1] = f[i - 1])
        BY <3>2
      <4> QED
        BY <4>1
    <3> QED
      BY <3>1, <3>2
  <2>4. Upto(g, m + 1)
    BY <2>2, <2>3
  <2> HIDE DEF g, Upto
  <2> QED
    BY <2>4
<1>4. L \in T
  <2> HIDE DEF T
  <2>1. Nat \subseteq T
    BY <1>2, <1>3, Inducted
  <2> QED
    BY <1>1, <2>1
<1>5. PICK f0 : Upto(f0, L)
  BY <1>4
<1> DEFINE E(f) == f = [i \in 0 .. L |-> At(f, i)]
           F == CHOOSE f : E(f)
<1>6. \E f : E(f)
  <2>1. DOMAIN f0 = 0 .. L /\ \A i \in 0 .. L : f0[i] = At(f0, i)
    BY <1>5
  <2> DEFINE h == [i \in 0 .. L |-> f0[i]]
  <2>2. \A i \in 0 .. L : h[i] = f0[i] /\ (i # 0 => h[i - 1] = f0[i - 1])
    BY <1>1
  <2>3. \A i \in 0 .. L : h[i] = At(h, i)
    BY <2>1, <2>2
  <2>4. E(h)
    BY <2>3
  <2> QED
    BY <2>4
<1>7. E(F)
  BY <1>6
<1>8. Only(s, S) = F[L]
  BY DEF Only
<1>9. DOMAIN F = 0 .. L /\ \A i \in 0 .. L : F[i] = At(F, i)
  <2> HIDE DEF F
  <2> QED
    BY <1>7
<1> HIDE DEF F
<1> HIDE DEF L
<1>10. /\ F[0] = <<>>
       /\ \A i \in 1 .. L : F[i] = IF s[i] \in S THEN Append(F[i - 1], s[i]) ELSE F[i - 1]
  <2>1. 0 \in 0 .. L /\ \A i \in 1 .. L : i \in 0 .. L /\ i # 0
    BY <1>1
  <2> QED
    BY <1>9, <2>1
<1> QED
  BY <1>8, <1>10 DEF L

(* Only(s, S) is a sequence of what s and S have in common.                 *)
LEMMA OnlyElems ==
  ASSUME NEW s, IsSeq(s), NEW S
  PROVE  IsSeq(Only(s, S)) /\ Elems(Only(s, S)) = Elems(s) \cap S
<1>1. PICK f : /\ f[0] = <<>>
               /\ \A n \in 1 .. Len(s) :
                    f[n] = IF s[n] \in S THEN Append(f[n - 1], s[n]) ELSE f[n - 1]
               /\ Only(s, S) = f[Len(s)]
  BY OnlyInSteps
<1>2. Len(s) \in Nat /\ DOMAIN s = 1 .. Len(s)
  BY IsSeqLen
<1> DEFINE First(n) == {s[i] : i \in 1 .. n}
           T == {n \in Nat : n <= Len(s) => IsSeq(f[n]) /\ Elems(f[n]) = First(n) \cap S}
<1>3. 0 \in T
  <2>1. IsSeq(<<>>) /\ Elems(<<>>) = {}
    BY EmptySeq DEF Elems, IsSeq
  <2>2. First(0) = {}
    OBVIOUS
  <2> QED
    BY <1>1, <2>1, <2>2
<1>4. ASSUME NEW n \in Nat, n \in T PROVE n + 1 \in T
  <2> SUFFICES ASSUME n + 1 <= Len(s)
               PROVE  IsSeq(f[n + 1]) /\ Elems(f[n + 1]) = First(n + 1) \cap S
    OBVIOUS
  <2>1. IsSeq(f[n]) /\ Elems(f[n]) = First(n) \cap S
    BY <1>2, <1>4
  <2>2. n + 1 \in 1 .. Len(s) /\ (n + 1) - 1 = n
    BY <1>2
  <2>3. f[n + 1] = IF s[n + 1] \in S THEN Append(f[n], s[n + 1]) ELSE f[n]
    BY <1>1, <2>2
  <2>4. First(n + 1) = First(n) \cup {s[n + 1]}
    OBVIOUS
  <2> HIDE DEF First
  <2>5. CASE s[n + 1] \in S
    <3>1. IsSeq(f[n + 1]) /\ Elems(f[n + 1]) = Elems(f[n]) \cup {s[n + 1]}
      BY <2>1, <2>3, <2>5, Appended
    <3> QED
      BY <2>1, <2>4, <2>5, <3>1
  <2>6. CASE s[n + 1] \notin S
    BY <2>1, <2>3, <2>4, <2>6
  <2> QED
    BY <2>5, <2>6
<1>5. Len(s) \in T
  <2> HIDE DEF T
  <2>1. Nat \subseteq T
    BY <1>3, <1>4, Inducted
  <2> QED
    BY <1>2, <2>1
<1>6. First(Len(s)) = Elems(s)
  BY <1>2 DEF Elems
<1> QED
  BY <1>1, <1>2, <1>5, <1>6

(* FlattenSeq(ss) is a sequence of what is in the elements of ss.           *)
LEMMA FlattenElems ==
  ASSUME NEW ss, IsSeq(ss), \A i \in DOMAIN ss : IsSeq(ss[i])
  PROVE  /\ IsSeq(Seqs!FlattenSeq(ss))
         /\ Elems(Seqs!FlattenSeq(ss)) = UNION {Elems(ss[i]) : i \in DOMAIN ss}
<1>1. Len(ss) \in Nat /\ DOMAIN ss = 1 .. Len(ss)
  BY IsSeqLen
<1>2. CASE ss = <<>>
  <2>1. Seqs!FlattenSeq(ss) = <<>>
    BY <1>2, IsSeqLen DEF Seqs!FlattenSeq
  <2>2. IsSeq(<<>>) /\ Elems(<<>>) = {}
    BY EmptySeq DEF Elems, IsSeq
  <2> QED
    BY <1>2, <2>1, <2>2
<1>3. CASE ss # <<>>
  <2>1. PICK f : /\ DOMAIN f = 1 .. Len(ss) /\ f[1] = ss[1]
                 /\ \A i \in 2 .. Len(ss) : f[i] = f[i - 1] \o ss[i]
                 /\ Seqs!FlattenSeq(ss) = f[Len(ss)]
    BY <1>3, FlattenedInSteps
  <2>2. Len(ss) \in Nat \ {0}
    BY <1>3, IsSeqLen
  <2> DEFINE First(n) == UNION {Elems(ss[i]) : i \in 1 .. n}
             T == {n \in Nat : 0 < n /\ n <= Len(ss) => IsSeq(f[n]) /\ Elems(f[n]) = First(n)}
  <2>3. 0 \in T
    OBVIOUS
  <2>4. ASSUME NEW n \in Nat, n \in T PROVE n + 1 \in T
    <3> SUFFICES ASSUME n + 1 <= Len(ss)
                 PROVE  IsSeq(f[n + 1]) /\ Elems(f[n + 1]) = First(n + 1)
      OBVIOUS
    <3>1. First(n + 1) = First(n) \cup Elems(ss[n + 1])
      OBVIOUS
    <3>2. n + 1 \in DOMAIN ss /\ IsSeq(ss[n + 1])
      BY <1>1
    <3>3. CASE n = 0
      <4>1. First(0) = {}
        OBVIOUS
      <4> QED
        BY <2>1, <3>1, <3>2, <3>3, <4>1
    <3>4. CASE n # 0
      <4>1. IsSeq(f[n]) /\ Elems(f[n]) = First(n)
        BY <1>1, <2>4, <3>4
      <4>2. n + 1 \in 2 .. Len(ss) /\ (n + 1) - 1 = n
        BY <1>1, <3>4
      <4>3. f[n + 1] = f[n] \o ss[n + 1]
        BY <2>1, <4>2
      <4> HIDE DEF First
      <4>4. IsSeq(f[n] \o ss[n + 1])
        BY <3>2, <4>1, Concatenated
      <4>5. Elems(f[n] \o ss[n + 1]) = Elems(f[n]) \cup Elems(ss[n + 1])
        BY <3>2, <4>1, ConcatElems
      <4> QED
        BY <3>1, <4>1, <4>3, <4>4, <4>5
    <3> QED
      BY <3>3, <3>4
  <2>5. Len(ss) \in T
    <3> HIDE DEF T
    <3>1. Nat \subseteq T
      BY <2>3, <2>4, Inducted
    <3> QED
      BY <1>1, <3>1
  <2> QED
    BY <1>1, <2>1, <2>2, <2>5
<1> QED
  BY <1>2, <1>3

(* A sequence of one element.                                               *)
LEMMA One ==
  ASSUME NEW a
  PROVE  IsSeq(<<a>>) /\ Len(<<a>>) = 1 /\ DOMAIN <<a>> = {1} /\ <<a>>[1] = a /\ Elems(<<a>>) = {a}
<1>1. DOMAIN <<a>> = 1 .. 1 /\ <<a>> = [i \in DOMAIN <<a>> |-> <<a>>[i]] /\ <<a>>[1] = a
  OBVIOUS
<1>2. IsSeq(<<a>>) /\ Len(<<a>>) = 1
  BY <1>1, Mapped
<1>3. 1 .. 1 = {1}
  OBVIOUS
<1> QED
  BY <1>1, <1>2, <1>3 DEF Elems

(* A sequence of two elements.                                              *)
LEMMA Two ==
  ASSUME NEW a, NEW b
  PROVE  /\ IsSeq(<<a, b>>) /\ Len(<<a, b>>) = 2 /\ DOMAIN <<a, b>> = {1, 2}
         /\ <<a, b>>[1] = a /\ <<a, b>>[2] = b /\ Elems(<<a, b>>) = {a, b}
<1>1. /\ DOMAIN <<a, b>> = 1 .. 2 /\ <<a, b>> = [i \in DOMAIN <<a, b>> |-> <<a, b>>[i]]
      /\ <<a, b>>[1] = a /\ <<a, b>>[2] = b
  OBVIOUS
<1>2. IsSeq(<<a, b>>) /\ Len(<<a, b>>) = 2
  BY <1>1, Mapped
<1>3. 1 .. 2 = {1, 2}
  OBVIOUS
<1> QED
  BY <1>1, <1>2, <1>3 DEF Elems

(* One element and behind it another.                                       *)
LEMMA TwoIs ==
  ASSUME NEW x, NEW y
  PROVE  <<x>> \o <<y>> = <<x, y>>
<1> DEFINE E == {x, y}
<1>1. /\ <<x>> \in Seq(E) /\ <<y>> \in Seq(E) /\ <<x, y>> \in Seq(E)
      /\ Len(<<x>>) = 1 /\ Len(<<y>>) = 1 /\ Len(<<x, y>>) = 2
  OBVIOUS
<1> HIDE DEF E
<1> PICK r : r = <<x>> \o <<y>>
  OBVIOUS
<1>2. /\ r \in Seq(E) /\ Len(r) = 2
      /\ \A i \in 1 .. 2 : r[i] = IF i <= 1 THEN <<x>>[i] ELSE <<y>>[i - 1]
  BY <1>1, ConcatProperties
<1>3. \A i \in 1 .. Len(r) : r[i] = <<x, y>>[i]
  <2>1. r[1] = x /\ r[2] = y
    BY <1>2
  <2>2. \A i \in 1 .. Len(r) : i = 1 \/ i = 2
    BY <1>2
  <2>3. <<x, y>>[1] = x /\ <<x, y>>[2] = y
    BY Two
  <2> QED
    BY <2>1, <2>2, <2>3
<1> QED
  BY <1>1, <1>2, <1>3, SeqEqual

(* One element and behind it two others.                                    *)
LEMMA ThreeIs ==
  ASSUME NEW x, NEW y, NEW z
  PROVE  <<x>> \o <<y, z>> = <<x, y, z>>
<1> DEFINE E == {x, y, z}
<1>1. /\ <<x>> \in Seq(E) /\ <<y, z>> \in Seq(E) /\ <<x, y, z>> \in Seq(E)
      /\ Len(<<x>>) = 1 /\ Len(<<y, z>>) = 2 /\ Len(<<x, y, z>>) = 3
  OBVIOUS
<1> HIDE DEF E
<1>2. <<x>> \o <<y, z>> = <<x, y, z>>
  <2> PICK r : r = <<x>> \o <<y, z>>
    OBVIOUS
  <2>1. /\ r \in Seq(E) /\ Len(r) = 3
        /\ \A i \in 1 .. 3 : r[i] = IF i <= 1 THEN <<x>>[i] ELSE <<y, z>>[i - 1]
    BY <1>1, ConcatProperties
  <2>2. \A i \in 1 .. Len(r) : r[i] = <<x, y, z>>[i]
    <3>1. r[1] = x /\ r[2] = y /\ r[3] = z
      BY <2>1
    <3>2. \A i \in 1 .. Len(r) : i = 1 \/ i = 2 \/ i = 3
      BY <2>1
    <3> QED
      BY <3>1, <3>2
  <2> QED
    BY <1>1, <2>1, <2>2, SeqEqual
<1> QED
  BY <1>2

(* One element and behind it three others.                                  *)
LEMMA FourIs ==
  ASSUME NEW x, NEW u, NEW y, NEW z
  PROVE  <<x>> \o <<u, y, z>> = <<x, u, y, z>>
<1> DEFINE E == {x, u, y, z}
<1>1. /\ <<x>> \in Seq(E) /\ <<u, y, z>> \in Seq(E) /\ <<x, u, y, z>> \in Seq(E)
      /\ Len(<<x>>) = 1 /\ Len(<<u, y, z>>) = 3 /\ Len(<<x, u, y, z>>) = 4
  OBVIOUS
<1> HIDE DEF E
<1>3. <<x>> \o <<u, y, z>> = <<x, u, y, z>>
  <2> PICK r : r = <<x>> \o <<u, y, z>>
    OBVIOUS
  <2>1. /\ r \in Seq(E) /\ Len(r) = 4
        /\ \A i \in 1 .. 4 : r[i] = IF i <= 1 THEN <<x>>[i] ELSE <<u, y, z>>[i - 1]
    BY <1>1, ConcatProperties
  <2>2. \A i \in 1 .. Len(r) : r[i] = <<x, u, y, z>>[i]
    <3>1. r[1] = x /\ r[2] = u /\ r[3] = y /\ r[4] = z
      BY <2>1
    <3>2. \A i \in 1 .. Len(r) : i = 1 \/ i = 2 \/ i = 3 \/ i = 4
      BY <2>1
    <3> QED
      BY <3>1, <3>2
  <2> QED
    BY <1>1, <2>1, <2>2, SeqEqual
<1> QED
  BY <1>3

(* Append(s, x) puts <<x>> behind s.                                        *)
LEMMA AppendIs ==
  ASSUME NEW s, IsSeq(s), NEW x
  PROVE  Append(s, x) = s \o <<x>>
<1>1. s \in Seq(Elems(s) \cup {x})
  BY IsSeqIn
<1> QED
  BY <1>1, AppendIsConcat

(* Sequences are put together in either order.                              *)
LEMMA Associated ==
  ASSUME NEW s, NEW t, NEW u, IsSeq(s), IsSeq(t), IsSeq(u)
  PROVE  (s \o t) \o u = s \o (t \o u)
<1> DEFINE E == Elems(s) \cup Elems(t) \cup Elems(u)
<1>1. s \in Seq(E) /\ t \in Seq(E) /\ u \in Seq(E)
  BY IsSeqIn
<1> HIDE DEF E
<1> QED
  BY <1>1, ConcatAssociative

(* A sequence is its head and behind it its tail.                           *)
LEMMA HeadFirst ==
  ASSUME NEW q, IsSeq(q), q # <<>>
  PROVE  q = <<Head(q)>> \o Tail(q)
<1>1. q \in Seq(Elems(q)) /\ Head(q) \in Elems(q) /\ Tail(q) \in Seq(Elems(q))
  <2>1. IsSeq(Tail(q)) /\ Elems(q) = {Head(q)} \cup Elems(Tail(q))
    BY Tailed
  <2> QED
    BY <2>1, IsSeqIn DEF IsSeq
<1>2. <<Head(q)>> \in Seq(Elems(q))
  BY <1>1
<1>3. /\ Len(q) \in Nat /\ Len(Tail(q)) = Len(q) - 1 /\ Head(q) = q[1]
      /\ \A i \in 1 .. Len(Tail(q)) : Tail(q)[i] = q[i + 1]
  <2>1. IsSeq(Tail(q)) /\ Len(q) \in Nat
    BY Tailed, IsSeqLen
  <2>2. DOMAIN Tail(q) = 1 .. Len(Tail(q))
    BY <2>1, IsSeqLen
  <2> QED
    BY <2>1, <2>2, Tailed
<1> DEFINE r == <<Head(q)>> \o Tail(q)
<1>4. /\ r \in Seq(Elems(q)) /\ Len(r) = 1 + Len(Tail(q))
      /\ \A i \in 1 .. 1 + Len(Tail(q)) :
           r[i] = IF i <= 1 THEN <<Head(q)>>[i] ELSE Tail(q)[i - 1]
  BY <1>1, <1>2, ConcatProperties
<1> HIDE DEF r
<1>5. \A i \in 1 .. Len(q) : q[i] = r[i]
  <2> SUFFICES ASSUME NEW i \in 1 .. Len(q) PROVE q[i] = r[i]
    OBVIOUS
  <2>1. CASE i = 1
    BY <1>3, <1>4, <2>1
  <2>2. CASE i > 1
    <3>1. i - 1 \in 1 .. Len(Tail(q)) /\ (i - 1) + 1 = i
      BY <1>3, <2>2
    <3> QED
      BY <1>3, <1>4, <2>2, <3>1
  <2> QED
    BY <2>1, <2>2
<1>6. Len(q) = Len(r)
  BY <1>3, <1>4
<1>7. q = r
  BY <1>1, <1>4, <1>5, <1>6, SeqEqual
<1> QED
  BY <1>7 DEF r

(* r is p and behind it q, element by element.                              *)
Joins(r, p, q) ==
  /\ \A i \in DOMAIN p : i \in DOMAIN r /\ r[i] = p[i]
  /\ \A i \in DOMAIN q : Len(p) + i \in DOMAIN r /\ r[Len(p) + i] = q[i]
  /\ \A i \in DOMAIN r :
       \/ i \in DOMAIN p /\ r[i] = p[i]
       \/ i - Len(p) \in DOMAIN q /\ i = Len(p) + (i - Len(p)) /\ r[i] = q[i - Len(p)]
  /\ IsSeq(r) /\ Len(r) = Len(p) + Len(q)

(* That is what p \o q is.                                                  *)
LEMMA Joined ==
  ASSUME NEW p, NEW q, IsSeq(p), IsSeq(q)
  PROVE  Joins(p \o q, p, q)
<1> DEFINE r == p \o q
<1>1. \A i \in DOMAIN p : i \in DOMAIN r /\ r[i] = p[i]
  BY Concatenated
<1>2. \A i \in DOMAIN q : Len(p) + i \in DOMAIN r /\ r[Len(p) + i] = q[i]
  BY Concatenated
<1>3. \A i \in DOMAIN r :
        \/ i \in DOMAIN p /\ r[i] = p[i]
        \/ i - Len(p) \in DOMAIN q /\ i = Len(p) + (i - Len(p)) /\ r[i] = q[i - Len(p)]
  BY Concatenated, ZenonT(40)
<1>4. IsSeq(r) /\ Len(r) = Len(p) + Len(q)
  BY Concatenated
<1> QED
  BY <1>1, <1>2, <1>3, <1>4 DEF Joins
-----------------------------------------------------------------------------
(* x and what follows an element of it by G.                                *)
Further(G, x) == x \cup UNION {G[p] : p \in x}

(* Going on N times from the positions A, each with its successors G.       *)
Spreads(f, A, G, N) ==
  f = [n \in 0 .. N |-> IF n = 0 THEN A ELSE Further(G, f[n - 1])]

(* It can be done, and stays among the positions.                           *)
LEMMA SpreadExists ==
  ASSUME NEW P, NEW A \in SUBSET P, NEW G \in [P -> SUBSET P], NEW N \in Nat
  PROVE  \E f : Spreads(f, A, G, N) /\ \A n \in 0 .. N : f[n] \subseteq P
<1> DEFINE At(f, n) == IF n = 0 THEN A ELSE Further(G, f[n - 1])
           Upto(f, m) == /\ f = [n \in 0 .. m |-> f[n]]
                         /\ \A n \in 0 .. m : f[n] = At(f, n) /\ f[n] \subseteq P
           T == {m \in Nat : \E f : Upto(f, m)}
<1>1. \A x \in SUBSET P : Further(G, x) \subseteq P
  BY DEF Further
<1>2. 0 \in T
  <2> DEFINE g == [n \in 0 .. 0 |-> A]
  <2>1. Upto(g, 0)
    OBVIOUS
  <2> HIDE DEF g, Upto
  <2> QED
    BY <2>1
<1>3. ASSUME NEW m \in Nat, m \in T PROVE m + 1 \in T
  <2>1. PICK f : Upto(f, m)
    BY <1>3
  <2> DEFINE g == [n \in 0 .. m + 1 |-> IF n <= m THEN f[n] ELSE Further(G, f[m])]
  <2>2. ASSUME NEW n \in 0 .. m + 1 PROVE g[n] = At(g, n) /\ g[n] \subseteq P
    <3>1. CASE n <= m
      <4>1. n \in 0 .. m /\ g[n] = f[n] /\ (n # 0 => n - 1 \in 0 .. m + 1 /\ g[n - 1] = f[n - 1])
        BY <3>1
      <4> HIDE DEF g
      <4> QED
        BY <2>1, <4>1
    <3>2. CASE n = m + 1
      <4>1. n # 0 /\ n - 1 = m /\ m \in 0 .. m /\ g[n] = Further(G, f[m]) /\ g[m] = f[m]
        BY <3>2
      <4>2. f[m] \subseteq P
        BY <2>1, <4>1
      <4> HIDE DEF g
      <4> QED
        BY <1>1, <4>1, <4>2
    <3> QED
      BY <3>1, <3>2
  <2>3. g = [n \in 0 .. m + 1 |-> g[n]]
    OBVIOUS
  <2>4. Upto(g, m + 1)
    BY <2>2, <2>3
  <2> HIDE DEF g, Upto
  <2> QED
    BY <2>4
<1>4. PICK f : Upto(f, N)
  <2> HIDE DEF T
  <2>1. N \in T
    BY <1>2, <1>3, Inducted
  <2> QED
    BY <2>1 DEF T
<1>5. f = [n \in 0 .. N |-> At(f, n)]
  BY <1>4
<1> QED
  BY <1>4, <1>5 DEF Spreads

(* So f goes on as long as it stays in P.                                   *)
GoesOn(f, A, G, N, P) ==
  /\ f[0] = A
  /\ \A n \in Nat : n < N /\ f[n] \subseteq P => f[n + 1] = Further(G, f[n])

(* R holds A, and lies in every part of P that holds A and has no way out.  *)
Spread(R, A, G, P) ==
  /\ A \subseteq R /\ R \subseteq P
  /\ \A S \in SUBSET P : A \subseteq S /\ (\A p \in S : G[p] \subseteq S) => R \subseteq S

(* Such is what is reached in the end.                                      *)
LEMMA SpreadIs ==
  ASSUME NEW P, NEW A \in SUBSET P, NEW G \in [P -> SUBSET P], NEW N \in Nat, NEW f,
         GoesOn(f, A, G, N, P)
  PROVE  Spread(f[N], A, G, P)
<1> USE DEF GoesOn
<1>1. ASSUME NEW S \in SUBSET P, A \subseteq S, \A p \in S : G[p] \subseteq S
      PROVE  A \subseteq f[N] /\ f[N] \subseteq S
  <2> DEFINE T == {n \in Nat : n <= N => A \subseteq f[n] /\ f[n] \subseteq S}
  <2>1. 0 \in T
    BY <1>1
  <2>2. ASSUME NEW n \in Nat, n \in T PROVE n + 1 \in T
    <3>1. n + 1 <= N => n < N /\ n <= N
      OBVIOUS
    <3>2. \A x \in SUBSET S : x \subseteq Further(G, x) /\ Further(G, x) \subseteq S
      BY <1>1 DEF Further
    <3> QED
      BY <1>1, <2>2, <3>1, <3>2
  <2>3. Nat \subseteq T
    <3> HIDE DEF T
    <3> QED
      BY <2>1, <2>2, Inducted
  <2> QED
    BY <2>3
<1>2. A \subseteq f[N] /\ f[N] \subseteq P
  BY <1>1
<1> QED
  BY <1>1, <1>2 DEF Spread
=============================================================================
