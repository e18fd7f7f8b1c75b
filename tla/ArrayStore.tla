------------------------------ MODULE ArrayStore ------------------------------
(***************************************************************************)
(* What the C library promises to compiled code: arrays and texts are      *)
(* sequences of words that live from their allocation to their release.    *)
(* An allocation may be refused with the null handle and a push may be     *)
(* refused with the old length, but nothing else is ever lost or changed.  *)
(***************************************************************************)
EXTENDS Sequences, Integers

CONSTANTS
  Words,      \* the values a program stores
  Lengths,    \* lengths a program asks for
  Newline,    \* the byte that ends a line
  MaxHandles, \* handles a run allocates, at most
  Limit       \* bound on lengths and indices

VARIABLES
  arrays,     \* handle |-> the words it holds, for the live handles
  input,      \* bytes standard input still holds
  reply,      \* the last call, its arguments and what it returned
  stopped     \* the program exited with an error

svars == <<arrays, input, reply, stopped>>

Null == 0
Live == DOMAIN arrays
Value(h) == IF h = Null THEN <<>> ELSE arrays[h]
Zeros(n) == [i \in 1..n |-> 0]
Is(h, words) == [g \in Live \cup {h} |-> IF g = h THEN words ELSE arrays[g]]

StoreInit ==
  /\ arrays = [h \in {} |-> <<>>]
  /\ input \in Seq(Nat)
  /\ reply = <<>>
  /\ stopped = FALSE

Reply(call, result) == reply' = Append(call, result) /\ UNCHANGED stopped
SameArrays == UNCHANGED arrays
SameInput == UNCHANGED input
Answer(call, result) == Reply(call, result) /\ SameArrays /\ SameInput

\* A fresh handle that holds the given words, or the null handle.
Allocate(call, words) ==
  \/ Answer(call, Null)
  \/ \E h \in 1..MaxHandles :
       /\ Reply(call, h) /\ SameInput
       /\ h \notin Live
       /\ arrays' = Is(h, words)

New(n) == Allocate(<<"new", n>>, Zeros(n))
NewRecord == Allocate(<<"record">>, <<>>)
Concat(a, b) == Allocate(<<"concat", a, b>>, Value(a) \o Value(b))

\* The null handle reads as zero everywhere and ignores what it is told.
OnNull ==
  \E call \in {<<"len", Null>>, <<"cap", Null>>, <<"pop", Null>>}
                \cup {<<"get", Null, i>> : i \in {-1, 0}}
                \cup {<<"push", Null, v>> : v \in Words}
                \cup {<<"set", Null, i, v>> : i \in {-1, 0}, v \in Words} :
    Answer(call, 0)

Get(h, i) == i < Len(arrays[h]) /\ Answer(<<"get", h, i>>, arrays[h][i + 1])

Set(h, i, v) ==
  /\ Reply(<<"set", h, i, v>>, h) /\ SameInput
  /\ i < Len(arrays[h])
  /\ arrays' = [arrays EXCEPT ![h][i + 1] = v]

\* An index outside the array ends the program.
OutOfBounds == ~stopped /\ stopped' = TRUE /\ UNCHANGED <<arrays, input, reply>>

LengthOf(h) == Answer(<<"len", h>>, Len(arrays[h]))

\* All a program may rely on is that the capacity covers the length.
Capacity(h) == \E c \in 0..Limit : Answer(<<"cap", h>>, c) /\ c >= Len(arrays[h])

\* The new length, or the old one when there was no room.
Push(h, v) ==
  LET n == Len(arrays[h])
  IN  \/ Answer(<<"push", h, v>>, n)
      \/ /\ Reply(<<"push", h, v>>, n + 1) /\ SameInput
         /\ arrays' = [arrays EXCEPT ![h] = Append(@, v)]

Pop(h) ==
  LET n == Len(arrays[h])
  IN  \/ n = 0 /\ Answer(<<"pop", h>>, 0)
      \/ /\ n > 0
         /\ Reply(<<"pop", h>>, arrays[h][n]) /\ SameInput
         /\ arrays' = [arrays EXCEPT ![h] = SubSeq(@, 1, n - 1)]

Equal(a, b) == Answer(<<"eq", a, b>>, IF Value(a) = Value(b) THEN 1 ELSE 0)

\* The words that reach standard output are part of the answer.
PrintText(h) == Answer(<<"print", h>>, Value(h))

Free(h) ==
  /\ Reply(<<"free", h>>, 0) /\ SameInput
  /\ arrays' = [g \in Live \ {h} |-> arrays[g]]

\* The bytes of the line, or as many as there was room for: the byte after
\* them is lost, newline or not.
Line(n) == n <= Len(input) /\ \A i \in 1..n : input[i] # Newline
ReadLine ==
  \/ Answer(<<"line">>, Null)
  \/ \E h \in 1..MaxHandles :
       /\ Reply(<<"line">>, h) /\ h \notin Live
       /\ \E n \in 0..Len(input) :
            /\ Line(n)
            /\ input' = SubSeq(input, n + 2, Len(input))
            /\ arrays' = Is(h, SubSeq(input, 1, n))

\* A step is one the program can tell from no step at all.
StoreNext ==
  /\ ~stopped
  /\ svars' # svars
  /\ \/ NewRecord \/ ReadLine \/ OnNull \/ OutOfBounds
     \/ \E n \in Lengths : New(n)
     \/ \E h \in Live :
          \/ LengthOf(h) \/ Capacity(h) \/ Pop(h) \/ Free(h)
          \/ \E v \in Words : Push(h, v)
          \/ \E i \in 0..Limit : Get(h, i)
          \/ \E i \in 0..Limit, v \in Words : Set(h, i, v)
     \/ \E h, g \in Live \cup {Null} :
          Concat(h, g) \/ Equal(h, g) \/ PrintText(h)

StoreSpec == StoreInit /\ [][StoreNext]_svars
==============================================================================
