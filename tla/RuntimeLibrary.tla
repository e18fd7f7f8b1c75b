---------------------------- MODULE RuntimeLibrary ----------------------------
(***************************************************************************)
(* The memory, array and text functions of the C runtime                   *)
(* (src/driver_pipeline/runtime.rs, RUNTIME_C), called by one compiled     *)
(* program in any order on the handles it holds.  A handle is an           *)
(* avera_alloc block whose header's aux owns a second block, the words;    *)
(* calloc and realloc may fail at every call, and realloc may move.        *)
(* Integers are as wide as LongMax and SizeMax say.                        *)
(***************************************************************************)
EXTENDS Integers, Sequences, FiniteSets

CONSTANTS
  LongMax, SizeMax,  \* LONG_MAX and SIZE_MAX
  ElemSize,          \* sizeof(long), the only element size lowering passes
  Words,             \* values a program stores; zero is one of them
  Newline,           \* the byte that ends a line
  Lengths,           \* arguments of avera_alloc_array
  Inputs,            \* what standard input may hold
  MaxHandles,        \* bound on handles allocated
  MaxCalls           \* bound on calls

ASSUME LibraryAssumption ==
  /\ {LongMax, SizeMax, ElemSize, MaxHandles, MaxCalls} \subseteq Nat
  /\ ElemSize > 0
  /\ Lengths \subseteq Nat /\ Words \subseteq Int /\ Inputs \subseteq Seq(Nat)

VARIABLES
  objects,    \* the handles: header and AveraArray of each, never reused
  blocks,     \* the data blocks: allocated or not, and their words
  input, reply, stopped,  \* as in ArrayStore
  loop,       \* the library loop in progress
  calls       \* calls made

lvars == <<objects, blocks, input, reply, stopped, loop, calls>>

Null == 0
Idle == [at |-> "idle"]
Handles == {h \in 1..Len(objects) : objects[h].live}
Blocks == {b \in 1..Len(blocks) : blocks[b].live}
Zeros(n) == [i \in 1..n |-> 0]

LibInit ==
  /\ objects = <<>>
  /\ blocks = <<>>
  /\ input \in Inputs
  /\ reply = <<>>
  /\ stopped = FALSE
  /\ loop = Idle
  /\ calls = 0
------------------------------------------------------------------------------
\* The capacity for n words, as wide as a long; the checks that n * 2 + 8 does
\* not overflow and that the block it asks for fits a size_t.
Grown(n) == ((n * 2 + 8 + LongMax + 1) % (2 * (LongMax + 1))) - (LongMax + 1)
MutFitsLong(n) == n <= LongMax
FitsLong(n) == n <= (LongMax - 8) \div 2
FitsSize(cap) == cap >= 0 /\ cap <= SizeMax \div ElemSize
CanHold(n) == FitsLong(n) /\ FitsSize(Grown(n))

Handle(n, cap, data, live) ==
  [len |-> n, cap |-> cap, data |-> data, aux |-> data, live |-> live]
Block(words) == [words |-> words, live |-> TRUE]
Data(h) == blocks[objects[h].data].words
\* Every reader takes the null handle for an empty array.
Length(h) == IF h = Null THEN 0 ELSE objects[h].len

\* avera_alloc_array: the header through avera_alloc, then the words.
NewArray(n) ==
  /\ CanHold(n)
  /\ objects' = Append(objects, Handle(n, Grown(n), Len(blocks) + 1, TRUE))
  /\ blocks' = Append(blocks, Block(Zeros(Grown(n))))

\* A size too large is refused before anything is allocated; a header whose
\* words cannot be had is released.
MutKeepsHeader(n) ==
  /\ UNCHANGED blocks
  /\ IF CanHold(n)
     THEN objects' \in {objects, Append(objects, Handle(0, 0, Null, TRUE))}
     ELSE UNCHANGED objects
NoArray(n) ==
  /\ UNCHANGED blocks
  /\ IF CanHold(n)
     THEN objects' \in {objects, Append(objects, Handle(0, 0, Null, FALSE))}
     ELSE UNCHANGED objects

\* The memory after realloc to cap * 2 + 8: the words move (a realloc in place
\* looks the same to a program), zeros follow them, and the header's aux goes
\* with them.
Memory == [objects |-> objects, blocks |-> blocks]
Becomes(m) == objects' = m.objects /\ blocks' = m.blocks
MutKeepsAux(m, h) ==
  LET new == Len(m.blocks) + 1
      o == m.objects[h]
      old == m.blocks[o.data].words
  IN  [objects |-> [m.objects EXCEPT ![h] = [o EXCEPT !.cap = Grown(o.cap), !.data = new]],
       blocks |-> Append([m.blocks EXCEPT ![o.data].live = FALSE],
                         Block(old \o Zeros(Grown(o.cap) - o.cap)))]
Grow(m, h) ==
  LET new == Len(m.blocks) + 1
      o == m.objects[h]
      old == m.blocks[o.data].words
  IN  [objects |-> [m.objects EXCEPT ![h] = Handle(o.len, Grown(o.cap), new, TRUE)],
       blocks |-> Append([m.blocks EXCEPT ![o.data].live = FALSE],
                         Block(old \o Zeros(Grown(o.cap) - o.cap)))]

\* The memory after the word at index i is written.
Write(m, h, i, v) ==
  [m EXCEPT !.blocks[m.objects[h].data].words[i + 1] = v]

\* avera_array_push that stores: the word goes to index len, then len moves.
Stored(m, h, v) == [Write(m, h, m.objects[h].len, v) EXCEPT !.objects[h].len = @ + 1]

Full(h) == objects[h].len >= objects[h].cap

\* avera_array_push: into room, after growth, or refused.
Pushes(h, v) ==
  \/ ~Full(h) /\ Becomes(Stored(Memory, h, v))
  \/ Full(h) /\ CanHold(objects[h].cap) /\ Becomes(Stored(Grow(Memory, h), h, v))
RefusesPush(h) == Full(h) /\ UNCHANGED <<objects, blocks>>
------------------------------------------------------------------------------
Calling == loop = Idle /\ ~stopped /\ calls < MaxCalls /\ calls' = calls + 1
Room == Len(objects) < MaxHandles
SameMemory == UNCHANGED <<objects, blocks>>
SameInput == UNCHANGED input
SameLoop == UNCHANGED loop
Reply(call, result) == reply' = Append(call, result) /\ UNCHANGED stopped

AllocArray(n) ==
  /\ Calling /\ Room /\ SameInput /\ SameLoop
  /\ \/ NewArray(n) /\ Reply(<<"new", n>>, Len(objects) + 1)
     \/ NoArray(n) /\ Reply(<<"new", n>>, Null)

\* avera_alloc for a shape or a choice: a block without words of its own.
AllocRecord ==
  /\ Calling /\ Room /\ SameInput /\ SameLoop
  /\ UNCHANGED blocks
  /\ \/ /\ objects' = Append(objects, Handle(0, 0, Null, TRUE))
        /\ Reply(<<"record">>, Len(objects) + 1)
     \/ UNCHANGED objects /\ Reply(<<"record">>, Null)

\* The handles the array functions are called on, and their index check.
Arrays == {Null} \cup {h \in Handles : objects[h].data # Null}
Inside(h, i) == i >= 0 /\ i < Length(h)
OutOfBounds(h, i) == h # Null /\ ~Inside(h, i) /\ stopped' = TRUE /\ UNCHANGED reply

Get(h, i) ==
  /\ Calling /\ SameMemory /\ SameInput /\ SameLoop
  /\ \/ h = Null /\ Reply(<<"get", h, i>>, 0)
     \/ h # Null /\ Inside(h, i) /\ Reply(<<"get", h, i>>, Data(h)[i + 1])
     \/ OutOfBounds(h, i)

\* The setter returns the handle it was given.
SetWord(h, i, v) ==
  /\ Calling /\ SameInput /\ SameLoop
  /\ \/ /\ h # Null /\ Inside(h, i)
        /\ Becomes(Write(Memory, h, i, v))
        /\ Reply(<<"set", h, i, v>>, h)
     \/ h = Null /\ SameMemory /\ Reply(<<"set", h, i, v>>, 0)
     \/ OutOfBounds(h, i) /\ SameMemory

LengthOf(h) ==
  /\ Calling /\ SameMemory /\ SameInput /\ SameLoop
  /\ Reply(<<"len", h>>, Length(h))

Capacity(h) ==
  /\ Calling /\ SameMemory /\ SameInput /\ SameLoop
  /\ Reply(<<"cap", h>>, IF h = Null THEN 0 ELSE objects[h].cap)

Push(h, v) ==
  /\ Calling /\ SameInput /\ SameLoop
  /\ \/ h # Null /\ Pushes(h, v) /\ Reply(<<"push", h, v>>, objects[h].len + 1)
     \/ h # Null /\ RefusesPush(h) /\ Reply(<<"push", h, v>>, objects[h].len)
     \/ h = Null /\ SameMemory /\ Reply(<<"push", h, v>>, 0)

MutPopped(m, h) == [m EXCEPT !.objects[h].len = @ - 1]
\* The slot is cleared before the length moves.
Popped(m, h) ==
  [Write(m, h, m.objects[h].len - 1, 0) EXCEPT !.objects[h].len = @ - 1]

\* An empty array gives zero.
Pop(h) ==
  /\ Calling /\ SameInput /\ SameLoop
  /\ IF Length(h) = 0
     THEN Reply(<<"pop", h>>, 0) /\ UNCHANGED <<objects, blocks>>
     ELSE /\ Becomes(Popped(Memory, h))
          /\ Reply(<<"pop", h>>, Data(h)[objects[h].len])

\* avera_free: what aux names goes before the header.
Release(h) ==
  /\ objects' = [objects EXCEPT ![h].live = FALSE, ![h].aux = Null]
  /\ blocks' = [b \in 1..Len(blocks) |->
                  IF b = objects[h].aux THEN [blocks[b] EXCEPT !.live = FALSE]
                  ELSE blocks[b]]

Free(h) ==
  /\ Calling /\ SameInput /\ SameLoop
  /\ Release(h)
  /\ Reply(<<"free", h>>, 0)

Text(h) == IF h = Null THEN <<>> ELSE SubSeq(Data(h), 1, objects[h].len)

TextEqual(a, b) ==
  /\ Calling /\ SameMemory /\ SameInput /\ SameLoop
  /\ Reply(<<"eq", a, b>>, IF Text(a) = Text(b) THEN 1 ELSE 0)

PrintText(h) ==
  /\ Calling /\ SameMemory /\ SameInput /\ SameLoop
  /\ Reply(<<"print", h>>, Text(h))
------------------------------------------------------------------------------
\* avera_text_concat: the result, then its words one at a time.
Total(a, b) == Length(a) + Length(b)
Concat(a, b) ==
  /\ Calling /\ Room /\ SameInput
  /\ \/ /\ Total(a, b) <= LongMax
        /\ NewArray(Total(a, b))
        /\ loop' = [at |-> "concat", left |-> a, right |-> b,
                    out |-> Len(objects) + 1, i |-> 0]
        /\ UNCHANGED <<reply, stopped>>
     \/ /\ IF Total(a, b) <= LongMax THEN NoArray(Total(a, b)) ELSE SameMemory
        /\ SameLoop
        /\ Reply(<<"concat", a, b>>, Null)

MutCopyStep ==
  LET n == Length(loop.left)
      v == IF loop.i < n THEN Data(loop.left)[loop.i + 1]
           ELSE Data(loop.right)[loop.i + 1]
  IN  Becomes(Write(Memory, loop.out, loop.i, v))
CopyStep ==
  LET n == Length(loop.left)
      v == IF loop.i < n THEN Data(loop.left)[loop.i + 1]
           ELSE Data(loop.right)[loop.i - n + 1]
  IN  Becomes(Write(Memory, loop.out, loop.i, v))

ConcatWord ==
  /\ loop.at = "concat" /\ loop.i < Total(loop.left, loop.right)
  /\ CopyStep
  /\ loop' = [loop EXCEPT !.i = @ + 1]
  /\ SameInput /\ UNCHANGED <<reply, stopped, calls>>

\* avera_text_read_line: pushes until the line ends or a push is refused.
ReadLine ==
  /\ Calling /\ Room /\ SameInput
  /\ \/ /\ NewArray(0)
        /\ loop' = [at |-> "read", out |-> Len(objects) + 1]
        /\ UNCHANGED <<reply, stopped>>
     \/ NoArray(0) /\ SameLoop /\ Reply(<<"line">>, Null)

EndOfLine == ~(input # <<>> /\ Head(input) # Newline)

ReadByte ==
  /\ loop.at = "read" /\ ~EndOfLine
  /\ Pushes(loop.out, Head(input))
  /\ input' = Tail(input)
  /\ UNCHANGED <<reply, stopped, loop, calls>>

\* The newline, and the byte no room was found for, are consumed.
LoopEnds ==
  /\ \/ /\ loop.at = "concat" /\ loop.i = Total(loop.left, loop.right)
        /\ SameMemory /\ UNCHANGED input
     \/ /\ loop.at = "read" /\ EndOfLine
        /\ input' = IF input = <<>> THEN <<>> ELSE Tail(input)
        /\ SameMemory
     \/ /\ loop.at = "read" /\ ~EndOfLine
        /\ RefusesPush(loop.out)
        /\ input' = Tail(input)
  /\ loop' = Idle /\ UNCHANGED calls
  /\ Reply(IF loop.at = "read" THEN <<"line">>
           ELSE <<"concat", loop.left, loop.right>>, loop.out)

\* Before the array, its first word, and just behind it.
Around(h) == {-1, 0, Length(h)}

LibNext ==
  \/ \E n \in Lengths : AllocArray(n)
  \/ AllocRecord \/ ReadLine \/ ConcatWord \/ ReadByte \/ LoopEnds
  \/ \E h \in Arrays :
       \/ LengthOf(h) \/ Capacity(h) \/ Pop(h) \/ PrintText(h)
       \/ \E v \in Words : Push(h, v)
       \/ \E i \in Around(h) : Get(h, i)
       \/ \E i \in Around(h), v \in Words : SetWord(h, i, v)
       \/ \E g \in Arrays : Concat(h, g) \/ TextEqual(h, g)
  \/ \E h \in Handles : Free(h)

LibSpec == LibInit /\ [][LibNext]_lvars
------------------------------------------------------------------------------
\* What the program sees: the text a loop is filling is not a handle yet, and
\* the bytes it took are still to be read.
Held == Handles \ (IF loop = Idle THEN {} ELSE {loop.out})

Store == INSTANCE ArrayStore WITH
  arrays <- [h \in Held |-> IF objects[h].data = Null THEN <<>> ELSE Text(h)],
  input <- IF loop.at = "read" THEN Text(loop.out) \o input ELSE input,
  Limit <- SizeMax \div ElemSize

\* The library keeps ArrayStore's promise: whatever the calls, the growth
\* and the refusals, an array holds exactly the words put in it, a
\* concatenation and a line read are made of the words they should be, and
\* no call on one handle changes what another holds.
IsArrayStore == Store!StoreSpec

\* Memory: the words an array uses are the ones its header will release, no
\* two arrays share a block, every block in use has an array, and indices
\* and sizes stay inside the block and inside their integers.
LibTypeOK ==
  /\ stopped \in BOOLEAN
  /\ \A h \in Handles :
       LET o == objects[h]
       IN  /\ o.aux = o.data
           /\ o.data # Null =>
                /\ o.data \in Blocks
                /\ o.len <= o.cap /\ o.cap <= LongMax
                /\ Len(Data(h)) = o.cap /\ o.cap * ElemSize <= SizeMax

\* Nothing leaks and nothing is released twice: whatever fails half way, each
\* block in use belongs to exactly one live handle.
OneOwnerPerBlock ==
  \A b \in Blocks : Cardinality({h \in Handles : objects[h].aux = b}) = 1

\* The words an array does not use yet are zero, as calloc, the growth and
\* pop leave them.
SpareWordsZero ==
  \A h \in Handles : objects[h].data # Null =>
    \A i \in objects[h].len + 1 .. objects[h].cap : Data(h)[i] = 0

==============================================================================
