------------------------------ MODULE MCRuntime ------------------------------
(***************************************************************************)
(* The two lives of the C runtime: built by processes that share a build   *)
(* directory, started over every pair of source and object that an earlier *)
(* or a killed compiler leaves; and linked into a program that calls it.   *)
(***************************************************************************)
EXTENDS RuntimeObject, RuntimeLibrary, TLC

VARIABLE part  \* "build" or "program"

Left(src, obj) == [source |-> src, object |-> obj]
LeftBehind ==
  { Left(Absent, Absent) }                  \* a fresh directory
  \cup { Left(File("old", 0), Absent) }     \* killed before its cc was through
  \cup { Left(File("new", 1), File("new", 1)) }
  \cup { Left(File(text, s), File("old", o)) :  \* an earlier compiler's, and
           text \in {"old", "empty", "new"},    \* after that one that was
           <<s, o>> \in {<<0, 0>>, <<1, 0>>, <<1, 1>>} } \* killed in its write

Symmetry == Permutations(Builders)

\* A line that makes a text grow once, then another; a line longer than the
\* largest text.
Letters(n) == [i \in 1..n |-> 1 + (i % 2)]
StandardInputs == {<<>>, Letters(9) \o <<10, 2>>, Letters(26)}

Init ==
  /\ RtInit /\ LibInit
  /\ \/ part = "build" /\ input = <<>>
     \/ part = "program" /\ object = Absent /\ source = Absent

Next ==
  \/ part = "build" /\ RtNext /\ UNCHANGED <<part, lvars>>
  \/ part = "program" /\ LibNext /\ UNCHANGED <<part, vars>>

Spec == Init /\ [][Next]_<<part, vars, lvars>>
==============================================================================
