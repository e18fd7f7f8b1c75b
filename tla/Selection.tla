------------------------------ MODULE Selection ------------------------------
(* Sequences as the loader and the lowerer go through them.                *)
EXTENDS Naturals, Sequences

Seqs == INSTANCE SequencesExt

(* The elements of s that are in S, in the order of s.                     *)
Only(s, S) ==
  LET only[n \in 0 .. Len(s)] ==
        IF n = 0 THEN <<>>
        ELSE IF s[n] \in S THEN Append(only[n - 1], s[n]) ELSE only[n - 1]
  IN  only[Len(s)]
=============================================================================
