----------------------------- MODULE FactProofs -----------------------------
(***************************************************************************)
(* Proofs about the borrow checker and the magnet checker, one after the   *)
(* other on the same body, for every set of locals and every body.         *)
(*                                                                         *)
(* The invariant of their loop says three things of it.  Blocks that       *)
(* nobody has to visit again were gone through with all that is known at   *)
(* their start (Settled, Working): so the fixpoint holds all that the      *)
(* paths bring.  Every fact is accounted for by some way through the body  *)
(* (Backing): so it holds nothing else.  And what the silence of the first *)
(* checker was worth is kept while the second runs (BorrowsKept).          *)
(***************************************************************************)
EXTENDS Checks, SequenceFacts

-----------------------------------------------------------------------------
(* Runs as points that they come to.                                       *)

(* Points of a run, with a subset of C it carries.                         *)
Positions(C) == Blocks \X (Nat \ {0}) \X SUBSET C

Closed(S, Step(_, _)) == \A p \in S : Moves(body, Step, p) \subseteq S

(* Where every run starts, with nothing known.                             *)
Start == <<Entry, 1, {}>>

(* The parts of a position.                                                *)
LEMMA PositionParts ==
  ASSUME NEW C, NEW p \in Positions(C)
  PROVE  /\ p[1] \in Blocks /\ p[2] \in Nat \ {0} /\ p[3] \in SUBSET C
         /\ p = <<p[1], p[2], p[3]>>
BY DEF Positions

(* What the code and the edges of a body are made of.                      *)
LEMMA BodyParts ==
  ASSUME body \in Body, NEW b \in Blocks
  PROVE  /\ body.stmts[b] \in Seq(Stmt) /\ Len(body.stmts[b]) \in Nat
         /\ DOMAIN body.stmts[b] = 1 .. Len(body.stmts[b])
         /\ \A n \in 1 .. Len(body.stmts[b]) : body.stmts[b][n] \in Stmt
         /\ Successors(body.term[b]) \in Seq(Nat)
<1>1. body.stmts[b] \in Seq(Stmt) /\ body.term[b] \in Terminator
  BY DEF Body
<1>2. \A t \in Terminator : Successors(t) \in Seq(Nat)
  BY DEF Terminator, Successors
<1> QED BY <1>1, <1>2

(* Runs that carry the borrows the checker knows of.                       *)
LEMMA OriginPaths ==
  ASSUME body \in Body, PathBound \in Nat, NEW C,
         \A s \in Stmt, c \in SUBSET C : Borrow!BorrowTransfer(s, c) \in SUBSET C
  PROVE  LET R == PathPositions(body, Borrow!BorrowTransfer, {}, PathBound)
         IN  /\ Start \in R /\ R \subseteq Positions(C)
             /\ \A S \in SUBSET Positions(C) :
                  Start \in S /\ Closed(S, Borrow!BorrowTransfer) => R \subseteq S
<1> DEFINE P == Positions(C)
           Go(p) == Moves(body, Borrow!BorrowTransfer, p)
           G == [p \in P |-> Go(p)]
           On(x) == x \cup UNION {Go(p) : p \in x}
           At(f, n) == IF n = 0 THEN {Start} ELSE On(f[n - 1])
           E(f) == f = [n \in 0 .. PathBound |-> At(f, n)]
           R == PathPositions(body, Borrow!BorrowTransfer, {}, PathBound)
           reach == CHOOSE f : E(f)
<1>1. \A p \in P : Go(p) \in SUBSET P
  <2> TAKE p \in P
  <2>1. p[1] \in Blocks /\ p[2] \in Nat \ {0} /\ p[3] \in SUBSET C
    BY PositionParts
  <2>2. CASE p[2] <= Len(body.stmts[p[1]])
    <3>1. body.stmts[p[1]][p[2]] \in Stmt
      BY <2>1, <2>2, BodyParts
    <3> QED BY <2>1, <2>2, <3>1 DEF Moves, Positions
  <2>3. CASE ~(p[2] <= Len(body.stmts[p[1]]))
    BY <2>1, <2>3 DEF Moves, Positions
  <2> QED BY <2>2, <2>3
<1>2. {Start} \in SUBSET P
  BY NBlocksAssumption DEF Start, Positions, Entry, Blocks
<1>3. R = reach[PathBound]
  BY DEF PathPositions, Start
<1> HIDE DEF P, Go
<1>4. G \in [P -> SUBSET P] /\ \A p \in P : G[p] = Go(p)
  BY <1>1
<1> HIDE DEF G
<1>5. \A x \in SUBSET P : Further(G, x) = On(x)
  BY <1>4 DEF Further
<1> HIDE DEF On
<1>6. PICK f : Spreads(f, {Start}, G, PathBound) /\ \A n \in 0 .. PathBound : f[n] \subseteq P
  BY <1>2, <1>4, SpreadExists
<1>7. E(f)
  <2>1. \A n \in 0 .. PathBound : n # 0 => f[n - 1] \in SUBSET P
    BY <1>6
  <2> QED BY <1>5, <1>6, <2>1 DEF Spreads
<1>8. E(reach)
  BY <1>7
<1> HIDE DEF reach, R
<1>9. /\ reach[0] = {Start}
      /\ \A n \in Nat : n < PathBound /\ reach[n] \subseteq P =>
           reach[n + 1] = Further(G, reach[n])
  <2>1. \A n \in 0 .. PathBound : reach[n] = At(reach, n)
    BY <1>8
  <2>2. \A n \in Nat : n < PathBound => n + 1 \in 0 .. PathBound /\ (n + 1) # 0 /\ (n + 1) - 1 = n
    OBVIOUS
  <2> QED BY <1>5, <2>1, <2>2
<1>10. ASSUME NEW S \in SUBSET P, Start \in S, Closed(S, Borrow!BorrowTransfer)
       PROVE  {Start} \subseteq S /\ \A p \in S : G[p] \subseteq S
  BY <1>4, <1>10 DEF Closed, Go
<1> DEFINE A == {Start}
<1>11. A \in SUBSET P /\ GoesOn(reach, A, G, PathBound, P)
  BY <1>2, <1>9 DEF GoesOn
<1> HIDE DEF A
<1>12. Spread(R, A, G, P)
  BY <1>3, <1>4, <1>11, SpreadIs
<1> QED BY <1>10, <1>12 DEF P, R, A, Spread

(* Runs that carry what their locals refer to.                             *)
LEMMA RefPaths ==
  ASSUME body \in Body, PathBound \in Nat, NEW C,
         \A s \in Stmt, c \in SUBSET C : Borrow!RefsAfter(s, c) \in SUBSET C
  PROVE  LET R == PathPositions(body, Borrow!RefsAfter, {}, PathBound)
         IN  /\ Start \in R /\ R \subseteq Positions(C)
             /\ \A S \in SUBSET Positions(C) :
                  Start \in S /\ Closed(S, Borrow!RefsAfter) => R \subseteq S
<1> DEFINE P == Positions(C)
           Go(p) == Moves(body, Borrow!RefsAfter, p)
           G == [p \in P |-> Go(p)]
           On(x) == x \cup UNION {Go(p) : p \in x}
           At(f, n) == IF n = 0 THEN {Start} ELSE On(f[n - 1])
           E(f) == f = [n \in 0 .. PathBound |-> At(f, n)]
           R == PathPositions(body, Borrow!RefsAfter, {}, PathBound)
           reach == CHOOSE f : E(f)
<1>1. \A p \in P : Go(p) \in SUBSET P
  <2> TAKE p \in P
  <2>1. p[1] \in Blocks /\ p[2] \in Nat \ {0} /\ p[3] \in SUBSET C
    BY PositionParts
  <2>2. CASE p[2] <= Len(body.stmts[p[1]])
    <3>1. body.stmts[p[1]][p[2]] \in Stmt
      BY <2>1, <2>2, BodyParts
    <3> QED BY <2>1, <2>2, <3>1 DEF Moves, Positions
  <2>3. CASE ~(p[2] <= Len(body.stmts[p[1]]))
    BY <2>1, <2>3 DEF Moves, Positions
  <2> QED BY <2>2, <2>3
<1>2. {Start} \in SUBSET P
  BY NBlocksAssumption DEF Start, Positions, Entry, Blocks
<1>3. R = reach[PathBound]
  BY DEF PathPositions, Start
<1> HIDE DEF P, Go
<1>4. G \in [P -> SUBSET P] /\ \A p \in P : G[p] = Go(p)
  BY <1>1
<1> HIDE DEF G
<1>5. \A x \in SUBSET P : Further(G, x) = On(x)
  BY <1>4 DEF Further
<1> HIDE DEF On
<1>6. PICK f : Spreads(f, {Start}, G, PathBound) /\ \A n \in 0 .. PathBound : f[n] \subseteq P
  BY <1>2, <1>4, SpreadExists
<1>7. E(f)
  <2>1. \A n \in 0 .. PathBound : n # 0 => f[n - 1] \in SUBSET P
    BY <1>6
  <2> QED BY <1>5, <1>6, <2>1 DEF Spreads
<1>8. E(reach)
  BY <1>7
<1> HIDE DEF reach, R
<1>9. /\ reach[0] = {Start}
      /\ \A n \in Nat : n < PathBound /\ reach[n] \subseteq P =>
           reach[n + 1] = Further(G, reach[n])
  <2>1. \A n \in 0 .. PathBound : reach[n] = At(reach, n)
    BY <1>8
  <2>2. \A n \in Nat : n < PathBound => n + 1 \in 0 .. PathBound /\ (n + 1) # 0 /\ (n + 1) - 1 = n
    OBVIOUS
  <2> QED BY <1>5, <2>1, <2>2
<1>10. ASSUME NEW S \in SUBSET P, Start \in S, Closed(S, Borrow!RefsAfter)
       PROVE  {Start} \subseteq S /\ \A p \in S : G[p] \subseteq S
  BY <1>4, <1>10 DEF Closed, Go
<1> DEFINE A == {Start}
<1>11. A \in SUBSET P /\ GoesOn(reach, A, G, PathBound, P)
  BY <1>2, <1>9 DEF GoesOn
<1> HIDE DEF A
<1>12. Spread(R, A, G, P)
  BY <1>3, <1>4, <1>11, SpreadIs
<1> QED BY <1>10, <1>12 DEF P, R, A, Spread

(* Runs that carry the magnet facts of the checker.                        *)
LEMMA MagnetPaths ==
  ASSUME body \in Body, PathBound \in Nat, NEW C,
         \A s \in Stmt, c \in SUBSET C : Magnet!MagnetTransfer(s, c) \in SUBSET C
  PROVE  LET R == PathPositions(body, Magnet!MagnetTransfer, {}, PathBound)
         IN  /\ Start \in R /\ R \subseteq Positions(C)
             /\ \A S \in SUBSET Positions(C) :
                  Start \in S /\ Closed(S, Magnet!MagnetTransfer) => R \subseteq S
<1> DEFINE P == Positions(C)
           Go(p) == Moves(body, Magnet!MagnetTransfer, p)
           G == [p \in P |-> Go(p)]
           On(x) == x \cup UNION {Go(p) : p \in x}
           At(f, n) == IF n = 0 THEN {Start} ELSE On(f[n - 1])
           E(f) == f = [n \in 0 .. PathBound |-> At(f, n)]
           R == PathPositions(body, Magnet!MagnetTransfer, {}, PathBound)
           reach == CHOOSE f : E(f)
<1>1. \A p \in P : Go(p) \in SUBSET P
  <2> TAKE p \in P
  <2>1. p[1] \in Blocks /\ p[2] \in Nat \ {0} /\ p[3] \in SUBSET C
    BY PositionParts
  <2>2. CASE p[2] <= Len(body.stmts[p[1]])
    <3>1. body.stmts[p[1]][p[2]] \in Stmt
      BY <2>1, <2>2, BodyParts
    <3> QED BY <2>1, <2>2, <3>1 DEF Moves, Positions
  <2>3. CASE ~(p[2] <= Len(body.stmts[p[1]]))
    BY <2>1, <2>3 DEF Moves, Positions
  <2> QED BY <2>2, <2>3
<1>2. {Start} \in SUBSET P
  BY NBlocksAssumption DEF Start, Positions, Entry, Blocks
<1>3. R = reach[PathBound]
  BY DEF PathPositions, Start
<1> HIDE DEF P, Go
<1>4. G \in [P -> SUBSET P] /\ \A p \in P : G[p] = Go(p)
  BY <1>1
<1> HIDE DEF G
<1>5. \A x \in SUBSET P : Further(G, x) = On(x)
  BY <1>4 DEF Further
<1> HIDE DEF On
<1>6. PICK f : Spreads(f, {Start}, G, PathBound) /\ \A n \in 0 .. PathBound : f[n] \subseteq P
  BY <1>2, <1>4, SpreadExists
<1>7. E(f)
  <2>1. \A n \in 0 .. PathBound : n # 0 => f[n - 1] \in SUBSET P
    BY <1>6
  <2> QED BY <1>5, <1>6, <2>1 DEF Spreads
<1>8. E(reach)
  BY <1>7
<1> HIDE DEF reach, R
<1>9. /\ reach[0] = {Start}
      /\ \A n \in Nat : n < PathBound /\ reach[n] \subseteq P =>
           reach[n + 1] = Further(G, reach[n])
  <2>1. \A n \in 0 .. PathBound : reach[n] = At(reach, n)
    BY <1>8
  <2>2. \A n \in Nat : n < PathBound => n + 1 \in 0 .. PathBound /\ (n + 1) # 0 /\ (n + 1) - 1 = n
    OBVIOUS
  <2> QED BY <1>5, <2>1, <2>2
<1>10. ASSUME NEW S \in SUBSET P, Start \in S, Closed(S, Magnet!MagnetTransfer)
       PROVE  {Start} \subseteq S /\ \A p \in S : G[p] \subseteq S
  BY <1>4, <1>10 DEF Closed, Go
<1> DEFINE A == {Start}
<1>11. A \in SUBSET P /\ GoesOn(reach, A, G, PathBound, P)
  BY <1>2, <1>9 DEF GoesOn
<1> HIDE DEF A
<1>12. Spread(R, A, G, P)
  BY <1>3, <1>4, <1>11, SpreadIs
<1> QED BY <1>10, <1>12 DEF P, R, A, Spread

(* Runs that carry what their magnets hold.                                *)
LEMMA HandlePaths ==
  ASSUME body \in Body, PathBound \in Nat, NEW C,
         \A s \in Stmt, c \in SUBSET C : Magnet!HandlesAfter(s, c) \in SUBSET C
  PROVE  LET R == PathPositions(body, Magnet!HandlesAfter, {}, PathBound)
         IN  /\ Start \in R /\ R \subseteq Positions(C)
             /\ \A S \in SUBSET Positions(C) :
                  Start \in S /\ Closed(S, Magnet!HandlesAfter) => R \subseteq S
<1> DEFINE P == Positions(C)
           Go(p) == Moves(body, Magnet!HandlesAfter, p)
           G == [p \in P |-> Go(p)]
           On(x) == x \cup UNION {Go(p) : p \in x}
           At(f, n) == IF n = 0 THEN {Start} ELSE On(f[n - 1])
           E(f) == f = [n \in 0 .. PathBound |-> At(f, n)]
           R == PathPositions(body, Magnet!HandlesAfter, {}, PathBound)
           reach == CHOOSE f : E(f)
<1>1. \A p \in P : Go(p) \in SUBSET P
  <2> TAKE p \in P
  <2>1. p[1] \in Blocks /\ p[2] \in Nat \ {0} /\ p[3] \in SUBSET C
    BY PositionParts
  <2>2. CASE p[2] <= Len(body.stmts[p[1]])
    <3>1. body.stmts[p[1]][p[2]] \in Stmt
      BY <2>1, <2>2, BodyParts
    <3> QED BY <2>1, <2>2, <3>1 DEF Moves, Positions
  <2>3. CASE ~(p[2] <= Len(body.stmts[p[1]]))
    BY <2>1, <2>3 DEF Moves, Positions
  <2> QED BY <2>2, <2>3
<1>2. {Start} \in SUBSET P
  BY NBlocksAssumption DEF Start, Positions, Entry, Blocks
<1>3. R = reach[PathBound]
  BY DEF PathPositions, Start
<1> HIDE DEF P, Go
<1>4. G \in [P -> SUBSET P] /\ \A p \in P : G[p] = Go(p)
  BY <1>1
<1> HIDE DEF G
<1>5. \A x \in SUBSET P : Further(G, x) = On(x)
  BY <1>4 DEF Further
<1> HIDE DEF On
<1>6. PICK f : Spreads(f, {Start}, G, PathBound) /\ \A n \in 0 .. PathBound : f[n] \subseteq P
  BY <1>2, <1>4, SpreadExists
<1>7. E(f)
  <2>1. \A n \in 0 .. PathBound : n # 0 => f[n - 1] \in SUBSET P
    BY <1>6
  <2> QED BY <1>5, <1>6, <2>1 DEF Spreads
<1>8. E(reach)
  BY <1>7
<1> HIDE DEF reach, R
<1>9. /\ reach[0] = {Start}
      /\ \A n \in Nat : n < PathBound /\ reach[n] \subseteq P =>
           reach[n + 1] = Further(G, reach[n])
  <2>1. \A n \in 0 .. PathBound : reach[n] = At(reach, n)
    BY <1>8
  <2>2. \A n \in Nat : n < PathBound => n + 1 \in 0 .. PathBound /\ (n + 1) # 0 /\ (n + 1) - 1 = n
    OBVIOUS
  <2> QED BY <1>5, <2>1, <2>2
<1>10. ASSUME NEW S \in SUBSET P, Start \in S, Closed(S, Magnet!HandlesAfter)
       PROVE  {Start} \subseteq S /\ \A p \in S : G[p] \subseteq S
  BY <1>4, <1>10 DEF Closed, Go
<1> DEFINE A == {Start}
<1>11. A \in SUBSET P /\ GoesOn(reach, A, G, PathBound, P)
  BY <1>2, <1>9 DEF GoesOn
<1> HIDE DEF A
<1>12. Spread(R, A, G, P)
  BY <1>3, <1>4, <1>11, SpreadIs
<1> QED BY <1>10, <1>12 DEF P, R, A, Spread

-----------------------------------------------------------------------------
(* What the borrow checker learns.                                         *)

(* The instances read the MIR as this module does.                         *)
LEMMA SameMir ==
  /\ Borrow!Blocks = Blocks /\ Magnet!Blocks = Blocks
  /\ Borrow!Entry = Entry /\ Magnet!Entry = Entry
  /\ \A t : Borrow!Successors(t) = Successors(t) /\ Magnet!Successors(t) = Successors(t)
  /\ \A s : (Borrow!IsMove(s) <=> IsMove(s)) /\ (Magnet!IsMove(s) <=> IsMove(s))
BY DEF Borrow!Blocks, Magnet!Blocks, Blocks, Borrow!Entry, Magnet!Entry, Entry,
       Borrow!Successors, Magnet!Successors, Successors, Borrow!IsMove, Magnet!IsMove, IsMove

(* The operands that are looked at.                                        *)
LEMMA Operands ==
  ASSUME NEW s \in Stmt
  PROVE  /\ s.dest \in Locals
         /\ s.op \in {"assign", "call", "assert", "live", "dead", "drop"}
         /\ s.op = "assign" /\ s.how \in {"use", "move", "borrow", "borrow_mut", "attach",
                                          "attach_mut", "magnet_query", "store"}
            => s.args[1] \in Locals
<1>1. s.args \in Seq(Locals) /\ (s.how \in {"use", "move", "borrow", "borrow_mut", "attach", "attach_mut",
                   "magnet_query"} => Len(s.args) = 1) /\ (s.how = "store" => Len(s.args) = 2)
  BY DEF Stmt
<1>2. s.dest \in Locals /\ s.op \in {"assign", "call", "assert", "live", "dead", "drop"}
  BY DEF Stmt
<1>3. Len(s.args) \in {1, 2} => s.args[1] \in Locals
  BY <1>1
<1> QED BY <1>1, <1>2, <1>3

(* The facts of the borrow checker,                                        *)
Origins == Borrow!BorrowFacts

(* which a statement leaves among themselves,                              *)
LEMMA OriginsTyped ==
  ASSUME NEW s \in Stmt, NEW F \in SUBSET Origins
  PROVE  Borrow!BorrowTransfer(s, F) \in SUBSET Origins
<1> DEFINE new == [holder |-> s.dest, owner |-> s.args[1], is_mut |-> s.how = "borrow_mut"]
<1>1. Borrow!Surviving(F, s) \subseteq F
  BY DEF Borrow!Surviving, Borrow!Without
<1>2. s.op = "assign" /\ s.how \in {"borrow", "borrow_mut"} => new \in Origins
  BY Operands DEF Origins, Borrow!BorrowFacts
<1>3. Borrow!BorrowTransfer(s, F) = Borrow!Surviving(F, s) \cup
        (IF s.op = "assign" /\ s.how \in {"borrow", "borrow_mut"} THEN {new} ELSE {})
  BY DEF Borrow!BorrowTransfer
<1> HIDE DEF new
<1> QED BY <1>1, <1>2, <1>3

(* and so does what a run makes of its references.                         *)
LEMMA RefsTyped ==
  ASSUME NEW s \in Stmt, NEW F \in SUBSET Origins
  PROVE  Borrow!RefsAfter(s, F) \in SUBSET Origins
<1> DEFINE kept == {r \in F : r.holder # s.dest}
           new == [holder |-> s.dest, owner |-> s.args[1], is_mut |-> s.how = "borrow_mut"]
           copies == {[r EXCEPT !.holder = s.dest] : r \in {q \in F : q.holder = s.args[1]}}
<1>1. kept \subseteq Origins
  OBVIOUS
<1>2. s.op = "assign" /\ s.how \in {"borrow", "borrow_mut"} => new \in Origins
  BY Operands DEF Origins, Borrow!BorrowFacts
<1>3. copies \subseteq Origins
  <2>1. \A r \in F : [r EXCEPT !.holder = s.dest] \in Origins
    BY Operands DEF Origins, Borrow!BorrowFacts
  <2> QED BY <2>1
<1>4. Borrow!RefsAfter(s, F) =
       CASE s.op = "assign" /\ s.how \in {"borrow", "borrow_mut"} -> kept \cup {new}
         [] s.op = "assign" /\ s.how \in {"use", "move"} -> kept \cup copies
         [] s.op \in {"assert", "drop"} -> F
         [] OTHER -> kept
  BY DEF Borrow!RefsAfter
<1> HIDE DEF kept, new, copies
<1> QED BY <1>1, <1>2, <1>3, <1>4

(* Holders of borrows the body makes.                                      *)
Holders ==
  {l \in Locals : \E b \in Blocks : \E n \in DOMAIN body.stmts[b] :
     LET s == body.stmts[b][n] IN s.op = "assign" /\ s.how \in {"borrow", "borrow_mut"} /\ s.dest = l}

(* References of such holders only.                                        *)
InHolders(F) == \A f \in F : f.holder \in Holders

(* A body whose holders stay put copies none of them.                      *)
LEMMA NotCopied ==
  ASSUME body \in Body, Borrow!HoldersStayPut, NEW b \in Blocks, NEW n \in DOMAIN body.stmts[b],
         body.stmts[b][n].op = "assign", body.stmts[b][n].how \in {"use", "move"}
  PROVE  body.stmts[b][n].args[1] \notin Holders
<1> DEFINE code == UNION {{body.stmts[c][k] : k \in DOMAIN body.stmts[c]} : c \in Blocks}
           holders == {s.dest : s \in {t \in code : t.op = "assign" /\ t.how \in {"borrow", "borrow_mut"}}}
<1>1. body.stmts[b][n] \in code
  OBVIOUS
<1>2. \A c \in Blocks : \A k \in DOMAIN body.stmts[c] : body.stmts[c][k] \in code
  OBVIOUS
<1>3. \A s \in code : s.op = "assign" /\ s.how \in {"use", "move"} => s.args[1] \notin holders
  BY SameMir DEF Borrow!HoldersStayPut
<1> HIDE DEF code
<1>4. \A l \in Holders : l \in holders
  BY <1>2 DEF Holders
<1> QED BY <1>1, <1>3, <1>4

(* While no holder is copied a run's references are what the checker makes *)
(* of them.                                                                *)
LEMMA RefsAreOrigins ==
  ASSUME body \in Body, Borrow!HoldersStayPut, NEW b \in Blocks, NEW n \in DOMAIN body.stmts[b],
         NEW F \in SUBSET Origins, InHolders(F)
  PROVE  /\ Borrow!RefsAfter(body.stmts[b][n], F) = Borrow!BorrowTransfer(body.stmts[b][n], F)
         /\ InHolders(Borrow!RefsAfter(body.stmts[b][n], F))
<1> DEFINE s == body.stmts[b][n]
           kept == {r \in F : r.holder # s.dest}
           new == [holder |-> s.dest, owner |-> s.args[1], is_mut |-> s.how = "borrow_mut"]
           copies == {[r EXCEPT !.holder = s.dest] : r \in {q \in F : q.holder = s.args[1]}}
<1>1. s \in Stmt
  BY BodyParts
<1>2. /\ s.op \in {"assign", "call", "assert", "live", "dead", "drop"}
      /\ s.dest \in Locals
  BY <1>1, Operands
<1>3. s.op = "assign" /\ s.how \in {"use", "move"} => copies = {}
  <2> SUFFICES ASSUME s.op = "assign" /\ s.how \in {"use", "move"} PROVE copies = {}
    OBVIOUS
  <2>1. s.args[1] \notin Holders
    BY NotCopied
  <2> QED BY <2>1 DEF InHolders
<1>4. s.op = "assign" /\ s.how \in {"borrow", "borrow_mut"} => new.holder \in Holders
  BY <1>2 DEF Holders
<1>5. Borrow!RefsAfter(s, F) =
       CASE s.op = "assign" /\ s.how \in {"borrow", "borrow_mut"} -> kept \cup {new}
         [] s.op = "assign" /\ s.how \in {"use", "move"} -> kept \cup copies
         [] s.op \in {"assert", "drop"} -> F
         [] OTHER -> kept
  BY DEF Borrow!RefsAfter
<1>6. Borrow!BorrowTransfer(s, F) =
        (IF s.op \in {"assign", "call", "live", "dead"} THEN kept ELSE F) \cup
        (IF s.op = "assign" /\ s.how \in {"borrow", "borrow_mut"} THEN {new} ELSE {})
  BY DEF Borrow!BorrowTransfer, Borrow!Surviving, Borrow!Without
<1>7. InHolders(kept)
  BY DEF InHolders
<1> HIDE DEF kept, new, copies, s
<1>8. Borrow!RefsAfter(s, F) = Borrow!BorrowTransfer(s, F)
  BY <1>2, <1>3, <1>5, <1>6
<1>9. InHolders(Borrow!BorrowTransfer(s, F))
  BY <1>4, <1>6, <1>7 DEF InHolders
<1> QED BY <1>8, <1>9 DEF s

(* A statement is reported exactly when it breaks a reference known.       *)
LEMMA ReportedIsBroken ==
  ASSUME NEW s \in Stmt, NEW F \in SUBSET Origins
  PROVE  Borrow!BorrowReports(s, F) # {} <=> Borrow!Breaks(s, F)
<1> DEFINE G == Borrow!Surviving(F, s)
           others == {r \in F : r.holder # s.dest \/ s.op \in {"dead", "drop"}}
           EIm == s.op \in {"assign", "call"} /\ Borrow!HasAny(G, s.dest)
           EMu == /\ s.op = "assign" /\ s.how \in Borrow!Exclusive \cup {"borrow", "attach"}
                  /\ Borrow!Conflicts(G, s.how, s.args[1])
           EMo == \/ s.op \in {"dead", "drop"} /\ Borrow!HasAny(F, s.dest)
                  \/ IsMove(s) /\ Borrow!HasAny(G, s.args[1])
<1>1. Borrow!BorrowReports(s, F) # {} <=> EIm \/ EMu \/ EMo
  <2> DEFINE Q(k) == CASE k = "EImmutableMutate" -> EIm
                       [] k = "EMutableAlias" -> EMu
                       [] k = "EMoveWhileBorrowed" -> EMo
  <2>1. Borrow!BorrowReports(s, F) = {k \in {"EImmutableMutate", "EMutableAlias", "EMoveWhileBorrowed"} : Q(k)}
    BY SameMir DEF Borrow!BorrowReports
  <2>2. (Q("EImmutableMutate") <=> EIm) /\ (Q("EMutableAlias") <=> EMu) /\ (Q("EMoveWhileBorrowed") <=> EMo)
    OBVIOUS
  <2> HIDE DEF Q, EIm, EMu, EMo
  <2> QED BY <2>1, <2>2
<1>2. Borrow!Breaks(s, F) <=>
        \/ s.op # "assert" /\ s.op # "live" /\ \E r \in others : r.owner = s.dest
        \/ IsMove(s) /\ \E r \in others : r.owner = s.args[1]
        \/ s.op = "assign" /\ s.how \in Borrow!Exclusive /\ \E r \in others : r.owner = s.args[1]
        \/ /\ s.op = "assign" /\ s.how \in {"borrow", "attach"}
           /\ \E r \in others : r.owner = s.args[1] /\ r.is_mut
  BY SameMir DEF Borrow!Breaks
<1>3. s.op \in {"assign", "call"} => G = others
  BY DEF Borrow!Surviving, Borrow!Without
<1>4. s.op \in {"dead", "drop"} => others = F
  OBVIOUS
<1>5. s.op \in {"assign", "call", "assert", "live", "dead", "drop"} /\ (IsMove(s) => s.op = "assign")
  BY Operands DEF IsMove
<1> HIDE DEF G, others
<1> QED BY <1>1, <1>2, <1>3, <1>4, <1>5 DEF Borrow!HasAny, Borrow!HasMut, Borrow!Conflicts, Borrow!Exclusive

(* One reference is enough, and more do not hide it.                       *)
LEMMA BreaksByOne ==
  ASSUME NEW s \in Stmt, NEW F \in SUBSET Origins, Borrow!Breaks(s, F)
  PROVE  \E f \in F : \A G \in SUBSET Origins : f \in G => Borrow!Breaks(s, G)
<1> DEFINE Hit(r) ==
        /\ r.holder # s.dest \/ s.op \in {"dead", "drop"}
        /\ \/ s.op # "assert" /\ s.op # "live" /\ r.owner = s.dest
           \/ IsMove(s) /\ r.owner = s.args[1]
           \/ s.op = "assign" /\ s.how \in Borrow!Exclusive /\ r.owner = s.args[1]
           \/ s.op = "assign" /\ s.how \in {"borrow", "attach"} /\ r.owner = s.args[1] /\ r.is_mut
<1>1. \A G : Borrow!Breaks(s, G) <=> \E r \in G : Hit(r)
  BY SameMir DEF Borrow!Breaks
<1> QED BY <1>1

(* What is known after a statement was made by it, or comes of one fact.   *)
LEMMA OriginByOne ==
  ASSUME NEW s \in Stmt, NEW F \in SUBSET Origins, NEW f \in Borrow!BorrowTransfer(s, F)
  PROVE  \/ \A G \in SUBSET Origins : f \in Borrow!BorrowTransfer(s, G)
         \/ \E g \in F : \A G \in SUBSET Origins : g \in G => f \in Borrow!BorrowTransfer(s, G)
<1>1. CASE f \in Borrow!Surviving(F, s)
  BY <1>1 DEF Borrow!BorrowTransfer, Borrow!Surviving, Borrow!Without
<1>2. CASE f \notin Borrow!Surviving(F, s)
  <2>1. \A G \in SUBSET Origins : f \in Borrow!BorrowTransfer(s, G)
    BY <1>2 DEF Borrow!BorrowTransfer
  <2> QED BY <2>1
<1> QED BY <1>1, <1>2

-----------------------------------------------------------------------------
(* What the magnet checker learns.                                         *)

(* The facts of the magnet checker.                                        *)
MagnetFacts == Magnet!MagnetFacts

(* What the reference marks a handle with that has no one target,          *)
Markers == {"none", "raw", "dropped"}

(* none of which is a local,                                               *)
MarkersApart == Locals \cap Markers = {}

(* and what a run knows of its magnets.                                    *)
Handles == [magnet : Locals, target : Locals \cup Markers, is_mut : BOOLEAN]

(* Invalidating facts leaves them facts.                                   *)
LEMMA InvalidateTyped ==
  ASSUME NEW F \in SUBSET MagnetFacts, NEW t, NEW st \in Magnet!MagnetState
  PROVE  Magnet!Invalidate(F, t, st) \in SUBSET MagnetFacts
<1>1. \A f \in F : [f EXCEPT !.state = st] \in MagnetFacts
  BY DEF MagnetFacts, Magnet!MagnetFacts
<1> QED BY <1>1 DEF Magnet!Invalidate

(* A fact that an attachment makes is one.                                 *)
LEMMA BoundTyped ==
  ASSUME NEW s \in Stmt, s.op = "assign", s.how \in Magnet!Binds
  PROVE  Magnet!Bound(s) \in MagnetFacts
<1>1. s.how \in {"attach", "attach_mut"} => s.args[1] \in Locals
  BY Operands
<1>2. s.dest \in Locals
  BY Operands
<1> QED BY <1>1, <1>2 DEF Magnet!Bound, Magnet!Binds, Magnet!Fact, MagnetFacts, Magnet!MagnetFacts, Magnet!MagnetState

(* The statements that only overwrite their destination.                   *)
Otherwise(s) ==
  \/ s.op \in {"call", "live"}
  \/ s.op = "assign" /\ s.how \notin Magnet!Binds \cup {"move"} /\ ~Magnet!WritesThrough(s)

(* The cases of the transfer.                                              *)
LEMMA MagnetCases ==
  ASSUME NEW s \in Stmt, NEW F
  PROVE  /\ s.op = "assign" /\ s.how \in Magnet!Binds =>
              Magnet!MagnetTransfer(s, F) = (F \ Magnet!Of(F, s.dest)) \cup {Magnet!Bound(s)}
         /\ IsMove(s) => Magnet!MagnetTransfer(s, F) = 
              Magnet!Invalidate(F, s.args[1], "Moved") \ Magnet!Of(Magnet!Invalidate(F, s.args[1], "Moved"), s.dest)
         /\ Magnet!WritesThrough(s) \/ s.op = "assert" => Magnet!MagnetTransfer(s, F) = F
         /\ s.op = "dead" => Magnet!MagnetTransfer(s, F) = 
              Magnet!Invalidate(F, s.dest, "Dropped") \ Magnet!Of(Magnet!Invalidate(F, s.dest, "Dropped"), s.dest)
         /\ s.op = "drop" => Magnet!MagnetTransfer(s, F) =
              {IF f.holder = s.dest THEN [f EXCEPT !.state = "Dropped"] ELSE f :
                 f \in Magnet!Invalidate(F, s.dest, "Dropped")}
         /\ Otherwise(s) =>
              Magnet!MagnetTransfer(s, F) = F \ Magnet!Of(F, s.dest)
<1>1. /\ Magnet!WritesThrough(s) => s.op = "assign" /\ s.how = "store"
      /\ (IsMove(s) <=> s.op = "assign" /\ s.how = "move") /\ (Magnet!IsMove(s) <=> IsMove(s))
      /\ s.how \in Magnet!Binds => s.how \notin {"move", "store"}
  BY SameMir DEF Magnet!WritesThrough, IsMove, Magnet!Binds
<1> QED BY <1>1 DEF Magnet!MagnetTransfer, Otherwise

(* The kinds of statement.                                                 *)
LEMMA OpCases ==
  ASSUME NEW s \in Stmt
  PROVE  \/ s.op = "assign" /\ s.how \in Magnet!Binds
         \/ IsMove(s)
         \/ Magnet!WritesThrough(s) \/ s.op = "assert"
         \/ s.op = "dead"
         \/ s.op = "drop"
         \/ Otherwise(s)
BY Operands DEF IsMove, Otherwise

(* A statement leaves facts among themselves.                              *)
LEMMA MagnetsTyped ==
  ASSUME NEW s \in Stmt, NEW F \in SUBSET MagnetFacts
  PROVE  Magnet!MagnetTransfer(s, F) \in SUBSET MagnetFacts
<1>1. "Moved" \in Magnet!MagnetState /\ "Dropped" \in Magnet!MagnetState
  BY DEF Magnet!MagnetState
<1>2. \A t : /\ Magnet!Invalidate(F, t, "Moved") \in SUBSET MagnetFacts
             /\ Magnet!Invalidate(F, t, "Dropped") \in SUBSET MagnetFacts
  BY <1>1, InvalidateTyped
<1>3. \A f \in MagnetFacts : [f EXCEPT !.state = "Dropped"] \in MagnetFacts
  BY <1>1 DEF MagnetFacts, Magnet!MagnetFacts
<1>4. CASE s.op = "drop"
  <2> DEFINE I == Magnet!Invalidate(F, s.dest, "Dropped")
  <2>1. I \in SUBSET MagnetFacts
    BY <1>2
  <2> HIDE DEF I
  <2>2. {IF f.holder = s.dest THEN [f EXCEPT !.state = "Dropped"] ELSE f : f \in I} \in SUBSET MagnetFacts
    BY <1>3, <2>1
  <2> QED BY <1>4, <2>2, MagnetCases DEF I
<1>5. s.op = "assign" /\ s.how \in Magnet!Binds => Magnet!Bound(s) \in MagnetFacts
  BY BoundTyped
<1> QED BY <1>2, <1>4, <1>5, OpCases, MagnetCases

(* What is known after a statement was made by it, or comes of one fact.   *)
LEMMA MagnetByOne ==
  ASSUME NEW s \in Stmt, NEW F \in SUBSET MagnetFacts, NEW f \in Magnet!MagnetTransfer(s, F)
  PROVE  \/ \A G \in SUBSET MagnetFacts : f \in Magnet!MagnetTransfer(s, G)
         \/ \E g \in F : \A G \in SUBSET MagnetFacts : g \in G => f \in Magnet!MagnetTransfer(s, G)
<1> DEFINE Image(g, t, st) == IF Magnet!PointsAt(g, t) THEN [g EXCEPT !.state = st] ELSE g
<1>1. \A G, t, st, x : x \in Magnet!Invalidate(G, t, st) <=> \E g \in G : x = Image(g, t, st)
  BY DEF Magnet!Invalidate
<1> HIDE DEF Image
<1>2. CASE s.op = "assign" /\ s.how \in Magnet!Binds
  BY <1>2, MagnetCases DEF Magnet!Of
<1>3. CASE IsMove(s)
  <2>1. \A G, x : x \in Magnet!MagnetTransfer(s, G) <=> 
                    x \in Magnet!Invalidate(G, s.args[1], "Moved") /\ x.holder # s.dest
    BY <1>3, MagnetCases DEF Magnet!Of
  <2> QED BY <1>1, <2>1
<1>4. CASE Magnet!WritesThrough(s) \/ s.op = "assert"
  BY <1>4, MagnetCases
<1>5. CASE s.op = "dead"
  <2>1. \A G, x : x \in Magnet!MagnetTransfer(s, G) <=> 
                    x \in Magnet!Invalidate(G, s.dest, "Dropped") /\ x.holder # s.dest
    BY <1>5, MagnetCases DEF Magnet!Of
  <2> QED BY <1>1, <2>1
<1>6. CASE s.op = "drop"
  <2> DEFINE Dropped(g) == IF g.holder = s.dest THEN [g EXCEPT !.state = "Dropped"] ELSE g
  <2>1. \A G, x : x \in Magnet!MagnetTransfer(s, G) <=> 
                    \E g \in Magnet!Invalidate(G, s.dest, "Dropped") : x = Dropped(g)
    BY <1>6, MagnetCases
  <2> HIDE DEF Dropped
  <2>2. PICK g \in F : f = Dropped(Image(g, s.dest, "Dropped"))
    BY <1>1, <2>1
  <2>3. \A G : g \in G => f \in Magnet!MagnetTransfer(s, G)
    BY <1>1, <2>1, <2>2
  <2> QED BY <2>3
<1>7. CASE Otherwise(s)
  <2>1. \A G : Magnet!MagnetTransfer(s, G) = G \ Magnet!Of(G, s.dest)
    BY <1>7, MagnetCases
  <2> QED BY <2>1 DEF Magnet!Of
<1> QED BY <1>2, <1>3, <1>4, <1>5, <1>6, <1>7, OpCases

(* Handles a statement does not set.                                       *)
Others(H, s) == {h \in H : h.magnet # s.dest}

(* Statement s binds its destination to t.                                 *)
Binding(s, H, t, w) ==
  /\ Magnet!HandlesAfter(s, H) = Others(H, s) \cup {Magnet!Handle(s.dest, t, w)}
  /\ s.how = "magnet_none" => t = "none" /\ w = FALSE
  /\ s.how = "from_addr" => t = "raw" /\ w = FALSE
  /\ s.how \in {"attach", "attach_mut"} =>
       t = s.args[1] /\ t \in Locals /\ w = (s.how = "attach_mut")

(* The same of a run's handles.                                            *)
LEMMA HandleCases ==
  ASSUME NEW s \in Stmt, NEW H
  PROVE  /\ s.op = "assign" /\ s.how \in Magnet!Binds =>
              \E t \in Locals \cup Markers, w \in BOOLEAN : Binding(s, H, t, w)
         /\ Magnet!WritesThrough(s) \/ s.op = "assert" => Magnet!HandlesAfter(s, H) = H
         /\ s.op = "drop" => 
              Magnet!HandlesAfter(s, H) =
                IF Others(H, s) # H THEN Others(H, s) \cup {Magnet!Handle(s.dest, "dropped", FALSE)}
                                    ELSE Others(H, s)
         /\ Otherwise(s) \/ IsMove(s) \/ s.op = "dead" => Magnet!HandlesAfter(s, H) = Others(H, s)
<1> DEFINE w0 == s.how = "attach_mut"
<1>1. /\ Magnet!WritesThrough(s) => s.op = "assign" /\ s.how = "store"
      /\ (IsMove(s) <=> s.op = "assign" /\ s.how = "move")
  BY DEF Magnet!WritesThrough, IsMove
<1>2. /\ s.op = "assign" /\ s.how \in {"attach", "attach_mut"} => s.args[1] \in Locals
      /\ w0 \in BOOLEAN
  BY Operands
<1>3. Magnet!HandlesAfter(s, H) =
     CASE s.op = "assign" /\ s.how \in {"attach", "attach_mut"} ->
             Others(H, s) \cup {Magnet!Handle(s.dest, s.args[1], w0)}
        [] s.op = "assign" /\ s.how = "magnet_none" ->
             Others(H, s) \cup {Magnet!Handle(s.dest, "none", FALSE)}
        [] s.op = "assign" /\ s.how = "from_addr" ->
             Others(H, s) \cup {Magnet!Handle(s.dest, "raw", FALSE)}
        [] s.op = "drop" /\ Others(H, s) # H ->
             Others(H, s) \cup {Magnet!Handle(s.dest, "dropped", FALSE)}
        [] Magnet!WritesThrough(s) \/ s.op = "assert" -> H
        [] OTHER -> Others(H, s)
  BY DEF Magnet!HandlesAfter, Others
<1> HIDE DEF w0
<1>4. CASE s.op = "assign" /\ s.how \in Magnet!Binds
  <2>1. CASE s.how \in {"attach", "attach_mut"}
    <3>1. Magnet!HandlesAfter(s, H) = Others(H, s) \cup {Magnet!Handle(s.dest, s.args[1], w0)}
      BY <1>1, <1>3, <1>4, <2>1
    <3>2. ~(s.op = "drop") /\ ~(Otherwise(s) \/ IsMove(s) \/ s.op = "dead")
          /\ ~(Magnet!WritesThrough(s) \/ s.op = "assert")
      BY <1>1, <1>4, <2>1 DEF Otherwise
    <3>3. s.how # "magnet_none" /\ s.how # "from_addr" /\ s.args[1] \in Locals \cup Markers /\ s.args[1] \in Locals
      BY <1>2, <1>4, <2>1
    <3>4. w0 = (s.how = "attach_mut") /\ w0 \in BOOLEAN
      BY <1>2 DEF w0
    <3>5. Binding(s, H, s.args[1], w0)
      BY <3>1, <3>3, <3>4, Zenon DEF Binding
    <3> QED BY <3>2, <3>3, <3>4, <3>5
  <2>2. CASE s.how = "magnet_none"
    <3>1. Magnet!HandlesAfter(s, H) = Others(H, s) \cup {Magnet!Handle(s.dest, "none", FALSE)}
      BY <1>1, <1>3, <1>4, <2>2
    <3> QED BY <1>1, <1>4, <2>2, <3>1 DEF Markers, Otherwise, Binding
  <2>3. CASE s.how = "from_addr"
    <3>1. Magnet!HandlesAfter(s, H) = Others(H, s) \cup {Magnet!Handle(s.dest, "raw", FALSE)}
      BY <1>1, <1>3, <1>4, <2>3
    <3> QED BY <1>1, <1>4, <2>3, <3>1 DEF Markers, Otherwise, Binding
  <2> QED BY <1>4, <2>1, <2>2, <2>3 DEF Magnet!Binds
<1>5. CASE ~(s.op = "assign" /\ s.how \in Magnet!Binds)
  <2>1. /\ Magnet!WritesThrough(s) \/ s.op = "assert" => Magnet!HandlesAfter(s, H) = H
        /\ s.op = "drop" => Magnet!HandlesAfter(s, H) =
             IF Others(H, s) # H THEN Others(H, s) \cup {Magnet!Handle(s.dest, "dropped", FALSE)} ELSE Others(H, s)
        /\ Otherwise(s) \/ IsMove(s) \/ s.op = "dead" => Magnet!HandlesAfter(s, H) = Others(H, s)
    BY <1>1, <1>3, <1>5 DEF Magnet!Binds, Otherwise
  <2> QED BY <1>5, <2>1
<1> QED BY <1>4, <1>5

(* What a run makes of its handles are handles.                            *)
LEMMA HandlesTyped ==
  ASSUME NEW s \in Stmt, NEW H \in SUBSET Handles
  PROVE  Magnet!HandlesAfter(s, H) \in SUBSET Handles
<1>1. \A t \in Locals \cup Markers, w \in BOOLEAN : Magnet!Handle(s.dest, t, w) \in Handles
  BY Operands DEF Magnet!Handle, Handles
<1> DEFINE new == Magnet!Handle(s.dest, "dropped", FALSE)
<1>2. Others(H, s) \subseteq Handles /\ new \in Handles
  BY <1>1 DEF Markers, Others
<1>3. CASE s.op = "assign" /\ s.how \in Magnet!Binds
  <2>1. \E t \in Locals \cup Markers, w \in BOOLEAN : Binding(s, H, t, w)
    BY <1>3, HandleCases
  <2>2. PICK t \in Locals \cup Markers, w \in BOOLEAN :
               Magnet!HandlesAfter(s, H) = Others(H, s) \cup {Magnet!Handle(s.dest, t, w)}
    BY <2>1, Zenon DEF Binding
  <2> QED BY <1>1, <1>2, <2>2
<1>4. CASE Magnet!WritesThrough(s) \/ s.op = "assert"
  BY <1>4, HandleCases
<1>5. CASE s.op = "drop"
  <2>1. Magnet!HandlesAfter(s, H) = IF Others(H, s) # H THEN Others(H, s) \cup {new} ELSE Others(H, s)
    BY <1>5, HandleCases
  <2> HIDE DEF new
  <2> QED BY <1>2, <2>1
<1>6. CASE Otherwise(s) \/ IsMove(s) \/ s.op = "dead"
  BY <1>2, <1>6, HandleCases
<1> QED BY <1>3, <1>4, <1>5, <1>6, OpCases

(* What the facts known say of a handle.                                   *)
Says(f, h) ==
  /\ f.holder = h.magnet
  /\ IF h.target \in {"none", "dropped"} THEN f.state # "Attached" /\ ~h.is_mut
     ELSE /\ f.state = "Attached" /\ f.is_mut = h.is_mut
          /\ f.target = IF h.target = "raw" THEN "none" ELSE h.target

(* The facts F speak of every handle in H.                                 *)
Told(F, H) == \A h \in H : \E f \in F : Says(f, h)

(* What is taken away without a report has no magnet pointing at it.       *)
LEMMA Guarded ==
  ASSUME NEW s \in Stmt, NEW F, Magnet!MagnetReports(s, F) = {},
         IsMove(s) \/ s.op \in {"dead", "drop"}, NEW f \in F
  PROVE  ~Magnet!PointsAt(f, IF IsMove(s) THEN s.args[1] ELSE s.dest)
<1> DEFINE gone == IF IsMove(s) THEN s.args[1] ELSE s.dest
<1>1. Magnet!MagnetReports(s, F) =
        IF \E x \in F : Magnet!PointsAt(x, gone) THEN {"EMoveWhileBorrowed"} ELSE {}
  <2>1. CASE IsMove(s)
    <3>1. /\ Magnet!IsMove(s) /\ gone = s.args[1]
          /\ s.how # "magnet_query" /\ s.how # "store"
      BY <2>1, SameMir DEF IsMove
    <3> QED BY <3>1, Zenon DEF Magnet!MagnetReports
  <2>2. CASE ~IsMove(s)
    <3>1. ~Magnet!IsMove(s) /\ gone = s.dest /\ s.op # "assign"
      BY <2>2, SameMir
    <3> QED BY <2>2, <3>1, Zenon DEF Magnet!MagnetReports
  <2> QED BY <2>1, <2>2
<1> QED BY <1>1

(* A fact that points at nothing that is taken away stays.                 *)
LEMMA FactStays ==
  ASSUME NEW s \in Stmt, NEW F \in SUBSET MagnetFacts, Magnet!MagnetReports(s, F) = {},
         NEW f \in F, f.holder # s.dest
  PROVE  f \in Magnet!MagnetTransfer(s, F)
<1> DEFINE gone == IF IsMove(s) THEN s.args[1] ELSE s.dest
<1>1. \A t, st : ~Magnet!PointsAt(f, t) => f \in Magnet!Invalidate(F, t, st)
  BY DEF Magnet!Invalidate
<1>2. IsMove(s) \/ s.op \in {"dead", "drop"} => ~Magnet!PointsAt(f, gone)
  BY Guarded
<1>3. IsMove(s) => s.op = "assign"
  BY DEF IsMove
<1>4. CASE s.op = "drop"
  <2>1. f \in Magnet!Invalidate(F, s.dest, "Dropped")
    BY <1>1, <1>2, <1>3, <1>4
  <2> QED BY <1>4, <2>1, MagnetCases
<1> QED BY <1>1, <1>2, <1>3, <1>4, OpCases, MagnetCases DEF Magnet!Of

(* While no misuse is reported, facts that speak of a run's handles do so  *)
(* after the statement too.                                                *)
LEMMA HandlesTold ==
  ASSUME MarkersApart, NEW s \in Stmt, NEW F \in SUBSET MagnetFacts, NEW H \in SUBSET Handles,
         Told(F, H), Magnet!MagnetReports(s, F) = {}
  PROVE  /\ Told(Magnet!MagnetTransfer(s, F), Magnet!HandlesAfter(s, H))
         /\ ~Magnet!Misuses(s, H)
<1>1. Told(Magnet!MagnetTransfer(s, F), Others(H, s))
  BY FactStays DEF Told, Says, Others
<1>2. Told(Magnet!MagnetTransfer(s, F), Magnet!HandlesAfter(s, H))
  <2>1. CASE s.op = "assign" /\ s.how \in Magnet!Binds
    <3>1. PICK t \in Locals \cup Markers, w \in BOOLEAN : Binding(s, H, t, w)
      BY <2>1, HandleCases
    <3>2. Says(Magnet!Bound(s), Magnet!Handle(s.dest, t, w))
      BY <2>1, <3>1 DEF Says, Magnet!Bound, Magnet!Fact, Magnet!Handle, Magnet!Binds, MarkersApart, Markers, Binding
    <3>3. Magnet!Bound(s) \in Magnet!MagnetTransfer(s, F)
      BY <2>1, MagnetCases
    <3> QED BY <1>1, <3>1, <3>2, <3>3 DEF Told, Binding
  <2>2. CASE Magnet!WritesThrough(s) \/ s.op = "assert"
    BY <2>2, MagnetCases, HandleCases
  <2>3. CASE s.op = "drop"
    <3>1. CASE Others(H, s) = H
      BY <1>1, <2>3, <3>1, HandleCases
    <3>2. CASE Others(H, s) # H
      <4> DEFINE new == Magnet!Handle(s.dest, "dropped", FALSE)
      <4>1. Magnet!HandlesAfter(s, H) = Others(H, s) \cup {new}
        BY <2>3, <3>2, HandleCases
      <4>2. PICK h \in H : h.magnet = s.dest
        BY <3>2 DEF Others
      <4>3. PICK f \in F : f.holder = s.dest
        BY <4>2 DEF Told, Says
      <4>4. PICK g \in Magnet!Invalidate(F, s.dest, "Dropped") : g.holder = s.dest /\ g \in MagnetFacts
        <5> DEFINE g == IF Magnet!PointsAt(f, s.dest) THEN [f EXCEPT !.state = "Dropped"] ELSE f
        <5>1. g \in Magnet!Invalidate(F, s.dest, "Dropped")
          BY <4>3 DEF Magnet!Invalidate
        <5>2. g.holder = s.dest /\ g \in MagnetFacts
          BY <4>3 DEF MagnetFacts, Magnet!MagnetFacts, Magnet!MagnetState
        <5> QED BY <5>1, <5>2
      <4>5. [g EXCEPT !.state = "Dropped"] \in Magnet!MagnetTransfer(s, F)
        BY <2>3, <4>4, MagnetCases
      <4>6. Says([g EXCEPT !.state = "Dropped"], new)
        BY <4>4 DEF Says, Magnet!Handle, MagnetFacts, Magnet!MagnetFacts
      <4> HIDE DEF new
      <4> QED BY <1>1, <4>1, <4>5, <4>6 DEF Told
    <3> QED BY <3>1, <3>2
  <2>4. CASE Otherwise(s) \/ IsMove(s) \/ s.op = "dead"
    BY <1>1, <2>4, HandleCases
  <2> QED BY <2>1, <2>2, <2>3, <2>4, OpCases
<1>3. ~Magnet!Misuses(s, H)
  <2> DEFINE gone == IF IsMove(s) THEN s.args[1] ELSE s.dest
  <2>1. ASSUME IsMove(s) \/ s.op \in {"dead", "drop"}, NEW h \in H, h.target = gone PROVE FALSE
    <3>1. gone \in Locals
      BY <2>1, Operands DEF IsMove
    <3>2. PICK f \in F : Says(f, h)
      BY DEF Told
    <3>3. h.target \notin Markers
      BY <2>1, <3>1 DEF MarkersApart
    <3>4. f.state = "Attached" /\ f.target = gone
      BY <2>1, <3>2, <3>3 DEF Says, Markers
    <3>5. Magnet!PointsAt(f, gone)
      BY <3>4 DEF Magnet!PointsAt
    <3> QED BY <2>1, <3>5, Guarded
  <2>2. ASSUME s.op = "assign", s.how = "magnet_query", NEW h \in H, h.magnet = s.args[1],
               h.target \in {"none", "dropped"}
        PROVE  FALSE
    <3>1. PICK f \in F : Says(f, h)
      BY DEF Told
    <3>2. f \in Magnet!Of(F, s.args[1]) /\ f.state # "Attached"
      BY <2>2, <3>1 DEF Says, Magnet!Of
    <3>3. Magnet!NotAttached(F, s.args[1]) # {}
      BY <3>2 DEF Magnet!NotAttached
    <3>4. ~IsMove(s)
      BY <2>2 DEF IsMove
    <3> QED BY <2>2, <3>3, <3>4, SameMir DEF Magnet!MagnetReports
  <2>3. ASSUME s.op = "assign", s.how = "store", NEW h \in H, h.magnet = s.args[1], ~h.is_mut
        PROVE  FALSE
    <3>1. PICK f \in F : Says(f, h)
      BY DEF Told
    <3>2. f \in Magnet!Of(F, s.args[1])
      BY <2>3, <3>1 DEF Says, Magnet!Of
    <3>3. ~IsMove(s)
      BY <2>3 DEF IsMove
    <3>4. Magnet!NotAttached(F, s.args[1]) = {} /\
          {q \in Magnet!Of(F, s.args[1]) : q.state = "Attached" /\ ~q.is_mut} = {}
      BY <2>3, <3>2, <3>3, SameMir DEF Magnet!MagnetReports
    <3>5. f.state = "Attached"
      BY <3>2, <3>4 DEF Magnet!NotAttached
    <3>6. ~f.is_mut
      BY <2>3, <3>1, <3>5 DEF Says
    <3> QED BY <3>2, <3>4, <3>5, <3>6
  <2>4. IsMove(s) => ~(s.op \in {"dead", "drop"})
    BY DEF IsMove
  <2> QED BY <2>1, <2>2, <2>3, <2>4, SameMir DEF Magnet!Misuses
<1> QED BY <1>2, <1>3

-----------------------------------------------------------------------------
(* The invariant of the loop.                                              *)

(* What a statement adds and takes away, whichever checker is running,     *)
Learnt(s, F) ==
  IF checker = "borrow" THEN Borrow!BorrowTransfer(s, F) ELSE Magnet!MagnetTransfer(s, F)

(* What is reported of a statement, by the checker that is running,        *)
Found(s, F) ==
  IF checker = "borrow" THEN Borrow!BorrowReports(s, F) ELSE Magnet!MagnetReports(s, F)

(* and the facts it works on.                                              *)
Known == IF checker = "borrow" THEN Origins ELSE MagnetFacts

(* One statement, whichever checker takes it.                              *)
Transfers ==
  /\ pc = "block"
  /\ stmt <= Len(Borrow!Code)
  /\ state' = Learnt(Borrow!Code[stmt], state)
  /\ diags' = diags \cup
       {[block |-> idx, stmt |-> stmt, kind |-> k] : k \in Found(Borrow!Code[stmt], state)}
  /\ stmt' = stmt + 1
  /\ UNCHANGED <<body, pc, in_states, reached, in_worklist, worklist, idx, edge>>

(* The steps of the loop.                                                  *)
Loop ==
  \/ Borrow!PopBlock
  \/ Transfers
  \/ Borrow!SkipEdge
  \/ Borrow!Propagate
  \/ Borrow!EndBlock
  \/ Borrow!Finish

(* Both checkers take only these.                                          *)
LEMMA OneLoop ==
  ASSUME CheckBorrow \/ CheckMagnet
  PROVE  /\ Loop /\ checker' = checker /\ reported' = reported /\ body' = body
         /\ checker \in {"borrow", "magnet"}
<1>1. /\ checker' = checker /\ reported' = reported
      /\ CheckBorrow => checker = "borrow" /\ Borrow!Next
      /\ CheckMagnet => checker = "magnet" /\ Magnet!Next
  BY DEF CheckBorrow, CheckMagnet
<1>2. ASSUME CheckBorrow PROVE Loop
  <2>1. Borrow!TransferStmt => Transfers
    BY <1>1, <1>2 DEF Borrow!TransferStmt, Transfers, Learnt, Found
  <2> QED BY <1>1, <1>2, <2>1 DEF Borrow!Next, Loop
<1>3. ASSUME CheckMagnet PROVE Loop
  <2>1. Magnet!Code = Borrow!Code /\ Magnet!Succ = Borrow!Succ
    BY SameMir DEF Magnet!Code, Borrow!Code, Magnet!Succ, Borrow!Succ
  <2>2. Magnet!TransferStmt => Transfers
    BY <1>1, <1>3, <2>1 DEF Magnet!TransferStmt, Transfers, Learnt, Found
  <2>3. Magnet!PopBlock => Borrow!PopBlock
    BY DEF Magnet!PopBlock, Borrow!PopBlock
  <2>4. Magnet!SkipEdge => Borrow!SkipEdge
    BY <2>1, SameMir DEF Magnet!SkipEdge, Borrow!SkipEdge, Magnet!AtEdge, Borrow!AtEdge
  <2>5. Magnet!Propagate => Borrow!Propagate
    BY <2>1, SameMir DEF Magnet!Propagate, Borrow!Propagate, Magnet!AtEdge, Borrow!AtEdge,
         Magnet!Join, Borrow!Join, Magnet!Push, Borrow!Push
  <2>6. Magnet!EndBlock => Borrow!EndBlock
    BY <2>1 DEF Magnet!EndBlock, Borrow!EndBlock
  <2>7. Magnet!Finish => Borrow!Finish
    BY DEF Magnet!Finish, Borrow!Finish
  <2> QED BY <1>1, <1>3, <2>2, <2>3, <2>4, <2>5, <2>6, <2>7 DEF Magnet!Next, Loop
<1>4. body' = body
  BY <1>2, <1>3 DEF Loop, Borrow!PopBlock, Transfers, Borrow!SkipEdge, Borrow!Propagate,
       Borrow!EndBlock, Borrow!Finish
<1> QED BY <1>1, <1>2, <1>3, <1>4

(* A statement leaves what is known within what may be known.              *)
LEMMA LearntTyped ==
  ASSUME NEW s \in Stmt, NEW F \in SUBSET Known
  PROVE  Learnt(s, F) \in SUBSET Known
BY OriginsTyped, MagnetsTyped DEF Learnt, Known

(* What one fact is worth.                                                 *)
LEMMA LearntByOne ==
  ASSUME NEW s \in Stmt, NEW F \in SUBSET Known, NEW f \in Learnt(s, F)
  PROVE  \/ \A G \in SUBSET Known : f \in Learnt(s, G)
         \/ \E g \in F : \A G \in SUBSET Known : g \in G => f \in Learnt(s, G)
BY OriginByOne, MagnetByOne DEF Learnt, Known

(* Who knows more before a statement knows no less after it.               *)
LEMMA LearntMore ==
  ASSUME NEW s \in Stmt, NEW F \in SUBSET Known, NEW G \in SUBSET Known, F \subseteq G
  PROVE  Learnt(s, F) \subseteq Learnt(s, G)
BY LearntByOne

(* The targets of block b's terminator.                                    *)
Succs(b) == Successors(body.term[b])

(* Block b was gone through with m[n] known before its statement n.        *)
Walk(b, m, n) ==
  /\ \A k \in 1 .. n : m[k] \in SUBSET Known
  /\ \A k \in 1 .. n - 1 :
       /\ m[k + 1] = Learnt(body.stmts[b][k], m[k])
       /\ Found(body.stmts[b][k], m[k]) # {} => diags # {}

(* The first e - 1 edges of block b have carried out to their targets.     *)
Flowed(b, out, e) ==
  \A n \in 1 .. e - 1 :
    n \in DOMAIN Succs(b) /\ Succs(b)[n] \in Blocks =>
      reached[Succs(b)[n]] /\ out \subseteq in_states[Succs(b)[n]]

(* Block b was gone through with all that is known at its start, and what  *)
(* came out of it has arrived.                                             *)
Through(b) ==
  \E m : /\ Walk(b, m, Len(body.stmts[b]) + 1) /\ m[1] = in_states[b]
         /\ Flowed(b, m[Len(body.stmts[b]) + 1], Len(Succs(b)) + 1)

(* So it is with every reached block that nobody still has to visit.       *)
Settled ==
  \A b \in Blocks : reached[b] /\ ~in_worklist[b] /\ ~(pc = "block" /\ idx = b) => Through(b)

(* The block in work was gone through up to statement stmt, with what was  *)
(* known at its start unless it is queued again.                           *)
PartWay(m) ==
  /\ Walk(idx, m, stmt)
  /\ m[stmt] = state
  /\ in_worklist[idx] \/ m[1] = in_states[idx]

(* So it is with the block in work.                                        *)
Working ==
  pc = "block" =>
    /\ \E m : PartWay(m)
    /\ Flowed(idx, state, edge)
    /\ stmt <= Len(body.stmts[idx]) => edge = 1

(* The flag of a block says whether it is queued, and none is queued       *)
(* twice.                                                                  *)
QueueMatchesFlags ==
  /\ \A b \in Blocks : in_worklist[b] <=> \E n \in DOMAIN worklist : worklist[n] = b
  /\ \A m, n \in DOMAIN worklist : m # n => worklist[m] # worklist[n]

(* The shapes of the variables of the loop.                                *)
LoopType ==
  /\ pc \in {"pop", "block", "done"}
  /\ in_states \in [Blocks -> SUBSET Known]
  /\ reached \in [Blocks -> BOOLEAN]
  /\ in_worklist \in [Blocks -> BOOLEAN]
  /\ worklist \in Seq(Blocks)
  /\ idx \in Blocks
  /\ stmt \in Nat \ {0}
  /\ edge \in Nat \ {0}
  /\ state \in SUBSET Known

(* What is queued, in work or has facts was reached, and nothing is queued *)
(* when the loop ends.                                                     *)
Reaching ==
  /\ \A b \in Blocks : in_worklist[b] \/ in_states[b] # {} => reached[b]
  /\ reached[Entry]
  /\ pc = "block" => reached[idx]
  /\ pc = "done" => worklist = <<>>

(* R holds what runs come to that carry the facts of the checker.          *)
Ways(R) ==
  /\ Start \in R
  /\ R \subseteq Positions(Known)
  /\ \A p \in R :
       IF p[2] <= Len(body.stmts[p[1]])
       THEN <<p[1], p[2] + 1, Learnt(body.stmts[p[1]][p[2]], p[3])>> \in R
       ELSE \A n \in DOMAIN Succs(p[1]) : Succs(p[1])[n] \in Blocks => <<Succs(p[1])[n], 1, p[3]>> \in R

(* Some way of R comes to statement n of block b, and each fact of F is    *)
(* carried there by one.                                                   *)
Meets(R, b, n, F) ==
  /\ \E p \in R : p[1] = b /\ p[2] = n
  /\ \A f \in F : \E p \in R : p[1] = b /\ p[2] = n /\ f \in p[3]

(* Nothing the loop knows or reports is made up: ways of R account for all *)
(* of it.                                                                  *)
Backed(R) ==
  /\ \A b \in Blocks : reached[b] => Meets(R, b, 1, in_states[b])
  /\ pc = "block" => Meets(R, idx, stmt, state)
  /\ checker = "borrow" /\ diags # {} =>
       \E p \in R : p[2] <= Len(body.stmts[p[1]]) /\ Borrow!Breaks(body.stmts[p[1]][p[2]], p[3])

(* So it is with every set of ways.                                        *)
Backing == \A R : Ways(R) => Backed(R)

(* S holds runs with their references, none of which breaks a borrow.      *)
UnbrokenWays(S) ==
  /\ Start \in S
  /\ \A p \in S :
       IF p[2] <= Len(body.stmts[p[1]])
       THEN /\ ~Borrow!Breaks(body.stmts[p[1]][p[2]], p[3])
            /\ <<p[1], p[2] + 1, Borrow!RefsAfter(body.stmts[p[1]][p[2]], p[3])>> \in S
       ELSE \A n \in DOMAIN Succs(p[1]) : Succs(p[1])[n] \in Blocks => <<Succs(p[1])[n], 1, p[3]>> \in S

(* What the borrow checker's silence was worth, kept while the magnet      *)
(* checker runs.                                                           *)
BorrowsKept ==
  checker = "magnet" /\ reported = {} /\ Borrow!HoldersStayPut =>
    \E S \in SUBSET Positions(Origins) : UnbrokenWays(S)

(* The invariant of the loop,                                              *)
LoopInv ==
  /\ checker \in {"borrow", "magnet"} /\ body \in FactBodies
  /\ LoopType /\ QueueMatchesFlags /\ Reaching /\ Settled /\ Working /\ Backing

(* and of the two loops one after the other.                               *)
FactInv == LoopInv /\ BorrowsKept
(* What depends on the body and the checker only stays as it is with them. *)
LEMMA SameRules ==
  ASSUME checker' = checker, body' = body
  PROVE  /\ \A s, F : Learnt(s, F)' = Learnt(s, F) /\ Found(s, F)' = Found(s, F)
         /\ Known' = Known
         /\ \A b : Succs(b)' = Succs(b)
         /\ \A R : Ways(R)' <=> Ways(R)
<1>1. /\ \A s, F : Learnt(s, F)' = Learnt(s, F) /\ Found(s, F)' = Found(s, F)
      /\ Known' = Known
      /\ \A b : Succs(b)' = Succs(b)
  BY DEF Learnt, Found, Known, Succs
<1> QED BY <1>1 DEF Ways

(* Code and edges of the body in hand.                                     *)
LEMMA InvBody ==
  ASSUME LoopInv, NEW b \in Blocks
  PROVE  /\ body \in Body /\ body.stmts[b] \in Seq(Stmt) /\ Len(body.stmts[b]) \in Nat
         /\ DOMAIN body.stmts[b] = 1 .. Len(body.stmts[b])
         /\ \A n \in 1 .. Len(body.stmts[b]) : body.stmts[b][n] \in Stmt
         /\ Succs(b) \in Seq(Nat) /\ Len(Succs(b)) \in Nat
         /\ DOMAIN Succs(b) = 1 .. Len(Succs(b))
<1>1. body \in Body
  BY FactBodiesAssumption DEF LoopInv
<1>2. Succs(b) \in Seq(Nat)
  BY <1>1, BodyParts DEF Succs
<1> QED BY <1>1, <1>2, BodyParts

(* The instances' names for the code and the edges of the block in work.   *)
LEMMA CodeIs ==
  Borrow!Code = body.stmts[idx] /\ Borrow!Succ = Succs(idx) /\ Borrow!Blocks = Blocks
BY SameMir DEF Borrow!Code, Borrow!Succ, Succs

(* What a step adds to leaves what was gone through.                       *)
LEMMA WalkKept ==
  ASSUME checker' = checker, body' = body, diags \subseteq diags', NEW b, NEW m, NEW n, Walk(b, m, n)
  PROVE  Walk(b, m, n)'
<1>1. /\ \A s, F : Learnt(s, F)' = Learnt(s, F) /\ Found(s, F)' = Found(s, F)
      /\ Known' = Known
  BY SameRules
<1>2. diags # {} => diags' # {}
  OBVIOUS
<1> QED BY <1>1, <1>2 DEF Walk

(* Edges followed stay followed,                                           *)
LEMMA FlowedKept ==
  ASSUME body' = body, checker' = checker, 
         \A c \in Blocks : in_states[c] \subseteq in_states'[c] /\ (reached[c] => reached'[c]),
         NEW b, NEW out, NEW e, Flowed(b, out, e)
  PROVE  Flowed(b, out, e)'
<1>1. Succs(b)' = Succs(b)
  BY SameRules
<1> QED BY <1>1 DEF Flowed

(* and blocks gone through stay so.                                        *)
LEMMA ThroughKept ==
  ASSUME checker' = checker, body' = body, diags \subseteq diags', NEW b \in Blocks,
         \A c \in Blocks : in_states[c] \subseteq in_states'[c] /\ (reached[c] => reached'[c]),
         in_states'[b] = in_states[b], Through(b)
  PROVE  Through(b)'
<1>1. PICK m : /\ Walk(b, m, Len(body.stmts[b]) + 1) /\ m[1] = in_states[b]
               /\ Flowed(b, m[Len(body.stmts[b]) + 1], Len(Succs(b)) + 1)
  BY DEF Through
<1>2. Walk(b, m, Len(body.stmts[b]) + 1)' /\ Flowed(b, m[Len(body.stmts[b]) + 1], Len(Succs(b)) + 1)'
  <2>1. \A n : Walk(b, m, n) => Walk(b, m, n)'
    BY WalkKept
  <2>2. \A o, e : Flowed(b, o, e) => Flowed(b, o, e)'
    BY FlowedKept
  <2> QED BY <1>1, <2>1, <2>2, SameRules
<1> QED BY <1>1, <1>2 DEF Through

(* Ways that account for the state account for it after a step that keeps  *)
(* body and checker.                                                       *)
LEMMA BackingKept ==
  ASSUME checker' = checker, body' = body, Backing,
         \A R : Ways(R) /\ Backed(R) => Backed(R)'
  PROVE  Backing'
BY SameRules DEF Backing

(* A start of either checker.                                              *)
Fresh ==
  /\ checker \in {"borrow", "magnet"} /\ body \in FactBodies
  /\ pc = "pop"
  /\ in_states = [b \in Blocks |-> {}]
  /\ reached = [b \in Blocks |-> b = Entry]
  /\ in_worklist = [b \in Blocks |-> b = Entry]
  /\ worklist = <<Entry>>
  /\ idx = Entry
  /\ stmt = 1
  /\ edge = 1
  /\ state = {}
  /\ diags = {}

(* A loop that starts has the invariant.                                   *)
LEMMA FreshInv ==
  ASSUME Fresh
  PROVE  LoopInv
<1> USE DEF Fresh
<1>1. Entry \in Blocks
  BY NBlocksAssumption DEF Entry, Blocks
<1>2. worklist \in Seq(Blocks) /\ DOMAIN worklist = {1} /\ worklist[1] = Entry
  BY <1>1
<1>3. LoopType
  BY <1>1, <1>2 DEF LoopType
<1>4. QueueMatchesFlags
  BY <1>1, <1>2 DEF QueueMatchesFlags
<1>5. Reaching
  BY <1>1 DEF Reaching
<1>6. Settled /\ Working
  BY <1>1 DEF Settled, Working
<1>7. Backing
  <2> SUFFICES ASSUME NEW R, Ways(R) PROVE Backed(R)
    BY DEF Backing
  <2>1. Start \in R /\ Start[1] = Entry /\ Start[2] = 1
    BY DEF Ways, Start
  <2> QED BY <1>1, <2>1 DEF Backed, Meets
<1> QED BY <1>3, <1>4, <1>5, <1>6, <1>7 DEF LoopInv

(* Taking a block off the list keeps it.                                   *)
LEMMA PopKeeps ==
  ASSUME LoopInv, Borrow!PopBlock, checker' = checker, body' = body
  PROVE  LoopInv'
<1>1. /\ LoopType /\ QueueMatchesFlags /\ Reaching /\ Settled /\ Backing
      /\ checker \in {"borrow", "magnet"} /\ body \in FactBodies
  BY DEF LoopInv
<1>2. /\ worklist \in Seq(Blocks)
      /\ Len(worklist) \in 1 .. Len(worklist) /\ DOMAIN worklist = 1 .. Len(worklist)
      /\ idx' \in Blocks
      /\ idx' = worklist[Len(worklist)]
  BY <1>1 DEF Borrow!PopBlock, LoopType
<1>3. /\ worklist' \in Seq(Blocks)
      /\ DOMAIN worklist' = 1 .. Len(worklist) - 1
      /\ \A n \in DOMAIN worklist' : worklist'[n] = worklist[n]
  BY <1>2 DEF Borrow!PopBlock
<1>4. /\ in_worklist' = [in_worklist EXCEPT ![idx'] = FALSE]
      /\ state' = in_states[idx'] /\ stmt' = 1 /\ edge' = 1 /\ pc' = "block" /\ pc = "pop"
      /\ UNCHANGED <<in_states, reached, diags>>
  BY DEF Borrow!PopBlock
<1>5. in_worklist[idx'] /\ reached[idx'] /\ in_states[idx'] \in SUBSET Known
  BY <1>1, <1>2 DEF QueueMatchesFlags, Reaching, LoopType
<1>6. Known' = Known
  BY SameRules
<1>7. LoopType'
  BY <1>1, <1>2, <1>3, <1>4, <1>5, <1>6 DEF LoopType
<1>8. QueueMatchesFlags'
  <2>1. \A m, n \in DOMAIN worklist' : m # n => worklist'[m] # worklist'[n]
    BY <1>1, <1>2, <1>3 DEF QueueMatchesFlags
  <2>2. ASSUME NEW b \in Blocks
        PROVE  in_worklist'[b] <=> \E n \in DOMAIN worklist' : worklist'[n] = b
    <3>1. CASE b = idx'
      <4>1. ~in_worklist'[b]
        BY <1>1, <1>4, <3>1 DEF LoopType
      <4>2. \A n \in DOMAIN worklist' : worklist'[n] # b
        BY <1>1, <1>2, <1>3, <3>1 DEF QueueMatchesFlags
      <4> QED BY <4>1, <4>2
    <3>2. CASE b # idx'
      <4>1. in_worklist'[b] = in_worklist[b]
        BY <1>1, <1>4, <3>2 DEF LoopType
      <4>2. in_worklist[b] <=> \E n \in DOMAIN worklist : worklist[n] = b
        BY <1>1 DEF QueueMatchesFlags
      <4>3. (\E n \in DOMAIN worklist : worklist[n] = b) <=> \E n \in DOMAIN worklist' : worklist'[n] = b
        BY <1>2, <1>3, <3>2
      <4> QED BY <4>1, <4>2, <4>3
    <3> QED BY <3>1, <3>2
  <2> QED BY <2>1, <2>2 DEF QueueMatchesFlags
<1>9. \A b \in Blocks : in_worklist'[b] => in_worklist[b]
  BY <1>1, <1>4 DEF LoopType
<1>10. Reaching'
  BY <1>1, <1>2, <1>4, <1>5, <1>9 DEF Reaching
<1>11. Settled'
  <2> SUFFICES ASSUME NEW b \in Blocks, reached'[b], ~in_worklist'[b], b # idx'
               PROVE  Through(b)'
    BY <1>4 DEF Settled
  <2>1. ~in_worklist[b]
    BY <1>1, <1>4 DEF LoopType
  <2>2. Through(b)
    BY <1>1, <1>4, <2>1 DEF Settled
  <2> QED BY <1>4, <2>2, ThroughKept
<1>12. Working'
  <2>0. PICK m : m = [k \in {1} |-> state']
    OBVIOUS
  <2>1. PartWay(m)'
    BY <1>4, <1>5, <1>6, <2>0 DEF PartWay, Walk
  <2> QED BY <1>4, <2>1 DEF Working, Flowed
<1>13. Backing'
  <2> SUFFICES ASSUME NEW R, Ways(R), Backed(R) PROVE Backed(R)'
    BY <1>1, BackingKept
  <2>1. Meets(R, idx', 1, in_states[idx'])
    BY <1>2, <1>5 DEF Backed
  <2>2. Meets(R, idx, stmt, state)'
    BY <1>4, <2>1 DEF Meets
  <2>3. \A b \in Blocks : reached'[b] => Meets(R, b, 1, in_states[b])'
    BY <1>4 DEF Backed, Meets
  <2> QED BY <1>4, <2>2, <2>3 DEF Backed
<1> QED BY <1>1, <1>7, <1>8, <1>10, <1>11, <1>12, <1>13 DEF LoopInv

(* A statement keeps it.                                                   *)
LEMMA TransfersKeeps ==
  ASSUME LoopInv, Transfers, checker' = checker, body' = body
  PROVE  LoopInv'
<1> DEFINE s == body.stmts[idx][stmt]
<1>1. /\ LoopType /\ QueueMatchesFlags /\ Reaching /\ Settled /\ Working /\ Backing
      /\ checker \in {"borrow", "magnet"} /\ body \in FactBodies
  BY DEF LoopInv
<1>2. /\ pc = "block" /\ stmt <= Len(body.stmts[idx]) /\ state' = Learnt(s, state) /\ stmt' = stmt + 1
      /\ diags' = diags \cup {[block |-> idx, stmt |-> stmt, kind |-> k] : k \in Found(s, state)}
      /\ UNCHANGED <<pc, in_states, reached, in_worklist, worklist, idx, edge>>
  BY CodeIs DEF Transfers
<1>3. idx \in Blocks /\ stmt \in Nat \ {0} /\ stmt \in 1 .. Len(body.stmts[idx]) /\ state \in SUBSET Known
      /\ s \in Stmt
  <2>1. idx \in Blocks /\ stmt \in Nat \ {0} /\ state \in SUBSET Known
    BY <1>1 DEF LoopType
  <2>2. stmt \in 1 .. Len(body.stmts[idx])
    BY <1>2, <2>1, InvBody
  <2> QED BY <2>1, <2>2, InvBody
<1>4. state' \in SUBSET Known /\ diags \subseteq diags' /\ (Found(s, state) # {} => diags' # {})
  BY <1>2, <1>3, LearntTyped
<1> HIDE DEF s
<1>5. Known' = Known
  BY SameRules
<1>6. LoopType'
  <2>1. stmt' \in Nat \ {0} /\ state' \in SUBSET Known'
    BY <1>2, <1>3, <1>4, <1>5
  <2> QED BY <1>1, <1>2, <1>5, <2>1 DEF LoopType
<1>7. QueueMatchesFlags' /\ Reaching'
  BY <1>1, <1>2 DEF QueueMatchesFlags, Reaching
<1>8. Settled'
  <2> SUFFICES ASSUME NEW b \in Blocks, reached[b], ~in_worklist[b], b # idx
               PROVE  Through(b)'
    BY <1>2 DEF Settled
  <2>1. Through(b)
    BY <1>1 DEF Settled
  <2> QED BY <1>2, <1>4, <2>1, ThroughKept
<1>9. Working'
  <2>1. PICK m : PartWay(m)
    BY <1>1, <1>2 DEF Working
  <2>2. edge = 1
    BY <1>1, <1>2 DEF Working
  <2>3. PICK w : w[stmt + 1] = state' /\ \A k \in 1 .. stmt : w[k] = m[k]
    <3> DEFINE w == [k \in 1 .. stmt + 1 |-> IF k = stmt + 1 THEN state' ELSE m[k]]
    <3>1. w[stmt + 1] = state' /\ \A k \in 1 .. stmt : w[k] = m[k]
      BY <1>3
    <3> QED BY <3>1
  <2>4. /\ \A k \in 1 .. stmt : m[k] \in SUBSET Known
        /\ \A k \in 1 .. stmt - 1 :
             /\ m[k + 1] = Learnt(body.stmts[idx][k], m[k])
             /\ Found(body.stmts[idx][k], m[k]) # {} => diags # {}
        /\ m[stmt] = state
        /\ in_worklist[idx] \/ m[1] = in_states[idx]
    BY <2>1 DEF PartWay, Walk
  <2>5. \A k \in 1 .. stmt + 1 : w[k] \in SUBSET Known
    <3>1. \A k \in 1 .. stmt + 1 : k \in 1 .. stmt \/ k = stmt + 1
      BY <1>3
    <3> QED BY <1>4, <2>3, <2>4, <3>1
  <2>6. \A k \in 1 .. stmt : /\ w[k + 1] = Learnt(body.stmts[idx][k], w[k])
                             /\ Found(body.stmts[idx][k], w[k]) # {} => diags' # {}
    <3> TAKE k \in 1 .. stmt
    <3>1. CASE k = stmt
      BY <1>2, <1>3, <1>4, <2>3, <2>4, <3>1 DEF s
    <3>2. CASE k # stmt
      <4>1. k \in 1 .. stmt - 1 /\ k + 1 \in 1 .. stmt
        BY <1>3, <3>2
      <4> QED BY <1>4, <2>3, <2>4, <4>1
    <3> QED BY <3>1, <3>2
  <2>7. Walk(idx, w, stmt)'
    <3>1. stmt' = stmt + 1 /\ 1 .. stmt' - 1 = 1 .. stmt
      BY <1>2, <1>3
    <3>2. PICK b, n : b = idx /\ n = stmt + 1
      OBVIOUS
    <3>3. Walk(b, w, n)'
      <4>1. 1 .. n - 1 = 1 .. stmt
        BY <1>3, <3>2
      <4>2. \A k \in 1 .. n - 1 : /\ w[k + 1] = Learnt(body.stmts[b][k], w[k])
                                  /\ Found(body.stmts[b][k], w[k]) # {} => diags' # {}
        BY <2>6, <3>2, <4>1
      <4>3. \A k \in 1 .. n : w[k] \in SUBSET Known
        BY <2>5, <3>2
      <4> QED BY <1>5, <4>2, <4>3, SameRules DEF Walk
    <3> QED BY <1>2, <3>1, <3>2, <3>3 DEF Walk
  <2>8. PartWay(w)'
    <3>1. 1 \in 1 .. stmt
      BY <1>3
    <3> QED BY <1>2, <2>3, <2>4, <2>7, <3>1 DEF PartWay
  <2> QED BY <1>2, <2>2, <2>8 DEF Working, Flowed
<1>10. Backing'
  <2> SUFFICES ASSUME NEW R, Ways(R), Backed(R) PROVE Backed(R)'
    BY <1>1, BackingKept
  <2>1. Meets(R, idx, stmt, state)
    BY <1>2 DEF Backed
  <2>2. ASSUME NEW p \in R, p[1] = idx, p[2] = stmt
        PROVE  p[3] \in SUBSET Known /\ <<idx, stmt + 1, Learnt(s, p[3])>> \in R
    <3>1. p \in Positions(Known)
      BY DEF Ways
    <3>2. p[3] \in SUBSET Known
      BY <3>1, PositionParts
    <3>3. p[2] <= Len(body.stmts[p[1]])
      BY <1>2, <2>2
    <3> QED BY <2>2, <3>2, <3>3 DEF Ways, s
  <2>3. Meets(R, idx, stmt + 1, state')
    <3>1. \E p \in R : p[1] = idx /\ p[2] = stmt + 1
      <4>1. PICK p \in R : p[1] = idx /\ p[2] = stmt
        BY <2>1 DEF Meets
      <4>2. <<idx, stmt + 1, Learnt(s, p[3])>> \in R
        BY <2>2, <4>1
      <4> QED BY <4>2
    <3>2. ASSUME NEW f \in state' PROVE \E p \in R : p[1] = idx /\ p[2] = stmt + 1 /\ f \in p[3]
      <4>1. PICK p \in R : /\ p[1] = idx /\ p[2] = stmt
                           /\ f \in Learnt(s, p[3])
        <5>1. f \in Learnt(s, state)
          BY <1>2, <3>2
        <5>2. CASE \A G \in SUBSET Known : f \in Learnt(s, G)
          <6>1. PICK p \in R : p[1] = idx /\ p[2] = stmt
            BY <2>1 DEF Meets
          <6> QED BY <2>2, <5>2, <6>1
        <5>3. CASE \E g \in state : \A G \in SUBSET Known : g \in G => f \in Learnt(s, G)
          <6>1. PICK g \in state : \A G \in SUBSET Known : g \in G => f \in Learnt(s, G)
            BY <5>3
          <6>2. PICK p \in R : p[1] = idx /\ p[2] = stmt /\ g \in p[3]
            BY <2>1 DEF Meets
          <6> QED BY <2>2, <6>1, <6>2
        <5> QED BY <1>3, <5>1, <5>2, <5>3, LearntByOne
      <4>2. <<idx, stmt + 1, Learnt(s, p[3])>> \in R
        BY <2>2, <4>1
      <4> QED BY <4>1, <4>2
    <3> QED BY <3>1, <3>2 DEF Meets
  <2>4. Meets(R, idx, stmt, state)'
    BY <1>2, <2>3 DEF Meets
  <2>5. ASSUME checker = "borrow", diags' # {}
        PROVE  \E p \in R : p[2] <= Len(body.stmts[p[1]]) /\ Borrow!Breaks(body.stmts[p[1]][p[2]], p[3])
    <3>1. CASE diags # {}
      BY <2>5, <3>1 DEF Backed
    <3>2. CASE diags = {}
      <4>1. Borrow!BorrowReports(s, state) # {}
        BY <1>2, <2>5, <3>2 DEF Found
      <4>2. Known = Origins
        BY <2>5 DEF Known
      <4>3. Borrow!Breaks(s, state)
        BY <1>3, <4>1, <4>2, ReportedIsBroken
      <4>4. PICK f \in state : \A G \in SUBSET Origins : f \in G => Borrow!Breaks(s, G)
        BY <1>3, <4>2, <4>3, BreaksByOne
      <4>5. PICK p \in R : p[1] = idx /\ p[2] = stmt /\ f \in p[3]
        BY <2>1 DEF Meets
      <4>6. Borrow!Breaks(s, p[3])
        BY <2>2, <4>2, <4>4, <4>5
      <4> QED BY <1>2, <4>5, <4>6 DEF s
    <3> QED BY <3>1, <3>2
  <2>6. \A b \in Blocks : reached'[b] => Meets(R, b, 1, in_states[b])'
    BY <1>2 DEF Backed, Meets
  <2> QED BY <2>4, <2>5, <2>6 DEF Backed
<1> QED BY <1>1, <1>6, <1>7, <1>8, <1>9, <1>10 DEF LoopInv

(* Where an edge is followed.                                              *)
LEMMA EdgeIs ==
  ASSUME LoopInv, pc = "block", stmt = Len(body.stmts[idx]) + 1
  PROVE  /\ idx \in Blocks /\ stmt \in Nat /\ edge \in Nat \ {0} /\ state \in SUBSET Known
         /\ DOMAIN Succs(idx) = 1 .. Len(Succs(idx)) /\ Len(Succs(idx)) \in Nat
         /\ Len(body.stmts[idx]) \in Nat
         /\ (edge <= Len(Succs(idx)) => edge \in DOMAIN Succs(idx))
         /\ Flowed(idx, state, edge)
         /\ \E m : PartWay(m)
         /\ \A k \in 1 .. (edge + 1) - 1 : k \in 1 .. edge - 1 \/ k = edge
<1>1. idx \in Blocks /\ stmt \in Nat /\ edge \in Nat \ {0} /\ state \in SUBSET Known
  BY DEF LoopInv, LoopType
<1>2. Flowed(idx, state, edge) /\ \E m : PartWay(m)
  BY DEF LoopInv, Working
<1>3. DOMAIN Succs(idx) = 1 .. Len(Succs(idx)) /\ Len(Succs(idx)) \in Nat /\ Len(body.stmts[idx]) \in Nat
  BY <1>1, InvBody
<1> QED BY <1>1, <1>2, <1>3

(* What stays when only the place in the loop changes.                     *)
LEMMA StillFlows ==
  ASSUME LoopInv, checker' = checker, body' = body, NEW b \in Blocks,
         UNCHANGED <<in_states, reached, diags>>
  PROVE  /\ Through(b) => Through(b)'
         /\ \A m, n : Walk(b, m, n) => Walk(b, m, n)'
         /\ \A out, e : Flowed(b, out, e) => Flowed(b, out, e)'
<1>1. diags \subseteq diags'
      /\ \A c \in Blocks : in_states[c] \subseteq in_states'[c] /\ (reached[c] => reached'[c])
  OBVIOUS
<1>2. Through(b) => Through(b)'
  BY <1>1, ThroughKept
<1>3. \A m, n : Walk(b, m, n) => Walk(b, m, n)'
  BY <1>1, WalkKept
<1>4. \A out, e : Flowed(b, out, e) => Flowed(b, out, e)'
  BY <1>1, FlowedKept
<1> QED BY <1>2, <1>3, <1>4

(* An edge that leaves the body keeps it.                                  *)
LEMMA SkipKeeps ==
  ASSUME LoopInv, Borrow!SkipEdge, checker' = checker, body' = body
  PROVE  LoopInv'
<1>1. /\ LoopType /\ QueueMatchesFlags /\ Reaching /\ Settled /\ Working /\ Backing
      /\ checker \in {"borrow", "magnet"} /\ body \in FactBodies
  BY DEF LoopInv
<1>2. /\ pc = "block" /\ stmt = Len(body.stmts[idx]) + 1 /\ edge <= Len(Succs(idx))
      /\ Succs(idx)[edge] \notin Blocks /\ edge' = edge + 1
      /\ UNCHANGED <<pc, in_states, reached, in_worklist, worklist, idx, stmt, state, diags>>
  BY CodeIs DEF Borrow!SkipEdge, Borrow!AtEdge
<1>3. idx \in Blocks /\ edge \in Nat \ {0} /\ Flowed(idx, state, edge) /\ Known' = Known
  BY <1>2, EdgeIs, SameRules
<1>4. LoopType' /\ QueueMatchesFlags' /\ Reaching'
  BY <1>1, <1>2, <1>3 DEF LoopType, QueueMatchesFlags, Reaching
<1>5. Settled'
  BY <1>1, <1>2, StillFlows DEF Settled
<1>6. Working'
  <2>1. PICK m : PartWay(m)
    BY <1>2, EdgeIs
  <2>2. PartWay(m)'
    BY <1>2, <1>3, <2>1, StillFlows DEF PartWay
  <2>3. Flowed(idx, state, edge + 1)
    BY <1>2, EdgeIs DEF Flowed
  <2>4. Flowed(idx, state, edge)'
    <3>1. \A n \in 1 .. edge' - 1 :
            n \in DOMAIN Succs(idx) /\ Succs(idx)[n] \in Blocks =>
              reached'[Succs(idx)[n]] /\ state \subseteq in_states'[Succs(idx)[n]]
      BY <1>2, <2>3 DEF Flowed
    <3> QED BY <1>2, <3>1, SameRules DEF Flowed
  <2>5. ~(stmt <= Len(body.stmts[idx]))
    BY <1>2, EdgeIs
  <2> QED BY <1>2, <2>2, <2>4, <2>5 DEF Working
<1>7. Backing'
  <2>1. ASSUME NEW R, Ways(R), Backed(R) PROVE Backed(R)'
    BY <1>2, <2>1 DEF Backed, Meets
  <2> QED BY <1>1, <2>1, BackingKept
<1> QED BY <1>1, <1>4, <1>5, <1>6, <1>7 DEF LoopInv

(* What a join does.                                                       *)
LEMMA JoinFacts ==
  ASSUME LoopInv, NEW b \in Blocks, Borrow!Join(b)
  PROVE  /\ in_states' = [in_states EXCEPT ![b] = @ \cup state]
         /\ reached' = [reached EXCEPT ![b] = TRUE]
         /\ in_worklist' \in [Blocks -> BOOLEAN] /\ worklist' \in Seq(Blocks)
         /\ QueueMatchesFlags'
         /\ \A c \in Blocks : in_worklist[c] => in_worklist'[c]
         /\ \A c \in Blocks : in_worklist'[c] => in_worklist[c] \/ c = b
         /\ \A c \in Blocks : ~in_worklist'[c] => in_states'[c] = in_states[c] /\ reached'[c] = reached[c]
<1>1. LoopType /\ QueueMatchesFlags
  BY DEF LoopInv
<1>2. CASE reached[b] /\ in_states[b] \cup state = in_states[b]
  <2>1. UNCHANGED <<in_states, reached, in_worklist, worklist>>
    BY <1>2 DEF Borrow!Join
  <2>2. in_states = [in_states EXCEPT ![b] = @ \cup state] /\ reached = [reached EXCEPT ![b] = TRUE]
    BY <1>1, <1>2 DEF LoopType
  <2> QED BY <1>1, <2>1, <2>2 DEF LoopType, QueueMatchesFlags
<1>3. CASE ~(reached[b] /\ in_states[b] \cup state = in_states[b])
  <2>1. /\ in_states' = [in_states EXCEPT ![b] = in_states[b] \cup state]
        /\ reached' = [reached EXCEPT ![b] = TRUE]
        /\ in_worklist' = [in_worklist EXCEPT ![b] = TRUE]
        /\ worklist' = IF in_worklist[b] THEN worklist ELSE Append(worklist, b)
    BY <1>3 DEF Borrow!Join, Borrow!Push
  <2>2. worklist \in Seq(Blocks) /\ DOMAIN worklist = 1 .. Len(worklist)
    BY <1>1 DEF LoopType
  <2>3. worklist' \in Seq(Blocks)
    BY <2>1, <2>2
  <2>4. QueueMatchesFlags'
    <3>1. CASE in_worklist[b]
      BY <1>1, <2>1, <3>1 DEF QueueMatchesFlags, LoopType
    <3>2. CASE ~in_worklist[b]
      <4>1. /\ DOMAIN worklist' = 1 .. Len(worklist) + 1
            /\ worklist'[Len(worklist) + 1] = b
            /\ \A n \in DOMAIN worklist : worklist'[n] = worklist[n]
        BY <2>1, <2>2, <3>2
      <4>2. \A n \in DOMAIN worklist : worklist[n] # b
        BY <1>1, <3>2 DEF QueueMatchesFlags
      <4>3. \A m, n \in DOMAIN worklist' : m # n => worklist'[m] # worklist'[n]
        BY <1>1, <2>2, <4>1, <4>2 DEF QueueMatchesFlags
      <4>4. ASSUME NEW c \in Blocks
            PROVE  in_worklist'[c] <=> \E n \in DOMAIN worklist' : worklist'[n] = c
        <5>1. CASE c = b
          <6>1. Len(worklist) + 1 \in DOMAIN worklist'
            BY <2>2, <4>1
          <6> QED BY <1>1, <2>1, <4>1, <5>1, <6>1 DEF LoopType
        <5>2. CASE c # b
          <6>1. in_worklist'[c] <=> in_worklist[c]
            BY <1>1, <2>1, <5>2 DEF LoopType
          <6>2. (\E n \in DOMAIN worklist : worklist[n] = c)
                  <=> \E n \in DOMAIN worklist' : worklist'[n] = c
            BY <2>2, <4>1, <5>2
          <6> QED BY <1>1, <6>1, <6>2 DEF QueueMatchesFlags
        <5> QED BY <5>1, <5>2
      <4> QED BY <4>3, <4>4 DEF QueueMatchesFlags
    <3> QED BY <3>1, <3>2
  <2>5. in_states' = [in_states EXCEPT ![b] = @ \cup state]
    BY <2>1
  <2> QED BY <1>1, <2>1, <2>3, <2>4, <2>5 DEF LoopType
<1> QED BY <1>2, <1>3

(* An edge that carries facts keeps it.                                    *)
LEMMA PropagateKeeps ==
  ASSUME LoopInv, Borrow!Propagate, checker' = checker, body' = body
  PROVE  LoopInv'
<1> DEFINE c == Succs(idx)[edge]
<1>1. /\ LoopType /\ QueueMatchesFlags /\ Reaching /\ Settled /\ Working /\ Backing
      /\ checker \in {"borrow", "magnet"} /\ body \in FactBodies
  BY DEF LoopInv
<1>2. /\ pc = "block" /\ stmt = Len(body.stmts[idx]) + 1 /\ edge <= Len(Succs(idx))
      /\ c \in Blocks /\ Borrow!Join(c) /\ edge' = edge + 1
      /\ UNCHANGED <<pc, idx, stmt, state, diags>>
  BY CodeIs DEF Borrow!Propagate, Borrow!AtEdge
<1>3. idx \in Blocks /\ stmt \in Nat /\ edge \in Nat \ {0} /\ Flowed(idx, state, edge) /\ Known' = Known
      /\ edge \in DOMAIN Succs(idx) /\ state \in SUBSET Known
  BY <1>2, EdgeIs, SameRules
<1> HIDE DEF c
<1>4. /\ in_states' = [in_states EXCEPT ![c] = @ \cup state]
      /\ reached' = [reached EXCEPT ![c] = TRUE]
      /\ in_worklist' \in [Blocks -> BOOLEAN] /\ worklist' \in Seq(Blocks)
      /\ QueueMatchesFlags'
      /\ \A d \in Blocks : in_worklist[d] => in_worklist'[d]
      /\ \A d \in Blocks : in_worklist'[d] => in_worklist[d] \/ d = c
      /\ \A d \in Blocks : ~in_worklist'[d] => in_states'[d] = in_states[d] /\ reached'[d] = reached[d]
  BY <1>2, JoinFacts
<1>5. /\ in_states'[c] = in_states[c] \cup state /\ reached'[c]
      /\ \A d \in Blocks : in_states[d] \subseteq in_states'[d] /\ (reached[d] => reached'[d])
      /\ \A d \in Blocks : d # c => in_states'[d] = in_states[d] /\ reached'[d] = reached[d]
  BY <1>1, <1>2, <1>4 DEF LoopType
<1>6. LoopType'
  <2>1. in_states' \in [Blocks -> SUBSET Known] /\ reached' \in [Blocks -> BOOLEAN]
    BY <1>1, <1>2, <1>3, <1>4 DEF LoopType
  <2> QED BY <1>1, <1>2, <1>3, <1>4, <2>1 DEF LoopType
<1>7. Reaching'
  BY <1>1, <1>2, <1>3, <1>4, <1>5 DEF Reaching
<1>8. Settled'
  <2> SUFFICES ASSUME NEW b \in Blocks, reached'[b], ~in_worklist'[b], b # idx
               PROVE  Through(b)'
    BY <1>2 DEF Settled
  <2>1. reached[b] /\ ~in_worklist[b] /\ in_states'[b] = in_states[b]
    BY <1>4
  <2>2. Through(b)
    BY <1>1, <2>1 DEF Settled
  <2> QED BY <1>2, <1>5, <2>1, <2>2, ThroughKept
<1>9. Working'
  <2>1. PICK m : PartWay(m)
    BY <1>2, EdgeIs
  <2>2. Walk(idx, m, stmt)'
    <3>1. \A n : Walk(idx, m, n) => Walk(idx, m, n)'
      BY <1>2, WalkKept
    <3> QED BY <1>2, <2>1, <3>1 DEF PartWay
  <2>3. PartWay(m)'
    BY <1>2, <1>3, <1>4, <2>1, <2>2 DEF PartWay
  <2>4. Flowed(idx, state, edge)'
    <3>1. \A n \in 1 .. edge' - 1 : n \in 1 .. edge - 1 \/ n = edge
      BY <1>2, <1>3
    <3>2. \A n \in 1 .. edge - 1 :
            n \in DOMAIN Succs(idx) /\ Succs(idx)[n] \in Blocks =>
              reached'[Succs(idx)[n]] /\ state \subseteq in_states'[Succs(idx)[n]]
      BY <1>3, <1>5 DEF Flowed
    <3>3. reached'[Succs(idx)[edge]] /\ state \subseteq in_states'[Succs(idx)[edge]]
      BY <1>5 DEF c
    <3> QED BY <1>2, <3>1, <3>2, <3>3, SameRules DEF Flowed
  <2>5. ~(stmt <= Len(body.stmts[idx]))
    BY <1>2, EdgeIs
  <2> QED BY <1>2, <2>3, <2>4, <2>5 DEF Working
<1>10. Backing'
  <2> SUFFICES ASSUME NEW R, Ways(R), Backed(R) PROVE Backed(R)'
    BY <1>1, BackingKept
  <2>1. Meets(R, idx, stmt, state)
    BY <1>2 DEF Backed
  <2>2. ASSUME NEW p \in R, p[1] = idx, p[2] = stmt PROVE <<c, 1, p[3]>> \in R
    <3>1. ~(p[2] <= Len(body.stmts[p[1]]))
      BY <1>2, <2>2, EdgeIs
    <3> QED BY <1>2, <1>3, <2>2, <3>1 DEF Ways, c
  <2>3. Meets(R, c, 1, state)
    <3>1. \E p \in R : p[1] = c /\ p[2] = 1
      <4>1. PICK p \in R : p[1] = idx /\ p[2] = stmt
        BY <2>1 DEF Meets
      <4>2. <<c, 1, p[3]>> \in R
        BY <2>2, <4>1
      <4> QED BY <4>2
    <3>2. ASSUME NEW f \in state PROVE \E p \in R : p[1] = c /\ p[2] = 1 /\ f \in p[3]
      <4>1. PICK p \in R : p[1] = idx /\ p[2] = stmt /\ f \in p[3]
        BY <2>1 DEF Meets
      <4>2. <<c, 1, p[3]>> \in R
        BY <2>2, <4>1
      <4> QED BY <4>1, <4>2
    <3> QED BY <3>1, <3>2 DEF Meets
  <2>4. ASSUME NEW b \in Blocks, reached'[b] PROVE Meets(R, b, 1, in_states'[b])
    <3>1. CASE b = c
      <4>1. \A f \in in_states[c] : \E p \in R : p[1] = c /\ p[2] = 1 /\ f \in p[3]
        BY <1>1, <1>2 DEF Reaching, Backed, Meets
      <4> QED BY <1>5, <2>3, <3>1, <4>1 DEF Meets
    <3>2. CASE b # c
      BY <1>5, <2>4, <3>2 DEF Backed
    <3> QED BY <3>1, <3>2
  <2>5. \A b \in Blocks : reached'[b] => Meets(R, b, 1, in_states[b])'
    BY <2>4 DEF Meets
  <2> QED BY <1>2, <2>5 DEF Backed, Meets
<1> QED BY <1>1, <1>4, <1>6, <1>7, <1>8, <1>9, <1>10 DEF LoopInv

(* The end of a block keeps it.                                            *)
LEMMA EndKeeps ==
  ASSUME LoopInv, Borrow!EndBlock, checker' = checker, body' = body
  PROVE  LoopInv'
<1>1. /\ LoopType /\ QueueMatchesFlags /\ Reaching /\ Settled /\ Working /\ Backing
      /\ checker \in {"borrow", "magnet"} /\ body \in FactBodies
  BY DEF LoopInv
<1>2. /\ pc = "block" /\ stmt = Len(body.stmts[idx]) + 1 /\ edge = Len(Succs(idx)) + 1
      /\ pc' = "pop"
      /\ UNCHANGED <<in_states, reached, in_worklist, worklist, idx, stmt, edge, state, diags>>
  BY CodeIs DEF Borrow!EndBlock
<1>3. idx \in Blocks /\ Flowed(idx, state, edge) /\ Known' = Known
  BY <1>2, EdgeIs, SameRules
<1>4. LoopType' /\ QueueMatchesFlags' /\ Reaching'
  BY <1>1, <1>2, <1>3 DEF LoopType, QueueMatchesFlags, Reaching
<1>5. Settled'
  <2> SUFFICES ASSUME NEW b \in Blocks, reached[b], ~in_worklist[b] PROVE Through(b)'
    BY <1>2 DEF Settled
  <2>1. CASE b # idx
    BY <1>1, <1>2, <2>1, StillFlows DEF Settled
  <2>2. CASE b = idx
    <3>1. PICK m : PartWay(m)
      BY <1>2, EdgeIs
    <3>2. Through(idx)
      BY <1>2, <1>3, <2>2, <3>1 DEF PartWay, Through
    <3> QED BY <1>2, <1>3, <2>2, <3>2, StillFlows
  <2> QED BY <2>1, <2>2
<1>6. Working'
  BY <1>2 DEF Working
<1>7. Backing'
  <2>1. ASSUME NEW R, Ways(R), Backed(R) PROVE Backed(R)'
    BY <1>2, <2>1 DEF Backed, Meets
  <2> QED BY <1>1, <2>1, BackingKept
<1> QED BY <1>1, <1>4, <1>5, <1>6, <1>7 DEF LoopInv

(* The end of the loop keeps it.                                           *)
LEMMA FinishKeeps ==
  ASSUME LoopInv, Borrow!Finish, checker' = checker, body' = body
  PROVE  LoopInv'
<1>1. /\ LoopType /\ QueueMatchesFlags /\ Reaching /\ Settled /\ Working /\ Backing
      /\ checker \in {"borrow", "magnet"} /\ body \in FactBodies
  BY DEF LoopInv
<1>2. /\ pc = "pop" /\ worklist = <<>> /\ pc' = "done" /\ Known' = Known
      /\ UNCHANGED <<in_states, reached, in_worklist, worklist, idx, stmt, edge, state, diags>>
  BY SameRules DEF Borrow!Finish
<1>3. LoopType' /\ QueueMatchesFlags' /\ Reaching'
  BY <1>1, <1>2 DEF LoopType, QueueMatchesFlags, Reaching
<1>4. Settled'
  BY <1>1, <1>2, StillFlows DEF Settled
<1>5. Working'
  BY <1>2 DEF Working
<1>6. Backing'
  <2>1. ASSUME NEW R, Ways(R), Backed(R) PROVE Backed(R)'
    BY <1>2, <2>1 DEF Backed, Meets
  <2> QED BY <1>1, <2>1, BackingKept
<1> QED BY <1>1, <1>3, <1>4, <1>5, <1>6 DEF LoopInv

(* Every step of the loop keeps it.                                        *)
LEMMA LoopKeeps ==
  ASSUME LoopInv, Loop, checker' = checker, body' = body
  PROVE  LoopInv'
BY PopKeeps, TransfersKeeps, SkipKeeps, PropagateKeeps, EndKeeps, FinishKeeps DEF Loop

-----------------------------------------------------------------------------
(* What the fixpoint is worth.                                             *)

(* The paths of the instances are those of this module.                    *)
LEMMA SamePaths ==
  /\ Borrow!SomePathDoes(body, Borrow!RefsAfter, {}, Borrow!Breaks, PathBound) <=>
       \E p \in PathPositions(body, Borrow!RefsAfter, {}, PathBound) :
         p[2] <= Len(body.stmts[p[1]]) /\ Borrow!Breaks(body.stmts[p[1]][p[2]], p[3])
  /\ Magnet!SomePathDoes(body, Magnet!HandlesAfter, {}, Magnet!Misuses, PathBound) <=>
       \E p \in PathPositions(body, Magnet!HandlesAfter, {}, PathBound) :
         p[2] <= Len(body.stmts[p[1]]) /\ Magnet!Misuses(body.stmts[p[1]][p[2]], p[3])
<1>1. Borrow!PathPositions(body, Borrow!RefsAfter, {}, PathBound) =
        PathPositions(body, Borrow!RefsAfter, {}, PathBound)
  BY DEF Borrow!PathPositions, PathPositions, Borrow!Moves, Moves, Borrow!Entry, Entry,
         Borrow!Blocks, Blocks, Borrow!Successors, Successors
<1>2. Magnet!PathPositions(body, Magnet!HandlesAfter, {}, PathBound) =
        PathPositions(body, Magnet!HandlesAfter, {}, PathBound)
  BY DEF Magnet!PathPositions, PathPositions, Magnet!Moves, Moves, Magnet!Entry, Entry,
         Magnet!Blocks, Blocks, Magnet!Successors, Successors
<1> QED BY <1>1, <1>2 DEF Borrow!SomePathDoes, Magnet!SomePathDoes

(* What a run does next.                                                   *)
LEMMA MoveParts ==
  ASSUME NEW p
  PROVE  /\ Moves(body, Borrow!BorrowTransfer, p) =
              IF p[2] <= Len(body.stmts[p[1]])
              THEN {<<p[1], p[2] + 1, Borrow!BorrowTransfer(body.stmts[p[1]][p[2]], p[3])>>}
              ELSE {<<Succs(p[1])[n], 1, p[3]>> : n \in {m \in DOMAIN Succs(p[1]) : Succs(p[1])[m] \in Blocks}}
         /\ Moves(body, Borrow!RefsAfter, p) =
              IF p[2] <= Len(body.stmts[p[1]])
              THEN {<<p[1], p[2] + 1, Borrow!RefsAfter(body.stmts[p[1]][p[2]], p[3])>>}
              ELSE {<<Succs(p[1])[n], 1, p[3]>> : n \in {m \in DOMAIN Succs(p[1]) : Succs(p[1])[m] \in Blocks}}
         /\ Moves(body, Magnet!MagnetTransfer, p) =
              IF p[2] <= Len(body.stmts[p[1]])
              THEN {<<p[1], p[2] + 1, Magnet!MagnetTransfer(body.stmts[p[1]][p[2]], p[3])>>}
              ELSE {<<Succs(p[1])[n], 1, p[3]>> : n \in {m \in DOMAIN Succs(p[1]) : Succs(p[1])[m] \in Blocks}}
         /\ Moves(body, Magnet!HandlesAfter, p) =
              IF p[2] <= Len(body.stmts[p[1]])
              THEN {<<p[1], p[2] + 1, Magnet!HandlesAfter(body.stmts[p[1]][p[2]], p[3])>>}
              ELSE {<<Succs(p[1])[n], 1, p[3]>> : n \in {m \in DOMAIN Succs(p[1]) : Succs(p[1])[m] \in Blocks}}
BY DEF Moves, Succs

(* Block b was gone through with m[n] known before its statement n, and    *)
(* all of it has arrived.                                                  *)
Full(b, m) ==
  /\ Walk(b, m, Len(body.stmts[b]) + 1) /\ m[1] = in_states[b]
  /\ Flowed(b, m[Len(body.stmts[b]) + 1], Len(Succs(b)) + 1)

(* When the loop ends every reached block was.                             *)
LEMMA AllThrough ==
  ASSUME LoopInv, pc = "done", NEW b \in Blocks, reached[b]
  PROVE  \E m : Full(b, m)
<1>1. worklist = <<>> /\ Settled /\ QueueMatchesFlags
  BY DEF LoopInv, Reaching
<1>2. ~in_worklist[b]
  BY <1>1 DEF QueueMatchesFlags
<1> QED BY <1>1, <1>2 DEF Settled, Through, Full

(* One statement of such a block.                                          *)
LEMMA FullStep ==
  ASSUME LoopInv, NEW b \in Blocks, NEW m, Full(b, m), NEW n \in Nat \ {0},
         n <= Len(body.stmts[b])
  PROVE  /\ n \in 1 .. Len(body.stmts[b]) /\ body.stmts[b][n] \in Stmt
         /\ m[n] \in SUBSET Known /\ m[n + 1] = Learnt(body.stmts[b][n], m[n])
         /\ n + 1 <= Len(body.stmts[b]) + 1
         /\ (Found(body.stmts[b][n], m[n]) # {} => diags # {})
<1>1. Len(body.stmts[b]) \in Nat /\ \A k \in 1 .. Len(body.stmts[b]) : body.stmts[b][k] \in Stmt
  BY InvBody
<1>2. n \in 1 .. Len(body.stmts[b]) /\ n \in 1 .. Len(body.stmts[b]) + 1
      /\ n \in 1 .. (Len(body.stmts[b]) + 1) - 1
  BY <1>1
<1>3. m[n] \in SUBSET Known
  BY <1>2 DEF Full, Walk
<1>4. m[n + 1] = Learnt(body.stmts[b][n], m[n])
  BY <1>2 DEF Full, Walk
<1>5. Found(body.stmts[b][n], m[n]) # {} => diags # {}
  BY <1>2 DEF Full, Walk
<1>6. n + 1 <= Len(body.stmts[b]) + 1
  BY <1>1
<1> QED BY <1>1, <1>2, <1>3, <1>4, <1>5, <1>6

(* An edge out of it: its target knows what arrives.                       *)
LEMMA FullJump ==
  ASSUME LoopInv, pc = "done", NEW b \in Blocks, NEW m, Full(b, m), NEW n \in Nat \ {0},
         n <= Len(body.stmts[b]) + 1, ~(n <= Len(body.stmts[b])), NEW k \in DOMAIN Succs(b),
         Succs(b)[k] \in Blocks
  PROVE  /\ reached[Succs(b)[k]]
         /\ \E w : Full(Succs(b)[k], w) /\ m[n] \subseteq w[1] /\ w[1] \in SUBSET Known
<1>1. Len(body.stmts[b]) \in Nat /\ DOMAIN Succs(b) = 1 .. Len(Succs(b)) /\ Len(Succs(b)) \in Nat
  BY InvBody
<1>2. n = Len(body.stmts[b]) + 1 /\ k \in 1 .. (Len(Succs(b)) + 1) - 1
  BY <1>1
<1>3. reached[Succs(b)[k]] /\ m[n] \subseteq in_states[Succs(b)[k]]
  BY <1>2 DEF Full, Flowed
<1>4. PICK w : Full(Succs(b)[k], w)
  BY <1>3, AllThrough
<1>5. in_states[Succs(b)[k]] \in SUBSET Known
  BY DEF LoopInv, LoopType
<1> QED BY <1>3, <1>4, <1>5 DEF Full

(* Every way stays within the fixpoint.                                    *)
LEMMA WaysWithin ==
  ASSUME LoopInv, pc = "done"
  PROVE  \E S \in SUBSET Positions(Known) :
           /\ Start \in S
           /\ \A p \in S :
                /\ reached[p[1]] /\ (p[2] = 1 => p[3] \subseteq in_states[p[1]])
                /\ IF p[2] <= Len(body.stmts[p[1]])
                   THEN <<p[1], p[2] + 1, Learnt(body.stmts[p[1]][p[2]], p[3])>> \in S
                   ELSE \A n \in DOMAIN Succs(p[1]) :
                          Succs(p[1])[n] \in Blocks => <<Succs(p[1])[n], 1, p[3]>> \in S
<1> DEFINE Fits(p) == /\ reached[p[1]] /\ p[2] <= Len(body.stmts[p[1]]) + 1
                      /\ \E m : Full(p[1], m) /\ p[3] \subseteq m[p[2]]
           S == {p \in Positions(Known) : Fits(p)}
<1>1. Start \in S
  <2>1. Entry \in Blocks /\ reached[Entry]
    BY NBlocksAssumption DEF Entry, Blocks, LoopInv, Reaching
  <2>2. PICK m : Full(Entry, m)
    BY <2>1, AllThrough
  <2>3. 1 <= Len(body.stmts[Entry]) + 1
    BY <2>1, InvBody
  <2>4. Start \in Positions(Known)
    BY <2>1 DEF Start, Positions
  <2> QED BY <2>1, <2>2, <2>3, <2>4 DEF Start
<1>2. ASSUME NEW p \in S
      PROVE  /\ reached[p[1]] /\ (p[2] = 1 => p[3] \subseteq in_states[p[1]])
             /\ IF p[2] <= Len(body.stmts[p[1]])
                THEN <<p[1], p[2] + 1, Learnt(body.stmts[p[1]][p[2]], p[3])>> \in S
                ELSE \A n \in DOMAIN Succs(p[1]) :
                       Succs(p[1])[n] \in Blocks => <<Succs(p[1])[n], 1, p[3]>> \in S
  <2>1. /\ p \in Positions(Known) /\ reached[p[1]] /\ p[2] <= Len(body.stmts[p[1]]) + 1
        /\ p[1] \in Blocks /\ p[2] \in Nat \ {0} /\ p[3] \in SUBSET Known
    BY PositionParts
  <2>2. PICK m : Full(p[1], m) /\ p[3] \subseteq m[p[2]]
    BY <1>2
  <2>3. p[2] = 1 => p[3] \subseteq in_states[p[1]]
    BY <2>2 DEF Full
  <2>4. CASE p[2] <= Len(body.stmts[p[1]])
    <3> DEFINE s == body.stmts[p[1]][p[2]]
               q == <<p[1], p[2] + 1, Learnt(s, p[3])>>
    <3>1. /\ s \in Stmt /\ m[p[2]] \in SUBSET Known /\ m[p[2] + 1] = Learnt(s, m[p[2]])
          /\ p[2] + 1 <= Len(body.stmts[p[1]]) + 1
      BY <2>1, <2>2, <2>4, FullStep
    <3>2. Learnt(s, p[3]) \in SUBSET Known /\ Learnt(s, p[3]) \subseteq m[p[2] + 1]
      BY <2>1, <2>2, <3>1, LearntTyped, LearntMore
    <3> HIDE DEF s
    <3>3. q \in Positions(Known)
      BY <2>1, <3>2 DEF Positions
    <3>4. Fits(q)
      BY <2>1, <2>2, <3>1, <3>2
    <3> QED BY <2>1, <2>3, <2>4, <3>3, <3>4 DEF s
  <2>5. CASE ~(p[2] <= Len(body.stmts[p[1]]))
    <3> SUFFICES ASSUME NEW n \in DOMAIN Succs(p[1]), Succs(p[1])[n] \in Blocks
                 PROVE  <<Succs(p[1])[n], 1, p[3]>> \in S
      BY <2>1, <2>3, <2>5
    <3> DEFINE q == <<Succs(p[1])[n], 1, p[3]>>
    <3>1. PICK w : Full(Succs(p[1])[n], w) /\ m[p[2]] \subseteq w[1] /\ reached[Succs(p[1])[n]]
      BY <2>1, <2>2, <2>5, FullJump
    <3>2. q \in Positions(Known)
      BY <2>1 DEF Positions
    <3>3. 1 <= Len(body.stmts[Succs(p[1])[n]]) + 1
      BY InvBody
    <3>4. Fits(q)
      BY <2>2, <3>1, <3>3
    <3> QED BY <3>2, <3>4
  <2> QED BY <2>4, <2>5
<1> HIDE DEF S
<1>3. S \in SUBSET Positions(Known)
  BY DEF S
<1> QED BY <1>1, <1>2, <1>3

(* A body the borrow checker accepts breaks no reference on any way.       *)
LEMMA RefsWithin ==
  ASSUME LoopInv, pc = "done", checker = "borrow", diags = {}, Borrow!HoldersStayPut
  PROVE  \E S \in SUBSET Positions(Origins) :
           /\ Start \in S /\ Closed(S, Borrow!RefsAfter)
           /\ \A p \in S : p[2] <= Len(body.stmts[p[1]]) => ~Borrow!Breaks(body.stmts[p[1]][p[2]], p[3])
<1> DEFINE Fits(p) == /\ reached[p[1]] /\ p[2] <= Len(body.stmts[p[1]]) + 1 /\ InHolders(p[3])
                      /\ \E m : Full(p[1], m) /\ p[3] \subseteq m[p[2]]
           S == {p \in Positions(Origins) : Fits(p)}
<1>0. Known = Origins /\ body \in Body
  BY FactBodiesAssumption DEF Known, LoopInv
<1>1. Start \in S
  <2>1. Entry \in Blocks /\ reached[Entry]
    BY NBlocksAssumption DEF Entry, Blocks, LoopInv, Reaching
  <2>2. PICK m : Full(Entry, m)
    BY <2>1, AllThrough
  <2>3. 1 <= Len(body.stmts[Entry]) + 1
    BY <2>1, InvBody
  <2>4. Start \in Positions(Origins) /\ InHolders({})
    BY <2>1 DEF Start, Positions, InHolders
  <2> QED BY <2>1, <2>2, <2>3, <2>4 DEF Start
<1>2. ASSUME NEW p \in S
      PROVE  /\ Moves(body, Borrow!RefsAfter, p) \subseteq S
             /\ p[2] <= Len(body.stmts[p[1]]) => ~Borrow!Breaks(body.stmts[p[1]][p[2]], p[3])
  <2>1. /\ p \in Positions(Origins) /\ reached[p[1]] /\ p[2] <= Len(body.stmts[p[1]]) + 1
        /\ InHolders(p[3])
        /\ p[1] \in Blocks /\ p[2] \in Nat \ {0} /\ p[3] \in SUBSET Origins
    BY PositionParts
  <2>2. PICK m : Full(p[1], m) /\ p[3] \subseteq m[p[2]]
    BY <1>2
  <2>3. CASE p[2] <= Len(body.stmts[p[1]])
    <3> DEFINE s == body.stmts[p[1]][p[2]]
               q == <<p[1], p[2] + 1, Borrow!RefsAfter(s, p[3])>>
    <3>1. /\ s \in Stmt /\ m[p[2]] \in SUBSET Known /\ m[p[2] + 1] = Learnt(s, m[p[2]])
          /\ p[2] + 1 <= Len(body.stmts[p[1]]) + 1 /\ p[2] \in DOMAIN body.stmts[p[1]]
      BY <2>1, <2>2, <2>3, FullStep, InvBody, SMTT(40)
    <3>0. Found(s, m[p[2]]) = {}
      BY <2>1, <2>2, <2>3, FullStep
    <3>2. Borrow!RefsAfter(s, p[3]) = Borrow!BorrowTransfer(s, p[3]) /\ InHolders(Borrow!RefsAfter(s, p[3]))
      BY <1>0, <2>1, <3>1, RefsAreOrigins
    <3>3. /\ Borrow!BorrowTransfer(s, p[3]) \in SUBSET Origins
          /\ Borrow!BorrowTransfer(s, p[3]) \subseteq m[p[2] + 1]
      BY <1>0, <2>1, <2>2, <3>1, LearntTyped, LearntMore DEF Learnt
    <3>4. ~Borrow!Breaks(s, p[3])
      <4>1. Borrow!BorrowReports(s, m[p[2]]) = {}
        BY <3>0 DEF Found
      <4>2. ~Borrow!Breaks(s, m[p[2]])
        BY <1>0, <3>1, <4>1, ReportedIsBroken
      <4> QED BY <1>0, <2>1, <2>2, <3>1, <4>2, BreaksByOne
    <3> HIDE DEF s
    <3>5. q \in Positions(Origins)
      BY <2>1, <3>2, <3>3 DEF Positions
    <3>6. Fits(q)
      BY <2>1, <2>2, <3>1, <3>2, <3>3
    <3>7. Moves(body, Borrow!RefsAfter, p) = {q}
      BY <2>3, MoveParts DEF s
    <3> QED BY <3>4, <3>5, <3>6, <3>7 DEF s
  <2>4. CASE ~(p[2] <= Len(body.stmts[p[1]]))
    <3>1. ASSUME NEW n \in DOMAIN Succs(p[1]), Succs(p[1])[n] \in Blocks
          PROVE  <<Succs(p[1])[n], 1, p[3]>> \in S
      <4> DEFINE q == <<Succs(p[1])[n], 1, p[3]>>
      <4>1. PICK w : Full(Succs(p[1])[n], w) /\ m[p[2]] \subseteq w[1] /\ reached[Succs(p[1])[n]]
        BY <2>1, <2>2, <2>4, <3>1, FullJump
      <4>2. q \in Positions(Origins)
        BY <2>1, <3>1 DEF Positions
      <4>3. 1 <= Len(body.stmts[Succs(p[1])[n]]) + 1
        BY <3>1, InvBody
      <4>4. Fits(q)
        BY <2>1, <2>2, <4>1, <4>3
      <4> QED BY <4>2, <4>4
    <3>2. Moves(body, Borrow!RefsAfter, p) =
            {<<Succs(p[1])[n], 1, p[3]>> : n \in {k \in DOMAIN Succs(p[1]) : Succs(p[1])[k] \in Blocks}}
      BY <2>4, MoveParts
    <3> HIDE DEF S
    <3> QED BY <2>4, <3>1, <3>2
  <2> QED BY <2>3, <2>4
<1> HIDE DEF S
<1>3. S \in SUBSET Positions(Origins)
  BY DEF S
<1> QED BY <1>1, <1>2, <1>3 DEF Closed

(* Nor does one the magnet checker accepts misuse a magnet.                *)
LEMMA HandlesWithin ==
  ASSUME MarkersApart, LoopInv, pc = "done", checker = "magnet", diags = {}
  PROVE  \E S \in SUBSET Positions(Handles) :
           /\ Start \in S /\ Closed(S, Magnet!HandlesAfter)
           /\ \A p \in S : p[2] <= Len(body.stmts[p[1]]) => ~Magnet!Misuses(body.stmts[p[1]][p[2]], p[3])
<1> DEFINE Fits(p) == /\ reached[p[1]] /\ p[2] <= Len(body.stmts[p[1]]) + 1
                      /\ \E m : Full(p[1], m) /\ Told(m[p[2]], p[3])
           S == {p \in Positions(Handles) : Fits(p)}
<1>0. Known = MagnetFacts
  BY DEF Known
<1>1. Start \in S
  <2>1. Entry \in Blocks /\ reached[Entry]
    BY NBlocksAssumption DEF Entry, Blocks, LoopInv, Reaching
  <2>2. PICK m : Full(Entry, m)
    BY <2>1, AllThrough
  <2>3. 1 <= Len(body.stmts[Entry]) + 1
    BY <2>1, InvBody
  <2>4. Start \in Positions(Handles) /\ \A F : Told(F, {})
    BY <2>1 DEF Start, Positions, Told
  <2> QED BY <2>1, <2>2, <2>3, <2>4 DEF Start
<1>2. ASSUME NEW p \in S
      PROVE  /\ Moves(body, Magnet!HandlesAfter, p) \subseteq S
             /\ p[2] <= Len(body.stmts[p[1]]) => ~Magnet!Misuses(body.stmts[p[1]][p[2]], p[3])
  <2>1. /\ p \in Positions(Handles) /\ reached[p[1]] /\ p[2] <= Len(body.stmts[p[1]]) + 1
        /\ p[1] \in Blocks /\ p[2] \in Nat \ {0} /\ p[3] \in SUBSET Handles
    BY PositionParts
  <2>2. PICK m : Full(p[1], m) /\ Told(m[p[2]], p[3])
    BY <1>2
  <2>3. CASE p[2] <= Len(body.stmts[p[1]])
    <3> DEFINE s == body.stmts[p[1]][p[2]]
               q == <<p[1], p[2] + 1, Magnet!HandlesAfter(s, p[3])>>
    <3>1. /\ s \in Stmt /\ m[p[2]] \in SUBSET Known /\ m[p[2] + 1] = Learnt(s, m[p[2]])
          /\ p[2] + 1 <= Len(body.stmts[p[1]]) + 1
      BY <2>1, <2>2, <2>3, FullStep
    <3>0. Found(s, m[p[2]]) = {}
      BY <2>1, <2>2, <2>3, FullStep
    <3>2. Magnet!MagnetReports(s, m[p[2]]) = {} /\ m[p[2] + 1] = Magnet!MagnetTransfer(s, m[p[2]])
      BY <3>0, <3>1 DEF Found, Learnt
    <3>3. Told(m[p[2] + 1], Magnet!HandlesAfter(s, p[3])) /\ ~Magnet!Misuses(s, p[3])
      BY <1>0, <2>1, <2>2, <3>1, <3>2, HandlesTold
    <3>4. Magnet!HandlesAfter(s, p[3]) \in SUBSET Handles
      BY <2>1, <3>1, HandlesTyped
    <3> HIDE DEF s
    <3>5. q \in Positions(Handles)
      BY <2>1, <3>4 DEF Positions
    <3>6. Fits(q)
      BY <2>1, <2>2, <3>1, <3>3
    <3>7. Moves(body, Magnet!HandlesAfter, p) = {q}
      BY <2>3, MoveParts DEF s
    <3> QED BY <3>3, <3>5, <3>6, <3>7 DEF s
  <2>4. CASE ~(p[2] <= Len(body.stmts[p[1]]))
    <3>1. ASSUME NEW n \in DOMAIN Succs(p[1]), Succs(p[1])[n] \in Blocks
          PROVE  <<Succs(p[1])[n], 1, p[3]>> \in S
      <4> DEFINE q == <<Succs(p[1])[n], 1, p[3]>>
      <4>1. PICK w : Full(Succs(p[1])[n], w) /\ m[p[2]] \subseteq w[1] /\ reached[Succs(p[1])[n]]
        BY <2>1, <2>2, <2>4, <3>1, FullJump
      <4>2. q \in Positions(Handles)
        BY <2>1, <3>1 DEF Positions
      <4>3. 1 <= Len(body.stmts[Succs(p[1])[n]]) + 1
        BY <3>1, InvBody
      <4>4. Told(w[1], p[3])
        BY <2>2, <4>1 DEF Told
      <4>5. Fits(q)
        BY <4>1, <4>3, <4>4
      <4> QED BY <4>2, <4>5
    <3>2. Moves(body, Magnet!HandlesAfter, p) =
            {<<Succs(p[1])[n], 1, p[3]>> : n \in {k \in DOMAIN Succs(p[1]) : Succs(p[1])[k] \in Blocks}}
      BY <2>4, MoveParts
    <3> HIDE DEF S
    <3> QED BY <2>4, <3>1, <3>2
  <2> QED BY <2>3, <2>4
<1> HIDE DEF S
<1>3. S \in SUBSET Positions(Handles)
  BY DEF S
<1> QED BY <1>1, <1>2, <1>3 DEF Closed

-----------------------------------------------------------------------------
(* The two checkers one after the other.                                   *)

(* UnbrokenWays in terms of Moves.                                         *)
LEMMA UnbrokenWaysAre ==
  ASSUME NEW S
  PROVE  UnbrokenWays(S) <=>
           /\ Start \in S /\ Closed(S, Borrow!RefsAfter)
           /\ \A p \in S : p[2] <= Len(body.stmts[p[1]]) =>
                             ~Borrow!Breaks(body.stmts[p[1]][p[2]], p[3])
<1>1. ASSUME NEW p \in S
      PROVE  Moves(body, Borrow!RefsAfter, p) \subseteq S <=>
               IF p[2] <= Len(body.stmts[p[1]])
               THEN <<p[1], p[2] + 1, Borrow!RefsAfter(body.stmts[p[1]][p[2]], p[3])>> \in S
               ELSE \A n \in DOMAIN Succs(p[1]) :
                      Succs(p[1])[n] \in Blocks => <<Succs(p[1])[n], 1, p[3]>> \in S
  <2>1. CASE p[2] <= Len(body.stmts[p[1]])
    <3>1. Moves(body, Borrow!RefsAfter, p) =
            {<<p[1], p[2] + 1, Borrow!RefsAfter(body.stmts[p[1]][p[2]], p[3])>>}
      BY <2>1, MoveParts
    <3> QED BY <2>1, <3>1
  <2>2. CASE ~(p[2] <= Len(body.stmts[p[1]]))
    <3>1. Moves(body, Borrow!RefsAfter, p) =
            {<<Succs(p[1])[n], 1, p[3]>> : n \in {k \in DOMAIN Succs(p[1]) : Succs(p[1])[k] \in Blocks}}
      BY <2>2, MoveParts
    <3> QED BY <2>2, <3>1
  <2> QED BY <2>1, <2>2
<1> QED BY <1>1 DEF UnbrokenWays, Closed

(* They depend on the body alone.                                          *)
LEMMA SameWays ==
  ASSUME body' = body
  PROVE  /\ \A S : UnbrokenWays(S)' <=> UnbrokenWays(S)
         /\ Borrow!HoldersStayPut' <=> Borrow!HoldersStayPut
<1>1. \A S : UnbrokenWays(S)' <=> UnbrokenWays(S)
  BY DEF UnbrokenWays, Succs
<1>2. Borrow!HoldersStayPut' <=> Borrow!HoldersStayPut
  BY DEF Borrow!HoldersStayPut
<1> QED BY <1>1, <1>2

(* The start of the magnet checker keeps the invariant.                    *)
LEMMA StartKeeps ==
  ASSUME FactInv, StartMagnet
  PROVE  FactInv'
<1>1. LoopInv /\ checker = "borrow" /\ pc = "done" /\ checker' = "magnet" /\ body' = body
      /\ reported' = reported \cup KindsOf(diags) /\ body \in FactBodies
  BY DEF FactInv, StartMagnet, LoopInv
<1>2. Fresh'
  BY <1>1 DEF StartMagnet, Fresh
<1>3. Fresh' => LoopInv'
  BY FreshInv, PTL
<1>4. BorrowsKept'
  <2>1. ASSUME reported' = {}, Borrow!HoldersStayPut
        PROVE  \E S \in SUBSET Positions(Origins) : UnbrokenWays(S)
    <3>1. \A d \in diags : d.kind \in KindsOf(diags)
      BY DEF KindsOf
    <3>2. diags = {}
      BY <1>1, <2>1, <3>1
    <3> QED BY <1>1, <2>1, <3>2, RefsWithin, UnbrokenWaysAre
  <2> QED BY <1>1, <2>1, SameWays DEF BorrowsKept
<1> QED BY <1>2, <1>3, <1>4 DEF FactInv

(* Its steps do not touch what the borrow checker found.                   *)
LEMMA BorrowsStayKept ==
  ASSUME BorrowsKept, checker' = checker, reported' = reported, body' = body
  PROVE  BorrowsKept'
BY SameWays DEF BorrowsKept

(* A check starts with the invariant,                                      *)
LEMMA FactInvInit == CheckInit => FactInv
<1> SUFFICES ASSUME CheckInit PROVE FactInv
  OBVIOUS
<1>1. Fresh
  BY SameMir DEF CheckInit, Borrow!Init, Fresh
<1> QED BY <1>1, FreshInv DEF FactInv, BorrowsKept, CheckInit

(* every step keeps it,                                                    *)
LEMMA FactInvNext ==
  ASSUME FactInv, [CheckNext]_<<checker, reported, loop>>
  PROVE  FactInv'
<1>1. CASE CheckBorrow \/ CheckMagnet
  <2>1. Loop /\ checker' = checker /\ reported' = reported /\ body' = body
    BY <1>1, OneLoop
  <2> QED BY <2>1, LoopKeeps, BorrowsStayKept DEF FactInv
<1>2. CASE StartMagnet
  BY <1>2, StartKeeps
<1>3. CASE UNCHANGED <<checker, reported, loop>>
  <2>1. checker' = checker /\ reported' = reported /\ body' = body
        /\ UNCHANGED <<pc, in_states, reached, in_worklist, worklist, idx, stmt, edge, state, diags>>
    BY <1>3 DEF loop
  <2>2. /\ LoopType /\ QueueMatchesFlags /\ Reaching /\ Settled /\ Working /\ Backing
        /\ checker \in {"borrow", "magnet"} /\ body \in FactBodies /\ LoopInv /\ BorrowsKept
    BY DEF FactInv, LoopInv
  <2>3. Known' = Known
    BY <2>1, SameRules
  <2>4. LoopType' /\ QueueMatchesFlags' /\ Reaching'
    BY <2>1, <2>2, <2>3 DEF LoopType, QueueMatchesFlags, Reaching
  <2>5. Settled'
    BY <2>1, <2>2, StillFlows DEF Settled
  <2>6. Working'
    <3> SUFFICES ASSUME pc = "block" PROVE Working'
      BY <2>1 DEF Working
    <3>1. idx \in Blocks /\ Flowed(idx, state, edge) /\ (stmt <= Len(body.stmts[idx]) => edge = 1)
      BY <2>2 DEF LoopType, Working
    <3>2. PICK m : PartWay(m)
      BY <2>2 DEF Working
    <3>3. PartWay(m)' /\ Flowed(idx, state, edge)'
      BY <2>1, <2>2, <3>1, <3>2, StillFlows DEF PartWay
    <3> QED BY <2>1, <3>1, <3>3 DEF Working
  <2>7. Backing'
    <3>1. ASSUME NEW R, Ways(R), Backed(R) PROVE Backed(R)'
      BY <2>1, <3>1 DEF Backed, Meets
    <3> QED BY <2>1, <2>2, <3>1, BackingKept
  <2>8. BorrowsKept'
    BY <2>1, <2>2, BorrowsStayKept
  <2> QED BY <2>1, <2>2, <2>4, <2>5, <2>6, <2>7, <2>8 DEF FactInv, LoopInv
<1> QED BY <1>1, <1>2, <1>3 DEF CheckNext

(* so it always holds.                                                     *)
LEMMA FactInvHolds == CheckSpec => []FactInv
<1>1. CheckInit => FactInv
  BY FactInvInit
<1>2. FactInv /\ [CheckNext]_<<checker, reported, loop>> => FactInv'
  BY FactInvNext
<1> QED BY <1>1, <1>2, PTL DEF CheckSpec

(* Whatever the bodies, the variables of both checkers keep their shapes,  *)
(* the worklist and its flags agree, and facts are known of reached blocks *)
(* only (check_borrow and check_magnet, CheckTypeOK).                      *)
THEOREM FactsTyped == CheckSpec => []CheckTypeOK
<1>1. FactInv => CheckTypeOK
  <2> SUFFICES ASSUME FactInv PROVE CheckTypeOK
    OBVIOUS
  <2>1. LoopType /\ QueueMatchesFlags /\ Reaching
    BY DEF FactInv, LoopInv
  <2>2. checker = "borrow" => Borrow!TypeOK
    BY <2>1, SameMir DEF LoopType, QueueMatchesFlags, Reaching, Known, Origins, Borrow!TypeOK
  <2>3. checker = "magnet" => Magnet!TypeOK
    BY <2>1, SameMir DEF LoopType, QueueMatchesFlags, Reaching, Known, MagnetFacts, Magnet!TypeOK
  <2> QED BY <2>2, <2>3 DEF CheckTypeOK
<1> QED BY <1>1, FactInvHolds, PTL

(* A body both checkers accept without a report breaks none of its         *)
(* borrows, unless it copies their holders, and misuses none of its        *)
(* magnets, on no path of any length: check_borrow's and check_magnet's    *)
(* silence is to be believed (AcceptedFactsHold).                          *)
THEOREM AcceptedFacts ==
  ASSUME FactConstants
  PROVE  CheckSpec => []AcceptedFactsHold
<1>1. FactInv => AcceptedFactsHold
  <2> SUFFICES ASSUME FactInv, checker = "magnet", pc = "done", reported \cup KindsOf(diags) = {}
               PROVE  /\ Borrow!HoldersStayPut =>
                           ~Borrow!SomePathDoes(body, Borrow!RefsAfter, {}, Borrow!Breaks, PathBound)
                      /\ ~Magnet!SomePathDoes(body, Magnet!HandlesAfter, {}, Magnet!Misuses, PathBound)
    BY DEF AcceptedFactsHold, Magnet!AcceptedMagnetsHold
  <2>1. diags = {} /\ reported = {}
    <3>1. \A d \in diags : d.kind \in KindsOf(diags)
      BY DEF KindsOf
    <3> QED BY <3>1
  <2>2. LoopInv /\ BorrowsKept /\ body \in Body /\ PathBound \in Nat /\ MarkersApart
    BY FactBodiesAssumption DEF FactInv, LoopInv, FactConstants, MarkersApart, Markers
  <2>3. ASSUME Borrow!HoldersStayPut
        PROVE  ~Borrow!SomePathDoes(body, Borrow!RefsAfter, {}, Borrow!Breaks, PathBound)
    <3>1. PICK S \in SUBSET Positions(Origins) :
                 /\ Start \in S /\ Closed(S, Borrow!RefsAfter)
                 /\ \A p \in S : p[2] <= Len(body.stmts[p[1]]) =>
                                   ~Borrow!Breaks(body.stmts[p[1]][p[2]], p[3])
      BY <2>1, <2>2, <2>3, UnbrokenWaysAre DEF BorrowsKept
    <3>2. PathPositions(body, Borrow!RefsAfter, {}, PathBound) \subseteq S
      BY <2>2, <3>1, RefsTyped, RefPaths
    <3> QED BY <3>1, <3>2, SamePaths
  <2>4. ~Magnet!SomePathDoes(body, Magnet!HandlesAfter, {}, Magnet!Misuses, PathBound)
    <3>1. PICK S \in SUBSET Positions(Handles) :
                 /\ Start \in S /\ Closed(S, Magnet!HandlesAfter)
                 /\ \A p \in S : p[2] <= Len(body.stmts[p[1]]) =>
                                   ~Magnet!Misuses(body.stmts[p[1]][p[2]], p[3])
      BY <2>1, <2>2, HandlesWithin
    <3>2. PathPositions(body, Magnet!HandlesAfter, {}, PathBound) \subseteq S
      BY <2>2, <3>1, HandlesTyped, HandlePaths
    <3> QED BY <3>1, <3>2, SamePaths
  <2> QED BY <2>3, <2>4
<1> QED BY <1>1, FactInvHolds, PTL

(* What walks that are long enough come to is closed,                      *)
LEMMA CoveredIsClosed ==
  ASSUME PathsCovered, body \in FactBodies
  PROVE  /\ Closed(PathPositions(body, Borrow!BorrowTransfer, {}, PathBound), Borrow!BorrowTransfer)
         /\ Closed(PathPositions(body, Borrow!RefsAfter, {}, PathBound), Borrow!RefsAfter)
         /\ Closed(PathPositions(body, Magnet!MagnetTransfer, {}, PathBound), Magnet!MagnetTransfer)
BY DEF PathsCovered, Covered, Closed

(* so it holds ways, for the borrow checker's facts,                       *)
LEMMA OriginWays ==
  ASSUME FactConstants, PathsCovered, body \in FactBodies, checker = "borrow"
  PROVE  Ways(PathPositions(body, Borrow!BorrowTransfer, {}, PathBound))
<1> DEFINE R == PathPositions(body, Borrow!BorrowTransfer, {}, PathBound)
<1>1. body \in Body /\ PathBound \in Nat /\ Known = Origins
  BY FactBodiesAssumption DEF FactConstants, Known
<1>2. Start \in R /\ R \subseteq Positions(Origins)
  BY <1>1, OriginsTyped, OriginPaths
<1>3. \A p \in R : Moves(body, Borrow!BorrowTransfer, p) \subseteq R
  BY CoveredIsClosed DEF Closed
<1> HIDE DEF R
<1>4. ASSUME NEW p \in R
      PROVE  IF p[2] <= Len(body.stmts[p[1]])
             THEN <<p[1], p[2] + 1, Learnt(body.stmts[p[1]][p[2]], p[3])>> \in R
             ELSE \A n \in DOMAIN Succs(p[1]) : Succs(p[1])[n] \in Blocks => <<Succs(p[1])[n], 1, p[3]>> \in R
  BY <1>3, MoveParts DEF Learnt
<1> QED BY <1>1, <1>2, <1>4 DEF Ways, R

(* and for the magnet checker's.                                           *)
LEMMA MagnetWays ==
  ASSUME FactConstants, PathsCovered, body \in FactBodies, checker = "magnet"
  PROVE  Ways(PathPositions(body, Magnet!MagnetTransfer, {}, PathBound))
<1> DEFINE R == PathPositions(body, Magnet!MagnetTransfer, {}, PathBound)
<1>1. body \in Body /\ PathBound \in Nat /\ Known = MagnetFacts
  BY FactBodiesAssumption DEF FactConstants, Known
<1>2. Start \in R /\ R \subseteq Positions(MagnetFacts)
  BY <1>1, MagnetsTyped, MagnetPaths
<1>3. \A p \in R : Moves(body, Magnet!MagnetTransfer, p) \subseteq R
  BY CoveredIsClosed DEF Closed
<1> HIDE DEF R
<1>4. ASSUME NEW p \in R
      PROVE  IF p[2] <= Len(body.stmts[p[1]])
             THEN <<p[1], p[2] + 1, Learnt(body.stmts[p[1]][p[2]], p[3])>> \in R
             ELSE \A n \in DOMAIN Succs(p[1]) : Succs(p[1])[n] \in Blocks => <<Succs(p[1])[n], 1, p[3]>> \in R
  BY <1>3, MoveParts DEF Learnt
<1> QED BY <1>1, <1>2, <1>4 DEF Ways, R

(* Runs of bodies that copy no holder: their references are ways too.      *)
LEMMA RefWays ==
  ASSUME FactConstants, PathsCovered, body \in FactBodies, checker = "borrow", Borrow!HoldersStayPut
  PROVE  Ways(PathPositions(body, Borrow!RefsAfter, {}, PathBound))
<1> DEFINE R == PathPositions(body, Borrow!RefsAfter, {}, PathBound)
           S == {p \in Positions(Origins) : InHolders(p[3]) /\ p[2] <= Len(body.stmts[p[1]]) + 1}
<1>1. body \in Body /\ PathBound \in Nat /\ Known = Origins
  BY FactBodiesAssumption DEF FactConstants, Known
<1>2. /\ Start \in R /\ R \subseteq Positions(Origins)
      /\ \A T \in SUBSET Positions(Origins) : Start \in T /\ Closed(T, Borrow!RefsAfter) => R \subseteq T
  BY <1>1, RefsTyped, RefPaths
<1>3. \A p \in R : Moves(body, Borrow!RefsAfter, p) \subseteq R
  BY CoveredIsClosed DEF Closed
<1> HIDE DEF R
<1>4. R \subseteq S
  <2>1. Start \in S
    <3>1. Entry \in Blocks
      BY NBlocksAssumption DEF Entry, Blocks
    <3>2. 1 <= Len(body.stmts[Entry]) + 1
      BY <1>1, <3>1, BodyParts
    <3> QED BY <3>1, <3>2 DEF Start, Positions, InHolders
  <2>2. ASSUME NEW p \in S PROVE Moves(body, Borrow!RefsAfter, p) \subseteq S
    <3>1. /\ p \in Positions(Origins) /\ InHolders(p[3]) /\ p[2] <= Len(body.stmts[p[1]]) + 1
          /\ p[1] \in Blocks /\ p[2] \in Nat \ {0} /\ p[3] \in SUBSET Origins
      BY PositionParts
    <3>2. Len(body.stmts[p[1]]) \in Nat /\ DOMAIN body.stmts[p[1]] = 1 .. Len(body.stmts[p[1]])
          /\ \A n \in 1 .. Len(body.stmts[p[1]]) : body.stmts[p[1]][n] \in Stmt
      BY <1>1, <3>1, BodyParts
    <3>3. CASE p[2] <= Len(body.stmts[p[1]])
      <4> DEFINE s == body.stmts[p[1]][p[2]]
                 q == <<p[1], p[2] + 1, Borrow!RefsAfter(s, p[3])>>
      <4>1. p[2] \in DOMAIN body.stmts[p[1]] /\ s \in Stmt /\ p[2] + 1 <= Len(body.stmts[p[1]]) + 1
        BY <3>1, <3>2, <3>3
      <4>2. InHolders(Borrow!RefsAfter(s, p[3]))
        BY <1>1, <3>1, <4>1, RefsAreOrigins
      <4>3. Borrow!RefsAfter(s, p[3]) \in SUBSET Origins
        BY <3>1, <4>1, RefsTyped
      <4> HIDE DEF s
      <4>4. q \in S
        BY <3>1, <4>1, <4>2, <4>3 DEF Positions
      <4>5. Moves(body, Borrow!RefsAfter, p) = {q}
        BY <3>3, MoveParts DEF s
      <4> QED BY <4>4, <4>5
    <3>4. CASE ~(p[2] <= Len(body.stmts[p[1]]))
      <4>1. ASSUME NEW n \in DOMAIN Succs(p[1]), Succs(p[1])[n] \in Blocks
            PROVE  <<Succs(p[1])[n], 1, p[3]>> \in S
        <5>1. 1 <= Len(body.stmts[Succs(p[1])[n]]) + 1
          BY <1>1, <4>1, BodyParts
        <5> QED BY <3>1, <4>1, <5>1 DEF Positions
      <4>2. Moves(body, Borrow!RefsAfter, p) =
              {<<Succs(p[1])[n], 1, p[3]>> : n \in {k \in DOMAIN Succs(p[1]) : Succs(p[1])[k] \in Blocks}}
        BY <3>4, MoveParts
      <4> HIDE DEF S
      <4> QED BY <4>1, <4>2
    <3> QED BY <3>3, <3>4
  <2> HIDE DEF S
  <2>3. S \in SUBSET Positions(Origins)
    BY DEF S
  <2> QED BY <1>2, <2>1, <2>2, <2>3 DEF Closed
<1>5. ASSUME NEW p \in R
      PROVE  IF p[2] <= Len(body.stmts[p[1]])
             THEN <<p[1], p[2] + 1, Learnt(body.stmts[p[1]][p[2]], p[3])>> \in R
             ELSE \A n \in DOMAIN Succs(p[1]) : Succs(p[1])[n] \in Blocks => <<Succs(p[1])[n], 1, p[3]>> \in R
  <2>1. /\ InHolders(p[3]) /\ p[1] \in Blocks /\ p[2] \in Nat \ {0} /\ p[3] \in SUBSET Origins
    BY <1>4, PositionParts
  <2>2. CASE p[2] <= Len(body.stmts[p[1]])
    <3>1. p[2] \in DOMAIN body.stmts[p[1]]
      BY <1>1, <2>1, <2>2, BodyParts
    <3>2. Borrow!RefsAfter(body.stmts[p[1]][p[2]], p[3]) = Borrow!BorrowTransfer(body.stmts[p[1]][p[2]], p[3])
      BY <1>1, <2>1, <3>1, RefsAreOrigins
    <3> QED BY <1>3, <2>2, <3>2, MoveParts DEF Learnt
  <2>3. CASE ~(p[2] <= Len(body.stmts[p[1]]))
    BY <1>3, <2>3, MoveParts
  <2> QED BY <2>2, <2>3
<1> QED BY <1>1, <1>2, <1>5 DEF Ways, R

(* What is known where the loop ends is what the ways bring.               *)
LEMMA FixpointIsWays ==
  ASSUME LoopInv, pc = "done", NEW R, Ways(R), NEW b \in Blocks,
         \A S \in SUBSET Positions(Known) :
           Start \in S /\ (\A p \in S :
                IF p[2] <= Len(body.stmts[p[1]])
                THEN <<p[1], p[2] + 1, Learnt(body.stmts[p[1]][p[2]], p[3])>> \in S
                ELSE \A n \in DOMAIN Succs(p[1]) :
                       Succs(p[1])[n] \in Blocks => <<Succs(p[1])[n], 1, p[3]>> \in S)
           => R \subseteq S
  PROVE  LET here == {p \in {q \in R : q[2] = 1} : p[1] = b}
         IN  /\ reached[b] <=> here # {}
             /\ in_states[b] = UNION {p[3] : p \in here}
<1> DEFINE here == {p \in {q \in R : q[2] = 1} : p[1] = b}
<1>1. PICK S \in SUBSET Positions(Known) :
           /\ Start \in S
           /\ \A p \in S :
                /\ reached[p[1]] /\ (p[2] = 1 => p[3] \subseteq in_states[p[1]])
                /\ IF p[2] <= Len(body.stmts[p[1]])
                   THEN <<p[1], p[2] + 1, Learnt(body.stmts[p[1]][p[2]], p[3])>> \in S
                   ELSE \A n \in DOMAIN Succs(p[1]) :
                          Succs(p[1])[n] \in Blocks => <<Succs(p[1])[n], 1, p[3]>> \in S
  BY WaysWithin
<1>2. R \subseteq S
  BY <1>1
<1>3. \A p \in here : reached[b] /\ p[3] \subseteq in_states[b]
  BY <1>1, <1>2
<1>4. Backed(R) /\ (in_states[b] # {} => reached[b])
  BY DEF LoopInv, Backing, Reaching
<1>5. reached[b] => here # {}
  BY <1>4 DEF Backed, Meets
<1>6. \A f \in in_states[b] : \E p \in here : f \in p[3]
  BY <1>4 DEF Backed, Meets
<1> HIDE DEF here
<1>7. (reached[b] <=> here # {}) /\ in_states[b] = UNION {p[3] : p \in here}
  BY <1>3, <1>5, <1>6
<1> QED BY <1>7 DEF here

(* When a checker's loop ends, the blocks marked reached are the ones      *)
(* paths lead to and each in-state is exactly the union of what the paths  *)
(* bring, in every body, with any loops and joins, whose paths the bound   *)
(* covers (FactsOfAllPaths).                                               *)
THEOREM FactsAreOfAllPaths ==
  ASSUME FactConstants, PathsCovered
  PROVE  CheckSpec => []FactsOfAllPaths
<1>1. FactInv => FactsOfAllPaths
  <2> SUFFICES ASSUME FactInv, pc = "done"
               PROVE  /\ checker = "borrow" => MeetOverPaths(Borrow!BorrowTransfer)
                      /\ checker = "magnet" => MeetOverPaths(Magnet!MagnetTransfer)
    BY DEF FactsOfAllPaths, MeetOverPaths
  <2>1. LoopInv /\ body \in FactBodies /\ body \in Body /\ PathBound \in Nat
    BY FactBodiesAssumption DEF FactInv, LoopInv, FactConstants
  <2>2. ASSUME checker = "borrow" PROVE MeetOverPaths(Borrow!BorrowTransfer)
    <3> DEFINE R == PathPositions(body, Borrow!BorrowTransfer, {}, PathBound)
    <3>1. Ways(R) /\ Known = Origins
      BY <2>1, <2>2, OriginWays DEF Known
    <3>2. \A S \in SUBSET Positions(Origins) :
            Start \in S /\ Closed(S, Borrow!BorrowTransfer) => R \subseteq S
      BY <2>1, OriginsTyped, OriginPaths
    <3> HIDE DEF R
    <3>3. ASSUME NEW S \in SUBSET Positions(Known), Start \in S,
                 \A p \in S :
                   IF p[2] <= Len(body.stmts[p[1]])
                   THEN <<p[1], p[2] + 1, Learnt(body.stmts[p[1]][p[2]], p[3])>> \in S
                   ELSE \A n \in DOMAIN Succs(p[1]) :
                          Succs(p[1])[n] \in Blocks => <<Succs(p[1])[n], 1, p[3]>> \in S
          PROVE  R \subseteq S
      <4>1. ASSUME NEW p \in S PROVE Moves(body, Borrow!BorrowTransfer, p) \subseteq S
        <5>1. CASE p[2] <= Len(body.stmts[p[1]])
          <6>1. <<p[1], p[2] + 1, Learnt(body.stmts[p[1]][p[2]], p[3])>> \in S
            BY <3>3, <4>1, <5>1
          <6>2. Learnt(body.stmts[p[1]][p[2]], p[3]) =
                  Borrow!BorrowTransfer(body.stmts[p[1]][p[2]], p[3])
            BY <2>2 DEF Learnt
          <6>3. Moves(body, Borrow!BorrowTransfer, p) =
                  {<<p[1], p[2] + 1, Borrow!BorrowTransfer(body.stmts[p[1]][p[2]], p[3])>>}
            BY <5>1, MoveParts
          <6> QED BY <6>1, <6>2, <6>3
        <5>2. CASE ~(p[2] <= Len(body.stmts[p[1]]))
          <6>1. \A n \in DOMAIN Succs(p[1]) :
                  Succs(p[1])[n] \in Blocks => <<Succs(p[1])[n], 1, p[3]>> \in S
            BY <3>3, <4>1, <5>2
          <6>2. Moves(body, Borrow!BorrowTransfer, p) =
                  {<<Succs(p[1])[n], 1, p[3]>> : n \in {k \in DOMAIN Succs(p[1]) : Succs(p[1])[k] \in Blocks}}
            BY <5>2, MoveParts
          <6> QED BY <6>1, <6>2
        <5> QED BY <5>1, <5>2
      <4> QED BY <3>1, <3>2, <3>3, <4>1 DEF Closed
    <3>4. \A b \in Blocks :
            LET here == {p \in {q \in R : q[2] = 1} : p[1] = b}
            IN  (reached[b] <=> here # {}) /\ in_states[b] = UNION {p[3] : p \in here}
      BY <2>1, <3>1, <3>3, FixpointIsWays
    <3> QED BY <3>4 DEF MeetOverPaths, R
  <2>3. ASSUME checker = "magnet" PROVE MeetOverPaths(Magnet!MagnetTransfer)
    <3> DEFINE R == PathPositions(body, Magnet!MagnetTransfer, {}, PathBound)
    <3>1. Ways(R) /\ Known = MagnetFacts
      BY <2>1, <2>3, MagnetWays DEF Known
    <3>2. \A S \in SUBSET Positions(MagnetFacts) :
            Start \in S /\ Closed(S, Magnet!MagnetTransfer) => R \subseteq S
      BY <2>1, MagnetsTyped, MagnetPaths
    <3> HIDE DEF R
    <3>3. ASSUME NEW S \in SUBSET Positions(Known), Start \in S,
                 \A p \in S :
                   IF p[2] <= Len(body.stmts[p[1]])
                   THEN <<p[1], p[2] + 1, Learnt(body.stmts[p[1]][p[2]], p[3])>> \in S
                   ELSE \A n \in DOMAIN Succs(p[1]) :
                          Succs(p[1])[n] \in Blocks => <<Succs(p[1])[n], 1, p[3]>> \in S
          PROVE  R \subseteq S
      <4>1. ASSUME NEW p \in S PROVE Moves(body, Magnet!MagnetTransfer, p) \subseteq S
        <5>1. CASE p[2] <= Len(body.stmts[p[1]])
          <6>1. <<p[1], p[2] + 1, Learnt(body.stmts[p[1]][p[2]], p[3])>> \in S
            BY <3>3, <4>1, <5>1
          <6>2. Learnt(body.stmts[p[1]][p[2]], p[3]) =
                  Magnet!MagnetTransfer(body.stmts[p[1]][p[2]], p[3])
            BY <2>3 DEF Learnt
          <6>3. Moves(body, Magnet!MagnetTransfer, p) =
                  {<<p[1], p[2] + 1, Magnet!MagnetTransfer(body.stmts[p[1]][p[2]], p[3])>>}
            BY <5>1, MoveParts
          <6> QED BY <6>1, <6>2, <6>3
        <5>2. CASE ~(p[2] <= Len(body.stmts[p[1]]))
          <6>1. \A n \in DOMAIN Succs(p[1]) :
                  Succs(p[1])[n] \in Blocks => <<Succs(p[1])[n], 1, p[3]>> \in S
            BY <3>3, <4>1, <5>2
          <6>2. Moves(body, Magnet!MagnetTransfer, p) =
                  {<<Succs(p[1])[n], 1, p[3]>> : n \in {k \in DOMAIN Succs(p[1]) : Succs(p[1])[k] \in Blocks}}
            BY <5>2, MoveParts
          <6> QED BY <6>1, <6>2
        <5> QED BY <5>1, <5>2
      <4> QED BY <3>1, <3>2, <3>3, <4>1 DEF Closed
    <3>4. \A b \in Blocks :
            LET here == {p \in {q \in R : q[2] = 1} : p[1] = b}
            IN  (reached[b] <=> here # {}) /\ in_states[b] = UNION {p[3] : p \in here}
      BY <2>1, <3>1, <3>3, FixpointIsWays
    <3> QED BY <3>4 DEF MeetOverPaths, R
  <2> QED BY <2>2, <2>3
<1> QED BY <1>1, FactInvHolds, PTL

(* On a body that does not copy holders check_borrow reports something     *)
(* exactly when some path breaks a borrow: no false alarm and no miss, in  *)
(* every body whose paths the bound covers (BorrowVerdict).                *)
THEOREM BorrowsJudged ==
  ASSUME FactConstants, PathsCovered
  PROVE  CheckSpec => []BorrowVerdict
<1>1. FactInv => BorrowVerdict
  <2> SUFFICES ASSUME FactInv, checker = "borrow", pc = "done", Borrow!HoldersStayPut
               PROVE  diags # {} <=>
                        Borrow!SomePathDoes(body, Borrow!RefsAfter, {}, Borrow!Breaks, PathBound)
    BY DEF BorrowVerdict, Borrow!BorrowVerdictExact
  <2> DEFINE R == PathPositions(body, Borrow!RefsAfter, {}, PathBound)
             Broken == \E p \in R : p[2] <= Len(body.stmts[p[1]]) /\
                                    Borrow!Breaks(body.stmts[p[1]][p[2]], p[3])
  <2>1. LoopInv /\ body \in FactBodies /\ body \in Body /\ PathBound \in Nat
    BY FactBodiesAssumption DEF FactInv, LoopInv, FactConstants
  <2>2. Ways(R)
    BY <2>1, RefWays
  <2>3. \A S \in SUBSET Positions(Origins) : Start \in S /\ Closed(S, Borrow!RefsAfter) => R \subseteq S
    BY <2>1, RefsTyped, RefPaths
  <2> HIDE DEF R
  <2>4. diags # {} => Broken
    BY <2>1, <2>2 DEF LoopInv, Backing, Backed
  <2>5. diags = {} => ~Broken
    <3> SUFFICES ASSUME diags = {} PROVE ~Broken
      OBVIOUS
    <3>1. PICK S \in SUBSET Positions(Origins) :
                 /\ Start \in S /\ Closed(S, Borrow!RefsAfter)
                 /\ \A p \in S : p[2] <= Len(body.stmts[p[1]]) =>
                                   ~Borrow!Breaks(body.stmts[p[1]][p[2]], p[3])
      BY <2>1, RefsWithin
    <3> QED BY <2>3, <3>1
  <2> QED BY <2>4, <2>5, SamePaths DEF R
<1> QED BY <1>1, FactInvHolds, PTL
=============================================================================
