---------------------------- MODULE BorrowCheck ----------------------------
(***************************************************************************)
(* check_borrow (src/check/borrow.rs): FactFlow over borrow origins.  A    *)
(* fact says that `holder` may hold a borrow of `owner`.                   *)
(***************************************************************************)
EXTENDS MirPaths, Worklist

CONSTANT Bodies

VARIABLE reached

BorrowFacts == [holder : Locals, owner : Locals, is_mut : BOOLEAN]

Without(F, h) == {f \in F : f.holder # h}

(* What is still known once the holder s writes, if it does, is forgotten. *)
Surviving(F, s) ==
  IF s.op \in {"assign", "call", "live", "dead"} THEN Without(F, s.dest) ELSE F

HasAny(F, owner) == \E f \in F : f.owner = owner

HasMut(F, owner) == \E f \in F : f.owner = owner /\ f.is_mut

(* The exclusive uses of a place: a mutable borrow or attachment of it.    *)
Exclusive == {"borrow_mut", "attach_mut"}

(* transfer_stmt and handle_rvalue: only a Borrow rvalue adds an origin.   *)
BorrowTransfer(s, F) ==
  Surviving(F, s) \cup
    (IF s.op = "assign" /\ s.how \in {"borrow", "borrow_mut"}
     THEN {[holder |-> s.dest, owner |-> s.args[1], is_mut |-> s.how = "borrow_mut"]}
     ELSE {})

MutSharedIgnoresMut(F, how, owner) ==
  how \in Exclusive /\ HasAny(F, owner)

(* May the place be borrowed, or a magnet attached to it, this way?        *)
Conflicts(F, how, owner) ==
  IF how \in Exclusive THEN HasAny(F, owner) ELSE HasMut(F, owner)

(* The destination is checked after its own old borrow is forgotten, the   *)
(* end of a local's storage before.                                        *)
BorrowReports(s, F) ==
  LET G == Surviving(F, s)
  IN  {k \in {"EImmutableMutate", "EMutableAlias", "EMoveWhileBorrowed"} :
         CASE k = "EImmutableMutate" ->
                s.op \in {"assign", "call"} /\ HasAny(G, s.dest)
           [] k = "EMutableAlias" ->
                /\ s.op = "assign"
                /\ s.how \in Exclusive \cup {"borrow", "attach"}
                /\ Conflicts(G, s.how, s.args[1])
           [] k = "EMoveWhileBorrowed" ->
                \/ s.op \in {"dead", "drop"} /\ HasAny(F, s.dest)
                \/ IsMove(s) /\ HasAny(G, s.args[1])}

INSTANCE FactFlow WITH Facts <- BorrowFacts, Transfer <- BorrowTransfer,
                       Reports <- BorrowReports
-----------------------------------------------------------------------------
(***************************************************************************)
(* The reference: what a run's locals refer to.  Copying or moving a       *)
(* holder copies what it refers to.                                        *)
(***************************************************************************)
RefsAfter(s, refs) ==
  LET kept == {r \in refs : r.holder # s.dest}
  IN  CASE s.op = "assign" /\ s.how \in {"borrow", "borrow_mut"} ->
             kept \cup {[holder |-> s.dest, owner |-> s.args[1],
                         is_mut |-> s.how = "borrow_mut"]}
        [] s.op = "assign" /\ s.how \in {"use", "move"} ->
             kept \cup {[r EXCEPT !.holder = s.dest] :
                          r \in {q \in refs : q.holder = s.args[1]}}
        [] s.op \in {"assert", "drop"} -> refs
        [] OTHER -> kept

(* Statement s takes something away from a reference that outlives it:     *)
(* the owner is overwritten, moved, dropped or loses its storage, or it is *)
(* aliased against a mutable reference.                                    *)
Breaks(s, refs) ==
  LET others == {r \in refs : r.holder # s.dest \/ s.op \in {"dead", "drop"}}
      aliased(o) == {r \in others : r.owner = o}
  IN  \/ s.op # "assert" /\ s.op # "live" /\ aliased(s.dest) # {}
      \/ IsMove(s) /\ aliased(s.args[1]) # {}
      \/ s.op = "assign" /\ s.how \in Exclusive /\ aliased(s.args[1]) # {}
      \/ /\ s.op = "assign" /\ s.how \in {"borrow", "attach"}
         /\ \E r \in aliased(s.args[1]) : r.is_mut

(* No statement copies a local that may hold a borrow.                     *)
HoldersStayPut ==
  LET code == UNION {{body.stmts[b][n] : n \in DOMAIN body.stmts[b]} : b \in Blocks}
      holders == {s.dest : s \in {t \in code : t.op = "assign" /\
                                               t.how \in {"borrow", "borrow_mut"}}}
  IN  \A s \in code : s.op = "assign" /\ s.how \in {"use", "move"} =>
                        s.args[1] \notin holders

(* As long as references are not copied, the borrow checker rejects a body *)
(* exactly when some path through it overwrites, moves, drops, ends or     *)
(* aliases an owner against a reference that is still held (OWNERSHIP.md   *)
(* section 6), across joins and around loops.                              *)
BorrowVerdictExact ==
  pc = "done" /\ HoldersStayPut =>
    (diags # {} <=> SomePathDoes(body, RefsAfter, {}, Breaks, PathBound))
=============================================================================
