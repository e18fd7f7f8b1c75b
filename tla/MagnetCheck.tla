---------------------------- MODULE MagnetCheck ----------------------------
(***************************************************************************)
(* check_magnet (src/check/magnet.rs): FactFlow over magnet facts.  A fact *)
(* says what state `holder` may be in and what local it may point at.      *)
(***************************************************************************)
EXTENDS MirPaths, MagnetRules, Worklist

CONSTANT Bodies

VARIABLE reached

INSTANCE FactFlow WITH Facts <- MagnetFacts, Transfer <- MagnetTransfer,
                       Reports <- MagnetReports
-----------------------------------------------------------------------------
(***************************************************************************)
(* The reference: what a run's magnets hold.  A handle is a magnet, what   *)
(* it points at ("raw" for an address made from an integer, "none" when it *)
(* is detached, "dropped"), and whether it may be written through.         *)
(***************************************************************************)
Handle(m, t, w) == [magnet |-> m, target |-> t, is_mut |-> w]

HandlesAfter(s, handles) ==
  LET others == {h \in handles : h.magnet # s.dest}
  IN  CASE s.op = "assign" /\ s.how \in {"attach", "attach_mut"} ->
             others \cup {Handle(s.dest, s.args[1], s.how = "attach_mut")}
        [] s.op = "assign" /\ s.how = "magnet_none" ->
             others \cup {Handle(s.dest, "none", FALSE)}
        [] s.op = "assign" /\ s.how = "from_addr" ->
             others \cup {Handle(s.dest, "raw", FALSE)}
        [] s.op = "drop" /\ others # handles ->
             others \cup {Handle(s.dest, "dropped", FALSE)}
        [] WritesThrough(s) \/ s.op = "assert" -> handles
        [] OTHER -> others

(* Statement s takes the target of an attached magnet away, asks for the   *)
(* address of a detached or dropped one, or writes through one that is so  *)
(* or not mutable.                                                         *)
Misuses(s, handles) ==
  LET held == {h \in handles : h.magnet = s.args[1]}
  IN  \/ s.op \in {"dead", "drop"} /\ \E h \in handles : h.target = s.dest
      \/ IsMove(s) /\ \E h \in handles : h.target = s.args[1]
      \/ s.op = "assign" /\ s.how = "magnet_query" /\
           \E h \in held : h.target \in {"none", "dropped"}
      \/ s.op = "assign" /\ s.how = "store" /\ \E h \in held : ~h.is_mut

(* What lowering sees to: a local bound as a magnet is never assigned but  *)
(* by binding it again or by writing through it, and is not copied.        *)
MagnetsAreTyped ==
  LET code == UNION {{body.stmts[b][n] : n \in DOMAIN body.stmts[b]} : b \in Blocks}
      magnets == {s.dest : s \in {t \in code : t.op = "assign" /\ t.how \in Binds}}
  IN  \A s \in code :
        /\ s.op \in {"assign", "call"} /\ s.dest \in magnets =>
             s.op = "assign" /\ (s.how \in Binds \/ WritesThrough(s))
        /\ s.op = "assign" /\ s.how \in {"use", "move"} => s.args[1] \notin magnets

(* MAGNET.md section 5: in a body the checker accepts no path moves, drops *)
(* or ends a local a magnet points at, queries a detached magnet, or       *)
(* writes through one that is not mutable, however paths join and loop.    *)
AcceptedMagnetsHold ==
  Accepted /\ MagnetsAreTyped =>
    ~SomePathDoes(body, HandlesAfter, {}, Misuses, PathBound)
=============================================================================
