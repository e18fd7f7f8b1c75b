---------------------------- MODULE MagnetRules ----------------------------
(***************************************************************************)
(* What check_magnet (src/check/magnet.rs) knows at a point of a body: the *)
(* states each holder may be in and the locals it may point at; what a     *)
(* statement does to that and what it reports.                             *)
(***************************************************************************)
EXTENDS Mir

MagnetState == {"Detached", "Attached", "Moved", "Dropped"}

MagnetFacts ==
  [holder : Locals, state : MagnetState, target : Locals \cup {"none"},
   is_mut : BOOLEAN]

Fact(h, st, t, m) == [holder |-> h, state |-> st, target |-> t, is_mut |-> m]

Of(F, h) == {f \in F : f.holder = h}

PointsAt(f, t) == f.state = "Attached" /\ f.target = t

(* invalidate_target: the magnets attached to t take the new state.        *)
Invalidate(F, t, st) ==
  {IF PointsAt(f, t) THEN [f EXCEPT !.state = st] ELSE f : f \in F}

(* is_magnet_rvalue: what a magnet is bound by, and the fact it leaves.    *)
Binds == {"attach", "attach_mut", "magnet_none", "from_addr"}

Bound(s) ==
  CASE s.how = "magnet_none" -> Fact(s.dest, "Detached", "none", FALSE)
    [] s.how = "from_addr" -> Fact(s.dest, "Attached", "none", FALSE)
    [] OTHER -> Fact(s.dest, "Attached", s.args[1], s.how = "attach_mut")

(* A store whose address is also its destination writes through a magnet.  *)
WritesThrough(s) == s.op = "assign" /\ s.how = "store" /\ s.args[1] = s.dest

(* transfer_stmt with the part of handle_rvalue that changes the map.      *)
MagnetTransfer(s, F) ==
  CASE s.op = "assign" /\ s.how \in Binds -> (F \ Of(F, s.dest)) \cup {Bound(s)}
    [] IsMove(s) -> LET G == Invalidate(F, s.args[1], "Moved") IN G \ Of(G, s.dest)
    [] WritesThrough(s) \/ s.op = "assert" -> F
    [] s.op = "dead" -> LET G == Invalidate(F, s.dest, "Dropped") IN G \ Of(G, s.dest)
    [] s.op = "drop" ->
         {IF f.holder = s.dest THEN [f EXCEPT !.state = "Dropped"] ELSE f :
            f \in Invalidate(F, s.dest, "Dropped")}
    [] OTHER -> F \ Of(F, s.dest)

MutAnyAttached(F, m) ==
  LET states == {f.state : f \in Of(F, m)}
  IN  CASE "Attached" \in states -> {}
        [] states \cap {"Moved", "Dropped"} # {} -> {"EMagnetUseAfterMove"}
        [] OTHER -> {"EMagnetDetached"}

(* require_attached: every fact must say so; a local no fact is known of   *)
(* counts as detached.                                                     *)
NotAttached(F, m) ==
  LET states == {f.state : f \in Of(F, m)}
  IN  CASE states = {"Attached"} -> {}
        [] states \cap {"Moved", "Dropped"} # {} -> {"EMagnetUseAfterMove"}
        [] OTHER -> {"EMagnetDetached"}

MagnetReports(s, F) ==
  LET gone == IF IsMove(s) THEN s.args[1] ELSE s.dest
      addr == s.args[1]
  IN  CASE IsMove(s) \/ s.op \in {"dead", "drop"} ->
             IF \E f \in F : PointsAt(f, gone) THEN {"EMoveWhileBorrowed"} ELSE {}
        [] s.op = "assign" /\ s.how = "magnet_query" -> NotAttached(F, addr)
        [] s.op = "assign" /\ s.how = "store" /\ Of(F, addr) # {} ->
             NotAttached(F, addr) \cup
               {"EImmutableMutate" : f \in {q \in Of(F, addr) : q.state = "Attached" /\ ~q.is_mut}}
        [] OTHER -> {}
=============================================================================
