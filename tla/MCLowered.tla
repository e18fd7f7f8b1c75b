------------------------------ MODULE MCLowered ------------------------------
(***************************************************************************)
(* The two halves of lower_stmt: control flow, on the nests of MCLowering, *)
(* and expressions with straight-line statements, on the programs of       *)
(* MCExpressions.  A behaviour is of one half; the other stays idle.       *)
(***************************************************************************)
EXTENDS MCLowering

CONSTANTS WordBits, MaxLocals     \* as in Expressions

VARIABLES
  half,      \* "control" or "values"
  e_program, source, e_phase, shape_order, e_todo, tys, scopes, code, address_taken,
  owns_heap, magnets, reports, pc, machine

Samples == INSTANCE MCExpressions WITH
             Programs <- {}, Shapes <- <<>>, Actions <- <<>>,
             program <- e_program, phase <- e_phase, todo <- e_todo

Values == INSTANCE Expressions WITH
            Programs <- Samples!MCPrograms, Shapes <- Samples!MCShapes,
            Actions <- Samples!MCActions,
            program <- e_program, phase <- e_phase, todo <- e_todo

ASSUME StatementsAssumption == Grammar(MCStatements)
ASSUME ValuesAssumption == Values!WordAssumption

valueVars ==
  <<e_program, source, e_phase, shape_order, e_todo, tys, scopes, code, address_taken,
    owns_heap, magnets, reports, pc, machine>>

NoValues ==
  /\ e_program = Samples!Program(<<>>) /\ source = Values!Started(Samples!Params, <<>>)
  /\ e_phase = "rejected" /\ shape_order = <<1, 2>> /\ e_todo = <<>> /\ tys = <<>>
  /\ scopes = <<>> /\ code = <<>> /\ address_taken = {} /\ owns_heap = {} /\ magnets = {}
  /\ reports = {} /\ pc = 1 /\ machine = [state |-> "runs", out |-> <<>>]

NoControl ==
  /\ program = [unit |-> TRUE, code |-> <<>>] /\ phase = "rejected" /\ todo = <<>>
  /\ blocks = <<Placeholder>> /\ cur = 1 /\ cur_stmts = <<>> /\ loop_ctx = <<>>
  /\ src = <<>> /\ at = 1 /\ pos = 1 /\ skipped = FALSE

HalfInit ==
  \/ half = "control" /\ LowInit /\ NoValues
  \/ half = "values" /\ Values!ExprInit /\ NoControl

HalfNext ==
  \/ half = "control" /\ LowNext /\ UNCHANGED <<half, valueVars>>
  \/ half = "values" /\ Values!ExprNext /\ UNCHANGED <<half, vars>>

Spec == HalfInit /\ [][HalfNext]_<<half, vars, valueVars>>

-----------------------------------------------------------------------------
(* What is lowered of a straight-line program is well formed (Expressions). *)
ExprTypeOK == Values!ExprTypeOK

(* Compiled programs print what their statements say (Expressions).        *)
RunsAsWritten == Values!RunsAsWritten

(* What the checkers accept uses nothing that is gone (Expressions).       *)
AcceptedIsSound == Values!AcceptedIsSound

(* What uses nothing that is gone is accepted (Expressions).               *)
SoundIsAccepted == Values!SoundIsAccepted
=============================================================================
