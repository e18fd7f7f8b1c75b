---------------------------- MODULE Expressions ----------------------------
(***************************************************************************)
(* The expressions and straight-line statements of an action: lowered to   *)
(* MIR (lower_stmt, lower_expr_into of src/driver_pipeline/lower.rs), put  *)
(* through the ownership and magnet checkers, compiled and run             *)
(* (src/codegen/cranelift.rs on the runtime library).                      *)
(*                                                                         *)
(* The recursion of the lowerer is a list `todo` of what is left to lower. *)
(* Control flow is the subject of Lowering.  Floats and casts are left out. *)
(***************************************************************************)
EXTENDS ExpressionSource

LOCAL Seqs == INSTANCE SequencesExt

CONSTANTS
  Programs,    \* records [params, input, code]
  MaxLocals    \* more locals than any program needs

VARIABLES
  program,
  source,         \* what it means: what ExpressionSource says of it
  phase,          \* "lower", "check", "run", then "done" or "rejected"
  shape_order,    \* the order in which self.shapes.values() comes
  todo,           \* statements, expressions and calls yet to be lowered
  tys,            \* the types of the locals declared so far
  scopes,         \* the names in scope, innermost last
  code,           \* cur_stmts
  address_taken, owns_heap, magnets,
  reports,        \* what the checkers say
  pc,             \* the next statement of the compiled program
  machine         \* its registers, stack slots, heap and output

lowerVars == <<todo, tys, scopes, code, address_taken, owns_heap, magnets>>
vars == <<program, source, phase, shape_order, lowerVars, reports, pc, machine>>

Locals == 1..MaxLocals
Own == INSTANCE OwnershipRules WITH NBlocks <- 1
Mag == INSTANCE MagnetRules WITH NBlocks <- 1

-----------------------------------------------------------------------------
(* MIR statements; offsets count words.                                    *)
Assign(d, how, args) == [op |-> how, dest |-> d, args |-> args]
Constant(d, n) == [op |-> "const", dest |-> d, args |-> <<>>, n |-> n]
Operation(d, op, l, r, ty) ==
  [op |-> "binop", dest |-> d, args |-> <<l, r>>, operator |-> op, ty |-> ty]
Unop(d, op, a) == [op |-> "unop", dest |-> d, args |-> <<a>>, operator |-> op]
MagnetAttach(d, a, mut) == [op |-> "attach", dest |-> d, args |-> <<a>>, is_mut |-> mut]
Load(d, addr, off) == [op |-> "load", dest |-> d, args |-> <<addr>>, offset |-> off]
Store(d, addr, off, v) == [op |-> "store", dest |-> d, args |-> <<addr, v>>, offset |-> off]
Call(d, callee, args) == [op |-> "call", dest |-> d, args |-> args, callee |-> callee]
Invocation(d, action, args) ==
  [op |-> "invoke", dest |-> d, args |-> args, action |-> action]
Drop(d) == [op |-> "drop", dest |-> d, args |-> <<>>]

(* What there is to do: lower e into dest, emit, call the allocator.       *)
Into(d, e) == [kind |-> "into", dest |-> d, value |-> e]
Emit(stmts) == [kind |-> "emit", stmts |-> stmts]
HeapCall(d, callee, args) == [kind |-> "heap", dest |-> d, callee |-> callee, args |-> args]
Putc(d, bytes) == [kind |-> "putc", dest |-> d, bytes |-> bytes]
Arg(d, e) == [kind |-> "arg", dest |-> d, value |-> e]

Task == Head(todo)
Rest == Tail(todo)

-----------------------------------------------------------------------------
(* Scopes, fields and the guess of a type.                                 *)
Found(x) == {i \in DOMAIN scopes : x \in DOMAIN scopes[i]}
Innermost(S) == CHOOSE i \in S : \A j \in S : j <= i
IsLocal(x) == Found(x) # {}
Lookup(x) == scopes[Innermost(Found(x))][x]
InCurrentScope(x) == x \in DOMAIN Seqs!Last(scopes)

ShapesWith(f) == {i \in DOMAIN shape_order : PlaceOf(f, Shapes[shape_order[i]]) # 0}
IsField(f) == ShapesWith(f) # {}
FieldShape(f) == Shapes[shape_order[CHOOSE i \in ShapesWith(f) : \A j \in ShapesWith(f) : i <= j]]

(* The first shape that has the field decides where it is.                 *)
Offset(f) == PlaceOf(f, FieldShape(f)) - 1
FieldType(f) == FieldShape(f).fields[Offset(f) + 1].ty

RECURSIVE GuessTy(_)
GuessTy(e) ==
  CASE e.kind \in {"int", "bool", "char"} -> e.kind
    [] e.kind = "str" -> "text"
    [] e.kind \in {"var", "move"} -> IF IsLocal(e.x) THEN tys[Lookup(e.x)] ELSE "int"
    [] e.kind \in {"path", "field"} -> IF IsField(e.field) THEN FieldType(e.field) ELSE "int"
    [] e.kind = "binary" ->
         IF e.op \in Comparisons THEN "bool"
         ELSE IF "text" \in {GuessTy(e.args[1]), GuessTy(e.args[2])} THEN "text" ELSE "int"
    [] e.kind = "unary" -> GuessTy(e.args[1])
    [] e.kind = "call" -> IF e.name = "input" THEN "text" ELSE "int"
    [] OTHER -> "int"

-----------------------------------------------------------------------------
Registers == [l \in Locals |-> Gone]

ExprInit ==
  /\ program \in Programs
  /\ source = Meaning(program)
  /\ phase = "lower"
  /\ shape_order \in {p \in [DOMAIN Shapes -> DOMAIN Shapes] : Seqs!IsInjective(p)}
  /\ todo = program.code
  /\ tys = [i \in DOMAIN program.params |-> program.params[i].ty]
  /\ scopes = <<[x \in {program.params[i].name : i \in DOMAIN program.params} |->
                   CHOOSE i \in DOMAIN program.params : program.params[i].name = x],
                [x \in {} |-> 0]>>
  /\ code = <<>>
  /\ address_taken = {}
  /\ owns_heap = {}
  /\ magnets = {}
  /\ reports = {}
  /\ pc = 1
  /\ machine = [val |-> Registers, slots |-> <<>>, heap |-> <<>>, out |-> <<>>,
                input |-> program.input, state |-> "runs"]

Unchanged == UNCHANGED <<program, source, shape_order, reports, pc, machine>>
At(kind) == phase = "lower" /\ todo # <<>> /\ Task.kind = kind
Lowers(kind) == At("into") /\ Task.value.kind = kind

(* The k-th local allocated from here.                                     *)
New(k) == Len(tys) + k
Names == UNCHANGED <<scopes, address_taken, magnets>>

(* Allocate locals of these types and put these steps first.               *)
Steps(types, steps) ==
  /\ tys' = tys \o types
  /\ todo' = steps \o Rest
  /\ UNCHANGED <<phase, code, owns_heap>> /\ Unchanged

Plan(types, steps) == Steps(types, steps) /\ Names

Ints(n) == [i \in 1..n |-> "int"]

EmitStmts ==
  /\ At("emit")
  /\ code' = code \o Task.stmts
  /\ todo' = Rest
  /\ UNCHANGED <<phase, tys, owns_heap>> /\ Unchanged /\ Names

(* emit_heap_call: what the local got from an earlier one is freed first.  *)
EmitHeapCall ==
  /\ At("heap")
  /\ LET owned == Task.dest \in owns_heap
     IN  /\ tys' = IF owned THEN Append(tys, "unit") ELSE tys
         /\ code' = code \o (IF owned THEN <<Call(New(1), "avera_free", <<Task.dest>>)>> ELSE <<>>)
                         \o <<Call(Task.dest, Task.callee, Task.args)>>
  /\ owns_heap' = owns_heap \cup {Task.dest}
  /\ todo' = Rest
  /\ UNCHANGED phase /\ Unchanged /\ Names

-----------------------------------------------------------------------------
(* lower_expr_into, form by form.                                          *)
LowerScalar ==
  /\ Lowers("int") \/ Lowers("bool") \/ Lowers("char")
  /\ LET e == Task.value
     IN  Plan(<<>>, <<Emit(<<Constant(Task.dest, IF e.kind = "bool" THEN Truth(e.b) ELSE Wrap(e.n))>>)>>)

(* avera_text_new, then avera_text_set byte by byte.                       *)
LowerStr ==
  /\ Lowers("str")
  /\ LET bytes == Task.value.bytes
         d == Task.dest
         Byte_(i) == <<Constant(New(3 * i - 1), bytes[i]), Constant(New(3 * i), i - 1),
                       Call(New(3 * i + 1), "avera_text_set", <<d, New(3 * i), New(3 * i - 1)>>)>>
     IN  Plan(Ints(1 + 3 * Len(bytes)),
              <<Emit(<<Constant(New(1), Len(bytes))>>),
                HeapCall(d, "avera_text_new", <<New(1)>>),
                Emit(Seqs!FlattenSeq([i \in DOMAIN bytes |-> Byte_(i)]))>>)

LowerVar ==
  /\ Lowers("var")
  /\ Plan(<<>>, IF IsLocal(Task.value.x) /\ Lookup(Task.value.x) # Task.dest
                THEN <<Emit(<<Assign(Task.dest, "use", <<Lookup(Task.value.x)>>)>>)>> ELSE <<>>)

(* A struct pointer, through the magnet if x is one, then the field.       *)
Pointer(x, d) ==
  IF Lookup(x) \in magnets THEN <<Load(d, Lookup(x), 0)>>
  ELSE IF Lookup(x) # d THEN <<Assign(d, "use", <<Lookup(x)>>)>> ELSE <<>>

Reached(d, f) == IF IsField(f) THEN <<Load(d, d, Offset(f))>> ELSE <<>>

LowerPath ==
  /\ Lowers("path")
  /\ Plan(<<>>, <<Emit(Pointer(Task.value.x, Task.dest) \o Reached(Task.dest, Task.value.field))>>)

LowerField ==
  /\ Lowers("field")
  /\ Plan(<<>>, <<Into(Task.dest, Task.value.args[1]),
                  Emit(Reached(Task.dest, Task.value.field))>>)

MutMoveCopies ==
  /\ Lowers("move")
  /\ Plan(<<>>, <<Into(Task.dest, Var(Task.value.x))>>)

(* A Move of the source local itself, so that the checker sees it go.      *)
LowerMove ==
  /\ Lowers("move")
  /\ Plan(<<>>, <<Emit(<<Assign(Task.dest, "move", <<Lookup(Task.value.x)>>)>>)>>)

LowerUnary ==
  /\ Lowers("unary")
  /\ Plan(<<>>, <<Into(Task.dest, Task.value.args[1]),
                  Emit(<<Unop(Task.dest, Task.value.op, Task.dest)>>)>>)

OnTexts(e) == "text" \in {GuessTy(e.args[1]), GuessTy(e.args[2])}

Operands(d) == <<Into(d, Task.value.args[1]), Into(New(1), Task.value.args[2])>>

LowerBinary ==
  /\ Lowers("binary")
  /\ ~(OnTexts(Task.value) /\ Task.value.op \in {"+", "==", "!="})
  /\ LET ty == GuessTy(Task.value)
     IN  Plan(<<ty>>, Operands(Task.dest) \o
                <<Emit(<<Operation(Task.dest, Task.value.op, Task.dest, New(1), ty)>>)>>)

LowerConcat ==
  /\ Lowers("binary") /\ OnTexts(Task.value) /\ Task.value.op = "+"
  /\ Plan(Ints(1), Operands(Task.dest) \o
            <<Emit(<<Call(Task.dest, "avera_text_concat", <<Task.dest, New(1)>>)>>)>>)

LowerTextEq ==
  /\ Lowers("binary") /\ OnTexts(Task.value) /\ Task.value.op \in {"==", "!="}
  /\ LET d == Task.dest
         result == IF Task.value.op = "==" THEN <<Assign(d, "use", <<New(2)>>)>>
                   ELSE <<Constant(New(3), 1), Operation(d, "-", New(3), New(2), "int")>>
     IN  Plan(Ints(3), Operands(d) \o
                <<Emit(<<Call(New(2), "avera_text_eq", <<d, New(1)>>)>> \o result)>>)

(* Each argument lowered into a local of its own, then used by uses[i].    *)
EachArg(args, first, uses) ==
  Seqs!FlattenSeq([i \in DOMAIN args |-> <<Into(New(first + i), args[i]), Emit(uses[i])>>])

LowerShape ==
  /\ Lowers("shape")
  /\ LET d == Task.dest
         es == Task.value.args
         fields == Shapes[ShapeNamed(Task.value.shape)].fields
     IN  Plan(Ints(1 + Len(es)),
              <<Emit(<<Constant(New(1), Len(fields)), Call(d, "avera_alloc", <<New(1)>>)>>)>>
                \o EachArg(es, 1, [i \in DOMAIN es |-> <<Store(d, d, i - 1, New(1 + i))>>]))

(* .variant(arg): the tag, and behind it the payload.                      *)
LowerChoice ==
  /\ Lowers("choice")
  /\ LET d == Task.dest
         es == Task.value.args
     IN  Plan(Ints(2 + Len(es)),
              <<Emit(<<Constant(New(1), Task.value.tag), Constant(New(2), 2)>>),
                HeapCall(d, "avera_alloc", <<New(2)>>),
                Emit(<<Store(d, d, 0, New(1))>>)>>
                \o EachArg(es, 2, [i \in DOMAIN es |-> <<Store(d, d, 1, New(2 + i))>>]))

LowerArray ==
  /\ Lowers("array")
  /\ LET d == Task.dest
         es == Task.value.args
         n == Len(es)
     IN  Plan(Ints(2 + 2 * n),
              <<Emit(<<Constant(New(1), n), Constant(New(2), 8),
                       Call(d, "avera_alloc_array", <<New(1), New(2)>>)>>)>>
                \o EachArg(es, 2, [i \in DOMAIN es |->
                     <<Constant(New(2 + n + i), i - 1),
                       Call(d, "avera_array_set", <<d, New(2 + n + i), New(2 + i), New(2)>>)>>]))

LowerIndex ==
  /\ Lowers("index")
  /\ LET d == Task.dest
     IN  Plan(Ints(2), Operands(d) \o
                <<Emit(<<Constant(New(2), 8),
                         Call(d, "avera_array_get", <<d, New(1), New(2)>>), Load(d, d, 0)>>)>>)

(* Type.method: the first action whose name ends in .method.               *)
Suffixed(name) == Seqs!SelectInSeq(Actions, LAMBDA a : a.on # "" /\ a.name = name)
Plain(name) == ActionNamed("", name)

Temps(args, first) == [i \in DOMAIN args |-> Into(New(first + i), args[i])]
TempsOf(args, first) == [i \in DOMAIN args |-> New(first + i)]

ArrayCallee(name) ==
  CASE name = "len" -> "avera_array_len" [] name = "push" -> "avera_array_push"
    [] name = "pop" -> "avera_array_pop"

ArrayCalls == {"len", "push", "pop"}

(* x.name(args), a path that is called: an array built-in or a method.     *)
LowerDotted ==
  /\ Lowers("dotted")
  /\ LET e == Task.value
         args == <<New(1)>> \o TempsOf(e.args, 1)
     IN  Plan(Ints(1 + Len(e.args)),
              <<Emit(<<Assign(New(1), "use", <<Lookup(e.x)>>)>>)>> \o Temps(e.args, 1)
                \o <<Emit(<<IF e.name \in ArrayCalls THEN Call(Task.dest, ArrayCallee(e.name), args)
                              ELSE Invocation(Task.dest, Suffixed(e.name), args)>>)>>)

(* expr.name(args): of the built-ins only len is known here.               *)
LowerMethod ==
  /\ Lowers("method")
  /\ LET e == Task.value
         d == Task.dest
     IN  IF e.name = "len" /\ Len(e.args) = 1
         THEN Plan(<<>>, <<Into(d, e.args[1]), Emit(<<Call(d, "avera_array_len", <<d>>)>>)>>)
         ELSE Plan(Ints(Len(e.args)),
                   Temps(e.args, 0) \o <<Emit(<<Invocation(d, Suffixed(e.name), TempsOf(e.args, 0))>>)>>)

LowerCall ==
  /\ Lowers("call") /\ ~Shows(Task.value)
  /\ LET e == Task.value
         d == Task.dest
     IN  Plan(Ints(Len(e.args)),
              Temps(e.args, 0) \o
                <<Emit(<<IF e.name = "input" THEN Call(d, "avera_text_read_line", <<>>)
                         ELSE Invocation(d, Plain(e.name), TempsOf(e.args, 0))>>)>>)

(* lower_print and lower_print_eprint: all of them write to stdout.        *)
LowerPrint ==
  /\ Lowers("call") /\ Shows(Task.value)
  /\ LET e == Task.value
         d == Task.dest
         space(i) == IF i > 1 /\ e.name # "eprint" THEN <<Putc(d, <<Space>>)>> ELSE <<>>
         end == IF e.name = "write" THEN <<>> ELSE <<Putc(d, <<Newline>>)>>
     IN  Plan(<<>>, Seqs!FlattenSeq([i \in DOMAIN e.args |-> space(i) \o <<Arg(d, e.args[i])>>])
                      \o end)

LowerPutc ==
  /\ At("putc")
  /\ Plan(Ints(Len(Task.bytes)),
          <<Emit(Seqs!FlattenSeq([i \in DOMAIN Task.bytes |->
              <<Constant(New(i), Task.bytes[i]), Call(Task.dest, "avera_putc", <<New(i)>>)>>]))>>)

(* lower_print_arg: literals by their form, the rest by the guessed type.  *)
LowerPrintArg ==
  /\ At("arg")
  /\ LET e == Task.value
         d == Task.dest
         printer == IF GuessTy(e) = "text" THEN "avera_text_print" ELSE "avera_print_i64"
     IN  CASE e.kind = "str" -> Plan(<<>>, <<Putc(d, e.bytes)>>)
           [] e.kind = "bool" -> Plan(<<>>, <<Putc(d, IF e.b THEN TrueText ELSE FalseText)>>)
           [] e.kind = "char" -> Plan(<<>>, <<Putc(d, <<e.n>>)>>)
           [] OTHER -> Plan(<<GuessTy(e)>>, <<Into(New(1), e), Emit(<<Call(d, printer, <<New(1)>>)>>)>>)

(* ~m.value, ~m.offset, ~m.field.                                          *)
LowerMeta ==
  /\ Lowers("meta")
  /\ LET m == Lookup(Task.value.x)
         d == Task.dest
         prop == Task.value.prop
     IN  Plan(<<>>,
              <<Emit(CASE prop = "value" -> <<Load(d, m, 0)>>
                       [] prop = "offset" -> <<Assign(d, "offset", <<m>>)>>
                       [] OTHER -> <<Load(d, m, 0)>> \o Reached(d, prop))>>)

-----------------------------------------------------------------------------
(* lower_stmt.                                                             *)
Declare(x, l) == scopes' = [scopes EXCEPT ![Len(scopes)] = (x :> l) @@ @]

MutBindsInPlace ==
  /\ At("bind") /\ ~InCurrentScope(Task.x)
  /\ IF Task.value.kind = "var"
     THEN Steps(<<>>, <<>>) /\ Declare(Task.x, Lookup(Task.value.x))
     ELSE Steps(<<GuessTy(Task.value)>>, <<Into(New(1), Task.value)>>) /\ Declare(Task.x, New(1))
  /\ UNCHANGED <<address_taken, magnets>>

(* `:x = e`, `::x = e`: the name is new before e is lowered.               *)
LowerBinding ==
  /\ At("bind") /\ ~InCurrentScope(Task.x)
  /\ Steps(<<GuessTy(Task.value)>>, <<Into(New(1), Task.value)>>)
  /\ Declare(Task.x, New(1))
  /\ UNCHANGED <<address_taken, magnets>>

Redeclared ==
  /\ At("bind") /\ InCurrentScope(Task.x)
  /\ phase' = "rejected"
  /\ UNCHANGED lowerVars /\ Unchanged

MutAttachesCopy ==
  /\ At("magnet") /\ Task.value.kind = "var"
  /\ Steps(Ints(1), <<Emit(<<MagnetAttach(New(1), Lookup(Task.value.x), Task.mutable)>>)>>)
  /\ Declare(Task.x, New(1))
  /\ magnets' = magnets \cup {New(1)}
  /\ UNCHANGED address_taken

MutAttachesReadOnly ==
  /\ At("magnet") /\ Task.value.kind = "var"
  /\ Steps(Ints(1), <<Emit(<<MagnetAttach(New(1), Lookup(Task.value.x), FALSE)>>)>>)
  /\ Declare(Task.x, New(1))
  /\ address_taken' = address_taken \cup {Lookup(Task.value.x)}
  /\ magnets' = magnets \cup {New(1)}

(* `~m = owner`: the owner itself moves to a stack slot.                   *)
LowerMagnetOnOwner ==
  /\ At("magnet") /\ Task.value.kind = "var"
  /\ Steps(Ints(1), <<Emit(<<MagnetAttach(New(1), Lookup(Task.value.x), Task.mutable)>>)>>)
  /\ Declare(Task.x, New(1))
  /\ address_taken' = address_taken \cup {Lookup(Task.value.x)}
  /\ magnets' = magnets \cup {New(1)}

LowerMagnetOnValue ==
  /\ At("magnet") /\ Task.value.kind # "var"
  /\ Steps(Ints(2), <<Into(New(2), Task.value),
                      Emit(<<MagnetAttach(New(1), New(2), Task.mutable)>>)>>)
  /\ Declare(Task.x, New(1))
  /\ address_taken' = address_taken \cup {New(2)}
  /\ magnets' = magnets \cup {New(1)}

(* `m -> e` attaches to a temporary that no slot was asked for.            *)
LowerRetarget ==
  /\ At("retarget")
  /\ Plan(Ints(1), <<Into(New(1), Task.value),
                     Emit(<<MagnetAttach(Lookup(Task.x), New(1), TRUE)>>)>>)

LowerDrop == At("drop") /\ Plan(<<>>, <<Emit(<<Drop(Lookup(Task.x))>>)>>)

LowerExprStmt == At("expr") /\ Plan(Ints(1), <<Into(New(1), Task.value)>>)

(* m = e, m a magnet: a store to what it points at, whatever the operator. *)
LowerStoreThrough ==
  /\ At("set") /\ Lookup(Task.x) \in magnets
  /\ LET m == Lookup(Task.x)
     IN  Plan(Ints(1), <<Into(New(1), Task.value), Emit(<<Store(m, m, 0, New(1))>>)>>)

(* x = e is lowered straight into x; only += and -= read x first.          *)
LowerAssignment ==
  /\ At("set") /\ Lookup(Task.x) \notin magnets
  /\ LET x == Lookup(Task.x)
     IN  IF Task.op \in {"+", "-"}
         THEN Plan(Ints(2), <<Into(New(1), Task.value),
                              Emit(<<Assign(New(2), "use", <<x>>),
                                     Operation(x, Task.op, New(2), New(1), "int")>>)>>)
         ELSE Plan(<<>>, <<Into(x, Task.value)>>)

LowerSetDot ==
  /\ At("setdot")
  /\ LET p == New(1)
     IN  Plan(Ints(2), <<Emit(Pointer(Task.x, p)), Into(New(2), Task.value),
                         Emit(<<Store(p, p, Offset(Task.field), New(2))>>)>>)

LowerSetField ==
  /\ At("setfield")
  /\ LET p == New(1)
     IN  Plan(Ints(2), <<Into(p, Task.receiver), Into(New(2), Task.value),
                         Emit(<<Store(p, p, Offset(Task.field), New(2))>>)>>)

(* b[i] = e is none of the places lower_stmt knows: nothing comes of it.   *)
LowerSetIndex == At("setindex") /\ Plan(<<>>, <<>>)

Lowered ==
  /\ phase = "lower" /\ todo = <<>>
  /\ phase' = "check"
  /\ UNCHANGED lowerVars /\ Unchanged

-----------------------------------------------------------------------------
(* check_ownership and check_magnet on the one block there is.             *)
AsMir(s) ==
  CASE s.op \in {"const", "use", "move", "store"} -> Own!Assign(s.dest, s.op, s.args)
    [] s.op = "attach" -> Own!Assign(s.dest, IF s.is_mut THEN "attach_mut" ELSE "attach", s.args)
    [] s.op = "offset" -> Own!Assign(s.dest, "magnet_query", s.args)
    [] s.op \in {"call", "invoke"} -> Own!Call(s.dest, "other", s.args)
    [] s.op = "drop" -> Own!Drop(s.dest)
    [] OTHER -> Own!Assign(s.dest, "op", s.args)

AtEntry == [l \in Locals |-> IF l \in DOMAIN program.params THEN "Init" ELSE "Uninit"]

Checked ==
  Seqs!FoldLeft(
    LAMBDA known, s :
      [states |-> Own!Transfer(s, known.states),
       facts |-> Mag!MagnetTransfer(s, known.facts),
       reports |-> known.reports \cup {m[1] : m \in Own!Misuses(s, known.states)}
                                 \cup Mag!MagnetReports(s, known.facts)],
    [states |-> AtEntry, facts |-> {}, reports |-> {}],
    [i \in DOMAIN code |-> AsMir(code[i])]).reports

Check ==
  /\ phase = "check"
  /\ reports' = Checked
  /\ phase' = IF reports' = {} THEN "run" ELSE "rejected"
  /\ machine' = [machine EXCEPT !.val = [l \in Locals |->
       IF l \in DOMAIN program.params THEN Word("word", program.params[l].value) ELSE Gone]]
  /\ UNCHANGED <<program, source, shape_order, pc, lowerVars>>

-----------------------------------------------------------------------------
(* The compiled program.  A local whose address is taken lives in a stack  *)
(* slot; a parameter's slot is never filled.  Gone stands for whatever was *)
(* in a register, slot or freed word.                                      *)
Plainly(n) == Word("word", n)
Slot(i) == [k |-> "slot", at |-> i]
Element(o, i) == [k |-> "element", o |-> o, i |-> i]

SlotValue(m, l) == IF l \in DOMAIN m.slots THEN m.slots[l] ELSE Gone
ValueOf(m, l) == IF l \in address_taken THEN SlotValue(m, l) ELSE m.val[l]

PutSlot(m, i, v) == [m EXCEPT !.slots = (i :> v) @@ @]
Define(m, l, v) ==
  LET r == [m EXCEPT !.val[l] = v]
  IN  IF l \in address_taken THEN PutSlot(r, l, v) ELSE r

Fault(m) == [m EXCEPT !.state = "fault"]
Halt(m) == [m EXCEPT !.state = "stopped"]

LiveObject(m, v) == v.k = "ref" /\ m.heap[v.o].live

(* The word an address and an offset name, if they name one.               *)
InMemory(m, a, off) ==
  CASE a.k = "slot" -> off = 0
    [] a.k = "ref" -> m.heap[a.o].live /\ off + 1 \in DOMAIN m.heap[a.o].cells
    [] a.k = "element" -> m.heap[a.o].live /\ off = 0
    [] OTHER -> FALSE

Fetch(m, a, off) ==
  CASE a.k = "slot" -> SlotValue(m, a.at)
    [] a.k = "ref" -> m.heap[a.o].cells[off + 1]
    [] a.k = "element" -> m.heap[a.o].cells[a.i + 1]

Update(m, a, off, v) ==
  CASE a.k = "slot" -> PutSlot(m, a.at, v)
    [] a.k = "ref" -> [m EXCEPT !.heap[a.o].cells[off + 1] = v]
    [] a.k = "element" -> [m EXCEPT !.heap[a.o].cells[a.i + 1] = v]

(* Comparisons are signed if the type of the operation is: it is Bool.     *)
Binop(op, a, b, ty) == Operate(op, a, b, ty \in {"int"})

(* A magnet on a local without a slot gets a fresh one with a copy.        *)
FreshSlot == MaxLocals + pc

Stmt == code[pc]
Operand(i) == ValueOf(machine, Stmt.args[i])
Ready(i) == Operand(i).k = "word"
Runs(op) == phase = "run" /\ pc <= Len(code) /\ machine.state = "runs" /\ Stmt.op = op

Becomes(m) ==
  /\ machine' = m
  /\ pc' = pc + 1
  /\ UNCHANGED <<program, source, phase, shape_order, lowerVars, reports>>

Result(m, v) == Becomes(Define(m, Stmt.dest, v))

RunConst == Runs("const") /\ Result(machine, Plainly(Stmt.n))
RunUse == Runs("use") /\ Result(machine, Operand(1))
RunMove == Runs("move") /\ Result(machine, Operand(1))
RunOffset == Runs("offset") /\ Result(machine, Plainly(0))
RunDrop == Runs("drop") /\ Becomes(machine)

RunBinop ==
  /\ Runs("binop")
  /\ IF ~(Ready(1) /\ Ready(2)) THEN Becomes(Fault(machine))
     ELSE LET a == Operand(1).n
              b == Operand(2).n
          IN  IF Traps(Stmt.operator, b) THEN Becomes(Halt(machine))
              ELSE Result(machine, Plainly(Binop(Stmt.operator, a, b, Stmt.ty)))

RunUnop ==
  /\ Runs("unop")
  /\ IF ~Ready(1) THEN Becomes(Fault(machine))
     ELSE Result(machine, Plainly(Negate(Stmt.operator, Word("int", Operand(1).n)).n))

RunAttach ==
  /\ Runs("attach")
  /\ IF Stmt.args[1] \in address_taken THEN Result(machine, Slot(Stmt.args[1]))
     ELSE Result(PutSlot(machine, FreshSlot, Operand(1)), Slot(FreshSlot))

RunLoad ==
  /\ Runs("load")
  /\ IF InMemory(machine, Operand(1), Stmt.offset)
     THEN Result(machine, Fetch(machine, Operand(1), Stmt.offset))
     ELSE Becomes(Fault(machine))

RunStore ==
  /\ Runs("store")
  /\ IF InMemory(machine, Operand(1), Stmt.offset)
     THEN Result(Update(machine, Operand(1), Stmt.offset, Operand(2)), Operand(1))
     ELSE Becomes(Fault(machine))

-----------------------------------------------------------------------------
(* The runtime library, as ArrayStore promises it.                         *)
Allocated(m, cells) ==
  Define([m EXCEPT !.heap = Append(@, [cells |-> cells, live |-> TRUE])],
         Stmt.dest, Ref(Len(m.heap) + 1))
Zeros(n) == [i \in 1..n |-> Plainly(0)]

Calls(callees) == Runs("call") /\ Stmt.callee \in callees

CallAllocate ==
  /\ Calls({"avera_text_new", "avera_alloc", "avera_alloc_array"})
  /\ Becomes(Allocated(machine, Zeros(Operand(1).n)))

CallFree ==
  /\ Calls({"avera_free"})
  /\ Becomes(IF LiveObject(machine, Operand(1))
             THEN Define([machine EXCEPT !.heap[Operand(1).o].live = FALSE], Stmt.dest, Plainly(0))
             ELSE Fault(machine))

CallReadLine ==
  /\ Calls({"avera_text_read_line"})
  /\ Becomes([Allocated(machine, [i \in DOMAIN FirstLine(machine.input) |->
                                     Plainly(FirstLine(machine.input)[i])])
              EXCEPT !.input = AfterLine(@)])

Cells(v) == machine.heap[v.o].cells

(* Calls whose first argument is an array or a text; others go astray.     *)
OnObject ==
  {"avera_text_set", "avera_array_set", "avera_array_get", "avera_array_len",
   "avera_array_push", "avera_array_pop", "avera_text_print"}

AfterObjectCall(v, cells) ==
  LET n == Len(cells)
      put == [machine EXCEPT !.heap[v.o].cells[Operand(2).n + 1] = Operand(3)]
  IN  CASE Stmt.callee \in {"avera_text_set", "avera_array_set"} -> Define(put, Stmt.dest, v)
        [] Stmt.callee = "avera_array_get" ->
             IF Operand(2).n < n THEN Define(machine, Stmt.dest, Element(v.o, Operand(2).n))
             ELSE Halt(machine)
        [] Stmt.callee = "avera_array_len" -> Define(machine, Stmt.dest, Plainly(n))
        [] Stmt.callee = "avera_array_push" ->
             Define([machine EXCEPT !.heap[v.o].cells = Append(@, Operand(2))],
                    Stmt.dest, Plainly(n + 1))
        [] Stmt.callee = "avera_array_pop" ->
             IF n = 0 THEN Define(machine, Stmt.dest, Plainly(0))
             ELSE Define([machine EXCEPT !.heap[v.o].cells = Seqs!Front(@)], Stmt.dest, cells[n])
        [] Stmt.callee = "avera_text_print" ->
             Define(Say(machine, [i \in 1..n |-> Byte(cells[i].n)]), Stmt.dest, Plainly(0))

(* What is printed or used as an index has to be words.                    *)
Fits(v) ==
  /\ LiveObject(machine, v)
  /\ Stmt.callee = "avera_array_get" => Ready(2)
  /\ Stmt.callee = "avera_text_print" =>
       \A i \in DOMAIN Cells(v) : Cells(v)[i].k = "word"

CallOnObject ==
  /\ Calls(OnObject)
  /\ Becomes(IF Fits(Operand(1))
             THEN AfterObjectCall(Operand(1), Cells(Operand(1))) ELSE Fault(machine))

CallOnTexts ==
  /\ Calls({"avera_text_concat", "avera_text_eq"})
  /\ LET a == Operand(1)
         b == Operand(2)
     IN  Becomes(
           IF ~(LiveObject(machine, a) /\ LiveObject(machine, b)) THEN Fault(machine)
           ELSE IF Stmt.callee = "avera_text_concat"
           THEN Allocated(machine, Cells(a) \o Cells(b))
           ELSE Define(machine, Stmt.dest, Plainly(Truth(Cells(a) = Cells(b)))))

CallPrint ==
  /\ Calls({"avera_print_i64", "avera_putc"})
  /\ Becomes(
       IF ~Ready(1) THEN Fault(machine)
       ELSE Define(Say(machine, <<IF Stmt.callee = "avera_putc" THEN Byte(Operand(1).n)
                                  ELSE Number(Signed(Operand(1).n))>>), Stmt.dest, Plainly(0)))

(* Another action: it only looks at its arguments, and answers.            *)
CallAction ==
  /\ Runs("invoke")
  /\ LET seen == [i \in DOMAIN Stmt.args |-> Seen(machine.heap, Operand(i))]
     IN  Becomes(
           IF \E i \in DOMAIN seen : seen[i].k # "word" THEN Fault(machine)
           ELSE Define(Say(machine, <<Called(Stmt.action)>> \o
                                    [i \in DOMAIN seen |-> Number(seen[i].n)]),
                       Stmt.dest, Plainly(Actions[Stmt.action].result)))

Ends ==
  /\ phase = "run"
  /\ pc > Len(code) \/ machine.state # "runs"
  /\ phase' = "done"
  /\ UNCHANGED <<program, source, shape_order, lowerVars, reports, pc, machine>>

Over == phase \in {"done", "rejected"} /\ UNCHANGED vars

LowerStep ==
  \/ EmitStmts \/ EmitHeapCall \/ LowerScalar \/ LowerStr \/ LowerVar \/ LowerPath
  \/ LowerField \/ LowerMove \/ LowerUnary \/ LowerBinary \/ LowerConcat \/ LowerTextEq
  \/ LowerShape \/ LowerChoice \/ LowerArray \/ LowerIndex \/ LowerDotted \/ LowerMethod
  \/ LowerCall \/ LowerPrint \/ LowerPutc \/ LowerPrintArg \/ LowerMeta
  \/ LowerBinding \/ Redeclared \/ LowerMagnetOnOwner \/ LowerMagnetOnValue
  \/ LowerRetarget \/ LowerDrop \/ LowerExprStmt \/ LowerStoreThrough
  \/ LowerAssignment \/ LowerSetDot \/ LowerSetField \/ LowerSetIndex \/ Lowered

RunStep ==
  \/ RunConst \/ RunUse \/ RunMove \/ RunOffset \/ RunDrop \/ RunBinop \/ RunUnop
  \/ RunAttach \/ RunLoad \/ RunStore
  \/ CallAllocate \/ CallFree \/ CallReadLine \/ CallOnObject \/ CallOnTexts \/ CallPrint
  \/ CallAction \/ Ends

ExprNext == LowerStep \/ Check \/ RunStep \/ Over

ExprSpec == ExprInit /\ [][ExprNext]_vars

-----------------------------------------------------------------------------
(* Every local used is declared, names lead to locals of their own, and a  *)
(* compiled program has no reports.                                        *)
ExprTypeOK ==
  /\ phase \in {"lower", "check", "run", "rejected", "done"}
  /\ Len(tys) <= MaxLocals
  /\ \A i \in DOMAIN code : {code[i].dest} \cup Seqs!ToSet(code[i].args) \subseteq DOMAIN tys
  /\ address_taken \cup owns_heap \cup magnets \subseteq DOMAIN tys
  /\ \A i, j \in DOMAIN scopes : \A x \in DOMAIN scopes[i], y \in DOMAIN scopes[j] :
       scopes[i][x] = scopes[j][y] => i = j /\ x = y
  /\ phase \in {"run", "done"} => reports = {}

(* What reaches the output, and how the program ends, when the checkers    *)
(* accepted it and the source runs into none of the disagreements: every   *)
(* value survives the temporaries, slots and magnets it goes through, no   *)
(* freed or unset word is used, and printing finds the right routine.      *)
RunsAsWritten ==
  phase = "done" /\ source.odd = {} =>
    /\ machine.out = source.out
    /\ machine.state = IF source.stopped THEN "stopped" ELSE "runs"

(* docs/OWNERSHIP.md sections 1 to 5: what the checkers accept never uses  *)
(* a variable that was moved or dropped, moves one a magnet is attached    *)
(* to, or writes through a magnet that is read-only.                       *)
AcceptedIsSound == phase \in {"run", "done"} /\ source.odd = {} => source.ok

(* And the other way round: nothing else is reported.  Of a program that   *)
(* stops early the checkers see the rest as well.                          *)
SoundIsAccepted ==
  reports # {} /\ source.odd = {} => ~source.ok \/ source.stopped

(* docs/LANGUAGE.md section 6.2: comparisons go by the operand type, so    *)
(* what is printed is what the comparison of the operands says.            *)
ComparisonsFollowTypes ==
  phase = "done" /\ source.odd = {"signs"} => machine.out = source.out

(* docs/OWNERSHIP.md section 2: reassigning `::name` is E4006, so nothing  *)
(* that runs gives a constant another value.                               *)
ConstantsKeepTheirValue ==
  phase \in {"run", "done"} => "constant" \notin source.odd
=============================================================================
