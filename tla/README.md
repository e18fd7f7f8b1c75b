# Avera in TLA+

TLA+ modules of the Avera compiler (`src/src`, Rust), TLC configurations that
check them, and TLAPS proofs about the three checkers, drop elaboration, lowering, the loader, the
files compilers share and the runtime library. Line numbers below are
those of the repository; `PROJECT.json` names, for every definition, the lines it
stands for.

Contents: [1 the system](#1-the-system) · [2 the modules](#2-the-modules) ·
[3 the runs](#3-the-runs) · [4 fairness](#4-fairness-and-stopping) ·
[5 proofs](#5-proofs) · [6 what the code does and the docs do not say](#6-where-code-and-documentation-part) ·
[7 what is left out](#7-what-is-not-modelled) · [8 plan](#8-plan)

## 1 The system

`avera build a.av b.av` runs one thread through a pipeline; each stage hands its
result to the next by value, and errors gather in one list of diagnostics that is
looked at between stages (`driver_pipeline/mod.rs:70-182`):

    load_and_parse -> resolve -> lower to MIR -> validate, ownership, borrow, magnet
      -> elaborate_drops -> Cranelift -> object file -> runtime object -> cc (link)

What is shared outside the process is the disk: the sources, and `build/debug`, in
which every compiler started from one directory keeps its objects, and
`avera_runtime.c` / `.o`. A program that was built runs in a process of its own, on the
C library (`RUNTIME_C`) it was linked with.

| Component | State | Operations | What is hard | What makes it correct |
|---|---|---|---|---|
| MIR (`mir/`) | blocks of statements, a terminator each | built by lowering, read by everything after it | any graph: loops, joins, jumps past the end | targets are blocks; paths mean what the checkers assume |
| Ownership checker (`check/ownership.rs`) | a lattice value per local and block, worklist, queued flags, diagnostics | pop, transfer, meet into successors | re-queueing around back edges, a move on one path only | it ends; it rejects exactly the bodies some path of which faults |
| Borrow and magnet checkers (`check/borrow.rs`, `magnet.rs`) | facts per block, reached and queued flags | the same loop with union for meet | the first visit without facts, facts of one path only | facts of all paths, no others; accepted bodies keep their borrows and magnets |
| MIR validation (`check/validate.rs`) | none | lookups, return consistency | a block nothing enters | a non-Unit action that passes cannot end without a value |
| Drop elaboration (`check/drop_elaborate.rs`) | a second ownership fixpoint, the body it rewrites | release lists at each `Return` | conditional moves, copies, reallocation | no double free, no free of what was never assigned, nothing live left |
| Lowering (`driver_pipeline/lower.rs`) | open block, loop stack, growing graph; scopes, types and kinds of locals | one case per statement and per expression | jumps out of nested constructs; dead blocks; temporaries, magnets and heap owners; types that are guessed | the graph does what the statements do; no block is overwritten; what is accepted prints what the statements say |
| Driver, loading (`driver_pipeline/mod.rs:282-504`) | work queue, names and files seen, modules | imports, contracts, `#source` files | one file by several routes; queue order | no file twice; each source loaded or reported |
| Resolution (`resolve/`) | table of definitions | define, match, clash | load order decides what is compared | one implementation per name |
| Runtime object (`driver_pipeline/runtime.rs:309-350`) | `avera_runtime.c`, `.o`, a temporary per process | compare, write, stat, compile, rename, link | concurrent compilers, kills, time stamps, ignored exit codes | no torn object is linked; a build links the runtime it carries |
| Driver, commands (`driver_pipeline/mod.rs:119-250`, `cli.rs`, `codegen/object.rs`) | `<stem>.o` and `<stem>` in `build/debug` | build, `--emit`, run, test, clean | processes that share the directory, kills, one stem for several sources | a program that is run is the program of its source |
| Runtime library (C text in `runtime.rs`) | the heap of the program | alloc, free, text, arrays, reading lines | growth, blocks that move, allocations that fail half way | arrays are sequences; no block leaks, is shared or overrun |
| Code generation (`codegen/`) | SSA values, stack slots | one case per statement and terminator | widths, extension | statements mean what MIR says |
| Module graph (`module/`) | imports by name | names of imports, cycle search (no caller) | two-segment names | names agree between importers |
| Types (`types/`) | fixed ids of the primitive types; an interner nothing fills | intern, lower (no caller) | — | — |
| Lexer (`lexer/`) | position, bracket depth, pending line end, last token | one token per step | which line ends count | statements end where the grammar says |
| Parser (`parser/`) | position in the tokens | recursive descent, precedence climbing | newlines inside expressions, recovery, lists that must move on | the tree follows the precedence table; each part of a file is parsed as if it stood alone; parsing ends |
| AST, formatter (`ast/`, `fmt/`) | the tree | write every form | text that parses to another tree | `fmt` is idempotent and changes nothing |
| Diagnostics (`diagnostics/`) | list, source map | report, render | indices of files | — |
| Command line, manifest (`cli.rs`, `project/`) | options | parse | — | — |

`docs/`, `site/`, `stdlib/`, `examples/` and `tests/` are read as statements about
the program, not modelled.

## 2 The modules

**`Mir`** has bodies, statements and terminators as the checkers read them: places are
cut to their local, an rvalue to how it reads which locals. **`MirPaths`** says what it
is to *run* a body, independently of any checker: positions `<<block, statement, what
the run carries>>`, branches taken either way. All checkers are held against it.

**`Ownership`** is `OwnershipAnalysis::run` with one action per step of the loop:
`PopBlock`, `TransferStmt`, `SkipEdge` (a target that is no block), `Propagate` (meet
into a successor, queue it when something changed), `EndBlock`, `Finish`. `in_states`,
`worklist`, `in_worklist`, `diags` are the code's; `pc`, `idx`, `stmt`, `edge`, `state`
are its control point and locals. A local missing from a block's map is `"absent"`.
**`OwnershipRun`** composes the checker with the run of the body it accepted.
**`CheckerVerdict`** is the abstract specification: one verdict, kept, and `reject` if
and only if some path faults; `OwnershipRun` implements it (`DecidesExactly`, an
`INSTANCE ... WITH` mapping). **`OwnershipPoints`** adds the history variable `point` to the loop, for it and for drop elaboration.

The values, transfer and reports of the ownership checker are in **`OwnershipRules`**, those of
the magnet checker in **`MagnetRules`**; both are shared with `Expressions`.

**`Worklist`** declares the variables of such a loop, which all three checkers share. **`FactFlow`** is the loop that the borrow and the magnet checker share line for line,
parameterised by the graph, facts, transfer and reports; it differs from the ownership loop in
joining by union, in the `reached` flag and in counting a first visit as a change.
**`BorrowCheck`** and **`MagnetCheck`** instantiate it with their maps (as sets of facts),
transfers and diagnostics, and each states its reference: what a path's locals refer to.
**`Checks`** composes the two as `build` does (mod.rs:119-130): one after the other on a
body, each from a fresh map, their reports in one list that decides over the rest.

**`DropElaborate`** runs the `Ownership` actions a second time, as `elaborate_drops`
repeats that fixpoint, inserts the releases (with `Selection`), and runs the result on a heap whose
allocations count their frees.

**`Lowering`** turns statements into blocks with a to-do list for the recursion of
`lower_stmt`, then runs the graph and the statements side by side, both offered the
same choices. Expressions are events. `Grammar(S)` says which statements there are, nested to any depth.

**`Expressions`** is the other half of `lower_stmt` and `lower_expr_into`: a straight-line
action is lowered step by step, checked with `OwnershipRules` and `MagnetRules`, compiled
(registers, stack slots of address-taken locals, words of `WordBits` bits) and run on a heap.
**`ExpressionSource`** says what the same statements mean by docs/LANGUAGE.md and
docs/OWNERSHIP.md, before anything is compiled. Where the code is known to do otherwise the reference
follows the documents and puts a name into `odd`; `RunsAsWritten` and its companions speak of programs with
an empty `odd`, so every disagreement is by name and none goes unseen (section 6).

**`ModuleLoader`** is `load_and_parse` with `load_module_contract` and then
`resolve_module`, over a disk of parsed files. **`Selection`** has the one operator on sequences it shares with `Lowering` and `DropElaborate`.

**`RuntimeObject`** is `build_runtime_object` and the link that follows, one action per
system call, by any number of processes, each of which can be killed at any point. A C compiler that
fails removes its output (`CcFails`); one that is killed leaves what it has written (`CcKilled`), which the code, as it
looks at no status, renames (runtime.rs:338-346). `Crash` and `Tick` are the environment's; `End` is what the end of a
process, however it comes, does to its own state. `misled` notes who took a stale object for current.

**`BuildCommands`** is the rest of `build/debug`: `build` (with `--emit`), `run`, `test` and `clean` by several
processes, one action per file operation or child process. The sources are given by what comes of them (rejected, or
the exit of their program), the inputs of one build count as one source, as they give one object. A
killed compiler leaves its linker running; `clean` empties the directory and then removes it, which fails
when something came in between.

**`RuntimeLibrary`** is the C of `RUNTIME_C`: the block of a handle, its header, the words it
owns, with `calloc` and `realloc` that may fail and move and integers of bounded width. **`ArrayStore`** is
what compiled code counts on, sequences that live from allocation to release; `RuntimeLibrary` implements it (`IsArrayStore`,
an `INSTANCE ... WITH` mapping in which a text that is still being filled is not yet a handle).

**`Lexer`**, **`Parser`**, **`ItemParser`**, **`Formatter`**: the text side. `Lexer` folds over pieces
of text. `Parser` has a rule per `parse_*` function of types, expressions, patterns and statements, and
`ItemParser` one per rule of declarations and directives with `parse` of whole files and its recovery: tokens and
position in; tree, position and "nothing reported" out. The rules call each other through one recursive function,
`Grammar`, and a loop that does not move on leaves an `endless` node. `Formatter` is the `fmt` command run again
and again on one file: `Lex`, `Parse`, `Write`.

**`OwnershipProofs`**, **`FactProofs`** (the borrow and magnet checkers), **`DropProofs`**, **`LoweringProofs`** (the graph while it is built) and **`SimulationProofs`** (the graph beside
the source), **`DriverProofs`** (the loader, and the commands) and, for building
the library and for the library itself, **`RuntimeProofs`** hold the theorems about the modules they extend;
**`SequenceFacts`** holds the lemmas on sequences, ends and folds they share.

The `MC*` modules give the constants their values. `MCPasses`, `MCRuntime`, `MCFrontEnd` and `MCLowered` each hold several models of
one stage side by side: a behaviour chooses one in its initial state and the variables of the others never
change, so the states are the disjoint union of those of the parts. The two of `MCPasses` share the variables of the loop they have in common. In `MCRuntime` the two parts, building the
library and calling it, follow each other.

## 3 The runs

| Run | Checks | Instance | Distinct states |
|---|---|---|---|
| `ownership` | `TypeOK`, `QueueMatchesFlags`, `AcceptedRunsClean`, `InStatesDescend`, `Terminates`, `DecidesExactly` | 14,580 bodies: 3 blocks, 2 locals, 5 control-flow shapes (join, loop with exit, nested and self loops, dangling target), 9 statements | 307,269 |
| `passes` | `CheckTypeOK`, `FactsOfAllPaths`, `BorrowVerdict`, `AcceptedFactsHold`, `FactChecksEnd`; `DropTypeOK`, `FreesOnlyAssigned`, `UnsharedFreedOnce`, `LiveOwnersReleased` | 17,553 bodies of 3 blocks and 3 locals for the borrow and magnet checkers; 6,160 of 3 blocks, a parameter, two owners and a void destination for drop elaboration, up to 4 allocations | 780,622 |
| `runtime` | `RtTypeOK`, `NeverLinksTornObject`, `CurrentUnlessRacedOrTied`; `LibTypeOK`, `OneOwnerPerBlock`, `SpareWordsZero`, `IsArrayStore` | 3 symmetric processes, clock to 2, 12 directories left behind; 4 calls on up to 3 handles, one word and a line end, longs to 127, sizes to 255, lengths 1, 11, 12 and 124 | 1,646,741 |
| `front_end` | `LdTypeOK`, `NoFileTwice`, `SourcesLoadedOrReported`, `OneImplementation`; `WritesWhatItRead`, `OperatorsBindAsDeclared`, `PartsStandAlone`, `ListsMoveOn`; `BuildTypeOK`, `VerdictIsOfTheFile` | projects of 7 files, every command line of one or two; every form of expression, statement, declaration, type and directive, alone and below each other, all pairs of operator levels, two rounds of `fmt`; two processes with any two of 12 commands, 4 sources, 3 of one stem | 404,524 |
| `lowered` | `LowTypeOK`, `NothingClobbered`, `GraphFollowsSource`, `AcceptedActionsReturn`; `ExprTypeOK`, `RunsAsWritten`, `AcceptedIsSound`, `SoundIsAccepted` | two nested constructs of every kind, every way to leave a block; programs of a start, any two of the steps of their family (numbers, constants, magnets, texts, objects) and an end, with both orders of the shapes | 618,613 |
| `drops_fault`, `duplicate_exports`, `for_continue`, `returns_rejected`, `wrapping`, `signed`, `constants` | one property each, found violated: section 6 | as above | |

Why the bounds are enough. Fixpoint bugs need a back edge, a join of two different
states and a second visit; three blocks have all three, and two locals are the least that a
move needs. `PathBound` only bounds how long `MirPaths` walks: each of 20 (`ownership`),
24 (`passes`) and 16 (`drops_fault`) was compared with walks six steps longer, for every body of the run,
and nothing was added. In `ownership` and `passes` TLC also evaluates it with each run: `RunsCovered` (for the walks of ownership) and `PathsCovered` (for those of
the borrow and magnet checkers) say that no path goes on from where the walks of that length have come. `MaxAllocs` = 4 lets an owner be given memory in two turns of a
loop. A clock of 2 gives "earlier than", "same tick" and "later than"; the third process lets
two race while another profits. Two nested constructs are enough for each
construct's jump to land behind each way to leave a block. Two rounds of `fmt` are the two
that idempotence speaks of. The lengths of the library are those at which growth changes: 1 fills
and doubles, 11 is as many words as fit after one doubling, 12 passes it and 124 is next to what a long holds. `WordBits` = 7 leaves room for
all bytes of texts and makes sums, products and negations wrap; `MaxLocals` = 60 is above what any program
of the run needs, which `ExprTypeOK` checks. Two steps in a straight-line program make one use what the other
left. Two processes are all that `VerdictIsOfTheFile` can tell apart: a source is excused or not by whether any other is at
work on its stem, and left-over files come from a test of several sources in one process.

What the properties say, beyond their comments in the modules:

* `QueueMatchesFlags`, `InStatesDescend`, `Terminates`: the three things that can go wrong with a
  hand-written worklist (a lost change, a non-monotone join, an endless queue).
* `DecidesExactly` is soundness *and* completeness of the ownership verdict for statements;
  what terminators read is not looked at by the checker (`TerminatorsReadLive` is defined
  for the day lowering puts a named local there).
* `FactsOfAllPaths`: the facts of a reached block are exactly those with which some path
  arrives, and the reached blocks exactly those some path leads to.
* `BorrowVerdict` and the borrow half of `AcceptedFactsHold` are stated for bodies that do not copy the holder of a
  borrow; the magnet half for magnets used as lowering uses them (`MagnetsAreTyped`).
* `UnsharedFreedOnce` is stated for bodies without pointer copies; with them see `drops_fault`.
* `CurrentUnlessRacedOrTied` says of each process what can make it link another runtime than its own. Its own write or C compiler
  failed. Or it raced another build and the source was rewritten: a build can truncate `avera_runtime.c` (runtime.rs:318) while the
  C compiler of another reads it (`tests/common/mod.rs` runs builds that way). Or it was `misled`: it took a stale object for
  current. After such a race that is any stale object not older than the source, as the one made from the truncated text passes for
  current from then on, also for a process that runs alone later. Without a race it is a stale object of exactly the source's
  tick: `obj_time >= src_time` (runtime.rs:324) cannot tell an object an old compiler made from one made of the source
  rewritten in the same tick. The run reaches both: without that excuse TLC finds a single build, where nothing raced or failed, that
  begins with an old object and a new source of one tick and links the old runtime five states on. So docs/COMPILER.md:63-64,
  which has every build compile the source it wrote, is kept only up to the resolution of file times.
* `NeverLinksTornObject` excuses runs in which a C compiler was killed while it wrote: what it left is renamed and linked, and the run
  reaches that too.
* `GraphFollowsSource` leaves out runs that took a `continue` in a counted loop: section 6.
* `RunsAsWritten` holds every temporary, slot, magnet and release of a program against what it should print; `AcceptedIsSound` and
  `SoundIsAccepted` say that the checkers reject exactly the programs whose statements use what is gone. All three are stated for programs
  that run into none of the disagreements named in section 6.
* `IsArrayStore` says that no growth, refusal or half-made text changes what another handle holds; `OneOwnerPerBlock` that nothing
  leaks when a call fails in the middle.
* `VerdictIsOfTheFile` leaves out a source whose stem another process is at work on just then: without that
  exception TLC finds `avera run a/x.av` starting the program of `b/x.av`. With it, files left by kills, by failed links and by
  other sources of the stem never decide a test, since every one of them is written anew or its failure reported before it is read.
* `WritesWhatItRead` is stated for `Writable` trees: section 6 lists the others. `PartsStandAlone` is about line ends and recovery: what
  a line is parsed to does not depend on its neighbours. `ListsMoveOn` names the three lists that do not end.

**Hazards without a property** (`PROJECT.json` has the reason for each): names marked before they are found (mod.rs:363), `..` in a path
(mod.rs:497) and the position of an unreadable input (mod.rs:344) in the driver; arm guards (lower.rs:353); `else` in `fmt` (fmt/mod.rs:253).

## 4 Fairness and stopping

The two liveness properties are about the checkers' loops: `Terminates` under
`WF(CheckStep)` and `FactChecksEnd` under `WF` of the checkers' steps. The compiler is one thread that waits for
nothing in these loops, so a step that can be taken is taken. No other
specification assumes fairness. `CHECK_DEADLOCK FALSE` is in every configuration because each system
really stops: the compiler finishes, processes end or are killed, the program returns.

## 5 Proofs

A theorem holds for every value of the constants and every reachable state, where a run checks one instance. What each
theorem assumes of the constants is named, and TLC evaluates it on the instances of the runs:

| Theorems | Module | Assumed of the constants | Why the code justifies it |
|---|---|---|---|
| `CheckerTyped`, `LoopTypeCorrect`, `Descent`, `Acceptance` | `OwnershipProofs` | `NBlocksAssumption`, `BodiesAssumption`: a body has a block, statements and terminators have their shapes | `Body` and its vectors (mir/body.rs); lowering allocates the entry first |
| `VerdictIsExact` | `OwnershipProofs` | those, and `RunsCovered(Bodies)`: walks of `PathBound` steps come wherever paths come | a bound of the model alone: each finite body has one that is large enough |
| `ElaborationTyped`, `ReleasesAreAssigned`, `NoDoubleFree` | `DropProofs` | the first line's, and `DropConstants`: `LocalOrder` lists every local once, `Unset` is no number, `MaxAllocs` has room for the parameters; a call frees its destination only to give it new memory at once | `locals` is a vector; `emit_heap_call` and its callers (lower.rs:265-282) |
| `OwnersReleased` | `DropProofs` | those, and `RunsCovered(Bodies)` | as above |
| `FactsTyped`; `AcceptedFacts` | `FactProofs` | the first line's; `FactConstants`: the marks `"none"`, `"raw"`, `"dropped"` of the reference are no locals | `LocalId` is an index |
| `FactsAreOfAllPaths`, `BorrowsJudged` | `FactProofs` | also `PathsCovered`, as `RunsCovered` for their paths | as above |
| `GraphStaysFormed`, `BlocksKept` | `LoweringProofs` | `Grammar(S)`: the statements S are closed under nesting, an `if` has a first arm, a `return` has a value or has none | `StmtKind` (ast/stmt.rs:34-102); the parser reads the first arm before it looks for others |
| `GraphIsSource`, `AcceptedReturn` | `SimulationProofs` | `Grammar(S)` | as above |
| `LoaderTyped`, `FilesReadOnce`, `SourcesAnswered`, `NamesImplementedOnce` | `DriverProofs` | `LoadConstants`: a disk maps paths with a stem to what the parser makes of the file, inputs are paths | no file has an empty name; `load_and_parse` reads nothing else (mod.rs:282-400) |
| `TypesKept`, `NoTornObjectLinked`, `BuildsAreCurrent` | `RuntimeProofs` | `ClockAssumption`; `InitialAssumption`: no file left behind is torn or from the future, and an object of another text than `RUNTIME_C` is not newer (it may be of the same tick) than a source that holds it | what builds that did not race, and whose C compilers were not killed, leave: objects appear by rename, and a source is rewritten only when its text differs (runtime.rs:309-350). File times do not run backwards |
| `BuildFilesTyped`, `VerdictsAreOfTheFiles` | `DriverProofs` | `BuildConstants`: orders are command lines of given sources, a directory lists sources, a program exits with something | `cli.rs`; mod.rs:119-250 |
| `MemoryTyped`, `BlocksOwned`, `SpareWordsCleared` | `RuntimeProofs` | `LibraryAssumption`: widths, sizes and lengths are naturals, a word is not empty | C |
| `LibraryIsArrayStore` | `RuntimeProofs` | `LibraryAssumption` | C |

**The ownership checker.** `LoopTypeCorrect` is `Spec => [](TypeOK /\ QueueMatchesFlags)`; `Descent`: every step lowers in-states
or leaves them, by `MeetLemma`; `Acceptance`: what the checker accepts never reads, moves
or drops a local without a live value, on a path of any length.
`AcceptedRunsClean` is not inductive: it speaks of a verdict that is the result of the whole
loop. The inductive invariant `RunInv` adds to the types

* `Settled`: a reached block that is neither queued nor in progress was last transferred
  from the in-state it has now, what it misuses has been reported, and its out-state has been met into
  its successors;
* `Working`: the same for the part of the block in progress that is behind the control point;
* `EntryStrict`, `QueuedReached`: where paths start, and that the queue holds reached blocks only;
* `RunFollows`: after acceptance, a local the checker took for live at a point is live in the
  run at that point.

The history variable `point` (the map before each statement at its last transfer) lets these be
said. `TransferSound` is the step of the argument for one statement, `UpdateFacts` for the meet
into a successor, and each action has its lemma `...KeepsRunInv`.

`VerdictIsExact` is the refinement of `CheckerVerdict`, and needs the other direction too: what is reported does happen. `Backing` says it
as for the fact checkers (below): take any set of positions (a place in the body, and the locals live there) that holds the start and is closed under the moves of the body; then whatever
an in-state or the map in progress does not call `Init` is missing in some position of the set at that place, and every report is of a fault in it. A join keeps it, because it calls a local
less than `Init` only if one of the two sides did. With the set of all walked positions, which `RunsCovered` says is closed, a rejected body has a path that faults; an
accepted one has none, because the settled maps give a closed set without a fault (`SilenceIsClean`). The verdict steps once, at `Finish`.

**The borrow and magnet checkers.** The two instances of the loop have the same steps (`OneLoop`), so one invariant serves both; `Learnt` and `Found` are transfer and
reports of the one that is running. None of the three properties is inductive: they speak of the end of the loop. `FactInv` adds to the types

* `Settled`, `Working`: a reached block that nobody has to visit again was gone through with all that is known at its start, what it gives rise to was
  reported, and what came out has arrived behind its edges. Here the maps in between are quantified (`Walk`), there is no history variable. At the end of the
  loop it follows that every path stays within the fixpoint (`WaysWithin`): no fact is lost;
* `Backing`: every fact of an in-state, and every report, is brought by a *way*, whatever set of positions is closed under the moves of the body. It is kept because
  a fact after a statement was made by it or comes of a single fact before it (`LearntByOne`): no fact is made up where paths meet;
* `BorrowsKept`: the borrow checker's maps are gone when the magnet checker starts, what its silence was worth must be kept through the second loop.

Bounded walks are reached sets: `SpreadIs` shows them to lie in every set that paths cannot leave, which is all that `AcceptedFacts` needs, for any bound. The other
direction needs walks that are themselves closed, hence `PathsCovered`. That the facts of the magnet checker speak of a run's magnets (`Told`) is kept by each statement that
is not reported (`HandlesTold`); as long as no holder of a borrow is copied a run's references are the borrow checker's facts (`RefsAreOrigins`).

**Drop elaboration.** The pass runs the checker's loop again, so `DropProofs` takes `RunInv` from an instance of `OwnershipProofs` in which the
program stands still, once for each loop. When a loop is through and has reported nothing, `point` is a `Solution` of the data-flow equations;
the second loop starts over on the same body and stays `Above` the solution the first one left, which is why it has nothing to report and its
reports need not be looked at. The releases are sequences built by folds (`SequenceFacts`), and say where a local is released:
where it is `Init` at the end. About the run, `UnsharedFreedOnce` is not inductive, since the counts of frees do not say who may free next. `DropInv` adds `Sound(HeldAt(at, pos), ...)`: of
the locals that the solution calls live before the statement the program is at, and that it has not just released (`HeldAt`), each has a value, and,
as long as no pointer was copied, no two the same memory, and none of that memory was freed. `Takes` and `Leaves` say what a statement needs of this set and how it changes it.
For `OwnersReleased` the run must also have done the releases it is past (`FreedUpTo`), and what is live on all paths to a Return must be `Init` where the releases are chosen: that is `Backing` of the
checker, carried from the in-state through the statements of the block (`LiveIsInit`).

**Lowering.** `NothingClobbered` says that no step writes over a block that has its terminator. It depends on what the lowerer is *going* to do:
the step that begins a block is on the to-do list long before the block is current. `LowInv` therefore speaks
of the list (`Agenda`): each block that was allocated and not begun is promised by exactly one step of the list (`Once`), is open, and is not the
current one; behind a jump comes the start of a block (`Leads`); the current block is open unless a start
comes next; and the list leaves as many loops as `loop_ctx` holds, without which `break` and `continue` have no frame to find. A step puts a list of steps
(a *piece*) before the rest; the lemmas on pieces say what each construct begins and leaves.

`GraphFollowsSource` compares the graph with the statements over a run of both, so its invariant must say what each block is *for*. `Sim` does, by a map `K` from blocks to what the source has
still to do where the block begins. A finished block is `Right` if it realizes its `K`: between steps of the source that cannot be seen (`Path`), the source does the block's events in their
order, and then what the terminator says, so that the next block's `K` is what is left. While it lowers (`Followed`), the lowerer's to-do list is a
`Thread`: each task leads from a place to the next, a place being what the source has still to do, in which loops, and the blocks still to be begun (`Goes`). Each action
of the lowerer has a lemma (`...Carries`) that finds the `K` of its new blocks and a thread through its new tasks; those of `if` chains and of `match` go
through a list of arms. When it runs (`Together`), what is left of the block is what is left of the source; `break` and `continue` cut the source at the end of the right iteration
because the first one to end is that of the innermost loop (`Within`). A `continue` in a counted loop goes to the header, where the source goes to the increment: there, and only there, a
terminator is excused (`Skips`).

`AcceptedActionsReturn` needs one thing more. That the graph is right as far as it goes does not keep it from going round in empty blocks for ever while the source is at its end. So
`Right` also says that a goto either costs the source a step or is to a block that has an event or was finished later (`Q` is the order). From a block that leads to an end
without a value one comes to another such block that is nearer to that end or as near and later (`Onwards`), which cannot go on for ever (`NoneNears`): the end is a
`Returns(FALSE)` of the graph, and an accepted graph of an action that is not `Unit` has none.

**The loader.** `LdInv` says where each file that was read is (a module, or being parsed), what has become of each `#source` of the
contracts read (loaded, reported or queued), and what the table holds of the declarations it has been through, by position. Only the last
of these makes `OneImplementation` inductive: the table remembers of a name only whether it is a contract, and an error, once found, excuses
what follows.

**The runtime object.** Two invariants: `RtInv` (types, and that no finished object is torn while no C compiler was killed) and `CurInv`: a
process that has not raced is alone (`Apart`); until builds raced over a rewritten source, a stale object is not newer than a source that holds `RUNTIME_C` (`StaleNotNewer`);
and each process whose source nobody has spoilt (`Calm`) holds what its place in the program says (`Follows`). `Calm` is said of one process, so
what happens to others is no excuse for it. "Not newer" is all that can be kept, so a hit leaves only the tie, which `misled` notes.

**Builds.** `BuildInv` has two halves: where a process is and what it has counted and has still to count, and, as long as nobody met it on its stem,
what its two files hold. Two at work on one stem both count as raced (`Meet`). A step moves one process, so each action has a lemma
for the one that moves and `OthersInPlace`, `OthersCounted` and `Untouched` are for all others.

**The runtime library.** `LibInv` is `Sound` (each array's block is allocated, large enough and its own, each allocated block is some array's), `Tidy` (the words
no array uses are zero) and `LoopOK` (what an unfinished concatenation or line has filled is a prefix of its answer, in a block no operand owns). The first two are
predicates of a memory rather than of the variables, as `push` grows and stores in one step. The refinement `LibraryIsArrayStore` is proved action by action: `ArraysSeen` and
`InputSeen` are the mapping, a step of a loop maps to a stutter (a text that is being filled is not yet a handle; bytes already read still count as unread) and
the step that ends it to the call.

**Recursion.** The induction theorems of the library take an operator as a parameter, which no installed prover can instantiate. `SequenceFacts` gets by
with sets: `WFMin` gives a set of naturals its least element (`LeastNatural`), from that `Inducted` gives induction over a set, and with it what
the folds the models use return (`Only`, `FlattenSeq`) is proved, as far as a proof asks for it.

`FactConstants`, `PathsCovered`, `RunsCovered`, `DropConstants`, `BuildConstants`, `LoadConstants` and `Grammar` say what their modules take for granted of the constants; nothing but the theorems
and the assumptions of `MCOwnership`, `MCPasses`, `MCFrontEnd` and `MCLowered`, where TLC evaluates them, refers to them.

The inductive invariants were first checked with TLC on the instances of the runs, but for what quantifies over sets TLC cannot enumerate: of `DropInv` the existence of the first loop's solution
during the second loop; `Backing` of the three checkers and `BorrowsKept` for the sets the walks reach only, and `Working` of `FactInv` but for a block that is queued again; of `Sim` the
existence of `K` and `Q`, of which TLC checks only the consequences that the theorems state.

**Only model-checked.**

* Liveness (`Terminates`, `FactChecksEnd`): out of the prover's reach.
* `WritesWhatItRead`, `OperatorsBindAsDeclared`, `PartsStandAlone`, `ListsMoveOn` (`Lexer`, `Parser`, `ItemParser`, `Formatter`) and `ExprTypeOK`, `RunsAsWritten`, `AcceptedIsSound`,
  `SoundIsAccepted` (`ExpressionSource`, `Expressions`): what recursive operators over trees compute, which is induction over data, and declaring one costs a module its SMT backend.

## 6 Where code and documentation part

Each of the first seven is a run that ends in a counterexample.

* `drops_fault`: copying a heap pointer (`Use`) leaves two owners. `:a = "x"` `return a` lowers to a
  copy and a `Return` of the copy; `elaborate_drops` frees `a` before it. docs/OWNERSHIP.md:100.
* `duplicate_exports`: with the implementation loaded first, every contract that follows
  counts as its match (resolve/mod.rs:75), so a second export is accepted. tests/modules.rs:196.
* `for_continue`: `continue` in a counted loop jumps to the test, past the increment
  (lower.rs:659). docs/LANGUAGE.md §7.4.
* `returns_rejected`: dead blocks count as entering the last block (lower.rs:1783), so an
  action all of whose paths return or panic (in TLC's trace, two arms that panic) is rejected for "returning without a value". Comment at lower.rs:1767.
* `wrapping`: a line end behind a token that continues the line is not dropped but stays
  pending and comes out before the next token but one (lexer.rs:144), so
  `:a =` / `a.b` on two lines parses as two statements without a report. docs/grammar.md §8.
* `signed`: a comparison is compiled by the type of its result, so `-1 > 1` (cranelift.rs:691). docs/LANGUAGE.md §6.2.
* `constants`: `::x` can be assigned again (lower.rs:871). docs/OWNERSHIP.md §2.

What `ExpressionSource` notes in `odd`, each name a disagreement of lowering with the documents:

| `odd` | The code | The documents |
|---|---|---|
| `signs` | comparisons, shifts and divisions go by the type guessed for the whole expression | LANGUAGE.md §6.2 |
| `constant` | see `constants` | OWNERSHIP.md §2 |
| `overwritten` | `x = 1 - x` lowers into `x` itself, so the right operand reads the new value (lower.rs:913-1251) | the assigned value is computed first |
| `freed` | a local given an allocating expression frees what it had, whoever else holds it (lower.rs:266) | OWNERSHIP.md §4 |
| `added handles` | `s += "x"` adds the two handles as numbers | what `s + "x"` gives |
| `compound` | `pt.x += v` and `m += v` through a magnet ignore the operator | LANGUAGE.md:382 |
| `element` | `a[i] = v` lowers to nothing | the element is assigned |
| `field`, `method` | the first shape that has the field decides its place, and a method is found by the end of its name (lower.rs:200, 1290) | the type of the value decides |
| `retarget` | `m -> other` attaches to a copy (lower.rs:672) | MAGNET.md |
| `parameter` | the stack slot of a parameter a magnet is attached to is never filled | MAGNET.md |
| `call through a magnet` | passes the address of the slot | the value behind it |
| `printed as a number` | variables of Bool and Char and large UInts print as signed numbers | LANGUAGE.md:530 |
| `stderr` | `eprint` writes to standard output | LANGUAGE.md:526 |

Binding `:x` twice in one scope is an error (lower.rs:434-439), though LANGUAGE.md:255-258 and OWNERSHIP.md:58 let the second replace
the first; `input()` reads a line as a Text, though LANGUAGE.md:527 has it read an integer. The reference follows the code in both.

Limits of `avera fmt`, which `Writable` keeps out of `WritesWhatItRead`, against
docs/LANGUAGE.md §10:

* `else` and the bodies of arms are written without `will` (fmt/mod.rs:253, 289-304): if they hold several
  statements the text does not parse back to them.
* A single-statement `else` wants `finish` right behind it (stmt.rs:139): a statement that does not take the
  line end along (`return`, `break`, a drop, a nested construct) is rejected, and that is the form `fmt` writes.
* A mutable borrow is written `&!`, which lexes as one token that no parser takes, in types and parameters too; likewise `& &x` is
  written `&&x`, and nested generics end in `>>`.
* The line end behind the `>` of a type is suppressed as after an operator, so what follows a field or a signature without a body
  that ends so joins it.
* Attributes are written on a line of their own, where the parser does not take them (LANGUAGE.md §9 shows them there).
* `()` and `self` as types are written `Unit` and `Self`; the name a foreign action links to, type parameters of an `implement` and
  bounds of type parameters are not written.
* `a.~p` is written `~a.p`, which is read back only if `a` is a plain name, and a statement
  that begins with `~` is read as a binding.
* After a parse error, and with comments, `fmt` still writes back what its tree holds (mod.rs:264).

Limits of the parser that the model shows:

* `implement` blocks with actions never parse, since `parse_action` takes the name for the keyword (LANGUAGE.md:147 has them parsed);
  neither do `&self` receivers (LANGUAGE.md:172) and `#std.x` imports.
* Behind a line that is no declaration, `parse_item` and then `parse` each skip to the next one (parser/mod.rs:58): the declaration
  between is lost.
* Lists of variants, of abilities and of foreign actions stay where they are on a line that is no member, and the compiler hangs.

Notes on texts that the models follow the code in: docs/MIR.md §8 calls the borrow and magnet
checkers per-block, they run over the whole graph; docs/OWNERSHIP.md §5.1 describes the lattice
in words that would not make the meet of `Uninit` and `Init` `Uninit`, which the code does; lowering emits no `Borrow`
rvalue today (cranelift.rs:493), so borrow facts come from hand-built MIR only.

## 7 What is not modelled

* In lowering: floats, casts, capacities, slices, paths of more than two names, match guards, raw blocks and `for` over anything but
  a range, and expressions across branches: `Lowering` has branches and no values, `Expressions` values and no branches. The MIR given to
  the checkers' models is any MIR, so what lowering cannot produce is covered as well.
* Index elements and projections of places in the checkers; SSA construction, several value widths and
  calling conventions in code generation; `avera_read_i64`, which nothing lowers to, and the digits of numbers in the runtime library.
* Absolute `#source` paths, action names with receivers and manifest projects; `fmt --check`.
* Literals, comments and the inside of words in the lexer; literals other than integers in expressions; indentation.
* `types/`: lowering uses the fixed ids of the primitive types only. `TyLowerer` and the constructors of composite types, like
  `ModuleGraph::detect_cycles`, have no caller, so no state of the program depends on them.
* Rendering of diagnostics and parsing of arguments and manifests: text to text, with no state to go wrong in between.

## 8 Plan

The order so far was by what an error would cost: the checkers that programs are accepted by, what becomes
of accepted programs (drops, control flow, expressions, the library they run on), the files compilers share, loading, text.

Next modules:

1. Expressions across branches: `Expressions` on the graphs of `Lowering`, for owners that are given memory in one branch only.
2. Widths: integers modulo 2^w through calls, casts, returns and switches (cranelift.rs 33-105, 620-800).

Next proofs: the parser and the evaluation of expressions restated with recursive functions on the depth of trees, so that their typing can be proved without
`RECURSIVE` (`ExprTypeOK`, the control part of `ListsMoveOn`); and, as far as induction over sets (`Inducted`) reaches, the decrease of the order by which
`Terminates` holds, of which `Descent` shows that no step goes up in it.
