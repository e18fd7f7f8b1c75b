---------------------------- MODULE BuildCommands ----------------------------
(***************************************************************************)
(* The commands that end in build/debug (src/driver_pipeline/mod.rs,       *)
(* src/codegen/object.rs, src/cli.rs): build, run, test and clean, by      *)
(* several processes that share the directory.  An object and an           *)
(* executable are named after the stem of the source, are written in       *)
(* place, and are read again by name: by the linker and to be run.  The    *)
(* object of the runtime has a module of its own (RuntimeObject).          *)
(***************************************************************************)
EXTENDS Naturals, Sequences

CONSTANTS
  Procs,      \* the processes
  Orders,     \* the commands they may be given: a kind and the inputs
  Stem,       \* the stem of each source file
  Says,       \* what comes of each: Rejected, or what its program exits with
  Entries     \* the sources in each directory, in order, or Unlisted

Success == "exit 0"
Rejected == "rejected"
Unlisted == "unlisted"
Failure == "failure"    \* where the code says Err(())

Missing == "missing"    \* a file: none, cut short, or made of a source
Torn == "torn"
Whole(c) == c \notin {Missing, Torn}

(* A build, a run and what only emits are given one source, for which all  *)
(* the inputs of a build stand; test is given sources and directories, of  *)
(* sources each; clean is given nothing.  A program exits with a code.     *)
BuildConstants ==
  /\ \A o \in Orders :
       \/ o.kind \in {"build", "run", "mir", "obj"} /\ \E f \in DOMAIN Stem : o.inputs = <<f>>
       \/ o.kind = "test" /\ o.inputs \in Seq(DOMAIN Stem \cup DOMAIN Entries)
       \/ o.kind = "clean" /\ o.inputs = <<>>
  /\ DOMAIN Stem \cap ({Missing, Torn} \cup DOMAIN Entries) = {}
  /\ \A d \in DOMAIN Entries : Entries[d] = Unlisted \/ Entries[d] \in Seq(DOMAIN Stem)
  /\ DOMAIN Says = DOMAIN Stem /\ \A f \in DOMAIN Says : Says[f] # Missing

VARIABLES
  order,      \* the command of each process
  left,       \* the sources it has still to build, this one first
  pc,         \* where it is
  held,       \* whether what it is writing is still in the directory
  linked,     \* what its linker read
  verdicts,   \* what came of each source it is through with
  raced,      \* whether another worked on the same stem meanwhile
  exit,       \* with what it exited
  present,    \* whether build/debug is there
  objects,    \* what is in <stem>.o
  executables \* what is in <stem>

buildVars ==
  <<order, left, pc, held, linked, verdicts, raced, exit, present, objects, executables>>

Stems == {Stem[f] : f \in DOMAIN Stem}

Now(p) == Head(left[p])
At(p) == Stem[Now(p)]

(* From the first write of the object to the start of the program.         *)
Busy(p) == pc[p] \in {"filling", "linking", "making", "starting", "orphaned"}

Ends == {"done", "killed", "orphaned"}

BuildInit ==
  /\ order \in [Procs -> Orders]
  /\ left = [p \in Procs |-> order[p].inputs]
  /\ pc = [p \in Procs |-> "compiling"]
  /\ held = [p \in Procs |-> FALSE]
  /\ linked = [p \in Procs |-> Missing]
  /\ verdicts = [p \in Procs |-> <<>>]
  /\ raced = [p \in Procs |-> FALSE]
  /\ exit = [p \in Procs |-> Missing]
  /\ present \in BOOLEAN
  /\ objects = [s \in Stems |-> Missing]
  /\ executables = [s \in Stems |-> Missing]

Makes(p) == pc[p] \in {"making", "orphaned"}

(* Where a process goes, and who it meets there on its stem.               *)
Goes(p, to) ==
  /\ pc' = [pc EXCEPT ![p] = to]
  /\ raced' = [q \in Procs |->
                 \/ raced[q]
                 \/ \E r \in Procs \ {q} :
                      /\ p \in {q, r}
                      /\ Busy(q)' /\ Busy(r)' /\ At(q) = At(r)]

Quiet == UNCHANGED <<order, held, linked, exit>>

Files == <<present, objects, executables>>

(* run_test_file counts, and goes on; build and run are through.  After a  *)
(* failure of one source a test goes on with the next.                     *)
Concludes(p, verdict) ==
  LET all == Append(verdicts[p], verdict)
  IN  /\ verdicts' = [verdicts EXCEPT ![p] = all]
      /\ left' = [left EXCEPT ![p] = Tail(@)]
      /\ raced' = [raced EXCEPT ![p] = FALSE]
      /\ held' = [held EXCEPT ![p] = FALSE]
      /\ pc' = [pc EXCEPT ![p] = IF Len(left[p]) > 1 THEN "compiling" ELSE "exiting"]
      /\ UNCHANGED <<order, linked, exit>>

Verdict(p, outcome) == [file |-> Now(p), outcome |-> outcome, raced |-> raced[p]]

Working(p, at) == order[p].kind # "clean" /\ left[p] # <<>> /\ pc[p] = at

IsDirectory(p) == Now(p) \in DOMAIN Entries

(* read_dir fails: test returns without a count.                           *)
Stops(p) ==
  /\ Working(p, "compiling")
  /\ IsDirectory(p) /\ Entries[Now(p)] = Unlisted
  /\ exit' = [exit EXCEPT ![p] = Failure]
  /\ pc' = [pc EXCEPT ![p] = "done"]
  /\ UNCHANGED <<order, left, held, linked, verdicts, raced, Files>>

(* test goes through the sources of a directory when it comes to it.       *)
Lists(p) ==
  /\ Working(p, "compiling")
  /\ IsDirectory(p) /\ Entries[Now(p)] # Unlisted
  /\ left' = [left EXCEPT ![p] = Entries[Now(p)] \o Tail(@)]
  /\ UNCHANGED <<order, pc, held, linked, verdicts, raced, exit, Files>>

(* build up to its checks; run makes the directory before it.              *)
Rejects(p) ==
  /\ Working(p, "compiling")
  /\ ~IsDirectory(p) /\ Says[Now(p)] = Rejected
  /\ Concludes(p, Verdict(p, Failure))
  /\ present' = (present \/ order[p].kind \in {"run", "test"})
  /\ UNCHANGED <<objects, executables>>

(* create_dir_all in build and in write_object.                            *)
MakesDirectory(p) ==
  /\ Working(p, "compiling")
  /\ ~IsDirectory(p) /\ Says[Now(p)] # Rejected
  /\ present' = TRUE
  /\ Goes(p, "opening")
  /\ Quiet
  /\ UNCHANGED <<left, verdicts, objects, executables>>

(* --emit ast and --emit mir stop here.                                    *)
EmitsText(p) ==
  /\ Working(p, "opening")
  /\ order[p].kind = "mir"
  /\ Concludes(p, Verdict(p, Missing))
  /\ UNCHANGED Files

(* std::fs::write empties the file, or fails where there is no directory.  *)
OpensObject(p) ==
  /\ Working(p, "opening")
  /\ order[p].kind # "mir"
  /\ present
  /\ objects' = [objects EXCEPT ![At(p)] = Torn]
  /\ held' = [held EXCEPT ![p] = TRUE]
  /\ Goes(p, "filling")
  /\ UNCHANGED <<order, left, linked, verdicts, exit, present, executables>>

NoObject(p) ==
  /\ order[p].kind # "mir"
  /\ Working(p, "opening") \/ Working(p, "filling")
  /\ Concludes(p, Verdict(p, Failure))
  /\ UNCHANGED Files

(* Of two writers of one object either is left, or parts of both.          *)
FillsObject(p) ==
  /\ Working(p, "filling")
  /\ \/ /\ held[p]
        /\ objects' = [objects EXCEPT ![At(p)] = Now(p)]
     \/ /\ held[p] => raced[p]
        /\ objects' = [objects EXCEPT ![At(p)] = IF held[p] THEN Torn ELSE @]
  /\ held' = [held EXCEPT ![p] = FALSE]
  /\ Goes(p, "linking")
  /\ UNCHANGED <<order, left, linked, verdicts, exit, present, executables>>

(* --emit obj stops behind the object.                                     *)
EmitsObject(p) ==
  /\ Working(p, "linking")
  /\ order[p].kind = "obj"
  /\ Concludes(p, Verdict(p, Missing))
  /\ UNCHANGED Files

(* The linker reads the object and makes a new file for the executable,    *)
(* in the place of one that another linker may still be writing.           *)
Links(p) ==
  /\ Working(p, "linking")
  /\ order[p].kind # "obj"
  /\ present
  /\ Whole(objects[At(p)])
  /\ linked' = [linked EXCEPT ![p] = objects[At(p)]]
  /\ executables' = [executables EXCEPT ![At(p)] = Torn]
  /\ held' = [q \in Procs |-> q = p \/ (held[q] /\ ~(Makes(q) /\ At(q) = At(p)))]
  /\ Goes(p, "making")
  /\ UNCHANGED <<order, left, verdicts, exit, present, objects>>

(* It ends, also when the process that started it has been killed.         *)
FinishesLink(p) ==
  /\ Makes(p)
  /\ executables' = [executables EXCEPT ![At(p)] = IF held[p] THEN linked[p] ELSE @]
  /\ held' = [held EXCEPT ![p] = FALSE]
  /\ Goes(p, IF pc[p] = "making" THEN "starting" ELSE "killed")
  /\ UNCHANGED <<order, left, linked, verdicts, exit, present, objects>>

MutRunsAnyway(p) ==
  /\ Working(p, "linking")
  /\ order[p].kind # "obj"
  /\ Goes(p, "starting")
  /\ Quiet
  /\ UNCHANGED <<left, verdicts, Files>>

(* There is no linker, or it fails before it touches its output; build     *)
(* returns the error, and what was there before stays there.               *)
LinkFails(p) ==
  /\ Working(p, "linking")
  /\ order[p].kind # "obj"
  /\ Concludes(p, Verdict(p, Failure))
  /\ UNCHANGED Files

Builds(p) ==
  /\ Working(p, "starting")
  /\ order[p].kind = "build"
  /\ Concludes(p, Verdict(p, Missing))
  /\ UNCHANGED Files

MutStartsWhateverIsThere(p) ==
  /\ Working(p, "starting")
  /\ order[p].kind # "build"
  /\ Concludes(p, Verdict(p, executables[At(p)]))
  /\ UNCHANGED Files

(* Command::status on the path of the executable.                          *)
Runs(p) ==
  /\ Working(p, "starting")
  /\ order[p].kind # "build"
  /\ LET there == executables[At(p)]
     IN  Concludes(p, Verdict(p, IF Whole(there) THEN Says[there] ELSE Failure))
  /\ UNCHANGED Files

Passed(p) == {n \in DOMAIN verdicts[p] : verdicts[p][n].outcome = Success}

(* The exit of build, of run and of test.                                  *)
ExitCode(p) ==
  LET last == verdicts[p][Len(verdicts[p])].outcome
  IN  CASE order[p].kind = "test" -> IF Passed(p) = DOMAIN verdicts[p] THEN Success ELSE Failure
        [] order[p].kind = "run" -> last
        [] OTHER -> IF last = Failure THEN Failure ELSE Success

Exits(p) ==
  /\ pc[p] = "exiting" \/ (pc[p] = "compiling" /\ order[p].kind = "test" /\ left[p] = <<>>)
  /\ exit' = [exit EXCEPT ![p] = ExitCode(p)]
  /\ pc' = [pc EXCEPT ![p] = "done"]
  /\ UNCHANGED <<order, left, held, linked, verdicts, raced, Files>>

(* remove_dir_all empties the directory; what others have open is then     *)
(* without a name.                                                         *)
Empties(p) ==
  /\ order[p].kind = "clean"
  /\ pc[p] = "compiling"
  /\ objects' = [s \in Stems |-> Missing]
  /\ executables' = [s \in Stems |-> Missing]
  /\ held' = [q \in Procs |-> FALSE]
  /\ pc' = [pc EXCEPT ![p] = "emptied"]
  /\ UNCHANGED <<order, left, linked, verdicts, raced, exit, present>>

(* A file that came since makes it fail; a directory that is gone is clean. *)
Cleans(p) ==
  /\ pc[p] = "emptied"
  /\ LET empty == \A s \in Stems : {objects[s], executables[s]} = {Missing}
     IN  /\ exit' = [exit EXCEPT ![p] = IF empty THEN Success ELSE Failure]
         /\ present' = (present /\ ~empty)
  /\ pc' = [pc EXCEPT ![p] = "done"]
  /\ UNCHANGED <<order, left, held, linked, verdicts, raced, objects, executables>>

(* The process is killed; a linker it has started goes on.                 *)
Killed(p) ==
  /\ pc[p] \notin Ends
  /\ pc' = [pc EXCEPT ![p] = IF Makes(p) THEN "orphaned" ELSE "killed"]
  /\ held' = [held EXCEPT ![p] = @ /\ Makes(p)]
  /\ UNCHANGED <<order, left, linked, verdicts, raced, exit, Files>>

BuildNext ==
  \E p \in Procs :
    \/ Stops(p) \/ Lists(p) \/ Rejects(p) \/ MakesDirectory(p) \/ EmitsText(p)
    \/ OpensObject(p) \/ NoObject(p) \/ FillsObject(p) \/ EmitsObject(p) \/ Links(p) \/ FinishesLink(p)
    \/ LinkFails(p) \/ Builds(p) \/ Runs(p) \/ Exits(p) \/ Empties(p) \/ Cleans(p)
    \/ Killed(p)

BuildSpec == BuildInit /\ [][BuildNext]_buildVars
-----------------------------------------------------------------------------
Outcomes == {Says[f] : f \in DOMAIN Says} \cup {Success, Failure, Missing}

(* Every process is somewhere, what is in a file was made of one of the    *)
(* sources with its stem, a process that is through has an exit and no     *)
(* source is counted that was not built.                                   *)
BuildTypeOK ==
  /\ \A s \in Stems :
       {objects[s], executables[s]} \subseteq {f \in DOMAIN Stem : Stem[f] = s} \cup {Missing, Torn}
  /\ \A p \in Procs :
       /\ \A n \in DOMAIN verdicts[p] : verdicts[p][n].outcome \in Outcomes
       /\ exit[p] \in Outcomes
       /\ held[p] => pc[p] \in {"filling", "making", "orphaned"}
       /\ pc[p] = "done" <=> exit[p] # Missing

(* What a test has to try for an input: the sources of a directory.  One   *)
(* that cannot be listed is never tried.                                   *)
SourcesIn(input) ==
  IF input \in DOMAIN Entries /\ Entries[input] # Unlisted
  THEN {Entries[input][n] : n \in DOMAIN Entries[input]}
  ELSE {input}

Tried(p) == {verdicts[p][n].file : n \in DOMAIN verdicts[p]}

(* docs/COMPILER.md:84 has `avera test` run each file and count those that *)
(* compile and exit 0.  Whatever is left in build/debug by processes that  *)
(* were killed and by sources of the same stem, and while others write and *)
(* clean there: a program exits as the program of its own source does, and *)
(* a test ends well only if every source it was given was tried and the    *)
(* program of each does, unless another process was at work on the same    *)
(* stem just then.                                                         *)
VerdictIsOfTheFile ==
  \A p \in Procs :
    /\ \A n \in DOMAIN verdicts[p] :
         LET v == verdicts[p][n]
         IN  v.raced \/ v.outcome \in {Failure, Missing, Says[v.file]}
    /\ order[p].kind = "test" /\ exit[p] = Success =>
         /\ \A n \in DOMAIN order[p].inputs : SourcesIn(order[p].inputs[n]) \subseteq Tried(p)
         /\ \A n \in DOMAIN verdicts[p] :
              verdicts[p][n].raced \/ Says[verdicts[p][n].file] = Success
=============================================================================
