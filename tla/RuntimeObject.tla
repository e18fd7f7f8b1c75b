---------------------------- MODULE RuntimeObject ----------------------------
(***************************************************************************)
(* build_runtime_object (src/driver_pipeline/runtime.rs) run by several    *)
(* compiler processes at once over the build/debug directory they share,   *)
(* as `cargo test` does (tests/common/mod.rs runs every `avera build` in   *)
(* the same directory).  Each process rewrites avera_runtime.c when its    *)
(* text differs, returns the cached avera_runtime.o when that is at least  *)
(* as recent, and otherwise compiles to a temporary object it renames over *)
(* the cached one; `build` (driver_pipeline/mod.rs) then links the path it *)
(* returned.  A process can be killed at any step, and so can its C        *)
(* compiler; the C compiler and the write, whose results the code          *)
(* discards, can fail.                                                     *)
(***************************************************************************)
EXTENDS Naturals

CONSTANTS
  Builders,   \* the compiler processes
  MaxClock,   \* bound on file-system time
  Initial     \* the [source, object] pairs an earlier compiler can leave

ASSUME ClockAssumption == MaxClock \in Nat \ {0}

VARIABLES
  source,     \* avera_runtime.c
  object,     \* avera_runtime.o
  tmp,        \* each builder's temporary object
  clock,      \* the time the file system stamps writes with
  pc,         \* where each builder is in build_runtime_object
  sourceTime, \* src_meta.modified() as each builder read it
  compiling,  \* the source text each builder's C compiler has read
  path,       \* the path each builder returned: "cached" or "own"
  linked,     \* what the linker found at that path
  failed,     \* builders whose write or C compiler failed
  misled,     \* builders that took a stale object for current (Misleading)
  raced,      \* builders that were active while another one was
  killed,     \* some C compiler was killed while it wrote
  rewritten   \* some builder truncated the source

files == <<source, object, tmp, clock>>
locals == <<sourceTime, compiling, path, linked>>
events == <<failed, misled, raced, killed, rewritten>>
vars == <<files, pc, locals, events>>

(***************************************************************************)
(* A file is its contents and modification time.  "new" is RUNTIME_C or    *)
(* what it compiles to, "old" an earlier compiler's text, "empty" what     *)
(* truncation leaves (an empty translation unit compiles), "torn" an       *)
(* object still being written, or left so when its C compiler was killed.  *)
(***************************************************************************)
Texts == {"absent", "empty", "old", "new"}
Contents == Texts \cup {"torn"}
File(contents, time) == [text |-> contents, time |-> time]
Absent == File("absent", 0)
Exists(f) == f.text # "absent"
Stale(f) == f.text \in {"empty", "old"}

Files == [text : Contents, time : 0..MaxClock]

\* What builds that did not race, and whose C compilers were not killed,
\* leave: nothing from the future, no torn file, and no object of another text
\* that is newer than a source holding RUNTIME_C, since that object was there
\* when the source was written.  The two can have been stamped in the same
\* tick, or be in the tick these builds begin in.
ASSUME InitialAssumption ==
  \A left \in Initial :
    /\ left.source \in Files /\ left.object \in Files
    /\ "torn" \notin {left.source.text, left.object.text}
    /\ left.source.time <= 1 /\ left.object.time <= 1
    /\ Stale(left.object) /\ left.source.text = "new" =>
         left.object.time <= left.source.time

Running == {"write", "fill", "statSource", "statObject", "compile", "ccWrite",
            "rename", "link"}

RtInit ==
  /\ \E left \in Initial : source = left.source /\ object = left.object
  /\ tmp = [p \in Builders |-> Absent]
  /\ clock = 1
  /\ pc = [p \in Builders |-> "idle"]
  /\ sourceTime = [p \in Builders |-> 0]
  /\ compiling = [p \in Builders |-> "absent"]
  /\ path = [p \in Builders |-> "none"]
  /\ linked = [p \in Builders |-> "unlinked"]
  /\ failed = {} /\ misled = {} /\ raced = {}
  /\ killed = FALSE /\ rewritten = FALSE

Goto(p, where) == pc' = [pc EXCEPT ![p] = where]

\* Time passes between the steps; at most MaxClock ticks.
Tick ==
  /\ clock < MaxClock
  /\ clock' = clock + 1
  /\ UNCHANGED <<source, object, tmp, pc, locals, events>>

\* read_to_string(&rt_path), compared with RUNTIME_C.
NeedWrite == source.text # "new"

\* Whoever is active when p begins has raced, and so has p.
CompareSource(p) ==
  /\ pc[p] = "idle"
  /\ Goto(p, IF NeedWrite THEN "write" ELSE "statSource")
  /\ LET others == {q \in Builders : pc[q] \in Running}
     IN  raced' = raced \cup others \cup {q \in {p} : others # {}}
  /\ UNCHANGED <<files, locals, failed, misled, killed, rewritten>>

\* fs::write opens the file with truncation...
TruncateSource(p) ==
  /\ pc[p] = "write"
  /\ source' = File("empty", clock)
  /\ rewritten' = TRUE
  /\ Goto(p, "fill")
  /\ UNCHANGED <<object, tmp, clock, locals, failed, misled, raced, killed>>

\* ...and writes the text; an error of either step is dropped by .ok().
FillSource(p) ==
  /\ pc[p] = "fill"
  /\ source' = File("new", clock)
  /\ Goto(p, "statSource")
  /\ UNCHANGED <<object, tmp, clock, locals, events>>

WriteFails(p) ==
  /\ pc[p] \in {"write", "fill"}
  /\ failed' = failed \cup {p}
  /\ Goto(p, "statSource")
  /\ UNCHANGED <<files, locals, misled, raced, killed, rewritten>>

StatSource(p) ==
  /\ pc[p] = "statSource"
  /\ sourceTime' = [sourceTime EXCEPT ![p] = source.time]
  /\ Goto(p, IF Exists(source) THEN "statObject" ELSE "compile")
  /\ UNCHANGED <<files, compiling, path, linked, events>>

\* The object is at least as recent as the source.
MutOlder(obj, time) == obj.time <= time
UpToDate(obj, time) == obj.time >= time

\* Builders raced, and the source was rewritten.
Mixed == raced # {} /\ rewritten

\* What can pass for current and is not: a stale object whose time is not
\* before the source's; and which is of the very same tick, unless there was
\* a race.
Misleading(obj, time) ==
  /\ Stale(obj) /\ obj.time >= time
  /\ obj.time > time => Mixed

\* The cache hit returns the cached path, the miss goes on to compile.
StatObject(p) ==
  /\ pc[p] = "statObject"
  /\ LET hit == Exists(object) /\ UpToDate(object, sourceTime[p])
     IN  /\ Goto(p, IF hit THEN "link" ELSE "compile")
         /\ path' = [path EXCEPT ![p] = IF hit THEN "cached" ELSE @]
         /\ misled' = misled \cup
                       {q \in {p} : hit /\ Misleading(object, sourceTime[p])}
  /\ UNCHANGED <<files, sourceTime, compiling, linked, failed, raced, killed,
                 rewritten>>

\* The file cc -o names: a name of this process and instant alone.
MutInPlace(p) ==
  /\ object' = File("torn", clock)
  /\ UNCHANGED tmp
OpenOutput(p) ==
  /\ tmp' = [tmp EXCEPT ![p] = File("torn", clock)]
  /\ UNCHANGED object

\* cc reads the source as it is now and starts writing its output.
CcReads(p) ==
  /\ pc[p] = "compile"
  /\ Exists(source)
  /\ compiling' = [compiling EXCEPT ![p] = source.text]
  /\ OpenOutput(p)
  /\ Goto(p, "ccWrite")
  /\ UNCHANGED <<source, clock, sourceTime, path, linked, events>>

CcWrites(p) ==
  /\ pc[p] = "ccWrite"
  /\ tmp' = [tmp EXCEPT ![p] = File(compiling[p], clock)]
  /\ Goto(p, "rename")
  /\ UNCHANGED <<source, object, clock, locals, events>>

\* A cc that fails removes its output; its status is discarded and only the
\* missing file is noticed: the cached path is returned as it is.
MutAssumesCompiled(p) ==
  /\ Goto(p, "rename")
  /\ UNCHANGED path
NoOutput(p) ==
  /\ Goto(p, "link")
  /\ path' = [path EXCEPT ![p] = "cached"]

CcFails(p) ==
  /\ pc[p] \in {"compile", "ccWrite"}
  /\ tmp' = [tmp EXCEPT ![p] = Absent]
  /\ failed' = failed \cup {p}
  /\ NoOutput(p)
  /\ UNCHANGED <<source, object, clock, sourceTime, compiling, linked, misled,
                 raced, killed, rewritten>>

\* A cc that is killed leaves what it has written, which exists.
CcKilled(p) ==
  /\ pc[p] = "ccWrite"
  /\ failed' = failed \cup {p} /\ killed' = TRUE
  /\ Goto(p, "rename")
  /\ UNCHANGED <<files, locals, misled, raced, rewritten>>

\* rename keeps the modification time and replaces the cached object whole.
Rename(p) ==
  /\ pc[p] = "rename"
  /\ object' = tmp[p]
  /\ tmp' = [tmp EXCEPT ![p] = Absent]
  /\ path' = [path EXCEPT ![p] = "cached"]
  /\ Goto(p, "link")
  /\ UNCHANGED <<source, clock, sourceTime, compiling, linked, events>>

RenameFails(p) ==
  /\ pc[p] = "rename"
  /\ path' = [path EXCEPT ![p] = "own"]
  /\ Goto(p, "link")
  /\ UNCHANGED <<files, sourceTime, compiling, linked, events>>

\* The process has ended, its memory is gone, and nobody knows the name of
\* its temporary.
End(p, how) ==
  /\ Goto(p, how)
  /\ tmp' = [tmp EXCEPT ![p] = Absent]
  /\ sourceTime' = [sourceTime EXCEPT ![p] = 0]
  /\ compiling' = [compiling EXCEPT ![p] = "absent"]
  /\ path' = [path EXCEPT ![p] = "none"]
  /\ UNCHANGED <<source, object, clock, events>>

\* link_executable_with_rt reads the returned path; an absent one is an error.
Link(p) ==
  /\ pc[p] = "link"
  /\ linked' = [linked EXCEPT
                  ![p] = IF path[p] = "own" THEN tmp[p].text ELSE object.text]
  /\ End(p, "done")

\* The compiler is killed: the shared files stay as they are.
Crash(p) ==
  /\ pc[p] \in Running
  /\ End(p, "dead")
  /\ UNCHANGED linked

RtNext ==
  \/ Tick
  \/ \E p \in Builders :
       \/ CompareSource(p) \/ TruncateSource(p) \/ FillSource(p)
       \/ WriteFails(p) \/ StatSource(p) \/ StatObject(p)
       \/ CcReads(p) \/ CcWrites(p) \/ CcFails(p) \/ CcKilled(p)
       \/ Rename(p) \/ RenameFails(p) \/ Link(p) \/ Crash(p)

RtSpec == RtInit /\ [][RtNext]_vars
------------------------------------------------------------------------------
\* The files and program counters have their types, and a builder about to
\* rename has a temporary object: the code's tmp_obj.exists() test is what
\* keeps a failed compilation from reaching fs::rename.
RtTypeOK ==
  /\ source \in Files /\ object \in Files
  /\ tmp \in [Builders -> Files]
  /\ clock \in 1..MaxClock
  /\ pc \in [Builders -> Running \cup {"idle", "done", "dead"}]
  /\ sourceTime \in [Builders -> 0..MaxClock]
  /\ compiling \in [Builders -> Texts]
  /\ path \in [Builders -> {"none", "cached", "own"}]
  /\ linked \in [Builders -> Contents \cup {"unlinked"}]
  /\ {failed, misled, raced} \subseteq SUBSET Builders
  /\ {killed, rewritten} \subseteq BOOLEAN
  /\ \A p \in Builders :
       /\ pc[p] = "rename" => Exists(tmp[p])
       /\ pc[p] = "link" => path[p] # "none"

\* However the builders interleave and wherever they are killed, no linker
\* reads a half-written object: cc writes to a name of its own and the shared
\* object only ever changes by rename.  The one excuse is a C compiler that
\* was killed itself: its status is not looked at, so what it left is renamed.
NeverLinksTornObject ==
  ~killed => object.text # "torn" /\ \A p \in Builders : linked[p] # "torn"

\* A build links the runtime compiled from this compiler's RUNTIME_C,
\* whatever an earlier compiler or a killed one left behind.  What can keep
\* it from that: its own write or C compiler failed; it raced another build
\* and the source was rewritten; or it was misled by a time stamp (Misleading),
\* and as long as no builds raced that means a stale object from the very tick
\* the source was written in.  (Half-written ones are NeverLinksTornObject's.)
CurrentUnlessRacedOrTied ==
  \A p \in Builders : linked[p] \in Texts \ {"new"} =>
    p \in failed \cup misled \/ (p \in raced /\ rewritten)
==============================================================================
