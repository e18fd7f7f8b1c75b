---------------------------- MODULE RuntimeProofs ----------------------------
(***************************************************************************)
(* Proofs about the two halves of the runtime, for any number of compiler  *)
(* processes, handles and calls.  First the runtime object, whatever files *)
(* an earlier compiler has left.  Then the memory of the C runtime's       *)
(* arrays; its inductive invariant LibInv has three parts: Sound, the      *)
(* memory itself (every array's block is allocated, large enough, its own, *)
(* and every allocated block has an array); Tidy, the words no array uses  *)
(* yet are zero; LoopOK, the loop in progress (what it has filled is a     *)
(* prefix of what it will answer, in a block no operand owns).  Sound and  *)
(* Tidy are stated of a memory m rather than of the variables, because     *)
(* push applies two operations, growth and store, in one step: each memory *)
(* operation has a lemma, and the steps are their compositions.  Last,     *)
(* that the C runtime implements ArrayStore.                               *)
(***************************************************************************)
EXTENDS RuntimeObject, RuntimeLibrary, SequenceTheorems, FiniteSetTheorems, TLAPS

(* What every step keeps to, with the files of the step still open.        *)
RtInv ==
  /\ RtTypeOK
  /\ NeverLinksTornObject
  /\ source.text # "torn" /\ object.time <= clock
  /\ \A p \in Builders :
       /\ tmp[p].time <= clock
       /\ pc[p] = "ccWrite" => compiling[p] # "absent" /\ Exists(tmp[p])
       /\ ~killed /\ (pc[p] = "rename" \/ (pc[p] = "link" /\ path[p] = "own")) =>
            tmp[p].text # "torn"

(* No files but what was left, and nobody has begun.                       *)
LEMMA InitKeepsTypes == RtInit => RtInv
<1> SUFFICES ASSUME RtInit PROVE RtInv
  OBVIOUS
<1>1. PICK left \in Initial : source = left.source /\ object = left.object
  BY DEF RtInit
<1>2. /\ left.source \in Files /\ left.object \in Files /\ left.object.time <= 1
      /\ left.source.text # "torn" /\ left.object.text # "torn"
  BY InitialAssumption DEF Files
<1>3. Absent \in Files /\ Absent.time = 0
  BY ClockAssumption DEF Absent, File, Files, Contents, Texts
<1>4. /\ source \in Files /\ object \in Files /\ object.time <= clock
      /\ source.text # "torn" /\ object.text # "torn"
  BY <1>1, <1>2 DEF RtInit
<1>5. tmp \in [Builders -> Files] /\ clock \in 1..MaxClock
      /\ \A p \in Builders : tmp[p].time <= clock
  BY <1>3, ClockAssumption DEF RtInit
<1>6. /\ pc \in [Builders -> Running \cup {"idle", "done", "dead"}]
      /\ sourceTime \in [Builders -> 0..MaxClock]
      /\ compiling \in [Builders -> Texts]
      /\ path \in [Builders -> {"none", "cached", "own"}]
      /\ linked \in [Builders -> Contents \cup {"unlinked"}]
  BY ClockAssumption DEF RtInit, Running, Texts, Contents
<1>7. \A p \in Builders : pc[p] = "idle" /\ linked[p] = "unlinked"
  BY DEF RtInit
<1> QED
  BY <1>4, <1>5, <1>6, <1>7 DEF RtInit, RtInv, RtTypeOK, NeverLinksTornObject

(* A file of any contents, written now.                                    *)
LEMMA WrittenNow ==
  ASSUME clock \in 1..MaxClock, NEW text \in Contents
  PROVE  /\ File(text, clock) \in Files
         /\ File(text, clock).text = text /\ File(text, clock).time = clock
         /\ Absent \in Files /\ Absent.text = "absent" /\ Absent.time = 0
BY ClockAssumption DEF Absent, File, Files, Contents, Texts

(* The end of a process, however it comes.                                 *)
LEMMA EndKeepsTypes ==
  ASSUME RtInv, NEW p \in Builders, NEW how \in {"done", "dead"}, End(p, how),
         linked' \in [Builders -> Contents \cup {"unlinked"}],
         ~killed => \A q \in Builders : linked'[q] # "torn"
  PROVE  RtInv'
<1>1. Absent \in Files /\ Absent.time = 0 /\ clock \in 1..MaxClock
  BY ClockAssumption DEF Absent, File, Files, Contents, Texts, RtInv, RtTypeOK
<1>2. /\ pc' = [pc EXCEPT ![p] = how] /\ tmp' = [tmp EXCEPT ![p] = Absent]
      /\ sourceTime' = [sourceTime EXCEPT ![p] = 0]
      /\ compiling' = [compiling EXCEPT ![p] = "absent"]
      /\ path' = [path EXCEPT ![p] = "none"]
      /\ UNCHANGED <<source, object, clock, failed, misled, raced, killed, rewritten>>
  BY DEF End, Goto, events
<1>3. /\ tmp' \in [Builders -> Files] /\ sourceTime' \in [Builders -> 0..MaxClock]
      /\ compiling' \in [Builders -> Texts] /\ path' \in [Builders -> {"none", "cached", "own"}]
      /\ pc' \in [Builders -> Running \cup {"idle", "done", "dead"}]
  BY <1>1, <1>2, ClockAssumption DEF RtInv, RtTypeOK, Texts
<1>4. /\ pc'[p] = how /\ tmp'[p] = Absent
      /\ \A q \in Builders \ {p} : /\ pc'[q] = pc[q] /\ tmp'[q] = tmp[q]
                                   /\ compiling'[q] = compiling[q] /\ path'[q] = path[q]
  BY <1>2 DEF RtInv, RtTypeOK
<1>5. RtTypeOK'
  BY <1>2, <1>3, <1>4 DEF RtInv, RtTypeOK
<1> QED
  BY <1>1, <1>2, <1>4, <1>5 DEF RtInv, NeverLinksTornObject

(* One action at a time.                                                   *)
LEMMA StepKeepsTypes == RtInv /\ [RtNext]_vars => RtInv'
<1> SUFFICES ASSUME RtInv, [RtNext]_vars PROVE RtInv'
  OBVIOUS
<1> USE DEF RtInv, RtTypeOK, NeverLinksTornObject, Goto, Running, files, locals, events
<1>1. CASE UNCHANGED vars
  BY <1>1 DEF vars
<1>2. CASE Tick
  BY <1>2, ClockAssumption DEF Tick, Files
<1>3. ASSUME NEW p \in Builders, CompareSource(p) PROVE RtInv'
  BY <1>3 DEF CompareSource
<1>4. ASSUME NEW p \in Builders, TruncateSource(p) PROVE RtInv'
  BY <1>4, WrittenNow DEF TruncateSource, Contents, Texts
<1>5. ASSUME NEW p \in Builders, FillSource(p) PROVE RtInv'
  BY <1>5, WrittenNow DEF FillSource, Contents, Texts
<1>6. ASSUME NEW p \in Builders, WriteFails(p) PROVE RtInv'
  BY <1>6 DEF WriteFails
<1>7. ASSUME NEW p \in Builders, StatSource(p) PROVE RtInv'
  BY <1>7 DEF StatSource, Files
<1>8. ASSUME NEW p \in Builders, StatObject(p) PROVE RtInv'
  BY <1>8 DEF StatObject
<1>9. ASSUME NEW p \in Builders, CcReads(p) PROVE RtInv'
  <2>1. /\ File("torn", clock) \in Files /\ File("torn", clock).time = clock
        /\ Exists(File("torn", clock))
    BY WrittenNow DEF Contents, Exists
  <2>2. source.text \in Texts \ {"absent"}
    BY <1>9 DEF CcReads, Exists, Files, Contents
  <2>3. /\ UNCHANGED <<source, object, clock, sourceTime, path, linked, failed,
                       misled, raced, killed, rewritten>>
        /\ tmp'[p] = File("torn", clock) /\ tmp' \in [Builders -> Files]
        /\ pc'[p] = "ccWrite" /\ compiling'[p] = source.text
        /\ compiling' \in [Builders -> Texts]
        /\ pc' \in [Builders -> Running \cup {"idle", "done", "dead"}]
    BY <1>9, <2>1, <2>2 DEF CcReads, OpenOutput
  <2>4. \A q \in Builders \ {p} : pc'[q] = pc[q] /\ tmp'[q] = tmp[q]
                                  /\ compiling'[q] = compiling[q]
    BY <1>9 DEF CcReads, OpenOutput
  <2> QED
    BY <2>1, <2>2, <2>3, <2>4
<1>10. ASSUME NEW p \in Builders, CcWrites(p) PROVE RtInv'
  <2>1. compiling[p] \in Texts \ {"absent"} /\ compiling[p] \in Contents
    BY <1>10 DEF CcWrites, Contents
  <2>2. /\ File(compiling[p], clock) \in Files /\ File(compiling[p], clock).time = clock
        /\ File(compiling[p], clock).text = compiling[p] /\ compiling[p] # "torn"
    BY <2>1, WrittenNow DEF Texts
  <2> QED
    BY <1>10, <2>1, <2>2 DEF CcWrites, Exists
<1>11. ASSUME NEW p \in Builders, CcFails(p) PROVE RtInv'
  <2>1. Absent \in Files /\ Absent.time = 0
    BY WrittenNow DEF Contents
  <2>2. tmp' \in [Builders -> Files]
    BY <1>11, <2>1 DEF CcFails
  <2>3. UNCHANGED <<source, object, clock, sourceTime, compiling, linked,
                    misled, raced, killed, rewritten>>
    BY <1>11 DEF CcFails
  <2>4. /\ tmp'[p] = Absent
        /\ \A q \in Builders \ {p} :
             pc'[q] = pc[q] /\ path'[q] = path[q] /\ tmp'[q] = tmp[q]
    BY <1>11 DEF CcFails, NoOutput
  <2>5. pc'[p] = "link" /\ path'[p] = "cached"
    BY <1>11 DEF CcFails, NoOutput
  <2>6. pc' \in [Builders -> Running \cup {"idle", "done", "dead"}]
        /\ path' \in [Builders -> {"none", "cached", "own"}]
        /\ failed' \subseteq Builders
    BY <1>11 DEF CcFails, NoOutput
  <2> QED
    BY <2>1, <2>2, <2>3, <2>4, <2>5, <2>6
<1>12. ASSUME NEW p \in Builders, CcKilled(p) PROVE RtInv'
  BY <1>12 DEF CcKilled
<1>13. ASSUME NEW p \in Builders, Rename(p) PROVE RtInv'
  <2>1. Absent \in Files /\ Absent.time = 0 /\ tmp[p] \in Files
    BY WrittenNow DEF Contents
  <2>2. tmp' \in [Builders -> Files] /\ object' \in Files
    BY <1>13, <2>1 DEF Rename
  <2>3. UNCHANGED <<source, clock, sourceTime, compiling, linked, failed,
                    misled, raced, killed, rewritten>>
    BY <1>13 DEF Rename
  <2>4. /\ tmp'[p] = Absent
        /\ \A q \in Builders \ {p} :
             pc'[q] = pc[q] /\ path'[q] = path[q] /\ tmp'[q] = tmp[q]
    BY <1>13 DEF Rename
  <2>5. /\ pc'[p] = "link" /\ path'[p] = "cached" /\ object' = tmp[p]
        /\ ~killed => object'.text # "torn"
    BY <1>13 DEF Rename
  <2>6. pc' \in [Builders -> Running \cup {"idle", "done", "dead"}]
        /\ path' \in [Builders -> {"none", "cached", "own"}]
    BY <1>13 DEF Rename
  <2> QED
    BY <2>1, <2>2, <2>3, <2>4, <2>5, <2>6
<1>14. ASSUME NEW p \in Builders, RenameFails(p) PROVE RtInv'
  BY <1>14 DEF RenameFails
<1>15. ASSUME NEW p \in Builders, Link(p) PROVE RtInv'
  <2>1. /\ linked' \in [Builders -> Contents \cup {"unlinked"}]
        /\ ~killed => \A q \in Builders : linked'[q] # "torn"
    BY <1>15 DEF Link, Files
  <2> QED
    BY <1>15, <2>1, EndKeepsTypes DEF Link
<1>16. ASSUME NEW p \in Builders, Crash(p) PROVE RtInv'
  BY <1>16, EndKeepsTypes DEF Crash
<1> QED
  BY <1>1, <1>2, <1>3, <1>4, <1>5, <1>6, <1>7, <1>8, <1>9, <1>10, <1>11, <1>12,
     <1>13, <1>14, <1>15, <1>16 DEF RtNext

(* Whatever races and crashes there are, the variables keep their types and  *)
(* a builder about to rename has an object to rename.                        *)
THEOREM TypesKept == RtSpec => []RtTypeOK
<1>1. RtInv => RtTypeOK
  BY DEF RtInv
<1> QED
  BY InitKeepsTypes, StepKeepsTypes, <1>1, PTL DEF RtSpec

(* No interleaving and no crash of compilers makes a linker read a           *)
(* half-written object, unless a C compiler was killed while it wrote one.   *)
THEOREM NoTornObjectLinked == RtSpec => []NeverLinksTornObject
<1>1. RtInv => NeverLinksTornObject
  BY DEF RtInv
<1> QED
  BY InitKeepsTypes, StepKeepsTypes, <1>1, PTL DEF RtSpec

-----------------------------------------------------------------------------
(* A builder whose view of the source no other builder has spoilt: it did    *)
(* not race, or nothing was rewritten.                                       *)
Calm(p) == p \notin raced \/ ~rewritten

(* A builder that has not raced is alone in build_runtime_object.            *)
Apart ==
  /\ \A p \in Builders \ raced, q \in Builders :
       pc[p] \in Running /\ pc[q] \in Running => p = q
  /\ \A p \in Builders : pc[p] = "fill" => rewritten

(* The fact the comparison of times stands for: next to a source that holds  *)
(* RUNTIME_C, an object of another text is not newer than it.  Being older   *)
(* is more than the code can know, which is what Misleading is about.        *)
StaleNotNewer ==
  Stale(object) /\ source.text = "new" => object.time <= source.time

(* Once a builder has dealt with the source, the source holds RUNTIME_C, and *)
(* what the builder read, compiled and was given came from it.               *)
FromSource(text) == text \in {source.text, "torn"}

Follows(p) ==
  /\ pc[p] \in Running \ {"write", "fill"} /\ p \notin failed => source.text = "new"
  /\ pc[p] = "statObject" => sourceTime[p] = source.time
  /\ pc[p] = "ccWrite" => compiling[p] = source.text /\ tmp[p].text = "torn"
  /\ pc[p] = "rename" => FromSource(tmp[p].text)
  /\ pc[p] = "link" /\ path[p] = "own" => FromSource(tmp[p].text)
  /\ pc[p] = "link" /\ path[p] = "cached" /\ p \notin failed \cup misled =>
       FromSource(object.text)
  /\ linked[p] \in Texts \ {"new"} => p \in failed \cup misled

CurInv ==
  /\ Apart
  /\ ~Mixed => StaleNotNewer
  /\ \A p \in Builders : Calm(p) => Follows(p)

(* Nothing has been built and nothing rewritten at first.                    *)
LEMMA InitIsCurrent == RtInit => CurInv
<1> SUFFICES ASSUME RtInit PROVE CurInv
  OBVIOUS
<1>1. PICK left \in Initial : source = left.source /\ object = left.object
  BY DEF RtInit
<1>2. StaleNotNewer
  BY <1>1, InitialAssumption DEF StaleNotNewer
<1>3. \A p \in Builders : pc[p] = "idle" /\ linked[p] = "unlinked"
  BY DEF RtInit
<1> QED
  BY <1>2, <1>3 DEF CurInv, Apart, Follows, Running, Texts

(* What has happened is never forgotten.                                     *)
LEMMA EventsStay ==
  ASSUME RtInv, [RtNext]_vars
  PROVE  /\ Mixed => Mixed'
         /\ \A p \in Builders : Calm(p)' => Calm(p)
<1>1. raced \subseteq raced' /\ (rewritten => rewritten')
  BY DEF RtInv, RtTypeOK, RtNext, vars, events, Tick, CompareSource,
      TruncateSource, FillSource, WriteFails, StatSource, StatObject, CcReads,
      CcWrites, CcFails, CcKilled, Rename, RenameFails, Link, Crash, End
<1> QED
  BY <1>1 DEF Mixed, Calm

(* A builder that neither moves nor sees the shared files move.              *)
LEMMA OthersFollow ==
  ASSUME RtInv, CurInv, [RtNext]_vars, NEW q \in Builders, Calm(q)',
         pc'[q] = pc[q], tmp'[q] = tmp[q], sourceTime'[q] = sourceTime[q],
         compiling'[q] = compiling[q], path'[q] = path[q], linked'[q] = linked[q],
         failed \subseteq failed', misled \subseteq misled',
         UNCHANGED <<source, object>>
  PROVE  Follows(q)'
<1>1. Follows(q)
  BY EventsStay DEF CurInv
<1> QED
  BY <1>1 DEF Follows, FromSource

(* Each step keeps the builders in line with the source.                     *)
LEMMA StepKeepsCurrent == RtInv /\ CurInv /\ [RtNext]_vars => CurInv'
<1> SUFFICES ASSUME RtInv, CurInv, [RtNext]_vars PROVE CurInv'
  OBVIOUS
<1> USE DEF Goto, files, locals, events
<1>a. RtTypeOK /\ Apart
  BY DEF RtInv, CurInv
<1>b. ASSUME Mixed' \/ UNCHANGED <<source, object>> PROVE (~Mixed => StaleNotNewer)'
  BY <1>b, EventsStay DEF CurInv, StaleNotNewer
<1>c. ASSUME NEW q \in Builders, Calm(q)' PROVE Calm(q) /\ Follows(q)
  BY <1>c, EventsStay DEF CurInv
<1>1. CASE UNCHANGED vars
  <2>1. Apart' /\ UNCHANGED <<source, object>>
    BY <1>1, <1>a DEF vars, Apart
  <2>2. \A q \in Builders : Calm(q)' => Follows(q)'
    BY <1>1, OthersFollow DEF vars
  <2> QED
    BY <2>1, <2>2, <1>b DEF CurInv
<1>2. CASE Tick
  <2>1. Apart' /\ UNCHANGED <<source, object>>
    BY <1>2, <1>a DEF Tick, Apart
  <2>2. \A q \in Builders : Calm(q)' => Follows(q)'
    BY <1>2, OthersFollow DEF Tick
  <2> QED
    BY <2>1, <2>2, <1>b DEF CurInv
<1>3. ASSUME NEW p \in Builders, CompareSource(p) PROVE CurInv'
  <2>1. Apart'
    BY <1>3, <1>a DEF CompareSource, NeedWrite, RtTypeOK, Apart, Running
  <2>2. (~Mixed => StaleNotNewer)'
    BY <1>3, <1>b DEF CompareSource
  <2>3. ASSUME NEW q \in Builders \ {p}, Calm(q)' PROVE Follows(q)'
    BY <1>3, <2>3, <1>a, OthersFollow DEF CompareSource, NeedWrite, RtTypeOK
  <2>4. ASSUME Calm(p)' PROVE Follows(p)'
    BY <1>3, <2>4, <1>a, <1>c DEF CompareSource, NeedWrite, RtTypeOK, Follows, FromSource, Running
  <2> QED
    BY <2>1, <2>2, <2>3, <2>4 DEF CurInv
<1>4. ASSUME NEW p \in Builders, TruncateSource(p) PROVE CurInv'
  <2>1. Apart'
    BY <1>4, <1>a DEF TruncateSource, RtTypeOK, Apart, Running
  <2>2. (~Mixed => StaleNotNewer)'
    BY <1>4 DEF TruncateSource, StaleNotNewer, File
  <2>3. ASSUME NEW q \in Builders \ {p}, Calm(q)' PROVE Follows(q)'
    <3>1. q \notin raced /\ pc[p] \in Running
      BY <1>4, <2>3, <1>a, <1>c DEF TruncateSource, Apart, Calm, Running
    <3>2. pc[q] \notin Running
      BY <3>1, <1>a DEF Apart
    <3>3. pc'[q] = pc[q] /\ linked'[q] = linked[q] /\ UNCHANGED <<failed, misled>>
      BY <1>4, <1>a DEF TruncateSource, RtTypeOK
    <3> QED
      BY <3>2, <3>3, <2>3, <1>c DEF Follows, Running
  <2>4. ASSUME Calm(p)' PROVE Follows(p)'
    BY <1>4, <2>4, <1>a, <1>c DEF TruncateSource, RtTypeOK, Follows, FromSource, Running
  <2> QED
    BY <2>1, <2>2, <2>3, <2>4 DEF CurInv
<1>5. ASSUME NEW p \in Builders, FillSource(p) PROVE CurInv'
  <2>1. Apart'
    BY <1>5, <1>a DEF FillSource, RtTypeOK, Apart, Running
  <2>2. (~Mixed => StaleNotNewer)'
    BY <1>5 DEF FillSource, StaleNotNewer, File, RtInv
  <2>3. ASSUME NEW q \in Builders \ {p}, Calm(q)' PROVE Follows(q)'
    <3>1. q \notin raced /\ pc[p] \in Running
      BY <1>5, <2>3, <1>a, <1>c DEF FillSource, Apart, Calm, Running
    <3>2. pc[q] \notin Running
      BY <3>1, <1>a DEF Apart
    <3>3. pc'[q] = pc[q] /\ linked'[q] = linked[q] /\ UNCHANGED <<failed, misled>>
      BY <1>5, <1>a DEF FillSource, RtTypeOK
    <3> QED
      BY <3>2, <3>3, <2>3, <1>c DEF Follows, Running
  <2>4. ASSUME Calm(p)' PROVE Follows(p)'
    BY <1>5, <2>4, <1>a, <1>c
    DEF FillSource, File, RtTypeOK, Follows, FromSource, Running
  <2> QED
    BY <2>1, <2>2, <2>3, <2>4 DEF CurInv
<1>6. ASSUME NEW p \in Builders, WriteFails(p) PROVE CurInv'
  <2>1. Apart'
    BY <1>6, <1>a DEF WriteFails, RtTypeOK, Apart, Running
  <2>2. (~Mixed => StaleNotNewer)'
    BY <1>6, <1>b DEF WriteFails
  <2>3. ASSUME NEW q \in Builders \ {p}, Calm(q)' PROVE Follows(q)'
    BY <1>6, <2>3, <1>a, OthersFollow DEF WriteFails, RtTypeOK
  <2>4. ASSUME Calm(p)' PROVE Follows(p)'
    BY <1>6, <2>4, <1>a, <1>c DEF WriteFails, RtTypeOK, Follows, FromSource, Running
  <2> QED
    BY <2>1, <2>2, <2>3, <2>4 DEF CurInv
<1>7. ASSUME NEW p \in Builders, StatSource(p) PROVE CurInv'
  <2>1. Apart'
    BY <1>7, <1>a DEF StatSource, RtTypeOK, Apart, Running
  <2>2. (~Mixed => StaleNotNewer)'
    BY <1>7, <1>b DEF StatSource
  <2>3. ASSUME NEW q \in Builders \ {p}, Calm(q)' PROVE Follows(q)'
    BY <1>7, <2>3, <1>a, OthersFollow DEF StatSource, RtTypeOK
  <2>4. ASSUME Calm(p)' PROVE Follows(p)'
    BY <1>7, <2>4, <1>a, <1>c DEF StatSource, RtTypeOK, Follows, FromSource, Running
  <2> QED
    BY <2>1, <2>2, <2>3, <2>4 DEF CurInv
<1>8. ASSUME NEW p \in Builders, StatObject(p) PROVE CurInv'
  <2>1. Apart'
    BY <1>8, <1>a DEF StatObject, RtTypeOK, Apart, Running
  <2>2. (~Mixed => StaleNotNewer)'
    BY <1>8, <1>b DEF StatObject
  <2>3. ASSUME NEW q \in Builders \ {p}, Calm(q)' PROVE Follows(q)'
    <3>1. /\ UNCHANGED <<source, object, tmp, linked, failed, compiling, sourceTime>>
          /\ misled \subseteq misled'
          /\ pc'[q] = pc[q] /\ path'[q] = path[q]
      BY <1>8, <1>a DEF StatObject, RtTypeOK
    <3> QED
      BY <3>1, <2>3, OthersFollow
  <2>4. ASSUME Calm(p)' PROVE Follows(p)'
    <3>1. /\ sourceTime[p] = source.time
          /\ p \notin failed => source.text = "new"
          /\ linked[p] \in Texts \ {"new"} => p \in failed \cup misled
      BY <1>8, <2>4, <1>c DEF StatObject, Follows, Running
    <3>2. /\ UNCHANGED <<source, object, tmp, linked, failed, compiling>>
          /\ misled \subseteq misled'
      BY <1>8 DEF StatObject
    <3>3. CASE Exists(object) /\ UpToDate(object, sourceTime[p])
      <4>1. /\ pc'[p] = "link" /\ path'[p] = "cached"
            /\ Misleading(object, sourceTime[p]) => p \in misled'
        BY <1>8, <3>3, <1>a DEF StatObject, RtTypeOK
      <4>2. object.time \in Nat /\ source.time \in Nat /\ object.time >= source.time
        BY <3>1, <3>3, <1>a, ClockAssumption DEF UpToDate, RtTypeOK, Files
      <4>3. Stale(object) /\ p \notin failed => p \in misled'
        BY <3>1, <4>1, <4>2 DEF Misleading, CurInv, StaleNotNewer
      <4>4. object.text \in {"empty", "old", "new", "torn"}
        BY <3>3, <1>a DEF Exists, RtTypeOK, Files, Contents, Texts
      <4>5. p \notin failed \cup misled' => FromSource(object.text)
        BY <3>1, <4>3, <4>4 DEF Stale, FromSource
      <4> QED
        BY <3>1, <3>2, <4>1, <4>5 DEF Follows, FromSource
    <3>4. CASE ~(Exists(object) /\ UpToDate(object, sourceTime[p]))
      <4>1. pc'[p] = "compile"
        BY <1>8, <3>4, <1>a DEF StatObject, RtTypeOK
      <4> QED
        BY <3>1, <3>2, <4>1 DEF Follows
    <3> QED
      BY <3>3, <3>4
  <2> QED
    BY <2>1, <2>2, <2>3, <2>4 DEF CurInv
<1>9. ASSUME NEW p \in Builders, CcReads(p) PROVE CurInv'
  <2>1. Apart'
    BY <1>9, <1>a DEF CcReads, OpenOutput, RtTypeOK, Apart, Running
  <2>2. (~Mixed => StaleNotNewer)'
    BY <1>9, <1>b DEF CcReads, OpenOutput
  <2>3. ASSUME NEW q \in Builders \ {p}, Calm(q)' PROVE Follows(q)'
    BY <1>9, <2>3, <1>a, OthersFollow DEF CcReads, OpenOutput, RtTypeOK
  <2>4. ASSUME Calm(p)' PROVE Follows(p)'
    BY <1>9, <2>4, <1>a, <1>c
    DEF CcReads, OpenOutput, File, RtTypeOK, Follows, FromSource, Running
  <2> QED
    BY <2>1, <2>2, <2>3, <2>4 DEF CurInv
<1>10. ASSUME NEW p \in Builders, CcWrites(p) PROVE CurInv'
  <2>1. Apart'
    BY <1>10, <1>a DEF CcWrites, RtTypeOK, Apart, Running
  <2>2. (~Mixed => StaleNotNewer)'
    BY <1>10, <1>b DEF CcWrites
  <2>3. ASSUME NEW q \in Builders \ {p}, Calm(q)' PROVE Follows(q)'
    BY <1>10, <2>3, <1>a, OthersFollow DEF CcWrites, RtTypeOK
  <2>4. ASSUME Calm(p)' PROVE Follows(p)'
    BY <1>10, <2>4, <1>a, <1>c
    DEF CcWrites, File, RtTypeOK, Follows, FromSource, Running
  <2> QED
    BY <2>1, <2>2, <2>3, <2>4 DEF CurInv
<1>11. ASSUME NEW p \in Builders, CcFails(p) PROVE CurInv'
  <2>1. Apart'
    BY <1>11, <1>a DEF CcFails, NoOutput, RtTypeOK, Apart, Running
  <2>2. (~Mixed => StaleNotNewer)'
    BY <1>11, <1>b DEF CcFails, NoOutput
  <2>3. ASSUME NEW q \in Builders \ {p}, Calm(q)' PROVE Follows(q)'
    BY <1>11, <2>3, <1>a, OthersFollow DEF CcFails, NoOutput, RtTypeOK
  <2>4. ASSUME Calm(p)' PROVE Follows(p)'
    BY <1>11, <2>4, <1>a, <1>c DEF CcFails, NoOutput, RtTypeOK, Follows, FromSource, Running
  <2> QED
    BY <2>1, <2>2, <2>3, <2>4 DEF CurInv
<1>12. ASSUME NEW p \in Builders, CcKilled(p) PROVE CurInv'
  <2>1. Apart'
    BY <1>12, <1>a DEF CcKilled, RtTypeOK, Apart, Running
  <2>2. (~Mixed => StaleNotNewer)'
    BY <1>12, <1>b DEF CcKilled
  <2>3. ASSUME NEW q \in Builders \ {p}, Calm(q)' PROVE Follows(q)'
    BY <1>12, <2>3, <1>a, OthersFollow DEF CcKilled, RtTypeOK
  <2>4. ASSUME Calm(p)' PROVE Follows(p)'
    BY <1>12, <2>4, <1>a, <1>c DEF CcKilled, RtTypeOK, Follows, FromSource, Running
  <2> QED
    BY <2>1, <2>2, <2>3, <2>4 DEF CurInv
<1>13. ASSUME NEW p \in Builders, Rename(p) PROVE CurInv'
  <2>1. Apart'
    BY <1>13, <1>a DEF Rename, RtTypeOK, Apart, Running
  <2>2. (~Mixed => StaleNotNewer)'
    <3> SUFFICES ASSUME ~Mixed', Stale(object)', source'.text = "new" PROVE FALSE
      BY DEF StaleNotNewer
    <3>1. Calm(p)'
      BY DEF Mixed, Calm
    <3>2. FromSource(tmp[p].text)
      BY <1>13, <3>1, <1>c DEF Rename, Follows
    <3> QED
      BY <1>13, <3>2 DEF Rename, Stale, FromSource
  <2>3. ASSUME NEW q \in Builders \ {p}, Calm(q)' PROVE Follows(q)'
    <3>1. /\ UNCHANGED <<source, linked, failed, misled, compiling, sourceTime>>
          /\ object' = tmp[p] /\ UNCHANGED <<raced, rewritten>>
          /\ pc'[q] = pc[q] /\ path'[q] = path[q] /\ tmp'[q] = tmp[q]
      BY <1>13, <1>a DEF Rename, RtTypeOK
    <3>2. Follows(q)
      BY <2>3, <1>c
    <3>3. ASSUME pc[q] = "link" PROVE FromSource(object'.text)
      <4>1. q \in raced
        BY <1>13, <2>3, <3>3, <1>a DEF Rename, Apart, Running
      <4>2. Calm(p)'
        BY <2>3, <3>1, <4>1 DEF Calm
      <4> QED
        BY <1>13, <3>1, <4>2, <1>c DEF Rename, Follows
    <3> QED
      BY <3>1, <3>2, <3>3 DEF Follows, FromSource
  <2>4. ASSUME Calm(p)' PROVE Follows(p)'
    BY <1>13, <2>4, <1>a, <1>c DEF Rename, RtTypeOK, Follows, FromSource, Running
  <2> QED
    BY <2>1, <2>2, <2>3, <2>4 DEF CurInv
<1>14. ASSUME NEW p \in Builders, RenameFails(p) PROVE CurInv'
  <2>1. Apart'
    BY <1>14, <1>a DEF RenameFails, RtTypeOK, Apart, Running
  <2>2. (~Mixed => StaleNotNewer)'
    BY <1>14, <1>b DEF RenameFails
  <2>3. ASSUME NEW q \in Builders \ {p}, Calm(q)' PROVE Follows(q)'
    BY <1>14, <2>3, <1>a, OthersFollow DEF RenameFails, RtTypeOK
  <2>4. ASSUME Calm(p)' PROVE Follows(p)'
    BY <1>14, <2>4, <1>a, <1>c DEF RenameFails, RtTypeOK, Follows, FromSource, Running
  <2> QED
    BY <2>1, <2>2, <2>3, <2>4 DEF CurInv
<1>15. ASSUME NEW p \in Builders, Link(p) PROVE CurInv'
  <2>1. Apart'
    BY <1>15, <1>a DEF Link, End, RtTypeOK, Apart, Running
  <2>2. (~Mixed => StaleNotNewer)'
    BY <1>15, <1>b DEF Link, End
  <2>3. ASSUME NEW q \in Builders \ {p}, Calm(q)' PROVE Follows(q)'
    BY <1>15, <2>3, <1>a, OthersFollow DEF Link, End, RtTypeOK
  <2>4. ASSUME Calm(p)' PROVE Follows(p)'
    <3>1. Follows(p) /\ pc[p] = "link" /\ path[p] \in {"none", "cached", "own"}
      BY <1>15, <2>4, <1>a, <1>c DEF Link, RtTypeOK
    <3>2. /\ pc'[p] = "done" /\ UNCHANGED <<failed, misled>>
          /\ linked'[p] = IF path[p] = "own" THEN tmp[p].text ELSE object.text
      BY <1>15, <1>a DEF Link, End, RtTypeOK
    <3>3. path[p] # "none"
      BY <3>1, <1>a DEF RtTypeOK
    <3>4. p \notin failed \cup misled => linked'[p] \in {"new", "torn"}
      BY <3>1, <3>2, <3>3 DEF Follows, FromSource, Running
    <3> QED
      BY <3>2, <3>4 DEF Follows, Texts, Running
  <2> QED
    BY <2>1, <2>2, <2>3, <2>4 DEF CurInv
<1>16. ASSUME NEW p \in Builders, Crash(p) PROVE CurInv'
  <2>1. Apart'
    BY <1>16, <1>a DEF Crash, End, RtTypeOK, Apart, Running
  <2>2. (~Mixed => StaleNotNewer)'
    BY <1>16, <1>b DEF Crash, End
  <2>3. ASSUME NEW q \in Builders \ {p}, Calm(q)' PROVE Follows(q)'
    BY <1>16, <2>3, <1>a, OthersFollow DEF Crash, End, RtTypeOK
  <2>4. ASSUME Calm(p)' PROVE Follows(p)'
    BY <1>16, <2>4, <1>a, <1>c DEF Crash, End, RtTypeOK, Follows, FromSource, Running
  <2> QED
    BY <2>1, <2>2, <2>3, <2>4 DEF CurInv
<1> QED
  BY <1>1, <1>2, <1>3, <1>4, <1>5, <1>6, <1>7, <1>8, <1>9, <1>10, <1>11, <1>12,
     <1>13, <1>14, <1>15, <1>16
  DEF RtNext

(* Any number of builds over whatever an earlier compiler left: one links    *)
(* this compiler's runtime, unless its own write or C compiler failed, it    *)
(* raced another build while the source was rewritten, or a stale object     *)
(* passed for current, which without races takes one as old as the source to *)
(* the tick.                                                                 *)
THEOREM BuildsAreCurrent == RtSpec => []CurrentUnlessRacedOrTied
<1>1. RtInv /\ CurInv => CurrentUnlessRacedOrTied
  BY DEF CurInv, CurrentUnlessRacedOrTied, Calm, Follows
<1> QED
  BY InitKeepsTypes, StepKeepsTypes, InitIsCurrent, StepKeepsCurrent, <1>1, PTL
  DEF RtSpec
-----------------------------------------------------------------------------
(* The capacity of an array that may hold n words: the arithmetic does not   *)
(* wrap, and the block fits the address space.                               *)
LEMMA GrownFits ==
  ASSUME NEW n \in Nat, CanHold(n)
  PROVE  /\ Grown(n) = n * 2 + 8
         /\ Grown(n) \in Nat /\ n < Grown(n)
         /\ Grown(n) <= LongMax
         /\ Grown(n) * ElemSize <= SizeMax
<1>1. LongMax \in Nat /\ SizeMax \in Nat /\ ElemSize \in Nat \ {0}
  BY LibraryAssumption
<1>2. n <= (LongMax - 8) \div 2
  BY DEF CanHold, FitsLong
<1>3. n * 2 + 8 <= LongMax
  BY <1>1, <1>2
<1>4. ASSUME NEW x \in Nat, NEW y \in Nat, x < y PROVE x % y = x
  BY <1>4
<1>5. Grown(n) = n * 2 + 8
  <2>1. n * 2 + 8 + LongMax + 1 < 2 * (LongMax + 1)
    BY <1>1, <1>3
  <2>2. (n * 2 + 8 + LongMax + 1) % (2 * (LongMax + 1)) = n * 2 + 8 + LongMax + 1
    BY <1>1, <2>1, <1>4
  <2> QED
    BY <1>1, <2>2 DEF Grown
<1>6. Grown(n) * ElemSize <= SizeMax
  <2>1. Grown(n) <= SizeMax \div ElemSize
    BY DEF CanHold, FitsSize
  <2>2. (SizeMax \div ElemSize) * ElemSize <= SizeMax
    BY <1>1
  <2>3. ASSUME NEW x \in Nat, NEW y \in Nat, x <= y, NEW e \in Nat
        PROVE  x * e <= y * e
    BY <2>3
  <2>4. SizeMax \div ElemSize \in Nat
    BY <1>1
  <2> QED
    BY <1>1, <1>5, <2>1, <2>2, <2>3, <2>4
<1> QED
  BY <1>1, <1>3, <1>5, <1>6

\* What the variables hold.
Objs == [len : Nat, cap : Nat, data : Nat, aux : Nat, live : BOOLEAN]
Blks == [words : Seq(Int), live : BOOLEAN]
Memories == [objects : Seq(Objs), blocks : Seq(Blks)]

\* Handles, arrays and words of a memory, and what a program can read of one.
LiveIn(m) == {h \in 1..Len(m.objects) : m.objects[h].live}
ArraysIn(m) == {h \in LiveIn(m) : m.objects[h].data # Null}
WordsOf(m, h) == m.blocks[m.objects[h].data].words
View(m, h) == IF m.objects[h].data = Null THEN <<>>
              ELSE SubSeq(WordsOf(m, h), 1, m.objects[h].len)

\* An array uses an allocated block of its capacity, inside its integers.
ArrayOK(m, h) ==
  LET o == m.objects[h]
  IN  /\ o.data \in 1..Len(m.blocks) /\ m.blocks[o.data].live
      /\ o.len <= o.cap /\ o.cap <= LongMax /\ o.cap * ElemSize <= SizeMax
      /\ Len(WordsOf(m, h)) = o.cap

\* Headers release what they use, no block has two arrays, none has no array.
Sound(m) ==
  /\ m \in Memories
  /\ \A h \in LiveIn(m) : m.objects[h].aux = m.objects[h].data
  /\ \A h \in ArraysIn(m) : ArrayOK(m, h)
  /\ \A g, h \in ArraysIn(m) : m.objects[g].data = m.objects[h].data => g = h
  /\ \A b \in 1..Len(m.blocks) :
       m.blocks[b].live => \E h \in ArraysIn(m) : m.objects[h].data = b

\* Spare words are zero.
Tidy(m) ==
  \A h \in ArraysIn(m) : \A i \in m.objects[h].len + 1 .. m.objects[h].cap :
    WordsOf(m, h)[i] = 0

\* The memory after one array has n words of these.
Updated(m, h, n, words) ==
  [objects |-> [m.objects EXCEPT ![h].len = n],
   blocks |-> [m.blocks EXCEPT ![m.objects[h].data].words = words]]

(* Writing the words of one array and its length, and nothing else, keeps    *)
(* memory sound and leaves every other handle as it was.                     *)
LEMMA UpdateOne ==
  ASSUME NEW m, Sound(m), NEW h \in ArraysIn(m),
         NEW words \in Seq(Int), Len(words) = m.objects[h].cap,
         NEW n \in 0..m.objects[h].cap
  PROVE  LET u == Updated(m, h, n, words)
         IN  /\ Sound(u)
             /\ LiveIn(u) = LiveIn(m) /\ ArraysIn(u) = ArraysIn(m)
             /\ WordsOf(u, h) = words /\ u.objects[h] = [m.objects[h] EXCEPT !.len = n]
             /\ \A g \in LiveIn(m) \ {h} : View(u, g) = View(m, g) /\ u.objects[g] = m.objects[g]
                  /\ (g \in ArraysIn(m) => WordsOf(u, g) = WordsOf(m, g))
             /\ View(u, h) = SubSeq(words, 1, n)
<1> DEFINE u == Updated(m, h, n, words)
           d == m.objects[h].data
<1>1. /\ m.objects \in Seq(Objs) /\ m.blocks \in Seq(Blks)
      /\ Len(m.objects) \in Nat /\ Len(m.blocks) \in Nat
      /\ h \in 1..Len(m.objects) /\ d \in 1..Len(m.blocks)
      /\ m.objects[h] \in Objs /\ m.blocks[d] \in Blks
  BY SMTT(40) DEF Sound, Memories, ArraysIn, LiveIn, ArrayOK
<1>2. /\ [m.objects[h] EXCEPT !.len = n] \in Objs
      /\ [m.blocks[d] EXCEPT !.words = words] \in Blks
  <2>1. n \in Nat
    BY <1>1 DEF Objs
  <2>2. [m.objects[h] EXCEPT !.len = n] \in Objs
    BY <1>1, <2>1 DEF Objs
  <2>3. [m.blocks[d] EXCEPT !.words = words] \in Blks
    BY <1>1 DEF Blks
  <2> QED
    BY <2>2, <2>3
<1>3. /\ u.objects = [m.objects EXCEPT ![h] = [m.objects[h] EXCEPT !.len = n]]
      /\ u.blocks = [m.blocks EXCEPT ![d] = [m.blocks[d] EXCEPT !.words = words]]
  BY DEF Updated
<1>4. /\ u.objects \in Seq(Objs) /\ Len(u.objects) = Len(m.objects)
      /\ \A g \in 1..Len(m.objects) :
           u.objects[g] = IF g = h THEN [m.objects[h] EXCEPT !.len = n] ELSE m.objects[g]
  BY <1>1, <1>2, <1>3, ExceptSeq, SMTT(40)
<1>5. /\ u.blocks \in Seq(Blks) /\ Len(u.blocks) = Len(m.blocks)
      /\ \A b \in 1..Len(m.blocks) :
           u.blocks[b] = IF b = d THEN [m.blocks[d] EXCEPT !.words = words] ELSE m.blocks[b]
  BY <1>1, <1>2, <1>3, ExceptSeq, SMTT(40)
<1>6. u \in Memories
  BY <1>4, <1>5 DEF Memories, Updated
<1> HIDE DEF u
<1>7. \A g \in 1..Len(m.objects) :
        /\ u.objects[g].data = m.objects[g].data /\ u.objects[g].aux = m.objects[g].aux
        /\ u.objects[g].cap = m.objects[g].cap /\ u.objects[g].live = m.objects[g].live
        /\ g # h => u.objects[g] = m.objects[g]
  BY <1>1, <1>4 DEF Objs
<1>8. LiveIn(u) = LiveIn(m) /\ ArraysIn(u) = ArraysIn(m)
  BY <1>4, <1>7 DEF LiveIn, ArraysIn
<1>9. \A b \in 1..Len(m.blocks) :
        u.blocks[b].live = m.blocks[b].live /\ (b # d => u.blocks[b].words = m.blocks[b].words)
  BY <1>1, <1>5 DEF Blks
<1>10. u.objects[h].len = n /\ u.blocks[d].words = words
  BY <1>1, <1>4, <1>5 DEF Objs, Blks
<1>11. \A g \in ArraysIn(m) : ArrayOK(m, g) /\ (g # h => m.objects[g].data # d)
                              /\ g \in 1..Len(m.objects)
  BY DEF Sound, ArraysIn, LiveIn
<1>12. WordsOf(u, h) = words /\ View(u, h) = SubSeq(words, 1, n)
  BY <1>1, <1>7, <1>10 DEF WordsOf, View, ArraysIn
<1>13. \A g \in ArraysIn(m) \ {h} : WordsOf(u, g) = WordsOf(m, g)
  BY <1>7, <1>9, <1>11 DEF WordsOf, ArrayOK
<1>14. \A g \in LiveIn(m) \ {h} : View(u, g) = View(m, g)
  BY <1>7, <1>13 DEF View, ArraysIn, LiveIn
<1>15. \A g \in ArraysIn(u) : ArrayOK(u, g)
  <2> SUFFICES ASSUME NEW g \in ArraysIn(m) PROVE ArrayOK(u, g)
    BY <1>8
  <2>1. g \in 1..Len(m.objects) /\ ArrayOK(m, g)
    BY <1>11
  <2>2. /\ u.objects[g].data \in 1..Len(u.blocks) /\ u.blocks[u.objects[g].data].live
        /\ u.objects[g].cap <= LongMax /\ u.objects[g].cap * ElemSize <= SizeMax
    BY <2>1, <1>5, <1>7, <1>9 DEF ArrayOK
  <2>3. u.objects[g].len <= u.objects[g].cap /\ Len(WordsOf(u, g)) = u.objects[g].cap
    <3>1. CASE g = h
      BY <3>1, <1>1, <1>7, <1>10, <1>12
    <3>2. CASE g # h
      <4>1. WordsOf(u, g) = WordsOf(m, g) /\ u.objects[g] = m.objects[g]
        BY <2>1, <3>2, <1>7, <1>13
      <4> QED
        BY <2>1, <4>1 DEF ArrayOK
    <3> QED
      BY <3>1, <3>2
  <2> QED
    BY <2>2, <2>3 DEF ArrayOK
<1>16. Sound(u)
  <2> ArraysIn(m) \subseteq 1..Len(m.objects) /\ LiveIn(m) \subseteq 1..Len(m.objects)
    BY DEF ArraysIn, LiveIn
  <2>1. \A g \in LiveIn(u) : u.objects[g].aux = u.objects[g].data
    BY <1>7, <1>8 DEF Sound
  <2>2. \A f, g \in ArraysIn(u) : u.objects[f].data = u.objects[g].data => f = g
    BY <1>7, <1>8 DEF Sound
  <2>3. \A b \in 1..Len(u.blocks) :
          u.blocks[b].live => \E g \in ArraysIn(u) : u.objects[g].data = b
    <3>1. ASSUME NEW b \in 1..Len(m.blocks), u.blocks[b].live
          PROVE  \E g \in ArraysIn(m) : u.objects[g].data = b
      <4>1. PICK g \in ArraysIn(m) : m.objects[g].data = b
        BY <1>9, <3>1 DEF Sound
      <4> QED
        BY <1>7, <4>1
    <3> QED
      BY <1>5, <1>8, <3>1
  <2> QED
    BY <1>6, <1>15, <2>1, <2>2, <2>3 DEF Sound
<1>17. \A g \in LiveIn(m) \ {h} : u.objects[g] = m.objects[g]
  BY <1>7 DEF LiveIn
<1>18. u.objects[h] = [m.objects[h] EXCEPT !.len = n]
  BY <1>1, <1>4
<1> QED
  BY <1>8, <1>12, <1>13, <1>14, <1>16, <1>17, <1>18 DEF u

(* What calloc gives.                                                        *)
LEMMA ZerosAreWords ==
  ASSUME NEW n \in Nat
  PROVE  Zeros(n) \in Seq(Int) /\ Len(Zeros(n)) = n /\ \A i \in 1..n : Zeros(n)[i] = 0
BY DEF Zeros

\* The memory after NewArray.
Added(m, n) ==
  [objects |-> Append(m.objects, Handle(n, Grown(n), Len(m.blocks) + 1, TRUE)),
   blocks |-> Append(m.blocks, Block(Zeros(Grown(n))))]

(* avera_alloc_array that succeeds: one fresh handle that owns one fresh     *)
(* block of zeros; no other handle sees a difference.                        *)
LEMMA AddArray ==
  ASSUME NEW m, Sound(m), NEW n \in Nat, CanHold(n)
  PROVE  LET u == Added(m, n)
             h == Len(m.objects) + 1
         IN  /\ Sound(u)
             /\ Tidy(m) => Tidy(u)
             /\ LiveIn(u) = LiveIn(m) \cup {h} /\ ArraysIn(u) = ArraysIn(m) \cup {h}
             /\ h \notin LiveIn(m)
             /\ u.objects[h].len = n /\ u.objects[h].cap = Grown(n)
             /\ View(u, h) = Zeros(n)
             /\ \A g \in LiveIn(m) : View(u, g) = View(m, g) /\ u.objects[g] = m.objects[g]
<1> DEFINE u == Added(m, n)
           h == Len(m.objects) + 1
           d == Len(m.blocks) + 1
<1>1. Grown(n) \in Nat /\ n < Grown(n) /\ Grown(n) <= LongMax
      /\ Grown(n) * ElemSize <= SizeMax
  BY GrownFits
<1>2. /\ m.objects \in Seq(Objs) /\ m.blocks \in Seq(Blks)
      /\ Len(m.objects) \in Nat /\ Len(m.blocks) \in Nat
  BY DEF Sound, Memories
<1> DEFINE o == Handle(n, Grown(n), d, TRUE)
           k == Block(Zeros(Grown(n)))
<1>3. o \in Objs /\ k \in Blks
  BY <1>1, <1>2, ZerosAreWords DEF Handle, Block, Objs, Blks
<1>4. /\ u = [objects |-> u.objects, blocks |-> u.blocks]
      /\ u.objects = Append(m.objects, o) /\ u.blocks = Append(m.blocks, k)
  BY DEF Added
<1> HIDE DEF u, o, k
<1>5. /\ u.objects \in Seq(Objs) /\ Len(u.objects) = h
      /\ \A g \in 1..Len(m.objects) : u.objects[g] = m.objects[g]
      /\ u.objects[h] = o
  BY <1>4, <1>2, <1>3, AppendProperties
<1>6. /\ u.blocks \in Seq(Blks) /\ Len(u.blocks) = d
      /\ \A b \in 1..Len(m.blocks) : u.blocks[b] = m.blocks[b]
      /\ u.blocks[d] = k
  BY <1>4, <1>2, <1>3, AppendProperties
<1>7. u \in Memories
  BY <1>4, <1>5, <1>6 DEF Memories
<1>8. /\ u.objects[h].len = n /\ u.objects[h].cap = Grown(n) /\ u.objects[h].data = d
      /\ u.objects[h].aux = d /\ u.objects[h].live
      /\ u.blocks[d].words = Zeros(Grown(n)) /\ u.blocks[d].live
  BY <1>5, <1>6 DEF o, k, Handle, Block
<1>9. /\ LiveIn(m) \subseteq 1..Len(m.objects) /\ ArraysIn(m) \subseteq LiveIn(m)
      /\ 1..Len(u.objects) = 1..Len(m.objects) \cup {h}
      /\ 1..Len(u.blocks) = 1..Len(m.blocks) \cup {d}
      /\ h \notin 1..Len(m.objects) /\ d \notin 1..Len(m.blocks) /\ d # Null
  BY <1>2, <1>5, <1>6, SMTT(40) DEF LiveIn, ArraysIn, Null
<1>10. LiveIn(u) = LiveIn(m) \cup {h}
  BY <1>5, <1>8, <1>9 DEF LiveIn
<1>11. ArraysIn(u) = ArraysIn(m) \cup {h}
  BY <1>5, <1>8, <1>9, <1>10, SMTT(40) DEF ArraysIn
<1>12. \A g \in ArraysIn(m) : ArrayOK(m, g) /\ m.objects[g].data \in 1..Len(m.blocks)
                              /\ WordsOf(u, g) = WordsOf(m, g) /\ u.objects[g] = m.objects[g]
  BY <1>5, <1>6, <1>9, ZenonT(40) DEF Sound, ArrayOK, WordsOf
<1>13. /\ WordsOf(u, h) = Zeros(Grown(n)) /\ Len(WordsOf(u, h)) = Grown(n)
       /\ \A i \in 1..Grown(n) : WordsOf(u, h)[i] = 0
  <2>1. WordsOf(u, h) = Zeros(Grown(n))
    BY <1>8 DEF WordsOf
  <2> QED
    BY <1>1, <2>1, ZerosAreWords
<1>14. \A g \in ArraysIn(u) : ArrayOK(u, g)
  <2>1. ASSUME NEW g \in ArraysIn(m) PROVE ArrayOK(u, g)
    BY <1>6, <1>9, <1>12, ZenonT(40) DEF ArrayOK
  <2>2. ArrayOK(u, h)
    BY <1>1, <1>8, <1>9, <1>13 DEF ArrayOK
  <2> QED
    BY <1>11, <2>1, <2>2
<1>15. \A g \in LiveIn(m) : View(u, g) = View(m, g) /\ u.objects[g] = m.objects[g]
  BY <1>5, <1>9, <1>12 DEF View, ArraysIn
<1>16. View(u, h) = Zeros(n)
  <2>1. View(u, h) = SubSeq(Zeros(Grown(n)), 1, n)
    BY <1>8, <1>9, <1>13 DEF View
  <2>2. SubSeq(Zeros(Grown(n)), 1, n) = Zeros(n)
    BY <1>1 DEF Zeros
  <2> QED
    BY <2>1, <2>2
<1>17. Sound(u)
  <2>1. \A g \in LiveIn(u) : u.objects[g].aux = u.objects[g].data
    BY <1>8, <1>10, <1>15 DEF Sound
  <2>2. \A f, g \in ArraysIn(u) : u.objects[f].data = u.objects[g].data => f = g
    <3>1. \A f, g \in ArraysIn(m) : u.objects[f].data = u.objects[g].data => f = g
      BY <1>12 DEF Sound
    <3>2. \A f \in ArraysIn(m) : u.objects[f].data # d
      BY <1>9, <1>12
    <3> QED
      BY <1>8, <1>11, <3>1, <3>2
  <2>3. \A b \in 1..Len(u.blocks) :
          u.blocks[b].live => \E g \in ArraysIn(u) : u.objects[g].data = b
    <3>1. ASSUME NEW b \in 1..Len(m.blocks), u.blocks[b].live
          PROVE  \E g \in ArraysIn(m) : u.objects[g].data = b
      <4>1. PICK g \in ArraysIn(m) : m.objects[g].data = b
        BY <1>6, <3>1 DEF Sound
      <4> QED
        BY <1>12, <4>1
    <3> QED
      BY <1>8, <1>9, <1>11, <3>1
  <2> QED
    BY <1>7, <1>14, <2>1, <2>2, <2>3 DEF Sound
<1>18. ASSUME Tidy(m) PROVE Tidy(u)
  <2>1. ASSUME NEW g \in ArraysIn(m), NEW i \in u.objects[g].len + 1 .. u.objects[g].cap
        PROVE  WordsOf(u, g)[i] = 0
    BY <1>12, <1>18, <2>1 DEF Tidy
  <2>2. \A i \in n + 1 .. Grown(n) : WordsOf(u, h)[i] = 0
    BY <1>1, <1>13
  <2> QED
    BY <1>8, <1>11, <2>1, <2>2 DEF Tidy
<1> QED
  BY <1>8, <1>9, <1>10, <1>11, <1>15, <1>16, <1>17, <1>18 DEF u

\* The memory after a header without words.
WithHeader(m, live) ==
  [objects |-> Append(m.objects, Handle(0, 0, Null, live)), blocks |-> m.blocks]

(* A header without words: the block avera_alloc gives a shape or a choice,  *)
(* or the one avera_alloc_array releases when calloc refuses it its words.   *)
LEMMA AddHeader ==
  ASSUME NEW m, Sound(m), NEW live \in BOOLEAN
  PROVE  LET u == WithHeader(m, live)
             h == Len(m.objects) + 1
         IN  /\ Sound(u)
             /\ Tidy(m) => Tidy(u)
             /\ LiveIn(u) = IF live THEN LiveIn(m) \cup {h} ELSE LiveIn(m)
             /\ h \notin LiveIn(m)
             /\ ArraysIn(u) = ArraysIn(m)
             /\ View(u, h) = <<>> /\ u.objects[h].data = Null
             /\ \A g \in LiveIn(m) : View(u, g) = View(m, g) /\ u.objects[g] = m.objects[g]
<1> DEFINE u == WithHeader(m, live)
           h == Len(m.objects) + 1
           o == Handle(0, 0, Null, live)
<1>1. /\ m.objects \in Seq(Objs) /\ m.blocks \in Seq(Blks)
      /\ Len(m.objects) \in Nat /\ Len(m.blocks) \in Nat
  BY DEF Sound, Memories
<1>2. o \in Objs /\ o.data = Null /\ o.aux = Null /\ o.live = live
  BY DEF Handle, Objs, Null
<1>3. /\ u = [objects |-> u.objects, blocks |-> u.blocks]
      /\ u.objects = Append(m.objects, o) /\ u.blocks = m.blocks
  BY DEF WithHeader
<1> HIDE DEF u, o
<1>4. /\ u.objects \in Seq(Objs) /\ Len(u.objects) = h
      /\ \A g \in 1..Len(m.objects) : u.objects[g] = m.objects[g]
      /\ u.objects[h] = o
  BY <1>1, <1>2, <1>3, AppendProperties
<1>5. /\ LiveIn(m) \subseteq 1..Len(m.objects) /\ ArraysIn(m) \subseteq LiveIn(m)
      /\ 1..Len(u.objects) = 1..Len(m.objects) \cup {h}
      /\ h \notin 1..Len(m.objects)
  BY <1>1, <1>4 DEF LiveIn, ArraysIn
<1>6. LiveIn(u) = IF live THEN LiveIn(m) \cup {h} ELSE LiveIn(m)
  BY <1>2, <1>4, <1>5 DEF LiveIn
<1>7. ArraysIn(u) = ArraysIn(m)
  BY <1>2, <1>4, <1>5, <1>6 DEF ArraysIn
<1>8. \A g \in LiveIn(m) : View(u, g) = View(m, g) /\ u.objects[g] = m.objects[g]
  BY <1>3, <1>4, <1>5 DEF View, WordsOf
<1>9. \A g \in ArraysIn(m) : WordsOf(u, g) = WordsOf(m, g)
  BY <1>3, <1>5, <1>8 DEF WordsOf
<1>10. Sound(u)
  <2>1. u \in Memories
    BY <1>1, <1>3, <1>4 DEF Memories
  <2>2. \A g \in LiveIn(u) : u.objects[g].aux = u.objects[g].data
    BY <1>2, <1>4, <1>6, <1>8 DEF Sound
  <2>3. \A g \in ArraysIn(u) : ArrayOK(u, g)
    BY <1>3, <1>5, <1>7, <1>8, <1>9 DEF Sound, ArrayOK
  <2>4. \A f, g \in ArraysIn(u) : u.objects[f].data = u.objects[g].data => f = g
    BY <1>5, <1>7, <1>8 DEF Sound
  <2>5. \A b \in 1..Len(u.blocks) :
          u.blocks[b].live => \E g \in ArraysIn(u) : u.objects[g].data = b
    BY <1>3, <1>5, <1>7, <1>8 DEF Sound
  <2> QED
    BY <2>1, <2>2, <2>3, <2>4, <2>5 DEF Sound
<1>11. ASSUME Tidy(m) PROVE Tidy(u)
  BY <1>5, <1>7, <1>8, <1>9, <1>11 DEF Tidy
<1>12. View(u, h) = <<>> /\ u.objects[h].data = Null
  BY <1>2, <1>4 DEF View
<1> QED
  BY <1>5, <1>6, <1>7, <1>8, <1>10, <1>11, <1>12 DEF u

(* avera_array_grow that succeeds: realloc moved the words, zeros follow     *)
(* them, and the header owns the new block instead of the old one.           *)
LEMMA GrowOne ==
  ASSUME NEW m, Sound(m), NEW h \in ArraysIn(m), CanHold(m.objects[h].cap)
  PROVE  LET u == Grow(m, h)
         IN  /\ Sound(u)
             /\ Tidy(m) => Tidy(u)
             /\ LiveIn(u) = LiveIn(m) /\ ArraysIn(u) = ArraysIn(m)
             /\ u.objects[h].len = m.objects[h].len
             /\ m.objects[h].cap < u.objects[h].cap
             /\ \A g \in LiveIn(m) : View(u, g) = View(m, g)
             /\ \A g \in LiveIn(m) \ {h} : u.objects[g] = m.objects[g]
<1> DEFINE u == Grow(m, h)
           p == m.objects[h]
           old == WordsOf(m, h)
           d == Len(m.blocks) + 1
           o == Handle(p.len, Grown(p.cap), d, TRUE)
           gone == [m.blocks EXCEPT ![p.data] = [m.blocks[p.data] EXCEPT !.live = FALSE]]
           words == old \o Zeros(Grown(p.cap) - p.cap)
           k == Block(words)
<1>1. /\ m.objects \in Seq(Objs) /\ m.blocks \in Seq(Blks)
      /\ Len(m.objects) \in Nat /\ Len(m.blocks) \in Nat
      /\ h \in 1..Len(m.objects) /\ p \in Objs /\ ArrayOK(m, h)
      /\ p.data \in 1..Len(m.blocks) /\ m.blocks[p.data] \in Blks
  BY DEF Sound, Memories, ArraysIn, LiveIn, ArrayOK
<1>2. p.len \in Nat /\ p.cap \in Nat /\ old \in Seq(Int) /\ Len(old) = p.cap /\ p.len <= p.cap
  BY <1>1 DEF Objs, Blks, WordsOf, ArrayOK
<1>3. Grown(p.cap) \in Nat /\ p.cap < Grown(p.cap) /\ Grown(p.cap) <= LongMax
      /\ Grown(p.cap) * ElemSize <= SizeMax
  BY <1>2, GrownFits
<1>4. /\ words \in Seq(Int) /\ Len(words) = Grown(p.cap)
      /\ \A i \in 1..p.cap : words[i] = old[i]
      /\ \A i \in p.cap + 1..Grown(p.cap) : words[i] = 0
  <2> DEFINE z == Zeros(Grown(p.cap) - p.cap)
  <2>1. z \in Seq(Int) /\ Len(z) = Grown(p.cap) - p.cap /\ \A i \in 1..Len(z) : z[i] = 0
    <3>1. Grown(p.cap) - p.cap \in Nat
      BY <1>2, <1>3
    <3> QED
      BY <3>1, ZerosAreWords
  <2> HIDE DEF z, old, p
  <2>2. /\ old \o z \in Seq(Int) /\ Len(old \o z) = Len(old) + Len(z)
        /\ \A i \in 1..Len(old) + Len(z) :
             (old \o z)[i] = IF i <= Len(old) THEN old[i] ELSE z[i - Len(old)]
    BY <1>2, <2>1, ConcatProperties
  <2>3. words = old \o z
    BY DEF z
  <2> HIDE DEF words
  <2>4. Len(words) = Grown(p.cap)
    BY <1>2, <1>3, <2>1, <2>2, <2>3
  <2>5. \A i \in 1..p.cap : words[i] = old[i]
    BY <1>2, <1>3, <2>1, <2>2, <2>3
  <2>6. ASSUME NEW i \in p.cap + 1..Grown(p.cap) PROVE words[i] = 0
    <3>1. i - p.cap \in 1..Len(z) /\ i \in 1..Len(old) + Len(z) /\ ~(i <= Len(old))
      BY <1>2, <1>3, <2>1
    <3> QED
      BY <1>2, <2>1, <2>2, <2>3, <3>1
  <2> QED
    BY <2>2, <2>3, <2>4, <2>5, <2>6
<1> HIDE DEF words
<1>5. o \in Objs /\ k \in Blks
  <2> HIDE DEF p
  <2>1. d \in Nat
    BY <1>1
  <2>2. o \in Objs
    BY <1>2, <1>3, <2>1 DEF Handle, Objs
  <2>3. k \in Blks
    BY <1>4 DEF Block, Blks
  <2> QED
    BY <2>2, <2>3
<1>6. /\ u = [objects |-> u.objects, blocks |-> u.blocks]
      /\ u.objects = [m.objects EXCEPT ![h] = o] /\ u.blocks = Append(gone, k)
  BY DEF Grow, words, WordsOf
<1>7. /\ gone \in Seq(Blks) /\ Len(gone) = Len(m.blocks) /\ ~gone[p.data].live
      /\ \A b \in 1..Len(m.blocks) \ {p.data} : gone[b] = m.blocks[b]
  <2>1. [m.blocks[p.data] EXCEPT !.live = FALSE] \in Blks
        /\ ~[m.blocks[p.data] EXCEPT !.live = FALSE].live
    BY <1>1 DEF Blks
  <2> QED
    BY <1>1, <2>1, ExceptSeq
<1>8. /\ o.len = p.len /\ o.cap = Grown(p.cap) /\ o.data = d /\ o.aux = d /\ o.live
      /\ k.words = words /\ k.live
  BY DEF Handle, Block
<1> HIDE DEF u, o, k, gone
<1>9. /\ u.objects \in Seq(Objs) /\ Len(u.objects) = Len(m.objects)
      /\ u.objects[h] = o
      /\ \A g \in 1..Len(m.objects) \ {h} : u.objects[g] = m.objects[g]
  BY <1>1, <1>5, <1>6, ExceptSeq
<1>10. /\ u.blocks \in Seq(Blks) /\ Len(u.blocks) = d /\ u.blocks[d] = k
       /\ \A b \in 1..Len(m.blocks) : u.blocks[b] = gone[b]
  BY <1>5, <1>6, <1>7, AppendProperties
<1>11. /\ LiveIn(m) \subseteq 1..Len(m.objects) /\ ArraysIn(m) \subseteq LiveIn(m)
       /\ h \in LiveIn(m) /\ m.objects[h].live /\ m.objects[h].data # Null
       /\ 1..Len(u.blocks) = 1..Len(m.blocks) \cup {d}
       /\ d \notin 1..Len(m.blocks) /\ d # Null
  BY <1>1, <1>10 DEF LiveIn, ArraysIn, Null
<1>12. LiveIn(u) = LiveIn(m)
  BY <1>8, <1>9, <1>11 DEF LiveIn
<1>13. ArraysIn(u) = ArraysIn(m)
  BY <1>8, <1>9, <1>11, <1>12 DEF ArraysIn
<1>14. \A g \in ArraysIn(m) \ {h} :
         /\ ArrayOK(m, g) /\ u.objects[g] = m.objects[g]
         /\ m.objects[g].data \in 1..Len(m.blocks) \ {p.data}
         /\ u.blocks[m.objects[g].data] = m.blocks[m.objects[g].data]
         /\ WordsOf(u, g) = WordsOf(m, g)
  <2> SUFFICES ASSUME NEW g \in ArraysIn(m) \ {h}
               PROVE  /\ ArrayOK(m, g) /\ u.objects[g] = m.objects[g]
                      /\ m.objects[g].data \in 1..Len(m.blocks) \ {p.data}
                      /\ u.blocks[m.objects[g].data] = m.blocks[m.objects[g].data]
                      /\ WordsOf(u, g) = WordsOf(m, g)
    OBVIOUS
  <2>1. ArrayOK(m, g) /\ u.objects[g] = m.objects[g] /\ m.objects[g].data # p.data
    BY <1>9, <1>11 DEF Sound
  <2>2. m.objects[g].data \in 1..Len(m.blocks) \ {p.data}
    BY <2>1 DEF ArrayOK
  <2>3. u.blocks[m.objects[g].data] = m.blocks[m.objects[g].data]
    BY <1>7, <1>10, <2>2
  <2> QED
    BY <2>1, <2>2, <2>3 DEF WordsOf
<1>15. WordsOf(u, h) = words
  BY <1>8, <1>9, <1>10 DEF WordsOf
<1>16. \A g \in LiveIn(m) : View(u, g) = View(m, g)
  <2>1. View(u, h) = View(m, h)
    <3>1. /\ View(u, h) = SubSeq(words, 1, p.len)
          /\ View(m, h) = SubSeq(old, 1, p.len)
      BY <1>8, <1>9, <1>11, <1>15 DEF View
    <3>2. \A i \in 1..p.len : words[i] = old[i] /\ words[i] \in Int /\ old[i] \in Int
      <4> HIDE DEF old, p
      <4> TAKE i \in 1..p.len
      <4>1. i \in 1..p.cap /\ i \in 1..Len(old) /\ i \in 1..Len(words)
        BY <1>2, <1>3, <1>4
      <4> QED
        BY <1>2, <1>4, <4>1, ElementOfSeq
    <3> HIDE DEF old, p
    <3> QED
      BY <1>2, <3>1, <3>2
  <2>2. ASSUME NEW g \in LiveIn(m) \ {h} PROVE View(u, g) = View(m, g)
    BY <1>9, <1>11, <1>14 DEF View, ArraysIn
  <2> QED
    BY <2>1, <2>2
<1>17. Sound(u)
  <2>1. u \in Memories
    BY <1>6, <1>9, <1>10 DEF Memories
  <2>2. \A g \in LiveIn(u) : u.objects[g].aux = u.objects[g].data
    BY <1>8, <1>9, <1>11, <1>12 DEF Sound
  <2>3. ASSUME NEW g \in ArraysIn(u) PROVE ArrayOK(u, g)
    <3>1. CASE g = h
      <4> HIDE DEF p
      <4>1. /\ u.objects[h].len = p.len /\ u.objects[h].cap = Grown(p.cap)
            /\ u.objects[h].data = d /\ u.blocks[d].live /\ d \in 1..Len(u.blocks)
        BY <1>8, <1>9, <1>10, <1>11
      <4> QED
        BY <3>1, <4>1, <1>2, <1>3, <1>4, <1>15 DEF ArrayOK
    <3>2. CASE g # h
      BY <3>2, <1>11, <1>13, <1>14 DEF ArrayOK
    <3> QED
      BY <3>1, <3>2
  <2>4. ASSUME NEW f \in ArraysIn(u), NEW g \in ArraysIn(u),
               u.objects[f].data = u.objects[g].data
        PROVE  f = g
    <3>1. \A e \in ArraysIn(m) \ {h} : u.objects[e].data # d
      BY <1>11, <1>14
    <3>2. u.objects[h].data = d
      BY <1>8, <1>9
    <3> QED
      BY <1>13, <1>14, <2>4, <3>1, <3>2 DEF Sound
  <2>5. ASSUME NEW b \in 1..Len(u.blocks), u.blocks[b].live
        PROVE  \E g \in ArraysIn(u) : u.objects[g].data = b
    <3>1. CASE b = d
      BY <3>1, <1>8, <1>9, <1>13
    <3>2. CASE b # d
      <4>1. b \in 1..Len(m.blocks) /\ b # p.data /\ m.blocks[b].live
        BY <3>2, <2>5, <1>7, <1>10, <1>11
      <4>2. PICK g \in ArraysIn(m) : m.objects[g].data = b
        BY <4>1 DEF Sound
      <4> QED
        BY <1>13, <1>14, <4>1, <4>2
    <3> QED
      BY <3>1, <3>2
  <2> QED
    BY <2>1, <2>2, <2>3, <2>4, <2>5 DEF Sound
<1>18. ASSUME Tidy(m) PROVE Tidy(u)
  <2>1. \A i \in p.len + 1..p.cap : old[i] = 0
    BY <1>18 DEF Tidy
  <2> HIDE DEF old, p
  <2>2. \A i \in p.len + 1..Grown(p.cap) : words[i] = 0
    <3> SUFFICES ASSUME NEW i \in p.len + 1..Grown(p.cap) PROVE words[i] = 0
      OBVIOUS
    <3>1. CASE i <= p.cap
      BY <1>2, <1>3, <1>4, <2>1, <3>1, SMTT(40)
    <3>2. CASE p.cap < i
      BY <1>2, <1>3, <1>4, <3>2
    <3> QED
      BY <1>2, <1>3, <3>1, <3>2
  <2>3. \A g \in ArraysIn(m) \ {h} : \A i \in u.objects[g].len + 1..u.objects[g].cap :
          WordsOf(u, g)[i] = 0
    BY <1>14, <1>18 DEF Tidy
  <2> QED
    BY <1>8, <1>9, <1>13, <1>15, <2>2, <2>3 DEF Tidy
<1>19. \A g \in LiveIn(m) \ {h} : u.objects[g] = m.objects[g]
  BY <1>9, <1>11
<1> QED
  BY <1>3, <1>8, <1>9, <1>12, <1>13, <1>16, <1>17, <1>18, <1>19 DEF u

\* The memory after Release.
Released(m, h) ==
  [objects |-> [m.objects EXCEPT ![h].live = FALSE, ![h].aux = Null],
   blocks |-> [b \in 1..Len(m.blocks) |->
                 IF b = m.objects[h].aux THEN [m.blocks[b] EXCEPT !.live = FALSE]
                 ELSE m.blocks[b]]]

(* avera_free: one handle goes, with the block its aux names, and no other   *)
(* handle sees a difference.                                                 *)
LEMMA ReleaseOne ==
  ASSUME NEW m, Sound(m), NEW h \in LiveIn(m)
  PROVE  LET u == Released(m, h)
         IN  /\ Sound(u)
             /\ Tidy(m) => Tidy(u)
             /\ LiveIn(u) = LiveIn(m) \ {h} /\ ArraysIn(u) = ArraysIn(m) \ {h}
             /\ \A g \in LiveIn(m) \ {h} :
                  View(u, g) = View(m, g) /\ u.objects[g] = m.objects[g]
<1> DEFINE u == Released(m, h)
           p == m.objects[h]
           o == [[p EXCEPT !.live = FALSE] EXCEPT !.aux = Null]
<1>1. /\ m.objects \in Seq(Objs) /\ m.blocks \in Seq(Blks)
      /\ Len(m.objects) \in Nat /\ Len(m.blocks) \in Nat
      /\ h \in 1..Len(m.objects) /\ p \in Objs /\ p.aux = p.data
  BY DEF Sound, Memories, LiveIn
<1>2. o \in Objs /\ ~o.live
  BY <1>1 DEF Objs, Null
<1>3. /\ u = [objects |-> u.objects, blocks |-> u.blocks]
      /\ u.objects = [m.objects EXCEPT ![h] = o]
      /\ u.blocks = [b \in 1..Len(m.blocks) |->
                       IF b = p.data THEN [m.blocks[b] EXCEPT !.live = FALSE]
                       ELSE m.blocks[b]]
  BY <1>1 DEF Released
<1> HIDE DEF u, o, p
<1>4. /\ u.objects \in Seq(Objs) /\ Len(u.objects) = Len(m.objects)
      /\ ~u.objects[h].live
      /\ \A g \in 1..Len(m.objects) \ {h} : u.objects[g] = m.objects[g]
  BY <1>1, <1>2, <1>3, ExceptSeq
<1>5. /\ u.blocks \in Seq(Blks) /\ Len(u.blocks) = Len(m.blocks)
      /\ \A b \in 1..Len(m.blocks) :
           IF b = p.data THEN ~u.blocks[b].live ELSE u.blocks[b] = m.blocks[b]
  <2>1. ASSUME NEW b \in 1..Len(m.blocks)
        PROVE  /\ m.blocks[b] \in Blks /\ [m.blocks[b] EXCEPT !.live = FALSE] \in Blks
               /\ ~[m.blocks[b] EXCEPT !.live = FALSE].live
    <3>1. m.blocks[b] \in Blks
      BY <1>1
    <3> QED
      BY <3>1 DEF Blks
  <2>2. u.blocks \in [1..Len(m.blocks) -> Blks]
    BY <1>3, <2>1
  <2> QED
    BY <1>1, <1>3, <2>1, <2>2
<1>6. /\ LiveIn(m) \subseteq 1..Len(m.objects) /\ ArraysIn(m) \subseteq LiveIn(m)
  BY DEF LiveIn, ArraysIn
<1>7. LiveIn(u) = LiveIn(m) \ {h}
  BY <1>4, <1>6 DEF LiveIn
<1>8. ArraysIn(u) = ArraysIn(m) \ {h}
  BY <1>4, <1>6, <1>7 DEF ArraysIn
<1>9. ASSUME NEW g \in ArraysIn(m) \ {h}
      PROVE  /\ ArrayOK(m, g) /\ u.objects[g] = m.objects[g]
             /\ u.blocks[m.objects[g].data] = m.blocks[m.objects[g].data]
             /\ WordsOf(u, g) = WordsOf(m, g)
  <2>1. ArrayOK(m, g) /\ u.objects[g] = m.objects[g]
    BY <1>4, <1>6 DEF Sound
  <2>2. m.objects[g].data # p.data
    <3>1. CASE p.data = Null
      BY <3>1, <2>1 DEF ArraysIn
    <3>2. CASE p.data # Null
      <4>1. h \in ArraysIn(m)
        BY <3>2 DEF ArraysIn, p
      <4> QED
        BY <4>1 DEF Sound, p
    <3> QED
      BY <3>1, <3>2
  <2>3. u.blocks[m.objects[g].data] = m.blocks[m.objects[g].data]
    BY <1>5, <2>1, <2>2 DEF ArrayOK
  <2> QED
    BY <2>1, <2>3 DEF WordsOf
<1>10. \A g \in LiveIn(m) \ {h} : View(u, g) = View(m, g) /\ u.objects[g] = m.objects[g]
  BY <1>4, <1>6, <1>9 DEF View, ArraysIn
<1>11. Sound(u)
  <2>1. u \in Memories
    BY <1>3, <1>4, <1>5 DEF Memories
  <2>2. \A g \in LiveIn(u) : u.objects[g].aux = u.objects[g].data
    BY <1>7, <1>10 DEF Sound
  <2>3. \A g \in ArraysIn(u) : ArrayOK(u, g)
    BY <1>5, <1>8, <1>9 DEF ArrayOK
  <2>4. \A f, g \in ArraysIn(u) : u.objects[f].data = u.objects[g].data => f = g
    BY <1>8, <1>9 DEF Sound
  <2>5. ASSUME NEW b \in 1..Len(u.blocks), u.blocks[b].live
        PROVE  \E g \in ArraysIn(u) : u.objects[g].data = b
    <3>1. b \in 1..Len(m.blocks) /\ b # p.data /\ m.blocks[b].live
      BY <1>5, <2>5
    <3>2. PICK g \in ArraysIn(m) : m.objects[g].data = b
      BY <3>1 DEF Sound
    <3>3. g # h
      BY <3>1, <3>2 DEF p
    <3> QED
      BY <1>8, <1>9, <3>2, <3>3
  <2> QED
    BY <2>1, <2>2, <2>3, <2>4, <2>5 DEF Sound
<1>12. ASSUME Tidy(m) PROVE Tidy(u)
  BY <1>8, <1>9, <1>12 DEF Tidy
<1> QED
  BY <1>7, <1>8, <1>10, <1>11, <1>12 DEF u

(* A word written below the capacity is an update of one array.              *)
LEMMA WordWritten ==
  ASSUME NEW m, Sound(m), NEW h \in ArraysIn(m),
         NEW i \in 0..m.objects[h].cap - 1, NEW v \in Int
  PROVE  LET words == [WordsOf(m, h) EXCEPT ![i + 1] = v]
         IN  /\ words \in Seq(Int) /\ Len(words) = m.objects[h].cap
             /\ m.objects[h].len \in 0..m.objects[h].cap /\ m.objects[h].cap \in Nat
             /\ WordsOf(m, h) \in Seq(Int) /\ Len(WordsOf(m, h)) = m.objects[h].cap
             /\ \A j \in 1..m.objects[h].cap :
                  words[j] = IF j = i + 1 THEN v ELSE WordsOf(m, h)[j]
             /\ Write(m, h, i, v) = Updated(m, h, m.objects[h].len, words)
<1> DEFINE o == m.objects[h]
           w == WordsOf(m, h)
<1>1. /\ m.objects \in Seq(Objs) /\ m.blocks \in Seq(Blks) /\ h \in 1..Len(m.objects)
      /\ o \in Objs /\ ArrayOK(m, h) /\ m.blocks[o.data] \in Blks
      /\ m = [objects |-> m.objects, blocks |-> m.blocks]
  BY DEF Sound, Memories, ArraysIn, LiveIn, ArrayOK
<1>2. w \in Seq(Int) /\ Len(w) = o.cap /\ o.len \in 0..o.cap /\ o.cap \in Nat
  <2>1. o.len \in Nat /\ o.cap \in Nat /\ o.len <= o.cap /\ Len(w) = o.cap
    BY <1>1 DEF Objs, ArrayOK
  <2>2. w \in Seq(Int)
    BY <1>1 DEF Blks, WordsOf
  <2> QED
    BY <2>1, <2>2
<1>3. Write(m, h, i, v) = Updated(m, h, o.len, [w EXCEPT ![i + 1] = v])
  <2>1. [m.objects EXCEPT ![h].len = o.len] = m.objects
    <3>1. [o EXCEPT !.len = o.len] = o
      BY <1>1 DEF Objs
    <3> QED
      BY <1>1, <3>1
  <2> QED
    BY <1>1, <2>1 DEF Write, Updated, WordsOf
<1>4. i + 1 \in 1..Len(w)
  BY <1>2
<1> HIDE DEF w, o
<1>5. /\ [w EXCEPT ![i + 1] = v] \in Seq(Int) /\ Len([w EXCEPT ![i + 1] = v]) = o.cap
      /\ \A j \in 1..o.cap : [w EXCEPT ![i + 1] = v][j] = IF j = i + 1 THEN v ELSE w[j]
  BY <1>2, <1>4, ExceptSeq
<1> QED
  BY <1>2, <1>3, <1>5 DEF w, o

(* The words an array shows are the first of its block, as many as its       *)
(* length says.                                                              *)
LEMMA WordsOfArray ==
  ASSUME NEW m, Sound(m), NEW h \in ArraysIn(m)
  PROVE  /\ m.objects[h].len \in Nat /\ m.objects[h].cap \in Nat
         /\ m.objects[h].len <= m.objects[h].cap
         /\ WordsOf(m, h) \in Seq(Int) /\ Len(WordsOf(m, h)) = m.objects[h].cap
         /\ View(m, h) = SubSeq(WordsOf(m, h), 1, m.objects[h].len)
         /\ View(m, h) \in Seq(Int) /\ Len(View(m, h)) = m.objects[h].len
         /\ \A i \in 1..m.objects[h].len : View(m, h)[i] = WordsOf(m, h)[i]
<1> DEFINE o == m.objects[h]
           w == WordsOf(m, h)
<1>1. /\ m.objects \in Seq(Objs) /\ m.blocks \in Seq(Blks) /\ h \in 1..Len(m.objects)
      /\ o \in Objs /\ ArrayOK(m, h) /\ m.blocks[o.data] \in Blks /\ o.data # Null
  BY DEF Sound, Memories, ArraysIn, LiveIn, ArrayOK
<1>2. o.len \in Nat /\ o.cap \in Nat /\ o.len <= o.cap /\ Len(w) = o.cap
  BY <1>1 DEF Objs, ArrayOK
<1>3. w \in Seq(Int)
  BY <1>1 DEF Blks, WordsOf
<1>4. View(m, h) = SubSeq(w, 1, o.len)
  BY <1>1 DEF View
<1> HIDE DEF w, o
<1>5. \A i \in 1..o.len : w[i] \in Int
  BY <1>2, <1>3
<1>6. /\ SubSeq(w, 1, o.len) \in Seq(Int) /\ Len(SubSeq(w, 1, o.len)) = o.len
      /\ \A i \in 1..o.len : SubSeq(w, 1, o.len)[i] = w[i]
  BY <1>2, <1>5, SubSeqProperties
<1> QED
  BY <1>2, <1>3, <1>4, <1>6 DEF o, w

(* avera_array_set inside the length.                                        *)
LEMMA SetOne ==
  ASSUME NEW m, Sound(m), NEW h \in ArraysIn(m),
         NEW i \in Nat, i < m.objects[h].len, NEW v \in Int
  PROVE  LET u == Write(m, h, i, v)
         IN  /\ Sound(u)
             /\ Tidy(m) => Tidy(u)
             /\ LiveIn(u) = LiveIn(m) /\ ArraysIn(u) = ArraysIn(m)
             /\ u.objects = m.objects
             /\ View(u, h) = [View(m, h) EXCEPT ![i + 1] = v]
             /\ \A g \in LiveIn(m) \ {h} : View(u, g) = View(m, g)
<1> DEFINE u == Write(m, h, i, v)
           o == m.objects[h]
           w == WordsOf(m, h)
           x == [w EXCEPT ![i + 1] = v]
<1>1. /\ o.len \in Nat /\ o.cap \in Nat /\ o.len <= o.cap
      /\ View(m, h) \in Seq(Int) /\ Len(View(m, h)) = o.len
      /\ \A j \in 1..o.len : View(m, h)[j] = w[j]
  BY WordsOfArray
<1>2. i \in 0..o.cap - 1 /\ i + 1 \in 1..o.len
  BY <1>1
<1>3. /\ x \in Seq(Int) /\ Len(x) = o.cap /\ u = Updated(m, h, o.len, x)
      /\ o.len \in 0..o.cap
      /\ \A j \in 1..o.cap : x[j] = IF j = i + 1 THEN v ELSE w[j]
  BY <1>2, WordWritten
<1> HIDE DEF u, x
<1>4. /\ Sound(u) /\ LiveIn(u) = LiveIn(m) /\ ArraysIn(u) = ArraysIn(m)
      /\ WordsOf(u, h) = x /\ u.objects[h] = [o EXCEPT !.len = o.len]
      /\ View(u, h) = SubSeq(x, 1, o.len)
      /\ \A g \in LiveIn(m) \ {h} : View(u, g) = View(m, g) /\ u.objects[g] = m.objects[g]
           /\ (g \in ArraysIn(m) => WordsOf(u, g) = WordsOf(m, g))
  BY <1>3, UpdateOne
<1>5. u.objects = m.objects
  <2>1. u.objects = m.objects
    BY DEF u, Write
  <2> QED
    BY <2>1
<1>6. View(u, h) = [View(m, h) EXCEPT ![i + 1] = v]
  <2> DEFINE y == [View(m, h) EXCEPT ![i + 1] = v]
  <2>1. /\ y \in Seq(Int) /\ Len(y) = o.len
        /\ \A j \in 1..o.len : y[j] = IF j = i + 1 THEN v ELSE View(m, h)[j]
    BY <1>1, <1>2, ExceptSeq
  <2>2. h \in ArraysIn(u)
    BY <1>4
  <2>3. /\ View(u, h) \in Seq(Int) /\ Len(View(u, h)) = o.len
        /\ \A j \in 1..o.len : View(u, h)[j] = x[j]
    <3>1. /\ View(u, h) \in Seq(Int) /\ Len(View(u, h)) = u.objects[h].len
          /\ \A j \in 1..u.objects[h].len : View(u, h)[j] = WordsOf(u, h)[j]
      <4>1. Sound(u)
        BY <1>4
      <4> QED
        BY <4>1, <2>2, WordsOfArray
    <3> QED
      BY <1>4, <1>5, <3>1
  <2> HIDE DEF y, o, w
  <2>4. ASSUME NEW j \in 1..o.len PROVE View(u, h)[j] = y[j]
    <3>1. j \in 1..o.cap
      BY <1>1
    <3> QED
      BY <1>1, <1>3, <2>1, <2>3, <3>1
  <2>5. View(u, h) = y
    BY <2>1, <2>3, <2>4, SeqEqual
  <2> QED
    BY <2>5 DEF y
<1>7. ASSUME Tidy(m) PROVE Tidy(u)
  <2>1. ASSUME NEW g \in ArraysIn(m), NEW j \in m.objects[g].len + 1..m.objects[g].cap
        PROVE  WordsOf(u, g)[j] = 0
    <3>1. WordsOf(m, g)[j] = 0
      BY <1>7 DEF Tidy
    <3>2. CASE g = h
      <4>1. j \in 1..o.cap /\ j # i + 1
        BY <1>1, <3>2
      <4> QED
        BY <1>3, <1>4, <3>1, <3>2, <4>1
    <3>3. CASE g # h
      BY <1>4, <3>1, <3>3 DEF ArraysIn
    <3> QED
      BY <3>2, <3>3
  <2> QED
    BY <1>4, <1>5, <2>1 DEF Tidy
<1> QED
  BY <1>4, <1>5, <1>6, <1>7 DEF u

(* avera_array_push into room: the word goes to a spare slot, so nothing but *)
(* the length and that slot changes.                                         *)
LEMMA StoreOne ==
  ASSUME NEW m, Sound(m), NEW h \in ArraysIn(m),
         m.objects[h].len < m.objects[h].cap, NEW v \in Int
  PROVE  LET u == Stored(m, h, v)
         IN  /\ Sound(u)
             /\ Tidy(m) => Tidy(u)
             /\ LiveIn(u) = LiveIn(m) /\ ArraysIn(u) = ArraysIn(m)
             /\ u.objects[h].len = m.objects[h].len + 1
             /\ View(u, h) = Append(View(m, h), v)
             /\ \A g \in LiveIn(m) \ {h} : View(u, g) = View(m, g) /\ u.objects[g] = m.objects[g]
<1> DEFINE u == Stored(m, h, v)
           o == m.objects[h]
           n == o.len
           w == WordsOf(m, h)
           x == [w EXCEPT ![n + 1] = v]
<1>1. /\ n \in Nat /\ o.cap \in Nat /\ n <= o.cap
      /\ View(m, h) \in Seq(Int) /\ Len(View(m, h)) = n
      /\ \A j \in 1..n : View(m, h)[j] = w[j]
  BY WordsOfArray
<1>2. n \in 0..o.cap - 1 /\ n + 1 \in 0..o.cap
  BY <1>1
<1>3. /\ x \in Seq(Int) /\ Len(x) = o.cap /\ Write(m, h, n, v) = Updated(m, h, n, x)
      /\ \A j \in 1..o.cap : x[j] = IF j = n + 1 THEN v ELSE w[j]
  <2>1. n = m.objects[h].len
    OBVIOUS
  <2> HIDE DEF n
  <2> DEFINE i == n
  <2>2. i \in 0..m.objects[h].cap - 1 /\ 0 \in Int
    BY <1>2
  <2> HIDE DEF i
  <2>3. /\ [w EXCEPT ![i + 1] = v] \in Seq(Int) /\ Len([w EXCEPT ![i + 1] = v]) = o.cap
        /\ Write(m, h, i, v) = Updated(m, h, m.objects[h].len, [w EXCEPT ![i + 1] = v])
        /\ \A j \in 1..o.cap :
             [w EXCEPT ![i + 1] = v][j] = IF j = i + 1 THEN v ELSE w[j]
    BY <2>2, WordWritten
  <2> QED
    BY <2>1, <2>3 DEF i
<1>4. u = Updated(m, h, n + 1, x)
  <2>1. m.objects \in Seq(Objs) /\ h \in 1..Len(m.objects) /\ o \in Objs
    BY DEF Sound, Memories, ArraysIn, LiveIn
  <2>2. [[m.objects EXCEPT ![h].len = n] EXCEPT ![h].len = @ + 1]
          = [m.objects EXCEPT ![h].len = n + 1]
    BY <2>1 DEF Objs
  <2> HIDE DEF x, o
  <2>3. Stored(m, h, v) = [Updated(m, h, n, x) EXCEPT !.objects[h].len = @ + 1]
    BY <1>3 DEF Stored, o
  <2> QED
    BY <2>2, <2>3 DEF Updated, o
<1> HIDE DEF u, x
<1>5. /\ Sound(u) /\ LiveIn(u) = LiveIn(m) /\ ArraysIn(u) = ArraysIn(m)
      /\ WordsOf(u, h) = x /\ u.objects[h] = [o EXCEPT !.len = n + 1]
      /\ \A g \in LiveIn(m) \ {h} : View(u, g) = View(m, g) /\ u.objects[g] = m.objects[g]
           /\ (g \in ArraysIn(m) => WordsOf(u, g) = WordsOf(m, g))
  BY <1>2, <1>3, <1>4, UpdateOne, SMTT(40)
<1>6. u.objects[h].len = n + 1 /\ u.objects[h].cap = o.cap
  <2>1. o \in Objs
    BY DEF Sound, Memories, ArraysIn, LiveIn
  <2> QED
    BY <1>5, <2>1 DEF Objs
<1>7. View(u, h) = Append(View(m, h), v)
  <2> DEFINE y == Append(View(m, h), v)
  <2>1. /\ y \in Seq(Int) /\ Len(y) = n + 1 /\ y[n + 1] = v
        /\ \A j \in 1..n : y[j] = View(m, h)[j]
    BY <1>1, AppendProperties
  <2>2. h \in ArraysIn(u)
    BY <1>5
  <2>3. /\ View(u, h) \in Seq(Int) /\ Len(View(u, h)) = n + 1
        /\ \A j \in 1..n + 1 : View(u, h)[j] = x[j]
    <3>1. /\ View(u, h) \in Seq(Int) /\ Len(View(u, h)) = u.objects[h].len
          /\ \A j \in 1..u.objects[h].len : View(u, h)[j] = WordsOf(u, h)[j]
      <4>1. Sound(u)
        BY <1>5
      <4> QED
        BY <4>1, <2>2, WordsOfArray
    <3> HIDE DEF n
    <3> QED
      BY <1>5, <1>6, <3>1
  <2> HIDE DEF y, w, n, o
  <2>4. ASSUME NEW j \in 1..n + 1 PROVE View(u, h)[j] = y[j]
    <3>1. j \in 1..o.cap /\ (j # n + 1 => j \in 1..n)
      <4>1. n \in Nat /\ o.cap \in Nat /\ n + 1 <= o.cap
        BY <1>1, <1>2
      <4> QED
        BY <4>1
    <3> QED
      BY <1>1, <1>3, <2>1, <2>3, <3>1
  <2>5. View(u, h) = y
    BY <2>1, <2>3, <2>4, SeqEqual
  <2> QED
    BY <2>5 DEF y
<1>8. ASSUME Tidy(m) PROVE Tidy(u)
  <2>1. ASSUME NEW g \in ArraysIn(m), NEW j \in u.objects[g].len + 1..u.objects[g].cap
        PROVE  WordsOf(u, g)[j] = 0
    <3>1. CASE g = h
      <4>1. j \in 1..o.cap /\ j # n + 1 /\ j \in n + 1..o.cap
        BY <1>1, <1>6, <3>1, SMTT(40)
      <4>2. w[j] = 0
        BY <1>8, <4>1 DEF Tidy
      <4> QED
        BY <1>3, <1>5, <3>1, <4>1, <4>2
    <3>2. CASE g # h
      BY <1>5, <1>8, <3>2 DEF ArraysIn, Tidy
    <3> QED
      BY <3>1, <3>2
  <2> QED
    BY <1>5, <2>1 DEF Tidy
<1> QED
  BY <1>5, <1>6, <1>7, <1>8 DEF u

(* avera_array_pop: the slot it clears is spare when the length has moved,   *)
(* so spare slots stay zero.                                                 *)
LEMMA PopOne ==
  ASSUME NEW m, Sound(m), NEW h \in ArraysIn(m), m.objects[h].len # 0
  PROVE  LET u == Popped(m, h)
             n == m.objects[h].len
         IN  /\ Sound(u)
             /\ Tidy(m) => Tidy(u)
             /\ LiveIn(u) = LiveIn(m) /\ ArraysIn(u) = ArraysIn(m)
             /\ View(u, h) = SubSeq(View(m, h), 1, n - 1)
             /\ \A g \in LiveIn(m) \ {h} : View(u, g) = View(m, g) /\ u.objects[g] = m.objects[g]
<1> DEFINE u == Popped(m, h)
           o == m.objects[h]
           n == o.len
           w == WordsOf(m, h)
           x == [w EXCEPT ![(n - 1) + 1] = 0]
<1>1. /\ n \in Nat /\ o.cap \in Nat /\ n <= o.cap /\ n # 0
      /\ View(m, h) \in Seq(Int) /\ Len(View(m, h)) = n
      /\ \A j \in 1..n : View(m, h)[j] = w[j]
  BY WordsOfArray
<1>2. n - 1 \in 0..o.cap - 1 /\ n - 1 \in 0..o.cap
  BY <1>1
<1>3. /\ x \in Seq(Int) /\ Len(x) = o.cap /\ Write(m, h, n - 1, 0) = Updated(m, h, n, x)
      /\ \A j \in 1..o.cap : x[j] = IF j = (n - 1) + 1 THEN 0 ELSE w[j]
  <2>1. n = m.objects[h].len
    OBVIOUS
  <2> HIDE DEF n
  <2> DEFINE i == n - 1
  <2>2. i \in 0..m.objects[h].cap - 1 /\ 0 \in Int
    BY <1>2
  <2> HIDE DEF i
  <2>3. /\ [w EXCEPT ![i + 1] = 0] \in Seq(Int) /\ Len([w EXCEPT ![i + 1] = 0]) = o.cap
        /\ Write(m, h, i, 0) = Updated(m, h, m.objects[h].len, [w EXCEPT ![i + 1] = 0])
        /\ \A j \in 1..o.cap :
             [w EXCEPT ![i + 1] = 0][j] = IF j = i + 1 THEN 0 ELSE w[j]
    BY <2>2, WordWritten
  <2> QED
    BY <2>1, <2>3 DEF i
<1>4. u = Updated(m, h, n - 1, x)
  <2>1. m.objects \in Seq(Objs) /\ h \in 1..Len(m.objects) /\ o \in Objs
    BY DEF Sound, Memories, ArraysIn, LiveIn
  <2>2. [[m.objects EXCEPT ![h].len = n] EXCEPT ![h].len = @ - 1]
          = [m.objects EXCEPT ![h].len = n - 1]
    BY <2>1 DEF Objs
  <2> HIDE DEF x, o
  <2>3. Popped(m, h) = [Updated(m, h, n, x) EXCEPT !.objects[h].len = @ - 1]
    BY <1>3 DEF Popped, o
  <2> QED
    BY <2>2, <2>3 DEF Updated, o
<1> HIDE DEF u, x
<1>5. /\ Sound(u) /\ LiveIn(u) = LiveIn(m) /\ ArraysIn(u) = ArraysIn(m)
      /\ WordsOf(u, h) = x /\ u.objects[h] = [o EXCEPT !.len = n - 1]
      /\ \A g \in LiveIn(m) \ {h} : View(u, g) = View(m, g) /\ u.objects[g] = m.objects[g]
           /\ (g \in ArraysIn(m) => WordsOf(u, g) = WordsOf(m, g))
  BY <1>2, <1>3, <1>4, UpdateOne
<1>6. u.objects[h].len = n - 1 /\ u.objects[h].cap = o.cap
  <2>1. o \in Objs
    BY DEF Sound, Memories, ArraysIn, LiveIn
  <2> QED
    BY <1>5, <2>1 DEF Objs
<1>7. View(u, h) = SubSeq(View(m, h), 1, n - 1)
  <2> DEFINE y == SubSeq(View(m, h), 1, n - 1)
  <2>1. \A j \in 1..n - 1 : View(m, h)[j] \in Int
    BY <1>1
  <2>2. /\ y \in Seq(Int) /\ Len(y) = n - 1
        /\ \A j \in 1..n - 1 : y[j] = View(m, h)[j]
    <3> HIDE DEF n
    <3> QED
      BY <1>1, <2>1, SubSeqProperties
  <2>3. h \in ArraysIn(u)
    BY <1>5
  <2>4. /\ View(u, h) \in Seq(Int) /\ Len(View(u, h)) = n - 1
        /\ \A j \in 1..n - 1 : View(u, h)[j] = x[j]
    <3>1. /\ View(u, h) \in Seq(Int) /\ Len(View(u, h)) = u.objects[h].len
          /\ \A j \in 1..u.objects[h].len : View(u, h)[j] = WordsOf(u, h)[j]
      <4>1. Sound(u)
        BY <1>5
      <4> QED
        BY <4>1, <2>3, WordsOfArray
    <3> HIDE DEF n
    <3> QED
      BY <1>5, <1>6, <3>1
  <2> HIDE DEF y, w, n, o
  <2>5. ASSUME NEW j \in 1..n - 1 PROVE View(u, h)[j] = y[j]
    <3>1. j \in 1..o.cap /\ j \in 1..n /\ j # (n - 1) + 1
      BY <1>1
    <3> QED
      BY <1>1, <1>3, <2>2, <2>4, <3>1
  <2>6. View(u, h) = y
    BY <2>2, <2>4, <2>5, SeqEqual
  <2> QED
    BY <2>6 DEF y
<1>8. ASSUME Tidy(m) PROVE Tidy(u)
  <2>1. ASSUME NEW g \in ArraysIn(m), NEW j \in u.objects[g].len + 1..u.objects[g].cap
        PROVE  WordsOf(u, g)[j] = 0
    <3>1. CASE g = h
      <4>1. j \in 1..o.cap /\ (j = n \/ j \in n + 1..o.cap)
        <5>1. j \in (n - 1) + 1..o.cap
          BY <1>6, <3>1
        <5> HIDE DEF n, o
        <5> QED
          BY <1>1, <5>1
      <4>2. j # n => w[j] = 0
        BY <1>8, <4>1 DEF Tidy
      <4> QED
        BY <1>1, <1>3, <1>5, <3>1, <4>1, <4>2
    <3>2. CASE g # h
      BY <1>5, <1>8, <3>2 DEF ArraysIn, Tidy
    <3> QED
      BY <3>1, <3>2
  <2> QED
    BY <1>5, <2>1 DEF Tidy
<1> QED
  BY <1>5, <1>7, <1>8 DEF u

\* The loop in progress: what it has filled, and that nobody else has it.
LoopOK ==
  \/ loop = Idle
  \/ /\ ~stopped
     /\ loop \in [at : {"concat"}, left : Arrays, right : Arrays, out : 1..MaxHandles, i : Nat]
     /\ loop.out \in ArraysIn(Memory) \ {loop.left, loop.right}
     /\ objects[loop.out].len = Total(loop.left, loop.right)
     /\ loop.i <= Total(loop.left, loop.right)
     /\ \A j \in 1..loop.i :
          Text(loop.out)[j] = (Text(loop.left) \o Text(loop.right))[j]
  \/ /\ ~stopped
     /\ loop \in [at : {"read"}, out : 1..MaxHandles]
     /\ loop.out \in ArraysIn(Memory)
     /\ \A j \in 1..objects[loop.out].len : Text(loop.out)[j] # Newline

\* The inductive invariant.
LibInv ==
  /\ Sound(Memory) /\ Tidy(Memory)
  /\ input \in Seq(Nat)
  /\ stopped \in BOOLEAN
  /\ LoopOK

(* The model's own names for what the lemmas speak of.                       *)
LEMMA NamesAgree ==
  /\ Memory.objects = objects /\ Memory.blocks = blocks
  /\ Handles = LiveIn(Memory)
  /\ Arrays = {Null} \cup ArraysIn(Memory)
  /\ \A h \in LiveIn(Memory) : h \in Nat /\ h # Null /\ h \in 1..Len(objects)
  /\ \A h \in ArraysIn(Memory) :
       h \in LiveIn(Memory) /\ Text(h) = View(Memory, h) /\ Length(h) = objects[h].len
  /\ Text(Null) = <<>> /\ Length(Null) = 0
  /\ \A h : Data(h) = WordsOf(Memory, h)
<1>1. Memory.objects = objects /\ Memory.blocks = blocks
  BY DEF Memory
<1>2. Handles = LiveIn(Memory)
  BY <1>1 DEF Handles, LiveIn
<1>3. Arrays = {Null} \cup ArraysIn(Memory)
  BY <1>1, <1>2 DEF Arrays, ArraysIn
<1>4. \A h \in LiveIn(Memory) : h \in Nat /\ h # Null /\ h \in 1..Len(objects)
  BY <1>1 DEF LiveIn, Null
<1>5. \A h : Data(h) = WordsOf(Memory, h)
  BY <1>1 DEF Data, WordsOf
<1>6. \A h \in ArraysIn(Memory) :
        h \in LiveIn(Memory) /\ Text(h) = View(Memory, h) /\ Length(h) = objects[h].len
  BY <1>1, <1>4, <1>5 DEF ArraysIn, Text, View, Length
<1>7. Text(Null) = <<>> /\ Length(Null) = 0
  BY DEF Text, Length, Null
<1> QED
  BY <1>1, <1>2, <1>3, <1>4, <1>5, <1>6, <1>7

(* A text, the null handle read as the empty one, is a sequence of words as  *)
(* long as its length says.                                                  *)
LEMMA TextsAreWords ==
  ASSUME Sound(Memory), NEW h \in Arrays
  PROVE  Text(h) \in Seq(Int) /\ Len(Text(h)) = Length(h) /\ Length(h) \in Nat
<1>1. CASE h = Null
  BY <1>1, NamesAgree
<1>2. CASE h # Null
  <2>1. h \in ArraysIn(Memory) /\ Text(h) = View(Memory, h) /\ Length(h) = objects[h].len
        /\ Memory.objects = objects
    BY <1>2, NamesAgree
  <2> QED
    BY <2>1, WordsOfArray
<1> QED
  BY <1>1, <1>2

(* The inductive invariant holds of a program that has called nothing.       *)
LEMMA InitKeepsMemory == LibInit => LibInv
<1> SUFFICES ASSUME LibInit PROVE LibInv
  OBVIOUS
<1>1. objects = <<>> /\ blocks = <<>> /\ loop = Idle /\ stopped = FALSE
      /\ input \in Seq(Nat)
  BY LibraryAssumption DEF LibInit
<1>2. Memory \in Memories
  BY <1>1 DEF Memory, Memories
<1>3. LiveIn(Memory) = {} /\ ArraysIn(Memory) = {} /\ 1..Len(Memory.blocks) = {}
  BY <1>1 DEF LiveIn, ArraysIn, Memory
<1>4. Sound(Memory) /\ Tidy(Memory)
  BY <1>2, <1>3 DEF Sound, Tidy
<1> QED
  BY <1>1, <1>4 DEF LibInv, LoopOK

(* NewArray is the memory operation AddArray speaks of.                      *)
LEMMA NewIsAdded ==
  ASSUME NEW n, NewArray(n)
  PROVE  Memory' = Added(Memory, n)
BY DEF NewArray, Memory, Added, Block

(* NoArray leaves memory alone or leaves a header that is not live.          *)
LEMMA RefusedIsHeader ==
  ASSUME NEW n, NoArray(n)
  PROVE  Memory' = Memory \/ Memory' = WithHeader(Memory, FALSE)
BY DEF NoArray, Memory, WithHeader

(* Release is the memory operation ReleaseOne speaks of.                     *)
LEMMA ReleaseIsReleased ==
  ASSUME NEW h, Release(h)
  PROVE  Memory' = Released(Memory, h)
BY DEF Release, Memory, Released

(* Becomes sets both variables to the parts of the memory it names.          *)
LEMMA BecomesIt ==
  ASSUME NEW m, m \in Memories, Becomes(m)
  PROVE  Memory' = m
BY DEF Becomes, Memory, Memories

(* avera_array_push that stores, after growth or without: one word more in   *)
(* one array, and no other handle sees a difference.                         *)
LEMMA PushStores ==
  ASSUME Sound(Memory), Tidy(Memory), NEW h \in ArraysIn(Memory), NEW v \in Int, Pushes(h, v)
  PROVE  /\ Sound(Memory') /\ Tidy(Memory')
         /\ LiveIn(Memory') = LiveIn(Memory) /\ ArraysIn(Memory') = ArraysIn(Memory)
         /\ objects'[h].len = objects[h].len + 1
         /\ View(Memory', h) = Append(View(Memory, h), v)
         /\ \A g \in LiveIn(Memory) \ {h} :
              View(Memory', g) = View(Memory, g) /\ objects'[g] = objects[g]
<1>0. Memory.objects = objects /\ Memory'.objects = objects'
  BY DEF Memory
<1>1. CASE ~Full(h) /\ Becomes(Stored(Memory, h, v))
  <2>1. objects[h].len < objects[h].cap
    BY <1>0, <1>1, WordsOfArray DEF Full
  <2>2. Memory' = Stored(Memory, h, v)
    BY <1>0, <1>1, <2>1, StoreOne, BecomesIt DEF Sound
  <2> QED
    BY <1>0, <2>1, <2>2, StoreOne
<1>2. CASE Full(h) /\ CanHold(objects[h].cap) /\ Becomes(Stored(Grow(Memory, h), h, v))
  <2> DEFINE m == Grow(Memory, h)
  <2>1. /\ Sound(m) /\ Tidy(m) /\ LiveIn(m) = LiveIn(Memory) /\ ArraysIn(m) = ArraysIn(Memory)
        /\ m.objects[h].len = objects[h].len /\ objects[h].cap < m.objects[h].cap
        /\ \A g \in LiveIn(Memory) : View(m, g) = View(Memory, g)
        /\ \A g \in LiveIn(Memory) \ {h} : m.objects[g] = objects[g]
    BY <1>0, <1>2, GrowOne
  <2>2. m.objects[h].len < m.objects[h].cap
    <3>1. objects[h].len \in Nat /\ objects[h].cap \in Nat /\ objects[h].len <= objects[h].cap
      BY <1>0, WordsOfArray
    <3> HIDE DEF m
    <3>2. m.objects[h].cap \in Nat
      BY <2>1, WordsOfArray
    <3> QED
      BY <2>1, <3>1, <3>2
  <2> HIDE DEF m
  <2>3. h \in ArraysIn(m) /\ h \in LiveIn(Memory)
    BY <2>1 DEF ArraysIn
  <2>4. /\ Sound(Stored(m, h, v)) /\ Tidy(Stored(m, h, v))
        /\ LiveIn(Stored(m, h, v)) = LiveIn(m) /\ ArraysIn(Stored(m, h, v)) = ArraysIn(m)
        /\ Stored(m, h, v).objects[h].len = m.objects[h].len + 1
        /\ View(Stored(m, h, v), h) = Append(View(m, h), v)
        /\ \A g \in LiveIn(m) \ {h} : View(Stored(m, h, v), g) = View(m, g)
                                      /\ Stored(m, h, v).objects[g] = m.objects[g]
    BY <2>1, <2>2, <2>3, StoreOne
  <2>5. Memory' = Stored(m, h, v)
    BY <1>2, <2>4, BecomesIt DEF m, Sound
  <2> QED
    BY <1>0, <2>1, <2>3, <2>4, <2>5
<1> QED
  BY <1>1, <1>2 DEF Pushes

(* A call that leaves no loop running keeps the invariant when memory stays  *)
(* sound and its spare words zero.                                           *)
LEMMA IdleKeeps ==
  ASSUME LibInv, loop' = Idle, Sound(Memory'), Tidy(Memory'),
         input' \in Seq(Nat), stopped' \in BOOLEAN
  PROVE  LibInv'
BY DEF LibInv, LoopOK

(* The three shapes a loop record has are told apart by their tag.           *)
LEMMA LoopIsNotIdle ==
  /\ \A l \in [at : {"concat"}, left : Arrays, right : Arrays, out : 1..MaxHandles, i : Nat] :
       l # Idle /\ l.at = "concat"
  /\ \A l \in [at : {"read"}, out : 1..MaxHandles] : l # Idle /\ l.at = "read"
  /\ Idle.at = "idle"
<1>1. Idle.at = "idle"
  BY DEF Idle
<1> QED
  BY <1>1

(* avera_alloc_array keeps the invariant, whether it succeeds, is refused by *)
(* its size check, or by calloc half way.                                    *)
LEMMA AllocStep == ASSUME LibInv, NEW n \in Lengths, AllocArray(n) PROVE LibInv'
<1>1. /\ loop' = Idle /\ input' = input /\ stopped' = stopped
      /\ NewArray(n) \/ NoArray(n)
  BY DEF AllocArray, Calling, SameInput, SameLoop, Reply
<1>2. n \in Nat
  BY LibraryAssumption
<1>3. CASE NewArray(n)
  <2>1. Memory' = Added(Memory, n) /\ CanHold(n) /\ Sound(Memory) /\ Tidy(Memory)
    BY <1>3, NewIsAdded DEF NewArray, LibInv
  <2>2. Sound(Added(Memory, n)) /\ Tidy(Added(Memory, n))
    BY <1>2, <2>1, AddArray
  <2> QED
    BY <1>1, <2>1, <2>2, IdleKeeps DEF LibInv
<1>4. CASE NoArray(n)
  <2>1. Memory' = Memory \/ Memory' = WithHeader(Memory, FALSE)
    BY <1>4, RefusedIsHeader
  <2> QED
    BY <1>1, <2>1, AddHeader, IdleKeeps DEF LibInv
<1> QED
  BY <1>1, <1>3, <1>4

(* avera_alloc of a block without words keeps the invariant.                 *)
LEMMA RecordStep == ASSUME LibInv, AllocRecord PROVE LibInv'
<1>1. loop' = Idle /\ input' = input /\ stopped' = stopped
  BY DEF AllocRecord, Calling, SameInput, SameLoop, Reply
<1>2. Memory' = Memory \/ Memory' = WithHeader(Memory, TRUE)
  BY DEF AllocRecord, Memory, WithHeader
<1> QED
  BY <1>1, <1>2, AddHeader, IdleKeeps DEF LibInv

(* The calls that change no memory.                                          *)
LEMMA ReadsStep ==
  ASSUME LibInv, loop = Idle, SameMemory, SameInput, SameLoop,
         stopped' \in {stopped, TRUE}
  PROVE  LibInv'
<1>1. Memory' = Memory
  BY DEF Memory, SameMemory
<1> QED
  BY <1>1, IdleKeeps DEF LibInv, SameInput, SameLoop

(* avera_array_set keeps the invariant.                                      *)
LEMMA SetStep ==
  ASSUME LibInv, NEW h \in Arrays, NEW i \in Around(h), NEW v \in Words, SetWord(h, i, v)
  PROVE  LibInv'
<1>1. loop = Idle /\ SameInput /\ SameLoop /\ stopped' \in {stopped, TRUE}
  BY DEF SetWord, Calling, Reply, OutOfBounds
<1>2. CASE SameMemory
  BY <1>1, <1>2, ReadsStep
<1>3. CASE h # Null /\ Inside(h, i) /\ Becomes(Write(Memory, h, i, v))
  <2>1. h \in ArraysIn(Memory) /\ i \in Nat /\ i < Memory.objects[h].len /\ v \in Int
    <3>1. h \in ArraysIn(Memory) /\ Length(h) = objects[h].len /\ Memory.objects = objects
      BY <1>3, NamesAgree
    <3>2. i \in {-1, 0, Length(h)} /\ i >= 0 /\ i < Length(h)
      BY <1>3 DEF Inside, Around
    <3>3. Length(h) \in Nat
      BY TextsAreWords DEF LibInv
    <3>4. v \in Int
      BY LibraryAssumption
    <3> QED
      BY <3>1, <3>2, <3>3, <3>4
  <2>2. Sound(Write(Memory, h, i, v)) /\ Tidy(Write(Memory, h, i, v))
    BY <2>1, SetOne DEF LibInv
  <2>3. Memory' = Write(Memory, h, i, v)
    BY <1>3, <2>2, BecomesIt DEF Sound
  <2> QED
    BY <1>1, <2>2, <2>3, IdleKeeps DEF LibInv, SameInput, SameLoop
<1> QED
  BY <1>2, <1>3 DEF SetWord

(* avera_array_push keeps the invariant.                                     *)
LEMMA PushStep ==
  ASSUME LibInv, NEW h \in Arrays, NEW v \in Words, Push(h, v)
  PROVE  LibInv'
<1>1. loop = Idle /\ SameInput /\ SameLoop /\ stopped' = stopped
  BY DEF Push, Calling, Reply
<1>2. CASE SameMemory
  BY <1>1, <1>2, ReadsStep
<1>3. CASE h # Null /\ Pushes(h, v)
  <2>1. h \in ArraysIn(Memory) /\ v \in Int
    BY <1>3, NamesAgree, LibraryAssumption
  <2>2. Sound(Memory') /\ Tidy(Memory')
    BY <1>3, <2>1, PushStores DEF LibInv
  <2> QED
    BY <1>1, <2>2, IdleKeeps DEF LibInv, SameInput, SameLoop
<1> QED
  BY <1>2, <1>3 DEF Push, RefusesPush, SameMemory

(* avera_array_pop keeps the invariant.                                      *)
LEMMA PopStep ==
  ASSUME LibInv, NEW h \in Arrays, Pop(h)
  PROVE  LibInv'
<1>1. loop = Idle /\ SameInput /\ SameLoop /\ stopped' = stopped
  BY DEF Pop, Calling, Reply
<1>2. CASE Length(h) = 0
  BY <1>1, <1>2, ReadsStep DEF Pop, SameMemory
<1>3. CASE Length(h) # 0
  <2>1. h \in ArraysIn(Memory) /\ Memory.objects[h].len # 0
    BY <1>3, NamesAgree
  <2>2. Sound(Popped(Memory, h)) /\ Tidy(Popped(Memory, h))
    BY <2>1, PopOne DEF LibInv
  <2>3. Memory' = Popped(Memory, h)
    BY <1>3, <2>2, BecomesIt DEF Pop, Sound
  <2> QED
    BY <1>1, <2>2, <2>3, IdleKeeps DEF LibInv, SameInput, SameLoop
<1> QED
  BY <1>2, <1>3

(* avera_free keeps the invariant.                                           *)
LEMMA FreeStep ==
  ASSUME LibInv, NEW h \in Handles, Free(h)
  PROVE  LibInv'
<1>1. loop = Idle /\ SameInput /\ SameLoop /\ stopped' = stopped
  BY DEF Free, Calling, Reply
<1>2. Memory' = Released(Memory, h) /\ h \in LiveIn(Memory)
  BY NamesAgree, ReleaseIsReleased DEF Free
<1> QED
  BY <1>1, <1>2, ReleaseOne, IdleKeeps DEF LibInv, SameInput, SameLoop

(* avera_text_concat up to its loop keeps the invariant: its result is       *)
(* fresh, so it is neither of its operands.                                  *)
LEMMA ConcatStarts ==
  ASSUME LibInv, NEW a \in Arrays, NEW b \in Arrays, Concat(a, b)
  PROVE  LibInv'
<1>1. /\ loop = Idle /\ ~stopped /\ SameInput /\ stopped' = stopped
      /\ Len(objects) < MaxHandles /\ MaxHandles \in Nat
  BY LibraryAssumption DEF Concat, Calling, Reply, Room
<1>2. CASE loop' = Idle
  <2>1. Memory' = Memory \/ Memory' = WithHeader(Memory, FALSE)
    <3>1. SameMemory => Memory' = Memory
      BY DEF SameMemory, Memory
    <3>2. loop' # [at |-> "concat", left |-> a, right |-> b, out |-> Len(objects) + 1, i |-> 0]
      BY <1>2 DEF Idle
    <3> QED
      BY <3>1, <3>2, RefusedIsHeader DEF Concat
  <2> QED
    BY <1>1, <1>2, <2>1, AddHeader, IdleKeeps DEF LibInv, SameInput
<1>3. CASE /\ NewArray(Total(a, b))
           /\ loop' = [at |-> "concat", left |-> a, right |-> b, out |-> Len(objects) + 1, i |-> 0]
  <2> DEFINE n == Total(a, b)
             u == Added(Memory, n)
             out == Len(Memory.objects) + 1
  <2>1. n \in Nat /\ CanHold(n) /\ Memory' = u
    <3>1. Length(a) \in Nat /\ Length(b) \in Nat
      BY TextsAreWords DEF LibInv
    <3>2. n \in Nat
      BY <3>1 DEF Total
    <3>3. CanHold(n)
      BY <1>3 DEF NewArray
    <3>4. Memory' = u
      BY <1>3, NewIsAdded
    <3> QED
      BY <3>2, <3>3, <3>4
  <2>2. /\ Sound(u) /\ Tidy(u)
        /\ LiveIn(u) = LiveIn(Memory) \cup {out} /\ ArraysIn(u) = ArraysIn(Memory) \cup {out}
        /\ out \notin LiveIn(Memory) /\ u.objects[out].len = n
        /\ \A g \in LiveIn(Memory) : u.objects[g] = Memory.objects[g]
    BY <2>1, AddArray DEF LibInv
  <2> HIDE DEF u, n
  <2>3. out = Len(objects) + 1 /\ out \in ArraysIn(Memory') /\ objects'[out].len = n
        /\ Memory.objects = objects /\ Memory'.objects = objects'
    BY <2>1, <2>2 DEF Memory
  <2>4. /\ a \in Arrays' /\ b \in Arrays' /\ Length(a)' = Length(a) /\ Length(b)' = Length(b)
        /\ out \notin {a, b} /\ out \in 1..MaxHandles /\ out # Null
    <3>1. Arrays' = {Null} \cup ArraysIn(Memory') /\ out \in 1..MaxHandles /\ out # Null
      <4>1. Arrays' = {Null} \cup ArraysIn(Memory')
        BY DEF Arrays, Handles, ArraysIn, LiveIn, Memory
      <4>2. out \in 1..Len(u.objects)
        BY <2>2 DEF ArraysIn, LiveIn
      <4> QED
        BY <1>1, <2>3, <4>1, <4>2 DEF Null
    <3> QED
      BY <2>1, <2>2, <2>3, <3>1, NamesAgree DEF Length, ArraysIn
  <2>5. LoopOK'
    <3>1. loop' \in [at : {"concat"}, left : Arrays', right : Arrays', out : 1..MaxHandles, i : Nat]
      BY <1>3, <2>3, <2>4
    <3>2. Total(a, b)' = n
      BY <2>4 DEF Total, n
    <3>3. loop'.left = a /\ loop'.right = b /\ loop'.out = out /\ loop'.i = 0
      BY <1>3, <2>3
    <3> QED
      BY <1>1, <2>1, <2>3, <2>4, <3>1, <3>2, <3>3 DEF LoopOK, Total
  <2> QED
    BY <1>1, <2>1, <2>2, <2>5 DEF LibInv, SameInput
<1> QED
  BY <1>1, <1>2, <1>3 DEF Concat, SameLoop

(* avera_text_read_line up to its loop keeps the invariant.                  *)
LEMMA ReadStarts == ASSUME LibInv, ReadLine PROVE LibInv'
<1>1. /\ loop = Idle /\ ~stopped /\ SameInput /\ stopped' = stopped
      /\ Len(objects) < MaxHandles /\ MaxHandles \in Nat
  BY LibraryAssumption DEF ReadLine, Calling, Reply, Room
<1>2. CASE loop' = Idle
  <2>1. Memory' = Memory \/ Memory' = WithHeader(Memory, FALSE)
    <3>1. loop' # [at |-> "read", out |-> Len(objects) + 1]
      BY <1>2 DEF Idle
    <3> QED
      BY <3>1, RefusedIsHeader DEF ReadLine
  <2> QED
    BY <1>1, <1>2, <2>1, AddHeader, IdleKeeps DEF LibInv, SameInput
<1>3. CASE NewArray(0) /\ loop' = [at |-> "read", out |-> Len(objects) + 1]
  <2> DEFINE u == Added(Memory, 0)
             out == Len(Memory.objects) + 1
  <2>1. CanHold(0) /\ Memory' = u
    BY <1>3, NewIsAdded DEF NewArray
  <2>2. /\ Sound(u) /\ Tidy(u)
        /\ ArraysIn(u) = ArraysIn(Memory) \cup {out}
        /\ u.objects[out].len = 0
    BY <2>1, AddArray DEF LibInv
  <2> HIDE DEF u
  <2>3. /\ out = Len(objects) + 1 /\ out \in ArraysIn(Memory') /\ objects'[out].len = 0
        /\ out \in 1..MaxHandles
    BY <1>1, <2>1, <2>2 DEF Memory, ArraysIn, LiveIn
  <2>4. LoopOK'
    BY <1>1, <1>3, <2>3 DEF LoopOK
  <2> QED
    BY <1>1, <2>1, <2>2, <2>4 DEF LibInv, SameInput
<1> QED
  BY <1>1, <1>2, <1>3 DEF ReadLine, SameLoop

(* NamesAgree, of the state after a step.                                    *)
LEMMA NamesAgreeNext ==
  /\ Memory'.objects = objects' /\ Memory'.blocks = blocks'
  /\ Handles' = LiveIn(Memory') /\ Null \notin LiveIn(Memory')
  /\ Arrays' = {Null} \cup ArraysIn(Memory')
  /\ \A h \in ArraysIn(Memory') : Text(h)' = View(Memory', h) /\ Length(h)' = objects'[h].len
  /\ Text(Null)' = <<>> /\ Length(Null)' = 0
<1>1. Memory'.objects = objects' /\ Memory'.blocks = blocks'
  BY DEF Memory
<1>2. /\ Handles' = LiveIn(Memory') /\ Null \notin LiveIn(Memory')
      /\ Arrays' = {Null} \cup ArraysIn(Memory')
  BY <1>1 DEF Arrays, Handles, ArraysIn, LiveIn, Null
<1>3. \A h \in ArraysIn(Memory') : Text(h)' = View(Memory', h) /\ Length(h)' = objects'[h].len
  BY <1>1 DEF ArraysIn, LiveIn, Text, View, WordsOf, Data, Length, Null
<1>4. Text(Null)' = <<>> /\ Length(Null)' = 0
  BY DEF Text, Length, Null
<1> QED
  BY <1>1, <1>2, <1>3, <1>4

(* One turn of the copying loop writes the word the concatenation has at     *)
(* that place, whichever operand it comes from.                              *)
LEMMA ConcatCopies ==
  ASSUME LibInv, ConcatWord
  PROVE  LET v == (Text(loop.left) \o Text(loop.right))[loop.i + 1]
         IN  /\ v \in Int
             /\ Memory' = Write(Memory, loop.out, loop.i, v)
             /\ loop.out \in ArraysIn(Memory) /\ loop.i \in Nat
             /\ loop.i < objects[loop.out].len
             /\ loop' = [loop EXCEPT !.i = @ + 1] /\ stopped' = stopped /\ input' = input
             /\ reply' = reply
<1> DEFINE a == loop.left
           b == loop.right
           i == loop.i
           t == Text(a) \o Text(b)
           v == t[i + 1]
           n == Length(a)
<1>1. loop.at = "concat" /\ i < Total(a, b)
  BY DEF ConcatWord
<1>2. /\ a \in Arrays /\ b \in Arrays /\ loop.out \in ArraysIn(Memory) /\ i \in Nat
      /\ objects[loop.out].len = Total(a, b) /\ Sound(Memory)
  BY <1>1, LoopIsNotIdle DEF LibInv, LoopOK
<1>3. /\ Text(a) \in Seq(Int) /\ Len(Text(a)) = n /\ n \in Nat
      /\ Text(b) \in Seq(Int) /\ Len(Text(b)) = Length(b) /\ Length(b) \in Nat
  BY <1>2, TextsAreWords
<1>4. i + 1 \in 1..n + Length(b)
  BY <1>1, <1>2, <1>3 DEF Total
<1> HIDE DEF n
<1>5. v \in Int /\ v = IF i + 1 <= n THEN Text(a)[i + 1] ELSE Text(b)[i + 1 - n]
  <2> DEFINE x == Text(a)
             y == Text(b)
  <2>1. x \in Seq(Int) /\ y \in Seq(Int) /\ Len(x) = n /\ Len(y) = Length(b) /\ t = x \o y
    BY <1>3
  <2> HIDE DEF x, y, t
  <2>2. /\ x \o y \in Seq(Int) /\ Len(x \o y) = Len(x) + Len(y)
        /\ \A j \in 1..Len(x) + Len(y) :
             (x \o y)[j] = IF j <= Len(x) THEN x[j] ELSE y[j - Len(x)]
    BY <2>1, ConcatProperties
  <2>3. t[i + 1] \in Int /\ t[i + 1] = IF i + 1 <= n THEN x[i + 1] ELSE y[i + 1 - n]
    <3> DEFINE z == x \o y
               k == i + 1
    <3>1. k \in 1..Len(x) + Len(y)
      BY <1>4, <2>1
    <3>2. /\ z \in Seq(Int) /\ Len(z) = Len(x) + Len(y) /\ t = z
          /\ \A j \in 1..Len(x) + Len(y) : z[j] = IF j <= Len(x) THEN x[j] ELSE y[j - Len(x)]
      BY <2>1, <2>2
    <3>6. k = i + 1
      OBVIOUS
    <3> HIDE DEF z, k
    <3>3. z[k] \in Int
      BY <3>1, <3>2, ElementOfSeq
    <3>4. z[k] = IF k <= Len(x) THEN x[k] ELSE y[k - Len(x)]
      BY <3>1, <3>2
    <3>5. t[k] \in Int /\ t[k] = IF k <= n THEN x[k] ELSE y[k - n]
      BY <2>1, <3>2, <3>3, <3>4
    <3> QED
      BY <1>2, <1>3, <3>5, <3>6
  <2> QED
    BY <2>3 DEF x, y
<1>6. \A h \in Arrays, j \in Nat : 1 <= j /\ j <= Length(h) => Text(h)[j] = Data(h)[j]
  <2> SUFFICES ASSUME NEW h \in Arrays, NEW j \in Nat, 1 <= j, j <= Length(h)
               PROVE  Text(h)[j] = Data(h)[j]
    OBVIOUS
  <2>1. h # Null
    BY NamesAgree
  <2>2. /\ h \in ArraysIn(Memory) /\ Text(h) = View(Memory, h) /\ Length(h) = Memory.objects[h].len
        /\ Data(h) = WordsOf(Memory, h)
    BY <2>1, NamesAgree
  <2>3. Length(h) \in Nat
    BY <1>2, TextsAreWords
  <2> QED
    BY <1>2, <2>2, <2>3, WordsOfArray
<1>7. v = IF i < n THEN Data(a)[i + 1] ELSE Data(b)[i - n + 1]
  <2>1. CASE i < n
    BY <1>2, <1>3, <1>5, <1>6, <2>1 DEF n
  <2>2. CASE ~(i < n)
    <3>1. i + 1 - n \in Nat /\ 1 <= i + 1 - n /\ i + 1 - n <= Length(b) /\ i + 1 - n = i - n + 1
          /\ ~(i + 1 <= n)
      BY <1>2, <1>3, <1>4, <2>2
    <3> QED
      BY <1>2, <1>5, <1>6, <2>2, <3>1
  <2> QED
    BY <2>1, <2>2
<1>8. i < Memory.objects[loop.out].len
  BY <1>1, <1>2, NamesAgree
<1>9. Becomes(Write(Memory, loop.out, i, v))
  BY <1>7 DEF ConcatWord, CopyStep, n
<1>10. Write(Memory, loop.out, i, v) \in Memories
  BY <1>2, <1>5, <1>8, SetOne DEF Sound
<1> QED
  BY <1>1, <1>2, <1>5, <1>9, <1>10, BecomesIt DEF ConcatWord, SameInput

(* One turn of the copying loop keeps the invariant: what is copied so far   *)
(* is a prefix of the concatenation.                                         *)
LEMMA CopyKeeps == ASSUME LibInv, ConcatWord PROVE LibInv'
<1>1. loop.at = "concat" /\ loop.i < Total(loop.left, loop.right)
  BY DEF ConcatWord
<1>2. PICK a \in Arrays, b \in Arrays, c \in 1..MaxHandles, i \in Nat :
        loop = [at |-> "concat", left |-> a, right |-> b, out |-> c, i |-> i]
  BY <1>1, LoopIsNotIdle DEF LibInv, LoopOK
<1>3. /\ ~stopped /\ c \in ArraysIn(Memory) \ {a, b}
      /\ objects[c].len = Total(a, b) /\ i < Total(a, b)
      /\ \A j \in 1..i : Text(c)[j] = (Text(a) \o Text(b))[j]
      /\ Sound(Memory) /\ Tidy(Memory)
  BY <1>1, <1>2, LoopIsNotIdle DEF LibInv, LoopOK
<1> DEFINE v == (Text(a) \o Text(b))[i + 1]
           u == Write(Memory, c, i, v)
<1>4. /\ v \in Int /\ Memory' = u /\ i < Memory.objects[c].len
      /\ loop' = [at |-> "concat", left |-> a, right |-> b, out |-> c, i |-> i + 1]
      /\ stopped' = stopped /\ input' = input
  BY <1>2, ConcatCopies, NamesAgree
<1> HIDE DEF v
<1>5. /\ Sound(u) /\ Tidy(u)
      /\ LiveIn(u) = LiveIn(Memory) /\ ArraysIn(u) = ArraysIn(Memory)
      /\ u.objects = Memory.objects
      /\ View(u, c) = [View(Memory, c) EXCEPT ![i + 1] = v]
      /\ \A g \in LiveIn(Memory) \ {c} : View(u, g) = View(Memory, g)
  BY <1>3, <1>4, SetOne
<1> HIDE DEF u
<1>6. Arrays' = Arrays /\ objects' = objects
  BY <1>4, <1>5, NamesAgree, NamesAgreeNext
<1>7. \A h \in Arrays \ {c} : Text(h)' = Text(h) /\ Length(h)' = Length(h)
  BY <1>4, <1>5, <1>6, NamesAgree, NamesAgreeNext
<1>8. Text(c)' = [Text(c) EXCEPT ![i + 1] = v]
  BY <1>3, <1>4, <1>5, NamesAgree, NamesAgreeNext
<1>9. Total(a, b)' = Total(a, b) /\ Total(a, b) \in Nat
  BY <1>3, <1>7, TextsAreWords DEF Total
<1>10. \A j \in 1..i + 1 : Text(c)'[j] = (Text(a)' \o Text(b)')[j]
  <2>1. Text(a)' = Text(a) /\ Text(b)' = Text(b)
    BY <1>3, <1>7
  <2>2. Text(c) \in Seq(Int) /\ Len(Text(c)) = Length(c) /\ Length(c) = Total(a, b)
    BY <1>3, NamesAgree, TextsAreWords
  <2>3. /\ i + 1 \in 1..Len(Text(c))
        /\ \A j \in 1..i + 1 : j \in 1..Len(Text(c)) /\ (j # i + 1 => j \in 1..i)
    BY <1>3, <1>9, <2>2
  <2>4. \A j \in 1..Len(Text(c)) : Text(c)'[j] = IF j = i + 1 THEN v ELSE Text(c)[j]
    BY <1>4, <1>8, <2>2, <2>3, ExceptSeq
  <2> QED
    BY <1>3, <2>1, <2>3, <2>4 DEF v
<1>11. LoopOK'
  <2>1. loop' \in [at : {"concat"}, left : Arrays', right : Arrays', out : 1..MaxHandles, i : Nat]
    BY <1>4, <1>6
  <2>2. loop'.left = a /\ loop'.right = b /\ loop'.out = c /\ loop'.i = i + 1
    BY <1>4
  <2>3. c \in ArraysIn(Memory') \ {a, b} /\ objects'[c].len = Total(a, b)' /\ i + 1 <= Total(a, b)'
        /\ ~stopped'
    BY <1>3, <1>4, <1>5, <1>6, <1>9
  <2> QED
    BY <1>10, <2>1, <2>2, <2>3 DEF LoopOK, Total
<1> QED
  BY <1>4, <1>5, <1>11 DEF LibInv

(* One byte read keeps the invariant: no newline gets into the line.         *)
LEMMA ByteKeeps == ASSUME LibInv, ReadByte PROVE LibInv'
<1>1. loop.at = "read" /\ input # <<>> /\ Head(input) # Newline /\ loop' = loop
      /\ input' = Tail(input) /\ stopped' = stopped /\ Pushes(loop.out, Head(input))
  BY DEF ReadByte, EndOfLine
<1>2. PICK c \in 1..MaxHandles : loop = [at |-> "read", out |-> c]
  BY <1>1, LoopIsNotIdle DEF LibInv, LoopOK
<1>3. /\ ~stopped /\ c \in ArraysIn(Memory) /\ input \in Seq(Nat)
      /\ \A j \in 1..objects[c].len : Text(c)[j] # Newline
      /\ Sound(Memory) /\ Tidy(Memory)
  BY <1>1, <1>2, LoopIsNotIdle DEF LibInv, LoopOK
<1>4. Head(input) \in Nat /\ input' \in Seq(Nat)
  BY <1>1, <1>3, HeadTailProperties
<1>5. /\ Sound(Memory') /\ Tidy(Memory')
      /\ ArraysIn(Memory') = ArraysIn(Memory)
      /\ objects'[c].len = objects[c].len + 1
      /\ View(Memory', c) = Append(View(Memory, c), Head(input))
  BY <1>1, <1>2, <1>3, <1>4, PushStores
<1>6. \A j \in 1..objects'[c].len : Text(c)'[j] # Newline
  <2>1. Text(c)' = Append(Text(c), Head(input))
    BY <1>3, <1>5, NamesAgree, NamesAgreeNext
  <2>2. Text(c) \in Seq(Int) /\ Len(Text(c)) = objects[c].len /\ objects[c].len \in Nat
    BY <1>3, NamesAgree, TextsAreWords
  <2> DEFINE t == Append(Text(c), Head(input))
  <2>3. /\ \A j \in 1..objects[c].len : t[j] = Text(c)[j]
        /\ t[objects[c].len + 1] = Head(input)
    BY <1>4, <2>2, AppendProperties
  <2>4. ASSUME NEW j \in 1..objects'[c].len PROVE t[j] # Newline
    <3>1. CASE j = objects[c].len + 1
      BY <1>1, <2>3, <3>1
    <3>2. CASE j # objects[c].len + 1
      <4>1. j \in 1..objects[c].len
        <5>1. objects'[c].len = objects[c].len + 1 /\ objects[c].len \in Nat
          BY <1>5, <2>2
        <5> QED
          BY <5>1, <3>2
      <4> QED
        BY <1>3, <2>3, <4>1
    <3> QED
      BY <3>1, <3>2
  <2> QED
    BY <2>1, <2>4
<1>7. LoopOK'
  BY <1>1, <1>2, <1>3, <1>5, <1>6 DEF LoopOK
<1> QED
  BY <1>1, <1>3, <1>4, <1>5, <1>7 DEF LibInv

(* The end of a loop keeps the invariant.                                    *)
LEMMA EndKeeps == ASSUME LibInv, LoopEnds PROVE LibInv'
<1>1. loop' = Idle /\ stopped' = stopped /\ Memory' = Memory
  BY DEF LoopEnds, Reply, SameMemory, RefusesPush, Memory
<1>2. input' \in Seq(Nat)
  <2>1. input' = input \/ input' = <<>> \/ (input # <<>> /\ input' = Tail(input))
    BY DEF LoopEnds, EndOfLine
  <2> QED
    BY <2>1, HeadTailProperties, EmptySeq DEF LibInv
<1> QED
  BY <1>1, <1>2, IdleKeeps DEF LibInv

(* Every call, and every turn of a loop, keeps the invariant.                *)
LEMMA LibStep == LibInv /\ [LibNext]_lvars => LibInv'
<1> SUFFICES ASSUME LibInv, [LibNext]_lvars PROVE LibInv'
  OBVIOUS
<1>1. CASE UNCHANGED lvars
  BY <1>1 DEF lvars, LibInv, LoopOK, Memory, Arrays, Handles, Total, Length, Text, Data
<1>2. ASSUME NEW h \in Arrays,
             \/ LengthOf(h) \/ Capacity(h) \/ PrintText(h)
             \/ \E i \in Around(h) : Get(h, i)
             \/ \E g \in Arrays : TextEqual(h, g)
      PROVE  LibInv'
  BY <1>2, ReadsStep
  DEF LengthOf, Capacity, PrintText, Get, TextEqual, Calling, Reply, OutOfBounds
<1> QED
  BY <1>1, <1>2, AllocStep, RecordStep, SetStep, PushStep, PopStep, FreeStep,
     ConcatStarts, ReadStarts, CopyKeeps, ByteKeeps, EndKeeps DEF LibNext

(* Whatever a program calls in whatever order, and whichever allocations     *)
(* fail: the block an array uses is allocated, is the one its header will    *)
(* release, has as many words as the capacity says, and its size fits a      *)
(* size_t.                                                                   *)
THEOREM MemoryTyped == LibSpec => []LibTypeOK
<1>1. LibInv => LibTypeOK
  <2> SUFFICES ASSUME LibInv PROVE LibTypeOK
    OBVIOUS
  <2>1. \A h \in Handles : objects[h].aux = objects[h].data
    BY NamesAgree DEF LibInv, Sound
  <2>2. ASSUME NEW h \in Handles, objects[h].data # Null
        PROVE  /\ objects[h].data \in Blocks
               /\ objects[h].len <= objects[h].cap /\ objects[h].cap <= LongMax
               /\ Len(Data(h)) = objects[h].cap
               /\ objects[h].cap * ElemSize <= SizeMax
    <3>1. h \in ArraysIn(Memory)
      BY <2>2, NamesAgree DEF ArraysIn
    <3>2. ArrayOK(Memory, h)
      BY <3>1 DEF LibInv, Sound
    <3> QED
      BY <3>2, NamesAgree DEF ArrayOK, Blocks
  <2> QED
    BY <2>1, <2>2 DEF LibTypeOK, LibInv
<1> QED
  BY InitKeepsMemory, LibStep, <1>1, PTL DEF LibSpec

(* No allocation, growth, refusal or release leaks a block or lets two       *)
(* handles own one: each block in use belongs to exactly one live handle.    *)
THEOREM BlocksOwned == LibSpec => []OneOwnerPerBlock
<1>1. LibInv => OneOwnerPerBlock
  <2> SUFFICES ASSUME LibInv, NEW b \in Blocks
               PROVE  Cardinality({h \in Handles : objects[h].aux = b}) = 1
    BY DEF OneOwnerPerBlock
  <2>1. b \in 1..Len(Memory.blocks) /\ Memory.blocks[b].live /\ b # Null
    BY NamesAgree DEF Blocks, Null
  <2>2. PICK h \in ArraysIn(Memory) : objects[h].data = b
    BY <2>1, NamesAgree DEF LibInv, Sound
  <2>3. \A g \in Handles : objects[g].aux = objects[g].data
    BY NamesAgree DEF LibInv, Sound
  <2>4. \A g \in Handles : objects[g].data = b => g = h
    BY <2>1, <2>2, NamesAgree DEF LibInv, Sound, ArraysIn
  <2>5. h \in Handles
    BY NamesAgree
  <2>6. {g \in Handles : objects[g].aux = b} = {h}
    BY <2>2, <2>3, <2>4, <2>5
  <2> QED
    BY <2>6, FS_Singleton
<1> QED
  BY InitKeepsMemory, LibStep, <1>1, PTL DEF LibSpec

(* The words past the length are zero in every array, as calloc, the growth  *)
(* and pop leave them: a capacity is never read as old data.                 *)
THEOREM SpareWordsCleared == LibSpec => []SpareWordsZero
<1>1. LibInv => SpareWordsZero
  <2> SUFFICES ASSUME LibInv, NEW h \in Handles, objects[h].data # Null,
                      NEW i \in objects[h].len + 1..objects[h].cap
               PROVE  Data(h)[i] = 0
    BY DEF SpareWordsZero
  <2>1. h \in ArraysIn(Memory)
    BY NamesAgree DEF ArraysIn
  <2> QED
    BY <2>1, NamesAgree DEF LibInv, Tidy
<1> QED
  BY InitKeepsMemory, LibStep, <1>1, PTL DEF LibSpec
-----------------------------------------------------------------------------
(* The C runtime implements ArrayStore.  ArraysSeen and InputSeen are the  *)
(* refinement mapping: a text a loop still fills is not seen, and the      *)
(* bytes a line took are seen as unread.  One lemma per promise says what  *)
(* must be seen for a step to keep it, one lemma per call that it is.      *)

\* The refinement mapping of RuntimeLibrary, named.
ArraysSeen == [h \in Held |-> IF objects[h].data = Null THEN <<>> ELSE Text(h)]
InputSeen == IF loop.at = "read" THEN Text(loop.out) \o input ELSE input
StoreStep == [Store!StoreNext]_(Store!svars)

(* Between calls a program sees every live handle, and the input as it is.   *)
LEMMA SeenIdle == loop = Idle =>
  /\ ArraysSeen = [h \in LiveIn(Memory) |-> View(Memory, h)]
  /\ InputSeen = input
BY NamesAgree, LoopIsNotIdle DEF ArraysSeen, InputSeen, Held, View, Text, Null

(* SeenIdle, of the state after a step.                                      *)
LEMMA SeenIdleNext == loop' = Idle =>
  /\ ArraysSeen' = [h \in LiveIn(Memory') |-> View(Memory', h)]
  /\ InputSeen' = input'
<1> SUFFICES ASSUME loop' = Idle
             PROVE  /\ ArraysSeen' = [h \in LiveIn(Memory') |-> View(Memory', h)]
                    /\ InputSeen' = input'
  OBVIOUS
<1>1. Held' = LiveIn(Memory')
  BY NamesAgreeNext DEF Held
<1>2. \A h \in LiveIn(Memory') :
        (IF objects[h].data = Null THEN <<>> ELSE Text(h))' = View(Memory', h)
  BY NamesAgreeNext DEF View, ArraysIn
<1>3. ArraysSeen' = [h \in LiveIn(Memory') |-> View(Memory', h)]
  BY <1>1, <1>2 DEF ArraysSeen
<1> QED
  BY <1>3, LoopIsNotIdle DEF InputSeen

(* A program that has called nothing sees an empty store.                    *)
LEMMA InitIsEmpty == LibInit => Store!StoreInit
<1> SUFFICES ASSUME LibInit PROVE Store!StoreInit
  OBVIOUS
<1>1. input \in Seq(Nat) /\ reply = <<>> /\ stopped = FALSE /\ loop = Idle
  BY LibraryAssumption DEF LibInit
<1>2. LiveIn(Memory) = {}
  BY DEF LibInit, LiveIn, Memory
<1>3. ArraysSeen = [h \in {} |-> <<>>] /\ InputSeen \in Seq(Nat)
  BY <1>1, <1>2, SeenIdle
<1> QED
  BY <1>1, <1>3 DEF Store!StoreInit, ArraysSeen, InputSeen

(* A step after which the program sees what it saw is a stutter of           *)
(* ArrayStore.                                                               *)
LEMMA StutterSeen ==
  ASSUME ArraysSeen' = ArraysSeen, InputSeen' = InputSeen, reply' = reply, stopped' = stopped
  PROVE  StoreStep
BY DEF StoreStep, Store!svars, ArraysSeen, InputSeen

(* A fresh handle with zeros is what New promises.                           *)
LEMMA NewSeen ==
  ASSUME ~stopped, NEW n \in Lengths, NEW h \in 1..MaxHandles, h \notin DOMAIN ArraysSeen,
         Reply(<<"new", n>>, h), InputSeen' = InputSeen,
         ArraysSeen' = [g \in DOMAIN ArraysSeen \cup {h} |->
                          IF g = h THEN Zeros(n) ELSE ArraysSeen[g]]
  PROVE  StoreStep
BY DEF StoreStep, Store!svars, Store!StoreNext, Store!New, Store!Allocate, Store!Is, Store!Live,
       Store!Reply, Store!SameInput, Store!Zeros, Zeros, Reply, ArraysSeen, InputSeen

\* Nothing a program sees changes but the reply.
SameSeen == ArraysSeen' = ArraysSeen /\ InputSeen' = InputSeen

(* A null result, with nothing else seen to change, is what the allocating   *)
(* calls may give.                                                           *)
LEMMA RefusedSeen ==
  ASSUME ~stopped, SameSeen,
         \/ \E n \in Lengths : Reply(<<"new", n>>, Null)
         \/ Reply(<<"record">>, Null)
         \/ Reply(<<"line">>, Null)
         \/ \E a, b \in DOMAIN ArraysSeen \cup {Null} : Reply(<<"concat", a, b>>, Null)
  PROVE  StoreStep
<1> USE DEF SameSeen, StoreStep, Store!svars, Store!StoreNext, Store!Live, Store!Answer,
       Store!Reply, Store!SameInput, Store!SameArrays, Reply, ArraysSeen, InputSeen,
       Store!Allocate, Store!Null, Null
<1>1. CASE \E n \in Lengths : Reply(<<"new", n>>, Null)
  BY <1>1 DEF Store!New
<1>2. CASE Reply(<<"record">>, Null)
  BY <1>2 DEF Store!NewRecord
<1>3. CASE Reply(<<"line">>, Null)
  BY <1>3 DEF Store!ReadLine
<1>4. CASE \E a, b \in DOMAIN ArraysSeen \cup {Null} : Reply(<<"concat", a, b>>, Null)
  BY <1>4 DEF Store!Concat
<1> QED
  BY <1>1, <1>2, <1>3, <1>4

(* A fresh handle without words is what NewRecord promises.                  *)
LEMMA RecordSeen ==
  ASSUME ~stopped, NEW h \in 1..MaxHandles, h \notin DOMAIN ArraysSeen,
         Reply(<<"record">>, h), InputSeen' = InputSeen,
         ArraysSeen' = [g \in DOMAIN ArraysSeen \cup {h} |->
                          IF g = h THEN <<>> ELSE ArraysSeen[g]]
  PROVE  StoreStep
BY DEF StoreStep, Store!svars, Store!StoreNext, Store!NewRecord, Store!Allocate, Store!Is,
       Store!Live, Store!Reply, Store!SameInput, Reply, ArraysSeen, InputSeen

(* The calls on the null handle give zero.                                   *)
LEMMA NullSeen ==
  ASSUME ~stopped, SameSeen,
         NEW call \in {<<"len", Null>>, <<"cap", Null>>, <<"pop", Null>>}
                        \cup {<<"get", Null, i>> : i \in {-1, 0}}
                        \cup {<<"push", Null, v>> : v \in Words}
                        \cup {<<"set", Null, i, v>> : i \in {-1, 0}, v \in Words},
         Reply(call, 0)
  PROVE  StoreStep
BY DEF SameSeen, StoreStep, Store!svars, Store!StoreNext, Store!OnNull, Store!Answer,
       Store!Reply, Store!SameInput, Store!SameArrays, Reply, ArraysSeen, InputSeen,
       Store!Null, Null

(* The program stopped by an index out of bounds, with nothing else seen to  *)
(* change.                                                                   *)
LEMMA StopSeen ==
  ASSUME ~stopped, SameSeen, stopped' = TRUE, reply' = reply
  PROVE  StoreStep
BY DEF SameSeen, StoreStep, Store!svars, Store!StoreNext, Store!OutOfBounds, ArraysSeen,
       InputSeen

\* The bound on indices and lengths ArrayStore is given.
Limit == SizeMax \div ElemSize

(* The calls that only read one array, and the pushes and pops that change   *)
(* none.                                                                     *)
LEMMA ReadSeen ==
  ASSUME ~stopped, SameSeen, NEW h \in DOMAIN ArraysSeen,
         \/ \E i \in 0..Limit : i < Len(ArraysSeen[h])
                                /\ Reply(<<"get", h, i>>, ArraysSeen[h][i + 1])
         \/ Reply(<<"len", h>>, Len(ArraysSeen[h]))
         \/ \E c \in 0..Limit : c >= Len(ArraysSeen[h]) /\ Reply(<<"cap", h>>, c)
         \/ Len(ArraysSeen[h]) = 0 /\ Reply(<<"pop", h>>, 0)
         \/ \E v \in Words : Reply(<<"push", h, v>>, Len(ArraysSeen[h]))
  PROVE  StoreStep
<1> USE DEF SameSeen, StoreStep, Store!svars, Store!StoreNext, Store!Live, Store!Answer,
       Store!Reply, Store!SameInput, Store!SameArrays, Reply, ArraysSeen, InputSeen, Limit
<1>1. CASE \E i \in 0..Limit : i < Len(ArraysSeen[h])
                               /\ Reply(<<"get", h, i>>, ArraysSeen[h][i + 1])
  BY <1>1 DEF Store!Get
<1>2. CASE Reply(<<"len", h>>, Len(ArraysSeen[h]))
  BY <1>2 DEF Store!LengthOf
<1>3. CASE \E c \in 0..Limit : c >= Len(ArraysSeen[h]) /\ Reply(<<"cap", h>>, c)
  BY <1>3 DEF Store!Capacity
<1>4. CASE Len(ArraysSeen[h]) = 0 /\ Reply(<<"pop", h>>, 0)
  BY <1>4 DEF Store!Pop
<1>5. CASE \E v \in Words : Reply(<<"push", h, v>>, Len(ArraysSeen[h]))
  BY <1>5 DEF Store!Push
<1> QED
  BY <1>1, <1>2, <1>3, <1>4, <1>5

(* The calls that change one array.                                          *)
LEMMA WriteSeen ==
  ASSUME ~stopped, InputSeen' = InputSeen, NEW h \in DOMAIN ArraysSeen,
         \/ \E i \in 0..Limit, v \in Words :
              /\ i < Len(ArraysSeen[h]) /\ Reply(<<"set", h, i, v>>, h)
              /\ ArraysSeen' = [ArraysSeen EXCEPT ![h] = [ArraysSeen[h] EXCEPT ![i + 1] = v]]
         \/ \E v \in Words :
              /\ Reply(<<"push", h, v>>, Len(ArraysSeen[h]) + 1)
              /\ ArraysSeen' = [ArraysSeen EXCEPT ![h] = Append(ArraysSeen[h], v)]
         \/ /\ Len(ArraysSeen[h]) > 0
            /\ Reply(<<"pop", h>>, ArraysSeen[h][Len(ArraysSeen[h])])
            /\ ArraysSeen' = [ArraysSeen EXCEPT
                                ![h] = SubSeq(ArraysSeen[h], 1, Len(ArraysSeen[h]) - 1)]
         \/ /\ Reply(<<"free", h>>, 0)
            /\ ArraysSeen' = [g \in DOMAIN ArraysSeen \ {h} |-> ArraysSeen[g]]
  PROVE  StoreStep
<1> USE DEF SameSeen, StoreStep, Store!svars, Store!StoreNext, Store!Live, Store!Reply,
       Store!SameInput, Reply, InputSeen, Limit
<1>1. CASE \E i \in 0..Limit, v \in Words :
              /\ i < Len(ArraysSeen[h]) /\ Reply(<<"set", h, i, v>>, h)
              /\ ArraysSeen' = [ArraysSeen EXCEPT ![h] = [ArraysSeen[h] EXCEPT ![i + 1] = v]]
  <2>1. PICK i \in 0..Limit, v \in Words :
           /\ i < Len(ArraysSeen[h]) /\ Reply(<<"set", h, i, v>>, h)
           /\ ArraysSeen' = [ArraysSeen EXCEPT ![h] = [ArraysSeen[h] EXCEPT ![i + 1] = v]]
    BY <1>1
  <2>2. Store!Set(h, i, v)
    BY <2>1 DEF Store!Set, ArraysSeen
  <2> QED
    BY <2>2 DEF ArraysSeen
<1>2. CASE \E v \in Words :
              /\ Reply(<<"push", h, v>>, Len(ArraysSeen[h]) + 1)
              /\ ArraysSeen' = [ArraysSeen EXCEPT ![h] = Append(ArraysSeen[h], v)]
  BY <1>2 DEF Store!Push, ArraysSeen
<1>3. CASE /\ Len(ArraysSeen[h]) > 0
           /\ Reply(<<"pop", h>>, ArraysSeen[h][Len(ArraysSeen[h])])
           /\ ArraysSeen' = [ArraysSeen EXCEPT
                               ![h] = SubSeq(ArraysSeen[h], 1, Len(ArraysSeen[h]) - 1)]
  BY <1>3 DEF Store!Pop, ArraysSeen
<1>4. CASE /\ Reply(<<"free", h>>, 0)
           /\ ArraysSeen' = [g \in DOMAIN ArraysSeen \ {h} |-> ArraysSeen[g]]
  BY <1>4 DEF Store!Free, ArraysSeen
<1> QED
  BY <1>1, <1>2, <1>3, <1>4

\* The words a program sees in a text, null read as empty.
ValueSeen(h) == IF h = Null THEN <<>> ELSE ArraysSeen[h]

(* The calls that compare or print texts.                                    *)
LEMMA TextSeen ==
  ASSUME ~stopped, SameSeen, NEW a \in DOMAIN ArraysSeen \cup {Null},
         NEW b \in DOMAIN ArraysSeen \cup {Null},
         \/ Reply(<<"eq", a, b>>, IF ValueSeen(a) = ValueSeen(b) THEN 1 ELSE 0)
         \/ Reply(<<"print", a>>, ValueSeen(a))
  PROVE  StoreStep
<1> USE DEF SameSeen, StoreStep, Store!svars, Store!StoreNext, Store!Live, Store!Answer,
       Store!Reply, Store!SameInput, Store!SameArrays, Reply, ArraysSeen, InputSeen,
       Store!Value, ValueSeen, Store!Null, Null
<1>1. CASE Reply(<<"eq", a, b>>, IF ValueSeen(a) = ValueSeen(b) THEN 1 ELSE 0)
  BY <1>1 DEF Store!Equal
<1>2. CASE Reply(<<"print", a>>, ValueSeen(a))
  BY <1>2 DEF Store!PrintText
<1> QED
  BY <1>1, <1>2

(* A fresh handle with the words of both texts is what Concat promises.      *)
LEMMA ConcatSeen ==
  ASSUME ~stopped, NEW a \in DOMAIN ArraysSeen \cup {Null},
         NEW b \in DOMAIN ArraysSeen \cup {Null},
         NEW h \in 1..MaxHandles, h \notin DOMAIN ArraysSeen,
         Reply(<<"concat", a, b>>, h), InputSeen' = InputSeen,
         ArraysSeen' = [g \in DOMAIN ArraysSeen \cup {h} |->
                          IF g = h THEN ValueSeen(a) \o ValueSeen(b) ELSE ArraysSeen[g]]
  PROVE  StoreStep
<1>1. Store!Value(a) = ValueSeen(a) /\ Store!Value(b) = ValueSeen(b)
  BY DEF Store!Value, ValueSeen, Store!Null, Null, ArraysSeen
<1>2. ArraysSeen' = [g \in DOMAIN ArraysSeen \cup {h} |->
                       IF g = h THEN Store!Value(a) \o Store!Value(b) ELSE ArraysSeen[g]]
  BY <1>1
<1>3. Store!Concat(a, b)
  BY <1>2 DEF Store!Concat, Store!Allocate, Store!Is, Store!Live, Store!Reply,
     Store!SameInput, Reply, ArraysSeen, InputSeen
<1> QED
  BY <1>3 DEF StoreStep, Store!svars, Store!StoreNext, Store!Live, ArraysSeen, InputSeen,
     Store!Null, Null

(* A fresh handle with the first bytes of the input is what ReadLine         *)
(* promises.                                                                 *)
LEMMA LineSeen ==
  ASSUME ~stopped, NEW h \in 1..MaxHandles, h \notin DOMAIN ArraysSeen, Reply(<<"line">>, h),
         Len(InputSeen) \in Nat, NEW n \in 0..Len(InputSeen), \A i \in 1..n : InputSeen[i] # Newline,
         InputSeen' = SubSeq(InputSeen, n + 2, Len(InputSeen)),
         ArraysSeen' = [g \in DOMAIN ArraysSeen \cup {h} |->
                          IF g = h THEN SubSeq(InputSeen, 1, n) ELSE ArraysSeen[g]]
  PROVE  StoreStep
<1>1. Store!Line(n)
  BY DEF Store!Line, InputSeen
<1>2. Store!ReadLine
  BY <1>1 DEF Store!ReadLine, Store!Is, Store!Live, Store!Reply, Reply, ArraysSeen, InputSeen
<1> QED
  BY <1>2 DEF StoreStep, Store!svars, Store!StoreNext, ArraysSeen, InputSeen

(* The bound on indices that ArrayStore is given.                            *)
LEMMA LimitIsNat == Limit \in Nat
<1>1. ASSUME NEW e \in Nat \ {0}, NEW z \in Nat PROVE z \div e \in Nat
  OBVIOUS
<1> QED
  BY <1>1, LibraryAssumption DEF Limit

(* What a program sees when it calls: the arrays it can name are the live    *)
(* ones, with the words their blocks hold.                                   *)
LEMMA CallSees ==
  ASSUME LibInv, Calling
  PROVE  /\ loop = Idle /\ ~stopped /\ DOMAIN ArraysSeen = LiveIn(Memory)
         /\ InputSeen = input
         /\ \A h \in LiveIn(Memory) : ArraysSeen[h] = View(Memory, h)
         /\ \A h \in Arrays : ValueSeen(h) = Text(h) /\ h \in DOMAIN ArraysSeen \cup {Null}
         /\ \A h \in ArraysIn(Memory) :
              /\ ArraysSeen[h] = View(Memory, h) /\ h \in DOMAIN ArraysSeen
              /\ Len(ArraysSeen[h]) = objects[h].len /\ objects[h].len \in Nat
              /\ objects[h].cap \in 0..Limit /\ objects[h].len <= objects[h].cap
              /\ \A i \in 1..objects[h].len : ArraysSeen[h][i] = Data(h)[i]
<1>1. loop = Idle /\ ~stopped /\ Sound(Memory)
  BY DEF Calling, LibInv
<1>2. /\ ArraysSeen = [h \in LiveIn(Memory) |-> View(Memory, h)] /\ InputSeen = input
  BY <1>1, SeenIdle
<1>3. ASSUME NEW h \in ArraysIn(Memory)
      PROVE  /\ ArraysSeen[h] = View(Memory, h) /\ h \in DOMAIN ArraysSeen
             /\ Len(ArraysSeen[h]) = objects[h].len /\ objects[h].len \in Nat
             /\ objects[h].cap \in 0..Limit /\ objects[h].len <= objects[h].cap
             /\ \A i \in 1..objects[h].len : ArraysSeen[h][i] = Data(h)[i]
  <2>1. ArraysSeen[h] = View(Memory, h) /\ h \in DOMAIN ArraysSeen
    BY <1>2, NamesAgree
  <2>2. /\ objects[h].len \in Nat /\ objects[h].cap \in Nat /\ objects[h].len <= objects[h].cap
        /\ Len(View(Memory, h)) = objects[h].len
        /\ \A i \in 1..objects[h].len : View(Memory, h)[i] = WordsOf(Memory, h)[i]
        /\ WordsOf(Memory, h) = Data(h)
    <3>1. Memory.objects = objects /\ WordsOf(Memory, h) = Data(h)
      BY NamesAgree
    <3> QED
      BY <1>1, <3>1, WordsOfArray
  <2>3. objects[h].cap <= Limit /\ Limit \in Nat
    <3>1. objects[h].cap * ElemSize <= SizeMax
      BY <1>1, NamesAgree DEF Sound, ArrayOK
    <3>2. ElemSize \in Nat \ {0} /\ SizeMax \in Nat
      BY LibraryAssumption
    <3>3. ASSUME NEW x \in Nat, NEW e \in Nat \ {0}, NEW z \in Nat, x * e <= z
          PROVE  x <= z \div e /\ z \div e \in Nat
      <4>1. z \div e \in Nat /\ z < e * (z \div e) + e
        OBVIOUS
      <4>2. ASSUME NEW q \in Nat, q < x PROVE e * q + e <= x * e
        <5>1. q + 1 <= x
          BY <4>2
        <5>2. e * (q + 1) <= e * x
          BY <5>1
        <5> QED
          BY <5>2
      <4> QED
        BY <3>3, <4>1, <4>2
    <3> QED
      BY <2>2, <3>1, <3>2, <3>3 DEF Limit
  <2> QED
    BY <2>1, <2>2, <2>3
<1>4. ASSUME NEW h \in Arrays
      PROVE  ValueSeen(h) = Text(h) /\ h \in DOMAIN ArraysSeen \cup {Null}
  BY <1>2, NamesAgree DEF ValueSeen
<1> QED
  BY <1>1, <1>2, <1>3, <1>4

(* A call that changes no memory changes nothing a program sees but its      *)
(* reply.                                                                    *)
LEMMA ReadsSeen ==
  ASSUME loop = Idle, SameMemory, SameInput, SameLoop
  PROVE  SameSeen
<1>1. loop' = Idle /\ Memory' = Memory /\ input' = input
  BY DEF SameMemory, SameInput, SameLoop, Memory
<1> QED
  BY <1>1, SeenIdle, SeenIdleNext DEF SameSeen

(* avera_array_get does what Get promises.                                   *)
LEMMA GetRefines ==
  ASSUME LibInv, NEW h \in Arrays, NEW i \in Around(h), Get(h, i)
  PROVE  StoreStep
<1>1. ~stopped /\ SameSeen /\ loop = Idle
  BY CallSees, ReadsSeen DEF Get
<1>2. CASE h = Null /\ Reply(<<"get", h, i>>, 0)
  <2>1. i \in {-1, 0}
    BY <1>2, NamesAgree DEF Around
  <2> QED
    BY <1>1, <1>2, <2>1, NullSeen
<1>3. CASE h # Null /\ Inside(h, i) /\ Reply(<<"get", h, i>>, Data(h)[i + 1])
  <2>1. h \in ArraysIn(Memory) /\ Length(h) = objects[h].len
    BY <1>3, NamesAgree
  <2>2. /\ Len(ArraysSeen[h]) = objects[h].len /\ objects[h].len \in Nat
        /\ objects[h].cap \in 0..Limit /\ objects[h].len <= objects[h].cap
        /\ \A j \in 1..objects[h].len : ArraysSeen[h][j] = Data(h)[j]
        /\ h \in DOMAIN ArraysSeen
    BY <2>1, CallSees DEF Get
  <2>3. i \in 0..Limit /\ i < Len(ArraysSeen[h]) /\ i + 1 \in 1..objects[h].len
    <3>1. i \in Nat /\ i < objects[h].len
      BY <1>3, <2>1, <2>2 DEF Inside, Around
    <3>2. objects[h].cap <= Limit /\ objects[h].cap \in Nat
      BY <2>2
    <3> QED
      BY <2>2, <3>1, <3>2, LimitIsNat
  <2>4. Reply(<<"get", h, i>>, ArraysSeen[h][i + 1])
    BY <1>3, <2>2, <2>3 DEF Reply
  <2> QED
    BY <1>1, <2>2, <2>3, <2>4, ReadSeen
<1>4. CASE OutOfBounds(h, i)
  BY <1>1, <1>4, StopSeen DEF OutOfBounds
<1> QED
  BY <1>2, <1>3, <1>4 DEF Get

(* avera_array_len and avera_array_capacity do what LengthOf and Capacity    *)
(* promise.                                                                  *)
LEMMA AsksRefine ==
  ASSUME LibInv, NEW h \in Arrays, LengthOf(h) \/ Capacity(h)
  PROVE  StoreStep
<1>1. Calling /\ ~stopped /\ SameSeen
  BY CallSees, ReadsSeen DEF LengthOf, Capacity
<1>2. CASE h = Null
  BY <1>1, <1>2, NullSeen, NamesAgree DEF LengthOf, Capacity
<1>3. CASE h # Null
  <2>1. h \in ArraysIn(Memory) /\ Length(h) = objects[h].len
    BY <1>3, NamesAgree
  <2>2. /\ Len(ArraysSeen[h]) = objects[h].len /\ objects[h].len \in Nat
        /\ objects[h].cap \in 0..Limit /\ objects[h].len <= objects[h].cap
        /\ h \in DOMAIN ArraysSeen
    BY <1>1, <2>1, CallSees
  <2>3. CASE LengthOf(h)
    BY <1>1, <2>1, <2>2, <2>3, ReadSeen DEF LengthOf
  <2>4. CASE Capacity(h)
    <3>1. Reply(<<"cap", h>>, objects[h].cap) /\ objects[h].cap >= Len(ArraysSeen[h])
      BY <1>3, <2>2, <2>4 DEF Capacity
    <3> QED
      BY <1>1, <2>2, <3>1, ReadSeen
  <2> QED
    BY <2>3, <2>4
<1> QED
  BY <1>2, <1>3

(* avera_text_eq and avera_print_text do what Equal and PrintText promise.   *)
LEMMA TextsRefine ==
  ASSUME LibInv, NEW h \in Arrays, NEW g \in Arrays, TextEqual(h, g) \/ PrintText(h)
  PROVE  StoreStep
<1>1. Calling /\ ~stopped /\ SameSeen
  BY CallSees, ReadsSeen DEF TextEqual, PrintText
<1>2. /\ ValueSeen(h) = Text(h) /\ h \in DOMAIN ArraysSeen \cup {Null}
      /\ ValueSeen(g) = Text(g) /\ g \in DOMAIN ArraysSeen \cup {Null}
  BY <1>1, CallSees
<1>3. \/ Reply(<<"eq", h, g>>, IF ValueSeen(h) = ValueSeen(g) THEN 1 ELSE 0)
      \/ Reply(<<"print", h>>, ValueSeen(h))
  BY <1>2 DEF TextEqual, PrintText, Reply
<1> QED
  BY <1>1, <1>2, <1>3, TextSeen

(* avera_alloc_array does what New promises, its refusals included.          *)
LEMMA AllocRefines ==
  ASSUME LibInv, NEW n \in Lengths, AllocArray(n)
  PROVE  StoreStep
<1>1. /\ Calling /\ loop' = Idle /\ input' = input
      /\ Len(objects) < MaxHandles /\ MaxHandles \in Nat /\ n \in Nat
  BY LibraryAssumption DEF AllocArray, Calling, SameInput, SameLoop, Room
<1>2. /\ ~stopped /\ DOMAIN ArraysSeen = LiveIn(Memory) /\ InputSeen = input
      /\ \A h \in LiveIn(Memory) : ArraysSeen[h] = View(Memory, h)
  BY <1>1, CallSees
<1>3. /\ ArraysSeen' = [h \in LiveIn(Memory') |-> View(Memory', h)] /\ InputSeen' = input'
  BY <1>1, SeenIdleNext
<1>4. CASE NewArray(n) /\ Reply(<<"new", n>>, Len(objects) + 1)
  <2> DEFINE u == Added(Memory, n)
             out == Len(Memory.objects) + 1
  <2>1. Memory' = u /\ CanHold(n)
    BY <1>4, NewIsAdded DEF NewArray
  <2>2. /\ LiveIn(u) = LiveIn(Memory) \cup {out} /\ out \notin LiveIn(Memory)
        /\ View(u, out) = Zeros(n)
        /\ \A g \in LiveIn(Memory) : View(u, g) = View(Memory, g)
    BY <1>1, <2>1, AddArray DEF LibInv
  <2> HIDE DEF u
  <2>3. out \in 1..MaxHandles /\ out = Len(objects) + 1
    <3>1. Len(objects) \in Nat /\ Memory.objects = objects
      BY NamesAgree DEF LibInv, Sound, Memories
    <3> QED
      BY <1>1, <3>1
  <2> HIDE DEF out
  <2>4. ArraysSeen' = [g \in DOMAIN ArraysSeen \cup {out} |->
                         IF g = out THEN Zeros(n) ELSE ArraysSeen[g]]
    BY <1>2, <1>3, <2>1, <2>2
  <2>5. Reply(<<"new", n>>, out) /\ InputSeen' = InputSeen /\ out \notin DOMAIN ArraysSeen
    BY <1>1, <1>2, <1>3, <1>4, <2>2, <2>3
  <2> QED
    BY <1>2, <2>3, <2>4, <2>5, NewSeen
<1>5. CASE NoArray(n) /\ Reply(<<"new", n>>, Null)
  <2>1. Memory' = Memory \/ Memory' = WithHeader(Memory, FALSE)
    BY <1>5, RefusedIsHeader
  <2>2. /\ LiveIn(Memory') = LiveIn(Memory)
        /\ \A g \in LiveIn(Memory) : View(Memory', g) = View(Memory, g)
    BY <2>1, AddHeader DEF LibInv
  <2>3. SameSeen
    BY <1>1, <1>2, <1>3, <2>2, SeenIdle DEF SameSeen, Calling
  <2> QED
    BY <1>2, <1>5, <2>3, RefusedSeen
<1> QED
  BY <1>4, <1>5 DEF AllocArray

(* avera_alloc does what NewRecord promises.                                 *)
LEMMA RecordRefines ==
  ASSUME LibInv, AllocRecord
  PROVE  StoreStep
<1>1. /\ Calling /\ loop' = Idle /\ input' = input
      /\ Len(objects) < MaxHandles /\ MaxHandles \in Nat
  BY LibraryAssumption DEF AllocRecord, Calling, SameInput, SameLoop, Room
<1>2. /\ ~stopped /\ DOMAIN ArraysSeen = LiveIn(Memory) /\ InputSeen = input
      /\ \A h \in LiveIn(Memory) : ArraysSeen[h] = View(Memory, h)
  BY <1>1, CallSees
<1>3. /\ ArraysSeen' = [h \in LiveIn(Memory') |-> View(Memory', h)] /\ InputSeen' = input'
  BY <1>1, SeenIdleNext
<1>4. CASE /\ objects' = Append(objects, Handle(0, 0, Null, TRUE))
           /\ Reply(<<"record">>, Len(objects) + 1)
  <2> DEFINE u == WithHeader(Memory, TRUE)
             out == Len(Memory.objects) + 1
  <2>1. Memory' = u
    BY <1>4 DEF AllocRecord, Memory, WithHeader
  <2>2. /\ LiveIn(u) = LiveIn(Memory) \cup {out} /\ out \notin LiveIn(Memory)
        /\ View(u, out) = <<>>
        /\ \A g \in LiveIn(Memory) : View(u, g) = View(Memory, g)
    BY AddHeader DEF LibInv
  <2> HIDE DEF u
  <2>3. out \in 1..MaxHandles /\ out = Len(objects) + 1
    <3>1. Len(objects) \in Nat /\ Memory.objects = objects
      BY NamesAgree DEF LibInv, Sound, Memories
    <3> QED
      BY <1>1, <3>1
  <2> HIDE DEF out
  <2>4. ArraysSeen' = [g \in DOMAIN ArraysSeen \cup {out} |->
                         IF g = out THEN <<>> ELSE ArraysSeen[g]]
    BY <1>2, <1>3, <2>1, <2>2
  <2>5. Reply(<<"record">>, out) /\ InputSeen' = InputSeen /\ out \notin DOMAIN ArraysSeen
    BY <1>1, <1>2, <1>3, <1>4, <2>2, <2>3
  <2> QED
    BY <1>2, <2>3, <2>4, <2>5, RecordSeen
<1>5. CASE UNCHANGED objects /\ Reply(<<"record">>, Null)
  <2>1. Memory' = Memory
    BY <1>5 DEF AllocRecord, Memory
  <2>2. SameSeen
    BY <1>1, <1>3, <2>1, SeenIdle DEF SameSeen, Calling
  <2> QED
    BY <1>2, <1>5, <2>2, RefusedSeen
<1> QED
  BY <1>4, <1>5 DEF AllocRecord

(* A call that changes what one array holds.                                 *)
LEMMA OneChanges ==
  ASSUME LibInv, Calling, SameInput, SameLoop, NEW h \in ArraysIn(Memory),
         LiveIn(Memory') = LiveIn(Memory),
         \A g \in LiveIn(Memory) \ {h} : View(Memory', g) = View(Memory, g)
  PROVE  /\ ArraysSeen' = [ArraysSeen EXCEPT ![h] = View(Memory', h)]
         /\ InputSeen' = InputSeen
<1>1. loop' = Idle /\ input' = input /\ loop = Idle
  BY DEF Calling, SameInput, SameLoop
<1>2. /\ ArraysSeen = [g \in LiveIn(Memory) |-> View(Memory, g)] /\ InputSeen = input
      /\ ArraysSeen' = [g \in LiveIn(Memory') |-> View(Memory', g)] /\ InputSeen' = input'
  BY <1>1, SeenIdle, SeenIdleNext
<1> QED
  BY <1>1, <1>2

(* avera_array_set does what Set promises.                                   *)
LEMMA SetRefines ==
  ASSUME LibInv, NEW h \in Arrays, NEW i \in Around(h), NEW v \in Words, SetWord(h, i, v)
  PROVE  StoreStep
<1>1. Calling /\ SameInput /\ SameLoop /\ ~stopped /\ loop = Idle
  BY CallSees DEF SetWord
<1>2. CASE /\ h # Null /\ Inside(h, i) /\ Becomes(Write(Memory, h, i, v))
           /\ Reply(<<"set", h, i, v>>, h)
  <2>1. /\ h \in ArraysIn(Memory) /\ i \in Nat /\ i < Memory.objects[h].len /\ v \in Int
        /\ Memory.objects = objects
    <3>1. h \in ArraysIn(Memory) /\ Length(h) = objects[h].len /\ Memory.objects = objects
      BY <1>2, NamesAgree
    <3>2. i \in {-1, 0, Length(h)} /\ i >= 0 /\ i < Length(h)
      BY <1>2 DEF Inside, Around
    <3>3. objects[h].len \in Nat
      BY <1>1, <3>1, CallSees
    <3>4. v \in Int
      BY LibraryAssumption
    <3> QED
      BY <3>1, <3>2, <3>3, <3>4
  <2>2. /\ Sound(Write(Memory, h, i, v)) /\ LiveIn(Write(Memory, h, i, v)) = LiveIn(Memory)
        /\ View(Write(Memory, h, i, v), h) = [View(Memory, h) EXCEPT ![i + 1] = v]
        /\ \A g \in LiveIn(Memory) \ {h} : View(Write(Memory, h, i, v), g) = View(Memory, g)
    BY <2>1, SetOne DEF LibInv
  <2>3. Memory' = Write(Memory, h, i, v)
    BY <1>2, <2>2, BecomesIt DEF Sound
  <2>4. /\ ArraysSeen[h] = View(Memory, h) /\ h \in DOMAIN ArraysSeen
        /\ Len(ArraysSeen[h]) = objects[h].len /\ objects[h].len \in Nat
        /\ objects[h].cap \in 0..Limit /\ objects[h].len <= objects[h].cap
    BY <1>1, <2>1, CallSees
  <2>5. /\ ArraysSeen' = [ArraysSeen EXCEPT ![h] = [ArraysSeen[h] EXCEPT ![i + 1] = v]]
        /\ InputSeen' = InputSeen
    BY <1>1, <2>1, <2>2, <2>3, <2>4, OneChanges
  <2>6. i \in 0..Limit /\ i < Len(ArraysSeen[h])
    <3>1. objects[h].cap <= Limit /\ objects[h].cap \in Nat
      BY <2>4
    <3> QED
      BY <2>1, <2>4, <3>1, LimitIsNat
  <2> QED
    BY <1>1, <1>2, <2>4, <2>5, <2>6, WriteSeen
<1>3. CASE h = Null /\ SameMemory /\ Reply(<<"set", h, i, v>>, 0)
  <2>1. i \in {-1, 0} /\ SameSeen
    BY <1>1, <1>3, NamesAgree, ReadsSeen DEF Around
  <2> QED
    BY <1>1, <1>3, <2>1, NullSeen
<1>4. CASE OutOfBounds(h, i) /\ SameMemory
  BY <1>1, <1>4, ReadsSeen, StopSeen DEF OutOfBounds
<1> QED
  BY <1>2, <1>3, <1>4 DEF SetWord

(* avera_array_push does what Push promises: after growth, too, no word but  *)
(* the new one is seen to change.                                            *)
LEMMA PushRefines ==
  ASSUME LibInv, NEW h \in Arrays, NEW v \in Words, Push(h, v)
  PROVE  StoreStep
<1>1. Calling /\ SameInput /\ SameLoop /\ ~stopped /\ loop = Idle
  BY CallSees DEF Push
<1>2. CASE h # Null /\ Pushes(h, v) /\ Reply(<<"push", h, v>>, objects[h].len + 1)
  <2>1. h \in ArraysIn(Memory) /\ v \in Int
    BY <1>2, NamesAgree, LibraryAssumption
  <2>2. /\ LiveIn(Memory') = LiveIn(Memory)
        /\ View(Memory', h) = Append(View(Memory, h), v)
        /\ \A g \in LiveIn(Memory) \ {h} : View(Memory', g) = View(Memory, g)
    BY <1>2, <2>1, PushStores DEF LibInv
  <2>3. /\ ArraysSeen[h] = View(Memory, h) /\ h \in DOMAIN ArraysSeen
        /\ Len(ArraysSeen[h]) = objects[h].len
    BY <1>1, <2>1, CallSees
  <2>4. /\ ArraysSeen' = [ArraysSeen EXCEPT ![h] = Append(ArraysSeen[h], v)]
        /\ InputSeen' = InputSeen
    BY <1>1, <2>1, <2>2, <2>3, OneChanges
  <2>5. Reply(<<"push", h, v>>, Len(ArraysSeen[h]) + 1)
    BY <1>2, <2>3
  <2> QED
    BY <1>1, <2>3, <2>4, <2>5, WriteSeen
<1>3. CASE h # Null /\ RefusesPush(h) /\ Reply(<<"push", h, v>>, objects[h].len)
  <2>1. h \in ArraysIn(Memory)
    BY <1>3, NamesAgree
  <2>2. h \in DOMAIN ArraysSeen /\ Len(ArraysSeen[h]) = objects[h].len
    BY <1>1, <2>1, CallSees
  <2>3. SameSeen
    BY <1>1, <1>3, ReadsSeen DEF RefusesPush, SameMemory
  <2>4. Reply(<<"push", h, v>>, Len(ArraysSeen[h]))
    BY <1>3, <2>2
  <2> QED
    BY <1>1, <2>2, <2>3, <2>4, ReadSeen
<1>4. CASE h = Null /\ SameMemory /\ Reply(<<"push", h, v>>, 0)
  BY <1>1, <1>4, ReadsSeen, NullSeen
<1> QED
  BY <1>2, <1>3, <1>4 DEF Push

(* avera_array_pop does what Pop promises.                                   *)
LEMMA PopRefines ==
  ASSUME LibInv, NEW h \in Arrays, Pop(h)
  PROVE  StoreStep
<1>1. Calling /\ SameInput /\ SameLoop /\ ~stopped /\ loop = Idle
  BY CallSees DEF Pop
<1>2. CASE Length(h) = 0
  <2>1. SameSeen /\ Reply(<<"pop", h>>, 0)
    BY <1>1, <1>2, ReadsSeen DEF Pop, SameMemory
  <2>2. CASE h = Null
    BY <1>1, <2>1, <2>2, NullSeen
  <2>3. CASE h # Null
    <3>1. h \in ArraysIn(Memory) /\ objects[h].len = 0
      BY <1>2, <2>3, NamesAgree
    <3>2. h \in DOMAIN ArraysSeen /\ Len(ArraysSeen[h]) = 0
      BY <1>1, <3>1, CallSees
    <3> QED
      BY <1>1, <2>1, <3>2, ReadSeen
  <2> QED
    BY <2>2, <2>3
<1>3. CASE Length(h) # 0
  <2>1. /\ h \in ArraysIn(Memory) /\ Memory.objects[h].len # 0 /\ Memory.objects = objects
    BY <1>3, NamesAgree
  <2>2. /\ Sound(Popped(Memory, h)) /\ LiveIn(Popped(Memory, h)) = LiveIn(Memory)
        /\ View(Popped(Memory, h), h) = SubSeq(View(Memory, h), 1, objects[h].len - 1)
        /\ \A g \in LiveIn(Memory) \ {h} : View(Popped(Memory, h), g) = View(Memory, g)
    BY <2>1, PopOne DEF LibInv
  <2>3. Memory' = Popped(Memory, h) /\ Reply(<<"pop", h>>, Data(h)[objects[h].len])
    BY <1>3, <2>2, BecomesIt DEF Pop, Sound
  <2>4. /\ ArraysSeen[h] = View(Memory, h) /\ h \in DOMAIN ArraysSeen
        /\ Len(ArraysSeen[h]) = objects[h].len /\ objects[h].len \in Nat
        /\ \A i \in 1..objects[h].len : ArraysSeen[h][i] = Data(h)[i]
    BY <1>1, <2>1, CallSees
  <2>5. /\ ArraysSeen' = [ArraysSeen EXCEPT
                            ![h] = SubSeq(ArraysSeen[h], 1, Len(ArraysSeen[h]) - 1)]
        /\ InputSeen' = InputSeen
    BY <1>1, <2>1, <2>2, <2>3, <2>4, OneChanges
  <2>6. Len(ArraysSeen[h]) > 0 /\ Reply(<<"pop", h>>, ArraysSeen[h][Len(ArraysSeen[h])])
    BY <2>1, <2>3, <2>4
  <2> QED
    BY <1>1, <2>4, <2>5, <2>6, WriteSeen
<1> QED
  BY <1>2, <1>3

(* avera_free does what Free promises.                                       *)
LEMMA FreeRefines ==
  ASSUME LibInv, NEW h \in Handles, Free(h)
  PROVE  StoreStep
<1>1. Calling /\ SameInput /\ SameLoop /\ ~stopped /\ loop = Idle /\ Reply(<<"free", h>>, 0)
  BY CallSees DEF Free
<1>2. Memory' = Released(Memory, h) /\ h \in LiveIn(Memory)
  BY NamesAgree, ReleaseIsReleased DEF Free
<1>3. /\ LiveIn(Memory') = LiveIn(Memory) \ {h}
      /\ \A g \in LiveIn(Memory) \ {h} : View(Memory', g) = View(Memory, g)
  BY <1>2, ReleaseOne DEF LibInv
<1>4. loop' = Idle /\ input' = input
  BY <1>1 DEF SameInput, SameLoop
<1>5. /\ ArraysSeen = [g \in LiveIn(Memory) |-> View(Memory, g)] /\ InputSeen = input
      /\ ArraysSeen' = [g \in LiveIn(Memory') |-> View(Memory', g)] /\ InputSeen' = input'
  BY <1>1, <1>4, SeenIdle, SeenIdleNext
<1>6. ArraysSeen' = [g \in DOMAIN ArraysSeen \ {h} |-> ArraysSeen[g]] /\ h \in DOMAIN ArraysSeen
  BY <1>2, <1>3, <1>5
<1> QED
  BY <1>1, <1>4, <1>5, <1>6, WriteSeen

(* While a loop fills its text, a program sees every live handle but that    *)
(* one.                                                                      *)
LEMMA SeenFilling == loop # Idle =>
  ArraysSeen = [h \in LiveIn(Memory) \ {loop.out} |-> View(Memory, h)]
BY NamesAgree DEF ArraysSeen, Held, View, Text, Null

(* SeenFilling, of the state after a step.                                   *)
LEMMA SeenFillingNext == loop' # Idle =>
  ArraysSeen' = [h \in LiveIn(Memory') \ {loop'.out} |-> View(Memory', h)]
<1> SUFFICES ASSUME loop' # Idle
             PROVE  ArraysSeen' = [h \in LiveIn(Memory') \ {loop'.out} |-> View(Memory', h)]
  OBVIOUS
<1>1. Held' = LiveIn(Memory') \ {loop'.out}
  BY NamesAgreeNext DEF Held
<1>2. \A h \in LiveIn(Memory') :
        (IF objects[h].data = Null THEN <<>> ELSE Text(h))' = View(Memory', h)
  BY NamesAgreeNext DEF View, ArraysIn
<1> QED
  BY <1>1, <1>2 DEF ArraysSeen

(* The text a loop starts to fill is not a handle yet.                       *)
LEMMA StartUnseen ==
  ASSUME LibInv, Calling, NEW n \in Nat, NewArray(n), input' = input, reply' = reply,
         stopped' = stopped,
         \/ \E a, b \in Arrays : loop' = [at |-> "concat", left |-> a, right |-> b,
                                          out |-> Len(objects) + 1, i |-> 0]
         \/ n = 0 /\ loop' = [at |-> "read", out |-> Len(objects) + 1]
  PROVE  StoreStep
<1> DEFINE u == Added(Memory, n)
           out == Len(Memory.objects) + 1
<1>1. /\ DOMAIN ArraysSeen = LiveIn(Memory) /\ InputSeen = input /\ loop = Idle
      /\ ArraysSeen = [h \in LiveIn(Memory) |-> View(Memory, h)] /\ input \in Seq(Nat)
  BY CallSees, SeenIdle DEF LibInv
<1>2. Memory' = u /\ CanHold(n) /\ out = Len(objects) + 1
  BY NewIsAdded DEF NewArray, Memory
<1>3. /\ Sound(u) /\ LiveIn(u) = LiveIn(Memory) \cup {out} /\ out \notin LiveIn(Memory)
      /\ ArraysIn(u) = ArraysIn(Memory) \cup {out}
      /\ View(u, out) = Zeros(n)
      /\ \A g \in LiveIn(Memory) : View(u, g) = View(Memory, g)
  BY <1>2, AddArray DEF LibInv
<1> HIDE DEF u, out
<1>4. loop' # Idle /\ loop'.out = out
  BY <1>2 DEF Idle
<1>5. ArraysSeen' = ArraysSeen
  BY <1>1, <1>2, <1>3, <1>4, SeenFillingNext
<1>6. InputSeen' = InputSeen
  <2>1. CASE loop'.at = "concat"
    BY <1>1, <2>1 DEF InputSeen
  <2>2. CASE loop'.at = "read" /\ n = 0
    <3>1. loop'.out \in ArraysIn(Memory') /\ View(Memory', loop'.out) = Zeros(n)
      BY <1>2, <1>3, <1>4
    <3>2. (\A h \in ArraysIn(Memory) : Text(h) = View(Memory, h))'
      BY NamesAgreeNext
    <3>3. Text(loop.out)' = Zeros(n)
      BY <3>1, <3>2
    <3>4. Zeros(n) = <<>>
      BY <2>2 DEF Zeros
    <3>5. <<>> \o input = input
      BY <1>1, ConcatEmptySeq
    <3>6. InputSeen' = Text(loop.out)' \o input'
      BY <2>2 DEF InputSeen
    <3> QED
      BY <1>1, <3>3, <3>4, <3>5, <3>6
  <2> QED
    BY <2>1, <2>2
<1> QED
  BY <1>5, <1>6, StutterSeen

(* A call refused because there is no memory for its result.                 *)
LEMMA NoResult ==
  ASSUME LibInv, Calling, input' = input, loop' = loop,
         SameMemory \/ \E n : NoArray(n)
  PROVE  SameSeen
<1>1. /\ ArraysSeen = [h \in LiveIn(Memory) |-> View(Memory, h)] /\ InputSeen = input
      /\ ArraysSeen' = [h \in LiveIn(Memory') |-> View(Memory', h)] /\ InputSeen' = input'
  BY SeenIdle, SeenIdleNext DEF Calling
<1>2. Memory' = Memory \/ Memory' = WithHeader(Memory, FALSE)
  BY RefusedIsHeader DEF SameMemory, Memory
<1>3. /\ LiveIn(Memory') = LiveIn(Memory)
      /\ \A g \in LiveIn(Memory) : View(Memory', g) = View(Memory, g)
  BY <1>2, AddHeader DEF LibInv
<1> QED
  BY <1>1, <1>3 DEF SameSeen

(* avera_text_concat up to its loop: refused, or not seen at all.            *)
LEMMA ConcatRefines ==
  ASSUME LibInv, NEW a \in Arrays, NEW b \in Arrays, Concat(a, b)
  PROVE  StoreStep
<1>1. Calling /\ ~stopped /\ input' = input
      /\ a \in DOMAIN ArraysSeen \cup {Null} /\ b \in DOMAIN ArraysSeen \cup {Null}
  BY CallSees DEF Concat, SameInput
<1>2. CASE /\ NewArray(Total(a, b))
           /\ loop' = [at |-> "concat", left |-> a, right |-> b,
                       out |-> Len(objects) + 1, i |-> 0]
           /\ UNCHANGED <<reply, stopped>>
  <2>1. Total(a, b) \in Nat
    <3>1. Length(a) \in Nat /\ Length(b) \in Nat
      BY TextsAreWords DEF LibInv
    <3> QED
      BY <3>1 DEF Total
  <2> QED
    BY <1>1, <1>2, <2>1, StartUnseen
<1>3. CASE /\ IF Total(a, b) <= LongMax THEN NoArray(Total(a, b)) ELSE SameMemory
           /\ SameLoop /\ Reply(<<"concat", a, b>>, Null)
  <2>1. SameSeen
    BY <1>1, <1>3, NoResult DEF SameLoop
  <2> QED
    BY <1>1, <1>3, <2>1, RefusedSeen
<1> QED
  BY <1>2, <1>3 DEF Concat

(* avera_text_read_line up to its loop: refused, or not seen at all.         *)
LEMMA LineRefines ==
  ASSUME LibInv, ReadLine
  PROVE  StoreStep
<1>1. Calling /\ ~stopped /\ input' = input
  BY CallSees DEF ReadLine, SameInput
<1>2. CASE /\ NewArray(0) /\ loop' = [at |-> "read", out |-> Len(objects) + 1]
           /\ UNCHANGED <<reply, stopped>>
  BY <1>1, <1>2, StartUnseen
<1>3. CASE NoArray(0) /\ SameLoop /\ Reply(<<"line">>, Null)
  <2>1. SameSeen
    BY <1>1, <1>3, NoResult DEF SameLoop
  <2> QED
    BY <1>1, <1>3, <2>1, RefusedSeen
<1> QED
  BY <1>2, <1>3 DEF ReadLine

(* A turn of the copying loop is not seen.                                   *)
LEMMA CopyRefines ==
  ASSUME LibInv, ConcatWord
  PROVE  StoreStep
<1> DEFINE v == (Text(loop.left) \o Text(loop.right))[loop.i + 1]
           u == Write(Memory, loop.out, loop.i, v)
<1>1. /\ v \in Int /\ Memory' = u /\ loop.out \in ArraysIn(Memory) /\ loop.i \in Nat
      /\ loop.i < objects[loop.out].len
      /\ loop' = [loop EXCEPT !.i = @ + 1] /\ stopped' = stopped /\ input' = input
      /\ reply' = reply
  BY ConcatCopies
<1>2. /\ loop.at = "concat"
      /\ loop \in [at : {"concat"}, left : Arrays, right : Arrays, out : 1..MaxHandles, i : Nat]
  BY LoopIsNotIdle DEF ConcatWord, LibInv, LoopOK
<1> HIDE DEF v
<1>3. loop.i < Memory.objects[loop.out].len /\ Sound(Memory)
  BY <1>1, NamesAgree DEF LibInv
<1>4. /\ LiveIn(u) = LiveIn(Memory)
      /\ \A g \in LiveIn(Memory) \ {loop.out} : View(u, g) = View(Memory, g)
  BY <1>1, <1>3, SetOne
<1> HIDE DEF u
<1>5. loop'.out = loop.out /\ loop'.at = "concat" /\ loop # Idle /\ loop' # Idle
  BY <1>1, <1>2 DEF Idle
<1>6. ArraysSeen' = ArraysSeen
  BY <1>1, <1>4, <1>5, SeenFilling, SeenFillingNext
<1>7. InputSeen' = InputSeen
  BY <1>1, <1>2, <1>5 DEF InputSeen
<1> QED
  BY <1>1, <1>6, <1>7, StutterSeen

(* The state of a line being read: the bytes taken and the bytes left are    *)
(* the input the program sees.                                               *)
LEMMA ReadingLine ==
  ASSUME LibInv, loop.at = "read"
  PROVE  /\ loop.out \in 1..MaxHandles /\ loop.out \in ArraysIn(Memory) /\ ~stopped
         /\ loop # Idle /\ input \in Seq(Nat) /\ Sound(Memory) /\ Tidy(Memory)
         /\ \A j \in 1..objects[loop.out].len : Text(loop.out)[j] # Newline
         /\ Text(loop.out) \in Seq(Int) /\ Len(Text(loop.out)) = objects[loop.out].len
         /\ InputSeen = Text(loop.out) \o input
<1>1. /\ loop \in [at : {"read"}, out : 1..MaxHandles] /\ loop.out \in ArraysIn(Memory)
      /\ ~stopped /\ input \in Seq(Nat) /\ Sound(Memory) /\ Tidy(Memory)
      /\ \A j \in 1..objects[loop.out].len : Text(loop.out)[j] # Newline
  BY LoopIsNotIdle DEF LibInv, LoopOK
<1>2. Text(loop.out) \in Seq(Int) /\ Len(Text(loop.out)) = objects[loop.out].len
  BY <1>1, NamesAgree, TextsAreWords
<1> QED
  BY <1>1, <1>2, LoopIsNotIdle DEF InputSeen

(* A byte read is not seen: it leaves the input and joins the text.          *)
LEMMA ByteRefines ==
  ASSUME LibInv, ReadByte
  PROVE  StoreStep
<1> DEFINE c == loop.out
<1>1. /\ loop.at = "read" /\ input # <<>> /\ Head(input) # Newline /\ loop' = loop
      /\ input' = Tail(input) /\ stopped' = stopped /\ reply' = reply
      /\ Pushes(c, Head(input))
  BY DEF ReadByte, EndOfLine
<1>2. /\ c \in ArraysIn(Memory) /\ loop # Idle /\ input \in Seq(Nat)
      /\ Sound(Memory) /\ Tidy(Memory) /\ Text(c) \in Seq(Int)
      /\ InputSeen = Text(c) \o input
  BY <1>1, ReadingLine
<1>3. Head(input) \in Nat /\ Tail(input) \in Seq(Nat)
  BY <1>1, <1>2, HeadTailProperties
<1>4. /\ LiveIn(Memory') = LiveIn(Memory) /\ ArraysIn(Memory') = ArraysIn(Memory)
      /\ View(Memory', c) = Append(View(Memory, c), Head(input))
      /\ \A g \in LiveIn(Memory) \ {c} : View(Memory', g) = View(Memory, g)
  BY <1>1, <1>2, <1>3, PushStores
<1>5. Text(c)' = Append(Text(c), Head(input))
  <2>1. Text(c) = View(Memory, c)
    BY <1>2, NamesAgree
  <2>2. Text(c)' = View(Memory', c)
    BY <1>1, <1>2, <1>4, NamesAgreeNext
  <2> QED
    BY <1>4, <2>1, <2>2
<1>6. ArraysSeen' = ArraysSeen
  BY <1>1, <1>2, <1>4, SeenFilling, SeenFillingNext
<1>7. Append(Text(c), Head(input)) \o Tail(input) = Text(c) \o input
  <2> DEFINE t == Text(c)
             x == Head(input)
             r == Tail(input)
  <2>1. t \in Seq(Int) /\ x \in Int /\ r \in Seq(Int) /\ input \in Seq(Int)
    BY <1>2, <1>3, SeqMonotonic
  <2>2. <<x>> \in Seq(Int) /\ Append(t, x) = t \o <<x>>
    BY <2>1, AppendIsConcat
  <2>3. (t \o <<x>>) \o r = t \o (<<x>> \o r)
    BY <2>1, <2>2, ConcatAssociative
  <2>4. <<x>> \o r = input
    <3>1. /\ Len(r) = Len(input) - 1 /\ \A i \in 1..Len(r) : r[i] = input[i + 1]
          /\ x = input[1] /\ Len(input) \in Nat /\ Len(input) # 0
      BY <1>1, <1>2, HeadTailProperties, EmptySeq
    <3> HIDE DEF x, r
    <3>2. /\ <<x>> \o r \in Seq(Int) /\ Len(<<x>> \o r) = Len(input)
          /\ \A i \in 1..Len(input) : (<<x>> \o r)[i] = IF i <= 1 THEN x ELSE r[i - 1]
      BY <2>1, <2>2, <3>1, ConcatProperties
    <3>3. \A i \in 1..Len(input) : (<<x>> \o r)[i] = input[i]
      <4> SUFFICES ASSUME NEW i \in 1..Len(input) PROVE (<<x>> \o r)[i] = input[i]
        OBVIOUS
      <4>1. CASE i = 1
        BY <3>1, <3>2, <4>1
      <4>2. CASE i # 1
        <5>1. i - 1 \in 1..Len(r) /\ ~(i <= 1) /\ (i - 1) + 1 = i
          BY <3>1, <4>2
        <5> QED
          BY <3>1, <3>2, <5>1
      <4> QED
        BY <4>1, <4>2
    <3> QED
      BY <2>1, <3>2, <3>3, SeqEqual
  <2> QED
    BY <2>2, <2>3, <2>4
<1>8. InputSeen' = InputSeen
  BY <1>1, <1>2, <1>5, <1>7 DEF InputSeen
<1> QED
  BY <1>1, <1>6, <1>8, StutterSeen

(* A sequence split in two, the first part taken and one element more        *)
(* dropped.                                                                  *)
LEMMA LineTaken ==
  ASSUME NEW t \in Seq(Int), NEW r \in Seq(Int)
  PROVE  /\ Len(t \o r) \in Nat /\ Len(t) \in 0..Len(t \o r)
         /\ \A i \in 1..Len(t) : (t \o r)[i] = t[i]
         /\ SubSeq(t \o r, 1, Len(t)) = t
         /\ SubSeq(t \o r, Len(t) + 2, Len(t \o r)) = IF r = <<>> THEN <<>> ELSE Tail(r)
<1> DEFINE z == t \o r
           n == Len(t)
<1>1. n \in Nat /\ Len(r) \in Nat
  BY LenProperties
<1>2. /\ z \in Seq(Int) /\ Len(z) = n + Len(r)
      /\ \A i \in 1..n + Len(r) : z[i] = IF i <= n THEN t[i] ELSE r[i - n]
  BY ConcatProperties
<1> HIDE DEF z, n
<1>3. \A i \in 1..n : z[i] = t[i]
  BY <1>1, <1>2
<1>4. SubSeq(z, 1, n) = t
  <2>1. \A i \in 1..n : z[i] \in Int
    BY <1>3, ElementOfSeq DEF n
  <2> DEFINE p == SubSeq(z, 1, n)
  <2>2. /\ p \in Seq(Int) /\ Len(p) = IF 1 <= n THEN n - 1 + 1 ELSE 0
        /\ \A i \in 1..n - 1 + 1 : p[i] = z[1 + i - 1]
    BY <1>1, <2>1, SubSeqProperties
  <2> HIDE DEF p
  <2>3. Len(p) = n /\ \A i \in 1..n : p[i] = t[i]
    BY <1>1, <1>3, <2>2
  <2>4. Len(p) = Len(t) /\ \A i \in 1..Len(p) : p[i] = t[i]
    BY <2>3 DEF n
  <2>5. p = t
    BY <2>2, <2>4, SeqEqual
  <2> QED
    BY <2>5 DEF p
<1>5. SubSeq(z, n + 2, Len(z)) = IF r = <<>> THEN <<>> ELSE Tail(r)
  <2>1. CASE r = <<>>
    <3>1. Len(z) = n
      BY <1>1, <1>2, <2>1, EmptySeq
    <3>2. SubSeq(z, n + 2, n) = <<>>
      BY <1>1, SubSeqEmpty
    <3> QED
      BY <2>1, <3>1, <3>2
  <2>2. CASE r # <<>>
    <3> DEFINE p == SubSeq(z, n + 2, Len(z))
               q == Tail(r)
    <3>1. /\ q \in Seq(Int) /\ Len(q) = Len(r) - 1
          /\ \A i \in 1..Len(q) : q[i] = r[i + 1]
      BY <2>2, HeadTailProperties
    <3>2. Len(r) # 0
      BY <2>2, EmptySeq
    <3>3. \A i \in n + 2..Len(z) : z[i] \in Int
      <4> SUFFICES ASSUME NEW i \in n + 2..Len(z) PROVE z[i] \in Int
        OBVIOUS
      <4>1. i \in 1..Len(z)
        BY <1>1, <1>2
      <4> QED
        BY <1>2, <4>1, ElementOfSeq
    <3>4. n + 2 \in Int /\ Len(z) \in Int
      BY <1>1, <1>2
    <3>5. /\ p \in Seq(Int)
          /\ Len(p) = IF n + 2 <= Len(z) THEN Len(z) - (n + 2) + 1 ELSE 0
          /\ \A i \in 1..Len(z) - (n + 2) + 1 : p[i] = z[n + 2 + i - 1]
      BY <3>3, <3>4, SubSeqProperties
    <3> HIDE DEF p, q
    <3>6. Len(p) = Len(q) /\ Len(q) = Len(z) - (n + 2) + 1
      BY <1>1, <1>2, <3>1, <3>2, <3>5
    <3>7. \A i \in 1..Len(p) : p[i] = q[i]
      <4> SUFFICES ASSUME NEW i \in 1..Len(p) PROVE p[i] = q[i]
        OBVIOUS
      <4> DEFINE k == n + 2 + i - 1
      <4>1. p[i] = z[k] /\ q[i] = r[i + 1]
        BY <3>1, <3>5, <3>6
      <4>2. k \in 1..n + Len(r) /\ ~(k <= n) /\ k - n = i + 1
        BY <1>1, <1>2, <3>6
      <4> HIDE DEF k
      <4>3. z[k] = IF k <= n THEN t[k] ELSE r[k - n]
        BY <1>2, <4>2
      <4> QED
        BY <4>1, <4>2, <4>3
    <3>8. p = q
      BY <3>1, <3>5, <3>6, <3>7, SeqEqual
    <3> QED
      BY <2>2, <3>8 DEF p, q
  <2> QED
    BY <2>1, <2>2
<1>6. Len(z) \in Nat /\ n \in 0..Len(z)
  BY <1>1, <1>2
<1> QED
  BY <1>3, <1>4, <1>5, <1>6 DEF z, n

(* The text a loop has filled becomes a handle of the program.               *)
LEMMA FilledSeen ==
  ASSUME LibInv, NEW c \in ArraysIn(Memory), loop # Idle, loop.out = c, loop' = Idle,
         Memory' = Memory
  PROVE  /\ c \notin DOMAIN ArraysSeen /\ InputSeen' = input'
         /\ ArraysSeen' = [g \in DOMAIN ArraysSeen \cup {c} |->
                             IF g = c THEN Text(c) ELSE ArraysSeen[g]]
         /\ \A h \in Arrays \ {c} :
              h \in DOMAIN ArraysSeen \cup {Null} /\ ValueSeen(h) = Text(h)
<1>1. ArraysSeen = [h \in LiveIn(Memory) \ {c} |-> View(Memory, h)]
  BY SeenFilling
<1>2. InputSeen' = input' /\ ArraysSeen' = [h \in LiveIn(Memory) |-> View(Memory, h)]
  BY SeenIdleNext
<1>3. c \in LiveIn(Memory) /\ View(Memory, c) = Text(c)
  BY NamesAgree
<1>4. ArraysSeen' = [g \in DOMAIN ArraysSeen \cup {c} |->
                       IF g = c THEN Text(c) ELSE ArraysSeen[g]]
  BY <1>1, <1>2, <1>3
<1>5. \A h \in Arrays \ {c} : h \in DOMAIN ArraysSeen \cup {Null} /\ ValueSeen(h) = Text(h)
  BY <1>1, NamesAgree DEF ValueSeen
<1> QED
  BY <1>1, <1>2, <1>4, <1>5

(* The end of avera_text_concat is the step Concat promises.                 *)
LEMMA ConcatEnds ==
  ASSUME LibInv, LoopEnds, loop.at = "concat"
  PROVE  StoreStep
<1>1. PICK a \in Arrays, b \in Arrays, c \in 1..MaxHandles, i \in Nat :
        loop = [at |-> "concat", left |-> a, right |-> b, out |-> c, i |-> i]
  BY LoopIsNotIdle DEF LibInv, LoopOK
<1>2. /\ ~stopped /\ c \in ArraysIn(Memory) \ {a, b} /\ objects[c].len = Total(a, b)
      /\ \A j \in 1..i : Text(c)[j] = (Text(a) \o Text(b))[j]
      /\ Sound(Memory) /\ loop # Idle
  BY <1>1, LoopIsNotIdle DEF LibInv, LoopOK
<1>3. /\ i = Total(a, b) /\ Memory' = Memory /\ input' = input /\ loop' = Idle
      /\ Reply(<<"concat", a, b>>, c)
  BY <1>1 DEF LoopEnds, SameMemory, Memory
<1>4. Text(c) = Text(a) \o Text(b)
  <2> DEFINE x == Text(a)
             y == Text(b)
             t == Text(c)
             z == x \o y
  <2>1. /\ x \in Seq(Int) /\ y \in Seq(Int) /\ t \in Seq(Int)
        /\ Len(x) = Length(a) /\ Len(y) = Length(b) /\ Len(t) = objects[c].len
        /\ \A j \in 1..i : t[j] = z[j]
    BY <1>2, NamesAgree, TextsAreWords
  <2> HIDE DEF x, y, t
  <2>2. z \in Seq(Int) /\ Len(z) = Len(x) + Len(y)
    BY <2>1, ConcatProperties
  <2> HIDE DEF z
  <2>3. Len(t) = i /\ Len(z) = i
    BY <1>2, <1>3, <2>1, <2>2 DEF Total
  <2>4. t = z
    BY <2>1, <2>2, <2>3, SeqEqual
  <2> QED
    BY <2>4 DEF x, y, t, z
<1>5. /\ c \notin DOMAIN ArraysSeen /\ InputSeen' = input'
      /\ ArraysSeen' = [g \in DOMAIN ArraysSeen \cup {c} |->
                          IF g = c THEN Text(c) ELSE ArraysSeen[g]]
      /\ \A h \in Arrays \ {c} :
           h \in DOMAIN ArraysSeen \cup {Null} /\ ValueSeen(h) = Text(h)
  <2>1. loop.out = c
    BY <1>1
  <2>2. c \in ArraysIn(Memory)
    BY <1>2
  <2> QED
    BY <1>2, <1>3, <2>1, <2>2, FilledSeen
<1>6. InputSeen' = InputSeen
  BY <1>1, <1>3, <1>5 DEF InputSeen
<1>7. /\ a \in DOMAIN ArraysSeen \cup {Null} /\ b \in DOMAIN ArraysSeen \cup {Null}
      /\ ValueSeen(a) = Text(a) /\ ValueSeen(b) = Text(b)
  BY <1>2, <1>5
<1>8. ArraysSeen' = [g \in DOMAIN ArraysSeen \cup {c} |->
                       IF g = c THEN ValueSeen(a) \o ValueSeen(b) ELSE ArraysSeen[g]]
  BY <1>4, <1>5, <1>7
<1> QED
  BY <1>2, <1>3, <1>5, <1>6, <1>7, <1>8, ConcatSeen

(* The end of avera_text_read_line is the step ReadLine promises, with the   *)
(* byte after the line consumed.                                             *)
LEMMA ReadEnds ==
  ASSUME LibInv, LoopEnds, loop.at = "read"
  PROVE  StoreStep
<1> DEFINE c == loop.out
           t == Text(c)
           n == Len(t)
<1>1. /\ c \in 1..MaxHandles /\ c \in ArraysIn(Memory) /\ ~stopped
      /\ loop # Idle /\ input \in Seq(Nat)
      /\ \A j \in 1..objects[c].len : t[j] # Newline
      /\ t \in Seq(Int) /\ n = objects[c].len
      /\ InputSeen = t \o input
  BY ReadingLine
<1>2. /\ input' = IF input = <<>> THEN <<>> ELSE Tail(input)
      /\ Memory' = Memory /\ loop' = Idle /\ Reply(<<"line">>, c)
  BY DEF LoopEnds, EndOfLine, SameMemory, RefusesPush, Memory
<1>3. input \in Seq(Int)
  BY <1>1, SeqMonotonic
<1>4. /\ Len(t \o input) \in Nat /\ n \in 0..Len(t \o input)
      /\ \A i \in 1..n : (t \o input)[i] = t[i]
      /\ SubSeq(t \o input, 1, n) = t
      /\ SubSeq(t \o input, n + 2, Len(t \o input))
           = IF input = <<>> THEN <<>> ELSE Tail(input)
  <2> HIDE DEF t
  <2> QED
    BY <1>1, <1>3, LineTaken
<1>5. /\ c \notin DOMAIN ArraysSeen /\ InputSeen' = input'
      /\ ArraysSeen' = [g \in DOMAIN ArraysSeen \cup {c} |->
                          IF g = c THEN t ELSE ArraysSeen[g]]
  BY <1>1, <1>2, FilledSeen
<1>6. /\ Len(InputSeen) \in Nat /\ n \in 0..Len(InputSeen)
      /\ \A i \in 1..n : InputSeen[i] # Newline
      /\ InputSeen' = SubSeq(InputSeen, n + 2, Len(InputSeen))
      /\ SubSeq(InputSeen, 1, n) = t
  <2> HIDE DEF t
  <2> QED
    BY <1>1, <1>2, <1>4, <1>5
<1>7. ArraysSeen' = [g \in DOMAIN ArraysSeen \cup {c} |->
                       IF g = c THEN SubSeq(InputSeen, 1, n) ELSE ArraysSeen[g]]
  BY <1>5, <1>6
<1> HIDE DEF n, t, c
<1> QED
  BY <1>1, <1>2, <1>5, <1>6, <1>7, LineSeen

(* Every step of the library is a step of ArrayStore or not seen.            *)
LEMMA StepRefines == LibInv /\ [LibNext]_lvars => StoreStep
<1> SUFFICES ASSUME LibInv, [LibNext]_lvars PROVE StoreStep
  OBVIOUS
<1>1. CASE UNCHANGED lvars
  <2>1. ArraysSeen' = ArraysSeen /\ InputSeen' = InputSeen /\ reply' = reply
        /\ stopped' = stopped
    BY <1>1 DEF lvars, ArraysSeen, InputSeen, Held, Handles, Text, Data
  <2> QED
    BY <2>1, StutterSeen
<1>2. CASE LoopEnds
  <2>1. loop.at = "concat" \/ loop.at = "read"
    BY <1>2 DEF LoopEnds
  <2> QED
    BY <1>2, <2>1, ConcatEnds, ReadEnds
<1>3. ASSUME NEW n \in Lengths, AllocArray(n) PROVE StoreStep
  BY <1>3, AllocRefines
<1>4. CASE AllocRecord
  BY <1>4, RecordRefines
<1>5. CASE ReadLine
  BY <1>5, LineRefines
<1>6. CASE ConcatWord
  BY <1>6, CopyRefines
<1>7. CASE ReadByte
  BY <1>7, ByteRefines
<1>8. ASSUME NEW h \in Arrays,
             \/ LengthOf(h) \/ Capacity(h) \/ Pop(h) \/ PrintText(h)
             \/ \E v \in Words : Push(h, v)
             \/ \E i \in Around(h) : Get(h, i)
             \/ \E i \in Around(h), v \in Words : SetWord(h, i, v)
             \/ \E g \in Arrays : Concat(h, g) \/ TextEqual(h, g)
      PROVE  StoreStep
  BY <1>8, AsksRefine, PopRefines, TextsRefine, PushRefines, GetRefines, SetRefines,
     ConcatRefines
<1>9. ASSUME NEW h \in Handles, Free(h) PROVE StoreStep
  BY <1>9, FreeRefines
<1> QED
  BY <1>1, <1>2, <1>3, <1>4, <1>5, <1>6, <1>7, <1>8, <1>9 DEF LibNext

(* The library implements ArrayStore for every number of handles and calls,  *)
(* every width of long and size_t and every input: blocks, growth, refused   *)
(* allocations and the turns of the two loops cannot be told from arrays     *)
(* that are sequences.                                                       *)
THEOREM LibraryIsArrayStore == LibSpec => IsArrayStore
<1>1. LibInit => Store!StoreInit
  BY InitIsEmpty
<1>2. LibInv /\ [LibNext]_lvars => [Store!StoreNext]_(Store!svars)
  BY StepRefines DEF StoreStep
<1> QED
  BY InitKeepsMemory, LibStep, <1>1, <1>2, PTL DEF LibSpec, IsArrayStore, Store!StoreSpec
=============================================================================
