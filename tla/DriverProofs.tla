---------------------------- MODULE DriverProofs ----------------------------
(***************************************************************************)
(* What the driver does with files.                                        *)
(*                                                                         *)
(* For any file system and any list of inputs: no file becomes two         *)
(* modules, no #source of a contract is left out in silence, and the table *)
(* of an accepted program has one implementation of a name and tells which *)
(* names have none.  The inductive invariant LdInv says where the files    *)
(* that were read are (Read), what has become of each #source of the       *)
(* contracts that were read, which may also be queued still (Followed),    *)
(* and what of the declarations the table has taken in so far (Table).     *)
(*                                                                         *)
(* For any number of processes at work in build/debug: no verdict is that  *)
(* of another source unless another process met this one on its stem.  The *)
(* inductive invariant BuildInv keeps, of each process, where it is        *)
(* (InPlace), what it has counted and has left to count (Counted) and, as  *)
(* long as nobody has met it, what is in its two files (Alone); and of any *)
(* two that are on one stem, that both know (Meet).  A step moves one      *)
(* process: the others keep theirs because of what the step leaves alone   *)
(* (Unmoved, Untouched), so each action has a lemma for its own process.   *)
(***************************************************************************)
EXTENDS ModuleLoader, BuildCommands, SequenceFacts, TLAPS

(* What a path leads to.                                                    *)
SourceFiles == [readable : BOOLEAN, directives : Seq(Directives), items : Seq(Items)]

(* The files that have become modules.                                      *)
Loads == {Canonical(modules[i]) : i \in DOMAIN modules}

(* An error names the path.                                                 *)
Reported(path) == \E d \in diags : d.about = path
(* The path is still in the work queue.                                     *)
Queued(path) == \E k \in DOMAIN queue : queue[k].path = path

(* The values of the variables, and that the loader ends with nothing       *)
(* pending.                                                                 *)
Shaped ==
  /\ disk \in Disks
  /\ IsSeq(queue) /\ IsSeq(modules)
  /\ phase \in {"load", "resolve", "accepted", "rejected"}
  /\ current = [job |-> current.job, left |-> current.left]
  /\ ~Idle => IsSeq(current.left)
  /\ phase # "load" => Idle /\ queue = <<>>

(* The files that were read have become modules, each of them one, but for  *)
(* the file that is being parsed.                                           *)
Read ==
  /\ loadedFiles \subseteq DOMAIN disk
  /\ loadedFiles = Loads \cup (IF Idle THEN {} ELSE {Canonical(current.job.path)})
  /\ ~Idle => Canonical(current.job.path) \notin Loads
  /\ NoFileTwice

(* What has become of the sources of the contracts that were read.          *)
Followed ==
  \A mav \in contracts :
    /\ Canonical(mav) \in DOMAIN disk
    /\ \A i \in DOMAIN Sources(mav) :
         LET path == SourcePath(mav.dir, Sources(mav)[i].path)
         IN  Canonical(path) \in loadedFiles \/ Reported(path) \/ Queued(path)

(* How many of the declarations resolve_item has seen, and which.           *)
Gone == Len(Declared) - Len(toResolve)
Seen(name, kinds) ==
  {i \in 1 .. Gone : Declared[i].name = name /\ Declared[i].kind \in kinds}
(* The declarations that implement their name.                              *)
Implementing == {"action", "shape"}

(* What is left to resolve is the rest of what the modules declare, and     *)
(* the table holds what it is meant to of the declarations before it.       *)
Table ==
  phase # "load" =>
    /\ IsSeq(toResolve) /\ Len(toResolve) <= Len(Declared)
    /\ \A i \in 1 .. Len(toResolve) : toResolve[i] = Declared[Gone + i]
    /\ isContract \in [DOMAIN isContract -> BOOLEAN]
    /\ DOMAIN isContract = {Declared[i].name : i \in 1 .. Gone}
    /\ diags = {} =>
         \A name \in DOMAIN isContract :
           /\ AtMostOne(Seen(name, Implementing))
           /\ isContract[name] <=> Seen(name, Implementing) = {}
    /\ phase = "accepted" => toResolve = <<>> /\ diags = {}

(* Nothing is resolved while files are loaded.                              *)
NothingResolved == phase = "load" => isContract = <<>> /\ toResolve = <<>>

(* The inductive invariant.                                                 *)
LdInv == LoadConstants /\ Shaped /\ Read /\ Followed /\ Table /\ NothingResolved

(* What the parser makes of a file that exists.                             *)
LEMMA WhatIsRead ==
  ASSUME LoadConstants, disk \in Disks, NEW path, Exists(path)
  PROVE  /\ Parsed(path) \in SourceFiles /\ Canonical(path) \in DOMAIN disk
         /\ IsSeq(Parsed(path).directives) /\ IsSeq(Parsed(path).items)
         /\ Elems(Parsed(path).items) \subseteq Items
         /\ Elems(Parsed(path).directives) \subseteq Directives
         /\ IsSeq(Sources(path))
<1>1. Parsed(path) \in SourceFiles /\ Canonical(path) \in DOMAIN disk
  BY DEF LoadConstants, Exists, Parsed, SourceFiles
<1>2. Parsed(path).directives \in Seq(Directives) /\ Parsed(path).items \in Seq(Items)
  BY <1>1 DEF SourceFiles
<1>3. /\ IsSeq(Parsed(path).directives) /\ IsSeq(Parsed(path).items)
      /\ Elems(Parsed(path).items) \subseteq Items
      /\ Elems(Parsed(path).directives) \subseteq Directives
  BY <1>2, SeqIs
<1>4. IsSeq(Sources(path))
  BY <1>3, OnlyElems DEF Sources
<1> QED
  BY <1>1, <1>3, <1>4

(* A file that exists has a name, so parsing one is never idling.           *)
LEMMA NamedFiles ==
  ASSUME LoadConstants, disk \in Disks, NEW job, Exists(job.path), NEW rest
  PROVE  [job |-> job, left |-> rest] # NoFile
<1>1. Canonical(job.path).stem # ""
  BY DEF LoadConstants, Exists
<1>2. Canonical(Path(<<>>, "", "")).stem = ""
  BY DEF Canonical, Path
<1>3. job.path # Path(<<>>, "", "")
  BY <1>1, <1>2
<1>4. NoFile.job.path = Path(<<>>, "", "")
  BY DEF NoFile, Job
<1>5. [job |-> job, left |-> rest].job = job
  OBVIOUS
<1> QED
  BY <1>3, <1>4, <1>5

(* A step that reads nothing and pushes nothing keeps Read.                 *)
LEMMA StillRead ==
  ASSUME disk' = disk, loadedFiles' = loadedFiles, modules' = modules,
         Read, Idle' <=> Idle, ~Idle => current'.job = current.job
  PROVE  Read'
<1>1. Loads' = Loads /\ NoFileTwice'
  BY DEF Loads, Canonical, Read, NoFileTwice
<1>2. ~Idle => Canonical(current.job.path)' = Canonical(current.job.path)
  BY DEF Canonical
<1> QED
  BY <1>1, <1>2 DEF Read

(* The sources of a contract are those of its file.                         *)
LEMMA SameSources ==
  ASSUME disk' = disk, NEW mav
  PROVE  Sources(mav)' = Sources(mav) /\ Canonical(mav)' = Canonical(mav)
BY DEF Sources, Parsed, Canonical

(* Followed is kept by a step that takes a path off the queue only if it    *)
(* is loaded or reported.                                                   *)
LEMMA StillFollowed ==
  ASSUME disk' = disk, contracts' = contracts, Followed,
         loadedFiles \subseteq loadedFiles', diags \subseteq diags',
         \A path : Queued(path) =>
           \/ Queued(path)' \/ Canonical(path) \in loadedFiles' \/ Reported(path)'
  PROVE  Followed'
<1> SUFFICES ASSUME NEW mav \in contracts', NEW i \in DOMAIN Sources(mav)', NEW path,
                    path = SourcePath(mav.dir, Sources(mav)'[i].path)
             PROVE  Canonical(path) \in loadedFiles' \/ Reported(path)' \/ Queued(path)'
  BY DEF Followed, SourcePath
<1>1. Canonical(path) \in loadedFiles \/ Reported(path) \/ Queued(path)
  BY SameSources DEF Followed
<1>2. Reported(path) => Reported(path)'
  BY DEF Reported
<1>3. Canonical(path) \in loadedFiles' \/ Reported(path)' \/ Queued(path)'
  BY <1>1, <1>2
<1> QED
  BY <1>3

(* Loading leaves the table alone.                                          *)
LEMMA LoadingLeaves ==
  ASSUME Shaped, phase = "load", NothingResolved, NotResolving
  PROVE  Table' /\ NothingResolved' /\ disk' = disk /\ phase' = "load" /\ disk' \in Disks
BY DEF NotResolving, Table, NothingResolved, Shaped

(* A path that is popped and not parsed was loaded before, or is reported.  *)
LEMMA PopsKeep ==
  ASSUME LdInv, PopLegacy \/ PopLoaded \/ PopUnreadable
  PROVE  LdInv'
<1>1. /\ phase = "load" /\ Idle /\ queue # <<>> /\ IsSeq(queue)
      /\ queue' = Seqs!Front(queue) /\ NotResolving /\ current' = current
      /\ UNCHANGED <<loadedFiles, modules, contracts>> /\ diags \subseteq diags'
  BY DEF PopLegacy, PopLoaded, PopUnreadable, Popping, LdInv, Shaped
<1>2. Table' /\ NothingResolved' /\ disk' = disk /\ phase' = "load" /\ disk' \in Disks
  BY <1>1, LoadingLeaves DEF LdInv
<1>3. Shaped'
  BY <1>1, <1>2, Fronted DEF LdInv, Shaped, Idle
<1>4. Read'
  BY <1>1, <1>2, StillRead DEF LdInv, Idle
<1>5. Canonical(Top.path) \in loadedFiles \/ \E d \in diags' : d.about = Top.path
  <2>1. CASE PopLegacy
    <3>1. Diag("ELegacyExtension", Top.path) \in diags'
      BY <2>1 DEF PopLegacy
    <3>2. Diag("ELegacyExtension", Top.path).about = Top.path
      BY DEF Diag
    <3> QED
      BY <3>1, <3>2
  <2>2. CASE PopLoaded
    BY <2>2 DEF PopLoaded, Fresh
  <2>3. CASE PopUnreadable
    <3>1. Diag("EMissingModule", Top.path) \in diags'
      BY <2>3 DEF PopUnreadable
    <3>2. Diag("EMissingModule", Top.path).about = Top.path
      BY DEF Diag
    <3> QED
      BY <3>1, <3>2
  <2> QED
    BY <2>1, <2>2, <2>3
<1>6. \A k \in DOMAIN queue : queue[k] = Top \/ \E j \in DOMAIN queue' : queue'[j] = queue[k]
  <2>1. Elems(queue) = {Top} \cup Elems(queue')
    BY <1>1, Fronted DEF Top
  <2> QED
    BY <2>1 DEF Elems
<1>7. \A path : Queued(path) =>
        Queued(path)' \/ Canonical(path) \in loadedFiles' \/ Reported(path)'
  BY <1>1, <1>5, <1>6 DEF Queued, Reported
<1>8. Followed'
  BY <1>1, <1>2, <1>7, StillFollowed DEF LdInv
<1> QED
  BY <1>2, <1>3, <1>4, <1>8 DEF LdInv, LoadConstants

(* A path that is popped and parsed is of a file no module was made of.     *)
LEMMA FileKeeps ==
  ASSUME LdInv, PopFile PROVE LdInv'
<1>1. /\ phase = "load" /\ Idle /\ queue # <<>> /\ IsSeq(queue)
      /\ queue' = Seqs!Front(queue) /\ NotResolving
      /\ current' = [job |-> Top, left |-> Parsed(Top.path).directives]
      /\ loadedFiles' = loadedFiles \cup {Canonical(Top.path)}
      /\ UNCHANGED <<modules, contracts, diags>>
      /\ Exists(Top.path) /\ Canonical(Top.path) \notin loadedFiles
  BY DEF PopFile, Popping, LdInv, Shaped, Readable, Fresh
<1>2. Table' /\ NothingResolved' /\ disk' = disk /\ phase' = "load" /\ disk' \in Disks
  BY <1>1, LoadingLeaves DEF LdInv
<1>3. /\ Canonical(Top.path) \in DOMAIN disk /\ IsSeq(Parsed(Top.path).directives)
      /\ LoadConstants /\ disk \in Disks
  BY <1>1, WhatIsRead DEF LdInv, Shaped
<1>4. ~Idle'
  BY <1>1, <1>3, NamedFiles DEF Idle, NoFile
<1>5. Shaped'
  BY <1>1, <1>2, <1>3, Fronted DEF LdInv, Shaped
<1>6. Read'
  <2>1. Loads' = Loads /\ NoFileTwice'
    BY <1>1 DEF Loads, Canonical, LdInv, Read, NoFileTwice
  <2>2. Canonical(current.job.path)' = Canonical(Top.path)
    BY <1>1 DEF Canonical
  <2> QED
    BY <1>1, <1>2, <1>3, <1>4, <2>1, <2>2 DEF LdInv, Read
<1>7. \A k \in DOMAIN queue : queue[k] = Top \/ \E j \in DOMAIN queue' : queue'[j] = queue[k]
  <2>1. Elems(queue) = {Top} \cup Elems(queue')
    BY <1>1, Fronted DEF Top
  <2> QED
    BY <2>1 DEF Elems
<1>8. \A path : Queued(path) =>
        Queued(path)' \/ Canonical(path) \in loadedFiles' \/ Reported(path)'
  BY <1>1, <1>7 DEF Queued, Reported
<1>9. Followed'
  BY <1>1, <1>2, <1>8, StillFollowed DEF LdInv
<1> QED
  BY <1>2, <1>5, <1>6, <1>9 DEF LdInv, LoadConstants

(* What is queued stays queued behind more.                                 *)
LEMMA MoreQueued ==
  ASSUME NEW path, IsSeq(queue), NEW more, IsSeq(more), queue' = queue \o more, Queued(path)
  PROVE  Queued(path)'
<1>1. \A k \in DOMAIN queue : k \in DOMAIN queue' /\ queue'[k] = queue[k]
  BY Concatenated
<1> QED
  BY <1>1 DEF Queued

(* The next directive is of the same file.                                  *)
LEMMA NextKeeps ==
  ASSUME LdInv, Following, NextDirective
  PROVE  /\ current' = [job |-> current.job, left |-> current'.left]
         /\ IsSeq(current'.left) /\ current'.job = current.job
         /\ ~Idle /\ ~Idle'
<1>1. /\ ~Idle /\ IsSeq(current.left) /\ current.left # <<>>
      /\ current = [job |-> current.job, left |-> current.left]
  BY DEF Following, LdInv, Shaped
<1>2. current' = [current EXCEPT !.left = Tail(current.left)]
  BY DEF NextDirective
<1>3. current' = [job |-> current.job, left |-> Tail(current.left)]
  BY <1>1, <1>2
<1>4. current' = [job |-> current.job, left |-> current'.left] /\ IsSeq(current'.left)
  BY <1>1, <1>3, Tailed
<1>5. Exists(current.job.path)
  BY <1>1 DEF LdInv, Read, Exists
<1>6. [job |-> current.job, left |-> current'.left] # NoFile
  BY <1>5, NamedFiles DEF LdInv, Shaped
<1>7. ~Idle'
  BY <1>4, <1>6 DEF Idle, NoFile
<1> QED
  BY <1>1, <1>4, <1>7

(* Following a directive keeps the invariant when it reads nothing and      *)
(* takes nothing off the queue.                                             *)
LEMMA DirectiveKeeps ==
  ASSUME LdInv, Following, NextDirective, NotResolving,
         UNCHANGED <<loadedFiles, modules, contracts>>, diags \subseteq diags',
         IsSeq(queue'), \A path : Queued(path) => Queued(path)'
  PROVE  LdInv'
<1>1. phase = "load" /\ disk' = disk
  BY DEF Following, NotResolving
<1>2. Table' /\ NothingResolved' /\ disk' = disk /\ phase' = "load" /\ disk' \in Disks
  BY <1>1, LoadingLeaves DEF LdInv
<1>3. /\ current' = [job |-> current.job, left |-> current'.left]
      /\ IsSeq(current'.left) /\ current'.job = current.job /\ ~Idle /\ ~Idle'
  BY NextKeeps
<1>4. Shaped'
  BY <1>2, <1>3 DEF LdInv, Shaped
<1>5. Read'
  BY <1>2, <1>3, StillRead DEF LdInv
<1>6. Followed'
  BY <1>2, StillFollowed DEF LdInv
<1> QED
  BY <1>2, <1>4, <1>5, <1>6 DEF LdInv, LoadConstants

(* So do the directives that are skipped, that queue a stdlib file or that  *)
(* lead nowhere.                                                            *)
LEMMA SkipsKeep ==
  ASSUME LdInv, SkipDirective \/ FollowStdlib \/ FollowDangling
  PROVE  LdInv'
<1> USE DEF LdInv, Shaped
<1>1. IsSeq(queue)
  OBVIOUS
<1>2. CASE SkipDirective \/ FollowDangling
  <2>1. queue' = queue /\ \A path : Queued(path) => Queued(path)'
    BY <1>2 DEF SkipDirective, FollowDangling, Queued
  <2> QED
    BY <1>1, <1>2, <2>1, DirectiveKeeps DEF SkipDirective, FollowDangling
<1>3. CASE FollowStdlib
  <2>1. PICK job : queue' = Append(queue, job)
    BY <1>3 DEF FollowStdlib
  <2>2. IsSeq(queue') /\ \A k \in DOMAIN queue : k \in DOMAIN queue' /\ queue'[k] = queue[k]
    BY <1>1, <2>1, Appended
  <2>3. \A path : Queued(path) => Queued(path)'
    BY <2>2 DEF Queued
  <2> QED
    BY <1>3, <2>2, <2>3, DirectiveKeeps DEF FollowStdlib
<1> QED
  BY <1>2, <1>3

(* Pushing a file that is no module yet makes no file two modules.          *)
LEMMA PushKeepsRead ==
  ASSUME IsSeq(modules), NoFileTwice, disk' = disk, NEW path, Canonical(path) \notin Loads,
         modules' = Append(modules, path)
  PROVE  /\ IsSeq(modules') /\ NoFileTwice' /\ Loads' = Loads \cup {Canonical(path)}
<1>1. /\ IsSeq(modules') /\ DOMAIN modules' = 1 .. Len(modules) + 1
      /\ \A i \in DOMAIN modules : i \in DOMAIN modules' /\ modules'[i] = modules[i]
      /\ modules'[Len(modules) + 1] = path
  BY Appended
<1>2. Len(modules) \in Nat /\ DOMAIN modules = 1 .. Len(modules)
  BY IsSeqLen
<1>3. \A p : Canonical(p)' = Canonical(p)
  BY DEF Canonical
<1>4. DOMAIN modules' = DOMAIN modules \cup {Len(modules) + 1}
  BY <1>1, <1>2
<1>5. Loads' = Loads \cup {Canonical(path)}
  <2>1. Loads' = {Canonical(modules'[i]) : i \in DOMAIN modules'}
    BY DEF Loads, Canonical
  <2> QED
    BY <1>1, <1>4, <2>1 DEF Loads
<1>6. \A i, j \in DOMAIN modules' :
        Canonical(modules'[i]) = Canonical(modules'[j]) => i = j
  <2> SUFFICES ASSUME NEW i \in DOMAIN modules', NEW j \in DOMAIN modules',
                      Canonical(modules'[i]) = Canonical(modules'[j])
               PROVE  i = j
    OBVIOUS
  <2>1. \A k \in DOMAIN modules : Canonical(modules'[k]) # Canonical(path)
    BY <1>1 DEF Loads
  <2>2. CASE i \in DOMAIN modules /\ j \in DOMAIN modules
    BY <1>1, <2>2 DEF NoFileTwice
  <2> QED
    BY <1>1, <1>4, <2>1, <2>2
<1>7. NoFileTwice'
  BY <1>6 DEF NoFileTwice, Canonical
<1> QED
  BY <1>1, <1>5, <1>7

(* A contract that is read becomes a module, and all of its sources are     *)
(* queued.                                                                  *)
LEMMA ContractRead ==
  ASSUME LdInv, Following, NextDirective, NotResolving,
         NEW mav, Fresh(mav), Readable(mav), ReadContract(mav)
  PROVE  LdInv'
<1>1. /\ phase = "load" /\ ~Idle /\ LoadConstants /\ disk \in Disks /\ IsSeq(queue)
      /\ Exists(mav) /\ Canonical(mav) \notin loadedFiles /\ IsSeq(modules)
  BY DEF Following, LdInv, Shaped, Readable, Fresh
<1>2. Table' /\ NothingResolved' /\ disk' = disk /\ phase' = "load" /\ disk' \in Disks
  BY <1>1, LoadingLeaves DEF LdInv
<1>3. /\ current' = [job |-> current.job, left |-> current'.left]
      /\ IsSeq(current'.left) /\ current'.job = current.job /\ ~Idle /\ ~Idle'
  BY NextKeeps
<1>4. /\ IsSeq(Sources(mav)) /\ Canonical(mav) \in DOMAIN disk
      /\ Len(Sources(mav)) \in Nat /\ DOMAIN Sources(mav) = 1 .. Len(Sources(mav))
  BY <1>1, WhatIsRead, IsSeqLen
<1> DEFINE jobs == [i \in DOMAIN Sources(mav) |->
                      Job(SourcePath(mav.dir, Sources(mav)[i].path), mav.dir)]
<1>5. /\ queue' = queue \o jobs /\ modules' = Append(modules, mav)
      /\ loadedFiles' = loadedFiles \cup {Canonical(mav)}
      /\ contracts' = contracts \cup {mav} /\ diags' = diags
  BY DEF ReadContract, MarkContract
<1>6. /\ DOMAIN jobs = 1 .. Len(Sources(mav)) /\ jobs = [i \in DOMAIN jobs |-> jobs[i]]
      /\ \A i \in DOMAIN jobs : jobs[i].path = SourcePath(mav.dir, Sources(mav)[i].path)
  BY <1>4 DEF Job
<1> HIDE DEF jobs
<1>7. IsSeq(jobs)
  BY <1>4, <1>6, Mapped
<1>8. /\ IsSeq(queue') /\ \A path : Queued(path) => Queued(path)'
      /\ \A i \in DOMAIN jobs : \E k \in DOMAIN queue' : queue'[k] = jobs[i]
  <2>1. IsSeq(queue') /\ \A i \in DOMAIN jobs : \E k \in DOMAIN queue' : queue'[k] = jobs[i]
    <3>1. /\ IsSeq(queue \o jobs)
          /\ \A i \in DOMAIN jobs : Len(queue) + i \in DOMAIN (queue \o jobs)
                                   /\ (queue \o jobs)[Len(queue) + i] = jobs[i]
      BY <1>1, <1>7, Concatenated, SMTT(40)
    <3> QED
      BY <1>5, <3>1
  <2>2. \A path : Queued(path) => Queued(path)'
    BY <1>1, <1>5, <1>7, MoreQueued
  <2> QED
    BY <2>1, <2>2
<1>9. Canonical(mav) \notin Loads /\ NoFileTwice
  BY <1>1 DEF LdInv, Read
<1>10. IsSeq(modules') /\ NoFileTwice' /\ Loads' = Loads \cup {Canonical(mav)}
  BY <1>1, <1>2, <1>5, <1>9, PushKeepsRead
<1>11. Shaped'
  BY <1>2, <1>3, <1>8, <1>10 DEF LdInv, Shaped
<1>12. Read'
  <2>1. Canonical(current.job.path)' = Canonical(current.job.path)
    BY <1>2, <1>3 DEF Canonical
  <2>2. Canonical(current.job.path) # Canonical(mav)
    BY <1>1 DEF LdInv, Read
  <2> QED
    BY <1>2, <1>3, <1>4, <1>5, <1>10, <2>1, <2>2 DEF LdInv, Read
<1>13. \A c \in contracts' : Canonical(c)' \in DOMAIN disk'
  BY <1>2, <1>4, <1>5, SameSources DEF LdInv, Followed
<1>14. Followed'
  <2> SUFFICES ASSUME NEW c \in contracts', NEW i \in DOMAIN Sources(c)', NEW path,
                      path = SourcePath(c.dir, Sources(c)'[i].path)
               PROVE  Canonical(path) \in loadedFiles' \/ Reported(path)' \/ Queued(path)'
    BY <1>2, <1>13 DEF Followed, SourcePath, Canonical
  <2>1. Sources(c)' = Sources(c)
    BY <1>2, SameSources
  <2>2. Reported(path) => Reported(path)'
    BY <1>5 DEF Reported
  <2>3. CASE c = mav
    <3>1. i \in DOMAIN jobs /\ jobs[i].path = path
      BY <1>4, <1>6, <2>1, <2>3
    <3> QED
      BY <1>8, <3>1 DEF Queued
  <2>4. CASE c \in contracts
    <3>1. Canonical(path) \in loadedFiles \/ Reported(path) \/ Queued(path)
      BY <2>1, <2>4 DEF LdInv, Followed
    <3> QED
      BY <1>5, <1>8, <2>2, <3>1
  <2> QED
    BY <1>5, <2>3, <2>4
<1> QED
  BY <1>2, <1>11, <1>12, <1>14 DEF LdInv, LoadConstants

(* An import of a contract, read or not.                                    *)
LEMMA ContractKeeps ==
  ASSUME LdInv, FollowContract PROVE LdInv'
<1>1. /\ Following /\ NextDirective /\ NotResolving
      /\ \E mav : \/ Fresh(mav) /\ Readable(mav) /\ ReadContract(mav)
                  \/ LeaveContract(mav)
  BY DEF FollowContract
<1>2. CASE \E mav : Fresh(mav) /\ Readable(mav) /\ ReadContract(mav)
  BY <1>1, <1>2, ContractRead
<1>3. CASE \E mav : LeaveContract(mav)
  <2>1. /\ UNCHANGED <<queue, loadedFiles, modules, contracts>> /\ diags \subseteq diags'
    BY <1>3 DEF LeaveContract
  <2>2. IsSeq(queue') /\ \A path : Queued(path) => Queued(path)'
    BY <2>1 DEF Queued, LdInv, Shaped
  <2> QED
    BY <1>1, <2>1, <2>2, DirectiveKeeps
<1> QED
  BY <1>1, <1>2, <1>3

(* The file that was parsed becomes a module.                               *)
LEMMA PushKeeps ==
  ASSUME LdInv, PushModule PROVE LdInv'
<1>1. /\ phase = "load" /\ ~Idle /\ NotResolving /\ current' = NoFile
      /\ modules' = Append(modules, current.job.path)
      /\ UNCHANGED <<queue, loadedFiles, diags, contracts>>
  BY DEF PushModule
<1>2. Table' /\ NothingResolved' /\ disk' = disk /\ phase' = "load" /\ disk' \in Disks
  BY <1>1, LoadingLeaves DEF LdInv
<1>3. Idle' /\ current' = [job |-> current'.job, left |-> current'.left]
  BY <1>1 DEF Idle, NoFile
<1>4. PICK path : path = current.job.path
  OBVIOUS
<1>5. /\ Canonical(path) \notin Loads /\ loadedFiles = Loads \cup {Canonical(path)}
      /\ IsSeq(modules) /\ NoFileTwice
  BY <1>1, <1>4 DEF LdInv, Shaped, Read
<1>6. IsSeq(modules') /\ NoFileTwice' /\ Loads' = Loads \cup {Canonical(path)}
  BY <1>1, <1>2, <1>4, <1>5, PushKeepsRead
<1>7. Shaped'
  BY <1>1, <1>2, <1>3, <1>6 DEF LdInv, Shaped
<1>8. Read'
  BY <1>1, <1>2, <1>3, <1>5, <1>6 DEF LdInv, Read
<1>9. \A path_1 : Queued(path_1) => Queued(path_1)'
  BY <1>1 DEF Queued
<1>10. Followed'
  BY <1>1, <1>2, <1>9, StillFollowed DEF LdInv
<1> QED
  BY <1>2, <1>7, <1>8, <1>10 DEF LdInv, LoadConstants

(* The modules declare a sequence of items.                                 *)
LEMMA WhatIsDeclared ==
  ASSUME LdInv
  PROVE  IsSeq(Declared) /\ Elems(Declared) \subseteq Items /\ Len(Declared) \in Nat
         /\ DOMAIN Declared = 1 .. Len(Declared)
<1> DEFINE lists == [i \in DOMAIN modules |-> Parsed(modules[i]).items]
<1>1. /\ LoadConstants /\ disk \in Disks /\ IsSeq(modules)
      /\ Len(modules) \in Nat /\ DOMAIN modules = 1 .. Len(modules)
  BY IsSeqLen DEF LdInv, Shaped
<1>2. \A i \in DOMAIN modules : Exists(modules[i])
  BY DEF LdInv, Read, Loads, Exists
<1>3. \A i \in DOMAIN lists : IsSeq(lists[i]) /\ Elems(lists[i]) \subseteq Items
  BY <1>1, <1>2, WhatIsRead
<1>4. DOMAIN lists = 1 .. Len(modules) /\ lists = [i \in DOMAIN lists |-> lists[i]]
  BY <1>1
<1>5. Declared = Seqs!FlattenSeq(lists)
  BY DEF Declared
<1> HIDE DEF lists
<1>6. IsSeq(lists)
  BY <1>1, <1>4, Mapped
<1>7. IsSeq(Declared) /\ Elems(Declared) = UNION {Elems(lists[i]) : i \in DOMAIN lists}
  BY <1>3, <1>5, <1>6, FlattenElems
<1> QED
  BY <1>3, <1>7, IsSeqLen

(* Resolving leaves the loaded files alone.                                 *)
LEMMA LoadedLeaves ==
  ASSUME LdInv, Idle, queue = <<>>, diags \subseteq diags',
         phase' \in {"resolve", "accepted", "rejected"},
         UNCHANGED <<disk, queue, loadedFiles, current, modules, contracts>>
  PROVE  Shaped' /\ Read' /\ Followed' /\ NothingResolved' /\ Declared' = Declared
<1>1. Idle' /\ Declared' = Declared /\ \A path : Queued(path) => Queued(path)'
  BY DEF Idle, Declared, Parsed, Canonical, Queued
<1>2. Shaped' /\ NothingResolved'
  BY <1>1 DEF LdInv, Shaped, NothingResolved, Idle
<1>3. Read'
  BY <1>1, StillRead DEF LdInv
<1>4. Followed'
  BY <1>1, StillFollowed DEF LdInv
<1> QED
  BY <1>1, <1>2, <1>3, <1>4

(* Resolving starts with every declaration and an empty table.              *)
LEMMA LoadedKeeps ==
  ASSUME LdInv, Loaded PROVE LdInv'
<1>1. /\ phase = "load" /\ Idle /\ queue = <<>> /\ phase' \in {"resolve", "rejected"}
      /\ toResolve' = Declared /\ isContract' = isContract
      /\ UNCHANGED <<disk, queue, loadedFiles, current, modules, contracts, diags>>
  BY DEF Loaded, loadVars, Declared
<1>2. Shaped' /\ Read' /\ Followed' /\ NothingResolved' /\ Declared' = Declared
  BY <1>1, LoadedLeaves
<1>3. IsSeq(Declared) /\ Len(Declared) \in Nat
  BY WhatIsDeclared
<1>4. Gone' = 0
  BY <1>1, <1>2, <1>3 DEF Gone
<1>5. isContract' = <<>> /\ DOMAIN isContract' = {} /\ phase' # "accepted"
  BY <1>1 DEF LdInv, NothingResolved
<1>6. 1 .. 0 = {} /\ isContract' \in [{} -> BOOLEAN]
  BY <1>5
<1>7. Table'
  BY <1>1, <1>2, <1>3, <1>4, <1>5, <1>6 DEF Table
<1> QED
  BY <1>1, <1>2, <1>7 DEF LdInv, LoadConstants

(* The item that is resolved is the next of the declarations.               *)
LEMMA ItemIsNext ==
  ASSUME LdInv, phase = "resolve", toResolve # <<>>, toResolve' = Tail(toResolve),
         Declared' = Declared
  PROVE  /\ Gone \in Nat /\ Gone' = Gone + 1 /\ Gone + 1 \in DOMAIN Declared
         /\ Item = Declared[Gone + 1] /\ Item \in Items
         /\ IsSeq(toResolve') /\ Len(toResolve') <= Len(Declared)
         /\ \A i \in 1 .. Len(toResolve') : toResolve'[i] = Declared[Gone' + i]
<1>1. /\ IsSeq(toResolve) /\ Len(toResolve) <= Len(Declared)
      /\ \A i \in 1 .. Len(toResolve) : toResolve[i] = Declared[Gone + i]
  BY DEF LdInv, Table
<1>2. /\ Len(Declared) \in Nat /\ DOMAIN Declared = 1 .. Len(Declared)
      /\ Elems(Declared) \subseteq Items
  BY WhatIsDeclared
<1>3. Len(toResolve) \in Nat /\ Len(toResolve) > 0 /\ DOMAIN toResolve = 1 .. Len(toResolve)
  BY <1>1, IsSeqLen
<1>4. /\ IsSeq(toResolve') /\ Len(toResolve') = Len(toResolve) - 1 /\ Item = toResolve[1]
      /\ \A i \in DOMAIN toResolve' : i + 1 \in DOMAIN toResolve /\ toResolve'[i] = toResolve[i + 1]
  BY <1>1, Tailed DEF Item
<1>5. DOMAIN toResolve' = 1 .. Len(toResolve')
  BY <1>4, IsSeqLen
<1>6. Gone \in Nat /\ Gone' = Gone + 1 /\ Gone + 1 \in DOMAIN Declared
  BY <1>1, <1>2, <1>3, <1>4 DEF Gone
<1>7. Item = Declared[Gone + 1]
  BY <1>1, <1>3, <1>4
<1>8. Item \in Items
  BY <1>2, <1>6, <1>7 DEF Elems
<1>9. \A i \in 1 .. Len(toResolve') : toResolve'[i] = Declared[Gone' + i]
  <2> SUFFICES ASSUME NEW i \in 1 .. Len(toResolve')
               PROVE  toResolve'[i] = Declared[Gone' + i]
    OBVIOUS
  <2>1. i + 1 \in 1 .. Len(toResolve) /\ toResolve'[i] = toResolve[i + 1]
    BY <1>3, <1>4, <1>5
  <2>2. Gone + (i + 1) = Gone' + i
    BY <1>6
  <2> QED
    BY <1>1, <2>1, <2>2
<1> QED
  BY <1>1, <1>2, <1>3, <1>4, <1>6, <1>7, <1>8, <1>9

(* It is then one of those that were seen, of its own name.                 *)
LEMMA SeenNext ==
  ASSUME LdInv, phase = "resolve", toResolve # <<>>, toResolve' = Tail(toResolve),
         Declared' = Declared, NEW name, NEW kinds
  PROVE  /\ Seen(name, kinds)' = Seen(name, kinds) \cup
              (IF Item.name = name /\ Item.kind \in kinds THEN {Gone + 1} ELSE {})
         /\ {Declared[i].name : i \in 1 .. Gone}' =
              {Declared[i].name : i \in 1 .. Gone} \cup {Item.name}
         /\ Gone + 1 \notin Seen(name, kinds)
<1>1. /\ Gone \in Nat /\ Gone' = Gone + 1 /\ Item = Declared[Gone + 1]
  BY ItemIsNext
<1>2. 1 .. Gone + 1 = (1 .. Gone) \cup {Gone + 1} /\ Gone + 1 \notin 1 .. Gone
  BY <1>1
<1>3. Seen(name, kinds)' =
        {i \in 1 .. Gone + 1 : Declared[i].name = name /\ Declared[i].kind \in kinds}
  BY <1>1 DEF Seen
<1>4. {Declared[i].name : i \in 1 .. Gone}' = {Declared[i].name : i \in 1 .. Gone + 1}
  BY <1>1
<1> QED
  BY <1>1, <1>2, <1>3, <1>4 DEF Seen

(* A definition, a match and a clash keep the table true to what was seen.  *)
LEMMA ItemsKeep ==
  ASSUME LdInv, Define \/ Match \/ Clash PROVE LdInv'
<1>1. /\ phase = "resolve" /\ toResolve # <<>> /\ toResolve' = Tail(toResolve)
      /\ phase' = phase /\ diags \subseteq diags'
      /\ UNCHANGED <<disk, queue, loadedFiles, current, modules, contracts>>
  BY DEF Define, Match, Clash, loadVars
<1>2. Shaped' /\ Read' /\ Followed' /\ NothingResolved' /\ Declared' = Declared
  BY <1>1, LoadedLeaves DEF LdInv, Shaped
<1>3. /\ Gone \in Nat /\ Gone' = Gone + 1 /\ Item \in Items
      /\ IsSeq(toResolve') /\ Len(toResolve') <= Len(Declared)
      /\ \A i \in 1 .. Len(toResolve') : toResolve'[i] = Declared[Gone' + i]
  BY <1>1, <1>2, ItemIsNext
<1>4. /\ isContract \in [DOMAIN isContract -> BOOLEAN]
      /\ DOMAIN isContract = {Declared[i].name : i \in 1 .. Gone}
      /\ diags = {} =>
           \A name \in DOMAIN isContract :
             /\ AtMostOne(Seen(name, Implementing))
             /\ isContract[name] <=> Seen(name, Implementing) = {}
  BY <1>1 DEF LdInv, Table
<1>5. /\ {Declared[i].name : i \in 1 .. Gone}' = DOMAIN isContract \cup {Item.name}
      /\ \A name, kinds :
           Seen(name, kinds)' = Seen(name, kinds) \cup
              (IF Item.name = name /\ Item.kind \in kinds THEN {Gone + 1} ELSE {})
  BY <1>1, <1>2, <1>4, SeenNext
<1>6. /\ isContract' \in [DOMAIN isContract' -> BOOLEAN]
      /\ DOMAIN isContract' = DOMAIN isContract \cup {Item.name}
  <2>1. CASE Define
    BY <1>4, <2>1 DEF Define, Bodyless
  <2>2. CASE Match
    BY <1>4, <2>2 DEF Match, Defined
  <2>3. CASE Clash
    BY <1>4, <2>3 DEF Clash, Defined
  <2> QED
    BY <2>1, <2>2, <2>3
<1>7. diags' = {} =>
        \A name \in DOMAIN isContract' :
          /\ AtMostOne(Seen(name, Implementing)')
          /\ isContract'[name] <=> Seen(name, Implementing)' = {}
  <2> SUFFICES ASSUME diags' = {}, NEW name \in DOMAIN isContract'
               PROVE  /\ AtMostOne(Seen(name, Implementing)')
                      /\ isContract'[name] <=> Seen(name, Implementing)' = {}
    OBVIOUS
  <2>1. diags = {} /\ ~Clash
    BY <1>1 DEF Clash
  <2>2. CASE name # Item.name
    <3>1. Seen(name, Implementing)' = Seen(name, Implementing) /\ name \in DOMAIN isContract
      BY <1>5, <1>6, <2>2
    <3>2. isContract'[name] = isContract[name]
      BY <1>4, <2>1, <2>2, <3>1 DEF Define, Match
    <3> QED
      BY <1>4, <2>1, <3>1, <3>2
  <2>3. CASE name = Item.name /\ Define
    <3>1. Seen(name, Implementing) = {}
      BY <1>4, <2>3 DEF Define, Defined, Seen
    <3>2. isContract'[name] = (Item.kind = "contract")
      BY <2>3 DEF Define, Bodyless
    <3>3. Item.kind \in Implementing <=> Item.kind # "contract"
      BY <1>3 DEF Items, Implementing
    <3>4. Seen(name, Implementing)' = IF Item.kind = "contract" THEN {} ELSE {Gone + 1}
      BY <1>5, <2>3, <3>1, <3>3
    <3> QED
      BY <3>2, <3>4 DEF AtMostOne
  <2>4. CASE name = Item.name /\ Match
    <3>1. name \in DOMAIN isContract /\ isContract'[name] = FALSE
      BY <1>4, <2>4 DEF Match, Defined
    <3>2. Item.kind \in {"action", "contract"} /\ isContract[name] # (Item.kind = "contract")
      BY <1>3, <2>4 DEF Match, MatchesDefinition, Bodyless, Items
    <3>3. CASE Item.kind = "contract"
      <4>1. Seen(name, Implementing)' = Seen(name, Implementing)
        BY <1>5, <3>3 DEF Implementing
      <4>2. ~isContract[name]
        BY <1>4, <3>1, <3>2, <3>3
      <4> QED
        BY <1>4, <2>1, <3>1, <4>1, <4>2
    <3>4. CASE Item.kind = "action"
      <4>1. isContract[name]
        BY <1>4, <3>1, <3>2, <3>4
      <4>2. Seen(name, Implementing)' = {Gone + 1}
        BY <1>4, <1>5, <2>1, <2>4, <3>1, <3>4, <4>1 DEF Implementing
      <4> QED
        BY <3>1, <4>2 DEF AtMostOne
    <3> QED
      BY <3>2, <3>3, <3>4
  <2> QED
    BY <2>1, <2>2, <2>3, <2>4
<1>8. Table'
  BY <1>1, <1>2, <1>3, <1>5, <1>6, <1>7 DEF Table
<1> QED
  BY <1>1, <1>2, <1>8 DEF LdInv, LoadConstants

(* A program is accepted with every declaration seen and no error.          *)
LEMMA ResolvedKeeps ==
  ASSUME LdInv, Resolved PROVE LdInv'
<1>1. /\ phase = "resolve" /\ toResolve = <<>>
      /\ phase' = IF diags = {} THEN "accepted" ELSE "rejected"
      /\ UNCHANGED <<toResolve, isContract, diags>>
      /\ UNCHANGED <<disk, queue, loadedFiles, current, modules, contracts>>
  BY DEF Resolved, loadVars
<1>2. Shaped' /\ Read' /\ Followed' /\ NothingResolved' /\ Declared' = Declared
  BY <1>1, LoadedLeaves DEF LdInv, Shaped
<1>3. Gone' = Gone /\ \A name, kinds : Seen(name, kinds)' = Seen(name, kinds)
  BY <1>1, <1>2 DEF Gone, Seen
<1>4. Table'
  BY <1>1, <1>2, <1>3 DEF LdInv, Table
<1> QED
  BY <1>1, <1>2, <1>4 DEF LdInv, LoadConstants

(* The invariant holds of the inputs.                                       *)
LEMMA Begins == ASSUME LoadConstants, LdInit PROVE LdInv
<1>1. PICK inputs \in InputLists :
        queue = [i \in DOMAIN inputs |-> Job(inputs[i], inputs[i].dir)]
  BY DEF LdInit
<1>2. /\ disk \in Disks /\ loadedFiles = {} /\ contracts = {} /\ current = NoFile
      /\ modules = <<>> /\ phase = "load" /\ toResolve = <<>> /\ isContract = <<>>
  BY DEF LdInit
<1>3. inputs \in Seq(Paths) /\ Len(inputs) \in Nat /\ DOMAIN inputs = 1 .. Len(inputs)
  BY SeqIs DEF LoadConstants
<1>4. DOMAIN queue = 1 .. Len(inputs) /\ queue = [i \in DOMAIN queue |-> queue[i]]
  BY <1>1, <1>3
<1>5. IsSeq(queue)
  BY <1>3, <1>4, Mapped
<1>6. IsSeq(<<>>) /\ DOMAIN modules = {}
  BY <1>2, EmptySeq DEF IsSeq
<1>7. current = [job |-> current.job, left |-> current.left]
  BY <1>2 DEF NoFile
<1>8. Shaped
  BY <1>2, <1>5, <1>6, <1>7 DEF Shaped, Idle
<1>9. Loads = {}
  BY <1>6 DEF Loads
<1>10. Read
  BY <1>2, <1>6, <1>9 DEF Read, NoFileTwice, Idle
<1>11. Followed /\ Table /\ NothingResolved
  BY <1>2 DEF Followed, Table, NothingResolved
<1> QED
  BY <1>8, <1>10, <1>11 DEF LdInv

(* Every step keeps the invariant.                                          *)
LEMMA StepsKeep == ASSUME LdInv, [LdNext]_vars PROVE LdInv'
<1>1. CASE LdNext
  BY <1>1, PopsKeep, FileKeeps, SkipsKeep, ContractKeeps, PushKeeps, LoadedKeeps,
     ItemsKeep, ResolvedKeeps DEF LdNext, Load, Resolve
<1>2. CASE UNCHANGED vars
  <2>1. /\ UNCHANGED <<disk, queue, loadedFiles, current, modules, contracts, diags>>
        /\ UNCHANGED <<phase, toResolve, isContract>>
    BY <1>2 DEF vars, loadVars
  <2>2. /\ Idle' = Idle /\ Declared' = Declared /\ Gone' = Gone
        /\ \A path : Queued(path) => Queued(path)'
        /\ \A name, kinds : Seen(name, kinds)' = Seen(name, kinds)
    BY <2>1 DEF Idle, Declared, Parsed, Canonical, Queued, Gone, Seen
  <2>3. Shaped' /\ NothingResolved'
    BY <2>1, <2>2 DEF LdInv, Shaped, NothingResolved
  <2>4. Read'
    BY <2>1, <2>2, StillRead DEF LdInv
  <2>5. Followed'
    BY <2>1, <2>2, StillFollowed DEF LdInv
  <2>6. Table'
    BY <2>1, <2>2 DEF LdInv, Table
  <2> QED
    BY <2>3, <2>4, <2>5, <2>6 DEF LdInv, LoadConstants
<1> QED
  BY <1>1, <1>2

(* The invariant always holds.                                              *)
LEMMA AlwaysLdInv == LoadConstants /\ LdSpec => []LdInv
<1>1. LoadConstants /\ LdInit => LdInv
  BY Begins
<1>2. LdInv /\ [LdNext]_vars => LdInv'
  BY StepsKeep
<1> QED
  BY <1>1, <1>2, PTL DEF LdSpec

(* What the loader has read exists, only a file being parsed has been read  *)
(* without having become a module, loading ends with nothing pending, and   *)
(* the table is of declared names.                                          *)
THEOREM LoaderTyped == LoadConstants /\ LdSpec => []LdTypeOK
<1>1. LdInv => LdTypeOK
  <2> SUFFICES ASSUME LdInv PROVE LdTypeOK
    OBVIOUS
  <2>1. /\ phase = "load" => isContract = <<>>
        /\ phase # "load" => /\ isContract \in [DOMAIN isContract -> BOOLEAN]
                             /\ DOMAIN isContract = {Declared[i].name : i \in 1 .. Gone}
                             /\ Len(toResolve) \in Nat
    BY IsSeqLen DEF LdInv, Table, NothingResolved
  <2>2. isContract \in [DOMAIN isContract -> BOOLEAN]
    <3>1. CASE phase = "load"
      <4>1. isContract = <<>> /\ DOMAIN isContract = {}
        BY <2>1, <3>1
      <4>2. <<>> = [x \in {} |-> TRUE]
        OBVIOUS
      <4> QED
        BY <4>1, <4>2
    <3> QED
      BY <2>1, <3>1
  <2>3. DOMAIN isContract \subseteq Names
    <3>1. CASE phase = "load"
      BY <2>1, <3>1
    <3>2. CASE phase # "load"
      <4>1. /\ DOMAIN Declared = 1 .. Len(Declared) /\ Elems(Declared) \subseteq Items
            /\ Len(Declared) \in Nat
        BY WhatIsDeclared
      <4>2. \A i \in 1 .. Gone : i \in DOMAIN Declared
        BY <2>1, <3>2, <4>1 DEF Gone
      <4>3. \A i \in 1 .. Gone : Declared[i].name \in Names
        BY <4>1, <4>2 DEF Elems, Items
      <4> QED
        BY <2>1, <3>2, <4>3
    <3> QED
      BY <3>1, <3>2
  <2> QED
    BY <2>2, <2>3 DEF LdInv, Shaped, Read, Loads, LdTypeOK
<1> QED
  BY <1>1, AlwaysLdInv, PTL

(* No file is compiled twice, however it was reached: load_and_parse and    *)
(* load_module_contract (driver_pipeline/mod.rs) share one set of           *)
(* canonical paths, and each marks what it reads.                           *)
THEOREM FilesReadOnce == LoadConstants /\ LdSpec => []NoFileTwice
<1>1. LdInv => NoFileTwice
  BY DEF LdInv, Read
<1> QED
  BY <1>1, AlwaysLdInv, PTL

(* When loading ends, each #source of each contract that was read is a      *)
(* module or has an error about it: nothing but popping takes a job off     *)
(* the queue, and popping loads or reports.                                 *)
THEOREM SourcesAnswered == LoadConstants /\ LdSpec => []SourcesLoadedOrReported
<1>1. LdInv => SourcesLoadedOrReported
  <2> SUFFICES ASSUME LdInv, Finished, NEW mav \in contracts, NEW i \in DOMAIN Sources(mav),
                      NEW path,
                      path = SourcePath(mav.dir, Sources(mav)[i].path)
               PROVE  Canonical(path) \in loadedFiles \/ \E d \in diags : d.about = path
    BY DEF SourcesLoadedOrReported
  <2>1. queue = <<>>
    BY DEF LdInv, Shaped, Finished
  <2>2. ~Queued(path)
    BY <2>1 DEF Queued
  <2> QED
    BY <2>2 DEF LdInv, Followed, Reported
<1> QED
  BY <1>1, AlwaysLdInv, PTL

(* An accepted program implements no name twice, in whatever order          *)
(* contracts and implementations were resolved, and its table says of a     *)
(* name that it is a mere contract exactly when no declaration implements   *)
(* it (resolve/mod.rs).                                                     *)
THEOREM NamesImplementedOnce == LoadConstants /\ LdSpec => []OneImplementation
<1>1. LdInv => OneImplementation
  <2> SUFFICES ASSUME LdInv, phase = "accepted"
               PROVE  \A name \in DOMAIN isContract :
                        /\ AtMostOne(Declarations(name, Implementing))
                        /\ isContract[name] <=> Declarations(name, Implementing) = {}
    BY DEF OneImplementation, Implementing
  <2>1. /\ toResolve = <<>>
        /\ \A name \in DOMAIN isContract :
             /\ AtMostOne(Seen(name, Implementing))
             /\ isContract[name] <=> Seen(name, Implementing) = {}
    BY DEF LdInv, Table
  <2>2. Gone = Len(Declared) /\ DOMAIN Declared = 1 .. Len(Declared)
    BY <2>1, WhatIsDeclared DEF Gone
  <2>3. \A name : Seen(name, Implementing) = Declarations(name, Implementing)
    BY <2>2 DEF Seen, Declarations
  <2> QED
    BY <2>1, <2>3
<1> QED
  BY <1>1, AlwaysLdInv, PTL

-----------------------------------------------------------------------------
(* The paths a process may be given.                                        *)
Given == DOMAIN Stem \cup DOMAIN Entries
(* What may be in a file of a stem.                                         *)
Made(s) == {f \in DOMAIN Stem : Stem[f] = s} \cup {Missing, Torn}
Verdicts == [file : DOMAIN Stem, outcome : Outcomes, raced : BOOLEAN]
Places == {"compiling", "opening", "filling", "linking", "making", "starting",
           "exiting", "emptied", "done", "killed", "orphaned"}
Kinds == {"build", "run", "test", "mir", "obj", "clean"}

(* The values of each variable.                                             *)
Typed ==
  /\ order \in [Procs -> Orders]
  /\ left \in [Procs -> Seq(Given)]
  /\ pc \in [Procs -> Places]
  /\ held \in [Procs -> BOOLEAN]
  /\ linked \in [Procs -> DOMAIN Stem \cup {Missing, Torn}]
  /\ verdicts \in [Procs -> Seq(Verdicts)]
  /\ raced \in [Procs -> BOOLEAN]
  /\ exit \in [Procs -> Outcomes]
  /\ present \in BOOLEAN
  /\ DOMAIN objects = Stems /\ DOMAIN executables = Stems
  /\ \A s \in Stems : objects[s] \in Made(s) /\ executables[s] \in Made(s)

(* What is left of the inputs to try. *)
Pending(p) == UNION {SourcesIn(left[p][k]) : k \in DOMAIN left[p]}

(* Where a process is tells what it holds, links and has left.              *)
InPlace(p) ==
  /\ held[p] => pc[p] \in {"filling", "making", "orphaned"}
  /\ pc[p] = "done" <=> exit[p] # Missing
  /\ Busy(p) \/ pc[p] = "opening" => left[p] # <<>> /\ Now(p) \in DOMAIN Stem
  /\ pc[p] \in {"making", "starting", "orphaned"} => order[p].kind # "obj"
  /\ Busy(p) => order[p].kind # "mir"
  /\ pc[p] = "emptied" => order[p].kind = "clean"
  /\ Makes(p) => linked[p] \in Made(At(p))
  /\ pc[p] = "exiting" => left[p] = <<>> /\ verdicts[p] # <<>>
  /\ order[p].kind \notin {"test", "clean"} => \A k \in DOMAIN left[p] : left[p][k] \in DOMAIN Stem

(* Every verdict is that of its source or raced, and every source given is  *)
(* tried or still to be tried.                                              *)
Counted(p) ==
  /\ \A n \in DOMAIN verdicts[p] :
       LET v == verdicts[p][n]
       IN  /\ v.raced \/ v.outcome \in {Failure, Missing, Says[v.file]}
           /\ order[p].kind = "run" => v.outcome # Missing
  /\ \A n \in DOMAIN order[p].inputs :
       SourcesIn(order[p].inputs[n]) \subseteq Tried(p) \cup Pending(p)
  /\ order[p].kind = "test" /\ exit[p] = Success =>
       left[p] = <<>> /\ Passed(p) = DOMAIN verdicts[p]

(* Two at work on one stem have both been raced.                            *)
Meet == \A p, q \in Procs : p # q /\ Busy(p) /\ Busy(q) /\ At(p) = At(q) => raced[p] /\ raced[q]

(* What is in the files of a process nobody has met.                        *)
Alone(p) ==
  ~raced[p] =>
    /\ pc[p] = "filling" /\ ~held[p] => objects[At(p)] = Missing
    /\ pc[p] = "linking" => objects[At(p)] \in {Now(p), Missing}
    /\ pc[p] = "making" => /\ linked[p] = Now(p)
                           /\ ~held[p] => executables[At(p)] = Missing
    /\ pc[p] = "starting" => executables[At(p)] \in {Now(p), Missing}

BuildInv ==
  /\ BuildConstants
  /\ Typed /\ Meet
  /\ \A p \in Procs : InPlace(p) /\ Counted(p) /\ Alone(p)

(* What one process may do.                                                 *)
Step(p) ==
  \/ Stops(p) \/ Lists(p) \/ Rejects(p) \/ MakesDirectory(p) \/ EmitsText(p)
  \/ OpensObject(p) \/ NoObject(p) \/ FillsObject(p) \/ EmitsObject(p) \/ Links(p)
  \/ FinishesLink(p) \/ LinkFails(p) \/ Builds(p) \/ Runs(p) \/ Exits(p) \/ Empties(p)
  \/ Cleans(p) \/ Killed(p)

(* Only the process that moves changes what is its own; the others are at  *)
(* most raced, or left with a file that has lost its name.                 *)
Unmoved(q) ==
  /\ order'[q] = order[q] /\ left'[q] = left[q] /\ pc'[q] = pc[q]
  /\ linked'[q] = linked[q] /\ verdicts'[q] = verdicts[q] /\ exit'[q] = exit[q]
  /\ held'[q] => held[q]
  /\ raced[q] => raced'[q]

(* A step moves one process: of another it takes at most the name of a      *)
(* file it holds, and marks it raced.                                       *)
LEMMA OneMoves ==
  ASSUME Typed, NEW p \in Procs, NEW q \in Procs, q # p, Step(p)
  PROVE  Unmoved(q)
<1> USE DEF Typed, Unmoved, Quiet, Files
<1>1. CASE Stops(p)
  BY <1>1 DEF Stops
<1>2. CASE Lists(p)
  BY <1>2 DEF Lists
<1>3. ASSUME NEW v, Concludes(p, v) PROVE Unmoved(q)
  BY <1>3 DEF Concludes
<1>4. CASE Rejects(p) \/ EmitsText(p) \/ NoObject(p) \/ EmitsObject(p) \/ LinkFails(p)
           \/ Builds(p) \/ Runs(p)
  BY <1>3, <1>4 DEF Rejects, EmitsText, NoObject, EmitsObject, LinkFails, Builds, Runs
<1>5. CASE MakesDirectory(p)
  BY <1>5 DEF MakesDirectory, Goes
<1>6. CASE OpensObject(p)
  BY <1>6 DEF OpensObject, Goes
<1>7. CASE FillsObject(p)
  BY <1>7 DEF FillsObject, Goes
<1>8. CASE Links(p)
  BY <1>8 DEF Links, Goes
<1>9. CASE FinishesLink(p)
  BY <1>9 DEF FinishesLink, Goes
<1>10. CASE Exits(p)
  BY <1>10 DEF Exits
<1>11. CASE Empties(p)
  BY <1>11 DEF Empties
<1>12. CASE Cleans(p)
  BY <1>12 DEF Cleans
<1>13. CASE Killed(p)
  BY <1>13 DEF Killed
<1> QED
  BY <1>1, <1>2, <1>4, <1>5, <1>6, <1>7, <1>8, <1>9, <1>10, <1>11, <1>12, <1>13 DEF Step

(* A process that has not moved is where it was.                            *)
LEMMA OthersInPlace ==
  ASSUME NEW q \in Procs, Unmoved(q), InPlace(q)
  PROVE  InPlace(q)'
BY DEF Unmoved, InPlace, Busy, Now, Makes, At, Made

(* A process that has not moved has counted what it had counted.            *)
LEMMA OthersCounted ==
  ASSUME NEW q \in Procs, Unmoved(q), Counted(q)
  PROVE  Counted(q)'
<1>1. /\ order'[q] = order[q] /\ left'[q] = left[q] /\ verdicts'[q] = verdicts[q]
      /\ exit'[q] = exit[q]
  BY DEF Unmoved
<1>2. Tried(q)' = Tried(q) /\ Passed(q)' = Passed(q)
  BY <1>1 DEF Tried, Passed
<1>3. Pending(q)' = Pending(q)
  BY <1>1 DEF Pending
<1> QED
  BY <1>1, <1>2, <1>3 DEF Counted

(* Where a process goes, it races those it meets there.                    *)
LEMMA GoingMeets ==
  ASSUME Typed, Meet, NEW p \in Procs, NEW to, Goes(p, to), left' = left,
         Step(p)
  PROVE  Meet'
<1> SUFFICES ASSUME NEW q \in Procs, NEW r \in Procs, q # r, Busy(q)', Busy(r)',
                    At(q)' = At(r)'
             PROVE  raced'[q] /\ raced'[r]
  BY DEF Meet
<1>1. At(q) = At(r)
  BY DEF At, Now
<1>2. CASE p \in {q, r}
  BY <1>1, <1>2 DEF Goes
<1>3. CASE p \notin {q, r}
  <2>1. Unmoved(q) /\ Unmoved(r)
    BY <1>3, OneMoves
  <2>2. Busy(q) /\ Busy(r)
    BY <2>1 DEF Unmoved, Busy
  <2> QED
    BY <1>1, <2>1, <2>2 DEF Meet, Unmoved
<1> QED
  BY <1>2, <1>3

(* A process that is through, or killed where it was, meets nobody new.    *)
LEMMA LeavingMeets ==
  ASSUME Typed, Meet, NEW p \in Procs, Step(p),
         \/ ~Busy(p)'
         \/ Busy(p) /\ left' = left /\ raced' = raced
  PROVE  Meet'
<1> SUFFICES ASSUME NEW q \in Procs, NEW r \in Procs, q # r, Busy(q)', Busy(r)',
                    At(q)' = At(r)'
             PROVE  raced'[q] /\ raced'[r]
  BY DEF Meet
<1>1. \A s \in Procs \ {p} : Unmoved(s)
  BY OneMoves
<1>2. \A s \in Procs \ {p} : (Busy(s)' => Busy(s)) /\ At(s)' = At(s)
  BY <1>1 DEF Unmoved, Busy, At, Now
<1>3. CASE ~Busy(p)'
  BY <1>1, <1>2, <1>3 DEF Meet, Unmoved
<1>4. CASE Busy(p) /\ left' = left /\ raced' = raced
  <2>1. At(p)' = At(p)
    BY <1>4 DEF At, Now
  <2> QED
    BY <1>2, <1>4, <2>1 DEF Meet
<1> QED
  BY <1>3, <1>4

(* The files of a process nobody meets are left alone, or lost together.   *)
Untouched(q) ==
  \/ /\ objects'[At(q)] = objects[At(q)] /\ executables'[At(q)] = executables[At(q)]
     /\ held'[q] = held[q]
  \/ objects'[At(q)] = Missing /\ executables'[At(q)] = Missing /\ ~held'[q]

(* A step leaves alone the files of a process that nobody meets, or takes   *)
(* both, as clean does.                                                     *)
LEMMA OthersUntouched ==
  ASSUME Typed, Meet, NEW p \in Procs, NEW q \in Procs, q # p, Step(p),
         InPlace(q), Busy(q), ~raced'[q]
  PROVE  Untouched(q)
<1>1. /\ Unmoved(q) /\ ~raced[q] /\ Busy(q)' /\ At(q) \in Stems
  BY OneMoves DEF Unmoved, Busy, Typed, At, Now, Stems, InPlace
<1>2. Busy(p) => At(p) # At(q)
  BY <1>1 DEF Meet
<1> USE DEF Typed, Untouched, Quiet, Files
<1>3. CASE Stops(p)
  BY <1>3 DEF Stops
<1>4. CASE Lists(p)
  BY <1>4 DEF Lists
<1>5. ASSUME NEW v, Concludes(p, v), UNCHANGED <<objects, executables>> PROVE Untouched(q)
  BY <1>5 DEF Concludes
<1>6. CASE Rejects(p) \/ EmitsText(p) \/ NoObject(p) \/ EmitsObject(p) \/ LinkFails(p)
           \/ Builds(p) \/ Runs(p)
  BY <1>5, <1>6 DEF Rejects, EmitsText, NoObject, EmitsObject, LinkFails, Builds, Runs
<1>7. CASE MakesDirectory(p)
  BY <1>7 DEF MakesDirectory
<1>8. CASE OpensObject(p)
  <2>1. Busy(p)' /\ Goes(p, "filling")
    BY <1>8 DEF OpensObject, Goes, Busy
  <2>2. At(p) # At(q)
    BY <1>1, <2>1 DEF Goes
  <2> QED
    BY <1>1, <1>8, <2>2 DEF OpensObject
<1>9. CASE FillsObject(p)
  <2>1. Busy(p)
    BY <1>9 DEF FillsObject, Working, Busy
  <2> QED
    BY <1>1, <1>2, <1>9, <2>1 DEF FillsObject
<1>10. CASE Links(p)
  <2>1. Busy(p)
    BY <1>10 DEF Links, Working, Busy
  <2> QED
    BY <1>1, <1>2, <1>10, <2>1 DEF Links
<1>11. CASE FinishesLink(p)
  <2>1. Busy(p)
    BY <1>11 DEF FinishesLink, Makes, Busy
  <2> QED
    BY <1>1, <1>2, <1>11, <2>1 DEF FinishesLink
<1>12. CASE Exits(p)
  BY <1>12 DEF Exits
<1>13. CASE Empties(p)
  BY <1>1, <1>13 DEF Empties
<1>14. CASE Cleans(p)
  BY <1>14 DEF Cleans
<1>15. CASE Killed(p)
  BY <1>15 DEF Killed
<1> QED
  BY <1>3, <1>4, <1>6, <1>7, <1>8, <1>9, <1>10, <1>11, <1>12, <1>13, <1>14, <1>15 DEF Step

(* What a process that nobody has met knows of its files outlives the       *)
(* steps of others.                                                         *)
LEMMA OthersAlone ==
  ASSUME Typed, Meet, NEW p \in Procs, NEW q \in Procs, q # p, Step(p),
         InPlace(q), Alone(q)
  PROVE  Alone(q)'
<1> SUFFICES ASSUME ~raced'[q] PROVE Alone(q)'
  BY DEF Alone
<1>1. /\ pc'[q] = pc[q] /\ left'[q] = left[q] /\ linked'[q] = linked[q] /\ ~raced[q]
  BY OneMoves DEF Unmoved
<1>2. At(q)' = At(q) /\ Now(q)' = Now(q)
  BY <1>1 DEF At, Now
<1>3. CASE ~Busy(q)
  BY <1>1, <1>3 DEF Busy, Alone
<1>4. CASE Busy(q)
  <2>1. Untouched(q)
    BY <1>4, OthersUntouched
  <2> QED
    BY <1>1, <1>2, <2>1 DEF Alone, Untouched
<1> QED
  BY <1>3, <1>4

(* What is in every file stays made of a source of its stem.               *)
FilesMade ==
  /\ DOMAIN objects = Stems /\ DOMAIN executables = Stems
  /\ \A s \in Stems : objects[s] \in Made(s) /\ executables[s] \in Made(s)

(* A sequence has its first element and the elements of its tail, and no    *)
(* others.                                                                  *)
LEMMA HeadAndTail ==
  ASSUME NEW S, NEW s \in Seq(S), s # <<>>
  PROVE  /\ Head(s) \in S /\ Tail(s) \in Seq(S) /\ (Len(s) <= 1 => Tail(s) = <<>>)
         /\ \A k \in DOMAIN s : s[k] = Head(s) \/ \E j \in DOMAIN Tail(s) : s[k] = Tail(s)[j]
         /\ \A j \in DOMAIN Tail(s) : \E k \in DOMAIN s : Tail(s)[j] = s[k]
<1>1. /\ Head(s) \in S /\ Tail(s) \in Seq(S) /\ Len(Tail(s)) = Len(s) - 1
      /\ \A i \in 1..Len(Tail(s)) : Tail(s)[i] = s[i + 1]
  BY HeadTailProperties
<1>2. Len(s) \in Nat \ {0} /\ DOMAIN s = 1..Len(s) /\ Head(s) = s[1]
  BY EmptySeq, LenProperties
<1>3. DOMAIN Tail(s) = 1..Len(s) - 1
  BY <1>1, LenProperties
<1>4. Len(s) <= 1 => Tail(s) = <<>>
  BY <1>1, <1>2, EmptySeq
<1>5. ASSUME NEW k \in DOMAIN s, s[k] # Head(s)
      PROVE  \E j \in DOMAIN Tail(s) : s[k] = Tail(s)[j]
  <2>1. k - 1 \in DOMAIN Tail(s) /\ (k - 1) + 1 = k
    BY <1>2, <1>3, <1>5
  <2> QED
    BY <1>1, <1>3, <2>1
<1>6. ASSUME NEW j \in DOMAIN Tail(s) PROVE \E k \in DOMAIN s : Tail(s)[j] = s[k]
  <2>1. j + 1 \in DOMAIN s
    BY <1>2, <1>3
  <2> QED
    BY <1>1, <1>3, <2>1
<1> QED
  BY <1>1, <1>4, <1>5, <1>6

(* What is left to try behind the first.                                    *)
Rest(p) == UNION {SourcesIn(Tail(left[p])[k]) : k \in DOMAIN Tail(left[p])}

(* What is left to try is the sources of the first path left, and of the    *)
(* rest.                                                                    *)
LEMMA FirstAndRest ==
  ASSUME Typed, NEW p \in Procs, left[p] # <<>>
  PROVE  Pending(p) \subseteq SourcesIn(Now(p)) \cup Rest(p)
<1>1. left[p] \in Seq(Given)
  BY DEF Typed
<1>2. \A k \in DOMAIN left[p] : left[p][k] = Now(p)
        \/ \E j \in DOMAIN Tail(left[p]) : left[p][k] = Tail(left[p])[j]
  BY <1>1, HeadAndTail DEF Now
<1> QED
  BY <1>2 DEF Pending, Rest

(* The variables but the files.                                            *)
Kept ==
  /\ order \in [Procs -> Orders]
  /\ left \in [Procs -> Seq(Given)]
  /\ pc \in [Procs -> Places]
  /\ held \in [Procs -> BOOLEAN]
  /\ linked \in [Procs -> DOMAIN Stem \cup {Missing, Torn}]
  /\ verdicts \in [Procs -> Seq(Verdicts)]
  /\ raced \in [Procs -> BOOLEAN]
  /\ exit \in [Procs -> Outcomes]

(* A source is counted: its own verdict is added, and it is tried.         *)
LEMMA Counts ==
  ASSUME BuildConstants, Typed, NEW p \in Procs, InPlace(p), Counted(p),
         NEW outcome \in Outcomes, Concludes(p, Verdict(p, outcome)),
         left[p] # <<>>, Now(p) \in DOMAIN Stem, exit[p] = Missing,
         raced[p] \/ outcome \in {Failure, Missing, Says[Now(p)]},
         order[p].kind = "run" => outcome # Missing
  PROVE  Kept' /\ ~Busy(p)' /\ InPlace(p)' /\ Counted(p)' /\ Alone(p)'
<1> DEFINE v == Verdict(p, outcome)
           vs == verdicts[p]
<1>1. /\ left[p] \in Seq(Given) /\ vs \in Seq(Verdicts) /\ raced[p] \in BOOLEAN
      /\ Len(left[p]) \in Nat
  BY DEF Typed
<1>2. v \in Verdicts /\ v.file = Now(p) /\ v.raced = raced[p] /\ v.outcome = outcome
  BY <1>1 DEF Verdicts, Verdict
<1>3. /\ left' = [left EXCEPT ![p] = Tail(left[p])]
      /\ verdicts' = [verdicts EXCEPT ![p] = Append(vs, v)]
      /\ raced' = [raced EXCEPT ![p] = FALSE] /\ held' = [held EXCEPT ![p] = FALSE]
      /\ pc' = [pc EXCEPT ![p] = IF Len(left[p]) > 1 THEN "compiling" ELSE "exiting"]
      /\ order' = order /\ linked' = linked /\ exit' = exit
  BY DEF Concludes
<1> HIDE DEF v
<1>4. /\ Tail(left[p]) \in Seq(Given) /\ (Len(left[p]) <= 1 => Tail(left[p]) = <<>>)
      /\ \A j \in DOMAIN Tail(left[p]) : \E k \in DOMAIN left[p] : Tail(left[p])[j] = left[p][k]
  BY <1>1, HeadAndTail
<1>5. /\ Append(vs, v) \in Seq(Verdicts) /\ Append(vs, v) # <<>>
      /\ DOMAIN Append(vs, v) = 1..Len(vs) + 1 /\ DOMAIN vs = 1..Len(vs) /\ Len(vs) \in Nat
      /\ \A n \in 1..Len(vs) : Append(vs, v)[n] = vs[n]
      /\ Append(vs, v)[Len(vs) + 1] = v
  BY <1>1, <1>2, AppendProperties, LenProperties
<1>6. Kept'
  BY <1>3, <1>4, <1>5 DEF Typed, Kept, Places
<1>7. /\ left'[p] = Tail(left[p]) /\ verdicts'[p] = Append(vs, v)
      /\ ~held'[p] /\ order'[p] = order[p] /\ exit'[p] = exit[p]
      /\ pc'[p] \in {"compiling", "exiting"}
      /\ pc'[p] = "exiting" => left'[p] = <<>>
  BY <1>1, <1>3, <1>4 DEF Typed
<1>8. ~Busy(p)' /\ ~Makes(p)'
  BY <1>7 DEF Busy, Makes
<1>9. InPlace(p)'
  BY <1>4, <1>5, <1>7, <1>8 DEF InPlace
<1>10. Alone(p)'
  BY <1>7 DEF Alone
<1>11. Tried(p)' = Tried(p) \cup {Now(p)}
  <2>1. \A n \in DOMAIN vs : n \in DOMAIN Append(vs, v) /\ Append(vs, v)[n].file = vs[n].file
    BY <1>5
  <2>2. \A n \in DOMAIN Append(vs, v) : n \in DOMAIN vs \/ n = Len(vs) + 1
    BY <1>5
  <2>3. Len(vs) + 1 \in DOMAIN Append(vs, v)
    BY <1>5
  <2>4. Tried(p)' = {Append(vs, v)[n].file : n \in DOMAIN Append(vs, v)}
    BY <1>7 DEF Tried
  <2> DEFINE all == Append(vs, v)
  <2>5. all[Len(vs) + 1].file = Now(p)
    BY <1>2, <1>5
  <2>6. Tried(p) = {vs[n].file : n \in DOMAIN vs}
    BY DEF Tried
  <2> HIDE DEF all, vs
  <2>7. {all[n].file : n \in DOMAIN all} = {vs[n].file : n \in DOMAIN vs} \cup {Now(p)}
    BY <2>1, <2>2, <2>3, <2>5 DEF all
  <2> QED
    BY <2>4, <2>6, <2>7 DEF all
<1>12. Pending(p) \subseteq {Now(p)} \cup Pending(p)'
  <2>1. SourcesIn(Now(p)) = {Now(p)}
    BY DEF SourcesIn, BuildConstants
  <2>2. Pending(p)' = Rest(p)
    BY <1>7 DEF Pending, Rest
  <2> QED
    BY <2>1, <2>2, FirstAndRest
<1>13. \A n \in DOMAIN Append(vs, v) :
         LET w == Append(vs, v)[n]
         IN  /\ w.raced \/ w.outcome \in {Failure, Missing, Says[w.file]}
             /\ order[p].kind = "run" => w.outcome # Missing
  <2> SUFFICES ASSUME NEW n \in DOMAIN Append(vs, v)
               PROVE  LET w == Append(vs, v)[n]
                      IN  /\ w.raced \/ w.outcome \in {Failure, Missing, Says[w.file]}
                          /\ order[p].kind = "run" => w.outcome # Missing
    OBVIOUS
  <2>1. CASE n \in DOMAIN vs
    BY <1>5, <2>1 DEF Counted
  <2>2. CASE n = Len(vs) + 1
    BY <1>2, <1>5, <2>2
  <2> QED
    BY <1>5, <2>1, <2>2
<1>14. Counted(p)'
  <2>1. \A n \in DOMAIN order[p].inputs :
          SourcesIn(order[p].inputs[n]) \subseteq Tried(p)' \cup Pending(p)'
    BY <1>11, <1>12 DEF Counted
  <2>2. exit'[p] # Success
    BY <1>7 DEF Missing, Success
  <2> QED
    BY <1>7, <1>13, <2>1, <2>2 DEF Counted
<1> QED
  BY <1>6, <1>8, <1>9, <1>10, <1>14

(* What a step of a process keeps of its own.                               *)
BusinessOK(p) == Typed' /\ Meet' /\ InPlace(p)' /\ Counted(p)' /\ Alone(p)'

(* The values of the variables, in two parts: a step proves each by         *)
(* itself.                                                                  *)
LEMMA TypedPartsNext == Typed' <=> Kept' /\ present' \in BOOLEAN /\ FilesMade'
BY DEF Typed, Kept, FilesMade

(* A source that is not a directory is one of the sources, and what stays  *)
(* of it in the directory is made of sources of its stem.                  *)
LEMMA AtWork ==
  ASSUME BuildInv, NEW p \in Procs
  PROVE  /\ Busy(p) \/ pc[p] = "opening" =>
              left[p] # <<>> /\ Now(p) \in DOMAIN Stem /\ At(p) \in Stems
         /\ left[p] # <<>> /\ ~IsDirectory(p) => Now(p) \in DOMAIN Stem /\ At(p) \in Stems
         /\ pc[p] # "done" => exit[p] = Missing
         /\ left[p] \in Seq(Given) /\ order[p].kind \in Kinds
<1>1. left[p] \in Seq(Given) /\ order[p] \in Orders
  BY DEF BuildInv, Typed
<1>2. left[p] # <<>> => Now(p) \in Given
  BY <1>1, HeadTailProperties DEF Now
<1>3. Now(p) \in DOMAIN Stem => At(p) \in Stems
  BY DEF At, Stems
<1>4. order[p].kind \in Kinds
  BY <1>1 DEF BuildInv, BuildConstants, Kinds
<1> QED
  BY <1>1, <1>2, <1>3, <1>4 DEF BuildInv, InPlace, Given, IsDirectory

(* What comes of a source is an outcome, and the three outcomes of the      *)
(* commands differ.                                                         *)
LEMMA SaysAreOutcomes ==
  ASSUME BuildConstants
  PROVE  /\ \A f \in DOMAIN Stem : Says[f] \in Outcomes /\ Says[f] # Missing
         /\ {Failure, Missing, Success} \subseteq Outcomes
         /\ Failure # Missing /\ Success # Missing /\ Success # Failure
BY DEF BuildConstants, Outcomes, Failure, Missing, Success

(* A source that is through: rejected, not written, not linked, built or    *)
(* run.  What runs is the program of the source itself, or the process was  *)
(* raced.                                                                   *)
LEMMA ConcludeKeeps ==
  ASSUME BuildInv, NEW p \in Procs,
         \/ Rejects(p) \/ EmitsText(p) \/ NoObject(p) \/ EmitsObject(p)
         \/ LinkFails(p) \/ Builds(p) \/ Runs(p)
  PROVE  BusinessOK(p)
<1>1. /\ Typed /\ Meet /\ InPlace(p) /\ Counted(p) /\ Alone(p) /\ BuildConstants
  BY DEF BuildInv
<1>2. left[p] # <<>> /\ ~Makes(p) /\ pc[p] # "done" /\ Now(p) \in DOMAIN Stem
  BY AtWork DEF Rejects, EmitsText, NoObject, EmitsObject, LinkFails, Builds, Runs, Working,
     Makes, Busy
<1>3. FilesMade' /\ present' \in BOOLEAN
  BY <1>1 DEF Rejects, EmitsText, NoObject, EmitsObject, LinkFails, Builds, Runs, Files,
     Typed, FilesMade
<1>4. PICK outcome \in Outcomes :
        /\ Concludes(p, Verdict(p, outcome))
        /\ raced[p] \/ outcome \in {Failure, Missing, Says[Now(p)]}
        /\ order[p].kind = "run" => outcome # Missing
  <2>1. CASE Rejects(p) \/ NoObject(p) \/ LinkFails(p)
    BY <1>1, <2>1, SaysAreOutcomes DEF Rejects, NoObject, LinkFails
  <2>2. CASE EmitsText(p) \/ EmitsObject(p) \/ Builds(p)
    BY <1>1, <2>2, SaysAreOutcomes DEF EmitsText, EmitsObject, Builds
  <2>3. CASE Runs(p)
    <3> DEFINE there == executables[At(p)]
               outcome == IF Whole(there) THEN Says[there] ELSE Failure
    <3>1. pc[p] = "starting" /\ At(p) \in Stems /\ there \in Made(At(p))
      BY <1>1, <2>3, AtWork DEF Runs, Working, Busy, Typed
    <3>2. Whole(there) => there \in DOMAIN Stem
      BY <3>1 DEF Made, Whole
    <3>3. outcome \in Outcomes /\ outcome # Missing
      BY <1>1, <3>2, SaysAreOutcomes
    <3>4. ~raced[p] => there \in {Now(p), Missing}
      BY <1>1, <3>1 DEF Alone
    <3>5. raced[p] \/ outcome \in {Failure, Says[Now(p)]}
      BY <3>4 DEF Whole
    <3>6. Concludes(p, Verdict(p, outcome))
      BY <2>3 DEF Runs
    <3> QED
      BY <3>3, <3>5, <3>6
  <2> QED
    BY <2>1, <2>2, <2>3
<1>5. exit[p] = Missing
  BY <1>2, AtWork
<1>6. Kept' /\ ~Busy(p)' /\ InPlace(p)' /\ Counted(p)' /\ Alone(p)'
  BY <1>1, <1>2, <1>4, <1>5, Counts
<1>7. Meet'
  BY <1>1, <1>6, LeavingMeets DEF Step
<1> QED
  BY <1>3, <1>6, <1>7, TypedPartsNext DEF BusinessOK

(* A directory that cannot be listed ends the test, with a failure.         *)
LEMMA StopKeeps == ASSUME BuildInv, NEW p \in Procs, Stops(p) PROVE BusinessOK(p)
<1>1. /\ Typed /\ Meet /\ InPlace(p) /\ Counted(p) /\ Alone(p) /\ BuildConstants
  BY DEF BuildInv
<1>2. /\ pc' = [pc EXCEPT ![p] = "done"] /\ exit' = [exit EXCEPT ![p] = Failure]
      /\ UNCHANGED <<order, left, held, linked, verdicts, raced, present, objects, executables>>
      /\ pc[p] = "compiling"
  BY DEF Stops, Files, Working
<1>3. Kept' /\ present' \in BOOLEAN /\ FilesMade'
  BY <1>1, <1>2, SaysAreOutcomes DEF Typed, Kept, FilesMade, Places
<1>4. /\ pc'[p] = "done" /\ exit'[p] = Failure /\ left'[p] = left[p] /\ ~held'[p]
      /\ order'[p] = order[p] /\ verdicts'[p] = verdicts[p]
  BY <1>1, <1>2 DEF Typed, InPlace
<1>5. InPlace(p)' /\ ~Busy(p)'
  BY <1>1, <1>4, SaysAreOutcomes DEF InPlace, Busy, Makes
<1>6. Counted(p)'
  <2>1. Tried(p)' = Tried(p) /\ Pending(p)' = Pending(p)
    BY <1>4 DEF Tried, Pending
  <2> QED
    BY <1>1, <1>4, <2>1, SaysAreOutcomes DEF Counted
<1>7. Alone(p)'
  BY <1>4 DEF Alone
<1>8. Meet'
  BY <1>1, <1>5, LeavingMeets DEF Step
<1> QED
  BY <1>3, <1>5, <1>6, <1>7, <1>8, TypedPartsNext DEF BusinessOK

(* The sources of a directory take its place in what is left to try.        *)
LEMMA ListKeeps == ASSUME BuildInv, NEW p \in Procs, Lists(p) PROVE BusinessOK(p)
<1> DEFINE d == Now(p)
           new == Entries[d] \o Tail(left[p])
<1>1. /\ Typed /\ Meet /\ InPlace(p) /\ Counted(p) /\ Alone(p) /\ BuildConstants
  BY DEF BuildInv
<1>2. /\ left' = [left EXCEPT ![p] = new] /\ left[p] # <<>>
      /\ UNCHANGED <<order, pc, held, linked, verdicts, raced, exit, present, objects, executables>>
      /\ pc[p] = "compiling" /\ d \in DOMAIN Entries /\ Entries[d] # Unlisted
      /\ order[p].kind # "clean"
  BY DEF Lists, Files, Working, IsDirectory
<1>3. Entries[d] \in Seq(DOMAIN Stem) /\ Entries[d] \in Seq(Given)
  <2>1. Entries[d] \in Seq(DOMAIN Stem)
    BY <1>1, <1>2 DEF BuildConstants
  <2> QED
    BY <2>1, SeqMonotonic DEF Given
<1>4. left[p] \in Seq(Given) /\ Tail(left[p]) \in Seq(Given)
  BY <1>2, AtWork, HeadTailProperties
<1>5. /\ new \in Seq(Given)
      /\ \A k \in DOMAIN Entries[d] : k \in DOMAIN new /\ new[k] = Entries[d][k]
      /\ \A k \in DOMAIN Tail(left[p]) :
           \E j \in DOMAIN new : new[j] = Tail(left[p])[k]
  <2> DEFINE x == Entries[d]
             y == Tail(left[p])
  <2>1. x \in Seq(Given) /\ y \in Seq(Given)
    BY <1>3, <1>4
  <2> HIDE DEF x, y
  <2>2. /\ x \o y \in Seq(Given) /\ Len(x \o y) = Len(x) + Len(y)
        /\ \A i \in 1..Len(x) + Len(y) : (x \o y)[i] = IF i <= Len(x) THEN x[i] ELSE y[i - Len(x)]
    BY <2>1, ConcatProperties
  <2>3. /\ Len(x) \in Nat /\ Len(y) \in Nat /\ DOMAIN x = 1..Len(x) /\ DOMAIN y = 1..Len(y)
        /\ DOMAIN (x \o y) = 1..Len(x) + Len(y)
    BY <2>1, <2>2, LenProperties
  <2>4. \A k \in DOMAIN x : k \in DOMAIN (x \o y) /\ (x \o y)[k] = x[k]
    BY <2>2, <2>3
  <2>5. ASSUME NEW k \in DOMAIN y PROVE \E j \in DOMAIN (x \o y) : (x \o y)[j] = y[k]
    <3>1. /\ k + Len(x) \in 1..Len(x) + Len(y) /\ ~(k + Len(x) <= Len(x))
          /\ (k + Len(x)) - Len(x) = k
      BY <2>3
    <3> DEFINE j == k + Len(x)
    <3> HIDE DEF j
    <3>2. (x \o y)[j] = y[k] /\ j \in DOMAIN (x \o y)
      BY <2>2, <2>3, <3>1 DEF j
    <3> QED
      BY <3>2
  <2> QED
    BY <2>2, <2>4, <2>5 DEF x, y
<1> HIDE DEF new
<1>6. Kept' /\ present' \in BOOLEAN /\ FilesMade'
  BY <1>1, <1>2, <1>5 DEF Typed, Kept, FilesMade
<1>7. /\ pc'[p] = "compiling" /\ exit'[p] = exit[p] /\ left'[p] = new /\ ~held'[p]
      /\ order'[p] = order[p] /\ verdicts'[p] = verdicts[p]
  BY <1>1, <1>2 DEF Typed, InPlace
<1>8. order[p].kind = "test"
  <2>1. left[p] \in Seq(Given)
    BY <1>4
  <2>2. 1 \in DOMAIN left[p] /\ left[p][1] = d
    BY <1>2, <2>1, EmptySeq, LenProperties DEF Now
  <2>3. d \notin DOMAIN Stem
    BY <1>1, <1>2 DEF BuildConstants
  <2> QED
    BY <1>1, <1>2, <2>2, <2>3 DEF InPlace
<1>9. InPlace(p)' /\ ~Busy(p)'
  BY <1>1, <1>2, <1>7, <1>8 DEF InPlace, Busy, Makes
<1>10. Counted(p)'
  <2>1. Tried(p)' = Tried(p) /\ Pending(p)' = UNION {SourcesIn(new[k]) : k \in DOMAIN new}
    BY <1>7 DEF Tried, Pending
  <2>2. SourcesIn(d) \subseteq Pending(p)'
    <3>1. ASSUME NEW f \in SourcesIn(d) PROVE f \in Pending(p)'
      <4>1. PICK k \in DOMAIN Entries[d] : f = Entries[d][k]
        BY <1>2, <3>1 DEF SourcesIn
      <4>2. f \in DOMAIN Stem
        BY <1>3, <4>1, ElementOfSeq, LenProperties
      <4>3. SourcesIn(f) = {f}
        BY <1>1, <4>2 DEF SourcesIn, BuildConstants
      <4> QED
        BY <1>5, <2>1, <4>1, <4>3
    <3> QED
      BY <3>1
  <2>3. Rest(p) \subseteq Pending(p)'
    BY <1>5, <2>1 DEF Rest
  <2>4. Pending(p) \subseteq Pending(p)'
    BY <1>1, <1>2, <2>2, <2>3, FirstAndRest
  <2>5. exit'[p] = Missing
    BY <1>2, <1>7, AtWork
  <2> QED
    BY <1>1, <1>7, <2>1, <2>4, <2>5, SaysAreOutcomes DEF Counted
<1>11. Alone(p)'
  BY <1>7 DEF Alone
<1>12. Meet'
  BY <1>1, <1>9, LeavingMeets DEF Step
<1> QED
  BY <1>6, <1>9, <1>10, <1>11, <1>12, TypedPartsNext DEF BusinessOK

(* A process that is still at it keeps what it has counted.                *)
LEMMA StillCounted ==
  ASSUME BuildInv, NEW p \in Procs,
         order'[p] = order[p], left'[p] = left[p], verdicts'[p] = verdicts[p],
         exit'[p] # Success \/ order[p].kind # "test"
  PROVE  Counted(p)'
<1>1. Tried(p)' = Tried(p) /\ Pending(p)' = Pending(p)
  BY DEF Tried, Pending
<1> QED
  BY <1>1 DEF BuildInv, Counted

(* A process that goes somewhere is there, and stays raced if it was.       *)
LEMMA GoRaces ==
  ASSUME Typed, NEW p \in Procs, NEW to \in Places, Goes(p, to)
  PROVE  /\ pc' \in [Procs -> Places] /\ raced' \in [Procs -> BOOLEAN] /\ pc'[p] = to
         /\ raced[p] => raced'[p]
BY DEF Typed, Goes

(* create_dir_all keeps the invariant.                                      *)
LEMMA DirectoryKeeps ==
  ASSUME BuildInv, NEW p \in Procs, MakesDirectory(p) PROVE BusinessOK(p)
<1>1. /\ Typed /\ Meet /\ InPlace(p) /\ Counted(p) /\ BuildConstants
  BY DEF BuildInv
<1>2. /\ Goes(p, "opening") /\ present' = TRUE /\ pc[p] = "compiling" /\ left[p] # <<>>
      /\ UNCHANGED <<order, held, linked, exit, left, verdicts, objects, executables>>
      /\ order[p].kind # "clean" /\ ~IsDirectory(p)
  BY DEF MakesDirectory, Quiet, Working
<1>3. /\ pc' \in [Procs -> Places] /\ raced' \in [Procs -> BOOLEAN] /\ pc'[p] = "opening"
  BY <1>1, <1>2, GoRaces DEF Places
<1>4. Kept' /\ present' \in BOOLEAN /\ FilesMade'
  BY <1>1, <1>2, <1>3 DEF Typed, Kept, FilesMade
<1>5. exit[p] = Missing /\ Now(p) \in DOMAIN Stem /\ Now(p)' = Now(p)
  BY <1>2, AtWork DEF Now
<1>6. InPlace(p)' /\ Alone(p)'
  BY <1>1, <1>2, <1>3, <1>5 DEF InPlace, Busy, Makes, Alone
<1>7. Counted(p)'
  BY <1>2, <1>5, StillCounted, SaysAreOutcomes, <1>1
<1>8. Meet'
  BY <1>1, <1>2, GoingMeets DEF Step
<1> QED
  BY <1>4, <1>6, <1>7, <1>8, TypedPartsNext DEF BusinessOK

(* The object that has just been emptied is held by its writer.             *)
LEMMA OpenKeeps ==
  ASSUME BuildInv, NEW p \in Procs, OpensObject(p) PROVE BusinessOK(p)
<1>1. /\ Typed /\ Meet /\ InPlace(p) /\ Counted(p) /\ BuildConstants
  BY DEF BuildInv
<1>2. /\ Goes(p, "filling") /\ pc[p] = "opening" /\ left[p] # <<>> /\ order[p].kind # "mir"
      /\ UNCHANGED <<order, linked, exit, left, verdicts, present, executables>>
      /\ objects' = [objects EXCEPT ![At(p)] = Torn]
      /\ held' = [held EXCEPT ![p] = TRUE]
  BY DEF OpensObject, Working
<1>3. /\ pc' \in [Procs -> Places] /\ raced' \in [Procs -> BOOLEAN] /\ pc'[p] = "filling"
  BY <1>1, <1>2, GoRaces DEF Places
<1>4. Kept' /\ present' \in BOOLEAN /\ FilesMade'
  BY <1>1, <1>2, <1>3 DEF Typed, Kept, FilesMade, Made
<1>5. exit[p] = Missing /\ Now(p) \in DOMAIN Stem /\ Now(p)' = Now(p) /\ held'[p]
  BY <1>1, <1>2, AtWork DEF Now, Typed
<1>6. InPlace(p)' /\ Alone(p)'
  BY <1>1, <1>2, <1>3, <1>5 DEF InPlace, Busy, Makes, Alone
<1>7. Counted(p)'
  BY <1>2, <1>5, StillCounted, SaysAreOutcomes, <1>1
<1>8. Meet'
  BY <1>1, <1>2, GoingMeets DEF Step
<1> QED
  BY <1>4, <1>6, <1>7, <1>8, TypedPartsNext DEF BusinessOK

(* The object that is written is that of the source, unless two wrote it.   *)
LEMMA FillKeeps ==
  ASSUME BuildInv, NEW p \in Procs, FillsObject(p) PROVE BusinessOK(p)
<1>1. /\ Typed /\ Meet /\ InPlace(p) /\ Counted(p) /\ Alone(p) /\ BuildConstants
  BY DEF BuildInv
<1>2. /\ Goes(p, "linking") /\ pc[p] = "filling" /\ left[p] # <<>>
      /\ UNCHANGED <<order, linked, exit, left, verdicts, present, executables>>
      /\ held' = [held EXCEPT ![p] = FALSE]
      /\ \/ held[p] /\ objects' = [objects EXCEPT ![At(p)] = Now(p)]
         \/ /\ held[p] => raced[p]
            /\ objects' = [objects EXCEPT ![At(p)] = IF held[p] THEN Torn ELSE objects[At(p)]]
  BY DEF FillsObject, Working
<1>3. /\ pc' \in [Procs -> Places] /\ raced' \in [Procs -> BOOLEAN] /\ pc'[p] = "linking"
      /\ raced[p] => raced'[p]
  BY <1>1, <1>2, GoRaces DEF Places
<1>4. /\ exit[p] = Missing /\ Now(p) \in DOMAIN Stem /\ Now(p)' = Now(p) /\ ~held'[p]
      /\ At(p)' = At(p) /\ At(p) \in Stems /\ Now(p) \in Made(At(p))
  BY <1>1, <1>2, AtWork DEF Now, At, Typed, Busy, Made
<1>5. Kept' /\ present' \in BOOLEAN /\ FilesMade'
  <2>1. Kept' /\ present' \in BOOLEAN
    BY <1>1, <1>2, <1>3 DEF Typed, Kept
  <2>2. \E c \in Made(At(p)) : objects' = [objects EXCEPT ![At(p)] = c]
    BY <1>1, <1>2, <1>4 DEF Typed, Made
  <2> QED
    BY <1>1, <1>2, <2>1, <2>2 DEF Typed, FilesMade
<1>6. Alone(p)'
  <2>1. ~raced'[p] => objects'[At(p)] \in {Now(p), Missing}
    BY <1>1, <1>2, <1>3, <1>4 DEF Alone, Typed
  <2> QED
    BY <1>3, <1>4, <2>1 DEF Alone
<1>7. InPlace(p)'
  BY <1>1, <1>2, <1>3, <1>4 DEF InPlace, Busy, Makes
<1>8. Counted(p)'
  BY <1>2, <1>4, StillCounted, SaysAreOutcomes, <1>1
<1>9. Meet'
  BY <1>1, <1>2, GoingMeets DEF Step
<1> QED
  BY <1>5, <1>6, <1>7, <1>8, <1>9, TypedPartsNext DEF BusinessOK

(* What the linker has read, while nobody met the process, is the object    *)
(* of the source.                                                           *)
LEMMA LinkKeeps ==
  ASSUME BuildInv, NEW p \in Procs, Links(p) PROVE BusinessOK(p)
<1>1. /\ Typed /\ Meet /\ InPlace(p) /\ Counted(p) /\ Alone(p) /\ BuildConstants
  BY DEF BuildInv
<1>2. /\ Goes(p, "making") /\ pc[p] = "linking" /\ left[p] # <<>> /\ order[p].kind # "obj"
      /\ UNCHANGED <<order, left, verdicts, exit, present, objects>>
      /\ Whole(objects[At(p)])
      /\ linked' = [linked EXCEPT ![p] = objects[At(p)]]
      /\ executables' = [executables EXCEPT ![At(p)] = Torn]
      /\ held' = [q \in Procs |-> q = p \/ (held[q] /\ ~(Makes(q) /\ At(q) = At(p)))]
  BY DEF Links, Working
<1>3. /\ pc' \in [Procs -> Places] /\ raced' \in [Procs -> BOOLEAN] /\ pc'[p] = "making"
      /\ raced[p] => raced'[p]
  BY <1>1, <1>2, GoRaces DEF Places
<1>4. /\ exit[p] = Missing /\ Now(p) \in DOMAIN Stem /\ Now(p)' = Now(p) /\ held'[p]
      /\ At(p)' = At(p) /\ At(p) \in Stems /\ objects[At(p)] \in Made(At(p))
  BY <1>1, <1>2, AtWork DEF Now, At, Typed, Busy
<1>5. Kept' /\ present' \in BOOLEAN /\ FilesMade'
  <2>1. objects[At(p)] \in DOMAIN Stem
    BY <1>2, <1>4 DEF Made, Whole
  <2>2. Kept'
    BY <1>1, <1>2, <1>3, <2>1 DEF Typed, Kept
  <2> QED
    BY <1>1, <1>2, <2>2 DEF Typed, FilesMade, Made
<1>6. linked'[p] = objects[At(p)]
  BY <1>1, <1>2 DEF Typed
<1>7. Alone(p)'
  BY <1>1, <1>2, <1>3, <1>4, <1>6 DEF Alone, Whole
<1>8. InPlace(p)'
  <2>1. (Makes(p) => linked[p] \in Made(At(p)))'
    BY <1>4, <1>6 DEF Made, Makes
  <2> QED
    BY <1>1, <1>2, <1>3, <1>4, <2>1 DEF InPlace, Busy
<1>9. Counted(p)'
  BY <1>2, <1>4, StillCounted, SaysAreOutcomes, <1>1
<1>10. Meet'
  BY <1>1, <1>2, GoingMeets DEF Step
<1> QED
  BY <1>5, <1>7, <1>8, <1>9, <1>10, TypedPartsNext DEF BusinessOK

(* The executable is made of what was linked, or is left without a name.    *)
LEMMA FinishKeeps ==
  ASSUME BuildInv, NEW p \in Procs, FinishesLink(p) PROVE BusinessOK(p)
<1> DEFINE to == IF pc[p] = "making" THEN "starting" ELSE "killed"
<1>1. /\ Typed /\ Meet /\ InPlace(p) /\ Counted(p) /\ Alone(p) /\ BuildConstants
  BY DEF BuildInv
<1>2. /\ Goes(p, to) /\ pc[p] \in {"making", "orphaned"}
      /\ UNCHANGED <<order, left, linked, verdicts, exit, present, objects>>
      /\ executables' = [executables EXCEPT
                           ![At(p)] = IF held[p] THEN linked[p] ELSE executables[At(p)]]
      /\ held' = [held EXCEPT ![p] = FALSE]
  BY DEF FinishesLink, Makes
<1>3. /\ pc' \in [Procs -> Places] /\ raced' \in [Procs -> BOOLEAN] /\ pc'[p] = to
      /\ raced[p] => raced'[p]
  BY <1>1, <1>2, GoRaces DEF Places
<1>4. /\ exit[p] = Missing /\ Now(p) \in DOMAIN Stem /\ Now(p)' = Now(p) /\ ~held'[p]
      /\ At(p)' = At(p) /\ At(p) \in Stems /\ linked[p] \in Made(At(p)) /\ left[p] # <<>>
  BY <1>1, <1>2, AtWork DEF Now, At, Typed, Busy, InPlace, Makes
<1>5. Kept' /\ present' \in BOOLEAN /\ FilesMade'
  <2>1. Kept'
    BY <1>1, <1>2, <1>3 DEF Typed, Kept
  <2>2. \E c \in Made(At(p)) : executables' = [executables EXCEPT ![At(p)] = c]
    BY <1>1, <1>2, <1>4 DEF Typed
  <2> QED
    BY <1>1, <1>2, <2>1, <2>2 DEF Typed, FilesMade
<1>6. Alone(p)'
  <2>1. ~raced'[p] /\ pc[p] = "making" => executables'[At(p)] \in {Now(p), Missing}
    BY <1>1, <1>2, <1>3, <1>4 DEF Alone, Typed
  <2> QED
    BY <1>2, <1>3, <1>4, <2>1 DEF Alone
<1>7. InPlace(p)'
  BY <1>1, <1>2, <1>3, <1>4 DEF InPlace, Busy, Makes
<1>8. Counted(p)'
  BY <1>2, <1>4, StillCounted, SaysAreOutcomes, <1>1
<1>9. Meet'
  BY <1>1, <1>2, GoingMeets DEF Step
<1> QED
  BY <1>5, <1>6, <1>7, <1>8, <1>9, TypedPartsNext DEF BusinessOK

(* The exit of a test is a success only if nothing is left to try and all   *)
(* have passed.                                                             *)
LEMMA ExitKeeps ==
  ASSUME BuildInv, NEW p \in Procs, Exits(p) PROVE BusinessOK(p)
<1> DEFINE vs == verdicts[p]
           code == ExitCode(p)
<1>1. /\ Typed /\ Meet /\ InPlace(p) /\ Counted(p) /\ BuildConstants
  BY DEF BuildInv
<1>2. /\ \/ pc[p] = "exiting"
         \/ pc[p] = "compiling" /\ order[p].kind = "test" /\ left[p] = <<>>
      /\ exit' = [exit EXCEPT ![p] = code] /\ pc' = [pc EXCEPT ![p] = "done"]
      /\ UNCHANGED <<order, left, held, linked, verdicts, raced, present, objects, executables>>
  BY DEF Exits, Files
<1>3. left[p] = <<>> /\ (order[p].kind # "test" => vs # <<>>)
  BY <1>1, <1>2 DEF InPlace
<1>4. vs \in Seq(Verdicts)
  BY <1>1 DEF Typed
<1>5. vs # <<>> => Len(vs) \in DOMAIN vs /\ vs[Len(vs)] \in Verdicts
  <2>1. vs # <<>> => Len(vs) \in 1..Len(vs)
    BY <1>4, EmptySeq
  <2> QED
    BY <1>4, <2>1, LenProperties, ElementOfSeq
<1>6. code \in Outcomes /\ code # Missing
  <2>1. CASE order[p].kind = "test"
    BY <1>1, <2>1, SaysAreOutcomes DEF ExitCode
  <2>2. CASE order[p].kind = "run"
    BY <1>1, <1>3, <1>5, <2>2 DEF ExitCode, Counted, Verdicts
  <2>3. CASE order[p].kind \notin {"test", "run"}
    BY <1>1, <2>3, SaysAreOutcomes DEF ExitCode
  <2> QED
    BY <2>1, <2>2, <2>3
<1>7. order[p].kind = "test" /\ code = Success => Passed(p) = DOMAIN vs
  BY <1>1, SaysAreOutcomes DEF ExitCode
<1> HIDE DEF code
<1>8. Kept' /\ present' \in BOOLEAN /\ FilesMade'
  BY <1>1, <1>2, <1>6 DEF Typed, Kept, FilesMade, Places
<1>9. /\ pc'[p] = "done" /\ exit'[p] = code /\ left'[p] = left[p] /\ ~held'[p]
      /\ order'[p] = order[p] /\ verdicts'[p] = verdicts[p]
  BY <1>1, <1>2 DEF Typed, InPlace
<1>10. InPlace(p)' /\ ~Busy(p)' /\ Alone(p)'
  BY <1>1, <1>3, <1>6, <1>9 DEF InPlace, Busy, Makes, Alone
<1>11. Counted(p)'
  <2>1. Tried(p)' = Tried(p) /\ Pending(p)' = Pending(p) /\ Passed(p)' = Passed(p)
    BY <1>9 DEF Tried, Pending, Passed
  <2> QED
    BY <1>1, <1>3, <1>7, <1>9, <2>1 DEF Counted
<1>12. Meet'
  BY <1>1, <1>10, LeavingMeets DEF Step
<1> QED
  BY <1>8, <1>10, <1>11, <1>12, TypedPartsNext DEF BusinessOK

(* clean takes the files of everybody, and a process that is killed leaves  *)
(* its own behind.                                                          *)
LEMMA CleanKeeps ==
  ASSUME BuildInv, NEW p \in Procs, Empties(p) \/ Cleans(p) \/ Killed(p)
  PROVE  BusinessOK(p)
<1>1. /\ Typed /\ Meet /\ InPlace(p) /\ Counted(p) /\ BuildConstants
  BY DEF BuildInv
<1>2. /\ UNCHANGED <<order, left, linked, verdicts, raced>>
      /\ \A q \in Procs : held'[q] => held[q]
      /\ held' \in [Procs -> BOOLEAN]
      /\ pc[p] # "done"
  BY <1>1 DEF Empties, Cleans, Killed, Ends, Typed, Files
<1>3. exit[p] = Missing
  BY <1>2, AtWork
<1>4. /\ \/ /\ pc'[p] = "emptied" /\ exit'[p] = Missing /\ ~held'[p]
            /\ order[p].kind = "clean"
         \/ pc'[p] = "done" /\ exit'[p] \in {Success, Failure} /\ ~held'[p]
         \/ pc'[p] = "killed" /\ exit'[p] = Missing /\ ~held'[p]
         \/ pc'[p] = "orphaned" /\ exit'[p] = Missing /\ Makes(p)
      /\ pc' \in [Procs -> Places] /\ exit' \in [Procs -> Outcomes]
  <2>1. CASE Empties(p)
    BY <1>1, <1>3, <2>1 DEF Empties, Typed, Places
  <2>2. CASE Cleans(p)
    BY <1>1, <2>2, SaysAreOutcomes DEF Cleans, Typed, Places, InPlace
  <2>3. CASE Killed(p)
    BY <1>1, <1>3, <2>3 DEF Killed, Typed, Places, Files
  <2> QED
    BY <2>1, <2>2, <2>3
<1>5. Kept'
  BY <1>1, <1>2, <1>4 DEF Typed, Kept
<1>6. present' \in BOOLEAN /\ FilesMade'
  <2>1. CASE Empties(p)
    BY <1>1, <2>1 DEF Empties, Typed, FilesMade, Made
  <2>2. CASE Cleans(p)
    BY <1>1, <2>2 DEF Cleans, Typed, FilesMade
  <2>3. CASE Killed(p)
    BY <1>1, <2>3 DEF Killed, Typed, FilesMade, Files
  <2> QED
    BY <2>1, <2>2, <2>3
<1>7. /\ order'[p] = order[p] /\ left'[p] = left[p] /\ linked'[p] = linked[p]
      /\ verdicts'[p] = verdicts[p] /\ At(p)' = At(p) /\ Now(p)' = Now(p)
  BY <1>2 DEF At, Now
<1>8. InPlace(p)'
  <2>1. CASE Makes(p)
    BY <1>1, <1>4, <1>7, <2>1, SaysAreOutcomes DEF InPlace, Busy, Makes, Made
  <2>2. CASE ~Makes(p)
    BY <1>1, <1>4, <1>7, <2>2, SaysAreOutcomes DEF InPlace, Busy, Makes
  <2> QED
    BY <2>1, <2>2
<1>9. Alone(p)'
  BY <1>4 DEF Alone
<1>10. Counted(p)'
  <2>1. exit'[p] # Success \/ order[p].kind # "test"
    <3>1. CASE Cleans(p)
      BY <1>1, <3>1 DEF Cleans, InPlace
    <3>2. CASE Empties(p) \/ Killed(p)
      BY <1>1, <1>3, <3>2, SaysAreOutcomes DEF Empties, Killed, Files
    <3> QED
      BY <3>1, <3>2
  <2> QED
    BY <1>7, <2>1, StillCounted
<1>11. Meet'
  <2>1. ~Busy(p)' \/ (Busy(p) /\ left' = left /\ raced' = raced)
    BY <1>2, <1>4 DEF Busy, Makes
  <2> QED
    BY <1>1, <2>1, LeavingMeets DEF Step
<1> QED
  BY <1>5, <1>6, <1>8, <1>9, <1>10, <1>11, TypedPartsNext DEF BusinessOK

(* The invariant holds before any process has started.                      *)
LEMMA InitBuilds == BuildConstants /\ BuildInit => BuildInv
<1> SUFFICES ASSUME BuildConstants, BuildInit PROVE BuildInv
  OBVIOUS
<1>1. /\ order \in [Procs -> Orders]
      /\ left = [p \in Procs |-> order[p].inputs]
      /\ pc = [p \in Procs |-> "compiling"] /\ held = [p \in Procs |-> FALSE]
      /\ linked = [p \in Procs |-> Missing] /\ verdicts = [p \in Procs |-> <<>>]
      /\ raced = [p \in Procs |-> FALSE] /\ exit = [p \in Procs |-> Missing]
      /\ present \in BOOLEAN
      /\ objects = [s \in Stems |-> Missing] /\ executables = [s \in Stems |-> Missing]
  BY DEF BuildInit
<1>2. ASSUME NEW p \in Procs
      PROVE  /\ order[p].inputs \in Seq(Given)
             /\ order[p].kind \notin {"test", "clean"} =>
                  \A k \in DOMAIN order[p].inputs : order[p].inputs[k] \in DOMAIN Stem
  <2>1. CASE order[p].kind = "test"
    BY <1>1, <2>1 DEF BuildConstants, Given
  <2>2. CASE order[p].kind = "clean"
    BY <1>1, <2>2, EmptySeq DEF BuildConstants
  <2>3. CASE order[p].kind \notin {"test", "clean"}
    <3>1. PICK f \in DOMAIN Stem : order[p].inputs = <<f>>
      BY <1>1, <2>3 DEF BuildConstants
    <3>2. <<f>> \in Seq(Given) /\ DOMAIN <<f>> = {1} /\ <<f>>[1] = f
      BY DEF Given
    <3> QED
      BY <3>1, <3>2
  <2> QED
    BY <2>1, <2>2, <2>3
<1>3. Typed
  <2>1. left \in [Procs -> Seq(Given)]
    BY <1>1, <1>2
  <2>2. verdicts \in [Procs -> Seq(Verdicts)]
    BY <1>1, EmptySeq
  <2>3. exit \in [Procs -> Outcomes]
    BY <1>1, SaysAreOutcomes
  <2> QED
    BY <1>1, <2>1, <2>2, <2>3 DEF Typed, Places, Made
<1>4. Meet
  BY <1>1 DEF Meet, Busy
<1>5. ASSUME NEW p \in Procs PROVE InPlace(p) /\ Counted(p) /\ Alone(p)
  <2>1. InPlace(p)
    BY <1>1, <1>2 DEF InPlace, Busy, Makes
  <2>2. Alone(p)
    BY <1>1 DEF Alone
  <2>3. Pending(p) = UNION {SourcesIn(order[p].inputs[n]) : n \in DOMAIN order[p].inputs}
    BY <1>1 DEF Pending
  <2>4. verdicts[p] = <<>> /\ exit[p] # Success
    BY <1>1, SaysAreOutcomes
  <2>5. DOMAIN verdicts[p] = {}
    BY <2>4
  <2> QED
    BY <2>1, <2>2, <2>3, <2>4, <2>5 DEF Counted
<1> QED
  BY <1>3, <1>4, <1>5 DEF BuildInv

(* Every step of every process keeps the invariant.                         *)
LEMMA BuildStep == BuildInv /\ [BuildNext]_buildVars => BuildInv'
<1> SUFFICES ASSUME BuildInv, [BuildNext]_buildVars PROVE BuildInv'
  OBVIOUS
<1>1. CASE UNCHANGED buildVars
  <2>1. ASSUME NEW p \in Procs
        PROVE  InPlace(p)' /\ Counted(p)' /\ Alone(p)'
    <3>1. Tried(p)' = Tried(p) /\ Pending(p)' = Pending(p) /\ Passed(p)' = Passed(p)
      BY <1>1 DEF buildVars, Tried, Pending, Passed
    <3> QED
      BY <1>1, <3>1 DEF buildVars, BuildInv, InPlace, Counted, Alone, Busy, Makes, Now, At, Made
  <2>2. Typed' /\ Meet'
    BY <1>1 DEF buildVars, BuildInv, Typed, Meet, Busy, Now, At, Made
  <2> QED
    BY <2>1, <2>2 DEF BuildInv
<1>2. ASSUME NEW p \in Procs, Step(p) PROVE BuildInv'
  <2>1. BusinessOK(p)
    BY <1>2, ConcludeKeeps, StopKeeps, ListKeeps, DirectoryKeeps, OpenKeeps, FillKeeps,
       LinkKeeps, FinishKeeps, ExitKeeps, CleanKeeps DEF Step
  <2>2. ASSUME NEW q \in Procs, q # p PROVE InPlace(q)' /\ Counted(q)' /\ Alone(q)'
    BY <1>2, <2>2, OneMoves, OthersInPlace, OthersCounted, OthersAlone DEF BuildInv
  <2> QED
    BY <2>1, <2>2 DEF BuildInv, BusinessOK
<1> QED
  BY <1>1, <1>2 DEF BuildNext, Step

(* Whatever is in build/debug was made of a source of its stem, and a       *)
(* process that is through has an exit, whatever processes write, clean     *)
(* and are killed there.                                                    *)
THEOREM BuildFilesTyped == BuildConstants /\ BuildSpec => []BuildTypeOK
<1>1. BuildInv => BuildTypeOK
  <2> SUFFICES ASSUME BuildInv PROVE BuildTypeOK
    OBVIOUS
  <2>1. \A p \in Procs : \A n \in DOMAIN verdicts[p] : verdicts[p][n].outcome \in Outcomes
    <3>1. \A p \in Procs : \A n \in DOMAIN verdicts[p] : verdicts[p][n] \in Verdicts
      BY ElementOfSeq, LenProperties DEF BuildInv, Typed
    <3> QED
      BY <3>1 DEF Verdicts
  <2> QED
    BY <2>1 DEF BuildTypeOK, BuildInv, Typed, InPlace, Made
<1> QED
  BY InitBuilds, BuildStep, <1>1, PTL DEF BuildSpec

(* The program of a source is what its verdict is about, unless another     *)
(* process was at work on its stem, and a test ends well only if all of     *)
(* its sources were tried.                                                  *)
THEOREM VerdictsAreOfTheFiles == BuildConstants /\ BuildSpec => []VerdictIsOfTheFile
<1>1. BuildInv => VerdictIsOfTheFile
  <2> SUFFICES ASSUME BuildInv, NEW p \in Procs
               PROVE  /\ \A n \in DOMAIN verdicts[p] :
                           LET v == verdicts[p][n]
                           IN  v.raced \/ v.outcome \in {Failure, Missing, Says[v.file]}
                      /\ order[p].kind = "test" /\ exit[p] = Success =>
                           /\ \A n \in DOMAIN order[p].inputs :
                                SourcesIn(order[p].inputs[n]) \subseteq Tried(p)
                           /\ \A n \in DOMAIN verdicts[p] :
                                verdicts[p][n].raced \/ Says[verdicts[p][n].file] = Success
    BY DEF VerdictIsOfTheFile
  <2>1. Counted(p) /\ BuildConstants
    BY DEF BuildInv
  <2>2. ASSUME order[p].kind = "test", exit[p] = Success
        PROVE  /\ \A n \in DOMAIN order[p].inputs : SourcesIn(order[p].inputs[n]) \subseteq Tried(p)
               /\ \A n \in DOMAIN verdicts[p] :
                    verdicts[p][n].raced \/ Says[verdicts[p][n].file] = Success
    <3>1. left[p] = <<>> /\ Passed(p) = DOMAIN verdicts[p]
      BY <2>1, <2>2 DEF Counted
    <3>2. Pending(p) = {}
      BY <3>1 DEF Pending
    <3>3. \A n \in DOMAIN verdicts[p] : verdicts[p][n].outcome = Success
      BY <3>1 DEF Passed
    <3> QED
      BY <2>1, <3>2, <3>3, SaysAreOutcomes DEF Counted
  <2> QED
    BY <2>1, <2>2 DEF Counted
<1> QED
  BY InitBuilds, BuildStep, <1>1, PTL DEF BuildSpec
=============================================================================
