----------------------------- MODULE ModuleLoader -----------------------------
(***************************************************************************)
(* The front of the driver (src/driver_pipeline/mod.rs): load_and_parse    *)
(* follows the imports of the input files, stdlib files through a LIFO     *)
(* work queue and `.mav` contracts immediately, a contract queueing its    *)
(* #source files; then every loaded module is resolved, in load order,     *)
(* into one table of definitions (src/resolve/mod.rs), where a contract's  *)
(* declaration and its implementation are matched by name.                 *)
(*                                                                         *)
(* A path is a directory relative to Cwd, which may hold "..", a stem and  *)
(* an extension.  The disk maps absolute paths to what parsing their text  *)
(* yields: directives and declarations.                                    *)
(***************************************************************************)
EXTENDS Naturals, Sequences, Selection

CONSTANTS
  Cwd,      \* the absolute directory the compiler runs in
  Disks,    \* the file systems considered
  InputLists, \* the command lines considered, sequences of paths
  Names     \* the names that declarations give

\* What the parser makes of a file: imports, identities and sources, and
\* declarations.  Every file that can be read has a name.
Paths == [dir : Seq(STRING), stem : STRING, ext : STRING]
Directives ==
  [kind : {"import"}, segments : Seq(STRING)] \cup [kind : {"module"}, name : Seq(STRING)]
    \cup [kind : {"source"}, path : Paths]
Items == [kind : {"action", "contract", "shape"}, name : Names]

LoadConstants ==
  /\ InputLists \subseteq Seq(Paths)
  /\ \A files \in Disks : \A path \in DOMAIN files :
       /\ path \in Paths /\ path.stem # ""
       /\ files[path] \in [readable : BOOLEAN, directives : Seq(Directives),
                           items : Seq(Items)]

VARIABLES
  disk,        \* the file system, which nothing here changes
  queue,       \* load_and_parse's work queue of [path, dir]; popped at its end
  loadedNames, \* import keys already followed or declared by a contract
  loadedFiles, \* canonical paths already read
  current,     \* the file being parsed and the directives still to follow
  map,         \* the SourceMap: paths in the order they were loaded
  modules,     \* the parsed modules in the order they were pushed
  diags,       \* the errors reported
  contracts,   \* the paths load_module_contract read
  phase,       \* "load", "resolve", "accepted" or "rejected"
  toResolve,   \* the declarations resolve_item has still to see
  isContract   \* defs: DefInfo.is_contract of each name defined so far

loadVars == <<queue, loadedNames, loadedFiles, current, map, modules, diags,
              contracts>>
vars == <<disk, loadVars, phase, toResolve, isContract>>
------------------------------------------------------------------------------
Path(dir, stem, ext) == [dir |-> dir, stem |-> stem, ext |-> ext]
Job(path, dir) == [path |-> path, dir |-> dir]
NoFile == [job |-> Job(Path(<<>>, "", ""), <<>>), left |-> <<>>]
Idle == current = NoFile

\* canonicalize: the absolute path with its ".." components resolved.
Enter(dir, component) ==
  IF component = ".." THEN Seqs!Front(dir) ELSE Append(dir, component)
Canonical(path) == [path EXCEPT !.dir = Seqs!FoldLeft(Enter, Cwd, path.dir)]

Exists(path) == Canonical(path) \in DOMAIN disk
Readable(path) == Exists(path) /\ disk[Canonical(path)].readable
Parsed(path) == disk[Canonical(path)]

\* import_to_module_name: the first two segments of the import.
Key(segments) == SubSeq(segments, 1, IF Len(segments) > 2 THEN 2 ELSE Len(segments))

\* resolve_stdlib_import's candidates, of which the first existing is taken.
StdlibCandidates(segments) ==
  LET dir == Seqs!Front(segments)
  IN  << Path(<<"stdlib">> \o dir, Seqs!Last(segments), "av"),
         Path(<<"std">> \o dir, Seqs!Last(segments), "av"),
         Path(dir, Seqs!Last(segments), "av") >>

\* resolve_user_module: beside the importer, else in src/.
ContractCandidates(segments, dir) ==
  << Path(dir, Seqs!Last(segments), "mav"),
     Path(<<"src">>, Seqs!Last(segments), "mav") >>

Found(candidates) == {n \in DOMAIN candidates : Exists(candidates[n])}
First(candidates) ==
  candidates[CHOOSE n \in Found(candidates) : \A m \in Found(candidates) : n <= m]

\* normalize_source_path: joined to the contract's directory, and stripped of
\* every ".." of the result.
SourcePath(dir, source) ==
  LET joined == dir \o source.dir
  IN  [source EXCEPT !.dir = Only(joined, Seqs!ToSet(joined) \ {".."})]

Sources(contract) ==
  LET all == Parsed(contract).directives
  IN  Only(all, {d \in Seqs!ToSet(all) : d.kind = "source"})
Identities(contract) ==
  { Key(d.name) : d \in { e \in Seqs!ToSet(Parsed(contract).directives) :
                            e.kind = "module" } }
LegacyExtensions == {"cgr", "mgr", "hgr", "hav"}

\* A diagnostic and the path or name it is about.
Diag(kind, about) == [kind |-> kind, about |-> about]
------------------------------------------------------------------------------
LdInit ==
  /\ disk \in Disks
  /\ \E inputs \in InputLists :
       queue = [i \in DOMAIN inputs |-> Job(inputs[i], inputs[i].dir)]
  /\ loadedNames = {} /\ loadedFiles = {} /\ contracts = {}
  /\ current = NoFile
  /\ map = <<>> /\ modules = <<>> /\ diags = {}
  /\ phase = "load"
  /\ toResolve = <<>>
  /\ isContract = <<>>

Popping == phase = "load" /\ Idle /\ queue # <<>>
Top == Seqs!Last(queue)
NotResolving == UNCHANGED <<disk, phase, toResolve, isContract>>

\* A file of a retired extension is reported and not parsed; it is loaded, so
\* that the diagnostic has a file to point at, when it can be read.
PopLegacy ==
  /\ Popping /\ Top.path.ext \in LegacyExtensions
  /\ queue' = Seqs!Front(queue)
  /\ map' = IF Readable(Top.path) THEN Append(map, Top.path) ELSE map
  /\ diags' = diags \cup {Diag("ELegacyExtension", Top.path)}
  /\ UNCHANGED <<loadedNames, loadedFiles, current, modules, contracts>>
  /\ NotResolving

MutAnyExtension(path) ==
  \A f \in loadedFiles : <<f.dir, f.stem>> # <<Canonical(path).dir, path.stem>>
Fresh(path) == Canonical(path) \notin loadedFiles

PopLoaded ==
  /\ Popping /\ Top.path.ext \notin LegacyExtensions
  /\ ~Fresh(Top.path)
  /\ queue' = Seqs!Front(queue)
  /\ UNCHANGED <<loadedNames, loadedFiles, current, map, modules, diags,
                 contracts>>
  /\ NotResolving

PopUnreadable ==
  /\ Popping /\ Top.path.ext \notin LegacyExtensions
  /\ Fresh(Top.path) /\ ~Readable(Top.path)
  /\ queue' = Seqs!Front(queue)
  /\ diags' = diags \cup {Diag("EMissingModule", Top.path)}
  /\ UNCHANGED <<loadedNames, loadedFiles, current, map, modules, contracts>>
  /\ NotResolving

\* The file is read and parsed; its directives are then followed one by one.
PopFile ==
  /\ Popping /\ Top.path.ext \notin LegacyExtensions
  /\ Fresh(Top.path) /\ Readable(Top.path)
  /\ queue' = Seqs!Front(queue)
  /\ loadedFiles' = loadedFiles \cup {Canonical(Top.path)}
  /\ map' = Append(map, Top.path)
  /\ current' = [job |-> Top, left |-> Parsed(Top.path).directives]
  /\ UNCHANGED <<loadedNames, modules, diags, contracts>>
  /\ NotResolving

Following == phase = "load" /\ ~Idle /\ current.left # <<>>
Directive == Head(current.left)
NextDirective == current' = [current EXCEPT !.left = Tail(@)]

\* Only imports under a key not seen before are followed.
Follows(d) == d.kind = "import" /\ Key(d.segments) \notin loadedNames

SkipDirective ==
  /\ Following /\ ~Follows(Directive)
  /\ NextDirective
  /\ UNCHANGED <<queue, loadedNames, loadedFiles, map, modules, diags,
                 contracts>>
  /\ NotResolving

FollowStdlib ==
  /\ Following /\ Follows(Directive)
  /\ LET candidates == StdlibCandidates(Directive.segments)
         file == First(candidates)
     IN  /\ Found(candidates) # {}
         /\ queue' = Append(queue, Job(file, file.dir))
  /\ loadedNames' = loadedNames \cup {Key(Directive.segments)}
  /\ NextDirective
  /\ UNCHANGED <<loadedFiles, map, modules, diags, contracts>>
  /\ NotResolving

\* load_module_contract of a file not yet read: it joins the modules at once,
\* its sources join the queue and its identities the followed keys.
MutForgetContract(mav) == UNCHANGED loadedFiles
MarkContract(mav) == loadedFiles' = loadedFiles \cup {Canonical(mav)}

ReadContract(mav) ==
  LET jobs == [i \in DOMAIN Sources(mav) |->
                 Job(SourcePath(mav.dir, Sources(mav)[i].path), mav.dir)]
  IN  /\ MarkContract(mav)
      /\ map' = Append(map, mav)
      /\ modules' = Append(modules, mav)
      /\ queue' = queue \o jobs
      /\ loadedNames' =
           loadedNames \cup {Key(Directive.segments)} \cup Identities(mav)
      /\ contracts' = contracts \cup {mav}
      /\ UNCHANGED diags

LeaveContract(mav) ==
  /\ loadedNames' = loadedNames \cup {Key(Directive.segments)}
  /\ diags' = IF Fresh(mav) THEN diags \cup {Diag("EMissingModule", mav)} ELSE diags
  /\ UNCHANGED <<queue, loadedFiles, map, modules, contracts>>

FollowContract ==
  /\ Following /\ Follows(Directive)
  /\ Found(StdlibCandidates(Directive.segments)) = {}
  /\ LET candidates == ContractCandidates(Directive.segments, current.job.dir)
         mav == First(candidates)
     IN  /\ Found(candidates) # {}
         /\ IF Fresh(mav) /\ Readable(mav) THEN ReadContract(mav) ELSE LeaveContract(mav)
  /\ NextDirective
  /\ NotResolving

\* The import's key is marked as followed though nothing was found.
FollowDangling ==
  /\ Following /\ Follows(Directive)
  /\ Found(StdlibCandidates(Directive.segments)) = {}
  /\ Found(ContractCandidates(Directive.segments, current.job.dir)) = {}
  /\ loadedNames' = loadedNames \cup {Key(Directive.segments)}
  /\ NextDirective
  /\ UNCHANGED <<queue, loadedFiles, map, modules, diags, contracts>>
  /\ NotResolving

\* The file itself is pushed after every contract its imports loaded.
PushModule ==
  /\ phase = "load" /\ ~Idle /\ current.left = <<>>
  /\ modules' = Append(modules, current.job.path)
  /\ current' = NoFile
  /\ UNCHANGED <<queue, loadedNames, loadedFiles, map, diags, contracts>>
  /\ NotResolving

\* check and build stop when loading reported an error, and resolve otherwise.
Loaded ==
  /\ phase = "load" /\ Idle /\ queue = <<>>
  /\ phase' = IF diags = {} THEN "resolve" ELSE "rejected"
  /\ toResolve' = Seqs!FlattenSeq([i \in DOMAIN modules |-> Parsed(modules[i]).items])
  /\ UNCHANGED <<disk, loadVars, isContract>>
------------------------------------------------------------------------------
\* resolve_item.  A declaration is a shape, or an action with a body
\* ("action") or without ("contract").
Item == Head(toResolve)
Defined(name) == name \in DOMAIN isContract
Bodyless(item) == item.kind = "contract"

Define ==
  /\ phase = "resolve" /\ toResolve # <<>> /\ ~Defined(Item.name)
  /\ isContract' = [n \in DOMAIN isContract \cup {Item.name} |->
                      IF n = Item.name THEN Bodyless(Item) ELSE isContract[n]]
  /\ toResolve' = Tail(toResolve)
  /\ UNCHANGED <<disk, loadVars, phase>>

\* An action is matched with a definition of its name when exactly one of the
\* two is a contract; the definition then counts as implemented.
MutEitherContract(item) ==
  /\ item.kind # "shape"
  /\ (isContract[item.name] \/ ~Bodyless(item))
MatchesDefinition(item) ==
  /\ item.kind # "shape"
  /\ isContract[item.name] # Bodyless(item)

Match ==
  /\ phase = "resolve" /\ toResolve # <<>> /\ Defined(Item.name)
  /\ MatchesDefinition(Item)
  /\ isContract' = [isContract EXCEPT ![Item.name] = FALSE]
  /\ toResolve' = Tail(toResolve)
  /\ UNCHANGED <<disk, loadVars, phase>>

\* Anything else of a name already defined is EDuplicate.
Clash ==
  /\ phase = "resolve" /\ toResolve # <<>> /\ Defined(Item.name)
  /\ ~MatchesDefinition(Item)
  /\ diags' = diags \cup {Diag("EDuplicate", Item.name)}
  /\ toResolve' = Tail(toResolve)
  /\ UNCHANGED <<disk, queue, loadedNames, loadedFiles, current, map, modules,
                 contracts, phase, isContract>>

Resolved ==
  /\ phase = "resolve" /\ toResolve = <<>>
  /\ phase' = IF diags = {} THEN "accepted" ELSE "rejected"
  /\ UNCHANGED <<disk, loadVars, toResolve, isContract>>

Load ==
  \/ PopLegacy \/ PopLoaded \/ PopUnreadable \/ PopFile
  \/ SkipDirective \/ FollowStdlib \/ FollowContract \/ FollowDangling
  \/ PushModule \/ Loaded
Resolve == Define \/ Match \/ Clash \/ Resolved
LdNext == Load \/ Resolve
LdSpec == LdInit /\ [][LdNext]_vars
------------------------------------------------------------------------------
Finished == phase \in {"resolve", "accepted", "rejected"}
Declared == Seqs!FlattenSeq([i \in DOMAIN modules |-> Parsed(modules[i]).items])
Declarations(name, kinds) ==
  { i \in DOMAIN Declared : Declared[i].name = name /\ Declared[i].kind \in kinds }
AtMostOne(S) == \A x, y \in S : x = y

\* What the loader has read exists, only a file being parsed has been
\* read without having become a module, and loading ends with nothing pending.
LdTypeOK ==
  /\ loadedFiles \subseteq DOMAIN disk
  /\ phase \in {"load", "resolve", "accepted", "rejected"}
  /\ phase # "load" => Idle /\ queue = <<>>
  /\ isContract \in [DOMAIN isContract -> BOOLEAN]
  /\ DOMAIN isContract \subseteq Names
  /\ loadedFiles = {Canonical(modules[i]) : i \in DOMAIN modules}
                     \cup (IF Idle THEN {} ELSE {Canonical(current.job.path)})

\* No file is compiled twice, whether it is an input, an import, a source of
\* one or more contracts, or the same file by another path: twice would make
\* each of its actions a duplicate of itself.
NoFileTwice ==
  \A i, j \in DOMAIN modules :
    Canonical(modules[i]) = Canonical(modules[j]) => i = j

\* When loading ends, each #source of a contract that an import loaded is a
\* module or is reported: no part of a module is silently left out.
SourcesLoadedOrReported ==
  Finished =>
    \A mav \in contracts : \A i \in DOMAIN Sources(mav) :
      LET path == SourcePath(mav.dir, Sources(mav)[i].path)
      IN  \/ Canonical(path) \in loadedFiles
          \/ \E d \in diags : d.about = path

\* A program that resolves implements each name at most once, and the table
\* still calls a name a mere contract exactly when nothing implements it.
OneImplementation ==
  phase = "accepted" =>
    \A name \in DOMAIN isContract :
      /\ AtMostOne(Declarations(name, {"action", "shape"}))
      /\ isContract[name] <=> Declarations(name, {"action", "shape"}) = {}

\* tests/modules.rs:196 "Duplicate export fails.": a program that resolves
\* exports no action twice.  Fails when the implementation is loaded before
\* the contract: it answers every contract declaration that follows.
DuplicateExportsRejected ==
  phase = "accepted" =>
    \A name \in DOMAIN isContract : AtMostOne(Declarations(name, {"contract"}))
==============================================================================
