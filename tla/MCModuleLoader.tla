---------------------------- MODULE MCModuleLoader ----------------------------
(***************************************************************************)
(* Small projects in /w: a main file, two module contracts and their       *)
(* sources, which may import each other, and a stdlib file; built from     *)
(* every pair of inputs, files named through ".." and retired or missing   *)
(* ones included.                                                          *)
(***************************************************************************)
EXTENDS ModuleLoader

Root == <<"w">>
Contents(directives, items) ==
  [readable |-> TRUE, directives |-> directives, items |-> items]
Unreadable == [readable |-> FALSE, directives |-> <<>>, items |-> <<>>]
Import(segments) == [kind |-> "import", segments |-> segments]
Identity(name) == [kind |-> "module", name |-> name]
Source(path) == [kind |-> "source", path |-> path]
Decl(kind, name) == [kind |-> kind, name |-> name]

In(dir, stem, ext) == Path(Root \o dir, stem, ext)
AppM == Import(<<"app", "m">>)
AppK == Import(<<"app", "k">>)
StdIo == Import(<<"std", "io">>)
Sub(stem) == Source(Path(<<>>, stem, "av"))
Up(stem) == Source(Path(<<"..">>, stem, "av"))

MainImports == {<<AppM, StdIo>>, <<AppK, AppM>>, <<StdIo>>, <<AppM, AppM, AppK>>}
MSources == {<<Sub("m")>>, <<Sub("m"), Sub("k")>>, <<Up("m"), Sub("lost")>>}
KDirs == {<<>>, <<"src">>}
KItems == {<<Decl("action", "g")>>, <<Decl("action", "f")>>}
MExports == {<<Decl("contract", "f")>>,
             <<Decl("contract", "f"), Decl("contract", "f")>>,
             <<Decl("contract", "f"), Decl("shape", "g")>>}
MImports == {<<>>, <<AppK>>, <<StdIo, AppM>>}

Disk(main, sources, kdir, exports, kitems, imports, kmav) ==
  LET files == { [at |-> In(<<>>, "main", "av"),
                  is |-> Contents(main, <<Decl("action", "main")>>)],
                 [at |-> In(<<>>, "m", "mav"),
                  is |-> Contents(<<Identity(<<"app", "m">>)>> \o sources, exports)],
                 [at |-> In(<<>>, "m", "av"),
                  is |-> Contents(imports, <<Decl("action", "f")>>)],
                 [at |-> In(kdir, "k", "mav"), is |-> kmav],
                 [at |-> In(<<>>, "k", "av"), is |-> Contents(<<AppM>>, kitems)],
                 [at |-> In(<<"stdlib", "std">>, "io", "av"),
                  is |-> Contents(<<AppM>>, <<>>)],
                 [at |-> In(<<>>, "old", "cgr"), is |-> Contents(<<>>, <<>>)] }
  IN  [path \in {f.at : f \in files} |-> (CHOOSE f \in files : f.at = path).is]

KContract == Contents(<<Identity(<<"app", "k", "v">>), Sub("k")>>,
                      <<Decl("contract", "g")>>)
Projects ==
  { Disk(main, sources, kdir, exports, kitems, imports, kmav) :
      main \in MainImports, sources \in MSources, kdir \in KDirs,
      exports \in MExports, kitems \in KItems, imports \in MImports,
      kmav \in {KContract, Unreadable} }

Main == Path(<<>>, "main", "av")
Others == { Path(<<>>, "m", "av"), Path(<<"..", "w">>, "main", "av"),
            Path(<<>>, "m", "mav"), Path(<<>>, "old", "cgr"),
            Path(<<>>, "lost", "av"), Path(<<"..", "w">>, "k", "av") }
Commands == {<<Main>>} \cup {<<Main, p>> : p \in Others} \cup {<<p, Main>> : p \in Others}
==============================================================================
