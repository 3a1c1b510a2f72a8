--------------------------- MODULE ProjectInputs ---------------------------
(***************************************************************************)
(* Bounded inputs for the parts of a build that decide what is looked at:  *)
(* the configuration, the entrypoints, and the packages that the imports   *)
(* resolve to; and what the program answers for each.                      *)
(***************************************************************************)
EXTENDS Naturals, Sequences, FiniteSets, SequencesExt

CONSTANT None

Conf == INSTANCE Config
Dep == INSTANCE Dependencies
Res == INSTANCE Resolver
Rul == INSTANCE Rules

-----------------------------------------------------------------------------
(* A configuration that extends up to two others, which may extend each    *)
(* other and themselves, be missing or malformed.  A file sets nothing,    *)
(* everything, or its rules and only the toggle that is never merged.      *)
Text(name, extends, sets) ==
    [Conf!DefaultConfig EXCEPT
        !.extends = extends,
        !.lists = [f \in Conf!Lists |-> IF f = "overrides" THEN <<name>> ELSE <<>>],
        !.sections = [f \in Conf!Sections |->
            IF sets = "all" /\ f = "workspaces" THEN name ELSE None],
        !.rules = IF sets = "nothing" THEN None
                  ELSE [l \in Conf!RuleLists |->
                            IF l = "forbidden" THEN <<name>> ELSE <<>>],
        !.frameworks = IF sets = "nothing" THEN None
                       ELSE [next |-> IF sets = "all" THEN name ELSE None,
                             vue |-> name]]

Texts(name, extends) ==
    {Text(name, e, sets) : e \in extends, sets \in {"nothing", "all", "half"}}

(* The files that are looked for are the main one, under either name.      *)
ConfigInputs ==
    [main : Texts("main", {<<>>, <<"a">>, <<"a", "b">>, <<"b", "a">>}),
     a : Texts("a", {<<>>, <<"b">>, <<"a">>}) \cup {None, Conf!Malformed},
     b : Texts("b", {<<>>, <<"a">>}) \cup {None, Conf!Malformed},
     at : {"first", "second", "both", "neither"}, explicit : {None, "a"}]

DiskFiles == {"pruneguard.json", ".pruneguardrc.json", "a", "b"}

DiskOf(i) ==
    [n \in DiskFiles |->
        CASE n = "pruneguard.json" ->
                IF i.at \in {"first", "both"} THEN i.main ELSE None
          [] n = ".pruneguardrc.json" ->
                IF i.at = "second" THEN i.main
                ELSE IF i.at = "both" THEN Conf!Malformed ELSE None
          [] n = "a" -> i.a
          [] n = "b" -> i.b]

ConfigAnswer(i) == Conf!LoadConfigOrDefault(DiskOf(i), i.explicit)

-----------------------------------------------------------------------------
(* Entrypoints of a monorepo of one package, whose manifest names a file   *)
(* that a script of either workspace, a pattern of the configuration or a  *)
(* tool may name too, or that may be built, a test or an example.  The     *)
(* workspaces are asked in either order, and so are the scripts of one,    *)
(* each of which runs the file.                                            *)
At(dirs, name) == [dirs |-> dirs, name |-> name]
Lib == At(<<"src">>, <<"lib", "ts">>)
LibTest == At(<<"src">>, <<"lib", "test", "ts">>)
Example == At(<<"examples">>, <<"lib", "ts">>)
Built == At(<<"dist">>, <<"lib", "js">>)
InPkg(p) == [p EXCEPT !.dirs = <<"pkg">> \o @]
RootMain == At(<<"src">>, <<"index", "ts">>)
ProjectFiles == {RootMain} \cup {InPkg(p) : p \in {Lib, LibTest, Example}}

Manifest(name, main, scripts, file, dev) ==
    [name |-> name, main |-> main, module |-> None, types |-> None,
     typings |-> None, bin |-> {}, browser |-> {}, exports |-> {},
     workspaces |-> None, dependencies |-> {}, dev_dependencies |-> dev,
     peer_dependencies |-> {}, optional_dependencies |-> {},
     scripts |-> [k \in DOMAIN scripts |->
        [name |-> scripts[k],
         commands |-> <<<<[word |-> "node", flag |-> FALSE, path |-> None],
                          [word |-> "file", flag |-> FALSE, path |-> file]>>>>]]]

Empty == [f \in {"entrypoints", "runtime_entrypoints", "production_entrypoints",
                 "development_entrypoints", "setup_files", "global_setup_files",
                 "story_entrypoints", "generated_entrypoints", "test_patterns",
                 "route_entry_globs"} |-> {}]

EntrypointInputs ==
    [main : {None, Lib, Built, LibTest, Example},
     root_scripts : {<<>>, <<"dev">>, <<"start">>, <<"dev", "start">>, <<"start", "dev">>},
     pkg_scripts : {<<>>, <<"dev">>, <<"start">>}, include : {{}, {Lib}}, auto : BOOLEAN,
     excluded : {{}, {InPkg(Lib)}}, scan_roots : {{}, {<<"src">>}},
     include_tests : BOOLEAN, dev : {{}, {"vitest"}}, tools : BOOLEAN,
     reversed : BOOLEAN]

WorkspacesOf(i) ==
    {[name |-> "root", root |-> <<>>,
      manifest |-> Manifest("root", None, i.root_scripts, InPkg(Lib), {})],
     [name |-> "pkg", root |-> <<"pkg">>,
      manifest |-> Manifest("pkg", i.main, i.pkg_scripts, Lib, i.dev)]}

EntrypointQuestion(i) ==
    [workspaces |-> WorkspacesOf(i),
     order |-> IF i.reversed THEN Reverse(SetToSeq(WorkspacesOf(i)))
               ELSE SetToSeq(WorkspacesOf(i)),
     config |-> [auto |-> i.auto, include |-> i.include,
                 include_tests |-> i.include_tests, include_stories |-> FALSE,
                 include_entry_exports |-> FALSE],
     toggles |-> [n \in {p.name : p \in ToSet(Dep!BuiltInPacks)} |-> "auto"],
     excluded |-> i.excluded, scan_roots |-> i.scan_roots,
     files |-> ProjectFiles, ignored |-> {},
     inputs |-> IF i.tools THEN [Empty EXCEPT !.setup_files = {InPkg(Lib)},
                                              !.test_patterns = {Lib, LibTest}]
                ELSE Empty]

EntrypointAnswer(i) ==
    LET q == EntrypointQuestion(i)
        of(profile) == Dep!EntrypointSeeds(q, profile)
    IN [production |-> of("production"), development |-> of("development"),
        public |-> Dep!PublicFiles(of("production"), ProjectFiles, q.config)]

-----------------------------------------------------------------------------
(* A package is imported by some of the files of two workspaces: the       *)
(* entrypoint of the root, a file that it may import by its path or by     *)
(* the name of its workspace, and a test and a tool's configuration next   *)
(* to that.  It may be declared, installed, and a tsconfig's alias.        *)
Main == <<<<"src">>, <<"index", "ts">>>>
Index == <<<<"pkg">>, <<"src">>, <<"index", "ts">>>>
Test == <<<<"pkg">>, <<"src">>, <<"index", "test", "ts">>>>
ViteConfig == <<<<"pkg">>, <<"vite", "config", "ts">>>>
Importers == {Main, Index, Test, ViteConfig}

LeftPad == <<<<"left-pad">>>>
Pkg == <<<<"pkg">>>>
Root == <<<<"root">>>>
Specifier(form, path) == [form |-> form, scoped |-> FALSE, path |-> path]
LeftPadSpecifier == Specifier("bare", LeftPad)
Installed == <<<<"node_modules">>, <<"left-pad">>, <<"index", "js">>>>

PackageInputs ==
    [importers : SUBSET Importers, link : {"none", "path", "package"},
     root_alias : {None, "pkg"}, pkg_alias : {None, "pkg", "src"},
     vite_alias : BOOLEAN, installed : BOOLEAN,
     declared : {{}, {"root"}, {"pkg"}, {"pkg-dev"}, {"root", "pkg-dev"}}]

Links == ("none" :> {}) @@ ("path" :> {Specifier("relative", <<<<"index">>>>)})
         @@ ("package" :> {Specifier("bare", Pkg)})

SpecifiersOf(i, f) ==
    (IF f \in i.importers THEN {LeftPadSpecifier} ELSE {})
    \cup IF f = Main THEN Links[i.link] ELSE {}

(* The alias leads to the index of a directory src.                        *)
PathsMap(alias) ==
    IF alias = None THEN <<>>
    ELSE LeftPad :> IF alias = "pkg" THEN <<<<"pkg">>, <<"src">>>> ELSE <<<<"src">>>>

ResolverOf(i) ==
    LET workspace(root, package, alias) ==
            [root |-> root, package |-> package, imports |-> None, exports |-> None,
             browser |-> None, mains |-> <<<<<<"src">>, <<"index", "ts">>>>>>,
             paths |-> PathsMap(alias)]
        workspaces == <<workspace(<<>>, Root, i.root_alias),
                        workspace(Pkg, Pkg, i.pkg_alias)>>
        vite == [pattern |-> <<<<"~">>>>, target |-> <<<<"src">>>>, origin |-> "vite",
                 scope |-> None]
    IN [ignored |-> {}, externals |-> {}, complaint |-> "none", exporting |-> {},
        workspaces |-> workspaces, roots |-> Reverse(workspaces),
        files |-> Importers, repo |-> Importers,
        aliases |-> Res!ConfiguredAliases(
            [aliases |-> IF i.vite_alias THEN <<vite>> ELSE <<>>, generated |-> <<>>],
            workspaces),
        inner |-> [q \in {Front(f) : f \in Importers}
                        \X UNION {SpecifiersOf(i, f) : f \in Importers} |->
            IF q[2].form = "relative" THEN Index
            ELSE IF q[2] = LeftPadSpecifier /\ i.installed THEN Installed ELSE None]]

EdgesOfFile(i, f) ==
    Res!EdgesOf(ResolverOf(i), SetToSeq(Importers), f,
                [references |-> {[specifier |-> s, kind |-> "StaticImportValue"] :
                                    s \in SpecifiersOf(i, f)},
                 globs |-> {}, contexts |-> {}])

WorkspaceOfFile(f) == IF f = Main THEN "root" ELSE "pkg"

(* The graph of those edges, and the rule that nothing in production       *)
(* imports the package                                                     *)
MainEntry == <<<<"entry">>, <<"main">>>>
TestEntry == <<<<"entry">>, <<"test">>>>
Entries == (MainEntry :> Main) @@ (TestEntry :> Test)

ImportGraph(edges) ==
    [kind |-> [n \in Importers |-> "file"]
              @@ [n \in DOMAIN Entries |-> "entrypoint"]
              @@ [n \in {LeftPad, Pkg} |-> "dependency"],
     profile |-> (MainEntry :> "production") @@ (TestEntry :> "development"),
     entry_kind |-> (MainEntry :> "package") @@ (TestEntry :> "framework"),
     edges |-> {<<e, Entries[e]>> : e \in DOMAIN Entries}
               \cup {<<x[1], x[2]>> :
                        x \in UNION {Res!GraphEdgesOf(f, edges[f], Importers) :
                                        f \in Importers}}]

Rule == [name |-> "no-left-pad", severity |-> "error",
         from |-> [profiles |-> {"production"}], to |-> [package |-> {LeftPad}]]

(* The same names as an analyzer of manifests sees them                    *)
NameOf == (LeftPad :> [text |-> "left-pad", scope |-> None, shape |-> "package",
                       parts |-> <<"left", "pad">>, bin |-> "left-pad"])
          @@ (Pkg :> [text |-> "pkg", scope |-> None, shape |-> "package",
                      parts |-> <<"pkg">>, bin |-> "pkg"])

PathOf(f) == At([d \in 1..(Len(f) - 1) |-> f[d][1]], Last(f))

BuildOf(i, edges, g) ==
    LET declares(name) == IF name \in i.declared THEN {NameOf[LeftPad]} ELSE {}
        manifest(name, dev) ==
            [Manifest(name, None, <<>>, None, declares(dev)) EXCEPT
                !.dependencies = declares(name)]
        none == [w \in {"root", "pkg"} |-> {}]
        failed(w) == UNION {{e \in edges[f] : e.outcome = "unresolved"} :
                            f \in {x \in Importers : WorkspaceOfFile(x) = w}}
    IN [files |-> {[path |-> PathOf(f), workspace |-> WorkspaceOfFile(f),
                    role |-> Dep!Role(PathOf(f)),
                    dependencies |-> {NameOf[d] : d \in Res!ExternalDependencies(edges[f])}] :
                        f \in Importers},
        workspaces |-> {[name |-> "root", root |-> <<>>,
                         manifest |-> manifest("root", "root-dev")],
                        [name |-> "pkg", root |-> <<"pkg">>,
                         manifest |-> manifest("pkg", "pkg-dev")]},
        reachable_prod |-> {PathOf(f) : f \in Rul!ReachableFileIds(g, "production")},
        reachable_dev |-> {PathOf(f) : f \in Rul!ReachableFileIds(g, "development")},
        styles |-> none, tsconfig_extends |-> none, alias_prefixes |-> {},
        unresolved |-> [w \in {"root", "pkg"} |->
                        [all |-> Cardinality(failed(w)),
                         benign |-> Cardinality({e \in failed(w) :
                                        Res!IsBenign(e.unresolved_reason)})]],
        seeds |-> {Dep!Seed(PathOf(Main), "package", "production", "root", "package"),
                   Dep!Seed(PathOf(Test), "framework", "development", "pkg",
                            "test-pattern")}]

PackageAnswerOf(edges, g, b) ==
    LET rules == [graph |-> g,
                  files |-> SetToSeq({[path |-> f, package |-> <<<<WorkspaceOfFile(f)>>>>,
                                       workspace |-> <<<<WorkspaceOfFile(f)>>>>,
                                       edges |-> edges[f]] : f \in Importers}),
                  workspaces |-> [w \in {Root, Pkg} |-> [package |-> w, node |-> None]]]
    IN [reached |-> [p \in Rul!Profiles |-> Rul!ReachableFileIds(g, p)],
        unused |-> [p \in Rul!Profiles |-> Dep!UnusedDependencies(b, p)],
        unlisted |-> Dep!UnlistedDependencies(b),
        packages |-> [p \in Rul!Profiles |->
            {w.name : w \in Dep!UnusedPackages(b,
                {PathOf(f) : f \in Rul!ReachableFileIds(g, p)}, p)}],
        external |-> {f \in Importers : LeftPad \in Res!ExternalDependencies(edges[f])},
        violations |-> Rul!Evaluate(rules, [forbidden |-> {Rule}], {}, {}, "both")]

PackageAnswerOn(i, edges, g) == PackageAnswerOf(edges, g, BuildOf(i, edges, g))

PackageAnswerWith(i, edges) == PackageAnswerOn(i, edges, ImportGraph(edges))

PackageAnswer(i) == PackageAnswerWith(i, [f \in Importers |-> EdgesOfFile(i, f)])
=============================================================================
