---------------------------- MODULE Entrypoints ----------------------------
(***************************************************************************)
(* Which files a build starts from: the seeds of one workspace             *)
(* (pruneguard_entrypoints), those of all workspaces, of the configuration *)
(* of the tools and of wildcard exports, and the filters they pass         *)
(* (pruneguard_graph/build.rs).                                            *)
(*                                                                         *)
(* A seed is [path, kind, profile, workspace, source].  The three kinds    *)
(* that a manifest gives, main, bin and exports, are one kind here,        *)
(* "package".  Paths are those of Discovery, from the root of the project; *)
(* those of a manifest, a script or a pattern are from their workspace.    *)
(***************************************************************************)
EXTENDS Frameworks

In(root, p) == [p EXCEPT !.dirs = root \o @]
AllIn(root, paths) == {In(root, p) : p \in paths}
Seed(path, kind, profile, workspace, source) ==
    [path |-> path, kind |-> kind, profile |-> profile,
     workspace |-> workspace, source |-> source]

-----------------------------------------------------------------------------
(* The files that a script may run.  A script is a sequence of commands,   *)
(* as its shell operators divide it, and a command a sequence of words:    *)
(* [word, flag, path], where path is None for what is not a path.          *)
Runners == {"node", "tsx", "ts-node", "tsm", "bun"}
ModuleFlags == {"-r", "--require", "--loader", "--import"}
EvalFlags == {"-e", "--eval", "-p", "--print"}
PackageFlags == {"--filter", "-F", "--workspace", "-w", "--cwd", "--prefix"}

LooksLikeScriptPath(token) ==
    /\ ~token.flag
    /\ token.path # None
    /\ \/ SourceKind(token.path) \in {"js", "jsx", "ts", "tsx", "mts", "cts", "dts"}
       \/ At(token.path, {".", "..", "src", "scripts", "bin", "app", "lib", "tools"})

PathsOf(words) == {words[i].path : i \in {j \in DOMAIN words :
                                            LooksLikeScriptPath(words[j])}}

(* The first word from i on that is neither a flag nor the value of one *)
AfterFlags(words, start, valued, stop) ==
    LET from[i \in 1..(Len(words) + 2)] ==
            IF i > Len(words) THEN i
            ELSE IF words[i].word \in valued THEN from[i + 2]
            ELSE IF words[i].flag /\ words[i].word \notin stop THEN from[i + 1]
            ELSE i
    IN from[start]

CandidatesOfCommand(command) ==
    LET from[i \in 1..(Len(command) + 2)] ==
            LET rest == SubSeq(command, i, Len(command))
                first == command[i].word
                afterFlags == AfterFlags(command, i + 1, {}, {})
                script == AfterFlags(command, i + 1, ModuleFlags, EvalFlags)
                subcommand == AfterFlags(command, i + 1, PackageFlags, {})
            IN IF i > Len(command) THEN {}
               ELSE IF first \in Runners
               THEN IF /\ script <= Len(command)
                       /\ command[script].word \in EvalFlags
                    THEN {} ELSE PathsOf(SubSeq(command, script, Len(command)))
               ELSE IF first \in {"npx", "bunx"}
               THEN PathsOf(SubSeq(command, afterFlags + 1, Len(command)))
               ELSE IF first \in {"pnpm", "yarn", "npm"}
               THEN IF /\ subcommand <= Len(command)
                       /\ command[subcommand].word \in {"exec", "dlx", "x"}
                    THEN from[subcommand + 1] ELSE {}
               ELSE PathsOf(rest)
    IN from[1]

ScriptCandidates(script) ==
    UNION {CandidatesOfCommand(script.commands[i]) : i \in DOMAIN script.commands}

(* By the name of the script up to its colon *)
ScriptProfile(name) ==
    CASE name \in {"start", "serve", "prod", "build"} -> "production"
      [] name \in {"test", "lint", "dev", "storybook", "bench"} -> "development"
      [] OTHER -> "both"

-----------------------------------------------------------------------------
(* detect_entrypoints *)

FirstOf(candidates, files) ==
    LET there == {i \in DOMAIN candidates : candidates[i] \in files} IN
    IF there = {} THEN None
    ELSE candidates[CHOOSE i \in there : \A j \in there : i <= j]

SourceExtensions == <<"ts", "tsx", "js", "jsx", "mts", "cts">>

(* The source that a file of a build output is made from: with_extension   *)
(* is called twice, so that two endings are taken off a name that has them.*)
ResolveDistToSource(root, p, files) ==
    LET rest == Tail(p.dirs)
        dirs == IF rest # <<>> /\ Head(rest) \in {"esm", "cjs", "source", "types"}
                THEN Tail(rest) ELSE rest
        bare == IF Len(p.name) > 2 THEN SubSeq(p.name, 1, Len(p.name) - 2)
                ELSE <<p.name[1]>>
        at(top, n) == [i \in 1..n |->
            In(root, [dirs |-> top \o dirs,
                      name |-> Append(bare, SourceExtensions[i])])]
    IN IF ~At(p, {"dist", "build", "out", "lib"}) THEN None
       ELSE FirstOf(at(<<"src">>, 6) \o at(<<>>, 4), files)

PackageEntry(root, p, files) ==
    LET source == ResolveDistToSource(root, p, files) IN
    IF source # None THEN source ELSE In(root, p)

ConventionFiles ==
    {[dirs |-> <<"src">>, name |-> <<n, ext>>] : n \in {"index", "main"},
                                ext \in {"ts", "tsx", "js", "jsx"}}
    \cup {[dirs |-> <<>>, name |-> <<"index", ext>>] : ext \in {"ts", "js"}}

FrameworkEnabled(pack, toggles) ==
    CASE toggles[pack.name] = "off" -> FALSE
      [] toggles[pack.name] = "on" -> TRUE
      [] OTHER -> pack.detect

FrameworkProfile(pack) ==
    IF pack.name \in {"vitest", "jest", "storybook"} THEN "development"
    ELSE "production"

(* A group of paths that are pushed for one reason *)
Pushes(paths, kind, profile, source) ==
    [paths |-> paths, kind |-> kind, profile |-> profile, source |-> source]

IncludePushes(w, config, files) ==
    Pushes(AllIn(w.root, config.include) \cap files, "explicit", "both", "config")

PackagePushes(w, files) ==
    Pushes({PackageEntry(w.root, p, files) : p \in EntrypointFiles(w.manifest)}
                \cap files, "package", "production", "package")

ScriptPushes(w, script, files) ==
    Pushes({p \in AllIn(w.root, ScriptCandidates(script)) \cap files :
                IsTrackedSource(p)},
           "script", ScriptProfile(script.name), "package-script")

ConventionPushes(w, files) ==
    Pushes(AllIn(w.root, ConventionFiles) \cap files, "convention",
           "production", "convention")

(* What a pack names itself, and the files that its tool loads unasked *)
PackPushes(w, packs, toggles, tracked) ==
    FlattenSeq([i \in DOMAIN packs |->
        IF ~FrameworkEnabled(packs[i], toggles) THEN <<>>
        ELSE <<Pushes(AllIn(w.root, packs[i].entrypoints), "framework",
                      FrameworkProfile(packs[i]), "framework"),
               Pushes({p \in AllIn(w.root, packs[i].auto_loaded) \cap tracked :
                            IsTrackedSource(p)},
                      "framework", FrameworkProfile(packs[i]),
                      "framework-auto-load")>>])

(* The first reason to push a path is the one that counts.                 *)
FirstReasons(w, pushes) ==
    UNION {{Seed(p, pushes[i].kind, pushes[i].profile, w.name, pushes[i].source) :
                p \in pushes[i].paths \ UNION {pushes[j].paths : j \in 1..(i - 1)}} :
            i \in DOMAIN pushes}

(* Scripts are a map: manifest.scripts is the order that one run sees.     *)
(* files are those of the disk, tracked those that the walk has found.     *)
DetectEntrypoints(w, config, toggles, packs, files, tracked) ==
    LET scripts == w.manifest.scripts IN
    FirstReasons(w,
        <<IncludePushes(w, config, files)>>
        \o (IF config.auto
            THEN <<PackagePushes(w, files)>>
                 \o [i \in DOMAIN scripts |-> ScriptPushes(w, scripts[i], files)]
                 \o <<ConventionPushes(w, files)>>
            ELSE <<>>)
        \o PackPushes(w, packs, toggles, tracked))

-----------------------------------------------------------------------------
(* detect_all_entrypoints *)

Relative(p, w) == [p EXCEPT !.dirs = SubSeq(@, Len(w.root) + 1, Len(@))]

IsTestName(p) == NameHas(p, {"test", "spec"})
IsStoryName(p) == NameHas(p, {"stories", "story"})

Kept(seed, config, excluded, scanRoots) ==
    /\ scanRoots = {} \/ \E dir \in scanRoots : Inside(seed.path, dir)
    /\ seed.path \notin excluded
    /\ \/ seed.kind = "framework"
       \/ /\ config.include_tests \/ ~IsTestName(seed.path)
          /\ config.include_stories \/ ~IsStoryName(seed.path)

SourceOrder == <<"config", "convention", "framework-auto-load", "framework",
                 "package-script", "package">>
SourceRank(source) == CHOOSE k \in DOMAIN SourceOrder : SourceOrder[k] = source

(* Paths and sources order the seeds; those that are alike in both are in  *)
(* the order in which the workspaces were asked.  What follows the kind of *)
(* a source, a pack's or a script's name, is left out: it orders seeds of  *)
(* one kind, and at least one of each path and profile is kept anyhow.     *)
Position(seed, order) ==
    SourceRank(seed.source) * (Len(order) + 1)
        + (CHOOSE i \in DOMAIN order : order[i].name = seed.workspace)

Before(seed, seeds, order) ==
    {t \in seeds : /\ t.path = seed.path
                   /\ Position(t, order) < Position(seed, order)}

(* Mutant of Deduplicated: the profile is not compared. *)
OnePerPath(seeds, order) == {s \in seeds : Before(s, seeds, order) = {}}

(* A seed that follows one of the same path and profile is dropped.        *)
Deduplicated(seeds, order) ==
    {s \in seeds : LET before == Before(s, seeds, order) IN
        \A t \in before : (\A u \in before : Position(u, order) <= Position(t, order))
                            => t.profile # s.profile}

(* The root of a monorepo is not asked for the files of the packs.         *)
PacksFor(w, workspaces, files) ==
    IF Cardinality(workspaces) > 1 /\ w.root = <<>> THEN <<>>
    ELSE PacksOf(w.manifest, {Relative(f, w) : f \in {g \in files : Inside(g, w.root)}})

DetectAllEntrypoints(order, config, toggles, excluded, scanRoots, files, tracked) ==
    Deduplicated(UNION {
        {s \in DetectEntrypoints(w, config, toggles,
                                 PacksFor(w, ToSet(order), files), files, tracked) :
                Kept(s, config, excluded, scanRoots)} :
        w \in ToSet(order)}, order)

-----------------------------------------------------------------------------
(* inject_config_entrypoints: what the configurations of the tools name.   *)
(* Every kind is compared with the seeds there were before the first.      *)

Injected(paths, existing, files, profile, source) ==
    {Seed(p, "framework", profile, None, source) :
        p \in (paths \ existing) \cap files}

InjectedFiles(inputs, existing, files) ==
    Injected(inputs.entrypoints, existing, files, "both", "config-adapter")
    \cup Injected(inputs.runtime_entrypoints \cup inputs.production_entrypoints,
                  existing, files, "production", "config-adapter")
    \cup Injected(inputs.development_entrypoints \cup inputs.setup_files
                  \cup inputs.global_setup_files \cup inputs.story_entrypoints,
                  existing, files, "development", "config-adapter")
    \cup Injected(inputs.generated_entrypoints, existing, files, "both",
                  "generated")

(* The workspaces are a map: the first above a file in the order of one    *)
(* run, be it the root, decides how the file is compared with a pattern.   *)
WorkspaceInOrder(p, order) ==
    LET above == {i \in DOMAIN order : Inside(p, order[i].root)} IN
    IF above = {} THEN None
    ELSE order[CHOOSE i \in above : \A j \in above : i <= j]

MatchedIn(patterns, order, existing, tracked) ==
    {f \in tracked \ existing :
        LET w == WorkspaceInOrder(f, order) IN
        w # None /\ Relative(f, w) \in patterns}

HasTestRunner(workspaces) ==
    \E w \in workspaces : {"vitest", "jest"} \cap
        (w.manifest.dependencies \cup w.manifest.dev_dependencies) # {}

ConventionalTests(files) ==
    {f \in files : \/ IsTestName(f)
                   \/ /\ Within(f, {"__tests__"})
                      /\ Ext(f) \in {"ts", "tsx", "js", "jsx"}}

TestPatterns(inputs, workspaces, tracked) ==
    IF inputs.test_patterns # {} THEN inputs.test_patterns
    ELSE IF HasTestRunner(workspaces)
    THEN ConventionalTests({Relative(f, w) : f \in tracked, w \in workspaces})
    ELSE {}

InjectedTests(inputs, workspaces, order, existing, tracked) ==
    {Seed(f, "framework", "development", WorkspaceInOrder(f, order).name,
          "test-pattern") :
        f \in {g \in MatchedIn(TestPatterns(inputs, workspaces, tracked), order,
                               existing, tracked) : IsTrackedSource(g)}}

SetupNames == {<<"setup", ext>> : ext \in {"ts", "tsx", "js"}}

IsTestSetup(p) == \/ p.name \in SetupNames
                  \/ Len(p.name) > 1 /\ p.name[1] = "setupTests"
                  \/ /\ Len(p.name) > 2
                     /\ p.name[1] = "global"
                     /\ p.name[2] \in {"setup", "teardown"}

InjectedSetup(order, existing, tracked) ==
    {Seed(f, "framework", "development", WorkspaceInOrder(f, order).name,
          "test-setup") :
        f \in {g \in tracked \ existing :
                /\ WorkspaceInOrder(g, order) # None
                /\ IsTestSetup(g)
                /\ IsTrackedSource(g)}}

(* A file x.dev.ts next to x.ts *)
InjectedVariants(existing, tracked) ==
    {Seed(f, "framework", "development", None, "dev-variant") :
        f \in {g \in tracked \ existing :
                /\ Len(g.name) > 2
                /\ g.name[Len(g.name) - 1] = "dev"
                /\ Ext(g) \in {"ts", "tsx", "js", "jsx"}
                /\ [g EXCEPT !.name = Append(SubSeq(@, 1, Len(@) - 2), Last(@))]
                        \in tracked}}

InjectedRoutes(inputs, order, existing, tracked) ==
    {Seed(f, "framework", "production", WorkspaceInOrder(f, order).name,
          "route-glob") :
        f \in MatchedIn(inputs.route_entry_globs, order, existing, tracked)}

InjectConfigEntrypoints(seeds, inputs, workspaces, order, files, tracked) ==
    LET existing == {s.path : s \in seeds} IN
    seeds \cup InjectedFiles(inputs, existing, files)
          \cup InjectedTests(inputs, workspaces, order, existing, tracked)
          \cup InjectedSetup(order, existing, tracked)
          \cup InjectedVariants(existing, tracked)
          \cup InjectedRoutes(inputs, order, existing, tracked)

-----------------------------------------------------------------------------
(* build_graph_with_options: from the seeds to the entrypoints             *)

WildcardSeeds(seeds, workspaces, tracked) ==
    seeds \cup {Seed(p, "package", "both",
                     (CHOOSE w \in workspaces :
                        p \in ExpandWildcardExports(w.manifest, tracked)).name,
                     "wildcard-exports") :
        p \in (UNION {ExpandWildcardExports(w.manifest, tracked) : w \in workspaces})
              \ {s.path : s \in seeds}}

ShouldKeepSeed(seed, config) ==
    LET role == Role(seed.path) IN
    \/ seed.kind \in {"explicit", "framework"}
    \/ /\ ~ExcludedFromAutoEntrypoints(role)
       /\ role = "test" => config.include_tests
       /\ role = "story" => config.include_stories

(* A seed that the walk did not find is only kept for a framework.         *)
WithRoles(seeds, config, tracked) ==
    {s \in seeds : IF s.path \in tracked THEN ShouldKeepSeed(s, config)
                   ELSE s.kind = "framework"}

ForProfile(seeds, profile) ==
    {s \in seeds : profile = "both" \/ s.profile \in {profile, "both"}}

(* p = [workspaces, order, config, toggles, excluded, scan_roots, files,   *)
(*      ignored, inputs]                                                   *)
EntrypointSeeds(p, profile) ==
    LET tracked == {f.path : f \in CollectFiles(p.files, p.ignored, p.workspaces)}
        detected == DetectAllEntrypoints(p.order, p.config, p.toggles,
                        p.excluded, p.scan_roots, p.files, tracked)
        injected == InjectConfigEntrypoints(detected, p.inputs, p.workspaces,
                        p.order, p.files, tracked)
    IN ForProfile(WithRoles(WildcardSeeds(injected, p.workspaces, tracked),
                            p.config, tracked), profile)

(* The entrypoint nodes with their edges, and the files whose exports are  *)
(* all in use                                                              *)
BuildEntrypoints(seeds, tracked) == {s \in seeds : s.path \in tracked}
EntrypointEdges(seeds, tracked) ==
    {<<s, s.path>> : s \in BuildEntrypoints(seeds, tracked)}
    \cup {<<s.workspace, s>> : s \in {t \in BuildEntrypoints(seeds, tracked) :
                                        t.workspace # None}}
PublicFiles(seeds, tracked, config) ==
    IF config.include_entry_exports THEN {}
    ELSE {s.path : s \in BuildEntrypoints(seeds, tracked)}
=============================================================================
