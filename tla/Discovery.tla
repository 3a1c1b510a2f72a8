----------------------------- MODULE Discovery -----------------------------
(***************************************************************************)
(* What a project consists of: its root, workspaces and manifests          *)
(* (pruneguard_discovery, pruneguard_manifest) and the files that are      *)
(* tracked, each with its kind and role (pruneguard_fs).                   *)
(*                                                                         *)
(* A path is [dirs, name]: the names of its directories from the root, and *)
(* its file name, split at the dots.  A directory is a sequence of names.  *)
(* A set of paths stands for a glob.                                       *)
(***************************************************************************)
EXTENDS Naturals, Sequences, FiniteSets, SequencesExt

CONSTANT None

Ext(p) == IF Len(p.name) > 1 THEN Last(p.name) ELSE None
Inside(p, dir) == IsPrefix(dir, p.dirs)

(* SourceKind::from_path *)
SourceKind(p) ==
    LET ext == Ext(p) IN
    CASE /\ ext \in {"ts", "mts", "cts"}
         /\ Len(p.name) > 2
         /\ p.name[Len(p.name) - 1] = "d" -> "dts"
      [] ext \in {"js", "mjs", "cjs"} -> "js"
      [] ext \in {"css", "scss", "sass", "less"} -> "css"
      [] ext \in {"jsx", "tsx", "vue", "svelte", "astro", "mdx"} -> ext
      [] /\ ext \in {"ts", "mts", "cts"}
         /\ ~(Len(p.name) > 2 /\ p.name[Len(p.name) - 1] = "d") -> ext
      [] OTHER -> None

IsTrackedSource(p) == SourceKind(p) # None

Skipped(p) == ToSet(p.dirs) \cap {".git", "node_modules", "target"} # {}

ShouldTrack(p) ==
    \/ IsTrackedSource(p)
    \/ p.name \in {<<"package", "json">>, <<"tsconfig", "json">>,
                   <<"tsconfig", "base", "json">>}
    \/ Ext(p) = "json" /\ ToSet(p.name) \cap {"config", "schema"} # {}

(* A part of the name that is neither its first nor its last *)
NameHas(p, parts) ==
    \E i \in 2..(Len(p.name) - 1) : p.name[i] \in parts
Within(p, dirs) == ToSet(p.dirs) \cap dirs # {}
At(p, dirs) == p.dirs # <<>> /\ Head(p.dirs) \in dirs
Below(p, dirs) == \E i \in 2..Len(p.dirs) : p.dirs[i] \in dirs

Generated == {".next", ".nuxt", ".output", ".svelte-kit", ".mastra", ".turbo",
              ".vercel", ".astro", ".angular", ".cache"}

(* The roles of the patterns of collect_files, and then those of           *)
(* classify_file itself, each with its condition; the first that holds is  *)
(* the role of the file.                                                   *)
RoleRules(p) ==
    <<<<"story", NameHas(p, {"stories", "story"})>>,
      <<"test", NameHas(p, {"test", "spec"}) \/ Within(p, {"__tests__"})>>,
      <<"fixture", Within(p, {"fixtures"})>>,
      <<"example", Within(p, {"examples"})>>,
      <<"template", Within(p, {"templates"})>>,
      <<"benchmark", Within(p, {"benchmarks"})>>,
      <<"generated", \/ Below(p, {"generated", "__generated__"})
                     \/ /\ NameHas(p, {"generated"})
                        /\ p.name[Len(p.name) - 1] = "generated"
                        /\ Ext(p) \in {"ts", "js"}
                     \/ /\ NameHas(p, {"gen"})
                        /\ p.name[Len(p.name) - 1] = "gen"
                        /\ Ext(p) \in {"ts", "tsx", "js", "jsx"}>>,
      <<"buildOutput", Below(p, {"dist", "build", "coverage",
                                 "storybook-static"})
                       \/ Within(p, Generated)>>,
      <<"fixture", \/ Below(p, {"test-fixtures", "snapshots", "test-files"})
                   \/ /\ NameHas(p, {"snapshot"})
                      /\ p.name[Len(p.name) - 1] = "snapshot"
                      /\ Ext(p) \in {"ts", "tsx", "js", "jsx"}>>,
      <<"test", \/ At(p, {"test", "tests", "e2e"})
                \/ Below(p, {"e2e", "__mocks__"})
                \/ NameHas(p, {"test-utils"})>>,
      <<"story", Below(p, {".storybook"}) \/ At(p, {"stories"})>>,
      <<"config", \/ p.name \in {<<"package", "json">>, <<"tsconfig", "json">>,
                                 <<"tsconfig", "base", "json">>}
                  \/ NameHas(p, {"config"})>>,
      <<"source", TRUE>>>>

FirstThat(rules) ==
    LET holds == {i \in DOMAIN rules : rules[i][2]} IN
    rules[CHOOSE i \in holds : \A j \in holds : i <= j][1]

Role(p) == FirstThat(RoleRules(p))

Kind(role) ==
    CASE role \in {"source", "fixture", "example", "template", "benchmark"} ->
            "source"
      [] OTHER -> role

IsDevelopmentOnly(role) == role \in {"test", "story"}
ExcludedFromDeadCode(role) ==
    role \in {"fixture", "example", "template", "benchmark", "config",
              "generated", "buildOutput"}
ExcludedFromAutoEntrypoints(role) ==
    role \in {"fixture", "example", "template", "benchmark"}

(* workspace_for_path: the workspace with the deepest root above the path  *)
WorkspaceOf(p, workspaces) ==
    LET above == {w \in workspaces : Inside(p, w.root)} IN
    IF above = {} THEN None
    ELSE (CHOOSE w \in above : \A v \in above : Len(v.root) <= Len(w.root)).name

(* collect_files, of the files that git does not ignore *)
CollectFiles(files, ignored, workspaces) ==
    {[path |-> p, workspace |-> WorkspaceOf(p, workspaces), role |-> Role(p),
      kind |-> Kind(Role(p)), source_kind |-> SourceKind(p)] :
        p \in {f \in files \ ignored : ~Skipped(f) /\ ShouldTrack(f)}}

-----------------------------------------------------------------------------
(* find_project_root, on the directories from the working directory up     *)
FindProjectRoot(up) ==
    LET packages == {i \in DOMAIN up : up[i].package}
        ends == {i \in DOMAIN up : \/ up[i].workspaces_file
                                   \/ up[i].package /\ up[i].workspaces
                                   \/ up[i].git}
        first(S) == CHOOSE i \in S : \A j \in S : i <= j
        passed == {i \in packages : ends = {} \/ i <= first(ends)}
    IN IF up[1].package THEN 1
       ELSE IF ends # {} /\ \/ up[first(ends)].workspaces_file
                            \/ up[first(ends)].workspaces
       THEN first(ends)
       ELSE IF passed # {} THEN first(passed)
       ELSE IF ends # {} THEN first(ends) ELSE 1

(* extract_workspace_globs: pnpm's file only counts under pnpm or auto, an *)
(* empty list of it or of lerna's counts as none, and one of the manifest  *)
(* is taken as it is.                                                      *)
WorkspaceGlobs(root, configured, manager) ==
    IF configured # {} THEN configured
    ELSE IF manager \in {"pnpm", "auto"} /\ root.pnpm # {} THEN root.pnpm
    ELSE IF root.manifest.workspaces # None THEN root.manifest.workspaces
    ELSE root.lerna

(* discover: a manifest of the root that cannot be parsed ends the build,  *)
(* one of a workspace is passed over; of two workspaces of one name, the   *)
(* first is kept.  dirs is the order in which the globs find directories.  *)
Discover(root, dirs, configured, manager) ==
    LET found == SelectSeq(dirs, LAMBDA d :
                    /\ d.dir \in WorkspaceGlobs(root, configured, manager)
                    /\ d.manifest \notin {None, "malformed"})
        all == <<[dir |-> <<>>, manifest |-> root.manifest]>> \o found
        kept == {i \in DOMAIN all : \A j \in 1..(i - 1) :
                    all[j].manifest.name # all[i].manifest.name}
    IN IF root.manifest = "malformed" THEN [ok |-> FALSE]
       ELSE [ok |-> TRUE,
             workspaces |->
                IF root.manifest = None THEN {}
                ELSE {[name |-> all[i].manifest.name, root |-> all[i].dir,
                       manifest |-> all[i].manifest] : i \in kept}]

DependencyNames(m) ==
    m.dependencies \cup m.peer_dependencies \cup m.optional_dependencies
        \cup m.dev_dependencies

WorkspaceDeps(workspaces) ==
    [w \in workspaces |-> {v \in workspaces : v.name \in DependencyNames(w.manifest)}]

(* load_codeowners: the first of the three files that can be read, and its *)
(* lines that name an owner                                                *)
LoadCodeowners(texts, import) ==
    LET there == {i \in DOMAIN texts : texts[i] # None} IN
    IF ~import \/ there = {} THEN None
    ELSE SelectSeq(texts[CHOOSE i \in there : \A j \in there : i <= j],
                   LAMBDA line : ~line.comment /\ line.owners # <<>>)

-----------------------------------------------------------------------------
(* PackageManifest; browser and exports are sets of targets, those of      *)
(* exports each with whether its key has a star.                           *)
LooksLikeEntrypoint(p) ==
    SourceKind(p) \in {"js", "jsx", "ts", "tsx", "mts", "cts", "dts"}

EntrypointFiles(m) ==
    ({m.main, m.module, m.types, m.typings} \cup m.bin
        \cup {p \in m.browser : LooksLikeEntrypoint(p)}
        \cup {e.target : e \in {x \in m.exports :
                    ~x.star /\ LooksLikeEntrypoint(x.target)}}) \ {None}

(* The pattern of a workspace's manifest is compared with the paths of     *)
(* files as they are from the root of the project.                         *)
ExpandWildcardExports(m, files) ==
    (UNION {e.pattern : e \in {x \in m.exports : x.star}}) \cap files
=============================================================================
