------------------------------ MODULE Resolver ------------------------------
(***************************************************************************)
(* From the specifier of an import to a file or a dependency               *)
(* (pruneguard_resolver), the aliases it is asked with, and the edges of   *)
(* one file (pruneguard_graph/build.rs).                                   *)
(*                                                                         *)
(* A path is a sequence of components, and a component the parts of a name *)
(* between its dots.  A specifier is [form, scoped, path], where form is   *)
(* relative, absolute, bare, subpath (#...), runtime (node:...), virtual   *)
(* or pattern, and scoped says whether it starts with an @.                *)
(*                                                                         *)
(* A resolver is [ignored, externals, aliases, workspaces, roots, files,   *)
(* inner]: workspaces and roots are two sequences of the same workspaces,  *)
(* as a run walks workspace_roots and workspace_imports, two hash maps,    *)
(* and inner is what oxc_resolver answers, by directory and specifier: a   *)
(* file or None.                                                           *)
(***************************************************************************)
EXTENDS Naturals, Sequences, FiniteSets, SequencesExt

CONSTANT None

FirstIn(S) == CHOOSE i \in S : \A j \in S : i <= j

FirstFound(answers) ==
    LET there == {i \in DOMAIN answers : answers[i] # None} IN
    IF there = {} THEN None ELSE answers[FirstIn(there)]

After(path, prefix) == SubSeq(path, Len(prefix) + 1, Len(path))

(* dependency_name *)
DependencyName(s) ==
    IF s.form \in {"relative", "absolute"} THEN None
    ELSE IF ~s.scoped THEN SubSeq(s.path, 1, 1)
    ELSE IF Len(s.path) < 2 THEN None ELSE SubSeq(s.path, 1, 2)

Subpath(s) == After(s.path, DependencyName(s))

-----------------------------------------------------------------------------
(* Files that a path may mean *)

WithExtension(path, ext) ==
    LET last == Last(path)
        stem == IF Len(last) > 1 THEN Front(last) ELSE last
    IN Append(Front(path), Append(stem, ext))

Extensions == <<"ts", "tsx", "js", "jsx", "mts", "cts", "mjs", "cjs">>

(* An extension replaces the last part of a name that has one.             *)
ResolveWithExtensions(files, base) ==
    LET candidates ==
            <<base>>
            \o (IF base = <<>> THEN <<>>
                ELSE [i \in 1..8 |-> WithExtension(base, Extensions[i])])
            \o [i \in 1..4 |-> Append(base, <<"index", Extensions[i]>>)]
        there == {i \in DOMAIN candidates : candidates[i] \in files}
    IN IF there = {} THEN None ELSE candidates[FirstIn(there)]

Found(file, origin, subpath) ==
    [file |-> file, alias_origin |-> origin, exports_subpath |-> subpath]

FoundOrNone(file, origin, subpath) ==
    IF file = None THEN None ELSE Found(file, origin, subpath)

-----------------------------------------------------------------------------
(* Aliases: [pattern, target, origin, scope], scope being None for those   *)
(* that hold everywhere                                                    *)

Priority == ("manifest" :> 0) @@ ("subpath-imports" :> 1)
            @@ ("browser-field" :> 2) @@ ("tsconfig-paths" :> 3)
            @@ ("vite" :> 4) @@ ("webpack" :> 5) @@ ("babel" :> 6)
            @@ ("framework-generated" :> 7)

(* A stable sort *)
ByPriority(aliases) ==
    FlattenSeq([p \in 1..8 |->
        SelectSeq(aliases, LAMBDA a : Priority[a.origin] = p - 1)])

(* The first alias that matches decides, whether or not its target exists. *)
ResolveViaConfigAlias(r, s, from) ==
    LET matching == {i \in DOMAIN r.aliases :
            LET a == r.aliases[i] IN
            /\ a.scope # None => IsPrefix(a.scope, from)
            /\ IsPrefix(a.pattern, s.path)}
        alias == r.aliases[FirstIn(matching)]
        rest == After(s.path, alias.pattern)
    IN IF matching = {} THEN None
       ELSE FoundOrNone(
                ResolveWithExtensions(r.files,
                    alias.target \o (IF rest = <<>> THEN << <<"index">> >> ELSE rest)),
                alias.origin, None)

-----------------------------------------------------------------------------
(* The exports and imports of a manifest: [exact, patterns], where exact   *)
(* maps subpaths to conditions, and patterns is a sequence of [prefix,     *)
(* conditions]; conditions map one name or more to targets [before, star,  *)
(* after].                                                                 *)

ConditionOrder == <<"types", "import", "require", "node", "default">>
ImportConditions == <<"import", "require", "default">>

(* The first known condition decides, even if it leads nowhere.            *)
FirstCondition(order, conditions) ==
    LET known == {i \in DOMAIN order : order[i] \in DOMAIN conditions}
        others == {c \in DOMAIN conditions : conditions[c] # None}
    IN IF known # {} THEN conditions[order[FirstIn(known)]]
       ELSE IF others = {} THEN None
       ELSE conditions[CHOOSE c \in others : TRUE]

Replaced(target, rest) ==
    IF target = None THEN None
    ELSE IF target.star THEN target.before \o rest \o target.after
    ELSE target.before

(* What each pattern that matches makes of a path, in their order *)
PatternTargets(map, path, order) ==
    LET matching == SelectSeq(map.patterns, LAMBDA p : IsPrefix(p.prefix, path)) IN
    [i \in DOMAIN matching |->
        Replaced(FirstCondition(order, matching[i].conditions),
                 After(path, matching[i].prefix))]

(* The star of a target stays when no pattern put anything in its place.   *)
ExactTarget(map, path, order) ==
    Replaced(FirstCondition(order, map.exact[path]), << <<"*">> >>)

(* The first pattern of the exports that leads somewhere decides, ...      *)
LookupTarget(map, subpath) ==
    IF subpath \in DOMAIN map.exact
    THEN ExactTarget(map, subpath, ConditionOrder)
    ELSE FirstFound(PatternTargets(map, subpath, ConditionOrder))

(* ... and the first pattern of the imports, wherever it leads.            *)
ImportsTarget(map, path) ==
    LET targets == PatternTargets(map, path, ImportConditions) IN
    IF path \in DOMAIN map.exact
    THEN ExactTarget(map, path, ImportConditions)
    ELSE IF targets = <<>> THEN None ELSE Head(targets)

DefinesSubpath(map, subpath) ==
    \/ subpath \in DOMAIN map.exact
    \/ \E i \in DOMAIN map.patterns : IsPrefix(map.patterns[i].prefix, subpath)

(* The first workspace of an order that the importer is in *)
WorkspaceAt(order, from) ==
    LET above == {i \in DOMAIN order : IsPrefix(order[i].root, from)}
    IN IF above = {} THEN None ELSE order[FirstIn(above)]

(* A specifier that starts with # *)
ResolveSubpathImport(r, s, from) ==
    LET w == WorkspaceAt(r.roots, from)
        target == ImportsTarget(w.imports, s.path)
    IN IF s.form # "subpath" \/ w = None THEN None
       ELSE IF w.imports = None THEN None
       ELSE IF target = None THEN None
       ELSE FoundOrNone(ResolveWithExtensions(r.files, w.root \o target),
                        "subpath-imports", None)

(* browser is None, or a map of specifiers to paths; a string is the entry *)
(* for the name of the package itself.                                     *)
ResolveViaBrowserField(r, s, from) ==
    LET w == WorkspaceAt(r.workspaces, from) IN
    IF w = None THEN None
    ELSE IF w.browser = None THEN None
    ELSE IF s.path \notin DOMAIN w.browser THEN None
    ELSE FoundOrNone(ResolveWithExtensions(r.files, w.root \o w.browser[s.path]),
                     "browser-field", None)

PackageNamed(r, name) ==
    LET same == {i \in DOMAIN r.workspaces : r.workspaces[i].package = name} IN
    IF name = None \/ same = {} THEN None ELSE r.workspaces[FirstIn(same)]

(* The exports of a workspace say which of its files others may import;    *)
(* without them, or when the file that they name is missing, the main      *)
(* fields and then the files themselves do.                                *)
ResolveInWorkspace(r, w, subpath) ==
    LET file(path) == ResolveWithExtensions(r.files, w.root \o path)
        exported == IF w.exports = None THEN None
                    ELSE LookupTarget(w.exports, subpath)
    IN IF w = None THEN None
       ELSE IF w.exports # None /\ ~DefinesSubpath(w.exports, subpath) THEN None
       ELSE FirstFound(<<
                FoundOrNone(IF exported = None THEN None ELSE file(exported),
                            "manifest", subpath),
                FoundOrNone(FirstFound(
                    IF subpath # <<>> THEN <<file(subpath)>>
                    ELSE [i \in DOMAIN w.mains |-> file(w.mains[i])]
                         \o <<file(<< <<"index">> >>)>>), None, None)>>)

ResolveViaWorkspace(r, s) ==
    ResolveInWorkspace(r, PackageNamed(r, DependencyName(s)), Subpath(s))

IsWorkspaceExportsMiss(r, s) ==
    LET w == PackageNamed(r, DependencyName(s)) IN
    IF w = None THEN FALSE
    ELSE IF w.exports = None THEN FALSE
    ELSE ~DefinesSubpath(w.exports, Subpath(s))

-----------------------------------------------------------------------------
(* resolve *)

AssetExtensions ==
    {"css", "scss", "sass", "less", "styl", "stylus", "png", "jpg", "jpeg",
     "gif", "svg", "ico", "webp", "avif", "woff", "woff2", "ttf", "eot", "otf",
     "mp4", "webm", "ogg", "mp3", "wav", "flac", "graphql", "gql", "yaml",
     "yml", "toml", "txt", "csv", "xml", "wasm"}

(* What the inner resolver says of its failure only matters for a bare     *)
(* specifier; r.complaint is "tsconfig", "exports" or another.             *)
UnresolvedReason(r, s) ==
    IF s.form = "runtime" THEN "externalized"
    ELSE IF \/ s.form \in {"virtual", "pattern"}
            \/ Last(Last(s.path)) \in AssetExtensions
    THEN "unsupported-specifier"
    ELSE IF s.form = "subpath" \/ (s.form = "bare" /\ r.complaint = "exports")
    THEN "exports-condition-miss"
    ELSE IF s.form = "bare" /\ r.complaint = "tsconfig"
    THEN "tsconfig-path-miss"
    ELSE "missing-file"

IsBenign(reason) == reason \in {"unsupported-specifier", "externalized"}

Missed(reason) == [file |-> None, reason |-> reason]

ViaInner(r, s, from) ==
    LET file == r.inner[Front(from), s] IN
    FoundOrNone(file, None,
                IF DependencyName(s) # None /\ file \in r.exporting
                THEN Subpath(s) ELSE None)

(* from is the path of the importer.                                       *)
Resolve(r, s, from) ==
    LET found == FirstFound(<<ResolveViaConfigAlias(r, s, from),
                              ResolveSubpathImport(r, s, from),
                              ViaInner(r, s, from),
                              ResolveViaBrowserField(r, s, from),
                              ResolveViaWorkspace(r, s)>>)
    IN IF \/ \E prefix \in r.ignored : IsPrefix(prefix, s.path)
          \/ DependencyName(s) \in r.externals
       THEN Missed("externalized")
       ELSE IF found # None THEN found
       ELSE IF IsWorkspaceExportsMiss(r, s) THEN Missed("workspace-exports-miss")
       ELSE Missed(UnresolvedReason(r, s))

-----------------------------------------------------------------------------
(* build_graph_with_options: aliases of the configurations of tools, of    *)
(* the maps and aliases they generate, and of tsconfig files.  Each        *)
(* workspace has paths: a map of patterns to the first target of each.     *)

GeneratedAliases(inputs) ==
    [i \in DOMAIN inputs.generated |->
        [pattern |-> inputs.generated[i].name, target |-> inputs.generated[i].target,
         origin |-> "framework-generated", scope |-> None]]

Patterns(workspaces) == UNION {DOMAIN workspaces[i].paths : i \in DOMAIN workspaces}

TargetsOf(pattern, workspaces) ==
    {workspaces[i].paths[pattern] :
        i \in {j \in DOMAIN workspaces : pattern \in DOMAIN workspaces[j].paths}}

(* The patterns for which the workspaces that have them agree *)
AgreedAliases(workspaces) ==
    SetToSeq({[pattern |-> p, target |-> CHOOSE t \in TargetsOf(p, workspaces) : TRUE,
               origin |-> "tsconfig-paths", scope |-> None] :
        p \in {q \in Patterns(workspaces) :
                    Cardinality(TargetsOf(q, workspaces)) = 1}})

ScopedAliases(workspaces) ==
    FlattenSeq([i \in DOMAIN workspaces |->
        SetToSeq({[pattern |-> p, target |-> workspaces[i].paths[p],
                   origin |-> "tsconfig-paths", scope |-> workspaces[i].root] :
            p \in DOMAIN workspaces[i].paths})])

(* add_scoped_aliases comes before set_config_aliases, and the latter      *)
(* replaces what is there, unless there is nothing to set.                 *)
ConfiguredAliases(inputs, workspaces) ==
    LET all == inputs.aliases \o GeneratedAliases(inputs) \o AgreedAliases(workspaces)
    IN ByPriority(IF all = <<>> THEN ScopedAliases(workspaces) ELSE all)

IgnoredSpecifiers(inputs) ==
    inputs.ignore_unresolved \cup inputs.virtual_module_prefixes
        \cup {v.prefix : v \in inputs.virtual_module_roots}

-----------------------------------------------------------------------------
(* The edges of a file *)

EdgeKinds ==
    {"StaticImportValue", "StaticImportType", "DynamicImport", "Require",
     "SideEffectImport", "ReExportNamed", "ReExportAll", "RequireResolve",
     "ImportMetaGlob", "JsDocImport", "TripleSlashFile", "TripleSlashTypes",
     "ImportMetaResolve", "RequireContext", "UrlConstructor", "ImportEquals"}

Edge(specifier, kind, file, dependency, outcome, reason, origin) ==
    [specifier |-> specifier, kind |-> kind, to_file |-> file,
     to_dependency |-> dependency, outcome |-> outcome,
     unresolved_reason |-> reason, alias_origin |-> origin]

(* r.repo are the files of the build, and a file that is found elsewhere   *)
(* is a dependency, named after itself when the specifier names none.      *)
EdgeTo(m, r, s, name, kind) ==
    IF m.file = None
    THEN Edge(s, kind, None, name,
              IF name = None THEN "unresolved" ELSE "dependency", m.reason, None)
    ELSE IF m.file \in r.repo
    THEN Edge(s, kind, m.file, name, "file", None, m.alias_origin)
    ELSE Edge(s, kind, None, IF name = None THEN <<Last(m.file)>> ELSE name,
              "dependency", None, m.alias_origin)

ResolveEdge(r, s, from, kind) ==
    EdgeTo(Resolve(r, s, from), r, s, DependencyName(s), kind)

MaxExpandedEdges == 500

(* The first matches in the order of one run, up to the cap, and whether   *)
(* any file was left to look at when it was reached                        *)
Expanded(order, matches, cap) ==
    LET hits == SelectSeq([i \in DOMAIN order |-> i],
                          LAMBDA i : order[i] \in matches)
    IN [files |-> {order[hits[i]] : i \in 1..(IF Len(hits) < cap THEN Len(hits) ELSE cap)},
        truncated |-> Len(hits) >= cap /\ hits[cap] < Len(order)]

(* Files below the directory of the importer, by their path from there *)
GlobMatches(order, from, pattern, negations) ==
    {f \in ToSet(order) : /\ IsPrefix(Front(from), f)
                          /\ After(f, Front(from)) \in pattern
                          /\ \A n \in negations : After(f, Front(from)) \notin n}

ContextMatches(order, from, directory, recursive, filter) ==
    LET dir == Front(from) \o directory IN
    {f \in ToSet(order) : /\ IsPrefix(dir, f)
                          /\ recursive \/ Len(f) = Len(dir) + 1
                          /\ filter # None => After(f, dir) \in filter}

AbsoluteTo(f) == [form |-> "absolute", scoped |-> FALSE, path |-> f]

ExpandedReferences(order, matches, kind) ==
    {[specifier |-> AbsoluteTo(f), kind |-> kind] :
        f \in Expanded(order, matches, MaxExpandedEdges).files}

(* A file has plain references [specifier, kind] - imports, re-exports,    *)
(* dynamic imports, requires, the patterns that name one module and what   *)
(* the adapters of templates add - and globs and contexts.                 *)
EdgesOf(r, order, from, facts) ==
    {ResolveEdge(r, x.specifier, from, x.kind) :
        x \in {y \in facts.references : y.specifier # None}
            \cup (UNION {ExpandedReferences(order,
                            GlobMatches(order, from, g.pattern, g.negations),
                            "ImportMetaGlob") : g \in facts.globs})
            \cup UNION {ExpandedReferences(order,
                            ContextMatches(order, from, c.directory,
                                           c.recursive, c.filter),
                            "RequireContext") : c \in facts.contexts}}

(* Aliases of the project's own tools do not name dependencies.            *)
ExternalDependencies(edges) ==
    {e.to_dependency : e \in {x \in edges :
        x.alias_origin \notin {"vite", "webpack", "babel", "tsconfig-paths",
                               "framework-generated"}}} \ {None}

(* add_resolved_edge; nodes are the files that have one *)
GraphEdgesOf(from, edges, nodes) ==
    {<<from, e.to_file, e.kind>> : e \in {x \in edges : x.to_file \in nodes}}
    \cup {<<from, e.to_dependency, "FileToDependency">> :
            e \in {x \in edges : x.to_file \notin nodes /\ x.to_dependency # None}}
=============================================================================
