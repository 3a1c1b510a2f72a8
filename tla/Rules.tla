------------------------------- MODULE Rules -------------------------------
(***************************************************************************)
(* Boundary rules over the resolved imports of a build                     *)
(* (pruneguard_rules/src/lib.rs).                                          *)
(*                                                                         *)
(* A graph has, over those of GraphQueries, for each entrypoint its        *)
(* entry_kind, and for each node its label [name, path, workspace,         *)
(* package].  A build is [graph, files, workspaces]: files is the sequence *)
(* of [path, workspace, package, edges], a file being the node of its      *)
(* path, and workspaces maps names to [package, node].  An edge is         *)
(* [specifier, kind, to_file, to_dependency, outcome].  The patterns of a  *)
(* filter are the set of what they match.                                  *)
(***************************************************************************)
EXTENDS GraphQueries

Dimensions == {"path", "workspace", "package", "tag", "dependency_kinds",
               "profiles", "entrypoint_kinds"}
Negated == [path_not |-> "path", workspace_not |-> "workspace",
            package_not |-> "package", tag_not |-> "tag"]
Queries == {"reachable_from", "reaches"}

(* A list of patterns that is empty restricts nothing.                     *)
Compile(filter) ==
    IF filter = None THEN [d \in {} |-> {}]
    ELSE [d \in {e \in DOMAIN filter : filter[e] # {}} |-> filter[d]]

-----------------------------------------------------------------------------
(* What the rules know of a file: the profiles and the kinds of the        *)
(* entrypoints that reach it, and its tags.  The tags that a path gets     *)
(* from a team or an override are passed on to its package and workspace,  *)
(* and from there to those of their files that come later.                 *)

Tagged(o) == o.tags # {}

TeamOf(t, f) == f.path \in t.paths \/ f.package \in t.packages
OverrideOf(o, f) == /\ o.files # {} => f.path \in o.files
                    /\ o.workspaces # {} => f.workspace \in o.workspaces

TagsOfAll(those) == UNION {x.tags : x \in those}

PackageTags(teams, packages) ==
    [p \in packages |-> TagsOfAll({t \in teams : p \in t.packages})]

WorkspaceTags(overrides, workspaces) ==
    [w \in workspaces |-> TagsOfAll({o \in overrides :
                                        o.files = {} /\ w \in o.workspaces})]

(* One file gets its tags and passes them on.                              *)
TagFile(s, f, teams, overrides) ==
    LET byTeam == TagsOfAll({t \in teams : TeamOf(t, f)})
        byOverride == TagsOfAll({o \in overrides : OverrideOf(o, f)})
        own(map, key) == IF key \in DOMAIN map THEN map[key] ELSE {}
        extended(map, key, tags) ==
            IF key \in DOMAIN map THEN [map EXCEPT ![key] = @ \cup tags] ELSE map
    IN [tags |-> [s.tags EXCEPT ![f.path] =
                    own(s.workspaces, f.workspace) \cup own(s.packages, f.package)
                        \cup byTeam \cup byOverride],
        packages |-> extended(s.packages, f.package, byTeam),
        workspaces |-> extended(s.workspaces, f.workspace, byOverride)]

Tags(b, teams, overrides) ==
    LET paths == {b.files[i].path : i \in DOMAIN b.files}
        packages == {b.files[i].package : i \in DOMAIN b.files}
                    \cup UNION {t.packages : t \in teams}
    IN FoldLeft(LAMBDA s, f : TagFile(s, f, teams, overrides),
                [tags |-> [p \in paths |-> {}],
                 packages |-> PackageTags(teams, packages \ {None}),
                 workspaces |-> WorkspaceTags(overrides, DOMAIN b.workspaces)],
                b.files)

ReachedBy(g, path) ==
    {e \in EntrypointNodes(g, "both") : path \in Closure({e}, Onwards(g))}

ProfileLabels(g, path) ==
    {p \in {"production", "development"} : path \in ReachableFileIds(g, p)}
    \cup {"all" : e \in ReachedBy(g, path)}

KindTag(kind) == <<"entrypoint-kind", kind>>

Context(g, path) ==
    [profiles |-> ProfileLabels(g, path),
     entrypoint_kinds |-> {g.entry_kind[e] : e \in ReachedBy(g, path)}]

-----------------------------------------------------------------------------
(* Queries about reachability, along the edges between the nodes that the  *)
(* profile allows                                                          *)

Allows(g, profile, n) ==
    g.kind[n] = "entrypoint" => ActiveIn(g.profile[n], profile)

ForwardReachable(g, profile, start) ==
    Closure({start},
            [n \in NodesOf(g) |-> {m \in Successors(g, n) : Allows(g, profile, m)}])

NamesOfNode(g, n) ==
    LET l == g.label[n] IN
    CASE g.kind[n] = "file" -> {l.path, l.workspace, l.package}
      [] g.kind[n] = "package" -> {l.name, l.path, l.workspace}
      [] g.kind[n] = "workspace" -> {l.name, l.path}
      [] OTHER -> {}

QuerySeeds(g, query) == {n \in NodesOf(g) : NamesOfNode(g, n) \cap query # {}}

IsReachableFrom(g, profile, node, query) ==
    \E seed \in QuerySeeds(g, query) : node \in ForwardReachable(g, profile, seed)

DoesReach(g, profile, node, query) ==
    QuerySeeds(g, query) \cap ForwardReachable(g, profile, node) # {}

-----------------------------------------------------------------------------
(* Filters *)

(* A candidate is [path, workspace, package, tags, context, node].         *)
ValuesOf(c, labels) ==
    [path |-> {c.path}, workspace |-> {c.workspace}, package |-> {c.package},
     tag |-> c.tags, dependency_kinds |-> labels,
     profiles |-> IF c.context = None THEN {} ELSE c.context.profiles,
     entrypoint_kinds |->
        IF c.context = None THEN {} ELSE c.context.entrypoint_kinds]

Matches(g, profile, filter, c, labels) ==
    LET f == Compile(filter)
        values == ValuesOf(c, labels)
    IN /\ \A d \in Dimensions \cap DOMAIN f : values[d] \cap f[d] # {}
       /\ \A d \in DOMAIN Negated \cap DOMAIN f : values[Negated[d]] \cap f[d] = {}
       /\ Queries \cap DOMAIN f # {} => c.node # None
       /\ "reachable_from" \in DOMAIN f =>
            IsReachableFrom(g, profile, c.node, f.reachable_from)
       /\ "reaches" \in DOMAIN f => DoesReach(g, profile, c.node, f.reaches)

-----------------------------------------------------------------------------
(* The two ends of an edge *)

KindLabels ==
    [StaticImportValue |-> {"static", "static-value"},
     StaticImportType |-> {"static", "static-type", "type"},
     DynamicImport |-> {"dynamic"}, Require |-> {"require"},
     SideEffectImport |-> {"side-effect"},
     ReExportNamed |-> {"re-export", "re-export-named"},
     ReExportAll |-> {"re-export", "re-export-all"},
     RequireResolve |-> {"require-resolve"},
     ImportMetaGlob |-> {"import-meta-glob"},
     JsDocImport |-> {"jsdoc-import", "type"},
     TripleSlashFile |-> {"triple-slash", "triple-slash-file"},
     TripleSlashTypes |-> {"triple-slash", "triple-slash-types", "type"},
     ImportMetaResolve |-> {"import-meta-resolve"},
     RequireContext |-> {"require-context"},
     UrlConstructor |-> {"url-constructor"},
     ImportEquals |-> {"import-equals", "require"}]

(* An import of another file by the name of its package is external too.   *)
EdgeLabels(e) ==
    KindLabels[e.kind] \cup IF e.to_dependency # None THEN {"external"} ELSE {}

FileAt(b, path) ==
    LET same == {i \in DOMAIN b.files : b.files[i].path = path} IN
    IF path = None \/ same = {} THEN None
    ELSE b.files[CHOOSE i \in same : \A j \in same : i <= j]

EdgeTarget(b, e) ==
    LET file == FileAt(b, e.to_file)
        dependency == IF e.to_dependency = None THEN e.specifier ELSE e.to_dependency
        owners == {w \in DOMAIN b.workspaces :
                    dependency \in {w, b.workspaces[w].package}}
        w == CHOOSE x \in owners : TRUE
    IN IF file # None
       THEN [path |-> file.path, workspace |-> file.workspace,
             package |-> file.package, subject |-> file.path, node |-> file.path]
       ELSE IF owners # {}
       THEN [path |-> None, workspace |-> w,
             package |-> IF b.workspaces[w].package = None THEN w
                         ELSE b.workspaces[w].package,
             subject |-> dependency, node |-> b.workspaces[w].node]
       ELSE [path |-> None, workspace |-> None, package |-> dependency,
             subject |-> dependency, node |-> None]

FromCandidate(b, f, tags) ==
    [path |-> f.path, workspace |-> f.workspace, package |-> f.package,
     tags |-> tags.tags[f.path]
                \cup {KindTag(k) : k \in Context(b.graph, f.path).entrypoint_kinds},
     context |-> Context(b.graph, f.path), node |-> f.path]

(* The target has the tags of its package and workspace, not its own.      *)
TargetCandidate(b, t, tags) ==
    LET of(map, key) == IF key \in DOMAIN map THEN map[key] ELSE {} IN
    [path |-> t.path, workspace |-> t.workspace, package |-> t.package,
     tags |-> of(tags.packages, t.package) \cup of(tags.workspaces, t.workspace),
     context |-> IF t.path = None THEN None ELSE Context(b.graph, t.path),
     node |-> t.node]

(* Required and allow rules are compiled, and then asked for nothing.      *)
Evaluate(b, rules, teams, overrides, profile) ==
    LET tags == Tags(b, {t \in teams : Tagged(t)}, {o \in overrides : Tagged(o)}) IN
    UNION {
        LET f == b.files[i] IN
        {[rule |-> x[1].name, severity |-> x[1].severity, from |-> f.path,
          to |-> EdgeTarget(b, x[2]).subject, kind |-> x[2].kind] :
            x \in {y \in rules.forbidden \X f.edges :
                /\ y[2].outcome # "unresolved"
                /\ y[1].severity # "off"
                /\ Matches(b.graph, profile, y[1].from,
                           FromCandidate(b, f, tags), EdgeLabels(y[2]))
                /\ Matches(b.graph, profile, y[1].to,
                           TargetCandidate(b, EdgeTarget(b, y[2]), tags),
                           EdgeLabels(y[2]))}} :
        i \in DOMAIN b.files}
=============================================================================
