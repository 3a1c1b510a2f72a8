---------------------------- MODULE FunctionsMC ----------------------------
(***************************************************************************)
(* The parts of the program that compute an answer from an input, each     *)
(* asked for every input of a bounded set: a state is a question, and the  *)
(* one step from it is the answer.                                         *)
(***************************************************************************)
EXTENDS Cli

CONSTANT Families

VARIABLES family, input, result

vars == <<family, input, result>>

P == INSTANCE ProjectInputs
H == INSTANCE SemanticIndex

Subset(S, n) == {T \in SUBSET S : Cardinality(T) <= n}

-----------------------------------------------------------------------------
(* Graphs of one entrypoint and three files; the path of one file ends     *)
(* with that of another.                                                   *)
E == <<"e", "ntry">>
A == <<"a">>
SA == <<"src/", "a">>
B == <<"src/", "b">>
Files == {A, SA, B}

(* None, the absence of a value, is no path, no baseline and no chain. *)
ASSUME NoneIsNoValue == /\ None \notin Files \cup {E}
                        /\ None # [unreadable |-> TRUE]
                        /\ None \notin Seq(Files \cup {E})

GraphOf(edges, profile) ==
    [kind |-> [n \in Files \cup {E} |-> IF n = E THEN "entrypoint" ELSE "file"],
     profile |-> [n \in {E} |-> profile],
     package |-> [f \in Files |-> IF f = A THEN None ELSE "pkg"],
     files |-> <<SA, A, B>>,
     edges |-> edges]

AllEdges == ({E} \X Files) \cup {e \in Files \X Files : e[1] # e[2]}

GraphInputs == [edges : SUBSET AllEdges, target : Files]

GraphAnswer(i) ==
    LET g == GraphOf(i.edges, "both") IN
    [path |-> ShortestPath(g, i.target, "production"),
     impact |-> Impact(g, i.target, "production"),
     cycles |-> CycleFindings(g, {})]

(* What is closed under the edges against their direction *)
ClosedBackwards(S, edges) == \A e \in edges : e[2] \in S => e[1] \in S

(* The impact of a file is the smallest set of files and entrypoints that  *)
(* holds it and whatever imports a member: nothing that can reach the file *)
(* is missing, and nothing else is named (impact.rs:15).                   *)
ImpactIsExact ==
    family = "graph" /\ result # None =>
        LET named == result.impact.files \cup result.impact.entrypoints IN
        /\ input.target \in named
        /\ ClosedBackwards(named, input.edges)
        /\ \A S \in SUBSET named :
              input.target \in S /\ ClosedBackwards(S, input.edges) => S = named

IsPath(p, edges) == \A i \in 1..(Len(p) - 1) : <<p[i], p[i + 1]>> \in edges

(* A proof that a file is reachable is a path of the graph that starts at  *)
(* an entrypoint and ends at the file, none is shorter, and there is one   *)
(* whenever the file is reachable (module_graph.rs:338).                   *)
ProofIsShortest ==
    family = "graph" /\ result # None =>
        LET paths == {p \in UNION {[1..n -> Files \cup {E}] : n \in 2..4} :
                        /\ p[1] = E
                        /\ p[Len(p)] = input.target
                        /\ IsPath(p, input.edges)}
        IN IF paths = {} THEN result.path = None
           ELSE result.path \in paths /\ \A p \in paths : Len(result.path) <= Len(p)

(* The chain of a reported cycle is a closed path of the graph through     *)
(* files of the component it is reported for (cycles.rs:77).               *)
CycleIsReal ==
    family = "graph" /\ result # None =>
        \A c \in result.cycles :
            /\ c.subject # None
            /\ ToSet(c.subject) \subseteq c.files
            /\ Len(c.subject) > 2
            /\ c.subject[1] = c.subject[Len(c.subject)]
            /\ IsPath(c.subject, input.edges)

-----------------------------------------------------------------------------
(* The commands on a project of that shape, with the findings its graph    *)
(* has: a file that is not reached is unused, a reached one may have an    *)
(* unused export, and there is an unused dependency.                       *)
Gone == <<"src/", "gone">>
Dependency == <<"left", "-pad">>

Finding(id, code, subject, tokens, severity, confidence) ==
    [id |-> id, code |-> code, subject |-> subject, tokens |-> tokens,
     evidence |-> {}, package |-> "pkg", workspace |-> None,
     severity |-> severity, confidence |-> confidence,
     context |-> {}, notes |-> {}]

IdOf(f) == CHOOSE i \in 1..3 : <<A, SA, B>>[i] = f

FindingsOf(g, confidence) ==
    LET reached == ReachableFileIds(g, "production") IN
    {Finding(IdOf(f), "unused-file", f, {f}, "warn", confidence) :
        f \in Files \ reached}
    \cup {Finding(10 + IdOf(f), "unused-export", f \o <<"#", "x">>, {f},
                  "error", "high") : f \in reached \ {B}}
    \cup {Finding(20, "unused-dependency", Dependency, {Dependency}, "info",
                  "high")}
    \cup {Finding(30, "cycle", c.subject[1] \o <<" -> ">>, c.files, "warn",
                  c.confidence) : c \in CycleFindings(g, {})}

BuildOf(edges, confidence, detections, unresolved, partial) ==
    LET g == GraphOf(edges, "both") IN
    [graph |-> g, findings |-> FindingsOf(g, confidence),
     detections |-> detections, signal_deps |-> {}, signal_files |-> {},
     entrypoints |-> {}, partial_scope |-> partial,
     files_resolved |-> 10, unresolved |-> unresolved]

Heuristic == <<[name |-> "vite", confidence |-> "heuristic"]>>

Options ==
    [ignore_issues |-> {}, profile |-> "production", changed_since |-> FALSE,
     no_cache |-> FALSE, no_baseline |-> FALSE, config_dir |-> FALSE,
     require_full_scope |-> FALSE, focus |-> None, strict_trust |-> FALSE,
     analysis |-> [a \in {"unused_exports", "unused_files",
                          "unused_packages", "unused_dependencies"} |-> "warn"]]

Diffs ==
    {None, {}, {[status |-> "M", path |-> B]}, {[status |-> "D", path |-> Gone]},
     {[status |-> "R", path |-> Gone, to |-> SA], [status |-> "D", path |-> Gone]},
     {[status |-> "X", path |-> A]}}

Baselines == {None, [profile |-> "production", ids |-> {3, 11, 20}],
              [unreadable |-> TRUE]}

ReportInputs ==
    [edges : SUBSET {<<E, A>>, <<A, B>>, <<B, SA>>, <<SA, A>>},
     diff : Diffs, known : BOOLEAN, baseline : Baselines, focus : {None, {A}},
     doubt : {"none", "heuristic", "partial", "unresolved"},
     changed_since : BOOLEAN, no_cache : BOOLEAN]

ReportBuild(i) ==
    BuildOf(i.edges, "high", IF i.doubt = "heuristic" THEN Heuristic ELSE <<>>,
            IF i.doubt = "unresolved" THEN 1 ELSE 0, i.doubt = "partial")

ReportAnswer(i) ==
    LET b == ReportBuild(i)
        w == [diff |-> i.diff,
              index |-> [p \in IF i.known THEN {Gone} ELSE {} |-> "pkg"],
              baselines |-> [root |-> i.baseline, config_dir |-> None]]
        o == [Options EXCEPT !.changed_since = i.changed_since,
                             !.focus = i.focus, !.no_cache = i.no_cache,
                             !.strict_trust = TRUE]
    IN [scan |-> ScanWithOptions(b, w, o), review |-> Review(b, w, o)]

Reported(f, findings) == \E r \in findings : r.id = f.id

(* A finding that the analyzers make is missing from the report only for a *)
(* reason that was asked for: it is in the baseline, out of the focus, or  *)
(* the change is known entirely and touches none of the paths it names nor *)
(* anything that these reach (lib.rs:118).                                 *)
ScanHidesOnlyKnown ==
    family = "reports" /\ result # None /\ result.scan.ok =>
        LET b == ReportBuild(input)
            reaches(p) == {f \in Files : p \in Files /\
                p \in ReverseReachable(b.graph, f)}
            touched == {l.path : l \in {x \in input.diff : x.status = "M"}}
                       \cup {l.to : l \in {x \in input.diff : x.status = "R"}}
            lost == ~input.known \/ input.no_cache
            deleted == {l.path : l \in {x \in input.diff : x.status = "D"}}
            known(f) == input.baseline # None /\ f.id \in input.baseline.ids
            outOfFocus(f) == input.focus # None /\ f.tokens \cap input.focus = {}
            untouched(f) ==
                /\ input.changed_since
                /\ deleted = {} \/ ~lost
                /\ f.tokens \cap (touched \cup deleted) = {}
                /\ \A p \in f.tokens \cap ReachableNodes(b.graph, "production") :
                        reaches(p) \cap touched = {}
        IN \A f \in b.findings : Reported(f, result.scan.report.findings)
                \/ known(f) \/ outOfFocus(f) \/ untouched(f)

(* A strict review in doubt blocks nothing, whether the doubt is a partial *)
(* scope, unresolved imports, or a framework that is only guessed - which  *)
(* the statistics it looks at do not know, but the confidence of each      *)
(* finding does; and no review loses a finding (lib.rs:962).               *)
DoubtNeverBlocks ==
    family = "reports" /\ result # None /\ result.review.ok =>
        LET r == result.review.report IN
        /\ r.blocking_findings \cup r.advisory_findings = r.new_findings
        /\ r.blocking_findings \cap r.advisory_findings = {}
        /\ input.doubt # "none" => r.blocking_findings = {}

Flags == [severity |-> "info", max_findings |-> None]

(* The exit code of a command with a daemon in some state *)
CodeOf(command, mode, daemon) ==
    ExitCode(command, mode, daemon, ReportBuild(input), Options, Flags,
               result[command])

(* A daemon that is absent, cold or dying does not show: unless it is      *)
(* required, the exit code is 1 for what a run without it finds, 2 for an  *)
(* error of that run, and 0 otherwise (main.rs:376).                       *)
FallbackIsInvisible ==
    family = "reports" /\ result # None =>
        \A daemon \in DaemonStates \ {"warm"} :
            /\ CodeOf("scan", "auto", daemon) =
                IF ~result.scan.ok THEN 2
                ELSE IF result.scan.report.findings = {} THEN 0 ELSE 1
            /\ CodeOf("review", "auto", daemon) =
                IF ~result.review.ok THEN 2
                ELSE IF Blocking(result.scan.report.findings) = {}
                        \/ input.doubt # "none" THEN 0 ELSE 1

(* "Exit code 0 means safe to merge. Exit code 1 means blocking findings   *)
(* exist." (docs/getting-started.md:38), with or without a daemon          *)
ReviewExitTells ==
    family = "reports" /\ result # None /\ result.review.ok =>
        \A daemon \in DaemonStates :
            CodeOf("review", "auto", daemon) =
                IF result.review.report.blocking_findings = {} THEN 0 ELSE 1

-----------------------------------------------------------------------------
(* safe-delete and fix-plan *)

RemovalInputs ==
    [edges : SUBSET AllEdges, confidence : {"high", "medium"},
     unresolved : {0, 1}, targets : {<<A, SA>>, <<SA, B, A>>}]

Alphabetical == [f \in Files |-> CASE f = A -> 1 [] f = B -> 2 [] f = SA -> 3]

RemovalAnswer(i) ==
    LET b == BuildOf(i.edges, i.confidence, <<>>, i.unresolved, FALSE)
        w == [diff |-> None, index |-> [p \in {} |-> "pkg"],
              baselines |-> [root |-> None, config_dir |-> None]]
    IN [deletion |-> SafeDelete(b, w, Options, i.targets, Alphabetical),
        plan |-> FixPlan(b, w, Options,
                           {[id |-> 20, text |-> t] : t \in ToSet(i.targets)})]

(* Whatever still imports a safe target has a path that ends like it, so   *)
(* that no other file is left with an import of nothing (lib.rs:1167).     *)
(* The order of deletion holds the safe targets, once each, and one that   *)
(* no other imports stands before those it imports (lib.rs:1856).          *)
SafeTargetsAreFree ==
    family = "removal" /\ result # None =>
        LET d == result.deletion.report
            order == d.deletion_order
            alike(f, t) == IsSuffix(f, t) \/ IsSuffix(t, f)
        IN /\ ToSet(order) = d.safe /\ Len(order) = Cardinality(d.safe)
           /\ \A t \in d.safe : \A e \in input.edges :
                    e[2] = t => e[1] # E /\ alike(e[1], t)
           /\ \A i, j \in DOMAIN order :
                    /\ <<order[i], order[j]>> \in input.edges
                    /\ \A t \in d.safe : <<t, order[i]>> \notin input.edges
                    => i < j

(* A plan has one action or one open point for each finding it matches,    *)
(* actions on dead code first, and no action is surer than its finding     *)
(* (lib.rs:1386).                                                          *)
PlanCoversFindings ==
    family = "removal" /\ result # None =>
        LET p == result.plan.report
            actionOf(f) == {i \in DOMAIN p.actions : p.actions[i].id = f.id}
        IN /\ \A f \in p.matched_findings :
                \/ f.code \in p.blocked_by /\ actionOf(f) = {}
                \/ /\ Cardinality(actionOf(f)) = 1
                   /\ \A i \in actionOf(f) :
                        ConfidenceRank(p.actions[i].confidence)
                            >= ConfidenceRank(f.confidence)
           /\ \A i, j \in DOMAIN p.actions :
                i < j => PhaseForAction(p.actions[i].kind)
                            <= PhaseForAction(p.actions[j].kind)

-----------------------------------------------------------------------------
(* The configuration *)

(* None is no error, no name of a file, no section and no list of rules. *)
ASSUME NoneIsNoSetting ==
    /\ None \notin {"read", "parse", "endless", "not_found"}
    /\ None \notin P!DiskFiles
    /\ None \notin [{"next", "vue"} -> {None, "main", "a", "b"}]
    /\ None \notin [P!Conf!RuleLists -> Seq({"main", "a", "b"})]

Usable(disk) == {n \in DOMAIN disk : disk[n] \notin {None, P!Conf!Malformed}}

BasesIn(disk) == [n \in DOMAIN disk |->
    IF n \in Usable(disk) THEN ToSet(disk[n].extends) ELSE {}]

(* A file, and those that it leads to *)
LedTo(start, next) == {start} \cup Closure(next[start], next)

Extended(disk, start) == LedTo(start, BasesIn(disk))

(* What each file says of a setting, and the entries it has for a list *)
SectionIn(disk, f) == [n \in Usable(disk) |-> disk[n].sections[f]]
FrameworksIn(disk) == [n \in Usable(disk) |-> disk[n].frameworks]
ToggleIn(disk, t) == [n \in Usable(disk) |->
    IF disk[n].frameworks = None THEN None ELSE disk[n].frameworks[t]]
EntriesIn(disk, l) == [n \in Usable(disk) |-> disk[n].lists[l]]
RulesIn(disk, l) == [n \in Usable(disk) |->
    IF disk[n].rules = None THEN <<>> ELSE disk[n].rules[l]]

(* The files that may decide a setting: they have it, and the first file   *)
(* extends them, itself or through files that do not have it.              *)
Silent(disk, value) == [n \in DOMAIN disk |->
    IF n \in Usable(disk) /\ value[n] = None THEN BasesIn(disk)[n] ELSE {}]

Deciders(disk, start, value) ==
    {n \in LedTo(start, Silent(disk, value)) \cap Usable(disk) : value[n] # None}

Decided(got, disk, start, value) ==
    IF \A n \in Extended(disk, start) : value[n] = None THEN got = None
    ELSE got \in {value[n] : n \in Deciders(disk, start, value)}

Collected(got, disk, start, entries) ==
    /\ ToSet(got) = UNION {ToSet(entries[n]) : n \in Extended(disk, start)}
    /\ IsSuffix(entries[start], got)

FrameworksDecided(got, disk, start) ==
    IF \A n \in Extended(disk, start) : disk[n].frameworks = None THEN got = None
    ELSE \E n \in Deciders(disk, start, FrameworksIn(disk)) :
            /\ DOMAIN got = DOMAIN disk[n].frameworks
            /\ \A t \in DOMAIN got :
                IF t \in P!Conf!Toggles THEN Decided(got[t], disk, start, ToggleIn(disk, t))
                ELSE got[t] = disk[n].frameworks[t]

Reflects(config, disk, start) ==
    /\ \A f \in P!Conf!Sections :
            Decided(config.sections[f], disk, start, SectionIn(disk, f))
    /\ FrameworksDecided(config.frameworks, disk, start)
    /\ \A l \in P!Conf!Lists :
            Collected(config.lists[l], disk, start, EntriesIn(disk, l))
    /\ \A l \in P!Conf!RuleLists :
            Collected(IF config.rules = None THEN <<>> ELSE config.rules[l],
                      disk, start, RulesIn(disk, l))

(* A configuration is loaded when no file that it extends, however far     *)
(* away, is missing, malformed or extends itself.  Then a section or a     *)
(* toggle is one that a file has which nothing between the first file and  *)
(* it overrides, and unset only if nobody sets it; a list has the entries  *)
(* of all files, the own ones last (config.rs:597, merge.rs:9).  Which of  *)
(* several bases goes first is left open: the comment on Merge says the    *)
(* last, the code takes the first.  The toggles that merge_from leaves out *)
(* are those of one of the nearest frameworks sections, and a base's are   *)
(* dropped where a nearer file has the section.                            *)
NearestSettingWins ==
    family = "config" /\ result # None =>
        LET disk == P!DiskOf(input)
            start == IF input.explicit # None THEN input.explicit
                     ELSE IF disk["pruneguard.json"] # None THEN "pruneguard.json"
                     ELSE ".pruneguardrc.json"
            files == Extended(disk, start)
        IN IF input.explicit = None /\ disk[start] = None
           THEN result = [error |-> None, config |-> P!Conf!DefaultConfig]
           ELSE /\ (result.error = None) <=>
                        /\ files \subseteq Usable(disk)
                        /\ \A n \in files :
                            n \notin Closure(BasesIn(disk)[n], BasesIn(disk))
                /\ result.error = None => Reflects(result.config, disk, start)

-----------------------------------------------------------------------------
(* Entrypoints *)

(* None is no kind of a file and no path. *)
ASSUME NoneIsNoFile ==
    /\ None # "ts"
    /\ None \notin {P!Lib, P!LibTest, P!Example, P!Built, P!InPkg(P!Lib)}

(* The scripts of a workspace run the file in production: the one that is  *)
(* met first does, for only the first reason for a file is kept.           *)
Serves(scripts) == scripts # <<>> /\ Head(scripts) = "start"

(* A file is live in production, and all its exports are in use, exactly   *)
(* when a manifest publishes it, itself or as what it is built to, the     *)
(* scripts of a workspace run it in production, or the configuration       *)
(* includes it.  What the scripts of the other workspace or a tool say of  *)
(* the same file takes nothing from that, and neither does a script of a   *)
(* workspace that publishes it; but where a workspace has scripts of       *)
(* development and of production that run the file, the one that the map   *)
(* of scripts gives first decides (entrypoints, lib.rs:209).  Otherwise    *)
(* only an exclusion, the roots of the scan and the detection of           *)
(* entrypoints being off hide the file (build.rs:1463).                    *)
PublicApiIsProduction ==
    family = "entrypoints" /\ result # None =>
        LET published == input.auto /\ input.main \in {P!Lib, P!Built}
            served == input.auto /\ (Serves(input.root_scripts) \/ Serves(input.pkg_scripts))
            kept == input.excluded = {} /\ input.scan_roots = {}
            live == kept /\ (published \/ served \/ P!Lib \in input.include)
        IN /\ (P!InPkg(P!Lib) \in {s.path : s \in result.production}) <=> live
           /\ (P!InPkg(P!Lib) \in result.public) <=> live

-----------------------------------------------------------------------------
(* Packages *)

(* An import counts for every analysis or for none.  Where no alias stands *)
(* for the package, its name is unused in a workspace exactly when no      *)
(* configuration and no reached file there imports it, in each profile;    *)
(* unlisted where it is imported and not declared; and forbidden in every  *)
(* file that production reaches.  Where the workspaces agree on an alias,  *)
(* the import is one of a file, and of no package to any of them           *)
(* (unused_dependencies.rs:97, build.rs:1246, lib.rs:97 of the rules).     *)
EveryImportCounts ==
    family = "packages" /\ result # None =>
        LET aliases == {input.root_alias, input.pkg_alias} \ {None}
            reached(profile) == result.reached[profile] \cap input.importers
            counted(w, profile) ==
                {f \in reached(profile) \cup IF profile = "production" THEN {}
                        ELSE reached("production") \cup reached("development")
                             \cup ({P!ViteConfig} \cap input.importers) :
                    P!WorkspaceOfFile(f) = w /\ (profile = "production" => f # P!Test)}
            declared(w, profile) ==
                \/ w \in input.declared
                \/ profile # "production" /\ w = "pkg" /\ "pkg-dev" \in input.declared
            about(findings) == {x.workspace : x \in {y \in findings :
                                                    y.name.text = "left-pad"}}
        IN IF aliases = {}
           THEN /\ \A profile \in {"production", "development", "both"} :
                    about(result.unused[profile]) =
                        {w \in {"root", "pkg"} : declared(w, profile)
                                                /\ counted(w, profile) = {}}
                /\ about(result.unlisted) =
                    {w \in {"root", "pkg"} : ~declared(w, "both")
                                            /\ counted(w, "both") # {}}
                /\ {v.from : v \in result.violations} = reached("production")
                /\ input.link # "none" =>
                    \A profile \in DOMAIN result.packages :
                        "pkg" \notin result.packages[profile] \/ profile = "development"
           ELSE Cardinality(aliases) = 1 =>
                    about(result.unlisted) = {} /\ result.violations = {}

-----------------------------------------------------------------------------
(* The semantic helper, asked about the name x of one of the files that    *)
(* "./d" may mean; two other files import from "./d", or from a package d. *)
File(suffix) == <<"d", suffix>>
First == <<"first", ".ts">>
Second == <<"second", ".ts">>

ASSUME NoneIsNoName == /\ None \notin {"x", "y", "z"}
                       /\ None \notin {File(".ts"), File("/index.ts")}

ImportOf(relative, name, is_type, name_is_type) ==
    [kind |-> "import", source |-> [relative |-> relative, base |-> "d"],
     names |-> {[imported |-> name, is_type |-> name_is_type]}, is_type |-> is_type]

ImportsOfX == {ImportOf(TRUE, "x", FALSE, FALSE), ImportOf(TRUE, "x", FALSE, TRUE),
               ImportOf(TRUE, H!Star, FALSE, FALSE), ImportOf(FALSE, "x", FALSE, FALSE),
               ImportOf(TRUE, "y", TRUE, FALSE)}

ExportOfX(is_type) ==
    [kind |-> "export_named", source |-> None, names |-> {"x"}, decls |-> {},
     is_type |-> is_type]

AliasesOfX == {[kind |-> "import_equals", alias |-> "x", chain |-> <<"y", "z">>],
               [kind |-> "import_equals", alias |-> "y", chain |-> <<"x", "z">>],
               [kind |-> "import_equals", alias |-> "z", chain |-> <<"y", "x">>]}

HelperInputs ==
    [asked : {".ts", "/index.ts"}, disk : (SUBSET {".ts", "/index.ts"}) \ {{}},
     first : {H!Unparsed} \cup SUBSET ImportsOfX,
     second : {{}, {ImportOf(TRUE, "x", FALSE, FALSE)}, {ImportOf(TRUE, "x", TRUE, FALSE)}},
     exports : {{}, {ExportOfX(FALSE)}, {ExportOfX(TRUE)}}, aliases : SUBSET AliasesOfX]

HelperAnswer(i) ==
    LET disk == {File(s) : s \in i.disk} \cup {First, Second}
        source(f) == CASE f = First -> i.first [] f = Second -> i.second
                       [] OTHER -> i.exports \cup i.aliases
        ix == H!Index([f \in disk |-> [statements |-> source(f), usages |-> {}]], disk)
        ask(kind) == H!ProcessQuery(ix,
            [kind |-> kind, file |-> File(i.asked), export_name |-> "x",
             parent_name |-> None, member_name |-> None])
    IN [references |-> ask("FindExportReferences").references,
        type_only |-> ask("ClassifyTypeOnlyVsValueUsage").is_type_only,
        chain |-> ask("ResolveNamespaceAliasChain").alias_chain]

(* The helper names the files that import the export or its whole module,  *)
(* when "./d" means the file it is asked about, and no others: these are   *)
(* what the build takes for a proof of use (build.rs:738).  It calls an    *)
(* export a type only if no value is imported by its name, and an alias    *)
(* chain, however the aliases refer to each other, repeats nothing.        *)
HelperNamesImporters ==
    family = "helper" /\ result # None =>
        LET meant == IF ".ts" \in input.disk THEN ".ts" ELSE "/index.ts"
            statements == IF input.first = H!Unparsed THEN {} ELSE input.first
            named(S) == {s \in S : /\ input.asked = meant /\ s.source.relative
                                   /\ \E n \in s.names : n.imported = "x"}
            all(S) == {s \in S : /\ input.asked = meant
                                 /\ \E n \in s.names : n.imported = H!Star}
            users == {f \in {First, Second} :
                        LET S == IF f = First THEN statements ELSE input.second IN
                        named(S) \cup all(S) # {}}
            values == {s \in named(statements \cup input.second) :
                        ~s.is_type /\ \A n \in s.names : ~n.is_type}
        IN /\ {r.file : r \in result.references} = users
           /\ result.type_only = TRUE =>
                values = {} \/ ExportOfX(TRUE) \in input.exports
           /\ \A i, j \in DOMAIN result.chain :
                result.chain[i] = result.chain[j] => i = j

-----------------------------------------------------------------------------
Ask(name, inputs) ==
    name \in Families /\ family = name /\ input \in inputs

Init == /\ result = None
        /\ \/ Ask("graph", GraphInputs)
           \/ Ask("reports", ReportInputs)
           \/ Ask("removal", RemovalInputs)
           \/ Ask("config", P!ConfigInputs)
           \/ Ask("entrypoints", P!EntrypointInputs)
           \/ Ask("packages", P!PackageInputs)
           \/ Ask("helper", HelperInputs)

Answer(name, answer) ==
    /\ family = name
    /\ result = None
    /\ result' = answer
    /\ UNCHANGED <<family, input>>

Next == \/ Answer("graph", GraphAnswer(input))
        \/ Answer("reports", ReportAnswer(input))
        \/ Answer("removal", RemovalAnswer(input))
        \/ Answer("config", P!ConfigAnswer(input))
        \/ Answer("entrypoints", P!EntrypointAnswer(input))
        \/ Answer("packages", P!PackageAnswer(input))
        \/ Answer("helper", HelperAnswer(input))

Spec == Init /\ [][Next]_vars
=============================================================================
