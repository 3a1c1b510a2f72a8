-------------------------------- MODULE Scan --------------------------------
(***************************************************************************)
(* What becomes of the findings of the analyzers on their way into the     *)
(* report of a scan (scan_with_options in apps/pruneguard/src/lib.rs):     *)
(* ignored issues, trust, the scope of a change, the baseline, the focus   *)
(* and the summary, in this order; and the reports of impact and explain.  *)
(*                                                                         *)
(* A path is a sequence of strings, its pieces, so that one path can be a  *)
(* prefix or a suffix of another.  A finding is a record                   *)
(*   [id, code, subject, tokens, evidence, package, workspace, severity,   *)
(*    confidence, context, notes]                                          *)
(* where tokens are the paths its subject names and evidence the files its *)
(* evidence names.  A set of paths stands for a glob.                      *)
(***************************************************************************)
EXTENDS GraphQueries

Refused == [ok |-> FALSE]
Answered(report) == [ok |-> TRUE, report |-> report]

-----------------------------------------------------------------------------
(* run_analyzers: the ignoreIssues rules; an empty set of files is no      *)
(* restriction.                                                            *)
IgnoredBy(finding, rules) ==
    \E r \in rules : /\ r.kind = finding.code
                     /\ r.files = {} \/ finding.subject \in r.files

WithoutIgnored(findings, rules) ==
    {f \in findings : ~IgnoredBy(f, rules)}

PrimaryActionKind(code) ==
    CASE code = "unused-file" -> "delete-file"
      [] code \in {"unused-export", "unused-type"} -> "delete-export"
      [] code \in {"unused-dependency", "unused-package"} -> "remove-dependency"
      [] code = "cycle" -> "break-cycle"
      [] code = "boundary-violation" -> "update-boundary-rule"
      [] code \in {"ownership-unowned", "ownership-cross-owner",
                   "ownership-hotspot"} -> "assign-owner"
      [] OTHER -> None

-----------------------------------------------------------------------------
(* CompatibilityReport: a detection is exact or heuristic; a signal names  *)
(* its framework.  Each heuristic detection and each signal is a downgrade *)
(* of the whole report.                                                    *)

(* Of the detections of all workspaces, the first of each framework *)
FirstDetections(detections) ==
    {detections[i] : i \in {j \in DOMAIN detections :
        \A k \in 1..(j - 1) : detections[k].name # detections[j].name}}

(* The manifest and files of the project show a framework that no          *)
(* detection names.                                                        *)
UnsupportedSignals(first, deps, files) ==
    {s \in deps : \A d \in first : d.name # s.name} \cup files

Compatibility(detections, deps, files) ==
    LET first == FirstDetections(detections)
        heuristic == {d \in first : d.confidence = "heuristic"}
        signals == UnsupportedSignals(first, deps, files)
    IN [heuristic |-> {d.name : d \in heuristic},
        supported |-> {d.name : d \in first \ heuristic},
        unsupported |-> {s.name : s \in signals},
        downgrades |-> {d.name : d \in heuristic} \cup {s.name : s \in signals}]

ShouldApplyStrictTrust(compat) ==
    compat.heuristic # {} \/ compat.unsupported # {}

Lowered(confidence) == IF confidence = "high" THEN "medium" ELSE "low"

(* Confidence and notes of every finding, whatever its path *)
ApplyTrustDowngrades(compat, findings) ==
    IF compat.downgrades = {} THEN findings
    ELSE {[f EXCEPT !.confidence = Lowered(@),
                    !.notes = @ \cup compat.downgrades] : f \in findings}

(* The frameworks named by the report, then those of the entrypoints in    *)
(* the finding's workspace or at a path that overlaps its own.             *)
AttachContext(compat, entrypoints, findings) ==
    LET near(f) == {e.framework :
            e \in {x \in entrypoints :
                    /\ x.framework # None
                    /\ \/ x.workspace = f.workspace
                       \/ \E t \in f.tokens : x.path = t}}
    IN {[f EXCEPT !.context = @ \cup compat.heuristic \cup compat.unsupported
                              \cup near(f)] : f \in findings}

-----------------------------------------------------------------------------
(* collect_changed_scope: the lines of git diff --name-status since the    *)
(* merge base.  A status other than these six ends the scan.               *)
Statuses == {"A", "M", "T", "C", "D", "R"}

CollectChangedScope(diff) ==
    IF diff = None THEN Refused
    ELSE IF \E l \in diff : l.status \notin Statuses THEN Refused
    ELSE Answered(
        [added |-> {l.path : l \in {x \in diff : x.status = "A"}},
         modified |-> {l.path : l \in {x \in diff : x.status \in {"M", "T", "C"}}},
         deleted |-> {l.path : l \in {x \in diff : x.status = "D"}},
         renamed |-> {<<l.path, l.to>> : l \in {x \in diff : x.status = "R"}}])

ChangedPaths(scope) ==
    scope.added \cup scope.modified \cup scope.deleted
        \cup UNION {{r[1], r[2]} : r \in scope.renamed}

(* A deleted path that the path index of the cache still knows; index is   *)
(* None without a cache, and else maps paths to packages.                  *)
Recoverable(scope, index) ==
    IF index = None THEN {} ELSE scope.deleted \cap DOMAIN index

(* find_file: the file of that path, and else the first in the order of    *)
(* discovery whose path ends with the query.                               *)
FindFile(g, query) ==
    LET ends == {i \in DOMAIN g.files : IsSuffix(query, g.files[i])} IN
    IF query \in FileNodes(g) THEN query
    ELSE IF ends = {} THEN None
    ELSE g.files[CHOOSE i \in ends : \A j \in ends : i <= j]

(* Mutant of AffectedScope: what imports a changed file is not affected. *)
ChangedFilesOnly(g, scope, index, profile) ==
    LET changed == scope.added \cup scope.modified \cup {r[2] : r \in scope.renamed}
        found == {FindFile(g, p) : p \in changed} \ {None}
        gone == Recoverable(scope, index)
    IN [incomplete |-> scope.deleted # gone,
        files |-> found \cup gone,
        entrypoints |-> {},
        packages |-> {g.package[f] : f \in found} \cup {index[p] : p \in gone}]

(* compute_affected_scope: each changed file, and what reaches it and is   *)
(* itself reachable.                                                       *)
AffectedScope(g, scope, index, profile) ==
    LET changed == scope.added \cup scope.modified \cup {r[2] : r \in scope.renamed}
        found == {FindFile(g, p) : p \in changed} \ {None}
        gone == Recoverable(scope, index)
        nodes == (UNION {ReverseReachable(g, f) : f \in found})
                    \cap ReachableNodes(g, profile)
        files == found \cup (nodes \cap FileNodes(g))
    IN [incomplete |-> scope.deleted # gone,
        files |-> files \cup gone,
        entrypoints |-> {n \in nodes : g.kind[n] = "entrypoint"},
        packages |-> ({g.package[f] : f \in files} \cup {index[p] : p \in gone})
                        \ {None}]

(* The paths of the subject decide alone; a subject without a path leaves  *)
(* it to the evidence and then to the package.                             *)
InAffectedScope(f, affected) ==
    IF f.tokens # {} THEN f.tokens \cap affected.files # {}
    ELSE \/ f.evidence \cap affected.files # {}
         \/ f.package \in affected.packages

ApplyChangedScope(report, affected, scope) ==
    [report EXCEPT
        !.changed_files = Cardinality(ChangedPaths(scope)),
        !.affected_scope_incomplete = affected.incomplete,
        !.findings = IF affected.incomplete THEN @
                     ELSE {f \in @ : InAffectedScope(f, affected)}]

-----------------------------------------------------------------------------
(* load_baseline: the first candidate that exists; one that cannot be      *)
(* parsed ends the scan.                                                   *)
LoadBaseline(disk, config_dir) ==
    LET candidates == (IF config_dir THEN <<disk.config_dir>> ELSE <<>>)
                        \o <<disk.root>>
        there == {i \in DOMAIN candidates : candidates[i] # None}
    IN IF there = {} THEN None
       ELSE candidates[CHOOSE i \in there : \A j \in there : i <= j]

(* apply_baseline; the mismatch of profiles is noted on the first finding  *)
ApplyBaseline(report, baseline) ==
    LET new == {f \in report.findings : f.id \notin baseline.ids} IN
    [report EXCEPT
        !.findings = new,
        !.baseline_applied = TRUE,
        !.baseline_profile_mismatch = baseline.profile # report.profile,
        !.suppressed_findings =
            @ + Cardinality(report.findings) - Cardinality(new),
        !.new_findings = Cardinality(new)]

(* A package is in focus with any of its files. *)
MatchesFocus(f, focus, g) ==
    \/ f.tokens \cap focus # {}
    \/ f.evidence \cap focus # {}
    \/ /\ f.code = "unused-package"
       /\ \E p \in FileNodes(g) \cap focus : g.package[p] = f.package

ApplyFocus(report, focus, g) ==
    LET kept == {f \in report.findings : MatchesFocus(f, focus, g)} IN
    [report EXCEPT !.findings = kept,
                   !.focused_files = Cardinality(FileNodes(g) \cap focus),
                   !.focused_findings = Cardinality(kept)]

Count(findings, Is(_)) == Cardinality({f \in findings : Is(f)})

RefreshSummary(report) ==
    LET found == report.findings IN
    [report EXCEPT
        !.total_findings = Cardinality(found),
        !.errors = Count(found, LAMBDA f : f.severity = "error"),
        !.high = Count(found, LAMBDA f : f.confidence = "high"),
        !.new_findings = IF report.baseline_applied /\ @ = 0
                         THEN Cardinality(found) ELSE @]

-----------------------------------------------------------------------------
(* The analyses whose findings a partial scope makes doubtful *)
DeadCodeAnalyzersEnabled(analysis) ==
    \E a \in {"unused_exports", "unused_files", "unused_packages",
              "unused_dependencies"} : analysis[a] # "off"

ReportFromBuild(findings, suppressed, profile) ==
    [findings |-> findings, profile |-> profile,
     total_findings |-> Cardinality(findings),
     errors |-> Count(findings, LAMBDA f : f.severity = "error"),
     high |-> 0, suppressed_findings |-> suppressed, new_findings |-> 0,
     changed_files |-> 0, affected_scope_incomplete |-> FALSE,
     baseline_applied |-> FALSE, baseline_profile_mismatch |-> FALSE,
     focused_files |-> None, focused_findings |-> None,
     strict_trust_applied |-> FALSE]

(* A build b is a graph, the findings of its analyzers, its entrypoints,   *)
(* and what was seen of frameworks; the world w is the difference to the   *)
(* reference, the path index and the baselines on the disk.                *)
ScanWithOptions(b, w, options) ==
    LET shown == WithoutIgnored(b.findings, options.ignore_issues)
        compat == Compatibility(b.detections, b.signal_deps, b.signal_files)
        trusted == AttachContext(compat, b.entrypoints,
                                 ApplyTrustDowngrades(compat, shown))
        built == [ReportFromBuild(trusted,
                        Cardinality(b.findings) - Cardinality(shown),
                        options.profile)
                    EXCEPT !.strict_trust_applied = ShouldApplyStrictTrust(compat)]
        index == IF options.no_cache THEN None ELSE w.index
        scope == CollectChangedScope(w.diff)
        changed == IF options.changed_since
                   THEN ApplyChangedScope(built,
                            AffectedScope(b.graph, scope.report, index,
                                          options.profile), scope.report)
                   ELSE built
        baseline == IF options.no_baseline THEN None
                    ELSE LoadBaseline(w.baselines, options.config_dir)
        new == IF baseline = None THEN changed ELSE ApplyBaseline(changed, baseline)
        focused == IF options.focus = None THEN new
                   ELSE ApplyFocus(new, options.focus, b.graph)
    IN IF \/ /\ options.require_full_scope
             /\ b.partial_scope
             /\ DeadCodeAnalyzersEnabled(options.analysis)
          \/ options.changed_since /\ ~scope.ok
          \/ baseline = [unreadable |-> TRUE]
       THEN Refused
       ELSE Answered(RefreshSummary(focused))

-----------------------------------------------------------------------------
(* impact_with_options: the answer names files, not nodes; evidence is the *)
(* path of one entrypoint to the target.                                   *)
ImpactWithOptions(g, query, profile, focus) ==
    LET target == FindFile(g, query)
        analysis == Impact(g, target, profile)
        path == ShortestPath(g, target, profile)
        whole == [target |-> target,
                  affected_entrypoints |-> analysis.entrypoints,
                  affected_packages |-> analysis.packages,
                  affected_files |-> analysis.files,
                  evidence |-> IF path = None THEN {} ELSE {path},
                  focus_filtered |-> FALSE]
        files == whole.affected_files \cap focus
        kept == [whole EXCEPT
                    !.affected_files = files,
                    !.affected_packages = @ \cap {g.package[f] : f \in files},
                    !.affected_entrypoints = @ \cap focus,
                    !.evidence = {p \in @ : target \in focus
                                            \/ ToSet(p) \cap focus # {}}]
    IN IF target = None THEN Refused
       ELSE IF focus = None THEN Answered(whole)
       ELSE Answered([kept EXCEPT !.focus_filtered = kept # whole])

(* The proof tree of explain is a chain, cut after the last node in focus. *)
ProofInFocus(path, focus) ==
    LET hits == {i \in DOMAIN path : path[i] \in focus} IN
    IF hits = {} THEN <<>>
    ELSE SubSeq(path, 1, CHOOSE i \in hits : \A j \in hits : j <= i)

(* A query is what its text can be read as, or None: an id, a subject, and *)
(* the path before a #.                                                    *)
ExplainWithOptions(b, query, profile, focus) ==
    LET related == {f \in b.findings : f.id = query.id \/ f.subject = query.subject}
        first == CHOOSE f \in related : \A x \in related : f.id <= x.id
        paths == IF related = {} THEN {query.subject, query.path}
                 ELSE {first.subject} \cup
                      (IF Cardinality(first.tokens) = 1 THEN first.tokens ELSE {})
        file == {FindFile(b.graph, p) : p \in paths \ {None}} \ {None}
        path == IF file = {} THEN None
                ELSE ShortestPath(b.graph, CHOOSE p \in file : TRUE, profile)
        whole == [query_kind |-> IF \E f \in related : f.id = query.id THEN "finding"
                                 ELSE IF query.path = None THEN "file" ELSE "export",
                  related_findings |-> related,
                  proof |-> IF path = None THEN <<>> ELSE path]
    IN IF focus = None THEN whole
       ELSE [whole EXCEPT
                !.related_findings =
                    {f \in @ : MatchesFocus(f, focus, b.graph)},
                !.proof = ProofInFocus(@, focus)]
=============================================================================
