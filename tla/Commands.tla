------------------------------ MODULE Commands ------------------------------
(***************************************************************************)
(* The commands built on a scan (apps/pruneguard/src/lib.rs): review,      *)
(* safe-delete, fix-plan and the compatibility report.  Builds, worlds and *)
(* options are those of Scan; a subject is a path, or a path followed by   *)
(* pieces of its own.                                                      *)
(***************************************************************************)
EXTENDS Scan

(* UnresolvedPressure *)
ExceedsPercent(b, threshold) ==
    LET total == b.files_resolved + b.unresolved IN
    total > 0 /\ b.unresolved * 100 > threshold * total

-----------------------------------------------------------------------------
(* The tables of a remediation *)

ConfidenceRank(c) == CASE c = "high" -> 0 [] c = "medium" -> 1 [] c = "low" -> 2
RiskRank(r) == CASE r = "low" -> 0 [] r = "medium" -> 1 [] r = "high" -> 2

RiskForAction(kind) ==
    CASE kind \in {"delete-file", "remove-dependency"} -> "medium"
      [] kind = "break-cycle" -> "high"
      [] OTHER -> "low"

PhaseForAction(kind) ==
    CASE kind \in {"delete-export", "delete-file", "remove-dependency"} -> 0
      [] kind = "break-cycle" -> 1
      [] OTHER -> 2

PhaseNames == <<"dead-code", "architecture", "governance">>

BlastRadiusRank(kind) ==
    CASE kind = "delete-export" -> 0
      [] kind = "delete-file" -> 1
      [] kind = "remove-dependency" -> 2
      [] kind \in {"update-boundary-rule", "assign-owner"} -> 4
      [] kind = "break-cycle" -> 5

(* What the steps of an action do, and to which file *)
RemediationSteps(kind, finding) ==
    LET file == IF finding.tokens = {} THEN None
                ELSE CHOOSE p \in finding.tokens : TRUE
    IN CASE kind = "delete-file" -> <<[file |-> file, action |-> "delete"]>>
         [] kind \in {"delete-export", "update-boundary-rule"} ->
                <<[file |-> file, action |-> "edit"]>>
         [] kind = "remove-dependency" -> <<[file |-> None, action |-> "edit"]>>
         [] kind = "break-cycle" -> <<[file |-> file, action |-> None],
                                      [file |-> None, action |-> "refactor"]>>
         [] kind = "assign-owner" -> <<[file |-> None, action |-> "config"]>>

RemediationAction(finding) ==
    LET kind == PrimaryActionKind(finding.code) IN
    [kind |-> kind, id |-> finding.id, targets |-> {finding.subject},
     steps |-> RemediationSteps(kind, finding), risk |-> RiskForAction(kind),
     confidence |-> finding.confidence]

(* Mutant of RanksBefore: the surest action first, whatever its phase. *)
SurestFirst(a, b) ==
    \/ ConfidenceRank(a.confidence) < ConfidenceRank(b.confidence)
    \/ a.confidence = b.confidence /\ a.id < b.id

(* The order of rank_remediation_actions; the sort is stable and the       *)
(* findings come in the order of their ids.                                *)
RanksBefore(a, b) ==
    LET key(x) == <<PhaseForAction(x.kind), BlastRadiusRank(x.kind),
                    ConfidenceRank(x.confidence), RiskRank(x.risk), x.id>>
    IN \E i \in 1..5 : /\ key(a)[i] < key(b)[i]
                       /\ \A j \in 1..(i - 1) : key(a)[j] = key(b)[j]

(* A set in the order of a relation that ranks any two of its elements:    *)
(* as many come before an element as the relation puts there.              *)
Ordered(S, R) ==
    [k \in 1..Cardinality(S) |->
        CHOOSE x \in S : Cardinality({y \in S : <<y, x>> \in R}) = k - 1]

Ranked(actions) ==
    Ordered(actions, {p \in actions \X actions : RanksBefore(p[1], p[2])})

Actionable(findings) == {f \in findings : PrimaryActionKind(f.code) # None}

-----------------------------------------------------------------------------
(* review *)

Blocking(findings) ==
    {f \in findings : f.confidence = "high" /\ f.severity # "info"}

Advisory(findings) ==
    {f \in findings : f.confidence # "high" \/ f.severity = "info"}

Deletable == {"unused-file", "unused-export", "unused-type"}

(* The recommended actions, in the order of their priorities *)
RecommendedActions(b, blocking, advisory) ==
    LET When(condition, kind, targets) ==
            IF condition THEN <<[kind |-> kind, targets |-> targets]>> ELSE <<>>
        deletable == {f.subject : f \in {x \in blocking : x.code \in Deletable}}
        others == {f.subject : f \in {x \in blocking : x.code \notin Deletable}}
        ids(findings) == {f.id : f \in findings}
    IN When(deletable # {}, "RunSafeDelete", deletable)
       \o When(others # {}, "RunFixPlan", others)
       \o When(blocking # {}, "ResolveBlocking", ids(blocking))
       \o When(ExceedsPercent(b, 5), "FixResolverConfig", {})
       \o When(b.partial_scope, "RunFullScope", {})
       \o When(advisory # {}, "ReviewAdvisory", ids(advisory))
       \o When(blocking \cup advisory = {}, "None", {})

(* build_compat_output_from_stats, given the statistics of the build.  A   *)
(* build leaves its statistics of frameworks empty: the scan fills in      *)
(* those of its own report only.                                           *)
BuildStats(b) ==
    [frameworks_detected |-> {}, heuristic_frameworks |-> {},
     files_resolved |-> b.files_resolved, unresolved |-> b.unresolved]

CompatibilityOutput(stats) ==
    [supported |-> stats.frameworks_detected,
     heuristic |-> stats.heuristic_frameworks,
     unsupported |-> stats.heuristic_frameworks,
     pressure |-> stats.files_resolved > 0 /\ ExceedsPercent(stats, 5)]

(* compatibility_report *)
CompatibilityReport(b) == CompatibilityOutput(BuildStats(b))

(* Mutant of InsufficientTrust: a partial scope is trusted. *)
UntrustedFrameworks(b) ==
    LET compat == CompatibilityOutput(BuildStats(b)) IN
    \/ compat.heuristic # {}
    \/ compat.unsupported # {}
    \/ ExceedsPercent(b, 5)

InsufficientTrust(b) ==
    LET compat == CompatibilityOutput(BuildStats(b)) IN
    \/ compat.heuristic # {}
    \/ compat.unsupported # {}
    \/ ExceedsPercent(b, 5)
    \/ b.partial_scope

ReviewOfScan(b, scan, strict) ==
    LET found == scan.report.findings
        blocking == Blocking(found)
        advisory == Advisory(found)
    IN IF ~scan.ok THEN Refused
       ELSE Answered(
        [new_findings |-> found,
         blocking_findings |-> IF strict THEN {} ELSE blocking,
         advisory_findings |-> IF strict THEN found ELSE advisory,
         changed_files |-> scan.report.changed_files,
         baseline_applied |-> scan.report.baseline_applied,
         recommended_actions |-> RecommendedActions(b, blocking, advisory),
         proposed_actions |-> Ranked({RemediationAction(f) :
                                        f \in Actionable(blocking)}),
         strict_trust_applied |-> strict \/ scan.report.strict_trust_applied])

Review(b, w, options) ==
    ReviewOfScan(b, ScanWithOptions(b, w, [options EXCEPT
                                            !.require_full_scope = FALSE]),
                 options.strict_trust /\ InsufficientTrust(b))

(* The scan that safe-delete and fix-plan start from                       *)
ScanOfEverything(b, w, options) ==
    ScanWithOptions(b, w,
        [options EXCEPT !.no_baseline = TRUE, !.require_full_scope = FALSE,
                        !.changed_since = FALSE, !.focus = None])

-----------------------------------------------------------------------------
(* safe-delete *)

(* Mutant of ReverseImpact: only entrypoints count. *)
EntrypointImpact(g, target, profile) ==
    LET file == FindFile(g, target) IN
    file # None /\ Impact(g, file, profile).entrypoints # {}

(* check_reverse_impact: a target that is no file has no impact, and the   *)
(* path of the target may be written longer or shorter.                    *)
ReverseImpact(g, target, profile) ==
    LET file == FindFile(g, target)
        impact == Impact(g, file, profile)
    IN /\ file # None
       /\ \/ impact.entrypoints # {}
          \/ \E f \in impact.files : /\ f # target
                                     /\ ~IsSuffix(target, f)
                                     /\ ~IsSuffix(f, target)

(* A subject that is the target, or begins with it *)
Related(findings, target) == {f \in findings : IsPrefix(target, f.subject)}

Classify(b, findings, target, profile) ==
    LET related == Related(findings, target)
        confidences == {f.confidence : f \in related}
    IN IF related = {} \/ ReverseImpact(b.graph, target, profile) THEN "blocked"
       ELSE IF ExceedsPercent(b, 5) \/ confidences # {"high"} THEN "needs-review"
       ELSE "safe"

(* apply_trust_downgrades: every downgrade is of the whole report *)
TrustDowngraded(b) ==
    \/ Compatibility(b.detections, b.signal_deps, b.signal_files).downgrades # {}
    \/ ExceedsPercent(b, 10)

(* compute_deletion_order, of the targets at some positions: fewest        *)
(* importers among these targets first, then alphabetically; rank is the   *)
(* alphabetical order, and the sort is stable.                             *)
DeletionOrder(g, targets, positions, rank) ==
    LET those == {targets[i] : i \in positions} \cap FileNodes(g)
        importers(i) == Cardinality({f \in those :
                            <<f, FindFile(g, targets[i])>> \in g.edges})
        before(i, j) ==
            \/ importers(i) < importers(j)
            \/ /\ importers(i) = importers(j)
               /\ \/ rank[targets[i]] < rank[targets[j]]
                  \/ rank[targets[i]] = rank[targets[j]] /\ i < j
        order == Ordered(positions,
                         {p \in positions \X positions : before(p[1], p[2])})
    IN [k \in DOMAIN order |-> targets[order[k]]]

DeletionOfScan(b, scan, profile, targets, rank) ==
    LET class(t) == Classify(b, scan.report.findings, t, profile)
        final(t) == IF class(t) = "safe" /\ TrustDowngraded(b)
                    THEN "needs-review" ELSE class(t)
        in(c) == {t \in ToSet(targets) : final(t) = c}
    IN IF ~scan.ok THEN Refused
       ELSE IF b.partial_scope
       THEN Answered([safe |-> {}, needs_review |-> {},
                      blocked |-> ToSet(targets), deletion_order |-> <<>>])
       ELSE Answered(
            [safe |-> in("safe"), needs_review |-> in("needs-review"),
             blocked |-> in("blocked"),
             deletion_order |->
                DeletionOrder(b.graph, targets,
                              {i \in DOMAIN targets : final(targets[i]) = "safe"},
                              rank)])

SafeDelete(b, w, options, targets, rank) ==
    DeletionOfScan(b, ScanOfEverything(b, w, options), options.profile,
                   targets, rank)

-----------------------------------------------------------------------------
(* fix-plan *)

Matches(f, target) == f.id = target.id \/ IsPrefix(target.text, f.subject)

LoweredIf(condition, confidence) ==
    IF condition THEN Lowered(confidence) ELSE confidence

(* apply_trust_confidence_adjustments: once for a partial scope, and once  *)
(* for a heuristic framework that a finding of the same subject names.     *)
Adjusted(b, compat, findings, a) ==
    LET named == \E f \in findings : /\ f.context # {}
                                     /\ \E t \in a.targets : IsPrefix(t, f.subject)
    IN [a EXCEPT !.confidence =
            LoweredIf(compat.heuristic # {} /\ named,
                      LoweredIf(b.partial_scope, @))]

PlanOfScan(b, scan, targets) ==
    LET found == scan.report.findings
        matched == {f \in found : \E t \in targets : Matches(f, t)}
        compat == Compatibility(b.detections, b.signal_deps, b.signal_files)
        actions == Ranked({Adjusted(b, compat, found, RemediationAction(f)) :
                            f \in Actionable(matched)})
        inPhase(n) == {i \in DOMAIN actions : PhaseForAction(actions[i].kind) = n - 1}
        best(S, rank(_)) == CHOOSE x \in S : \A y \in S : rank(x) <= rank(y)
    IN IF ~scan.ok THEN Refused
       ELSE Answered(
        [matched_findings |-> matched,
         actions |-> actions,
         blocked_by |-> {f.code : f \in matched \ Actionable(matched)},
         phases |-> [n \in {m \in DOMAIN PhaseNames : inPhase(m) # {}} |->
                        Cardinality(inPhase(n))],
         risk_level |-> best({"low"} \cup {actions[i].risk : i \in DOMAIN actions},
                             LAMBDA r : 2 - RiskRank(r)),
         confidence |-> IF matched = {} THEN "high"
                        ELSE best({f.confidence : f \in matched},
                                  ConfidenceRank)])

FixPlan(b, w, options, targets) ==
    PlanOfScan(b, ScanOfEverything(b, w, options), targets)
=============================================================================
