-------------------------------- MODULE Cli --------------------------------
(***************************************************************************)
(* The commands as main.rs runs them: by the daemon, when one answers, or  *)
(* in the process of the command itself; and the exit code of each.        *)
(*                                                                         *)
(* A daemon is absent, cold (its index is not warmed), warm, or silent     *)
(* (the request fails); a mode is off, auto or required.                   *)
(***************************************************************************)
EXTENDS Commands

DaemonStates == {"absent", "cold", "warm", "silent"}
DaemonModes == {"off", "auto", "required"}

(* resolve_daemon_mode *)
EffectiveMode(mode, is_ci) == IF mode = "auto" /\ is_ci THEN "off" ELSE mode

-----------------------------------------------------------------------------
(* What a warm daemon answers.  A scan analyses the hot index under every  *)
(* profile, whatever its options say; the other commands are answered      *)
(* without looking at the index.                                           *)
QueryScan(b, options) ==
    [findings |-> WithoutIgnored(b.findings, options.ignore_issues)]

QueryReview == [blocking_findings |-> {}, advisory_findings |-> {}]
QueryImpact == [affected_entrypoints |-> {}, affected_packages |-> {},
                affected_files |-> {}]
QueryExplain == [matched_node |-> None, proofs |-> <<>>, related_findings |-> {}]
QuerySafeDelete == [safe |-> {}, blocked |-> {}, needs_review |-> {}]
QueryFixPlan == [steps |-> <<>>]
QuerySuggestRules == [suggested_rules |-> {}]
QueryCompatibilityReport == [packages |-> {}, issues |-> {}]

DaemonAnswer(command, b, options) ==
    CASE command = "scan" -> QueryScan(b, options)
      [] command = "review" -> QueryReview
      [] command = "impact" -> QueryImpact
      [] command = "explain" -> QueryExplain
      [] command = "safe-delete" -> QuerySafeDelete
      [] command = "fix-plan" -> QueryFixPlan
      [] command = "suggest-rules" -> QuerySuggestRules
      [] command = "compatibility-report" -> QueryCompatibilityReport

-----------------------------------------------------------------------------
(* filtered_findings: those at or above a severity, and of these at most   *)
(* so many, in the order of their ids                                      *)
Filtered(findings, threshold, max_findings) ==
    LET severe == {f \in findings :
                    SeverityRank(f.severity) >= SeverityRank(threshold)}
        before(f) == {g \in severe : g.id < f.id}
    IN IF max_findings = None THEN severe
       ELSE {f \in severe : Cardinality(before(f)) < max_findings}

(* handle_scan_report *)
ScanReport(report, flags) ==
    [report EXCEPT !.findings = Filtered(@, flags.severity, flags.max_findings)]

-----------------------------------------------------------------------------
(* The exit code of an answer; impact, explain, plans and reports succeed. *)

OneShotExit(command, answer, flags) ==
    IF ~answer.ok THEN 2
    ELSE CASE command = "scan" ->
                IF ScanReport(answer.report, flags).findings # {} THEN 1 ELSE 0
           [] command = "review" ->
                IF answer.report.blocking_findings # {} THEN 1 ELSE 0
           [] command = "safe-delete" ->
                IF answer.report.blocked \cup answer.report.needs_review # {}
                THEN 1 ELSE 0
           [] OTHER -> 0

DaemonExit(command, report) ==
    CASE command = "review" -> IF report.blocking_findings # {} THEN 1 ELSE 0
      [] command = "safe-delete" ->
            IF report.blocked \cup report.needs_review # {} THEN 1 ELSE 0
      [] OTHER -> 0

(* Mutant of ExitCode: in mode auto, a daemon that cannot answer fails the *)
(* command.                                                                *)
ExitCodeOrFail(command, mode, daemon, b, options, flags, one_shot) ==
    CASE mode = "off" \/ (mode = "auto" /\ daemon = "absent") ->
            OneShotExit(command, one_shot, flags)
      [] mode # "off" /\ daemon = "warm" ->
            DaemonExit(command, DaemonAnswer(command, b, options))
      [] OTHER -> 2

(* try_daemon_*: a daemon that answers decides; one that does not is an    *)
(* error if it is required, and else the command runs here.                *)
ExitCode(command, mode, daemon, b, options, flags, one_shot) ==
    CASE mode = "off" \/ (mode = "auto" /\ daemon # "warm") ->
            OneShotExit(command, one_shot, flags)
      [] mode # "off" /\ daemon = "warm" ->
            DaemonExit(command, DaemonAnswer(command, b, options))
      [] mode = "required" /\ daemon # "warm" -> 2
=============================================================================
