------------------------------- MODULE DeadCode -------------------------------
(***************************************************************************)
(* From the facts of the files to the unused files, exports and members:   *)
(* the graph is built, liveness is propagated in it and refined by the     *)
(* semantic helper (pruneguard_graph), then the analyzers walk the module  *)
(* graph from the entrypoints and propagate the demand of the reachable    *)
(* files to the exports (pruneguard_analyzers).                            *)
(*                                                                         *)
(* Vectors and hash maps are walked in an order that depends on the files: *)
(* pending holds what the current pass of a loop, or the queue of the      *)
(* walk, has not come to.                                                  *)
(***************************************************************************)
EXTENDS SymbolGraph

CONSTANTS
    Projects,  \* the projects considered: [facts, seeds]
    Exempt     \* files that are never reported: tests, docs, ambient types

ASSUME DeadCodeAssumption ==
    /\ Projects \subseteq [facts : [Files -> FileFacts], seeds : SUBSET Files]
    /\ Exempt \subseteq Files

VARIABLES
    facts, seeds,   \* the files and the entrypoints of the profile
    options,        \* of the configuration
    pc, graph,
    live,           \* exports that are is_live
    pending, changed,  \* of the loop that runs
    reachable,      \* files visited
    demand,         \* LiveDemand: <<file, name or Star, is_type>>
    findings

input == <<facts, seeds, options>>
vars == <<input, pc, graph, live, pending, changed, reachable, demand,
          findings>>

Options == [includeEntryExports : BOOLEAN, ignoreUsedInFile : BOOLEAN]
NoGraph == [exports |-> {}, imports |-> {}, reexports |-> {},
            memberRefs |-> {}, sameFileRefs |-> {}, members |-> {},
            edges |-> {}]
NoFindings == [files |-> {}, exports |-> {}, members |-> {}]

Init ==
    /\ \E p \in Projects : facts = p.facts /\ seeds = p.seeds
    /\ options \in Options
    /\ pc = "build"
    /\ graph = NoGraph /\ live = {}
    /\ pending = {} /\ changed = FALSE
    /\ reachable = {} /\ demand = {} /\ findings = NoFindings

-----------------------------------------------------------------------------
(* build_graph_with_options, after extraction                              *)

(* seed_public_exports_with_config *)
PublicExports(g) ==
    IF options.includeEntryExports THEN {}
    ELSE {k \in KeysOf(g) : k[1] \in seeds}

(* The graph, its public exports, and step 1 of propagate_liveness. *)
Build ==
    /\ pc = "build"
    /\ graph' = GraphOf(facts)
    /\ live' = PublicExports(graph') \cup ImportTargets(graph')
    /\ pending' = graph'.reexports
    /\ changed' = FALSE
    /\ pc' = "propagate"
    /\ UNCHANGED <<input, reachable, demand, findings>>

(* Mutant of PropagateLive: an export that is live already is a change. *)
PropagateAgain(r) ==
    /\ pc = "propagate"
    /\ live' = IF <<r.reexporter, r.exported>> \in live
               THEN live \cup ReexportTargets(graph, r)
               ELSE live
    /\ changed' = (changed \/ <<r.reexporter, r.exported>> \in live)
    /\ pending' = pending \ {r}
    /\ UNCHANGED <<input, pc, graph, reachable, demand, findings>>

(* Step 2: re-exports, until a pass changes nothing. *)
PropagateLive(r) ==
    /\ pc = "propagate"
    /\ live' = IF <<r.reexporter, r.exported>> \in live
               THEN live \cup ReexportTargets(graph, r)
               ELSE live
    /\ changed' = (changed \/ live' # live)
    /\ pending' = pending \ {r}
    /\ UNCHANGED <<input, pc, graph, reachable, demand, findings>>

(* Mutant of EndPass: one pass is taken to be enough. *)
EndOnlyPass(step, next) ==
    /\ pc = step
    /\ pending = {}
    /\ pc' = next
    /\ changed' = FALSE
    /\ UNCHANGED <<input, pending, graph, live, reachable, demand, findings>>

(* The end of a pass of either loop: the next one, or the next step. *)
EndPass(step, next) ==
    /\ pc = step
    /\ pending = {}
    /\ IF changed
       THEN pending' = graph.reexports /\ UNCHANGED pc
       ELSE pc' = next /\ UNCHANGED pending
    /\ changed' = FALSE
    /\ UNCHANGED <<input, graph, live, reachable, demand, findings>>

(* Steps 3b and 4 *)
MarkLate ==
    /\ pc = "late"
    /\ live' = live \cup LateTargets(graph)
    /\ pc' = "refine"
    /\ UNCHANGED <<input, graph, pending, changed, reachable, demand,
                   findings>>

(* The semantic helper, if there is one, finds references to some of the   *)
(* exports that are not live.  The walk starts at the entrypoints.         *)
Refine ==
    /\ pc = "refine"
    /\ \E found \in SUBSET (KeysOf(graph) \ live) : live' = live \cup found
    /\ pc' = "reach"
    /\ pending' = seeds
    /\ UNCHANGED <<input, graph, changed, reachable, demand, findings>>

-----------------------------------------------------------------------------
(* run_analyzers                                                           *)

(* ModuleGraph::reachable_nodes *)
Visit(f) ==
    /\ pc = "reach"
    /\ reachable' = reachable \cup {f}
    /\ pending' = (pending \ {f}) \cup
           IF f \in reachable THEN {}
           ELSE {g \in Files : <<f, g>> \in graph.edges}
    /\ UNCHANGED <<input, pc, graph, live, changed, demand, findings>>

(* The entrypoints' exports and the imports of reachable files. *)
EntryDemand ==
    IF options.includeEntryExports THEN {} ELSE seeds \X {Star} \X BOOLEAN
ImportDemand ==
    {<<i.source, i.name, i.is_type>> :
        i \in {j \in graph.imports : j.importer \in reachable}}

StartDemand ==
    /\ pc = "reach"
    /\ pending = {}
    /\ demand' = EntryDemand \cup ImportDemand
    /\ pending' = graph.reexports
    /\ changed' = FALSE
    /\ pc' = "demand"
    /\ UNCHANGED <<input, graph, live, reachable, findings>>

(* Mutant of Passes: a star passes on the demand for all names only. *)
PassesAll(r, d) ==
    /\ d[1] = r.reexporter /\ d[3] = r.is_type
    /\ d[2] = Star \/ (~IsTrueStar(r) /\ d[2] = r.exported)

(* Whether the demand d of the re-exporting file concerns r: a star is     *)
(* transparent for every name, the others have one.                        *)
Passes(r, d) ==
    /\ d[1] = r.reexporter /\ d[3] = r.is_type
    /\ IsTrueStar(r) \/ d[2] \in {Star, r.exported}

(* The names that r then demands of its source; of a namespace, the        *)
(* members that are accessed.                                              *)
PassedOn(r, d) ==
    IF IsTrueStar(r) THEN {d[2]}
    ELSE IF r.is_star
    THEN {m.member : m \in {x \in graph.memberRefs :
                        x.source = r.reexporter /\ x.parent = r.exported}}
    ELSE {r.original}

Demanded(r, D) ==
    UNION {{<<r.source, n, r.is_type>> : n \in PassedOn(r, d)} :
           d \in {c \in D : Passes(r, c)}}

PropagateDemand(r) ==
    /\ pc = "demand"
    /\ demand' = IF r.reexporter \in reachable
                 THEN demand \cup Demanded(r, demand)
                 ELSE demand
    /\ changed' = (changed \/ demand' # demand)
    /\ pending' = pending \ {r}
    /\ UNCHANGED <<input, pc, graph, live, reachable, findings>>

(* LiveDemand::is_export_live: demand of the other kind counts as well. *)
IsExportLive(e) ==
    \E t \in BOOLEAN, n \in {e.name, Star} : <<e.file, n, t>> \in demand

UsedInFile(e) ==
    \/ <<e.file, e.name>> \in graph.sameFileRefs
    \/ \E i \in graph.imports :
            i.importer = e.file /\ i.source = e.file /\ i.name = e.name

UnusedExports ==
    {e \in graph.exports :
        /\ e.file \in reachable \ Exempt
        /\ ~IsExportLive(e)
        /\ ~(options.ignoreUsedInFile /\ UsedInFile(e))}

(* Members of containers that are imported or live and have a member in    *)
(* use.                                                                    *)
MemberUsed(m) ==
    [source |-> m.file, parent |-> m.parent, member |-> m.member]
        \in graph.memberRefs

UnusedMembers ==
    {m \in graph.members :
        /\ \E e \in facts[m.file].exports :
                e.name = m.parent /\ e.kind = "container"
        /\ \/ \E i \in graph.imports :
                    i.source = m.file /\ i.name = m.parent
           \/ <<m.file, m.parent>> \in live
        /\ ~MemberUsed(m)
        /\ \E s \in graph.members :
                s.file = m.file /\ s.parent = m.parent /\ MemberUsed(s)}

Report ==
    /\ pc = "report"
    /\ findings' = [files |-> Files \ (reachable \cup Exempt),
                    exports |-> UnusedExports,
                    members |-> UnusedMembers]
    /\ pc' = "done"
    /\ UNCHANGED <<input, graph, live, pending, changed, reachable, demand>>

Next ==
    \/ Build
    \/ \E r \in pending : PropagateLive(r)
    \/ EndPass("propagate", "late")
    \/ MarkLate
    \/ Refine
    \/ \E f \in pending : Visit(f)
    \/ StartDemand
    \/ \E r \in pending : PropagateDemand(r)
    \/ EndPass("demand", "report")
    \/ Report

Spec == Init /\ [][Next]_vars
FairSpec == Spec /\ WF_vars(Next)

-----------------------------------------------------------------------------
Pending == (SUBSET Files) \cup (SUBSET ReexportEdges)
Demands == Files \X NamesOrStar \X BOOLEAN

(* Types of the graphs, of the propagations and of the findings *)
TypeOK ==
    /\ facts \in [Files -> FileFacts] /\ seeds \in SUBSET Files
    /\ options \in Options
    /\ pc \in {"build", "propagate", "late", "refine", "reach", "demand",
               "report", "done"}
    /\ graph \in Graphs /\ live \subseteq KeysOf(graph)
    /\ pending \in Pending /\ changed \in BOOLEAN
    /\ reachable \in SUBSET Files /\ demand \in SUBSET Demands
    /\ findings \in [files : SUBSET Files, exports : SUBSET Exports,
                     members : SUBSET Members]

(* A file that is reported unused can be deleted: it is no entrypoint and  *)
(* no file that an entrypoint reaches imports or re-exports from it, be it *)
(* for types only or for side effects (unused_files.rs, reachable_nodes).  *)
UnusedFileHasNoImporter ==
    \A f \in findings.files :
        /\ f \notin seeds
        /\ \A g \in reachable :
              \A i \in facts[g].imports \cup facts[g].reexports : i.to # f

(* The demand that the loop ends with is closed: no re-export of a         *)
(* reachable file still has something to pass on, in whatever order the    *)
(* passes took the edges (the while loop of unused_exports.rs).            *)
DemandIsClosed ==
    pc \in {"report", "done"} =>
        /\ EntryDemand \cup ImportDemand \subseteq demand
        /\ \A r \in graph.reexports :
              r.reexporter \in reachable => Demanded(r, demand) \subseteq demand

-----------------------------------------------------------------------------
(* What the names of a project mean, as a reference for the analyzers      *)

(* The names of source that a name n of the re-exporting file stands for.  *)
Binds(r, n) ==
    IF r.is_star /\ r.exported = Star THEN {n}
    ELSE IF n # r.exported THEN {}
    ELSE IF r.is_star
    THEN {m.member : m \in {x \in graph.memberRefs :
                        x.source = r.reexporter /\ x.parent = n}}
    ELSE {r.original}

(* What entrypoints and the imports of reachable files consume *)
ImportedNames(i) == IF i.name = Star THEN Names ELSE {i.name}

ConsumedAtFirst ==
    (IF options.includeEntryExports THEN {} ELSE seeds \X Names \X BOOLEAN)
    \cup UNION {{<<i.source, n, i.is_type>> : n \in ImportedNames(i)} :
                i \in {j \in graph.imports : j.importer \in reachable}}

(* What is consumed after one more re-export: it passes demand of its kind *)
(* on, or of either when kinds do not matter.                              *)
ConsumedThrough(C, kindsMatter) ==
    LET through(c) == {r \in graph.reexports : /\ r.reexporter \in reachable
                                               /\ r.reexporter = c[1]
                                               /\ kindsMatter => r.is_type = c[3]}
    IN C \cup UNION {UNION {{<<r.source, m, c[3]>> : m \in Binds(r, c[2])} :
                            r \in through(c)} : c \in C}

Consumed(kindsMatter) ==
    LET last == 2 * Cardinality(Keys)
        after[i \in 0..last] ==
            IF i = 0 THEN ConsumedAtFirst
            ELSE ConsumedThrough(after[i - 1], kindsMatter)
    IN after[last]

IsConsumed(e, consumed) ==
    \E t \in BOOLEAN : <<e.file, e.name, t>> \in consumed

(* The reported exports are exactly those of reachable files that no chain *)
(* of re-exports of one kind leads to from an import of a reachable file   *)
(* or from an entrypoint: no pass is missing, none is taken too far        *)
(* (unused_exports.rs).                                                    *)
ReportIsExact ==
    pc = "done" =>
        LET consumed == Consumed(TRUE) IN
        \A e \in graph.exports :
            e \in findings.exports <=>
                /\ e.file \in reachable \ Exempt
                /\ ~IsConsumed(e, consumed)
                /\ ~(options.ignoreUsedInFile /\ UsedInFile(e))

(* "Find exports that are never consumed by reachable imports or re-export *)
(* chains." (unused_exports.rs:12), whatever the kinds of the declarations.*)
NoConsumedIsReported ==
    pc = "done" =>
        LET consumed == Consumed(FALSE) IN
        \A e \in findings.exports : ~IsConsumed(e, consumed)

(* The exports that named re-exports of live ones make live *)
LiveThrough(S) ==
    S \cup (KeysOf(graph) \cap
            {<<r.source, r.original>> :
                r \in {s \in graph.reexports :
                        ~s.is_star /\ <<s.reexporter, s.exported>> \in S}})

(* Step 2 of propagate_liveness marks the exports that a chain of named    *)
(* re-exports leads to from an import or an entrypoint, and no other       *)
(* (symbol_graph.rs:322).                                                  *)
LiveIsExact ==
    pc = "late" =>
        LET last == Cardinality(Keys)
            after[i \in 0..last] ==
                IF i = 0 THEN PublicExports(graph) \cup ImportTargets(graph)
                ELSE LiveThrough(after[i - 1])
        IN live = after[last]

(* Both loops end, whatever cycles the re-exports make. *)
Ends == <>(pc = "done")
=============================================================================
