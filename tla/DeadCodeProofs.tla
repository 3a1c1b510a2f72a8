---------------------------- MODULE DeadCodeProofs ----------------------------
(***************************************************************************)
(* Proofs about DeadCode, for any files, names and projects.               *)
(***************************************************************************)
EXTENDS DeadCode, FixpointProofs

Input == facts \in [Files -> FileFacts] /\ seeds \in SUBSET Files

LEMMA InitInput == Init => Input
  BY DeadCodeAssumption DEF Init, Input

LEMMA InputStep == Input /\ [Next]_vars => Input'
<1> SUFFICES ASSUME Input, [Next]_vars
             PROVE  Input'
  OBVIOUS
<1>1. UNCHANGED input
  BY DEF Next, Build, PropagateLive, EndPass, MarkLate, Refine, Visit,
         StartDemand, PropagateDemand, Report, vars, input
<1> QED
  BY <1>1 DEF Input, input

-----------------------------------------------------------------------------
(* Types                                                                   *)

Facts == [Files -> FileFacts]

LEMMA ExportsTyped ==
  ASSUME NEW F \in Facts
  PROVE  AllExports(F) \subseteq Exports
<1>1. ReexportedAs(F) \subseteq Exports
  <2> SUFFICES ASSUME NEW f \in Files, NEW r \in F[f].reexports,
                      r.exported # Star
               PROVE  [file |-> f, name |-> r.exported,
                       is_type |-> r.is_type] \in Exports
    BY DEF ReexportedAs, Resolved
  <2>1. F[f].reexports \subseteq [to : Targets, is_star : BOOLEAN,
            is_type : BOOLEAN, original : NamesOrStar, exported : NamesOrStar]
    BY DEF Facts, FileFacts, ReexportFacts
  <2>2. r.exported \in Names /\ r.is_type \in BOOLEAN
    BY <2>1 DEF NamesOrStar
  <2> QED
    BY <2>2 DEF Exports
<1>2. DeclaredExports(F) \subseteq Exports
  BY DEF DeclaredExports, Facts, FileFacts, Exports
<1> QED
  BY <1>1, <1>2 DEF AllExports

LEMMA ImportsTyped ==
  ASSUME NEW F \in Facts
  PROVE  NamedImports(F) \cup NamespaceImports(F) \subseteq ImportEdges
<1>1. NamedImports(F) \subseteq ImportEdges
  BY DEF NamedImports, Resolved, Facts, FileFacts, ImportEdges, Targets
<1>2. NamespaceImports(F) \subseteq ImportEdges
  <2> SUFFICES ASSUME NEW f \in Files, NEW a \in F[f].accesses, a.to # None
               PROVE  [importer |-> f, source |-> a.to, name |-> a.member,
                       is_type |-> FALSE] \in ImportEdges
    BY DEF NamespaceImports, Resolved
  <2>1. F[f].accesses \subseteq
            [to : Targets, imported : NamesOrStar, member : Names]
    BY DEF Facts, FileFacts, ReexportFacts
  <2>2. a.to \in Files /\ a.member \in NamesOrStar
    BY <2>1 DEF Targets, NamesOrStar
  <2> QED
    BY <2>2 DEF ImportEdges
<1> QED
  BY <1>1, <1>2

LEMMA ReexportsTyped ==
  ASSUME NEW F \in Facts
  PROVE  AllReexports(F) \subseteq ReexportEdges
  BY DEF AllReexports, Resolved, Facts, FileFacts, ReexportFacts, ReexportEdges,
         Targets

LEMMA MembersTyped ==
  ASSUME NEW F \in Facts
  PROVE  AllMembers(F) \subseteq Members /\ AllMemberRefs(F) \subseteq MemberRefs
<1>1. AllMembers(F) \subseteq Members
  BY DEF AllMembers, Facts, FileFacts, Members
<1>2. AllMemberRefs(F) \subseteq MemberRefs
  BY DEF AllMemberRefs, Resolved, Facts, FileFacts, MemberRefs, Targets,
         NamesOrStar
<1> QED
  BY <1>1, <1>2

(* The graph of well-formed facts is well-formed. *)
LEMMA GraphTyped ==
  ASSUME NEW F \in Facts
  PROVE  GraphOf(F) \in Graphs
<1>1. ModuleEdges(F) \subseteq Files \X Files
  BY DEF ModuleEdges
<1>2. {k \in Keys : k[2] \in F[k[1]].same_file_refs} \subseteq Keys
  OBVIOUS
<1> QED
  BY <1>1, <1>2, ExportsTyped, ImportsTyped, ReexportsTyped, MembersTyped
     DEF GraphOf, Graphs

LEMMA DemandTyped ==
  ASSUME graph \in Graphs, NEW D \in SUBSET Demands, NEW r \in ReexportEdges
  PROVE  Demanded(r, D) \subseteq Demands
<1> SUFFICES ASSUME NEW d \in D, NEW n \in PassedOn(r, d)
             PROVE  <<r.source, n, r.is_type>> \in Demands
  BY DEF Demanded
<1>1. n \in NamesOrStar
  <2>1. d[2] \in NamesOrStar /\ r.original \in NamesOrStar
    BY DEF Demands, ReexportEdges
  <2>2. \A m \in graph.memberRefs : m.member \in NamesOrStar
    BY DEF Graphs, MemberRefs, NamesOrStar
  <2> QED
    BY <2>1, <2>2 DEF PassedOn
<1>2. r.source \in Files /\ r.is_type \in BOOLEAN
  BY DEF ReexportEdges
<1> QED
  BY <1>1, <1>2 DEF Demands

(* What is pending belongs to the loop that runs. *)
TypeInv ==
    /\ TypeOK
    /\ pc \in {"propagate", "demand"} => pending \subseteq ReexportEdges
    /\ pc = "reach" => pending \subseteq Files

LEMMA InitTypes == Init => TypeInv
<1> SUFFICES ASSUME Init
             PROVE  TypeInv
  OBVIOUS
<1>1. facts \in [Files -> FileFacts] /\ seeds \in SUBSET Files
  BY InitInput DEF Input
<1>2. graph \in Graphs /\ live \subseteq KeysOf(graph)
  BY DEF Init, NoGraph, Graphs
<1>3. /\ pending \in Pending /\ reachable \in SUBSET Files
      /\ demand \in SUBSET Demands /\ changed \in BOOLEAN
  BY DEF Init, Pending
<1>4. findings \in [files : SUBSET Files, exports : SUBSET Exports,
                    members : SUBSET Members]
  BY DEF Init, NoFindings
<1> QED
  BY <1>1, <1>2, <1>3, <1>4 DEF Init, TypeInv, TypeOK

LEMMA TypeStep == TypeInv /\ [Next]_vars => TypeInv'
<1> SUFFICES ASSUME TypeInv, [Next]_vars
             PROVE  TypeInv'
  OBVIOUS
<1> USE DEF TypeInv, TypeOK
<1>1. CASE Build
  <2>1. graph' \in Graphs
    BY <1>1, GraphTyped DEF Build, Facts
  <2>2. graph'.reexports \subseteq ReexportEdges
    BY <2>1 DEF Graphs
  <2>3. live' \subseteq KeysOf(graph')
    BY <1>1 DEF Build, PublicExports, ImportTargets
  <2> QED
    BY <1>1, <2>1, <2>2, <2>3 DEF Build, Pending, input
<1>2. ASSUME NEW r \in pending, PropagateLive(r)
      PROVE  TypeInv'
  <2>1. live' \subseteq KeysOf(graph)
    BY <1>2 DEF PropagateLive, ReexportTargets
  <2>2. pending' \subseteq ReexportEdges
    BY <1>2 DEF PropagateLive
  <2>3. changed' \in BOOLEAN
    BY <1>2, Zenon DEF PropagateLive
  <2> QED
    BY <1>2, <2>1, <2>2, <2>3 DEF PropagateLive, Pending, input
<1>3. CASE EndPass("propagate", "late") \/ EndPass("demand", "report")
  <2>1. graph.reexports \subseteq ReexportEdges
    BY DEF Graphs
  <2>2. pending' \in {{}, graph.reexports} /\ pc' \in {pc, "late", "report"}
    BY <1>3 DEF EndPass
  <2> QED
    BY <1>3, <2>1, <2>2 DEF EndPass, Pending, input
<1>4. CASE MarkLate
  BY <1>4 DEF MarkLate, LateTargets, input
<1>5. CASE Refine
  <2>1. live' \subseteq KeysOf(graph)
    BY <1>5 DEF Refine
  <2> QED
    BY <1>5, <2>1 DEF Refine, Pending, input
<1>6. ASSUME NEW f \in pending, Visit(f)
      PROVE  TypeInv'
  BY <1>6 DEF Visit, Pending, input
<1>7. CASE StartDemand
  <2>1. demand' \subseteq Demands
    <3>1. EntryDemand \subseteq Demands
      BY DEF EntryDemand, Demands, NamesOrStar
    <3>2. ImportDemand \subseteq Demands
      BY DEF ImportDemand, Demands, Graphs, ImportEdges
    <3> QED
      BY <1>7, <3>1, <3>2 DEF StartDemand
  <2>2. graph.reexports \subseteq ReexportEdges
    BY DEF Graphs
  <2> QED
    BY <1>7, <2>1, <2>2 DEF StartDemand, Pending, input
<1>8. ASSUME NEW r \in pending, PropagateDemand(r)
      PROVE  TypeInv'
  <2>1. r \in ReexportEdges
    BY <1>8 DEF PropagateDemand
  <2>2. demand' \subseteq Demands
    BY <1>8, <2>1, DemandTyped DEF PropagateDemand
  <2>3. pending' \subseteq ReexportEdges
    BY <1>8 DEF PropagateDemand
  <2>4. changed' \in BOOLEAN
    BY <1>8, Zenon DEF PropagateDemand
  <2> QED
    BY <1>8, <2>2, <2>3, <2>4 DEF PropagateDemand, Pending, input
<1>9. CASE Report
  <2>1. UnusedExports \subseteq Exports /\ UnusedMembers \subseteq Members
    BY DEF UnusedExports, UnusedMembers, Graphs
  <2> QED
    BY <1>9, <2>1 DEF Report, input
<1>10. CASE UNCHANGED vars
  BY <1>10 DEF vars, input
<1> QED
  BY <1>1, <1>2, <1>3, <1>4, <1>5, <1>6, <1>7, <1>8, <1>9, <1>10 DEF Next

(* The graph, the propagations and the findings keep their types. *)
THEOREM TypeCorrect == Spec => []TypeOK
<1>1. TypeInv => TypeOK
  BY DEF TypeInv
<1> QED
  BY InitTypes, TypeStep, <1>1, PTL DEF Spec

-----------------------------------------------------------------------------
(* The walk                                                                *)

Leads(f, g) == \E i \in facts[f].imports \cup facts[f].reexports : i.to = g

(* All that a visited file leads to has been visited or is in the queue.   *)
WalkInv ==
    /\ reachable \subseteq Files
    /\ pc \notin {"build"} => graph.edges = ModuleEdges(facts)
    /\ pc \in {"build", "propagate", "late", "refine"} => reachable = {}
    /\ pc = "reach" =>
        /\ pending \subseteq Files
        /\ seeds \subseteq reachable \cup pending
        /\ \A f \in reachable, g \in Files :
                Leads(f, g) => g \in reachable \cup pending
    /\ pc \in {"demand", "report", "done"} =>
        /\ seeds \subseteq reachable
        /\ \A f \in reachable, g \in Files : Leads(f, g) => g \in reachable
    /\ findings.files \subseteq
            IF pc = "done" THEN Files \ reachable ELSE {}

LEMMA WalkStep == Input /\ WalkInv /\ [Next]_vars => WalkInv'
<1> SUFFICES ASSUME Input, WalkInv, [Next]_vars
             PROVE  WalkInv'
  OBVIOUS
<1> USE DEF WalkInv, Leads
<1>1. CASE Build
  BY <1>1 DEF Build, input, GraphOf
<1>2. ASSUME NEW r \in pending, PropagateLive(r)
      PROVE  WalkInv'
  BY <1>2 DEF PropagateLive, input
<1>3. CASE EndPass("propagate", "late") \/ EndPass("demand", "report")
  BY <1>3 DEF EndPass, input
<1>4. CASE MarkLate
  BY <1>4 DEF MarkLate, input
<1>5. CASE Refine
  BY <1>5 DEF Refine, input, Input
<1>6. ASSUME NEW f \in pending, Visit(f)
      PROVE  WalkInv'
  <2>1. /\ pc = "reach" /\ pc' = pc /\ graph' = graph
        /\ facts' = facts /\ seeds' = seeds /\ findings' = findings
        /\ reachable' = reachable \cup {f}
    BY <1>6 DEF Visit, input
  <2>2. f \in Files
    BY <2>1
  <2>3. \A g \in Files : Leads(f, g) => <<f, g>> \in graph.edges
    BY <2>1, <2>2 DEF ModuleEdges
  <2>4. pending' = (pending \ {f}) \cup
            IF f \in reachable THEN {}
            ELSE {g \in Files : <<f, g>> \in graph.edges}
    BY <1>6 DEF Visit
  <2>5. \A g \in Files : Leads(f, g) => g \in reachable' \cup pending'
    BY <2>1, <2>2, <2>3, <2>4
  <2>6. pending' \subseteq Files /\ seeds' \subseteq reachable' \cup pending'
    BY <2>1, <2>4
  <2>7. \A h \in reachable', g \in Files :
            Leads(h, g) => g \in reachable' \cup pending'
    BY <2>1, <2>4, <2>5
  <2> QED
    BY <2>1, <2>2, <2>6, <2>7
<1>7. CASE StartDemand
  BY <1>7 DEF StartDemand, input
<1>8. ASSUME NEW r \in pending, PropagateDemand(r)
      PROVE  WalkInv'
  BY <1>8 DEF PropagateDemand, input
<1>9. CASE Report
  BY <1>9 DEF Report, input
<1>10. CASE UNCHANGED vars
  BY <1>10 DEF vars, input
<1> QED
  BY <1>1, <1>2, <1>3, <1>4, <1>5, <1>6, <1>7, <1>8, <1>9, <1>10 DEF Next

(* No reachable file imports from a file that is reported unused           *)
(* (reachable_nodes, unused_files.rs).                                     *)
THEOREM UnusedFilesCanGo == Spec => []UnusedFileHasNoImporter
<1>1. Init => WalkInv
  BY DEF Init, WalkInv, NoFindings
<1>2. Input /\ WalkInv => UnusedFileHasNoImporter
  <2> SUFFICES ASSUME WalkInv, NEW f \in findings.files
               PROVE  /\ f \notin seeds
                      /\ \A g \in reachable :
                            \A i \in facts[g].imports \cup facts[g].reexports :
                                i.to # f
    BY DEF UnusedFileHasNoImporter
  <2>1. pc = "done" /\ f \in Files \ reachable
    BY DEF WalkInv
  <2> QED
    BY <2>1 DEF WalkInv, Leads
<1> QED
  BY InitInput, InputStep, WalkStep, <1>1, <1>2, PTL DEF Spec

-----------------------------------------------------------------------------
(* The demand                                                              *)

Satisfied(r) == r.reexporter \in reachable => Demanded(r, demand) \subseteq demand

(* As long as a pass has changed nothing, the edges that it has taken have *)
(* nothing to pass on.                                                     *)
LoopInv ==
    /\ pc \in {"demand", "report", "done"} =>
            EntryDemand \cup ImportDemand \subseteq demand
    /\ pc = "demand" /\ ~changed =>
            \A r \in graph.reexports \ pending : Satisfied(r)
    /\ pc \in {"report", "done"} => \A r \in graph.reexports : Satisfied(r)

LEMMA LoopStep == LoopInv /\ [Next]_vars => LoopInv'
<1> SUFFICES ASSUME LoopInv, [Next]_vars
             PROVE  LoopInv'
  OBVIOUS
<1> USE DEF LoopInv, EntryDemand, ImportDemand
<1>1. CASE Build \/ MarkLate \/ Refine \/ EndPass("propagate", "late")
  BY <1>1 DEF Build, MarkLate, Refine, EndPass, input
<1>2. ASSUME NEW r \in pending, PropagateLive(r) \/ Visit(r)
      PROVE  LoopInv'
  BY <1>2 DEF PropagateLive, Visit, input
<1>3. CASE StartDemand
  BY <1>3 DEF StartDemand, input
<1>4. ASSUME NEW r \in pending, PropagateDemand(r)
      PROVE  LoopInv'
  <2>1. /\ pc = "demand" /\ pc' = pc /\ graph' = graph
        /\ options' = options /\ seeds' = seeds /\ reachable' = reachable
        /\ demand' = IF r.reexporter \in reachable
                     THEN demand \cup Demanded(r, demand) ELSE demand
        /\ pending' = pending \ {r}
    BY <1>4 DEF PropagateDemand, input
  <2>2. demand \subseteq demand'
    BY <2>1
  <2>3. ~changed' => ~changed /\ demand' = demand
    BY <1>4 DEF PropagateDemand
  <2>4. ASSUME ~changed', NEW s \in graph.reexports \ pending'
        PROVE  Satisfied(s)'
    <3>1. demand' = demand /\ ~changed
      BY <2>3, <2>4
    <3>2. CASE s = r
      BY <2>1, <3>1, <3>2 DEF Satisfied, Demanded, PassedOn
    <3>3. CASE s # r
      BY <2>1, <2>4, <3>1, <3>3 DEF Satisfied, Demanded, PassedOn
    <3> QED
      BY <3>2, <3>3
  <2> QED
    BY <2>1, <2>2, <2>4
<1>5. CASE EndPass("demand", "report")
  <2>1. /\ pc = "demand" /\ pending = {}
        /\ UNCHANGED <<input, graph, reachable, demand>>
        /\ pc' \in {"demand", "report"}
    BY <1>5 DEF EndPass
  <2>2. CASE changed
    BY <1>5, <2>1, <2>2 DEF EndPass, input
  <2>3. CASE ~changed
    <3>1. \A r \in graph.reexports : Satisfied(r)
      BY <2>1, <2>3
    <3>2. \A r \in graph'.reexports : Satisfied(r)'
      BY <2>1, <3>1 DEF Satisfied, Demanded, PassedOn
    <3> QED
      BY <2>1, <3>2 DEF input
  <2> QED
    BY <2>2, <2>3
<1>6. CASE Report
  BY <1>6 DEF Report, Satisfied, Demanded, PassedOn, input
<1>7. CASE UNCHANGED vars
  BY <1>7 DEF vars, Satisfied, Demanded, PassedOn, input
<1> QED
  BY <1>1, <1>2, <1>3, <1>4, <1>5, <1>6, <1>7 DEF Next

(* Whatever the order of the passes, the loop of unused_exports.rs stops   *)
(* at a demand that no re-export of a reachable file extends.              *)
THEOREM DemandEndsClosed == Spec => []DemandIsClosed
<1>1. Init => LoopInv
  BY DEF Init, LoopInv
<1>2. LoopInv => DemandIsClosed
  BY DEF LoopInv, DemandIsClosed, Satisfied
<1> QED
  BY LoopStep, <1>1, <1>2, PTL DEF Spec

-----------------------------------------------------------------------------
(* The order of the passes                                                 *)

Closed(D) ==
    /\ EntryDemand \cup ImportDemand \subseteq D
    /\ \A r \in graph.reexports :
          r.reexporter \in reachable => Demanded(r, D) \subseteq D

(* There is no demand but what every closed set of demands holds. *)
NoDemandTooMany ==
    pc \in {"demand", "report", "done"} =>
        \A D : Closed(D) => demand \subseteq D

LeastInv ==
    /\ NoDemandTooMany
    /\ pc = "demand" => pending \subseteq graph.reexports

LEMMA MoreDemandsMore ==
  ASSUME NEW r, NEW D, NEW E, D \subseteq E
  PROVE  Demanded(r, D) \subseteq Demanded(r, E)
  BY DEF Demanded

LEMMA LeastStep == LeastInv /\ [Next]_vars => LeastInv'
<1> SUFFICES ASSUME LeastInv, [Next]_vars
             PROVE  LeastInv'
  OBVIOUS
<1> USE DEF LeastInv, NoDemandTooMany, Closed, EntryDemand, ImportDemand
<1>1. CASE Build \/ MarkLate \/ Refine \/ EndPass("propagate", "late")
  BY <1>1 DEF Build, MarkLate, Refine, EndPass, input
<1>2. ASSUME NEW r \in pending, PropagateLive(r) \/ Visit(r)
      PROVE  LeastInv'
  BY <1>2 DEF PropagateLive, Visit, input
<1>3. CASE StartDemand
  BY <1>3 DEF StartDemand, input
<1>4. ASSUME NEW r \in pending, PropagateDemand(r)
      PROVE  LeastInv'
  <2>1. /\ pc = "demand" /\ pc' = pc /\ graph' = graph
        /\ options' = options /\ seeds' = seeds /\ reachable' = reachable
        /\ demand' = IF r.reexporter \in reachable
                     THEN demand \cup Demanded(r, demand) ELSE demand
        /\ pending' = pending \ {r}
    BY <1>4 DEF PropagateDemand, input
  <2>2. ASSUME NEW D, Closed(D)'
        PROVE  demand' \subseteq D
    <3>1. Closed(D)
      BY <2>1, <2>2 DEF Demanded, PassedOn
    <3>2. demand \subseteq D
      BY <2>1, <3>1
    <3>3. Demanded(r, demand) \subseteq Demanded(r, D)
      BY <3>2, MoreDemandsMore
    <3> QED
      BY <2>1, <3>1, <3>2, <3>3
  <2> QED
    BY <2>1, <2>2
<1>5. CASE EndPass("demand", "report")
  BY <1>5 DEF EndPass, Demanded, PassedOn, input
<1>6. CASE Report
  BY <1>6 DEF Report, Demanded, PassedOn, input
<1>7. CASE UNCHANGED vars
  BY <1>7 DEF vars, Demanded, PassedOn, input
<1> QED
  BY <1>1, <1>2, <1>3, <1>4, <1>5, <1>6, <1>7 DEF Next

(* With DemandEndsClosed: the demand that the loop ends with is the least  *)
(* closed one, so it is the same in every order of the files.              *)
THEOREM DemandIsLeast == Spec => []NoDemandTooMany
<1>1. Init => LeastInv
  BY DEF Init, LeastInv, NoDemandTooMany
<1>2. LeastInv => NoDemandTooMany
  BY DEF LeastInv
<1> QED
  BY LeastStep, <1>1, <1>2, PTL DEF Spec

-----------------------------------------------------------------------------
(* The exports that are live                                               *)

(* The edges of the graph are re-exports of one of the three forms.        *)
FormInv ==
    pc # "build" =>
        \A r \in graph.reexports :
            IF r.is_star THEN r.original = Star
            ELSE {r.original, r.exported} \subseteq Names

LEMMA FormStep == Input /\ FormInv /\ [Next]_vars => FormInv'
<1> SUFFICES ASSUME Input, FormInv, [Next]_vars
             PROVE  FormInv'
  OBVIOUS
<1>1. CASE Build
  <2> SUFFICES ASSUME NEW f \in Files, NEW r \in facts[f].reexports
               PROVE  IF r.is_star THEN r.original = Star
                      ELSE {r.original, r.exported} \subseteq Names
    BY <1>1 DEF Build, GraphOf, AllReexports, Resolved, FormInv
  <2> QED
    BY DEF Input, FileFacts, ReexportFacts
<1>2. CASE ~Build
  <2>1. graph' = graph /\ (pc' # "build" => pc # "build")
    BY <1>2 DEF Next, PropagateLive, EndPass, MarkLate, Refine, Visit,
           StartDemand, PropagateDemand, Report, vars
  <2> QED
    BY <2>1 DEF FormInv
<1> QED
  BY <1>1, <1>2

LiveAtFirst == PublicExports(graph) \cup ImportTargets(graph)

(* Nothing is left for the edge r to mark. *)
Marked(r) ==
    <<r.reexporter, r.exported>> \in live => ReexportTargets(graph, r) \subseteq live

LiveInv ==
    /\ pc \in {"propagate", "late"} =>
        /\ LiveAtFirst \subseteq live
        /\ \A C : LiveAtFirst \subseteq C /\ LiveThrough(C) \subseteq C
                    => live \subseteq C
    /\ pc = "propagate" => pending \subseteq graph.reexports
    /\ pc = "propagate" /\ ~changed =>
            \A r \in graph.reexports \ pending : Marked(r)
    /\ pc = "late" => \A r \in graph.reexports : Marked(r)

(* Only named re-exports mark an export. *)
LEMMA OnlyNamedMark ==
  ASSUME TypeInv, FormInv, pc # "build", NEW r \in graph.reexports,
         <<r.reexporter, r.exported>> \in live
  PROVE  ReexportTargets(graph, r) =
            IF r.is_star THEN {} ELSE KeysOf(graph) \cap {<<r.source, r.original>>}
<1>1. KeysOf(graph) \subseteq Keys /\ live \subseteq KeysOf(graph)
  BY DEF TypeInv, TypeOK, Graphs, Exports, KeysOf, Keys
<1>2. r.exported \in Names
  BY <1>1 DEF Keys
<1>3. r.exported # Star
  BY <1>2, SymbolGraphAssumption
<1>4. <<r.source, Star>> \notin KeysOf(graph)
  BY <1>1, SymbolGraphAssumption DEF Keys
<1> QED
  BY <1>3, <1>4 DEF ReexportTargets, IsTrueStar, FormInv

LEMMA LiveStep ==
  TypeInv /\ FormInv /\ LiveInv /\ [Next]_vars => LiveInv'
<1> SUFFICES ASSUME TypeInv, FormInv, LiveInv, [Next]_vars
             PROVE  LiveInv'
  OBVIOUS
<1> USE DEF LiveInv, LiveAtFirst, PublicExports
<1>1. CASE Build
  <2>1. /\ pc' = "propagate" /\ UNCHANGED input /\ pending' = graph'.reexports
        /\ live' = PublicExports(graph') \cup ImportTargets(graph')
    BY <1>1 DEF Build
  <2>2. live' = LiveAtFirst'
    BY <2>1 DEF input
  <2> QED
    BY <2>1, <2>2
<1>2. ASSUME NEW r \in pending, PropagateLive(r)
      PROVE  LiveInv'
  <2>1. /\ pc = "propagate" /\ pc' = pc /\ graph' = graph
        /\ options' = options /\ seeds' = seeds
        /\ live' = IF <<r.reexporter, r.exported>> \in live
                   THEN live \cup ReexportTargets(graph, r) ELSE live
        /\ pending' = pending \ {r}
        /\ r \in graph.reexports
    BY <1>2 DEF PropagateLive, input
  <2>2. LiveAtFirst' \subseteq live'
    BY <2>1
  <2>3. ASSUME NEW C, LiveAtFirst' \subseteq C, LiveThrough(C)' \subseteq C
        PROVE  live' \subseteq C
    <3>1. live \subseteq C /\ LiveThrough(C) \subseteq C
      BY <2>1, <2>3 DEF LiveThrough
    <3>2. CASE <<r.reexporter, r.exported>> \in live
      <4>1. ReexportTargets(graph, r) =
                IF r.is_star THEN {}
                ELSE KeysOf(graph) \cap {<<r.source, r.original>>}
        BY <2>1, <3>2, OnlyNamedMark
      <4>2. ~r.is_star =>
                KeysOf(graph) \cap {<<r.source, r.original>>} \subseteq LiveThrough(C)
        BY <2>1, <3>1, <3>2 DEF LiveThrough
      <4> QED
        BY <2>1, <3>1, <4>1, <4>2
    <3> QED
      BY <2>1, <3>1, <3>2
  <2>4. ~changed' => ~changed /\ live' = live
    BY <1>2 DEF PropagateLive
  <2>5. ASSUME ~changed', NEW s \in graph.reexports \ pending'
        PROVE  Marked(s)'
    <3>1. live' = live /\ ~changed
      BY <2>4, <2>5
    <3>2. Marked(s)
      BY <2>1, <2>5, <3>1 DEF Marked
    <3> QED
      BY <2>1, <3>1, <3>2 DEF Marked, ReexportTargets
  <2> QED
    BY <2>1, <2>2, <2>3, <2>5
<1>3. CASE EndPass("propagate", "late")
  <2>1. /\ pc = "propagate" /\ pending = {}
        /\ UNCHANGED <<input, graph, live>>
        /\ changed => pc' = pc /\ pending' = graph.reexports
        /\ ~changed => pc' = "late"
    BY <1>3 DEF EndPass
  <2>2. \A r : Marked(r)' = Marked(r)
    BY <2>1 DEF Marked, ReexportTargets
  <2>3. /\ LiveAtFirst' = LiveAtFirst
        /\ \A C : LiveThrough(C)' = LiveThrough(C)
    BY <2>1 DEF LiveThrough, input
  <2> QED
    BY <2>1, <2>2, <2>3
<1>4. CASE EndPass("demand", "report") \/ MarkLate \/ Refine \/ StartDemand
           \/ Report
  BY <1>4 DEF EndPass, MarkLate, Refine, StartDemand, Report
<1>5. ASSUME NEW r \in pending, Visit(r) \/ PropagateDemand(r)
      PROVE  LiveInv'
  BY <1>5 DEF Visit, PropagateDemand
<1>6. CASE UNCHANGED vars
  BY <1>6 DEF vars, input, LiveThrough, Marked
<1> QED
  BY <1>1, <1>2, <1>3, <1>4, <1>5, <1>6 DEF Next

LEMMA KeysFinite == IsFiniteSet(Keys) /\ Cardinality(Keys) \in Nat
  BY SymbolGraphAssumption, FS_Product, FS_CardinalityType DEF Keys

(* The rounds of LiveIsExact reach the least set that LiveThrough maps to  *)
(* itself.                                                                 *)
LEMMA LiveRoundsReach ==
  ASSUME TypeInv
  PROVE  LET last == Cardinality(Keys)
             after[i \in 0..last] ==
                IF i = 0 THEN LiveAtFirst ELSE LiveThrough(after[i - 1])
         IN /\ LiveAtFirst \subseteq after[last]
            /\ LiveThrough(after[last]) = after[last]
            /\ \A C : LiveAtFirst \subseteq C /\ LiveThrough(C) \subseteq C
                        => after[last] \subseteq C
<1> DEFINE F == [S \in SUBSET Keys |-> LiveThrough(S)]
           last == Cardinality(Keys)
           IsAfter(a) == a = [i \in 0..last |->
                IF i = 0 THEN LiveAtFirst ELSE LiveThrough(a[i - 1])]
           after == CHOOSE a : IsAfter(a)
<1>1. KeysOf(graph) \subseteq Keys
  BY DEF TypeInv, TypeOK, Graphs, Exports, KeysOf, Keys
<1>2. \A S \in SUBSET Keys : LiveThrough(S) \in SUBSET Keys /\ F[S] = LiveThrough(S)
  BY <1>1 DEF LiveThrough
<1>3. Adds(F, Keys)
  BY <1>2 DEF Adds, LiveThrough
<1>4. LiveAtFirst \in SUBSET Keys /\ last \in Nat
  BY <1>1, KeysFinite DEF LiveAtFirst, PublicExports, ImportTargets
<1> HIDE DEF F, last
<1>5. PICK a : Iterates(a, F, LiveAtFirst, SUBSET Keys, last)
  BY <1>3, <1>4, RoundsExist
<1>6. IsAfter(a)
  <2>1. /\ a \in [0..last -> SUBSET Keys] /\ a[0] = LiveAtFirst
        /\ \A i \in 1..last : a[i] = F[a[i - 1]]
    BY <1>5 DEF Iterates
  <2>2. \A i \in 0..last : i # 0 => a[i] = LiveThrough(a[i - 1])
    <3> SUFFICES ASSUME NEW i \in 0..last, i # 0
                 PROVE  a[i] = LiveThrough(a[i - 1])
      OBVIOUS
    <3>1. i \in 1..last /\ i - 1 \in 0..last
      BY <1>4
    <3>2. a[i] = F[a[i - 1]] /\ a[i - 1] \in SUBSET Keys
      BY <2>1, <3>1
    <3> QED
      BY <1>2, <3>2
  <2> QED
    BY <2>1, <2>2
<1>7. IsAfter(after)
  <2> HIDE DEF IsAfter
  <2> QED
    BY <1>6
<1> HIDE DEF after
<1>8. Rounds(after, F, LiveAtFirst, Keys, last)
  <2>1. after[0] = LiveAtFirst
    BY <1>4, <1>7
  <2>2. ASSUME NEW i \in 1..last, after[i - 1] \in SUBSET Keys
        PROVE  after[i] = F[after[i - 1]]
    <3>1. i \in 0..last /\ i # 0
      BY <1>4
    <3>2. after[i] = LiveThrough(after[i - 1])
      BY <1>7, <3>1
    <3> QED
      BY <1>2, <2>2, <3>2
  <2> QED
    BY <1>4, <2>1, <2>2 DEF Rounds
<1>9. Reached(after[last], F, LiveAtFirst, Keys)
  BY <1>3, <1>4, <1>8, KeysFinite, RoundsReach DEF last
<1>10. ASSUME NEW C, LiveAtFirst \subseteq C, LiveThrough(C) \subseteq C
       PROVE  after[last] \subseteq C
  <2>1. \A S \in SUBSET Keys : S \subseteq C => F[S] \subseteq C
    BY <1>2, <1>10 DEF LiveThrough
  <2> QED
    BY <1>9, <1>10, <2>1 DEF Reached
<1>11. LiveAtFirst \subseteq after[last] /\ LiveThrough(after[last]) = after[last]
  BY <1>2, <1>9 DEF Reached
<1> QED
  BY <1>10, <1>11 DEF after, last

(* The loop of propagate_liveness marks the exports that chains of named   *)
(* re-exports lead to from an import or an entrypoint, and no others.      *)
THEOREM LivenessIsExact == Spec => []LiveIsExact
<1>1. Init => FormInv /\ LiveInv
  BY DEF Init, FormInv, LiveInv
<1>2. TypeInv /\ FormInv /\ LiveInv => LiveIsExact
  <2> SUFFICES ASSUME TypeInv, FormInv, LiveInv, pc = "late"
               PROVE  LiveIsExact
    BY DEF LiveIsExact
  <2>1. LiveThrough(live) \subseteq live
    <3> SUFFICES ASSUME NEW r \in graph.reexports, ~r.is_star,
                        <<r.reexporter, r.exported>> \in live,
                        <<r.source, r.original>> \in KeysOf(graph)
                 PROVE  <<r.source, r.original>> \in live
      BY DEF LiveThrough
    <3> QED
      BY OnlyNamedMark DEF LiveInv, Marked
  <2>2. /\ LiveAtFirst \subseteq live
        /\ \A C : LiveAtFirst \subseteq C /\ LiveThrough(C) \subseteq C
                    => live \subseteq C
    BY DEF LiveInv
  <2> QED
    BY <2>1, <2>2, LiveRoundsReach DEF LiveIsExact, LiveAtFirst
<1> QED
  BY InitInput, InputStep, InitTypes, TypeStep, FormStep, LiveStep, <1>1, <1>2,
     PTL DEF Spec

-----------------------------------------------------------------------------
(* The exports that are reported                                           *)

Triples == Files \X Names \X BOOLEAN

LEMMA TriplesFinite ==
  /\ IsFiniteSet(Triples)
  /\ 2 * Cardinality(Keys) \in Nat
  /\ Cardinality(Triples) <= 2 * Cardinality(Keys)
<1> DEFINE Pairs == Keys \X BOOLEAN
           g == [p \in Pairs |-> <<p[1][1], p[1][2], p[2]>>]
<1>1. IsFiniteSet(BOOLEAN) /\ Cardinality(BOOLEAN) = 2
  <2>1. IsFiniteSet({FALSE}) /\ Cardinality({FALSE}) = 1
    BY FS_Singleton
  <2>2. TRUE \notin {FALSE} /\ BOOLEAN = {FALSE} \cup {TRUE}
    OBVIOUS
  <2>3. /\ IsFiniteSet({FALSE} \cup {TRUE})
        /\ Cardinality({FALSE} \cup {TRUE}) = Cardinality({FALSE}) + 1
    BY <2>1, <2>2, FS_AddElement
  <2>4. IsFiniteSet(BOOLEAN) /\ Cardinality(BOOLEAN) = Cardinality({FALSE}) + 1
    BY <2>2, <2>3, Zenon
  <2> QED
    BY <2>1, <2>4
<1>2. IsFiniteSet(Pairs) /\ Cardinality(Pairs) = 2 * Cardinality(Keys)
  <2>1. /\ IsFiniteSet(Pairs)
        /\ Cardinality(Pairs) = Cardinality(Keys) * Cardinality(BOOLEAN)
    BY <1>1, KeysFinite, FS_Product, Zenon
  <2> QED
    BY <1>1, <2>1, KeysFinite
<1>3. g \in Surjection(Pairs, Triples)
  <2>1. g \in [Pairs -> Triples]
    BY DEF Keys, Triples
  <2>2. ASSUME NEW t \in Triples
        PROVE  \E p \in Pairs : g[p] = t
    <3>1. <<<<t[1], t[2]>>, t[3]>> \in Pairs
      BY DEF Triples, Keys
    <3>2. t = <<t[1], t[2], t[3]>>
      BY DEF Triples
    <3> QED
      BY <3>1, <3>2
  <2> QED
    BY <2>1, <2>2 DEF Surjection
<1> HIDE DEF Pairs, g
<1>4. IsFiniteSet(Triples) /\ Cardinality(Triples) <= Cardinality(Pairs)
  BY <1>2, <1>3, FS_Surjection
<1> QED
  BY <1>2, <1>4, KeysFinite

(* A set that what is consumed first is in, and all that follows from it   *)
ConsumedClosed(C) ==
    ConsumedAtFirst \subseteq C /\ ConsumedThrough(C, TRUE) \subseteq C

LEMMA ConsumedTyped ==
  ASSUME TypeInv, FormInv, pc # "build"
  PROVE  /\ ConsumedAtFirst \in SUBSET Triples
         /\ \A C \in SUBSET Triples : ConsumedThrough(C, TRUE) \in SUBSET Triples
<1> USE DEF TypeInv, TypeOK
<1>1. ConsumedAtFirst \subseteq Triples
  <2>1. ASSUME NEW i \in graph.imports, NEW n \in ImportedNames(i)
        PROVE  <<i.source, n, i.is_type>> \in Triples
    <3>1. i \in ImportEdges
      BY DEF Graphs
    <3>2. n \in Names /\ i.source \in Files /\ i.is_type \in BOOLEAN
      BY <3>1 DEF ImportEdges, ImportedNames, NamesOrStar
    <3> QED
      BY <3>2 DEF Triples
  <2> QED
    BY <2>1 DEF ConsumedAtFirst, Triples
<1>2. ASSUME NEW C \in SUBSET Triples, NEW c \in C, NEW r \in graph.reexports,
             NEW m \in Binds(r, c[2])
      PROVE  <<r.source, m, c[3]>> \in Triples
  <2>1. r \in ReexportEdges /\ c \in Triples
    BY DEF Graphs
  <2>2. r.source \in Files /\ c[2] \in Names /\ c[3] \in BOOLEAN
    BY <2>1 DEF ReexportEdges, Triples
  <2>3. \A x \in graph.memberRefs : x.member \in Names
    BY DEF Graphs, MemberRefs
  <2>4. m \in Names
    BY <2>2, <2>3 DEF Binds, FormInv
  <2> QED
    BY <2>2, <2>4 DEF Triples
<1> QED
  BY <1>1, <1>2 DEF ConsumedThrough

(* As many rounds as there are names of either kind are enough. *)
LEMMA ConsumedIsLeast ==
  ASSUME TypeInv, FormInv, pc # "build"
  PROVE  /\ Consumed(TRUE) \in SUBSET Triples
         /\ ConsumedClosed(Consumed(TRUE))
         /\ \A C : ConsumedClosed(C) => Consumed(TRUE) \subseteq C
<1> DEFINE through(S) == ConsumedThrough(S, TRUE)
           F == [S \in SUBSET Triples |-> through(S)]
           last == 2 * Cardinality(Keys)
           IsAfter(a) == a = [i \in 0..last |->
                IF i = 0 THEN ConsumedAtFirst
                ELSE ConsumedThrough(a[i - 1], TRUE)]
           after == CHOOSE a : IsAfter(a)
<1>1. Consumed(TRUE) = after[last]
  BY DEF Consumed
<1>2. \A S \in SUBSET Triples : through(S) \in SUBSET Triples /\ F[S] = through(S)
  BY ConsumedTyped
<1>3. Adds(F, Triples)
  BY <1>2 DEF Adds, ConsumedThrough
<1>4. ConsumedAtFirst \in SUBSET Triples /\ last \in Nat
  BY ConsumedTyped, TriplesFinite
<1> HIDE DEF F, last
<1>5. PICK a : Iterates(a, F, ConsumedAtFirst, SUBSET Triples, last)
  BY <1>3, <1>4, RoundsExist
<1>6. IsAfter(a)
  <2>1. /\ a \in [0..last -> SUBSET Triples] /\ a[0] = ConsumedAtFirst
        /\ \A i \in 1..last : a[i] = F[a[i - 1]]
    BY <1>5 DEF Iterates
  <2>2. \A i \in 0..last : i # 0 => a[i] = through(a[i - 1])
    <3> SUFFICES ASSUME NEW i \in 0..last, i # 0
                 PROVE  a[i] = through(a[i - 1])
      OBVIOUS
    <3>1. i \in 1..last /\ i - 1 \in 0..last
      BY <1>4
    <3>2. a[i] = F[a[i - 1]] /\ a[i - 1] \in SUBSET Triples
      BY <2>1, <3>1
    <3> QED
      BY <1>2, <3>2
  <2> QED
    BY <2>1, <2>2
<1>7. IsAfter(after)
  <2> HIDE DEF IsAfter
  <2> QED
    BY <1>6
<1> HIDE DEF after
<1>8. Rounds(after, F, ConsumedAtFirst, Triples, last)
  <2>1. after[0] = ConsumedAtFirst
    BY <1>4, <1>7
  <2>2. ASSUME NEW i \in 1..last, after[i - 1] \in SUBSET Triples
        PROVE  after[i] = F[after[i - 1]]
    <3>1. i \in 0..last /\ i # 0
      BY <1>4
    <3>2. after[i] = through(after[i - 1])
      BY <1>7, <3>1
    <3> QED
      BY <1>2, <2>2, <3>2
  <2> QED
    BY <1>4, <2>1, <2>2 DEF Rounds
<1>9. Reached(after[last], F, ConsumedAtFirst, Triples)
  BY <1>3, <1>4, <1>8, TriplesFinite, RoundsReach DEF last
<1>10. ASSUME NEW C, ConsumedClosed(C)
       PROVE  after[last] \subseteq C
  <2>1. \A S \in SUBSET Triples : S \subseteq C => F[S] \subseteq C
    BY <1>2, <1>10 DEF ConsumedClosed, ConsumedThrough
  <2> QED
    BY <1>9, <1>10, <2>1 DEF Reached, ConsumedClosed
<1>11. /\ after[last] \in SUBSET Triples
       /\ ConsumedAtFirst \subseteq after[last]
       /\ through(after[last]) = after[last]
  BY <1>2, <1>9 DEF Reached
<1> QED
  BY <1>1, <1>10, <1>11 DEF ConsumedClosed

(* The findings are those that the demand at the end leaves. *)
ReportInv ==
    pc = "done" => findings.exports = UnusedExports

LEMMA ReportStep == ReportInv /\ [Next]_vars => ReportInv'
<1> SUFFICES ASSUME ReportInv, [Next]_vars
             PROVE  ReportInv'
  OBVIOUS
<1>1. CASE Report
  BY <1>1 DEF Report, ReportInv, UnusedExports, IsExportLive, UsedInFile, input
<1>2. CASE UNCHANGED vars
  BY <1>2 DEF vars, ReportInv, UnusedExports, IsExportLive, UsedInFile, input
<1>3. CASE ~Report /\ ~UNCHANGED vars
  <2>1. pc' # "done"
    BY <1>3 DEF Next, Build, PropagateLive, EndPass, MarkLate, Refine, Visit,
           StartDemand, PropagateDemand, vars
  <2> QED
    BY <2>1 DEF ReportInv
<1> QED
  BY <1>1, <1>2, <1>3

(* What is consumed is demanded, by its name or as one of all names. *)
LEMMA ConsumedIsDemanded ==
  ASSUME TypeInv, FormInv, LoopInv, pc = "done"
  PROVE  \A c \in Consumed(TRUE) : c \in demand \/ <<c[1], Star, c[3]>> \in demand
<1> DEFINE C == {c \in Triples : c \in demand \/ <<c[1], Star, c[3]>> \in demand}
<1>1. EntryDemand \cup ImportDemand \subseteq demand
  BY DEF LoopInv
<1>2. ConsumedAtFirst \subseteq C
  <2>1. ASSUME NEW f \in seeds, NEW n \in Names, NEW t \in BOOLEAN,
               ~options.includeEntryExports
        PROVE  <<f, Star, t>> \in demand
    BY <1>1, <2>1 DEF EntryDemand
  <2>2. ASSUME NEW i \in graph.imports, i.importer \in reachable,
               NEW n \in ImportedNames(i)
        PROVE  <<i.source, n, i.is_type>> \in demand
               \/ <<i.source, Star, i.is_type>> \in demand
    BY <1>1, <2>2 DEF ImportDemand, ImportedNames
  <2> QED
    BY <2>1, <2>2, ConsumedTyped DEF ConsumedAtFirst
<1>3. ASSUME NEW c \in C, NEW r \in graph.reexports, r.reexporter \in reachable,
             r.reexporter = c[1], r.is_type = c[3], NEW m \in Binds(r, c[2])
      PROVE  <<r.source, m, c[3]>> \in demand \/ <<r.source, Star, c[3]>> \in demand
  <2>1. Demanded(r, demand) \subseteq demand
    BY <1>3 DEF LoopInv, Satisfied
  <2>2. ASSUME NEW d \in demand, Passes(r, d), NEW n \in PassedOn(r, d)
        PROVE  <<r.source, n, c[3]>> \in demand
    BY <1>3, <2>1, <2>2 DEF Demanded
  <2>3. CASE c \in demand
    <3>1. Passes(r, c) /\ m \in PassedOn(r, c)
      BY <1>3 DEF FormInv, Binds, Passes, PassedOn, IsTrueStar
    <3> QED
      BY <2>2, <2>3, <3>1
  <2>4. CASE <<c[1], Star, c[3]>> \in demand
    <3> DEFINE d == <<c[1], Star, c[3]>>
    <3>1. Passes(r, d) /\ (m \in PassedOn(r, d) \/ Star \in PassedOn(r, d))
      BY <1>3 DEF FormInv, Binds, Passes, PassedOn, IsTrueStar
    <3> QED
      BY <2>2, <2>4, <3>1
  <2> QED
    BY <2>3, <2>4
<1>4. ConsumedThrough(C, TRUE) \subseteq C
  <2>1. ConsumedThrough(C, TRUE) \subseteq Triples
    BY ConsumedTyped
  <2>2. ASSUME NEW b \in ConsumedThrough(C, TRUE), b \notin C
        PROVE  \E c \in C, r \in graph.reexports :
                  /\ r.reexporter \in reachable /\ r.reexporter = c[1]
                  /\ r.is_type = c[3]
                  /\ \E m \in Binds(r, c[2]) : b = <<r.source, m, c[3]>>
    BY <2>2 DEF ConsumedThrough
  <2>3. ASSUME NEW b \in ConsumedThrough(C, TRUE)
        PROVE  b \in C
    <3>1. CASE b \notin C
      <4>1. PICK c \in C, r \in graph.reexports :
                  /\ r.reexporter \in reachable /\ r.reexporter = c[1]
                  /\ r.is_type = c[3]
                  /\ \E m \in Binds(r, c[2]) : b = <<r.source, m, c[3]>>
        BY <2>2, <2>3, <3>1
      <4>2. PICK m \in Binds(r, c[2]) : b = <<r.source, m, c[3]>>
        BY <4>1
      <4>3. b \in demand \/ <<r.source, Star, c[3]>> \in demand
        BY <1>3, <4>1, <4>2
      <4> QED
        BY <2>1, <2>3, <4>2, <4>3
    <3> QED
      BY <3>1
  <2> QED
    BY <2>3
<1> HIDE DEF C
<1>5. Consumed(TRUE) \subseteq C
  BY <1>2, <1>4, ConsumedIsLeast DEF ConsumedClosed
<1> QED
  BY <1>5 DEF C

(* All that is demanded is consumed; of "*", every name is. *)
LEMMA DemandedIsConsumed ==
  ASSUME TypeInv, FormInv, NoDemandTooMany, pc = "done"
  PROVE  \A d \in demand :
            IF d[2] = Star THEN \A m \in Names : <<d[1], m, d[3]>> \in Consumed(TRUE)
            ELSE d \in Consumed(TRUE)
<1> DEFINE L == Consumed(TRUE)
           D == {d \in Demands : IF d[2] = Star
                                 THEN \A m \in Names : <<d[1], m, d[3]>> \in L
                                 ELSE d \in L}
<1>1. ConsumedAtFirst \subseteq L /\ ConsumedThrough(L, TRUE) \subseteq L
  BY ConsumedIsLeast DEF ConsumedClosed
<1> HIDE DEF L
<1>2. EntryDemand \cup ImportDemand \subseteq D
  <2>1. EntryDemand \cup ImportDemand \subseteq Demands
    BY DEF TypeInv, TypeOK, EntryDemand, ImportDemand, Demands, Graphs,
           ImportEdges, NamesOrStar
  <2>2. ASSUME NEW d \in EntryDemand
        PROVE  d[2] = Star /\ \A m \in Names : <<d[1], m, d[3]>> \in L
    BY <1>1, <2>2 DEF EntryDemand, ConsumedAtFirst
  <2>3. ASSUME NEW i \in graph.imports, i.importer \in reachable
        PROVE  <<i.source, i.name, i.is_type>> \in D
    <3>1. \A n \in ImportedNames(i) : <<i.source, n, i.is_type>> \in L
      BY <1>1, <2>3 DEF ConsumedAtFirst
    <3>2. <<i.source, i.name, i.is_type>> \in Demands
      BY <2>1, <2>3 DEF ImportDemand
    <3> QED
      BY <3>1, <3>2 DEF ImportedNames
  <2> QED
    BY <2>1, <2>2, <2>3 DEF ImportDemand
<1>3. ASSUME NEW r \in graph.reexports, r.reexporter \in reachable
      PROVE  Demanded(r, D) \subseteq D
  <2>1. Demanded(r, D) \subseteq Demands
    <3>1. D \in SUBSET Demands /\ r \in ReexportEdges /\ graph \in Graphs
      BY DEF TypeInv, TypeOK, Graphs
    <3> HIDE DEF D
    <3> QED
      BY <3>1, DemandTyped
  <2> SUFFICES ASSUME NEW d \in D, Passes(r, d), NEW n \in PassedOn(r, d)
               PROVE  <<r.source, n, r.is_type>> \in D
    BY DEF Demanded
  <2>2. <<r.source, n, r.is_type>> \in Demands
    BY <2>1 DEF Demanded
  <2>3. ASSUME NEW b \in Names, <<r.reexporter, b, r.is_type>> \in L,
               NEW m \in Binds(r, b)
        PROVE  <<r.source, m, r.is_type>> \in L
    BY <1>1, <1>3, <2>3 DEF ConsumedThrough
  <2>4. /\ d \in Demands /\ d[1] = r.reexporter /\ d[3] = r.is_type
        /\ d = <<d[1], d[2], d[3]>>
    BY DEF Passes, Demands
  <2>5. CASE IsTrueStar(r)
    <3>1. n = d[2] /\ \A b : Binds(r, b) = {b}
      BY <2>5 DEF PassedOn, Binds, IsTrueStar
    <3>2. d[2] # Star => d[2] \in Names
      BY <2>4 DEF Demands, NamesOrStar
    <3> QED
      BY <2>2, <2>3, <2>4, <3>1, <3>2
  <2>6. CASE ~IsTrueStar(r)
    <3>1. r.exported \in Names
      <4>1. r.exported \in NamesOrStar
        BY DEF TypeInv, TypeOK, Graphs, ReexportEdges
      <4> QED
        BY <2>6, <4>1 DEF FormInv, IsTrueStar, NamesOrStar
    <3>2. <<r.reexporter, r.exported, r.is_type>> \in L
      BY <2>4, <2>6, <3>1, SymbolGraphAssumption DEF Passes
    <3>3. n \in Binds(r, r.exported) /\ n \in Names
      <4>1. \A x \in graph.memberRefs : x.member \in Names
        BY DEF TypeInv, TypeOK, Graphs, MemberRefs
      <4> QED
        BY <2>6, <3>1, <4>1 DEF PassedOn, Binds, FormInv, IsTrueStar
    <3>4. <<r.source, n, r.is_type>> \in L /\ n # Star
      BY <2>3, <3>1, <3>2, <3>3, SymbolGraphAssumption
    <3> QED
      BY <2>2, <3>4
  <2> QED
    BY <2>5, <2>6
<1>4. demand \subseteq D
  <2> HIDE DEF D
  <2> QED
    BY <1>2, <1>3 DEF NoDemandTooMany, Closed
<1> QED
  BY <1>4 DEF L

(* The findings of unused_exports.rs are exactly the exports of reachable  *)
(* files that no chain of re-exports of one kind leads to: whatever the    *)
(* order of the passes, no finding is missing and none is one too many.    *)
THEOREM UnusedExportsAreExact == Spec => []ReportIsExact
<1>1. Init => FormInv /\ LoopInv /\ LeastInv /\ ReportInv
  BY DEF Init, FormInv, LoopInv, LeastInv, NoDemandTooMany, ReportInv
<1>2. TypeInv /\ FormInv /\ LoopInv /\ LeastInv /\ ReportInv => ReportIsExact
  <2> SUFFICES ASSUME TypeInv, FormInv, LoopInv, NoDemandTooMany, ReportInv,
                      pc = "done", NEW e \in graph.exports
               PROVE  e \in findings.exports <=>
                        /\ e.file \in reachable \ Exempt
                        /\ ~IsConsumed(e, Consumed(TRUE))
                        /\ ~(options.ignoreUsedInFile /\ UsedInFile(e))
    BY DEF ReportIsExact, LeastInv
  <2>1. e.name \in Names /\ e.name # Star
    BY SymbolGraphAssumption DEF TypeInv, TypeOK, Graphs, Exports
  <2>2. IsConsumed(e, Consumed(TRUE)) => IsExportLive(e)
    BY <2>1, ConsumedIsDemanded DEF IsConsumed, IsExportLive
  <2>3. IsExportLive(e) => IsConsumed(e, Consumed(TRUE))
    BY <2>1, DemandedIsConsumed DEF IsConsumed, IsExportLive
  <2> QED
    BY <2>2, <2>3 DEF ReportInv, UnusedExports
<1> QED
  BY InitInput, InputStep, InitTypes, TypeStep, FormStep, LoopStep, LeastStep,
     ReportStep, <1>1, <1>2, PTL DEF Spec
=============================================================================
