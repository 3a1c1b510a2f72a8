---------------------------- MODULE FunctionsProofs ----------------------------
(***************************************************************************)
(* Proofs about the computations without state: the answers of the queries *)
(* of a graph, of a scan, of the commands that are built on one and of the *)
(* semantic helper.  What holds of every build, change, baseline or source *)
(* is stated first; that every answer of FunctionsMC has the properties    *)
(* its run checks follows.                                                 *)
(***************************************************************************)
EXTENDS FunctionsMC, CommandsProofs

-----------------------------------------------------------------------------
(* Every answer is the one to its question. *)

AnswerInv ==
    /\ family = "graph" => input \in GraphInputs
                           /\ (result # None => result = GraphAnswer(input))
    /\ family = "reports" => input \in ReportInputs
                             /\ (result # None => result = ReportAnswer(input))
    /\ family = "removal" => input \in RemovalInputs
                             /\ (result # None => result = RemovalAnswer(input))

LEMMA AnswersAreAnswers == Spec => []AnswerInv
<1>1. Init => AnswerInv
  BY DEF Init, Ask, AnswerInv
<1>2. AnswerInv /\ [Next]_vars => AnswerInv'
  <2> SUFFICES ASSUME AnswerInv, [Next]_vars
               PROVE  AnswerInv'
    OBVIOUS
  <2>1. CASE Answer("graph", GraphAnswer(input))
    BY <2>1 DEF Answer, AnswerInv
  <2>2. CASE Answer("reports", ReportAnswer(input))
    BY <2>2 DEF Answer, AnswerInv
  <2>3. CASE Answer("removal", RemovalAnswer(input))
    BY <2>3 DEF Answer, AnswerInv
  <2>4. CASE family' = family /\ input' = input
             /\ (result' = result \/ family \notin {"graph", "reports", "removal"})
    BY <2>4 DEF AnswerInv
  <2> QED
    BY <2>1, <2>2, <2>3, <2>4 DEF Next, Answer, vars
<1> QED
  BY <1>1, <1>2, PTL DEF Spec

-----------------------------------------------------------------------------
(* The graphs of one entrypoint and three files                            *)

LEMMA GraphFacts ==
  ASSUME NEW edges \in SUBSET AllEdges
  PROVE  LET g == GraphOf(edges, "both") IN
         /\ NodesOf(g) = Files \cup {E} /\ FileNodes(g) = Files
         /\ \A profile : EntrypointNodes(g, profile) = {E}
         /\ IsFiniteSet(NodesOf(g)) /\ Cardinality(NodesOf(g)) = 4
         /\ E \notin Files /\ None \notin NodesOf(g)
         /\ g.edges = edges
<1> DEFINE g == GraphOf(edges, "both")
<1>1. NodesOf(g) = Files \cup {E} /\ g.edges = edges
  BY DEF NodesOf, GraphOf
<1>2. A # E /\ SA # E /\ B # E /\ A # SA /\ A # B /\ SA # B
  BY DEF A, SA, B, E
<1>3. \A n \in NodesOf(g) : g.kind[n] = IF n = E THEN "entrypoint" ELSE "file"
  BY <1>1 DEF GraphOf
<1>4. g.profile[E] = "both"
  BY DEF GraphOf
<1>5. FileNodes(g) = Files /\ \A profile : EntrypointNodes(g, profile) = {E}
  BY <1>1, <1>2, <1>3, <1>4 DEF FileNodes, EntrypointNodes, Files, ActiveIn
<1>6. IsFiniteSet(NodesOf(g)) /\ Cardinality(NodesOf(g)) = 4
  <2>1. IsFiniteSet({}) /\ Cardinality({}) = 0
    BY FS_EmptySet
  <2>2. IsFiniteSet({A}) /\ Cardinality({A}) = 1
    BY FS_Singleton
  <2>3. IsFiniteSet({A} \cup {SA}) /\ Cardinality({A} \cup {SA}) = 1 + 1
    BY <1>2, <2>2, FS_AddElement
  <2>4. IsFiniteSet({A, SA} \cup {B}) /\ Cardinality({A, SA} \cup {B}) = 2 + 1
    <3>1. {A, SA} = {A} \cup {SA} /\ B \notin {A, SA}
      BY <1>2
    <3> QED
      BY <2>3, <3>1, FS_AddElement
  <2>5. IsFiniteSet(Files \cup {E}) /\ Cardinality(Files \cup {E}) = 3 + 1
    <3>1. Files = {A, SA} \cup {B} /\ E \notin Files
      BY <1>2 DEF Files
    <3> QED
      BY <2>4, <3>1, FS_AddElement
  <2> QED
    BY <1>1, <2>5
<1> QED
  BY <1>1, <1>2, <1>5, <1>6, NoneIsNoValue DEF Files

(* The impact of a file is the smallest set that holds it and whatever     *)
(* imports a member, on every graph of the run (impact.rs:15).             *)
THEOREM ImpactsAreExact == Spec => []ImpactIsExact
<1>1. AnswerInv => ImpactIsExact
  <2> SUFFICES ASSUME AnswerInv, family = "graph", result # None
               PROVE  LET named == result.impact.files \cup result.impact.entrypoints IN
                      /\ input.target \in named
                      /\ ClosedBackwards(named, input.edges)
                      /\ \A S \in SUBSET named :
                            input.target \in S /\ ClosedBackwards(S, input.edges)
                                => S = named
    BY DEF ImpactIsExact
  <2> DEFINE g == GraphOf(input.edges, "both")
             t == input.target
             named == result.impact.files \cup result.impact.entrypoints
  <2>1. /\ input.edges \in SUBSET AllEdges /\ t \in Files
        /\ result.impact = Impact(g, t, "production")
    BY DEF AnswerInv, GraphInputs, GraphAnswer
  <2>2. /\ NodesOf(g) = Files \cup {E} /\ FileNodes(g) = Files
        /\ EntrypointNodes(g, "production") = {E}
        /\ IsFiniteSet(NodesOf(g)) /\ g.edges = input.edges
    BY <2>1, GraphFacts
  <2> HIDE DEF g
  <2>3. To(g, {t}) \subseteq NodesOf(g)
    BY <2>1, <2>2, ToIsLeast
  <2>4. named = To(g, {t})
    <3>1. ReverseReachable(g, t) = To(g, {t})
      BY <2>1, <2>2 DEF ReverseReachable, To
    <3>2. /\ result.impact.files = To(g, {t}) \cap FileNodes(g)
          /\ result.impact.entrypoints = To(g, {t}) \cap {E}
      BY <2>1, <2>2, <3>1 DEF Impact
    <3> QED
      BY <2>2, <2>3, <3>2
  <2>5. \A e \in input.edges : \E m, n \in NodesOf(g) : e = <<m, n>>
    BY <2>1, <2>2 DEF AllEdges
  <2>6. t \in named
    BY <2>1, <2>2, <2>4, ToIsLeast
  <2>7. ClosedBackwards(named, input.edges)
    <3>1. ASSUME NEW m \in NodesOf(g), NEW n \in To(g, {t}), <<m, n>> \in g.edges
          PROVE  m \in To(g, {t})
      BY <2>1, <2>2, <3>1, ToIsLeast
    <3> SUFFICES ASSUME NEW e \in input.edges, e[2] \in named
                 PROVE  e[1] \in named
      BY DEF ClosedBackwards
    <3>2. PICK m \in NodesOf(g), n \in NodesOf(g) : e = <<m, n>>
      BY <2>5
    <3> QED
      BY <2>2, <2>4, <3>1, <3>2
  <2>8. ASSUME NEW S \in SUBSET named, t \in S, ClosedBackwards(S, input.edges)
        PROVE  S = named
    <3>1. ASSUME NEW m \in NodesOf(g), NEW n \in S \cap NodesOf(g), <<m, n>> \in g.edges
          PROVE  m \in S
      <4> DEFINE e == <<m, n>>
      <4>1. e \in input.edges /\ e[1] = m /\ e[2] = n
        BY <2>2, <3>1
      <4> HIDE DEF e
      <4> QED
        BY <2>8, <4>1 DEF ClosedBackwards
    <3>2. To(g, {t}) \subseteq S
      BY <2>1, <2>2, <2>8, <3>1, ToIsLeast
    <3> QED
      BY <2>4, <3>2
  <2> QED
    BY <2>6, <2>7, <2>8
<1> QED
  BY <1>1, AnswersAreAnswers, PTL

(* The path that explain and impact show for a file is a shortest one, and *)
(* there is one whenever the file is reachable, on every graph of the run  *)
(* (module_graph.rs:338).                                                  *)
THEOREM ProofsAreShortest == Spec => []ProofIsShortest
<1>1. AnswerInv => ProofIsShortest
  <2> DEFINE paths == {p \in UNION {[1..n -> Files \cup {E}] : n \in 2..4} :
                        /\ p[1] = E
                        /\ p[Len(p)] = input.target
                        /\ IsPath(p, input.edges)}
  <2> SUFFICES ASSUME AnswerInv, family = "graph", result # None
               PROVE  IF paths = {} THEN result.path = None
                      ELSE /\ result.path \in paths
                           /\ \A p \in paths : Len(result.path) <= Len(p)
    BY DEF ProofIsShortest
  <2> DEFINE g == GraphOf(input.edges, "both")
             t == input.target
             r == result.path
             leads(q) == Walk(g, q) /\ q[1] \in {E} /\ q[Len(q)] = t
  <2>1. /\ input.edges \in SUBSET AllEdges /\ t \in Files
        /\ r = ShortestPath(g, t, "production")
    BY DEF AnswerInv, GraphInputs, GraphAnswer
  <2>2. /\ NodesOf(g) = Files \cup {E} /\ E \notin Files /\ None \notin NodesOf(g)
        /\ EntrypointNodes(g, "production") = {E} /\ t \in NodesOf(g)
        /\ IsFiniteSet(NodesOf(g)) /\ Cardinality(NodesOf(g)) = 4
        /\ g.edges = input.edges
    BY <2>1, GraphFacts
  <2>3. IF t \in ReachableNodes(g, "production")
        THEN leads(r) /\ Len(r) <= 4 /\ \A q : leads(q) => Len(r) <= Len(q)
        ELSE r = None
    <3> HIDE DEF g
    <3> QED
      BY <2>1, <2>2, ShortestPathIsShortest
  <2> HIDE DEF g, r
  <2>4. ASSUME NEW p \in paths
        PROVE  leads(p) /\ t \in ReachableNodes(g, "production")
    <3>1. PICK n \in 2..4 : p \in [1..n -> NodesOf(g)]
      BY <2>2
    <3>2. p \in Seq(NodesOf(g)) /\ Len(p) = n
      BY <3>1
    <3>3. \A i \in 1..(Len(p) - 1) : p[i + 1] \in Successors(g, p[i])
      <4> TAKE i \in 1..(Len(p) - 1)
      <4>1. <<p[i], p[i + 1]>> \in g.edges
        BY <2>2 DEF IsPath
      <4>2. i + 1 \in 1..n
        BY <3>2
      <4> QED
        BY <3>1, <4>1, <4>2 DEF Successors
    <3>4. leads(p)
      BY <3>2, <3>3 DEF Walk
    <3>5. p[Len(p)] \in From(g, {E})
      BY <2>2, <3>4, WalkIsReached
    <3> QED
      BY <2>2, <3>4, <3>5 DEF ReachableNodes, From
  <2>5. ASSUME leads(r), Len(r) <= 4
        PROVE  r \in paths
    <3>1. r \in Seq(NodesOf(g)) /\ Len(r) \in Nat /\ Len(r) >= 1
          /\ r \in [1..Len(r) -> NodesOf(g)]
      BY <2>5 DEF Walk
    <3>2. Len(r) # 1
      BY <2>1, <2>2, <2>5, <3>1
    <3>3. r \in UNION {[1..n -> Files \cup {E}] : n \in 2..4}
      <4>1. Len(r) \in 2..4
        BY <2>5, <3>1, <3>2
      <4> QED
        BY <2>2, <3>1, <4>1
    <3>4. IsPath(r, input.edges)
      <4> SUFFICES ASSUME NEW i \in 1..(Len(r) - 1)
                   PROVE  <<r[i], r[i + 1]>> \in input.edges
        BY DEF IsPath
      <4>1. r[i + 1] \in Successors(g, r[i])
        BY <2>5 DEF Walk
      <4> QED
        BY <2>2, <4>1 DEF Successors
    <3> QED
      BY <2>5, <3>3, <3>4
  <2> HIDE DEF paths
  <2>6. CASE t \in ReachableNodes(g, "production")
    BY <2>3, <2>4, <2>5, <2>6 DEF r
  <2>7. CASE t \notin ReachableNodes(g, "production")
    BY <2>3, <2>4, <2>7 DEF r
  <2> QED
    BY <2>6, <2>7
<1> QED
  BY <1>1, AnswersAreAnswers, PTL

(* What is reported of each component of several files is a closed path    *)
(* through two files of it or more, on every graph of the run              *)
(* (cycles.rs:28, :78).                                                    *)
THEOREM CyclesAreReal == Spec => []CycleIsReal
<1>1. AnswerInv => CycleIsReal
  <2> SUFFICES ASSUME AnswerInv, family = "graph", result # None,
                      NEW x \in result.cycles
               PROVE  /\ x.subject # None
                      /\ ToSet(x.subject) \subseteq x.files
                      /\ Len(x.subject) > 2
                      /\ x.subject[1] = x.subject[Len(x.subject)]
                      /\ IsPath(x.subject, input.edges)
    BY DEF CycleIsReal
  <2> DEFINE g == GraphOf(input.edges, "both")
             chain == x.subject
  <2>1. input.edges \in SUBSET AllEdges /\ result.cycles = CycleFindings(g, {})
    BY DEF AnswerInv, GraphInputs, GraphAnswer
  <2>2. /\ NodesOf(g) = Files \cup {E} /\ FileNodes(g) = Files
        /\ IsFiniteSet(NodesOf(g)) /\ g.edges = input.edges /\ E \notin Files
    BY <2>1, GraphFacts
  <2> HIDE DEF g
  <2>3. None \notin Seq(NodesOf(g))
    BY <2>2, NoneIsNoValue
  <2>4. OnlyFilesAreBetween(g)
    <3>1. \A m, n \in NodesOf(g) : <<m, n>> \in g.edges => n \in Files
      BY <2>1, <2>2 DEF AllEdges
    <3> QED
      BY <2>2, <3>1 DEF OnlyFilesAreBetween
  <2>5. PICK c \in FileComponents(g) :
           /\ Cardinality(c \cap FileNodes(g)) > 1
           /\ chain = MinimalCycleChain(g, c) /\ x.files = c \cap FileNodes(g)
    BY <2>1 DEF CycleFindings
  <2> HIDE DEF chain
  <2>6. chain # None /\ IsCycle(g, x.files, chain)
    BY <2>2, <2>3, <2>4, <2>5, CyclesAreFound
  <2>7. PICK trail \in Trails(g, x.files, chain[1]) :
           /\ chain = Append(trail, chain[1]) /\ Len(trail) > 1
           /\ <<trail[Len(trail)], chain[1]>> \in g.edges
    BY <2>6 DEF IsCycle
  <2> DEFINE L == Len(trail)
             a == chain[1]
  <2>8. /\ trail \in Seq(x.files) /\ L \in Nat /\ L > 1 /\ trail[1] = a
        /\ \A i \in 1..(L - 1) : <<trail[i], trail[i + 1]>> \in g.edges
    BY <2>7 DEF Trails
  <2>9. a \in x.files /\ \A i \in 1..L : trail[i] \in x.files
    BY <2>8
  <2>10. chain = Append(trail, a) /\ <<trail[L], a>> \in g.edges
    BY <2>7
  <2> HIDE DEF a
  <2>11. /\ chain \in Seq(x.files) /\ Len(chain) = L + 1
         /\ \A i \in 1..L : chain[i] = trail[i]
         /\ chain[L + 1] = a
    BY <2>8, <2>9, <2>10
  <2>12. ToSet(chain) \subseteq x.files /\ Len(chain) > 2
         /\ chain[1] = chain[Len(chain)]
    BY <2>8, <2>11 DEF ToSet
  <2>13. IsPath(chain, input.edges)
    <3> SUFFICES ASSUME NEW i \in 1..L
                 PROVE  <<chain[i], chain[i + 1]>> \in g.edges
      BY <2>2, <2>8, <2>11 DEF IsPath
    <3>1. CASE i = L
      BY <2>8, <2>10, <2>11, <3>1
    <3>2. CASE i # L
      <4>1. i \in 1..(L - 1) /\ i + 1 \in 1..L
        BY <2>8, <3>2
      <4>2. chain[i] = trail[i] /\ chain[i + 1] = trail[i + 1]
        BY <2>11, <4>1
      <4> QED
        BY <2>8, <4>1, <4>2
    <3> QED
      BY <3>1, <3>2
  <2> QED
    BY <2>6, <2>12, <2>13 DEF chain
<1> QED
  BY <1>1, AnswersAreAnswers, PTL

-----------------------------------------------------------------------------
(* The builds of the run: what they find, and what they are in doubt about *)
LEMMA BuildFacts ==
  ASSUME NEW i \in ReportInputs
  PROVE  LET b == ReportBuild(i) IN
         /\ b.graph = GraphOf(i.edges, "both") /\ i.edges \in SUBSET AllEdges
         /\ b.findings = FindingsOf(b.graph, "high")
         /\ AreFindings(b.findings)
         /\ \A f \in b.findings : SeverityRank(f.severity) \in {1, 2, 3}
         /\ i.doubt = "heuristic" => Downgrades(b) # {}
         /\ i.doubt \in {"unresolved", "partial"} => InsufficientTrust(b)
         /\ i.doubt = "none" => ~InsufficientTrust(b)
<1> DEFINE b == ReportBuild(i)
           g == GraphOf(i.edges, "both")
<1>1. i.edges \in SUBSET AllEdges
  <2>1. /\ <<E, A>> \in AllEdges /\ <<A, B>> \in AllEdges
        /\ <<B, SA>> \in AllEdges /\ <<SA, A>> \in AllEdges
    BY DEF AllEdges, Files, A, B, SA
  <2> QED
    BY <2>1 DEF ReportInputs
<1>2. /\ b.graph = g /\ b.findings = FindingsOf(g, "high")
      /\ b.detections = (IF i.doubt = "heuristic" THEN Heuristic ELSE <<>>)
      /\ b.signal_deps = {} /\ b.signal_files = {}
      /\ b.files_resolved = 10 /\ b.partial_scope = (i.doubt = "partial")
      /\ b.unresolved = (IF i.doubt = "unresolved" THEN 1 ELSE 0)
  BY DEF ReportBuild, BuildOf
<1> HIDE DEF b
<1>3. \A f \in FindingsOf(g, "high") :
            /\ FindingFields \subseteq DOMAIN f
            /\ f.severity \in {"info", "warn", "error"}
  <2> SUFFICES ASSUME NEW f \in FindingsOf(g, "high")
               PROVE  FindingFields \subseteq DOMAIN f
                      /\ f.severity \in {"info", "warn", "error"}
    OBVIOUS
  <2> HIDE DEF g
  <2>1. \E id, code, subject, tokens, severity, confidence :
            /\ f = Finding(id, code, subject, tokens, severity, confidence)
            /\ severity \in {"info", "warn", "error"}
    BY ZenonT(30) DEF FindingsOf
  <2> QED
    BY <2>1 DEF Finding, FindingFields
<1>4. AreFindings(b.findings)
  BY <1>2, <1>3 DEF AreFindings
<1>5. \A f \in b.findings : SeverityRank(f.severity) \in {1, 2, 3}
  BY <1>2, <1>3 DEF SeverityRank
<1>6. ASSUME i.doubt = "heuristic"
      PROVE  Downgrades(b) # {}
  <2> DEFINE d == [name |-> "vite", confidence |-> "heuristic"]
  <2>1. b.detections = <<d>>
    BY <1>2, <1>6 DEF Heuristic
  <2>2. d.name = "vite" /\ d.confidence = "heuristic"
    OBVIOUS
  <2> HIDE DEF d
  <2>3. d \in FirstDetections(<<d>>)
    BY DEF FirstDetections
  <2>4. "vite" \in Downgrades(b)
    BY <2>1, <2>2, <2>3 DEF Downgrades, Compatibility
  <2> QED
    BY <2>4
<1>7. i.doubt = "unresolved" => ExceedsPercent(b, 5)
  BY <1>2 DEF ExceedsPercent
<1>8. i.doubt = "none" => ~InsufficientTrust(b)
  <2> SUFFICES ASSUME i.doubt = "none"
               PROVE  ~InsufficientTrust(b)
    OBVIOUS
  <2>1. b.unresolved = 0 /\ b.files_resolved = 10 /\ ~b.partial_scope
    BY <1>2
  <2>2. ~ExceedsPercent(b, 5) /\ ~ExceedsPercent(BuildStats(b), 5)
    BY <2>1 DEF ExceedsPercent, BuildStats
  <2> QED
    BY <2>1, <2>2 DEF InsufficientTrust, CompatibilityOutput, BuildStats
<1>9. i.doubt = "partial" => b.partial_scope
  BY <1>2
<1> QED
  BY <1>1, <1>2, <1>4, <1>5, <1>6, <1>7, <1>8, <1>9 DEF InsufficientTrust, b

(* The world and the options of a question about reports *)
WorldOf(i) ==
    [diff |-> i.diff,
     index |-> [p \in IF i.known THEN {Gone} ELSE {} |-> "pkg"],
     baselines |-> [root |-> i.baseline, config_dir |-> None]]

OptionsOf(i) ==
    [Options EXCEPT !.changed_since = i.changed_since,
                    !.focus = i.focus, !.no_cache = i.no_cache,
                    !.strict_trust = TRUE]

LEMMA ReportAnswers ==
  ASSUME AnswerInv, family = "reports", result # None
  PROVE  /\ input \in ReportInputs
         /\ result.scan = ScanWithOptions(ReportBuild(input), WorldOf(input),
                                          OptionsOf(input))
         /\ result.review = Review(ReportBuild(input), WorldOf(input), OptionsOf(input))
         /\ [OptionsOf(input) EXCEPT !.require_full_scope = FALSE] = OptionsOf(input)
         /\ OptionsOf(input).strict_trust
<1>1. input \in ReportInputs /\ result = ReportAnswer(input)
  BY DEF AnswerInv
<1>2. /\ result.scan = ScanWithOptions(ReportBuild(input), WorldOf(input),
                                       OptionsOf(input))
      /\ result.review = Review(ReportBuild(input), WorldOf(input), OptionsOf(input))
  BY <1>1 DEF ReportAnswer, WorldOf, OptionsOf
<1>3. /\ [OptionsOf(input) EXCEPT !.require_full_scope = FALSE] = OptionsOf(input)
      /\ OptionsOf(input).strict_trust
  <2> DEFINE o == OptionsOf(input)
  <2>1. /\ DOMAIN o = DOMAIN Options /\ o = [x \in DOMAIN o |-> o[x]]
        /\ ~o.require_full_scope /\ o.require_full_scope = FALSE /\ o.strict_trust
    BY DEF OptionsOf, Options
  <2> HIDE DEF o
  <2>2. [o EXCEPT !.require_full_scope = FALSE] = o
    BY <2>1
  <2> QED
    BY <2>1, <2>2 DEF o
<1> QED
  BY <1>1, <1>2, <1>3

(* A strict review in doubt blocks nothing, for every question of the run  *)
(* (lib.rs:962).                                                           *)
THEOREM DoubtBlocksNothing == Spec => []DoubtNeverBlocks
<1>1. AnswerInv => DoubtNeverBlocks
  <2> SUFFICES ASSUME AnswerInv, family = "reports", result # None, result.review.ok
               PROVE  LET r == result.review.report IN
                      /\ r.blocking_findings \cup r.advisory_findings = r.new_findings
                      /\ r.blocking_findings \cap r.advisory_findings = {}
                      /\ input.doubt # "none" => r.blocking_findings = {}
    BY DEF DoubtNeverBlocks
  <2> DEFINE b == ReportBuild(input)
             w == WorldOf(input)
             o == OptionsOf(input)
             r == Review(b, w, o).report
  <2>1. /\ input \in ReportInputs /\ o.strict_trust
        /\ Review(b, w, o).ok /\ result.review.report = r
    BY ReportAnswers
  <2>2. input.doubt \in {"none", "heuristic", "partial", "unresolved"}
    BY <2>1 DEF ReportInputs
  <2>3. AreFindings(b.findings)
    BY <2>1, BuildFacts
  <2>4. input.doubt # "none" => InsufficientTrust(b) \/ Downgrades(b) # {}
    BY <2>1, <2>2, BuildFacts
  <2> HIDE DEF b, w, o
  <2>5. /\ r.blocking_findings \cup r.advisory_findings = r.new_findings
        /\ r.blocking_findings \cap r.advisory_findings = {}
        /\ InsufficientTrust(b) \/ Downgrades(b) # {} => r.blocking_findings = {}
    BY <2>1, <2>3, ReviewDividesItsScan
  <2> QED
    BY <2>1, <2>4, <2>5
<1> QED
  BY <1>1, AnswersAreAnswers, PTL

-----------------------------------------------------------------------------
(* The exit code                                                           *)

(* Unless a daemon is required, one that is absent, cold or silent leaves  *)
(* every command to the process of the command, with the exit code of that *)
(* run (try_daemon_*, main.rs:376).                                        *)
LEMMA ColdDaemonsFallBack ==
  ASSUME NEW command, NEW daemon \in DaemonStates \ {"warm"}, NEW b, NEW o,
         NEW flags, NEW one_shot
  PROVE  ExitCode(command, "auto", daemon, b, o, flags, one_shot) =
            OneShotExit(command, one_shot, flags)
BY DEF ExitCode, DaemonStates

(* With findings of any severity and no limit, a scan exits with 1 exactly *)
(* when it reports one; a review does when one blocks; an error of either  *)
(* is the exit code 2 (main.rs:376).                                       *)
LEMMA OneShotExits ==
  ASSUME NEW answer
  PROVE  /\ ~answer.ok => \A command : OneShotExit(command, answer, Flags) = 2
         /\ /\ answer.ok /\ "findings" \in DOMAIN answer.report
            /\ \A f \in answer.report.findings : SeverityRank(f.severity) \in {1, 2, 3}
            => OneShotExit("scan", answer, Flags) =
                    IF answer.report.findings = {} THEN 0 ELSE 1
         /\ answer.ok => OneShotExit("review", answer, Flags) =
                    IF answer.report.blocking_findings = {} THEN 0 ELSE 1
<1>1. ~answer.ok => \A command : OneShotExit(command, answer, Flags) = 2
  BY DEF OneShotExit
<1>2. answer.ok => OneShotExit("review", answer, Flags) =
                    IF answer.report.blocking_findings = {} THEN 0 ELSE 1
  BY DEF OneShotExit
<1>3. ASSUME answer.ok, "findings" \in DOMAIN answer.report,
             \A f \in answer.report.findings : SeverityRank(f.severity) \in {1, 2, 3}
      PROVE  OneShotExit("scan", answer, Flags) =
                    IF answer.report.findings = {} THEN 0 ELSE 1
  <2>1. SeverityRank("info") = 1
    BY DEF SeverityRank
  <2>2. Filtered(answer.report.findings, Flags.severity, Flags.max_findings) =
            answer.report.findings
    BY <1>3, <2>1 DEF Filtered, Flags
  <2>3. ScanReport(answer.report, Flags).findings = answer.report.findings
    BY <1>3, <2>2 DEF ScanReport
  <2> QED
    BY <1>3, <2>3 DEF OneShotExit
<1> QED
  BY <1>1, <1>2, <1>3

(* A daemon that cannot answer does not show in the exit codes of scan and *)
(* review, for every question of the run (main.rs:376).                    *)
THEOREM FallbacksAreInvisible == Spec => []FallbackIsInvisible
<1>1. AnswerInv => FallbackIsInvisible
  <2> SUFFICES ASSUME AnswerInv, family = "reports", result # None,
                      NEW daemon \in DaemonStates \ {"warm"}
               PROVE  /\ CodeOf("scan", "auto", daemon) =
                            IF ~result.scan.ok THEN 2
                            ELSE IF result.scan.report.findings = {} THEN 0 ELSE 1
                      /\ CodeOf("review", "auto", daemon) =
                            IF ~result.review.ok THEN 2
                            ELSE IF Blocking(result.scan.report.findings) = {}
                                    \/ input.doubt # "none" THEN 0 ELSE 1
    BY DEF FallbackIsInvisible
  <2> DEFINE b == ReportBuild(input)
             w == WorldOf(input)
             o == OptionsOf(input)
             scan == ScanWithOptions(b, w, o)
             review == Review(b, w, o)
  <2>1. /\ input \in ReportInputs /\ o.strict_trust
        /\ [o EXCEPT !.require_full_scope = FALSE] = o
        /\ result.scan = scan /\ result.review = review
    BY ReportAnswers
  <2>2. input.doubt \in {"none", "heuristic", "partial", "unresolved"}
    BY <2>1 DEF ReportInputs
  <2>3. /\ AreFindings(b.findings)
        /\ \A f \in b.findings : SeverityRank(f.severity) \in {1, 2, 3}
    BY <2>1, BuildFacts
  <2>4. /\ input.doubt # "none" => InsufficientTrust(b) \/ Downgrades(b) # {}
        /\ input.doubt = "none" => ~InsufficientTrust(b)
    BY <2>1, <2>2, BuildFacts
  <2>5. /\ CodeOf("scan", "auto", daemon) = OneShotExit("scan", scan, Flags)
        /\ CodeOf("review", "auto", daemon) = OneShotExit("review", review, Flags)
    BY <2>1, ColdDaemonsFallBack DEF CodeOf
  <2> HIDE DEF b, w, o
  <2>6. ASSUME scan.ok
        PROVE  /\ "findings" \in DOMAIN scan.report
               /\ \A r \in scan.report.findings : SeverityRank(r.severity) \in {1, 2, 3}
    <3>1. \A r \in scan.report.findings : \E f \in b.findings : Shows(r, f)
      BY <2>3, <2>6, ScanIsExact
    <3> QED
      BY <2>3, <2>6, <3>1, ScanFindings DEF Shows
  <2>7. ASSUME review.ok
        PROVE  review.report.blocking_findings = {} <=>
                    Blocking(scan.report.findings) = {} \/ input.doubt # "none"
    <3>1. /\ review.report.new_findings = scan.report.findings
          /\ InsufficientTrust(b) \/ Downgrades(b) # {}
                => review.report.blocking_findings = {}
          /\ ~InsufficientTrust(b)
                => review.report.blocking_findings = Blocking(review.report.new_findings)
      BY <2>1, <2>3, <2>7, ReviewDividesItsScan
    <3> QED
      BY <2>4, <3>1
  <2> HIDE DEF scan, review
  <2>8. OneShotExit("scan", scan, Flags) =
            IF ~scan.ok THEN 2 ELSE IF scan.report.findings = {} THEN 0 ELSE 1
    BY <2>6, OneShotExits
  <2>9. OneShotExit("review", review, Flags) =
            IF ~review.ok THEN 2
            ELSE IF Blocking(scan.report.findings) = {} \/ input.doubt # "none"
                 THEN 0 ELSE 1
    BY <2>7, OneShotExits
  <2> QED
    BY <2>1, <2>5, <2>8, <2>9
<1> QED
  BY <1>1, AnswersAreAnswers, PTL

(* A scan leaves out a finding only for a reason that was asked for, for   *)
(* every question of the run (lib.rs:118).                                 *)
THEOREM ScansHideOnlyKnown == Spec => []ScanHidesOnlyKnown
<1>1. AnswerInv => ScanHidesOnlyKnown
  <2> DEFINE b == ReportBuild(input)
             w == WorldOf(input)
             o == OptionsOf(input)
             g == b.graph
             reaches(p) == {x \in Files : p \in Files /\ p \in ReverseReachable(g, x)}
             touched == {l.path : l \in {x \in input.diff : x.status = "M"}}
                        \cup {l.to : l \in {x \in input.diff : x.status = "R"}}
             lost == ~input.known \/ input.no_cache
             deleted == {l.path : l \in {x \in input.diff : x.status = "D"}}
             known(f) == input.baseline # None /\ f.id \in input.baseline.ids
             outOfFocus(f) == input.focus # None /\ f.tokens \cap input.focus = {}
             untouched(f) ==
                /\ input.changed_since
                /\ deleted = {} \/ ~lost
                /\ f.tokens \cap (touched \cup deleted) = {}
                /\ \A p \in f.tokens \cap ReachableNodes(g, "production") :
                        reaches(p) \cap touched = {}
  <2> SUFFICES ASSUME AnswerInv, family = "reports", result # None, result.scan.ok,
                      NEW f \in b.findings
               PROVE  \/ Reported(f, result.scan.report.findings)
                      \/ known(f) \/ outOfFocus(f) \/ untouched(f)
    BY DEF ScanHidesOnlyKnown
  <2>1. /\ input \in ReportInputs
        /\ result.scan = ScanWithOptions(b, w, o)
    BY ReportAnswers
  <2>2. /\ AreFindings(b.findings) /\ FileNodes(g) = Files
        /\ f.tokens # {}
    <3>1. /\ g = GraphOf(input.edges, "both") /\ input.edges \in SUBSET AllEdges
          /\ AreFindings(b.findings) /\ f \in FindingsOf(g, "high")
      BY <2>1, BuildFacts
    <3>2. FileNodes(g) = Files
      BY <3>1, GraphFacts
    <3>3. f.tokens # {}
      <4> HIDE DEF g
      <4> DEFINE Named(tokens) == \E id, code, subject, severity, confidence :
                    f = Finding(id, code, subject, tokens, severity, confidence)
      <4>1. \/ \E x : Named({x})
            \/ \E c \in CycleFindings(g, {}) : Named(c.files)
        <5>1. \/ \E x \in Files \ ReachableFileIds(g, "production") :
                    f = Finding(IdOf(x), "unused-file", x, {x}, "warn", "high")
              \/ \E x \in ReachableFileIds(g, "production") \ {B} :
                    f = Finding(10 + IdOf(x), "unused-export", x \o <<"#", "x">>, {x},
                                "error", "high")
              \/ f = Finding(20, "unused-dependency", Dependency, {Dependency},
                             "info", "high")
              \/ \E c \in CycleFindings(g, {}) :
                    f = Finding(30, "cycle", c.subject[1] \o <<" -> ">>, c.files,
                                "warn", c.confidence)
          BY <3>1, Zenon DEF FindingsOf
        <5> QED
          BY <5>1, Zenon
      <4>2. ASSUME NEW c \in CycleFindings(g, {})
            PROVE  c.files # {}
        <5>1. PICK d : /\ Cardinality(d \cap FileNodes(g)) > 1
                       /\ c = [code |-> "cycle", subject |-> MinimalCycleChain(g, d),
                               files |-> d \cap FileNodes(g),
                               confidence |-> IF d \cap {} # {} THEN "low" ELSE "high"]
          BY Zenon DEF CycleFindings
        <5> QED
          BY <5>1, FS_EmptySet
      <4> QED
        <5>1. ASSUME NEW tokens, Named(tokens)
              PROVE  f.tokens = tokens
          BY <5>1 DEF Finding
        <5> HIDE DEF Named
        <5> QED
          BY <4>1, <4>2, <5>1
    <3> QED
      BY <3>1, <3>2, <3>3
  <2>3. /\ o.changed_since = input.changed_since /\ o.focus = input.focus
        /\ o.no_cache = input.no_cache /\ o.profile = "production"
        /\ ~o.no_baseline /\ ~o.config_dir /\ o.ignore_issues = {}
        /\ w.diff = input.diff /\ w.baselines.root = input.baseline
        /\ w.index = [p \in IF input.known THEN {Gone} ELSE {} |-> "pkg"]
    BY DEF OptionsOf, Options, WorldOf
  <2> HIDE DEF b, w, o
  <2>4. \/ Hidden(b, w, o, f)
        \/ Reported(f, result.scan.report.findings)
    <3>1. ~IgnoredBy(f, o.ignore_issues)
      BY <2>3 DEF IgnoredBy
    <3>2. Hidden(b, w, o, f) \/ \E r \in result.scan.report.findings : Shows(r, f)
      BY <2>1, <2>2, <3>1, ScanIsExact
    <3> QED
      BY <3>2 DEF Reported, Shows
  <2>5. ASSUME OutOfFocus(b, o, f)
        PROVE  outOfFocus(f)
    BY <2>3, <2>5 DEF OutOfFocus, MatchesFocus
  <2>6. ASSUME InBaseline(w, o, f)
        PROVE  known(f)
    <3>1. BaselineOf(w, o) \in {None, input.baseline}
      BY <2>3 DEF BaselineOf, LoadBaseline
    <3> QED
      BY <2>6, <3>1 DEF InBaseline
  <2>7. ASSUME Unaffected(b, w, o, f)
        PROVE  untouched(f)
    <3> DEFINE scope == CollectChangedScope(input.diff).report
               index == IF o.no_cache THEN None ELSE w.index
               changed == scope.added \cup scope.modified
                            \cup {r[2] : r \in scope.renamed}
               found == {FindFile(g, p) : p \in changed} \ {None}
               gone == Recoverable(scope, index)
               nodes == (UNION {ReverseReachable(g, x) : x \in found})
                            \cap ReachableNodes(g, "production")
               files == (found \cup (nodes \cap FileNodes(g))) \cup gone
    <3>1. /\ AffectedBy(b, w, o).files = files
          /\ AffectedBy(b, w, o).incomplete = (scope.deleted # gone)
      BY <2>3 DEF AffectedBy, AffectedScope
    <3>2. input.changed_since /\ scope.deleted = gone /\ f.tokens \cap files = {}
      BY <2>2, <2>3, <2>7, <3>1 DEF Unaffected, InAffectedScope
    <3>3. CollectChangedScope(input.diff).ok
      <4>1. ScanWithOptions(b, w, o).ok
        BY <2>1
      <4>2. o.changed_since => CollectChangedScope(w.diff).ok
        BY <4>1, ScanFindings
      <4> QED
        BY <2>3, <3>2, <4>2
    <3>4. /\ scope.deleted = deleted
          /\ touched \subseteq changed
      <4>1. scope = [added |-> {l.path : l \in {x \in input.diff : x.status = "A"}},
                     modified |-> {l.path : l \in {x \in input.diff :
                                        x.status \in {"M", "T", "C"}}},
                     deleted |-> deleted,
                     renamed |-> {<<l.path, l.to>> :
                                    l \in {x \in input.diff : x.status = "R"}}]
        BY <3>3 DEF CollectChangedScope, Refused, Answered
      <4> HIDE DEF scope
      <4>2. scope.deleted = deleted
        BY <4>1
      <4>3. {l.path : l \in {x \in input.diff : x.status = "M"}} \subseteq scope.modified
        BY <4>1
      <4>4. {l.to : l \in {x \in input.diff : x.status = "R"}}
                \subseteq {r[2] : r \in scope.renamed}
        <5> SUFFICES ASSUME NEW l \in input.diff, l.status = "R"
                     PROVE  l.to \in {r[2] : r \in scope.renamed}
          OBVIOUS
        <5> DEFINE r == <<l.path, l.to>>
        <5>1. r \in scope.renamed /\ r[2] = l.to
          BY <4>1
        <5> HIDE DEF r
        <5> QED
          BY <5>1
      <4> QED
        BY <4>2, <4>3, <4>4
    <3>5. touched \subseteq Files
      <4>1. input.diff # None
        BY <3>3 DEF CollectChangedScope, Refused
      <4>2. input.diff \in Diffs
        BY <2>1 DEF ReportInputs
      <4>3. \A l \in input.diff : /\ l.status = "M" => l.path = B
                                  /\ l.status = "R" => l.to = SA
        BY <4>1, <4>2 DEF Diffs
      <4> QED
        BY <4>3 DEF Files
    <3> HIDE DEF scope, touched, deleted
    <3>6. touched \subseteq found
      <4>1. ASSUME NEW p \in touched
            PROVE  FindFile(g, p) = p /\ p # None
        BY <2>2, <3>5, NoneIsNoValue DEF FindFile
      <4> QED
        BY <3>4, <4>1
    <3>7. deleted = {} \/ ~lost
      <4>1. gone = IF index = None THEN {} ELSE deleted \cap DOMAIN index
        BY <3>4 DEF Recoverable
      <4>2. CASE input.no_cache
        BY <2>3, <3>2, <3>4, <4>1, <4>2
      <4>3. CASE ~input.known
        BY <2>3, <3>2, <3>4, <4>1, <4>3
      <4> QED
        BY <4>2, <4>3
    <3> HIDE DEF found, gone
    <3>8. f.tokens \cap (touched \cup deleted) = {}
      BY <3>2, <3>4, <3>6
    <3>9. ASSUME NEW p \in f.tokens \cap ReachableNodes(g, "production")
          PROVE  reaches(p) \cap touched = {}
      <4> SUFFICES ASSUME NEW x \in touched, p \in Files, p \in ReverseReachable(g, x)
                   PROVE  FALSE
        OBVIOUS
      <4>1. p \in nodes \cap FileNodes(g)
        <5>1. x \in found /\ p \in ReachableNodes(g, "production") /\ p \in FileNodes(g)
          BY <2>2, <3>6, <3>9
        <5> QED
          BY <5>1, Zenon
      <4> HIDE DEF nodes
      <4> QED
        BY <3>2, <3>9, <4>1
    <3> HIDE DEF reaches
    <3> QED
      BY <3>2, <3>7, <3>8, <3>9
  <2> HIDE DEF untouched, outOfFocus, known
  <2> QED
    BY <2>4, <2>5, <2>6, <2>7 DEF Hidden
<1> QED
  BY <1>1, AnswersAreAnswers, PTL

-----------------------------------------------------------------------------
(* The questions about removal                                             *)

LEMMA IdsOfFiles ==
  /\ IdOf(A) = 1 /\ IdOf(SA) = 2 /\ IdOf(B) = 3
  /\ \A f \in Files : IdOf(f) \in 1..3
  /\ \A f, h \in Files : IdOf(f) = IdOf(h) => f = h
<1> DEFINE list == <<A, SA, B>>
<1>1. A # SA /\ A # B /\ SA # B
  BY DEF A, SA, B
<1>2. list[1] = A /\ list[2] = SA /\ list[3] = B
  OBVIOUS
<1>3. \A f : IdOf(f) = CHOOSE i \in 1..3 : list[i] = f
  BY DEF IdOf
<1> HIDE DEF list
<1>4. \A i \in 1..3 : i = 1 \/ i = 2 \/ i = 3
  OBVIOUS
<1>5. IdOf(A) = 1 /\ IdOf(SA) = 2 /\ IdOf(B) = 3
  BY <1>1, <1>2, <1>3, <1>4
<1> QED
  BY <1>5 DEF Files

(* There is at most one cycle of two files or more among three. *)
LEMMA OneCycle ==
  ASSUME NEW edges \in SUBSET AllEdges,
         NEW c \in CycleFindings(GraphOf(edges, "both"), {}),
         NEW d \in CycleFindings(GraphOf(edges, "both"), {})
  PROVE  c = d /\ c.confidence = "high"
<1> DEFINE g == GraphOf(edges, "both")
           report(x) == [code |-> "cycle", subject |-> MinimalCycleChain(g, x),
                         files |-> x \cap FileNodes(g), confidence |-> "high"]
<1>1. FileNodes(g) = Files /\ IsFiniteSet(NodesOf(g))
  BY GraphFacts
<1> HIDE DEF g
<1>2. ASSUME NEW f \in CycleFindings(g, {})
      PROVE  \E x : /\ x \in {Component(g, n) : n \in NodesOf(g)}
                    /\ Cardinality(x \cap Files) > 1 /\ f = report(x)
  BY <1>1, <1>2 DEF CycleFindings, FileComponents
<1>3. PICK x : /\ x \in {Component(g, n) : n \in NodesOf(g)}
               /\ Cardinality(x \cap Files) > 1 /\ c = report(x)
  BY <1>2 DEF g
<1>4. PICK y : /\ y \in {Component(g, n) : n \in NodesOf(g)}
               /\ Cardinality(y \cap Files) > 1 /\ d = report(y)
  BY <1>2 DEF g
<1>5. ASSUME NEW S, Cardinality(S \cap Files) > 1
      PROVE  (A \in S /\ SA \in S) \/ (A \in S /\ B \in S) \/ (SA \in S /\ B \in S)
  <2>1. Cardinality({}) = 0 /\ \A z : Cardinality({z}) = 1
    BY FS_EmptySet, FS_Singleton
  <2>2. S \cap Files # {} /\ \A z : S \cap Files # {z}
    <3>1. ~(0 > 1) /\ ~(1 > 1)
      OBVIOUS
    <3> QED
      BY <1>5, <2>1, <3>1, Zenon
  <2>3. PICK z \in S \cap Files : TRUE
    BY <2>2
  <2>4. PICK u \in S \cap Files : u # z
    BY <2>2
  <2> QED
    BY <2>3, <2>4 DEF Files
<1>6. x \cap y # {}
  BY <1>3, <1>4, <1>5
<1>7. x = y
  <2>1. PICK m \in NodesOf(g) : x = Component(g, m)
    BY <1>3
  <2>2. PICK n \in NodesOf(g) : y = Component(g, n)
    BY <1>4
  <2> QED
    BY <1>1, <1>6, <2>1, <2>2, ComponentsPartition
<1> QED
  BY <1>3, <1>4, <1>7

(* No two findings of a question have the same id. *)
LEMMA FindingsAreNumbered ==
  ASSUME NEW edges \in SUBSET AllEdges, NEW confidence \in Confidences
  PROVE  /\ AreNumbered(FindingsOf(GraphOf(edges, "both"), confidence))
         /\ AreFindings(FindingsOf(GraphOf(edges, "both"), confidence))
<1> DEFINE g == GraphOf(edges, "both")
           S == FindingsOf(g, confidence)
           unused(x) == Finding(IdOf(x), "unused-file", x, {x}, "warn", confidence)
           export(x) == Finding(10 + IdOf(x), "unused-export", x \o <<"#", "x">>,
                                {x}, "error", "high")
           dependency == Finding(20, "unused-dependency", Dependency,
                                 {Dependency}, "info", "high")
           cycle(c) == Finding(30, "cycle", c.subject[1] \o <<" -> ">>, c.files,
                               "warn", c.confidence)
           ids == 1..30
<1>1. FileNodes(g) = Files
  BY GraphFacts
<1>2. \A c, d \in CycleFindings(g, {}) : c = d /\ c.confidence = "high"
  BY OneCycle
<1> HIDE DEF g
<1>3. ASSUME NEW f \in S
      PROVE  \/ \E x \in Files : f = unused(x)
             \/ \E x \in Files : f = export(x)
             \/ f = dependency
             \/ \E c \in CycleFindings(g, {}) : f = cycle(c)
  <2>1. ReachableFileIds(g, "production") \subseteq Files
    BY <1>1 DEF ReachableFileIds
  <2>2. \/ \E x \in Files \ ReachableFileIds(g, "production") : f = unused(x)
        \/ \E x \in ReachableFileIds(g, "production") \ {B} : f = export(x)
        \/ f = dependency
        \/ \E c \in CycleFindings(g, {}) : f = cycle(c)
    BY ZenonT(30) DEF FindingsOf
  <2> HIDE DEF S, unused, export, dependency, cycle
  <2> QED
    BY <2>1, <2>2
<1> HIDE DEF S
<1>4. ASSUME NEW id, NEW code, NEW subject, NEW tokens, NEW severity, NEW sure,
             NEW f, f = Finding(id, code, subject, tokens, severity, sure)
      PROVE  f.id = id /\ f.confidence = sure /\ FindingFields \subseteq DOMAIN f
  BY <1>4 DEF Finding, FindingFields
<1>5. /\ \A x \in Files : /\ unused(x).id = IdOf(x)
                          /\ unused(x).confidence = confidence
                          /\ FindingFields \subseteq DOMAIN unused(x)
      /\ \A x \in Files : /\ export(x).id = 10 + IdOf(x)
                          /\ export(x).confidence = "high"
                          /\ FindingFields \subseteq DOMAIN export(x)
      /\ dependency.id = 20 /\ dependency.confidence = "high"
      /\ FindingFields \subseteq DOMAIN dependency
      /\ \A c \in CycleFindings(g, {}) :
                          /\ cycle(c).id = 30 /\ cycle(c).confidence = "high"
                          /\ FindingFields \subseteq DOMAIN cycle(c)
  <2>1. ASSUME NEW x \in Files
        PROVE  /\ unused(x).id = IdOf(x) /\ unused(x).confidence = confidence
               /\ FindingFields \subseteq DOMAIN unused(x)
    BY <1>4
  <2>2. ASSUME NEW x \in Files
        PROVE  /\ export(x).id = 10 + IdOf(x) /\ export(x).confidence = "high"
               /\ FindingFields \subseteq DOMAIN export(x)
    BY <1>4
  <2>3. /\ dependency.id = 20 /\ dependency.confidence = "high"
        /\ FindingFields \subseteq DOMAIN dependency
    BY <1>4
  <2>4. ASSUME NEW c \in CycleFindings(g, {})
        PROVE  /\ cycle(c).id = 30 /\ cycle(c).confidence = c.confidence
               /\ FindingFields \subseteq DOMAIN cycle(c)
    BY DEF Finding, FindingFields
  <2> HIDE DEF unused, export, dependency, cycle
  <2> QED
    BY <1>2, <2>1, <2>2, <2>3, <2>4
<1> HIDE DEF unused, export, dependency, cycle
<1>6. ASSUME NEW f \in S
      PROVE  /\ f.id \in ids /\ f.confidence \in Confidences
             /\ FindingFields \subseteq DOMAIN f
  BY <1>3, <1>5, IdsOfFiles DEF Confidences
<1>7. ASSUME NEW f \in S, NEW h \in S, f.id = h.id
      PROVE  f = h
  <2>1. CASE \E x \in Files : f = unused(x)
    BY <1>3, <1>5, <1>7, <2>1, IdsOfFiles
  <2>2. CASE \E x \in Files : f = export(x)
    BY <1>3, <1>5, <1>7, <2>2, IdsOfFiles
  <2>3. CASE f = dependency
    BY <1>3, <1>5, <1>7, <2>3, IdsOfFiles
  <2>4. CASE \E c \in CycleFindings(g, {}) : f = cycle(c)
    BY <1>2, <1>3, <1>5, <1>7, <2>4, IdsOfFiles
  <2> QED
    BY <1>3, <2>1, <2>2, <2>3, <2>4
<1>8. IsFiniteSet(S)
  <2> DEFINE id == [f \in S |-> f.id]
  <2>1. IsFiniteSet(ids)
    <3>1. \A n \in Nat : IsFiniteSet(1..n)
      BY FS_Interval
    <3> QED
      BY <3>1
  <2>2. id \in Injection(S, ids)
    <3>1. id \in [S -> ids]
      <4> HIDE DEF ids
      <4> QED
        BY <1>6
    <3>2. \A f, h \in S : id[f] = id[h] => f = h
      BY <1>7
    <3> QED
      BY <3>1, <3>2 DEF Injection, IsInjective
  <2> HIDE DEF id, ids
  <2> QED
    BY <2>1, <2>2, FS_Injection
<1>9. ids \subseteq Nat
  OBVIOUS
<1> QED
  BY <1>6, <1>7, <1>8, <1>9 DEF AreNumbered, AreFindings, S, g

(* Which targets a deletion calls safe, and what it puts in order *)
DeletesAt(positions, g, targets, rank, deletion) ==
    /\ deletion.safe = TargetsAt(targets, positions)
    /\ deletion.deletion_order = DeletionOrder(g, targets, positions, rank)

LEMMA SafeTargetsOf ==
  ASSUME NEW b, ~b.partial_scope, NEW scan, scan.ok, NEW profile, NEW targets, NEW rank
  PROVE  LET d == DeletionOfScan(b, scan, profile, targets, rank) IN
         /\ d.ok
         /\ \E positions \in SUBSET DOMAIN targets :
                DeletesAt(positions, b.graph, targets, rank, d.report)
<1> DEFINE d == DeletionOfScan(b, scan, profile, targets, rank)
           class(t) == Classify(b, scan.report.findings, t, profile)
           final(t) == IF class(t) = "safe" /\ TrustDowngraded(b)
                       THEN "needs-review" ELSE class(t)
           positions == {i \in DOMAIN targets : final(targets[i]) = "safe"}
<1>1. /\ d.ok /\ d.report.safe = {t \in ToSet(targets) : final(t) = "safe"}
      /\ d.report.deletion_order = DeletionOrder(b.graph, targets, positions, rank)
  BY DEF DeletionOfScan, Answered
<1> HIDE DEF d, final
<1>2. {t \in ToSet(targets) : final(t) = "safe"} = {targets[i] : i \in positions}
  BY DEF ToSet
<1>3. positions \in SUBSET DOMAIN targets
  OBVIOUS
<1> HIDE DEF positions
<1>4. DeletesAt(positions, b.graph, targets, rank, d.report)
  BY <1>1, <1>2 DEF DeletesAt, TargetsAt
<1> QED
  BY <1>1, <1>3, <1>4 DEF d

(* The scan of everything is never refused for its world in the run. *)
RemovalBuild(i) == BuildOf(i.edges, i.confidence, <<>>, i.unresolved, FALSE)

RemovalWorld == [diff |-> None, index |-> [p \in {} |-> "pkg"],
                 baselines |-> [root |-> None, config_dir |-> None]]

WholeOptions == [Options EXCEPT !.no_baseline = TRUE, !.require_full_scope = FALSE,
                                !.changed_since = FALSE, !.focus = None]

LEMMA RemovalAnswers ==
  ASSUME AnswerInv, family = "removal", result # None
  PROVE  LET b == RemovalBuild(input)
             scan == ScanWithOptions(b, RemovalWorld, WholeOptions)
             g == GraphOf(input.edges, "both")
         IN /\ input.edges \in SUBSET AllEdges
            /\ input.targets \in {<<A, SA>>, <<SA, B, A>>}
            /\ b.graph = g /\ b.findings = FindingsOf(g, input.confidence)
            /\ b.partial_scope = FALSE
            /\ scan.ok /\ AreNumbered(scan.report.findings)
            /\ result.deletion = DeletionOfScan(b, scan, "production",
                                                input.targets, Alphabetical)
            /\ \E targets : result.plan = PlanOfScan(b, scan, targets)
<1> DEFINE b == RemovalBuild(input)
           scan == ScanWithOptions(b, RemovalWorld, WholeOptions)
           g == GraphOf(input.edges, "both")
           targets == {[id |-> 20, text |-> t] : t \in ToSet(input.targets)}
<1>1. /\ input \in RemovalInputs /\ result = RemovalAnswer(input)
      /\ input.edges \in SUBSET AllEdges /\ input.confidence \in Confidences
      /\ input.targets \in {<<A, SA>>, <<SA, B, A>>}
  BY DEF AnswerInv, RemovalInputs, Confidences
<1>2. /\ b.graph = g /\ b.findings = FindingsOf(g, input.confidence)
      /\ b.partial_scope = FALSE
  BY DEF RemovalBuild, BuildOf
<1>3. /\ result.deletion = SafeDelete(b, RemovalWorld, Options, input.targets,
                                      Alphabetical)
      /\ result.plan = FixPlan(b, RemovalWorld, Options, targets)
  BY <1>1 DEF RemovalAnswer, RemovalBuild, RemovalWorld
<1> HIDE DEF b, g, targets
<1>4. ScanOfEverything(b, RemovalWorld, Options) = scan
  BY DEF ScanOfEverything, WholeOptions
<1>5. /\ result.deletion = DeletionOfScan(b, scan, "production", input.targets,
                                          Alphabetical)
      /\ result.plan = PlanOfScan(b, scan, targets)
  <2>1. Options.profile = "production"
    BY DEF Options
  <2> QED
    BY <1>3, <1>4, <2>1 DEF SafeDelete, FixPlan
<1>6. scan.ok
  <2>1. /\ WholeOptions.no_baseline /\ WholeOptions.changed_since = FALSE
        /\ WholeOptions.require_full_scope = FALSE
    BY DEF WholeOptions, Options
  <2> QED
    BY <2>1, NoneIsNoValue DEF ScanWithOptions, Answered
<1>7. AreNumbered(scan.report.findings)
  <2>1. AreNumbered(b.findings) /\ AreFindings(b.findings)
    BY <1>1, <1>2, FindingsAreNumbered DEF g
  <2>2. AreNumbered(Trusted(b, WholeOptions))
    BY <2>1, TrustKeepsNumbers
  <2>3. scan.report.findings \subseteq Trusted(b, WholeOptions)
    BY <1>6, ScanFindings
  <2> QED
    BY <2>2, <2>3, FS_Subset DEF AreNumbered
<1> QED
  BY <1>1, <1>2, <1>5, <1>6, <1>7 DEF b, g

(* A plan covers its findings, for every question of the run               *)
(* (lib.rs:1386).                                                          *)
THEOREM PlansCoverFindings == Spec => []PlanCoversFindings
<1>1. AnswerInv => PlanCoversFindings
  <2> SUFFICES ASSUME AnswerInv, family = "removal", result # None
               PROVE  PlanCoversFindings
    BY DEF PlanCoversFindings
  <2> DEFINE b == RemovalBuild(input)
             scan == ScanWithOptions(b, RemovalWorld, WholeOptions)
  <2>1. scan.ok /\ AreNumbered(scan.report.findings)
    BY RemovalAnswers
  <2>2. PICK targets : result.plan = PlanOfScan(b, scan, targets)
    BY RemovalAnswers
  <2> HIDE DEF b, scan
  <2>3. Covers(result.plan.report)
    BY <2>1, <2>2, PlansCoverTheirFindings
  <2> QED
    BY <2>3 DEF Covers, PlanCoversFindings
<1> QED
  BY <1>1, AnswersAreAnswers, PTL

(* What safe-delete calls safe is free, and the order of deletion in       *)
(* order, for every question of the run (lib.rs:1167, 1856).               *)
THEOREM DeletionsAreSafe == Spec => []SafeTargetsAreFree
<1>1. AnswerInv => SafeTargetsAreFree
  <2> SUFFICES ASSUME AnswerInv, family = "removal", result # None
               PROVE  SafeTargetsAreFree
    BY DEF SafeTargetsAreFree
  <2> DEFINE b == RemovalBuild(input)
             scan == ScanWithOptions(b, RemovalWorld, WholeOptions)
             g == b.graph
             targets == input.targets
             d == DeletionOfScan(b, scan, "production", targets, Alphabetical)
             safe == d.report.safe
             order == d.report.deletion_order
             alike(f, t) == IsSuffix(f, t) \/ IsSuffix(t, f)
  <2>1. /\ input.edges \in SUBSET AllEdges
        /\ targets \in {<<A, SA>>, <<SA, B, A>>}
        /\ g = GraphOf(input.edges, "both")
        /\ scan.ok /\ ~b.partial_scope /\ result.deletion = d
    BY RemovalAnswers
  <2>2. /\ NodesOf(g) = Files \cup {E} /\ FileNodes(g) = Files
        /\ EntrypointNodes(g, "production") = {E}
        /\ IsFiniteSet(NodesOf(g)) /\ E \notin Files /\ None \notin NodesOf(g)
        /\ g.edges = input.edges
    BY <2>1, GraphFacts
  <2>3. /\ DOMAIN targets \in SUBSET Nat /\ IsFiniteSet(DOMAIN targets)
        /\ \A i \in DOMAIN targets : targets[i] \in Files
        /\ \A i, j \in DOMAIN targets : targets[i] = targets[j] => i = j
    <3> HIDE DEF targets
    <3>1. A # SA /\ A # B /\ SA # B
      BY DEF A, SA, B
    <3>2. \A n \in Nat : IsFiniteSet(1..n)
      BY FS_Interval
    <3> HIDE DEF A, SA, B
    <3>3. CASE targets = <<A, SA>>
      <4>1. DOMAIN targets = 1..2 /\ targets[1] = A /\ targets[2] = SA
        BY <3>3
      <4>2. \A i \in 1..2 : i = 1 \/ i = 2
        OBVIOUS
      <4>3. DOMAIN targets \in SUBSET Nat /\ IsFiniteSet(DOMAIN targets)
        <5>1. IsFiniteSet(1..2)
          BY <3>2
        <5>2. 1..2 \in SUBSET Nat
          OBVIOUS
        <5> QED
          BY <4>1, <5>1, <5>2
      <4>4. \A i \in DOMAIN targets : targets[i] \in Files
        BY <4>1, <4>2 DEF Files
      <4>5. \A i, j \in DOMAIN targets : targets[i] = targets[j] => i = j
        BY <3>1, <4>1, <4>2
      <4> QED
        BY <4>3, <4>4, <4>5
    <3>4. CASE targets = <<SA, B, A>>
      <4>1. /\ DOMAIN targets = 1..3
            /\ targets[1] = SA /\ targets[2] = B /\ targets[3] = A
        BY <3>4
      <4>2. \A i \in 1..3 : i = 1 \/ i = 2 \/ i = 3
        OBVIOUS
      <4>3. DOMAIN targets \in SUBSET Nat /\ IsFiniteSet(DOMAIN targets)
        <5>1. IsFiniteSet(1..3)
          BY <3>2
        <5>2. 1..3 \in SUBSET Nat
          OBVIOUS
        <5> QED
          BY <4>1, <5>1, <5>2
      <4>4. \A i \in DOMAIN targets : targets[i] \in Files
        BY <4>1, <4>2 DEF Files
      <4>5. \A i, j \in DOMAIN targets : targets[i] = targets[j] => i = j
        BY <3>1, <4>1, <4>2
      <4> QED
        BY <4>3, <4>4, <4>5
    <3> QED
      BY <2>1, <3>3, <3>4
  <2>4. \A f \in Files : Alphabetical[f] \in Nat
    <3>1. A # SA /\ A # B /\ SA # B
      BY DEF A, SA, B
    <3> HIDE DEF A, SA, B
    <3> QED
      BY <3>1 DEF Files, Alphabetical
  <2> HIDE DEF g, b, scan, targets
  <2>5. /\ d.ok
         /\ \E positions \in SUBSET DOMAIN targets :
                DeletesAt(positions, b.graph, targets, Alphabetical, d.report)
    BY <2>1, SafeTargetsOf
  <2>6. d.ok
    BY <2>5
  <2> HIDE DEF d
  <2>7. PICK positions \in SUBSET DOMAIN targets :
            /\ safe = TargetsAt(targets, positions)
            /\ order = DeletionOrder(g, targets, positions, Alphabetical)
    BY <2>5 DEF DeletesAt, g
  <2>8. /\ positions \in SUBSET Nat /\ IsFiniteSet(positions)
        /\ \A i \in positions : targets[i] \in Files /\ Alphabetical[targets[i]] \in Nat
        /\ \A i, j \in positions : targets[i] = targets[j] => i = j
    BY <2>3, <2>4, <2>7, FS_Subset
  <2>9. safe \subseteq Files
    BY <2>7, <2>8 DEF TargetsAt
  <2>10. /\ Len(order) = Cardinality(positions) /\ ToSet(order) = safe
         /\ order \in Seq(safe)
         /\ \A i, j \in DOMAIN order : order[i] = order[j] => i = j
         /\ \A i, j \in DOMAIN order :
                 /\ order[i] \in FileNodes(g)
                 /\ <<order[i], FindFile(g, order[j])>> \in g.edges
                 /\ \A f \in safe \cap FileNodes(g) :
                         <<f, FindFile(g, order[i])>> \notin g.edges
                 => i < j
    <3>1. /\ IsInOrder(g, safe, order) /\ Distinct(order)
          /\ Len(order) = Cardinality(positions)
      <4> HIDE DEF order, safe
      <4>1. /\ IsFiniteSet(NodesOf(g)) /\ positions \in SUBSET Nat
            /\ IsFiniteSet(positions)
            /\ \A i \in positions : Alphabetical[targets[i]] \in Nat
        BY <2>2, <2>8
      <4>2. /\ IsInOrder(g, TargetsAt(targets, positions),
                         DeletionOrder(g, targets, positions, Alphabetical))
            /\ Len(DeletionOrder(g, targets, positions, Alphabetical))
                    = Cardinality(positions)
            /\ (\A i, j \in positions : targets[i] = targets[j] => i = j)
                => Distinct(DeletionOrder(g, targets, positions, Alphabetical))
        BY <4>1, DeletionIsInOrder
      <4> QED
        BY <2>7, <2>8, <4>2
    <3> HIDE DEF order, safe
    <3> QED
      BY <3>1 DEF IsInOrder, Distinct
  <2> HIDE DEF order, safe
  <2>11. Len(order) = Cardinality(safe)
    <3>1. DOMAIN order = 1..Len(order) /\ Len(order) \in Nat
      BY <2>10
    <3>2. order \in Bijection(1..Len(order), safe)
      BY <2>10, <3>1 DEF Bijection, Injection, Surjection, IsInjective, ToSet
    <3> QED
      BY <3>1, <3>2, FS_CountingElements DEF ExistsBijection
  <2>12. ASSUME NEW t \in safe, NEW e \in input.edges, e[2] = t
         PROVE  e[1] # E /\ alike(e[1], t)
    <3>1. /\ t \in FileNodes(g) /\ t \in NodesOf(g)
          /\ e[1] \in NodesOf(g) /\ e[1] # t /\ <<e[1], t>> \in g.edges
      BY <2>1, <2>2, <2>9, <2>12 DEF AllEdges
    <3>2. /\ \A f \in FileNodes(g) : t \in From(g, {f}) => Alike(f, t)
          /\ \A n \in EntrypointNodes(g, "production") : t \notin From(g, {n})
      BY <2>2, <2>6, <3>1, SafeMeansUnimported DEF d, safe, g
    <3>3. t \in From(g, {e[1]})
      <4> DEFINE m == e[1]
      <4> HIDE DEF m
      <4>1. m \in NodesOf(g) /\ <<m, t>> \in g.edges /\ t \in NodesOf(g)
        BY <3>1 DEF m
      <4>2. t \in Successors(g, m) /\ {m} \in SUBSET NodesOf(g) /\ m \in {m}
        BY <4>1 DEF Successors
      <4>3. t \in From(g, {m})
        BY <2>2, <4>1, <4>2, FromIsLeast
      <4> QED
        BY <4>3 DEF m
    <3> QED
      BY <2>2, <3>1, <3>2, <3>3 DEF Alike
  <2>13. ASSUME NEW i \in DOMAIN order, NEW j \in DOMAIN order,
                <<order[i], order[j]>> \in input.edges,
                \A t \in safe : <<t, order[i]>> \notin input.edges
         PROVE  i < j
    <3>1. order[i] \in Files /\ order[j] \in Files
      BY <2>9, <2>10
    <3>2. FindFile(g, order[i]) = order[i] /\ FindFile(g, order[j]) = order[j]
      BY <2>2, <3>1 DEF FindFile
    <3> QED
      BY <2>2, <2>10, <2>13, <3>1, <3>2
  <2>14. result.deletion.report.deletion_order = order /\ result.deletion.report.safe = safe
    BY <2>1 DEF order, safe
  <2> QED
    BY <2>10, <2>11, <2>12, <2>13, <2>14 DEF SafeTargetsAreFree
<1> QED
  BY <1>1, AnswersAreAnswers, PTL

-----------------------------------------------------------------------------
(* The semantic helper                                                     *)

(* The imports of a file that mean another one. *)
ImportsMeaning(sources, disk, f, file) ==
    {i \in H!FileData(sources[f]).imports :
        file \in disk /\ H!ResolveImport(i.source, disk) = file}

IsImporter(sources, disk, file, r) ==
    \E f \in DOMAIN sources : \E i \in ImportsMeaning(sources, disk, f, file) :
        r = [importer |-> f, import |-> i]

LEMMA ImportersAre ==
  ASSUME NEW sources, NEW disk, NEW file
  PROVE  \A r : r \in H!ImportersOf(H!Index(sources, disk), file)
                    <=> IsImporter(sources, disk, file, r)
<1> DEFINE ix == H!Index(sources, disk)
           means(i) == H!ResolveImport(i.source, disk) = file
<1>1. DOMAIN ix.importers = disk
  BY DEF H!Index
<1>2. CASE file \notin disk
  BY <1>1, <1>2 DEF H!ImportersOf, IsImporter, ImportsMeaning
<1>3. CASE file \in disk
  <2>1. ix.importers[file] =
            UNION {{[importer |-> f, import |-> i] :
                       i \in {j \in H!FileData(sources[f]).imports : means(j)}} :
                   f \in DOMAIN sources}
    BY <1>3 DEF H!Index
  <2>2. H!ImportersOf(ix, file) = ix.importers[file]
    BY <1>1, <1>3 DEF H!ImportersOf
  <2>3. \A f \in DOMAIN sources :
            ImportsMeaning(sources, disk, f, file)
                = {j \in H!FileData(sources[f]).imports : means(j)}
    BY <1>3 DEF ImportsMeaning
  <2> DEFINE made(f) == {[importer |-> f, import |-> i] :
                            i \in {j \in H!FileData(sources[f]).imports : means(j)}}
  <2>4. \A r : r \in H!ImportersOf(ix, file) <=> \E f \in DOMAIN sources : r \in made(f)
    <3> HIDE DEF ix
    <3>1. H!ImportersOf(ix, file) = UNION {made(f) : f \in DOMAIN sources}
      BY <2>1, <2>2
    <3> HIDE DEF made
    <3> QED
      BY <3>1
  <2>5. \A f \in DOMAIN sources : \A r :
            r \in made(f) <=> \E i \in ImportsMeaning(sources, disk, f, file) :
                                  r = [importer |-> f, import |-> i]
    <3> SUFFICES ASSUME NEW f \in DOMAIN sources
                 PROVE  \A r : r \in made(f) <=>
                            \E i \in ImportsMeaning(sources, disk, f, file) :
                                  r = [importer |-> f, import |-> i]
      OBVIOUS
    <3>1. ImportsMeaning(sources, disk, f, file)
                = {j \in H!FileData(sources[f]).imports : means(j)}
      BY <2>3
    <3> QED
      BY <3>1
  <2> HIDE DEF ix, made
  <2>6. \A r : r \in H!ImportersOf(ix, file) <=> IsImporter(sources, disk, file, r)
    BY <2>4, <2>5 DEF IsImporter
  <2> QED
    BY <2>6 DEF ix
<1> QED
  BY <1>2, <1>3

(* The helper names the files that import the export, or its whole module, *)
(* from the file it is asked about, whatever is on the disk; the build     *)
(* takes these for a proof of use (build.rs:738).                          *)
THEOREM ReferencesAreImports ==
  ASSUME NEW sources, NEW disk, NEW q,
         q.kind = "FindExportReferences", q.export_name # None
  PROVE  {r.file : r \in H!ProcessQuery(H!Index(sources, disk), q).references}
            = {f \in DOMAIN sources :
                  \E i \in ImportsMeaning(sources, disk, f, q.file) :
                     \E n \in i.names : n.imported \in {q.export_name, H!Star}}
<1> DEFINE ix == H!Index(sources, disk)
           named(n) == n.imported \in {q.export_name, H!Star}
           from(r) == {[file |-> r.importer, name |-> n.imported,
                        is_type_only |-> r.import.is_type \/ n.is_type] :
                            n \in {m \in r.import.names :
                                     H!Names(m.imported, q.export_name)}}
           references == H!ProcessQuery(ix, q).references
           importing == {f \in DOMAIN sources :
                  \E i \in ImportsMeaning(sources, disk, f, q.file) :
                     \E n \in i.names : named(n)}
<1>1. references = UNION {from(r) : r \in H!ImportersOf(ix, q.file)}
  <2>1. H!ProcessQuery(ix, q) = H!FindExportReferences(ix, q)
    BY DEF H!ProcessQuery
  <2> DEFINE all == UNION {from(r) : r \in H!ImportersOf(ix, q.file)}
  <2>2. H!FindExportReferences(ix, q) = H!Found(all)
    BY DEF H!FindExportReferences
  <2> HIDE DEF all
  <2>3. H!Found(all).references = all
    BY DEF H!Found, H!Failed
  <2> QED
    BY <2>1, <2>2, <2>3 DEF all
<1>2. \A n : named(n) <=> H!Names(n.imported, q.export_name)
  BY DEF H!Names
<1>3. \A r : r \in H!ImportersOf(ix, q.file)
                 <=> IsImporter(sources, disk, q.file, r)
  BY ImportersAre
<1>4. ASSUME NEW x \in references
      PROVE  x.file \in importing
  <2>1. PICK r \in H!ImportersOf(ix, q.file) : x \in from(r)
    BY <1>1
  <2>2. PICK f \in DOMAIN sources : \E i \in ImportsMeaning(sources, disk, f, q.file) :
            r = [importer |-> f, import |-> i]
    BY <1>3 DEF IsImporter
  <2>3. PICK i \in ImportsMeaning(sources, disk, f, q.file) :
            r = [importer |-> f, import |-> i]
    BY <2>2
  <2>4. PICK n \in i.names : named(n) /\ x.file = f
    BY <1>2, <2>1, <2>3
  <2> QED
    BY <2>4
<1>5. ASSUME NEW f \in importing
      PROVE  \E x \in references : x.file = f
  <2>1. PICK i \in ImportsMeaning(sources, disk, f, q.file) :
            \E n \in i.names : named(n)
    OBVIOUS
  <2>2. PICK n \in i.names : named(n)
    BY <2>1
  <2> DEFINE r == [importer |-> f, import |-> i]
             x == [file |-> f, name |-> n.imported,
                   is_type_only |-> i.is_type \/ n.is_type]
  <2>3. r \in H!ImportersOf(ix, q.file)
    BY <1>3 DEF IsImporter
  <2>4. x \in from(r)
    <3>1. n \in {m \in i.names : H!Names(m.imported, q.export_name)}
      BY <1>2, <2>2
    <3>2. r.importer = f /\ r.import = i
      OBVIOUS
    <3> HIDE DEF r
    <3> QED
      BY <3>1, <3>2, Zenon
  <2>5. x \in references
    <3> HIDE DEF x, r, from, ix
    <3> QED
      BY <1>1, <2>3, <2>4
  <2> QED
    BY <2>5
<1> HIDE DEF references, importing
<1>6. {x.file : x \in references} = importing
  BY <1>4, <1>5, importing \subseteq importing
<1> QED
  BY <1>6 DEF references, importing

(* Some import of the name from the file takes a value. *)
IsValue(sources, disk, q) ==
    \E f \in DOMAIN sources :
       \E i \in ImportsMeaning(sources, disk, f, q.file) :
          \E n \in i.names : n.imported = q.export_name /\ ~i.is_type /\ ~n.is_type

IsTypeExport(sources, q) ==
    /\ q.file \in DOMAIN sources
    /\ \E e \in H!FileData(sources[q.file]).exports :
          e.name = q.export_name /\ e.is_type

(* The helper calls a name a type only when it is exported as one or no    *)
(* import by that name takes a value, and a value exactly when it is no    *)
(* type export and some import does (classify_type_only, index.rs).        *)
THEOREM TypesAreNotValues ==
  ASSUME NEW sources, NEW disk, NEW q,
         q.kind = "ClassifyTypeOnlyVsValueUsage", q.export_name # None
  PROVE  LET type == H!ProcessQuery(H!Index(sources, disk), q).is_type_only IN
         /\ type = TRUE => IsTypeExport(sources, q) \/ ~IsValue(sources, disk, q)
         /\ None \notin BOOLEAN =>
                (type = FALSE <=> /\ ~IsTypeExport(sources, q)
                                  /\ IsValue(sources, disk, q))
<1> DEFINE ix == H!Index(sources, disk)
           kinds(r) == {r.import.is_type \/ n.is_type :
                            n \in {m \in r.import.names :
                                     m.imported = q.export_name}}
           imported == UNION {kinds(r) : r \in H!ImportersOf(ix, q.file)}
           isType == /\ q.file \in DOMAIN ix.files
                     /\ \E e \in ix.files[q.file].exports :
                           e.name = q.export_name /\ e.is_type
           answer == IF isType THEN TRUE
                     ELSE IF imported = {} THEN None ELSE FALSE \notin imported
           type == H!ProcessQuery(ix, q).is_type_only
<1>1. type = answer
  <2>1. H!ProcessQuery(ix, q) = H!ClassifyTypeOnly(ix, q)
    BY DEF H!ProcessQuery
  <2>2. H!ClassifyTypeOnly(ix, q) = [H!Found({}) EXCEPT !.is_type_only = answer]
    BY DEF H!ClassifyTypeOnly
  <2> HIDE DEF answer
  <2>3. [H!Found({}) EXCEPT !.is_type_only = answer].is_type_only = answer
    BY DEF H!Found, H!Failed
  <2> QED
    BY <2>1, <2>2, <2>3
<1>2. isType <=> IsTypeExport(sources, q)
  <2>1. ix.files = [f \in DOMAIN sources |-> H!FileData(sources[f])]
    BY DEF H!Index
  <2> HIDE DEF ix
  <2> QED
    BY <2>1 DEF IsTypeExport
<1>3. FALSE \in imported <=> IsValue(sources, disk, q)
  <2>1. \A r : r \in H!ImportersOf(ix, q.file)
                   <=> IsImporter(sources, disk, q.file, r)
    BY ImportersAre
  <2> HIDE DEF ix
  <2>2. ASSUME FALSE \in imported
        PROVE  IsValue(sources, disk, q)
    <3>1. PICK r \in H!ImportersOf(ix, q.file) : FALSE \in kinds(r)
      BY <2>2
    <3>2. PICK f \in DOMAIN sources : \E i \in ImportsMeaning(sources, disk, f, q.file) :
              r = [importer |-> f, import |-> i]
      BY <2>1, <3>1 DEF IsImporter
    <3>3. PICK i \in ImportsMeaning(sources, disk, f, q.file) :
              r = [importer |-> f, import |-> i]
      BY <3>2
    <3>4. r.import = i
      BY <3>3
    <3>5. PICK n \in {m \in i.names : m.imported = q.export_name} :
              FALSE = (i.is_type \/ n.is_type)
      BY <3>1, <3>4, Zenon
    <3>6. ~i.is_type /\ ~n.is_type
      BY <3>5, Zenon
    <3> QED
      BY <3>5, <3>6 DEF IsValue
  <2>3. ASSUME IsValue(sources, disk, q)
        PROVE  FALSE \in imported
    <3>1. PICK f \in DOMAIN sources : \E i \in ImportsMeaning(sources, disk, f, q.file) :
             \E n \in i.names : n.imported = q.export_name /\ ~i.is_type /\ ~n.is_type
      BY <2>3 DEF IsValue
    <3>2. PICK i \in ImportsMeaning(sources, disk, f, q.file) :
             \E n \in i.names : n.imported = q.export_name /\ ~i.is_type /\ ~n.is_type
      BY <3>1
    <3>3. PICK n \in i.names : n.imported = q.export_name /\ ~i.is_type /\ ~n.is_type
      BY <3>2
    <3> DEFINE r == [importer |-> f, import |-> i]
    <3>4. r \in H!ImportersOf(ix, q.file)
      BY <2>1 DEF IsImporter
    <3>5. (i.is_type \/ n.is_type) = FALSE
      BY <3>3, Zenon
    <3>6. r.import = i
      OBVIOUS
    <3> HIDE DEF r
    <3>7. FALSE \in kinds(r)
      BY <3>3, <3>5, <3>6, Zenon
    <3> HIDE DEF kinds
    <3> QED
      BY <3>4, <3>7
  <2> QED
    BY <2>2, <2>3
<1> HIDE DEF type, isType, imported
<1>4. type = TRUE => isType \/ FALSE \notin imported
  BY <1>1, Zenon
<1>5. None \notin BOOLEAN => (type = FALSE <=> ~isType /\ FALSE \in imported)
  <2> SUFFICES ASSUME None \notin BOOLEAN
               PROVE  type = FALSE <=> ~isType /\ FALSE \in imported
    OBVIOUS
  <2>1. CASE isType
    BY <1>1, <2>1, Zenon
  <2>2. CASE ~isType /\ imported = {}
    <3>1. type = None
      BY <1>1, <2>2, Zenon
    <3> QED
      BY <2>2, <3>1
  <2>3. CASE ~isType /\ imported # {}
    <3>1. type = (FALSE \notin imported)
      BY <1>1, <2>3, Zenon
    <3> QED
      BY <2>3, <3>1, Zenon
  <2> QED
    BY <2>1, <2>2, <2>3
<1> QED
  BY <1>2, <1>3, <1>4, <1>5, Zenon DEF type

IsAlias(aliases, a) == \E e \in aliases : e.alias = a

TargetOf(aliases, a) == (CHOOSE e \in aliases : e.alias = a).chain

(* A chain starts from a name, each of its targets is that of the alias    *)
(* which the one before begins with, and none comes twice.                 *)
IsAliasChain(aliases, name, chain) ==
    /\ chain \in Seq({<<name>>} \cup {e.chain : e \in aliases})
    /\ Len(chain) >= 1 /\ chain[1] = <<name>>
    /\ \A i, j \in 1..Len(chain) : chain[i] = chain[j] => i = j
    /\ \A i \in 1..(Len(chain) - 1) :
          /\ IsAlias(aliases, chain[i][1])
          /\ chain[i + 1] = TargetOf(aliases, chain[i][1])

(* It is over: the last target begins with no alias, or with one whose     *)
(* target has been seen.                                                   *)
IsOver(aliases, chain) ==
    LET first == chain[Len(chain)][1] IN
    IsAlias(aliases, first) =>
        \E i \in 1..Len(chain) : chain[i] = TargetOf(aliases, first)

FollowedFrom(aliases, name, c) ==
    /\ IsAliasChain(aliases, name, c.chain)
    /\ IF c.at = None THEN IsOver(aliases, c.chain)
                      ELSE c.at = c.chain[Len(c.chain)][1]

LEMMA AliasIsFollowed ==
  ASSUME NEW aliases, NEW name, NEW c, FollowedFrom(aliases, name, c),
         c.at # None, IsAlias(aliases, c.at),
         \A i \in 1..Len(c.chain) : c.chain[i] # TargetOf(aliases, c.at)
  PROVE  /\ IsAliasChain(aliases, name, Append(c.chain, TargetOf(aliases, c.at)))
         /\ Len(Append(c.chain, TargetOf(aliases, c.at))) = Len(c.chain) + 1
<1> DEFINE T == {<<name>>} \cup {e.chain : e \in aliases}
           target == TargetOf(aliases, c.at)
           s == c.chain
           L == Len(s)
<1>1. /\ s \in Seq(T) /\ L \in Nat /\ L >= 1 /\ s[1] = <<name>>
      /\ c.at = s[L][1]
      /\ \A i, j \in 1..L : s[i] = s[j] => i = j
      /\ \A i \in 1..(L - 1) : /\ IsAlias(aliases, s[i][1])
                               /\ s[i + 1] = TargetOf(aliases, s[i][1])
  BY DEF FollowedFrom, IsAliasChain
<1>2. target \in T
  BY DEF IsAlias, TargetOf
<1> HIDE DEF T, target, s, L
<1> DEFINE t == Append(s, target)
<1>3. /\ t \in Seq(T) /\ Len(t) = L + 1 /\ t[L + 1] = target
      /\ \A i \in 1..L : t[i] = s[i]
  BY <1>1, <1>2 DEF L
<1> HIDE DEF t
<1>4. \A i \in 1..L : s[i] # target
  BY DEF s, L, target
<1>5. \A i \in 1..(L + 1) : i \in 1..L \/ i = L + 1
  BY <1>1
<1>6. \A i, j \in 1..(L + 1) : t[i] = t[j] => i = j
  BY <1>1, <1>3, <1>4, <1>5
<1>7. t[1] = <<name>> /\ L + 1 >= 1
  BY <1>1, <1>3
<1>8. ASSUME NEW i \in 1..((L + 1) - 1)
      PROVE  IsAlias(aliases, t[i][1]) /\ t[i + 1] = TargetOf(aliases, t[i][1])
  <2>1. i \in 1..L /\ t[i] = s[i]
    BY <1>1, <1>3
  <2>2. CASE i = L
    BY <1>1, <1>3, <2>1, <2>2 DEF target
  <2>3. CASE i # L
    <3>1. i \in 1..(L - 1) /\ i + 1 \in 1..L
      BY <1>1, <2>1, <2>3
    <3> QED
      BY <1>1, <1>3, <2>1, <3>1
  <2> QED
    BY <2>2, <2>3
<1>9. IsAliasChain(aliases, name, t)
  BY <1>3, <1>6, <1>7, <1>8 DEF IsAliasChain, T
<1> QED
  BY <1>3, <1>9 DEF t, s, L, target

(* A chain has room for each alias once. *)
LEMMA ChainsFit ==
  ASSUME NEW aliases, IsFiniteSet(aliases), NEW name, NEW chain,
         IsAliasChain(aliases, name, chain)
  PROVE  Len(chain) <= Cardinality(aliases) + 1
<1> DEFINE T == {e.chain : e \in aliases}
           of == [e \in aliases |-> e.chain]
           L == Len(chain)
<1>1. IsFiniteSet(T) /\ Cardinality(T) <= Cardinality(aliases)
  <2>1. of \in Surjection(aliases, T)
    BY DEF Surjection
  <2> HIDE DEF of, T
  <2> QED
    BY <2>1, FS_Surjection
<1>2. /\ IsFiniteSet(T \cup {<<name>>})
      /\ Cardinality(T \cup {<<name>>}) <= Cardinality(aliases) + 1
  <2>1. /\ IsFiniteSet(T \cup {<<name>>})
        /\ Cardinality(T \cup {<<name>>}) =
              IF <<name>> \in T THEN Cardinality(T) ELSE Cardinality(T) + 1
    <3> HIDE DEF T
    <3> QED
      BY <1>1, FS_AddElement
  <2>2. Cardinality(T) \in Nat /\ Cardinality(aliases) \in Nat
    <3> HIDE DEF T
    <3> QED
      BY <1>1, FS_CardinalityType
  <2> HIDE DEF T
  <2> QED
    BY <1>1, <2>1, <2>2
<1>3. /\ chain \in Seq(T \cup {<<name>>}) /\ L \in Nat
      /\ \A i, j \in 1..L : chain[i] = chain[j] => i = j
  <2>1. T \cup {<<name>>} = {<<name>>} \cup T
    OBVIOUS
  <2> QED
    BY <2>1 DEF IsAliasChain
<1> HIDE DEF T
<1>4. chain \in Injection(1..L, T \cup {<<name>>})
  BY <1>3 DEF Injection, IsInjective
<1>5. Cardinality(1..L) <= Cardinality(T \cup {<<name>>}) /\ Cardinality(1..L) = L
  <2> HIDE DEF L
  <2>1. Cardinality(1..L) <= Cardinality(T \cup {<<name>>})
    BY <1>2, <1>4, FS_Injection
  <2>2. \A n \in Nat : Cardinality(1..n) = n
    <3>1. \A n \in Nat : Cardinality(1..n) = IF 1 > n THEN 0 ELSE n - 1 + 1
      BY FS_Interval
    <3> QED
      BY <3>1
  <2> QED
    BY <1>3, <2>1, <2>2
<1>6. /\ Cardinality(T \cup {<<name>>}) \in Nat /\ Cardinality(aliases) \in Nat
  BY <1>2, FS_CardinalityType
<1> QED
  BY <1>2, <1>3, <1>5, <1>6

(* Following aliases comes to an end, however they refer to each other,    *)
(* and only where there is nothing new to follow: the chain that the       *)
(* helper answers with is complete and repeats nothing (main.rs:411).      *)
THEOREM ChainsAreFollowedToTheEnd ==
  ASSUME NEW aliases, IsFiniteSet(aliases), NEW name, name # None,
         \A e \in aliases : e.alias # None
  PROVE  LET chain == H!FollowAliases(aliases, name) IN
         IsAliasChain(aliases, name, chain) /\ IsOver(aliases, chain)
<1> DEFINE of(a) == CHOOSE e \in aliases : e.alias = a
           known(a) == \E e \in aliases : e.alias = a
           step(c) ==
                IF c.at = None \/ ~known(c.at) THEN [c EXCEPT !.at = None]
                ELSE LET target == of(c.at).chain IN
                     IF H!Contains(c.chain, target) THEN [c EXCEPT !.at = None]
                     ELSE [at |-> IF known(target[1]) THEN target[1] ELSE None,
                           chain |-> Append(c.chain, target)]
           first == [at |-> name, chain |-> <<<<name>>>>]
           N == H!Cardinality(aliases) + 1
           IsAfter(a) == a = [i \in 0..N |-> IF i = 0 THEN first ELSE step(a[i - 1])]
           after == CHOOSE a : IsAfter(a)
           T == {<<name>>} \cup {e.chain : e \in aliases}
           V == {name, None} \cup {e.alias : e \in aliases}
           X == {c \in [at : V, chain : Seq(T)] : FollowedFrom(aliases, name, c)}
           F == [c \in X |-> step(c)]
<1>1. H!FollowAliases(aliases, name) = after[N].chain
  BY DEF H!FollowAliases
<1>2. N \in Nat /\ N = Cardinality(aliases) + 1 /\ Cardinality(aliases) \in Nat
  <2>1. H!Cardinality(aliases) = Cardinality(aliases)
    BY DEF H!Cardinality, Cardinality
  <2> QED
    BY <2>1, FS_CardinalityType
<1>3. first \in X
  <2>1. <<<<name>>>> \in Seq(T) /\ Len(<<<<name>>>>) = 1 /\ <<<<name>>>>[1] = <<name>>
    OBVIOUS
  <2>2. IsAliasChain(aliases, name, <<<<name>>>>)
    <3> DEFINE s == <<<<name>>>>
    <3> HIDE DEF s
    <3>1. s \in Seq(T) /\ Len(s) = 1 /\ s[1] = <<name>>
      BY <2>1 DEF s
    <3>2. IsAliasChain(aliases, name, s)
      BY <3>1 DEF IsAliasChain
    <3> QED
      BY <3>2 DEF s
  <2>3. first.at = name /\ first.chain = <<<<name>>>> /\ <<name>>[1] = name
    OBVIOUS
  <2>4. FollowedFrom(aliases, name, first)
    <3> HIDE DEF first
    <3> QED
      BY <2>1, <2>2, <2>3 DEF FollowedFrom
  <2> QED
    BY <2>1, <2>4
<1>4. ASSUME NEW c \in X
      PROVE  /\ step(c) \in X
             /\ step(c).at = None \/ Len(step(c).chain) = Len(c.chain) + 1
  <2> DEFINE target == TargetOf(aliases, c.at)
             done == [c EXCEPT !.at = None]
             next == [at |-> IF known(target[1]) THEN target[1] ELSE None,
                      chain |-> Append(c.chain, target)]
  <2>1. /\ c = [at |-> c.at, chain |-> c.chain] /\ c.at \in V /\ c.chain \in Seq(T)
        /\ FollowedFrom(aliases, name, c)
    OBVIOUS
  <2>2. H!Contains(c.chain, target) <=> \E i \in 1..Len(c.chain) : c.chain[i] = target
    BY DEF H!Contains
  <2>3. step(c) = IF c.at = None \/ ~known(c.at) \/ H!Contains(c.chain, target)
                  THEN done ELSE next
    BY DEF TargetOf
  <2>4. done = [at |-> None, chain |-> c.chain]
    BY <2>1
  <2>5. CASE c.at = None \/ ~known(c.at) \/ H!Contains(c.chain, target)
    <3>1. IsOver(aliases, c.chain)
      BY <2>1, <2>2, <2>5 DEF FollowedFrom, IsOver, IsAlias
    <3>2. FollowedFrom(aliases, name, done)
      BY <2>1, <2>4, <3>1 DEF FollowedFrom
    <3>3. done \in X /\ done.at = None
      BY <2>1, <2>4, <3>2
    <3> QED
      BY <2>3, <2>5, <3>3
  <2>6. CASE ~(c.at = None \/ ~known(c.at) \/ H!Contains(c.chain, target))
    <3>1. /\ IsAliasChain(aliases, name, Append(c.chain, target))
          /\ Len(Append(c.chain, target)) = Len(c.chain) + 1
      BY <2>1, <2>2, <2>6, AliasIsFollowed DEF IsAlias
    <3>2. /\ Append(c.chain, target) \in Seq(T)
          /\ Append(c.chain, target)[Len(c.chain) + 1] = target
      <4>1. target \in T
        BY <2>6 DEF TargetOf
      <4> HIDE DEF target, T
      <4> QED
        BY <2>1, <4>1
    <3>3. next.at \in V /\ (next.at = None => ~known(target[1]))
          /\ (next.at # None => next.at = target[1])
      BY DEF V
    <3>4. next.chain = Append(c.chain, target)
      OBVIOUS
    <3>5. FollowedFrom(aliases, name, next)
      <4> HIDE DEF next, target
      <4>1. next.chain[Len(next.chain)] = target
        BY <3>1, <3>2, <3>4
      <4>2. next.at = None => IsOver(aliases, next.chain)
        BY <3>3, <4>1 DEF IsOver, IsAlias
      <4> QED
        BY <3>1, <3>3, <3>4, <4>1, <4>2 DEF FollowedFrom
    <3>6. next \in X
      BY <3>2, <3>3, <3>5
    <3> QED
      BY <2>3, <2>6, <3>1, <3>4, <3>6
  <2> QED
    BY <2>5, <2>6
<1>5. F \in [X -> X] /\ \A c \in X : F[c] = step(c)
  <2> HIDE DEF X, step
  <2> QED
    BY <1>4
<1> HIDE DEF first, N, F, X, step
<1>6. PICK a : Iterates(a, F, first, X, N)
  BY <1>2, <1>3, <1>5, IterationExists
<1>7. IsAfter(a)
  <2>1. /\ a \in [0..N -> X] /\ a[0] = first
        /\ \A i \in 1..N : a[i] = F[a[i - 1]]
    BY <1>6 DEF Iterates
  <2>2. ASSUME NEW i \in 0..N, i # 0
        PROVE  a[i] = step(a[i - 1])
    <3>1. i \in 1..N /\ i - 1 \in 0..N
      BY <1>2, <2>2
    <3>2. a[i] = F[a[i - 1]] /\ a[i - 1] \in X
      BY <2>1, <3>1
    <3> QED
      BY <1>5, <3>2
  <2> QED
    BY <2>1, <2>2
<1>8. IsAfter(after)
  <2> HIDE DEF IsAfter
  <2> QED
    BY <1>7
<1> HIDE DEF after
<1> DEFINE S == {n \in 0..N : /\ after[n] \in X
                              /\ after[n].at = None \/ Len(after[n].chain) = n + 1}
<1>9. 0 \in S
  <2>1. 0 \in 0..N
    BY <1>2
  <2>2. after[0] = first
    BY <1>8, <2>1
  <2>3. Len(first.chain) = 0 + 1
    BY DEF first
  <2> QED
    BY <1>3, <2>1, <2>2, <2>3
<1>10. ASSUME NEW n \in 0..(N - 1), n \in S
       PROVE  n + 1 \in S
  <2>1. n + 1 \in 0..N /\ n + 1 # 0 /\ (n + 1) - 1 = n /\ n \in Nat
    BY <1>2
  <2>2. after[n + 1] = step(after[n])
    BY <1>8, <2>1
  <2> DEFINE c == after[n]
  <2>3. c \in X /\ (c.at = None \/ Len(c.chain) = n + 1)
    BY <1>10
  <2> HIDE DEF c
  <2>4. step(c) \in X /\ (step(c).at = None \/ Len(step(c).chain) = Len(c.chain) + 1)
    BY <1>4, <2>3
  <2>5. c.at = None => step(c).at = None
    BY DEF step
  <2> QED
    BY <2>1, <2>2, <2>3, <2>4, <2>5 DEF c
<1>11. N \in S
  <2> HIDE DEF S
  <2>1. 0..N \subseteq S
    BY <1>2, <1>9, <1>10, InductionUpTo
  <2> QED
    BY <1>2, <2>1
<1>12. FollowedFrom(aliases, name, after[N])
  BY <1>11 DEF X
<1>13. Len(after[N].chain) <= N
  BY <1>2, <1>12, ChainsFit DEF FollowedFrom
<1>14. after[N].at = None
  BY <1>2, <1>11, <1>13
<1> QED
  BY <1>1, <1>12, <1>14 DEF FollowedFrom

-----------------------------------------------------------------------------
(* The questions about the helper                                          *)

(* Every answer of the helper is the one to its question. *)
HelperInv ==
    family = "helper" =>
        input \in HelperInputs /\ (result # None => result = HelperAnswer(input))

HelperDisk(i) == {File(s) : s \in i.disk} \cup {First, Second}

HelperStatements(i, f) ==
    CASE f = First -> i.first [] f = Second -> i.second
      [] OTHER -> i.exports \cup i.aliases

HelperSources(i) ==
    [f \in HelperDisk(i) |-> [statements |-> HelperStatements(i, f), usages |-> {}]]

HelperQuery(i, kind) ==
    [kind |-> kind, file |-> File(i.asked), export_name |-> "x",
     parent_name |-> None, member_name |-> None]

HelperResult(i, kind) ==
    H!ProcessQuery(H!Index(HelperSources(i), HelperDisk(i)), HelperQuery(i, kind))

(* The file that "./d" means. *)
Meant(i) == IF ".ts" \in i.disk THEN ".ts" ELSE "/index.ts"

LEMMA HelperAnswersAre ==
  ASSUME NEW i
  PROVE  HelperAnswer(i) =
            [references |-> HelperResult(i, "FindExportReferences").references,
             type_only |-> HelperResult(i, "ClassifyTypeOnlyVsValueUsage").is_type_only,
             chain |-> HelperResult(i, "ResolveNamespaceAliasChain").alias_chain]
  BY Zenon DEF HelperAnswer, HelperResult, HelperQuery, HelperSources, HelperStatements,
               HelperDisk

LEMMA HelperFiles ==
  /\ First # Second
  /\ \A s : File(s) # First /\ File(s) # Second
  /\ \A s, t : File(s) = File(t) => s = t
  BY DEF First, Second, File

LEMMA HelperResolves ==
  ASSUME NEW i \in HelperInputs, NEW source, source.base = "d"
  PROVE  /\ Meant(i) \in i.disk /\ i.disk \subseteq {".ts", "/index.ts"}
         /\ H!ResolveImport(source, HelperDisk(i)) =
                IF source.relative THEN File(Meant(i)) ELSE None
<1> DEFINE disk == HelperDisk(i)
           tried == H!TriedSuffixes
           hits == {k \in DOMAIN tried : <<source.base, tried[k]>> \in disk}
           k0 == IF ".ts" \in i.disk THEN 2 ELSE 10
           first == CHOOSE k \in hits : \A j \in hits : k <= j
<1>1. /\ i.disk \in (SUBSET {".ts", "/index.ts"}) \ {{}}
      /\ Meant(i) \in i.disk
  BY DEF HelperInputs, Meant
<1> DEFINE none == ""
<1>2. DOMAIN tried = 1..15 /\ tried[2] = ".ts" /\ tried[10] = "/index.ts"
  BY DEF H!TriedSuffixes
<1>3. \A k \in 1..15 : /\ tried[k] = ".ts" => k = 2
                       /\ tried[k] = "/index.ts" => k = 10
  <2>1. /\ tried[1] = none
        /\ tried[3] = ".tsx" /\ tried[4] = ".js" /\ tried[5] = ".jsx"
        /\ tried[6] = ".mts" /\ tried[7] = ".cts" /\ tried[8] = ".mjs"
        /\ tried[9] = ".cjs" /\ tried[11] = "/index.tsx"
        /\ tried[12] = "/index.js" /\ tried[13] = "/index.jsx"
        /\ tried[14] = "/index.mts" /\ tried[15] = "/index.cts"
    BY Zenon DEF H!TriedSuffixes
  <2>2. none # ".ts" /\ none # "/index.ts"
    BY Zenon
  <2> HIDE DEF tried, none
  <2> QED
    BY <1>2, <2>1, <2>2
<1> HIDE DEF tried, disk
<1>4. ASSUME NEW k \in 1..15
      PROVE  k \in hits <=> tried[k] \in i.disk
  <2>1. k \in hits <=> <<"d", tried[k]>> \in disk
    BY <1>2
  <2>2. <<"d", tried[k]>> = File(tried[k])
    BY DEF File
  <2>3. File(tried[k]) \in disk <=> tried[k] \in i.disk
    BY HelperFiles DEF disk, HelperDisk
  <2> QED
    BY <2>1, <2>2, <2>3
<1>5. hits \subseteq 1..15
  BY <1>2
<1> HIDE DEF hits
<1>6. k0 \in hits /\ \A j \in hits : k0 <= j
  BY <1>1, <1>2, <1>3, <1>4, <1>5
<1>7. first = k0
  <2>1. first \in hits /\ \A j \in hits : first <= j
    BY <1>6
  <2> HIDE DEF first, k0
  <2> QED
    BY <1>5, <1>6, <2>1
<1>8. tried[k0] = Meant(i)
  BY <1>2 DEF Meant
<1>9. H!ResolveImport(source, disk) =
         IF ~source.relative \/ hits = {} THEN None ELSE <<source.base, tried[first]>>
  BY DEF H!ResolveImport, hits, tried
<1> HIDE DEF first, k0
<1>10. <<source.base, tried[first]>> = File(Meant(i))
  BY <1>7, <1>8 DEF File
<1> QED
  BY <1>1, <1>6, <1>9, <1>10 DEF disk

LEMMA DataOfImports ==
  ASSUME NEW S, NEW usages, \A s \in S : s.kind = "import"
  PROVE  H!FileData([statements |-> S, usages |-> usages]).imports =
            {[source |-> s.source, names |-> s.names, is_type |-> s.is_type] : s \in S}
<1> DEFINE data == H!FileData([statements |-> S, usages |-> usages])
           made(s) == [source |-> s.source, names |-> s.names, is_type |-> s.is_type]
<1>1. S # H!Unparsed
  <2> SUFFICES ASSUME S = H!Unparsed
               PROVE  FALSE
    OBVIOUS
  <2>1. [kind |-> "unparsed"] \in S
    BY DEF H!Unparsed
  <2>2. [kind |-> "unparsed"].kind = "unparsed"
    OBVIOUS
  <2> QED
    BY <2>1, <2>2
<1>2. data.imports = UNION {H!StatementImports(s) : s \in S}
  BY <1>1 DEF H!FileData
<1>3. \A s \in S : H!StatementImports(s) = {made(s)}
  BY DEF H!StatementImports
<1> HIDE DEF data, made
<1>4. UNION {H!StatementImports(s) : s \in S} = {made(s) : s \in S}
  BY <1>3
<1> QED
  BY <1>2, <1>4 DEF data, made

LEMMA DataOfUnparsed ==
  ASSUME NEW usages
  PROVE  H!FileData([statements |-> H!Unparsed, usages |-> usages]).imports = {}
  BY DEF H!FileData

LEMMA DataOfDeclarations ==
  ASSUME NEW S, NEW usages,
         \A s \in S : s.kind \in {"export_named", "import_equals"}
  PROVE  LET data == H!FileData([statements |-> S, usages |-> usages]) IN
         /\ data.imports = {}
         /\ data.exports = UNION {H!StatementExports(s) : s \in S}
         /\ data.aliases = UNION {H!StatementAliases(s) : s \in S}
<1> DEFINE data == H!FileData([statements |-> S, usages |-> usages])
<1>1. S # H!Unparsed
  <2> SUFFICES ASSUME S = H!Unparsed
               PROVE  FALSE
    OBVIOUS
  <2>1. [kind |-> "unparsed"] \in S
    BY DEF H!Unparsed
  <2>2. [kind |-> "unparsed"].kind = "unparsed"
    OBVIOUS
  <2> QED
    BY <2>1, <2>2
<1>2. /\ data.imports = UNION {H!StatementImports(s) : s \in S}
      /\ data.exports = UNION {H!StatementExports(s) : s \in S}
      /\ data.aliases = UNION {H!StatementAliases(s) : s \in S}
  BY <1>1 DEF H!FileData
<1>3. \A s \in S : H!StatementImports(s) = {}
  BY DEF H!StatementImports
<1> HIDE DEF data
<1>4. UNION {H!StatementImports(s) : s \in S} = {}
  BY <1>3
<1> QED
  BY <1>2, <1>4 DEF data

(* What the statements of the run are. *)
LEMMA HelperStatementsAre ==
  ASSUME NEW i \in HelperInputs
  PROVE  /\ i.first = H!Unparsed \/ \A s \in i.first : s.kind = "import" /\ s.source.base = "d"
         /\ \A s \in i.second : s.kind = "import" /\ s.source.base = "d" /\ s.source.relative
         /\ i.exports \subseteq {ExportOfX(FALSE), ExportOfX(TRUE)}
         /\ i.aliases \subseteq AliasesOfX
<1>1. /\ i.first \in {H!Unparsed} \cup SUBSET ImportsOfX
      /\ i.second \in {{}, {ImportOf(TRUE, "x", FALSE, FALSE)},
                       {ImportOf(TRUE, "x", TRUE, FALSE)}}
      /\ i.exports \in {{}, {ExportOfX(FALSE)}, {ExportOfX(TRUE)}}
      /\ i.aliases \in SUBSET AliasesOfX
  BY DEF HelperInputs
<1> DEFINE isImport(s) == s.kind = "import" /\ s.source.base = "d"
           isRelative(s) == isImport(s) /\ s.source.relative
<1>2. \A r, n, t, u : isImport(ImportOf(r, n, t, u))
  BY DEF ImportOf
<1>3. /\ isRelative(ImportOf(TRUE, "x", FALSE, FALSE))
      /\ isRelative(ImportOf(TRUE, "x", TRUE, FALSE))
  BY DEF ImportOf
<1> HIDE DEF isImport, isRelative
<1>4. \A s \in ImportsOfX : isImport(s)
  BY <1>2, Zenon DEF ImportsOfX
<1>5. \A s \in i.first : i.first # H!Unparsed => isImport(s)
  BY <1>1, <1>4
<1>6. \A s \in i.second : isRelative(s)
  BY <1>1, <1>3
<1>7. i.exports \subseteq {ExportOfX(FALSE), ExportOfX(TRUE)}
  BY <1>1
<1> QED
  BY <1>1, <1>5, <1>6, <1>7 DEF isImport, isRelative

(* An import statement of one of the two files. *)
StatementsOf(i, f) ==
    IF f = Second THEN i.second
    ELSE IF f = First /\ i.first # H!Unparsed THEN i.first ELSE {}

(* The imports of a file that mean the one that is asked about. *)
LEMMA HelperImports ==
  ASSUME NEW i \in HelperInputs, NEW f \in HelperDisk(i)
  PROVE  ImportsMeaning(HelperSources(i), HelperDisk(i), f, File(i.asked)) =
            {[source |-> s.source, names |-> s.names, is_type |-> s.is_type] :
                s \in {t \in StatementsOf(i, f) :
                          i.asked = Meant(i) /\ t.source.relative}}
<1> DEFINE S == StatementsOf(i, f)
           made(s) == [source |-> s.source, names |-> s.names, is_type |-> s.is_type]
           source == HelperSources(i)[f]
           disk == HelperDisk(i)
           asked == File(i.asked)
<1>1. \A s \in S : s.kind = "import" /\ s.source.base = "d"
  BY HelperStatementsAre DEF StatementsOf
<1>2. source = [statements |-> HelperStatements(i, f), usages |-> {}]
  BY DEF HelperSources
<1>3. H!FileData(source).imports = {made(s) : s \in S}
  <2> HIDE DEF made
  <2>1. CASE f = Second
    <3>1. HelperStatements(i, f) = i.second /\ S = i.second
      BY <2>1, HelperFiles DEF HelperStatements, StatementsOf
    <3> HIDE DEF S
    <3> QED
      BY <1>1, <1>2, <3>1, DataOfImports DEF made
  <2>2. CASE f = First /\ i.first # H!Unparsed
    <3>1. HelperStatements(i, f) = i.first /\ S = i.first
      BY <2>2, HelperFiles DEF HelperStatements, StatementsOf
    <3> HIDE DEF S
    <3> QED
      BY <1>1, <1>2, <3>1, DataOfImports DEF made
  <2>3. CASE f = First /\ i.first = H!Unparsed
    <3>1. HelperStatements(i, f) = H!Unparsed /\ S = {}
      BY <2>3, HelperFiles DEF HelperStatements, StatementsOf
    <3> QED
      BY <1>2, <3>1, DataOfUnparsed
  <2>4. CASE f # First /\ f # Second
    <3>1. HelperStatements(i, f) = i.exports \cup i.aliases /\ S = {}
      BY <2>4 DEF HelperStatements, StatementsOf
    <3>2. \A s \in i.exports \cup i.aliases : s.kind \in {"export_named", "import_equals"}
      BY HelperStatementsAre DEF ExportOfX, AliasesOfX
    <3>3. H!FileData(source).imports = {}
      BY <1>2, <3>1, <3>2, DataOfDeclarations
    <3> QED
      BY <3>1, <3>3
  <2> QED
    BY <2>1, <2>2, <2>3, <2>4
<1>4. ASSUME NEW s \in S
      PROVE  (asked \in disk /\ H!ResolveImport(made(s).source, disk) = asked)
                <=> i.asked = Meant(i) /\ s.source.relative
  <2>1. made(s).source = s.source
    OBVIOUS
  <2>2. /\ Meant(i) \in i.disk /\ i.disk \subseteq {".ts", "/index.ts"}
        /\ H!ResolveImport(s.source, disk) =
              IF s.source.relative THEN File(Meant(i)) ELSE None
    BY <1>1, HelperResolves
  <2>3. asked \in disk <=> i.asked \in i.disk
    BY HelperFiles DEF HelperDisk
  <2>4. i.asked \in {".ts", "/index.ts"}
    BY DEF HelperInputs
  <2>5. asked # None
    BY <2>4, NoneIsNoName
  <2>6. File(Meant(i)) = asked <=> i.asked = Meant(i)
    BY HelperFiles
  <2> HIDE DEF asked, disk, made
  <2> QED
    BY <2>1, <2>2, <2>3, <2>5, <2>6
<1>5. ImportsMeaning(HelperSources(i), disk, f, asked) =
        {m \in {made(s) : s \in S} : asked \in disk /\ H!ResolveImport(m.source, disk) = asked}
  BY <1>3 DEF ImportsMeaning
<1> HIDE DEF S, made, asked, disk
<1>6. {m \in {made(s) : s \in S} : asked \in disk /\ H!ResolveImport(m.source, disk) = asked}
        = {made(s) : s \in {t \in S : i.asked = Meant(i) /\ t.source.relative}}
  BY <1>4
<1> QED
  BY <1>5, <1>6 DEF S, made, asked, disk

(* A namespace is imported from the directory only. *)
LEMMA StarsAreRelative ==
  ASSUME NEW i \in HelperInputs, NEW f, NEW s \in StatementsOf(i, f),
         NEW n \in s.names, n.imported = H!Star
  PROVE  s.source.relative
<1> DEFINE isRelative(t) == \A m \in t.names : m.imported = H!Star => t.source.relative
<1>1. /\ isRelative(ImportOf(TRUE, "x", FALSE, FALSE))
      /\ isRelative(ImportOf(TRUE, "x", FALSE, TRUE))
      /\ isRelative(ImportOf(TRUE, H!Star, FALSE, FALSE))
      /\ isRelative(ImportOf(FALSE, "x", FALSE, FALSE))
      /\ isRelative(ImportOf(TRUE, "y", TRUE, FALSE))
  BY DEF ImportOf, H!Star
<1>2. ASSUME s \in ImportsOfX
      PROVE  isRelative(s)
  <2> HIDE DEF isRelative
  <2> QED
    BY <1>1, <1>2 DEF ImportsOfX
<1>3. s \in i.second \/ s \in ImportsOfX
  BY DEF StatementsOf, HelperInputs
<1>4. CASE s \in i.second
  BY <1>4, HelperStatementsAre
<1> QED
  BY <1>2, <1>3, <1>4

(* The three answers. *)
LEMMA HelperReferences ==
  ASSUME NEW i \in HelperInputs
  PROVE  {r.file : r \in HelperResult(i, "FindExportReferences").references} =
            {f \in {First, Second} :
                i.asked = Meant(i) /\ \E s \in StatementsOf(i, f) :
                    /\ s.source.relative
                    /\ \E n \in s.names : n.imported \in {"x", H!Star}}
<1> DEFINE q == HelperQuery(i, "FindExportReferences")
           sources == HelperSources(i)
           disk == HelperDisk(i)
           means(f) == ImportsMeaning(sources, disk, f, File(i.asked))
           uses(m) == \E n \in m.names : n.imported \in {"x", H!Star}
<1>1. /\ q.kind = "FindExportReferences" /\ q.export_name = "x"
      /\ q.export_name # None /\ q.file = File(i.asked)
  BY NoneIsNoName DEF HelperQuery
<1> HIDE DEF q
<1>2. {r.file : r \in H!ProcessQuery(H!Index(sources, disk), q).references}
        = {f \in DOMAIN sources : \E m \in means(f) : uses(m)}
  <2> HIDE DEF sources, disk
  <2>1. {r.file : r \in H!ProcessQuery(H!Index(sources, disk), q).references}
            = {f \in DOMAIN sources :
                  \E m \in ImportsMeaning(sources, disk, f, q.file) :
                     \E n \in m.names : n.imported \in {q.export_name, H!Star}}
    BY <1>1, ReferencesAreImports
  <2> QED
    BY <1>1, <2>1
<1>3. DOMAIN sources = disk /\ First \in disk /\ Second \in disk
  BY DEF HelperSources, HelperDisk
<1> DEFINE made(s) == [source |-> s.source, names |-> s.names, is_type |-> s.is_type]
           asks(f) == {t \in StatementsOf(i, f) :
                          i.asked = Meant(i) /\ t.source.relative}
<1>4. \A f \in disk : means(f) = {made(s) : s \in asks(f)}
  BY HelperImports
<1>5. \A s : uses(made(s)) <=> \E n \in s.names : n.imported \in {"x", H!Star}
  OBVIOUS
<1> HIDE DEF sources, disk, means, uses, made
<1>6. \A f \in disk : (\E m \in means(f) : uses(m)) <=> \E s \in asks(f) : uses(made(s))
  <2> HIDE DEF asks
  <2> QED
    BY <1>4
<1>7. \A f : f \notin {First, Second} => asks(f) = {}
  BY DEF StatementsOf
<1>8. {f \in DOMAIN sources : \E m \in means(f) : uses(m)}
        = {f \in {First, Second} : \E s \in asks(f) : uses(made(s))}
  <2> HIDE DEF asks
  <2> QED
    BY <1>3, <1>6, <1>7
<1>9. \A f : (\E s \in asks(f) : uses(made(s))) <=>
                i.asked = Meant(i) /\ \E s \in StatementsOf(i, f) :
                    /\ s.source.relative
                    /\ \E n \in s.names : n.imported \in {"x", H!Star}
  BY <1>5
<1> HIDE DEF asks
<1> QED
  BY <1>2, <1>8, <1>9 DEF HelperResult, q, sources, disk

LEMMA HelperTypes ==
  ASSUME NEW i \in HelperInputs,
         HelperResult(i, "ClassifyTypeOnlyVsValueUsage").is_type_only = TRUE,
         NEW f \in {First, Second}, NEW s \in StatementsOf(i, f),
         i.asked = Meant(i), s.source.relative, NEW n \in s.names,
         n.imported = "x", ~s.is_type, ~n.is_type
  PROVE  ExportOfX(TRUE) \in i.exports
<1> DEFINE q == HelperQuery(i, "ClassifyTypeOnlyVsValueUsage")
           sources == HelperSources(i)
           disk == HelperDisk(i)
           asked == File(i.asked)
<1>1. /\ q.kind = "ClassifyTypeOnlyVsValueUsage" /\ q.export_name = "x"
      /\ q.export_name # None /\ q.file = asked
  BY NoneIsNoName DEF HelperQuery
<1> HIDE DEF q
<1>2. H!ProcessQuery(H!Index(sources, disk), q).is_type_only = TRUE
  BY DEF HelperResult, q
<1>3. DOMAIN sources = disk /\ First \in disk /\ Second \in disk
  BY DEF HelperSources, HelperDisk
<1>4. IsValue(sources, disk, q)
  <2> DEFINE made(t) == [source |-> t.source, names |-> t.names, is_type |-> t.is_type]
  <2>1. made(s) \in ImportsMeaning(sources, disk, f, asked)
    BY <1>3, HelperImports
  <2>2. made(s).names = s.names /\ made(s).is_type = s.is_type
    OBVIOUS
  <2> HIDE DEF made, sources, disk, asked
  <2> QED
    BY <1>1, <1>3, <2>1, <2>2 DEF IsValue
<1>5. IsTypeExport(sources, q)
  <2> HIDE DEF sources, disk
  <2> QED
    BY <1>1, <1>2, <1>4, TypesAreNotValues
<1>6. PICK e \in H!FileData(sources[asked]).exports : e.name = "x" /\ e.is_type
  BY <1>1, <1>5 DEF IsTypeExport
<1>7. asked \in disk
  BY <1>1, <1>3, <1>5 DEF IsTypeExport
<1>8. sources[asked] = [statements |-> i.exports \cup i.aliases, usages |-> {}]
  BY <1>7, HelperFiles DEF HelperSources, HelperStatements
<1>9. i.exports \subseteq {ExportOfX(FALSE), ExportOfX(TRUE)} /\ i.aliases \subseteq AliasesOfX
  BY HelperStatementsAre
<1>10. \A t \in i.exports \cup i.aliases : t.kind \in {"export_named", "import_equals"}
  BY <1>9 DEF ExportOfX, AliasesOfX
<1>11. H!FileData(sources[asked]).exports
            = UNION {H!StatementExports(t) : t \in i.exports \cup i.aliases}
  BY <1>8, <1>10, DataOfDeclarations
<1>12. PICK t \in i.exports \cup i.aliases : e \in H!StatementExports(t)
  BY <1>6, <1>11
<1>13. t \notin AliasesOfX
  BY <1>12 DEF AliasesOfX, H!StatementExports
<1>14. t # ExportOfX(FALSE)
  <2> SUFFICES ASSUME t = ExportOfX(FALSE)
               PROVE  FALSE
    OBVIOUS
  <2>1. H!StatementExports(ExportOfX(FALSE)) = {[name |-> "x", is_type |-> FALSE]}
    BY DEF H!StatementExports, ExportOfX
  <2>2. e = [name |-> "x", is_type |-> FALSE]
    BY <1>12, <2>1, Zenon
  <2>3. ~[name |-> "x", is_type |-> FALSE].is_type
    OBVIOUS
  <2> QED
    BY <1>6, <2>2, <2>3, Zenon
<1> QED
  BY <1>9, <1>12, <1>13, <1>14

LEMMA HelperChains ==
  ASSUME NEW i \in HelperInputs
  PROVE  LET chain == HelperResult(i, "ResolveNamespaceAliasChain").alias_chain IN
         \A j, k \in DOMAIN chain : chain[j] = chain[k] => j = k
<1> DEFINE q == HelperQuery(i, "ResolveNamespaceAliasChain")
           sources == HelperSources(i)
           disk == HelperDisk(i)
           asked == File(i.asked)
           ix == H!Index(sources, disk)
           aliases == ix.files[asked].aliases
           followed == H!FollowAliases(aliases, "x")
           chain == HelperResult(i, "ResolveNamespaceAliasChain").alias_chain
<1>1. /\ q.kind = "ResolveNamespaceAliasChain" /\ q.export_name = "x"
      /\ q.export_name # None /\ q.file = asked
  BY NoneIsNoName DEF HelperQuery
<1> HIDE DEF q
<1>2. chain = H!ResolveNamespaceAliasChain(ix, q).alias_chain
  BY <1>1 DEF HelperResult, H!ProcessQuery, q
<1>3. DOMAIN ix.files = disk
      /\ \A f \in disk : ix.files[f] = H!FileData(sources[f])
  <2>1. DOMAIN sources = disk
    BY DEF HelperSources
  <2> HIDE DEF sources, disk
  <2> QED
    BY <2>1 DEF H!Index
<1> HIDE DEF ix
<1>4. CASE asked \notin disk
  <2>1. chain = <<>>
    BY <1>1, <1>2, <1>3, <1>4 DEF H!ResolveNamespaceAliasChain, H!Failed
  <2> QED
    BY <2>1
<1>5. CASE asked \in disk
  <2>1. chain = followed
    <3>1. H!ResolveNamespaceAliasChain(ix, q) =
                [H!Found({}) EXCEPT !.alias_chain = followed]
      BY <1>1, <1>3, <1>5 DEF H!ResolveNamespaceAliasChain
    <3> HIDE DEF followed
    <3>2. [H!Found({}) EXCEPT !.alias_chain = followed].alias_chain = followed
      BY DEF H!Found, H!Failed
    <3> QED
      BY <1>2, <3>1, <3>2
  <2>2. sources[asked] = [statements |-> i.exports \cup i.aliases, usages |-> {}]
    BY <1>5, HelperFiles DEF HelperSources, HelperStatements
  <2>3. i.exports \subseteq {ExportOfX(FALSE), ExportOfX(TRUE)} /\ i.aliases \subseteq AliasesOfX
    BY HelperStatementsAre
  <2>4. \A t \in i.exports \cup i.aliases : t.kind \in {"export_named", "import_equals"}
    BY <2>3 DEF ExportOfX, AliasesOfX
  <2>5. aliases = UNION {H!StatementAliases(t) : t \in i.exports \cup i.aliases}
    BY <1>3, <1>5, <2>2, <2>4, DataOfDeclarations
  <2> DEFINE ax == [alias |-> "x", chain |-> <<"y", "z">>]
             ay == [alias |-> "y", chain |-> <<"x", "z">>]
             az == [alias |-> "z", chain |-> <<"y", "x">>]
  <2>6. \A t \in i.exports \cup i.aliases : H!StatementAliases(t) \subseteq {ax, ay, az}
    <3>1. \A t \in {ExportOfX(FALSE), ExportOfX(TRUE)} : H!StatementAliases(t) = {}
      BY DEF ExportOfX, H!StatementAliases
    <3>2. \A t \in AliasesOfX : H!StatementAliases(t) \subseteq {ax, ay, az}
      BY DEF AliasesOfX, H!StatementAliases
    <3> QED
      BY <2>3, <3>1, <3>2
  <2>7. aliases \subseteq {ax, ay, az}
    <3> HIDE DEF aliases, ax, ay, az
    <3> QED
      BY <2>5, <2>6
  <2>8. IsFiniteSet(aliases)
    <3> HIDE DEF aliases, ax, ay, az
    <3>1. IsFiniteSet({ax})
      BY FS_Singleton
    <3>2. IsFiniteSet({ax} \cup {ay})
      BY <3>1, FS_AddElement
    <3>3. IsFiniteSet(({ax} \cup {ay}) \cup {az})
      BY <3>2, FS_AddElement
    <3>4. aliases \subseteq ({ax} \cup {ay}) \cup {az}
      BY <2>7
    <3> QED
      BY <3>3, <3>4, FS_Subset
  <2>9. \A e \in aliases : e.alias # None
    <3>1. ax.alias # None /\ ay.alias # None /\ az.alias # None
      BY NoneIsNoName
    <3> HIDE DEF aliases, ax, ay, az
    <3> QED
      BY <2>7, <3>1
  <2> HIDE DEF aliases
  <2>10. IsAliasChain(aliases, "x", followed)
    BY <2>8, <2>9, NoneIsNoName, ChainsAreFollowedToTheEnd
  <2> HIDE DEF followed
  <2>11. /\ followed \in Seq({<<"x">>} \cup {e.chain : e \in aliases})
         /\ \A j, k \in 1..Len(followed) : followed[j] = followed[k] => j = k
    BY <2>10 DEF IsAliasChain
  <2>12. DOMAIN followed = 1..Len(followed)
    BY <2>11
  <2> QED
    BY <2>1, <2>11, <2>12
<1> QED
  BY <1>4, <1>5

(* Every answer of the run is such an answer (main.rs:169).                *)
THEOREM ImportersAreNamed == Spec => []HelperNamesImporters
<1>1. Init => HelperInv
  BY DEF Init, Ask, HelperInv
<1>2. HelperInv /\ [Next]_vars => HelperInv'
  <2> SUFFICES ASSUME HelperInv, [Next]_vars
               PROVE  HelperInv'
    OBVIOUS
  <2>1. CASE Answer("helper", HelperAnswer(input))
    BY <2>1 DEF Answer, HelperInv
  <2>2. CASE family' = family /\ input' = input
             /\ (result' = result \/ family # "helper")
    BY <2>2 DEF HelperInv
  <2> QED
    BY <2>1, <2>2 DEF Next, Answer, vars
<1>3. HelperInv => HelperNamesImporters
  <2> SUFFICES ASSUME HelperInv, family = "helper", result # None
               PROVE  HelperNamesImporters
    BY DEF HelperNamesImporters
  <2> DEFINE i == input
             statements == IF i.first = H!Unparsed THEN {} ELSE i.first
             named(S) == {s \in S : /\ i.asked = Meant(i) /\ s.source.relative
                                    /\ \E n \in s.names : n.imported = "x"}
             all(S) == {s \in S : /\ i.asked = Meant(i)
                                  /\ \E n \in s.names : n.imported = H!Star}
             of(f) == IF f = First THEN statements ELSE i.second
             users == {f \in {First, Second} : named(of(f)) \cup all(of(f)) # {}}
             values == {s \in named(statements \cup i.second) :
                            ~s.is_type /\ \A n \in s.names : ~n.is_type}
  <2>1. i \in HelperInputs /\ result = HelperAnswer(i)
    BY DEF HelperInv
  <2> HIDE DEF i
  <2>2. /\ result.references = HelperResult(i, "FindExportReferences").references
        /\ result.type_only = HelperResult(i, "ClassifyTypeOnlyVsValueUsage").is_type_only
        /\ result.chain = HelperResult(i, "ResolveNamespaceAliasChain").alias_chain
    BY <2>1, HelperAnswersAre
  <2>3. \A f \in {First, Second} : of(f) = StatementsOf(i, f)
    BY HelperFiles DEF StatementsOf
  <2>4. {r.file : r \in result.references} = users
    <3>1. ASSUME NEW f \in {First, Second}
          PROVE  f \in users <=>
                    i.asked = Meant(i) /\ \E s \in StatementsOf(i, f) :
                        /\ s.source.relative
                        /\ \E n \in s.names : n.imported \in {"x", H!Star}
      <4> DEFINE S == StatementsOf(i, f)
      <4>1. of(f) = S
        BY <2>3
      <4>2. \A s \in S : (\E n \in s.names : n.imported = H!Star) => s.source.relative
        BY <2>1, StarsAreRelative
      <4> HIDE DEF of, S
      <4> QED
        BY <4>1, <4>2 DEF S
    <3> HIDE DEF users
    <3>2. users \subseteq {First, Second}
      BY DEF users
    <3> QED
      BY <2>1, <2>2, <3>1, <3>2, HelperReferences
  <2>5. result.type_only = TRUE => values = {} \/ ExportOfX(TRUE) \in i.exports
    <3> SUFFICES ASSUME result.type_only = TRUE, NEW s \in values
                 PROVE  ExportOfX(TRUE) \in i.exports
      OBVIOUS
    <3>1. /\ s \in statements \cup i.second
          /\ i.asked = Meant(i) /\ s.source.relative /\ ~s.is_type
          /\ \A n \in s.names : ~n.is_type
      OBVIOUS
    <3>2. PICK n \in s.names : n.imported = "x"
      OBVIOUS
    <3>3. PICK f \in {First, Second} : s \in of(f)
      BY <3>1, HelperFiles
    <3>4. s \in StatementsOf(i, f)
      BY <2>3, <3>3
    <3> HIDE DEF statements, values
    <3> QED
      BY <2>1, <2>2, <3>1, <3>2, <3>4, HelperTypes
  <2>6. \A j, k \in DOMAIN result.chain : result.chain[j] = result.chain[k] => j = k
    BY <2>1, <2>2, HelperChains
  <2> HIDE DEF users, values
  <2> QED
    BY <2>4, <2>5, <2>6, Zenon DEF HelperNamesImporters, users, values, i, Meant
<1> QED
  BY <1>1, <1>2, <1>3, PTL DEF Spec

-----------------------------------------------------------------------------
(* The entries of files                                                    *)

(* The files that a configuration is made of, in the order in which the    *)
(* code lets them decide: a file, then its first base and what that        *)
(* extends, then the next base (merge.rs:9).  The property does not say    *)
(* this order, only its proof does.                                        *)
LinesOf(bases, lines) == [k \in DOMAIN bases |-> lines[bases[k]]]

Lineage(disk, name) ==
    LET down[depth \in 0..Cardinality(DOMAIN disk)] == [n \in DOMAIN disk |->
            <<n>> \o IF depth = 0 \/ n \notin Usable(disk) THEN <<>>
                     ELSE FlattenSeq(LinesOf(disk[n].extends, down[depth - 1]))]
    IN down[Cardinality(DOMAIN disk)][name]

(* What the first file of a line that has a setting says of it; and what   *)
(* all of them say, the last one first                                     *)
NearestIn(line, value) ==
    LET S == {k \in DOMAIN line : value[line[k]] # None} IN
    IF S = {} THEN None ELSE value[line[CHOOSE k \in S : \A j \in S : k <= j]]

EntriesOf(line, entries) == FlattenSeq(LinesOf(Reverse(line), entries))

(* The entries of a line are those of its parts, the further ones first. *)
LEMMA EntriesAddUp ==
  ASSUME NEW V, NEW N, NEW entries \in [N -> Seq(V)]
  PROVE  /\ \A n \in N : EntriesOf(<<n>>, entries) = entries[n]
         /\ \A x, y \in Seq(N) :
                EntriesOf(x \o y, entries) = EntriesOf(y, entries) \o EntriesOf(x, entries)
         /\ \A x \in Seq(N) : EntriesOf(x, entries) \in Seq(V)
<1> DEFINE each(x) == LinesOf(Reverse(x), entries)
<1>1. ASSUME NEW x \in Seq(N)
      PROVE  /\ each(x) \in Seq(Seq(V)) /\ Len(each(x)) = Len(x)
             /\ \A k \in 1..Len(x) : each(x)[k] = entries[x[(Len(x) - k) + 1]]
  <2>1. /\ DOMAIN Reverse(x) = 1..Len(x)
        /\ \A k \in 1..Len(x) : Reverse(x)[k] = x[(Len(x) - k) + 1]
    BY DEF Reverse
  <2>2. Len(x) \in Nat /\ \A k \in 1..Len(x) : (Len(x) - k) + 1 \in 1..Len(x)
    OBVIOUS
  <2>3. \A k \in 1..Len(x) : entries[x[(Len(x) - k) + 1]] \in Seq(V)
    BY <2>2
  <2> DEFINE m == each(x)
  <2>4. m = [k \in 1..Len(x) |-> entries[x[(Len(x) - k) + 1]]]
    BY <2>1 DEF LinesOf
  <2> HIDE DEF m
  <2>5. m \in [1..Len(x) -> Seq(V)]
    BY <2>3, <2>4
  <2>6. m \in Seq(Seq(V)) /\ Len(m) = Len(x)
    <3> DEFINE Q == Seq(V)
               n == Len(x)
    <3>1. n \in Nat /\ m \in [1..n -> Q]
      BY <2>2, <2>5
    <3> HIDE DEF Q, n
    <3>2. m \in Seq(Q) /\ Len(m) = n
      BY <3>1
    <3> QED
      BY <3>2 DEF Q, n
  <2> QED
    BY <2>4, <2>6 DEF m
<1>2. \A x \in Seq(N) : EntriesOf(x, entries) = FlattenSeq(each(x))
  BY DEF EntriesOf
<1> HIDE DEF each
<1>3. ASSUME NEW n \in N
      PROVE  EntriesOf(<<n>>, entries) = entries[n]
  <2> DEFINE e == entries[n]
             p == [i \in 0..1 |-> IF i = 0 THEN <<>> ELSE e]
             seqs == each(<<n>>)
  <2>1. <<n>> \in Seq(N) /\ Len(<<n>>) = 1 /\ <<n>>[1] = n /\ e \in Seq(V)
    OBVIOUS
  <2>2. seqs \in Seq(Seq(V)) /\ Len(seqs) = 1 /\ seqs[1] = e
    <3>1. 1 \in 1..1 /\ (1 - 1) + 1 = 1
      OBVIOUS
    <3> QED
      BY <1>1, <2>1, <3>1
  <2> HIDE DEF seqs, e
  <2>3. <<>> \o e = e
    BY <2>1, ConcatEmptySeq
  <2>4. AddsUp(p, seqs, V)
    <3>1. p \in [0..1 -> Seq(V)] /\ p[0] = <<>> /\ p[1] = e
      BY <2>1
    <3> HIDE DEF p
    <3>2. \A i \in 1..1 : p[i] = p[i - 1] \o seqs[i]
      BY <2>2, <2>3, <3>1
    <3> QED
      BY <2>2, <3>1, <3>2 DEF AddsUp
  <2>5. p[1] = e
    OBVIOUS
  <2> HIDE DEF p
  <2>6. FlattenSeq(seqs) = p[1]
    BY <2>2, <2>4, FlattenAddsUp
  <2> QED
    BY <1>2, <2>1, <2>5, <2>6 DEF e, seqs
<1>4. ASSUME NEW x \in Seq(N), NEW y \in Seq(N)
      PROVE  EntriesOf(x \o y, entries) = EntriesOf(y, entries) \o EntriesOf(x, entries)
  <2> DEFINE z == x \o y
             K == Len(x)
             L == Len(y)
             a == each(x)
             b == each(y)
  <2>1. /\ K \in Nat /\ L \in Nat /\ z \in Seq(N) /\ Len(z) = K + L
        /\ \A i \in 1..(K + L) : z[i] = IF i <= K THEN x[i] ELSE y[i - K]
    BY ConcatProperties
  <2>2. /\ a \in Seq(Seq(V)) /\ Len(a) = K
        /\ \A k \in 1..K : a[k] = entries[x[(K - k) + 1]]
    BY <1>1
  <2>3. /\ b \in Seq(Seq(V)) /\ Len(b) = L
        /\ \A k \in 1..L : b[k] = entries[y[(L - k) + 1]]
    BY <1>1
  <2> HIDE DEF z, K, L, a, b
  <2>4. /\ each(z) \in Seq(Seq(V)) /\ Len(each(z)) = K + L
        /\ \A k \in 1..(K + L) : each(z)[k] = entries[z[((K + L) - k) + 1]]
    <3>1. /\ each(z) \in Seq(Seq(V)) /\ Len(each(z)) = Len(z)
          /\ \A k \in 1..Len(z) : each(z)[k] = entries[z[(Len(z) - k) + 1]]
      BY <1>1, <2>1
    <3> QED
      BY <2>1, <3>1
  <2>5. /\ b \o a \in Seq(Seq(V)) /\ Len(b \o a) = L + K
        /\ \A k \in 1..(L + K) : (b \o a)[k] = IF k <= L THEN b[k] ELSE a[k - L]
    <3>1. \A s, t \in Seq(Seq(V)) :
            /\ s \o t \in Seq(Seq(V)) /\ Len(s \o t) = Len(s) + Len(t)
            /\ \A i \in 1..(Len(s) + Len(t)) :
                    (s \o t)[i] = IF i <= Len(s) THEN s[i] ELSE t[i - Len(s)]
      BY ConcatProperties
    <3>2. /\ b \o a \in Seq(Seq(V)) /\ Len(b \o a) = Len(b) + Len(a)
          /\ \A i \in 1..(Len(b) + Len(a)) :
                    (b \o a)[i] = IF i <= Len(b) THEN b[i] ELSE a[i - Len(b)]
      BY <2>2, <2>3, <3>1, Zenon
    <3> QED
      BY <2>2, <2>3, <3>2, Zenon
  <2>6. ASSUME NEW k \in 1..(K + L)
        PROVE  each(z)[k] = (b \o a)[k]
    <3>1. CASE k <= L
      <4>1. /\ k \in 1..L /\ k \in 1..(L + K)
            /\ ((K + L) - k) + 1 \in 1..(K + L) /\ ~(((K + L) - k) + 1 <= K)
            /\ (((K + L) - k) + 1) - K = (L - k) + 1
        BY <2>1, <3>1
      <4>2. z[((K + L) - k) + 1] = y[(L - k) + 1]
        BY <2>1, <4>1
      <4>3. each(z)[k] = entries[z[((K + L) - k) + 1]]
        BY <2>4, Zenon
      <4>4. (b \o a)[k] = b[k]
        BY <2>5, <3>1, <4>1, Zenon
      <4>5. b[k] = entries[y[(L - k) + 1]]
        BY <2>3, <4>1, Zenon
      <4> QED
        BY <4>2, <4>3, <4>4, <4>5, Zenon
    <3>2. CASE ~(k <= L)
      <4>1. /\ k - L \in 1..K /\ k \in 1..(L + K)
            /\ ((K + L) - k) + 1 \in 1..(K + L) /\ ((K + L) - k) + 1 <= K
            /\ ((K + L) - k) + 1 = (K - (k - L)) + 1
        BY <2>1, <3>2
      <4>2. z[((K + L) - k) + 1] = x[(K - (k - L)) + 1]
        BY <2>1, <4>1
      <4>3. each(z)[k] = entries[z[((K + L) - k) + 1]]
        BY <2>4, Zenon
      <4>4. (b \o a)[k] = a[k - L]
        BY <2>5, <3>2, <4>1, Zenon
      <4>5. a[k - L] = entries[x[(K - (k - L)) + 1]]
        BY <2>2, <4>1, Zenon
      <4> QED
        BY <4>2, <4>3, <4>4, <4>5, Zenon
    <3> QED
      BY <3>1, <3>2
  <2>7. each(z) = b \o a
    <3>1. L + K = K + L
      BY <2>1
    <3> QED
      BY <2>4, <2>5, <2>6, <3>1, SeqEqual
  <2>8. FlattenSeq(b \o a) = FlattenSeq(b) \o FlattenSeq(a)
    BY <2>2, <2>3, FlattenConcat
  <2> QED
    BY <1>2, <2>1, <2>7, <2>8 DEF a, b, z
<1>5. ASSUME NEW x \in Seq(N)
      PROVE  EntriesOf(x, entries) \in Seq(V)
  BY <1>1, <1>2, FlattenAddsUp
<1> QED
  BY <1>3, <1>4, <1>5

-----------------------------------------------------------------------------
(* What the texts of configurations are, with toggles T, entries V and     *)
(* settings W; none of them is a text that is missing.                     *)
TextOf(D, T, V, W) ==
    [extends : Seq(D), lists : [P!Conf!Lists -> Seq(V)],
     sections : [P!Conf!Sections -> W],
     rules : {None} \cup [P!Conf!RuleLists -> Seq(V)],
     frameworks : {None} \cup [T -> W], own : {P!Conf!DefaultConfig.own}]

AreTexts(disk, T, V, W) ==
    /\ IsFiniteSet(DOMAIN disk)
    /\ \A n \in DOMAIN disk :
            disk[n] \in {None, P!Conf!Malformed} \cup TextOf(DOMAIN disk, T, V, W)
    /\ None \in W /\ None \notin [T -> W] /\ None \notin [P!Conf!RuleLists -> Seq(V)]
    /\ None \notin {"read", "parse", "endless", "not_found"}

(* A file that can be read is a text with all the fields. *)
LEMMA TextsAre ==
  ASSUME NEW disk, NEW T, NEW V, NEW W, AreTexts(disk, T, V, W), NEW n \in Usable(disk)
  PROVE  /\ n \in DOMAIN disk /\ disk[n] # None /\ disk[n] # P!Conf!Malformed
         /\ DOMAIN disk[n] = {"extends", "lists", "sections", "rules", "frameworks", "own"}
         /\ disk[n].extends \in Seq(DOMAIN disk)
         /\ disk[n].lists \in [P!Conf!Lists -> Seq(V)]
         /\ disk[n].sections \in [P!Conf!Sections -> W]
         /\ disk[n].rules \in {None} \cup [P!Conf!RuleLists -> Seq(V)]
         /\ disk[n].frameworks \in {None} \cup [T -> W]
         /\ BasesIn(disk)[n] = ToSet(disk[n].extends)
<1>1. n \in DOMAIN disk /\ disk[n] # None /\ disk[n] # P!Conf!Malformed
  BY DEF Usable
<1>2. disk[n] \in TextOf(DOMAIN disk, T, V, W)
  BY <1>1 DEF AreTexts
<1> DEFINE t == disk[n]
<1>3. t \in TextOf(DOMAIN disk, T, V, W)
  BY <1>2
<1> HIDE DEF t
<1>4. /\ DOMAIN t = {"extends", "lists", "sections", "rules", "frameworks", "own"}
      /\ t.extends \in Seq(DOMAIN disk)
      /\ t.lists \in [P!Conf!Lists -> Seq(V)]
      /\ t.sections \in [P!Conf!Sections -> W]
      /\ t.rules \in {None} \cup [P!Conf!RuleLists -> Seq(V)]
      /\ t.frameworks \in {None} \cup [T -> W]
  BY <1>3 DEF TextOf
<1>5. BasesIn(disk)[n] = ToSet(disk[n].extends)
  BY <1>1 DEF BasesIn
<1> QED
  BY <1>1, <1>4, <1>5 DEF t

-----------------------------------------------------------------------------
(* LoadFile, as the steps that it takes                                    *)
MergeNext(before, next) ==
    IF before.error # None THEN before
    ELSE IF next.error # None THEN next
    ELSE P!Conf!Loaded(P!Conf!Merged(before.config, next.config))

IsMerging(s, text, base, N) ==
    s = [i \in 0..N |->
            IF i = 0 THEN P!Conf!Loaded([text EXCEPT !.extends = <<>>])
            ELSE MergeNext(s[i - 1], base[text.extends[i]])]

(* The bases of a text can be merged one after the other. *)
LEMMA MergingExists ==
  ASSUME NEW text, NEW base, NEW N \in Nat
  PROVE  \E s : IsMerging(s, text, base, N)
<1> DEFINE S == {n \in 0..N : \E s : IsMerging(s, text, base, n)}
           own == P!Conf!Loaded([text EXCEPT !.extends = <<>>])
<1> HIDE DEF own
<1>1. 0 \in S
  <2>1. IsMerging([i \in 0..0 |-> own], text, base, 0)
    <3> DEFINE s == [i \in 0..0 |-> own]
    <3>1. \A i \in 0..0 : i = 0
      OBVIOUS
    <3>2. s = [i \in 0..0 |-> IF i = 0 THEN own ELSE MergeNext(s[i - 1], base[text.extends[i]])]
      BY <3>1
    <3> QED
      BY <3>2 DEF IsMerging, own
  <2> QED
    BY <2>1
<1>2. ASSUME NEW n \in 0..(N - 1), n \in S
      PROVE  n + 1 \in S
  <2>1. PICK a : IsMerging(a, text, base, n)
    BY <1>2
  <2> DEFINE next(s, i) == IF i = 0 THEN own ELSE MergeNext(s[i - 1], base[text.extends[i]])
             b == [i \in 0..(n + 1) |-> IF i = n + 1 THEN next(a, n + 1) ELSE a[i]]
  <2>2. \A i \in 0..n : a[i] = next(a, i)
    BY <2>1 DEF IsMerging, own
  <2> HIDE DEF next
  <2>3. \A i \in 0..n : b[i] = a[i]
    OBVIOUS
  <2>4. \A i \in 0..(n + 1) : next(b, i) = next(a, i)
    <3> SUFFICES ASSUME NEW i \in 0..(n + 1)
                 PROVE  next(b, i) = next(a, i)
      OBVIOUS
    <3>1. i = 0 \/ i - 1 \in 0..n
      OBVIOUS
    <3> HIDE DEF b
    <3> QED
      BY <2>3, <3>1 DEF next
  <2>5. \A i \in 0..(n + 1) : b[i] = next(b, i)
    <3> SUFFICES ASSUME NEW i \in 0..(n + 1)
                 PROVE  b[i] = next(a, i)
      BY <2>4
    <3>1. i = n + 1 \/ (i \in 0..n /\ i # n + 1)
      OBVIOUS
    <3> QED
      BY <2>2, <3>1
  <2>6. b = [i \in 0..(n + 1) |-> b[i]]
    OBVIOUS
  <2> HIDE DEF b
  <2>7. b = [i \in 0..(n + 1) |-> next(b, i)]
    BY <2>5, <2>6
  <2>8. IsMerging(b, text, base, n + 1)
    BY <2>7 DEF IsMerging, next, own
  <2> QED
    BY <2>8
<1>3. N \in S
  <2> HIDE DEF S
  <2>1. 0..N \subseteq S
    BY <1>1, <1>2, InductionUpTo
  <2> QED
    BY <2>1
<1> QED
  BY <1>3

(* A file is loaded when all its bases are, which are merged in order.     *)
Merging(s, text, base) ==
    /\ s[0] = [text EXCEPT !.extends = <<>>]
    /\ \A i \in 1..Len(text.extends) :
            s[i] = P!Conf!Merged(s[i - 1], base[text.extends[i]].config)

(* A file is loaded when all its bases are: they are merged in order under *)
(* what it says itself. Otherwise it fails as one of them (config.rs:597). *)
LEMMA LoadFileMerges ==
  ASSUME NEW D, NEW text, text.extends \in Seq(D), text # None, text # P!Conf!Malformed,
         NEW base
  PROVE  LET loaded == P!Conf!LoadFile(text, base)
         IN /\ loaded.error = None <=>
                    \A n \in ToSet(text.extends) : base[n].error = None
            /\ loaded.error = None =>
                    \E s : Merging(s, text, base) /\ loaded.config = s[Len(text.extends)]
            /\ loaded.error # None => \E n \in ToSet(text.extends) : loaded = base[n]
<1> DEFINE N == Len(text.extends)
           s == CHOOSE f : IsMerging(f, text, base, N)
           fine(n) == \A k \in 1..n : base[text.extends[k]].error = None
<1>1. N \in Nat
  OBVIOUS
<1>2. P!Conf!LoadFile(text, base) = s[N]
  BY DEF P!Conf!LoadFile, IsMerging, MergeNext
<1>3. IsMerging(s, text, base, N)
  <2>1. \E f : IsMerging(f, text, base, N)
    BY <1>1, MergingExists
  <2> QED
    BY <2>1
<1> HIDE DEF s, N
<1>4. /\ s[0] = P!Conf!Loaded([text EXCEPT !.extends = <<>>])
      /\ \A i \in 1..N : s[i] = MergeNext(s[i - 1], base[text.extends[i]])
  <2> DEFINE own == P!Conf!Loaded([text EXCEPT !.extends = <<>>])
             next(i) == IF i = 0 THEN own ELSE MergeNext(s[i - 1], base[text.extends[i]])
  <2>1. s = [i \in 0..N |-> next(i)]
    BY <1>3 DEF IsMerging
  <2> HIDE DEF next
  <2>2. \A i \in 0..N : s[i] = next(i)
    BY <2>1
  <2>3. 0 \in 0..N /\ \A i \in 1..N : i \in 0..N /\ i # 0
    BY <1>1
  <2> QED
    BY <2>2, <2>3 DEF next
<1> DEFINE S == {n \in 0..N : s[n].error = None <=> fine(n)}
<1>5. 0..N \subseteq S
  <2>1. 0 \in S
    BY <1>1, <1>4 DEF P!Conf!Loaded
  <2>2. ASSUME NEW n \in 0..(N - 1), n \in S
        PROVE  n + 1 \in S
    <3>1. n + 1 \in 1..N /\ (n + 1) - 1 = n /\ n + 1 \in 0..N
      BY <1>1
    <3>2. s[n + 1] = MergeNext(s[n], base[text.extends[n + 1]])
      BY <1>4, <3>1
    <3>3. s[n + 1].error = None <=> s[n].error = None /\ base[text.extends[n + 1]].error = None
      BY <3>2 DEF MergeNext, P!Conf!Loaded
    <3>4. fine(n + 1) <=> fine(n) /\ base[text.extends[n + 1]].error = None
      <4>1. 1..(n + 1) = 1..n \cup {n + 1}
        OBVIOUS
      <4> QED
        BY <4>1
    <3> QED
      BY <2>2, <3>1, <3>3, <3>4
  <2> HIDE DEF S
  <2> QED
    BY <1>1, <2>1, <2>2, InductionUpTo
<1>6. s[N].error = None <=> fine(N)
  BY <1>1, <1>5
<1>7. fine(N) <=> \A n \in ToSet(text.extends) : base[n].error = None
  BY DEF ToSet, N
<1>8. ASSUME fine(N)
      PROVE  \E m : Merging(m, text, base) /\ s[N].config = m[N]
  <2> DEFINE m == [i \in 0..N |-> s[i].config]
  <2>1. \A i \in 0..N : s[i].error = None
    BY <1>1, <1>5, <1>8
  <2>2. m[0] = [text EXCEPT !.extends = <<>>]
    BY <1>1, <1>4 DEF P!Conf!Loaded
  <2>3. ASSUME NEW i \in 1..N
        PROVE  m[i] = P!Conf!Merged(m[i - 1], base[text.extends[i]].config)
    <3>1. i \in 0..N /\ i - 1 \in 0..N
      BY <1>1
    <3>2. s[i - 1].error = None /\ base[text.extends[i]].error = None
      BY <1>8, <2>1, <3>1
    <3>3. s[i].config = P!Conf!Merged(s[i - 1].config, base[text.extends[i]].config)
      <4>1. s[i] = MergeNext(s[i - 1], base[text.extends[i]])
        BY <1>4
      <4> QED
        BY <3>2, <4>1 DEF MergeNext, P!Conf!Loaded
    <3> QED
      BY <3>1, <3>3
  <2>4. s[N].config = m[N]
    BY <1>1
  <2> HIDE DEF m
  <2>5. Merging(m, text, base)
    BY <2>2, <2>3 DEF Merging, N
  <2> QED
    BY <2>4, <2>5
<1> DEFINE its(n) == \E k \in 1..n : s[n] = base[text.extends[k]]
           I == {n \in 0..N : s[n].error = None \/ its(n)}
<1>9. 0..N \subseteq I
  <2>1. 0 \in I
    BY <1>1, <1>4 DEF P!Conf!Loaded
  <2>2. ASSUME NEW n \in 0..(N - 1), n \in I
        PROVE  n + 1 \in I
    <3>1. n + 1 \in 1..N /\ (n + 1) - 1 = n /\ n + 1 \in 0..N
      BY <1>1
    <3>2. s[n + 1] = MergeNext(s[n], base[text.extends[n + 1]])
      BY <1>4, <3>1
    <3>3. \/ s[n + 1].error = None
          \/ s[n + 1] = base[text.extends[n + 1]]
          \/ s[n].error # None /\ s[n + 1] = s[n]
      BY <3>2 DEF MergeNext, P!Conf!Loaded
    <3>4. n + 1 \in 1..(n + 1) /\ \A k \in 1..n : k \in 1..(n + 1)
      OBVIOUS
    <3>5. s[n].error = None \/ its(n)
      BY <2>2
    <3>6. s[n + 1].error = None \/ its(n + 1)
      BY <3>3, <3>4, <3>5
    <3> QED
      BY <3>1, <3>6
  <2> HIDE DEF I
  <2> QED
    BY <1>1, <2>1, <2>2, InductionUpTo
<1>10. s[N].error # None => \E n \in ToSet(text.extends) : s[N] = base[n]
  <2>1. s[N].error = None \/ its(N)
    BY <1>1, <1>9
  <2>2. \A k \in 1..N : text.extends[k] \in ToSet(text.extends)
    BY DEF ToSet, N
  <2>3. SUFFICES ASSUME s[N].error # None
                 PROVE  \E n \in ToSet(text.extends) : s[N] = base[n]
    OBVIOUS
  <2>4. PICK k \in 1..N : s[N] = base[text.extends[k]]
    BY <2>1, <2>3, Zenon
  <2>5. text.extends[k] \in ToSet(text.extends)
    BY <2>2, <2>4, Zenon
  <2> QED
    BY <2>4, <2>5, Zenon
<1> QED
  BY <1>2, <1>6, <1>7, <1>8, <1>10 DEF N

(* A file that is missing or malformed fails. *)
LEMMA LoadFileFails ==
  ASSUME None \notin {"read", "parse"}, NEW text, text \in {None, P!Conf!Malformed},
         NEW base
  PROVE  /\ P!Conf!LoadFile(text, base).error # None
         /\ P!Conf!LoadFile(text, base).error \in {"read", "parse"}
BY DEF P!Conf!LoadFile, P!Conf!Failed

-----------------------------------------------------------------------------
(* LoadNamed, as its rounds *)
IsLoading(load, disk, N) ==
    load = [d \in 0..N |-> [n \in DOMAIN disk |->
                IF d = 0 THEN P!Conf!Failed("endless")
                ELSE P!Conf!LoadFile(disk[n], load[d - 1])]]

(* The rounds in which the files are loaded *)
LEMMA LoadingExists ==
  ASSUME NEW disk, NEW N \in Nat
  PROVE  \E load : IsLoading(load, disk, N)
<1> DEFINE S == {n \in 0..N : \E load : IsLoading(load, disk, n)}
           next(s, d) == [n \in DOMAIN disk |-> IF d = 0 THEN P!Conf!Failed("endless")
                                                ELSE P!Conf!LoadFile(disk[n], s[d - 1])]
<1> HIDE DEF next
<1>1. 0 \in S
  <2> DEFINE s == [d \in 0..0 |-> next(<<>>, 0)]
  <2>1. \A d \in 0..0 : d = 0
    OBVIOUS
  <2>2. next(<<>>, 0) = next(s, 0)
    BY DEF next
  <2>3. s = [d \in 0..0 |-> next(s, d)]
    BY <2>1, <2>2
  <2>4. IsLoading(s, disk, 0)
    BY <2>3 DEF IsLoading, next
  <2> QED
    BY <2>4
<1>2. ASSUME NEW n \in 0..(N - 1), n \in S
      PROVE  n + 1 \in S
  <2>1. PICK a : IsLoading(a, disk, n)
    BY <1>2
  <2> DEFINE b == [i \in 0..(n + 1) |-> IF i = n + 1 THEN next(a, n + 1) ELSE a[i]]
  <2>2. \A i \in 0..n : a[i] = next(a, i)
    BY <2>1 DEF IsLoading, next
  <2>3. \A i \in 0..n : b[i] = a[i]
    OBVIOUS
  <2>4. \A i \in 0..(n + 1) : next(b, i) = next(a, i)
    <3> SUFFICES ASSUME NEW i \in 0..(n + 1)
                 PROVE  next(b, i) = next(a, i)
      OBVIOUS
    <3>1. i = 0 \/ i - 1 \in 0..n
      OBVIOUS
    <3> HIDE DEF b
    <3> QED
      BY <2>3, <3>1 DEF next
  <2>5. \A i \in 0..(n + 1) : b[i] = next(b, i)
    <3> SUFFICES ASSUME NEW i \in 0..(n + 1)
                 PROVE  b[i] = next(a, i)
      BY <2>4
    <3>1. i = n + 1 \/ (i \in 0..n /\ i # n + 1)
      OBVIOUS
    <3> QED
      BY <2>2, <3>1
  <2>6. b = [i \in 0..(n + 1) |-> b[i]]
    OBVIOUS
  <2> HIDE DEF b
  <2>7. b = [i \in 0..(n + 1) |-> next(b, i)]
    BY <2>5, <2>6
  <2>8. IsLoading(b, disk, n + 1)
    BY <2>7 DEF IsLoading, next
  <2> QED
    BY <2>8
<1>3. N \in S
  <2> HIDE DEF S
  <2>1. 0..N \subseteq S
    BY <1>1, <1>2, InductionUpTo
  <2> QED
    BY <2>1
<1> QED
  BY <1>3

Loading(load, disk, N) ==
    /\ load[0] = [n \in DOMAIN disk |-> P!Conf!Failed("endless")]
    /\ \A d \in 1..N : load[d] =
            [n \in DOMAIN disk |-> P!Conf!LoadFile(disk[n], load[d - 1])]

(* LoadNamed is the last of those rounds. *)
LEMMA LoadNamedLoads ==
  ASSUME NEW disk, IsFiniteSet(DOMAIN disk)
  PROVE  LET N == Cardinality(DOMAIN disk) + 1
         IN \E load : /\ Loading(load, disk, N)
                      /\ \A n : P!Conf!LoadNamed(disk, n) = load[N][n]
<1> DEFINE N == Cardinality(DOMAIN disk) + 1
           load == CHOOSE f : IsLoading(f, disk, N)
<1>1. N \in Nat
  BY FS_CardinalityType
<1>2. \A n : P!Conf!LoadNamed(disk, n) = load[N][n]
  BY DEF P!Conf!LoadNamed, IsLoading, P!Conf!Cardinality, Cardinality
<1>3. IsLoading(load, disk, N)
  <2>1. \E f : IsLoading(f, disk, N)
    BY <1>1, LoadingExists
  <2> QED
    BY <2>1
<1> HIDE DEF load, N
<1>4. Loading(load, disk, N)
  <2> DEFINE fail == P!Conf!Failed("endless")
             next(d) == [n \in DOMAIN disk |->
                IF d = 0 THEN fail ELSE P!Conf!LoadFile(disk[n], load[d - 1])]
  <2>1. load = [d \in 0..N |-> next(d)]
    BY <1>3 DEF IsLoading
  <2> HIDE DEF next, fail
  <2>2. \A d \in 0..N : load[d] = next(d)
    BY <2>1
  <2>3. 0 \in 0..N /\ \A d \in 1..N : d \in 0..N /\ d # 0
    BY <1>1
  <2>4. next(0) = [n \in DOMAIN disk |-> fail]
    BY DEF next
  <2>5. \A d \in 1..N : next(d) = [n \in DOMAIN disk |-> P!Conf!LoadFile(disk[n], load[d - 1])]
    BY <2>3 DEF next
  <2> QED
    BY <2>2, <2>3, <2>4, <2>5 DEF Loading, fail
<1> QED
  BY <1>2, <1>4 DEF N

(* The line of a file, given those of its bases *)
LineOf(disk, lines, n) ==
    <<n>> \o IF n \notin Usable(disk) THEN <<>>
             ELSE FlattenSeq(LinesOf(disk[n].extends, lines))

Lines(down, disk, N) ==
    /\ down \in [0..N -> [DOMAIN disk -> Seq(DOMAIN disk)]]
    /\ down[0] = [n \in DOMAIN disk |-> <<n>>]
    /\ \A d \in 1..N : down[d] = [n \in DOMAIN disk |-> LineOf(disk, down[d - 1], n)]

(* The lines of the bases of a file, in their order *)
LEMMA LinesOfBases ==
  ASSUME NEW D, NEW e \in Seq(D), NEW V, NEW lines \in [D -> Seq(V)]
  PROVE  /\ LinesOf(e, lines) \in Seq(Seq(V)) /\ Len(LinesOf(e, lines)) = Len(e)
         /\ \A k \in 1..Len(e) : LinesOf(e, lines)[k] = lines[e[k]]
<1> DEFINE Q == Seq(V)
           N == Len(e)
           each == LinesOf(e, lines)
<1>1. /\ N \in Nat /\ DOMAIN e = 1..N /\ \A k \in 1..N : e[k] \in D
  OBVIOUS
<1>2. each = [k \in 1..N |-> lines[e[k]]] /\ \A k \in 1..N : lines[e[k]] \in Q
  BY <1>1 DEF LinesOf
<1> HIDE DEF each, Q, N
<1>3. each \in [1..N -> Q]
  BY <1>2
<1>4. each \in Seq(Q) /\ Len(each) = N /\ \A k \in 1..N : each[k] = lines[e[k]]
  BY <1>1, <1>2, <1>3
<1> QED
  BY <1>4 DEF Q, each, N

(* A line has the file itself and what is on the lines of its bases. *)
LEMMA LineTyped ==
  ASSUME NEW disk, NEW T, NEW V, NEW W, AreTexts(disk, T, V, W),
         NEW lines \in [DOMAIN disk -> Seq(DOMAIN disk)], NEW n \in DOMAIN disk
  PROVE  /\ LineOf(disk, lines, n) \in Seq(DOMAIN disk)
         /\ ToSet(LineOf(disk, lines, n)) =
                {n} \cup UNION {ToSet(lines[b]) : b \in BasesIn(disk)[n]}
<1> DEFINE Q == Seq(DOMAIN disk)
           line == LineOf(disk, lines, n)
           bases == BasesIn(disk)[n]
           one == <<n>>
<1>1. one \in Q /\ ToSet(one) = {n} /\ one \o <<>> = one
  <2>1. one \in Q
    OBVIOUS
  <2>2. ToSet(one) = {n}
    BY DEF ToSet
  <2> QED
    BY <2>1, <2>2, ConcatEmptySeq
<1>2. CASE n \notin Usable(disk)
  <2>1. line = one
    BY <1>1, <1>2 DEF LineOf
  <2>2. bases = {}
    BY <1>2 DEF BasesIn
  <2> QED
    BY <1>1, <2>1, <2>2
<1>3. CASE n \in Usable(disk)
  <2> DEFINE e == disk[n].extends
             each == LinesOf(e, lines)
             rest == FlattenSeq(each)
  <2>1. /\ each \in Seq(Seq(DOMAIN disk)) /\ Len(each) = Len(e)
        /\ \A k \in 1..Len(e) : each[k] = lines[e[k]]
    <3>1. e \in Seq(DOMAIN disk)
      BY <1>3, TextsAre
    <3> HIDE DEF e
    <3> QED
      BY <3>1, LinesOfBases
  <2>2. line = one \o rest
    BY <1>3 DEF LineOf
  <2>3. bases = ToSet(e)
    BY <1>3, TextsAre
  <2>4. \A b : b \in ToSet(e) <=> \E k \in 1..Len(e) : e[k] = b
    BY <1>3, TextsAre DEF ToSet
  <2> HIDE DEF each, one
  <2>5. /\ rest \in Q
        /\ \A v : v \in ToSet(rest) <=> \E k \in 1..Len(each) : v \in ToSet(each[k])
    BY <2>1, FlattenAddsUp, FlattenNames
  <2> HIDE DEF rest, e, bases
  <2>6. line \in Q /\ ToSet(line) = {n} \cup ToSet(rest)
    BY <1>1, <2>2, <2>5, ConcatProperties, ConcatNames
  <2>7. ToSet(rest) = UNION {ToSet(lines[b]) : b \in bases}
    <3>1. ASSUME NEW v
          PROVE  v \in ToSet(rest) <=> \E b \in bases : v \in ToSet(lines[b])
      <4> DEFINE K == Len(e)
      <4>1. v \in ToSet(rest) <=> \E k \in 1..K : v \in ToSet(each[k])
        BY <2>1, <2>5
      <4>2. \A k \in 1..K : each[k] = lines[e[k]]
        BY <2>1
      <4>3. \A b : b \in bases <=> \E k \in 1..K : e[k] = b
        BY <2>3, <2>4
      <4> HIDE DEF K
      <4>4. ASSUME NEW k \in 1..K, v \in ToSet(each[k])
            PROVE  \E b \in bases : v \in ToSet(lines[b])
        BY <4>2, <4>3, <4>4, Zenon
      <4>5. ASSUME NEW b \in bases, v \in ToSet(lines[b])
            PROVE  \E k \in 1..K : v \in ToSet(each[k])
        <5>1. PICK k \in 1..K : e[k] = b
          BY <4>3
        <5> QED
          BY <4>2, <4>5, <5>1, Zenon
      <4> QED
        BY <4>1, <4>4, <4>5, Zenon
    <3> QED
      BY <3>1
  <2> QED
    BY <2>6, <2>7 DEF bases
<1> QED
  BY <1>2, <1>3

(* Lineage is the last of the rounds in which lines grow. *)
LEMMA LineageExists ==
  ASSUME NEW disk, NEW T, NEW V, NEW W, AreTexts(disk, T, V, W)
  PROVE  LET N == Cardinality(DOMAIN disk)
         IN \E down : Lines(down, disk, N) /\ \A n : Lineage(disk, n) = down[N][n]
<1> DEFINE D == DOMAIN disk
           X == [D -> Seq(D)]
           F == [f \in X |-> [n \in D |-> LineOf(disk, f, n)]]
           one == [n \in D |-> <<n>>]
           N == Cardinality(D)
           IsDown(f) == f = [d \in 0..N |-> [n \in D |->
                <<n>> \o IF d = 0 \/ n \notin Usable(disk) THEN <<>>
                         ELSE FlattenSeq(LinesOf(disk[n].extends, f[d - 1]))]]
           down == CHOOSE f : IsDown(f)
<1>1. \A n : Lineage(disk, n) = down[N][n]
  BY DEF Lineage
<1>2. N \in Nat
  BY FS_CardinalityType DEF AreTexts
<1>3. F \in [X -> X]
  BY LineTyped
<1>4. one \in X
  OBVIOUS
<1>5. PICK a : Iterates(a, F, one, X, N)
  <2> HIDE DEF F, X, one, N
  <2> QED
    BY <1>2, <1>3, <1>4, IterationExists
<1>6. a \in [0..N -> X] /\ a[0] = one /\ \A d \in 1..N : a[d] = F[a[d - 1]]
  BY <1>5 DEF Iterates
<1>7. \A d \in 1..N : a[d] = [n \in D |-> LineOf(disk, a[d - 1], n)]
  <2>1. \A d \in 1..N : a[d - 1] \in X
    <3> HIDE DEF X, N
    <3> QED
      BY <1>2, <1>6
  <2>2. \A f \in X : F[f] = [n \in D |-> LineOf(disk, f, n)]
    OBVIOUS
  <2> HIDE DEF X, F
  <2> QED
    BY <1>6, <2>1, <2>2
<1> DEFINE step(f, d) == [n \in D |->
                <<n>> \o IF d = 0 \/ n \notin Usable(disk) THEN <<>>
                         ELSE FlattenSeq(LinesOf(disk[n].extends, f[d - 1]))]
<1>8. \A f : step(f, 0) = one
  <2>1. \A n \in D : <<n>> \o <<>> = <<n>>
    BY ConcatEmptySeq
  <2> QED
    BY <2>1
<1>9. \A f, d : d # 0 => step(f, d) = [n \in D |-> LineOf(disk, f[d - 1], n)]
  BY DEF LineOf
<1>10. \A f : IsDown(f) <=> f = [d \in 0..N |-> step(f, d)]
  OBVIOUS
<1> HIDE DEF step, IsDown
<1>11. IsDown([d \in 0..N |-> a[d]])
  <2> DEFINE f == [d \in 0..N |-> a[d]]
  <2>1. f = a
    BY <1>6
  <2> HIDE DEF f
  <2>2. ASSUME NEW d \in 0..N
        PROVE  f[d] = step(f, d)
    <3>1. d = 0 \/ (d \in 1..N /\ d # 0)
      BY <1>2
    <3>2. \A i \in 1..N : a[i] = [n \in D |-> LineOf(disk, a[i - 1], n)]
      BY <1>7
    <3> HIDE DEF D, one, X, N, F
    <3>3. CASE d = 0
      BY <1>6, <1>8, <2>1, <3>3
    <3>4. CASE d \in 1..N /\ d # 0
      <4>1. a[d] = [n \in D |-> LineOf(disk, a[d - 1], n)]
        BY <3>2, <3>4, Zenon
      <4>2. step(f, d) = [n \in D |-> LineOf(disk, f[d - 1], n)]
        BY <1>9, <3>4, Zenon
      <4> QED
        BY <2>1, <4>1, <4>2, Zenon
    <3> QED
      BY <3>1, <3>3, <3>4
  <2>3. f = [d \in 0..N |-> f[d]]
    BY <2>1 DEF f
  <2>4. f = [d \in 0..N |-> step(f, d)]
    BY <2>2, <2>3
  <2> QED
    BY <1>10, <2>4 DEF f
<1>12. IsDown(down)
  BY <1>11
<1> HIDE DEF down
<1>13. \A d \in 0..N : down[d] = step(down, d)
  <2>1. down = [d \in 0..N |-> step(down, d)]
    BY <1>10, <1>12
  <2> QED
    BY <2>1
<1>14. /\ down[0] = one
       /\ \A d \in 1..N : down[d] = [n \in D |-> LineOf(disk, down[d - 1], n)]
  <2>1. 0 \in 0..N /\ \A d \in 1..N : d \in 0..N /\ d # 0
    BY <1>2
  <2> HIDE DEF D, one, X, N
  <2> QED
    BY <1>8, <1>9, <1>13, <2>1
<1>15. \A d \in 0..N : down[d] = a[d]
  <2> DEFINE S == {d \in 0..N : down[d] = a[d]}
  <2>1. 0 \in S
    BY <1>2, <1>6, <1>14
  <2>2. ASSUME NEW d \in 0..(N - 1), d \in S
        PROVE  d + 1 \in S
    <3>1. d + 1 \in 1..N /\ (d + 1) - 1 = d /\ d + 1 \in 0..N
      BY <1>2
    <3>2. down[d + 1] = [n \in D |-> LineOf(disk, down[d], n)]
      BY <1>14, <3>1
    <3>3. a[d + 1] = [n \in D |-> LineOf(disk, a[d], n)]
      BY <1>7, <3>1
    <3> HIDE DEF D, N
    <3> QED
      BY <2>2, <3>1, <3>2, <3>3
  <2> HIDE DEF S
  <2>3. 0..N \subseteq S
    BY <1>2, <2>1, <2>2, InductionUpTo
  <2> QED
    BY <2>3 DEF S
<1>16. down \in [0..N -> X]
  <2>1. down = [d \in 0..N |-> step(down, d)]
    BY <1>10, <1>12
  <2> HIDE DEF X, D, N
  <2> QED
    BY <1>6, <1>13, <1>15, <2>1
<1>17. Lines(down, disk, N)
  BY <1>14, <1>16 DEF Lines
<1> QED
  BY <1>1, <1>17

(* The bases of a file are files, and so are those of one that is silent.  *)
LEMMA BasesAreFiles ==
  ASSUME NEW disk, NEW T, NEW V, NEW W, AreTexts(disk, T, V, W)
  PROVE  /\ BasesIn(disk) \in [DOMAIN disk -> SUBSET DOMAIN disk]
         /\ \A value : Silent(disk, value) \in [DOMAIN disk -> SUBSET DOMAIN disk]
<1> DEFINE D == DOMAIN disk
           next == BasesIn(disk)
<1>1. ASSUME NEW n \in Usable(disk)
      PROVE  next[n] \in SUBSET D
  BY <1>1, TextsAre DEF ToSet
<1>2. ASSUME NEW n \in D \ Usable(disk)
      PROVE  next[n] \in SUBSET D
  BY DEF BasesIn
<1>3. next = [n \in D |-> next[n]]
  BY DEF BasesIn
<1> HIDE DEF next, D
<1>4. next \in [D -> SUBSET D]
  BY <1>1, <1>2, <1>3
<1>5. \A value : Silent(disk, value) \in [D -> SUBSET D]
  BY <1>4 DEF Silent, D, next
<1> QED
  BY <1>4, <1>5 DEF D, next

(* The line of a file grows, until it has all that the file extends. *)
LEMMA LinesReach ==
  ASSUME NEW disk, NEW T, NEW V, NEW W, AreTexts(disk, T, V, W),
         NEW N \in Nat, NEW down, Lines(down, disk, N), NEW start \in DOMAIN disk
  PROVE  /\ \A d \in 0..N : \A C : start \in C /\ ClosedUnder(C, BasesIn(disk))
                => ToSet(down[d][start]) \subseteq C
         /\ \A d \in 0..(N - 1) : \A m \in ToSet(down[d][start]) :
                BasesIn(disk)[m] \subseteq ToSet(down[d + 1][start])
         /\ \A d \in 0..(N - 1) : ToSet(down[d][start]) \subseteq ToSet(down[d + 1][start])
         /\ ToSet(down[0][start]) = {start}
<1> DEFINE D == DOMAIN disk
           next == BasesIn(disk)
           names(d, n) == ToSet(down[d][n])
<1>1. next \in [D -> SUBSET D]
  BY BasesAreFiles
<1>2. \A n \in D : names(0, n) = {n}
  <2>1. \A n \in D : ToSet(<<n>>) = {n}
    BY DEF ToSet
  <2>2. \A n \in D : down[0][n] = <<n>>
    BY DEF Lines
  <2> QED
    BY <2>1, <2>2
<1>3. ASSUME NEW d \in 0..(N - 1), NEW n \in D
      PROVE  names(d + 1, n) = {n} \cup UNION {names(d, b) : b \in next[n]}
  <2>1. d + 1 \in 1..N /\ (d + 1) - 1 = d /\ d \in 0..N
    OBVIOUS
  <2>2. down[d] \in [D -> Seq(D)]
    BY <2>1 DEF Lines
  <2>3. down[d + 1][n] = LineOf(disk, down[d], n)
    <3>1. \A i \in 1..N : down[i] = [m \in D |-> LineOf(disk, down[i - 1], m)]
      BY DEF Lines
    <3>2. down[d + 1] = [m \in D |-> LineOf(disk, down[(d + 1) - 1], m)]
      BY <2>1, <3>1, Zenon
    <3>3. (d + 1) - 1 = d
      BY <2>1
    <3>4. down[d + 1] = [m \in D |-> LineOf(disk, down[d], m)]
      BY <3>2, <3>3, Zenon
    <3> QED
      BY <3>4, Zenon
  <2> HIDE DEF next
  <2> QED
    BY <2>2, <2>3, LineTyped DEF next
<1> HIDE DEF names, next
<1>4. \A d \in 0..(N - 1) : \A n \in D : \A v : v \in names(d + 1, n) <=>
            v = n \/ \E b \in next[n] : v \in names(d, b)
  BY <1>3
<1>5. \A d \in 0..N : \A n \in D : n \in names(d, n)
  <2> SUFFICES ASSUME NEW d \in 0..N, NEW n \in D
               PROVE  n \in names(d, n)
    OBVIOUS
  <2>1. CASE d = 0
    BY <1>2, <2>1
  <2>2. CASE d # 0
    <3>1. d - 1 \in 0..(N - 1) /\ (d - 1) + 1 = d
      BY <2>2
    <3> QED
      BY <1>4, <3>1
  <2> QED
    BY <2>1, <2>2
<1>6. \A d \in 0..N : \A n \in D : \A C :
            n \in C /\ ClosedUnder(C, next) => names(d, n) \subseteq C
  <2> DEFINE S == {d \in 0..N : \A n \in D : \A C :
                        n \in C /\ ClosedUnder(C, next) => names(d, n) \subseteq C}
  <2>1. 0 \in S
    BY <1>2
  <2>2. ASSUME NEW d \in 0..(N - 1), d \in S
        PROVE  d + 1 \in S
    <3>1. d + 1 \in 0..N
      OBVIOUS
    <3>2. ASSUME NEW n \in D, NEW C, n \in C, ClosedUnder(C, next)
          PROVE  names(d + 1, n) \subseteq C
      <4>1. next[n] \subseteq C /\ next[n] \subseteq D
        BY <1>1, <3>2 DEF ClosedUnder
      <4>2. \A b \in next[n] : names(d, b) \subseteq C
        BY <2>2, <3>2, <4>1
      <4> QED
        BY <1>4, <3>2, <4>2
    <3> QED
      BY <3>1, <3>2
  <2> HIDE DEF S
  <2>3. 0..N \subseteq S
    BY <2>1, <2>2, InductionUpTo
  <2> QED
    BY <2>3 DEF S
<1> DEFINE onto(d) == \A n \in D : /\ names(d, n) \subseteq names(d + 1, n)
                                   /\ \A m \in names(d, n) : next[m] \subseteq names(d + 1, n)
<1>7. \A d \in 0..(N - 1) : onto(d)
  <2> DEFINE S == {d \in 0..N : d # N => onto(d)}
  <2>1. 0 \in S
    <3> SUFFICES ASSUME N # 0, NEW n \in D
                 PROVE  /\ n \in names(1, n)
                        /\ next[n] \subseteq names(1, n)
      BY <1>2
    <3>1. 0 \in 0..(N - 1) /\ 0 + 1 = 1 /\ 0 \in 0..N
      OBVIOUS
    <3>2. \A b \in next[n] : b \in names(0, b)
      BY <1>1, <1>5, <3>1
    <3> QED
      BY <1>4, <3>1, <3>2
  <2>2. ASSUME NEW d \in 0..(N - 1), d \in S
        PROVE  d + 1 \in S
    <3> SUFFICES ASSUME d + 1 # N
                 PROVE  onto(d + 1)
      OBVIOUS
    <3>1. d + 1 \in 0..(N - 1) /\ d \in 0..(N - 1) /\ d + 1 \in 0..N
      OBVIOUS
    <3>2. onto(d)
      BY <2>2
    <3>3. ASSUME NEW n \in D, NEW m \in names(d + 1, n)
          PROVE  m \in names((d + 1) + 1, n) /\ next[m] \subseteq names((d + 1) + 1, n)
      <4>1. \A v : v \in names((d + 1) + 1, n) <=> v = n \/ \E b \in next[n] : v \in names(d + 1, b)
        BY <1>4, <3>1
      <4>2. \A b \in next[n] : b \in D /\ b \in names(d + 1, b)
        BY <1>1, <1>5, <3>1
      <4>3. CASE m = n
        BY <4>1, <4>2, <4>3
      <4>4. CASE m # n
        <5>1. PICK b \in next[n] : m \in names(d, b)
          BY <1>4, <4>4
        <5>2. m \in names(d + 1, b) /\ next[m] \subseteq names(d + 1, b)
          BY <3>2, <4>2, <5>1
        <5> QED
          BY <4>1, <5>2
      <4> QED
        BY <4>3, <4>4
    <3> QED
      BY <3>3
  <2> HIDE DEF S, onto
  <2>3. 0..N \subseteq S
    BY <2>1, <2>2, InductionUpTo
  <2>4. \A d \in 0..(N - 1) : d \in 0..N /\ d # N
    OBVIOUS
  <2> QED
    BY <2>3, <2>4 DEF S
<1> QED
  BY <1>2, <1>6, <1>7 DEF names, next

(* The files that a file leads to: itself, the neighbours of any that it   *)
(* leads to, and no more                                                   *)
LEMMA LedToIs ==
  ASSUME NEW D, IsFiniteSet(D), NEW next \in [D -> SUBSET D], NEW n \in D
  PROVE  /\ n \in LedTo(n, next) /\ LedTo(n, next) \in SUBSET D
         /\ ClosedUnder(LedTo(n, next), next)
         /\ \A C : n \in C /\ ClosedUnder(C, next) => LedTo(n, next) \subseteq C
         /\ \A b \in next[n] : b \in D /\ LedTo(b, next) \subseteq LedTo(n, next)
<1>1. DOMAIN next = D /\ \A m \in D : next[m] \in SUBSET D
  OBVIOUS
<1>2. \A m \in D : /\ Closure(next[m], next) \in SUBSET D
                    /\ next[m] \subseteq Closure(next[m], next)
                    /\ ClosedUnder(Closure(next[m], next), next)
                    /\ \A C : next[m] \subseteq C /\ ClosedUnder(C, next)
                            => Closure(next[m], next) \subseteq C
  BY <1>1, ClosureIsLeast
<1>3. \A m \in D : ClosedUnder(LedTo(m, next), next)
  BY <1>1, <1>2 DEF LedTo, ClosedUnder
<1>4. \A m \in D : \A C : m \in C /\ ClosedUnder(C, next) => LedTo(m, next) \subseteq C
  <2> SUFFICES ASSUME NEW m \in D, NEW C, m \in C, ClosedUnder(C, next)
               PROVE  LedTo(m, next) \subseteq C
    OBVIOUS
  <2>1. next[m] \subseteq C
    BY <1>1 DEF ClosedUnder
  <2> QED
    BY <1>2, <2>1 DEF LedTo
<1>5. n \in LedTo(n, next) /\ LedTo(n, next) \in SUBSET D /\ next[n] \subseteq LedTo(n, next)
  BY <1>2 DEF LedTo
<1> QED
  BY <1>1, <1>3, <1>4, <1>5

(* In as many rounds as there are files, the line of a file has all that   *)
(* the file extends.                                                       *)
LEMMA LineHoldsAll ==
  ASSUME NEW disk, NEW T, NEW V, NEW W, AreTexts(disk, T, V, W),
         NEW down, Lines(down, disk, Cardinality(DOMAIN disk)), NEW start \in DOMAIN disk
  PROVE  ToSet(down[Cardinality(DOMAIN disk)][start]) = Extended(disk, start)
<1> DEFINE D == DOMAIN disk
           K == Cardinality(D)
           next == BasesIn(disk)
           names == ToSet(down[K][start])
           F == [S \in SUBSET D |-> S \cup UNION {next[n] : n \in S}]
<1>1. IsFiniteSet(D) /\ K \in Nat
  BY FS_CardinalityType DEF AreTexts
<1>2. next \in [D -> SUBSET D]
  BY BasesAreFiles
<1>3. Extended(disk, start) = LedTo(start, next)
  BY DEF Extended
<1> HIDE DEF next
<1>4. /\ \A d \in 0..K : \A C : start \in C /\ ClosedUnder(C, next)
                => ToSet(down[d][start]) \subseteq C
      /\ \A d \in 0..(K - 1) : \A m \in ToSet(down[d][start]) :
                next[m] \subseteq ToSet(down[d + 1][start])
      /\ \A d \in 0..(K - 1) : ToSet(down[d][start]) \subseteq ToSet(down[d + 1][start])
      /\ ToSet(down[0][start]) = {start}
  BY <1>1, LinesReach DEF next
<1>5. Adds(F, D)
  <2>1. ASSUME NEW S \in SUBSET D
        PROVE  S \cup UNION {next[n] : n \in S} \in SUBSET D
    BY <1>2
  <2> QED
    BY <2>1 DEF Adds
<1>6. \A S \in SUBSET D : F[S] = S \cup UNION {next[n] : n \in S}
  OBVIOUS
<1> HIDE DEF F
<1>7. PICK a : Iterates(a, F, {start}, SUBSET D, K)
  BY <1>1, <1>5, RoundsExist
<1>8. /\ a \in [0..K -> SUBSET D] /\ a[0] = {start}
      /\ \A i \in 1..K : a[i] = F[a[i - 1]]
  BY <1>7 DEF Iterates
<1>9. Rounds(a, F, {start}, D, K)
  BY <1>8 DEF Rounds
<1>10. Reached(a[K], F, {start}, D)
  BY <1>1, <1>5, <1>9, RoundsReach
<1>11. a[K] \in SUBSET D /\ start \in a[K] /\ F[a[K]] = a[K]
  BY <1>10 DEF Reached
<1>12. ClosedUnder(a[K], next)
  BY <1>6, <1>11 DEF ClosedUnder
<1> DEFINE S == {d \in 0..K : a[d] \subseteq ToSet(down[d][start])}
<1>13. 0 \in S
  BY <1>1, <1>4, <1>8
<1>14. ASSUME NEW d \in 0..(K - 1), d \in S
       PROVE  d + 1 \in S
  <2>1. d + 1 \in 1..K /\ (d + 1) - 1 = d /\ d + 1 \in 0..K /\ d \in 0..K
    BY <1>1
  <2>2. a[d + 1] = F[a[d]] /\ a[d] \in SUBSET D
    BY <1>8, <2>1
  <2>3. a[d + 1] = a[d] \cup UNION {next[n] : n \in a[d]}
    BY <1>6, <2>2
  <2>4. a[d] \subseteq ToSet(down[d][start])
    BY <1>14
  <2>5. /\ \A m \in a[d] : next[m] \subseteq ToSet(down[d + 1][start])
        /\ a[d] \subseteq ToSet(down[d + 1][start])
    BY <1>4, <2>4
  <2>6. a[d + 1] \subseteq ToSet(down[d + 1][start])
    BY <2>3, <2>5
  <2> QED
    BY <2>1, <2>6
<1> HIDE DEF S
<1>15. 0..K \subseteq S
  BY <1>1, <1>13, <1>14, InductionUpTo
<1>16. a[K] \subseteq names
  <2>1. K \in S
    BY <1>1, <1>15
  <2> QED
    BY <2>1 DEF S
<1>17. LedTo(start, next) \subseteq names
  <2>1. LedTo(start, next) \subseteq a[K]
    BY <1>1, <1>2, <1>11, <1>12, LedToIs
  <2> QED
    BY <1>16, <2>1
<1>18. names \subseteq LedTo(start, next)
  <2>1. K \in 0..K
    BY <1>1
  <2>2. start \in LedTo(start, next) /\ ClosedUnder(LedTo(start, next), next)
    BY <1>1, <1>2, LedToIs
  <2> QED
    BY <1>4, <2>1, <2>2
<1> QED
  BY <1>3, <1>17, <1>18

(* What ends in as many rounds as there are files, and no sooner *)
LEMMA LoadedIsGrounded ==
  ASSUME NEW disk, NEW T, NEW V, NEW W, AreTexts(disk, T, V, W),
         NEW N, N = Cardinality(DOMAIN disk) + 1, NEW load, Loading(load, disk, N),
         NEW start \in DOMAIN disk
  PROVE  load[N][start].error = None <=>
                /\ Extended(disk, start) \subseteq Usable(disk)
                /\ \A n \in Extended(disk, start) :
                        n \notin Closure(BasesIn(disk)[n], BasesIn(disk))
<1> DEFINE D == DOMAIN disk
           K == Cardinality(D)
           U == Usable(disk)
           next == BasesIn(disk)
           names == Extended(disk, start)
           G == [d \in 0..N |-> {n \in D : load[d][n].error = None}]
<1>1. IsFiniteSet(D) /\ K \in Nat /\ N \in Nat /\ N # 0 /\ K <= N /\ U \in SUBSET D
  BY FS_CardinalityType DEF AreTexts, Usable
<1>2. next \in [D -> SUBSET D]
  BY BasesAreFiles
<1>3. load[0] = [n \in D |-> P!Conf!Failed("endless")]
  BY DEF Loading
<1>4. \A d \in 1..N : load[d] = [n \in D |-> P!Conf!LoadFile(disk[n], load[d - 1])]
  BY DEF Loading
<1>5. \A base : \A n \in D : P!Conf!LoadFile(disk[n], base).error = None <=>
            n \in U /\ \A b \in next[n] : base[b].error = None
  <2> SUFFICES ASSUME NEW base, NEW n \in D
               PROVE  P!Conf!LoadFile(disk[n], base).error = None <=>
                        n \in U /\ \A b \in next[n] : base[b].error = None
    OBVIOUS
  <2>1. CASE n \in U
    <3>1. /\ disk[n].extends \in Seq(D) /\ disk[n] # None /\ disk[n] # P!Conf!Malformed
          /\ next[n] = ToSet(disk[n].extends)
      BY <2>1, TextsAre
    <3> HIDE DEF D, next
    <3> QED
      BY <2>1, <3>1, LoadFileMerges
  <2>2. CASE n \notin U
    <3>1. disk[n] \in {None, P!Conf!Malformed} /\ None \notin {"read", "parse"}
      BY <2>2 DEF Usable, AreTexts
    <3> QED
      BY <2>2, <3>1, LoadFileFails
  <2> QED
    BY <2>1, <2>2
<1>6. Grounds(G, U, next, N)
  <2>1. G[0] = {}
    <3>1. None # "endless"
      BY DEF AreTexts
    <3>2. \A n \in D : load[0][n].error # None
      BY <1>3, <3>1 DEF P!Conf!Failed
    <3> QED
      BY <1>1, <3>2
  <2>2. ASSUME NEW d \in 1..N
        PROVE  G[d] = {n \in U : next[n] \subseteq G[d - 1]}
    <3>1. d \in 0..N /\ d - 1 \in 0..N
      BY <1>1
    <3>2. \A n \in D : load[d][n].error = None <=>
                n \in U /\ \A b \in next[n] : load[d - 1][b].error = None
      <4>1. load[d] = [n \in D |-> P!Conf!LoadFile(disk[n], load[d - 1])]
        BY <1>4, Zenon
      <4>2. \A n \in D : load[d][n] = P!Conf!LoadFile(disk[n], load[d - 1])
        BY <4>1, Zenon
      <4>3. \A n \in D : P!Conf!LoadFile(disk[n], load[d - 1]).error = None <=>
                n \in U /\ \A b \in next[n] : load[d - 1][b].error = None
        BY <1>5, Zenon
      <4> HIDE DEF U, next
      <4> QED
        BY <4>2, <4>3, Zenon
    <3>3. G[d - 1] = {n \in D : load[d - 1][n].error = None}
      BY <3>1
    <3>4. G[d] = {n \in D : load[d][n].error = None}
      BY <3>1
    <3> HIDE DEF G, next, U, D
    <3> QED
      BY <1>1, <1>2, <3>2, <3>3, <3>4
  <2> HIDE DEF G
  <2> QED
    BY <2>1, <2>2 DEF Grounds
<1>7. load[N][start].error = None <=> start \in G[N]
  BY <1>1
<1> HIDE DEF G, next, U
<1>8. /\ G[N] \subseteq U /\ ClosedUnder(G[N], next)
      /\ \A n \in G[N] : n \notin Closure(next[n], next)
      /\ \A S \in SUBSET U : /\ ClosedUnder(S, next)
                             /\ \A n \in S : n \notin Closure(next[n], next)
                             => S \subseteq G[N]
  <2>1. Grounded(G[N], U, next)
    BY <1>1, <1>2, <1>6, GroundedIsAcyclic
  <2> QED
    BY <2>1 DEF Grounded
<1>9. /\ start \in names /\ names \in SUBSET D /\ ClosedUnder(names, next)
      /\ \A C : start \in C /\ ClosedUnder(C, next) => names \subseteq C
  <2>1. names = LedTo(start, next)
    BY DEF Extended, next
  <2> HIDE DEF names
  <2> QED
    BY <1>1, <1>2, <2>1, LedToIs
<1> HIDE DEF names
<1>10. ASSUME start \in G[N]
       PROVE  names \subseteq U /\ \A n \in names : n \notin Closure(next[n], next)
  <2>1. names \subseteq G[N]
    BY <1>8, <1>9, <1>10
  <2> QED
    BY <1>8, <2>1
<1>11. ASSUME names \subseteq U, \A n \in names : n \notin Closure(next[n], next)
       PROVE  start \in G[N]
  BY <1>8, <1>9, <1>11
<1> QED
  BY <1>7, <1>10, <1>11 DEF U, next, names

(* The first file of a line that has the setting *)
IsNearest(line, value, k) ==
    /\ k \in 1..Len(line) /\ value[line[k]] # None
    /\ \A j \in 1..Len(line) : j < k => value[line[j]] = None

(* The setting of a line is that of its first file that has one. *)
LEMMA NearestIs ==
  ASSUME NEW N, NEW line \in Seq(N), NEW value
  PROVE  /\ NearestIn(line, value) = None <=> \A k \in 1..Len(line) : value[line[k]] = None
         /\ \A k : IsNearest(line, value, k) => NearestIn(line, value) = value[line[k]]
         /\ (\A k \in 1..Len(line) : value[line[k]] = None)
                \/ \E k : IsNearest(line, value, k)
<1> DEFINE L == Len(line)
           S == {k \in DOMAIN line : value[line[k]] # None}
           first == CHOOSE k \in S : \A j \in S : k <= j
<1>1. L \in Nat /\ DOMAIN line = 1..L
  OBVIOUS
<1>2. \A k : k \in S <=> k \in 1..L /\ value[line[k]] # None
  BY <1>1
<1>3. NearestIn(line, value) = IF S = {} THEN None ELSE value[line[first]]
  BY DEF NearestIn
<1>4. S \in SUBSET Nat
  BY <1>1
<1> HIDE DEF S, L
<1>5. CASE S = {}
  BY <1>2, <1>3, <1>5 DEF IsNearest, L
<1>6. CASE S # {}
  <2>1. \E k \in S : \A j \in S : k <= j
    BY <1>4, <1>6, LeastNumber
  <2>2. first \in S /\ \A j \in S : first <= j
    BY <2>1
  <2> HIDE DEF first
  <2>3. \A k : k \in 1..L => k \in Nat
    BY <1>1
  <2>4. IsNearest(line, value, first)
    <3>1. \A j \in 1..L : j < first => j \notin S
      BY <1>1, <1>2, <2>2, <2>3
    <3> QED
      BY <1>2, <2>2, <3>1 DEF IsNearest, L
  <2>5. ASSUME NEW k, IsNearest(line, value, k)
        PROVE  k = first
    <3>1. k \in S /\ k \in 1..L /\ first \in 1..L
      BY <1>2, <2>2, <2>5 DEF IsNearest, L
    <3>2. first <= k /\ ~(first < k)
      BY <1>2, <2>2, <2>5, <3>1 DEF IsNearest, L
    <3> QED
      BY <1>1, <3>1, <3>2
  <2>6. NearestIn(line, value) = value[line[first]] /\ value[line[first]] # None
    BY <1>2, <1>3, <1>6, <2>2
  <2> QED
    BY <1>2, <2>2, <2>4, <2>5, <2>6 DEF L
<1> QED
  BY <1>5, <1>6

(* The nearer part of a line decides, and the rest where it is silent. *)
LEMMA NearestAddsUp ==
  ASSUME NEW N, NEW value
  PROVE  /\ \A n \in N : NearestIn(<<n>>, value) = value[n]
         /\ \A x, y \in Seq(N) : NearestIn(x \o y, value) =
                P!Conf!OrBase(NearestIn(x, value), NearestIn(y, value))
<1>1. ASSUME NEW n \in N
      PROVE  NearestIn(<<n>>, value) = value[n]
  <2> DEFINE line == <<n>>
  <2>1. line \in Seq(N) /\ Len(line) = 1 /\ line[1] = n
    OBVIOUS
  <2> HIDE DEF line
  <2>2. CASE value[n] = None
    <3>1. \A k \in 1..Len(line) : value[line[k]] = None
      BY <2>1, <2>2
    <3>2. NearestIn(line, value) = None
      BY <2>1, <3>1, NearestIs
    <3> QED
      BY <2>2, <3>2 DEF line
  <2>3. CASE value[n] # None
    <3>1. IsNearest(line, value, 1)
      BY <2>1, <2>3 DEF IsNearest
    <3>2. NearestIn(line, value) = value[line[1]]
      BY <2>1, <3>1, NearestIs
    <3> QED
      BY <2>1, <3>2 DEF line
  <2> QED
    BY <2>2, <2>3
<1>2. ASSUME NEW x \in Seq(N), NEW y \in Seq(N)
      PROVE  NearestIn(x \o y, value) = P!Conf!OrBase(NearestIn(x, value), NearestIn(y, value))
  <2> DEFINE z == x \o y
             K == Len(x)
             L == Len(y)
  <2>1. /\ K \in Nat /\ L \in Nat /\ z \in Seq(N) /\ Len(z) = K + L
        /\ \A i \in 1..(K + L) : z[i] = IF i <= K THEN x[i] ELSE y[i - K]
    BY ConcatProperties
  <2> HIDE DEF z
  <2>2. /\ \A i \in 1..K : i \in 1..(K + L) /\ z[i] = x[i]
        /\ \A i \in 1..L : K + i \in 1..(K + L) /\ z[K + i] = y[i]
    <3> HIDE DEF K, L
    <3>1. \A i \in 1..K : i \in 1..(K + L) /\ i <= K
      BY <2>1
    <3>2. \A i \in 1..L : K + i \in 1..(K + L) /\ ~(K + i <= K) /\ (K + i) - K = i
      BY <2>1
    <3> QED
      BY <2>1, <3>1, <3>2
  <2>3. \A i \in 1..(K + L) : i \in 1..K \/ \E j \in 1..L : i = K + j
    <3> SUFFICES ASSUME NEW i \in 1..(K + L), i \notin 1..K
                 PROVE  \E j \in 1..L : i = K + j
      OBVIOUS
    <3> HIDE DEF K, L
    <3>1. i - K \in 1..L /\ i = K + (i - K)
      BY <2>1
    <3> QED
      BY <3>1
  <2>4. CASE \E k : IsNearest(x, value, k)
    <3>1. PICK k : IsNearest(x, value, k)
      BY <2>4
    <3>2. /\ NearestIn(x, value) = value[x[k]]
          /\ value[x[k]] # None /\ k \in 1..K
      <4>1. NearestIn(x, value) = value[x[k]]
        BY <3>1, NearestIs
      <4> QED
        BY <3>1, <4>1 DEF IsNearest
    <3>3. IsNearest(z, value, k)
      <4>1. \A j \in 1..(K + L) : j < k => j \in 1..K
        BY <2>1, <3>2
      <4>2. \A j \in 1..K : j < k => value[x[j]] = None
        BY <3>1 DEF IsNearest
      <4> HIDE DEF K, L
      <4> QED
        BY <2>1, <2>2, <3>2, <4>1, <4>2 DEF IsNearest
    <3>4. NearestIn(z, value) = value[z[k]]
      BY <2>1, <3>3, NearestIs
    <3>5. z[k] = x[k]
      BY <2>2, <3>2
    <3> QED
      BY <3>2, <3>4, <3>5 DEF z, P!Conf!OrBase
  <2>5. CASE \A k \in 1..K : value[x[k]] = None
    <3>1. NearestIn(x, value) = None
      BY <2>5, NearestIs
    <3>2. CASE \A k \in 1..L : value[y[k]] = None
      <4>1. \A k \in 1..(K + L) : value[z[k]] = None
        <5> HIDE DEF K, L
        <5> QED
          BY <2>2, <2>3, <2>5, <3>2
      <4>2. NearestIn(y, value) = None
        BY <3>2, NearestIs
      <4>3. NearestIn(z, value) = None
        BY <2>1, <4>1, NearestIs
      <4> QED
        BY <3>1, <4>2, <4>3 DEF z, P!Conf!OrBase
    <3>3. CASE \E k : IsNearest(y, value, k)
      <4>1. PICK k : IsNearest(y, value, k)
        BY <3>3
      <4>2. NearestIn(y, value) = value[y[k]] /\ value[y[k]] # None /\ k \in 1..L
        BY <4>1, NearestIs DEF IsNearest
      <4>3. IsNearest(z, value, K + k)
        <5>1. \A j \in 1..L : j < k => value[y[j]] = None
          BY <4>1 DEF IsNearest
        <5>2. ASSUME NEW j \in 1..(K + L), j < K + k
              PROVE  value[z[j]] = None
          <6>1. CASE j \in 1..K
            BY <2>2, <2>5, <6>1
          <6>2. CASE \E i \in 1..L : j = K + i
            <7>1. PICK i \in 1..L : j = K + i
              BY <6>2
            <7>2. i < k
              BY <2>1, <4>2, <5>2, <7>1
            <7> HIDE DEF K, L
            <7> QED
              BY <2>2, <5>1, <7>1, <7>2
          <6> QED
            BY <2>3, <6>1, <6>2
        <5> HIDE DEF K, L
        <5> QED
          BY <2>1, <2>2, <4>2, <5>2 DEF IsNearest
      <4>4. NearestIn(z, value) = value[z[K + k]]
        BY <2>1, <4>3, NearestIs
      <4>5. z[K + k] = y[k]
        BY <2>2, <4>2
      <4> QED
        BY <3>1, <4>2, <4>4, <4>5 DEF z, P!Conf!OrBase
    <3> QED
      BY <3>2, <3>3, NearestIs
  <2> QED
    BY <2>4, <2>5, NearestIs
<1> QED
  BY <1>1, <1>2

(* What is put behind a sequence is where the whole ends. *)
LEMMA EndsWith ==
  ASSUME NEW V, NEW x \in Seq(V), NEW s \in Seq(V)
  PROVE  IsSuffix(s, x \o s)
<1> DEFINE t == x \o s
           K == Len(x)
           L == Len(s)
           r == Reverse(s)
           q == Reverse(t)
           cut == SubSeq(q, 1, L)
<1>1. /\ K \in Nat /\ L \in Nat /\ t \in Seq(V) /\ Len(t) = K + L
      /\ \A i \in 1..(K + L) : t[i] = IF i <= K THEN x[i] ELSE s[i - K]
  BY ConcatProperties
<1>2. /\ r \in Seq(V) /\ Len(r) = L /\ \A i \in 1..L : r[i] = s[(L - i) + 1]
      /\ q \in Seq(V) /\ Len(q) = Len(t)
      /\ \A i \in 1..Len(t) : q[i] = t[(Len(t) - i) + 1]
  <2>1. \A z \in Seq(V) : /\ Reverse(z) \in Seq(V) /\ Len(Reverse(z)) = Len(z)
                         /\ \A i \in 1..Len(z) : Reverse(z)[i] = z[(Len(z) - i) + 1]
    <3> SUFFICES ASSUME NEW z \in Seq(V)
                 PROVE  /\ Reverse(z) \in Seq(V) /\ Len(Reverse(z)) = Len(z)
                        /\ \A i \in 1..Len(z) : Reverse(z)[i] = z[(Len(z) - i) + 1]
      OBVIOUS
    <3> DEFINE n == Len(z)
    <3>1. n \in Nat /\ \A i \in 1..n : (n - i) + 1 \in 1..n /\ z[(n - i) + 1] \in V
      OBVIOUS
    <3>2. Reverse(z) = [i \in 1..n |-> z[(n - i) + 1]]
      BY DEF Reverse
    <3> HIDE DEF n
    <3>3. Reverse(z) \in [1..n -> V]
      BY <3>1, <3>2
    <3>4. Reverse(z) \in Seq(V) /\ Len(Reverse(z)) = n
      BY <3>1, <3>3
    <3> QED
      BY <3>2, <3>4 DEF n
  <2> HIDE DEF t
  <2> QED
    BY <1>1, <2>1
<1> HIDE DEF t, K, L, r, q
<1>3. \A i \in 1..L : q[i] = r[i]
  <2> SUFFICES ASSUME NEW i \in 1..L
               PROVE  q[i] = r[i]
    OBVIOUS
  <2>1. /\ i \in 1..(K + L) /\ ((K + L) - i) + 1 \in 1..(K + L)
        /\ ~(((K + L) - i) + 1 <= K) /\ (((K + L) - i) + 1) - K = (L - i) + 1
    BY <1>1
  <2>2. q[i] = t[((K + L) - i) + 1]
    BY <1>1, <1>2, <2>1
  <2>3. t[((K + L) - i) + 1] = s[(L - i) + 1]
    BY <1>1, <2>1
  <2> QED
    BY <1>2, <2>2, <2>3
<1>4. L <= Len(q) /\ Len(q) \in Nat /\ \A i \in 1..L : i \in 1..Len(q)
  BY <1>1, <1>2
<1>5. cut \in Seq(V) /\ Len(cut) = L /\ \A i \in 1..L : cut[i] = q[i]
  <2>1. \A i \in 1..L : q[i] \in V
    BY <1>2, <1>4
  <2>2. cut = [i \in 1..L |-> q[i]]
    BY <1>1, <1>2, <1>4
  <2> HIDE DEF cut
  <2>3. cut \in [1..L -> V]
    BY <2>1, <2>2
  <2> QED
    BY <1>1, <2>2, <2>3
<1>6. \A i \in 1..L : r[i] = q[i] /\ q[i] = q[(1 + i) - 1]
  BY <1>1, <1>3
<1>7. SubSeq(r, 1, L) = r
  BY <1>1, <1>2
<1> HIDE DEF cut
<1>8. r = cut
  BY <1>2, <1>3, <1>5, SeqEqual
<1>9. IsPrefix(r, q)
  BY <1>2, <1>4, <1>7, <1>8 DEF IsPrefix, cut
<1> QED
  BY <1>9 DEF IsSuffix, r, q, t

(* The entries of a line are those of its files, those of the first last.  *)
LEMMA EntriesCollect ==
  ASSUME NEW V, NEW N, NEW entries \in [N -> Seq(V)], NEW line \in Seq(N), line # <<>>
  PROVE  /\ ToSet(EntriesOf(line, entries)) = UNION {ToSet(entries[n]) : n \in ToSet(line)}
         /\ IsSuffix(entries[line[1]], EntriesOf(line, entries))
<1> DEFINE L == Len(line)
           back == Reverse(line)
           each == LinesOf(back, entries)
<1>1. L \in Nat /\ L # 0 /\ 1 \in 1..L /\ \A i \in 1..L : line[i] \in N
  <2>1. L = 0 => line = <<>>
    OBVIOUS
  <2> QED
    BY <2>1
<1>2. back \in Seq(N) /\ Len(back) = L /\ \A i \in 1..L : back[i] = line[(L - i) + 1]
  <2>1. \A i \in 1..L : (L - i) + 1 \in 1..L
    BY <1>1
  <2>2. back = [i \in 1..L |-> line[(L - i) + 1]]
    BY DEF Reverse
  <2> HIDE DEF L, back
  <2>3. back \in [1..L -> N]
    BY <1>1, <2>1, <2>2
  <2> QED
    BY <1>1, <2>2, <2>3
<1> HIDE DEF L, back
<1>3. /\ each \in Seq(Seq(V)) /\ Len(each) = L
      /\ \A k \in 1..L : each[k] = entries[back[k]]
  BY <1>2, LinesOfBases
<1> HIDE DEF each
<1>4. \A v : v \in ToSet(EntriesOf(line, entries)) <=> \E i \in 1..L : v \in ToSet(each[i])
  <2>1. EntriesOf(line, entries) = FlattenSeq(each)
    BY DEF EntriesOf, each, back
  <2> QED
    BY <1>3, <2>1, FlattenNames
<1>5. ToSet(line) = {line[i] : i \in 1..L}
  BY DEF ToSet, L
<1>6. ASSUME NEW v, v \in ToSet(EntriesOf(line, entries))
      PROVE  v \in UNION {ToSet(entries[n]) : n \in ToSet(line)}
  <2>1. PICK i \in 1..L : v \in ToSet(each[i])
    BY <1>4, <1>6
  <2>2. (L - i) + 1 \in 1..L /\ each[i] = entries[line[(L - i) + 1]]
    BY <1>1, <1>2, <1>3
  <2> QED
    BY <1>5, <2>1, <2>2
<1>7. ASSUME NEW n \in ToSet(line), NEW v \in ToSet(entries[n])
      PROVE  v \in ToSet(EntriesOf(line, entries))
  <2>1. PICK i \in 1..L : n = line[i]
    BY <1>5
  <2>2. (L - i) + 1 \in 1..L /\ (L - ((L - i) + 1)) + 1 = i
    BY <1>1
  <2>3. each[(L - i) + 1] = entries[n]
    BY <1>2, <1>3, <2>1, <2>2
  <2> QED
    BY <1>4, <2>2, <2>3
<1>8. IsSuffix(entries[line[1]], EntriesOf(line, entries))
  <2> DEFINE first == line[1]
             one == <<first>>
             rest == Tail(line)
  <2>1. first \in N /\ one \in Seq(N) /\ rest \in Seq(N)
    <3>1. rest \in Seq(N)
      BY <1>1, HeadTailProperties
    <3> QED
      BY <1>1, <3>1
  <2>2. line = one \o rest
    <3> DEFINE z == one \o rest
    <3>1. /\ Len(one) = 1 /\ one[1] = first /\ Len(rest) = L - 1
          /\ \A i \in 1..(L - 1) : rest[i] = line[i + 1]
      BY <1>1 DEF L
    <3>2. /\ z \in Seq(N) /\ Len(z) = Len(one) + Len(rest)
          /\ \A i \in 1..(Len(one) + Len(rest)) :
                z[i] = IF i <= Len(one) THEN one[i] ELSE rest[i - Len(one)]
      <4> HIDE DEF one, rest
      <4> QED
        BY <2>1, ConcatProperties
    <3>3. 1 + (L - 1) = L
      BY <1>1
    <3> HIDE DEF one, rest, z, first
    <3>4. Len(z) = L /\ \A i \in 1..L : z[i] = IF i <= 1 THEN one[i] ELSE rest[i - 1]
      BY <3>1, <3>2, <3>3
    <3>5. ASSUME NEW i \in 1..L
          PROVE  line[i] = z[i]
      <4>1. CASE i = 1
        BY <1>1, <3>1, <3>4, <4>1 DEF first
      <4>2. CASE i # 1
        <5>1. i - 1 \in 1..(L - 1) /\ (i - 1) + 1 = i /\ ~(i <= 1)
          BY <1>1, <4>2
        <5> QED
          BY <3>1, <3>4, <5>1
      <4> QED
        BY <4>1, <4>2
    <3>6. line = z
      BY <3>2, <3>4, <3>5, SeqEqual DEF L
    <3> QED
      BY <3>6 DEF z
  <2>3. /\ EntriesOf(one, entries) = entries[first]
        /\ EntriesOf(one \o rest, entries) = EntriesOf(rest, entries) \o EntriesOf(one, entries)
        /\ EntriesOf(rest, entries) \in Seq(V)
    <3>1. /\ \A n \in N : EntriesOf(<<n>>, entries) = entries[n]
          /\ \A x, y \in Seq(N) :
                EntriesOf(x \o y, entries) = EntriesOf(y, entries) \o EntriesOf(x, entries)
          /\ \A x \in Seq(N) : EntriesOf(x, entries) \in Seq(V)
      BY EntriesAddUp
    <3> HIDE DEF rest
    <3> QED
      BY <2>1, <3>1, Zenon
  <2>4. entries[first] \in Seq(V)
    BY <2>1
  <2> HIDE DEF first, one, rest
  <2>5. EntriesOf(line, entries) = EntriesOf(rest, entries) \o entries[first]
    BY <2>2, <2>3, Zenon
  <2>6. IsSuffix(entries[first], EntriesOf(rest, entries) \o entries[first])
    BY <2>3, <2>4, EndsWith
  <2> QED
    BY <2>5, <2>6 DEF first
<1> QED
  BY <1>6, <1>7, <1>8

(* What decides for a line of lines decides for one of them. *)
LEMMA NearestOfSome ==
  ASSUME NEW N, NEW value, NEW seqs \in Seq(Seq(N)),
         NearestIn(FlattenSeq(seqs), value) # None
  PROVE  \E k \in 1..Len(seqs) :
            NearestIn(seqs[k], value) = NearestIn(FlattenSeq(seqs), value)
<1> DEFINE L == Len(seqs)
<1>1. PICK p : AddsUp(p, seqs, N)
  BY FlattenAddsUp
<1>2. FlattenSeq(seqs) = p[L]
  BY <1>1, FlattenAddsUp
<1>3. /\ p \in [0..L -> Seq(N)] /\ p[0] = <<>>
      /\ \A i \in 1..L : p[i] = p[i - 1] \o seqs[i]
  BY <1>1 DEF AddsUp
<1>4. L \in Nat /\ \A i \in 1..L : seqs[i] \in Seq(N)
  OBVIOUS
<1> HIDE DEF L
<1> DEFINE near(s) == NearestIn(s, value)
           S == {i \in 0..L : near(p[i]) # None => \E k \in 1..i : near(seqs[k]) = near(p[i])}
<1>5. \A x, y \in Seq(N) : near(x \o y) = P!Conf!OrBase(near(x), near(y))
  BY NearestAddsUp
<1>6. near(<<>>) = None
  <2> DEFINE e == <<>>
  <2>1. e \in Seq(N) /\ Len(e) = 0
    OBVIOUS
  <2> HIDE DEF e
  <2>2. \A k \in 1..Len(e) : value[e[k]] = None
    BY <2>1
  <2>3. NearestIn(e, value) = None
    BY <2>1, <2>2, NearestIs
  <2> QED
    BY <2>3 DEF e
<1> HIDE DEF near
<1>7. 0 \in S
  <2>1. near(p[0]) = None
    BY <1>3, <1>6, Zenon
  <2> QED
    BY <1>4, <2>1
<1>8. ASSUME NEW i \in 0..(L - 1), i \in S
      PROVE  i + 1 \in S
  <2>1. i + 1 \in 1..L /\ i + 1 \in 0..L /\ (i + 1) - 1 = i /\ i \in 0..L
    BY <1>4
  <2>2. /\ p[i] \in Seq(N) /\ seqs[i + 1] \in Seq(N)
        /\ p[i + 1] = p[i] \o seqs[i + 1]
    BY <1>3, <1>4, <2>1
  <2>3. near(p[i + 1]) = P!Conf!OrBase(near(p[i]), near(seqs[i + 1]))
    BY <1>5, <2>2, Zenon
  <2>4. \/ near(p[i + 1]) = near(seqs[i + 1])
        \/ near(p[i]) # None /\ near(p[i + 1]) = near(p[i])
    BY <2>3 DEF P!Conf!OrBase
  <2>5. \A k \in 1..i : k \in 1..(i + 1)
    BY <1>4
  <2>6. i + 1 \in 1..(i + 1)
    BY <1>4
  <2> QED
    BY <1>8, <2>1, <2>4, <2>5, <2>6
<1> HIDE DEF S
<1>9. 0..L \subseteq S
  BY <1>4, <1>7, <1>8, InductionUpTo
<1>10. L \in S
  BY <1>4, <1>9
<1> QED
  BY <1>2, <1>10 DEF S, near, L

(* What is nearest on the line of a file is what one of its deciders says: *)
(* nothing between the two says anything.                                  *)
LEMMA NearestDecides ==
  ASSUME NEW disk, NEW T, NEW V, NEW W, AreTexts(disk, T, V, W), NEW value,
         NEW K \in Nat, NEW down, Lines(down, disk, K), NEW start \in DOMAIN disk,
         ToSet(down[K][start]) \subseteq Usable(disk),
         NearestIn(down[K][start], value) # None
  PROVE  \E n \in Deciders(disk, start, value) :
            NearestIn(down[K][start], value) = value[n]
<1> DEFINE D == DOMAIN disk
           U == Usable(disk)
           near(line) == NearestIn(line, value)
           by(n) == Deciders(disk, n, value)
           found(line, n) == ToSet(line) \subseteq U /\ near(line) # None
                                => \E m \in by(n) : near(line) = value[m]
           S == {d \in 0..K : \A n \in D : found(down[d][n], n)}
           silent == Silent(disk, value)
<1>1. IsFiniteSet(D) /\ silent \in [D -> SUBSET D] /\ U \subseteq D
  BY BasesAreFiles DEF AreTexts, Usable
<1>2. /\ down \in [0..K -> [D -> Seq(D)]]
      /\ down[0] = [n \in D |-> <<n>>]
      /\ \A d \in 1..K : down[d] = [n \in D |-> LineOf(disk, down[d - 1], n)]
  BY DEF Lines
<1>3. /\ \A n \in D : near(<<n>>) = value[n]
      /\ \A x, y \in Seq(D) : near(x \o y) = P!Conf!OrBase(near(x), near(y))
  <2> HIDE DEF D
  <2> QED
    BY NearestAddsUp
<1>4. \A n \in U : value[n] # None => n \in by(n)
  <2>1. \A n \in D : n \in LedTo(n, silent)
    BY <1>1, LedToIs
  <2> QED
    BY <1>1, <2>1 DEF Deciders
<1>5. ASSUME NEW n \in U, value[n] = None, NEW b \in BasesIn(disk)[n]
      PROVE  b \in D /\ by(b) \subseteq by(n)
  <2>1. b \in silent[n]
    BY <1>1, <1>5 DEF Silent
  <2>2. b \in D /\ LedTo(b, silent) \subseteq LedTo(n, silent)
    <3> HIDE DEF silent, D
    <3> QED
      BY <1>1, <2>1, LedToIs
  <2> QED
    BY <2>2 DEF Deciders
<1> HIDE DEF silent, near, by
<1>6. 0 \in S
  <2>1. ASSUME NEW n \in D
        PROVE  found(<<n>>, n)
    <3>1. ToSet(<<n>>) = {n}
      BY DEF ToSet
    <3> QED
      BY <1>3, <1>4, <3>1
  <2>2. 0 \in 0..K /\ \A n \in D : down[0][n] = <<n>>
    BY <1>2
  <2> HIDE DEF found
  <2> QED
    BY <2>1, <2>2
<1>7. ASSUME NEW d \in 0..(K - 1), d \in S
      PROVE  d + 1 \in S
  <2>1. d + 1 \in 0..K /\ d + 1 \in 1..K /\ (d + 1) - 1 = d /\ d \in 0..K
    OBVIOUS
  <2>2. down[d] \in [D -> Seq(D)]
    BY <1>2, <2>1
  <2>3. \A n \in D : down[d + 1][n] = LineOf(disk, down[d], n)
    <3>1. down[d + 1] = [m \in D |-> LineOf(disk, down[(d + 1) - 1], m)]
      BY <1>2, <2>1, Zenon
    <3>2. down[d + 1] = [m \in D |-> LineOf(disk, down[d], m)]
      BY <2>1, <3>1, Zenon
    <3> QED
      BY <3>2, Zenon
  <2>4. ASSUME NEW n \in D, ToSet(LineOf(disk, down[d], n)) \subseteq U,
               near(LineOf(disk, down[d], n)) # None
        PROVE  \E m \in by(n) : near(LineOf(disk, down[d], n)) = value[m]
    <3> DEFINE e == disk[n].extends
               each == LinesOf(e, down[d])
               one == <<n>>
               line == LineOf(disk, down[d], n)
    <3>1. ToSet(line) = {n} \cup UNION {ToSet(down[d][b]) : b \in BasesIn(disk)[n]}
      BY <2>2, LineTyped
    <3>2. n \in U
      BY <2>4, <3>1
    <3>3. e \in Seq(D) /\ BasesIn(disk)[n] = ToSet(e)
      BY <3>2, TextsAre
    <3>4. /\ each \in Seq(Seq(D)) /\ Len(each) = Len(e)
          /\ \A k \in 1..Len(e) : each[k] = down[d][e[k]]
      <4> HIDE DEF e
      <4> QED
        BY <2>2, <3>3, LinesOfBases
    <3>5. line = one \o FlattenSeq(each)
      BY <3>2 DEF LineOf
    <3> HIDE DEF each, e, line
    <3>6. one \in Seq(D) /\ FlattenSeq(each) \in Seq(D)
      BY <3>4, FlattenAddsUp
    <3>7. near(one) = value[n]
      BY <1>3
    <3> HIDE DEF one
    <3>8. near(line) = P!Conf!OrBase(value[n], near(FlattenSeq(each)))
      <4>1. near(one \o FlattenSeq(each)) = P!Conf!OrBase(near(one), near(FlattenSeq(each)))
        BY <1>3, <3>6, Zenon
      <4> QED
        BY <3>5, <3>7, <4>1, Zenon
    <3>9. near(line) # None
      BY <2>4 DEF line
    <3>10. CASE value[n] # None
      <4>1. near(line) = value[n]
        BY <3>8, <3>10 DEF P!Conf!OrBase
      <4>2. n \in by(n)
        BY <1>4, <3>2, <3>10
      <4> QED
        BY <4>1, <4>2 DEF line
    <3>11. CASE value[n] = None
      <4>1. near(line) = near(FlattenSeq(each))
        BY <3>8, <3>11 DEF P!Conf!OrBase
      <4>2. PICK k \in 1..Len(each) : near(each[k]) = near(FlattenSeq(each))
        <5>1. NearestIn(FlattenSeq(each), value) # None
          BY <3>9, <4>1 DEF near
        <5>2. each \in Seq(Seq(D))
          BY <3>4
        <5> HIDE DEF D
        <5>3. \E k \in 1..Len(each) :
                NearestIn(each[k], value) = NearestIn(FlattenSeq(each), value)
          BY <5>1, <5>2, NearestOfSome
        <5> QED
          BY <5>3 DEF near
      <4> DEFINE b == e[k]
      <4>3. b \in ToSet(e) /\ each[k] = down[d][b]
        <5>1. k \in 1..Len(e)
          BY <3>4, <4>2
        <5>2. each[k] = down[d][e[k]]
          BY <3>4, <5>1, Zenon
        <5>3. DOMAIN e = 1..Len(e)
          BY <3>3
        <5> QED
          BY <5>1, <5>2, <5>3 DEF ToSet
      <4> HIDE DEF b
      <4>4. b \in BasesIn(disk)[n] /\ ToSet(down[d][b]) \subseteq U
        BY <2>4, <3>1, <3>3, <4>3 DEF line
      <4>5. b \in D /\ by(b) \subseteq by(n)
        BY <1>5, <3>2, <3>11, <4>4
      <4>6. found(down[d][b], b)
        BY <1>7, <4>5
      <4>7. near(down[d][b]) = near(line)
        BY <4>1, <4>2, <4>3
      <4>8. \E m \in by(b) : near(line) = value[m]
        BY <3>9, <4>4, <4>6, <4>7
      <4> QED
        BY <4>5, <4>8 DEF line
    <3> QED
      BY <3>10, <3>11
  <2> QED
    BY <2>1, <2>3, <2>4
<1> HIDE DEF S, found
<1>8. 0..K \subseteq S
  BY <1>6, <1>7, InductionUpTo
<1>9. K \in S
  BY <1>8
<1>10. found(down[K][start], start)
  BY <1>9 DEF S
<1> QED
  BY <1>10 DEF found, near, by

-----------------------------------------------------------------------------
(* A configuration in which the nearest file decides: every section, every *)
(* toggle and every list, the toggles that are not merged with the whole   *)
(* of the nearest section.                                                 *)
SettingsOf(c, line, disk, T, W) ==
    /\ \A f \in P!Conf!Sections : c.sections[f] = NearestIn(line, SectionIn(disk, f))
    /\ c.frameworks \in {None} \cup [T -> W]
    /\ c.frameworks = None <=> NearestIn(line, FrameworksIn(disk)) = None
    /\ c.frameworks # None => \A t \in T : c.frameworks[t] =
            IF t \in P!Conf!Toggles THEN NearestIn(line, ToggleIn(disk, t))
            ELSE NearestIn(line, FrameworksIn(disk))[t]

ListsOf(c, line, disk, V) ==
    /\ \A l \in P!Conf!Lists : c.lists[l] = EntriesOf(line, EntriesIn(disk, l))
    /\ c.rules \in {None} \cup [P!Conf!RuleLists -> Seq(V)]
    /\ \A l \in P!Conf!RuleLists :
            (IF c.rules = None THEN <<>> ELSE c.rules[l]) = EntriesOf(line, RulesIn(disk, l))

Describes(c, line, disk, T, V, W) ==
    /\ line \in Seq(Usable(disk))
    /\ {"lists", "sections", "rules", "frameworks"} \subseteq DOMAIN c
    /\ SettingsOf(c, line, disk, T, W)
    /\ ListsOf(c, line, disk, V)

(* The entries of the lists of a text *)
LEMMA EntriesTyped ==
  ASSUME NEW disk, NEW T, NEW V, NEW W, AreTexts(disk, T, V, W)
  PROVE  /\ \A l \in P!Conf!Lists : EntriesIn(disk, l) \in [Usable(disk) -> Seq(V)]
         /\ \A l \in P!Conf!RuleLists : RulesIn(disk, l) \in [Usable(disk) -> Seq(V)]
<1> DEFINE Q == Seq(V)
           U == Usable(disk)
<1>1. ASSUME NEW n \in U
      PROVE  /\ disk[n].lists \in [P!Conf!Lists -> Q]
             /\ disk[n].rules \in {None} \cup [P!Conf!RuleLists -> Q]
  BY TextsAre
<1>2. <<>> \in Q
  OBVIOUS
<1> HIDE DEF Q
<1>3. ASSUME NEW l \in P!Conf!Lists
      PROVE  EntriesIn(disk, l) \in [U -> Q]
  <2>1. \A n \in U : disk[n].lists[l] \in Q
    BY <1>1
  <2> QED
    BY <2>1 DEF EntriesIn
<1>4. ASSUME NEW l \in P!Conf!RuleLists
      PROVE  RulesIn(disk, l) \in [U -> Q]
  <2>1. \A n \in U : disk[n].rules # None => disk[n].rules[l] \in Q
    BY <1>1
  <2> QED
    BY <1>2, <2>1 DEF RulesIn
<1> QED
  BY <1>3, <1>4 DEF Q

(* A file alone describes the line of that file. *)
LEMMA OneFileDescribes ==
  ASSUME NEW disk, NEW T, NEW V, NEW W, AreTexts(disk, T, V, W), NEW n \in Usable(disk)
  PROVE  Describes([disk[n] EXCEPT !.extends = <<>>], <<n>>, disk, T, V, W)
<1> DEFINE t == disk[n]
           c == [t EXCEPT !.extends = <<>>]
           line == <<n>>
<1>1. /\ DOMAIN t = {"extends", "lists", "sections", "rules", "frameworks", "own"}
      /\ t.lists \in [P!Conf!Lists -> Seq(V)]
      /\ t.sections \in [P!Conf!Sections -> W]
      /\ t.rules \in {None} \cup [P!Conf!RuleLists -> Seq(V)]
      /\ t.frameworks \in {None} \cup [T -> W]
  BY TextsAre
<1> HIDE DEF t
<1>2. /\ DOMAIN c = DOMAIN t /\ c.lists = t.lists /\ c.sections = t.sections
      /\ c.rules = t.rules /\ c.frameworks = t.frameworks
  BY <1>1
<1> HIDE DEF c
<1>3. line \in Seq(Usable(disk))
  OBVIOUS
<1>4. \A value : NearestIn(line, value) = value[n]
  BY NearestAddsUp
<1>5. \A entries \in [Usable(disk) -> Seq(V)] : EntriesOf(line, entries) = entries[n]
  BY EntriesAddUp
<1> HIDE DEF line
<1>6. SettingsOf(c, line, disk, T, W)
  <2>1. \A f \in P!Conf!Sections : c.sections[f] = NearestIn(line, SectionIn(disk, f))
    BY <1>2, <1>4 DEF SectionIn, t
  <2>2. NearestIn(line, FrameworksIn(disk)) = t.frameworks
    BY <1>4 DEF FrameworksIn, t
  <2>3. \A i \in T : t.frameworks # None => NearestIn(line, ToggleIn(disk, i)) = t.frameworks[i]
    BY <1>4 DEF ToggleIn, t
  <2> QED
    BY <1>1, <1>2, <2>1, <2>2, <2>3 DEF SettingsOf
<1>7. ListsOf(c, line, disk, V)
  <2>1. ASSUME NEW l \in P!Conf!Lists
        PROVE  c.lists[l] = EntriesOf(line, EntriesIn(disk, l))
    <3>1. EntriesIn(disk, l) \in [Usable(disk) -> Seq(V)]
      BY <2>1, EntriesTyped
    <3>2. EntriesIn(disk, l)[n] = t.lists[l]
      BY DEF EntriesIn, t
    <3> QED
      BY <1>2, <1>5, <3>1, <3>2
  <2>2. ASSUME NEW l \in P!Conf!RuleLists
        PROVE  (IF c.rules = None THEN <<>> ELSE c.rules[l]) = EntriesOf(line, RulesIn(disk, l))
    <3>1. RulesIn(disk, l) \in [Usable(disk) -> Seq(V)]
      BY <2>2, EntriesTyped
    <3>2. RulesIn(disk, l)[n] = IF t.rules = None THEN <<>> ELSE t.rules[l]
      BY DEF RulesIn, t
    <3> QED
      BY <1>2, <1>5, <3>1, <3>2
  <2> QED
    BY <1>1, <1>2, <2>1, <2>2 DEF ListsOf
<1>8. Describes(c, line, disk, T, V, W)
  BY <1>1, <1>2, <1>3, <1>6, <1>7 DEF Describes
<1> QED
  BY <1>8 DEF c, line, t

(* Two configurations are merged into that of the two lines, one behind    *)
(* the other (merge.rs:9).                                                 *)
LEMMA MergedDescribes ==
  ASSUME NEW disk, NEW T, NEW V, NEW W, AreTexts(disk, T, V, W),
         NEW self, NEW x, Describes(self, x, disk, T, V, W),
         NEW base, NEW y, Describes(base, y, disk, T, V, W)
  PROVE  Describes(P!Conf!Merged(self, base), x \o y, disk, T, V, W)
<1> DEFINE c == P!Conf!Merged(self, base)
           line == x \o y
           U == Usable(disk)
<1>1. /\ x \in Seq(U) /\ y \in Seq(U)
      /\ {"lists", "sections", "rules", "frameworks"} \subseteq DOMAIN self
      /\ SettingsOf(self, x, disk, T, W) /\ ListsOf(self, x, disk, V)
      /\ SettingsOf(base, y, disk, T, W) /\ ListsOf(base, y, disk, V)
  BY DEF Describes
<1>2. /\ DOMAIN c = DOMAIN self
      /\ c.lists = [f \in P!Conf!Lists |-> base.lists[f] \o self.lists[f]]
      /\ c.sections = [f \in P!Conf!Sections |->
                            P!Conf!OrBase(self.sections[f], base.sections[f])]
      /\ c.rules = P!Conf!MergedRules(self.rules, base.rules)
      /\ c.frameworks = P!Conf!MergedFrameworks(self.frameworks, base.frameworks)
  BY <1>1 DEF P!Conf!Merged
<1> HIDE DEF c
<1>3. line \in Seq(U)
  BY <1>1, ConcatProperties
<1>4. \A value : NearestIn(line, value) = P!Conf!OrBase(NearestIn(x, value), NearestIn(y, value))
  BY <1>1, NearestAddsUp
<1>5. \A entries \in [U -> Seq(V)] :
            EntriesOf(line, entries) = EntriesOf(y, entries) \o EntriesOf(x, entries)
  <2> SUFFICES ASSUME NEW entries \in [U -> Seq(V)]
               PROVE  EntriesOf(line, entries) = EntriesOf(y, entries) \o EntriesOf(x, entries)
    OBVIOUS
  <2>1. \A u, w \in Seq(U) :
            EntriesOf(u \o w, entries) = EntriesOf(w, entries) \o EntriesOf(u, entries)
    <3> HIDE DEF U
    <3> QED
      BY EntriesAddUp
  <2> QED
    BY <1>1, <2>1, Zenon
<1>6. \A z \in Seq(U) : NearestIn(z, FrameworksIn(disk)) = None =>
            \A t : NearestIn(z, ToggleIn(disk, t)) = None
  <2> SUFFICES ASSUME NEW z \in Seq(U), NearestIn(z, FrameworksIn(disk)) = None, NEW t
               PROVE  NearestIn(z, ToggleIn(disk, t)) = None
    OBVIOUS
  <2>1. \A k \in 1..Len(z) : FrameworksIn(disk)[z[k]] = None
    BY NearestIs
  <2>2. \A k \in 1..Len(z) : z[k] \in U
    OBVIOUS
  <2>3. \A k \in 1..Len(z) : ToggleIn(disk, t)[z[k]] = None
    BY <2>1, <2>2 DEF FrameworksIn, ToggleIn
  <2> QED
    BY <2>3, NearestIs
<1> HIDE DEF line, U
<1>7. SettingsOf(c, line, disk, T, W)
  <2> DEFINE fx == NearestIn(x, FrameworksIn(disk))
             fy == NearestIn(y, FrameworksIn(disk))
             tx(t) == NearestIn(x, ToggleIn(disk, t))
             ty(t) == NearestIn(y, ToggleIn(disk, t))
             own == self.frameworks
             its == base.frameworks
             new == c.frameworks
  <2>1. \A f \in P!Conf!Sections : c.sections[f] = NearestIn(line, SectionIn(disk, f))
    <3> SUFFICES ASSUME NEW f \in P!Conf!Sections
                 PROVE  c.sections[f] = NearestIn(line, SectionIn(disk, f))
      OBVIOUS
    <3>1. /\ self.sections[f] = NearestIn(x, SectionIn(disk, f))
          /\ base.sections[f] = NearestIn(y, SectionIn(disk, f))
      BY <1>1 DEF SettingsOf
    <3>2. c.sections[f] = P!Conf!OrBase(self.sections[f], base.sections[f])
      BY <1>2
    <3> QED
      BY <1>4, <3>1, <3>2
  <2>2. /\ own \in {None} \cup [T -> W] /\ (own = None <=> fx = None)
        /\ own # None => \A t \in T : own[t] = IF t \in P!Conf!Toggles THEN tx(t) ELSE fx[t]
    BY <1>1 DEF SettingsOf
  <2>3. /\ its \in {None} \cup [T -> W] /\ (its = None <=> fy = None)
        /\ its # None => \A t \in T : its[t] = IF t \in P!Conf!Toggles THEN ty(t) ELSE fy[t]
    BY <1>1 DEF SettingsOf
  <2>4. /\ fx = None => \A t : tx(t) = None
        /\ fy = None => \A t : ty(t) = None
    BY <1>1, <1>6
  <2>5. /\ NearestIn(line, FrameworksIn(disk)) = P!Conf!OrBase(fx, fy)
        /\ \A t : NearestIn(line, ToggleIn(disk, t)) = P!Conf!OrBase(tx(t), ty(t))
    BY <1>4
  <2>6. None \notin [T -> W]
    BY DEF AreTexts
  <2>7. new = P!Conf!MergedFrameworks(own, its)
    BY <1>2
  <2> HIDE DEF fx, fy, tx, ty, own, its, new
  <2> DEFINE toggles == P!Conf!Toggles
             said(t) == IF t \in toggles THEN P!Conf!OrBase(tx(t), ty(t))
                          ELSE P!Conf!OrBase(fx, fy)[t]
  <2>8. /\ new \in {None} \cup [T -> W]
        /\ new = None <=> P!Conf!OrBase(fx, fy) = None
        /\ new # None => \A t \in T : new[t] = said(t)
    <3> HIDE DEF toggles
    <3>1. CASE own = None
      BY <2>2, <2>3, <2>4, <2>7, <3>1 DEF P!Conf!MergedFrameworks, P!Conf!OrBase, toggles
    <3>2. CASE own # None /\ its = None
      <4>1. new = own
        BY <2>7, <3>2 DEF P!Conf!MergedFrameworks, P!Conf!OrBase
      <4>2. \A t : P!Conf!OrBase(tx(t), ty(t)) = tx(t)
        BY <2>3, <2>4, <3>2 DEF P!Conf!OrBase
      <4>3. P!Conf!OrBase(fx, fy) = fx
        BY <2>2, <3>2 DEF P!Conf!OrBase
      <4> QED
        BY <2>2, <3>2, <4>1, <4>2, <4>3 DEF toggles
    <3>3. CASE own # None /\ its # None
      <4>1. own \in [T -> W] /\ its \in [T -> W]
        BY <2>2, <2>3, <3>3
      <4>2. new = [t \in T |-> IF t \in toggles THEN P!Conf!OrBase(own[t], its[t]) ELSE own[t]]
        BY <2>7, <3>3, <4>1 DEF P!Conf!MergedFrameworks, toggles
      <4>3. \A t \in T : /\ own[t] \in W /\ its[t] \in W
                         /\ P!Conf!OrBase(own[t], its[t]) \in W
        BY <4>1 DEF P!Conf!OrBase
      <4>4. new \in [T -> W]
        BY <4>2, <4>3
      <4>5. P!Conf!OrBase(fx, fy) = fx /\ fx # None
        BY <2>2, <3>3 DEF P!Conf!OrBase
      <4>6. ASSUME NEW t \in T
            PROVE  new[t] = said(t)
        <5>1. CASE t \in toggles
          <6>1. own[t] = tx(t) /\ its[t] = ty(t)
            BY <2>2, <2>3, <3>3, <5>1 DEF toggles
          <6> QED
            BY <4>2, <5>1, <6>1
        <5>2. CASE t \notin toggles
          <6>1. own[t] = fx[t]
            BY <2>2, <3>3, <5>2 DEF toggles
          <6> QED
            BY <4>2, <4>5, <5>2, <6>1
        <5> QED
          BY <5>1, <5>2
      <4> HIDE DEF said
      <4> QED
        BY <2>6, <4>4, <4>5, <4>6
    <3> QED
      BY <3>1, <3>2, <3>3
  <2> QED
    BY <2>1, <2>5, <2>8 DEF SettingsOf, new
<1>8. ListsOf(c, line, disk, V)
  <2> DEFINE Q == Seq(V)
  <2>1. ASSUME NEW l \in P!Conf!Lists
        PROVE  c.lists[l] = EntriesOf(line, EntriesIn(disk, l))
    <3>1. EntriesIn(disk, l) \in [U -> Seq(V)]
      BY EntriesTyped DEF U
    <3>2. /\ self.lists[l] = EntriesOf(x, EntriesIn(disk, l))
          /\ base.lists[l] = EntriesOf(y, EntriesIn(disk, l))
      BY <1>1 DEF ListsOf
    <3> QED
      BY <1>2, <1>5, <3>1, <3>2
  <2>2. /\ self.rules \in {None} \cup [P!Conf!RuleLists -> Q]
        /\ base.rules \in {None} \cup [P!Conf!RuleLists -> Q]
        /\ None \notin [P!Conf!RuleLists -> Q]
    BY <1>1 DEF ListsOf, AreTexts
  <2>3. \A s, t \in Q : s \o t \in Q
    BY ConcatProperties
  <2>4. \A s \in Q : s \o <<>> = s /\ <<>> \o s = s
    BY ConcatEmptySeq
  <2>5. <<>> \in Q
    OBVIOUS
  <2> DEFINE rules(d, l) == IF d.rules = None THEN <<>> ELSE d.rules[l]
             own == self.rules
             its == base.rules
             new == c.rules
  <2>6. new = P!Conf!MergedRules(own, its)
    BY <1>2
  <2>7. ASSUME NEW l \in P!Conf!RuleLists
        PROVE  EntriesOf(line, RulesIn(disk, l)) = rules(base, l) \o rules(self, l)
    <3>1. RulesIn(disk, l) \in [U -> Seq(V)]
      BY EntriesTyped DEF U
    <3>2. /\ rules(self, l) = EntriesOf(x, RulesIn(disk, l))
          /\ rules(base, l) = EntriesOf(y, RulesIn(disk, l))
      BY <1>1 DEF ListsOf
    <3> QED
      BY <1>5, <3>1, <3>2
  <2> HIDE DEF Q, own, its, new
  <2> DEFINE of(r, l) == IF r = None THEN <<>> ELSE r[l]
             lists == P!Conf!RuleLists
  <2>8. /\ new \in {None} \cup [lists -> Q]
        /\ \A l \in lists : of(new, l) = of(its, l) \o of(own, l)
    <3> HIDE DEF lists
    <3>1. own \in {None} \cup [lists -> Q] /\ its \in {None} \cup [lists -> Q]
          /\ None \notin [lists -> Q]
      BY <2>2 DEF own, its, lists
    <3>2. CASE own = None
      <4>1. new = its
        BY <2>6, <3>2 DEF P!Conf!MergedRules, P!Conf!OrBase
      <4>2. \A l \in lists : of(its, l) \in Q
        BY <2>5, <3>1
      <4> QED
        BY <2>4, <3>1, <3>2, <4>1, <4>2
    <3>3. CASE own # None /\ its = None
      <4>1. new = own
        BY <2>6, <3>3 DEF P!Conf!MergedRules, P!Conf!OrBase
      <4>2. \A l \in lists : of(own, l) \in Q
        BY <2>5, <3>1
      <4> QED
        BY <2>4, <3>1, <3>3, <4>1, <4>2
    <3>4. CASE own # None /\ its # None
      <4>1. own \in [lists -> Q] /\ its \in [lists -> Q]
        BY <3>1, <3>4
      <4>2. new = [l \in lists |-> its[l] \o own[l]]
        BY <2>6, <3>4 DEF P!Conf!MergedRules, lists
      <4>3. \A l \in lists : its[l] \in Q /\ own[l] \in Q /\ its[l] \o own[l] \in Q
        BY <2>3, <4>1
      <4>4. new \in [lists -> Q]
        BY <4>2, <4>3
      <4>5. new # None
        BY <3>1, <4>4
      <4>6. \A l \in lists : new[l] = its[l] \o own[l]
        BY <4>2
      <4> QED
        BY <3>4, <4>4, <4>5, <4>6
    <3> QED
      BY <3>2, <3>3, <3>4
  <2>9. \A l \in P!Conf!RuleLists : of(new, l) = EntriesOf(line, RulesIn(disk, l))
    BY <2>7, <2>8 DEF own, its
  <2> QED
    BY <2>1, <2>8, <2>9 DEF ListsOf, new, Q
<1>9. Describes(c, line, disk, T, V, W)
  BY <1>1, <1>2, <1>3, <1>7, <1>8 DEF Describes, U
<1> QED
  BY <1>9 DEF c, line

(* A file over its bases describes the line of the file. *)
LEMMA FileDescribes ==
  ASSUME NEW disk, NEW T, NEW V, NEW W, AreTexts(disk, T, V, W), NEW n \in Usable(disk),
         NEW lines \in [DOMAIN disk -> Seq(DOMAIN disk)], NEW base,
         \A b \in ToSet(disk[n].extends) : Describes(base[b].config, lines[b], disk, T, V, W),
         NEW s, Merging(s, disk[n], base)
  PROVE  Describes(s[Len(disk[n].extends)], LineOf(disk, lines, n), disk, T, V, W)
<1> DEFINE e == disk[n].extends
           N == Len(e)
           D == DOMAIN disk
           one == <<n>>
           each == LinesOf(e, lines)
           tells(i, p) == Describes(s[i], one \o p[i], disk, T, V, W)
<1>1. e \in Seq(D)
  BY TextsAre
<1>2. each \in Seq(Seq(D)) /\ Len(each) = N /\ \A k \in 1..N : each[k] = lines[e[k]]
  <2> HIDE DEF e
  <2> QED
    BY <1>1, LinesOfBases
<1>3. PICK p : AddsUp(p, each, D)
  <2> HIDE DEF each
  <2> QED
    BY <1>2, FlattenAddsUp
<1>4. FlattenSeq(each) = p[N]
  <2> HIDE DEF each
  <2> QED
    BY <1>2, <1>3, FlattenAddsUp
<1>5. LineOf(disk, lines, n) = one \o p[N]
  BY <1>4 DEF LineOf
<1>6. /\ s[0] = [disk[n] EXCEPT !.extends = <<>>]
      /\ \A i \in 1..N : s[i] = P!Conf!Merged(s[i - 1], base[e[i]].config)
  BY DEF Merging
<1>7. /\ p \in [0..N -> Seq(D)] /\ p[0] = <<>>
      /\ \A i \in 1..N : p[i] = p[i - 1] \o each[i]
  BY <1>2, <1>3 DEF AddsUp
<1>8. N \in Nat /\ \A i \in 1..N : e[i] \in ToSet(e)
  BY <1>1 DEF ToSet
<1>9. one \in Seq(D) /\ one \o <<>> = one
  <2>1. n \in D
    BY DEF Usable
  <2>2. one \in Seq(D)
    BY <2>1
  <2> QED
    BY <2>2, ConcatEmptySeq
<1>10. \A x, y, z \in Seq(D) : (x \o y) \o z = x \o (y \o z)
  <2> HIDE DEF D
  <2> QED
    BY ConcatAssociative
<1>11. \A i \in 1..N : Describes(base[e[i]].config, lines[e[i]], disk, T, V, W)
  BY <1>8
<1>12. \A i \in 1..N : lines[e[i]] \in Seq(D)
  BY <1>1
<1>13. Describes(s[0], one, disk, T, V, W)
  BY <1>6, OneFileDescribes
<1> HIDE DEF e, N, D, one, each
<1> DEFINE S == {i \in 0..N : tells(i, p)}
<1>14. 0 \in S
  <2>1. one \o p[0] = one
    BY <1>7, <1>9, Zenon
  <2>2. tells(0, p)
    BY <1>13, <2>1, Zenon
  <2>3. 0 \in 0..N
    BY <1>8
  <2> HIDE DEF tells
  <2> QED
    BY <2>2, <2>3
<1>15. ASSUME NEW i \in 0..(N - 1), i \in S
       PROVE  i + 1 \in S
  <2>1. i + 1 \in 1..N /\ (i + 1) - 1 = i /\ i + 1 \in 0..N /\ i \in 0..N
    BY <1>8
  <2>2. s[i + 1] = P!Conf!Merged(s[i], base[e[i + 1]].config)
    BY <1>6, <2>1
  <2>3. p[i + 1] = p[i] \o each[i + 1] /\ each[i + 1] = lines[e[i + 1]] /\ p[i] \in Seq(D)
    BY <1>2, <1>7, <2>1
  <2>4. (one \o p[i]) \o lines[e[i + 1]] = one \o p[i + 1]
    <3>1. lines[e[i + 1]] \in Seq(D)
      BY <1>12, <2>1, Zenon
    <3>2. (one \o p[i]) \o lines[e[i + 1]] = one \o (p[i] \o lines[e[i + 1]])
      BY <1>9, <1>10, <2>3, <3>1, Zenon
    <3>3. p[i + 1] = p[i] \o lines[e[i + 1]]
      BY <2>3, Zenon
    <3> QED
      BY <3>2, <3>3, Zenon
  <2>5. Describes(s[i], one \o p[i], disk, T, V, W)
    BY <1>15
  <2>6. Describes(base[e[i + 1]].config, lines[e[i + 1]], disk, T, V, W)
    BY <1>11, <2>1
  <2>7. Describes(s[i + 1], (one \o p[i]) \o lines[e[i + 1]], disk, T, V, W)
    BY <2>2, <2>5, <2>6, MergedDescribes
  <2> QED
    BY <2>1, <2>4, <2>7
<1> HIDE DEF S
<1>16. 0..N \subseteq S
  BY <1>8, <1>14, <1>15, InductionUpTo
<1>17. N \in S
  BY <1>8, <1>16
<1> QED
  BY <1>5, <1>17 DEF S, N, e

(* What is loaded describes its line, round by round. *)
LEMMA LoadedDescribes ==
  ASSUME NEW disk, NEW T, NEW V, NEW W, AreTexts(disk, T, V, W),
         NEW K \in Nat, NEW load, Loading(load, disk, K + 1),
         NEW down, Lines(down, disk, K), NEW start \in DOMAIN disk,
         load[K + 1][start].error = None
  PROVE  Describes(load[K + 1][start].config, down[K][start], disk, T, V, W)
<1> DEFINE D == DOMAIN disk
           tells(d) == \A n \in D : load[d + 1][n].error = None
                            => Describes(load[d + 1][n].config, down[d][n], disk, T, V, W)
           S == {d \in 0..K : tells(d)}
<1>1. /\ load[0] = [n \in D |-> P!Conf!Failed("endless")]
      /\ \A d \in 1..(K + 1) : load[d] = [n \in D |-> P!Conf!LoadFile(disk[n], load[d - 1])]
  BY DEF Loading
<1>2. /\ down \in [0..K -> [D -> Seq(D)]]
      /\ down[0] = [n \in D |-> <<n>>]
      /\ \A d \in 1..K : down[d] = [n \in D |-> LineOf(disk, down[d - 1], n)]
  BY DEF Lines
<1>3. ASSUME NEW d \in 0..K, NEW n \in D, load[d + 1][n].error = None
      PROVE  /\ n \in Usable(disk)
             /\ \A b \in ToSet(disk[n].extends) : b \in D /\ load[d][b].error = None
             /\ \E s : /\ Merging(s, disk[n], load[d])
                       /\ load[d + 1][n].config = s[Len(disk[n].extends)]
  <2>1. d + 1 \in 1..(K + 1) /\ (d + 1) - 1 = d
    OBVIOUS
  <2>2. load[d + 1] = [m \in D |-> P!Conf!LoadFile(disk[m], load[d])]
    BY <1>1, <2>1
  <2>3. load[d + 1][n] = P!Conf!LoadFile(disk[n], load[d])
    BY <2>2, Zenon
  <2>4. n \in Usable(disk)
    <3> SUFFICES ASSUME n \notin Usable(disk)
                 PROVE  FALSE
      OBVIOUS
    <3>1. disk[n] \in {None, P!Conf!Malformed} /\ None \notin {"read", "parse"}
      BY DEF Usable, AreTexts
    <3>2. P!Conf!LoadFile(disk[n], load[d]).error # None
      BY <3>1, LoadFileFails
    <3> QED
      BY <1>3, <2>3, <3>2
  <2>5. disk[n].extends \in Seq(D) /\ disk[n] # None /\ disk[n] # P!Conf!Malformed
    BY <2>4, TextsAre
  <2>6. \A b \in ToSet(disk[n].extends) : b \in D
    BY <2>5 DEF ToSet
  <2> QED
    BY <1>3, <2>3, <2>4, <2>5, <2>6, LoadFileMerges
<1>4. 0 \in S
  <2> SUFFICES ASSUME NEW n \in D, load[1][n].error = None
               PROVE  Describes(load[1][n].config, <<n>>, disk, T, V, W)
    BY <1>2
  <2>1. 0 + 1 = 1 /\ 0 \in 0..K
    OBVIOUS
  <2>2. /\ n \in Usable(disk)
        /\ \A b \in ToSet(disk[n].extends) : b \in D /\ load[0][b].error = None
    BY <1>3, <2>1
  <2>3. PICK s : /\ Merging(s, disk[n], load[0])
                 /\ load[1][n].config = s[Len(disk[n].extends)]
    BY <1>3, <2>1
  <2>4. \A b \in D : load[0][b].error # None
    BY <1>1 DEF P!Conf!Failed, AreTexts
  <2>5. Len(disk[n].extends) = 0
    <3>1. disk[n].extends \in Seq(D)
      BY <2>2, TextsAre
    <3>2. ToSet(disk[n].extends) = {}
      BY <2>2, <2>4
    <3>3. Len(disk[n].extends) \in Nat
          /\ \A i \in 1..Len(disk[n].extends) : disk[n].extends[i] \in ToSet(disk[n].extends)
      BY <3>1 DEF ToSet
    <3>4. 1..Len(disk[n].extends) = {}
      BY <3>2, <3>3
    <3> QED
      BY <3>3, <3>4
  <2>6. load[1][n].config = [disk[n] EXCEPT !.extends = <<>>]
    BY <2>3, <2>5 DEF Merging
  <2> QED
    BY <2>2, <2>6, OneFileDescribes
<1>5. ASSUME NEW d \in 0..(K - 1), d \in S
      PROVE  d + 1 \in S
  <2>1. d + 1 \in 0..K /\ d + 1 \in 1..K /\ (d + 1) - 1 = d /\ d \in 0..K
    OBVIOUS
  <2>2. ASSUME NEW n \in D, load[(d + 1) + 1][n].error = None
        PROVE  Describes(load[(d + 1) + 1][n].config, down[d + 1][n], disk, T, V, W)
    <3>1. /\ n \in Usable(disk)
          /\ \A b \in ToSet(disk[n].extends) : b \in D /\ load[d + 1][b].error = None
      BY <1>3, <2>1, <2>2
    <3>2. PICK s : /\ Merging(s, disk[n], load[d + 1])
                   /\ load[(d + 1) + 1][n].config = s[Len(disk[n].extends)]
      BY <1>3, <2>1, <2>2
    <3>3. down[d] \in [D -> Seq(D)]
      BY <1>2, <2>1
    <3>4. \A b \in ToSet(disk[n].extends) :
                Describes(load[d + 1][b].config, down[d][b], disk, T, V, W)
      BY <1>5, <3>1
    <3>5. Describes(s[Len(disk[n].extends)], LineOf(disk, down[d], n), disk, T, V, W)
      BY <3>1, <3>2, <3>3, <3>4, FileDescribes
    <3>6. down[d + 1][n] = LineOf(disk, down[d], n)
      <4>1. down[d + 1] = [m \in D |-> LineOf(disk, down[(d + 1) - 1], m)]
        BY <1>2, <2>1, Zenon
      <4>2. down[d + 1] = [m \in D |-> LineOf(disk, down[d], m)]
        BY <2>1, <4>1, Zenon
      <4> QED
        BY <4>2, Zenon
    <3> QED
      BY <3>2, <3>5, <3>6
  <2> QED
    BY <2>1, <2>2
<1> HIDE DEF S
<1>6. 0..K \subseteq S
  BY <1>4, <1>5, InductionUpTo
<1>7. K \in S
  BY <1>6
<1> QED
  BY <1>7 DEF S

(* Where every file of the line can be read, what its first file says that *)
(* says anything is what the files decide.                                 *)
LEMMA LineDecides ==
  ASSUME NEW disk, NEW T, NEW V, NEW W, AreTexts(disk, T, V, W),
         NEW down, Lines(down, disk, Cardinality(DOMAIN disk)), NEW start \in DOMAIN disk,
         Extended(disk, start) \subseteq Usable(disk), NEW value
  PROVE  LET line == down[Cardinality(DOMAIN disk)][start]
         IN /\ Decided(NearestIn(line, value), disk, start, value)
            /\ NearestIn(line, value) = None <=>
                    \A n \in Extended(disk, start) : value[n] = None
            /\ NearestIn(line, value) # None =>
                    \E n \in Deciders(disk, start, value) : NearestIn(line, value) = value[n]
<1> DEFINE D == DOMAIN disk
           K == Cardinality(D)
           line == down[K][start]
<1>1. K \in Nat
  BY FS_CardinalityType DEF AreTexts
<1>2. line \in Seq(D)
  <2>1. K \in 0..K /\ down \in [0..K -> [D -> Seq(D)]]
    BY <1>1 DEF Lines
  <2> HIDE DEF K, D
  <2> QED
    BY <2>1 DEF D
<1>3. ToSet(line) = Extended(disk, start)
  BY LineHoldsAll
<1>4. NearestIn(line, value) = None <=> \A n \in Extended(disk, start) : value[n] = None
  <2>1. ToSet(line) = {line[k] : k \in 1..Len(line)}
    BY <1>2 DEF ToSet
  <2> HIDE DEF line
  <2> QED
    BY <1>2, <1>3, <2>1, NearestIs
<1>5. NearestIn(line, value) # None =>
            \E n \in Deciders(disk, start, value) : NearestIn(line, value) = value[n]
  <2> HIDE DEF K
  <2> QED
    BY <1>1, <1>3, NearestDecides DEF K
<1> HIDE DEF line
<1>6. Decided(NearestIn(line, value), disk, start, value)
  BY <1>4, <1>5 DEF Decided
<1> QED
  BY <1>4, <1>5, <1>6 DEF line

(* What describes the line of a file is what its files decide. *)
LEMMA DescribedReflects ==
  ASSUME NEW disk, NEW T, NEW V, NEW W, AreTexts(disk, T, V, W),
         NEW down, Lines(down, disk, Cardinality(DOMAIN disk)), NEW start \in DOMAIN disk,
         NEW c, Describes(c, down[Cardinality(DOMAIN disk)][start], disk, T, V, W)
  PROVE  Reflects(c, disk, start)
<1> DEFINE D == DOMAIN disk
           K == Cardinality(D)
           U == Usable(disk)
           line == down[K][start]
           files == Extended(disk, start)
           frameworks == NearestIn(line, FrameworksIn(disk))
<1>1. /\ line \in Seq(U) /\ SettingsOf(c, line, disk, T, W) /\ ListsOf(c, line, disk, V)
  BY DEF Describes
<1>2. ToSet(line) = files /\ files \subseteq U
  <2>1. ToSet(line) = files
    BY LineHoldsAll
  <2>2. ToSet(line) \subseteq U
    BY <1>1 DEF ToSet
  <2> QED
    BY <2>1, <2>2
<1>3. line # <<>> /\ line[1] = start
  <2>1. K \in Nat
    BY FS_CardinalityType DEF AreTexts
  <2>2. \E rest \in Seq(D) : line = <<start>> \o rest
    <3>1. CASE K = 0
      <4>1. down[0][start] = <<start>>
        BY DEF Lines
      <4>2. <<start>> \o <<>> = <<start>> /\ <<>> \in Seq(D)
        BY ConcatEmptySeq
      <4> QED
        BY <3>1, <4>1, <4>2
    <3>2. CASE K # 0
      <4>1. K \in 1..K /\ K - 1 \in 0..K
        BY <2>1, <3>2
      <4>2. /\ down \in [0..K -> [D -> Seq(D)]]
            /\ \A d \in 1..K : down[d] = [n \in D |-> LineOf(disk, down[d - 1], n)]
        BY DEF Lines
      <4> HIDE DEF K
      <4>3. down[K] = [n \in D |-> LineOf(disk, down[K - 1], n)]
        BY <4>1, <4>2, Zenon
      <4>4. line = LineOf(disk, down[K - 1], start)
        BY <4>3, Zenon
      <4>5. down[K - 1] \in [D -> Seq(D)]
        BY <4>1, <4>2
      <4>6. CASE start \notin U
        <5>1. line = <<start>> \o <<>> /\ <<>> \in Seq(D)
          BY <4>4, <4>6 DEF LineOf
        <5> QED
          BY <5>1
      <4>7. CASE start \in U
        <5> DEFINE e == disk[start].extends
                   each == LinesOf(e, down[K - 1])
        <5>1. e \in Seq(D)
          BY <4>7, TextsAre
        <5>2. each \in Seq(Seq(D))
          <6> HIDE DEF e, D
          <6> QED
            BY <4>5, <5>1, LinesOfBases
        <5>3. FlattenSeq(each) \in Seq(D)
          <6> HIDE DEF each
          <6> QED
            BY <5>2, FlattenAddsUp
        <5>4. line = <<start>> \o FlattenSeq(each)
          BY <4>4, <4>7 DEF LineOf
        <5> QED
          BY <5>3, <5>4
      <4> QED
        BY <4>6, <4>7
    <3> QED
      BY <3>1, <3>2
  <2>3. PICK rest \in Seq(D) : line = <<start>> \o rest
    BY <2>2
  <2> DEFINE one == <<start>>
  <2>4. one \in Seq(D) /\ Len(one) = 1 /\ one[1] = start
    OBVIOUS
  <2> HIDE DEF one, D
  <2>5. /\ Len(one \o rest) = 1 + Len(rest) /\ Len(rest) \in Nat
        /\ (one \o rest)[1] = start
    BY <2>4, ConcatProperties
  <2>6. line = one \o rest
    BY <2>3 DEF one
  <2> HIDE DEF line
  <2> QED
    BY <2>5, <2>6
<1>4. \A value : /\ Decided(NearestIn(line, value), disk, start, value)
                 /\ NearestIn(line, value) = None <=> \A n \in files : value[n] = None
                 /\ NearestIn(line, value) # None =>
                        \E n \in Deciders(disk, start, value) :
                            NearestIn(line, value) = value[n]
  BY <1>2, LineDecides
<1> HIDE DEF line, files
<1>5. \A f \in P!Conf!Sections : Decided(c.sections[f], disk, start, SectionIn(disk, f))
  BY <1>1, <1>4 DEF SettingsOf
<1>6. FrameworksDecided(c.frameworks, disk, start)
  <2>1. \A n \in files : FrameworksIn(disk)[n] = disk[n].frameworks
    BY <1>2 DEF FrameworksIn
  <2>2. CASE frameworks = None
    <3>1. c.frameworks = None /\ \A n \in files : disk[n].frameworks = None
      BY <1>1, <1>4, <2>1, <2>2 DEF SettingsOf
    <3> QED
      BY <3>1 DEF FrameworksDecided, files
  <2>3. CASE frameworks # None
    <3>1. ~\A n \in files : disk[n].frameworks = None
      BY <1>4, <2>1, <2>3
    <3>2. PICK n \in Deciders(disk, start, FrameworksIn(disk)) :
                frameworks = FrameworksIn(disk)[n]
      BY <1>4, <2>3
    <3>3. n \in U
      BY DEF Deciders
    <3>4. frameworks = disk[n].frameworks
      BY <3>2, <3>3 DEF FrameworksIn
    <3>5. disk[n].frameworks \in {None} \cup [T -> W]
      BY <3>3, TextsAre
    <3>6. /\ c.frameworks \in [T -> W]
          /\ \A t \in T : c.frameworks[t] =
                IF t \in P!Conf!Toggles THEN NearestIn(line, ToggleIn(disk, t))
                ELSE disk[n].frameworks[t]
      BY <1>1, <2>3, <3>4 DEF SettingsOf
    <3>7. DOMAIN c.frameworks = T /\ DOMAIN disk[n].frameworks = T
      BY <2>3, <3>4, <3>5, <3>6
    <3>8. \A t \in T : IF t \in P!Conf!Toggles
                        THEN Decided(c.frameworks[t], disk, start, ToggleIn(disk, t))
                        ELSE c.frameworks[t] = disk[n].frameworks[t]
      BY <1>4, <3>6
    <3> QED
      BY <3>1, <3>7, <3>8 DEF FrameworksDecided, files
  <2> QED
    BY <2>2, <2>3
<1>7. \A entries \in [U -> Seq(V)] : Collected(EntriesOf(line, entries), disk, start, entries)
  <2> SUFFICES ASSUME NEW entries \in [U -> Seq(V)]
               PROVE  Collected(EntriesOf(line, entries), disk, start, entries)
    OBVIOUS
  <2>1. /\ ToSet(EntriesOf(line, entries)) = UNION {ToSet(entries[n]) : n \in ToSet(line)}
        /\ IsSuffix(entries[line[1]], EntriesOf(line, entries))
    <3> HIDE DEF U
    <3> QED
      BY <1>1, <1>3, EntriesCollect
  <2> QED
    BY <1>2, <1>3, <2>1 DEF Collected, files
<1>8. /\ \A l \in P!Conf!Lists : EntriesIn(disk, l) \in [U -> Seq(V)]
      /\ \A l \in P!Conf!RuleLists : RulesIn(disk, l) \in [U -> Seq(V)]
  BY EntriesTyped
<1> HIDE DEF U
<1>9. \A l \in P!Conf!Lists : Collected(c.lists[l], disk, start, EntriesIn(disk, l))
  BY <1>1, <1>7, <1>8 DEF ListsOf
<1>10. \A l \in P!Conf!RuleLists :
            Collected(IF c.rules = None THEN <<>> ELSE c.rules[l], disk, start,
                      RulesIn(disk, l))
  <2> SUFFICES ASSUME NEW l \in P!Conf!RuleLists
               PROVE  Collected(IF c.rules = None THEN <<>> ELSE c.rules[l], disk, start,
                                RulesIn(disk, l))
    OBVIOUS
  <2>1. (IF c.rules = None THEN <<>> ELSE c.rules[l]) = EntriesOf(line, RulesIn(disk, l))
    BY <1>1 DEF ListsOf
  <2>2. Collected(EntriesOf(line, RulesIn(disk, l)), disk, start, RulesIn(disk, l))
    BY <1>7, <1>8
  <2> QED
    BY <2>1, <2>2, Zenon
<1> QED
  BY <1>5, <1>6, <1>9, <1>10 DEF Reflects

(* A configuration is loaded exactly when every file that it extends,      *)
(* however far away, can be read and none extends itself; then a section   *)
(* or a toggle is that of a file which is extended only through files that *)
(* do not have it, and the lists hold the entries of all, the own ones last*)
(* (config.rs:597, merge.rs:9).                                            *)
THEOREM NearestFilesDecide ==
  ASSUME NEW disk, NEW T, NEW V, NEW W, AreTexts(disk, T, V, W), NEW name \in DOMAIN disk
  PROVE  LET loaded == P!Conf!LoadNamed(disk, name)
             files == Extended(disk, name)
         IN /\ (loaded.error = None) <=>
                    /\ files \subseteq Usable(disk)
                    /\ \A n \in files : n \notin Closure(BasesIn(disk)[n], BasesIn(disk))
            /\ loaded.error = None => Reflects(loaded.config, disk, name)
<1> DEFINE K == Cardinality(DOMAIN disk)
           loaded == P!Conf!LoadNamed(disk, name)
<1>1. IsFiniteSet(DOMAIN disk) /\ K \in Nat
  BY FS_CardinalityType DEF AreTexts
<1>2. PICK load : /\ Loading(load, disk, K + 1)
                  /\ \A n : P!Conf!LoadNamed(disk, n) = load[K + 1][n]
  BY <1>1, LoadNamedLoads
<1>3. PICK down : Lines(down, disk, K)
  BY LineageExists
<1>4. loaded = load[K + 1][name]
  BY <1>2
<1> HIDE DEF loaded
<1>5. (loaded.error = None) <=>
            /\ Extended(disk, name) \subseteq Usable(disk)
            /\ \A n \in Extended(disk, name) :
                    n \notin Closure(BasesIn(disk)[n], BasesIn(disk))
  BY <1>2, <1>4, LoadedIsGrounded
<1>6. ASSUME loaded.error = None
      PROVE  Reflects(loaded.config, disk, name)
  <2>1. Describes(loaded.config, down[K][name], disk, T, V, W)
    <3> HIDE DEF K
    <3> QED
      BY <1>1, <1>2, <1>3, <1>4, <1>6, LoadedDescribes
  <2> DEFINE c == loaded.config
  <2> HIDE DEF c
  <2>2. Reflects(c, disk, name)
    BY <1>3, <2>1, DescribedReflects DEF c
  <2> QED
    BY <2>2 DEF c
<1> QED
  BY <1>5, <1>6 DEF loaded

(* The ways in which a file that is there fails to load *)
LEMMA LoadErrorsAre ==
  ASSUME NEW disk, NEW T, NEW V, NEW W, AreTexts(disk, T, V, W), NEW name \in DOMAIN disk
  PROVE  P!Conf!LoadNamed(disk, name).error \in {None, "read", "parse", "endless"}
<1> DEFINE D == DOMAIN disk
           E0 == {None, "read", "parse", "endless"}
           N == Cardinality(D) + 1
<1>1. N \in Nat
  BY FS_CardinalityType DEF AreTexts
<1>2. PICK load : /\ Loading(load, disk, N)
                  /\ \A n : P!Conf!LoadNamed(disk, n) = load[N][n]
  BY LoadNamedLoads DEF AreTexts
<1>3. /\ load[0] = [n \in D |-> P!Conf!Failed("endless")]
      /\ \A d \in 1..N : load[d] = [n \in D |-> P!Conf!LoadFile(disk[n], load[d - 1])]
  BY <1>2 DEF Loading
<1> DEFINE S == {d \in 0..N : \A n \in D : load[d][n].error \in E0}
<1>4. 0 \in S
  BY <1>1, <1>3 DEF P!Conf!Failed
<1>5. ASSUME NEW d \in 0..(N - 1), d \in S
      PROVE  d + 1 \in S
  <2>1. d + 1 \in 1..N /\ (d + 1) - 1 = d /\ d + 1 \in 0..N
    BY <1>1
  <2>2. load[d + 1] = [n \in D |-> P!Conf!LoadFile(disk[n], load[d])]
    BY <1>3, <2>1
  <2>3. ASSUME NEW n \in D
        PROVE  load[d + 1][n].error \in E0
    <3>1. load[d + 1][n] = P!Conf!LoadFile(disk[n], load[d])
      BY <2>2
    <3>2. CASE n \in Usable(disk)
      <4>1. disk[n].extends \in Seq(D) /\ disk[n] # None /\ disk[n] # P!Conf!Malformed
        BY <3>2, TextsAre
      <4>2. \A b \in ToSet(disk[n].extends) : b \in D
        BY <4>1 DEF ToSet
      <4>3. \/ load[d + 1][n].error = None
            \/ \E b \in ToSet(disk[n].extends) : load[d + 1][n] = load[d][b]
        <5> HIDE DEF D, S, E0
        <5> QED
          BY <3>1, <4>1, LoadFileMerges
      <4> QED
        BY <1>5, <4>2, <4>3
    <3>3. CASE n \notin Usable(disk)
      <4>1. disk[n] \in {None, P!Conf!Malformed} /\ None \notin {"read", "parse"}
        BY <3>3 DEF Usable, AreTexts
      <4> QED
        BY <3>1, <4>1, LoadFileFails
    <3> QED
      BY <3>2, <3>3
  <2> QED
    BY <2>1, <2>3
<1> HIDE DEF S
<1>6. 0..N \subseteq S
  BY <1>1, <1>4, <1>5, InductionUpTo
<1>7. N \in S
  BY <1>1, <1>6
<1> QED
  BY <1>2, <1>7 DEF S

-----------------------------------------------------------------------------
(* The texts of the run *)
Toggled == {"next", "vue"}
Named == {"main", "a", "b"}
Settings == {None, "main", "a", "b"}

(* The texts of the run are texts of configurations. *)
LEMMA TextsAreTexts ==
  ASSUME NEW name \in Named, NEW e \in Seq(P!DiskFiles), NEW sets
  PROVE  P!Text(name, e, sets) \in TextOf(P!DiskFiles, Toggled, Named, Settings)
<1> DEFINE D == P!DiskFiles
           t == P!Text(name, e, sets)
           frameworks == [next |-> IF sets = "all" THEN name ELSE None, vue |-> name]
<1>1. ASSUME NEW l, NEW s, NEW r, NEW f
      PROVE  [P!Conf!DefaultConfig EXCEPT !.extends = e, !.lists = l, !.sections = s,
                                          !.rules = r, !.frameworks = f]
                = [extends |-> e, lists |-> l, sections |-> s, rules |-> r,
                   frameworks |-> f, own |-> P!Conf!DefaultConfig.own]
  <2> DEFINE d == P!Conf!DefaultConfig
             made == [extends |-> e, lists |-> l, sections |-> s, rules |-> r,
                      frameworks |-> f, own |-> d.own]
             given == [d EXCEPT !.extends = e, !.lists = l, !.sections = s,
                                !.rules = r, !.frameworks = f]
             names == {"extends", "lists", "sections", "rules", "frameworks", "own"}
  <2>1. DOMAIN d = names
    BY DEF P!Conf!DefaultConfig
  <2>2. d = [x \in names |-> d[x]]
    BY DEF P!Conf!DefaultConfig
  <2> HIDE DEF d
  <2>3. given = [x \in names |-> given[x]]
    BY <2>1, <2>2
  <2>4. made = [x \in names |-> made[x]]
    OBVIOUS
  <2>5. /\ given["extends"] = e /\ given["lists"] = l /\ given["sections"] = s
        /\ given["rules"] = r /\ given["frameworks"] = f /\ given["own"] = d["own"]
    BY <2>1
  <2>6. /\ made["extends"] = e /\ made["lists"] = l /\ made["sections"] = s
        /\ made["rules"] = r /\ made["frameworks"] = f /\ made["own"] = d["own"]
    OBVIOUS
  <2> HIDE DEF given, made
  <2>7. given = made
    BY <2>3, <2>4, <2>5, <2>6
  <2> QED
    BY <2>7 DEF given, made, d
<1>2. t = [extends |-> e,
           lists |-> [f \in P!Conf!Lists |-> IF f = "overrides" THEN <<name>> ELSE <<>>],
           sections |-> [f \in P!Conf!Sections |->
                IF sets = "all" /\ f = "workspaces" THEN name ELSE None],
           rules |-> IF sets = "nothing" THEN None
                     ELSE [l \in P!Conf!RuleLists |->
                                IF l = "forbidden" THEN <<name>> ELSE <<>>],
           frameworks |-> IF sets = "nothing" THEN None ELSE frameworks,
           own |-> P!Conf!DefaultConfig.own]
  BY <1>1, Zenon DEF P!Text
<1>3. frameworks \in [Toggled -> Settings]
  <2>1. frameworks = [x \in Toggled |-> frameworks[x]]
    BY DEF Toggled
  <2>2. \A x \in Toggled : frameworks[x] \in Settings
    BY DEF Toggled, Settings, Named
  <2> HIDE DEF frameworks
  <2> QED
    BY <2>1, <2>2
<1> HIDE DEF frameworks
<1>4. <<name>> \in Seq(Named) /\ <<>> \in Seq(Named)
  OBVIOUS
<1>5. [f \in P!Conf!Lists |-> IF f = "overrides" THEN <<name>> ELSE <<>>]
            \in [P!Conf!Lists -> Seq(Named)]
  BY <1>4
<1>6. [f \in P!Conf!Sections |-> IF sets = "all" /\ f = "workspaces" THEN name ELSE None]
            \in [P!Conf!Sections -> Settings]
  BY DEF Settings, Named
<1>7. [l \in P!Conf!RuleLists |-> IF l = "forbidden" THEN <<name>> ELSE <<>>]
            \in [P!Conf!RuleLists -> Seq(Named)]
  BY <1>4
<1> HIDE DEF t
<1>8. t \in TextOf(P!DiskFiles, Toggled, Named, Settings)
  BY <1>2, <1>3, <1>5, <1>6, <1>7 DEF TextOf
<1> QED
  BY <1>8 DEF t

(* The files of the run are texts of configurations, or fail to be. *)
LEMMA DisksAreTexts ==
  ASSUME NEW i \in P!ConfigInputs
  PROVE  /\ DOMAIN P!DiskOf(i) = P!DiskFiles /\ i.explicit \in {None, "a"}
         /\ AreTexts(P!DiskOf(i), Toggled, Named, Settings)
<1> DEFINE D == P!DiskFiles
           disk == P!DiskOf(i)
           text == TextOf(D, Toggled, Named, Settings)
           nothing == {None, P!Conf!Malformed}
<1>1. DOMAIN disk = D
  BY DEF P!DiskOf
<1>2. IsFiniteSet(D)
  <2> DEFINE one == {} \cup {"a"}
             two == one \cup {"b"}
             three == two \cup {"pruneguard.json"}
             four == three \cup {".pruneguardrc.json"}
  <2>1. D = four
    BY DEF P!DiskFiles
  <2>2. \A S, x : IsFiniteSet(S) => IsFiniteSet(S \cup {x})
    BY FS_AddElement
  <2>3. IsFiniteSet({})
    BY FS_EmptySet
  <2>4. IsFiniteSet(one)
    BY <2>2, <2>3
  <2> HIDE DEF one
  <2>5. IsFiniteSet(two)
    BY <2>2, <2>4
  <2> HIDE DEF two
  <2>6. IsFiniteSet(three)
    BY <2>2, <2>5
  <2> HIDE DEF three
  <2>7. IsFiniteSet(four)
    BY <2>2, <2>6
  <2> QED
    BY <2>1, <2>7
<1>3. \A name \in Named : \A E0 \in SUBSET Seq(D) : P!Texts(name, E0) \subseteq text
  BY TextsAreTexts DEF P!Texts
<1>4. /\ {<<>>, <<"a">>, <<"a", "b">>, <<"b", "a">>} \subseteq Seq(D)
      /\ {<<>>, <<"b">>, <<"a">>} \subseteq Seq(D) /\ {<<>>, <<"a">>} \subseteq Seq(D)
  BY DEF P!DiskFiles
<1>5. "main" \in Named /\ "a" \in Named /\ "b" \in Named
  BY DEF Named
<1>6. /\ i.main \in text /\ i.a \in text \cup nothing /\ i.b \in text \cup nothing
      /\ i.explicit \in {None, "a"}
  <2>1. /\ i.main \in P!Texts("main", {<<>>, <<"a">>, <<"a", "b">>, <<"b", "a">>})
        /\ i.a \in P!Texts("a", {<<>>, <<"b">>, <<"a">>}) \cup nothing
        /\ i.b \in P!Texts("b", {<<>>, <<"a">>}) \cup nothing
        /\ i.explicit \in {None, "a"}
    BY DEF P!ConfigInputs
  <2> HIDE DEF text, D
  <2> QED
    BY <1>3, <1>4, <1>5, <2>1
<1>7. ASSUME NEW n \in D
      PROVE  disk[n] \in nothing \cup text
  BY <1>6 DEF P!DiskOf, P!DiskFiles
<1>8. AreTexts(disk, Toggled, Named, Settings)
  <2>1. None \in Settings /\ None \notin [Toggled -> Settings]
        /\ None \notin [P!Conf!RuleLists -> Seq(Named)]
        /\ None \notin {"read", "parse", "endless", "not_found"}
    BY NoneIsNoSetting DEF Toggled, Settings, Named
  <2> HIDE DEF disk
  <2> QED
    BY <1>1, <1>2, <1>7, <2>1 DEF AreTexts
<1> QED
  BY <1>1, <1>6, <1>8

(* The configuration of the run is the default one or a file's (load,      *)
(* config.rs:559).                                                         *)
LEMMA AnswersReflect ==
  ASSUME NEW i \in P!ConfigInputs
  PROVE  LET disk == P!DiskOf(i)
             start == IF i.explicit # None THEN i.explicit
                      ELSE IF disk["pruneguard.json"] # None THEN "pruneguard.json"
                      ELSE ".pruneguardrc.json"
         IN P!ConfigAnswer(i) =
                IF i.explicit = None /\ disk[start] = None
                THEN [error |-> None, config |-> P!Conf!DefaultConfig]
                ELSE P!Conf!LoadNamed(disk, start)
<1> DEFINE disk == P!DiskOf(i)
           start == IF i.explicit # None THEN i.explicit
                    ELSE IF disk["pruneguard.json"] # None THEN "pruneguard.json"
                    ELSE ".pruneguardrc.json"
           there == {k \in DOMAIN P!Conf!ConfigFiles : disk[P!Conf!ConfigFiles[k]] # None}
           first == CHOOSE k \in there : \A j \in there : k <= j
           found == P!Conf!FindConfig(disk)
<1>1. /\ DOMAIN disk = P!DiskFiles /\ i.explicit \in {None, "a"}
      /\ AreTexts(disk, Toggled, Named, Settings)
  BY DisksAreTexts
<1> HIDE DEF disk
<1>2. /\ None \notin {"pruneguard.json", ".pruneguardrc.json", "a", "b"}
      /\ start \in P!DiskFiles
  BY <1>1, NoneIsNoSetting DEF P!DiskFiles
<1>3. found = IF there = {} THEN None ELSE P!Conf!ConfigFiles[first]
  BY DEF P!Conf!FindConfig
<1>4. /\ \A k : k \in there <=>
            \/ k = 1 /\ disk["pruneguard.json"] # None
            \/ k = 2 /\ disk[".pruneguardrc.json"] # None
      /\ P!Conf!ConfigFiles[1] = "pruneguard.json"
      /\ P!Conf!ConfigFiles[2] = ".pruneguardrc.json"
  BY DEF P!Conf!ConfigFiles
<1> HIDE DEF there, found
<1>5. i.explicit = None => found = IF disk[start] = None THEN None ELSE start
  <2> SUFFICES ASSUME i.explicit = None
               PROVE  found = IF disk[start] = None THEN None ELSE start
    OBVIOUS
  <2>1. CASE disk["pruneguard.json"] # None
    <3>1. 1 \in there /\ \A j \in there : 1 <= j
      BY <1>4, <2>1
    <3>2. first \in there /\ \A j \in there : first <= j
      BY <3>1
    <3>3. first = 1
      BY <1>4, <3>1, <3>2
    <3> QED
      BY <1>3, <1>4, <2>1, <3>1, <3>3
  <2>2. CASE disk["pruneguard.json"] = None /\ disk[".pruneguardrc.json"] # None
    <3>1. there = {2}
      BY <1>4, <2>2
    <3>2. first = 2
      BY <3>1
    <3> QED
      BY <1>3, <1>4, <2>2, <3>1, <3>2
  <2>3. CASE disk["pruneguard.json"] = None /\ disk[".pruneguardrc.json"] = None
    <3>1. there = {}
      BY <1>4, <2>3
    <3> QED
      BY <1>3, <2>3, <3>1
  <2> QED
    BY <2>1, <2>2, <2>3
<1>6. P!Conf!LoadNamed(disk, start).error # "not_found"
  <2>1. P!Conf!LoadNamed(disk, start).error \in {None, "read", "parse", "endless"}
    <3> HIDE DEF start
    <3> QED
      BY <1>1, <1>2, LoadErrorsAre
  <2> QED
    BY <2>1, NoneIsNoSetting
<1> HIDE DEF start, first
<1>7. CASE i.explicit = None /\ disk[start] = None
  <2>1. P!Conf!LoadConfig(disk, i.explicit) = [error |-> "not_found"]
    BY <1>5, <1>7 DEF P!Conf!LoadConfig, P!Conf!Failed, found
  <2> QED
    BY <1>7, <2>1 DEF P!ConfigAnswer, P!Conf!LoadConfigOrDefault, P!Conf!Loaded, disk, start
<1>8. CASE ~(i.explicit = None /\ disk[start] = None)
  <2>1. start = IF i.explicit = None THEN found ELSE i.explicit
    BY <1>5, <1>8 DEF start
  <2>2. start # None
    BY <1>2 DEF P!DiskFiles
  <2>3. P!Conf!LoadConfig(disk, i.explicit) = P!Conf!LoadNamed(disk, start)
    BY <2>1, <2>2 DEF P!Conf!LoadConfig, found
  <2>4. P!ConfigAnswer(i) = P!Conf!LoadNamed(disk, start)
    BY <1>6, <2>3 DEF P!ConfigAnswer, P!Conf!LoadConfigOrDefault, disk
  <2> QED
    BY <1>8, <2>4 DEF disk, start
<1> QED
  BY <1>7, <1>8

ConfigInv ==
    family = "config" =>
        /\ input \in P!ConfigInputs
        /\ result # None => result = P!ConfigAnswer(input)

(* Every configuration of the run is loaded as its files say               *)
(* (config.rs:559, config.rs:597, merge.rs:9).                             *)
THEOREM ConfigurationsAreExact == Spec => []NearestSettingWins
<1>1. Init => ConfigInv
  BY DEF Init, Ask, ConfigInv
<1>2. ConfigInv /\ [Next]_vars => ConfigInv'
  <2> SUFFICES ASSUME ConfigInv, [Next]_vars
               PROVE  ConfigInv'
    OBVIOUS
  <2>1. CASE Answer("config", P!ConfigAnswer(input))
    BY <2>1 DEF Answer, ConfigInv
  <2>2. CASE family' = family /\ input' = input
             /\ (result' = result \/ family # "config")
    BY <2>2 DEF ConfigInv
  <2> QED
    BY <2>1, <2>2 DEF Next, Answer, vars
<1>3. ConfigInv => NearestSettingWins
  <2> SUFFICES ASSUME ConfigInv, family = "config", result # None
               PROVE  NearestSettingWins
    BY DEF NearestSettingWins
  <2> DEFINE i == input
             disk == P!DiskOf(i)
             start == IF i.explicit # None THEN i.explicit
                      ELSE IF disk["pruneguard.json"] # None THEN "pruneguard.json"
                      ELSE ".pruneguardrc.json"
             files == Extended(disk, start)
             fine == /\ files \subseteq Usable(disk)
                     /\ \A n \in files : n \notin Closure(BasesIn(disk)[n], BasesIn(disk))
  <2>1. i \in P!ConfigInputs /\ result = P!ConfigAnswer(i)
    BY DEF ConfigInv
  <2> HIDE DEF i
  <2>2. result = IF i.explicit = None /\ disk[start] = None
                 THEN [error |-> None, config |-> P!Conf!DefaultConfig]
                 ELSE P!Conf!LoadNamed(disk, start)
    BY <2>1, AnswersReflect
  <2>3. /\ start \in DOMAIN disk
        /\ AreTexts(disk, Toggled, Named, Settings)
    <3>1. /\ DOMAIN disk = P!DiskFiles /\ i.explicit \in {None, "a"}
          /\ AreTexts(disk, Toggled, Named, Settings)
      BY <2>1, DisksAreTexts
    <3> HIDE DEF disk
    <3> QED
      BY <3>1 DEF P!DiskFiles
  <2> HIDE DEF disk, start
  <2>4. LET loaded == P!Conf!LoadNamed(disk, start)
        IN /\ (loaded.error = None) <=> fine
           /\ loaded.error = None => Reflects(loaded.config, disk, start)
    BY <2>3, NearestFilesDecide
  <2>5. IF i.explicit = None /\ disk[start] = None
        THEN result = [error |-> None, config |-> P!Conf!DefaultConfig]
        ELSE /\ (result.error = None) <=> fine
             /\ result.error = None => Reflects(result.config, disk, start)
    <3> HIDE DEF fine
    <3> QED
      BY <2>2, <2>4
  <2> QED
    BY <2>5 DEF NearestSettingWins, i, disk, start
<1> QED
  BY <1>1, <1>2, <1>3, PTL DEF Spec

-----------------------------------------------------------------------------
(* Entrypoints *)

(* A file is started from in a profile when a seed of that profile names   *)
(* it.                                                                     *)
StartsFrom(f, profile, seeds) == \E s \in P!Dep!ForProfile(seeds, profile) : s.path = f

(* Where a seed stands in the order of the duplicates is a number. *)
LEMMA PositionsAreNumbers ==
  ASSUME NEW W, NEW order \in Seq(W), NEW s,
         s.source \in ToSet(P!Dep!SourceOrder),
         \E i \in DOMAIN order : order[i].name = s.workspace
  PROVE  P!Dep!Position(s, order) \in Nat
<1> DEFINE k == P!Dep!SourceRank(s.source)
           n == Len(order) + 1
           i == CHOOSE j \in DOMAIN order : order[j].name = s.workspace
<1>1. k \in Nat
  BY DEF P!Dep!SourceRank, P!Dep!SourceOrder, ToSet
<1>2. n \in Nat /\ i \in Nat
  OBVIOUS
<1>3. P!Dep!Position(s, order) = k * n + i
  BY DEF P!Dep!Position
<1> HIDE DEF k, n, i
<1> QED
  BY <1>1, <1>2, <1>3

(* Of seeds that are alike but for their source and workspace, the first   *)
(* is kept: no file drops out of a profile (build.rs:1460).                *)
THEOREM DuplicatesLoseNothing ==
  ASSUME NEW W, NEW order \in Seq(W), NEW seeds,
         \A s \in seeds : /\ s.source \in ToSet(P!Dep!SourceOrder)
                          /\ \E i \in DOMAIN order : order[i].name = s.workspace,
         NEW f, NEW profile
  PROVE  StartsFrom(f, profile, P!Dep!Deduplicated(seeds, order))
            <=> StartsFrom(f, profile, seeds)
<1> DEFINE kept == P!Dep!Deduplicated(seeds, order)
           at(s) == P!Dep!Position(s, order)
<1>1. \A s \in seeds : at(s) \in Nat
  BY PositionsAreNumbers
<1>2. kept \subseteq seeds
  BY DEF P!Dep!Deduplicated
<1>3. ASSUME NEW s \in seeds
      PROVE  \E m \in kept : m.path = s.path /\ m.profile = s.profile
  <2> DEFINE alike == {t \in seeds : t.path = s.path /\ t.profile = s.profile}
             T == {at(t) : t \in alike}
  <2>1. T \in SUBSET Nat /\ T # {}
    BY <1>1
  <2>2. PICK least \in T : \A k \in T : least <= k
    BY <2>1, LeastNumber
  <2>3. PICK m \in alike : at(m) = least
    BY <2>2
  <2>6. \A t \in alike : at(t) \in T
    OBVIOUS
  <2>7. \A t : t \in alike <=> t \in seeds /\ t.path = s.path /\ t.profile = s.profile
    OBVIOUS
  <2> HIDE DEF T, alike, at
  <2>4. ASSUME NEW t \in P!Dep!Before(m, seeds, order)
        PROVE  t.profile # m.profile
    <3>1. t \in seeds /\ t.path = m.path /\ at(t) < at(m)
      BY DEF P!Dep!Before, at
    <3>2. t.profile = m.profile => at(t) \in T
      BY <2>6, <2>7, <3>1
    <3>3. at(t) \in Nat /\ at(m) \in Nat
      BY <1>1, <2>7, <3>1
    <3> QED
      BY <2>2, <2>3, <3>1, <3>2, <3>3
  <2>5. m \in kept
    BY <2>4, <2>7 DEF P!Dep!Deduplicated
  <2> QED
    BY <2>3, <2>5, <2>7
<1> HIDE DEF kept
<1>4. ASSUME StartsFrom(f, profile, seeds)
      PROVE  StartsFrom(f, profile, kept)
  <2>1. PICK s \in seeds : /\ s.path = f
                           /\ profile = "both" \/ s.profile \in {profile, "both"}
    BY <1>4 DEF StartsFrom, P!Dep!ForProfile
  <2>2. PICK m \in kept : m.path = s.path /\ m.profile = s.profile
    BY <1>3
  <2> QED
    BY <2>1, <2>2 DEF StartsFrom, P!Dep!ForProfile
<1>5. StartsFrom(f, profile, kept) => StartsFrom(f, profile, seeds)
  BY <1>2 DEF StartsFrom, P!Dep!ForProfile
<1> QED
  BY <1>4, <1>5 DEF kept

(* Groups of paths name a file when one of them does. *)
NamedIn(f, pushes) == \E i \in DOMAIN pushes : f \in pushes[i].paths

(* What is pushed later counts for what was not pushed before              *)
(* (detect_entrypoints, lib.rs of the entrypoints).                        *)
LEMMA ReasonsOf ==
  ASSUME NEW w, NEW V, NEW pushes \in Seq(V), NEW s
  PROVE  s \in P!Dep!FirstReasons(w, pushes) <=>
            \E i \in DOMAIN pushes :
                /\ \E p \in pushes[i].paths :
                    s = P!Dep!Seed(p, pushes[i].kind, pushes[i].profile, w.name,
                                   pushes[i].source)
                /\ \A j \in 1..(i - 1) : s.path \notin pushes[j].paths
<1>1. \A p, kind, profile, workspace, source :
            P!Dep!Seed(p, kind, profile, workspace, source).path = p
  BY DEF P!Dep!Seed
<1> QED
  BY <1>1 DEF P!Dep!FirstReasons

(* The reasons of two groups of pushes together: those of the first, and   *)
(* those of the second for what the first does not name.                   *)
LEMMA ReasonsGoOn ==
  ASSUME NEW w, NEW V, NEW x \in Seq(V), NEW y \in Seq(V), NEW s
  PROVE  s \in P!Dep!FirstReasons(w, x \o y) <=>
            \/ s \in P!Dep!FirstReasons(w, x)
            \/ s \in P!Dep!FirstReasons(w, y) /\ ~NamedIn(s.path, x)
<1> DEFINE K == Len(x)
           L == Len(y)
           z == x \o y
           for(push) == \E p \in push.paths :
                s = P!Dep!Seed(p, push.kind, push.profile, w.name, push.source)
<1>1. /\ K \in Nat /\ L \in Nat /\ z \in Seq(V) /\ Len(z) = K + L
      /\ \A i \in 1..(K + L) : z[i] = IF i <= K THEN x[i] ELSE y[i - K]
  BY ConcatProperties
<1>2. /\ s \in P!Dep!FirstReasons(w, z) <=> \E i \in 1..(K + L) :
            for(z[i]) /\ \A j \in 1..(i - 1) : s.path \notin z[j].paths
      /\ s \in P!Dep!FirstReasons(w, x) <=> \E i \in 1..K :
            for(x[i]) /\ \A j \in 1..(i - 1) : s.path \notin x[j].paths
      /\ s \in P!Dep!FirstReasons(w, y) <=> \E i \in 1..L :
            for(y[i]) /\ \A j \in 1..(i - 1) : s.path \notin y[j].paths
  <2>1. DOMAIN z = 1..(K + L) /\ DOMAIN x = 1..K /\ DOMAIN y = 1..L
    BY <1>1
  <2>2. ASSUME NEW q \in Seq(V)
        PROVE  s \in P!Dep!FirstReasons(w, q) <=> \E i \in DOMAIN q :
            for(q[i]) /\ \A j \in 1..(i - 1) : s.path \notin q[j].paths
    BY ReasonsOf
  <2> HIDE DEF for, z
  <2>3. z \in Seq(V)
    BY <1>1
  <2> QED
    BY <2>1, <2>2, <2>3
<1>3. NamedIn(s.path, x) <=> \E i \in 1..K : s.path \in x[i].paths
  BY <1>1 DEF NamedIn
<1> HIDE DEF K, L, z, for
<1>4. \A i \in 1..K : i \in 1..(K + L) /\ z[i] = x[i]
  BY <1>1
<1>5. \A i \in 1..L : i + K \in 1..(K + L) /\ z[i + K] = y[i]
  <2> SUFFICES ASSUME NEW i \in 1..L
               PROVE  i + K \in 1..(K + L) /\ z[i + K] = y[i]
    OBVIOUS
  <2>1. i + K \in 1..(K + L) /\ ~(i + K <= K) /\ (i + K) - K = i
    BY <1>1
  <2> QED
    BY <1>1, <2>1
<1>6. ASSUME NEW i \in 1..(K + L), for(z[i]),
             \A j \in 1..(i - 1) : s.path \notin z[j].paths
      PROVE  \/ s \in P!Dep!FirstReasons(w, x)
             \/ s \in P!Dep!FirstReasons(w, y) /\ ~NamedIn(s.path, x)
  <2>1. CASE i <= K
    <3>1. i \in 1..K /\ for(x[i])
      BY <1>1, <1>4, <1>6, <2>1
    <3>2. \A j \in 1..(i - 1) : j \in 1..K /\ s.path \notin x[j].paths
      BY <1>1, <1>4, <1>6, <2>1
    <3> QED
      BY <1>2, <3>1, <3>2
  <2>2. CASE ~(i <= K)
    <3> DEFINE k == i - K
    <3>1. k \in 1..L /\ k + K = i /\ for(y[k])
      BY <1>1, <1>6, <2>2
    <3> HIDE DEF k
    <3>2. \A j \in 1..(k - 1) : j \in 1..L /\ j + K \in 1..(i - 1)
      BY <1>1, <3>1
    <3>3. \A j \in 1..(k - 1) : s.path \notin y[j].paths
      BY <1>5, <1>6, <3>2
    <3>4. s \in P!Dep!FirstReasons(w, y)
      BY <1>2, <3>1, <3>3
    <3>5. \A j \in 1..K : j \in 1..(i - 1) /\ z[j] = x[j]
      BY <1>1, <1>4, <2>2
    <3>6. ~NamedIn(s.path, x)
      BY <1>3, <1>6, <3>5
    <3> QED
      BY <3>4, <3>6
  <2> QED
    BY <2>1, <2>2
<1>7. ASSUME s \in P!Dep!FirstReasons(w, x)
      PROVE  s \in P!Dep!FirstReasons(w, z)
  <2>1. PICK i \in 1..K : for(x[i]) /\ \A j \in 1..(i - 1) : s.path \notin x[j].paths
    BY <1>2, <1>7
  <2>2. i \in 1..(K + L) /\ for(z[i])
    BY <1>4, <2>1
  <2>3. \A j \in 1..(i - 1) : j \in 1..K
    BY <1>1
  <2>4. \A j \in 1..(i - 1) : s.path \notin z[j].paths
    BY <1>4, <2>1, <2>3
  <2> QED
    BY <1>2, <2>2, <2>4
<1>8. ASSUME s \in P!Dep!FirstReasons(w, y), ~NamedIn(s.path, x)
      PROVE  s \in P!Dep!FirstReasons(w, z)
  <2>1. PICK k \in 1..L : for(y[k]) /\ \A j \in 1..(k - 1) : s.path \notin y[j].paths
    BY <1>2, <1>8
  <2> DEFINE i == k + K
  <2>2. i \in 1..(K + L) /\ for(z[i])
    BY <1>5, <2>1
  <2>3. ASSUME NEW j \in 1..(i - 1)
        PROVE  s.path \notin z[j].paths
    <3>1. CASE j <= K
      <4>1. j \in 1..K
        BY <1>1, <3>1
      <4> QED
        BY <1>3, <1>4, <1>8, <4>1
    <3>2. CASE ~(j <= K)
      <4> DEFINE l == j - K
      <4>1. l \in 1..(k - 1) /\ l \in 1..L /\ l + K = j
        BY <1>1, <3>2
      <4> HIDE DEF l
      <4>2. z[j] = y[l]
        BY <1>5, <4>1
      <4> QED
        BY <2>1, <4>1, <4>2
    <3> QED
      BY <3>1, <3>2
  <2> HIDE DEF i
  <2> QED
    BY <1>2, <2>2, <2>3
<1>9. s \in P!Dep!FirstReasons(w, z) =>
            \/ s \in P!Dep!FirstReasons(w, x)
            \/ s \in P!Dep!FirstReasons(w, y) /\ ~NamedIn(s.path, x)
  BY <1>2, <1>6
<1> QED
  BY <1>7, <1>8, <1>9 DEF z

(* A seed of one profile counts in another. *)
InProfile(profile, other) == profile = "both" \/ other \in {profile, "both"}

(* One group of paths gives its profile to all that it holds. *)
LEMMA OneReason ==
  ASSUME NEW w, NEW x, NEW f, NEW profile
  PROVE  /\ StartsFrom(f, profile, P!Dep!FirstReasons(w, <<x>>))
                <=> f \in x.paths /\ InProfile(profile, x.profile)
         /\ NamedIn(f, <<x>>) <=> f \in x.paths
<1>1. \A s : s \in P!Dep!FirstReasons(w, <<x>>) <=>
            \E p \in x.paths : s = P!Dep!Seed(p, x.kind, x.profile, w.name, x.source)
  <2>1. /\ <<x>> \in Seq({x}) /\ DOMAIN <<x>> = {1} /\ <<x>>[1] = x
        /\ \A j : j \notin 1..(1 - 1)
    OBVIOUS
  <2> DEFINE one == <<x>>
  <2> HIDE DEF one
  <2>2. \A s : s \in P!Dep!FirstReasons(w, one) <=> \E i \in DOMAIN one :
            /\ \E p \in one[i].paths :
                s = P!Dep!Seed(p, one[i].kind, one[i].profile, w.name, one[i].source)
            /\ \A j \in 1..(i - 1) : s.path \notin one[j].paths
    BY <2>1, ReasonsOf DEF one
  <2> QED
    BY <2>1, <2>2 DEF one
<1>2. \A p : LET s == P!Dep!Seed(p, x.kind, x.profile, w.name, x.source)
             IN s.path = p /\ s.profile = x.profile
  BY DEF P!Dep!Seed
<1>3. StartsFrom(f, profile, P!Dep!FirstReasons(w, <<x>>))
        <=> f \in x.paths /\ InProfile(profile, x.profile)
  BY <1>1, <1>2 DEF StartsFrom, P!Dep!ForProfile, InProfile
<1>4. NamedIn(f, <<x>>) <=> f \in x.paths
  BY DEF NamedIn
<1> QED
  BY <1>3, <1>4

(* A file is started from for the first group that holds it. *)
LEMMA StartsGoOn ==
  ASSUME NEW w, NEW V, NEW x \in Seq(V), NEW y \in Seq(V), NEW f, NEW profile
  PROVE  /\ StartsFrom(f, profile, P!Dep!FirstReasons(w, x \o y)) <=>
                \/ StartsFrom(f, profile, P!Dep!FirstReasons(w, x))
                \/ ~NamedIn(f, x) /\ StartsFrom(f, profile, P!Dep!FirstReasons(w, y))
         /\ StartsFrom(f, profile, P!Dep!FirstReasons(w, x)) => NamedIn(f, x)
         /\ NamedIn(f, x \o y) <=> NamedIn(f, x) \/ NamedIn(f, y)
<1>1. \A s : s \in P!Dep!FirstReasons(w, x \o y) <=>
            \/ s \in P!Dep!FirstReasons(w, x)
            \/ s \in P!Dep!FirstReasons(w, y) /\ ~NamedIn(s.path, x)
  BY ReasonsGoOn
<1>2. ASSUME NEW s \in P!Dep!FirstReasons(w, x)
      PROVE  NamedIn(s.path, x)
  <2>1. PICK i \in DOMAIN x : \E p \in x[i].paths :
            s = P!Dep!Seed(p, x[i].kind, x[i].profile, w.name, x[i].source)
    BY ReasonsOf
  <2> QED
    BY <2>1 DEF P!Dep!Seed, NamedIn
<1>3. \A seeds : StartsFrom(f, profile, seeds) <=>
            \E s \in seeds : s.path = f /\ InProfile(profile, s.profile)
  BY DEF StartsFrom, P!Dep!ForProfile, InProfile
<1>4. ToSet(x \o y) = ToSet(x) \cup ToSet(y)
  BY ConcatNames
<1>5. \A q : NamedIn(f, q) <=> \E v \in ToSet(q) : f \in v.paths
  BY DEF NamedIn, ToSet
<1> QED
  BY <1>1, <1>2, <1>3, <1>4, <1>5

(* The packs push what they name and what their tools load. *)
LEMMA PackPushesAre ==
  ASSUME NEW w, NEW X, NEW packs \in Seq(X), NEW toggles, NEW tracked
  PROVE  LET pushes == P!Dep!PackPushes(w, packs, toggles, tracked)
         IN /\ \E V : pushes \in Seq(V)
            /\ \A v \in ToSet(pushes) : v.source \in {"framework", "framework-auto-load"}
            /\ \A f : NamedIn(f, pushes) => \E i \in DOMAIN packs :
                    f \in P!Dep!AllIn(w.root, packs[i].entrypoints)
                            \cup P!Dep!AllIn(w.root, packs[i].auto_loaded)
<1> DEFINE own(i) == P!Dep!Pushes(P!Dep!AllIn(w.root, packs[i].entrypoints),
                        "framework", P!Dep!FrameworkProfile(packs[i]), "framework")
           loaded(i) == P!Dep!Pushes(
                {p \in P!Dep!AllIn(w.root, packs[i].auto_loaded) \cap tracked :
                            P!Dep!IsTrackedSource(p)},
                "framework", P!Dep!FrameworkProfile(packs[i]), "framework-auto-load")
           of(i) == IF ~P!Dep!FrameworkEnabled(packs[i], toggles) THEN <<>>
                    ELSE <<own(i), loaded(i)>>
           seqs == [i \in DOMAIN packs |-> of(i)]
           V == {own(i) : i \in DOMAIN packs} \cup {loaded(i) : i \in DOMAIN packs}
           pushes == P!Dep!PackPushes(w, packs, toggles, tracked)
<1>1. pushes = FlattenSeq(seqs)
  BY DEF P!Dep!PackPushes, P!Dep!FlattenSeq, FlattenSeq
<1>2. /\ \A i : own(i).paths = P!Dep!AllIn(w.root, packs[i].entrypoints)
      /\ \A i : loaded(i).paths \subseteq P!Dep!AllIn(w.root, packs[i].auto_loaded)
      /\ \A i : own(i).source = "framework" /\ loaded(i).source = "framework-auto-load"
  BY DEF P!Dep!Pushes
<1> HIDE DEF own, loaded
<1>3. \A i \in DOMAIN packs : of(i) \in Seq(V) /\ ToSet(of(i)) \subseteq {own(i), loaded(i)}
  <2> SUFFICES ASSUME NEW i \in DOMAIN packs
               PROVE  of(i) \in Seq(V) /\ ToSet(of(i)) \subseteq {own(i), loaded(i)}
    OBVIOUS
  <2>1. own(i) \in V /\ loaded(i) \in V
    OBVIOUS
  <2> HIDE DEF V
  <2>2. <<own(i), loaded(i)>> \in Seq(V) /\ <<>> \in Seq(V)
    BY <2>1
  <2>3. ToSet(<<own(i), loaded(i)>>) \subseteq {own(i), loaded(i)} /\ ToSet(<<>>) = {}
    BY DEF ToSet
  <2> QED
    BY <2>2, <2>3
<1> HIDE DEF of, V
<1>4. DOMAIN packs = 1..Len(packs) /\ Len(packs) \in Nat
  OBVIOUS
<1>5. /\ seqs \in Seq(Seq(V)) /\ Len(seqs) = Len(packs)
      /\ \A i \in 1..Len(packs) : seqs[i] = of(i)
  BY <1>3, <1>4
<1> HIDE DEF seqs
<1>6. FlattenSeq(seqs) \in Seq(V)
  BY <1>5, FlattenAddsUp
<1>7. \A v : v \in ToSet(FlattenSeq(seqs)) =>
            \E i \in 1..Len(seqs) : v \in ToSet(seqs[i])
  BY <1>5, FlattenNames
<1>8. ASSUME NEW f, NamedIn(f, pushes)
      PROVE  \E i \in DOMAIN packs :
                    f \in P!Dep!AllIn(w.root, packs[i].entrypoints)
                            \cup P!Dep!AllIn(w.root, packs[i].auto_loaded)
  <2>1. PICK k \in DOMAIN pushes : f \in pushes[k].paths
    BY <1>8 DEF NamedIn
  <2> HIDE DEF pushes
  <2>2. pushes[k] \in ToSet(FlattenSeq(seqs))
    BY <1>1, <2>1 DEF ToSet
  <2>3. PICK i \in 1..Len(seqs) : pushes[k] \in ToSet(seqs[i])
    BY <1>7, <2>2
  <2>4. i \in DOMAIN packs /\ pushes[k] \in {own(i), loaded(i)}
    BY <1>3, <1>4, <1>5, <2>3
  <2> QED
    BY <1>2, <2>1, <2>4
<1>9. ASSUME NEW v \in ToSet(FlattenSeq(seqs))
      PROVE  v.source \in {"framework", "framework-auto-load"}
  <2>1. PICK i \in 1..Len(seqs) : v \in ToSet(seqs[i])
    BY <1>7
  <2>2. v \in {own(i), loaded(i)}
    BY <1>3, <1>4, <1>5, <2>1
  <2> QED
    BY <1>2, <2>2
<1> HIDE DEF pushes
<1> QED
  BY <1>1, <1>6, <1>8, <1>9 DEF pushes

(* The first group that holds a file gives it its profile. *)
LEMMA FirstGives ==
  ASSUME NEW w, NEW V, NEW q \in Seq(V), NEW f, NEW profile, NEW k \in DOMAIN q,
         f \in q[k].paths, \A j \in 1..(k - 1) : f \notin q[j].paths
  PROVE  StartsFrom(f, profile, P!Dep!FirstReasons(w, q)) <=> InProfile(profile, q[k].profile)
<1> DEFINE seed(p, i) == P!Dep!Seed(p, q[i].kind, q[i].profile, w.name, q[i].source)
<1>1. \A s : s \in P!Dep!FirstReasons(w, q) <=> \E i \in DOMAIN q :
            /\ \E p \in q[i].paths : s = seed(p, i)
            /\ \A j \in 1..(i - 1) : s.path \notin q[j].paths
  BY ReasonsOf
<1>2. \A p, i : seed(p, i).path = p /\ seed(p, i).profile = q[i].profile
  BY DEF P!Dep!Seed
<1> HIDE DEF seed
<1>3. \A seeds : StartsFrom(f, profile, seeds) <=>
            \E s \in seeds : s.path = f /\ InProfile(profile, s.profile)
  BY DEF StartsFrom, P!Dep!ForProfile, InProfile
<1>4. seed(f, k) \in P!Dep!FirstReasons(w, q)
  BY <1>1, <1>2
<1>5. ASSUME NEW s \in P!Dep!FirstReasons(w, q), s.path = f
      PROVE  s.profile = q[k].profile
  <2>1. PICK i \in DOMAIN q : /\ \E p \in q[i].paths : s = seed(p, i)
                              /\ \A j \in 1..(i - 1) : s.path \notin q[j].paths
    BY <1>1
  <2>2. s.profile = q[i].profile /\ f \in q[i].paths
    BY <1>2, <1>5, <2>1
  <2>3. i \in Nat /\ k \in Nat /\ i >= 1 /\ k >= 1
    OBVIOUS
  <2>4. ~(i < k) /\ ~(k < i)
    BY <1>5, <2>1, <2>2, <2>3
  <2> QED
    BY <2>2, <2>3, <2>4
<1> QED
  BY <1>2, <1>3, <1>4, <1>5

(* What a file is started from in is decided by the first reason of these: *)
(* the configuration includes it, a manifest publishes it, a script runs   *)
(* it, its name is a conventional one; only then by the packs              *)
(* (detect_entrypoints).                                                   *)
THEOREM FirstReasonDecides ==
  ASSUME NEW w, NEW X, w.manifest.scripts \in Seq(X), NEW Y, NEW packs \in Seq(Y),
         NEW config, NEW toggles, NEW files, NEW tracked, NEW f, NEW profile
  PROVE  LET scripts == w.manifest.scripts
             running == {i \in DOMAIN scripts :
                            f \in P!Dep!ScriptPushes(w, scripts[i], files).paths}
             first == CHOOSE i \in running : \A j \in running : i <= j
         IN StartsFrom(f, profile, P!Dep!DetectEntrypoints(w, config, toggles, packs,
                                                           files, tracked)) <=>
            IF f \in P!Dep!IncludePushes(w, config, files).paths THEN TRUE
            ELSE IF config.auto /\ f \in P!Dep!PackagePushes(w, files).paths
            THEN InProfile(profile, "production")
            ELSE IF config.auto /\ running # {}
            THEN InProfile(profile, P!Dep!ScriptProfile(scripts[first].name))
            ELSE IF config.auto /\ f \in P!Dep!ConventionPushes(w, files).paths
            THEN InProfile(profile, "production")
            ELSE StartsFrom(f, profile, P!Dep!FirstReasons(w,
                    P!Dep!PackPushes(w, packs, toggles, tracked)))
<1> DEFINE scripts == w.manifest.scripts
           running == {i \in DOMAIN scripts :
                            f \in P!Dep!ScriptPushes(w, scripts[i], files).paths}
           first == CHOOSE i \in running : \A j \in running : i <= j
           include == P!Dep!IncludePushes(w, config, files)
           package == P!Dep!PackagePushes(w, files)
           run == [i \in DOMAIN scripts |-> P!Dep!ScriptPushes(w, scripts[i], files)]
           convention == P!Dep!ConventionPushes(w, files)
           pack == P!Dep!PackPushes(w, packs, toggles, tracked)
           starts(q) == StartsFrom(f, profile, P!Dep!FirstReasons(w, q))
           detected == P!Dep!DetectEntrypoints(w, config, toggles, packs, files, tracked)
<1>1. detected = P!Dep!FirstReasons(w,
            (<<include>> \o (IF config.auto THEN (<<package>> \o run) \o <<convention>>
                             ELSE <<>>)) \o pack)
  BY DEF P!Dep!DetectEntrypoints
<1>2. /\ include.profile = "both" /\ package.profile = "production"
      /\ convention.profile = "production"
  BY DEF P!Dep!IncludePushes, P!Dep!PackagePushes, P!Dep!ConventionPushes, P!Dep!Pushes
<1>3. \A i : P!Dep!ScriptPushes(w, scripts[i], files).profile
                = P!Dep!ScriptProfile(scripts[i].name)
  BY DEF P!Dep!ScriptPushes, P!Dep!Pushes
<1>4. PICK U : pack \in Seq(U)
  BY PackPushesAre
<1> DEFINE V == U \cup ToSet(run) \cup {include, package, convention}
<1>5. /\ pack \in Seq(V) /\ run \in Seq(V)
      /\ \A x \in {include, package, convention} : <<x>> \in Seq(V)
      /\ <<>> \in Seq(V)
  <2>1. /\ DOMAIN run = 1..Len(scripts) /\ Len(scripts) \in Nat
        /\ DOMAIN run = DOMAIN scripts
    OBVIOUS
  <2>2. \A i \in 1..Len(scripts) : run[i] \in V
    BY <2>1 DEF ToSet
  <2>5. run \in [1..Len(scripts) -> V]
    BY <2>1, <2>2
  <2>3. U \subseteq V /\ {include, package, convention} \subseteq V
    OBVIOUS
  <2> HIDE DEF V, run, include, package, convention, pack
  <2>4. run \in Seq(V)
    BY <2>1, <2>5
  <2> QED
    BY <1>4, <2>3, <2>4
<1>6. /\ DOMAIN run = DOMAIN scripts /\ DOMAIN scripts = 1..Len(scripts)
      /\ Len(scripts) \in Nat
      /\ \A i \in DOMAIN scripts : run[i] = P!Dep!ScriptPushes(w, scripts[i], files)
  OBVIOUS
<1>7. running \subseteq DOMAIN scripts
      /\ \A i \in DOMAIN scripts : i \in running <=> f \in run[i].paths
  BY <1>6
<1> HIDE DEF V, run, include, package, convention, pack, running
<1>8. NamedIn(f, run) <=> running # {}
  BY <1>6, <1>7 DEF NamedIn
<1>9. running # {} => (starts(run) <=>
            InProfile(profile, P!Dep!ScriptProfile(scripts[first].name)))
  <2> SUFFICES ASSUME running # {}
               PROVE  starts(run) <=>
                        InProfile(profile, P!Dep!ScriptProfile(scripts[first].name))
    OBVIOUS
  <2>1. running \in SUBSET Nat
    BY <1>6, <1>7
  <2>2. first \in running /\ \A j \in running : first <= j
    BY <2>1, LeastNumber
  <2> HIDE DEF first
  <2>3. first \in DOMAIN run /\ f \in run[first].paths
    BY <1>6, <1>7, <2>2
  <2>4. \A j \in 1..(first - 1) : f \notin run[j].paths
    BY <1>6, <1>7, <2>2
  <2>5. starts(run) <=> InProfile(profile, run[first].profile)
    BY <1>5, <2>3, <2>4, FirstGives
  <2> QED
    BY <1>3, <1>6, <2>3, <2>5
<1>10. \A x \in {include, package, convention} :
            /\ starts(<<x>>) <=> f \in x.paths /\ InProfile(profile, x.profile)
            /\ NamedIn(f, <<x>>) <=> f \in x.paths
  BY OneReason
<1>11. \A x, y \in Seq(V) : /\ x \o y \in Seq(V)
                            /\ starts(x \o y) <=> starts(x) \/ (~NamedIn(f, x) /\ starts(y))
                            /\ NamedIn(f, x \o y) <=> NamedIn(f, x) \/ NamedIn(f, y)
  <2> SUFFICES ASSUME NEW x \in Seq(V), NEW y \in Seq(V)
               PROVE  /\ x \o y \in Seq(V)
                      /\ starts(x \o y) <=> starts(x) \/ (~NamedIn(f, x) /\ starts(y))
                      /\ NamedIn(f, x \o y) <=> NamedIn(f, x) \/ NamedIn(f, y)
    OBVIOUS
  <2>1. x \o y \in Seq(V)
    BY ConcatProperties
  <2>2. /\ starts(x \o y) <=> starts(x) \/ (~NamedIn(f, x) /\ starts(y))
        /\ NamedIn(f, x \o y) <=> NamedIn(f, x) \/ NamedIn(f, y)
    BY StartsGoOn
  <2> QED
    BY <2>1, <2>2
<1>12. starts(run) => NamedIn(f, run)
  BY <1>5, StartsGoOn
<1>13. ~starts(<<>>) /\ ~NamedIn(f, <<>>)
  BY DEF StartsFrom, P!Dep!ForProfile, P!Dep!FirstReasons, NamedIn
<1> DEFINE held(x) == f \in x.paths
           answer == IF held(include) THEN TRUE
                     ELSE IF config.auto /\ held(package) THEN InProfile(profile, "production")
                     ELSE IF config.auto /\ running # {}
                     THEN InProfile(profile, P!Dep!ScriptProfile(scripts[first].name))
                     ELSE IF config.auto /\ held(convention)
                     THEN InProfile(profile, "production")
                     ELSE starts(pack)
           auto == (<<package>> \o run) \o <<convention>>
<1>14. InProfile(profile, "both")
  BY DEF InProfile
<1> HIDE DEF starts, held, first
<1>15. /\ starts(<<include>>) <=> held(include)
       /\ NamedIn(f, <<include>>) <=> held(include)
       /\ starts(<<package>>) <=> held(package) /\ InProfile(profile, "production")
       /\ NamedIn(f, <<package>>) <=> held(package)
       /\ starts(<<convention>>) <=> held(convention) /\ InProfile(profile, "production")
       /\ NamedIn(f, <<convention>>) <=> held(convention)
  BY <1>2, <1>10, <1>14 DEF held
<1>16. /\ auto \in Seq(V)
       /\ starts(auto) <=> \/ held(package) /\ InProfile(profile, "production")
                           \/ ~held(package) /\ starts(run)
                           \/ /\ ~held(package) /\ running = {}
                              /\ held(convention) /\ InProfile(profile, "production")
       /\ NamedIn(f, auto) <=> held(package) \/ running # {} \/ held(convention)
  <2> DEFINE most == <<package>> \o run
  <2>1. <<package>> \in Seq(V) /\ <<convention>> \in Seq(V)
    BY <1>5
  <2>2. /\ most \in Seq(V)
        /\ starts(most) <=> starts(<<package>>)
                            \/ (~NamedIn(f, <<package>>) /\ starts(run))
        /\ NamedIn(f, most) <=> NamedIn(f, <<package>>) \/ NamedIn(f, run)
    BY <1>5, <1>11, <2>1
  <2> HIDE DEF most
  <2>3. /\ most \o <<convention>> \in Seq(V)
        /\ starts(most \o <<convention>>) <=>
                starts(most) \/ (~NamedIn(f, most) /\ starts(<<convention>>))
        /\ NamedIn(f, most \o <<convention>>) <=>
                NamedIn(f, most) \/ NamedIn(f, <<convention>>)
    BY <1>11, <2>1, <2>2
  <2>4. auto = most \o <<convention>>
    BY DEF most
  <2> HIDE DEF auto
  <2> QED
    BY <1>8, <1>15, <2>2, <2>3, <2>4, Zenon
<1> HIDE DEF auto
<1>17. CASE config.auto
  <2>1. detected = P!Dep!FirstReasons(w, (<<include>> \o auto) \o pack)
    BY <1>1, <1>17 DEF auto
  <2>2. starts((<<include>> \o auto) \o pack) <=>
            \/ held(include)
            \/ ~held(include) /\ starts(auto)
            \/ ~held(include) /\ ~NamedIn(f, auto) /\ starts(pack)
    <3> DEFINE most == <<include>> \o auto
    <3>1. <<include>> \in Seq(V) /\ auto \in Seq(V) /\ pack \in Seq(V)
      BY <1>5, <1>16
    <3>2. /\ most \in Seq(V)
          /\ starts(most) <=> starts(<<include>>) \/ (~NamedIn(f, <<include>>) /\ starts(auto))
          /\ NamedIn(f, most) <=> NamedIn(f, <<include>>) \/ NamedIn(f, auto)
      BY <1>11, <3>1
    <3> HIDE DEF most
    <3>3. starts(most \o pack) <=> starts(most) \/ (~NamedIn(f, most) /\ starts(pack))
      BY <1>11, <3>1, <3>2
    <3>4. starts(most \o pack) <=>
            \/ held(include)
            \/ ~held(include) /\ starts(auto)
            \/ ~held(include) /\ ~NamedIn(f, auto) /\ starts(pack)
      BY <1>15, <3>2, <3>3
    <3> QED
      BY <3>4 DEF most
  <2>3. starts((<<include>> \o auto) \o pack) <=> answer
    BY <1>9, <1>8, <1>12, <1>16, <1>17, <2>2
  <2> QED
    BY <2>1, <2>3 DEF starts, held, include, package, convention, pack, running, first
<1>18. CASE ~config.auto
  <2>1. detected = P!Dep!FirstReasons(w, (<<include>> \o <<>>) \o pack)
    BY <1>1, <1>18
  <2>2. starts((<<include>> \o <<>>) \o pack) <=> held(include) \/ starts(pack)
    <3>1. <<include>> \o <<>> = <<include>> /\ <<include>> \in Seq(V)
      BY <1>5
    <3>2. starts(<<include>> \o pack) <=>
                starts(<<include>>) \/ (~NamedIn(f, <<include>>) /\ starts(pack))
      BY <1>5, <1>11, <3>1
    <3> QED
      BY <1>15, <3>1, <3>2
  <2>3. starts((<<include>> \o <<>>) \o pack) <=> answer
    BY <1>18, <2>2
  <2> QED
    BY <2>1, <2>3 DEF starts, held, include, package, convention, pack, running, first
<1> QED
  BY <1>17, <1>18

(* The seeds of a workspace name it, and a source that orders them. *)
LEMMA DetectedAreOrdered ==
  ASSUME NEW w, NEW X, w.manifest.scripts \in Seq(X), NEW Y, NEW packs \in Seq(Y),
         NEW config, NEW toggles, NEW files, NEW tracked,
         NEW s \in P!Dep!DetectEntrypoints(w, config, toggles, packs, files, tracked)
  PROVE  s.workspace = w.name /\ s.source \in ToSet(P!Dep!SourceOrder)
<1> DEFINE scripts == w.manifest.scripts
           include == P!Dep!IncludePushes(w, config, files)
           package == P!Dep!PackagePushes(w, files)
           run == [i \in DOMAIN scripts |-> P!Dep!ScriptPushes(w, scripts[i], files)]
           convention == P!Dep!ConventionPushes(w, files)
           pack == P!Dep!PackPushes(w, packs, toggles, tracked)
           known == {"config", "convention", "framework-auto-load", "framework",
                     "package-script", "package"}
           Known(q) == \A v \in ToSet(q) : v.source \in known
           auto == IF config.auto THEN (<<package>> \o run) \o <<convention>> ELSE <<>>
           all == (<<include>> \o auto) \o pack
<1>1. s \in P!Dep!FirstReasons(w, all)
  BY DEF P!Dep!DetectEntrypoints
<1>2. /\ include.source = "config" /\ package.source = "package"
      /\ convention.source = "convention"
      /\ \A i : P!Dep!ScriptPushes(w, scripts[i], files).source = "package-script"
  BY DEF P!Dep!IncludePushes, P!Dep!PackagePushes, P!Dep!ConventionPushes,
         P!Dep!ScriptPushes, P!Dep!Pushes
<1>3. (\E U : pack \in Seq(U)) /\ Known(pack)
  BY PackPushesAre
<1>4. PICK U : pack \in Seq(U)
  BY <1>3
<1> DEFINE V == U \cup ToSet(run) \cup {include, package, convention}
<1>5. /\ \A x \in {include, package, convention} : <<x>> \in Seq(V) /\ Known(<<x>>)
      /\ run \in Seq(V) /\ Known(run)
      /\ pack \in Seq(V)
      /\ <<>> \in Seq(V) /\ Known(<<>>)
  <2>1. /\ DOMAIN run = 1..Len(scripts) /\ Len(scripts) \in Nat
        /\ DOMAIN run = DOMAIN scripts
    OBVIOUS
  <2>2. \A i \in 1..Len(scripts) : run[i] \in V
    BY <2>1 DEF ToSet
  <2>3. run \in [1..Len(scripts) -> V]
    BY <2>1, <2>2
  <2>4. U \subseteq V /\ {include, package, convention} \subseteq V
    OBVIOUS
  <2>5. Known(run)
    BY <1>2 DEF ToSet
  <2>6. \A x : ToSet(<<x>>) = {x}
    BY DEF ToSet
  <2>7. ToSet(<<>>) = {}
    BY DEF ToSet
  <2> HIDE DEF V, run, include, package, convention, pack
  <2>8. run \in Seq(V)
    BY <2>1, <2>3
  <2>9. \A x \in {include, package, convention} : <<x>> \in Seq(V) /\ Known(<<x>>)
    BY <1>2, <2>4, <2>6
  <2> QED
    BY <1>4, <2>4, <2>5, <2>7, <2>8, <2>9
<1> HIDE DEF V, run, include, package, convention, pack
<1>6. ASSUME NEW x \in Seq(V), NEW y \in Seq(V), Known(x), Known(y)
      PROVE  x \o y \in Seq(V) /\ Known(x \o y)
  <2>1. ToSet(x \o y) = ToSet(x) \cup ToSet(y)
    BY ConcatNames
  <2>2. x \o y \in Seq(V)
    BY ConcatProperties
  <2> QED
    BY <1>6, <2>1, <2>2
<1> HIDE DEF Known
<1>7. auto \in Seq(V) /\ Known(auto)
  <2>1. <<package>> \o run \in Seq(V) /\ Known(<<package>> \o run)
    BY <1>5, <1>6
  <2> QED
    BY <1>5, <1>6, <2>1
<1> HIDE DEF auto
<1>8. <<include>> \o auto \in Seq(V) /\ Known(<<include>> \o auto)
  BY <1>5, <1>6, <1>7
<1>9. all \in Seq(V) /\ Known(all)
  BY <1>3, <1>5, <1>6, <1>8
<1> HIDE DEF all
<1>10. PICK k \in DOMAIN all : \E p \in all[k].paths :
            s = P!Dep!Seed(p, all[k].kind, all[k].profile, w.name, all[k].source)
  BY <1>1, <1>9, ReasonsOf
<1>11. s.workspace = w.name /\ s.source = all[k].source
  BY <1>10 DEF P!Dep!Seed
<1>12. all[k].source \in known
  BY <1>9, <1>10 DEF Known, ToSet
<1>13. known \subseteq ToSet(P!Dep!SourceOrder)
  <2>1. /\ DOMAIN P!Dep!SourceOrder = 1..6
        /\ P!Dep!SourceOrder[1] = "config" /\ P!Dep!SourceOrder[2] = "convention"
        /\ P!Dep!SourceOrder[3] = "framework-auto-load"
        /\ P!Dep!SourceOrder[4] = "framework"
        /\ P!Dep!SourceOrder[5] = "package-script" /\ P!Dep!SourceOrder[6] = "package"
    BY DEF P!Dep!SourceOrder
  <2> QED
    BY <2>1 DEF ToSet
<1> QED
  BY <1>11, <1>12, <1>13

(* The packs that a workspace is asked for are a sequence. *)
LEMMA PacksAreListed ==
  ASSUME NEW w, NEW workspaces, NEW files
  PROVE  \E Y : P!Dep!PacksFor(w, workspaces, files) \in Seq(Y)
<1> DEFINE S == {P!Dep!Relative(f, w) : f \in {g \in files : P!Dep!Inside(g, w.root)}}
           packs == P!Dep!PacksOf(w.manifest, S)
           Y == ToSet(packs)
<1>1. PICK n \in Nat : DOMAIN P!Dep!BuiltInPacks = 1..n
  <2>1. 23 \in Nat /\ DOMAIN P!Dep!BuiltInPacks = 1..23
    BY DEF P!Dep!BuiltInPacks
  <2> QED
    BY <2>1
<1>2. packs \in [1..n -> Y]
  BY <1>1 DEF P!Dep!PacksOf, ToSet
<1> HIDE DEF packs, Y, S
<1>3. packs \in Seq(Y)
  BY <1>2
<1> QED
  <2>1. <<>> \in Seq(Y)
    OBVIOUS
  <2>2. P!Dep!PacksFor(w, workspaces, files) \in {<<>>, packs}
    BY DEF P!Dep!PacksFor, packs, S
  <2> QED
    BY <1>3, <2>1, <2>2

(* All workspaces together start from what one of them starts from, when   *)
(* no filter drops it: that the workspaces are asked in some order, and    *)
(* that many may name one file, decides nothing (build.rs:1387).           *)
THEOREM WorkspacesAddUp ==
  ASSUME NEW W, NEW order \in Seq(W),
         \A w \in ToSet(order) : \E X : w.manifest.scripts \in Seq(X),
         NEW config, NEW toggles, NEW excluded, NEW scanRoots, NEW files, NEW tracked,
         NEW f, NEW profile
  PROVE  StartsFrom(f, profile,
            P!Dep!DetectAllEntrypoints(order, config, toggles, excluded, scanRoots,
                                       files, tracked)) <=>
         \E w \in ToSet(order) :
            StartsFrom(f, profile,
                {s \in P!Dep!DetectEntrypoints(w, config, toggles,
                            P!Dep!PacksFor(w, ToSet(order), files), files, tracked) :
                    P!Dep!Kept(s, config, excluded, scanRoots)})
<1> DEFINE detected(w) == P!Dep!DetectEntrypoints(w, config, toggles,
                            P!Dep!PacksFor(w, ToSet(order), files), files, tracked)
           kept(w) == {s \in detected(w) : P!Dep!Kept(s, config, excluded, scanRoots)}
           seeds == UNION {kept(w) : w \in ToSet(order)}
<1>1. P!Dep!DetectAllEntrypoints(order, config, toggles, excluded, scanRoots, files,
                                 tracked) = P!Dep!Deduplicated(seeds, order)
  BY DEF P!Dep!DetectAllEntrypoints, P!Dep!ToSet, ToSet
<1>2. ASSUME NEW s \in seeds
      PROVE  /\ s.source \in ToSet(P!Dep!SourceOrder)
             /\ \E i \in DOMAIN order : order[i].name = s.workspace
  <2>1. PICK w \in ToSet(order) : s \in detected(w)
    OBVIOUS
  <2> HIDE DEF seeds, kept
  <2>2. \E Y : P!Dep!PacksFor(w, ToSet(order), files) \in Seq(Y)
    BY PacksAreListed
  <2>3. s.workspace = w.name /\ s.source \in ToSet(P!Dep!SourceOrder)
    BY <2>1, <2>2, DetectedAreOrdered
  <2>4. PICK i \in DOMAIN order : order[i] = w
    BY DEF ToSet
  <2> QED
    BY <2>3, <2>4
<1>3. \A s : s \in seeds <=> \E w \in ToSet(order) : s \in kept(w)
  OBVIOUS
<1> HIDE DEF seeds, kept
<1>4. StartsFrom(f, profile, P!Dep!Deduplicated(seeds, order))
            <=> StartsFrom(f, profile, seeds)
  BY <1>2, DuplicatesLoseNothing
<1>5. StartsFrom(f, profile, seeds) <=> \E w \in ToSet(order) : StartsFrom(f, profile, kept(w))
  BY <1>3 DEF StartsFrom, P!Dep!ForProfile
<1> QED
  BY <1>1, <1>4, <1>5 DEF kept

(* What tools and patterns name is added to what the workspaces start      *)
(* from, and takes nothing from it (build.rs, inject_config_entrypoints).  *)
THEOREM ToolsOnlyAdd ==
  ASSUME NEW seeds, NEW inputs, NEW workspaces, NEW order, NEW files, NEW tracked,
         NEW f, NEW profile
  PROVE  LET all == P!Dep!WildcardSeeds(P!Dep!InjectConfigEntrypoints(seeds, inputs,
                            workspaces, order, files, tracked), workspaces, tracked)
         IN /\ StartsFrom(f, profile, seeds) => StartsFrom(f, profile, all)
            /\ \A s \in all : s \notin seeds => \A t \in seeds : t.path # s.path
<1> DEFINE injected == P!Dep!InjectConfigEntrypoints(seeds, inputs, workspaces, order,
                                                    files, tracked)
           all == P!Dep!WildcardSeeds(injected, workspaces, tracked)
           existing == {s.path : s \in seeds}
<1>1. seeds \subseteq injected /\ injected \subseteq all
  BY DEF P!Dep!InjectConfigEntrypoints, P!Dep!WildcardSeeds
<1>2. \A s \in injected : s \notin seeds => s.path \notin existing
  <2> DEFINE new(S) == \A s \in S : s.path \notin existing
  <2>1. new(P!Dep!InjectedFiles(inputs, existing, files))
    BY DEF P!Dep!InjectedFiles, P!Dep!Injected, P!Dep!Seed
  <2>2. new(P!Dep!InjectedTests(inputs, workspaces, order, existing, tracked))
    BY DEF P!Dep!InjectedTests, P!Dep!MatchedIn, P!Dep!Seed
  <2>3. new(P!Dep!InjectedSetup(order, existing, tracked))
    BY DEF P!Dep!InjectedSetup, P!Dep!Seed
  <2>4. new(P!Dep!InjectedVariants(existing, tracked))
    <3>1. \A s \in P!Dep!InjectedVariants(existing, tracked) :
                \E g \in tracked \ existing :
                    s = P!Dep!Seed(g, "framework", "development", None, "dev-variant")
      BY Zenon DEF P!Dep!InjectedVariants
    <3>2. \A g : P!Dep!Seed(g, "framework", "development", None, "dev-variant").path = g
      BY DEF P!Dep!Seed
    <3> QED
      BY <3>1, <3>2
  <2>5. new(P!Dep!InjectedRoutes(inputs, order, existing, tracked))
    BY DEF P!Dep!InjectedRoutes, P!Dep!MatchedIn, P!Dep!Seed
  <2> HIDE DEF existing
  <2>6. injected = seeds \cup P!Dep!InjectedFiles(inputs, existing, files)
                    \cup P!Dep!InjectedTests(inputs, workspaces, order, existing, tracked)
                    \cup P!Dep!InjectedSetup(order, existing, tracked)
                    \cup P!Dep!InjectedVariants(existing, tracked)
                    \cup P!Dep!InjectedRoutes(inputs, order, existing, tracked)
    BY DEF P!Dep!InjectConfigEntrypoints, existing
  <2> HIDE DEF injected
  <2> QED
    BY <2>1, <2>2, <2>3, <2>4, <2>5, <2>6
<1> HIDE DEF injected
<1>3. \A s \in all : s \notin injected => \A t \in injected : t.path # s.path
  BY DEF P!Dep!WildcardSeeds, P!Dep!Seed
<1>4. \A s \in all : s \notin seeds => \A t \in seeds : t.path # s.path
  BY <1>1, <1>2, <1>3
<1> HIDE DEF all
<1>5. StartsFrom(f, profile, seeds) => StartsFrom(f, profile, all)
  BY <1>1 DEF StartsFrom, P!Dep!ForProfile
<1> QED
  BY <1>4, <1>5 DEF all, injected

(* The file that a question is about *)
Published == P!InPkg(P!Lib)

(* A word and a word are a pair; nothing adds nothing; and a function from *)
(* the numbers up to n is a list of n.                                     *)
LEMMA Pairs ==
  ASSUME NEW a, NEW b
  PROVE  <<a>> \o <<b>> = <<a, b>>
<1> DEFINE z == <<a>> \o <<b>>
           pair == <<a, b>>
<1>1. <<a>> \in Seq({a, b}) /\ <<b>> \in Seq({a, b}) /\ pair \in Seq({a, b})
      /\ Len(<<a>>) = 1 /\ Len(<<b>>) = 1 /\ Len(pair) = 2
      /\ pair[1] = a /\ pair[2] = b
  OBVIOUS
<1>2. z \in Seq({a, b}) /\ Len(z) = 2
  BY <1>1, ConcatProperties
<1>3. z[1] = a /\ z[2] = b
  OBVIOUS
<1> HIDE DEF z, pair
<1>4. \A i \in 1..Len(z) : z[i] = pair[i]
  BY <1>1, <1>2, <1>3
<1>5. z = pair
  BY <1>1, <1>2, <1>4, SeqEqual
<1> QED
  BY <1>5 DEF z, pair

LEMMA NothingBefore ==
  ASSUME NEW V, NEW x \in Seq(V)
  PROVE  <<>> \o x = x /\ x \o <<>> = x
  OBVIOUS

LEMMA ListsAre ==
  ASSUME NEW V, NEW n \in Nat, NEW a \in [1..n -> V]
  PROVE  a \in Seq(V) /\ Len(a) = n
  OBVIOUS

(* The directories and the names of the files of a question *)
LEMMA PathsAre ==
  /\ P!Lib.dirs = <<"src">> /\ P!Lib.name = <<"lib", "ts">>
  /\ Published.dirs = <<"pkg", "src">> /\ Published.name = <<"lib", "ts">>
  /\ P!InPkg(P!LibTest).name = <<"lib", "test", "ts">>
  /\ P!InPkg(P!Example).dirs = <<"pkg", "examples">>
  /\ P!RootMain.name = <<"index", "ts">>
<1>1. /\ <<"pkg">> \o <<"src">> = <<"pkg", "src">>
      /\ <<"pkg">> \o <<"examples">> = <<"pkg", "examples">>
  BY Pairs
<1>2. P!Lib.dirs = <<"src">> /\ P!Lib.name = <<"lib", "ts">>
  BY DEF P!Lib, P!At
<1>3. /\ Published.dirs = <<"pkg", "src">> /\ Published.name = <<"lib", "ts">>
  BY <1>1 DEF Published, P!InPkg, P!Lib, P!At
<1>4. P!InPkg(P!LibTest).name = <<"lib", "test", "ts">>
  BY DEF P!InPkg, P!LibTest, P!At
<1>5. P!InPkg(P!Example).dirs = <<"pkg", "examples">>
  BY <1>1 DEF P!InPkg, P!Example, P!At
<1>6. P!RootMain.name = <<"index", "ts">>
  BY DEF P!RootMain, P!At
<1> QED
  BY <1>2, <1>3, <1>4, <1>5, <1>6

(* Where a path of a workspace is *)
LEMMA InAre ==
  /\ P!Dep!In(<<"pkg">>, P!Lib) = Published
  /\ P!Dep!In(<<"pkg">>, P!LibTest) # Published
  /\ P!Dep!In(<<"pkg">>, P!Example) # Published
  /\ P!Dep!In(<<>>, Published) = Published
  /\ P!Dep!In(<<>>, P!Lib) # Published
<1>1. /\ <<"pkg">> \o <<"examples">> = <<"pkg", "examples">>
      /\ <<>> \o <<"pkg", "src">> = <<"pkg", "src">>
      /\ <<>> \o <<"src">> = <<"src">>
  BY Pairs
<1>2. P!Dep!In(<<"pkg">>, P!Lib) = Published
  BY DEF P!Dep!In, Published, P!InPkg
<1>3. P!Dep!In(<<"pkg">>, P!LibTest).name = <<"lib", "test", "ts">>
  BY DEF P!Dep!In, P!LibTest, P!At
<1>4. P!Dep!In(<<"pkg">>, P!Example).dirs = <<"pkg", "examples">>
  BY <1>1 DEF P!Dep!In, P!Example, P!At
<1>5. P!Dep!In(<<>>, Published) = Published
  BY <1>1, PathsAre DEF P!Dep!In, Published, P!InPkg, P!Lib, P!At
<1>6. P!Dep!In(<<>>, P!Lib).dirs = <<"src">>
  BY <1>1 DEF P!Dep!In, P!Lib, P!At
<1>7. /\ <<"lib", "test", "ts">> # <<"lib", "ts">>
      /\ <<"pkg", "examples">> # <<"pkg", "src">> /\ <<"src">> # <<"pkg", "src">>
  OBVIOUS
<1> QED
  BY <1>2, <1>3, <1>4, <1>5, <1>6, <1>7, PathsAre

(* What the rules say of the file *)
LEMMA PublishedIsSource ==
  /\ P!Dep!IsTrackedSource(Published) /\ ~P!Dep!Skipped(Published)
  /\ P!Dep!Role(Published) = "source"
  /\ ~P!Dep!IsTestName(Published) /\ ~P!Dep!IsStoryName(Published)
  /\ ~P!Dep!Inside(Published, <<"src">>)
<1> DEFINE L == Published
<1>1. L.dirs = <<"pkg", "src">> /\ L.name = <<"lib", "ts">>
  BY PathsAre
<1> HIDE DEF L
<1>2. Len(L.name) = 2 /\ Len(L.dirs) = 2 /\ L.name[2] = "ts" /\ L.dirs # <<>>
      /\ L.dirs[1] = "pkg" /\ L.dirs[2] = "src" /\ Head(L.dirs) = "pkg"
  BY <1>1
<1>3. P!Dep!Ext(L) = "ts"
  BY <1>2 DEF P!Dep!Ext, P!Dep!Last
<1>4. P!Dep!SourceKind(L) = "ts"
  BY <1>2, <1>3 DEF P!Dep!SourceKind
<1>5. P!Dep!IsTrackedSource(L)
  BY <1>4, NoneIsNoFile DEF P!Dep!IsTrackedSource
<1>6. \A S : ~P!Dep!NameHas(L, S)
  BY <1>2 DEF P!Dep!NameHas
<1>7. P!Dep!ToSet(L.dirs) = {"pkg", "src"}
  BY <1>1 DEF P!Dep!ToSet
<1>8. \A S : {"pkg", "src"} \cap S = {} => ~P!Dep!Within(L, S)
  BY <1>7 DEF P!Dep!Within
<1>9. \A S : "src" \notin S => ~P!Dep!Below(L, S)
  BY <1>2 DEF P!Dep!Below
<1>10. \A S : "pkg" \notin S => ~P!Dep!At(L, S)
  BY <1>2 DEF P!Dep!At
<1>11. ~P!Dep!Skipped(L)
  BY <1>7 DEF P!Dep!Skipped
<1>12. L.name \notin {<<"package", "json">>, <<"tsconfig", "json">>,
                      <<"tsconfig", "base", "json">>}
  BY <1>1
<1>13. ~P!Dep!Inside(L, <<"src">>)
  <2>1. SubSeq(<<"src">>, 1, 1)[1] = "src" /\ SubSeq(<<"pkg", "src">>, 1, 1)[1] = "pkg"
        /\ Len(<<"src">>) = 1
    OBVIOUS
  <2> QED
    BY <1>1, <2>1 DEF P!Dep!Inside, P!Dep!IsPrefix
<1>14. P!Dep!Role(L) = "source"
  <2> DEFINE rules == P!Dep!RoleRules(L)
  <2>1. DOMAIN rules = 1..13 /\ rules[13][1] = "source" /\ rules[13][2] = TRUE
    BY DEF P!Dep!RoleRules
  <2>2. /\ ~rules[1][2] /\ ~rules[2][2] /\ ~rules[3][2] /\ ~rules[4][2]
        /\ ~rules[5][2] /\ ~rules[6][2] /\ ~rules[7][2]
    BY <1>6, <1>8, <1>9 DEF P!Dep!RoleRules
  <2>3. /\ ~rules[8][2] /\ ~rules[9][2] /\ ~rules[10][2] /\ ~rules[11][2]
        /\ ~rules[12][2]
    BY <1>6, <1>8, <1>9, <1>10, <1>12 DEF P!Dep!RoleRules, P!Dep!Generated
  <2> HIDE DEF rules
  <2>4. {k \in DOMAIN rules : rules[k][2]} = {13}
    BY <2>1, <2>2, <2>3
  <2>5. (CHOOSE k \in {13} : \A j \in {13} : k <= j) = 13
    OBVIOUS
  <2>6. P!Dep!FirstThat(rules) = "source"
    BY <2>1, <2>4, <2>5 DEF P!Dep!FirstThat
  <2> QED
    BY <2>6 DEF P!Dep!Role, rules
<1> QED
  BY <1>5, <1>6, <1>11, <1>13, <1>14 DEF P!Dep!IsTestName, P!Dep!IsStoryName, L

(* It is a file of the project. *)
LEMMA PublishedIsThere == Published \in P!ProjectFiles
  BY DEF Published, P!ProjectFiles

(* What the configuration includes *)
LEMMA IncludedAre ==
  ASSUME NEW w, NEW config, config.include \in {{}, {P!Lib}}
  PROVE  /\ w.root = <<"pkg">> =>
                (Published \in P!Dep!IncludePushes(w, config, P!ProjectFiles).paths
                    <=> P!Lib \in config.include)
         /\ w.root = <<>> =>
                Published \notin P!Dep!IncludePushes(w, config, P!ProjectFiles).paths
<1>1. P!Dep!IncludePushes(w, config, P!ProjectFiles).paths =
            {P!Dep!In(w.root, p) : p \in config.include} \cap P!ProjectFiles
  BY DEF P!Dep!IncludePushes, P!Dep!Pushes, P!Dep!AllIn
<1> QED
  BY <1>1, InAre, PublishedIsThere

(* What a manifest of this shape names *)
LEMMA ManifestsName ==
  ASSUME NEW name, NEW main, NEW scripts, NEW file, NEW dev
  PROVE  LET m == P!Manifest(name, main, scripts, file, dev)
         IN /\ P!Dep!EntrypointFiles(m) = {main} \ {None}
            /\ \A S : P!Dep!ExpandWildcardExports(m, S) = {}
<1> DEFINE m == P!Manifest(name, main, scripts, file, dev)
<1>1. /\ m.main = main /\ m.module = None /\ m.types = None /\ m.typings = None
      /\ m.bin = {} /\ m.browser = {} /\ m.exports = {}
  BY DEF P!Manifest
<1> HIDE DEF m
<1>2. P!Dep!EntrypointFiles(m) = {main} \ {None}
  BY <1>1 DEF P!Dep!EntrypointFiles
<1>3. \A S : P!Dep!ExpandWildcardExports(m, S) = {}
  BY <1>1 DEF P!Dep!ExpandWildcardExports
<1> QED
  BY <1>2, <1>3 DEF m

(* What is built from a source is replaced by it (resolve_dist_to_source). *)
LEMMA BuiltIsPublished ==
  P!Dep!ResolveDistToSource(<<"pkg">>, P!Built, P!ProjectFiles) = Published
<1> DEFINE p == P!Built
           bare == <<"lib">>
           at(top, n) == [i \in 1..n |->
                P!Dep!In(<<"pkg">>, [dirs |-> top \o <<>>,
                                     name |-> Append(bare, P!Dep!SourceExtensions[i])])]
           all == at(<<"src">>, 6) \o at(<<>>, 4)
           there == {i \in DOMAIN all : all[i] \in P!ProjectFiles}
<1>1. /\ p.dirs = <<"dist">> /\ p.name = <<"lib", "js">> /\ Tail(p.dirs) = <<>>
      /\ Len(p.name) = 2 /\ p.name[1] = "lib" /\ Head(p.dirs) = "dist" /\ p.dirs # <<>>
  BY DEF P!Built, P!At
<1>2. P!Dep!ResolveDistToSource(<<"pkg">>, p, P!ProjectFiles)
            = P!Dep!FirstOf(all, P!ProjectFiles)
  <2> HIDE DEF p
  <2> QED
    BY <1>1 DEF P!Dep!ResolveDistToSource, P!Dep!At
<1>3. at(<<"src">>, 6)[1] = Published
  <2>1. <<"src">> \o <<>> = <<"src">>
    <3>1. <<"src">> \in Seq({"src"})
      OBVIOUS
    <3> QED
      BY <3>1, NothingBefore
  <2>3. Append(<<"lib">>, "ts") = <<"lib", "ts">>
    <3>1. <<"lib">> \in Seq({"lib", "ts"}) /\ "ts" \in {"lib", "ts"}
      OBVIOUS
    <3>2. Append(<<"lib">>, "ts") = <<"lib">> \o <<"ts">>
      BY <3>1, AppendIsConcat
    <3> QED
      BY <3>2, Pairs
  <2>4. P!Dep!SourceExtensions[1] = "ts"
    BY DEF P!Dep!SourceExtensions
  <2>2. [dirs |-> <<"src">>, name |-> <<"lib", "ts">>] = P!Lib
    BY DEF P!Lib, P!At
  <2> QED
    BY <2>1, <2>2, <2>3, <2>4, InAre
<1> DEFINE a == at(<<"src">>, 6)
           b == at(<<>>, 4)
           V == ToSet(a) \cup ToSet(b)
<1>4. a \in [1..6 -> V] /\ b \in [1..4 -> V]
  BY DEF ToSet
<1> HIDE DEF a, b, V
<1>5. a \in Seq(V) /\ b \in Seq(V) /\ Len(a) = 6 /\ Len(b) = 4
  <2>1. 6 \in Nat /\ 4 \in Nat
    OBVIOUS
  <2>2. a \in Seq(V) /\ Len(a) = 6
    BY <1>4, <2>1, ListsAre, Zenon
  <2>3. b \in Seq(V) /\ Len(b) = 4
    BY <1>4, <2>1, ListsAre, Zenon
  <2> QED
    BY <2>2, <2>3
<1>6. DOMAIN all = 1..10 /\ all[1] = Published
  <2>1. a \o b \in Seq(V) /\ Len(a \o b) = 10 /\ (a \o b)[1] = a[1]
    <3>1. /\ a \o b \in Seq(V) /\ Len(a \o b) = Len(a) + Len(b)
          /\ \A i \in 1..(Len(a) + Len(b)) :
                (a \o b)[i] = IF i <= Len(a) THEN a[i] ELSE b[i - Len(a)]
      BY <1>5, ConcatProperties
    <3>2. 6 + 4 = 10 /\ 1 \in 1..10 /\ 1 <= 6
      OBVIOUS
    <3> QED
      BY <1>5, <3>1, <3>2
  <2>2. DOMAIN (a \o b) = 1..10
    BY <2>1
  <2> QED
    BY <1>3, <2>1, <2>2 DEF a, b
<1> HIDE DEF all
<1>7. there \subseteq 1..10 /\ 1 \in there
  BY <1>6, PublishedIsThere
<1> DEFINE first == CHOOSE i \in there : \A j \in there : i <= j
<1>8. first \in there /\ \A j \in there : first <= j
  <2>1. \A j \in there : 1 <= j
    BY <1>7
  <2> QED
    BY <1>7, <2>1
<1>9. first = 1
  BY <1>7, <1>8
<1>10. P!Dep!FirstOf(all, P!ProjectFiles) = IF there = {} THEN None ELSE all[first]
  BY DEF P!Dep!FirstOf
<1> QED
  BY <1>2, <1>6, <1>7, <1>9, <1>10

(* What the manifest publishes, as itself or as what it is built to *)
LEMMA PublishedAre ==
  ASSUME NEW main \in {None, P!Lib, P!Built, P!LibTest, P!Example}, NEW w,
         P!Dep!EntrypointFiles(w.manifest) = {main} \ {None}
  PROVE  /\ w.root = <<"pkg">> =>
                (Published \in P!Dep!PackagePushes(w, P!ProjectFiles).paths
                    <=> main \in {P!Lib, P!Built})
         /\ w.root = <<>> /\ main = None =>
                Published \notin P!Dep!PackagePushes(w, P!ProjectFiles).paths
<1> DEFINE entry(p) == P!Dep!PackageEntry(w.root, p, P!ProjectFiles)
<1>1. P!Dep!PackagePushes(w, P!ProjectFiles).paths =
            {entry(p) : p \in {main} \ {None}} \cap P!ProjectFiles
  BY DEF P!Dep!PackagePushes, P!Dep!Pushes
<1>2. \A p \in {P!Lib, P!LibTest, P!Example} : ~P!Dep!At(p, {"dist", "build", "out", "lib"})
  <2>1. /\ P!Lib.dirs = <<"src">> /\ P!LibTest.dirs = <<"src">>
        /\ P!Example.dirs = <<"examples">>
    BY DEF P!Lib, P!LibTest, P!Example, P!At
  <2>2. \A x : Head(<<x>>) = x
    OBVIOUS
  <2>3. {"src", "examples"} \cap {"dist", "build", "out", "lib"} = {}
    OBVIOUS
  <2> QED
    BY <2>1, <2>2, <2>3 DEF P!Dep!At
<1>3. \A p \in {P!Lib, P!LibTest, P!Example} : entry(p) = P!Dep!In(w.root, p)
  BY <1>2, Zenon DEF P!Dep!PackageEntry, P!Dep!ResolveDistToSource
<1>4. w.root = <<"pkg">> => entry(P!Built) = Published
  BY BuiltIsPublished, NoneIsNoFile DEF P!Dep!PackageEntry, Published
<1> HIDE DEF entry
<1>5. /\ None \notin {P!Lib, P!LibTest, P!Example, P!Built}
      /\ P!LibTest \notin {P!Lib, P!Built} /\ P!Example \notin {P!Lib, P!Built}
  <2>1. /\ P!Lib.name = <<"lib", "ts">> /\ P!Built.name = <<"lib", "js">>
        /\ P!LibTest.name = <<"lib", "test", "ts">> /\ P!Example.name = <<"lib", "ts">>
        /\ P!Example.dirs = <<"examples">> /\ P!Lib.dirs = <<"src">>
    BY DEF P!Lib, P!LibTest, P!Example, P!Built, P!At
  <2>2. /\ <<"lib", "test", "ts">> # <<"lib", "ts">>
        /\ <<"lib", "test", "ts">> # <<"lib", "js">> /\ <<"examples">> # <<"src">>
        /\ <<"lib", "ts">> # <<"lib", "js">>
    OBVIOUS
  <2> QED
    BY <2>1, <2>2, NoneIsNoFile
<1>6. CASE w.root = <<"pkg">>
  <2>1. main = P!Lib => entry(main) = Published
    BY <1>3, <1>6, InAre
  <2>2. main = P!Built => entry(main) = Published
    BY <1>4, <1>6
  <2>3. main \in {P!LibTest, P!Example} => entry(main) # Published
    BY <1>3, <1>6, InAre
  <2>4. w.root # <<>>
    BY <1>6
  <2> QED
    BY <1>1, <1>5, <2>1, <2>2, <2>3, <2>4, PublishedIsThere
<1>7. CASE w.root = <<>> /\ main = None
  <2>1. w.root # <<"pkg">>
    BY <1>7
  <2> QED
    BY <1>1, <1>7, <2>1
<1> QED
  BY <1>6, <1>7

(* No convention names the file. *)
LEMMA NotConventional ==
  ASSUME NEW w
  PROVE  Published \notin P!Dep!ConventionPushes(w, P!ProjectFiles).paths
<1>1. \A p \in P!Dep!ConventionFiles : p.name # <<"lib", "ts">>
  <2>1. \A n, ext : n # "lib" => <<n, ext>> # <<"lib", "ts">>
    OBVIOUS
  <2> QED
    BY <2>1 DEF P!Dep!ConventionFiles
<1>2. \A p \in P!Dep!ConventionFiles : P!Dep!In(w.root, p).name = p.name
  BY DEF P!Dep!ConventionFiles, P!Dep!In
<1>3. P!Dep!ConventionPushes(w, P!ProjectFiles).paths =
            {P!Dep!In(w.root, p) : p \in P!Dep!ConventionFiles} \cap P!ProjectFiles
  BY DEF P!Dep!ConventionPushes, P!Dep!Pushes, P!Dep!AllIn
<1> QED
  BY <1>1, <1>2, <1>3, PathsAre

(* Where no word is a flag, none is skipped. *)
LEMMA NothingToSkip ==
  ASSUME NEW V, NEW words \in Seq(V), NEW start \in 1..Len(words), NEW valued, NEW stop,
         \A i \in DOMAIN words : ~words[i].flag /\ words[i].word \notin valued
  PROVE  P!Dep!AfterFlags(words, start, valued, stop) = start
<1> DEFINE n == Len(words) + 2
           next(f, i) == IF i > Len(words) THEN i
                         ELSE IF words[i].word \in valued THEN f[i + 2]
                         ELSE IF words[i].flag /\ words[i].word \notin stop THEN f[i + 1]
                         ELSE i
           Is(f) == f = [i \in 1..n |-> next(f, i)]
           f == CHOOSE g : Is(g)
<1>1. P!Dep!AfterFlags(words, start, valued, stop) = f[start]
  BY DEF P!Dep!AfterFlags
<1>2. \A g : \A i \in 1..n : next(g, i) = i
  <2>1. \A i \in 1..n : ~(i > Len(words)) => i \in DOMAIN words
    OBVIOUS
  <2> QED
    BY <2>1
<1>3. start \in 1..n
  OBVIOUS
<1> HIDE DEF next, n
<1>4. Is([i \in 1..n |-> i])
  BY <1>2
<1>5. Is(f)
  <2> HIDE DEF Is
  <2> QED
    BY <1>4
<1>6. f = [i \in 1..n |-> next(f, i)]
  BY <1>5
<1> HIDE DEF f
<1>7. f[start] = next(f, start)
  BY <1>3, <1>6
<1> QED
  BY <1>1, <1>2, <1>3, <1>7

(* The one command of a script of the run *)
RunOf(file) == <<[word |-> "node", flag |-> FALSE, path |-> None],
                 [word |-> "file", flag |-> FALSE, path |-> file]>>

(* The scripts of the run start their file. *)
LEMMA CommandsRun ==
  ASSUME NEW file, file # None, P!Dep!SourceKind(file) = "ts"
  PROVE  P!Dep!CandidatesOfCommand(RunOf(file)) = {file}
<1> DEFINE command == RunOf(file)
           n == Len(command) + 2
           next(f, i) ==
            LET rest == SubSeq(command, i, Len(command))
                first == command[i].word
                afterFlags == P!Dep!AfterFlags(command, i + 1, {}, {})
                script == P!Dep!AfterFlags(command, i + 1, P!Dep!ModuleFlags, P!Dep!EvalFlags)
                subcommand == P!Dep!AfterFlags(command, i + 1, P!Dep!PackageFlags, {})
            IN IF i > Len(command) THEN {}
               ELSE IF first \in P!Dep!Runners
               THEN IF /\ script <= Len(command)
                       /\ command[script].word \in P!Dep!EvalFlags
                    THEN {} ELSE P!Dep!PathsOf(SubSeq(command, script, Len(command)))
               ELSE IF first \in {"npx", "bunx"}
               THEN P!Dep!PathsOf(SubSeq(command, afterFlags + 1, Len(command)))
               ELSE IF first \in {"pnpm", "yarn", "npm"}
               THEN IF /\ subcommand <= Len(command)
                       /\ command[subcommand].word \in {"exec", "dlx", "x"}
                    THEN f[subcommand + 1] ELSE {}
               ELSE P!Dep!PathsOf(rest)
           Is(f) == f = [i \in 1..n |-> next(f, i)]
           f == CHOOSE g : Is(g)
           own(i) == IF i > 2 THEN {} ELSE P!Dep!PathsOf(SubSeq(command, 2, 2))
<1>1. P!Dep!CandidatesOfCommand(command) = f[1]
  BY DEF P!Dep!CandidatesOfCommand
<1>2. /\ Len(command) = 2 /\ DOMAIN command = {1, 2}
      /\ command[1].word = "node" /\ command[2].word = "file"
      /\ \A i \in {1, 2} : ~command[i].flag
      /\ command[2].path = file
      /\ \E V : command \in Seq(V)
  <2> DEFINE a == [word |-> "node", flag |-> FALSE, path |-> None]
             b == [word |-> "file", flag |-> FALSE, path |-> file]
  <2>1. command = <<a, b>>
    BY DEF RunOf
  <2>2. a.word = "node" /\ b.word = "file" /\ ~a.flag /\ ~b.flag /\ b.path = file
    OBVIOUS
  <2> HIDE DEF a, b, command
  <2>3. <<a, b>> \in Seq({a, b}) /\ Len(<<a, b>>) = 2 /\ DOMAIN <<a, b>> = {1, 2}
        /\ <<a, b>>[1] = a /\ <<a, b>>[2] = b
    OBVIOUS
  <2>4. command \in Seq({a, b}) /\ Len(command) = 2 /\ DOMAIN command = {1, 2}
        /\ command[1] = a /\ command[2] = b
    BY <2>1, <2>3
  <2>5. \A i \in {1, 2} : ~command[i].flag
    BY <2>2, <2>4
  <2> QED
    BY <2>2, <2>4, <2>5
<1> HIDE DEF command
<1>3. P!Dep!AfterFlags(command, 2, P!Dep!ModuleFlags, P!Dep!EvalFlags) = 2
  <2>1. \A i \in DOMAIN command : ~command[i].flag /\ command[i].word \notin P!Dep!ModuleFlags
    BY <1>2 DEF P!Dep!ModuleFlags
  <2>2. 2 \in 1..Len(command)
    BY <1>2
  <2> QED
    BY <1>2, <2>1, <2>2, NothingToSkip
<1>4. n = 4
  BY <1>2
<1>5. \A g : next(g, 1) = own(1)
  <2>1. 1 + 1 = 2 /\ ~(1 > 2) /\ 2 <= 2
    OBVIOUS
  <2>2. "node" \in P!Dep!Runners /\ "file" \notin P!Dep!EvalFlags
    BY DEF P!Dep!Runners, P!Dep!EvalFlags
  <2> QED
    BY <1>2, <1>3, <2>1, <2>2
<1>6. \A g : next(g, 2) = own(2)
  <2>1. ~(2 > 2)
    OBVIOUS
  <2>2. "file" \notin P!Dep!Runners
    BY DEF P!Dep!Runners
  <2> QED
    BY <1>2, <2>1, <2>2
<1>7. \A g : \A i \in {3, 4} : next(g, i) = own(i)
  <2>1. \A i \in {3, 4} : i > 2
    OBVIOUS
  <2> QED
    BY <1>2, <2>1
<1>8. 1..n = {1, 2, 3, 4}
  BY <1>4
<1> HIDE DEF next, n, own
<1>9. \A g : \A i \in 1..n : next(g, i) = own(i)
  BY <1>5, <1>6, <1>7, <1>8
<1>10. Is([i \in 1..n |-> own(i)])
  BY <1>9
<1>11. Is(f)
  <2> HIDE DEF Is
  <2> QED
    BY <1>10
<1>12. f = [i \in 1..n |-> next(f, i)]
  BY <1>11
<1> HIDE DEF f
<1>13. f[1] = own(1)
  BY <1>8, <1>9, <1>12
<1>14. own(1) = P!Dep!PathsOf(SubSeq(command, 2, 2))
  BY DEF own
<1>15. P!Dep!PathsOf(SubSeq(command, 2, 2)) = {file}
  <2> DEFINE one == SubSeq(command, 2, 2)
  <2>1. DOMAIN one = {1} /\ one[1] = command[2]
    BY <1>2 DEF command, RunOf
  <2> HIDE DEF one
  <2>2. P!Dep!LooksLikeScriptPath(one[1])
    BY <1>2, <2>1 DEF P!Dep!LooksLikeScriptPath
  <2>3. {j \in DOMAIN one : P!Dep!LooksLikeScriptPath(one[j])} = {1}
    BY <2>1, <2>2
  <2>4. P!Dep!PathsOf(one) = {one[1].path}
    BY <2>3 DEF P!Dep!PathsOf
  <2> QED
    BY <1>2, <2>1, <2>4 DEF one
<1> QED
  BY <1>1, <1>13, <1>14, <1>15 DEF command

(* A stem that no ending makes the name of the file, sets of paths and     *)
(* starts of a pack without it                                             *)
NotLib(b) == \A e : Append(b, e) # <<"lib", "ts">>
Avoids(S) == P!Lib \notin S
NotStarted(starts) == /\ Avoids(starts.files)
                      /\ \A dir \in starts.dirs : ~P!Dep!Inside(P!Lib, dir)

(* Patterns of a stem, of files and of directories that do not hold it *)
LEMMA OtherNames ==
  /\ \A x : x # "lib" => NotLib(<<x>>)
  /\ \A x, y : NotLib(<<x, y>>)
  /\ \A x, y, z : NotLib(<<x, y, z>>)
<1>1. ASSUME NEW x, x # "lib", NEW e
      PROVE  Append(<<x>>, e) # <<"lib", "ts">>
  <2>1. <<x>> \in Seq({x, e}) /\ e \in {x, e} /\ Len(<<x>>) = 1 /\ <<x>>[1] = x
        /\ <<"lib", "ts">>[1] = "lib"
    OBVIOUS
  <2>2. Append(<<x>>, e)[1] = x
    BY <2>1, AppendProperties
  <2> QED
    BY <1>1, <2>1, <2>2
<1>2. ASSUME NEW x, NEW y, NEW e
      PROVE  Append(<<x, y>>, e) # <<"lib", "ts">>
  <2>1. <<x, y>> \in Seq({x, y, e}) /\ e \in {x, y, e} /\ Len(<<x, y>>) = 2
        /\ Len(<<"lib", "ts">>) = 2
    OBVIOUS
  <2>2. Len(Append(<<x, y>>, e)) = 2 + 1
    BY <2>1, AppendProperties
  <2> QED
    BY <2>1, <2>2
<1>3. ASSUME NEW x, NEW y, NEW z, NEW e
      PROVE  Append(<<x, y, z>>, e) # <<"lib", "ts">>
  <2>1. <<x, y, z>> \in Seq({x, y, z, e}) /\ e \in {x, y, z, e} /\ Len(<<x, y, z>>) = 3
        /\ Len(<<"lib", "ts">>) = 2
    OBVIOUS
  <2>2. Len(Append(<<x, y, z>>, e)) = 3 + 1
    BY <2>1, AppendProperties
  <2> QED
    BY <2>1, <2>2
<1> QED
  BY <1>1, <1>2, <1>3 DEF NotLib

LEMMA OtherFiles ==
  /\ \A dir, bases, exts : (\A b \in bases : NotLib(b)) => Avoids(P!Dep!Named(dir, bases, exts))
  /\ \A dir, name : name # <<"lib", "ts">> => Avoids({P!Dep!Path(dir, name)})
  /\ \A base : Avoids(P!Dep!ConfigOf(base))
  /\ \A S, T : /\ Avoids(S) /\ Avoids(T) => Avoids(S \cup T)
               /\ Avoids(S) => Avoids(S \ T)
  /\ Avoids({})
<1>1. P!Lib.name = <<"lib", "ts">>
  BY PathsAre
<1>2. \A dir, name : P!Dep!Path(dir, name).name = name
  BY DEF P!Dep!Path
<1>3. ASSUME NEW dir, NEW bases, NEW exts, \A b \in bases : NotLib(b)
      PROVE  Avoids(P!Dep!Named(dir, bases, exts))
  <2>1. ASSUME NEW b \in bases, NEW e \in exts
        PROVE  P!Dep!Path(dir, Append(b, e)) # P!Lib
    BY <1>1, <1>2, <1>3 DEF NotLib
  <2>2. P!Dep!Named(dir, bases, exts) =
            UNION {{P!Dep!Path(dir, Append(b, e)) : e \in exts} : b \in bases}
    BY DEF P!Dep!Named
  <2> QED
    BY <2>1, <2>2 DEF Avoids
<1>4. \A dir, bases, exts : (\A b \in bases : NotLib(b)) => Avoids(P!Dep!Named(dir, bases, exts))
  BY <1>3
<1>5. \A base : Avoids(P!Dep!ConfigOf(base))
  <2> SUFFICES ASSUME NEW base
               PROVE  Avoids(P!Dep!ConfigOf(base))
    OBVIOUS
  <2>1. \A b \in {<<base, "config">>} : NotLib(b)
    BY OtherNames
  <2> QED
    BY <1>4, <2>1 DEF P!Dep!ConfigOf
<1>6. \A dir, name : name # <<"lib", "ts">> => Avoids({P!Dep!Path(dir, name)})
  BY <1>1, <1>2 DEF Avoids
<1> QED
  BY <1>4, <1>5, <1>6 DEF Avoids

LEMMA OtherDirs ==
  /\ \A x : x # "src" => ~P!Dep!Inside(P!Lib, <<x>>)
  /\ \A x, y : ~P!Dep!Inside(P!Lib, <<x, y>>)
<1>1. P!Lib.dirs = <<"src">>
  BY PathsAre
<1>2. ASSUME NEW x, x # "src"
      PROVE  ~P!Dep!Inside(P!Lib, <<x>>)
  <2>1. SubSeq(<<x>>, 1, 1)[1] = x /\ SubSeq(<<"src">>, 1, 1)[1] = "src" /\ Len(<<x>>) = 1
    OBVIOUS
  <2> QED
    BY <1>1, <1>2, <2>1 DEF P!Dep!Inside, P!Dep!IsPrefix
<1>3. ASSUME NEW x, NEW y
      PROVE  ~P!Dep!Inside(P!Lib, <<x, y>>)
  <2>1. Len(<<x, y>>) = 2 /\ Len(<<"src">>) = 1
    OBVIOUS
  <2> QED
    BY <1>1, <2>1 DEF P!Dep!Inside, P!Dep!IsPrefix
<1> QED
  BY <1>2, <1>3

(* No file at the root of a workspace that a tool reads is the file. *)
LEMMA RootConfigsAre == Avoids(P!Dep!RootConfigs)
<1>1. \A b \in {<<"content-collections">>, <<"drizzle", "config">>, <<"knexfile">>,
                 <<"tsup", "config">>, <<"esbuild", "config">>,
                 <<"webpack", "config">>, <<"babel", "config">>,
                 <<"commitlint", "config">>, <<"", "lintstagedrc">>,
                 <<"playwright", "config">>, <<"cypress", "config">>,
                 <<"sentry", "client", "config">>,
                 <<"sentry", "server", "config">>} : NotLib(b)
  BY OtherNames, Zenon
<1>2. \A b \in {<<"tailwind", "config">>, <<"rollup", "config">>,
                <<"prettier", "config">>, <<"postcss", "config">>, <<"eslint", "config">>,
                <<"release", "config">>, <<"request">>} : NotLib(b)
  BY OtherNames, Zenon
<1>3. \A b \in {<<"", "eslintrc">>, <<"", "prettierrc">>} : NotLib(b)
  BY OtherNames, Zenon
<1> DEFINE a == P!Dep!Named(<<>>, {<<"content-collections">>, <<"drizzle", "config">>,
                 <<"knexfile">>, <<"tsup", "config">>, <<"esbuild", "config">>,
                 <<"webpack", "config">>, <<"babel", "config">>,
                 <<"commitlint", "config">>, <<"", "lintstagedrc">>,
                 <<"playwright", "config">>, <<"cypress", "config">>,
                 <<"sentry", "client", "config">>,
                 <<"sentry", "server", "config">>}, {"ts", "js"})
           b == P!Dep!Named(<<>>, {<<"tailwind", "config">>, <<"rollup", "config">>,
                      <<"prettier", "config">>}, {"ts", "js", "mjs"})
           c == P!Dep!Named(<<>>, {<<"postcss", "config">>, <<"eslint", "config">>},
               {"ts", "js", "mjs", "cjs"})
           d == P!Dep!Named(<<>>, {<<"", "eslintrc">>, <<"", "prettierrc">>},
               {"js", "cjs", "mjs"})
           e == P!Dep!Named(<<>>, {<<"release", "config">>}, {"ts", "js", "mts"})
           f == {P!Dep!Path(<<>>, <<"wrangler", "config", "ts">>),
                 P!Dep!Path(<<>>, <<"wrangler", "toml">>),
                 P!Dep!Path(<<>>, <<"sentry", "edge", "config", "ts">>)}
           g == P!Dep!Named(<<"i18n">>, {<<"request">>}, {"ts", "js"})
<1>4. P!Dep!RootConfigs = (((((a \cup b) \cup c) \cup d) \cup e) \cup f) \cup g
  BY Zenon DEF P!Dep!RootConfigs
<1>5. Avoids(a)
  BY <1>1, OtherFiles, Zenon
<1>6. Avoids(b) /\ Avoids(c) /\ Avoids(e) /\ Avoids(g)
  BY <1>2, OtherFiles
<1>7. Avoids(d)
  BY <1>3, OtherFiles, Zenon
<1>8. Avoids(f)
  <2>1. /\ <<"wrangler", "config", "ts">> # <<"lib", "ts">>
        /\ <<"wrangler", "toml">> # <<"lib", "ts">>
        /\ <<"sentry", "edge", "config", "ts">> # <<"lib", "ts">>
    OBVIOUS
  <2> QED
    BY <2>1, OtherFiles DEF Avoids
<1> HIDE DEF a, b, c, d, e, f, g
<1> QED
  BY <1>4, <1>5, <1>6, <1>7, <1>8 DEF Avoids
(* No built-in pack starts from it by its name or its directory. *)
LEMMA PacksStartElsewhere ==
  ASSUME NEW k \in DOMAIN P!Dep!BuiltInPacks
  PROVE  NotStarted(P!Dep!BuiltInPacks[k].starts)
<1>1. NotStarted(P!Dep!NextPack.starts)
  <2>1. \A b \in {<<"next", "config">>, <<"instrumentation">>, <<"middleware">>,
                <<"instrumentation-client">>} : NotLib(b)
    BY OtherNames
  <2> QED
    BY <2>1, OtherFiles, OtherDirs
       DEF NotStarted, P!Dep!NextPack, P!Dep!Pack, P!Dep!Starts
<1>2. NotStarted(P!Dep!VitePack.starts)
  <2>1. \A b \in {<<"vite", "config">>} : NotLib(b)
    BY OtherNames
  <2> QED
    BY <2>1, OtherFiles, OtherDirs
       DEF NotStarted, P!Dep!VitePack, P!Dep!Pack, P!Dep!Starts
<1>3. NotStarted(P!Dep!VitestPack.starts)
  <2>1. \A b \in {<<"vitest", "config">>} : NotLib(b)
    BY OtherNames
  <2> QED
    BY <2>1, OtherFiles, OtherDirs
       DEF NotStarted, P!Dep!VitestPack, P!Dep!Pack, P!Dep!Starts
<1>4. NotStarted(P!Dep!JestPack.starts)
  <2>1. \A b \in {<<"jest", "config">>} : NotLib(b)
    BY OtherNames
  <2> QED
    BY <2>1, OtherFiles, OtherDirs
       DEF NotStarted, P!Dep!JestPack, P!Dep!Pack, P!Dep!Starts
<1>5. NotStarted(P!Dep!StorybookPack.starts)
  <2>1. \A b \in {<<"main">>, <<"preview">>} : NotLib(b)
    BY OtherNames
  <2> QED
    BY <2>1, OtherFiles, OtherDirs
       DEF NotStarted, P!Dep!StorybookPack, P!Dep!Same, P!Dep!Pack, P!Dep!Starts
<1>6. NotStarted(P!Dep!FileRoutingPack.starts)
  <2>1. \A b \in {<<"routeTree", "gen">>} : NotLib(b)
    BY OtherNames
  <2>2. \A b \in {<<"router">>} : NotLib(b)
    BY OtherNames
  <2>3. \A b \in {<<"client">>, <<"server">>, <<"router">>, <<"ssr">>, <<"root">>,
                <<"entry", "client">>, <<"entry", "server">>} : NotLib(b)
    BY OtherNames
  <2> QED
    BY <2>1, <2>2, <2>3, OtherFiles, OtherDirs
       DEF NotStarted, P!Dep!FileRoutingPack, P!Dep!Same, P!Dep!Pack, P!Dep!Starts, P!Dep!RoutesDirs
<1>7. NotStarted(P!Dep!RootConfigPack.starts)
  BY RootConfigsAre
     DEF NotStarted, P!Dep!RootConfigPack, P!Dep!Same, P!Dep!Pack, P!Dep!Starts
<1>8. NotStarted(P!Dep!NuxtPack.starts)
  BY OtherFiles, OtherDirs
     DEF NotStarted, P!Dep!NuxtPack, P!Dep!Same, P!Dep!Pack, P!Dep!Starts
<1>9. NotStarted(P!Dep!AstroPack.starts)
  <2>1. \A b \in {<<"middleware">>} : NotLib(b)
    BY OtherNames
  <2>2. \A b \in {<<"config">>} : NotLib(b)
    BY OtherNames
  <2> QED
    BY <2>1, <2>2, OtherFiles, OtherDirs
       DEF NotStarted, P!Dep!AstroPack, P!Dep!Same, P!Dep!Pack, P!Dep!Starts
<1>10. NotStarted(P!Dep!SvelteKitPack.starts)
  <2>1. \A b \in {<<"hooks", "server">>, <<"hooks", "client">>, <<"service-worker">>} : NotLib(b)
    BY OtherNames
  <2> QED
    BY <2>1, OtherFiles, OtherDirs
       DEF NotStarted, P!Dep!SvelteKitPack, P!Dep!Same, P!Dep!Pack, P!Dep!Starts
<1>11. NotStarted(P!Dep!RemixPack.starts)
  <2>1. \A b \in {<<"root">>, <<"entry", "client">>, <<"entry", "server">>} : NotLib(b)
    BY OtherNames
  <2> QED
    BY <2>1, OtherFiles, OtherDirs
       DEF NotStarted, P!Dep!RemixPack, P!Dep!Same, P!Dep!Pack, P!Dep!Starts
<1>12. NotStarted(P!Dep!NxPack.starts)
  <2>1. /\ <<"nx", "json">> # <<"lib", "ts">>
        /\ <<"project", "json">> # <<"lib", "ts">>
    OBVIOUS
  <2>2. Avoids(P!Dep!NxPack.starts.files)
    BY <2>1, PathsAre
       DEF Avoids, P!Dep!NxPack, P!Dep!Same, P!Dep!Pack, P!Dep!Starts, P!Dep!Path
  <2>3. P!Dep!NxPack.starts.dirs = {}
    BY DEF P!Dep!NxPack, P!Dep!Same, P!Dep!Pack, P!Dep!Starts
  <2> QED
    BY <2>2, <2>3 DEF NotStarted
<1>13. NotStarted(P!Dep!TurboPack.starts)
  BY OtherFiles, OtherDirs
     DEF NotStarted, P!Dep!TurboPack, P!Dep!Same, P!Dep!Pack, P!Dep!Starts
<1>14. NotStarted(P!Dep!AngularPack.starts)
  <2>1. /\ <<"angular", "json">> # <<"lib", "ts">>
        /\ <<"main", "ts">> # <<"lib", "ts">>
        /\ <<"polyfills", "ts">> # <<"lib", "ts">>
        /\ <<"app", "module", "ts">> # <<"lib", "ts">>
        /\ <<"app", "component", "ts">> # <<"lib", "ts">>
    OBVIOUS
  <2>2. Avoids(P!Dep!AngularPack.starts.files)
    BY <2>1, PathsAre
       DEF Avoids, P!Dep!AngularPack, P!Dep!Same, P!Dep!Pack, P!Dep!Starts, P!Dep!Path
  <2>3. P!Dep!AngularPack.starts.dirs = {}
    BY DEF P!Dep!AngularPack, P!Dep!Same, P!Dep!Pack, P!Dep!Starts
  <2> QED
    BY <2>2, <2>3 DEF NotStarted
<1>15. NotStarted(P!Dep!RspackPack.starts)
  <2>1. \A b \in {<<"index">>} : NotLib(b)
    BY OtherNames
  <2> QED
    BY <2>1, OtherFiles, OtherDirs
       DEF NotStarted, P!Dep!RspackPack, P!Dep!Same, P!Dep!Pack, P!Dep!Starts, P!Dep!SourceIndex
<1>16. NotStarted(P!Dep!RsbuildPack.starts)
  <2>1. \A b \in {<<"index">>} : NotLib(b)
    BY OtherNames
  <2> QED
    BY <2>1, OtherFiles, OtherDirs
       DEF NotStarted, P!Dep!RsbuildPack, P!Dep!Same, P!Dep!Pack, P!Dep!Starts, P!Dep!SourceIndex
<1>17. NotStarted(P!Dep!RollupPack.starts)
  <2>1. \A b \in {<<"index">>} : NotLib(b)
    BY OtherNames
  <2> QED
    BY <2>1, OtherFiles, OtherDirs
       DEF NotStarted, P!Dep!RollupPack, P!Dep!Pack, P!Dep!Starts, P!Dep!SourceIndex
<1>18. NotStarted(P!Dep!GatsbyPack.starts)
  <2>1. \A b \in {<<"gatsby-config">>, <<"gatsby-node">>, <<"gatsby-browser">>,
                <<"gatsby-ssr">>} : NotLib(b)
    BY OtherNames
  <2> QED
    BY <2>1, OtherFiles, OtherDirs
       DEF NotStarted, P!Dep!GatsbyPack, P!Dep!Same, P!Dep!Pack, P!Dep!Starts
<1>19. NotStarted(P!Dep!PlaywrightPack.starts)
  BY OtherFiles, OtherDirs
     DEF NotStarted, P!Dep!PlaywrightPack, P!Dep!Pack, P!Dep!Starts
<1>20. NotStarted(P!Dep!CypressPack.starts)
  BY OtherFiles, OtherDirs
     DEF NotStarted, P!Dep!CypressPack, P!Dep!Pack, P!Dep!Starts
<1>21. NotStarted(P!Dep!VitePressPack.starts)
  <2>1. \A b \in {<<"config">>} : NotLib(b)
    BY OtherNames
  <2> QED
    BY <2>1, OtherFiles, OtherDirs
       DEF NotStarted, P!Dep!VitePressPack, P!Dep!Same, P!Dep!Pack, P!Dep!Starts
<1>22. NotStarted(P!Dep!DocusaurusPack.starts)
  BY OtherFiles, OtherDirs
     DEF NotStarted, P!Dep!DocusaurusPack, P!Dep!Same, P!Dep!Pack, P!Dep!Starts
<1>23. NotStarted(P!Dep!TriggerDevPack.starts)
  BY OtherFiles, OtherDirs
     DEF NotStarted, P!Dep!TriggerDevPack, P!Dep!Same, P!Dep!Pack, P!Dep!Starts
<1> QED
  BY <1>1, <1>2, <1>3, <1>4, <1>5, <1>6, <1>7, <1>8, <1>9, <1>10, <1>11, <1>12, <1>13, <1>14, <1>15, <1>16, <1>17, <1>18, <1>19, <1>20, <1>21, <1>22, <1>23
     DEF P!Dep!BuiltInPacks

(* The rest of a pair after its first *)
LEMMA SecondOf ==
  ASSUME NEW a, NEW b
  PROVE  SubSeq(<<a, b>>, 2, 2) = <<b>>
<1> DEFINE s == SubSeq(<<a, b>>, 2, 2)
           one == <<b>>
<1>1. s \in Seq({a, b}) /\ Len(s) = 1 /\ s[1] = b
  OBVIOUS
<1>2. one \in Seq({a, b}) /\ Len(one) = 1 /\ one[1] = b
  OBVIOUS
<1> HIDE DEF s, one
<1>3. \A i \in 1..Len(s) : s[i] = one[i]
  BY <1>1, <1>2
<1>4. s = one
  BY <1>1, <1>2, <1>3, SeqEqual
<1> QED
  BY <1>4 DEF s, one

(* Nor is the file one of those that a pack looks for, or that its tool    *)
(* loads.                                                                  *)
LEMMA PacksLookElsewhere ==
  ASSUME NEW pack, NotStarted(pack.starts), NEW S
  PROVE  /\ P!Lib \notin P!Dep!PackEntrypoints(pack, S)
         /\ P!Lib \notin P!Dep!AutoLoaded(pack, S)
<1> DEFINE L == P!Lib
<1>1. L.dirs = <<"src">> /\ L.name = <<"lib", "ts">>
  BY PathsAre
<1> HIDE DEF L
<1>2. Len(L.name) = 2 /\ L.dirs # <<>> /\ Head(L.dirs) = "src" /\ DOMAIN L.dirs = {1}
      /\ L.dirs[1] = "src" /\ L.dirs # <<"cypress", "support">> /\ ~(Len(L.name) > 2)
  <2>1. <<"src">> # <<"cypress", "support">>
    OBVIOUS
  <2> QED
    BY <1>1, <2>1
<1>3. \A parts : ~P!Dep!NameHas(L, parts)
  BY <1>2 DEF P!Dep!NameHas
<1>4. \A dirs : "src" \notin dirs => ~P!Dep!At(L, dirs) /\ ~P!Dep!Within(L, dirs)
  BY <1>2 DEF P!Dep!At, P!Dep!Within, P!Dep!ToSet
<1>5. ~P!Dep!Inside(L, <<"src", "routes">>)
  BY OtherDirs DEF L
<1>6. ~P!Dep!IsStoryFile(L) /\ ~P!Dep!IsRouteFile(L)
  BY <1>3, <1>5 DEF P!Dep!IsStoryFile, P!Dep!IsRouteFile
<1>7. ~P!Dep!FoundByPack(pack, L)
  BY <1>2, <1>4, <1>6 DEF P!Dep!FoundByPack
<1>8. L \notin pack.starts.files /\ \A dir \in pack.starts.dirs : ~P!Dep!Inside(L, dir)
  BY DEF NotStarted, Avoids, L
<1>9. L \notin P!Dep!PackEntrypoints(pack, S)
  BY <1>7, <1>8 DEF P!Dep!PackEntrypoints
<1>10. L \notin P!Dep!AutoLoaded(pack, S)
  BY <1>2, <1>3, <1>4 DEF P!Dep!AutoLoaded
<1> QED
  BY <1>9, <1>10 DEF L

(* No pack of the package pushes it. *)
LEMMA NotPacked ==
  ASSUME NEW w, w.root = <<"pkg">>, NEW workspaces, NEW toggles, NEW tracked
  PROVE  ~NamedIn(Published, P!Dep!PackPushes(w,
                P!Dep!PacksFor(w, workspaces, P!ProjectFiles), toggles, tracked))
<1> DEFINE packs == P!Dep!PacksFor(w, workspaces, P!ProjectFiles)
           S == {P!Dep!Relative(f, w) : f \in {g \in P!ProjectFiles : P!Dep!Inside(g, w.root)}}
           given == P!Dep!PacksOf(w.manifest, S)
<1>1. packs \in {<<>>, given}
  BY DEF P!Dep!PacksFor
<1>2. ASSUME NEW q \in S, P!Dep!In(<<"pkg">>, q) = Published
      PROVE  q = P!Lib
  <2>1. PICK f \in P!ProjectFiles : q = P!Dep!Relative(f, w)
    OBVIOUS
  <2>2. q.name = f.name /\ P!Dep!In(<<"pkg">>, q).name = f.name
    <3>1. \A g \in P!ProjectFiles : P!Dep!Relative(g, w).name = g.name
                /\ P!Dep!In(<<"pkg">>, P!Dep!Relative(g, w)).name = g.name
      BY DEF P!Dep!Relative, P!Dep!In, P!ProjectFiles, P!RootMain, P!Lib, P!LibTest,
             P!Example, P!InPkg, P!At
    <3> QED
      BY <2>1, <3>1
  <2>3. f \in {Published, P!InPkg(P!Example)}
    <3>1. /\ <<"lib", "test", "ts">> # <<"lib", "ts">> /\ <<"index", "ts">> # <<"lib", "ts">>
      OBVIOUS
    <3> QED
      BY <1>2, <2>2, <3>1, PathsAre DEF P!ProjectFiles, Published
  <2>4. /\ Len(w.root) = 1 /\ 1 + 1 = 2
        /\ Len(<<"pkg", "src">>) = 2 /\ Len(<<"pkg", "examples">>) = 2
    OBVIOUS
  <2>7. /\ SubSeq(<<"pkg", "src">>, 2, 2) = <<"src">>
        /\ SubSeq(<<"pkg", "examples">>, 2, 2) = <<"examples">>
    BY SecondOf
  <2>5. CASE f = Published
    <3>1. q = [Published EXCEPT !.dirs = SubSeq(@, Len(w.root) + 1, Len(@))]
      BY <2>1, <2>5 DEF P!Dep!Relative
    <3>2. q = [Published EXCEPT !.dirs = <<"src">>]
      BY <2>4, <2>7, <3>1, PathsAre
    <3> QED
      BY <3>2 DEF Published, P!InPkg, P!Lib, P!At
  <2>6. CASE f = P!InPkg(P!Example)
    <3> DEFINE e == P!InPkg(P!Example)
    <3>1. q = [e EXCEPT !.dirs = SubSeq(@, Len(w.root) + 1, Len(@))]
      BY <2>1, <2>6 DEF P!Dep!Relative
    <3>2. q = [e EXCEPT !.dirs = <<"examples">>]
      <4> HIDE DEF e
      <4>1. e.dirs = <<"pkg", "examples">>
        BY PathsAre DEF e
      <4> QED
        BY <2>4, <2>7, <3>1, <4>1
    <3>3. q = P!Example
      BY <3>2 DEF P!InPkg, P!Example, P!At
    <3> QED
      BY <1>2, <3>3, InAre
  <2> QED
    BY <2>3, <2>5, <2>6
<1>3. DOMAIN given = DOMAIN P!Dep!BuiltInPacks
      /\ \A k \in DOMAIN P!Dep!BuiltInPacks :
            /\ given[k].entrypoints = P!Dep!PackEntrypoints(P!Dep!BuiltInPacks[k], S)
            /\ given[k].auto_loaded = P!Dep!AutoLoaded(P!Dep!BuiltInPacks[k], S)
  BY DEF P!Dep!PacksOf
<1>4. \A k \in DOMAIN P!Dep!BuiltInPacks :
            /\ P!Dep!PackEntrypoints(P!Dep!BuiltInPacks[k], S) \subseteq S \ {P!Lib}
            /\ P!Dep!AutoLoaded(P!Dep!BuiltInPacks[k], S) \subseteq S \ {P!Lib}
  <2> SUFFICES ASSUME NEW k \in DOMAIN P!Dep!BuiltInPacks
               PROVE  /\ P!Dep!PackEntrypoints(P!Dep!BuiltInPacks[k], S) \subseteq S \ {P!Lib}
                      /\ P!Dep!AutoLoaded(P!Dep!BuiltInPacks[k], S) \subseteq S \ {P!Lib}
    OBVIOUS
  <2> DEFINE pack == P!Dep!BuiltInPacks[k]
  <2>1. NotStarted(pack.starts)
    BY PacksStartElsewhere
  <2> HIDE DEF pack, S
  <2>2. /\ P!Lib \notin P!Dep!PackEntrypoints(pack, S)
        /\ P!Lib \notin P!Dep!AutoLoaded(pack, S)
    BY <2>1, PacksLookElsewhere
  <2>3. P!Dep!PackEntrypoints(pack, S) \subseteq S
    BY Zenon DEF P!Dep!PackEntrypoints
  <2>4. P!Dep!AutoLoaded(pack, S) \subseteq S
    BY Zenon DEF P!Dep!AutoLoaded
  <2> QED
    BY <2>2, <2>3, <2>4 DEF pack
<1> HIDE DEF given, S
<1>5. ASSUME NEW i \in DOMAIN packs,
             Published \in P!Dep!AllIn(w.root, packs[i].entrypoints)
                              \cup P!Dep!AllIn(w.root, packs[i].auto_loaded)
      PROVE  FALSE
  <2>1. packs = given /\ i \in DOMAIN given
    BY <1>1, <1>5
  <2>2. PICK q \in packs[i].entrypoints \cup packs[i].auto_loaded :
            P!Dep!In(w.root, q) = Published
    BY <1>5 DEF P!Dep!AllIn
  <2>3. q \in S /\ q # P!Lib
    BY <1>3, <1>4, <2>1, <2>2
  <2> QED
    BY <1>2, <2>2, <2>3
<1>6. \E Y : packs \in Seq(Y)
  BY PacksAreListed
<1> HIDE DEF packs
<1>7. NamedIn(Published, P!Dep!PackPushes(w, packs, toggles, tracked)) =>
            \E i \in DOMAIN packs :
                Published \in P!Dep!AllIn(w.root, packs[i].entrypoints)
                            \cup P!Dep!AllIn(w.root, packs[i].auto_loaded)
  BY <1>6, PackPushesAre
<1> QED
  BY <1>5, <1>7 DEF packs

(* A file of its name is TypeScript. *)
LEMMA LibIsTs ==
  ASSUME NEW p, p.name = <<"lib", "ts">>
  PROVE  P!Dep!SourceKind(p) = "ts"
<1>1. Len(p.name) = 2 /\ p.name[2] = "ts"
  OBVIOUS
<1>2. P!Dep!Ext(p) = "ts"
  BY <1>1 DEF P!Dep!Ext, P!Dep!Last
<1> QED
  BY <1>1, <1>2 DEF P!Dep!SourceKind

(* The scripts have those names, and each runs the file. *)
AllRun(scripts, names, w) ==
    /\ \E X : scripts \in Seq(X)
    /\ DOMAIN scripts = 1..Len(names)
    /\ \A k \in DOMAIN scripts : scripts[k].name = names[k]
    /\ \A k \in DOMAIN scripts :
        Published \in P!Dep!ScriptPushes(w, scripts[k], P!ProjectFiles).paths

(* What the scripts of a manifest run *)
LEMMA ScriptsAre ==
  ASSUME NEW name, NEW main, NEW N, NEW names \in Seq(N), NEW file \in {P!Lib, Published},
         NEW dev, NEW w,
         w.manifest = P!Manifest(name, main, names, file, dev),
         w.root = IF file = P!Lib THEN <<"pkg">> ELSE <<>>
  PROVE  AllRun(w.manifest.scripts, names, w)
<1> DEFINE s(n) == [name |-> n, commands |-> <<RunOf(file)>>]
           scripts == w.manifest.scripts
           L == Len(names)
<1>1. L \in Nat /\ DOMAIN names = 1..L /\ \A k \in 1..L : names[k] \in N
  OBVIOUS
<1>2. scripts = [k \in 1..L |-> s(names[k])]
  BY <1>1 DEF P!Manifest, RunOf
<1>3. P!Dep!CandidatesOfCommand(RunOf(file)) = {file}
  <2>1. file # None
    BY NoneIsNoFile DEF Published
  <2>2. P!Dep!SourceKind(file) = "ts"
    BY PathsAre, LibIsTs
  <2> QED
    BY <2>1, <2>2, CommandsRun
<1>4. \A n : P!Dep!ScriptCandidates(s(n)) = {file}
  <2> SUFFICES ASSUME NEW n
               PROVE  P!Dep!ScriptCandidates(s(n)) = {file}
    OBVIOUS
  <2> DEFINE c == RunOf(file)
             t == s(n)
  <2>1. t.commands = <<c>>
    OBVIOUS
  <2> HIDE DEF c, t
  <2>2. P!Dep!ScriptCandidates(t) = UNION {P!Dep!CandidatesOfCommand(<<c>>[k]) : k \in {1}}
    BY <2>1 DEF P!Dep!ScriptCandidates
  <2>3. P!Dep!ScriptCandidates(t) = {file}
    BY <1>3, <2>2 DEF c
  <2> QED
    BY <2>3 DEF t
<1>5. \A n : s(n).name = n
  OBVIOUS
<1> HIDE DEF s
<1>6. P!Dep!In(w.root, file) = Published
  <2>1. P!Lib # Published
    <3>1. <<"src">> # <<"pkg", "src">>
      OBVIOUS
    <3> QED
      BY <3>1, PathsAre
  <2> QED
    BY <2>1, InAre
<1>7. \A n : Published \in P!Dep!ScriptPushes(w, s(n), P!ProjectFiles).paths
  BY <1>4, <1>6, PublishedIsThere, PublishedIsSource
     DEF P!Dep!ScriptPushes, P!Dep!Pushes, P!Dep!AllIn
<1> HIDE DEF L, scripts
<1>8. \E X : scripts \in Seq(X)
  <2> DEFINE X == {s(n) : n \in N}
  <2>1. \A k \in 1..L : s(names[k]) \in X
    BY <1>1
  <2> HIDE DEF X
  <2>2. scripts \in [1..L -> X]
    BY <1>2, <2>1
  <2>3. scripts \in Seq(X)
    BY <1>1, <2>2
  <2> QED
    BY <2>3
<1>9. DOMAIN scripts = 1..L /\ \A k \in 1..L : scripts[k] = s(names[k])
  BY <1>2
<1>10. \A k \in DOMAIN scripts : scripts[k].name = names[k]
  BY <1>5, <1>9
<1>11. \A k \in DOMAIN scripts :
                Published \in P!Dep!ScriptPushes(w, scripts[k], P!ProjectFiles).paths
  BY <1>7, <1>9
<1>12. AllRun(scripts, names, w)
  BY <1>8, <1>9, <1>10, <1>11 DEF AllRun, L
<1> QED
  BY <1>12 DEF scripts

(* A workspace starts from the file in production. *)
StartsIn(w, config, workspaces, toggles, tracked) ==
    StartsFrom(Published, "production",
        P!Dep!DetectEntrypoints(w, config, toggles,
            P!Dep!PacksFor(w, workspaces, P!ProjectFiles), P!ProjectFiles, tracked))

(* A workspace of this shape is asked with others. *)
IsAsked(w, main, names, file, config, workspaces) ==
    /\ \E name, dev : w.manifest = P!Manifest(name, main, names, file, dev)
    /\ main \in {None, P!Lib, P!Built, P!LibTest, P!Example}
    /\ names \in Seq({"dev", "start"})
    /\ \/ file = P!Lib /\ w.root = <<"pkg">>
       \/ file = Published /\ w.root = <<>> /\ main = None
    /\ config.include \in {{}, {P!Lib}}
    /\ Cardinality(workspaces) > 1

(* Who starts from the file in production *)
LEMMA WorkspaceStarts ==
  ASSUME NEW w, NEW main, NEW names, NEW file, NEW config, NEW workspaces,
         IsAsked(w, main, names, file, config, workspaces), NEW toggles, NEW tracked
  PROVE  StartsIn(w, config, workspaces, toggles, tracked)
         <=> \/ file = P!Lib /\ P!Lib \in config.include
             \/ file = P!Lib /\ config.auto /\ main \in {P!Lib, P!Built}
             \/ config.auto /\ Serves(names)
<1> DEFINE packs == P!Dep!PacksFor(w, workspaces, P!ProjectFiles)
           pushes == P!Dep!PackPushes(w, packs, toggles, tracked)
           scripts == w.manifest.scripts
           running == {k \in DOMAIN scripts :
                Published \in P!Dep!ScriptPushes(w, scripts[k], P!ProjectFiles).paths}
           first == CHOOSE k \in running : \A j \in running : k <= j
           included == Published \in P!Dep!IncludePushes(w, config, P!ProjectFiles).paths
           published == Published \in P!Dep!PackagePushes(w, P!ProjectFiles).paths
           started == StartsFrom(Published, "production",
                P!Dep!DetectEntrypoints(w, config, toggles, packs, P!ProjectFiles, tracked))
           packed == StartsFrom(Published, "production", P!Dep!FirstReasons(w, pushes))
           profile == P!Dep!ScriptProfile(scripts[first].name)
<1>0. PICK name, dev : w.manifest = P!Manifest(name, main, names, file, dev)
  BY DEF IsAsked
<1> P!Lib # Published
  BY InAre
<1> /\ main \in {None, P!Lib, P!Built, P!LibTest, P!Example}
    /\ names \in Seq({"dev", "start"}) /\ file \in {P!Lib, Published}
    /\ w.root = IF file = P!Lib THEN <<"pkg">> ELSE <<>>
    /\ file = Published => main = None
    /\ config.include \in {{}, {P!Lib}} /\ Cardinality(workspaces) > 1
  BY DEF IsAsked
<1>1. /\ \E X : scripts \in Seq(X)
      /\ DOMAIN scripts = 1..Len(names)
      /\ \A k \in DOMAIN scripts : scripts[k].name = names[k]
      /\ running = DOMAIN scripts
  <2>1. AllRun(scripts, names, w)
    BY <1>0, ScriptsAre
  <2> HIDE DEF scripts
  <2> QED
    BY <2>1 DEF AllRun
<1>2. \E Y : packs \in Seq(Y)
  BY PacksAreListed
<1>3. Published \notin P!Dep!ConventionPushes(w, P!ProjectFiles).paths
  BY NotConventional
<1>4. started <=> IF included THEN TRUE
                  ELSE IF config.auto /\ published THEN InProfile("production", "production")
                  ELSE IF config.auto /\ running # {} THEN InProfile("production", profile)
                  ELSE packed
  <2> HIDE DEF packs
  <2>1. PICK X : scripts \in Seq(X)
    BY <1>1
  <2>2. PICK Y : packs \in Seq(Y)
    BY <1>2
  <2> QED
    BY <1>3, <2>1, <2>2, FirstReasonDecides
<1>5. w.root \in {<<"pkg">>, <<>>} /\ <<"pkg">> # <<>> /\ P!Lib # Published
  <2>1. <<"src">> # <<"pkg", "src">> /\ <<"pkg">> # <<>>
    OBVIOUS
  <2> QED
    BY <2>1, PathsAre
<1>6. ~NamedIn(Published, pushes)
  <2>1. CASE w.root = <<"pkg">>
    BY <2>1, NotPacked
  <2>2. CASE w.root = <<>>
    <3>1. packs = <<>>
      BY <2>2 DEF P!Dep!PacksFor, P!Dep!Cardinality, Cardinality
    <3>2. <<>> \in Seq({}) /\ DOMAIN <<>> = {}
      OBVIOUS
    <3>3. ~NamedIn(Published, P!Dep!PackPushes(w, <<>>, toggles, tracked))
      BY <3>2, PackPushesAre
    <3> QED
      BY <3>1, <3>3
  <2> QED
    BY <1>5, <2>1, <2>2
<1>7. ~packed
  <2> HIDE DEF packs
  <2>1. PICK Y : packs \in Seq(Y)
    BY <1>2
  <2>2. PICK V : pushes \in Seq(V)
    BY <2>1, PackPushesAre
  <2> HIDE DEF pushes
  <2>3. packed => NamedIn(Published, pushes)
    BY <2>2, StartsGoOn
  <2> QED
    BY <1>6, <2>3
<1>8. /\ included <=> file = P!Lib /\ P!Lib \in config.include
      /\ published <=> file = P!Lib /\ main \in {P!Lib, P!Built}
  <2>1. P!Dep!EntrypointFiles(w.manifest) = {main} \ {None}
    BY <1>0, ManifestsName
  <2>2. /\ w.root = <<"pkg">> => (published <=> main \in {P!Lib, P!Built})
        /\ w.root = <<>> /\ main = None => ~published
    BY <2>1, PublishedAre
  <2>3. /\ w.root = <<"pkg">> => (included <=> P!Lib \in config.include)
        /\ w.root = <<>> => ~included
    BY IncludedAre
  <2> HIDE DEF included, published
  <2> QED
    BY <1>5, <2>2, <2>3
<1>9. Len(names) \in Nat /\ (names = <<>> <=> Len(names) = 0)
      /\ (Len(names) # 0 => Head(names) = names[1] /\ names[1] \in {"dev", "start"})
  OBVIOUS
<1>10. running = {} <=> names = <<>>
  <2>1. running = 1..Len(names)
    BY <1>1
  <2> HIDE DEF running
  <2>2. Len(names) = 0 <=> 1..Len(names) = {}
    BY <1>9
  <2> QED
    BY <1>9, <2>1, <2>2
<1>11. running # {} => (InProfile("production", profile) <=> Serves(names))
  <2> SUFFICES ASSUME running # {}
               PROVE  InProfile("production", profile) <=> Serves(names)
    OBVIOUS
  <2>1. names # <<>> /\ Len(names) # 0 /\ Head(names) = names[1]
        /\ names[1] \in {"dev", "start"}
    BY <1>9, <1>10
  <2>2. running = 1..Len(names) /\ 1 \in 1..Len(names) /\ scripts[1].name = names[1]
    BY <1>1, <1>9, <2>1
  <2> HIDE DEF running, scripts
  <2>3. first = 1
    <3>1. \A j \in running : 1 <= j
      BY <1>9, <2>2
    <3>2. first \in running /\ \A j \in running : first <= j
      BY <2>2, <3>1
    <3> HIDE DEF first
    <3> QED
      BY <1>9, <2>2, <3>1, <3>2
  <2>4. profile = P!Dep!ScriptProfile(names[1])
    BY <2>2, <2>3
  <2>5. /\ P!Dep!ScriptProfile("start") = "production"
        /\ P!Dep!ScriptProfile("dev") = "development"
    BY DEF P!Dep!ScriptProfile
  <2> HIDE DEF profile
  <2> QED
    BY <2>1, <2>4, <2>5 DEF InProfile, Serves
<1>12. InProfile("production", "production") /\ (names = <<>> => ~Serves(names))
  BY DEF InProfile, Serves
<1> HIDE DEF started, included, published, packed, running, profile
<1>13. started <=> \/ file = P!Lib /\ P!Lib \in config.include
                   \/ file = P!Lib /\ config.auto /\ main \in {P!Lib, P!Built}
                   \/ config.auto /\ Serves(names)
  BY <1>4, <1>7, <1>8, <1>10, <1>11, <1>12
<1> QED
  BY <1>13 DEF started, packs, StartsIn

(* The two workspaces of a question *)
RootOf(i) ==
    [name |-> "root", root |-> <<>>,
     manifest |-> P!Manifest("root", None, i.root_scripts, Published, {})]
PkgOf(i) ==
    [name |-> "pkg", root |-> <<"pkg">>,
     manifest |-> P!Manifest("pkg", i.main, i.pkg_scripts, P!Lib, i.dev)]

(* Both are asked, once each. *)
LEMMA BothAreAsked ==
  ASSUME NEW i
  PROVE  LET q == P!EntrypointQuestion(i)
         IN /\ q.workspaces = {RootOf(i), PkgOf(i)}
            /\ q.order \in Seq({RootOf(i), PkgOf(i)})
            /\ ToSet(q.order) = {RootOf(i), PkgOf(i)}
            /\ Cardinality({RootOf(i), PkgOf(i)}) = 2
<1> DEFINE W == {RootOf(i), PkgOf(i)}
           s == P!SetToSeq(W)
           r == P!Reverse(s)
           order == P!EntrypointQuestion(i).order
<1>1. P!WorkspacesOf(i) = W
  BY DEF P!WorkspacesOf, RootOf, PkgOf, Published
<1>2. Cardinality(W) = 2 /\ IsFiniteSet(W)
  <2>1. RootOf(i) # PkgOf(i)
    BY DEF RootOf, PkgOf
  <2>2. IsFiniteSet({RootOf(i)}) /\ Cardinality({RootOf(i)}) = 1
    BY FS_Singleton
  <2>3. PkgOf(i) \notin {RootOf(i)}
    BY <2>1
  <2>4. IsFiniteSet({RootOf(i)} \cup {PkgOf(i)})
        /\ Cardinality({RootOf(i)} \cup {PkgOf(i)}) = 1 + 1
    BY <2>2, <2>3, FS_AddElement
  <2> QED
    BY <2>4
<1>3. s = SetToSeq(W)
  BY DEF P!SetToSeq, SetToSeq, P!IsInjective, IsInjective, P!Cardinality, Cardinality
<1> HIDE DEF W
<1>4. s \in Seq(W) /\ ToSet(s) = W /\ Len(s) = 2
  BY <1>2, <1>3, SetToSeqIsList
<1>5. order \in {s, r}
  BY <1>1 DEF P!EntrypointQuestion
<1> HIDE DEF s, order
<1>6. r = [k \in 1..2 |-> s[3 - k]]
  <2>1. r = [k \in 1..Len(s) |-> s[(Len(s) - k) + 1]]
    BY DEF P!Reverse
  <2>2. \A k \in 1..2 : (Len(s) - k) + 1 = 3 - k
    BY <1>4
  <2> HIDE DEF r
  <2> QED
    BY <1>4, <2>1, <2>2
<1>7. r \in Seq(W) /\ ToSet(r) = W
  <2> HIDE DEF r
  <2>1. \A k \in 1..2 : 3 - k \in 1..2 /\ s[k] \in W /\ s[3 - k] \in W
    BY <1>4
  <2>2. r \in Seq(W)
    BY <1>6, <2>1
  <2>3. DOMAIN s = 1..2 /\ DOMAIN r = 1..2 /\ \A k \in 1..2 : s[k] = r[3 - k]
    BY <1>4, <1>6
  <2> QED
    BY <1>4, <1>6, <2>1, <2>3 DEF ToSet
<1>8. P!EntrypointQuestion(i).workspaces = W
  BY <1>1 DEF P!EntrypointQuestion
<1> QED
  BY <1>2, <1>4, <1>5, <1>7, <1>8 DEF order, W

(* The walk finds the file. *)
LEMMA TheWalkFinds ==
  ASSUME NEW workspaces
  PROVE  Published \in {g.path : g \in P!Dep!CollectFiles(P!ProjectFiles, {}, workspaces)}
<1> DEFINE found(p) == [path |-> p, workspace |-> P!Dep!WorkspaceOf(p, workspaces),
                        role |-> P!Dep!Role(p), kind |-> P!Dep!Kind(P!Dep!Role(p)),
                        source_kind |-> P!Dep!SourceKind(p)]
           walked == {g \in P!ProjectFiles \ {} : ~P!Dep!Skipped(g) /\ P!Dep!ShouldTrack(g)}
<1>1. Published \in walked
  BY PublishedIsThere, PublishedIsSource DEF P!Dep!ShouldTrack
<1>2. P!Dep!CollectFiles(P!ProjectFiles, {}, workspaces) = {found(p) : p \in walked}
  BY DEF P!Dep!CollectFiles
<1>3. found(Published).path = Published
  OBVIOUS
<1> HIDE DEF found, walked
<1> QED
  BY <1>1, <1>2, <1>3

(* The tools of a question name files for development only. *)
LEMMA ToolsStartDevelopment ==
  ASSUME NEW inputs \in {P!Empty, [P!Empty EXCEPT !.setup_files = {Published},
                                                  !.test_patterns = {P!Lib, P!LibTest}]},
         NEW seeds, NEW workspaces, NEW order, NEW files, NEW tracked,
         \A w \in workspaces : P!Dep!ExpandWildcardExports(w.manifest, tracked) = {},
         NEW f
  PROVE  StartsFrom(f, "production",
            P!Dep!WildcardSeeds(P!Dep!InjectConfigEntrypoints(seeds, inputs,
                workspaces, order, files, tracked), workspaces, tracked))
         <=> StartsFrom(f, "production", seeds)
<1> DEFINE injected == P!Dep!InjectConfigEntrypoints(seeds, inputs, workspaces, order,
                                                    files, tracked)
           all == P!Dep!WildcardSeeds(injected, workspaces, tracked)
           existing == {s.path : s \in seeds}
           late(S) == \A s \in S : s.profile = "development"
<1>1. StartsFrom(f, "production", seeds) => StartsFrom(f, "production", all)
  BY ToolsOnlyAdd
<1>2. all = injected
  <2>1. UNION {P!Dep!ExpandWildcardExports(w.manifest, tracked) : w \in workspaces} = {}
    OBVIOUS
  <2> HIDE DEF injected
  <2> QED
    BY <2>1 DEF P!Dep!WildcardSeeds
<1>3. /\ inputs.entrypoints = {} /\ inputs.runtime_entrypoints = {}
      /\ inputs.production_entrypoints = {} /\ inputs.generated_entrypoints = {}
      /\ inputs.route_entry_globs = {}
  BY DEF P!Empty
<1>4. late(P!Dep!InjectedFiles(inputs, existing, files))
  <2> HIDE DEF existing
  <2>1. \A profile, source : P!Dep!Injected({}, existing, files, profile, source) = {}
    BY DEF P!Dep!Injected
  <2>2. \A S, source : late(P!Dep!Injected(S, existing, files, "development", source))
    BY DEF P!Dep!Injected, P!Dep!Seed
  <2> QED
    BY <1>3, <2>1, <2>2 DEF P!Dep!InjectedFiles
<1>5. late(P!Dep!InjectedTests(inputs, workspaces, order, existing, tracked))
  <2> DEFINE named == {g \in P!Dep!MatchedIn(P!Dep!TestPatterns(inputs, workspaces, tracked),
                            order, existing, tracked) : P!Dep!IsTrackedSource(g)}
             seed(g) == P!Dep!Seed(g, "framework", "development",
                            P!Dep!WorkspaceInOrder(g, order).name, "test-pattern")
  <2>1. P!Dep!InjectedTests(inputs, workspaces, order, existing, tracked)
            = {seed(g) : g \in named}
    BY Zenon DEF P!Dep!InjectedTests
  <2>2. \A g : seed(g).profile = "development"
    BY DEF P!Dep!Seed
  <2> HIDE DEF named, seed
  <2> QED
    BY <2>1, <2>2
<1>6. late(P!Dep!InjectedSetup(order, existing, tracked))
  BY DEF P!Dep!InjectedSetup, P!Dep!Seed
<1>7. late(P!Dep!InjectedVariants(existing, tracked))
  <2>1. \A s \in P!Dep!InjectedVariants(existing, tracked) :
            \E g \in tracked \ existing :
                s = P!Dep!Seed(g, "framework", "development", None, "dev-variant")
    BY Zenon DEF P!Dep!InjectedVariants
  <2>2. \A g : P!Dep!Seed(g, "framework", "development", None, "dev-variant").profile
                    = "development"
    BY DEF P!Dep!Seed
  <2> QED
    BY <2>1, <2>2
<1>8. P!Dep!InjectedRoutes(inputs, order, existing, tracked) = {}
  BY <1>3 DEF P!Dep!InjectedRoutes, P!Dep!MatchedIn
<1>9. \A s \in injected : s \in seeds \/ s.profile = "development"
  <2> HIDE DEF existing
  <2>1. injected = seeds \cup P!Dep!InjectedFiles(inputs, existing, files)
                    \cup P!Dep!InjectedTests(inputs, workspaces, order, existing, tracked)
                    \cup P!Dep!InjectedSetup(order, existing, tracked)
                    \cup P!Dep!InjectedVariants(existing, tracked)
                    \cup P!Dep!InjectedRoutes(inputs, order, existing, tracked)
    BY DEF P!Dep!InjectConfigEntrypoints, existing
  <2> HIDE DEF injected
  <2> QED
    BY <1>4, <1>5, <1>6, <1>7, <1>8, <2>1
<1> HIDE DEF injected
<1>10. StartsFrom(f, "production", injected) => StartsFrom(f, "production", seeds)
  BY <1>9 DEF StartsFrom, P!Dep!ForProfile
<1> HIDE DEF all
<1> QED
  BY <1>1, <1>2, <1>10 DEF all, injected

(* The seeds that the filters of a question keep *)
KeptOf(seeds, config, excluded, scanRoots) ==
    {s \in seeds : P!Dep!Kept(s, config, excluded, scanRoots)}

(* They are all those of the file, or none. *)
LEMMA FiltersAre ==
  ASSUME NEW seeds, NEW config, NEW excluded \in {{}, {Published}},
         NEW scanRoots \in {{}, {<<"src">>}}
  PROVE  StartsFrom(Published, "production", KeptOf(seeds, config, excluded, scanRoots))
         <=> /\ excluded = {} /\ scanRoots = {}
             /\ StartsFrom(Published, "production", seeds)
<1>1. ASSUME NEW s, s.path = Published
      PROVE  P!Dep!Kept(s, config, excluded, scanRoots) <=> excluded = {} /\ scanRoots = {}
  BY <1>1, PublishedIsSource DEF P!Dep!Kept
<1> QED
  BY <1>1 DEF StartsFrom, P!Dep!ForProfile, KeptOf

(* No role drops it. *)
LEMMA RolesKeep ==
  ASSUME NEW seeds, NEW config, NEW tracked, Published \in tracked
  PROVE  StartsFrom(Published, "production", P!Dep!WithRoles(seeds, config, tracked))
            <=> StartsFrom(Published, "production", seeds)
<1>1. ASSUME NEW s, s.path = Published
      PROVE  P!Dep!ShouldKeepSeed(s, config)
  BY <1>1, PublishedIsSource DEF P!Dep!ShouldKeepSeed, P!Dep!ExcludedFromAutoEntrypoints
<1> QED
  BY <1>1 DEF StartsFrom, P!Dep!ForProfile, P!Dep!WithRoles

(* The scripts of a question are lists of names. *)
LEMMA NamesAre ==
  ASSUME NEW i \in P!EntrypointInputs
  PROVE  /\ i.root_scripts \in Seq({"dev", "start"})
         /\ i.pkg_scripts \in Seq({"dev", "start"})
<1>1. /\ i.root_scripts \in {<<>>, <<"dev">>, <<"start">>, <<"dev", "start">>, <<"start", "dev">>}
      /\ i.pkg_scripts \in {<<>>, <<"dev">>, <<"start">>}
  BY DEF P!EntrypointInputs
<1>2. {<<>>, <<"dev">>, <<"start">>, <<"dev", "start">>, <<"start", "dev">>}
            \subseteq Seq({"dev", "start"})
  OBVIOUS
<1> QED
  BY <1>1, <1>2

(* The root starts from the file when its scripts serve it; no manifest    *)
(* there publishes it and no pattern includes it.                          *)
LEMMA RootStarts ==
  ASSUME NEW i \in P!EntrypointInputs, NEW config, config.include = i.include,
         config.auto = i.auto,
         NEW workspaces, Cardinality(workspaces) > 1, NEW toggles, NEW tracked
  PROVE  StartsIn(RootOf(i), config, workspaces, toggles, tracked)
         <=> i.auto /\ Serves(i.root_scripts)
<1> DEFINE w == RootOf(i)
<1>1. Published # P!Lib
  BY InAre
<1>2. IsAsked(w, None, i.root_scripts, Published, config, workspaces)
  <2>1. w.manifest = P!Manifest("root", None, i.root_scripts, Published, {})
        /\ w.root = <<>>
    BY DEF RootOf
  <2>2. i.root_scripts \in Seq({"dev", "start"}) /\ config.include \in {{}, {P!Lib}}
    BY NamesAre DEF P!EntrypointInputs
  <2> HIDE DEF w
  <2> QED
    BY <2>1, <2>2 DEF IsAsked
<1> HIDE DEF w
<1>3. StartsIn(w, config, workspaces, toggles, tracked)
        <=> i.auto /\ Serves(i.root_scripts)
  BY <1>1, <1>2, WorkspaceStarts
<1> QED
  BY <1>3 DEF w

(* The package starts from it when the configuration includes it, its      *)
(* manifest publishes it or its scripts serve it.                          *)
LEMMA PkgStarts ==
  ASSUME NEW i \in P!EntrypointInputs, NEW config, config.include = i.include,
         config.auto = i.auto,
         NEW workspaces, Cardinality(workspaces) > 1, NEW toggles, NEW tracked
  PROVE  StartsIn(PkgOf(i), config, workspaces, toggles, tracked)
         <=> \/ P!Lib \in i.include
             \/ i.auto /\ (i.main \in {P!Lib, P!Built} \/ Serves(i.pkg_scripts))
<1> DEFINE w == PkgOf(i)
<1>1. IsAsked(w, i.main, i.pkg_scripts, P!Lib, config, workspaces)
  <2>1. w.manifest = P!Manifest("pkg", i.main, i.pkg_scripts, P!Lib, i.dev)
        /\ w.root = <<"pkg">>
    BY DEF PkgOf
  <2>2. /\ i.pkg_scripts \in Seq({"dev", "start"}) /\ config.include \in {{}, {P!Lib}}
        /\ i.main \in {None, P!Lib, P!Built, P!LibTest, P!Example}
    BY NamesAre DEF P!EntrypointInputs
  <2> HIDE DEF w
  <2> QED
    BY <2>1, <2>2 DEF IsAsked
<1> HIDE DEF w
<1>2. StartsIn(w, config, workspaces, toggles, tracked)
        <=> \/ P!Lib \in i.include
            \/ i.auto /\ (i.main \in {P!Lib, P!Built} \/ Serves(i.pkg_scripts))
  BY <1>1, WorkspaceStarts
<1> QED
  BY <1>2 DEF w

(* The scripts of a manifest are a list. *)
LEMMA ScriptsAreListed ==
  ASSUME NEW name, NEW main, NEW N, NEW names \in Seq(N), NEW file, NEW dev
  PROVE  \E X : P!Manifest(name, main, names, file, dev).scripts \in Seq(X)
<1> DEFINE m == P!Manifest(name, main, names, file, dev)
           L == Len(names)
           s(n) == [name |-> n, commands |-> <<RunOf(file)>>]
           X == {s(n) : n \in N}
<1>1. L \in Nat /\ DOMAIN names = 1..L /\ \A k \in 1..L : names[k] \in N
  OBVIOUS
<1>2. m.scripts = [k \in 1..L |-> s(names[k])]
  BY <1>1 DEF P!Manifest, RunOf
<1> HIDE DEF m, L, s
<1>3. \A k \in 1..L : s(names[k]) \in X
  BY <1>1
<1> HIDE DEF X
<1>4. m.scripts \in [1..L -> X]
  BY <1>2, <1>3
<1>5. m.scripts \in Seq(X)
  BY <1>1, <1>4
<1>6. \E Y : m.scripts \in Seq(Y)
  BY <1>5
<1> QED
  BY <1>6 DEF m

(* A question that makes the file one of production *)
StartsIt(i) ==
    /\ i.excluded = {} /\ i.scan_roots = {}
    /\ \/ i.auto /\ i.main \in {P!Lib, P!Built}
       \/ i.auto /\ (Serves(i.root_scripts) \/ Serves(i.pkg_scripts))
       \/ P!Lib \in i.include

(* What a question comes to start from, by way of the duplicates, the      *)
(* tools, the wildcards and the roles                                      *)
LEMMA QuestionsStart ==
  ASSUME NEW i \in P!EntrypointInputs
  PROVE  (\E s \in P!Dep!EntrypointSeeds(P!EntrypointQuestion(i), "production") :
                s.path = Published) <=> StartsIt(i)
<1> DEFINE q == P!EntrypointQuestion(i)
           W == {RootOf(i), PkgOf(i)}
           tracked == {f.path : f \in P!Dep!CollectFiles(P!ProjectFiles, {}, W)}
           of(w) == P!Dep!DetectEntrypoints(w, q.config, q.toggles,
                        P!Dep!PacksFor(w, ToSet(q.order), P!ProjectFiles),
                        P!ProjectFiles, tracked)
           detected == P!Dep!DetectAllEntrypoints(q.order, q.config, q.toggles,
                        i.excluded, i.scan_roots, P!ProjectFiles, tracked)
           all == P!Dep!WildcardSeeds(P!Dep!InjectConfigEntrypoints(detected, q.inputs, W,
                        q.order, P!ProjectFiles, tracked), W, tracked)
<1>1. /\ q.workspaces = W /\ q.order \in Seq(W) /\ ToSet(q.order) = W
      /\ Cardinality(W) = 2
  BY BothAreAsked
<1>2. /\ q.config.include = i.include /\ q.config.auto = i.auto
      /\ q.excluded = i.excluded /\ q.scan_roots = i.scan_roots
      /\ q.files = P!ProjectFiles /\ q.ignored = {}
      /\ q.inputs \in {P!Empty, [P!Empty EXCEPT !.setup_files = {Published},
                                                !.test_patterns = {P!Lib, P!LibTest}]}
  BY DEF P!EntrypointQuestion, Published
<1>3. i.excluded \in {{}, {Published}} /\ i.scan_roots \in {{}, {<<"src">>}}
  BY DEF P!EntrypointInputs, Published
<1> HIDE DEF q
<1>4. P!Dep!EntrypointSeeds(q, "production") =
            P!Dep!ForProfile(P!Dep!WithRoles(all, q.config, tracked), "production")
  BY <1>1, <1>2 DEF P!Dep!EntrypointSeeds
<1>5. (\E s \in P!Dep!EntrypointSeeds(q, "production") : s.path = Published)
            <=> StartsFrom(Published, "production",
                           P!Dep!WithRoles(all, q.config, tracked))
  <2> HIDE DEF all, tracked
  <2> QED
    BY <1>4 DEF StartsFrom
<1>6. Published \in tracked
  BY TheWalkFinds
<1>7. /\ \A w \in W : P!Dep!ExpandWildcardExports(w.manifest, tracked) = {}
      /\ \A w \in W : \E X : w.manifest.scripts \in Seq(X)
  <2> HIDE DEF tracked
  <2>1. /\ RootOf(i).manifest = P!Manifest("root", None, i.root_scripts, Published, {})
        /\ PkgOf(i).manifest = P!Manifest("pkg", i.main, i.pkg_scripts, P!Lib, i.dev)
    BY DEF RootOf, PkgOf
  <2>2. \A w \in W : P!Dep!ExpandWildcardExports(w.manifest, tracked) = {}
    BY <2>1, ManifestsName
  <2>3. /\ \E X : RootOf(i).manifest.scripts \in Seq(X)
        /\ \E X : PkgOf(i).manifest.scripts \in Seq(X)
    BY <2>1, NamesAre, ScriptsAreListed
  <2> QED
    BY <2>2, <2>3
<1> HIDE DEF W, tracked
<1>8. StartsFrom(Published, "production", P!Dep!WithRoles(all, q.config, tracked))
            <=> StartsFrom(Published, "production", all)
  <2> HIDE DEF all
  <2> QED
    BY <1>6, RolesKeep
<1>9. StartsFrom(Published, "production", all)
            <=> StartsFrom(Published, "production", detected)
  <2> HIDE DEF detected
  <2> QED
    BY <1>2, <1>7, ToolsStartDevelopment
<1>10. StartsFrom(Published, "production", detected) <=>
            \E w \in W : StartsFrom(Published, "production",
                KeptOf(of(w), q.config, i.excluded, i.scan_roots))
  BY <1>1, <1>7, WorkspacesAddUp DEF KeptOf
<1>11. \A w \in W : StartsFrom(Published, "production",
                KeptOf(of(w), q.config, i.excluded, i.scan_roots))
            <=> /\ i.excluded = {} /\ i.scan_roots = {}
                /\ StartsFrom(Published, "production", of(w))
  <2> SUFFICES ASSUME NEW w \in W
               PROVE  StartsFrom(Published, "production",
                KeptOf(of(w), q.config, i.excluded, i.scan_roots))
            <=> /\ i.excluded = {} /\ i.scan_roots = {}
                /\ StartsFrom(Published, "production", of(w))
    OBVIOUS
  <2> DEFINE S == of(w)
  <2> HIDE DEF S
  <2>1. StartsFrom(Published, "production",
                KeptOf(S, q.config, i.excluded, i.scan_roots))
            <=> /\ i.excluded = {} /\ i.scan_roots = {}
                /\ StartsFrom(Published, "production", S)
    BY <1>3, FiltersAre
  <2> QED
    BY <2>1 DEF S
<1>12. /\ StartsFrom(Published, "production", of(RootOf(i)))
            <=> i.auto /\ Serves(i.root_scripts)
       /\ StartsFrom(Published, "production", of(PkgOf(i)))
            <=> \/ P!Lib \in i.include
                \/ i.auto /\ (i.main \in {P!Lib, P!Built} \/ Serves(i.pkg_scripts))
  <2> DEFINE V == ToSet(q.order)
  <2>1. Cardinality(V) > 1
    BY <1>1
  <2> HIDE DEF V
  <2>2. StartsIn(RootOf(i), q.config, V, q.toggles, tracked)
         <=> i.auto /\ Serves(i.root_scripts)
    BY <1>2, <2>1, RootStarts
  <2>3. StartsIn(PkgOf(i), q.config, V, q.toggles, tracked)
         <=> \/ P!Lib \in i.include
             \/ i.auto /\ (i.main \in {P!Lib, P!Built} \/ Serves(i.pkg_scripts))
    BY <1>2, <2>1, PkgStarts
  <2> QED
    BY <2>2, <2>3 DEF V, StartsIn
<1> HIDE DEF all, detected, of
<1> QED
  BY <1>5, <1>8, <1>9, <1>10, <1>11, <1>12 DEF StartsIt, q, W

(* An answer starts from it, and counts all its exports as used. *)
LEMMA AnswersStart ==
  ASSUME NEW i \in P!EntrypointInputs
  PROVE  /\ Published \in {s.path : s \in P!EntrypointAnswer(i).production} <=> StartsIt(i)
         /\ Published \in P!EntrypointAnswer(i).public <=> StartsIt(i)
<1> DEFINE seeds == P!Dep!EntrypointSeeds(P!EntrypointQuestion(i), "production")
           config == P!EntrypointQuestion(i).config
<1>1. (\E s \in seeds : s.path = Published) <=> StartsIt(i)
  BY QuestionsStart
<1>2. /\ P!EntrypointAnswer(i).production = seeds
      /\ P!EntrypointAnswer(i).public = P!Dep!PublicFiles(seeds, P!ProjectFiles, config)
  BY DEF P!EntrypointAnswer
<1>3. config.include_entry_exports = FALSE
  BY DEF P!EntrypointQuestion
<1> HIDE DEF seeds, config
<1>4. Published \in P!EntrypointAnswer(i).public <=> \E s \in seeds : s.path = Published
  BY <1>2, <1>3, PublishedIsThere DEF P!Dep!PublicFiles, P!Dep!BuildEntrypoints
<1> QED
  BY <1>1, <1>2, <1>4

(* A question of entrypoints is answered as such. *)
EntrypointInv ==
    family = "entrypoints" =>
        /\ input \in P!EntrypointInputs
        /\ result # None => result = P!EntrypointAnswer(input)

(* A file is live in production, and all its exports in use, exactly when  *)
(* a manifest publishes it, the scripts of a workspace serve it or the     *)
(* configuration includes it (build.rs:1463).                              *)
THEOREM PublicApisAreProduction == Spec => []PublicApiIsProduction
<1>1. Init => EntrypointInv
  BY DEF Init, Ask, EntrypointInv
<1>2. EntrypointInv /\ [Next]_vars => EntrypointInv'
  <2> SUFFICES ASSUME EntrypointInv, [Next]_vars
               PROVE  EntrypointInv'
    OBVIOUS
  <2>1. CASE Answer("entrypoints", P!EntrypointAnswer(input))
    BY <2>1 DEF Answer, EntrypointInv
  <2>2. CASE family' = family /\ input' = input
             /\ (result' = result \/ family # "entrypoints")
    BY <2>2 DEF EntrypointInv
  <2> QED
    BY <2>1, <2>2 DEF Next, Answer, vars
<1>3. EntrypointInv => PublicApiIsProduction
  <2> SUFFICES ASSUME EntrypointInv, family = "entrypoints", result # None
               PROVE  PublicApiIsProduction
    BY DEF PublicApiIsProduction
  <2>1. input \in P!EntrypointInputs /\ result = P!EntrypointAnswer(input)
    BY DEF EntrypointInv
  <2>2. /\ Published \in {s.path : s \in result.production} <=> StartsIt(input)
        /\ Published \in result.public <=> StartsIt(input)
    BY <2>1, AnswersStart
  <2> QED
    BY <2>2 DEF PublicApiIsProduction, StartsIt, Published
<1> QED
  BY <1>1, <1>2, <1>3, PTL DEF Spec
=============================================================================
