---------------------------- MODULE GraphQueries ----------------------------
(***************************************************************************)
(* The queries of the module graph (module_graph.rs) and the analyzers     *)
(* that are made of them: cycles, impact, duplicate exports, ownership.    *)
(*                                                                         *)
(* A graph is a record: kind gives each node its kind, profile each        *)
(* entrypoint its profile, package each file its package, files is the     *)
(* order in which the files were discovered, and edges is a set of pairs.  *)
(***************************************************************************)
EXTENDS Naturals, Sequences, FiniteSets, SequencesExt

CONSTANT None

Profiles == {"production", "development", "both"}

NodesOf(g) == DOMAIN g.kind
FileNodes(g) == {n \in NodesOf(g) : g.kind[n] = "file"}
Successors(g, n) == {m \in NodesOf(g) : <<n, m>> \in g.edges}

(* An entrypoint of profile both belongs to every profile. *)
ActiveIn(own, profile) ==
    profile = "both" \/ own = profile \/ own = "both"

EntrypointNodes(g, profile) ==
    {n \in NodesOf(g) : /\ g.kind[n] = "entrypoint"
                        /\ ActiveIn(g.profile[n], profile)}

(* The neighbours of every node, along the edges or against them *)
Onwards(g) == [n \in NodesOf(g) |-> Successors(g, n)]
Backwards(g) == [n \in NodesOf(g) |-> {m \in NodesOf(g) : <<m, n>> \in g.edges}]

(* Mutant of Closure: what the first round finds is not followed. *)
ClosureShort(from, next) == from \cup UNION {next[n] : n \in from}

(* The loop over a queue that both traversals share *)
Closure(from, next) ==
    LET size == Cardinality(DOMAIN next)
        after[i \in 0..size] ==
            IF i = 0 THEN from
            ELSE LET before == after[i - 1] IN
                 before \cup UNION {next[n] : n \in before}
    IN after[size]

ReachableNodes(g, profile) ==
    Closure(EntrypointNodes(g, profile), Onwards(g))

ReachableFileIds(g, profile) == ReachableNodes(g, profile) \cap FileNodes(g)

ReverseReachable(g, file) ==
    IF file \notin FileNodes(g) THEN {}
    ELSE Closure({file}, Backwards(g))

-----------------------------------------------------------------------------
(* shortest_path_to_file: breadth first from the entrypoints; a node gets  *)
(* its parent when it is first seen.                                       *)

(* Mutant of Visit: a node that is seen again gets its parent again. *)
VisitAgain(g, b) ==
    LET node == Head(b.queue)
        new == Successors(g, node) \ b.visited
    IN [queue |-> Tail(b.queue) \o SetToSeq(new),
        visited |-> b.visited \cup new,
        parent |-> [n \in NodesOf(g) |->
            IF n \in Successors(g, node) THEN node ELSE b.parent[n]]]

Visit(g, b) ==
    LET node == Head(b.queue)
        new == Successors(g, node) \ b.visited
    IN [queue |-> Tail(b.queue) \o SetToSeq(new),
        visited |-> b.visited \cup new,
        parent |-> [n \in NodesOf(g) |-> IF n \in new THEN node ELSE b.parent[n]]]

(* The parents up to a node that has none *)
PathTo(g, parent, target) ==
    LET up[i \in 0..Cardinality(NodesOf(g))] ==
            IF i = 0 THEN <<target>>
            ELSE IF parent[Head(up[i - 1])] = None THEN up[i - 1]
            ELSE <<parent[Head(up[i - 1])]>> \o up[i - 1]
    IN up[Cardinality(NodesOf(g))]

ShortestPath(g, target, profile) ==
    LET starts == EntrypointNodes(g, profile)
        bfs[i \in 0..Cardinality(NodesOf(g))] ==
            IF i = 0
            THEN [queue |-> SetToSeq(starts), visited |-> starts,
                  parent |-> [n \in NodesOf(g) |-> None]]
            ELSE IF bfs[i - 1].queue = <<>> \/ Head(bfs[i - 1].queue) = target
            THEN bfs[i - 1]
            ELSE Visit(g, bfs[i - 1])
        last == bfs[Cardinality(NodesOf(g))]
    IN IF last.queue = <<>> THEN None
       ELSE IF Head(last.queue) # target THEN None
       ELSE PathTo(g, last.parent, target)

-----------------------------------------------------------------------------
(* cycles.rs *)

(* Nodes that reach each other; petgraph's kosaraju_scc *)
Component(g, n) ==
    Closure({n}, Onwards(g)) \cap Closure({n}, Backwards(g))

FileComponents(g) ==
    {c \in {Component(g, n) : n \in NodesOf(g)} : c \cap FileNodes(g) # {}}

(* Mutant of Explore: a path may end where it meets itself. *)
ExploreAny(g, component, start, s) ==
    LET path == Last(s.stack)
        next == Successors(g, Last(path)) \cap component \cap FileNodes(g)
        back == {n \in next : Contains(path, n)}
    IN IF back # {} /\ Len(path) > 1
       THEN [s EXCEPT !.found = Append(path, CHOOSE n \in back :
                                                n # start \/ back = {start})]
       ELSE [s EXCEPT !.stack = Front(s.stack) \o
                SetToSeq({Append(path, n) : n \in next \ ToSet(path)})]

(* One round of the search: the newest path is taken from the stack; it is *)
(* the answer if it leads back to the start, and else grows by each file   *)
(* of the component that is not on it.                                     *)
Explore(g, component, start, s) ==
    LET path == Last(s.stack)
        next == Successors(g, Last(path)) \cap component \cap FileNodes(g)
    IN IF start \in next /\ Len(path) > 1
       THEN [s EXCEPT !.found = Append(path, start)]
       ELSE [s EXCEPT !.stack = Front(s.stack) \o
                SetToSeq({Append(path, n) : n \in next \ ToSet(path)})]

(* As many rounds as n files, all importing each other, have paths from    *)
(* one of them without repetition: a path that leaves out k files may grow *)
(* by each of them.                                                        *)
MaxPaths(n) ==
    LET paths[k \in 0..n] == IF k = 0 THEN 1 ELSE 1 + k * paths[k - 1]
    IN paths[n - 1]

MinimalCycleChain(g, component) ==
    LET files == component \cap FileNodes(g)
        start == CHOOSE f \in files : TRUE
        n == MaxPaths(Cardinality(files))
        search[i \in 0..n] ==
            IF i = 0 THEN [stack |-> <<<<start>>>>, found |-> None]
            ELSE IF search[i - 1].found # None \/ search[i - 1].stack = <<>>
            THEN search[i - 1]
            ELSE Explore(g, component, start, search[i - 1])
    IN search[n].found

(* One finding for each component of at least two files; a generated file  *)
(* lowers its confidence.                                                  *)
CycleFindings(g, generated) ==
    {[code |-> "cycle", subject |-> MinimalCycleChain(g, c),
      files |-> c \cap FileNodes(g),
      confidence |-> IF c \cap generated # {} THEN "low" ELSE "high"] :
     c \in {d \in FileComponents(g) : Cardinality(d \cap FileNodes(g)) > 1}}

-----------------------------------------------------------------------------
(* impact.rs: everything that reaches the file *)
Impact(g, file, profile) ==
    LET reverse == ReverseReachable(g, file)
        files == reverse \cap FileNodes(g)
    IN [entrypoints |-> reverse \cap EntrypointNodes(g, profile),
        files |-> files,
        packages |-> {n \in reverse : g.kind[n] = "package"}
                     \cup ({g.package[f] : f \in files} \ {None})]

-----------------------------------------------------------------------------
(* duplicate_exports.rs: names that two or more named re-exports lead to *)
DuplicateExports(reexports) ==
    LET named == {r \in reexports : ~r.is_star}
        origins == {<<r.source, r.original>> : r \in named}
        paths(o) == {<<r.reexporter, r.exported>> :
                        r \in {s \in named : <<s.source, s.original>> = o}}
    IN {[code |-> "duplicate-export", subject |-> o[1], paths |-> paths(o),
         confidence |-> "medium"] :
        o \in {p \in origins : Cardinality(paths(p)) > 1}}

-----------------------------------------------------------------------------
(* ownership.rs *)

(* The first team in alphabetical order that claims the path or the        *)
(* package, and else the last CODEOWNERS rule that matches.                *)
OwnerForFile(file, teams, codeowners) ==
    LET claims == {i \in DOMAIN teams : \/ file.path \in teams[i].paths
                                        \/ file.package \in teams[i].packages}
        rules == {i \in DOMAIN codeowners : file.path \in codeowners[i].paths}
    IN IF claims # {}
       THEN teams[CHOOSE i \in claims : \A j \in claims : i <= j].team
       ELSE IF rules # {}
       THEN codeowners[CHOOSE i \in rules : \A j \in rules : j <= i].owner
       ELSE None

UnownedFiles(files, owner) ==
    {[code |-> "ownership-unowned", subject |-> f.path] :
        f \in {x \in files : ~x.skipped /\ owner[x.path] = None}}

(* An import between files of two owners, once for each pair of files *)
CrossOwnerEdges(files, edges, owner) ==
    {e \in edges : /\ \E f \in files : f.path = e[1] /\ ~f.skipped
                   /\ None \notin {owner[e[1]], owner[e[2]]}
                   /\ owner[e[1]] # owner[e[2]]}

(* Files that two or more other owners import *)
OwnershipHotspots(cross, owner) ==
    {t \in {e[2] : e \in cross} :
        Cardinality({owner[e[1]] : e \in {x \in cross : x[2] = t}}) > 1}

OwnershipFindings(files, edges, teams, codeowners) ==
    LET owner == [p \in {f.path : f \in files} |->
                    OwnerForFile(CHOOSE f \in files : f.path = p, teams,
                                 codeowners)]
        cross == CrossOwnerEdges(files, edges, owner)
    IN [unowned |-> UnownedFiles(files, owner),
        cross |-> cross,
        hotspots |-> OwnershipHotspots(cross, owner)]

-----------------------------------------------------------------------------
(* severity_at_or_above of boundaries.rs and severity of lib.rs: the level *)
(* of an analysis as the threshold of its rules' findings, or their rank   *)
SeverityRank(s) ==
    CASE s = "info" -> 1 [] s = "warn" -> 2 [] s = "error" -> 3

BoundaryFindings(level, findings) ==
    IF level = "off" THEN {}
    ELSE {f \in findings : SeverityRank(f.severity) >= SeverityRank(level)}
=============================================================================
