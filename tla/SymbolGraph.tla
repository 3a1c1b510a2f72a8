----------------------------- MODULE SymbolGraph -----------------------------
(***************************************************************************)
(* The symbol graph and the module graph that build_graph_with_options     *)
(* makes of the facts of every file: exports, imports, re-exports and      *)
(* member accesses, with the files they resolve to.                        *)
(*                                                                         *)
(* A type-only declaration has is_type TRUE, and its kind is container     *)
(* when it is a class, an enum or a namespace that is exported by its name *)
(* and not for types only.  Star stands for "*": the name of a namespace   *)
(* import, of `export *`, and of all exports of a file.                    *)
(***************************************************************************)
EXTENDS Naturals, FiniteSets

CONSTANTS
    Files,   \* the files of the build
    Names,   \* names of exports and of members
    Star,
    None     \* the target of a specifier that resolves to no file of these

ASSUME SymbolGraphAssumption ==
    /\ Star \notin Names /\ None \notin Files
    /\ IsFiniteSet(Files) /\ IsFiniteSet(Names)

Targets == Files \cup {None}
NamesOrStar == Names \cup {Star}

(* A re-export is `export *` (star, exported as Star), `export * as        *)
(* exported` (star) or `export { original as exported }`.                  *)
ReexportFacts ==
    {r \in [to : Targets, is_star : BOOLEAN, is_type : BOOLEAN,
            original : NamesOrStar, exported : NamesOrStar] :
        IF r.is_star THEN r.original = Star
        ELSE {r.original, r.exported} \subseteq Names}

(* What the extractor finds in a file.  An access is imported.member,      *)
(* where imported comes from the file `to`.                                *)
FileFacts == [
    exports : SUBSET [name : Names, is_type : BOOLEAN,
                      kind : {"container", "other"}],
    imports : SUBSET [to : Targets, names : SUBSET NamesOrStar,
                      is_type : BOOLEAN],
    reexports : SUBSET ReexportFacts,
    same_file_refs : SUBSET Names,
    members : SUBSET [parent : Names, member : Names],
    accesses : SUBSET [to : Targets, imported : NamesOrStar, member : Names]]

Keys == Files \X Names
Exports == [file : Files, name : Names, is_type : BOOLEAN]
ImportEdges == [importer : Files, source : Files, name : NamesOrStar,
                is_type : BOOLEAN]
ReexportEdges == [reexporter : Files, source : Files, is_star : BOOLEAN,
                  is_type : BOOLEAN, original : NamesOrStar,
                  exported : NamesOrStar]
Members == [file : Files, parent : Names, member : Names]
MemberRefs == [source : Files, parent : Names, member : Names]

Graphs == [exports : SUBSET Exports, imports : SUBSET ImportEdges,
           reexports : SUBSET ReexportEdges, memberRefs : SUBSET MemberRefs,
           sameFileRefs : SUBSET Keys, members : SUBSET Members,
           edges : SUBSET (Files \X Files)]

Resolved(S) == {x \in S : x.to # None}

(* `export *` gives no export of its own.  An export that is added again   *)
(* takes the place of the first, with the kind of the second.              *)
ReexportedAs(facts) ==
    UNION {{[file |-> f, name |-> r.exported, is_type |-> r.is_type] :
                r \in {s \in Resolved(facts[f].reexports) : s.exported # Star}} :
           f \in Files}

DeclaredExports(facts) ==
    UNION {{[file |-> f, name |-> e.name, is_type |-> e.is_type] :
                e \in facts[f].exports} : f \in Files}

AllExports(facts) ==
    LET again == ReexportedAs(facts) IN
    again \cup {e \in DeclaredExports(facts) :
                    ~\E r \in again : r.file = e.file /\ r.name = e.name}

(* One edge for each name; side-effect imports have none. *)
NamedImports(facts) ==
    UNION {UNION {{[importer |-> f, source |-> i.to, name |-> n,
                    is_type |-> i.is_type] : n \in i.names} :
                  i \in Resolved(facts[f].imports)} : f \in Files}

(* A member of a namespace import counts as an import of that name. *)
NamespaceImports(facts) ==
    UNION {{[importer |-> f, source |-> a.to, name |-> a.member,
             is_type |-> FALSE] :
                a \in {x \in Resolved(facts[f].accesses) : x.imported = Star}} :
           f \in Files}

AllMemberRefs(facts) ==
    UNION {{[source |-> a.to, parent |-> a.imported, member |-> a.member] :
                a \in {x \in Resolved(facts[f].accesses) : x.imported # Star}} :
           f \in Files}

AllReexports(facts) ==
    UNION {{[reexporter |-> f, source |-> r.to, is_star |-> r.is_star,
             is_type |-> r.is_type, original |-> r.original,
             exported |-> r.exported] : r \in Resolved(facts[f].reexports)} :
           f \in Files}

AllMembers(facts) ==
    UNION {{[file |-> f, parent |-> m.parent, member |-> m.member] :
                m \in facts[f].members} : f \in Files}

(* Mutant of ModuleEdges: re-exports do not keep a file reachable. *)
ImportsOnly(facts) ==
    {e \in Files \X Files : \E i \in facts[e[1]].imports : i.to = e[2]}

(* Edges of every kind lead to the file that is imported. *)
ModuleEdges(facts) ==
    {e \in Files \X Files :
        \E i \in facts[e[1]].imports \cup facts[e[1]].reexports : i.to = e[2]}

GraphOf(facts) ==
    [exports |-> AllExports(facts),
     imports |-> NamedImports(facts) \cup NamespaceImports(facts),
     reexports |-> AllReexports(facts),
     memberRefs |-> AllMemberRefs(facts),
     sameFileRefs |-> {k \in Keys : k[2] \in facts[k[1]].same_file_refs},
     members |-> AllMembers(facts),
     edges |-> ModuleEdges(facts)]

-----------------------------------------------------------------------------
(* SymbolGraph::propagate_liveness                                         *)

KeysOf(graph) == {<<e.file, e.name>> : e \in graph.exports}

IsTrueStar(r) == r.is_star /\ r.original = Star /\ r.exported = Star

(* Mutant of ReexportTargets: the new name is looked up in the source. *)
TargetOfNewName(graph, r) ==
    KeysOf(graph) \cap {<<r.source, r.exported>>}

(* The exports that the edge r makes live when its exported name is live.  *)
ReexportTargets(graph, r) ==
    KeysOf(graph) \cap
        IF IsTrueStar(r) THEN {r.source} \X Names
        ELSE {<<r.source, r.original>>}

(* Mutant of ImportTargets: also names that the source does not export. *)
AnyImport(graph) == {<<i.source, i.name>> : i \in graph.imports}

ImportTargets(graph) ==
    KeysOf(graph) \cap {<<i.source, i.name>> : i \in graph.imports}

(* Members of namespace re-exports, and references in the file itself.     *)
LateTargets(graph) ==
    KeysOf(graph) \cap
        (graph.sameFileRefs \cup
         {<<rm[1].source, rm[2].member>> :
            rm \in {x \in graph.reexports \X graph.memberRefs :
                        /\ x[1].is_star
                        /\ x[1].reexporter = x[2].source
                        /\ x[1].exported = x[2].parent}})
=============================================================================
