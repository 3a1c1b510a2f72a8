--------------------------- MODULE SemanticIndex ---------------------------
(***************************************************************************)
(* The index of the semantic helper (apps/pruneguard-tsgo): what it reads  *)
(* of the project, and its answers to the five kinds of query.             *)
(*                                                                         *)
(* A source file is a set of statements, each a record with a kind, or     *)
(* Unparsed.  A specifier is a record: whether it is relative and the      *)
(* ordered candidates it stands for.                                       *)
(***************************************************************************)
EXTENDS Naturals, Sequences, FiniteSets, SequencesExt

CONSTANT None  \* no value

Star == "*"
Default == "default"

-----------------------------------------------------------------------------
(* discover_files: the files that the include and files patterns of the    *)
(* tsconfigs match; as long as nothing was found, the files below the      *)
(* directory of the tsconfig, and in the end those of the project.         *)

Extensions == {"ts", "tsx", "js", "jsx", "mts", "cts", "mjs", "cjs"}
SkippedDirs == {"node_modules", ".git", "dist", "build", ".next", "coverage"}

IsTsJsFile(f) == f.ext \in Extensions

(* A tsconfig that cannot be read or parsed, or names nothing, stands for  *)
(* the default patterns, which leave out mjs and cjs.                      *)
Matched(tsconfig, tree) ==
    IF tsconfig.patterns = {}
    THEN {f \in tree : /\ tsconfig.dir \in f.dirs
                       /\ f.ext \in Extensions \ {"mjs", "cjs"}}
    ELSE {f \in tree : f.path \in tsconfig.patterns /\ IsTsJsFile(f)}

Walked(dir, tree) ==
    {f \in tree : dir \in f.dirs /\ f.dirs \cap SkippedDirs = {} /\ IsTsJsFile(f)}

Discovered(tsconfigs, root, tree) ==
    LET after[i \in 0..Len(tsconfigs)] ==
            IF i = 0 THEN {}
            ELSE LET found == after[i - 1] \cup Matched(tsconfigs[i], tree) IN
                 IF found = {} THEN Walked(tsconfigs[i].dir, tree) ELSE found
        found == after[Len(tsconfigs)]
    IN IF found = {} THEN Walked(root, tree) ELSE found

-----------------------------------------------------------------------------
(* parse_and_extract *)

Unparsed == {[kind |-> "unparsed"]}

(* Declarations that bind one simple name; types and interfaces are types  *)
(* whatever the statement says.  A destructuring pattern has no name.      *)
DeclaredName(decl, is_type) ==
    CASE decl.kind \in {"variable", "function", "class", "enum", "module"} ->
            IF decl.name = None THEN {}
            ELSE {[name |-> decl.name, is_type |-> is_type]}
      [] decl.kind \in {"type", "interface"} ->
            {[name |-> decl.name, is_type |-> TRUE]}
      [] OTHER -> {}

StatementExports(s) ==
    CASE s.kind = "export_named" /\ s.source = None ->
            {[name |-> n, is_type |-> s.is_type] : n \in s.names}
            \cup UNION {DeclaredName(d, s.is_type) : d \in s.decls}
      [] s.kind = "export_default" -> {[name |-> Default, is_type |-> FALSE]}
      [] OTHER -> {}

StatementImports(s) ==
    IF s.kind # "import" THEN {}
    ELSE {[source |-> s.source, names |-> s.names, is_type |-> s.is_type]}

(* import A = B.C.d; a chain of at least two names *)
StatementAliases(s) ==
    IF s.kind = "import_equals" /\ Len(s.chain) > 1
    THEN {[alias |-> s.alias, chain |-> s.chain]} ELSE {}

(* FileData of a source; the resolved references of its symbols are the    *)
(* usages, a use of an import included.                                    *)
FileData(source) ==
    IF source.statements = Unparsed
    THEN [exports |-> {}, imports |-> {}, aliases |-> {}, usages |-> {}]
    ELSE [exports |-> UNION {StatementExports(s) : s \in source.statements},
          imports |-> UNION {StatementImports(s) : s \in source.statements},
          aliases |-> UNION {StatementAliases(s) : s \in source.statements},
          usages |-> source.usages]

-----------------------------------------------------------------------------
(* resolve_import_source: the first candidate that is a file.  The         *)
(* candidates of a relative specifier are, in order, the path itself, the  *)
(* path with each extension, and its index files.                          *)
TriedSuffixes == <<"", ".ts", ".tsx", ".js", ".jsx", ".mts", ".cts", ".mjs", ".cjs",
              "/index.ts", "/index.tsx", "/index.js", "/index.jsx",
              "/index.mts", "/index.cts">>

ResolveImport(specifier, disk) ==
    LET hits == {i \in DOMAIN TriedSuffixes : <<specifier.base, TriedSuffixes[i]>> \in disk}
    IN  IF ~specifier.relative \/ hits = {} THEN None
        ELSE LET first == CHOOSE i \in hits : \A j \in hits : i <= j
             IN  <<specifier.base, TriedSuffixes[first]>>

(* SemanticIndex::build over the readable files: the data of each, and for *)
(* a file the imports of other files that resolve to it.                   *)
Index(sources, disk) ==
    LET files == [f \in DOMAIN sources |-> FileData(sources[f])] IN
    [files |-> files,
     importers |-> [t \in disk |->
        UNION {{[importer |-> f, import |-> i] :
                    i \in {j \in files[f].imports :
                             ResolveImport(j.source, disk) = t}} :
               f \in DOMAIN files}]]

-----------------------------------------------------------------------------
(* process_query.  A query names a file and, by its kind, an export or a   *)
(* parent and a member.                                                    *)

Failed == [success |-> FALSE, references |-> {}, is_type_only |-> None,
           alias_chain |-> <<>>]
Found(references) == [Failed EXCEPT !.success = TRUE, !.references = references]

ImportersOf(ix, file) ==
    IF file \in DOMAIN ix.importers THEN ix.importers[file] ELSE {}

Names(imported, name) == imported = name \/ imported = Star

(* Mutant of FindExportReferences: namespace imports are not looked at. *)
FindNamedReferences(ix, q) ==
    IF q.export_name = None THEN Failed
    ELSE Found(UNION {{[file |-> r.importer, name |-> n.imported,
                        is_type_only |-> r.import.is_type \/ n.is_type] :
                            n \in {m \in r.import.names :
                                     m.imported = q.export_name}} :
                      r \in ImportersOf(ix, q.file)})

(* An import of the name or of the whole namespace is a reference. *)
FindExportReferences(ix, q) ==
    IF q.export_name = None THEN Failed
    ELSE Found(UNION {{[file |-> r.importer, name |-> n.imported,
                        is_type_only |-> r.import.is_type \/ n.is_type] :
                            n \in {m \in r.import.names :
                                     Names(m.imported, q.export_name)}} :
                      r \in ImportersOf(ix, q.file)})

UsagesOf(ix, file, name) ==
    IF file \notin DOMAIN ix.files THEN {}
    ELSE {[file |-> file, name |-> u.name, is_type_only |-> u.is_type_only] :
            u \in {v \in ix.files[file].usages : v.name = name}}

(* Uses of the member's name in the file itself and in the files that      *)
(* import the parent, whatever they are members of.                        *)
FindMemberReferences(ix, q) ==
    IF q.parent_name = None \/ q.member_name = None THEN Failed
    ELSE LET importing == {r \in ImportersOf(ix, q.file) :
                \E n \in r.import.names : Names(n.imported, q.parent_name)}
         IN  Found(UNION {UsagesOf(ix, f, q.member_name) :
                f \in {q.file} \cup {r.importer : r \in importing}})

FindSameFileExportUsage(ix, q) ==
    IF q.export_name = None \/ q.file \notin DOMAIN ix.files THEN Failed
    ELSE IF \A e \in ix.files[q.file].exports : e.name # q.export_name
    THEN Found({})
    ELSE Found(UsagesOf(ix, q.file, q.export_name))

(* The chain of alias targets from a name: the first name of a target is   *)
(* followed while it is an alias and the target has not been seen.         *)
FollowAliases(aliases, name) ==
    LET of(a) == CHOOSE e \in aliases : e.alias = a
        known(a) == \E e \in aliases : e.alias = a
        step(c) ==
            IF c.at = None \/ ~known(c.at) THEN [c EXCEPT !.at = None]
            ELSE LET target == of(c.at).chain IN
                 IF Contains(c.chain, target) THEN [c EXCEPT !.at = None]
                 ELSE [at |-> IF known(target[1]) THEN target[1] ELSE None,
                       chain |-> Append(c.chain, target)]
        after[i \in 0..(Cardinality(aliases) + 1)] ==
            IF i = 0 THEN [at |-> name, chain |-> <<<<name>>>>]
            ELSE step(after[i - 1])
    IN after[Cardinality(aliases) + 1].chain

ResolveNamespaceAliasChain(ix, q) ==
    IF q.export_name = None \/ q.file \notin DOMAIN ix.files THEN Failed
    ELSE [Found({}) EXCEPT !.alias_chain =
            FollowAliases(ix.files[q.file].aliases, q.export_name)]

(* A type export is type-only; another is when every import by its name    *)
(* is.  Namespace imports are not looked at.                               *)
ClassifyTypeOnly(ix, q) ==
    LET imported == UNION {{r.import.is_type \/ n.is_type :
                                n \in {m \in r.import.names :
                                         m.imported = q.export_name}} :
                           r \in ImportersOf(ix, q.file)}
        isType == /\ q.file \in DOMAIN ix.files
                  /\ \E e \in ix.files[q.file].exports :
                        e.name = q.export_name /\ e.is_type
    IN  IF q.export_name = None THEN Failed
        ELSE [Found({}) EXCEPT !.is_type_only =
                IF isType THEN TRUE
                ELSE IF imported = {} THEN None
                ELSE FALSE \notin imported]

ProcessQuery(ix, q) ==
    CASE q.kind = "FindExportReferences" -> FindExportReferences(ix, q)
      [] q.kind = "FindMemberReferences" -> FindMemberReferences(ix, q)
      [] q.kind = "FindSameFileExportUsage" -> FindSameFileExportUsage(ix, q)
      [] q.kind = "ResolveNamespaceAliasChain" ->
            ResolveNamespaceAliasChain(ix, q)
      [] q.kind = "ClassifyTypeOnlyVsValueUsage" -> ClassifyTypeOnly(ix, q)
=============================================================================
