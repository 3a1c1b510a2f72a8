----------------------------- MODULE CachedBuild -----------------------------
(***************************************************************************)
(* Graph builds that share the cache file cache.redb: one-shot scans and   *)
(* the daemon's builds, each in a process of its own, over files that      *)
(* people edit.                                                            *)
(*                                                                         *)
(* A build opens the cache, collects the project's files, hashes each file *)
(* and takes its facts and resolutions from the cache when the hashes      *)
(* agree, extracts the others in parallel, and writes those to the cache   *)
(* in one transaction.                                                     *)
(*                                                                         *)
(* What a file is resolved to depends on its imports, on the files of the  *)
(* build and of the disk, and on the settings (tsconfig); framework        *)
(* configurations and the exports of other packages act like the presence  *)
(* of files: they are inputs of the resolver that no hash covers.          *)
(***************************************************************************)
EXTENDS Naturals, Sequences, FiniteSets

CONSTANTS
    Files,       \* source files
    Imports,     \* what a file's text imports: of each specifier, the
                 \* files it may mean, in the order in which they are tried
    Contents,    \* contents of a file and of the tsconfig
    Absent,      \* the content of a file that is not there
    Builders,    \* processes that build
    Kind,        \* "scan" or "daemon"
    Scope,       \* the files below the scan paths of a builder
    SeesTsconfig,\* builders whose scan paths hold the tsconfig
    MaxEdits, MaxBuilds, MaxCrashes,  \* bounds of a behaviour
    None

(* The rows of the two tables and what a build holds of a file: the file,  *)
(* its facts under its content, its edges under a tsconfig, with the files *)
(* there were on the disk (present) and in the build (among).              *)
Entries == [hash : Contents \cup {None}, ts : Contents \cup {None},
            content : Contents]
Edges == [targets : SUBSET Files, under : Contents,
          present : SUBSET Files, among : SUBSET Files]
Databases == [facts : [Files -> Entries \cup {None}],
              resolutions : [Files -> Edges \cup {None}]]
Extractions == [content : Contents, targets : SUBSET Files, under : Contents,
                present : SUBSET Files, among : SUBSET Files]

ASSUME CachedBuildAssumption ==
    /\ Imports \in [Files -> SUBSET Seq(Files)]
    /\ Kind \in [Builders -> {"scan", "daemon"}]
    /\ Scope \in [Builders -> SUBSET Files]
    /\ SeesTsconfig \subseteq Builders
    /\ MaxEdits \in Nat /\ MaxBuilds \in Nat /\ MaxCrashes \in Nat
    /\ Absent \notin Contents
    /\ None \notin Contents \cup {Absent}
    /\ None \notin Entries \cup Edges \cup Extractions

VARIABLES
    disk,      \* content of each file
    settings,  \* content of the tsconfig
    dbs,       \* the cache databases ever created: two tables each
    dbAt,      \* the one at the path, 0 if there is none
    pc, handle,                    \* of each builder: step, open database
    repo, tsHash, hash, needs,     \* files, hashes, files to extract
    extracted,                     \* facts and resolutions by file
    edits, builds, crashes,
    raced      \* some edit was made while a build ran (history)

diskVars == <<disk, settings>>
cacheVars == <<dbs, dbAt>>
buildVars == <<repo, tsHash, hash, needs, extracted>>
counters == <<edits, builds, crashes>>
vars == <<diskVars, cacheVars, pc, handle, buildVars, counters, raced>>

Running(p) == pc[p] \notin {"idle", "done", "failed"}
Exists(f) == disk[f] # Absent
Nothing == [f \in Files |-> None]
EmptyDb == [facts |-> Nothing, resolutions |-> Nothing]

Init ==
    /\ disk \in [Files -> Contents \cup {Absent}]
    /\ settings \in Contents
    /\ dbs = <<>> /\ dbAt = 0
    /\ pc = [p \in Builders |-> "idle"]
    /\ handle = [p \in Builders |-> 0]
    /\ repo = [p \in Builders |-> {}]
    /\ tsHash = [p \in Builders |-> None]
    /\ hash = [p \in Builders |-> Nothing]
    /\ needs = [p \in Builders |-> {}]
    /\ extracted = [p \in Builders |-> Nothing]
    /\ edits = 0 /\ builds = 0 /\ crashes = 0 /\ raced = FALSE

Edit ==
    /\ edits < MaxEdits
    /\ \/ /\ \E f \in Files, c \in Contents \cup {Absent} :
              c # disk[f] /\ disk' = [disk EXCEPT ![f] = c]
          /\ UNCHANGED settings
       \/ /\ \E c \in Contents \ {settings} : settings' = c
          /\ UNCHANGED disk
    /\ edits' = edits + 1
    /\ raced' = (raced \/ \E p \in Builders : Running(p))
    /\ UNCHANGED <<cacheVars, pc, handle, buildVars, builds, crashes>>

Goto(p, to) == pc' = [pc EXCEPT ![p] = to]

Begin(p) ==
    /\ ~Running(p)
    /\ builds < MaxBuilds
    /\ builds' = builds + 1
    /\ Goto(p, "open")
    /\ UNCHANGED <<diskVars, cacheVars, handle, buildVars, edits, crashes,
                   raced>>

-----------------------------------------------------------------------------
(* AnalysisCache::open.  redb locks the file it opens, for its process.    *)

InUse(i) == \E p \in Builders : handle[p] = i

(* Mutant of Create: the file is only created by the first write. *)
CreateNoFile(p) ==
    /\ dbAt # 0 => ~InUse(dbAt)
    /\ dbAt' = IF dbAt = 0 THEN Len(dbs) + 1 ELSE dbAt
    /\ handle' = [handle EXCEPT ![p] = dbAt']
    /\ Goto(p, "collect")
    /\ UNCHANGED dbs

(* Mutant of Create: no lock. *)
CreateUnlocked(p) ==
    /\ IF dbAt = 0
       THEN /\ dbs' = Append(dbs, EmptyDb)
            /\ dbAt' = Len(dbs')
       ELSE UNCHANGED cacheVars
    /\ handle' = [handle EXCEPT ![p] = dbAt']
    /\ Goto(p, "collect")

(* Database::create: the file at the path, or a new one with empty tables *)
Create(p) ==
    /\ dbAt # 0 => ~InUse(dbAt)
    /\ IF dbAt = 0
       THEN /\ dbs' = Append(dbs, EmptyDb)
            /\ dbAt' = Len(dbs')
       ELSE UNCHANGED cacheVars
    /\ handle' = [handle EXCEPT ![p] = dbAt']
    /\ Goto(p, "collect")

Open(p) ==
    /\ pc[p] = "open"
    /\ Create(p)
    /\ UNCHANGED <<diskVars, buildVars, counters, raced>>

(* Any error is taken for a corrupted file, a lock held elsewhere too. *)
OpenFails(p) ==
    /\ pc[p] = "open"
    /\ dbAt # 0 /\ InUse(dbAt)
    /\ Goto(p, "remove")
    /\ UNCHANGED <<diskVars, cacheVars, handle, buildVars, counters, raced>>

Remove(p) ==
    /\ pc[p] = "remove"
    /\ dbAt' = 0
    /\ Goto(p, "reopen")
    /\ UNCHANGED <<diskVars, dbs, handle, buildVars, counters, raced>>

Reopen(p) ==
    /\ pc[p] = "reopen"
    /\ Create(p)
    /\ UNCHANGED <<diskVars, buildVars, counters, raced>>

(* A scan reports the error, the daemon builds without a cache. *)
ReopenFails(p) ==
    /\ pc[p] = "reopen"
    /\ dbAt # 0 /\ InUse(dbAt)
    /\ Goto(p, IF Kind[p] = "scan" THEN "failed" ELSE "collect")
    /\ UNCHANGED <<diskVars, cacheVars, handle, buildVars, counters, raced>>

-----------------------------------------------------------------------------
(* build_graph_with_options                                                *)

(* The files below the scan paths, and the hash of the tsconfigs there. *)
Collect(p) ==
    /\ pc[p] = "collect"
    /\ LET found == {f \in Scope[p] : Exists(f)} IN
        /\ repo' = [repo EXCEPT ![p] = found]
        /\ needs' = [needs EXCEPT ![p] = found]
    /\ tsHash' = [tsHash EXCEPT ![p] =
                     IF p \in SeesTsconfig THEN settings ELSE None]
    /\ hash' = [hash EXCEPT ![p] = Nothing]
    /\ extracted' = [extracted EXCEPT ![p] = Nothing]
    /\ Goto(p, IF handle[p] = 0 THEN "extract" ELSE "hydrate")
    /\ UNCHANGED <<diskVars, cacheVars, handle, counters, raced>>

(* Mutant of Hit: the entry's file is not compared with the file. *)
HitAnyContent(p, f, db) ==
    /\ db.facts[f] # None /\ db.resolutions[f] # None
    /\ db.facts[f].ts = tsHash[p]

(* hydrate_from_cache *)
Hit(p, f, db) ==
    /\ db.facts[f] # None /\ db.resolutions[f] # None
    /\ db.facts[f].hash = disk[f]
    /\ db.facts[f].ts = tsHash[p]

(* The file's facts and its edges. *)
Extraction(facts, resolution) ==
    [content |-> facts.content, targets |-> resolution.targets,
     under |-> resolution.under, present |-> resolution.present,
     among |-> resolution.among]

(* Phase 2a.  A file that cannot be read gets no hash and is tried again. *)
Hydrate(p) ==
    /\ pc[p] = "hydrate"
    /\ LET db == dbs[handle[p]]
           hits == {f \in repo[p] : Exists(f) /\ Hit(p, f, db)}
       IN
        /\ hash' = [hash EXCEPT ![p] = [f \in Files |->
                        IF f \in repo[p] /\ Exists(f) THEN disk[f] ELSE None]]
        /\ needs' = [needs EXCEPT ![p] = repo[p] \ hits]
        /\ extracted' = [extracted EXCEPT ![p] = [f \in Files |->
                        IF f \in hits
                        THEN Extraction(db.facts[f], db.resolutions[f])
                        ELSE None]]
    /\ Goto(p, "extract")
    /\ UNCHANGED <<diskVars, cacheVars, handle, repo, tsHash, counters, raced>>

(* The first of an import's files that is on the disk is what it means, *)
(* and an edge if it is among the files of the build (resolve_edge).      *)
Targets(f, present, among) ==
    {g \in present \cap among : \E import \in Imports[f] :
        \E i \in 1..Len(import) :
            /\ import[i] = g
            /\ \A j \in 1..(i - 1) : import[j] \notin present}

OnDisk == {f \in Files : Exists(f)}

Resolve(p, f) ==
    [targets |-> Targets(f, OnDisk, repo[p]), under |-> settings,
     present |-> OnDisk, among |-> repo[p]]

(* Phase 2b, in parallel over the files: the file is read once more. *)
Extract(p) ==
    /\ pc[p] = "extract"
    /\ \E f \in needs[p] :
        /\ extracted[p][f] = None
        /\ Exists(f)
        /\ extracted' = [extracted EXCEPT ![p][f] =
                            Extraction([content |-> disk[f]], Resolve(p, f))]
    /\ UNCHANGED <<diskVars, cacheVars, pc, handle, repo, tsHash, hash,
                   needs, counters, raced>>

ExtractFails(p) ==
    /\ pc[p] = "extract"
    /\ \E f \in needs[p] : extracted[p][f] = None /\ ~Exists(f)
    /\ Goto(p, "failed")
    /\ handle' = [handle EXCEPT ![p] = 0]
    /\ UNCHANGED <<diskVars, cacheVars, buildVars, counters, raced>>

FactsOf(p, f) == [hash |-> hash[p][f], ts |-> tsHash[p],
                  content |-> extracted[p][f].content]
ResolutionsOf(p, f) == [targets |-> extracted[p][f].targets,
                        under |-> extracted[p][f].under,
                        present |-> extracted[p][f].present,
                        among |-> extracted[p][f].among]

AllExtracted(p) == \A f \in needs[p] : extracted[p][f] # None

(* Mutant of Persist: a transaction for each table, killed in between. *)
PersistFacts(p) ==
    /\ pc[p] = "extract"
    /\ AllExtracted(p)
    /\ IF handle[p] = 0
       THEN UNCHANGED dbs
       ELSE dbs' = [dbs EXCEPT ![handle[p]].facts = [f \in Files |->
                    IF f \in needs[p] THEN FactsOf(p, f) ELSE @[f]]]
    /\ Goto(p, "analyze")
    /\ UNCHANGED <<diskVars, dbAt, handle, buildVars, counters, raced>>

(* Phase 2c.  put_extraction_batch is one transaction. *)
Persist(p) ==
    /\ pc[p] = "extract"
    /\ AllExtracted(p)
    /\ IF handle[p] = 0
       THEN UNCHANGED dbs
       ELSE dbs' = [dbs EXCEPT ![handle[p]] =
               [facts |-> [f \in Files |->
                    IF f \in needs[p] THEN FactsOf(p, f) ELSE @.facts[f]],
                resolutions |-> [f \in Files |->
                    IF f \in needs[p] THEN ResolutionsOf(p, f)
                    ELSE @.resolutions[f]]]]
    /\ Goto(p, "analyze")
    /\ UNCHANGED <<diskVars, dbAt, handle, buildVars, counters, raced>>

(* The edges of f in the graph: add_resolved_edge and add_symbol_edges     *)
(* leave out a target that is not a file of the build.                     *)
EdgesIn(p, f) == extracted[p][f].targets \cap repo[p]

(* The rest of the build and of the scan; the cache stays open. *)
Finish(p) ==
    /\ pc[p] = "analyze"
    /\ Goto(p, "done")
    /\ handle' = [handle EXCEPT ![p] = 0]
    /\ UNCHANGED <<diskVars, cacheVars, buildVars, counters, raced>>

(* The process is killed; redb undoes an uncommitted transaction. *)
Crash(p) ==
    /\ crashes < MaxCrashes
    /\ Running(p)
    /\ crashes' = crashes + 1
    /\ Goto(p, "failed")
    /\ handle' = [handle EXCEPT ![p] = 0]
    /\ UNCHANGED <<diskVars, cacheVars, buildVars, edits, builds, raced>>

Build(p) ==
    \/ Open(p) \/ OpenFails(p) \/ Remove(p) \/ Reopen(p) \/ ReopenFails(p)
    \/ Collect(p) \/ Hydrate(p) \/ Extract(p) \/ ExtractFails(p)
    \/ Persist(p) \/ Finish(p)

Next ==
    \/ Edit
    \/ \E p \in Builders : Begin(p) \/ Build(p) \/ Crash(p)

Spec == Init /\ [][Next]_vars

-----------------------------------------------------------------------------
(* Types of the cache's tables (pruneguard_cache) and of a build's state *)
TypeOK ==
    /\ disk \in [Files -> Contents \cup {Absent}] /\ settings \in Contents
    /\ dbAt \in 0..Len(dbs)
    /\ dbs \in Seq(Databases)
    /\ pc \in [Builders -> {"idle", "open", "remove", "reopen", "collect",
                            "hydrate", "extract", "analyze", "done", "failed"}]
    /\ handle \in [Builders -> 0..Len(dbs)]
    /\ repo \in [Builders -> SUBSET Files]
    /\ tsHash \in [Builders -> Contents \cup {None}]
    /\ hash \in [Builders -> [Files -> Contents \cup {None}]]
    /\ needs \in [Builders -> SUBSET Files]
    /\ extracted \in [Builders -> [Files -> Extractions \cup {None}]]
    /\ edits \in 0..MaxEdits /\ builds \in 0..MaxBuilds
    /\ crashes \in 0..MaxCrashes /\ raced \in BOOLEAN

(* The edges that a build without a cache gives f. *)
ColdEdges(p, f) == Targets(f, OnDisk, repo[p])

(* The files an import may mean are there, and in the build, as they were  *)
(* when the edges e were resolved.                                         *)
SameCandidates(p, import, e) ==
    \A i \in 1..Len(import) :
        /\ import[i] \in e.present <=> Exists(import[i])
        /\ import[i] \in e.among <=> import[i] \in repo[p]

(* While nobody has edited during a build, all that a build takes from the *)
(* cache is what it would have extracted itself: the facts always, the     *)
(* tsconfig if the build sees it, and the edge to a file unless one of the *)
(* files that its import may mean has come, gone, or moved into or out of  *)
(* the scanned paths since (hydrate_from_cache, add_resolved_edge).  It    *)
(* holds across builders, scopes, deleted databases and crashes.           *)
WarmIsColdIfSameCandidates ==
    ~raced => \A p \in Builders : pc[p] = "analyze" =>
        \A f \in repo[p] :
            LET warm == extracted[p][f] IN
            /\ warm.content = disk[f]
            /\ p \in SeesTsconfig => warm.under = settings
            /\ \A g \in Files :
                (\A import \in Imports[f] :
                    (\E i \in 1..Len(import) : import[i] = g) =>
                        SameCandidates(p, import, warm))
                => (g \in EdgesIn(p, f) <=> g \in ColdEdges(p, f))

(* A killed build leaves no facts without their resolutions in a database  *)
(* that others will read (put_extraction_batch).                           *)
FactsHaveResolutions ==
    \A i \in DOMAIN dbs, f \in Files :
        (dbs[i].facts[f] = None) <=> (dbs[i].resolutions[f] = None)

(* Two builds never work on one database, also while they delete and       *)
(* recreate the file below each other (AnalysisCache::open).               *)
OneBuildPerDb ==
    \A p, q \in Builders : p # q /\ handle[p] = handle[q] => handle[p] = 0

(* "Warm runs reduce extraction and resolution work without changing       *)
(* results" (docs/performance.md:37): a build gets the edges that a build  *)
(* without the cache would get.                                            *)
WarmIsCold ==
    ~raced => \A p \in Builders : pc[p] = "analyze" =>
        \A f \in repo[p] : EdgesIn(p, f) = ColdEdges(p, f)
=============================================================================
