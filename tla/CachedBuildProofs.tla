-------------------------- MODULE CachedBuildProofs --------------------------
(***************************************************************************)
(* Proofs about CachedBuild, for any files, imports, contents, builders    *)
(* and bounds.                                                             *)
(***************************************************************************)
EXTENDS CachedBuild, SequenceTheorems, TLAPS

LEMMA EmptyDbType == EmptyDb \in Databases
  BY DEF EmptyDb, Nothing, Databases

(* A build that reads the cache has one open. *)
HydrateHasDb == \A p \in Builders : pc[p] = "hydrate" => handle[p] # 0

TypeInv == TypeOK /\ HydrateHasDb

LEMMA TypeInit == Init => TypeInv
<1>1. Init => raced \in BOOLEAN
  BY DEF Init
<1> QED
  BY <1>1, CachedBuildAssumption
     DEF Init, TypeInv, TypeOK, HydrateHasDb, Nothing, Databases

(* The outcome of Database::create. *)
LEMMA CreateType ==
    ASSUME NEW p \in Builders, TypeOK, Create(p)
    PROVE  /\ dbs' \in Seq(Databases)
           /\ dbAt' \in 1..Len(dbs')
           /\ Len(dbs') >= Len(dbs)
           /\ \A i \in 1..Len(dbs) : dbs'[i] = dbs[i]
           /\ \A i \in 1..Len(dbs') : i > Len(dbs) => dbs'[i] = EmptyDb
           /\ handle' = [handle EXCEPT ![p] = dbAt']
           /\ \A q \in Builders : handle[q] # dbAt'
<1>1. CASE dbAt = 0
  <2>1. dbs' = Append(dbs, EmptyDb) /\ dbAt' = Len(dbs')
    BY <1>1 DEF Create
  <2>2. Len(dbs') = Len(dbs) + 1 /\ Len(dbs) \in Nat
    BY <2>1, EmptyDbType DEF TypeOK
  <2> QED
    BY <2>1, <2>2, EmptyDbType DEF Create, TypeOK
<1>2. CASE dbAt # 0
  <2>1. dbs' = dbs /\ dbAt' = dbAt /\ ~InUse(dbAt)
    BY <1>2 DEF Create, cacheVars
  <2>2. Len(dbs) \in Nat
    BY DEF TypeOK
  <2> QED
    BY <1>2, <2>1, <2>2 DEF Create, TypeOK, InUse
<1> QED
  BY <1>1, <1>2

(* What a transaction writes. *)
LEMMA WrittenType ==
    ASSUME NEW p \in Builders, TypeOK, pc[p] = "extract", AllExtracted(p),
           NEW f \in needs[p]
    PROVE  /\ FactsOf(p, f) \in Entries
           /\ ResolutionsOf(p, f) \in Edges
           /\ FactsOf(p, f) # None /\ ResolutionsOf(p, f) # None
<1>1. f \in Files
  BY DEF TypeOK
<1>2. extracted[p][f] \in Extractions
  BY <1>1 DEF TypeOK, AllExtracted
<1>3. hash[p][f] \in Contents \cup {None} /\ tsHash[p] \in Contents \cup {None}
  BY <1>1 DEF TypeOK
<1>4. FactsOf(p, f) \in Entries /\ ResolutionsOf(p, f) \in Edges
  BY <1>2, <1>3 DEF FactsOf, ResolutionsOf, Extractions, Entries, Edges
<1> QED
  BY <1>4, CachedBuildAssumption

(* The database after Persist. *)
Written(p) ==
    [facts |-> [f \in Files |->
        IF f \in needs[p] THEN FactsOf(p, f) ELSE dbs[handle[p]].facts[f]],
     resolutions |-> [f \in Files |->
        IF f \in needs[p] THEN ResolutionsOf(p, f)
        ELSE dbs[handle[p]].resolutions[f]]]

LEMMA PersistWrites ==
    ASSUME NEW p \in Builders, TypeOK, Persist(p), handle[p] # 0
    PROVE  /\ Written(p) \in Databases
           /\ dbs' \in Seq(Databases) /\ Len(dbs') = Len(dbs)
           /\ \A i \in 1..Len(dbs) :
                dbs'[i] = IF i = handle[p] THEN Written(p) ELSE dbs[i]
<1>1. handle[p] \in 1..Len(dbs) /\ Len(dbs) \in Nat
  BY DEF TypeOK
<1>2. dbs[handle[p]] \in Databases
  BY <1>1 DEF TypeOK
<1>3. Written(p) \in Databases
  BY <1>2, WrittenType DEF Written, Databases, Persist
<1>4. dbs' = [dbs EXCEPT ![handle[p]] = Written(p)]
  BY DEF Persist, Written
<1> QED
  BY <1>1, <1>3, <1>4 DEF TypeOK

LEMMA HydratedType ==
    ASSUME NEW p \in Builders, TypeOK, NEW f \in Files,
           NEW db \in Databases, Hit(p, f, db)
    PROVE  Extraction(db.facts[f], db.resolutions[f]) \in Extractions
<1>1. db.facts[f] \in Entries /\ db.resolutions[f] \in Edges
  BY DEF Hit, Databases
<1> QED
  BY <1>1 DEF Entries, Edges, Extraction, Extractions

LEMMA ExtractedType ==
    ASSUME NEW p \in Builders, TypeOK, NEW f \in Files, Exists(f)
    PROVE  Extraction([content |-> disk[f]], Resolve(p, f)) \in Extractions
<1>1. disk[f] \in Contents
  BY DEF TypeOK, Exists
<1>2. settings \in Contents /\ repo[p] \in SUBSET Files
        /\ OnDisk \in SUBSET Files
  BY DEF TypeOK, OnDisk
<1>3. Targets(f, OnDisk, repo[p]) \in SUBSET Files
  BY <1>2 DEF Targets
<1> QED
  BY <1>1, <1>2, <1>3 DEF Extraction, Resolve, Extractions

(* What every step leaves alone or changes, action by action. *)
LEMMA TypeStep == TypeInv /\ [Next]_vars => TypeInv'
<1> SUFFICES ASSUME TypeInv, [Next]_vars
             PROVE  TypeInv'
  OBVIOUS
<1>t. TypeOK
  BY DEF TypeInv
<1> USE CachedBuildAssumption DEF TypeInv, HydrateHasDb
<1>1. CASE Edit
  <2>1. raced' \in BOOLEAN
    BY <1>1 DEF Edit
  <2>2. /\ disk' \in [Files -> Contents \cup {Absent}]
        /\ settings' \in Contents
        /\ edits' \in 0..MaxEdits
    BY <1>1 DEF Edit, TypeOK
  <2>3. UNCHANGED <<cacheVars, pc, handle, buildVars, builds, crashes>>
    BY <1>1 DEF Edit
  <2> QED
    BY <2>1, <2>2, <2>3 DEF TypeOK, cacheVars, buildVars
<1>2. ASSUME NEW p \in Builders, Begin(p)
      PROVE  TypeInv'
  BY <1>2 DEF Begin, Goto, TypeOK, diskVars, cacheVars, buildVars
<1>3. ASSUME NEW p \in Builders, Build(p)
      PROVE  TypeInv'
  <2>1. CASE Open(p) \/ Reopen(p)
    <3>1. Create(p) /\ UNCHANGED <<diskVars, buildVars, counters, raced>>
      BY <2>1 DEF Open, Reopen
    <3>2. /\ dbs' \in Seq(Databases) /\ dbAt' \in 1..Len(dbs')
          /\ Len(dbs') >= Len(dbs)
          /\ handle' = [handle EXCEPT ![p] = dbAt']
      BY <3>1, <1>t, CreateType
    <3>3. pc' = [pc EXCEPT ![p] = "collect"]
      BY <3>1 DEF Create, Goto
    <3>4. Len(dbs) \in Nat /\ Len(dbs') \in Nat
      BY <3>2 DEF TypeOK
    <3>5. handle' \in [Builders -> 0..Len(dbs')] /\ dbAt' \in 0..Len(dbs')
      BY <3>2, <3>4 DEF TypeOK
    <3> QED
      BY <3>1, <3>2, <3>3, <3>5 DEF TypeOK, diskVars, buildVars, counters
  <2>2. CASE OpenFails(p) \/ ReopenFails(p)
    BY <2>2
       DEF OpenFails, ReopenFails, Goto, TypeOK, diskVars, cacheVars,
           buildVars, counters
  <2>8. CASE Remove(p)
    <3>1. Len(dbs) \in Nat
      BY DEF TypeOK
    <3> QED
      BY <2>8, <3>1
         DEF Remove, Goto, TypeOK, diskVars, buildVars, counters
  <2>3. CASE Collect(p)
    BY <2>3
       DEF Collect, Goto, TypeOK, Nothing, diskVars, cacheVars, counters
  <2>4. CASE Hydrate(p)
    <3> DEFINE db == dbs[handle[p]]
               hits == {f \in repo[p] : Exists(f) /\ Hit(p, f, db)}
    <3>1. db \in Databases
      BY <2>4 DEF Hydrate, TypeOK
    <3>2. hits \subseteq Files /\ repo[p] \subseteq Files
      BY DEF TypeOK
    <3>3. hash' \in [Builders -> [Files -> Contents \cup {None}]]
      BY <2>4 DEF Hydrate, TypeOK, Exists
    <3>4. \A f \in hits :
            Extraction(db.facts[f], db.resolutions[f]) \in Extractions
      BY <3>1, <3>2, HydratedType
    <3>5. extracted' = [extracted EXCEPT ![p] = [f \in Files |->
            IF f \in hits THEN Extraction(db.facts[f], db.resolutions[f])
            ELSE None]]
      BY <2>4 DEF Hydrate
    <3> HIDE DEF db, hits
    <3>6. extracted' \in [Builders -> [Files -> Extractions \cup {None}]]
      BY <3>4, <3>5 DEF TypeOK
    <3>7. needs' \in [Builders -> SUBSET Files]
      BY <2>4, <3>2 DEF Hydrate, TypeOK
    <3> QED
      BY <2>4, <3>3, <3>6, <3>7
         DEF Hydrate, Goto, TypeOK, diskVars, cacheVars, counters
  <2>5. CASE Extract(p)
    <3>1. PICK f \in needs[p] :
            /\ Exists(f)
            /\ extracted' = [extracted EXCEPT ![p][f] =
                             Extraction([content |-> disk[f]], Resolve(p, f))]
      BY <2>5 DEF Extract
    <3>2. f \in Files
      BY DEF TypeOK
    <3>3. extracted' \in [Builders -> [Files -> Extractions \cup {None}]]
      BY <3>1, <3>2, ExtractedType DEF TypeOK
    <3> QED
      BY <2>5, <3>3 DEF Extract, TypeOK, diskVars, cacheVars, counters
  <2>6. CASE ExtractFails(p)
    <3>1. handle' = [handle EXCEPT ![p] = 0] /\ Len(dbs) \in Nat
      BY <2>6 DEF ExtractFails, TypeOK
    <3> QED
      BY <2>6, <3>1
         DEF ExtractFails, Goto, TypeOK, diskVars, cacheVars, buildVars, counters
  <2>9. CASE Finish(p)
    <3>1. handle' = [handle EXCEPT ![p] = 0] /\ Len(dbs) \in Nat
      BY <2>9 DEF Finish, TypeOK
    <3> QED
      BY <2>9, <3>1
         DEF Finish, Goto, TypeOK, diskVars, cacheVars, buildVars, counters
  <2>7. CASE Persist(p)
    <3>1. dbs' \in Seq(Databases) /\ Len(dbs') = Len(dbs)
      BY <2>7, PersistWrites DEF Persist, TypeOK
    <3> QED
      BY <2>7, <3>1 DEF Persist, Goto, TypeOK, diskVars, buildVars, counters
  <2> QED
    BY <1>3, <2>1, <2>2, <2>3, <2>4, <2>5, <2>6, <2>7, <2>8, <2>9
       DEF Build
<1>4. ASSUME NEW p \in Builders, Crash(p)
      PROVE  TypeInv'
  BY <1>4 DEF Crash, Goto, TypeOK, diskVars, cacheVars, buildVars
<1>5. CASE UNCHANGED vars
  BY <1>5
     DEF vars, TypeOK, diskVars, cacheVars, buildVars, counters
<1> QED
  BY <1>1, <1>2, <1>3, <1>4, <1>5 DEF Next

(* Types of the cache's tables and of a build's state. *)
THEOREM TypeCorrect == Spec => []TypeOK
<1>1. TypeInv => TypeOK
  BY DEF TypeInv
<1> QED
  BY TypeInit, TypeStep, <1>1, PTL DEF Spec

-----------------------------------------------------------------------------
(* The databases                                                           *)

(* A step leaves a database alone, makes an empty one, or commits one      *)
(* transaction.                                                            *)
LEMMA DbStep ==
    ASSUME TypeInv, [Next]_vars
    PROVE  /\ Len(dbs) \in Nat
           /\ \A i \in 1..Len(dbs') :
                \/ i \in 1..Len(dbs) /\ dbs'[i] = dbs[i]
                \/ dbs'[i] = EmptyDb
                \/ \E p \in Builders :
                    /\ Persist(p) /\ handle[p] = i /\ i \in 1..Len(dbs)
                    /\ Written(p) \in Databases /\ dbs'[i] = Written(p)
<1>t. TypeOK /\ Len(dbs) \in Nat
  BY DEF TypeInv, TypeOK
<1>1. CASE dbs' = dbs
  BY <1>1, <1>t
<1>2. ASSUME NEW p \in Builders, Open(p) \/ Reopen(p)
      PROVE  \A i \in 1..Len(dbs') :
                \/ i \in 1..Len(dbs) /\ dbs'[i] = dbs[i]
                \/ dbs'[i] = EmptyDb
  <2>1. Create(p)
    BY <1>2 DEF Open, Reopen
  <2>2. /\ \A i \in 1..Len(dbs) : dbs'[i] = dbs[i]
        /\ \A i \in 1..Len(dbs') : i > Len(dbs) => dbs'[i] = EmptyDb
    BY <2>1, <1>t, CreateType
  <2> QED
    BY <2>2, <1>t
<1>3. ASSUME NEW p \in Builders, Persist(p), handle[p] # 0
      PROVE  \A i \in 1..Len(dbs') :
                \/ i \in 1..Len(dbs) /\ dbs'[i] = dbs[i]
                \/ /\ Persist(p) /\ handle[p] = i /\ i \in 1..Len(dbs)
                   /\ Written(p) \in Databases /\ dbs'[i] = Written(p)
  BY <1>3, <1>t, PersistWrites
<1>4. \/ dbs' = dbs
      \/ \E p \in Builders :
            Open(p) \/ Reopen(p) \/ (Persist(p) /\ handle[p] # 0)
  BY DEF Next, Build, Edit, Begin, OpenFails, Remove, ReopenFails, Collect,
         Hydrate, Extract, ExtractFails, Persist, Finish, Crash, vars,
         cacheVars
<1> QED
  BY <1>1, <1>2, <1>3, <1>4, <1>t

Paired(db) == \A f \in Files : (db.facts[f] = None) <=> (db.resolutions[f] = None)

LEMMA WrittenPaired ==
    ASSUME NEW p \in Builders, TypeOK, Persist(p), handle[p] # 0,
           Paired(dbs[handle[p]])
    PROVE  Paired(Written(p))
<1>1. \A f \in needs[p] : FactsOf(p, f) # None /\ ResolutionsOf(p, f) # None
  BY WrittenType DEF Persist
<1> QED
  BY <1>1 DEF Paired, Written

(* Killed builds leave no facts without resolutions, in any database.      *)
(* (put_extraction_batch)                                                  *)
THEOREM FactsAlwaysHaveResolutions == Spec => []FactsHaveResolutions
<1> DEFINE Inv == \A i \in 1..Len(dbs) : Paired(dbs[i])
<1>1. Init => Inv
  BY DEF Init
<1>2. TypeInv /\ Inv /\ [Next]_vars => Inv'
  <2> SUFFICES ASSUME TypeInv, Inv, [Next]_vars, NEW i \in 1..Len(dbs')
               PROVE  Paired(dbs'[i])
    BY DEF Paired
  <2>1. CASE dbs'[i] = EmptyDb
    BY <2>1 DEF Paired, EmptyDb, Nothing
  <2>2. ASSUME NEW p \in Builders, Persist(p), handle[p] = i,
               i \in 1..Len(dbs), dbs'[i] = Written(p)
        PROVE  Paired(dbs'[i])
    <3>1. TypeOK /\ handle[p] # 0
      BY <2>2 DEF TypeInv
    <3> QED
      BY <2>2, <3>1, WrittenPaired
  <2> QED
    BY <2>1, <2>2, DbStep
<1>3. TypeInv /\ Inv => FactsHaveResolutions
  <2>1. TypeInv => DOMAIN dbs = 1..Len(dbs)
    BY DEF TypeInv, TypeOK
  <2> QED
    BY <2>1 DEF FactsHaveResolutions, Paired
<1> QED
  BY TypeInit, TypeStep, <1>1, <1>2, <1>3, PTL DEF Spec

LEMMA OneBuildStep ==
    TypeInv /\ OneBuildPerDb /\ [Next]_vars => OneBuildPerDb'
<1> SUFFICES ASSUME TypeInv, OneBuildPerDb, [Next]_vars
             PROVE  OneBuildPerDb'
  OBVIOUS
<1>t. TypeOK
  BY DEF TypeInv
<1>1. ASSUME NEW p \in Builders, Open(p) \/ Reopen(p)
      PROVE  OneBuildPerDb'
  <2>1. Create(p)
    BY <1>1 DEF Open, Reopen
  <2>2. /\ handle' = [handle EXCEPT ![p] = dbAt']
        /\ \A q \in Builders : handle[q] # dbAt'
    BY <2>1, <1>t, CreateType
  <2> QED
    BY <2>2, <1>t DEF OneBuildPerDb, TypeOK
<1>2. ASSUME NEW p \in Builders, ExtractFails(p) \/ Finish(p) \/ Crash(p)
      PROVE  OneBuildPerDb'
  <2>1. handle' = [handle EXCEPT ![p] = 0]
    BY <1>2 DEF ExtractFails, Finish, Crash
  <2> QED
    BY <2>1, <1>t DEF OneBuildPerDb, TypeOK
<1>3. CASE UNCHANGED handle
  BY <1>3 DEF OneBuildPerDb
<1> QED
  BY <1>1, <1>2, <1>3
     DEF Next, Build, Edit, Begin, OpenFails, Remove, ReopenFails, Collect,
         Hydrate, Extract, Persist, vars

(* No two builds share a database (AnalysisCache::open). *)
THEOREM OneBuildAlwaysPerDb == Spec => []OneBuildPerDb
<1>1. Init => OneBuildPerDb
  BY DEF Init, OneBuildPerDb
<1> QED
  BY TypeInit, TypeStep, OneBuildStep, <1>1, PTL DEF Spec

-----------------------------------------------------------------------------
(* Warm and cold builds, when nobody edits during a build                  *)

(* What a database says of a file is true of the content under its hash,   *)
(* of the tsconfig under its hash, of the files there were then and of     *)
(* those it was built among.                                               *)
Honest(db) ==
    \A f \in Files : db.facts[f] # None =>
        /\ db.facts[f].hash \in {None, db.facts[f].content}
        /\ db.facts[f].ts \in {None, db.resolutions[f].under}
        /\ db.resolutions[f].targets =
                Targets(f, db.resolutions[f].present, db.resolutions[f].among)

(* What a build has of f is what it would extract itself. *)
Current(p, f) ==
    /\ extracted[p][f].content = disk[f]
    /\ p \in SeesTsconfig => extracted[p][f].under = settings
    /\ extracted[p][f].targets =
            Targets(f, extracted[p][f].present, extracted[p][f].among)

(* The state of a build that has collected its files, by its step. *)
InBuild(p) ==
    pc[p] \in {"hydrate", "extract", "analyze"} =>
        /\ \A f \in repo[p] : Exists(f)
        /\ needs[p] \subseteq repo[p]
        /\ tsHash[p] = IF p \in SeesTsconfig THEN settings ELSE None
        /\ pc[p] # "hydrate" =>
            \A f \in repo[p] :
                /\ handle[p] # 0 => hash[p][f] = disk[f]
                /\ f \notin needs[p] => extracted[p][f] # None
                /\ extracted[p][f] # None => Current(p, f)
        /\ pc[p] = "analyze" => \A f \in repo[p] : extracted[p][f] # None

QuietInv ==
    /\ \A i \in 1..Len(dbs) : Honest(dbs[i])
    /\ \A p \in Builders : InBuild(p)

LEMMA HitIsCurrent ==
    ASSUME NEW p \in Builders, TypeOK, NEW f \in Files, Exists(f),
           NEW db \in Databases, Honest(db), Hit(p, f, db),
           tsHash[p] = IF p \in SeesTsconfig THEN settings ELSE None,
           NEW e, e = Extraction(db.facts[f], db.resolutions[f])
    PROVE  /\ e # None
           /\ e.content = disk[f]
           /\ p \in SeesTsconfig => e.under = settings
           /\ e.targets = Targets(f, e.present, e.among)
<1>1. disk[f] \in Contents /\ settings \in Contents
  BY DEF TypeOK, Exists
<1>2. e # None
  BY HydratedType, CachedBuildAssumption
<1>3. /\ e.content = db.facts[f].content
      /\ e.under = db.resolutions[f].under
      /\ e.targets = db.resolutions[f].targets
      /\ e.present = db.resolutions[f].present
      /\ e.among = db.resolutions[f].among
  BY DEF Extraction
<1>4. db.facts[f] # None /\ db.facts[f].hash = disk[f]
      /\ db.facts[f].ts = tsHash[p]
  BY DEF Hit
<1> QED
  BY <1>1, <1>2, <1>3, <1>4, CachedBuildAssumption DEF Honest

LEMMA WrittenHonest ==
    ASSUME NEW p \in Builders, TypeOK, InBuild(p), Persist(p), handle[p] # 0,
           Honest(dbs[handle[p]])
    PROVE  Honest(Written(p))
<1> SUFFICES ASSUME NEW f \in Files, Written(p).facts[f] # None
             PROVE  /\ Written(p).facts[f].hash \in
                            {None, Written(p).facts[f].content}
                    /\ Written(p).facts[f].ts \in
                            {None, Written(p).resolutions[f].under}
                    /\ Written(p).resolutions[f].targets =
                        Targets(f, Written(p).resolutions[f].present,
                                Written(p).resolutions[f].among)
  BY DEF Honest
<1>1. CASE f \notin needs[p]
  BY <1>1 DEF Honest, Written
<1>2. CASE f \in needs[p]
  <2>1. /\ Written(p).facts[f] = FactsOf(p, f)
        /\ Written(p).resolutions[f] = ResolutionsOf(p, f)
    BY <1>2 DEF Written
  <2>2. /\ f \in repo[p] /\ hash[p][f] = disk[f] /\ Current(p, f)
        /\ tsHash[p] = IF p \in SeesTsconfig THEN settings ELSE None
    BY <1>2 DEF InBuild, Persist, AllExtracted
  <2> QED
    BY <2>1, <2>2 DEF FactsOf, ResolutionsOf, Current
<1> QED
  BY <1>1, <1>2

(* A step of p keeps what holds of another build, and an edit, made while  *)
(* no build runs, keeps what holds of all.                                 *)
LEMMA OthersKeep ==
    ASSUME NEW p \in Builders, InBuild(p), UNCHANGED diskVars,
           pc'[p] = pc[p], handle'[p] = handle[p], repo'[p] = repo[p],
           tsHash'[p] = tsHash[p], hash'[p] = hash[p], needs'[p] = needs[p],
           extracted'[p] = extracted[p]
    PROVE  InBuild(p)'
  BY DEF InBuild, Current, Exists, diskVars

LEMMA BuildStep ==
    ASSUME TypeInv, QuietInv, ~raced', [Next]_vars, NEW p \in Builders
    PROVE  InBuild(p)'
<1>t. TypeOK /\ InBuild(p)
  BY DEF TypeInv, QuietInv
<1>1. CASE Edit
  <2>1. ~Running(p) /\ pc' = pc
    BY <1>1 DEF Edit
  <2> QED
    BY <2>1 DEF Running, InBuild
<1>2. ASSUME NEW q \in Builders, q # p, Begin(q) \/ Build(q) \/ Crash(q)
      PROVE  InBuild(p)'
  <2>1. /\ UNCHANGED diskVars
        /\ pc'[p] = pc[p] /\ handle'[p] = handle[p] /\ repo'[p] = repo[p]
        /\ tsHash'[p] = tsHash[p] /\ hash'[p] = hash[p]
        /\ needs'[p] = needs[p] /\ extracted'[p] = extracted[p]
    <3>1. CASE Open(q) \/ Reopen(q)
      BY <3>1, <1>2, <1>t DEF Open, Reopen, Create, Goto, buildVars, TypeOK
    <3>2. CASE Extract(q)
      BY <3>2, <1>2, <1>t DEF Extract, TypeOK
    <3>3. CASE OpenFails(q) \/ Remove(q) \/ ReopenFails(q) \/ Begin(q)
      BY <3>3, <1>2, <1>t
         DEF OpenFails, Remove, ReopenFails, Begin, Goto, buildVars, TypeOK
    <3>4. CASE Collect(q) \/ Hydrate(q)
      BY <3>4, <1>2, <1>t DEF Collect, Hydrate, Goto, TypeOK
    <3>5. CASE ExtractFails(q) \/ Persist(q) \/ Finish(q) \/ Crash(q)
      BY <3>5, <1>2, <1>t
         DEF ExtractFails, Persist, Finish, Crash, Goto, buildVars, TypeOK
    <3> QED
      BY <1>2, <3>1, <3>2, <3>3, <3>4, <3>5 DEF Build
  <2> QED
    BY <2>1, <1>t, OthersKeep
<1>3. CASE Begin(p) \/ Open(p) \/ OpenFails(p) \/ Remove(p) \/ Reopen(p)
           \/ ExtractFails(p) \/ Finish(p) \/ Crash(p)
  <2>1. pc'[p] \notin {"hydrate", "extract", "analyze"}
    BY <1>3, <1>t
       DEF Begin, Open, OpenFails, Remove, Reopen, Create, ExtractFails,
           Finish, Crash, Goto, TypeOK
  <2> QED
    BY <2>1 DEF InBuild
<1>4. CASE ReopenFails(p)
  BY <1>4, <1>t DEF ReopenFails, Goto, InBuild, TypeOK
<1>5. CASE Collect(p)
  <2>1. /\ repo'[p] = {f \in Scope[p] : Exists(f)} /\ needs'[p] = repo'[p]
        /\ tsHash'[p] = IF p \in SeesTsconfig THEN settings ELSE None
        /\ extracted'[p] = Nothing
        /\ pc'[p] = IF handle[p] = 0 THEN "extract" ELSE "hydrate"
        /\ UNCHANGED <<disk, settings, handle>>
    BY <1>5, <1>t DEF Collect, Goto, diskVars, TypeOK
  <2>2. repo'[p] \subseteq Files
    BY <2>1, CachedBuildAssumption
  <2>3. \A f \in repo'[p] : disk'[f] # Absent /\ extracted'[p][f] = None
    BY <2>1, <2>2 DEF Nothing, Exists
  <2> QED
    BY <2>1, <2>3 DEF InBuild, Exists
<1>6. CASE Hydrate(p)
  <2> DEFINE db == dbs[handle[p]]
             hits == {f \in repo[p] : Exists(f) /\ Hit(p, f, db)}
             e(f) == Extraction(db.facts[f], db.resolutions[f])
  <2>1. db \in Databases /\ Honest(db) /\ repo[p] \subseteq Files
    BY <1>6 DEF TypeInv, TypeOK, HydrateHasDb, QuietInv, Hydrate
  <2>2. /\ \A f \in repo[p] : Exists(f)
        /\ tsHash[p] = IF p \in SeesTsconfig THEN settings ELSE None
    BY <1>6, <1>t DEF InBuild, Hydrate
  <2>3. \A f \in hits :
            /\ e(f) # None /\ e(f).content = disk[f]
            /\ p \in SeesTsconfig => e(f).under = settings
            /\ e(f).targets = Targets(f, e(f).present, e(f).among)
    BY <2>1, <2>2, <1>t, HitIsCurrent
  <2>4. /\ \A f \in repo[p] : hash'[p][f] = disk[f]
        /\ needs'[p] = repo[p] \ hits
        /\ \A f \in repo[p] :
              extracted'[p][f] = IF f \in hits THEN e(f) ELSE None
        /\ pc'[p] = "extract"
        /\ UNCHANGED <<disk, settings, handle, repo, tsHash>>
    BY <1>6, <1>t, <2>1, <2>2 DEF Hydrate, Goto, TypeOK, diskVars
  <2> HIDE DEF hits, e
  <2> QED
    BY <2>2, <2>3, <2>4 DEF InBuild, Current, Exists
<1>7. CASE Extract(p)
  <2>1. PICK f \in needs[p] :
          /\ Exists(f)
          /\ extracted' = [extracted EXCEPT ![p][f] =
                           Extraction([content |-> disk[f]], Resolve(p, f))]
    BY <1>7 DEF Extract
  <2>2. /\ pc[p] = "extract" /\ f \in repo[p] /\ f \in Files
        /\ \A g \in repo[p] : Exists(g)
    BY <1>7, <1>t DEF Extract, InBuild, TypeOK
  <2> DEFINE e == Extraction([content |-> disk[f]], Resolve(p, f))
  <2>3. /\ e.content = disk[f] /\ e.under = settings
        /\ e.targets = Targets(f, e.present, e.among)
    BY <2>2 DEF Extraction, Resolve
  <2>4. /\ \A g \in repo[p] :
              extracted'[p][g] = IF g = f THEN e ELSE extracted[p][g]
        /\ UNCHANGED <<disk, settings, pc, handle, repo, tsHash, hash, needs>>
    BY <1>7, <1>t, <2>1, <2>2 DEF Extract, TypeOK, diskVars
  <2> HIDE DEF e
  <2> QED
    BY <1>t, <2>1, <2>2, <2>3, <2>4 DEF InBuild, Current, Exists
<1>8. CASE Persist(p)
  BY <1>8, <1>t
     DEF Persist, AllExtracted, Goto, InBuild, Current, Exists, diskVars,
         buildVars, TypeOK
<1>9. CASE UNCHANGED vars
  BY <1>9, <1>t, OthersKeep DEF vars, diskVars, buildVars
<1> QED
  BY <1>1, <1>2, <1>3, <1>4, <1>5, <1>6, <1>7, <1>8, <1>9 DEF Next, Build

LEMMA HonestStep ==
    ASSUME TypeInv, QuietInv, [Next]_vars
    PROVE  \A i \in 1..Len(dbs') : Honest(dbs'[i])
<1> SUFFICES ASSUME NEW i \in 1..Len(dbs')
             PROVE  Honest(dbs'[i])
  OBVIOUS
<1>1. CASE dbs'[i] = EmptyDb
  BY <1>1 DEF Honest, EmptyDb, Nothing
<1>2. ASSUME NEW p \in Builders, Persist(p), handle[p] = i,
             i \in 1..Len(dbs), dbs'[i] = Written(p)
      PROVE  Honest(dbs'[i])
  <2>1. TypeOK /\ handle[p] # 0 /\ InBuild(p) /\ Honest(dbs[handle[p]])
    BY <1>2 DEF TypeInv, QuietInv
  <2> QED
    BY <1>2, <2>1, WrittenHonest
<1> QED
  BY <1>1, <1>2, DbStep DEF QuietInv

(* The imports that may mean g have the files they had. *)
FromSame(p, f, g) ==
    \A import \in Imports[f] :
        (\E i \in 1..Len(import) : import[i] = g) =>
            SameCandidates(p, import, extracted[p][f])

(* With the same candidates an import means the same file. *)
LEMMA SameCandidatesAgree ==
    ASSUME NEW p \in Builders, NEW f \in Files, Current(p, f),
           NEW g \in Files, FromSame(p, f, g)
    PROVE  g \in EdgesIn(p, f) <=> g \in ColdEdges(p, f)
<1> DEFINE e == extracted[p][f]
<1>1. \A import \in Imports[f] : import \in Seq(Files)
  BY CachedBuildAssumption
<1>2. ASSUME NEW import \in Imports[f],
             NEW i, i \in 1..Len(import), import[i] = g
      PROVE  \A j \in 1..i :
                /\ import[j] \in e.present <=> import[j] \in OnDisk
                /\ import[j] \in e.among <=> import[j] \in repo[p]
  <2>1. import \in Seq(Files)
    BY <1>1, <1>2
  <2>2. SameCandidates(p, import, e)
    BY <1>2 DEF FromSame
  <2>3. ASSUME NEW j \in 1..i
        PROVE  j \in 1..Len(import) /\ import[j] \in Files
    BY <1>2, <2>1, <2>3
  <2>4. ASSUME NEW j \in 1..i
        PROVE  /\ import[j] \in e.present <=> Exists(import[j])
               /\ import[j] \in e.among <=> import[j] \in repo[p]
    BY <2>2, <2>3 DEF SameCandidates
  <2> QED
    BY <2>3, <2>4 DEF OnDisk
<1>3. e.targets = Targets(f, e.present, e.among)
  BY DEF Current
<1>4. ASSUME g \in EdgesIn(p, f)
      PROVE  g \in ColdEdges(p, f)
  <2>1. g \in Targets(f, e.present, e.among) /\ g \in repo[p]
    BY <1>3, <1>4 DEF EdgesIn
  <2>2. PICK import \in Imports[f] : \E i \in 1..Len(import) :
          import[i] = g /\ \A j \in 1..(i - 1) : import[j] \notin e.present
    BY <2>1 DEF Targets
  <2>3. PICK i \in 1..Len(import) :
          import[i] = g /\ \A j \in 1..(i - 1) : import[j] \notin e.present
    BY <2>2
  <2>4. g \in e.present /\ g \in OnDisk
    BY <2>1, <2>3, <1>2 DEF Targets
  <2>5. \A j \in 1..(i - 1) : import[j] \notin OnDisk
    BY <2>3, <1>2
  <2> QED
    BY <2>1, <2>3, <2>4, <2>5 DEF ColdEdges, Targets
<1>5. ASSUME g \in ColdEdges(p, f)
      PROVE  g \in EdgesIn(p, f)
  <2>1. PICK import \in Imports[f] : \E i \in 1..Len(import) :
          import[i] = g /\ \A j \in 1..(i - 1) : import[j] \notin OnDisk
    BY <1>5 DEF ColdEdges, Targets
  <2>2. g \in OnDisk /\ g \in repo[p]
    BY <1>5 DEF ColdEdges, Targets
  <2>3. PICK i \in 1..Len(import) :
          import[i] = g /\ \A j \in 1..(i - 1) : import[j] \notin OnDisk
    BY <2>1
  <2>4. g \in e.present /\ g \in e.among
    BY <2>2, <2>3, <1>2
  <2>5. \A j \in 1..(i - 1) : import[j] \notin e.present
    BY <2>3, <1>2
  <2> QED
    BY <2>2, <2>3, <2>4, <2>5, <1>3 DEF EdgesIn, Targets
<1> QED
  BY <1>4, <1>5
(* Whatever builders share the cache and delete it, a build takes from it  *)
(* what it would extract itself, an edge when the files that its import    *)
(* may mean are where they were (hydrate_from_cache,                       *)
(* put_extraction_batch, add_resolved_edge).                               *)
THEOREM WarmAlwaysColdIfSameCandidates == Spec => []WarmIsColdIfSameCandidates
<1>1. Init => QuietInv
  BY DEF Init, QuietInv, InBuild
<1>2. TypeInv /\ QuietInv /\ ~raced' /\ [Next]_vars => QuietInv'
  <2> SUFFICES ASSUME TypeInv, QuietInv, ~raced', [Next]_vars
               PROVE  QuietInv'
    OBVIOUS
  <2>1. \A i \in 1..Len(dbs') : Honest(dbs'[i])
    BY HonestStep
  <2>2. \A p \in Builders : InBuild(p)'
    BY BuildStep
  <2> QED
    BY <2>1, <2>2 DEF QuietInv, Honest
<1>3. TypeInv /\ QuietInv => WarmIsColdIfSameCandidates
  <2> SUFFICES ASSUME TypeInv, QuietInv, NEW p \in Builders, pc[p] = "analyze",
                      NEW f \in repo[p]
               PROVE  /\ extracted[p][f].content = disk[f]
                      /\ p \in SeesTsconfig => extracted[p][f].under = settings
                      /\ \A g \in Files : FromSame(p, f, g) =>
                            (g \in EdgesIn(p, f) <=> g \in ColdEdges(p, f))
    BY DEF WarmIsColdIfSameCandidates, FromSame
  <2>1. Current(p, f) /\ f \in Files
    BY DEF QuietInv, InBuild, TypeInv, TypeOK
  <2> QED
    BY <2>1, SameCandidatesAgree DEF Current
<1>4. raced => WarmIsColdIfSameCandidates
  BY DEF WarmIsColdIfSameCandidates
<1>r. raced /\ [Next]_vars => raced'
  BY DEF Next, Edit, Begin, Build, Open, OpenFails, Remove, Reopen,
         ReopenFails, Collect, Hydrate, Extract, ExtractFails, Persist,
         Finish, Crash, vars
<1> DEFINE Quiet == raced \/ QuietInv
<1>5. Init => Quiet
  BY <1>1
<1>6. TypeInv /\ Quiet /\ [Next]_vars => Quiet'
  BY <1>2, <1>r
<1>7. TypeInv /\ Quiet => WarmIsColdIfSameCandidates
  BY <1>3, <1>4
<1> HIDE DEF Quiet
<1> QED
  BY TypeInit, TypeStep, <1>5, <1>6, <1>7, PTL DEF Spec
=============================================================================
