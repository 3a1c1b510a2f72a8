------------------------- MODULE DaemonServerProofs -------------------------
(***************************************************************************)
(* What DaemonServer promises for every set of files, contents and         *)
(* connections and for every bound.  The inductive invariant adds to the   *)
(* properties what the running build knows: what it has read and is no     *)
(* longer so on disk is announced by an event that is still to come.       *)
(***************************************************************************)
EXTENDS DaemonServer, TLAPS

-----------------------------------------------------------------------------
(* Lemmas about the operators                                              *)

(* A loaded configuration makes a well-formed new index (HotIndex::new). *)
LEMMA NewIndexType ==
    ASSUME NEW config \in Loaded
    PROVE  NewIndex(config) \in Indexes
BY DEF NewIndex, Indexes

(* The head of a rebuild keeps the index well formed, keeps its build, and *)
(* leaves no configuration change pending (invalidate_files and the reload *)
(* in rebuild_changed).                                                    *)
LEMMA BeginRebuildIndex ==
    ASSUME NEW ix \in Indexes, NEW files \in SUBSET Paths,
           NEW onDisk \in FileStates
    PROVE  LET marked == InvalidateFiles(ix, files)
               ready == ReloadConfig(marked, onDisk)
           IN  /\ ready \in Indexes
               /\ ready.build = ix.build
               /\ ready.invalidated = ix.invalidated \cup files
               /\ ~ready.configChangePending
               /\ ready.config = IF marked.configChangePending
                                    /\ onDisk \in Contents
                                 THEN onDisk ELSE ix.config
               /\ marked.configChangePending <=>
                    ix.configChangePending
                    \/ \E p \in files : RequiresFullRebuild(p)
<1> DEFINE marked == InvalidateFiles(ix, files)
           ready == ReloadConfig(marked, onDisk)
<1>1. /\ marked \in Indexes
      /\ marked.build = ix.build
      /\ marked.config = ix.config
      /\ marked.invalidated = ix.invalidated \cup files
      /\ marked.configChangePending <=>
            ix.configChangePending \/ \E p \in files : RequiresFullRebuild(p)
  BY DEF InvalidateFiles, Indexes
<1>2. CASE marked.configChangePending
  <2> DEFINE config == IF onDisk \in Contents THEN onDisk ELSE marked.config
  <2>1. config \in Loaded
    BY <1>1 DEF Indexes, Loaded
  <2>2. ready = [marked EXCEPT !.config = config,
                               !.configChangePending = FALSE]
    BY <1>2 DEF ReloadConfig
  <2> QED
    BY <1>1, <1>2, <2>1, <2>2 DEF Indexes
<1>3. CASE ~marked.configChangePending
  BY <1>1, <1>3 DEF ReloadConfig
<1> QED
  BY <1>2, <1>3

(* Installing a build makes it the graph of the index and clears what was  *)
(* pending (the tail of HotIndex::build_initial).                          *)
LEMMA InstallBuildIndex ==
    ASSUME NEW ix \in Indexes, NEW build \in Builds
    PROVE  /\ InstallBuild(ix, build) \in Indexes
           /\ InstallBuild(ix, build).build = build
           /\ InstallBuild(ix, build).config = ix.config
           /\ InstallBuild(ix, build).invalidated = {}
           /\ ~InstallBuild(ix, build).configChangePending
<1> DEFINE rebuilds == IF ix.generation = 0 THEN ix.incrementalRebuilds
                       ELSE ix.incrementalRebuilds + 1
<1>1. rebuilds \in Nat /\ ix.generation + 1 \in Nat
  BY DEF Indexes
<1>2. InstallBuild(ix, build) =
        [ix EXCEPT !.build = build, !.generation = ix.generation + 1,
                   !.incrementalRebuilds = rebuilds, !.invalidated = {},
                   !.configChangePending = FALSE]
  BY DEF InstallBuild
<1> HIDE DEF rebuilds
<1> QED
  BY <1>1, <1>2 DEF Indexes

(* A batch sent to the channel joins the paths in it. *)
LEMMA GatheredAppend ==
    ASSUME NEW s \in Seq(SUBSET Paths), NEW paths \in SUBSET Paths
    PROVE  Gathered(Append(s, paths)) = Gathered(s) \cup paths
<1> DEFINE t == Append(s, paths)
<1>1. /\ Len(s) \in Nat
      /\ Len(t) = Len(s) + 1
      /\ \A i \in 1..Len(s) : i \in 1..Len(t) /\ t[i] = s[i]
      /\ Len(t) \in 1..Len(t) /\ t[Len(t)] = paths
      /\ \A i \in 1..Len(t) : i \in 1..Len(s) \/ i = Len(t)
  OBVIOUS
<1> HIDE DEF t
<1>2. \A p : p \in Gathered(t) => p \in Gathered(s) \cup paths
  BY <1>1 DEF Gathered
<1>3. \A p : p \in Gathered(s) \cup paths => p \in Gathered(t)
  BY <1>1 DEF Gathered
<1>4. Gathered(t) = Gathered(s) \cup paths
  BY <1>2, <1>3
<1> QED
  BY <1>4 DEF t

(* A batch received from the channel is the only loss of the channel. *)
LEMMA GatheredTail ==
    ASSUME NEW s \in Seq(SUBSET Paths), s # <<>>
    PROVE  Gathered(s) = Head(s) \cup Gathered(Tail(s))
<1>1. /\ Len(s) \in Nat \ {0}
      /\ Head(s) = s[1]
      /\ Len(Tail(s)) = Len(s) - 1
      /\ \A i \in 1..Len(s) - 1 : Tail(s)[i] = s[i + 1]
  OBVIOUS
<1>2. \A i \in 1..Len(s) : i = 1 \/ i - 1 \in 1..Len(s) - 1
  BY <1>1
<1>3. \A p : p \in Gathered(s) => p \in Head(s) \cup Gathered(Tail(s))
  <2> SUFFICES ASSUME NEW i \in 1..Len(s), NEW p \in s[i]
               PROVE  p \in Head(s) \cup Gathered(Tail(s))
    BY DEF Gathered
  <2>1. CASE i = 1
    BY <1>1, <2>1
  <2>2. CASE i # 1
    <3>1. i - 1 \in 1..Len(Tail(s)) /\ Tail(s)[i - 1] = s[i]
      BY <1>1, <1>2, <2>2
    <3> QED
      BY <3>1 DEF Gathered
  <2> QED
    BY <2>1, <2>2
<1>4. \A p : p \in Head(s) \cup Gathered(Tail(s)) => p \in Gathered(s)
  BY <1>1 DEF Gathered
<1> QED
  BY <1>3, <1>4
-----------------------------------------------------------------------------
(* Type correctness                                                        *)

Users == Conns \cup {Builder}

(* The queue of the lock stays a queue when its head leaves. *)
LEMMA TailType ==
    ASSUME NEW q \in Seq(Users)
    PROVE  Tail(q) \in Seq(Users)
<1>1. CASE q = <<>>
  BY <1>1
<1>2. CASE q # <<>>
  BY <1>2
<1> QED
  BY <1>1, <1>2

(* The queues the daemon starts and ends with are queues. *)
LEMMA ShortQueues ==
    /\ <<>> \in Seq(Users) /\ <<Builder>> \in Seq(Users)
    /\ <<>> \in Seq(SUBSET Paths)
BY DEF Users

(* Only the steps that write the index or the queues are more than an      *)
(* unfolding; they are lemmas of their own.                                *)
LEMMA TypeBegin == TypeOK /\ BeginRebuild => TypeOK'
<1> SUFFICES ASSUME TypeOK, BeginRebuild PROVE TypeOK'
  OBVIOUS
<1> DEFINE marked == InvalidateFiles(index, batch)
<1>1. index' \in Indexes
  <2>1. index' = ReloadConfig(marked, disk[ConfigFile])
    BY DEF BeginRebuild
  <2>2. disk[ConfigFile] \in FileStates /\ batch \in SUBSET Paths
    BY DEF TypeOK, Paths
  <2> QED
    BY <2>1, <2>2, BeginRebuildIndex DEF TypeOK
<1>2. unseen' \subseteq Paths
  BY DEF BeginRebuild, TypeOK
<1> QED
  BY <1>1, <1>2 DEF BeginRebuild, TypeOK, fsVars, watchVars, connVars

LEMMA TypeFinish == TypeOK /\ FinishBuild => TypeOK'
<1> SUFFICES ASSUME TypeOK, FinishBuild PROVE TypeOK'
  OBVIOUS
<1>1. index' \in Indexes
  <2>1. [files |-> partial, config |-> index.config] \in Builds
    BY DEF TypeOK, Indexes, Builds
  <2> QED
    BY <2>1, InstallBuildIndex DEF FinishBuild, TypeOK
<1>2. waiters' \in Seq(Users)
  BY TailType DEF FinishBuild, Release, TypeOK, Users
<1> QED
  BY <1>1, <1>2 DEF FinishBuild, Release, TypeOK, Users, fsVars, watchVars
LEMMA TypeInit == Init => TypeOK
<1> SUFFICES ASSUME Init PROVE TypeOK
  OBVIOUS
<1>1. index \in Indexes
  BY NewIndexType DEF Init, Loaded
<1>2. disk \in [Paths -> FileStates]
  BY DEF Init, FileStates
<1>3. /\ partial \in [Inputs -> Loaded]
      /\ waited \in [Conns -> Nat]
      /\ conn \in [Conns -> {"none", "backlog", "auth", "ready", "locking",
                             "replying", "closed"}]
  BY DEF Init, Loaded
<1>4. waiters \in Seq(Users) /\ chan \in Seq(SUBSET Paths)
  BY ShortQueues DEF Init
<1>5. edits \in 0..MaxEdits /\ drops \in 0..MaxDrops
  BY DaemonAssumption DEF Init
<1>6. /\ main = "start" /\ builder = "idle" /\ shutdown = FALSE
      /\ batch = {} /\ toRead = {} /\ raw = {} /\ unseen = {}
  BY DEF Init
<1> QED
  BY <1>1, <1>2, <1>3, <1>4, <1>5, <1>6 DEF TypeOK, Users

LEMMA TypeStep == TypeOK /\ [Next]_vars => TypeOK'
<1> SUFFICES ASSUME TypeOK, [Next]_vars PROVE TypeOK'
  OBVIOUS
<1> USE DaemonAssumption
<1>1. ASSUME NEW p \in Paths, NEW content \in FileStates, Edit(p, content)
      PROVE  TypeOK'
  BY <1>1 DEF Edit, TypeOK, buildVars, connVars
<1>2. ASSUME NEW paths \in SUBSET raw, Debounce(paths)
      PROVE  TypeOK'
  <2>1. chan' \in Seq(SUBSET Paths)
    BY <1>2 DEF Debounce, TypeOK
  <2> QED
    BY <1>2, <2>1 DEF Debounce, TypeOK, fsVars, buildVars, connVars
<1>3. ASSUME NEW paths \in SUBSET raw, WatcherError(paths)
      PROVE  TypeOK'
  BY <1>3 DEF WatcherError, TypeOK, fsVars, buildVars, connVars
<1>4. CASE StartDaemon
  <2>1. CASE disk[ConfigFile] = Unreadable
    BY <1>4, <2>1 DEF StartDaemon, TypeOK, fsVars, watchVars, connVars
  <2>2. CASE disk[ConfigFile] # Unreadable
    <3>1. disk[ConfigFile] \in Loaded
      BY <2>2 DEF TypeOK, Paths, FileStates, Loaded
    <3>2. index' \in Indexes
      BY <1>4, <2>2, <3>1, NewIndexType DEF StartDaemon
    <3>3. waiters' \in Seq(Users)
      BY <1>4, <2>2, ShortQueues DEF StartDaemon
    <3> QED
      BY <1>4, <2>2, <3>2, <3>3
         DEF StartDaemon, TypeOK, Users, fsVars, watchVars, connVars
  <2> QED
    BY <2>1, <2>2
<1>5. CASE StartWatcher
  BY <1>5 DEF StartWatcher, TypeOK, fsVars, buildVars, watchVars, connVars
<1>6. CASE WatcherFails \/ Exit
  <2>1. waiters' \in Seq(Users)
    BY <1>6, ShortQueues DEF WatcherFails, Exit, Terminate
  <2> QED
    BY <1>6, <2>1
       DEF WatcherFails, Exit, Terminate, TypeOK, Users, fsVars, watchVars
<1>7. ASSUME NEW sigint \in BOOLEAN, LeaveLoop(sigint)
      PROVE  TypeOK'
  BY <1>7 DEF LeaveLoop, TypeOK, fsVars, buildVars, watchVars, connVars
<1>8. CASE TakeBatch
  <2>1. Head(chan) \in SUBSET Paths /\ Tail(chan) \in Seq(SUBSET Paths)
    BY <1>8 DEF TakeBatch, TypeOK
  <2> QED
    BY <1>8, <2>1 DEF TakeBatch, Enqueue, TypeOK, fsVars, connVars
<1>9. CASE Build
  <2>1. CASE BeginRebuild
    BY <2>1, TypeBegin
  <2>2. CASE Discover
    BY <2>2 DEF Discover, TypeOK, Loaded, fsVars, watchVars, connVars
  <2>3. CASE FinishBuild
    BY <2>3, TypeFinish
  <2>4. ASSUME NEW f \in Inputs, ReadFile(f)
        PROVE  TypeOK'
    <3>1. partial' \in [Inputs -> Loaded]
      BY <2>4 DEF ReadFile, TypeOK, Loaded
    <3> QED
      BY <2>4, <3>1 DEF ReadFile, TypeOK, fsVars, watchVars, connVars
  <2>5. ASSUME NEW f \in Inputs, BuildFails(f)
        PROVE  TypeOK'
    <3>1. waiters' \in Seq(Users)
      BY <2>5, TailType DEF BuildFails, Release, TypeOK, Users
    <3> QED
      BY <2>5, <3>1 DEF BuildFails, Release, TypeOK, Users, fsVars, watchVars
  <2> QED
    BY <1>9, <2>1, <2>2, <2>3, <2>4, <2>5 DEF Build
<1>10. ASSUME NEW c \in Conns, Connect(c) \/ Handler(c)
       PROVE  TypeOK'
  <2> USE DEF TypeOK, connUnchanged, fsVars, buildVars, watchVars
  <2>1. CASE Connect(c)
    BY <2>1 DEF Connect
  <2>2. CASE Accept(c) \/ Disconnect(c) \/ Reply(c) \/ RequestShutdown(c)
    BY <2>2 DEF Accept, Disconnect, Reply, RequestShutdown
  <2>3. ASSUME NEW ok \in BOOLEAN, Authenticate(c, ok)
        PROVE  TypeOK'
    BY <2>3 DEF Authenticate
  <2>4. CASE RequestIndex(c)
    BY <2>4 DEF RequestIndex, Enqueue
  <2>5. CASE Query(c)
    <3>1. waiters' \in Seq(Users)
      BY <2>5, TailType DEF Query, Users
    <3> QED
      BY <2>5, <3>1 DEF Query, Users
  <2> QED
    BY <1>10, <2>1, <2>2, <2>3, <2>4, <2>5 DEF Handler
<1>11. CASE UNCHANGED vars
  BY <1>11 DEF vars, TypeOK, fsVars, buildVars, watchVars, connVars
<1> QED
  BY <1>1, <1>2, <1>3, <1>4, <1>5, <1>6, <1>7, <1>8, <1>9, <1>10, <1>11
     DEF Next, Down

(* Every field of the daemon's state keeps its type (server.rs, index.rs,  *)
(* watcher.rs).                                                            *)
THEOREM TypeCorrect == Spec => []TypeOK
BY TypeInit, TypeStep, PTL DEF Spec
-----------------------------------------------------------------------------
(* Nothing is lost between the watcher and the index                       *)

(* What the running build has read and is not so any more is announced by  *)
(* an event still to come: this is what makes it safe for the build to     *)
(* clear invalidated_files when it ends.                                   *)
ReadIsAccountedFor ==
    builder = "reading" =>
        \A f \in Inputs \ toRead : partial[f] # disk[f] =>
            f \in raw \cup InChan \cup unseen

(* The batch is the rebuild task's only between recv and invalidate_files. *)
BatchIsHandedOver ==
    main # "down" /\ batch # {} =>
        builder = "wait" /\ main \in {"serving", "stopping"}

(* The reload clears the flag that invalidate_files sets. *)
NothingPending == ~index.configChangePending

Accounted ==
    /\ ReadIsAccountedFor /\ BatchIsHandedOver /\ NothingPending
    /\ StaleIsAccountedFor /\ ConfigFollowsDisk /\ MixIsPending

LEMMA AccountedInit == Init => Accounted
<1> SUFFICES ASSUME Init PROVE Accounted
  OBVIOUS
<1>1. index.build = NoBuild /\ ~index.configChangePending
  BY DEF Init, NewIndex
<1> QED
  BY <1>1 DEF Init, Accounted, ReadIsAccountedFor, BatchIsHandedOver,
     NothingPending, StaleIsAccountedFor, ConfigFollowsDisk, MixIsPending,
     IsWarm

(* An edit is announced, or it is one of the unseen. *)
LEMMA AccountedEdit ==
    ASSUME TypeOK, Accounted, NEW p \in Paths, NEW content \in FileStates,
           Edit(p, content)
    PROVE  Accounted'
<1>1. /\ p \in raw' \cup unseen'
      /\ raw \subseteq raw' /\ unseen \subseteq unseen'
      /\ \A q \in Paths : q # p => disk'[q] = disk[q]
      /\ UNCHANGED <<main, index, builder, batch, toRead, partial, chan>>
  BY DEF Edit, TypeOK, buildVars
<1> USE <1>1 DEF Accounted, InChan
<1>2. ReadIsAccountedFor'
  BY DEF ReadIsAccountedFor, Paths
<1>3. StaleIsAccountedFor'
  BY DEF StaleIsAccountedFor, Announced, IsWarm, Paths
<1>4. ConfigFollowsDisk'
  BY DEF ConfigFollowsDisk, Announced, Paths
<1>5. BatchIsHandedOver' /\ NothingPending' /\ MixIsPending'
  BY DEF BatchIsHandedOver, NothingPending, MixIsPending, IsWarm
<1> QED
  BY <1>2, <1>3, <1>4, <1>5

(* The debouncer moves paths on, and drops only what it makes unseen. *)
LEMMA AccountedWatch ==
    ASSUME TypeOK, Accounted, NEW paths \in SUBSET raw,
           Debounce(paths) \/ WatcherError(paths)
    PROVE  Accounted'
<1>1. UNCHANGED <<disk, main, index, builder, batch, toRead, partial>>
  BY DEF Debounce, WatcherError, fsVars, buildVars
<1>2. raw \cup InChan \cup unseen \subseteq (raw \cup InChan \cup unseen)'
  <2>1. CASE Debounce(paths)
    <3>1. InChan' = InChan \cup (paths \cap Relevant)
      <4>1. CASE paths \cap Relevant = {}
        BY <2>1, <4>1 DEF Debounce, InChan
      <4>2. CASE paths \cap Relevant # {}
        <5>1. chan \in Seq(SUBSET Paths) /\ paths \cap Relevant \in SUBSET Paths
          BY DEF TypeOK
        <5>2. chan' = Append(chan, paths \cap Relevant)
          BY <2>1, <4>2 DEF Debounce
        <5> QED
          BY <5>1, <5>2, GatheredAppend DEF InChan
      <4> QED
        BY <4>1, <4>2
    <3> QED
      BY <2>1, <3>1 DEF Debounce
  <2>2. CASE WatcherError(paths)
    BY <2>2 DEF WatcherError, InChan
  <2> QED
    BY <2>1, <2>2
<1> USE <1>1, <1>2 DEF Accounted
<1>3. ReadIsAccountedFor'
  BY DEF ReadIsAccountedFor
<1>4. StaleIsAccountedFor'
  BY DEF StaleIsAccountedFor, Announced, IsWarm
<1>5. ConfigFollowsDisk'
  BY DEF ConfigFollowsDisk, Announced
<1>6. BatchIsHandedOver' /\ NothingPending' /\ MixIsPending'
  BY DEF BatchIsHandedOver, NothingPending, MixIsPending, IsWarm
<1> QED
  BY <1>3, <1>4, <1>5, <1>6

(* The new index is cold, and its configuration was just read. *)
LEMMA AccountedStart ==
    ASSUME TypeOK, Accounted, StartDaemon
    PROVE  Accounted'
<1>1. UNCHANGED <<disk, batch, toRead, partial, raw, chan>>
      /\ unseen' = unseen \ {ConfigFile} /\ main = "start"
  BY DEF StartDaemon, fsVars, watchVars
<1>2. \A f \in Inputs : f # ConfigFile
  BY HotIndexAssumption
<1>3. CASE disk[ConfigFile] = Unreadable
  <2>1. main' = "down" /\ UNCHANGED <<index, builder>>
    BY <1>3 DEF StartDaemon
  <2> QED
    BY <1>1, <1>2, <2>1 DEF Accounted, ReadIsAccountedFor, BatchIsHandedOver,
       NothingPending, StaleIsAccountedFor, ConfigFollowsDisk, MixIsPending,
       Announced, InChan, IsWarm
<1>4. CASE disk[ConfigFile] # Unreadable
  <2>1. /\ index' = NewIndex(disk[ConfigFile]) /\ builder' = "discover"
        /\ index'.build = NoBuild /\ ~index'.configChangePending
        /\ index'.config = disk[ConfigFile]
    BY <1>4 DEF StartDaemon, NewIndex
  <2>3. batch' = {}
    BY <1>1 DEF Accounted, BatchIsHandedOver
  <2> QED
    BY <1>1, <2>1, <2>3 DEF Accounted, ReadIsAccountedFor, BatchIsHandedOver,
       NothingPending, StaleIsAccountedFor, ConfigFollowsDisk, MixIsPending,
       IsWarm
<1> QED
  BY <1>3, <1>4
(* run goes on, or ends, without touching files, index or events. *)
LEMMA AccountedMain ==
    ASSUME TypeOK, Accounted,
           \/ StartWatcher \/ WatcherFails \/ Exit
           \/ \E sigint \in BOOLEAN : LeaveLoop(sigint)
    PROVE  Accounted'
<1>1. /\ UNCHANGED <<disk, index, batch, toRead, partial, raw, chan, unseen>>
      /\ main \notin {"start", "down"}
  BY DEF StartWatcher, WatcherFails, Exit, Terminate, LeaveLoop, fsVars,
     watchVars, buildVars
<1>2. \/ UNCHANGED builder /\ (main = "serving" => main' # "watch")
         /\ main' \in {"serving", "stopping"}
      \/ builder' = "idle" /\ main' = "down"
  BY DEF StartWatcher, WatcherFails, Exit, Terminate, LeaveLoop, buildVars
<1> QED
  BY <1>1, <1>2 DEF Accounted, ReadIsAccountedFor, BatchIsHandedOver,
     NothingPending, StaleIsAccountedFor, ConfigFollowsDisk, MixIsPending,
     Announced, InChan, IsWarm

(* The head of the channel becomes the batch: nothing was in it before. *)
LEMMA AccountedTake ==
    ASSUME TypeOK, Accounted, TakeBatch
    PROVE  Accounted'
<1>1. /\ UNCHANGED <<disk, main, index, toRead, partial, raw, unseen>>
      /\ builder = "idle" /\ builder' = "wait" /\ main = "serving"
      /\ batch' = Head(chan) /\ chan' = Tail(chan) /\ chan # <<>>
  BY DEF TakeBatch, fsVars
<1>2. InChan = batch' \cup InChan'
  BY <1>1, GatheredTail DEF TypeOK, InChan
<1>3. batch = {}
  BY <1>1 DEF Accounted, BatchIsHandedOver
<1>4. Announced' = Announced
  BY <1>1, <1>2, <1>3 DEF Announced
<1> QED
  BY <1>1, <1>4 DEF Accounted, ReadIsAccountedFor, BatchIsHandedOver,
     NothingPending, StaleIsAccountedFor, ConfigFollowsDisk, MixIsPending,
     IsWarm

(* The batch is now invalidated; a configuration file in it is reloaded at *)
(* the same moment, and only a batch can make the configuration differ     *)
(* from the graph's.                                                       *)
LEMMA AccountedBegin ==
    ASSUME TypeOK, Accounted, BeginRebuild
    PROVE  Accounted'
<1> DEFINE marked == InvalidateFiles(index, batch)
<1>1. /\ UNCHANGED <<disk, main, toRead, partial, raw, chan>>
      /\ builder' = "discover" /\ batch' = {}
      /\ index' = ReloadConfig(marked, disk[ConfigFile])
      /\ unseen' = IF marked.configChangePending THEN unseen \ {ConfigFile}
                   ELSE unseen
  BY DEF BeginRebuild, fsVars, watchVars
<1>2. index \in Indexes /\ batch \in SUBSET Paths
      /\ disk[ConfigFile] \in FileStates
  BY DEF TypeOK, Paths
<1>3. /\ index'.build = index.build
      /\ index'.invalidated = index.invalidated \cup batch
      /\ ~index'.configChangePending
      /\ index'.config = IF marked.configChangePending
                            /\ disk[ConfigFile] \in Contents
                         THEN disk[ConfigFile] ELSE index.config
      /\ marked.configChangePending <=>
            index.configChangePending
            \/ \E p \in batch : RequiresFullRebuild(p)
  BY <1>1, <1>2, BeginRebuildIndex
<1>4. marked.configChangePending <=> \E p \in batch : p \in ConfigLevel
  BY <1>3 DEF Accounted, NothingPending, RequiresFullRebuild
<1> HIDE DEF marked
<1> USE DEF Accounted
<1>5. ReadIsAccountedFor' /\ BatchIsHandedOver' /\ NothingPending'
  BY <1>1, <1>3 DEF ReadIsAccountedFor, BatchIsHandedOver, NothingPending
<1>6. StaleIsAccountedFor'
  <2>1. \A f \in Inputs : f # ConfigFile
    BY HotIndexAssumption
  <2> QED
    BY <1>1, <1>3, <2>1 DEF StaleIsAccountedFor, Announced, InChan, IsWarm
<1>7. ConfigFollowsDisk'
  <2>1. ConfigFile \in batch => marked.configChangePending
    BY <1>4, HotIndexAssumption
  <2> QED
    BY <1>1, <1>3, <2>1 DEF ConfigFollowsDisk, Announced, InChan
<1>8. MixIsPending'
  <2>1. index'.config # index.config => batch # {}
    BY <1>3, <1>4
  <2> QED
    BY <1>3, <2>1 DEF MixIsPending, IsWarm
<1> QED
  BY <1>5, <1>6, <1>7, <1>8

(* An input that is not read because it is absent, or that is read now, is *)
(* as the build has it; only a later edit changes that.                    *)
LEMMA AccountedRead ==
    ASSUME TypeOK, Accounted, Discover \/ \E f \in Inputs : ReadFile(f)
    PROVE  Accounted'
<1>1. UNCHANGED <<disk, main, index, batch, raw, chan, unseen>>
  BY DEF Discover, ReadFile, fsVars, watchVars
<1>2. builder \in {"discover", "reading"} /\ builder' = "reading"
  BY DEF Discover, ReadFile
<1>3. ReadIsAccountedFor'
  <2>1. CASE Discover
    BY <1>1, <2>1 DEF ReadIsAccountedFor, Discover
  <2>2. ASSUME NEW f \in Inputs, ReadFile(f)
        PROVE  ReadIsAccountedFor'
    BY <1>1, <2>2 DEF ReadIsAccountedFor, ReadFile, Accounted, TypeOK, InChan
  <2> QED
    BY <2>1, <2>2
<1> QED
  BY <1>1, <1>2, <1>3 DEF Accounted, BatchIsHandedOver, NothingPending,
     StaleIsAccountedFor, ConfigFollowsDisk, MixIsPending, Announced, InChan,
     IsWarm

(* A failed build leaves the index, and so its invalidated files, alone. *)
LEMMA AccountedFail ==
    ASSUME TypeOK, Accounted, NEW f \in Inputs, BuildFails(f)
    PROVE  Accounted'
<1>1. /\ UNCHANGED <<disk, index, batch, partial, raw, chan, unseen>>
      /\ builder = "reading" /\ builder' = "idle"
      /\ main' = IF main = "warming" THEN "watch" ELSE main
  BY DEF BuildFails, Release, fsVars, watchVars
<1> QED
  BY <1>1 DEF Accounted, ReadIsAccountedFor, BatchIsHandedOver,
     NothingPending, StaleIsAccountedFor, ConfigFollowsDisk, MixIsPending,
     Announced, InChan, IsWarm

(* The new graph is what the build read, so what is stale in it is stale   *)
(* in the build, and clearing invalidated_files loses nothing.             *)
LEMMA AccountedFinish ==
    ASSUME TypeOK, Accounted, FinishBuild
    PROVE  Accounted'
<1> DEFINE build == [files |-> partial, config |-> index.config]
<1>1. /\ UNCHANGED <<disk, batch, partial, raw, chan>>
      /\ builder = "reading" /\ builder' = "idle" /\ toRead = {}
      /\ main' = IF main = "warming" THEN "watch" ELSE main
      /\ index' = InstallBuild(index, build)
      /\ unseen' = unseen \ {f \in Inputs : partial[f] = disk[f]}
  BY DEF FinishBuild, Release, fsVars, watchVars
<1>2. build \in Builds /\ index \in Indexes
  BY DEF TypeOK, Indexes, Builds
<1>3. /\ index'.build = build /\ index'.config = index.config
      /\ ~index'.configChangePending
  BY <1>1, <1>2, InstallBuildIndex
<1>4. \A f \in Inputs : partial[f] # disk[f] =>
        f \in raw \cup InChan \cup unseen'
  BY <1>1 DEF Accounted, ReadIsAccountedFor
<1>5. StaleIsAccountedFor'
  BY <1>1, <1>3, <1>4 DEF StaleIsAccountedFor, Announced, InChan
<1>6. ConfigFollowsDisk'
  <2>1. ConfigFile \in unseen => ConfigFile \in unseen'
    BY <1>1, HotIndexAssumption
  <2> QED
    BY <1>1, <1>3, <2>1
       DEF Accounted, ConfigFollowsDisk, Announced, InChan
<1>7. MixIsPending'
  BY <1>3 DEF MixIsPending
<1>8. ReadIsAccountedFor' /\ BatchIsHandedOver' /\ NothingPending'
  BY <1>1, <1>3 DEF Accounted, ReadIsAccountedFor, BatchIsHandedOver,
     NothingPending
<1> QED
  BY <1>5, <1>6, <1>7, <1>8 DEF Accounted

LEMMA AccountedStep == TypeOK /\ Accounted /\ [Next]_vars => Accounted'
<1> SUFFICES ASSUME TypeOK, Accounted, [Next]_vars PROVE Accounted'
  OBVIOUS
<1>1. ASSUME NEW p \in Paths, NEW content \in FileStates, Edit(p, content)
      PROVE  Accounted'
  BY <1>1, AccountedEdit
<1>2. ASSUME NEW paths \in SUBSET raw, Debounce(paths) \/ WatcherError(paths)
      PROVE  Accounted'
  BY <1>2, AccountedWatch
<1>3. CASE StartDaemon
  BY <1>3, AccountedStart
<1>4. CASE \/ StartWatcher \/ WatcherFails \/ Exit
           \/ \E sigint \in BOOLEAN : LeaveLoop(sigint)
  BY <1>4, AccountedMain
<1>5. CASE TakeBatch
  BY <1>5, AccountedTake
<1>6. CASE Build
  BY <1>6, AccountedBegin, AccountedRead, AccountedFail, AccountedFinish
     DEF Build
<1>7. CASE \/ \E c \in Conns : Connect(c) \/ Handler(c)
           \/ UNCHANGED vars
  <2>1. UNCHANGED <<disk, main, index, builder, batch, toRead, partial, raw,
                    chan, unseen>>
    BY <1>7 DEF Connect, Handler, Accept, Authenticate, RequestIndex,
       RequestShutdown, Query, Reply, Disconnect, connUnchanged, vars,
       fsVars, buildVars, watchVars
  <2> QED
    BY <2>1 DEF Accounted, ReadIsAccountedFor, BatchIsHandedOver,
       NothingPending, StaleIsAccountedFor, ConfigFollowsDisk, MixIsPending,
       Announced, InChan, IsWarm
<1> QED
  BY <1>1, <1>2, <1>3, <1>4, <1>5, <1>6, <1>7 DEF Next, Down

LEMMA AccountedAlways == Spec => [](TypeOK /\ Accounted)
<1>1. Init => TypeOK /\ Accounted
  BY TypeInit, AccountedInit
<1>2. TypeOK /\ Accounted /\ [Next]_vars => (TypeOK /\ Accounted)'
  BY TypeStep, AccountedStep
<1> QED
  BY <1>1, <1>2, PTL DEF Spec

(* A stale input of the warm graph is on its way through the watcher, the  *)
(* channel, the rebuild task or invalidated_files, or its change raised no *)
(* event (index.rs invalidate_files, build_initial).                       *)
THEOREM StaleAlwaysAccountedFor == Spec => []StaleIsAccountedFor
<1>1. TypeOK /\ Accounted => StaleIsAccountedFor
  BY DEF Accounted
<1> QED
  BY <1>1, AccountedAlways, PTL

(* The configuration in memory is the one on disk, or the change to it is  *)
(* still announced, or the file cannot be loaded (index.rs                 *)
(* rebuild_changed).                                                       *)
THEOREM ConfigAlwaysFollows == Spec => []ConfigFollowsDisk
<1>1. TypeOK /\ Accounted => ConfigFollowsDisk
  BY DEF Accounted
<1> QED
  BY <1>1, AccountedAlways, PTL

(* A graph built with another configuration than the one in memory is      *)
(* never reported without pending invalidations (index.rs rebuild_changed, *)
(* build_initial).                                                         *)
THEOREM MixAlwaysPending == Spec => []MixIsPending
<1>1. TypeOK /\ Accounted => MixIsPending
  BY DEF Accounted
<1> QED
  BY <1>1, AccountedAlways, PTL
-----------------------------------------------------------------------------
(* A query waits for at most one rebuild                                   *)

(* The queue of the lock holds exactly the connections that wait and the   *)
(* builder that runs or waits, each once; a connection behind the builder  *)
(* has not yet seen a rebuild end.                                         *)
Slots == 1..Len(waiters)
QueueHolds ==
    /\ \A i \in Slots : waiters[i] = Builder => builder # "idle"
    /\ \A i \in Slots : waiters[i] # Builder => conn[waiters[i]] = "locking"
    /\ \A c \in Waiting : \E i \in Slots : waiters[i] = c
    /\ builder \in {"discover", "reading"} => Held(Builder)
QueueOnce == \A i, j \in Slots : waiters[i] = waiters[j] => i = j
BehindBuilder ==
    \A i, j \in Slots :
        i < j /\ waiters[i] = Builder => waited[waiters[j]] = 0
NobodyAtStart ==
    main = "start" => waiters = <<>> /\ \A c \in Conns : conn[c] = "none"

Fair ==
    /\ QueueHolds /\ QueueOnce /\ BehindBuilder /\ NobodyAtStart
    /\ WaitsForOneRebuild

(* Where the entries of a queue go when its head leaves. *)
LEMMA TailSlots ==
    ASSUME NEW q \in Seq(Users), q # <<>>
    PROVE  /\ Len(q) \in Nat \ {0} /\ Head(q) = q[1]
           /\ \A i \in 1..Len(q) : i = 1 \/ i - 1 \in 1..Len(Tail(q))
           /\ \A i \in 1..Len(Tail(q)) :
                 i + 1 \in 1..Len(q) /\ Tail(q)[i] = q[i + 1]
<1>1. /\ Len(q) \in Nat \ {0}
      /\ Head(q) = q[1]
      /\ Len(Tail(q)) = Len(q) - 1
      /\ \A i \in 1..Len(q) - 1 : Tail(q)[i] = q[i + 1]
  OBVIOUS
<1> QED
  BY <1>1

(* Where they are when a new one arrives. *)
LEMMA AppendSlots ==
    ASSUME NEW q \in Seq(Users), NEW u \in Users
    PROVE  /\ Len(q) \in Nat /\ Len(Append(q, u)) = Len(q) + 1
           /\ \A i \in 1..Len(q) : Append(q, u)[i] = q[i]
           /\ Append(q, u)[Len(q) + 1] = u
OBVIOUS

LEMMA FairInit == Init => Fair
<1> SUFFICES ASSUME Init PROVE Fair
  OBVIOUS
<1>1. Slots = {}
  BY DEF Init, Slots
<1>2. Waiting = {}
  BY DEF Init, Waiting
<1> QED
  BY <1>1, <1>2 DEF Init, Fair, QueueHolds, QueueOnce, BehindBuilder,
     NobodyAtStart, WaitsForOneRebuild

(* The builder or a connection joins at the end, where nobody is behind    *)
(* it, and a connection starts with no rebuild seen.                       *)
LEMMA FairArrive ==
    ASSUME TypeOK, Fair,
           TakeBatch \/ \E c \in Conns : RequestIndex(c)
    PROVE  Fair'
<1>1. waiters \in Seq(Users) /\ waited \in [Conns -> Nat]
      /\ DOMAIN conn = Conns
  BY DEF TypeOK, Users
<1>2. CASE TakeBatch
  <2>1. /\ builder = "idle" /\ builder' = "wait" /\ main = "serving"
        /\ waiters' = Append(waiters, Builder)
        /\ UNCHANGED <<main, conn, waited>>
    BY <1>2 DEF TakeBatch, Enqueue, connVars
  <2>2. /\ Len(waiters) \in Nat /\ Len(waiters') = Len(waiters) + 1
        /\ \A i \in Slots : i \in Slots' /\ waiters'[i] = waiters[i]
        /\ Len(waiters') \in Slots' /\ waiters'[Len(waiters')] = Builder
        /\ \A i \in Slots' : i \in Slots \/ i = Len(waiters')
    BY <1>1, <2>1, AppendSlots DEF Slots, Users
  <2>3. \A i \in Slots : waiters[i] # Builder
    BY <2>1 DEF Fair, QueueHolds
  <2>4. Waiting' = Waiting
    BY <2>1 DEF Waiting
  <2>5. QueueHolds'
    <3>1. \A i \in Slots' : waiters'[i] # Builder => conn'[waiters'[i]] = "locking"
      BY <2>1, <2>2 DEF Fair, QueueHolds
    <3>2. \A d \in Waiting' : \E i \in Slots' : waiters'[i] = d
      BY <2>2, <2>4 DEF Fair, QueueHolds
    <3> QED
      BY <2>1, <3>1, <3>2 DEF QueueHolds
  <2>6. QueueOnce'
    BY <2>1, <2>2, <2>3 DEF Fair, QueueOnce
  <2>7. BehindBuilder'
    <3>1. \A i, j \in Slots' : i < j => i \in Slots
      BY <2>2 DEF Slots
    <3> QED
      BY <2>1, <2>2, <2>3, <3>1 DEF BehindBuilder
  <2>8. NobodyAtStart' /\ WaitsForOneRebuild'
    BY <2>1, <2>4 DEF Fair, NobodyAtStart, WaitsForOneRebuild
  <2> QED
    BY <2>5, <2>6, <2>7, <2>8 DEF Fair
<1>3. ASSUME NEW c \in Conns, RequestIndex(c)
      PROVE  Fair'
  <2>1. /\ conn[c] = "ready" /\ conn' = [conn EXCEPT ![c] = "locking"]
        /\ waited' = [waited EXCEPT ![c] = 0]
        /\ waiters' = Append(waiters, c)
        /\ UNCHANGED <<main, builder>>
    BY <1>3 DEF RequestIndex, Enqueue, connUnchanged, buildVars
  <2>2. /\ Len(waiters) \in Nat /\ Len(waiters') = Len(waiters) + 1
        /\ \A i \in Slots : i \in Slots' /\ waiters'[i] = waiters[i]
        /\ Len(waiters') \in Slots' /\ waiters'[Len(waiters')] = c
        /\ \A i \in Slots' : i \in Slots \/ i = Len(waiters')
    BY <1>1, <2>1, AppendSlots DEF Slots, Users
  <2>3. /\ \A i \in Slots : waiters[i] # c
        /\ c # Builder
    BY <2>1, ConnsAssumption DEF Fair, QueueHolds
  <2>4. Waiting' = Waiting \cup {c}
    BY <1>1, <2>1 DEF Waiting
  <2>5. /\ \A d \in Conns : d # c => conn'[d] = conn[d] /\ waited'[d] = waited[d]
        /\ conn'[c] = "locking" /\ waited'[c] = 0
    BY <1>1, <2>1
  <2>6. \A i \in Slots : waiters[i] \in Conns \/ waiters[i] = Builder
    BY <1>1 DEF Slots, Users
  <2>7. QueueHolds'
    <3>1. Held(Builder) => Held(Builder)'
      BY <1>1, <2>1 DEF Held, Users
    <3>2. \A i \in Slots' : waiters'[i] = Builder => builder' # "idle"
      BY <2>1, <2>2, <2>3 DEF Fair, QueueHolds
    <3>3. \A i \in Slots' : waiters'[i] # Builder => conn'[waiters'[i]] = "locking"
      BY <2>2, <2>3, <2>5, <2>6 DEF Fair, QueueHolds
    <3>4. \A d \in Waiting' : \E i \in Slots' : waiters'[i] = d
      BY <2>2, <2>4 DEF Fair, QueueHolds
    <3> QED
      BY <2>1, <3>1, <3>2, <3>3, <3>4 DEF Fair, QueueHolds
  <2>8. QueueOnce'
    BY <2>2, <2>3 DEF Fair, QueueOnce
  <2>9. BehindBuilder'
    <3>1. \A i, j \in Slots' : i < j => i \in Slots
      BY <2>2 DEF Slots
    <3>2. \A j \in Slots : waiters[j] \in Conns \/ waiters[j] = Builder
      BY <2>6
    <3>3. \A i, j \in Slots : i < j /\ waiters[i] = Builder => waiters[j] \in Conns
      BY <3>2 DEF Fair, QueueOnce, Slots
    <3> QED
      BY <2>2, <2>3, <2>5, <3>1, <3>3 DEF Fair, BehindBuilder
  <2>10. NobodyAtStart'
    BY <2>1 DEF Fair, NobodyAtStart
  <2>11. WaitsForOneRebuild'
    <3>1. waited'[c] <= 1
      BY <2>5
    <3>2. \A d \in Waiting : d \in Conns /\ (d # c => waited'[d] = waited[d])
      BY <2>5 DEF Waiting
    <3> QED
      BY <2>4, <3>1, <3>2 DEF Fair, WaitsForOneRebuild
  <2> QED
    BY <2>7, <2>8, <2>9, <2>10, <2>11 DEF Fair
<1> QED
  BY <1>2, <1>3
(* The head leaves: a query that was answered, or the builder, after which *)
(* no builder is in the queue and those that waited have seen one rebuild. *)
LEMMA FairLeave ==
    ASSUME TypeOK, Fair,
           \/ FinishBuild \/ \E f \in Inputs : BuildFails(f)
           \/ \E c \in Conns : Query(c)
    PROVE  Fair'
<1>1. waiters \in Seq(Users) /\ waited \in [Conns -> Nat]
      /\ DOMAIN conn = Conns /\ waiters # <<>>
  BY DEF TypeOK, Users, Fair, QueueHolds, Held, FinishBuild, BuildFails, Query
<1>2. waiters' = Tail(waiters)
  BY DEF FinishBuild, BuildFails, Release, Query
<1>3. /\ 1 \in Slots /\ Head(waiters) = waiters[1]
      /\ \A i \in Slots : i = 1 \/ (i - 1 \in Slots' /\ waiters'[i - 1] = waiters[i])
      /\ \A i \in Slots' : i \in Nat /\ i >= 1 /\ i + 1 \in Slots
                            /\ waiters'[i] = waiters[i + 1]
  <2>1. \A i \in Slots : i \in Nat /\ (i - 1) + 1 = i
    BY <1>1 DEF Slots
  <2>2. /\ Len(waiters) \in Nat \ {0} /\ Head(waiters) = waiters[1]
        /\ \A i \in Slots : i = 1 \/ i - 1 \in Slots'
        /\ \A i \in Slots' : i + 1 \in Slots /\ waiters'[i] = waiters[i + 1]
    BY <1>1, <1>2, TailSlots DEF Slots
  <2>3. \A i \in Slots' : i \in Nat /\ i >= 1
    BY <1>1, <1>2, TailType DEF Slots
  <2>4. 1 \in Slots
    BY <2>2 DEF Slots
  <2> QED
    BY <2>1, <2>2, <2>3, <2>4
<1>4. \A i, j \in Slots' : (i + 1 = j + 1 => i = j) /\ (i < j => i + 1 < j + 1)
  BY <1>3
<1>5. QueueOnce'
  BY <1>3, <1>4 DEF Fair, QueueOnce
<1>6. \A i \in Slots' : waiters'[i] # waiters[1]
  BY <1>3 DEF Fair, QueueOnce
<1>7. CASE FinishBuild \/ \E f \in Inputs : BuildFails(f)
  <2>1. /\ builder = "reading" /\ builder' = "idle" /\ conn' = conn
        /\ waited' = [c \in Conns |-> IF c \in Waiting THEN waited[c] + 1
                                       ELSE waited[c]]
        /\ main' = IF main = "warming" THEN "watch" ELSE main
    BY <1>7 DEF FinishBuild, BuildFails, Release
  <2>2. waiters[1] = Builder
    BY <1>3, <2>1 DEF Fair, QueueHolds, Held
  <2>3. \A i \in Slots' : waiters'[i] # Builder
    BY <1>6, <2>2
  <2>4. Waiting' = Waiting
    BY <2>1 DEF Waiting
  <2>5. \A c \in Waiting : c # Builder
    BY ConnsAssumption DEF Waiting
  <2>6. QueueHolds'
    <3>1. \A i \in Slots' : conn'[waiters'[i]] = "locking"
      BY <1>3, <2>1, <2>3 DEF Fair, QueueHolds
    <3>2. \A c \in Waiting' : \E i \in Slots' : waiters'[i] = c
      <4> SUFFICES ASSUME NEW c \in Waiting
                   PROVE  \E i \in Slots' : waiters'[i] = c
        BY <2>4
      <4>1. PICK i \in Slots : waiters[i] = c
        BY DEF Fair, QueueHolds
      <4>2. i # 1
        BY <2>2, <2>5, <4>1
      <4> QED
        BY <1>3, <4>1, <4>2
    <3> QED
      BY <2>1, <2>3, <3>1, <3>2 DEF QueueHolds
  <2>7. BehindBuilder'
    BY <2>3 DEF BehindBuilder
  <2>8. NobodyAtStart'
    <3>1. main # "start"
      BY <1>1 DEF Fair, NobodyAtStart
    <3> QED
      BY <2>1, <3>1 DEF NobodyAtStart
  <2>9. WaitsForOneRebuild'
    <3> SUFFICES ASSUME NEW c \in Waiting PROVE waited'[c] <= 1
      BY <2>4 DEF WaitsForOneRebuild
    <3>1. PICK j \in Slots : waiters[j] = c
      BY DEF Fair, QueueHolds
    <3>2. 1 < j
      BY <1>1, <2>2, <2>5, <3>1 DEF Slots
    <3>3. waited[c] = 0
      BY <1>3, <2>2, <3>1, <3>2 DEF Fair, BehindBuilder
    <3>4. waited'[c] = waited[c] + 1
      BY <2>1 DEF Waiting
    <3> QED
      BY <3>3, <3>4
  <2> QED
    BY <1>5, <2>6, <2>7, <2>8, <2>9 DEF Fair
<1>8. ASSUME NEW c \in Conns, Query(c)
      PROVE  Fair'
  <2>1. /\ conn[c] = "locking" /\ conn' = [conn EXCEPT ![c] = "replying"]
        /\ UNCHANGED <<main, builder, waited>>
        /\ waiters[1] = c
    BY <1>3, <1>8 DEF Query, Held, connUnchanged, buildVars
  <2>2. c # Builder
    BY ConnsAssumption
  <2>3. \A d \in Waiting' : d \in Waiting /\ d # c
    BY <1>1, <2>1 DEF Waiting
  <2>4. \A i \in Slots : waiters[i] \in Conns \/ waiters[i] = Builder
    BY <1>1 DEF Slots, Users
  <2>5. QueueHolds'
    <3>1. builder \notin {"discover", "reading"}
      BY <1>3, <2>1, <2>2 DEF Fair, QueueHolds, Held
    <3>2. \A i \in Slots' : waiters'[i] = Builder => builder # "idle"
      BY <1>3 DEF Fair, QueueHolds
    <3>3. \A i \in Slots' : waiters'[i] # Builder => conn'[waiters'[i]] = "locking"
      <4> SUFFICES ASSUME NEW i \in Slots', waiters'[i] # Builder
                   PROVE  conn'[waiters'[i]] = "locking"
        OBVIOUS
      <4>1. conn[waiters'[i]] = "locking" /\ waiters'[i] # c /\ waiters'[i] \in Conns
        BY <1>3, <1>6, <2>1, <2>4 DEF Fair, QueueHolds
      <4> QED
        BY <1>1, <2>1, <4>1
    <3>4. \A d \in Waiting' : \E i \in Slots' : waiters'[i] = d
      <4> SUFFICES ASSUME NEW d \in Waiting, d # c
                   PROVE  \E i \in Slots' : waiters'[i] = d
        BY <2>3
      <4>1. PICK i \in Slots : waiters[i] = d
        BY DEF Fair, QueueHolds
      <4>2. i # 1
        BY <2>1, <4>1
      <4> QED
        BY <1>3, <4>1, <4>2
    <3> QED
      BY <2>1, <3>1, <3>2, <3>3, <3>4 DEF QueueHolds
  <2>6. BehindBuilder'
    BY <1>3, <1>4, <2>1 DEF Fair, BehindBuilder
  <2>7. NobodyAtStart'
    BY <1>1, <2>1 DEF Fair, NobodyAtStart
  <2>8. WaitsForOneRebuild'
    BY <2>1, <2>3 DEF Fair, WaitsForOneRebuild
  <2> QED
    BY <1>5, <2>5, <2>6, <2>7, <2>8 DEF Fair
<1> QED
  BY <1>7, <1>8

(* Everybody leaves at once when the process ends. *)
LEMMA FairEnd ==
    ASSUME TypeOK, Fair, WatcherFails \/ Exit
    PROVE  Fair'
<1>1. /\ waiters' = <<>> /\ builder' = "idle" /\ main' = "down"
      /\ conn' = [c \in Conns |-> "closed"]
  BY DEF WatcherFails, Exit, Terminate
<1>2. Slots' = {} /\ Waiting' = {}
  BY <1>1 DEF Slots, Waiting
<1> QED
  BY <1>1, <1>2 DEF Fair, QueueHolds, QueueOnce, BehindBuilder, NobodyAtStart,
     WaitsForOneRebuild

(* The warm build has the lock to itself. *)
LEMMA FairStart ==
    ASSUME TypeOK, Fair, StartDaemon
    PROVE  Fair'
<1>1. /\ main = "start" /\ main' \in {"down", "warming"}
      /\ UNCHANGED <<conn, waited>>
      /\ waiters = <<>> /\ \A c \in Conns : conn[c] = "none"
  BY DEF StartDaemon, Fair, NobodyAtStart, connVars
<1>2. Waiting' = {}
  BY <1>1 DEF Waiting
<1>3. CASE waiters' = waiters /\ builder' = builder
  BY <1>1, <1>2, <1>3 DEF Fair, QueueHolds, QueueOnce, BehindBuilder,
     NobodyAtStart, WaitsForOneRebuild, Slots, Held
<1>4. CASE waiters' = <<Builder>> /\ builder' = "discover"
  <2>1. /\ Slots' = {1} /\ waiters'[1] = Builder
        /\ waiters' # <<>> /\ Head(waiters') = Builder
    BY <1>4 DEF Slots
  <2>2. QueueHolds' /\ QueueOnce' /\ WaitsForOneRebuild'
    BY <1>2, <1>4, <2>1 DEF QueueHolds, QueueOnce, WaitsForOneRebuild, Held
  <2>3. BehindBuilder' /\ NobodyAtStart'
    BY <1>1, <2>1 DEF BehindBuilder, NobodyAtStart
  <2> QED
    BY <2>2, <2>3 DEF Fair
<1> QED
  BY <1>3, <1>4 DEF StartDaemon

(* The other steps of a handler move a connection that does not wait. *)
LEMMA FairHandler ==
    ASSUME TypeOK, Fair, NEW c \in Conns,
           \/ Connect(c) \/ Accept(c) \/ RequestShutdown(c) \/ Reply(c)
           \/ Disconnect(c) \/ \E ok \in BOOLEAN : Authenticate(c, ok)
    PROVE  Fair'
<1>1. /\ conn[c] # "locking" /\ conn'[c] # "locking" /\ main # "start"
      /\ \A d \in Conns : d # c => conn'[d] = conn[d]
      /\ UNCHANGED <<main, builder, waiters, waited>>
  BY DEF Connect, Accept, RequestShutdown, Reply, Disconnect, Authenticate,
     connUnchanged, buildVars, TypeOK, Running, Fair, NobodyAtStart
<1>2. Waiting' = Waiting
  BY <1>1 DEF Waiting
<1>3. \A i \in Slots : waiters[i] \in Conns \/ waiters[i] = Builder
  BY DEF Slots, TypeOK
<1>4. \A i \in Slots : waiters[i] # Builder =>
        conn[waiters[i]] = "locking" /\ conn'[waiters[i]] = conn[waiters[i]]
  BY <1>1, <1>3 DEF Fair, QueueHolds
<1>5. QueueHolds'
  BY <1>1, <1>2, <1>4 DEF Fair, QueueHolds, Slots, Held
<1> QED
  BY <1>1, <1>2, <1>5 DEF Fair, QueueOnce, BehindBuilder, NobodyAtStart,
     WaitsForOneRebuild, Slots

LEMMA FairStep == TypeOK /\ Fair /\ [Next]_vars => Fair'
<1> SUFFICES ASSUME TypeOK, Fair, [Next]_vars PROVE Fair'
  OBVIOUS
<1>1. CASE TakeBatch \/ \E c \in Conns : RequestIndex(c)
  BY <1>1, FairArrive
<1>2. CASE \/ FinishBuild \/ \E f \in Inputs : BuildFails(f)
           \/ \E c \in Conns : Query(c)
  BY <1>2, FairLeave
<1>3. CASE WatcherFails \/ Exit
  BY <1>3, FairEnd
<1>4. CASE StartDaemon
  BY <1>4, FairStart
<1>5. ASSUME NEW c \in Conns,
             \/ Connect(c) \/ Accept(c) \/ RequestShutdown(c) \/ Reply(c)
             \/ Disconnect(c) \/ \E ok \in BOOLEAN : Authenticate(c, ok)
      PROVE  Fair'
  BY <1>5, FairHandler
<1>6. CASE BeginRebuild \/ Discover \/ \E f \in Inputs : ReadFile(f)
  <2>1. /\ UNCHANGED <<main, waiters, conn, waited>> /\ Held(Builder)
        /\ builder # "idle" /\ builder' # "idle"
    BY <1>6 DEF BeginRebuild, Discover, ReadFile, connVars, Fair, QueueHolds
  <2> QED
    BY <2>1 DEF Fair, QueueHolds, QueueOnce, BehindBuilder, NobodyAtStart,
       WaitsForOneRebuild, Slots, Waiting, Held
<1>7. CASE \/ \E p \in Paths, content \in FileStates : Edit(p, content)
           \/ \E paths \in SUBSET raw : Debounce(paths) \/ WatcherError(paths)
           \/ StartWatcher \/ \E sigint \in BOOLEAN : LeaveLoop(sigint)
           \/ UNCHANGED vars
  <2>1. /\ UNCHANGED <<waiters, builder, conn, waited>>
        /\ main' = "start" => main = "start"
    BY <1>7 DEF Edit, Debounce, WatcherError, StartWatcher, LeaveLoop, vars,
       connVars, buildVars
  <2> QED
    BY <2>1 DEF Fair, QueueHolds, QueueOnce, BehindBuilder, NobodyAtStart,
       WaitsForOneRebuild, Slots, Waiting, Held
<1> QED
  BY <1>1, <1>2, <1>3, <1>4, <1>5, <1>6, <1>7
     DEF Next, Down, Build, Handler

(* While a connection waits for the index at most one rebuild ends, for    *)
(* any number of connections, files and edits (the rebuild task and        *)
(* dispatch_request of server.rs on one fair lock).                        *)
THEOREM WaitIsBounded == Spec => []WaitsForOneRebuild
<1>1. Init => TypeOK /\ Fair
  BY TypeInit, FairInit
<1>2. TypeOK /\ Fair /\ [Next]_vars => (TypeOK /\ Fair)'
  BY TypeStep, FairStep
<1>3. TypeOK /\ Fair => WaitsForOneRebuild
  BY DEF Fair
<1> QED
  BY <1>1, <1>2, <1>3, PTL DEF Spec
=============================================================================
