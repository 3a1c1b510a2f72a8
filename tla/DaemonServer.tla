---------------------------- MODULE DaemonServer ----------------------------
(***************************************************************************)
(* One daemon process: DaemonServer::run with the file watcher, the task   *)
(* that rebuilds the index, the connection handlers, and the file system   *)
(* they all look at while somebody edits it.                               *)
(*                                                                         *)
(* Shared state is the HotIndex behind a tokio Mutex, whose waiters are    *)
(* served first come, first served; the head of waiters holds the lock.    *)
(***************************************************************************)
EXTENDS HotIndex, Sequences

CONSTANTS
    Relevant,   \* paths that is_relevant_path lets through
    Conns,      \* client connections
    MaxEdits,   \* bound: number of file-system edits in a behaviour
    MaxDrops    \* bound: number of watcher errors in a behaviour

ASSUME DaemonAssumption ==
    /\ Relevant \subseteq Paths
    /\ MaxEdits \in Nat
    /\ MaxDrops \in Nat

Builder == "builder"
ASSUME ConnsAssumption == Builder \notin Conns

VARIABLES
    disk,      \* what each path holds now
    edits,     \* edits so far
    drops,     \* watcher errors so far
    main,      \* where DaemonServer::run is
    index,     \* the HotIndex
    waiters,   \* the queue of the index lock
    builder,   \* where the build that runs, or waits to run, is
    batch,     \* paths received from the channel, not yet invalidated
    toRead,    \* inputs the running build still has to read
    partial,   \* what the running build has read
    raw,       \* paths with an event inside the debounce window
    chan,      \* batches in the unbounded channel
    unseen,    \* changed paths that no event announces (history)
    conn,      \* where each connection handler is
    waited,    \* rebuilds that ended while the connection waits (history)
    shutdown   \* the watch channel of the shutdown signal

fsVars == <<disk, edits>>
watchVars == <<raw, chan, drops>>
buildVars == <<builder, batch, toRead, partial>>
connVars == <<conn, waited>>
vars == <<fsVars, main, index, waiters, buildVars, watchVars, unseen,
          connVars, shutdown>>

Running == main \in {"warming", "watch", "serving", "stopping"}
Watching == main \in {"serving", "stopping"}
Held(who) == waiters # <<>> /\ Head(waiters) = who
Waiting == {c \in Conns : conn[c] = "locking"}
Gathered(batches) == UNION {batches[i] : i \in 1..Len(batches)}
InChan == Gathered(chan)

Init ==
    /\ disk \in [Paths -> Contents \cup {Absent}]
    /\ edits = 0 /\ drops = 0
    /\ main = "start"
    /\ index = NewIndex(Absent)
    /\ waiters = <<>>
    /\ builder = "idle" /\ batch = {}
    /\ toRead = {} /\ partial = [f \in Inputs |-> Absent]
    /\ raw = {} /\ chan = <<>> /\ unseen = {}
    /\ conn = [c \in Conns |-> "none"]
    /\ waited = [c \in Conns |-> 0]
    /\ shutdown = FALSE

-----------------------------------------------------------------------------
(* The user edits, creates, deletes or breaks a file.  Once the watcher is *)
(* registered the change raises an event.                                  *)

Edit(p, content) ==
    /\ edits < MaxEdits
    /\ main # "down"
    /\ content # disk[p]
    /\ disk' = [disk EXCEPT ![p] = content]
    /\ edits' = edits + 1
    /\ IF Watching
       THEN raw' = raw \cup {p} /\ UNCHANGED unseen
       ELSE unseen' = unseen \cup {p} /\ UNCHANGED raw
    /\ UNCHANGED <<main, index, waiters, buildVars, chan, drops, connVars,
                   shutdown>>

(* Mutant of Debounce: a batch is dropped while a rebuild runs. *)
DebounceIdleOnly(paths) ==
    /\ Watching
    /\ paths # {}
    /\ raw' = raw \ paths
    /\ unseen' = unseen \cup (paths \ Relevant)
    /\ chan' = IF paths \cap Relevant = {} \/ builder # "idle" THEN chan
               ELSE Append(chan, paths \cap Relevant)
    /\ UNCHANGED <<fsVars, drops, main, index, waiters, buildVars, connVars,
                   shutdown>>

(* The debouncer calls back with the paths whose window has elapsed; the   *)
(* irrelevant ones are filtered out, and an empty batch is not sent.       *)
Debounce(paths) ==
    /\ Watching
    /\ paths # {}
    /\ raw' = raw \ paths
    /\ unseen' = unseen \cup (paths \ Relevant)
    /\ chan' = IF paths \cap Relevant = {} THEN chan
               ELSE Append(chan, paths \cap Relevant)
    /\ UNCHANGED <<fsVars, drops, main, index, waiters, buildVars, connVars,
                   shutdown>>

(* The debouncer calls back with an error: it is logged, and the events    *)
(* are gone.                                                               *)
WatcherError(paths) ==
    /\ Watching
    /\ drops < MaxDrops
    /\ paths # {}
    /\ drops' = drops + 1
    /\ raw' = raw \ paths
    /\ unseen' = unseen \cup paths
    /\ UNCHANGED <<fsVars, chan, main, index, waiters, buildVars, connVars,
                   shutdown>>

-----------------------------------------------------------------------------
(* DaemonServer::run *)

(* `daemon start` loads the configuration; one that is there and does not  *)
(* load ends the command.  The listener is then bound and the warm build   *)
(* takes the lock nobody else knows yet.                                   *)
StartDaemon ==
    /\ main = "start"
    /\ IF disk[ConfigFile] = Unreadable
       THEN /\ main' = "down"
            /\ UNCHANGED <<index, waiters, builder>>
       ELSE /\ main' = "warming"
            /\ index' = NewIndex(disk[ConfigFile])
            /\ waiters' = <<Builder>>
            /\ builder' = "discover"
    /\ unseen' = unseen \ {ConfigFile}
    /\ UNCHANGED <<fsVars, batch, toRead, partial, watchVars, connVars,
                   shutdown>>

(* FileWatcher::start, after the warm build has returned *)
StartWatcher ==
    /\ main = "watch"
    /\ main' = "serving"
    /\ UNCHANGED <<fsVars, index, waiters, buildVars, watchVars, unseen,
                   connVars, shutdown>>

Terminate ==
    /\ main' = "down"
    /\ waiters' = <<>>
    /\ builder' = "idle"
    /\ conn' = [c \in Conns |-> "closed"]
    /\ UNCHANGED <<fsVars, index, batch, toRead, partial, watchVars, unseen,
                   waited, shutdown>>

(* An error of FileWatcher::start leaves run at once. *)
WatcherFails ==
    /\ main = "watch"
    /\ Terminate

(* Mutant of LeaveLoop: the shutdown channel is not watched. *)
LeaveOnSigint(sigint) ==
    /\ main = "serving"
    /\ sigint
    /\ main' = "stopping"
    /\ UNCHANGED <<fsVars, index, waiters, buildVars, watchVars, unseen,
                   connVars, shutdown>>

(* The accept loop ends on the shutdown signal or on SIGINT. *)
LeaveLoop(sigint) ==
    /\ main = "serving"
    /\ shutdown \/ sigint
    /\ main' = "stopping"
    /\ UNCHANGED <<fsVars, index, waiters, buildVars, watchVars, unseen,
                   connVars, shutdown>>

(* Dropping the runtime cancels the handlers and a rebuild that has not    *)
(* begun, and waits for one that has.                                      *)
Exit ==
    /\ main = "stopping"
    /\ builder \in {"idle", "wait"}
    /\ Terminate

-----------------------------------------------------------------------------
(* The file-change task and the build it runs under the lock.              *)

(* Mutant of Enqueue: the rebuild task goes straight behind the holder. *)
EnqueueBuilderFirst(who) ==
    waiters' = IF who = Builder /\ waiters # <<>>
               THEN <<Head(waiters), who>> \o Tail(waiters)
               ELSE Append(waiters, who)

(* lock().await and blocking_lock(): a tokio Mutex is first come, first    *)
(* served.                                                                 *)
Enqueue(who) == waiters' = Append(waiters, who)

(* changes_rx.recv(), then blocking_lock() in a blocking task; the abort   *)
(* after the accept loop stops further batches.                            *)
TakeBatch ==
    /\ main = "serving"
    /\ builder = "idle"
    /\ chan # <<>>
    /\ batch' = Head(chan)
    /\ chan' = Tail(chan)
    /\ builder' = "wait"
    /\ Enqueue(Builder)
    /\ UNCHANGED <<fsVars, main, index, toRead, partial, raw, drops, unseen,
                   connVars, shutdown>>

(* invalidate_files and the head of rebuild_changed, down to the reload *)
BeginRebuild ==
    /\ builder = "wait"
    /\ Held(Builder)
    /\ LET marked == InvalidateFiles(index, batch)
       IN  /\ index' = ReloadConfig(marked, disk[ConfigFile])
           /\ unseen' = IF marked.configChangePending
                        THEN unseen \ {ConfigFile} ELSE unseen
    /\ batch' = {}
    /\ builder' = "discover"
    /\ UNCHANGED <<fsVars, main, waiters, toRead, partial, watchVars,
                   connVars, shutdown>>

(* build_graph_with_options: the file walk that decides what is read *)
Discover ==
    /\ builder = "discover"
    /\ toRead' = {f \in Inputs : disk[f] # Absent}
    /\ partial' = [f \in Inputs |-> Absent]
    /\ builder' = "reading"
    /\ UNCHANGED <<fsVars, main, index, waiters, batch, watchVars, unseen,
                   connVars, shutdown>>

(* ... the files it found are read one by one, in any order *)
ReadFile(f) ==
    /\ builder = "reading"
    /\ f \in toRead
    /\ disk[f] \in Contents
    /\ partial' = [partial EXCEPT ![f] = disk[f]]
    /\ toRead' = toRead \ {f}
    /\ UNCHANGED <<fsVars, main, index, waiters, builder, batch, watchVars,
                   unseen, connVars, shutdown>>

(* Mutant of Release: a failed build (files left to read) keeps the lock. *)
ReleaseOnSuccess ==
    /\ builder' = "idle"
    /\ waiters' = IF toRead = {} THEN Tail(waiters) ELSE waiters
    /\ waited' = [c \in Conns |-> IF c \in Waiting THEN waited[c] + 1
                                  ELSE waited[c]]
    /\ main' = IF main = "warming" THEN "watch" ELSE main
    /\ UNCHANGED <<fsVars, batch, watchVars, conn, shutdown>>

(* The builder's guard is dropped, and run goes on after the warm build. *)
Release ==
    /\ builder' = "idle"
    /\ waiters' = Tail(waiters)
    /\ waited' = [c \in Conns |-> IF c \in Waiting THEN waited[c] + 1
                                  ELSE waited[c]]
    /\ main' = IF main = "warming" THEN "watch" ELSE main
    /\ UNCHANGED <<fsVars, batch, watchVars, conn, shutdown>>

(* ... a file that vanished since the walk, or that does not decode, fails *)
(* the whole build, which leaves the index as it was                       *)
BuildFails(f) ==
    /\ builder = "reading"
    /\ f \in toRead
    /\ disk[f] \notin Contents
    /\ toRead' = {}
    /\ Release
    /\ UNCHANGED <<index, partial, unseen>>

FinishBuild ==
    /\ builder = "reading"
    /\ toRead = {}
    /\ index' = InstallBuild(index, [files |-> partial,
                                     config |-> index.config])
    /\ unseen' = unseen \ {f \in Inputs : partial[f] = disk[f]}
    /\ Release
    /\ UNCHANGED <<toRead, partial>>

-----------------------------------------------------------------------------
(* Connections: handle_connection and dispatch_request                     *)

connUnchanged ==
    UNCHANGED <<fsVars, main, index, buildVars, watchVars, unseen>>

(* The port answers from the moment it is bound; until the accept loop     *)
(* runs the connection stays in the backlog.                               *)
Connect(c) ==
    /\ Running
    /\ conn[c] = "none"
    /\ conn' = [conn EXCEPT ![c] = "backlog"]
    /\ connUnchanged
    /\ UNCHANGED <<waiters, waited, shutdown>>

Accept(c) ==
    /\ main = "serving"
    /\ conn[c] = "backlog"
    /\ conn' = [conn EXCEPT ![c] = "auth"]
    /\ connUnchanged
    /\ UNCHANGED <<waiters, waited, shutdown>>

Authenticate(c, ok) ==
    /\ conn[c] = "auth"
    /\ conn' = [conn EXCEPT ![c] = IF ok THEN "ready" ELSE "closed"]
    /\ connUnchanged
    /\ UNCHANGED <<waiters, waited, shutdown>>

(* Every request but Shutdown first waits for the index lock. *)
RequestIndex(c) ==
    /\ conn[c] = "ready"
    /\ conn' = [conn EXCEPT ![c] = "locking"]
    /\ waited' = [waited EXCEPT ![c] = 0]
    /\ Enqueue(c)
    /\ connUnchanged
    /\ UNCHANGED shutdown

RequestShutdown(c) ==
    /\ conn[c] = "ready"
    /\ shutdown' = TRUE
    /\ conn' = [conn EXCEPT ![c] = "replying"]
    /\ connUnchanged
    /\ UNCHANGED <<waiters, waited>>

(* The query runs under the lock, which is released before the reply is    *)
(* written.                                                                *)
Query(c) ==
    /\ conn[c] = "locking"
    /\ Held(c)
    /\ conn' = [conn EXCEPT ![c] = "replying"]
    /\ waiters' = Tail(waiters)
    /\ connUnchanged
    /\ UNCHANGED <<waited, shutdown>>

(* The reply is written, and the handler ends if shutdown was requested. *)
Reply(c) ==
    /\ conn[c] = "replying"
    /\ conn' = [conn EXCEPT ![c] = IF shutdown THEN "closed" ELSE "ready"]
    /\ connUnchanged
    /\ UNCHANGED <<waiters, waited, shutdown>>

(* The client closes its end between two requests. *)
Disconnect(c) ==
    /\ conn[c] \in {"auth", "ready"}
    /\ conn' = [conn EXCEPT ![c] = "closed"]
    /\ connUnchanged
    /\ UNCHANGED <<waiters, waited, shutdown>>

-----------------------------------------------------------------------------
Build == BeginRebuild \/ Discover \/ FinishBuild
         \/ \E f \in Inputs : ReadFile(f) \/ BuildFails(f)

Handler(c) ==
    \/ Accept(c)
    \/ \E ok \in BOOLEAN : Authenticate(c, ok)
    \/ RequestIndex(c) \/ RequestShutdown(c)
    \/ Query(c) \/ Reply(c) \/ Disconnect(c)

(* The process has ended; only this stutters for ever. *)
Down == main = "down" /\ UNCHANGED vars

Next ==
    \/ \E p \in Paths, content \in FileStates : Edit(p, content)
    \/ \E paths \in SUBSET raw : Debounce(paths) \/ WatcherError(paths)
    \/ StartDaemon \/ StartWatcher \/ WatcherFails
    \/ \E sigint \in BOOLEAN : LeaveLoop(sigint)
    \/ Exit
    \/ TakeBatch \/ Build
    \/ \E c \in Conns : Connect(c) \/ Handler(c)
    \/ Down

Spec == Init /\ [][Next]_vars

(* The runtime schedules every task that can run, the debouncer's timer    *)
(* fires, a build that can read its next file reads it, and the client of  *)
(* an accepted connection either speaks or leaves.  Nothing is promised of *)
(* edits, of watcher errors, or of anyone asking for a shutdown.           *)
Fairness ==
    /\ WF_vars(\E paths \in SUBSET raw : Debounce(paths))
    /\ WF_vars(StartDaemon) /\ WF_vars(StartWatcher)
    /\ WF_vars(LeaveLoop(FALSE)) /\ WF_vars(Exit)
    /\ WF_vars(TakeBatch) /\ WF_vars(Build)
    /\ \A c \in Conns :
        /\ WF_vars(Accept(c)) /\ WF_vars(Query(c)) /\ WF_vars(Reply(c))

FairSpec == Spec /\ Fairness
-----------------------------------------------------------------------------
(* Types of the state of server.rs, index.rs and watcher.rs *)
TypeOK ==
    /\ disk \in [Paths -> FileStates]
    /\ edits \in 0..MaxEdits /\ drops \in 0..MaxDrops
    /\ main \in {"start", "warming", "watch", "serving", "stopping", "down"}
    /\ index \in Indexes
    /\ waiters \in Seq(Conns \cup {Builder})
    /\ builder \in {"idle", "wait", "discover", "reading"}
    /\ batch \subseteq Paths
    /\ toRead \subseteq Inputs
    /\ partial \in [Inputs -> Loaded]
    /\ raw \subseteq Paths /\ unseen \subseteq Paths
    /\ chan \in Seq(SUBSET Paths)
    /\ conn \in [Conns -> {"none", "backlog", "auth", "ready", "locking",
                           "replying", "closed"}]
    /\ waited \in [Conns -> Nat]
    /\ shutdown \in BOOLEAN

(* Nothing falls between two stages of the pipeline from the watcher to    *)
(* the index: an input whose content in the warm graph is not the one on   *)
(* disk is in the debounce window, in a batch of the channel, in the batch *)
(* being handed over or among the invalidated files -- unless no event     *)
(* will ever announce its last change (index.rs invalidate_files and       *)
(* build_initial's clear, server.rs's rebuild task).  A file edited while  *)
(* the build that clears invalidated_files reads is the case that could    *)
(* get lost.                                                               *)
Announced == raw \cup InChan \cup batch
StaleIsAccountedFor ==
    IsWarm(index) =>
        \A f \in Inputs : index.build.files[f] # disk[f] =>
            f \in Announced \cup index.invalidated \cup unseen

(* The configuration in memory follows the file: while they differ and the *)
(* file could be loaded, the change is still on its way.  A failed build   *)
(* does not undo the reload, so invalidated_files is not among the excuses *)
(* (index.rs rebuild_changed).                                             *)
ConfigFollowsDisk ==
    main \notin {"start", "down"} =>
        (disk[ConfigFile] \in Contents /\ index.config # disk[ConfigFile] =>
            ConfigFile \in Announced \cup unseen)

(* A graph and a configuration that do not belong together are only seen   *)
(* while pending_invalidations reports work: the mix is the leftover of a  *)
(* rebuild that failed after its reload (index.rs rebuild_changed).        *)
MixIsPending ==
    IsWarm(index) /\ index.build.config # index.config =>
        index.invalidated # {}

(* The lock is fair and there is one rebuild task, so a query that waits   *)
(* for the index sees at most one rebuild go first, however fast the files *)
(* change (server.rs dispatch_request against the rebuild task).           *)
WaitsForOneRebuild == \A c \in Waiting : waited[c] <= 1

(* Once the files stop changing the daemon serves a graph of the files as  *)
(* they are, or it has stopped, or a file cannot be built, or some change  *)
(* was never announced (server.rs's rebuild task).                         *)
Stale == ~IsWarm(index) \/ \E f \in Inputs : index.build.files[f] # disk[f]
Unbuildable == \E f \in Inputs : disk[f] = Unreadable
EventuallyFresh ==
    <>[](main = "serving" /\ Stale => Unbuildable \/ unseen # {})

(* Every connection in the backlog is accepted and every request that asks *)
(* for the index is answered, or the process ends (server.rs run and       *)
(* dispatch_request).                                                      *)
EveryRequestAnswered ==
    \A c \in Conns :
        /\ conn[c] = "backlog" ~> conn[c] # "backlog"
        /\ conn[c] = "locking" ~> conn[c] \in {"replying", "closed"}

(* A shutdown request ends the process, whatever the rebuild task, the     *)
(* channel and the other connections are doing (server.rs run).            *)
ShutdownEnds == shutdown ~> main = "down"

(* What the field's comment says, "Configuration snapshot used for the     *)
(* current graph" (index.rs:109), whenever a query can look.               *)
ConfigIsTheGraphs ==
    IsWarm(index) /\ builder = "idle" => index.build.config = index.config
=============================================================================
