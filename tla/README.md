# pruneguard in TLA+

pruneguard finds files, exports, members and dependencies of a JavaScript or
TypeScript project that nothing uses. It runs as a one-shot command or as a
daemon that keeps the project's graph in memory. This directory holds TLA+
models of its core, TLC runs on small instances, and TLAPS proofs for all
instances. Paths below are relative to `crates/` and `apps/` of the repository.

`tlc -config X.cfg M` runs a configuration of `PROJECT.json` ("runs");
`tlapm MProofs.tla` checks the proofs of a module.

## The system

| Part | State | Operations | Talks to |
|---|---|---|---|
| Daemon server (`pruneguard_daemon/src/server.rs`) | phase of `run`, shutdown signal, connections, the mutex around the index | start, warm build, accept, authenticate, dispatch, shut down | watcher (unbounded channel), index (mutex), metadata file, clients (TCP) |
| Hot index (`index.rs`) | configuration, last graph, generation, invalidated files, reload flag | build, invalidate, reload and rebuild, query | graph build, files |
| File watcher (`watcher.rs`) | debounce window | filter, batch, send | file system, server |
| Metadata (`metadata.rs`) | `daemon.json` | write, load with liveness check, remove | all processes of the project |
| Client and daemon commands (`client.rs`, `main.rs`) | one command's progress | connect, start, fall back, stop, restart, status | metadata, daemon |
| Analysis cache (`pruneguard_cache`) | `cache.redb`: facts and resolutions by file | open, delete and recreate, look up, store a batch | graph builds of several processes |
| Graph build (`pruneguard_graph/src/build.rs`) | files, hashes, facts, graphs | collect, hydrate, extract, persist, build graphs, refine | cache, resolver, semantic helper |
| Symbol graph and module graph (`symbol_graph.rs`, `module_graph.rs`) | exports, edges, liveness | add, propagate liveness, reachability, paths, components | graph build, analyzers |
| Analyzers (`pruneguard_analyzers`) | demand, findings | one analysis for each kind of finding | graphs, configuration |
| Semantic client, protocol, helper (`pruneguard_semantic_*`, `pruneguard-tsgo`) | a child process and its pipes; an index of the sources | handshake, query batches, shutdown; five queries | graph build |
| Configuration (`pruneguard_config`) | none | find, load, extend, create | every command |
| Discovery, manifests, file system (`pruneguard_discovery`, `_manifest`, `_fs`) | none | workspaces, tracked files with their roles, entry files | graph build |
| Entrypoints, frameworks (`pruneguard_entrypoints`, `_frameworks`) | none | detect packs, seeds of a workspace | graph build |
| Resolver (`pruneguard_resolver`) | aliases, externals, ignored specifiers | resolve a specifier | graph build |
| Analyzers of dependencies, packages, cycles, ownership, boundaries (`pruneguard_analyzers`, `_rules`) | none | findings of a graph | commands |
| Commands (`apps/pruneguard/src/lib.rs`, `main.rs`), `pruneguard_compat`, `pruneguard_git` | none that lasts, except the files a fix edits | scan, review, safe-delete, fix-plan, explain, impact, suggestions | daemon or one-shot build |

What is hard here:

* **Several processes, one directory.** Commands and daemons meet only in
  `daemon.json` and `cache.redb`. The first has no lock, the second has one
  that the code answers by deleting the file.
* **A pipeline that must not lose a change.** Editor, debounce window, channel,
  batch, invalidated files, build: each hands over to the next, and builds fail.
* **Fixpoints over cycles.** Liveness and demand pass through chains of
  renamings, stars, namespaces and cycles, edge by edge in an order nobody chose.
* **Caches keyed on less than their values depend on.**
* **A child process that may do anything** between a build and its end.
* **Long chains of small decisions.** A file's fate depends on bases of a
  configuration, seeds of several workspaces, aliases, roles and filters, each
  tested alone; and whatever a scan finds passes trust, change, baseline and focus
  before it decides an exit code, twice, with a daemon and without.

`PROJECT.json` lists every such place with its line under "hazards".

## Modules

| Module | Models |
|---|---|
| `HotIndex` | the index as a value: what each method makes of it |
| `DaemonServer` | one daemon: `run`, watcher, rebuild task, connections, editor; composes `HotIndex` |
| `DaemonLifecycle` | several daemons and commands around `daemon.json` |
| `CachedBuild` | several builds around `cache.redb`, from opening to persisting |
| `SymbolGraph` | from the facts of the files to the graphs, and what each kind of edge makes live |
| `DeadCode` | liveness, reachability, demand and the findings, with the reference definitions of both; composes `SymbolGraph` |
| `SemanticSession` | one use of the semantic helper by a build; implements `Refinement`, what `DeadCode` takes it to be |
| `SemanticIndex` | what the helper reads and how it answers each kind of query |
| `GraphQueries` | queries of the module graph; cycles, impact, duplicate exports, ownership |
| `Scan`, `Commands`, `Cli` | from findings to the report of a scan; the commands on top of it; daemon or not, and exit codes |
| `Config` | finding, loading and extending a configuration |
| `Discovery`, `Frameworks`, `Entrypoints` | the files of a project; the packs; what a build starts from. Each extends the one before |
| `Dependencies` | unused and unlisted dependencies, unused packages; extends `Entrypoints` |
| `Resolver` | specifiers to files, the aliases of a build, the edges of a file |
| `Rules` | boundary rules; extends `GraphQueries` |
| `...MC` | instances for TLC |
| `FunctionsMC`, `ProjectInputs` | the parts without state, asked for every input of bounded sets |
| `FixpointProofs` | what every walk and every loop needs: induction over numbers, counted closures, iterations |
| `CommandsProofs` | walks, shortest paths, components and the search for a cycle, on any graph; scan, review, safe-delete and fix-plan, for any findings |
| `FunctionsProofs` | the helper on any sources, the loading of any configurations, the entrypoints of any workspaces; the properties of `FunctionsMC` |
| other `...Proofs` | theorems and proofs about the module named before |

### DaemonServer and HotIndex

A file is a path that holds a content, is `Absent`, or is `Unreadable` (content
on which the build returns an error). A graph is what every input held when the
build read it, together with the configuration it was given.

* `main` is where `DaemonServer::run` is. `StartDaemon` binds and starts the warm
  build, `StartWatcher` registers the watcher afterwards, `LeaveLoop` and `Exit`
  follow the shutdown signal or SIGINT; the runtime cancels handlers and a
  rebuild that has not begun, and waits for one that has.
* `raw`, `chan`, `batch` and `index.invalidated` are the stages of a change.
  `unseen` is a history variable: changes that no event will announce (made before
  the watcher was registered, filtered out, or lost in an error of the watcher).
* A build is `BeginRebuild`, `Discover`, any number of `ReadFile`, and `FinishBuild`
  or `BuildFails`. Edits go on between these.
* `waiters` is the queue of the tokio mutex; its head holds the lock. `waited`
  counts the rebuilds that ended while a connection waited.

### DaemonLifecycle

A daemon's identity stands for pid, port and token. `fs::write` is two steps,
truncation (`OpenMetadata`) and write (`WriteMetadata`); `handles` remembers
whose open handle is on the file that the path still names. A command is a
program counter: load, check the pid, remove a stale file, connect, ask, spawn
and poll. `kill -0` also succeeds for a zombie and for another process with the
pid, so it may say yes for a daemon that has ended. `LeaveLoop` (asked to) and `Interrupt`
(SIGINT) are the ways out of the accept loop. `Crash` also stands for a
daemon whose write or watcher failed. `main` of `DaemonServer` is `life` here.

### CachedBuild

Each builder is a process, a scan or a daemon, with a scope (the files below its
scan paths). `dbs` are all databases ever created, `dbAt` the one at the path;
deleting the file does not close it for who has it open. Hashes are contents.
An import is the list of files it may mean, tried in order (`./b` is `b.ts`, then
`b.js`). The edges of an entry remember under which tsconfig, with which files on the
disk (`present`) and among which files of the build they were resolved: these are what
the resolver depends on and the entry's key does not always hold. `EdgesIn` is what the
graph takes of them: an edge to a file that is not in the build is dropped. `Persist` is one transaction. `raced` is a history variable.

### SymbolGraph and DeadCode

`FileFacts` are what extraction finds in a file. `GraphOf` is
`add_symbol_edges` for all files: an export that a re-export adds replaces the
declared one, a member of a namespace import counts as an import, `export *`
adds no export. The loops of `propagate_liveness` and of `unused_exports.rs` take
one edge at a time, in any order (`pending`), and start again while something
changed. `Refine` lets the semantic helper find references to any subset of the
exports that are not live. Entrypoints are given (`seeds`). A declaration is type-only or not, and a
`container` (class, enum, namespace) or not: only the members of containers are looked at.

### SemanticSession and SemanticIndex

`client` is where the build is in the semantic part of
`build_graph_with_options`, `helper` where the process is, and the two pipes are sequences of messages. A query carries its id; the
build finds the export by position, and `env.lossy` are the exports whose path
cannot be written into a query, which shifts positions. The helper may be
missing, of another version, die, hang (`Hangs`) or stop in a write that nobody
reads (`"writing"`: an answer above the limit of the client). `Refinement` is the abstract
step: until it ends, exports become live, only those the helper may vouch for.

`SemanticIndex` gives the vouching its meaning: `FileData` of each source, importers by
resolved specifier, and `ProcessQuery`.

### The parts without state

These modules declare no variables: they are operators on records, one for each function
of the code. What decides control - which candidates in which order, which
condition first, what is filtered when - is kept; text is abstracted. Paths
are sequences of components where one may be inside another, file names are
split at their dots, a glob is the set of paths it matches, a manifest is a
record of its fields. Where the code iterates over a hash map, the order is a parameter
(`order` of `Entrypoints` and the scripts of a manifest; `workspaces` and `roots` of `Resolver`,
which walks two maps of the same workspaces).

* `Config.Merged` is `merge_from`, `LoadNamed` the recursion of `load`, which answers "endless"
  where the code recurses without end.
* `Entrypoints.EntrypointSeeds` is the way of the seeds through a build:
  `DetectEntrypoints` for each workspace (the first reason to name a path counts),
  `Kept`, `Deduplicated`, `InjectConfigEntrypoints`, `WildcardSeeds`, `WithRoles`, `ForProfile`.
* `Resolver.Resolve` is `ModuleResolver::resolve`. The answers of `oxc_resolver`, which is not
  part of the repository, are a given function `inner`.
* `Scan.ScanWithOptions` is the order of what is done to findings. The findings themselves
  are inputs here: what makes them is `DeadCode`, `GraphQueries`, `Dependencies` and `Rules`.
* `Cli.ExitCode` gives the code of each command, for each mode and state of the daemon.

In `FunctionsMC` a state is a question, and its one step the answer. `ProjectInputs`
composes `Resolver`, `GraphQueries`, `Dependencies` and `Rules` as a build and its
analyzers do: edges of every file, the graph, what is reached, the
findings.

## Runs

| Run | Shows |
|---|---|
| `daemon` | no change is lost between the stages; the configuration in memory follows the file; a graph is never silently beside another configuration |
| `daemon_live` | a query waits for one rebuild at most; requests are answered; shutdown ends the process; the graph becomes that of the files |
| `daemon_config_mix` | **violation**: after a rebuild that fails, queries use the new configuration on the old graph |
| `lifecycle` | auto never fails, required never runs alone, a daemon that left cleanly is not advertised, every command ends |
| `lifecycle_restart` | **violation**: after `daemon restart` the old daemon, on its way out, removes the new one's metadata; the new one then serves alone and cannot be found |
| `cache` | what the cache gives is what extraction would give, unless the files that an import may mean came, went or left the scope; facts and resolutions come together; no two builds share a database |
| `cache_warm` | **violation**: a warm run misses the edge to a file created after its importer was cached |
| `deadcode` | reported exports are exactly those nothing consumes; liveness is exact; unused files have no reachable importer; the loops end |
| `deadcode_kinds` | **violation**: a type import through `export *` does not keep the export |
| `session` | an export is live after the refinement exactly if its batch was answered and it is referenced; the build goes on; no helper outlives it; the session implements `Refinement` |
| `functions` | impact, proofs of reachability and cycles against their definitions; a scan hides nothing without a reason; doubt blocks nothing; a missing daemon does not show; what is safe to delete is free; a plan covers its findings; a setting wins over those of the files it extends; what is published or run in production is live there; an import counts alike for dependencies and rules; the helper names the importers |
| `review_exit` | **violation**: with a warm daemon, `review` exits 0 whatever there is |

### Bounds

* `daemon`: a source, an unwatched component and the configuration; two
  contents besides absent and unreadable; three edits, one lost event. Every
  hazard of the pipeline needs one edit to a file and one during a build that
  reads it; the third makes a rebuild fail in between. Connections do not touch
  the data and are left to `daemon_live`, which has two of them (one that holds,
  one that queues behind the rebuild), one source and two edits.
* `daemon_config_mix`: a source, a manifest and the configuration, three edits.
* `lifecycle`: three daemons (one there from the start, one for each command;
  one of another version), two commands of any kind, one crash; one of the daemons
  may get a SIGINT. The violation run needs two daemons and one command, and
  neither crashes nor signals.
* `cache`: three files, one importing one of the others, whichever is found first; two
  processes of different scope, three builds, one edit, one kill. Two builds fill the entries,
  the third reads them after a file was deleted or created under it. Contents are symmetric.
  A deadlock is the end of the builds. `cache_warm`: two files, one importing the other, which
  may come or go between two scans of the same process.
* `deadcode`: an entrypoint, a barrel and a leaf with two names. The entrypoint has up to
  two imports, the barrel up to two re-exports and the leaf up to one, so chains
  rename, star, mix kinds and close to cycles through all three files; every
  order of the passes is explored. Termination is the end of the run.
* `session`: four exports, three of them dead, in batches of one to three; up to one
  tsconfig; a helper of the own or another version. Three queries let a batch be
  the first, a middle and the last one, and positions shift by one.
* `functions`: all graphs of an entrypoint and three files (two paths of them end alike),
  and their reports with every kind of diff, baseline, focus and doubt; a configuration
  with two bases that may extend each other, so that diamonds and circles occur;
  two workspaces, one file, and everyone who can name it as an entrypoint (the root has up to two scripts
  that run it, in either order; `dev` and `start` stand for all names of their profile); two workspaces
  and four importers of a package that may be declared, installed, or an alias; and one export,
  two files that a specifier may mean and two importers. Most of these properties
  compare what is computed with a definition that does not follow the code.

### Fairness

The daemon's tasks are scheduled by tokio, the debouncer's timer fires and a
build that can read its next file reads it: weak fairness of each. A build that
hangs (see the hazard about the semantic helper) is outside this assumption. A
client is not assumed to speak, an editor not to edit, nobody to ask for
shutdown. In `DaemonLifecycle` each process and each command takes its steps
(weak) and the five seconds of polling pass (strong: the poll is left and entered
again by every look at the file). In `SemanticSession` build and helper are two
processes that the system schedules (weak), but nothing kills a hung helper: the
properties speak of that state. In `DeadCode` a sequential program goes on. The parts
without state have no fairness and no liveness.

## Proofs

All theorems hold for any values of the constants under the modules' ASSUMEs:
sets are disjoint where the code's values are, and bounds are naturals.

* `DaemonServerProofs`. `StaleIsAccountedFor` is not inductive: at the end of a build the
  invalidated files are cleared, so what the running build has read must be accounted for too.
  `Accounted` adds that a file already read that has changed since is announced
  or unseen (`ReadIsAccountedFor`), that a batch is only held while the rebuild
  waits (`BatchIsHandedOver`) and that no reload is pending outside
  `BeginRebuild` (`NothingPending`). `ConfigFollowsDisk` and `MixIsPending` follow from
  the same invariant. For `WaitsForOneRebuild` the invariant `Fair` says who is in the
  queue, once each, and that who has seen a rebuild end stands before
  the rebuild task.
* `DaemonLifecycleProofs`. `CleanExitIsNotAdvertised` needs `FileInv`: without
  crashes the file names, and the handles belong to, daemons that have not ended.
  `AutoNeverFails` and `RequiredNeverOneShot` need `EndInv`: which steps a command of
  each kind can be at.
* `CachedBuildProofs`. `WarmIsColdIfSameCandidates` needs that every entry of every database,
  also of the deleted ones, is honest: its hash is the content of its facts, its tsconfig hash, if
  any, is the one its edges were resolved under, and its targets are
  those of a resolution with the files there were then. This is preserved while
  nobody edits during a build, and an edit between builds finds no build to harm.
* `DeadCodeProofs`. The walk: all a visited file leads to is visited or queued. The
  demand loop: while a pass has changed nothing, the edges taken have nothing to pass
  on; and the demand stays below every closed set of demands. Together the
  demand is the least closed set, so the report does not depend on the order
  of the files. Types rest on lemmas for each part of the graph. The reference
  definitions count the links of a chain of re-exports, up to as many as there are names of
  files; `UnusedExportsAreExact` and `LivenessIsExact` show that this bound is
  enough (a chain that grows at every length names more than there are) and that
  both loops find what the chains lead to, no more and no less.
* `FixpointProofs` and `CommandsProofs`. The walks of `GraphQueries` are recursive functions
  over rounds. `IterationExists` (there is such a function) and `InductionUpTo` (by the
  least round at which a statement fails) turn a statement about their end into one about
  one round. `ClosureIsLeast`: the rounds end at the least closed set, whose bound
  is the number of files. `ShortestPathIsShortest`: after round n of the breadth-first
  search all files at a distance of n are marked, each with a parent one round before.
  `ChainsAreCycles`: whatever the search for a cycle has on its stack is a path
  from its start, and what it returns closes. `CyclesAreFound`: by induction over the
  files that a path leaves out, k of them, the search is done with the path and all that it
  could go on by in 1 + k times as many rounds as for k - 1 (`BranchSettles`), so that
  `MaxPaths` rounds are enough; and a search that has seen every path without finding one that leads
  back has found a set that is closed in the component and does not hold its start
  (`OnlyFilesAreBetween` says that nothing but files is inside a component).
  The commands are proved for any findings and options. `ScanIsExact`: a finding is in the report exactly if it is
  trusted, changed, new and in focus, in this order, with its own number.
  `ReviewDividesItsScan`: blocking and advisory findings are those of
  the scan, once each, and none in doubt blocks. `SafeMeansUnimported`: what `safe-delete`
  calls safe has no importer besides what goes with it. `DeletionIsInOrder`: the
  order of deletion holds every safe target at as many places as it was
  asked at, and one that no safe target imports stands before what it imports.
  `PlansCoverTheirFindings`: a plan has one action for each finding that it matches and can
  act on, none surer than its finding, and those on dead code first.
* `FunctionsProofs`. Theorems for any input come first; the properties of the run follow for the
  answers of `FunctionsMC`, whose invariant `AnswerInv` says that a result is the
  answer to its input. `PlanCoversFindings` and `SafeTargetsAreFree` need besides that the findings of one project
  have different numbers (`FindingsAreNumbered`).
  The helper: `ReferencesAreImports` and `TypesAreNotValues` hold for any sources and any
  disk; `ChainsAreFollowedToTheEnd` says that the loop over the aliases, which has one round per
  alias in the model and no bound in the code, stops only where there is nothing new to follow: a
  chain that were still growing would be longer than the aliases have targets (`ChainsFit`).
  The configuration: `LoadNamed` loads in rounds, one more than there are files, and
  `Lineage`, the line of a file, lists the files it extends in rounds as well. `LoadedIsGrounded`: a file loads in that many rounds
  exactly if all files on its line can be read and none leads to itself, since a set that
  grows in every round has all of them in the end (`GroundedIsAcyclic`). `MergedDescribes` is
  the heart of `NearestFilesDecide`: merging the configurations of two lines of files gives that of the lines
  one behind the other, because the nearest setting and the entries go through
  concatenation (`NearestAddsUp`, `EntriesAddUp`); with it, what is loaded describes its line,
  round by round (`LoadedDescribes`). A line is the proofs' own device and has the order of the
  code; the property has no order of bases: what a line takes first is said by a file that is extended
  through files that say nothing (`NearestDecides`, `DescribedReflects`).
  The entrypoints: the seeds of a workspace are those of a list of groups, each path for the first
  group that holds it, so that two lists one behind the other start from what the first
  does and, for what it does not name, the second (`StartsGoOn`). Hence `FirstReasonDecides`: the
  order include, manifest, scripts, conventions, packs is the whole of `detect_entrypoints`.
  `DuplicatesLoseNothing` (`dedup_by` on the sorted seeds: of those before a dropped seed the nearest is of its
  profile, and the first of a row is kept), `WorkspacesAddUp` and `ToolsOnlyAdd` hold for any
  seeds. `PublicApisAreProduction` applies them to the file of the questions: what the
  manifests, the scripts and each of the 23 packs say of it, then the filters, the tools and the roles.
  The assumptions on constants are that `None` is no value of an input, no chain, no name, no
  setting and no file (`NoneIsNoValue`, `NoneIsNoName`, `NoneIsNoSetting`, `NoneIsNoFile`).
* `SemanticSessionProofs`. `MarksAreExact` needs what the pipes hold (`PipesInv`): during the
  handshake at most one message, and none the helper could take for a batch; while
  batches are sent at most one batch or its answer, and nothing when the next is sent
  (`OneBatchUnderWay`), so that an answer needs no number. With `Distinct` - an order of the
  exports names each once, by cardinality - the id of a query before the first
  lost path is its position, and an answer marks what it is about. The refinement
  follows from the same invariant, a step of `ReadAnswer` being a `Mark`.

Only model-checked: everything about liveness (`EveryRequestAnswered`, `ShutdownEnds`,
`EventuallyFresh`, `EveryCommandEnds`, `Ends`, `BuildGoesOn`, `NoOrphan`), which needs
ENABLED; and of `functions` `EveryImportCounts`, whose answer runs through the resolver's
and the rules' folds with operators for parameters, about which the provers know
nothing.

## What is not modelled

* Extraction: a parser's walk over syntax trees. Its facts are inputs.
* The configuration readers (`pruneguard_config_readers`): some fifty adapters that each
  search the text of one tool's configuration. What they find is an input of
  `Entrypoints` and `Resolver`, so their effect on a build is modelled, not their reading.
* Of the frameworks, the methods that nothing outside the crate calls.
* Rule suggestions and parity (heuristics of a report), the semantic scheduler (nothing calls
  it), `fix`, which edits files by the plan, the migration and the JavaScript wrapper.
* `oxc_resolver`, tokio, redb, notify and git are external: they appear as what the
  code relies on.
* The wording and the JSON of answers, and statistics.

## Plan

Left, in this order:

1. `LiveIndex`, an abstract daemon whose snapshot follows the files with some delay, and
   `DaemonServer` as its implementation.
2. Lemmas about `Discovery` and `Entrypoints`: the deepest workspace owns a file.

## Observations

Disagreements of code and documentation that the runs show are under "findings".
Others met while modelling:

* A scan of a subdirectory resolves among its own files only (`build.rs:167`) and caches the
  missing edges; a later scan of the whole project takes them over.
* `AnalysisCache::open` takes any error for corruption, also the lock of another
  process (`lib.rs:93`), and deletes a healthy database below its user.
* The facts of a file's second reading are stored under the hash of its first
  (`build.rs:464`): an edit in between leaves an entry that says otherwise than its text.
* `connect_or_start` polls for the daemon's file, but a truncated file is an error
  that ends the polling (`client.rs:90`).
* `daemon.json` is written before the warm build, so a command may connect to a daemon
  that accepts nobody yet (`server.rs:72`); `daemon start` does not look for a running one.
* Exports marked live by steps 3b and 4 of `propagate_liveness`, or by the helper, are not
  followed through re-exports: the loop of step 2 has run before.
* A member that is accessed through a barrel is credited to the barrel, not to the
  file that declares it, and can be reported unused.
* The semantic client computes a deadline for its reads and does not use it
  (`pruneguard_semantic_client/src/lib.rs:310`). A path that cannot be written into a query is
  left out of the index of queries, and answers are then applied to the wrong exports
  (`build.rs:759`).

Of the configuration and the resolver:

* `merge.rs:3` says "last wins", but for sections and toggles the extending file wins and then the
  first base; lists are those of the last base first. Of some thirty toggles of frameworks
  sixteen are merged; `resolver`, `entrypoints`, `analysis` and `semantic` are never inherited.
  A circle of `extends` is not noticed (`config.rs:617`); `init` overwrites
  an existing file (`config.rs:641`).
* The aliases of single workspaces are added before `set_config_aliases` (`build.rs:350`, `:355`),
  which replaces the list: as soon as any tool configures an alias, or workspaces
  agree on one, conflicting aliases of workspaces are lost.
* An alias that matches decides for all aliases, even if its target does not exist. An extension
  replaces the last part of a name with a dot. The expansion of a glob is called truncated
  only if files are left to look at.

Of the entrypoints:

* The first reason to name a file decides its profile: of two scripts of one
  workspace that run it, one of development and one of production, the order of a hash map decides, so that the
  file may be live in production in one run and not in the next (`lib.rs:209`). `dist/client.node.js` is taken for `src/client.ts`.
* "Explicit config and framework-contributed entrypoints are always kept" (`build.rs:1487`), but
  an included file named `.test.` or `.spec.` is dropped before (`build.rs:1440`).
* Wildcard exports of a workspace are compared with paths from the project's root.
* `detect` and `detect_detailed` of a pack look in different places, so that the
  compatibility report may name a framework the build does not use.
* A manifest of a workspace that cannot be parsed is passed over in silence.

Of the analyzers and commands:

* The chain of a reported cycle comes from a depth-first search and need not be minimal
  (`cycles.rs:78`).
* Only forbidden rules are evaluated; required and allow rules are compiled and unused. Tags
  that a file gets by a team or an override are passed to the files that
  come later, and a target has none of its own.
* In `npx a && b` the program `b` is not seen (`script_references_bin` answers at the first
  runner).
* With `--changed-since`, findings about dependencies are always hidden, since a package is no changed path.
* `safe-delete` matches a target as a prefix of findings, but looks up its importers by the
  whole path, and calls a prefix safe. Its order of deletion (`lib.rs:1856`) counts
  importers: of files with more than one, one may go before its importer, against
  "importers first, leaves last". A target asked for twice is to be deleted twice.
* `scan` through a daemon succeeds whatever it finds (`main.rs:396`); a one-shot `scan` fails
  if anything is found (`main.rs:938`). The other queries of the daemon answer without looking at
  the index (`index.rs:378`).
