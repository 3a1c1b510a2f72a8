------------------------------ MODULE HotIndex ------------------------------
(***************************************************************************)
(* The in-memory index of the daemon (crates/pruneguard_daemon/index.rs):  *)
(* a value and the functions that the methods of HotIndex compute on it.   *)
(* The server module owns the only instance, behind one lock.              *)
(*                                                                         *)
(* Data is abstract.  A file is a path with a state: a readable content,   *)
(* Absent, or Unreadable (a source that is not UTF-8, a package.json that  *)
(* does not parse: content on which the graph build returns an error).     *)
(* A loaded configuration is the content it was loaded from, or Absent for *)
(* the default configuration used when there is no file.                   *)
(***************************************************************************)
EXTENDS Naturals, FiniteSets

CONSTANTS
    Inputs,       \* files the graph build reads
    ConfigFile,   \* pruneguard.json
    ConfigLevel,  \* paths whose InvalidationKind requires a full rebuild
    Contents,     \* readable contents of a file
    Absent,       \* the file does not exist
    Unreadable,   \* the file exists and the build or the loader rejects it
    NoBuild       \* HotIndex.build = None

Paths == Inputs \cup {ConfigFile}

(* What a path can hold on disk, and what can end up in memory. *)
FileStates == Contents \cup {Absent, Unreadable}
Loaded == Contents \cup {Absent}

(* GraphBuildResult: what every input held when the build read it, and the *)
(* configuration the build was given.                                      *)
Builds == [files : [Inputs -> Loaded], config : Loaded]

ASSUME HotIndexAssumption ==
    /\ ConfigFile \notin Inputs
    /\ ConfigFile \in ConfigLevel
    /\ Absent \notin Contents
    /\ Unreadable \notin Contents
    /\ Absent # Unreadable
    /\ NoBuild \notin Builds

Indexes ==
    [config : Loaded,
     build : Builds \cup {NoBuild},
     generation : Nat,
     incrementalRebuilds : Nat,
     invalidated : SUBSET Paths,
     configChangePending : BOOLEAN]

(* HotIndex::new *)
NewIndex(config) ==
    [config |-> config,
     build |-> NoBuild,
     generation |-> 0,
     incrementalRebuilds |-> 0,
     invalidated |-> {},
     configChangePending |-> FALSE]

IsWarm(ix) == ix.build # NoBuild

(* Mutant of RequiresFullRebuild: the configuration file is left out. *)
ManifestsOnly(p) == p \in ConfigLevel \ {ConfigFile}

(* InvalidationKind::requires_full_rebuild of the kind of the path *)
RequiresFullRebuild(p) == p \in ConfigLevel

(* Mutants of InvalidateFiles: the list is assigned, not extended; only    *)
(* sources are listed.                                                     *)
AssignInvalidated(ix, files) ==
    [ix EXCEPT
        !.invalidated = files,
        !.configChangePending = @ \/ \E p \in files : RequiresFullRebuild(p)]

ListSourcesOnly(ix, files) ==
    [ix EXCEPT
        !.invalidated = @ \cup {p \in files : ~RequiresFullRebuild(p)},
        !.configChangePending = @ \/ \E p \in files : RequiresFullRebuild(p)]

(* HotIndex::invalidate_files *)
InvalidateFiles(ix, files) ==
    [ix EXCEPT
        !.invalidated = @ \cup files,
        !.configChangePending = @ \/ \E p \in files : RequiresFullRebuild(p)]

(* Mutant of ReloadConfig: whatever is in the file is taken. *)
TakeAnyConfig(ix, onDisk) ==
    IF ix.configChangePending
    THEN [ix EXCEPT !.config = onDisk, !.configChangePending = FALSE]
    ELSE ix

(* The reload at the head of HotIndex::rebuild_changed: a missing or a bad *)
(* file keeps the existing configuration, and the flag is cleared in every *)
(* case, before the build is attempted.                                    *)
ReloadConfig(ix, onDisk) ==
    IF ix.configChangePending
    THEN [ix EXCEPT !.config = IF onDisk \in Contents THEN onDisk ELSE @,
                    !.configChangePending = FALSE]
    ELSE ix

(* The tail of HotIndex::build_initial, after the build succeeded *)
InstallBuild(ix, build) ==
    [ix EXCEPT
        !.build = build,
        !.generation = @ + 1,
        !.incrementalRebuilds = IF ix.generation = 0 THEN @ ELSE @ + 1,
        !.invalidated = {},
        !.configChangePending = FALSE]
=============================================================================
