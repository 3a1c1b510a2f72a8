------------------------------- MODULE Config -------------------------------
(***************************************************************************)
(* Finding, loading and extending a configuration (config.rs, merge.rs).   *)
(*                                                                         *)
(* The disk maps the names of files to their texts: Malformed, or a        *)
(* record [extends, lists, sections, rules, frameworks, own].  A section,  *)
(* rules or frameworks that the file does not have is None.                *)
(***************************************************************************)
EXTENDS Naturals, Sequences, FiniteSets

CONSTANT None

Malformed == [malformed |-> TRUE]

(* The fields, by what becomes of them when a base is merged; a toggle     *)
(* that is not among Toggles is only inherited with the whole section.     *)
Lists == {"ignorePatterns", "overrides", "ignoreIssues"}
Sections == {"workspaces", "ownership"}
RuleLists == {"forbidden", "required", "allow"}
Toggles == {"next", "vite", "vitest", "jest", "storybook", "nuxt", "astro",
            "sveltekit", "remix", "angular", "nx", "turborepo", "playwright",
            "cypress", "vitepress", "docusaurus"}
UnmergedToggles == {"vue", "svelte", "babel", "tanstack_router", "vike",
                    "rslib", "playwright_ct", "playwright_test", "nitro",
                    "react_router", "rsbuild", "parcel", "qwik", "trigger_dev"}

(* The defaults of the sections that a base never changes *)
DefaultResolver == [tsconfig |-> {}, conditions |-> {}, extensions |-> {},
                    respect_exports |-> TRUE, preserve_symlinks |-> FALSE,
                    detect |-> {"require_resolve", "import_meta_resolve",
                        "import_meta_glob", "require_context",
                        "url_constructor", "jsdoc_imports", "triple_slash",
                        "import_equals", "type_imports", "webpack_aliases",
                        "babel_aliases"}]
DefaultEntrypoints == [auto |-> TRUE, include |-> {}, exclude |-> {},
                       include_tests |-> FALSE, include_stories |-> FALSE,
                       include_entry_exports |-> FALSE]
DefaultAnalysis == [severity |-> "warn", ignore_exports_used_in_file |-> FALSE,
                    ignore_members |-> {}, public_tag_names |-> {},
                    member_write_only_is_unused |-> TRUE]
DefaultSemantic == [mode |-> "auto", max_cold_overhead_pct |-> 20,
                    max_files_per_query_batch |-> 128, max_project_refs |-> 8,
                    max_helper_wall_ms |-> 1200, min_uncertainty_score |-> 60]

DefaultConfig ==
    [extends |-> <<>>, lists |-> [f \in Lists |-> <<>>],
     sections |-> [f \in Sections |-> None], rules |-> None,
     frameworks |-> None,
     own |-> [resolver |-> DefaultResolver, entrypoints |-> DefaultEntrypoints,
              analysis |-> DefaultAnalysis, semantic |-> DefaultSemantic]]

-----------------------------------------------------------------------------
(* merge_from *)

OrBase(self, base) == IF self = None THEN base ELSE self

MergedFrameworks(self, base) ==
    IF None \in {self, base} THEN OrBase(self, base)
    ELSE [t \in DOMAIN self |-> IF t \in Toggles THEN OrBase(self[t], base[t])
                                ELSE self[t]]

MergedRules(self, base) ==
    IF None \in {self, base} THEN OrBase(self, base)
    ELSE [l \in RuleLists |-> base[l] \o self[l]]

(* Mutant of Merged: the base comes after the file that extends it. *)
MergedLastWins(self, base) ==
    [self EXCEPT
        !.lists = [f \in Lists |-> base.lists[f] \o self.lists[f]],
        !.sections = [f \in Sections |-> OrBase(base.sections[f], @[f])],
        !.rules = MergedRules(self.rules, base.rules),
        !.frameworks = MergedFrameworks(self.frameworks, base.frameworks)]

Merged(self, base) ==
    [self EXCEPT
        !.lists = [f \in Lists |-> base.lists[f] \o self.lists[f]],
        !.sections = [f \in Sections |-> OrBase(@[f], base.sections[f])],
        !.rules = MergedRules(self.rules, base.rules),
        !.frameworks = MergedFrameworks(self.frameworks, base.frameworks)]

-----------------------------------------------------------------------------
(* load *)

Loaded(config) == [error |-> None, config |-> config]
Failed(error) == [error |-> error]

(* One file, given what loading each of its bases gives: the bases are     *)
(* merged in their order, up to the first that cannot be loaded.           *)
LoadFile(text, base) ==
    IF text = None THEN Failed("read")
    ELSE IF text = Malformed THEN Failed("parse")
    ELSE LET sofar[i \in 0..Len(text.extends)] ==
                IF i = 0 THEN Loaded([text EXCEPT !.extends = <<>>])
                ELSE LET next == base[text.extends[i]] IN
                     IF sofar[i - 1].error # None THEN sofar[i - 1]
                     ELSE IF next.error # None THEN next
                     ELSE Loaded(Merged(sofar[i - 1].config, next.config))
         IN sofar[Len(text.extends)]

(* A chain of bases that is longer than there are files never ends.        *)
LoadNamed(disk, name) ==
    LET load[depth \in 0..(Cardinality(DOMAIN disk) + 1)] ==
            [n \in DOMAIN disk |->
                IF depth = 0 THEN Failed("endless")
                ELSE LoadFile(disk[n], load[depth - 1])]
    IN load[Cardinality(DOMAIN disk) + 1][name]

ConfigFiles == <<"pruneguard.json", ".pruneguardrc.json">>

(* find_config: the first of the two names in the directory *)
FindConfig(disk) ==
    LET there == {i \in DOMAIN ConfigFiles : disk[ConfigFiles[i]] # None} IN
    IF there = {} THEN None
    ELSE ConfigFiles[CHOOSE i \in there : \A j \in there : i <= j]

(* load, and load_config_or_default of main.rs: only a configuration that  *)
(* was not named may be missing.                                           *)
LoadConfig(disk, explicit) ==
    LET name == IF explicit = None THEN FindConfig(disk) ELSE explicit IN
    IF name = None THEN Failed("not_found") ELSE LoadNamed(disk, name)

LoadConfigOrDefault(disk, explicit) ==
    LET loaded == LoadConfig(disk, explicit) IN
    IF loaded.error = "not_found" THEN Loaded(DefaultConfig) ELSE loaded

(* init writes a new configuration, over one that is there.                *)
InitConfig(disk) == [disk EXCEPT !["pruneguard.json"] = DefaultConfig]
=============================================================================
