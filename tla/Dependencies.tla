---------------------------- MODULE Dependencies ----------------------------
(***************************************************************************)
(* Declared dependencies that nothing uses, used ones that nothing         *)
(* declares, and packages without a reachable file                         *)
(* (unused_dependencies.rs, unused_packages.rs).                           *)
(*                                                                         *)
(* The names in a manifest are records here, [text, scope, parts, shape,   *)
(* bin]: "@a/b-c" has the scope "a", the parts <<"b", "c">> and "b-c" for  *)
(* bin.  shape tells what a specifier that is not the name of a package    *)
(* looks like.  Words of a script have, over those of Entrypoints, the     *)
(* package their path starts with.                                         *)
(***************************************************************************)
EXTENDS Entrypoints

(* FileRole and the path of a file decide whether its imports count.       *)
IsDocs(p) == At(p, {"docs"})
IsTestFixture(p) ==
    \/ Within(p, {"__fixtures__", "__mocks__"})
    \/ Below(p, {"__fixture__", "fixtures", "snapshots", "test-files"})
Counts(f) == ~IsDocs(f.path) /\ ~IsTestFixture(f.path) /\ f.workspace # None

(* Imports of reachable files, and of style sheets (which build.styles     *)
(* gives by workspace)                                                     *)
UsedInProduction(build, w) ==
    (UNION {f.dependencies : f \in {g \in build.files :
        /\ Counts(g) /\ g.workspace = w
        /\ ~ExcludedFromDeadCode(g.role) /\ ~IsDevelopmentOnly(g.role)
        /\ g.path \in build.reachable_prod}})
    \cup build.styles[w]

(* Mutant of UsedInDevelopment: configuration files are left out with the  *)
(* rest of what is not analysed for dead code.                             *)
UsedByReachedOnly(build, w) ==
    (UNION {f.dependencies : f \in {g \in build.files :
        /\ Counts(g) /\ g.workspace = w
        /\ ~ExcludedFromDeadCode(g.role) /\ g.path \in build.reachable_dev}})
    \cup build.tsconfig_extends[w]

(* Imports of reachable files, of files that are never asked about, and    *)
(* what a tsconfig extends                                                 *)
UsedInDevelopment(build, w) ==
    (UNION {f.dependencies : f \in {g \in build.files :
        /\ Counts(g) /\ g.workspace = w
        /\ ExcludedFromDeadCode(g.role) \/ g.path \in build.reachable_dev}})
    \cup build.tsconfig_extends[w]

(* The package that a style sheet or a tsconfig names *)
PackagesOf(specifiers) ==
    {s.package : s \in {t \in specifiers : ~t.relative /\ ~t.url}}

-----------------------------------------------------------------------------
(* The tables of names *)

NodeBuiltins ==
    {"node", "assert", "async_hooks", "buffer", "child_process", "cluster",
     "console", "constants", "crypto", "dgram", "diagnostics_channel", "dns",
     "domain", "events", "fs", "http", "http2", "https", "inspector", "module",
     "net", "os", "path", "perf_hooks", "process", "punycode", "querystring",
     "readline", "repl", "stream", "string_decoder", "sys", "test", "timers",
     "tls", "trace_events", "tty", "url", "util", "v8", "vm", "wasi",
     "worker_threads", "zlib"}

AliasScopes ==
    {"app", "lib", "src", "root", "server", "client", "components", "utils",
     "hooks", "features", "modules", "assets", "styles", "images", "config",
     "constants", "services", "store", "api", "pages", "layouts", "shared",
     "common", "core", "ui", "design-system", "routes", "auth", "views",
     "helpers", "types", "models", "middleware", "plugins", "test", "tests",
     "e2e", "fixtures", "mocks", "vendor", "public", "static", "theme", "i18n",
     "locales", "state", "actions", "reducers", "selectors", "contexts",
     "providers", "schemas", "dto", "entities", "repositories", "controllers",
     "guards", "interceptors", "pipes", "decorators", "directives"}

(* shape is one of package, subpath, alias, pascal-case, relative,         *)
(* protocol, query, loader, css-module, asset, code.                       *)
LooksLikeNpmPackage(d) ==
    /\ d.shape = "package"
    /\ d.scope # None => d.parts # <<>> /\ d.scope \notin AliasScopes

MatchesConfiguredAlias(d, prefixes) ==
    \E prefix \in prefixes : \/ d.text = prefix
                             \/ d.scope # None /\ "@" \o d.scope = prefix

ToolScopes == {"types", "eslint", "eslint-react", "typescript-eslint",
               "storybook", "opentelemetry", "commitlint", "semantic-release"}
ToolPrefixes == {<<"postcss">>, <<"webpack">>, <<"stylelint">>,
                 <<"commitlint">>, <<"eslint", "plugin">>,
                 <<"eslint", "config">>, <<"prettier", "plugin">>,
                 <<"babel", "plugin">>, <<"rollup", "plugin">>,
                 <<"semantic", "release">>}
ScopedToolPrefixes == {<<"next", "eslint", "plugin">>, <<"babel", "plugin">>,
                       <<"babel", "preset">>, <<"rollup", "plugin">>}
Tools ==
    {"typescript", "postcss", "autoprefixer", "tailwindcss",
     "@tailwindcss/typography", "@tailwindcss/forms",
     "@tailwindcss/container-queries", "@tailwindcss/vite",
     "@tailwindcss/postcss", "cssnano", "sass", "less", "lightningcss",
     "@vitejs/plugin-react", "@vitejs/plugin-react-swc", "@vitejs/plugin-vue",
     "vite-tsconfig-paths", "vite-plugin-dts", "@tanstack/config",
     "@tanstack/router-plugin", "@tanstack/router-vite-plugin",
     "@content-collections/core", "@content-collections/vite",
     "@content-collections/next", "@next/bundle-analyzer",
     "@sentry/esbuild-plugin", "@sentry/nextjs", "esbuild", "swc", "@swc/core",
     "@swc/cli", "terser", "rollup", "webpack", "webpack-cli",
     "webpack-dev-server", "vitest", "mocha", "ava", "tape", "uvu", "jest",
     "@playwright/test", "playwright", "cypress", "@cypress/code-coverage",
     "c8", "nyc", "istanbul", "@vitest/browser", "@vitest/ui",
     "@vitest/coverage-v8", "@vitest/coverage-istanbul", "jsdom", "happy-dom",
     "@testing-library/jest-dom", "eslint", "prettier", "stylelint", "oxlint",
     "biome", "@biomejs/biome", "lint-staged", "husky", "simple-git-hooks",
     "lefthook", "tsx", "ts-node", "tsm", "nodemon", "concurrently", "wait-on",
     "npm-run-all", "npm-run-all2", "cross-env", "dotenv-cli", "env-cmd",
     "rimraf", "del-cli", "shx", "turbo", "lerna", "tsup", "tsdown", "unbuild",
     "typedoc", "jsdoc", "publint", "@arethetypeswrong/cli", "changesets",
     "@changesets/cli", "@changesets/changelog-github", "standard-version",
     "release-it", "np", "semantic-release", "vibe-rules", "autocannon",
     "@platformatic/flame"}

ProperPrefix(s, t) == IsPrefix(s, t) /\ s # t

IsBuildTool(d) ==
    \/ d.text \in Tools
    \/ d.scope \in ToolScopes
    \/ \E p \in ToolPrefixes : d.scope = None /\ ProperPrefix(p, d.parts)
    \/ \E p \in ScopedToolPrefixes :
            d.scope = Head(p) /\ ProperPrefix(Tail(p), d.parts)
    \/ ProperPrefix(<<"prettier", "plugin">>, d.parts)
    \/ /\ Last(d.parts) = "parser"
       /\ Len(d.parts) > 1
       /\ {"eslint", "vue", "babel"} \cap ({d.scope} \cup ToSet(d.parts)) # {}
    \/ Last(d.parts) = "loader" /\ Len(d.parts) > 1

(* What a package needs without importing it, once one of the others is    *)
(* declared                                                                *)
ImpliedBy(text) ==
    CASE text = "react-dom" -> {"react", "next", "@tanstack/react-start"}
      [] text = "react" -> {"react-dom", "next", "@tanstack/react-start",
                            "@tanstack/react-router"}
      [] text = "solid-js" -> {"@solidjs/router", "@tanstack/solid-router",
                               "@tanstack/solid-start"}
      [] text = "vue" -> {"@tanstack/vue-router", "nuxt",
                          "@tanstack/vue-start", "@vitejs/plugin-vue"}
      [] text = "svelte" -> {"@sveltejs/kit"}
      [] text = "isbot" -> {"@tanstack/" \o f \o k : f \in {"react", "solid", "vue"},
                                        k \in {"-start", "-router"}}
      [] OTHER -> {}

IsFrameworkImplicit(d, m) ==
    ImpliedBy(d.text) \cap {e.text : e \in m.dependencies
                    \cup m.dev_dependencies \cup m.peer_dependencies} # {}

-----------------------------------------------------------------------------
(* Whether one command of a script calls a program: "yes"; "no" also ends  *)
(* the search in the commands that follow it; "next" goes on to them.      *)
Calls(command, bin) ==
    LET first == command[1].word
        n == Len(command)
        program == AfterFlags(command, 2, {}, {})
        subcommand == AfterFlags(command, 2, PackageFlags, {})
        argument == AfterFlags(command, subcommand + 1, {}, {})
        asked(i) == IF i > n THEN "next"
                    ELSE IF command[i].word = bin THEN "yes" ELSE "no"
    IN IF \/ \E i \in 1..n : /\ command[i].path # None
                             /\ IsSuffix(<<"node_modules", ".bin">>,
                                         command[i].path.dirs)
                             /\ command[i].path.name[1] = bin
          \/ first = bin
       THEN "yes"
       ELSE IF first \in {"npx", "bunx", "tsx", "ts-node", "tsm"}
       THEN asked(program)
       ELSE IF first \in {"pnpm", "yarn", "npm", "bun"} /\ subcommand <= n
       THEN IF command[subcommand].word \in {"exec", "run", "dlx", "x"}
            THEN asked(argument)
            ELSE IF command[subcommand].word = bin THEN "yes" ELSE "next"
       ELSE IF /\ first = "node"
               /\ \E i \in 2..n :
                    \/ /\ command[i].word \in ModuleFlags /\ i < n
                       /\ command[i + 1].package = bin
                    \/ /\ command[i].word \in {"--require=", "-r="}
                       /\ command[i].package = bin
       THEN "yes" ELSE "next"

ScriptReferences(script, bin) ==
    LET calls == [i \in DOMAIN script.commands |-> Calls(script.commands[i], bin)]
        ends == {i \in DOMAIN calls : calls[i] # "next"}
    IN ends # {} /\ calls[CHOOSE i \in ends : \A j \in ends : i <= j] = "yes"

(* By its own name and, in a scope, by the name in the scope *)
ScriptsReference(m, d) ==
    \E i \in DOMAIN m.scripts, bin \in {d.text, d.bin} :
        ScriptReferences(m.scripts[i], bin)

-----------------------------------------------------------------------------
(* Kind and use of each declared dependency: those of development are only *)
(* looked at when the profile is not production.                           *)
Declared(m, profile, prod, dev) ==
    LET used(d) == d \in prod \/ (profile # "production" /\ d \in dev)
        of(deps, kind) == {[name |-> d, kind |-> kind, used |-> used(d)] : d \in deps}
    IN of(m.dependencies, "dependency")
       \cup of(m.peer_dependencies, "peer dependency")
       \cup of(m.optional_dependencies, "optional dependency")
       \cup IF profile = "production" THEN {}
            ELSE of(m.dev_dependencies, "dev dependency")

(* build.unresolved counts, for a workspace, the specifiers that are not   *)
(* resolved, and of them those that need not be.                           *)
OnlyScriptEntrypoints(build, w) ==
    LET own == {s \in build.seeds : s.workspace = w} IN
    own # {} /\ \A s \in own : s.kind = "script"

ConfidenceOf(build, w, kind) ==
    LET unresolved == build.unresolved[w].all - build.unresolved[w].benign IN
    IF \/ unresolved > 8
       \/ OnlyScriptEntrypoints(build, w)
       \/ unresolved > 3 /\ kind = "peer dependency"
    THEN "low" ELSE "medium"

IsWorkspacePackage(d, workspaces) ==
    \E w \in workspaces : w.manifest.name = d.text

UnusedDependencies(build, profile) ==
    UNION {{[code |-> "unused-dependency", workspace |-> w.name,
             name |-> d.name, kind |-> d.kind,
             confidence |-> ConfidenceOf(build, w.name, d.kind)] :
            d \in {e \in Declared(w.manifest, profile,
                                  UsedInProduction(build, w.name),
                                  UsedInDevelopment(build, w.name)) :
                /\ ~e.used
                /\ ~IsBuildTool(e.name)
                /\ ~IsFrameworkImplicit(e.name, w.manifest)
                /\ ~IsWorkspacePackage(e.name, build.workspaces)
                /\ ~ScriptsReference(w.manifest, e.name)}} :
        w \in build.workspaces}

UnlistedDependencies(build) ==
    UNION {{[code |-> "unlisted-dependency", workspace |-> w.name, name |-> d,
             confidence |-> "medium"] :
            d \in {e \in UsedInProduction(build, w.name)
                         \cup UsedInDevelopment(build, w.name) :
                /\ e \notin DependencyNames(w.manifest)
                /\ e.text \notin NodeBuiltins
                /\ ~IsWorkspacePackage(e, build.workspaces)
                /\ ~IsBuildTool(e)
                /\ ~MatchesConfiguredAlias(e, build.alias_prefixes)
                /\ LooksLikeNpmPackage(e)}} :
        w \in build.workspaces}

-----------------------------------------------------------------------------
(* unused_packages.rs; reachable are the files of the profile.             *)
UnusedPackages(build, reachable, profile) ==
    LET asked == {f \in build.files :
                    /\ ~ExcludedFromDeadCode(f.role) /\ ~IsDocs(f.path)
                    /\ profile = "production" => ~IsDevelopmentOnly(f.role)}
        candidates == {f.workspace : f \in asked}
                      \cup {s.workspace : s \in ForProfile(build.seeds, profile)}
        reached == {f.workspace : f \in {g \in asked : g.path \in reachable}}
    IN {w \in build.workspaces : w.name \in candidates \ reached}
=============================================================================
