----------------------------- MODULE Frameworks -----------------------------
(***************************************************************************)
(* The built-in framework packs (pruneguard_frameworks/src/lib.rs): how    *)
(* each is detected in a workspace, and which of its files it starts from. *)
(*                                                                         *)
(* files are those of the workspace, by their paths from its root; they    *)
(* are read from the disk, so that what git ignores is among them.         *)
(***************************************************************************)
EXTENDS Discovery

Path(dir, name) == [dirs |-> dir, name |-> name]
Named(dir, bases, exts) == {Path(dir, Append(b, e)) : b \in bases, e \in exts}

ConfigExts == {"ts", "js", "mjs", "cjs", "mts"}
PlainExts == {"ts", "tsx", "js", "jsx"}
ConfigOf(base) == Named(<<>>, {<<base, "config">>}, ConfigExts)
SourceIndex == Named(<<"src">>, {<<"index">>}, PlainExts)

AnyDep(m) == m.dependencies \cup m.dev_dependencies

(* A pack looks for a dependency of either kind (any), for one of          *)
(* development (dev), and for files.  For its report it looks again, in    *)
(* places that need not be the same.                                       *)
Pack(name, asked, reported, starts) ==
    [name |-> name, asked |-> asked, reported |-> reported, starts |-> starts]
Signs(any, dev, files) == [any |-> any, dev |-> dev, files |-> files]
Starts(files, dirs) == [files |-> files, dirs |-> dirs]

Same(name, signs, starts) == Pack(name, signs, signs, starts)

RouterDeps == {"@tanstack/react-router", "@tanstack/react-start",
               "@tanstack/solid-router", "@remix-run/react",
               "@remix-run/node", "remix", "expo-router", "@solidjs/start"}
RoutesDirs == {<<"src", "routes">>, <<"app", "routes">>}

RootConfigs ==
    Named(<<>>, {<<"content-collections">>, <<"drizzle", "config">>, <<"knexfile">>,
                 <<"tsup", "config">>, <<"esbuild", "config">>,
                 <<"webpack", "config">>, <<"babel", "config">>,
                 <<"commitlint", "config">>, <<"", "lintstagedrc">>,
                 <<"playwright", "config">>, <<"cypress", "config">>,
                 <<"sentry", "client", "config">>,
                 <<"sentry", "server", "config">>}, {"ts", "js"})
    \cup Named(<<>>, {<<"tailwind", "config">>, <<"rollup", "config">>,
                      <<"prettier", "config">>}, {"ts", "js", "mjs"})
    \cup Named(<<>>, {<<"postcss", "config">>, <<"eslint", "config">>},
               {"ts", "js", "mjs", "cjs"})
    \cup Named(<<>>, {<<"", "eslintrc">>, <<"", "prettierrc">>},
               {"js", "cjs", "mjs"})
    \cup Named(<<>>, {<<"release", "config">>}, {"ts", "js", "mts"})
    \cup {Path(<<>>, <<"wrangler", "config", "ts">>), Path(<<>>, <<"wrangler", "toml">>),
          Path(<<>>, <<"sentry", "edge", "config", "ts">>)}
    \cup Named(<<"i18n">>, {<<"request">>}, {"ts", "js"})

NextPack ==
    Pack("next", Signs({"next"}, {}, Named(<<>>, {<<"next", "config">>}, {"js", "mjs", "ts"})),
         Signs({"next"}, {}, ConfigOf("next")),
         Starts(Named(<<>>, {<<"next", "config">>}, {"js", "mjs", "ts"})
                \cup Named(<<>>, {<<"instrumentation">>, <<"middleware">>,
                                  <<"instrumentation-client">>}, {"ts", "js"})
                \cup Named(<<"src">>, {<<"instrumentation">>, <<"middleware">>},
                           {"ts", "js"}),
                {<<"app">>, <<"pages">>}))

VitePack ==
    Pack("vite", Signs({}, {"vite"}, Named(<<>>, {<<"vite", "config">>}, {"ts", "js"})),
         Signs({"vite"}, {}, ConfigOf("vite")),
         Starts(Named(<<>>, {<<"vite", "config">>}, {"ts", "js", "mts"}), {}))

VitestPack ==
    Pack("vitest", Signs({}, {"vitest"}, Named(<<>>, {<<"vitest", "config">>}, {"ts"})),
         Signs({"vitest"}, {}, ConfigOf("vitest")),
         Starts(Named(<<>>, {<<"vitest", "config">>}, {"ts", "js", "mts"}), {}))

JestPack ==
    Pack("jest", Signs({}, {"jest"}, Named(<<>>, {<<"jest", "config">>}, {"js", "ts"})),
         Signs({"jest"}, {}, ConfigOf("jest")),
         Starts(Named(<<>>, {<<"jest", "config">>}, ConfigExts \ {"mts"}), {}))

StorybookPack ==
    Same("storybook", Signs({}, {"storybook", "@storybook/react",
                                 "@storybook/vue3", "@storybook/angular"}, {}),
         Starts(Named(<<".storybook">>, {<<"main">>, <<"preview">>}, PlainExts), {}))

FileRoutingPack ==
    Same("file-routing", Signs(RouterDeps, {}, {}),
         Starts(Named(<<"src">>, {<<"routeTree", "gen">>}, {"ts", "tsx"})
                \cup Named(<<"src">>, {<<"router">>}, {"ts", "tsx", "js"})
                \cup Named(<<"app">>, {<<"client">>, <<"server">>, <<"router">>,
                                       <<"ssr">>, <<"root">>, <<"entry", "client">>,
                                       <<"entry", "server">>}, {"tsx"}),
                RoutesDirs))

RootConfigPack ==
    Same("root-config", Signs({}, {}, {}), Starts(RootConfigs, {}))

NuxtPack ==
    Same("nuxt", Signs({"nuxt"}, {}, ConfigOf("nuxt")),
         Starts(ConfigOf("nuxt") \cup {Path(<<>>, <<"app", "vue">>)},
                {<<"pages">>, <<"layouts">>, <<"middleware">>, <<"plugins">>,
                 <<"server", "api">>, <<"server", "routes">>,
                 <<"server", "middleware">>}))

AstroPack ==
    Same("astro", Signs({"astro"}, {}, ConfigOf("astro")),
         Starts(ConfigOf("astro")
                \cup Named(<<"src">>, {<<"middleware">>}, {"ts", "js", "mts", "mjs"})
                \cup Named(<<"src", "content">>, {<<"config">>}, {"ts", "js", "mts"}),
                {<<"src", "pages">>}))

SvelteKitPack ==
    Same("sveltekit", Signs({"@sveltejs/kit"}, {}, ConfigOf("svelte")),
         Starts(ConfigOf("svelte")
                \cup Named(<<"src">>, {<<"hooks", "server">>, <<"hooks", "client">>,
                                       <<"service-worker">>}, {"ts", "js"}), {}))

RemixPack ==
    Same("remix", Signs({"@remix-run/dev", "remix"}, {}, {}),
         Starts(Named(<<"app">>, {<<"root">>, <<"entry", "client">>,
                                  <<"entry", "server">>}, PlainExts),
                {<<"app", "routes">>}))

NxPack ==
    Same("nx", Signs({"nx"}, {}, {Path(<<>>, <<"nx", "json">>)}),
         Starts({Path(<<>>, <<"nx", "json">>), Path(<<>>, <<"project", "json">>)}, {}))

TurboPack ==
    Same("turborepo", Signs({}, {"turbo"}, {Path(<<>>, <<"turbo", "json">>)}),
         Starts({Path(<<>>, <<"turbo", "json">>)}, {}))

AngularPack ==
    Same("angular", Signs({"@angular/core"}, {}, {Path(<<>>, <<"angular", "json">>)}),
         Starts({Path(<<>>, <<"angular", "json">>),
                 Path(<<"src">>, <<"main", "ts">>), Path(<<"src">>, <<"polyfills", "ts">>),
                 Path(<<"src", "app">>, <<"app", "module", "ts">>),
                 Path(<<"src", "app">>, <<"app", "component", "ts">>)}, {}))

RspackPack ==
    Same("rspack", Signs({"@rspack/core"}, {}, ConfigOf("rspack")),
         Starts(ConfigOf("rspack") \cup SourceIndex, {}))

RsbuildPack ==
    Same("rsbuild", Signs({"@rsbuild/core"}, {}, ConfigOf("rsbuild")),
         Starts(ConfigOf("rsbuild") \cup SourceIndex, {}))

RollupPack ==
    Pack("rollup", Signs({}, {"rollup"}, ConfigOf("rollup")),
         Signs({"rollup"}, {}, ConfigOf("rollup")),
         Starts(ConfigOf("rollup") \cup SourceIndex, {}))

GatsbyPack ==
    Same("gatsby", Signs({"gatsby"}, {}, Named(<<>>, {<<"gatsby-config">>}, ConfigExts)),
         Starts(Named(<<>>, {<<"gatsby-config">>, <<"gatsby-node">>,
                             <<"gatsby-browser">>, <<"gatsby-ssr">>}, ConfigExts),
                {<<"src", "pages">>, <<"src", "templates">>}))

PlaywrightPack ==
    Pack("playwright", Signs({}, {"@playwright/test"}, ConfigOf("playwright")),
         Signs({"@playwright/test"}, {}, ConfigOf("playwright")),
         Starts(ConfigOf("playwright"), {}))

CypressPack ==
    Pack("cypress", Signs({}, {"cypress"}, ConfigOf("cypress")),
         Signs({"cypress"}, {}, ConfigOf("cypress")),
         Starts(ConfigOf("cypress"), {<<"cypress", "e2e">>}))

VitePressPack ==
    LET configs == Named(<<".vitepress">>, {<<"config">>}, ConfigExts) IN
    Same("vitepress", Signs({}, {"vitepress"}, configs),
         Starts(configs, {<<".vitepress", "theme">>}))

DocusaurusPack ==
    Same("docusaurus", Signs({"@docusaurus/core"}, {}, ConfigOf("docusaurus")),
         Starts(ConfigOf("docusaurus"), {<<"src", "pages">>, <<"src", "theme">>}))

TriggerDevPack ==
    Same("trigger-dev", Signs({"@trigger.dev/sdk"}, {}, ConfigOf("trigger")),
         Starts(ConfigOf("trigger") \ {Path(<<>>, <<"trigger", "config", "cjs">>)},
                {<<"trigger">>}))

BuiltInPacks ==
    <<NextPack, VitePack, VitestPack, JestPack, StorybookPack, FileRoutingPack,
      RootConfigPack, NuxtPack, AstroPack, SvelteKitPack, RemixPack, NxPack,
      TurboPack, AngularPack, RspackPack, RsbuildPack, RollupPack, GatsbyPack,
      PlaywrightPack, CypressPack, VitePressPack, DocusaurusPack, TriggerDevPack>>

-----------------------------------------------------------------------------
(* Detection.  A directory exists when a file is inside.                   *)

HasDep(signs, m) == AnyDep(m) \cap signs.any # {} \/ m.dev_dependencies \cap signs.dev # {}

HasConfig(pack, signs, files) ==
    IF pack.name = "storybook" THEN \E f \in files : Inside(f, <<".storybook">>)
    ELSE signs.files \cap files # {}

(* A directory of routes next to a router that need not be file-based *)
ConventionalRoutes(m, files) ==
    /\ \E dir \in RoutesDirs : \E f \in files : Inside(f, dir)
    /\ {"react-router", "react-router-dom", "vue-router"} \cap AnyDep(m) # {}

Detect(pack, m, files) ==
    \/ pack.name = "root-config"
    \/ HasDep(pack.asked, m)
    \/ HasConfig(pack, pack.asked, files)
    \/ pack.name = "file-routing" /\ ConventionalRoutes(m, files)

DetectDetailed(pack, m, files) ==
    LET dep == HasDep(pack.reported, m)
        config == HasConfig(pack, pack.reported, files)
        conventional == pack.name = "file-routing" /\ ConventionalRoutes(m, files)
    IN IF pack.name = "root-config" THEN "exact"
       ELSE IF ~dep /\ ~config /\ ~conventional THEN None
       ELSE IF dep /\ (config \/ pack.name \in {"file-routing", "remix"})
       THEN "exact" ELSE "heuristic"

DetectAllFrameworks(m, files) ==
    LET found(pack) == DetectDetailed(pack, m, files) IN
    {[name |-> p.name, confidence |-> found(p)] :
        p \in {q \in ToSet(BuiltInPacks) : found(q) # None}}

(* The packs that warn of what they cannot see, and of what it affects *)
TrustNotes(m, files) ==
    LET active == {p.name : p \in {q \in ToSet(BuiltInPacks) : Detect(q, m, files)}} IN
    {[affects |-> "all", of |-> n] : n \in active \cap {"file-routing", "angular"}}
    \cup {[affects |-> "all", of |-> n] : n \in {x \in active \cap {"turborepo"} :
                                Path(<<>>, <<"turbo", "json">>) \in files}}
    \cup {[affects |-> "entrypoints", of |-> n] : n \in active \cap {"nuxt"}}
    \cup {[affects |-> "entrypoints", of |-> n] : n \in {x \in active \cap {"nx"} :
                                Path(<<>>, <<"nx", "json">>) \in files}}

-----------------------------------------------------------------------------
(* Entrypoints *)

NotForStories == {"node_modules", ".git", "dist", ".next", ".storybook",
                  "storybook-static"}

IsStoryFile(f) == /\ NameHas(f, {"stories", "story"})
                  /\ IsTrackedSource(f)
                  /\ ~Within(f, NotForStories)

IsRouteFile(f) == /\ Inside(f, <<"src", "routes">>)
                  /\ f.name[1] \in {"+page", "+layout", "+server", "+error"}

(* The specifications of end-to-end tests, and the support files of        *)
(* another tool, are looked for by these packs alone.                      *)
FoundByPack(pack, f) ==
    CASE pack.name = "storybook" -> IsStoryFile(f)
      [] pack.name = "sveltekit" -> IsRouteFile(f)
      [] pack.name = "playwright" -> At(f, {"e2e", "tests"}) /\ NameHas(f, {"spec"})
      [] pack.name = "cypress" -> /\ f.dirs = <<"cypress", "support">>
                                  /\ IsTrackedSource(f)
      [] OTHER -> FALSE

PackEntrypoints(pack, files) ==
    (pack.starts.files \cap files)
    \cup {f \in files : /\ \E dir \in pack.starts.dirs : Inside(f, dir)
                        /\ IsTrackedSource(f)}
    \cup {f \in files : FoundByPack(pack, f)}

AutoLoaded(pack, files) ==
    {f \in files :
        CASE pack.name = "next" ->
                f.dirs = <<>> /\ f.name[1] \in {"middleware", "instrumentation"}
          [] pack.name = "vitest" ->
                NameHas(f, {"test", "spec"}) \/ Within(f, {"__tests__"})
          [] pack.name = "nuxt" -> At(f, {"composables", "utils", "plugins"})
          [] pack.name = "sveltekit" ->
                /\ f.dirs = <<>> /\ Len(f.name) > 2
                /\ f.name[1] = "hooks" /\ f.name[2] \in {"server", "client"}
          [] OTHER -> FALSE}

(* The packs of a workspace, as detect_entrypoints asks them *)
PacksOf(m, files) ==
    [i \in DOMAIN BuiltInPacks |->
        [name |-> BuiltInPacks[i].name,
         detect |-> Detect(BuiltInPacks[i], m, files),
         entrypoints |-> PackEntrypoints(BuiltInPacks[i], files),
         auto_loaded |-> AutoLoaded(BuiltInPacks[i], files)]]
=============================================================================
