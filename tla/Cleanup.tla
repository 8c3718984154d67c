------------------------------ MODULE Cleanup ------------------------------
(***************************************************************************)
(* scripts/cleanup.js, the tool inherited from the dashboard starter that  *)
(* strips optional features from the working tree, run in this repository. *)
(*                                                                         *)
(* A run works through a program of small writes fixed by its command line *)
(* and may die before any of them: interrupted, out of disk space, or left *)
(* waiting at its prompt. Paths, urls and dependencies are those of this   *)
(* repository; what the tool names and the repository does not hold is     *)
(* left out, and of the eleven themes two are kept.                        *)
(***************************************************************************)
EXTENDS Naturals, FiniteSets, SequencesExt

CONSTANTS
    Removable,  \* the features a command line may name
    MaxNamed,   \* bound: features named in one command line
    MaxRuns,    \* bound: runs that change the tree, to the end
    MaxDeaths   \* bound: such runs that die

\* A feature as FEATURES describes it: the folders and files to delete,
\* the dependencies, the environment variables and the navigation urls.
Feature(folders, files, deps, vars, urls) ==
    [folders |-> folders, files |-> files, deps |-> deps, vars |-> vars,
     urls |-> urls]

FeatureNames == {"clerk", "kanban", "chat", "ai-chat", "notifications", "themes", "sentry"}

FEATURES ==
    [f \in FeatureNames |->
       CASE f = "clerk" ->
              Feature({"app/auth"}, {}, {"@clerk/nextjs"}, {"CLERK_KEY"},
                      {"/workspaces", "/billing"})
         [] f = "kanban" ->
              Feature({"app/kanban", "features/kanban"}, {"ui/kanban"},
                      {"@dnd-kit"}, {}, {"/kanban"})
         [] f = "chat" ->
              Feature({"app/chat", "features/chat"}, {"ui/file-preview"}, {}, {},
                      {"/chat"})
         [] f = "ai-chat" ->
              Feature({"app/ai-chat", "features/ai-chat"}, {},
                      {"ai", "@ai-sdk/react", "@shadcn/helpers"}, {}, {"/ai-chat"})
         [] f = "notifications" ->
              Feature({"app/notifications", "features/notifications"},
                      {"ui/notification-card"}, {}, {}, {"/notifications"})
         [] f = "themes" -> Feature({}, {}, {}, {}, {})
         [] f = "sentry" ->
              Feature({}, {"instrumentation", "instrumentation-client"},
                      {"@sentry/nextjs"}, {"SENTRY_DSN"}, {})]

AllFeatures ==
    <<"clerk", "kanban", "chat", "ai-chat", "notifications", "themes",
      "sentry">>

\* A command line that names anything else is refused.
ASSUME CleanupAssumption == Removable \subseteq FeatureNames /\ MaxNamed \in Nat

Paths(F) == UNION {FEATURES[f].folders \cup FEATURES[f].files : f \in F}
Urls(F) == UNION {FEATURES[f].urls : f \in F}

CONDITIONAL_DEPS == {"zustand", "motion", "uuid"}
\* The source paths that import each optional dependency.
Importers ==
    [d \in CONDITIONAL_DEPS \cup UNION {FEATURES[f].deps : f \in FeatureNames} |->
       CASE d = "zustand" -> {"features/kanban", "features/notifications"}
         [] d = "motion" -> {"features/chat"}
         [] d = "uuid" -> {"features/kanban"}
         [] d = "@dnd-kit" -> {"ui/kanban", "features/kanban"}
         [] d \in {"ai", "@ai-sdk/react", "@shadcn/helpers"} -> {"features/ai-chat"}
         [] d = "@sentry/nextjs" ->
              {"instrumentation", "instrumentation-client", "overview/error"}
         [] OTHER -> {}]
\* One of them goes with no feature; Sentry's templates bring one in its place for
\* @bar_stats, where this repository has none.
Remaining == {"overview/error"}

\* Theme files, with the font variables each refers to.
Themes == {"vercel", "zen"}
FontsOf ==
    [t \in Themes |->
       IF t = "zen" THEN {"inter", "jetbrains-mono", "playfair-display"} ELSE {}]
AlwaysKeptFonts == {"font-sans", "font-mono"}
SelectorPath == "themes/theme-selector"

\* Environment variables a developer's .env may hold.
EnvVars == {"CLERK_KEY", "SENTRY_DSN"}
NoFile == << >>

\* The features of DOC_RULES with an anchor that this repository's docs match, and
\* the line of the log for each.
Documented == {"clerk", "sentry"}
DocsLine(f) == IF f = "clerk" THEN "docs of clerk" ELSE "docs of sentry"

VARIABLES
    repo,       \* the working tree, see InitialRepo
    env,        \* variables in the untracked .env
    backup,     \* <<those in .env.cleanup-backup>>, or NoFile
    run,        \* the run under way, or Idle
    \* history, for the properties
    runs,       \* runs that changed the tree, to the end
    deaths,     \* and those that did not get there
    stripped,   \* the features of the former
    relinked,   \* whether Clerk was stripped after notifications
    pending,    \* features of dead runs not stripped by a whole run since
    scars,      \* windows in which a run died
    owned,      \* variables .env held before there was a backup
    forecast,   \* the command line and the report of a dry run just made
    surprises   \* whether a real run did what its dry run had not said
history == <<runs, deaths, stripped, relinked, pending, scars, owned, forecast,
             surprises>>
vars == <<repo, env, backup, run, history>>

InitialRepo ==
    [tree |-> Paths(DOMAIN FEATURES) \cup Themes \cup {SelectorPath},
     pkg |-> CONDITIONAL_DEPS
               \cup {"@dnd-kit", "ai", "@ai-sdk/react", "@shadcn/helpers",
                     "@sentry/nextjs"},
     nav |-> {"/overview", "/chat"},                  \* nav-config.ts
     links |-> {"/overview", "/kanban", "/chat"},     \* notification centre
     menu |-> {},                                     \* app-sidebar.tsx
     hosts |-> FALSE,            \* Clerk's image hosts in next.config.ts
     header |-> {"NotificationCenter", "ThemeSelector"},
     imports |-> Themes,         \* theme.css
     config |-> Themes,          \* theme.config.ts
     fonts |-> AlwaysKeptFonts \cup UNION {FontsOf[t] : t \in Themes},
     docs |-> Documented]

Idle == [features |-> << >>, dry |-> FALSE, keep |-> "", todo |-> << >>,
         report |-> {}]
NoForecast == [features |-> << >>, report |-> {}]

Init ==
    /\ repo = InitialRepo
    /\ env = {"SENTRY_DSN"} /\ backup = NoFile
    /\ run = Idle
    /\ runs = 0 /\ deaths = 0 /\ stripped = {} /\ pending = {} /\ scars = {}
    /\ relinked = FALSE
    /\ owned = env /\ forecast = NoForecast /\ surprises = {}

-----------------------------------------------------------------------------
(* The command line and the order of a run.                                *)

Op(op, arg) == [op |-> op, arg |-> arg]
Ops(op, args) == [i \in 1..Len(args) |-> Op(op, args[i])]

\* What the loop of cleanup does for one feature.
FeatureSteps(f) ==
    IF f = "themes" THEN <<Op("docs", f), Op("themes", f)>>
    ELSE <<Op("folders", f), Op("files", f), Op("template", f),
           Op("deps", f), Op("env", f), Op("docs", f)>>

\* What follows the loop.
ClosingSteps(F) ==
    (IF Urls(F) # {} THEN <<Op("nav", ""), Op("nextconfig", ""),
                            Op("links", "")>>
     ELSE <<Op("nextconfig", "")>>)
    \o <<Op("conditional", "")>>
    \o (IF "notifications" \in F
        THEN <<Op("header", ""), Op("menu", "")>> ELSE << >>)

cleanup(features) ==
    FlattenSeq([i \in 1..Len(features) |-> FeatureSteps(features[i])])
      \o ClosingSteps(Range(features))

Named == {s \in UNION {[1..n -> Removable] : n \in 1..MaxNamed} :
            \A i, j \in DOMAIN s : s[i] = s[j] => i = j}

Selected == Range(run.features)
Working == run.features # << >>

\* node scripts/cleanup.js, in a repository with a commit: named features in
\* any order, or --all, which also settles the theme to keep.
main(features, dry, keep) ==
    /\ ~Working
    /\ runs < MaxRuns
    /\ dry => forecast = NoForecast
    /\ run' = [features |-> features, dry |-> dry, keep |-> keep,
               todo |-> cleanup(features), report |-> {}]
    /\ forecast' = IF dry \/ forecast.features # features
                   THEN NoForecast ELSE forecast
    /\ UNCHANGED <<repo, env, backup, runs, deaths, stripped, relinked, pending,
                   scars, owned, surprises>>

-----------------------------------------------------------------------------
(* The steps.                                                              *)

At(op) == Working /\ run.todo # << >> /\ Head(run.todo).op = op
Arg == Head(run.todo).arg

Lines(changed, line) == IF changed THEN {line} ELSE {}

\* What is reported is kept when there is a report to compare it with.
Said(report) ==
    IF run.dry \/ forecast # NoForecast THEN run.report \cup report ELSE run.report
\* The step is over.
Reports(report) == run' = [run EXCEPT !.todo = Tail(@), !.report = Said(report)]

\* One step is done: what it would leave is only written in a real run.
Done(r, report) ==
    /\ repo' = IF run.dry THEN repo ELSE r
    /\ Reports(report)
    /\ UNCHANGED <<env, backup, history>>

deleteFolders ==
    /\ At("folders")
    /\ LET gone == FEATURES[Arg].folders \cap repo.tree
       IN  Done([repo EXCEPT !.tree = @ \ gone], gone)

deleteFiles ==
    /\ At("files")
    /\ LET gone == FEATURES[Arg].files \cap repo.tree
       IN  Done([repo EXCEPT !.tree = @ \ gone], gone)

\* Clerk's templates bring a sidebar with a Notifications entry, Sentry's a
\* next.config.ts with Clerk's image hosts; the others have none.
applyTemplates ==
    /\ At("template")
    /\ Done([repo EXCEPT !.menu = IF Arg = "clerk"
                                  THEN {"/notifications"} ELSE @,
                         !.hosts = @ \/ Arg = "sentry"], {})

cleanDependencies ==
    /\ At("deps")
    /\ Done([repo EXCEPT !.pkg = @ \ FEATURES[Arg].deps],
            repo.pkg \cap FEATURES[Arg].deps)

\* Mutant: the backup keeps what is left, not what was there.
mut_BackupOfTheResult ==
    /\ At("env")
    /\ LET hit == FEATURES[Arg].vars \cap env # {}
       IN  /\ IF run.dry THEN UNCHANGED <<env, backup>>
              ELSE /\ env' = env \ FEATURES[Arg].vars
                   /\ backup' = IF hit /\ backup = NoFile
                                THEN <<env'>> ELSE backup
           /\ Reports(Lines(hit, ".env"))
           /\ UNCHANGED <<repo, history>>

BackupLine == ".env.cleanup-backup"

\* The backup is a write of its own, before the one that strips.
cleanEnvVars ==
    /\ At("env")
    /\ LET hit == FEATURES[Arg].vars \cap env # {}
       IN  IF hit /\ ~run.dry /\ backup = NoFile
           THEN /\ backup' = <<env>>
                /\ run' = [run EXCEPT !.report = Said({BackupLine})]
                /\ UNCHANGED <<repo, env, history>>
           ELSE /\ env' = IF run.dry THEN env ELSE env \ FEATURES[Arg].vars
                /\ Reports(Lines(hit, ".env"))
                /\ UNCHANGED <<repo, backup, history>>

applyDocRules ==
    /\ At("docs")
    /\ Done([repo EXCEPT !.docs = @ \ {Arg}],
            Lines(Arg \in repo.docs, DocsLine(Arg)))

cleanNavConfig ==
    /\ At("nav")
    /\ Done([repo EXCEPT !.nav = @ \ Urls(Selected)],
            Lines(repo.nav \cap Urls(Selected) # {}, "nav-config.ts"))

\* clerkGone holds: package.json does not name @clerk/nextjs.
cleanNextConfig ==
    /\ At("nextconfig")
    /\ Done([repo EXCEPT !.hosts = FALSE],
            Lines(repo.hosts, "next.config.ts"))

remapNotificationLinks ==
    /\ At("links")
    /\ LET dead == repo.links \cap Urls(Selected)
           applies == /\ "notifications" \notin Selected
                      /\ "features/notifications" \in repo.tree
                      /\ dead # {}
       IN  Done([repo EXCEPT !.links = IF applies
                                       THEN (@ \ dead) \cup {"/overview"}
                                       ELSE @],
                Lines(applies, "notification-center.tsx"))

\* Mutant: whatever is on disk survives, in a dry run too.
mut_AllOnDisk == repo.tree
\* Survivors leave out what is selected for deletion: a dry run still has it.
Survivors == repo.tree \ Paths(Selected)
\* Mutant: a dependency goes with the first feature that used it.
mut_GoesWithItsFirstFeature ==
    {d \in repo.pkg \cap CONDITIONAL_DEPS :
       Importers[d] \cap Paths(Selected) # {}}

Orphans == {d \in repo.pkg \cap CONDITIONAL_DEPS :
              Importers[d] \cap Survivors = {}}

cleanConditionalDeps ==
    /\ At("conditional")
    /\ Done([repo EXCEPT !.pkg = @ \ Orphans], Orphans)

cleanNotificationFromHeader ==
    /\ At("header")
    /\ Done([repo EXCEPT !.header = @ \ {"NotificationCenter"}],
            Lines("NotificationCenter" \in repo.header, "header.tsx"))

cleanNotificationFromSidebar ==
    /\ At("menu")
    /\ Done([repo EXCEPT !.menu = @ \ {"/notifications"}],
            Lines("/notifications" \in repo.menu, "app-sidebar.tsx"))

\* What is left to do once the theme to keep is known.
ThemeSteps(keep, others) ==
    Ops("theme", SetToSeq(others))
    \o <<Op("theme.css", keep), Op("theme.config", keep)>>
    \o (IF SelectorPath \in repo.tree
        THEN <<Op("unselect", keep), Op("theme", SelectorPath)>> ELSE << >>)
    \o <<Op("fonts", keep)>>

\* With one theme or a dry run there is nothing to do; otherwise --all has
\* named the theme to keep, or the developer is asked.
cleanThemes ==
    /\ At("themes")
    /\ LET found == repo.tree \cap Themes
       IN  IF Cardinality(found) <= 1 \/ run.dry
           THEN Done(repo, {})
           ELSE \E keep \in found :
                  /\ run.keep \in found => keep = run.keep
                  /\ run' = [run EXCEPT !.todo =
                               ThemeSteps(keep, found \ {keep}) \o Tail(@)]
                  /\ UNCHANGED <<repo, env, backup, history>>

deleteTheme == At("theme") /\ Done([repo EXCEPT !.tree = @ \ {Arg}], {Arg})
rewriteThemeCss ==
    At("theme.css") /\ Done([repo EXCEPT !.imports = {Arg}], {"theme.css"})
rewriteThemeConfig ==
    At("theme.config") /\ Done([repo EXCEPT !.config = {Arg}], {"theme.config.ts"})
removeThemeSelector ==
    /\ At("unselect")
    /\ Done([repo EXCEPT !.header = @ \ {"ThemeSelector"}],
            Lines("ThemeSelector" \in repo.header, "ThemeSelector"))
pruneFontConfig ==
    /\ At("fonts")
    /\ LET needed == AlwaysKeptFonts \cup FontsOf[Arg]
       IN  Done([repo EXCEPT !.fonts = @ \cap needed],
                Lines(repo.fonts \ needed # {}, "font.config.ts"))

-----------------------------------------------------------------------------
(* The end of a run, its death, and what the developer does in between.    *)

Ends ==
    /\ Working /\ run.todo = << >>
    /\ IF run.dry
       THEN /\ forecast' = [features |-> run.features, report |-> run.report]
            /\ UNCHANGED <<runs, stripped, relinked, pending, surprises>>
       ELSE /\ runs' = runs + 1 /\ stripped' = stripped \cup Selected
            /\ relinked' = /\ "clerk" \in Selected \/ relinked
                           /\ "notifications" \notin Selected
            /\ pending' = pending \ Selected
            /\ forecast' = NoForecast
            /\ surprises' =
                 IF forecast.features # run.features THEN surprises
                 ELSE surprises \cup (run.report \ forecast.report)
                        \cup (forecast.report \ run.report)
    /\ run' = Idle
    /\ UNCHANGED <<repo, env, backup, deaths, scars, owned>>

ThemeWindow == {"theme.css", "theme.config", "unselect", "theme", "fonts"}

\* The process is gone, whatever it had left to do.
DiesWith(scar) ==
    /\ ~run.dry /\ deaths < MaxDeaths
    /\ run' = Idle
    /\ deaths' = deaths + 1
    /\ pending' = pending \cup Selected
    /\ scars' = scars \cup scar
    /\ forecast' = NoForecast
    /\ UNCHANGED <<runs, stripped, relinked, owned, surprises>>

Dies ==
    /\ Working /\ run.todo # << >>
    /\ DiesWith(IF Head(run.todo).op \in ThemeWindow
                   /\ Cardinality(repo.tree \cap Themes) = 1
                THEN {"themes"} ELSE {})
    /\ UNCHANGED <<repo, env, backup>>

\* The disk fills while the backup, or .env itself, is being written.
WriteFails ==
    /\ At("env") /\ FEATURES[Arg].vars \cap env # {}
    /\ IF backup = NoFile
       THEN backup' = <<{}>> /\ DiesWith({"backup"}) /\ UNCHANGED env
       ELSE env' = {} /\ DiesWith({}) /\ UNCHANGED backup
    /\ UNCHANGED repo

SetsVariable(v) ==
    /\ ~Working /\ v \notin env
    /\ env' = env \cup {v}
    /\ owned' = IF backup = NoFile THEN owned \cup {v} ELSE owned
    /\ forecast' = NoForecast
    /\ UNCHANGED <<repo, backup, run, runs, deaths, stripped, relinked,
                   pending, scars, surprises>>

Runs ==
    \E dry \in BOOLEAN :
        \/ \E features \in Named : main(features, dry, "")
        \/ main(AllFeatures, dry, "vercel")

Steps ==
    \/ deleteFolders \/ deleteFiles \/ applyTemplates \/ cleanDependencies
    \/ cleanEnvVars \/ applyDocRules \/ cleanNavConfig \/ cleanNextConfig
    \/ remapNotificationLinks \/ cleanConditionalDeps
    \/ cleanNotificationFromHeader \/ cleanNotificationFromSidebar
    \/ cleanThemes \/ deleteTheme \/ rewriteThemeCss \/ rewriteThemeConfig
    \/ removeThemeSelector \/ pruneFontConfig

Next ==
    \/ Runs \/ Steps \/ Ends \/ Dies \/ WriteFails
    \/ \E v \in EnvVars : SetsVariable(v)

Spec == Init /\ [][Next]_vars

-----------------------------------------------------------------------------
Quiet == ~Working /\ pending = {}

\* What a set of features takes with it, however many runs it took.
Leaves(F) ==
    /\ repo.tree \ (Themes \cup {SelectorPath})
         = Paths(DOMAIN FEATURES) \ Paths(F)
    /\ repo.pkg = {d \in InitialRepo.pkg \ UNION {FEATURES[f].deps : f \in F} :
                     d \in CONDITIONAL_DEPS =>
                       Importers[d] \cap repo.tree # {}}
    /\ repo.nav = InitialRepo.nav \ Urls(F)
    /\ "notifications" \notin F => repo.links \cap Urls(F) = {}
    /\ "NotificationCenter" \in repo.header <=> "notifications" \notin F
    /\ repo.docs = InitialRepo.docs \ F
    /\ ~repo.hosts

\* The dependencies gone from package.json that a file still imports.
Missing ==
    {d \in DOMAIN Importers \ repo.pkg : Importers[d] \cap (repo.tree \cup Remaining) # {}}

\* The one theme left, in every place that names themes.
OneTheme ==
    \E keep \in Themes :
        /\ repo.tree \cap Themes = {keep}
        /\ repo.imports = {keep} /\ repo.config = {keep}
        /\ "ThemeSelector" \notin repo.header /\ SelectorPath \notin repo.tree
        /\ repo.fonts = AlwaysKeptFonts \cup FontsOf[keep]

\* Once every feature whose run died has been through a whole run, the tree is
\* what one run over all of them would have left, in whatever order and number
\* they came: no dependency is dropped that a surviving file imports, but Sentry's
\* with Sentry (overview/error.tsx still imports it), none kept that only stripped
\* files did, and no menu leads to a page that is gone.
\* Two things are not repaired: the sidebar of a Clerk run that comes after
\* notifications were stripped, and themes once a run died between deleting the
\* last of them and pruning the fonts.
RunsAddUp ==
    Quiet /\ stripped # {} =>
        /\ Leaves(stripped)
        /\ Missing \subseteq IF "sentry" \in stripped THEN {"@sentry/nextjs"} ELSE {}
        /\ "notifications" \in stripped /\ ~relinked => repo.menu = {}
        /\ "themes" \in stripped /\ "themes" \notin scars => OneTheme

\* Git cannot bring an untracked .env back: whatever the developer had in it
\* before the first run touched it is in .env or in the backup, unless the very
\* write of the backup failed half way. The next run takes what is then on disk
\* for the backup.
OwnVariablesSurvive ==
    backup # NoFile /\ "backup" \notin scars =>
        owned \subseteq env \cup backup[1]

TemplateLines == {"next.config.ts", "app-sidebar.tsx"}
ThemeLines ==
    Themes \cup {SelectorPath, "theme.css", "theme.config.ts", "ThemeSelector",
                 "font.config.ts"}

\* A dry run names every deletion, dependency and file that the run after it
\* then reports, with three exceptions: a file that the run's own templates bring
\* and a later step cleans, the backup of .env, and, when themes are stripped, all
\* that is deleted and rewritten for them.
DryRunForetells ==
    /\ surprises \subseteq TemplateLines \cup {BackupLine} \cup ThemeLines
    /\ surprises \cap ThemeLines # {} => "themes" \in stripped

=============================================================================
