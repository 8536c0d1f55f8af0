------------------------------- MODULE Runtime -------------------------------
(***************************************************************************)
(* The life of the process: main loads the configuration, opens and        *)
(* migrates the database, assembles and preflights the services (bot.New), *)
(* and runs the bot (bot.Run) until a signal ends it.                      *)
(*                                                                         *)
(* Run has two goroutines: main, which waits for the signal and stops the  *)
(* runtime, and the loop, which starts the scheduler and polls Telegram.   *)
(* The process may die at any step and is started again, perhaps with      *)
(* another configuration; the database file and the command menus that     *)
(* Telegram keeps outlive it.                                              *)
(***************************************************************************)
EXTENDS Config

CONSTANTS
  Files,      \* the contents config.yaml may have
  Databases,  \* the database files the first start may find
  Ids,        \* Telegram ids of users
  NoConfig

\* Sqlite files: the version golang-migrate recorded (0 for none), its dirty
\* mark, and the tables that are there.
Schemas == {"none", "legacy", "whole"}
DatabaseFiles == [version : 0..11, dirty : BOOLEAN, schema : Schemas]

\* A file left by a finished start or by another release: the tables of version
\* 1 and of the last version before the migrations were squashed are the same.
Sound(file) ==
  /\ file \in DatabaseFiles
  /\ ~file.dirty /\ file.version \in {1, 10} => file.schema = "whole"

\* A file names users by their ids; 0 is no id.
ASSUME FilesAssumption ==
  \A file \in Files : file.admin # Absent =>
    file.admin.ids \in Seq(Ids \cup {0}) /\ file.admin.legacy \in Ids \cup {0}
ASSUME DatabasesAssumption == \A file \in Databases : Sound(file)

VARIABLES
  cfg,        \* the loaded configuration, or NoConfig
  db,         \* the database file
  menus,      \* the command menu Telegram keeps for a scope
  mute,       \* the services that take a request of this start and never answer
  main,       \* what main does next, or "down"
  exit,       \* why the last process ended
  checked,    \* service -> the model its preflight passed with, "" before
  executor,   \* scheduler.SetExecutor has been called
  synced,     \* the admins whose menu this start has set
  signal,     \* SIGINT or SIGTERM has arrived
  loop,       \* what the goroutine of Run does
  stopFunc,   \* Runtime.schedulerStopFunc is set
  cancelled,  \* the scheduler's context is cancelled
  scheduler   \* the cron runner: "off", "on" or "stopped"

outside == <<db, menus>>
startup == <<mute, cfg, checked, executor, synced>>
running == <<signal, loop, stopFunc, cancelled, scheduler>>
vars == <<outside, main, exit, startup, running>>

\* In the order of runStartupPreflight.
Services == <<"main", "x", "web", "mcp">>
ServiceNames == {"main", "x", "web", "mcp"}
Scopes == {<<"private", 0>>, <<"groups", 0>>} \cup {<<"user", id>> : id \in Ids}

NothingChecked == [s \in ServiceNames |-> ""]

Init ==
  /\ db \in Databases
  /\ menus = [s \in Scopes |-> "none"]
  /\ main = "down" /\ exit = "none"
  /\ mute = {} /\ cfg = NoConfig /\ checked = NothingChecked /\ executor = FALSE /\ synced = 0
  /\ signal = FALSE /\ loop = "none" /\ stopFunc = FALSE
  /\ cancelled = FALSE /\ scheduler = "off"

-----------------------------------------------------------------------------
(* The process                                                             *)

\* Whatever the process held in memory is gone.
Exit(cause) ==
  /\ main' = "down" /\ exit' = cause
  /\ mute' = {} /\ cfg' = NoConfig /\ checked' = NothingChecked /\ executor' = FALSE /\ synced' = 0
  /\ signal' = FALSE /\ loop' = "none" /\ stopFunc' = FALSE
  /\ cancelled' = FALSE /\ scheduler' = "off"

Goto(next) == main' = next /\ UNCHANGED <<exit, running>>

\* An operator, or a supervisor, starts the process; which services are silent
\* this time nobody knows.
Launch ==
  /\ main = "down"
  /\ mute' \in SUBSET ServiceNames
  /\ main' = "load" /\ exit' = "none"
  /\ UNCHANGED <<outside, cfg, checked, executor, synced, running>>

\* A crash or a kill, at any step.
Die ==
  /\ main # "down"
  /\ Exit("died")
  /\ UNCHANGED outside

-----------------------------------------------------------------------------
(* Before the bot                                                          *)

LoadConfig ==
  /\ main = "load"
  /\ \E raw \in Files :
       \/ /\ Loads(raw)
          /\ cfg' = BuildConfig(raw)
          /\ Goto("open") /\ UNCHANGED <<mute, checked, executor, synced>>
       \/ ~Loads(raw) /\ Exit("config")
  /\ UNCHANGED outside

\* db.Open up to the migrations; a file that is not there is created.
OpenDatabase ==
  /\ main = "open"
  /\ \/ ValidPath(cfg.path) /\ Goto("normalize") /\ UNCHANGED startup
     \/ Exit("database")
  /\ UNCHANGED outside

\* Mutant: the dirty mark is not looked at.
NormalizeDirty ==
  /\ main = "normalize"
  /\ \/ /\ db.version = 10
        /\ db' = [db EXCEPT !.version = 1, !.dirty = FALSE]
        /\ Goto("up") /\ UNCHANGED startup
     \/ db.version \in {0, 1, 11} /\ Goto("up") /\ UNCHANGED <<db, startup>>
     \/ db.version \in 2..9 /\ Exit("database") /\ UNCHANGED db
  /\ UNCHANGED menus

\* normalizeSquashedInitialMigration: the last legacy version becomes version 1,
\* an earlier one is refused, a dirty one is left to Up.
Normalize ==
  /\ main = "normalize"
  /\ LET legacy == ~db.dirty /\ db.version = 10
         refused == ~db.dirty /\ db.version \in 2..9
     IN  \/ /\ legacy
            /\ db' = [db EXCEPT !.version = 1]
            /\ Goto("up") /\ UNCHANGED startup
         \/ ~legacy /\ ~refused /\ Goto("up") /\ UNCHANGED <<db, startup>>
         \/ Exit("database") /\ UNCHANGED db
  /\ UNCHANGED menus

\* m.Up: a dirty database, or a version there is no file for, is an error; the
\* only migration is marked dirty before its statements run.
Up ==
  /\ main = "up"
  /\ \/ ~db.dirty /\ db.version = 1 /\ Goto("new") /\ UNCHANGED <<db, startup>>
     \/ /\ ~db.dirty /\ db.version = 0
        /\ db' = [db EXCEPT !.version = 1, !.dirty = TRUE]
        /\ Goto("migrate") /\ UNCHANGED startup
     \/ Exit("database") /\ UNCHANGED db
  /\ UNCHANGED menus

\* The statements of 001_init.up.sql, in one transaction.
Migrate ==
  /\ main = "migrate"
  /\ \/ db' = [db EXCEPT !.schema = "whole"] /\ Goto("clean") /\ UNCHANGED startup
     \/ Exit("database") /\ UNCHANGED db
  /\ UNCHANGED menus

\* The mark is removed.
MarkClean ==
  /\ main = "clean"
  /\ \/ db' = [db EXCEPT !.dirty = FALSE] /\ Goto("new") /\ UNCHANGED startup
     \/ Exit("database") /\ UNCHANGED db
  /\ UNCHANGED menus

-----------------------------------------------------------------------------
(* bot.New                                                                 *)

ValidateConfig ==
  /\ main = "new"
  /\ \/ Validate(cfg) /\ Goto("telegram") /\ UNCHANGED startup
     \/ ~Validate(cfg) /\ Exit("config")
  /\ UNCHANGED outside

\* tele.NewBot asks Telegram who the bot is.
CreateTelegramBot ==
  /\ main = "telegram"
  /\ \/ Goto("construct") /\ UNCHANGED startup
     \/ Exit("telegram")
  /\ UNCHANGED outside

\* The clients, the search services, the bridge and the scheduler.
Construct ==
  /\ main = "construct"
  /\ \/ Constructs(cfg) /\ Goto("preflight") /\ UNCHANGED startup
     \/ ~Constructs(cfg) /\ Exit("constructor")
  /\ UNCHANGED outside

\* The services whose preflight is not skipped.
Required ==
  {"main", "mcp"} \cup (IF cfg.x.enabled THEN {"x"} ELSE {})
    \cup (IF cfg.web.enabled THEN {"web"} ELSE {})

\* resolveMainModel, resolveXAIModel and resolveOpenAIWebSearchModel.
PreflightModel(s) ==
  CASE s = "main" -> ServiceModel(cfg.model, "gpt-5-mini")
    [] s = "x" -> ServiceModel(cfg.x.model, "grok-4-1-fast-reasoning")
    [] s = "web" -> ServiceModel(cfg.web.model, "gpt-5.4-nano")
    [] OTHER -> "mcp"

\* s comes next: those before it have passed or are skipped.
IsNext(s) ==
  /\ s \in Required /\ checked[s] = ""
  /\ \A i, k \in 1..4 : /\ i < k /\ Services[k] = s /\ Services[i] \in Required
                        => checked[Services[i]] # ""

\* Mutant: a request has no deadline.
CheckWaiting(s) ==
  /\ main = "preflight" /\ IsNext(s) /\ s \notin mute
  /\ \/ /\ checked' = [checked EXCEPT ![s] = PreflightModel(s)]
        /\ Goto("preflight") /\ UNCHANGED <<mute, cfg, executor, synced>>
     \/ Exit("preflight")
  /\ UNCHANGED outside

\* checkResponsesAPI and Bridge.Preflight: one request, or one session of every
\* enabled MCP server. It fails, or the deadline of at most 15 s passes.
Check(s) ==
  /\ main = "preflight" /\ IsNext(s)
  /\ \/ /\ s \in mute => s = "mcp" /\ EnabledServers(cfg) = {}
        /\ checked' = [checked EXCEPT ![s] = PreflightModel(s)]
        /\ Goto("preflight") /\ UNCHANGED <<mute, cfg, executor, synced>>
     \/ Exit("preflight")
  /\ UNCHANGED outside

\* chat.NewService and scheduler.SetExecutor.
Assemble ==
  /\ main = "preflight" /\ \A s \in Required : checked[s] # ""
  /\ executor' = TRUE
  /\ Goto("syncDefaults")
  /\ UNCHANGED <<mute, cfg, checked, synced, outside>>

SetCommands(scope, menu, next) ==
  /\ \/ /\ menus' = [menus EXCEPT ![scope] = menu]
        /\ Goto(next) /\ UNCHANGED startup
     \/ Exit("telegram") /\ UNCHANGED menus
  /\ UNCHANGED db

SyncDefaults == main = "syncDefaults" /\ SetCommands(<<"private", 0>>, "base", "syncGroups")
SyncGroups == main = "syncGroups" /\ SetCommands(<<"groups", 0>>, "base", "syncAdmins")

\* Mutant: SyncAdmins returns after the first admin.
SyncFirstAdmin ==
  /\ main = "syncAdmins"
  /\ \/ /\ menus' = [menus EXCEPT ![<<"user", cfg.admins[1]>>] = "admin"]
        /\ synced' = 1 /\ Goto("run") /\ UNCHANGED <<mute, cfg, checked, executor>>
     \/ Exit("telegram") /\ UNCHANGED menus
  /\ UNCHANGED db

\* SyncAdmins, one turn of its loop; after the last the handlers are registered.
SyncAdmins ==
  /\ main = "syncAdmins"
  /\ \/ /\ menus' = [menus EXCEPT ![<<"user", cfg.admins[synced + 1]>>] = "admin"]
        /\ synced' = synced + 1
        /\ Goto(IF synced + 1 = Len(cfg.admins) THEN "run" ELSE "syncAdmins")
        /\ UNCHANGED <<mute, cfg, checked, executor>>
     \/ Exit("telegram") /\ UNCHANGED menus
  /\ UNCHANGED db

-----------------------------------------------------------------------------
(* bot.Run: main                                                           *)

\* signal.NotifyContext, and Run starts the loop. Until then a signal kills.
StartRun ==
  /\ main = "run"
  /\ main' = "wait" /\ loop' = "begin"
  /\ UNCHANGED <<exit, outside, startup, signal, stopFunc, cancelled, scheduler>>

SignalArrives ==
  /\ main = "wait" /\ ~signal
  /\ signal' = TRUE
  /\ UNCHANGED <<main, exit, outside, startup, loop, stopFunc, cancelled, scheduler>>

\* Runtime.Stop reads schedulerStopFunc, which Start may not have set yet, and
\* calls it when it is there.
StopScheduler ==
  /\ main = "wait" /\ signal
  /\ cancelled' = (cancelled \/ stopFunc)
  /\ main' = "stopBot"
  /\ UNCHANGED <<exit, outside, startup, signal, loop, stopFunc, scheduler>>

\* bot.Stop waits for the polling loop to take it.
StopBot ==
  /\ main = "stopBot" /\ loop = "poll"
  /\ main' = "join" /\ loop' = "leaving"
  /\ UNCHANGED <<exit, outside, startup, signal, stopFunc, cancelled, scheduler>>

\* Run returns when Start has; the connection is closed and main returns, with
\* the handlers and jobs in flight.
Join ==
  /\ main = "join" /\ loop = "ended"
  /\ Exit("stopped")
  /\ UNCHANGED outside

-----------------------------------------------------------------------------
(* bot.Run: the goroutine of Runtime.Start, and the scheduler              *)

Loop(next) == loop' = next /\ UNCHANGED <<main, exit, outside, startup, signal>>

BeginStart ==
  /\ loop = "begin"
  /\ stopFunc' = TRUE
  /\ Loop("schedule") /\ UNCHANGED <<cancelled, scheduler>>

\* Mutant: Start returns when the scheduler does not start.
StartSchedulerOrReturn ==
  /\ loop = "schedule"
  /\ \/ ~cancelled /\ scheduler' = "on" /\ Loop("poll") /\ UNCHANGED cancelled
     \/ cancelled' = TRUE /\ Loop("ended") /\ UNCHANGED scheduler
  /\ UNCHANGED stopFunc

\* cronjobs.Service.Start lists the rows with the scheduler's context; when that
\* fails the context is cancelled and the bot polls all the same.
StartScheduler ==
  /\ loop = "schedule"
  /\ \/ ~cancelled /\ scheduler' = "on" /\ UNCHANGED cancelled
     \/ cancelled' = TRUE /\ UNCHANGED scheduler
  /\ Loop("poll") /\ UNCHANGED stopFunc

\* The goroutine Service.Start left behind.
SchedulerStops ==
  /\ cancelled /\ scheduler = "on"
  /\ scheduler' = "stopped"
  /\ UNCHANGED <<main, exit, outside, startup, signal, loop, stopFunc, cancelled>>

EndStart ==
  /\ loop = "leaving"
  /\ Loop("ended") /\ UNCHANGED <<stopFunc, cancelled, scheduler>>

-----------------------------------------------------------------------------
MainNext ==
  \/ LoadConfig \/ OpenDatabase \/ Normalize \/ Up \/ Migrate \/ MarkClean
  \/ ValidateConfig \/ CreateTelegramBot \/ Construct
  \/ \E s \in ServiceNames : Check(s)
  \/ Assemble \/ SyncDefaults \/ SyncGroups \/ SyncAdmins
  \/ StartRun \/ StopScheduler \/ StopBot \/ Join

LoopNext == BeginStart \/ StartScheduler \/ EndStart

Next == Launch \/ Die \/ SignalArrives \/ MainNext \/ LoopNext \/ SchedulerStops

Spec == Init /\ [][Next]_vars

\* Both goroutines run on: every request of a start has a deadline, and SQLite
\* waits for a lock five seconds. Nobody has to start or to stop the process.
FairSpec == Spec /\ WF_vars(MainNext) /\ WF_vars(LoopNext)

-----------------------------------------------------------------------------
(* Properties.                                                             *)

MainSteps == {"down", "load", "open", "normalize", "up", "migrate", "clean", "new",
              "telegram", "construct", "preflight", "syncDefaults", "syncGroups",
              "syncAdmins", "run", "wait", "stopBot", "join"}
LoopSteps == {"none", "begin", "schedule", "poll", "leaving", "ended"}

TypeOK ==
  /\ cfg \in {NoConfig} \cup {BuildConfig(file) : file \in Files}
  /\ cfg # NoConfig => \A i \in DOMAIN cfg.admins : cfg.admins[i] \in Ids \ {0}
  /\ db \in DatabaseFiles
  /\ menus \in [Scopes -> {"none", "base", "admin"}]
  /\ mute \subseteq ServiceNames
  /\ main \in MainSteps
  /\ exit \in {"none", "config", "database", "constructor", "telegram", "preflight",
               "stopped", "died"}
  /\ DOMAIN checked = ServiceNames
  /\ executor \in BOOLEAN /\ synced \in Nat /\ signal \in BOOLEAN
  /\ loop \in LoopSteps
  /\ stopFunc \in BOOLEAN /\ cancelled \in BOOLEAN
  /\ scheduler \in {"off", "on", "stopped"}

\* The bot takes updates, or the scheduler fires jobs.
Serving == loop = "poll" \/ scheduler = "on"

\* Nothing is served on a database whose tables are not all there: whatever
\* release, crash or failure left the file, a start either completes it or ends.
ServesWholeSchema == Serving => db = [version |-> 1, dirty |-> FALSE, schema |-> "whole"]

\* Nothing is served before every enabled service has answered in this very
\* start, with the model it will be asked for, jobs have their executor, and
\* everyone the gate takes for an admin has the admin's menu.
ServesChecked ==
  Serving =>
    /\ executor
    /\ checked["main"] = cfg.model /\ checked["mcp"] = "mcp"
    /\ cfg.web.enabled => checked["web"] = ServiceModel(cfg.web.model, DefaultWebModel)
    /\ cfg.x.enabled => checked["x"] = ServiceModel(cfg.x.model, "grok-4-1-fast-reasoning")
    /\ \A id \in Ids : IsAdminTGID(cfg, id) => menus[<<"user", id>>] = "admin"
    /\ menus[<<"private", 0>>] = "base" /\ menus[<<"groups", 0>>] = "base"

\* What Load and Validate accept, every constructor after them accepts too: a
\* wrong file is told as such, before Telegram or a provider is asked.
AcceptedConfigBuilds == exit # "constructor"

\* A start comes to serve or to an end, whatever keeps silent.
StartsOrEnds == main = "load" ~> loop = "poll" \/ main = "down"

\* A signal ends the process, also one that arrives while Start is still
\* starting the scheduler, or after that has failed.
SignalEnds == signal ~> main = "down"

=============================================================================
