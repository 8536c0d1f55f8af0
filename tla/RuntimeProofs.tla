---------------------------- MODULE RuntimeProofs ----------------------------
(***************************************************************************)
(* Theorems of Runtime for every set of configuration files, every database *)
(* a start may find, and any number of starts, deaths and signals.          *)
(***************************************************************************)
EXTENDS Runtime, LeftFolds

\* main has opened the database.
Opened == {"new", "telegram", "construct", "preflight", "syncDefaults", "syncGroups",
           "syncAdmins", "run", "wait", "stopBot", "join"}

\* Both goroutines of Run are there.
Runs == {"wait", "stopBot", "join"}

Whole == [version |-> 1, dirty |-> FALSE, schema |-> "whole"]

\* The loop and the runner live while main is in Run.
Lives ==
  /\ main \in MainSteps
  /\ loop # "none" => main \in Runs
  /\ scheduler = "on" => main \in Runs

-----------------------------------------------------------------------------
(* The database                                                            *)

\* Version 1 may stand in a file whose tables are not there, but then with the
\* mark; the mark goes after the tables have come.
Migrated ==
  /\ Sound(db)
  /\ main = "migrate" => db.version = 1 /\ db.dirty
  /\ main = "clean" => db.version = 1 /\ db.schema = "whole"
  /\ main \in Opened => db = Whole

DatabaseInv == Lives /\ Migrated

LEMMA SoundWhole ==
  ASSUME NEW file, Sound(file), ~file.dirty, file.version = 1
  PROVE  file = Whole
  BY DEF Sound, DatabaseFiles, Schemas, Whole

\* Ending the process makes both parts of the invariant easy.
LEMMA ExitLives ==
  ASSUME NEW cause, Exit(cause)
  PROVE  Lives'
  BY DEF Exit, Lives, MainSteps

LEMMA ExitMigrated ==
  ASSUME NEW cause, Exit(cause), Sound(db)'
  PROVE  Migrated'
  BY DEF Exit, Migrated, Opened

\* Where the process stands: true of Spec whatever the files are.
LEMMA LivesStep ==
  ASSUME Lives, [Next]_vars
  PROVE  Lives'
PROOF
  <1> USE DEF Lives, MainSteps, Runs
  <1>1. CASE Launch
    BY <1>1 DEF Launch, running
  <1>2. CASE Die
    BY <1>2, ExitLives DEF Die
  <1>3. CASE SignalArrives
    BY <1>3 DEF SignalArrives
  <1>4. CASE LoadConfig
    BY <1>4, ExitLives DEF LoadConfig, Goto, running
  <1>5. CASE OpenDatabase \/ Normalize \/ Up \/ Migrate \/ MarkClean
    BY <1>5, ExitLives DEF OpenDatabase, Normalize, Up, Migrate, MarkClean, Goto, running
  <1>6. CASE ValidateConfig \/ CreateTelegramBot \/ Construct
    BY <1>6, ExitLives DEF ValidateConfig, CreateTelegramBot, Construct, Goto, running
  <1>7. CASE \E s \in ServiceNames : Check(s)
    BY <1>7, ExitLives DEF Check, Goto, running
  <1>8. CASE Assemble
    BY <1>8 DEF Assemble, Goto, running
  <1>9. CASE SyncDefaults \/ SyncGroups \/ SyncAdmins
    BY <1>9, ExitLives DEF SyncDefaults, SyncGroups, SyncAdmins, SetCommands, Goto, running
  <1>10. CASE StartRun \/ StopScheduler \/ StopBot
    BY <1>10 DEF StartRun, StopScheduler, StopBot
  <1>11. CASE Join
    BY <1>11, ExitLives DEF Join
  <1>12. CASE LoopNext
    BY <1>12 DEF LoopNext, BeginStart, StartScheduler, EndStart, Loop
  <1>13. CASE SchedulerStops
    BY <1>13 DEF SchedulerStops
  <1>14. CASE UNCHANGED vars
    BY <1>14 DEF vars, running
  <1> QED
    BY <1>1, <1>2, <1>3, <1>4, <1>5, <1>6, <1>7, <1>8, <1>9, <1>10, <1>11, <1>12,
       <1>13, <1>14 DEF Next, MainNext

LEMMA MigratedStep ==
  ASSUME DatabaseInv, [Next]_vars
  PROVE  Migrated'
PROOF
  <1> USE DEF DatabaseInv, Lives, Migrated, Opened, Runs
  <1> SUFFICES ASSUME Next PROVE Migrated'
    BY DEF vars, outside
  <1>1. CASE Launch
    BY <1>1 DEF Launch, outside
  <1>2. CASE Die
    BY <1>2 DEF Die, Exit, outside
  <1>3. CASE SignalArrives
    BY <1>3 DEF SignalArrives, outside
  <1>4. CASE LoadConfig
    BY <1>4 DEF LoadConfig, Goto, Exit, outside
  <1>5. CASE OpenDatabase
    BY <1>5 DEF OpenDatabase, Goto, Exit, outside
  <1>6. CASE Normalize
    <2>1. db' \in {db, [db EXCEPT !.version = 1]}
      BY <1>6 DEF Normalize
    <2>2. Sound(db)'
      BY <1>6, <2>1 DEF Normalize, Sound, DatabaseFiles
    <2> QED
      BY <1>6, <2>2 DEF Normalize, Goto, Exit
  <1>7. CASE Up
    <2>1. CASE ~db.dirty /\ db.version = 1 /\ Goto("new") /\ UNCHANGED db
      BY <2>1, SoundWhole DEF Goto
    <2>2. CASE db' = [db EXCEPT !.version = 1, !.dirty = TRUE] /\ Goto("migrate")
      <3>1. db \in DatabaseFiles
        BY DEF Sound
      <3>2. db' \in DatabaseFiles
        <4>1. [db EXCEPT !.version = 1] \in DatabaseFiles
          BY <3>1 DEF DatabaseFiles
        <4> QED
          BY <4>1, <2>2, Zenon DEF DatabaseFiles
      <3>4. db'.version = 1
        BY <3>1, <2>2, Zenon DEF DatabaseFiles
      <3>3. db'.dirty
        BY <3>1, <2>2, Zenon DEF DatabaseFiles
      <3> QED
        BY <3>2, <3>3, <3>4, <2>2 DEF Goto, Sound
    <2>3. CASE Exit("database") /\ UNCHANGED db
      BY <2>3 DEF Exit
    <2> QED
      BY <1>7, <2>1, <2>2, <2>3 DEF Up
  <1>8. CASE Migrate
    <2>1. CASE db' = [db EXCEPT !.schema = "whole"] /\ Goto("clean")
      BY <1>8, <2>1 DEF Migrate, Goto, Sound, DatabaseFiles, Schemas
    <2>2. CASE Exit("database") /\ UNCHANGED db
      BY <2>2 DEF Exit
    <2> QED
      BY <1>8, <2>1, <2>2 DEF Migrate
  <1>9. CASE MarkClean
    <2>1. CASE db' = [db EXCEPT !.dirty = FALSE] /\ Goto("new")
      <3>1. Sound(db)' /\ ~db'.dirty /\ db'.version = 1
        BY <1>9, <2>1 DEF MarkClean, Sound, DatabaseFiles, Schemas
      <3> QED
        BY <3>1, <2>1, SoundWhole DEF Goto
    <2>2. CASE Exit("database") /\ UNCHANGED db
      BY <2>2 DEF Exit
    <2> QED
      BY <1>9, <2>1, <2>2 DEF MarkClean
  <1>10. CASE ValidateConfig \/ CreateTelegramBot \/ Construct
    BY <1>10 DEF ValidateConfig, CreateTelegramBot, Construct, Goto, Exit, outside
  <1>11. CASE \E s \in ServiceNames : Check(s)
    BY <1>11 DEF Check, Goto, Exit, outside
  <1>12. CASE Assemble
    BY <1>12 DEF Assemble, Goto, outside
  <1>13. CASE SyncDefaults \/ SyncGroups \/ SyncAdmins
    BY <1>13 DEF SyncDefaults, SyncGroups, SyncAdmins, SetCommands, Goto, Exit
  <1>14. CASE StartRun \/ StopScheduler \/ StopBot
    BY <1>14 DEF StartRun, StopScheduler, StopBot, outside
  <1>15. CASE Join
    BY <1>15 DEF Join, Exit, outside
  <1>16. CASE LoopNext
    BY <1>16 DEF LoopNext, BeginStart, StartScheduler, EndStart, Loop, outside
  <1>17. CASE SchedulerStops
    BY <1>17 DEF SchedulerStops, outside
  <1> QED
    BY <1>1, <1>2, <1>3, <1>4, <1>5, <1>6, <1>7, <1>8, <1>9, <1>10, <1>11, <1>12,
       <1>13, <1>14, <1>15, <1>16, <1>17 DEF Next, MainNext

\* Nothing is served on a database whose tables are not all there: the order in
\* which runMigrations marks, creates and unmarks, and the repair of the squashed
\* version before it, leave no file that a start would take for a whole one.
THEOREM WholeSchema == Spec => []ServesWholeSchema
PROOF
  <1>1. Init => DatabaseInv
    BY DatabasesAssumption DEF Init, DatabaseInv, Lives, Migrated, Opened, MainSteps
  <1>2. DatabaseInv /\ [Next]_vars => DatabaseInv'
    BY LivesStep, MigratedStep DEF DatabaseInv
  <1>3. DatabaseInv => ServesWholeSchema
    BY DEF DatabaseInv, Lives, Migrated, ServesWholeSchema, Serving, Runs, Opened, Whole
  <1> QED
    BY <1>1, <1>2, <1>3, PTL DEF Spec

-----------------------------------------------------------------------------
(* The configuration                                                       *)

\* What main works with is the configuration of a file that loads, validated
\* once New has begun.
Configured ==
  /\ main \notin {"down", "load"} => \E raw \in Files : Loads(raw) /\ cfg = BuildConfig(raw)
  /\ main \in Opened \ {"new"} => Validate(cfg)
  /\ exit # "constructor"

\* The constructors ask for nothing that Load and Validate have not asked for.
LEMMA ValidateEnough ==
  ASSUME NEW raw, Loads(raw), Validate(BuildConfig(raw))
  PROVE  Constructs(BuildConfig(raw))
PROOF
  <1> DEFINE built == BuildConfig(raw)
  <1>1. built.servers = raw.servers
    BY DEF BuildConfig
  <1>2. \A i \in EnabledServers(built) :
          built.servers[i].transport \in {"streamable_http", "stdio"}
    BY <1>1 DEF EnabledServers, Loads, ValidServer
  <1>3. /\ built.provider \in {"openai", "xai"} /\ built.key # ""
        /\ built.web.enabled => built.web.key # ""
        /\ built.x.enabled => built.x.key # ""
    <2>1. Validate(built)
      OBVIOUS
    <2> HIDE DEF built
    <2> QED
      BY <2>1 DEF Validate, ValidSearch
  <1> QED
    BY <1>2, <1>3 DEF Constructs

LEMMA ConfiguredStep ==
  ASSUME Configured, [Next]_vars
  PROVE  Configured'
PROOF
  <1> USE DEF Configured, Opened
  <1> SUFFICES ASSUME Next PROVE Configured'
    BY DEF vars, startup
  <1>1. ASSUME NEW cause \in {"died", "config", "database", "telegram", "preflight", "stopped"},
               Exit(cause)
        PROVE  Configured'
    BY <1>1 DEF Exit
  <1>2. CASE Launch
    BY <1>2 DEF Launch
  <1>3. CASE Die
    BY <1>3, <1>1 DEF Die
  <1>4. CASE SignalArrives
    BY <1>4 DEF SignalArrives, startup
  <1>5. CASE LoadConfig
    BY <1>5, <1>1 DEF LoadConfig, Goto
  <1>6. CASE OpenDatabase \/ Normalize \/ Up \/ Migrate \/ MarkClean
    BY <1>6, <1>1 DEF OpenDatabase, Normalize, Up, Migrate, MarkClean, Goto, startup
  <1>7. CASE ValidateConfig
    BY <1>7, <1>1 DEF ValidateConfig, Goto, startup
  <1>8. CASE CreateTelegramBot
    BY <1>8, <1>1 DEF CreateTelegramBot, Goto, startup
  <1>9. CASE Construct
    <2>1. Constructs(cfg)
      BY <1>9, ValidateEnough DEF Construct
    <2> QED
      BY <1>9, <2>1 DEF Construct, Goto, startup
  <1>10. CASE \E s \in ServiceNames : Check(s)
    BY <1>10, <1>1 DEF Check, Goto
  <1>11. CASE Assemble
    BY <1>11 DEF Assemble, Goto
  <1>12. CASE SyncDefaults \/ SyncGroups \/ SyncAdmins
    BY <1>12, <1>1 DEF SyncDefaults, SyncGroups, SyncAdmins, SetCommands, Goto, startup
  <1>13. CASE StartRun \/ StopScheduler \/ StopBot
    BY <1>13 DEF StartRun, StopScheduler, StopBot, startup
  <1>14. CASE Join
    BY <1>14, <1>1 DEF Join
  <1>15. CASE LoopNext
    BY <1>15 DEF LoopNext, BeginStart, StartScheduler, EndStart, Loop, startup
  <1>16. CASE SchedulerStops
    BY <1>16 DEF SchedulerStops, startup
  <1> QED
    BY <1>2, <1>3, <1>4, <1>5, <1>6, <1>7, <1>8, <1>9, <1>10, <1>11, <1>12, <1>13,
       <1>14, <1>15, <1>16 DEF Next, MainNext

\* No start ends in a constructor: a file that Load and Validate accept, every
\* client, search service and bridge can be built from.
THEOREM Building == Spec => []AcceptedConfigBuilds
PROOF
  <1>1. Init => Configured
    BY DEF Init, Configured, Opened
  <1>2. Configured => AcceptedConfigBuilds
    BY DEF Configured, AcceptedConfigBuilds
  <1> QED
    BY <1>1, <1>2, ConfiguredStep, PTL DEF Spec

-----------------------------------------------------------------------------
(* What has been asked and set before anything is served                   *)

AfterPreflight == {"syncDefaults", "syncGroups", "syncAdmins", "run", "wait", "stopBot", "join"}
AfterDefaults == AfterPreflight \ {"syncDefaults"}
AfterGroups == AfterDefaults \ {"syncGroups"}
AfterAdmins == {"run", "wait", "stopBot", "join"}

\* The services that have answered, with the model their service has.
Passed ==
  /\ checked = [s \in ServiceNames |-> checked[s]]
  /\ main \in {"down", "load"} => checked = NothingChecked
  /\ \A s \in ServiceNames : checked[s] # "" => checked[s] = PreflightModel(s)
  /\ main \in AfterPreflight => executor /\ \A s \in Required : checked[s] # ""

\* The menus that are set, those of the admins up to `synced`.
MenusSet ==
  /\ menus = [scope \in Scopes |-> menus[scope]]
  /\ synced \in Nat
  /\ main \in {"down", "load"} => synced = 0
  /\ main \in AfterDefaults => menus[<<"private", 0>>] = "base"
  /\ main \in AfterGroups => menus[<<"groups", 0>>] = "base"
  /\ \A i \in 1..synced : cfg.admins[i] \in Ids => menus[<<"user", cfg.admins[i]>>] = "admin"
  /\ main \in AfterAdmins => synced = Len(cfg.admins)

ReadyInv == Lives /\ Configured /\ Passed /\ MenusSet

LEMMA ExitReady ==
  ASSUME NEW cause, Exit(cause)
  PROVE  Passed' /\ (menus' = [scope \in Scopes |-> menus'[scope]] => MenusSet')
PROOF
  <1>1. /\ main' = "down" /\ synced' = 0
        /\ checked' = NothingChecked
    BY DEF Exit
  <1>2. Passed'
    BY <1>1 DEF Passed, NothingChecked, AfterPreflight
  <1>3. menus' = [scope \in Scopes |-> menus'[scope]] => MenusSet'
    BY <1>1 DEF MenusSet, AfterPreflight, AfterDefaults, AfterGroups, AfterAdmins
  <1> QED
    BY <1>2, <1>3

LEMMA PassedStep ==
  ASSUME ReadyInv, [Next]_vars
  PROVE  Passed'
PROOF
  <1> USE DEF ReadyInv, Lives, Passed, AfterPreflight, Runs, PreflightModel, Required
  <1> SUFFICES ASSUME Next PROVE Passed'
    BY DEF vars, startup
  <1>1. CASE Launch
    BY <1>1 DEF Launch
  <1>2. CASE Die \/ Join
    BY <1>2, ExitReady DEF Die, Join
  <1>3. CASE SignalArrives
    BY <1>3 DEF SignalArrives, startup
  <1>4. CASE LoadConfig
    <2>1. CASE \E raw \in Files : Exit("config")
      BY <2>1, ExitReady
    <2>2. CASE main = "load" /\ main' = "open" /\ UNCHANGED <<checked, executor>>
      BY <2>2 DEF NothingChecked
    <2> QED
      BY <1>4, <2>1, <2>2 DEF LoadConfig, Goto
  <1>5. CASE OpenDatabase \/ Normalize \/ Up \/ Migrate \/ MarkClean
    BY <1>5, ExitReady DEF OpenDatabase, Normalize, Up, Migrate, MarkClean, Goto, startup
  <1>6. CASE ValidateConfig \/ CreateTelegramBot \/ Construct
    BY <1>6, ExitReady DEF ValidateConfig, CreateTelegramBot, Construct, Goto, startup
  <1>7. CASE \E s \in ServiceNames : Check(s)
    <2> PICK s \in ServiceNames : Check(s)
      BY <1>7
    <2>1. CASE Exit("preflight")
      BY <2>1, ExitReady
    <2>2. CASE /\ checked' = [checked EXCEPT ![s] = PreflightModel(s)]
               /\ Goto("preflight") /\ UNCHANGED <<mute, cfg, executor, synced>>
      BY <2>2 DEF Goto
    <2> QED
      BY <2>1, <2>2 DEF Check
  <1>8. CASE Assemble
    BY <1>8 DEF Assemble, Goto
  <1>9. CASE SyncDefaults \/ SyncGroups \/ SyncAdmins
    BY <1>9, ExitReady DEF SyncDefaults, SyncGroups, SyncAdmins, SetCommands, Goto, startup
  <1>10. CASE StartRun \/ StopScheduler \/ StopBot
    BY <1>10 DEF StartRun, StopScheduler, StopBot, startup
  <1>11. CASE LoopNext
    BY <1>11 DEF LoopNext, BeginStart, StartScheduler, EndStart, Loop, startup
  <1>12. CASE SchedulerStops
    BY <1>12 DEF SchedulerStops, startup
  <1> QED
    BY <1>1, <1>2, <1>3, <1>4, <1>5, <1>6, <1>7, <1>8, <1>9, <1>10, <1>11, <1>12
       DEF Next, MainNext

LEMMA MenusStep ==
  ASSUME ReadyInv, [Next]_vars
  PROVE  MenusSet'
PROOF
  <1> USE DEF ReadyInv, Lives, MenusSet, AfterPreflight, AfterDefaults, AfterGroups,
          AfterAdmins, Runs
  <1> SUFFICES ASSUME Next PROVE MenusSet'
    BY DEF vars, startup, outside
  <1>0. ASSUME NEW cause, Exit(cause), UNCHANGED menus
        PROVE  MenusSet'
    BY <1>0, ExitReady
  <1>1. CASE Launch
    BY <1>1 DEF Launch, outside
  <1>2. CASE Die \/ Join
    BY <1>2, <1>0 DEF Die, Join, outside
  <1>3. CASE SignalArrives
    BY <1>3 DEF SignalArrives, startup, outside
  <1>4. CASE LoadConfig
    BY <1>4, <1>0 DEF LoadConfig, Goto, outside
  <1>5. CASE OpenDatabase \/ Normalize \/ Up \/ Migrate \/ MarkClean
    BY <1>5, <1>0 DEF OpenDatabase, Normalize, Up, Migrate, MarkClean, Goto, startup, outside
  <1>6. CASE ValidateConfig \/ CreateTelegramBot \/ Construct
    BY <1>6, <1>0 DEF ValidateConfig, CreateTelegramBot, Construct, Goto, startup, outside
  <1>7. CASE \E s \in ServiceNames : Check(s)
    BY <1>7, <1>0 DEF Check, Goto, outside
  <1>8. CASE Assemble
    BY <1>8 DEF Assemble, Goto, outside
  <1>9. CASE SyncDefaults
    BY <1>9, <1>0 DEF SyncDefaults, SetCommands, Goto, startup, Scopes
  <1>10. CASE SyncGroups
    BY <1>10, <1>0 DEF SyncGroups, SetCommands, Goto, startup, Scopes
  <1>11. CASE SyncAdmins
    <2>1. CASE Exit("telegram") /\ UNCHANGED menus
      BY <2>1, <1>0
    <2>2. CASE /\ menus' = [menus EXCEPT ![<<"user", cfg.admins[synced + 1]>>] = "admin"]
               /\ synced' = synced + 1
               /\ Goto(IF synced + 1 = Len(cfg.admins) THEN "run" ELSE "syncAdmins")
               /\ UNCHANGED <<mute, cfg, checked, executor>>
      <3>1. /\ main' \in {"run", "syncAdmins"} /\ main = "syncAdmins"
            /\ main' = "run" => synced' = Len(cfg'.admins)
        BY <1>11, <2>2 DEF SyncAdmins, Goto
      <3>2. /\ menus' = [scope \in Scopes |-> menus'[scope]]
            /\ menus'[<<"private", 0>>] = "base" /\ menus'[<<"groups", 0>>] = "base"
        BY <2>2, <3>1 DEF Scopes
      <3>3. ASSUME NEW i \in 1..synced', cfg.admins[i] \in Ids
            PROVE  menus'[<<"user", cfg.admins[i]>>] = "admin"
        <4>1. i \in 1..synced \/ i = synced + 1
          BY <2>2
        <4>2. <<"user", cfg.admins[i]>> \in Scopes
          BY <3>3 DEF Scopes
        <4> QED
          BY <2>2, <3>3, <4>1, <4>2
      <3>4. cfg' = cfg /\ synced' \in Nat
        BY <2>2
      <3> QED
        BY <3>1, <3>2, <3>3, <3>4
    <2> QED
      BY <1>11, <2>1, <2>2 DEF SyncAdmins
  <1>12. CASE StartRun \/ StopScheduler \/ StopBot
    BY <1>12 DEF StartRun, StopScheduler, StopBot, startup, outside
  <1>13. CASE LoopNext
    BY <1>13 DEF LoopNext, BeginStart, StartScheduler, EndStart, Loop, startup, outside
  <1>14. CASE SchedulerStops
    BY <1>14 DEF SchedulerStops, startup, outside
  <1> QED
    BY <1>1, <1>2, <1>3, <1>4, <1>5, <1>6, <1>7, <1>8, <1>9, <1>10, <1>11, <1>12,
       <1>13, <1>14 DEF Next, MainNext

LEMMA ReadyServes ==
  ASSUME ReadyInv, Serving
  PROVE  ServesChecked
PROOF
  <1>1. main \in Runs
    BY DEF ReadyInv, Lives, Serving
  <1>2. /\ executor
        /\ \A s \in Required : checked[s] = PreflightModel(s)
    BY <1>1 DEF ReadyInv, Passed, Runs, AfterPreflight, Required, ServiceNames
  <1>3. cfg.model # ""
    BY <1>1 DEF ReadyInv, Configured, Runs, Opened, Validate
  <1>4. /\ menus[<<"private", 0>>] = "base" /\ menus[<<"groups", 0>>] = "base"
        /\ \A id \in Ids : IsAdminTGID(cfg, id) => menus[<<"user", id>>] = "admin"
    BY <1>1 DEF ReadyInv, MenusSet, Runs, AfterPreflight, AfterDefaults, AfterGroups,
                AfterAdmins, IsAdminTGID, Contains
  <1> QED
    BY <1>2, <1>3, <1>4 DEF ServesChecked, Required, PreflightModel, ServiceModel,
                           DefaultWebModel

\* Nothing is served before every enabled service has answered under the model it
\* will be asked for, the jobs have their executor, and the menus are set.
THEOREM Checking == Spec => []ServesChecked
PROOF
  <1>1. Init => ReadyInv
    <2> SUFFICES ASSUME Init PROVE ReadyInv
      OBVIOUS
    <2>1. Lives /\ Configured
      BY DEF Init, Lives, MainSteps, Configured, Opened
    <2>2. Passed
      BY DEF Init, Passed, NothingChecked, AfterPreflight
    <2>3. MenusSet
      BY DEF Init, MenusSet, AfterPreflight, AfterDefaults, AfterGroups, AfterAdmins
    <2> QED
      BY <2>1, <2>2, <2>3 DEF ReadyInv
  <1>2. ReadyInv /\ [Next]_vars => ReadyInv'
    BY LivesStep, ConfiguredStep, PassedStep, MenusStep DEF ReadyInv
  <1>3. ReadyInv => ServesChecked
    BY ReadyServes DEF ServesChecked
  <1> QED
    BY <1>1, <1>2, <1>3, PTL DEF Spec

-----------------------------------------------------------------------------
(* The admins of a file, and the types                                     *)

\* Lists without a repeat.
Distinct(X) == {s \in Seq(X) : \A i, j \in 1..Len(s) : s[i] = s[j] => i = j}

Take(taken, id) == IF id = 0 \/ Contains(taken, id) THEN taken ELSE Append(taken, id)

TakeStep(X) == [ti \in Distinct(X \ {0}) \X X |-> Take(ti[1], ti[2])]

LEMMA TakeTyped ==
  ASSUME NEW X
  PROVE  <<>> \in Distinct(X \ {0}) /\ StepOn(TakeStep(X), X, Distinct(X \ {0}))
<1>1. <<>> \in Distinct(X \ {0})
  BY DEF Distinct
<1>2. ASSUME NEW s \in Distinct(X \ {0}), NEW id \in X PROVE Take(s, id) \in Distinct(X \ {0})
  <2>1. s \in Seq(X \ {0}) /\ Len(s) \in Nat
    BY DEF Distinct
  <2>2. CASE id = 0 \/ Contains(s, id)
    BY <2>2 DEF Take
  <2>3. CASE id # 0 /\ ~Contains(s, id)
    <3> DEFINE u == Append(s, id)
    <3>1. Take(s, id) = u
      BY <2>3 DEF Take
    <3>2. u \in Seq(X \ {0}) /\ Len(u) = Len(s) + 1 /\ u[Len(s) + 1] = id
          /\ \A i \in 1..Len(s) : u[i] = s[i]
      BY <2>1, <2>3
    <3>3. \A i \in 1..Len(s) : s[i] # id
      BY <2>3 DEF Contains
    <3> HIDE DEF u
    <3>4. ASSUME NEW i \in 1..Len(u), NEW j \in 1..Len(u), u[i] = u[j] PROVE i = j
      <4>1. i \in 1..Len(s) \/ i = Len(s) + 1
        BY <2>1, <3>2
      <4>2. j \in 1..Len(s) \/ j = Len(s) + 1
        BY <2>1, <3>2
      <4> QED
        BY <3>2, <3>3, <3>4, <4>1, <4>2 DEF Distinct
    <3> QED
      BY <3>1, <3>2, <3>4 DEF Distinct
  <2> QED
    BY <2>2, <2>3
<1> HIDE DEF Distinct
<1>3. StepOn(TakeStep(X), X, Distinct(X \ {0}))
  BY <1>2 DEF TakeStep, StepOn
<1> QED
  BY <1>1, <1>3

\* The admins of a file are the ids it names, each once and without zeros.
LEMMA AdminIds ==
  ASSUME NEW X, NEW ids \in Seq(X), NEW legacy \in X
  PROVE  LET admins == NormalizeAdminTGIDs(ids, legacy)
             all == Append(ids, legacy)
         IN  /\ admins \in Distinct(X \ {0})
             /\ \A n \in 1..Len(all) : all[n] # 0 => Contains(admins, all[n])
<1> DEFINE all == Append(ids, legacy)
           Y == Distinct(X \ {0})
<1>1. /\ all \in Seq(X) /\ Len(all) \in Nat
      /\ \A n \in 1..Len(all) : all[n] \in X /\ n - 1 \in 0..Len(all)
  OBVIOUS
<1>2. <<>> \in Y /\ StepOn(TakeStep(X), X, Y)
  BY TakeTyped
<1> HIDE DEF all
<1>3. PICK f \in [0..Len(all) -> Y] : IsFold(f, TakeStep(X), <<>>, all)
  <2> HIDE DEF Y
  <2> QED
    BY <1>1, <1>2, FoldExists
<1>4. \A n \in 1..Len(all) : f[n] = Take(f[n - 1], all[n])
  <2> HIDE DEF Y
  <2>1. \A n \in 1..Len(all) : f[n - 1] \in Y
    BY <1>1, <1>3
  <2> QED
    BY <1>1, <1>3, <2>1 DEF IsFold, TakeStep, Y
<1>5. f = [n \in 0..Len(all) |-> IF n = 0 THEN <<>> ELSE Take(f[n - 1], all[n])]
  <2> HIDE DEF Y
  <2> QED
    BY <1>1, <1>3, <1>4 DEF IsFold
<1> DEFINE g == CHOOSE g :
                 g = [n \in 0..Len(all) |-> IF n = 0 THEN <<>> ELSE Take(g[n - 1], all[n])]
<1>6. g = [n \in 0..Len(all) |-> IF n = 0 THEN <<>> ELSE Take(g[n - 1], all[n])]
  BY <1>5
<1>7. NormalizeAdminTGIDs(ids, legacy) = g[Len(all)]
  BY DEF NormalizeAdminTGIDs, Take, all
<1> HIDE DEF g, Y
<1>8. Follows(g, f, Len(all))
  <2>1. \A n \in 1..Len(all) : n \in 0..Len(all) /\ n # 0
    BY <1>1
  <2>2. f[0] = <<>> /\ g[0] = <<>>
    BY <1>1, <1>3, <1>6 DEF IsFold
  <2> QED
    BY <1>4, <1>6, <2>1, <2>2 DEF Follows
<1>9. Agree(f, g, 0..Len(all))
  BY <1>1, <1>8, SameSteps
<1>10. NormalizeAdminTGIDs(ids, legacy) = f[Len(all)]
  BY <1>1, <1>7, <1>9 DEF Agree
<1> DEFINE S == {k \in 0..Len(all) : \A n \in 1..k : all[n] # 0 => Contains(f[k], all[n])}
<1>11. 0 \in S
  BY <1>1
<1>12. ASSUME NEW k \in 0..Len(all), k \in S, k # Len(all) PROVE k + 1 \in S
  <2>1. k \in Nat /\ k + 1 \in 1..Len(all) /\ (k + 1) - 1 = k /\ k + 1 \in 0..Len(all)
    BY <1>1, <1>12
  <2>2. f[k + 1] = Take(f[k], all[k + 1]) /\ f[k] \in Seq(X \ {0})
    BY <1>3, <1>4, <2>1 DEF Y, Distinct
  <2>3. ASSUME NEW id, Contains(f[k], id) PROVE Contains(f[k + 1], id)
    BY <2>2, <2>3 DEF Take, Contains
  <2>4. all[k + 1] # 0 => Contains(f[k + 1], all[k + 1])
    BY <2>2 DEF Take, Contains
  <2>5. ASSUME NEW n \in 1..(k + 1), all[n] # 0 PROVE Contains(f[k + 1], all[n])
    <3>1. n \in 1..k \/ n = k + 1
      BY <2>1
    <3> QED
      BY <1>12, <2>3, <2>4, <2>5, <3>1
  <2> QED
    BY <2>1, <2>5
<1>13. Len(all) \in S
  <2> HIDE DEF S
  <2>1. 0..Len(all) \subseteq S
    BY <1>1, <1>11, <1>12, Climbing
  <2> QED
    BY <1>1, <2>1
<1> QED
  BY <1>1, <1>3, <1>10, <1>13 DEF Y, all

Configs == {NoConfig} \cup {BuildConfig(file) : file \in Files}

\* The admins of every configuration are users.
LEMMA ConfigAdmins ==
  ASSUME NEW file \in Files
  PROVE  \A i \in DOMAIN BuildConfig(file).admins : BuildConfig(file).admins[i] \in Ids \ {0}
<1> DEFINE admins == BuildConfig(file).admins
<1>1. CASE file.admin = Absent
  <2>1. admins = <<>>
    BY <1>1 DEF BuildConfig
  <2> HIDE DEF admins
  <2>2. DOMAIN admins = {}
    BY <2>1
  <2> QED
    BY <2>2 DEF admins
<1>2. CASE file.admin # Absent
  <2>1. admins = NormalizeAdminTGIDs(file.admin.ids, file.admin.legacy)
    BY <1>2 DEF BuildConfig
  <2> HIDE DEF admins
  <2>2. file.admin.ids \in Seq(Ids \cup {0}) /\ file.admin.legacy \in Ids \cup {0}
    BY <1>2, FilesAssumption
  <2> DEFINE X == Ids \cup {0}
  <2>3. admins \in Distinct(X \ {0})
    <3> HIDE DEF X
    <3>1. file.admin.ids \in Seq(X) /\ file.admin.legacy \in X
      BY <2>2 DEF X
    <3> QED
      BY <2>1, <3>1, AdminIds
  <2>4. admins \in Seq(Ids \ {0})
    BY <2>3 DEF Distinct
  <2> QED
    BY <2>4 DEF admins
<1> QED
  BY <1>1, <1>2 DEF admins

TypeInv == TypeOK /\ Lives

\* What a step may leave of the types: the rest follows.
Outside == db \in DatabaseFiles /\ menus \in [Scopes -> {"none", "base", "admin"}]
Startup ==
  /\ cfg \in Configs /\ mute \subseteq ServiceNames /\ DOMAIN checked = ServiceNames
  /\ executor \in BOOLEAN /\ synced \in Nat
Running ==
  /\ exit \in {"none", "config", "database", "constructor", "telegram", "preflight",
               "stopped", "died"}
  /\ signal \in BOOLEAN /\ loop \in LoopSteps
  /\ stopFunc \in BOOLEAN /\ cancelled \in BOOLEAN
  /\ scheduler \in {"off", "on", "stopped"}

LEMMA TypesTogether ==
  TypeInv <=> Outside /\ Startup /\ Running /\ Lives
<1>1. cfg \in Configs /\ cfg # NoConfig => \A i \in DOMAIN cfg.admins : cfg.admins[i] \in Ids \ {0}
  <2> SUFFICES ASSUME cfg \in Configs, cfg # NoConfig
               PROVE  \A i \in DOMAIN cfg.admins : cfg.admins[i] \in Ids \ {0}
    OBVIOUS
  <2>1. PICK file \in Files : cfg = BuildConfig(file)
    BY DEF Configs
  <2> QED
    BY <2>1, ConfigAdmins
<1> QED
  BY <1>1, Zenon DEF TypeInv, TypeOK, Outside, Startup, Running, Lives, Configs

LEMMA TypesStep ==
  ASSUME TypeInv, [Next]_vars
  PROVE  Outside' /\ Startup' /\ Running'
<1> USE DEF LoopSteps
<1>1. Outside /\ Startup /\ Running
  BY TypesTogether
<1> SUFFICES ASSUME Next PROVE Outside' /\ Startup' /\ Running'
  BY <1>1 DEF vars, outside, startup, running, Outside, Startup, Running
<1>2. ASSUME NEW cause \in {"config", "database", "constructor", "telegram", "preflight",
                            "stopped", "died"}, Exit(cause)
      PROVE  Startup' /\ Running'
  BY <1>2 DEF Exit, Startup, Running, Configs, NothingChecked
<1>3. UNCHANGED outside => Outside'
  BY <1>1 DEF outside, Outside
<1>4. UNCHANGED startup => Startup'
  BY <1>1 DEF startup, Startup
<1>5. ASSUME NEW next, Goto(next) PROVE Running'
  BY <1>1, <1>5 DEF Goto, running, Running
<1>6. CASE Launch
  BY <1>1, <1>3, <1>6 DEF Launch, Startup, Running, running
<1>7. CASE Die \/ Join
  BY <1>2, <1>3, <1>7 DEF Die, Join
<1>8. CASE LoadConfig
  <2>1. UNCHANGED outside
    BY <1>8 DEF LoadConfig
  <2>2. PICK raw \in Files :
          \/ /\ cfg' = BuildConfig(raw)
             /\ Goto("open") /\ UNCHANGED <<mute, checked, executor, synced>>
          \/ Exit("config")
    BY <1>8 DEF LoadConfig
  <2>3. CASE Exit("config")
    BY <1>2, <1>3, <2>1, <2>3
  <2>4. CASE /\ cfg' = BuildConfig(raw)
             /\ Goto("open") /\ UNCHANGED <<mute, checked, executor, synced>>
    <3>1. cfg' \in Configs
      BY <2>4 DEF Configs
    <3> QED
      BY <1>1, <1>3, <1>5, <2>1, <2>4, <3>1 DEF Startup
  <2> QED
    BY <2>2, <2>3, <2>4
<1>9. CASE OpenDatabase \/ ValidateConfig \/ CreateTelegramBot \/ Construct
  BY <1>2, <1>3, <1>4, <1>5, <1>9
     DEF OpenDatabase, ValidateConfig, CreateTelegramBot, Construct
<1>10. CASE Normalize \/ Up \/ Migrate \/ MarkClean
  <2>1. db' \in DatabaseFiles
    <3>1. db \in DatabaseFiles
      BY <1>1 DEF Outside
    <3>2. \/ db' = db
          \/ db' = [db EXCEPT !.version = 1]
          \/ db' = [db EXCEPT !.version = 1, !.dirty = TRUE]
          \/ db' = [db EXCEPT !.schema = "whole"]
          \/ db' = [db EXCEPT !.dirty = FALSE]
      BY <1>10 DEF Normalize, Up, Migrate, MarkClean
    <3>3. 1 \in 0..11 /\ "whole" \in Schemas
      BY DEF Schemas
    <3>4. [db EXCEPT !.version = 1] \in DatabaseFiles
      BY <3>1, <3>3 DEF DatabaseFiles
    <3>5. [db EXCEPT !.version = 1, !.dirty = TRUE] \in DatabaseFiles
      BY <3>1, <3>3, Zenon DEF DatabaseFiles
    <3>6. [db EXCEPT !.schema = "whole"] \in DatabaseFiles
      BY <3>1, <3>3 DEF DatabaseFiles
    <3>7. [db EXCEPT !.dirty = FALSE] \in DatabaseFiles
      BY <3>1 DEF DatabaseFiles
    <3> QED
      BY <3>1, <3>2, <3>4, <3>5, <3>6, <3>7
  <2>2. menus' = menus
    BY <1>10 DEF Normalize, Up, Migrate, MarkClean
  <2>3. Startup' /\ Running'
    BY <1>2, <1>4, <1>5, <1>10 DEF Normalize, Up, Migrate, MarkClean, startup
  <2> QED
    BY <1>1, <2>1, <2>2, <2>3 DEF Outside
<1>11. CASE \E s \in ServiceNames : Check(s)
  <2>1. PICK s \in ServiceNames :
          /\ UNCHANGED outside
          /\ \/ /\ checked' = [checked EXCEPT ![s] = PreflightModel(s)]
                /\ Goto("preflight") /\ UNCHANGED <<mute, cfg, executor, synced>>
             \/ Exit("preflight")
    BY <1>11 DEF Check
  <2> QED
    BY <1>1, <1>2, <1>3, <1>5, <2>1 DEF Startup
<1>12. CASE Assemble
  BY <1>1, <1>3, <1>5, <1>12 DEF Assemble, outside, Startup, Outside
<1>13. CASE SyncDefaults \/ SyncGroups \/ SyncAdmins
  <2>1. db' = db /\ Running'
    BY <1>2, <1>5, <1>13 DEF SyncDefaults, SyncGroups, SyncAdmins, SetCommands
  <2>2. Startup'
    BY <1>1, <1>2, <1>4, <1>13 DEF SyncDefaults, SyncGroups, SyncAdmins, SetCommands, Startup
  <2>3. \/ menus' = menus
        \/ \E scope : menus' = [menus EXCEPT ![scope] = "base"]
        \/ \E scope : menus' = [menus EXCEPT ![scope] = "admin"]
    BY <1>13 DEF SyncDefaults, SyncGroups, SyncAdmins, SetCommands
  <2>4. menus' \in [Scopes -> {"none", "base", "admin"}]
    BY <1>1, <2>3 DEF Outside
  <2> QED
    BY <1>1, <2>1, <2>2, <2>4 DEF Outside
<1>14. CASE StartRun \/ SignalArrives \/ StopScheduler \/ StopBot
  BY <1>1, <1>3, <1>4, <1>14 DEF StartRun, SignalArrives, StopScheduler, StopBot, Running
<1>15. CASE LoopNext
  BY <1>1, <1>3, <1>4, <1>15 DEF LoopNext, BeginStart, StartScheduler, EndStart, Loop, Running
<1>16. CASE SchedulerStops
  BY <1>1, <1>3, <1>4, <1>16 DEF SchedulerStops, Running
<1> QED
  BY <1>6, <1>7, <1>8, <1>9, <1>10, <1>11, <1>12, <1>13, <1>14, <1>15, <1>16 DEF Next, MainNext

\* Every variable keeps its type, whatever the files hold: among others, the
\* admins are users, and no id is one for being left out.
THEOREM Typing == Spec => []TypeOK
<1>1. Init => TypeInv
  <2> SUFFICES ASSUME Init PROVE TypeInv
    OBVIOUS
  <2>1. Outside
    BY DatabasesAssumption DEF Init, Outside, Sound
  <2>2. Startup /\ Running /\ Lives
    BY DEF Init, Startup, Running, Lives, Configs, NothingChecked, LoopSteps, MainSteps
  <2> QED
    BY <2>1, <2>2, TypesTogether
<1>2. TypeInv /\ [Next]_vars => TypeInv'
  <2> SUFFICES ASSUME TypeInv, [Next]_vars PROVE TypeInv'
    OBVIOUS
  <2>1. Lives'
    BY LivesStep DEF TypeInv
  <2>2. Outside' /\ Startup' /\ Running'
    BY TypesStep
  <2>3. (TypeInv <=> Outside /\ Startup /\ Running /\ Lives)'
    BY TypesTogether, PTL
  <2> QED
    BY <2>1, <2>2, <2>3
<1>3. TypeInv => TypeOK
  BY DEF TypeInv
<1> QED
  BY <1>1, <1>2, <1>3, PTL DEF Spec

=============================================================================
