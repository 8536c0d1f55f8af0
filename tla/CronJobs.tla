------------------------------ MODULE CronJobs ------------------------------
(***************************************************************************)
(* Scheduled prompts: the cron_tasks table, the add/delete tool calls that *)
(* change it, and internal/cronjobs, which mirrors the table in a          *)
(* robfig/cron runner and runs each trigger in a goroutine of its own.     *)
(*                                                                         *)
(* Actors: handler slots (one tool call in progress each; telebot runs     *)
(* every update in its own goroutine), job slots (one fired trigger each), *)
(* the runner, and the process, which starts, is stopped, and dies.        *)
(* The rows survive a death of the process, everything else is rebuilt.    *)
(***************************************************************************)
EXTENDS Naturals

CONSTANTS
  Chats,      \* Telegram chats that own tasks
  Handlers,   \* tool calls that may be in progress at once
  Jobs,       \* fired triggers that may be in progress at once
  Flags,      \* addresses of the *atomic.Bool run flags
  MaxTask,    \* bound: ids the table hands out
  MaxEntry,   \* bound: entries one process registers with its runner
  DbFails,    \* whether a database call may fail (the 30 s context expires)
  NoChat, NoFlag, NoTask

ASSUME BoundsAssumption == /\ MaxTask \in Nat
                           /\ MaxEntry \in Nat
                           /\ DbFails \in BOOLEAN
ASSUME NullsAssumption == NoChat \notin Chats /\ NoFlag \notin Flags

TaskIds == 1..MaxTask
EntryIds == 1..MaxEntry
Tasks == [id : TaskIds, chat : Chats]
ASSUME NoTaskAssumption == NoTask \notin Tasks

VARIABLES
  rows,       \* cron_tasks: task id -> owning chat, or NoChat
  entries,    \* the runner's entries: entry id -> captured task, or NoTask
  nextEntry,  \* the next entry id the runner assigns
  entryIDs,   \* Service.entryIDs: task id -> entry id, 0 when absent
  running,    \* Service.running: task id -> flag address, NoFlag when absent
  raised,     \* the flags whose value is true
  jobs,       \* the fired triggers
  handlers,   \* the tool calls
  phase,      \* "down", "starting" or "up"
  runner,     \* "off" before Start ends, "on", "stopped"
  done,       \* the scheduler's lifecycle context is cancelled
  toRestore,  \* ids of the listed rows Start has not registered yet
  apart       \* history: ids whose row and entry overlapping tool calls, or a
              \* Create that failed half way, have set apart in this process

schedule == <<entries, nextEntry, entryIDs>>
process == <<phase, runner, done, toRestore>>
vars == <<rows, schedule, running, raised, jobs, handlers, process, apart>>

\* dropped is history: RemoveTask has dropped the id since the job looked its flag up.
IdleJob == [pc |-> "idle", call |-> "none", entry |-> 0, task |-> NoTask, flag |-> NoFlag,
            dropped |-> FALSE]
IdleHandler == [pc |-> "idle", chat |-> NoChat, id |-> 0, owner |-> NoChat, entry |-> 0]

JobPcs == {"idle", "fired", "flagged", "execute", "send", "release"}
HandlerPcs == {"idle", "insert", "reread", "addfunc", "register",
               "lookup", "reget", "delete", "remove"}

JobStates == [pc : JobPcs, call : {"none", "execute", "send"},
              entry : {0} \cup EntryIds, task : Tasks \cup {NoTask},
              flag : Flags \cup {NoFlag}, dropped : BOOLEAN]
HandlerStates == [pc : HandlerPcs, chat : Chats \cup {NoChat}, id : {0} \cup TaskIds,
                  owner : Chats \cup {NoChat}, entry : {0} \cup EntryIds]

Init ==
  /\ rows = [t \in TaskIds |-> NoChat]
  /\ entries = [e \in EntryIds |-> NoTask]
  /\ nextEntry = 1
  /\ entryIDs = [t \in TaskIds |-> 0]
  /\ running = [t \in TaskIds |-> NoFlag]
  /\ raised = {}
  /\ jobs = [j \in Jobs |-> IdleJob]
  /\ handlers = [h \in Handlers |-> IdleHandler]
  /\ phase = "down" /\ runner = "off" /\ done = FALSE /\ toRestore = {}
  /\ apart = {}

-----------------------------------------------------------------------------
(* The runner and the maps behind Service.mu.                              *)

UsedIds == {t \in TaskIds : rows[t] # NoChat}

\* INTEGER PRIMARY KEY without AUTOINCREMENT: one more than the largest id
\* present, so the id of a deleted last row is handed out again.
IsNextId(t) == /\ \A u \in UsedIds : u < t
               /\ t = 1 \/ t - 1 \in UsedIds

\* A flag nobody points to: the address a fresh &atomic.Bool{} may get.
Unreferenced(f) == /\ \A t \in TaskIds : running[t] # f
                   /\ \A j \in Jobs : jobs[j].flag # f

\* runner.AddFunc: the closure captures the task; ids are never reused.
AddFunc(task) ==
  /\ nextEntry \in EntryIds
  /\ entries' = [entries EXCEPT ![nextEntry] = task]
  /\ nextEntry' = nextEntry + 1

\* Mutant: the entry the id had is left in the runner.
TrackKeepsOld(t, e) ==
  /\ entryIDs' = [entryIDs EXCEPT ![t] = e]
  /\ \/ running[t] # NoFlag /\ UNCHANGED running
     \/ /\ running[t] = NoFlag
        /\ \E f \in Flags : Unreferenced(f) /\ running' = [running EXCEPT ![t] = f]
  /\ UNCHANGED entries

\* The critical section of AddTask: drop the entry the id had, track the new
\* one, and make a flag unless the id still has one.
Track(t, e) ==
  /\ entries' = IF entryIDs[t] = 0 THEN entries
                ELSE [entries EXCEPT ![entryIDs[t]] = NoTask]
  /\ entryIDs' = [entryIDs EXCEPT ![t] = e]
  /\ \/ running[t] # NoFlag /\ UNCHANGED running
     \/ /\ running[t] = NoFlag
        /\ \E f \in Flags : Unreferenced(f) /\ running' = [running EXCEPT ![t] = f]

-----------------------------------------------------------------------------
(* The process: Service.Start, the lifecycle context and process death.    *)

\* Runtime.Start calls Service.Start, which lists the rows.
Boot ==
  /\ phase = "down"
  /\ phase' = "starting"
  /\ toRestore' = UsedIds
  /\ UNCHANGED <<rows, schedule, running, raised, jobs, handlers, runner, done, apart>>

\* List fails: Start returns the error before the runner is started;
\* Runtime.Start cancels the lifecycle context and polls without a scheduler.
BootListFails ==
  /\ DbFails /\ phase = "down"
  /\ phase' = "up" /\ done' = TRUE
  /\ UNCHANGED <<rows, schedule, running, raised, jobs, handlers, runner, toRestore, apart>>

\* Mutant: Start calls runner.AddFunc itself and tracks nothing.
RestoreUntracked(t) ==
  /\ phase = "starting" /\ t \in toRestore
  /\ AddFunc([id |-> t, chat |-> rows[t]])
  /\ toRestore' = toRestore \ {t}
  /\ UNCHANGED <<rows, entryIDs, running, raised, jobs, handlers, phase, runner, done, apart>>

\* One turn of Start's loop. Neither jobs nor handlers run yet, so AddFunc and
\* the critical section of AddTask are one step; no id is tracked twice.
RestoreTask(t) ==
  /\ phase = "starting" /\ t \in toRestore
  /\ AddFunc([id |-> t, chat |-> rows[t]])
  /\ entryIDs' = [entryIDs EXCEPT ![t] = nextEntry]
  /\ \E f \in Flags : Unreferenced(f) /\ running' = [running EXCEPT ![t] = f]
  /\ toRestore' = toRestore \ {t}
  /\ UNCHANGED <<rows, raised, jobs, handlers, phase, runner, done, apart>>

\* runner.Start; after it the bot starts polling.
StartRunner ==
  /\ phase = "starting" /\ toRestore = {}
  /\ phase' = "up" /\ runner' = "on"
  /\ UNCHANGED <<rows, schedule, running, raised, jobs, handlers, done, toRestore, apart>>

\* Runtime.Stop cancels the lifecycle context ...
Stop ==
  /\ phase # "down" /\ ~done
  /\ done' = TRUE
  /\ UNCHANGED <<rows, schedule, running, raised, jobs, handlers, phase, runner, toRestore, apart>>

\* ... and the goroutine Start left behind stops the runner.
StopRunner ==
  /\ done /\ runner = "on"
  /\ runner' = "stopped"
  /\ UNCHANGED <<rows, schedule, running, raised, jobs, handlers, phase, done, toRestore, apart>>

\* The process exits or dies at any point; only the rows remain.
Die ==
  /\ phase # "down"
  /\ entries' = [e \in EntryIds |-> NoTask]
  /\ nextEntry' = 1
  /\ entryIDs' = [t \in TaskIds |-> 0]
  /\ running' = [t \in TaskIds |-> NoFlag]
  /\ raised' = {}
  /\ jobs' = [j \in Jobs |-> IdleJob]
  /\ handlers' = [h \in Handlers |-> IdleHandler]
  /\ phase' = "down" /\ runner' = "off" /\ done' = FALSE /\ toRestore' = {}
  /\ apart' = {}
  /\ UNCHANGED rows

-----------------------------------------------------------------------------
(* A fired trigger: the function buildJob returns, run by `go` per entry.  *)

FreeJob(j) == jobs[j].pc = "idle" /\ jobs[j].call = "none"

\* The run holds its flag: from the CAS to the deferred Store(false).
Running(j) == jobs[j].pc \in {"execute", "send", "release"}

Fire(j, e) ==
  /\ runner = "on" /\ entries[e] # NoTask /\ FreeJob(j)
  /\ jobs' = [jobs EXCEPT ![j] = [IdleJob EXCEPT !.pc = "fired", !.entry = e,
                                                 !.task = entries[e]]]
  /\ UNCHANGED <<rows, schedule, running, raised, handlers, process, apart>>

\* Mutant: runningFlag makes a flag and does not store it.
LookupFreshFlag(j) ==
  /\ jobs[j].pc = "fired"
  /\ \E f \in Flags :
       /\ Unreferenced(f)
       /\ jobs' = [jobs EXCEPT ![j] = [@ EXCEPT !.pc = "flagged", !.flag = f]]
  /\ UNCHANGED <<rows, schedule, running, raised, handlers, process, apart>>

\* runningFlag: the id's flag, made anew when a removal has taken it away.
LookupFlag(j) ==
  /\ jobs[j].pc = "fired"
  /\ LET t == jobs[j].task.id
         Found(f) == jobs' = [jobs EXCEPT ![j] = [@ EXCEPT !.pc = "flagged", !.flag = f]]
     IN  \/ running[t] # NoFlag /\ Found(running[t]) /\ UNCHANGED running
         \/ /\ running[t] = NoFlag
            /\ \E f \in Flags : /\ Unreferenced(f)
                                /\ running' = [running EXCEPT ![t] = f]
                                /\ Found(f)
  /\ UNCHANGED <<rows, schedule, raised, handlers, process, apart>>

\* Mutant: Store(true) in place of the CompareAndSwap.
BeginUnchecked(j) ==
  /\ jobs[j].pc = "flagged"
  /\ raised' = raised \cup {jobs[j].flag}
  /\ jobs' = [jobs EXCEPT ![j] = [@ EXCEPT !.pc = "execute", !.call = "execute"]]
  /\ UNCHANGED <<rows, schedule, running, handlers, process, apart>>

\* CompareAndSwap(false, true) succeeds: newJobContext, and executeScheduled
\* hands the prompt to a goroutine of its own.
Begin(j) ==
  /\ jobs[j].pc = "flagged" /\ jobs[j].flag \notin raised
  /\ raised' = raised \cup {jobs[j].flag}
  /\ jobs' = [jobs EXCEPT ![j] = [@ EXCEPT !.pc = "execute", !.call = "execute"]]
  /\ UNCHANGED <<rows, schedule, running, handlers, process, apart>>

\* The CAS fails: the run is skipped.
Skip(j) ==
  /\ jobs[j].pc = "flagged" /\ jobs[j].flag \in raised
  /\ jobs' = [jobs EXCEPT ![j] = IdleJob]
  /\ UNCHANGED <<rows, schedule, running, raised, handlers, process, apart>>

\* The awaited ExecuteScheduled answers: a text is sent by another goroutine,
\* an error or an empty text ends the run.
Answer(j, hasText) ==
  /\ jobs[j].pc = "execute" /\ jobs[j].call = "execute"
  /\ jobs' = [jobs EXCEPT ![j] =
               IF hasText THEN [@ EXCEPT !.pc = "send", !.call = "send"]
                          ELSE [@ EXCEPT !.pc = "release", !.call = "none"]]
  /\ UNCHANGED <<rows, schedule, running, raised, handlers, process, apart>>

\* The awaited Send returns, with or without an error.
Sent(j) ==
  /\ jobs[j].pc = "send" /\ jobs[j].call = "send"
  /\ jobs' = [jobs EXCEPT ![j] = [@ EXCEPT !.pc = "release", !.call = "none"]]
  /\ UNCHANGED <<rows, schedule, running, raised, handlers, process, apart>>

\* Mutant: sendResult waits for the sender alone.
GiveUpExecution(j) ==
  /\ jobs[j].pc = "execute" /\ done
  /\ jobs' = [jobs EXCEPT ![j] = [@ EXCEPT !.pc = "release"]]
  /\ UNCHANGED <<rows, schedule, running, raised, handlers, process, apart>>

\* Either select takes ctx.Done: the run gives up, the call goes on alone.
GiveUp(j) ==
  /\ jobs[j].pc \in {"execute", "send"} /\ done
  /\ jobs' = [jobs EXCEPT ![j] = [@ EXCEPT !.pc = "release"]]
  /\ UNCHANGED <<rows, schedule, running, raised, handlers, process, apart>>

\* running.Store(false); a call that was given up on outlives the run.
Release(j) ==
  /\ jobs[j].pc = "release"
  /\ raised' = raised \ {jobs[j].flag}
  /\ jobs' = [jobs EXCEPT ![j] = [IdleJob EXCEPT !.call = @]]
  /\ UNCHANGED <<rows, schedule, running, handlers, process, apart>>

\* A call nobody waits for returns into its buffered channel.
LateReturn(j) ==
  /\ jobs[j].call # "none" /\ jobs[j].pc \in {"idle", "release"}
  /\ jobs' = [jobs EXCEPT ![j].call = "none"]
  /\ UNCHANGED <<rows, schedule, running, raised, handlers, process, apart>>

-----------------------------------------------------------------------------
(* The add-cron-task and delete-cron-task calls of chat.Service.           *)

Step(h, record) == handlers' = [handlers EXCEPT ![h] = record]

\* The call has inserted the row of t and not registered its entry yet ...
Storing(h, t) == handlers[h].pc \in {"reread", "addfunc", "register"} /\ handlers[h].id = t

\* ... and has read that row back.
Scheduling(h, t) == handlers[h].pc \in {"addfunc", "register"} /\ handlers[h].id = t

\* The call has deleted the row of t and not reached RemoveTask yet.
Clearing(h, t) == handlers[h].pc = "remove" /\ handlers[h].id = t

\* History: from here on the row and the entry of t may differ.
Part(t, differs) == apart' = IF differs THEN apart \cup {t} ELSE apart

\* A call of the model in an active chat, its arguments already accepted.
CallAdd(h, c) ==
  /\ phase = "up" /\ handlers[h].pc = "idle"
  /\ Step(h, [IdleHandler EXCEPT !.pc = "insert", !.chat = c])
  /\ UNCHANGED <<rows, schedule, running, raised, jobs, process, apart>>

CallDelete(h, c, t) ==
  /\ phase = "up" /\ handlers[h].pc = "idle"
  /\ Step(h, [IdleHandler EXCEPT !.pc = "lookup", !.chat = c, !.id = t])
  /\ UNCHANGED <<rows, schedule, running, raised, jobs, process, apart>>

\* CronTasksRepo.Create, first statement: INSERT.
Insert(h, t) ==
  /\ handlers[h].pc = "insert" /\ IsNextId(t)
  /\ rows' = [rows EXCEPT ![t] = handlers[h].chat]
  /\ Step(h, [handlers[h] EXCEPT !.pc = "reread", !.id = t])
  /\ Part(t, \E g \in Handlers : Storing(g, t) \/ Clearing(g, t))
  /\ UNCHANGED <<schedule, running, raised, jobs, process>>

\* Mutant: Create ignores ErrNotFound and returns an empty task.
RereadUnchecked(h) ==
  /\ handlers[h].pc = "reread"
  /\ Step(h, [handlers[h] EXCEPT !.pc = "addfunc", !.owner = rows[handlers[h].id]])
  /\ UNCHANGED <<rows, schedule, running, raised, jobs, process, apart>>

\* CronTasksRepo.Create, second statement: GetByID of the new id, which fails
\* when the row is gone already.
Reread(h) ==
  /\ handlers[h].pc = "reread"
  /\ LET owner == rows[handlers[h].id] IN
       Step(h, IF owner = NoChat THEN IdleHandler
               ELSE [handlers[h] EXCEPT !.pc = "addfunc", !.owner = owner])
  /\ UNCHANGED <<rows, schedule, running, raised, jobs, process, apart>>

\* Service.AddTask before its lock. The schedule parsed in addCronTask already,
\* with the same parser, so AddFunc succeeds.
Schedule(h) ==
  /\ handlers[h].pc = "addfunc"
  /\ AddFunc([id |-> handlers[h].id, chat |-> handlers[h].owner])
  /\ Step(h, [handlers[h] EXCEPT !.pc = "register", !.entry = nextEntry])
  /\ UNCHANGED <<rows, entryIDs, running, raised, jobs, process, apart>>

\* Mutant: AddTask forgets the entry it made.
RegisterNothing(h) ==
  /\ handlers[h].pc = "register"
  /\ Step(h, IdleHandler)
  /\ UNCHANGED <<rows, schedule, running, raised, jobs, process, apart>>

\* Service.AddTask under its lock.
Register(h) ==
  /\ handlers[h].pc = "register"
  /\ Track(handlers[h].id, handlers[h].entry)
  /\ Step(h, IdleHandler)
  /\ UNCHANGED <<rows, nextEntry, raised, jobs, process, apart>>

\* deleteCronTask: GetByID and the ownership check.
Lookup(h) ==
  /\ handlers[h].pc = "lookup"
  /\ Step(h, IF rows[handlers[h].id] = handlers[h].chat
             THEN [handlers[h] EXCEPT !.pc = "reget"] ELSE IdleHandler)
  /\ UNCHANGED <<rows, schedule, running, raised, jobs, process, apart>>

\* CronTasksRepo.DeleteByID, first statement: GetByID again.
Reget(h) ==
  /\ handlers[h].pc = "reget"
  /\ Step(h, IF rows[handlers[h].id] # NoChat
             THEN [handlers[h] EXCEPT !.pc = "delete"] ELSE IdleHandler)
  /\ UNCHANGED <<rows, schedule, running, raised, jobs, process, apart>>

\* CronTasksRepo.DeleteByID, second statement: DELETE by id alone.
Delete(h) ==
  /\ handlers[h].pc = "delete"
  /\ LET t == handlers[h].id IN
       IF rows[t] = NoChat
       THEN Step(h, IdleHandler) /\ UNCHANGED <<rows, apart>>
       ELSE /\ rows' = [rows EXCEPT ![t] = NoChat]
            /\ Step(h, [handlers[h] EXCEPT !.pc = "remove"])
            /\ Part(t, \E g \in Handlers : Scheduling(g, t))
  /\ UNCHANGED <<schedule, running, raised, jobs, process>>

\* Mutant: RemoveTask keeps the entry in the runner.
RemoveKeepsEntry(h) ==
  /\ handlers[h].pc = "remove"
  /\ entryIDs' = [entryIDs EXCEPT ![handlers[h].id] = 0]
  /\ running' = [running EXCEPT ![handlers[h].id] = NoFlag]
  /\ Step(h, IdleHandler)
  /\ UNCHANGED <<rows, entries, nextEntry, raised, jobs, process, apart>>

\* The jobs that hold the flag of t when RemoveTask drops it.
Dropped(t) ==
  [j \in Jobs |-> IF jobs[j].pc \notin {"idle", "fired"} /\ jobs[j].task.id = t
                  THEN [jobs[j] EXCEPT !.dropped = TRUE] ELSE jobs[j]]

\* Service.RemoveTask, under its lock.
Remove(h) ==
  /\ handlers[h].pc = "remove"
  /\ LET t == handlers[h].id IN
       IF entryIDs[t] = 0
       THEN UNCHANGED <<entries, entryIDs, running, jobs>>
       ELSE /\ entries' = [entries EXCEPT ![entryIDs[t]] = NoTask]
            /\ entryIDs' = [entryIDs EXCEPT ![t] = 0]
            /\ running' = [running EXCEPT ![t] = NoFlag]
            /\ jobs' = Dropped(t)
  /\ Step(h, IdleHandler)
  /\ UNCHANGED <<rows, nextEntry, raised, process, apart>>

\* A statement fails, or the request's context has expired before it; a row whose
\* second statement fails stays without an entry.
DbError(h) ==
  /\ DbFails /\ handlers[h].pc \in {"insert", "reread", "lookup", "reget", "delete"}
  /\ Step(h, IdleHandler)
  /\ Part(handlers[h].id, handlers[h].pc = "reread")
  /\ UNCHANGED <<rows, schedule, running, raised, jobs, process>>

-----------------------------------------------------------------------------
ProcessNext == \/ Boot \/ BootListFails \/ StartRunner \/ Stop \/ StopRunner \/ Die
               \/ \E t \in TaskIds : RestoreTask(t)

JobNext(j) == \/ \E e \in EntryIds : Fire(j, e)
              \/ LookupFlag(j) \/ Begin(j) \/ Skip(j)
              \/ \E hasText \in BOOLEAN : Answer(j, hasText)
              \/ Sent(j) \/ GiveUp(j) \/ Release(j) \/ LateReturn(j)

HandlerNext(h) == \/ \E c \in Chats : CallAdd(h, c)
                  \/ \E c \in Chats, t \in TaskIds : CallDelete(h, c, t)
                  \/ \E t \in TaskIds : Insert(h, t)
                  \/ Reread(h) \/ Schedule(h) \/ Register(h)
                  \/ Lookup(h) \/ Reget(h) \/ Delete(h) \/ Remove(h) \/ DbError(h)

Next == \/ ProcessNext
        \/ \E j \in Jobs : JobNext(j)
        \/ \E h \in Handlers : HandlerNext(h)

Spec == Init /\ [][Next]_vars

\* The goroutine's own steps run on; nothing is assumed of the model, the
\* tools or Telegram, which may never answer.
JobFairness(j) == WF_vars(LookupFlag(j) \/ Begin(j) \/ Skip(j) \/ GiveUp(j) \/ Release(j))
FairSpec == Spec /\ WF_vars(StopRunner) /\ \A j \in Jobs : JobFairness(j)

-----------------------------------------------------------------------------
(* Properties.                                                             *)

TypeOK ==
  /\ rows \in [TaskIds -> Chats \cup {NoChat}]
  /\ entries \in [EntryIds -> Tasks \cup {NoTask}]
  /\ nextEntry \in 1..(MaxEntry + 1)
  /\ entryIDs \in [TaskIds -> {0} \cup EntryIds]
  /\ running \in [TaskIds -> Flags \cup {NoFlag}]
  /\ raised \subseteq Flags
  /\ jobs \in [Jobs -> JobStates]
  /\ handlers \in [Handlers -> HandlerStates]
  /\ phase \in {"down", "starting", "up"}
  /\ runner \in {"off", "on", "stopped"}
  /\ done \in BOOLEAN
  /\ toRestore \subseteq TaskIds /\ apart \subseteq TaskIds

\* A raised flag belongs to one run in progress, and two runs never share one:
\* no run is locked out by a flag nobody will lower, and no CAS lets two in.
FlagExclusive ==
  /\ \A f \in raised : \E j \in Jobs : Running(j) /\ jobs[j].flag = f
  /\ \A j \in Jobs : Running(j) => jobs[j].flag \in raised
  /\ \A i, j \in Jobs : Running(i) /\ Running(j) /\ i # j => jobs[i].flag # jobs[j].flag

\* AddTask has put the entry in the runner and not yet tracked it.
Pending(h, e) == handlers[h].pc = "register" /\ handlers[h].entry = e

\* Every entry of the runner can still be reached for removal: entryIDs tracks
\* it under its own task, or the AddTask that made it has yet to do so.
EntriesTracked ==
  \A e \in EntryIds : entries[e] # NoTask =>
    entryIDs[entries[e].id] = e \/ \E h \in Handlers : Pending(h, e)

\* While Start restores, the tracked entries are the rows done so far and
\* nothing else, whatever the death of the process left half done.
RestoreMirrorsRows ==
  phase = "starting" =>
    \A t \in TaskIds :
      IF rows[t] = NoChat \/ t \in toRestore THEN entryIDs[t] = 0
      ELSE entryIDs[t] # 0 /\ entries[entryIDs[t]] = [id |-> t, chat |-> rows[t]]

\* "Same task already running?" (README, Scheduled Tasks): two runs for one id are in
\* progress together only when RemoveTask has dropped the id while one of them held
\* its flag; nothing else ever gives an id a second flag. It may have been the call
\* that deletes an earlier task of that id, and comes late.
RunsExclude ==
  \A i, j \in Jobs :
    /\ i # j /\ Running(i) /\ Running(j) /\ jobs[i].task.id = jobs[j].task.id
    => jobs[i].dropped \/ jobs[j].dropped

\* What is scheduled is persisted, under the same id and for the same chat,
\* once the DELETE in progress has reached RemoveTask.
EntriesHaveRows ==
  \A t \in TaskIds \ apart :
    entryIDs[t] # 0 /\ ~(\E h \in Handlers : Clearing(h, t))
      => entries[entryIDs[t]] = [id |-> t, chat |-> rows[t]]

\* What is persisted is scheduled, once Start has listed the rows and the INSERT
\* in progress has reached AddTask's lock.
RowsHaveEntries ==
  runner # "off" =>
    \A t \in TaskIds \ apart :
      rows[t] # NoChat /\ ~(\E h \in Handlers : Storing(h, t)) =>
        entryIDs[t] # 0 /\ entries[entryIDs[t]] = [id |-> t, chat |-> rows[t]]

\* Whatever calls run side by side, the row and the entry of an id mirror each other
\* unless a DELETE has come between another call's GetByID and AddTask of that id, an
\* INSERT between another call's DELETE and RemoveTask, or a Create has failed half way.
EntriesMirrorRows == EntriesHaveRows /\ RowsHaveEntries

\* Once the lifecycle context is cancelled every job goroutine ends, though an
\* executor or a send may hang for ever.
StopDrains == done ~> \A j \in Jobs : jobs[j].pc = "idle"

\* A tool call deletes rows of its own chat only; the id it checked may name
\* another chat's row by the time of the DELETE.
DeletesOwnRows ==
  [][\A t \in TaskIds : rows[t] # NoChat /\ rows'[t] = NoChat =>
       \E h \in Handlers : /\ handlers[h].pc = "delete" /\ handlers[h].id = t
                           /\ handlers[h].chat = rows[t]
                           /\ handlers'[h].pc = "remove"]_vars

\* What the table, the tool calls and the runner make of the chats' tasks together
\* is what TaskLife promises, through calls side by side, calls that fail, stops,
\* deaths and ids that are given again.
Promised == INSTANCE TaskLife WITH
  Ids <- TaskIds, Owners <- Chats, Numbers <- EntryIds, Nobody <- NoChat,
  owner <- rows,
  triggers <- {[number |-> e, id |-> entries[e].id, chat |-> entries[e].chat] :
                 e \in {k \in EntryIds : entries[k] # NoTask}},
  storing <- {t \in TaskIds : \E h \in Handlers : Storing(h, t)},
  clearing <- {t \in TaskIds : \E h \in Handlers : Clearing(h, t)},
  loose <- apart

KeepsPromise == Promised!Spec

=============================================================================
