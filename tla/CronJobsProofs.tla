--------------------------- MODULE CronJobsProofs ---------------------------
(***************************************************************************)
(* Theorems of CronJobs for every set of chats, tool calls, jobs and flags *)
(* and every bound: its types, the exclusive run flags, and that no entry  *)
(* of the runner is ever out of reach; when two runs of one id exclude     *)
(* each other; and what the table, the tool calls and the runner promise   *)
(* together, whatever calls run side by side.                              *)
(***************************************************************************)
EXTENDS CronJobs, TLAPS

(* What a job, a tool call and the process are at each program counter.    *)

JobShape ==
  \A j \in Jobs :
    /\ jobs[j].pc # "idle" => jobs[j].task \in Tasks /\ jobs[j].entry \in EntryIds
    /\ jobs[j].pc \notin {"idle", "fired"} => jobs[j].flag \in Flags

HandlerShape ==
  \A h \in Handlers :
    /\ handlers[h].pc # "idle" => phase = "up" /\ handlers[h].chat \in Chats
    /\ handlers[h].pc \notin {"idle", "insert"} => handlers[h].id \in TaskIds
    /\ handlers[h].pc = "addfunc" => handlers[h].owner \in Chats
    /\ handlers[h].pc = "register" => handlers[h].entry \in EntryIds

\* Start works on the rows of a table nobody else writes, before the runner runs.
ProcessShape ==
  /\ phase # "up" => runner = "off"
  /\ \A t \in toRestore : phase = "starting" /\ rows[t] \in Chats
  /\ phase = "down" => /\ \A t \in TaskIds : entryIDs[t] = 0
                       /\ \A e \in EntryIds : entries[e] = NoTask

TypeInv == TypeOK /\ JobShape /\ HandlerShape /\ ProcessShape

(* The runner's entries against entryIDs.                                  *)

TrackedEntries ==
  \A t \in TaskIds : entryIDs[t] # 0 =>
    /\ entryIDs[t] < nextEntry
    /\ entries[entryIDs[t]] \in Tasks /\ entries[entryIDs[t]].id = t

PendingEntries ==
  \A h \in Handlers : handlers[h].pc = "register" =>
    /\ handlers[h].entry < nextEntry
    /\ entries[handlers[h].entry] \in Tasks
    /\ entries[handlers[h].entry].id = handlers[h].id
    /\ \A t \in TaskIds : entryIDs[t] # handlers[h].entry
    /\ \A g \in Handlers : handlers[g].pc = "register" /\ g # h =>
         handlers[g].entry # handlers[h].entry

EntryInv == TrackedEntries /\ PendingEntries /\ EntriesTracked /\ RestoreMirrorsRows

-----------------------------------------------------------------------------
(* Types.                                                                  *)

\* The initial state is well formed.
LEMMA TypeInit == Init => TypeInv
<1> SUFFICES ASSUME Init PROVE TypeInv
  OBVIOUS
<1>1. IdleJob \in JobStates /\ IdleHandler \in HandlerStates
  BY DEF IdleJob, IdleHandler, JobStates, HandlerStates, JobPcs, HandlerPcs
<1>2. jobs \in [Jobs -> JobStates] /\ handlers \in [Handlers -> HandlerStates]
  BY <1>1 DEF Init
<1>3. TypeOK
  <2>1. /\ rows \in [TaskIds -> Chats \cup {NoChat}]
        /\ entries \in [EntryIds -> Tasks \cup {NoTask}]
        /\ running \in [TaskIds -> Flags \cup {NoFlag}]
    BY DEF Init
  <2>2. nextEntry \in 1..(MaxEntry + 1) /\ entryIDs \in [TaskIds -> {0} \cup EntryIds]
    BY BoundsAssumption DEF Init
  <2>3. /\ done \in BOOLEAN /\ phase \in {"down", "starting", "up"}
        /\ runner \in {"off", "on", "stopped"}
        /\ raised \subseteq Flags /\ toRestore \subseteq TaskIds
        /\ apart \subseteq TaskIds
    BY DEF Init
  <2> QED
    BY <1>2, <2>1, <2>2, <2>3 DEF TypeOK
<1>4. JobShape /\ HandlerShape /\ ProcessShape
  BY DEF Init, JobShape, HandlerShape, ProcessShape, IdleJob, IdleHandler
<1> QED
  BY <1>3, <1>4 DEF TypeInv

\* Rewriting a job's program counter, alone or with one other field, in type.
LEMMA JobWrite ==
  ASSUME NEW r \in JobStates, NEW p \in JobPcs
  PROVE  /\ [r EXCEPT !.pc = p] \in JobStates
         /\ \A c \in {"none", "execute", "send"} : [r EXCEPT !.pc = p, !.call = c] \in JobStates
         /\ \A f \in Flags : [r EXCEPT !.pc = p, !.flag = f] \in JobStates
  BY DEF JobStates

\* The same for a tool call and the entry it has just been given.
LEMMA HandlerWrite ==
  ASSUME NEW r \in HandlerStates, NEW p \in HandlerPcs, NEW e \in EntryIds
  PROVE  [r EXCEPT !.pc = p, !.entry = e] \in HandlerStates
  BY DEF HandlerStates

\* Dropping an id's flag changes what is known of the runs that hold it, no more.
LEMMA DropWrite ==
  ASSUME jobs \in [Jobs -> JobStates], NEW t
  PROVE  /\ Dropped(t) \in [Jobs -> JobStates]
         /\ \A j \in Jobs :
              /\ Dropped(t)[j].pc = jobs[j].pc /\ Dropped(t)[j].entry = jobs[j].entry
              /\ Dropped(t)[j].task = jobs[j].task /\ Dropped(t)[j].flag = jobs[j].flag
              /\ ~Dropped(t)[j].dropped => /\ ~jobs[j].dropped
                                           /\ jobs[j].pc \in {"idle", "fired"} \/ jobs[j].task.id # t
<1>1. ASSUME NEW j \in Jobs
      PROVE  /\ Dropped(t)[j] \in JobStates
             /\ Dropped(t)[j].pc = jobs[j].pc /\ Dropped(t)[j].entry = jobs[j].entry
             /\ Dropped(t)[j].task = jobs[j].task /\ Dropped(t)[j].flag = jobs[j].flag
             /\ ~Dropped(t)[j].dropped => /\ ~jobs[j].dropped
                                          /\ jobs[j].pc \in {"idle", "fired"} \/ jobs[j].task.id # t
  <2>1. jobs[j] \in JobStates
    OBVIOUS
  <2>2. CASE jobs[j].pc \notin {"idle", "fired"} /\ jobs[j].task.id = t
    BY <2>1, <2>2 DEF Dropped, JobStates
  <2>3. CASE ~(jobs[j].pc \notin {"idle", "fired"} /\ jobs[j].task.id = t)
    BY <2>1, <2>3 DEF Dropped, JobStates
  <2> QED
    BY <2>2, <2>3
<1> QED
  BY <1>1 DEF Dropped

\* Every step keeps types and shapes: an action writes a program counter
\* together with the fields the next action at that counter reads.
LEMMA TypeNext == TypeInv /\ [Next]_vars => TypeInv'
<1> SUFFICES ASSUME TypeInv, [Next]_vars PROVE TypeInv'
  OBVIOUS
<1> USE BoundsAssumption, NullsAssumption, NoTaskAssumption
      DEF TypeInv, TypeOK, JobShape, HandlerShape, ProcessShape,
          schedule, process, JobStates, HandlerStates, JobPcs, HandlerPcs
<1>1. CASE Boot
  BY <1>1 DEF Boot, UsedIds
<1>2. CASE BootListFails
  BY <1>2 DEF BootListFails
<1>3. CASE StartRunner
  BY <1>3 DEF StartRunner
<1>4. CASE Stop
  BY <1>4 DEF Stop
<1>5. CASE StopRunner
  BY <1>5 DEF StopRunner
<1>6. CASE Die
  <2>1. IdleJob \in JobStates /\ IdleHandler \in HandlerStates
    BY DEF IdleJob, IdleHandler
  <2>2. jobs' \in [Jobs -> JobStates] /\ handlers' \in [Handlers -> HandlerStates]
    BY <1>6, <2>1 DEF Die
  <2>3. /\ rows' \in [TaskIds -> Chats \cup {NoChat}]
        /\ entries' \in [EntryIds -> Tasks \cup {NoTask}]
        /\ running' \in [TaskIds -> Flags \cup {NoFlag}]
    BY <1>6 DEF Die
  <2>4. nextEntry' \in 1..(MaxEntry + 1) /\ entryIDs' \in [TaskIds -> {0} \cup EntryIds]
    BY <1>6 DEF Die
  <2>5. /\ done' \in BOOLEAN /\ phase' \in {"down", "starting", "up"}
        /\ runner' \in {"off", "on", "stopped"}
        /\ raised' \subseteq Flags /\ toRestore' \subseteq TaskIds
        /\ apart' \subseteq TaskIds
    BY <1>6 DEF Die
  <2>6. JobShape' /\ HandlerShape' /\ ProcessShape'
    BY <1>6 DEF Die, IdleJob, IdleHandler
  <2> QED
    BY <2>2, <2>3, <2>4, <2>5, <2>6
<1>7. ASSUME NEW t \in TaskIds, RestoreTask(t) PROVE TypeInv'
  BY <1>7 DEF RestoreTask, AddFunc, Unreferenced, Tasks, EntryIds
<1>8. ASSUME NEW j \in Jobs, NEW e \in EntryIds, Fire(j, e) PROVE TypeInv'
  BY <1>8 DEF Fire, IdleJob
<1>9. ASSUME NEW j \in Jobs, LookupFlag(j) PROVE TypeInv'
  <2>1. jobs \in [Jobs -> JobStates] /\ jobs[j] \in JobStates /\ jobs[j].task.id \in TaskIds
    BY <1>9 DEF LookupFlag, Tasks
  <2>2. running' \in [TaskIds -> Flags \cup {NoFlag}]
    BY <1>9, <2>1 DEF LookupFlag
  <2>3. PICK f \in Flags : jobs' = [jobs EXCEPT ![j] = [jobs[j] EXCEPT !.pc = "flagged", !.flag = f]]
    BY <1>9, <2>1 DEF LookupFlag
  <2>4. [jobs[j] EXCEPT !.pc = "flagged", !.flag = f] \in JobStates
    <3> HIDE DEF JobStates
    <3> QED
      BY <2>1, JobWrite DEF JobPcs
  <2>5. jobs' \in [Jobs -> JobStates]
    BY <2>1, <2>3, <2>4
  <2>6. TypeOK' /\ HandlerShape' /\ ProcessShape'
    BY <1>9, <2>2, <2>5 DEF LookupFlag
  <2>7. JobShape'
    BY <1>9, <2>1, <2>3 DEF LookupFlag
  <2> QED
    BY <2>6, <2>7
<1>10. ASSUME NEW j \in Jobs, Begin(j) PROVE TypeInv'
  <2>1. jobs \in [Jobs -> JobStates] /\ jobs[j] \in JobStates
    OBVIOUS
  <2>2. [jobs[j] EXCEPT !.pc = "execute", !.call = "execute"] \in JobStates
    <3> HIDE DEF JobStates
    <3> QED
      BY <2>1, JobWrite DEF JobPcs
  <2>3. jobs' \in [Jobs -> JobStates]
    BY <1>10, <2>1, <2>2 DEF Begin
  <2>4. TypeOK' /\ HandlerShape' /\ ProcessShape'
    BY <1>10, <2>3 DEF Begin
  <2>5. JobShape'
    BY <1>10, <2>3 DEF Begin
  <2> QED
    BY <2>4, <2>5
<1>11. ASSUME NEW j \in Jobs, Skip(j) PROVE TypeInv'
  BY <1>11 DEF Skip, IdleJob
<1>12. ASSUME NEW j \in Jobs, NEW hasText \in BOOLEAN, Answer(j, hasText) PROVE TypeInv'
  <2>1. jobs \in [Jobs -> JobStates] /\ jobs[j] \in JobStates
    OBVIOUS
  <2>2. /\ [jobs[j] EXCEPT !.pc = "send", !.call = "send"] \in JobStates
        /\ [jobs[j] EXCEPT !.pc = "release", !.call = "none"] \in JobStates
    <3> HIDE DEF JobStates
    <3> QED
      BY <2>1, JobWrite DEF JobPcs
  <2>3. jobs' \in [Jobs -> JobStates]
    BY <1>12, <2>1, <2>2 DEF Answer
  <2>4. TypeOK' /\ HandlerShape' /\ ProcessShape'
    BY <1>12, <2>3 DEF Answer
  <2>5. JobShape'
    BY <1>12, <2>3 DEF Answer
  <2> QED
    BY <2>4, <2>5
<1>13. ASSUME NEW j \in Jobs, Sent(j) PROVE TypeInv'
  <2>1. jobs \in [Jobs -> JobStates] /\ jobs[j] \in JobStates
    OBVIOUS
  <2>2. [jobs[j] EXCEPT !.pc = "release", !.call = "none"] \in JobStates
    <3> HIDE DEF JobStates
    <3> QED
      BY <2>1, JobWrite DEF JobPcs
  <2>3. jobs' \in [Jobs -> JobStates]
    BY <1>13, <2>1, <2>2 DEF Sent
  <2>4. TypeOK' /\ HandlerShape' /\ ProcessShape'
    BY <1>13, <2>3 DEF Sent
  <2>5. JobShape'
    BY <1>13, <2>3 DEF Sent
  <2> QED
    BY <2>4, <2>5
<1>14. ASSUME NEW j \in Jobs, GiveUp(j) PROVE TypeInv'
  BY <1>14 DEF GiveUp
<1>15. ASSUME NEW j \in Jobs, Release(j) PROVE TypeInv'
  BY <1>15 DEF Release, IdleJob
<1>16. ASSUME NEW j \in Jobs, LateReturn(j) PROVE TypeInv'
  BY <1>16 DEF LateReturn
<1>17. ASSUME NEW h \in Handlers, NEW c \in Chats, CallAdd(h, c) PROVE TypeInv'
  BY <1>17 DEF CallAdd, Step, IdleHandler
<1>18. ASSUME NEW h \in Handlers, NEW c \in Chats, NEW t \in TaskIds, CallDelete(h, c, t) PROVE TypeInv'
  BY <1>18 DEF CallDelete, Step, IdleHandler
<1>19. ASSUME NEW h \in Handlers, NEW t \in TaskIds, Insert(h, t) PROVE TypeInv'
  <2>1. handlers' \in [Handlers -> HandlerStates]
    <3>1. handlers[h] \in HandlerStates
      OBVIOUS
    <3>2. [handlers[h] EXCEPT !.pc = "reread", !.id = t] \in HandlerStates
      BY <3>1 DEF HandlerPcs
    <3> QED
      BY <1>19, <3>2 DEF Insert, Step
  <2>2. rows' \in [TaskIds -> Chats \cup {NoChat}]
    BY <1>19 DEF Insert
  <2>3. TypeOK' /\ JobShape'
    BY <1>19, <2>1, <2>2 DEF Insert, Part
  <2>4. HandlerShape'
    BY <1>19 DEF Insert, Step
  <2>5. ProcessShape'
    BY <1>19 DEF Insert
  <2> QED
    BY <2>3, <2>4, <2>5
<1>20. ASSUME NEW h \in Handlers, Reread(h) PROVE TypeInv'
  <2>1. handlers'[h] \in HandlerStates /\ handlers' = [handlers EXCEPT ![h] = handlers'[h]]
    <3>1. /\ handlers[h] \in HandlerStates /\ handlers[h].id \in TaskIds
          /\ rows[handlers[h].id] \in Chats \cup {NoChat}
      BY <1>20 DEF Reread
    <3>2. IdleHandler \in HandlerStates
      BY DEF IdleHandler, HandlerPcs
    <3>3. \A c \in Chats \cup {NoChat} :
            [handlers[h] EXCEPT !.pc = "addfunc", !.owner = c] \in HandlerStates
      BY <3>1 DEF HandlerPcs
    <3>4. PICK r \in HandlerStates : handlers' = [handlers EXCEPT ![h] = r]
      <4> HIDE DEF TypeInv, TypeOK, JobShape, HandlerShape, ProcessShape, HandlerStates
      <4> QED
        BY <1>20, <3>1, <3>2, <3>3 DEF Reread, Step
    <3> QED
      BY <3>4
  <2>2. TypeOK'
    BY <1>20, <2>1 DEF Reread, Step, IdleHandler
  <2>3. JobShape' /\ HandlerShape' /\ ProcessShape'
    BY <1>20, <2>1 DEF Reread, Step, IdleHandler
  <2> QED
    BY <2>2, <2>3
<1>21. ASSUME NEW h \in Handlers, Schedule(h) PROVE TypeInv'
  <2>1. handlers' \in [Handlers -> HandlerStates]
    <3>1. handlers[h] \in HandlerStates /\ nextEntry \in EntryIds
      BY <1>21 DEF Schedule, AddFunc
    <3>2. [handlers[h] EXCEPT !.pc = "register", !.entry = nextEntry] \in HandlerStates
      <4> HIDE DEF HandlerStates
      <4> QED
        BY <3>1, HandlerWrite DEF HandlerPcs
    <3> QED
      BY <1>21, <3>1, <3>2 DEF Schedule, Step
  <2>2. [id |-> handlers[h].id, chat |-> handlers[h].owner] \in Tasks
    BY <1>21 DEF Schedule, Tasks
  <2>3. entries' \in [EntryIds -> Tasks \cup {NoTask}] /\ nextEntry' \in 1..(MaxEntry + 1)
    BY <1>21, <2>2 DEF Schedule, AddFunc, EntryIds
  <2>4. TypeOK' /\ JobShape'
    BY <1>21, <2>1, <2>3 DEF Schedule, Step
  <2>5. HandlerShape' /\ ProcessShape'
    BY <1>21 DEF Schedule, Step, AddFunc
  <2> QED
    BY <2>4, <2>5
<1>22. ASSUME NEW h \in Handlers, Register(h) PROVE TypeInv'
  BY <1>22 DEF Register, Step, Track, Unreferenced, IdleHandler
<1>23. ASSUME NEW h \in Handlers, Lookup(h) PROVE TypeInv'
  BY <1>23 DEF Lookup, Step, IdleHandler
<1>24. ASSUME NEW h \in Handlers, Reget(h) PROVE TypeInv'
  BY <1>24, SMTT(30) DEF Reget, Step, IdleHandler
<1>25. ASSUME NEW h \in Handlers, Delete(h) PROVE TypeInv'
  <2>1. rows' \in [TaskIds -> Chats \cup {NoChat}]
    BY <1>25 DEF Delete
  <2>2. handlers' \in [Handlers -> HandlerStates]
    <3>1. handlers[h] \in HandlerStates
      OBVIOUS
    <3>2. IdleHandler \in HandlerStates
      BY DEF IdleHandler, HandlerPcs
    <3>3. [handlers[h] EXCEPT !.pc = "remove"] \in HandlerStates
      BY <3>1 DEF HandlerPcs
    <3>4. PICK r \in HandlerStates : handlers' = [handlers EXCEPT ![h] = r]
      <4> HIDE DEF TypeInv, TypeOK, JobShape, HandlerShape, ProcessShape, HandlerStates
      <4> QED
        BY <1>25, <3>2, <3>3 DEF Delete, Step
    <3> QED
      BY <3>4
  <2>3. TypeOK' /\ JobShape'
    BY <1>25, <2>1, <2>2 DEF Delete, Part
  <2>4. HandlerShape'
    <3>1. CASE rows[handlers[h].id] = NoChat
      BY <1>25, <3>1 DEF Delete, Step, IdleHandler
    <3>2. CASE rows[handlers[h].id] # NoChat
      BY <1>25, <3>2, SMTT(30) DEF Delete, Step
    <3> QED
      BY <3>1, <3>2
  <2>5. ProcessShape'
    BY <1>25 DEF Delete
  <2> QED
    BY <2>3, <2>4, <2>5
<1>26. ASSUME NEW h \in Handlers, Remove(h) PROVE TypeInv'
  <2>1. jobs' \in [Jobs -> JobStates] /\ JobShape'
    <3>1. jobs' = jobs \/ jobs' = Dropped(handlers[h].id)
      BY <1>26 DEF Remove
    <3>2. jobs \in [Jobs -> JobStates] /\ JobShape
      OBVIOUS
    <3> HIDE DEF TypeInv, TypeOK, JobShape, HandlerShape, ProcessShape, JobStates, HandlerStates
    <3>3. CASE jobs' = Dropped(handlers[h].id)
      BY <3>2, <3>3, DropWrite DEF JobShape
    <3> QED
      BY <3>1, <3>2, <3>3 DEF JobShape
  <2>2. entries' \in [EntryIds -> Tasks \cup {NoTask}] /\ entryIDs' \in [TaskIds -> {0} \cup EntryIds]
    BY <1>26 DEF Remove
  <2>3. handlers' \in [Handlers -> HandlerStates] /\ HandlerShape'
    BY <1>26 DEF Remove, Step, IdleHandler
  <2>4. TypeOK' /\ ProcessShape'
    BY <1>26, <2>1, <2>2, <2>3 DEF Remove
  <2> QED
    BY <2>1, <2>3, <2>4
<1>27. ASSUME NEW h \in Handlers, DbError(h) PROVE TypeInv'
  BY <1>27 DEF DbError, Step, IdleHandler, Part
<1>28. CASE UNCHANGED vars
  BY <1>28 DEF vars
<1> HIDE DEF TypeInv, TypeOK, JobShape, HandlerShape, ProcessShape, JobStates, HandlerStates
<1>29. ASSUME ProcessNext PROVE TypeInv'
  BY <1>1, <1>2, <1>3, <1>4, <1>5, <1>6, <1>7, <1>29 DEF ProcessNext
<1>30. ASSUME NEW j \in Jobs, JobNext(j) PROVE TypeInv'
  BY <1>8, <1>9, <1>10, <1>11, <1>12, <1>13, <1>14, <1>15, <1>16, <1>30 DEF JobNext
<1>31. ASSUME NEW h \in Handlers, HandlerNext(h) PROVE TypeInv'
  BY <1>17, <1>18, <1>19, <1>20, <1>21, <1>22, <1>23, <1>24, <1>25, <1>26, <1>27, <1>31
     DEF HandlerNext
<1> QED
  BY <1>28, <1>29, <1>30, <1>31 DEF Next

\* The model's variables always have their types.
THEOREM Typing == Spec => []TypeOK
<1>1. TypeInv => TypeOK
  BY DEF TypeInv
<1> QED
  BY <1>1, TypeInit, TypeNext, PTL DEF Spec

-----------------------------------------------------------------------------
(* Run flags.                                                              *)

\* The only step that raises a flag is the CAS, which needs it lowered; the
\* only step that lowers one is the Store of the run that raised it.
LEMMA FlagNext == TypeInv /\ FlagExclusive /\ [Next]_vars => FlagExclusive'
<1> SUFFICES ASSUME TypeInv, FlagExclusive, [Next]_vars PROVE FlagExclusive'
  OBVIOUS
<1> USE DEF FlagExclusive, Running
<1> DEFINE Quiet == UNCHANGED <<jobs, raised>>
<1>1. ASSUME Quiet PROVE FlagExclusive'
  BY <1>1
<1>2. jobs \in [Jobs -> JobStates] /\ JobShape
  BY DEF TypeInv, TypeOK
<1>3. CASE Die
  BY <1>3 DEF Die, IdleJob
<1>4. ASSUME NEW j \in Jobs, NEW e \in EntryIds, Fire(j, e) PROVE FlagExclusive'
  BY <1>4, <1>2 DEF Fire, FreeJob, IdleJob, JobStates
<1>5. ASSUME NEW j \in Jobs, LookupFlag(j) PROVE FlagExclusive'
  <2>1. jobs[j].pc = "fired" /\ raised' = raised
    BY <1>5 DEF LookupFlag
  <2>2. PICK f : jobs' = [jobs EXCEPT ![j] = [jobs[j] EXCEPT !.pc = "flagged", !.flag = f]]
    BY <1>5 DEF LookupFlag
  <2>3. /\ jobs'[j].pc = "flagged"
        /\ \A i \in Jobs : i # j => jobs'[i] = jobs[i]
    BY <1>2, <2>2 DEF JobStates
  <2> QED
    BY <2>1, <2>3
<1>6. ASSUME NEW j \in Jobs, Begin(j) PROVE FlagExclusive'
  BY <1>6, <1>2 DEF Begin, JobStates
<1>7. ASSUME NEW j \in Jobs, Skip(j) PROVE FlagExclusive'
  BY <1>7, <1>2 DEF Skip, IdleJob, JobStates
<1>8. ASSUME NEW j \in Jobs, NEW hasText \in BOOLEAN, Answer(j, hasText) PROVE FlagExclusive'
  BY <1>8, <1>2 DEF Answer, JobStates
<1>9. ASSUME NEW j \in Jobs, Sent(j) \/ GiveUp(j) PROVE FlagExclusive'
  <2> DEFINE Released == /\ Running(j) /\ raised' = raised
                         /\ jobs'[j].pc = "release" /\ jobs'[j].flag = jobs[j].flag
                         /\ \A i \in Jobs : i # j => jobs'[i] = jobs[i]
  <2>1. CASE Sent(j)
    <3>1. Released
      BY <2>1, <1>2 DEF Sent, JobStates
    <3> QED
      BY <3>1
  <2>2. CASE GiveUp(j)
    <3>1. Released
      BY <2>2, <1>2 DEF GiveUp, JobStates
    <3> QED
      BY <3>1
  <2> QED
    BY <1>9, <2>1, <2>2
<1>10. ASSUME NEW j \in Jobs, Release(j) PROVE FlagExclusive'
  BY <1>10, <1>2 DEF Release, IdleJob, JobStates
<1>11. ASSUME NEW j \in Jobs, LateReturn(j) PROVE FlagExclusive'
  BY <1>11, <1>2 DEF LateReturn, JobStates
<1>12. ASSUME NEW h \in Handlers, HandlerNext(h) PROVE FlagExclusive'
  <2>1. CASE Remove(h)
    <3>1. raised' = raised /\ (jobs' = jobs \/ jobs' = Dropped(handlers[h].id))
      BY <2>1 DEF Remove
    <3>2. \A j \in Jobs : jobs'[j].pc = jobs[j].pc /\ jobs'[j].flag = jobs[j].flag
      BY <1>2, <3>1, DropWrite
    <3> QED
      BY <3>1, <3>2
  <2>2. CASE ~Remove(h)
    BY <1>1, <1>12, <2>2 DEF HandlerNext, CallAdd, CallDelete, Insert, Reread, Schedule,
         Register, Lookup, Reget, Delete, DbError
  <2> QED
    BY <2>1, <2>2
<1>13. CASE ProcessNext
  BY <1>1, <1>3, <1>13 DEF ProcessNext, Boot, BootListFails, StartRunner, Stop, StopRunner,
       RestoreTask
<1>14. CASE UNCHANGED vars
  BY <1>14 DEF vars
<1> QED
  BY <1>1, <1>4, <1>5, <1>6, <1>7, <1>8, <1>9, <1>10, <1>11, <1>12, <1>13, <1>14
     DEF Next, JobNext

\* A raised flag always belongs to exactly one run in progress: the CAS and the
\* deferred Store of buildJob exclude each other whatever removals, re-created
\* flags and restarts happen in between.
THEOREM FlagSafety == Spec => []FlagExclusive
<1>1. Init => FlagExclusive
  BY DEF Init, FlagExclusive, Running, IdleJob
<1> QED
  BY <1>1, TypeInit, TypeNext, FlagNext, PTL DEF Spec

-----------------------------------------------------------------------------
(* The entries of the runner.                                              *)

\* Entries, the maps that track them and the pending AddTasks move together.
LEMMA EntryNext == TypeInv /\ TypeInv' /\ EntryInv /\ [Next]_vars => EntryInv'
<1> SUFFICES ASSUME TypeInv, TypeInv', EntryInv, [Next]_vars PROVE EntryInv'
  OBVIOUS
<1>0. TrackedEntries /\ PendingEntries /\ EntriesTracked /\ RestoreMirrorsRows
  BY DEF EntryInv
<1>1. /\ rows \in [TaskIds -> Chats \cup {NoChat}]
      /\ entries \in [EntryIds -> Tasks \cup {NoTask}]
      /\ entryIDs \in [TaskIds -> {0} \cup EntryIds]
      /\ nextEntry \in Nat
      /\ handlers \in [Handlers -> HandlerStates]
      /\ HandlerShape /\ HandlerShape' /\ ProcessShape
      /\ \A e \in EntryIds : e \in Nat /\ e # 0
  BY BoundsAssumption DEF TypeInv, TypeOK, EntryIds
\* Steps of the process.
<1>2. CASE Boot
  BY <1>0, <1>1, <1>2 DEF Boot, UsedIds, ProcessShape, HandlerShape, schedule, EntryInv,
       TrackedEntries, PendingEntries, EntriesTracked, Pending, RestoreMirrorsRows
<1>3. CASE BootListFails \/ Stop \/ StopRunner
  BY <1>0, <1>1, <1>3 DEF BootListFails, Stop, StopRunner, ProcessShape, schedule, EntryInv,
       TrackedEntries, PendingEntries, EntriesTracked, Pending, RestoreMirrorsRows
<1>4. CASE StartRunner
  BY <1>0, <1>1, <1>4 DEF StartRunner, schedule, EntryInv,
       TrackedEntries, PendingEntries, EntriesTracked, Pending, RestoreMirrorsRows
<1>5. CASE Die
  BY <1>5 DEF Die, IdleHandler, EntryInv,
       TrackedEntries, PendingEntries, EntriesTracked, Pending, RestoreMirrorsRows
<1>6. ASSUME NEW t \in TaskIds, RestoreTask(t) PROVE EntryInv'
  <2>1. entryIDs[t] = 0 /\ nextEntry \in EntryIds /\ phase = "starting"
    BY <1>0, <1>6 DEF RestoreTask, AddFunc, RestoreMirrorsRows
  <2> DEFINE task == [id |-> t, chat |-> rows[t]]
  <2>2. task \in Tasks /\ task.id = t
    BY <1>1, <1>6 DEF RestoreTask, ProcessShape, Tasks
  <2>3. \A h \in Handlers : handlers[h].pc = "idle" /\ handlers'[h].pc = "idle"
    BY <1>1, <1>6, <2>1 DEF RestoreTask, HandlerShape
  <2>4. /\ entries' = [entries EXCEPT ![nextEntry] = task]
        /\ entryIDs' = [entryIDs EXCEPT ![t] = nextEntry]
        /\ nextEntry' = nextEntry + 1
    BY <1>6 DEF RestoreTask, AddFunc
  <2>5. rows' = rows /\ phase' = phase /\ toRestore' = toRestore \ {t}
    BY <1>6 DEF RestoreTask
  <2>6. RestoreMirrorsRows'
    <3>1. \A u \in TaskIds \ {t} : entryIDs'[u] = entryIDs[u]
      BY <1>1, <2>4
    <3>2. entryIDs'[t] = nextEntry /\ nextEntry # 0 /\ entries'[nextEntry] = task
      BY <1>1, <2>1, <2>4
    <3>3. \A u \in TaskIds \ {t} : entryIDs[u] # 0 => entries'[entryIDs[u]] = entries[entryIDs[u]]
      BY <1>0, <1>1, <2>4 DEF TrackedEntries
    <3>4. rows[t] # NoChat
      BY <1>1, <1>6, NullsAssumption DEF RestoreTask, ProcessShape
    <3> QED
      BY <1>0, <2>1, <2>5, <3>1, <3>2, <3>3, <3>4 DEF RestoreMirrorsRows
  <2> HIDE DEF task
  <2>7. TrackedEntries'
    <3>1. \A e \in EntryIds : e < nextEntry => entries'[e] = entries[e] /\ e < nextEntry'
      BY <1>1, <2>1, <2>4
    <3>2. entries'[nextEntry] = task /\ nextEntry < nextEntry'
      BY <1>1, <2>1, <2>4
    <3> QED
      BY <1>0, <1>1, <2>1, <2>2, <2>4, <3>1, <3>2 DEF TrackedEntries
  <2>8. EntriesTracked'
    BY <1>0, <1>1, <2>1, <2>2, <2>3, <2>4 DEF EntriesTracked, Pending
  <2>9. PendingEntries'
    BY <2>3 DEF PendingEntries
  <2> QED
    BY <2>6, <2>7, <2>8, <2>9 DEF EntryInv
\* Steps of tool calls; phase is "up", so RestoreMirrorsRows says nothing.
<1>7. ASSUME NEW h \in Handlers, HandlerNext(h) PROVE phase' = "up"
  <2>1. phase' = phase
    BY <1>7 DEF HandlerNext, CallAdd, CallDelete, Insert, Reread, Schedule, Register, Lookup,
         Reget, Delete, Remove, DbError, process
  <2>2. phase = "up" \/ handlers[h].pc # "idle"
    BY <1>7 DEF HandlerNext, CallAdd, CallDelete, Insert, Reread, Schedule, Register, Lookup,
         Reget, Delete, Remove, DbError
  <2> QED
    BY <1>1, <2>1, <2>2 DEF HandlerShape
<1>8. ASSUME NEW h \in Handlers, HandlerNext(h), UNCHANGED schedule,
             handlers[h].pc # "register", handlers'[h].pc # "register",
             \A g \in Handlers : g # h => handlers'[g] = handlers[g]
      PROVE  EntryInv'
  BY <1>0, <1>1, <1>7, <1>8 DEF EntryInv, schedule, TrackedEntries, PendingEntries,
       EntriesTracked, Pending, RestoreMirrorsRows
<1>9. ASSUME NEW h \in Handlers, NEW r, Step(h, r)
      PROVE  handlers'[h] = r /\ \A g \in Handlers : g # h => handlers'[g] = handlers[g]
  BY <1>1, <1>9 DEF Step
<1>10. ASSUME NEW h \in Handlers, HandlerNext(h), UNCHANGED schedule,
              handlers[h].pc # "register", NEW r, Step(h, r), r.pc # "register"
       PROVE  EntryInv'
  BY <1>8, <1>9, <1>10
<1>11. ASSUME NEW h \in Handlers, NEW c \in Chats, CallAdd(h, c) PROVE EntryInv'
  <2>1. HandlerNext(h) /\ UNCHANGED schedule /\ handlers[h].pc = "idle"
    BY <1>11 DEF HandlerNext, CallAdd
  <2>2. [IdleHandler EXCEPT !.pc = "insert", !.chat = c].pc = "insert"
    BY DEF IdleHandler
  <2> QED
    BY <1>10, <1>11, <2>1, <2>2 DEF CallAdd
<1>12. ASSUME NEW h \in Handlers, NEW c \in Chats, NEW t \in TaskIds, CallDelete(h, c, t)
       PROVE  EntryInv'
  <2>1. HandlerNext(h) /\ UNCHANGED schedule /\ handlers[h].pc = "idle"
    BY <1>12 DEF HandlerNext, CallDelete
  <2>2. [IdleHandler EXCEPT !.pc = "lookup", !.chat = c, !.id = t].pc = "lookup"
    BY DEF IdleHandler
  <2> QED
    BY <1>10, <1>12, <2>1, <2>2 DEF CallDelete
<1>13. ASSUME NEW h \in Handlers, NEW t \in TaskIds, Insert(h, t) PROVE EntryInv'
  <2>1. HandlerNext(h) /\ UNCHANGED schedule /\ handlers[h].pc = "insert"
    BY <1>13 DEF HandlerNext, Insert
  <2>2. [handlers[h] EXCEPT !.pc = "reread", !.id = t].pc = "reread"
    BY <1>1 DEF HandlerStates
  <2> QED
    BY <1>10, <1>13, <2>1, <2>2 DEF Insert
<1>14. ASSUME NEW h \in Handlers, Reread(h) PROVE EntryInv'
  <2>1. HandlerNext(h) /\ UNCHANGED schedule /\ handlers[h].pc = "reread"
    BY <1>14 DEF HandlerNext, Reread
  <2>2. /\ IdleHandler.pc = "idle"
        /\ [handlers[h] EXCEPT !.pc = "addfunc", !.owner = rows[handlers[h].id]].pc = "addfunc"
    BY <1>1 DEF HandlerStates, IdleHandler
  <2> QED
    BY <1>10, <1>14, <2>1, <2>2 DEF Reread
<1>15. ASSUME NEW h \in Handlers, Lookup(h) PROVE EntryInv'
  <2>1. HandlerNext(h) /\ UNCHANGED schedule /\ handlers[h].pc = "lookup"
    BY <1>15 DEF HandlerNext, Lookup
  <2>2. IdleHandler.pc = "idle" /\ [handlers[h] EXCEPT !.pc = "reget"].pc = "reget"
    BY <1>1 DEF HandlerStates, IdleHandler
  <2> QED
    BY <1>10, <1>15, <2>1, <2>2 DEF Lookup
<1>16. ASSUME NEW h \in Handlers, Reget(h) PROVE EntryInv'
  <2>1. HandlerNext(h) /\ UNCHANGED schedule /\ handlers[h].pc = "reget"
    BY <1>16 DEF HandlerNext, Reget
  <2>2. IdleHandler.pc = "idle" /\ [handlers[h] EXCEPT !.pc = "delete"].pc = "delete"
    BY <1>1 DEF HandlerStates, IdleHandler
  <2> QED
    BY <1>10, <1>16, <2>1, <2>2 DEF Reget
<1>17. ASSUME NEW h \in Handlers, Delete(h) PROVE EntryInv'
  <2>1. HandlerNext(h) /\ UNCHANGED schedule /\ handlers[h].pc = "delete"
    BY <1>17 DEF HandlerNext, Delete
  <2>2. IdleHandler.pc = "idle" /\ [handlers[h] EXCEPT !.pc = "remove"].pc = "remove"
    BY <1>1 DEF HandlerStates, IdleHandler
  <2> QED
    BY <1>10, <1>17, <2>1, <2>2 DEF Delete
<1>18. ASSUME NEW h \in Handlers, DbError(h) PROVE EntryInv'
  <2>1. HandlerNext(h) /\ UNCHANGED schedule /\ handlers[h].pc # "register"
    BY <1>18 DEF HandlerNext, DbError
  <2>2. IdleHandler.pc = "idle"
    BY DEF IdleHandler
  <2> QED
    BY <1>10, <1>18, <2>1, <2>2 DEF DbError
<1>19. ASSUME NEW h \in Handlers, Schedule(h) PROVE EntryInv'
  <2> DEFINE task == [id |-> handlers[h].id, chat |-> handlers[h].owner]
  <2>1. task \in Tasks /\ nextEntry \in EntryIds /\ handlers[h].pc = "addfunc"
    BY <1>1, <1>19 DEF Schedule, AddFunc, HandlerShape, Tasks
  <2>2. /\ entries' = [entries EXCEPT ![nextEntry] = task]
        /\ entryIDs' = entryIDs /\ nextEntry' = nextEntry + 1 /\ phase' = "up"
    BY <1>19, <1>7 DEF Schedule, AddFunc, HandlerNext
  <2>3. /\ handlers'[h].pc = "register" /\ handlers'[h].entry = nextEntry
        /\ handlers'[h].id = task.id
        /\ \A g \in Handlers : g # h => handlers'[g] = handlers[g]
    BY <1>1, <1>19 DEF Schedule, Step, HandlerStates
  <2> HIDE DEF task
  <2>4. /\ \A e \in EntryIds : e < nextEntry => /\ entries'[e] = entries[e]
                                              /\ e < nextEntry' /\ e # nextEntry
        /\ entries'[nextEntry] = task /\ nextEntry < nextEntry'
    BY <1>1, <2>1, <2>2
  <2>5. TrackedEntries'
    BY <1>0, <1>1, <2>1, <2>2, <2>4 DEF TrackedEntries
  <2>6. PendingEntries'
    <3> SUFFICES ASSUME NEW g \in Handlers, handlers'[g].pc = "register"
                 PROVE  /\ handlers'[g].entry < nextEntry'
                        /\ entries'[handlers'[g].entry] \in Tasks
                        /\ entries'[handlers'[g].entry].id = handlers'[g].id
                        /\ \A u \in TaskIds : entryIDs'[u] # handlers'[g].entry
                        /\ \A k \in Handlers : handlers'[k].pc = "register" /\ k # g =>
                             handlers'[k].entry # handlers'[g].entry
      BY DEF PendingEntries
    <3>1. \A k \in Handlers \ {h} : handlers[k].pc = "register" =>
             handlers[k].entry \in EntryIds /\ handlers[k].entry < nextEntry
      BY <1>0, <1>1 DEF PendingEntries, HandlerShape
    <3>2. \A u \in TaskIds : entryIDs[u] # nextEntry
      BY <1>0, <1>1, <2>1 DEF TrackedEntries
    <3>3. CASE g = h
      BY <2>1, <2>2, <2>3, <2>4, <3>1, <3>2, <3>3
    <3>4. CASE g # h
      BY <1>0, <2>2, <2>3, <2>4, <3>1, <3>4 DEF PendingEntries
    <3> QED
      BY <3>3, <3>4
  <2>7. EntriesTracked'
    BY <1>0, <1>1, <2>1, <2>2, <2>3 DEF EntriesTracked, Pending
  <2>8. RestoreMirrorsRows'
    BY <2>2 DEF RestoreMirrorsRows
  <2> QED
    BY <2>5, <2>6, <2>7, <2>8 DEF EntryInv
<1>20. ASSUME NEW h \in Handlers, Register(h) PROVE EntryInv'
  <2> DEFINE t == handlers[h].id
             e == handlers[h].entry
  <2>1. t \in TaskIds /\ e \in EntryIds /\ handlers[h].pc = "register"
    BY <1>1, <1>20 DEF Register, HandlerShape
  <2>2. /\ entries' = IF entryIDs[t] = 0 THEN entries
                      ELSE [entries EXCEPT ![entryIDs[t]] = NoTask]
        /\ entryIDs' = [entryIDs EXCEPT ![t] = e]
        /\ nextEntry' = nextEntry /\ phase' = "up"
    BY <1>20, <1>7 DEF Register, Track, HandlerNext
  <2>3. /\ handlers'[h].pc = "idle"
        /\ \A g \in Handlers : g # h => handlers'[g] = handlers[g]
    BY <1>1, <1>20 DEF Register, Step, IdleHandler
  <2>4. e < nextEntry /\ entries[e] \in Tasks /\ entries[e].id = t /\ entryIDs[t] # e
    BY <1>0, <2>1 DEF PendingEntries
  <2> HIDE DEF t, e
  <2>5. TrackedEntries'
    BY <1>0, <1>1, <2>1, <2>2, <2>4 DEF TrackedEntries
  <2>6. PendingEntries'
    BY <1>0, <1>1, <2>1, <2>2, <2>3, <2>4 DEF PendingEntries, e
  <2>7. EntriesTracked'
    BY <1>0, <1>1, <2>1, <2>2, <2>3, <2>4 DEF EntriesTracked, Pending, e
  <2>8. RestoreMirrorsRows'
    BY <2>2 DEF RestoreMirrorsRows
  <2> QED
    BY <2>5, <2>6, <2>7, <2>8 DEF EntryInv
<1>21. ASSUME NEW h \in Handlers, Remove(h) PROVE EntryInv'
  <2> DEFINE t == handlers[h].id
  <2>1. t \in TaskIds /\ handlers[h].pc = "remove" /\ nextEntry' = nextEntry /\ phase' = "up"
    BY <1>1, <1>7, <1>21 DEF Remove, HandlerShape, HandlerNext
  <2>2. /\ handlers'[h].pc = "idle"
        /\ \A g \in Handlers : g # h => handlers'[g] = handlers[g]
    BY <1>1, <1>21 DEF Remove, Step, IdleHandler
  <2>3. \/ entries' = entries /\ entryIDs' = entryIDs
        \/ /\ entryIDs[t] # 0
           /\ entries' = [entries EXCEPT ![entryIDs[t]] = NoTask]
           /\ entryIDs' = [entryIDs EXCEPT ![t] = 0]
    BY <1>21 DEF Remove
  <2> HIDE DEF t
  <2>4. \A e \in EntryIds : \/ entries'[e] = entries[e]
                            \/ entries'[e] = NoTask /\ e = entryIDs[t] /\ entryIDs'[t] = 0
    <3>1. CASE entryIDs[t] # 0 /\ entries' = [entries EXCEPT ![entryIDs[t]] = NoTask]
                 /\ entryIDs' = [entryIDs EXCEPT ![t] = 0]
      BY <1>1, <2>1, <3>1
    <3> QED
      BY <2>3, <3>1
  <2>5. \A u \in TaskIds : u # t => entryIDs'[u] = entryIDs[u]
    BY <1>1, <2>3
  <2>6. entryIDs'[t] = entryIDs[t] \/ entryIDs'[t] = 0
    BY <1>1, <2>1, <2>3
  <2>7. TrackedEntries'
    BY <1>0, <1>1, <2>1, <2>4, <2>5, <2>6 DEF TrackedEntries
  <2>8. PendingEntries'
    BY <1>0, <1>1, <2>1, <2>2, <2>4, <2>5, <2>6 DEF PendingEntries, HandlerShape
  <2>9. EntriesTracked'
    <3> SUFFICES ASSUME NEW e \in EntryIds, entries'[e] # NoTask
                 PROVE  entryIDs'[entries'[e].id] = e \/ \E h2 \in Handlers : Pending(h2, e)'
      BY DEF EntriesTracked
    <3>1. entries'[e] = entries[e] /\ entries[e].id \in TaskIds
      BY <1>1, <2>4 DEF Tasks
    <3>2. CASE \E g \in Handlers : Pending(g, e)
      BY <2>1, <2>2, <3>2 DEF Pending
    <3>3. CASE entryIDs[entries[e].id] = e
      BY <1>0, <1>1, <2>1, <2>3, <2>5, <3>1, <3>3 DEF TrackedEntries
    <3> QED
      BY <1>0, <3>1, <3>2, <3>3 DEF EntriesTracked
  <2>10. RestoreMirrorsRows'
    BY <2>1 DEF RestoreMirrorsRows
  <2> QED
    BY <2>7, <2>8, <2>9, <2>10 DEF EntryInv
<1>22. ASSUME NEW j \in Jobs, JobNext(j) PROVE EntryInv'
  <2>1. UNCHANGED <<rows, schedule, handlers, process>>
    BY <1>22 DEF JobNext, Fire, LookupFlag, Begin, Skip, Answer, Sent, GiveUp, Release, LateReturn
  <2> QED
    BY <1>0, <2>1 DEF schedule, process, EntryInv, TrackedEntries, PendingEntries,
         EntriesTracked, Pending, RestoreMirrorsRows
<1>23. CASE UNCHANGED vars
  BY <1>0, <1>23 DEF vars, schedule, process, EntryInv, TrackedEntries, PendingEntries,
       EntriesTracked, Pending, RestoreMirrorsRows
<1>24. CASE ProcessNext
  BY <1>2, <1>3, <1>4, <1>5, <1>6, <1>24 DEF ProcessNext
<1>25. ASSUME NEW h \in Handlers, HandlerNext(h) PROVE EntryInv'
  BY <1>18, <1>19, <1>20, <1>21, <1>25, <1>11, <1>12, <1>13, <1>14, <1>15, <1>16, <1>17
     DEF HandlerNext
<1> QED
  BY <1>22, <1>23, <1>24, <1>25 DEF Next

\* The entry invariant holds from the start.
LEMMA EntryAlways == Spec => [](TypeInv /\ EntryInv)
<1>1. Init => EntryInv
  BY DEF Init, EntryInv, TrackedEntries, PendingEntries, EntriesTracked, RestoreMirrorsRows,
         IdleHandler
<1> QED
  BY <1>1, TypeInit, TypeNext, EntryNext, PTL DEF Spec

\* Whatever tool calls interleave and whenever the process dies, an entry in the
\* runner is tracked under its own task or about to be: AddTask, whose AddFunc
\* runs before the lock, never leaves an entry no removal can reach.
THEOREM Tracking == Spec => []EntriesTracked
<1>1. TypeInv /\ EntryInv => EntriesTracked
  BY DEF EntryInv
<1> QED
  BY <1>1, EntryAlways, PTL

\* Start registers exactly the rows it lists, one entry each.
THEOREM Restoring == Spec => []RestoreMirrorsRows
<1>1. TypeInv /\ EntryInv => RestoreMirrorsRows
  BY DEF EntryInv
<1> QED
  BY <1>1, EntryAlways, PTL

-----------------------------------------------------------------------------
(* Runs of one id.                                                         *)

(* Jobs run in a process that serves; a run RemoveTask has not dropped     *)
(* holds the flag its id has.                                              *)
RunInv ==
  /\ phase # "up" => \A j \in Jobs : jobs[j].pc = "idle"
  /\ \A j \in Jobs : jobs[j].pc \notin {"idle", "fired"} /\ ~jobs[j].dropped =>
       running[jobs[j].task.id] = jobs[j].flag

\* A job that leaves its task, flag and history as they are, or goes idle, keeps
\* what is known of the runs.
LEMMA JobGoesOn ==
  ASSUME TypeInv, RunInv, NEW j \in Jobs, phase' = phase, running' = running,
         \A i \in Jobs : i # j => jobs'[i] = jobs[i], phase = "up",
         \/ jobs'[j].pc \in {"idle", "fired"}
         \/ /\ jobs[j].pc \notin {"idle", "fired"} /\ jobs'[j].task = jobs[j].task
            /\ jobs'[j].flag = jobs[j].flag /\ jobs'[j].dropped = jobs[j].dropped
  PROVE  RunInv'
BY DEF RunInv

\* A run takes its id's flag when it looks it up; other runs and AddTask make a flag
\* only for an id that has none, and RemoveTask marks the runs whose flag it drops.
LEMMA RunNext == TypeInv /\ RunInv /\ [Next]_vars => RunInv'
<1> SUFFICES ASSUME TypeInv, RunInv, [Next]_vars PROVE RunInv'
  OBVIOUS
<1>1. /\ jobs \in [Jobs -> JobStates] /\ JobShape /\ HandlerShape /\ ProcessShape
      /\ running \in [TaskIds -> Flags \cup {NoFlag}]
  BY DEF TypeInv, TypeOK
<1>2. ASSUME UNCHANGED <<jobs, running>>, phase = "up" => phase' = "up" PROVE RunInv'
  BY <1>2 DEF RunInv
<1>3. CASE Die
  BY <1>3 DEF Die, RunInv, IdleJob
<1>4. ASSUME NEW t \in TaskIds, RestoreTask(t) PROVE RunInv'
  BY <1>4 DEF RestoreTask, RunInv
<1>5. CASE Boot \/ BootListFails \/ StartRunner \/ Stop \/ StopRunner
  BY <1>2, <1>5 DEF Boot, BootListFails, StartRunner, Stop, StopRunner
<1>6. ASSUME NEW h \in Handlers, Register(h) PROVE RunInv'
  <2>1. jobs' = jobs /\ phase' = phase /\ handlers[h].id \in TaskIds
    BY <1>1, <1>6 DEF Register, process, HandlerShape
  <2>2. \A u \in TaskIds : running[u] # NoFlag => running'[u] = running[u]
    BY <1>1, <1>6, <2>1 DEF Register, Track
  <2>3. \A j \in Jobs : jobs[j].pc \notin {"idle", "fired"} =>
          jobs[j].task.id \in TaskIds /\ jobs[j].flag # NoFlag
    BY <1>1, NullsAssumption DEF JobShape, Tasks
  <2> QED
    BY <2>1, <2>2, <2>3 DEF RunInv
<1>7. ASSUME NEW h \in Handlers, Remove(h) PROVE RunInv'
  <2> DEFINE t == handlers[h].id
  <2>1. t \in TaskIds /\ phase' = phase
    BY <1>1, <1>7 DEF Remove, process, HandlerShape
  <2>2. CASE entryIDs[t] = 0
    BY <1>2, <1>7, <2>1, <2>2 DEF Remove
  <2>3. CASE entryIDs[t] # 0
    <3>1. jobs' = Dropped(t) /\ \A u \in TaskIds : u # t => running'[u] = running[u]
      BY <1>1, <1>7, <2>1, <2>3 DEF Remove
    <3>2. \A j \in Jobs : /\ jobs'[j].pc = jobs[j].pc /\ jobs'[j].task = jobs[j].task
                          /\ jobs'[j].flag = jobs[j].flag
                          /\ ~jobs'[j].dropped =>
                               /\ ~jobs[j].dropped
                               /\ jobs[j].pc \in {"idle", "fired"} \/ jobs[j].task.id # t
      BY <1>1, <3>1, DropWrite
    <3>3. \A j \in Jobs : jobs[j].pc # "idle" => jobs[j].task.id \in TaskIds
      BY <1>1 DEF JobShape, Tasks
    <3> HIDE DEF t
    <3> QED
      BY <2>1, <3>1, <3>2, <3>3 DEF RunInv
  <2> QED
    BY <2>2, <2>3
<1>8. ASSUME NEW h \in Handlers, HandlerNext(h) PROVE RunInv'
  <2>1. CASE Register(h) \/ Remove(h)
    BY <1>6, <1>7, <2>1
  <2>2. CASE ~Register(h) /\ ~Remove(h)
    <3>1. UNCHANGED <<jobs, running>> /\ phase' = phase
      BY <1>8, <2>2 DEF HandlerNext, CallAdd, CallDelete, Insert, Reread, Schedule, Lookup,
           Reget, Delete, DbError, process
    <3> QED
      BY <1>2, <3>1
  <2> QED
    BY <2>1, <2>2
<1>9. ASSUME NEW j \in Jobs, NEW e \in EntryIds, Fire(j, e) PROVE RunInv'
  <2>1. /\ runner = "on" /\ running' = running /\ phase' = phase
        /\ \A i \in Jobs : i # j => jobs'[i] = jobs[i]
        /\ jobs'[j].pc = "fired"
    BY <1>1, <1>9 DEF Fire, IdleJob, process
  <2>2. phase = "up"
    BY <1>1, <2>1 DEF ProcessShape
  <2> QED
    BY <2>1, <2>2, JobGoesOn
<1>10. ASSUME NEW j \in Jobs, LookupFlag(j) PROVE RunInv'
  <2> DEFINE t == jobs[j].task.id
  <2>1. t \in TaskIds /\ jobs[j].pc = "fired" /\ phase' = phase
    BY <1>1, <1>10 DEF LookupFlag, JobShape, Tasks, process
  <2>2. PICK f : /\ jobs' = [jobs EXCEPT ![j] = [jobs[j] EXCEPT !.pc = "flagged", !.flag = f]]
                 /\ running'[t] = f
    BY <1>1, <1>10, <2>1 DEF LookupFlag
  <2>3. \A u \in TaskIds : running[u] # NoFlag => running'[u] = running[u]
    BY <1>1, <1>10, <2>1 DEF LookupFlag
  <2>4. /\ \A i \in Jobs : i # j => jobs'[i] = jobs[i]
        /\ jobs'[j].task = jobs[j].task /\ jobs'[j].flag = f
    BY <1>1, <2>2 DEF JobStates
  <2>5. \A i \in Jobs : jobs[i].pc \notin {"idle", "fired"} =>
          jobs[i].task.id \in TaskIds /\ jobs[i].flag # NoFlag
    BY <1>1, NullsAssumption DEF JobShape, Tasks
  <2>6. phase = "up"
    BY <2>1 DEF RunInv
  <2> HIDE DEF t
  <2>7. running'[jobs'[j].task.id] = jobs'[j].flag
    BY <2>2, <2>4 DEF t
  <2> QED
    BY <2>1, <2>3, <2>4, <2>5, <2>6, <2>7 DEF RunInv
<1>11. ASSUME NEW j \in Jobs,
              \/ Begin(j) \/ Skip(j) \/ Sent(j) \/ GiveUp(j) \/ Release(j) \/ LateReturn(j)
              \/ \E hasText \in BOOLEAN : Answer(j, hasText)
       PROVE  RunInv'
  <2>1. /\ running' = running /\ phase' = phase
        /\ \A i \in Jobs : i # j => jobs'[i] = jobs[i]
    BY <1>1, <1>11 DEF Begin, Skip, Answer, Sent, GiveUp, Release, LateReturn, process
  <2>2. \/ jobs'[j].pc \in {"idle", "fired"}
        \/ /\ jobs[j].pc \notin {"idle", "fired"} /\ jobs'[j].task = jobs[j].task
           /\ jobs'[j].flag = jobs[j].flag /\ jobs'[j].dropped = jobs[j].dropped
    <3>1. jobs[j] \in JobStates
      BY <1>1
    <3>2. CASE Begin(j)
      BY <1>1, <3>1, <3>2 DEF Begin, JobStates
    <3>3. CASE Skip(j) \/ Release(j)
      BY <1>1, <3>1, <3>3 DEF Skip, Release, JobStates, IdleJob
    <3>4. ASSUME NEW hasText \in BOOLEAN, Answer(j, hasText)
          PROVE  /\ jobs'[j].task = jobs[j].task /\ jobs'[j].flag = jobs[j].flag
                 /\ jobs'[j].dropped = jobs[j].dropped /\ jobs[j].pc = "execute"
      BY <1>1, <3>1, <3>4 DEF Answer, JobStates
    <3>5. CASE Sent(j)
      BY <1>1, <3>1, <3>5 DEF Sent, JobStates
    <3>6. CASE GiveUp(j)
      BY <1>1, <3>1, <3>6 DEF GiveUp, JobStates
    <3>7. CASE LateReturn(j)
      <4>1. jobs' = [jobs EXCEPT ![j] = [jobs[j] EXCEPT !.call = "none"]]
        BY <3>7 DEF LateReturn
      <4> QED
        BY <1>1, <3>1, <3>7, <4>1 DEF LateReturn, JobStates
    <3> QED
      BY <1>11, <3>2, <3>3, <3>4, <3>5, <3>6, <3>7
  <2>3. CASE phase = "up"
    BY <2>1, <2>2, <2>3, JobGoesOn
  <2>4. CASE phase # "up"
    <3>1. jobs[j].pc = "idle"
      BY <2>4 DEF RunInv
    <3>2. LateReturn(j)
      BY <1>11, <3>1 DEF Begin, Skip, Answer, Sent, GiveUp, Release
    <3>3. jobs[j] \in JobStates /\ jobs' = [jobs EXCEPT ![j] = [jobs[j] EXCEPT !.call = "none"]]
      BY <1>1, <3>2 DEF LateReturn
    <3>4. jobs'[j].pc = "idle"
      BY <1>1, <3>1, <3>3 DEF JobStates
    <3> QED
      BY <2>1, <2>4, <3>4 DEF RunInv
  <2> QED
    BY <2>3, <2>4
<1>12. CASE UNCHANGED vars
  BY <1>2, <1>12 DEF vars, process
<1>13. ASSUME NEW j \in Jobs, JobNext(j) PROVE RunInv'
  BY <1>9, <1>10, <1>11, <1>13 DEF JobNext
<1> QED
  BY <1>3, <1>4, <1>5, <1>8, <1>12, <1>13 DEF Next, ProcessNext

\* Whatever calls run side by side, two runs for one id are in progress together only
\* when RemoveTask has dropped the id while one of them held its flag.
THEOREM Exclusion == Spec => []RunsExclude
<1>1. Init => RunInv /\ FlagExclusive
  BY DEF Init, RunInv, FlagExclusive, Running, IdleJob
<1>2. TypeInv /\ RunInv /\ FlagExclusive => RunsExclude
  BY DEF RunInv, FlagExclusive, RunsExclude, Running
<1> QED
  BY <1>1, <1>2, TypeInit, TypeNext, RunNext, FlagNext, PTL DEF Spec

-----------------------------------------------------------------------------
(* The row and the entry of an id.                                         *)

(* What holds of an id that nothing has set apart: one call at most stores *)
(* it and one at most clears it, and each knows the row it is working on.  *)
AloneAt(t) ==
  /\ \A g, h \in Handlers : Storing(g, t) /\ Storing(h, t) => g = h
  /\ \A g, h \in Handlers : Clearing(g, t) /\ Clearing(h, t) => g = h
  /\ \A h \in Handlers :
       /\ Storing(h, t) => entryIDs[t] = 0
       /\ Scheduling(h, t) => rows[t] \in Chats /\ \A g \in Handlers : ~Clearing(g, t)
       /\ Storing(h, t) /\ handlers[h].pc = "addfunc" => handlers[h].owner = rows[t]
       /\ Storing(h, t) /\ handlers[h].pc = "register" =>
            entries[handlers[h].entry] = [id |-> t, chat |-> rows[t]]
       /\ Clearing(h, t) => rows[t] = NoChat
  /\ entryIDs[t] # 0 /\ ~(\E h \in Handlers : Clearing(h, t)) =>
       entries[entryIDs[t]] = [id |-> t, chat |-> rows[t]]

(* A row nothing has set apart has its entry once Start is through with it. *)
HasEntry(t) ==
  runner # "off" /\ rows[t] # NoChat /\ ~(\E h \in Handlers : Storing(h, t)) => entryIDs[t] # 0

AloneInv == \A t \in TaskIds \ apart : AloneAt(t) /\ HasEntry(t)

LiveFor(e, t) == entries[e] # NoTask /\ entries[e].id = t

(* A step that has nothing to do with t.                                   *)
Same(t) ==
  /\ rows'[t] = rows[t] /\ entryIDs'[t] = entryIDs[t] /\ (t \in apart' <=> t \in apart)
  /\ \A h \in Handlers : /\ (Storing(h, t) \/ Storing(h, t)') => handlers'[h] = handlers[h]
                         /\ Clearing(h, t)' <=> Clearing(h, t)
  /\ \A e \in EntryIds : LiveFor(e, t) \/ LiveFor(e, t)' => entries'[e] = entries[e]

\* A live entry is the tracked one of its task, unless its AddTask is on its way.
LEMMA LiveTracked ==
  ASSUME TypeInv, EntryInv, NEW e \in EntryIds, entries[e] # NoTask
  PROVE  /\ entries[e].id \in TaskIds /\ entries[e].chat \in Chats /\ e < nextEntry
         /\ \/ entryIDs[entries[e].id] = e
            \/ \E h \in Handlers : Pending(h, e) /\ Storing(h, entries[e].id)
<1>1. entries[e] \in Tasks
  BY DEF TypeInv, TypeOK
<1>2. entries[e].id \in TaskIds /\ entries[e].chat \in Chats
  BY <1>1 DEF Tasks
<1>3. CASE entryIDs[entries[e].id] = e
  BY <1>2, <1>3, BoundsAssumption DEF EntryInv, TrackedEntries, EntryIds
<1>4. ASSUME NEW h \in Handlers, Pending(h, e)
      PROVE  e < nextEntry /\ Storing(h, entries[e].id)
  BY <1>4 DEF EntryInv, PendingEntries, Pending, Storing
<1> QED
  BY <1>2, <1>3, <1>4 DEF EntryInv, EntriesTracked

\* While no call stores it, an id without a tracked entry has none.
LEMMA NoneLive ==
  ASSUME TypeInv, EntryInv, NEW t \in TaskIds, entryIDs[t] = 0,
         \A h \in Handlers : ~(Storing(h, t) /\ handlers[h].pc = "register")
  PROVE  \A e \in EntryIds : ~LiveFor(e, t)
BY LiveTracked DEF Pending, EntryIds, LiveFor

\* What is known of an id outlives a step that has nothing to do with it.
LEMMA SameKeeps ==
  ASSUME TypeInv, EntryInv, NEW t \in TaskIds, Same(t), AloneAt(t), HasEntry(t)
  PROVE  AloneAt(t)' /\ (runner # "off" \/ runner' = runner => HasEntry(t)')
<1>1. /\ rows'[t] = rows[t] /\ entryIDs'[t] = entryIDs[t]
      /\ \A h \in Handlers : /\ (Storing(h, t) \/ Storing(h, t)') => handlers'[h] = handlers[h]
                             /\ Clearing(h, t)' <=> Clearing(h, t)
  BY DEF Same
<1>2. \A h \in Handlers : Storing(h, t)' => Storing(h, t) /\ handlers'[h] = handlers[h]
  BY <1>1 DEF Storing
<1>3. \A h \in Handlers : Scheduling(h, t)' => Scheduling(h, t)
  BY <1>2 DEF Scheduling, Storing
<1>4. entryIDs[t] # 0 => entries'[entryIDs[t]] = entries[entryIDs[t]]
  <2>1. entryIDs[t] # 0 => entryIDs[t] \in EntryIds /\ LiveFor(entryIDs[t], t)
    BY NoTaskAssumption DEF EntryInv, TrackedEntries, LiveFor, TypeInv, TypeOK
  <2> QED
    BY <2>1 DEF Same
<1>5. ASSUME NEW h \in Handlers, Storing(h, t), handlers[h].pc = "register"
      PROVE  entries'[handlers[h].entry] = entries[handlers[h].entry]
  <2>1. handlers[h].entry \in EntryIds /\ LiveFor(handlers[h].entry, t)
    BY <1>5, NoTaskAssumption DEF EntryInv, PendingEntries, LiveFor, TypeInv, HandlerShape, Storing
  <2> QED
    BY <2>1 DEF Same
<1>6. \A h \in Handlers : /\ Storing(h, t)' => /\ handlers'[h].pc = handlers[h].pc
                                               /\ handlers'[h].owner = handlers[h].owner
                                               /\ handlers'[h].entry = handlers[h].entry
  BY <1>2
<1>8. ASSUME NEW h \in Handlers
      PROVE  (/\ Storing(h, t) => entryIDs[t] = 0
              /\ Scheduling(h, t) => rows[t] \in Chats /\ \A g \in Handlers : ~Clearing(g, t)
              /\ Storing(h, t) /\ handlers[h].pc = "addfunc" => handlers[h].owner = rows[t]
              /\ Storing(h, t) /\ handlers[h].pc = "register" =>
                   entries[handlers[h].entry] = [id |-> t, chat |-> rows[t]]
              /\ Clearing(h, t) => rows[t] = NoChat)'
  BY <1>1, <1>2, <1>3, <1>5, <1>6, <1>8 DEF AloneAt
<1>9. (entryIDs[t] # 0 /\ ~(\E h \in Handlers : Clearing(h, t)) =>
         entries[entryIDs[t]] = [id |-> t, chat |-> rows[t]])'
  BY <1>1, <1>4 DEF AloneAt
<1>10. runner # "off" \/ runner' = runner => HasEntry(t)'
  <2>1. \A h \in Handlers : Storing(h, t) => Storing(h, t)'
    BY <1>1 DEF Storing
  <2> QED
    BY <1>1, <2>1 DEF HasEntry
<1>11. AloneAt(t)'
  <2>1. \A g, h \in Handlers : Storing(g, t)' /\ Storing(h, t)' => g = h
    BY <1>1, <1>2 DEF AloneAt
  <2>2. \A g, h \in Handlers : Clearing(g, t)' /\ Clearing(h, t)' => g = h
    BY <1>1, <1>2 DEF AloneAt
  <2> QED
    BY <2>1, <2>2, <1>8, <1>9 DEF AloneAt
<1> QED
  BY <1>10, <1>11

\* A tool call that stores and clears another id leaves t alone with its entries.
LEMMA SameWrite ==
  ASSUME NEW t \in TaskIds, NEW h \in Handlers,
         \A g \in Handlers : g # h => handlers'[g] = handlers[g],
         rows'[t] = rows[t], entryIDs'[t] = entryIDs[t], t \in apart' <=> t \in apart,
         ~Storing(h, t), ~Storing(h, t)', ~Clearing(h, t), ~Clearing(h, t)',
         \A e \in EntryIds : LiveFor(e, t) \/ LiveFor(e, t)' => entries'[e] = entries[e]
  PROVE  Same(t)
<1>1. ASSUME NEW g \in Handlers
      PROVE  /\ (Storing(g, t) \/ Storing(g, t)') => handlers'[g] = handlers[g]
             /\ Clearing(g, t)' <=> Clearing(g, t)
  BY DEF Clearing
<1> QED
  BY <1>1 DEF Same

\* A step that changes none of what Same speaks of.
LEMMA SameIdle ==
  ASSUME NEW t \in TaskIds, UNCHANGED <<rows, entries, entryIDs, apart, handlers>>
  PROVE  Same(t)
BY DEF Same, Storing, Clearing

\* The steps of a call that only read, fail, or end with nothing stored.
ReadsOnly(h) ==
  \/ \E c \in Chats : CallAdd(h, c)
  \/ \E c \in Chats, t \in TaskIds : CallDelete(h, c, t)
  \/ Lookup(h) \/ Reget(h)
  \/ Delete(h) /\ rows[handlers[h].id] = NoChat
  \/ DbError(h) /\ handlers[h].pc # "reread"

\* They have nothing to do with any id's row and entry.
LEMMA ReadStep ==
  ASSUME TypeInv, NEW h \in Handlers, ReadsOnly(h)
  PROVE  runner' = runner /\ \A t \in TaskIds : Same(t)
<1>1. handlers \in [Handlers -> HandlerStates]
  BY DEF TypeInv, TypeOK
<1>2. /\ UNCHANGED <<rows, entries, entryIDs, runner, apart>>
      /\ \A g \in Handlers : g # h => handlers'[g] = handlers[g]
      /\ handlers[h].pc \notin {"reread", "addfunc", "register", "remove"}
      /\ handlers'[h].pc \notin {"reread", "addfunc", "register", "remove"}
  <2>1. CASE \E c \in Chats : CallAdd(h, c)
    BY <1>1, <2>1 DEF CallAdd, Step, IdleHandler, schedule, process
  <2>2. CASE \E c \in Chats, u \in TaskIds : CallDelete(h, c, u)
    BY <1>1, <2>2 DEF CallDelete, Step, IdleHandler, schedule, process
  <2>3. CASE Lookup(h) \/ Reget(h)
    BY <1>1, <2>3 DEF Lookup, Reget, Step, IdleHandler, HandlerStates, schedule, process
  <2>4. CASE Delete(h) /\ rows[handlers[h].id] = NoChat
    BY <1>1, <2>4 DEF Delete, Step, IdleHandler, schedule, process
  <2>5. CASE DbError(h) /\ handlers[h].pc # "reread"
    BY <1>1, <2>5 DEF DbError, Part, Step, IdleHandler, schedule, process
  <2> QED
    BY <2>1, <2>2, <2>3, <2>4, <2>5 DEF ReadsOnly
<1> QED
  BY <1>2, SameWrite DEF Storing, Clearing

\* INSERT of a row: the id had none, and no entry unless it is set apart.
LEMMA InsertStep ==
  ASSUME TypeInv, EntryInv, AloneInv, NEW h \in Handlers, NEW t \in TaskIds, Insert(h, t)
  PROVE  /\ \A u \in TaskIds : u # t => Same(u)
         /\ runner' = runner /\ rows[t] = NoChat /\ handlers[h].chat \in Chats
         /\ handlers'[h] = [handlers[h] EXCEPT !.pc = "reread", !.id = t]
         /\ Storing(h, t)' /\ handlers'[h].pc = "reread"
         /\ t \in apart \/ (\E g \in Handlers : Storing(g, t) \/ Clearing(g, t)) => t \in apart'
         /\ t \notin apart' => entryIDs[t] = 0 /\ AloneAt(t)' /\ HasEntry(t)'
<1>1. /\ handlers \in [Handlers -> HandlerStates] /\ HandlerShape
      /\ rows \in [TaskIds -> Chats \cup {NoChat}]
  BY DEF TypeInv, TypeOK
<1>2. /\ handlers' = [handlers EXCEPT ![h] = [handlers[h] EXCEPT !.pc = "reread", !.id = t]]
      /\ UNCHANGED <<entries, entryIDs, runner>> /\ handlers[h].pc = "insert"
      /\ rows' = [rows EXCEPT ![t] = handlers[h].chat] /\ handlers[h].chat \in Chats
  BY <1>1 DEF Insert, Step, schedule, process, HandlerShape
<1>3. /\ \A g \in Handlers : g # h => handlers'[g] = handlers[g]
      /\ handlers'[h].pc = "reread" /\ handlers'[h].id = t
      /\ rows'[t] \in Chats
      /\ handlers'[h] = [handlers[h] EXCEPT !.pc = "reread", !.id = t]
  BY <1>1, <1>2 DEF HandlerStates
<1>4. rows[t] = NoChat
  BY BoundsAssumption DEF Insert, IsNextId, UsedIds, TaskIds
<1>5. /\ \A u \in TaskIds : u # t => (u \in apart' <=> u \in apart)
      /\ t \in apart => t \in apart'
      /\ (\E g \in Handlers : Storing(g, t) \/ Clearing(g, t)) => t \in apart'
  BY DEF Insert, Part
<1>6. ASSUME NEW u \in TaskIds, u # t PROVE Same(u)
  <2>1. ~Storing(h, u) /\ ~Storing(h, u)' /\ ~Clearing(h, u) /\ ~Clearing(h, u)'
    BY <1>2, <1>3, <1>6 DEF Storing, Clearing
  <2>2. rows'[u] = rows[u]
    BY <1>1, <1>2, <1>6
  <2> QED
    BY <1>2, <1>3, <1>5, <1>6, <2>1, <2>2, SameWrite
<1>7. ASSUME t \notin apart' PROVE entryIDs[t] = 0 /\ AloneAt(t)' /\ HasEntry(t)'
  <2>1. /\ t \notin apart /\ AloneAt(t)
        /\ \A g \in Handlers : ~Storing(g, t) /\ ~Clearing(g, t)
    BY <1>5, <1>7 DEF AloneInv
  <2>2. entryIDs[t] = 0
    <3>1. entryIDs[t] # 0 => /\ entries[entryIDs[t]] = [id |-> t, chat |-> NoChat]
                             /\ entries[entryIDs[t]] \in Tasks
      BY <1>4, <2>1 DEF AloneAt, EntryInv, TrackedEntries
    <3> QED
      BY <3>1, NullsAssumption DEF Tasks
  <2>3. /\ \A g \in Handlers : Storing(g, t)' => g = h
        /\ \A g \in Handlers : ~Clearing(g, t)'
        /\ ~Scheduling(h, t)' /\ Storing(h, t)'
    BY <1>3, <2>1 DEF Storing, Clearing, Scheduling
  <2>4. \A g \in Handlers : Scheduling(g, t)' => Storing(g, t)'
    BY DEF Scheduling, Storing
  <2>5. entryIDs'[t] = 0
    BY <1>2, <2>2
  <2> QED
    BY <1>3, <2>2, <2>3, <2>4, <2>5 DEF AloneAt, HasEntry
<1> QED
  BY <1>2, <1>3, <1>4, <1>5, <1>6, <1>7 DEF Storing

\* GetByID of the new row: an id that is not set apart keeps what is known of it.
LEMMA RereadStep ==
  ASSUME TypeInv, EntryInv, AloneInv, NEW h \in Handlers, Reread(h),
         NEW t, t = handlers[h].id
  PROVE  /\ t \in TaskIds /\ Storing(h, t) /\ runner' = runner /\ apart' = apart
         /\ UNCHANGED <<rows, entries, entryIDs>>
         /\ \A g \in Handlers : g # h => handlers'[g] = handlers[g]
         /\ ~Clearing(h, t)'
         /\ IF rows[t] = NoChat THEN ~Storing(h, t)' ELSE Storing(h, t)'
         /\ \A u \in TaskIds : u # t => Same(u)
         /\ t \notin apart => AloneAt(t)' /\ HasEntry(t)'
<1>1. /\ handlers \in [Handlers -> HandlerStates] /\ HandlerShape
      /\ rows \in [TaskIds -> Chats \cup {NoChat}]
  BY DEF TypeInv, TypeOK
<1>2. /\ UNCHANGED <<rows, entries, entryIDs, runner, apart>> /\ handlers[h].pc = "reread"
      /\ t \in TaskIds /\ Storing(h, t)
  BY <1>1 DEF Reread, schedule, process, HandlerShape, Storing
<1>3. \A g \in Handlers : g # h => handlers'[g] = handlers[g]
  BY <1>1 DEF Reread, Step
<1>4. /\ rows[t] = NoChat => handlers'[h].pc = "idle"
      /\ rows[t] # NoChat => /\ handlers'[h].pc = "addfunc" /\ handlers'[h].id = t
                             /\ handlers'[h].owner = rows[t]
  BY <1>1 DEF Reread, Step, IdleHandler, HandlerStates
<1>5. ASSUME NEW u \in TaskIds, u # t PROVE Same(u)
  BY <1>2, <1>3, <1>4, <1>5, SameWrite DEF Storing, Clearing
<1>6. ASSUME t \notin apart PROVE AloneAt(t)' /\ HasEntry(t)'
  <2>1. AloneAt(t) /\ HasEntry(t)
    BY <1>2, <1>6 DEF AloneInv
  <2>2. /\ \A g \in Handlers : Storing(g, t)' => g = h
        /\ \A g \in Handlers : Clearing(g, t)' <=> Clearing(g, t)
        /\ \A g \in Handlers : Scheduling(g, t)' => g = h
    BY <1>2, <1>3, <1>4, <2>1 DEF AloneAt, Storing, Clearing, Scheduling
  <2>3. CASE rows[t] = NoChat
    BY <1>2, <1>4, <2>1, <2>2, <2>3 DEF AloneAt, HasEntry, Storing, Scheduling
  <2>4. CASE rows[t] # NoChat
    <3>1. rows[t] \in Chats /\ \A g \in Handlers : ~Clearing(g, t)
      BY <1>1, <1>2, <2>1, <2>4 DEF AloneAt
    <3>2. Storing(h, t)' /\ entryIDs'[t] = 0 /\ handlers'[h].pc # "register"
      BY <1>2, <1>4, <2>1, <2>4 DEF AloneAt, Storing
    <3> QED
      BY <1>2, <1>4, <2>2, <2>4, <3>1, <3>2 DEF AloneAt, HasEntry
  <2> QED
    BY <2>3, <2>4
<1> QED
  BY <1>2, <1>3, <1>4, <1>5, <1>6 DEF Storing, Clearing

\* The runner takes an entry: it was free.
LEMMA FreshEntry ==
  ASSUME TypeInv, EntryInv, NEW task \in Tasks, AddFunc(task)
  PROVE  /\ nextEntry \in EntryIds /\ entries[nextEntry] = NoTask
         /\ entries'[nextEntry] = task
         /\ \A e \in EntryIds : e # nextEntry => entries'[e] = entries[e]
         /\ \A u \in TaskIds : u # task.id =>
              \A e \in EntryIds : LiveFor(e, u) \/ LiveFor(e, u)' => entries'[e] = entries[e]
<1>1. /\ nextEntry \in EntryIds /\ entries \in [EntryIds -> Tasks \cup {NoTask}]
      /\ entries' = [entries EXCEPT ![nextEntry] = task]
  BY DEF TypeInv, TypeOK, AddFunc
<1>2. entries[nextEntry] = NoTask
  BY <1>1, LiveTracked DEF EntryIds
<1> QED
  BY <1>1, <1>2 DEF LiveFor

\* AddTask before its lock.
LEMMA ScheduleStep ==
  ASSUME TypeInv, EntryInv, AloneInv, NEW h \in Handlers, Schedule(h),
         NEW t, t = handlers[h].id
  PROVE  /\ t \in TaskIds /\ Scheduling(h, t) /\ runner' = runner /\ apart' = apart
         /\ UNCHANGED <<rows, entryIDs>> /\ Storing(h, t) /\ Storing(h, t)'
         /\ ~Clearing(h, t) /\ ~Clearing(h, t)'
         /\ \A g \in Handlers : g # h => handlers'[g] = handlers[g]
         /\ \A u \in TaskIds : u # t => Same(u)
         /\ t \notin apart => /\ rows[t] \in Chats /\ AddFunc([id |-> t, chat |-> rows[t]])
                              /\ entryIDs[t] = 0
                              /\ \A e \in EntryIds : ~LiveFor(e, t)
                              /\ AloneAt(t)' /\ HasEntry(t)'
<1>1. /\ handlers \in [Handlers -> HandlerStates] /\ HandlerShape
      /\ rows \in [TaskIds -> Chats \cup {NoChat}]
  BY DEF TypeInv, TypeOK
<1>2. /\ UNCHANGED <<rows, entryIDs, runner, apart>> /\ handlers[h].pc = "addfunc"
      /\ t \in TaskIds /\ handlers[h].owner \in Chats
      /\ AddFunc([id |-> t, chat |-> handlers[h].owner])
      /\ [id |-> t, chat |-> handlers[h].owner] \in Tasks
  BY <1>1 DEF Schedule, process, HandlerShape, Tasks
<1>3. \A g \in Handlers : g # h => handlers'[g] = handlers[g]
  BY <1>1 DEF Schedule, Step
<1>4. handlers'[h].pc = "register" /\ handlers'[h].id = t /\ handlers'[h].entry = nextEntry
  BY <1>1 DEF Schedule, Step, HandlerStates
<1>5. ASSUME NEW u \in TaskIds, u # t PROVE Same(u)
  <2>1. \A e \in EntryIds : LiveFor(e, u) \/ LiveFor(e, u)' => entries'[e] = entries[e]
    BY <1>2, <1>5, FreshEntry
  <2> QED
    BY <1>2, <1>3, <1>4, <1>5, <2>1, SameWrite DEF Storing, Clearing
<1>6. ASSUME t \notin apart
      PROVE  /\ rows[t] \in Chats /\ AddFunc([id |-> t, chat |-> rows[t]]) /\ entryIDs[t] = 0
             /\ \A e \in EntryIds : ~LiveFor(e, t)
             /\ AloneAt(t)' /\ HasEntry(t)'
  <2>1. AloneAt(t) /\ HasEntry(t) /\ Storing(h, t) /\ Scheduling(h, t)
    BY <1>2, <1>6 DEF AloneInv, Storing, Scheduling
  <2>2. /\ handlers[h].owner = rows[t] /\ entryIDs[t] = 0 /\ rows[t] \in Chats
        /\ \A g \in Handlers : ~Clearing(g, t) /\ (Storing(g, t) => g = h)
    BY <1>2, <2>1 DEF AloneAt
  <2>3. \A g \in Handlers : ~(Storing(g, t) /\ handlers[g].pc = "register")
    BY <1>2, <2>2
  <2>4. /\ \A g \in Handlers : Storing(g, t)' => g = h
        /\ \A g \in Handlers : Scheduling(g, t)' => g = h
        /\ \A g \in Handlers : ~Clearing(g, t)'
        /\ Storing(h, t)'
    BY <1>3, <1>4, <2>2 DEF Storing, Scheduling, Clearing
  <2>5. entries'[handlers'[h].entry] = [id |-> t, chat |-> rows[t]]
    BY <1>2, <1>4, <2>2, FreshEntry
  <2>6. AloneAt(t)' /\ HasEntry(t)'
    BY <1>2, <1>4, <2>2, <2>4, <2>5 DEF AloneAt, HasEntry
  <2> QED
    BY <1>2, <2>2, <2>3, <2>6, NoneLive
<1> QED
  BY <1>2, <1>3, <1>4, <1>5, <1>6 DEF Storing, Scheduling, Clearing

\* AddTask under its lock, of an id that is not set apart: there is no entry to drop.
LEMMA RegisterStep ==
  ASSUME TypeInv, EntryInv, AloneInv, NEW h \in Handlers, Register(h),
         NEW t, t = handlers[h].id
  PROVE  /\ t \in TaskIds /\ Storing(h, t) /\ runner' = runner /\ apart' = apart
         /\ rows' = rows /\ ~Storing(h, t)' /\ ~Clearing(h, t)'
         /\ \A g \in Handlers : g # h => handlers'[g] = handlers[g]
         /\ \A u \in TaskIds : u # t => Same(u)
         /\ t \notin apart => /\ entries' = entries /\ \E e \in EntryIds : LiveFor(e, t)
                              /\ AloneAt(t)' /\ HasEntry(t)'
<1>1. /\ handlers \in [Handlers -> HandlerStates] /\ HandlerShape
      /\ rows \in [TaskIds -> Chats \cup {NoChat}] /\ entryIDs \in [TaskIds -> {0} \cup EntryIds]
      /\ entries \in [EntryIds -> Tasks \cup {NoTask}]
  BY DEF TypeInv, TypeOK
<1>2. /\ UNCHANGED <<rows, runner, apart>> /\ handlers[h].pc = "register"
      /\ t \in TaskIds /\ handlers[h].entry \in EntryIds /\ Storing(h, t)
  BY <1>1 DEF Register, process, HandlerShape, Storing
<1>3. (\A g \in Handlers : g # h => handlers'[g] = handlers[g]) /\ handlers'[h].pc = "idle"
  BY <1>1 DEF Register, Step, IdleHandler
<1>4. /\ entryIDs' = [entryIDs EXCEPT ![t] = handlers[h].entry]
      /\ entries' = IF entryIDs[t] = 0 THEN entries
                    ELSE [entries EXCEPT ![entryIDs[t]] = NoTask]
  BY DEF Register, Track
<1>5. ASSUME NEW u \in TaskIds, u # t PROVE Same(u)
  <2>1. entryIDs'[u] = entryIDs[u]
    BY <1>1, <1>4, <1>5
  <2>2. \A e \in EntryIds : LiveFor(e, u) \/ LiveFor(e, u)' => entries'[e] = entries[e]
    <3>1. entryIDs[t] # 0 => entryIDs[t] \in EntryIds /\ entries[entryIDs[t]].id = t
      BY <1>1, <1>2 DEF EntryInv, TrackedEntries
    <3> QED
      BY <1>1, <1>4, <1>5, <3>1 DEF LiveFor
  <2> QED
    BY <1>2, <1>3, <1>5, <2>1, <2>2, SameWrite DEF Storing, Clearing
<1>6. ASSUME t \notin apart
      PROVE  /\ entries' = entries /\ \E e \in EntryIds : LiveFor(e, t)
             /\ AloneAt(t)' /\ HasEntry(t)'
  <2>1. AloneAt(t) /\ Scheduling(h, t)
    BY <1>2, <1>6 DEF AloneInv, Storing, Scheduling
  <2>2. /\ entryIDs[t] = 0 /\ rows[t] \in Chats
        /\ entries[handlers[h].entry] = [id |-> t, chat |-> rows[t]]
        /\ \A g \in Handlers : ~Clearing(g, t) /\ (Storing(g, t) => g = h)
    BY <1>2, <2>1 DEF AloneAt
  <2>3. \A g \in Handlers : ~Storing(g, t)' /\ ~Scheduling(g, t)' /\ ~Clearing(g, t)'
    BY <1>3, <2>2 DEF Storing, Scheduling, Clearing
  <2>4. entries' = entries /\ entryIDs'[t] = handlers[h].entry
    BY <1>1, <1>2, <1>4, <2>2
  <2>5. LiveFor(handlers[h].entry, t)
    BY <1>2, <2>2, NoTaskAssumption DEF LiveFor, Tasks
  <2>6. AloneAt(t)'
    BY <1>2, <2>2, <2>3, <2>4 DEF AloneAt
  <2>7. HasEntry(t)'
    BY <1>2, <2>4 DEF HasEntry, EntryIds
  <2> QED
    BY <1>2, <2>4, <2>5, <2>6, <2>7
<1> QED
  BY <1>2, <1>3, <1>5, <1>6 DEF Storing, Clearing

\* DELETE of a row that is there.
LEMMA DeleteStep ==
  ASSUME TypeInv, EntryInv, AloneInv, NEW h \in Handlers, Delete(h),
         NEW t, t = handlers[h].id, rows[t] # NoChat
  PROVE  /\ t \in TaskIds /\ runner' = runner /\ entries' = entries
         /\ rows' = [rows EXCEPT ![t] = NoChat]
         /\ apart' = apart \/ (apart' = apart \cup {t} /\ \E g \in Handlers : Storing(g, t))
         /\ \A g \in Handlers : g # h => handlers'[g] = handlers[g]
         /\ Clearing(h, t)' /\ ~Storing(h, t) /\ ~Storing(h, t)'
         /\ \A u \in TaskIds : u # t => Same(u)
         /\ t \notin apart' => AloneAt(t)' /\ HasEntry(t)'
<1>1. /\ handlers \in [Handlers -> HandlerStates] /\ HandlerShape
      /\ rows \in [TaskIds -> Chats \cup {NoChat}]
  BY DEF TypeInv, TypeOK
<1>2. /\ UNCHANGED <<entries, entryIDs, runner>> /\ handlers[h].pc = "delete"
      /\ t \in TaskIds /\ rows' = [rows EXCEPT ![t] = NoChat] /\ rows'[t] = NoChat
  BY <1>1 DEF Delete, schedule, process, HandlerShape
<1>3. (\A g \in Handlers : g # h => handlers'[g] = handlers[g])
      /\ handlers'[h].pc = "remove" /\ handlers'[h].id = t
  BY <1>1 DEF Delete, Step, HandlerStates
<1>4. apart' = IF \E g \in Handlers : Scheduling(g, t) THEN apart \cup {t} ELSE apart
  BY DEF Delete, Part
<1>5. \A g \in Handlers : Scheduling(g, t) => Storing(g, t)
  BY DEF Scheduling, Storing
<1>6. ASSUME NEW u \in TaskIds, u # t PROVE Same(u)
  BY <1>1, <1>2, <1>3, <1>4, <1>6, SameWrite DEF Storing, Clearing
<1>7. ASSUME t \notin apart' PROVE AloneAt(t)' /\ HasEntry(t)'
  <2>1. /\ AloneAt(t) /\ \A g \in Handlers : ~Scheduling(g, t)
    BY <1>2, <1>4, <1>7 DEF AloneInv
  <2>2. \A g \in Handlers : ~Clearing(g, t)
    BY <2>1 DEF AloneAt
  <2>3. /\ \A g \in Handlers : Storing(g, t)' <=> Storing(g, t)
        /\ \A g \in Handlers : Storing(g, t)' => handlers'[g].pc = "reread"
        /\ \A g \in Handlers : Clearing(g, t)' <=> g = h
        /\ \A g \in Handlers : ~Scheduling(g, t)'
    BY <1>2, <1>3, <2>1, <2>2 DEF Storing, Clearing, Scheduling
  <2> QED
    BY <1>2, <2>1, <2>3 DEF AloneAt, HasEntry
<1> QED
  BY <1>2, <1>3, <1>4, <1>5, <1>6, <1>7 DEF Storing, Clearing

\* RemoveTask, of an id that is not set apart: the id has no row, and no entry is left.
LEMMA RemoveStep ==
  ASSUME TypeInv, EntryInv, AloneInv, NEW h \in Handlers, Remove(h),
         NEW t, t = handlers[h].id
  PROVE  /\ t \in TaskIds /\ Clearing(h, t) /\ runner' = runner /\ apart' = apart
         /\ rows' = rows /\ ~Clearing(h, t)' /\ ~Storing(h, t) /\ ~Storing(h, t)'
         /\ \A g \in Handlers : g # h => handlers'[g] = handlers[g]
         /\ \A u \in TaskIds : u # t => Same(u)
         /\ t \notin apart => /\ rows[t] = NoChat /\ \A e \in EntryIds : ~LiveFor(e, t)'
                              /\ AloneAt(t)' /\ HasEntry(t)'
<1>1. /\ handlers \in [Handlers -> HandlerStates] /\ HandlerShape
      /\ rows \in [TaskIds -> Chats \cup {NoChat}] /\ entryIDs \in [TaskIds -> {0} \cup EntryIds]
      /\ entries \in [EntryIds -> Tasks \cup {NoTask}]
  BY DEF TypeInv, TypeOK
<1>2. /\ UNCHANGED <<rows, runner, apart>> /\ handlers[h].pc = "remove"
      /\ t \in TaskIds /\ Clearing(h, t)
  BY <1>1 DEF Remove, process, HandlerShape, Clearing
<1>3. (\A g \in Handlers : g # h => handlers'[g] = handlers[g]) /\ handlers'[h].pc = "idle"
  BY <1>1 DEF Remove, Step, IdleHandler
<1>4. /\ entryIDs[t] = 0 => UNCHANGED <<entries, entryIDs>>
      /\ entryIDs[t] # 0 => /\ entries' = [entries EXCEPT ![entryIDs[t]] = NoTask]
                            /\ entryIDs' = [entryIDs EXCEPT ![t] = 0]
                            /\ entryIDs[t] \in EntryIds /\ entries[entryIDs[t]].id = t
  BY <1>1, <1>2 DEF Remove, EntryInv, TrackedEntries
<1>5. ASSUME NEW u \in TaskIds, u # t PROVE Same(u)
  <2>1. entryIDs'[u] = entryIDs[u]
    BY <1>1, <1>4, <1>5
  <2>2. \A e \in EntryIds : LiveFor(e, u) \/ LiveFor(e, u)' => entries'[e] = entries[e]
    BY <1>1, <1>4, <1>5 DEF LiveFor
  <2> QED
    BY <1>2, <1>3, <1>5, <2>1, <2>2, SameWrite DEF Storing, Clearing
<1>6. ASSUME t \notin apart
      PROVE  /\ rows[t] = NoChat /\ \A e \in EntryIds : ~LiveFor(e, t)'
             /\ AloneAt(t)' /\ HasEntry(t)'
  <2>1. /\ AloneAt(t) /\ rows[t] = NoChat
        /\ \A g \in Handlers : ~Scheduling(g, t) /\ (Clearing(g, t) => g = h)
    BY <1>2, <1>6 DEF AloneInv, AloneAt
  <2>2. /\ \A g \in Handlers : Storing(g, t)' => Storing(g, t)
        /\ \A g \in Handlers : ~Scheduling(g, t)' /\ ~Clearing(g, t)'
        /\ \A g \in Handlers : Storing(g, t)' => handlers'[g].pc = "reread"
        /\ entryIDs'[t] = 0
    BY <1>1, <1>2, <1>3, <1>4, <2>1 DEF Storing, Scheduling, Clearing
  <2>3. AloneAt(t)' /\ HasEntry(t)'
    BY <1>2, <2>1, <2>2 DEF AloneAt, HasEntry
  <2>4. \A e \in EntryIds : LiveFor(e, t) => e = entryIDs[t]
    <3>1. \A g \in Handlers : ~(Storing(g, t) /\ handlers[g].pc = "register")
      BY <2>1 DEF Scheduling, Storing
    <3> QED
      BY <1>2, <3>1, LiveTracked DEF LiveFor, Pending
  <2>5. ASSUME NEW e \in EntryIds PROVE ~LiveFor(e, t)'
    <3>1. entryIDs[t] = 0 => entries'[e] = entries[e] /\ e # 0
      BY <1>4, <2>5 DEF EntryIds
    <3>2. entryIDs[t] # 0 => entries'[e] = IF e = entryIDs[t] THEN NoTask ELSE entries[e]
      BY <1>1, <1>4, <2>5
    <3> QED
      BY <2>4, <2>5, <3>1, <3>2 DEF LiveFor
  <2> QED
    BY <2>1, <2>3, <2>5
<1> QED
  BY <1>2, <1>3, <1>5, <1>6 DEF Storing, Clearing

\* A Create that fails half way sets its id apart.
LEMMA FailStep ==
  ASSUME TypeInv, NEW h \in Handlers, DbError(h), handlers[h].pc = "reread",
         NEW t, t = handlers[h].id
  PROVE  /\ t \in TaskIds /\ Storing(h, t) /\ runner' = runner /\ apart' = apart \cup {t}
         /\ UNCHANGED <<rows, entries, entryIDs>> /\ ~Storing(h, t)' /\ ~Clearing(h, t)'
         /\ \A g \in Handlers : g # h => handlers'[g] = handlers[g]
         /\ \A u \in TaskIds : u # t => Same(u)
<1>1. /\ handlers \in [Handlers -> HandlerStates] /\ HandlerShape
  BY DEF TypeInv, TypeOK
<1>2. /\ UNCHANGED <<rows, entries, entryIDs, runner>> /\ apart' = apart \cup {t}
      /\ t \in TaskIds /\ Storing(h, t)
  BY <1>1 DEF DbError, Part, schedule, process, HandlerShape, Storing
<1>3. (\A g \in Handlers : g # h => handlers'[g] = handlers[g]) /\ handlers'[h].pc = "idle"
  BY <1>1 DEF DbError, Step, IdleHandler
<1>4. ASSUME NEW u \in TaskIds, u # t PROVE Same(u)
  BY <1>2, <1>3, <1>4, SameWrite DEF Storing, Clearing
<1> QED
  BY <1>2, <1>3, <1>4 DEF Storing, Clearing

\* A row Start restores gets the entry it did not have; no call is in progress.
LEMMA RestoreStep ==
  ASSUME TypeInv, EntryInv, AloneInv, NEW t \in TaskIds, RestoreTask(t)
  PROVE  /\ rows[t] \in Chats /\ AddFunc([id |-> t, chat |-> rows[t]])
         /\ \A e \in EntryIds : ~LiveFor(e, t)
         /\ UNCHANGED <<rows, handlers, apart>>
         /\ \A h \in Handlers, u \in TaskIds : ~Storing(h, u) /\ ~Clearing(h, u)
         /\ \A h \in Handlers, u \in TaskIds : ~Storing(h, u)' /\ ~Clearing(h, u)'
         /\ runner' = runner /\ runner = "off" /\ AloneAt(t)' /\ HasEntry(t)'
         /\ \A u \in TaskIds : u # t => Same(u)
<1>1. /\ HandlerShape /\ ProcessShape /\ entryIDs \in [TaskIds -> {0} \cup EntryIds]
  BY DEF TypeInv, TypeOK
<1>2. /\ UNCHANGED <<rows, handlers, apart, runner>> /\ phase = "starting" /\ t \in toRestore
      /\ AddFunc([id |-> t, chat |-> rows[t]]) /\ entryIDs' = [entryIDs EXCEPT ![t] = nextEntry]
  BY DEF RestoreTask
<1>3. \A h \in Handlers : handlers[h].pc = "idle" /\ handlers'[h].pc = "idle"
  BY <1>1, <1>2 DEF HandlerShape
<1>4. /\ \A h \in Handlers, u \in TaskIds : ~Storing(h, u) /\ ~Clearing(h, u)
      /\ \A h \in Handlers, u \in TaskIds :
           ~Storing(h, u)' /\ ~Clearing(h, u)' /\ ~Scheduling(h, u)'
  BY <1>3 DEF Storing, Clearing, Scheduling
<1>5. rows[t] \in Chats /\ [id |-> t, chat |-> rows[t]] \in Tasks /\ runner = "off"
  BY <1>1, <1>2 DEF ProcessShape, Tasks
<1>6. entryIDs[t] = 0
  BY <1>2 DEF EntryInv, RestoreMirrorsRows
<1>7. \A e \in EntryIds : ~LiveFor(e, t)
  BY <1>4, <1>6, NoneLive
<1>8. ASSUME NEW u \in TaskIds, u # t PROVE Same(u)
  <2>1. \A e \in EntryIds : LiveFor(e, u) \/ LiveFor(e, u)' => entries'[e] = entries[e]
    BY <1>2, <1>5, <1>8, FreshEntry
  <2>2. entryIDs'[u] = entryIDs[u]
    BY <1>1, <1>2, <1>8
  <2> QED
    BY <1>2, <1>4, <2>1, <2>2 DEF Same
<1>9. AloneAt(t)' /\ HasEntry(t)'
  <2>1. entryIDs'[t] = nextEntry /\ entries'[nextEntry] = [id |-> t, chat |-> rows[t]]
    BY <1>1, <1>2, <1>5, FreshEntry
  <2> QED
    BY <1>2, <1>4, <1>5, <2>1 DEF AloneAt, HasEntry
<1> QED
  BY <1>2, <1>4, <1>5, <1>7, <1>8, <1>9

\* Every step of a tool call concerns one id at most.
LEMMA CallStep ==
  ASSUME TypeInv, EntryInv, AloneInv, NEW h \in Handlers, HandlerNext(h)
  PROVE  \/ ReadsOnly(h)
         \/ \E t \in TaskIds : Insert(h, t)
         \/ Reread(h) \/ Schedule(h) \/ Register(h) \/ Remove(h)
         \/ Delete(h) /\ rows[handlers[h].id] # NoChat
         \/ DbError(h) /\ handlers[h].pc = "reread"
BY DEF HandlerNext, ReadsOnly

\* So what is known of the ids that are not set apart outlives every step.
LEMMA AloneNext == TypeInv /\ EntryInv /\ AloneInv /\ [Next]_vars => AloneInv'
<1> SUFFICES ASSUME TypeInv, EntryInv, AloneInv, [Next]_vars PROVE AloneInv'
  OBVIOUS
<1>1. ASSUME NEW t \in TaskIds, t \notin apart', Same(t), runner # "off" \/ runner' = runner
      PROVE  AloneAt(t)' /\ HasEntry(t)'
  <2>1. t \notin apart
    BY <1>1 DEF Same
  <2> QED
    BY <1>1, <2>1, SameKeeps DEF AloneInv
<1>2. ASSUME NEW t \in TaskIds, \A u \in TaskIds : u # t => Same(u),
             t \notin apart' => AloneAt(t)' /\ HasEntry(t)',
             runner' = runner
      PROVE  AloneInv'
  BY <1>1, <1>2 DEF AloneInv
<1>3. ASSUME \A u \in TaskIds : Same(u), runner # "off" \/ runner' = runner PROVE AloneInv'
  BY <1>1, <1>3 DEF AloneInv
<1>4. CASE Die
  <2>1. /\ \A h \in Handlers, t \in TaskIds :
             ~Storing(h, t)' /\ ~Scheduling(h, t)' /\ ~Clearing(h, t)'
        /\ \A t \in TaskIds : entryIDs'[t] = 0
        /\ runner' = "off"
    BY <1>4 DEF Die, IdleHandler, Storing, Scheduling, Clearing
  <2> QED
    BY <2>1 DEF AloneInv, AloneAt, HasEntry
<1>5. ASSUME NEW t \in TaskIds, RestoreTask(t) PROVE AloneInv'
  BY <1>2, <1>5, RestoreStep
<1>6. CASE StartRunner
  <2>1. UNCHANGED <<rows, entries, entryIDs, apart, handlers>>
    BY <1>6 DEF StartRunner, schedule
  <2>2. ASSUME NEW t \in TaskIds, t \notin apart' PROVE AloneAt(t)' /\ HasEntry(t)'
    <3>1. Same(t) /\ AloneAt(t) /\ HasEntry(t)
      BY <2>1, <2>2, SameIdle DEF AloneInv
    <3>2. rows[t] # NoChat => entryIDs[t] # 0
      BY <1>6 DEF StartRunner, EntryInv, RestoreMirrorsRows
    <3> QED
      BY <2>1, <3>1, <3>2, SameKeeps DEF HasEntry
  <2> QED
    BY <2>2 DEF AloneInv
<1>7. CASE Boot \/ BootListFails \/ Stop \/ StopRunner
  <2>1. /\ UNCHANGED <<rows, entries, entryIDs, apart, handlers>>
        /\ runner # "off" \/ runner' = runner
    BY <1>7 DEF Boot, BootListFails, Stop, StopRunner, schedule
  <2> QED
    BY <1>3, <2>1, SameIdle
<1>8. ASSUME NEW j \in Jobs, JobNext(j) PROVE AloneInv'
  <2>1. UNCHANGED <<rows, entries, entryIDs, apart, handlers, runner>>
    BY <1>8 DEF JobNext, Fire, LookupFlag, Begin, Skip, Answer, Sent, GiveUp, Release,
         LateReturn, schedule, process
  <2> QED
    BY <1>3, <2>1, SameIdle
<1>9. ASSUME NEW h \in Handlers, HandlerNext(h) PROVE AloneInv'
  <2>1. CASE ReadsOnly(h)
    BY <1>3, <2>1, ReadStep
  <2>2. ASSUME NEW t \in TaskIds, Insert(h, t) PROVE AloneInv'
    BY <1>2, <2>2, InsertStep
  <2>3. CASE Reread(h)
    BY <1>2, <2>3, RereadStep
  <2>4. CASE Schedule(h)
    BY <1>2, <2>4, ScheduleStep
  <2>5. CASE Register(h)
    BY <1>2, <2>5, RegisterStep
  <2>6. CASE Delete(h) /\ rows[handlers[h].id] # NoChat
    BY <1>2, <2>6, DeleteStep
  <2>7. CASE Remove(h)
    BY <1>2, <2>7, RemoveStep
  <2>8. CASE DbError(h) /\ handlers[h].pc = "reread"
    BY <1>2, <2>8, FailStep
  <2> QED
    BY <1>9, <2>1, <2>2, <2>3, <2>4, <2>5, <2>6, <2>7, <2>8, CallStep
<1>10. CASE UNCHANGED vars
  BY <1>3, <1>10, SameIdle DEF vars, schedule, process
<1> QED
  BY <1>4, <1>5, <1>6, <1>7, <1>8, <1>9, <1>10 DEF Next, ProcessNext

\* The invariants of the types, the entries and the ids hold together.
LEMMA AloneAlways == Spec => [](TypeInv /\ EntryInv /\ AloneInv)
<1>1. Init => AloneInv
  BY DEF Init, AloneInv, AloneAt, HasEntry, IdleHandler, Storing, Scheduling, Clearing
<1> QED
  BY <1>1, EntryAlways, AloneNext, PTL DEF Spec

\* Whatever calls run side by side, the row and the entry of an id mirror each other
\* unless overlapping calls, or a Create that failed half way, have set the id apart.
THEOREM Mirroring == Spec => []EntriesMirrorRows
<1>1. TypeInv /\ EntryInv /\ AloneInv => EntriesMirrorRows
  <2> SUFFICES ASSUME TypeInv, EntryInv, AloneInv PROVE EntriesHaveRows /\ RowsHaveEntries
    BY DEF EntriesMirrorRows
  <2>1. EntriesHaveRows
    BY DEF EntriesHaveRows, AloneInv, AloneAt
  <2>2. ASSUME runner # "off", NEW t \in TaskIds \ apart, rows[t] # NoChat,
               ~(\E h \in Handlers : Storing(h, t))
        PROVE  entryIDs[t] # 0 /\ entries[entryIDs[t]] = [id |-> t, chat |-> rows[t]]
    BY <2>2 DEF AloneInv, AloneAt, HasEntry
  <2> QED
    BY <2>1, <2>2 DEF RowsHaveEntries
<1> QED
  BY <1>1, AloneAlways, PTL

-----------------------------------------------------------------------------
(* What TaskLife speaks of, as the table, the runner and the calls have it. *)

Trigger(e) == [number |-> e, id |-> entries[e].id, chat |-> entries[e].chat]
Triggers == {Trigger(e) : e \in {k \in EntryIds : entries[k] # NoTask}}
StoringIds == {t \in TaskIds : \E h \in Handlers : Storing(h, t)}
ClearingIds == {t \in TaskIds : \E h \in Handlers : Clearing(h, t)}
promised == <<rows, Triggers, StoringIds, ClearingIds, apart>>

\* A trigger of an id is a live entry for it.
LEMMA TriggersLive ==
  ASSUME NEW t
  PROVE  (\A g \in Triggers : g.id # t) <=> \A e \in EntryIds : ~LiveFor(e, t)
<1>1. \A e \in EntryIds : entries[e] # NoTask => Trigger(e) \in Triggers /\ Trigger(e).id = entries[e].id
  BY DEF Triggers, Trigger
<1>2. \A g \in Triggers : \E e \in EntryIds : entries[e] # NoTask /\ g.id = entries[e].id
  BY DEF Triggers, Trigger
<1> QED
  BY <1>1, <1>2 DEF LiveFor

\* A step that has nothing to do with the other ids leaves their triggers.
LEMMA OtherTriggers ==
  ASSUME TypeInv, TypeInv', NEW t, \A u \in TaskIds : u # t => Same(u)
  PROVE  {g \in Triggers' : g.id # t} = {g \in Triggers : g.id # t}
<1>1. \A e \in EntryIds : /\ entries[e] # NoTask => entries[e].id \in TaskIds
                          /\ entries'[e] # NoTask => entries'[e].id \in TaskIds
  BY DEF TypeInv, TypeOK, Tasks
<1>2. ASSUME NEW e \in EntryIds, entries[e] # NoTask, entries[e].id # t
      PROVE  entries'[e] = entries[e]
  BY <1>1, <1>2 DEF Same, LiveFor
<1>3. ASSUME NEW e \in EntryIds, entries'[e] # NoTask, entries'[e].id # t
      PROVE  entries'[e] = entries[e]
  <2>1. PICK u \in TaskIds : u = entries'[e].id
    BY <1>1, <1>3
  <2>2. u # t /\ LiveFor(e, u)'
    BY <1>3, <2>1 DEF LiveFor
  <2> QED
    BY <2>2 DEF Same
<1>4. \A g : g \in Triggers /\ g.id # t => g \in Triggers'
  BY <1>2 DEF Triggers, Trigger
<1>5. \A g : g \in Triggers' /\ g.id # t => g \in Triggers
  BY <1>3 DEF Triggers, Trigger
<1> QED
  BY <1>4, <1>5

\* Nor does it change their storing, clearing, owner and standing.
LEMMA OtherIds ==
  ASSUME NEW u \in TaskIds, Same(u)
  PROVE  /\ rows'[u] = rows[u] /\ (u \in apart' <=> u \in apart)
         /\ u \in StoringIds' <=> u \in StoringIds
         /\ u \in ClearingIds' <=> u \in ClearingIds
<1>1. \A h \in Handlers : Storing(h, u)' <=> Storing(h, u)
  BY DEF Same, Storing
<1> QED
  BY <1>1 DEF Same, StoringIds, ClearingIds

\* A step that has nothing to do with any id is none for the chats.
LEMMA SameStutters ==
  ASSUME TypeInv, TypeInv', \A u \in TaskIds : Same(u)
  PROVE  UNCHANGED promised
<1>1. Triggers' = Triggers
  <2>1. \A e \in EntryIds : /\ entries[e] # NoTask => entries[e].id \in TaskIds
                            /\ entries'[e] # NoTask => entries'[e].id \in TaskIds
    BY DEF TypeInv, TypeOK, Tasks
  <2>2. /\ \A g \in Triggers : g.id \in TaskIds
        /\ \A g \in Triggers' : g.id \in TaskIds
    BY <2>1 DEF Triggers, Trigger
  <2>3. {g \in Triggers' : g.id # 0} = {g \in Triggers : g.id # 0}
    BY OtherTriggers
  <2>4. 0 \notin TaskIds
    BY DEF TaskIds
  <2> QED
    BY <2>2, <2>3, <2>4
<1>2. \A u \in TaskIds : /\ rows'[u] = rows[u] /\ (u \in apart' <=> u \in apart)
                         /\ u \in StoringIds' <=> u \in StoringIds
                         /\ u \in ClearingIds' <=> u \in ClearingIds
  BY OtherIds
<1>3. /\ rows \in [TaskIds -> Chats \cup {NoChat}] /\ rows' \in [TaskIds -> Chats \cup {NoChat}]
      /\ apart \subseteq TaskIds /\ apart' \subseteq TaskIds
  BY DEF TypeInv, TypeOK
<1>4. rows' = rows /\ apart' = apart
  BY <1>2, <1>3
<1>5. StoringIds' = StoringIds /\ ClearingIds' = ClearingIds
  BY <1>2 DEF StoringIds, ClearingIds
<1> QED
  BY <1>1, <1>4, <1>5 DEF promised

\* Of an id that is set apart nothing is promised but that it alone is concerned.
LEMMA ApartLoose ==
  ASSUME TypeInv, TypeInv', NEW t \in TaskIds, t \in apart, t \in apart',
         \A u \in TaskIds : u # t => Same(u)
  PROVE  Promised!Next
<1>1. \A u \in TaskIds \ {t} : /\ rows'[u] = rows[u] /\ (u \in apart' <=> u \in apart)
                               /\ u \in StoringIds' <=> u \in StoringIds
                               /\ u \in ClearingIds' <=> u \in ClearingIds
  BY OtherIds
<1>2. apart' = apart
  <2>1. apart \subseteq TaskIds /\ apart' \subseteq TaskIds
    BY DEF TypeInv, TypeOK
  <2>2. \A u \in TaskIds : u \in apart' <=> u \in apart
    BY <1>1
  <2> QED
    BY <2>1, <2>2
<1>3. {g \in Triggers' : g.id # t} = {g \in Triggers : g.id # t}
  BY OtherTriggers
<1>4. Promised!Loose(t)
  BY <1>1, <1>2, <1>3 DEF Promised!Loose, Triggers, Trigger, StoringIds, ClearingIds
<1> QED
  BY <1>4 DEF Promised!Next

\* How a step of one call changes the ids that are being stored and cleared.
LEMMA StoringWrite ==
  ASSUME TypeInv, TypeInv', NEW t \in TaskIds, NEW h \in Handlers,
         \A u \in TaskIds : u # t => Same(u),
         \A g \in Handlers : g # h => handlers'[g] = handlers[g]
  PROVE  /\ Storing(h, t)' => StoringIds' = StoringIds \cup {t}
         /\ (Storing(h, t) <=> Storing(h, t)') => StoringIds' = StoringIds
         /\ (\A g \in Handlers : Storing(g, t) => g = h) /\ ~Storing(h, t)'
              => StoringIds' = StoringIds \ {t}
<1>1. \A u \in TaskIds : u # t => (u \in StoringIds' <=> u \in StoringIds)
  BY OtherIds
<1>2. \A g \in Handlers : g # h => (Storing(g, t)' <=> Storing(g, t))
  BY DEF Storing
<1>3. StoringIds \subseteq TaskIds /\ StoringIds' \subseteq TaskIds
  BY DEF StoringIds
<1>4. /\ Storing(h, t)' => t \in StoringIds'
      /\ (Storing(h, t) <=> Storing(h, t)') => (t \in StoringIds' <=> t \in StoringIds)
      /\ (\A g \in Handlers : Storing(g, t) => g = h) /\ ~Storing(h, t)' => t \notin StoringIds'
  BY <1>2 DEF StoringIds
<1> QED
  BY <1>1, <1>3, <1>4

\* The same of the ids that are being cleared.
LEMMA ClearingWrite ==
  ASSUME TypeInv, TypeInv', NEW t \in TaskIds, NEW h \in Handlers,
         \A u \in TaskIds : u # t => Same(u),
         \A g \in Handlers : g # h => handlers'[g] = handlers[g]
  PROVE  /\ Clearing(h, t)' => ClearingIds' = ClearingIds \cup {t}
         /\ (Clearing(h, t) <=> Clearing(h, t)') => ClearingIds' = ClearingIds
         /\ (\A g \in Handlers : Clearing(g, t) => g = h) /\ ~Clearing(h, t)'
              => ClearingIds' = ClearingIds \ {t}
<1>1. \A u \in TaskIds : u # t => (u \in ClearingIds' <=> u \in ClearingIds)
  BY OtherIds
<1>2. \A g \in Handlers : g # h => (Clearing(g, t)' <=> Clearing(g, t))
  BY DEF Clearing
<1>3. ClearingIds \subseteq TaskIds /\ ClearingIds' \subseteq TaskIds
  BY DEF ClearingIds
<1>4. /\ Clearing(h, t)' => t \in ClearingIds'
      /\ (Clearing(h, t) <=> Clearing(h, t)') => (t \in ClearingIds' <=> t \in ClearingIds)
      /\ (\A g \in Handlers : Clearing(g, t) => g = h) /\ ~Clearing(h, t)' => t \notin ClearingIds'
  BY <1>2 DEF ClearingIds
<1> QED
  BY <1>1, <1>3, <1>4

\* A runner entry for an id without one is a trigger for its owner.
LEMMA EntryArms ==
  ASSUME TypeInv, TypeInv', EntryInv, NEW t \in TaskIds, t \notin apart, rows[t] \in Chats,
         AddFunc([id |-> t, chat |-> rows[t]]), \A e \in EntryIds : ~LiveFor(e, t),
         UNCHANGED <<rows, StoringIds, ClearingIds, apart>>
  PROVE  Promised!Next
<1>1. [id |-> t, chat |-> rows[t]] \in Tasks
  BY DEF Tasks
<1>2. /\ nextEntry \in EntryIds /\ entries[nextEntry] = NoTask
      /\ entries'[nextEntry] = [id |-> t, chat |-> rows[t]]
      /\ \A e \in EntryIds : e # nextEntry => entries'[e] = entries[e]
  BY <1>1, FreshEntry
<1>3. Triggers' = Triggers \cup {[number |-> nextEntry, id |-> t, chat |-> rows[t]]}
  <2>1. entries'[nextEntry] # NoTask
    BY <1>1, <1>2, NoTaskAssumption
  <2> QED
    BY <1>2, <2>1 DEF Triggers, Trigger
<1>4. \A g \in Triggers : g.id # t
  BY TriggersLive
<1>5. rows[t] # NoChat
  BY NullsAssumption
<1>6. Promised!Arm(t)
  BY <1>2, <1>3, <1>4, <1>5 DEF Promised!Arm, Promised!Quiet, Triggers, Trigger,
     StoringIds, ClearingIds
<1> QED
  BY <1>6 DEF Promised!Next

\* Every step is one TaskLife has, or none it sees.
LEMMA PromiseStep ==
  TypeInv /\ TypeInv' /\ EntryInv /\ AloneInv /\ [Next]_vars => [Promised!Next]_promised
<1> SUFFICES ASSUME TypeInv, TypeInv', EntryInv, AloneInv, [Next]_vars
             PROVE  [Promised!Next]_promised
  OBVIOUS
<1>1. ASSUME \A u \in TaskIds : Same(u) PROVE [Promised!Next]_promised
  BY <1>1, SameStutters
<1>2. ASSUME UNCHANGED <<rows, entries, entryIDs, apart, handlers>>
      PROVE  [Promised!Next]_promised
  BY <1>1, <1>2, SameIdle
<1>3. CASE Die
  <2>1. Triggers' = {} /\ rows' = rows /\ apart' = {}
    BY <1>3 DEF Die, Triggers
  <2>2. StoringIds' = {} /\ ClearingIds' = {}
    BY <1>3 DEF Die, IdleHandler, StoringIds, ClearingIds, Storing, Clearing
  <2>3. Promised!Crash
    BY <2>1, <2>2 DEF Promised!Crash, Triggers, Trigger, StoringIds, ClearingIds
  <2> QED
    BY <2>3 DEF Promised!Next
<1>4. ASSUME NEW t \in TaskIds, RestoreTask(t) PROVE [Promised!Next]_promised
  <2>1. CASE t \in apart
    BY <1>4, <2>1, RestoreStep, ApartLoose
  <2>2. CASE t \notin apart
    <3>1. UNCHANGED <<StoringIds, ClearingIds>>
      BY <1>4, RestoreStep DEF StoringIds, ClearingIds
    <3> QED
      BY <1>4, <2>2, <3>1, RestoreStep, EntryArms
  <2> QED
    BY <2>1, <2>2
<1>5. ASSUME NEW h \in Handlers, NEW t \in TaskIds, Insert(h, t) PROVE [Promised!Next]_promised
  <2> DEFINE c == handlers[h].chat
  <2>1. /\ \A u \in TaskIds : u # t => Same(u)
        /\ rows' = [rows EXCEPT ![t] = c] /\ entries' = entries /\ handlers[h].pc = "insert"
        /\ apart' = IF \E g \in Handlers : Storing(g, t) \/ Clearing(g, t)
                    THEN apart \cup {t} ELSE apart
    BY <1>5, InsertStep DEF Insert, Part, schedule
  <2>2. \A g \in Handlers : g # h => handlers'[g] = handlers[g]
    BY <1>5 DEF Insert, Step, TypeInv, TypeOK
  <2>3. /\ rows[t] = NoChat /\ c \in Chats /\ Storing(h, t)' /\ handlers'[h].pc = "reread"
        /\ t \notin apart' => entryIDs[t] = 0
    BY <1>5, InsertStep
  <2>4. ~Clearing(h, t) /\ ~Clearing(h, t)'
    BY <2>1, <2>3 DEF Clearing
  <2>5. StoringIds' = StoringIds \cup {t} /\ ClearingIds' = ClearingIds
    BY <2>1, <2>2, <2>3, <2>4, StoringWrite, ClearingWrite
  <2>6. apart' = IF t \in StoringIds \cup ClearingIds THEN apart \cup {t} ELSE apart
    BY <2>1 DEF StoringIds, ClearingIds
  <2>7. t \notin apart' => \A g \in Triggers : g.id # t
    <3>1. t \notin apart' => \A g \in Handlers : ~Storing(g, t)
      BY <2>1
    <3> QED
      BY <2>3, <3>1, NoneLive, TriggersLive
  <2>8. Triggers' = Triggers
    BY <2>1 DEF Triggers, Trigger
  <2> HIDE DEF c
  <2>9. Promised!Store(t, c)
    BY <2>1, <2>3, <2>5, <2>6, <2>7, <2>8
       DEF Promised!Store, Promised!Quiet, Triggers, Trigger, StoringIds, ClearingIds
  <2> QED
    BY <2>3, <2>9 DEF Promised!Next
<1>6. ASSUME NEW h \in Handlers, Reread(h) PROVE [Promised!Next]_promised
  <2>0. PICK t : t = handlers[h].id
    OBVIOUS
  <2>1. /\ t \in TaskIds /\ UNCHANGED <<rows, entries, apart>> /\ Storing(h, t)
        /\ \A u \in TaskIds : u # t => Same(u)
        /\ \A g \in Handlers : g # h => handlers'[g] = handlers[g]
        /\ ~Clearing(h, t)'
        /\ IF rows[t] = NoChat THEN ~Storing(h, t)' ELSE Storing(h, t)'
    BY <1>6, <2>0, RereadStep
  <2>2. CASE t \in apart
    BY <2>1, <2>2, ApartLoose
  <2>3. CASE t \notin apart
    <3>1. /\ \A g \in Handlers : Storing(g, t) => g = h
          /\ ~Clearing(h, t) /\ t \in StoringIds
      BY <2>1, <2>3 DEF AloneInv, AloneAt, StoringIds, Storing, Clearing
    <3>2. Triggers' = Triggers /\ ClearingIds' = ClearingIds
      BY <2>1, <3>1, ClearingWrite DEF Triggers, Trigger
    <3>3. CASE rows[t] = NoChat
      <4>1. StoringIds' = StoringIds \ {t}
        BY <2>1, <3>1, <3>3, StoringWrite
      <4>2. Promised!Stored(t)
        BY <2>1, <2>3, <3>1, <3>2, <3>3, <4>1
           DEF Promised!Stored, Triggers, Trigger, StoringIds, ClearingIds
      <4> QED
        BY <2>1, <4>2 DEF Promised!Next
    <3>4. CASE rows[t] # NoChat
      <4>1. StoringIds' = StoringIds
        BY <2>1, <3>4, StoringWrite
      <4> QED
        BY <2>1, <3>2, <4>1 DEF promised
    <3> QED
      BY <3>3, <3>4
  <2> QED
    BY <2>2, <2>3
<1>7. ASSUME NEW h \in Handlers, Schedule(h) PROVE [Promised!Next]_promised
  <2>0. PICK t : t = handlers[h].id
    OBVIOUS
  <2>1. /\ t \in TaskIds /\ UNCHANGED <<rows, apart>> /\ Storing(h, t) /\ Storing(h, t)'
        /\ ~Clearing(h, t) /\ ~Clearing(h, t)'
        /\ \A u \in TaskIds : u # t => Same(u)
        /\ \A g \in Handlers : g # h => handlers'[g] = handlers[g]
        /\ t \notin apart => /\ rows[t] \in Chats /\ AddFunc([id |-> t, chat |-> rows[t]])
                             /\ \A e \in EntryIds : ~LiveFor(e, t)
    BY <1>7, <2>0, ScheduleStep
  <2>2. CASE t \in apart
    BY <2>1, <2>2, ApartLoose
  <2>3. CASE t \notin apart
    <3>1. UNCHANGED <<StoringIds, ClearingIds>>
      BY <2>1, StoringWrite, ClearingWrite
    <3> QED
      BY <2>1, <2>3, <3>1, EntryArms
  <2> QED
    BY <2>2, <2>3
<1>8. ASSUME NEW h \in Handlers, Register(h) PROVE [Promised!Next]_promised
  <2>0. PICK t : t = handlers[h].id
    OBVIOUS
  <2>1. /\ t \in TaskIds /\ UNCHANGED <<rows, apart>> /\ Storing(h, t) /\ ~Storing(h, t)'
        /\ ~Clearing(h, t)'
        /\ \A u \in TaskIds : u # t => Same(u)
        /\ \A g \in Handlers : g # h => handlers'[g] = handlers[g]
        /\ t \notin apart => entries' = entries /\ \E e \in EntryIds : LiveFor(e, t)
    BY <1>8, <2>0, RegisterStep
  <2>2. CASE t \in apart
    BY <2>1, <2>2, ApartLoose
  <2>3. CASE t \notin apart
    <3>1. /\ \A g \in Handlers : Storing(g, t) => g = h
          /\ ~Clearing(h, t) /\ t \in StoringIds
      BY <2>1, <2>3 DEF AloneInv, AloneAt, StoringIds, Storing, Clearing
    <3>2. /\ StoringIds' = StoringIds \ {t} /\ ClearingIds' = ClearingIds
      BY <2>1, <3>1, StoringWrite, ClearingWrite
    <3>3. Triggers' = Triggers
      BY <2>1, <2>3 DEF Triggers, Trigger
    <3>4. ~(\A g \in Triggers : g.id # t)
      BY <2>1, <2>3, TriggersLive
    <3>5. Promised!Stored(t)
      BY <2>1, <2>3, <3>1, <3>2, <3>3, <3>4
         DEF Promised!Stored, Promised!Quiet, Triggers, Trigger, StoringIds, ClearingIds
    <3> QED
      BY <2>1, <3>5 DEF Promised!Next
  <2> QED
    BY <2>2, <2>3
<1>9. ASSUME NEW h \in Handlers, Delete(h), rows[handlers[h].id] # NoChat
      PROVE  [Promised!Next]_promised
  <2>0. PICK t : t = handlers[h].id
    OBVIOUS
  <2>1. /\ t \in TaskIds /\ entries' = entries /\ rows' = [rows EXCEPT ![t] = NoChat]
        /\ apart' = apart \/ (apart' = apart \cup {t} /\ \E g \in Handlers : Storing(g, t))
        /\ \A g \in Handlers : g # h => handlers'[g] = handlers[g]
        /\ Clearing(h, t)' /\ ~Storing(h, t) /\ ~Storing(h, t)'
        /\ \A u \in TaskIds : u # t => Same(u)
    BY <1>9, <2>0, DeleteStep
  <2>2. rows[t] # NoChat
    BY <1>9, <2>0
  <2>3. ClearingIds' = ClearingIds \cup {t} /\ StoringIds' = StoringIds
    BY <2>1, StoringWrite, ClearingWrite
  <2>4. apart' \in {apart} \cup {apart \cup {u} : u \in StoringIds \cap {t}}
    BY <2>1 DEF StoringIds
  <2>5. Triggers' = Triggers
    BY <2>1 DEF Triggers, Trigger
  <2>6. Promised!Delete(t)
    BY <2>1, <2>2, <2>3, <2>4, <2>5
       DEF Promised!Delete, Triggers, Trigger, StoringIds, ClearingIds
  <2> QED
    BY <2>1, <2>6 DEF Promised!Next
<1>10. ASSUME NEW h \in Handlers, Remove(h) PROVE [Promised!Next]_promised
  <2>0. PICK t : t = handlers[h].id
    OBVIOUS
  <2>1. /\ t \in TaskIds /\ UNCHANGED <<rows, apart>> /\ Clearing(h, t) /\ ~Clearing(h, t)'
        /\ ~Storing(h, t) /\ ~Storing(h, t)'
        /\ \A u \in TaskIds : u # t => Same(u)
        /\ \A g \in Handlers : g # h => handlers'[g] = handlers[g]
        /\ t \notin apart => rows[t] = NoChat /\ \A e \in EntryIds : ~LiveFor(e, t)'
    BY <1>10, <2>0, RemoveStep
  <2>2. CASE t \in apart
    BY <2>1, <2>2, ApartLoose
  <2>3. CASE t \notin apart
    <3>1. (\A g \in Handlers : Clearing(g, t) => g = h) /\ t \in ClearingIds
      BY <2>1, <2>3 DEF AloneInv, AloneAt, ClearingIds
    <3>2. StoringIds' = StoringIds /\ ClearingIds' = ClearingIds \ {t}
      BY <2>1, <3>1, StoringWrite, ClearingWrite
    <3>3. Triggers' = {g \in Triggers : g.id # t}
      <4>1. {g \in Triggers' : g.id # t} = {g \in Triggers : g.id # t}
        BY <2>1, OtherTriggers
      <4>2. \A g \in Triggers' : g.id # t
        BY <2>1, <2>3 DEF Triggers, Trigger, LiveFor
      <4> QED
        BY <4>1, <4>2
    <3>4. Promised!Cleared(t)
      BY <2>1, <2>3, <3>1, <3>2, <3>3
         DEF Promised!Cleared, Triggers, Trigger, StoringIds, ClearingIds
    <3> QED
      BY <2>1, <3>4 DEF Promised!Next
  <2> QED
    BY <2>2, <2>3
<1>11. ASSUME NEW h \in Handlers, DbError(h), handlers[h].pc = "reread"
       PROVE  [Promised!Next]_promised
  <2>0. PICK t : t = handlers[h].id
    OBVIOUS
  <2>1. /\ t \in TaskIds /\ UNCHANGED <<rows, entries>> /\ Storing(h, t) /\ ~Storing(h, t)'
        /\ ~Clearing(h, t)' /\ apart' = apart \cup {t}
        /\ \A u \in TaskIds : u # t => Same(u)
        /\ \A g \in Handlers : g # h => handlers'[g] = handlers[g]
    BY <1>11, <2>0, FailStep
  <2>2. CASE t \in apart
    BY <2>1, <2>2, ApartLoose
  <2>3. CASE t \notin apart
    <3>1. /\ \A g \in Handlers : Storing(g, t) => g = h
          /\ ~Clearing(h, t) /\ t \in StoringIds
      BY <2>1, <2>3 DEF AloneInv, AloneAt, StoringIds, Storing, Clearing
    <3>2. StoringIds' = StoringIds \ {t} /\ ClearingIds' = ClearingIds
      BY <2>1, <3>1, StoringWrite, ClearingWrite
    <3>3. Triggers' = Triggers
      BY <2>1 DEF Triggers, Trigger
    <3>4. Promised!Fail(t)
      BY <2>1, <2>3, <3>1, <3>2, <3>3
         DEF Promised!Fail, Triggers, Trigger, StoringIds, ClearingIds
    <3> QED
      BY <2>1, <3>4 DEF Promised!Next
  <2> QED
    BY <2>2, <2>3
<1>12. ASSUME NEW h \in Handlers, HandlerNext(h) PROVE [Promised!Next]_promised
  <2>1. CASE ReadsOnly(h)
    BY <1>1, <2>1, ReadStep
  <2> QED
    BY <1>5, <1>6, <1>7, <1>8, <1>9, <1>10, <1>11, <1>12, <2>1, CallStep
<1>13. CASE Boot \/ BootListFails \/ StartRunner \/ Stop \/ StopRunner
  BY <1>2, <1>13 DEF Boot, BootListFails, StartRunner, Stop, StopRunner, schedule
<1>14. ASSUME NEW j \in Jobs, JobNext(j) PROVE [Promised!Next]_promised
  BY <1>2, <1>14 DEF JobNext, Fire, LookupFlag, Begin, Skip, Answer, Sent, GiveUp, Release,
       LateReturn, schedule
<1>15. CASE UNCHANGED vars
  BY <1>2, <1>15 DEF vars, schedule
<1> QED
  BY <1>3, <1>4, <1>12, <1>13, <1>14, <1>15 DEF Next, ProcessNext

\* The table, the tool calls and the runner keep together what TaskLife promises the
\* chats, through calls side by side, failing calls, ids that are given again, stops
\* and deaths.
THEOREM Promise == Spec => KeepsPromise
<1>1. Init => Promised!Init
  BY DEF Init, Promised!Init, IdleHandler, Storing, Clearing
<1>2. TypeInv /\ TypeInv' /\ EntryInv /\ AloneInv /\ [Next]_vars => [Promised!Next]_promised
  BY PromiseStep
<1> QED
  BY <1>1, <1>2, AloneAlways, PTL DEF Spec, KeepsPromise, Promised!Spec, promised, Triggers,
     Trigger, StoringIds, ClearingIds

=============================================================================
