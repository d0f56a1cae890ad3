---------------------------- MODULE Environment -----------------------------
(***************************************************************************)
(* The life of the library: tagaspi_proc_init and tagaspi_proc_term        *)
(* (src/src/c/Initialization.cpp), Environment::initialize and finalize,   *)
(* Polling::initialize and finalize, and the polling instances             *)
(* (TaskingModel.hpp), each run by a task of its own that calls its        *)
(* polling function and sleeps until it is told to finish.  The            *)
(* application creates and deletes queue groups meanwhile (QueueGroups has *)
(* these calls in detail), which the termination does not delete.          *)
(*                                                                         *)
(* Tasks are not preempted: a task keeps its CPU until it ends or waits.   *)
(***************************************************************************)
EXTENDS QueueCheckers, Sequences, FiniteSets

CONSTANTS
    NumCPUs,             \* CPUs of the tasking runtime
    AlpiErrors,          \* ALPI functions may return error codes
    Group,               \* QueueGroup objects that may be allocated
    MaxInits             \* bound: calls of tagaspi_proc_init

ASSUME EnvironmentAssumption ==
    /\ NumCPUs \in Nat \ {0}
    /\ AlpiErrors \in BOOLEAN
    /\ MaxInits \in Nat

\* The polling instances are numbered as their tasks, the notifications' last.
NotificationsInstance == NumCheckers
Instance == Checker \cup {NotificationsInstance}
Main == -1
Actor == Instance \cup {Main}
Busy == -2               \* a task of the application that never waits

VARIABLES
    mpc,                 \* where the main task is: off, init, register, app,
                         \* term, stop, wait or gone (the process ended)
    k,                   \* its place in InitOrder or FinalizeOrder, or the
                         \* instance it registers or unregisters
    inits,               \* calls of tagaspi_proc_init
    enabled,             \* _env.enabled
    ready,               \* the parts that are allocated
    assigned,            \* the parts whose pointers or vectors were ever set:
                         \* a finalization frees them and resets none
    loaded,              \* ALPI symbols that are loaded
    called,              \* history: ALPI symbols that were called
    table,               \* the groups _env.queueGroups points to
    groups,              \* the groups that are allocated
    left,                \* history: the groups that were in the table when
                         \* tagaspi_proc_term was called
    info,                \* _queuePollingInfos, <<>> when cleared
    queue,               \* Polling::initialize: the next queue
    live,                \* PollingInstance objects that are allocated
    mustFinish, finished,\* [Instance -> the flags of the object]
    tpc,                 \* [Instance -> where its task is]
    cpu                  \* the tasks that have a CPU

envVars == <<inits, enabled, ready, assigned, loaded, info, queue>>
groupVars == <<table, groups, left>>
flagVars == <<live, mustFinish, finished>>
vars == <<mpc, k, envVars, groupVars, called, flagVars, tpc, cpu>>

Parts == {"hardware", "queues", "lists", "groups", "locks", "pool"}

\* The range of an instance; the first queue of one without queues is not set.
Info == [num : 0 .. MaxQueues, first : 0 .. MaxQueues]

TypeOK ==
    /\ mpc \in {"off", "init", "register", "app", "term", "stop", "wait", "gone"}
    /\ k \in Nat
    /\ inits \in 0 .. MaxInits
    /\ enabled \in BOOLEAN
    /\ ready \subseteq Parts /\ assigned \subseteq Parts
    /\ table \subseteq Group /\ groups \subseteq Group /\ left \subseteq Group
    /\ info = <<>> \/ info \in [Checker -> Info]
    /\ queue \in 0 .. MaxQueues
    /\ live \subseteq Instance
    /\ mustFinish \in [Instance -> BOOLEAN] /\ finished \in [Instance -> BOOLEAN]
    /\ tpc \in [Instance -> {"none", "loop", "function", "ended"}]
    /\ cpu \subseteq Actor \cup {Busy} /\ Cardinality(cpu) <= NumCPUs

Init ==
    /\ mpc = "off" /\ k = 1 /\ inits = 0
    /\ enabled = FALSE /\ ready = {} /\ assigned = {} /\ loaded = {} /\ called = {}
    /\ table = {} /\ groups = {} /\ left = {}
    /\ info = <<>> /\ queue = 0
    /\ live = {}
    /\ mustFinish = [i \in Instance |-> FALSE]
    /\ finished = [i \in Instance |-> FALSE]
    /\ tpc = [i \in Instance |-> "none"]
    /\ cpu \in {{Main}, {Main, Busy}} /\ Cardinality(cpu) <= NumCPUs

(***************************************************************************)
(* ALPI and the scheduling of its tasks.                                   *)
(***************************************************************************)
Call(symbols) == called' = called \cup symbols

\* What TaskingModel::initialize loads.
Loads == {"version_check", "version_get", "task_self", "task_spawn", "task_waitfor_ns",
          "events_increase", "events_decrease"}

\* Symbol::load finds each of them, or had found it before.
load == loaded' = loaded \cup Loads

Runnable(a) == IF a = Main THEN TRUE ELSE tpc[a] \in {"loop", "function"}

Resume(a) ==
    /\ mpc # "gone"
    /\ a \notin cpu
    /\ Runnable(a)
    /\ Cardinality(cpu) < NumCPUs
    /\ cpu' = cpu \cup {a}
    /\ UNCHANGED <<mpc, k, envVars, groupVars, called, flagVars, tpc>>

\* Mutant of Waitfor: the wait is a busy one.
WaitforBusy(a) == UNCHANGED cpu

\* alpi_task_waitfor_ns gives up the CPU.
Waitfor(a) == cpu' = cpu \ {a}

(***************************************************************************)
(* tagaspi_proc_init.                                                      *)
(***************************************************************************)

\* Environment::initialize.
InitOrder ==
    <<"hardware", "load", "version", "queues", "lists", "groups", "locks", "pool",
      "enable", "polling">>

\* gaspi_proc_init may fail: then nothing is initialized.
tagaspi_proc_init ==
    /\ mpc = "off" /\ Main \in cpu
    /\ inits < MaxInits
    /\ inits' = inits + 1
    /\ \/ mpc' = "init" /\ k' = 1
       \/ UNCHANGED <<mpc, k>>
    /\ UNCHANGED <<enabled, ready, assigned, loaded, groupVars, called, info, queue, flagVars,
                   tpc, cpu>>

\* ErrorHandler::fail: the process exits.
Fail(symbols) ==
    /\ mpc' = "gone"
    /\ Call(symbols)
    /\ UNCHANGED <<k, envVars, groupVars, flagVars, tpc, cpu>>

\* Symbol::load finds no symbol, or the versions do not match; and if asserts are
\* compiled in, a second initialization finds the vectors of HardwareInfo not
\* empty (HardwareInfo.hpp:29-30), or Allocator::initialized true
\* (Allocator.hpp:32): nothing resets them.
InitFails ==
    /\ mpc = "init" /\ Main \in cpu
    /\ \/ InitOrder[k] = "load" /\ Fail({})
       \/ InitOrder[k] = "version" /\ Fail({"version_get", "version_check"})
       \/ InitOrder[k] \in {"hardware", "pool"} \cap assigned /\ Fail({})

\* The pointers are set, whatever they held, and the new table is empty.
InitStep ==
    LET what == InitOrder[k]
    IN  /\ mpc = "init" /\ Main \in cpu
        /\ ready' = ready \cup ({what} \cap Parts)
        /\ assigned' = assigned \cup ({what} \cap Parts)
        /\ table' = IF what = "groups" THEN {} ELSE table
        /\ IF what = "load" THEN load ELSE UNCHANGED loaded
        /\ enabled' = (what = "enable" \/ enabled)
        /\ Call(IF what = "version" THEN {"version_get", "version_check"} ELSE {})
        /\ info' = IF what = "polling" THEN [c \in Checker |-> [num |-> 0, first |-> 0]]
                   ELSE info
        /\ mpc' = IF what = "polling" THEN "register" ELSE mpc
        /\ k' = IF what = "polling" THEN 0 ELSE k + 1
        /\ queue' = 0
        /\ UNCHANGED <<inits, groups, left, flagVars, tpc, cpu>>

\* TaskingModel::registerPolling: a new object, and a task that may run at once.
registerPolling(i) ==
    /\ live' = live \cup {i}
    /\ mustFinish' = [mustFinish EXCEPT ![i] = FALSE]
    /\ finished' = [finished EXCEPT ![i] = FALSE]
    /\ Call({"task_spawn"})
    /\ tpc' = [tpc EXCEPT ![i] = "loop"]

\* Mutant of NextFirst: the queues of the remainder are not counted.
NextFirstEven(num) == queue + qppi

NextFirst(num) == queue + num

\* One iteration of the loop of Polling::initialize; an instance without queues
\* is not registered.
RegisterChecker ==
    LET num == NumQueuesOf(k)
    IN  /\ mpc = "register" /\ Main \in cpu
        /\ k \in Checker
        /\ \/ /\ num > 0
              /\ info' = [info EXCEPT ![k] = [num |-> num, first |-> queue]]
              /\ registerPolling(k)
              /\ queue' = NextFirst(num)
           \/ /\ num = 0
              /\ info' = [info EXCEPT ![k].num = 0]
              /\ UNCHANGED <<flagVars, called, tpc, queue>>
        /\ k' = k + 1
        /\ UNCHANGED <<mpc, inits, enabled, ready, assigned, loaded, groupVars, cpu>>

RegisterNotifications ==
    /\ mpc = "register" /\ Main \in cpu
    /\ k = NotificationsInstance
    /\ registerPolling(k)
    /\ mpc' = "app" /\ k' = 1
    /\ UNCHANGED <<envVars, groupVars, cpu>>

\* The application's main task waits for its tasks.
Taskwait ==
    /\ mpc = "app" /\ Main \in cpu
    /\ cpu' = cpu \ {Main}
    /\ UNCHANGED <<mpc, k, envVars, groupVars, called, flagVars, tpc>>

\* The application creates a group, or deletes one.
tagaspi_queue_group_create ==
    /\ mpc = "app" /\ Main \in cpu
    /\ \E g \in Group \ groups : groups' = groups \cup {g} /\ table' = table \cup {g}
    /\ UNCHANGED <<mpc, k, envVars, left, called, flagVars, tpc, cpu>>

tagaspi_queue_group_delete ==
    /\ mpc = "app" /\ Main \in cpu
    /\ \E g \in table : groups' = groups \ {g} /\ table' = table \ {g}
    /\ UNCHANGED <<mpc, k, envVars, left, called, flagVars, tpc, cpu>>

(***************************************************************************)
(* tagaspi_proc_term.                                                      *)
(***************************************************************************)

\* Mutant of FinalizeOrder: the pool is freed while the polling goes on.
FinalizeOrderPoolFirst ==
    <<"pool", "polling", "locks", "queues", "lists", "groups", "disable">>

\* Environment::finalize.  HardwareInfo::finalize does nothing.
FinalizeOrder == <<"polling", "pool", "locks", "queues", "lists", "groups", "disable">>

\* If the library is not initialized only gaspi_proc_term is called.
tagaspi_proc_term ==
    /\ mpc = "app" /\ Main \in cpu
    /\ enabled
    /\ mpc' = "term" /\ k' = 1
    /\ left' = left \cup table
    /\ UNCHANGED <<envVars, table, groups, called, flagVars, tpc, cpu>>

\* Only the table of the groups is freed, not the groups in it
\* (Environment.cpp:88), and no pointer is reset.
FinalizeStep ==
    LET what == FinalizeOrder[k]
    IN  /\ mpc = "term" /\ Main \in cpu
        /\ ready' = ready \ {what}
        /\ table' = IF what = "groups" THEN {} ELSE table
        /\ enabled' = (what # "disable" /\ enabled)
        /\ mpc' = IF what = "polling" THEN "stop"
                  ELSE IF what = "disable" THEN "off" ELSE mpc
        /\ k' = IF what = "polling" THEN 0 ELSE IF what = "disable" THEN 1 ELSE k + 1
        /\ UNCHANGED <<inits, assigned, loaded, groups, left, called, info, queue, flagVars,
                       tpc, cpu>>

\* The step of FinalizeOrder after Polling::finalize.
AfterPolling == 1 + CHOOSE n \in DOMAIN FinalizeOrder : FinalizeOrder[n] = "polling"

\* Mutant of IsLast: the instance of the notifications is not unregistered.
IsLastChecker(i) == i + 1 = Cardinality(Registered)

IsLast(i) == i = NotificationsInstance

\* After the last instance the infos are cleared and the finalization goes on.
NextInstance ==
    IF IsLast(k)
    THEN mpc' = "term" /\ k' = AfterPolling /\ info' = <<>>
    ELSE mpc' = "stop" /\ k' = k + 1 /\ UNCHANGED info

HasQueues(i) == IF i \in Checker THEN info[i].num > 0 ELSE TRUE

\* TaskingModel::unregisterPolling tells the task to finish ...
unregisterPolling ==
    /\ mpc = "stop" /\ Main \in cpu
    /\ \/ /\ ~HasQueues(k)
          /\ k' = k + 1
          /\ UNCHANGED <<mpc, info, mustFinish>>
       \/ /\ HasQueues(k)
          /\ mustFinish' = [mustFinish EXCEPT ![k] = TRUE]
          /\ mpc' = "wait"
          /\ UNCHANGED <<k, info>>
    /\ UNCHANGED <<inits, enabled, ready, assigned, loaded, groupVars, called, queue, live,
                   finished, tpc, cpu>>

\* Mutant of HasFinished: the object is deleted once its task was told.
HasFinishedTold(i) == mustFinish[i]

HasFinished(i) == finished[i]

\* ... and waits, without a CPU, until it has; then the object is deleted.
WaitFinished ==
    /\ mpc = "wait" /\ Main \in cpu
    /\ \/ /\ ~HasFinished(k)
          /\ Call({"task_waitfor_ns"}) /\ Waitfor(Main)
          /\ UNCHANGED <<mpc, k, info, live>>
       \/ /\ HasFinished(k)
          /\ live' = live \ {k}
          /\ NextInstance
          /\ UNCHANGED <<called, cpu>>
    /\ UNCHANGED <<inits, enabled, ready, assigned, loaded, groupVars, queue, mustFinish,
                   finished, tpc>>

(***************************************************************************)
(* The task of a polling instance.                                         *)
(***************************************************************************)

\* genericPolling tests the flag: it calls the polling function, or returns and
\* the runtime calls genericCompleted.
genericPolling(i) ==
    /\ mpc # "gone"
    /\ i \in cpu /\ tpc[i] = "loop"
    /\ tpc' = [tpc EXCEPT ![i] = IF mustFinish[i] THEN "ended" ELSE "function"]
    /\ UNCHANGED <<mpc, k, envVars, groupVars, called, flagVars, cpu>>

\* The polling function returns and the task waits.
PollingPause(i) ==
    /\ mpc # "gone"
    /\ i \in cpu /\ tpc[i] = "function"
    /\ tpc' = [tpc EXCEPT ![i] = "loop"]
    /\ Call({"events_decrease", "task_waitfor_ns"}) /\ Waitfor(i)
    /\ UNCHANGED <<mpc, k, envVars, groupVars, flagVars>>

genericCompleted(i) ==
    /\ mpc # "gone"
    /\ i \in cpu /\ tpc[i] = "ended"
    /\ finished' = [finished EXCEPT ![i] = TRUE]
    /\ tpc' = [tpc EXCEPT ![i] = "none"]
    /\ cpu' = cpu \ {i}
    /\ UNCHANGED <<mpc, k, envVars, groupVars, called, live, mustFinish>>

\* An ALPI function returns an error: its text is asked for, and the process
\* exits.
getError ==
    /\ AlpiErrors
    /\ \/ Main \in cpu /\ mpc \in {"register", "wait"}
       \/ Main \in cpu /\ mpc = "init" /\ InitOrder[k] = "version"
       \/ mpc # "gone" /\ \E i \in Instance \cap cpu : tpc[i] = "function"
    /\ Fail({"error_string"})

(***************************************************************************)
(* The specification.                                                      *)
(***************************************************************************)
MainStep ==
    \/ InitStep
    \/ RegisterChecker
    \/ RegisterNotifications
    \/ FinalizeStep
    \/ unregisterPolling
    \/ WaitFinished

PollingStep(i) == genericPolling(i) \/ PollingPause(i) \/ genericCompleted(i)

Ended == (mpc = "gone" \/ (mpc = "off" /\ inits = MaxInits)) /\ UNCHANGED vars

Next ==
    \/ tagaspi_proc_init \/ InitFails \/ MainStep \/ Taskwait \/ tagaspi_proc_term
    \/ tagaspi_queue_group_create \/ tagaspi_queue_group_delete
    \/ \E i \in Instance : PollingStep(i)
    \/ \E a \in Actor : Resume(a)
    \/ getError
    \/ Ended

Spec == Init /\ [][Next]_vars

\* A task with a CPU runs on, the application's main task waits for its tasks or
\* terminates the library, and the runtime gives a CPU to every task that can
\* run, again and again.
Fairness ==
    /\ WF_vars(MainStep)
    /\ WF_vars(Taskwait \/ tagaspi_proc_term)
    /\ \A i \in Instance : WF_vars(PollingStep(i))
    /\ \A a \in Actor : SF_vars(Resume(a))

FairSpec == Spec /\ Fairness

(***************************************************************************)
(* Properties.                                                             *)
(***************************************************************************)

\* The task of an instance touches the object only while it is allocated: "The
\* polling function is guaranteed to not be called after returing from this
\* function" (TaskingModel.hpp:103-104), nor is a flag read or written then.
InstanceAlive == \A i \in Instance : tpc[i] # "none" => i \in live

\* While a polling function runs, what it uses is there: the range of a checker
\* with queues, and for the notifications the queues, the lists and the pool.
PollingSafe ==
    \A i \in Instance : tpc[i] = "function" =>
        /\ enabled
        /\ info # <<>> /\ HasQueues(i)
        /\ i = NotificationsInstance => {"queues", "lists", "pool"} \subseteq ready

\* Every ALPI function that was called had been loaded, as Symbol asserts
\* (Symbol.hpp:69).
SymbolsLoaded == called \subseteq loaded

\* Once initialized, the instances with queues divide the queues among them:
\* every queue is checked, by one instance, and as QueueCheckers computes it.
QueuesDivided ==
    mpc = "app" =>
        /\ \A q \in Queue : Cardinality({c \in live \ {NotificationsInstance} :
                info[c].first <= q /\ q < info[c].first + info[c].num}) = 1
        /\ \A c \in Registered : info[c] = [num |-> NumQueuesOf(c), first |-> FirstQueue(c)]

\* After a termination no task runs, the polling instances and every part are
\* freed but the vectors of HardwareInfo, and of the groups of the application
\* exactly those stay allocated that it had not deleted when it called
\* tagaspi_proc_term: nothing points to them any more, so they leak
\* (Environment.cpp:88).
TerminatedClean ==
    mpc = "off" =>
        /\ \A i \in Instance : tpc[i] = "none"
        /\ live = {} /\ info = <<>> /\ ~enabled
        /\ ready \subseteq {"hardware"}
        /\ table = {} /\ groups = left

\* A termination ends, also if a single CPU is left for the library: "Task yield
\* to avoid consuming a CPU for waiting. Otherwise, in the case of a single CPU,
\* the execution could hang" (TaskingModel.hpp:117-118).
TerminationEnds == mpc \in {"term", "stop", "wait"} ~> mpc \in {"off", "gone"}
=============================================================================
