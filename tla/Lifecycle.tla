------------------------------ MODULE Lifecycle ------------------------------
(****************************************************************************)
(* The device from load to unload: _manager_Open, _manager_Close and        *)
(* _manager_Expunge called by several clients and by the system, and the    *)
(* unit task that the first open starts and the last close ends             *)
(* (UnitTask_Start, UnitTaskBody, UnitTask_Shutdown), over the resources of *)
(* HwInit.                                                                  *)
(*                                                                          *)
(* Exec lets one Open, Close or Expunge run at a time, but for where it     *)
(* waits: in UnitTask_Start for the new task, in UnitTask_Shutdown for the  *)
(* old one; a step lies between two such points.  Memory allocations may    *)
(* call Expunge, so Open has one more point at the allocation of its        *)
(* opener.  A client closes what it has opened, once.                       *)
(****************************************************************************)
EXTENDS HwInit, FiniteSets

CONSTANTS
  Clients,   \* programs, each with one open at a time
  NTasks     \* bound: unit tasks alive at once

ASSUME LifeAssumption == IsFiniteSet(Clients) /\ NTasks \in Nat

VARIABLES
  lib_OpenCnt, delexp,     \* of the library: open count, LIBF_DELEXP
  open_count, opener_list, \* of the unit
  task_shutdown, online,   \* of the unit
  unit_task, io_port,      \* unit->task; the task that allocated unit->io_port
  irq_wait_task,           \* the task that the interrupt handler signals
  client,                  \* where each client is
  ready,                   \* clients whose ready signal is set
  tasks,                   \* where each unit task is
  startMsg,                \* new tasks, each with its parent_task
  ctrl,                    \* unit tasks with CTRL_C pending
  accident                 \* a first open began during another or with a unit task
                           \* alive, be it one shutting down; or a shutdown gave up

counts == <<lib_OpenCnt, delexp, open_count, opener_list>>
unit == <<task_shutdown, online, unit_task, io_port, irq_wait_task>>
threads == <<tasks, startMsg, ctrl>>
lifeVars == <<counts, unit, client, ready, threads, accident>>
vars == <<hwVars, lifeVars>>

TaskIds == 1 .. NTasks
NoTask == 0
ClientStates == {"out", "opening", "starting", "in", "closing"}
Looping == {"top", "wait", "awake"}
TaskStates == {"none", "new", "leaving", "freeing"} \cup Looping
Alive == {t \in TaskIds : tasks[t] # "none"}

Init ==
  /\ HwInit
  /\ lib_OpenCnt = 0 /\ delexp = FALSE /\ open_count = 0 /\ opener_list = {}
  /\ task_shutdown = FALSE /\ online = FALSE
  /\ unit_task = NoTask /\ io_port = NoTask /\ irq_wait_task = NoTask
  /\ client = [c \in Clients |-> "out"]
  /\ ready = {}
  /\ tasks = [t \in TaskIds |-> "none"]
  /\ startMsg = {} /\ ctrl = {}
  /\ accident = FALSE

Move(c, from, to) == client[c] = from /\ client' = [client EXCEPT ![c] = to]

-----------------------------------------------------------------------------
(* _manager_Open and UnitTask_Start.                                        *)

OpenEnter(c) ==
  /\ stage = "ready"
  /\ Move(c, "out", "opening")
  /\ lib_OpenCnt' = lib_OpenCnt + 1
  /\ UNCHANGED <<hwVars, delexp, open_count, opener_list, unit, ready, threads,
                 accident>>

\* Mutant: the count is taken back where the failure is found, and at the end.
FailOpenTwice(c, from) == Move(c, from, "out") /\ lib_OpenCnt' = lib_OpenCnt - 2

FailOpen(c, from) == Move(c, from, "out") /\ lib_OpenCnt' = lib_OpenCnt - 1

\* Not unit 0, no memory for the opener, or, on the first open, no signal bit.
OpenFails(c) ==
  /\ FailOpen(c, "opening")
  /\ UNCHANGED <<hwVars, delexp, open_count, opener_list, unit, ready, threads,
                 accident>>

\* Mutant: the unit counts its first opener only.
CountFirst == IF open_count = 0 THEN 1 ELSE open_count

CountOne == open_count + 1

Registered(c, from) ==
  /\ Move(c, from, "in")
  /\ opener_list' = opener_list \cup {c}
  /\ open_count' = CountOne
  /\ delexp' = FALSE
  /\ UNCHANGED lib_OpenCnt

OpenJoins(c) ==
  /\ open_count # 0
  /\ Registered(c, "opening")
  /\ UNCHANGED <<hwVars, unit, ready, threads, accident>>

\* UnitTask_Start is entered while a unit task lives or another call is in it.
Collides == Alive # {} \/ \E d \in Clients : client[d] = "starting"

\* CreateTaskTags fails; task_shutdown has been cleared by then.
CreateFails(c) ==
  /\ open_count = 0
  /\ FailOpen(c, "opening")
  /\ task_shutdown' = FALSE
  /\ accident' = (accident \/ Collides)
  /\ UNCHANGED <<hwVars, delexp, open_count, opener_list, online, unit_task, io_port,
                 irq_wait_task, ready, threads>>

\* Mutant: task_shutdown is not cleared.
ShutdownKept == task_shutdown

ShutdownAtStart == FALSE

OpenStarts(c) ==
  /\ open_count = 0
  /\ Move(c, "opening", "starting")
  /\ task_shutdown' = ShutdownAtStart
  /\ \E t \in TaskIds :
       /\ tasks[t] = "none" /\ \A u \in 1 .. t - 1 : tasks[u] # "none"
       /\ tasks' = [tasks EXCEPT ![t] = "new"]
       /\ startMsg' = startMsg \cup {<<t, c>>}
  /\ accident' = (accident \/ Collides)
  /\ UNCHANGED <<hwVars, counts, online, unit_task, io_port, irq_wait_task, ready, ctrl>>

\* Mutant: the new task is not waited for.
NoNeedToWait(c) == TRUE

TaskAnswered(c) == c \in ready

\* The new task's port is there, or it failed.
OpenFinishes(c) ==
  /\ TaskAnswered(c)
  /\ ready' = ready \ {c}
  /\ \/ io_port # NoTask /\ Registered(c, "starting")
     \/ io_port = NoTask /\ FailOpen(c, "starting")
        /\ UNCHANGED <<delexp, open_count, opener_list>>
  /\ UNCHANGED <<hwVars, unit, threads, accident>>

-----------------------------------------------------------------------------
(* UnitTaskBody.                                                            *)

TaskMove(t, from, to) == tasks[t] = from /\ tasks' = [tasks EXCEPT ![t] = to]

\* The last use of startMsg.
Parents(t) == {c \in Clients : <<t, c>> \in startMsg}
SignalParent(t) == ready' = ready \cup Parents(t)
Forget(t) == startMsg' = startMsg \ ({t} \X Clients)

TaskUp(t) ==
  /\ TaskMove(t, "new", "top")
  /\ io_port' = t /\ unit_task' = t /\ irq_wait_task' = t
  /\ SignalParent(t) /\ Forget(t)
  /\ UNCHANGED <<hwVars, counts, task_shutdown, online, client, ctrl, accident>>

\* Mutant: the parent is not told that there is no port.
SilentFailure(t) == UNCHANGED ready

AnswerFailure(t) == SignalParent(t)

\* No memory for the port, or no signal bit after it: the port is freed again.
TaskFails(t) ==
  /\ TaskMove(t, "new", "none")
  /\ io_port' = NoTask
  /\ unit_task' \in {unit_task, NoTask}
  /\ AnswerFailure(t) /\ Forget(t)
  /\ UNCHANGED <<hwVars, counts, task_shutdown, online, irq_wait_task, client, ctrl,
                 accident>>

TaskTop(t) ==
  /\ TaskMove(t, "top", IF task_shutdown THEN "leaving" ELSE "wait")
  /\ UNCHANGED <<hwVars, counts, unit, client, ready, startMsg, ctrl, accident>>

\* Wait returns for CTRL_C, an interrupt, a packet sent or a command, and clears
\* whatever it returns, CTRL_C included.
TaskWakes(t) ==
  /\ TaskMove(t, "wait", "awake")
  /\ t \in ctrl \cup {io_port, irq_wait_task}
  /\ ctrl' = ctrl \ {t}
  /\ UNCHANGED <<hwVars, counts, unit, client, ready, startMsg, accident>>

\* A CTRL_C that came since ends the loop at once.
TaskStop(t) ==
  /\ t \in ctrl
  /\ TaskMove(t, "awake", "leaving")
  /\ ctrl' = ctrl \ {t}
  /\ UNCHANGED <<hwVars, counts, unit, client, ready, startMsg, accident>>

\* No command that changes anything here: on to the next turn.
TaskTurn(t) ==
  /\ t \notin ctrl
  /\ TaskMove(t, "awake", "top")
  /\ UNCHANGED <<hwVars, counts, unit, client, ready, startMsg, ctrl, accident>>

\* S2_ONLINE or S2_CONFIGINTERFACE: PostRxBuffers starts the receive engine,
\* unless it has no buffers at all; those it once got it keeps.
TaskOnline(t) ==
  /\ stage = "ready" /\ t = io_port /\ t \notin ctrl /\ ~online
  /\ TaskMove(t, "awake", "top")
  /\ online' = TRUE
  /\ \/ held' = held \cup {"rx_bufs"} /\ dma' = dma \cup {"rx"}
     \/ "rx_bufs" \notin held /\ UNCHANGED <<held, dma>>
  /\ UNCHANGED <<stage, leaving, channel_num, foreign, stopped, halted, late, counts,
                 task_shutdown, unit_task, io_port, irq_wait_task, client, ready, startMsg,
                 ctrl, accident>>

\* S2_OFFLINE leaves the engine as it is.
TaskOffline(t) ==
  /\ t = io_port /\ t \notin ctrl /\ online
  /\ TaskMove(t, "awake", "top")
  /\ online' = FALSE
  /\ UNCHANGED <<hwVars, counts, task_shutdown, unit_task, io_port, irq_wait_task,
                 client, ready, startMsg, ctrl, accident>>

\* Mutant: the interrupt handler still finds the task that is gone.
WaiterKept == irq_wait_task

WaiterCleared == NoTask

\* Requests are answered (module Requests); the handler loses its task first.
TaskLeaves(t) ==
  /\ TaskMove(t, "leaving", "freeing")
  /\ irq_wait_task' = WaiterCleared
  /\ UNCHANGED <<hwVars, counts, task_shutdown, online, unit_task, io_port, client, ready,
                 startMsg, ctrl, accident>>

\* unit->task is the last field to be cleared; the task returns.
TaskGone(t) ==
  /\ TaskMove(t, "freeing", "none")
  /\ io_port' = NoTask /\ unit_task' = NoTask
  /\ ctrl' = ctrl \ {t}
  /\ UNCHANGED <<hwVars, counts, task_shutdown, online, irq_wait_task, client, ready,
                 startMsg, accident>>

-----------------------------------------------------------------------------
(* A client at work, and _manager_Close with UnitTask_Shutdown.             *)

\* A packet sent: its buffer stays until the next one.
Transmit(c) ==
  /\ client[c] = "in" /\ online /\ "tx_ring" \in held
  /\ held' = held \cup {"tx_buf_pending"}
  /\ dma' = dma \cup {"tx"}
  /\ UNCHANGED <<stage, leaving, channel_num, foreign, stopped, halted, late, lifeVars>>

\* Mutant: the open count falls before the shutdown has ended.
LastToGoEarly == Cardinality({c \in Clients : client[c] \in {"in", "closing"}}) = 1

\* Mutant: the count is looked at as if it had been taken back already.
LastToGoNever == lib_OpenCnt = 0

LastToGo == lib_OpenCnt = 1

\* What every close ends with, the deferred expunge included.
CloseTail(c, from) ==
  /\ Move(c, from, "out")
  /\ lib_OpenCnt' = lib_OpenCnt - 1
  /\ \/ LastToGo /\ delexp /\ stage' = "remove_irq" /\ leaving' = "expunge"
     \/ ~(LastToGo /\ delexp) /\ UNCHANGED <<stage, leaving>>
  /\ UNCHANGED <<held, channel_num, foreign, stopped, halted, dma, late, delexp, online,
                 unit_task, io_port, irq_wait_task, ready, threads>>

\* The opener goes; others stay, or there is no task to end.
Close(c) ==
  /\ open_count # 1 \/ unit_task = NoTask
  /\ CloseTail(c, "in")
  /\ opener_list' = opener_list \ {c}
  /\ open_count' = open_count - 1
  /\ UNCHANGED <<task_shutdown, accident>>

\* Mutant: CTRL_C is not sent.
NoSignal == {}

Interrupted == {unit_task}

CloseLast(c) ==
  /\ open_count = 1 /\ unit_task # NoTask
  /\ Move(c, "in", "closing")
  /\ opener_list' = opener_list \ {c}
  /\ open_count' = 0
  /\ task_shutdown' = TRUE
  /\ ctrl' = ctrl \cup Interrupted
  /\ UNCHANGED <<hwVars, lib_OpenCnt, delexp, online, unit_task, io_port, irq_wait_task,
                 ready, tasks, startMsg, accident>>

TaskCleared == unit_task = NoTask

CloseReturns(c) ==
  /\ TaskCleared
  /\ CloseTail(c, "closing")
  /\ UNCHANGED <<open_count, opener_list, task_shutdown, accident>>

\* 100000 turns without the task ending.
CloseGivesUp(c) ==
  /\ unit_task # NoTask
  /\ CloseTail(c, "closing")
  /\ accident' = TRUE
  /\ UNCHANGED <<open_count, opener_list, task_shutdown>>

-----------------------------------------------------------------------------
(* _manager_Expunge, called by the system at any time.                      *)

Defer ==
  /\ stage = "ready" /\ lib_OpenCnt # 0
  /\ delexp' = TRUE
  /\ UNCHANGED <<hwVars, lib_OpenCnt, open_count, opener_list, unit, client, ready,
                 threads, accident>>

Expunge ==
  /\ stage = "ready" /\ lib_OpenCnt = 0
  /\ stage' = "remove_irq" /\ leaving' = "expunge"
  /\ UNCHANGED <<held, channel_num, foreign, stopped, halted, dma, late, lifeVars>>

RemoveIRQ ==
  /\ stage = "remove_irq"
  /\ held' = held \ {"irq"}
  /\ stage' = "stop"
  /\ UNCHANGED <<leaving, channel_num, foreign, stopped, halted, dma, late, lifeVars>>

OpenStep(c) ==
  \/ OpenFails(c) \/ OpenJoins(c) \/ CreateFails(c) \/ OpenStarts(c) \/ OpenFinishes(c)

StartStep(t) == TaskUp(t) \/ TaskFails(t)

TaskStep(t) ==
  \/ TaskTop(t) \/ TaskStop(t) \/ TaskTurn(t) \/ TaskLeaves(t) \/ TaskGone(t)

Next ==
  \/ HwNext /\ UNCHANGED lifeVars
  \/ \E c \in Clients :
       \/ OpenEnter(c) \/ OpenStep(c)
       \/ Transmit(c)
       \/ Close(c) \/ CloseLast(c) \/ CloseReturns(c) \/ CloseGivesUp(c)
  \/ \E t \in TaskIds :
       \/ StartStep(t) \/ TaskStep(t)
       \/ TaskWakes(t) \/ TaskOnline(t) \/ TaskOffline(t)
  \/ Defer \/ Expunge \/ RemoveIRQ

Spec == Init /\ [][Next]_vars

\* A call that has been made goes on when it can, and so does a unit task; a
\* shutdown need not lose its patience, and no client need close.
FairSpec ==
  /\ Spec
  /\ \A c \in Clients : WF_vars(OpenStep(c)) /\ WF_vars(CloseReturns(c))
  /\ \A t \in TaskIds :
       /\ WF_vars(StartStep(t)) /\ WF_vars(TaskStep(t))
       /\ WF_vars(t \in ctrl /\ TaskWakes(t))

-----------------------------------------------------------------------------
(* Properties.                                                              *)

TypeOK ==
  /\ HwTypeOK
  /\ lib_OpenCnt \in Nat /\ open_count \in Nat
  /\ delexp \in BOOLEAN /\ opener_list \subseteq Clients
  /\ task_shutdown \in BOOLEAN /\ online \in BOOLEAN
  /\ {unit_task, io_port, irq_wait_task} \subseteq TaskIds \cup {NoTask}
  /\ client \in [Clients -> ClientStates] /\ ready \subseteq Clients
  /\ tasks \in [TaskIds -> TaskStates] /\ startMsg \subseteq TaskIds \X Clients
  /\ ctrl \subseteq TaskIds
  /\ accident \in BOOLEAN

ClientsIn(S) == {c \in Clients : client[c] \in S}

\* lib_OpenCnt counts the clients that have the device open or are in a call,
\* open_count those on the opener list, whatever fails or overlaps.
CountsAgree ==
  /\ lib_OpenCnt = Cardinality(ClientsIn(ClientStates \ {"out"}))
  /\ opener_list = ClientsIn({"in"})
  /\ open_count = Cardinality(opener_list)

\* The new task uses startMsg, on its parent's stack, only while the parent is
\* still in UnitTask_Start.
StartMsgAlive ==
  \A t \in TaskIds : tasks[t] = "new" =>
    \E c \in Clients : <<t, c>> \in startMsg /\ client[c] = "starting" /\ c \notin ready

\* Unless a first open overlapped another or a shutdown that was still running,
\* or a shutdown gave up: as long as anybody has the device open there is one
\* unit task, it owns the port and the interrupt's signal, and nobody has told it
\* to end; when nobody is in or in a call, there is none.
OneTaskPerOpenUnit ==
  ~accident =>
    /\ Cardinality(Alive) <= 1
    /\ ClientsIn({"in"}) # {} =>
         \E t \in Alive : /\ tasks[t] \in Looping
                          /\ unit_task = t /\ io_port = t /\ irq_wait_task = t
                          /\ ~task_shutdown
    /\ ClientsIn({"out"}) = Clients => Alive = {} /\ unit_task = NoTask

\* Whatever overlaps, the interrupt handler signals nobody but a live task.
HandlerSignalsLiveTask == irq_wait_task # NoTask => irq_wait_task \in Alive

\* The unit and the PCI handles are there for all who use them: clients, the
\* interrupt handler, the engine and, but for a shutdown that gave up or a unit
\* task left over by an overlap, unit tasks.
UnitOutlivesUsers ==
  \/ Handles \cup {"unit"} \subseteq held
  \/ /\ "irq" \notin held /\ dma \subseteq late
     /\ ClientsIn({"out"}) = Clients
     /\ accident \/ Alive = {}

\* The device as its clients and the system see it.
Mode ==
  CASE stage = "ready" -> "loaded"
    [] stage = "failed" -> "failed"
    [] stage = "expunged" -> "gone"
    [] stage = "remove_irq" -> "unloading"
    [] stage \in {"stop", "free", "release"} /\ leaving = "expunge" -> "unloading"
    [] OTHER -> "loading"

Seen(where) == IF where = "starting" THEN "opening" ELSE where
User == [c \in Clients |-> Seen(client[c])]

\* The device keeps the promise of DeviceLife, whatever opens, closes, failures
\* and expunges overlap: the counts and flags of Open, Close and Expunge amount
\* to "unload when unused, and when asked to".
Device == INSTANCE DeviceLife WITH state <- Mode, user <- User, asked <- delexp

PromiseKept == Device!Spec

\* An open returns.
OpensReturn ==
  \A c \in Clients : client[c] \in {"opening", "starting"} ~> client[c] \in {"in", "out"}

\* The last close returns because the unit task has ended, but for an accident, or
\* a new open in between: then it goes on waiting for the wrong task.
ClosesReturn ==
  \A c \in Clients :
    client[c] = "closing" ~> client[c] = "out" \/ ClientsIn({"in"}) # {} \/ accident

=============================================================================
