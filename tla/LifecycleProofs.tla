---------------------------- MODULE LifecycleProofs ----------------------------
(****************************************************************************)
(* Proofs about Lifecycle, for any number of clients and unit tasks and any *)
(* channels in use by others: its invariants hold in every reachable state. *)
(****************************************************************************)
EXTENDS Lifecycle, FiniteSetTheorems, TLAPS

\* The types of HwInit's and Lifecycle's own variables, counters apart.
LifeTypes ==
  /\ delexp \in BOOLEAN /\ task_shutdown \in BOOLEAN /\ online \in BOOLEAN
  /\ accident \in BOOLEAN
  /\ unit_task \in TaskIds \cup {NoTask} /\ io_port \in TaskIds \cup {NoTask}
  /\ irq_wait_task \in TaskIds \cup {NoTask}
  /\ ctrl \subseteq TaskIds

ThreadTypes ==
  /\ client \in [Clients -> ClientStates] /\ ready \subseteq Clients
  /\ tasks \in [TaskIds -> TaskStates] /\ startMsg \subseteq TaskIds \X Clients

\* Every client out, or the device loaded.
InCall == ClientsIn(ClientStates \ {"out"})
CountInv ==
  /\ lib_OpenCnt = Cardinality(InCall)
  /\ opener_list = ClientsIn({"in"})
  /\ open_count = Cardinality(opener_list)
LoadedInv == stage # "ready" => InCall = {}

\* A new task and the call that waits for it name each other.
MsgInv ==
  /\ \A t \in TaskIds : tasks[t] = "new" => \E c \in Clients : <<t, c>> \in startMsg
  /\ \A c \in Clients :
       client[c] = "starting" /\ c \notin ready => \E t \in TaskIds : <<t, c>> \in startMsg
  /\ \A t \in TaskIds, c \in Clients :
       <<t, c>> \in startMsg => tasks[t] = "new" /\ client[c] = "starting" /\ c \notin ready
  /\ \A t, u \in TaskIds, c \in Clients :
       <<t, c>> \in startMsg /\ <<u, c>> \in startMsg => t = u
  /\ \A c \in ready : client[c] = "starting"

\* The interrupt handler's task has its loop before it, or has just left it.
WaiterInv ==
  irq_wait_task # NoTask => tasks[irq_wait_task] \in Looping \cup {"leaving"}

\* Without an accident: the task and who uses it, from its creation to its end.
Wanted == \E c \in Clients : client[c] \in {"starting", "in"}
SingleInv ==
  /\ \A t, u \in Alive : t = u
  /\ \A c, d \in Clients : client[c] = "starting" /\ client[d] = "starting" => c = d
  /\ \A c, d \in Clients : ~(client[c] = "starting" /\ client[d] = "in")
PointerInv ==
  /\ \A t \in TaskIds : tasks[t] = "new" =>
       unit_task = NoTask /\ io_port = NoTask /\ irq_wait_task = NoTask
  /\ \A t \in TaskIds : tasks[t] \in Looping \cup {"leaving", "freeing"} =>
       unit_task = t /\ io_port = t /\ (tasks[t] # "freeing" => irq_wait_task = t)
  /\ Alive = {} => unit_task = NoTask /\ io_port = NoTask
  /\ ctrl \subseteq Alive
UseInv ==
  /\ Wanted => /\ ~task_shutdown /\ ctrl = {}
               /\ \A t \in Alive : tasks[t] \in Looping \cup {"new"}
  /\ \A c \in Clients : client[c] = "in" => Alive # {}
  /\ Alive # {} => \E c \in Clients : client[c] \in {"starting", "in", "closing"}

\* What is held at each stage of loading, and while the device can be used.
Loading ==
  /\ stage = "ExpansionBase" => held = {}
  /\ stage = "IPCI" => held = {"ExpansionBase"}
  /\ stage = "mac_dev" => held = {"ExpansionBase", "IPCI"}
  /\ stage = "dma_dev" => held = {"ExpansionBase", "IPCI", "mac_dev"}
  /\ stage = "iob_dev" => held = {"ExpansionBase", "IPCI", "mac_dev", "dma_dev"}
  /\ stage = "UtilityBase" => held = {"ExpansionBase", "IPCI"} \cup Handles
  /\ stage = "IUtility" => held = {"ExpansionBase", "IPCI", "UtilityBase"} \cup Handles
  /\ stage = "unit" => held = BaseResources \ {"unit"}
  /\ stage \in {"dma_if", "channels", "tx_ring"} => held = BaseResources
  /\ stage = "tx_ring_map" => held = BaseResources \cup {"tx_ring"}
  /\ stage = "rx_ring" => held = BaseResources \cup TxMemory
  /\ stage = "rx_ring_map" => held = BaseResources \cup TxMemory \cup {"rx_ring"}
  /\ stage = "rx_buf_ring" => held = BaseResources \cup TxMemory \cup {"rx_ring", "rx_ring_map"}
  /\ stage = "rx_buf_ring_map" =>
       held = (BaseResources \cup RingMemory) \ {"rx_buf_ring_map"}
  /\ stage \in {"tx_channel", "rx_channel", "irq"} => held = BaseResources \cup RingMemory

Stopping == {"stop", "free", "release"}
HeldInv ==
  /\ Loading
  /\ stage \in {"ready", "remove_irq"} => BaseResources \cup RingMemory \subseteq held
  /\ stage \in Stopping /\ leaving = "expunge" =>
       /\ held \subseteq Resources \ {"irq"}
       /\ BaseResources \subseteq held
       /\ stage = "stop" => RingMemory \subseteq held
       /\ stage = "release" => held \subseteq BaseResources \cup {"tx_buf_pending"}
  /\ stage \in {"stop", "free"} /\ leaving = "init" =>
       BaseResources \subseteq held /\ held \subseteq BaseResources \cup RingMemory
  /\ stage = "release" /\ leaving = "init" =>
       held \subseteq BaseResources \/ held = BaseResources \cup RingMemory
  /\ stage \in Stopping => leaving \in {"init", "expunge"}
  /\ stage = "remove_irq" => leaving = "expunge"
  /\ stage = "failed" => held \in {{}, RingMemory}
  /\ stage = "expunged" => held \subseteq {"tx_buf_pending"}
  /\ "irq" \in held => stage \in {"ready", "remove_irq"}

\* The engine is idle before the device is loaded; then it may use what it has
\* been given, until it is stopped or its stop times out.
EngineInv ==
  /\ stage \notin {"ready", "remove_irq", "stop"} => dma \subseteq late
  /\ stage \in LoadStages \cup {"ready", "remove_irq", "stop"} => late = {}
  /\ stage \in LoadStages => dma = {}
  /\ leaving = "init" => dma = {} /\ stage \in Stopping \cup {"failed"}
  /\ "tx" \in dma /\ stage \in {"ready", "remove_irq", "stop"} => "tx_buf_pending" \in held
  /\ "rx" \in dma /\ stage \in {"ready", "remove_irq", "stop"} => "rx_bufs" \in held

\* The channels are ours from the check on.
ChannelInv ==
  stage \in RingMemory \cup {"tx_channel", "rx_channel", "irq", "ready", "remove_irq"} =>
    channel_num = 1 /\ ~Busy

IInv ==
  /\ HwTypeOK /\ LifeTypes /\ ThreadTypes
  /\ CountInv /\ LoadedInv /\ MsgInv /\ WaiterInv
  /\ ~accident => SingleInv /\ PointerInv /\ UseInv
  /\ HeldInv /\ EngineInv /\ ChannelInv


-----------------------------------------------------------------------------
(* The initial states, and the types.                                       *)

LEMMA InitInv == Init => IInv
  <1> SUFFICES ASSUME Init PROVE IInv
      OBVIOUS
  <1> USE HwAssumption, LifeAssumption DEF Init, HwInit
  <1>1. HwTypeOK /\ LifeTypes /\ ThreadTypes
    <2>1. HwTypeOK
        BY DEF HwTypeOK, Stages, LoadStages, Acquired, After
    <2>2. LifeTypes
        BY DEF LifeTypes
    <2>3. ThreadTypes
        BY DEF ThreadTypes, ClientStates, TaskStates
    <2> QED
        BY <2>1, <2>2, <2>3
  <1>2. CountInv /\ LoadedInv
    <2>1. InCall = {} /\ ClientsIn({"in"}) = {}
        BY DEF InCall, ClientsIn
    <2> QED
        BY <2>1, FS_EmptySet DEF CountInv, LoadedInv
  <1>3. MsgInv /\ WaiterInv
      BY DEF MsgInv, WaiterInv
  <1>4. Alive = {}
      BY DEF Alive
  <1>5. SingleInv /\ PointerInv /\ UseInv
      BY <1>4 DEF SingleInv, PointerInv, UseInv, Wanted, Looping, Alive
  <1>6. HeldInv /\ EngineInv /\ ChannelInv
      BY DEF HeldInv, EngineInv, ChannelInv, Loading, Stopping, RingMemory, TxMemory, RxMemory
  <1> QED
      BY <1>1, <1>2, <1>3, <1>5, <1>6 DEF IInv

LEMMA HwTypeStep == ASSUME IInv, [Next]_vars PROVE HwTypeOK'
  <1>0. HwTypeOK
      BY DEF IInv
  <1>1. ASSUME Obtain \/ Denied \/ FindInterface \/ ChooseChannels
               \/ DisableSection \/ EnableSection
        PROVE HwTypeOK'
    <2>1. ASSUME stage \in Acquired PROVE After[stage] \in Stages /\ stage \in Resources
        BY <2>1 DEF Acquired, After, BaseResources, RingMemory, TxMemory, RxMemory, Handles,
                    Stages, LoadStages, Resources
    <2>2. {"stop", "release", "channels", "tx_ring", "rx_channel", "irq"} \subseteq Stages
        BY DEF Stages, LoadStages, Acquired, After
    <2>3. CASE Obtain
        BY <1>0, <2>1, <2>3 DEF HwTypeOK, Obtain
    <2>4. CASE Denied
        BY <1>0, <2>2, <2>4 DEF HwTypeOK, Denied
    <2>5. CASE FindInterface
        BY <1>0, <2>2, <2>5 DEF HwTypeOK, FindInterface, FailHWInit
    <2>6. CASE ChooseChannels
        BY <1>0, <2>2, <2>6 DEF HwTypeOK, ChooseChannels, FailHWInit
    <2>7. CASE DisableSection \/ EnableSection
        BY <1>0, <2>2, <2>7 DEF HwTypeOK, DisableSection, EnableSection
    <2> QED
        BY <1>1, <2>3, <2>4, <2>5, <2>6, <2>7
  <1>2. ASSUME StopChannels \/ FreeRings \/ Release PROVE HwTypeOK'
    <2>1. StopChannels => late = {}
        BY DEF IInv, EngineInv, StopChannels
    <2> QED
        BY <1>0, <1>2, <2>1 DEF HwTypeOK, Stages, LoadStages, StopChannels, FreeRings, Release, Stops
  <1>3. ASSUME NEW c \in Clients, Transmit(c) PROVE HwTypeOK'
      BY <1>0, <1>3 DEF HwTypeOK, Stages, LoadStages, Resources, Transmit
  <1>4. ASSUME NEW t \in TaskIds, TaskOnline(t) PROVE HwTypeOK'
      BY <1>0, <1>4 DEF HwTypeOK, Stages, LoadStages, Resources, TaskOnline
  <1>5. ASSUME NEW c \in Clients, NEW from, CloseTail(c, from) PROVE HwTypeOK'
      BY <1>0, <1>5 DEF HwTypeOK, Stages, LoadStages, Resources, CloseTail
  <1>6. CASE UNCHANGED hwVars
      BY <1>0, <1>6 DEF HwTypeOK, Stages, LoadStages, Resources, hwVars
  <1>7. CASE Expunge \/ RemoveIRQ
      BY <1>0, <1>7 DEF HwTypeOK, Stages, LoadStages, Resources, Expunge, RemoveIRQ
  <1> QED
    <2>1. ASSUME NEW c \in Clients, OpenEnter(c) \/ OpenStep(c) \/ CloseLast(c) PROVE HwTypeOK'
        BY <1>6, <2>1 DEF OpenEnter, OpenStep, OpenFails, OpenJoins, CreateFails, OpenStarts,
                    OpenFinishes, CloseLast
    <2>2. ASSUME NEW c \in Clients, Close(c) \/ CloseReturns(c) \/ CloseGivesUp(c)
          PROVE HwTypeOK'
        BY <2>2, <1>5 DEF Close, CloseReturns, CloseGivesUp
    <2>3. ASSUME NEW t \in TaskIds, StartStep(t) \/ TaskStep(t) \/ TaskWakes(t) \/ TaskOffline(t)
          PROVE HwTypeOK'
        BY <1>6, <2>3 DEF StartStep, TaskUp, TaskFails, TaskStep, TaskTop, TaskStop, TaskTurn,
                    TaskLeaves, TaskGone, TaskWakes, TaskOffline
    <2>4. CASE Defer
        BY <2>4, <1>6 DEF Defer
    <2>5. CASE UNCHANGED vars
        BY <2>5, <1>6 DEF vars
    <2> QED
        BY <1>1, <1>2, <1>3, <1>4, <1>6, <1>7, <2>1, <2>2, <2>3, <2>4, <2>5 DEF Next, HwNext

LEMMA LifeTypeStep == ASSUME IInv, [Next]_vars PROVE LifeTypes'
  <1> USE DEF LifeTypes
  <1>0. LifeTypes
      BY DEF IInv
  <1>1. ASSUME UNCHANGED lifeVars PROVE LifeTypes'
      BY <1>0, <1>1 DEF lifeVars, counts, unit, threads
  <1>2. ASSUME NEW c \in Clients, OpenEnter(c) \/ OpenStep(c) PROVE LifeTypes'
    <2>1. CASE OpenEnter(c) \/ OpenFails(c) \/ OpenJoins(c)
        BY <1>0, <2>1 DEF OpenEnter, OpenFails, OpenJoins, Registered, unit, threads
    <2>2. CASE CreateFails(c)
        BY <1>0, <2>2 DEF CreateFails, Collides, threads
    <2>3. CASE OpenStarts(c)
        BY <1>0, <2>3 DEF OpenStarts, Collides, ShutdownAtStart, counts
    <2>4. CASE OpenFinishes(c)
        BY <1>0, <2>4 DEF OpenFinishes, Registered, unit, threads
    <2> QED
        BY <1>2, <2>1, <2>2, <2>3, <2>4 DEF OpenStep
  <1>3. ASSUME NEW t \in TaskIds, StartStep(t) PROVE LifeTypes'
      BY <1>0, <1>3 DEF StartStep, TaskUp, TaskFails, counts
  <1>4. ASSUME NEW t \in TaskIds,
               TaskStep(t) \/ TaskWakes(t) \/ TaskOnline(t) \/ TaskOffline(t)
        PROVE LifeTypes'
      BY <1>0, <1>4 DEF TaskStep, TaskTop, TaskStop, TaskTurn, TaskLeaves, WaiterCleared,
                  TaskGone, TaskWakes, TaskOnline, TaskOffline, counts, unit
  <1>5. ASSUME NEW c \in Clients,
               Close(c) \/ CloseLast(c) \/ CloseReturns(c) \/ CloseGivesUp(c)
        PROVE LifeTypes'
      BY <1>0, <1>5 DEF Close, CloseLast, CloseReturns, CloseGivesUp, CloseTail, Interrupted,
                  threads
  <1>6. CASE Defer
      BY <1>0, <1>6 DEF Defer, unit, threads
  <1> QED
    <2>1. ASSUME NEW c \in Clients, Transmit(c) PROVE UNCHANGED lifeVars
        BY <2>1 DEF Transmit
    <2>2. CASE Expunge \/ RemoveIRQ
        BY <2>2, <1>1 DEF Expunge, RemoveIRQ
    <2>3. CASE UNCHANGED vars
        BY <2>3, <1>1 DEF vars
    <2> QED
        BY <1>1, <1>2, <1>3, <1>4, <1>5, <1>6, <2>1, <2>2, <2>3 DEF Next

\* Moving a client changes who is where by that client only.
LEMMA MoveClients ==
  ASSUME ThreadTypes, NEW c \in Clients, NEW from, NEW to \in ClientStates, Move(c, from, to)
  PROVE  /\ from = client[c] /\ from \in ClientStates
         /\ client' \in [Clients -> ClientStates]
         /\ client'[c] = to /\ \A d \in Clients \ {c} : client'[d] = client[d]
  BY DEF ThreadTypes, Move

LEMMA ThreadTypeStep == ASSUME IInv, [Next]_vars PROVE ThreadTypes'
  <1> USE DEF ThreadTypes
  <1>0. ThreadTypes
      BY DEF IInv
  <1>1. ASSUME UNCHANGED <<client, ready, threads>> PROVE ThreadTypes'
      BY <1>0, <1>1 DEF threads
  <1>2. ASSUME NEW c \in Clients, NEW from, NEW to \in {"out", "in", "opening"},
               Move(c, from, to), UNCHANGED threads, ready' \in {ready, ready \ {c}}
        PROVE ThreadTypes'
      BY <1>0, <1>2 DEF Move, threads, ClientStates
  <1>3. ASSUME NEW c \in Clients, OpenStarts(c) PROVE ThreadTypes'
    <2>1. client' \in [Clients -> ClientStates] /\ ready' \subseteq Clients
        BY <1>0, <1>3 DEF OpenStarts, Move, ClientStates
    <2>2. PICK t \in TaskIds : tasks' = [tasks EXCEPT ![t] = "new"]
                               /\ startMsg' = startMsg \cup {<<t, c>>}
        BY <1>3 DEF OpenStarts
    <2>3. tasks' \in [TaskIds -> TaskStates]
        BY <1>0, <2>2 DEF TaskStates
    <2> QED
        BY <1>0, <2>1, <2>2, <2>3
  <1>4. ASSUME NEW c \in Clients, CloseLast(c) PROVE ThreadTypes'
      BY <1>0, <1>4 DEF CloseLast, Move, ClientStates
  <1>5. ASSUME NEW t \in TaskIds, NEW from, NEW to \in TaskStates, TaskMove(t, from, to)
        PROVE tasks' \in [TaskIds -> TaskStates]
      BY <1>0, <1>5 DEF TaskMove
  <1>6. ASSUME NEW t \in TaskIds, StartStep(t) PROVE ThreadTypes'
    <2>1. tasks' \in [TaskIds -> TaskStates]
        BY <1>5, <1>6 DEF StartStep, TaskUp, TaskFails, TaskStates, Looping
    <2>2. ready' \subseteq Clients /\ startMsg' \subseteq startMsg /\ client' = client
        BY <1>0, <1>6 DEF StartStep, TaskUp, TaskFails, AnswerFailure, SignalParent, Parents, Forget
    <2> QED
        BY <1>0, <2>1, <2>2
  <1>7. ASSUME NEW t \in TaskIds,
               TaskStep(t) \/ TaskWakes(t) \/ TaskOnline(t) \/ TaskOffline(t)
        PROVE ThreadTypes'
    <2>1. tasks' \in [TaskIds -> TaskStates]
        BY <1>5, <1>7 DEF TaskStep, TaskTop, TaskStop, TaskTurn, TaskLeaves, TaskGone, TaskWakes,
                    TaskOnline, TaskOffline, TaskStates, Looping
    <2>2. UNCHANGED <<client, ready, startMsg>>
        BY <1>7 DEF TaskStep, TaskTop, TaskStop, TaskTurn, TaskLeaves, TaskGone, TaskWakes,
                    TaskOnline, TaskOffline
    <2> QED
        BY <1>0, <2>1, <2>2
  <1>8. ASSUME NEW c \in Clients, OpenEnter(c) \/ OpenStep(c) PROVE ThreadTypes'
      BY <1>2, <1>3, <1>8 DEF OpenEnter, OpenStep, OpenFails, FailOpen, OpenJoins, Registered,
                  CreateFails, OpenFinishes
  <1>9. ASSUME NEW c \in Clients,
               Close(c) \/ CloseLast(c) \/ CloseReturns(c) \/ CloseGivesUp(c)
        PROVE ThreadTypes'
      BY <1>2, <1>4, <1>9 DEF Close, CloseReturns, CloseGivesUp, CloseTail
  <1> QED
    <2>1. CASE UNCHANGED lifeVars
        BY <2>1, <1>1 DEF lifeVars
    <2>2. ASSUME NEW c \in Clients, Transmit(c) PROVE UNCHANGED lifeVars
        BY <2>2 DEF Transmit
    <2>3. CASE Expunge \/ RemoveIRQ \/ UNCHANGED vars
        BY <2>3, <2>1 DEF Expunge, RemoveIRQ, vars
    <2>4. CASE Defer
        BY <2>4, <1>1 DEF Defer
    <2> QED
        BY <1>6, <1>7, <1>8, <1>9, <2>1, <2>2, <2>3, <2>4 DEF Next

-----------------------------------------------------------------------------
(* The counts.                                                              *)

\* A set of clients after a client has moved.
LEMMA ClientsMoved ==
  ASSUME ThreadTypes, NEW c \in Clients, NEW from, NEW to \in ClientStates, Move(c, from, to),
         NEW S
  PROVE  /\ to \in S => ClientsIn(S)' = ClientsIn(S) \cup {c}
         /\ to \notin S => ClientsIn(S)' = ClientsIn(S) \ {c}
         /\ from \in S <=> c \in ClientsIn(S)
         /\ IsFiniteSet(ClientsIn(S))
  <1>1. ClientsIn(S) \subseteq Clients
      BY DEF ClientsIn
  <1>2. IsFiniteSet(ClientsIn(S))
      BY <1>1, LifeAssumption, FS_Subset
  <1> QED
      BY <1>2, MoveClients DEF ClientsIn

\* What a move does to the number of clients in a call or open.
LEMMA CallsCounted ==
  ASSUME ThreadTypes, NEW c \in Clients, NEW from, NEW to \in ClientStates, Move(c, from, to)
  PROVE  /\ Cardinality(InCall) \in Nat /\ Cardinality(InCall') \in Nat
         /\ from = "out" /\ to # "out" => Cardinality(InCall') = Cardinality(InCall) + 1
         /\ from # "out" /\ to # "out" => InCall' = InCall
         /\ from # "out" /\ to = "out" =>
              InCall' = InCall \ {c} /\ Cardinality(InCall') = Cardinality(InCall) - 1
  <1>1. from \in ClientStates
      BY MoveClients
  <1> DEFINE S == ClientStates \ {"out"}
  <1>2. /\ to \in S => ClientsIn(S)' = ClientsIn(S) \cup {c}
        /\ to \notin S => ClientsIn(S)' = ClientsIn(S) \ {c}
        /\ from \in S <=> c \in ClientsIn(S)
        /\ IsFiniteSet(ClientsIn(S))
      BY ClientsMoved
  <1>3. InCall = ClientsIn(S) /\ InCall' = ClientsIn(S)'
      BY DEF InCall
  <1>4. (to \in S <=> to # "out") /\ (from \in S <=> from # "out")
      BY <1>1
  <1> HIDE DEF S
  <1>5. Cardinality(InCall) \in Nat /\ Cardinality(InCall') \in Nat
      BY <1>2, <1>3, FS_AddElement, FS_RemoveElement, FS_CardinalityType
  <1>6. from = "out" /\ to # "out" => Cardinality(InCall') = Cardinality(InCall) + 1
      BY <1>2, <1>3, <1>4, FS_AddElement
  <1>7. from # "out" /\ to # "out" => InCall' = InCall
      BY <1>2, <1>3, <1>4
  <1>8. from # "out" /\ to = "out" =>
          InCall' = InCall \ {c} /\ Cardinality(InCall') = Cardinality(InCall) - 1
      BY <1>2, <1>3, <1>4, FS_RemoveElement
  <1> QED
      BY <1>5, <1>6, <1>7, <1>8

\* What a move does to the opener list.
LEMMA OpenersCounted ==
  ASSUME ThreadTypes, NEW c \in Clients, NEW from, NEW to \in ClientStates, Move(c, from, to)
  PROVE  LET in == ClientsIn({"in"})
         IN  /\ Cardinality(in) \in Nat /\ Cardinality(in') \in Nat
             /\ from # "in" /\ to = "in" =>
                  in' = in \cup {c} /\ Cardinality(in') = Cardinality(in) + 1
             /\ from # "in" /\ to # "in" => in' = in
             /\ from = "in" /\ to # "in" =>
                  in' = in \ {c} /\ Cardinality(in') = Cardinality(in) - 1
  <1> DEFINE in == ClientsIn({"in"})
  <1>1. /\ to = "in" => in' = in \cup {c}
        /\ to # "in" => in' = in \ {c}
        /\ from = "in" <=> c \in in
        /\ IsFiniteSet(in)
      BY ClientsMoved
  <1> HIDE DEF in
  <1>2. Cardinality(in) \in Nat /\ Cardinality(in') \in Nat
      BY <1>1, FS_AddElement, FS_RemoveElement, FS_CardinalityType
  <1>3. from # "in" /\ to = "in" => in' = in \cup {c} /\ Cardinality(in') = Cardinality(in) + 1
      BY <1>1, FS_AddElement
  <1>4. from = "in" /\ to # "in" => in' = in \ {c} /\ Cardinality(in') = Cardinality(in) - 1
      BY <1>1, FS_RemoveElement
  <1>5. from # "in" /\ to # "in" => in' = in
      BY <1>1
  <1> QED
      BY <1>2, <1>3, <1>4, <1>5 DEF in

LEMMA CountsKept ==
  ASSUME CountInv, UNCHANGED <<lib_OpenCnt, open_count, opener_list, client>>
  PROVE  CountInv'
  BY DEF CountInv, InCall, ClientsIn

LEMMA CountStep == ASSUME IInv, [Next]_vars PROVE CountInv'
  <1>0. CountInv /\ ThreadTypes
      BY DEF IInv
  <1>1. ASSUME NEW c \in Clients, OpenEnter(c) PROVE CountInv'
      BY <1>0, <1>1, CallsCounted, OpenersCounted DEF OpenEnter, CountInv, ClientStates
  <1>2. ASSUME NEW c \in Clients, NEW from \in {"opening", "starting"}, FailOpen(c, from),
               UNCHANGED <<open_count, opener_list>>
        PROVE CountInv'
      BY <1>0, <1>2, CallsCounted, OpenersCounted DEF FailOpen, CountInv, ClientStates
  <1>3. ASSUME NEW c \in Clients, NEW from \in {"opening", "starting"}, Registered(c, from)
        PROVE CountInv'
      BY <1>0, <1>3, CallsCounted, OpenersCounted DEF Registered, CountOne, CountInv, ClientStates
  <1>4. ASSUME NEW c \in Clients, OpenStarts(c) PROVE CountInv'
      BY <1>0, <1>4, CallsCounted, OpenersCounted DEF OpenStarts, counts, CountInv, ClientStates
  <1>5. ASSUME NEW c \in Clients, Close(c) PROVE CountInv'
      BY <1>0, <1>5, CallsCounted, OpenersCounted DEF Close, CloseTail, CountInv, ClientStates
  <1>6. ASSUME NEW c \in Clients, CloseLast(c) PROVE CountInv'
    <2>1. Move(c, "in", "closing")
        BY <1>6 DEF CloseLast
    <2>2. InCall' = InCall
        BY <1>0, <2>1, CallsCounted DEF ClientStates
    <2>3. /\ ClientsIn({"in"})' = ClientsIn({"in"}) \ {c}
          /\ Cardinality(ClientsIn({"in"})') = Cardinality(ClientsIn({"in"})) - 1
        BY <1>0, <2>1, OpenersCounted DEF ClientStates
    <2> QED
        BY <1>0, <1>6, <2>2, <2>3 DEF CloseLast, CountInv
  <1>7. ASSUME NEW c \in Clients, CloseReturns(c) \/ CloseGivesUp(c) PROVE CountInv'
      BY <1>0, <1>7, CallsCounted, OpenersCounted
         DEF CloseReturns, CloseGivesUp, CloseTail, CountInv, ClientStates
  <1>8. ASSUME NEW t \in TaskIds,
               StartStep(t) \/ TaskStep(t) \/ TaskWakes(t) \/ TaskOnline(t) \/ TaskOffline(t)
        PROVE CountInv'
      BY <1>0, <1>8, CountsKept DEF StartStep, TaskUp, TaskFails, TaskStep, TaskTop, TaskStop,
         TaskTurn, TaskLeaves, TaskGone, TaskWakes, TaskOnline, TaskOffline, counts
  <1>9. CASE UNCHANGED lifeVars
      BY <1>0, <1>9, CountsKept DEF lifeVars, counts
  <1> QED
    <2>1. ASSUME NEW c \in Clients, OpenStep(c) PROVE CountInv'
        BY <1>2, <1>3, <1>4, <2>1 DEF OpenStep, OpenFails, OpenJoins, CreateFails, OpenFinishes,
           Registered
    <2>2. ASSUME NEW c \in Clients, Transmit(c) PROVE UNCHANGED lifeVars
        BY <2>2 DEF Transmit
    <2>3. CASE Expunge \/ RemoveIRQ \/ UNCHANGED vars
        BY <2>3, <1>9 DEF Expunge, RemoveIRQ, vars
    <2>4. CASE Defer
        BY <2>4, <1>0, CountsKept DEF Defer
    <2> QED
        BY <1>1, <1>5, <1>6, <1>7, <1>8, <1>9, <2>1, <2>2, <2>3, <2>4 DEF Next

\* The device is loaded as long as a client has it open or is in a call.
LEMMA LoadedStep == ASSUME IInv, [Next]_vars PROVE LoadedInv'
  <1>0. CountInv /\ ThreadTypes /\ LoadedInv
      BY DEF IInv
  <1>1. ASSUME NEW c \in Clients, NEW from \in {"in", "closing"}, CloseTail(c, from)
        PROVE LoadedInv'
    <2>1. Move(c, from, "out") /\ from # "out"
        BY <1>1 DEF CloseTail
    <2>2. InCall' = InCall \ {c} /\ Cardinality(InCall') = Cardinality(InCall) - 1
        BY <1>0, <2>1, CallsCounted DEF ClientStates
    <2>3. CASE LastToGo
      <3>1. Cardinality(InCall') = 0
          BY <1>0, <2>2, <2>3 DEF LastToGo, CountInv
      <3>2. IsFiniteSet(InCall')
          BY <1>0, <2>1, <2>2, ClientsMoved, FS_RemoveElement DEF InCall, ClientStates
      <3> QED
          BY <3>1, <3>2, FS_EmptySet DEF LoadedInv
    <2>4. CASE ~LastToGo
        BY <1>0, <1>1, <2>2, <2>4 DEF LoadedInv, CloseTail
    <2> QED
        BY <2>3, <2>4
  <1>2. ASSUME UNCHANGED <<client, stage>> PROVE LoadedInv'
      BY <1>0, <1>2 DEF LoadedInv, InCall, ClientsIn
  <1>3. ASSUME NEW c \in Clients, OpenEnter(c) PROVE LoadedInv'
      BY <1>3 DEF OpenEnter, LoadedInv, hwVars
  <1>4. ASSUME NEW c \in Clients, OpenStep(c) \/ CloseLast(c) PROVE LoadedInv'
    <2>1. UNCHANGED stage
        BY <1>4 DEF OpenStep, OpenFails, OpenJoins, CreateFails, OpenStarts, OpenFinishes,
           CloseLast, hwVars
    <2>2. client[c] # "out"
        BY <1>4 DEF OpenStep, OpenFails, FailOpen, OpenJoins, Registered, CreateFails, OpenStarts,
           OpenFinishes, CloseLast, Move
    <2>3. c \in InCall
        BY <1>0, <2>2 DEF InCall, ClientsIn, ThreadTypes
    <2> QED
        BY <1>0, <2>1, <2>3 DEF LoadedInv
  <1>5. CASE HwNext /\ UNCHANGED lifeVars
    <2>1. UNCHANGED client /\ stage # "ready"
        BY <1>5 DEF lifeVars, HwNext, Obtain, Denied, FindInterface, ChooseChannels,
           DisableSection, EnableSection, StopChannels,
           FreeRings, Release, Acquired, After
    <2> QED
        BY <1>0, <2>1 DEF LoadedInv, InCall, ClientsIn
  <1>6. CASE Expunge
    <2>1. IsFiniteSet(InCall) /\ Cardinality(InCall) = 0
      <3>1. InCall \subseteq Clients
          BY DEF InCall, ClientsIn
      <3> QED
          BY <1>0, <1>6, <3>1, LifeAssumption, FS_Subset DEF Expunge, CountInv
    <2>2. InCall = {} /\ UNCHANGED client
        BY <1>6, <2>1, FS_EmptySet DEF Expunge, lifeVars
    <2> QED
        BY <2>2 DEF LoadedInv, InCall, ClientsIn
  <1>7. CASE RemoveIRQ
      BY <1>0, <1>7 DEF RemoveIRQ, LoadedInv, InCall, ClientsIn, lifeVars
  <1> QED
    <2>1. ASSUME NEW c \in Clients, Transmit(c) PROVE LoadedInv'
        BY <1>2, <2>1 DEF Transmit, lifeVars
    <2>2. ASSUME NEW c \in Clients, Close(c) \/ CloseReturns(c) \/ CloseGivesUp(c)
          PROVE LoadedInv'
        BY <1>1, <2>2 DEF Close, CloseReturns, CloseGivesUp
    <2>3. ASSUME NEW t \in TaskIds,
                 StartStep(t) \/ TaskStep(t) \/ TaskWakes(t) \/ TaskOnline(t) \/ TaskOffline(t)
          PROVE LoadedInv'
        BY <1>2, <2>3 DEF StartStep, TaskUp, TaskFails, TaskStep, TaskTop, TaskStop,
           TaskTurn, TaskLeaves, TaskGone, TaskWakes, TaskOnline, TaskOffline, hwVars
    <2>4. CASE Defer \/ UNCHANGED vars
        BY <1>2, <2>4 DEF Defer, vars, hwVars, lifeVars
    <2> QED
        BY <1>3, <1>4, <1>5, <1>6, <1>7, <2>1, <2>2, <2>3, <2>4 DEF Next

-----------------------------------------------------------------------------
(* The start message, and the task that the interrupt handler signals.      *)

\* What MsgInv speaks of is left alone.
LEMMA MsgKept ==
  ASSUME MsgInv, UNCHANGED <<ready, startMsg>>,
         \A c \in Clients : client'[c] = "starting" <=> client[c] = "starting",
         \A t \in TaskIds : tasks'[t] = "new" <=> tasks[t] = "new",
         ready \subseteq Clients
  PROVE  MsgInv'
  BY DEF MsgInv

LEMMA TaskMoved ==
  ASSUME ThreadTypes, NEW t \in TaskIds, NEW from, NEW to, TaskMove(t, from, to)
  PROVE  tasks[t] = from /\ tasks'[t] = to /\ \A u \in TaskIds \ {t} : tasks'[u] = tasks[u]
  BY DEF ThreadTypes, TaskMove

LEMMA MsgStep == ASSUME IInv, [Next]_vars PROVE MsgInv'
  <1>0. MsgInv /\ ThreadTypes /\ ready \subseteq Clients
      BY DEF IInv, ThreadTypes
  <1>1. ASSUME NEW c \in Clients, NEW from \in ClientStates \ {"starting"},
               NEW to \in ClientStates \ {"starting"}, Move(c, from, to),
               UNCHANGED <<ready, startMsg, tasks>>
        PROVE MsgInv'
    <2>1. \A d \in Clients : client'[d] = "starting" <=> client[d] = "starting"
        BY <1>0, <1>1, MoveClients
    <2> QED
        BY <1>0, <1>1, <2>1, MsgKept
  <1>2. ASSUME NEW c \in Clients, OpenStarts(c) PROVE MsgInv'
    <2>1. /\ client[c] = "opening" /\ client'[c] = "starting" /\ ready' = ready
          /\ \A d \in Clients \ {c} : client'[d] = client[d]
        BY <1>0, <1>2, MoveClients DEF OpenStarts, ClientStates
    <2>2. PICK t \in TaskIds : /\ tasks[t] = "none"
                               /\ tasks' = [tasks EXCEPT ![t] = "new"]
                               /\ startMsg' = startMsg \cup {<<t, c>>}
        BY <1>2 DEF OpenStarts
    <2>3. tasks'[t] = "new" /\ \A u \in TaskIds \ {t} : tasks'[u] = tasks[u]
        BY <1>0, <2>2 DEF ThreadTypes
    <2>4. c \notin ready /\ \A u \in TaskIds : <<u, c>> \notin startMsg
        BY <1>0, <2>1 DEF MsgInv
    <2>5. \A d \in Clients : <<t, d>> \notin startMsg
        BY <1>0, <2>2 DEF MsgInv
    <2>6. \A u \in TaskIds, d \in Clients :
            <<u, d>> \in startMsg' <=> <<u, d>> \in startMsg \/ (u = t /\ d = c)
        BY <2>2
    <2>7. \A u \in TaskIds : tasks'[u] = "new" => \E d \in Clients : <<u, d>> \in startMsg'
        BY <1>0, <2>3, <2>6 DEF MsgInv
    <2>8. \A d \in Clients :
            client'[d] = "starting" /\ d \notin ready' => \E u \in TaskIds : <<u, d>> \in startMsg'
        BY <1>0, <2>1, <2>6 DEF MsgInv
    <2>9. \A u \in TaskIds, d \in Clients :
            <<u, d>> \in startMsg' => tasks'[u] = "new" /\ client'[d] = "starting" /\ d \notin ready'
        BY <1>0, <2>1, <2>3, <2>4, <2>6 DEF MsgInv
    <2>10. \A u, w \in TaskIds, d \in Clients :
             <<u, d>> \in startMsg' /\ <<w, d>> \in startMsg' => u = w
        BY <1>0, <2>4, <2>6 DEF MsgInv
    <2>11. \A d \in ready' : client'[d] = "starting"
        BY <1>0, <2>1 DEF MsgInv
    <2> QED
        BY <2>7, <2>8, <2>9, <2>10, <2>11 DEF MsgInv
  <1>3. ASSUME NEW c \in Clients, OpenFinishes(c) PROVE MsgInv'
    <2>1. PICK to \in {"in", "out"} : Move(c, "starting", to)
        BY <1>3 DEF OpenFinishes, Registered, FailOpen
    <2>2. /\ client[c] = "starting" /\ client'[c] # "starting"
          /\ \A d \in Clients \ {c} : client'[d] = client[d]
        BY <1>0, <2>1, MoveClients DEF ClientStates
    <2>3. /\ c \in ready /\ ready' = ready \ {c} /\ UNCHANGED <<tasks, startMsg>>
        BY <1>3 DEF OpenFinishes, TaskAnswered, threads
    <2>4. \A u \in TaskIds : <<u, c>> \notin startMsg
        BY <1>0, <2>3 DEF MsgInv
    <2> QED
        BY <1>0, <2>2, <2>3, <2>4 DEF MsgInv
  <1>4. ASSUME NEW t \in TaskIds, StartStep(t) PROVE MsgInv'
    <2>1. PICK to \in {"top", "none"} : TaskMove(t, "new", to)
        BY <1>4 DEF StartStep, TaskUp, TaskFails
    <2>2. /\ tasks[t] = "new" /\ tasks'[t] # "new"
          /\ \A u \in TaskIds \ {t} : tasks'[u] = tasks[u]
        BY <1>0, <2>1, TaskMoved
    <2>3. client' = client
        BY <1>4 DEF StartStep, TaskUp, TaskFails
    <2>4. \A d \in Clients : d \in ready' <=> d \in ready \/ <<t, d>> \in startMsg
        BY <1>4 DEF StartStep, TaskUp, TaskFails, AnswerFailure, SignalParent, Parents
    <2>5. ready' \subseteq Clients
        BY <1>0, <1>4 DEF StartStep, TaskUp, TaskFails, AnswerFailure, SignalParent, Parents
    <2>6. \A u \in TaskIds, d \in Clients : <<u, d>> \in startMsg' <=> <<u, d>> \in startMsg /\ u # t
        BY <1>4 DEF StartStep, TaskUp, TaskFails, Forget
    <2>7. \A u \in TaskIds : tasks'[u] = "new" => \E d \in Clients : <<u, d>> \in startMsg'
        BY <1>0, <2>2, <2>6 DEF MsgInv
    <2>8. \A d \in Clients :
            client'[d] = "starting" /\ d \notin ready' => \E u \in TaskIds : <<u, d>> \in startMsg'
        BY <1>0, <2>3, <2>4, <2>6 DEF MsgInv
    <2>9. \A u \in TaskIds, d \in Clients :
            <<u, d>> \in startMsg' => tasks'[u] = "new" /\ client'[d] = "starting" /\ d \notin ready'
        BY <1>0, <2>2, <2>3, <2>4, <2>6 DEF MsgInv
    <2>10. \A u, w \in TaskIds, d \in Clients :
             <<u, d>> \in startMsg' /\ <<w, d>> \in startMsg' => u = w
        BY <1>0, <2>6 DEF MsgInv
    <2>11. \A d \in ready' : client'[d] = "starting"
        BY <1>0, <2>3, <2>4, <2>5 DEF MsgInv
    <2> QED
        BY <2>7, <2>8, <2>9, <2>10, <2>11 DEF MsgInv
  <1>5. ASSUME NEW t \in TaskIds, NEW from, NEW to, from # "new", to # "new", TaskMove(t, from, to),
               UNCHANGED <<client, ready, startMsg>>
        PROVE MsgInv'
      BY <1>0, <1>5, TaskMoved, MsgKept
  <1>6. ASSUME NEW t \in TaskIds,
               TaskStep(t) \/ TaskWakes(t) \/ TaskOnline(t) \/ TaskOffline(t)
        PROVE MsgInv'
      BY <1>5, <1>6 DEF TaskStep, TaskTop, TaskStop, TaskTurn, TaskLeaves, TaskGone, TaskWakes,
         TaskOnline, TaskOffline
  <1>7. ASSUME NEW c \in Clients,
               OpenEnter(c) \/ OpenFails(c) \/ OpenJoins(c) \/ CreateFails(c)
        PROVE MsgInv'
      BY <1>1, <1>7 DEF OpenEnter, OpenFails, FailOpen, OpenJoins, Registered, CreateFails, threads,
         ClientStates
  <1>8. ASSUME NEW c \in Clients,
               Close(c) \/ CloseLast(c) \/ CloseReturns(c) \/ CloseGivesUp(c)
        PROVE MsgInv'
      BY <1>1, <1>8 DEF Close, CloseLast, CloseReturns, CloseGivesUp, CloseTail, threads,
         ClientStates
  <1>9. CASE UNCHANGED <<client, ready, threads>>
      BY <1>0, <1>9 DEF MsgInv, threads
  <1> QED
    <2>1. CASE UNCHANGED lifeVars
        BY <2>1, <1>9 DEF lifeVars
    <2>2. ASSUME NEW c \in Clients, Transmit(c) PROVE UNCHANGED lifeVars
        BY <2>2 DEF Transmit
    <2>3. CASE Expunge \/ RemoveIRQ \/ UNCHANGED vars
        BY <2>3, <2>1 DEF Expunge, RemoveIRQ, vars
    <2>4. CASE Defer
        BY <2>4, <1>9 DEF Defer
    <2> QED
        BY <1>2, <1>3, <1>4, <1>6, <1>7, <1>8, <2>1, <2>2, <2>3, <2>4 DEF Next, OpenStep

LEMMA WaiterStep == ASSUME IInv, [Next]_vars PROVE WaiterInv'
  <1>0. WaiterInv /\ ThreadTypes /\ LifeTypes
      BY DEF IInv
  <1>1. CASE UNCHANGED <<irq_wait_task, tasks>>
      BY <1>0, <1>1 DEF WaiterInv
  <1>2. ASSUME NEW c \in Clients, OpenStarts(c) PROVE WaiterInv'
    <2>1. PICK t \in TaskIds : tasks[t] = "none" /\ tasks' = [tasks EXCEPT ![t] = "new"]
        BY <1>2 DEF OpenStarts
    <2>2. \A u \in TaskIds \ {t} : tasks'[u] = tasks[u]
        BY <1>0, <2>1 DEF ThreadTypes
    <2> QED
        BY <1>0, <1>2, <2>1, <2>2 DEF WaiterInv, LifeTypes, Looping, OpenStarts
  <1>3. ASSUME NEW t \in TaskIds, TaskUp(t) PROVE WaiterInv'
      BY <1>0, <1>3, TaskMoved DEF TaskUp, WaiterInv, Looping
  <1>4. ASSUME NEW t \in TaskIds, NEW from, NEW to, TaskMove(t, from, to),
               UNCHANGED irq_wait_task,
               from \in {"new", "freeing"} \/ to \in Looping \cup {"leaving"}
        PROVE WaiterInv'
      BY <1>0, <1>4, TaskMoved DEF WaiterInv, LifeTypes, Looping
  <1>5. ASSUME NEW t \in TaskIds, TaskLeaves(t) PROVE WaiterInv'
      BY <1>5 DEF TaskLeaves, WaiterCleared, WaiterInv
  <1>6. ASSUME NEW t \in TaskIds,
               TaskFails(t) \/ TaskTop(t) \/ TaskStop(t) \/ TaskTurn(t) \/ TaskGone(t)
                 \/ TaskWakes(t) \/ TaskOnline(t) \/ TaskOffline(t)
        PROVE WaiterInv'
      BY <1>4, <1>6 DEF TaskFails, TaskTop, TaskStop, TaskTurn, TaskGone, TaskWakes, TaskOnline,
         TaskOffline, unit, Looping
  <1>7. ASSUME NEW c \in Clients,
               \/ OpenEnter(c) \/ OpenFails(c) \/ OpenJoins(c) \/ CreateFails(c) \/ OpenFinishes(c)
               \/ Close(c) \/ CloseLast(c) \/ CloseReturns(c) \/ CloseGivesUp(c) \/ Transmit(c)
        PROVE UNCHANGED <<irq_wait_task, tasks>>
      BY <1>7 DEF OpenEnter, OpenFails, OpenJoins, CreateFails, OpenFinishes, Close, CloseLast,
         CloseReturns, CloseGivesUp, CloseTail, Transmit, unit, threads, lifeVars
  <1> QED
    <2>1. CASE UNCHANGED lifeVars
        BY <2>1, <1>1 DEF lifeVars, unit, threads
    <2>2. CASE Expunge \/ RemoveIRQ \/ UNCHANGED vars
        BY <2>2, <2>1 DEF Expunge, RemoveIRQ, vars
    <2>3. CASE Defer
        BY <2>3, <1>1 DEF Defer, unit, threads
    <2> QED
        BY <1>1, <1>2, <1>3, <1>5, <1>6, <1>7, <2>1, <2>2, <2>3
           DEF Next, OpenStep, StartStep, TaskStep

-----------------------------------------------------------------------------
(* The unit task and those who use it, as long as there was no accident.    *)

UsersInv == SingleInv /\ PointerInv /\ UseInv

LEMMA OpenersExist ==
  ASSUME CountInv
  PROVE  (\E c \in Clients : client[c] = "in") <=> open_count # 0
  <1>1. ClientsIn({"in"}) \subseteq Clients
      BY DEF ClientsIn
  <1>2. IsFiniteSet(ClientsIn({"in"}))
      BY <1>1, LifeAssumption, FS_Subset
  <1>3. open_count = 0 <=> ClientsIn({"in"}) = {}
      BY <1>2, FS_EmptySet DEF CountInv
  <1> QED
      BY <1>3 DEF ClientsIn

\* A step of the only task leaves it the only one.
LEMMA OnlyTask ==
  ASSUME ThreadTypes, SingleInv, NEW t \in TaskIds, NEW from, NEW to, from # "none",
         TaskMove(t, from, to)
  PROVE  /\ Alive = {t} /\ Alive' = IF to = "none" THEN {} ELSE {t}
         /\ tasks[t] = from /\ tasks'[t] = to
         /\ \A u \in TaskIds \ {t} : tasks[u] = "none" /\ tasks'[u] = "none"
  <1>1. tasks[t] = from /\ tasks'[t] = to /\ \A u \in TaskIds \ {t} : tasks'[u] = tasks[u]
      BY TaskMoved
  <1>2. t \in Alive
      BY <1>1 DEF Alive
  <1>3. \A u \in TaskIds \ {t} : tasks[u] = "none"
      BY <1>2 DEF SingleInv, Alive
  <1> QED
      BY <1>1, <1>3 DEF Alive

\* The step of a task that runs already, when it clears no pointer: it goes on,
\* or it ends its loop, which it does only when nobody wants it any more.
LEMMA UsersKeptByTask ==
  ASSUME ThreadTypes, UsersInv, NEW t \in TaskIds,
         NEW from \in Looping, NEW to \in Looping \cup {"leaving"}, TaskMove(t, from, to),
         to \in Looping \/ ~Wanted,
         UNCHANGED <<client, task_shutdown, unit_task, io_port, irq_wait_task>>,
         ctrl' \subseteq ctrl
  PROVE  UsersInv'
  <1>1. /\ Alive = {t} /\ Alive' = {t} /\ tasks[t] = from /\ tasks'[t] = to
        /\ \A u \in TaskIds \ {t} : tasks'[u] = "none"
      BY OnlyTask DEF UsersInv, Looping
  <1>2. SingleInv'
      BY <1>1 DEF UsersInv, SingleInv
  <1>3. unit_task = t /\ io_port = t /\ irq_wait_task = t
      BY <1>1 DEF UsersInv, PointerInv, Looping
  <1>4. PointerInv'
      BY <1>1, <1>3 DEF UsersInv, PointerInv, Looping
  <1>5. UseInv'
      BY <1>1 DEF UsersInv, UseInv, Wanted
  <1> QED
      BY <1>2, <1>4, <1>5 DEF UsersInv

\* A client that moves among the states that use no task.
LEMMA UsersKeptByClient ==
  ASSUME UsersInv, UNCHANGED <<unit, tasks, ctrl>>,
         \A c \in Clients, s \in {"starting", "in", "closing"} : client'[c] = s <=> client[c] = s
  PROVE  UsersInv'
  BY DEF UsersInv, SingleInv, PointerInv, UseInv, Wanted, Alive, unit

\* Nobody forgets an accident.
LEMMA AccidentKept == ASSUME [Next]_vars, accident PROVE accident'
  <1>1. ASSUME NEW c \in Clients, OpenEnter(c) \/ OpenStep(c) \/ Transmit(c) PROVE accident'
      BY <1>1 DEF OpenEnter, OpenStep, OpenFails, OpenJoins, CreateFails, OpenStarts, OpenFinishes,
         Transmit, lifeVars
  <1>2. ASSUME NEW c \in Clients,
               Close(c) \/ CloseLast(c) \/ CloseReturns(c) \/ CloseGivesUp(c)
        PROVE accident'
      BY <1>2 DEF Close, CloseLast, CloseReturns, CloseGivesUp
  <1>3. ASSUME NEW t \in TaskIds,
               StartStep(t) \/ TaskStep(t) \/ TaskWakes(t) \/ TaskOnline(t) \/ TaskOffline(t)
        PROVE accident'
      BY <1>3 DEF StartStep, TaskUp, TaskFails, TaskStep, TaskTop, TaskStop, TaskTurn, TaskLeaves,
         TaskGone, TaskWakes, TaskOnline, TaskOffline
  <1>4. CASE Defer \/ Expunge \/ RemoveIRQ \/ UNCHANGED lifeVars
      BY <1>4 DEF Defer, Expunge, RemoveIRQ, lifeVars
  <1> QED
      BY <1>1, <1>2, <1>3, <1>4 DEF Next, vars

\* A first open without another in progress and with no task alive.
LEMMA UsersOpenStarts ==
  ASSUME IInv, UsersInv, ~accident', NEW c \in Clients, OpenStarts(c)
  PROVE  UsersInv'
  <1>0. ThreadTypes /\ LifeTypes /\ CountInv /\ WaiterInv
      BY DEF IInv
  <1>1. /\ client[c] = "opening" /\ client'[c] = "starting"
        /\ \A d \in Clients \ {c} : client'[d] = client[d]
      BY <1>0, MoveClients DEF OpenStarts, ClientStates
  <1>2. ~Collides /\ open_count = 0
      BY DEF OpenStarts
  <1>3. Alive = {} /\ \A d \in Clients : client[d] \notin {"starting", "in"}
      BY <1>0, <1>2, OpenersExist DEF Collides
  <1>4. \A d \in Clients \ {c} : client'[d] \notin {"starting", "in"}
      BY <1>1, <1>3
  <1>5. PICK t \in TaskIds : tasks' = [tasks EXCEPT ![t] = "new"]
      BY DEF OpenStarts
  <1>6. tasks'[t] = "new" /\ Alive' = {t} /\ \A u \in TaskIds \ {t} : tasks'[u] = "none"
      BY <1>0, <1>3, <1>5 DEF ThreadTypes, Alive
  <1>7. unit_task = NoTask /\ io_port = NoTask /\ irq_wait_task = NoTask /\ ctrl = {}
    <2>1. unit_task = NoTask /\ io_port = NoTask /\ ctrl = {}
        BY <1>3 DEF UsersInv, PointerInv
    <2>2. irq_wait_task = NoTask
        BY <1>0, <1>3 DEF WaiterInv, LifeTypes, Alive, Looping
    <2> QED
        BY <2>1, <2>2
  <1>8. UNCHANGED <<unit_task, io_port, irq_wait_task, ctrl>> /\ ~task_shutdown'
      BY DEF OpenStarts, ShutdownAtStart
  <1>9. SingleInv'
      BY <1>1, <1>4, <1>6 DEF SingleInv
  <1>10. PointerInv'
      BY <1>6, <1>7, <1>8 DEF PointerInv, Looping
  <1>11. UseInv'
      BY <1>1, <1>4, <1>6, <1>7, <1>8 DEF UseInv, Wanted
  <1> QED
      BY <1>9, <1>10, <1>11 DEF UsersInv

\* The parent wakes up: the task is there, or has failed.
LEMMA UsersOpenFinishes ==
  ASSUME IInv, UsersInv, NEW c \in Clients, OpenFinishes(c)
  PROVE  UsersInv'
  <1>0. ThreadTypes /\ MsgInv
      BY DEF IInv
  <1>1. PICK to \in {"in", "out"} : Move(c, "starting", to) /\ (to = "in" <=> io_port # NoTask)
      BY DEF OpenFinishes, Registered, FailOpen
  <1>2. /\ client[c] = "starting" /\ client'[c] = to
        /\ \A d \in Clients \ {c} : client'[d] = client[d]
      BY <1>0, <1>1, MoveClients DEF ClientStates
  <1>3. UNCHANGED <<unit, tasks, ctrl>> /\ c \in ready /\ Alive' = Alive
      BY DEF OpenFinishes, TaskAnswered, threads, Alive
  <1>4. \A d \in Clients \ {c} : client'[d] \notin {"starting", "in"}
      BY <1>2 DEF UsersInv, SingleInv
  <1>5. SingleInv'
      BY <1>1, <1>2, <1>3, <1>4 DEF UsersInv, SingleInv
  <1>6. PointerInv'
      BY <1>3 DEF UsersInv, PointerInv, unit
  <1>7. Wanted
      BY <1>2 DEF Wanted
  <1>8. CASE to = "in"
    <2>1. Alive # {}
        BY <1>1, <1>8 DEF UsersInv, PointerInv
    <2>2. UseInv'
        BY <1>2, <1>3, <1>4, <1>7, <1>8, <2>1 DEF UsersInv, UseInv, Wanted, unit
    <2> QED
        BY <1>5, <1>6, <2>2 DEF UsersInv
  <1>9. CASE to = "out"
    <2>1. ASSUME NEW t \in Alive PROVE FALSE
      <3>1. tasks[t] \in Looping \cup {"new"} /\ t \in TaskIds /\ t # NoTask
          BY <1>7 DEF UsersInv, UseInv, Alive, TaskIds, NoTask
      <3>2. tasks[t] = "new"
          BY <1>1, <1>9, <3>1 DEF UsersInv, PointerInv
      <3>3. PICK d \in Clients : <<t, d>> \in startMsg
          BY <1>0, <3>1, <3>2 DEF MsgInv
      <3>4. client[d] = "starting" /\ d \notin ready
          BY <1>0, <3>1, <3>3 DEF MsgInv
      <3> QED
          BY <1>2, <1>3, <3>4 DEF UsersInv, SingleInv
    <2>2. Alive' = {} /\ ~Wanted'
        BY <1>2, <1>3, <1>4, <1>9, <2>1 DEF Wanted
    <2> QED
        BY <1>5, <1>6, <2>2 DEF UsersInv, UseInv, Wanted
  <1> QED
      BY <1>1, <1>5, <1>6, <1>8, <1>9 DEF UsersInv

\* The new task comes up or fails; its parent still wants it.
LEMMA UsersStartStep ==
  ASSUME IInv, UsersInv, NEW t \in TaskIds, StartStep(t)
  PROVE  UsersInv'
  <1>0. ThreadTypes /\ MsgInv
      BY DEF IInv
  <1>1. PICK to \in {"top", "none"} :
          TaskMove(t, "new", to) /\ (to = "top" => TaskUp(t)) /\ (to = "none" => TaskFails(t))
      BY DEF StartStep, TaskUp, TaskFails
  <1>2. /\ Alive = {t} /\ Alive' = IF to = "none" THEN {} ELSE {t}
        /\ tasks[t] = "new" /\ tasks'[t] = to
        /\ \A u \in TaskIds \ {t} : tasks[u] = "none" /\ tasks'[u] = "none"
      BY <1>0, <1>1, OnlyTask DEF UsersInv
  <1>3. PICK c \in Clients : client[c] = "starting"
      BY <1>0, <1>2 DEF MsgInv
  <1>4. UNCHANGED <<client, task_shutdown, ctrl>> /\ ctrl = {} /\ ~task_shutdown
      BY <1>3 DEF StartStep, TaskUp, TaskFails, UsersInv, UseInv, Wanted
  <1>5. \A d \in Clients : client'[d] # "in"
      BY <1>3, <1>4 DEF UsersInv, SingleInv
  <1>6. SingleInv'
      BY <1>2, <1>4 DEF UsersInv, SingleInv
  <1>7. UseInv'
      BY <1>2, <1>3, <1>4, <1>5 DEF UseInv, Looping
  <1>8. PointerInv'
    <2>1. CASE to = "top"
        BY <1>1, <1>2, <1>4, <2>1 DEF TaskUp, PointerInv, Looping
    <2>2. CASE to = "none"
        BY <1>1, <1>2, <1>4, <2>2 DEF TaskFails, UsersInv, PointerInv, Looping
    <2> QED
        BY <2>1, <2>2
  <1> QED
      BY <1>6, <1>7, <1>8 DEF UsersInv

\* The task in its loop, and at its end.
LEMMA UsersTaskStep ==
  ASSUME IInv, UsersInv, NEW t \in TaskIds,
         TaskStep(t) \/ TaskWakes(t) \/ TaskOnline(t) \/ TaskOffline(t)
  PROVE  UsersInv'
  <1>0. ThreadTypes /\ PointerInv
      BY DEF IInv, UsersInv
  <1>1. CASE TaskTop(t)
    <2>1. task_shutdown => ~Wanted
        BY DEF UsersInv, UseInv
    <2> QED
        BY <1>0, <1>1, <2>1, UsersKeptByTask DEF TaskTop, unit, Looping
  <1>2. CASE TaskStop(t)
    <2>1. ~Wanted
        BY <1>2 DEF TaskStop, UsersInv, UseInv
    <2> QED
        BY <1>0, <1>2, <2>1, UsersKeptByTask DEF TaskStop, unit, Looping
  <1>3. CASE TaskTurn(t) \/ TaskWakes(t)
      BY <1>0, <1>3, UsersKeptByTask DEF TaskTurn, TaskWakes, unit, Looping
  <1>4. CASE TaskOnline(t) \/ TaskOffline(t)
      BY <1>0, <1>4, UsersKeptByTask DEF TaskOnline, TaskOffline, Looping
  <1>5. CASE TaskLeaves(t)
    <2>1. /\ Alive = {t} /\ Alive' = {t} /\ tasks[t] = "leaving" /\ tasks'[t] = "freeing"
          /\ \A u \in TaskIds \ {t} : tasks'[u] = "none"
        BY <1>0, <1>5, OnlyTask DEF UsersInv, TaskLeaves
    <2>2. UNCHANGED <<client, task_shutdown, ctrl, unit_task, io_port>>
        BY <1>5 DEF TaskLeaves
    <2>3. ~Wanted
        BY <2>1 DEF UsersInv, UseInv, Looping
    <2>4. SingleInv'
        BY <2>1, <2>2 DEF UsersInv, SingleInv
    <2>5. PointerInv'
        BY <1>0, <2>1, <2>2 DEF PointerInv, Looping
    <2>6. UseInv'
        BY <2>1, <2>2, <2>3 DEF UsersInv, UseInv, Wanted
    <2> QED
        BY <2>4, <2>5, <2>6 DEF UsersInv
  <1>6. CASE TaskGone(t)
    <2>1. /\ Alive = {t} /\ Alive' = {} /\ tasks[t] = "freeing"
          /\ \A u \in TaskIds : tasks'[u] = "none"
        BY <1>0, <1>6, OnlyTask DEF UsersInv, TaskGone
    <2>2. UNCHANGED <<client, task_shutdown>> /\ ctrl' = ctrl \ {t}
        BY <1>6 DEF TaskGone
    <2>3. ~Wanted
        BY <2>1 DEF UsersInv, UseInv, Looping
    <2>4. SingleInv'
        BY <2>1, <2>2 DEF UsersInv, SingleInv
    <2>5. ctrl' = {}
        BY <1>0, <2>1, <2>2 DEF PointerInv
    <2>6. PointerInv'
        BY <1>6, <2>1, <2>5 DEF TaskGone, PointerInv, Looping
    <2>7. UseInv'
        BY <2>1, <2>2, <2>3 DEF UseInv, Wanted
    <2> QED
        BY <2>4, <2>6, <2>7 DEF UsersInv
  <1> QED
      BY <1>1, <1>2, <1>3, <1>4, <1>5, <1>6 DEF TaskStep

\* A client that has the device open has a task to serve it.
LEMMA OpenerHasTask ==
  ASSUME IInv, UsersInv, NEW c \in Clients, client[c] = "in"
  PROVE  unit_task \in Alive /\ unit_task # NoTask
  <1>1. PICK t \in Alive : tasks[t] \in Looping \cup {"new"}
      BY DEF UsersInv, UseInv, Wanted
  <1>2. t \in TaskIds /\ t # NoTask
      BY DEF Alive, TaskIds, NoTask
  <1>3. tasks[t] # "new"
      BY <1>2 DEF IInv, MsgInv, UsersInv, SingleInv
  <1> QED
      BY <1>1, <1>2, <1>3 DEF UsersInv, PointerInv

LEMMA UsersClose ==
  ASSUME IInv, CountInv', UsersInv, NEW c \in Clients, Close(c) \/ CloseLast(c)
  PROVE  UsersInv'
  <1>0. ThreadTypes /\ CountInv /\ open_count' \in Nat
      BY LifeAssumption, FS_Subset, FS_CardinalityType DEF IInv, CountInv, ClientsIn
  <1>1. /\ client[c] = "in" /\ client'[c] \in {"out", "closing"}
        /\ \A d \in Clients \ {c} : client'[d] = client[d]
      BY <1>0, MoveClients DEF Close, CloseTail, CloseLast, ClientStates
  <1>2. unit_task \in Alive /\ unit_task # NoTask
      BY <1>1, OpenerHasTask
  <1>3. \A d \in Clients : client[d] # "starting" /\ client'[d] # "starting"
      BY <1>1 DEF UsersInv, SingleInv
  <1>4. UNCHANGED <<tasks, unit_task, io_port, irq_wait_task>> /\ Alive' = Alive
      BY DEF Close, CloseTail, CloseLast, threads, Alive
  <1>5. SingleInv'
      BY <1>3, <1>4 DEF UsersInv, SingleInv
  <1>6. CASE Close(c)
    <2>1. UNCHANGED <<ctrl, task_shutdown>>
        BY <1>6 DEF Close, CloseTail, threads
    <2>2. open_count' # 0
      <3>1. open_count \in Nat
          BY <1>0, LifeAssumption, FS_Subset, FS_CardinalityType DEF CountInv, ClientsIn
      <3> QED
          BY <1>2, <1>6, <3>1 DEF Close
    <2>3. PICK d \in Clients : client'[d] = "in"
      <3>1. ClientsIn({"in"})' # {}
          BY <2>2, FS_EmptySet DEF CountInv
      <3> QED
          BY <3>1 DEF ClientsIn
    <2>4. PointerInv'
        BY <1>4, <2>1 DEF UsersInv, PointerInv
    <2>5. UseInv'
        BY <1>1, <1>3, <1>4, <2>1, <2>3 DEF UsersInv, UseInv, Wanted
    <2> QED
        BY <1>5, <2>4, <2>5 DEF UsersInv
  <1>7. CASE CloseLast(c)
    <2>1. client'[c] = "closing" /\ ctrl' = ctrl \cup {unit_task}
        BY <1>0, <1>7, MoveClients DEF CloseLast, Interrupted, ClientStates
    <2>2. ClientsIn({"in"})' = {}
      <3>1. IsFiniteSet(ClientsIn({"in"})')
          BY LifeAssumption, FS_Subset DEF ClientsIn
      <3> QED
          BY <1>7, <3>1, FS_EmptySet DEF CloseLast, CountInv
    <2>3. ~Wanted' /\ \A d \in Clients : client'[d] # "in"
        BY <1>3, <2>2 DEF Wanted, ClientsIn
    <2>4. PointerInv'
        BY <1>2, <1>4, <2>1 DEF UsersInv, PointerInv
    <2>5. UseInv'
        BY <2>1, <2>3 DEF UseInv
    <2> QED
        BY <1>5, <2>4, <2>5 DEF UsersInv
  <1> QED
      BY <1>6, <1>7

LEMMA UsersCloseReturns ==
  ASSUME IInv, UsersInv, NEW c \in Clients, CloseReturns(c)
  PROVE  UsersInv'
  <1>0. ThreadTypes /\ MsgInv
      BY DEF IInv
  <1>1. /\ client[c] = "closing" /\ client'[c] = "out"
        /\ \A d \in Clients \ {c} : client'[d] = client[d]
      BY <1>0, MoveClients DEF CloseReturns, CloseTail, ClientStates
  <1>2. UNCHANGED <<unit, tasks, ctrl>> /\ Alive' = Alive /\ unit_task = NoTask
      BY DEF CloseReturns, CloseTail, TaskCleared, unit, threads, Alive
  <1>3. SingleInv'
      BY <1>1, <1>2 DEF UsersInv, SingleInv
  <1>4. PointerInv'
      BY <1>2 DEF UsersInv, PointerInv, unit
  <1>5. ASSUME NEW t \in Alive PROVE \E d \in Clients : client[d] = "starting"
    <2>1. t \in TaskIds /\ t # NoTask /\ tasks[t] # "none"
        BY DEF Alive, TaskIds, NoTask
    <2>2. tasks[t] = "new"
        BY <1>0, <1>2, <2>1 DEF ThreadTypes, TaskStates, UsersInv, PointerInv
    <2> QED
        BY <1>0, <2>1, <2>2 DEF MsgInv
  <1>6. UseInv'
      BY <1>1, <1>2, <1>5 DEF UsersInv, UseInv, Wanted, unit
  <1> QED
      BY <1>3, <1>4, <1>6 DEF UsersInv

LEMMA UsersStep == ASSUME IInv, CountInv', [Next]_vars, ~accident' PROVE UsersInv'
  <1>0. ThreadTypes /\ CountInv /\ UsersInv /\ ~accident
      BY AccidentKept DEF IInv, UsersInv
  <1>1. ASSUME NEW c \in Clients, OpenEnter(c) \/ OpenFails(c) PROVE UsersInv'
    <2>1. PICK from \in {"out", "opening"}, to \in {"out", "opening"} : Move(c, from, to)
        BY <1>1 DEF OpenEnter, OpenFails, FailOpen
    <2>2. \A d \in Clients, s \in {"starting", "in", "closing"} : client'[d] = s <=> client[d] = s
        BY <1>0, <2>1, MoveClients DEF ClientStates
    <2>3. UNCHANGED <<unit, tasks, ctrl>>
        BY <1>1 DEF OpenEnter, OpenFails, threads
    <2> QED
        BY <1>0, <2>2, <2>3, UsersKeptByClient
  <1>2. ASSUME NEW c \in Clients, OpenJoins(c) PROVE UsersInv'
    <2>1. /\ client'[c] = "in" /\ client[c] = "opening"
          /\ \A d \in Clients \ {c} : client'[d] = client[d]
        BY <1>0, <1>2, MoveClients DEF OpenJoins, Registered, ClientStates
    <2>2. UNCHANGED <<unit, tasks, ctrl>> /\ Alive' = Alive
        BY <1>2 DEF OpenJoins, threads, Alive
    <2>3. PICK d \in Clients : client[d] = "in"
        BY <1>0, <1>2, OpenersExist DEF OpenJoins
    <2>4. SingleInv'
        BY <1>0, <2>1, <2>2, <2>3 DEF UsersInv, SingleInv
    <2>5. PointerInv'
        BY <1>0, <2>2 DEF UsersInv, PointerInv, unit
    <2>6. UseInv'
        BY <1>0, <2>1, <2>2, <2>3 DEF UsersInv, UseInv, Wanted, unit
    <2> QED
        BY <2>4, <2>5, <2>6 DEF UsersInv
  <1>3. ASSUME NEW c \in Clients, CreateFails(c) PROVE UsersInv'
    <2>1. /\ client'[c] = "out" /\ client[c] = "opening"
          /\ \A d \in Clients \ {c} : client'[d] = client[d]
        BY <1>0, <1>3, MoveClients DEF CreateFails, FailOpen, ClientStates
    <2>2. Alive = {} /\ \A d \in Clients : client[d] \notin {"starting", "in"}
        BY <1>0, <1>3, OpenersExist DEF CreateFails, Collides
    <2>3. UNCHANGED <<unit_task, io_port, irq_wait_task, tasks, ctrl>> /\ Alive' = Alive
        BY <1>3 DEF CreateFails, threads, Alive
    <2>4. \A d \in Clients : client'[d] \notin {"starting", "in"}
        BY <2>1, <2>2
    <2>5. SingleInv'
        BY <2>2, <2>3, <2>4 DEF SingleInv
    <2>6. PointerInv'
        BY <1>0, <2>3 DEF UsersInv, PointerInv
    <2>7. UseInv'
        BY <2>2, <2>3, <2>4 DEF UseInv, Wanted
    <2> QED
        BY <2>5, <2>6, <2>7 DEF UsersInv
  <1>4. ASSUME NEW c \in Clients, OpenStep(c) PROVE UsersInv'
      BY <1>0, <1>1, <1>2, <1>3, <1>4, UsersOpenStarts, UsersOpenFinishes DEF OpenStep
  <1>5. ASSUME NEW c \in Clients, CloseGivesUp(c) PROVE UsersInv'
      BY <1>5 DEF CloseGivesUp
  <1>6. CASE UNCHANGED lifeVars
      BY <1>0, <1>6, UsersKeptByClient DEF lifeVars, threads
  <1> QED
    <2>1. ASSUME NEW c \in Clients, Transmit(c) PROVE UNCHANGED lifeVars
        BY <2>1 DEF Transmit
    <2>2. CASE Expunge \/ RemoveIRQ \/ UNCHANGED vars
        BY <2>2, <1>6 DEF Expunge, RemoveIRQ, vars
    <2>3. CASE Defer
        BY <2>3, <1>0, UsersKeptByClient DEF Defer, threads
    <2> QED
        BY <1>0, <1>1, <1>4, <1>5, <1>6, <2>1, <2>2, <2>3, UsersStartStep, UsersTaskStep,
           UsersClose, UsersCloseReturns DEF Next

-----------------------------------------------------------------------------
(* What is held, what the engine may use, whose channels these are.         *)

\* The names are distinct.
LEMMA NamesApart ==
  /\ BaseResources \cap RingMemory = {}
  /\ {"irq", "rx_bufs", "tx_buf_pending"} \cap (BaseResources \cup RingMemory) = {}
  /\ Resources = BaseResources \cup RingMemory \cup {"irq", "rx_bufs", "tx_buf_pending"}
  BY DEF BaseResources, RingMemory, TxMemory, RxMemory, Handles, Resources

LEMMA ObtainHeld == ASSUME HeldInv, Obtain PROVE HeldInv'
  <1>1. Loading /\ held' = held \cup {stage} /\ stage' = After[stage] /\ stage \in Acquired
      BY DEF HeldInv, Obtain
  <1>2. stage' \notin Stopping \cup {"remove_irq", "failed", "expunged"}
      BY <1>1 DEF After, Acquired, Stopping
  <1>3. "irq" \in held' => stage' = "ready"
      BY <1>1 DEF HeldInv, After, Acquired
  <1>4. stage' = "ready" => BaseResources \cup RingMemory \subseteq held'
    <2>1. \A s \in Acquired \ {"irq"} : After[s] # "ready"
        BY DEF After, Acquired
    <2> QED
        BY <1>1, <2>1 DEF Loading
  <1>5. Loading'
    <2>1. CASE stage \in {"ExpansionBase", "IPCI", "mac_dev", "dma_dev", "iob_dev"}
        BY <1>1, <2>1 DEF Loading, After, Handles
    <2>2. CASE stage \in {"UtilityBase", "IUtility", "unit"}
        BY <1>1, <2>2 DEF Loading, After, BaseResources, Handles
    <2>3. CASE stage \in {"tx_ring", "tx_ring_map", "rx_ring"}
        BY <1>1, <2>3 DEF Loading, After, TxMemory
    <2>4. CASE stage \in {"rx_ring_map", "rx_buf_ring", "rx_buf_ring_map"}
        BY <1>1, <2>4, NamesApart DEF Loading, After, RingMemory, TxMemory, RxMemory
    <2>5. CASE stage = "irq"
        BY <1>1, <2>5 DEF Loading, After
    <2> QED
        BY <1>1, <2>1, <2>2, <2>3, <2>4, <2>5 DEF After, Acquired
  <1> QED
      BY <1>2, <1>3, <1>4, <1>5 DEF HeldInv, Stopping

LEMMA HeldStep == ASSUME IInv, [Next]_vars PROVE HeldInv'
  <1>0. HeldInv /\ HwTypeOK
      BY DEF IInv
  <1>1. CASE UNCHANGED <<stage, leaving, held>>
      BY <1>0, <1>1 DEF HeldInv, Loading
  <1>2. CASE Denied
    <2>1. UNCHANGED held /\ stage \in Acquired /\ leaving' = "init"
          /\ stage' = IF stage \in CleanupAfter THEN "stop" ELSE "release"
        BY <1>2 DEF Denied
    <2>2. CASE stage \in RingMemory
      <3>1. BaseResources \subseteq held /\ held \subseteq BaseResources \cup RingMemory
        <4>1. Loading
            BY <1>0 DEF HeldInv
        <4>2. CASE stage \in {"tx_ring", "tx_ring_map", "rx_ring"}
            BY <4>1, <4>2 DEF Loading, RingMemory, TxMemory
        <4>3. CASE stage \in {"rx_ring_map", "rx_buf_ring"}
            BY <4>1, <4>3 DEF Loading, RingMemory, RxMemory
        <4>4. CASE stage = "rx_buf_ring_map"
            BY <4>1, <4>4, NamesApart DEF Loading, RingMemory, RxMemory
        <4> QED
            BY <2>2, <4>2, <4>3, <4>4 DEF RingMemory, TxMemory, RxMemory
      <3>2. "irq" \notin held
          BY <3>1, NamesApart
      <3> QED
          BY <2>1, <2>2, <3>1, <3>2 DEF HeldInv, Loading, CleanupAfter, Stopping
    <2>3. CASE stage \notin RingMemory
      <3>1. held \subseteq BaseResources \/ held = BaseResources \cup RingMemory
          BY <1>0, <2>1, <2>3 DEF HeldInv, Loading, RingMemory, TxMemory, RxMemory, Acquired, After,
             BaseResources, Handles
      <3>2. "irq" \notin held
          BY <3>1, NamesApart
      <3> QED
          BY <2>1, <2>3, <3>1, <3>2 DEF HeldInv, Loading, CleanupAfter, Stopping
    <2> QED
        BY <2>2, <2>3
  <1>3. CASE FindInterface \/ ChooseChannels
    <2>1. held = BaseResources /\ held' = held
        BY <1>0, <1>3 DEF FindInterface, ChooseChannels, HeldInv, Loading
    <2>2. "irq" \notin held
        BY <2>1, NamesApart
    <2> QED
        BY <1>3, <2>1, <2>2 DEF FindInterface, ChooseChannels, FailHWInit, HeldInv, Loading, Stopping
  <1>13. CASE DisableSection \/ EnableSection
    <2>1. held = BaseResources \cup RingMemory /\ held' = held
        BY <1>0, <1>13 DEF DisableSection, EnableSection, HeldInv, Loading
    <2>2. "irq" \notin held
        BY <2>1, NamesApart
    <2> QED
        BY <1>13, <2>1, <2>2 DEF DisableSection, EnableSection, HeldInv, Loading, Stopping
  <1>4. CASE StopChannels
    <2>1. stage = "stop" /\ stage' = "free" /\ UNCHANGED <<leaving, held>>
        BY <1>4 DEF StopChannels
    <2> QED
        BY <1>0, <2>1 DEF HeldInv, Loading, Stopping
  <1>5. CASE FreeRings
    <2>1. /\ stage = "free" /\ stage' = "release" /\ leaving' = leaving
          /\ held' = held \ (RingMemory \cup {"rx_bufs"})
        BY <1>5 DEF FreeRings, Freed
    <2>2. CASE leaving = "expunge"
      <3>1. held \subseteq Resources \ {"irq"} /\ BaseResources \subseteq held
          BY <1>0, <2>1, <2>2 DEF HeldInv, Stopping
      <3>2. /\ held' \subseteq BaseResources \cup {"tx_buf_pending"} /\ BaseResources \subseteq held'
            /\ held' \subseteq Resources \ {"irq"}
          BY <2>1, <3>1, NamesApart
      <3> QED
          BY <2>1, <2>2, <3>2 DEF HeldInv, Loading, Stopping
    <2>3. CASE leaving = "init"
      <3>1. held' \subseteq BaseResources
          BY <1>0, <2>1, <2>3 DEF HeldInv
      <3>2. "irq" \notin held'
          BY <3>1, NamesApart
      <3> QED
          BY <2>1, <2>3, <3>1, <3>2 DEF HeldInv, Loading, Stopping
    <2> QED
        BY <1>0, <2>1, <2>2, <2>3 DEF HeldInv, Stopping
  <1>6. CASE Release
    <2>1. /\ stage = "release" /\ leaving' = leaving /\ held' = held \ BaseResources
          /\ stage' = IF leaving = "init" THEN "failed" ELSE "expunged"
        BY <1>6 DEF Release
    <2>2. CASE leaving = "init"
      <3>1. held' \in {{}, RingMemory}
          BY <1>0, <2>1, <2>2, NamesApart DEF HeldInv
      <3>2. "irq" \notin held'
          BY <3>1, NamesApart
      <3> QED
          BY <2>1, <2>2, <3>1, <3>2 DEF HeldInv, Loading, Stopping
    <2>3. CASE leaving # "init"
      <3>1. leaving = "expunge"
          BY <1>0, <2>1, <2>3 DEF HeldInv, Stopping
      <3>2. held' \subseteq {"tx_buf_pending"}
          BY <1>0, <2>1, <3>1, NamesApart DEF HeldInv, Stopping
      <3>3. "irq" \notin held'
          BY <3>2
      <3> QED
          BY <2>1, <2>3, <3>2, <3>3 DEF HeldInv, Loading, Stopping
    <2> QED
        BY <2>2, <2>3
  <1>7. ASSUME stage = "ready", stage' \in {"ready", "remove_irq"}, held \subseteq held',
               "irq" \in held' => "irq" \in held, stage' = "remove_irq" => leaving' = "expunge"
        PROVE HeldInv'
      BY <1>0, <1>7 DEF HeldInv, Loading, Stopping
  <1>8. CASE RemoveIRQ
    <2>1. /\ stage = "remove_irq" /\ stage' = "stop" /\ leaving' = leaving
          /\ held' = held \ {"irq"}
        BY <1>8 DEF RemoveIRQ
    <2>2. BaseResources \cup RingMemory \subseteq held' /\ held' \subseteq Resources \ {"irq"}
        BY <1>0, <2>1, NamesApart DEF HeldInv, HwTypeOK
    <2> QED
        BY <1>0, <2>1, <2>2 DEF HeldInv, Loading, Stopping
  <1>9. CASE Expunge
      BY <1>7, <1>9 DEF Expunge
  <1>10. ASSUME NEW c \in Clients, Transmit(c) PROVE HeldInv'
    <2>1. stage = "ready"
      <3>1. c \in InCall
          BY <1>10 DEF Transmit, InCall, ClientsIn, ClientStates
      <3> QED
          BY <3>1 DEF IInv, LoadedInv
    <2> QED
        BY <1>7, <1>10, <2>1 DEF Transmit
  <1>11. ASSUME NEW t \in TaskIds, TaskOnline(t) PROVE HeldInv'
    <2>1. stage = "ready" /\ stage' = stage /\ held' \in {held, held \cup {"rx_bufs"}}
        BY <1>11 DEF TaskOnline
    <2> QED
        BY <1>7, <2>1
  <1>12. ASSUME NEW c \in Clients, NEW from \in {"in", "closing"}, CloseTail(c, from) PROVE HeldInv'
    <2>1. stage = "ready"
      <3>1. c \in InCall
          BY <1>12 DEF CloseTail, Move, InCall, ClientsIn, ClientStates
      <3> QED
          BY <3>1 DEF IInv, LoadedInv
    <2> QED
        BY <1>7, <1>12, <2>1 DEF CloseTail
  <1> QED
    <2>1. ASSUME NEW c \in Clients, OpenEnter(c) \/ OpenStep(c) \/ CloseLast(c) PROVE HeldInv'
        BY <1>1, <2>1 DEF OpenEnter, OpenStep, OpenFails, OpenJoins, CreateFails, OpenStarts,
           OpenFinishes, CloseLast, hwVars
    <2>2. ASSUME NEW c \in Clients, Close(c) \/ CloseReturns(c) \/ CloseGivesUp(c) PROVE HeldInv'
        BY <1>12, <2>2 DEF Close, CloseReturns, CloseGivesUp
    <2>3. ASSUME NEW t \in TaskIds, StartStep(t) \/ TaskStep(t) \/ TaskWakes(t) \/ TaskOffline(t)
          PROVE HeldInv'
        BY <1>1, <2>3 DEF StartStep, TaskUp, TaskFails, TaskStep, TaskTop, TaskStop, TaskTurn,
           TaskLeaves, TaskGone, TaskWakes, TaskOffline, hwVars
    <2>4. CASE Defer \/ UNCHANGED vars
        BY <1>1, <2>4 DEF Defer, vars, hwVars
    <2> QED
        BY <1>0, <1>2, <1>3, <1>4, <1>5, <1>6, <1>8, <1>9, <1>10, <1>11, <1>13, <2>1, <2>2, <2>3, <2>4,
           ObtainHeld DEF Next, HwNext

\* Before the device is loaded the engine does nothing for it.
LEMMA Idle ==
  ASSUME EngineInv, stage \in LoadStages
  PROVE  dma = {} /\ late = {} /\ leaving # "init" /\ stage \notin {"ready", "remove_irq"}
  <1>1. stage \notin Stopping \cup {"failed", "ready", "remove_irq"}
      BY DEF Stopping, LoadStages, Acquired, After
  <1> QED
      BY <1>1 DEF EngineInv

LEMMA EngineStep == ASSUME IInv, [Next]_vars PROVE EngineInv'
  <1>0. EngineInv /\ HwTypeOK
      BY DEF IInv
  <1>1. CASE UNCHANGED hwVars
      BY <1>0, <1>1 DEF EngineInv, hwVars
  <1>2. CASE Obtain \/ FindInterface \/ ChooseChannels \/ Denied
             \/ DisableSection \/ EnableSection
    <2>0. stage \in LoadStages
        BY <1>2 DEF Obtain, FindInterface, ChooseChannels, Denied, DisableSection, EnableSection,
           LoadStages
    <2>1. dma = {} /\ late = {} /\ leaving # "init"
        BY <1>0, <2>0, Idle
    <2>2. UNCHANGED <<dma, late>> /\ (leaving' = "init" => stage' \in Stopping)
        BY <1>2, <2>1 DEF Obtain, FindInterface, ChooseChannels, Denied, FailHWInit,
           DisableSection, EnableSection, Stopping
    <2> QED
        BY <2>1, <2>2 DEF EngineInv
  <1>3. CASE StopChannels
    <2>1. /\ stage = "stop" /\ stage' = "free" /\ leaving' = leaving /\ late = {}
          /\ dma \subseteq Stops
        BY <1>0, <1>3 DEF StopChannels, EngineInv, HwTypeOK, Stops
    <2>2. PICK timedOut \in SUBSET (dma \cap Stops) :
            late' = late \cup timedOut /\ dma' = dma \ (Stops \ timedOut)
        BY <1>3 DEF StopChannels
    <2>3. dma' \subseteq late' /\ (dma = {} => dma' = {})
        BY <2>1, <2>2
    <2>4. stage' \notin LoadStages
        BY <2>1 DEF LoadStages, Acquired, After
    <2> QED
        BY <1>0, <2>1, <2>3, <2>4 DEF EngineInv, Stopping
  <1>4. CASE FreeRings \/ Release
    <2>1. /\ dma \subseteq late /\ UNCHANGED <<dma, late, leaving>>
          /\ stage' \in {"release", "failed", "expunged"}
          /\ leaving = "init" => stage' \in {"release", "failed"}
        BY <1>0, <1>4 DEF FreeRings, Release, EngineInv
    <2>2. stage' \notin LoadStages
        BY <2>1 DEF LoadStages, Acquired, After
    <2> QED
        BY <1>0, <2>1, <2>2 DEF EngineInv, Stopping
  <1>5. stage = "ready" => leaving # "init" /\ late = {}
      BY <1>0 DEF EngineInv, Stopping
  <1>6. ASSUME stage = "ready", stage' \in {"ready", "remove_irq"}, leaving' \in {leaving, "expunge"},
               late' = late, held \subseteq held', dma' \subseteq {"tx", "rx"},
               "tx" \in dma' \ dma => "tx_buf_pending" \in held',
               "rx" \in dma' \ dma => "rx_bufs" \in held'
        PROVE EngineInv'
    <2>1. stage' \notin LoadStages
        BY <1>6 DEF LoadStages, Acquired, After
    <2> QED
        BY <1>0, <1>5, <1>6, <2>1 DEF EngineInv
  <1>7. CASE RemoveIRQ
    <2>1. /\ stage = "remove_irq" /\ stage' = "stop" /\ held' = held \ {"irq"}
          /\ UNCHANGED <<dma, late, leaving>>
        BY <1>7 DEF RemoveIRQ
    <2>2. stage' \notin LoadStages
        BY <2>1 DEF LoadStages, Acquired, After
    <2> QED
        BY <1>0, <2>1, <2>2 DEF EngineInv, Stopping
  <1>8. CASE Expunge
      BY <1>0, <1>6, <1>8 DEF Expunge, HwTypeOK
  <1>9. ASSUME NEW c \in Clients, client[c] # "out" PROVE stage = "ready"
    <2>1. c \in InCall
        BY <1>9 DEF IInv, ThreadTypes, InCall, ClientsIn
    <2> QED
        BY <2>1 DEF IInv, LoadedInv
  <1>10. ASSUME NEW c \in Clients, Transmit(c) PROVE EngineInv'
      BY <1>0, <1>6, <1>9, <1>10 DEF Transmit, HwTypeOK
  <1>11. ASSUME NEW t \in TaskIds, TaskOnline(t) PROVE EngineInv'
      BY <1>0, <1>6, <1>11 DEF TaskOnline, HwTypeOK
  <1>12. ASSUME NEW c \in Clients, NEW from \in {"in", "closing"}, CloseTail(c, from)
         PROVE EngineInv'
      BY <1>0, <1>6, <1>9, <1>12 DEF CloseTail, Move, HwTypeOK
  <1> QED
    <2>1. ASSUME NEW c \in Clients, OpenEnter(c) \/ OpenStep(c) \/ CloseLast(c) PROVE EngineInv'
        BY <1>1, <2>1 DEF OpenEnter, OpenStep, OpenFails, OpenJoins, CreateFails, OpenStarts,
           OpenFinishes, CloseLast
    <2>2. ASSUME NEW c \in Clients, Close(c) \/ CloseReturns(c) \/ CloseGivesUp(c) PROVE EngineInv'
        BY <1>12, <2>2 DEF Close, CloseReturns, CloseGivesUp
    <2>3. ASSUME NEW t \in TaskIds, StartStep(t) \/ TaskStep(t) \/ TaskWakes(t) \/ TaskOffline(t)
          PROVE EngineInv'
        BY <1>1, <2>3 DEF StartStep, TaskUp, TaskFails, TaskStep, TaskTop, TaskStop, TaskTurn,
           TaskLeaves, TaskGone, TaskWakes, TaskOffline
    <2>4. CASE Defer \/ UNCHANGED vars
        BY <1>1, <2>4 DEF Defer, vars
    <2> QED
        BY <1>2, <1>3, <1>4, <1>7, <1>8, <1>10, <1>11, <2>1, <2>2, <2>3, <2>4 DEF Next, HwNext

LEMMA ChannelStep == ASSUME IInv, [Next]_vars PROVE ChannelInv'
  <1>0. ChannelInv
      BY DEF IInv
  <1> DEFINE Ours == RingMemory \cup {"tx_channel", "rx_channel", "irq", "ready", "remove_irq"}
  <1>1. ASSUME UNCHANGED <<channel_num, foreign>>, stage' \in Ours => stage \in Ours
        PROVE ChannelInv'
      BY <1>0, <1>1 DEF ChannelInv, Busy
  <1>2. CASE ChooseChannels
      BY <1>2 DEF ChooseChannels, FailHWInit, ChannelInv, Busy, RingMemory, TxMemory, RxMemory
  <1>3. CASE Obtain
    <2>1. stage \in Acquired /\ stage' = After[stage]
        BY <1>3 DEF Obtain
    <2>2. \A s \in Acquired : After[s] \in Ours => s \in Ours
        BY DEF After, Acquired, RingMemory, TxMemory, RxMemory
    <2> QED
        BY <1>1, <1>3, <2>1, <2>2 DEF Obtain
  <1>12. CASE DisableSection \/ EnableSection
      BY <1>1, <1>12 DEF DisableSection, EnableSection
  <1>4. CASE Denied \/ FindInterface \/ StopChannels \/ FreeRings \/ Release
    <2>1. stage' \in {"stop", "release", "channels", "free", "failed", "expunged"}
          /\ UNCHANGED <<channel_num, foreign>>
        BY <1>4 DEF Denied, FindInterface, FailHWInit, StopChannels, FreeRings, Release
    <2> QED
        BY <1>1, <2>1 DEF RingMemory, TxMemory, RxMemory
  <1>5. ASSUME UNCHANGED <<channel_num, foreign>>, stage' = stage \/ stage = "ready"
        PROVE ChannelInv'
      BY <1>1, <1>5
  <1>6. CASE Expunge \/ Defer \/ UNCHANGED vars
      BY <1>5, <1>6 DEF Expunge, Defer, vars, hwVars
  <1>7. CASE RemoveIRQ
      BY <1>1, <1>7 DEF RemoveIRQ, RingMemory, TxMemory, RxMemory
  <1>8. ASSUME NEW c \in Clients, OpenEnter(c) \/ OpenStep(c) \/ CloseLast(c) \/ Transmit(c)
        PROVE ChannelInv'
      BY <1>5, <1>8 DEF OpenEnter, OpenStep, OpenFails, OpenJoins, CreateFails, OpenStarts,
         OpenFinishes, CloseLast, Transmit, hwVars
  <1>9. ASSUME NEW c \in Clients, NEW from \in {"in", "closing"}, CloseTail(c, from)
        PROVE ChannelInv'
    <2>1. c \in InCall
        BY <1>9 DEF CloseTail, Move, InCall, ClientsIn, ClientStates
    <2>2. stage = "ready"
        BY <2>1 DEF IInv, LoadedInv
    <2> QED
        BY <1>5, <1>9, <2>2 DEF CloseTail
  <1>10. ASSUME NEW c \in Clients, Close(c) \/ CloseReturns(c) \/ CloseGivesUp(c)
         PROVE ChannelInv'
      BY <1>9, <1>10 DEF Close, CloseReturns, CloseGivesUp
  <1>11. ASSUME NEW t \in TaskIds,
                StartStep(t) \/ TaskStep(t) \/ TaskWakes(t) \/ TaskOnline(t) \/ TaskOffline(t)
         PROVE ChannelInv'
      BY <1>5, <1>11 DEF StartStep, TaskUp, TaskFails, TaskStep, TaskTop, TaskStop, TaskTurn,
         TaskLeaves, TaskGone, TaskWakes, TaskOnline, TaskOffline, hwVars
  <1> QED
      BY <1>2, <1>3, <1>4, <1>6, <1>7, <1>8, <1>10, <1>11, <1>12 DEF Next, HwNext

-----------------------------------------------------------------------------
(* The invariant, and what it says.                                         *)

\* The inductive invariant: it holds at first, and every step keeps it.
THEOREM Invariance == Spec => []IInv
  <1>1. Init => IInv
      BY InitInv
  <1>2. ASSUME IInv, [Next]_vars PROVE IInv'
    <2>1. HwTypeOK' /\ LifeTypes' /\ ThreadTypes'
        BY <1>2, HwTypeStep, LifeTypeStep, ThreadTypeStep
    <2>2. CountInv' /\ LoadedInv' /\ MsgInv' /\ WaiterInv'
        BY <1>2, CountStep, LoadedStep, MsgStep, WaiterStep
    <2>3. ~accident' => SingleInv' /\ PointerInv' /\ UseInv'
        BY <1>2, <2>2, UsersStep DEF UsersInv
    <2>4. HeldInv' /\ EngineInv' /\ ChannelInv'
        BY <1>2, HeldStep, EngineStep, ChannelStep
    <2> QED
        BY <2>1, <2>2, <2>3, <2>4 DEF IInv
  <1> QED
      BY <1>1, <1>2, PTL DEF Spec

\* The state keeps its types; the open counts never go below zero.
THEOREM TypeCorrect == Spec => []TypeOK
  <1>1. ASSUME IInv PROVE TypeOK
    <2>1. lib_OpenCnt \in Nat /\ open_count \in Nat
      <3>1. InCall \subseteq Clients /\ opener_list \subseteq Clients
          BY <1>1 DEF InCall, ClientsIn, IInv, CountInv
      <3>2. IsFiniteSet(InCall) /\ IsFiniteSet(opener_list)
          BY <3>1, LifeAssumption, FS_Subset
      <3> QED
          BY <1>1, <3>2, FS_CardinalityType DEF IInv, CountInv
    <2>2. opener_list \subseteq Clients
        BY <1>1 DEF IInv, CountInv, ClientsIn
    <2> QED
        BY <1>1, <2>1, <2>2 DEF IInv, TypeOK, LifeTypes, ThreadTypes
  <1> QED
      BY <1>1, Invariance, PTL

\* lib_OpenCnt and open_count count what they should (Open.c, Close.c).
THEOREM CountsRight == Spec => []CountsAgree
  <1>1. IInv => CountsAgree
      BY DEF IInv, CountInv, InCall, CountsAgree
  <1> QED
      BY <1>1, Invariance, PTL

\* UnitTaskBody uses the start message only while UnitTask_Start waits.
THEOREM ParentWaits == Spec => []StartMsgAlive
  <1>1. IInv => StartMsgAlive
      BY DEF IInv, MsgInv, StartMsgAlive
  <1> QED
      BY <1>1, Invariance, PTL

\* PA6TEth_InterruptHandler never signals a task that is gone.
THEOREM HandlerSafe == Spec => []HandlerSignalsLiveTask
  <1>1. IInv => HandlerSignalsLiveTask
      BY DEF IInv, LifeTypes, WaiterInv, HandlerSignalsLiveTask, Alive, Looping
  <1> QED
      BY <1>1, Invariance, PTL

\* Without an accident the unit has one task while it is open, and none after.
THEOREM OneTask == Spec => []OneTaskPerOpenUnit
  <1>1. ASSUME IInv, ~accident PROVE Cardinality(Alive) <= 1
    <2>1. CASE Alive = {}
        BY <2>1, FS_EmptySet
    <2>2. CASE Alive # {}
      <3>1. PICK t \in Alive : Alive = {t}
          BY <1>1, <2>2 DEF IInv, SingleInv
      <3>2. Cardinality({t}) = 1
          BY FS_Singleton
      <3> QED
          BY <3>1, <3>2
    <2> QED
        BY <2>1, <2>2
  <1>2. ASSUME IInv, ~accident, ClientsIn({"in"}) # {}
        PROVE \E t \in Alive : /\ tasks[t] \in Looping
                               /\ unit_task = t /\ io_port = t /\ irq_wait_task = t
                               /\ ~task_shutdown
    <2>1. PICK c \in Clients : client[c] = "in"
        BY <1>2 DEF ClientsIn
    <2>2. PICK t \in Alive : tasks[t] \in Looping \cup {"new"} /\ ~task_shutdown
        BY <1>2, <2>1 DEF IInv, UseInv, Wanted
    <2>3. t \in TaskIds /\ tasks[t] # "new"
      <3>1. t \in TaskIds
          BY DEF Alive
      <3>2. ASSUME tasks[t] = "new" PROVE FALSE
        <4>1. PICK d \in Clients : <<t, d>> \in startMsg
            BY <1>2, <3>1, <3>2 DEF IInv, MsgInv
        <4>2. client[d] = "starting"
            BY <1>2, <3>1, <4>1 DEF IInv, MsgInv
        <4> QED
            BY <1>2, <2>1, <4>2 DEF IInv, SingleInv
      <3> QED
          BY <3>1, <3>2
    <2>4. unit_task = t /\ io_port = t /\ irq_wait_task = t
        BY <1>2, <2>2, <2>3 DEF IInv, PointerInv, Looping
    <2> QED
        BY <2>2, <2>3, <2>4
  <1>3. ASSUME IInv, ~accident, ClientsIn({"out"}) = Clients
        PROVE Alive = {} /\ unit_task = NoTask
    <2>1. \A c \in Clients : client[c] = "out"
        BY <1>3 DEF ClientsIn
    <2> QED
        BY <1>3, <2>1 DEF IInv, UseInv, PointerInv
  <1>4. IInv => OneTaskPerOpenUnit
      BY <1>1, <1>2, <1>3 DEF OneTaskPerOpenUnit
  <1> QED
      BY <1>4, Invariance, PTL

\* HWCleanup frees memory only when the engine does not use it, or is late.
THEOREM EngineSafe == Spec => []EngineMemoryHeld
  <1>1. ASSUME IInv, NEW way \in dma \ late PROVE MemoryOf(way) \subseteq held
    <2>1. stage \in {"ready", "remove_irq", "stop"} /\ way \in {"tx", "rx"}
        BY <1>1 DEF IInv, EngineInv, HwTypeOK
    <2>2. RingMemory \subseteq held
      <3>1. CASE stage = "stop"
        <4>1. leaving = "expunge"
            BY <1>1, <3>1 DEF IInv, HeldInv, EngineInv, Stopping
        <4> QED
            BY <1>1, <3>1, <4>1 DEF IInv, HeldInv, Stopping
      <3>2. CASE stage \in {"ready", "remove_irq"}
          BY <1>1, <3>2 DEF IInv, HeldInv
      <3> QED
          BY <2>1, <3>1, <3>2
    <2>3. (way = "tx" => "tx_buf_pending" \in held) /\ (way = "rx" => "rx_bufs" \in held)
        BY <1>1, <2>1 DEF IInv, EngineInv
    <2> QED
        BY <2>1, <2>2, <2>3 DEF MemoryOf, RingMemory
  <1>2. IInv => EngineMemoryHeld
      BY <1>1 DEF EngineMemoryHeld
  <1> QED
      BY <1>2, Invariance, PTL

\* What a failed or unloaded device leaves: nothing but the two known leaks.
THEOREM Released == Spec => []NothingLeftBehind
  <1>1. IInv => NothingLeftBehind
      BY DEF IInv, HeldInv, NothingLeftBehind
  <1> QED
      BY <1>1, Invariance, PTL

\* The unit and the PCI handles outlive those who use them.
THEOREM UnitOutlives == Spec => []UnitOutlivesUsers
  <1>1. ASSUME IInv PROVE UnitOutlivesUsers
    <2>1. CASE stage \in {"ready", "remove_irq", "stop"} /\ leaving # "init"
      <3>1. BaseResources \subseteq held
          BY <1>1, <2>1 DEF IInv, HeldInv, Stopping
      <3> QED
          BY <3>1 DEF BaseResources, UnitOutlivesUsers
    <2>2. CASE ~(stage \in {"ready", "remove_irq", "stop"} /\ leaving # "init")
      <3>0. leaving = "init" => stage \in {"stop", "free", "release", "remove_irq", "failed"}
          BY <1>1 DEF IInv, EngineInv, Stopping
      <3>1. stage # "ready" /\ dma \subseteq late /\ "irq" \notin held
        <4>1. stage \notin {"ready", "remove_irq"}
          <5>1. stage = "remove_irq" => leaving # "init"
              BY <1>1 DEF IInv, HeldInv
          <5> QED
              BY <2>2, <3>0, <5>1
        <4>2. dma \subseteq late
          <5>1. CASE stage = "stop"
            <6>1. dma = {}
                BY <1>1, <2>2, <5>1 DEF IInv, EngineInv
            <6> QED
                BY <6>1
          <5>2. CASE stage # "stop"
              BY <1>1, <4>1, <5>2 DEF IInv, EngineInv
          <5> QED
              BY <5>1, <5>2
        <4>3. "irq" \notin held
            BY <1>1, <4>1 DEF IInv, HeldInv
        <4> QED
            BY <4>1, <4>2, <4>3
      <3>2. ClientsIn({"out"}) = Clients
        <4>1. \A c \in Clients : c \notin InCall
            BY <1>1, <3>1 DEF IInv, LoadedInv
        <4> QED
            BY <1>1, <4>1 DEF IInv, ThreadTypes, InCall, ClientsIn
      <3>3. accident \/ Alive = {}
          BY <1>1, <3>2 DEF IInv, UseInv, ClientsIn
      <3> QED
          BY <3>1, <3>2, <3>3 DEF UnitOutlivesUsers
    <2> QED
        BY <2>1, <2>2
  <1> QED
      BY <1>1, Invariance, PTL

-----------------------------------------------------------------------------
(* Lifecycle implements DeviceLife.                                         *)

DeviceStep == [Device!Next]_(Device!vars)

LEMMA DeviceStutters ==
  ASSUME UNCHANGED <<stage, leaving, client, delexp>>
  PROVE  DeviceStep
  BY DEF DeviceStep, Device!vars, Mode, User

\* A client that moves is seen to move, but for its wait for the new task.
LEMMA UserMoves ==
  ASSUME ThreadTypes, NEW c \in Clients, NEW from, NEW to \in ClientStates, Move(c, from, to)
  PROVE  User[c] = Seen(from) /\ User' = [User EXCEPT ![c] = Seen(to)]
  <1>1. User[c] = Seen(from)
      BY DEF User, Move
  <1>2. \A d \in Clients : User'[d] = IF d = c THEN Seen(to) ELSE User[d]
      BY MoveClients DEF User
  <1>3. User' = [d \in Clients |-> User'[d]] /\ DOMAIN User = Clients
      BY DEF User
  <1> QED
      BY <1>1, <1>2, <1>3

\* Nobody has the device open or is calling it.
LEMMA UsersOut ==
  ASSUME ThreadTypes
  PROVE  Device!AllOut <=> InCall = {}
  BY DEF ThreadTypes, Device!AllOut, User, Seen, InCall, ClientsIn, ClientStates

\* Init.c and Expunge.c: loading and unloading, whose stages nobody sees.
LEMMA DeviceLoads ==
  ASSUME IInv, HwNext \/ RemoveIRQ, UNCHANGED lifeVars
  PROVE  DeviceStep
  <1>1. User' = User /\ delexp' = delexp
      BY DEF User, lifeVars, counts
  <1>2. CASE Obtain \/ Denied \/ FindInterface \/ ChooseChannels
             \/ DisableSection \/ EnableSection
    <2>1. stage \in LoadStages
        BY <1>2 DEF Obtain, Denied, FindInterface, ChooseChannels, DisableSection, EnableSection,
           LoadStages
    <2>2. Mode = "loading"
        BY <2>1 DEF Mode, LoadStages, Acquired, After
    <2>3. \/ stage' \in LoadStages \cup {"ready"}
          \/ stage' \in {"stop", "release"} /\ leaving' = "init"
      <3>1. CASE Obtain
        <4>1. stage \in Acquired /\ stage' = After[stage]
            BY <3>1 DEF Obtain
        <4>2. \A s \in Acquired : After[s] \in LoadStages \cup {"ready"}
            BY DEF LoadStages, Acquired, After
        <4> QED
            BY <4>1, <4>2
      <3>2. CASE Denied \/ FindInterface \/ ChooseChannels \/ DisableSection \/ EnableSection
          BY <3>2 DEF Denied, FindInterface, ChooseChannels, FailHWInit, DisableSection,
             EnableSection, LoadStages, Acquired, After
      <3> QED
          BY <1>2, <3>1, <3>2
    <2>4. Mode' \in {"loading", "loaded"}
        BY <2>3 DEF Mode, LoadStages, Acquired, After
    <2> QED
        BY <1>1, <2>2, <2>4 DEF DeviceStep, Device!Next, Device!Load, Device!vars
  <1>3. CASE StopChannels \/ FreeRings \/ RemoveIRQ
    <2>1. Mode' = Mode
        BY <1>3 DEF IInv, HeldInv, StopChannels, FreeRings, RemoveIRQ, Mode
    <2> QED
        BY <1>1, <2>1 DEF DeviceStep, Device!vars
  <1>4. CASE Release
    <2>1. leaving \in {"init", "expunge"}
        BY <1>4 DEF IInv, HeldInv, Stopping, Release
    <2>2. \/ Mode = "loading" /\ Mode' = "failed"
          \/ Mode = "unloading" /\ Mode' = "gone"
        BY <1>4, <2>1 DEF Release, Mode
    <2> QED
        BY <1>1, <2>2 DEF DeviceStep, Device!Next, Device!Load, Device!Vanish
  <1> QED
      BY <1>2, <1>3, <1>4 DEF HwNext

\* Open.c: a client comes in, and may fail anywhere on the way.
LEMMA DeviceOpens ==
  ASSUME IInv, NEW c \in Clients, OpenEnter(c) \/ OpenStep(c)
  PROVE  DeviceStep
  <1>0. ThreadTypes
      BY DEF IInv
  <1>1. Mode' = Mode
      BY DEF OpenEnter, OpenStep, OpenFails, OpenJoins, CreateFails, OpenStarts, OpenFinishes,
         hwVars, Mode
  <1>2. CASE OpenEnter(c)
    <2>1. User[c] = "out" /\ User' = [User EXCEPT ![c] = "opening"]
        BY <1>0, <1>2, UserMoves DEF OpenEnter, ClientStates, Seen
    <2>2. Device!Open(c)
        BY <1>1, <1>2, <2>1 DEF Device!Open, OpenEnter, Mode
    <2> QED
        BY <2>2 DEF DeviceStep, Device!Next
  <1>3. ASSUME NEW from \in {"opening", "starting"}, FailOpen(c, from), UNCHANGED delexp
        PROVE DeviceStep
    <2>1. User[c] = "opening" /\ User' = [User EXCEPT ![c] = "out"]
        BY <1>0, <1>3, UserMoves DEF FailOpen, ClientStates, Seen
    <2>2. Device!Fail(c)
        BY <1>1, <1>3, <2>1 DEF Device!Fail
    <2> QED
        BY <2>2 DEF DeviceStep, Device!Next
  <1>4. ASSUME NEW from \in {"opening", "starting"}, Registered(c, from)
        PROVE DeviceStep
    <2>1. User[c] = "opening" /\ User' = [User EXCEPT ![c] = "in"]
        BY <1>0, <1>4, UserMoves DEF Registered, ClientStates, Seen
    <2>2. Device!Succeed(c)
        BY <1>1, <1>4, <2>1 DEF Device!Succeed, Registered
    <2> QED
        BY <2>2 DEF DeviceStep, Device!Next
  <1>5. CASE OpenStarts(c)
    <2>1. User[c] = "opening" /\ User' = [User EXCEPT ![c] = "opening"]
        BY <1>0, <1>5, UserMoves DEF OpenStarts, ClientStates, Seen
    <2>2. User' = User /\ delexp' = delexp
        BY <1>5, <2>1 DEF OpenStarts, counts, User
    <2> QED
        BY <1>1, <2>2 DEF DeviceStep, Device!vars
  <1> QED
      BY <1>2, <1>3, <1>4, <1>5 DEF OpenStep, OpenFails, OpenJoins, CreateFails, OpenFinishes

\* What every close ends with (Close.c:58-66): the client is out, and with the
\* last one the device goes if that has been asked for.
LEMMA DeviceLeft ==
  ASSUME IInv, NEW c \in Clients, NEW from \in {"in", "closing"}, CloseTail(c, from)
  PROVE  DeviceStep
  <1>0. ThreadTypes /\ CountInv /\ Move(c, from, "out") /\ from # "out"
      BY DEF IInv, CloseTail
  <1>1. User[c] \in {"in", "closing"} /\ User' = [User EXCEPT ![c] = "out"]
      BY <1>0, UserMoves DEF ClientStates, Seen
  <1>2. stage = "ready"
    <2>1. c \in InCall
        BY <1>0 DEF Move, InCall, ClientsIn, ClientStates
    <2> QED
        BY <2>1 DEF IInv, LoadedInv
  <1>3. LastToGo <=> Device!AllOut'
    <2>1. InCall' = InCall \ {c} /\ Cardinality(InCall') = Cardinality(InCall) - 1
          /\ Cardinality(InCall') \in Nat
        BY <1>0, CallsCounted DEF ClientStates
    <2>2. IsFiniteSet(InCall')
        BY <1>0, <2>1, ClientsMoved, FS_RemoveElement DEF InCall, ClientStates
    <2>3. LastToGo <=> InCall' = {}
      <3>1. LastToGo <=> Cardinality(InCall') = 0
          BY <1>0, <2>1 DEF LastToGo, CountInv
      <3> QED
          BY <2>2, <3>1, FS_EmptySet
    <2>4. client' \in [Clients -> ClientStates]
        BY <1>0, MoveClients DEF ClientStates
    <2>5. Device!AllOut' <=> InCall' = {}
        BY <2>4 DEF Device!AllOut, User, Seen, InCall, ClientsIn, ClientStates
    <2> QED
        BY <2>3, <2>5
  <1>4. Mode = "loaded"
        /\ Mode' = IF delexp /\ Device!AllOut' THEN "unloading" ELSE "loaded"
      BY <1>2, <1>3 DEF CloseTail, Mode
  <1>5. delexp' = delexp
      BY DEF CloseTail
  <1>6. Device!Leave(c)
      BY <1>1, <1>4, <1>5 DEF Device!Leave
  <1> QED
      BY <1>6 DEF DeviceStep, Device!Next

\* Close.c and Expunge.c.
LEMMA DeviceCloses ==
  ASSUME IInv, NEW c \in Clients,
         Close(c) \/ CloseLast(c) \/ CloseReturns(c) \/ CloseGivesUp(c)
  PROVE  DeviceStep
  <1>0. ThreadTypes
      BY DEF IInv
  <1>1. CASE CloseLast(c)
    <2>1. User[c] = "in" /\ User' = [User EXCEPT ![c] = "closing"]
        BY <1>0, <1>1, UserMoves DEF CloseLast, ClientStates, Seen
    <2>2. Mode' = Mode /\ delexp' = delexp
        BY <1>1 DEF CloseLast, hwVars, Mode
    <2>3. Device!Close(c)
        BY <2>1, <2>2 DEF Device!Close
    <2> QED
        BY <2>3 DEF DeviceStep, Device!Next
  <1> QED
      BY <1>1, DeviceLeft DEF Close, CloseReturns, CloseGivesUp

LEMMA DeviceAsked ==
  ASSUME IInv, Defer \/ Expunge
  PROVE  DeviceStep
  <1>0. ThreadTypes /\ CountInv
      BY DEF IInv
  <1>1. User' = User
      BY DEF Defer, Expunge, lifeVars, User
  <1>2. lib_OpenCnt = 0 <=> Device!AllOut
    <2>1. InCall \subseteq Clients
        BY DEF InCall, ClientsIn
    <2>2. IsFiniteSet(InCall)
        BY <2>1, LifeAssumption, FS_Subset
    <2> QED
        BY <1>0, <2>2, UsersOut, FS_EmptySet DEF CountInv
  <1>3. CASE Defer
    <2>1. Mode = "loaded" /\ Mode' = Mode
        BY <1>3 DEF Defer, hwVars, Mode
    <2>2. Device!Ask
        BY <1>1, <1>2, <1>3, <2>1 DEF Device!Ask, Defer
    <2> QED
        BY <2>2 DEF DeviceStep, Device!Next
  <1>4. CASE Expunge
    <2>1. Mode = "loaded" /\ Mode' = "unloading"
        BY <1>4 DEF Expunge, Mode
    <2>2. Device!Unload
        BY <1>1, <1>2, <1>4, <2>1 DEF Device!Unload, Expunge, lifeVars, counts
    <2> QED
        BY <2>2 DEF DeviceStep, Device!Next
  <1> QED
      BY <1>3, <1>4

\* The device goes away only when nobody has it open or is calling it, and a
\* request to go that came too early is kept until an open succeeds, or
\* honoured by the close that leaves the device unused (Open.c, Close.c,
\* Expunge.c): for any number of clients, whatever overlaps.
THEOREM PromiseHeld == Spec => PromiseKept
  <1>1. Init => Device!Init
    <2>1. Init => Mode = "loading"
        BY DEF Init, HwInit, Mode
    <2>2. Init => User = [c \in Clients |-> "out"]
        BY DEF Init, User, Seen
    <2> QED
        BY <2>1, <2>2 DEF Init, Device!Init
  <1>2. ASSUME IInv, [Next]_vars PROVE DeviceStep
    <2>1. ASSUME NEW c \in Clients, Transmit(c) PROVE DeviceStep
        BY <2>1, DeviceStutters DEF Transmit, lifeVars, counts
    <2>2. ASSUME NEW t \in TaskIds,
                 StartStep(t) \/ TaskStep(t) \/ TaskWakes(t) \/ TaskOnline(t) \/ TaskOffline(t)
          PROVE DeviceStep
        BY <2>2, DeviceStutters DEF StartStep, TaskUp, TaskFails, TaskStep, TaskTop, TaskStop,
           TaskTurn, TaskLeaves, TaskGone, TaskWakes, TaskOnline, TaskOffline, hwVars, counts
    <2>3. CASE UNCHANGED vars
        BY <2>3, DeviceStutters DEF vars, hwVars, lifeVars, counts
    <2>4. CASE HwNext /\ UNCHANGED lifeVars
        BY <1>2, <2>4, DeviceLoads
    <2>5. CASE RemoveIRQ
        BY <1>2, <2>5, DeviceLoads DEF RemoveIRQ
    <2> QED
        BY <1>2, <2>1, <2>2, <2>3, <2>4, <2>5, DeviceOpens, DeviceCloses, DeviceAsked DEF Next
  <1>3. IInv /\ [Next]_vars => [Device!Next]_(Device!vars)
      BY <1>2 DEF DeviceStep
  <1> QED
      BY <1>1, <1>3, Invariance, PTL DEF Spec, PromiseKept, Device!Spec

-----------------------------------------------------------------------------
(* What others lose.                                                        *)

\* The inductive form: nobody's channel is stopped before the stop, and the
\* channels of a device that was loaded are still its own when it is unloaded.
OthersInv ==
  /\ OthersKeepChannels
  /\ stopped # {} => stage \in {"free", "release", "failed"}
  /\ stage = "stop" /\ leaving = "expunge" => channel_num = 1 /\ ~Busy

LEMMA OthersKept ==
  ASSUME OthersInv, UNCHANGED <<stopped, halted, channel_num, foreign>>,
         stopped # {} => leaving' = leaving /\ stage' \in {"free", "release", "failed"},
         halted # {} => stage' = stage,
         stage' = "stop" /\ leaving' = "expunge" => channel_num = 1 /\ ~Busy
  PROVE  OthersInv'
  BY DEF OthersInv, OthersKeepChannels, Busy

LEMMA OthersStep == ASSUME IInv, OthersInv, [Next]_vars PROVE OthersInv'
  <1>1. CASE StopChannels
    <2>1. /\ stage = "stop" /\ stage' = "free" /\ leaving \in {"init", "expunge"}
          /\ UNCHANGED <<leaving, channel_num, foreign>>
          /\ stopped' = stopped \cup (foreign \cap OurChannels) /\ halted' = halted
        BY <1>1 DEF StopChannels, IInv, HeldInv, Stopping
    <2>2. stopped = {} /\ halted = {}
        BY <2>1 DEF OthersInv, OthersKeepChannels
    <2>3. channel_num = 1 /\ ~Busy => foreign \cap OurChannels = {}
        BY DEF Busy, OurChannels
    <2>4. stopped' # {} => leaving = "init" /\ (channel_num = 0 \/ Busy)
        BY <2>1, <2>2, <2>3 DEF OthersInv, IInv, HwTypeOK
    <2>5. Busy' = Busy
        BY <2>1 DEF Busy
    <2> QED
        BY <2>1, <2>2, <2>4, <2>5 DEF OthersInv, OthersKeepChannels, Busy
  <1>2. CASE Obtain \/ Denied \/ FindInterface \/ ChooseChannels
    <2>1. stage \in LoadStages \ {"rx_channel"} /\ stopped' = stopped /\ halted' = halted
        BY <1>2 DEF Obtain, Denied, FindInterface, ChooseChannels, LoadStages, Acquired, After
    <2>2. stopped = {} /\ halted = {}
        BY <2>1 DEF OthersInv, OthersKeepChannels, LoadStages, Acquired, After
    <2>3. stage' = "stop" => leaving' = "init"
      <3>1. \A s \in Acquired : After[s] # "stop"
          BY DEF Acquired, After
      <3> QED
          BY <1>2, <3>1 DEF Obtain, Denied, FindInterface, ChooseChannels, FailHWInit
    <2> QED
        BY <2>1, <2>2, <2>3 DEF OthersInv, OthersKeepChannels
  <1>13. CASE DisableSection \/ EnableSection
    <2>1. channel_num = 1 /\ ~Busy /\ stopped = {}
        BY <1>13 DEF DisableSection, EnableSection, IInv, ChannelInv, OthersInv
    <2>2. foreign \cap OurChannels = {}
        BY <2>1 DEF Busy, OurChannels
    <2>3. stopped' = {} /\ stage' \in {"rx_channel", "irq"}
          /\ (halted' # {} => halted' \subseteq Receiving /\ stage' = "rx_channel")
        BY <1>13, <2>1, <2>2 DEF DisableSection, EnableSection
    <2> QED
        BY <2>3 DEF OthersInv, OthersKeepChannels, Receiving
  <1>3. CASE FreeRings \/ Release
    <2>1. /\ UNCHANGED <<stopped, halted, channel_num, foreign, leaving>> /\ stage' # "stop"
          /\ halted = {}
        BY <1>3 DEF FreeRings, Release, OthersInv, OthersKeepChannels
    <2>2. stopped # {} => leaving = "init"
        BY DEF OthersInv, OthersKeepChannels
    <2>3. stopped # {} => stage' \in {"free", "release", "failed"}
        BY <1>3, <2>2 DEF FreeRings, Release
    <2> QED
        BY <2>1, <2>3, OthersKept
  <1>4. CASE RemoveIRQ
    <2>1. channel_num = 1 /\ ~Busy /\ stopped = {} /\ halted = {}
        BY <1>4 DEF RemoveIRQ, IInv, ChannelInv, OthersInv, OthersKeepChannels
    <2> QED
        BY <1>4, <2>1, OthersKept DEF RemoveIRQ
  <1>5. ASSUME stage = "ready", stage' \in {"ready", "remove_irq"},
               UNCHANGED <<stopped, halted, channel_num, foreign>>
        PROVE  OthersInv'
      BY <1>5, OthersKept DEF OthersInv, OthersKeepChannels
  <1>6. ASSUME UNCHANGED <<stage, leaving, stopped, halted, channel_num, foreign>> PROVE OthersInv'
      BY <1>6, OthersKept DEF OthersInv
  <1>7. CASE Expunge
      BY <1>5, <1>7 DEF Expunge
  <1>8. ASSUME NEW c \in Clients, NEW from \in {"in", "closing"}, CloseTail(c, from)
        PROVE  OthersInv'
    <2>1. c \in InCall
        BY <1>8 DEF CloseTail, Move, InCall, ClientsIn, ClientStates
    <2>2. stage = "ready"
        BY <2>1 DEF IInv, LoadedInv
    <2> QED
        BY <1>5, <1>8, <2>2 DEF CloseTail
  <1>9. CASE Defer \/ UNCHANGED vars
      BY <1>6, <1>9 DEF Defer, vars, hwVars
  <1>10. ASSUME NEW c \in Clients, OpenEnter(c) \/ OpenStep(c) \/ CloseLast(c) \/ Transmit(c)
         PROVE  OthersInv'
      BY <1>6, <1>10 DEF OpenEnter, OpenStep, OpenFails, OpenJoins, CreateFails, OpenStarts,
         OpenFinishes, CloseLast, Transmit, hwVars
  <1>11. ASSUME NEW c \in Clients, Close(c) \/ CloseReturns(c) \/ CloseGivesUp(c)
         PROVE  OthersInv'
      BY <1>8, <1>11 DEF Close, CloseReturns, CloseGivesUp
  <1>12. ASSUME NEW t \in TaskIds,
                StartStep(t) \/ TaskStep(t) \/ TaskWakes(t) \/ TaskOnline(t) \/ TaskOffline(t)
         PROVE  OthersInv'
      BY <1>6, <1>12 DEF StartStep, TaskUp, TaskFails, TaskStep, TaskTop, TaskStop, TaskTurn,
         TaskLeaves, TaskGone, TaskWakes, TaskOnline, TaskOffline, hwVars
  <1> QED
      BY <1>1, <1>2, <1>3, <1>4, <1>7, <1>9, <1>10, <1>11, <1>12, <1>13 DEF Next, HwNext

\* What limits the harm done to others (hw_init.c:372-411 and 487-490): a device
\* that was loaded, and a load that fails after the check of the channels, stop
\* none of theirs; a load halts those that receive until it has enabled the
\* receive section again, and nothing else does.
THEOREM OnlyFailedLoadsStop == Spec => []OthersKeepChannels
  <1>1. Init => OthersInv
      BY DEF Init, HwInit, OthersInv, OthersKeepChannels
  <1>2. IInv /\ OthersInv /\ [Next]_vars => OthersInv'
      BY OthersStep
  <1>3. OthersInv => OthersKeepChannels
      BY DEF OthersInv
  <1> QED
      BY <1>1, <1>2, <1>3, Invariance, PTL DEF Spec

=============================================================================
