---------------------------- MODULE RxPathProofs ----------------------------
(****************************************************************************)
(* Proofs about RxPath: its steps are steps of RxRing, so what RxRingProofs *)
(* proves of the rings holds under the interrupt handler and the main loop  *)
(* of the unit task too; and no command and, as long as the unit task is    *)
(* started once, no frame is left to a sleeping unit task.                  *)
(****************************************************************************)
EXTENDS RxPath, RxRingProofs

\* The unit task, its port and its signals.
TaskInv ==
  /\ loop \in {"none", "wait", "woken", "exit"} => pc = "idle"
  /\ loop = "drain" => pc \in {"idle"} \cup Posting
  /\ loop = "rx" => pc \in Scanning \cup Crediting /\ online
  /\ opened => loop \notin {"none", "exit"} /\ ~task_shutdown /\ ~ctrlSig
  /\ loop = "none" => port = <<>>
  /\ loop \in {"wait", "rx"} /\ port # <<>> => portSig
  /\ loop # "none" => irq_wait_task
  /\ opens \in Nat
  /\ opens = 0 => ~online /\ ~opened /\ loop = "none"

\* From the moment ProcessRX has found no further frame until Wait returns,
\* an unread frame of an online unit is announced.
Asleep == loop = "wait" \/ (loop = "rx" /\ pc \in Crediting)
Announced == intgen \/ irq # "out" \/ portSig \/ irqSig \/ ctrlSig
WakeInv ==
  /\ live /\ pc # "finish" => cntth
  /\ Asleep /\ online /\ Unread # {} => Announced

\* The type invariant in two parts, the flags and the rest, for the provers.
FlagTypes ==
  /\ opened \in BOOLEAN /\ portSig \in BOOLEAN /\ irqSig \in BOOLEAN /\ ctrlSig \in BOOLEAN
  /\ task_shutdown \in BOOLEAN /\ irq_wait_task \in BOOLEAN
  /\ intgen \in BOOLEAN /\ cntth \in BOOLEAN

QueueTypes ==
  /\ loop \in {"none", "wait", "woken", "drain", "rx", "exit"}
  /\ port \in Seq(Commands) /\ Len(port) <= commands
  /\ irq \in {"out", "seen", "acked"}
  /\ commands \in 0 .. MaxCommands /\ opens \in 0 .. MaxOpens

PathTypes == FlagTypes /\ QueueTypes

-----------------------------------------------------------------------------
\* A step of the receive path is a step of the rings, or leaves them alone.
LEMMA PathStep == ASSUME [PathNext]_pathVars PROVE [Next]_vars
  <1>1. ASSUME Client PROVE UNCHANGED vars
      BY <1>1 DEF Client, OpenFirst, CloseLast, TransmitKick, BeginIO
  <1>2. ASSUME TaskStep PROVE [UnitTask]_vars
      BY <1>2 DEF TaskStep, Wait, ClearSignals, HandleCommand, PostRx, EndDrain, ProcessRX,
                  Exit, UnitTask
  <1>3. ASSUME IrqStep PROVE UNCHANGED vars
      BY <1>3 DEF IrqStep, IrqEnter, IrqAck, IrqSignal
  <1>4. ASSUME EngineReceive PROVE Receive
      BY <1>4 DEF EngineReceive
  <1>5. CASE UNCHANGED pathVars
      BY <1>5 DEF pathVars
  <1> QED
      BY <1>1, <1>2, <1>3, <1>4, <1>5 DEF PathNext, Next

\* The receive path implements the rings: the interrupt handler and the main
\* loop restrict when PostRxBuffers and ProcessRX run, and change nothing else.
THEOREM PathImplementsRings == PathSpec => Spec
  <1>1. PathInit => Init
      BY DEF PathInit
  <1>2. [PathNext]_pathVars => [Next]_vars
      BY PathStep
  <1> QED
      BY <1>1, <1>2, PTL DEF PathSpec, Spec

-----------------------------------------------------------------------------
\* The first open starts a unit task with no signal set and an empty port, and,
\* being the first, with the unit offline.
LEMMA TaskInvInit == PathInit => TaskInv /\ WakeInv /\ PathTypes
  <1> SUFFICES ASSUME PathInit PROVE TaskInv /\ WakeInv /\ PathTypes
      OBVIOUS
  <1> USE DEF PathInit, Init
  <1>1. TaskInv
      BY DEF TaskInv
  <1>2. WakeInv
      BY DEF WakeInv
  <1>3. PathTypes
    <2>1. port \in Seq(Commands) /\ Len(port) = 0
        OBVIOUS
    <2>2. /\ opened \in BOOLEAN /\ portSig \in BOOLEAN /\ irqSig \in BOOLEAN
          /\ ctrlSig \in BOOLEAN /\ task_shutdown \in BOOLEAN /\ irq_wait_task \in BOOLEAN
          /\ intgen \in BOOLEAN /\ cntth \in BOOLEAN
        OBVIOUS
    <2>3. commands \in 0 .. MaxCommands /\ opens \in 0 .. MaxOpens
        BY PathAssumption
    <2> QED
        BY <2>1, <2>2, <2>3 DEF PathTypes, FlagTypes, QueueTypes
  <1> QED
      BY <1>1, <1>2, <1>3

\* The openers: commands come with the port's signal, and only to an open unit,
\* whose unit task has not been told to end.
LEMMA ClientTask == ASSUME TaskInv, Client PROVE TaskInv'
  <1> USE DEF vars, task
  <1>1. CASE OpenFirst
      BY <1>1 DEF OpenFirst, TaskInv
  <1>2. CASE CloseLast
      BY <1>2 DEF CloseLast, TaskInv
  <1>3. CASE TransmitKick
      BY <1>3 DEF TransmitKick, TaskInv
  <1>4. ASSUME NEW cmd \in Commands, BeginIO(cmd) PROVE TaskInv'
      BY <1>4 DEF BeginIO, TaskInv
  <1> QED
      BY <1>1, <1>2, <1>3, <1>4 DEF Client

\* The unit task: it goes to sleep only over an empty port or a set signal.
LEMMA TaskStepTask == ASSUME TaskInv, TaskStep PROVE TaskInv'
  <1> USE DEF vars, task
  <1>1. CASE Wait
      BY <1>1 DEF Wait, TaskInv
  <1>2. CASE ClearSignals
      BY <1>2 DEF ClearSignals, TaskInv
  <1>3. CASE HandleCommand
      BY <1>3 DEF HandleCommand, GoOnline, GoOffline, TaskInv, Posting
  <1>4. CASE PostRx
      BY <1>4 DEF PostRx, AllocBuffers, AfterAlloc, ClearRings, PostBuffers, CreditRing,
                  EnableMac, FinishPost, loopVars, TaskInv, Posting
  <1>5. CASE EndDrain
      BY <1>5 DEF EndDrain, StartProcessRX, NextTurn, TaskInv, Posting, Scanning
  <1>6. CASE ProcessRX
    <2>1. pc' \in {"idle"} \cup Scanning \cup Crediting /\ online' = online
        BY <1>6 DEF ProcessRX, TakeDesc, Deliver, NextDesc, EndBatch, CreditChan, CreditInt,
                    Scanning, Crediting
    <2> QED
        BY <1>6, <2>1 DEF ProcessRX, NextTurn, TaskInv, Scanning, Crediting
  <1>7. CASE Exit
      BY <1>7 DEF Exit, TaskInv
  <1> QED
      BY <1>1, <1>2, <1>3, <1>4, <1>5, <1>6, <1>7 DEF TaskStep

\* The interrupt handler and the engine touch the IRQ signal and the rings only.
LEMMA OtherTask ==
  ASSUME TaskInv, IrqStep \/ EngineReceive \/ UNCHANGED pathVars PROVE TaskInv'
  <1> USE DEF vars, task, loopVars
  <1>1. CASE IrqStep
      BY <1>1 DEF IrqStep, IrqEnter, IrqAck, IrqSignal, TaskInv
  <1>2. CASE EngineReceive
      BY <1>2 DEF EngineReceive, Receive, HwReceive, TaskInv
  <1>3. CASE UNCHANGED pathVars
      BY <1>3 DEF pathVars, TaskInv
  <1> QED
      BY <1>1, <1>2, <1>3

\* No step of any actor breaks the invariant of the unit task.
LEMMA TaskInvariance == PathSpec => []TaskInv
  <1>1. PathInit => TaskInv
      BY TaskInvInit
  <1>2. TaskInv /\ [PathNext]_pathVars => TaskInv'
      BY ClientTask, TaskStepTask, OtherTask DEF PathNext
  <1> QED
      BY <1>1, <1>2, PTL DEF PathSpec

\* No command is left in the port of a sleeping unit task, however many are
\* sent for one signal and whenever they come.
THEOREM NoCommandSleeps == PathSpec => []NoSleepingCommand
  <1>1. TaskInv => NoSleepingCommand
      BY DEF TaskInv, NoSleepingCommand
  <1> QED
      BY <1>1, TaskInvariance, PTL

-----------------------------------------------------------------------------
\* Every flag stays a flag.
LEMMA FlagsStep == ASSUME FlagTypes, [PathNext]_pathVars PROVE FlagTypes'
  <1> USE DEF FlagTypes, loopVars, irqVars
  <1>1. CASE Client
      BY <1>1, Zenon DEF Client, OpenFirst, CloseLast, TransmitKick, BeginIO
  <1>2. CASE Wait \/ ClearSignals \/ EndDrain \/ ProcessRX \/ Exit
      BY <1>2, Zenon DEF Wait, ClearSignals, EndDrain, ProcessRX, Exit
  <1>3. CASE HandleCommand \/ PostRx
      BY <1>3, Zenon DEF HandleCommand, PostRx
  <1>4. CASE IrqEnter \/ IrqAck
      BY <1>4, Zenon DEF IrqEnter, IrqAck
  <1>5. CASE IrqSignal
    <2>1. irqSig' \in BOOLEAN
        BY <1>5, Zenon DEF IrqSignal
    <2> QED
        BY <1>5, <2>1, Zenon DEF IrqSignal
  <1>6. CASE EngineReceive
      BY <1>6, Zenon DEF EngineReceive
  <1>7. CASE UNCHANGED pathVars
      BY <1>7, Zenon DEF pathVars
  <1> QED
      BY <1>1, <1>2, <1>3, <1>4, <1>5, <1>6, <1>7 DEF PathNext, TaskStep, IrqStep

\* The queue and the counters keep theirs: a command is counted as it is queued.
LEMMA QueueStep == ASSUME QueueTypes, [PathNext]_pathVars PROVE QueueTypes'
  <1> USE PathAssumption DEF QueueTypes, loopVars, irqVars
  <1>1. CASE OpenFirst
      BY <1>1 DEF OpenFirst
  <1>2. CASE CloseLast \/ TransmitKick
      BY <1>2 DEF CloseLast, TransmitKick
  <1>3. ASSUME NEW cmd \in Commands, BeginIO(cmd) PROVE QueueTypes'
    <2>1. port' \in Seq(Commands) /\ Len(port') = Len(port) + 1
        BY <1>3 DEF BeginIO
    <2> QED
        BY <1>3, <2>1 DEF BeginIO
  <1>4. CASE Wait \/ ClearSignals \/ EndDrain \/ ProcessRX
      BY <1>4 DEF Wait, ClearSignals, EndDrain, ProcessRX, NextTurn
  <1>5. CASE HandleCommand
      BY <1>5 DEF HandleCommand
  <1>6. CASE PostRx
      BY <1>6 DEF PostRx
  <1>7. CASE Exit
    <2>1. port' \in Seq(Commands) /\ Len(port') = 0
        BY <1>7 DEF Exit
    <2> QED
        BY <1>7, <2>1 DEF Exit
  <1>8. CASE IrqStep
      BY <1>8 DEF IrqStep, IrqEnter, IrqAck, IrqSignal
  <1>9. CASE EngineReceive
      BY <1>9 DEF EngineReceive
  <1>10. CASE UNCHANGED pathVars
      BY <1>10 DEF pathVars
  <1> QED
      BY <1>1, <1>2, <1>3, <1>4, <1>5, <1>6, <1>7, <1>8, <1>9, <1>10
      DEF PathNext, Client, TaskStep

\* The type invariant of the interrupt handler, the signals and the unit task's
\* loop; the port never holds more commands than have been sent.
THEOREM PathTypeCorrect == ASSUME AllOrNothing PROVE PathSpec => []PathTypeOK
  <1>1. PathInit => PathTypes
      BY TaskInvInit
  <1>2. PathTypes /\ [PathNext]_pathVars => PathTypes'
      BY FlagsStep, QueueStep DEF PathTypes
  <1>3. PathSpec => []PathTypes
      BY <1>1, <1>2, PTL DEF PathSpec
  <1>4. PathTypes /\ TypeOK => PathTypeOK
    <2> SUFFICES ASSUME PathTypes, TypeOK PROVE PathTypeOK
        OBVIOUS
    <2>1. {opened, portSig, irqSig, ctrlSig, task_shutdown, irq_wait_task, intgen, cntth}
            \subseteq BOOLEAN
        BY DEF PathTypes, FlagTypes
    <2>2. Len(port) <= MaxCommands
        BY PathAssumption DEF PathTypes, QueueTypes
    <2> QED
        BY <2>1, <2>2 DEF PathTypes, QueueTypes, PathTypeOK
  <1> QED
      BY <1>3, <1>4, PathImplementsRings, TypeCorrect, PTL

\* Openers do not put the unit task to sleep, except the first open, which finds
\* the unit offline as no unit task has run before.
LEMMA ClientWake ==
  ASSUME MaxOpens = 1, TaskInv, WakeInv, Client PROVE WakeInv'
  <1> USE DEF vars, task, rings, engine, irqVars
  <1>1. Unread' = Unread
      BY DEF Client, OpenFirst, CloseLast, TransmitKick, BeginIO, Unread
  <1>2. CASE OpenFirst
      BY <1>1, <1>2 DEF OpenFirst, TaskInv, WakeInv, Asleep
  <1>3. CASE CloseLast
      BY <1>1, <1>3 DEF CloseLast, WakeInv, Asleep, Announced
  <1>4. CASE TransmitKick
      BY <1>1, <1>4 DEF TransmitKick, WakeInv, Asleep, Announced
  <1>5. ASSUME NEW cmd \in Commands, BeginIO(cmd) PROVE WakeInv'
      BY <1>1, <1>5 DEF BeginIO, WakeInv, Asleep, Announced
  <1> QED
      BY <1>2, <1>3, <1>4, <1>5 DEF Client

\* ProcessRX leaves its loop only when the ring is empty: the descriptor it stops
\* at is clear, and unread ones follow each other from there.
LEMMA LoopEndsEmpty == ASSUME TypeOK, UnreadFromPos, EndBatch PROVE Unread' = {}
  <1>1. Pos = n % Groups /\ ~rx_ring[Pos].O /\ rx_ring' = rx_ring
      BY DEF EndBatch, Pos, Scanning
  <1>2. Pos \in Positions
    <2>1. n \in 0 .. 2 * Groups - 1
        BY DEF TypeOK
    <2> QED
        BY <1>1, <2>1, Wrap, ConstantTypes DEF Positions
  <1>3. ASSUME NEW g \in Positions, rx_ring[g].O PROVE FALSE
    <2>1. Dist(Pos, Pos, Groups) <= Dist(Pos, g, Groups)
        BY <1>2, ConstantTypes DEF Dist, Positions
    <2> QED
        BY <1>1, <1>2, <1>3, <2>1 DEF UnreadFromPos
  <1> QED
      BY <1>1, <1>3 DEF Unread

\* The unit task goes to sleep over an empty ring, or is told of what has come
\* since it looked.
LEMMA TaskStepWake ==
  ASSUME TypeOK, UnreadFromPos, TaskInv, WakeInv, TaskStep PROVE WakeInv'
  <1> USE DEF vars, task, rings, engine, irqVars, loopVars
  <1>1. CASE Wait
      BY <1>1 DEF Wait, WakeInv, Asleep
  <1>2. CASE ClearSignals
      BY <1>2 DEF ClearSignals, WakeInv, Asleep
  <1>3. CASE HandleCommand
      BY <1>3 DEF HandleCommand, GoOnline, GoOffline, WakeInv, Asleep
  <1>4. CASE PostRx
      BY <1>4 DEF PostRx, AllocBuffers, ClearRings, PostBuffers, CreditRing, EnableMac,
                  FinishPost, WakeInv, Asleep
  <1>5. CASE EndDrain
      BY <1>5 DEF EndDrain, StartProcessRX, NextTurn, WakeInv, Asleep, Crediting
  <1>6. CASE ProcessRX
    <2>1. CASE TakeDesc \/ Deliver \/ NextDesc
      <3>1. pc' \in Scanning /\ pc # "finish" /\ live' = live
          BY <2>1 DEF TakeDesc, Deliver, NextDesc, Scanning
      <3>2. loop' = "rx" /\ cntth' = cntth
          BY <1>6, <3>1 DEF ProcessRX, Scanning
      <3> QED
          BY <3>1, <3>2 DEF WakeInv, Asleep, Scanning, Crediting
    <2>2. CASE EndBatch
        BY <1>6, <2>2, LoopEndsEmpty DEF ProcessRX, EndBatch, TaskInv, WakeInv
    <2>3. CASE CreditChan \/ CreditInt
      <3>1. Unread' = Unread
          BY <2>3 DEF CreditChan, CreditInt, Unread
      <3>2. /\ pc \in Crediting /\ pc' \in {"credit_int", "idle"}
            /\ live' = live /\ online' = online
          BY <2>3 DEF CreditChan, CreditInt, Crediting
      <3>3. UNCHANGED <<intgen, irq, portSig, irqSig, ctrlSig, cntth>> /\ loop = "rx"
          BY <1>6 DEF ProcessRX
      <3>4. Asleep /\ pc # "finish" /\ Announced' = Announced
          BY <3>2, <3>3 DEF Asleep, Announced, Crediting
      <3> QED
          BY <3>1, <3>2, <3>3, <3>4, Zenon DEF WakeInv
    <2> QED
        BY <1>6, <2>1, <2>2, <2>3 DEF ProcessRX
  <1>7. CASE Exit
      BY <1>7 DEF Exit, WakeInv, Asleep
  <1> QED
      BY <1>1, <1>2, <1>3, <1>4, <1>5, <1>6, <1>7 DEF TaskStep

\* A packet is announced by its interrupt, the interrupt by the handler's run,
\* and the run by the signal it ends with.
LEMMA OtherWake ==
  ASSUME TaskInv, WakeInv, IrqStep \/ EngineReceive \/ UNCHANGED pathVars PROVE WakeInv'
  <1> USE DEF vars, task, rings, engine, loopVars
  <1>1. CASE IrqStep
    <2>1. UNCHANGED <<live, pc, cntth, loop>>
        BY <1>1 DEF IrqStep, IrqEnter, IrqAck, IrqSignal
    <2>2. ASSUME Asleep' PROVE Announced'
      <3>1. irq_wait_task
          BY <2>1, <2>2 DEF Asleep, TaskInv
      <3>2. irq' \in {"seen", "acked"} \/ irqSig'
          BY <1>1, <3>1, Zenon DEF IrqStep, IrqEnter, IrqAck, IrqSignal
      <3> QED
          BY <3>2 DEF Announced
    <2> QED
        BY <2>1, <2>2, Zenon DEF WakeInv
  <1>2. CASE EngineReceive
      BY <1>2 DEF EngineReceive, Receive, HwReceive, CanReceive, TaskInv, WakeInv, Asleep,
                  Announced, Crediting
  <1>3. CASE UNCHANGED pathVars
    <2>1. Unread' = Unread
        BY <1>3 DEF pathVars, Unread
    <2> QED
        BY <1>3, <2>1 DEF pathVars, irqVars, WakeInv, Asleep, Announced
  <1> QED
      BY <1>1, <1>2, <1>3

\* A sleeping unit task with unread frames will be woken for them, whenever they
\* came, as long as the unit task is started once.  (After a second start it is
\* false: run rx_path_reopen.)
THEOREM NoFrameSleeps ==
  ASSUME AllOrNothing, MaxOpens = 1 PROVE PathSpec => []NoLostWakeup
  <1>1. PathInit => WakeInv
      BY TaskInvInit
  <1>2. TypeOK /\ UnreadFromPos /\ TaskInv /\ WakeInv /\ [PathNext]_pathVars => WakeInv'
      BY ClientWake, TaskStepWake, OtherWake DEF PathNext
  <1>3. WakeInv => NoLostWakeup
      BY DEF WakeInv, NoLostWakeup, Asleep, Announced
  <1> QED
      BY <1>1, <1>2, <1>3, PathImplementsRings, TypeCorrect, NoHoleInRing, TaskInvariance, PTL
      DEF PathSpec

=============================================================================
