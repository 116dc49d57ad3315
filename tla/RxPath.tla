------------------------------- MODULE RxPath -------------------------------
(****************************************************************************)
(* The way of a received frame from the DMA engine to ProcessRX: the        *)
(* packet-count interrupt of the IOB, PA6TEth_InterruptHandler (hw/irq.c),  *)
(* the signals and the message port of the unit task, and its main loop     *)
(* (unit_task.c), composed with the rings of RxRing.                        *)
(*                                                                          *)
(* Exec is outside the repository: Signal sets a bit of the task, Wait      *)
(* blocks until one of its bits is set and clears those it returns, PutMsg  *)
(* appends to the port and signals its owner, and an interrupt handler runs *)
(* to its end before any task goes on.  The engine is not held up by it.    *)
(****************************************************************************)
EXTENDS RxRing, Sequences

CONSTANTS
  MaxCommands,   \* bound: commands queued to the unit task in one behaviour
  MaxOpens       \* bound: how often a first opener starts the unit task

ASSUME PathAssumption == MaxCommands \in Nat /\ MaxOpens \in Nat

VARIABLES
  opened,         \* some opener holds the unit: unit->open_count > 0
  loop,           \* the unit task: "none" while there is none
  port,           \* commands queued to unit->io_port
  portSig, irqSig, ctrlSig,  \* the three signals Wait waits for
  task_shutdown,  \* unit->task_shutdown
  irq_wait_task,  \* unit->irq_wait_task is set
  irq,            \* where the interrupt handler is, "out" when not running
  intgen,         \* the IOB asserts the RX channel's interrupt
  cntth,          \* the RX packet-count threshold has been set to 1
  commands, opens \* counters for the bounds

loopVars == <<opened, loop, port, portSig, irqSig, ctrlSig, task_shutdown,
              irq_wait_task, commands, opens>>
irqVars == <<irq, intgen, cntth>>
pathVars == <<vars, loopVars, irqVars>>

Commands == {"config", "online", "offline", "flush"}

PathInit ==
  /\ Init
  /\ opened = FALSE /\ loop = "none"
  /\ port = <<>>
  /\ portSig = FALSE /\ irqSig = FALSE /\ ctrlSig = FALSE
  /\ task_shutdown = FALSE /\ irq_wait_task = FALSE
  /\ irq = "out" /\ intgen = FALSE /\ cntth = FALSE
  /\ commands = 0 /\ opens = 0

-----------------------------------------------------------------------------
(* Openers.  Tasks stand still while the interrupt handler runs.            *)

TasksRun == irq = "out"

\* The first opener starts the unit task (UnitTask_Start), which sets up its
\* port and signals before it reports back.  Whether the unit is online is
\* left as it was.
OpenFirst ==
  /\ TasksRun /\ ~opened /\ loop = "none"
  /\ opens < MaxOpens
  /\ opened' = TRUE
  /\ opens' = opens + 1
  /\ task_shutdown' = FALSE
  /\ irq_wait_task' = TRUE
  /\ portSig' = FALSE /\ irqSig' = FALSE /\ ctrlSig' = FALSE
  /\ loop' = "wait"
  /\ UNCHANGED <<vars, port, commands, irqVars>>

\* Mutant: only CTRL_C is sent, task_shutdown is not set.
CloseLastBySignal ==
  /\ TasksRun /\ opened
  /\ opened' = FALSE
  /\ ctrlSig' = TRUE
  /\ UNCHANGED <<vars, loop, port, portSig, irqSig, task_shutdown, irq_wait_task,
                 commands, opens, irqVars>>

\* The last Close asks the unit task to end (UnitTask_Shutdown).
CloseLast ==
  /\ TasksRun /\ opened
  /\ opened' = FALSE
  /\ task_shutdown' = TRUE
  /\ ctrlSig' = TRUE
  /\ UNCHANGED <<vars, loop, port, portSig, irqSig, irq_wait_task, commands, opens,
                 irqVars>>

\* BeginIO, in the opener's context: S2_ONLINE and S2_OFFLINE are refused
\* there and then when the unit is in that state already.
BeginIO(cmd) ==
  /\ TasksRun /\ opened
  /\ commands < MaxCommands
  /\ cmd = "online" => ~online
  /\ cmd = "offline" => online
  /\ port' = Append(port, cmd)
  /\ portSig' = TRUE
  /\ commands' = commands + 1
  /\ UNCHANGED <<vars, opened, loop, irqSig, ctrlSig, task_shutdown, irq_wait_task,
                 opens, irqVars>>

\* TransmitPacket wakes the unit task after each packet while online.
TransmitKick ==
  /\ TasksRun /\ opened
  /\ online /\ irq_wait_task
  /\ irqSig' = TRUE
  /\ UNCHANGED <<vars, opened, loop, port, portSig, ctrlSig, task_shutdown,
                 irq_wait_task, commands, opens, irqVars>>

-----------------------------------------------------------------------------
(* The unit task.                                                           *)

\* while (!unit->task_shutdown)
NextTurn == IF task_shutdown THEN "exit" ELSE "wait"

\* Wait returns and clears every signal that is set; the result is not used.
Wait ==
  /\ TasksRun /\ loop = "wait"
  /\ portSig \/ irqSig \/ ctrlSig
  /\ portSig' = FALSE /\ irqSig' = FALSE /\ ctrlSig' = FALSE
  /\ loop' = "woken"
  /\ UNCHANGED <<vars, opened, port, task_shutdown, irq_wait_task, commands, opens,
                 irqVars>>

\* The signals that came since: the IRQ signal is dropped, CTRL_C ends the loop.
ClearSignals ==
  /\ TasksRun /\ loop = "woken"
  /\ irqSig' = FALSE /\ ctrlSig' = FALSE
  /\ loop' = IF ctrlSig THEN "exit" ELSE "drain"
  /\ UNCHANGED <<vars, opened, port, portSig, task_shutdown, irq_wait_task, commands,
                 opens, irqVars>>

\* GetMsg and the start of the command's case.
HandleCommand ==
  /\ TasksRun /\ loop = "drain" /\ pc = "idle"
  /\ port # <<>>
  /\ port' = Tail(port)
  /\ \/ Head(port) \in {"config", "online"} /\ GoOnline
     \/ Head(port) \in {"config", "online"} /\ online /\ UNCHANGED vars
     \/ Head(port) = "offline" /\ GoOffline
     \/ Head(port) = "offline" /\ ~online /\ UNCHANGED vars
     \/ Head(port) = "flush" /\ UNCHANGED vars
  /\ UNCHANGED <<opened, loop, portSig, irqSig, ctrlSig, task_shutdown, irq_wait_task,
                 commands, opens, irqVars>>

\* The rest of PostRxBuffers; its end sets the threshold and then clears the
\* interrupt state found there as stale.
PostRx ==
  /\ TasksRun /\ loop = "drain"
  /\ \/ (AllocBuffers \/ ClearRings \/ PostBuffers \/ CreditRing \/ EnableMac)
        /\ UNCHANGED irqVars
     \/ FinishPost /\ intgen' = FALSE /\ cntth' = TRUE /\ UNCHANGED irq
  /\ UNCHANGED loopVars

\* Mutant: one command for each Wait.
EndDrainAnyway ==
  /\ TasksRun /\ loop = "drain" /\ pc = "idle"
  /\ \/ StartProcessRX /\ loop' = "rx"
     \/ ~online /\ loop' = NextTurn /\ UNCHANGED vars
  /\ UNCHANGED <<opened, port, portSig, irqSig, ctrlSig, task_shutdown, irq_wait_task,
                 commands, opens, irqVars>>

\* No command left: ProcessRX if online, then the loop's condition.
EndDrain ==
  /\ TasksRun /\ loop = "drain" /\ pc = "idle"
  /\ port = <<>>
  /\ \/ StartProcessRX /\ loop' = "rx"
     \/ ~online /\ loop' = NextTurn /\ UNCHANGED vars
  /\ UNCHANGED <<opened, port, portSig, irqSig, ctrlSig, task_shutdown, irq_wait_task,
                 commands, opens, irqVars>>

\* Mutant: the IRQ signal is dropped after ProcessRX, not before it.
ProcessRXClearAfter ==
  /\ TasksRun /\ loop = "rx"
  /\ TakeDesc \/ Deliver \/ NextDesc \/ EndBatch \/ CreditChan \/ CreditInt
  /\ loop' = IF pc' = "idle" THEN NextTurn ELSE "rx"
  /\ irqSig' = (irqSig /\ pc' # "idle")
  /\ UNCHANGED <<opened, port, portSig, ctrlSig, task_shutdown, irq_wait_task,
                 commands, opens, irqVars>>

ProcessRX ==
  /\ TasksRun /\ loop = "rx"
  /\ TakeDesc \/ Deliver \/ NextDesc \/ EndBatch \/ CreditChan \/ CreditInt
  /\ loop' = IF pc' = "idle" THEN NextTurn ELSE "rx"
  /\ UNCHANGED <<opened, port, portSig, irqSig, ctrlSig, task_shutdown, irq_wait_task,
                 commands, opens, irqVars>>

\* Mutant: what is left in the port is forgotten.
ExitAtOnce ==
  /\ TasksRun /\ loop = "exit"
  /\ irq_wait_task' = FALSE
  /\ loop' = "none"
  /\ UNCHANGED <<vars, opened, port, portSig, irqSig, ctrlSig, task_shutdown, commands,
                 opens, irqVars>>

\* After the loop: abort what is left in the port, withdraw from the interrupt
\* handler and free the port.  unit->online stays as it is.
Exit ==
  /\ TasksRun /\ loop = "exit"
  /\ port' = <<>>
  /\ irq_wait_task' = FALSE
  /\ loop' = "none"
  /\ UNCHANGED <<vars, opened, portSig, irqSig, ctrlSig, task_shutdown, commands,
                 opens, irqVars>>

-----------------------------------------------------------------------------
(* The interrupt handler, and the engine, which runs beside it.             *)

\* RXCH_STAT is read and INTGEN found set; when it is not, the call changes
\* nothing and returns 0.
IrqEnter ==
  /\ irq = "out" /\ intgen
  /\ irq' = "seen"
  /\ UNCHANGED <<vars, loopVars, intgen, cntth>>

\* PCNTRST and PINTC: the packet count restarts from 0, also for packets that
\* came since RXCH_STAT was read.
IrqAck ==
  /\ irq = "seen"
  /\ intgen' = FALSE
  /\ irq' = "acked"
  /\ UNCHANGED <<vars, loopVars, cntth>>

IrqSignal ==
  /\ irq = "acked"
  /\ irqSig' = (irqSig \/ irq_wait_task)
  /\ irq' = "out"
  /\ UNCHANGED <<vars, opened, loop, port, portSig, ctrlSig, task_shutdown,
                 irq_wait_task, commands, opens, intgen, cntth>>

\* With the threshold at 1 every packet raises the interrupt.  Before it is
\* set the threshold is whatever the firmware left.
EngineReceive ==
  /\ Receive
  /\ \/ intgen' = TRUE
     \/ ~cntth /\ UNCHANGED intgen
  /\ UNCHANGED <<loopVars, irq, cntth>>

TaskStep == \/ Wait \/ ClearSignals \/ HandleCommand \/ PostRx \/ EndDrain
            \/ ProcessRX \/ Exit
IrqStep == IrqEnter \/ IrqAck \/ IrqSignal
Client == \/ OpenFirst \/ CloseLast \/ TransmitKick
          \/ \E cmd \in Commands : BeginIO(cmd)

PathNext == Client \/ TaskStep \/ IrqStep \/ EngineReceive

PathSpec == PathInit /\ [][PathNext]_pathVars

\* The unit task has priority 50 and is never kept from running for ever, and
\* an asserted interrupt is served.  Nothing is assumed of openers or packets.
FairPathSpec == PathSpec /\ WF_pathVars(TaskStep) /\ WF_pathVars(IrqStep)

-----------------------------------------------------------------------------
(* Properties.                                                              *)

PathTypeOK ==
  /\ TypeOK
  /\ {opened, portSig, irqSig, ctrlSig, task_shutdown, irq_wait_task, intgen, cntth}
       \subseteq BOOLEAN
  /\ loop \in {"none", "wait", "woken", "drain", "rx", "exit"}
  /\ port \in Seq(Commands) /\ Len(port) <= MaxCommands
  /\ irq \in {"out", "seen", "acked"}
  /\ commands \in 0 .. MaxCommands /\ opens \in 0 .. MaxOpens

\* A unit task that sleeps with unread frames in the ring will be woken for
\* them: the interrupt is asserted, or in the handler, or a signal is set.
\* The packet may have come at any moment: during ProcessRX, between its last
\* look at the ring and Wait, or between the handler's read and its PCNTRST.
NoLostWakeup ==
  online /\ Unread # {} /\ loop = "wait" =>
    intgen \/ irq # "out" \/ portSig \/ irqSig \/ ctrlSig

\* The same for commands: none sleeps in the port while the task waits.
NoSleepingCommand == loop = "wait" /\ port # <<>> => portSig

\* Every completed frame is read, unless the unit goes offline or is closed.
FramesRead ==
  \A g \in Positions : rx_ring[g].O ~> (~rx_ring[g].O \/ ~online \/ ~opened)

\* A close ends the unit task, whatever it was doing, although the CTRL_C that
\* woke it has been cleared by Wait before the loop looks for it.
CloseEndsTask == ~opened ~> loop = "none"

\* While a unit task exists and commands stop coming, the port gets empty.
CommandsHandled == port # <<>> ~> port = <<>>

=============================================================================
