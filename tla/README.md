# Verification of pa6t_eth.device

TLA+ models, model-checking runs and machine-checked proofs for
`pa6t_eth.device`, the SANA-II network driver of the PA6T-1682M's on-chip
gigabit MAC (AmigaOS 4). Source paths below are relative to the repository,
which holds the driver in `src/` and its headers in `include/`; in
`PROJECT.json` they carry the prefix of the tree (`src/src/hw/rx.c`).

## The system

| Component | Source | State | Operations |
|---|---|---|---|
| Receive rings | `src/hw/rx.c` | descriptor ring, buffer pointer ring, `rx_slot_buf`, `rx_buf_write_ptr`, `rx_next_clean`, `rx_bufs`; the engine's ring positions and credits | `PostRxBuffers`, `ProcessRX`; the DMA engine receiving |
| Receive wakeup path | `src/hw/irq.c`, `src/unit_task.c` | task signals, `irq_wait_task`, `task_shutdown`, the IOB's packet-count interrupt | interrupt handler, `Wait` loop, signals of openers and transmitter |
| Requests | `src/BeginIO.c`, `src/unit_task.c`, `src/hw/rx.c` | three read lists, `event_list`, `io_port`, `online`, each request's fields | `BeginIO`, `AbortIO`, command handling, delivery, `FlushReadQueue`, `FlushAllPending`, `signal_event` |
| Transmit path | `src/hw/tx.c` | TX ring, `tx_buf_pending`, `tx_lock` | `TransmitPacket`, `tx_cleanup_pending` |
| Lifecycle | `src/Init.c`, `src/Open.c`, `src/Close.c`, `src/Expunge.c`, `src/unit_task.c` | open counts, `LIBF_DELEXP`, opener list, the unit task's existence | Init, Open, Close, Expunge, task start and shutdown |
| Hardware setup | `src/hw/hw_init.c`, `src/hw/pci.c` | rings and mappings held, channels claimed and configured | `HWInit`, `HWCleanup` |
| Not part of the driver's logic | `src/device.c`, `linux_ref/`, `tools/` | | static tables; a reference driver of another system; a register dump tool |

How they interact. Openers (the IP stack and other programs, each a task of
its own) call `BeginIO` and `AbortIO` in their own context. Commands that touch
the hardware go to the unit task through its message port; reads and event
requests are linked into lists under `Forbid`; packets are transmitted in the
opener's context under a semaphore. The DMA engine fills receive buffers at any
moment and counts packets; the IOB raises an interrupt; the handler acknowledges
it and signals the unit task, which runs `ProcessRX`, takes frames out of the
descriptor ring, hands each to the first waiting read and gives the buffer back.

What is hard: the engine runs beside everything; there is no lock between the
interrupt, the unit task and the openers but `Forbid`; signals are bits, not
counters; the receive side rests on three indices and two credit counters that
must agree without ever being compared; `PostRxBuffers` may fail half way and
returns nothing; the unit task may end while requests are pending.
`PROJECT.json` lists these hazards, each at its line with the properties that
cover it.

What makes each part correct:

- receive rings: the engine has credit only for slots that hold a buffer and
  descriptors that have been read; no buffer is in two hands; no frame is
  overwritten, skipped, overtaken or mistaken for a split one; no buffer or
  credit leaks;
- wakeup path: no frame and no command sleeps; the close ends the task;
- requests: each is in one place, is answered once per use, with an error only
  for a reason, in turn, and is answered in the end;
- transmit path: no buffer is freed while the engine owns it, none leaks; each
  packet is sent once;
- lifecycle: one unit task at a time; nothing is freed in use; counts agree; the
  device goes away when it is unused and asked to;
- hardware setup: failure undoes what was done and touches nothing else.

## Modules

`RxRing` models `PostRxBuffers` and `ProcessRX` against the engine, one step per
access to what the engine also reads or writes. A completion is four
descriptors and always starts at a multiple of four, so the descriptor ring is
indexed by packet and the code's `n += 4` is `n + 1`. `pc` says where the unit
task is. The engine (`HwReceive`, external) takes the next slot and the next
descriptors as its credits tell it, whatever they hold, so a wrong credit shows
as a wrong write. Frames are `good` or `bad`; a completion may lack a slot
(`eval = 0`), at most `MaxFaults` times.

| Code | `RxRing` |
|---|---|
| allocation loop and `nalloced == 0` return | `AllocBuffers`, `AfterAlloc` |
| clearing both rings | `ClearRings` |
| posting, `RXINT_INCR` | `PostBuffers`, `FirstFree` |
| `RXCHAN_INCR` of the whole ring, MAC enable, `rx_next_clean = 0` | `CreditRing`, `EnableMac`, `FinishPost` |
| one iteration of the loop of `ProcessRX` | `TakeDesc` (checks: `Deliverable`), `Deliver`, `NextDesc` |
| leaving the loop, masking | `EndBatch`, `Masked` |
| `RXCHAN_INCR`, `RXINT_INCR` | `CreditChan`, `CreditInt` |

`RxQueue` is what the two rings amount to: a bounded queue of frames, each
judged once, in the order of arrival, and handed over only if it is good.
`FramesInOrder` says that `RxRing` implements it, with the unread completions
read as the queue, from the position of `ProcessRX` on.

`RxPath` extends `RxRing` with the interrupt handler (`IrqEnter`, `IrqAck`,
`IrqSignal`), the unit task loop (`Wait` to `Exit`, `loop` says where), and the
openers. Every step of `RxRing` that the unit task takes is taken from its loop:
`RxPath` restricts when, and adds what else happens. A handler runs to its end
before any task goes on (`TasksRun`); the engine is not held up by it.

`Requests` follows the requests themselves. `BeginIO` is three steps (fields
cleared, `online` checked, linked or answered), because the unit task preempts
openers; `AbortIO` is one step per `Forbid`; a request taken from a list or the
port is in the unit task's hands (`cur`) until its `ReplyMsg`. The rings are
reduced to "frames of some type arrive", the wakeup to "the task may wake".
`want` remembers the event mask the owner asked for, `wire` is the field the
code reads. `SanaContract` is what owners may rely on, without lists or tasks;
`ContractKept` says `Requests` implements it, with `owner` mapped from `status`.
`InTurn` is about the lists, which the contract does not know: a step that takes
a request takes none with another of its kind before it, and what a step leaves
in a list or links to it stays in order. `ReadGetsItsList` follows a frame from
its type to the read that `Deliver` answers.
`MCRequests` adds the symmetry of the requests for TLC. Taking requests out of a
list (`Without`) is a recursive function, so that the proofs can reason about it.

`TxRing` models `TransmitPacket` by several tasks: what a task does to its own
buffer (`Reject`, `Allocate` to `GetDMAList`, `Fail`), and under `tx_lock`, a
queue of tasks whose head holds it, `tx_cleanup_pending` (`Cleanup`, `Recheck`,
`Release`) and the new packet (`Fill`, `Doorbell`, `Store`). `allocated` and
`mapped` are what `AllocVecTags`/`FreeVec` and `StartDMA`/`EndDMA` leave behind.
The engine (`HwFetch`, `HwDone`, external) may be slower than the 50000 polls,
and may stop for good; `giveUps` counts how often a descriptor was taken back
from it. What it does at a descriptor taken back is not known: it stays there or
passes over it. `TxChannel` is what lock, descriptors and credit amount to until
then: a channel for one packet, which leaves once before the next is handed
over. `EachSentOnce` says that `TxRing` implements it.

`HwInit` models loading: each resource `Init`, `PA6TEth_FindDevices`,
`PA6TEth_HWInit` and `PA6TEth_InstallIRQ` acquire, in their order, with the
failure of each; and what `PA6TEth_HWCleanup` and the end of `Init` or `Expunge`
give back. A resource has the name of the field that holds it; `stage` is the
call that comes next, `After` their order, `CleanupAfter` which failures go to
`HWCleanup`. Between the rings and the interrupt come two steps without a
failure: `DisableSection`, which stops the TX channel and disables the receive
section that all channels share (`src/hw/hw_init.c:372-378`), and
`EnableSection`, which resets the RX channel and enables the section again.
Registers are reduced to `foreign` (channels others use), `stopped` and `halted`
(those of them that this driver has stopped, and that stand still because their
section is disabled), and `dma`, the directions in which the engine may use the
driver's memory; a stop that times out puts its direction into `late`.

`Lifecycle` extends it with clients, the library's and the unit's counts, and
the unit task. Exec lets one of Open, Close and Expunge run at a time except
where one waits, so a step lies between two waits; a client uses one cookie and
closes what it opened, once; which channels others use does not change after
loading. `Transmit` is reduced to whether a packet is pending and its memory in
the engine's hands: the early release after a timeout (`src/hw/tx.c:43-60`) is
in `TxRing` only. Unit tasks have numbers, 0 is none.

| Code | `Lifecycle` |
|---|---|
| `_manager_Open` to the allocation of the opener; its failures; a later open | `OpenEnter`, `OpenFails`, `OpenJoins` |
| `UnitTask_Start`: before, and after its wait | `CreateFails`, `OpenStarts`; `OpenFinishes` |
| `UnitTaskBody` up to its signal to the parent | `TaskUp`, `TaskFails` |
| its loop: shutdown test, `Wait`, CTRL_C test, commands | `TaskTop`, `TaskWakes`, `TaskStop`, `TaskTurn`, `TaskOnline`, `TaskOffline` |
| its end | `TaskLeaves` (the handler's task cleared), `TaskGone` (port freed, `unit->task` cleared) |
| `_manager_Close`; `UnitTask_Shutdown` up to its polling, and the two ways out | `Close`, `CloseLast`, `CloseReturns`, `CloseGivesUp` |
| `_manager_Expunge`, at once, deferred, or by the last close | `Expunge`, `Defer`, `CloseTail`, then `RemoveIRQ` and `HwInit`'s cleanup |

`DeviceLife` is what the system and the clients may rely on: the device goes
away only while nobody has it or calls it; a request to go that comes too early
is remembered until an open succeeds, and honoured by the close that leaves the
device unused. `PromiseKept` says that `Lifecycle` implements it: `Mode` maps
the stages of loading and unloading, `User` the clients. A failing open may be
the last call and does not honour the request (`src/Open.c:85`); `DeviceLife`
says so, since nothing in the repository says otherwise.

`accident` remembers that a first open began while another one waited or while a
unit task was still alive, or that a shutdown gave up after its 100000 turns.
Properties that such a history breaks say so; the others hold regardless.

While modelling these, three behaviours became visible that the code has no
provision for; `accident` and the wording of the properties account for them:

- `open_count` is tested before `UnitTask_Start` waits and incremented after
  it, so two first opens can both start a unit task (`src/Open.c:58`);
- `UnitTask_Shutdown` polls `unit->task` for zero (`src/unit_task.c:290`): if
  another client opens before the closing one looks again, it sees the new task
  and waits for the wrong one, until that ends or patience does;
- the CTRL_C of a shutdown may be consumed by the `Wait` it wakes, and the loop
  then ends by `task_shutdown` only; an open that overlaps clears that
  (`src/unit_task.c:246`), and the old task lives on.

## Runs

| Run | Shows | Bounds |
|---|---|---|
| `rx_ring` | seven ring invariants, frames in order, with bad frames, faults, offline and online again | 2 packets in the descriptor ring, 8 slots, 3 buffers, 2 faults; allocation gives all or none |
| `rx_path` | no lost wakeup, no sleeping command, frames read, close ends the task, commands handled | 2 packets, 2 buffers, 3 commands, 1 start of the task |
| `requests` | one place, the contract, served in turn, reads match their lists | 3 requests, 6 commands, 2 lists, 1 frame per batch |
| `requests_live` | every request, abort and command answered | 2 requests, 8 commands, 1 list |
| `tx_ring` | buffers accounted for, the engine reads mapped buffers, indices agree, credit is bounded, each packet sent once, writes answered | 3 tasks, 3 buffers, 3 packets in the ring, 4 writes |
| `lifecycle` | nothing leaks or is freed in use from load to unload, counts, one unit task, the handler's task and the start message are alive, the device unloads when unused and asked to, channels of others keep running but for the cases the code has, opens and closes return | 2 clients, 2 unit tasks, 3 sets of channels in use by others |
| `rx_partial_alloc` | violated: credit for slots without buffers | |
| `rx_online_dead` | violated: online without a running MAC | |
| `rx_path_reopen` | violated: the wakeup lost between close and open | 2 starts of the task |
| `event_mask` | violated: event waiters are not answered | |
| `other_types` | violated: a read gets another type's frame | |
| `foreign_channel` | violated: a failed load stops a channel of somebody else | the same 3 sets |

Why the bounds are enough. The ring runs go round both rings without limit:
positions wrap, slots and buffers drift apart (3 buffers in 8 slots), batches
have every size from 0 to the full ring and start everywhere, so `n` runs past
the end; the engine may complete between any two accesses. Larger rings are
covered by the proofs. In `rx_path` three commands allow online, offline and
online again, with packets and the close anywhere; one start of the task is the
case the code handles, two is the run that is violated. In `requests` three
requests let a command act on a queue of two while one of them is aborted;
every reading of a list by `FlushReadQueue` or `ProcessRX` is under one
`Forbid`, so longer queues add no interleavings. In `tx_ring` one task can be
under the lock, one waiting and one preparing a packet, memory can run out, four
writes go round the ring, and any of them may be given up. In `lifecycle` two
clients are enough for a first open to overlap a first open, a join, a close or
a shutdown, and two unit tasks for an old one beside a new one; clients and
tasks come and go without limit. Others use channel 0 (`pasemi_dma.resource`,
as the code says) and perhaps one way of channel 1.

Deadlock is checked but in the `rx_path` runs, where the system stops when the
unit is closed and the starts are used up, in `tx_ring`, where it stops when
the writes are used up, and in `lifecycle` and `foreign_channel`, where it stops
after a failed load or after the device has been unloaded.

Fairness. `FairPathSpec`: the unit task (priority 50, above its clients) runs
again and again, and an asserted interrupt is served. `FairSpec` of `Requests`:
the unit task goes on, and a task inside `BeginIO` or `AbortIO` gets out of it.
`FairSpec` of `TxRing`: a task inside `TransmitPacket` goes on when it can; the
semaphore is served in order; the engine owes nothing. `FairSpec` of
`Lifecycle`: an open in progress and a close whose task has gone return, a unit
task goes on until it waits and wakes for CTRL_C (priority 50); that a client
ever closes, or that a shutdown loses its patience, is not assumed.
Nothing is assumed of packets, or of openers making calls. Commands are bounded
in `rx_path`, so openers that never stop sending are not covered: the loop at
`src/unit_task.c:121` would then not reach `ProcessRX`.

## What the violated runs say

Each is a disagreement between the code and its own text; `PROJECT.json`
quotes both. In short: over-crediting after a partial allocation; success
reported for an online that did not happen; `online` and the running MAC
outliving the unit task; the mask of `S2_ONEVENT` cleared by `BeginIO`; reads of
uncommon types not matched by type; channel 0, which somebody else uses, stopped
by the cleanup of a load that failed before it had chosen a channel.

What the last run does not show: a channel 1 that the check has just found to be
somebody else's is stopped by the same cleanup, and every load that gets past
the check and the allocations halts the receive channels of all others for as
long as `PA6TEth_HWInit` has the receive section disabled
(`src/hw/hw_init.c:372-411`). `OthersKeepChannels`, in `lifecycle`, names these
cases and shows that there are no others.

## Proofs

`RxRingProofs` proves, for rings and pools of every size and any number of
faults, that the ring's invariants hold in every reachable state
(`TypeCorrect`, `CreditsBacked`, `BuffersExclusive`, `SplitFrameNeverSeen`,
`CompletionsKept`, `NoHoleInRing`). Assumptions: the ring sizes are positive
and the pool is smaller than the buffer ring (`RxAssumption`), and allocation
gives all buffers or none (`AllOrNothing`); without the latter the property is
false, as `rx_partial_alloc` shows.

The invariants are not inductive: that no buffer is shared says nothing of
where the next buffer is posted. `IInv` describes both rings as windows. Going
back from the write pointer, the `V` youngest slots are credited (or will be by
the next `RXINT_INCR`), the `U` slots before them belong to the `U` unread
completions in ring order, all with distinct buffers (`BufInv`); the unread
completions are exactly the `U` positions from where `ProcessRX` stands, and
what is credited, unread and counted adds up to the ring (`DescInv`);
`LocalsInv` ties ProcessRX's locals to the rings; `ColdInv` and `WarmInv` say
what holds before and after the MAC is first enabled. Receiving moves the
boundary between `V` and `U`; `NextDesc` takes the oldest slot and makes its
buffer the youngest. One lemma per action proves that it keeps `IInv`.

`RxCreditsProofs` proves `CreditsConserved` (`NothingLost`), under the same
assumptions. It counts sets of completions, so it uses the library's facts on
adding and removing one element: the engine adds a completion at `hwDesc`, where
by `CompletionsKept` there was none; `NextDesc` removes one, which by `LocalsInv`
was there, and its buffer is counted for the next `RXINT_INCR` exactly if the
completion named a slot. Every other step leaves both sets alone.

`RxPathProofs` proves of the whole receive path, for every size of the rings:

- `PathImplementsRings`: every step of `RxPath` is a step of `RxRing` or leaves
  the rings alone. All theorems about the rings hold under the interrupt handler
  and the main loop too, without being proved again.
- `NoCommandSleeps`: no command is in the port of a sleeping unit task without
  its signal, for any number of commands, opens and closes. `TaskInv` says why:
  a command comes with the signal and only while the unit is open, and the task
  goes back to `Wait` over an empty port, or over a signal set since it woke.
- `NoFrameSleeps`: a sleeping unit task with unread frames will be woken.
  `WakeInv` extends the claim back to the moment `ProcessRX` leaves its loop:
  the ring was empty then (`LoopEndsEmpty`, from `NoHoleInRing`), and since the
  threshold is 1 by then, every frame that comes later asserts the interrupt,
  which stays asserted until the handler runs, which ends with the signal, which
  nothing but `Wait` clears while the task sleeps. It assumes `AllOrNothing` and that the unit task is
  started once (`MaxOpens = 1`); with a second start it is false
  (`rx_path_reopen`).
- `PathTypeCorrect`: the type invariant, from that of the rings.

`RxQueueProofs` proves that the rings are a queue (`FramesKeptInOrder`), for
every size of the rings and the pool, under `AllOrNothing`; and, through
`PathImplementsRings`, that they still are one under the interrupt handler and
the unit task's loop (`PathKeepsOrder`). `Shape` reads the queue off `DescInv`: its
length is `U`, the unread completions by `CreditsConserved`, and they lie forward
from `Pos` without a gap. The engine writes behind the last of them and only
while a position is free, so receiving appends; `NextDesc` clears the first, so
it takes the tail; both also where positions wrap. That ProcessRX hands over
exactly the good frames that name a slot needs `CompletionNamesItsBuffer`: the
split-frame test always finds the buffer it expects (`DeliverableIsGood`).

The last theorem of `RxRingProofs`, `OnlineWithMemory`, limits a violated run:
where every allocation succeeds, `OnlineIsLive` holds, so `rx_online_dead`
shows the one way to lose it.

`TxRingProofs` proves the transmit path for any number of tasks, buffers, ring
positions and writes, from `TxAssumption` (the ring has at least one packet):
`Accounted`, `ReadsMapped`, `IndicesInStep`, `TypeCorrect`. `IInv` adds what the
properties leave unsaid: `LockInv`, `tx_lock` is a queue without repetition of
exactly the tasks under it and only its head is past the start of the cleanup,
which is what makes the cleanup exclusive; `HandsInv` and `MappedInv`, at which
steps a task has a buffer and a mapped one; `PendingInv`, the parked buffer is
that of the packet filled last; and `EngineInv`, as long as nothing timed out
the engine owns at most one packet, that one. `IndicesInStep` needs arithmetic
modulo the ring, which the lemmas `Division` to `RemainderRound` provide. Its
bound on the credit has an invariant of its own, `CreditInv`, that holds
whatever has timed out: beyond one credit for each timeout the engine has one
only while it owns the packet filled last, and none when the cleanup is done,
because the cleanup goes on either over a cleared descriptor or by counting a
timeout.
`SentOnce` proves the refinement of `TxChannel`: by `EngineInv` the engine's
packet is the only descriptor with its O bit set (`OwnedOnce`), so `Fill` finds
the channel empty, and a timeout that finds the bit set takes back what has not
left. After that the promise has ended and every step is a stutter.

`LifecycleProofs` proves every safety property of `lifecycle` for any finite set
of clients, any number of unit tasks and any channels in use by others, from
`HwAssumption` and `LifeAssumption`. The parts of `IInv`:

- `CountInv`, `LoadedInv`: counts are cardinalities of sets of clients, and no
  client is in a call before or after the device is there. Each Open and Close
  moves one client between the sets; the library's facts on adding and removing
  an element do the counting.
- `MsgInv`: a new task and the open that waits for it name each other, and none
  shares its start message. This is what makes `StartMsgAlive` inductive.
- `WaiterInv`: the handler's task still has its loop before it or has just left
  it. It does not need `~accident`: a task clears the pointer, whoever's it is,
  before it ends.
- without an accident, `SingleInv`, `PointerInv` and `UseInv`: one task, that all
  pointers name, and that nobody told to end while anybody is in or coming in.
- `HeldInv`, `EngineInv`, `ChannelInv`: what is held at each stage of loading
  and unloading, what the engine may be doing then, and that the channels are
  the driver's own once they have been checked. `EngineSafe`, `Released` and
  `UnitOutlives` are read off them.

`PromiseHeld` proves the refinement of `DeviceLife`. What it rests on is that
`lib_OpenCnt = 1` in a close means that everybody else is out, which `CountInv`
gives for any number of clients, and that the steps of unloading are told from
those of a failed load (`HeldInv`). `OnlyFailedLoadsStop` proves
`OthersKeepChannels` and so limits the violated run `foreign_channel`: only a
load that fails before or at its check stops a channel of others, and theirs
stand still only between `DisableSection` and `EnableSection` (`OthersInv`).

`RequestsProofs` proves `OnePlace` and the refinement of the contract for any
number of requests and any commands and types, from `RequestsAssumption`.
`IInv` is `OnePlace` in parts that a step disturbs one by one (`ListInv`,
`PlaceInv`), with `TaskInv` and `HoldingInv`, what the unit task has in its
hands at each point of its loop, and `AbortInv`, that a request being aborted
was asked for or is back; `Permitted`, the contract's reason for an error, needs
the last three. Most steps answer a set of requests and take it out of the
lists, which `AnswerKeeps` and `TaskAnswers` treat once for all; the others link
or take one. `ContractImplemented` shows every step to be a step of
`SanaContract` or to leave its variables alone. That `Without` keeps the order,
drops exactly the set and repeats nothing goes by induction over the length:
`Induction`, for sets of numbers, is itself proved, from their order being
well-founded.

`RequestsOrderProofs` proves what the contract leaves open, under the same
assumption. `ServedInTurn`: a step either links one request at the end of one
list, or takes a set out of lists, or takes the head, the first orphan reader or
an aborted request (`ListsChange`, `StepTakes`), and each of these keeps the
order of what stays (`ChangeInOrder`). `ReadsMatchLists`: a read in a list is of
the list's type (`PlaceInv`), so the frame taken for it is, and neither changes
before `Deliver`; it is as much as the code does for types, `other_types` shows
what it does not. `EventsAnswerNobody` shows of every behaviour what
`event_mask` shows of one: no request has a mask left in the field that
`signal_event` looks at (`NoMask`), so going online or offline answers none.

Only model-checked: everything under fairness (`FramesRead`, `CloseEndsTask`,
`CommandsHandled`, `AllAnswered`, `AbortAnswered`, `CommandsAnswered`,
`WritesAnswered`, `OpensReturn`, `ClosesReturn`), as the prover has no rule for
liveness. Every invariant, action property and refinement that the passing runs
check is a theorem.

## Not modelled, and the plan

Left out for good:

- `linux_ref/` (28,044 of the 31,410 lines counted as implementation): parts of
  another operating system, kept as a reference, not built into the device.
  Nothing in the driver calls it, so it has no behaviour here to be faithful to.
- `tools/`, a program that prints registers; `src/device.c`, static tables.
- Debug output, and statistics: 32-bit counters that nobody reads back but the
  statistics command.
- The values written into configuration registers, the MAC address and the
  search of the interface table, reduced to found or not found; the PCI lookup,
  reduced to the three handles. `MapInterrupt`'s failure test
  (`src/hw/irq.c:70`) compares a sum that is never zero, so there is no failure
  to model.
- The links of the opener list: `FindOpener` walks it without its lock
  (`src/hw/rx.c:18`); the list is a set in `Lifecycle` and its use after a close
  is a hazard without a property.

Next: the composition of `Requests` with `Lifecycle`, so that clients close with
requests pending while another opens. Until then a request that arrives while
the unit task ends is in no model: in `Requests` nobody queues one after the last
close.
