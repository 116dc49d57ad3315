------------------------------- MODULE HwInit -------------------------------
(****************************************************************************)
(* What the device acquires when it is loaded, what it gives back when that *)
(* fails half way, and what PA6TEth_HWCleanup does to the DMA engine: Init  *)
(* (Init.c), PA6TEth_FindDevices (hw/pci.c), PA6TEth_HWInit and             *)
(* PA6TEth_HWCleanup (hw/hw_init.c), PA6TEth_InstallIRQ (hw/irq.c).         *)
(*                                                                          *)
(* A resource has the name of the field it is stored in; <ring>_map is the  *)
(* ring's DMA mapping.  The stage is the call that comes next.  Registers   *)
(* are reduced to which channels of others are stopped or stand still, and  *)
(* what the engine may read or write.                                       *)
(****************************************************************************)
EXTENDS Integers

CONSTANT PossibleForeign  \* sets of channels others may be using at load time

Channels == {"tx0", "rx0", "tx1", "rx1"}

ASSUME HwAssumption == PossibleForeign \subseteq SUBSET Channels

VARIABLES
  stage,           \* the next call of Init, HWCleanup or Expunge
  leaving,         \* why HWCleanup or the release runs: "no", "init", "expunge"
  held,            \* resources acquired and not given back
  channel_num,     \* base->tx_channel_num and base->rx_channel_num
  foreign,         \* channels of the DMA controller that others are using
  stopped,         \* channels of others that this driver has stopped
  halted,          \* channels of others that stand still, their section disabled
  dma,             \* "tx", "rx": which way the engine uses our memory
  late             \* ways that were still active when their stop timed out

hwVars == <<stage, leaving, held, channel_num, foreign, stopped, halted, dma, late>>

Handles == {"mac_dev", "dma_dev", "iob_dev"}
BaseResources == Handles \cup {"ExpansionBase", "IPCI", "UtilityBase", "IUtility", "unit"}
TxMemory == {"tx_ring", "tx_ring_map"}
RxMemory == {"rx_ring", "rx_ring_map", "rx_buf_ring", "rx_buf_ring_map"}
RingMemory == TxMemory \cup RxMemory
Resources == BaseResources \cup RingMemory \cup {"irq", "rx_bufs", "tx_buf_pending"}

\* What the engine touches going each way.
MemoryOf(way) == IF way = "tx" THEN TxMemory \cup {"tx_buf_pending"}
                 ELSE RxMemory \cup {"rx_bufs"}

\* The order of the calls.
After ==
  [ExpansionBase |-> "IPCI", IPCI |-> "mac_dev",
   mac_dev |-> "dma_dev", dma_dev |-> "iob_dev", iob_dev |-> "UtilityBase",
   UtilityBase |-> "IUtility", IUtility |-> "unit", unit |-> "dma_if",
   tx_ring |-> "tx_ring_map", tx_ring_map |-> "rx_ring",
   rx_ring |-> "rx_ring_map", rx_ring_map |-> "rx_buf_ring",
   rx_buf_ring |-> "rx_buf_ring_map", rx_buf_ring_map |-> "tx_channel",
   irq |-> "ready"]

Acquired == DOMAIN After
LoadStages == Acquired \cup {"dma_if", "channels", "tx_channel", "rx_channel"}
Stages == LoadStages \cup {"ready", "remove_irq", "stop", "free", "release", "failed",
                           "expunged"}

\* The library base comes cleared, so both channel numbers are 0 at first.
HwInit ==
  /\ stage = "ExpansionBase" /\ leaving = "no"
  /\ held = {}
  /\ channel_num = 0
  /\ foreign \in PossibleForeign /\ stopped = {} /\ halted = {}
  /\ dma = {} /\ late = {}

-----------------------------------------------------------------------------
(* Loading the device.                                                      *)

Obtain ==
  /\ stage \in Acquired
  /\ held' = held \cup {stage}
  /\ stage' = After[stage]
  /\ UNCHANGED <<leaving, channel_num, foreign, stopped, halted, dma, late>>

\* Mutant: a failed mapping goes to Init's fail path only.
CleanupAfterAllocOnly == {"tx_ring", "rx_ring", "rx_buf_ring"}

\* HWInit's own failures go through HWCleanup, all others straight to the
\* release at the end of Init.
CleanupAfter == RingMemory

Denied ==
  /\ stage \in Acquired
  /\ leaving' = "init"
  /\ stage' = IF stage \in CleanupAfter THEN "stop" ELSE "release"
  /\ UNCHANGED <<held, channel_num, foreign, stopped, halted, dma, late>>

FailHWInit == stage' = "stop" /\ leaving' = "init"

\* find_dma_interface_of_mac: the MAC is in the controller's table, or not.
FindInterface ==
  /\ stage = "dma_if"
  /\ \/ stage' = "channels" /\ UNCHANGED leaving
     \/ FailHWInit
  /\ UNCHANGED <<held, channel_num, foreign, stopped, halted, dma, late>>

\* Mutant: only the transmit channel is looked at.
BusyTxOnly == "tx1" \in foreign

Busy == {"tx1", "rx1"} \cap foreign # {}

\* The numbers are set before the check.
ChooseChannels ==
  /\ stage = "channels"
  /\ channel_num' = 1
  /\ \/ ~Busy /\ stage' = "tx_ring" /\ UNCHANGED leaving
     \/ Busy /\ FailHWInit
  /\ UNCHANGED <<held, foreign, stopped, halted, dma, late>>

OurChannels == IF channel_num = 0 THEN {"tx0", "rx0"} ELSE {"tx1", "rx1"}
Receiving == {"rx0", "rx1"}

\* The rest of HWInit cannot fail.  Our transmit channel is stopped and set up,
\* then the whole receive section is disabled, whoever receives through it.
DisableSection ==
  /\ stage = "tx_channel"
  /\ stopped' = stopped \cup ((foreign \cap OurChannels) \ Receiving)
  /\ halted' = foreign \cap Receiving
  /\ stage' = "rx_channel"
  /\ UNCHANGED <<leaving, held, channel_num, foreign, dma, late>>

\* Our receive channel is reset and set up, and the section enabled again.
EnableSection ==
  /\ stage = "rx_channel"
  /\ stopped' = stopped \cup (foreign \cap OurChannels \cap Receiving)
  /\ halted' = {}
  /\ stage' = "irq"
  /\ UNCHANGED <<leaving, held, channel_num, foreign, dma, late>>

-----------------------------------------------------------------------------
(* PA6TEth_HWCleanup, and the release at the end of Init and of Expunge.    *)

\* Mutant: the receive interface and channel are not stopped.
StopsTx == {"tx"}

Stops == {"tx", "rx"}

\* Each stop may time out: its result is not looked at.
StopChannels ==
  /\ stage = "stop"
  /\ stopped' = stopped \cup (foreign \cap OurChannels)
  /\ \E timedOut \in SUBSET (dma \cap Stops) :
       /\ late' = late \cup timedOut
       /\ dma' = dma \ (Stops \ timedOut)
  /\ stage' = "free"
  /\ UNCHANGED <<leaving, held, channel_num, foreign, halted>>

Freed == RingMemory \cup {"rx_bufs"}

FreeRings ==
  /\ stage = "free"
  /\ held' = held \ Freed
  /\ stage' = "release"
  /\ UNCHANGED <<leaving, channel_num, foreign, stopped, halted, dma, late>>

Release ==
  /\ stage = "release"
  /\ held' = held \ BaseResources
  /\ stage' = IF leaving = "init" THEN "failed" ELSE "expunged"
  /\ UNCHANGED <<leaving, channel_num, foreign, stopped, halted, dma, late>>

HwNext ==
  \/ Obtain \/ Denied \/ FindInterface \/ ChooseChannels
  \/ DisableSection \/ EnableSection
  \/ StopChannels \/ FreeRings \/ Release

HwSpec == HwInit /\ [][HwNext]_hwVars

-----------------------------------------------------------------------------
(* Properties.                                                              *)

HwTypeOK ==
  /\ stage \in Stages /\ leaving \in {"no", "init", "expunge"}
  /\ held \subseteq Resources
  /\ channel_num \in {0, 1}
  /\ foreign \subseteq Channels /\ stopped \subseteq foreign /\ halted \subseteq foreign
  /\ late \subseteq dma /\ dma \subseteq {"tx", "rx"}

\* "Check that our chosen channels are not already active": loading the device,
\* also when it fails, neither stops nor halts one that somebody else uses.
ForeignChannelsUntouched == stopped = {} /\ halted = {}

\* What others lose by this driver, from load to unload.  A channel of theirs is
\* stopped only by a load that fails before its check of the channels or by it.
\* One that gets further, and a driver that is used and unloaded, stops none:
\* all others lose is the receive section, while HWInit sets up our channel.
OthersKeepChannels ==
  /\ stopped # {} =>
       leaving = "init" /\ (channel_num = 0 \/ {"tx1", "rx1"} \cap foreign # {})
  /\ halted # {} => halted \subseteq Receiving /\ stage = "rx_channel"

\* A device that could not be loaded holds nothing, but when the interrupt was
\* what failed: then it leaves all three rings, mapped, and no handle to them.
\* A device that was unloaded leaves nothing but the last packet's buffer.
NothingLeftBehind ==
  /\ stage = "failed" => held \in {{}, RingMemory}
  /\ stage = "expunged" => held \subseteq {"tx_buf_pending"}

\* Memory the engine may use is allocated and mapped, unless its stop timed out.
EngineMemoryHeld == \A way \in dma \ late : MemoryOf(way) \subseteq held

=============================================================================
