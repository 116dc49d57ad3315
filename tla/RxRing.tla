------------------------------- MODULE RxRing -------------------------------
(****************************************************************************)
(* The receive rings of pa6t_eth.device: PA6TEth_PostRxBuffers and          *)
(* PA6TEth_ProcessRX of hw/rx.c, run by the unit task, against the PA6T DMA *)
(* engine, which fills the rings at any moment.                             *)
(*                                                                          *)
(* The engine is outside the repository: it takes posted buffers in ring    *)
(* order, writes one completion (four 8-byte descriptors) per packet, also  *)
(* in ring order, and only while it holds credit in both rings, which the   *)
(* driver gives with RXINT_INCR (buffers) and RXCHAN_INCR (descriptors).    *)
(*                                                                          *)
(* A completion always starts at a multiple of four, so rx_ring is indexed  *)
(* here by packet: position g stands for descriptors 4g .. 4g+3, and the    *)
(* local n of ProcessRX counts packets where the code adds 4.  Frame bytes  *)
(* are reduced to "good" or "bad" (CRC error, or too short to carry a       *)
(* header); whom a good frame is delivered to is not this module's matter.  *)
(****************************************************************************)
EXTENDS Integers, FiniteSets

CONSTANTS
  Groups,         \* packets the descriptor ring holds: RX_RING_SIZE / 4
  NUM_RX_BUFS,    \* data buffers the driver wants to post
  AllocOutcomes,  \* how many of them may be allocated when allocation stops
  FrameKinds,     \* what the wire brings: "good" frames, "bad" ones
  MaxFaults       \* bound: completions that name no buffer slot (eval = 0)

RX_RING_SIZE == 4 * Groups

ASSUME RxAssumption ==
  /\ Groups \in Nat \ {0}
  /\ NUM_RX_BUFS \in Nat \ {0}
  /\ NUM_RX_BUFS < RX_RING_SIZE
  /\ AllocOutcomes \subseteq 0 .. NUM_RX_BUFS
  /\ FrameKinds \subseteq {"good", "bad"}
  /\ MaxFaults \in Nat

NoBuf == NUM_RX_BUFS    \* an empty buffer-ring slot; the code's sentinel too
NoSlot == RX_RING_SIZE  \* the code's sentinel for "no slot"

VARIABLES
  online,           \* unit->online
  nbufs,            \* rx_bufs[0 .. nbufs-1] are allocated and DMA-mapped
  rx_ring,          \* descriptor ring, by packet
  rx_buf_ring,      \* buffer pointer ring: the buffer each slot points to
  rx_slot_buf,      \* unit->rx_slot_buf
  rx_buf_write_ptr, \* unit->rx_buf_write_ptr
  rx_next_clean,    \* unit->rx_next_clean, in packets
  pc,               \* where the unit task is
  n, count, replenish, ring_slot, actual_buf,   \* locals of ProcessRX
  live,             \* the MAC is enabled: packets can arrive
  hwDesc, hwBuf,    \* the engine's next descriptor group and buffer slot
  descCredit,       \* RXCHAN credit, in units of two descriptors
  bufCredit,        \* RXINT credit, in buffers
  faults            \* completions written so far with eval = 0

task == <<pc, n, count, replenish, ring_slot, actual_buf>>
rings == <<rx_ring, rx_buf_ring, rx_slot_buf, rx_buf_write_ptr, rx_next_clean>>
engine == <<live, hwDesc, hwBuf, descCredit, bufCredit, faults>>
vars == <<online, nbufs, rings, task, engine>>

Positions == 0 .. Groups - 1
Slots == 0 .. RX_RING_SIZE - 1
Buffers == 0 .. NUM_RX_BUFS - 1
Scanning == {"scan", "deliver", "next"}
Posting == {"alloc", "clear", "post", "chan", "mac", "finish"}
Crediting == {"credit_chan", "credit_int"}

Completions == [O : BOOLEAN, eval : 0 .. RX_RING_SIZE, ptr : Buffers \cup {NoBuf},
                frame : {"good", "bad"}]
Cleared == [O |-> FALSE, eval |-> 0, ptr |-> NoBuf, frame |-> "good"]

Init ==
  /\ online = FALSE
  /\ nbufs = 0
  /\ rx_ring = [g \in Positions |-> Cleared]
  /\ rx_buf_ring = [s \in Slots |-> NoBuf]
  /\ rx_slot_buf = [s \in Slots |-> 0]
  /\ rx_buf_write_ptr = 0
  /\ rx_next_clean = 0
  /\ pc = "idle"
  /\ n = 0 /\ count = 0 /\ replenish = 0
  /\ ring_slot = NoSlot /\ actual_buf = NoBuf
  /\ live = FALSE
  /\ hwDesc = 0 /\ hwBuf = 0
  /\ descCredit = 0 /\ bufCredit = 0
  /\ faults = 0

-----------------------------------------------------------------------------
(* Going online: CONFIGINTERFACE and S2_ONLINE set the flag first and then  *)
(* run PostRxBuffers; going offline clears the flag and leaves the rings    *)
(* and the engine as they are.                                              *)

GoOnline ==
  /\ pc = "idle" /\ ~online
  /\ online' = TRUE
  /\ pc' = "alloc"
  /\ UNCHANGED <<nbufs, rings, n, count, replenish, ring_slot, actual_buf, engine>>

GoOffline ==
  /\ pc = "idle" /\ online
  /\ online' = FALSE
  /\ UNCHANGED <<nbufs, rings, task, engine>>

\* Mutant: the rings are set up again for the buffers they have already.
AfterAllocAlways(k) == "clear"

\* nalloced == 0: this call has allocated nothing.
AfterAlloc(k) == IF k = nbufs THEN "idle" ELSE "clear"

\* The allocation loop skips what is allocated already and stops at the first
\* failure; PostRxBuffers returns early when this call allocated nothing.
AllocBuffers ==
  /\ pc = "alloc"
  /\ \E k \in AllocOutcomes :
       /\ k >= nbufs
       /\ nbufs' = k
       /\ pc' = AfterAlloc(k)
  /\ UNCHANGED <<online, rings, n, count, replenish, ring_slot, actual_buf, engine>>

ClearRings ==
  /\ pc = "clear"
  /\ rx_ring' = [g \in Positions |-> Cleared]
  /\ rx_buf_ring' = [s \in Slots |-> NoBuf]
  /\ pc' = "post"
  /\ UNCHANGED <<online, nbufs, rx_slot_buf, rx_buf_write_ptr, rx_next_clean,
                 n, count, replenish, ring_slot, actual_buf, engine>>

\* Mutant: reposting starts at the first slot, not after the posted ones.
FirstFreeZero == 0

FirstFree == NUM_RX_BUFS

\* The interface is enabled, the buffers there are are posted, and the engine
\* is given NUM_RX_BUFS credits.
PostBuffers ==
  /\ pc = "post"
  /\ rx_buf_ring' = [s \in Slots |-> IF s < nbufs THEN s ELSE rx_buf_ring[s]]
  /\ rx_slot_buf' = [s \in Slots |-> IF s < nbufs THEN s ELSE rx_slot_buf[s]]
  /\ rx_buf_write_ptr' = FirstFree
  /\ bufCredit' = bufCredit + NUM_RX_BUFS
  /\ pc' = "chan"
  /\ UNCHANGED <<online, nbufs, rx_ring, rx_next_clean, n, count, replenish,
                 ring_slot, actual_buf, live, hwDesc, hwBuf, descCredit, faults>>

CreditRing ==
  /\ pc = "chan"
  /\ descCredit' = descCredit + RX_RING_SIZE \div 2
  /\ pc' = "mac"
  /\ UNCHANGED <<online, nbufs, rings, n, count, replenish, ring_slot, actual_buf,
                 live, hwDesc, hwBuf, bufCredit, faults>>

EnableMac ==
  /\ pc = "mac"
  /\ live' = TRUE
  /\ pc' = "finish"
  /\ UNCHANGED <<online, nbufs, rings, n, count, replenish, ring_slot, actual_buf,
                 hwDesc, hwBuf, descCredit, bufCredit, faults>>

FinishPost ==
  /\ pc = "finish"
  /\ rx_next_clean' = 0
  /\ pc' = "idle"
  /\ UNCHANGED <<online, nbufs, rx_ring, rx_buf_ring, rx_slot_buf, rx_buf_write_ptr,
                 n, count, replenish, ring_slot, actual_buf, engine>>

-----------------------------------------------------------------------------
(* ProcessRX, one step per access to what the engine also touches.          *)

\* The unit task calls it at the end of every wakeup while online.
StartProcessRX ==
  /\ pc = "idle" /\ online
  /\ n' = rx_next_clean
  /\ count' = 0
  /\ replenish' = 0
  /\ pc' = "scan"
  /\ UNCHANGED <<online, nbufs, rings, ring_slot, actual_buf, engine>>

SlotOf(c) == IF c.eval > 0 THEN c.eval - 1 ELSE NoSlot
BufOf(slot) == IF slot < RX_RING_SIZE THEN rx_slot_buf[slot] ELSE NoBuf

\* Mutant: the status word of the frame is not looked at.
DeliverableAnyFrame(c) ==
  /\ SlotOf(c) < RX_RING_SIZE
  /\ BufOf(SlotOf(c)) < nbufs
  /\ c.ptr = BufOf(SlotOf(c))

\* Every check that sends a completed frame to next_desc undelivered: bad
\* frame, no slot, no such buffer, and the split-frame test on PTR.
Deliverable(c) ==
  /\ c.frame = "good"
  /\ SlotOf(c) < RX_RING_SIZE
  /\ BufOf(SlotOf(c)) < nbufs
  /\ c.ptr = BufOf(SlotOf(c))

TakeDesc ==
  /\ pc = "scan"
  /\ rx_ring[n % Groups].O
  /\ LET c == rx_ring[n % Groups]
     IN /\ ring_slot' = SlotOf(c)
        /\ actual_buf' = BufOf(SlotOf(c))
        /\ pc' = IF Deliverable(c) THEN "deliver" ELSE "next"
  /\ UNCHANGED <<online, nbufs, rings, n, count, replenish, engine>>

\* The frame is copied out of rx_bufs[actual_buf], or dropped for want of a
\* reader.
Deliver ==
  /\ pc = "deliver"
  /\ pc' = "next"
  /\ UNCHANGED <<online, nbufs, rings, n, count, replenish, ring_slot, actual_buf,
                 engine>>

\* Mutant: off by one, the last buffer counts as no buffer.
RepostableButLast(buf) == buf < NUM_RX_BUFS - 1

Repostable(buf) == buf < NUM_RX_BUFS

\* Mutant: rx_slot_buf is not told of the reposted buffer.
SlotBufForgotten(s, reposted) == rx_slot_buf[s]

\* rx_slot_buf[s] after next_desc.
SlotBufNext(s, reposted) ==
  IF reposted /\ s = rx_buf_write_ptr THEN actual_buf ELSE rx_slot_buf[s]

\* next_desc: clear the descriptors, zero the consumed slot, repost its buffer
\* at the write pointer.  n is not masked.
NextDesc ==
  /\ pc = "next"
  /\ rx_ring' = [rx_ring EXCEPT ![n % Groups] = Cleared]
  /\ LET reposted == Repostable(actual_buf)
         wp == rx_buf_write_ptr
     IN /\ rx_buf_ring' = [s \in Slots |->
             IF reposted /\ s = wp THEN actual_buf
             ELSE IF s = ring_slot THEN NoBuf ELSE rx_buf_ring[s]]
        /\ rx_slot_buf' = [s \in Slots |-> SlotBufNext(s, reposted)]
        /\ rx_buf_write_ptr' = IF reposted THEN (wp + 1) % RX_RING_SIZE ELSE wp
        /\ replenish' = IF reposted THEN replenish + 1 ELSE replenish
  /\ n' = n + 1
  /\ count' = count + 1
  /\ ring_slot' = NoSlot
  /\ actual_buf' = NoBuf
  /\ pc' = "scan"
  /\ UNCHANGED <<online, nbufs, rx_next_clean, engine>>

\* Mutant: the index is stored as it is.
Unmasked(k) == k

\* Mutant: an index past the end starts over at 0.
MaskedToZero(k) == IF k >= Groups THEN 0 ELSE k

Masked(k) == IF k >= Groups THEN k % Groups ELSE k

\* No completion at n: leave the loop and store the masked index.
EndBatch ==
  /\ pc = "scan"
  /\ ~rx_ring[n % Groups].O
  /\ rx_next_clean' = Masked(n)
  /\ pc' = IF count > 0 THEN "credit_chan" ELSE "idle"
  /\ n' = 0
  /\ UNCHANGED <<online, nbufs, rx_ring, rx_buf_ring, rx_slot_buf, rx_buf_write_ptr,
                 count, replenish, ring_slot, actual_buf, engine>>

\* Mutant: RXCHAN_INCR counts descriptors, not pairs of them.
ChanCreditSingle == count * 4

ChanCredit == count * 2

CreditChan ==
  /\ pc = "credit_chan"
  /\ descCredit' = descCredit + ChanCredit
  /\ count' = 0
  /\ pc' = "credit_int"
  /\ UNCHANGED <<online, nbufs, rings, n, replenish, ring_slot, actual_buf,
                 live, hwDesc, hwBuf, bufCredit, faults>>

CreditInt ==
  /\ pc = "credit_int"
  /\ bufCredit' = bufCredit + replenish
  /\ replenish' = 0
  /\ pc' = "idle"
  /\ UNCHANGED <<online, nbufs, rings, n, count, ring_slot, actual_buf,
                 live, hwDesc, hwBuf, descCredit, faults>>

-----------------------------------------------------------------------------
(* The DMA engine (external).  It uses the slot its buffer credit tells it  *)
(* to use, whatever the slot holds, and overwrites the descriptors its ring *)
(* credit tells it to write, whatever they hold.                            *)

CanReceive == live /\ descCredit >= 2 /\ bufCredit >= 1

HwReceive(frame, fault) ==
  /\ CanReceive
  /\ fault => faults < MaxFaults
  /\ rx_ring' = [rx_ring EXCEPT ![hwDesc] =
       [O |-> TRUE, eval |-> IF fault THEN 0 ELSE hwBuf + 1,
        ptr |-> rx_buf_ring[hwBuf], frame |-> frame]]
  /\ hwDesc' = (hwDesc + 1) % Groups
  /\ hwBuf' = (hwBuf + 1) % RX_RING_SIZE
  /\ descCredit' = descCredit - 2
  /\ bufCredit' = bufCredit - 1
  /\ faults' = IF fault THEN faults + 1 ELSE faults
  /\ UNCHANGED <<online, nbufs, rx_buf_ring, rx_slot_buf, rx_buf_write_ptr,
                 rx_next_clean, task, live>>

Receive == \E frame \in FrameKinds, fault \in BOOLEAN : HwReceive(frame, fault)

UnitTask ==
  \/ GoOnline \/ GoOffline
  \/ AllocBuffers \/ ClearRings \/ PostBuffers \/ CreditRing \/ EnableMac \/ FinishPost
  \/ StartProcessRX \/ TakeDesc \/ Deliver \/ NextDesc \/ EndBatch
  \/ CreditChan \/ CreditInt

Next == UnitTask \/ Receive

Spec == Init /\ [][Next]_vars

-----------------------------------------------------------------------------
(* Properties.                                                              *)

TypeOK ==
  /\ online \in BOOLEAN /\ live \in BOOLEAN
  /\ nbufs \in 0 .. NUM_RX_BUFS
  /\ rx_ring \in [Positions -> Completions]
  /\ rx_buf_ring \in [Slots -> Buffers \cup {NoBuf}]
  /\ rx_slot_buf \in [Slots -> Buffers]
  /\ rx_buf_write_ptr \in Slots
  /\ rx_next_clean \in Positions
  /\ pc \in {"idle"} \cup Posting \cup Scanning \cup Crediting
  /\ n \in 0 .. 2 * Groups - 1
  /\ count \in 0 .. Groups
  /\ replenish \in 0 .. NUM_RX_BUFS
  /\ ring_slot \in Slots \cup {NoSlot}
  /\ actual_buf \in Buffers \cup {NoBuf}
  /\ hwDesc \in Positions
  /\ hwBuf \in Slots
  /\ descCredit \in 0 .. 2 * Groups
  /\ bufCredit \in 0 .. NUM_RX_BUFS
  /\ faults \in 0 .. MaxFaults

\* Steps from one ring index forward to another.
Dist(from, to, size) == IF to >= from THEN to - from ELSE to + size - from

\* The position ProcessRX looks at next, or would if it ran.
Pos == IF pc \in Scanning THEN n % Groups ELSE rx_next_clean

Credited(s) == Dist(hwBuf, s, RX_RING_SIZE) < bufCredit

\* A unit that is online, with its command answered, has a MAC that receives.
\* S2_ONLINE sets the flag whether or not PostRxBuffers gets to the MAC.
OnlineIsLive == pc = "idle" /\ online => live

\* The engine never takes a credit for a slot that holds no buffer: it would
\* write the frame to bus address 0.  PostRxBuffers credits NUM_RX_BUFS and
\* ProcessRX credits replenish, so both have to be what was really posted.
CreditedSlotsHoldBuffers ==
  \A s \in Slots : Credited(s) => rx_buf_ring[s] < nbufs

\* A buffer the engine may write is in one credited slot only, is not the one
\* being copied out by ProcessRX, and holds no completed frame not yet read:
\* no frame is overwritten between its completion and its delivery.
NoBufferShared ==
  \A s \in Slots : Credited(s) =>
    /\ \A t \in Slots : Credited(t) /\ rx_buf_ring[s] = rx_buf_ring[t] => s = t
    /\ actual_buf # NoBuf => rx_buf_ring[s] # actual_buf
    /\ \A g \in Positions : rx_ring[g].O => rx_buf_ring[s] # rx_ring[g].ptr

\* rx_slot_buf still names the buffer the engine filled when ProcessRX reads a
\* completion, although slots are reused out of step with buffers: the "split
\* frame" test on PTR never drops a good frame.
CompletionNamesItsBuffer ==
  \A g \in Positions :
    LET c == rx_ring[g]
    IN c.O /\ c.eval > 0 => c.ptr < nbufs /\ c.ptr = rx_slot_buf[c.eval - 1]

\* The engine has descriptor credit only for descriptors ProcessRX cleared, so
\* an unread completion is never overwritten, whenever the RXCHAN_INCR comes.
NoCompletionOverwritten == CanReceive => ~rx_ring[hwDesc].O

\* Unread completions follow one another from the position ProcessRX looks at:
\* its loop, which stops at the first clear descriptor, misses none, also after
\* the unmasked n has passed the end of the ring.
UnreadFromPos ==
  \A g, h \in Positions :
    rx_ring[g].O /\ Dist(Pos, h, Groups) <= Dist(Pos, g, Groups) => rx_ring[h].O

Unread == {g \in Positions : rx_ring[g].O}

\* No step of posting, receiving, dropping, reposting or going offline and
\* online again loses a credit or a buffer: descriptors are credited, unread or
\* counted for the next RXCHAN_INCR, and buffers are credited, unread or
\* counted for the next RXINT_INCR, all but one per completion without a slot.
CreditsConserved ==
  live =>
    /\ descCredit + 2 * count + 2 * Cardinality(Unread) = 2 * Groups
    /\ bufCredit + replenish + Cardinality({g \in Unread : rx_ring[g].eval > 0})
         = NUM_RX_BUFS - faults

-----------------------------------------------------------------------------
(* The rings implement the queue of RxQueue.                                *)

\* A completion that names no slot has no buffer to be found by.
Content(c) == IF c.frame = "good" /\ c.eval > 0 THEN "good" ELSE "bad"

\* The unread completions, read forward from Pos.
Waiting == [i \in 1 .. Cardinality(Unread) |-> Content(rx_ring[(Pos + i - 1) % Groups])]

Phase == IF pc = "deliver" THEN "give" ELSE IF pc = "next" THEN "seen" ELSE "unseen"

Frames == INSTANCE RxQueue WITH Capacity <- Groups, up <- live, queue <- Waiting,
                                phase <- Phase

\* Whatever the interleaving of the engine and ProcessRX, of wrap-arounds, bad
\* frames, late credits and spells offline: frames are taken in the order they
\* came, each once, and every good one with a buffer slot is delivered.  The
\* split-frame test, a stale slot map or an overwritten completion would make
\* ProcessRX drop, skip or repeat one.
FramesInOrder == Frames!Spec

=============================================================================
