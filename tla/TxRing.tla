------------------------------- MODULE TxRing -------------------------------
(****************************************************************************)
(* PA6TEth_TransmitPacket (hw/tx.c), run by several openers' tasks at once, *)
(* against the DMA engine.  Each packet gets a buffer of its own, which is  *)
(* freed by the next one to be queued, under tx_lock, once the engine has   *)
(* cleared the descriptor or has been waited for long enough.               *)
(*                                                                          *)
(* A packet takes two descriptors; tx_ring is indexed by packet here.  The  *)
(* engine is outside the repository: it sends, in ring order, one packet    *)
(* for each credit given by TXCHAN_INCR, and clears the O bit after it.     *)
(* Exec serves those who wait for a semaphore in their order.               *)
(****************************************************************************)
EXTENDS Integers, Sequences

CONSTANTS
  Tasks,      \* openers' tasks, each with one write at a time
  Buffers,    \* what AllocVecTags can return
  NoBuf,      \* NULL
  Pairs,      \* packets the ring holds: TX_RING_SIZE / 2
  MaxWrites   \* bound: writes in one behaviour

ASSUME TxAssumption ==
  /\ NoBuf \notin Buffers
  /\ Pairs \in Nat \ {0}
  /\ MaxWrites \in Nat

VARIABLES
  step,             \* where each task is in TransmitPacket
  tx_buf,           \* its local: the buffer it has allocated
  allocated,        \* buffers not given back with FreeVec
  mapped,           \* buffers between StartDMA and EndDMA
  tx_lock,          \* who holds the semaphore, then who waits for it
  tx_ring,          \* descriptor ring: the O bit and the buffer pointed to
  tx_next_fill,     \* unit->tx_next_fill, in packets
  tx_buf_pending,   \* unit->tx_buf_pending
  tx_fill_pending,  \* unit->tx_fill_pending, in packets
  hwNext, credit,   \* the engine: its position and its credit
  sending,          \* the buffer it is reading
  giveUps,          \* how often a descriptor was taken back from the engine
  writes            \* counter for the bound

locals == <<step, tx_buf>>
memory == <<allocated, mapped>>
pending == <<tx_buf_pending, tx_fill_pending>>
engine == <<hwNext, credit, sending>>
vars == <<locals, memory, tx_lock, tx_ring, tx_next_fill, pending, engine, giveUps,
          writes>>

Positions == 0 .. Pairs - 1
Steps == {"idle", "copy", "map", "list", "lock", "cleanup", "recheck", "release",
          "fill", "bell", "store", "reply"}

Init ==
  /\ step = [t \in Tasks |-> "idle"]
  /\ tx_buf = [t \in Tasks |-> NoBuf]
  /\ allocated = {} /\ mapped = {}
  /\ tx_lock = <<>>
  /\ tx_ring = [g \in Positions |-> [O |-> FALSE, buf |-> NoBuf]]
  /\ tx_next_fill = 0
  /\ tx_buf_pending = NoBuf /\ tx_fill_pending = 0
  /\ hwNext = 0 /\ credit = 0 /\ sending = NoBuf
  /\ giveUps = 0 /\ writes = 0

At(t, from, to) == step[t] = from /\ step' = [step EXCEPT ![t] = to]

-----------------------------------------------------------------------------
(* Before the lock: the buffer is the task's own.                           *)

\* A frame too large, or no memory for it: answered without a buffer.
Reject(t) ==
  /\ writes < MaxWrites
  /\ At(t, "idle", "reply")
  /\ writes' = writes + 1
  /\ UNCHANGED <<tx_buf, memory, tx_lock, tx_ring, tx_next_fill, pending, engine,
                 giveUps>>

Allocate(t) ==
  /\ writes < MaxWrites
  /\ At(t, "idle", "copy")
  /\ \E b \in Buffers \ allocated :
       tx_buf' = [tx_buf EXCEPT ![t] = b] /\ allocated' = allocated \cup {b}
  /\ writes' = writes + 1
  /\ UNCHANGED <<mapped, tx_lock, tx_ring, tx_next_fill, pending, engine, giveUps>>

\* The copy hook filled the buffer.
Copy(t) ==
  /\ At(t, "copy", "map")
  /\ UNCHANGED <<tx_buf, memory, tx_lock, tx_ring, tx_next_fill, pending, engine,
                 giveUps, writes>>

StartDMA(t) ==
  /\ At(t, "map", "list")
  /\ mapped' = mapped \cup {tx_buf[t]}
  /\ UNCHANGED <<tx_buf, allocated, tx_lock, tx_ring, tx_next_fill, pending, engine,
                 giveUps, writes>>

GetDMAList(t) ==
  /\ At(t, "list", "lock")
  /\ UNCHANGED <<tx_buf, memory, tx_lock, tx_ring, tx_next_fill, pending, engine,
                 giveUps, writes>>

\* Mutant: the buffer is not freed when the copy fails.
GiveBackMappedOnly(t) == IF step[t] = "list" THEN allocated \ {tx_buf[t]} ELSE allocated

GiveBack(t) == allocated \ {tx_buf[t]}

\* No opener or hook, the hook's failure, StartDMA's, or no DMA list: the
\* buffer is freed, after EndDMA if it had been mapped.
Fail(t) ==
  /\ \E from \in {"copy", "map", "list"} : At(t, from, "reply")
  /\ allocated' = GiveBack(t)
  /\ mapped' = mapped \ {tx_buf[t]}
  /\ tx_buf' = [tx_buf EXCEPT ![t] = NoBuf]
  /\ UNCHANGED <<tx_lock, tx_ring, tx_next_fill, pending, engine, giveUps, writes>>

-----------------------------------------------------------------------------
(* Under the lock: tx_cleanup_pending, then the new packet.                 *)

Holds(t) == tx_lock # <<>> /\ Head(tx_lock) = t

ObtainSemaphore(t) ==
  /\ At(t, "lock", "cleanup")
  /\ tx_lock' = Append(tx_lock, t)
  /\ UNCHANGED <<tx_buf, memory, tx_ring, tx_next_fill, pending, engine, giveUps,
                 writes>>

\* Mutant: the descriptor is polled until the engine has cleared it.
CleanupForever(t) ==
  /\ Holds(t)
  /\ \/ tx_buf_pending = NoBuf /\ At(t, "cleanup", "fill")
     \/ /\ tx_buf_pending # NoBuf
        /\ ~tx_ring[tx_fill_pending].O
        /\ At(t, "cleanup", "release")
  /\ UNCHANGED <<tx_buf, memory, tx_lock, tx_ring, tx_next_fill, pending, engine,
                 giveUps, writes>>

\* Nothing pending, or the O bit found clear, or 50000 times found set.
Cleanup(t) ==
  /\ Holds(t)
  /\ \/ tx_buf_pending = NoBuf /\ At(t, "cleanup", "fill")
     \/ /\ tx_buf_pending # NoBuf
        /\ \/ ~tx_ring[tx_fill_pending].O /\ At(t, "cleanup", "release")
           \/ tx_ring[tx_fill_pending].O /\ At(t, "cleanup", "recheck")
  /\ UNCHANGED <<tx_buf, memory, tx_lock, tx_ring, tx_next_fill, pending, engine,
                 giveUps, writes>>

\* Reschedule lets others run; then a last look, which decides on a message
\* only: "releasing anyway".
Recheck(t) ==
  /\ At(t, "recheck", "release")
  /\ giveUps' = IF tx_ring[tx_fill_pending].O THEN giveUps + 1 ELSE giveUps
  /\ UNCHANGED <<tx_buf, memory, tx_lock, tx_ring, tx_next_fill, pending, engine,
                 writes>>

Release(t) ==
  /\ At(t, "release", "fill")
  /\ tx_ring' = [tx_ring EXCEPT ![tx_fill_pending] = [O |-> FALSE, buf |-> NoBuf]]
  /\ mapped' = mapped \ {tx_buf_pending}
  /\ allocated' = allocated \ {tx_buf_pending}
  /\ tx_buf_pending' = NoBuf
  /\ UNCHANGED <<tx_buf, tx_lock, tx_next_fill, tx_fill_pending, engine, giveUps, writes>>

\* Mutant: the index is not masked.
NextFillUnmasked == tx_next_fill + 1

\* Mutant: the last position is never used.
NextFillShort == (tx_next_fill + 1) % (IF Pairs > 1 THEN Pairs - 1 ELSE Pairs)

NextFill == (tx_next_fill + 1) % Pairs

Fill(t) ==
  /\ At(t, "fill", "bell")
  /\ tx_ring' = [tx_ring EXCEPT ![tx_next_fill] = [O |-> TRUE, buf |-> tx_buf[t]]]
  /\ tx_next_fill' = NextFill
  /\ UNCHANGED <<tx_buf, memory, tx_lock, pending, engine, giveUps, writes>>

\* TXCHAN_INCR by 1: one pair of descriptors.
Doorbell(t) ==
  /\ At(t, "bell", "store")
  /\ credit' = credit + 1
  /\ UNCHANGED <<tx_buf, memory, tx_lock, tx_ring, tx_next_fill, pending, hwNext,
                 sending, giveUps, writes>>

\* Mutant: what is recorded is the next position, not the one just filled.
FilledPositionNext == tx_next_fill

\* The local fill, which tx_next_fill has gone past by now.
FilledPosition == (tx_next_fill + Pairs - 1) % Pairs

\* The buffer is left to the next packet, and the lock to the next task.
Store(t) ==
  /\ At(t, "store", "reply")
  /\ tx_buf_pending' = tx_buf[t]
  /\ tx_fill_pending' = FilledPosition
  /\ tx_buf' = [tx_buf EXCEPT ![t] = NoBuf]
  /\ tx_lock' = Tail(tx_lock)
  /\ UNCHANGED <<memory, tx_ring, tx_next_fill, engine, giveUps, writes>>

Reply(t) ==
  /\ At(t, "reply", "idle")
  /\ UNCHANGED <<tx_buf, memory, tx_lock, tx_ring, tx_next_fill, pending, engine,
                 giveUps, writes>>

-----------------------------------------------------------------------------
(* The DMA engine (external).                                               *)

HwFetch ==
  /\ credit > 0 /\ sending = NoBuf
  /\ tx_ring[hwNext].O
  /\ sending' = tx_ring[hwNext].buf
  /\ UNCHANGED <<locals, memory, tx_lock, tx_ring, tx_next_fill, pending, hwNext,
                 credit, giveUps, writes>>

\* The frame is out, or, on a descriptor taken back, nothing is sent: what the
\* engine makes of that is not known, so it may also stay there.
HwDone ==
  /\ credit > 0
  /\ sending # NoBuf \/ ~tx_ring[hwNext].O
  /\ tx_ring' = [tx_ring EXCEPT ![hwNext].O = FALSE]
  /\ hwNext' = (hwNext + 1) % Pairs
  /\ credit' = credit - 1
  /\ sending' = NoBuf
  /\ UNCHANGED <<locals, memory, tx_lock, tx_next_fill, pending, giveUps, writes>>

TransmitPacket(t) ==
  \/ Reject(t) \/ Allocate(t) \/ Copy(t) \/ StartDMA(t) \/ GetDMAList(t) \/ Fail(t)
  \/ ObtainSemaphore(t) \/ Cleanup(t) \/ Recheck(t) \/ Release(t)
  \/ Fill(t) \/ Doorbell(t) \/ Store(t) \/ Reply(t)

Next == (\E t \in Tasks : TransmitPacket(t)) \/ HwFetch \/ HwDone

Spec == Init /\ [][Next]_vars

\* A task inside TransmitPacket goes on when it can.  Nothing is assumed of the
\* engine.
FairSpec ==
  Spec /\ \A t \in Tasks : WF_vars(step[t] # "idle" /\ TransmitPacket(t))

-----------------------------------------------------------------------------
(* Properties.                                                              *)

TypeOK ==
  /\ step \in [Tasks -> Steps]
  /\ tx_buf \in [Tasks -> Buffers \cup {NoBuf}]
  /\ mapped \subseteq allocated /\ allocated \subseteq Buffers
  /\ tx_lock \in Seq(Tasks)
  /\ tx_ring \in [Positions -> [O : BOOLEAN, buf : Buffers \cup {NoBuf}]]
  /\ tx_next_fill \in Positions /\ tx_fill_pending \in Positions
  /\ tx_buf_pending \in Buffers \cup {NoBuf}
  /\ hwNext \in Positions /\ sending \in Buffers \cup {NoBuf}
  /\ credit \in Nat /\ giveUps \in Nat
  /\ writes \in 0 .. MaxWrites

\* Whatever fails, and whoever gives up waiting for the engine, every buffer
\* that is not free is in exactly one task's hands or left to the next packet:
\* none leaks, none is freed twice.
BuffersAccounted ==
  /\ allocated = ({tx_buf[t] : t \in Tasks} \cup {tx_buf_pending}) \ {NoBuf}
  /\ \A t \in Tasks : tx_buf[t] # NoBuf =>
       /\ tx_buf[t] # tx_buf_pending
       /\ \A u \in Tasks : tx_buf[u] = tx_buf[t] => u = t

\* As long as the engine never needed longer than tx_cleanup_pending waits, it
\* has credit only for a descriptor that is filled, and what it reads, or may
\* begin to read, is a mapped buffer no one is about to free.
EngineReadsMapped ==
  giveUps = 0 =>
    /\ credit > 0 => tx_ring[hwNext].O
    /\ sending # NoBuf => sending \in mapped
    /\ \A g \in Positions : tx_ring[g].O =>
         /\ tx_ring[g].buf \in mapped
         /\ \A t \in Tasks : step[t] = "release" => tx_ring[g].buf # tx_buf_pending

\* The engine, fed by increments alone, and the driver's index stay in step:
\* every credit is for the position after the last one, also after a descriptor
\* has been taken back.  Each timeout leaves at most one credit behind: beyond
\* these, the engine never has credit for more than the packet written last.
Unannounced == IF \E t \in Tasks : step[t] = "bell" THEN 1 ELSE 0
InStep == (hwNext + credit + Unannounced) % Pairs = tx_next_fill
CreditBounded == credit + Unannounced <= giveUps + 1
IndicesAgree == InStep /\ CreditBounded

\* As long as no packet that has not left is taken back, each one written to the
\* ring is sent once, and before the next is written: TxChannel's promise, kept
\* by lock, descriptors and credit whatever tasks and engine do meanwhile.
Owned == {tx_ring[g].buf : g \in {h \in Positions : tx_ring[h].O}}
Waiting == IF giveUps = 0 THEN Owned \ {sending} ELSE {}
GoingOut == IF giveUps = 0 THEN sending ELSE NoBuf
Channel == INSTANCE TxChannel WITH
  Packets <- Buffers, None <- NoBuf,
  waiting <- Waiting, sending <- GoingOut, ended <- giveUps # 0

EachSentOnce == Channel!Spec

\* Every write is answered, even if the engine stops for good.
WritesAnswered == \A t \in Tasks : step[t] # "idle" ~> step[t] = "idle"

=============================================================================
