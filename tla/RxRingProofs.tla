---------------------------- MODULE RxRingProofs ----------------------------
(****************************************************************************)
(* Proofs about RxRing, for rings and buffer pools of every size, when      *)
(* PostRxBuffers allocates either no buffer or all of them.  (With a part   *)
(* of them the property is false: run rx_partial_alloc.)                    *)
(*                                                                          *)
(* The argument: seen from the write pointer backwards, the buffer ring is  *)
(* a window of slots with distinct buffers.  The youngest V slots are       *)
(* credited to the engine, or will be by the next RXINT_INCR; the U older   *)
(* ones belong to the U unread completions, in the order of the descriptor  *)
(* ring.  Receiving a packet moves the boundary, next_desc takes the oldest *)
(* slot and appends its buffer as the youngest.                             *)
(****************************************************************************)
EXTENDS RxRing, TLAPS

AllOrNothing == AllocOutcomes \subseteq {0, NUM_RX_BUFS}

\* Going forward k places in a ring.
Fwd(i, k, size) == IF i + k < size THEN i + k ELSE i + k - size

\* Unread completions, and buffers posted and not yet filled.
U == IF live THEN Groups - count - descCredit \div 2 ELSE 0
V == bufCredit + replenish

\* How long ago a slot was posted: 1 for the slot just before the write
\* pointer, RX_RING_SIZE for the one at it.
Age(s) == IF s < rx_buf_write_ptr THEN rx_buf_write_ptr - s
          ELSE rx_buf_write_ptr + RX_RING_SIZE - s

\* Before the MAC is enabled for the first time.
ColdInv ==
  /\ rx_next_clean = 0 /\ hwDesc = 0 /\ hwBuf = 0
  /\ faults = 0 /\ count = 0 /\ replenish = 0 /\ n = 0
  /\ \A g \in Positions : ~rx_ring[g].O
  /\ pc \in {"idle", "alloc", "scan", "clear", "post", "chan", "mac"}
  /\ nbufs = IF pc \in {"idle", "alloc", "scan"} THEN 0 ELSE NUM_RX_BUFS
  /\ descCredit = IF pc = "mac" THEN 2 * Groups ELSE 0
  /\ bufCredit = IF pc \in {"chan", "mac"} THEN NUM_RX_BUFS ELSE 0

WarmInv ==
  /\ nbufs = NUM_RX_BUFS
  /\ pc \in {"idle", "alloc", "finish"} \cup Scanning \cup Crediting
  /\ pc = "finish" => rx_next_clean = 0

LocalsInv ==
  /\ pc \notin Scanning \cup Crediting => count = 0 /\ replenish = 0
  /\ pc = "credit_int" => count = 0
  /\ pc \in Scanning => n = rx_next_clean + count /\ replenish <= count
  /\ pc \in {"deliver", "next"} =>
       /\ rx_ring[n % Groups].O
       /\ ring_slot = SlotOf(rx_ring[n % Groups])
       /\ actual_buf = BufOf(ring_slot)
  /\ pc \notin {"deliver", "next"} => ring_slot = NoSlot /\ actual_buf = NoBuf

\* The descriptor ring: U unread completions from Pos up to hwDesc.
DescInv ==
  /\ U \in 0 .. Groups - count
  /\ live => descCredit = 2 * (Groups - count - U)
  /\ hwDesc = Fwd(Pos, U, Groups)
  /\ \A g \in Positions : rx_ring[g].O <=> Dist(Pos, g, Groups) < U

\* The buffer ring, once buffers are posted.
BufInv ==
  /\ V + U <= NUM_RX_BUFS
  /\ rx_buf_write_ptr = Fwd(hwBuf, V, RX_RING_SIZE)
  /\ \A s \in Slots : Age(s) <= V => rx_buf_ring[s] = rx_slot_buf[s]
  /\ \A s, t \in Slots :
       Age(s) <= V + U /\ Age(t) <= V + U /\ rx_slot_buf[s] = rx_slot_buf[t] => s = t
  /\ \A g \in Positions, s \in Slots :
       Dist(Pos, g, Groups) < U /\ Age(s) = V + U - Dist(Pos, g, Groups) =>
         rx_ring[g].ptr = rx_slot_buf[s] /\ rx_ring[g].eval \in {0, s + 1}

IInv ==
  /\ TypeOK
  /\ ~live => ColdInv
  /\ live => WarmInv
  /\ LocalsInv
  /\ DescInv
  /\ live \/ pc \in {"chan", "mac"} => BufInv

-----------------------------------------------------------------------------
USE RxAssumption DEF RX_RING_SIZE, NoBuf, NoSlot, Positions, Slots, Buffers

\* An index that has run past the end at most once is masked by one subtraction,
\* as in ProcessRX, which masks the descriptor index only when it stores it.
LEMMA Wrap ==
  ASSUME NEW size \in Nat \ {0}, NEW i \in 0 .. 2 * size - 1
  PROVE  i % size = IF i < size THEN i ELSE i - size
  BY SMT

\* The next index of a ring, which PostRxBuffers and ProcessRX advance by one.
LEMMA WrapNext ==
  ASSUME NEW size \in Nat \ {0}, NEW i \in 0 .. size - 1
  PROVE  (i + 1) % size = IF i + 1 < size THEN i + 1 ELSE 0
  BY SMT

\* The ring sizes are positive, and RXCHAN_INCR of half the descriptors credits
\* two for each packet the ring holds.
LEMMA ConstantTypes ==
  /\ Groups \in Nat \ {0} /\ RX_RING_SIZE \in Nat \ {0} /\ NUM_RX_BUFS \in Nat \ {0}
  /\ RX_RING_SIZE \div 2 = 2 * Groups
  BY SMT

\* The empty rings satisfy the invariant.
LEMMA InitInv == Init => IInv
  <1> SUFFICES ASSUME Init PROVE IInv
      OBVIOUS
  <1>1. TypeOK
    <2>1. Cleared \in Completions
        BY DEF Cleared, Completions
    <2>2. rx_ring \in [Positions -> Completions]
        BY <2>1 DEF Init
    <2>3. /\ rx_buf_ring \in [Slots -> Buffers \cup {NoBuf}]
          /\ rx_slot_buf \in [Slots -> Buffers]
        BY DEF Init
    <2>4. online \in BOOLEAN /\ live \in BOOLEAN
        BY DEF Init
    <2>5. /\ nbufs \in 0 .. NUM_RX_BUFS /\ replenish \in 0 .. NUM_RX_BUFS
          /\ rx_buf_write_ptr \in Slots /\ rx_next_clean \in Positions
          /\ pc \in {"idle"} \cup Posting \cup Scanning \cup Crediting
          /\ n \in 0 .. 2 * Groups - 1 /\ count \in 0 .. Groups
          /\ ring_slot \in Slots \cup {NoSlot} /\ actual_buf \in Buffers \cup {NoBuf}
          /\ hwDesc \in Positions /\ hwBuf \in Slots
          /\ descCredit \in 0 .. 2 * Groups /\ bufCredit \in 0 .. NUM_RX_BUFS
          /\ faults \in 0 .. MaxFaults
        BY DEF Init
    <2> QED
        BY <2>2, <2>3, <2>4, <2>5 DEF TypeOK
  <1>2. ColdInv
      BY DEF Init, ColdInv, Cleared
  <1>3. LocalsInv
      BY DEF Init, LocalsInv, Scanning, Crediting
  <1>4. DescInv
      BY DEF Init, DescInv, U, Pos, Scanning, Fwd, Dist, Cleared
  <1> QED
      BY <1>1, <1>2, <1>3, <1>4 DEF IInv, Init

\* A step that touches neither ring nor credit and keeps ProcessRX's place.
LEMMA RingsKept ==
  ASSUME IInv, Pos' = Pos,
         UNCHANGED <<rx_ring, rx_buf_ring, rx_slot_buf, rx_buf_write_ptr,
                     count, replenish, engine>>
  PROVE  DescInv' /\ (BufInv => BufInv')
  <1> USE DEF engine
  <1>1. U' = U /\ V' = V /\ \A s \in Slots : Age(s)' = Age(s)
      BY DEF U, V, Age
  <1>2. DescInv'
      BY <1>1 DEF IInv, DescInv
  <1>3. BufInv => BufInv'
      BY <1>1 DEF BufInv
  <1> QED
      BY <1>2, <1>3

\* Setting unit->online leaves rings and engine alone.
LEMMA GoOnlineInv == ASSUME IInv, GoOnline PROVE IInv'
  <1> USE DEF GoOnline, engine, rings
  <1>1. TypeOK'
    <2>1. (online \in BOOLEAN /\ live \in BOOLEAN)'
        BY DEF IInv, TypeOK
    <2> QED
        BY <2>1 DEF IInv, TypeOK, Posting
  <1>2. (~live => ColdInv)' /\ (live => WarmInv)'
      BY DEF IInv, ColdInv, WarmInv
  <1>3. LocalsInv'
      BY DEF IInv, LocalsInv, Scanning, Crediting
  <1>4. DescInv' /\ (BufInv => BufInv')
    <2>1. Pos' = Pos
        BY DEF Pos, Scanning
    <2> QED
        BY <2>1, RingsKept
  <1> QED
      BY <1>1, <1>2, <1>3, <1>4 DEF IInv

\* S2_OFFLINE leaves rings and engine alone: packets go on coming.
LEMMA GoOfflineInv == ASSUME IInv, GoOffline PROVE IInv'
  <1> USE DEF GoOffline, engine, rings, task
  <1>1. TypeOK'
    <2>1. (online \in BOOLEAN /\ live \in BOOLEAN)'
        BY DEF IInv, TypeOK
    <2> QED
        BY <2>1 DEF IInv, TypeOK
  <1>2. (~live => ColdInv)' /\ (live => WarmInv)' /\ LocalsInv'
      BY DEF IInv, ColdInv, WarmInv, LocalsInv
  <1>3. DescInv' /\ (BufInv => BufInv')
    <2>1. Pos' = Pos
        BY DEF Pos
    <2> QED
        BY <2>1, RingsKept
  <1> QED
      BY <1>1, <1>2, <1>3 DEF IInv

\* Only the first successful allocation goes on to clear the rings; once they are
\* in use nothing is left to allocate and PostRxBuffers returns.
LEMMA AllocBuffersInv == ASSUME AllOrNothing, IInv, AllocBuffers PROVE IInv'
  <1> USE DEF AllocBuffers, AfterAlloc, engine, rings
  <1>1. PICK k \in AllocOutcomes : k >= nbufs /\ nbufs' = k
                                /\ pc' = IF k = nbufs THEN "idle" ELSE "clear"
      OBVIOUS
  <1>2. k \in {0, NUM_RX_BUFS} /\ nbufs \in 0 .. NUM_RX_BUFS
      BY DEF AllOrNothing, IInv, TypeOK
  <1>3. TypeOK'
    <2>1. (online \in BOOLEAN /\ live \in BOOLEAN)'
        BY DEF IInv, TypeOK
    <2>2. nbufs' \in 0 .. NUM_RX_BUFS
        BY <1>1, <1>2
    <2>3. pc' \in {"idle"} \cup Posting
        BY <1>1 DEF Posting
    <2> QED
        BY <2>1, <2>2, <2>3 DEF IInv, TypeOK
  <1>4. (~live => ColdInv)'
      BY <1>1, <1>2 DEF IInv, ColdInv
  <1>5. (live => WarmInv)'
      BY <1>1, <1>2 DEF IInv, WarmInv
  <1>6. LocalsInv'
      BY <1>1 DEF IInv, LocalsInv, Scanning, Crediting
  <1>7. DescInv' /\ (BufInv => BufInv')
    <2>1. Pos' = Pos
        BY <1>1 DEF Pos, Scanning
    <2> QED
        BY <2>1, RingsKept
  <1> QED
      BY <1>1, <1>3, <1>4, <1>5, <1>6, <1>7 DEF IInv

\* The rings are cleared only before the engine has any credit.
LEMMA ClearRingsInv == ASSUME IInv, ClearRings PROVE IInv'
  <1> USE DEF ClearRings, engine
  <1>1. ~live /\ ColdInv
      BY DEF IInv, WarmInv, Scanning, Crediting
  <1>2. TypeOK'
    <2>1. (online \in BOOLEAN /\ live \in BOOLEAN)'
        BY DEF IInv, TypeOK
    <2>2. Cleared \in Completions
        BY DEF Cleared, Completions
    <2>3. /\ rx_ring' \in [Positions -> Completions]
          /\ rx_buf_ring' \in [Slots -> Buffers \cup {NoBuf}]
        BY <2>2
    <2> QED
        BY <2>1, <2>3 DEF IInv, TypeOK, Posting
  <1>3. \A g \in Positions : ~rx_ring'[g].O
      BY DEF Cleared
  <1>4. (~live => ColdInv)'
      BY <1>1, <1>3 DEF ColdInv
  <1>5. LocalsInv'
      BY <1>1 DEF IInv, LocalsInv, Scanning, Crediting
  <1>6. DescInv'
      BY <1>1, <1>3 DEF IInv, DescInv, ColdInv, U, Pos, Scanning
  <1> QED
      BY <1>1, <1>2, <1>4, <1>5, <1>6 DEF IInv

\* The first window of the buffer ring: every buffer posted and credited, none
\* yet filled.
LEMMA PostBuffersInv == ASSUME IInv, PostBuffers PROVE IInv'
  <1> USE DEF PostBuffers, FirstFree
  <1>1. ~live /\ ColdInv /\ nbufs = NUM_RX_BUFS /\ bufCredit = 0 /\ descCredit = 0
      BY DEF IInv, ColdInv, WarmInv, Scanning, Crediting
  <1>2. TypeOK'
    <2>1. (online \in BOOLEAN /\ live \in BOOLEAN)'
        BY DEF IInv, TypeOK
    <2>2. /\ rx_buf_ring' \in [Slots -> Buffers \cup {NoBuf}]
          /\ rx_slot_buf' \in [Slots -> Buffers]
        BY <1>1 DEF IInv, TypeOK
    <2> QED
        BY <1>1, <2>1, <2>2 DEF IInv, TypeOK, Posting
  <1>3. (~live => ColdInv)'
      BY <1>1 DEF ColdInv
  <1>4. LocalsInv'
      BY <1>1 DEF IInv, LocalsInv, Scanning, Crediting
  <1>5. DescInv'
      BY <1>1 DEF IInv, DescInv, ColdInv, U, Pos, Scanning
  <1>6. BufInv'
    <2>1. (V = NUM_RX_BUFS /\ U = 0 /\ hwBuf = 0 /\ rx_buf_write_ptr = NUM_RX_BUFS)'
        BY <1>1 DEF ColdInv, U, V
    <2>2. \A s \in Slots : Age(s)' <= NUM_RX_BUFS <=> s < NUM_RX_BUFS
        BY <2>1 DEF Age
    <2>3. \A s \in Slots : s < NUM_RX_BUFS => rx_buf_ring'[s] = s /\ rx_slot_buf'[s] = s
        BY <1>1
    <2>4. \A g \in Positions : ~(Dist(Pos, g, Groups) < U)'
        BY <2>1, <1>1 DEF Dist, Pos, ColdInv, Scanning
    <2> QED
        BY <2>1, <2>2, <2>3, <2>4 DEF BufInv, Fwd
  <1> QED
      BY <1>1, <1>2, <1>3, <1>4, <1>5, <1>6 DEF IInv

\* All descriptors are credited at once, and all of them are clear.
LEMMA CreditRingInv == ASSUME IInv, CreditRing PROVE IInv'
  <1> USE DEF CreditRing, rings
  <1>1. ~live /\ ColdInv /\ descCredit = 0
      BY DEF IInv, ColdInv, WarmInv, Scanning, Crediting
  <1>2. descCredit' = 2 * Groups
      BY <1>1, ConstantTypes
  <1>3. TypeOK'
    <2>1. (online \in BOOLEAN /\ live \in BOOLEAN)'
        BY DEF IInv, TypeOK
    <2> QED
        BY <1>2, <2>1 DEF IInv, TypeOK, Posting
  <1>4. (~live => ColdInv)'
      BY <1>1, <1>2 DEF ColdInv
  <1>5. LocalsInv'
      BY <1>1 DEF IInv, LocalsInv, Scanning, Crediting
  <1>6. U' = U /\ V' = V /\ Pos' = Pos /\ \A s \in Slots : Age(s)' = Age(s)
      BY <1>1 DEF U, V, Pos, Age, Scanning
  <1>7. DescInv' /\ BufInv'
      BY <1>1, <1>6 DEF IInv, DescInv, BufInv
  <1> QED
      BY <1>1, <1>3, <1>4, <1>5, <1>7 DEF IInv

\* From here on packets may come: the cold invariant becomes the warm one.
LEMMA EnableMacInv == ASSUME IInv, EnableMac PROVE IInv'
  <1> USE DEF EnableMac, rings
  <1>1. ~live /\ ColdInv /\ descCredit = 2 * Groups
      BY DEF IInv, ColdInv, WarmInv, Scanning, Crediting
  <1>2. TypeOK'
    <2>1. (online \in BOOLEAN /\ live \in BOOLEAN)'
        BY DEF IInv, TypeOK
    <2> QED
        BY <2>1 DEF IInv, TypeOK, Posting
  <1>3. WarmInv'
      BY <1>1 DEF ColdInv, WarmInv
  <1>4. LocalsInv'
      BY <1>1 DEF IInv, LocalsInv, Scanning, Crediting
  <1>5. U = 0 /\ U' = 0
      BY <1>1 DEF U, ColdInv
  <1>6. V' = V /\ Pos' = Pos /\ \A s \in Slots : Age(s)' = Age(s)
      BY <1>1 DEF V, Pos, Age, Scanning
  <1>7. DescInv'
    <2>1. DescInv /\ count = 0 /\ U' = U
        BY <1>1, <1>5 DEF IInv, ColdInv
    <2>2. descCredit' = 2 * (Groups - count' - U')
        BY <1>1, <1>5, <2>1
    <2> QED
        BY <1>6, <2>1, <2>2 DEF DescInv
  <1>8. BufInv'
    <2>1. BufInv /\ U' = U
        BY <1>5 DEF IInv
    <2> QED
        BY <2>1, <1>6 DEF BufInv
  <1> QED
      BY <1>2, <1>3, <1>4, <1>7, <1>8 DEF IInv

\* Resetting rx_next_clean at the end of PostRxBuffers, when packets may have come
\* already, changes nothing: ProcessRX has not run yet.
LEMMA FinishPostInv == ASSUME IInv, FinishPost PROVE IInv'
  <1> USE DEF FinishPost, engine
  <1>1. live /\ WarmInv /\ rx_next_clean = 0
      BY DEF IInv, ColdInv, WarmInv
  <1>2. TypeOK'
    <2>1. (online \in BOOLEAN /\ live \in BOOLEAN)'
        BY DEF IInv, TypeOK
    <2> QED
        BY <2>1 DEF IInv, TypeOK
  <1>3. WarmInv' /\ live'
      BY <1>1 DEF WarmInv
  <1>4. LocalsInv'
      BY DEF IInv, LocalsInv, Scanning, Crediting
  <1>5. DescInv' /\ (BufInv => BufInv')
    <2>1. Pos' = Pos
        BY <1>1 DEF Pos, Scanning
    <2> QED
        BY <2>1, RingsKept
  <1> QED
      BY <1>1, <1>2, <1>3, <1>4, <1>5 DEF IInv

\* ProcessRX starts with n at rx_next_clean and nothing counted.
LEMMA StartProcessRXInv == ASSUME IInv, StartProcessRX PROVE IInv'
  <1> USE DEF StartProcessRX, engine, rings
  <1>1. count = 0 /\ replenish = 0
      BY DEF IInv, LocalsInv, Scanning, Crediting
  <1>2. TypeOK'
    <2>1. (online \in BOOLEAN /\ live \in BOOLEAN)'
        BY DEF IInv, TypeOK
    <2> QED
        BY <2>1 DEF IInv, TypeOK, Scanning
  <1>3. (~live => ColdInv)' /\ (live => WarmInv)'
      BY DEF IInv, ColdInv, WarmInv, Scanning
  <1>4. LocalsInv'
      BY <1>1 DEF IInv, LocalsInv, Scanning, Crediting, TypeOK
  <1>5. DescInv' /\ (BufInv => BufInv')
    <2>1. rx_next_clean \in 0 .. 2 * Groups - 1 /\ rx_next_clean < Groups
        BY DEF IInv, TypeOK
    <2>2. Pos' = Pos
        BY <2>1, ConstantTypes, Wrap DEF Pos, Scanning
    <2> QED
        BY <1>1, <2>2, RingsKept
  <1> QED
      BY <1>2, <1>3, <1>4, <1>5 DEF IInv

\* Copying the frame out leaves the rings as they are.
LEMMA DeliverInv == ASSUME IInv, Deliver PROVE IInv'
  <1> USE DEF Deliver, engine, rings
  <1>1. TypeOK'
    <2>1. (online \in BOOLEAN /\ live \in BOOLEAN)'
        BY DEF IInv, TypeOK
    <2> QED
        BY <2>1 DEF IInv, TypeOK, Scanning
  <1>2. (~live => ColdInv)' /\ (live => WarmInv)'
      BY DEF IInv, ColdInv, WarmInv, Scanning
  <1>3. LocalsInv'
      BY DEF IInv, LocalsInv, Scanning, Crediting, BufOf
  <1>4. DescInv' /\ (BufInv => BufInv')
    <2>1. Pos' = Pos
        BY DEF Pos, Scanning
    <2> QED
        BY <2>1, RingsKept
  <1> QED
      BY <1>1, <1>2, <1>3, <1>4 DEF IInv

\* The completion at n, and the buffer rx_slot_buf names for it, stay the same
\* while ProcessRX has them in its locals.
LEMMA TakeDescInv == ASSUME IInv, TakeDesc PROVE IInv'
  <1> DEFINE c == rx_ring[n % Groups]
  <1> USE DEF TakeDesc, engine, rings
  <1>1. n % Groups \in Positions /\ c \in Completions
      BY ConstantTypes DEF IInv, TypeOK
  <1>2. SlotOf(c) \in Slots \cup {NoSlot}
      BY <1>1 DEF SlotOf, Completions
  <1>3. BufOf(SlotOf(c)) \in Buffers \cup {NoBuf}
      BY <1>2 DEF BufOf, IInv, TypeOK
  <1>4. live
      BY <1>1 DEF IInv, ColdInv
  <1>5. pc' \in {"deliver", "next"} /\ n' = n /\ count' = count /\ replenish' = replenish
      OBVIOUS
  <1>6. TypeOK'
    <2>1. (online \in BOOLEAN /\ live \in BOOLEAN)'
        BY DEF IInv, TypeOK
    <2>2. pc' \in Scanning /\ ring_slot' \in Slots \cup {NoSlot} /\ actual_buf' \in Buffers \cup {NoBuf}
        BY <1>2, <1>3 DEF Scanning
    <2> QED
        BY <2>1, <2>2 DEF IInv, TypeOK
  <1>7. WarmInv'
      BY <1>4, <1>5 DEF IInv, WarmInv, Scanning
  <1>8. LocalsInv'
    <2>1. ring_slot' = SlotOf(c) /\ actual_buf' = BufOf(ring_slot') /\ c.O
        OBVIOUS
    <2>2. BufOf(ring_slot)' = BufOf(ring_slot')
        BY DEF BufOf
    <2> QED
        BY <1>5, <2>1, <2>2 DEF IInv, LocalsInv, Scanning, Crediting, SlotOf
  <1>9. DescInv' /\ (BufInv => BufInv')
    <2>1. Pos' = Pos
        BY <1>5 DEF Pos, Scanning
    <2> QED
        BY <2>1, RingsKept
  <1> QED
      BY <1>4, <1>6, <1>7, <1>8, <1>9 DEF IInv

\* Storing the masked index keeps ProcessRX's place in the ring.
LEMMA EndBatchInv == ASSUME IInv, EndBatch PROVE IInv'
  <1> USE DEF EndBatch, Masked, engine
  <1>1. n \in 0 .. 2 * Groups - 1 /\ count \in Nat /\ Groups \in Nat \ {0}
      BY DEF IInv, TypeOK
  <1>2. n % Groups = IF n < Groups THEN n ELSE n - Groups
      BY <1>1, Wrap
  <1>3. rx_next_clean' = n % Groups /\ rx_next_clean' \in Positions
      BY <1>1, <1>2
  <1>4. TypeOK'
    <2>1. (online \in BOOLEAN /\ live \in BOOLEAN)'
        BY DEF IInv, TypeOK
    <2> QED
        BY <1>1, <1>3, <2>1 DEF IInv, TypeOK, Crediting
  <1>5. (~live => ColdInv)'
      BY <1>2, <1>3 DEF IInv, ColdInv
  <1>6. (live => WarmInv)'
      BY DEF IInv, WarmInv, Crediting
  <1>7. LocalsInv'
    <2>1. replenish <= count /\ replenish \in Nat
        BY DEF IInv, TypeOK, LocalsInv, Scanning
    <2>2. count = 0 => replenish = 0
        BY <1>1, <2>1
    <2> QED
        BY <1>1, <2>2 DEF IInv, LocalsInv, Scanning, Crediting
  <1>8. DescInv' /\ (BufInv => BufInv')
    <2>1. Pos' = Pos
        BY <1>3 DEF Pos, Scanning
    <2> QED
        BY <2>1, RingsKept
  <1> QED
      BY <1>4, <1>5, <1>6, <1>7, <1>8 DEF IInv

\* RXCHAN_INCR credits the descriptors cleared in this batch and no others.
LEMMA CreditChanInv == ASSUME IInv, CreditChan PROVE IInv'
  <1> USE DEF CreditChan, ChanCredit, rings
  <1>1. live /\ WarmInv
      BY DEF IInv, ColdInv
  <1>2. count \in 0 .. Groups /\ descCredit \in Nat /\ U \in 0 .. Groups - count
        /\ descCredit = 2 * (Groups - count - U)
      BY <1>1 DEF IInv, TypeOK, DescInv
  <1>3. descCredit' = 2 * (Groups - count' - U) /\ count' = 0
      BY <1>2
  <1>4. U' = U /\ V' = V /\ Pos' = Pos /\ \A s \in Slots : Age(s)' = Age(s)
      BY <1>1, <1>2, <1>3 DEF U, V, Pos, Age, Scanning
  <1>5. TypeOK'
    <2>1. (online \in BOOLEAN /\ live \in BOOLEAN)'
        BY DEF IInv, TypeOK
    <2>2. descCredit' \in 0 .. 2 * Groups
        BY <1>2, <1>3
    <2> QED
        BY <2>1, <2>2 DEF IInv, TypeOK, Crediting
  <1>6. WarmInv'
      BY <1>1 DEF WarmInv, Crediting
  <1>7. LocalsInv'
      BY DEF IInv, LocalsInv, Scanning, Crediting
  <1>8. DescInv'
      BY <1>1, <1>2, <1>3, <1>4 DEF IInv, DescInv
  <1>9. BufInv'
    <2>1. BufInv
        BY <1>1 DEF IInv
    <2> QED
        BY <1>4, <2>1 DEF BufInv
  <1> QED
      BY <1>1, <1>5, <1>6, <1>7, <1>8, <1>9 DEF IInv

\* RXINT_INCR credits the slots reposted in this batch and no others.
LEMMA CreditIntInv == ASSUME IInv, CreditInt PROVE IInv'
  <1> USE DEF CreditInt, rings
  <1>1. live /\ WarmInv /\ BufInv /\ count = 0
      BY DEF IInv, ColdInv, LocalsInv
  <1>2. bufCredit \in Nat /\ replenish \in Nat /\ U \in Nat
      BY <1>1 DEF IInv, TypeOK, DescInv
  <1>3. U' = U /\ V' = V /\ Pos' = Pos /\ \A s \in Slots : Age(s)' = Age(s)
      BY <1>1, <1>2 DEF U, V, Pos, Age, Scanning
  <1>4. TypeOK'
    <2>1. (online \in BOOLEAN /\ live \in BOOLEAN)'
        BY DEF IInv, TypeOK
    <2>2. bufCredit' \in 0 .. NUM_RX_BUFS
        BY <1>1, <1>2 DEF BufInv, V
    <2> QED
        BY <2>1, <2>2 DEF IInv, TypeOK
  <1>5. WarmInv'
      BY <1>1 DEF WarmInv
  <1>6. LocalsInv'
      BY <1>1 DEF IInv, LocalsInv, Scanning, Crediting
  <1>7. DescInv' /\ BufInv'
      BY <1>1, <1>3 DEF IInv, DescInv, BufInv
  <1> QED
      BY <1>1, <1>4, <1>5, <1>6, <1>7 DEF IInv

\* The engine fills the oldest credited slot and the next clear descriptor: the
\* boundary between the two parts of the window moves by one.
LEMMA HwReceiveInv ==
  ASSUME IInv, NEW frame \in FrameKinds, NEW fault \in BOOLEAN,
         HwReceive(frame, fault)
  PROVE  IInv'
  <1> DEFINE new == [O |-> TRUE, eval |-> IF fault THEN 0 ELSE hwBuf + 1,
                     ptr |-> rx_buf_ring[hwBuf], frame |-> frame]
  <1> USE DEF HwReceive, CanReceive, task
  <1>1. live /\ WarmInv /\ BufInv /\ LocalsInv /\ DescInv
      BY DEF IInv
  <1>2. /\ Groups \in Nat \ {0} /\ hwDesc \in 0 .. Groups - 1 /\ hwBuf \in Slots
        /\ count \in Nat /\ replenish \in Nat /\ bufCredit \in Nat /\ descCredit \in Nat
        /\ bufCredit >= 1 /\ descCredit >= 2 /\ rx_buf_write_ptr \in Slots
      BY DEF IInv, TypeOK
  <1>3. Pos \in Positions
      BY ConstantTypes DEF IInv, TypeOK, Pos
  <1>4. U \in 0 .. Groups - count /\ descCredit = 2 * (Groups - count - U)
      BY <1>1 DEF DescInv
  <1>5. U < Groups - count /\ U' = U + 1 /\ V' = V - 1 /\ V \in Nat \ {0}
      BY <1>1, <1>2, <1>4 DEF U, V
  <1>6. hwDesc' = IF hwDesc + 1 < Groups THEN hwDesc + 1 ELSE 0
      BY <1>2, WrapNext
  <1>7. hwBuf' = IF hwBuf + 1 < RX_RING_SIZE THEN hwBuf + 1 ELSE 0
      BY <1>2, ConstantTypes, WrapNext
  <1>8. Pos' = Pos /\ \A s \in Slots : Age(s)' = Age(s)
      BY DEF Pos, Age
  <1>9. /\ Dist(Pos, hwDesc, Groups) = U
        /\ \A g \in Positions : g # hwDesc => Dist(Pos, g, Groups) # U
      BY <1>1, <1>2, <1>3, <1>4, <1>5 DEF DescInv, Fwd, Dist
  <1>10. /\ Age(hwBuf) = V
         /\ \A s \in Slots : s # hwBuf => Age(s) # V
      BY <1>1, <1>2, <1>4, <1>5 DEF BufInv, Fwd, Age
  <1>11. rx_buf_ring[hwBuf] = rx_slot_buf[hwBuf] /\ rx_slot_buf[hwBuf] \in Buffers
      BY <1>1, <1>2, <1>5, <1>10 DEF BufInv, IInv, TypeOK
  <1>12. /\ new \in Completions
         /\ rx_ring' = [rx_ring EXCEPT ![hwDesc] = new]
         /\ rx_ring'[hwDesc] = new
         /\ \A g \in Positions : g # hwDesc => rx_ring'[g] = rx_ring[g]
      BY <1>2, <1>11 DEF IInv, TypeOK, Completions
  <1>13. TypeOK'
    <2>1. (online \in BOOLEAN /\ live \in BOOLEAN)'
        BY DEF IInv, TypeOK
    <2>2. rx_ring' \in [Positions -> Completions]
        BY <1>12 DEF IInv, TypeOK
    <2>3. faults' \in 0 .. MaxFaults
        BY DEF IInv, TypeOK
    <2>4. hwDesc' \in Positions /\ hwBuf' \in Slots
        BY <1>2, <1>6, <1>7
    <2>5. descCredit' \in 0 .. 2 * Groups /\ bufCredit' \in 0 .. NUM_RX_BUFS
        BY <1>2 DEF IInv, TypeOK
    <2> QED
        BY <2>1, <2>2, <2>3, <2>4, <2>5 DEF IInv, TypeOK
  <1>14. WarmInv' /\ live'
      BY <1>1 DEF WarmInv
  <1>15. LocalsInv'
    <2>1. pc \in {"deliver", "next"} => n % Groups # hwDesc /\ n % Groups \in Positions
        BY <1>1, <1>3, <1>4, <1>5, <1>9 DEF LocalsInv, DescInv, Pos, Scanning
    <2>2. BufOf(ring_slot)' = BufOf(ring_slot)
        BY DEF BufOf
    <2>3. pc \in {"deliver", "next"} => rx_ring'[n % Groups] = rx_ring[n % Groups]
        BY <1>12, <2>1
    <2> QED
        BY <1>1, <2>2, <2>3 DEF LocalsInv, SlotOf
  <1>16. DescInv'
    <2>1. U' \in 0 .. Groups - count' /\ descCredit' = 2 * (Groups - count' - U')
        BY <1>2, <1>4, <1>5
    <2>2. hwDesc' = Fwd(Pos, U + 1, Groups)
        BY <1>1, <1>2, <1>3, <1>4, <1>5, <1>6 DEF DescInv, Fwd
    <2>3. \A g \in Positions : rx_ring'[g].O <=> Dist(Pos, g, Groups) < U + 1
      <3> SUFFICES ASSUME NEW g \in Positions
                   PROVE  rx_ring'[g].O <=> Dist(Pos, g, Groups) < U + 1
          OBVIOUS
      <3>1. Dist(Pos, g, Groups) \in Nat
          BY <1>2, <1>3 DEF Dist
      <3>2. CASE g = hwDesc
          BY <1>4, <1>9, <1>12, <3>2
      <3>3. CASE g # hwDesc
          BY <1>1, <1>4, <1>9, <1>12, <3>1, <3>3 DEF DescInv
      <3> QED
          BY <3>2, <3>3
    <2> QED
        BY <1>5, <1>8, <2>1, <2>2, <2>3 DEF DescInv
  <1>17. BufInv'
    <2>1. V' + U' = V + U
        BY <1>4, <1>5
    <2>2. rx_buf_write_ptr = Fwd(hwBuf', V', RX_RING_SIZE)
        BY <1>1, <1>2, <1>4, <1>5, <1>7 DEF BufInv, Fwd
    <2>3. \A s \in Slots : Age(s) <= V - 1 => Age(s) <= V
        BY <1>2, <1>5 DEF Age
    <2>4. ASSUME NEW g \in Positions, NEW s \in Slots,
                 Dist(Pos, g, Groups) < U + 1, Age(s) = V + U - Dist(Pos, g, Groups)
          PROVE  rx_ring'[g].ptr = rx_slot_buf[s] /\ rx_ring'[g].eval \in {0, s + 1}
      <3>1. Dist(Pos, g, Groups) \in Nat
          BY <1>2, <1>3 DEF Dist
      <3>2. CASE g = hwDesc
        <4>1. s = hwBuf
            BY <1>4, <1>5, <1>9, <1>10, <2>4, <3>2
        <4> QED
            BY <1>11, <1>12, <3>2, <4>1
      <3>3. CASE g # hwDesc
          BY <1>1, <1>4, <1>9, <1>12, <2>4, <3>1, <3>3 DEF BufInv
      <3> QED
          BY <3>2, <3>3
    <2>5. \A s \in Slots : Age(s)' <= V' => rx_buf_ring'[s] = rx_slot_buf'[s]
        BY <1>1, <1>5, <1>8, <2>3 DEF BufInv
    <2>6. \A s, t \in Slots :
            Age(s)' <= V' + U' /\ Age(t)' <= V' + U' /\ rx_slot_buf'[s] = rx_slot_buf'[t] => s = t
        BY <1>1, <1>8, <2>1 DEF BufInv
    <2>7. \A g \in Positions, s \in Slots :
            Dist(Pos', g, Groups) < U' /\ Age(s)' = V' + U' - Dist(Pos', g, Groups) =>
              rx_ring'[g].ptr = rx_slot_buf'[s] /\ rx_ring'[g].eval \in {0, s + 1}
      <3> SUFFICES ASSUME NEW g \in Positions, NEW s \in Slots, Dist(Pos', g, Groups) < U',
                          Age(s)' = V' + U' - Dist(Pos', g, Groups)
                   PROVE  rx_ring'[g].ptr = rx_slot_buf'[s] /\ rx_ring'[g].eval \in {0, s + 1}
          OBVIOUS
      <3>1. Dist(Pos', g, Groups) = Dist(Pos, g, Groups)
          BY <1>8 DEF Dist
      <3>2. Dist(Pos, g, Groups) < U + 1
          BY <1>5, <3>1
      <3>3. Age(s) = Age(s)'
          BY <1>8
      <3>4. Age(s) = V + U - Dist(Pos, g, Groups)
        <4>1. Age(s)' = V' + U' - Dist(Pos', g, Groups)
            OBVIOUS
        <4>2. Dist(Pos, g, Groups) \in Nat /\ U \in Nat /\ V \in Nat
            BY <1>2, <1>3, <1>4, <1>5 DEF Dist
        <4> QED
            BY <1>5, <3>1, <3>3, <4>1, <4>2
      <3> QED
          BY <2>4, <3>2, <3>4
    <2>8. (V + U <= NUM_RX_BUFS)' /\ (rx_buf_write_ptr = Fwd(hwBuf, V, RX_RING_SIZE))'
        BY <1>1, <2>1, <2>2 DEF BufInv
    <2> QED
        BY ONLY <2>5, <2>6, <2>7, <2>8 DEF BufInv
  <1> QED
      BY <1>13, <1>14, <1>15, <1>16, <1>17 DEF IInv

\* next_desc takes the oldest slot of the window and posts its buffer as the
\* youngest, or, for a completion without a slot, only drops the oldest.
LEMMA NextDescInv == ASSUME IInv, NextDesc PROVE IInv'
  <1> DEFINE p == n % Groups
             reposted == actual_buf < NUM_RX_BUFS
             wp == rx_buf_write_ptr
  <1> USE DEF NextDesc, Repostable, SlotBufNext, engine
  <1>1. live /\ WarmInv /\ BufInv /\ LocalsInv /\ DescInv
      BY DEF IInv, ColdInv
  <1>2. /\ Groups \in Nat \ {0} /\ RX_RING_SIZE \in Nat \ {0}
        /\ n \in 0 .. 2 * Groups - 1 /\ rx_next_clean \in 0 .. Groups - 1
        /\ count \in 0 .. Groups /\ replenish \in Nat /\ bufCredit \in Nat
        /\ hwDesc \in Positions /\ hwBuf \in Slots
        /\ wp \in 0 .. RX_RING_SIZE - 1 /\ descCredit \in Nat
        /\ actual_buf \in Buffers \cup {NoBuf}
      BY ConstantTypes DEF IInv, TypeOK
  <1>3. p \in Positions /\ p = (IF n < Groups THEN n ELSE n - Groups) /\ Pos = p
    <2>1. pc = "next" /\ Pos = p
        BY DEF Pos, Scanning
    <2> HIDE DEF NextDesc, Repostable, SlotBufNext
    <2>2. n % Groups = IF n < Groups THEN n ELSE n - Groups
        BY <1>2, Wrap
    <2> QED
        BY <1>2, <2>1, <2>2
  <1>4. /\ rx_ring[p].O /\ ring_slot = SlotOf(rx_ring[p])
        /\ actual_buf = BufOf(ring_slot) /\ n = rx_next_clean + count
        /\ replenish <= count
      BY <1>1 DEF LocalsInv, Scanning
  <1>5. U \in 0 .. Groups - count /\ descCredit = 2 * (Groups - count - U)
      BY <1>1 DEF DescInv
  <1>6. U >= 1 /\ Dist(p, p, Groups) = 0 /\ count + 1 <= Groups
      BY <1>1, <1>2, <1>3, <1>4, <1>5 DEF DescInv, Dist
  <1>7. live' /\ pc' = "scan" /\ n' = n + 1 /\ count' = count + 1 /\ U' = U - 1
      BY <1>1, <1>2, <1>5 DEF U
  <1>8. n' \in 0 .. 2 * Groups - 1
      BY <1>2, <1>4, <1>6, <1>7
  <1>9. Pos' \in Positions /\ Pos' = (IF p + 1 < Groups THEN p + 1 ELSE 0)
    <2>1. n' % Groups = IF n' < Groups THEN n' ELSE n' - Groups
        BY <1>2, <1>8, Wrap
    <2> QED
        BY <1>2, <1>3, <1>7, <1>8, <2>1 DEF Pos, Scanning
  <1>10. V \in Nat /\ V + U <= NUM_RX_BUFS
      BY <1>1, <1>2 DEF V, BufInv
  <1>11. \A g \in Positions : Dist(Pos', g, Groups)
                                = IF g = p THEN Groups - 1 ELSE Dist(p, g, Groups) - 1
    <2> HIDE DEF NextDesc, Repostable, SlotBufNext
    <2>1. ASSUME NEW q \in Positions, q = (IF p + 1 < Groups THEN p + 1 ELSE 0),
                 NEW g \in Positions
          PROVE  Dist(q, g, Groups) = IF g = p THEN Groups - 1 ELSE Dist(p, g, Groups) - 1
      <3> HIDE DEF p
      <3> QED
        BY <1>2, <1>3, <2>1 DEF Dist
    <2> QED
        BY <1>9, <2>1
  <1>12. \A g \in Positions : Dist(p, g, Groups) \in Nat /\ (Dist(p, g, Groups) = 0 <=> g = p)
      BY <1>2, <1>3 DEF Dist
  <1>13. Cleared \in Completions /\ ~Cleared.O
      BY DEF Cleared, Completions
  <1>14. /\ rx_ring' \in [Positions -> Completions]
         /\ rx_ring'[p] = Cleared
         /\ \A g \in Positions : g # p => rx_ring'[g] = rx_ring[g]
      BY <1>3, <1>13 DEF IInv, TypeOK
  <1>15. /\ rx_buf_ring' \in [Slots -> Buffers \cup {NoBuf}]
         /\ rx_slot_buf' \in [Slots -> Buffers]
         /\ \A s \in Slots : rx_slot_buf'[s] = IF reposted /\ s = wp THEN actual_buf
                                               ELSE rx_slot_buf[s]
         /\ \A s \in Slots : rx_buf_ring'[s] = IF reposted /\ s = wp THEN actual_buf
                                               ELSE IF s = ring_slot THEN NoBuf
                                               ELSE rx_buf_ring[s]
      BY <1>2 DEF IInv, TypeOK
  <1>16. rx_buf_write_ptr' = IF reposted THEN (IF wp + 1 < RX_RING_SIZE THEN wp + 1 ELSE 0)
                             ELSE wp
    <2> HIDE DEF RX_RING_SIZE
    <2>1. (wp + 1) % RX_RING_SIZE = IF wp + 1 < RX_RING_SIZE THEN wp + 1 ELSE 0
        BY <1>2, WrapNext
    <2> QED
        BY <2>1
  <1>17. V' = IF reposted THEN V + 1 ELSE V
      BY <1>2 DEF V
  <1>18. TypeOK'
    <2>1. (online \in BOOLEAN /\ live \in BOOLEAN)'
        BY DEF IInv, TypeOK
    <2>2. replenish' \in 0 .. NUM_RX_BUFS
      <3>1. replenish' \in {replenish, replenish + 1}
          OBVIOUS
      <3> HIDE DEF NextDesc, Repostable, SlotBufNext
      <3> QED
          BY <1>2, <1>5, <1>6, <1>10, <3>1 DEF V
    <2>3. rx_buf_write_ptr' \in Slots
        BY <1>2, <1>16
    <2>4. count' \in 0 .. Groups
        BY <1>2, <1>6
    <2>5. UNCHANGED <<nbufs, rx_next_clean, hwDesc, hwBuf, descCredit, bufCredit, faults>>
          /\ ring_slot' = NoSlot /\ actual_buf' = NoBuf
        OBVIOUS
    <2>6. pc' \in Scanning
        BY <1>7 DEF Scanning
    <2> HIDE DEF NextDesc, Repostable, SlotBufNext
    <2> QED
        BY <1>8, <1>14, <1>15, <2>1, <2>2, <2>3, <2>4, <2>5, <2>6 DEF IInv, TypeOK
  <1>19. WarmInv'
      BY <1>1, <1>7 DEF WarmInv, Scanning
  <1>20. LocalsInv'
      BY <1>2, <1>4, <1>7 DEF LocalsInv, Scanning, Crediting
  <1>21. DescInv'
    <2>1. U' \in 0 .. Groups - count' /\ descCredit' = 2 * (Groups - count' - U')
        BY <1>2, <1>5, <1>6, <1>7
    <2>2. hwDesc' = Fwd(Pos', U', Groups)
        BY <1>1, <1>2, <1>3, <1>5, <1>6, <1>7, <1>9 DEF DescInv, Fwd
    <2>3. ASSUME NEW g \in Positions
          PROVE  rx_ring'[g].O <=> Dist(Pos', g, Groups) < U'
      <3>1. CASE g = p
          BY <1>2, <1>5, <1>7, <1>11, <1>13, <1>14, <3>1
      <3>2. CASE g # p
        <4>1. rx_ring[g].O <=> Dist(p, g, Groups) < U
            BY <1>1, <1>3 DEF DescInv
        <4> QED
          <5> HIDE DEF NextDesc, Repostable, SlotBufNext, p
          <5>1. rx_ring'[g] = rx_ring[g]
              BY <1>14, <3>2
          <5>2. Dist(Pos', g, Groups) = Dist(p, g, Groups) - 1
              BY <1>11, <3>2
          <5>3. Dist(p, g, Groups) \in Nat
              BY <1>12
          <5>4. U \in Nat /\ U' = U - 1
              BY <1>2, <1>5, <1>7
          <5> QED
              BY <4>1, <5>1, <5>2, <5>3, <5>4
      <3> QED
          BY <3>1, <3>2
    <2> HIDE DEF NextDesc, Repostable, SlotBufNext
    <2> QED
        BY <1>7, <2>1, <2>2, <2>3 DEF DescInv
  <1>22. BufInv'
    <2> DEFINE old == IF wp >= V + U THEN wp - (V + U) ELSE wp + RX_RING_SIZE - (V + U)
    <2> HIDE DEF NextDesc, Repostable, SlotBufNext
    <2>1. old \in Slots /\ Age(old) = V + U
        BY <1>2, <1>5, <1>6, <1>10 DEF Age
    <2>2. /\ rx_ring[p].eval \in {0, old + 1}
          /\ Dist(Pos, p, Groups) < U /\ Age(old) = V + U - Dist(Pos, p, Groups)
      <3>1. Dist(Pos, p, Groups) < U /\ Age(old) = V + U - Dist(Pos, p, Groups)
          BY <1>3, <1>5, <1>6, <1>10, <2>1
      <3> QED
          BY <1>1, <1>3, <2>1, <3>1 DEF BufInv
    <2>a. rx_slot_buf[old] \in Buffers
      <3>1. rx_slot_buf \in [Slots -> Buffers]
          BY DEF IInv, TypeOK
      <3> HIDE DEF old
      <3> QED
          BY <2>1, <3>1
    <2>b. ring_slot \in {old, NoSlot}
      <3>1. rx_ring[p].eval = 0 \/ rx_ring[p].eval = old + 1
          BY <2>2
      <3>2. old \in Nat
          BY <2>1, <1>2
      <3> HIDE DEF old, p, wp
      <3> QED
          BY <1>4, <3>1, <3>2 DEF SlotOf
    <2>c. ring_slot = old => actual_buf = rx_slot_buf[old] /\ reposted
      <3>1. old < RX_RING_SIZE
          BY <2>1, <1>2
      <3> HIDE DEF old, p, wp
      <3>2. ring_slot = old => actual_buf = rx_slot_buf[old]
          BY <1>4, <3>1 DEF BufOf
      <3> QED
          BY <2>a, <3>2
    <2>d. ring_slot = NoSlot => ~reposted
      <3>1. ring_slot = NoSlot => actual_buf = NoBuf
        <4>1. ~(NoSlot < RX_RING_SIZE)
            BY <1>2
        <4> HIDE DEF NoSlot, NoBuf, RX_RING_SIZE, p, old, wp
        <4> QED
            BY <1>4, <4>1 DEF BufOf
      <3>2. ~(NoBuf < NUM_RX_BUFS)
          OBVIOUS
      <3> HIDE DEF NoSlot, NoBuf, p, old, wp
      <3> QED
          BY <3>1, <3>2
    <2>3. reposted => ring_slot = old /\ actual_buf = rx_slot_buf[old]
        BY ONLY <2>b, <2>c, <2>d
    <2>4. ~reposted => ring_slot = NoSlot
        BY ONLY <2>b, <2>c
    <2>5. \A s \in Slots : Age(s) \in 1 .. RX_RING_SIZE /\ (Age(s) = RX_RING_SIZE <=> s = wp)
        BY <1>2 DEF Age
    <2>6. CASE ~reposted
      <3>1. V' = V /\ rx_buf_write_ptr' = wp /\ hwBuf' = hwBuf
        BY <1>16, <1>17, <2>6 DEF NextDesc, Repostable, SlotBufNext
      <3>2. \A s \in Slots : /\ Age(s)' = Age(s) /\ rx_slot_buf'[s] = rx_slot_buf[s]
                             /\ rx_buf_ring'[s] = rx_buf_ring[s]
        BY <1>15, <2>4, <2>6, <3>1 DEF Age
      <3>3. ASSUME NEW g \in Positions, NEW s \in Slots, Dist(Pos', g, Groups) < U - 1,
                   Age(s) = V + (U - 1) - Dist(Pos', g, Groups)
            PROVE  rx_ring'[g].ptr = rx_slot_buf[s] /\ rx_ring'[g].eval \in {0, s + 1}
        <4>1. g # p /\ Dist(Pos', g, Groups) = Dist(p, g, Groups) - 1
            BY <1>2, <1>5, <1>11, <3>3
        <4>2. Dist(Pos, g, Groups) < U /\ Age(s) = V + U - Dist(Pos, g, Groups)
            BY <1>3, <1>5, <1>10, <1>12, <3>3, <4>1
        <4> QED
            BY <1>1, <1>14, <4>1, <4>2 DEF BufInv
      <3>4. (V + U <= NUM_RX_BUFS /\ rx_buf_write_ptr = Fwd(hwBuf, V, RX_RING_SIZE))'
          BY <1>1, <1>5, <1>7, <1>10, <3>1 DEF BufInv
      <3>5. \A s \in Slots : Age(s)' <= V' => rx_buf_ring'[s] = rx_slot_buf'[s]
          BY <1>1, <3>1, <3>2 DEF BufInv
      <3>6. \A s, t \in Slots : Age(s)' <= V' + U' /\ Age(t)' <= V' + U'
                                /\ rx_slot_buf'[s] = rx_slot_buf'[t] => s = t
        <4>1. \A s \in Slots : Age(s)' <= V' + U' => Age(s) <= V + U
            BY <1>5, <1>7, <1>10, <2>5, <3>1, <3>2
        <4> QED
            BY <1>1, <3>2, <4>1 DEF BufInv
      <3>7. \A g \in Positions, s \in Slots :
              Dist(Pos', g, Groups) < U' /\ Age(s)' = V' + U' - Dist(Pos', g, Groups) =>
                rx_ring'[g].ptr = rx_slot_buf'[s] /\ rx_ring'[g].eval \in {0, s + 1}
          BY <1>7, <3>1, <3>2, <3>3
      <3> QED
          BY ONLY <3>4, <3>5, <3>6, <3>7 DEF BufInv
    <2>7. CASE reposted
      <3>1. V' = V + 1 /\ hwBuf' = hwBuf
            /\ rx_buf_write_ptr' = IF wp + 1 < RX_RING_SIZE THEN wp + 1 ELSE 0
        BY <1>16, <1>17, <2>7 DEF NextDesc, Repostable, SlotBufNext
      <3>2. \A s \in Slots : Age(s)' = IF s = wp THEN 1 ELSE Age(s) + 1
        BY <1>2, <3>1 DEF Age
      <3>3. \A s \in Slots : Age(s) <= V + U => s # wp
        BY <1>5, <1>10, <2>5
      <3>4. ASSUME NEW s \in Slots, s # wp, Age(s) <= V + U
            PROVE  rx_slot_buf'[s] = rx_slot_buf[s]
                   /\ (s # old => rx_buf_ring'[s] = rx_buf_ring[s])
        BY <1>15, <2>3, <2>7, <3>4
      <3>5. rx_slot_buf'[wp] = rx_slot_buf[old] /\ rx_buf_ring'[wp] = rx_slot_buf[old]
        BY <1>2, <1>15, <2>3, <2>7
      <3>6. (V + U <= NUM_RX_BUFS /\ rx_buf_write_ptr = Fwd(hwBuf, V, RX_RING_SIZE))'
          BY <1>1, <1>2, <1>5, <1>7, <1>10, <3>1 DEF BufInv, Fwd
      <3>7. ASSUME NEW s \in Slots, Age(s)' <= V'
            PROVE  rx_buf_ring'[s] = rx_slot_buf'[s]
        <4>1. CASE s = wp
            BY <3>5, <4>1
        <4>2. CASE s # wp
          <5>1. Age(s) <= V
              BY <1>10, <2>5, <3>1, <3>2, <3>7, <4>2
          <5>2. s # old /\ Age(s) <= V + U
              BY <1>5, <1>6, <1>10, <2>1, <2>5, <5>1
          <5> QED
              BY <1>1, <3>4, <4>2, <5>1, <5>2 DEF BufInv
        <4> QED
            BY <4>1, <4>2
      <3>8. ASSUME NEW s \in Slots, NEW t \in Slots, Age(s)' <= V' + U', Age(t)' <= V' + U',
                   rx_slot_buf'[s] = rx_slot_buf'[t]
            PROVE  s = t
        <4>1. \A r \in Slots : r # wp /\ Age(r)' <= V' + U' =>
                Age(r) <= V + U /\ r # old /\ rx_slot_buf'[r] = rx_slot_buf[r]
          <5> SUFFICES ASSUME NEW r \in Slots, r # wp, Age(r)' <= V' + U'
                       PROVE  Age(r) <= V + U /\ r # old /\ rx_slot_buf'[r] = rx_slot_buf[r]
              OBVIOUS
          <5>1. Age(r) + 1 <= V + U
              BY <1>5, <1>7, <1>10, <2>5, <3>1, <3>2
          <5>2. Age(r) <= V + U /\ r # old
              BY <1>5, <1>10, <2>1, <2>5, <5>1
          <5> QED
              BY <3>4, <5>2
        <4>2. Age(old) <= V + U
            BY <1>5, <1>10, <2>1
        <4> QED
            BY <1>1, <2>1, <3>5, <3>8, <4>1, <4>2 DEF BufInv
      <3>9. ASSUME NEW g \in Positions, NEW s \in Slots, Dist(Pos', g, Groups) < U',
                   Age(s)' = V' + U' - Dist(Pos', g, Groups)
            PROVE  rx_ring'[g].ptr = rx_slot_buf'[s] /\ rx_ring'[g].eval \in {0, s + 1}
        <4>1. g # p /\ Dist(Pos', g, Groups) = Dist(p, g, Groups) - 1
            BY <1>2, <1>5, <1>7, <1>11, <3>9
        <4>2. Dist(p, g, Groups) \in Nat /\ Dist(p, g, Groups) < U
            BY <1>5, <1>7, <1>12, <3>9, <4>1
        <4>3. s # wp /\ Age(s) = V + U - Dist(p, g, Groups)
            BY <1>5, <1>7, <1>10, <2>5, <3>1, <3>2, <3>9, <4>1, <4>2
        <4>4. Age(s) <= V + U
            BY <1>5, <1>10, <4>2, <4>3
        <4>5. rx_slot_buf'[s] = rx_slot_buf[s]
            BY <3>4, <4>3, <4>4
        <4> QED
            BY <1>1, <1>3, <1>14, <4>1, <4>2, <4>3, <4>5 DEF BufInv
      <3> QED
          BY ONLY <3>6, <3>7, <3>8, <3>9 DEF BufInv
    <2> QED
        BY <2>6, <2>7
  <1> QED
      BY <1>7, <1>18, <1>19, <1>20, <1>21, <1>22 DEF IInv

\* A step of something else keeps the invariant.
LEMMA StutterInv == ASSUME IInv, UNCHANGED vars PROVE IInv'
  <1> USE DEF vars, rings, task, engine
  <1>1. TypeOK' /\ (~live => ColdInv)' /\ (live => WarmInv)' /\ LocalsInv'
    <2>1. (online \in BOOLEAN /\ live \in BOOLEAN)'
        BY DEF IInv, TypeOK
    <2>2. TypeOK'
        BY <2>1 DEF IInv, TypeOK
    <2>3. (~live => ColdInv)' /\ (live => WarmInv)'
        BY DEF IInv, ColdInv, WarmInv
    <2>4. LocalsInv'
        BY DEF IInv, LocalsInv, SlotOf, BufOf
    <2> QED
        BY <2>2, <2>3, <2>4
  <1>2. DescInv' /\ (BufInv => BufInv')
    <2>1. Pos' = Pos
        BY DEF Pos
    <2> QED
        BY <2>1, RingsKept
  <1> QED
      BY <1>1, <1>2 DEF IInv

\* Every step of the unit task and of the engine preserves the invariant.
LEMMA StepInv == ASSUME AllOrNothing, IInv, [Next]_vars PROVE IInv'
  <1>1. ASSUME UnitTask PROVE IInv'
      BY <1>1, GoOnlineInv, GoOfflineInv, AllocBuffersInv, ClearRingsInv, PostBuffersInv,
         CreditRingInv, EnableMacInv, FinishPostInv, StartProcessRXInv, TakeDescInv,
         DeliverInv, NextDescInv, EndBatchInv, CreditChanInv, CreditIntInv DEF UnitTask
  <1>2. ASSUME Receive PROVE IInv'
      BY <1>2, HwReceiveInv DEF Receive
  <1> QED
      BY <1>1, <1>2, StutterInv DEF Next

\* The inductive invariant, for every size of the rings and of the pool.
THEOREM Invariance == ASSUME AllOrNothing PROVE Spec => []IInv
  <1>1. Init => IInv
      BY InitInv
  <1>2. IInv /\ [Next]_vars => IInv'
      BY StepInv
  <1> QED
      BY <1>1, <1>2, PTL DEF Spec

\* The variables keep their types; in particular one batch of ProcessRX never
\* handles more packets than the ring holds, and neither ring's credit ever
\* exceeds the ring or the pool.
THEOREM TypeCorrect == ASSUME AllOrNothing PROVE Spec => []TypeOK
  <1>1. IInv => TypeOK
      BY DEF IInv
  <1> QED
      BY <1>1, Invariance, PTL

\* A slot the engine has credit for is one of the V youngest, so it still holds
\* the buffer ProcessRX or PostRxBuffers put there.
LEMMA CreditedAge ==
  ASSUME IInv, NEW s \in Slots, Credited(s)
  PROVE  /\ nbufs = NUM_RX_BUFS /\ BufInv
         /\ Age(s) <= V /\ V + U <= NUM_RX_BUFS /\ U \in Nat /\ V \in Nat
         /\ rx_buf_ring[s] = rx_slot_buf[s] /\ rx_slot_buf[s] \in Buffers
  <1>1. /\ hwBuf \in Slots /\ bufCredit \in Nat /\ replenish \in Nat /\ rx_buf_write_ptr \in Slots
        /\ U \in Nat /\ V \in Nat /\ rx_slot_buf[s] \in Buffers
      BY DEF IInv, TypeOK, DescInv, V
  <1>2. bufCredit > 0
      BY <1>1 DEF Credited, Dist
  <1>3. BufInv /\ nbufs = NUM_RX_BUFS
      BY <1>2 DEF IInv, ColdInv, WarmInv
  <1>4. Age(s) <= V
      BY <1>1, <1>3 DEF Credited, Dist, BufInv, Fwd, Age, V
  <1> QED
      BY <1>1, <1>3, <1>4 DEF BufInv

\* Every credit the engine holds is for a slot with an allocated buffer.
THEOREM CreditsBacked == ASSUME AllOrNothing PROVE Spec => []CreditedSlotsHoldBuffers
  <1>1. IInv => CreditedSlotsHoldBuffers
    <2> SUFFICES ASSUME IInv, NEW s \in Slots, Credited(s) PROVE rx_buf_ring[s] < nbufs
        BY DEF CreditedSlotsHoldBuffers
    <2> QED
        BY CreditedAge
  <1> QED
      BY <1>1, Invariance, PTL

\* The slot an unread completion stands for: the one posted V + U - d places
\* before the write pointer, where d is the completion's distance from Pos.
LEMMA CompletionSlot ==
  ASSUME IInv, NEW g \in Positions, rx_ring[g].O
  PROVE  /\ nbufs = NUM_RX_BUFS /\ BufInv
         /\ \E s \in Slots : /\ Age(s) > V /\ Age(s) <= V + U
                             /\ rx_ring[g].ptr = rx_slot_buf[s]
                             /\ rx_ring[g].eval \in {0, s + 1}
                             /\ g = Pos => Age(s) = V + U
  <1> DEFINE a == V + U - Dist(Pos, g, Groups)
             s == IF rx_buf_write_ptr >= a THEN rx_buf_write_ptr - a
                  ELSE rx_buf_write_ptr + RX_RING_SIZE - a
  <1>1. live /\ nbufs = NUM_RX_BUFS /\ BufInv
      BY DEF IInv, ColdInv, WarmInv
  <1>2. Pos \in Positions
      BY ConstantTypes DEF IInv, TypeOK, Pos
  <1>3. /\ Dist(Pos, g, Groups) \in Nat /\ Dist(Pos, g, Groups) < U
        /\ g = Pos => Dist(Pos, g, Groups) = 0
      BY <1>2, ConstantTypes DEF IInv, DescInv, Dist
  <1>4. /\ U \in Nat /\ V \in Nat /\ V + U <= NUM_RX_BUFS /\ rx_buf_write_ptr \in Slots
      BY <1>1 DEF IInv, DescInv, TypeOK, V, BufInv
  <1>5. a > V /\ a <= V + U /\ a \in Nat /\ (g = Pos => a = V + U)
      BY <1>3, <1>4
  <1>6. s \in Slots /\ Age(s) = a
    <2> HIDE DEF a
    <2> QED
        BY <1>4, <1>5 DEF Age
  <1>7. rx_ring[g].ptr = rx_slot_buf[s] /\ rx_ring[g].eval \in {0, s + 1}
    <2> HIDE DEF s
    <2> QED
        BY <1>1, <1>3, <1>6 DEF BufInv
  <1> HIDE DEF a, s
  <1> QED
      BY <1>1, <1>5, <1>6, <1>7

\* No buffer is at once in reach of the engine and in the hands of the driver.
THEOREM BuffersExclusive == ASSUME AllOrNothing PROVE Spec => []NoBufferShared
  <1>1. IInv => NoBufferShared
    <2> SUFFICES ASSUME IInv, NEW s \in Slots, Credited(s)
                 PROVE  /\ \A t \in Slots :
                             Credited(t) /\ rx_buf_ring[s] = rx_buf_ring[t] => s = t
                        /\ actual_buf # NoBuf => rx_buf_ring[s] # actual_buf
                        /\ \A g \in Positions :
                             rx_ring[g].O => rx_buf_ring[s] # rx_ring[g].ptr
        BY DEF NoBufferShared
    <2>1. /\ BufInv /\ Age(s) <= V /\ V + U <= NUM_RX_BUFS /\ U \in Nat /\ V \in Nat
          /\ rx_buf_ring[s] = rx_slot_buf[s]
        BY CreditedAge
    <2>2. \A t \in Slots : Age(t) \in Nat
        BY DEF IInv, TypeOK, Age
    <2>3. ASSUME NEW t \in Slots, Credited(t), rx_buf_ring[s] = rx_buf_ring[t] PROVE s = t
      <3>1. Age(t) <= V /\ rx_buf_ring[t] = rx_slot_buf[t]
          BY <2>3, CreditedAge
      <3> QED
          BY <2>1, <2>2, <2>3, <3>1 DEF BufInv
    <2>4. ASSUME NEW g \in Positions, rx_ring[g].O PROVE rx_buf_ring[s] # rx_ring[g].ptr
      <3>1. PICK t \in Slots : /\ Age(t) > V /\ Age(t) <= V + U
                               /\ rx_ring[g].ptr = rx_slot_buf[t]
          BY <2>4, CompletionSlot
      <3> QED
          BY <2>1, <2>2, <3>1 DEF BufInv
    <2>5. actual_buf # NoBuf => rx_buf_ring[s] # actual_buf
      <3> SUFFICES ASSUME actual_buf # NoBuf PROVE rx_buf_ring[s] # actual_buf
          OBVIOUS
      <3>1. LocalsInv /\ n % Groups \in Positions
          BY ConstantTypes DEF IInv, TypeOK
      <3>2. /\ rx_ring[n % Groups].O /\ ring_slot = SlotOf(rx_ring[n % Groups])
            /\ actual_buf = BufOf(ring_slot)
          BY <3>1 DEF LocalsInv
      <3>3. PICK t \in Slots : /\ rx_ring[n % Groups].ptr = rx_slot_buf[t]
                               /\ rx_ring[n % Groups].eval \in {0, t + 1}
          BY <3>1, <3>2, CompletionSlot
      <3>4. actual_buf = rx_ring[n % Groups].ptr
          BY <3>2, <3>3 DEF SlotOf, BufOf
      <3> QED
          BY <2>4, <3>1, <3>2, <3>4
    <2> QED
        BY <2>3, <2>4, <2>5
  <1> QED
      BY <1>1, Invariance, PTL

\* The split-frame test never drops a frame.
THEOREM SplitFrameNeverSeen ==
  ASSUME AllOrNothing PROVE Spec => []CompletionNamesItsBuffer
  <1>1. IInv => CompletionNamesItsBuffer
    <2> SUFFICES ASSUME IInv, NEW g \in Positions, rx_ring[g].O, rx_ring[g].eval > 0
                 PROVE  /\ rx_ring[g].ptr < nbufs
                        /\ rx_ring[g].ptr = rx_slot_buf[rx_ring[g].eval - 1]
        BY DEF CompletionNamesItsBuffer
    <2>1. PICK s \in Slots : /\ rx_ring[g].ptr = rx_slot_buf[s]
                             /\ rx_ring[g].eval \in {0, s + 1}
        BY CompletionSlot
    <2>2. rx_ring[g].eval = s + 1 /\ s \in Nat
        BY <2>1
    <2>3. rx_slot_buf \in [Slots -> Buffers]
        BY DEF IInv, TypeOK
    <2>4. rx_slot_buf[s] \in 0 .. NUM_RX_BUFS - 1
        BY <2>3
    <2>5. nbufs = NUM_RX_BUFS
        BY CompletionSlot
    <2> QED
        BY <2>1, <2>2, <2>4, <2>5
  <1> QED
      BY <1>1, Invariance, PTL

\* No completion is overwritten before ProcessRX has read it.
THEOREM CompletionsKept == ASSUME AllOrNothing PROVE Spec => []NoCompletionOverwritten
  <1>1. IInv => NoCompletionOverwritten
    <2> SUFFICES ASSUME IInv, CanReceive PROVE ~rx_ring[hwDesc].O
        BY DEF NoCompletionOverwritten
    <2>1. live /\ descCredit >= 2 /\ descCredit \in Nat
        BY DEF CanReceive, IInv, TypeOK
    <2>2. Pos \in Positions /\ hwDesc \in Positions /\ count \in Nat
        BY ConstantTypes DEF IInv, TypeOK, Pos
    <2>3. U < Groups /\ U \in Nat /\ hwDesc = Fwd(Pos, U, Groups)
        BY <2>1, <2>2 DEF IInv, DescInv
    <2>4. ~(Dist(Pos, hwDesc, Groups) < U)
        BY <2>2, <2>3 DEF Dist, Fwd
    <2> QED
        BY <2>2, <2>4 DEF IInv, DescInv
  <1> QED
      BY <1>1, Invariance, PTL

\* ProcessRX, which stops at the first clear descriptor, misses no completion.
THEOREM NoHoleInRing == ASSUME AllOrNothing PROVE Spec => []UnreadFromPos
  <1>1. IInv => UnreadFromPos
    <2> SUFFICES ASSUME IInv, NEW g \in Positions, NEW h \in Positions, rx_ring[g].O,
                        Dist(Pos, h, Groups) <= Dist(Pos, g, Groups)
                 PROVE  rx_ring[h].O
        BY DEF UnreadFromPos
    <2>1. Pos \in Positions /\ U \in Nat
        BY ConstantTypes DEF IInv, TypeOK, Pos, DescInv
    <2>2. Dist(Pos, g, Groups) < U
        BY DEF IInv, DescInv
    <2>3. Dist(Pos, h, Groups) < U
        BY <2>1, <2>2 DEF Dist
    <2> QED
        BY <2>3 DEF IInv, DescInv
  <1> QED
      BY <1>1, Invariance, PTL

-----------------------------------------------------------------------------
(* Going online.                                                            *)

\* Between S2_ONLINE and the MAC the unit task is inside PostRxBuffers.
OnlineInv == online /\ ~live => pc \in Posting \ {"finish"}

LEMMA StepOnline ==
  ASSUME AllocOutcomes = {NUM_RX_BUFS}, IInv, OnlineInv, [Next]_vars
  PROVE  OnlineInv'
  <1>1. CASE GoOnline \/ GoOffline
      BY <1>1 DEF GoOnline, GoOffline, OnlineInv, Posting
  <1>2. CASE AllocBuffers
    <2>1. ~live => nbufs = 0
        BY <1>2 DEF AllocBuffers, IInv, ColdInv
    <2>2. nbufs' = NUM_RX_BUFS /\ pc' = AfterAlloc(NUM_RX_BUFS)
        BY <1>2 DEF AllocBuffers
    <2>3. ~live => pc' = "clear"
        BY <2>1, <2>2 DEF AfterAlloc
    <2> QED
        BY <1>2, <2>3 DEF AllocBuffers, engine, OnlineInv, Posting
  <1>3. CASE ClearRings \/ PostBuffers \/ CreditRing
      BY <1>3 DEF ClearRings, PostBuffers, CreditRing, OnlineInv, Posting
  <1>4. CASE EnableMac
      BY <1>4 DEF EnableMac, OnlineInv
  <1>5. CASE FinishPost
      BY <1>5 DEF FinishPost, IInv, ColdInv, engine, OnlineInv
  <1>6. CASE StartProcessRX
      BY <1>6 DEF StartProcessRX, engine, OnlineInv, Posting
  <1>7. CASE TakeDesc \/ Deliver \/ NextDesc \/ EndBatch \/ CreditChan \/ CreditInt
    <2>1. live' = live /\ online' = online /\ pc \notin Posting
        BY <1>7 DEF TakeDesc, Deliver, NextDesc, EndBatch, CreditChan, CreditInt, engine, Posting
    <2> QED
        BY <2>1 DEF OnlineInv
  <1>8. CASE Receive \/ UNCHANGED vars
      BY <1>8 DEF Receive, HwReceive, CanReceive, vars, task, engine, OnlineInv
  <1> QED
      BY <1>1, <1>2, <1>3, <1>4, <1>5, <1>6, <1>7, <1>8 DEF Next, UnitTask

\* Only a failed allocation leaves an online unit with a MAC that is not enabled
\* (run rx_online_dead): where all buffers are always got, S2_ONLINE keeps its word.
THEOREM OnlineWithMemory ==
  ASSUME AllocOutcomes = {NUM_RX_BUFS} PROVE Spec => []OnlineIsLive
  <1>1. AllOrNothing
      BY DEF AllOrNothing
  <1>2. Init => OnlineInv
      BY DEF Init, OnlineInv
  <1>3. IInv /\ OnlineInv /\ [Next]_vars => OnlineInv'
      BY StepOnline
  <1>4. OnlineInv => OnlineIsLive
      BY DEF OnlineInv, OnlineIsLive, Posting
  <1> QED
      BY <1>1, <1>2, <1>3, <1>4, Invariance, PTL DEF Spec

=============================================================================
