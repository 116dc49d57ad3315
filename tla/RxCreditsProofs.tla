--------------------------- MODULE RxCreditsProofs ---------------------------
(****************************************************************************)
(* The receive rings lose no credit and no buffer, for rings and pools of   *)
(* every size.  CreditsConserved counts sets of completions; the engine     *)
(* adds one to them and next_desc removes one, at the positions that the    *)
(* invariant of RxRingProofs gives.                                         *)
(****************************************************************************)
EXTENDS RxRingProofs, FiniteSetTheorems

\* The unread completions that name a slot, whose buffers ProcessRX gives back.
Named == {g \in Unread : rx_ring[g].eval > 0}

LEMMA PositionsFinite == \A S \in SUBSET Positions : IsFiniteSet(S)
  <1>1. IsFiniteSet(Positions)
    <2>1. 0 \in Int /\ Groups - 1 \in Int
        BY ConstantTypes
    <2> QED
        BY <2>1, FS_Interval DEF Positions
  <1> QED
      BY <1>1, FS_Subset

LEMMA Finite == IsFiniteSet(Unread) /\ IsFiniteSet(Named)
  <1>1. Unread \subseteq Positions /\ Named \subseteq Positions
      BY DEF Unread, Named
  <1> QED
      BY <1>1, PositionsFinite

\* Steps that leave the descriptor ring alone leave both sets alone.
LEMMA SetsKept == ASSUME UNCHANGED rx_ring PROVE Unread' = Unread /\ Named' = Named
  BY DEF Unread, Named

\* Both equations, with the sets' sizes as numbers.
Balanced(chan, counted, unread, buf, again, named, lost) ==
  /\ chan + 2 * counted + 2 * unread = 2 * Groups
  /\ buf + again + named = NUM_RX_BUFS - lost

LEMMA Equations ==
  CreditsConserved <=>
    (live => Balanced(descCredit, count, Cardinality(Unread), bufCredit, replenish,
                      Cardinality(Named), faults))
  BY DEF CreditsConserved, Balanced, Named

LEMMA Numbers ==
  ASSUME IInv
  PROVE  /\ Groups \in Nat /\ NUM_RX_BUFS \in Nat
         /\ descCredit \in Nat /\ count \in Nat /\ bufCredit \in Nat /\ replenish \in Nat
         /\ faults \in Nat /\ Cardinality(Unread) \in Nat /\ Cardinality(Named) \in Nat
  <1>1. Cardinality(Unread) \in Nat /\ Cardinality(Named) \in Nat
      BY Finite, FS_CardinalityType
  <1>2. Groups \in Nat /\ NUM_RX_BUFS \in Nat
      BY ConstantTypes
  <1> QED
      BY <1>1, <1>2 DEF IInv, TypeOK

\* The engine adds a completion where there was none, and takes both credits.
LEMMA ReceiveConserves ==
  ASSUME IInv, NoCompletionOverwritten, CreditsConserved,
         NEW frame \in FrameKinds, NEW fault \in BOOLEAN, HwReceive(frame, fault)
  PROVE  CreditsConserved'
  <1>1. PICK h : h = hwDesc
      OBVIOUS
  <1>2. /\ live /\ count' = count /\ replenish' = replenish
        /\ descCredit' = descCredit - 2 /\ bufCredit' = bufCredit - 1
        /\ faults' = (IF fault THEN faults + 1 ELSE faults)
      BY DEF HwReceive, CanReceive, task
  <1>3. h \in Positions /\ ~rx_ring[h].O /\ hwBuf \in Nat /\ rx_ring \in [Positions -> Completions]
      BY <1>1 DEF HwReceive, NoCompletionOverwritten, IInv, TypeOK, Slots
  <1>4. /\ rx_ring'[h].O /\ rx_ring'[h].eval = (IF fault THEN 0 ELSE hwBuf + 1)
        /\ \A g \in Positions \ {h} : rx_ring'[g] = rx_ring[g]
      BY <1>1, <1>3 DEF HwReceive
  <1>5. Unread' = Unread \cup {h} /\ h \notin Unread
      BY <1>3, <1>4 DEF Unread
  <1>6. h \notin Named /\ Named' = IF fault THEN Named ELSE Named \cup {h}
    <2>1. h \notin Named
        BY <1>5 DEF Named
    <2>2. rx_ring'[h].eval > 0 <=> ~fault
        BY <1>3, <1>4
    <2>3. \A g \in Unread : g \in Positions \ {h}
        BY <1>5 DEF Unread
    <2> QED
        BY <1>4, <1>5, <2>1, <2>2, <2>3 DEF Named
  <1>7. Cardinality(Unread') = Cardinality(Unread) + 1
      BY <1>5, Finite, FS_AddElement
  <1>8. Cardinality(Named') = IF fault THEN Cardinality(Named) ELSE Cardinality(Named) + 1
      BY <1>6, Finite, FS_AddElement
  <1>9. Balanced(descCredit, count, Cardinality(Unread), bufCredit, replenish,
                 Cardinality(Named), faults)
      BY <1>2, Equations
  <1>10. Balanced(descCredit', count', Cardinality(Unread'), bufCredit', replenish',
                  Cardinality(Named'), faults')
    <2>1. CASE fault
        BY <1>2, <1>7, <1>8, <1>9, <2>1, Numbers DEF Balanced
    <2>2. CASE ~fault
        BY <1>2, <1>7, <1>8, <1>9, <2>2, Numbers DEF Balanced
    <2> QED
        BY <2>1, <2>2
  <1> QED
      BY <1>10 DEF CreditsConserved, Balanced, Named

\* next_desc takes one completion out and counts its descriptors; its buffer is
\* counted too if it named a slot, and only then.
LEMMA NextDescConserves ==
  ASSUME IInv, CreditsConserved, NextDesc
  PROVE  CreditsConserved'
  <1>1. PICK h : h = n % Groups
      OBVIOUS
  <1>2. /\ count' = count + 1
        /\ replenish' = (IF actual_buf < NUM_RX_BUFS THEN replenish + 1 ELSE replenish)
        /\ descCredit' = descCredit /\ bufCredit' = bufCredit /\ faults' = faults
        /\ rx_ring' = [rx_ring EXCEPT ![h] = Cleared]
      BY <1>1 DEF NextDesc, Repostable, engine
  <1>3. /\ pc = "next" /\ live
        /\ rx_ring[h].O /\ actual_buf = BufOf(SlotOf(rx_ring[h]))
      BY <1>1 DEF NextDesc, IInv, ColdInv, LocalsInv
  <1>4. rx_ring \in [Positions -> Completions] /\ rx_slot_buf \in [Slots -> Buffers]
      BY DEF IInv, TypeOK
  <1>5. h \in Positions
    <2>1. Groups \in Nat \ {0} /\ n \in Nat
        BY ConstantTypes DEF IInv, TypeOK
    <2> QED
        BY <1>1, <2>1 DEF Positions
  <1>6. rx_ring'[h] = Cleared /\ \A g \in Positions \ {h} : rx_ring'[g] = rx_ring[g]
      BY <1>2, <1>4, <1>5
  <1>7. Unread' = Unread \ {h} /\ h \in Unread
      BY <1>3, <1>5, <1>6 DEF Unread, Cleared
  <1>8. Named' = Named \ {h}
      BY <1>6, <1>7 DEF Named, Unread
  <1>9. actual_buf < NUM_RX_BUFS <=> h \in Named
    <2>1. rx_ring[h].eval \in 0 .. RX_RING_SIZE
        BY <1>4, <1>5 DEF Completions
    <2>2. CASE rx_ring[h].eval > 0
      <3>1. SlotOf(rx_ring[h]) \in Slots
          BY <2>1, <2>2, ConstantTypes DEF SlotOf, Slots
      <3>2. actual_buf \in Buffers
          BY <1>3, <1>4, <3>1, ConstantTypes DEF BufOf, Slots
      <3> QED
          BY <1>7, <2>2, <3>2, ConstantTypes DEF Named, Buffers
    <2>3. CASE ~(rx_ring[h].eval > 0)
      <3>1. actual_buf = NUM_RX_BUFS
          BY <1>3, <2>3, ConstantTypes DEF SlotOf, BufOf, NoSlot, NoBuf
      <3> QED
          BY <2>3, <3>1, ConstantTypes DEF Named
    <2> QED
        BY <2>2, <2>3
  <1>10. Cardinality(Unread') = Cardinality(Unread) - 1
      BY <1>7, Finite, FS_RemoveElement
  <1>11. Cardinality(Named') = IF h \in Named THEN Cardinality(Named) - 1
                               ELSE Cardinality(Named)
      BY <1>8, Finite, FS_RemoveElement
  <1>12. Balanced(descCredit, count, Cardinality(Unread), bufCredit, replenish,
                  Cardinality(Named), faults)
      BY <1>3, Equations
  <1>13. Balanced(descCredit', count', Cardinality(Unread'), bufCredit', replenish',
                  Cardinality(Named'), faults')
    <2>1. CASE h \in Named
        BY <1>2, <1>9, <1>10, <1>11, <1>12, <2>1, Numbers DEF Balanced
    <2>2. CASE h \notin Named
        BY <1>2, <1>9, <1>10, <1>11, <1>12, <2>2, Numbers DEF Balanced
    <2> QED
        BY <2>1, <2>2
  <1> QED
      BY <1>13 DEF CreditsConserved, Balanced, Named

\* The two registers are written with what has been counted since.
LEMMA CreditingConserves ==
  ASSUME IInv, CreditsConserved, CreditChan \/ CreditInt
  PROVE  CreditsConserved'
  <1>1. /\ live' = live /\ faults' = faults /\ UNCHANGED rx_ring
        /\ \/ /\ descCredit' = descCredit + 2 * count /\ count' = 0
              /\ bufCredit' = bufCredit /\ replenish' = replenish
           \/ /\ bufCredit' = bufCredit + replenish /\ replenish' = 0
              /\ descCredit' = descCredit /\ count' = count
    <2>1. count * 2 = 2 * count
        BY Numbers
    <2> QED
        BY <2>1 DEF CreditChan, ChanCredit, CreditInt, rings
  <1>2. Cardinality(Unread)' = Cardinality(Unread) /\ Cardinality(Named)' = Cardinality(Named)
      BY <1>1, SetsKept
  <1>3. live => Balanced(descCredit, count, Cardinality(Unread), bufCredit, replenish,
                         Cardinality(Named), faults)
      BY Equations
  <1>4. live => Balanced(descCredit', count', Cardinality(Unread)', bufCredit', replenish',
                         Cardinality(Named)', faults')
      BY <1>1, <1>2, <1>3, Numbers DEF Balanced
  <1> QED
      BY <1>1, <1>4 DEF CreditsConserved, Balanced, Named

\* When the MAC is enabled everything has been credited and nothing has come.
LEMMA EnableMacConserves ==
  ASSUME IInv, EnableMac
  PROVE  CreditsConserved'
  <1>1. /\ descCredit = 2 * Groups /\ bufCredit = NUM_RX_BUFS
        /\ count = 0 /\ replenish = 0 /\ faults = 0
        /\ \A g \in Positions : ~rx_ring[g].O
      BY DEF EnableMac, IInv, ColdInv, WarmInv, Scanning, Crediting
  <1>2. Unread' = {} /\ Named' = {}
      BY <1>1 DEF EnableMac, rings, Unread, Named
  <1>3. Cardinality(Unread)' = 0 /\ Cardinality(Named)' = 0
      BY <1>2, FS_EmptySet
  <1>4. /\ descCredit' = 2 * Groups /\ bufCredit' = NUM_RX_BUFS
        /\ count' = 0 /\ replenish' = 0 /\ faults' = 0
      BY <1>1 DEF EnableMac
  <1>5. Balanced(descCredit', count', Cardinality(Unread)', bufCredit', replenish',
                 Cardinality(Named)', faults')
      BY <1>3, <1>4, ConstantTypes DEF Balanced
  <1> QED
      BY <1>5 DEF CreditsConserved, Balanced, Named

\* A step that writes neither the descriptor ring nor a credit nor a count.
LEMMA QuietConserves ==
  ASSUME CreditsConserved,
         UNCHANGED <<rx_ring, live, descCredit, bufCredit, count, replenish, faults>>
  PROVE  CreditsConserved'
  <1>1. Cardinality(Unread)' = Cardinality(Unread) /\ Cardinality(Named)' = Cardinality(Named)
      BY SetsKept
  <1> QED
      BY <1>1 DEF CreditsConserved, Named

\* PostRxBuffers clears the rings and gives the first credits before the MAC is
\* enabled, and never again.
LEMMA PostingConserves ==
  ASSUME IInv, ClearRings \/ PostBuffers \/ CreditRing
  PROVE  CreditsConserved'
  <1>1. ~live
      BY DEF IInv, WarmInv, Scanning, Crediting, ClearRings, PostBuffers, CreditRing
  <1>2. live' = live
      BY DEF ClearRings, PostBuffers, CreditRing, engine
  <1> QED
      BY <1>1, <1>2 DEF CreditsConserved

LEMMA StepConserves ==
  ASSUME IInv, NoCompletionOverwritten, CreditsConserved, [Next]_vars
  PROVE  CreditsConserved'
  <1>1. CASE UNCHANGED vars
      BY <1>1, QuietConserves DEF vars, rings, task, engine
  <1>2. CASE GoOnline \/ GoOffline \/ AllocBuffers \/ FinishPost \/ Deliver
      BY <1>2, QuietConserves
         DEF GoOnline, GoOffline, AllocBuffers, FinishPost, Deliver, rings, task, engine
  <1>3. CASE TakeDesc
      BY <1>3, QuietConserves DEF TakeDesc, rings, engine
  <1>4. CASE EndBatch
      BY <1>4, QuietConserves DEF EndBatch, engine
  <1>5. CASE StartProcessRX
    <2>1. count = 0 /\ replenish = 0
        BY <1>5 DEF StartProcessRX, IInv, LocalsInv, Scanning, Crediting
    <2> QED
        BY <1>5, <2>1, QuietConserves DEF StartProcessRX, rings, engine
  <1>6. CASE UnitTask
      BY <1>2, <1>3, <1>4, <1>5, <1>6, PostingConserves, EnableMacConserves,
         NextDescConserves, CreditingConserves DEF UnitTask
  <1>7. CASE Receive
      BY <1>7, ReceiveConserves DEF Receive
  <1> QED
      BY <1>1, <1>6, <1>7 DEF Next

\* No credit and no buffer is ever lost, but the buffer of a completion that
\* names no slot (hw/rx.c:117, 597, 623).
THEOREM NothingLost == ASSUME AllOrNothing PROVE Spec => []CreditsConserved
  <1>1. Init => CreditsConserved
      BY DEF Init, CreditsConserved
  <1>2. IInv /\ NoCompletionOverwritten /\ CreditsConserved /\ [Next]_vars => CreditsConserved'
      BY StepConserves
  <1> QED
      BY <1>1, <1>2, Invariance, CompletionsKept, PTL DEF Spec

=============================================================================
