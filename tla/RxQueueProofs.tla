---------------------------- MODULE RxQueueProofs ----------------------------
(****************************************************************************)
(* The receive rings implement the queue of RxQueue, for rings and pools of *)
(* every size, alone and driven by the interrupt path.  The queue is read   *)
(* off the invariant of RxRingProofs: U completions forward from Pos, the   *)
(* engine writes the next one at the end, next_desc clears the first.       *)
(****************************************************************************)
EXTENDS RxPathProofs, RxCreditsProofs, SequenceTheorems

Kinds == {"good", "bad"}

\* The waiting frames by the window of DescInv.
Shape ==
  /\ Pos \in Positions /\ U \in 0 .. Groups
  /\ Cardinality(Unread) = U
  /\ Waiting = [i \in 1 .. U |-> Content(rx_ring[Fwd(Pos, i - 1, Groups)])]

FrameStep == [Frames!Next]_(Frames!vars)

-----------------------------------------------------------------------------
USE DEF RX_RING_SIZE, NoBuf, NoSlot, Positions, Slots, Buffers

LEMMA FwdTypes ==
  ASSUME NEW p \in Positions, NEW k \in 0 .. Groups
  PROVE  Fwd(p, k, Groups) \in Positions
  BY ConstantTypes DEF Fwd

\* Going forward one place and then k more.
LEMMA FwdNext ==
  ASSUME NEW p \in Positions, NEW k \in 0 .. Groups - 1
  PROVE  Fwd(Fwd(p, 1, Groups), k, Groups) = Fwd(p, k + 1, Groups)
  BY ConstantTypes DEF Fwd

\* Going forward less than once around ends at a different place each time.
LEMMA FwdInjective ==
  ASSUME NEW p \in Positions, NEW i \in 0 .. Groups - 1, NEW j \in 0 .. Groups - 1,
         Fwd(p, i, Groups) = Fwd(p, j, Groups)
  PROVE  i = j
  BY ConstantTypes DEF Fwd

LEMMA FwdMod ==
  ASSUME NEW p \in Positions, NEW k \in 0 .. Groups
  PROVE  (p + k) % Groups = Fwd(p, k, Groups)
  <1>1. PICK i : i = p + k
      OBVIOUS
  <1>2. i \in 0 .. 2 * Groups - 1 /\ Groups \in Nat \ {0}
      BY <1>1, ConstantTypes
  <1>3. i % Groups = IF i < Groups THEN i ELSE i - Groups
      BY <1>2, Wrap
  <1>4. Fwd(p, k, Groups) = IF i < Groups THEN i ELSE i - Groups
      BY <1>1, <1>2, ConstantTypes DEF Fwd
  <1> QED
      BY <1>1, <1>3, <1>4

\* A sequence without its head, and one with an element more, by their indices.
LEMMA TailOf ==
  ASSUME NEW S, NEW q \in Seq(S), q # <<>>
  PROVE  Tail(q) = [i \in 1 .. Len(q) - 1 |-> q[i + 1]]
  <1>1. /\ Tail(q) \in Seq(S) /\ Len(Tail(q)) = Len(q) - 1
        /\ \A i \in 1 .. Len(Tail(q)) : Tail(q)[i] = q[i + 1]
      BY HeadTailProperties
  <1>2. Tail(q) \in [1 .. Len(q) - 1 -> S]
      BY <1>1, LenProperties
  <1>3. \A i \in 1 .. Len(q) - 1 : Tail(q)[i] = q[i + 1]
      BY <1>1
  <1> QED
      BY <1>2, <1>3

LEMMA AppendOf ==
  ASSUME NEW S, NEW q \in Seq(S), NEW x \in S
  PROVE  Append(q, x) = [i \in 1 .. Len(q) + 1 |-> Append(q, x)[i]]
  <1>1. Append(q, x) \in Seq(S) /\ Len(Append(q, x)) = Len(q) + 1
      BY AppendProperties
  <1>2. Append(q, x) \in [1 .. Len(q) + 1 -> S]
      BY <1>1, LenProperties
  <1> QED
      BY <1>2

LEMMA PosType == ASSUME IInv PROVE Pos \in Positions
  BY ConstantTypes DEF IInv, TypeOK, Pos

\* As many completions are unread as the credits tell.
LEMMA UnreadCount == ASSUME IInv, CreditsConserved PROVE Cardinality(Unread) = U /\ U \in 0 .. Groups
  <1>1. U \in 0 .. Groups
      BY ConstantTypes DEF IInv, DescInv, TypeOK
  <1>2. CASE live
    <2>1. descCredit + 2 * count + 2 * Cardinality(Unread) = 2 * Groups
        BY <1>2 DEF CreditsConserved
    <2>2. descCredit = 2 * (Groups - count - U)
        BY <1>2 DEF IInv, DescInv
    <2>3. 2 * Cardinality(Unread) = 2 * U
        BY <2>1, <2>2, <1>1, Numbers
    <2> QED
        BY <2>3, <1>1, Numbers
  <1>3. CASE ~live
    <2>1. Unread = {}
        BY <1>3 DEF IInv, ColdInv, Unread
    <2> QED
        BY <1>1, <1>3, <2>1, FS_EmptySet DEF U
  <1> QED
      BY <1>1, <1>2, <1>3

LEMMA Shaped == ASSUME IInv, CreditsConserved PROVE Shape
  <1>1. Pos \in Positions
      BY PosType
  <1>2. Cardinality(Unread) = U /\ U \in 0 .. Groups
      BY UnreadCount
  <1>3. ASSUME NEW i \in 1 .. U
        PROVE  (Pos + i - 1) % Groups = Fwd(Pos, i - 1, Groups)
    <2>1. i - 1 \in 0 .. Groups /\ Pos + i - 1 = Pos + (i - 1)
        BY <1>1, <1>2, <1>3, ConstantTypes
    <2>2. (Pos + (i - 1)) % Groups = Fwd(Pos, i - 1, Groups)
        BY <1>1, <2>1, FwdMod
    <2> QED
        BY <2>1, <2>2
  <1> QED
      BY <1>1, <1>2, <1>3 DEF Shape, Waiting

\* The frames that wait are a sequence of U frames.
LEMMA WaitingSeq ==
  ASSUME Shape
  PROVE  /\ Waiting \in Seq(Kinds) /\ Len(Waiting) = U
         /\ \A i \in 1 .. U : Waiting[i] = Content(rx_ring[Fwd(Pos, i - 1, Groups)])
  <1>1. U \in Nat
      BY DEF Shape
  <1>2. \A c : Content(c) \in Kinds
      BY DEF Content, Kinds
  <1> QED
      BY <1>1, <1>2 DEF Shape

-----------------------------------------------------------------------------
\* A step that leaves the descriptors, the MAC and the phase alone and looks on
\* from the same place is no step of the queue.
LEMMA SameQueue ==
  ASSUME Pos' = Pos, UNCHANGED <<rx_ring, live>>, Phase' = Phase
  PROVE  FrameStep
  <1>1. Cardinality(Unread)' = Cardinality(Unread)
      BY SetsKept
  <1>2. Waiting' = Waiting
      BY <1>1 DEF Waiting
  <1> QED
      BY <1>2 DEF FrameStep, Frames!vars

\* Going on and off line, posting and crediting: the queue does not notice, not
\* even when ProcessRX stores the index it stopped at.
LEMMA QuietSteps ==
  ASSUME IInv, GoOnline \/ GoOffline \/ AllocBuffers \/ PostBuffers \/ CreditRing \/ FinishPost
                 \/ StartProcessRX \/ EndBatch \/ CreditChan \/ CreditInt
  PROVE  FrameStep
  <1> USE DEF Pos, Phase, Scanning
  <1>1. CASE GoOnline \/ GoOffline \/ AllocBuffers
      BY <1>1, SameQueue
         DEF GoOnline, GoOffline, AllocBuffers, AfterAlloc, rings, task, engine
  <1>2. CASE PostBuffers \/ CreditRing
      BY <1>2, SameQueue DEF PostBuffers, CreditRing, rings, engine
  <1>3. CASE CreditChan \/ CreditInt
      BY <1>3, SameQueue DEF CreditChan, CreditInt, rings, engine
  <1>4. CASE FinishPost
    <2>1. rx_next_clean = 0
        BY <1>4 DEF FinishPost, IInv, ColdInv, WarmInv
    <2> QED
        BY <1>4, <2>1, SameQueue DEF FinishPost, engine
  <1>5. CASE StartProcessRX
    <2>1. rx_next_clean % Groups = rx_next_clean
      <3>1. /\ rx_next_clean \in 0 .. 2 * Groups - 1 /\ rx_next_clean < Groups
            /\ Groups \in Nat \ {0}
          BY ConstantTypes DEF IInv, TypeOK
      <3> QED
          BY <3>1, Wrap
    <2> QED
        BY <1>5, <2>1, SameQueue DEF StartProcessRX, rings, engine
  <1>6. CASE EndBatch
    <2>1. n \in 0 .. 2 * Groups - 1
        BY DEF IInv, TypeOK
    <2>2. n % Groups = IF n < Groups THEN n ELSE n - Groups
        BY <2>1, Wrap, ConstantTypes
    <2>3. Masked(n) = n % Groups
        BY <2>1, <2>2, ConstantTypes DEF Masked
    <2> QED
        BY <1>6, <2>3, SameQueue DEF EndBatch, engine
  <1> QED
      BY <1>1, <1>2, <1>3, <1>4, <1>5, <1>6

\* The rings are cleared and the MAC enabled while nothing can have come.
LEMMA FirstPosting == ASSUME IInv, ClearRings \/ EnableMac PROVE FrameStep
  <1>1. ~live /\ Unread = {}
      BY DEF IInv, ColdInv, WarmInv, Scanning, Crediting, ClearRings, EnableMac, Unread
  <1>2. Unread' = {}
    <2>1. rx_ring' = rx_ring \/ rx_ring' = [g \in Positions |-> Cleared]
        BY DEF ClearRings, EnableMac, rings
    <2>2. CASE rx_ring' = rx_ring
        BY <1>1, <2>2 DEF Unread
    <2>3. CASE rx_ring' = [g \in Positions |-> Cleared]
        BY <2>3 DEF Unread, Cleared
    <2> QED
        BY <2>1, <2>2, <2>3
  <1>3. Cardinality(Unread) = 0 /\ Cardinality(Unread)' = 0
      BY <1>1, <1>2, FS_EmptySet
  <1>4. Waiting = <<>> /\ Waiting' = <<>>
      BY <1>3 DEF Waiting
  <1>5. Phase' = Phase
      BY DEF ClearRings, EnableMac, Phase
  <1>6. CASE ClearRings
      BY <1>4, <1>5, <1>6 DEF ClearRings, engine, FrameStep, Frames!vars
  <1>7. CASE EnableMac
    <2>1. Frames!Enable
        BY <1>1, <1>4, <1>5, <1>7 DEF EnableMac, Frames!Enable
    <2> QED
        BY <2>1 DEF FrameStep, Frames!Next
  <1> QED
      BY <1>6, <1>7

-----------------------------------------------------------------------------
\* ProcessRX delivers exactly the good frames that name a slot: the split-frame
\* test finds the buffer it expects.
LEMMA DeliverableIsGood ==
  ASSUME TypeOK, CompletionNamesItsBuffer, NEW g \in Positions, rx_ring[g].O
  PROVE  Deliverable(rx_ring[g]) <=> Content(rx_ring[g]) = "good"
  <1>1. rx_ring[g].eval \in 0 .. RX_RING_SIZE /\ rx_slot_buf \in [Slots -> Buffers]
      BY DEF TypeOK, Completions
  <1>2. CASE rx_ring[g].eval > 0
    <2>1. rx_ring[g].ptr < nbufs /\ rx_ring[g].ptr = rx_slot_buf[rx_ring[g].eval - 1]
        BY <1>2 DEF CompletionNamesItsBuffer
    <2>2. SlotOf(rx_ring[g]) = rx_ring[g].eval - 1 /\ SlotOf(rx_ring[g]) < RX_RING_SIZE
        BY <1>1, <1>2, ConstantTypes DEF SlotOf
    <2>3. BufOf(SlotOf(rx_ring[g])) = rx_ring[g].ptr
        BY <2>1, <2>2 DEF BufOf
    <2> QED
        BY <1>2, <2>1, <2>2, <2>3 DEF Deliverable, Content
  <1>3. CASE ~(rx_ring[g].eval > 0)
      BY <1>3, ConstantTypes DEF Deliverable, Content, SlotOf
  <1> QED
      BY <1>2, <1>3

\* The completion ProcessRX looks at is the head of the queue.
LEMMA HeadOfQueue ==
  ASSUME IInv, Shape, rx_ring[Pos].O
  PROVE  /\ U >= 1 /\ Waiting # <<>>
         /\ Head(Waiting) = Content(rx_ring[Pos])
  <1>1. Pos \in Positions /\ U \in 0 .. Groups
      BY DEF Shape
  <1>2. U >= 1
    <2>1. Dist(Pos, Pos, Groups) < U
        BY <1>1 DEF IInv, DescInv
    <2> QED
        BY <1>1, <2>1, ConstantTypes DEF Dist
  <1>3. Fwd(Pos, 0, Groups) = Pos
      BY <1>1, ConstantTypes DEF Fwd
  <1>4. Waiting[1] = Content(rx_ring[Pos])
      BY <1>2, <1>1, <1>3, WaitingSeq
  <1>5. Waiting \in Seq(Kinds) /\ Len(Waiting) = U
      BY WaitingSeq
  <1>6. Waiting # <<>>
      BY <1>2, <1>5
  <1> QED
      BY <1>2, <1>4, <1>5, <1>6

LEMMA TakeDescStep ==
  ASSUME IInv, Shape, CompletionNamesItsBuffer, TakeDesc
  PROVE  FrameStep
  <1>1. /\ Pos = n % Groups /\ Pos' = Pos /\ rx_ring[Pos].O
        /\ pc' = IF Deliverable(rx_ring[Pos]) THEN "deliver" ELSE "next"
        /\ UNCHANGED <<rx_ring, live>>
      BY DEF TakeDesc, Pos, Scanning, rings, engine
  <1>2. Deliverable(rx_ring[Pos]) <=> Head(Waiting) = "good"
    <2>1. Pos \in Positions /\ TypeOK
        BY DEF Shape, IInv
    <2>2. Deliverable(rx_ring[Pos]) <=> Content(rx_ring[Pos]) = "good"
        BY <1>1, <2>1, DeliverableIsGood
    <2> QED
        BY <1>1, <2>2, HeadOfQueue
  <1>3. Waiting' = Waiting
    <2>1. Cardinality(Unread)' = Cardinality(Unread)
        BY <1>1, SetsKept
    <2> QED
        BY <1>1, <2>1 DEF Waiting
  <1>4. Phase = "unseen" /\ Phase' = IF Deliverable(rx_ring[Pos]) THEN "give" ELSE "seen"
      BY <1>1 DEF TakeDesc, Phase
  <1>5. Frames!Judge
      BY <1>1, <1>2, <1>3, <1>4, HeadOfQueue DEF Frames!Judge
  <1> QED
      BY <1>5 DEF FrameStep, Frames!Next

LEMMA DeliverStep == ASSUME Deliver PROVE FrameStep
  <1>1. Pos' = Pos /\ UNCHANGED <<rx_ring, live>>
      BY DEF Deliver, Pos, Scanning, rings, engine
  <1>2. Waiting' = Waiting
    <2>1. Cardinality(Unread)' = Cardinality(Unread)
        BY <1>1, SetsKept
    <2> QED
        BY <1>1, <2>1 DEF Waiting
  <1>3. Frames!Give
      BY <1>1, <1>2 DEF Deliver, Phase, Frames!Give
  <1> QED
      BY <1>3 DEF FrameStep, Frames!Next

\* next_desc takes the head out: one unread completion less, from one place on.
LEMMA NextDescStep ==
  ASSUME IInv, Shape, Shape', NextDesc
  PROVE  FrameStep
  <1>1. /\ Pos = n % Groups /\ rx_ring[Pos].O /\ live /\ live' = live
        /\ rx_ring' = [rx_ring EXCEPT ![Pos] = Cleared]
        /\ Phase = "seen" /\ Phase' = "unseen"
      BY DEF NextDesc, IInv, ColdInv, LocalsInv, Pos, Phase, Scanning, engine
  <1>2. U' = U - 1
    <2>1. count' = count + 1 /\ descCredit' = descCredit /\ live'
        BY <1>1 DEF NextDesc, engine
    <2>2. Groups \in Nat /\ count \in Nat /\ descCredit \div 2 \in Int
        BY ConstantTypes DEF IInv, TypeOK
    <2> QED
        BY <1>1, <2>1, <2>2 DEF U
  <1>3. Pos' = Fwd(Pos, 1, Groups)
    <2>1. n \in 0 .. 2 * Groups - 1 /\ n' = n + 1 /\ n' \in 0 .. 2 * Groups
      <3>1. n \in 0 .. 2 * Groups - 1
          BY DEF IInv, TypeOK
      <3> QED
          BY <3>1, ConstantTypes DEF NextDesc
    <2>2. (n + 1) % Groups = Fwd(n % Groups, 1, Groups)
      <3>1. CASE n < Groups
        <4>1. n % Groups = n /\ (n + 1) % Groups = Fwd(n, 1, Groups)
            BY <2>1, <3>1, Wrap, WrapNext, ConstantTypes DEF Fwd
        <4> QED
            BY <4>1
      <3>2. CASE ~(n < Groups)
        <4>1. PICK k : k = n - Groups
            OBVIOUS
        <4>2. k \in Positions /\ n = Groups + k
            BY <2>1, <3>2, <4>1, ConstantTypes
        <4>3. n % Groups = k
            BY <2>1, <3>2, <4>1, Wrap, ConstantTypes
        <4>4. (n + 1) % Groups = (k + 1) % Groups
            BY <4>2, ConstantTypes
        <4> QED
            BY <4>2, <4>3, <4>4, WrapNext, ConstantTypes DEF Fwd
      <3> QED
          BY <3>1, <3>2
    <2>3. Pos' = n' % Groups
        BY DEF NextDesc, Pos, Scanning
    <2> QED
        BY <1>1, <2>1, <2>2, <2>3
  <1>4. U >= 1 /\ Waiting # <<>> /\ Pos \in Positions /\ U \in 0 .. Groups
      BY <1>1, HeadOfQueue DEF Shape
  <1>5. ASSUME NEW i \in 1 .. U - 1
        PROVE  Content(rx_ring'[Fwd(Pos', i - 1, Groups)]) = Waiting[i + 1]
    <2>1. i - 1 \in 0 .. Groups - 1 /\ i \in 0 .. Groups - 1 /\ i # 0 /\ i + 1 \in 1 .. U
        BY <1>4, <1>5, ConstantTypes
    <2>2. Fwd(Pos', i - 1, Groups) = Fwd(Pos, i, Groups)
        BY <1>3, <1>4, <2>1, FwdNext
    <2>3. Fwd(Pos, 0, Groups) = Pos
        BY <1>4, ConstantTypes DEF Fwd
    <2>4. Fwd(Pos, i, Groups) # Pos /\ Fwd(Pos, i, Groups) \in Positions
      <3>1. 0 \in 0 .. Groups - 1 /\ i \in 0 .. Groups
          BY <2>1, ConstantTypes
      <3>2. Fwd(Pos, i, Groups) # Fwd(Pos, 0, Groups)
          BY <1>4, <2>1, <3>1, FwdInjective
      <3> QED
          BY <1>4, <2>3, <3>1, <3>2, FwdTypes
    <2>5. rx_ring'[Fwd(Pos, i, Groups)] = rx_ring[Fwd(Pos, i, Groups)]
        BY <1>1, <2>4 DEF IInv, TypeOK
    <2>6. Waiting[i + 1] = Content(rx_ring[Fwd(Pos, (i + 1) - 1, Groups)])
        BY <2>1, WaitingSeq
    <2> QED
        BY <2>1, <2>2, <2>5, <2>6
  <1>6. Waiting' = [i \in 1 .. U - 1 |-> Waiting[i + 1]]
      BY <1>2, <1>5 DEF Shape
  <1>7. Tail(Waiting) = [i \in 1 .. U - 1 |-> Waiting[i + 1]]
    <2>1. Waiting \in Seq(Kinds) /\ Len(Waiting) = U
        BY WaitingSeq
    <2> QED
        BY <1>4, <2>1, TailOf
  <1>8. Frames!Remove
      BY <1>1, <1>6, <1>7 DEF Frames!Remove
  <1> QED
      BY <1>8 DEF FrameStep, Frames!Next

\* The engine writes behind the last unread completion, and only while one is
\* clear: the frame goes to the end of the queue.
LEMMA ReceiveStep ==
  ASSUME IInv, Shape, Shape', NEW frame \in FrameKinds, NEW fault \in BOOLEAN,
         HwReceive(frame, fault)
  PROVE  FrameStep
  <1>1. /\ live /\ live' = live /\ Pos' = Pos /\ Phase' = Phase
        /\ descCredit >= 2 /\ descCredit' = descCredit - 2 /\ count' = count
      BY DEF HwReceive, CanReceive, task, Pos, Phase
  <1>2. U' = U + 1 /\ U < Groups /\ U \in 0 .. Groups
    <2>1. /\ Groups \in Nat /\ count \in Nat /\ descCredit \in Nat
          /\ U \in 0 .. Groups
          /\ descCredit = 2 * (Groups - count - U)
        BY <1>1, ConstantTypes DEF IInv, TypeOK, Shape, DescInv
    <2>2. descCredit \div 2 = Groups - count - U
        BY <2>1
    <2>3. (descCredit - 2) \div 2 = Groups - count - U - 1
        BY <2>1
    <2>4. U' = Groups - count - (descCredit - 2) \div 2
        BY <1>1 DEF U
    <2> QED
        BY <1>1, <2>1, <2>3, <2>4
  <1>3. hwDesc = Fwd(Pos, U, Groups) /\ hwDesc \in Positions /\ Pos \in Positions
      BY DEF IInv, DescInv, TypeOK, Shape
  <1>4. PICK kind \in Kinds : Content(rx_ring'[hwDesc]) = kind
      BY DEF Content, Kinds
  <1>5. \A g \in Positions : g # hwDesc => rx_ring'[g] = rx_ring[g]
      BY <1>3 DEF HwReceive, IInv, TypeOK
  <1>6. /\ Waiting \in Seq(Kinds) /\ Len(Waiting) = U
        /\ \A i \in 1 .. U : Waiting[i] = Content(rx_ring[Fwd(Pos, i - 1, Groups)])
      BY WaitingSeq
  <1>7. ASSUME NEW i \in 1 .. U + 1
        PROVE  Content(rx_ring'[Fwd(Pos, i - 1, Groups)]) = Append(Waiting, kind)[i]
    <2>1. CASE i = U + 1
        BY <1>2, <1>3, <1>4, <1>6, <2>1
    <2>2. CASE i # U + 1
      <3>1. i \in 1 .. U /\ i - 1 \in 0 .. Groups - 1 /\ U \in 0 .. Groups - 1 /\ i - 1 # U
          BY <1>2, <1>7, <2>2, ConstantTypes
      <3>2. Fwd(Pos, i - 1, Groups) # hwDesc /\ Fwd(Pos, i - 1, Groups) \in Positions
        <4>1. i - 1 \in 0 .. Groups
            BY <3>1, ConstantTypes
        <4>2. Fwd(Pos, i - 1, Groups) # Fwd(Pos, U, Groups)
            BY <1>3, <3>1, FwdInjective
        <4> QED
            BY <1>3, <4>1, <4>2, FwdTypes
      <3>3. Append(Waiting, kind)[i] = Waiting[i]
          BY <1>6, <3>1
      <3> QED
          BY <1>5, <1>6, <3>1, <3>2, <3>3
    <2> QED
        BY <2>1, <2>2
  <1>8. Waiting' = [i \in 1 .. U + 1 |-> Append(Waiting, kind)[i]]
      BY <1>1, <1>2, <1>7 DEF Shape
  <1>9. Waiting' = Append(Waiting, kind)
      BY <1>6, <1>8, AppendOf
  <1>10. Frames!Arrive(kind)
      BY <1>1, <1>2, <1>6, <1>9 DEF Frames!Arrive
  <1> QED
      BY <1>10 DEF FrameStep, Frames!Next, Kinds

LEMMA EachStep ==
  ASSUME IInv, CompletionNamesItsBuffer, Shape, Shape', [Next]_vars
  PROVE  FrameStep
  <1>1. CASE UnitTask
      BY <1>1, QuietSteps, FirstPosting, TakeDescStep, DeliverStep, NextDescStep DEF UnitTask
  <1>2. CASE Receive
      BY <1>2, ReceiveStep DEF Receive
  <1>3. CASE UNCHANGED vars
    <2>1. Pos' = Pos /\ Phase' = Phase /\ UNCHANGED <<rx_ring, live>>
        BY <1>3 DEF vars, task, rings, engine, Pos, Phase
    <2> QED
        BY <2>1, SameQueue
  <1> QED
      BY <1>1, <1>2, <1>3 DEF Next

\* The rings are the queue: every frame that arrives is judged in its turn, the
\* good ones are delivered, none is lost, repeated or overtaken.
THEOREM FramesKeptInOrder == ASSUME AllOrNothing PROVE Spec => FramesInOrder
  <1>1. Init => Frames!Init
    <2> SUFFICES ASSUME Init PROVE Frames!Init
        OBVIOUS
    <2>1. Unread = {}
        BY DEF Init, Unread, Cleared
    <2>2. Waiting = <<>>
        BY <2>1, FS_EmptySet DEF Waiting
    <2> QED
        BY <2>2 DEF Init, Phase, Frames!Init
  <1>2. IInv /\ CreditsConserved => Shape
      BY Shaped
  <1>3. IInv /\ CompletionNamesItsBuffer /\ Shape /\ Shape' /\ [Next]_vars
          => [Frames!Next]_(Frames!vars)
      BY EachStep DEF FrameStep
  <1> QED
      BY <1>1, <1>2, <1>3, Invariance, NothingLost, SplitFrameNeverSeen, PTL
      DEF Spec, Frames!Spec, FramesInOrder

\* So it is when the interrupt handler, the signals and the main loop decide when
\* ProcessRX runs, however often it is woken late or for nothing.
THEOREM PathKeepsOrder == ASSUME AllOrNothing PROVE PathSpec => FramesInOrder
  BY PathImplementsRings, FramesKeptInOrder

=============================================================================
