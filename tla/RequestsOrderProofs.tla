------------------------- MODULE RequestsOrderProofs -------------------------
(****************************************************************************)
(* The order of the requests, for any number of them: each list of the      *)
(* device changes only in ways that keep its order, and the unit task takes *)
(* the oldest request that fits.  And what an S2_ONEVENT can wait for.      *)
(****************************************************************************)
EXTENDS RequestsProofs

\* The ways a list changes: AddTail, RemHead, Remove of some, NewList.
Change(seq, seq2) ==
  \/ seq2 = seq
  \/ \E x \in Reqs : seq2 = Append(seq, x)
  \/ seq # <<>> /\ seq2 = Tail(seq)
  \/ \E R \in SUBSET Reqs : seq2 = Without(seq, R)
  \/ seq2 = <<>>

-----------------------------------------------------------------------------
(* Order and the operations on sequences.                                   *)

LEMMA AheadElements ==
  ASSUME NEW seq, NEW q, NEW r, Ahead(q, r, seq)
  PROVE  q \in In(seq) /\ r \in In(seq)
  BY DEF Ahead, In

\* In a list without repetitions a place is known by its request.
LEMMA AheadPlaces ==
  ASSUME NEW S, NEW seq \in Seq(S), Distinct(seq), NEW j \in DOMAIN seq,
         NEW q, Ahead(q, seq[j], seq)
  PROVE  \E i \in 1 .. j - 1 : i \in DOMAIN seq /\ seq[i] = q
  <1>1. DOMAIN seq = 1 .. Len(seq) /\ Len(seq) \in Nat
      OBVIOUS
  <1>2. PICK i \in DOMAIN seq, k \in DOMAIN seq : i < k /\ seq[i] = q /\ seq[k] = seq[j]
      BY DEF Ahead
  <1>3. k = j
      BY <1>2 DEF Distinct
  <1>4. i \in 1 .. j - 1
      BY <1>1, <1>2, <1>3
  <1> QED
      BY <1>2, <1>4

LEMMA AheadAppended ==
  ASSUME NEW S, NEW seq \in Seq(S), NEW x \in S
  PROVE  /\ \A q, r : Ahead(q, r, seq) => Ahead(q, r, Append(seq, x))
         /\ \A q \in In(seq) : Ahead(q, x, Append(seq, x))
  <1> DEFINE h == Append(seq, x)
             m == Len(seq)
  <1>1. /\ m \in Nat /\ DOMAIN seq = 1 .. m /\ DOMAIN h = 1 .. m + 1
        /\ \A i \in 1 .. m : h[i] = seq[i]
        /\ h[m + 1] = x
      OBVIOUS
  <1> HIDE DEF h, m
  <1>2. \A i \in 1 .. m : i \in 1 .. m + 1 /\ i < m + 1
      BY <1>1
  <1>3. ASSUME NEW q, NEW r, Ahead(q, r, seq) PROVE Ahead(q, r, h)
    <2>1. PICK i \in 1 .. m, j \in 1 .. m : i < j /\ seq[i] = q /\ seq[j] = r
        BY <1>1, <1>3 DEF Ahead
    <2> QED
        BY <1>1, <1>2, <2>1 DEF Ahead
  <1>4. ASSUME NEW q \in In(seq) PROVE Ahead(q, x, h)
    <2>1. PICK i \in 1 .. m : seq[i] = q
        BY <1>1 DEF In
    <2>2. m + 1 \in DOMAIN h /\ i \in DOMAIN h /\ i < m + 1
        BY <1>1, <1>2
    <2> QED
        BY <1>1, <2>1, <2>2 DEF Ahead
  <1> QED
      BY <1>3, <1>4 DEF h

LEMMA AheadRemoved ==
  ASSUME NEW S, NEW seq \in Seq(S), seq # <<>>, Distinct(seq),
         NEW q \in In(Tail(seq)), NEW r, Ahead(q, r, seq)
  PROVE  Ahead(q, r, Tail(seq))
  <1> DEFINE h == Tail(seq)
             m == Len(seq)
  <1>1. /\ m \in Nat /\ m > 0 /\ DOMAIN seq = 1 .. m /\ DOMAIN h = 1 .. m - 1
        /\ \A i \in 1 .. m - 1 : h[i] = seq[i + 1]
        /\ Head(seq) = seq[1]
      OBVIOUS
  <1>2. q # seq[1]
      BY <1>1, Removed
  <1> HIDE DEF h, m
  <1>3. PICK i \in 1 .. m, j \in 1 .. m : i < j /\ seq[i] = q /\ seq[j] = r
      BY <1>1 DEF Ahead
  <1>4. i - 1 \in 1 .. m - 1 /\ j - 1 \in 1 .. m - 1 /\ i - 1 < j - 1
      BY <1>1, <1>2, <1>3
  <1>5. h[i - 1] = seq[i] /\ h[j - 1] = seq[j]
      BY <1>1, <1>4
  <1>6. Ahead(q, r, h)
      BY <1>1, <1>3, <1>4, <1>5 DEF Ahead
  <1> QED
      BY <1>6 DEF h

\* Taking some out leaves the others in their order.
LEMMA AheadWithout ==
  ASSUME NEW S, NEW seq \in Seq(S), NEW R,
         NEW q, NEW r, q \notin R, r \notin R, Ahead(q, r, seq)
  PROVE  Ahead(q, r, Without(seq, R))
  <1> DEFINE m == Len(seq)
  <1>1. m \in Nat /\ DOMAIN seq = 1 .. m /\ \A k \in 1 .. m : seq[k] \in S
      OBVIOUS
  <1>2. PICK f : /\ Without(seq, R) = f[m]
                 /\ f[0] = <<>>
                 /\ \A k \in 1 .. m :
                      f[k] = IF seq[k] \in R THEN f[k - 1] ELSE Append(f[k - 1], seq[k])
      BY <1>1, WithoutUnfolds
  <1>3. PICK i \in 1 .. m, j \in 1 .. m : i < j /\ seq[i] = q /\ seq[j] = r
      BY <1>1 DEF Ahead
  <1> HIDE DEF m
  <1> DEFINE Good(k) == /\ f[k] \in Seq(S)
                        /\ i <= k => q \in In(f[k])
                        /\ j <= k => Ahead(q, r, f[k])
             T == {k \in Nat : k <= m => Good(k)}
  <1>4. 0 \in T
    <2>1. f[0] \in Seq(S) /\ ~(i <= 0) /\ ~(j <= 0)
        BY <1>2, <1>3, <1>1
    <2>2. Good(0)
        BY <2>1
    <2> HIDE DEF Good
    <2> QED
        BY <2>2
  <1>5. ASSUME NEW k \in Nat, k \in T PROVE k + 1 \in T
    <2> SUFFICES ASSUME k + 1 <= m PROVE Good(k + 1)
        OBVIOUS
    <2>1. Good(k) /\ k + 1 \in 1 .. m
        BY <1>1, <1>5
    <2>2. f[k + 1] = IF seq[k + 1] \in R THEN f[k] ELSE Append(f[k], seq[k + 1])
        BY <1>2, <2>1
    <2>3. i \in Nat /\ j \in Nat /\ i < j
        BY <1>1, <1>3
    <2>4. CASE seq[k + 1] \in R
      <3>1. k + 1 # i /\ k + 1 # j
          BY <1>3, <2>4
      <3>2. f[k + 1] = f[k]
          BY <2>2, <2>4
      <3>3. (i <= k + 1 => i <= k) /\ (j <= k + 1 => j <= k)
          BY <2>3, <3>1
      <3> QED
          BY <2>1, <3>2, <3>3
    <2>5. CASE seq[k + 1] \notin R
      <3>1. f[k] \in Seq(S) /\ seq[k + 1] \in S /\ f[k + 1] = Append(f[k], seq[k + 1])
          BY <1>1, <2>1, <2>2, <2>5
      <3>2. f[k + 1] \in Seq(S) /\ In(f[k + 1]) = In(f[k]) \cup {seq[k + 1]}
          BY <3>1, Appended
      <3>3. /\ Ahead(q, r, f[k]) => Ahead(q, r, f[k + 1])
            /\ q \in In(f[k]) => Ahead(q, seq[k + 1], f[k + 1])
          BY <3>1, AheadAppended
      <3>4. i <= k + 1 => i <= k \/ i = k + 1
          BY <2>3
      <3>5. j <= k + 1 => j <= k \/ (j = k + 1 /\ i <= k)
          BY <2>3
      <3>6. i <= k + 1 => q \in In(f[k + 1])
          BY <1>3, <2>1, <3>2, <3>4
      <3>7. j <= k + 1 => Ahead(q, r, f[k + 1])
          BY <1>3, <2>1, <3>3, <3>5
      <3> QED
          BY <3>2, <3>6, <3>7
    <2> QED
        BY <2>4, <2>5
  <1>6. m \in T
    <2> HIDE DEF T
    <2> QED
        BY <1>1, <1>4, <1>5, Induction
  <1>7. j <= m
      BY <1>1, <1>3
  <1> QED
      BY <1>1, <1>2, <1>6, <1>7

\* No way a list changes puts a request in front of an older one.
LEMMA ChangeInOrder ==
  ASSUME NEW seq \in Seq(Reqs), Distinct(seq), NEW seq2, Change(seq, seq2)
  PROVE  InOrder(seq, seq2)
  <1> SUFFICES ASSUME seq2 # seq, NEW q \in In(seq2), NEW r \in In(seq2),
                      Ahead(q, r, seq) \/ (q \in In(seq) /\ r \notin In(seq))
               PROVE  Ahead(q, r, seq2)
      BY DEF InOrder
  <1>1. ASSUME NEW x \in Reqs, seq2 = Append(seq, x) PROVE Ahead(q, r, seq2)
    <2>1. In(seq2) = In(seq) \cup {x}
        BY <1>1, Appended
    <2> QED
        BY <1>1, <2>1, AheadAppended
  <1>2. CASE seq # <<>> /\ seq2 = Tail(seq)
    <2>1. r \in In(seq)
        BY <1>2, Removed
    <2> QED
        BY <1>2, <2>1, AheadRemoved
  <1>3. ASSUME NEW R \in SUBSET Reqs, seq2 = Without(seq, R) PROVE Ahead(q, r, seq2)
    <2>1. q \in In(seq) \ R /\ r \in In(seq) \ R
        BY <1>3, WithoutRemoves
    <2> QED
        BY <1>3, <2>1, AheadWithout
  <1>4. CASE seq2 = <<>>
      BY <1>4, EmptyList
  <1> QED
      BY <1>1, <1>2, <1>3, <1>4 DEF Change

-----------------------------------------------------------------------------
(* The steps that write a list.                                             *)

ListsChange ==
  /\ \A l \in Lists : Change(reads[l], reads'[l])
  /\ Change(event_list, event_list') /\ Change(port, port')

LEMMA ListsSame == ASSUME UNCHANGED listVars PROVE ListsChange
  BY DEF listVars, ListsChange, Change

LEMMA FlushChanges ==
  ASSUME NEW e, FlushReadQueue(e), ListInv
  PROVE  ListsChange
  <1> DEFINE orphans == {r \in In(event_list) : cmd[r] = "orphan"}
  <1>1. orphans \in SUBSET Reqs
      BY Elements DEF ListInv
  <1>2. /\ reads' = [l \in Lists |-> <<>>] /\ port' = port
        /\ event_list' = Without(event_list, orphans)
      BY DEF FlushReadQueue
  <1> HIDE DEF orphans
  <1> QED
      BY <1>1, <1>2 DEF ListsChange, Change

LEMMA SignalChanges ==
  ASSUME NEW e, SignalEvent(e), ListInv
  PROVE  ListsChange
  <1> DEFINE R == {r \in In(event_list) : e \in wire[r]}
  <1>1. R \in SUBSET Reqs
      BY Elements DEF ListInv
  <1>2. reads' = reads /\ port' = port /\ event_list' = Without(event_list, R)
      BY DEF SignalEvent
  <1> HIDE DEF R
  <1> QED
      BY <1>1, <1>2 DEF ListsChange, Change

LEMMA QueueChanges ==
  ASSUME NEW r \in Reqs, Queue(r), ListInv
  PROVE  ListsChange
  <1>1. CASE UNCHANGED <<event_list, port>>
             /\ reads' = [reads EXCEPT ![ListOf(ptype[r])] = Append(@, r)]
    <2>1. \A l \in Lists : reads'[l] = reads[l] \/ reads'[l] = Append(reads[l], r)
        BY <1>1 DEF ListInv
    <2> QED
        BY <1>1, <2>1 DEF ListsChange, Change
  <1>2. CASE event_list' = Append(event_list, r) /\ UNCHANGED <<reads, port>>
      BY <1>2 DEF ListsChange, Change
  <1>3. CASE port' = Append(port, r) /\ UNCHANGED <<reads, event_list>>
      BY <1>3 DEF ListsChange, Change
  <1> QED
      BY <1>1, <1>2, <1>3 DEF Queue, ReadList

LEMMA AbortChanges ==
  ASSUME NEW r \in Reqs, NEW place, NEW next, AbortStep(r, place, next), ListInv
  PROVE  ListsChange
  <1>1. CASE UNCHANGED listVars
      BY <1>1, ListsSame
  <1>2. CASE /\ reads' = IF place = "reads" THEN [l \in Lists |-> Without(reads[l], {r})]
                         ELSE reads
             /\ event_list' = IF place = "events" THEN Without(event_list, {r}) ELSE event_list
             /\ port' = IF place = "port" THEN Without(port, {r}) ELSE port
    <2>1. {r} \in SUBSET Reqs
        OBVIOUS
    <2>2. \A l \in Lists : reads'[l] = reads[l] \/ reads'[l] = Without(reads[l], {r})
        BY <1>2
    <2>3. event_list' = event_list \/ event_list' = Without(event_list, {r})
        BY <1>2
    <2>4. port' = port \/ port' = Without(port, {r})
        BY <1>2
    <2> QED
        BY <2>1, <2>2, <2>3, <2>4 DEF ListsChange, Change
  <1> QED
      BY <1>1, <1>2 DEF AbortStep

LEMMA ReceiveChanges ==
  ASSUME IInv, NEW t \in EtherTypes, ReceiveFrame(t)
  PROVE  ListsChange
  <1>1. CASE /\ reads[ListOf(t)] # <<>>
             /\ reads' = [reads EXCEPT ![ListOf(t)] = Tail(@)]
             /\ UNCHANGED event_list
    <2>1. \A l \in Lists :
            reads'[l] = reads[l] \/ (reads[l] # <<>> /\ reads'[l] = Tail(reads[l]))
        BY <1>1 DEF IInv, ListInv
    <2> QED
        BY <1>1, <2>1 DEF ReceiveFrame, ListsChange, Change
  <1>2. CASE event_list' = Without(event_list, {cur'}) /\ UNCHANGED reads
    <2>1. cur' \in Reqs
        BY ReceiveFrameKeeps, RequestsAssumption DEF ReceiveFrame, IInv, TaskInv, Holding
    <2>2. {cur'} \in SUBSET Reqs
        BY <2>1
    <2> QED
        BY <1>2, <2>2 DEF ReceiveFrame, ListsChange, Change
  <1> QED
      BY <1>1, <1>2 DEF ReceiveFrame

LEMMA StepChanges == ASSUME IInv, [Next]_vars PROVE ListsChange
  <1>1. ListInv
      BY DEF IInv
  <1>2. CASE UNCHANGED vars
      BY <1>2, ListsSame DEF vars
  <1>3. CASE TaskStep
    <2>1. CASE Wake \/ ReplyCommand \/ EndDrain \/ Deliver \/ EndRx
        BY <2>1, ListsSame DEF Wake, ReplyCommand, EndDrain, Deliver, EndRx
    <2>2. CASE \E t \in EtherTypes : DropFrame(t)
        BY <2>2, ListsSame DEF DropFrame
    <2>3. CASE GetMsg
        BY <2>3 DEF GetMsg, ListsChange, Change
    <2>4. CASE ExitDrain
        BY <2>4 DEF ExitDrain, ListsChange, Change
    <2>5. CASE ExitFlushEvents
        BY <2>5 DEF ExitFlushEvents, ListsChange, Change
    <2>6. CASE OfflineFlush \/ Flush \/ ExitFlushReads
        BY <1>1, <2>6, FlushChanges DEF OfflineFlush, Flush, ExitFlushReads
    <2>7. CASE SignalOnline \/ SignalOffline
        BY <1>1, <2>7, SignalChanges DEF SignalOnline, SignalOffline
    <2>8. CASE \E t \in EtherTypes : ReceiveFrame(t)
        BY <2>8, ReceiveChanges
    <2> QED
        BY <1>3, <2>1, <2>2, <2>3, <2>4, <2>5, <2>6, <2>7, <2>8 DEF TaskStep, Exit
  <1>4. ASSUME NEW r \in Reqs, OpenerStep(r) \/ StartAbort(r) PROVE ListsChange
    <2>1. CASE Check(r) \/ AnswerNow(r) \/ StartAbort(r)
        BY <2>1, ListsSame DEF Check, AnswerNow, StartAbort
    <2>2. CASE Queue(r)
        BY <1>1, <2>2, QueueChanges
    <2>3. CASE AbortIO(r)
        BY <1>1, <2>3, AbortChanges DEF AbortIO
    <2> QED
        BY <1>4, <2>1, <2>2, <2>3 DEF OpenerStep
  <1>5. ASSUME NEW r \in Reqs, NEW c, NEW t, NEW events, BeginIO(r, c, t, events)
        PROVE  ListsChange
      BY <1>5, ListsSame DEF BeginIO
  <1>6. CASE Open \/ Close
      BY <1>6, ListsSame DEF Open, Close
  <1> QED
      BY <1>2, <1>3, <1>4, <1>5, <1>6 DEF Next

-----------------------------------------------------------------------------
(* What the unit task takes.                                                *)

\* Of two requests one of which came before the other, both are linked.
LEMMA BeforeLinked == ASSUME NEW q, NEW r, Before(q, r) PROVE Linked(r)
  BY AheadElements DEF Before, Linked

\* The first command of the port.
LEMMA GetMsgInTurn ==
  ASSUME IInv, GetMsg, NEW q, Before(q, cur')
  PROVE  FALSE
  <1>1. port # <<>> /\ cur' = Head(port) /\ port \in Seq(Reqs) /\ Distinct(port)
      BY DEF GetMsg, IInv, ListInv
  <1>2. 1 \in DOMAIN port /\ cur' = port[1]
      BY <1>1
  <1>3. cur' \in In(port) /\ cur' \in Reqs
      BY <1>1, <1>2, Elements DEF In
  <1>4. cmd[cur'] \in Ported
      BY <1>3 DEF IInv, PlaceInv
  <1>5. cur' \notin In(event_list) /\ \A l \in Lists : cur' \notin In(reads[l])
      BY <1>3, <1>4 DEF IInv, PlaceInv, Ported
  <1>6. Ahead(q, cur', port)
      BY <1>5, AheadElements DEF Before
  <1> QED
      BY <1>1, <1>2, <1>6, AheadPlaces

\* The first read of the list of the frame's type, and the first orphan.
LEMMA ReceiveInTurn ==
  ASSUME IInv, NEW t \in EtherTypes, ReceiveFrame(t), NEW q, Before(q, cur')
  PROVE  FALSE
  <1> DEFINE k == ListOf(t)
  <1>1. k \in Lists
      BY DEF ListOf, Lists
  <1>2. CASE reads[k] # <<>> /\ cur' = Head(reads[k])
    <2>1. reads[k] \in Seq(Reqs) /\ Distinct(reads[k])
        BY <1>1 DEF IInv, ListInv
    <2>2. 1 \in DOMAIN reads[k] /\ cur' = reads[k][1]
        BY <1>2, <2>1
    <2>3. cur' \in In(reads[k]) /\ cur' \in Reqs
        BY <2>1, <2>2, Elements DEF In
    <2>4. cmd[cur'] = "read" /\ \A l \in Lists : cur' \in In(reads[l]) => l = k
        BY <1>1, <2>3 DEF IInv, PlaceInv
    <2>5. cur' \notin In(event_list) /\ cur' \notin In(port)
        BY <2>3, <2>4 DEF IInv, PlaceInv, Ported
    <2>6. Ahead(q, cur', reads[k])
        BY <2>4, <2>5, AheadElements DEF Before
    <2> QED
        BY <2>1, <2>2, <2>6, AheadPlaces
  <1>3. CASE /\ \E r \in In(event_list) : cmd[r] = "orphan"
             /\ cur' = event_list[FirstOrphan]
    <2>1. event_list \in Seq(Reqs) /\ Distinct(event_list)
        BY DEF IInv, ListInv
    <2>2. cur' \in In(event_list) /\ cmd[cur'] = "orphan"
        BY <1>3, <2>1, OrphanFound
    <2>3. cur' \in Reqs
        BY <2>1, <2>2, Elements
    <2>4. cur' \notin In(port) /\ \A l \in Lists : cur' \notin In(reads[l])
        BY <2>2, <2>3 DEF IInv, PlaceInv, Ported
    <2>5. Ahead(q, cur', event_list) /\ cmd[q] = "orphan"
        BY <2>4, AheadElements DEF Before
    <2>6. /\ FirstOrphan \in DOMAIN event_list
          /\ \A j \in 1 .. FirstOrphan - 1 : cmd[event_list[j]] # "orphan"
        BY <1>3, <2>1, OrphanFound
    <2>7. PICK i \in 1 .. FirstOrphan - 1 : event_list[i] = q
        BY <1>3, <2>1, <2>5, <2>6, AheadPlaces
    <2> QED
        BY <2>5, <2>6, <2>7
  <1> QED
      BY <1>2, <1>3 DEF ReceiveFrame

\* Nobody but the unit task in these two places takes a request.
LEMMA StepTakes ==
  ASSUME IInv, [Next]_vars, cur' # cur, NEW q \in Reqs
  PROVE  ~Before(q, cur')
  <1>1. CASE GetMsg
      BY <1>1, GetMsgInTurn
  <1>2. CASE \E t \in EtherTypes : ReceiveFrame(t)
      BY <1>2, ReceiveInTurn
  <1>3. CASE ReplyCommand \/ Deliver
    <2>1. cur' = NoReq /\ NoReq \notin Reqs
        BY <1>3, RequestsAssumption DEF ReplyCommand, Deliver
    <2>2. ~Linked(NoReq)
        BY <2>1, Elements DEF Linked, IInv, ListInv
    <2> QED
        BY <2>1, <2>2, BeforeLinked
  <1>4. GetMsg \/ (\E t \in EtherTypes : ReceiveFrame(t)) \/ ReplyCommand \/ Deliver
    <2> SUFFICES ASSUME ~GetMsg, ~(\E t \in EtherTypes : ReceiveFrame(t)),
                        ~ReplyCommand, ~Deliver
                 PROVE  cur' = cur
        OBVIOUS
    <2>1. CASE UNCHANGED vars
        BY <2>1 DEF vars, taskVars
    <2>2. CASE TaskStep
      <3>1. CASE Wake \/ EndDrain \/ EndRx \/ Exit \/ \E t \in EtherTypes : DropFrame(t)
          BY <3>1 DEF Wake, EndDrain, EndRx, Exit, ExitDrain, ExitFlushReads,
                      ExitFlushEvents, DropFrame
      <3>2. CASE SignalOnline \/ SignalOffline \/ OfflineFlush \/ Flush
          BY <3>2 DEF SignalOnline, SignalOffline, OfflineFlush, Flush
      <3> QED
          BY <2>2, <3>1, <3>2 DEF TaskStep
    <2>3. ASSUME NEW r \in Reqs, OpenerStep(r) \/ StartAbort(r) PROVE cur' = cur
        BY <2>3 DEF OpenerStep, StartAbort, Check, Queue, AnswerNow, AbortIO, AbortStep, taskVars
    <2>4. ASSUME NEW r \in Reqs, NEW c, NEW t, NEW events, BeginIO(r, c, t, events)
          PROVE  cur' = cur
        BY <2>4 DEF BeginIO, taskVars
    <2>5. CASE Open \/ Close
        BY <2>5 DEF Open, Close
    <2> QED
        BY <2>1, <2>2, <2>3, <2>4, <2>5 DEF Next
  <1> QED
      BY <1>1, <1>2, <1>3, <1>4

\* First come, first served, whatever is aborted, flushed or signalled in between
\* (BeginIO.c:139 and 145, AbortIO, unit_task.c, rx.c:441-537).
THEOREM ServedInTurn == Spec => InTurn
  <1>1. IInv /\ [Next]_vars =>
          [/\ cur' # cur => \A q \in Reqs : ~Before(q, cur')
           /\ \A l \in Lists : InOrder(reads[l], reads'[l])
           /\ InOrder(event_list, event_list') /\ InOrder(port, port')]_vars
    <2> SUFFICES ASSUME IInv, [Next]_vars
                 PROVE  /\ cur' # cur => \A q \in Reqs : ~Before(q, cur')
                        /\ \A l \in Lists : InOrder(reads[l], reads'[l])
                        /\ InOrder(event_list, event_list') /\ InOrder(port, port')
        OBVIOUS
    <2>1. /\ \A l \in Lists : reads[l] \in Seq(Reqs) /\ Distinct(reads[l])
          /\ event_list \in Seq(Reqs) /\ Distinct(event_list)
          /\ port \in Seq(Reqs) /\ Distinct(port)
        BY DEF IInv, ListInv
    <2>2. ListsChange
        BY StepChanges
    <2>3. \A l \in Lists : InOrder(reads[l], reads'[l])
        BY <2>1, <2>2, ChangeInOrder DEF ListsChange
    <2>4. InOrder(event_list, event_list') /\ InOrder(port, port')
        BY <2>1, <2>2, ChangeInOrder DEF ListsChange
    <2> QED
        BY <2>3, <2>4, StepTakes
  <1> QED
      BY <1>1, Invariance, PTL DEF Spec, InTurn

-----------------------------------------------------------------------------
(* The type of a delivered frame.                                           *)

\* The request in the unit task's hands keeps its command and type until it is
\* answered: its owner may not touch it, and AbortIO does not find it.
LEMMA CurUntouched ==
  ASSUME IInv, [Next]_vars, cur \in Reqs, cur' = cur
  PROVE  cmd'[cur] = cmd[cur] /\ ptype'[cur] = ptype[cur]
  <1>1. status[cur] = "taken" /\ ~Linked(cur)
      BY DEF IInv, PlaceInv
  <1>2. ASSUME NEW R, NEW e, Reply(R, e), cur \notin R
        PROVE  cmd'[cur] = cmd[cur] /\ ptype'[cur] = ptype[cur]
      BY <1>2 DEF Reply
  <1>3. cur # NoReq
      BY RequestsAssumption
  <1>4. CASE TaskStep
    <2>1. CASE Wake \/ GetMsg \/ EndDrain \/ EndRx
        BY <2>1 DEF Wake, GetMsg, EndDrain, EndRx, reqVars, useVars
    <2>2. CASE \E t \in EtherTypes : ReceiveFrame(t) \/ DropFrame(t)
        BY <2>2 DEF ReceiveFrame, DropFrame, reqVars, useVars
    <2>3. CASE ReplyCommand \/ Deliver
        BY <1>3, <2>3 DEF ReplyCommand, Deliver
    <2>4. CASE SignalOnline \/ SignalOffline
      <3>1. PICK e : SignalEvent(e)
          BY <2>4 DEF SignalOnline, SignalOffline
      <3> QED
          BY <1>1, <1>2, <3>1 DEF SignalEvent, Linked
    <2>5. CASE OfflineFlush \/ Flush \/ ExitFlushReads
      <3>1. PICK e : FlushReadQueue(e)
          BY <2>5 DEF OfflineFlush, Flush, ExitFlushReads
      <3> QED
          BY <1>1, <1>2, <3>1 DEF FlushReadQueue, Linked
    <2>6. CASE ExitDrain
      <3>1. port # <<>> => Head(port) \in In(port)
          BY Removed DEF IInv, ListInv
      <3> QED
          BY <1>1, <1>2, <2>6, <3>1 DEF ExitDrain, useVars, Linked
    <2>7. CASE ExitFlushEvents
        BY <1>1, <1>2, <2>7 DEF ExitFlushEvents, Linked
    <2> QED
        BY <1>4, <2>1, <2>2, <2>3, <2>4, <2>5, <2>6, <2>7 DEF TaskStep, Exit
  <1>5. ASSUME NEW r \in Reqs, OpenerStep(r) \/ StartAbort(r)
        PROVE  cmd'[cur] = cmd[cur] /\ ptype'[cur] = ptype[cur]
    <2>1. CASE Queue(r) \/ StartAbort(r)
        BY <2>1 DEF Queue, StartAbort
    <2>2. CASE Check(r)
        BY <1>1, <1>2, <2>2 DEF Check
    <2>3. CASE AnswerNow(r)
        BY <1>1, <1>2, <2>3 DEF AnswerNow
    <2>4. ASSUME NEW place \in {"reads", "events", "port"}, NEW next,
                 AbortStep(r, place, next)
          PROVE  cmd'[cur] = cmd[cur] /\ ptype'[cur] = ptype[cur]
        BY <1>1, <1>2, <2>4 DEF AbortStep, Found, Linked, useVars
    <2> QED
        BY <1>5, <2>1, <2>2, <2>3, <2>4 DEF OpenerStep, AbortIO
  <1>6. ASSUME NEW r \in Reqs, NEW c, NEW t, NEW events, BeginIO(r, c, t, events)
        PROVE  cmd'[cur] = cmd[cur] /\ ptype'[cur] = ptype[cur]
      BY <1>1, <1>6 DEF BeginIO, IInv, RequestTypes
  <1>7. CASE Open \/ Close \/ UNCHANGED vars
      BY <1>7 DEF Open, Close, vars, reqVars, useVars
  <1> QED
      BY <1>4, <1>5, <1>6, <1>7 DEF Next

\* A read is delivered a frame of its list: of its type, if that is IPv4 or ARP
\* (BeginIO.c:140, rx.c:392).  For the other types see run other_types.
THEOREM ReadsMatchLists == Spec => []ReadGetsItsList
  <1>1. Init => ReadGetsItsList
      BY DEF Init, ReadGetsItsList
  <1>2. IInv /\ ReadGetsItsList /\ [Next]_vars => ReadGetsItsList'
    <2> SUFFICES ASSUME IInv, ReadGetsItsList, [Next]_vars, loop' = "deliver",
                        cmd'[cur'] = "read"
                 PROVE  ListOf(ptype'[cur']) = ListOf(frame')
        BY DEF ReadGetsItsList, ListOf
    <2>1. ASSUME NEW t \in EtherTypes, ReceiveFrame(t)
          PROVE  ListOf(ptype'[cur']) = ListOf(frame')
      <3>1. cmd' = cmd /\ ptype' = ptype /\ frame' = t /\ ListOf(t) \in Lists
          BY <2>1 DEF ReceiveFrame, ListOf, Lists
      <3>2. CASE reads[ListOf(t)] # <<>> /\ cur' = Head(reads[ListOf(t)])
        <4>1. cur' \in In(reads[ListOf(t)]) /\ cur' \in Reqs
            BY <3>1, <3>2, Removed, Elements DEF IInv, ListInv
        <4> QED
            BY <3>1, <4>1 DEF IInv, PlaceInv
      <3>3. CASE /\ \E r \in In(event_list) : cmd[r] = "orphan"
                 /\ cur' = event_list[FirstOrphan]
        <4>1. cmd[cur'] = "orphan"
            BY <3>3, OrphanFound DEF IInv, ListInv
        <4> QED
            BY <3>1, <4>1
      <3> QED
          BY <2>1, <3>2, <3>3 DEF ReceiveFrame
    <2>2. CASE ~(\E t \in EtherTypes : ReceiveFrame(t))
      <3>1. loop = "deliver" /\ cur' = cur /\ frame' = frame
          BY <2>2 DEF Next, TaskStep, Wake, GetMsg, SignalOnline, SignalOffline, OfflineFlush,
             Flush, ReplyCommand, EndDrain, Deliver, EndRx, NextTurn, Exit, ExitDrain,
             ExitFlushReads, ExitFlushEvents, DropFrame, OpenerStep, Check, Queue, AnswerNow,
             AbortIO, AbortStep, StartAbort, BeginIO, Open, Close, vars, taskVars
      <3>2. cur \in Reqs
          BY <3>1 DEF IInv, TaskInv, Holding
      <3>3. cmd'[cur] = cmd[cur] /\ ptype'[cur] = ptype[cur]
          BY <3>1, <3>2, CurUntouched
      <3> QED
          BY <3>1, <3>3 DEF ReadGetsItsList
    <2> QED
        BY <2>1, <2>2
  <1> QED
      BY <1>1, <1>2, Invariance, PTL DEF Spec

-----------------------------------------------------------------------------
(* Events.  BeginIO clears ios2_WireError, where the owner of an S2_ONEVENT *)
(* put the events to wait for, before it queues the request.                *)

NoMask == \A r \in Reqs : wire[r] = {}

LEMMA StepNoMask == ASSUME IInv, NoMask, [Next]_vars PROVE NoMask'
  <1>1. ASSUME NEW R, NEW e, Reply(R, e) PROVE NoMask'
      BY <1>1 DEF Reply, NoMask
  <1>2. ASSUME wire' = wire PROVE NoMask'
      BY <1>2 DEF NoMask
  <1>3. ASSUME NEW r \in Reqs, NEW c, NEW t, NEW events, BeginIO(r, c, t, events)
        PROVE  NoMask'
      BY <1>3 DEF BeginIO, NoMask, IInv, RequestTypes
  <1>4. CASE TaskStep
    <2>1. wire' = wire \/ \E R, e : Reply(R, e)
      <3>1. CASE Wake \/ GetMsg \/ EndDrain \/ EndRx
          BY <3>1 DEF Wake, GetMsg, EndDrain, EndRx, reqVars, useVars
      <3>2. CASE \E t \in EtherTypes : ReceiveFrame(t) \/ DropFrame(t)
          BY <3>2 DEF ReceiveFrame, DropFrame, reqVars, useVars
      <3>3. CASE ReplyCommand \/ Deliver
          BY <3>3 DEF ReplyCommand, Deliver
      <3>4. CASE SignalOnline \/ SignalOffline
          BY <3>4 DEF SignalOnline, SignalOffline, SignalEvent
      <3>5. CASE OfflineFlush \/ Flush \/ ExitFlushReads
          BY <3>5 DEF OfflineFlush, Flush, ExitFlushReads, FlushReadQueue
      <3>6. CASE ExitDrain \/ ExitFlushEvents
          BY <3>6 DEF ExitDrain, ExitFlushEvents, useVars
      <3> QED
          BY <1>4, <3>1, <3>2, <3>3, <3>4, <3>5, <3>6 DEF TaskStep, Exit
    <2> QED
        BY <1>1, <1>2, <2>1
  <1>5. ASSUME NEW r \in Reqs, OpenerStep(r) \/ StartAbort(r) PROVE NoMask'
    <2>1. wire' = wire \/ \E R, e : Reply(R, e)
      <3>1. CASE Check(r) \/ Queue(r) \/ AnswerNow(r) \/ StartAbort(r)
          BY <3>1 DEF Check, Queue, AnswerNow, StartAbort
      <3>2. CASE AbortIO(r)
          BY <3>2 DEF AbortIO, AbortStep, useVars
      <3> QED
          BY <1>5, <3>1, <3>2 DEF OpenerStep
    <2> QED
        BY <1>1, <1>2, <2>1
  <1>6. CASE Open \/ Close \/ UNCHANGED vars
      BY <1>2, <1>6 DEF Open, Close, vars, reqVars, useVars
  <1> QED
      BY <1>3, <1>4, <1>5, <1>6 DEF Next

\* No event ever answers anybody, whatever masks the owners asked for and
\* however many they are: signal_event (unit_task.c) finds every mask empty.
THEOREM EventsAnswerNobody ==
  Spec => [][SignalOnline \/ SignalOffline =>
               /\ \A r \in Reqs : status'[r] = status[r] /\ err'[r] = err[r]
               /\ In(event_list') = In(event_list)]_vars
  <1>1. Init => NoMask
      BY DEF Init, NoMask
  <1>2. IInv /\ NoMask /\ [Next]_vars => NoMask'
      BY StepNoMask
  <1>3. IInv /\ NoMask /\ [Next]_vars =>
          [SignalOnline \/ SignalOffline =>
             /\ \A r \in Reqs : status'[r] = status[r] /\ err'[r] = err[r]
             /\ In(event_list') = In(event_list)]_vars
    <2> SUFFICES ASSUME IInv, NoMask, SignalOnline \/ SignalOffline
                 PROVE  /\ \A r \in Reqs : status'[r] = status[r] /\ err'[r] = err[r]
                        /\ In(event_list') = In(event_list)
        OBVIOUS
    <2>1. PICK e : SignalEvent(e)
        BY DEF SignalOnline, SignalOffline
    <2>2. event_list \in Seq(Reqs) /\ In(event_list) \subseteq Reqs
        BY Elements DEF IInv, ListInv
    <2>3. {r \in In(event_list) : e \in wire[r]} = {}
        BY <2>2 DEF NoMask
    <2>4. Reply({}, "ok") /\ event_list' = Without(event_list, {})
        BY <2>1, <2>3 DEF SignalEvent
    <2>5. In(event_list') = In(event_list) \ {}
        BY <2>2, <2>4, WithoutRemoves
    <2> QED
        BY <2>4, <2>5 DEF Reply
  <1> QED
      BY <1>1, <1>2, <1>3, Invariance, PTL DEF Spec

=============================================================================
