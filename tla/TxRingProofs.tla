---------------------------- MODULE TxRingProofs ----------------------------
(****************************************************************************)
(* TxRing's invariants hold for any number of tasks, buffers, packets in    *)
(* the ring and writes.  IInv adds to them the order of the queue for the   *)
(* lock, where each buffer is on its way, and, as long as no timeout has    *)
(* taken a packet from the engine, that it owns one packet at most.         *)
(* CreditInv, on top of it, bounds the credit whatever has timed out.       *)
(****************************************************************************)
EXTENDS TxRing, TLAPS

\* Between ObtainSemaphore and ReleaseSemaphore; and once the semaphore is held.
Owner == {"recheck", "release", "fill", "bell", "store"}
UnderLock == Owner \cup {"cleanup"}

\* tx_lock is a queue without repetition of those under the lock; only its head
\* is past the start of tx_cleanup_pending.
LockInv ==
  /\ \A i, j \in 1 .. Len(tx_lock) : tx_lock[i] = tx_lock[j] => i = j
  /\ \A t \in Tasks :
       step[t] \in UnderLock <=> \E i \in 1 .. Len(tx_lock) : tx_lock[i] = t
  /\ \A t \in Tasks : step[t] \in Owner => Len(tx_lock) > 0 /\ tx_lock[1] = t

\* A task has a buffer from its allocation until it is given back or stored.
HandsInv == \A t \in Tasks : tx_buf[t] # NoBuf <=> step[t] \notin {"idle", "reply"}

\* The pending packet is the one filled last, until its buffer is released.
PendingInv ==
  /\ \A t \in Tasks : step[t] \in {"recheck", "release"} => tx_buf_pending # NoBuf
  /\ \A t \in Tasks : step[t] \in {"fill", "bell", "store"} => tx_buf_pending = NoBuf
  /\ tx_buf_pending # NoBuf => tx_fill_pending = FilledPosition

\* Mapped from StartDMA to the release.
MappedInv ==
  /\ tx_buf_pending # NoBuf => tx_buf_pending \in mapped
  /\ \A t \in Tasks : step[t] \in {"list", "lock"} \cup UnderLock => tx_buf[t] \in mapped

\* The buffer of the packet filled last.
Current(b) ==
  \/ tx_buf_pending # NoBuf /\ b = tx_buf_pending
  \/ \E t \in Tasks : step[t] \in {"bell", "store"} /\ b = tx_buf[t]

\* Without a timeout the engine owns one packet at most, the one filled last.
EngineInv ==
  giveUps = 0 =>
    /\ credit <= 1
    /\ credit > 0 => tx_ring[hwNext].O
    /\ sending # NoBuf => credit > 0 /\ sending = tx_ring[hwNext].buf
    /\ \A g \in Positions :
         tx_ring[g].O => g = FilledPosition /\ Current(tx_ring[g].buf)
    /\ \A t \in Tasks : step[t] \in {"release", "fill"} => \A g \in Positions : ~tx_ring[g].O
    /\ \A t \in Tasks : step[t] = "bell" => credit = 0 /\ tx_ring[FilledPosition].O

IInv ==
  /\ TypeOK /\ LockInv /\ HandsInv /\ PendingInv /\ MappedInv
  /\ BuffersAccounted /\ EngineInv /\ InStep

-----------------------------------------------------------------------------
(* Positions in the ring.                                                   *)

LEMMA Division ==
  ASSUME NEW m \in Nat \ {0}, NEW x \in Nat
  PROVE  /\ x % m \in 0 .. m - 1 /\ x \div m \in Int
         /\ x = (m * (x \div m)) + (x % m)
  OBVIOUS

LEMMA RemainderUnique ==
  ASSUME NEW m \in Nat \ {0}, NEW q \in Int, NEW p \in Int,
         NEW r \in 0 .. m - 1, NEW s \in 0 .. m - 1, (m * q) + r = (m * p) + s
  PROVE  r = s
  OBVIOUS

\* A decomposition of a number determines its remainder.
LEMMA Remainder ==
  ASSUME NEW m \in Nat \ {0}, NEW x \in Nat, NEW q \in Int,
         NEW r \in 0 .. m - 1, x = (m * q) + r
  PROVE  x % m = r
  <1> DEFINE y == x % m
             z == x \div m
  <1>1. y \in 0 .. m - 1 /\ z \in Int /\ x = (m * z) + y
      BY Division
  <1> HIDE DEF y, z
  <1>2. y = r
      BY <1>1, RemainderUnique
  <1> QED
      BY <1>2 DEF y

\* Going on by one.
LEMMA RemainderNext ==
  ASSUME NEW m \in Nat \ {0}, NEW x \in Nat
  PROVE  (x + 1) % m = IF x % m = m - 1 THEN 0 ELSE (x % m) + 1
  <1> DEFINE y == x % m
             z == x \div m
  <1>1. y \in 0 .. m - 1 /\ z \in Int /\ x = (m * z) + y
      BY Division
  <1> HIDE DEF y, z
  <1>2. CASE y = m - 1
    <2>1. x + 1 = (m * (z + 1)) + 0
        BY <1>1, <1>2
    <2>2. x + 1 \in Nat /\ z + 1 \in Int /\ 0 \in 0 .. m - 1
        BY <1>1
    <2>3. (x + 1) % m = 0
        BY <2>1, <2>2, Remainder
    <2> QED
        BY <2>3, <1>2 DEF y
  <1>3. CASE y # m - 1
    <2>1. x + 1 = (m * z) + (y + 1)
        BY <1>1
    <2>2. (x + 1) % m = y + 1
        BY <2>1, <1>1, <1>3, Remainder
    <2> QED
        BY <2>2, <1>3 DEF y
  <1> QED
      BY <1>2, <1>3

\* Once round the ring.
LEMMA RemainderRound ==
  ASSUME NEW m \in Nat \ {0}, NEW x \in Nat
  PROVE  (x + m) % m = x % m
  <1> DEFINE y == x % m
             z == x \div m
  <1>1. y \in 0 .. m - 1 /\ z \in Int /\ x = (m * z) + y
      BY Division
  <1> HIDE DEF y, z
  <1>2. x + m = (m * (z + 1)) + y
      BY <1>1
  <1>3. (x + m) % m = y
      BY <1>2, <1>1, Remainder
  <1> QED
      BY <1>3 DEF y

\* The next position and the one before, of positions in the ring.
LEMMA Neighbours ==
  ASSUME NEW m \in Nat \ {0}, NEW x \in 0 .. m - 1
  PROVE  /\ x % m = x
         /\ (x + 1) % m = IF x = m - 1 THEN 0 ELSE x + 1
         /\ (x + m - 1) % m = IF x = 0 THEN m - 1 ELSE x - 1
  <1>1. x % m = x
    <2>1. x \in Nat /\ x = (m * 0) + x
        OBVIOUS
    <2> QED
        BY <2>1, Remainder
  <1>2. (x + 1) % m = IF x = m - 1 THEN 0 ELSE x + 1
    <2>1. x \in Nat
        OBVIOUS
    <2> QED
        BY <1>1, <2>1, RemainderNext
  <1>3. CASE x = 0
    <2>1. x + m - 1 \in Nat /\ x + m - 1 = (m * 0) + (m - 1)
        BY <1>3
    <2>2. (x + m - 1) % m = m - 1
        BY <2>1, Remainder
    <2> QED
        BY <1>1, <1>2, <1>3, <2>2
  <1>4. CASE x # 0
    <2>1. x + m - 1 \in Nat /\ x + m - 1 = (m * 1) + (x - 1) /\ x - 1 \in 0 .. m - 1
        BY <1>4
    <2>2. (x + m - 1) % m = x - 1
        BY <2>1, Remainder
    <2> QED
        BY <1>1, <1>2, <1>4, <2>2
  <1> QED
      BY <1>3, <1>4

\* NextFill and the recorded position stay in the ring and undo each other.
LEMMA RingPositions ==
  ASSUME TxAssumption, tx_next_fill \in Positions
  PROVE  /\ NextFill \in Positions /\ FilledPosition \in Positions
         /\ (NextFill + Pairs - 1) % Pairs = tx_next_fill
  <1>1. Pairs \in Nat \ {0} /\ tx_next_fill \in 0 .. Pairs - 1
      BY DEF TxAssumption, Positions
  <1>2. /\ NextFill = IF tx_next_fill = Pairs - 1 THEN 0 ELSE tx_next_fill + 1
        /\ FilledPosition = IF tx_next_fill = 0 THEN Pairs - 1 ELSE tx_next_fill - 1
      BY <1>1, Neighbours DEF NextFill, FilledPosition
  <1>3. NextFill \in Positions /\ FilledPosition \in Positions
      BY <1>1, <1>2 DEF Positions
  <1>4. NextFill \in 0 .. Pairs - 1
      BY <1>3 DEF Positions
  <1>5. (NextFill + Pairs - 1) % Pairs = IF NextFill = 0 THEN Pairs - 1 ELSE NextFill - 1
      BY <1>1, <1>4, Neighbours
  <1> QED
      BY <1>1, <1>2, <1>3, <1>5

-----------------------------------------------------------------------------
(* Who holds the semaphore, and what stays when others move.                *)

LEMMA OneOwner ==
  ASSUME LockInv, NEW t \in Tasks, NEW u \in Tasks,
         step[t] \in Owner \/ (Holds(t) /\ step[t] = "cleanup"), step[u] \in Owner
  PROVE  u = t
  BY DEF LockInv, Holds, Owner

LEMMA InitInv == Init => IInv
  <1> SUFFICES ASSUME Init PROVE IInv
      OBVIOUS
  <1>1. Pairs \in Nat \ {0} /\ 0 \in Positions /\ NoBuf \notin Buffers /\ MaxWrites \in Nat
      BY TxAssumption DEF TxAssumption, Positions
  <1>2. TypeOK
    <2>1. tx_lock \in Seq(Tasks)
        BY DEF Init
    <2>2. tx_ring \in [Positions -> [O : BOOLEAN, buf : Buffers \cup {NoBuf}]]
        BY DEF Init
    <2> QED
        BY <1>1, <2>1, <2>2 DEF Init, TypeOK, Steps
  <1>3. LockInv
      BY DEF Init, LockInv, UnderLock, Owner
  <1>4. HandsInv /\ PendingInv /\ MappedInv /\ BuffersAccounted
      BY DEF Init, HandsInv, PendingInv, MappedInv, BuffersAccounted, UnderLock, Owner
  <1>5. EngineInv
      BY DEF Init, EngineInv
  <1>6. InStep
    <2>1. 0 % Pairs = 0
        BY <1>1, Neighbours
    <2>2. ~\E t \in Tasks : step[t] = "bell"
        BY DEF Init
    <2> QED
        BY <2>1, <2>2 DEF Init, InStep, Unannounced
  <1> QED
      BY <1>2, <1>3, <1>4, <1>5, <1>6 DEF IInv

\* A step outside the lock, of a task's own buffer.
Outside == {"idle", "copy", "map", "list", "reply"}
Private(t, from, to) ==
  /\ At(t, from, to)
  /\ \A u \in Tasks \ {t} : tx_buf'[u] = tx_buf[u]
  /\ UNCHANGED <<tx_ring, tx_next_fill, pending, engine, giveUps>>

LEMMA PrivateKeeps ==
  ASSUME IInv, NEW t \in Tasks, NEW from \in Outside \cup {"lock"}, 
         NEW to \in Outside \cup {"lock", "cleanup"}, Private(t, from, to)
  PROVE  PendingInv' /\ EngineInv' /\ InStep'
  <1>1. /\ step \in [Tasks -> Steps] /\ step' \in [Tasks -> Steps \cup {"cleanup", "lock"}]
        /\ step[t] = from /\ step'[t] = to
        /\ \A u \in Tasks \ {t} : step'[u] = step[u] /\ tx_buf'[u] = tx_buf[u]
      BY DEF IInv, TypeOK, Private, At, Outside, Steps
  <1>2. /\ tx_ring' = tx_ring /\ tx_next_fill' = tx_next_fill /\ giveUps' = giveUps
        /\ tx_buf_pending' = tx_buf_pending /\ tx_fill_pending' = tx_fill_pending
        /\ hwNext' = hwNext /\ credit' = credit /\ sending' = sending
      BY DEF Private, pending, engine
  <1>3. \A u \in Tasks : \/ step'[u] = step[u] /\ tx_buf'[u] = tx_buf[u]
                         \/ step'[u] \notin Owner /\ step[u] \notin Owner
    <2>1. from \notin Owner /\ to \notin Owner
        BY DEF Outside, Owner
    <2>2. step'[t] \notin Owner /\ step[t] \notin Owner
        BY <1>1, <2>1
    <2> QED
        BY <1>1, <2>2
  <1>4. PendingInv'
      BY <1>2, <1>3 DEF IInv, PendingInv, FilledPosition, Owner
  <1>5. FilledPosition' = FilledPosition
      BY <1>2 DEF FilledPosition
  <1>6. \A b : Current(b) => Current(b)'
      BY <1>2, <1>3 DEF Current, Owner
  <1>7. EngineInv'
      BY <1>2, <1>3, <1>5, <1>6 DEF IInv, EngineInv, Owner
  <1>8. InStep'
    <2>1. (\E u \in Tasks : step'[u] = "bell") <=> \E u \in Tasks : step[u] = "bell"
        BY <1>3 DEF Owner
    <2> QED
        BY <1>2, <2>1 DEF IInv, InStep, Unannounced
  <1> QED
      BY <1>4, <1>7, <1>8

LEMMA PrivateLock ==
  ASSUME IInv, NEW t \in Tasks, NEW from \in Outside \cup {"lock"},
         NEW to \in Outside \cup {"lock"}, At(t, from, to), tx_lock' = tx_lock
  PROVE  LockInv'
  <1>1. step[t] \notin UnderLock /\ step'[t] \notin UnderLock
      BY DEF IInv, TypeOK, At, Outside, UnderLock, Owner
  <1>2. \A u \in Tasks \ {t} : step'[u] = step[u]
      BY DEF IInv, TypeOK, At
  <1>3. \A u \in Tasks : /\ step'[u] \in UnderLock <=> step[u] \in UnderLock
                         /\ step'[u] \in Owner => step[u] \in Owner
      BY <1>1, <1>2 DEF UnderLock
  <1> QED
      BY <1>3 DEF IInv, LockInv

\* What the steps before the lock do to step and tx_buf.
LEMMA Moved ==
  ASSUME TypeOK, NEW t \in Tasks, NEW from, NEW to \in Steps, At(t, from, to)
  PROVE  /\ step' \in [Tasks -> Steps] /\ step[t] = from /\ step'[t] = to
         /\ \A u \in Tasks \ {t} : step'[u] = step[u]
  BY DEF TypeOK, At

LEMMA RejectKeeps ==
  ASSUME IInv, NEW t \in Tasks, Reject(t)
  PROVE  IInv'
  <1>1. /\ step' \in [Tasks -> Steps] /\ step[t] = "idle" /\ step'[t] = "reply"
        /\ \A u \in Tasks \ {t} : step'[u] = step[u]
      BY Moved DEF IInv, Reject, Steps
  <1>2. Private(t, "idle", "reply")
      BY DEF Reject, Private
  <1>3. PendingInv' /\ EngineInv' /\ InStep' /\ LockInv'
      BY <1>2, PrivateKeeps, PrivateLock DEF Outside, Private, Reject
  <1>4. TypeOK'
      BY <1>1, TxAssumption DEF IInv, TypeOK, Reject, memory, pending, engine, TxAssumption
  <1>5. HandsInv'
      BY <1>1 DEF IInv, HandsInv, Reject
  <1>6. MappedInv'
      BY <1>1 DEF IInv, MappedInv, Reject, memory, pending, UnderLock, Owner
  <1>7. BuffersAccounted'
      BY DEF IInv, BuffersAccounted, Reject, memory, pending
  <1> QED
      BY <1>3, <1>4, <1>5, <1>6, <1>7 DEF IInv

LEMMA AllocateKeeps ==
  ASSUME IInv, NEW t \in Tasks, Allocate(t)
  PROVE  IInv'
  <1>1. /\ step' \in [Tasks -> Steps] /\ step[t] = "idle" /\ step'[t] = "copy"
        /\ \A u \in Tasks \ {t} : step'[u] = step[u]
      BY Moved DEF IInv, Allocate, Steps
  <1>2. PICK b \in Buffers \ allocated :
          tx_buf' = [tx_buf EXCEPT ![t] = b] /\ allocated' = allocated \cup {b}
      BY DEF Allocate
  <1>3. /\ tx_buf[t] = NoBuf /\ tx_buf'[t] = b /\ b # NoBuf
        /\ \A u \in Tasks \ {t} : tx_buf'[u] = tx_buf[u]
      BY <1>1, <1>2, TxAssumption DEF IInv, TypeOK, HandsInv, TxAssumption
  <1>4. Private(t, "idle", "copy")
      BY <1>3 DEF Allocate, Private
  <1>5. PendingInv' /\ EngineInv' /\ InStep' /\ LockInv'
      BY <1>4, PrivateKeeps, PrivateLock DEF Outside, Private, Allocate
  <1>6. TypeOK'
    <2>1. /\ tx_buf' \in [Tasks -> Buffers \cup {NoBuf}]
          /\ mapped' \subseteq allocated' /\ allocated' \subseteq Buffers
        BY <1>2 DEF IInv, TypeOK, Allocate
    <2> QED
        BY <1>1, <2>1, TxAssumption DEF IInv, TypeOK, Allocate, pending, engine, TxAssumption
  <1>7. HandsInv'
      BY <1>1, <1>3 DEF IInv, HandsInv
  <1>8. MappedInv'
      BY <1>1, <1>3 DEF IInv, MappedInv, Allocate, pending, UnderLock, Owner
  <1>9. BuffersAccounted'
    <2>1. b # tx_buf_pending /\ \A u \in Tasks : tx_buf[u] # b
        BY <1>2, <1>3 DEF IInv, BuffersAccounted
    <2>2. {tx_buf'[u] : u \in Tasks} \ {NoBuf} = ({tx_buf[u] : u \in Tasks} \cup {b}) \ {NoBuf}
        BY <1>3
    <2>3. allocated' = ({tx_buf'[u] : u \in Tasks} \cup {tx_buf_pending'}) \ {NoBuf}
        BY <1>2, <1>3, <2>2 DEF IInv, BuffersAccounted, Allocate, pending
    <2>4. \A u \in Tasks : tx_buf'[u] # NoBuf =>
            /\ tx_buf'[u] # tx_buf_pending'
            /\ \A v \in Tasks : tx_buf'[v] = tx_buf'[u] => v = u
        BY <1>3, <2>1 DEF IInv, BuffersAccounted, Allocate, pending
    <2> QED
        BY <2>3, <2>4 DEF BuffersAccounted
  <1> QED
      BY <1>5, <1>6, <1>7, <1>8, <1>9 DEF IInv

LEMMA CopyKeeps ==
  ASSUME IInv, NEW t \in Tasks, Copy(t)
  PROVE  IInv'
  <1>1. /\ step' \in [Tasks -> Steps] /\ step[t] = "copy" /\ step'[t] = "map"
        /\ \A u \in Tasks \ {t} : step'[u] = step[u]
      BY Moved DEF IInv, Copy, Steps
  <1>2. Private(t, "copy", "map")
      BY DEF Copy, Private
  <1>3. PendingInv' /\ EngineInv' /\ InStep' /\ LockInv'
      BY <1>2, PrivateKeeps, PrivateLock DEF Outside, Private, Copy
  <1>4. TypeOK'
      BY <1>1 DEF IInv, TypeOK, Copy, memory, pending, engine
  <1>5. HandsInv'
      BY <1>1 DEF IInv, HandsInv, Copy
  <1>6. MappedInv'
      BY <1>1 DEF IInv, MappedInv, Copy, memory, pending, UnderLock, Owner
  <1>7. BuffersAccounted'
      BY DEF IInv, BuffersAccounted, Copy, memory, pending
  <1> QED
      BY <1>3, <1>4, <1>5, <1>6, <1>7 DEF IInv

LEMMA ReplyKeeps ==
  ASSUME IInv, NEW t \in Tasks, Reply(t)
  PROVE  IInv'
  <1>1. /\ step' \in [Tasks -> Steps] /\ step[t] = "reply" /\ step'[t] = "idle"
        /\ \A u \in Tasks \ {t} : step'[u] = step[u]
      BY Moved DEF IInv, Reply, Steps
  <1>2. Private(t, "reply", "idle")
      BY DEF Reply, Private
  <1>3. PendingInv' /\ EngineInv' /\ InStep' /\ LockInv'
      BY <1>2, PrivateKeeps, PrivateLock DEF Outside, Private, Reply
  <1>4. TypeOK'
      BY <1>1 DEF IInv, TypeOK, Reply, memory, pending, engine
  <1>5. HandsInv'
      BY <1>1 DEF IInv, HandsInv, Reply
  <1>6. MappedInv'
      BY <1>1 DEF IInv, MappedInv, Reply, memory, pending, UnderLock, Owner
  <1>7. BuffersAccounted'
      BY DEF IInv, BuffersAccounted, Reply, memory, pending
  <1> QED
      BY <1>3, <1>4, <1>5, <1>6, <1>7 DEF IInv

LEMMA StartDMAKeeps ==
  ASSUME IInv, NEW t \in Tasks, StartDMA(t)
  PROVE  IInv'
  <1>1. /\ step' \in [Tasks -> Steps] /\ step[t] = "map" /\ step'[t] = "list"
        /\ \A u \in Tasks \ {t} : step'[u] = step[u]
      BY Moved DEF IInv, StartDMA, Steps
  <1>2. Private(t, "map", "list")
      BY DEF StartDMA, Private
  <1>3. PendingInv' /\ EngineInv' /\ InStep' /\ LockInv'
      BY <1>2, PrivateKeeps, PrivateLock DEF Outside, Private, StartDMA
  <1>4. TypeOK'
    <2>1. tx_buf[t] \in allocated
        BY <1>1 DEF IInv, HandsInv, BuffersAccounted
    <2>2. mapped' \subseteq allocated'
        BY <2>1 DEF IInv, TypeOK, StartDMA
    <2> QED
        BY <1>1, <2>2 DEF IInv, TypeOK, StartDMA, pending, engine
  <1>5. HandsInv'
      BY <1>1 DEF IInv, HandsInv, StartDMA
  <1>6. MappedInv'
      BY <1>1 DEF IInv, MappedInv, StartDMA, pending, UnderLock, Owner
  <1>7. BuffersAccounted'
      BY DEF IInv, BuffersAccounted, StartDMA, pending
  <1> QED
      BY <1>3, <1>4, <1>5, <1>6, <1>7 DEF IInv

LEMMA GetDMAListKeeps ==
  ASSUME IInv, NEW t \in Tasks, GetDMAList(t)
  PROVE  IInv'
  <1>1. /\ step' \in [Tasks -> Steps] /\ step[t] = "list" /\ step'[t] = "lock"
        /\ \A u \in Tasks \ {t} : step'[u] = step[u]
      BY Moved DEF IInv, GetDMAList, Steps
  <1>2. Private(t, "list", "lock")
      BY DEF GetDMAList, Private
  <1>3. PendingInv' /\ EngineInv' /\ InStep' /\ LockInv'
      BY <1>2, PrivateKeeps, PrivateLock DEF Outside, Private, GetDMAList
  <1>4. TypeOK'
      BY <1>1 DEF IInv, TypeOK, GetDMAList, memory, pending, engine
  <1>5. HandsInv'
      BY <1>1 DEF IInv, HandsInv, GetDMAList
  <1>6. MappedInv'
      BY <1>1 DEF IInv, MappedInv, GetDMAList, memory, pending, UnderLock, Owner
  <1>7. BuffersAccounted'
      BY DEF IInv, BuffersAccounted, GetDMAList, memory, pending
  <1> QED
      BY <1>3, <1>4, <1>5, <1>6, <1>7 DEF IInv

\* A failure gives back what the task has, and no other's buffer.
LEMMA FailKeeps ==
  ASSUME IInv, NEW t \in Tasks, Fail(t)
  PROVE  IInv'
  <1>1. PICK from \in {"copy", "map", "list"} : At(t, from, "reply")
      BY DEF Fail
  <1>2. /\ step' \in [Tasks -> Steps] /\ step[t] = from /\ step'[t] = "reply"
        /\ \A u \in Tasks \ {t} : step'[u] = step[u]
      BY <1>1, Moved DEF IInv, Steps
  <1>3. /\ tx_buf' \in [Tasks -> Buffers \cup {NoBuf}] /\ tx_buf'[t] = NoBuf
        /\ \A u \in Tasks \ {t} : tx_buf'[u] = tx_buf[u]
      BY DEF IInv, TypeOK, Fail
  <1>4. Private(t, from, "reply")
      BY <1>1, <1>3 DEF Fail, Private
  <1>5. PendingInv' /\ EngineInv' /\ InStep' /\ LockInv'
      BY <1>1, <1>4, PrivateKeeps, PrivateLock DEF Outside, Fail
  <1>6. TypeOK'
    <2>1. mapped' \subseteq allocated' /\ allocated' \subseteq Buffers
        BY DEF IInv, TypeOK, Fail, GiveBack
    <2> QED
        BY <1>2, <1>3, <2>1 DEF IInv, TypeOK, Fail, pending, engine
  <1>7. HandsInv'
      BY <1>2, <1>3 DEF IInv, HandsInv
  <1>8. /\ tx_buf[t] # NoBuf /\ tx_buf[t] # tx_buf_pending
        /\ \A u \in Tasks \ {t} : tx_buf[u] # tx_buf[t]
      BY <1>2 DEF IInv, HandsInv, BuffersAccounted
  <1>9. MappedInv'
      BY <1>2, <1>3, <1>8 DEF IInv, MappedInv, Fail, pending, UnderLock, Owner
  <1>10. BuffersAccounted'
    <2>1. {tx_buf'[u] : u \in Tasks} \ {NoBuf} = {tx_buf[u] : u \in Tasks} \ {NoBuf, tx_buf[t]}
        BY <1>3, <1>8
    <2>2. allocated' = ({tx_buf'[u] : u \in Tasks} \cup {tx_buf_pending'}) \ {NoBuf}
        BY <1>8, <2>1 DEF IInv, BuffersAccounted, Fail, GiveBack, pending
    <2>3. \A u \in Tasks : tx_buf'[u] # NoBuf =>
            /\ tx_buf'[u] # tx_buf_pending'
            /\ \A v \in Tasks : tx_buf'[v] = tx_buf'[u] => v = u
        BY <1>3 DEF IInv, BuffersAccounted, Fail, pending
    <2> QED
        BY <2>2, <2>3 DEF BuffersAccounted
  <1> QED
      BY <1>5, <1>6, <1>7, <1>9, <1>10 DEF IInv

\* The task joins the end of the queue.
LEMMA ObtainSemaphoreKeeps ==
  ASSUME IInv, NEW t \in Tasks, ObtainSemaphore(t)
  PROVE  IInv'
  <1>1. /\ step' \in [Tasks -> Steps] /\ step[t] = "lock" /\ step'[t] = "cleanup"
        /\ \A u \in Tasks \ {t} : step'[u] = step[u]
      BY Moved DEF IInv, ObtainSemaphore, Steps
  <1>2. Private(t, "lock", "cleanup")
      BY DEF ObtainSemaphore, Private
  <1>3. PendingInv' /\ EngineInv' /\ InStep'
      BY <1>2, PrivateKeeps DEF Outside
  <1> DEFINE n == Len(tx_lock)
  <1>4. /\ n \in Nat /\ tx_lock' \in Seq(Tasks) /\ Len(tx_lock') = n + 1
        /\ \A i \in 1 .. n : tx_lock'[i] = tx_lock[i]
        /\ tx_lock'[n + 1] = t
      BY DEF IInv, TypeOK, ObtainSemaphore
  <1>5. TypeOK'
      BY <1>1, <1>4 DEF IInv, TypeOK, ObtainSemaphore, memory, pending, engine
  <1>6. LockInv'
    <2>1. \A i \in 1 .. n : tx_lock[i] # t
        BY <1>1 DEF IInv, LockInv, UnderLock, Owner
    <2>2. \A i, j \in 1 .. Len(tx_lock') : tx_lock'[i] = tx_lock'[j] => i = j
        BY <1>4, <2>1 DEF IInv, LockInv
    <2>3. ASSUME NEW u \in Tasks
          PROVE  step'[u] \in UnderLock <=> \E i \in 1 .. Len(tx_lock') : tx_lock'[i] = u
      <3>1. CASE u = t
          BY <1>1, <1>4, <3>1 DEF UnderLock
      <3>2. CASE u # t
        <4>1. (\E i \in 1 .. n + 1 : tx_lock'[i] = u) <=> \E i \in 1 .. n : tx_lock[i] = u
            BY <1>4, <3>2
        <4> QED
            BY <1>1, <1>4, <3>2, <4>1 DEF IInv, LockInv
      <3> QED
          BY <3>1, <3>2
    <2>4. ASSUME NEW u \in Tasks, step'[u] \in Owner
          PROVE  Len(tx_lock') > 0 /\ tx_lock'[1] = u
      <3>1. u # t /\ step[u] \in Owner
          BY <1>1, <2>4 DEF Owner
      <3>2. n > 0 /\ tx_lock[1] = u
          BY <3>1 DEF IInv, LockInv
      <3> QED
          BY <1>4, <3>2
    <2> QED
        BY <2>2, <2>3, <2>4 DEF LockInv
  <1>7. HandsInv'
      BY <1>1 DEF IInv, HandsInv, ObtainSemaphore
  <1>8. MappedInv'
      BY <1>1 DEF IInv, MappedInv, ObtainSemaphore, memory, pending, UnderLock, Owner
  <1>9. BuffersAccounted'
      BY DEF IInv, BuffersAccounted, ObtainSemaphore, memory, pending
  <1> QED
      BY <1>3, <1>5, <1>6, <1>7, <1>8, <1>9 DEF IInv

-----------------------------------------------------------------------------
(* Under the lock.                                                          *)

\* The holder goes on and keeps the lock: the queue and what is pending.
LEMMA HolderMoves ==
  ASSUME IInv, NEW t \in Tasks, NEW from \in UnderLock, NEW to \in Owner, At(t, from, to),
         step[t] \in Owner \/ Holds(t), tx_lock' = tx_lock
  PROVE  LockInv' /\ \A u \in Tasks \ {t} : step[u] \notin Owner /\ step'[u] \notin Owner
  <1>1. /\ step[t] = from /\ step'[t] = to
        /\ \A u \in Tasks \ {t} : step'[u] = step[u]
      BY DEF IInv, TypeOK, At
  <1>2. Len(tx_lock) > 0 /\ tx_lock[1] = t
      BY DEF IInv, LockInv, Holds, TypeOK
  <1>3. \A u \in Tasks \ {t} : step[u] \notin Owner
      BY <1>2 DEF IInv, LockInv
  <1>4. \A u \in Tasks : step'[u] \in UnderLock <=> step[u] \in UnderLock
      BY <1>1 DEF UnderLock
  <1>5. LockInv'
      BY <1>1, <1>2, <1>3, <1>4 DEF IInv, LockInv
  <1> QED
      BY <1>1, <1>3, <1>5

\* A step that neither comes from the doorbell nor goes to it.
LEMMA NoDoorbell ==
  ASSUME IInv, NEW t \in Tasks, NEW from \in Steps \ {"bell"}, NEW to \in Steps \ {"bell"},
         At(t, from, to), UNCHANGED <<tx_next_fill, hwNext, credit>>
  PROVE  InStep'
  <1>1. (\E u \in Tasks : step'[u] = "bell") <=> \E u \in Tasks : step[u] = "bell"
      BY Moved DEF IInv
  <1> QED
      BY <1>1 DEF IInv, InStep, Unannounced

LEMMA CleanupKeeps ==
  ASSUME IInv, NEW t \in Tasks, Cleanup(t)
  PROVE  IInv'
  <1>1. PICK to \in {"fill", "release", "recheck"} : At(t, "cleanup", to)
      BY DEF Cleanup
  <1>2. /\ step' \in [Tasks -> Steps] /\ step[t] = "cleanup" /\ step'[t] = to
        /\ \A u \in Tasks \ {t} : step'[u] = step[u]
      BY <1>1, Moved DEF IInv, Steps
  <1>3. LockInv' /\ \A u \in Tasks \ {t} : step[u] \notin Owner /\ step'[u] \notin Owner
      BY <1>1, HolderMoves DEF Cleanup, UnderLock, Owner
  <1>4. /\ tx_buf' = tx_buf /\ allocated' = allocated /\ mapped' = mapped
        /\ tx_ring' = tx_ring /\ tx_next_fill' = tx_next_fill /\ giveUps' = giveUps
        /\ tx_buf_pending' = tx_buf_pending /\ tx_fill_pending' = tx_fill_pending
        /\ hwNext' = hwNext /\ credit' = credit /\ sending' = sending /\ writes' = writes
        /\ tx_lock' = tx_lock
      BY DEF Cleanup, memory, pending, engine
  <1>5. TypeOK'
      BY <1>2, <1>4 DEF IInv, TypeOK
  <1>6. HandsInv' /\ BuffersAccounted'
      BY <1>2, <1>4 DEF IInv, HandsInv, BuffersAccounted
  <1>7. MappedInv'
      BY <1>2, <1>4 DEF IInv, MappedInv, UnderLock, Owner
  <1>8. InStep'
      BY <1>1, <1>4, NoDoorbell DEF Steps
  <1>9. /\ to = "fill" => tx_buf_pending = NoBuf
        /\ to = "release" => tx_buf_pending # NoBuf /\ ~tx_ring[tx_fill_pending].O
        /\ to = "recheck" => tx_buf_pending # NoBuf
      BY <1>2 DEF Cleanup, At, IInv, TypeOK
  <1>10. PendingInv'
      BY <1>2, <1>3, <1>4, <1>9 DEF IInv, PendingInv, FilledPosition, Owner
  <1>11. EngineInv'
    <2>1. FilledPosition' = FilledPosition
        BY <1>4 DEF FilledPosition
    <2>2. \A u \in Tasks : step[u] \notin {"bell", "store"}
        BY <1>2, <1>3 DEF Owner
    <2>3. \A b : Current(b) => tx_buf_pending # NoBuf /\ b = tx_buf_pending
        BY <2>2 DEF Current
    <2>4. \A b : Current(b) => Current(b)'
        BY <1>4, <2>3 DEF Current
    <2>5. ASSUME giveUps = 0, to \in {"fill", "release"}
          PROVE  \A g \in Positions : ~tx_ring[g].O
      <3>1. \A g \in Positions : tx_ring[g].O => g = FilledPosition /\ tx_buf_pending # NoBuf
          BY <2>3, <2>5 DEF IInv, EngineInv
      <3>2. tx_buf_pending # NoBuf => tx_fill_pending = FilledPosition
          BY DEF IInv, PendingInv
      <3> QED
          BY <1>9, <2>5, <3>1, <3>2
    <2>6. \A u \in Tasks : /\ step'[u] \in {"release", "fill"} => u = t /\ to \in {"fill", "release"}
                           /\ step'[u] # "bell"
        BY <1>2, <1>3 DEF Owner
    <2> QED
        BY <1>4, <2>1, <2>4, <2>5, <2>6 DEF IInv, EngineInv
  <1> QED
      BY <1>3, <1>5, <1>6, <1>7, <1>8, <1>10, <1>11 DEF IInv

LEMMA RecheckKeeps ==
  ASSUME IInv, NEW t \in Tasks, Recheck(t)
  PROVE  IInv'
  <1>1. /\ step' \in [Tasks -> Steps] /\ step[t] = "recheck" /\ step'[t] = "release"
        /\ \A u \in Tasks \ {t} : step'[u] = step[u]
      BY Moved DEF IInv, Recheck, Steps
  <1>2. LockInv' /\ \A u \in Tasks \ {t} : step[u] \notin Owner /\ step'[u] \notin Owner
      BY <1>1, HolderMoves DEF Recheck, UnderLock, Owner
  <1>3. /\ tx_buf' = tx_buf /\ allocated' = allocated /\ mapped' = mapped
        /\ tx_ring' = tx_ring /\ tx_next_fill' = tx_next_fill
        /\ tx_buf_pending' = tx_buf_pending /\ tx_fill_pending' = tx_fill_pending
        /\ hwNext' = hwNext /\ credit' = credit /\ sending' = sending /\ writes' = writes
        /\ tx_lock' = tx_lock
      BY DEF Recheck, memory, pending, engine
  <1>4. giveUps \in Nat /\ giveUps' = IF tx_ring[tx_fill_pending].O THEN giveUps + 1 ELSE giveUps
      BY DEF IInv, TypeOK, Recheck
  <1>5. TypeOK'
      BY <1>1, <1>3, <1>4 DEF IInv, TypeOK
  <1>6. HandsInv' /\ BuffersAccounted'
      BY <1>1, <1>3 DEF IInv, HandsInv, BuffersAccounted
  <1>7. MappedInv'
      BY <1>1, <1>3 DEF IInv, MappedInv, UnderLock, Owner
  <1>8. InStep'
      BY <1>3, NoDoorbell DEF Recheck, Steps
  <1>9. PendingInv'
      BY <1>1, <1>2, <1>3 DEF IInv, PendingInv, FilledPosition, Owner
  <1>10. EngineInv'
    <2> SUFFICES ASSUME giveUps' = 0 PROVE EngineInv'
        BY DEF EngineInv
    <2>1. giveUps = 0 /\ ~tx_ring[tx_fill_pending].O
        BY <1>4
    <2>2. FilledPosition' = FilledPosition /\ tx_fill_pending = FilledPosition
        BY <1>1, <1>3 DEF FilledPosition, IInv, PendingInv
    <2>3. \A g \in Positions : ~tx_ring[g].O
        BY <2>1, <2>2 DEF IInv, EngineInv
    <2>4. \A u \in Tasks : step'[u] # "bell"
        BY <1>1, <1>2 DEF Owner
    <2> QED
        BY <1>3, <2>1, <2>3, <2>4 DEF IInv, EngineInv
  <1> QED
      BY <1>2, <1>5, <1>6, <1>7, <1>8, <1>9, <1>10 DEF IInv

\* After the release nothing is pending and nothing is in the ring.
LEMMA ReleaseKeeps ==
  ASSUME IInv, NEW t \in Tasks, Release(t)
  PROVE  IInv'
  <1>1. /\ step' \in [Tasks -> Steps] /\ step[t] = "release" /\ step'[t] = "fill"
        /\ \A u \in Tasks \ {t} : step'[u] = step[u]
      BY Moved DEF IInv, Release, Steps
  <1>2. LockInv' /\ \A u \in Tasks \ {t} : step[u] \notin Owner /\ step'[u] \notin Owner
      BY <1>1, HolderMoves DEF Release, UnderLock, Owner
  <1>3. /\ tx_buf' = tx_buf /\ allocated' = allocated \ {tx_buf_pending}
        /\ mapped' = mapped \ {tx_buf_pending} /\ tx_buf_pending' = NoBuf
        /\ tx_next_fill' = tx_next_fill /\ giveUps' = giveUps
        /\ tx_fill_pending' = tx_fill_pending /\ tx_lock' = tx_lock
        /\ hwNext' = hwNext /\ credit' = credit /\ sending' = sending /\ writes' = writes
      BY DEF Release, engine
  <1>4. tx_ring' = [tx_ring EXCEPT ![tx_fill_pending] = [O |-> FALSE, buf |-> NoBuf]]
      BY DEF Release
  <1>5. TypeOK'
    <2>1. tx_ring' \in [Positions -> [O : BOOLEAN, buf : Buffers \cup {NoBuf}]]
        BY <1>4 DEF IInv, TypeOK
    <2>2. mapped' \subseteq allocated' /\ allocated' \subseteq Buffers
        BY <1>3 DEF IInv, TypeOK
    <2> QED
        BY <1>1, <1>3, <2>1, <2>2 DEF IInv, TypeOK
  <1>6. HandsInv'
      BY <1>1, <1>3 DEF IInv, HandsInv
  <1>7. PendingInv'
      BY <1>1, <1>2, <1>3 DEF PendingInv, Owner
  <1>8. MappedInv'
    <2>1. \A u \in Tasks : step'[u] \in {"list", "lock"} \cup UnderLock =>
            step[u] \in {"list", "lock"} \cup UnderLock /\ step[u] \notin {"idle", "reply"}
        BY <1>1 DEF UnderLock, Owner
    <2>2. \A u \in Tasks : step[u] \notin {"idle", "reply"} => tx_buf[u] # tx_buf_pending
        BY DEF IInv, HandsInv, BuffersAccounted
    <2> QED
        BY <1>3, <2>1, <2>2 DEF IInv, MappedInv
  <1>9. BuffersAccounted'
    <2>1. tx_buf_pending # NoBuf
        BY <1>1 DEF IInv, PendingInv
    <2>2. \A u \in Tasks : tx_buf[u] # tx_buf_pending
        BY <2>1 DEF IInv, BuffersAccounted
    <2> QED
        BY <1>3, <2>1, <2>2 DEF IInv, BuffersAccounted
  <1>10. EngineInv'
    <2> SUFFICES ASSUME giveUps = 0 PROVE EngineInv'
        BY <1>3 DEF EngineInv
    <2>1. \A g \in Positions : ~tx_ring[g].O
        BY <1>1 DEF IInv, EngineInv
    <2>2. \A g \in Positions : ~tx_ring'[g].O
        BY <1>4, <2>1 DEF IInv, TypeOK
    <2>3. credit = 0 /\ sending = NoBuf
        BY <2>1 DEF IInv, TypeOK, EngineInv
    <2>4. \A u \in Tasks : step'[u] # "bell"
        BY <1>1, <1>2 DEF Owner
    <2> QED
        BY <1>3, <2>2, <2>3, <2>4 DEF EngineInv
  <1>11. InStep'
      BY <1>3, NoDoorbell DEF Release, Steps
  <1> QED
      BY <1>2, <1>5, <1>6, <1>7, <1>8, <1>9, <1>10, <1>11 DEF IInv

\* The new packet is the only one in the ring.
LEMMA FillKeeps ==
  ASSUME IInv, NEW t \in Tasks, Fill(t)
  PROVE  IInv'
  <1>1. /\ step' \in [Tasks -> Steps] /\ step[t] = "fill" /\ step'[t] = "bell"
        /\ \A u \in Tasks \ {t} : step'[u] = step[u]
      BY Moved DEF IInv, Fill, Steps
  <1>2. LockInv' /\ \A u \in Tasks \ {t} : step[u] \notin Owner /\ step'[u] \notin Owner
      BY <1>1, HolderMoves DEF Fill, UnderLock, Owner
  <1>3. /\ tx_buf' = tx_buf /\ allocated' = allocated /\ mapped' = mapped
        /\ tx_buf_pending' = tx_buf_pending /\ tx_fill_pending' = tx_fill_pending
        /\ giveUps' = giveUps /\ tx_lock' = tx_lock
        /\ hwNext' = hwNext /\ credit' = credit /\ sending' = sending /\ writes' = writes
      BY DEF Fill, memory, pending, engine
  <1>4. tx_ring' = [tx_ring EXCEPT ![tx_next_fill] = [O |-> TRUE, buf |-> tx_buf[t]]]
      BY DEF Fill
  <1>5. /\ tx_next_fill \in Positions
        /\ tx_next_fill' \in Positions /\ FilledPosition' = tx_next_fill
      BY TxAssumption, RingPositions DEF Fill, FilledPosition, IInv, TypeOK
  <1>6. tx_buf_pending = NoBuf
      BY <1>1 DEF IInv, PendingInv
  <1>7. TypeOK'
    <2>1. tx_buf[t] \in Buffers \cup {NoBuf}
        BY DEF IInv, TypeOK
    <2>2. tx_ring' \in [Positions -> [O : BOOLEAN, buf : Buffers \cup {NoBuf}]]
        BY <1>4, <2>1 DEF IInv, TypeOK
    <2> QED
        BY <1>1, <1>3, <1>5, <2>2 DEF IInv, TypeOK
  <1>8. HandsInv' /\ BuffersAccounted'
      BY <1>1, <1>3 DEF IInv, HandsInv, BuffersAccounted
  <1>9. PendingInv' /\ MappedInv'
      BY <1>1, <1>2, <1>3, <1>6 DEF IInv, PendingInv, MappedInv, UnderLock, Owner
  <1>10. EngineInv'
    <2> SUFFICES ASSUME giveUps = 0 PROVE EngineInv'
        BY <1>3 DEF EngineInv
    <2>1. \A g \in Positions : ~tx_ring[g].O
        BY <1>1 DEF IInv, EngineInv
    <2>2. credit = 0 /\ sending = NoBuf
        BY <2>1 DEF IInv, TypeOK, EngineInv
    <2>3. tx_ring'[tx_next_fill].O /\ tx_ring'[tx_next_fill].buf = tx_buf'[t]
        BY <1>3, <1>4, <1>5 DEF IInv, TypeOK
    <2>4. \A g \in Positions : tx_ring'[g].O => g = tx_next_fill
        BY <1>4, <2>1 DEF IInv, TypeOK
    <2>5. \A g \in Positions : tx_ring'[g].O => Current(tx_ring[g].buf)'
        BY <2>3, <2>4, <1>1 DEF Current
    <2>6. \A u \in Tasks : step'[u] \notin {"release", "fill"}
        BY <1>1, <1>2 DEF Owner
    <2> QED
        BY <1>3, <1>5, <2>2, <2>3, <2>4, <2>5, <2>6 DEF EngineInv
  <1>11. InStep'
    <2> DEFINE x == hwNext + credit
    <2>1. x \in Nat /\ Pairs \in Nat \ {0} /\ tx_next_fill \in 0 .. Pairs - 1
        BY TxAssumption DEF IInv, TypeOK, TxAssumption, Positions
    <2>2. ~(\E u \in Tasks : step[u] = "bell") /\ \E u \in Tasks : step'[u] = "bell"
        BY <1>1, <1>2 DEF Owner
    <2>3. (x + 0) % Pairs = tx_next_fill
        BY <2>2 DEF IInv, InStep, Unannounced
    <2>4. x % Pairs = tx_next_fill
        BY <2>1, <2>3
    <2>5. (x + 1) % Pairs = IF tx_next_fill = Pairs - 1 THEN 0 ELSE tx_next_fill + 1
        BY <2>1, <2>4, RemainderNext
    <2>6. tx_next_fill' = IF tx_next_fill = Pairs - 1 THEN 0 ELSE tx_next_fill + 1
        BY <2>1, Neighbours DEF Fill, NextFill
    <2> QED
        BY <1>3, <2>2, <2>5, <2>6 DEF InStep, Unannounced
  <1> QED
      BY <1>2, <1>7, <1>8, <1>9, <1>10, <1>11 DEF IInv

\* The credit is for the packet just filled.
LEMMA DoorbellKeeps ==
  ASSUME IInv, NEW t \in Tasks, Doorbell(t)
  PROVE  IInv'
  <1>1. /\ step' \in [Tasks -> Steps] /\ step[t] = "bell" /\ step'[t] = "store"
        /\ \A u \in Tasks \ {t} : step'[u] = step[u]
      BY Moved DEF IInv, Doorbell, Steps
  <1>2. LockInv' /\ \A u \in Tasks \ {t} : step[u] \notin Owner /\ step'[u] \notin Owner
      BY <1>1, HolderMoves DEF Doorbell, UnderLock, Owner
  <1>3. /\ tx_buf' = tx_buf /\ allocated' = allocated /\ mapped' = mapped
        /\ tx_buf_pending' = tx_buf_pending /\ tx_fill_pending' = tx_fill_pending
        /\ tx_ring' = tx_ring /\ tx_next_fill' = tx_next_fill
        /\ giveUps' = giveUps /\ tx_lock' = tx_lock
        /\ hwNext' = hwNext /\ credit' = credit + 1 /\ sending' = sending /\ writes' = writes
      BY DEF Doorbell, memory, pending
  <1>4. TypeOK'
      BY <1>1, <1>3 DEF IInv, TypeOK
  <1>5. HandsInv' /\ BuffersAccounted'
      BY <1>1, <1>3 DEF IInv, HandsInv, BuffersAccounted
  <1>6. PendingInv' /\ MappedInv'
      BY <1>1, <1>2, <1>3 DEF IInv, PendingInv, MappedInv, FilledPosition, UnderLock, Owner
  <1>7. /\ \E u \in Tasks : step[u] = "bell"
        /\ ~\E u \in Tasks : step'[u] = "bell"
      BY <1>1, <1>2 DEF Owner
  <1>8. hwNext \in Nat /\ credit \in Nat /\ (hwNext + credit + 1) % Pairs = tx_next_fill
    <2>1. hwNext \in Nat /\ credit \in Nat
        BY TxAssumption DEF IInv, TypeOK, Positions, TxAssumption
    <2> QED
        BY <1>7, <2>1 DEF IInv, InStep, Unannounced
  <1>9. InStep'
    <2>1. hwNext' + credit' + 0 = hwNext + credit + 1
        BY <1>3, <1>8
    <2> QED
        BY <1>3, <1>7, <1>8, <2>1 DEF InStep, Unannounced
  <1>10. EngineInv'
    <2> SUFFICES ASSUME giveUps = 0 PROVE EngineInv'
        BY <1>3 DEF EngineInv
    <2>1. credit = 0 /\ tx_ring[FilledPosition].O
        BY <1>1 DEF IInv, EngineInv
    <2>2. hwNext = FilledPosition
      <3>1. Pairs \in Nat \ {0} /\ hwNext \in 0 .. Pairs - 1
          BY TxAssumption DEF IInv, TypeOK, Positions, TxAssumption
      <3>2. tx_next_fill = IF hwNext = Pairs - 1 THEN 0 ELSE hwNext + 1
        <4>1. (hwNext + 1) % Pairs = tx_next_fill
            BY <1>8, <2>1
        <4> QED
            BY <3>1, <4>1, Neighbours
      <3>3. tx_next_fill \in 0 .. Pairs - 1
          BY <3>1, <3>2
      <3>4. FilledPosition = IF tx_next_fill = 0 THEN Pairs - 1 ELSE tx_next_fill - 1
          BY <3>1, <3>3, Neighbours DEF FilledPosition
      <3> QED
          BY <3>1, <3>2, <3>4
    <2>3. FilledPosition' = FilledPosition /\ \A b : Current(b) => Current(b)'
      <3>1. \A u \in Tasks : step[u] \in {"bell", "store"} <=> step'[u] \in {"bell", "store"}
          BY <1>1
      <3> QED
          BY <1>3, <3>1 DEF FilledPosition, Current
    <2>4. \A u \in Tasks : step'[u] \notin {"release", "fill", "bell"}
        BY <1>1, <1>2 DEF Owner
    <2>5. sending = NoBuf
        BY <2>1 DEF IInv, EngineInv
    <2> QED
        BY <1>3, <2>1, <2>2, <2>3, <2>4, <2>5 DEF IInv, EngineInv
  <1> QED
      BY <1>2, <1>4, <1>5, <1>6, <1>9, <1>10 DEF IInv

\* The buffer changes hands from the task to the unit, the lock to the next.
LEMMA StoreKeeps ==
  ASSUME IInv, NEW t \in Tasks, Store(t)
  PROVE  IInv'
  <1>1. /\ step' \in [Tasks -> Steps] /\ step[t] = "store" /\ step'[t] = "reply"
        /\ \A u \in Tasks \ {t} : step'[u] = step[u]
      BY Moved DEF IInv, Store, Steps
  <1>2. /\ tx_buf_pending = NoBuf /\ tx_buf[t] # NoBuf /\ tx_buf_pending' = tx_buf[t]
        /\ tx_buf' \in [Tasks -> Buffers \cup {NoBuf}] /\ tx_buf'[t] = NoBuf
        /\ \A u \in Tasks \ {t} : tx_buf'[u] = tx_buf[u] /\ tx_buf[u] # tx_buf[t]
      BY <1>1 DEF IInv, TypeOK, PendingInv, HandsInv, BuffersAccounted, Store
  <1>3. /\ allocated' = allocated /\ mapped' = mapped /\ tx_ring' = tx_ring
        /\ tx_next_fill' = tx_next_fill /\ tx_fill_pending' = FilledPosition
        /\ giveUps' = giveUps /\ writes' = writes
        /\ hwNext' = hwNext /\ credit' = credit /\ sending' = sending
      BY DEF Store, memory, engine
  <1> DEFINE n == Len(tx_lock)
  <1>4. /\ n \in Nat /\ n > 0 /\ tx_lock[1] = t
        /\ \A u \in Tasks \ {t} : step[u] \notin Owner
      BY <1>1 DEF IInv, TypeOK, LockInv, Owner
  <1>5. /\ tx_lock' \in Seq(Tasks) /\ Len(tx_lock') = n - 1
        /\ \A i \in 1 .. n - 1 : tx_lock'[i] = tx_lock[i + 1]
    <2>1. tx_lock # <<>> /\ tx_lock' = Tail(tx_lock)
        BY <1>4 DEF Store
    <2> QED
        BY <1>4, <2>1 DEF IInv, TypeOK
  <1>6. FilledPosition \in Positions /\ FilledPosition' = FilledPosition
      BY <1>3, TxAssumption, RingPositions DEF IInv, TypeOK, FilledPosition
  <1>7. TypeOK'
      BY <1>1, <1>2, <1>3, <1>5, <1>6 DEF IInv, TypeOK
  <1>8. LockInv'
    <2>1. \A i, j \in 1 .. Len(tx_lock') : tx_lock'[i] = tx_lock'[j] => i = j
      <3>1. \A i, j \in 1 .. n - 1 : tx_lock[i + 1] = tx_lock[j + 1] => i = j
          BY <1>4 DEF IInv, LockInv
      <3> QED
          BY <1>5, <3>1
    <2>2. ASSUME NEW u \in Tasks
          PROVE  step'[u] \in UnderLock <=> \E i \in 1 .. Len(tx_lock') : tx_lock'[i] = u
      <3>1. CASE u = t
        <4>1. \A i \in 1 .. n - 1 : tx_lock[i + 1] # t
            BY <1>4 DEF IInv, LockInv
        <4> QED
            BY <1>1, <1>5, <3>1, <4>1 DEF UnderLock, Owner
      <3>2. CASE u # t
        <4>1. step'[u] \in UnderLock <=> \E i \in 1 .. n : tx_lock[i] = u
            BY <1>1, <3>2 DEF IInv, LockInv
        <4>2. ASSUME NEW i \in 1 .. n, tx_lock[i] = u
              PROVE  \E j \in 1 .. Len(tx_lock') : tx_lock'[j] = u
          <5>1. i # 1 /\ i - 1 \in 1 .. n - 1
              BY <1>4, <3>2, <4>2
          <5>2. tx_lock'[i - 1] = tx_lock[i]
              BY <1>4, <1>5, <5>1
          <5> QED
              BY <1>5, <4>2, <5>1, <5>2
        <4>3. ASSUME NEW j \in 1 .. Len(tx_lock'), tx_lock'[j] = u
              PROVE  \E i \in 1 .. n : tx_lock[i] = u
          <5>1. j \in 1 .. n - 1 /\ j + 1 \in 1 .. n
              BY <1>4, <1>5
          <5> QED
              BY <1>5, <4>3, <5>1
        <4> QED
            BY <4>1, <4>2, <4>3
      <3> QED
          BY <3>1, <3>2
    <2>3. \A u \in Tasks : step'[u] \notin Owner
        BY <1>1, <1>4 DEF Owner
    <2> QED
        BY <2>1, <2>2, <2>3 DEF LockInv
  <1>9. HandsInv'
      BY <1>1, <1>2 DEF IInv, HandsInv
  <1>10. PendingInv'
      BY <1>1, <1>3, <1>4, <1>6 DEF PendingInv, Owner
  <1>11. MappedInv'
    <2>1. tx_buf[t] \in mapped
        BY <1>1 DEF IInv, MappedInv, UnderLock, Owner
    <2>2. \A u \in Tasks : step'[u] \in {"list", "lock"} \cup UnderLock => u # t
        BY <1>1 DEF UnderLock, Owner
    <2> QED
        BY <1>1, <1>2, <1>3, <2>1, <2>2 DEF IInv, MappedInv
  <1>12. BuffersAccounted'
    <2>1. {tx_buf[u] : u \in Tasks} \ {NoBuf} = ({tx_buf'[u] : u \in Tasks} \cup {tx_buf[t]}) \ {NoBuf}
        BY <1>2
    <2>2. allocated' = ({tx_buf'[u] : u \in Tasks} \cup {tx_buf_pending'}) \ {NoBuf}
        BY <1>2, <1>3, <2>1 DEF IInv, BuffersAccounted
    <2>3. \A u \in Tasks : tx_buf'[u] # NoBuf =>
            /\ tx_buf'[u] # tx_buf_pending'
            /\ \A v \in Tasks : tx_buf'[v] = tx_buf'[u] => v = u
        BY <1>2 DEF IInv, BuffersAccounted
    <2> QED
        BY <2>2, <2>3 DEF BuffersAccounted
  <1>13. EngineInv'
    <2>1. \A b : Current(b) => Current(b)'
      <3>1. \A u \in Tasks : step[u] \in {"bell", "store"} => u = t
          BY <1>4 DEF Owner
      <3> QED
          BY <1>2, <3>1 DEF Current
    <2>2. \A u \in Tasks : step'[u] \notin {"release", "fill", "bell"}
        BY <1>1, <1>4 DEF Owner
    <2> QED
        BY <1>3, <1>6, <2>1, <2>2 DEF IInv, EngineInv
  <1>14. InStep'
      BY <1>3, NoDoorbell DEF Store, Steps
  <1> QED
      BY <1>7, <1>8, <1>9, <1>10, <1>11, <1>12, <1>13, <1>14 DEF IInv

-----------------------------------------------------------------------------
(* The engine, and the theorems.                                            *)

LEMMA HwFetchKeeps ==
  ASSUME IInv, HwFetch
  PROVE  IInv'
  <1>1. /\ step' = step /\ tx_buf' = tx_buf /\ allocated' = allocated /\ mapped' = mapped
        /\ tx_lock' = tx_lock /\ tx_ring' = tx_ring /\ tx_next_fill' = tx_next_fill
        /\ tx_buf_pending' = tx_buf_pending /\ tx_fill_pending' = tx_fill_pending
        /\ hwNext' = hwNext /\ credit' = credit /\ giveUps' = giveUps /\ writes' = writes
        /\ credit > 0 /\ sending' = tx_ring[hwNext].buf
      BY DEF HwFetch, locals, memory, pending
  <1>2. TypeOK'
      BY <1>1 DEF IInv, TypeOK
  <1>3. LockInv' /\ HandsInv' /\ MappedInv' /\ BuffersAccounted' /\ InStep'
      BY <1>1 DEF IInv, LockInv, HandsInv, MappedInv, BuffersAccounted, InStep, Unannounced
  <1>4. PendingInv'
      BY <1>1 DEF IInv, PendingInv, FilledPosition
  <1>5. FilledPosition' = FilledPosition /\ \A b : Current(b) => Current(b)'
      BY <1>1 DEF FilledPosition, Current
  <1>6. EngineInv'
      BY <1>1, <1>5 DEF IInv, EngineInv
  <1> QED
      BY <1>2, <1>3, <1>4, <1>6 DEF IInv

LEMMA HwDoneKeeps ==
  ASSUME IInv, HwDone
  PROVE  IInv'
  <1>1. /\ step' = step /\ tx_buf' = tx_buf /\ allocated' = allocated /\ mapped' = mapped
        /\ tx_lock' = tx_lock /\ tx_next_fill' = tx_next_fill
        /\ tx_buf_pending' = tx_buf_pending /\ tx_fill_pending' = tx_fill_pending
        /\ giveUps' = giveUps /\ writes' = writes /\ sending' = NoBuf
      BY DEF HwDone, locals, memory, pending
  <1>2. /\ Pairs \in Nat \ {0} /\ hwNext \in 0 .. Pairs - 1 /\ credit \in Nat \ {0}
        /\ hwNext' = (hwNext + 1) % Pairs /\ credit' = credit - 1
      BY TxAssumption DEF HwDone, IInv, TypeOK, Positions, TxAssumption
  <1>3. hwNext' = IF hwNext = Pairs - 1 THEN 0 ELSE hwNext + 1
      BY <1>2, Neighbours
  <1>4. /\ tx_ring' \in [Positions -> [O : BOOLEAN, buf : Buffers \cup {NoBuf}]]
        /\ ~tx_ring'[hwNext].O
        /\ \A g \in Positions : tx_ring'[g].O => tx_ring[g].O /\ tx_ring'[g] = tx_ring[g]
    <2>1. tx_ring' = [tx_ring EXCEPT ![hwNext].O = FALSE]
        BY DEF HwDone
    <2> QED
        BY <2>1 DEF IInv, TypeOK
  <1>5. TypeOK'
    <2>1. hwNext' \in Positions /\ credit' \in Nat
        BY <1>2, <1>3 DEF Positions
    <2> QED
        BY <1>1, <1>4, <2>1 DEF IInv, TypeOK
  <1>6. LockInv' /\ HandsInv' /\ MappedInv' /\ BuffersAccounted'
      BY <1>1 DEF IInv, LockInv, HandsInv, MappedInv, BuffersAccounted
  <1>7. PendingInv'
      BY <1>1 DEF IInv, PendingInv, FilledPosition
  <1>8. EngineInv'
    <2> SUFFICES ASSUME giveUps = 0 PROVE EngineInv'
        BY <1>1 DEF EngineInv
    <2>1. credit = 1
        BY <1>2 DEF IInv, EngineInv
    <2>2. \A u \in Tasks : step[u] # "bell"
        BY <2>1 DEF IInv, EngineInv
    <2>3. FilledPosition' = FilledPosition /\ \A b : Current(b) => Current(b)'
        BY <1>1 DEF FilledPosition, Current
    <2>4. \A g \in Positions : tx_ring'[g].O =>
            g = FilledPosition' /\ Current(tx_ring[g].buf)'
        BY <1>4, <2>3 DEF IInv, EngineInv
    <2>5. \A u \in Tasks : step'[u] \in {"release", "fill"} => \A g \in Positions : ~tx_ring'[g].O
        BY <1>1, <1>4 DEF IInv, EngineInv
    <2> QED
        BY <1>1, <1>2, <2>1, <2>2, <2>4, <2>5 DEF EngineInv
  <1>9. InStep'
    <2> DEFINE u == IF \E t \in Tasks : step[t] = "bell" THEN 1 ELSE 0
    <2>1. u \in Nat /\ (hwNext + credit + u) % Pairs = tx_next_fill
        BY DEF IInv, InStep, Unannounced
    <2>2. (hwNext' + credit' + u) % Pairs = tx_next_fill
      <3> HIDE DEF u
      <3>1. CASE hwNext = Pairs - 1
        <4>1. /\ hwNext' + credit' + u \in Nat
              /\ (hwNext' + credit' + u) + Pairs = hwNext + credit + u
            BY <1>2, <1>3, <2>1, <3>1
        <4>2. ((hwNext' + credit' + u) + Pairs) % Pairs = (hwNext' + credit' + u) % Pairs
            BY <1>2, <4>1, RemainderRound
        <4> QED
            BY <2>1, <4>1, <4>2
      <3>2. CASE hwNext # Pairs - 1
        <4>1. hwNext' + credit' + u = hwNext + credit + u
            BY <1>2, <1>3, <2>1, <3>2
        <4> QED
            BY <2>1, <4>1
      <3> QED
          BY <3>1, <3>2
    <2> QED
        BY <1>1, <2>2 DEF InStep, Unannounced
  <1> QED
      BY <1>5, <1>6, <1>7, <1>8, <1>9 DEF IInv

\* IInv is inductive.
THEOREM Invariance == Spec => []IInv
  <1>1. IInv /\ [Next]_vars => IInv'
    <2> SUFFICES ASSUME IInv, [Next]_vars PROVE IInv'
        OBVIOUS
    <2>1. ASSUME NEW t \in Tasks, TransmitPacket(t) PROVE IInv'
        BY <2>1, RejectKeeps, AllocateKeeps, CopyKeeps, StartDMAKeeps, GetDMAListKeeps,
           FailKeeps, ObtainSemaphoreKeeps, CleanupKeeps, RecheckKeeps, ReleaseKeeps,
           FillKeeps, DoorbellKeeps, StoreKeeps, ReplyKeeps DEF TransmitPacket
    <2>2. CASE UNCHANGED vars
      <3>1. /\ step' = step /\ tx_buf' = tx_buf /\ allocated' = allocated /\ mapped' = mapped
            /\ tx_lock' = tx_lock /\ tx_ring' = tx_ring /\ tx_next_fill' = tx_next_fill
            /\ tx_buf_pending' = tx_buf_pending /\ tx_fill_pending' = tx_fill_pending
            /\ hwNext' = hwNext /\ credit' = credit /\ sending' = sending
            /\ giveUps' = giveUps /\ writes' = writes
          BY <2>2 DEF vars, locals, memory, pending, engine
      <3> QED
          BY <3>1 DEF IInv, TypeOK, LockInv, HandsInv, PendingInv, MappedInv, BuffersAccounted,
             EngineInv, InStep, Unannounced, FilledPosition, Current
    <2> QED
        BY <2>1, <2>2, HwFetchKeeps, HwDoneKeeps DEF Next
  <1> QED
      BY <1>1, InitInv, PTL DEF Spec

\* The types, for any number of tasks, buffers and packets in the ring.
THEOREM TypeCorrect == Spec => []TypeOK
  <1>1. IInv => TypeOK
      BY DEF IInv
  <1> QED
      BY <1>1, Invariance, PTL

\* No transmit buffer leaks or is freed twice, whatever fails and however slow
\* the engine is.
THEOREM Accounted == Spec => []BuffersAccounted
  <1>1. IInv => BuffersAccounted
      BY DEF IInv
  <1> QED
      BY <1>1, Invariance, PTL

-----------------------------------------------------------------------------
(* What the timeouts leave behind of the engine's credit.                   *)

\* Beyond one credit for each timeout, the engine has credit for the packet
\* filled last only, while it owns that; none at all once tx_cleanup_pending is
\* done.  Before the first packet the last position is not the engine's.
CreditInv ==
  /\ credit + Unannounced <= giveUps + (IF tx_ring[FilledPosition].O THEN 1 ELSE 0)
  /\ \A t \in Tasks : step[t] \in {"release", "fill"} => credit <= giveUps
  /\ tx_buf_pending = NoBuf /\ (\A t \in Tasks : step[t] \notin {"fill", "bell", "store"}) =>
       ~tx_ring[FilledPosition].O

\* Steps that are neither tx_cleanup_pending's nor fill, announce or store.
LEMMA CreditSame ==
  ASSUME CreditInv, UNCHANGED <<tx_ring, tx_next_fill, tx_buf_pending, credit, giveUps>>,
         \A u \in Tasks : step'[u] = step[u] \/ (step'[u] \notin Owner /\ step[u] \notin Owner)
  PROVE  CreditInv'
  <1>1. (\E u \in Tasks : step'[u] = "bell") <=> \E u \in Tasks : step[u] = "bell"
      BY DEF Owner
  <1>2. Unannounced' = Unannounced /\ FilledPosition' = FilledPosition
      BY <1>1 DEF Unannounced, FilledPosition
  <1>3. \A u \in Tasks : /\ step'[u] \in {"release", "fill"} <=> step[u] \in {"release", "fill"}
                         /\ step'[u] \in {"fill", "bell", "store"}
                              <=> step[u] \in {"fill", "bell", "store"}
      BY DEF Owner
  <1> QED
      BY <1>2, <1>3 DEF CreditInv

LEMMA CreditOutside ==
  ASSUME IInv, CreditInv, NEW t \in Tasks,
         Reject(t) \/ Allocate(t) \/ Copy(t) \/ StartDMA(t) \/ GetDMAList(t) \/ Fail(t)
           \/ ObtainSemaphore(t) \/ Reply(t)
  PROVE  CreditInv'
  <1>1. UNCHANGED <<tx_ring, tx_next_fill, tx_buf_pending, credit, giveUps>>
      BY DEF Reject, Allocate, Copy, StartDMA, GetDMAList, Fail, ObtainSemaphore, Reply,
         pending, engine
  <1>2. \E from \in Outside \cup {"lock"}, to \in Outside \cup {"lock", "cleanup"} :
          At(t, from, to)
      BY DEF Reject, Allocate, Copy, StartDMA, GetDMAList, Fail, ObtainSemaphore, Reply,
         Outside
  <1>3. \A u \in Tasks : step'[u] = step[u] \/ (step'[u] \notin Owner /\ step[u] \notin Owner)
      BY <1>2 DEF IInv, TypeOK, At, Outside, Owner
  <1> QED
      BY <1>1, <1>3, CreditSame

\* tx_cleanup_pending goes on with nothing of the last packet in the ring, or
\* counts a timeout for it.
LEMMA CreditCleanup ==
  ASSUME IInv, CreditInv, NEW t \in Tasks, Cleanup(t) \/ Recheck(t)
  PROVE  CreditInv'
  <1>1. PICK from \in {"cleanup", "recheck"}, to \in {"fill", "release", "recheck"} :
          /\ At(t, from, to)
          /\ step[t] \in Owner \/ Holds(t)
          /\ from = "recheck" => to = "release" /\ Recheck(t)
          /\ from = "cleanup" => Cleanup(t)
      BY DEF Cleanup, Recheck, At, Owner
  <1>2. /\ step[t] = from /\ step'[t] = to
        /\ \A u \in Tasks \ {t} : step'[u] = step[u] /\ step[u] \notin Owner
    <2>1. tx_lock' = tx_lock /\ from \in UnderLock /\ to \in Owner
        BY DEF Cleanup, Recheck, UnderLock, Owner
    <2> QED
        BY <1>1, <2>1, HolderMoves DEF IInv, TypeOK, At
  <1>3. /\ tx_ring' = tx_ring /\ tx_next_fill' = tx_next_fill
        /\ tx_buf_pending' = tx_buf_pending /\ credit' = credit
      BY DEF Cleanup, Recheck, pending, engine
  <1>4. Unannounced = 0 /\ Unannounced' = 0 /\ FilledPosition' = FilledPosition
      BY <1>1, <1>2, <1>3 DEF Unannounced, FilledPosition, Owner
  <1>5. credit \in Nat /\ giveUps \in Nat
      BY DEF IInv, TypeOK
  <1>6. CASE from = "recheck"
    <2>1. tx_fill_pending = FilledPosition /\ tx_buf_pending # NoBuf
        BY <1>2, <1>6 DEF IInv, PendingInv
    <2>2. giveUps' = IF tx_ring[FilledPosition].O THEN giveUps + 1 ELSE giveUps
        BY <1>1, <1>6, <2>1 DEF Recheck
    <2>3. credit <= giveUps'
        BY <1>4, <1>5, <2>2 DEF CreditInv
    <2>4. credit' + Unannounced' <= giveUps' + (IF tx_ring'[FilledPosition'].O THEN 1 ELSE 0)
        BY <1>3, <1>4, <1>5, <2>2, <2>3
    <2> QED
        BY <1>3, <2>1, <2>3, <2>4 DEF CreditInv
  <1>7. CASE from = "cleanup"
    <2>1. giveUps' = giveUps
        BY <1>1, <1>7 DEF Cleanup
    <2>2. /\ to = "fill" => tx_buf_pending = NoBuf
          /\ to = "release" => tx_buf_pending # NoBuf /\ ~tx_ring[tx_fill_pending].O
          /\ to = "recheck" => tx_buf_pending # NoBuf
        BY <1>1, <1>2, <1>7 DEF Cleanup, At, IInv, TypeOK
    <2>3. \A u \in Tasks : step[u] \notin {"fill", "bell", "store"}
        BY <1>2, <1>7 DEF Owner
    <2>4. to \in {"fill", "release"} => ~tx_ring[FilledPosition].O
        BY <2>2, <2>3 DEF CreditInv, IInv, PendingInv
    <2>5. to \in {"fill", "release"} => credit <= giveUps
        BY <1>4, <1>5, <2>4 DEF CreditInv
    <2>6. \A u \in Tasks : step'[u] \in {"release", "fill"} => u = t /\ to \in {"fill", "release"}
        BY <1>2 DEF Owner
    <2>7. \A u \in Tasks : step'[u] \in {"release", "fill"} => credit' <= giveUps'
        BY <1>3, <2>1, <2>5, <2>6
    <2>8. credit' + Unannounced' <= giveUps' + (IF tx_ring'[FilledPosition'].O THEN 1 ELSE 0)
        BY <1>3, <1>4, <2>1 DEF CreditInv
    <2>9. tx_buf_pending' = NoBuf => to = "fill"
        BY <1>1, <1>3, <2>2
    <2> QED
        BY <1>2, <2>7, <2>8, <2>9 DEF CreditInv
  <1> QED
      BY <1>1, <1>6, <1>7

\* Fill: one packet more, for the credit there will be.  Doorbell: that credit.
LEMMA CreditNewPacket ==
  ASSUME IInv, CreditInv, NEW t \in Tasks, Release(t) \/ Fill(t) \/ Doorbell(t) \/ Store(t)
  PROVE  CreditInv'
  <1>1. PICK from \in Owner, to \in Steps : At(t, from, to)
      BY DEF Release, Fill, Doorbell, Store, Owner, Steps
  <1>2. /\ step[t] = from /\ step'[t] = to
        /\ \A u \in Tasks \ {t} : step'[u] = step[u] /\ step[u] \notin Owner
      BY <1>1, OneOwner DEF IInv, TypeOK, At
  <1>3. /\ credit \in Nat /\ giveUps \in Nat /\ giveUps' = giveUps
        /\ tx_ring \in [Positions -> [O : BOOLEAN, buf : Buffers \cup {NoBuf}]]
        /\ tx_next_fill \in Positions
      BY DEF IInv, TypeOK, Release, Fill, Doorbell, Store
  <1>4. CASE Release(t)
    <2>1. step[t] = "release" /\ step'[t] = "fill" /\ credit' = credit /\ credit <= giveUps
        BY <1>2, <1>4 DEF Release, At, engine, IInv, TypeOK, CreditInv
    <2>2. Unannounced' = 0
        BY <1>2, <2>1 DEF Unannounced, Owner
    <2>3. credit' + Unannounced' <= giveUps' + (IF tx_ring'[FilledPosition'].O THEN 1 ELSE 0)
        BY <1>3, <2>1, <2>2
    <2> QED
        BY <1>3, <2>1, <2>3 DEF CreditInv
  <1>5. CASE Fill(t)
    <2>1. step[t] = "fill" /\ step'[t] = "bell" /\ credit' = credit /\ credit <= giveUps
        BY <1>2, <1>5 DEF Fill, At, engine, IInv, TypeOK, CreditInv
    <2>2. FilledPosition' = tx_next_fill
        BY <1>3, <1>5, TxAssumption, RingPositions DEF Fill, FilledPosition
    <2>3. tx_ring'[FilledPosition'].O
        BY <1>3, <1>5, <2>2 DEF Fill
    <2>4. Unannounced' = 1
        BY <2>1 DEF Unannounced
    <2>5. \A u \in Tasks : step'[u] \notin {"release", "fill"}
        BY <1>2, <2>1 DEF Owner
    <2>6. credit' + Unannounced' <= giveUps' + (IF tx_ring'[FilledPosition'].O THEN 1 ELSE 0)
        BY <1>3, <2>1, <2>3, <2>4
    <2> QED
        BY <2>1, <2>5, <2>6 DEF CreditInv
  <1>6. CASE Doorbell(t)
    <2>1. step[t] = "bell" /\ step'[t] = "store" /\ credit' = credit + 1
        BY <1>2, <1>6 DEF Doorbell, At, IInv, TypeOK
    <2>2. tx_ring' = tx_ring /\ FilledPosition' = FilledPosition
        BY <1>6 DEF Doorbell, FilledPosition
    <2>3. Unannounced = 1 /\ Unannounced' = 0
        BY <1>2, <2>1 DEF Unannounced, Owner
    <2>4. \A u \in Tasks : step'[u] \notin {"release", "fill"}
        BY <1>2, <2>1 DEF Owner
    <2>5. credit' + Unannounced' <= giveUps' + (IF tx_ring'[FilledPosition'].O THEN 1 ELSE 0)
        BY <1>3, <2>1, <2>2, <2>3 DEF CreditInv
    <2> QED
        BY <2>1, <2>4, <2>5 DEF CreditInv
  <1>7. CASE Store(t)
    <2>1. step[t] = "store" /\ step'[t] = "reply" /\ credit' = credit
        BY <1>2, <1>7 DEF Store, At, engine, IInv, TypeOK
    <2>2. tx_ring' = tx_ring /\ FilledPosition' = FilledPosition /\ tx_buf_pending' = tx_buf[t]
        BY <1>7 DEF Store, FilledPosition
    <2>3. tx_buf[t] # NoBuf
        BY <2>1 DEF IInv, HandsInv
    <2>4. Unannounced = 0 /\ Unannounced' = 0
        BY <1>2, <2>1 DEF Unannounced, Owner
    <2>5. \A u \in Tasks : step'[u] \notin {"release", "fill"}
        BY <1>2, <2>1 DEF Owner
    <2>6. credit' + Unannounced' <= giveUps' + (IF tx_ring'[FilledPosition'].O THEN 1 ELSE 0)
        BY <1>3, <2>1, <2>2, <2>4 DEF CreditInv
    <2> QED
        BY <2>2, <2>3, <2>5, <2>6 DEF CreditInv
  <1> QED
      BY <1>4, <1>5, <1>6, <1>7

\* The engine uses a credit for each position it goes past.
LEMMA CreditHwDone ==
  ASSUME IInv, CreditInv, HwDone
  PROVE  CreditInv'
  <1>1. /\ step' = step /\ tx_next_fill' = tx_next_fill /\ tx_buf_pending' = tx_buf_pending
        /\ giveUps' = giveUps
      BY DEF HwDone, locals, pending
  <1>2. credit \in Nat \ {0} /\ credit' = credit - 1 /\ giveUps \in Nat
      BY DEF HwDone, IInv, TypeOK
  <1>3. Unannounced' = Unannounced /\ Unannounced \in {0, 1} /\ FilledPosition' = FilledPosition
      BY <1>1 DEF Unannounced, FilledPosition
  <1>4. FilledPosition \in Positions
      BY TxAssumption, RingPositions DEF IInv, TypeOK
  <1>5. tx_ring'[FilledPosition].O => tx_ring[FilledPosition].O
      BY <1>4 DEF HwDone, IInv, TypeOK
  <1>6. credit' + Unannounced' <= giveUps' + (IF tx_ring'[FilledPosition'].O THEN 1 ELSE 0)
    <2>1. credit + Unannounced <= giveUps + 1
        BY <1>2, <1>3 DEF CreditInv
    <2>2. CASE tx_ring'[FilledPosition].O
        BY <1>1, <1>2, <1>3, <2>1, <2>2
    <2>3. CASE ~tx_ring'[FilledPosition].O
        BY <1>1, <1>2, <1>3, <2>1, <2>3
    <2> QED
        BY <2>2, <2>3
  <1>7. \A u \in Tasks : step'[u] \in {"release", "fill"} => credit' <= giveUps'
    <2>1. \A u \in Tasks : step[u] \in {"release", "fill"} => credit <= giveUps
        BY DEF CreditInv
    <2> QED
        BY <1>1, <1>2, <2>1
  <1> QED
      BY <1>1, <1>3, <1>5, <1>6, <1>7 DEF CreditInv

\* The credits and tx_next_fill stay in step, and each timeout leaves at most
\* one credit behind (hw/tx.c:43-62, 184-189).
THEOREM IndicesInStep == Spec => []IndicesAgree
  <1>1. Init => CreditInv
    <2> SUFFICES ASSUME Init PROVE CreditInv
        OBVIOUS
    <2>1. Unannounced = 0
        BY DEF Init, Unannounced
    <2>2. FilledPosition \in Positions
        BY InitInv, TxAssumption, RingPositions DEF IInv, TypeOK
    <2>3. ~tx_ring[FilledPosition].O
        BY <2>2 DEF Init
    <2> QED
        BY <2>1, <2>3 DEF Init, CreditInv
  <1>2. IInv /\ CreditInv /\ [Next]_vars => CreditInv'
    <2> SUFFICES ASSUME IInv, CreditInv, [Next]_vars PROVE CreditInv'
        OBVIOUS
    <2>1. CASE HwFetch \/ UNCHANGED vars
      <3>1. /\ UNCHANGED <<tx_ring, tx_next_fill, tx_buf_pending, credit, giveUps>>
            /\ step' = step
          BY <2>1 DEF HwFetch, vars, locals, pending, engine
      <3> QED
          BY <3>1, CreditSame
    <2>2. ASSUME NEW t \in Tasks, TransmitPacket(t) PROVE CreditInv'
        BY <2>2, CreditOutside, CreditCleanup, CreditNewPacket DEF TransmitPacket
    <2> QED
        BY <2>1, <2>2, CreditHwDone DEF Next
  <1>3. IInv /\ CreditInv => IndicesAgree
    <2> SUFFICES ASSUME IInv, CreditInv PROVE CreditBounded
        BY DEF IInv, IndicesAgree
    <2>1. credit \in Nat /\ giveUps \in Nat /\ Unannounced \in {0, 1}
        BY DEF IInv, TypeOK, Unannounced
    <2> QED
        BY <2>1 DEF CreditInv, CreditBounded
  <1> QED
      BY <1>1, <1>2, <1>3, Invariance, PTL DEF Spec

-----------------------------------------------------------------------------
(* What the engine reads.                                                   *)

\* Nothing but the timeout of tx_cleanup_pending takes a buffer from the engine.
THEOREM ReadsMapped == Spec => []EngineReadsMapped
  <1>1. ASSUME IInv, giveUps = 0, NEW b, Current(b) PROVE b \in mapped
      BY <1>1 DEF IInv, MappedInv, Current, UnderLock, Owner
  <1>2. ASSUME IInv, giveUps = 0, NEW g \in Positions, tx_ring[g].O
        PROVE  tx_ring[g].buf \in mapped /\ \A t \in Tasks : step[t] # "release"
    <2>1. Current(tx_ring[g].buf)
        BY <1>2 DEF IInv, EngineInv
    <2> QED
        BY <1>1, <1>2, <2>1 DEF IInv, EngineInv
  <1>3. ASSUME IInv, giveUps = 0
        PROVE  /\ credit > 0 => tx_ring[hwNext].O
               /\ sending # NoBuf => sending \in mapped
      BY <1>2, <1>3 DEF IInv, EngineInv, TypeOK
  <1>4. IInv => EngineReadsMapped
      BY <1>2, <1>3 DEF EngineReadsMapped
  <1> QED
      BY <1>4, Invariance, PTL

-----------------------------------------------------------------------------
(* TxRing implements TxChannel.                                             *)

ChannelStep == [Channel!Next]_(Channel!vars)

LEMMA ChannelStutters ==
  ASSUME UNCHANGED <<tx_ring, sending, giveUps>>
  PROVE  ChannelStep
  BY DEF ChannelStep, Channel!vars, Waiting, GoingOut, Owned

\* What the engine owns without a timeout: the packet filled last, or nothing.
LEMMA OwnedOnce ==
  ASSUME IInv, giveUps = 0
  PROVE  /\ \A g \in Positions : tx_ring[g].O =>
              /\ Owned = {tx_ring[g].buf}
              /\ tx_ring[g].buf \in Buffers /\ tx_ring[g].buf # NoBuf
         /\ sending # NoBuf => credit > 0 /\ tx_ring[hwNext].O /\ Owned = {sending}
         /\ (\A g \in Positions : ~tx_ring[g].O) => Owned = {} /\ sending = NoBuf
  <1>1. ASSUME NEW g \in Positions, tx_ring[g].O
        PROVE  /\ Owned = {tx_ring[g].buf}
               /\ tx_ring[g].buf \in Buffers /\ tx_ring[g].buf # NoBuf
    <2>1. \A h \in Positions : tx_ring[h].O => h = g
        BY <1>1 DEF IInv, EngineInv
    <2>2. Current(tx_ring[g].buf)
        BY <1>1 DEF IInv, EngineInv
    <2>3. tx_ring[g].buf # NoBuf
        BY <2>2 DEF Current, IInv, HandsInv
    <2>4. tx_ring[g].buf \in Buffers \cup {NoBuf}
        BY DEF IInv, TypeOK
    <2> QED
        BY <1>1, <2>1, <2>3, <2>4 DEF Owned
  <1>2. hwNext \in Positions
      BY DEF IInv, TypeOK
  <1>3. sending # NoBuf => credit > 0 /\ tx_ring[hwNext].O /\ sending = tx_ring[hwNext].buf
      BY DEF IInv, EngineInv
  <1>4. (\A g \in Positions : ~tx_ring[g].O) => Owned = {}
      BY DEF Owned
  <1> QED
      BY <1>1, <1>2, <1>3, <1>4

\* After a timeout nothing is promised.
LEMMA ChannelEnded ==
  ASSUME IInv, giveUps # 0, giveUps' \in {giveUps, giveUps + 1}
  PROVE  ChannelStep
  <1>1. giveUps' # 0
      BY DEF IInv, TypeOK
  <1> QED
      BY <1>1 DEF ChannelStep, Channel!vars, Waiting, GoingOut

\* hw/tx.c:172-184: a packet is handed over.
LEMMA FillHands ==
  ASSUME IInv, giveUps = 0, NEW t \in Tasks, Fill(t)
  PROVE  ChannelStep
  <1>1. step[t] = "fill" /\ UNCHANGED <<sending, giveUps>>
      BY DEF Fill, At, engine
  <1>2. Owned = {} /\ sending = NoBuf /\ \A g \in Positions : ~tx_ring[g].O
      BY <1>1, OwnedOnce DEF IInv, EngineInv
  <1>3. tx_buf[t] \in Buffers /\ tx_buf[t] # NoBuf
      BY <1>1 DEF IInv, HandsInv, TypeOK
  <1>4. Owned' = {tx_buf[t]}
    <2>1. tx_next_fill \in Positions
          /\ tx_ring' = [tx_ring EXCEPT ![tx_next_fill] = [O |-> TRUE, buf |-> tx_buf[t]]]
        BY DEF Fill, IInv, TypeOK
    <2>2. tx_ring'[tx_next_fill] = [O |-> TRUE, buf |-> tx_buf[t]]
          /\ \A g \in Positions \ {tx_next_fill} : tx_ring'[g] = tx_ring[g]
        BY <2>1 DEF IInv, TypeOK
    <2>3. {h \in Positions : tx_ring'[h].O} = {tx_next_fill}
        BY <1>2, <2>1, <2>2
    <2> QED
        BY <2>2, <2>3 DEF Owned
  <1>5. Channel!Hand
      BY <1>1, <1>2, <1>3, <1>4 DEF Channel!Hand, Waiting, GoingOut
  <1> QED
      BY <1>5 DEF ChannelStep, Channel!Next

\* hw/tx.c:43-52: the descriptor is still the engine's when the wait is over.
LEMMA RecheckTakesBack ==
  ASSUME IInv, giveUps = 0, NEW t \in Tasks, Recheck(t)
  PROVE  ChannelStep
  <1>1. UNCHANGED <<tx_ring, sending>>
      BY DEF Recheck, engine
  <1>2. CASE tx_ring[tx_fill_pending].O
    <2>1. tx_fill_pending \in Positions /\ giveUps' = 1
        BY <1>2 DEF Recheck, IInv, TypeOK
    <2>2. Owned = {tx_ring[tx_fill_pending].buf} /\ tx_ring[tx_fill_pending].buf # NoBuf
        BY <1>2, <2>1, OwnedOnce
    <2>3. Waiting # {} \/ GoingOut # NoBuf
        BY <2>2 DEF Waiting, GoingOut
    <2>4. Channel!TakeBack
        BY <2>1, <2>3 DEF Channel!TakeBack, Waiting, GoingOut
    <2> QED
        BY <2>4 DEF ChannelStep, Channel!Next
  <1>3. CASE ~tx_ring[tx_fill_pending].O
      BY <1>1, <1>3, ChannelStutters DEF Recheck
  <1> QED
      BY <1>2, <1>3

\* hw/tx.c:54-62: what is released is the engine's no more.
LEMMA ReleaseHidden ==
  ASSUME IInv, giveUps = 0, NEW t \in Tasks, Release(t)
  PROVE  ChannelStep
  <1>1. step[t] = "release" /\ UNCHANGED <<sending, giveUps>>
      BY DEF Release, At, engine
  <1>2. Owned = {} /\ \A g \in Positions : ~tx_ring[g].O
      BY <1>1, OwnedOnce DEF IInv, EngineInv
  <1>3. \A g \in Positions : ~tx_ring'[g].O
      BY <1>2 DEF Release, IInv, TypeOK
  <1>4. Owned' = {}
      BY <1>3 DEF Owned
  <1> QED
      BY <1>1, <1>2, <1>4 DEF ChannelStep, Channel!vars, Waiting, GoingOut

LEMMA EngineBegins ==
  ASSUME IInv, giveUps = 0, HwFetch
  PROVE  ChannelStep
  <1>1. /\ sending = NoBuf /\ sending' = tx_ring[hwNext].buf /\ tx_ring[hwNext].O
        /\ UNCHANGED <<tx_ring, giveUps>> /\ hwNext \in Positions
      BY DEF HwFetch, IInv, TypeOK
  <1>2. Owned = {tx_ring[hwNext].buf} /\ tx_ring[hwNext].buf # NoBuf /\ Owned' = Owned
      BY <1>1, OwnedOnce DEF Owned
  <1>3. Waiting = {sending'} /\ Waiting' = {} /\ GoingOut = NoBuf /\ GoingOut' = sending'
      BY <1>1, <1>2 DEF Waiting, GoingOut
  <1>4. Channel!Begin
      BY <1>1, <1>3 DEF Channel!Begin
  <1> QED
      BY <1>4 DEF ChannelStep, Channel!Next

LEMMA EngineFinishes ==
  ASSUME IInv, giveUps = 0, HwDone
  PROVE  ChannelStep
  <1>1. /\ credit > 0 /\ (sending # NoBuf \/ ~tx_ring[hwNext].O) /\ hwNext \in Positions
        /\ sending' = NoBuf /\ giveUps' = giveUps
        /\ tx_ring' = [tx_ring EXCEPT ![hwNext].O = FALSE]
      BY DEF HwDone, IInv, TypeOK
  <1>2. sending # NoBuf /\ tx_ring[hwNext].O
      BY <1>1 DEF IInv, EngineInv
  <1>3. Owned = {sending} /\ \A g \in Positions : tx_ring[g].O => g = hwNext
      BY <1>1, <1>2, OwnedOnce DEF IInv, EngineInv
  <1>4. \A g \in Positions : ~tx_ring'[g].O
      BY <1>1, <1>3 DEF IInv, TypeOK
  <1>5. Owned' = {}
      BY <1>4 DEF Owned
  <1>6. Channel!Finish
      BY <1>1, <1>2, <1>3, <1>5 DEF Channel!Finish, Waiting, GoingOut
  <1> QED
      BY <1>6 DEF ChannelStep, Channel!Next

\* Until tx_cleanup_pending takes back a packet that has not left, each packet
\* written to the ring is sent once and before the next is written (hw/tx.c),
\* for any number of tasks, buffers and packets in the ring.
THEOREM SentOnce == Spec => EachSentOnce
  <1>1. Init => Channel!Init
    <2>1. Init => Owned = {}
        BY DEF Init, Owned
    <2> QED
        BY <2>1 DEF Init, Channel!Init, Waiting, GoingOut
  <1>2. ASSUME IInv, [Next]_vars PROVE ChannelStep
    <2>1. ASSUME NEW t \in Tasks, TransmitPacket(t), ~(Recheck(t) \/ Release(t) \/ Fill(t))
          PROVE  UNCHANGED <<tx_ring, sending, giveUps>>
        BY <2>1 DEF TransmitPacket, Reject, Allocate, Copy, StartDMA, GetDMAList, Fail,
           ObtainSemaphore, Cleanup, Doorbell, Store, Reply, engine
    <2>2. ASSUME NEW t \in Tasks, Recheck(t) \/ Release(t) \/ Fill(t)
          PROVE  giveUps' \in {giveUps, giveUps + 1}
        BY <2>2 DEF Recheck, Release, Fill
    <2>3. HwFetch \/ HwDone => giveUps' = giveUps
        BY DEF HwFetch, HwDone
    <2>4. CASE UNCHANGED vars
        BY <2>4, ChannelStutters DEF vars, engine
    <2>5. ASSUME NEW t \in Tasks, TransmitPacket(t) PROVE ChannelStep
        BY <1>2, <2>1, <2>2, <2>5, ChannelStutters, ChannelEnded, FillHands, RecheckTakesBack,
           ReleaseHidden
    <2> QED
        BY <1>2, <2>3, <2>4, <2>5, ChannelEnded, EngineBegins, EngineFinishes DEF Next
  <1>3. IInv /\ [Next]_vars => [Channel!Next]_(Channel!vars)
      BY <1>2 DEF ChannelStep
  <1> QED
      BY <1>1, <1>3, Invariance, PTL DEF Spec, EachSentOnce, Channel!Spec

=============================================================================
