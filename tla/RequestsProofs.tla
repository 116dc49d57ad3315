--------------------------- MODULE RequestsProofs ---------------------------
(****************************************************************************)
(* Requests keeps its invariants and the contract of SanaContract, for any  *)
(* number of requests and whatever commands and packet types are used.      *)
(* IInv says, besides where each request is, what the unit task has in its  *)
(* hands at each point of its loop, and that a request being aborted was    *)
(* asked for or is back with its owner.                                     *)
(****************************************************************************)
EXTENDS Requests, WellFoundedInduction, TLAPS

Answers == {"ok", "aborted", "outofservice", "badstate", "failed"}

RequestTypes ==
  /\ status \in [Reqs -> {"client", "begin", "go", "queued", "taken"}]
  /\ cmd \in [Reqs -> Cmds \cup {"none"}] /\ ptype \in [Reqs -> EtherTypes \cup {"none"}]
  /\ want \in [Reqs -> SUBSET Events] /\ wire \in [Reqs -> SUBSET Events]
  /\ err \in [Reqs -> Answers \cup {"none"}]
  /\ \A r \in Reqs : err[r] = "none" <=> status[r] # "client"
  /\ abort \in [Reqs -> {"no", "reads", "events", "port"}]
  /\ abortAsked \in [Reqs -> BOOLEAN]

ListInv ==
  /\ reads \in [Lists -> Seq(Reqs)] /\ event_list \in Seq(Reqs) /\ port \in Seq(Reqs)
  /\ \A l \in Lists : Distinct(reads[l])
  /\ Distinct(event_list) /\ Distinct(port)

Linked(r) ==
  \/ \E l \in Lists : r \in In(reads[l])
  \/ r \in In(event_list) \/ r \in In(port)

PlaceInv ==
  \A r \in Reqs :
    /\ status[r] = "queued" <=> Linked(r)
    /\ status[r] = "taken" <=> cur = r
    /\ \A l \in Lists : r \in In(reads[l]) => cmd[r] = "read" /\ ListOf(ptype[r]) = l
    /\ r \in In(event_list) => cmd[r] \in {"orphan", "onevent"}
    /\ r \in In(port) => cmd[r] \in Ported

\* Where in its loop the unit task has a request, and where it is ending.
Holding == {"signal_online", "signal_offline", "offline_flush", "flush", "reply", "deliver"}
Ending == {"exit", "exit_reads", "exit_events"}

TaskInv ==
  /\ online \in BOOLEAN /\ opened \in BOOLEAN /\ task_shutdown \in BOOLEAN
  /\ loop \in Holding \cup Ending \cup {"none", "wait", "drain", "rx"}
  /\ cur \in Reqs \cup {NoReq} /\ frame \in EtherTypes \cup {"none"}
  /\ batch \in 0 .. MaxBatch
  /\ cur # NoReq <=> loop \in Holding
  /\ opened => loop # "none" /\ ~task_shutdown
  /\ loop \in Ending => task_shutdown

\* What is in its hands there.
HoldingInv ==
  /\ loop = "flush" => cmd[cur] = "flush"
  /\ loop = "offline_flush" => cmd[cur] = "offline"
  /\ loop = "deliver" => cmd[cur] \in {"read", "orphan"}

AbortInv == \A r \in Reqs : abort[r] # "no" => abortAsked[r] \/ status[r] = "client"

IInv ==
  RequestTypes /\ ListInv /\ PlaceInv /\ TaskInv /\ HoldingInv /\ AbortInv

-----------------------------------------------------------------------------
(* Induction over the natural numbers, for sets instead of predicates: it   *)
(* follows from their order being well-founded.                             *)

Less == {p \in Nat \X Nat : p[1] < p[2]}

LEMMA Least ==
  ASSUME NEW T \in SUBSET Nat, T # {}
  PROVE  \E x \in T : \A y \in T : x <= y
  <1>1. IsWellFoundedOn(Less, Nat)
      BY NatLessThanWellFounded DEF OpToRel, Less
  <1>2. PICK x \in T : \A y \in T : <<y, x>> \notin Less
      BY <1>1, WFMin
  <1>3. \A y \in T : <<y, x>> \in Nat \X Nat /\ <<y, x>>[1] = y /\ <<y, x>>[2] = x
      OBVIOUS
  <1>4. \A y \in T : ~(y < x)
      BY <1>2, <1>3 DEF Less
  <1> QED
      BY <1>4

LEMMA Induction ==
  ASSUME NEW T, 0 \in T, \A n \in Nat : n \in T => n + 1 \in T
  PROVE  \A n \in Nat : n \in T
  <1> SUFFICES ASSUME Nat \ T # {} PROVE FALSE
      OBVIOUS
  <1>1. PICK x \in Nat \ T : \A y \in Nat \ T : x <= y
      BY Least
  <1>2. x # 0 /\ x - 1 \in Nat /\ x - 1 \in T
      BY <1>1
  <1> QED
      BY <1>1, <1>2

-----------------------------------------------------------------------------
(* Sequences without repetition, and what the lists' operations do to them. *)

LEMMA Elements ==
  ASSUME NEW S, NEW seq \in Seq(S)
  PROVE  In(seq) \subseteq S /\ (seq = <<>> <=> In(seq) = {})
  <1>1. DOMAIN seq = 1 .. Len(seq) /\ Len(seq) \in Nat /\ \A i \in 1 .. Len(seq) : seq[i] \in S
      OBVIOUS
  <1>2. seq # <<>> => seq[1] \in In(seq)
      BY <1>1 DEF In
  <1>3. seq = <<>> => In(seq) = {}
      BY DEF In
  <1> QED
      BY <1>1, <1>2, <1>3 DEF In

LEMMA EmptyList == In(<<>>) = {} /\ Distinct(<<>>)
  BY DEF In, Distinct

LEMMA Appended ==
  ASSUME NEW S, NEW seq \in Seq(S), NEW x \in S
  PROVE  /\ Append(seq, x) \in Seq(S)
         /\ In(Append(seq, x)) = In(seq) \cup {x}
         /\ Distinct(seq) /\ x \notin In(seq) => Distinct(Append(seq, x))
  <1> DEFINE h == Append(seq, x)
             m == Len(seq)
  <1>1. /\ h \in Seq(S) /\ m \in Nat /\ DOMAIN seq = 1 .. m /\ DOMAIN h = 1 .. m + 1
        /\ \A i \in 1 .. m : h[i] = seq[i]
        /\ h[m + 1] = x
      OBVIOUS
  <1> HIDE DEF h, m
  <1>2. In(h) = In(seq) \cup {x}
      BY <1>1 DEF In
  <1>3. Distinct(seq) /\ x \notin In(seq) => Distinct(h)
      BY <1>1 DEF In, Distinct
  <1> QED
      BY <1>1, <1>2, <1>3 DEF h

LEMMA Removed ==
  ASSUME NEW S, NEW seq \in Seq(S), seq # <<>>, Distinct(seq)
  PROVE  /\ Head(seq) \in In(seq) /\ Tail(seq) \in Seq(S)
         /\ In(Tail(seq)) = In(seq) \ {Head(seq)}
         /\ Distinct(Tail(seq))
  <1> DEFINE h == Tail(seq)
             m == Len(seq)
  <1>1. /\ h \in Seq(S) /\ m \in Nat /\ m > 0 /\ DOMAIN seq = 1 .. m /\ DOMAIN h = 1 .. m - 1
        /\ \A i \in 1 .. m - 1 : h[i] = seq[i + 1]
        /\ Head(seq) = seq[1]
      OBVIOUS
  <1> HIDE DEF h, m
  <1>2. Head(seq) \in In(seq)
      BY <1>1 DEF In
  <1>3. \A x : x \in In(h) <=> x \in In(seq) /\ x # seq[1]
    <2>1. \A i \in 1 .. m - 1 : i + 1 \in 1 .. m /\ i + 1 # 1
        BY <1>1
    <2>2. \A i \in 1 .. m : i # 1 => i - 1 \in 1 .. m - 1 /\ h[i - 1] = seq[i]
        BY <1>1
    <2>3. ASSUME NEW x \in In(h) PROVE x \in In(seq) /\ x # seq[1]
      <3>1. PICK i \in 1 .. m - 1 : x = h[i]
          BY <1>1 DEF In
      <3>2. x = seq[i + 1] /\ i + 1 \in DOMAIN seq /\ 1 \in DOMAIN seq /\ i + 1 # 1
          BY <1>1, <2>1, <3>1
      <3>3. seq[i + 1] # seq[1]
          BY <3>2 DEF Distinct
      <3> QED
          BY <3>2, <3>3 DEF In
    <2>4. ASSUME NEW x \in In(seq), x # seq[1] PROVE x \in In(h)
      <3>1. PICK i \in 1 .. m : x = seq[i]
          BY <1>1 DEF In
      <3> QED
          BY <1>1, <2>2, <2>4, <3>1 DEF In
    <2> QED
        BY <2>3, <2>4
  <1>4. Distinct(h)
    <2> SUFFICES ASSUME NEW i \in 1 .. m - 1, NEW j \in 1 .. m - 1, h[i] = h[j] PROVE i = j
        BY <1>1 DEF Distinct
    <2>1. i + 1 \in 1 .. m /\ j + 1 \in 1 .. m /\ seq[i + 1] = seq[j + 1]
        BY <1>1
    <2>2. i + 1 = j + 1
      <3>1. i + 1 \in DOMAIN seq /\ j + 1 \in DOMAIN seq
          BY <1>1, <2>1
      <3> QED
          BY <2>1, <3>1, Zenon DEF Distinct
    <2>3. m \in Nat
        BY <1>1
    <2>4. i \in Int /\ j \in Int
        BY <2>3
    <2> QED
        BY <2>2, <2>4
  <1> QED
      BY <1>1, <1>2, <1>3, <1>4 DEF h

\* The recursion of Without, as a function of the part of seq gone through.
LEMMA WithoutUnfolds ==
  ASSUME NEW seq, NEW R, NEW m \in Nat, Len(seq) = m
  PROVE  \E f : /\ Without(seq, R) = f[m]
                /\ f[0] = <<>>
                /\ \A n \in 1 .. m :
                     f[n] = IF seq[n] \in R THEN f[n - 1] ELSE Append(f[n - 1], seq[n])
  <1> DEFINE E(n, v) == IF n = 0 THEN <<>>
                        ELSE IF seq[n] \in R THEN v ELSE Append(v, seq[n])
             Body(f, k) == [n \in 0 .. k |-> E(n, f[n - 1])]
             T == {k \in Nat : \E f : f = Body(f, k)}
             G == CHOOSE f : f = Body(f, m)
  <1>1. 0 \in T
    <2>1. [n \in 0 .. 0 |-> <<>>] = Body([n \in 0 .. 0 |-> <<>>], 0)
        OBVIOUS
    <2> QED
        BY <2>1
  <1>2. ASSUME NEW k \in Nat, k \in T PROVE k + 1 \in T
    <2>1. PICK f : f = Body(f, k)
        BY <1>2
    <2> DEFINE h == [n \in 0 .. k + 1 |-> E(n, f[n - 1])]
    <2> HIDE DEF E
    <2>2. \A n \in 0 .. k : f[n] = E(n, f[n - 1])
        BY <2>1
    <2>3. \A n \in 0 .. k : h[n] = f[n]
        BY <2>2
    <2>4. ASSUME NEW n \in 0 .. k + 1 PROVE E(n, f[n - 1]) = E(n, h[n - 1])
      <3>1. CASE n = 0
          BY <3>1 DEF E
      <3>2. CASE n # 0
        <4>1. n - 1 \in 0 .. k
            BY <3>2
        <4> QED
            BY <2>3, <4>1
      <3> QED
          BY <3>1, <3>2
    <2>5. h = Body(h, k + 1)
        BY <2>4
    <2> HIDE DEF h, Body
    <2> QED
        BY <2>5
  <1>3. m \in T
    <2> HIDE DEF T
    <2> QED
        BY <1>1, <1>2, Induction
  <1>4. G = Body(G, m)
      BY <1>3
  <1>5. Without(seq, R) = G[m]
      BY DEF Without
  <1>6. G[0] = <<>> /\ \A n \in 1 .. m : G[n] = E(n, G[n - 1])
    <2> HIDE DEF G, E
    <2>1. \A n \in 0 .. m : G[n] = E(n, G[n - 1])
        BY <1>4
    <2>2. 0 \in 0 .. m /\ \A n \in 1 .. m : n \in 0 .. m
        OBVIOUS
    <2>3. G[0] = E(0, G[0 - 1])
        BY <2>1, <2>2
    <2> QED
        BY <2>1, <2>2, <2>3 DEF E
  <1>7. \A n \in 1 .. m : G[n] = IF seq[n] \in R THEN G[n - 1] ELSE Append(G[n - 1], seq[n])
    <2> HIDE DEF G
    <2> QED
        BY <1>6
  <1> HIDE DEF G, E
  <1> QED
      BY <1>5, <1>6, <1>7

\* Without removes the members of R and nothing else.
LEMMA WithoutRemoves ==
  ASSUME NEW S, NEW seq \in Seq(S), NEW R
  PROVE  /\ Without(seq, R) \in Seq(S)
         /\ In(Without(seq, R)) = In(seq) \ R
         /\ Distinct(seq) => Distinct(Without(seq, R))
  <1> DEFINE m == Len(seq)
  <1>1. m \in Nat /\ DOMAIN seq = 1 .. m /\ \A n \in 1 .. m : seq[n] \in S
      OBVIOUS
  <1>2. PICK f : /\ Without(seq, R) = f[m]
                 /\ f[0] = <<>>
                 /\ \A n \in 1 .. m :
                      f[n] = IF seq[n] \in R THEN f[n - 1] ELSE Append(f[n - 1], seq[n])
      BY <1>1, WithoutUnfolds
  <1> DEFINE First(n) == {seq[i] : i \in 1 .. n}
             Good(n) == /\ f[n] \in Seq(S)
                        /\ In(f[n]) = First(n) \ R
                        /\ Distinct(seq) => Distinct(f[n])
             T == {n \in Nat : n <= m => Good(n)}
  <1>3. 0 \in T
    <2>1. First(0) = {}
        OBVIOUS
    <2>2. In(f[0]) = {} /\ Distinct(f[0]) /\ f[0] \in Seq(S)
        BY <1>2, EmptyList
    <2>3. Good(0)
        BY <2>1, <2>2
    <2> HIDE DEF Good
    <2> QED
        BY <2>3
  <1>4. ASSUME NEW n \in Nat, n \in T PROVE n + 1 \in T
    <2> SUFFICES ASSUME n + 1 <= m PROVE Good(n + 1)
        OBVIOUS
    <2>1. Good(n) /\ n + 1 \in 1 .. m /\ n \in 0 .. m
        BY <1>1, <1>4
    <2>2. First(n + 1) = First(n) \cup {seq[n + 1]}
      <3>1. 1 .. n + 1 = 1 .. n \cup {n + 1}
          OBVIOUS
      <3> QED
          BY <3>1
    <2>3. f[n + 1] = IF seq[n + 1] \in R THEN f[n] ELSE Append(f[n], seq[n + 1])
        BY <1>2, <2>1
    <2>4. CASE seq[n + 1] \in R
        BY <2>1, <2>2, <2>3, <2>4
    <2>5. CASE seq[n + 1] \notin R
      <3>1. f[n] \in Seq(S) /\ seq[n + 1] \in S /\ f[n + 1] = Append(f[n], seq[n + 1])
          BY <1>1, <2>1, <2>3, <2>5
      <3>2. Distinct(seq) => seq[n + 1] \notin First(n)
          BY <1>1, <2>1 DEF Distinct
      <3> QED
          BY <2>1, <2>2, <2>5, <3>1, <3>2, Appended
    <2> QED
        BY <2>4, <2>5
  <1>5. m \in T
    <2> HIDE DEF T
    <2> QED
        BY <1>1, <1>3, <1>4, Induction
  <1>6. First(m) = In(seq)
      BY <1>1 DEF In
  <1> QED
      BY <1>1, <1>2, <1>5, <1>6

\* The CHOOSE of FirstOrphan finds one, and no other is before it.
LEMMA OrphanFound ==
  ASSUME event_list \in Seq(Reqs), NEW r \in In(event_list), cmd[r] = "orphan"
  PROVE  /\ event_list[FirstOrphan] \in In(event_list) /\ cmd[event_list[FirstOrphan]] = "orphan"
         /\ FirstOrphan \in DOMAIN event_list
         /\ \A j \in 1 .. FirstOrphan - 1 : cmd[event_list[j]] # "orphan"
  <1> DEFINE T == {i \in DOMAIN event_list : cmd[event_list[i]] = "orphan"}
  <1>1. DOMAIN event_list = 1 .. Len(event_list) /\ Len(event_list) \in Nat
      OBVIOUS
  <1>2. T \subseteq Nat /\ T # {}
      BY <1>1 DEF In
  <1>3. PICK i \in T : \A j \in T : i <= j
      BY <1>2, Least
  <1>4. i \in DOMAIN event_list /\ \A j \in 1 .. i - 1 : cmd[event_list[j]] # "orphan"
    <2>1. i \in 1 .. Len(event_list)
        BY <1>1
    <2>2. ASSUME NEW j \in 1 .. i - 1 PROVE j \notin T /\ j \in DOMAIN event_list
        BY <1>1, <1>3, <2>1
    <2> QED
        BY <1>1, <2>1, <2>2
  <1>5. /\ FirstOrphan \in DOMAIN event_list /\ cmd[event_list[FirstOrphan]] = "orphan"
        /\ \A j \in 1 .. FirstOrphan - 1 : cmd[event_list[j]] # "orphan"
      BY <1>3, <1>4 DEF FirstOrphan
  <1> QED
      BY <1>5 DEF In

-----------------------------------------------------------------------------
(* The initial states, and ReplyMsg wherever it is called.                  *)

LEMMA InitInv == Init => IInv
  <1> SUFFICES ASSUME Init PROVE IInv
      OBVIOUS
  <1>1. RequestTypes
      BY DEF Init, RequestTypes, Answers
  <1>2. ListInv
    <2>1. <<>> \in Seq(Reqs)
        OBVIOUS
    <2> QED
        BY <2>1, EmptyList DEF Init, ListInv
  <1>3. PlaceInv
    <2>1. \A r \in Reqs : ~Linked(r)
        BY EmptyList DEF Init, Linked
    <2> QED
        BY <2>1, RequestsAssumption DEF Init, PlaceInv, Linked, RequestsAssumption
  <1>4. TaskInv
    <2>1. 0 \in 0 .. MaxBatch
        BY RequestsAssumption DEF RequestsAssumption
    <2> QED
        BY <2>1, RequestsAssumption DEF Init, TaskInv, Holding, Ending, RequestsAssumption
  <1>5. HoldingInv /\ AbortInv
      BY DEF Init, HoldingInv, AbortInv
  <1> QED
      BY <1>1, <1>2, <1>3, <1>4, <1>5 DEF IInv

LEMMA Replied ==
  ASSUME RequestTypes, NEW R \in SUBSET Reqs, NEW e \in Answers, Reply(R, e)
  PROVE  /\ \A r \in R : status'[r] = "client" /\ cmd'[r] = "none"
         /\ \A r \in Reqs \ R : /\ status'[r] = status[r] /\ cmd'[r] = cmd[r]
                                /\ ptype'[r] = ptype[r] /\ abortAsked'[r] = abortAsked[r]
         /\ abort' \in [Reqs -> {"no", "reads", "events", "port"}] => RequestTypes'
  <1>1. /\ status' \in [Reqs -> {"client", "begin", "go", "queued", "taken"}]
        /\ cmd' \in [Reqs -> Cmds \cup {"none"}] /\ ptype' \in [Reqs -> EtherTypes \cup {"none"}]
      BY DEF RequestTypes, Reply
  <1>2. want' \in [Reqs -> SUBSET Events] /\ wire' \in [Reqs -> SUBSET Events]
      BY DEF RequestTypes, Reply
  <1>3. err' \in [Reqs -> Answers \cup {"none"}] /\ abortAsked' \in [Reqs -> BOOLEAN]
    <2>1. err' \in [Reqs -> Answers \cup {"none"}]
        BY DEF RequestTypes, Reply
    <2>2. abortAsked' = [r \in Reqs |-> abortAsked[r] /\ r \notin R]
        BY DEF Reply
    <2> QED
        BY <2>1, <2>2
  <1>4. \A r \in Reqs : err'[r] = "none" <=> status'[r] # "client"
      BY DEF RequestTypes, Reply, Answers
  <1>5. /\ \A r \in R : status'[r] = "client" /\ cmd'[r] = "none"
        /\ \A r \in Reqs \ R : status'[r] = status[r] /\ cmd'[r] = cmd[r] /\ ptype'[r] = ptype[r]
      BY DEF Reply
  <1>6. \A r \in Reqs \ R : abortAsked'[r] = abortAsked[r]
      BY DEF RequestTypes, Reply
  <1> QED
      BY <1>1, <1>2, <1>3, <1>4, <1>5, <1>6 DEF RequestTypes

\* The lists lose the members of R and keep everything else.
Purged(R) ==
  /\ reads' \in [Lists -> Seq(Reqs)] /\ event_list' \in Seq(Reqs) /\ port' \in Seq(Reqs)
  /\ \A l \in Lists : In(reads'[l]) = In(reads[l]) \ R /\ Distinct(reads'[l])
  /\ In(event_list') = In(event_list) \ R /\ Distinct(event_list')
  /\ In(port') = In(port) \ R /\ Distinct(port')

LEMMA AnswerKeeps ==
  ASSUME IInv, NEW R \in SUBSET Reqs, NEW e \in Answers, Reply(R, e), Purged(R),
         abort' \in [Reqs -> {"no", "reads", "events", "port"}],
         \A r \in Reqs : abort'[r] # "no" => abort[r] # "no",
         cur' = IF cur \in R THEN NoReq ELSE cur
  PROVE  RequestTypes' /\ ListInv' /\ PlaceInv' /\ AbortInv'
  <1>1. /\ \A r \in R : status'[r] = "client" /\ cmd'[r] = "none"
        /\ \A r \in Reqs \ R : /\ status'[r] = status[r] /\ cmd'[r] = cmd[r]
                               /\ ptype'[r] = ptype[r] /\ abortAsked'[r] = abortAsked[r]
        /\ RequestTypes'
      BY Replied DEF IInv
  <1>2. ListInv'
      BY DEF Purged, ListInv
  <1>3. \A r \in R : ~Linked(r)' /\ cur' # r
      BY RequestsAssumption DEF Purged, Linked, RequestsAssumption
  <1>4. \A r \in Reqs \ R :
          /\ Linked(r)' <=> Linked(r)
          /\ cur' = r <=> cur = r
      BY RequestsAssumption DEF Purged, Linked, RequestsAssumption
  <1>5. PlaceInv'
    <2>1. ASSUME NEW r \in R
          PROVE  /\ status'[r] = "client" /\ ~Linked(r)' /\ cur' # r
                 /\ \A l \in Lists : r \notin In(reads'[l])
                 /\ r \notin In(event_list') /\ r \notin In(port')
        BY <1>1, <1>3 DEF Linked
    <2>2. ASSUME NEW r \in Reqs \ R
          PROVE  /\ status'[r] = "queued" <=> Linked(r)'
                 /\ status'[r] = "taken" <=> cur' = r
                 /\ \A l \in Lists :
                      r \in In(reads'[l]) => cmd'[r] = "read" /\ ListOf(ptype'[r]) = l
                 /\ r \in In(event_list') => cmd'[r] \in {"orphan", "onevent"}
                 /\ r \in In(port') => cmd'[r] \in Ported
        BY <1>1, <1>4 DEF IInv, PlaceInv, Purged
    <2> QED
        BY <2>1, <2>2 DEF PlaceInv
  <1>6. AbortInv'
      BY <1>1 DEF IInv, AbortInv
  <1> QED
      BY <1>1, <1>2, <1>5, <1>6

\* Nothing of R is in a list: the lists may stay as they are.
LEMMA NothingPurged ==
  ASSUME IInv, UNCHANGED listVars, NEW R \in SUBSET Reqs, \A r \in R : status[r] # "queued"
  PROVE  Purged(R)
  <1>1. reads' = reads /\ event_list' = event_list /\ port' = port
      BY DEF listVars
  <1>2. /\ \A l \in Lists : In(reads[l]) \ R = In(reads[l])
        /\ In(event_list) \ R = In(event_list) /\ In(port) \ R = In(port)
      BY DEF IInv, PlaceInv, Linked
  <1> QED
      BY <1>1, <1>2 DEF Purged, IInv, ListInv

\* PA6TEth_FlushReadQueue answers reads and orphans, and none it has in hand.
LEMMA FlushPurges ==
  ASSUME IInv, NEW e, FlushReadQueue(e)
  PROVE  \E R \in SUBSET Reqs :
           /\ Reply(R, e) /\ Purged(R) /\ cur \notin R /\ abort' = abort
           /\ \A r \in R : status[r] = "queued" /\ cmd[r] \in {"read", "orphan"}
  <1> DEFINE orphans == {r \in In(event_list) : cmd[r] = "orphan"}
             R == orphans \cup UNION {In(reads[l]) : l \in Lists}
  <1>1. /\ Reply(R, e) /\ abort' = abort /\ port' = port
        /\ reads' = [l \in Lists |-> <<>>] /\ event_list' = Without(event_list, orphans)
      BY DEF FlushReadQueue
  <1>2. /\ In(event_list) \subseteq Reqs /\ \A l \in Lists : In(reads[l]) \subseteq Reqs
        /\ In(port) \subseteq Reqs
      BY Elements DEF IInv, ListInv
  <1>3. R \subseteq Reqs
      BY <1>2
  <1>4. \A r \in R : Linked(r) /\ cmd[r] \in {"read", "orphan"}
    <2>1. ASSUME NEW r \in orphans PROVE Linked(r) /\ cmd[r] = "orphan"
        BY DEF Linked
    <2>2. ASSUME NEW l \in Lists, NEW r \in In(reads[l]) PROVE Linked(r) /\ cmd[r] = "read"
        BY <1>2 DEF Linked, IInv, PlaceInv
    <2> QED
        BY <2>1, <2>2
  <1>5. cur \notin R /\ \A r \in R : status[r] = "queued"
    <2>1. \A r \in R : status[r] = "queued" /\ status[r] # "taken"
        BY <1>3, <1>4 DEF IInv, PlaceInv
    <2> QED
        BY <1>3, <2>1 DEF IInv, PlaceInv
  <1>6. Purged(R)
    <2>1. /\ event_list' \in Seq(Reqs) /\ Distinct(event_list')
          /\ In(event_list') = In(event_list) \ orphans
        BY <1>1, WithoutRemoves DEF IInv, ListInv
    <2>2. In(event_list) \ orphans = In(event_list) \ R
      <3>1. \A r \in In(event_list), l \in Lists : r \notin In(reads[l])
          BY <1>2 DEF IInv, PlaceInv
      <3> QED
          BY <3>1
    <2>3. In(port) \ R = In(port)
      <3>1. \A r \in In(port) : cmd[r] \in Ported
          BY <1>2 DEF IInv, PlaceInv
      <3> QED
          BY <1>4, <3>1 DEF Ported
    <2>4. \A l \in Lists : In(reads[l]) \ R = {}
        OBVIOUS
    <2>5. reads' \in [Lists -> Seq(Reqs)] /\ \A l \in Lists : reads'[l] = <<>>
      <3>1. <<>> \in Seq(Reqs)
          OBVIOUS
      <3> QED
          BY <1>1, <3>1
    <2> HIDE DEF R, orphans
    <2> QED
        BY <1>1, <2>1, <2>2, <2>3, <2>4, <2>5, EmptyList DEF Purged, IInv, ListInv
  <1> HIDE DEF R
  <1> QED
      BY <1>1, <1>3, <1>4, <1>5, <1>6

\* signal_event takes those it answers out of event_list.
LEMMA SignalPurges ==
  ASSUME IInv, NEW e, SignalEvent(e)
  PROVE  \E R \in SUBSET Reqs :
           /\ Reply(R, "ok") /\ Purged(R) /\ cur \notin R /\ abort' = abort
           /\ \A r \in R : status[r] = "queued"
  <1> DEFINE R == {r \in In(event_list) : e \in wire[r]}
  <1>1. /\ Reply(R, "ok") /\ abort' = abort /\ port' = port /\ reads' = reads
        /\ event_list' = Without(event_list, R)
      BY DEF SignalEvent
  <1>2. /\ In(event_list) \subseteq Reqs /\ \A l \in Lists : In(reads[l]) \subseteq Reqs
        /\ In(port) \subseteq Reqs /\ R \subseteq In(event_list)
      BY Elements DEF IInv, ListInv
  <1> HIDE DEF R
  <1>3. \A r \in R : status[r] = "queued" /\ r # cur
    <2>1. \A r \in R : r \in Reqs /\ Linked(r)
        BY <1>2 DEF Linked
    <2>2. \A r \in R : status[r] = "queued" /\ status[r] # "taken"
        BY <2>1 DEF IInv, PlaceInv
    <2> QED
        BY <2>1, <2>2 DEF IInv, PlaceInv
  <1>4. Purged(R)
    <2>1. /\ event_list' \in Seq(Reqs) /\ Distinct(event_list')
          /\ In(event_list') = In(event_list) \ R
        BY <1>1, WithoutRemoves DEF IInv, ListInv
    <2>2. \A r \in R : r \in Reqs /\ cmd[r] \in {"orphan", "onevent"}
        BY <1>2 DEF IInv, PlaceInv
    <2>3. In(port) \ R = In(port) /\ \A l \in Lists : In(reads[l]) \ R = In(reads[l])
        BY <2>2 DEF IInv, PlaceInv, Ported
    <2> QED
        BY <1>1, <2>1, <2>3 DEF Purged, IInv, ListInv
  <1> QED
      BY <1>1, <1>2, <1>3, <1>4

-----------------------------------------------------------------------------
(* Steps of the contract.                                                   *)

ContractStep == [Contract!Next]_(Contract!vars)
Owner == [r \in Reqs |-> IF status[r] = "client" THEN "client" ELSE "device"]

\* Steps between which owners see no difference.
LEMMA Unseen ==
  ASSUME \A r \in Reqs : status'[r] = "client" <=> status[r] = "client",
         UNCHANGED <<cmd, err, abortAsked, online, opened>>
  PROVE  ContractStep
  <1>1. Owner' = Owner
      BY DEF Owner
  <1> QED
      BY <1>1 DEF ContractStep, Contract!vars, Owner

\* An answer, or several, with an error that the contract permits.
LEMMA AnswerPermitted ==
  ASSUME RequestTypes, NEW R \in SUBSET Reqs, NEW e \in Answers, Reply(R, e),
         UNCHANGED <<online, opened>>,
         \A r \in R : status[r] # "client" /\ Contract!Permitted(r, e)
  PROVE  ContractStep
  <1>1. CASE R = {}
    <2>1. status' = status
        BY <1>1 DEF RequestTypes, Reply
    <2>2. err' = err /\ cmd' = cmd
        BY <1>1 DEF RequestTypes, Reply
    <2>3. abortAsked' = abortAsked
      <3>1. abortAsked' = [r \in Reqs |-> abortAsked[r] /\ r \notin R]
          BY DEF Reply
      <3>2. \A r \in Reqs : abortAsked[r] \in BOOLEAN /\ ((abortAsked[r] /\ r \notin R) <=> abortAsked[r])
          BY <1>1 DEF RequestTypes
      <3> QED
          BY <3>1, <3>2 DEF RequestTypes
    <2> QED
        BY <2>1, <2>2, <2>3, Unseen
  <1>2. CASE R # {}
    <2>1. \A r \in R : Owner[r] = "device"
        BY DEF Owner
    <2>2. Owner' = [r \in Reqs |-> IF r \in R THEN "client" ELSE Owner[r]]
        BY DEF Owner, Reply
    <2>3. err' \in [Reqs -> Answers \cup {"none"}]
        BY DEF RequestTypes, Reply
    <2>4. \A r \in Reqs : IF r \in R THEN err'[r] \in Answers /\ Contract!Permitted(r, err'[r])
                          ELSE err'[r] = err[r]
        BY DEF Reply
    <2>5. /\ cmd' = [r \in Reqs |-> IF r \in R THEN "none" ELSE cmd[r]]
          /\ abortAsked' = [r \in Reqs |-> abortAsked[r] /\ r \notin R]
        BY DEF Reply
    <2>6. Contract!Answer
        BY <1>2, <2>1, <2>2, <2>3, <2>4, <2>5 DEF Contract!Answer, Contract!Answers, Answers, Owner
    <2> QED
        BY <2>6 DEF ContractStep, Contract!Next
  <1> QED
      BY <1>1, <1>2

-----------------------------------------------------------------------------
(* Openers.                                                                 *)

LEMMA BeginIOKeeps ==
  ASSUME IInv, NEW r \in Reqs, NEW c \in Cmds, NEW t \in EtherTypes,
         NEW events \in SUBSET Events, BeginIO(r, c, t, events)
  PROVE  IInv' /\ ContractStep
  <1>1. /\ opened /\ status[r] = "client" /\ abort[r] = "no"
        /\ status' = [status EXCEPT ![r] = "begin"] /\ cmd' = [cmd EXCEPT ![r] = c]
        /\ err' = [err EXCEPT ![r] = "none"] /\ abortAsked' = [abortAsked EXCEPT ![r] = FALSE]
        /\ abort' = abort
      BY DEF BeginIO
  <1>2. /\ reads' = reads /\ event_list' = event_list /\ port' = port
        /\ online' = online /\ opened' = opened /\ task_shutdown' = task_shutdown
        /\ loop' = loop /\ cur' = cur /\ frame' = frame /\ batch' = batch
      BY DEF BeginIO, listVars, taskVars
  <1>3. /\ status'[r] = "begin" /\ cmd'[r] = c
        /\ \A q \in Reqs \ {r} : /\ status'[q] = status[q] /\ cmd'[q] = cmd[q]
                                 /\ ptype'[q] = ptype[q] /\ abortAsked'[q] = abortAsked[q]
      BY <1>1 DEF IInv, RequestTypes, BeginIO
  <1>4. RequestTypes'
    <2>1. /\ ptype' \in [Reqs -> EtherTypes \cup {"none"}]
          /\ want' \in [Reqs -> SUBSET Events] /\ wire' \in [Reqs -> SUBSET Events]
        BY DEF IInv, RequestTypes, BeginIO
    <2>2. \A q \in Reqs : err'[q] = "none" <=> status'[q] # "client"
        BY <1>1 DEF IInv, RequestTypes
    <2> QED
        BY <1>1, <2>1, <2>2 DEF IInv, RequestTypes
  <1>5. ~Linked(r) /\ cur # r
      BY <1>1 DEF IInv, PlaceInv
  <1>6. \A q \in Reqs : Linked(q)' <=> Linked(q)
      BY <1>2 DEF Linked
  <1>7. PlaceInv'
      BY <1>2, <1>3, <1>5, <1>6 DEF IInv, PlaceInv, Linked
  <1>8. ListInv' /\ TaskInv'
      BY <1>2 DEF IInv, ListInv, TaskInv
  <1>9. HoldingInv'
    <2>1. loop \in Holding => cur \in Reqs \ {r}
        BY <1>5 DEF IInv, TaskInv
    <2> QED
        BY <1>2, <1>3, <2>1 DEF IInv, HoldingInv, Holding
  <1>10. AbortInv'
      BY <1>1, <1>3 DEF IInv, AbortInv
  <1>11. ContractStep
    <2>1. Owner[r] = "client" /\ Owner' = [Owner EXCEPT ![r] = "device"]
        BY <1>1 DEF Owner, IInv, RequestTypes
    <2>2. Contract!Give(r, c)
        BY <1>1, <1>2, <2>1 DEF Contract!Give, Owner
    <2> QED
        BY <2>2 DEF ContractStep, Contract!Next
  <1> QED
      BY <1>4, <1>7, <1>8, <1>9, <1>10, <1>11 DEF IInv

\* A request that its opener still has, answered there.
LEMMA AnsweredInCall ==
  ASSUME IInv, NEW r \in Reqs, status[r] \in {"begin", "go"}, NEW e \in Answers,
         Reply({r}, e), Contract!Permitted(r, e), UNCHANGED <<abort, listVars, taskVars>>
  PROVE  IInv' /\ ContractStep
  <1>1. /\ online' = online /\ opened' = opened /\ task_shutdown' = task_shutdown
        /\ loop' = loop /\ cur' = cur /\ frame' = frame /\ batch' = batch
        /\ abort' = abort
      BY DEF taskVars
  <1>2. cur # r
      BY DEF IInv, PlaceInv
  <1>3. Purged({r})
      BY NothingPurged
  <1>4. RequestTypes' /\ ListInv' /\ PlaceInv' /\ AbortInv'
      BY <1>1, <1>2, <1>3, AnswerKeeps DEF IInv, RequestTypes
  <1>5. TaskInv'
      BY <1>1 DEF IInv, TaskInv
  <1>6. HoldingInv'
    <2>1. loop \in Holding => cur \in Reqs \ {r}
        BY <1>2 DEF IInv, TaskInv
    <2>2. \A q \in Reqs \ {r} : cmd'[q] = cmd[q]
        BY Replied DEF IInv
    <2> QED
        BY <1>1, <2>1, <2>2 DEF IInv, HoldingInv, Holding
  <1>7. ContractStep
      BY <1>1, AnswerPermitted DEF IInv
  <1> QED
      BY <1>4, <1>5, <1>6, <1>7 DEF IInv

LEMMA CheckKeeps ==
  ASSUME IInv, NEW r \in Reqs, Check(r)
  PROVE  IInv' /\ ContractStep
  <1>1. CASE Refused(r) /\ Reply({r}, RefusalOf(cmd[r]))
    <2>1. status[r] = "begin" /\ UNCHANGED <<abort, listVars, taskVars>>
        BY DEF Check
    <2>2. RefusalOf(cmd[r]) \in Answers /\ Contract!Permitted(r, RefusalOf(cmd[r]))
        BY <1>1 DEF Refused, RefusalOf, Answers, Contract!Permitted, Contract!Readers
    <2> QED
        BY <1>1, <2>1, <2>2, AnsweredInCall
  <1>2. CASE /\ ~Refused(r) /\ status' = [status EXCEPT ![r] = "go"]
             /\ UNCHANGED <<cmd, ptype, want, wire, err, abortAsked>>
    <2>1. /\ cmd' = cmd /\ ptype' = ptype /\ want' = want /\ wire' = wire /\ err' = err
          /\ abortAsked' = abortAsked /\ abort' = abort
          /\ reads' = reads /\ event_list' = event_list /\ port' = port
          /\ online' = online /\ opened' = opened /\ task_shutdown' = task_shutdown
          /\ loop' = loop /\ cur' = cur /\ frame' = frame /\ batch' = batch
        BY <1>2 DEF Check, listVars, taskVars
    <2>2. /\ status[r] = "begin" /\ status'[r] = "go"
          /\ \A q \in Reqs \ {r} : status'[q] = status[q]
        BY <1>2 DEF Check, IInv, RequestTypes
    <2>3. RequestTypes'
        BY <1>2, <2>1, <2>2 DEF IInv, RequestTypes
    <2>4. PlaceInv'
        BY <2>1, <2>2 DEF IInv, PlaceInv, Linked
    <2>5. ListInv' /\ TaskInv' /\ HoldingInv'
        BY <2>1 DEF IInv, ListInv, TaskInv, HoldingInv
    <2>6. AbortInv'
        BY <2>1, <2>2 DEF IInv, AbortInv
    <2>7. ContractStep
        BY <2>1, <2>2, Unseen
    <2> QED
        BY <2>3, <2>4, <2>5, <2>6, <2>7 DEF IInv
  <1> QED
      BY <1>1, <1>2 DEF Check

LEMMA AnswerNowKeeps ==
  ASSUME IInv, NEW r \in Reqs, AnswerNow(r)
  PROVE  IInv' /\ ContractStep
  <1>1. status[r] = "go" /\ UNCHANGED <<abort, listVars, taskVars>>
      BY DEF AnswerNow
  <1>2. \E e \in Answers : Reply({r}, e) /\ Contract!Permitted(r, e)
      BY DEF AnswerNow, Answers, Contract!Permitted, Contract!Readers
  <1> QED
      BY <1>1, <1>2, AnsweredInCall

\* AddTail or PutMsg: from the call into the list of its command and type.
LEMMA QueueKeeps ==
  ASSUME IInv, NEW r \in Reqs, Queue(r)
  PROVE  IInv' /\ ContractStep
  <1>1. /\ status[r] = "go" /\ status' = [status EXCEPT ![r] = "queued"]
        /\ cmd' = cmd /\ ptype' = ptype /\ want' = want /\ wire' = wire /\ err' = err
        /\ abort' = abort /\ abortAsked' = abortAsked
        /\ online' = online /\ opened' = opened /\ task_shutdown' = task_shutdown
        /\ loop' = loop /\ cur' = cur /\ frame' = frame /\ batch' = batch
      BY DEF Queue, taskVars
  <1>2. status'[r] = "queued" /\ \A q \in Reqs \ {r} : status'[q] = status[q]
      BY <1>1 DEF IInv, RequestTypes
  <1>3. RequestTypes'
      BY <1>1, <1>2 DEF IInv, RequestTypes
  <1>4. ~Linked(r) /\ cur # r
      BY <1>1 DEF IInv, PlaceInv
  <1>5. TaskInv' /\ HoldingInv' /\ AbortInv'
      BY <1>1, <1>2 DEF IInv, TaskInv, HoldingInv, AbortInv
  <1>6. ContractStep
      BY <1>1, <1>2, Unseen
  <1>7. CASE /\ cmd[r] = "read" /\ UNCHANGED <<event_list, port>>
             /\ reads' = [reads EXCEPT ![ListOf(ptype[r])] = Append(@, r)]
    <2> DEFINE k == ListOf(ptype[r])
    <2>1. k \in Lists
        BY DEF ListOf, Lists
    <2> HIDE DEF k
    <2>2. /\ reads[k] \in Seq(Reqs) /\ Distinct(reads[k]) /\ r \notin In(reads[k])
        BY <1>4, <2>1 DEF IInv, ListInv, Linked
    <2>3. /\ Append(reads[k], r) \in Seq(Reqs) /\ Distinct(Append(reads[k], r))
          /\ In(Append(reads[k], r)) = In(reads[k]) \cup {r}
        BY <2>2, Appended
    <2>4. /\ reads' \in [Lists -> Seq(Reqs)] /\ reads'[k] = Append(reads[k], r)
          /\ \A l \in Lists \ {k} : reads'[l] = reads[l]
        BY <1>7, <2>1, <2>3 DEF IInv, ListInv, k
    <2>5. ListInv'
        BY <1>7, <2>3, <2>4 DEF IInv, ListInv
    <2>6. \A q \in Reqs : Linked(q)' <=> Linked(q) \/ q = r
        BY <1>7, <2>1, <2>3, <2>4 DEF Linked
    <2>7. \A q \in Reqs, l \in Lists :
            q \in In(reads'[l]) <=> q \in In(reads[l]) \/ (q = r /\ l = k)
        BY <2>1, <2>3, <2>4
    <2>8. PlaceInv'
        BY <1>1, <1>2, <1>4, <1>7, <2>6, <2>7 DEF IInv, PlaceInv, k
    <2> QED
        BY <1>3, <1>5, <1>6, <2>5, <2>8 DEF IInv
  <1>8. CASE /\ cmd[r] \in {"orphan", "onevent"} /\ UNCHANGED <<reads, port>>
             /\ event_list' = Append(event_list, r)
    <2>1. r \notin In(event_list)
        BY <1>4 DEF Linked
    <2>2. /\ event_list' \in Seq(Reqs) /\ Distinct(event_list')
          /\ In(event_list') = In(event_list) \cup {r}
        BY <1>8, <2>1, Appended DEF IInv, ListInv
    <2>3. ListInv'
        BY <1>8, <2>2 DEF IInv, ListInv
    <2>4. \A q \in Reqs : Linked(q)' <=> Linked(q) \/ q = r
        BY <1>8, <2>2 DEF Linked
    <2>5. PlaceInv'
        BY <1>1, <1>2, <1>4, <1>8, <2>2, <2>4 DEF IInv, PlaceInv
    <2> QED
        BY <1>3, <1>5, <1>6, <2>3, <2>5 DEF IInv
  <1>9. CASE /\ cmd[r] \in Ported /\ UNCHANGED <<reads, event_list>>
             /\ port' = Append(port, r)
    <2>1. r \notin In(port)
        BY <1>4 DEF Linked
    <2>2. /\ port' \in Seq(Reqs) /\ Distinct(port')
          /\ In(port') = In(port) \cup {r}
        BY <1>9, <2>1, Appended DEF IInv, ListInv
    <2>3. ListInv'
        BY <1>9, <2>2 DEF IInv, ListInv
    <2>4. \A q \in Reqs : Linked(q)' <=> Linked(q) \/ q = r
        BY <1>9, <2>2 DEF Linked
    <2>5. PlaceInv'
        BY <1>1, <1>2, <1>4, <1>9, <2>2, <2>4 DEF IInv, PlaceInv
    <2> QED
        BY <1>3, <1>5, <1>6, <2>3, <2>5 DEF IInv
  <1> QED
      BY <1>7, <1>8, <1>9 DEF Queue, ReadList

LEMMA StartAbortKeeps ==
  ASSUME IInv, NEW r \in Reqs, StartAbort(r)
  PROVE  IInv' /\ ContractStep
  <1>1. /\ status[r] \in {"queued", "taken"}
        /\ abort' = [abort EXCEPT ![r] = "reads"]
        /\ abortAsked' = [abortAsked EXCEPT ![r] = TRUE]
        /\ status' = status /\ cmd' = cmd /\ ptype' = ptype /\ want' = want
        /\ wire' = wire /\ err' = err
        /\ reads' = reads /\ event_list' = event_list /\ port' = port
        /\ online' = online /\ opened' = opened /\ task_shutdown' = task_shutdown
        /\ loop' = loop /\ cur' = cur /\ frame' = frame /\ batch' = batch
      BY DEF StartAbort, listVars, taskVars
  <1>2. RequestTypes'
      BY <1>1 DEF IInv, RequestTypes
  <1>3. ListInv' /\ TaskInv' /\ HoldingInv'
      BY <1>1 DEF IInv, ListInv, TaskInv, HoldingInv
  <1>4. PlaceInv'
      BY <1>1 DEF IInv, PlaceInv, Linked
  <1>5. AbortInv'
      BY <1>1 DEF IInv, RequestTypes, AbortInv
  <1>6. ContractStep
    <2>1. Owner[r] = "device" /\ Owner' = Owner
        BY <1>1 DEF Owner
    <2>2. Contract!AskAbort(r)
        BY <1>1, <2>1 DEF Contract!AskAbort, Owner
    <2> QED
        BY <2>2 DEF ContractStep, Contract!Next
  <1> QED
      BY <1>2, <1>3, <1>4, <1>5, <1>6 DEF IInv

\* One of AbortIO's three searches.
LEMMA AbortStepKeeps ==
  ASSUME IInv, NEW r \in Reqs, NEW place \in {"reads", "events", "port"},
         NEW next \in {"no", "events", "port"}, AbortStep(r, place, next)
  PROVE  IInv' /\ ContractStep
  <1>1. /\ abort[r] = place
        /\ online' = online /\ opened' = opened /\ task_shutdown' = task_shutdown
        /\ loop' = loop /\ cur' = cur /\ frame' = frame /\ batch' = batch
      BY DEF AbortStep, taskVars
  <1>2. CASE Found(r, place)
    <2>1. /\ Reply({r}, "aborted") /\ abort' = [abort EXCEPT ![r] = "no"]
          /\ reads' = IF place = "reads" THEN [l \in Lists |-> Without(reads[l], {r})]
                      ELSE reads
          /\ event_list' = IF place = "events" THEN Without(event_list, {r}) ELSE event_list
          /\ port' = IF place = "port" THEN Without(port, {r}) ELSE port
        BY <1>2 DEF AbortStep
    <2>2. /\ place = "reads" => \E l \in Lists : r \in In(reads[l])
          /\ place = "events" => r \in In(event_list)
          /\ place = "port" => r \in In(port)
        BY <1>2 DEF Found
    <2>3. Linked(r) /\ status[r] = "queued"
      <3>1. Linked(r)
          BY <2>2 DEF Linked
      <3> QED
          BY <3>1 DEF IInv, PlaceInv
    <2>4. cur # r
        BY <2>3 DEF IInv, PlaceInv
    <2>5. /\ place # "reads" => \A l \in Lists : r \notin In(reads[l])
          /\ place # "events" => r \notin In(event_list)
          /\ place # "port" => r \notin In(port)
        BY <2>2 DEF IInv, PlaceInv, Ported
    <2>6. Purged({r})
      <3>1. /\ reads' \in [Lists -> Seq(Reqs)]
            /\ \A l \in Lists : Distinct(reads'[l]) /\ In(reads'[l]) = In(reads[l]) \ {r}
        <4>1. CASE place = "reads"
          <5>1. \A l \in Lists : /\ Without(reads[l], {r}) \in Seq(Reqs)
                                 /\ Distinct(Without(reads[l], {r}))
                                 /\ In(Without(reads[l], {r})) = In(reads[l]) \ {r}
              BY WithoutRemoves DEF IInv, ListInv
          <5> QED
              BY <2>1, <4>1, <5>1
        <4>2. CASE place # "reads"
            BY <2>1, <2>5, <4>2 DEF IInv, ListInv
        <4> QED
            BY <4>1, <4>2
      <3>2. /\ event_list' \in Seq(Reqs) /\ Distinct(event_list')
            /\ In(event_list') = In(event_list) \ {r}
        <4>1. CASE place = "events"
            BY <2>1, <4>1, WithoutRemoves DEF IInv, ListInv
        <4>2. CASE place # "events"
            BY <2>1, <2>5, <4>2 DEF IInv, ListInv
        <4> QED
            BY <4>1, <4>2
      <3>3. /\ port' \in Seq(Reqs) /\ Distinct(port') /\ In(port') = In(port) \ {r}
        <4>1. CASE place = "port"
            BY <2>1, <4>1, WithoutRemoves DEF IInv, ListInv
        <4>2. CASE place # "port"
            BY <2>1, <2>5, <4>2 DEF IInv, ListInv
        <4> QED
            BY <4>1, <4>2
      <3> QED
          BY <3>1, <3>2, <3>3 DEF Purged
    <2>7. /\ abort' \in [Reqs -> {"no", "reads", "events", "port"}]
          /\ \A q \in Reqs : abort'[q] # "no" => abort[q] # "no"
        BY <2>1 DEF IInv, RequestTypes
    <2>8. "aborted" \in Answers
        BY DEF Answers
    <2>9. RequestTypes' /\ ListInv' /\ PlaceInv' /\ AbortInv'
        BY <1>1, <2>1, <2>4, <2>6, <2>7, <2>8, AnswerKeeps
    <2>10. TaskInv'
        BY <1>1 DEF IInv, TaskInv
    <2>11. HoldingInv'
      <3>1. loop \in Holding => cur \in Reqs \ {r}
          BY <2>4 DEF IInv, TaskInv
      <3>2. \A q \in Reqs \ {r} : cmd'[q] = cmd[q]
          BY <2>1, <2>8, Replied DEF IInv
      <3> QED
          BY <1>1, <3>1, <3>2 DEF IInv, HoldingInv, Holding
    <2>12. Contract!Permitted(r, "aborted")
        BY <1>1, <2>3 DEF IInv, AbortInv, Contract!Permitted
    <2>13. ContractStep
        BY <1>1, <2>1, <2>3, <2>8, <2>12, AnswerPermitted DEF IInv
    <2> QED
        BY <2>9, <2>10, <2>11, <2>13 DEF IInv
  <1>3. CASE ~Found(r, place)
    <2>1. /\ abort' = [abort EXCEPT ![r] = next]
          /\ status' = status /\ cmd' = cmd /\ ptype' = ptype /\ want' = want
          /\ wire' = wire /\ err' = err /\ abortAsked' = abortAsked
          /\ reads' = reads /\ event_list' = event_list /\ port' = port
        BY <1>3 DEF AbortStep, useVars, listVars
    <2>2. RequestTypes'
        BY <2>1 DEF IInv, RequestTypes
    <2>3. ListInv' /\ TaskInv' /\ HoldingInv'
        BY <1>1, <2>1 DEF IInv, ListInv, TaskInv, HoldingInv
    <2>4. PlaceInv'
        BY <1>1, <2>1 DEF IInv, PlaceInv, Linked
    <2>5. AbortInv'
        BY <1>1, <2>1 DEF IInv, RequestTypes, AbortInv
    <2>6. ContractStep
        BY <1>1, <2>1, Unseen
    <2> QED
        BY <2>2, <2>3, <2>4, <2>5, <2>6 DEF IInv
  <1> QED
      BY <1>2, <1>3

LEMMA OpenCloseKeeps ==
  ASSUME IInv, Open \/ Close
  PROVE  IInv' /\ ContractStep
  <1>1. /\ status' = status /\ cmd' = cmd /\ ptype' = ptype /\ want' = want
        /\ wire' = wire /\ err' = err /\ abortAsked' = abortAsked /\ abort' = abort
        /\ reads' = reads /\ event_list' = event_list /\ port' = port
        /\ online' = online /\ cur' = cur /\ frame' = frame /\ batch' = batch
      BY DEF Open, Close, reqVars, useVars, listVars
  <1>2. RequestTypes' /\ ListInv' /\ AbortInv'
      BY <1>1 DEF IInv, RequestTypes, ListInv, AbortInv
  <1>3. PlaceInv'
      BY <1>1 DEF IInv, PlaceInv, Linked
  <1>4. TaskInv'
      BY <1>1 DEF IInv, TaskInv, Open, Close, Holding, Ending
  <1>5. HoldingInv'
      BY <1>1 DEF IInv, HoldingInv, Open, Close
  <1>6. Contract!Open \/ Contract!Close
    <2>1. Owner' = Owner
        BY <1>1 DEF Owner
    <2> QED
        BY <1>1, <2>1 DEF Open, Close, Contract!Open, Contract!Close, Owner
  <1> QED
      BY <1>2, <1>3, <1>4, <1>5, <1>6 DEF IInv, ContractStep, Contract!Next

-----------------------------------------------------------------------------
(* The unit task.                                                           *)

\* Turns of the loop that touch no request.
LEMMA TurnKeeps ==
  ASSUME IInv, Wake \/ EndDrain \/ EndRx \/ (\E t \in EtherTypes : DropFrame(t))
  PROVE  IInv' /\ ContractStep
  <1>1. /\ status' = status /\ cmd' = cmd /\ ptype' = ptype /\ want' = want
        /\ wire' = wire /\ err' = err /\ abortAsked' = abortAsked /\ abort' = abort
        /\ reads' = reads /\ event_list' = event_list /\ port' = port
        /\ online' = online /\ opened' = opened /\ task_shutdown' = task_shutdown
        /\ cur' = cur /\ frame' = frame
      BY DEF Wake, EndDrain, EndRx, DropFrame, reqVars, useVars, listVars
  <1>2. RequestTypes' /\ ListInv' /\ AbortInv'
      BY <1>1 DEF IInv, RequestTypes, ListInv, AbortInv
  <1>3. PlaceInv'
      BY <1>1 DEF IInv, PlaceInv, Linked
  <1>4. batch' \in 0 .. MaxBatch
      BY RequestsAssumption DEF IInv, TaskInv, Wake, EndDrain, EndRx, DropFrame, RequestsAssumption
  <1>5. /\ loop \in {"wait", "drain", "rx"}
        /\ loop' \in {"wait", "drain", "rx", "exit"} /\ (loop' = "exit" => task_shutdown)
      BY DEF Wake, EndDrain, EndRx, DropFrame, NextTurn
  <1>6. TaskInv' /\ HoldingInv'
      BY <1>1, <1>4, <1>5 DEF IInv, TaskInv, HoldingInv, Holding, Ending
  <1>7. ContractStep
      BY <1>1, Unseen
  <1> QED
      BY <1>2, <1>3, <1>6, <1>7 DEF IInv

\* The unit task answers requests of the lists, or the one in its hands.
LEMMA TaskAnswers ==
  ASSUME IInv, NEW R \in SUBSET Reqs, NEW e \in Answers, Reply(R, e), Purged(R),
         abort' = abort, cur' = IF cur \in R THEN NoReq ELSE cur,
         UNCHANGED <<online, opened>>,
         \A r \in R : status[r] # "client" /\ Contract!Permitted(r, e),
         TaskInv', loop' \notin {"flush", "offline_flush", "deliver"}
  PROVE  IInv' /\ ContractStep
  <1>1. RequestTypes' /\ ListInv' /\ PlaceInv' /\ AbortInv'
    <2>1. /\ abort' \in [Reqs -> {"no", "reads", "events", "port"}]
          /\ \A r \in Reqs : abort'[r] # "no" => abort[r] # "no"
        BY DEF IInv, RequestTypes
    <2> QED
        BY <2>1, AnswerKeeps
  <1>2. HoldingInv'
      BY DEF HoldingInv
  <1>3. ContractStep
      BY AnswerPermitted DEF IInv
  <1> QED
      BY <1>1, <1>2, <1>3 DEF IInv

\* The command in hand is answered, or the read that got a frame.
LEMMA ReplyKeeps ==
  ASSUME IInv, ReplyCommand \/ Deliver
  PROVE  IInv' /\ ContractStep
  <1>1. /\ cur' = NoReq /\ online' = online /\ opened' = opened
        /\ task_shutdown' = task_shutdown /\ abort' = abort /\ UNCHANGED listVars
        /\ loop \in Holding /\ loop' \in {"drain", "rx"} /\ batch' = batch
        /\ frame' \in {frame, "none"}
      BY DEF ReplyCommand, Deliver, Holding
  <1>2. cur \in Reqs /\ status[cur] = "taken"
      BY <1>1 DEF IInv, TaskInv, PlaceInv
  <1>3. \E e \in Answers : Reply({cur}, e) /\ Contract!Permitted(cur, e)
    <2>1. CASE ReplyCommand
        BY <2>1 DEF ReplyCommand, Answers, Contract!Permitted
    <2>2. CASE Deliver
      <3>1. cmd[cur] \in {"read", "orphan"}
          BY <2>2 DEF Deliver, IInv, HoldingInv
      <3> QED
          BY <2>2, <3>1 DEF Deliver, Answers, Contract!Permitted, Contract!Readers
    <2> QED
        BY <2>1, <2>2
  <1>4. PICK e \in Answers : Reply({cur}, e) /\ Contract!Permitted(cur, e)
      BY <1>3
  <1>5. Purged({cur})
      BY <1>1, <1>2, NothingPurged
  <1>6. TaskInv'
      BY <1>1 DEF IInv, TaskInv, Holding, Ending
  <1> QED
      BY <1>1, <1>2, <1>4, <1>5, <1>6, TaskAnswers

LEMMA SignalKeeps ==
  ASSUME IInv, SignalOnline \/ SignalOffline
  PROVE  IInv' /\ ContractStep
  <1>1. /\ cur' = cur /\ online' = online /\ opened' = opened /\ loop' = "reply"
        /\ task_shutdown' = task_shutdown /\ frame' = frame /\ batch' = batch
        /\ loop \in Holding
      BY DEF SignalOnline, SignalOffline, Holding
  <1>2. \E e : SignalEvent(e)
      BY DEF SignalOnline, SignalOffline
  <1>3. PICK R \in SUBSET Reqs :
           /\ Reply(R, "ok") /\ Purged(R) /\ cur \notin R /\ abort' = abort
           /\ \A r \in R : status[r] = "queued"
      BY <1>2, SignalPurges
  <1>4. TaskInv'
      BY <1>1 DEF IInv, TaskInv, Holding, Ending
  <1>5. "ok" \in Answers /\ \A r \in R : Contract!Permitted(r, "ok")
      BY DEF Answers, Contract!Permitted
  <1> QED
      BY <1>1, <1>3, <1>4, <1>5, TaskAnswers

\* The flush of an S2_OFFLINE, of a CMD_FLUSH, and of the end of the task.
LEMMA FlushKeeps ==
  ASSUME IInv, OfflineFlush \/ Flush \/ ExitFlushReads
  PROVE  IInv' /\ ContractStep
  <1> DEFINE e == IF loop = "offline_flush" THEN "outofservice" ELSE "aborted"
  <1>1. /\ cur' = cur /\ online' = online /\ opened' = opened
        /\ task_shutdown' = task_shutdown /\ frame' = frame /\ batch' = batch
        /\ FlushReadQueue(e)
        /\ \/ loop = "offline_flush" /\ loop' = "signal_offline"
           \/ loop = "flush" /\ loop' = "reply"
           \/ loop = "exit_reads" /\ loop' = "exit_events"
      BY DEF OfflineFlush, Flush, ExitFlushReads
  <1>2. e \in Answers
      BY DEF Answers
  <1> HIDE DEF e
  <1>3. PICK R \in SUBSET Reqs :
           /\ Reply(R, e) /\ Purged(R) /\ cur \notin R /\ abort' = abort
           /\ \A r \in R : status[r] = "queued" /\ cmd[r] \in {"read", "orphan"}
      BY <1>1, FlushPurges
  <1>4. TaskInv'
      BY <1>1 DEF IInv, TaskInv, Holding, Ending
  <1>5. \A r \in R : Contract!Permitted(r, e)
    <2>1. CASE loop = "offline_flush"
      <3>1. cur \in Reqs /\ cmd[cur] = "offline"
          BY <2>1 DEF IInv, TaskInv, HoldingInv, Holding
      <3> QED
          BY <1>3, <2>1, <3>1 DEF e, Contract!Permitted, Contract!Pending, Contract!Readers
    <2>2. CASE loop = "flush"
      <3>1. cur \in Reqs /\ cmd[cur] = "flush"
          BY <2>2 DEF IInv, TaskInv, HoldingInv, Holding
      <3> QED
          BY <1>3, <2>2, <3>1 DEF e, Contract!Permitted, Contract!Pending, Contract!Readers
    <2>3. CASE loop = "exit_reads"
      <3>1. ~opened
          BY <2>3 DEF IInv, TaskInv, Ending
      <3> QED
          BY <2>3, <3>1 DEF e, Contract!Permitted
    <2> QED
        BY <1>1, <2>1, <2>2, <2>3
  <1> QED
      BY <1>1, <1>2, <1>3, <1>4, <1>5, TaskAnswers

\* A command leaves the port for the unit task's hands.
LEMMA GetMsgKeeps ==
  ASSUME IInv, GetMsg
  PROVE  IInv' /\ ContractStep
  <1>0. PICK r : r = Head(port)
      OBVIOUS
  <1>1. /\ loop = "drain" /\ port # <<>> /\ cur' = r /\ port' = Tail(port)
        /\ status' = [status EXCEPT ![r] = "taken"]
        /\ cmd' = cmd /\ ptype' = ptype /\ want' = want /\ wire' = wire /\ err' = err
        /\ abort' = abort /\ abortAsked' = abortAsked
        /\ reads' = reads /\ event_list' = event_list
        /\ opened' = opened /\ task_shutdown' = task_shutdown
        /\ frame' = frame /\ batch' = batch
      BY <1>0 DEF GetMsg
  <1>2. \/ cmd[r] \in {"config", "online"} /\ ~online /\ online' = TRUE /\ loop' = "signal_online"
        \/ cmd[r] \in {"config", "online"} /\ online /\ loop' = "reply" /\ online' = online
        \/ cmd[r] = "offline" /\ online' = FALSE /\ loop' = "offline_flush"
        \/ cmd[r] = "flush" /\ loop' = "flush" /\ online' = online
      BY <1>0 DEF GetMsg
  <1>3. /\ r \in In(port) /\ port' \in Seq(Reqs) /\ Distinct(port')
        /\ In(port') = In(port) \ {r}
      BY <1>0, <1>1, Removed DEF IInv, ListInv
  <1>4. r \in Reqs /\ Linked(r) /\ status[r] = "queued"
    <2>1. r \in Reqs /\ Linked(r)
        BY <1>3, Elements DEF IInv, ListInv, Linked
    <2> QED
        BY <2>1 DEF IInv, PlaceInv
  <1>5. /\ status'[r] = "taken" /\ \A q \in Reqs \ {r} : status'[q] = status[q]
        /\ cur = NoReq /\ r # NoReq
      BY <1>1, <1>4, RequestsAssumption DEF IInv, RequestTypes, TaskInv, Holding, RequestsAssumption
  <1>6. RequestTypes'
      BY <1>1, <1>4, <1>5 DEF IInv, RequestTypes
  <1>7. ListInv'
      BY <1>1, <1>3 DEF IInv, ListInv
  <1>8. PlaceInv'
    <2>1. \A l \in Lists : r \notin In(reads[l])
        BY <1>3, <1>4 DEF IInv, PlaceInv, Ported
    <2>2. r \notin In(event_list)
        BY <1>3, <1>4 DEF IInv, PlaceInv, Ported
    <2>3. ~Linked(r)' /\ \A q \in Reqs \ {r} : Linked(q)' <=> Linked(q)
        BY <1>1, <1>3, <2>1, <2>2 DEF Linked
    <2>4. \A q \in Reqs \ {r} : status[q] # "taken"
        BY <1>5, RequestsAssumption DEF IInv, PlaceInv, RequestsAssumption
    <2> QED
        BY <1>1, <1>3, <1>5, <2>3, <2>4 DEF IInv, PlaceInv
  <1>9. TaskInv'
      BY <1>1, <1>2, <1>4, <1>5 DEF IInv, TaskInv, Holding, Ending
  <1>10. HoldingInv'
      BY <1>1, <1>2 DEF HoldingInv
  <1>11. AbortInv'
      BY <1>1, <1>4, <1>5 DEF IInv, AbortInv
  <1>12. ContractStep
    <2>1. Owner' = Owner
      <3>1. \A q \in Reqs : status'[q] = "client" <=> status[q] = "client"
          BY <1>4, <1>5
      <3> QED
          BY <3>1 DEF Owner
    <2>2. CASE online' = online
        BY <1>1, <2>1, <2>2 DEF ContractStep, Contract!vars, Owner
    <2>3. CASE online' # online
      <3>1. Contract!GoOnline \/ Contract!GoOffline
          BY <1>1, <1>2, <1>4, <2>1, <2>3 DEF IInv, TaskInv, Contract!GoOnline,
             Contract!GoOffline, Contract!Pending, Owner
      <3> QED
          BY <3>1 DEF ContractStep, Contract!Next
    <2> QED
        BY <2>2, <2>3
  <1> QED
      BY <1>6, <1>7, <1>8, <1>9, <1>10, <1>11, <1>12 DEF IInv

\* A frame finds the first read of its list, or the first orphan.
LEMMA ReceiveFrameKeeps ==
  ASSUME IInv, NEW t \in EtherTypes, ReceiveFrame(t)
  PROVE  IInv' /\ ContractStep
  <1> DEFINE k == ListOf(t)
  <1>1. /\ loop = "rx" /\ batch < MaxBatch /\ batch' = batch + 1
        /\ status' = [status EXCEPT ![cur'] = "taken"]
        /\ cmd' = cmd /\ ptype' = ptype /\ want' = want /\ wire' = wire /\ err' = err
        /\ abort' = abort /\ abortAsked' = abortAsked /\ port' = port
        /\ online' = online /\ opened' = opened /\ task_shutdown' = task_shutdown
        /\ frame' = t /\ loop' = "deliver"
      BY DEF ReceiveFrame
  <1>2. /\ cur' \in Reqs /\ Linked(cur') /\ cmd[cur'] \in {"read", "orphan"}
        /\ Purged({cur'})
    <2>1. CASE /\ reads[k] # <<>> /\ cur' = Head(reads[k])
               /\ reads' = [reads EXCEPT ![k] = Tail(@)] /\ event_list' = event_list
      <3> DEFINE r == Head(reads[k])
      <3>1. k \in Lists
          BY DEF ListOf, Lists
      <3> HIDE DEF k
      <3>2. /\ r \in In(reads[k]) /\ Tail(reads[k]) \in Seq(Reqs) /\ Distinct(Tail(reads[k]))
            /\ In(Tail(reads[k])) = In(reads[k]) \ {r}
          BY <2>1, <3>1, Removed DEF IInv, ListInv
      <3> HIDE DEF r
      <3>3. r \in Reqs /\ Linked(r) /\ cmd[r] = "read" /\ ListOf(ptype[r]) = k
        <4>1. r \in Reqs
            BY <3>1, <3>2, Elements DEF IInv, ListInv
        <4> QED
            BY <3>1, <3>2, <4>1 DEF IInv, PlaceInv, Linked
      <3>4. /\ \A l \in Lists \ {k} : r \notin In(reads[l])
            /\ r \notin In(event_list) /\ r \notin In(port)
          BY <3>3 DEF IInv, PlaceInv, Ported
      <3>5. /\ reads' \in [Lists -> Seq(Reqs)] /\ reads'[k] = Tail(reads[k])
            /\ \A l \in Lists \ {k} : reads'[l] = reads[l]
          BY <2>1, <3>1, <3>2 DEF IInv, ListInv
      <3>6. Purged({r})
          BY <1>1, <2>1, <3>2, <3>4, <3>5 DEF Purged, IInv, ListInv
      <3> QED
          BY <2>1, <3>3, <3>6 DEF r
    <2>2. CASE /\ \E r \in In(event_list) : cmd[r] = "orphan"
               /\ cur' = event_list[FirstOrphan]
               /\ event_list' = Without(event_list, {cur'}) /\ reads' = reads
      <3>1. cur' \in In(event_list) /\ cmd[cur'] = "orphan"
          BY <2>2, OrphanFound DEF IInv, ListInv
      <3>2. cur' \in Reqs /\ Linked(cur')
          BY <3>1, Elements DEF IInv, ListInv, Linked
      <3>3. (\A l \in Lists : cur' \notin In(reads[l])) /\ cur' \notin In(port)
          BY <3>1, <3>2 DEF IInv, PlaceInv, Ported
      <3>4. /\ event_list' \in Seq(Reqs) /\ Distinct(event_list')
            /\ In(event_list') = In(event_list) \ {cur'}
          BY <2>2, WithoutRemoves DEF IInv, ListInv
      <3>5. Purged({cur'})
          BY <1>1, <2>2, <3>3, <3>4 DEF Purged, IInv, ListInv
      <3> QED
          BY <3>1, <3>2, <3>5
    <2> QED
        BY <2>1, <2>2 DEF ReceiveFrame
  <1>3. PICK r \in Reqs : /\ r = cur' /\ Linked(r) /\ cmd[r] \in {"read", "orphan"}
                          /\ Purged({r})
      BY <1>2
  <1>4. status[r] = "queued" /\ cur = NoReq /\ r # NoReq
      BY <1>1, <1>3, RequestsAssumption DEF IInv, PlaceInv, TaskInv, Holding, RequestsAssumption
  <1>5. status'[r] = "taken" /\ \A q \in Reqs \ {r} : status'[q] = status[q]
      BY <1>1, <1>3 DEF IInv, RequestTypes
  <1>6. RequestTypes' /\ ListInv'
    <2>1. RequestTypes'
        BY <1>1, <1>3, <1>4, <1>5 DEF IInv, RequestTypes
    <2> QED
        BY <2>1, <1>3 DEF Purged, ListInv
  <1>7. PlaceInv'
    <2>1. ~Linked(r)' /\ \A q \in Reqs \ {r} : Linked(q)' <=> Linked(q)
        BY <1>3 DEF Purged, Linked
    <2>2. \A q \in Reqs \ {r} : status[q] # "taken"
        BY <1>4, RequestsAssumption DEF IInv, PlaceInv, RequestsAssumption
    <2>3. /\ \A q \in Reqs, l \in Lists : q \in In(reads'[l]) => q \in In(reads[l])
          /\ \A q \in Reqs : q \in In(event_list') => q \in In(event_list)
          /\ \A q \in Reqs : q \in In(port') => q \in In(port)
        BY <1>3 DEF Purged
    <2>4. \A q \in Reqs : /\ status'[q] = "queued" <=> Linked(q)'
                          /\ status'[q] = "taken" <=> cur' = q
        BY <1>3, <1>5, <2>1, <2>2 DEF IInv, PlaceInv
    <2> QED
        BY <1>1, <2>3, <2>4 DEF IInv, PlaceInv
  <1>8. TaskInv'
    <2>1. batch' \in 0 .. MaxBatch
        BY <1>1, RequestsAssumption DEF IInv, TaskInv, RequestsAssumption
    <2> QED
        BY <1>1, <1>3, <1>4, <2>1 DEF IInv, TaskInv, Holding, Ending
  <1>9. HoldingInv'
      BY <1>1, <1>3 DEF HoldingInv
  <1>10. AbortInv'
      BY <1>1, <1>4, <1>5 DEF IInv, AbortInv
  <1>11. ContractStep
      BY <1>1, <1>4, <1>5, Unseen
  <1> QED
      BY <1>6, <1>7, <1>8, <1>9, <1>10, <1>11 DEF IInv

\* A message left in the port is answered when the task ends.
LEMMA ExitDrainKeeps ==
  ASSUME IInv, ExitDrain
  PROVE  IInv' /\ ContractStep
  <1>1. /\ loop = "exit" /\ abort' = abort /\ reads' = reads /\ event_list' = event_list
        /\ online' = online /\ opened' = opened /\ task_shutdown' = task_shutdown
        /\ cur' = cur /\ frame' = frame /\ batch' = batch
      BY DEF ExitDrain
  <1>2. CASE /\ port # <<>> /\ Reply({Head(port)}, "aborted") /\ port' = Tail(port)
             /\ loop' = loop
    <2> DEFINE r == Head(port)
    <2>1. /\ r \in In(port) /\ port' \in Seq(Reqs) /\ Distinct(port')
          /\ In(port') = In(port) \ {r}
        BY <1>2, Removed DEF IInv, ListInv
    <2>2. r \in Reqs /\ Linked(r)
        BY <2>1, Elements DEF IInv, ListInv, Linked
    <2>3. Reply({r}, "aborted")
        BY <1>2
    <2> HIDE DEF r
    <2>4. status[r] = "queued" /\ cur # r /\ cmd[r] \in Ported
        BY <2>1, <2>2 DEF IInv, PlaceInv
    <2>5. (\A l \in Lists : r \notin In(reads[l])) /\ r \notin In(event_list)
        BY <2>2, <2>4 DEF IInv, PlaceInv, Ported
    <2>6. Purged({r})
        BY <1>1, <2>1, <2>5 DEF Purged, IInv, ListInv
    <2>7. TaskInv'
        BY <1>1, <1>2 DEF IInv, TaskInv
    <2>8. "aborted" \in Answers /\ Contract!Permitted(r, "aborted")
        BY <1>1 DEF IInv, TaskInv, Ending, Answers, Contract!Permitted
    <2> QED
        BY <1>1, <1>2, <2>2, <2>3, <2>4, <2>6, <2>7, <2>8, TaskAnswers
  <1>3. CASE port = <<>> /\ loop' = "exit_reads" /\ UNCHANGED <<useVars, port>>
    <2>1. /\ status' = status /\ cmd' = cmd /\ ptype' = ptype /\ want' = want
          /\ wire' = wire /\ err' = err /\ abortAsked' = abortAsked /\ port' = port
        BY <1>3 DEF useVars
    <2>2. RequestTypes' /\ ListInv' /\ AbortInv'
        BY <1>1, <2>1 DEF IInv, RequestTypes, ListInv, AbortInv
    <2>3. PlaceInv'
        BY <1>1, <2>1 DEF IInv, PlaceInv, Linked
    <2>4. TaskInv' /\ HoldingInv'
        BY <1>1, <1>3, <2>1 DEF IInv, TaskInv, HoldingInv, Holding, Ending
    <2>5. ContractStep
        BY <1>1, <2>1, Unseen
    <2> QED
        BY <2>2, <2>3, <2>4, <2>5 DEF IInv
  <1> QED
      BY <1>2, <1>3 DEF ExitDrain

LEMMA ExitFlushEventsKeeps ==
  ASSUME IInv, ExitFlushEvents
  PROVE  IInv' /\ ContractStep
  <1> DEFINE R == In(event_list)
  <1>1. /\ loop = "exit_events" /\ Reply(R, "aborted") /\ event_list' = <<>> /\ loop' = "none"
        /\ abort' = abort /\ reads' = reads /\ port' = port
        /\ online' = online /\ opened' = opened /\ task_shutdown' = task_shutdown
        /\ cur' = cur /\ frame' = frame /\ batch' = batch
      BY DEF ExitFlushEvents
  <1>2. R \subseteq Reqs /\ \A r \in R : Linked(r) /\ cmd[r] \in {"orphan", "onevent"}
      BY Elements DEF IInv, ListInv, PlaceInv, Linked
  <1>3. cur \notin R /\ \A r \in R : status[r] = "queued"
    <2>1. cur = NoReq
        BY <1>1 DEF IInv, TaskInv, Holding
    <2> QED
        BY <1>2, <2>1, RequestsAssumption DEF IInv, PlaceInv, RequestsAssumption
  <1>4. Purged(R)
    <2>1. In(port) \ R = In(port) /\ \A l \in Lists : In(reads[l]) \ R = In(reads[l])
        BY <1>2 DEF IInv, PlaceInv, Ported
    <2>2. <<>> \in Seq(Reqs) /\ In(event_list) \ R = {}
        OBVIOUS
    <2> QED
        BY <1>1, <2>1, <2>2, EmptyList DEF Purged, IInv, ListInv
  <1>5. ~opened /\ TaskInv'
      BY <1>1 DEF IInv, TaskInv, Holding, Ending
  <1>6. "aborted" \in Answers /\ \A r \in R : Contract!Permitted(r, "aborted")
      BY <1>5 DEF Answers, Contract!Permitted
  <1> HIDE DEF R
  <1> QED
      BY <1>1, <1>2, <1>3, <1>4, <1>5, <1>6, TaskAnswers

-----------------------------------------------------------------------------
(* The theorems.                                                            *)

LEMMA StepKeeps ==
  ASSUME IInv, [Next]_vars
  PROVE  IInv' /\ ContractStep
  <1>1. CASE UNCHANGED vars
    <2>1. /\ status' = status /\ cmd' = cmd /\ ptype' = ptype /\ want' = want
          /\ wire' = wire /\ err' = err /\ abortAsked' = abortAsked /\ abort' = abort
          /\ reads' = reads /\ event_list' = event_list /\ port' = port
          /\ online' = online /\ opened' = opened /\ task_shutdown' = task_shutdown
          /\ loop' = loop /\ cur' = cur /\ frame' = frame /\ batch' = batch
        BY <1>1 DEF vars, reqVars, useVars, listVars, taskVars
    <2>2. RequestTypes' /\ ListInv' /\ TaskInv' /\ HoldingInv' /\ AbortInv'
        BY <2>1 DEF IInv, RequestTypes, ListInv, TaskInv, HoldingInv, AbortInv
    <2>3. PlaceInv'
        BY <2>1 DEF IInv, PlaceInv, Linked
    <2>4. ContractStep
        BY <2>1, Unseen
    <2> QED
        BY <2>2, <2>3, <2>4 DEF IInv
  <1>2. CASE TaskStep
      BY <1>2, TurnKeeps, GetMsgKeeps, SignalKeeps, FlushKeeps, ReplyKeeps, ReceiveFrameKeeps,
         ExitDrainKeeps, ExitFlushEventsKeeps DEF TaskStep, Exit
  <1>3. ASSUME NEW r \in Reqs, OpenerStep(r) \/ StartAbort(r)
        PROVE  IInv' /\ ContractStep
    <2>1. CASE AbortIO(r)
        BY <2>1, AbortStepKeeps DEF AbortIO
    <2> QED
        BY <1>3, <2>1, CheckKeeps, QueueKeeps, AnswerNowKeeps, StartAbortKeeps DEF OpenerStep
  <1>4. ASSUME NEW r \in Reqs, NEW c \in Cmds, NEW t \in EtherTypes,
               NEW events \in SUBSET Events, BeginIO(r, c, t, events)
        PROVE  IInv' /\ ContractStep
      BY <1>4, BeginIOKeeps
  <1> QED
      BY <1>1, <1>2, <1>3, <1>4, OpenCloseKeeps DEF Next

\* IInv is inductive.
THEOREM Invariance == Spec => []IInv
  <1>1. IInv /\ [Next]_vars => IInv'
      BY StepKeeps
  <1> QED
      BY <1>1, InitInv, PTL DEF Spec

\* The types, for any number of requests.
THEOREM TypeCorrect == Spec => []TypeOK
  <1>1. IInv => TypeOK
      BY DEF IInv, RequestTypes, ListInv, TaskInv, Holding, Ending, Answers, TypeOK
  <1> QED
      BY <1>1, Invariance, PTL

\* Every request is in one place: with its owner, in the one list of its command
\* and type, or in the unit task's hands (BeginIO.c, unit_task.c, rx.c).
THEOREM EachInOnePlace == Spec => []OnePlace
  <1>1. ASSUME NEW r PROVE Linked(r) <=>
          r \in In(event_list) \cup In(port) \cup UNION {In(reads[l]) : l \in Lists}
      BY DEF Linked
  <1>2. IInv => OnePlace
      BY <1>1 DEF IInv, ListInv, PlaceInv, OnePlace
  <1> QED
      BY <1>2, Invariance, PTL

\* The device implements the contract with the owners of the requests.
THEOREM ContractImplemented == Spec => ContractKept
  <1>1. Init => Contract!Init
      BY DEF Init, Contract!Init
  <1>2. IInv /\ [Next]_vars => [Contract!Next]_(Contract!vars)
      BY StepKeeps DEF ContractStep
  <1> QED
      BY <1>1, <1>2, Invariance, PTL DEF Spec, Contract!Spec, ContractKept

=============================================================================
