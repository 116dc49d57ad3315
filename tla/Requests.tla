------------------------------ MODULE Requests ------------------------------
(****************************************************************************)
(* The requests inside the device: BeginIO and AbortIO (BeginIO.c), the     *)
(* per-type read lists and event_list, the unit task's port and command     *)
(* handling (unit_task.c), and the delivery and flushing of reads (rx.c).   *)
(*                                                                          *)
(* Openers are tasks that the unit task and each other may preempt anywhere *)
(* outside Forbid, so BeginIO is three steps and AbortIO one per Forbid.    *)
(* The rings are RxRing's matter: here a batch of ProcessRX is at most      *)
(* MaxBatch frames of arbitrary types.  Waking up is RxPath's matter: here  *)
(* the unit task may wake at any time.                                      *)
(****************************************************************************)
EXTENDS Naturals, Sequences

CONSTANTS
  Reqs,        \* the IOSana2Reqs of all openers
  NoReq,
  Cmds,        \* the commands used
  EtherTypes,  \* the packet types used
  MaxBatch     \* bound: frames in one batch of ProcessRX

AllCmds == {"read", "orphan", "onevent", "config", "online", "offline", "flush",
            "write", "query"}
AllTypes == {"ipv4", "arp", "ipx", "rarp"}

ASSUME RequestsAssumption ==
  /\ NoReq \notin Reqs
  /\ Cmds \subseteq AllCmds /\ Cmds # {}
  /\ EtherTypes \subseteq AllTypes /\ EtherTypes # {}
  /\ MaxBatch \in Nat

VARIABLES
  status,      \* "client"; "begin", "go" in BeginIO; "queued"; "taken"
  cmd, ptype,  \* io_Command and ios2_PacketType, "none" while its owner has it
  want, wire,  \* the event mask the owner put into ios2_WireError; the field
  err,         \* io_Error: "none" from BeginIO to the answer, nothing else
  abort,       \* where AbortIO of the request is, "no" when not running
  abortAsked,  \* AbortIO was called for the present use
  reads,       \* read_list_ipv4, read_list_arp, read_list_other
  event_list,  \* unit->event_list
  port,        \* unit->io_port
  online, opened, task_shutdown,
  loop,        \* where the unit task is, "none" while there is none
  cur,         \* the request it has taken out of a list or the port
  frame,       \* the type of the frame in hand
  batch        \* frames handled in this ProcessRX

useVars == <<status, cmd, ptype, want, wire, err, abortAsked>>
reqVars == <<useVars, abort>>
listVars == <<reads, event_list, port>>
taskVars == <<online, opened, task_shutdown, loop, cur, frame, batch>>
vars == <<reqVars, listVars, taskVars>>

Lists == {"ipv4", "arp", "other"}
ListOf(type) == IF type \in {"ipv4", "arp"} THEN type ELSE "other"
Events == {"ONLINE", "OFFLINE"}
Ported == {"config", "online", "offline", "flush"}

In(seq) == {seq[i] : i \in DOMAIN seq}

\* seq without the members of R, in its order.  A recursive function instead of
\* SelectSeq, whose definition the prover does not know.
Without(seq, R) ==
  LET kept[n \in 0 .. Len(seq)] ==
        IF n = 0 THEN <<>>
        ELSE IF seq[n] \in R THEN kept[n - 1] ELSE Append(kept[n - 1], seq[n])
  IN kept[Len(seq)]

Init ==
  /\ status = [r \in Reqs |-> "client"]
  /\ cmd = [r \in Reqs |-> "none"] /\ ptype = [r \in Reqs |-> "none"]
  /\ want = [r \in Reqs |-> {}] /\ wire = [r \in Reqs |-> {}]
  /\ err = [r \in Reqs |-> "ok"]
  /\ abort = [r \in Reqs |-> "no"] /\ abortAsked = [r \in Reqs |-> FALSE]
  /\ reads = [l \in Lists |-> <<>>]
  /\ event_list = <<>> /\ port = <<>>
  /\ online = FALSE /\ opened = FALSE /\ task_shutdown = FALSE
  /\ loop = "none" /\ cur = NoReq /\ frame = "none" /\ batch = 0

\* ReplyMsg of every request of R with error e: each goes back to its owner.
\* The fields that mean nothing until its next use are reset.
Reply(R, e) ==
  /\ status' = [r \in Reqs |-> IF r \in R THEN "client" ELSE status[r]]
  /\ err' = [r \in Reqs |-> IF r \in R THEN e ELSE err[r]]
  /\ cmd' = [r \in Reqs |-> IF r \in R THEN "none" ELSE cmd[r]]
  /\ ptype' = [r \in Reqs |-> IF r \in R THEN "none" ELSE ptype[r]]
  /\ want' = [r \in Reqs |-> IF r \in R THEN {} ELSE want[r]]
  /\ wire' = [r \in Reqs |-> IF r \in R THEN {} ELSE wire[r]]
  /\ abortAsked' = [r \in Reqs |-> abortAsked[r] /\ r \notin R]

-----------------------------------------------------------------------------
(* BeginIO, in the opener's context.                                        *)

\* The first lines clear io_Error and ios2_WireError for every command.
BeginIO(r, c, t, events) ==
  /\ opened /\ status[r] = "client" /\ abort[r] = "no"
  /\ events # {} => c = "onevent"
  /\ status' = [status EXCEPT ![r] = "begin"]
  /\ cmd' = [cmd EXCEPT ![r] = c]
  /\ ptype' = IF c = "read" THEN [ptype EXCEPT ![r] = t] ELSE ptype
  /\ want' = [want EXCEPT ![r] = events]
  /\ wire' = [wire EXCEPT ![r] = {}]
  /\ err' = [err EXCEPT ![r] = "none"]
  /\ abortAsked' = [abortAsked EXCEPT ![r] = FALSE]
  /\ UNCHANGED <<abort, listVars, taskVars>>

Refused(r) ==
  \/ cmd[r] \in {"read", "write", "offline"} /\ ~online
  \/ cmd[r] = "online" /\ online

RefusalOf(c) == IF c \in {"read", "write"} THEN "outofservice" ELSE "badstate"

\* unit->online is read; the unit task may change it before the next step.
Check(r) ==
  /\ status[r] = "begin"
  /\ \/ Refused(r) /\ Reply({r}, RefusalOf(cmd[r]))
     \/ /\ ~Refused(r)
        /\ status' = [status EXCEPT ![r] = "go"]
        /\ UNCHANGED <<cmd, ptype, want, wire, err, abortAsked>>
  /\ UNCHANGED <<abort, listVars, taskVars>>

\* Mutant: every read goes to read_list_other.
ReadListOther(r) == "other"

ReadList(r) == ListOf(ptype[r])

\* AddTail or PutMsg, under Forbid.
Queue(r) ==
  /\ status[r] = "go"
  /\ status' = [status EXCEPT ![r] = "queued"]
  /\ \/ cmd[r] = "read"
        /\ reads' = [reads EXCEPT ![ReadList(r)] = Append(@, r)]
        /\ UNCHANGED <<event_list, port>>
     \/ cmd[r] \in {"orphan", "onevent"}
        /\ event_list' = Append(event_list, r)
        /\ UNCHANGED <<reads, port>>
     \/ cmd[r] \in Ported
        /\ port' = Append(port, r)
        /\ UNCHANGED <<reads, event_list>>
  /\ UNCHANGED <<cmd, ptype, want, wire, err, abort, abortAsked, taskVars>>

\* Answered in the opener's context: a read without memory for its wrapper, a
\* read or orphan of no known opener, a transmitted packet, a query.
AnswerNow(r) ==
  /\ status[r] = "go"
  /\ \/ cmd[r] = "read" /\ Reply({r}, "failed")
     \/ cmd[r] \in {"read", "orphan"} /\ Reply({r}, "badstate")
     \/ cmd[r] \in {"write", "query"} /\ \E e \in {"ok", "failed"} : Reply({r}, e)
  /\ UNCHANGED <<abort, listVars, taskVars>>

-----------------------------------------------------------------------------
(* AbortIO: the read lists, event_list and the port, each under a Forbid of *)
(* its own.  A request found is removed there; it is answered just after,   *)
(* when nobody else can reach it, so both are one step.                     *)

StartAbort(r) ==
  /\ status[r] \in {"queued", "taken"} /\ abort[r] = "no"
  /\ abort' = [abort EXCEPT ![r] = "reads"]
  /\ abortAsked' = [abortAsked EXCEPT ![r] = TRUE]
  /\ UNCHANGED <<status, cmd, ptype, want, wire, err, listVars, taskVars>>

Found(r, place) ==
  CASE place = "reads"  -> \E l \in Lists : r \in In(reads[l])
    [] place = "events" -> r \in In(event_list)
    [] place = "port"   -> r \in In(port)

AbortStep(r, place, next) ==
  /\ abort[r] = place
  /\ \/ /\ Found(r, place)
        /\ Reply({r}, "aborted")
        /\ abort' = [abort EXCEPT ![r] = "no"]
        /\ reads' = IF place = "reads" THEN [l \in Lists |-> Without(reads[l], {r})]
                    ELSE reads
        /\ event_list' = IF place = "events" THEN Without(event_list, {r}) ELSE event_list
        /\ port' = IF place = "port" THEN Without(port, {r}) ELSE port
     \/ /\ ~Found(r, place)
        /\ abort' = [abort EXCEPT ![r] = next]
        /\ UNCHANGED <<useVars, listVars>>
  /\ UNCHANGED taskVars

\* Mutant: event_list is not searched.
AbortIOSkipsEvents(r) ==
  \/ AbortStep(r, "reads", "port")
  \/ AbortStep(r, "port", "no")

AbortIO(r) ==
  \/ AbortStep(r, "reads", "events")
  \/ AbortStep(r, "events", "port")
  \/ AbortStep(r, "port", "no")

-----------------------------------------------------------------------------
(* Open and Close, as far as requests see them: the first open starts the   *)
(* unit task, the last close ends it.  No BeginIO or AbortIO is in progress *)
(* then; queued requests may be.                                            *)

Open ==
  /\ ~opened /\ loop = "none"
  /\ opened' = TRUE
  /\ task_shutdown' = FALSE
  /\ loop' = "wait"
  /\ UNCHANGED <<reqVars, listVars, online, cur, frame, batch>>

Close ==
  /\ opened
  /\ \A r \in Reqs : status[r] \notin {"begin", "go"} /\ abort[r] = "no"
  /\ opened' = FALSE
  /\ task_shutdown' = TRUE
  /\ UNCHANGED <<reqVars, listVars, online, loop, cur, frame, batch>>

-----------------------------------------------------------------------------
(* The unit task.                                                           *)

NextTurn == IF task_shutdown THEN "exit" ELSE "wait"

\* Wait has returned.  CTRL_C ends the loop only when it came after that: Wait
\* clears the signals it returns.
Wake ==
  /\ loop = "wait"
  /\ \/ loop' = "drain"
     \/ task_shutdown /\ loop' = "exit"
  /\ UNCHANGED <<reqVars, listVars, online, opened, task_shutdown, cur, frame, batch>>

\* GetMsg, and what the command does before its first flush or signal.
GetMsg ==
  /\ loop = "drain" /\ port # <<>>
  /\ LET r == Head(port)
     IN /\ cur' = r
        /\ status' = [status EXCEPT ![r] = "taken"]
        /\ \/ cmd[r] \in {"config", "online"} /\ ~online
              /\ online' = TRUE /\ loop' = "signal_online"
           \/ cmd[r] \in {"config", "online"} /\ online
              /\ loop' = "reply" /\ UNCHANGED online
           \/ cmd[r] = "offline" /\ online' = FALSE /\ loop' = "offline_flush"
           \/ cmd[r] = "flush" /\ loop' = "flush" /\ UNCHANGED online
  /\ port' = Tail(port)
  /\ UNCHANGED <<cmd, ptype, want, wire, err, abort, abortAsked, reads,
                 event_list, opened, task_shutdown, frame, batch>>

\* signal_event, under Forbid.
SignalEvent(e) ==
  LET R == {r \in In(event_list) : e \in wire[r]}
  IN /\ Reply(R, "ok")
     /\ event_list' = Without(event_list, R)
     /\ UNCHANGED <<abort, reads, port>>

SignalOnline ==
  /\ loop = "signal_online" /\ SignalEvent("ONLINE")
  /\ loop' = "reply"
  /\ UNCHANGED <<online, opened, task_shutdown, cur, frame, batch>>

SignalOffline ==
  /\ loop = "signal_offline" /\ SignalEvent("OFFLINE")
  /\ loop' = "reply"
  /\ UNCHANGED <<online, opened, task_shutdown, cur, frame, batch>>

\* Mutant: orphans are answered and stay in event_list.
FlushReadQueueKeepsOrphans(e) ==
  /\ Reply({r \in In(event_list) : cmd[r] = "orphan"} \cup UNION {In(reads[l]) : l \in Lists}, e)
  /\ reads' = [l \in Lists |-> <<>>]
  /\ UNCHANGED <<abort, event_list, port>>

\* PA6TEth_FlushReadQueue, under one Forbid.
FlushReadQueue(e) ==
  LET orphans == {r \in In(event_list) : cmd[r] = "orphan"}
  IN /\ Reply(orphans \cup UNION {In(reads[l]) : l \in Lists}, e)
     /\ reads' = [l \in Lists |-> <<>>]
     /\ event_list' = Without(event_list, orphans)
     /\ UNCHANGED <<abort, port>>

\* Mutant: the error of a flush.
OfflineFlushAborts ==
  /\ loop = "offline_flush" /\ FlushReadQueue("aborted")
  /\ loop' = "signal_offline"
  /\ UNCHANGED <<online, opened, task_shutdown, cur, frame, batch>>

OfflineFlush ==
  /\ loop = "offline_flush" /\ FlushReadQueue("outofservice")
  /\ loop' = "signal_offline"
  /\ UNCHANGED <<online, opened, task_shutdown, cur, frame, batch>>

Flush ==
  /\ loop = "flush" /\ FlushReadQueue("aborted")
  /\ loop' = "reply"
  /\ UNCHANGED <<online, opened, task_shutdown, cur, frame, batch>>

\* Mutant: the answer of a finished command is not filled in.
ReplyCommandBlank ==
  /\ loop = "reply" /\ Reply({cur}, "none")
  /\ cur' = NoReq
  /\ loop' = "drain"
  /\ UNCHANGED <<abort, listVars, online, opened, task_shutdown, frame, batch>>

ReplyCommand ==
  /\ loop = "reply" /\ Reply({cur}, "ok")
  /\ cur' = NoReq
  /\ loop' = "drain"
  /\ UNCHANGED <<abort, listVars, online,
                 opened, task_shutdown, frame, batch>>

EndDrain ==
  /\ loop = "drain" /\ port = <<>>
  /\ loop' = IF online THEN "rx" ELSE NextTurn
  /\ batch' = 0
  /\ UNCHANGED <<reqVars, listVars, online, opened, task_shutdown, cur, frame>>

\* Mutant: the list is searched from its tail.
LastOrphan ==
  CHOOSE i \in DOMAIN event_list :
    /\ cmd[event_list[i]] = "orphan"
    /\ \A j \in i + 1 .. Len(event_list) : cmd[event_list[j]] # "orphan"

FirstOrphan ==
  CHOOSE i \in DOMAIN event_list :
    /\ cmd[event_list[i]] = "orphan"
    /\ \A j \in 1 .. i - 1 : cmd[event_list[j]] # "orphan"

\* A frame of type t: the first read of its list, else the first orphan, is
\* taken under Forbid; without either the frame is dropped.
ReceiveFrame(t) ==
  /\ loop = "rx" /\ batch < MaxBatch
  /\ batch' = batch + 1
  /\ \/ /\ reads[ListOf(t)] # <<>>
        /\ cur' = Head(reads[ListOf(t)])
        /\ reads' = [reads EXCEPT ![ListOf(t)] = Tail(@)]
        /\ UNCHANGED event_list
     \/ /\ reads[ListOf(t)] = <<>>
        /\ \E r \in In(event_list) : cmd[r] = "orphan"
        /\ cur' = event_list[FirstOrphan]
        /\ event_list' = Without(event_list, {cur'})
        /\ UNCHANGED reads
  /\ status' = [status EXCEPT ![cur'] = "taken"]
  /\ frame' = t
  /\ loop' = "deliver"
  /\ UNCHANGED <<cmd, ptype, want, wire, err, abort, abortAsked, port, online,
                 opened, task_shutdown>>

DropFrame(t) ==
  /\ loop = "rx" /\ batch < MaxBatch
  /\ reads[ListOf(t)] = <<>>
  /\ \A r \in In(event_list) : cmd[r] # "orphan"
  /\ batch' = batch + 1
  /\ UNCHANGED <<reqVars, listVars, online, opened, task_shutdown, loop, cur, frame>>

\* The copy hook succeeds or not; then ReplyMsg.
Deliver ==
  /\ loop = "deliver"
  /\ \E e \in {"ok", "failed"} : Reply({cur}, e)
  /\ cur' = NoReq /\ frame' = "none"
  /\ loop' = "rx"
  /\ UNCHANGED <<abort, listVars, online, opened,
                 task_shutdown, batch>>

EndRx ==
  /\ loop = "rx"
  /\ loop' = NextTurn
  /\ UNCHANGED <<reqVars, listVars, online, opened, task_shutdown, cur, frame, batch>>

\* Mutant: the port is freed with messages in it.
ExitDrainNothing ==
  /\ loop = "exit"
  /\ loop' = "exit_reads"
  /\ UNCHANGED <<reqVars, listVars, online, opened, task_shutdown, cur, frame, batch>>

\* The end of the task: the port, the reads and orphans, the rest of event_list.
ExitDrain ==
  /\ loop = "exit"
  /\ \/ /\ port # <<>>
        /\ Reply({Head(port)}, "aborted")
        /\ port' = Tail(port)
        /\ UNCHANGED loop
     \/ port = <<>> /\ loop' = "exit_reads" /\ UNCHANGED <<useVars, port>>
  /\ UNCHANGED <<abort, reads, event_list,
                 online, opened, task_shutdown, cur, frame, batch>>

ExitFlushReads ==
  /\ loop = "exit_reads" /\ FlushReadQueue("aborted")
  /\ loop' = "exit_events"
  /\ UNCHANGED <<online, opened, task_shutdown, cur, frame, batch>>

\* Mutant: event waiters are left behind.
ExitKeepsEvents ==
  /\ loop = "exit_events"
  /\ loop' = "none"
  /\ UNCHANGED <<reqVars, listVars, online, opened, task_shutdown, cur, frame, batch>>

ExitFlushEvents ==
  /\ loop = "exit_events"
  /\ Reply(In(event_list), "aborted")
  /\ event_list' = <<>>
  /\ loop' = "none"
  /\ UNCHANGED <<abort, reads, port, online,
                 opened, task_shutdown, cur, frame, batch>>

Exit == ExitDrain \/ ExitFlushReads \/ ExitFlushEvents

TaskStep ==
  \/ Wake \/ GetMsg \/ SignalOnline \/ SignalOffline \/ OfflineFlush \/ Flush
  \/ ReplyCommand \/ EndDrain \/ Deliver \/ EndRx \/ Exit
  \/ \E t \in EtherTypes : ReceiveFrame(t) \/ DropFrame(t)

OpenerStep(r) == Check(r) \/ Queue(r) \/ AnswerNow(r) \/ AbortIO(r)

Next ==
  \/ TaskStep
  \/ \E r \in Reqs :
       \/ OpenerStep(r) \/ StartAbort(r)
       \/ \E c \in Cmds, t \in EtherTypes, events \in SUBSET Events : BeginIO(r, c, t, events)
  \/ Open \/ Close

Spec == Init /\ [][Next]_vars

\* The unit task goes on, and a task inside BeginIO or AbortIO gets out of it.
FairSpec ==
  /\ Spec
  /\ WF_vars(TaskStep)
  /\ \A r \in Reqs : WF_vars(OpenerStep(r))

-----------------------------------------------------------------------------
(* Properties.                                                              *)

TypeOK ==
  /\ status \in [Reqs -> {"client", "begin", "go", "queued", "taken"}]
  /\ cmd \in [Reqs -> Cmds \cup {"none"}] /\ ptype \in [Reqs -> EtherTypes \cup {"none"}]
  /\ want \in [Reqs -> SUBSET Events] /\ wire \in [Reqs -> SUBSET Events]
  /\ err \in [Reqs -> {"none", "ok", "aborted", "outofservice", "badstate", "failed"}]
  /\ \A r \in Reqs : err[r] = "none" <=> status[r] # "client"
  /\ abort \in [Reqs -> {"no", "reads", "events", "port"}]
  /\ abortAsked \in [Reqs -> BOOLEAN]
  /\ reads \in [Lists -> Seq(Reqs)]
  /\ event_list \in Seq(Reqs) /\ port \in Seq(Reqs)
  /\ {online, opened, task_shutdown} \subseteq BOOLEAN
  /\ loop \in {"none", "wait", "drain", "signal_online", "signal_offline",
               "offline_flush", "flush", "reply", "rx", "deliver",
               "exit", "exit_reads", "exit_events"}
  /\ cur \in Reqs \cup {NoReq} /\ frame \in EtherTypes \cup {"none"}
  /\ batch \in 0 .. MaxBatch

Distinct(seq) == \A i, j \in DOMAIN seq : seq[i] = seq[j] => i = j

\* A request the device has is linked into exactly one list, once, and into the
\* list its command and type call for, or it is the one in the unit task's
\* hands; a request its owner has, or that is on its way in, is in none.  Nodes
\* are removed by openers and by the unit task, each under a Forbid of its own.
OnePlace ==
  /\ \A l \in Lists : Distinct(reads[l])
  /\ Distinct(event_list) /\ Distinct(port)
  /\ \A r \in Reqs :
       /\ status[r] = "queued" <=>
            r \in In(event_list) \cup In(port) \cup UNION {In(reads[l]) : l \in Lists}
       /\ status[r] = "taken" <=> cur = r
       /\ \A l \in Lists : r \in In(reads[l]) => cmd[r] = "read" /\ ListOf(ptype[r]) = l
       /\ r \in In(event_list) => cmd[r] \in {"orphan", "onevent"}
       /\ r \in In(port) => cmd[r] \in Ported

Ahead(q, r, seq) == \E i, j \in DOMAIN seq : i < j /\ seq[i] = q /\ seq[j] = r

\* The members of seq that are left in seq2 keep their order, and what is new in
\* seq2 stands behind them.
InOrder(seq, seq2) ==
  seq2 = seq \/ \A q, r \in In(seq2) :
    Ahead(q, r, seq) \/ (q \in In(seq) /\ r \notin In(seq)) => Ahead(q, r, seq2)

\* q came before r and waits for the same thing.
Before(q, r) ==
  \/ \E l \in Lists : Ahead(q, r, reads[l])
  \/ Ahead(q, r, port)
  \/ Ahead(q, r, event_list) /\ cmd[q] = "orphan" /\ cmd[r] = "orphan"

\* First come, first served: the unit task never takes a read, an orphan or a
\* command while an older one of its kind waits, and no abort, flush, signal or
\* delivery, each removing from the middle of a list another task adds to,
\* changes the order of those that stay.
InTurn ==
  [][/\ cur' # cur => \A q \in Reqs : ~Before(q, cur')
     /\ \A l \in Lists : InOrder(reads[l], reads'[l])
     /\ InOrder(event_list, event_list') /\ InOrder(port, port')]_vars

\* Going online answers those that wait for the ONLINE event.
EventReachesWaiters ==
  [][SignalOnline =>
       \A r \in In(event_list) : "ONLINE" \in want[r] => r \notin In(event_list')]_vars

\* A read is answered with a frame of the type it asked for.
ReadGetsItsType == loop = "deliver" /\ cmd[cur] = "read" => ptype[cur] = frame

\* What does hold of it: a read of IPv4 or ARP gets no other type, and a read of
\* anything else none of these two.
ReadGetsItsList ==
  loop = "deliver" /\ cmd[cur] = "read" => ListOf(ptype[cur]) = ListOf(frame)

\* The device keeps the contract: one answer for each use, only for a reason.
Contract == INSTANCE SanaContract WITH
  owner <- [r \in Reqs |-> IF status[r] = "client" THEN "client" ELSE "device"]

ContractKept == Contract!Spec

\* After the last close no request stays with the device, wherever it was.
AllAnswered == Contract!AllAnswered

\* An AbortIO gets the request back, now or soon, although it looks into the
\* three places one after the other while the unit task moves requests.
AbortAnswered == \A r \in Reqs : abort[r] # "no" ~> status[r] = "client"

\* A command given to the unit task is answered, also one that came during a
\* batch of reception or together with the close.
CommandsAnswered ==
  \A r \in Reqs : status[r] = "queued" /\ cmd[r] \in Ported ~> status[r] = "client"

=============================================================================
