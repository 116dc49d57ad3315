---------------------------- MODULE SanaContract ----------------------------
(****************************************************************************)
(* What the device promises the owners of IOSana2Reqs, whatever it does     *)
(* inside: a request given to BeginIO belongs to the device until it is     *)
(* answered, is answered at most once for each time it was given, and with  *)
(* an error only for a reason the owners can know of: IOERR_ABORTED after   *)
(* an AbortIO of it, while a CMD_FLUSH is pending or after the last close;  *)
(* S2ERR_OUTOFSERVICE for what needs the unit online, while it is offline   *)
(* or an S2_OFFLINE is pending; S2ERR_BAD_STATE for going to a state.       *)
(****************************************************************************)
CONSTANTS Reqs, Cmds

VARIABLES
  owner,       \* who may touch the request: "client" or "device"
  cmd,         \* io_Command, "none" while its owner has the request
  err,         \* io_Error, "none" from BeginIO to the answer
  abortAsked,  \* AbortIO was called for the present use
  online,      \* the unit is online, as S2_DEVICEQUERY's users see it
  opened       \* some opener holds the unit

vars == <<owner, cmd, err, abortAsked, online, opened>>

Readers == {"read", "orphan"}
Answers == {"ok", "aborted", "outofservice", "badstate", "failed"}

Init ==
  /\ owner = [r \in Reqs |-> "client"]
  /\ cmd = [r \in Reqs |-> "none"]
  /\ err = [r \in Reqs |-> "ok"]
  /\ abortAsked = [r \in Reqs |-> FALSE]
  /\ online = FALSE /\ opened = FALSE

Pending(c) == \E r \in Reqs : cmd[r] = c

\* The errors a request may be answered with at this moment.
Permitted(r, e) ==
  \/ e = "ok"
  \/ /\ e = "aborted"
     /\ abortAsked[r] \/ ~opened \/ (cmd[r] \in Readers /\ Pending("flush"))
  \/ /\ e = "outofservice"
     /\ cmd[r] \in Readers \cup {"write"}
     /\ ~online \/ Pending("offline")
  \/ e = "badstate" /\ cmd[r] \in {"online", "offline"} \cup Readers
  \/ e = "failed" /\ cmd[r] \in Readers \cup {"write", "query"}

Give(r, c) ==
  /\ opened
  /\ owner[r] = "client"
  /\ owner' = [owner EXCEPT ![r] = "device"]
  /\ cmd' = [cmd EXCEPT ![r] = c]
  /\ err' = [err EXCEPT ![r] = "none"]
  /\ abortAsked' = [abortAsked EXCEPT ![r] = FALSE]
  /\ UNCHANGED <<online, opened>>

AskAbort(r) ==
  /\ owner[r] = "device"
  /\ abortAsked' = [abortAsked EXCEPT ![r] = TRUE]
  /\ UNCHANGED <<owner, cmd, err, online, opened>>

\* A flush answers several requests in one go.
Answer ==
  \E R \in SUBSET Reqs :
    /\ R # {}
    /\ \A r \in R : owner[r] = "device"
    /\ owner' = [r \in Reqs |-> IF r \in R THEN "client" ELSE owner[r]]
    /\ err' \in [Reqs -> Answers \cup {"none"}]
    /\ \A r \in Reqs : IF r \in R THEN err'[r] \in Answers /\ Permitted(r, err'[r])
                       ELSE err'[r] = err[r]
    /\ cmd' = [r \in Reqs |-> IF r \in R THEN "none" ELSE cmd[r]]
    /\ abortAsked' = [r \in Reqs |-> abortAsked[r] /\ r \notin R]
    /\ UNCHANGED <<online, opened>>

\* The unit changes its state only while somebody's command asks for it.
GoOnline ==
  /\ ~online /\ (Pending("online") \/ Pending("config"))
  /\ online' = TRUE
  /\ UNCHANGED <<owner, cmd, err, abortAsked, opened>>

GoOffline ==
  /\ online /\ Pending("offline")
  /\ online' = FALSE
  /\ UNCHANGED <<owner, cmd, err, abortAsked, opened>>

Open == ~opened /\ opened' = TRUE /\ UNCHANGED <<owner, cmd, err, abortAsked, online>>
Close == opened /\ opened' = FALSE /\ UNCHANGED <<owner, cmd, err, abortAsked, online>>

Next ==
  \/ \E r \in Reqs : AskAbort(r) \/ \E c \in Cmds : Give(r, c)
  \/ Answer \/ GoOnline \/ GoOffline \/ Open \/ Close

Spec == Init /\ [][Next]_vars

\* After the last close every request comes back to its owner.
AllAnswered == ~opened ~> opened \/ \A r \in Reqs : owner[r] = "client"

=============================================================================
