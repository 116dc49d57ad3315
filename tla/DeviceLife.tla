----------------------------- MODULE DeviceLife -----------------------------
(****************************************************************************)
(* What the device promises the system and its clients about loading and    *)
(* unloading, with no counters, tasks or resources in sight.  It goes away  *)
(* only while nobody has it or is calling it, once, and for good.  A        *)
(* request to go that comes too early is remembered until somebody opens    *)
(* the device anew, and is honoured by the close that leaves it unused.     *)
(****************************************************************************)
CONSTANT Clients

VARIABLES
  state,  \* "loading", "loaded", "unloading", "gone", or "failed" to load
  user,   \* each client is "out", "opening", "in" or "closing"
  asked   \* a request to go is remembered

vars == <<state, user, asked>>

AllOut == \A c \in Clients : user[c] = "out"

Init == state = "loading" /\ user = [c \in Clients |-> "out"] /\ asked = FALSE

Load ==
  /\ state = "loading"
  /\ state' \in {"loaded", "failed"}
  /\ UNCHANGED <<user, asked>>

Open(c) ==
  /\ state = "loaded" /\ user[c] = "out"
  /\ user' = [user EXCEPT ![c] = "opening"]
  /\ UNCHANGED <<state, asked>>

\* A request to go is not honoured by an open that fails.
Fail(c) ==
  /\ user[c] = "opening"
  /\ user' = [user EXCEPT ![c] = "out"]
  /\ UNCHANGED <<state, asked>>

Succeed(c) ==
  /\ user[c] = "opening"
  /\ user' = [user EXCEPT ![c] = "in"]
  /\ asked' = FALSE
  /\ UNCHANGED state

Close(c) ==
  /\ user[c] = "in"
  /\ user' = [user EXCEPT ![c] = "closing"]
  /\ UNCHANGED <<state, asked>>

Leave(c) ==
  /\ state = "loaded"
  /\ user[c] \in {"in", "closing"}
  /\ user' = [user EXCEPT ![c] = "out"]
  /\ state' = IF asked /\ AllOut' THEN "unloading" ELSE "loaded"
  /\ UNCHANGED asked

Ask ==
  /\ state = "loaded" /\ ~AllOut
  /\ asked' = TRUE
  /\ UNCHANGED <<state, user>>

Unload ==
  /\ state = "loaded" /\ AllOut
  /\ state' = "unloading"
  /\ UNCHANGED <<user, asked>>

Vanish == state = "unloading" /\ state' = "gone" /\ UNCHANGED <<user, asked>>

Next ==
  \/ Load \/ Ask \/ Unload \/ Vanish
  \/ \E c \in Clients : Open(c) \/ Fail(c) \/ Succeed(c) \/ Close(c) \/ Leave(c)

Spec == Init /\ [][Next]_vars

=============================================================================
