--------------------------- MODULE CommandService ---------------------------
(***************************************************************************)
(* What the command path promises the threads that call it: a request that *)
(* was taken is answered at most once, the controller works on it only     *)
(* between the two, and a success that was checked means that it did the   *)
(* work.  A service that is no longer trusted promises nothing.            *)
(***************************************************************************)
CONSTANTS Requests,
          Checked          \* the requests whose success is the controller's

VARIABLES phase, result, served, trusted

vars == <<phase, result, served, trusted>>

Init ==
  /\ phase = [r \in Requests |-> "idle"]
  /\ result = [r \in Requests |-> "none"]
  /\ served = {}
  /\ trusted = TRUE

Accept(r) ==
  /\ phase[r] = "idle"
  /\ phase' = [phase EXCEPT ![r] = "open"]
  /\ UNCHANGED <<result, served, trusted>>

CarryOut(r) ==
  /\ phase[r] = "open"
  /\ served' = served \union {r}
  /\ UNCHANGED <<phase, result, trusted>>

Answer(r) ==
  /\ phase[r] = "open"
  /\ phase' = [phase EXCEPT ![r] = "answered"]
  /\ \E told \in {"ok", "error"} :
       /\ result' = [result EXCEPT ![r] = told]
       /\ told = "ok" /\ r \in Checked => r \in served
  /\ UNCHANGED <<served, trusted>>

Next ==
  \/ \E r \in Requests : Accept(r) \/ CarryOut(r) \/ Answer(r)
  \/ ~trusted'

Spec == Init /\ [][Next]_vars
=============================================================================
