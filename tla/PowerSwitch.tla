---------------------------- MODULE PowerSwitch ----------------------------
(***************************************************************************)
(* What the controller promises its power manager: its power state changes *)
(* only when it was asked to, and together with the one answer to that     *)
(* request; its drives are stopped only for a request for standby, and     *)
(* ready when the answer to a request for power comes.  A power manager    *)
(* that once did not wait for its answer is promised nothing.              *)
(***************************************************************************)
CONSTANT Powers

VARIABLES power, ready,        \* the controller's state, and its drives'
          believed, request,   \* the power manager's
          trusted

vars == <<power, ready, believed, request, trusted>>

Init ==
  /\ power = "active" /\ ready = TRUE
  /\ believed = "active" /\ request = "none"
  /\ trusted = TRUE

Ask(state) ==
  /\ request = "none" /\ request' = state
  /\ UNCHANGED <<power, ready, believed, trusted>>

StartDrives == ready' = TRUE /\ UNCHANGED <<power, believed, request, trusted>>

StopDrives ==
  /\ request = "standby" /\ ready' = FALSE
  /\ UNCHANGED <<power, believed, request, trusted>>

Answer ==
  /\ request /= "none"
  /\ request = "active" => ready
  /\ power' = request /\ believed' = request /\ request' = "none"
  /\ UNCHANGED <<ready, trusted>>

Next ==
  \/ \E state \in Powers : Ask(state)
  \/ StartDrives \/ StopDrives \/ Answer
  \/ ~trusted'

Spec == Init /\ [][Next]_vars
=============================================================================
