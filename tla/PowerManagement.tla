-------------------------- MODULE PowerManagement --------------------------
(***************************************************************************)
(* Power transitions of the Escalade controller: the power manager asks    *)
(* for standby or active, the support thread carries it out once the       *)
(* active commands have drained, I/O threads tickle the idle timer and     *)
(* wait for power, the system sleeps and the controller has to be          *)
(* initialised again.                                                      *)
(*                                                                         *)
(* CommandPath has the commands in detail; here a command is the thread    *)
(* that issued it, or Own for one the support thread runs synchronously,   *)
(* and the two or three commands of initController are one.  What holds    *)
(* the gate is one step; checkPowerStateLocked is two, since setPowerActive *)
(* stores and wakes without the gate.                                      *)
(***************************************************************************)
EXTENDS Naturals, FiniteSets

CONSTANTS
  Threads,          \* those that issue I/O, one at a time each
  Own,              \* a command of the support thread
  MaxDowns,         \* bound: requests for standby
  MaxSleeps,        \* bound: notices that the system will sleep
  MaxMishaps        \* bound: resets by user clients, initialisations and power
                    \* commands that fail, together

ASSUME PowerAssumption ==
  /\ Own \notin Threads
  /\ {MaxDowns, MaxSleeps, MaxMishaps} \subseteq Nat

VARIABLES
  pc,               \* where each I/O thread is
  active,           \* activeCommands
  parked,           \* pendingCommands of resetController
  forgotten,        \* active commands the controller no longer has
  inbox,            \* supportThreadInbox
  workBits,         \* the support thread's copy
  desiredPowerState,
  stage, doing,     \* what the support thread is at, and on whose behalf
  suspending, powerState, drivePowerState, needReInit,
  pmCurrent,        \* the state the power manager believes in
  request,          \* the state it has asked for, or "none"
  gaveUp,           \* history: it stopped waiting for an answer
  dropped,          \* history: a requested transition was cleared
  missed,           \* history: a wakeup came as a thread was falling asleep
  spinFailed,       \* history: the drives would not start
  budget            \* bounded environment

threads == <<pc, active, parked, forgotten>>
bits    == <<inbox, workBits, desiredPowerState>>
power   == <<suspending, powerState, drivePowerState, needReInit>>
pm      == <<pmCurrent, request, gaveUp>>
history == <<dropped, missed, spinFailed>>
vars == <<threads, bits, stage, doing, power, pm, history, budget>>

Powers == {"standby", "active"}
WorkBits == {"reset", "idled"} \union Powers

Init ==
  /\ pc = [t \in Threads |-> "idle"] /\ active = {} /\ parked = {} /\ forgotten = {}
  /\ inbox = {} /\ workBits = {} /\ desiredPowerState = {}
  /\ stage = "getWork" /\ doing = "none"
  /\ suspending = FALSE /\ powerState = "active"
  /\ drivePowerState = TRUE /\ needReInit = FALSE
  /\ pmCurrent = "active" /\ request = "none" /\ gaveUp = FALSE
  /\ dropped = FALSE /\ missed = FALSE /\ spinFailed = FALSE
  /\ budget = [downs |-> MaxDowns, sleeps |-> MaxSleeps, mishaps |-> MaxMishaps]

spend(what) == budget[what] > 0 /\ budget' = [budget EXCEPT ![what] = @ - 1]

\* A thread between its look at powerState and its sleep holds the gate.
GateFree == \A t \in Threads : pc[t] /= "falling"

\* _dequeueActive: an active queue that drains while suspending is announced.
\* A variant that announces nothing.
unannounced(rest) == {}
announced(rest) == IF suspending /\ rest = {} THEN {"idled"} ELSE {}

\* A variant that leaves the command on the list.
leftActive(cmd) == active' = active /\ inbox' = inbox \union announced(active)
dequeueActive(cmd) ==
  /\ active' = active \ {cmd}
  /\ inbox' = inbox \union announced(active \ {cmd})
-----------------------------------------------------------------------------
(* I/O threads. *)

\* activityTickle: whether the power manager thinks the controller active.
checkPowerState(t) ==
  /\ pc[t] = "idle"
  /\ pc' = [pc EXCEPT ![t] = IF pmCurrent = "active" THEN "issue" ELSE "check"]
  /\ UNCHANGED <<active, parked, forgotten, bits, stage, doing, power, pm, history, budget>>

checkPowerStateLocked(t) ==
  /\ pc[t] = "check" /\ GateFree
  /\ pc' = [pc EXCEPT ![t] = IF powerState = "active" THEN "issue" ELSE "falling"]
  /\ UNCHANGED <<active, parked, forgotten, bits, stage, doing, power, pm, history, budget>>

commandSleep(t) ==
  /\ pc[t] = "falling"
  /\ pc' = [pc EXCEPT ![t] = "asleep"]
  /\ UNCHANGED <<active, parked, forgotten, bits, stage, doing, power, pm, history, budget>>

\* getCommand and runAsynchronousCommand, held by a reset.
issue(t) ==
  /\ pc[t] = "issue" /\ GateFree /\ doing /= "reset"
  /\ pc' = [pc EXCEPT ![t] = "posted"]
  /\ active' = active \union {t}
  /\ UNCHANGED <<parked, forgotten, bits, stage, doing, power, pm, history, budget>>

handleInterrupt(t) ==
  /\ t \in active \ forgotten /\ GateFree
  /\ pc' = [pc EXCEPT ![t] = "idle"]
  /\ dequeueActive(t)
  /\ UNCHANGED <<parked, forgotten, workBits, desiredPowerState, stage, doing, power, pm,
                 history, budget>>
-----------------------------------------------------------------------------
(* The power manager and other sources of work. *)

\* EscaladeController::setPowerState; one request at a time.
setPowerState(state) ==
  /\ request = "none" /\ GateFree
  /\ request' = state
  /\ inbox' = inbox \union {state}
  /\ IF state = "standby" THEN spend("downs") ELSE pmCurrent = "standby" /\ UNCHANGED budget
  /\ UNCHANGED <<threads, workBits, desiredPowerState, stage, doing, power, pmCurrent, gaveUp,
                 history>>

\* The time setPowerState answered with has passed: a minute for standby, and
\* next to none for active, where the code falls through to IOPMNoSuchState.
giveUp ==
  /\ request /= "none" /\ gaveUp' = TRUE
  /\ pmCurrent' = request /\ request' = "none"
  /\ UNCHANGED <<threads, bits, stage, doing, power, history, budget>>

acknowledgeSetPowerState ==
  /\ pmCurrent' = IF request = "none" THEN pmCurrent ELSE request
  /\ request' = "none" /\ UNCHANGED gaveUp

\* kIOMessageSystemWillSleep: shutdownController runs a command of its own.
powerDownHandler ==
  /\ GateFree /\ spend("sleeps")
  /\ needReInit' = TRUE
  /\ inbox' = inbox \union announced(active)
  /\ UNCHANGED <<threads, workBits, desiredPowerState, stage, doing, suspending, powerState,
                 drivePowerState, pm, history>>

\* The machine sleeps with the controller unpowered.
loseCommands ==
  /\ needReInit /\ pmCurrent = "standby" /\ stage = "getWork"
  /\ forgotten' = active
  /\ UNCHANGED <<pc, active, parked, bits, stage, doing, power, pm, history, budget>>

\* doReset, or the timeout of a command that is not coming back.
requestReset ==
  /\ GateFree /\ "reset" \notin inbox
  /\ \/ spend("mishaps")
     \/ forgotten /= {} /\ UNCHANGED budget
  /\ inbox' = inbox \union {"reset"}
  /\ UNCHANGED <<threads, workBits, desiredPowerState, stage, doing, power, pm, history>>
-----------------------------------------------------------------------------
(* The support thread. *)

\* What is left in the inbox; a variant that does not empty it.
inboxKept == inbox
inboxLeft == {}

supportThreadGetWork ==
  /\ stage = "getWork" /\ inbox /= {} /\ GateFree
  /\ workBits' = inbox \ {"reset"}
  /\ inbox' = inboxLeft
  /\ IF "reset" \in inbox THEN stage' = "init" /\ doing' = "reset"
                          ELSE stage' = "look" /\ UNCHANGED doing
  /\ UNCHANGED <<threads, desiredPowerState, power, pm, history, budget>>

\* The bits once an ST_DO_IDLED has cleared the power bits and restored the
\* deferred ones; a variant that restores none.
notRestored == IF "idled" \in workBits THEN {} ELSE workBits
restored == IF "idled" \in workBits THEN desiredPowerState ELSE workBits

\* An idled queue uses the deferred transition up; a variant that keeps it.
desiredKept == desiredPowerState
desiredLeft == IF "idled" \in workBits THEN {} ELSE desiredPowerState

nextPass(left) == IF left = {} THEN "getWork" ELSE "look"
mustInit(state) == needReInit /\ (state = "standby" => powerState /= "active")

\* setSuspending: nothing to wait for.
suspendNow == suspending \/ active = {}

powerTransition ==
  /\ stage = "look" /\ GateFree
  /\ workBits' = IF restored = Powers THEN Powers ELSE {}
  /\ dropped' = (dropped \/ ~ workBits \intersect Powers \subseteq restored)
  /\ \/ \* standby at once, or active
        /\ \/ restored = {"standby"} /\ suspendNow /\ doing' = "standby" /\ suspending' = TRUE
           \/ restored = {"active"} /\ doing' = "active" /\ UNCHANGED suspending
        /\ desiredPowerState' = desiredLeft
        /\ stage' = IF mustInit(doing') THEN "init" ELSE "spin"
     \/ \* standby when the commands have drained
        /\ restored = {"standby"} /\ ~suspendNow
        /\ suspending' = TRUE /\ desiredPowerState' = {"standby"}
        /\ stage' = "getWork" /\ UNCHANGED doing
     \/ \* nothing, or both, which match neither test
        /\ restored \in {{}, Powers}
        /\ desiredPowerState' = desiredLeft
        /\ stage' = nextPass(workBits') /\ UNCHANGED <<doing, suspending>>
  /\ UNCHANGED <<threads, inbox, powerState, drivePowerState, needReInit, pm, missed, spinFailed,
                 budget>>

fail == spend("mishaps")
afterInit == IF doing = "reset" THEN "resubmit" ELSE "spin"

\* initController: the controller forgets its commands.  A reset has parked
\* them first.
initController ==
  /\ stage = "init" /\ GateFree
  /\ IF doing = "reset" THEN parked' = active /\ forgotten' = {}
                        ELSE forgotten' = active /\ UNCHANGED parked
  /\ \/ active' = (active \ parked') \union {Own} /\ stage' = "initWait" /\ UNCHANGED budget
     \/ active' = active \ parked' /\ stage' = afterInit /\ fail
  /\ UNCHANGED <<pc, bits, doing, power, pm, history>>

initDone ==
  /\ stage = "initWait" /\ GateFree
  /\ dequeueActive(Own)
  /\ \/ drivePowerState' = TRUE /\ needReInit' = FALSE /\ UNCHANGED budget
     \/ UNCHANGED <<drivePowerState, needReInit>> /\ fail
  /\ stage' = afterInit
  /\ UNCHANGED <<pc, parked, forgotten, workBits, desiredPowerState, doing, suspending,
                 powerState, pm, history>>

\* The end of resetController, and the pass goes on.
resubmit ==
  /\ stage = "resubmit" /\ GateFree
  /\ active' = active \union parked /\ parked' = {}
  /\ stage' = nextPass(workBits) /\ doing' = "none"
  /\ UNCHANGED <<pc, forgotten, bits, power, pm, history, budget>>

\* Whether the drives have to be switched for this transition; a variant
\* that leaves them alone from standby.
neverFromStandby == doing = "standby" /\ drivePowerState
mustSpin == IF doing = "standby" THEN drivePowerState
            ELSE powerState = "standby" /\ ~drivePowerState

setDrivePower ==
  /\ stage = "spin" /\ mustSpin /\ GateFree
  /\ active' = active \union {Own} /\ stage' = "spinWait"
  /\ UNCHANGED <<pc, parked, forgotten, bits, doing, power, pm, history, budget>>

spinDone ==
  /\ stage = "spinWait" /\ GateFree
  /\ dequeueActive(Own)
  /\ \/ drivePowerState' = (doing = "active") /\ spinFailed' = FALSE /\ UNCHANGED budget
     \/ UNCHANGED drivePowerState /\ spinFailed' = (doing = "active") /\ fail
  /\ stage' = "done"
  /\ UNCHANGED <<pc, parked, forgotten, workBits, desiredPowerState, doing, suspending,
                 powerState, needReInit, pm, dropped, missed>>

transitionComplete == stage = "done" \/ (stage = "spin" /\ ~mustSpin)

setPowerStandby ==
  /\ transitionComplete /\ doing = "standby"
  /\ powerState' = "standby"
  /\ acknowledgeSetPowerState
  /\ stage' = "getWork" /\ doing' = "none"
  /\ UNCHANGED <<threads, bits, suspending, drivePowerState, needReInit, history, budget>>

\* "wake everyone up"; a variant that wakes nobody.
wakesNobody(t) == pc[t]
commandWakeup(t) == IF pc[t] = "asleep" THEN "check" ELSE pc[t]

setPowerActive ==
  /\ transitionComplete /\ doing = "active"
  /\ powerState' = "active" /\ suspending' = FALSE
  /\ pc' = [t \in Threads |-> commandWakeup(t)]
  /\ missed' = (missed \/ ~GateFree)
  /\ acknowledgeSetPowerState
  /\ stage' = "getWork" /\ doing' = "none"
  /\ UNCHANGED <<active, parked, forgotten, bits, drivePowerState, needReInit, dropped,
                 spinFailed, budget>>
-----------------------------------------------------------------------------
SupportStep ==
  \/ supportThreadGetWork \/ powerTransition
  \/ initController \/ initDone \/ resubmit
  \/ setDrivePower \/ spinDone \/ setPowerStandby \/ setPowerActive

IOStep(t) == \/ checkPowerState(t) \/ checkPowerStateLocked(t) \/ commandSleep(t)
             \/ issue(t) \/ handleInterrupt(t)

Next ==
  \/ SupportStep
  \/ \E t \in Threads : IOStep(t)
  \/ \E state \in Powers : setPowerState(state)
  \/ giveUp \/ powerDownHandler \/ loseCommands \/ requestReset

Spec == Init /\ [][Next]_vars

\* The support thread and the I/O threads run, the controller answers, a
\* lost command times out, and the power manager raises power for a tickle.
FairSpec ==
  /\ Spec
  /\ WF_vars(SupportStep)
  /\ \A t \in Threads : WF_vars(checkPowerStateLocked(t) \/ commandSleep(t)) /\ WF_vars(handleInterrupt(t))
  /\ WF_vars(forgotten /= {} /\ requestReset)
  /\ WF_vars(setPowerState("active"))
-----------------------------------------------------------------------------
TypeOK ==
  /\ pc \in [Threads -> {"idle", "check", "falling", "asleep", "issue", "posted"}]
  /\ active \subseteq Threads \union {Own} /\ parked \subseteq Threads
  /\ forgotten \subseteq Threads
  /\ inbox \subseteq WorkBits /\ workBits \subseteq WorkBits \ {"reset"}
  /\ desiredPowerState \subseteq {"standby"}
  /\ stage \in {"getWork", "look", "init", "initWait", "resubmit", "spin", "spinWait", "done"}
  /\ doing \in {"none", "reset"} \union Powers
  /\ suspending \in BOOLEAN /\ powerState \in Powers
  /\ drivePowerState \in BOOLEAN /\ needReInit \in BOOLEAN
  /\ pmCurrent \in Powers /\ request \in Powers \union {"none"} /\ gaveUp \in BOOLEAN
  /\ dropped \in BOOLEAN /\ missed \in BOOLEAN /\ spinFailed \in BOOLEAN
  /\ budget \in [{"downs", "sleeps", "mishaps"} -> Nat]

\* Between transitions an active controller has its drives running, unless
\* they would not start (setPowerActive, "if the drives might be off").
ActiveIsSpinning ==
  powerState = "active" /\ doing = "none" => drivePowerState \/ spinFailed

\* As long as the power manager waits for every answer, a deferred standby
\* is never left waiting for commands that are gone (_dequeueActive, "kick
\* off the second part of the process").
DeferralNoticed ==
  ~gaveUp /\ desiredPowerState /= {} /\ active \union parked = {} =>
    suspending /\ "idled" \in inbox \union workBits

\* As long as it waits for every answer, the power manager knows the state
\* the controller is in (acknowledgeSetPowerState).
PMBelief == ~gaveUp /\ request = "none" => pmCurrent = powerState

\* As long as it waits for every answer, the controller is the switch it asks:
\* each request is answered once, as the state changes, no transition is made
\* twice or unasked, and drives stop only for standby (acknowledgeSetPowerState,
\* the bits that supportThreadMain defers and restores).
Switch == INSTANCE PowerSwitch WITH power <- powerState, believed <- pmCurrent,
                                    ready <- drivePowerState \/ spinFailed,
                                    trusted <- ~gaveUp
IsPowerSwitch == Switch!Spec

\* As long as it waits for every answer, the support thread never holds two
\* requests at once, over which it would never sleep again.
OneTransition == ~gaveUp => ~ Powers \subseteq inbox \union workBits

\* An I/O thread asleep for power is woken, but for a request cleared, the
\* wakeup missed, or a power manager that went on without an answer
\* (checkPowerStateLocked, setPowerActive).
PowerRestored ==
  \A t \in Threads :
    pc[t] = "asleep" ~> pc[t] /= "asleep" \/ dropped \/ missed \/ gaveUp

\* "restore the pending power state bits" (supportThreadMain): a request the
\* power manager waits for is pending, deferred or under way.
RequestKept ==
  ~gaveUp /\ request /= "none" =>
    request \in inbox \union workBits \union desiredPowerState \union {doing}
=============================================================================
