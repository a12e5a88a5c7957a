----------------------- MODULE PowerManagement_proofs -----------------------
(* A deferred transition is taken up again, and the power manager, the     *)
(* controller and the drives agree, for any number of I/O threads, power   *)
(* requests, sleeps, resets and failures.                                  *)
EXTENDS PowerManagement, TLAPS

Running == {"spin", "spinWait", "done"}
Initialising == {"init", "initWait"}

(* What the stage of the support thread says about the work it is doing,   *)
(* the bits it has left and its own command; only a reset parks commands.  *)
Stages ==
  /\ stage \in {"getWork", "look"} <=> doing = "none"
  /\ stage \in Running => doing \in Powers
  /\ stage = "resubmit" => doing = "reset"
  /\ stage = "getWork" \/ doing \in Powers => workBits = {}
  /\ Own \in active <=> stage \in {"initWait", "spinWait"}
  /\ parked /= {} => doing = "reset" /\ stage /= "init"

(* While the power manager waits, its one request is in exactly one place: *)
(* the inbox, the work bits, deferred, or under way.                       *)
OneRequest ==
  ~gaveUp =>
    /\ inbox \intersect Powers \subseteq {request}
    /\ workBits \intersect Powers \subseteq {request}
    /\ desiredPowerState \subseteq {request}
    /\ doing \in Powers => doing = request
    /\ inbox \intersect Powers /= {} =>
         workBits \intersect Powers = {} /\ desiredPowerState = {} /\ doing \notin Powers
    /\ workBits \intersect Powers /= {} => desiredPowerState = {} /\ doing \notin Powers
    /\ desiredPowerState /= {} => doing \notin Powers

(* A transition is deferred only with suspending set, so that the last     *)
(* command to complete says so.                                            *)
Deferral == /\ ~gaveUp /\ desiredPowerState /= {} => suspending
            /\ DeferralNoticed

(* The drives of an active controller run while it is not on its way to    *)
(* standby, and when it is about to become active.                         *)
Spinning ==
  /\ powerState = "active" /\ doing /= "standby" => drivePowerState \/ spinFailed
  /\ stage = "done" /\ doing = "active" => drivePowerState \/ spinFailed

Inv == TypeOK /\ Stages /\ OneRequest /\ Deferral /\ PMBelief /\ Spinning

(* The controller starts active, with no request and nothing in flight.    *)
LEMMA InitInv == Init => Inv
<1> SUFFICES ASSUME Init PROVE Inv
  OBVIOUS
<1> USE PowerAssumption DEF Init
<1>1. TypeOK
  <2>1. {MaxDowns, MaxSleeps, MaxMishaps} \subseteq Nat
    BY DEF PowerAssumption
  <2>2. budget \in [{"downs", "sleeps", "mishaps"} -> Nat]
    BY <2>1
  <2>3. QED
    BY <2>2 DEF TypeOK, Powers, WorkBits
<1>2. Stages /\ OneRequest /\ Deferral /\ PMBelief /\ Spinning
  BY DEF Stages, OneRequest, Deferral, DeferralNoticed, PMBelief, Spinning, Running, Powers
<1>3. QED
  BY <1>1, <1>2 DEF Inv

(* A bounded resource that is spent stays a number.                        *)
LEMMA Spending ==
  ASSUME TypeOK, NEW what \in {"downs", "sleeps", "mishaps"}, spend(what)
  PROVE  budget' \in [{"downs", "sleeps", "mishaps"} -> Nat]
  BY DEF TypeOK, spend

(* The support thread's own command leaves the active list.                *)
LEMMA OwnDequeued ==
  ASSUME TypeOK, dequeueActive(Own)
  PROVE  active' \subseteq Threads /\ inbox' \subseteq WorkBits
  BY DEF TypeOK, dequeueActive, announced, WorkBits

(* Every step keeps every variable in its type.                            *)
LEMMA TypeStep == TypeOK /\ Stages /\ [Next]_vars => TypeOK'
<1> SUFFICES ASSUME TypeOK, Stages, [Next]_vars PROVE TypeOK'
  OBVIOUS
<1> USE PowerAssumption DEF TypeOK, Stages, Powers, WorkBits, Running, Initialising
<1>1. CASE supportThreadGetWork
  BY <1>1 DEF supportThreadGetWork, inboxLeft, threads, bits, power, pm, history
<1>2. CASE powerTransition
  BY <1>2 DEF powerTransition, restored, desiredLeft, nextPass, mustInit, suspendNow, threads, bits, power, pm, history
<1>3. CASE initController
  BY <1>3 DEF initController, fail, spend, afterInit, GateFree, threads, bits, power, pm, history
<1>4. CASE initDone
  <2>1. budget' \in [{"downs", "sleeps", "mishaps"} -> Nat] /\ drivePowerState' \in BOOLEAN
        /\ needReInit' \in BOOLEAN
    BY <1>4, Spending DEF initDone, fail
  <2>2. active' \subseteq Threads /\ inbox' \subseteq WorkBits
    BY <1>4, OwnDequeued DEF initDone
  <2>3. stage' \in {"resubmit", "spin"}
    BY <1>4 DEF initDone, afterInit
  <2>4. QED
    BY <1>4, <2>1, <2>2, <2>3 DEF initDone, pm, history
<1>5. CASE resubmit
  BY <1>5 DEF resubmit, nextPass, threads, bits, power, pm, history
<1>6. CASE setDrivePower
  BY <1>6 DEF setDrivePower, mustSpin, threads, bits, power, pm, history
<1>7. CASE spinDone
  <2>1. budget' \in [{"downs", "sleeps", "mishaps"} -> Nat]
    BY <1>7, Spending DEF spinDone, fail
  <2>2. drivePowerState' \in BOOLEAN /\ spinFailed' \in BOOLEAN
    BY <1>7, Zenon DEF spinDone
  <2>3. active' \subseteq Threads /\ inbox' \subseteq WorkBits
    BY <1>7, OwnDequeued DEF spinDone
  <2>4. QED
    BY <1>7, <2>1, <2>2, <2>3 DEF spinDone, pm
<1>8. CASE setPowerStandby
  BY <1>8 DEF setPowerStandby, transitionComplete, mustSpin, acknowledgeSetPowerState, threads, bits, power, pm, history
<1>9. CASE setPowerActive
  BY <1>9 DEF setPowerActive, transitionComplete, mustSpin, acknowledgeSetPowerState, commandWakeup, threads, bits, power, pm, history
<1>10. CASE giveUp
  BY <1>10 DEF giveUp, threads, bits, power, pm, history
<1>11. CASE powerDownHandler
  BY <1>11 DEF powerDownHandler, announced, spend, threads, bits, power, pm, history
<1>12. CASE loseCommands
  BY <1>12 DEF loseCommands, threads, bits, power, pm, history
<1>13. CASE requestReset
  BY <1>13 DEF requestReset, spend, threads, bits, power, pm, history
<1>14. ASSUME NEW state \in Powers, setPowerState(state) PROVE TypeOK'
  BY <1>14 DEF setPowerState, spend, threads, bits, power, pm, history
<1>15. ASSUME NEW t \in Threads, checkPowerState(t) PROVE TypeOK'
  BY <1>15 DEF checkPowerState, threads, bits, power, pm, history
<1>16. ASSUME NEW t \in Threads, checkPowerStateLocked(t) PROVE TypeOK'
  BY <1>16 DEF checkPowerStateLocked, threads, bits, power, pm, history
<1>17. ASSUME NEW t \in Threads, commandSleep(t) PROVE TypeOK'
  BY <1>17 DEF commandSleep, threads, bits, power, pm, history
<1>18. ASSUME NEW t \in Threads, issue(t) PROVE TypeOK'
  BY <1>18 DEF issue, threads, bits, power, pm, history
<1>19. ASSUME NEW t \in Threads, handleInterrupt(t) PROVE TypeOK'
  BY <1>19 DEF handleInterrupt, dequeueActive, announced, threads, bits, power, pm, history
<1>20. CASE UNCHANGED vars
  BY <1>20 DEF vars, threads, bits, power, pm, history
<1> QED
  BY <1>1, <1>2, <1>3, <1>4, <1>5, <1>6, <1>7, <1>8, <1>9, <1>10, <1>11, <1>12, <1>13, <1>14, <1>15, <1>16, <1>17, <1>18, <1>19, <1>20 DEF Next, SupportStep, IOStep

(* The support thread moves from stage to stage with the work it has.      *)
LEMMA StagesStep == TypeOK /\ Stages /\ [Next]_vars => Stages'
<1> SUFFICES ASSUME TypeOK, Stages, [Next]_vars PROVE Stages'
  OBVIOUS
<1> USE PowerAssumption DEF TypeOK, Stages, Powers, WorkBits, Running, Initialising
<1>1. CASE supportThreadGetWork
  BY <1>1 DEF supportThreadGetWork, inboxLeft, threads, bits, power, pm, history
<1>2. CASE powerTransition
  BY <1>2 DEF powerTransition, restored, desiredLeft, nextPass, mustInit, suspendNow, threads, bits, power, pm, history
<1>3. CASE initController
  BY <1>3 DEF initController, fail, spend, afterInit, GateFree, threads, bits, power, pm, history
<1>4. CASE initDone
  BY <1>4 DEF initDone, dequeueActive, announced, fail, spend, afterInit, threads, bits, power, pm, history
<1>5. CASE resubmit
  BY <1>5 DEF resubmit, nextPass, threads, bits, power, pm, history
<1>6. CASE setDrivePower
  BY <1>6 DEF setDrivePower, mustSpin, threads, bits, power, pm, history
<1>7. CASE spinDone
  BY <1>7 DEF spinDone, dequeueActive, announced, fail, spend, threads, bits, power, pm, history
<1>8. CASE setPowerStandby
  BY <1>8 DEF setPowerStandby, transitionComplete, mustSpin, acknowledgeSetPowerState, threads, bits, power, pm, history
<1>9. CASE setPowerActive
  BY <1>9 DEF setPowerActive, transitionComplete, mustSpin, acknowledgeSetPowerState, commandWakeup, threads, bits, power, pm, history
<1>10. CASE giveUp
  BY <1>10 DEF giveUp, threads, bits, power, pm, history
<1>11. CASE powerDownHandler
  BY <1>11 DEF powerDownHandler, announced, spend, threads, bits, power, pm, history
<1>12. CASE loseCommands
  BY <1>12 DEF loseCommands, threads, bits, power, pm, history
<1>13. CASE requestReset
  BY <1>13 DEF requestReset, spend, threads, bits, power, pm, history
<1>14. ASSUME NEW state \in Powers, setPowerState(state) PROVE Stages'
  BY <1>14 DEF setPowerState, spend, threads, bits, power, pm, history
<1>15. ASSUME NEW t \in Threads, checkPowerState(t) PROVE Stages'
  BY <1>15 DEF checkPowerState, threads, bits, power, pm, history
<1>16. ASSUME NEW t \in Threads, checkPowerStateLocked(t) PROVE Stages'
  BY <1>16 DEF checkPowerStateLocked, threads, bits, power, pm, history
<1>17. ASSUME NEW t \in Threads, commandSleep(t) PROVE Stages'
  BY <1>17 DEF commandSleep, threads, bits, power, pm, history
<1>18. ASSUME NEW t \in Threads, issue(t) PROVE Stages'
  BY <1>18 DEF issue, threads, bits, power, pm, history
<1>19. ASSUME NEW t \in Threads, handleInterrupt(t) PROVE Stages'
  BY <1>19 DEF handleInterrupt, dequeueActive, announced, threads, bits, power, pm, history
<1>20. CASE UNCHANGED vars
  BY <1>20 DEF vars, threads, bits, power, pm, history
<1> QED
  BY <1>1, <1>2, <1>3, <1>4, <1>5, <1>6, <1>7, <1>8, <1>9, <1>10, <1>11, <1>12, <1>13, <1>14, <1>15, <1>16, <1>17, <1>18, <1>19, <1>20 DEF Next, SupportStep, IOStep

(* A request is handed on, never copied: inbox, work bits, deferral, doing. *)
LEMMA RequestStep == TypeOK /\ Stages /\ OneRequest /\ [Next]_vars => OneRequest'
<1> SUFFICES ASSUME TypeOK, Stages, OneRequest, [Next]_vars PROVE OneRequest'
  OBVIOUS
<1> USE PowerAssumption DEF TypeOK, Stages, OneRequest, Powers, WorkBits, Running
<1>1. CASE supportThreadGetWork
  BY <1>1 DEF supportThreadGetWork, inboxLeft, threads, bits, power, pm, history
<1>2. CASE powerTransition
  <2> SUFFICES ASSUME ~gaveUp PROVE OneRequest'
    BY <1>2 DEF powerTransition, pm
  <2> USE <1>2 DEF powerTransition, restored, desiredLeft, pm
  <2>1. inbox' = inbox /\ request' = request /\ workBits' = {}
    <3>1. ~("standby" \in desiredPowerState /\ "active" \in desiredPowerState)
      OBVIOUS
    <3>2. ~("standby" \in workBits /\ "active" \in workBits)
      OBVIOUS
    <3>3. restored /= Powers
      BY <3>1, <3>2
    <3>4. QED
      BY <3>3
  <2>1a. ASSUME NEW state \in Powers, restored = {state}
        PROVE  state = request /\ desiredLeft = {}
    <3>1. CASE "idled" \in workBits
      BY <2>1a, <3>1
    <3>2. CASE "idled" \notin workBits
      <4>1. state \in workBits \intersect Powers
        BY <2>1a, <3>2
      <4>2. QED
        BY <4>1, <3>2
    <3>3. QED
      BY <3>1, <3>2
  <2>2. CASE restored = {}
    BY <2>1, <2>2
  <2>3. CASE restored /= {} /\ ~(restored = {"standby"} /\ ~suspendNow)
    <3>1. doing' = request /\ desiredPowerState' = {}
      <4>1. CASE restored = {"standby"}
        BY <2>1a, <2>3, <4>1
      <4>2. CASE restored = {"active"}
        BY <2>1a, <2>3, <4>2
      <4>3. restored /= Powers
        BY <2>1
      <4>4. QED
        BY <2>3, <4>1, <4>2, <4>3
    <3>2. inbox \intersect Powers = {}
      BY <2>3
    <3>3. QED
      BY <2>1, <3>1, <3>2
  <2>4. CASE restored = {"standby"} /\ ~suspendNow
    <3>1. desiredPowerState' = {request} /\ doing' = doing
      BY <2>4 DEF suspendNow
    <3>2. inbox \intersect Powers = {} /\ doing = "none"
      BY <2>4
    <3>3. QED
      BY <2>1, <3>1, <3>2
  <2>5. QED
    BY <2>2, <2>3, <2>4
<1>3. CASE initController
  BY <1>3 DEF initController, fail, spend, afterInit, GateFree, threads, bits, power, pm, history
<1>4. CASE initDone
  BY <1>4 DEF initDone, dequeueActive, announced, fail, spend, afterInit, threads, bits, power, pm, history
<1>5. CASE resubmit
  BY <1>5 DEF resubmit, nextPass, threads, bits, power, pm, history
<1>6. CASE setDrivePower
  BY <1>6 DEF setDrivePower, mustSpin, threads, bits, power, pm, history
<1>7. CASE spinDone
  BY <1>7 DEF spinDone, dequeueActive, announced, fail, spend, threads, bits, power, pm, history
<1>8. CASE setPowerStandby
  BY <1>8 DEF setPowerStandby, transitionComplete, mustSpin, acknowledgeSetPowerState, threads, bits, power, pm, history
<1>9. CASE setPowerActive
  BY <1>9 DEF setPowerActive, transitionComplete, mustSpin, acknowledgeSetPowerState, commandWakeup, threads, bits, power, pm, history
<1>10. CASE giveUp
  BY <1>10 DEF giveUp, threads, bits, power, pm, history
<1>11. CASE powerDownHandler
  BY <1>11 DEF powerDownHandler, announced, spend, threads, bits, power, pm, history
<1>12. CASE loseCommands
  BY <1>12 DEF loseCommands, threads, bits, power, pm, history
<1>13. CASE requestReset
  BY <1>13 DEF requestReset, spend, threads, bits, power, pm, history
<1>14. ASSUME NEW state \in Powers, setPowerState(state) PROVE OneRequest'
  BY <1>14 DEF setPowerState, spend, threads, bits, power, pm, history
<1>15. ASSUME NEW t \in Threads, checkPowerState(t) PROVE OneRequest'
  BY <1>15 DEF checkPowerState, threads, bits, power, pm, history
<1>16. ASSUME NEW t \in Threads, checkPowerStateLocked(t) PROVE OneRequest'
  BY <1>16 DEF checkPowerStateLocked, threads, bits, power, pm, history
<1>17. ASSUME NEW t \in Threads, commandSleep(t) PROVE OneRequest'
  BY <1>17 DEF commandSleep, threads, bits, power, pm, history
<1>18. ASSUME NEW t \in Threads, issue(t) PROVE OneRequest'
  BY <1>18 DEF issue, threads, bits, power, pm, history
<1>19. ASSUME NEW t \in Threads, handleInterrupt(t) PROVE OneRequest'
  BY <1>19 DEF handleInterrupt, dequeueActive, announced, threads, bits, power, pm, history
<1>20. CASE UNCHANGED vars
  BY <1>20 DEF vars, threads, bits, power, pm, history
<1> QED
  BY <1>1, <1>2, <1>3, <1>4, <1>5, <1>6, <1>7, <1>8, <1>9, <1>10, <1>11, <1>12, <1>13, <1>14, <1>15, <1>16, <1>17, <1>18, <1>19, <1>20 DEF Next, SupportStep, IOStep

(* The last command to leave the active list announces it.                 *)
LEMMA DeferralStep == TypeOK /\ Stages /\ OneRequest /\ Deferral /\ [Next]_vars => Deferral'
<1> SUFFICES ASSUME TypeOK, Stages, OneRequest, Deferral, [Next]_vars PROVE Deferral'
  OBVIOUS
<1> USE PowerAssumption DEF TypeOK, Stages, OneRequest, Deferral, DeferralNoticed, Powers, WorkBits, Running
<1>1. CASE supportThreadGetWork
  BY <1>1 DEF supportThreadGetWork, inboxLeft, threads, bits, power, pm, history
<1>2. CASE powerTransition
  BY <1>2 DEF powerTransition, restored, desiredLeft, nextPass, mustInit, suspendNow, threads, bits, power, pm, history
<1>3. CASE initController
  BY <1>3 DEF initController, fail, spend, afterInit, GateFree, threads, bits, power, pm, history
<1>4. CASE initDone
  BY <1>4 DEF initDone, dequeueActive, announced, fail, spend, afterInit, threads, bits, power, pm, history
<1>5. CASE resubmit
  BY <1>5 DEF resubmit, nextPass, threads, bits, power, pm, history
<1>6. CASE setDrivePower
  BY <1>6 DEF setDrivePower, mustSpin, threads, bits, power, pm, history
<1>7. CASE spinDone
  BY <1>7 DEF spinDone, dequeueActive, announced, fail, spend, threads, bits, power, pm, history
<1>8. CASE setPowerStandby
  BY <1>8 DEF setPowerStandby, transitionComplete, mustSpin, acknowledgeSetPowerState, threads, bits, power, pm, history
<1>9. CASE setPowerActive
  BY <1>9 DEF setPowerActive, transitionComplete, mustSpin, acknowledgeSetPowerState, commandWakeup, threads, bits, power, pm, history
<1>10. CASE giveUp
  BY <1>10 DEF giveUp, threads, bits, power, pm, history
<1>11. CASE powerDownHandler
  BY <1>11 DEF powerDownHandler, announced, spend, threads, bits, power, pm, history
<1>12. CASE loseCommands
  BY <1>12 DEF loseCommands, threads, bits, power, pm, history
<1>13. CASE requestReset
  BY <1>13 DEF requestReset, spend, threads, bits, power, pm, history
<1>14. ASSUME NEW state \in Powers, setPowerState(state) PROVE Deferral'
  BY <1>14 DEF setPowerState, spend, threads, bits, power, pm, history
<1>15. ASSUME NEW t \in Threads, checkPowerState(t) PROVE Deferral'
  BY <1>15 DEF checkPowerState, threads, bits, power, pm, history
<1>16. ASSUME NEW t \in Threads, checkPowerStateLocked(t) PROVE Deferral'
  BY <1>16 DEF checkPowerStateLocked, threads, bits, power, pm, history
<1>17. ASSUME NEW t \in Threads, commandSleep(t) PROVE Deferral'
  BY <1>17 DEF commandSleep, threads, bits, power, pm, history
<1>18. ASSUME NEW t \in Threads, issue(t) PROVE Deferral'
  BY <1>18 DEF issue, threads, bits, power, pm, history
<1>19. ASSUME NEW t \in Threads, handleInterrupt(t) PROVE Deferral'
  BY <1>19 DEF handleInterrupt, dequeueActive, announced, threads, bits, power, pm, history
<1>20. CASE UNCHANGED vars
  BY <1>20 DEF vars, threads, bits, power, pm, history
<1> QED
  BY <1>1, <1>2, <1>3, <1>4, <1>5, <1>6, <1>7, <1>8, <1>9, <1>10, <1>11, <1>12, <1>13, <1>14, <1>15, <1>16, <1>17, <1>18, <1>19, <1>20 DEF Next, SupportStep, IOStep

(* The acknowledgement carries the state the controller is then in.        *)
LEMMA BeliefStep == TypeOK /\ Stages /\ OneRequest /\ PMBelief /\ [Next]_vars => PMBelief'
<1> SUFFICES ASSUME TypeOK, Stages, OneRequest, PMBelief, [Next]_vars PROVE PMBelief'
  OBVIOUS
<1> USE PowerAssumption DEF TypeOK, Stages, OneRequest, PMBelief, Powers, WorkBits, Running
<1>1. CASE supportThreadGetWork
  BY <1>1 DEF supportThreadGetWork, inboxLeft, threads, bits, power, pm, history
<1>2. CASE powerTransition
  BY <1>2 DEF powerTransition, restored, desiredLeft, nextPass, mustInit, suspendNow, threads, bits, power, pm, history
<1>3. CASE initController
  BY <1>3 DEF initController, fail, spend, afterInit, GateFree, threads, bits, power, pm, history
<1>4. CASE initDone
  BY <1>4 DEF initDone, dequeueActive, announced, fail, spend, afterInit, threads, bits, power, pm, history
<1>5. CASE resubmit
  BY <1>5 DEF resubmit, nextPass, threads, bits, power, pm, history
<1>6. CASE setDrivePower
  BY <1>6 DEF setDrivePower, mustSpin, threads, bits, power, pm, history
<1>7. CASE spinDone
  BY <1>7 DEF spinDone, dequeueActive, announced, fail, spend, threads, bits, power, pm, history
<1>8. CASE setPowerStandby
  BY <1>8 DEF setPowerStandby, transitionComplete, mustSpin, acknowledgeSetPowerState, threads, bits, power, pm, history
<1>9. CASE setPowerActive
  BY <1>9 DEF setPowerActive, transitionComplete, mustSpin, acknowledgeSetPowerState, commandWakeup, threads, bits, power, pm, history
<1>10. CASE giveUp
  BY <1>10 DEF giveUp, threads, bits, power, pm, history
<1>11. CASE powerDownHandler
  BY <1>11 DEF powerDownHandler, announced, spend, threads, bits, power, pm, history
<1>12. CASE loseCommands
  BY <1>12 DEF loseCommands, threads, bits, power, pm, history
<1>13. CASE requestReset
  BY <1>13 DEF requestReset, spend, threads, bits, power, pm, history
<1>14. ASSUME NEW state \in Powers, setPowerState(state) PROVE PMBelief'
  BY <1>14 DEF setPowerState, spend, threads, bits, power, pm, history
<1>15. ASSUME NEW t \in Threads, checkPowerState(t) PROVE PMBelief'
  BY <1>15 DEF checkPowerState, threads, bits, power, pm, history
<1>16. ASSUME NEW t \in Threads, checkPowerStateLocked(t) PROVE PMBelief'
  BY <1>16 DEF checkPowerStateLocked, threads, bits, power, pm, history
<1>17. ASSUME NEW t \in Threads, commandSleep(t) PROVE PMBelief'
  BY <1>17 DEF commandSleep, threads, bits, power, pm, history
<1>18. ASSUME NEW t \in Threads, issue(t) PROVE PMBelief'
  BY <1>18 DEF issue, threads, bits, power, pm, history
<1>19. ASSUME NEW t \in Threads, handleInterrupt(t) PROVE PMBelief'
  BY <1>19 DEF handleInterrupt, dequeueActive, announced, threads, bits, power, pm, history
<1>20. CASE UNCHANGED vars
  BY <1>20 DEF vars, threads, bits, power, pm, history
<1> QED
  BY <1>1, <1>2, <1>3, <1>4, <1>5, <1>6, <1>7, <1>8, <1>9, <1>10, <1>11, <1>12, <1>13, <1>14, <1>15, <1>16, <1>17, <1>18, <1>19, <1>20 DEF Next, SupportStep, IOStep

(* Drives are started before the controller is called active.              *)
LEMMA SpinningStep == TypeOK /\ Stages /\ Spinning /\ [Next]_vars => Spinning'
<1> SUFFICES ASSUME TypeOK, Stages, Spinning, [Next]_vars PROVE Spinning'
  OBVIOUS
<1> USE PowerAssumption DEF TypeOK, Stages, Spinning, Powers, WorkBits, Running
<1>1. CASE supportThreadGetWork
  BY <1>1 DEF supportThreadGetWork, inboxLeft, threads, bits, power, pm, history
<1>2. CASE powerTransition
  BY <1>2 DEF powerTransition, restored, desiredLeft, nextPass, mustInit, suspendNow, threads, bits, power, pm, history
<1>3. CASE initController
  BY <1>3 DEF initController, fail, spend, afterInit, GateFree, threads, bits, power, pm, history
<1>4. CASE initDone
  BY <1>4 DEF initDone, dequeueActive, announced, fail, spend, afterInit, threads, bits, power, pm, history
<1>5. CASE resubmit
  BY <1>5 DEF resubmit, nextPass, threads, bits, power, pm, history
<1>6. CASE setDrivePower
  BY <1>6 DEF setDrivePower, mustSpin, threads, bits, power, pm, history
<1>7. CASE spinDone
  BY <1>7 DEF spinDone, dequeueActive, announced, fail, spend, threads, bits, power, pm, history
<1>8. CASE setPowerStandby
  BY <1>8 DEF setPowerStandby, transitionComplete, mustSpin, acknowledgeSetPowerState, threads, bits, power, pm, history
<1>9. CASE setPowerActive
  BY <1>9 DEF setPowerActive, transitionComplete, mustSpin, acknowledgeSetPowerState, commandWakeup, threads, bits, power, pm, history
<1>10. CASE giveUp
  BY <1>10 DEF giveUp, threads, bits, power, pm, history
<1>11. CASE powerDownHandler
  BY <1>11 DEF powerDownHandler, announced, spend, threads, bits, power, pm, history
<1>12. CASE loseCommands
  BY <1>12 DEF loseCommands, threads, bits, power, pm, history
<1>13. CASE requestReset
  BY <1>13 DEF requestReset, spend, threads, bits, power, pm, history
<1>14. ASSUME NEW state \in Powers, setPowerState(state) PROVE Spinning'
  BY <1>14 DEF setPowerState, spend, threads, bits, power, pm, history
<1>15. ASSUME NEW t \in Threads, checkPowerState(t) PROVE Spinning'
  BY <1>15 DEF checkPowerState, threads, bits, power, pm, history
<1>16. ASSUME NEW t \in Threads, checkPowerStateLocked(t) PROVE Spinning'
  BY <1>16 DEF checkPowerStateLocked, threads, bits, power, pm, history
<1>17. ASSUME NEW t \in Threads, commandSleep(t) PROVE Spinning'
  BY <1>17 DEF commandSleep, threads, bits, power, pm, history
<1>18. ASSUME NEW t \in Threads, issue(t) PROVE Spinning'
  BY <1>18 DEF issue, threads, bits, power, pm, history
<1>19. ASSUME NEW t \in Threads, handleInterrupt(t) PROVE Spinning'
  BY <1>19 DEF handleInterrupt, dequeueActive, announced, threads, bits, power, pm, history
<1>20. CASE UNCHANGED vars
  BY <1>20 DEF vars, threads, bits, power, pm, history
<1> QED
  BY <1>1, <1>2, <1>3, <1>4, <1>5, <1>6, <1>7, <1>8, <1>9, <1>10, <1>11, <1>12, <1>13, <1>14, <1>15, <1>16, <1>17, <1>18, <1>19, <1>20 DEF Next, SupportStep, IOStep
-----------------------------------------------------------------------------
LEMMA InvHolds == Spec => []Inv
<1>1. Inv /\ [Next]_vars => Inv'
  BY TypeStep, StagesStep, RequestStep, DeferralStep, BeliefStep, SpinningStep DEF Inv
<1> QED
  BY <1>1, InitInv, PTL DEF Spec

(* Power management is well typed, for any number of I/O threads.          *)
THEOREM PowerTypeCorrect == Spec => []TypeOK
<1>1. Inv => TypeOK
  BY DEF Inv
<1> QED
  BY <1>1, InvHolds, PTL

(* setPowerActive never calls the controller active with drives that could *)
(* have been started and were not.                                         *)
THEOREM ActiveSpins == Spec => []ActiveIsSpinning
<1>1. Inv => ActiveIsSpinning
  BY DEF Inv, Spinning, ActiveIsSpinning
<1> QED
  BY <1>1, InvHolds, PTL

(* A standby that setSuspending deferred is always announced by the last   *)
(* command, also across resets and initialisations.                        *)
THEOREM DeferralsNoticed == Spec => []DeferralNoticed
<1>1. Inv => DeferralNoticed
  BY DEF Inv, Deferral
<1> QED
  BY <1>1, InvHolds, PTL

(* The power manager that waits for its answers knows the power state.     *)
THEOREM BeliefIsRight == Spec => []PMBelief
<1>1. Inv => PMBelief
  BY DEF Inv
<1> QED
  BY <1>1, InvHolds, PTL

(* The support thread of a power manager that waits never holds standby    *)
(* and active at once.                                                     *)
THEOREM NeverBothTransitions == Spec => []OneTransition
<1>1. Inv => OneTransition
  BY DEF Inv, OneRequest, OneTransition, Powers
<1> QED
  BY <1>1, InvHolds, PTL
-----------------------------------------------------------------------------
(* The safety behind PowerRestored: an I/O thread never sleeps on a        *)
(* controller that is active, unless it missed the wakeup, and a request   *)
(* the power manager waits for is somewhere, unless it was dropped.        *)
SleepsInStandby ==
  ~missed => \A t \in Threads : pc[t] \in {"falling", "asleep"} => powerState = "standby"

KeptUnlessDropped == ~dropped => RequestKept

LEMMA SleepStep == TypeOK /\ SleepsInStandby /\ [Next]_vars => SleepsInStandby'
<1> SUFFICES ASSUME TypeOK, SleepsInStandby, [Next]_vars, ~missed' PROVE SleepsInStandby'
  BY DEF SleepsInStandby
<1> USE DEF SleepsInStandby
<1>m. ~missed
  BY DEF Next, SupportStep, IOStep, supportThreadGetWork, powerTransition, initController,
     initDone, resubmit, setDrivePower, spinDone, setPowerStandby, setPowerActive,
     checkPowerState, checkPowerStateLocked, commandSleep, issue, handleInterrupt,
     setPowerState, giveUp, powerDownHandler, loseCommands, requestReset, history, vars
<1>1. CASE setPowerActive
  <2>1. \A t \in Threads : pc'[t] \notin {"falling", "asleep"}
    BY <1>1 DEF setPowerActive, GateFree, commandWakeup
  <2> QED
    BY <2>1
<1>2. CASE setPowerStandby
  BY <1>2 DEF setPowerStandby
<1>3. CASE \E t \in Threads : IOStep(t)
  <2>1. PICK t \in Threads : IOStep(t)
    BY <1>3
  <2>2. UNCHANGED powerState
    BY <2>1 DEF IOStep, checkPowerState, checkPowerStateLocked, commandSleep, issue,
       handleInterrupt, power
  <2>3. pc'[t] \in {"falling", "asleep"} => powerState = "standby"
    BY <1>m, <2>1 DEF IOStep, checkPowerState, checkPowerStateLocked, commandSleep, issue,
       handleInterrupt, TypeOK, Powers
  <2>4. \A u \in Threads \ {t} : pc'[u] = pc[u]
    BY <2>1 DEF IOStep, checkPowerState, checkPowerStateLocked, commandSleep, issue,
       handleInterrupt, TypeOK
  <2> QED
    BY <1>m, <2>2, <2>3, <2>4
<1>4. CASE UNCHANGED <<pc, powerState>>
  BY <1>m, <1>4
<1> QED
  BY <1>1, <1>2, <1>3, <1>4 DEF Next, SupportStep, supportThreadGetWork, powerTransition,
     initController, initDone, resubmit, setDrivePower, spinDone, setPowerState, giveUp,
     powerDownHandler, loseCommands, requestReset, threads, power, vars

LEMMA KeptStep == Inv /\ KeptUnlessDropped /\ [Next]_vars => KeptUnlessDropped'
<1> SUFFICES ASSUME Inv, KeptUnlessDropped, [Next]_vars,
                    ~dropped', ~gaveUp', request' /= "none"
             PROVE  RequestKept'
  BY DEF KeptUnlessDropped, RequestKept
<1>t. TypeOK /\ Stages /\ OneRequest
  BY DEF Inv
<1>m1. ~dropped
  BY <1>t DEF Next, SupportStep, IOStep, supportThreadGetWork, powerTransition, initController,
     initDone, resubmit, setDrivePower, spinDone, setPowerStandby, setPowerActive,
     checkPowerState, checkPowerStateLocked, commandSleep, issue, handleInterrupt,
     setPowerState, giveUp, powerDownHandler, loseCommands, requestReset, history, vars
<1>m2. ~gaveUp
  BY DEF Next, SupportStep, IOStep, supportThreadGetWork, powerTransition, initController,
     initDone, resubmit, setDrivePower, spinDone, setPowerStandby, setPowerActive,
     checkPowerState, checkPowerStateLocked, commandSleep, issue, handleInterrupt,
     setPowerState, giveUp, powerDownHandler, loseCommands, requestReset,
     acknowledgeSetPowerState, pm, vars
<1>m. ~dropped /\ ~gaveUp
  BY <1>m1, <1>m2
<1>k. request \in Powers => request \in inbox \union workBits \union desiredPowerState \union {doing}
  BY <1>m DEF KeptUnlessDropped, RequestKept, Powers
<1>1. CASE supportThreadGetWork
  <2>1. request' = request /\ request \in Powers /\ UNCHANGED desiredPowerState
    BY <1>1, <1>t DEF supportThreadGetWork, pm, TypeOK
  <2>2. doing = "none" /\ workBits \intersect Powers = {}
    BY <1>1, <1>t DEF supportThreadGetWork, Stages
  <2> QED
    BY <1>1, <1>k, <2>1, <2>2 DEF supportThreadGetWork, RequestKept, Powers
<1>2. CASE powerTransition
  <2>1. request' = request /\ request \in Powers /\ inbox' = inbox
    BY <1>2, <1>t DEF powerTransition, pm, TypeOK
  <2>2. doing = "none"
    BY <1>2, <1>t DEF powerTransition, Stages
  <2>3. workBits \intersect Powers \subseteq restored
    BY <1>2 DEF powerTransition
  <2>4. CASE request \in inbox
    BY <2>1, <2>4 DEF RequestKept
  <2>5. CASE request \in workBits \union desiredPowerState /\ request \notin inbox
    <3>1. CASE request \in restored
      <4>1. request = "standby" \/ request = "active"
        BY <2>1 DEF Powers
      <4>2. restored /= {} /\ restored /= {"standby", "active"}
        BY <1>m, <1>t, <3>1 DEF restored, OneRequest, TypeOK, Powers, WorkBits
      <4>3. restored = {request}
        BY <1>2, <3>1, <4>2 DEF powerTransition, Powers
      <4> QED
        BY <1>2, <2>1, <4>1, <4>2, <4>3 DEF powerTransition, RequestKept, Powers
    <3>2. CASE request \notin restored
      <4>1. request \in desiredPowerState /\ "idled" \notin workBits
        BY <2>1, <2>3, <2>5, <3>2 DEF restored
      <4>2. request \in desiredPowerState'
        BY <1>2, <4>1, <1>t DEF powerTransition, desiredLeft, TypeOK
      <4> QED
        BY <4>2, <2>1 DEF RequestKept
    <3> QED
      BY <3>1, <3>2
  <2> QED
    BY <1>k, <2>1, <2>2, <2>4, <2>5 DEF Powers
<1>3. CASE setPowerStandby \/ setPowerActive
  BY <1>3 DEF setPowerStandby, setPowerActive, acknowledgeSetPowerState
<1>4. CASE \E state \in Powers : setPowerState(state)
  BY <1>4 DEF setPowerState, RequestKept
<1>5. CASE resubmit
  BY <1>5, <1>k, <1>t DEF resubmit, Stages, RequestKept, TypeOK, Powers, bits, pm
<1>6. CASE \/ \E t \in Threads : IOStep(t)
           \/ initController \/ initDone \/ setDrivePower \/ spinDone
           \/ powerDownHandler \/ loseCommands \/ requestReset
  <2>1. UNCHANGED <<request, workBits, desiredPowerState, doing>> /\ inbox \subseteq inbox'
    BY <1>6 DEF IOStep, checkPowerState, checkPowerStateLocked, commandSleep, issue,
       handleInterrupt, dequeueActive, initController, initDone, setDrivePower, spinDone,
       powerDownHandler, loseCommands, requestReset, bits, pm
  <2> QED
    BY <1>k, <1>t, <2>1 DEF RequestKept, TypeOK
<1>7. CASE UNCHANGED vars
  BY <1>7, <1>k, <1>t DEF vars, bits, pm, RequestKept, TypeOK
<1> QED
  BY <1>1, <1>2, <1>3, <1>4, <1>5, <1>6, <1>7 DEF Next, SupportStep, giveUp

(* An open request is lost in one way only, that of request_dropped: an    *)
(* ST_DO_IDLED in its pass (supportThreadMain).                            *)
THEOREM OnlyIdledDrops == Spec => [](~dropped => RequestKept)
<1>1. Init => KeptUnlessDropped
  BY DEF Init, KeptUnlessDropped, RequestKept
<1> QED
  BY <1>1, KeptStep, InvHolds, PTL DEF Spec, KeptUnlessDropped

(* An I/O thread asleep for power sleeps on a controller in standby, and   *)
(* the power manager knows that and may ask for power, or has an open      *)
(* request that the support thread will come to; but for the three ways    *)
(* PowerRestored names (checkPowerStateLocked, setPowerActive).            *)
SleeperHasWaker ==
  ~(dropped \/ missed \/ gaveUp) /\ (\E t \in Threads : pc[t] = "asleep") =>
    /\ powerState = "standby"
    /\ \/ request = "none" /\ pmCurrent = "standby"
       \/ request \in inbox \union workBits \union desiredPowerState \union {doing}

(* See SleeperHasWaker: a lost wakeup needs one of the three.              *)
THEOREM SleepersHaveWakers == Spec => []SleeperHasWaker
<1>1. Init => SleepsInStandby
  BY DEF Init, SleepsInStandby
<1>2. Inv /\ SleepsInStandby /\ (~dropped => RequestKept) => SleeperHasWaker
  BY DEF Inv, PMBelief, SleepsInStandby, RequestKept, SleeperHasWaker
<1>3. Spec => []SleepsInStandby
  <2>1. Inv /\ SleepsInStandby /\ [Next]_vars => SleepsInStandby'
    BY SleepStep DEF Inv
  <2> QED
    BY <1>1, <2>1, InvHolds, PTL DEF Spec
<1> QED
  BY <1>2, <1>3, InvHolds, OnlyIdledDrops, PTL
-----------------------------------------------------------------------------
(* The refinement of PowerSwitch.                                          *)
Ready == drivePowerState \/ spinFailed
Unseen == UNCHANGED <<powerState, Ready, pmCurrent, request, gaveUp>>

(* What is asked, begun and given up outside the support thread.           *)
LEMMA AskSwitches ==
  ASSUME NEW state \in Powers, setPowerState(state)
  PROVE  Switch!Next
BY DEF setPowerState, Switch!Next, Switch!Ask, power, history

(* A transition stops drives only on its way to standby, and it carries    *)
(* out the request the power manager waits for.                            *)
LEMMA DrivesSwitch ==
  ASSUME Inv, TypeOK', ~gaveUp, initDone \/ spinDone
  PROVE  Switch!Next \/ Unseen
<1>1. UNCHANGED <<powerState, pmCurrent, request, gaveUp>>
  BY DEF initDone, spinDone, pm
<1>2. CASE initDone
  <2>1. drivePowerState' = TRUE \/ UNCHANGED drivePowerState
    BY <1>2 DEF initDone
  <2>2. UNCHANGED spinFailed
    BY <1>2 DEF initDone, history
  <2>3. CASE drivePowerState' = TRUE
    BY <1>1, <2>3 DEF Switch!Next, Switch!StartDrives
  <2>4. CASE UNCHANGED drivePowerState
    BY <1>1, <2>2, <2>4 DEF Unseen, Ready
  <2>5. QED
    BY <2>1, <2>3, <2>4
<1>3. CASE spinDone
  <2>1. doing \in Powers /\ doing = request
    BY <1>3 DEF spinDone, Inv, Stages, Running, OneRequest
  <2>2. CASE doing = "active"
    <3>1. drivePowerState' = TRUE \/ spinFailed' = TRUE
      BY <1>3, <2>2 DEF spinDone
    <3>2. QED
      BY <1>1, <3>1 DEF Switch!Next, Switch!StartDrives
  <2>3. CASE doing = "standby"
    <3>1. CASE drivePowerState' \/ spinFailed'
      BY <1>1, <3>1 DEF Switch!Next, Switch!StartDrives
    <3>2. CASE ~(drivePowerState' \/ spinFailed')
      BY <1>1, <2>1, <2>3, <3>2 DEF Switch!Next, Switch!StopDrives
    <3>3. QED
      BY <3>1, <3>2
  <2>4. QED
    BY <2>1, <2>2, <2>3 DEF Powers
<1>4. QED
  BY <1>2, <1>3

LEMMA TransitionSwitches ==
  ASSUME Inv, ~gaveUp, setPowerStandby \/ setPowerActive
  PROVE  Switch!Next
<1>1. doing \in Powers /\ doing = request /\ request /= "none"
  BY DEF setPowerStandby, setPowerActive, Inv, OneRequest, Powers
<1>2. doing = "active" => Ready
  <2>1. ASSUME doing = "active", stage = "spin", ~mustSpin PROVE Ready
    BY <2>1 DEF mustSpin, Ready, Inv, Spinning, TypeOK, Powers
  <2>2. ASSUME doing = "active", stage = "done" PROVE Ready
    BY <2>2 DEF Ready, Inv, Spinning
  <2>3. QED
    BY <2>1, <2>2 DEF setPowerStandby, setPowerActive, transitionComplete
<1>3. powerState' = request /\ pmCurrent' = request /\ request' = "none"
  BY <1>1 DEF setPowerStandby, setPowerActive, acknowledgeSetPowerState
<1>4. UNCHANGED <<drivePowerState, spinFailed, gaveUp>>
  BY DEF setPowerStandby, setPowerActive, acknowledgeSetPowerState, history
<1>5. QED
  BY <1>1, <1>2, <1>3, <1>4 DEF Switch!Next, Switch!Answer, Ready

LEMMA StepSwitches == Inv /\ Inv' /\ [Next]_vars => [Switch!Next]_(Switch!vars)
<1> SUFFICES ASSUME Inv, Inv', [Next]_vars PROVE Switch!Next \/ Unseen
  BY DEF Unseen, Ready, Switch!vars
<1>1. CASE gaveUp'
  BY <1>1 DEF Switch!Next
<1>2. CASE ~gaveUp'
  <2>1. ~gaveUp
    BY <1>2 DEF Next, SupportStep, IOStep, supportThreadGetWork, powerTransition, initController,
       initDone, resubmit, setDrivePower, spinDone, setPowerStandby, setPowerActive,
       checkPowerState, checkPowerStateLocked, commandSleep, issue, handleInterrupt,
       setPowerState, giveUp, powerDownHandler, loseCommands, requestReset,
       acknowledgeSetPowerState, pm, vars
  <2>2. CASE UNCHANGED vars
    BY <2>2 DEF vars, power, pm, history, Unseen, Ready
  <2>3. CASE \E t \in Threads : IOStep(t)
    BY <2>3 DEF IOStep, checkPowerState, checkPowerStateLocked, commandSleep, issue,
       handleInterrupt, power, pm, history, Unseen, Ready
  <2>4. CASE powerDownHandler \/ loseCommands \/ requestReset
    BY <2>4 DEF powerDownHandler, loseCommands, requestReset, power, pm, history, Unseen, Ready
  <2>5. CASE supportThreadGetWork \/ powerTransition \/ initController \/ resubmit \/ setDrivePower
    BY <2>5 DEF supportThreadGetWork, powerTransition, initController, resubmit, setDrivePower,
       power, pm, history, Unseen, Ready
  <2>6. CASE initDone \/ spinDone
    BY <2>1, <2>6, DrivesSwitch DEF Inv
  <2>7. CASE setPowerStandby \/ setPowerActive
    BY <2>1, <2>7, TransitionSwitches
  <2>8. CASE \E state \in Powers : setPowerState(state)
    BY <2>8, AskSwitches
  <2>9. ~giveUp
    BY <1>2 DEF giveUp
  <2>10. QED
    BY <2>2, <2>3, <2>4, <2>5, <2>6, <2>7, <2>8, <2>9 DEF Next, SupportStep
<1>3. QED
  BY <1>1, <1>2

(* To a power manager that waits for every answer the controller is a      *)
(* PowerSwitch: each request is answered once, when the state changes, and *)
(* neither state nor drives change unasked, although a request may pass    *)
(* through the inbox, the work bits and a deferral (setPowerState,         *)
(* supportThreadMain, acknowledgeSetPowerState).                           *)
THEOREM ControllerIsSwitch == Spec => IsPowerSwitch
<1>1. Init => Switch!Init
  BY DEF Init, Switch!Init
<1>2. QED
  BY <1>1, StepSwitches, InvHolds, PTL DEF Spec, IsPowerSwitch, Switch!Spec
=============================================================================
