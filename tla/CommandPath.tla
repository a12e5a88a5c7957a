---------------------------- MODULE CommandPath ----------------------------
(***************************************************************************)
(* The path of a command through the Escalade driver: taken from its pool, *)
(* posted to the controller, completed by the interrupt handler or parked  *)
(* and resubmitted by a controller reset, and returned to its pool.        *)
(*                                                                         *)
(* Everything the driver does to a command happens with the work loop's    *)
(* gate held, so an action is one gate-held segment: it starts when a      *)
(* thread enters the gate (or wakes in it) and ends where the thread       *)
(* leaves it or goes to sleep in commandSleep.  The resubmission loop of   *)
(* resetController is split into one action per command, during which the  *)
(* support thread keeps the gate (GateFree is false) and only the hardware *)
(* moves.                                                                  *)
(*                                                                         *)
(* One command has one link field, fCommandChain, used by the pools, by    *)
(* activeCommands and by the reset's local queue; link[c] is the queue it  *)
(* is on.  A queue macro applied to a command that is on another queue, or *)
(* on none, follows stale pointers: corrupt records that this happened.    *)
(***************************************************************************)
EXTENDS Integers, FiniteSets

CONSTANTS
  IOCommands, AdminCommands, UserCommands,     \* the commands, by commandType
  Emergency,        \* the admin command kept out of the pool for resets
  AsyncReqs,        \* reads and writes: doAsyncReadWrite
  FlushReqs,        \* cache flushes: doSynchronizeCache
  AdminReqs,        \* parameter reads by other threads: getParam
  UserReqs,         \* commands of the user client: doCommand
  SupportThread, None,
  Statuses,         \* completion statuses the hardware uses
  ResetOutcomes,    \* what can become of a soft reset
  QueueCanFill,     \* can the controller's command queue be full?
  PrepareCanFail,   \* can prepare() fail (no memory, bad alignment)?
  TWE_TIMEOUT_DEFAULT, TWE_TIMEOUT_USERCLIENT, TWE_TIMEOUT_COST,
  MaxTicks,         \* bound: timer expiries
  MaxResets,        \* bound: resets asked for from outside the support thread
  MaxAENs           \* bound: attention interrupts

Commands == IOCommands \union AdminCommands \union UserCommands
Requests == AsyncReqs \union FlushReqs \union AdminReqs \union UserReqs
SyncReqs == FlushReqs \union AdminReqs \union UserReqs
Clients  == Requests \union {SupportThread}

ASSUME CommandAssumption ==
  /\ IOCommands \intersect AdminCommands = {}
  /\ IOCommands \intersect UserCommands = {}
  /\ AdminCommands \intersect UserCommands = {}
  /\ Emergency \in AdminCommands
  /\ None \notin Commands

ASSUME RequestAssumption ==
  /\ AsyncReqs \intersect SyncReqs = {}
  /\ FlushReqs \intersect AdminReqs = {}
  /\ FlushReqs \intersect UserReqs = {}
  /\ AdminReqs \intersect UserReqs = {}
  /\ SupportThread \notin Requests
  /\ None \notin Requests

ASSUME EnvironmentAssumption ==
  /\ Statuses \subseteq {"ok", "error", "reset"}
  /\ ResetOutcomes \subseteq {"ok", "stuck", "errors"}
  /\ QueueCanFill \in BOOLEAN /\ PrepareCanFail \in BOOLEAN
  /\ TWE_TIMEOUT_DEFAULT \in Nat \ {0} /\ TWE_TIMEOUT_USERCLIENT \in Nat
  /\ TWE_TIMEOUT_COST \in Nat
  /\ MaxTicks \in Nat /\ MaxResets \in Nat /\ MaxAENs \in Nat

VARIABLES
  link,         \* queue each command's fCommandChain is on
  corrupt,      \* a stale chain pointer or a null emergency command was used
  emergency,    \* emergencyCommand
  outstanding,  \* hardware: commands the controller has been given
  responses,    \* hardware: completed tags in the response queue
  intr,         \* hardware: are interrupts enabled?
  resetting,    \* the driver's flag
  inbox,        \* supportThreadInbox
  workBits,     \* the support thread's local copy
  pc,           \* where each client is
  cmd,          \* the command each client holds
  asleep,       \* clients in commandSleep on their command
  waiting,      \* EscaladeCommand::waitingOwner
  completion,   \* EscaladeCommand::completion
  postResult,   \* EscaladeCommand::postResult
  credits,      \* EscaladeCommand::timeoutCredits
  status,       \* status byte of the command packet
  answers,      \* how often each request has been answered
  result,       \* what the caller or the completion was last told
  served,       \* history: requests the hardware carried out with success
  ticks, asked, aens, raised     \* bounded environment

commandVars == <<waiting, completion, postResult, credits, status>>
clientVars  == <<pc, cmd, asleep, answers, result>>
hardware    == <<outstanding, responses, intr>>
budget      == <<ticks, asked, raised>>
vars == <<link, corrupt, emergency, hardware, resetting, inbox, workBits,
          clientVars, commandVars, served, budget, aens>>

Queues == {"pool", "active", "pending", "none"}
WorkBits == {"aen", "reset", "timeouts"}
RequestStages == {"start", "gotten", "held", "released", "ran", "refused", "posted", "done"}
SupportStages == {"getWork", "reset", "initConnection", "features", "resubmit",
                  "timeouts", "getAEN", "runAEN", "AEN"}

-----------------------------------------------------------------------------
(* Pools, and the commands in them. *)

Pool(type) == {c \in type : link[c] = "pool"}

PoolFor(r) == CASE r \in AdminReqs -> AdminCommands
                [] r \in UserReqs  -> UserCommands
                [] OTHER           -> IOCommands

stage == pc[SupportThread]

\* The support thread keeps the gate while it resubmits.
GateFree == stage /= "resubmit"

\* createCommands: one admin command stays out of its pool.
Init ==
  /\ link = [c \in Commands |-> IF c = Emergency THEN "none" ELSE "pool"]
  /\ corrupt = FALSE
  /\ emergency = Emergency
  /\ outstanding = {} /\ responses = {} /\ intr = TRUE
  /\ resetting = FALSE /\ inbox = {} /\ workBits = {}
  /\ pc = [x \in Clients |-> IF x = SupportThread THEN "getWork" ELSE "start"]
  /\ cmd = [x \in Clients |-> None]
  /\ asleep = {}
  /\ waiting = [c \in Commands |-> FALSE]
  /\ completion = [c \in Commands |-> None]
  /\ postResult = [c \in Commands |-> TRUE]
  /\ credits = [c \in Commands |-> TWE_TIMEOUT_DEFAULT]
  /\ status = [c \in Commands |-> "ok"]
  /\ answers = [r \in Requests |-> 0]
  /\ result = [r \in Requests |-> "none"]
  /\ served = {}
  /\ ticks = 0 /\ asked = 0 /\ aens = 0 /\ raised = 0

isTimedOut(c) == credits[c] <= 0

\* getResult, given postResult: what it returns, and the reset it requests
\* when the completion status asks for one.
resultIgnoringStatus(c, posted) == posted /\ ~isTimedOut(c)
getResult(c, posted) == posted /\ ~isTimedOut(c) /\ status[c] = "ok"

ResetDemand(c, posted) ==
  IF posted /\ ~isTimedOut(c) /\ status[c] = "reset" THEN {"reset"} ELSE {}

\* The request on whose behalf the hardware works on c.
Beneficiary(c) == IF waiting[c] THEN {r \in Requests : cmd[r] = c}
                                ELSE {completion[c]}

\* Outcomes of prepare() followed by postCommand() that the build allows.
SubmitOutcomes == {"posted"} \union (IF QueueCanFill THEN {"full"} ELSE {})
                             \union (IF PrepareCanFail THEN {"unprepared"} ELSE {})

\* corrupt after c is put on a queue, or taken off activeCommands.
corruptByEnter(c)  == corrupt \/ link[c] /= "none"
corruptByRemove(c) == corrupt \/ link[c] /= "active"

\* A variant that forgets wasPosted().
acceptedUnqueued(c) == outstanding' = outstanding \union {c} /\ UNCHANGED <<link, corrupt>>

\* postCommand accepted: the command goes to the hardware and on activeCommands.
Accepted(c) ==
  /\ outstanding' = outstanding \union {c}
  /\ link' = [link EXCEPT ![c] = "active"]
  /\ corrupt' = corruptByEnter(c)

\* The owners that complete() wakes; a variant in which it wakes nobody.
wakesNobody(c) == asleep
wakeCommand(c) == {x \in asleep : cmd[x] /= c}

\* A variant of complete() that also returns a command somebody waits for.
completeAndReturn(c, posted, owned) ==
  /\ postResult' = [postResult EXCEPT ![c] = posted]
  /\ corrupt' = corruptByRemove(c)
  /\ asleep' = wakeCommand(c)
  /\ link' = [link EXCEPT ![c] = "pool"]
  /\ UNCHANGED <<answers, result, inbox>>

\* complete(posted): take c off activeCommands, then wake the owner, if there
\* is a waitingOwner, or return c to its pool and call the completion.
complete(c, posted, owned) ==
  /\ postResult' = [postResult EXCEPT ![c] = posted]
  /\ corrupt' = corruptByRemove(c)
  /\ IF owned
       THEN /\ asleep' = wakeCommand(c)
            /\ link' = [link EXCEPT ![c] = "none"]
            /\ UNCHANGED <<answers, result, inbox>>
       ELSE /\ link' = [link EXCEPT ![c] = "pool"]
            /\ answers' = [answers EXCEPT ![completion[c]] = @ + 1]
            /\ result' = [result EXCEPT ![completion[c]] =
                 IF getResult(c, posted) THEN "ok" ELSE "error"]
            /\ inbox' = inbox \union ResetDemand(c, posted)
            /\ UNCHANGED asleep
-----------------------------------------------------------------------------
(* Requests: the threads that call doAsyncReadWrite, doSynchronizeCache,   *)
(* getParam and doCommand, one call each.                                  *)

\* getCommand (blocking) and the make* constructor that follows it.
getCommand(r) ==
  /\ GateFree /\ pc[r] = "start"
  /\ \E c \in Pool(PoolFor(r)) :
       /\ link' = [link EXCEPT ![c] = "none"]
       /\ cmd' = [cmd EXCEPT ![r] = c]
       /\ credits' = [credits EXCEPT ![c] =
            IF r \in UserReqs THEN TWE_TIMEOUT_USERCLIENT + 1 ELSE TWE_TIMEOUT_DEFAULT]
       /\ status' = [status EXCEPT ![c] = "ok"]
       /\ completion' = [completion EXCEPT ![c] = IF r \in AsyncReqs THEN r ELSE @]
  /\ pc' = [pc EXCEPT ![r] = "gotten"]
  /\ UNCHANGED <<corrupt, emergency, hardware, resetting, inbox, workBits, asleep,
                 waiting, postResult, answers, result, served, budget, aens>>

\* The rest of run{A,S}ynchronousCommand once the caller may go on: posted,
\* the caller sleeps on its command (sync) or leaves it to its completion;
\* refused by prepare() or postCommand(), the command is completed at once.
posted(r, c, sync) ==
  /\ Accepted(c)
  /\ asleep' = IF sync THEN asleep \union {r} ELSE asleep
  /\ pc' = [pc EXCEPT ![r] = IF sync THEN "ran" ELSE "posted"]
  /\ cmd' = [cmd EXCEPT ![r] = IF sync THEN c ELSE None]
  /\ UNCHANGED <<postResult, answers, result, inbox>>

refused(r, c, sync) ==
  /\ complete(c, FALSE, sync)
  /\ pc' = [pc EXCEPT ![r] = "refused"]
  /\ UNCHANGED <<outstanding, cmd>>

submit(r, sync) ==
  /\ \E outcome \in SubmitOutcomes :
       IF outcome = "posted" THEN posted(r, cmd[r], sync) ELSE refused(r, cmd[r], sync)
  /\ waiting' = [waiting EXCEPT ![cmd[r]] = sync]
  /\ UNCHANGED <<emergency, responses, intr, resetting, workBits, completion, credits,
                 status, served, budget, aens>>

runSynchronousCommand(r) ==
  GateFree /\ r \in SyncReqs /\ pc[r] = "gotten" /\ submit(r, TRUE)

\* "hold if controller in reset"
hold(r) ==
  /\ GateFree /\ r \in AsyncReqs /\ pc[r] = "gotten" /\ resetting
  /\ pc' = [pc EXCEPT ![r] = "held"]
  /\ UNCHANGED <<link, corrupt, emergency, hardware, resetting, inbox, workBits, cmd,
                 asleep, answers, result, commandVars, served, budget, aens>>

\* A held caller that was awakened goes on without looking at the flag again.
runAsynchronousCommand(r) ==
  /\ GateFree /\ r \in AsyncReqs
  /\ pc[r] = "released" \/ (pc[r] = "gotten" /\ ~resetting)
  /\ submit(r, FALSE)

\* The caller, awake after runSynchronousCommand or told that its
\* submission failed, evaluates the result and returns the command.  Flushes
\* and user commands ask only whether runSynchronousCommand returned true.
reported(r) == CASE r \in AsyncReqs -> FALSE
                 [] r \in AdminReqs -> getResult(cmd[r], postResult[cmd[r]])
                 [] OTHER           -> pc[r] = "ran"

returnCommand(r) ==
  /\ GateFree /\ pc[r] \in {"ran", "refused"} /\ r \notin asleep
  /\ link' = [link EXCEPT ![cmd[r]] = "pool"]
  /\ corrupt' = corruptByEnter(cmd[r])
  /\ inbox' = inbox \union
       (IF r \in AdminReqs THEN ResetDemand(cmd[r], postResult[cmd[r]]) ELSE {})
  /\ answers' = [answers EXCEPT ![r] = @ + 1]
  /\ result' = [result EXCEPT ![r] = IF reported(r) THEN "ok" ELSE "error"]
  /\ pc' = [pc EXCEPT ![r] = "done"]
  /\ cmd' = [cmd EXCEPT ![r] = None]
  /\ UNCHANGED <<emergency, hardware, resetting, workBits, asleep, commandVars,
                 served, budget, aens>>
-----------------------------------------------------------------------------
(* The controller, its interrupts and the timer. *)

\* The controller carries a command out and queues its tag.
respond(c) ==
  /\ c \in outstanding
  /\ \E s \in Statuses :
       /\ s = "reset" => asked < MaxResets
       /\ asked' = IF s = "reset" THEN asked + 1 ELSE asked
       /\ status' = [status EXCEPT ![c] = s]
       /\ served' = IF s = "ok" THEN served \union Beneficiary(c) ELSE served
  /\ outstanding' = outstanding \ {c}
  /\ responses' = responses \union {c}
  /\ UNCHANGED <<link, corrupt, emergency, intr, resetting, inbox, workBits, clientVars,
                 waiting, completion, postResult, credits, ticks, raised, aens>>

\* handleInterrupt, one response: findCommand(tag)->complete().
handleInterrupt(c) ==
  /\ GateFree /\ intr /\ c \in responses
  /\ responses' = responses \ {c}
  /\ complete(c, TRUE, waiting[c])
  /\ UNCHANGED <<emergency, outstanding, intr, resetting, workBits, pc, cmd, waiting,
                 completion, credits, status, served, budget, aens>>

\* handleInterrupt, attention: the controller has an AEN to be fetched.
handleAttention ==
  /\ GateFree /\ intr /\ raised < MaxAENs
  /\ raised' = raised + 1 /\ aens' = aens + 1
  /\ inbox' = inbox \union {"aen"}
  /\ UNCHANGED <<link, corrupt, emergency, hardware, resetting, workBits, clientVars,
                 commandVars, served, ticks, asked>>

timeoutOccurred ==
  /\ GateFree /\ ticks < MaxTicks
  /\ ticks' = ticks + 1
  /\ inbox' = inbox \union {"timeouts"}
  /\ UNCHANGED <<link, corrupt, emergency, hardware, resetting, workBits, clientVars,
                 commandVars, served, asked, raised, aens>>

\* EscaladeUserClient::doReset
requestReset ==
  /\ GateFree /\ asked < MaxResets
  /\ asked' = asked + 1
  /\ inbox' = inbox \union {"reset"}
  /\ UNCHANGED <<link, corrupt, emergency, hardware, resetting, workBits, clientVars,
                 commandVars, served, ticks, raised, aens>>
-----------------------------------------------------------------------------
(* The support thread.  One pass over workBits looks at reset, timeouts    *)
(* and aen in this order; a new pass starts while bits are left.           *)

AfterTimeouts(bits) == IF "aen" \in bits THEN "getAEN"
                       ELSE IF "reset" \in bits THEN "reset" ELSE "getWork"
AfterReset(bits) == IF "timeouts" \in bits THEN "timeouts" ELSE AfterTimeouts(bits)
NextPass(bits)   == IF "reset" \in bits THEN "reset" ELSE AfterReset(bits)

supportThreadGetWork ==
  /\ GateFree /\ stage = "getWork" /\ inbox /= {}
  /\ workBits' = inbox
  /\ inbox' = {}
  /\ pc' = [pc EXCEPT ![SupportThread] = NextPass(inbox)]
  /\ UNCHANGED <<link, corrupt, emergency, hardware, resetting, cmd, asleep, answers,
                 result, commandVars, served, budget, aens>>

\* Credits after one check of the active commands; does any command time out?
charged == [c \in Commands |->
              IF link[c] = "active" THEN credits[c] - TWE_TIMEOUT_COST ELSE credits[c]]
expired == \E c \in Commands : link[c] = "active" /\ charged[c] <= 0

supportThreadCheckTimeouts ==
  /\ GateFree /\ stage = "timeouts"
  /\ credits' = charged
  /\ workBits' = (workBits \ {"timeouts"}) \union (IF expired THEN {"reset"} ELSE {})
  /\ pc' = [pc EXCEPT ![SupportThread] = AfterTimeouts(workBits')]
  /\ UNCHANGED <<link, corrupt, emergency, hardware, resetting, inbox, cmd, asleep,
                 answers, result, waiting, completion, postResult, status, served,
                 budget, aens>>

\* The support thread's admin command, and the links once it is returned.
ownCommand == cmd[SupportThread]
ownReturned == [link EXCEPT ![ownCommand] = "pool"]

\* getParam(TWE_PARAM_AEN): getCommand, and the constructor.
getAEN ==
  /\ GateFree /\ stage = "getAEN"
  /\ \E c \in Pool(AdminCommands) :
       /\ link' = [link EXCEPT ![c] = "none"]
       /\ cmd' = [cmd EXCEPT ![SupportThread] = c]
       /\ credits' = [credits EXCEPT ![c] = TWE_TIMEOUT_DEFAULT]
       /\ status' = [status EXCEPT ![c] = "ok"]
  /\ pc' = [pc EXCEPT ![SupportThread] = "runAEN"]
  /\ UNCHANGED <<corrupt, emergency, hardware, resetting, inbox, workBits, asleep,
                 waiting, completion, postResult, answers, result, served, budget, aens>>

runAEN ==
  /\ GateFree /\ stage = "runAEN"
  /\ pc' = [pc EXCEPT ![SupportThread] = "AEN"]
  /\ waiting' = [waiting EXCEPT ![ownCommand] = TRUE]
  /\ \E outcome \in SubmitOutcomes :
       IF outcome = "posted"
         THEN /\ Accepted(ownCommand)
              /\ asleep' = asleep \union {SupportThread}
              /\ UNCHANGED <<postResult, answers, result, inbox>>
         ELSE complete(ownCommand, FALSE, TRUE) /\ UNCHANGED outstanding
  /\ UNCHANGED <<emergency, responses, intr, resetting, workBits, cmd, completion,
                 credits, status, served, budget, aens>>

\* The answer: an error or an empty queue ends the polling, an AEN does not.
moreAENs == getResult(ownCommand, postResult[ownCommand]) /\ aens > 0

fetchedAEN ==
  /\ GateFree /\ stage = "AEN" /\ SupportThread \notin asleep
  /\ link' = ownReturned
  /\ corrupt' = corruptByEnter(ownCommand)
  /\ inbox' = inbox \union ResetDemand(ownCommand, postResult[ownCommand])
  /\ aens' = IF moreAENs THEN aens - 1 ELSE aens
  /\ workBits' = IF moreAENs THEN workBits ELSE workBits \ {"aen"}
  /\ pc' = [pc EXCEPT ![SupportThread] = NextPass(workBits')]
  /\ cmd' = [cmd EXCEPT ![SupportThread] = None]
  /\ UNCHANGED <<emergency, hardware, resetting, asleep, answers, result, commandVars,
                 served, budget>>
-----------------------------------------------------------------------------
(* The controller reset, run by the support thread inside the gate.  It    *)
(* leaves the gate only while it sleeps on its own admin command, so the   *)
(* first segment runs up to the sleep on InitConnection, the second to the *)
(* sleep on SetParam(DriverShutdown), and the rest is the resubmission.    *)
(* The drives are spinning: setDrivePower(true) finds nothing to do.       *)

AnyPooled(links) == {c \in Commands : links[c] = "pool"}   \* variant: any pool
Admins(links) == {c \in AdminCommands : links[c] = "pool"}

\* Variants: the recovered command stays in its pool, or none is recovered.
recoverWithoutTaking(links) == \E e \in Admins(links) : emergency' = e /\ link' = links
recoverNothing(links) == emergency' = None /\ link' = links

\* "recover emergency command if we used it": emergencyCommand was cleared,
\* so any admin command of the pool becomes the emergency command.
recoverEmergency(links) ==
  \E e \in Admins(links) : emergency' = e /\ link' = [links EXCEPT ![e] = "none"]

\* getCommand(EC_COMMAND_ADMIN), run it and sleep on it.
sleepOnAdmin(c, links, next) ==
  /\ link' = [links EXCEPT ![c] = "active"]
  /\ cmd' = [cmd EXCEPT ![SupportThread] = c]
  /\ asleep' = asleep \union {SupportThread}
  /\ waiting' = [waiting EXCEPT ![c] = TRUE]
  /\ credits' = [credits EXCEPT ![c] = TWE_TIMEOUT_DEFAULT]
  /\ status' = [status EXCEPT ![c] = "ok"]
  /\ pc' = [pc EXCEPT ![SupportThread] = next]

\* initController gave up: the queue of parked commands is resubmitted.
giveUp(links) ==
  /\ recoverEmergency(links)
  /\ pc' = [pc EXCEPT ![SupportThread] = "resubmit"]
  /\ cmd' = [cmd EXCEPT ![SupportThread] = None]
  /\ UNCHANGED <<asleep, waiting, credits, status>>

\* What the driver leaves of the response queue; a variant that leaves it all.
undrained == responses
drainResponseQueue == {}

\* Is there no admin command for the reset to use?
needsEmergency == Pool(AdminCommands) = {}

\* The links after the active commands were moved to pendingCommands and the
\* emergency command, if needed, to its pool; a variant that drops the former.
dropped(c) == IF link[c] = "active" THEN "none"
              ELSE IF needsEmergency /\ c = emergency THEN "pool" ELSE link[c]
parkedLink(c) == IF link[c] = "active" THEN "pending"
                 ELSE IF needsEmergency /\ c = emergency THEN "pool" ELSE link[c]

parkedLinks == [c \in Commands |-> parkedLink(c)]

\* corrupt after the emergency command was returned to the pool, if needed.
corruptBySupply == corrupt \/ \E c \in Commands : needsEmergency /\ c = emergency /\ link[c] /= "none"

\* The hardware comes out of reset and InitConnection is submitted with c.
connecting(c) ==
  /\ responses' = drainResponseQueue
  /\ \E outcome \in SubmitOutcomes :
       IF outcome = "posted"
         THEN /\ sleepOnAdmin(c, parkedLinks, "initConnection")
              /\ outstanding' = {c} /\ emergency' = None
              /\ corrupt' = corruptBySupply
         ELSE giveUp(parkedLinks) /\ outstanding' = {} /\ corrupt' = TRUE

\* Park the active commands, give the pool an admin command if it has none,
\* reset the hardware (which forgets its commands), drain its responses.
\* "stuck": it never comes out of reset, interrupts stay disabled.
\* "errors": error bits after the reset, responses are not drained.
resetController ==
  /\ GateFree /\ stage = "reset"
  /\ resetting' = TRUE
  /\ workBits' = workBits \ {"reset"}
  /\ \E outcome \in ResetOutcomes :
       /\ intr' = (outcome /= "stuck")
       /\ IF outcome = "ok"
            THEN \E c \in Admins(parkedLinks) : connecting(c)
            ELSE /\ giveUp(parkedLinks) /\ outstanding' = {} /\ UNCHANGED responses
                 /\ corrupt' = corruptBySupply
  /\ UNCHANGED <<inbox, completion, postResult, answers, result, served, budget, aens>>

\* initConnection succeeded: SetParam(DriverShutdown) is submitted with d.
configuring(d, links) ==
  \E outcome \in SubmitOutcomes :
    IF outcome = "posted"
      THEN /\ sleepOnAdmin(d, links, "features")
           /\ outstanding' = outstanding \union {d} /\ UNCHANGED emergency
           /\ corrupt' = corruptByEnter(ownCommand)
      ELSE giveUp(links) /\ corrupt' = TRUE /\ UNCHANGED outstanding

\* initConnection returned: configure shutdown notification, or give up.
initConnection ==
  /\ GateFree /\ stage = "initConnection" /\ SupportThread \notin asleep
  /\ inbox' = inbox \union ResetDemand(ownCommand, postResult[ownCommand])
  /\ IF getResult(ownCommand, postResult[ownCommand])
       THEN \E d \in Admins(ownReturned) : configuring(d, ownReturned)
       ELSE /\ giveUp(ownReturned) /\ UNCHANGED outstanding
            /\ corrupt' = corruptByEnter(ownCommand)
  /\ UNCHANGED <<responses, intr, resetting, workBits, completion, postResult, answers,
                 result, served, budget, aens>>

\* The end of initController; a configured controller is polled for AENs.
features ==
  /\ GateFree /\ stage = "features" /\ SupportThread \notin asleep
  /\ inbox' = inbox \union ResetDemand(ownCommand, postResult[ownCommand]) \union
       (IF getResult(ownCommand, postResult[ownCommand]) THEN {"aen"} ELSE {})
  /\ giveUp(ownReturned) /\ corrupt' = corruptByEnter(ownCommand)
  /\ UNCHANGED <<hardware, resetting, workBits, completion, postResult, answers,
                 result, served, budget, aens>>

\* Resubmit one parked command.  A timed-out command is completed first, a
\* command the controller has no room for is completed after; complete()
\* takes it off activeCommands, where it is not.
completions(c, room) == (IF isTimedOut(c) THEN 1 ELSE 0) + (IF room THEN 0 ELSE 1)

resubmitted(c, room) ==
  /\ link' = [link EXCEPT ![c] = IF room THEN "active" ELSE IF waiting[c] THEN "none" ELSE "pool"]
  /\ outstanding' = IF room THEN outstanding \union {c} ELSE outstanding
  /\ IF completions(c, room) = 0
       THEN UNCHANGED <<corrupt, postResult, asleep, answers, result>>
       ELSE /\ corrupt' = TRUE
            /\ postResult' = [postResult EXCEPT ![c] = room]
            /\ asleep' = IF waiting[c] THEN wakeCommand(c) ELSE asleep
            /\ answers' = IF waiting[c] THEN answers ELSE
                 [answers EXCEPT ![completion[c]] = @ + completions(c, room)]
            /\ result' = IF waiting[c] THEN result ELSE
                 [result EXCEPT ![completion[c]] = "error"]

resubmit(c) ==
  /\ stage = "resubmit" /\ link[c] = "pending"
  /\ \E room \in {TRUE} \union (IF QueueCanFill THEN {FALSE} ELSE {}) : resubmitted(c, room)
  /\ UNCHANGED <<emergency, responses, intr, resetting, inbox, workBits, pc, cmd, waiting,
                 completion, credits, status, served, budget, aens>>

\* commandWakeup(&resetting); a variant without the wakeup.
unwoken(x) == pc[x]
woken(x) == IF pc[x] = "held" THEN "released" ELSE pc[x]

resetDone ==
  /\ stage = "resubmit" /\ \A c \in Commands : link[c] /= "pending"
  /\ resetting' = FALSE
  /\ pc' = [x \in Clients |-> IF x = SupportThread THEN AfterReset(workBits) ELSE woken(x)]
  /\ UNCHANGED <<link, corrupt, emergency, hardware, inbox, workBits, cmd, asleep,
                 answers, result, commandVars, served, budget, aens>>
-----------------------------------------------------------------------------
Answered(r) == answers[r] > 0 /\ pc[r] \in {"posted", "done"}

\* Every call has been answered and the support thread waits for work.
quiescent ==
  /\ \A r \in Requests : Answered(r)
  /\ stage = "getWork" /\ inbox = {}
  /\ UNCHANGED vars

RequestStep(r) == \/ getCommand(r) \/ runSynchronousCommand(r) \/ hold(r)
                  \/ runAsynchronousCommand(r) \/ returnCommand(r)

SupportStep == \/ supportThreadGetWork \/ supportThreadCheckTimeouts
               \/ getAEN \/ runAEN \/ fetchedAEN
               \/ resetController \/ initConnection \/ features
               \/ (\E c \in Commands : resubmit(c)) \/ resetDone

Next == \/ \E r \in Requests : RequestStep(r)
        \/ \E c \in Commands : respond(c) \/ handleInterrupt(c)
        \/ handleAttention \/ timeoutOccurred \/ requestReset
        \/ SupportStep \/ quiescent

Spec == Init /\ [][Next]_vars

\* Threads that can run do, the controller answers, interrupts are delivered.
\* Nothing forces AENs, timer expiries or requests for a reset.
Fairness == /\ \A r \in Requests : WF_vars(RequestStep(r))
            /\ \A c \in Commands : WF_vars(respond(c)) /\ WF_vars(handleInterrupt(c))
            /\ WF_vars(SupportStep)

FairSpec == Spec /\ Fairness
-----------------------------------------------------------------------------
TypeOK ==
  /\ link \in [Commands -> Queues] /\ corrupt \in BOOLEAN
  /\ emergency \in AdminCommands \union {None}
  /\ outstanding \subseteq Commands /\ responses \subseteq Commands /\ intr \in BOOLEAN
  /\ resetting \in BOOLEAN /\ inbox \subseteq WorkBits /\ workBits \subseteq WorkBits
  /\ pc \in [Clients -> RequestStages \union SupportStages]
  /\ \A r \in Requests : pc[r] \in RequestStages
  /\ stage \in SupportStages
  /\ cmd \in [Clients -> Commands \union {None}] /\ asleep \subseteq Clients
  /\ waiting \in [Commands -> BOOLEAN]
  /\ completion \in [Commands -> Requests \union {None}]
  /\ postResult \in [Commands -> BOOLEAN] /\ credits \in [Commands -> Int]
  /\ status \in [Commands -> {"ok", "error", "reset"}]
  /\ answers \in [Requests -> Nat] /\ result \in [Requests -> {"none", "ok", "error"}]
  /\ served \subseteq Requests \union {None}
  /\ ticks \in Nat /\ asked \in Nat /\ aens \in Nat /\ raised \in Nat

\* The single chain field of a command is never on two queues, and nothing
\* is taken off a queue it is not on (_queueActive, _dequeueActive, pools).
ChainsSound == ~corrupt

\* Two clients never hold the same command, and a command in a pool, or the
\* emergency command, is held by nobody (getCommand, returnCommand).
SoleHolder ==
  /\ \A x, y \in Clients : cmd[x] = cmd[y] /\ cmd[x] /= None => x = y
  /\ \A x \in Clients : cmd[x] /= None => link[cmd[x]] /= "pool" /\ cmd[x] /= emergency

\* The controller works exactly on the active commands: every tag the
\* interrupt handler can read belongs to a command that waits for it, also
\* across resets (drainResponseQueue, resubmission).  A controller stuck in
\* reset may hold old responses, but its interrupts are disabled.
HardwareMatches ==
  intr => /\ outstanding \intersect responses = {}
          /\ outstanding \union responses = {c \in Commands : link[c] = "active"}

\* A caller asleep on its command can still be woken: the command is active
\* or waits for resubmission, and completing it wakes the owner.
SleeperWakeable ==
  \A x \in asleep : /\ cmd[x] \in Commands /\ waiting[cmd[x]]
                    /\ link[cmd[x]] \in {"active", "pending"}

\* A read or write whose caller has left is answered once and, until then,
\* exactly one command in flight carries its completion.
AnsweredOnce ==
  \A r \in AsyncReqs : pc[r] \in {"posted", "done"} =>
    IF answers[r] = 0
      THEN \E c \in Commands : /\ completion[c] = r /\ ~waiting[c]
                               /\ link[c] \in {"active", "pending"}
      ELSE answers[r] = 1

\* Outside a reset there is an emergency command for the next one, and
\* during one the pool can always supply the reset's own command.
EmergencyReady ==
  IF resetting /\ stage /= "resubmit"
    THEN stage \in {"initConnection", "features"} /\ ownCommand \in AdminCommands
    ELSE emergency \in AdminCommands /\ link[emergency] = "none"

\* Success reported to the caller of a read, a write or a parameter read
\* means that the controller carried out that very request.
NoFalseSuccess == \A r \in AsyncReqs \union AdminReqs : result[r] = "ok" => r \in served

\* Until its chains are corrupt, the path serves its callers as promised: it
\* answers each request once, the controller works only on open requests,
\* also after resets, and the success of a read, a write or a parameter read
\* is the controller's (flushes and user commands do not look at the result).
phase == [r \in Requests |-> IF answers[r] = 0
                               THEN IF pc[r] = "start" THEN "idle" ELSE "open"
                               ELSE IF answers[r] = 1 THEN "answered" ELSE "answered again"]
Service == INSTANCE CommandService WITH Checked <- AsyncReqs \union AdminReqs,
                                        trusted <- ~corrupt
IsCommandService == Service!Spec

\* A command parked by a reset is neither completed nor handed out before
\* the reset puts it back on activeCommands (stale responses, pool reuse).
ParkedUntouched ==
  [][\A c \in Commands : link[c] = "pending" => link'[c] \in {"pending", "active"}]_vars

\* Every read and write is answered (doAsyncReadWrite, complete).
AsyncAnswered == \A r \in AsyncReqs : <>(answers[r] > 0)

\* A caller asleep on its command wakes (commandSleep is THREAD_UNINT), and
\* so does an I/O thread held by a reset.
SleeperWakes == /\ \A r \in SyncReqs : r \in asleep ~> r \notin asleep
                /\ \A r \in AsyncReqs : pc[r] = "held" ~> pc[r] = "posted"

\* A reset ends, whatever was in flight when it began.
ResetEnds == resetting ~> ~resetting

\* While nobody asks for a reset every call, of every kind, is answered, and
\* the support thread finishes its work: no pool is exhausted for good.
AllAnswered ==
  [](asked = 0) => /\ \A r \in Requests : <>(answers[r] > 0)
                   /\ workBits /= {} ~> workBits = {}
-----------------------------------------------------------------------------
(* What the source says of itself and the code does not keep; each is the  *)
(* property of a run that shows how.                                       *)

\* resetController, "terminating timed-out command": a parked command that
\* timed out is not posted to the controller again.
TimedOutTerminated ==
  [][\A c \in Commands : link[c] = "pending" /\ isTimedOut(c) => link'[c] /= "active"]_vars

\* "recover emergency command if we used it": no command is ever lost, each
\* is queued, or held by a client, or is the emergency command.
NoCommandLost ==
  \A c \in Commands : link[c] = "none" =>
    c = emergency \/ \E x \in Clients : cmd[x] = c

\* complete, "Command submitter is gone ... so we have to tear it down
\* ourselves": a read or write is torn down and answered once, also when it
\* could not be submitted.
TornDownOnce == \A r \in AsyncReqs : answers[r] <= 1
=============================================================================
