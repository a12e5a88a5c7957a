------------------------- MODULE CommandPath_proofs -------------------------
(* Proofs about CommandPath, for every number of commands and requests.    *)
EXTENDS CommandPath, TLAPS

(* A request past getCommand and before its end holds a command, and so    *)
(* does the support thread while it runs an admin command of its own.      *)
Holding ==
  /\ \A r \in Requests : pc[r] \in {"gotten", "held", "released", "ran", "refused"} => cmd[r] \in Commands
  /\ stage \in {"runAEN", "AEN", "initConnection", "features"} => cmd[SupportThread] \in AdminCommands

TypeInv == TypeOK /\ Holding

LEMMA InitType == Init => TypeInv
<1> SUFFICES ASSUME Init PROVE TypeInv
  OBVIOUS
<1> USE CommandAssumption, RequestAssumption, EnvironmentAssumption
<1>1. link \in [Commands -> Queues]
  BY DEF Init, Queues
<1>2. pc \in [Clients -> RequestStages \union SupportStages]
  BY DEF Init, RequestStages, SupportStages
<1>3. Holding
  BY DEF Init, Holding, stage, Clients
<1>4. /\ credits \in [Commands -> Int] /\ status \in [Commands -> {"ok", "error", "reset"}]
      /\ waiting \in [Commands -> BOOLEAN] /\ postResult \in [Commands -> BOOLEAN]
      /\ completion \in [Commands -> Requests \union {None}]
  BY DEF Init
<1>5. /\ cmd \in [Clients -> Commands \union {None}] /\ asleep \subseteq Clients
      /\ answers \in [Requests -> Nat] /\ result \in [Requests -> {"none", "ok", "error"}]
  BY DEF Init
<1>6. /\ emergency \in AdminCommands \union {None} /\ corrupt \in BOOLEAN
      /\ outstanding \subseteq Commands /\ responses \subseteq Commands /\ intr \in BOOLEAN
      /\ resetting \in BOOLEAN /\ inbox \subseteq WorkBits /\ workBits \subseteq WorkBits
      /\ served \subseteq Requests \union {None}
      /\ ticks \in Nat /\ asked \in Nat /\ aens \in Nat /\ raised \in Nat
  BY DEF Init
<1>7. stage \in SupportStages /\ \A r \in Requests : pc[r] \in RequestStages
  BY DEF Init, stage, SupportStages, RequestStages, Clients
<1> QED
  BY <1>1, <1>2, <1>3, <1>4, <1>5, <1>6, <1>7 DEF TypeInv, TypeOK

LEMMA StageTypes ==
  ASSUME NEW bits, bits \subseteq WorkBits
  PROVE  /\ AfterTimeouts(bits) \in {"getAEN", "reset", "getWork"}
         /\ AfterReset(bits) \in {"timeouts", "getAEN", "reset", "getWork"}
         /\ NextPass(bits) \in {"timeouts", "getAEN", "reset", "getWork"}
  BY DEF AfterTimeouts, AfterReset, NextPass, WorkBits

LEMMA GetCommandType ==
  ASSUME TypeInv, NEW r \in Requests, getCommand(r)
  PROVE  TypeInv'
BY CommandAssumption, RequestAssumption, EnvironmentAssumption
DEF getCommand, TypeInv, TypeOK, Holding, Commands, Clients, Requests, Queues, Pool, PoolFor,
    RequestStages, SupportStages, stage, hardware, budget

LEMMA CompleteType ==
  ASSUME TypeInv, NEW c \in Commands, NEW p \in BOOLEAN, NEW owned \in BOOLEAN,
         complete(c, p, owned)
  PROVE  /\ postResult' \in [Commands -> BOOLEAN] /\ corrupt' \in BOOLEAN
         /\ asleep' \subseteq Clients /\ link' \in [Commands -> Queues]
         /\ answers' \in [Requests -> Nat] /\ result' \in [Requests -> {"none", "ok", "error"}]
         /\ inbox' \subseteq WorkBits
<1>1. postResult' \in [Commands -> BOOLEAN]
  BY DEF complete, TypeInv, TypeOK
<1>2. corrupt' \in BOOLEAN
  BY DEF complete, corruptByRemove
<1>3. CASE owned
  BY <1>1, <1>2, <1>3 DEF complete, wakeCommand, TypeInv, TypeOK, Queues
<1>4. CASE ~owned
  <2>1. answers' \in [Requests -> Nat]
    BY <1>4 DEF complete, TypeInv, TypeOK
  <2>2. result' \in [Requests -> {"none", "ok", "error"}]
    BY <1>4 DEF complete, TypeInv, TypeOK
  <2>3. inbox' \subseteq WorkBits
    BY <1>4 DEF complete, ResetDemand, TypeInv, TypeOK, WorkBits
  <2> QED
    BY <1>1, <1>2, <1>4, <2>1, <2>2, <2>3 DEF complete, TypeInv, TypeOK, Queues
<1> QED
  BY <1>3, <1>4

LEMMA SubmitType ==
  ASSUME TypeInv, NEW r \in Requests, NEW sync \in BOOLEAN, submit(r, sync),
         pc[r] \in {"gotten", "released"}
  PROVE  TypeInv'
<1> DEFINE c == cmd[r]
<1> c \in Commands /\ r \in Clients /\ r /= SupportThread
  BY RequestAssumption DEF TypeInv, Holding, Clients
<1>1. CASE posted(r, c, sync)
  BY <1>1, CommandAssumption
  DEF submit, posted, Accepted, corruptByEnter, TypeInv, TypeOK, Holding, Clients, Queues,
      RequestStages, SupportStages, stage, hardware, budget
<1>2. CASE refused(r, c, sync)
  BY <1>2, CompleteType
  DEF submit, refused, TypeInv, TypeOK, Holding, Clients,
      RequestStages, SupportStages, stage, hardware, budget
<1> QED
  BY <1>1, <1>2 DEF submit

LEMMA RequestType ==
  ASSUME TypeInv, NEW r \in Requests, RequestStep(r)
  PROVE  TypeInv'
<1> r \in Clients /\ r /= SupportThread
  BY RequestAssumption DEF Clients
<1>1. CASE getCommand(r)
  BY <1>1, GetCommandType
<1>2. CASE runSynchronousCommand(r)
  BY <1>2, SubmitType DEF runSynchronousCommand
<1>3. CASE hold(r)
  BY <1>3 DEF hold, TypeInv, TypeOK, Holding, Clients, RequestStages, SupportStages, stage,
              hardware, budget, commandVars
<1>4. CASE runAsynchronousCommand(r)
  BY <1>4, SubmitType DEF runAsynchronousCommand
<1>5. CASE returnCommand(r)
  BY <1>5 DEF returnCommand, corruptByEnter, ResetDemand, TypeInv, TypeOK, Holding, Clients,
              Queues, WorkBits, RequestStages, SupportStages, stage, hardware, budget, commandVars
<1> QED
  BY <1>1, <1>2, <1>3, <1>4, <1>5 DEF RequestStep

LEMMA HardwareType ==
  ASSUME TypeInv, NEW c \in Commands, respond(c) \/ handleInterrupt(c)
  PROVE  TypeInv'
<1>1. CASE respond(c)
  <2>1. Beneficiary(c) \subseteq Requests \union {None}
    BY DEF Beneficiary, TypeInv, TypeOK
  <2> QED
    BY <1>1, <2>1, EnvironmentAssumption
    DEF respond, TypeInv, TypeOK, Holding, stage, clientVars
<1>2. CASE handleInterrupt(c)
  BY <1>2, CompleteType DEF handleInterrupt, TypeInv, TypeOK, Holding, stage, budget
<1> QED
  BY <1>1, <1>2

LEMMA EventType ==
  ASSUME TypeInv, handleAttention \/ timeoutOccurred \/ requestReset \/ quiescent
  PROVE  TypeInv'
<1>1. CASE handleAttention
  <2>1. inbox' \subseteq WorkBits /\ raised' \in Nat /\ aens' \in Nat
    BY <1>1 DEF handleAttention, TypeInv, TypeOK, WorkBits
  <2> QED
    BY <1>1, <2>1 DEF handleAttention, TypeInv, TypeOK, Holding, stage, hardware, clientVars, commandVars
<1>2. CASE timeoutOccurred
  <2>1. inbox' \subseteq WorkBits /\ ticks' \in Nat
    BY <1>2 DEF timeoutOccurred, TypeInv, TypeOK, WorkBits
  <2> QED
    BY <1>2, <2>1 DEF timeoutOccurred, TypeInv, TypeOK, Holding, stage, hardware, clientVars, commandVars
<1>3. CASE requestReset
  <2>1. inbox' \subseteq WorkBits /\ asked' \in Nat
    BY <1>3 DEF requestReset, TypeInv, TypeOK, WorkBits
  <2> QED
    BY <1>3, <2>1 DEF requestReset, TypeInv, TypeOK, Holding, stage, hardware, clientVars, commandVars
<1>4. CASE quiescent
  BY <1>4 DEF quiescent, TypeInv, TypeOK, Holding, stage, vars, hardware, budget, clientVars, commandVars
<1> QED
  BY <1>1, <1>2, <1>3, <1>4

(* A step of the support thread changes only its own stage and command.    *)
LEMMA SupportMoves ==
  ASSUME TypeInv, NEW next \in SupportStages, NEW c \in Commands \union {None},
         pc' = [pc EXCEPT ![SupportThread] = next],
         cmd' = [cmd EXCEPT ![SupportThread] = c],
         next \in {"runAEN", "AEN", "initConnection", "features"} => c \in AdminCommands
  PROVE  /\ pc' \in [Clients -> RequestStages \union SupportStages]
         /\ \A r \in Requests : pc'[r] \in RequestStages
         /\ stage' \in SupportStages
         /\ cmd' \in [Clients -> Commands \union {None}]
         /\ Holding'
BY RequestAssumption DEF TypeInv, TypeOK, Holding, stage, Clients

LEMMA PollType ==
  ASSUME TypeInv,
         supportThreadGetWork \/ supportThreadCheckTimeouts \/ getAEN \/ runAEN \/ fetchedAEN
  PROVE  TypeInv'
<1> DEFINE Moved(next, c) == /\ pc' = [pc EXCEPT ![SupportThread] = next]
                             /\ cmd' = [cmd EXCEPT ![SupportThread] = c]
<1>c. SupportThread \in Clients /\ cmd = [cmd EXCEPT ![SupportThread] = ownCommand]
  BY DEF Clients, ownCommand, TypeInv, TypeOK
<1>o. ownCommand \in Commands \union {None}
  BY <1>c DEF ownCommand, TypeInv, TypeOK
<1>1. CASE supportThreadGetWork
  <2>1. NextPass(inbox) \in {"timeouts", "getAEN", "reset", "getWork"}
    BY StageTypes DEF TypeInv, TypeOK
  <2>2. Moved(NextPass(inbox), ownCommand)
    BY <1>1, <1>c DEF supportThreadGetWork
  <2>3. NextPass(inbox) \in SupportStages
    BY <2>1 DEF SupportStages
  <2> QED
    BY <1>1, <1>o, <2>1, <2>2, <2>3, SupportMoves
    DEF supportThreadGetWork, TypeInv, TypeOK, hardware, budget, commandVars
<1>2. CASE supportThreadCheckTimeouts
  <2>1. charged \in [Commands -> Int]
    BY EnvironmentAssumption DEF charged, TypeInv, TypeOK
  <2>2. workBits' \subseteq WorkBits
    BY <1>2 DEF supportThreadCheckTimeouts, TypeInv, TypeOK, WorkBits
  <2>3. AfterTimeouts(workBits') \in {"getAEN", "reset", "getWork"}
    BY <2>2 DEF AfterTimeouts
  <2>4. Moved(AfterTimeouts(workBits'), ownCommand)
    BY <1>2, <1>c DEF supportThreadCheckTimeouts
  <2>5. AfterTimeouts(workBits') \in SupportStages
    BY <2>3 DEF SupportStages
  <2> QED
    BY <1>2, <1>o, <2>1, <2>2, <2>3, <2>4, <2>5, SupportMoves
    DEF supportThreadCheckTimeouts, TypeInv, TypeOK, hardware, budget
<1>3. CASE getAEN
  BY <1>3, EnvironmentAssumption, RequestAssumption
  DEF getAEN, Pool, Commands, TypeInv, TypeOK, Holding, stage, ownCommand, Clients,
      SupportStages, Queues, hardware, budget
<1>4. CASE runAEN
  <2>1. ownCommand \in Commands /\ ownCommand \in AdminCommands
    BY <1>4 DEF runAEN, TypeInv, Holding, Commands, ownCommand
  <2>2. Moved("AEN", ownCommand) /\ "AEN" \in SupportStages
    BY <1>4, <1>c DEF runAEN, SupportStages
  <2>3. waiting' \in [Commands -> BOOLEAN]
    BY <1>4 DEF runAEN, TypeInv, TypeOK
  <2>4. CASE complete(ownCommand, FALSE, TRUE) /\ UNCHANGED outstanding
    BY <1>4, <2>1, <2>2, <2>3, <2>4, SupportMoves, CompleteType
    DEF runAEN, TypeInv, TypeOK, budget
  <2>5. CASE /\ Accepted(ownCommand) /\ asleep' = asleep \union {SupportThread}
             /\ UNCHANGED <<postResult, answers, result, inbox>>
    <3>1. link' \in [Commands -> Queues] /\ outstanding' \subseteq Commands /\ corrupt' \in BOOLEAN
      BY <2>1, <2>5 DEF Accepted, corruptByEnter, TypeInv, TypeOK, Queues
    <3> QED
      BY <1>4, <1>c, <2>1, <2>2, <2>3, <2>5, <3>1, SupportMoves
      DEF runAEN, TypeInv, TypeOK, budget
  <2> QED
    BY <1>4, <2>4, <2>5 DEF runAEN
<1>5. CASE fetchedAEN
  <2>1. workBits' \subseteq WorkBits /\ inbox' \subseteq WorkBits
    BY <1>5 DEF fetchedAEN, ResetDemand, TypeInv, TypeOK, WorkBits
  <2>2. NextPass(workBits') \in {"timeouts", "getAEN", "reset", "getWork"}
    BY <2>1, StageTypes
  <2>3. Moved(NextPass(workBits'), None)
    BY <1>5 DEF fetchedAEN
  <2>4. NextPass(workBits') \in SupportStages
    BY <2>2 DEF SupportStages
  <2>5. link' \in [Commands -> Queues] /\ corrupt' \in BOOLEAN
    BY <1>5 DEF fetchedAEN, ownReturned, corruptByEnter, TypeInv, TypeOK, Queues
  <2>6. aens' \in Nat
    <3>1. aens' = IF moreAENs THEN aens - 1 ELSE aens
      BY <1>5 DEF fetchedAEN
    <3>2. moreAENs => aens > 0
      BY DEF moreAENs
    <3> QED
      BY <3>1, <3>2 DEF TypeInv, TypeOK
  <2> QED
    BY <1>5, <2>1, <2>2, <2>3, <2>4, <2>5, <2>6, SupportMoves
    DEF fetchedAEN, TypeInv, TypeOK, hardware, budget, commandVars
<1> QED
  BY <1>1, <1>2, <1>3, <1>4, <1>5

(* What the two ways to go on in a reset leave behind.                     *)
LEMMA GiveUpType ==
  ASSUME TypeInv, NEW links \in [Commands -> Queues], giveUp(links)
  PROVE  /\ link' \in [Commands -> Queues] /\ emergency' \in AdminCommands \union {None}
         /\ asleep' \subseteq Clients /\ waiting' \in [Commands -> BOOLEAN]
         /\ credits' \in [Commands -> Int] /\ status' \in [Commands -> {"ok", "error", "reset"}]
         /\ pc' \in [Clients -> RequestStages \union SupportStages]
         /\ \A r \in Requests : pc'[r] \in RequestStages
         /\ stage' \in SupportStages /\ cmd' \in [Clients -> Commands \union {None}]
         /\ Holding'
<1>1. link' \in [Commands -> Queues] /\ emergency' \in AdminCommands
  BY DEF giveUp, recoverEmergency, Admins, Queues
<1>2. "resubmit" \in SupportStages
  BY DEF SupportStages
<1> QED
  BY <1>1, <1>2, SupportMoves DEF giveUp, TypeInv, TypeOK

LEMMA SleepOnAdminType ==
  ASSUME TypeInv, NEW c \in AdminCommands, NEW links \in [Commands -> Queues],
         NEW next \in {"initConnection", "features"}, sleepOnAdmin(c, links, next)
  PROVE  /\ link' \in [Commands -> Queues]
         /\ asleep' \subseteq Clients /\ waiting' \in [Commands -> BOOLEAN]
         /\ credits' \in [Commands -> Int] /\ status' \in [Commands -> {"ok", "error", "reset"}]
         /\ pc' \in [Clients -> RequestStages \union SupportStages]
         /\ \A r \in Requests : pc'[r] \in RequestStages
         /\ stage' \in SupportStages /\ cmd' \in [Clients -> Commands \union {None}]
         /\ Holding'
<1>1. c \in Commands /\ next \in SupportStages
  BY DEF Commands, SupportStages
<1>2. link' \in [Commands -> Queues]
  BY <1>1 DEF sleepOnAdmin, Queues
<1>3. waiting' \in [Commands -> BOOLEAN] /\ credits' \in [Commands -> Int]
  BY <1>1, EnvironmentAssumption DEF sleepOnAdmin, TypeInv, TypeOK
<1>4. status' \in [Commands -> {"ok", "error", "reset"}] /\ asleep' \subseteq Clients
  BY <1>1 DEF sleepOnAdmin, TypeInv, TypeOK, Clients
<1> QED
  BY <1>1, <1>2, <1>3, <1>4, SupportMoves DEF sleepOnAdmin

LEMMA ResetBeginsType ==
  ASSUME TypeInv, resetController
  PROVE  TypeInv'
<1>1. parkedLinks \in [Commands -> Queues]
  BY DEF parkedLinks, parkedLink, TypeInv, TypeOK, Queues
<1>2. corruptBySupply \in BOOLEAN
  BY DEF corruptBySupply
<1>3. workBits' \subseteq WorkBits /\ resetting' \in BOOLEAN
  BY DEF resetController, TypeInv, TypeOK
<1>4. PICK outcome \in ResetOutcomes :
        /\ intr' = (outcome /= "stuck")
        /\ \/ \E c \in Admins(parkedLinks) : connecting(c)
           \/ /\ giveUp(parkedLinks) /\ outstanding' = {} /\ UNCHANGED responses
              /\ corrupt' = corruptBySupply
  BY DEF resetController
<1>5. CASE /\ giveUp(parkedLinks) /\ outstanding' = {} /\ UNCHANGED responses
           /\ corrupt' = corruptBySupply
  BY <1>1, <1>2, <1>3, <1>4, <1>5, GiveUpType
  DEF resetController, TypeInv, TypeOK, budget
<1>6. CASE \E c \in Admins(parkedLinks) : connecting(c)
  <2>1. PICK c \in Admins(parkedLinks) : connecting(c)
    BY <1>6
  <2>2. c \in AdminCommands /\ c \in Commands
    BY DEF Admins, Commands
  <2>3. responses' \subseteq Commands
    BY <2>1 DEF connecting, drainResponseQueue
  <2>4. CASE /\ sleepOnAdmin(c, parkedLinks, "initConnection")
             /\ outstanding' = {c} /\ emergency' = None
             /\ corrupt' = corruptBySupply
    BY <1>1, <1>2, <1>3, <1>4, <2>2, <2>3, <2>4, SleepOnAdminType
    DEF resetController, TypeInv, TypeOK, budget
  <2>5. CASE giveUp(parkedLinks) /\ outstanding' = {} /\ corrupt' = TRUE
    BY <1>1, <1>3, <1>4, <2>3, <2>5, GiveUpType
    DEF resetController, TypeInv, TypeOK, budget
  <2> QED
    BY <2>1, <2>4, <2>5 DEF connecting
<1> QED
  BY <1>4, <1>5, <1>6

LEMMA InitControllerType ==
  ASSUME TypeInv, initConnection \/ features
  PROVE  TypeInv'
<1>1. ownReturned \in [Commands -> Queues]
  BY DEF ownReturned, TypeInv, TypeOK, Queues
<1>2. inbox' \subseteq WorkBits
  BY DEF initConnection, features, ResetDemand, TypeInv, TypeOK, WorkBits
<1>3. corruptByEnter(ownCommand) \in BOOLEAN
  BY DEF corruptByEnter
<1>4. CASE features
  BY <1>1, <1>2, <1>3, <1>4, GiveUpType DEF features, TypeInv, TypeOK, hardware, budget
<1>5. CASE initConnection
  <2>1. CASE /\ giveUp(ownReturned) /\ UNCHANGED outstanding
             /\ corrupt' = corruptByEnter(ownCommand)
    BY <1>1, <1>2, <1>3, <1>5, <2>1, GiveUpType DEF initConnection, TypeInv, TypeOK, budget
  <2>2. CASE \E d \in Admins(ownReturned) : configuring(d, ownReturned)
    <3>1. PICK d \in Admins(ownReturned) : configuring(d, ownReturned)
      BY <2>2
    <3>2. d \in AdminCommands /\ d \in Commands
      BY DEF Admins, Commands
    <3>3. CASE /\ sleepOnAdmin(d, ownReturned, "features")
               /\ outstanding' = outstanding \union {d} /\ UNCHANGED emergency
               /\ corrupt' = corruptByEnter(ownCommand)
      <4>1. outstanding' \subseteq Commands
        BY <3>2, <3>3 DEF TypeInv, TypeOK
      <4> QED
        BY <1>1, <1>2, <1>3, <1>5, <3>2, <3>3, <4>1, SleepOnAdminType
        DEF initConnection, TypeInv, TypeOK, budget
    <3>4. CASE giveUp(ownReturned) /\ corrupt' = TRUE /\ UNCHANGED outstanding
      BY <1>1, <1>2, <1>5, <3>4, GiveUpType DEF initConnection, TypeInv, TypeOK, budget
    <3> QED
      BY <3>1, <3>3, <3>4 DEF configuring
  <2> QED
    BY <1>5, <2>1, <2>2 DEF initConnection
<1> QED
  BY <1>4, <1>5

LEMMA ResubmitType ==
  ASSUME TypeInv, NEW c \in Commands, resubmit(c)
  PROVE  TypeInv'
<1>1. PICK room \in BOOLEAN : resubmitted(c, room)
  BY DEF resubmit
<1>2. link' \in [Commands -> Queues] /\ outstanding' \subseteq Commands
  BY <1>1 DEF resubmitted, TypeInv, TypeOK, Queues
<1>3. CASE completions(c, room) = 0
  BY <1>1, <1>2, <1>3 DEF resubmitted, resubmit, TypeInv, TypeOK, Holding, stage, budget
<1>4. CASE completions(c, room) /= 0
  <2>1. completions(c, room) \in Nat
    BY DEF completions
  <2>2. answers' \in [Requests -> Nat]
    BY <1>1, <1>4, <2>1 DEF resubmitted, TypeInv, TypeOK
  <2>3. result' \in [Requests -> {"none", "ok", "error"}]
    BY <1>1, <1>4 DEF resubmitted, TypeInv, TypeOK
  <2>4. /\ postResult' \in [Commands -> BOOLEAN] /\ asleep' \subseteq Clients
        /\ corrupt' \in BOOLEAN
    BY <1>1, <1>4 DEF resubmitted, wakeCommand, TypeInv, TypeOK
  <2> QED
    BY <1>2, <2>2, <2>3, <2>4 DEF resubmit, TypeInv, TypeOK, Holding, stage, budget
<1> QED
  BY <1>3, <1>4

LEMMA ResetDoneType ==
  ASSUME TypeInv, resetDone
  PROVE  TypeInv'
<1>1. AfterReset(workBits) \in {"timeouts", "getAEN", "reset", "getWork"}
  BY StageTypes DEF TypeInv, TypeOK
<1>2. AfterReset(workBits) \in SupportStages
  BY <1>1 DEF SupportStages
<1>3. \A r \in Requests : r \in Clients /\ r /= SupportThread /\ pc'[r] = woken(r)
  BY RequestAssumption DEF resetDone, Clients
<1>4. \A r \in Requests : woken(r) \in RequestStages
  BY DEF woken, RequestStages, TypeInv, TypeOK
<1>5. stage' = AfterReset(workBits)
  BY DEF resetDone, stage, Clients
<1>6. pc' \in [Clients -> RequestStages \union SupportStages]
  BY <1>2, <1>4 DEF resetDone, Clients
<1>7. Holding'
  BY <1>1, <1>3, <1>5 DEF resetDone, woken, TypeInv, Holding
<1> QED
  BY <1>2, <1>3, <1>4, <1>5, <1>6, <1>7
  DEF resetDone, TypeInv, TypeOK, hardware, commandVars, budget

LEMMA NextType == TypeInv /\ [Next]_vars => TypeInv'
<1> SUFFICES ASSUME TypeInv, [Next]_vars PROVE TypeInv'
  OBVIOUS
<1>1. CASE UNCHANGED vars
  BY <1>1 DEF vars, TypeInv, TypeOK, Holding, stage, hardware, budget, clientVars, commandVars
<1>2. CASE Next
  BY <1>2, RequestType, HardwareType, EventType, PollType, ResetBeginsType, InitControllerType,
     ResubmitType, ResetDoneType DEF Next, SupportStep
<1> QED
  BY <1>1, <1>2

(* TypeOK holds in every behaviour: no state component leaves its type,    *)
(* and no client runs a stage without the command that stage works on.     *)
THEOREM TypeCorrect == Spec => []TypeOK
<1>1. TypeInv => TypeOK
  BY DEF TypeInv
<1> QED
  BY <1>1, InitType, NextType, PTL DEF Spec
=============================================================================
