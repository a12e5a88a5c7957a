------------------------- MODULE CommandPath_safety -------------------------
(* The safety of the command path, for every number of commands, requests, *)
(* resets and timeouts, and that it implements CommandService.             *)
EXTENDS CommandPath_proofs

(* What is known while the chains are sound, as they are until a           *)
(* submission is refused or a reset finds a timed-out command parked.      *)
(* The controller comes out of a reset without errors, or not at all: one  *)
(* with errors keeps responses of commands that have been parked.          *)
Sane == ResetOutcomes \subseteq {"ok", "stuck"}

InFlight == {"active", "pending"}
Connecting == {"initConnection", "features"}

(* What the stage of a client says about its command and about the reset.  *)
Stages ==
  /\ \A r \in Requests : /\ pc[r] \in {"start", "posted", "done"} => cmd[r] = None
                         /\ pc[r] /= "refused"
                         /\ pc[r] \in {"ran", "done"} => r \in SyncReqs
                         /\ pc[r] \in {"held", "released", "posted"} => r \in AsyncReqs
  /\ stage \notin {"runAEN", "AEN"} \union Connecting => cmd[SupportThread] = None
  /\ resetting <=> stage \in Connecting \union {"resubmit"}
  /\ ~resetting => \A c \in Commands : link[c] /= "pending"

(* A held command is held once, and is in flight just while its holder     *)
(* sleeps on it.                                                           *)
Holders ==
  /\ \A x, y \in Clients : cmd[x] = cmd[y] /\ cmd[x] /= None => x = y
  /\ \A x \in asleep : /\ cmd[x] \in Commands /\ waiting[cmd[x]] /\ link[cmd[x]] \in InFlight
                       /\ pc[x] \in {"ran", "AEN"} \union Connecting
                       /\ x = SupportThread /\ stage \in Connecting => link[cmd[x]] = "active"
  /\ \A x \in Clients : cmd[x] /= None /\ x \notin asleep => link[cmd[x]] = "none"
  /\ \A c \in Commands : link[c] \in InFlight /\ waiting[c] => \E x \in asleep : cmd[x] = c

(* The emergency command is out of every queue and every hand.             *)
Spare ==
  /\ emergency = None <=> stage \in Connecting
  /\ emergency /= None => link[emergency] = "none" /\ \A x \in Clients : cmd[x] /= emergency

(* Commands nobody waits for and the reads and writes they carry; every    *)
(* other request is answered by its caller.                                *)
Carried ==
  /\ \A r \in SyncReqs : pc[r] /= "done" => answers[r] = 0
  /\ \A r \in AsyncReqs : /\ pc[r] \in {"gotten", "held", "released"} => completion[cmd[r]] = r
                          /\ pc[r] /= "posted" => answers[r] = 0
                          /\ answers[r] \in {0, 1}
                          /\ pc[r] = "posted" /\ answers[r] = 0 =>
                               \E c \in Commands : /\ link[c] \in InFlight /\ ~waiting[c]
                                                   /\ completion[c] = r
  /\ \A c \in Commands : link[c] \in InFlight /\ ~waiting[c] =>
       /\ completion[c] \in AsyncReqs /\ pc[completion[c]] = "posted"
       /\ answers[completion[c]] = 0
       /\ \A d \in Commands :
            link[d] \in InFlight /\ ~waiting[d] /\ completion[d] = completion[c] => d = c

(* The controller works on active commands, on all of them while it can    *)
(* interrupt; old responses of a stuck controller are those of commands    *)
(* still in flight.                                                        *)
Matched ==
  /\ outstanding \subseteq {c \in Commands : link[c] = "active"}
  /\ \A c \in responses : link[c] \in InFlight
  /\ intr => /\ outstanding \intersect responses = {}
             /\ outstanding \union responses = {c \in Commands : link[c] = "active"}

(* A success on its way to the caller is the controller's.                 *)
Truthful ==
  /\ \A c \in responses : status[c] = "ok" => Beneficiary(c) \subseteq served
  /\ \A r \in Requests :
       pc[r] = "ran" /\ r \notin asleep /\ status[cmd[r]] = "ok" => r \in served
  /\ NoFalseSuccess

(* What holds while the chains are sound; the part about the controller    *)
(* needs a sane one.                                                       *)
SafeInv ==
  /\ TypeInv /\ ~corrupt
  /\ Stages /\ Holders /\ Spare /\ Carried
  /\ Sane => Matched /\ Truthful

LEMMA InitSafe == Init => SafeInv
<1> SUFFICES ASSUME Init PROVE SafeInv
  OBVIOUS
<1> USE CommandAssumption, RequestAssumption
<1>1. TypeInv
  BY InitType
<1>2. Stages /\ ~corrupt
  BY DEF Init, Stages, stage, Clients, Connecting
<1>3. Holders
  BY DEF Init, Holders, InFlight
<1>4. Spare
  BY DEF Init, Spare, stage, Clients, Connecting, Commands
<1>5. Carried
  BY DEF Init, Carried, InFlight, Clients, Requests, SyncReqs
<1>6. Matched /\ Truthful
  BY DEF Init, Matched, Truthful, NoFalseSuccess, Clients, Requests
<1> QED
  BY <1>1, <1>2, <1>3, <1>4, <1>5, <1>6 DEF SafeInv

LEMMA GetCommandSafe ==
  ASSUME SafeInv, TypeInv', ~corrupt', NEW r \in Requests, getCommand(r)
  PROVE  SafeInv'
<1> USE CommandAssumption, RequestAssumption
<1> r \in Clients /\ r /= SupportThread
  BY DEF Clients
<1>1. PICK c \in PoolFor(r) :
        /\ link[c] = "pool"
        /\ link' = [link EXCEPT ![c] = "none"]
        /\ cmd' = [cmd EXCEPT ![r] = c]
        /\ status' = [status EXCEPT ![c] = "ok"]
        /\ completion' = [completion EXCEPT ![c] = IF r \in AsyncReqs THEN r ELSE @]
  BY DEF getCommand, Pool
<1>2. c \in Commands /\ c /= None
  BY DEF PoolFor, Commands
<1>3. /\ pc[r] = "start" /\ pc' = [pc EXCEPT ![r] = "gotten"]
      /\ UNCHANGED <<corrupt, emergency, outstanding, responses, intr, resetting, asleep, waiting,
                      answers, result, served>>
  BY DEF getCommand, hardware
<1>4. cmd[r] = None /\ r \notin asleep /\ \A x \in Clients : cmd[x] /= c
  BY <1>1, <1>2, <1>3 DEF SafeInv, Stages, Holders, InFlight, Connecting
<1>t. TypeOK
  BY DEF SafeInv, TypeInv
<1> HIDE DEF PoolFor
<1>5. Stages' /\ ~corrupt'
  BY <1>1, <1>2, <1>3, <1>4, <1>t DEF SafeInv, Stages, TypeOK, stage
<1>6. Holders'
  BY <1>1, <1>2, <1>3, <1>4, <1>t DEF SafeInv, Holders, TypeOK, stage, InFlight
<1>7. Spare'
  BY <1>1, <1>2, <1>3, <1>4, <1>t DEF SafeInv, Spare, TypeOK, stage
<1>8. Carried'
  BY <1>1, <1>2, <1>3, <1>4, <1>t DEF SafeInv, Carried, TypeOK, InFlight, Clients, Requests
<1>9. Sane => Matched'
  BY <1>1, <1>2, <1>3, <1>4, <1>t DEF SafeInv, Matched, TypeOK, InFlight
<1>10. Sane => Truthful'
  BY <1>1, <1>2, <1>3, <1>4, <1>t
  DEF SafeInv, Truthful, Matched, Beneficiary, NoFalseSuccess, TypeOK, InFlight, Clients, Requests
<1> QED
  BY <1>5, <1>6, <1>7, <1>8, <1>9, <1>10 DEF SafeInv

LEMMA SubmitSafe ==
  ASSUME SafeInv, TypeInv', ~corrupt', NEW r \in Requests, NEW sync \in BOOLEAN,
         pc[r] \in {"gotten", "released"}, sync <=> r \in SyncReqs, submit(r, sync)
  PROVE  SafeInv'
<1> USE CommandAssumption, RequestAssumption
<1> r \in Clients /\ r /= SupportThread
  BY DEF Clients
<1> DEFINE c == cmd[r]
<1>t. TypeOK /\ c \in Commands /\ c /= None
  BY DEF SafeInv, TypeInv, Holding
<1>4. r \notin asleep /\ link[c] = "none" /\ \A x \in Clients \ {r} : cmd[x] /= c
  BY <1>t DEF SafeInv, Holders, Connecting
<1>1. posted(r, c, sync)
  BY <1>4 DEF submit, refused, complete, corruptByRemove
<1>2. /\ waiting' = [waiting EXCEPT ![c] = sync]
      /\ UNCHANGED <<emergency, responses, intr, resetting, completion, credits, status, served,
                      postResult, answers, result>>
  BY <1>1 DEF submit, posted
<1>3. /\ outstanding' = outstanding \union {c} /\ link' = [link EXCEPT ![c] = "active"]
      /\ asleep' = IF sync THEN asleep \union {r} ELSE asleep
      /\ pc' = [pc EXCEPT ![r] = IF sync THEN "ran" ELSE "posted"]
      /\ cmd' = [cmd EXCEPT ![r] = IF sync THEN c ELSE None]
  BY <1>1 DEF posted, Accepted
<1>6. ~sync => r \in AsyncReqs
  BY DEF Requests, SyncReqs
<1>7. Stages'
  BY <1>2, <1>3, <1>4, <1>6, <1>t DEF SafeInv, Stages, TypeOK, stage
<1>8. Holders'
  BY <1>2, <1>3, <1>4, <1>t DEF SafeInv, Holders, TypeOK, stage, InFlight
<1>9. Spare'
  BY <1>2, <1>3, <1>4, <1>t DEF SafeInv, Spare, TypeOK, stage
<1>10. Carried'
  <2>1. ~sync => completion[c] = r /\ answers[r] = 0
    BY <1>6 DEF SafeInv, Carried
  <2> QED
    BY <1>2, <1>3, <1>4, <1>6, <1>t, <2>1
    DEF SafeInv, Carried, TypeOK, InFlight, Clients, Requests, SyncReqs
<1>11. Sane => Matched'
  BY <1>2, <1>3, <1>4, <1>t DEF SafeInv, Matched, TypeOK, InFlight
<1>12. ASSUME Sane PROVE Truthful'
  <2> USE <1>12
  <2>1. c \notin responses
    BY <1>4 DEF SafeInv, Matched, InFlight
  <2> QED
    BY <1>2, <1>3, <1>4, <1>t, <2>1
    DEF SafeInv, Truthful, Beneficiary, NoFalseSuccess, TypeOK, InFlight, Clients, Requests
<1> QED
  BY <1>7, <1>8, <1>9, <1>10, <1>11, <1>12 DEF SafeInv

LEMMA HoldSafe ==
  ASSUME SafeInv, TypeInv', ~corrupt', NEW r \in Requests, hold(r)
  PROVE  SafeInv'
<1> USE CommandAssumption, RequestAssumption
<1> r \in Clients /\ r /= SupportThread
  BY DEF Clients
<1>t. TypeOK
  BY DEF SafeInv, TypeInv
<1>1. /\ r \in AsyncReqs /\ pc[r] = "gotten" /\ pc' = [pc EXCEPT ![r] = "held"]
      /\ UNCHANGED <<link, corrupt, emergency, outstanding, responses, intr, resetting, cmd, asleep,
                      answers, result, waiting, completion, postResult, credits, status, served>>
  BY DEF hold, hardware, commandVars
<1>2. Stages' /\ ~corrupt'
  BY <1>1, <1>t DEF SafeInv, Stages, TypeOK, stage, SyncReqs
<1>3. Holders' /\ Spare'
  BY <1>1, <1>t DEF SafeInv, Holders, Spare, TypeOK, stage, Connecting
<1>4. Carried'
  BY <1>1, <1>t DEF SafeInv, Carried, TypeOK, Clients, Requests
<1>5. Sane => Matched' /\ Truthful'
  BY <1>1, <1>t DEF SafeInv, Matched, Truthful, NoFalseSuccess, Beneficiary, TypeOK, Clients
<1> QED
  BY <1>2, <1>3, <1>4, <1>5 DEF SafeInv

LEMMA ReturnCommandSafe ==
  ASSUME SafeInv, TypeInv', ~corrupt', NEW r \in Requests, returnCommand(r)
  PROVE  SafeInv'
<1> USE CommandAssumption, RequestAssumption
<1> r \in Clients /\ r /= SupportThread
  BY DEF Clients
<1> DEFINE c == cmd[r]
<1>t. TypeOK /\ c \in Commands /\ c /= None /\ pc[r] = "ran" /\ r \notin asleep /\ r \in SyncReqs
  BY DEF SafeInv, TypeInv, Holding, returnCommand, Stages
<1>1. /\ link' = [link EXCEPT ![c] = "pool"] /\ pc' = [pc EXCEPT ![r] = "done"]
      /\ cmd' = [cmd EXCEPT ![r] = None]
      /\ answers' = [answers EXCEPT ![r] = @ + 1]
      /\ UNCHANGED <<emergency, outstanding, responses, intr, resetting, asleep,
                      waiting, completion, postResult, credits, status, served>>
  BY DEF returnCommand, hardware, commandVars
<1>2. link[c] = "none" /\ \A x \in Clients \ {r} : cmd[x] /= c
  BY <1>t DEF SafeInv, Holders
<1>3. Stages'
  BY <1>1, <1>2, <1>t DEF SafeInv, Stages, TypeOK, stage
<1>5. Holders'
  BY <1>1, <1>2, <1>t DEF SafeInv, Holders, TypeOK, stage, InFlight
<1>6. Spare'
  BY <1>1, <1>2, <1>t DEF SafeInv, Spare, TypeOK, stage
<1>7. Carried'
  BY <1>1, <1>2, <1>t DEF SafeInv, Carried, TypeOK, InFlight, Clients, Requests
<1>8. Sane => Matched'
  BY <1>1, <1>2, <1>t DEF SafeInv, Matched, TypeOK, InFlight
<1>9. ASSUME Sane PROVE Truthful'
  <2> USE <1>9
  <2>1. r \in AdminReqs /\ reported(r) => r \in served
    BY <1>t DEF reported, getResult, SafeInv, Truthful, SyncReqs
  <2>2. \A q \in AsyncReqs \union AdminReqs : result'[q] = "ok" => q \in served
    BY <1>t, <2>1 DEF returnCommand, SafeInv, Truthful, NoFalseSuccess, TypeOK, SyncReqs, Requests
  <2> QED
    BY <1>1, <1>2, <1>t, <2>2
    DEF SafeInv, Truthful, Matched, Beneficiary, NoFalseSuccess, TypeOK, InFlight, Clients
<1> QED
  BY <1>3, <1>5, <1>6, <1>7, <1>8, <1>9 DEF SafeInv

LEMMA RequestSafe ==
  ASSUME SafeInv, TypeInv', ~corrupt', NEW r \in Requests, RequestStep(r)
  PROVE  SafeInv'
<1>1. CASE getCommand(r)
  BY <1>1, GetCommandSafe
<1>2. CASE runSynchronousCommand(r)
  BY <1>2, SubmitSafe DEF runSynchronousCommand
<1>3. CASE hold(r)
  BY <1>3, HoldSafe
<1>4. CASE runAsynchronousCommand(r)
  BY <1>4, SubmitSafe, RequestAssumption DEF runAsynchronousCommand
<1>5. CASE returnCommand(r)
  BY <1>5, ReturnCommandSafe
<1> QED
  BY <1>1, <1>2, <1>3, <1>4, <1>5 DEF RequestStep

LEMMA RespondSafe ==
  ASSUME SafeInv, TypeInv', ~corrupt', NEW c \in Commands, respond(c)
  PROVE  SafeInv'
<1>t. TypeOK
  BY DEF SafeInv, TypeInv
<1>1. /\ c \in outstanding /\ outstanding' = outstanding \ {c} /\ responses' = responses \union {c}
      /\ UNCHANGED <<link, corrupt, emergency, intr, resetting, pc, cmd, asleep, answers, result,
                      waiting, completion, postResult, credits>>
  BY DEF respond, clientVars
<1>2. PICK s \in Statuses : /\ status' = [status EXCEPT ![c] = s]
                            /\ served' = IF s = "ok" THEN served \union Beneficiary(c) ELSE served
  BY DEF respond
<1>3. Stages' /\ ~corrupt' /\ Holders' /\ Spare' /\ Carried'
  BY <1>1 DEF SafeInv, Stages, stage, Holders, Spare, Carried
<1>4. Sane => Matched'
  BY <1>1 DEF SafeInv, Matched, InFlight
<1>5. ASSUME Sane PROVE Truthful'
  <2> USE <1>5
  <2>1. \A d \in Commands : Beneficiary(d)' = Beneficiary(d)
    BY <1>1 DEF Beneficiary
  <2>2. \A d \in responses' : d \in Commands /\ (status'[d] = "ok" => Beneficiary(d)' \subseteq served')
    BY <1>1, <1>2, <1>t, <2>1 DEF SafeInv, Truthful, TypeOK
  <2>3. \A r \in Requests : pc[r] = "ran" /\ r \notin asleep => cmd[r] /= c
    <3>1. link[c] = "active"
      BY <1>1 DEF SafeInv, Matched
    <3> QED
      BY <1>t, <3>1, CommandAssumption DEF SafeInv, Holders, TypeInv, Holding, Clients, InFlight
  <2>4. \A r \in Requests : pc[r] = "ran" => cmd[r] \in Commands
    BY DEF SafeInv, TypeInv, Holding
  <2> QED
    BY <1>1, <1>2, <1>t, <2>2, <2>3, <2>4 DEF SafeInv, Truthful, NoFalseSuccess, TypeOK
<1> QED
  BY <1>3, <1>4, <1>5 DEF SafeInv

LEMMA HandleInterruptSafe ==
  ASSUME SafeInv, TypeInv', ~corrupt', NEW c \in Commands, handleInterrupt(c)
  PROVE  SafeInv'
<1> USE CommandAssumption, RequestAssumption
<1>t. TypeOK
  BY DEF SafeInv, TypeInv
<1>1. /\ c \in responses /\ responses' = responses \ {c} /\ intr
      /\ complete(c, TRUE, waiting[c])
      /\ UNCHANGED <<emergency, outstanding, intr, resetting, pc, cmd, waiting, completion,
                      credits, status, served>>
  BY DEF handleInterrupt
<1>2. link[c] = "active"
  BY <1>1 DEF complete, corruptByRemove
<1>3. Sane => c \notin outstanding
  BY <1>1 DEF SafeInv, Matched
<1>4. \A d \in Commands : Beneficiary(d)' = Beneficiary(d)
  BY <1>1 DEF Beneficiary
<1>5. CASE waiting[c]
  <2>1. /\ asleep' = wakeCommand(c) /\ link' = [link EXCEPT ![c] = "none"]
        /\ UNCHANGED <<answers, result>>
    BY <1>1, <1>5 DEF complete
  <2>2. PICK x \in asleep : cmd[x] = c
    BY <1>2, <1>5 DEF SafeInv, Holders, InFlight
  <2>3. asleep' = asleep \ {x} /\ x \in Clients
    BY <1>t, <2>1, <2>2 DEF wakeCommand, SafeInv, Holders, TypeOK
  <2>4. Stages'
    BY <1>1, <1>t, <2>1 DEF SafeInv, Stages, TypeOK, stage
  <2>5. Holders'
    BY <1>1, <1>2, <1>t, <2>1, <2>2, <2>3 DEF SafeInv, Holders, TypeOK, stage, InFlight
  <2>6. Spare'
    BY <1>1, <1>t, <2>1 DEF SafeInv, Spare, TypeOK, stage
  <2>7. Carried'
    BY <1>1, <1>2, <1>5, <1>t, <2>1 DEF SafeInv, Carried, TypeOK, InFlight
  <2>8. Sane => Matched'
    BY <1>1, <1>2, <1>3, <1>t, <2>1 DEF SafeInv, Matched, TypeOK, InFlight
  <2>9. ASSUME Sane PROVE Truthful'
    <3> USE <2>9
    <3>1. \A r \in Requests : cmd[r] = c /\ status[c] = "ok" => r \in served
      BY <1>1, <1>5 DEF SafeInv, Truthful, Beneficiary
    <3> QED
      BY <1>1, <1>4, <1>t, <2>1, <2>2, <2>3, <3>1
      DEF SafeInv, Truthful, NoFalseSuccess, TypeOK
  <2> QED
    BY <2>4, <2>5, <2>6, <2>7, <2>8, <2>9 DEF SafeInv
<1>6. CASE ~waiting[c]
  <2> DEFINE r == completion[c]
  <2>1. /\ link' = [link EXCEPT ![c] = "pool"]
        /\ answers' = [answers EXCEPT ![r] = @ + 1]
        /\ result' = [result EXCEPT ![r] = IF getResult(c, TRUE) THEN "ok" ELSE "error"]
        /\ UNCHANGED asleep
    BY <1>1, <1>6 DEF complete
  <2>2. r \in AsyncReqs /\ r \in Requests /\ pc[r] = "posted" /\ answers[r] = 0
    BY <1>2, <1>6 DEF SafeInv, Carried, InFlight, Requests
  <2>3. \A x \in Clients : cmd[x] /= c
    BY <1>2, <1>6, <1>t DEF SafeInv, Holders, InFlight
  <2>4. Stages'
    BY <1>1, <1>t, <2>1 DEF SafeInv, Stages, TypeOK, stage
  <2>5. Holders'
    BY <1>1, <1>2, <1>6, <1>t, <2>1, <2>3 DEF SafeInv, Holders, TypeOK, stage, InFlight
  <2>6. Spare'
    BY <1>1, <1>2, <1>t, <2>1 DEF SafeInv, Spare, TypeOK, stage
  <2>7. Carried'
    BY <1>1, <1>2, <1>6, <1>t, <2>1, <2>2 DEF SafeInv, Carried, TypeOK, InFlight, Requests
  <2>8. Sane => Matched'
    BY <1>1, <1>2, <1>3, <1>t, <2>1 DEF SafeInv, Matched, TypeOK, InFlight
  <2>9. ASSUME Sane PROVE Truthful'
    <3> USE <2>9
    <3>1. getResult(c, TRUE) => r \in served
      BY <1>1, <1>6 DEF getResult, SafeInv, Truthful, Beneficiary
    <3>2. \A q \in AsyncReqs \union AdminReqs : result'[q] = "ok" => q \in served
      BY <1>t, <2>1, <3>1 DEF SafeInv, Truthful, NoFalseSuccess, TypeOK, Requests
    <3>3. \A d \in responses' : status'[d] = "ok" => Beneficiary(d)' \subseteq served'
      BY <1>1, <1>4, <1>t DEF SafeInv, Truthful, TypeOK
    <3>4. \A q \in Requests : pc'[q] = "ran" /\ q \notin asleep' /\ status'[cmd'[q]] = "ok" => q \in served'
      BY <1>1, <2>1 DEF SafeInv, Truthful
    <3> QED
      BY <1>1, <3>2, <3>3, <3>4 DEF Truthful, NoFalseSuccess
  <2> QED
    BY <2>4, <2>5, <2>6, <2>7, <2>8, <2>9 DEF SafeInv
<1> QED
  BY <1>5, <1>6

LEMMA EventSafe ==
  ASSUME SafeInv, TypeInv', ~corrupt', handleAttention \/ timeoutOccurred \/ requestReset \/ quiescent
  PROVE  SafeInv'
<1>1. UNCHANGED <<link, corrupt, emergency, outstanding, responses, intr, resetting, pc, cmd, asleep,
                  answers, result, waiting, completion, postResult, credits, status, served>>
  BY DEF handleAttention, timeoutOccurred, requestReset, quiescent, vars, hardware, clientVars,
         commandVars
<1> QED
  BY <1>1 DEF SafeInv, Stages, stage, Holders, Spare, Carried, Matched, Truthful, NoFalseSuccess,
              Beneficiary

LEMMA ThreadSafe ==
  ASSUME SafeInv, TypeInv', ~corrupt', supportThreadGetWork \/ supportThreadCheckTimeouts
  PROVE  SafeInv'
<1> USE CommandAssumption, RequestAssumption
<1>t. TypeOK
  BY DEF SafeInv, TypeInv
<1>1. /\ stage \in {"getWork", "timeouts"}
      /\ stage' \in {"timeouts", "getAEN", "reset", "getWork"}
      /\ pc' = [pc EXCEPT ![SupportThread] = stage']
      /\ UNCHANGED <<link, corrupt, emergency, outstanding, responses, intr, resetting, cmd, asleep,
                      answers, result, waiting, completion, postResult, status, served>>
  <2>1. SupportThread \in Clients
    BY DEF Clients
  <2>2. CASE supportThreadGetWork
    <3>1. NextPass(inbox) \in {"timeouts", "getAEN", "reset", "getWork"}
      BY StageTypes, <1>t DEF TypeOK
    <3> QED
      BY <2>1, <2>2, <3>1, <1>t DEF supportThreadGetWork, stage, TypeOK, hardware, commandVars
  <2>3. CASE supportThreadCheckTimeouts
    <3>1. AfterTimeouts(workBits') \in {"timeouts", "getAEN", "reset", "getWork"}
      BY DEF AfterTimeouts
    <3> QED
      BY <2>1, <2>3, <3>1, <1>t DEF supportThreadCheckTimeouts, stage, TypeOK, hardware
  <2> QED
    BY <2>2, <2>3
<1>2. \A r \in Requests : r \in Clients /\ pc'[r] = pc[r]
  BY <1>1, <1>t DEF TypeOK, Clients
<1>3. SupportThread \notin asleep
  BY <1>1 DEF SafeInv, Holders, Connecting, stage
<1>4. Stages' /\ ~corrupt'
  BY <1>1, <1>2 DEF SafeInv, Stages, Connecting
<1>5. Holders'
  BY <1>1, <1>2, <1>3, <1>t DEF SafeInv, Holders, TypeOK, Clients
<1>6. Spare' /\ (Sane => Matched')
  BY <1>1 DEF SafeInv, Spare, Matched, Connecting
<1>7. Carried'
  BY <1>1, <1>2, <1>t DEF SafeInv, Carried, TypeOK, Requests, SyncReqs
<1>8. Sane => Truthful'
  BY <1>1, <1>2 DEF SafeInv, Truthful, NoFalseSuccess, Beneficiary
<1> QED
  BY <1>4, <1>5, <1>6, <1>7, <1>8 DEF SafeInv

LEMMA GetAENSafe ==
  ASSUME SafeInv, TypeInv', ~corrupt', getAEN
  PROVE  SafeInv'
<1> USE CommandAssumption, RequestAssumption
<1>s. SupportThread \in Clients /\ \A r \in Requests : r \in Clients /\ r /= SupportThread
  BY DEF Clients
<1>t. TypeOK
  BY DEF SafeInv, TypeInv
<1>1. PICK c \in AdminCommands :
        /\ link[c] = "pool" /\ link' = [link EXCEPT ![c] = "none"]
        /\ cmd' = [cmd EXCEPT ![SupportThread] = c]
        /\ status' = [status EXCEPT ![c] = "ok"]
  BY DEF getAEN, Pool
<1>2. /\ c \in Commands /\ c /= None
      /\ pc[SupportThread] = "getAEN" /\ pc' = [pc EXCEPT ![SupportThread] = "runAEN"]
      /\ UNCHANGED <<corrupt, emergency, outstanding, responses, intr, resetting, asleep, waiting,
                      completion, answers, result, served>>
  BY DEF getAEN, hardware, stage, Commands
<1>3. /\ cmd[SupportThread] = None /\ SupportThread \notin asleep
      /\ \A x \in Clients : cmd[x] /= c
  BY <1>1, <1>2, <1>s, <1>t DEF SafeInv, Stages, Holders, stage, InFlight, Connecting
<1>4. Stages' /\ ~corrupt'
  BY <1>1, <1>2, <1>3, <1>s, <1>t DEF SafeInv, Stages, TypeOK, stage, Connecting
<1>5. Holders'
  BY <1>1, <1>2, <1>3, <1>s, <1>t DEF SafeInv, Holders, TypeOK, stage, InFlight
<1>6. Spare'
  BY <1>1, <1>2, <1>3, <1>s, <1>t DEF SafeInv, Spare, TypeOK, stage, Connecting
<1>7. Carried'
  <2>1. \A r \in Requests : cmd'[r] = cmd[r] /\ pc'[r] = pc[r]
    BY <1>1, <1>2, <1>s, <1>t DEF TypeOK
  <2>2. \A d \in Commands : link[d] \in InFlight <=> link'[d] \in InFlight
    BY <1>1, <1>2, <1>t DEF TypeOK, InFlight
  <2> QED
    BY <1>2, <2>1, <2>2, <1>t DEF SafeInv, Carried, TypeOK, Requests
<1>8. Sane => Matched'
  BY <1>1, <1>2, <1>t DEF SafeInv, Matched, TypeOK, InFlight
<1>9. Sane => Truthful'
  BY <1>1, <1>2, <1>3, <1>s, <1>t
  DEF SafeInv, Truthful, Matched, Beneficiary, NoFalseSuccess, TypeOK, InFlight
<1> QED
  BY <1>4, <1>5, <1>6, <1>7, <1>8, <1>9 DEF SafeInv

LEMMA RunAENSafe ==
  ASSUME SafeInv, TypeInv', ~corrupt', runAEN
  PROVE  SafeInv'
<1> USE CommandAssumption, RequestAssumption
<1>s. SupportThread \in Clients /\ \A r \in Requests : r \in Clients /\ r /= SupportThread
  BY DEF Clients
<1> DEFINE c == cmd[SupportThread]
<1>t. TypeOK /\ c \in Commands /\ c /= None
  BY DEF SafeInv, TypeInv, Holding, runAEN, Commands
<1>3. /\ SupportThread \notin asleep /\ link[c] = "none"
      /\ \A x \in Clients \ {SupportThread} : cmd[x] /= c
  BY <1>s, <1>t DEF SafeInv, Holders, Connecting, runAEN, stage
<1>1. /\ pc[SupportThread] = "runAEN" /\ pc' = [pc EXCEPT ![SupportThread] = "AEN"]
      /\ waiting' = [waiting EXCEPT ![c] = TRUE]
      /\ Accepted(c) /\ asleep' = asleep \union {SupportThread}
      /\ UNCHANGED <<emergency, responses, intr, resetting, cmd, completion, status, served,
                      answers, result>>
  BY <1>3 DEF runAEN, complete, corruptByRemove, ownCommand, stage
<1>2. outstanding' = outstanding \union {c} /\ link' = [link EXCEPT ![c] = "active"]
  BY <1>1 DEF Accepted
<1>5. Stages'
  BY <1>1, <1>2, <1>s, <1>t DEF SafeInv, Stages, TypeOK, stage, Connecting
<1>6. Holders'
  BY <1>1, <1>2, <1>3, <1>s, <1>t DEF SafeInv, Holders, TypeOK, stage, InFlight, Connecting
<1>7. Spare'
  BY <1>1, <1>2, <1>3, <1>s, <1>t DEF SafeInv, Spare, TypeOK, stage, Connecting
<1>8. Carried'
  BY <1>1, <1>2, <1>3, <1>s, <1>t DEF SafeInv, Carried, TypeOK, InFlight, Clients, Requests
<1>9. Sane => Matched'
  BY <1>1, <1>2, <1>3, <1>t DEF SafeInv, Matched, TypeOK, InFlight
<1>10. Sane => Truthful'
  BY <1>1, <1>2, <1>3, <1>s, <1>t
  DEF SafeInv, Truthful, Matched, Beneficiary, NoFalseSuccess, TypeOK, InFlight
<1> QED
  BY <1>5, <1>6, <1>7, <1>8, <1>9, <1>10 DEF SafeInv

LEMMA FetchedAENSafe ==
  ASSUME SafeInv, TypeInv', ~corrupt', fetchedAEN
  PROVE  SafeInv'
<1> USE CommandAssumption, RequestAssumption
<1>s. SupportThread \in Clients /\ \A r \in Requests : r \in Clients /\ r /= SupportThread
  BY DEF Clients
<1> DEFINE c == cmd[SupportThread]
<1>t. TypeOK /\ c \in Commands /\ c /= None
  BY DEF SafeInv, TypeInv, Holding, fetchedAEN, Commands
<1>1. /\ pc[SupportThread] = "AEN" /\ SupportThread \notin asleep
      /\ link' = [link EXCEPT ![c] = "pool"] /\ cmd' = [cmd EXCEPT ![SupportThread] = None]
      /\ UNCHANGED <<emergency, outstanding, responses, intr, resetting, asleep, waiting, completion,
                      status, served, answers, result>>
  BY DEF fetchedAEN, ownReturned, ownCommand, stage, hardware, commandVars
<1>2. /\ stage' \in {"timeouts", "getAEN", "reset", "getWork"}
      /\ pc' = [pc EXCEPT ![SupportThread] = stage']
  <2>1. workBits' \subseteq WorkBits
    BY DEF TypeInv, TypeOK
  <2>2. NextPass(workBits') \in {"timeouts", "getAEN", "reset", "getWork"}
    BY <2>1, StageTypes
  <2> QED
    BY <1>s, <1>t, <2>2 DEF fetchedAEN, stage, TypeOK
<1>3. link[c] = "none" /\ \A x \in Clients \ {SupportThread} : cmd[x] /= c
  BY <1>1, <1>s, <1>t DEF SafeInv, Holders
<1>5. \A r \in Requests : pc'[r] = pc[r] /\ cmd'[r] = cmd[r]
  BY <1>1, <1>2, <1>s, <1>t DEF TypeOK
<1>6. Stages'
  BY <1>1, <1>2, <1>5, <1>s, <1>t DEF SafeInv, Stages, TypeOK, stage, Connecting
<1>7. Holders'
  BY <1>1, <1>2, <1>3, <1>s, <1>t DEF SafeInv, Holders, TypeOK, stage, InFlight, Connecting
<1>8. Spare'
  BY <1>1, <1>2, <1>3, <1>s, <1>t DEF SafeInv, Spare, TypeOK, stage, Connecting
<1>9. Carried'
  <2>1. \A d \in Commands : link[d] \in InFlight <=> link'[d] \in InFlight
    BY <1>1, <1>3, <1>t DEF TypeOK, InFlight
  <2> QED
    BY <1>1, <1>5, <2>1, <1>t DEF SafeInv, Carried, TypeOK, Requests, SyncReqs
<1>10. Sane => Matched'
  BY <1>1, <1>3, <1>t DEF SafeInv, Matched, TypeOK, InFlight
<1>11. Sane => Truthful'
  BY <1>1, <1>3, <1>5, <1>s, <1>t
  DEF SafeInv, Truthful, Matched, Beneficiary, NoFalseSuccess, TypeOK, InFlight
<1> QED
  BY <1>6, <1>7, <1>8, <1>9, <1>10, <1>11 DEF SafeInv

LEMMA ResetBeginsSafe ==
  ASSUME SafeInv, TypeInv', ~corrupt', resetController
  PROVE  SafeInv'
<1> USE CommandAssumption, RequestAssumption
<1>s. SupportThread \in Clients /\ \A r \in Requests : r \in Clients /\ r /= SupportThread
  BY DEF Clients
<1>t. TypeOK /\ pc[SupportThread] = "reset"
  BY DEF SafeInv, TypeInv, resetController, stage
<1>1. /\ cmd[SupportThread] = None /\ SupportThread \notin asleep
      /\ emergency \in AdminCommands /\ link[emergency] = "none"
      /\ \A x \in Clients : cmd[x] /= emergency
      /\ \A d \in Commands : link[d] /= "pending"
  BY <1>s, <1>t DEF SafeInv, Stages, Holders, Spare, stage, Connecting, TypeOK, Commands
<1>2. /\ parkedLinks \in [Commands -> Queues]
      /\ \A d \in Commands : /\ link[d] = "active" <=> parkedLinks[d] = "pending"
                             /\ parkedLinks[d] /= "active"
                             /\ link[d] \in {"none", "pool"} /\ d /= emergency => parkedLinks[d] = link[d]
                             /\ parkedLinks[d] = "pool" => \A x \in Clients : cmd[x] /= d
  <2>1. \A d \in Commands : link[d] = "pool" => \A x \in Clients : cmd[x] /= d
    BY DEF SafeInv, Holders, InFlight
  <2> QED
    BY <1>1, <1>t, <2>1 DEF parkedLinks, parkedLink, TypeOK, Queues
<1>4. resetting' /\ UNCHANGED <<completion, postResult, answers, result, served>>
  BY DEF resetController
<1>5. CASE \E c \in Admins(parkedLinks) : connecting(c) /\ intr'
  <2>1. PICK c \in AdminCommands :
          /\ parkedLinks[c] = "pool" /\ link' = [parkedLinks EXCEPT ![c] = "active"]
          /\ cmd' = [cmd EXCEPT ![SupportThread] = c]
          /\ asleep' = asleep \union {SupportThread}
          /\ waiting' = [waiting EXCEPT ![c] = TRUE]
          /\ status' = [status EXCEPT ![c] = "ok"]
          /\ pc' = [pc EXCEPT ![SupportThread] = "initConnection"]
          /\ outstanding' = {c} /\ emergency' = None /\ responses' = {} /\ intr'
    BY <1>5 DEF connecting, sleepOnAdmin, Admins, drainResponseQueue
  <2>2. c \in Commands /\ c /= None
    BY DEF Commands
  <2>3. Stages'
    BY <1>2, <1>4, <1>s, <1>t, <2>1, <2>2 DEF SafeInv, Stages, TypeOK, stage, Connecting
  <2>4. Holders'
    BY <1>1, <1>2, <1>s, <1>t, <2>1, <2>2
    DEF SafeInv, Holders, TypeOK, stage, InFlight, Connecting
  <2>5. Spare'
    BY <1>s, <1>t, <2>1 DEF Spare, TypeOK, stage, Connecting
  <2>6. Carried'
    BY <1>1, <1>2, <1>4, <1>s, <1>t, <2>1, <2>2
    DEF SafeInv, Carried, TypeOK, InFlight, Clients, Requests
  <2>7. Sane => Matched'
    BY <1>2, <2>1, <2>2 DEF Matched, Queues
  <2>8. Sane => Truthful'
    BY <1>2, <1>4, <1>s, <1>t, <2>1, <2>2
    DEF SafeInv, Truthful, NoFalseSuccess, TypeOK, Holding, TypeInv
  <2> QED
    BY <2>3, <2>4, <2>5, <2>6, <2>7, <2>8 DEF SafeInv
<1>6. CASE (Sane => ~intr') /\ giveUp(parkedLinks) /\ outstanding' = {} /\ UNCHANGED responses
  <2>1. PICK e \in AdminCommands :
          /\ parkedLinks[e] = "pool" /\ link' = [parkedLinks EXCEPT ![e] = "none"]
          /\ emergency' = e
    BY <1>6 DEF giveUp, recoverEmergency, Admins
  <2>2. /\ pc' = [pc EXCEPT ![SupportThread] = "resubmit"]
        /\ cmd' = [cmd EXCEPT ![SupportThread] = None]
        /\ UNCHANGED <<asleep, waiting, credits, status>>
    BY <1>6 DEF giveUp
  <2>3. e \in Commands /\ e /= None
    BY DEF Commands
  <2>4. Stages'
    BY <1>4, <1>s, <1>t, <2>1, <2>2, <2>3 DEF SafeInv, Stages, TypeOK, stage, Connecting
  <2>5. Holders'
    BY <1>1, <1>2, <1>s, <1>t, <2>1, <2>2, <2>3
    DEF SafeInv, Holders, TypeOK, stage, InFlight, Connecting
  <2>6. Spare'
    BY <1>1, <1>2, <1>s, <1>t, <2>1, <2>2, <2>3 DEF Spare, TypeOK, stage, Connecting
  <2>7. Carried'
    BY <1>1, <1>2, <1>4, <1>s, <1>t, <2>1, <2>2, <2>3
    DEF SafeInv, Carried, TypeOK, InFlight, Clients, Requests
  <2>8. Sane => Matched'
    BY <1>1, <1>2, <1>6, <1>t, <2>1, <2>3 DEF SafeInv, Matched, TypeOK, InFlight
  <2>9. Sane => Truthful'
    BY <1>1, <1>4, <1>6, <1>s, <1>t, <2>1, <2>2
    DEF SafeInv, Truthful, NoFalseSuccess, Beneficiary, TypeOK
  <2> QED
    BY <2>4, <2>5, <2>6, <2>7, <2>8, <2>9 DEF SafeInv
<1> QED
  BY <1>5, <1>6, EnvironmentAssumption DEF resetController, Sane

LEMMA AbandonSafe ==
  ASSUME SafeInv, TypeInv', ~corrupt', stage \in Connecting, SupportThread \notin asleep,
         giveUp(ownReturned), corrupt' = corruptByEnter(ownCommand),
         UNCHANGED <<outstanding, responses, intr, resetting, completion, postResult, answers,
                     result, served>>
  PROVE  SafeInv'
<1> USE CommandAssumption, RequestAssumption
<1>s. SupportThread \in Clients /\ \A r \in Requests : r \in Clients /\ r /= SupportThread
  BY DEF Clients
<1> DEFINE c == cmd[SupportThread]
<1>t. TypeOK /\ c \in AdminCommands /\ c \in Commands /\ c /= None
  BY DEF SafeInv, TypeInv, Holding, Commands, Connecting
<1>1. link[c] = "none" /\ \A x \in Clients \ {SupportThread} : cmd[x] /= c
  BY <1>s, <1>t DEF SafeInv, Holders
<1>3. PICK e \in AdminCommands :
        /\ e = c \/ link[e] = "pool"
        /\ link' = [link EXCEPT ![c] = "pool", ![e] = "none"]
        /\ emergency' = e
  BY <1>t DEF giveUp, recoverEmergency, Admins, ownReturned, ownCommand, TypeOK, Commands
<1>4. /\ pc' = [pc EXCEPT ![SupportThread] = "resubmit"]
      /\ cmd' = [cmd EXCEPT ![SupportThread] = None]
      /\ UNCHANGED <<asleep, waiting, credits, status>>
  BY DEF giveUp
<1>5. e \in Commands /\ e /= None /\ \A x \in Clients \ {SupportThread} : cmd[x] /= e
  BY <1>1, <1>3 DEF Commands, SafeInv, Holders, InFlight
<1>6. \A d \in Commands : /\ link'[d] \in InFlight <=> link[d] \in InFlight
                          /\ link'[d] = "active" <=> link[d] = "active"
                          /\ link'[d] = "pending" <=> link[d] = "pending"
                          /\ d /= c => (link[d] = "none" => link'[d] = "none")
  BY <1>1, <1>3, <1>5, <1>t DEF TypeOK, InFlight
<1>7. Stages'
  BY <1>4, <1>6, <1>s, <1>t DEF SafeInv, Stages, TypeOK, stage, Connecting
<1>8. Holders'
  <2>1. \A x \in Clients \ {SupportThread} : cmd'[x] = cmd[x] /\ pc'[x] = pc[x]
    BY <1>4, <1>t DEF TypeOK
  <2>2. cmd'[SupportThread] = None /\ stage' = "resubmit" /\ UNCHANGED <<asleep, waiting>>
    BY <1>4, <1>s, <1>t DEF TypeOK, stage
  <2>3. \A x \in asleep : /\ cmd'[x] \in Commands /\ waiting'[cmd'[x]] /\ link'[cmd'[x]] \in InFlight
                          /\ pc'[x] \in {"ran", "AEN"} \union Connecting
    BY <1>6, <2>1, <2>2, <1>t DEF SafeInv, Holders, TypeOK, InFlight
  <2>4. \A x \in Clients : cmd'[x] /= None /\ x \notin asleep => link'[cmd'[x]] = "none"
    BY <1>1, <1>6, <2>1, <2>2, <1>t DEF SafeInv, Holders, TypeOK, InFlight
  <2>5. \A d \in Commands : link'[d] \in InFlight /\ waiting'[d] => \E x \in asleep : cmd'[x] = d
    BY <1>6, <2>1, <2>2, <1>t DEF SafeInv, Holders, TypeOK, InFlight
  <2>6. \A x, y \in Clients : cmd'[x] = cmd'[y] /\ cmd'[x] /= None => x = y
    BY <2>1, <2>2 DEF SafeInv, Holders
  <2> QED
    BY <2>2, <2>3, <2>4, <2>5, <2>6 DEF Holders, Connecting
<1>9. Spare'
  BY <1>3, <1>4, <1>5, <1>s, <1>t DEF Spare, TypeOK, stage, Connecting
<1>10. Carried'
  BY <1>4, <1>6, <1>s, <1>t DEF SafeInv, Carried, TypeOK, Requests, SyncReqs, InFlight
<1>11. ASSUME Sane PROVE Matched'
  <2> USE <1>11
  <2>1. outstanding \subseteq {d \in Commands : link'[d] = "active"}
    BY <1>6, <1>t DEF SafeInv, Matched, TypeOK
  <2>2. {d \in Commands : link[d] = "active"} = {d \in Commands : link'[d] = "active"}
    BY <1>6
  <2>3. \A d \in responses : link'[d] \in InFlight
    BY <1>6, <1>t DEF SafeInv, Matched, TypeOK
  <2> QED
    BY <2>1, <2>2, <2>3 DEF SafeInv, Matched, InFlight
<1>12. Sane => Truthful'
  BY <1>4, <1>s, <1>t DEF SafeInv, Truthful, NoFalseSuccess, Beneficiary, TypeOK
<1> QED
  BY <1>7, <1>8, <1>9, <1>10, <1>11, <1>12 DEF SafeInv

LEMMA InitControllerSafe ==
  ASSUME SafeInv, TypeInv', ~corrupt', initConnection \/ features
  PROVE  SafeInv'
<1> USE CommandAssumption, RequestAssumption
<1>s. SupportThread \in Clients /\ \A r \in Requests : r \in Clients /\ r /= SupportThread
  BY DEF Clients
<1> DEFINE c == cmd[SupportThread]
           connected == getResult(ownCommand, postResult[ownCommand])
<1>1. stage \in Connecting /\ SupportThread \notin asleep
  BY DEF initConnection, features, Connecting
<1>t. TypeOK /\ c \in AdminCommands /\ c \in Commands /\ c /= None
  BY <1>1 DEF SafeInv, TypeInv, Holding, Commands, Connecting
<1>2. CASE features
  BY <1>1, <1>2, AbandonSafe DEF features, hardware
<1>3. CASE initConnection /\ ~connected
  BY <1>1, <1>3, AbandonSafe DEF initConnection
<1>4. CASE initConnection /\ connected
  <2>1. link[c] = "none" /\ \A x \in Clients \ {SupportThread} : cmd[x] /= c
    BY <1>1, <1>s, <1>t DEF SafeInv, Holders
  <2>2. PICK d \in AdminCommands :
          /\ d = c \/ link[d] = "pool"
          /\ link' = [link EXCEPT ![c] = "pool", ![d] = "active"]
          /\ cmd' = [cmd EXCEPT ![SupportThread] = d]
          /\ asleep' = asleep \union {SupportThread}
          /\ waiting' = [waiting EXCEPT ![d] = TRUE]
          /\ status' = [status EXCEPT ![d] = "ok"]
          /\ pc' = [pc EXCEPT ![SupportThread] = "features"]
          /\ outstanding' = outstanding \union {d} /\ UNCHANGED emergency
          /\ corrupt' = corruptByEnter(ownCommand)
    <3>1. PICK d \in Admins(ownReturned) :
            /\ sleepOnAdmin(d, ownReturned, "features")
            /\ outstanding' = outstanding \union {d} /\ UNCHANGED emergency
            /\ corrupt' = corruptByEnter(ownCommand)
      BY <1>4 DEF initConnection, configuring
    <3>2. d \in AdminCommands /\ d \in Commands /\ (d = c \/ link[d] = "pool")
      BY <1>t, <3>1 DEF Admins, ownReturned, ownCommand, TypeOK, Commands
    <3> QED
      BY <3>1, <3>2 DEF sleepOnAdmin, ownReturned, ownCommand
  <2>3. /\ pc[SupportThread] = "initConnection"
        /\ UNCHANGED <<responses, intr, resetting, completion, answers, result, served>>
    BY <1>4 DEF initConnection, stage
  <2>4. d \in Commands /\ d /= None /\ \A x \in Clients \ {SupportThread} : cmd[x] /= d
    BY <2>1, <2>2 DEF Commands, SafeInv, Holders, InFlight
  <2>5. /\ link'[d] = "active" /\ link[d] \in {"none", "pool"}
        /\ \A e \in Commands \ {d} : /\ link'[e] \in InFlight <=> link[e] \in InFlight
                                     /\ link'[e] = "active" <=> link[e] = "active"
                                     /\ link'[e] = "pending" <=> link[e] = "pending"
                                     /\ e /= c => (link[e] = "none" => link'[e] = "none")
    BY <2>1, <2>2, <2>4, <1>t DEF TypeOK, InFlight
  <2>7. Stages'
    BY <2>2, <2>3, <2>5, <1>s, <1>t DEF SafeInv, Stages, TypeOK, stage, Connecting
  <2>8. Holders'
    BY <1>1, <2>1, <2>2, <2>3, <2>4, <2>5, <1>s, <1>t
    DEF SafeInv, Holders, TypeOK, stage, InFlight, Connecting
  <2>9. Spare'
    BY <2>2, <2>3, <1>s, <1>t DEF SafeInv, Spare, TypeOK, stage, Connecting
  <2>10. Carried'
    BY <2>2, <2>3, <2>4, <2>5, <1>s, <1>t DEF SafeInv, Carried, TypeOK, InFlight, Requests
  <2>11. Sane => Matched'
    BY <2>2, <2>3, <2>4, <2>5, <1>t DEF SafeInv, Matched, TypeOK, InFlight
  <2>12. Sane => Truthful'
    BY <2>2, <2>3, <2>4, <2>5, <1>s, <1>t
    DEF SafeInv, Truthful, Matched, NoFalseSuccess, Beneficiary, TypeOK, InFlight, TypeInv, Holding
  <2> QED
    BY <2>7, <2>8, <2>9, <2>10, <2>11, <2>12 DEF SafeInv
<1> QED
  BY <1>2, <1>3, <1>4

LEMMA ResubmitSafe ==
  ASSUME SafeInv, TypeInv', ~corrupt', NEW c \in Commands, resubmit(c)
  PROVE  SafeInv'
<1> USE CommandAssumption, RequestAssumption
<1>t. TypeOK
  BY DEF SafeInv, TypeInv
<1>1. /\ link[c] = "pending" /\ link' = [link EXCEPT ![c] = "active"]
      /\ outstanding' = outstanding \union {c}
      /\ UNCHANGED <<corrupt, emergency, responses, intr, resetting, pc, cmd, asleep, answers, result,
                      waiting, completion, postResult, status, served>>
  <2>1. PICK room \in BOOLEAN : resubmitted(c, room)
    BY DEF resubmit
  <2>2. completions(c, room) = 0
    BY <2>1 DEF resubmitted
  <2>3. room
    BY <2>2 DEF completions
  <2> QED
    BY <2>1, <2>2, <2>3 DEF resubmit, resubmitted
<1>2. Stages' /\ ~corrupt'
  BY <1>1, <1>t DEF SafeInv, Stages, TypeOK, stage, Connecting
<1>3. Holders'
  BY <1>1, <1>t DEF SafeInv, Holders, TypeOK, stage, InFlight, Connecting
<1>4. Spare'
  BY <1>1, <1>t DEF SafeInv, Spare, TypeOK, stage, Connecting
<1>5. Carried'
  BY <1>1, <1>t DEF SafeInv, Carried, TypeOK, InFlight
<1>6. Sane => Matched'
  BY <1>1, <1>t DEF SafeInv, Matched, TypeOK, InFlight
<1>7. Sane => Truthful'
  BY <1>1 DEF SafeInv, Truthful, NoFalseSuccess, Beneficiary
<1> QED
  BY <1>2, <1>3, <1>4, <1>5, <1>6, <1>7 DEF SafeInv

LEMMA ResetDoneSafe ==
  ASSUME SafeInv, TypeInv', ~corrupt', resetDone
  PROVE  SafeInv'
<1> USE CommandAssumption, RequestAssumption
<1>s. SupportThread \in Clients /\ \A r \in Requests : r \in Clients /\ r /= SupportThread
  BY DEF Clients
<1>t. TypeOK /\ stage = "resubmit"
  BY DEF SafeInv, TypeInv, resetDone
<1>1. /\ ~resetting' /\ \A c \in Commands : link[c] /= "pending"
      /\ UNCHANGED <<link, corrupt, emergency, outstanding, responses, intr, cmd, asleep, answers,
                      result, waiting, completion, postResult, status, served>>
  BY DEF resetDone, hardware, commandVars
<1>2. stage' \in {"timeouts", "getAEN", "reset", "getWork"}
  BY <1>s, <1>t, StageTypes DEF resetDone, stage, TypeOK
<1>3. \A r \in Requests : pc'[r] = woken(r)
  BY <1>s DEF resetDone
<1>4. SupportThread \notin asleep
  BY <1>t DEF SafeInv, Holders, Connecting, stage
<1>5. Stages' /\ ~corrupt'
  BY <1>1, <1>2, <1>3, <1>t DEF SafeInv, Stages, woken, Connecting
<1>6. Holders'
  BY <1>1, <1>2, <1>3, <1>4, <1>t DEF SafeInv, Holders, woken, TypeOK, Clients, Connecting, InFlight
<1>7. Spare' /\ (Sane => Matched')
  BY <1>1, <1>2, <1>t DEF SafeInv, Spare, Matched, Connecting
<1>8. Carried'
  BY <1>1, <1>3 DEF SafeInv, Carried, woken, Requests, SyncReqs
<1>9. Sane => Truthful'
  BY <1>1, <1>3 DEF SafeInv, Truthful, NoFalseSuccess, Beneficiary, woken
<1> QED
  BY <1>5, <1>6, <1>7, <1>8, <1>9 DEF SafeInv

LEMMA NextSafe == SafeInv /\ ~corrupt' /\ [Next]_vars => SafeInv'
<1> SUFFICES ASSUME SafeInv, ~corrupt', [Next]_vars PROVE SafeInv'
  OBVIOUS
<1>t. TypeInv'
  BY NextType DEF SafeInv
<1>1. CASE UNCHANGED vars
  BY <1>1 DEF vars, hardware, clientVars, commandVars, SafeInv, TypeInv, TypeOK, Holding, budget,
              Stages, stage, Holders, Spare, Carried, Matched, Truthful, NoFalseSuccess, Beneficiary
<1>2. ASSUME NEW r \in Requests, RequestStep(r) PROVE SafeInv'
  BY <1>t, <1>2, RequestSafe
<1>3. ASSUME NEW c \in Commands, respond(c) \/ handleInterrupt(c) PROVE SafeInv'
  BY <1>t, <1>3, RespondSafe, HandleInterruptSafe
<1>4. CASE handleAttention \/ timeoutOccurred \/ requestReset \/ quiescent
  BY <1>t, <1>4, EventSafe
<1>5. CASE SupportStep
  BY <1>t, <1>5, ThreadSafe, GetAENSafe, RunAENSafe, FetchedAENSafe, ResetBeginsSafe,
     InitControllerSafe, ResubmitSafe, ResetDoneSafe DEF SupportStep
<1> QED
  BY <1>1, <1>2, <1>3, <1>4, <1>5 DEF Next

(* A parked command leaves the reset's queue only by resubmission: every   *)
(* other step moves a command of a pool, of a holder that is awake, or an  *)
(* active one, and a reset begins with nothing parked.                     *)
LEMMA NextParked ==
  ASSUME SafeInv, ~corrupt', [Next]_vars, NEW c \in Commands, link[c] = "pending"
  PROVE  link'[c] \in {"pending", "active"}
<1> USE CommandAssumption, RequestAssumption
<1>t. TypeOK
  BY DEF SafeInv, TypeInv
<1>1. \A x \in Clients : cmd[x] = c => x \in asleep
  BY DEF SafeInv, Holders
<1>2. resetting /\ stage \in Connecting \union {"resubmit"}
  BY DEF SafeInv, Stages
<1>3. \A r \in Requests : r \in Clients
  BY DEF Clients
<1>4. \A x \in asleep : x = SupportThread => cmd[x] /= c
  BY <1>2, <1>t DEF SafeInv, Holders, stage, Connecting, TypeOK
<1>5. CASE UNCHANGED vars
  BY <1>5 DEF vars
<1>6. ASSUME NEW r \in Requests, RequestStep(r) PROVE link'[c] \in {"pending", "active"}
  <2>1. CASE getCommand(r)
    BY <1>t, <2>1 DEF getCommand, Pool, TypeOK
  <2>2. CASE runSynchronousCommand(r) \/ runAsynchronousCommand(r)
    <3>1. cmd[r] /= c
      BY <1>1, <1>3, <2>2, RequestAssumption
      DEF runSynchronousCommand, runAsynchronousCommand, SafeInv, Holders, Connecting
    <3>2. PICK sync \in BOOLEAN : posted(r, cmd[r], sync) \/ refused(r, cmd[r], sync)
      BY <2>2 DEF runSynchronousCommand, runAsynchronousCommand, submit
    <3>3. \E q \in Queues : link' = [link EXCEPT ![cmd[r]] = q]
      BY <3>2 DEF posted, refused, Accepted, complete, Queues
    <3> QED
      BY <1>t, <3>1, <3>3 DEF TypeOK
  <2>3. CASE hold(r)
    BY <2>3 DEF hold
  <2>4. CASE returnCommand(r)
    BY <1>1, <1>3, <1>t, <2>4 DEF returnCommand, TypeOK
  <2> QED
    BY <1>6, <2>1, <2>2, <2>3, <2>4 DEF RequestStep
<1>7. ASSUME NEW d \in Commands, respond(d) \/ handleInterrupt(d)
      PROVE  link'[c] \in {"pending", "active"}
  <2>1. CASE respond(d)
    BY <2>1 DEF respond
  <2>2. CASE handleInterrupt(d)
    <3>1. link[d] = "active"
      BY <2>2 DEF handleInterrupt, complete, corruptByRemove
    <3> QED
      BY <1>t, <2>2, <3>1 DEF handleInterrupt, complete, TypeOK
  <2> QED
    BY <1>7, <2>1, <2>2
<1>8. CASE handleAttention \/ timeoutOccurred \/ requestReset \/ quiescent
  BY <1>8 DEF handleAttention, timeoutOccurred, requestReset, quiescent, vars
<1>9. CASE SupportStep
  <2>1. stage \notin {"getWork", "timeouts", "getAEN", "runAEN", "AEN", "reset"}
    BY <1>2 DEF Connecting
  <2>2. CASE initConnection \/ features
    <3>1. ownCommand \in AdminCommands /\ ownCommand \in Commands /\ ownCommand /= c
      BY <1>1, <2>2 DEF SafeInv, TypeInv, Holding, Commands, Clients, ownCommand, initConnection, features
    <3>2. ownReturned[c] = "pending" /\ ownReturned \in [Commands -> Queues]
      BY <1>t, <3>1 DEF ownReturned, TypeOK, Queues
    <3>3. ASSUME giveUp(ownReturned) PROVE link'[c] = "pending"
      BY <3>2, <3>3 DEF giveUp, recoverEmergency, Admins
    <3>4. ASSUME NEW d \in Admins(ownReturned), sleepOnAdmin(d, ownReturned, "features")
          PROVE  link'[c] = "pending"
      BY <3>2, <3>4 DEF sleepOnAdmin, Admins
    <3> QED
      BY <2>2, <3>3, <3>4 DEF initConnection, features, configuring
  <2>3. CASE \E d \in Commands : resubmit(d)
    BY <1>t, <2>3 DEF resubmit, resubmitted, completions, TypeOK
  <2>4. CASE resetDone
    BY <2>4 DEF resetDone
  <2> QED
    BY <1>9, <2>1, <2>2, <2>3, <2>4
    DEF SupportStep, supportThreadGetWork, supportThreadCheckTimeouts, getAEN, runAEN, fetchedAEN,
        resetController
<1> QED
  BY <1>5, <1>6, <1>7, <1>8, <1>9 DEF Next

(* Stale pointers stay stale.                                              *)
LEMMA CorruptStays == corrupt /\ [Next]_vars => corrupt'
<1> SUFFICES ASSUME corrupt, [Next]_vars PROVE corrupt'
  OBVIOUS
<1>1. CASE UNCHANGED vars
  BY <1>1 DEF vars
<1>2. ASSUME NEW r \in Requests, RequestStep(r) PROVE corrupt'
  BY <1>2 DEF RequestStep, getCommand, runSynchronousCommand, hold, runAsynchronousCommand, submit,
              posted, refused, Accepted, complete, returnCommand, corruptByEnter, corruptByRemove
<1>3. ASSUME NEW c \in Commands, respond(c) \/ handleInterrupt(c) PROVE corrupt'
  BY <1>3 DEF respond, handleInterrupt, complete, corruptByRemove
<1>4. CASE handleAttention \/ timeoutOccurred \/ requestReset \/ quiescent
  BY <1>4 DEF handleAttention, timeoutOccurred, requestReset, quiescent, vars
<1>5. CASE SupportStep
  <2>1. CASE supportThreadGetWork \/ supportThreadCheckTimeouts \/ getAEN \/ resetDone
    BY <2>1 DEF supportThreadGetWork, supportThreadCheckTimeouts, getAEN, resetDone
  <2>2. CASE runAEN \/ fetchedAEN
    BY <2>2 DEF runAEN, fetchedAEN, Accepted, complete, corruptByEnter, corruptByRemove
  <2>3. CASE resetController
    BY <2>3 DEF resetController, connecting, corruptBySupply
  <2>4. CASE initConnection \/ features
    BY <2>4 DEF initConnection, features, configuring, corruptByEnter
  <2>5. CASE \E c \in Commands : resubmit(c)
    BY <2>5 DEF resubmit, resubmitted
  <2> QED
    BY <1>5, <2>1, <2>2, <2>3, <2>4, <2>5 DEF SupportStep
<1> QED
  BY <1>1, <1>2, <1>3, <1>4, <1>5 DEF Next

(* The inductive invariant: SafeInv for as long as the chains are sound.   *)
SafeWhileSound == TypeInv /\ (ChainsSound => SafeInv)

LEMMA SafeWhileSoundHolds == Spec => []SafeWhileSound
<1>1. Init => SafeWhileSound
  BY InitSafe DEF SafeWhileSound, SafeInv
<1>2. SafeWhileSound /\ [Next]_vars => SafeWhileSound'
  BY NextSafe, NextType, CorruptStays DEF SafeWhileSound, ChainsSound
<1> QED
  BY <1>1, <1>2, PTL DEF Spec

(* What can end that: a submission is refused ("if we can get a command,   *)
(* there is room for it in the controller"), or a reset resubmits a parked *)
(* command that has timed out.                                             *)
CanRefuse == QueueCanFill \/ PrepareCanFail
NoneExpired == \A c \in Commands : link[c] = "pending" => ~isTimedOut(c)

LEMMA NextSound ==
  ASSUME Sane, ~CanRefuse, SafeInv, NoneExpired, [Next]_vars
  PROVE  ~corrupt'
<1> USE CommandAssumption, RequestAssumption
<1>t. TypeOK /\ ~corrupt /\ QueueCanFill = FALSE /\ SubmitOutcomes = {"posted"}
  BY EnvironmentAssumption DEF SafeInv, TypeInv, CanRefuse, SubmitOutcomes
<1>s. SupportThread \in Clients /\ \A r \in Requests : r \in Clients /\ r /= SupportThread
  BY DEF Clients
<1>h. \A x \in Clients : cmd[x] /= None /\ x \notin asleep => link[cmd[x]] = "none"
  BY DEF SafeInv, Holders
<1>1. CASE UNCHANGED vars
  BY <1>t, <1>1 DEF vars
<1>2. ASSUME NEW r \in Requests, RequestStep(r) PROVE ~corrupt'
  <2>1. CASE getCommand(r) \/ hold(r)
    BY <1>t, <2>1 DEF getCommand, hold
  <2>2. CASE runSynchronousCommand(r) \/ runAsynchronousCommand(r)
    <3>1. pc[r] \in {"gotten", "released"}
      BY <2>2 DEF runSynchronousCommand, runAsynchronousCommand
    <3>2. cmd[r] \in Commands /\ link[cmd[r]] = "none"
      BY <1>h, <1>s, <3>1 DEF SafeInv, TypeInv, Holding, Holders, Connecting
    <3> QED
      BY <1>t, <2>2, <3>2 DEF runSynchronousCommand, runAsynchronousCommand, submit, posted, Accepted,
                              corruptByEnter
  <2>3. CASE returnCommand(r)
    <3>1. cmd[r] \in Commands /\ link[cmd[r]] = "none"
      BY <1>h, <1>s, <2>3 DEF SafeInv, TypeInv, Holding, returnCommand
    <3> QED
      BY <1>t, <2>3, <3>1 DEF returnCommand, corruptByEnter
  <2> QED
    BY <1>2, <2>1, <2>2, <2>3 DEF RequestStep
<1>3. ASSUME NEW c \in Commands, respond(c) \/ handleInterrupt(c) PROVE ~corrupt'
  <2>1. CASE respond(c)
    BY <1>t, <2>1 DEF respond
  <2>2. CASE handleInterrupt(c)
    <3>1. link[c] = "active"
      BY <2>2 DEF handleInterrupt, SafeInv, Matched
    <3> QED
      BY <1>t, <2>2, <3>1 DEF handleInterrupt, complete, corruptByRemove
  <2> QED
    BY <1>3, <2>1, <2>2
<1>4. CASE handleAttention \/ timeoutOccurred \/ requestReset \/ quiescent
  BY <1>t, <1>4 DEF handleAttention, timeoutOccurred, requestReset, quiescent, vars
<1>5. CASE SupportStep
  <2>1. CASE supportThreadGetWork \/ supportThreadCheckTimeouts \/ getAEN \/ resetDone
    BY <1>t, <2>1 DEF supportThreadGetWork, supportThreadCheckTimeouts, getAEN, resetDone
  <2>2. ASSUME stage \in {"runAEN", "AEN"} \union Connecting, SupportThread \notin asleep
        PROVE  ownCommand \in AdminCommands /\ ownCommand \in Commands /\ link[ownCommand] = "none"
    BY <1>h, <1>s, <2>2 DEF SafeInv, TypeInv, Holding, Connecting, ownCommand, Commands
  <2>3. CASE runAEN
    <3>1. SupportThread \notin asleep
      BY <2>3 DEF runAEN, SafeInv, Holders, Connecting, stage
    <3> QED
      BY <1>t, <2>2, <2>3, <3>1 DEF runAEN, Accepted, corruptByEnter
  <2>4. CASE fetchedAEN
    BY <1>t, <2>2, <2>4 DEF fetchedAEN, corruptByEnter
  <2>5. CASE resetController
    <3>1. emergency /= None => link[emergency] = "none"
      BY DEF SafeInv, Spare
    <3>2. ~corruptBySupply
      BY <1>t, <3>1 DEF corruptBySupply, Commands
    <3> QED
      BY <1>t, <2>5, <3>2 DEF resetController, connecting
  <2>6. CASE initConnection \/ features
    BY <1>t, <2>2, <2>6 DEF initConnection, features, configuring, corruptByEnter, Connecting
  <2>7. CASE \E c \in Commands : resubmit(c)
    <3>1. PICK c \in Commands : resubmit(c)
      BY <2>7
    <3>2. resubmitted(c, TRUE)
      BY <1>t, <3>1 DEF resubmit
    <3>3. completions(c, TRUE) = 0
      BY <3>1 DEF completions, NoneExpired, resubmit
    <3> QED
      BY <1>t, <3>2, <3>3 DEF resubmitted
  <2> QED
    BY <1>5, <2>1, <2>3, <2>4, <2>5, <2>6, <2>7 DEF SupportStep
<1> QED
  BY <1>1, <1>2, <1>3, <1>4, <1>5 DEF Next

(* No step of the driver puts a command on a second queue, takes it off a  *)
(* queue it is not on, or needs an emergency command that is not there,    *)
(* unless a submission can be refused or the reset that resubmits has a    *)
(* command that timed out.                                                 *)
THEOREM OnlyTheseCorrupt ==
  ASSUME Sane
  PROVE  Spec => [][corrupt' => corrupt \/ CanRefuse \/ ~NoneExpired]_vars
<1>1. SafeWhileSound /\ [Next]_vars => [corrupt' => corrupt \/ CanRefuse \/ ~NoneExpired]_vars
  BY NextSound DEF SafeWhileSound, ChainsSound
<1> QED
  BY <1>1, SafeWhileSoundHolds, PTL DEF Spec

(* So they stay sound where neither happens.                               *)
THEOREM ChainsStaySound == ASSUME Sane, ~CanRefuse PROVE Spec /\ []NoneExpired => []ChainsSound
<1>1. Init => ChainsSound
  BY DEF Init, ChainsSound
<1>2. SafeWhileSound /\ NoneExpired /\ ChainsSound /\ [Next]_vars => ChainsSound'
  <2> SUFFICES ASSUME SafeInv, NoneExpired, [Next]_vars PROVE ~corrupt'
    BY DEF SafeWhileSound, ChainsSound
  <2> QED
    BY NextSound
<1> QED
  BY <1>1, <1>2, SafeWhileSoundHolds, PTL DEF Spec

(* The conjuncts of SafeInv give the properties of CommandPath.            *)
LEMMA SafeInvImplies ==
  ASSUME SafeInv
  PROVE  /\ SoleHolder /\ SleeperWakeable /\ AnsweredOnce /\ EmergencyReady
         /\ Sane => HardwareMatches /\ NoFalseSuccess
<1> USE CommandAssumption, RequestAssumption
<1>1. Sane => HardwareMatches /\ NoFalseSuccess
  BY DEF SafeInv, Matched, HardwareMatches, Truthful
<1>2. SoleHolder
  BY DEF SafeInv, SoleHolder, Holders, Spare, TypeInv, TypeOK, InFlight
<1>3. SleeperWakeable
  BY DEF SafeInv, SleeperWakeable, Holders, InFlight
<1>4. AnsweredOnce
  BY DEF SafeInv, AnsweredOnce, Carried, Stages, InFlight, Requests
<1>5. EmergencyReady
  BY DEF SafeInv, EmergencyReady, Stages, Spare, TypeInv, TypeOK, Holding, Connecting, ownCommand
<1> QED
  BY <1>1, <1>2, <1>3, <1>4, <1>5

(* getCommand and returnCommand never give one command to two holders,     *)
(* and nobody holds the emergency command, while the chains are sound.     *)
THEOREM HoldersAreSole == Spec => [](ChainsSound => SoleHolder)
<1>1. SafeWhileSound => (ChainsSound => SoleHolder)
  BY SafeInvImplies DEF SafeWhileSound
<1> QED
  BY <1>1, SafeWhileSoundHolds, PTL

(* While it can interrupt, the controller works exactly on the commands of *)
(* activeCommands, also across any number of resets.                       *)
THEOREM HardwareAndDriverAgree == ASSUME Sane PROVE Spec => [](ChainsSound => HardwareMatches)
<1>1. SafeWhileSound => (ChainsSound => HardwareMatches)
  BY SafeInvImplies DEF SafeWhileSound
<1> QED
  BY <1>1, SafeWhileSoundHolds, PTL

(* No wakeup of a caller in runSynchronousCommand is lost to a reset.      *)
THEOREM SleepersAreWakeable == Spec => [](ChainsSound => SleeperWakeable)
<1>1. SafeWhileSound => (ChainsSound => SleeperWakeable)
  BY SafeInvImplies DEF SafeWhileSound
<1> QED
  BY <1>1, SafeWhileSoundHolds, PTL

(* A read or write is answered at most once, and its command is in flight  *)
(* until then, whatever resets park and resubmit.                          *)
THEOREM ReadWriteAnsweredOnce == Spec => [](ChainsSound => AnsweredOnce)
<1>1. SafeWhileSound => (ChainsSound => AnsweredOnce)
  BY SafeInvImplies DEF SafeWhileSound
<1> QED
  BY <1>1, SafeWhileSoundHolds, PTL

(* Every reset finds an emergency command and gives one back.              *)
THEOREM EmergencyStaysReady == Spec => [](ChainsSound => EmergencyReady)
<1>1. SafeWhileSound => (ChainsSound => EmergencyReady)
  BY SafeInvImplies DEF SafeWhileSound
<1> QED
  BY <1>1, SafeWhileSoundHolds, PTL

(* A success reported to a read, a write or a parameter read is the        *)
(* controller's answer to that request, not to another use of its command. *)
THEOREM SuccessIsServed == ASSUME Sane PROVE Spec => [](ChainsSound => NoFalseSuccess)
<1>1. SafeWhileSound => (ChainsSound => NoFalseSuccess)
  BY SafeInvImplies DEF SafeWhileSound
<1> QED
  BY <1>1, SafeWhileSoundHolds, PTL

-----------------------------------------------------------------------------
(* What is left of NoCommandLost, which does not hold: only admin commands *)
(* can be lost.  The I/O threads' and the user client's commands are       *)
(* queued or held, whatever is reset and however often.                    *)
Kept ==
  \A c \in IOCommands \union UserCommands :
    link[c] = "none" => \E x \in Clients : cmd[x] = c

LEMMA KeptByRequest ==
  ASSUME SafeInv, ~corrupt', Kept, NEW r \in Requests, RequestStep(r)
  PROVE  Kept'
<1> USE CommandAssumption, RequestAssumption
<1>t. TypeOK /\ r \in Clients
  BY DEF SafeInv, TypeInv, Clients
<1>1. CASE getCommand(r)
  <2>1. PICK c \in Commands : /\ link[c] = "pool" /\ link' = [link EXCEPT ![c] = "none"]
                             /\ cmd' = [cmd EXCEPT ![r] = c] /\ cmd[r] = None
    BY <1>1 DEF getCommand, Pool, PoolFor, Commands, SafeInv, Stages
  <2> QED
    BY <1>t, <2>1 DEF Kept, TypeOK, Commands
<1>2. CASE runSynchronousCommand(r) \/ runAsynchronousCommand(r)
  <2>1. pc[r] \in {"gotten", "released"}
    BY <1>2 DEF runSynchronousCommand, runAsynchronousCommand
  <2>2. cmd[r] \in Commands /\ link[cmd[r]] = "none"
    BY <1>t, <2>1 DEF SafeInv, TypeInv, Holding, Holders, Connecting
  <2>3. PICK sync \in BOOLEAN : posted(r, cmd[r], sync)
    BY <1>2, <2>2 DEF runSynchronousCommand, runAsynchronousCommand, submit, refused, complete,
                      corruptByRemove
  <2>4. /\ link' = [link EXCEPT ![cmd[r]] = "active"]
        /\ \A x \in Clients \ {r} : cmd'[x] = cmd[x]
    BY <1>t, <2>3 DEF posted, Accepted, TypeOK
  <2> QED
    BY <1>t, <2>2, <2>4 DEF Kept, TypeOK, Commands
<1>3. CASE hold(r)
  BY <1>3 DEF hold, Kept
<1>4. CASE returnCommand(r)
  <2>1. cmd[r] \in Commands
    BY <1>4 DEF returnCommand, SafeInv, TypeInv, Holding
  <2> QED
    BY <1>4, <1>t, <2>1 DEF returnCommand, Kept, TypeOK, Commands
<1> QED
  BY <1>1, <1>2, <1>3, <1>4 DEF RequestStep

LEMMA KeptBySupport ==
  ASSUME SafeInv, ~corrupt', Kept, SupportStep
  PROVE  Kept'
<1> USE CommandAssumption, RequestAssumption
<1>t. TypeOK /\ SupportThread \in Clients
  BY DEF SafeInv, TypeInv, Clients
<1>1. ownCommand \in AdminCommands \union {None}
  BY <1>t DEF SafeInv, TypeInv, Holding, Stages, Connecting, ownCommand, TypeOK
<1>2. ASSUME \A x \in Clients \ {SupportThread} : cmd'[x] = cmd[x],
             \A d \in IOCommands \union UserCommands : link'[d] = "none" => link[d] = "none"
      PROVE  Kept'
  <2> SUFFICES ASSUME NEW d \in IOCommands \union UserCommands, link'[d] = "none"
               PROVE  \E x \in Clients : cmd'[x] = d
    BY DEF Kept
  <2>1. PICK x \in Clients : cmd[x] = d
    BY <1>2 DEF Kept
  <2>2. x /= SupportThread
    BY <1>1, <2>1 DEF ownCommand, Commands
  <2> QED
    BY <1>2, <2>1, <2>2
<1>3. CASE supportThreadGetWork \/ supportThreadCheckTimeouts \/ resetDone
  BY <1>3 DEF supportThreadGetWork, supportThreadCheckTimeouts, resetDone, Kept
<1>4. CASE getAEN
  <2>1. PICK c \in AdminCommands : /\ link' = [link EXCEPT ![c] = "none"]
                                  /\ cmd' = [cmd EXCEPT ![SupportThread] = c]
    BY <1>4 DEF getAEN, Pool
  <2> QED
    BY <1>2, <1>t, <2>1 DEF TypeOK, Commands
<1>5. CASE runAEN \/ fetchedAEN
  <2>1. ownCommand \in AdminCommands
    BY <1>5 DEF runAEN, fetchedAEN, SafeInv, TypeInv, Holding, ownCommand
  <2>2. \E q \in Queues : link' = [link EXCEPT ![ownCommand] = q]
    BY <1>5 DEF runAEN, fetchedAEN, ownReturned, Accepted, complete, Queues
  <2>3. \A x \in Clients \ {SupportThread} : cmd'[x] = cmd[x]
    BY <1>5, <1>t DEF runAEN, fetchedAEN, TypeOK
  <2> QED
    BY <1>2, <1>t, <2>1, <2>2, <2>3 DEF TypeOK, Commands
<1>6. ASSUME NEW links, giveUp(links),
             \A d \in IOCommands \union UserCommands : links[d] = "none" => link[d] = "none"
      PROVE  Kept'
  <2>1. \A d \in IOCommands \union UserCommands : link'[d] = links[d]
    BY <1>6 DEF giveUp, recoverEmergency, Admins
  <2>2. \A x \in Clients \ {SupportThread} : cmd'[x] = cmd[x]
    BY <1>6, <1>t DEF giveUp, TypeOK
  <2> QED
    BY <1>2, <1>6, <2>1, <2>2
<1>7. ASSUME NEW links, NEW c \in AdminCommands, NEW next, sleepOnAdmin(c, links, next),
             links \in [Commands -> Queues],
             \A d \in IOCommands \union UserCommands : links[d] = "none" => link[d] = "none"
      PROVE  Kept'
  <2>1. \A d \in IOCommands \union UserCommands : link'[d] = links[d]
    BY <1>7 DEF sleepOnAdmin, Commands
  <2>2. \A x \in Clients \ {SupportThread} : cmd'[x] = cmd[x]
    BY <1>7, <1>t DEF sleepOnAdmin, TypeOK
  <2> QED
    BY <1>2, <1>7, <2>1, <2>2
<1>8. CASE resetController
  <2>1. /\ parkedLinks \in [Commands -> Queues]
        /\ \A d \in Commands : parkedLinks[d] = "none" => link[d] = "none"
    BY <1>t DEF parkedLinks, parkedLink, TypeOK, Queues
  <2>2. \/ giveUp(parkedLinks)
        \/ \E c \in AdminCommands : sleepOnAdmin(c, parkedLinks, "initConnection")
    BY <1>8 DEF resetController, connecting, Admins
  <2> QED
    BY <1>6, <1>7, <2>1, <2>2 DEF Commands
<1>9. CASE initConnection \/ features
  <2>1. /\ ownReturned \in [Commands -> Queues]
        /\ \A d \in Commands : ownReturned[d] = "none" => link[d] = "none"
    BY <1>1, <1>t DEF ownReturned, TypeOK, Queues
  <2>2. \/ giveUp(ownReturned)
        \/ \E c \in AdminCommands : sleepOnAdmin(c, ownReturned, "features")
    BY <1>9 DEF initConnection, features, configuring, Admins
  <2> QED
    BY <1>6, <1>7, <2>1, <2>2 DEF Commands
<1>10. CASE \E c \in Commands : resubmit(c)
  <2>1. PICK c \in Commands, room \in BOOLEAN : resubmitted(c, room) /\ UNCHANGED cmd
    BY <1>10 DEF resubmit
  <2>2. room
    BY <2>1 DEF resubmitted, completions
  <2> QED
    BY <1>2, <1>t, <2>1, <2>2 DEF resubmitted, TypeOK, Commands
<1> QED
  BY <1>3, <1>4, <1>5, <1>8, <1>9, <1>10 DEF SupportStep

LEMMA KeptByNext == SafeInv /\ ~corrupt' /\ Kept /\ [Next]_vars => Kept'
<1> SUFFICES ASSUME SafeInv, ~corrupt', Kept, [Next]_vars PROVE Kept'
  OBVIOUS
<1>1. CASE UNCHANGED vars
  BY <1>1 DEF vars, clientVars, Kept
<1>2. ASSUME NEW c \in Commands, handleInterrupt(c) PROVE Kept'
  <2>1. link[c] = "active" /\ UNCHANGED cmd /\ complete(c, TRUE, waiting[c])
    BY <1>2 DEF handleInterrupt, complete, corruptByRemove
  <2>2. waiting[c] => \E x \in Clients : cmd[x] = c
    BY <2>1 DEF SafeInv, Holders, InFlight, TypeInv, TypeOK
  <2> QED
    BY <2>1, <2>2 DEF complete, Kept, SafeInv, TypeInv, TypeOK, Commands
<1>3. CASE \E c \in Commands : respond(c)
  BY <1>3 DEF respond, clientVars, Kept
<1>4. CASE handleAttention \/ timeoutOccurred \/ requestReset \/ quiescent
  BY <1>4 DEF handleAttention, timeoutOccurred, requestReset, quiescent, vars, clientVars, Kept
<1> QED
  BY <1>1, <1>2, <1>3, <1>4, KeptByRequest, KeptBySupport DEF Next

(* So no read, write, flush or user command waits for a command that some  *)
(* reset has lost, and whatever reset, error or timeout came before.       *)
THEOREM OnlyAdminCommandsLost == Spec => [](ChainsSound => Kept)
<1>1. Init => Kept
  BY CommandAssumption DEF Init, Kept, Commands
<1>2. SafeWhileSound /\ (ChainsSound => Kept) /\ [Next]_vars => (ChainsSound => Kept)'
  BY KeptByNext, CorruptStays DEF SafeWhileSound, ChainsSound
<1> QED
  BY <1>1, <1>2, SafeWhileSoundHolds, PTL DEF Spec

(* getCommand(EC_COMMAND_ADMIN) blocks, and nobody could wake the support  *)
(* thread in the middle of a reset: when it takes its first command, and   *)
(* when it gives that back, the admin pool has one.                        *)
ResetSupplied ==
  /\ stage = "reset" => Admins(parkedLinks) /= {}
  /\ stage \in Connecting => Admins(ownReturned) /= {}

(* So no reset blocks in getCommand or recoverEmergency, for any number of *)
(* resets, although each may lose a command.                               *)
THEOREM ResetsAreSupplied == Spec => [](ChainsSound => ResetSupplied)
<1>1. ASSUME SafeInv PROVE ResetSupplied
  <2> USE CommandAssumption
  <2>t. TypeOK
    BY <1>1 DEF SafeInv, TypeInv
  <2>1. ASSUME stage = "reset" PROVE Admins(parkedLinks) /= {}
    <3>1. emergency \in AdminCommands /\ link[emergency] = "none"
      BY <1>1, <2>1, <2>t DEF SafeInv, Spare, Connecting, TypeOK
    <3>2. CASE needsEmergency
      <4>1. parkedLinks[emergency] = "pool"
        BY <3>1, <3>2 DEF parkedLinks, parkedLink, Commands
      <4> QED
        BY <3>1, <4>1 DEF Admins
    <3>3. CASE ~needsEmergency
      <4>1. PICK c \in AdminCommands : link[c] = "pool"
        BY <3>3 DEF needsEmergency, Pool
      <4>2. parkedLinks[c] = "pool"
        BY <3>3, <4>1 DEF parkedLinks, parkedLink, Commands
      <4> QED
        BY <4>1, <4>2 DEF Admins
    <3> QED
      BY <3>2, <3>3
  <2>2. ASSUME stage \in Connecting PROVE Admins(ownReturned) /= {}
    <3>1. ownCommand \in AdminCommands /\ ownCommand \in Commands
      BY <1>1, <2>2 DEF SafeInv, TypeInv, Holding, Connecting, ownCommand, Commands
    <3>2. ownReturned[ownCommand] = "pool"
      BY <2>t, <3>1 DEF ownReturned, TypeOK
    <3> QED
      BY <3>1, <3>2 DEF Admins
  <2> QED
    BY <2>1, <2>2 DEF ResetSupplied
<1>2. SafeWhileSound => (ChainsSound => ResetSupplied)
  BY <1>1 DEF SafeWhileSound
<1> QED
  BY <1>2, SafeWhileSoundHolds, PTL
-----------------------------------------------------------------------------
(* "hold if controller in reset": a held I/O thread is awakened by the end *)
(* of a reset only, so it must not be found asleep without one.            *)
HeldByReset == \A r \in Requests : pc[r] = "held" => resetting

LEMMA HeldStep == TypeInv /\ HeldByReset /\ [Next]_vars => HeldByReset'
<1> SUFFICES ASSUME TypeInv, HeldByReset, [Next]_vars PROVE HeldByReset'
  OBVIOUS
<1> USE RequestAssumption
<1>s. SupportThread \notin Requests /\ \A r \in Requests : r \in Clients
  BY DEF Clients
<1>t. pc \in [Clients -> RequestStages \union SupportStages]
  BY DEF TypeInv, TypeOK
<1>1. ASSUME NEW r \in Requests, RequestStep(r) PROVE HeldByReset'
  <2>1. UNCHANGED resetting
    BY <1>1 DEF RequestStep, getCommand, runSynchronousCommand, hold, runAsynchronousCommand,
       submit, returnCommand
  <2>2. \A q \in Requests \ {r} : pc'[q] = pc[q]
    BY <1>1, <1>s, <1>t DEF RequestStep, getCommand, runSynchronousCommand, hold,
       runAsynchronousCommand, submit, posted, refused, returnCommand
  <2>3. pc'[r] = "held" => resetting
    BY <1>1, <1>s, <1>t DEF RequestStep, getCommand, runSynchronousCommand, hold,
       runAsynchronousCommand, submit, posted, refused, returnCommand
  <2> QED
    BY <2>1, <2>2, <2>3 DEF HeldByReset
<1>2. CASE UNCHANGED <<pc, resetting>>
  BY <1>2 DEF HeldByReset
<1>3. CASE resetDone
  <2>1. \A r \in Requests : pc'[r] /= "held"
    BY <1>3, <1>s DEF resetDone, woken
  <2> QED
    BY <2>1 DEF HeldByReset
<1>4. ASSUME SupportStep, ~resetDone PROVE HeldByReset'
  <2>1. \A r \in Requests : pc'[r] = pc[r]
    BY <1>4, <1>s, <1>t DEF SupportStep, supportThreadGetWork, supportThreadCheckTimeouts, getAEN,
       runAEN, fetchedAEN, resetController, connecting, sleepOnAdmin, giveUp, initConnection,
       configuring, features, resubmit
  <2>2. resetting' = TRUE \/ UNCHANGED resetting
    BY <1>4 DEF SupportStep, supportThreadGetWork, supportThreadCheckTimeouts, getAEN,
       runAEN, fetchedAEN, resetController, initConnection, features, resubmit
  <2> QED
    BY <2>1, <2>2 DEF HeldByReset
<1> QED
  BY <1>1, <1>2, <1>3, <1>4 DEF Next, respond, handleInterrupt, handleAttention, timeoutOccurred,
     requestReset, quiescent, clientVars, vars

(* However resets end and follow each other, sound chains or not, no I/O   *)
(* thread is left held after one (commandWakeup(&resetting)).              *)
THEOREM NobodyHeldWithoutReset == Spec => []HeldByReset
<1>1. Init => HeldByReset
  BY RequestAssumption DEF Init, HeldByReset, Clients
<1>2. Spec => []TypeInv
  BY InitType, NextType, PTL DEF Spec
<1> QED
  BY <1>1, <1>2, HeldStep, PTL DEF Spec
-----------------------------------------------------------------------------
(* The refinement of CommandService.                                       *)
Unseen == UNCHANGED <<phase, result, served, corrupt>>

LEMMA InitServes == Init => Service!Init
<1> SUFFICES ASSUME Init PROVE Service!Init
  OBVIOUS
<1>1. \A r \in Requests : pc[r] = "start" /\ answers[r] = 0
  BY RequestAssumption DEF Init, Clients
<1> QED
  BY <1>1 DEF Init, Service!Init, phase

LEMMA UnseenServes == Unseen => [Service!Next]_(Service!vars)
BY DEF Unseen, Service!vars

(* A caller that only moves within its call, and the support thread.       *)
LEMMA MovesUnseen ==
  ASSUME UNCHANGED <<answers, result, served, corrupt>>,
         \A r \in Requests : pc'[r] = "start" <=> pc[r] = "start"
  PROVE  Unseen
BY DEF Unseen, phase

LEMMA AnswerServes ==
  ASSUME TypeOK, NEW r \in Requests, phase[r] = "open",
         NEW told \in {"ok", "error"},
         told = "ok" /\ r \in AsyncReqs \union AdminReqs => r \in served,
         answers' = [answers EXCEPT ![r] = @ + 1],
         result' = [result EXCEPT ![r] = told],
         \A q \in Requests \ {r} : pc'[q] = pc[q],
         UNCHANGED <<served, corrupt>>
  PROVE  Service!Next
<1>1. answers'[r] = 1 /\ \A q \in Requests \ {r} : answers'[q] = answers[q]
  BY DEF TypeOK, phase
<1>2. phase' = [phase EXCEPT ![r] = "answered"]
  <2>1. \A q \in Requests \ {r} : phase'[q] = phase[q]
    BY <1>1 DEF phase
  <2>2. phase'[r] = "answered"
    <3>1. answers'[r] /= 0 /\ answers'[r] = 1
      BY <1>1
    <3> QED
      BY <3>1 DEF phase
  <2> QED
    BY <2>1, <2>2, Zenon DEF phase
<1>3. Service!Answer(r)
  BY <1>2 DEF Service!Answer
<1> QED
  BY <1>3 DEF Service!Next

LEMMA RequestServes ==
  ASSUME Sane, SafeInv, TypeInv', ~corrupt', NEW r \in Requests, RequestStep(r)
  PROVE  [Service!Next]_(Service!vars)
<1> USE CommandAssumption, RequestAssumption
<1>t. TypeOK /\ UNCHANGED corrupt
  BY DEF SafeInv, TypeInv, TypeOK
<1>s. r \in Clients /\ \A q \in Requests : q \in Clients
  BY DEF Clients
<1>1. CASE getCommand(r)
  <2>1. /\ pc[r] = "start" /\ pc' = [pc EXCEPT ![r] = "gotten"]
        /\ UNCHANGED <<answers, result, served, corrupt>>
    BY <1>1 DEF getCommand
  <2>2. answers[r] = 0
    BY <2>1 DEF SafeInv, Carried, Requests, SyncReqs
  <2>3. pc'[r] /= "start" /\ \A q \in Requests \ {r} : pc'[q] = pc[q]
    BY <1>t, <1>s, <2>1 DEF TypeOK
  <2>4. phase[r] = "idle"
    BY <2>1, <2>2 DEF phase
  <2>5. phase' = [phase EXCEPT ![r] = "open"]
    <3>1. answers'[r] = 0
      BY <2>1, <2>2
    <3>2. \A q \in Requests \ {r} : (pc'[q] = "start" <=> pc[q] = "start") /\ answers'[q] = answers[q]
      BY <2>1, <2>3
    <3> QED
      BY <2>3, <3>1, <3>2 DEF phase
  <2> QED
    BY <2>1, <2>4, <2>5 DEF Service!Next, Service!Accept
<1>2. CASE runSynchronousCommand(r) \/ runAsynchronousCommand(r)
  <2>1. pc[r] \in {"gotten", "released"}
    BY <1>2 DEF runSynchronousCommand, runAsynchronousCommand
  <2>2. link[cmd[r]] = "none"
    BY <1>s, <2>1 DEF SafeInv, TypeInv, Holding, Holders, Connecting
  <2>3. PICK sync \in BOOLEAN : submit(r, sync)
    BY <1>2 DEF runSynchronousCommand, runAsynchronousCommand
  <2>4. posted(r, cmd[r], sync)
    BY <2>2, <2>3 DEF submit, refused, complete, corruptByRemove
  <2>5. pc'[r] /= "start" /\ \A q \in Requests \ {r} : pc'[q] = pc[q]
    BY <1>t, <1>s, <2>4 DEF posted, TypeOK
  <2>6. UNCHANGED <<answers, result, served, corrupt>>
    BY <1>t, <2>3, <2>4 DEF submit, posted
  <2> QED
    BY <2>1, <2>5, <2>6, MovesUnseen, UnseenServes
<1>3. CASE hold(r)
  BY <1>3, <1>t, <1>s, MovesUnseen, UnseenServes DEF hold, TypeOK
<1>4. CASE returnCommand(r)
  <2>1. pc[r] = "ran" /\ r \in SyncReqs /\ r \notin asleep
    BY <1>4 DEF returnCommand, SafeInv, Stages
  <2>2. answers[r] = 0 /\ phase[r] = "open"
    BY <2>1 DEF SafeInv, Carried, phase
  <2>3. reported(r) /\ r \in AsyncReqs \union AdminReqs => r \in served
    BY <2>1 DEF reported, getResult, SafeInv, Truthful, SyncReqs
  <2>4. \A q \in Requests \ {r} : pc'[q] = pc[q]
    BY <1>4, <1>t, <1>s DEF returnCommand, TypeOK
  <2>5. /\ answers' = [answers EXCEPT ![r] = @ + 1]
        /\ result' = [result EXCEPT ![r] = IF reported(r) THEN "ok" ELSE "error"]
        /\ UNCHANGED <<served, corrupt>>
    BY <1>4, <1>t DEF returnCommand
  <2> QED
    BY <1>t, <2>2, <2>3, <2>4, <2>5, AnswerServes
<1> QED
  BY <1>1, <1>2, <1>3, <1>4 DEF RequestStep

LEMMA RespondServes ==
  ASSUME Sane, SafeInv, NEW c \in Commands, respond(c)
  PROVE  [Service!Next]_(Service!vars)
<1> USE CommandAssumption, RequestAssumption
<1>t. TypeOK
  BY DEF SafeInv, TypeInv
<1>1. link[c] = "active"
  BY DEF respond, SafeInv, Matched
<1>2. /\ UNCHANGED <<phase, result, corrupt>>
      /\ UNCHANGED served \/ served' = served \union Beneficiary(c)
  BY DEF respond, clientVars, phase
<1>3. Beneficiary(c) = {} \/ \E r \in Requests : Beneficiary(c) = {r} /\ phase[r] = "open"
  <2>1. CASE waiting[c]
    <3>1. ASSUME NEW r \in Requests, cmd[r] = c
          PROVE  Beneficiary(c) = {r} /\ phase[r] = "open"
      <4>1. r \in asleep
        BY <1>1, <3>1 DEF SafeInv, Holders, Clients
      <4>2. pc[r] = "ran"
        BY <1>t, <4>1 DEF SafeInv, Holders, Connecting, TypeOK, RequestStages
      <4>3. answers[r] = 0
        BY <4>2 DEF SafeInv, Stages, Carried
      <4>4. Beneficiary(c) = {r}
        BY <2>1, <3>1 DEF Beneficiary, SafeInv, Holders, Clients
      <4> QED
        BY <4>2, <4>3, <4>4 DEF phase
    <3> QED
      BY <2>1, <3>1 DEF Beneficiary
  <2>2. CASE ~waiting[c]
    <3>1. /\ completion[c] \in AsyncReqs /\ pc[completion[c]] = "posted"
          /\ answers[completion[c]] = 0
      BY <1>1, <2>2 DEF SafeInv, Carried, InFlight
    <3> QED
      BY <2>2, <3>1 DEF Beneficiary, phase, Requests
  <2> QED
    BY <2>1, <2>2
<1>4. CASE UNCHANGED served
  BY <1>2, <1>4, UnseenServes DEF Unseen
<1>5. ASSUME NEW r \in Requests, phase[r] = "open", served' = served \union {r}
      PROVE  Service!Next
  BY <1>2, <1>5 DEF Service!Next, Service!CarryOut
<1> QED
  BY <1>2, <1>3, <1>4, <1>5

LEMMA HandleInterruptServes ==
  ASSUME Sane, SafeInv, TypeInv', ~corrupt', NEW c \in Commands, handleInterrupt(c)
  PROVE  [Service!Next]_(Service!vars)
<1>t. TypeOK /\ UNCHANGED corrupt
  BY DEF SafeInv, TypeInv, TypeOK
<1>1. complete(c, TRUE, waiting[c]) /\ c \in responses /\ UNCHANGED <<pc, served>>
  BY DEF handleInterrupt
<1>2. link[c] = "active"
  BY <1>1 DEF complete, corruptByRemove
<1>3. CASE waiting[c]
  BY <1>t, <1>1, <1>3, MovesUnseen, UnseenServes DEF complete
<1>4. CASE ~waiting[c]
  <2> DEFINE r == completion[c]
             told == IF getResult(c, TRUE) THEN "ok" ELSE "error"
  <2>1. r \in AsyncReqs /\ r \in Requests /\ pc[r] = "posted" /\ answers[r] = 0
    BY <1>2, <1>4 DEF SafeInv, Carried, InFlight, Requests
  <2>2. phase[r] = "open"
    BY <2>1 DEF phase
  <2>3. told = "ok" => r \in served
    BY <1>1, <1>4 DEF getResult, SafeInv, Truthful, Beneficiary
  <2>4. /\ answers' = [answers EXCEPT ![r] = @ + 1]
        /\ result' = [result EXCEPT ![r] = told]
    BY <1>1, <1>4 DEF complete
  <2>5. told \in {"ok", "error"} /\ UNCHANGED <<served, corrupt>>
    BY <1>t, <1>1
  <2> HIDE DEF told, r
  <2> QED
    BY <1>t, <1>1, <2>1, <2>2, <2>3, <2>4, <2>5, AnswerServes
<1> QED
  BY <1>3, <1>4

LEMMA SupportUnseen ==
  ASSUME SafeInv, TypeInv', ~corrupt', SupportStep
  PROVE  Unseen
<1> USE CommandAssumption, RequestAssumption
<1>t. TypeOK /\ UNCHANGED corrupt
  BY DEF SafeInv, TypeInv, TypeOK
<1>s. \A r \in Requests : r \in Clients /\ r /= SupportThread
  BY DEF Clients
<1>h. ASSUME UNCHANGED <<answers, result, served>>,
             \/ UNCHANGED pc
             \/ \E next : pc' = [pc EXCEPT ![SupportThread] = next]
      PROVE  Unseen
  <2>1. \A r \in Requests : pc'[r] = pc[r]
    BY <1>h, <1>s, <1>t DEF TypeOK
  <2> QED
    BY <1>h, <1>t, <2>1, MovesUnseen
<1>1. CASE supportThreadGetWork \/ supportThreadCheckTimeouts \/ getAEN \/ fetchedAEN
  BY <1>1, <1>h
  DEF supportThreadGetWork, supportThreadCheckTimeouts, getAEN, fetchedAEN
<1>2. CASE runAEN
  BY <1>2, <1>h DEF runAEN, complete
<1>3. CASE resetController \/ initConnection \/ features
  BY <1>3, <1>h
  DEF resetController, connecting, initConnection, configuring, features, giveUp, sleepOnAdmin
<1>4. ASSUME NEW c \in Commands, resubmit(c) PROVE Unseen
  BY <1>4, <1>h DEF resubmit, resubmitted
<1>5. CASE resetDone
  BY <1>5, <1>s, <1>t, MovesUnseen DEF resetDone, woken
<1> QED
  BY <1>1, <1>2, <1>3, <1>4, <1>5 DEF SupportStep

LEMMA StepServes ==
  ASSUME Sane, SafeWhileSound, SafeWhileSound', [Next]_vars
  PROVE  [Service!Next]_(Service!vars)
<1>1. CASE corrupt'
  BY <1>1 DEF Service!Next
<1>2. CASE ~corrupt'
  <2>1. SafeInv /\ TypeInv'
    BY <1>2, CorruptStays DEF SafeWhileSound, ChainsSound
  <2>2. CASE UNCHANGED vars
    BY <2>2, UnseenServes DEF vars, clientVars, Unseen, phase
  <2>3. ASSUME NEW r \in Requests, RequestStep(r) PROVE [Service!Next]_(Service!vars)
    BY <1>2, <2>1, <2>3, RequestServes
  <2>4. ASSUME NEW c \in Commands, respond(c) \/ handleInterrupt(c)
        PROVE  [Service!Next]_(Service!vars)
    BY <1>2, <2>1, <2>4, RespondServes, HandleInterruptServes
  <2>5. CASE handleAttention \/ timeoutOccurred \/ requestReset \/ quiescent
    <3>1. UNCHANGED <<pc, answers, result, served, corrupt>>
      BY <2>5 DEF handleAttention, timeoutOccurred, requestReset, quiescent, vars, clientVars
    <3> QED
      BY <3>1, UnseenServes DEF Unseen, phase
  <2>6. CASE SupportStep
    BY <1>2, <2>1, <2>6, SupportUnseen, UnseenServes
  <2> QED
    BY <2>2, <2>3, <2>4, <2>5, <2>6 DEF Next
<1> QED
  BY <1>1, <1>2

(* The command path implements CommandService: each request is answered at *)
(* most once, the controller works only on open requests, across resets    *)
(* and the reuse of commands, and a checked success is its own.            *)
THEOREM PathServes == ASSUME Sane PROVE Spec => IsCommandService
<1>1. SafeWhileSound /\ SafeWhileSound' /\ [Next]_vars => [Service!Next]_(Service!vars)
  BY StepServes
<1> QED
  BY <1>1, InitServes, SafeWhileSoundHolds, PTL DEF Spec, IsCommandService, Service!Spec
-----------------------------------------------------------------------------
(* A command parked by a reset is neither completed nor handed out before  *)
(* the reset has put it back on activeCommands, in every behaviour that    *)
(* keeps the chains sound.                                                 *)
THEOREM ParkedStayParked == Spec /\ []ChainsSound => ParkedUntouched
<1>1. SafeWhileSound /\ ChainsSound /\ ChainsSound' /\ [Next]_vars =>
        [\A c \in Commands : link[c] = "pending" => link'[c] \in {"pending", "active"}]_vars
  BY NextParked DEF SafeWhileSound, ChainsSound
<1> QED
  BY <1>1, SafeWhileSoundHolds, PTL DEF Spec, ParkedUntouched
=============================================================================
