---------------------------- MODULE BootFirmware ----------------------------
(***************************************************************************)
(* The FCode boot driver: one thread of Open Firmware opens the controller *)
(* node and its disks, asks for units and reads blocks; each request is    *)
(* one command, in the one command buffer there is, under the one tag      *)
(* #command-tag, and the driver spins up to 30 seconds for its response.   *)
(* The controller fetches, carries out and answers what it was posted in   *)
(* its own time, also after the driver has given up.                       *)
(*                                                                         *)
(* Words that print (?debug is 0), write-blocks, which always returns 0,   *)
(* and calls refused before they touch the controller (an invalid unit, a  *)
(* misaligned address) change nothing and are left out.                    *)
(***************************************************************************)
EXTENDS Integers, FiniteSets, Sequences, SequencesExt

CONSTANTS
  Units, Addresses,
  Word,                \* values of the command's count field (2^16 in the code)
  MaxOpens,            \* bound: opens of the controller node
  MaxLate,             \* bound: unanswered commands with which a call begins
  None

ASSUME BootAssumption ==
  /\ Word \in Nat \ {0, 1} /\ MaxOpens \in Nat /\ MaxLate \in Nat
  /\ None \notin Units \union Addresses \union [addr : Addresses, count : 0 .. Word]

VARIABLES
  pc,                  \* where the driver waits
  opens,               \* opens of the controller node so far, numbering them
  instances, children, \* open instances: how many of the controller, which disks
  window, windows,     \* *control-reg-addr, and the register windows mapped in
  buffers, dmaBuffers, \* *command-buffer, and the command buffers mapped in
  mapped,              \* the clients' buffers mapped in for a read
  controllerResetDone, \* ?controller-reset-done
  command, status,     \* contents of the command buffer, and its status byte
  param,               \* which question the parameter buffer's data answers
  told,                \* what read-blocks last returned
  online,              \* hardware: the units there are
  commands, responses, \* hardware: what it was posted, the tags it returned
  inReset,             \* hardware: has not raised the attention interrupt yet
  memory,              \* hardware: the blocks asked for that are in memory
  late,                \* history: the driver gave up waiting at some time
  shared,              \* history: two instances of the controller at a time
  fault                \* a window or buffer was used that is not mapped

nodes == <<opens, instances, children, shared>>
mappings == <<window, windows, buffers, dmaBuffers>>
hardware == <<commands, responses, inReset>>
vars == <<pc, nodes, mappings, mapped, controllerResetDone, command, status, param, told,
          online, hardware, memory, late, fault>>

\* max-transfer, in blocks: what the count field can hold.
maxTransfer == Word - 1

Command(op, unit, addr, count) ==
  [op |-> op, unit |-> unit, addr |-> addr, count |-> count, live |-> TRUE]
idleCommand == [op |-> "none", unit |-> None, addr |-> None, count |-> 0, live |-> FALSE]
foreign == [idleCommand EXCEPT !.op = "foreign"]
unanswered == [op |-> "none", unit |-> None]

\* The controller may still be busy for whoever used it before.
Init ==
  /\ pc = "idle" /\ opens = 0 /\ instances = 0 /\ children = {}
  /\ window = 0 /\ windows = {} /\ buffers = 0 /\ dmaBuffers = {} /\ mapped = {}
  /\ controllerResetDone = FALSE
  /\ command = idleCommand /\ status = "zero" /\ param = unanswered /\ told = 0
  /\ online \in SUBSET Units
  /\ commands \in {<<>>, <<foreign>>}
  /\ responses \in {<<>>, <<"17">>, <<"other">>}
  /\ inReset = FALSE /\ memory = [a \in Addresses |-> 0]
  /\ late = FALSE /\ shared = FALSE /\ fault = FALSE
-----------------------------------------------------------------------------
(* run-command, and what the calls make of its outcome *)

\* The registers and the command buffer in use are those mapped in last.
usable == window \in windows /\ buffers \in dmaBuffers

\* Bound: how far the controller may be behind when a call begins.
ready == pc = "idle" /\ Len(commands) + Len(responses) <= MaxLate

\* The command is made and tagged in the command buffer, and posted.
post(c) ==
  /\ command' = c /\ status' = "zero"
  /\ commands' = Append(commands, idleCommand)
  /\ pc' = "wait"
  /\ UNCHANGED <<responses, inReset, online, late, fault>>

\* unit-present?: is the online bit in the parameter buffer, which was
\* cleared when the question was put?
onlineBit == CASE param.op = "status"   -> {param.unit \in online}
               [] param.op = "capacity" -> BOOLEAN
               [] OTHER                 -> {FALSE}

\* After a read, successful or not; a variant that leaves a failed read's
\* buffer mapped.
mappedOnFailure(success) == IF success THEN mapped \ {command.addr} ELSE mapped
mappedOut(success) == mapped \ {command.addr}

\* run-command returns, or throws; the request in the command buffer is over,
\* though the controller may still be at it.
finish(success) ==
  /\ IF command.op = "status" /\ success
     THEN \E present \in onlineBit : pc' = IF present THEN "packages" ELSE "idle"
     ELSE pc' = "idle"
  /\ instances' = IF command.op = "init" /\ success THEN instances + 1 ELSE instances
  /\ told' = IF command.op /= "read" THEN told ELSE IF success THEN command.count ELSE 0
  /\ mapped' = IF command.op = "read" THEN mappedOut(success) ELSE mapped
  /\ command' = [command EXCEPT !.live = FALSE]
  /\ UNCHANGED <<opens, children, shared, mappings, controllerResetDone, status, param,
                 online, inReset, memory, fault>>
over(cs) == [i \in DOMAIN cs |-> [cs[i] EXCEPT !.live = FALSE]]

\* The tag and then the status decide; a variant without the status.
goodTag == Head(responses) = "17"
good == goodTag /\ status = "zero"

answered ==
  /\ pc = "wait" /\ responses /= <<>>
  /\ finish(good)
  /\ responses' = Tail(responses)
  /\ commands' = over(commands)
  /\ UNCHANGED late

\* wait-for-unstatus gives up; a variant that waits for good.
waitsForGood == FALSE
timedOut ==
  /\ pc = "wait"
  /\ finish(FALSE)
  /\ commands' = over(commands)
  /\ late' = TRUE
  /\ UNCHANGED responses
-----------------------------------------------------------------------------
(* The controller node *)

\* map-escalade-registers and allocate-dma-buffers may throw; what they did
\* before stays.  A variant that keeps the address of the first window.
keepsFirstWindow == window' = 1 /\ windows' = windows \union {opens'}
mapEscaladeRegisters == window' = opens' /\ windows' = windows \union {opens'}
allocateDmaBuffers == buffers' = opens' /\ dmaBuffers' = dmaBuffers \union {opens'}

\* reset-controller, once and for all.
resetController ==
  IF controllerResetDone
  THEN pc' = "connect" /\ UNCHANGED <<controllerResetDone, inReset>>
  ELSE pc' = "reset" /\ controllerResetDone' = TRUE /\ inReset' = TRUE

open ==
  /\ ready /\ opens < MaxOpens
  /\ opens' = opens + 1 /\ shared' = (shared \/ instances > 0)
  /\ \/ UNCHANGED <<mappings, pc, controllerResetDone, inReset>>
     \/ mapEscaladeRegisters
        /\ UNCHANGED <<buffers, dmaBuffers, pc, controllerResetDone, inReset>>
     \/ mapEscaladeRegisters /\ allocateDmaBuffers /\ resetController
  /\ UNCHANGED <<instances, children, mapped, command, status, param, told, online, commands,
                 responses, memory, late, fault>>

resetAnswered ==
  /\ pc = "reset" /\ ~inReset
  /\ pc' = "connect"
  /\ UNCHANGED <<nodes, mappings, mapped, controllerResetDone, command, status, param, told,
                 online, hardware, memory, late, fault>>

resetTimedOut ==
  /\ pc = "reset"
  /\ pc' = "idle" /\ late' = TRUE
  /\ UNCHANGED <<nodes, mappings, mapped, controllerResetDone, command, status, param, told,
                 online, hardware, memory, fault>>

\* check-controller-errors throws when all three bits are set, no fewer.
errorBits == {"pci-abort", "pci-parity-error", "queue-error"}
noErrors(bits, microcontrollerReady) == ~(bits = errorBits /\ microcontrollerReady)

\* drain-response-queue looks whether the queue is empty, and takes nothing
\* off it.
drained == responses = <<>>

\* The rest of initialise-controller.
connect ==
  /\ pc = "connect"
  /\ \E bits \in SUBSET errorBits, microcontrollerReady \in BOOLEAN :
       IF noErrors(bits, microcontrollerReady) /\ drained
       THEN post(Command("init", None, None, 0))
       ELSE pc' = "idle" /\ UNCHANGED <<command, status, online, hardware, late, fault>>
  /\ UNCHANGED <<nodes, mappings, mapped, controllerResetDone, param, told, memory>>

\* An instance without a disk can be closed; a variant that also closes one
\* whose open failed.
afterAnyOpen == opens > 0
closable == instances > Cardinality(children)

close ==
  /\ pc = "idle" /\ usable /\ closable
  /\ instances' = instances - 1
  /\ windows' = windows \ {window} /\ dmaBuffers' = dmaBuffers \ {buffers}
  /\ UNCHANGED <<pc, opens, children, shared, window, buffers, mapped, controllerResetDone,
                 command, status, param, told, online, hardware, memory, late, fault>>

\* An instance is closed or asked for something after its mappings are gone.
misused ==
  /\ pc = "idle" /\ ~usable /\ instances > 0
  /\ fault' = TRUE
  /\ UNCHANGED <<pc, nodes, mappings, mapped, controllerResetDone, command, status, param, told,
                 online, hardware, memory, late>>
-----------------------------------------------------------------------------
(* The disks *)

\* open: unit-present?, which clears the parameter buffer first.
openDisk(u) ==
  /\ ready /\ instances > Cardinality(children) /\ u \notin children
  /\ usable /\ post(Command("status", u, None, 0))
  /\ param' = unanswered
  /\ UNCHANGED <<nodes, mappings, mapped, controllerResetDone, told, memory>>

\* The deblocker and the disk label are opened, or one of them is not.
openPackages ==
  /\ pc = "packages" /\ pc' = "idle"
  /\ children' \in {children, children \union {command.unit}}
  /\ UNCHANGED <<opens, instances, shared, mappings, mapped, controllerResetDone, command,
                 status, param, told, online, hardware, memory, late, fault>>

closeDisk(u) ==
  /\ pc = "idle" /\ u \in children
  /\ children' = children \ {u}
  /\ UNCHANGED <<pc, opens, instances, shared, mappings, mapped, controllerResetDone, command,
                 status, param, told, online, hardware, memory, late, fault>>

\* #blocks
blocks(u) ==
  /\ ready /\ u \in children
  /\ usable /\ post(Command("capacity", u, None, 0))
  /\ param' = unanswered
  /\ UNCHANGED <<nodes, mappings, mapped, controllerResetDone, told, memory>>

\* The deblocker asks for at most max-transfer; the buffer has nothing yet
\* of what is asked.
readBlocks(u, a, n) ==
  /\ ready /\ u \in children /\ n <= maxTransfer
  /\ usable /\ post(Command("read", u, a, n))
  /\ mapped' = mapped \union {a}
  /\ memory' = [memory EXCEPT ![a] = 0]
  /\ UNCHANGED <<nodes, mappings, controllerResetDone, param, told>>
-----------------------------------------------------------------------------
(* The controller: external *)

comesOutOfReset ==
  /\ inReset /\ inReset' = FALSE
  /\ commands' = <<>> /\ responses' \in {<<>>, responses}
  /\ UNCHANGED <<pc, nodes, mappings, mapped, controllerResetDone, command, status, param, told,
                 online, memory, late, fault>>

\* The contents of the command buffer as they are now.
fetch(i) ==
  /\ commands[i].op = "none"
  /\ commands' = [commands EXCEPT ![i] = command]
  /\ UNCHANGED <<pc, nodes, mappings, mapped, controllerResetDone, command, status, param, told,
                 online, responses, inReset, memory, late, fault>>

\* A command moves as many blocks as its count field says; those of a request
\* that is over are not what anybody asks for.
moved(c) == IF c.live THEN c.count % Word ELSE -1

carryOut(i) ==
  LET c == commands[i] IN
  /\ c.op /= "none"
  /\ \E success \in BOOLEAN :
       /\ memory' = IF c.op = "read" /\ success
                    THEN [memory EXCEPT ![c.addr] = moved(c)] ELSE memory
       /\ param' = IF c.op \in {"status", "capacity"} /\ success
                   THEN [op |-> c.op, unit |-> c.unit] ELSE param
       /\ status' = IF c.op = "foreign" THEN status ELSE IF success THEN "zero" ELSE "nonzero"
  /\ commands' = RemoveAt(commands, i)
  /\ \E tag \in IF c.op = "foreign" THEN {"17", "other"} ELSE {"17"} :
       responses' = Append(responses, tag)
  /\ UNCHANGED <<pc, nodes, mappings, mapped, controllerResetDone, command, told, online, inReset,
                 late, fault>>
-----------------------------------------------------------------------------
Waiting == answered \/ timedOut \/ resetAnswered \/ resetTimedOut \/ connect \/ openPackages

Client ==
  \/ open \/ close \/ misused
  \/ \E u \in Units : openDisk(u) \/ closeDisk(u) \/ blocks(u)
  \/ \E u \in Units, a \in Addresses, n \in 1 .. Word : readBlocks(u, a, n)

Controller == comesOutOfReset \/ \E i \in DOMAIN commands : fetch(i) \/ carryOut(i)

\* A machine that has faulted stops.
Next == ~fault /\ (Waiting \/ Client \/ Controller)

Spec == Init /\ [][Next]_vars

\* The driver's loops run; nothing makes the controller answer.
FairSpec == Spec /\ WF_vars(~fault /\ Waiting)
-----------------------------------------------------------------------------
Ops == {"none", "foreign", "init", "status", "capacity", "read"}
CommandType ==
  [op : Ops, unit : Units \union {None}, addr : Addresses \union {None}, count : 0 .. Word,
   live : BOOLEAN]

TypeOK ==
  /\ pc \in {"idle", "reset", "connect", "wait", "packages"}
  /\ opens \in 0 .. MaxOpens /\ instances \in 0 .. MaxOpens /\ children \subseteq Units
  /\ window \in 0 .. MaxOpens /\ windows \subseteq 1 .. MaxOpens
  /\ buffers \in 0 .. MaxOpens /\ dmaBuffers \subseteq 1 .. MaxOpens
  /\ mapped \subseteq Addresses /\ controllerResetDone \in BOOLEAN
  /\ command \in CommandType /\ status \in {"zero", "nonzero"}
  /\ param \in [op : {"none", "status", "capacity"}, unit : Units \union {None}]
  /\ told \in 0 .. maxTransfer /\ online \subseteq Units
  /\ commands \in Seq(CommandType) /\ responses \in Seq({"17", "other"}) /\ inReset \in BOOLEAN
  /\ memory \in [Addresses -> -1 .. maxTransfer]
  /\ late \in BOOLEAN /\ shared \in BOOLEAN /\ fault \in BOOLEAN

\* As long as one instance of the controller node is open at a time, its
\* registers and buffers stay mapped until it is closed (open, close: the
\* mappings are global values, not the instance's).
NoFault == ~shared => ~fault

\* A client's buffer is mapped for the controller exactly while the driver
\* waits for the read into it, however the read ends (read-blocks).
MappedForRead ==
  mapped = IF pc = "wait" /\ command.op = "read" THEN {command.addr} ELSE {}

\* Until the driver has once given up waiting, it keeps what a disk promises:
\* "fetch the response queue value and check that we got our command back".
\* Later it need not: every command has the same tag, so the response to one
\* that was late is taken for that of the next.
asked == IF pc = "wait" /\ command.op = "read"
         THEN [addr |-> command.addr, count |-> command.count] ELSE None

Disk == INSTANCE BlockDevice WITH opened <- children, MaxTransfer <- maxTransfer,
                                  trusted <- ~late
IsBlockDevice == Disk!Spec

\* Every call returns, whatever the controller does (wait-for-status,
\* wait-for-unstatus).
CallsReturn == pc /= "idle" ~> pc = "idle"
=============================================================================
