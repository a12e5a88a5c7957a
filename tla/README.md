# Verification of the 3ware Escalade driver

TLA+ modules, TLC runs and TLAPS proofs about the Mac OS X driver for 3ware
Escalade controllers (`src/Driver`) and its Open Firmware boot driver
(`src/Fcode`). Line references below are to files of `src/Driver` unless a path
is given.

## The system

The driver is one IOKit object, `EscaladeController`, with a work loop whose
*gate* (a recursive lock) protects everything commands touch. Five kinds of
actor run in it: threads that issue I/O through drive nubs, user-client threads,
the interrupt and timer handlers on the work-loop thread, the power manager, and
one *support thread* that does whatever has to block. A thread that sleeps with
`commandSleep` gives the gate up for as long as it sleeps.

| Component | State | Operations | Talks to |
|---|---|---|---|
| Command pools and tags (EscaladeController.cpp) | three IOCommandPools, commandLookup, emergencyCommand, activeCommands | createCommands, getCommand (blocking), _returnCommand, findCommand, _queueActive, _dequeueActive | every caller |
| Command (EscaladeCommand.cpp) | packet, buffers, waitingOwner, completion, postResult, timeout credits | _wasGotten, make*, prepare, wasPosted, complete, getResult, returnCommand | pools, memory cursor, callers |
| Controller I/O (EscaladeControllerIO.cpp) | registers | postCommand, drainResponseQueue, handleInterrupt, run{A,S}ynchronousCommand | hardware, commands |
| Initialisation and reset (EscaladeController.cpp) | resetting, needReInit | start, stop, initController, initConnection, resetController, shutdownController | all of the above |
| Support thread (EscaladeSupportThread.cpp) | supportThreadInbox, local workBits and desiredPowerState | reset, timeouts, AEN poll, rescan, power transitions | inbox written by interrupt, timer, power manager, user client |
| Power management (EscaladeControllerPM.cpp) | suspending, powerState, drivePowerState, fullPowerConsumers, needReInit | setPowerState, setPowerStandby, setPowerActive, checkPowerState, setDrivePower, powerDownHandler | support thread, I/O threads |
| AEN ring (EscaladeController.cpp) | aenBuffer, aenBufHead, aenBufTail | addAEN, getAEN | support thread, user client |
| Logical units (EscaladeController.cpp) | logicalUnit[] | findLogicalUnits, doAddUnit, doRemoveUnit | support thread, user client, drives |
| User client (EscaladeUserClient.cpp) | isOpen, statistics | open, close, doCommand, getAEN, doReset, add and remove unit | controller |
| Drive nub (EscaladeDrive.cpp) | unit, size | doAsyncReadWrite, doSynchronizeCache, attach, detach | controller |
| Memory cursor (EscaladeMemoryCursor.cpp) | none | getPhysicalSegments, the alignment test | commands |
| FCode boot driver (src/Fcode/Escalade.fth) | one command buffer and one parameter buffer, the register window, ?controller-reset-done, open instances | open, close, reset-controller, initialise-controller, run-command, unit-present?, #blocks, read-blocks | hardware, Open Firmware's deblocker and disk label |

What is hard in it, and what makes it correct:

- **Pools, commands, controller I/O, reset.** A command has one chain field for
  the pools, the active list and the reset's private list. A reset parks what is
  in flight, borrows an emergency command, sleeps twice on commands of its own
  while I/O threads are held, and resubmits. Correct when no chain operation is
  applied to a command on another queue, a command has one holder, the
  controller's tags are the active commands, each read and write is answered
  once, success means the controller did it, sleepers wake and resets end.
- **AENs.** The attention interrupt may come while the controller is answering
  "empty"; the ring is full with one slot free. Correct when no AEN is left
  behind, the ring is a bounded queue that drops its oldest, each unit change is
  followed by a scan, and power is clamped on while somebody needs it.
- **Power.** Requests, the draining of the active list, I/O threads that look at
  the power state and then sleep, and a controller that loses its memory over a
  sleep. Correct when a deferred transition is taken up again, no request is
  lost, drives run when the controller is active, and sleeping I/O is woken.
- **Logical units, start and stop.** The scan of `start`, the rescan of the
  support thread and the user client's add and remove race over `logicalUnit[]`;
  user clients can come before there are command pools, and `stop` destroys the
  commands while the support thread may still be at work. A user client's unit
  is an int that indexes the array unchecked. Correct when a unit has
  one drive nub, each nub is given up, and nothing is used that is not there.
- **Buffers of a command.** Retained by `make*`, released by `complete`,
  `returnCommand` and the getters. Correct when each is released once and data
  ends in the buffer of its client.
- **Memory cursor.** A buffer is cut into segments, a misaligned one is flagged
  in the list's first entry, a whole copy may take the buffer's place, an empty
  entry goes behind the list even when there is no room for one, and four
  counts (entries, packet size, block count, bytes) are kept apart. Correct when
  what is posted covers what was asked for and what is reported was posted.
- **Boot driver.** One command buffer and one tag for everything, waits that are
  given up while the controller is still at it, mappings in global values.
  Correct when a read that reports blocks has delivered them, a disk that opens
  is there, and the controller has no access to memory that was given back.

## Modules

| Module | Models | Composition |
|---|---|---|
| `CommandService` | abstract: what the command path promises its callers | |
| `CommandPath` | pools, commands, controller I/O, interrupts, reset, timeouts and the AEN poll of the support thread | instantiates `CommandService`, which it implements; checked through `MCCommandPath` |
| `CommandPath_proofs` | type invariant | extends `CommandPath` |
| `CommandPath_safety` | the safety invariants and the refinement | extends `CommandPath_proofs` |
| `AENQueue` | abstract: a bounded queue that gives up its oldest entry | |
| `AENDelivery` | AENs from the controller to the user client, rescans, the full power consumers | instantiates `AENQueue`, which it implements |
| `AENDelivery_proofs` | its invariants and the refinement | extends `AENDelivery` |
| `PowerSwitch` | abstract: what the controller promises its power manager | |
| `PowerManagement` | power transitions by power manager, support thread and I/O threads | instantiates `PowerSwitch`, which it implements |
| `PowerManagement_proofs` | its invariants and the refinement | extends `PowerManagement` |
| `LogicalUnits` | scans, additions and removals of units, the life of drive nubs, from `start` to `stop` | checked through `MCLogicalUnits` |
| `LogicalUnits_proofs` | its type invariant and safety invariants | extends `LogicalUnits` |
| `CommandBuffers` | references to data, parameter and copy buffers over the uses of commands | checked through `MCCommandBuffers` |
| `CommandBuffers_proofs` | its invariants and `DataDelivered` | extends `CommandBuffers` |
| `ScatterGather` | one command's list of segments, from request to report | |
| `ScatterGather_proofs` | its type invariant and safety invariants | extends `ScatterGather` |
| `BlockDevice` | abstract: what a disk promises to the one who boots from it | |
| `BootFirmware` | the Open Firmware boot driver and the controller it polls | instantiates `BlockDevice`, which it implements |
| `BootFirmware_proofs` | its invariants and the refinement | extends `BootFirmware` |

### CommandPath and the code

A command is a model value; `link[c]` is the queue its `fCommandChain` is on and
`corrupt` records an `_queueActive`, `_dequeueActive` or pool operation applied
to a command on the wrong queue. `outstanding`, `responses` and `intr` are the
controller. A *client* is a request (`doAsyncReadWrite`, `doSynchronizeCache`,
`getParam`, the user client's `doCommand`) or the support thread; `pc` is where
it is, `cmd` the command it holds, `asleep` who is in `commandSleep`.

An action is one gate-held segment. `runSynchronousCommand` posts and goes to
sleep; `handleInterrupt` completes and wakes; `returnCommand` is the caller that
woke. `resetController` is five actions: park everything and post InitConnection;
the feature command; the resubmission, one command per action with the gate kept
(`GateFree` is false, so only the hardware moves); and the end. `initController`
may be `stuck` (never out of reset, interrupts stay off) or see `errors`
(interrupts already on, the response queue not drained).

Data that no property tells apart is left out: packets, sizes, unit numbers, the
parameters read. A status is `ok`, `error` or one that makes `getResult` ask for
a reset. Time is timer expiries; credits are charged as `checkTimeout` does.

For `CommandService` a request is idle until its caller has a command, open until
it is answered, and a second answer is a state the service does not have
(`phase`). `trusted` is `~corrupt`. The service says nothing of how many commands
there are or of resets: it may only take, carry out and answer requests, so every
other step of the driver has to be invisible to it.

### AENDelivery and the code

The ring is the function `aenBuffer` with the code's two indices. The poll is two
steps, the controller's answer (`poll`) and what the support thread does with it
(`polled`, `addAEN`), so that interrupts fall between. `changeFullPowerConsumer`
is the code's three cases; `clamped` is what the last `changePowerStateTo` said.
`powerDownHandler` removes one consumer per step, as its loop does.
`buffered` is the refinement mapping: the ring read from tail to head.

### PowerManagement and the code

A command is here only its membership in `active`. `powerTransition` is the power
section of `supportThreadMain` including `setSuspending`; `initController`,
`setDrivePower` and their completions are the segments in which
`setPowerStandby` and `setPowerActive` sleep. `checkPowerStateLocked` is two
steps, the look at `powerState` and the sleep, because `setPowerActive` stores
and wakes without the gate. The power manager, outside `src/`, is taken from how
`setPowerState` and `acknowledgeSetPowerState` use it: one request at a time, and
it may stop waiting (`giveUp`). For ACTIVE it nearly always does: the case falls
through to `return(IOPMNoSuchState)` at EscaladeControllerPM.cpp:117-118, a small
number where a time limit in microseconds is expected. The history variable
`gaveUp` lets properties say which of them depend on it.

`PowerSwitch` knows one open request and one answer to it. What the controller
has between the two, an inbox, work bits, a deferral, a reset, the drain of the
active commands, is invisible to it. Drives that would not start (`spinFailed`)
count as ready, as the code reports that and goes on without them.

### LogicalUnits and the code

`logicalUnit` is the array. A nub is a model value that is never used twice;
`life` is what became of it, `owned` the reference `new` gave to `doAddUnit`,
`registry` the one the registry holds from `attach` to `detach`. A nub that was
made and has neither is freed, and to use it, or NULL, is `panicked`.
`doAddUnit`, `doRemoveUnit` and `findLogicalUnits` run without the gate, so a
step ends wherever they call something that may block or that another thread may
come in before. Like the code, `nubOf` reads the array again before each use;
only `doRemoveUnit` keeps a local, `pUnit`. The three parameter reads of
`doAddUnit` are one step that may fail.

The start thread runs the end of `start`, in the order of the code: the
controller is registered, the command pools are made (`createCommands`), the
support thread is created, `initController` succeeds or `startFails`, and the
units are scanned once; later the same thread terminates the controller and runs
`stop`, which sets ST_DO_TERMINATE and destroys the commands (`pools`). The
support thread looks for ST_DO_TERMINATE before anything else (`mayScan`), and
ends when it sees it; a caller that needs a command when `pools` is false panics.

`logicalUnit` has more words than the array: `OutOfRange` are the other ints a
user client may name (`userCall`; EscaladeUserClient.cpp:72-101 passes on what it
is given, and `doAddUnit` and `doRemoveUnit` use it as an index). A word out there
belongs to somebody else. It is NULL or `Foreign`, which is no nub, so that
`doRemoveUnit` calls a method of something that is not an object (`misusedUnit`);
its owner may change it while a call looks at it (`ownerWrites`; at other times
the value makes no difference), and when `doAddUnit` has put a nub there the owner
may come to use it (`ownerMisled`, also a panic).

Three history variables name what nothing in the code excludes. `strayed`: a user
client named a unit that is not in the array. `overlapped`: two
calls for the same unit have run at the same time (the scan of `start`, the
support thread's rescan, user clients). `unready`: a user client called before
the pools existed, or somebody was at work when the controller was terminated.
The last three properties are stated for histories without any of them (`calm`);
`TypeOK` says of all histories that the array holds nubs only, that scans stay in
it, and that only a call that strayed is for a unit outside it.

### CommandBuffers and the code

A command's four pointers are `fields`; `refs` counts the references to each
buffer, one of which a client's buffer has from its client throughout. Operators
named as in EscaladeCommand.cpp map the memory of a command (its pointers, the
counts, and `full`, the buffers that hold the data of their request) to the
memory afterwards, so that `complete` and `returnCommand` are compositions in
the order of the code. `stage` abstracts from the queues of `CommandPath`; any
thread may use a command, and a reset takes one and puts it back (`supply`),
later keeps one (`recover`), at any time. A timed-out command that is completed
and posted again is left to `CommandPath`. The allocator does not give out
memory a stale pointer still names, so that using such a pointer shows as a count
below zero (`panicked`) and not as damage to somebody else.

Two histories are excepted by the properties, and named in them: a read or write
was `refused` (realBuffer may be left set, and `doAsyncReadWrite` returns a
command twice), and a reset returned a command whose pointers were `stale`.
`lost` is the third thing the code does wrong and is stated, not excepted:
`releaseParamBuffer` forgets the reference `setDataBuffer` took, so a parameter
that is read or set leaves its buffer with exactly one reference for good.

### ScatterGather and the code

One command of one client, a drive nub or a user client, is made, prepared,
posted and completed, over and over, because its packet keeps its contents from
one request to the next. Of the list the module keeps how many entries it has
(`index`), how many bytes they cover (`listed`), the word it begins at (`sgoff`,
from the opcode) and how far the packet has been written (`reach`): that is all
`prepare`, `complete` and the properties look at. `prepare` writes an empty entry
behind the list whether there is room or not (EscaladeCommand.cpp:337). Behind a
full list of a read or write its second word is one past the packet of 512 bytes,
which is what `TypeOK` allows and no more; what lies there is not modelled.
The packet of a user client is copied from the user as it is
(EscaladeUserClient.cpp:175): `doCommand` lets its size byte, its block count and
its opcode, and so the place of its list, be anything. Its list may lie over
`block_count` (`overHeader`) or reach past the packet, and without a list or a
buffer `prepare` leaves the packet alone (`prepareNoList`). So `ListCovers` claims
`size` and `block_count` for reads and writes only. `outputEscaladeSegment` is the function of
that name, `flag` and `room` the tests of the memory cursor. `isSegment` says
which segments may come (external: block storage clients keep to what the drive
reports, other buffers are page-wise contiguous). `size` is a byte and
`block_count` two, so both are taken modulo. `invokeCompletion` is its own step,
because `complete` returns the command first and reads `byteCount` after:
`makeReadWrite`, which runs outside the gate, may come in between, `prepare` may
not (`GateFree`).

### BootFirmware and the code

The driver is one thread, and `pc` says which of its loops it spins in: for the
controller to come out of reset, for a response, or in the packages that `open`
opens next. `post` makes the command in the one command buffer, clears the status
byte and posts the buffer's address under tag 17; the controller's queue holds
only that, which is why `fetch` takes the contents of the buffer as they are
*then* (an entry with op "none" is one not fetched yet). `answered` takes a
response off the queue and looks at the tag and the status byte; `timedOut` is
`wait-for-unstatus` after 30 seconds. `finish` is what the word that was waiting
does next. `live` marks the contents of requests that are not over, so that a
late transfer shows: it puts -1 into `memory`, the block count for "something
else". `param` stands for the parameter buffer, which is cleared before each
question.

The mappings are what `open` stores in the package's values, numbered by open, so
that a second instance takes over the values and `close` of the first unmaps the
second's. `shared` is the history variable for that, `late` the one for a wait
that was given up. `BlockDevice` has neither; it has `trusted`, which the driver
loses with its first lost wait.

## Runs

| Run | Shows | Result |
|---|---|---|
| `command_safety` | seven invariants, `ParkedUntouched` and the refinement of `CommandService` over two reads or writes (symmetric), a flush and a parameter read, sharing one I/O command and one admin command, with two resets that succeed or get stuck, all statuses, one AEN poll (3.1 million states) | holds |
| `command_live` | every read and write is answered, sleepers wake, resets end; without a reset every call is answered and the support thread returns | holds |
| `timeout_terminated` | a timed-out command is posted again right after it is terminated | violated |
| `emergency_lost` | a reset that did not use the emergency command loses it | violated |
| `submit_failure` | a read that cannot be submitted is returned and answered twice | violated |
| `aen_delivery` | six properties over four AENs in a ring of three slots, one failing poll, a sleep | holds |
| `power_transitions` | four invariants, the refinement of `PowerSwitch` and the waking of I/O threads, over two I/O threads, two standby requests, a sleep without power, a reset or failure | holds |
| `request_dropped` | a request for ACTIVE is cleared by the ST_DO_IDLED of the spin-down | violated |
| `logical_units` | four properties over two units that come and go, the scans of start and of the support thread and a user client, which may also name a unit behind the array, memory for two nubs (symmetric), until the controller is stopped (6.4 million states) | holds |
| `command_buffers` | references and data over a read or write, parameters, a user client's transfer and resets | holds |
| `scatter_gather` | three properties over buffers of every length, aligned or not, cut in every way, through lists of three entries, and user clients' packets of any kind | holds |
| `boot_firmware` | the refinement of `BlockDevice`, the mappings, and the return of every call, over two opens, two units, two addresses and a controller that answers, fails, answers late or never (1.5 million states) | holds |

### Bounds, and why they are enough

`command_safety`: one command per pool makes every caller compete, and two reads
over one command make reuse after `complete` happen; two resets let a reset meet
what the previous one left (the emergency command, the pool). The theorems hold
for every number of all of these. `MaxTicks` is 0 there because a timeout that
meets a reset breaks these invariants at once, which is the finding of
`timeout_terminated`; `command_live` has timer expiries. `ResetOutcomes` leaves
out `errors` there: when `checkControllerErrors` fails, initController gives up
with interrupts on and old responses in the queue, and `HardwareMatches` does
not hold until a later reset.
`aen_delivery`: a ring of three holds two, and four AENs overflow it twice and
wrap both indices. Three codes are the three classes the code tells apart.
`power_transitions`: two threads let one fall asleep while another completes; two
standby requests are the fewest with which a transition can meet a left-over one.

`logical_units`: two units let two calls run at the same time without overlap,
and two nubs let a unit be removed and added again and memory run out; with one
unit and three nubs the same properties hold. One number out of range, that of
the word just behind the array, is enough to leave it; what the call does there
does not depend on which word it is. States that differ only in the names of nubs
(`NubSymmetry`), or in whether calls overlapped or came too early or too late
(`HistoryView`: the two only ever count together, in `calm`), are taken for one. The scan of `start`, the support
thread and one user client are the three callers that can meet. Nothing in the
theorems depends on these numbers.

`scatter_gather`: an alignment and a sector of two bytes, lists of three entries,
a page of four bytes, copies of up to four sectors and transfers of up to five
make every case of the cursor happen: a misaligned first, middle and last
segment, a list that is full, a buffer that is too large to be copied. A packet of
ten words has, like the driver's of 128, one word to spare behind a full list at
word 3. `UserSizes` has a size the firmware expects of a read, one of a parameter
read, and one that wraps; `UserOffsets` no list, a list over the header, the usual
place and the last one. The driver's own numbers satisfy the
same assumption, `SGAssumption`, from which the theorems follow.

`boot_firmware`: two opens let instances share the mappings, and one unanswered
command at the begin of a call (`MaxLate`) is enough for a late answer to meet
the next call; `Word` is 2, so that a transfer of one block is all a command can carry.

`command_buffers`: one command for reads and writes, one for the user client and
two admin commands, of which a reset keeps one, share one client's buffer and
three of the driver's: with a copy and a parameter in use there is one to leak.
`DriverBuffers` bounds the leaks. One read or write is refused; a second only
repeats the excepted case. Deadlock is off, for memory runs out.

Deadlock is checked in `aen_delivery` and `scatter_gather`. It is not in the `CommandPath` runs, where
requests are finite and a lost emergency command leaves `getParam` callers
blocked in `getCommand` for good (`emergency_lost`), nor in the
`PowerManagement` runs, where I/O threads may all sleep for a power-up that was
dropped (`request_dropped`), nor in those of `LogicalUnits`, where the machine
stops when it panics, and `BootFirmware`, where it stops when it faults.

### Fairness

Weak fairness only, of threads that can run, of a controller that answers a
command it has been given, and of interrupts (`CommandPath`, `AENDelivery`): the
scheduler and the hardware see to these. Nothing forces AENs, timer expiries,
resets, or a reader of AENs. `command_live` has one command of each kind in
contention by one request of each kind, so weak fairness of a getter suffices.
`PowerManagement` adds that a command the controller lost is found by the timer
(EscaladeController.cpp:518-534 reschedules itself) and that the power manager
raises power when it can after a tickle. `BootFirmware` has fairness of the
driver's own loops only: they count down, so each ends, and nothing makes the
controller answer or come out of reset.

## Findings

1. `resetController` "terminates" a timed-out command and posts it again: there
   is no `continue` after `ec->complete()` (EscaladeController.cpp:718-722).
2. `emergencyCommand = NULL` is unconditional (701), so a reset whose own command
   came from the pool forgets the emergency command; with one regular admin
   command the admin pool is then empty for good.
3. When a read cannot be submitted, `complete(false)` returns the command and
   calls back, and `doAsyncReadWrite` returns it again and reports an error.
4. `ST_DO_IDLED` clears a request for ACTIVE that arrived with it
   (EscaladeSupportThread.cpp:160), and setPowerStandby's own spin-down command
   causes such an `ST_DO_IDLED` just before each acknowledgement.

Behaviours the models contain, that no run checks for:

- `releaseParamBuffer` leaks a parameter buffer at each use, against the comment
  at EscaladeCommand.cpp:191-193 (`lost` in `RefsAccounted`).
- `findLogicalUnits` takes the branch "existing unit has gone offline" for every
  unit that exists (EscaladeController.cpp:773): each rescan after the first
  terminates all online units, and the one after that adds them again.
- A reset takes an admin command from the pool without `_wasGotten` and returns
  it (EscaladeController.cpp:695-700). `returnCommand` leaves its pointers set
  (EscaladeCommand.cpp:154), so if the command's last use was a parameter read
  that failed, a freed buffer is released again (`stale` in `CommandBuffers`).
- A user client that calls between `registerService` and `createCommands`, or
  while the controller is terminated, uses pools that are not there; `stop` does
  not wait for the support thread (`unready` in `LogicalUnits`).
- A user client's unit number is not checked: `doAddUnit` and `doRemoveUnit` read
  a word outside `logicalUnit[]` as a nub, or write a nub there (`strayed` in
  `LogicalUnits`).
- The terminator `prepare` writes behind a full list of 62 entries ends one word
  past the 512-byte packet (EscaladeCommand.cpp:337; `reach` in `ScatterGather`).
- A user client's packet is taken as it is: its size byte wraps, its list may lie
  over `block_count` or run past the packet.
- A response to a command the boot driver has given up is taken for that of the
  next, as all have tag 17; the late command may read the next one's contents
  (`late` in `BootFirmware`).
- Two open instances of the boot driver share their mappings, and a failed open
  leaves what it mapped; the buffers of `dma-alloc` are never given back to
  `dma-free`, only unmapped.
- `doSynchronizeCache` reports success for a flush the controller failed
  (EscaladeController.cpp:1024); `IsCommandService` therefore asks for an answer
  to a flush and not for a true one (`Checked`).
- `checkPowerState` is consulted before the blocking `getCommand`, and nothing
  looks at `suspending` when a command is posted, so I/O can reach stopped
  drives, against the comment at EscaladeControllerPM.cpp:200.

Without the condition `calm`, `NoPanic` does not hold: when a user client
removes a unit that a scan is adding, the scan uses the NULL it finds in the
array. This, and the behaviours above, are listed as hazards and not as findings
where no comment, document or test says otherwise.

## Proofs

All theorems are for every value of the constants that satisfies the named
assumptions of the modules.

**CommandPath.** `TypeCorrect` needs, besides `TypeOK`, that a client past
`getCommand` holds a command and that emergency and own commands are admin
commands (`TypeInv`). `CommandPath_safety` proves the rest from one invariant,
`SafeInv`, whose parts say: what each stage implies about its client's command
(`Stages`); a held command is in flight just while its holder sleeps on it
(`Holders`); the emergency command is out of every queue and hand except while
the reset is connecting (`Spare`); each read or write in flight is carried by one
command nobody waits for, and every other caller still waits for its answer
(`Carried`); the controller works on active commands, on all of them when it can
interrupt (`Matched`); and a success is the answer to the request it is reported
to (`Truthful`). Taken one by one the parts are not inductive: that `_dequeueActive`
finds its command on the active list needs `Matched`, which needs `Holders` for
the resubmission, which needs `Spare`.

The code breaks `SafeInv` in one way: an operation on a queue the command is not
on, after which nothing is known of the chains. `corrupt` records that and stays
set, so what is inductive, with no assumption at all, is `SafeWhileSound`: the
types, and `SafeInv` while `ChainsSound`. Two theorems close the circle.
`OnlyTheseCorrupt` says which steps can set `corrupt`: a submission refused by a
full queue or by `prepare`, or the resubmission of a command that has timed out
(findings 3 and 1); `ChainsStaySound` is what follows when neither happens ("if
we can get a command there is room"). All other results are conditional on
`ChainsSound` only. One hypothesis is left where they speak of the controller
(`HardwareMatches`, `NoFalseSuccess`, `IsCommandService`, and the two theorems
above): `Sane`, a controller that leaves reset has no errors pending. With
`errors` initController gives up with old responses in the queue, and these do
not hold; everything else does not need it.

`PathServes` maps the path to `CommandService`. The steps that hand out a command,
report success or failure, and let the controller work are `Accept`, `Answer` and
`CarryOut`; everything else, the whole of a reset included, is a stutter. That a
response carries out a request that is *open* is `Carried` and `Holders` (the
command is in flight, so its caller has no answer yet); that `complete` answers
only once is `answers = 0` in `Carried`; that success was earned is `Truthful`.

Two theorems say what is left of `NoCommandLost` (finding 2). `Kept`: an I/O or
user command that is on no queue is held by the caller that will return it, so
only admin commands can be lost. `ResetSupplied`: the support thread, which could
never be woken if it blocked in `getCommand` during a reset, finds an admin
command each time, however many were lost before. `HeldByReset`, with no
hypothesis: an I/O thread that waits for the end of a reset is never found without
one, although it looks at `resetting` only once.

**AENDelivery.** `TypeOK`, `RescanNotLost` and `PowerClamped` are inductive
together with `Polling` (the support thread polls only with its `aen` bit set),
from which `NoAENForgotten` follows. `RingImplementsQueue` maps the ring to the
queue: `getAEN` is `Get`, `addAEN` is `Add` with the overflow case when advancing
the head meets the tail; the arithmetic rests on one lemma about an index
stepping modulo the ring size.

**PowerManagement.** The inductive invariant has six parts. `OneRequest` says
that while the power manager waits, its one request is in exactly one place: the
inbox, the work bits, deferred in `desiredPowerState`, or under way in the
support thread. `Stages` says what each stage of a transition implies for the
command the support thread has active and for the other variables. `Deferral`
adds to `DeferralNoticed` that a deferral exists only while suspending. With
`TypeOK`, `PMBelief` (the power manager knows the controller's state when it has no
request open) and `Spinning` (`ActiveIsSpinning` while a transition is under way)
they give the invariants of `power_transitions`. `OneTransition` follows from
`OneRequest`, and `PMBelief` needs it: the transition that answers has to be the
one that was asked for. `ControllerIsSwitch` is the refinement of `PowerSwitch`,
as long as the power manager waits: a transition completes as `Answer` because
`OneRequest` makes it that of the open request and `Spinning` that the drives run;
drives stop only as `StopDrives` because `setPowerStandby` is under way then, for
which a request is open (a reset, a re-initialisation and a user client's reset
may start them at any time and never stop them). Two theorems say what can be
said, without liveness, about `PowerRestored` and finding 4: `OnlyIdledDrops`, an
open request is somewhere unless an `ST_DO_IDLED` has cleared it, and
`SleepersHaveWakers`, an I/O thread asleep for power has a power manager that can
ask for it or a request on its way, but for the cases `PowerRestored` excepts.

**LogicalUnits.** The safety properties hold for histories that are `calm`, and
so does the strengthening: `Inv` is, for every history, `TypeOK` and which units
the calls under way may be for (`UnitsOK`), and, while `calm`, facts about the
array (a place in it holds a nub of that unit, no nub is put outside it: `InArray`,
`Apart`) and facts that tie each caller's place in `doAddUnit` and `doRemoveUnit`
to the state of the nub it will find (`Attaching` to `Clearing`:
between `new` and `release` it is the caller's nub, owned and still in the array).
That is what a reader has to believe when the code reads `logicalUnit[unit]` again
after each call that blocks, and it is not inductive without `~overlapped`: the
second call for the unit is the step that breaks it.

**ScatterGather.** The invariant follows the cursor (`Listing`): while it runs
and the flag is not set, the entries cover just what is done; a full list of a
drive's own buffer has covered all of it; and a copy, cut in pages, has covered a
page with each entry but the last. `TypeOK` bounds `reach` by the end of the entry
behind the last, so only the terminator of a full list can pass the packet; the
proof needs that a drive's list begins at word 3. The step to the posted list is arithmetic: a
copy of whole sectors fits the list (from `SGAssumption`), and neither `size` nor
`block_count` wraps. `Reported` says that `byteCount` is still that of the
request about to be reported.

**BootFirmware.** `NoFault` needs that while no two instances were open, an open
that is under way has no other instance (`Instances`, `Unshared`).
`BootDiskImplements` needs `Alone`: until a wait was given up, the controller has
nothing before its reset but what it was left, and afterwards exactly one of the
driver's command not fetched, the command fetched, or its response; and
`Truthful`: with a response and a status of zero, memory has the blocks asked for
and the parameter buffer the answer. Each step is then a step of `BlockDevice`
(`carryOut` is `Deliver`, `answered` is `Answer`, `openPackages` is `Open`) or a
stutter; a step after a lost wait is one of a device that is not trusted.

**CommandBuffers.** `RefsAccounted` counts a set, so the invariant says what the
count is without one: a command in use points to memory in one of four ways
(`Shape`: in place, through a copy, to a parameter buffer, to nothing), no two
commands in use point to one buffer (`Disjoint`), and a buffer has its own
reference plus two from the command that points to it, or one if it is its copy
(`Counted`). A lemma for each helper of `EscaladeCommand.cpp` says what it does
to a memory of one of these shapes; `CompleteStep` puts them together for every
way a command completes. `Counted` is conditional on `tidy`, as the property is: a
read or write that was refused breaks it (the second return of finding 3) and so
does a reset that returns left-over pointers, but neither breaks the types, the
shapes or that commands in use share no buffer.

Only model-checked: everything temporal under fairness (`AsyncAnswered`,
`SleeperWakes`, `ResetEnds`, `AllAnswered`, `AENsFetched`, `PowerRestored`,
`CallsReturn`), and the violations: liveness is out of the prover's reach.

## Not modelled

Packaging, register layouts, debug output and registry properties carry no
control. The power-off and restart messages of `powerDownHandler` end the
system. In `AENDelivery` the poll that `initController` requests after a reset is
left out, and so is the attention interrupt that `resetController` clears
(EscaladeController.cpp:565). If initController then succeeds, the poll (608)
fetches the AEN whose interrupt was lost; if it fails in between, nothing does
before the next interrupt or reset, and `NoAENForgotten` and `AENsFetched` speak
only of behaviours without a reset. In `CommandPath`
`initConnection` does not mark the drives as powered (`setDrivePower(true)`,
EscaladeController.cpp:593), which is the business of `PowerManagement`, and
`complete` runs in the gate, as all its callers have it, although the comment at
EscaladeCommand.cpp:348 allows for a call outside (`GateFree` in `ScatterGather`). In `PowerManagement` commands have no pools (one
admin command is always there for the support thread; `CommandPath` has the case
in which it is not), and the commands of `initController` are one; the shutdown path of
`powerDownHandler` is one step. `BootFirmware` allocates both DMA buffers in one
step, so that one of them is never there without the other.

What `start` allocates before anybody can see the controller is left out, and
what `shutdownController` writes to registers. In `BootFirmware` words that only
print, `write-blocks` (which writes nothing) and calls refused before they touch
the controller are left out; the FCode flasher writes one image from the prompt
and keeps no state.

## Plan

What could be added, in order:

1. Proofs: an abstract specification of the logical units (a unit is attached,
   used and detached as its user sees it) with `LogicalUnits` as its refinement,
   and what a caller sees in histories that are not `calm`.
2. `CommandBuffers` with the queues of `CommandPath`, so that what `refused` and
   `stale` name is a history of one module.
