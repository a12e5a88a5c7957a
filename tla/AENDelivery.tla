---------------------------- MODULE AENDelivery ----------------------------
(***************************************************************************)
(* Asynchronous event notifications on their way from the controller to    *)
(* the user client: the attention interrupt, the support thread that polls *)
(* the controller until its queue is empty, the ring buffer the driver     *)
(* keeps, and what some AENs start: a rescan of the units, and the count   *)
(* of those who need full power, which the user client and the power-down  *)
(* handler change as well.                                                 *)
(*                                                                         *)
(* addAEN, getAEN and changeFullPowerConsumer hold the gate and are one    *)
(* step each; the poll is two, the controller's answer and what the        *)
(* support thread does with it.                                            *)
(***************************************************************************)
EXTENDS Integers, Sequences

CONSTANTS
  TWE_MAX_AEN_BUFFER,
  Codes,               \* the AENs of the controller
  Started, Ended,      \* those that report background activity
  UnitChange,          \* those after which the units are scanned again
  TWE_AEN_QUEUE_EMPTY,
  Failed,              \* the poll itself failed
  MaxAENs,             \* bound: AENs the controller raises
  MaxFailures,         \* bound: polls that fail
  MaxSleeps            \* bound: times the system sleeps

ASSUME AENAssumption ==
  /\ TWE_MAX_AEN_BUFFER \in Nat /\ TWE_MAX_AEN_BUFFER > 1
  /\ Started \subseteq Codes /\ Ended \subseteq Codes /\ UnitChange \subseteq Codes
  /\ Started \intersect Ended = {}
  /\ TWE_AEN_QUEUE_EMPTY \notin Codes /\ Failed \notin Codes
  /\ TWE_AEN_QUEUE_EMPTY /= Failed
  /\ MaxAENs \in Nat /\ MaxFailures \in Nat /\ MaxSleeps \in Nat

VARIABLES
  controller,           \* the controller's own queue of AENs
  attention,            \* the attention interrupt is pending
  inbox,                \* supportThreadInbox
  workBits,             \* the support thread's local copy
  stage,                \* what the support thread does
  answer,               \* what the last poll returned
  aenBuffer, aenBufHead, aenBufTail,
  aenCode,              \* what the last getAEN returned
  fullPowerConsumers,
  clamped,              \* the last changePowerStateTo asked for full power
  open,                 \* a user client has opened the controller
  stale,                \* history: the units changed since the last scan
  raised, failures, sleeps    \* bounded environment

ring   == <<aenBuffer, aenBufHead, aenBufTail, aenCode>>
power  == <<fullPowerConsumers, clamped>>
thread == <<inbox, workBits, stage, answer>>
budget == <<raised, failures, sleeps>>
vars == <<controller, attention, thread, ring, power, open, stale, budget>>

Slots == 0 .. TWE_MAX_AEN_BUFFER - 1
WorkBits == {"aen", "rescan"}

Init ==
  /\ controller = <<>> /\ attention = FALSE
  /\ inbox = {} /\ workBits = {} /\ stage = "getWork" /\ answer = TWE_AEN_QUEUE_EMPTY
  /\ aenBuffer \in [Slots -> {TWE_AEN_QUEUE_EMPTY}]
  /\ aenBufHead = 0 /\ aenBufTail = 0 /\ aenCode = TWE_AEN_QUEUE_EMPTY
  /\ fullPowerConsumers = 0 /\ clamped = FALSE /\ open = FALSE /\ stale = FALSE
  /\ raised = 0 /\ failures = 0 /\ sleeps = 0
-----------------------------------------------------------------------------
(* The controller raises AENs, the interrupt handler passes the word on.   *)

raise(aen) ==
  /\ raised < MaxAENs /\ raised' = raised + 1
  /\ controller' = Append(controller, aen)
  /\ attention' = TRUE
  /\ UNCHANGED <<thread, ring, power, open, stale, failures, sleeps>>

handleAttention ==
  /\ attention
  /\ attention' = FALSE
  /\ inbox' = inbox \union {"aen"}
  /\ UNCHANGED <<controller, workBits, stage, answer, ring, power, open, stale, budget>>
-----------------------------------------------------------------------------
(* The support thread.  A pass over the work bits looks at aen, then at    *)
(* rescan; the thread waits for work when no bit is left.                  *)

AfterAEN(bits) == IF "rescan" \in bits THEN "rescan"
                  ELSE IF "aen" \in bits THEN "poll" ELSE "getWork"
NextPass(bits) == IF "aen" \in bits THEN "poll" ELSE AfterAEN(bits)

\* The bits the thread takes from its inbox; a variant without the rescan.
maskWithoutRescan == {"aen"}
ST_WORK_MASK == WorkBits

supportThreadGetWork ==
  /\ stage = "getWork" /\ inbox /= {}
  /\ workBits' = inbox \intersect ST_WORK_MASK
  /\ inbox' = {}
  /\ stage' = NextPass(workBits')
  /\ UNCHANGED <<controller, attention, answer, ring, power, open, stale, budget>>

\* getParam(TWE_PARAM_AEN): the controller hands over its oldest AEN.  A poll
\* that fails may have cost that AEN.
poll ==
  /\ stage = "poll" /\ stage' = "answered"
  /\ \/ /\ controller /= <<>>
        /\ answer' = Head(controller) /\ controller' = Tail(controller)
        /\ UNCHANGED failures
     \/ /\ controller = <<>>
        /\ answer' = TWE_AEN_QUEUE_EMPTY /\ UNCHANGED <<controller, failures>>
     \/ /\ failures < MaxFailures /\ failures' = failures + 1
        /\ answer' = Failed
        /\ controller' = controller \/ (controller /= <<>> /\ controller' = Tail(controller))
  /\ UNCHANGED <<attention, inbox, workBits, ring, power, open, stale, raised, sleeps>>

\* An error or an empty queue ends the polling.
polled ==
  /\ stage = "answered" /\ answer \in {TWE_AEN_QUEUE_EMPTY, Failed}
  /\ workBits' = workBits \ {"aen"}
  /\ stage' = AfterAEN(workBits')
  /\ UNCHANGED <<controller, attention, inbox, answer, ring, power, open, stale, budget>>
-----------------------------------------------------------------------------
(* Clamping power on while background operations are in progress.          *)

\* A variant of changeFullPowerConsumer that lets go with the first removal.
clampEagerly(delta) ==
  /\ fullPowerConsumers' = IF delta = -1 /\ fullPowerConsumers < 1 THEN fullPowerConsumers
                           ELSE fullPowerConsumers + delta
  /\ clamped' = (delta = 1)

changeFullPowerConsumer(delta) ==
  /\ fullPowerConsumers' = IF delta = -1 /\ fullPowerConsumers < 1 THEN fullPowerConsumers
                           ELSE fullPowerConsumers + delta
  /\ clamped' = IF delta = 1 /\ fullPowerConsumers = 0 THEN TRUE
                ELSE IF delta = -1 /\ fullPowerConsumers = 1 THEN FALSE ELSE clamped

\* EscaladeUserClient::open and close.
userClientOpen ==
  /\ ~open /\ open' = TRUE
  /\ changeFullPowerConsumer(1)
  /\ UNCHANGED <<controller, attention, thread, ring, stale, budget>>

userClientClose ==
  /\ open /\ open' = FALSE
  /\ changeFullPowerConsumer(-1)
  /\ UNCHANGED <<controller, attention, thread, ring, stale, budget>>

\* powerDownHandler, kIOMessageSystemWillSleep: one removal at a time, each
\* in the gate, until none is left.
powerDownHandler ==
  /\ sleeps < MaxSleeps /\ fullPowerConsumers > 0
  /\ changeFullPowerConsumer(-1)
  /\ sleeps' = IF fullPowerConsumers = 1 THEN sleeps + 1 ELSE sleeps
  /\ UNCHANGED <<controller, attention, thread, ring, open, stale, raised, failures>>
-----------------------------------------------------------------------------
(* The ring buffer. *)

advanceUnwrapped(i) == i + 1       \* variant: without the modulus
advance(i) == (i + 1) % TWE_MAX_AEN_BUFFER

\* "policy dictates we drop old AENs"; a variant that keeps them.
tailKept == aenBufTail
tailAfterAdd == IF advance(aenBufHead) = aenBufTail THEN advance(aenBufTail) ELSE aenBufTail

\* The bits after an AEN was added: aen stays, "we will run again".  A
\* variant that fetches one AEN per interrupt.
pollOnce == workBits \ {"aen"}
pollAgain == workBits

addAEN ==
  /\ stage = "answered" /\ answer \in Codes
  /\ aenBufTail' = tailAfterAdd
  /\ aenBuffer' = [aenBuffer EXCEPT ![aenBufHead] = answer]
  /\ aenBufHead' = advance(aenBufHead)
  /\ IF answer \in Started THEN changeFullPowerConsumer(1)
     ELSE IF answer \in Ended THEN changeFullPowerConsumer(-1) ELSE UNCHANGED power
  /\ inbox' = IF answer \in UnitChange THEN inbox \union {"rescan"} ELSE inbox
  /\ stale' = (stale \/ answer \in UnitChange)
  /\ workBits' = pollAgain
  /\ stage' = AfterAEN(workBits')
  /\ UNCHANGED <<controller, attention, answer, aenCode, open, budget>>

getAEN ==
  /\ IF aenBufHead = aenBufTail
       THEN aenCode' = TWE_AEN_QUEUE_EMPTY /\ UNCHANGED aenBufTail
       ELSE aenCode' = aenBuffer[aenBufTail] /\ aenBufTail' = advance(aenBufTail)
  /\ UNCHANGED <<controller, attention, thread, aenBuffer, aenBufHead, power, open, stale,
                 budget>>

\* The unit rescan (findLogicalUnits).
rescan ==
  /\ stage = "rescan"
  /\ workBits' = workBits \ {"rescan"}
  /\ stage' = NextPass(workBits')
  /\ stale' = ("rescan" \in inbox)
  /\ UNCHANGED <<controller, attention, inbox, answer, ring, power, open, budget>>
-----------------------------------------------------------------------------
SupportStep == supportThreadGetWork \/ poll \/ polled \/ addAEN \/ rescan

Next == \/ \E aen \in Codes : raise(aen)
        \/ handleAttention \/ SupportStep \/ getAEN
        \/ userClientOpen \/ userClientClose \/ powerDownHandler

Spec == Init /\ [][Next]_vars

\* Interrupts are delivered and the support thread runs; nobody has to read.
FairSpec == Spec /\ WF_vars(handleAttention) /\ WF_vars(SupportStep)
-----------------------------------------------------------------------------
TypeOK ==
  /\ controller \in Seq(Codes) /\ attention \in BOOLEAN
  /\ inbox \subseteq WorkBits /\ workBits \subseteq WorkBits
  /\ stage \in {"getWork", "poll", "answered", "rescan"}
  /\ answer \in Codes \union {TWE_AEN_QUEUE_EMPTY, Failed}
  /\ aenBuffer \in [Slots -> Codes \union {TWE_AEN_QUEUE_EMPTY}]
  /\ aenBufHead \in Slots /\ aenBufTail \in Slots
  /\ aenCode \in Codes \union {TWE_AEN_QUEUE_EMPTY}
  /\ fullPowerConsumers \in Nat /\ clamped \in BOOLEAN
  /\ open \in BOOLEAN /\ stale \in BOOLEAN
  /\ raised \in Nat /\ failures \in Nat /\ sleeps \in Nat

\* The AENs in the ring, oldest first.
count == IF aenBufHead >= aenBufTail THEN aenBufHead - aenBufTail
         ELSE aenBufHead - aenBufTail + TWE_MAX_AEN_BUFFER
buffered == [i \in 1 .. count |-> aenBuffer[(aenBufTail + i - 1) % TWE_MAX_AEN_BUFFER]]

Queue == INSTANCE AENQueue WITH queue <- buffered, fetched <- aenCode,
           Empty <- TWE_AEN_QUEUE_EMPTY, Capacity <- TWE_MAX_AEN_BUFFER - 1

\* The ring of addAEN and getAEN is the queue the user client is promised:
\* in order, bounded, giving up the oldest, each AEN handed out once.
RingIsQueue == Queue!Spec

\* An AEN the controller keeps will be fetched: an interrupt is pending or
\* the polling goes on, unless the last poll failed ("stop polling for now").
NoAENForgotten ==
  controller /= <<>> =>
    attention \/ "aen" \in inbox \union workBits \/ answer = Failed

\* A unit change the support thread has learned of is followed by a scan
\* that starts afterwards (supportThreadAddWork(ST_DO_RESCAN), WB_CLEAR).
RescanNotLost == stale => "rescan" \in inbox \union workBits

\* Power is clamped on exactly while somebody is counted as needing it.
PowerClamped == clamped <=> fullPowerConsumers > 0

\* Every AEN leaves the controller, unless a poll fails.
AENsFetched == controller /= <<>> ~> (controller = <<>> \/ answer = Failed)
=============================================================================
