------------------------- MODULE AENDelivery_proofs -------------------------
(* The ring buffer is a bounded queue, and no event is forgotten, whatever *)
(* the size of the ring and the number of events.                          *)
EXTENDS AENDelivery, TLAPS

N == TWE_MAX_AEN_BUFFER

-----------------------------------------------------------------------------
(* Arithmetic of the ring. *)

LEMMA Wrap == \A k \in 0 .. 2 * N - 1 : k % N = IF k < N THEN k ELSE k - N
  BY AENAssumption, SMT DEF N

LEMMA Advance ==
  ASSUME NEW i \in Slots
  PROVE  advance(i) = IF i = N - 1 THEN 0 ELSE i + 1
  BY AENAssumption, Wrap DEF N, Slots, advance

LEMMA AdvanceInside ==
  ASSUME NEW i \in Slots
  PROVE  advance(i) \in Slots
  BY AENAssumption, Advance DEF N, Slots
-----------------------------------------------------------------------------
(* The support thread's stage agrees with its work bits, and an AEN left    *)
(* in the controller is on somebody's mind; an answer that says the queue   *)
(* is empty is out of date only if a new interrupt is on its way.           *)
Polling ==
  /\ stage \in {"poll", "answered"} => "aen" \in workBits
  /\ stage = "rescan" => "rescan" \in workBits
  /\ stage = "getWork" => workBits = {}
  /\ controller /= <<>> =>
       \/ attention \/ "aen" \in inbox \/ answer = Failed
       \/ "aen" \in workBits /\ ~(stage = "answered" /\ answer = TWE_AEN_QUEUE_EMPTY)

Inv == TypeOK /\ Polling /\ RescanNotLost /\ PowerClamped

LEMMA InitInv == Init => Inv
<1> SUFFICES ASSUME Init PROVE Inv
  OBVIOUS
<1>1. TypeOK
  BY AENAssumption DEF Init, TypeOK, Slots
<1>2. Polling /\ RescanNotLost
  BY DEF Init, Polling, RescanNotLost
<1>3. PowerClamped
  BY DEF Init, PowerClamped
<1>4. QED
  BY <1>1, <1>2, <1>3 DEF Inv

LEMMA ConsumerStep ==
  ASSUME NEW delta \in {1, -1}, fullPowerConsumers \in Nat, clamped \in BOOLEAN,
         PowerClamped, changeFullPowerConsumer(delta)
  PROVE  fullPowerConsumers' \in Nat /\ clamped' \in BOOLEAN /\ PowerClamped'
<1>1. fullPowerConsumers' \in Nat
  BY DEF changeFullPowerConsumer
<1>2. clamped' \in BOOLEAN
  BY DEF changeFullPowerConsumer
<1>3. CASE fullPowerConsumers = 0 /\ delta = -1
  <2>1. fullPowerConsumers' = 0 /\ clamped' = clamped
    BY <1>3 DEF changeFullPowerConsumer
  <2>2. QED
    BY <1>1, <1>2, <1>3, <2>1 DEF PowerClamped
<1>4. CASE fullPowerConsumers = 1 /\ delta = -1
  <2>1. fullPowerConsumers' = 0 /\ ~clamped'
    BY <1>4 DEF changeFullPowerConsumer
  <2>2. QED
    BY <1>1, <1>2, <2>1 DEF PowerClamped
<1>5. CASE fullPowerConsumers > 1 /\ delta = -1
  <2>1. fullPowerConsumers' > 0
    BY <1>5 DEF changeFullPowerConsumer
  <2>2. clamped'
    BY <1>5 DEF changeFullPowerConsumer, PowerClamped
  <2>3. QED
    BY <1>1, <1>2, <2>1, <2>2 DEF PowerClamped
<1>6. CASE delta = 1
  <2>1. fullPowerConsumers' > 0 /\ clamped'
    BY <1>6 DEF changeFullPowerConsumer, PowerClamped
  <2>2. QED
    BY <1>1, <1>2, <2>1 DEF PowerClamped
<1>7. QED
  BY <1>3, <1>4, <1>5, <1>6

LEMMA TypeStep == Inv /\ [Next]_vars => TypeOK'
<1> SUFFICES ASSUME Inv, [Next]_vars PROVE TypeOK'
  OBVIOUS
<1> USE AENAssumption DEF Inv, TypeOK, WorkBits
<1>1. ASSUME NEW aen \in Codes, raise(aen) PROVE TypeOK'
  BY <1>1 DEF raise, thread, ring, power
<1>2. CASE handleAttention
  BY <1>2 DEF handleAttention, ring, power, budget
<1>3. CASE supportThreadGetWork
  BY <1>3 DEF supportThreadGetWork, ST_WORK_MASK, NextPass, AfterAEN, ring, power, budget
<1>4. CASE poll
  BY <1>4 DEF poll, ring, power
<1>5. CASE polled
  BY <1>5 DEF polled, AfterAEN, ring, power, budget
<1>6. CASE addAEN
  <2>1. fullPowerConsumers' \in Nat /\ clamped' \in BOOLEAN
    BY <1>6, ConsumerStep DEF addAEN, power
  <2>2. aenBufHead' \in Slots /\ aenBufTail' \in Slots
    BY <1>6, AdvanceInside DEF addAEN, tailAfterAdd
  <2>3. QED
    BY <1>6, <2>1, <2>2 DEF addAEN, pollAgain, AfterAEN, budget
<1>7. CASE rescan
  BY <1>7 DEF rescan, NextPass, AfterAEN, ring, power, budget
<1>8. CASE getAEN
  BY <1>8, AdvanceInside DEF getAEN, thread, power, budget
<1>9. CASE userClientOpen \/ userClientClose
  BY <1>9, ConsumerStep DEF userClientOpen, userClientClose, thread, ring, budget
<1>10. CASE powerDownHandler
  BY <1>10, ConsumerStep DEF powerDownHandler, thread, ring
<1>11. CASE UNCHANGED vars
  BY <1>11 DEF vars, thread, ring, power, budget
<1>12. QED
  BY <1>1, <1>2, <1>3, <1>4, <1>5, <1>6, <1>7, <1>8, <1>9, <1>10, <1>11
  DEF Next, SupportStep

LEMMA PollingStep == Inv /\ [Next]_vars => Polling' /\ RescanNotLost'
<1> SUFFICES ASSUME Inv, [Next]_vars PROVE Polling' /\ RescanNotLost'
  OBVIOUS
<1> USE AENAssumption DEF Inv, TypeOK, Polling, RescanNotLost, WorkBits
<1>1. ASSUME NEW aen \in Codes, raise(aen) PROVE Polling' /\ RescanNotLost'
  BY <1>1 DEF raise, thread
<1>2. CASE handleAttention
  BY <1>2 DEF handleAttention
<1>3. CASE supportThreadGetWork
  BY <1>3 DEF supportThreadGetWork, ST_WORK_MASK, NextPass, AfterAEN
<1>4. CASE poll
  BY <1>4 DEF poll
<1>5. CASE polled
  BY <1>5 DEF polled, AfterAEN
<1>6. CASE addAEN
  BY <1>6 DEF addAEN, pollAgain, AfterAEN
<1>7. CASE rescan
  BY <1>7 DEF rescan, NextPass, AfterAEN
<1>8. CASE UNCHANGED <<controller, attention, thread, stale>>
  BY <1>8 DEF thread
<1>9. QED
  BY <1>1, <1>2, <1>3, <1>4, <1>5, <1>6, <1>7, <1>8
  DEF Next, SupportStep, getAEN, userClientOpen, userClientClose, powerDownHandler, vars

LEMMA ClampStep == Inv /\ [Next]_vars => PowerClamped'
<1> SUFFICES ASSUME Inv, [Next]_vars PROVE PowerClamped'
  OBVIOUS
<1> USE DEF Inv, TypeOK
<1>1. CASE addAEN
  <2>1. CASE UNCHANGED power
    BY <2>1 DEF power, PowerClamped
  <2>2. QED
    BY <1>1, <2>1, ConsumerStep DEF addAEN
<1>2. CASE userClientOpen \/ userClientClose \/ powerDownHandler
  BY <1>2, ConsumerStep DEF userClientOpen, userClientClose, powerDownHandler
<1>3. CASE UNCHANGED power
  BY <1>3 DEF power, PowerClamped
<1>4. QED
  BY <1>1, <1>2, <1>3
  DEF Next, SupportStep, raise, handleAttention, supportThreadGetWork, poll, polled,
      rescan, getAEN, vars

LEMMA InvHolds == Spec => []Inv
<1>1. Inv /\ [Next]_vars => Inv'
  BY TypeStep, PollingStep, ClampStep DEF Inv
<1>2. QED
  BY InitInv, <1>1, PTL DEF Spec
-----------------------------------------------------------------------------
(* Every reachable state is well typed: head and tail stay inside the ring *)
(* (addAEN, getAEN).                                                       *)
THEOREM AENTypeCorrect == Spec => []TypeOK
<1>1. Inv => TypeOK
  BY DEF Inv
<1>2. QED
  BY InvHolds, <1>1, PTL

(* An AEN the controller keeps is followed by an interrupt or by polling,  *)
(* unless the last poll failed (handleInterrupt, supportThreadMain).       *)
THEOREM NoneForgotten == Spec => []NoAENForgotten
<1>1. Inv => NoAENForgotten
  BY DEF Inv, Polling, NoAENForgotten
<1>2. QED
  BY InvHolds, <1>1, PTL

(* A unit change is followed by a scan (addAEN, supportThreadMain).        *)
THEOREM RescansHappen == Spec => []RescanNotLost
<1>1. Inv => RescanNotLost
  BY DEF Inv
<1>2. QED
  BY InvHolds, <1>1, PTL

(* Power is clamped on exactly while somebody is counted as needing it     *)
(* (changeFullPowerConsumer, whoever calls it).                            *)
THEOREM ClampFollowsCount == Spec => []PowerClamped
<1>1. Inv => PowerClamped
  BY DEF Inv
<1>2. QED
  BY InvHolds, <1>1, PTL
-----------------------------------------------------------------------------
(* The ring as a queue. *)

\* The i-th AEN of the ring, i counted from the oldest.
Slot(i) == IF aenBufTail + i - 1 < N THEN aenBufTail + i - 1 ELSE aenBufTail + i - 1 - N

LEMMA CountInside == TypeOK => count \in 0 .. N - 1
  BY AENAssumption DEF TypeOK, Slots, count, N

Unrolled == /\ count \in 0 .. N - 1
            /\ buffered = [i \in 1 .. count |-> aenBuffer[Slot(i)]]
            /\ \A i \in 1 .. count : Slot(i) \in Slots

LEMMA BufferedSlots == TypeOK => Unrolled
<1> SUFFICES ASSUME TypeOK PROVE Unrolled
  OBVIOUS
<1>1. ASSUME NEW i \in 1 .. count
      PROVE  /\ (aenBufTail + i - 1) % N = Slot(i)
             /\ Slot(i) \in Slots
  <2>1. N \in Nat /\ count \in 0 .. N - 1 /\ aenBufTail \in 0 .. N - 1
    BY AENAssumption, CountInside DEF TypeOK, Slots, N
  <2>2. aenBufTail + i - 1 \in 0 .. 2 * N - 1
    BY <2>1
  <2>3. (aenBufTail + i - 1) % N =
          IF aenBufTail + i - 1 < N THEN aenBufTail + i - 1 ELSE aenBufTail + i - 1 - N
    BY <2>1, <2>2, Wrap
  <2>4. Slot(i) \in 0 .. N - 1
    BY <2>1, <2>2 DEF Slot
  <2>5. QED
    BY <2>3, <2>4 DEF Slot, Slots, N
<1>2. QED
  BY <1>1, CountInside DEF buffered, N, Unrolled

LEMMA BufferedSeq == TypeOK => /\ buffered \in Seq(Codes \union {TWE_AEN_QUEUE_EMPTY})
                               /\ Len(buffered) = count
  BY BufferedSlots, CountInside DEF TypeOK, Unrolled

\* The same facts after a step.
LEMMA AfterStep == TypeOK' => Unrolled'
  BY BufferedSlots, PTL

LEMMA GetRefines ==
  ASSUME TypeOK, TypeOK', getAEN
  PROVE  Queue!Get
<1>0. /\ N \in Nat /\ N > 1 /\ aenBufTail \in 0 .. N - 1 /\ aenBufHead \in 0 .. N - 1
      /\ aenBuffer' = aenBuffer /\ aenBufHead' = aenBufHead
  BY AENAssumption DEF TypeOK, Slots, N, getAEN
<1>1. CASE aenBufHead = aenBufTail
  <2>1. count = 0 /\ buffered = <<>>
    BY <1>0, <1>1, BufferedSeq DEF count
  <2>2. buffered' = buffered
    BY <1>1 DEF getAEN, buffered, count
  <2>3. QED
    BY <1>1, <2>1, <2>2 DEF Queue!Get, getAEN
<1>2. CASE aenBufHead /= aenBufTail
  <2>0. aenBufTail' = IF aenBufTail = N - 1 THEN 0 ELSE aenBufTail + 1
    BY <1>2, Advance DEF getAEN, TypeOK
  <2>1. count > 0 /\ count' = count - 1
    BY <1>0, <1>2, <2>0 DEF count, N
  <2>2. aenCode' = aenBuffer[Slot(1)]
    BY <1>0, <1>2 DEF getAEN, Slot
  <2>3. ASSUME NEW i \in 1 .. count' PROVE Slot(i)' = Slot(i + 1)
    BY <1>0, <2>0, <2>1, CountInside DEF Slot, N
  <2>4. buffered' = [i \in 1 .. count' |-> aenBuffer'[Slot(i)']]
    BY AfterStep DEF Unrolled
  <2>5. buffered' = [i \in 1 .. count - 1 |-> aenBuffer[Slot(i + 1)]]
    BY <1>0, <2>1, <2>3, <2>4
  <2>6. buffered = [i \in 1 .. count |-> aenBuffer[Slot(i)]]
    BY BufferedSlots DEF Unrolled
  <2>7. buffered /= <<>> /\ Head(buffered) = aenBuffer[Slot(1)]
    BY <2>1, <2>6, BufferedSeq, CountInside
  <2>8. buffered' = Tail(buffered)
    BY <2>1, <2>5, <2>6, BufferedSeq, CountInside
  <2>9. QED
    BY <2>2, <2>7, <2>8 DEF Queue!Get
<1>3. QED
  BY <1>1, <1>2

LEMMA AddRefines ==
  ASSUME TypeOK, TypeOK', addAEN
  PROVE  Queue!Add(answer)
<1> DEFINE full == advance(aenBufHead) = aenBufTail
<1>1. /\ N \in Nat /\ N > 1 /\ aenBufTail \in 0 .. N - 1 /\ aenBufHead \in 0 .. N - 1
      /\ aenBuffer \in [0 .. N - 1 -> Codes \union {TWE_AEN_QUEUE_EMPTY}]
      /\ aenBuffer' = [aenBuffer EXCEPT ![aenBufHead] = answer]
      /\ aenCode' = aenCode
  BY AENAssumption DEF TypeOK, Slots, N, addAEN
<1>2. /\ advance(aenBufHead) = IF aenBufHead = N - 1 THEN 0 ELSE aenBufHead + 1
      /\ advance(aenBufTail) = IF aenBufTail = N - 1 THEN 0 ELSE aenBufTail + 1
  BY Advance DEF TypeOK
<1>3. /\ aenBufHead' = advance(aenBufHead)
      /\ aenBufTail' = IF full THEN advance(aenBufTail) ELSE aenBufTail
  BY DEF addAEN, tailAfterAdd
<1>4. full <=> count = N - 1
  BY <1>1, <1>2 DEF count, N
<1>5. count' = IF full THEN N - 1 ELSE count + 1
  BY <1>1, <1>2, <1>3 DEF count, N
<1>6. ASSUME NEW i \in 1 .. count PROVE Slot(i) /= aenBufHead
  BY <1>1, <1>6, CountInside DEF Slot, count, N
<1>7. ASSUME NEW i \in 1 .. count'
      PROVE  Slot(i)' = IF i = count' THEN aenBufHead ELSE IF full THEN Slot(i + 1) ELSE Slot(i)
  BY <1>1, <1>2, <1>3, <1>4, <1>5, <1>7 DEF Slot, count, N
<1>8. buffered' = [i \in 1 .. count' |-> aenBuffer'[Slot(i)']]
  BY AfterStep DEF Unrolled
<1>9. /\ count \in 0 .. N - 1
      /\ buffered = [i \in 1 .. count |-> aenBuffer[Slot(i)]]
      /\ \A i \in 1 .. count : Slot(i) \in 0 .. N - 1
  BY BufferedSlots DEF Unrolled, Slots, N
<1>10. CASE ~full
  <2>1. ASSUME NEW i \in 1 .. count + 1
        PROVE  aenBuffer'[Slot(i)'] = IF i = count + 1 THEN answer ELSE aenBuffer[Slot(i)]
    BY <1>1, <1>5, <1>6, <1>7, <1>9, <1>10, <2>1
  <2>2. buffered' = [i \in 1 .. count + 1 |-> IF i = count + 1 THEN answer
                                                              ELSE aenBuffer[Slot(i)]]
    BY <1>5, <1>8, <1>10, <2>1
  <2>3. buffered' = Append(buffered, answer)
    BY <1>9, <2>2, BufferedSeq
  <2>4. Len(buffered) < N - 1
    BY <1>1, <1>4, <1>9, <1>10, BufferedSeq
  <2>5. QED
    BY <1>1, <2>3, <2>4 DEF Queue!Add, N
<1>11. CASE full
  <2>1. count = N - 1 /\ count' = count /\ count > 0
    BY <1>1, <1>4, <1>5, <1>11
  <2>2. ASSUME NEW i \in 1 .. count
        PROVE  aenBuffer'[Slot(i)'] = IF i = count THEN answer ELSE aenBuffer[Slot(i + 1)]
    <3>1. CASE i = count
      BY <1>1, <1>7, <2>1, <3>1
    <3>2. CASE i /= count
      <4>1. i + 1 \in 1 .. count /\ Slot(i)' = Slot(i + 1)
        BY <1>7, <1>9, <1>11, <2>1, <3>2
      <4>2. QED
        BY <1>1, <1>6, <1>9, <3>2, <4>1
    <3>3. QED
      BY <3>1, <3>2
  <2>3. buffered' = [i \in 1 .. count |-> IF i = count THEN answer ELSE aenBuffer[Slot(i + 1)]]
    BY <1>8, <2>1, <2>2
  <2>4. buffered' = Append(Tail(buffered), answer)
    BY <1>9, <2>1, <2>3, BufferedSeq
  <2>5. ~(Len(buffered) < N - 1)
    BY <1>1, <2>1, BufferedSeq
  <2>6. QED
    BY <1>1, <2>4, <2>5 DEF Queue!Add, N
<1>12. QED
  BY <1>10, <1>11

\* A step that leaves the ring alone leaves the queue alone.
LEMMA RingUnchanged == UNCHANGED ring => UNCHANGED <<buffered, aenCode>>
  BY DEF ring, buffered, count

(* The ring buffer of addAEN and getAEN implements the queue the user       *)
(* client is promised, whatever its size.                                   *)
THEOREM RingImplementsQueue == Spec => RingIsQueue
<1>1. Init => Queue!Init
  <2> SUFFICES ASSUME Init PROVE Queue!Init
    OBVIOUS
  <2>1. TypeOK /\ count = 0
    BY InitInv DEF Inv, Init, count
  <2>2. QED
    BY <2>1, BufferedSeq DEF Init, Queue!Init
<1>2. TypeOK /\ TypeOK' /\ [Next]_vars => [Queue!Next]_<<buffered, aenCode>>
  <2> SUFFICES ASSUME TypeOK, TypeOK', [Next]_vars
               PROVE  [Queue!Next]_<<buffered, aenCode>>
    OBVIOUS
  <2>1. CASE getAEN
    BY <2>1, GetRefines DEF Queue!Next
  <2>2. CASE addAEN
    BY <2>2, AddRefines DEF Queue!Next, addAEN
  <2>3. CASE UNCHANGED ring
    BY <2>3, RingUnchanged
  <2>4. QED
    BY <2>1, <2>2, <2>3
    DEF Next, SupportStep, raise, handleAttention, supportThreadGetWork, poll, polled, rescan,
        userClientOpen, userClientClose, powerDownHandler, vars
<1>3. QED
  BY <1>1, <1>2, AENTypeCorrect, PTL DEF Spec, RingIsQueue, Queue!Spec
=============================================================================
