------------------------ MODULE LogicalUnits_proofs ------------------------
(* No unit's nub is used after it is gone, lost or left without its place  *)
(* in the array, for any number of units, nubs and user clients.           *)
EXTENDS LogicalUnits, TLAPS

Busy == Adding \union Removing
Ending == {"terminating", "stopped"}

(* A call is for a unit that there is, unless a user client has strayed. *)
UnitsOK ==
  \A x \in Callers : pc[x] \in Busy =>
    unit[x] \in Words /\ (x \in Scanners \/ ~strayed => unit[x] \in Units)

(* One call at a time for a unit. *)
Sole ==
  \A x, y \in Callers : pc[x] \in Busy /\ pc[y] \in Busy /\ x /= y => unit[x] /= unit[y]

(* There are pools from createCommands to stop; without them nobody works, *)
(* and when the controller goes nobody does.                               *)
Phases ==
  /\ ~pools => pc[StartThread] \in {"registered", "failed", "stopped"}
  /\ ~pools /\ pc[StartThread] /= "stopped" => pc[SupportThread] = "none"
  /\ pc[StartThread] \in {"registered", "commands"} => pc[SupportThread] = "none"
  /\ ~pools \/ pc[StartThread] \in Ending =>
       \A x \in Callers \ {StartThread} : pc[x] \in {"none", "idle", "gone"}

(* The nub of a unit that nobody adds or is through with removing. *)
InUse(n) == life[n] = "registered" /\ n \in registry /\ n \notin owned
Between == {"attach", "register", "release", "clear"}
Settled ==
  pc[StartThread] \notin Ending =>
    \A u \in Units :
      \/ logicalUnit[u] = NULL
      \/ InUse(logicalUnit[u])
      \/ \E x \in Callers : pc[x] \in Between /\ unit[x] = u

(* What a call knows at each of its places. *)
Empty == \A x \in Callers : pc[x] \in {"params", "new"} => nubOf(x) = NULL
Attaching ==
  \A x \in Callers : pc[x] = "attach" =>
    nubOf(x) \in owned /\ nubOf(x) \notin registry /\ life[nubOf(x)] = "new"
Registering ==
  \A x \in Callers : pc[x] = "register" =>
    nubOf(x) \in owned /\ nubOf(x) \in registry /\ life[nubOf(x)] = "new"
Releasing ==
  \A x \in Callers : pc[x] = "release" =>
    nubOf(x) \in owned /\ nubOf(x) \in registry /\ life[nubOf(x)] = "registered"
Terminating ==
  \A x \in Callers : pc[x] = "terminate" => pUnit[x] = nubOf(x) /\ nubOf(x) \in Nubs
Clearing ==
  \A x \in Callers : pc[x] = "clear" =>
    nubOf(x) \in Nubs /\ nubOf(x) \notin owned /\ life[nubOf(x)] = "inactive"

(* A nub in the array is its unit's, and was made; what is owned or can be *)
(* seen is in the array.                                                   *)
InArray ==
  \A u \in Units : logicalUnit[u] /= NULL =>
    life[logicalUnit[u]] /= "unused" /\ unitOf[logicalUnit[u]] = u
Owned ==
  \A n \in owned : \E x \in Callers :
    pc[x] \in {"attach", "register", "release"} /\ unit[x] = unitOf[n] /\ nubOf(x) = n
Fresh == \A n \in registry : life[n] /= "unused"
Seen == \A n \in Nubs : life[n] = "registered" => logicalUnit[unitOf[n]] = n

(* Nothing was written about the array. *)
Apart == \A w \in OutOfRange : logicalUnit[w] \notin Nubs

Calm ==
  /\ Sole /\ Phases /\ Settled /\ Empty /\ Attaching /\ Registering /\ Releasing /\ Terminating
  /\ Clearing /\ InArray /\ Apart /\ Owned /\ Fresh /\ Seen /\ ~panicked

Inv == TypeOK /\ UnitsOK /\ (calm => Calm)
-----------------------------------------------------------------------------
(* There are no nubs yet, and only start is at work. *)
LEMMA InitInv == Init => Inv
<1> SUFFICES ASSUME Init PROVE Inv
  OBVIOUS
<1> USE UnitAssumption DEF Init
<1>1. TypeOK
  BY DEF TypeOK, Callers, Scanners, Starting, Units, Words
<1>2. UnitsOK /\ Sole /\ Empty /\ Attaching /\ Registering /\ Releasing /\ Terminating /\
   Clearing
  BY DEF UnitsOK, Sole, Empty, Attaching, Registering, Releasing, Terminating, Clearing, Busy,
     Adding, Removing
<1>3. Phases /\ Settled /\ Apart /\ InArray /\ Owned /\ Fresh /\ Seen /\ ~panicked
  BY DEF Phases, Settled, InArray, Apart, Owned, Fresh, Seen, Ending, Callers, Scanners, Words
<1>4. QED
  BY <1>1, <1>2, <1>3 DEF Inv, Calm

(* A call that returns leaves its caller with a unit of the array, or a    *)
(* scan with the end of it.                                                *)
LEMMA UnitTyped ==
  ASSUME NEW x \in Callers, TypeOK, UnitsOK, pc[x] \in Busy, UNCHANGED strayed,
         return(x) \/ UNCHANGED unit
  PROVE  /\ unit' \in [Callers -> Words \union {0, TWE_MAX_UNITS}]
         /\ \A y \in Callers :
              y \in Scanners \/ ~strayed' => unit'[y] \in Units \union {0, TWE_MAX_UNITS}
<1> USE UnitAssumption DEF return, stepped
<1>1. CASE x \in Scanners /\ return(x)
  <2>1. unit[x] \in Units /\ unit' = [unit EXCEPT ![x] = unit[x] + 1]
    BY <1>1 DEF UnitsOK
  <2>2. unit[x] + 1 \in Units \union {0, TWE_MAX_UNITS}
    BY <2>1 DEF Units
  <2>3. QED
    BY <2>1, <2>2 DEF TypeOK, Words
<1>2. CASE x \notin Scanners /\ return(x)
  BY <1>2 DEF TypeOK, Words
<1>3. CASE UNCHANGED unit
  BY <1>3 DEF TypeOK
<1>4. QED
  BY <1>1, <1>2, <1>3

(* A unit with a nub gets no second one.                                   *)
LEMMA AddUnitStep ==
  ASSUME NEW x \in Callers, Inv, addUnit(x)
  PROVE  Inv'
<1> USE UnitAssumption DEF nubs, locals, history, addUnit, vacant, goto, return, stepped,
        Scanners
<1> TypeOK /\ UnitsOK
  BY DEF Inv
<1>1. TypeOK'
  BY DEF TypeOK, UnitsOK, Busy, Adding, Removing, Starting, Units, Words, Callers, nubOf, Scanners
<1>2. UnitsOK'
  BY DEF TypeOK, UnitsOK, Busy, Adding, Removing, Callers, Scanners
<1>3. ASSUME calm' PROVE Calm'
  <2> Calm
    BY <1>3 DEF Inv, calm
  <2> /\ \A y \in Callers : pc[y] \in Busy => unit[y] \in Units
      /\ \A u \in Units : u \in Words /\ logicalUnit[u] \in Nubs \union {NULL}
    BY <1>3 DEF UnitsOK, TypeOK, Words, calm
  <2> USE DEF Calm, Busy, Adding, Removing, TypeOK, Callers, Scanners, calm
  <2>1. Sole' /\ Phases'
    BY <1>3 DEF Sole, Phases, Ending
  <2>2. Settled'
    BY <1>3 DEF Settled, InUse, Between, Ending, Sole, nubOf, UnitsOK
  <2>3. Empty' /\ Attaching' /\ Registering' /\ Releasing' /\ Terminating' /\ Clearing'
    BY <1>3 DEF Empty, nubOf, Sole, Attaching, InArray, Registering, Releasing, Terminating,
       Clearing
  <2>4. InArray' /\ Apart' /\ Owned' /\ Fresh' /\ Seen'
    BY <1>3 DEF InArray, Apart, nubOf, Owned, Sole, Fresh, Seen
  <2>5. ~panicked'
    BY <1>3 DEF Attaching, Registering, Releasing, Terminating, Settled, InUse, Between,
       Ending, Phases, Sole, UnitsOK, nubOf, usable, freed
  <2> QED
    BY <2>1, <2>2, <2>3, <2>4, <2>5 DEF Calm
<1>4. QED
  BY <1>1, <1>2, <1>3 DEF Inv

(* Its place stays empty while the parameters are read.                    *)
LEMMA ReadParamsStep ==
  ASSUME NEW x \in Callers, Inv, readParams(x)
  PROVE  Inv'
<1> USE UnitAssumption DEF nubs, locals, history, readParams, goto, return, stepped, Scanners
<1> TypeOK /\ UnitsOK
  BY DEF Inv
<1>1. TypeOK'
  BY DEF TypeOK, UnitsOK, Busy, Adding, Removing, Starting, Units, Words, Callers, nubOf, Scanners
<1>2. UnitsOK'
  BY DEF TypeOK, UnitsOK, Busy, Adding, Removing, Callers, Scanners
<1>3. ASSUME calm' PROVE Calm'
  <2> Calm
    BY <1>3 DEF Inv, calm
  <2> /\ \A y \in Callers : pc[y] \in Busy => unit[y] \in Units
      /\ \A u \in Units : u \in Words /\ logicalUnit[u] \in Nubs \union {NULL}
    BY <1>3 DEF UnitsOK, TypeOK, Words, calm
  <2> USE DEF Calm, Busy, Adding, Removing, TypeOK, Callers, Scanners, calm
  <2>1. Sole' /\ Phases'
    BY <1>3 DEF Sole, Phases, Ending
  <2>2. Settled'
    BY <1>3 DEF Settled, InUse, Between, Ending, Sole, nubOf, UnitsOK
  <2>3. Empty' /\ Attaching' /\ Registering' /\ Releasing' /\ Terminating' /\ Clearing'
    BY <1>3 DEF Empty, nubOf, Sole, Attaching, InArray, Registering, Releasing, Terminating,
       Clearing
  <2>4. InArray' /\ Apart' /\ Owned' /\ Fresh' /\ Seen'
    BY <1>3 DEF InArray, Apart, nubOf, Owned, Sole, Fresh, Seen
  <2>5. ~panicked'
    BY <1>3 DEF Attaching, Registering, Releasing, Terminating, Settled, InUse, Between,
       Ending, Phases, Sole, UnitsOK, nubOf, usable, freed
  <2> QED
    BY <2>1, <2>2, <2>3, <2>4, <2>5 DEF Calm
<1>4. QED
  BY <1>1, <1>2, <1>3 DEF Inv

(* Whoever looks for a command while nothing overlaps finds the pools there.*)
LEMMA NoPoolsStep ==
  ASSUME NEW x \in Callers, Inv, noPools(x)
  PROVE  Inv'
<1> USE UnitAssumption DEF nubs, locals, history, noPools, panic, mayScan, Scanners
<1> TypeOK /\ UnitsOK
  BY DEF Inv
<1>1. TypeOK'
  BY DEF TypeOK, UnitsOK, Busy, Adding, Removing, Starting, Units, Words, Callers, nubOf, Scanners
<1>2. UnitsOK'
  BY DEF TypeOK, UnitsOK, Busy, Adding, Removing, Callers, Scanners
<1>3. ASSUME calm' PROVE Calm'
  <2> Calm
    BY <1>3 DEF Inv, calm
  <2> /\ \A y \in Callers : pc[y] \in Busy => unit[y] \in Units
      /\ \A u \in Units : u \in Words /\ logicalUnit[u] \in Nubs \union {NULL}
    BY <1>3 DEF UnitsOK, TypeOK, Words, calm
  <2> USE DEF Calm, Busy, Adding, Removing, TypeOK, Callers, Scanners, calm
  <2>1. Sole' /\ Phases'
    BY <1>3 DEF Sole, Phases, Ending
  <2>2. Settled'
    BY <1>3 DEF Settled, InUse, Between, Ending, Sole, nubOf, UnitsOK
  <2>3. Empty' /\ Attaching' /\ Registering' /\ Releasing' /\ Terminating' /\ Clearing'
    BY <1>3 DEF Empty, nubOf, Sole, Attaching, InArray, Registering, Releasing, Terminating,
       Clearing
  <2>4. InArray' /\ Apart' /\ Owned' /\ Fresh' /\ Seen'
    BY <1>3 DEF InArray, Apart, nubOf, Owned, Sole, Fresh, Seen
  <2>5. ~panicked'
    BY <1>3 DEF Attaching, Registering, Releasing, Terminating, Settled, InUse, Between,
       Ending, Phases, Sole, UnitsOK, nubOf, usable, freed
  <2> QED
    BY <2>1, <2>2, <2>3, <2>4, <2>5 DEF Calm
<1>4. QED
  BY <1>1, <1>2, <1>3 DEF Inv

(* The new nub goes to a place that is empty, and is nobody else's.        *)
LEMMA NewDriveStep ==
  ASSUME NEW x \in Callers, Inv, newDrive(x)
  PROVE  Inv'
<1> USE UnitAssumption DEF nubs, locals, history, newDrive, goto, return, stepped, Scanners
<1> TypeOK /\ UnitsOK
  BY DEF Inv
<1>1. TypeOK'
  <2>1. unit[x] \in Words /\ (unit[x] \in Units \/ unit[x] \in OutOfRange) /\ pc[x] \in Busy
    BY DEF UnitsOK, Busy, Adding, Words
  <2>2. /\ logicalUnit' \in [Words -> Nubs \union {NULL, Foreign}]
        /\ \A u \in Units : logicalUnit'[u] /= Foreign
    BY <2>1 DEF TypeOK, Words
  <2>3. life' \in [Nubs -> {"unused", "new", "registered", "inactive"}]
    BY DEF TypeOK
  <2>4. owned' \subseteq Nubs /\ unitOf' \in [Nubs -> Words \union {0}]
    BY <2>1 DEF TypeOK
  <2>5. pc' \in [Callers -> Adding \union Removing \union Starting
                            \union {"none", "idle", "scan", "gone"}]
    BY DEF TypeOK, Adding
  <2>6. /\ unit' \in [Callers -> Words \union {0, TWE_MAX_UNITS}]
        /\ \A y \in Callers :
             y \in Scanners \/ ~strayed' => unit'[y] \in Units \union {0, TWE_MAX_UNITS}
    BY <2>1, UnitTyped
  <2>7. QED
    BY <2>2, <2>3, <2>4, <2>5, <2>6 DEF TypeOK
<1>2. UnitsOK'
  BY DEF TypeOK, UnitsOK, Busy, Adding, Removing, Callers, Scanners
<1>3. ASSUME calm' PROVE Calm'
  <2> Calm
    BY <1>3 DEF Inv, calm
  <2> /\ \A y \in Callers : pc[y] \in Busy => unit[y] \in Units
      /\ \A u \in Units : u \in Words /\ logicalUnit[u] \in Nubs \union {NULL}
    BY <1>3 DEF UnitsOK, TypeOK, Words, calm
  <2> USE DEF Calm, Busy, Adding, Removing, TypeOK, Callers, Scanners, calm
  <2>a. pc[x] \in Busy /\ unit[x] \in Units
    BY DEF UnitsOK
  <2>b. \A y \in Callers \ {x} : pc'[y] = pc[y] /\ unit'[y] = unit[y] /\ pUnit'[y] = pUnit[y]
    OBVIOUS
  <2>c. \A y \in Callers \ {x} : pc[y] \in Busy =>
          unit[y] \in Units /\ unit[y] /= unit[x] /\ logicalUnit'[unit[y]] = nubOf(y)
    BY <2>a DEF UnitsOK, Sole, nubOf
  <2>d. \A y \in Callers \ {x} : pc[y] \in Busy /\ nubOf(y) /= NULL =>
          nubOf(y) /= nubOf(x) /\ unitOf[nubOf(y)] = unit[y]
    BY <2>a, <2>c DEF InArray, nubOf
  <2>e. \A n \in Nubs : life[n] = "unused" => \A u \in Units : logicalUnit[u] /= n
    BY DEF InArray
  <2>f. nubOf(x) = NULL
    BY DEF Empty
  <2>1. Sole' /\ Phases'
    BY <1>1, <2>a, <2>b, <2>c, <2>d, <2>e, <2>f, <1>3 DEF Sole, Phases, Ending
  <2>2. Settled'
    BY <1>1, <2>a, <2>b, <2>c, <2>d, <2>e, <2>f, <1>3 DEF Settled, InUse, Between, Ending,
       nubOf, UnitsOK
  <2>3. Empty' /\ Registering' /\ Releasing' /\ Terminating' /\ Clearing'
    BY <1>1, <2>a, <2>b, <2>c, <2>d, <2>e, <2>f, <1>3 DEF Empty, nubOf, Registering,
       Attaching, InArray, Releasing, Terminating, Clearing
  <2>4. Attaching'
    <3> SUFFICES ASSUME NEW y \in Callers, pc'[y] = "attach"
                 PROVE  logicalUnit'[unit'[y]] \in owned' /\ logicalUnit'[unit'[y]] \notin
                    registry'
                        /\ life'[logicalUnit'[unit'[y]]] = "new"
      BY DEF Attaching, nubOf
    <3>1. CASE y = x
      <4>1. PICK n \in Nubs :
              /\ life[n] = "unused" /\ life' = [life EXCEPT ![n] = "new"]
              /\ owned' = owned \union {n}
              /\ logicalUnit' = [logicalUnit EXCEPT ![unit[x]] = n]
              /\ unit' = unit
        BY <3>1
      <4>2. logicalUnit'[unit'[y]] = n
        BY <3>1, <4>1, <2>a
      <4>3. n \notin registry
        BY <4>1 DEF Fresh
      <4>4. QED
        BY <4>1, <4>2, <4>3
    <3>2. CASE y /= x
      <4>1. logicalUnit'[unit'[y]] = nubOf(y) /\ pc[y] = "attach"
        BY <3>2, <2>b, <2>c
      <4>2. nubOf(y) \in owned /\ nubOf(y) \notin registry /\ life[nubOf(y)] = "new"
        BY <4>1 DEF Attaching
      <4>3. QED
        BY <4>1, <4>2
    <3>3. QED
      BY <3>1, <3>2
  <2>5. InArray' /\ Apart' /\ Owned' /\ Fresh'
    <3>1. InArray'
      BY <1>1, <2>a, <2>b, <2>c, <2>d, <2>e, <2>f, <1>3 DEF InArray, nubOf
    <3>2. Apart'
      <4>1. \A w \in OutOfRange : w \in Words /\ w /= unit[x]
        BY <2>a DEF Words
      <4>2. \A w \in Words : w /= unit[x] => logicalUnit'[w] = logicalUnit[w]
        OBVIOUS
      <4>3. QED
        BY <4>1, <4>2 DEF Apart
    <3>3. Owned' /\ Fresh'
      BY <1>1, <2>a, <2>b, <2>c, <2>d, <2>e, <2>f, <1>3 DEF InArray, nubOf, Owned, Fresh
    <3>4. QED
      BY <3>1, <3>2, <3>3
  <2>6. Seen'
    <3> SUFFICES ASSUME NEW m \in Nubs, life'[m] = "registered"
                 PROVE  logicalUnit'[unitOf'[m]] = m
      BY DEF Seen
    <3>1. life[m] = "registered" /\ unitOf'[m] = unitOf[m]
      OBVIOUS
    <3>2. logicalUnit[unitOf[m]] = m
      BY <3>1 DEF Seen
    <3>3. unitOf[m] /= unit[x]
      BY <3>2, <2>f DEF nubOf
    <3>4. unitOf[m] \in Words
      BY <2>a DEF Units, Words
    <3>5. QED
      BY <3>1, <3>2, <3>3, <3>4
  <2>7. ~panicked'
    BY <1>1, <2>a, <2>b, <2>c, <2>d, <2>e, <2>f, <1>3 DEF Attaching, Registering, Releasing,
       Terminating, Settled, InUse, Between, Ending, Phases, Sole, UnitsOK, nubOf, usable,
       freed
  <2> QED
    BY <2>1, <2>2, <2>3, <2>4, <2>5, <2>6, <2>7 DEF Calm
<1>4. QED
  BY <1>1, <1>2, <1>3 DEF Inv

(* The nub is in the registry, or it is gone from the array too.           *)
LEMMA AttachStep ==
  ASSUME NEW x \in Callers, Inv, attach(x)
  PROVE  Inv'
<1> USE UnitAssumption DEF nubs, locals, history, attach, cleared, usable, freed, goto,
        return, stepped, Scanners
<1> TypeOK /\ UnitsOK
  BY DEF Inv
<1>1. TypeOK'
  <2>1. unit[x] \in Words /\ (unit[x] \in Units \/ unit[x] \in OutOfRange) /\ pc[x] \in Busy
    BY DEF UnitsOK, Busy, Adding, Words
  <2>2. nubOf(x) \in Nubs
    BY DEF nubOf
  <2>3. /\ logicalUnit' \in [Words -> Nubs \union {NULL, Foreign}]
        /\ \A u \in Units : logicalUnit'[u] /= Foreign
    BY <2>1 DEF TypeOK, Words
  <2>4. owned' \subseteq Nubs /\ registry' \subseteq Nubs
    BY <2>2 DEF TypeOK
  <2>5. pc' \in [Callers -> Adding \union Removing \union Starting
                            \union {"none", "idle", "scan", "gone"}]
    BY DEF TypeOK, Adding
  <2>6. /\ unit' \in [Callers -> Words \union {0, TWE_MAX_UNITS}]
        /\ \A y \in Callers :
             y \in Scanners \/ ~strayed' => unit'[y] \in Units \union {0, TWE_MAX_UNITS}
    BY <2>1, UnitTyped
  <2>7. QED
    BY <2>3, <2>4, <2>5, <2>6 DEF TypeOK
<1>2. UnitsOK'
  BY DEF TypeOK, UnitsOK, Busy, Adding, Removing, Callers, Scanners
<1>3. ASSUME calm' PROVE Calm'
  <2> Calm
    BY <1>3 DEF Inv, calm
  <2> /\ \A y \in Callers : pc[y] \in Busy => unit[y] \in Units
      /\ \A u \in Units : u \in Words /\ logicalUnit[u] \in Nubs \union {NULL}
    BY <1>3 DEF UnitsOK, TypeOK, Words, calm
  <2> USE DEF Calm, Busy, Adding, Removing, TypeOK, Callers, Scanners, calm
  <2>a. pc[x] \in Busy /\ unit[x] \in Units
    BY DEF UnitsOK
  <2>b. \A y \in Callers \ {x} : pc'[y] = pc[y] /\ unit'[y] = unit[y] /\ pUnit'[y] = pUnit[y]
    OBVIOUS
  <2>c. \A y \in Callers \ {x} : pc[y] \in Busy =>
          unit[y] \in Units /\ unit[y] /= unit[x] /\ logicalUnit'[unit[y]] = nubOf(y)
    BY <2>a DEF UnitsOK, Sole, nubOf
  <2>d. \A y \in Callers \ {x} : pc[y] \in Busy /\ nubOf(y) /= NULL =>
          nubOf(y) /= nubOf(x) /\ unitOf[nubOf(y)] = unit[y]
    BY <2>a, <2>c DEF InArray, nubOf
  <2>e. nubOf(x) \in Nubs /\ nubOf(x) \in owned /\ life[nubOf(x)] = "new"
    BY DEF Attaching
  <2>1. Sole' /\ Phases'
    BY <1>1, <2>a, <2>b, <2>c, <2>d, <2>e, <1>3 DEF Sole, Phases, Ending
  <2>2. Settled'
    BY <1>1, <2>a, <2>b, <2>c, <2>d, <2>e, <1>3 DEF Settled, InUse, Between, Ending, nubOf,
       UnitsOK
  <2>3. Empty' /\ Attaching' /\ Registering' /\ Releasing' /\ Terminating' /\ Clearing'
    BY <1>1, <2>a, <2>b, <2>c, <2>d, <2>e, <1>3 DEF Empty, nubOf, Attaching, InArray,
       Registering, Releasing, Terminating, Clearing
  <2>4. InArray' /\ Apart' /\ Owned' /\ Fresh'
    <3>1. InArray'
      BY <1>1, <2>a, <2>b, <2>c, <2>d, <2>e, <1>3 DEF InArray, nubOf
    <3>2. Apart'
      <4>1. \A w \in OutOfRange : w \in Words /\ w /= unit[x]
        BY <2>a DEF Words
      <4>2. \A w \in Words : w /= unit[x] => logicalUnit'[w] = logicalUnit[w]
        OBVIOUS
      <4>3. QED
        BY <4>1, <4>2 DEF Apart
    <3>3. Owned' /\ Fresh'
      BY <1>1, <2>a, <2>b, <2>c, <2>d, <2>e, <1>3 DEF InArray, nubOf, Owned, Fresh
    <3>4. QED
      BY <3>1, <3>2, <3>3
  <2>5. Seen'
    <3> SUFFICES ASSUME NEW m \in Nubs, life'[m] = "registered"
                 PROVE  logicalUnit'[unitOf'[m]] = m
      BY DEF Seen
    <3>1. logicalUnit[unitOf[m]] = m
      BY DEF Seen
    <3>2. unitOf[m] /= unit[x]
      BY <3>1, <2>e DEF nubOf
    <3>3. unitOf[m] \in Words
      BY <2>a DEF Units, Words
    <3>4. QED
      BY <3>1, <3>2, <3>3
  <2>6. ~panicked'
    BY <1>1, <2>a, <2>b, <2>c, <2>d, <2>e, <1>3 DEF Attaching, Registering, Releasing,
       Terminating, Settled, InUse, Between, Ending, Phases, Sole, UnitsOK, nubOf, usable,
       freed
  <2> QED
    BY <2>1, <2>2, <2>3, <2>4, <2>5, <2>6 DEF Calm
<1>4. QED
  BY <1>1, <1>2, <1>3 DEF Inv

(* The nub can be seen from here on, and is in its unit's place.           *)
LEMMA RegisterServiceStep ==
  ASSUME NEW x \in Callers, Inv, registerService(x)
  PROVE  Inv'
<1> USE UnitAssumption DEF nubs, locals, history, registerService, goto, return, stepped,
        Scanners
<1> TypeOK /\ UnitsOK
  BY DEF Inv
<1>1. TypeOK'
  BY DEF TypeOK, UnitsOK, Busy, Adding, Removing, Starting, Units, Words, Callers, nubOf, Scanners
<1>2. UnitsOK'
  BY DEF TypeOK, UnitsOK, Busy, Adding, Removing, Callers, Scanners
<1>3. ASSUME calm' PROVE Calm'
  <2> Calm
    BY <1>3 DEF Inv, calm
  <2> /\ \A y \in Callers : pc[y] \in Busy => unit[y] \in Units
      /\ \A u \in Units : u \in Words /\ logicalUnit[u] \in Nubs \union {NULL}
    BY <1>3 DEF UnitsOK, TypeOK, Words, calm
  <2> USE DEF Calm, Busy, Adding, Removing, TypeOK, Callers, Scanners, calm
  <2>a. pc[x] \in Busy /\ unit[x] \in Units
    BY DEF UnitsOK
  <2>b. \A y \in Callers \ {x} : pc'[y] = pc[y] /\ unit'[y] = unit[y] /\ pUnit'[y] = pUnit[y]
    OBVIOUS
  <2>c. \A y \in Callers \ {x} : pc[y] \in Busy =>
          unit[y] \in Units /\ unit[y] /= unit[x] /\ logicalUnit'[unit[y]] = nubOf(y)
    BY <2>a DEF UnitsOK, Sole, nubOf
  <2>d. \A y \in Callers \ {x} : pc[y] \in Busy /\ nubOf(y) /= NULL =>
          nubOf(y) /= nubOf(x) /\ unitOf[nubOf(y)] = unit[y]
    BY <2>a, <2>c DEF InArray, nubOf
  <2>1. Sole' /\ Phases'
    BY <1>1, <2>a, <2>b, <2>c, <2>d, <1>3 DEF Sole, Phases, Ending
  <2>2. Settled'
    BY <1>1, <2>a, <2>b, <2>c, <2>d, <1>3 DEF Settled, InUse, Between, Ending, nubOf, UnitsOK
  <2>3. Empty' /\ Attaching' /\ Registering' /\ Releasing' /\ Terminating' /\ Clearing'
    BY <1>1, <2>a, <2>b, <2>c, <2>d, <1>3 DEF Empty, nubOf, Attaching, InArray, Registering,
       Releasing, Terminating, Clearing
  <2>4. InArray' /\ Apart' /\ Owned' /\ Fresh' /\ Seen'
    BY <1>1, <2>a, <2>b, <2>c, <2>d, <1>3 DEF InArray, Apart, nubOf, Owned, Fresh, Seen
  <2>5. ~panicked'
    BY <1>1, <2>a, <2>b, <2>c, <2>d, <1>3 DEF Attaching, Registering, Releasing, Terminating,
       Settled, InUse, Between, Ending, Phases, Sole, UnitsOK, nubOf, usable, freed
  <2> QED
    BY <2>1, <2>2, <2>3, <2>4, <2>5 DEF Calm
<1>4. QED
  BY <1>1, <1>2, <1>3 DEF Inv

(* The nub is handed over to the registry.                                 *)
LEMMA ReleaseStep ==
  ASSUME NEW x \in Callers, Inv, release(x)
  PROVE  Inv'
<1> USE UnitAssumption DEF nubs, locals, history, release, released, goto, return, stepped,
        Scanners
<1> TypeOK /\ UnitsOK
  BY DEF Inv
<1>1. TypeOK'
  BY DEF TypeOK, UnitsOK, Busy, Adding, Removing, Starting, Units, Words, Callers, nubOf, Scanners
<1>2. UnitsOK'
  BY DEF TypeOK, UnitsOK, Busy, Adding, Removing, Callers, Scanners
<1>3. ASSUME calm' PROVE Calm'
  <2> Calm
    BY <1>3 DEF Inv, calm
  <2> /\ \A y \in Callers : pc[y] \in Busy => unit[y] \in Units
      /\ \A u \in Units : u \in Words /\ logicalUnit[u] \in Nubs \union {NULL}
    BY <1>3 DEF UnitsOK, TypeOK, Words, calm
  <2> USE DEF Calm, Busy, Adding, Removing, TypeOK, Callers, Scanners, calm
  <2>a. pc[x] \in Busy /\ unit[x] \in Units
    BY DEF UnitsOK
  <2>b. \A y \in Callers \ {x} : pc'[y] = pc[y] /\ unit'[y] = unit[y] /\ pUnit'[y] = pUnit[y]
    OBVIOUS
  <2>c. \A y \in Callers \ {x} : pc[y] \in Busy =>
          unit[y] \in Units /\ unit[y] /= unit[x] /\ logicalUnit'[unit[y]] = nubOf(y)
    BY <2>a DEF UnitsOK, Sole, nubOf
  <2>d. \A y \in Callers \ {x} : pc[y] \in Busy /\ nubOf(y) /= NULL =>
          nubOf(y) /= nubOf(x) /\ unitOf[nubOf(y)] = unit[y]
    BY <2>a, <2>c DEF InArray, nubOf
  <2>1. Sole' /\ Phases'
    BY <1>1, <2>a, <2>b, <2>c, <2>d, <1>3 DEF Sole, Phases, Ending
  <2>2. Settled'
    <3> SUFFICES ASSUME NEW u \in Units, pc'[StartThread] \notin Ending, logicalUnit[u] /= NULL
                 PROVE  \/ InUse(logicalUnit[u])'
                        \/ \E y \in Callers : pc'[y] \in Between /\ unit'[y] = u
      BY DEF Settled
    <3>0. pc[StartThread] \notin Ending
      BY <2>a DEF Ending
    <3>1. CASE u = unit[x]
      BY <3>1 DEF Releasing, InUse, nubOf
    <3>2. CASE u /= unit[x] /\ InUse(logicalUnit[u])
      BY <3>2 DEF InUse
    <3>3. ASSUME u /= unit[x], NEW y \in Callers, pc[y] \in Between, unit[y] = u
          PROVE  pc'[y] \in Between /\ unit'[y] = u
      BY <3>3, <2>b
    <3>4. QED
      BY <3>0, <3>1, <3>2, <3>3 DEF Settled
  <2>3. Empty' /\ Attaching' /\ Registering' /\ Releasing' /\ Terminating' /\ Clearing'
    BY <1>1, <2>a, <2>b, <2>c, <2>d, <1>3 DEF Empty, nubOf, Attaching, InArray, Registering,
       Releasing, Terminating, Clearing
  <2>4. InArray' /\ Apart' /\ Owned' /\ Fresh' /\ Seen'
    BY <1>1, <2>a, <2>b, <2>c, <2>d, <1>3 DEF InArray, Apart, nubOf, Owned, Fresh, Seen
  <2>5. ~panicked'
    BY <1>1, <2>a, <2>b, <2>c, <2>d, <1>3 DEF Attaching, Registering, Releasing, Terminating,
       Settled, InUse, Between, Ending, Phases, Sole, UnitsOK, nubOf, usable, freed
  <2> QED
    BY <2>1, <2>2, <2>3, <2>4, <2>5 DEF Calm
<1>4. QED
  BY <1>1, <1>2, <1>3 DEF Inv

(* The nub an addition works on is its own reference's.                    *)
LEMMA MisusedNubStep ==
  ASSUME NEW x \in Callers, Inv, misusedNub(x)
  PROVE  Inv'
<1> USE UnitAssumption DEF nubs, locals, history, misusedNub, panic, usable, freed
<1> TypeOK /\ UnitsOK
  BY DEF Inv
<1>1. TypeOK'
  BY DEF TypeOK, UnitsOK, Busy, Adding, Removing, Starting, Units, Words, Callers, nubOf, Scanners
<1>2. UnitsOK'
  BY DEF TypeOK, UnitsOK, Busy, Adding, Removing, Callers, Scanners
<1>3. ASSUME calm' PROVE Calm'
  <2> Calm
    BY <1>3 DEF Inv, calm
  <2> /\ \A y \in Callers : pc[y] \in Busy => unit[y] \in Units
      /\ \A u \in Units : u \in Words /\ logicalUnit[u] \in Nubs \union {NULL}
    BY <1>3 DEF UnitsOK, TypeOK, Words, calm
  <2> USE DEF Calm, Busy, Adding, Removing, TypeOK, Callers, Scanners, calm
  <2>1. Sole' /\ Phases'
    BY <1>3 DEF Sole, Phases, Ending
  <2>2. Settled'
    BY <1>3 DEF Settled, InUse, Between, Ending, Sole, nubOf, UnitsOK
  <2>3. Empty' /\ Attaching' /\ Registering' /\ Releasing' /\ Terminating' /\ Clearing'
    BY <1>3 DEF Empty, nubOf, Sole, Attaching, InArray, Registering, Releasing, Terminating,
       Clearing
  <2>4. InArray' /\ Apart' /\ Owned' /\ Fresh' /\ Seen'
    BY <1>3 DEF InArray, Apart, nubOf, Owned, Sole, Fresh, Seen
  <2>5. ~panicked'
    BY <1>3 DEF Attaching, Registering, Releasing, Terminating, Settled, InUse, Between,
       Ending, Phases, Sole, UnitsOK, nubOf, usable, freed
  <2> QED
    BY <2>1, <2>2, <2>3, <2>4, <2>5 DEF Calm
<1>4. QED
  BY <1>1, <1>2, <1>3 DEF Inv

(* The nub that is found is in use, and nobody else's.                     *)
LEMMA FindUnitStep ==
  ASSUME NEW x \in Callers, Inv, findUnit(x)
  PROVE  Inv'
<1> USE UnitAssumption DEF nubs, locals, history, findUnit, usable, freed, mayTerminate, goto,
        return, stepped, Scanners
<1> TypeOK /\ UnitsOK
  BY DEF Inv
<1>1. TypeOK'
  <2>1. unit[x] \in Words /\ (unit[x] \in Units \/ unit[x] \in OutOfRange) /\ pc[x] \in Busy
    BY DEF UnitsOK, Busy, Removing, Words
  <2>2. pUnit' \in [Callers -> Nubs \union {NULL}]
    BY <2>1 DEF TypeOK, nubOf
  <2>3. pc' \in [Callers -> Adding \union Removing \union Starting
                            \union {"none", "idle", "scan", "gone"}]
    BY DEF TypeOK, Removing
  <2>4. /\ unit' \in [Callers -> Words \union {0, TWE_MAX_UNITS}]
        /\ \A y \in Callers :
             y \in Scanners \/ ~strayed' => unit'[y] \in Units \union {0, TWE_MAX_UNITS}
    BY <2>1, UnitTyped
  <2>5. QED
    BY <2>2, <2>3, <2>4 DEF TypeOK
<1>2. UnitsOK'
  BY DEF TypeOK, UnitsOK, Busy, Adding, Removing, Callers, Scanners
<1>3. ASSUME calm' PROVE Calm'
  <2> Calm
    BY <1>3 DEF Inv, calm
  <2> /\ \A y \in Callers : pc[y] \in Busy => unit[y] \in Units
      /\ \A u \in Units : u \in Words /\ logicalUnit[u] \in Nubs \union {NULL}
    BY <1>3 DEF UnitsOK, TypeOK, Words, calm
  <2> USE DEF Calm, Busy, Adding, Removing, TypeOK, Callers, Scanners, calm
  <2>a. pc[x] \in Busy /\ unit[x] \in Units
    BY DEF UnitsOK
  <2>b. \A y \in Callers \ {x} : pc'[y] = pc[y] /\ unit'[y] = unit[y] /\ pUnit'[y] = pUnit[y]
    OBVIOUS
  <2>c. \A y \in Callers \ {x} : pc[y] \in Busy =>
          unit[y] \in Units /\ unit[y] /= unit[x] /\ logicalUnit'[unit[y]] = nubOf(y)
    BY <2>a DEF UnitsOK, Sole, nubOf
  <2>d. \A y \in Callers \ {x} : pc[y] \in Busy /\ nubOf(y) /= NULL =>
          nubOf(y) /= nubOf(x) /\ unitOf[nubOf(y)] = unit[y]
    BY <2>a, <2>c DEF InArray, nubOf
  <2>1. Sole' /\ Phases'
    BY <1>1, <2>a, <2>b, <2>c, <2>d, <1>3 DEF Sole, Phases, Ending
  <2>2. Settled'
    BY <1>1, <2>a, <2>b, <2>c, <2>d, <1>3 DEF Settled, InUse, Between, Ending, nubOf, UnitsOK
  <2>3. Empty' /\ Attaching' /\ Registering' /\ Releasing' /\ Terminating' /\ Clearing'
    BY <1>1, <2>a, <2>b, <2>c, <2>d, <1>3 DEF Empty, nubOf, Attaching, InArray, Registering,
       Releasing, Terminating, Clearing
  <2>4. InArray' /\ Apart' /\ Owned' /\ Fresh' /\ Seen'
    BY <1>1, <2>a, <2>b, <2>c, <2>d, <1>3 DEF InArray, Apart, nubOf, Owned, Fresh, Seen
  <2>5. ~panicked'
    BY <1>1, <2>a, <2>b, <2>c, <2>d, <1>3 DEF Attaching, Registering, Releasing, Terminating,
       Settled, InUse, Between, Ending, Phases, Sole, UnitsOK, nubOf, usable, freed
  <2> QED
    BY <2>1, <2>2, <2>3, <2>4, <2>5 DEF Calm
<1>4. QED
  BY <1>1, <1>2, <1>3 DEF Inv

(* No other call works on the nub that is terminated.                      *)
LEMMA TerminateStep ==
  ASSUME NEW x \in Callers, Inv, terminate(x)
  PROVE  Inv'
<1> USE UnitAssumption DEF nubs, locals, history, terminate, usable, freed, goto, return,
        stepped, Scanners
<1> TypeOK /\ UnitsOK
  BY DEF Inv
<1>1. TypeOK'
  BY DEF TypeOK, UnitsOK, Busy, Adding, Removing, Starting, Units, Words, Callers, nubOf, Scanners
<1>2. UnitsOK'
  BY DEF TypeOK, UnitsOK, Busy, Adding, Removing, Callers, Scanners
<1>3. ASSUME calm' PROVE Calm'
  <2> Calm
    BY <1>3 DEF Inv, calm
  <2> /\ \A y \in Callers : pc[y] \in Busy => unit[y] \in Units
      /\ \A u \in Units : u \in Words /\ logicalUnit[u] \in Nubs \union {NULL}
    BY <1>3 DEF UnitsOK, TypeOK, Words, calm
  <2> USE DEF Calm, Busy, Adding, Removing, TypeOK, Callers, Scanners, calm
  <2>a. pc[x] \in Busy /\ unit[x] \in Units
    BY DEF UnitsOK
  <2>b. \A y \in Callers \ {x} : pc'[y] = pc[y] /\ unit'[y] = unit[y] /\ pUnit'[y] = pUnit[y]
    OBVIOUS
  <2>c. \A y \in Callers \ {x} : pc[y] \in Busy =>
          unit[y] \in Units /\ unit[y] /= unit[x] /\ logicalUnit'[unit[y]] = nubOf(y)
    BY <2>a DEF UnitsOK, Sole, nubOf
  <2>d. \A y \in Callers \ {x} : pc[y] \in Busy /\ nubOf(y) /= NULL =>
          nubOf(y) /= nubOf(x) /\ unitOf[nubOf(y)] = unit[y]
    BY <2>a, <2>c DEF InArray, nubOf
  <2>e. pUnit[x] = nubOf(x) /\ nubOf(x) \in Nubs
    BY DEF Terminating
  <2>1. Sole' /\ Phases'
    BY <1>1, <2>a, <2>b, <2>c, <2>d, <2>e, <1>3 DEF Sole, Phases, Ending
  <2>2. Settled'
    <3> SUFFICES ASSUME NEW u \in Units, pc'[StartThread] \notin Ending, logicalUnit[u] /= NULL
                 PROVE  \/ InUse(logicalUnit[u])'
                        \/ \E y \in Callers : pc'[y] \in Between /\ unit'[y] = u
      BY DEF Settled
    <3>0. pc[StartThread] \notin Ending
      BY <2>a DEF Ending
    <3>1. CASE u = unit[x]
      BY <3>1 DEF Between
    <3>2. CASE u /= unit[x] /\ InUse(logicalUnit[u])
      <4>1. logicalUnit[u] /= pUnit[x]
        BY <3>2, <2>a, <2>e DEF InArray, nubOf
      <4>2. QED
        BY <3>2, <4>1 DEF InUse
    <3>3. ASSUME u /= unit[x], NEW y \in Callers, pc[y] \in Between, unit[y] = u
          PROVE  pc'[y] \in Between /\ unit'[y] = u
      BY <3>3, <2>b
    <3>4. QED
      BY <3>0, <3>1, <3>2, <3>3 DEF Settled
  <2>3. Empty' /\ Terminating'
    BY <1>1, <2>a, <2>b, <2>c, <2>d, <2>e, <1>3 DEF Empty, nubOf, Terminating
  <2>4. Attaching'
    <3> SUFFICES ASSUME NEW y \in Callers, pc'[y] = "attach"
                 PROVE  logicalUnit'[unit'[y]] \in owned' /\ logicalUnit'[unit'[y]] \notin
                    registry'
                        /\ life'[logicalUnit'[unit'[y]]] = "new"
      BY DEF Attaching, nubOf
    <3>1. y /= x /\ pc[y] = "attach"
      OBVIOUS
    <3>2. nubOf(y) \in Nubs /\ nubOf(y) /= pUnit[x]
      BY <3>1, <2>d, <2>e DEF Attaching
    <3>3. QED
      BY <3>1, <3>2, <2>b, <2>c DEF Attaching
  <2>5. Registering'
    <3> SUFFICES ASSUME NEW y \in Callers, pc'[y] = "register"
                 PROVE  logicalUnit'[unit'[y]] \in owned' /\ logicalUnit'[unit'[y]] \in
                    registry'
                        /\ life'[logicalUnit'[unit'[y]]] = "new"
      BY DEF Registering, nubOf
    <3>1. y /= x /\ pc[y] = "register"
      OBVIOUS
    <3>2. nubOf(y) \in Nubs /\ nubOf(y) /= pUnit[x]
      BY <3>1, <2>d, <2>e DEF Registering
    <3>3. QED
      BY <3>1, <3>2, <2>b, <2>c DEF Registering
  <2>6. Releasing'
    <3> SUFFICES ASSUME NEW y \in Callers, pc'[y] = "release"
                 PROVE  logicalUnit'[unit'[y]] \in owned' /\ logicalUnit'[unit'[y]] \in
                    registry'
                        /\ life'[logicalUnit'[unit'[y]]] = "registered"
      BY DEF Releasing, nubOf
    <3>1. y /= x /\ pc[y] = "release"
      OBVIOUS
    <3>2. nubOf(y) \in Nubs /\ nubOf(y) /= pUnit[x]
      BY <3>1, <2>d, <2>e DEF Releasing
    <3>3. QED
      BY <3>1, <3>2, <2>b, <2>c DEF Releasing
  <2>7. Clearing'
    <3> SUFFICES ASSUME NEW y \in Callers, pc'[y] = "clear"
                 PROVE  logicalUnit'[unit'[y]] \in Nubs /\ logicalUnit'[unit'[y]] \notin owned'
                        /\ life'[logicalUnit'[unit'[y]]] = "inactive"
      BY DEF Clearing, nubOf
    <3>1. CASE y = x
      <4>1. nubOf(x) \notin owned
        <5> SUFFICES ASSUME nubOf(x) \in owned PROVE FALSE
          OBVIOUS
        <5>1. PICK z \in Callers : /\ pc[z] \in {"attach", "register", "release"}
                                   /\ unit[z] = unitOf[nubOf(x)]
          BY DEF Owned
        <5>2. unitOf[nubOf(x)] = unit[x]
          BY <2>a, <2>e DEF InArray, nubOf
        <5>3. z /= x /\ pc[z] \in Busy
          BY <5>1
        <5>4. QED
          BY <5>1, <5>2, <5>3, <2>c
      <4>2. QED
        BY <3>1, <4>1, <2>a, <2>e DEF nubOf
    <3>2. CASE y /= x
      BY <3>2, <2>b, <2>c DEF Clearing
    <3>3. QED
      BY <3>1, <3>2
  <2>8. InArray' /\ Apart' /\ Owned' /\ Fresh' /\ Seen'
    BY <1>1, <2>a, <2>b, <2>c, <2>d, <2>e, <1>3 DEF InArray, Apart, nubOf, Owned, Fresh, Seen
  <2>9. ~panicked'
    BY <1>1, <2>a, <2>b, <2>c, <2>d, <2>e, <1>3 DEF Attaching, Registering, Releasing,
       Terminating, Settled, InUse, Between, Ending, Phases, Sole, UnitsOK, nubOf, usable,
       freed
  <2> QED
    BY <2>1, <2>2, <2>3, <2>4, <2>5, <2>6, <2>7, <2>8, <2>9 DEF Calm
<1>4. QED
  BY <1>1, <1>2, <1>3 DEF Inv

(* What leaves the array can no longer be seen.                            *)
LEMMA ClearUnitStep ==
  ASSUME NEW x \in Callers, Inv, clearUnit(x)
  PROVE  Inv'
<1> USE UnitAssumption DEF nubs, locals, history, clearUnit, cleared, goto, return, stepped,
        Scanners
<1> TypeOK /\ UnitsOK
  BY DEF Inv
<1>1. TypeOK'
  BY DEF TypeOK, UnitsOK, Busy, Adding, Removing, Starting, Units, Words, Callers, nubOf, Scanners
<1>2. UnitsOK'
  BY DEF TypeOK, UnitsOK, Busy, Adding, Removing, Callers, Scanners
<1>3. ASSUME calm' PROVE Calm'
  <2> Calm
    BY <1>3 DEF Inv, calm
  <2> /\ \A y \in Callers : pc[y] \in Busy => unit[y] \in Units
      /\ \A u \in Units : u \in Words /\ logicalUnit[u] \in Nubs \union {NULL}
    BY <1>3 DEF UnitsOK, TypeOK, Words, calm
  <2> USE DEF Calm, Busy, Adding, Removing, TypeOK, Callers, Scanners, calm
  <2>a. pc[x] \in Busy /\ unit[x] \in Units
    BY DEF UnitsOK
  <2>b. \A y \in Callers \ {x} : pc'[y] = pc[y] /\ unit'[y] = unit[y] /\ pUnit'[y] = pUnit[y]
    OBVIOUS
  <2>c. \A y \in Callers \ {x} : pc[y] \in Busy =>
          unit[y] \in Units /\ unit[y] /= unit[x] /\ logicalUnit'[unit[y]] = nubOf(y)
    BY <2>a DEF UnitsOK, Sole, nubOf
  <2>d. \A y \in Callers \ {x} : pc[y] \in Busy /\ nubOf(y) /= NULL =>
          nubOf(y) /= nubOf(x) /\ unitOf[nubOf(y)] = unit[y]
    BY <2>a, <2>c DEF InArray, nubOf
  <2>1. Sole' /\ Phases'
    BY <1>1, <2>a, <2>b, <2>c, <2>d, <1>3 DEF Sole, Phases, Ending
  <2>2. Settled'
    BY <1>1, <2>a, <2>b, <2>c, <2>d, <1>3 DEF Settled, InUse, Between, Ending, nubOf, UnitsOK
  <2>3. Empty' /\ Attaching' /\ Registering' /\ Releasing' /\ Terminating' /\ Clearing'
    BY <1>1, <2>a, <2>b, <2>c, <2>d, <1>3 DEF Empty, nubOf, Attaching, InArray, Registering,
       Releasing, Terminating, Clearing
  <2>4. InArray' /\ Apart' /\ Owned' /\ Fresh'
    BY <1>1, <2>a, <2>b, <2>c, <2>d, <1>3 DEF InArray, Apart, nubOf, Owned, Fresh
  <2>5. Seen'
    <3> SUFFICES ASSUME NEW m \in Nubs, life'[m] = "registered"
                 PROVE  logicalUnit'[unitOf'[m]] = m
      BY DEF Seen
    <3>1. logicalUnit[unitOf[m]] = m /\ life[m] = "registered"
      BY DEF Seen
    <3>2. unitOf[m] /= unit[x]
      BY <3>1 DEF nubOf, Clearing
    <3>3. QED
      BY <3>1, <3>2
  <2>6. ~panicked'
    BY <1>1, <2>a, <2>b, <2>c, <2>d, <1>3 DEF Attaching, Registering, Releasing, Terminating,
       Settled, InUse, Between, Ending, Phases, Sole, UnitsOK, nubOf, usable, freed
  <2> QED
    BY <2>1, <2>2, <2>3, <2>4, <2>5, <2>6 DEF Calm
<1>4. QED
  BY <1>1, <1>2, <1>3 DEF Inv

(* The nub that is found is not gone.                                      *)
LEMMA MisusedUnitStep ==
  ASSUME NEW x \in Callers, Inv, misusedUnit(x)
  PROVE  Inv'
<1> USE UnitAssumption DEF nubs, locals, history, misusedUnit, panic, usable, freed
<1> TypeOK /\ UnitsOK
  BY DEF Inv
<1>1. TypeOK'
  BY DEF TypeOK, UnitsOK, Busy, Adding, Removing, Starting, Units, Words, Callers, nubOf, Scanners
<1>2. UnitsOK'
  BY DEF TypeOK, UnitsOK, Busy, Adding, Removing, Callers, Scanners
<1>3. ASSUME calm' PROVE Calm'
  <2> Calm
    BY <1>3 DEF Inv, calm
  <2> /\ \A y \in Callers : pc[y] \in Busy => unit[y] \in Units
      /\ \A u \in Units : u \in Words /\ logicalUnit[u] \in Nubs \union {NULL}
    BY <1>3 DEF UnitsOK, TypeOK, Words, calm
  <2> USE DEF Calm, Busy, Adding, Removing, TypeOK, Callers, Scanners, calm
  <2>1. Sole' /\ Phases'
    BY <1>3 DEF Sole, Phases, Ending
  <2>2. Settled'
    BY <1>3 DEF Settled, InUse, Between, Ending, Sole, nubOf, UnitsOK
  <2>3. Empty' /\ Attaching' /\ Registering' /\ Releasing' /\ Terminating' /\ Clearing'
    BY <1>3 DEF Empty, nubOf, Sole, Attaching, InArray, Registering, Releasing, Terminating,
       Clearing
  <2>4. InArray' /\ Apart' /\ Owned' /\ Fresh' /\ Seen'
    BY <1>3 DEF InArray, Apart, nubOf, Owned, Sole, Fresh, Seen
  <2>5. ~panicked'
    BY <1>3 DEF Attaching, Registering, Releasing, Terminating, Settled, InUse, Between,
       Ending, Phases, Sole, UnitsOK, nubOf, usable, freed
  <2> QED
    BY <2>1, <2>2, <2>3, <2>4, <2>5 DEF Calm
<1>4. QED
  BY <1>1, <1>2, <1>3 DEF Inv

(* A call that overlaps another for its unit is recorded.                  *)
LEMMA UserCallStep ==
  ASSUME NEW x \in UserClients, Inv, userCall(x)
  PROVE  Inv'
<1> USE UnitAssumption DEF nubs, locals, history, userCall, begin, busyWith
<1> TypeOK /\ UnitsOK
  BY DEF Inv
<1>0. PICK call \in {"add", "remove"}, u \in Words :
        begin(x, call, u) /\ strayed' = (strayed \/ u \notin Units)
  OBVIOUS
<1>1. TypeOK'
  <2>1. pc' \in [Callers -> Adding \union Removing \union Starting
                            \union {"none", "idle", "scan", "gone"}]
    BY <1>0 DEF TypeOK, Adding, Removing
  <2>2. unit' \in [Callers -> Words \union {0, TWE_MAX_UNITS}]
    BY <1>0 DEF TypeOK
  <2>3. \A y \in Callers :
          y \in Scanners \/ ~strayed' => unit'[y] \in Units \union {0, TWE_MAX_UNITS}
    <3>1. x \notin Scanners
      BY DEF Scanners
    <3>2. unit' = [unit EXCEPT ![x] = u] /\ (~strayed' => ~strayed /\ u \in Units)
      BY <1>0
    <3>3. QED
      BY <3>1, <3>2 DEF TypeOK
  <2>4. overlapped' \in BOOLEAN
    BY <1>0
  <2>5. unready' \in BOOLEAN /\ strayed' \in BOOLEAN
    BY <1>0
  <2>6. QED
    BY <2>1, <2>2, <2>3, <2>4, <2>5 DEF TypeOK
<1>2. UnitsOK'
  BY DEF TypeOK, UnitsOK, Busy, Adding, Removing, Callers, Scanners
<1>3. ASSUME calm' PROVE Calm'
  <2> Calm
    BY <1>3 DEF Inv, calm
  <2> /\ \A y \in Callers : pc[y] \in Busy => unit[y] \in Units
      /\ \A v \in Units : v \in Words /\ logicalUnit[v] \in Nubs \union {NULL}
    BY <1>3 DEF UnitsOK, TypeOK, Words, calm
  <2> USE DEF Calm, Busy, Adding, Removing, TypeOK, Callers, Scanners, calm
  <2>1. Phases'
    BY <1>3 DEF Phases, Ending
  <2>2. Sole'
    <3> SUFFICES ASSUME NEW y \in Callers, NEW z \in Callers, pc'[y] \in Busy, pc'[z] \in
       Busy, y /= z
                 PROVE  unit'[y] /= unit'[z]
      BY DEF Sole
    <3>1. /\ u \in Units /\ unit' = [unit EXCEPT ![x] = u]
          /\ \A w \in Callers \ {x} : ~busyWith(w, u)
      BY <1>0, <1>3
    <3>2. \A w \in Callers \ {x} : pc'[w] = pc[w] /\ unit'[w] = unit[w]
      OBVIOUS
    <3>3. \A w \in Callers \ {x} : pc[w] \in Busy => unit[w] /= u
      BY <3>1
    <3>4. unit'[x] = u
      BY <3>1
    <3>5. QED
      BY <3>2, <3>3, <3>4 DEF Sole
  <2>3. Settled'
    BY <1>3 DEF Settled, InUse, Between, Ending, Sole, nubOf, UnitsOK
  <2>4. Empty' /\ Attaching' /\ Registering' /\ Releasing' /\ Terminating' /\ Clearing'
    BY <1>3 DEF Empty, nubOf, Sole, Attaching, InArray, Registering, Releasing, Terminating,
       Clearing
  <2>5. InArray' /\ Apart' /\ Owned' /\ Fresh' /\ Seen'
    BY <1>3 DEF InArray, Apart, nubOf, Owned, Sole, Fresh, Seen
  <2>6. ~panicked'
    BY <1>3 DEF Attaching, Registering, Releasing, Terminating, Settled, InUse, Between,
       Ending, Phases, Sole, UnitsOK, nubOf, usable, freed
  <2> QED
    BY <2>1, <2>2, <2>3, <2>4, <2>5, <2>6 DEF Calm
<1>4. QED
  BY <1>1, <1>2, <1>3 DEF Inv

(* A scan has no unit yet.                                                 *)
LEMMA UnitSummaryStep ==
  ASSUME NEW x \in Scanners, Inv, unitSummary(x)
  PROVE  Inv'
<1> USE UnitAssumption DEF nubs, locals, history, unitSummary, mayScan, Scanners
<1> TypeOK /\ UnitsOK
  BY DEF Inv
<1>1. TypeOK'
  BY DEF TypeOK, UnitsOK, Busy, Adding, Removing, Starting, Units, Words, Callers, nubOf, Scanners
<1>2. UnitsOK'
  BY DEF TypeOK, UnitsOK, Busy, Adding, Removing, Callers, Scanners
<1>3. ASSUME calm' PROVE Calm'
  <2> Calm
    BY <1>3 DEF Inv, calm
  <2> /\ \A y \in Callers : pc[y] \in Busy => unit[y] \in Units
      /\ \A u \in Units : u \in Words /\ logicalUnit[u] \in Nubs \union {NULL}
    BY <1>3 DEF UnitsOK, TypeOK, Words, calm
  <2> USE DEF Calm, Busy, Adding, Removing, TypeOK, Callers, Scanners, calm
  <2>1. Sole' /\ Phases'
    BY <1>3 DEF Sole, Phases, Ending
  <2>2. Settled'
    BY <1>3 DEF Settled, InUse, Between, Ending, Sole, nubOf, UnitsOK
  <2>3. Empty' /\ Attaching' /\ Registering' /\ Releasing' /\ Terminating' /\ Clearing'
    BY <1>3 DEF Empty, nubOf, Sole, Attaching, InArray, Registering, Releasing, Terminating,
       Clearing
  <2>4. InArray' /\ Apart' /\ Owned' /\ Fresh' /\ Seen'
    BY <1>3 DEF InArray, Apart, nubOf, Owned, Sole, Fresh, Seen
  <2>5. ~panicked'
    BY <1>3 DEF Attaching, Registering, Releasing, Terminating, Settled, InUse, Between,
       Ending, Phases, Sole, UnitsOK, nubOf, usable, freed
  <2> QED
    BY <2>1, <2>2, <2>3, <2>4, <2>5 DEF Calm
<1>4. QED
  BY <1>1, <1>2, <1>3 DEF Inv

(* A scan's calls are recorded like a user client's.                       *)
LEMMA ProcessUnitStep ==
  ASSUME NEW x \in Scanners, NEW u \in Units, Inv, processUnit(x, u)
  PROVE  Inv'
<1> USE UnitAssumption DEF nubs, locals, history, processUnit, begin, busyWith, Scanners
<1> TypeOK /\ UnitsOK
  BY DEF Inv
<1>1. TypeOK'
  <2>1. pc' \in [Callers -> Adding \union Removing \union Starting
                            \union {"none", "idle", "scan", "gone"}]
    BY DEF TypeOK, Adding, Removing
  <2>2. /\ unit' \in [Callers -> Words \union {0, TWE_MAX_UNITS}]
        /\ \A y \in Callers :
             y \in Scanners \/ ~strayed' => unit'[y] \in Units \union {0, TWE_MAX_UNITS}
    <3>1. unit' = [unit EXCEPT ![x] = u] \/ unit' = [unit EXCEPT ![x] = u + 1]
      OBVIOUS
    <3>2. u + 1 \in Units \union {0, TWE_MAX_UNITS}
      BY DEF Units
    <3>3. QED
      BY <3>1, <3>2 DEF TypeOK, Words
  <2>3. overlapped' \in BOOLEAN
    <3>1. CASE logicalUnit[u] = NULL /\ begin(x, "add", u)
      BY <3>1 DEF begin
    <3>2. CASE logicalUnit[u] /= NULL /\ begin(x, "forced", u)
      BY <3>2 DEF begin
    <3>3. CASE UNCHANGED overlapped
      BY <3>3 DEF TypeOK
    <3>4. QED
      BY <3>1, <3>2, <3>3
  <2>4. QED
    BY <2>1, <2>2, <2>3 DEF TypeOK
<1>2. UnitsOK'
  <2>1. \A y \in Callers \ {x} : pc'[y] = pc[y] /\ unit'[y] = unit[y]
    BY DEF TypeOK, Callers
  <2>2. pc'[x] \in Busy => unit'[x] = u
    BY DEF TypeOK, Busy, Adding, Removing, Callers
  <2>3. QED
    BY <2>1, <2>2 DEF UnitsOK, Words
<1>3. ASSUME calm' PROVE Calm'
  <2> Calm
    BY <1>3 DEF Inv, calm
  <2> /\ \A y \in Callers : pc[y] \in Busy => unit[y] \in Units
      /\ \A v \in Units : v \in Words /\ logicalUnit[v] \in Nubs \union {NULL}
    BY <1>3 DEF UnitsOK, TypeOK, Words, calm
  <2> USE DEF Calm, Busy, Adding, Removing, TypeOK, Callers, Scanners, calm
  <2>1. Phases'
    BY <1>3 DEF Phases, Ending
  <2>2. Sole'
    <3> SUFFICES ASSUME NEW y \in Callers, NEW z \in Callers, pc'[y] \in Busy, pc'[z] \in
       Busy, y /= z
                 PROVE  unit'[y] /= unit'[z]
      BY DEF Sole
    <3>1. \A w \in Callers \ {x} : pc'[w] = pc[w] /\ unit'[w] = unit[w]
      OBVIOUS
    <3>2. CASE \E call \in {"add", "forced"} : begin(x, call, u)
      <4>1. unit'[x] = u /\ \A w \in Callers \ {x} : ~busyWith(w, u)
        BY <3>2, <1>3
      <4>2. \A w \in Callers \ {x} : pc[w] \in Busy => unit[w] /= u
        BY <4>1
      <4>3. QED
        BY <3>1, <4>1, <4>2 DEF Sole
    <3>3. CASE UNCHANGED pc
      BY <3>1, <3>3 DEF Sole
    <3>4. QED
      BY <3>2, <3>3
  <2>3. Settled'
    BY <1>3 DEF Settled, InUse, Between, Ending, Sole, nubOf, UnitsOK
  <2>4. Empty' /\ Attaching' /\ Registering' /\ Releasing' /\ Terminating' /\ Clearing'
    BY <1>3 DEF Empty, nubOf, Sole, Attaching, InArray, Registering, Releasing, Terminating,
       Clearing
  <2>5. InArray' /\ Apart' /\ Owned' /\ Fresh' /\ Seen'
    BY <1>3 DEF InArray, Apart, nubOf, Owned, Sole, Fresh, Seen
  <2>6. ~panicked'
    BY <1>3 DEF Attaching, Registering, Releasing, Terminating, Settled, InUse, Between,
       Ending, Phases, Sole, UnitsOK, nubOf, usable, freed
  <2> QED
    BY <2>1, <2>2, <2>3, <2>4, <2>5, <2>6 DEF Calm
<1>4. QED
  BY <1>1, <1>2, <1>3 DEF Inv

(* A scan ends without a unit.                                             *)
LEMMA ScannedStep ==
  ASSUME NEW x \in Scanners, Inv, scanned(x)
  PROVE  Inv'
<1> USE UnitAssumption DEF nubs, locals, history, scanned, Scanners
<1> TypeOK /\ UnitsOK
  BY DEF Inv
<1>1. TypeOK'
  BY DEF TypeOK, UnitsOK, Busy, Adding, Removing, Starting, Units, Words, Callers, nubOf, Scanners
<1>2. UnitsOK'
  BY DEF TypeOK, UnitsOK, Busy, Adding, Removing, Callers, Scanners
<1>3. ASSUME calm' PROVE Calm'
  <2> Calm
    BY <1>3 DEF Inv, calm
  <2> /\ \A y \in Callers : pc[y] \in Busy => unit[y] \in Units
      /\ \A u \in Units : u \in Words /\ logicalUnit[u] \in Nubs \union {NULL}
    BY <1>3 DEF UnitsOK, TypeOK, Words, calm
  <2> USE DEF Calm, Busy, Adding, Removing, TypeOK, Callers, Scanners, calm
  <2>1. Sole' /\ Phases'
    BY <1>3 DEF Sole, Phases, Ending
  <2>2. Settled'
    BY <1>3 DEF Settled, InUse, Between, Ending, Sole, nubOf, UnitsOK
  <2>3. Empty' /\ Attaching' /\ Registering' /\ Releasing' /\ Terminating' /\ Clearing'
    BY <1>3 DEF Empty, nubOf, Sole, Attaching, InArray, Registering, Releasing, Terminating,
       Clearing
  <2>4. InArray' /\ Apart' /\ Owned' /\ Fresh' /\ Seen'
    BY <1>3 DEF InArray, Apart, nubOf, Owned, Sole, Fresh, Seen
  <2>5. ~panicked'
    BY <1>3 DEF Attaching, Registering, Releasing, Terminating, Settled, InUse, Between,
       Ending, Phases, Sole, UnitsOK, nubOf, usable, freed
  <2> QED
    BY <2>1, <2>2, <2>3, <2>4, <2>5 DEF Calm
<1>4. QED
  BY <1>1, <1>2, <1>3 DEF Inv

(* From here on there are pools.                                           *)
LEMMA CreateCommandsStep ==
  ASSUME Inv, createCommands
  PROVE  Inv'
<1> USE UnitAssumption DEF nubs, locals, history, createCommands, startFrom
<1> TypeOK /\ UnitsOK
  BY DEF Inv
<1>1. TypeOK'
  BY DEF TypeOK, UnitsOK, Busy, Adding, Removing, Starting, Units, Words, Callers, nubOf, Scanners
<1>2. UnitsOK'
  BY DEF TypeOK, UnitsOK, Busy, Adding, Removing, Callers, Scanners
<1>3. ASSUME calm' PROVE Calm'
  <2> Calm
    BY <1>3 DEF Inv, calm
  <2> /\ \A y \in Callers : pc[y] \in Busy => unit[y] \in Units
      /\ \A u \in Units : u \in Words /\ logicalUnit[u] \in Nubs \union {NULL}
    BY <1>3 DEF UnitsOK, TypeOK, Words, calm
  <2> USE DEF Calm, Busy, Adding, Removing, TypeOK, Callers, Scanners, calm
  <2>1. Sole' /\ Phases'
    BY <1>3 DEF Sole, Phases, Ending
  <2>2. Settled'
    BY <1>3 DEF Settled, InUse, Between, Ending, Sole, nubOf, UnitsOK
  <2>3. Empty' /\ Attaching' /\ Registering' /\ Releasing' /\ Terminating' /\ Clearing'
    BY <1>3 DEF Empty, nubOf, Sole, Attaching, InArray, Registering, Releasing, Terminating,
       Clearing
  <2>4. InArray' /\ Apart' /\ Owned' /\ Fresh' /\ Seen'
    BY <1>3 DEF InArray, Apart, nubOf, Owned, Sole, Fresh, Seen
  <2>5. ~panicked'
    BY <1>3 DEF Attaching, Registering, Releasing, Terminating, Settled, InUse, Between,
       Ending, Phases, Sole, UnitsOK, nubOf, usable, freed
  <2> QED
    BY <2>1, <2>2, <2>3, <2>4, <2>5 DEF Calm
<1>4. QED
  BY <1>1, <1>2, <1>3 DEF Inv

(* The support thread comes after the pools.                               *)
LEMMA CreateThreadStep ==
  ASSUME Inv, createThread
  PROVE  Inv'
<1> USE UnitAssumption DEF nubs, locals, history, createThread
<1> TypeOK /\ UnitsOK
  BY DEF Inv
<1>1. TypeOK'
  BY DEF TypeOK, UnitsOK, Busy, Adding, Removing, Starting, Units, Words, Callers, nubOf, Scanners
<1>2. UnitsOK'
  BY DEF TypeOK, UnitsOK, Busy, Adding, Removing, Callers, Scanners
<1>3. ASSUME calm' PROVE Calm'
  <2> Calm
    BY <1>3 DEF Inv, calm
  <2> /\ \A y \in Callers : pc[y] \in Busy => unit[y] \in Units
      /\ \A u \in Units : u \in Words /\ logicalUnit[u] \in Nubs \union {NULL}
    BY <1>3 DEF UnitsOK, TypeOK, Words, calm
  <2> USE DEF Calm, Busy, Adding, Removing, TypeOK, Callers, Scanners, calm
  <2>1. Sole' /\ Phases'
    BY <1>3 DEF Sole, Phases, Ending
  <2>2. Settled'
    <3>1. pc[StartThread] \notin Ending /\ \A y \in Callers : pc[y] \in Between =>
            y /= StartThread /\ y /= SupportThread /\ pc'[y] = pc[y]
      BY DEF Between, Ending, Phases
    <3>2. \A u \in Units : InUse(logicalUnit[u])' <=> InUse(logicalUnit[u])
      BY DEF InUse
    <3>3. QED
      BY <3>1, <3>2 DEF Settled
  <2>3. Empty' /\ Attaching' /\ Registering' /\ Releasing' /\ Terminating' /\ Clearing'
    BY <1>3 DEF Empty, nubOf, Sole, Attaching, InArray, Registering, Releasing, Terminating,
       Clearing
  <2>4. InArray' /\ Apart' /\ Fresh' /\ Seen'
    BY <1>3 DEF InArray, Apart, nubOf, Fresh, Seen
  <2>5. Owned'
    <3>1. \A y \in Callers : pc[y] \in Busy =>
            y /= StartThread /\ y /= SupportThread /\ pc'[y] = pc[y]
      BY DEF Phases
    <3>2. \A y \in Callers : nubOf(y)' = nubOf(y)
      BY DEF nubOf
    <3>3. QED
      BY <3>1, <3>2 DEF Owned
  <2>6. ~panicked'
    BY <1>3 DEF Attaching, Registering, Releasing, Terminating, Settled, InUse, Between,
       Ending, Phases, Sole, UnitsOK, nubOf, usable, freed
  <2> QED
    BY <2>1, <2>2, <2>3, <2>4, <2>5, <2>6 DEF Calm
<1>4. QED
  BY <1>1, <1>2, <1>3 DEF Inv

(* start goes on.                                                          *)
LEMMA InitControllerStep ==
  ASSUME Inv, initController
  PROVE  Inv'
<1> USE UnitAssumption DEF nubs, locals, history, initController, startFrom
<1> TypeOK /\ UnitsOK
  BY DEF Inv
<1>1. TypeOK'
  BY DEF TypeOK, UnitsOK, Busy, Adding, Removing, Starting, Units, Words, Callers, nubOf, Scanners
<1>2. UnitsOK'
  BY DEF TypeOK, UnitsOK, Busy, Adding, Removing, Callers, Scanners
<1>3. ASSUME calm' PROVE Calm'
  <2> Calm
    BY <1>3 DEF Inv, calm
  <2> /\ \A y \in Callers : pc[y] \in Busy => unit[y] \in Units
      /\ \A u \in Units : u \in Words /\ logicalUnit[u] \in Nubs \union {NULL}
    BY <1>3 DEF UnitsOK, TypeOK, Words, calm
  <2> USE DEF Calm, Busy, Adding, Removing, TypeOK, Callers, Scanners, calm
  <2>1. Sole' /\ Phases'
    BY <1>3 DEF Sole, Phases, Ending
  <2>2. Settled'
    BY <1>3 DEF Settled, InUse, Between, Ending, Sole, nubOf, UnitsOK
  <2>3. Empty' /\ Attaching' /\ Registering' /\ Releasing' /\ Terminating' /\ Clearing'
    BY <1>3 DEF Empty, nubOf, Sole, Attaching, InArray, Registering, Releasing, Terminating,
       Clearing
  <2>4. InArray' /\ Apart' /\ Owned' /\ Fresh' /\ Seen'
    BY <1>3 DEF InArray, Apart, nubOf, Owned, Sole, Fresh, Seen
  <2>5. ~panicked'
    BY <1>3 DEF Attaching, Registering, Releasing, Terminating, Settled, InUse, Between,
       Ending, Phases, Sole, UnitsOK, nubOf, usable, freed
  <2> QED
    BY <2>1, <2>2, <2>3, <2>4, <2>5 DEF Calm
<1>4. QED
  BY <1>1, <1>2, <1>3 DEF Inv

(* start gives up; before the pools nobody else works.                     *)
LEMMA StartFailsStep ==
  ASSUME Inv, startFails
  PROVE  Inv'
<1> USE UnitAssumption DEF nubs, locals, history, startFails, startFrom
<1> TypeOK /\ UnitsOK
  BY DEF Inv
<1>1. TypeOK'
  BY DEF TypeOK, UnitsOK, Busy, Adding, Removing, Starting, Units, Words, Callers, nubOf, Scanners
<1>2. UnitsOK'
  BY DEF TypeOK, UnitsOK, Busy, Adding, Removing, Callers, Scanners
<1>3. ASSUME calm' PROVE Calm'
  <2> Calm
    BY <1>3 DEF Inv, calm
  <2> /\ \A y \in Callers : pc[y] \in Busy => unit[y] \in Units
      /\ \A u \in Units : u \in Words /\ logicalUnit[u] \in Nubs \union {NULL}
    BY <1>3 DEF UnitsOK, TypeOK, Words, calm
  <2> USE DEF Calm, Busy, Adding, Removing, TypeOK, Callers, Scanners, calm
  <2>1. Sole' /\ Phases'
    BY <1>3 DEF Sole, Phases, Ending
  <2>2. Settled'
    BY <1>3 DEF Settled, InUse, Between, Ending, Sole, nubOf, UnitsOK
  <2>3. Empty' /\ Attaching' /\ Registering' /\ Releasing' /\ Terminating' /\ Clearing'
    BY <1>3 DEF Empty, nubOf, Sole, Attaching, InArray, Registering, Releasing, Terminating,
       Clearing
  <2>4. InArray' /\ Apart' /\ Owned' /\ Fresh' /\ Seen'
    BY <1>3 DEF InArray, Apart, nubOf, Owned, Sole, Fresh, Seen
  <2>5. ~panicked'
    BY <1>3 DEF Attaching, Registering, Releasing, Terminating, Settled, InUse, Between,
       Ending, Phases, Sole, UnitsOK, nubOf, usable, freed
  <2> QED
    BY <2>1, <2>2, <2>3, <2>4, <2>5 DEF Calm
<1>4. QED
  BY <1>1, <1>2, <1>3 DEF Inv

(* The nubs go when nobody works on them, or it is recorded.               *)
LEMMA TerminateControllerStep ==
  ASSUME Inv, terminateController
  PROVE  Inv'
<1> USE UnitAssumption DEF nubs, locals, history, terminateController
<1> TypeOK /\ UnitsOK
  BY DEF Inv
<1>1. TypeOK'
  BY DEF TypeOK, UnitsOK, Busy, Adding, Removing, Starting, Units, Words, Callers, nubOf, Scanners
<1>2. UnitsOK'
  BY DEF TypeOK, UnitsOK, Busy, Adding, Removing, Callers, Scanners
<1>3. ASSUME calm' PROVE Calm'
  <2> Calm
    BY <1>3 DEF Inv, calm
  <2> /\ \A y \in Callers : pc[y] \in Busy => unit[y] \in Units
      /\ \A u \in Units : u \in Words /\ logicalUnit[u] \in Nubs \union {NULL}
    BY <1>3 DEF UnitsOK, TypeOK, Words, calm
  <2> USE DEF Calm, Busy, Adding, Removing, TypeOK, Callers, Scanners, calm
  <2>1. Sole' /\ Phases'
    BY <1>3 DEF Sole, Phases, Ending
  <2>2. Settled'
    BY <1>3 DEF Settled, InUse, Between, Ending, Sole, nubOf, UnitsOK
  <2>3. Empty' /\ Attaching' /\ Registering' /\ Releasing' /\ Terminating' /\ Clearing'
    BY <1>3 DEF Empty, nubOf, Sole, Attaching, InArray, Registering, Releasing, Terminating,
       Clearing
  <2>4. InArray' /\ Apart' /\ Owned' /\ Fresh' /\ Seen'
    BY <1>3 DEF InArray, Apart, nubOf, Owned, Sole, Fresh, Seen
  <2>5. ~panicked'
    BY <1>3 DEF Attaching, Registering, Releasing, Terminating, Settled, InUse, Between,
       Ending, Phases, Sole, UnitsOK, nubOf, usable, freed
  <2> QED
    BY <2>1, <2>2, <2>3, <2>4, <2>5 DEF Calm
<1>4. QED
  BY <1>1, <1>2, <1>3 DEF Inv

(* The pools go when nobody works.                                         *)
LEMMA StopStep ==
  ASSUME Inv, stop
  PROVE  Inv'
<1> USE UnitAssumption DEF nubs, locals, history, stop, startFrom
<1> TypeOK /\ UnitsOK
  BY DEF Inv
<1>1. TypeOK'
  BY DEF TypeOK, UnitsOK, Busy, Adding, Removing, Starting, Units, Words, Callers, nubOf, Scanners
<1>2. UnitsOK'
  BY DEF TypeOK, UnitsOK, Busy, Adding, Removing, Callers, Scanners
<1>3. ASSUME calm' PROVE Calm'
  <2> Calm
    BY <1>3 DEF Inv, calm
  <2> /\ \A y \in Callers : pc[y] \in Busy => unit[y] \in Units
      /\ \A u \in Units : u \in Words /\ logicalUnit[u] \in Nubs \union {NULL}
    BY <1>3 DEF UnitsOK, TypeOK, Words, calm
  <2> USE DEF Calm, Busy, Adding, Removing, TypeOK, Callers, Scanners, calm
  <2>1. Sole' /\ Phases'
    BY <1>3 DEF Sole, Phases, Ending
  <2>2. Settled'
    BY <1>3 DEF Settled, InUse, Between, Ending, Sole, nubOf, UnitsOK
  <2>3. Empty' /\ Attaching' /\ Registering' /\ Releasing' /\ Terminating' /\ Clearing'
    BY <1>3 DEF Empty, nubOf, Sole, Attaching, InArray, Registering, Releasing, Terminating,
       Clearing
  <2>4. InArray' /\ Apart' /\ Owned' /\ Fresh' /\ Seen'
    BY <1>3 DEF InArray, Apart, nubOf, Owned, Sole, Fresh, Seen
  <2>5. ~panicked'
    BY <1>3 DEF Attaching, Registering, Releasing, Terminating, Settled, InUse, Between,
       Ending, Phases, Sole, UnitsOK, nubOf, usable, freed
  <2> QED
    BY <2>1, <2>2, <2>3, <2>4, <2>5 DEF Calm
<1>4. QED
  BY <1>1, <1>2, <1>3 DEF Inv

(* The support thread is gone.                                             *)
LEMMA SupportThreadEndsStep ==
  ASSUME Inv, supportThreadEnds
  PROVE  Inv'
<1> USE UnitAssumption DEF nubs, locals, history, supportThreadEnds
<1> TypeOK /\ UnitsOK
  BY DEF Inv
<1>1. TypeOK'
  BY DEF TypeOK, UnitsOK, Busy, Adding, Removing, Starting, Units, Words, Callers, nubOf, Scanners
<1>2. UnitsOK'
  BY DEF TypeOK, UnitsOK, Busy, Adding, Removing, Callers, Scanners
<1>3. ASSUME calm' PROVE Calm'
  <2> Calm
    BY <1>3 DEF Inv, calm
  <2> /\ \A y \in Callers : pc[y] \in Busy => unit[y] \in Units
      /\ \A u \in Units : u \in Words /\ logicalUnit[u] \in Nubs \union {NULL}
    BY <1>3 DEF UnitsOK, TypeOK, Words, calm
  <2> USE DEF Calm, Busy, Adding, Removing, TypeOK, Callers, Scanners, calm
  <2>1. Sole' /\ Phases'
    BY <1>3 DEF Sole, Phases, Ending
  <2>2. Settled'
    BY <1>3 DEF Settled, InUse, Between, Ending, Sole, nubOf, UnitsOK
  <2>3. Empty' /\ Attaching' /\ Registering' /\ Releasing' /\ Terminating' /\ Clearing'
    BY <1>3 DEF Empty, nubOf, Sole, Attaching, InArray, Registering, Releasing, Terminating,
       Clearing
  <2>4. InArray' /\ Apart' /\ Owned' /\ Fresh' /\ Seen'
    BY <1>3 DEF InArray, Apart, nubOf, Owned, Sole, Fresh, Seen
  <2>5. ~panicked'
    BY <1>3 DEF Attaching, Registering, Releasing, Terminating, Settled, InUse, Between,
       Ending, Phases, Sole, UnitsOK, nubOf, usable, freed
  <2> QED
    BY <2>1, <2>2, <2>3, <2>4, <2>5 DEF Calm
<1>4. QED
  BY <1>1, <1>2, <1>3 DEF Inv

(* A media client changes nothing the calls rely on.                       *)
LEMMA OpenStep ==
  ASSUME NEW n \in Nubs, Inv, open(n)
  PROVE  Inv'
<1> USE UnitAssumption DEF nubs, locals, history, open
<1> TypeOK /\ UnitsOK
  BY DEF Inv
<1>1. TypeOK'
  BY DEF TypeOK, UnitsOK, Busy, Adding, Removing, Starting, Units, Words, Callers, nubOf, Scanners
<1>2. UnitsOK'
  BY DEF TypeOK, UnitsOK, Busy, Adding, Removing, Callers, Scanners
<1>3. ASSUME calm' PROVE Calm'
  <2> Calm
    BY <1>3 DEF Inv, calm
  <2> /\ \A y \in Callers : pc[y] \in Busy => unit[y] \in Units
      /\ \A u \in Units : u \in Words /\ logicalUnit[u] \in Nubs \union {NULL}
    BY <1>3 DEF UnitsOK, TypeOK, Words, calm
  <2> USE DEF Calm, Busy, Adding, Removing, TypeOK, Callers, Scanners, calm
  <2>1. Sole' /\ Phases'
    BY <1>3 DEF Sole, Phases, Ending
  <2>2. Settled'
    BY <1>3 DEF Settled, InUse, Between, Ending, Sole, nubOf, UnitsOK
  <2>3. Empty' /\ Attaching' /\ Registering' /\ Releasing' /\ Terminating' /\ Clearing'
    BY <1>3 DEF Empty, nubOf, Sole, Attaching, InArray, Registering, Releasing, Terminating,
       Clearing
  <2>4. InArray' /\ Apart' /\ Owned' /\ Fresh' /\ Seen'
    BY <1>3 DEF InArray, Apart, nubOf, Owned, Sole, Fresh, Seen
  <2>5. ~panicked'
    BY <1>3 DEF Attaching, Registering, Releasing, Terminating, Settled, InUse, Between,
       Ending, Phases, Sole, UnitsOK, nubOf, usable, freed
  <2> QED
    BY <2>1, <2>2, <2>3, <2>4, <2>5 DEF Calm
<1>4. QED
  BY <1>1, <1>2, <1>3 DEF Inv

(* A media client changes nothing the calls rely on.                       *)
LEMMA CloseStep ==
  ASSUME NEW n \in Nubs, Inv, close(n)
  PROVE  Inv'
<1> USE UnitAssumption DEF nubs, locals, history, close
<1> TypeOK /\ UnitsOK
  BY DEF Inv
<1>1. TypeOK'
  BY DEF TypeOK, UnitsOK, Busy, Adding, Removing, Starting, Units, Words, Callers, nubOf, Scanners
<1>2. UnitsOK'
  BY DEF TypeOK, UnitsOK, Busy, Adding, Removing, Callers, Scanners
<1>3. ASSUME calm' PROVE Calm'
  <2> Calm
    BY <1>3 DEF Inv, calm
  <2> /\ \A y \in Callers : pc[y] \in Busy => unit[y] \in Units
      /\ \A u \in Units : u \in Words /\ logicalUnit[u] \in Nubs \union {NULL}
    BY <1>3 DEF UnitsOK, TypeOK, Words, calm
  <2> USE DEF Calm, Busy, Adding, Removing, TypeOK, Callers, Scanners, calm
  <2>1. Sole' /\ Phases'
    BY <1>3 DEF Sole, Phases, Ending
  <2>2. Settled'
    BY <1>3 DEF Settled, InUse, Between, Ending, Sole, nubOf, UnitsOK
  <2>3. Empty' /\ Attaching' /\ Registering' /\ Releasing' /\ Terminating' /\ Clearing'
    BY <1>3 DEF Empty, nubOf, Sole, Attaching, InArray, Registering, Releasing, Terminating,
       Clearing
  <2>4. InArray' /\ Apart' /\ Owned' /\ Fresh' /\ Seen'
    BY <1>3 DEF InArray, Apart, nubOf, Owned, Sole, Fresh, Seen
  <2>5. ~panicked'
    BY <1>3 DEF Attaching, Registering, Releasing, Terminating, Settled, InUse, Between,
       Ending, Phases, Sole, UnitsOK, nubOf, usable, freed
  <2> QED
    BY <2>1, <2>2, <2>3, <2>4, <2>5 DEF Calm
<1>4. QED
  BY <1>1, <1>2, <1>3 DEF Inv

(* The registry lets go only of what was terminated.                       *)
LEMMA DetachStep ==
  ASSUME NEW n \in Nubs, Inv, detach(n)
  PROVE  Inv'
<1> USE UnitAssumption DEF nubs, locals, history, detach
<1> TypeOK /\ UnitsOK
  BY DEF Inv
<1>1. TypeOK'
  BY DEF TypeOK, UnitsOK, Busy, Adding, Removing, Starting, Units, Words, Callers, nubOf, Scanners
<1>2. UnitsOK'
  BY DEF TypeOK, UnitsOK, Busy, Adding, Removing, Callers, Scanners
<1>3. ASSUME calm' PROVE Calm'
  <2> Calm
    BY <1>3 DEF Inv, calm
  <2> /\ \A y \in Callers : pc[y] \in Busy => unit[y] \in Units
      /\ \A u \in Units : u \in Words /\ logicalUnit[u] \in Nubs \union {NULL}
    BY <1>3 DEF UnitsOK, TypeOK, Words, calm
  <2> USE DEF Calm, Busy, Adding, Removing, TypeOK, Callers, Scanners, calm
  <2>1. Sole' /\ Phases'
    BY <1>3 DEF Sole, Phases, Ending
  <2>2. Settled'
    BY <1>3 DEF Settled, InUse, Between, Ending, Sole, nubOf, UnitsOK
  <2>3. Empty' /\ Attaching' /\ Registering' /\ Releasing' /\ Terminating' /\ Clearing'
    BY <1>3 DEF Empty, nubOf, Sole, Attaching, InArray, Registering, Releasing, Terminating,
       Clearing
  <2>4. InArray' /\ Apart' /\ Owned' /\ Fresh' /\ Seen'
    BY <1>3 DEF InArray, Apart, nubOf, Owned, Sole, Fresh, Seen
  <2>5. ~panicked'
    BY <1>3 DEF Attaching, Registering, Releasing, Terminating, Settled, InUse, Between,
       Ending, Phases, Sole, UnitsOK, nubOf, usable, freed
  <2> QED
    BY <2>1, <2>2, <2>3, <2>4, <2>5 DEF Calm
<1>4. QED
  BY <1>1, <1>2, <1>3 DEF Inv

(* A word about the array changes only under a call that has strayed.      *)
LEMMA OwnerWritesStep ==
  ASSUME NEW w \in OutOfRange, Inv, ownerWrites(w)
  PROVE  Inv'
<1> USE UnitAssumption DEF nubs, locals, history, ownerWrites
<1> TypeOK /\ UnitsOK
  BY DEF Inv
<1>1. TypeOK'
  BY DEF TypeOK, Words
<1>2. UnitsOK'
  BY DEF UnitsOK
<1>3. ASSUME calm' PROVE Calm'
  <2> Calm
    BY <1>3 DEF Inv, calm
  <2>1. \A y \in Callers : pc[y] \in Busy => unit[y] \in Units
    BY <1>3 DEF UnitsOK, calm
  <2>2. PICK x \in Callers : pc[x] \in Busy /\ unit[x] = w
    BY DEF busyWith, Busy
  <2>3. QED
    BY <2>1, <2>2
<1>4. QED
  BY <1>1, <1>2, <1>3 DEF Inv

(* Nor does one hold a nub before.                                         *)
LEMMA OwnerMisledStep ==
  ASSUME NEW w \in OutOfRange, Inv, ownerMisled(w)
  PROVE  Inv'
<1> USE UnitAssumption DEF nubs, locals, history, ownerMisled, panic
<1> TypeOK /\ UnitsOK
  BY DEF Inv
<1>1. TypeOK'
  BY DEF TypeOK, Words
<1>2. UnitsOK'
  BY DEF UnitsOK
<1>3. ASSUME calm' PROVE Calm'
  <2> Calm
    BY <1>3 DEF Inv, calm
  <2>1. logicalUnit[w] \notin Nubs
    BY <1>3 DEF Apart, calm, Calm
  <2>2. QED
    BY <2>1
<1>4. QED
  BY <1>1, <1>2, <1>3 DEF Inv

-----------------------------------------------------------------------------
(* Every step keeps the invariant. *)
LEMMA StepInv == Inv /\ [Next]_vars => Inv'
<1> SUFFICES ASSUME Inv, [Next]_vars PROVE Inv'
  OBVIOUS
<1>1. CASE UNCHANGED vars
  <2>1. TypeOK' /\ UnitsOK'
    BY <1>1 DEF Inv, TypeOK, UnitsOK, vars, nubs, locals, history
  <2>2. ASSUME calm' PROVE Calm'
    <3> Calm
      BY <1>1, <2>2 DEF Inv, calm, vars, history
    <3>1. Sole' /\ Phases' /\ ~panicked'
      BY <1>1 DEF Calm, Sole, Phases, vars, locals
    <3>2. Settled' /\ Empty' /\ Attaching' /\ Registering' /\ Releasing'
      BY <1>1 DEF Calm, Settled, InUse, Empty, Attaching, Registering, Releasing, nubOf,
                  vars, nubs, locals
    <3>3. Terminating' /\ Clearing' /\ InArray' /\ Apart' /\ Owned' /\ Fresh' /\ Seen'
      BY <1>1 DEF Calm, Terminating, Clearing, InArray, Apart, Owned, Fresh, Seen, nubOf,
                  vars, nubs, locals
    <3>4. QED
      BY <3>1, <3>2, <3>3 DEF Calm
  <2>3. QED
    BY <2>1, <2>2 DEF Inv
<1>2. ASSUME NEW x \in Callers, CallerStep(x) PROVE Inv'
  BY <1>2, AddUnitStep, ReadParamsStep, NoPoolsStep, NewDriveStep, AttachStep,
     RegisterServiceStep, ReleaseStep, MisusedNubStep, FindUnitStep, TerminateStep,
     ClearUnitStep, MisusedUnitStep DEF CallerStep
<1>3. ASSUME NEW x \in UserClients, userCall(x) PROVE Inv'
  BY <1>3, UserCallStep
<1>4. ASSUME NEW x \in Scanners,
             unitSummary(x) \/ scanned(x) \/ \E u \in Units : processUnit(x, u)
      PROVE  Inv'
  BY <1>4, UnitSummaryStep, ScannedStep, ProcessUnitStep
<1>5. CASE createCommands \/ createThread \/ initController \/ startFails
  BY <1>5, CreateCommandsStep, CreateThreadStep, InitControllerStep, StartFailsStep
<1>6. CASE terminateController \/ stop \/ supportThreadEnds
  BY <1>6, TerminateControllerStep, StopStep, SupportThreadEndsStep
<1>7. ASSUME NEW n \in Nubs, open(n) \/ close(n) \/ detach(n) PROVE Inv'
  BY <1>7, OpenStep, CloseStep, DetachStep
<1>8. ASSUME NEW w \in OutOfRange, ownerWrites(w) \/ ownerMisled(w) PROVE Inv'
  BY <1>8, OwnerWritesStep, OwnerMisledStep
<1>9. QED
  BY <1>1, <1>2, <1>3, <1>4, <1>5, <1>6, <1>7, <1>8 DEF Next

(* The invariant holds in every reachable state. *)
THEOREM Invariance == Spec => []Inv
<1>1. Init => Inv
  BY InitInv
<1>2. Inv /\ [Next]_vars => Inv'
  BY StepInv
<1>3. QED
  BY <1>1, <1>2, PTL DEF Spec

(* Every reachable state is well typed: the array holds nubs only and a     *)
(* scan never leaves it; a user client's call does so only if it names a    *)
(* unit that is not in it (findLogicalUnits, doAddUnit, doRemoveUnit).      *)
THEOREM UnitsTypeCorrect == Spec => []TypeOK
<1>1. Inv => TypeOK
  BY DEF Inv
<1>2. QED
  BY Invariance, <1>1, PTL

(* While calls for a unit do not overlap, none names a unit outside the    *)
(* array and none comes too early or too late, no nub or pool is used that *)
(* is not there.                                                           *)
THEOREM NobodyPanics == Spec => []NoPanic
<1>1. Inv => NoPanic
  BY DEF Inv, Calm, NoPanic
<1>2. QED
  BY Invariance, <1>1, PTL

(* In the same histories each nub the system can see is in its unit's      *)
(* place.                                                                  *)
THEOREM NobodyIsOrphaned == Spec => []NoOrphan
<1>1. Inv => NoOrphan
  BY DEF Inv, Calm, Seen, NoOrphan
<1>2. QED
  BY Invariance, <1>1, PTL

(* In the same histories each nub that doAddUnit has a reference on is being *)
(* added, and that reference is given up.                                  *)
THEOREM NothingLeaks == Spec => []NoLeak
<1>1. Inv => NoLeak
  BY DEF Inv, Calm, Owned, NoLeak, busyWith, Adding
<1>2. QED
  BY Invariance, <1>1, PTL

=============================================================================
