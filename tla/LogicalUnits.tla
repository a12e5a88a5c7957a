---------------------------- MODULE LogicalUnits ----------------------------
(***************************************************************************)
(* The logical units of the controller and their drive nubs: the scan at   *)
(* the end of start, the support thread's rescans and the user clients add *)
(* and remove units, each on its own thread and without the gate, while    *)
(* media clients open the nubs and the registry finalises those that were  *)
(* terminated.  User clients may come as soon as the controller is         *)
(* registered, and that is before it has any commands; stop destroys them  *)
(* without waiting for the support thread.  A user client names a unit by  *)
(* an int that nobody checks: one outside the array reaches the words of   *)
(* something else.                                                         *)
(*                                                                         *)
(* logicalUnit[] is read again before each use, as in doAddUnit; a step    *)
(* ends at a call that may block (a parameter read, attach, terminate,     *)
(* registerService).                                                       *)
(***************************************************************************)
EXTENDS Integers, FiniteSets

CONSTANTS
  TWE_MAX_UNITS,
  Nubs,                \* the drive nubs there is memory for
  UserClients, SupportThread,
  StartThread,         \* the thread that start, and later stop, runs on
  OutOfRange,          \* what else user clients call a unit (any int in the code)
  NULL,
  Foreign              \* a word that is no nub

Units == 0 .. TWE_MAX_UNITS - 1
Words == Units \union OutOfRange
Scanners == {SupportThread, StartThread}
Callers == UserClients \union Scanners

ASSUME UnitAssumption ==
  /\ TWE_MAX_UNITS \in Nat
  /\ OutOfRange \subseteq Int /\ OutOfRange \intersect Units = {}
  /\ NULL \notin Nubs /\ Foreign \notin Nubs /\ Foreign /= NULL
  /\ SupportThread \notin UserClients /\ StartThread \notin UserClients
  /\ SupportThread /= StartThread

VARIABLES
  logicalUnit,         \* the array, and the words about it that an index reaches
  life,                \* what became of each nub
  owned,               \* the nubs doAddUnit has still to release
  registry,            \* the nubs the registry retains
  isOpen,              \* the nubs a media client has opened
  unitOf,              \* the unit each nub was made for
  pc, unit, pUnit,     \* each caller's place, and its arguments and locals
  pools,               \* the command pools, of createCommands, are there
  panicked,            \* a word that is no nub, or no longer one, or a NULL pool was used
  overlapped,          \* history: two calls for one unit at the same time
  unready,             \* history: a call while there are no pools, or as they go
  strayed              \* history: a call for a unit outside the array

nubs == <<life, owned, registry, isOpen, unitOf>>
locals == <<unit, pUnit>>
history == <<overlapped, unready, strayed>>
vars == <<logicalUnit, nubs, pc, locals, pools, panicked, history>>

Adding == {"add", "params", "new", "attach", "register", "release"}
Removing == {"remove", "forced", "terminate", "clear"}
Starting == {"registered", "commands", "thread", "ready", "failed", "terminating", "stopped"}

Init ==
  /\ logicalUnit = [u \in Words |-> IF u \in Units THEN NULL ELSE Foreign]
  /\ life = [n \in Nubs |-> "unused"]
  /\ owned = {} /\ registry = {} /\ isOpen = {}
  /\ unitOf = [n \in Nubs |-> 0]
  /\ pc = [x \in Callers |-> IF x = StartThread THEN "registered"
                             ELSE IF x = SupportThread THEN "none" ELSE "idle"]
  /\ unit = [x \in Callers |-> 0]
  /\ pUnit = [x \in Callers |-> NULL]
  /\ pools = FALSE /\ panicked = FALSE /\ overlapped = FALSE /\ unready = FALSE
  /\ strayed = FALSE

\* Nothing retains it any more.
freed(n) == life[n] /= "unused" /\ n \notin owned /\ n \notin registry
usable(n) == n \in Nubs /\ ~freed(n)

busyWith(x, u) == pc[x] \in Adding \union Removing /\ unit[x] = u

\* Caller x begins a call for unit u.
begin(x, call, u) ==
  /\ pc' = [pc EXCEPT ![x] = call]
  /\ unit' = [unit EXCEPT ![x] = u]
  /\ overlapped' = (overlapped \/ \E y \in Callers \ {x} : busyWith(y, u))

\* The scan's loop variable after a call; a variant that also steps it in the
\* loop's body.
steppedTwice(x) == unit[x] + 2
stepped(x) == unit[x] + 1

\* Where a call returns to: a user client's is over, a scan goes on.
return(x) ==
  IF x \in Scanners
  THEN /\ pc' = [pc EXCEPT ![x] = "scan"]
       /\ unit' = [unit EXCEPT ![x] = stepped(x)]
  ELSE /\ pc' = [pc EXCEPT ![x] = "idle"]
       /\ unit' = [unit EXCEPT ![x] = 0]
goto(x, place) == pc' = [pc EXCEPT ![x] = place] /\ UNCHANGED unit

panic == panicked' = TRUE /\ UNCHANGED <<logicalUnit, nubs, pc, locals, pools, history>>

\* The support thread looks for ST_DO_TERMINATE before anything else; a variant
\* that looks for it last.
terminatesLast(x) == TRUE
mayScan(x) == x = SupportThread => pc[StartThread] /= "stopped"
-----------------------------------------------------------------------------
(* doAddUnit *)

\* "sanity"; a variant without it.
unchecked(u) == TRUE
vacant(u) == logicalUnit[u] = NULL

addUnit(x) ==
  /\ pc[x] = "add"
  /\ IF vacant(unit[x]) THEN goto(x, "params") ELSE return(x)
  /\ UNCHANGED <<logicalUnit, nubs, pUnit, pools, panicked, history>>

\* Capacity, descriptor size, descriptor: any may fail, a size may be zero.
readParams(x) ==
  /\ pc[x] = "params" /\ pools
  /\ goto(x, "new") \/ return(x)
  /\ UNCHANGED <<logicalUnit, nubs, pUnit, pools, panicked, history>>

newDrive(x) ==
  /\ pc[x] = "new"
  /\ \/ \E n \in Nubs :
          /\ life[n] = "unused"
          /\ life' = [life EXCEPT ![n] = "new"]
          /\ owned' = owned \union {n}
          /\ unitOf' = [unitOf EXCEPT ![n] = unit[x]]
          /\ logicalUnit' = [logicalUnit EXCEPT ![unit[x]] = n]
          /\ goto(x, "attach")
     \/ /\ \A n \in Nubs : life[n] /= "unused"
        /\ logicalUnit' = [logicalUnit EXCEPT ![unit[x]] = NULL]
        /\ return(x) /\ UNCHANGED <<life, owned, unitOf>>
  /\ UNCHANGED <<registry, isOpen, pUnit, pools, panicked, history>>

\* The unit's nub, as doAddUnit finds it in the array.
nubOf(x) == logicalUnit[unit[x]]

cleared(x) == [logicalUnit EXCEPT ![unit[x]] = NULL]

attach(x) ==
  /\ pc[x] = "attach" /\ usable(nubOf(x))
  /\ \/ /\ registry' = registry \union {nubOf(x)}
        /\ goto(x, "register") /\ UNCHANGED <<owned, logicalUnit>>
     \/ /\ owned' = owned \ {nubOf(x)}
        /\ logicalUnit' = cleared(x)
        /\ return(x) /\ UNCHANGED registry
  /\ UNCHANGED <<life, isOpen, unitOf, pUnit, pools, panicked, history>>

registerService(x) ==
  /\ pc[x] = "register" /\ usable(nubOf(x))
  /\ life' = [life EXCEPT ![nubOf(x)] = IF @ = "new" THEN "registered" ELSE @]
  /\ goto(x, "release")
  /\ UNCHANGED <<logicalUnit, owned, registry, isOpen, unitOf, pUnit, pools,
                 panicked, history>>

\* "The IORegistry has retained the unit, so we don't here."; a variant that
\* keeps doAddUnit's own reference.
kept(x) == owned
released(x) == owned \ {nubOf(x)}

release(x) ==
  /\ pc[x] = "release" /\ nubOf(x) \in owned
  /\ owned' = released(x)
  /\ return(x)
  /\ UNCHANGED <<logicalUnit, life, registry, isOpen, unitOf, pUnit, pools,
                 panicked, history>>

\* getCommand dereferences the pool.
noPools(x) ==
  /\ ~pools
  /\ \/ pc[x] = "params"
     \/ x \in Scanners /\ pc[x] = "idle" /\ mayScan(x)
  /\ panic

misusedNub(x) ==
  /\ \/ pc[x] \in {"attach", "register"} /\ ~usable(nubOf(x))
     \/ pc[x] = "release" /\ nubOf(x) \notin owned
  /\ panic
-----------------------------------------------------------------------------
(* doRemoveUnit *)

mayTerminate(x) == pc[x] = "forced" \/ nubOf(x) \notin isOpen

findUnit(x) ==
  /\ pc[x] \in {"remove", "forced"}
  /\ \/ /\ nubOf(x) = NULL /\ return(x) /\ UNCHANGED pUnit
     \/ /\ usable(nubOf(x)) /\ ~mayTerminate(x) /\ return(x) /\ UNCHANGED pUnit
     \/ /\ usable(nubOf(x)) /\ mayTerminate(x)
        /\ pUnit' = [pUnit EXCEPT ![x] = nubOf(x)]
        /\ goto(x, "terminate")
  /\ UNCHANGED <<logicalUnit, nubs, pools, panicked, history>>

terminate(x) ==
  /\ pc[x] = "terminate" /\ usable(pUnit[x])
  /\ life' = [life EXCEPT ![pUnit[x]] = "inactive"]
  /\ goto(x, "clear")
  /\ UNCHANGED <<logicalUnit, owned, registry, isOpen, unitOf, pUnit, pools,
                 panicked, history>>

clearUnit(x) ==
  /\ pc[x] = "clear"
  /\ logicalUnit' = cleared(x)
  /\ pUnit' = [pUnit EXCEPT ![x] = NULL]
  /\ return(x)
  /\ UNCHANGED <<nubs, pools, panicked, history>>

misusedUnit(x) ==
  /\ \/ pc[x] \in {"remove", "forced"} /\ nubOf(x) /= NULL /\ ~usable(nubOf(x))
     \/ pc[x] = "terminate" /\ ~usable(pUnit[x])
  /\ panic
-----------------------------------------------------------------------------
(* Who calls *)

\* EscaladeUserClient::doAddUnit and doRemoveUnit; the unit is the user's.
userCall(x) ==
  /\ pc[x] = "idle" /\ pc[StartThread] \notin {"terminating", "stopped"}
  /\ \E call \in {"add", "remove"}, u \in Words :
       begin(x, call, u) /\ strayed' = (strayed \/ u \notin Units)
  /\ unready' = (unready \/ ~pools)
  /\ UNCHANGED <<logicalUnit, nubs, pUnit, pools, panicked>>

\* findLogicalUnits: the unit summary, or no scan when it cannot be read.
unitSummary(x) ==
  /\ pc[x] = "idle" /\ mayScan(x) /\ pools
  /\ unready' = (unready \/ pc[StartThread] = "terminating")
  /\ pc' = [pc EXCEPT ![x] = "scan"]
  /\ unit' = [unit EXCEPT ![x] = 0]
  /\ UNCHANGED <<logicalUnit, nubs, pUnit, pools, panicked, overlapped,
                 strayed>>

\* "process individual unit status"; units come online and go as they like.
processUnit(x, u) ==
  /\ pc[x] = "scan" /\ unit[x] = u
  /\ \/ logicalUnit[u] = NULL /\ begin(x, "add", u)
     \/ logicalUnit[u] /= NULL /\ begin(x, "forced", u)
     \/ /\ logicalUnit[u] = NULL
        /\ unit' = [unit EXCEPT ![x] = u + 1]
        /\ UNCHANGED <<pc, overlapped>>
  /\ UNCHANGED <<logicalUnit, nubs, pUnit, pools, panicked, unready,
                 strayed>>

scanned(x) ==
  /\ pc[x] = "scan" /\ unit[x] = TWE_MAX_UNITS
  /\ pc' = [pc EXCEPT ![x] = IF x = StartThread THEN "ready" ELSE "idle"]
  /\ unit' = [unit EXCEPT ![x] = 0]
  /\ UNCHANGED <<logicalUnit, nubs, pUnit, pools, panicked, history>>
-----------------------------------------------------------------------------
(* start, from registerService on *)

startFrom(place, next) ==
  /\ pc[StartThread] = place /\ pc' = [pc EXCEPT ![StartThread] = next]
  /\ UNCHANGED <<logicalUnit, nubs, locals, panicked, history>>

createCommands == startFrom("registered", "commands") /\ pools' = TRUE

\* The support thread looks for work at once.
createThread ==
  /\ pc[StartThread] = "commands"
  /\ pc' = [pc EXCEPT ![StartThread] = "thread", ![SupportThread] = "idle"]
  /\ UNCHANGED <<logicalUnit, nubs, locals, pools, panicked, history>>

initController == startFrom("thread", "idle") /\ UNCHANGED pools

\* start gives up; what it has set up stays.
startFails ==
  /\ \E place \in {"registered", "thread", "idle"} : startFrom(place, "failed")
  /\ UNCHANGED pools
-----------------------------------------------------------------------------
(* stop *)

\* The controller is terminated, and with it the nubs and the user clients;
\* the array stays as it is.
terminateController ==
  /\ pc[StartThread] = "ready" /\ pc' = [pc EXCEPT ![StartThread] = "terminating"]
  /\ life' = [n \in Nubs |-> IF n \in registry THEN "inactive" ELSE life[n]]
  /\ unready' = (unready \/ \E x \in Callers \ {StartThread} : pc[x] /= "idle")
  /\ UNCHANGED <<logicalUnit, owned, registry, isOpen, unitOf, locals, pools, panicked,
                 overlapped, strayed>>

\* stop, when they are gone: it posts ST_DO_TERMINATE and destroys the commands.
stop == startFrom("terminating", "stopped") /\ registry = {} /\ pools' = FALSE

supportThreadEnds ==
  /\ pc[StartThread] = "stopped" /\ pc[SupportThread] = "idle"
  /\ pc' = [pc EXCEPT ![SupportThread] = "gone"]
  /\ UNCHANGED <<logicalUnit, nubs, locals, pools, panicked, history>>
-----------------------------------------------------------------------------
(* Media clients and the registry *)

open(n) ==
  /\ life[n] = "registered" /\ n \notin isOpen
  /\ isOpen' = isOpen \union {n}
  /\ UNCHANGED <<logicalUnit, life, owned, registry, unitOf, pc, locals, pools,
                 panicked, history>>

close(n) ==
  /\ n \in isOpen
  /\ isOpen' = isOpen \ {n}
  /\ UNCHANGED <<logicalUnit, life, owned, registry, unitOf, pc, locals, pools,
                 panicked, history>>

\* EscaladeDrive::detach, once a terminated nub has been closed.
detach(n) ==
  /\ life[n] = "inactive" /\ n \in registry /\ n \notin isOpen
  /\ registry' = registry \ {n}
  /\ UNCHANGED <<logicalUnit, life, owned, isOpen, unitOf, pc, locals, pools,
                 panicked, history>>
-----------------------------------------------------------------------------
(* The words about the array *)

\* They are somebody else's, who may change one under a call.
ownerWrites(w) ==
  /\ \E x \in Callers : busyWith(x, w)
  /\ \E value \in {NULL, Foreign} : logicalUnit' = [logicalUnit EXCEPT ![w] = value]
  /\ UNCHANGED <<nubs, pc, locals, pools, panicked, history>>

\* And who does not know what to do with a nub.
ownerMisled(w) == logicalUnit[w] \in Nubs /\ panic
-----------------------------------------------------------------------------
CallerStep(x) ==
  \/ addUnit(x) \/ readParams(x) \/ noPools(x) \/ newDrive(x) \/ attach(x)
  \/ registerService(x) \/ release(x) \/ misusedNub(x) \/ findUnit(x) \/ terminate(x)
  \/ clearUnit(x) \/ misusedUnit(x)

\* A machine that has panicked stops.
Next ==
  /\ ~panicked
  /\ \/ \E x \in Callers : CallerStep(x)
     \/ \E x \in UserClients : userCall(x)
     \/ \E x \in Scanners : unitSummary(x) \/ scanned(x) \/ \E u \in Units : processUnit(x, u)
     \/ createCommands \/ createThread \/ initController \/ startFails
     \/ terminateController \/ stop \/ supportThreadEnds
     \/ \E w \in OutOfRange : ownerWrites(w) \/ ownerMisled(w)
     \/ \E n \in Nubs : open(n) \/ close(n) \/ detach(n)

Spec == Init /\ [][Next]_vars
-----------------------------------------------------------------------------
\* The array holds nubs only, whatever is about it, and a scan never leaves it; a
\* user client's call does so only for a unit that is not in it.
TypeOK ==
  /\ logicalUnit \in [Words -> Nubs \union {NULL, Foreign}]
  /\ \A u \in Units : logicalUnit[u] /= Foreign
  /\ life \in [Nubs -> {"unused", "new", "registered", "inactive"}]
  /\ owned \subseteq Nubs /\ registry \subseteq Nubs /\ isOpen \subseteq Nubs
  /\ unitOf \in [Nubs -> Words \union {0}]
  /\ pc \in [Callers -> Adding \union Removing \union Starting
                        \union {"none", "idle", "scan", "gone"}]
  /\ unit \in [Callers -> Words \union {0, TWE_MAX_UNITS}]
  /\ \A x \in Callers : x \in Scanners \/ ~strayed => unit[x] \in Units \union {0, TWE_MAX_UNITS}
  /\ pUnit \in [Callers -> Nubs \union {NULL}]
  /\ pools \in BOOLEAN /\ panicked \in BOOLEAN
  /\ overlapped \in BOOLEAN /\ unready \in BOOLEAN /\ strayed \in BOOLEAN

\* No two calls for one unit overlapped, no user client called before start had
\* made the pools or for a unit that is not in the array, and nobody was at work
\* when the controller was terminated: what the code leaves to chance.
calm == ~overlapped /\ ~unready /\ ~strayed

\* But for that, no nub or pool is used that is gone or missing (doAddUnit and
\* doRemoveUnit read logicalUnit[] anew each time, and keep no reference; start
\* makes the commands before the thread, and the support thread looks for
\* ST_DO_TERMINATE before it works).
NoPanic == calm => ~panicked

\* But for that, a nub the system can see is the one in the array: it can be
\* removed, and its unit gets no second one.
NoOrphan ==
  calm => \A n \in Nubs : life[n] = "registered" => logicalUnit[unitOf[n]] = n

\* But for that, no memory is lost: a nub that was made is in use, being made,
\* or gone.
NoLeak ==
  calm => \A n \in owned : \E x \in Callers : busyWith(x, unitOf[n]) /\ nubOf(x) = n
=============================================================================
