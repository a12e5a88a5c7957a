---------------------------- MODULE BlockDevice ----------------------------
(***************************************************************************)
(* What the boot driver's disk promises those who load a system from it: a *)
(* unit that opens is there, a read that reports blocks has put just those *)
(* blocks in the caller's memory, and memory changes only while a read for *)
(* it is asked.  A device that is no longer trusted promises nothing.      *)
(***************************************************************************)
EXTENDS Integers

CONSTANTS Units, Addresses, MaxTransfer, None

VARIABLES
  online, opened,
  asked,               \* the read that was asked for
  memory,              \* how many of the blocks last asked for are at an address
  told,                \* the blocks the last read reported
  trusted

vars == <<online, opened, asked, memory, told, trusted>>

Init ==
  /\ online \in SUBSET Units /\ opened = {}
  /\ asked = None /\ memory = [a \in Addresses |-> 0]
  /\ told = 0 /\ trusted = TRUE

Open(u) ==
  /\ u \in online
  /\ opened' = opened \union {u}
  /\ UNCHANGED <<online, asked, memory, told, trusted>>

Close(u) ==
  /\ opened' = opened \ {u}
  /\ UNCHANGED <<online, asked, memory, told, trusted>>

Ask(a, n) ==
  /\ asked = None
  /\ asked' = [addr |-> a, count |-> n]
  /\ memory' = [memory EXCEPT ![a] = 0]
  /\ UNCHANGED <<online, opened, told, trusted>>

Deliver ==
  /\ asked /= None
  /\ memory' = [memory EXCEPT ![asked.addr] = asked.count]
  /\ UNCHANGED <<online, opened, asked, told, trusted>>

Answer ==
  /\ asked /= None
  /\ told' \in {0, asked.count}
  /\ told' /= 0 => memory[asked.addr] = told'
  /\ asked' = None
  /\ UNCHANGED <<online, opened, memory, trusted>>

Next ==
  \/ \E u \in Units : Open(u) \/ Close(u)
  \/ \E a \in Addresses, n \in 1 .. MaxTransfer : Ask(a, n)
  \/ Deliver \/ Answer
  \/ ~trusted'

Spec == Init /\ [][Next]_vars
=============================================================================
