------------------------------ MODULE AENQueue ------------------------------
(* What the driver promises the user client about asynchronous event       *)
(* notifications: they are kept in the order they were fetched, the oldest *)
(* are given up when there is no room, and each is handed out once.        *)
EXTENDS Naturals, Sequences

CONSTANTS Codes,     \* the AENs
          Empty,     \* what a reader is told when there is none
          Capacity   \* how many are kept

VARIABLES queue, fetched

Init == queue = <<>> /\ fetched = Empty

Add(aen) ==
  /\ queue' = IF Len(queue) < Capacity THEN Append(queue, aen)
                                       ELSE Append(Tail(queue), aen)
  /\ UNCHANGED fetched

Get ==
  \/ queue = <<>> /\ fetched' = Empty /\ UNCHANGED queue
  \/ queue /= <<>> /\ fetched' = Head(queue) /\ queue' = Tail(queue)

Next == Get \/ \E aen \in Codes : Add(aen)

Spec == Init /\ [][Next]_<<queue, fetched>>
=============================================================================
