------------------------ MODULE BootFirmware_proofs ------------------------
(* The mappings of the boot driver, and the block device it implements     *)
(* until it has once given up waiting, for any units, addresses, transfer  *)
(* sizes and any number of opens.                                          *)
EXTENDS BootFirmware, FiniteSetTheorems, SequenceTheorems, TLAPS

(* The controller node is being opened. *)
opening == pc \in {"reset", "connect"} \/ (pc = "wait" /\ command.op = "init")

(* An instance comes from an open, and that from a reset.                  *)
Instances ==
  /\ instances <= opens /\ (opening => instances < opens)
  /\ IsFiniteSet(children) /\ (children /= {} => instances > 0)
  /\ pc = "packages" \/ (pc = "wait" /\ command.op /= "init") => instances > 0
  /\ (~controllerResetDone \/ pc = "reset") => instances = 0
  /\ pc \in {"reset", "connect", "wait"} => controllerResetDone

(* One instance at a time has its own window and buffers.                  *)
Unshared ==
  ~shared =>
    /\ ~fault /\ instances <= 1
    /\ opening => instances = 0 /\ usable
    /\ instances > 0 => usable

(* What is in the command buffer makes sense for what the driver waits for. *)
Requests ==
  /\ command.op = "read" => command.addr \in Addresses /\ command.count \in 1 .. maxTransfer
  /\ command.op = "status" => command.unit \in Units
  /\ pc = "packages" => command.op = "status"
  /\ pc = "wait" => command.live /\ command.op \in {"init", "status", "capacity", "read"}

(* Until a wait was given up: before the controller was reset it has only  *)
(* what was left to it; afterwards it has what the driver waits for and    *)
(* nothing else.                                                           *)
Alone ==
  ~late =>
    /\ inReset => pc = "reset"
    /\ (~controllerResetDone \/ inReset) => commands \in Seq({foreign})
    /\ controllerResetDone /\ ~inReset /\ pc /= "wait" => commands = <<>>
    /\ instances > 0 /\ pc /= "wait" => responses = <<>>
    /\ pc = "wait" => \/ commands = <<idleCommand>> /\ responses = <<>>
                      \/ commands = <<command>> /\ responses = <<>>
                      \/ commands = <<>> /\ responses = <<"17">>

(* An answer tells the truth.                                              *)
Truthful ==
  ~late =>
    /\ pc = "packages" => command.unit \in online
    /\ pc = "wait" /\ responses = <<"17">> /\ status = "zero" =>
         /\ command.op = "read" => memory[command.addr] = command.count
         /\ command.op = "status" => param = [op |-> "status", unit |-> command.unit]

Inv ==
  TypeOK /\ Instances /\ Unshared /\ Requests /\ Alone /\ Truthful /\ MappedForRead
-----------------------------------------------------------------------------
(* Sequences and commands. *)

LEMMA RemoveType ==
  ASSUME NEW T, NEW s \in Seq(T), NEW i \in DOMAIN s
  PROVE  RemoveAt(s, i) \in Seq(T)
<1>1. i \in 1 .. Len(s) /\ Len(s) \in Nat
  BY LenProperties
<1>2. \A j \in 1 .. i - 1 : s[j] \in T
  BY <1>1, ElementOfSeq
<1>3. \A j \in i + 1 .. Len(s) : s[j] \in T
  BY <1>1, ElementOfSeq
<1>4. SubSeq(s, 1, i - 1) \in Seq(T)
  BY <1>1, <1>2, SubSeqProperties
<1>5. SubSeq(s, i + 1, Len(s)) \in Seq(T)
  BY <1>1, <1>3, SubSeqProperties
<1>6. QED
  BY <1>4, <1>5, ConcatProperties DEF RemoveAt

LEMMA RemoveOnly ==
  ASSUME NEW c
  PROVE  RemoveAt(<<c>>, 1) = <<>>
<1>1. SubSeq(<<c>>, 1, 1 - 1) = <<>>
  BY SubSeqEmpty
<1>2. SubSeq(<<c>>, 1 + 1, Len(<<c>>)) = <<>>
  BY SubSeqEmpty
<1>3. <<>> \o <<>> = <<>>
  OBVIOUS
<1>4. QED
  BY <1>1, <1>2, <1>3 DEF RemoveAt

LEMMA SingletonSeq ==
  ASSUME NEW T, NEW x \in T
  PROVE  <<x>> \in Seq(T)
<1>1. <<x>> \in [1 .. 1 -> T]
  OBVIOUS
<1>2. QED
  BY <1>1, IsASeq

LEMMA AppendFirst ==
  ASSUME NEW x
  PROVE  Append(<<>>, x) = <<x>>
OBVIOUS

LEMMA OverCommand ==
  ASSUME NEW c \in CommandType
  PROVE  /\ [c EXCEPT !.live = FALSE] \in CommandType
         /\ [c EXCEPT !.live = FALSE].op = c.op
         /\ [c EXCEPT !.live = FALSE].unit = c.unit
         /\ [c EXCEPT !.live = FALSE].addr = c.addr
         /\ [c EXCEPT !.live = FALSE].count = c.count
BY DEF CommandType

LEMMA OverType ==
  ASSUME NEW cs \in Seq(CommandType)
  PROVE  over(cs) \in Seq(CommandType)
<1>1. Len(cs) \in Nat /\ DOMAIN cs = 1 .. Len(cs)
  BY LenProperties
<1>2. \A i \in DOMAIN cs : [cs[i] EXCEPT !.live = FALSE] \in CommandType
  <2> SUFFICES ASSUME NEW i \in DOMAIN cs
               PROVE  [cs[i] EXCEPT !.live = FALSE] \in CommandType
    OBVIOUS
  <2>1. cs[i] \in CommandType
    BY <1>1, ElementOfSeq
  <2>2. QED
    BY <2>1, OverCommand
<1>3. over(cs) \in [1 .. Len(cs) -> CommandType]
  BY <1>1, <1>2 DEF over
<1>4. QED
  BY <1>1, <1>3, IsASeq

LEMMA OverEmpty == over(<<>>) = <<>>
<1>1. DOMAIN over(<<>>) = {}
  BY DEF over
<1>2. over(<<>>) \in [1 .. 0 -> {}]
  BY DEF over
<1>3. over(<<>>) \in Seq({}) /\ Len(over(<<>>)) = 0
  BY <1>2, IsASeq
<1>4. QED
  BY <1>3, EmptySeq

LEMMA WordFacts ==
  /\ 0 \in 0 .. Word /\ maxTransfer \in Nat /\ 0 \in 0 .. maxTransfer
  /\ 0 \in -1 .. maxTransfer /\ 1 .. Word \subseteq 0 .. Word
  /\ 1 .. maxTransfer \subseteq 0 .. maxTransfer
  /\ \A n \in 1 .. Word : n <= maxTransfer => n \in 1 .. maxTransfer
BY BootAssumption DEF maxTransfer

LEMMA MovedType ==
  ASSUME NEW c \in CommandType
  PROVE  moved(c) \in -1 .. maxTransfer
<1>1. c.count \in Nat /\ Word \in Nat \ {0}
  BY BootAssumption DEF CommandType
<1>2. c.count % Word \in 0 .. Word - 1
  BY <1>1, SMTT(30)
<1>3. QED
  BY <1>1, <1>2 DEF moved, maxTransfer

(* What read-blocks asks for fits into the count field. *)
LEMMA MovedAll ==
  ASSUME NEW c \in CommandType, c.live, c.count \in 1 .. maxTransfer
  PROVE  moved(c) = c.count
<1>1. c.count \in Nat /\ Word \in Nat \ {0} /\ c.count < Word
  BY BootAssumption DEF CommandType, maxTransfer
<1>2. c.count % Word = c.count
  BY <1>1, SMTT(30)
<1>3. QED
  BY <1>2 DEF moved

(* The commands the driver makes. *)
LEMMA CommandsTyped ==
  /\ idleCommand \in CommandType /\ foreign \in CommandType
  /\ Command("init", None, None, 0) \in CommandType
  /\ \A u \in Units : /\ Command("status", u, None, 0) \in CommandType
                      /\ Command("capacity", u, None, 0) \in CommandType
                      /\ \A a \in Addresses, n \in 1 .. Word :
                           Command("read", u, a, n) \in CommandType
<1>1. idleCommand \in CommandType
  BY WordFacts DEF CommandType, idleCommand, Ops
<1>2. foreign \in CommandType
  BY WordFacts DEF CommandType, idleCommand, foreign, Ops
<1>3. Command("init", None, None, 0) \in CommandType
  BY WordFacts DEF CommandType, Command, Ops
<1>4. ASSUME NEW u \in Units
      PROVE  /\ Command("status", u, None, 0) \in CommandType
             /\ Command("capacity", u, None, 0) \in CommandType
  BY WordFacts DEF CommandType, Command, Ops
<1>5. ASSUME NEW u \in Units, NEW a \in Addresses, NEW n \in 1 .. Word
      PROVE  Command("read", u, a, n) \in CommandType
  <2>1. n \in 0 .. Word
    BY WordFacts
  <2>2. QED
    BY <2>1 DEF CommandType, Command, Ops
<1>6. QED
  BY <1>1, <1>2, <1>3, <1>4, <1>5

(* Nothing is open, and what is left to the controller is not ours. *)
LEMMA InitInv == Init => Inv
<1> SUFFICES ASSUME Init PROVE Inv
  OBVIOUS
<1> USE DEF Init
<1>1. commands \in Seq({foreign}) /\ commands \in Seq(CommandType)
  <2>1. <<>> \in Seq({foreign}) /\ <<>> \in Seq(CommandType)
    BY EmptySeq
  <2>2. <<foreign>> \in Seq({foreign}) /\ <<foreign>> \in Seq(CommandType)
    BY CommandsTyped, SingletonSeq
  <2>3. QED
    BY <2>1, <2>2
<1>2. responses \in Seq({"17", "other"})
  <2>1. <<>> \in Seq({"17", "other"})
    BY EmptySeq
  <2>2. \A t \in {"17", "other"} : <<t>> \in Seq({"17", "other"})
    BY SingletonSeq
  <2>3. QED
    BY <2>1, <2>2
<1>3. memory \in [Addresses -> -1 .. maxTransfer]
  BY WordFacts
<1>4. 0 \in 0 .. MaxOpens /\ unanswered \in [op : {"none", "status", "capacity"},
                                             unit : Units \union {None}]
  BY BootAssumption DEF unanswered
<1>5. TypeOK
  BY <1>1, <1>2, <1>3, <1>4, CommandsTyped, WordFacts DEF TypeOK
<1>6. Instances /\ Unshared
  BY FS_EmptySet DEF Instances, Unshared, opening
<1>7. Requests /\ Alone /\ Truthful /\ MappedForRead
  BY <1>1 DEF Requests, Alone, Truthful, MappedForRead, idleCommand
<1>8. QED
  BY <1>5, <1>6, <1>7 DEF Inv

(* An answer, or a foreign response, ends the wait.                        *)
LEMMA AnsweredStep ==
  ASSUME Inv, answered
  PROVE  Inv'
<1> USE BootAssumption DEF nodes, mappings, hardware, answered, finish
<1> TypeOK /\ Instances /\ Unshared /\ Requests /\ Alone /\ Truthful /\ MappedForRead
  BY DEF Inv
<1>1. TypeOK'
  <2>1. command' \in CommandType
    BY OverCommand DEF TypeOK
  <2>2. commands' \in Seq(CommandType)
    BY OverType DEF TypeOK
  <2>3. responses' \in Seq({"17", "other"})
    BY HeadTailProperties DEF TypeOK
  <2>4. told' \in 0 .. maxTransfer /\ mapped' \subseteq Addresses
    BY WordFacts DEF TypeOK, Requests, mappedOut
  <2>5. instances' \in 0 .. MaxOpens
    BY BootAssumption DEF TypeOK, Instances, opening
  <2>6. pc' \in {"idle", "packages"}
    OBVIOUS
  <2>7. QED
    BY <2>1, <2>2, <2>3, <2>4, <2>5, <2>6 DEF TypeOK
<1>2. Instances'
  BY DEF Instances, opening, TypeOK, Requests, closable
<1>3. Unshared'
  BY DEF Unshared, opening, usable, TypeOK, Instances
<1>4. Requests'
  <2>1. /\ command'.op = command.op /\ command'.unit = command.unit
        /\ command'.addr = command.addr /\ command'.count = command.count
    BY OverCommand DEF TypeOK
  <2>2. QED
    BY <2>1 DEF Requests
<1>5. Alone'
  <2> SUFFICES ASSUME ~late
               PROVE  /\ commands' = <<>> /\ responses' = <<>> /\ pc' /= "wait"
                      /\ ~inReset' /\ controllerResetDone'
    BY DEF Alone
  <2>1. commands = <<>> /\ responses = <<"17">>
    BY DEF Alone
  <2>2. Tail(<<"17">>) = <<>>
    OBVIOUS
  <2>3. QED
    BY <2>1, <2>2, OverEmpty DEF Alone, Instances
<1>6. Truthful'
  <2>1. command'.unit = command.unit /\ pc' /= "wait"
    BY OverCommand DEF TypeOK
  <2>2. ASSUME ~late, pc' = "packages"
        PROVE  command.unit \in online
    <3>1. responses = <<"17">> /\ status = "zero" /\ command.op = "status"
      BY <2>2 DEF Alone, good
    <3>2. param = [op |-> "status", unit |-> command.unit]
      BY <2>2, <3>1 DEF Truthful
    <3>3. onlineBit = {command.unit \in online}
      BY <3>2 DEF onlineBit
    <3>4. QED
      BY <2>2, <3>1, <3>3
  <2>3. QED
    BY <2>1, <2>2 DEF Truthful
<1>7. MappedForRead'
  BY DEF MappedForRead, Requests, mappedOut
<1> QED
  BY <1>1, <1>2, <1>3, <1>4, <1>5, <1>6, <1>7 DEF Inv

(* Giving up ends the wait, and the promises.                              *)
LEMMA TimedOutStep ==
  ASSUME Inv, timedOut
  PROVE  Inv'
<1> USE BootAssumption DEF nodes, mappings, hardware, timedOut, finish
<1> TypeOK /\ Instances /\ Unshared /\ Requests /\ Alone /\ Truthful /\ MappedForRead
  BY DEF Inv
<1>1. TypeOK'
  <2>1. command' \in CommandType
    BY OverCommand DEF TypeOK
  <2>2. commands' \in Seq(CommandType)
    BY OverType DEF TypeOK
  <2>3. responses' \in Seq({"17", "other"})
    BY HeadTailProperties DEF TypeOK
  <2>4. told' \in 0 .. maxTransfer /\ mapped' \subseteq Addresses
    BY WordFacts DEF TypeOK, Requests, mappedOut
  <2>5. instances' \in 0 .. MaxOpens
    BY BootAssumption DEF TypeOK, Instances, opening
  <2>6. pc' \in {"idle", "packages"}
    OBVIOUS
  <2>7. QED
    BY <2>1, <2>2, <2>3, <2>4, <2>5, <2>6 DEF TypeOK
<1>2. Instances'
  BY DEF Instances, opening, TypeOK, Requests, closable
<1>3. Unshared'
  BY DEF Unshared, opening, usable, TypeOK, Instances
<1>4. Requests'
  <2>1. /\ command'.op = command.op /\ command'.unit = command.unit
        /\ command'.addr = command.addr /\ command'.count = command.count
    BY OverCommand DEF TypeOK
  <2>2. QED
    BY <2>1 DEF Requests
<1>5. Alone'
  BY DEF Alone, TypeOK, Instances, Requests, idleCommand
<1>6. Truthful'
  BY DEF Truthful, Alone, TypeOK, Requests, idleCommand, foreign
<1>7. MappedForRead'
  BY DEF MappedForRead, Requests, mappedOut
<1> QED
  BY <1>1, <1>2, <1>3, <1>4, <1>5, <1>6, <1>7 DEF Inv

(* The controller has come out of its reset, with nothing left.            *)
LEMMA ResetAnsweredStep ==
  ASSUME Inv, resetAnswered
  PROVE  Inv'
<1> USE BootAssumption DEF nodes, mappings, hardware, resetAnswered
<1> TypeOK /\ Instances /\ Unshared /\ Requests /\ Alone /\ Truthful /\ MappedForRead
  BY DEF Inv
<1>1. TypeOK'
  BY DEF TypeOK, CommandType
<1>2. Instances'
  BY DEF Instances, opening, TypeOK, Requests, closable
<1>3. Unshared'
  BY DEF Unshared, opening, usable, TypeOK, Instances
<1>4. Requests'
  BY DEF Requests, TypeOK, CommandType
<1>5. Alone'
  BY DEF Alone, TypeOK, Instances, Requests, idleCommand
<1>6. Truthful'
  BY DEF Truthful, Alone, TypeOK, Requests, idleCommand, foreign
<1>7. MappedForRead'
  BY DEF MappedForRead, Requests, mappedOut
<1> QED
  BY <1>1, <1>2, <1>3, <1>4, <1>5, <1>6, <1>7 DEF Inv

(* Giving up on a reset ends the promises too.                             *)
LEMMA ResetTimedOutStep ==
  ASSUME Inv, resetTimedOut
  PROVE  Inv'
<1> USE BootAssumption DEF nodes, mappings, hardware, resetTimedOut
<1> TypeOK /\ Instances /\ Unshared /\ Requests /\ Alone /\ Truthful /\ MappedForRead
  BY DEF Inv
<1>1. TypeOK'
  BY DEF TypeOK, CommandType
<1>2. Instances'
  BY DEF Instances, opening, TypeOK, Requests, closable
<1>3. Unshared'
  BY DEF Unshared, opening, usable, TypeOK, Instances
<1>4. Requests'
  BY DEF Requests, TypeOK, CommandType
<1>5. Alone'
  BY DEF Alone, TypeOK, Instances, Requests, idleCommand
<1>6. Truthful'
  BY DEF Truthful, Alone, TypeOK, Requests, idleCommand, foreign
<1>7. MappedForRead'
  BY DEF MappedForRead, Requests, mappedOut
<1> QED
  BY <1>1, <1>2, <1>3, <1>4, <1>5, <1>6, <1>7 DEF Inv

(* The first command is posted to a controller that has nothing else.      *)
LEMMA ConnectStep ==
  ASSUME Inv, connect
  PROVE  Inv'
<1> USE BootAssumption DEF nodes, mappings, hardware, connect, post, Command
<1> TypeOK /\ Instances /\ Unshared /\ Requests /\ Alone /\ Truthful /\ MappedForRead
  BY DEF Inv
<1>1. TypeOK'
  <2>1. command' \in CommandType
    BY CommandsTyped DEF TypeOK
  <2>2. commands' \in Seq(CommandType)
    <3>1. Append(commands, idleCommand) \in Seq(CommandType) /\ commands \in Seq(CommandType)
      BY CommandsTyped, AppendProperties DEF TypeOK
    <3>2. QED
      BY <3>1
  <2>3. QED
    BY <2>1, <2>2 DEF TypeOK
<1>2. Instances'
  BY DEF Instances, opening, TypeOK, Requests, closable
<1>3. Unshared'
  BY DEF Unshared, opening, usable, TypeOK, Instances
<1>4. Requests'
  BY DEF Requests, TypeOK, CommandType
<1>5. Alone'
  <2> SUFFICES ASSUME ~late
               PROVE  Alone'
    BY DEF Alone
  <2>1. commands = <<>> /\ ~inReset /\ controllerResetDone
    BY DEF Alone, Instances
  <2>2. Append(<<>>, idleCommand) = <<idleCommand>>
    BY AppendFirst
  <2>3. CASE pc' = "idle"
    BY <2>1, <2>3 DEF Alone
  <2>4. CASE pc' = "wait"
    BY <2>1, <2>2, <2>4 DEF Alone, drained
  <2>5. QED
    BY <2>3, <2>4
<1>6. Truthful'
  <2>1. pc' = "wait" => responses' = <<>>
    BY DEF drained
  <2>2. <<>> /= <<"17">>
    OBVIOUS
  <2>3. QED
    BY <2>1, <2>2 DEF Truthful
<1>7. MappedForRead'
  BY DEF MappedForRead, Requests, mappedOut
<1> QED
  BY <1>1, <1>2, <1>3, <1>4, <1>5, <1>6, <1>7 DEF Inv

(* The disk that opens is the one that was asked for.                      *)
LEMMA OpenPackagesStep ==
  ASSUME Inv, openPackages
  PROVE  Inv'
<1> USE BootAssumption DEF nodes, mappings, hardware, openPackages
<1> TypeOK /\ Instances /\ Unshared /\ Requests /\ Alone /\ Truthful /\ MappedForRead
  BY DEF Inv
<1>1. TypeOK'
  <2>1. children' \subseteq Units
    BY DEF Requests, TypeOK
  <2>2. QED
    BY <2>1 DEF TypeOK
<1>2. Instances'
  <2>1. command.unit \in Units /\ instances > 0
    BY DEF Requests, Instances
  <2>2. IsFiniteSet(children')
    BY FS_AddElement DEF Instances
  <2>3. QED
    BY <2>1, <2>2 DEF Instances, opening
<1>3. Unshared'
  BY DEF Unshared, opening, usable, TypeOK, Instances
<1>4. Requests'
  BY DEF Requests, TypeOK, CommandType
<1>5. Alone'
  BY DEF Alone, TypeOK, Instances, Requests, idleCommand
<1>6. Truthful'
  BY DEF Truthful, Alone, TypeOK, Requests, idleCommand, foreign
<1>7. MappedForRead'
  BY DEF MappedForRead, Requests, mappedOut
<1> QED
  BY <1>1, <1>2, <1>3, <1>4, <1>5, <1>6, <1>7 DEF Inv

(* The window and the buffers of an open are its own.                      *)
LEMMA OpenStep ==
  ASSUME Inv, open
  PROVE  Inv'
<1> USE BootAssumption DEF nodes, mappings, hardware, open, ready, mapEscaladeRegisters,
        allocateDmaBuffers, resetController
<1> TypeOK /\ Instances /\ Unshared /\ Requests /\ Alone /\ Truthful /\ MappedForRead
  BY DEF Inv
<1>1. TypeOK'
  <2>1. opens' \in 1 .. MaxOpens
    BY BootAssumption DEF TypeOK
  <2>2. window' \in 0 .. MaxOpens /\ windows' \subseteq 1 .. MaxOpens
    BY <2>1 DEF TypeOK
  <2>3. buffers' \in 0 .. MaxOpens /\ dmaBuffers' \subseteq 1 .. MaxOpens
    BY <2>1 DEF TypeOK
  <2>4. opens' \in 0 .. MaxOpens /\ shared' \in BOOLEAN
    BY <2>1 DEF TypeOK
  <2>5. QED
    BY <2>2, <2>3, <2>4 DEF TypeOK
<1>2. Instances'
  BY DEF Instances, opening, TypeOK, Requests, closable
<1>3. Unshared'
  BY DEF Unshared, opening, usable, TypeOK, Instances
<1>4. Requests'
  BY DEF Requests, TypeOK, CommandType
<1>5. Alone'
  BY DEF Alone, TypeOK, Instances, Requests, idleCommand
<1>6. Truthful'
  BY DEF Truthful, Alone, TypeOK, Requests, idleCommand, foreign
<1>7. MappedForRead'
  BY DEF MappedForRead, Requests, mappedOut
<1> QED
  BY <1>1, <1>2, <1>3, <1>4, <1>5, <1>6, <1>7 DEF Inv

(* The instance that is closed is the one whose mappings are in use.       *)
LEMMA CloseStep ==
  ASSUME Inv, close
  PROVE  Inv'
<1> USE BootAssumption DEF nodes, mappings, hardware, close, closable
<1> TypeOK /\ Instances /\ Unshared /\ Requests /\ Alone /\ Truthful /\ MappedForRead
  BY DEF Inv
<1>1. TypeOK'
  <2>1. Cardinality(children) \in Nat
    BY FS_CardinalityType DEF Instances
  <2>2. instances' \in 0 .. MaxOpens
    BY <2>1, BootAssumption DEF TypeOK
  <2>3. QED
    BY <2>2 DEF TypeOK
<1>2. Instances'
  <2>1. Cardinality(children) \in Nat /\ (Cardinality(children) = 0 <=> children = {})
    BY FS_CardinalityType, FS_EmptySet DEF Instances
  <2>2. children' /= {} => instances' > 0
    BY <2>1 DEF TypeOK
  <2>3. instances' <= opens /\ (opening' => instances' < opens) /\ instances > 0
    BY <2>1 DEF TypeOK, Instances, opening
  <2>4. QED
    BY <2>2, <2>3 DEF Instances, opening
<1>3. Unshared'
  BY DEF Unshared, opening, usable, TypeOK, Instances
<1>4. Requests'
  BY DEF Requests, TypeOK, CommandType
<1>5. Alone'
  BY DEF Alone, TypeOK, Instances, Requests, idleCommand
<1>6. Truthful'
  BY DEF Truthful, Alone, TypeOK, Requests, idleCommand, foreign
<1>7. MappedForRead'
  BY DEF MappedForRead, Requests, mappedOut
<1> QED
  BY <1>1, <1>2, <1>3, <1>4, <1>5, <1>6, <1>7 DEF Inv

(* It does not happen while one instance is open at a time.                *)
LEMMA MisusedStep ==
  ASSUME Inv, misused
  PROVE  Inv'
<1> USE BootAssumption DEF nodes, mappings, hardware, misused
<1> TypeOK /\ Instances /\ Unshared /\ Requests /\ Alone /\ Truthful /\ MappedForRead
  BY DEF Inv
<1>1. TypeOK'
  BY DEF TypeOK, CommandType
<1>2. Instances'
  BY DEF Instances, opening, TypeOK, Requests, closable
<1>3. Unshared'
  BY DEF Unshared, opening, usable, TypeOK, Instances
<1>4. Requests'
  BY DEF Requests, TypeOK, CommandType
<1>5. Alone'
  BY DEF Alone, TypeOK, Instances, Requests, idleCommand
<1>6. Truthful'
  BY DEF Truthful, Alone, TypeOK, Requests, idleCommand, foreign
<1>7. MappedForRead'
  BY DEF MappedForRead, Requests, mappedOut
<1> QED
  BY <1>1, <1>2, <1>3, <1>4, <1>5, <1>6, <1>7 DEF Inv

(* A question is posted to a controller that has nothing else.             *)
LEMMA OpenDiskStep ==
  ASSUME NEW u \in Units, Inv, openDisk(u)
  PROVE  Inv'
<1> USE BootAssumption DEF nodes, mappings, hardware, openDisk, ready, post, Command, unanswered
<1> TypeOK /\ Instances /\ Unshared /\ Requests /\ Alone /\ Truthful /\ MappedForRead
  BY DEF Inv
<1>a. instances > 0
  BY FS_CardinalityType DEF Instances, TypeOK
<1>1. TypeOK'
  <2>1. command' \in CommandType
    BY CommandsTyped
  <2>2. commands' \in Seq(CommandType)
    BY CommandsTyped, AppendProperties DEF TypeOK
  <2>3. memory' \in [Addresses -> -1 .. maxTransfer]
    BY WordFacts DEF TypeOK
  <2>4. param' \in [op : {"none", "status", "capacity"}, unit : Units \union {None}]
    BY DEF TypeOK
  <2>5. QED
    BY <2>1, <2>2, <2>3, <2>4 DEF TypeOK
<1>2. Instances'
  BY <1>a DEF Instances, opening, TypeOK, Requests, closable
<1>3. Unshared'
  BY DEF Unshared, opening, usable, TypeOK, Instances
<1>4. Requests'
  BY DEF Requests, TypeOK, CommandType
<1>5. Alone'
  <2> SUFFICES ASSUME ~late
               PROVE  /\ commands' = <<idleCommand>> /\ responses' = <<>> /\ pc' = "wait"
                      /\ ~inReset' /\ controllerResetDone'
    BY DEF Alone
  <2>1. commands = <<>> /\ responses = <<>> /\ ~inReset /\ controllerResetDone
    BY <1>a DEF Alone, Instances
  <2>2. Append(<<>>, idleCommand) = <<idleCommand>>
    BY AppendFirst
  <2>3. QED
    BY <2>1, <2>2
<1>6. Truthful'
  <2>1. ~late => responses' /= <<"17">>
    BY <1>a DEF Alone, Instances
  <2>2. QED
    BY <2>1 DEF Truthful
<1>7. MappedForRead'
  BY DEF MappedForRead, Requests, mappedOut
<1> QED
  BY <1>1, <1>2, <1>3, <1>4, <1>5, <1>6, <1>7 DEF Inv

(* Nothing depends on a disk that is closed.                               *)
LEMMA CloseDiskStep ==
  ASSUME NEW u \in Units, Inv, closeDisk(u)
  PROVE  Inv'
<1> USE BootAssumption DEF nodes, mappings, hardware, closeDisk
<1> TypeOK /\ Instances /\ Unshared /\ Requests /\ Alone /\ Truthful /\ MappedForRead
  BY DEF Inv
<1>1. TypeOK'
  BY DEF TypeOK, CommandType
<1>2. Instances'
  <2>1. IsFiniteSet(children')
    BY FS_RemoveElement DEF Instances
  <2>2. QED
    BY <2>1 DEF Instances, opening
<1>3. Unshared'
  BY DEF Unshared, opening, usable, TypeOK, Instances
<1>4. Requests'
  BY DEF Requests, TypeOK, CommandType
<1>5. Alone'
  BY DEF Alone, TypeOK, Instances, Requests, idleCommand
<1>6. Truthful'
  BY DEF Truthful, Alone, TypeOK, Requests, idleCommand, foreign
<1>7. MappedForRead'
  BY DEF MappedForRead, Requests, mappedOut
<1> QED
  BY <1>1, <1>2, <1>3, <1>4, <1>5, <1>6, <1>7 DEF Inv

(* A question is posted to a controller that has nothing else.             *)
LEMMA BlocksStep ==
  ASSUME NEW u \in Units, Inv, blocks(u)
  PROVE  Inv'
<1> USE BootAssumption DEF nodes, mappings, hardware, blocks, ready, post, Command, unanswered
<1> TypeOK /\ Instances /\ Unshared /\ Requests /\ Alone /\ Truthful /\ MappedForRead
  BY DEF Inv
<1>a. instances > 0
  BY DEF Instances
<1>1. TypeOK'
  <2>1. command' \in CommandType
    BY CommandsTyped
  <2>2. commands' \in Seq(CommandType)
    BY CommandsTyped, AppendProperties DEF TypeOK
  <2>3. memory' \in [Addresses -> -1 .. maxTransfer]
    BY WordFacts DEF TypeOK
  <2>4. param' \in [op : {"none", "status", "capacity"}, unit : Units \union {None}]
    BY DEF TypeOK
  <2>5. QED
    BY <2>1, <2>2, <2>3, <2>4 DEF TypeOK
<1>2. Instances'
  BY <1>a DEF Instances, opening, TypeOK, Requests, closable
<1>3. Unshared'
  BY DEF Unshared, opening, usable, TypeOK, Instances
<1>4. Requests'
  BY DEF Requests, TypeOK, CommandType
<1>5. Alone'
  <2> SUFFICES ASSUME ~late
               PROVE  /\ commands' = <<idleCommand>> /\ responses' = <<>> /\ pc' = "wait"
                      /\ ~inReset' /\ controllerResetDone'
    BY DEF Alone
  <2>1. commands = <<>> /\ responses = <<>> /\ ~inReset /\ controllerResetDone
    BY <1>a DEF Alone, Instances
  <2>2. Append(<<>>, idleCommand) = <<idleCommand>>
    BY AppendFirst
  <2>3. QED
    BY <2>1, <2>2
<1>6. Truthful'
  <2>1. ~late => responses' /= <<"17">>
    BY <1>a DEF Alone, Instances
  <2>2. QED
    BY <2>1 DEF Truthful
<1>7. MappedForRead'
  BY DEF MappedForRead, Requests, mappedOut
<1> QED
  BY <1>1, <1>2, <1>3, <1>4, <1>5, <1>6, <1>7 DEF Inv

(* A read is posted, with its buffer mapped.                               *)
LEMMA ReadBlocksStep ==
  ASSUME NEW u \in Units, NEW a \in Addresses, NEW n \in 1 .. Word, Inv, readBlocks(u, a, n)
  PROVE  Inv'
<1> USE BootAssumption DEF nodes, mappings, hardware, readBlocks, ready, post, Command
<1> TypeOK /\ Instances /\ Unshared /\ Requests /\ Alone /\ Truthful /\ MappedForRead
  BY DEF Inv
<1>a. instances > 0
  BY DEF Instances
<1>1. TypeOK'
  <2>1. command' \in CommandType
    BY CommandsTyped
  <2>2. commands' \in Seq(CommandType)
    BY CommandsTyped, AppendProperties DEF TypeOK
  <2>3. memory' \in [Addresses -> -1 .. maxTransfer]
    BY WordFacts DEF TypeOK
  <2>4. param' \in [op : {"none", "status", "capacity"}, unit : Units \union {None}]
    BY DEF TypeOK
  <2>5. QED
    BY <2>1, <2>2, <2>3, <2>4 DEF TypeOK
<1>2. Instances'
  BY <1>a DEF Instances, opening, TypeOK, Requests, closable
<1>3. Unshared'
  BY DEF Unshared, opening, usable, TypeOK, Instances
<1>4. Requests'
  BY DEF Requests, TypeOK, CommandType
<1>5. Alone'
  <2> SUFFICES ASSUME ~late
               PROVE  /\ commands' = <<idleCommand>> /\ responses' = <<>> /\ pc' = "wait"
                      /\ ~inReset' /\ controllerResetDone'
    BY DEF Alone
  <2>1. commands = <<>> /\ responses = <<>> /\ ~inReset /\ controllerResetDone
    BY <1>a DEF Alone, Instances
  <2>2. Append(<<>>, idleCommand) = <<idleCommand>>
    BY AppendFirst
  <2>3. QED
    BY <2>1, <2>2
<1>6. Truthful'
  <2>1. ~late => responses' /= <<"17">>
    BY <1>a DEF Alone, Instances
  <2>2. QED
    BY <2>1 DEF Truthful
<1>7. MappedForRead'
  BY DEF MappedForRead, Requests, mappedOut
<1> QED
  BY <1>1, <1>2, <1>3, <1>4, <1>5, <1>6, <1>7 DEF Inv

(* The reset takes away what was left to the controller.                   *)
LEMMA ComesOutOfResetStep ==
  ASSUME Inv, comesOutOfReset
  PROVE  Inv'
<1> USE BootAssumption DEF nodes, mappings, hardware, comesOutOfReset
<1> TypeOK /\ Instances /\ Unshared /\ Requests /\ Alone /\ Truthful /\ MappedForRead
  BY DEF Inv
<1>1. TypeOK'
  <2>1. commands' \in Seq(CommandType) /\ responses' \in Seq({"17", "other"})
    BY EmptySeq DEF TypeOK
  <2>2. QED
    BY <2>1 DEF TypeOK
<1>2. Instances'
  BY DEF Instances, opening, TypeOK, Requests, closable
<1>3. Unshared'
  BY DEF Unshared, opening, usable, TypeOK, Instances
<1>4. Requests'
  BY DEF Requests, TypeOK, CommandType
<1>5. Alone'
  BY DEF Alone, TypeOK, Instances, Requests, idleCommand
<1>6. Truthful'
  BY DEF Truthful, Alone, TypeOK, Requests, idleCommand, foreign
<1>7. MappedForRead'
  BY DEF MappedForRead, Requests, mappedOut
<1> QED
  BY <1>1, <1>2, <1>3, <1>4, <1>5, <1>6, <1>7 DEF Inv

(* The controller fetches what the driver waits for.                       *)
LEMMA FetchStep ==
  ASSUME NEW i \in DOMAIN commands, Inv, fetch(i)
  PROVE  Inv'
<1> USE BootAssumption DEF nodes, mappings, hardware, fetch
<1> TypeOK /\ Instances /\ Unshared /\ Requests /\ Alone /\ Truthful /\ MappedForRead
  BY DEF Inv
<1>a. ASSUME ~late
      PROVE  pc = "wait" /\ responses = <<>> /\ commands' = <<command>>
  <2>1. commands \notin Seq({foreign})
    <3>1. ASSUME commands \in Seq({foreign}) PROVE FALSE
      <4>1. commands[i] \in {foreign}
        BY <3>1, LenProperties, ElementOfSeq
      <4>2. QED
        BY <4>1 DEF foreign, idleCommand
    <3>2. QED
      BY <3>1
  <2>2. commands /= <<>>
    OBVIOUS
  <2>3. pc = "wait" /\ responses = <<>>
    BY <1>a, <2>1, <2>2 DEF Alone
  <2>4. PICK c : commands = <<c>>
    BY <1>a, <2>2, <2>3 DEF Alone
  <2>5. i = 1 /\ [<<c>> EXCEPT ![1] = command] = <<command>>
    BY <2>4
  <2>6. QED
    BY <2>3, <2>4, <2>5
<1>1. TypeOK'
  <2>1. commands' \in Seq(CommandType)
    BY LenProperties, ExceptSeq DEF TypeOK
  <2>2. QED
    BY <2>1 DEF TypeOK
<1>2. Instances'
  BY DEF Instances, opening, TypeOK, Requests, closable
<1>3. Unshared'
  BY DEF Unshared, opening, usable, TypeOK, Instances
<1>4. Requests'
  BY DEF Requests, TypeOK, CommandType
<1>5. Alone'
  BY <1>a DEF Alone, Instances
<1>6. Truthful'
  BY DEF Truthful, Alone, TypeOK, Requests, idleCommand, foreign
<1>7. MappedForRead'
  BY DEF MappedForRead, Requests, mappedOut
<1> QED
  BY <1>1, <1>2, <1>3, <1>4, <1>5, <1>6, <1>7 DEF Inv

(* Before the reset, what is carried out is not ours.                      *)
LEMMA LeftToController ==
  ASSUME Inv, ~late, NEW i \in DOMAIN commands, carryOut(i), ~controllerResetDone \/ inReset
  PROVE  commands[i] = foreign /\ commands' \in Seq({foreign}) /\ instances = 0 /\ pc /= "wait"
<1> USE BootAssumption DEF hardware, carryOut, Inv
<1>1. commands \in Seq({foreign})
  BY DEF Alone
<1>2. commands[i] = foreign
  BY <1>1, LenProperties, ElementOfSeq
<1>3. commands' \in Seq({foreign})
  BY <1>1, RemoveType
<1>4. instances = 0 /\ pc /= "wait"
  BY DEF Alone, Instances
<1>5. QED
  BY <1>2, <1>3, <1>4

(* After it, what is carried out is what the driver waits for.             *)
LEMMA OnlyOurs ==
  ASSUME Inv, ~late, NEW i \in DOMAIN commands, carryOut(i), controllerResetDone, ~inReset
  PROVE  /\ pc = "wait" /\ commands = <<command>> /\ responses = <<>>
         /\ commands[i] = command /\ commands' = <<>> /\ responses' = <<"17">>
<1> USE BootAssumption DEF hardware, carryOut, Inv
<1>1. commands /= <<>>
  OBVIOUS
<1>2. pc = "wait" /\ responses = <<>>
  BY <1>1 DEF Alone
<1>3. commands = <<idleCommand>> \/ commands = <<command>>
  BY <1>1, <1>2 DEF Alone
<1>4. i = 1 /\ commands = <<commands[i]>>
  BY <1>3
<1>5. commands = <<command>> /\ commands[i] = command
  BY <1>3, <1>4 DEF idleCommand
<1>6. RemoveAt(<<command>>, 1) = <<>>
  BY RemoveOnly
<1>7. commands' = <<>>
  BY <1>4, <1>5, <1>6
<1>8. command.op /= "foreign"
  BY <1>2 DEF Requests
<1>9. Append(<<>>, "17") = <<"17">>
  BY AppendFirst
<1>10. responses' = <<"17">>
  BY <1>2, <1>5, <1>8, <1>9
<1>11. QED
  BY <1>2, <1>5, <1>7, <1>10

(* The controller carries out what the driver waits for, or what was left to it.*)
LEMMA CarryOutStep ==
  ASSUME NEW i \in DOMAIN commands, Inv, carryOut(i)
  PROVE  Inv'
<1> USE BootAssumption DEF nodes, mappings, hardware, carryOut
<1> TypeOK /\ Instances /\ Unshared /\ Requests /\ Alone /\ Truthful /\ MappedForRead
  BY DEF Inv
<1>a. ASSUME ~late, ~controllerResetDone \/ inReset
      PROVE  commands[i] = foreign /\ commands' \in Seq({foreign}) /\ instances = 0 /\ pc /=
         "wait"
  BY <1>a, LeftToController
<1>b. ASSUME ~late, controllerResetDone, ~inReset
      PROVE  /\ pc = "wait" /\ commands = <<command>> /\ responses = <<>>
             /\ commands[i] = command /\ commands' = <<>> /\ responses' = <<"17">>
  BY <1>b, OnlyOurs
<1>1. TypeOK'
  <2>1. commands[i] \in CommandType
    BY LenProperties, ElementOfSeq DEF TypeOK
  <2>2. commands' \in Seq(CommandType)
    BY RemoveType DEF TypeOK
  <2>3. responses' \in Seq({"17", "other"})
    BY AppendProperties DEF TypeOK
  <2>4. memory' \in [Addresses -> -1 .. maxTransfer]
    <3>1. moved(commands[i]) \in -1 .. maxTransfer
      BY <2>1, MovedType
    <3>2. QED
      BY <3>1 DEF TypeOK
  <2>5. param' \in [op : {"none", "status", "capacity"}, unit : Units \union {None}]
    BY <2>1 DEF TypeOK, CommandType
  <2>6. status' \in {"zero", "nonzero"}
    BY DEF TypeOK
  <2>7. QED
    BY <2>2, <2>3, <2>4, <2>5, <2>6 DEF TypeOK
<1>2. Instances'
  BY DEF Instances, opening, TypeOK, Requests, closable
<1>3. Unshared'
  BY DEF Unshared, opening, usable, TypeOK, Instances
<1>4. Requests'
  BY DEF Requests, TypeOK, CommandType
<1>5. Alone'
  <2>1. CASE late
    BY <2>1 DEF Alone
  <2>2. CASE ~late /\ (~controllerResetDone \/ inReset)
    BY <1>a, <2>2 DEF Alone
  <2>3. CASE ~late /\ controllerResetDone /\ ~inReset
    BY <1>b, <2>3 DEF Alone
  <2>4. QED
    BY <2>1, <2>2, <2>3 DEF TypeOK
<1>6. Truthful'
  <2>1. CASE late
    BY <2>1 DEF Truthful
  <2>2. CASE ~late /\ (~controllerResetDone \/ inReset)
    BY <1>a, <2>2 DEF Truthful
  <2>3. CASE ~late /\ controllerResetDone /\ ~inReset
    <3>1. commands[i] = command /\ pc' = "wait" /\ command.op \in {"init", "status",
       "capacity", "read"}
          /\ command.live
      BY <1>b, <2>3 DEF Requests
    <3>2. ASSUME command.op = "read", status' = "zero"
          PROVE  memory'[command.addr] = command.count
      <4>1. moved(command) = command.count
        BY <3>1, <3>2, MovedAll DEF Requests, TypeOK
      <4>2. memory' = [memory EXCEPT ![command.addr] = moved(command)]
        BY <3>1, <3>2
      <4>3. QED
        BY <3>2, <4>1, <4>2 DEF Requests, TypeOK
    <3>3. ASSUME command.op = "status", status' = "zero"
          PROVE  param' = [op |-> "status", unit |-> command.unit]
      BY <3>1, <3>3
    <3>4. QED
      BY <3>1, <3>2, <3>3 DEF Truthful
  <2>4. QED
    BY <2>1, <2>2, <2>3 DEF TypeOK
<1>7. MappedForRead'
  BY DEF MappedForRead, Requests, mappedOut
<1> QED
  BY <1>1, <1>2, <1>3, <1>4, <1>5, <1>6, <1>7 DEF Inv

-----------------------------------------------------------------------------
(* No step breaks the invariant, nor does a stutter.                       *)
LEMMA StepInv == Inv /\ [Next]_vars => Inv'
<1> SUFFICES ASSUME Inv, [Next]_vars PROVE Inv'
  OBVIOUS
<1>1. CASE UNCHANGED vars
  BY <1>1 DEF vars, nodes, mappings, hardware, Inv, TypeOK, Instances, opening, Unshared,
     usable,
              Requests, Alone, Truthful, MappedForRead
<1>2. CASE Waiting
  BY <1>2, AnsweredStep, TimedOutStep, ResetAnsweredStep, ResetTimedOutStep, ConnectStep,
     OpenPackagesStep DEF Waiting
<1>3. CASE Client
  BY <1>3, OpenStep, CloseStep, MisusedStep, OpenDiskStep, CloseDiskStep, BlocksStep,
     ReadBlocksStep DEF Client
<1>4. CASE Controller
  BY <1>4, ComesOutOfResetStep, FetchStep, CarryOutStep DEF Controller
<1>5. QED
  BY <1>1, <1>2, <1>3, <1>4 DEF Next

(* The invariant holds in every reachable state.                           *)
THEOREM Invariance == Spec => []Inv
BY InitInv, StepInv, PTL DEF Spec

(* Every variable keeps its type: in particular read-blocks never reports  *)
(* more than max-transfer blocks, and there are never more instances than  *)
(* opens.                                                                  *)
THEOREM BootTypeCorrect == Spec => []TypeOK
<1>1. Inv => TypeOK
  BY DEF Inv
<1>2. QED
  BY <1>1, Invariance, PTL

(* While one instance of the controller node is open at a time, no window  *)
(* or buffer is used that is not mapped, whatever fails on the way: open   *)
(* and close keep the mappings in global values.                           *)
THEOREM NoFaultUnshared == Spec => []NoFault
<1>1. Inv => NoFault
  BY DEF Inv, NoFault, Unshared
<1>2. QED
  BY <1>1, Invariance, PTL

(* A client's buffer is mapped for the controller exactly while the driver *)
(* waits for the read into it, however the read ends (read-blocks).        *)
THEOREM MappedExactlyForRead == Spec => []MappedForRead
<1>1. Inv => MappedForRead
  BY DEF Inv
<1>2. QED
  BY <1>1, Invariance, PTL
-----------------------------------------------------------------------------
(* The disk it implements. *)

(* Nothing is asked but while the driver waits for a read. *)
LEMMA AskedFacts ==
  ASSUME Inv
  PROVE  /\ pc /= "wait" \/ command.op /= "read" => asked = None
         /\ pc = "wait" /\ command.op = "read" =>
              asked = [addr |-> command.addr, count |-> command.count] /\ asked /= None
<1>1. CASE pc = "wait" /\ command.op = "read"
  <2>1. command.addr \in Addresses /\ command.count \in 0 .. Word
    BY <1>1, BootAssumption DEF Inv, Requests, maxTransfer
  <2>2. asked \in [addr : Addresses, count : 0 .. Word]
    BY <1>1, <2>1 DEF asked
  <2>3. QED
    BY <1>1, <2>2, BootAssumption DEF asked
<1>2. CASE ~(pc = "wait" /\ command.op = "read")
  BY <1>2 DEF asked
<1>3. QED
  BY <1>1, <1>2

(* What the disk shows of a step that is none of its own. *)
Unseen == UNCHANGED <<online, children, memory, told, late>> /\ asked' = asked

LEMMA StutterRefines == Unseen => UNCHANGED Disk!vars
BY DEF Unseen, Disk!vars

(* A device that is no longer trusted may do anything. *)
LEMMA LateRefines == late' => Disk!Next
BY DEF Disk!Next

LEMMA InitRefines == Init => Disk!Init
BY DEF Init, Disk!Init, asked

LEMMA AnsweredRefines ==
  ASSUME Inv, answered, ~late
  PROVE  Disk!Next \/ Unseen
<1> USE DEF answered, finish, mappings, hardware
<1>1. pc = "wait" /\ pc' /= "wait" /\ asked' = None
  BY DEF asked
<1>2. CASE command.op = "read"
  <2>1. asked = [addr |-> command.addr, count |-> command.count] /\ asked /= None
    BY <1>1, <1>2, AskedFacts
  <2>2. told' \in {0, asked.count}
    BY <1>2, <2>1
  <2>3. ASSUME told' /= 0
        PROVE  memory[asked.addr] = told'
    <3>1. good /\ told' = command.count
      BY <1>2, <2>3
    <3>2. responses = <<"17">> /\ status = "zero"
      BY <1>1, <3>1 DEF Inv, Alone, good
    <3>3. QED
      BY <1>1, <1>2, <2>1, <3>1, <3>2 DEF Inv, Truthful
  <2>4. Disk!Answer
    BY <1>1, <2>1, <2>2, <2>3 DEF Disk!Answer
  <2>5. QED
    BY <2>4 DEF Disk!Next
<1>3. CASE command.op /= "read"
  BY <1>1, <1>3, AskedFacts DEF Unseen
<1>4. QED
  BY <1>2, <1>3

LEMMA OpenPackagesRefines ==
  ASSUME Inv, openPackages, ~late
  PROVE  Disk!Next \/ Unseen
<1> USE DEF openPackages, mappings, hardware
<1>1. asked = None /\ asked' = None
  BY DEF asked
<1>2. CASE children' = children
  BY <1>1, <1>2 DEF Unseen
<1>3. CASE children' = children \union {command.unit}
  <2>1. command.unit \in online /\ command.unit \in Units
    BY DEF Inv, Truthful, Requests
  <2>2. Disk!Open(command.unit)
    BY <1>1, <1>3, <2>1 DEF Disk!Open
  <2>3. QED
    BY <2>1, <2>2 DEF Disk!Next
<1>4. QED
  BY <1>2, <1>3

LEMMA CloseDiskRefines ==
  ASSUME Inv, NEW u \in Units, closeDisk(u)
  PROVE  Disk!Next
<1>1. asked = None /\ asked' = None
  BY DEF asked, closeDisk
<1>2. Disk!Close(u)
  BY <1>1 DEF closeDisk, mappings, hardware, Disk!Close
<1>3. QED
  BY <1>2 DEF Disk!Next

LEMMA ReadBlocksRefines ==
  ASSUME Inv, NEW u \in Units, NEW a \in Addresses, NEW n \in 1 .. Word, readBlocks(u, a, n)
  PROVE  Disk!Next
<1> USE DEF readBlocks, ready, post, Command
<1>1. asked = None /\ asked' = [addr |-> a, count |-> n]
  BY DEF asked
<1>2. n \in 1 .. maxTransfer
  BY WordFacts
<1>3. Disk!Ask(a, n)
  BY <1>1 DEF nodes, mappings, Disk!Ask
<1>4. QED
  BY <1>2, <1>3 DEF Disk!Next

LEMMA CarryOutRefines ==
  ASSUME Inv, NEW i \in DOMAIN commands, carryOut(i), ~late
  PROVE  Disk!Next \/ Unseen
<1> USE DEF carryOut, nodes, mappings
<1>1. asked' = asked /\ UNCHANGED <<online, children, told, late>>
  BY DEF asked
<1>2. CASE memory' = memory
  BY <1>1, <1>2 DEF Unseen
<1>3. CASE memory' /= memory
  <2>1. commands[i].op = "read"
    BY <1>3
  <2>2. controllerResetDone /\ ~inReset
    <3>1. commands[i] /= foreign
      BY <2>1 DEF foreign, idleCommand
    <3>2. QED
      BY <3>1, LeftToController
  <2>3. pc = "wait" /\ commands[i] = command
    BY <2>2, OnlyOurs
  <2>4. command.live /\ command.op = "read" /\ command \in CommandType
        /\ command.count \in 1 .. maxTransfer
    BY <2>1, <2>3 DEF Inv, Requests, TypeOK
  <2>5. memory' = [memory EXCEPT ![command.addr] = command.count]
    <3>1. moved(command) = command.count
      BY <2>4, MovedAll
    <3>2. QED
      BY <1>3, <2>3, <2>4, <3>1
  <2>6. asked = [addr |-> command.addr, count |-> command.count] /\ asked /= None
    BY <2>3, <2>4, AskedFacts
  <2>7. Disk!Deliver
    <3>1. asked.addr = command.addr /\ asked.count = command.count
      BY <2>6
    <3>2. (~late)' = ~late /\ UNCHANGED <<online, children, told>> /\ asked' = asked
      BY <1>1
    <3>3. QED
      BY <2>5, <2>6, <3>1, <3>2 DEF Disk!Deliver
  <2>8. QED
    BY <2>7 DEF Disk!Next
<1>4. QED
  BY <1>2, <1>3

LEMMA StepRefines == Inv /\ [Next]_vars => [Disk!Next]_(Disk!vars)
<1> SUFFICES ASSUME Inv, [Next]_vars PROVE Disk!Next \/ Unseen
  BY StutterRefines
<1> USE DEF nodes, mappings, hardware
<1>1. CASE UNCHANGED vars
  BY <1>1 DEF vars, Unseen, asked
<1>2. CASE late'
  BY <1>2, LateRefines
<1>3. CASE ~late' /\ Waiting
  <2>1. ~late
    BY <1>3 DEF Waiting, answered, timedOut, finish, resetAnswered, resetTimedOut, connect,
       post,
                openPackages
  <2>2. CASE answered
    BY <2>1, <2>2, AnsweredRefines
  <2>3. CASE resetAnswered
    BY <2>3 DEF resetAnswered, Unseen, asked
  <2>4. CASE connect
    BY <2>4 DEF connect, post, Command, Unseen, asked
  <2>5. CASE openPackages
    BY <2>1, <2>5, OpenPackagesRefines
  <2>6. QED
    BY <1>3, <2>2, <2>3, <2>4, <2>5 DEF Waiting, timedOut, resetTimedOut
<1>4. CASE Client
  <2>1. CASE open
    BY <2>1 DEF open, ready, mapEscaladeRegisters, allocateDmaBuffers, resetController, Unseen,
                asked
  <2>2. CASE close
    BY <2>2 DEF close, Unseen, asked
  <2>3. CASE misused
    BY <2>3 DEF misused, Unseen, asked
  <2>4. ASSUME NEW u \in Units, openDisk(u) PROVE Unseen
    BY <2>4 DEF openDisk, ready, post, Command, Unseen, asked
  <2>5. ASSUME NEW u \in Units, blocks(u) PROVE Unseen
    BY <2>5 DEF blocks, ready, post, Command, Unseen, asked
  <2>6. QED
    BY <1>4, <2>1, <2>2, <2>3, <2>4, <2>5, CloseDiskRefines, ReadBlocksRefines DEF Client
<1>5. CASE ~late' /\ Controller
  <2>1. ASSUME NEW i \in DOMAIN commands, carryOut(i) PROVE Disk!Next \/ Unseen
    BY <1>5, <2>1, CarryOutRefines DEF carryOut
  <2>2. ASSUME NEW i \in DOMAIN commands, fetch(i) PROVE Unseen
    BY <2>2 DEF fetch, Unseen, asked
  <2>3. CASE comesOutOfReset
    BY <2>3 DEF comesOutOfReset, Unseen, asked
  <2>4. QED
    BY <1>5, <2>1, <2>2, <2>3 DEF Controller
<1>6. QED
  BY <1>1, <1>2, <1>3, <1>4, <1>5 DEF Next

(* Until it has once given up waiting, the boot driver is the disk it      *)
(* promises to be: the answer it waits for is the answer to what it asked, *)
(* although every command has the same tag (run-command: "fetch the        *)
(* response queue value and check that we got our command back").          *)
THEOREM BootDiskImplements == Spec => IsBlockDevice
BY InitRefines, StepRefines, Invariance, PTL DEF Spec, IsBlockDevice, Disk!Spec
=============================================================================
