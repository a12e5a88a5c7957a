--------------------------- MODULE CommandBuffers ---------------------------
(***************************************************************************)
(* The memory a command refers to: the data buffer of its client, the      *)
(* parameter buffer of a GET or SET PARAM, and the copy buffer of a        *)
(* transfer the controller cannot do in place.  Who retains and releases   *)
(* them, from getCommand to returnCommand, and what a reset does to        *)
(* commands it takes from the pool and puts back.                          *)
(*                                                                         *)
(* The queues a command is on are the subject of CommandPath; here a       *)
(* command's stage says who has it.  A posted command may be parked by a   *)
(* reset and resubmitted: its buffers stay as they are.                    *)
(***************************************************************************)
EXTENDS Integers, FiniteSets

CONSTANTS
  IOCommands, AdminCommands, UserCommands,
  Emergency,
  ClientBuffers,       \* memory of the clients, who hold one reference to each
  DriverBuffers,       \* memory the driver can allocate (bounds its leaks)
  NULL

Commands == IOCommands \union AdminCommands \union UserCommands
Buffers == ClientBuffers \union DriverBuffers
Fields == {"data", "param", "copy", "real"}

ASSUME BufferAssumption ==
  /\ IOCommands \intersect AdminCommands = {}
  /\ IOCommands \intersect UserCommands = {}
  /\ AdminCommands \intersect UserCommands = {}
  /\ Emergency \in AdminCommands
  /\ ClientBuffers \intersect DriverBuffers = {}
  /\ NULL \notin Commands \union Buffers

VARIABLES
  stage,               \* who has each command
  use,                 \* what it was made for
  result,              \* what getResult says of it
  fields,              \* dataBuffer, paramBuffer, copyBuffer, realBuffer
  refs,                \* references to each buffer
  full,                \* the buffers that hold their request's data
  lost,                \* history: buffers the driver forgot a reference to
  emergencyCommand, resetting,
  owed,                \* commands doAsyncReadWrite has still to return
  refused, stale       \* history: what the properties make exceptions of

memory == <<fields, refs, full, lost>>
reset == <<emergencyCommand, resetting, stale>>
vars == <<stage, use, result, memory, reset, owed, refused>>

Init ==
  /\ stage = [c \in Commands |-> IF c = Emergency THEN "kept" ELSE "free"]
  /\ use = [c \in Commands |-> "none"]
  /\ result = [c \in Commands |-> FALSE]
  /\ fields = [c \in Commands |-> [f \in Fields |-> NULL]]
  /\ refs = [b \in Buffers |-> IF b \in ClientBuffers THEN 1 ELSE 0]
  /\ full = {} /\ lost = {}
  /\ emergencyCommand = Emergency /\ resetting = FALSE
  /\ owed = {} /\ refused = FALSE /\ stale = FALSE

Live == {c \in Commands : stage[c] \in {"made", "posted", "done"}}

\* A buffer no command points to, and one whose memory is free besides.
idle(b) == \A c \in Live, f \in Fields : fields[c][f] /= b
fresh(b) == refs[b] = 0 /\ \A c \in Commands, f \in Fields : fields[c][f] /= b
-----------------------------------------------------------------------------
(* What happens to the memory of one command; m has its fields, and refs,  *)
(* full and lost of all buffers.                                           *)

memoryOf(c) == [ptr |-> fields[c], refs |-> refs, full |-> full, lost |-> lost]

becomes(c, m) ==
  /\ fields' = [fields EXCEPT ![c] = m.ptr]
  /\ refs' = m.refs /\ full' = m.full /\ lost' = m.lost

\* release() of what a field points to, if it points to anything.
release(m, f) == IF m.ptr[f] = NULL THEN m ELSE [m EXCEPT !.refs[m.ptr[f]] = @ - 1]

wasGotten(m) == [m EXCEPT !.ptr = [f \in Fields |-> NULL]]

setDataBuffer(m, b) == [m EXCEPT !.refs[b] = @ + 1, !.ptr.data = b]

releaseDataBuffer(m) == [release(m, "data") EXCEPT !.ptr.data = NULL]

\* A new buffer, retained once more as the data buffer.
getParamBuffer(m, b) ==
  setDataBuffer([m EXCEPT !.ptr.param = b, !.refs[b] = 1], b)

\* setDataBuffer(NULL) drops the data buffer without releasing it.
releaseParamBuffer(m) ==
  IF m.ptr.param = NULL THEN m
  ELSE [release(m, "param") EXCEPT !.ptr.param = NULL, !.ptr.data = NULL,
                                   !.lost = @ \union {m.ptr.data}]

\* The real buffer is saved and a copy takes its place.
getCopyBuffer(c, m, b) ==
  [m EXCEPT !.ptr = [@ EXCEPT !.real = m.ptr.data, !.copy = b, !.data = b],
            !.refs[b] = 1,
            !.full = IF m.ptr.data \in @ THEN @ \union {b} ELSE @ \ {b}]

\* Inbound data is copied back; a variant that forgets to.
notWrittenBack(c, m) == m
writtenBack(c, m) ==
  IF use[c] = "read" /\ m.ptr.copy \in m.full
  THEN [m EXCEPT !.full = @ \union {m.ptr.real}] ELSE m

\* A variant that does not free the copy.
copyKept(c, m) ==
  IF m.ptr.copy = NULL THEN m
  ELSE [writtenBack(c, m) EXCEPT !.ptr = [@ EXCEPT !.data = m.ptr.real, !.real = NULL, !.copy = NULL]]
finishCopyBuffer(c, m) ==
  IF m.ptr.copy = NULL THEN m
  ELSE [release(writtenBack(c, m), "copy") EXCEPT
          !.ptr = [@ EXCEPT !.data = m.ptr.real, !.real = NULL, !.copy = NULL]]

\* "Release any lingering resources": the pointers stay.
returned(m) == release(release(release(release(m, "data"), "param"), "copy"), "real")
-----------------------------------------------------------------------------
(* Making a command *)

\* A flush and a user command without data touch no buffer and are left out.
Uses(c) == IF c \in IOCommands THEN {"read", "write"}
           ELSE IF c \in AdminCommands THEN {"getParam", "setParam", "plain"}
           ELSE {"user"}

async(c) == use[c] \in {"read", "write"}

\* getCommand for use u, and the command's constructor, which leaves m.
make(c, u, m) ==
  /\ stage[c] = "free" /\ u \in Uses(c)
  /\ stage' = [stage EXCEPT ![c] = "made"]
  /\ use' = [use EXCEPT ![c] = u]
  /\ becomes(c, m)
  /\ UNCHANGED <<result, reset, owed, refused>>

\* doAsyncReadWrite, doCommand: the data buffer is the client's.
makeWithData(c, b) ==
  \E u \in {"read", "write", "user"} :
    /\ idle(b)
    /\ make(c, u, setDataBuffer([wasGotten(memoryOf(c)) EXCEPT
                                   !.full = IF u = "write" THEN @ \union {b} ELSE @ \ {b}], b))

makeParam(c, b) ==
  \E u \in {"getParam", "setParam"} :
    fresh(b) /\ make(c, u, getParamBuffer(wasGotten(memoryOf(c)), b))

\* makeInitConnection, makePowerSave.
makePlain(c) == make(c, "plain", wasGotten(memoryOf(c)))
-----------------------------------------------------------------------------
(* Running it *)

\* complete(), of a command whose memory is m: a waiting owner has the
\* command again, other commands are torn down.
complete(c, m, success) ==
  LET finished == finishCopyBuffer(c, m)
      kept == IF use[c] = "setParam" THEN releaseParamBuffer(finished) ELSE finished
  IN /\ result' = [result EXCEPT ![c] = success]
     /\ stage' = [stage EXCEPT ![c] = IF async(c) THEN "free" ELSE "done"]
     /\ use' = [use EXCEPT ![c] = IF async(c) THEN "none" ELSE @]
     /\ becomes(c, IF async(c) THEN returned(releaseDataBuffer(kept)) ELSE kept)

\* prepare() and postCommand() succeed, at once or with a copy; only the
\* buffers of the block storage clients may be misaligned.
postInPlace(c) ==
  /\ stage[c] = "made"
  /\ stage' = [stage EXCEPT ![c] = "posted"]
  /\ UNCHANGED <<use, result, memory, reset, owed, refused>>

postCopy(c) ==
  /\ stage[c] = "made" /\ async(c)
  /\ \E b \in DriverBuffers : fresh(b) /\ becomes(c, getCopyBuffer(c, memoryOf(c), b))
  /\ stage' = [stage EXCEPT ![c] = "posted"]
  /\ UNCHANGED <<use, result, reset, owed, refused>>

\* prepare() or postCommand() fails: with the buffer as it was, with the copy
\* made, or with no memory for one, when the real buffer is saved already.
\* Bound: one read or write is refused.
refuse(c) ==
  /\ stage[c] = "made" /\ ~(async(c) /\ refused)
  /\ \/ complete(c, memoryOf(c), FALSE)
     \/ /\ async(c)
        /\ \E b \in DriverBuffers :
             fresh(b) /\ complete(c, getCopyBuffer(c, memoryOf(c), b), FALSE)
     \/ /\ async(c)
        /\ complete(c, [memoryOf(c) EXCEPT !.ptr.real = fields[c].data], FALSE)
  /\ refused' = (refused \/ async(c))
  /\ owed' = IF async(c) THEN owed \union {c} ELSE owed
  /\ UNCHANGED reset

\* doAsyncReadWrite returns a command that complete() has returned before.
returnAgain(c) ==
  /\ c \in owed
  /\ owed' = owed \ {c}
  /\ stage' = [stage EXCEPT ![c] = "free"]
  /\ use' = [use EXCEPT ![c] = "none"]
  /\ becomes(c, returned(memoryOf(c)))
  /\ UNCHANGED <<result, reset, refused>>

\* What the controller did to the data buffer.
transferred(c, success) ==
  IF use[c] = "read" /\ success
  THEN [memoryOf(c) EXCEPT !.full = @ \union {fields[c].data}] ELSE memoryOf(c)

\* A completion; failure is also what a resubmission that fails looks like.
handleInterrupt(c) ==
  /\ stage[c] = "posted"
  /\ \E success \in BOOLEAN : complete(c, transferred(c, success), success)
  /\ UNCHANGED <<reset, owed, refused>>

\* The owner collects the parameter or drops its buffer, and returns.
returnCommand(c) ==
  /\ stage[c] = "done"
  /\ stage' = [stage EXCEPT ![c] = "free"]
  /\ use' = [use EXCEPT ![c] = "none"]
  /\ result' = [result EXCEPT ![c] = FALSE]
  /\ becomes(c, returned(IF use[c] = "getParam" /\ result[c] THEN releaseParamBuffer(memoryOf(c))
                         ELSE IF use[c] = "user" THEN releaseDataBuffer(memoryOf(c))
                         ELSE memoryOf(c)))
  /\ UNCHANGED <<reset, owed, refused>>
-----------------------------------------------------------------------------
(* A reset *)

dangling(c) == \E f \in Fields : fields[c][f] /= NULL

\* The admin commands in their pool; a variant that takes any command.
anyPooled == {c \in Commands : stage[c] = "free"}
pooled == {c \in AdminCommands : stage[c] = "free"}

\* A command from the pool, or the emergency command, is put into the pool.
supply ==
  /\ ~resetting /\ resetting' = TRUE
  /\ emergencyCommand' = NULL
  /\ \E c \in IF pooled /= {} THEN pooled ELSE {emergencyCommand} \ {NULL} :
       /\ stage' = [stage EXCEPT ![c] = "free"]
       /\ becomes(c, returned(memoryOf(c)))
       /\ stale' = (stale \/ dangling(c))
  /\ UNCHANGED <<use, result, owed, refused>>

\* "recover emergency command"
recover ==
  /\ resetting /\ resetting' = FALSE
  /\ \/ /\ pooled = {} /\ emergencyCommand' = NULL /\ UNCHANGED stage
     \/ \E c \in pooled :
          emergencyCommand' = c /\ stage' = [stage EXCEPT ![c] = "kept"]
  /\ UNCHANGED <<use, result, memory, owed, refused, stale>>
-----------------------------------------------------------------------------
\* The machine panics on the release of a buffer that is gone.
panicked == \E b \in Buffers : refs[b] < 0

CommandStep(c) ==
  \/ \E b \in ClientBuffers : makeWithData(c, b)
  \/ \E b \in DriverBuffers : makeParam(c, b)
  \/ makePlain(c) \/ postInPlace(c) \/ postCopy(c) \/ refuse(c) \/ returnAgain(c)
  \/ handleInterrupt(c) \/ returnCommand(c)

Next == ~panicked /\ ((\E c \in Commands : CommandStep(c)) \/ supply \/ recover)

Spec == Init /\ [][Next]_vars
-----------------------------------------------------------------------------
TypeOK ==
  /\ stage \in [Commands -> {"free", "kept", "made", "posted", "done"}]
  /\ use \in [Commands -> {"none", "read", "write", "plain", "getParam", "setParam", "user"}]
  /\ result \in [Commands -> BOOLEAN]
  /\ fields \in [Commands -> [Fields -> Buffers \union {NULL}]]
  /\ refs \in [Buffers -> Int]
  /\ full \subseteq Buffers /\ lost \subseteq DriverBuffers /\ owed \subseteq Commands
  /\ emergencyCommand \in AdminCommands \union {NULL}
  /\ resetting \in BOOLEAN /\ refused \in BOOLEAN /\ stale \in BOOLEAN

\* No read or write was refused, and no reset returned a command whose
\* pointers were left over: what the code gets wrong.
tidy == ~refused /\ ~stale

\* The references a command itself has to give back: while there is a copy,
\* dataBuffer is only another name for it.
owns(c, f) == c \in Live /\ (f = "data" => fields[c].copy = NULL)
held(b) == {p \in Commands \X Fields : owns(p[1], p[2]) /\ fields[p[1]][p[2]] = b}
own(b) == IF b \in ClientBuffers \union lost THEN 1 ELSE 0

\* But for those cases, every reference to a buffer is held by a command in
\* use, is the client's, or is the one that releaseParamBuffer forgets: none
\* is dropped and none is given back twice (retain and release in
\* EscaladeCommand.cpp).
RefsAccounted == tidy => \A b \in Buffers : refs[b] = Cardinality(held(b)) + own(b)

\* The buffer a read or write was asked for.
asked(c) == IF fields[c].copy = NULL THEN fields[c].data ELSE fields[c].real

\* But for those cases, a read that succeeds has put its data in the client's
\* buffer, and a write gives the controller the client's data.
DataDelivered ==
  [][tidy => \A c \in Commands :
       /\ stage[c] = "posted" /\ use[c] = "read" /\ stage'[c] = "free" /\ result'[c] =>
            asked(c) \in ClientBuffers /\ asked(c) \in full'
       /\ stage[c] = "made" /\ use[c] = "write" /\ stage'[c] = "posted" =>
            fields'[c].data \in full']_vars
=============================================================================
