--------------------------- MODULE ScatterGather ---------------------------
(***************************************************************************)
(* The scatter/gather list of a command, from the buffer of a request to   *)
(* the bytes that are reported: the memory cursor lists the buffer's       *)
(* segments, prepare looks whether the controller can take them, or has    *)
(* them copied, and complete reports what was listed.                      *)
(*                                                                         *)
(* It is one command, with the packet that keeps its contents from one     *)
(* request to the next.  Of the list it is enough where it begins, how     *)
(* many entries it has, how many bytes they cover and how far it has been  *)
(* written, which may be past the packet.  The packet of a user client is  *)
(* its own, unchecked.  prepare and complete run in the gate, getCommand   *)
(* and makeReadWrite do not.                                               *)
(***************************************************************************)
EXTENDS Integers

CONSTANTS
  TWE_ALIGNMENT, TWE_SECTOR_SIZE,
  TWE_MAX_SGL_LENGTH, TWE_MAX_IO_LENGTH, TWE_MAX_COPYBUFFER,
  PacketWords,         \* 32-bit words of a packet
  BlockCounts,         \* values of block_count (2^16 in the code)
  PageSize,            \* memory is contiguous in pages
  UserSizes, UserOffsets, \* bounds: size and sgoff of a user's packet (any in the code)
  MaxUserSize          \* bound: sectors in a user client's buffer

\* The opcodes of reads and writes say where their list begins.
ReadWriteOffset == 3

\* 2^16 block counts, and 128K in pages of 4K take fewer than 62 entries.
ASSUME SGAssumption ==
  /\ TWE_ALIGNMENT \in Nat \ {0} /\ TWE_SECTOR_SIZE \in Nat \ {0}
  /\ TWE_MAX_SGL_LENGTH \in Nat \ {0} /\ 3 + 2 * TWE_MAX_SGL_LENGTH < 256
  /\ PacketWords \in Nat /\ ReadWriteOffset + 2 * TWE_MAX_SGL_LENGTH < PacketWords
  /\ UserSizes \subseteq 0 .. 255 /\ UserOffsets \subseteq 0 .. 7
  /\ TWE_MAX_IO_LENGTH \in Nat /\ BlockCounts \in Nat /\ TWE_MAX_IO_LENGTH < BlockCounts
  /\ PageSize \in Nat \ {0} /\ TWE_MAX_COPYBUFFER \in Nat
  /\ TWE_MAX_COPYBUFFER <= (TWE_MAX_SGL_LENGTH - 1) * PageSize
  /\ MaxUserSize \in Nat

VARIABLES
  client,              \* whose command it is: of the drive nubs or a user client
  pc,
  asked,               \* sectors of the request
  length, copied,      \* the data buffer: its length, whether it is a copy
  index, done,         \* the cursor: the next entry, and how far it is
  invalid,             \* sg[0].address is TWEMC_INVALID
  listed,              \* packet: bytes the entries of the list cover
  size, block_count,   \* packet
  sgoff,               \* packet, the opcode: the word its list begins at, 0 for none
  reach,               \* the words from the packet's first to the end of what was written
  byteCount,
  callback,            \* a completion that is about to be invoked
  told                 \* what the last completion said, and of which request

packet == <<invalid, listed, size, block_count, sgoff, reach>>
vars == <<client, pc, asked, length, copied, index, done, packet, byteCount, callback, told>>

none == [asked |-> 0, success |-> FALSE]

Init ==
  /\ client \in {"drive", "user"}
  /\ pc = "idle" /\ asked = 0
  /\ length = 0 /\ copied = FALSE /\ index = 0 /\ done = 0
  /\ invalid = FALSE /\ listed = 0 /\ size = 0 /\ block_count = 0
  /\ sgoff = 0 /\ reach = 0
  /\ byteCount = 0 /\ callback = none /\ told = [asked |-> 0, bytes |-> 0]

\* The thread that completes the command has the gate; a variant without it.
anyTime == TRUE
GateFree == callback = none
-----------------------------------------------------------------------------
(* What may be asked *)

\* What reportMaxReadTransfer says and the block storage clients keep; a
\* variant that says one block more.
oneMore == TWE_MAX_IO_LENGTH + 1
maxBlocks == TWE_MAX_IO_LENGTH

\* makeReadWrite
makeReadWrite(n) ==
  /\ pc = "idle" /\ client = "drive"
  /\ pc' = "made"
  /\ asked' = n /\ length' = n * TWE_SECTOR_SIZE
  /\ copied' = FALSE
  /\ size' = 3 /\ block_count' = n % BlockCounts /\ sgoff' = ReadWriteOffset /\ reach' = 0
  /\ UNCHANGED <<client, index, done, invalid, listed, byteCount, callback, told>>

\* doCommand: the packet is the user's, the buffer none, or whole sectors, aligned.
doCommand(n) ==
  /\ pc = "idle" /\ client = "user"
  /\ pc' = "made"
  /\ asked' = n /\ length' = n * TWE_SECTOR_SIZE
  /\ copied' = FALSE
  /\ size' \in UserSizes /\ block_count' \in 0 .. BlockCounts - 1
  /\ sgoff' \in UserOffsets /\ invalid' \in BOOLEAN /\ reach' = 0
  /\ UNCHANGED <<client, index, done, listed, byteCount, callback, told>>
-----------------------------------------------------------------------------
(* The memory cursor *)

\* "command has scatter/gather list & data"
hasList == sgoff /= 0 /\ length > 0

startCursor ==
  /\ pc = "made" /\ GateFree /\ hasList
  /\ pc' = "cursor" /\ index' = 0 /\ done' = 0 /\ listed' = 0 /\ reach' = 0
  /\ UNCHANGED <<client, asked, length, copied, invalid, size, block_count, sgoff, byteCount,
                 callback, told>>

\* The words to the end of the list's entry i.
endOf(i) == sgoff + 2 * (i + 1)

aligned(location, n) == location % TWE_ALIGNMENT = 0 /\ n % TWE_SECTOR_SIZE = 0

\* A segment of n bytes may come next: block storage clients keep to
\* kIOMaximumSegmentCount; the other buffers are aligned, and contiguous in
\* pages.
isSegment(location, n) ==
  LET rest == length - done IN
  IF client = "drive" /\ ~copied
  THEN index = TWE_MAX_SGL_LENGTH - 1 => n = rest
  ELSE aligned(location, n) /\ (index = 0 \/ n = rest \/ n >= PageSize)

\* "no good, flag and ignore": the flag is in the first entry, which the first
\* aligned segment overwrites; a variant that flags the segment's own entry.
flagOwn(location, n) == IF index = 0 THEN ~aligned(location, n) ELSE invalid
flag(location, n) ==
  IF aligned(location, n) THEN index /= 0 /\ invalid ELSE TRUE

\* The cursor stops when the list is full; a variant that goes one further.
notOver == index <= TWE_MAX_SGL_LENGTH
room == index < TWE_MAX_SGL_LENGTH

\* The first entry of a list at word 1 lies over block_count.
overHeader == sgoff = 1 /\ index = 0

outputEscaladeSegment(location, n) ==
  /\ pc = "cursor" /\ done < length /\ room
  /\ isSegment(location, n)
  /\ invalid' = flag(location, n)
  /\ listed' = IF aligned(location, n) THEN listed + n ELSE listed
  /\ reach' = IF aligned(location, n) THEN endOf(index) ELSE reach
  /\ block_count' \in IF overHeader THEN 0 .. BlockCounts - 1 ELSE {block_count}
  /\ index' = index + 1 /\ done' = done + n
  /\ UNCHANGED <<client, pc, asked, length, copied, size, sgoff, byteCount, callback, told>>

exhausted == pc = "cursor" /\ (done = length \/ ~room)
-----------------------------------------------------------------------------
(* prepare, and what its callers make of its result *)

\* The reads and writes are asynchronous, the user client waits.
completed(success) ==
  /\ pc' = "idle"
  /\ callback' = IF client = "drive" THEN [asked |-> asked, success |-> success] ELSE callback

\* An empty entry goes behind the list, also behind a full one.
prepare ==
  /\ exhausted /\ ~invalid
  /\ size' = (size + 2 * index) % 256
  /\ reach' = endOf(index)
  /\ byteCount' = done
  /\ pc' = "posted"
  /\ UNCHANGED <<client, asked, length, copied, index, done, invalid, listed, block_count,
                 sgoff, callback, told>>

prepareNoList ==
  /\ pc = "made" /\ GateFree /\ ~hasList
  /\ pc' = "posted"
  /\ UNCHANGED <<client, asked, length, copied, index, done, packet, byteCount, callback, told>>

\* The length of a copy: whole sectors.
rounded == length + ((TWE_SECTOR_SIZE - (length % TWE_SECTOR_SIZE)) % TWE_SECTOR_SIZE)

\* kIOReturnNotAligned; and prepare again.
getCopyBuffer ==
  /\ exhausted /\ invalid /\ length <= TWE_MAX_COPYBUFFER
  /\ copied' = TRUE /\ length' = rounded
  /\ pc' = "made"
  /\ UNCHANGED <<client, asked, index, done, packet, byteCount, callback, told>>

\* The buffer is too large to be copied, or there is no memory.
refused ==
  /\ exhausted /\ invalid
  /\ completed(FALSE)
  /\ UNCHANGED <<client, asked, length, copied, index, done, packet, byteCount, told>>

\* By the controller, by a reset, or because it could not be posted.
complete ==
  /\ pc = "posted" /\ GateFree
  /\ \E success \in BOOLEAN : completed(success)
  /\ UNCHANGED <<client, asked, length, copied, index, done, packet, byteCount, told>>

\* The command has been returned already.
invokeCompletion ==
  /\ callback /= none
  /\ told' = [asked |-> callback.asked, bytes |-> IF callback.success THEN byteCount ELSE 0]
  /\ callback' = none
  /\ UNCHANGED <<client, pc, asked, length, copied, index, done, packet, byteCount>>
-----------------------------------------------------------------------------
Next ==
  \/ \E n \in 1 .. maxBlocks : makeReadWrite(n)
  \/ \E n \in 0 .. MaxUserSize : doCommand(n)
  \/ startCursor
  \/ \E location \in 0 .. TWE_ALIGNMENT - 1, n \in 1 .. length - done :
       outputEscaladeSegment(location, n)
  \/ prepare \/ prepareNoList \/ getCopyBuffer \/ refused \/ complete \/ invokeCompletion

Spec == Init /\ [][Next]_vars
-----------------------------------------------------------------------------
\* size is a byte, block_count two.  The list never has more entries than there
\* is room for, which keeps that of a read or write in the packet, all but the
\* last word of the empty entry behind a full list (getPhysicalSegments, prepare);
\* a user client's may begin, and so end, anywhere.
TypeOK ==
  /\ client \in {"drive", "user"}
  /\ pc \in {"idle", "made", "cursor", "posted"}
  /\ asked \in Nat /\ length \in Nat /\ copied \in BOOLEAN
  /\ index \in 0 .. TWE_MAX_SGL_LENGTH /\ done \in Nat
  /\ invalid \in BOOLEAN /\ listed \in 0 .. done
  /\ sgoff \in 0 .. 7 /\ reach \in 0 .. endOf(TWE_MAX_SGL_LENGTH)
  /\ client = "drive" => /\ reach <= PacketWords + 1
                         /\ reach > PacketWords => index = TWE_MAX_SGL_LENGTH
  /\ size \in 0 .. 255 /\ block_count \in 0 .. BlockCounts - 1
  /\ byteCount \in Nat
  /\ callback \in [asked : Nat, success : BOOLEAN]
  /\ told \in [asked : Nat, bytes : Nat]

\* A read or write that is posted has in its list all the memory it was asked
\* for, its own or that of a copy, and only what the controller can take, and
\* its size and its block count say the same; a user client's command that has a
\* list has as much in it as it holds (prepare, getPhysicalSegments,
\* getCopyBuffer).
ListCovers ==
  pc = "posted" =>
    /\ hasList => listed = byteCount
    /\ client = "drive" => /\ hasList /\ listed = asked * TWE_SECTOR_SIZE
                           /\ block_count = asked /\ size = 3 + 2 * index
    /\ client = "user" => /\ ~copied
                          /\ hasList /\ listed < length => index = TWE_MAX_SGL_LENGTH

\* A read or write is reported done with all of its bytes or none, although
\* byteCount is read after the command was returned and may be in use again
\* (complete).
ReportedWhole == told.bytes \in {0, told.asked * TWE_SECTOR_SIZE}
=============================================================================
