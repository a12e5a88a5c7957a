------------------------ MODULE ScatterGather_proofs ------------------------
(* What is posted covers what was asked for, and a read or write is        *)
(* reported whole, for every alignment, sector size, list length, page     *)
(* size and limit on a transfer, and any packets of a user client.         *)
EXTENDS ScatterGather, TLAPS

S == TWE_SECTOR_SIZE
Max == TWE_MAX_SGL_LENGTH

(* A request is whole sectors, with a list if it is a read or write; a     *)
(* copy is never larger than the list holds.                               *)
Requested ==
  /\ pc \in {"made", "cursor", "posted"} =>
       /\ length = asked * S
       /\ client = "drive" => /\ asked >= 1 /\ sgoff = 3 /\ block_count = asked
                              /\ pc /= "posted" => size = 3
       /\ copied => client = "drive" /\ length <= TWE_MAX_COPYBUFFER
  /\ pc = "cursor" => hasList

(* How far the cursor is, and what it has listed.                          *)
Listing ==
  pc = "cursor" =>
    /\ done <= length
    /\ index = 0 => done = 0
    /\ index > 0 /\ ~invalid => listed = done
    /\ client = "drive" /\ ~copied /\ index = Max => done = length
    /\ client = "user" \/ copied => (index > 0 => ~invalid)
    /\ copied /\ index > 0 /\ done < length => done >= (index - 1) * PageSize

(* The completion that is about to be invoked is of the last request, whose *)
(* byte count nobody has changed since.                                    *)
Reported ==
  callback /= none =>
    /\ pc \in {"idle", "made"}
    /\ callback.success => byteCount = callback.asked * S

Inv == TypeOK /\ Requested /\ Listing /\ ListCovers /\ Reported /\ ReportedWhole
-----------------------------------------------------------------------------
(* Arithmetic. *)

LEMMA Multiple == ASSUME NEW n \in Nat PROVE (n * S) % S = 0
  BY SGAssumption, SMTT(30) DEF S

LEMMA Remainder == ASSUME NEW n \in Nat, NEW m \in Nat, n < m PROVE n % m = n
  BY SMTT(30)

LEMMA RemainderType == ASSUME NEW n \in Nat, NEW m \in Nat \ {0} PROVE n % m \in 0 .. m - 1
  BY SMTT(30)

LEMMA Positive == ASSUME NEW n \in Nat, n >= 1 PROVE n * S \in Nat /\ n * S >= 1
  BY SGAssumption, SMTT(30) DEF S

(* A copy of whole sectors has the length of the original.                 *)
LEMMA RoundedSame ==
  ASSUME NEW n \in Nat, length = n * S
  PROVE  rounded = length
<1>1. length % S = 0
  BY Multiple
<1>2. (S - 0) % S = 0
  BY SGAssumption, SMTT(30) DEF S
<1>3. length \in Nat
  BY SGAssumption DEF S
<1>4. QED
  BY <1>1, <1>2, <1>3 DEF rounded, S

LEMMA OnePageMore ==
  ASSUME NEW i \in Nat, i > 0
  PROVE  /\ (i - 1) * PageSize + PageSize = i * PageSize
         /\ (i - 1) * PageSize \in Nat /\ i * PageSize \in Nat
  BY SGAssumption, SMTT(30)
-----------------------------------------------------------------------------
(* No request yet. *)
LEMMA InitInv == Init => Inv
<1> SUFFICES ASSUME Init PROVE Inv
  OBVIOUS
<1>1. TypeOK
  <2>1. none \in [asked : Nat, success : BOOLEAN]
    BY DEF none
  <2>2. told \in [asked : Nat, bytes : Nat]
    BY DEF Init
  <2>3. 0 \in 0 .. TWE_MAX_SGL_LENGTH /\ 0 \in 0 .. BlockCounts - 1
    BY SGAssumption
  <2>4. copied \in BOOLEAN /\ invalid \in BOOLEAN
    BY DEF Init
  <2>5. 0 \in 0 .. endOf(TWE_MAX_SGL_LENGTH) /\ 0 <= PacketWords + 1 /\ ~(0 > PacketWords)
    BY SGAssumption DEF Init, endOf
  <2>6. QED
    BY <2>1, <2>2, <2>3, <2>4, <2>5 DEF Init, TypeOK
<1>2. Requested /\ Listing /\ ListCovers
  BY DEF Init, Requested, Listing, ListCovers
<1>3. Reported /\ ReportedWhole
  BY DEF Init, Reported, ReportedWhole
<1>4. QED
  BY <1>1, <1>2, <1>3 DEF Inv

(* A request is made: whole sectors, as many as a block count can say.     *)
LEMMA MakeReadWriteStep ==
  ASSUME NEW n \in 1 .. maxBlocks, Inv, makeReadWrite(n)
  PROVE  Inv'
<1> USE DEF makeReadWrite
<1>1. n \in Nat /\ n >= 1 /\ n < BlockCounts /\ BlockCounts \in Nat
  BY SGAssumption DEF maxBlocks
<1>2. n * S \in Nat /\ n % BlockCounts = n
  BY <1>1, Positive, Remainder
<1>3. TypeOK'
  <2>1. length' \in Nat /\ block_count' \in 0 .. BlockCounts - 1 /\ asked' \in Nat
    BY <1>1, <1>2 DEF S
  <2>2. copied' \in BOOLEAN
    OBVIOUS
  <2>3. size' \in 0 .. 255 /\ sgoff' \in 0 .. 7
    BY DEF ReadWriteOffset
  <2>4. reach' \in 0 .. endOf(TWE_MAX_SGL_LENGTH)' /\ reach' <= PacketWords + 1
        /\ ~(reach' > PacketWords)
    BY <2>3, SGAssumption DEF endOf
  <2>5. QED
    BY <2>1, <2>2, <2>3, <2>4 DEF Inv, TypeOK
<1>4. Requested' /\ Listing' /\ ListCovers'
  BY <1>1, <1>2 DEF Requested, Listing, ListCovers, S, ReadWriteOffset
<1>5. Reported' /\ ReportedWhole'
  BY DEF Inv, Reported, ReportedWhole
<1>6. QED
  BY <1>3, <1>4, <1>5 DEF Inv

(* A user client's request likewise; its packet is its own affair.         *)
LEMMA DoCommandStep ==
  ASSUME NEW n \in 0 .. MaxUserSize, Inv, doCommand(n)
  PROVE  Inv'
<1> USE DEF doCommand
<1>1. n \in Nat
  BY SGAssumption
<1>2. n * S \in Nat
  BY <1>1, SGAssumption, SMTT(30) DEF S
<1>3. TypeOK'
  <2>1. length' \in Nat /\ block_count' \in 0 .. BlockCounts - 1 /\ asked' \in Nat
    BY <1>1, <1>2 DEF S
  <2>2. copied' \in BOOLEAN /\ invalid' \in BOOLEAN
    OBVIOUS
  <2>3. size' \in 0 .. 255 /\ sgoff' \in 0 .. 7
    BY SGAssumption
  <2>4. reach' \in 0 .. endOf(TWE_MAX_SGL_LENGTH)' /\ reach' <= PacketWords + 1
        /\ ~(reach' > PacketWords)
    <3>1. TWE_MAX_SGL_LENGTH \in Nat /\ PacketWords \in Nat
      BY SGAssumption
    <3>2. reach' = 0
      OBVIOUS
    <3> HIDE DEF doCommand
    <3>3. \A k \in 0 .. 7 : 0 \in 0 .. k + 2 * (TWE_MAX_SGL_LENGTH + 1)
      BY <3>1
    <3>4. 0 \in 0 .. endOf(TWE_MAX_SGL_LENGTH)'
      BY <2>3, <3>3 DEF endOf
    <3>5. QED
      BY <3>1, <3>2, <3>4
  <2>5. QED
    BY <2>1, <2>2, <2>3, <2>4 DEF Inv, TypeOK
<1>4. Requested' /\ Listing' /\ ListCovers'
  BY <1>1, <1>2 DEF Requested, Listing, ListCovers, S
<1>5. Reported' /\ ReportedWhole'
  BY DEF Inv, Reported, ReportedWhole
<1>6. QED
  BY <1>3, <1>4, <1>5 DEF Inv

(* The cursor starts with an empty list, while no completion is pending.   *)
LEMMA StartCursorStep ==
  ASSUME Inv, startCursor
  PROVE  Inv'
<1> USE SGAssumption DEF startCursor, GateFree, hasList
<1>1. TypeOK'
  <2>1. reach' \in 0 .. endOf(TWE_MAX_SGL_LENGTH)' /\ reach' <= PacketWords + 1
        /\ ~(reach' > PacketWords)
    BY DEF endOf, Inv, TypeOK
  <2>2. QED
    BY <2>1 DEF Inv, TypeOK
<1>2. Requested' /\ Reported' /\ ReportedWhole'
  BY DEF Inv, Requested, Reported, ReportedWhole
<1>3. length \in Nat
  BY DEF Inv, TypeOK
<1>4. Listing' /\ ListCovers'
  BY <1>3 DEF Listing, ListCovers, Max
<1>5. QED
  BY <1>1, <1>2, <1>4 DEF Inv

(* A segment is listed, or flagged; a copy's last one fits.                *)
LEMMA SegmentStep ==
  ASSUME NEW location \in 0 .. TWE_ALIGNMENT - 1, NEW n \in 1 .. length - done, Inv,
         outputEscaladeSegment(location, n)
  PROVE  Inv'
<1> USE DEF outputEscaladeSegment
<1>1. /\ pc = "cursor" /\ index \in Nat /\ index < Max /\ Max \in Nat
      /\ done \in Nat /\ length \in Nat /\ listed \in 0 .. done /\ n \in Nat /\ n >= 1
      /\ n <= length - done
  BY SGAssumption DEF Inv, TypeOK, room, Max
<1>2. index' = index + 1 /\ done' = done + n /\ done' <= length
  BY <1>1
<1>3. TypeOK'
  <2>1. invalid' \in BOOLEAN
    BY DEF flag, Inv, TypeOK
  <2>2. listed' \in 0 .. done'
    BY <1>1
  <2>3. index' \in 0 .. TWE_MAX_SGL_LENGTH /\ done' \in Nat
    BY <1>1, <1>2 DEF Max
  <2>4. block_count' \in 0 .. BlockCounts - 1
    BY DEF Inv, TypeOK
  <2>5. /\ reach' \in 0 .. endOf(TWE_MAX_SGL_LENGTH)'
        /\ client = "drive" => reach' <= PacketWords
    <3>1. sgoff \in 0 .. 7 /\ reach \in 0 .. endOf(TWE_MAX_SGL_LENGTH) /\ PacketWords \in Nat
      BY SGAssumption DEF Inv, TypeOK
    <3>2. endOf(TWE_MAX_SGL_LENGTH)' = endOf(TWE_MAX_SGL_LENGTH)
      BY DEF endOf
    <3>3. endOf(index) \in 0 .. endOf(TWE_MAX_SGL_LENGTH)
      BY <1>1, <3>1 DEF endOf, Max
    <3>4. client = "drive" => endOf(index) <= PacketWords
      BY <1>1, <3>1, SGAssumption DEF Inv, Requested, endOf, Max, ReadWriteOffset
    <3>5. client = "drive" => reach <= PacketWords
      BY <1>1, <3>1 DEF Inv, TypeOK, Max
    <3>6. reach' = endOf(index) \/ reach' = reach
      OBVIOUS
    <3>7. QED
      BY <3>1, <3>2, <3>3, <3>4, <3>5, <3>6
  <2>6. client = "drive" => reach' <= PacketWords + 1 /\ ~(reach' > PacketWords)
    BY <2>5, SGAssumption DEF endOf
  <2>7. QED
    BY <2>1, <2>2, <2>3, <2>4, <2>5, <2>6 DEF Inv, TypeOK
<1>4. Requested'
  <2>1. client = "drive" => block_count' = block_count
    BY <1>1 DEF Inv, Requested, overHeader
  <2>2. QED
    BY <1>1, <2>1 DEF Inv, Requested, hasList
<1>5. ListCovers' /\ Reported' /\ ReportedWhole'
  BY <1>1 DEF Inv, ListCovers, Reported, ReportedWhole
<1>6. Listing'
  <2>1. ~invalid' => listed' = done'
    <3>1. CASE ~aligned(location, n)
      BY <3>1 DEF flag
    <3>2. CASE aligned(location, n) /\ index = 0
      BY <1>1, <3>2 DEF Inv, Listing
    <3>3. CASE aligned(location, n) /\ index /= 0
      <4>1. invalid' = invalid
        BY <3>3 DEF flag, Inv, TypeOK
      <4>2. QED
        BY <1>1, <3>3, <4>1 DEF Inv, Listing
    <3>4. QED
      BY <3>1, <3>2, <3>3
  <2>2. client = "drive" /\ ~copied /\ index' = Max => done' = length
    BY <1>1, <1>2 DEF isSegment, Max
  <2>3. client = "user" \/ copied => ~invalid'
    <3> SUFFICES ASSUME client = "user" \/ copied PROVE ~invalid'
      OBVIOUS
    <3>1. aligned(location, n)
      BY DEF isSegment
    <3>2. index > 0 => ~invalid
      BY <1>1 DEF Inv, Listing
    <3>3. index /= 0 => index > 0
      BY <1>1
    <3>4. QED
      BY <3>1, <3>2, <3>3 DEF flag
  <2>4. copied /\ done' < length => done' >= (index' - 1) * PageSize
    <3> SUFFICES ASSUME copied, done' < length PROVE done' >= (index' - 1) * PageSize
      OBVIOUS
    <3>1. index = 0 \/ n >= PageSize
      BY <1>1, <1>2 DEF isSegment
    <3>2. CASE index = 0
      <4>1. (index' - 1) * PageSize = 0
        BY <1>2, <3>2, SGAssumption
      <4>2. QED
        BY <1>1, <1>2, <4>1
    <3>3. CASE index > 0 /\ n >= PageSize
      <4>1. done >= (index - 1) * PageSize
        BY <1>1, <3>3 DEF Inv, Listing
      <4>2. (index - 1) * PageSize + PageSize = index * PageSize
            /\ (index - 1) * PageSize \in Nat /\ index * PageSize \in Nat
        BY <1>1, <3>3, OnePageMore
      <4>3. index' - 1 = index
        BY <1>1, <1>2
      <4>4. PageSize \in Nat
        BY SGAssumption
      <4>5. QED
        BY <1>1, <1>2, <3>3, <4>1, <4>2, <4>3, <4>4
    <3>4. QED
      BY <1>1, <3>1, <3>2, <3>3
  <2>5. QED
    BY <1>1, <1>2, <2>1, <2>2, <2>3, <2>4 DEF Listing
<1>7. QED
  BY <1>3, <1>4, <1>5, <1>6 DEF Inv

(* When the cursor has stopped and nothing was flagged, all of a read or   *)
(* write is listed, and of a user client's buffer what the list holds.     *)
LEMMA ExhaustedCovers ==
  ASSUME Inv, exhausted, ~invalid
  PROVE  /\ listed = done
         /\ client = "drive" => done = length
         /\ done < length => index = Max
<1>1. /\ pc = "cursor" /\ index \in 0 .. Max /\ Max \in Nat \ {0}
      /\ done \in Nat /\ length \in Nat /\ done <= length
  BY SGAssumption DEF Inv, TypeOK, Listing, exhausted, Max
<1>2. length >= 1
  BY <1>1 DEF Inv, Requested, hasList
<1>3. done = length \/ index = Max
  BY <1>1 DEF exhausted, room, Max
<1>4. index > 0
  BY <1>1, <1>2, <1>3 DEF Inv, Listing
<1>5. listed = done
  BY <1>1, <1>4 DEF Inv, Listing
<1>6. ASSUME client = "drive" PROVE done = length
  <2>1. CASE ~copied
    BY <1>1, <1>3, <1>6, <2>1 DEF Inv, Listing
  <2>2. CASE copied
    <3> SUFFICES ASSUME done < length PROVE FALSE
      BY <1>1
    <3>1. index = Max
      BY <1>1, <1>3
    <3>2. done >= (Max - 1) * PageSize
      BY <1>1, <1>4, <2>2, <3>1 DEF Inv, Listing
    <3>3. length <= (Max - 1) * PageSize
      <4>1. length <= TWE_MAX_COPYBUFFER /\ TWE_MAX_COPYBUFFER \in Nat
        BY <1>1, <2>2, SGAssumption DEF Inv, Requested
      <4>2. TWE_MAX_COPYBUFFER <= (Max - 1) * PageSize
        BY SGAssumption DEF Max
      <4>3. (Max - 1) * PageSize \in Nat
        BY <1>1, OnePageMore
      <4>4. QED
        BY <1>1, <4>1, <4>2, <4>3
    <3>4. (Max - 1) * PageSize \in Nat
      BY <1>1, OnePageMore
    <3>5. QED
      BY <1>1, <3>2, <3>3, <3>4
  <2>3. QED
    BY <2>1, <2>2 DEF Inv, TypeOK
<1>7. QED
  BY <1>1, <1>3, <1>5, <1>6

(* What prepare posts covers the request, and its size fits a byte.        *)
LEMMA PrepareStep ==
  ASSUME Inv, prepare
  PROVE  Inv'
<1> USE DEF prepare
<1>1. /\ listed = done
      /\ client = "drive" => done = length
      /\ done < length => index = Max
  BY ExhaustedCovers
<1>2. /\ pc = "cursor" /\ index \in 0 .. Max /\ Max \in Nat /\ 3 + 2 * Max < 256
      /\ done \in Nat /\ hasList /\ sgoff \in 0 .. 7 /\ size \in 0 .. 255
      /\ client = "drive" => size = 3 /\ sgoff = 3
  BY SGAssumption DEF Inv, TypeOK, Requested, exhausted, Max
<1>3. client = "drive" => size' = 3 + 2 * index
  <2>1. 3 + 2 * index \in Nat /\ 3 + 2 * index < 256
    BY <1>2
  <2>2. (3 + 2 * index) % 256 = 3 + 2 * index
    BY <2>1, Remainder
  <2>3. QED
    BY <1>2, <2>2
<1>4. TypeOK'
  <2>1. size' \in 0 .. 255
    <3>1. size + 2 * index \in Nat
      BY <1>2
    <3>2. (size + 2 * index) % 256 \in 0 .. 255
      BY <3>1, SMTT(30)
    <3>3. QED
      BY <3>2
  <2>2. reach' \in 0 .. endOf(TWE_MAX_SGL_LENGTH)'
    BY <1>2 DEF endOf, Max
  <2>3. client = "drive" => reach' <= PacketWords + 1
    BY <1>2, SGAssumption DEF endOf, Max, ReadWriteOffset
  <2>4. client = "drive" /\ reach' > PacketWords => index = TWE_MAX_SGL_LENGTH
    BY <1>2, SGAssumption DEF endOf, Max, ReadWriteOffset
  <2>5. QED
    BY <1>2, <2>1, <2>2, <2>3, <2>4 DEF Inv, TypeOK
<1>5. Requested' /\ Listing'
  BY <1>2 DEF Inv, Requested, Listing
<1>6. ListCovers'
  <2>1. hasList' /\ listed' = byteCount' /\ listed' = done
    BY <1>1, <1>2 DEF hasList
  <2>2. client = "drive" => listed' = asked * S /\ block_count' = asked
    BY <1>1, <1>2, <2>1 DEF Inv, Requested
  <2>3. client = "user" => ~copied /\ (listed' < length => index = Max)
    BY <1>1, <1>2, <2>1 DEF Inv, Requested
  <2>4. QED
    BY <1>3, <2>1, <2>2, <2>3 DEF ListCovers, S, Max
<1>7. Reported' /\ ReportedWhole'
  BY <1>2 DEF Inv, Reported, ReportedWhole
<1>8. QED
  BY <1>4, <1>5, <1>6, <1>7 DEF Inv

(* Only a user client's command can have no list.                          *)
LEMMA PrepareNoListStep ==
  ASSUME Inv, prepareNoList
  PROVE  Inv'
<1> USE DEF prepareNoList, packet, GateFree
<1>1. client = "user"
  <2> SUFFICES ASSUME client = "drive" PROVE FALSE
    BY DEF Inv, TypeOK
  <2>1. asked \in Nat /\ asked >= 1 /\ length = asked * S /\ sgoff = 3
    BY DEF Inv, TypeOK, Requested
  <2>2. length \in Nat /\ length >= 1
    BY <2>1, Positive
  <2>3. QED
    BY <2>1, <2>2 DEF hasList
<1>2. TypeOK'
  <2>1. endOf(TWE_MAX_SGL_LENGTH)' = endOf(TWE_MAX_SGL_LENGTH)
    BY DEF endOf
  <2>2. QED
    BY <2>1 DEF Inv, TypeOK
<1>3. Requested' /\ Listing' /\ ListCovers'
  BY <1>1 DEF Inv, Requested, Listing, ListCovers, hasList
<1>4. Reported' /\ ReportedWhole'
  BY DEF Inv, Reported, ReportedWhole
<1>5. QED
  BY <1>2, <1>3, <1>4 DEF Inv

(* The copy has the length of the original, and the list is made again.    *)
LEMMA GetCopyBufferStep ==
  ASSUME Inv, getCopyBuffer
  PROVE  Inv'
<1> USE DEF getCopyBuffer, packet
<1>1. pc = "cursor" /\ asked \in Nat /\ length = asked * S
  BY DEF Inv, TypeOK, Requested, exhausted
<1>2. length' = length
  BY <1>1, RoundedSame
<1>3. client = "drive"
  <2>1. index \in 0 .. Max /\ Max \in Nat \ {0} /\ length >= 1 /\ length \in Nat
    BY <1>1, SGAssumption DEF Inv, TypeOK, Requested, hasList, Max
  <2>2. index > 0
    BY <1>1, <2>1 DEF Inv, Listing, TypeOK, exhausted, room, Max
  <2>3. QED
    BY <1>1, <2>2 DEF Inv, Listing, TypeOK
<1>4. TypeOK'
  BY <1>2 DEF Inv, TypeOK, endOf
<1>5. Requested' /\ Listing' /\ ListCovers'
  BY <1>1, <1>2, <1>3 DEF Inv, Requested, Listing, ListCovers
<1>6. Reported' /\ ReportedWhole'
  BY <1>1 DEF Inv, Reported, ReportedWhole
<1>7. QED
  BY <1>4, <1>5, <1>6 DEF Inv

(* A request that is refused is answered without its bytes.                *)
LEMMA RefusedStep ==
  ASSUME Inv, refused
  PROVE  Inv'
<1> USE DEF refused, completed, packet
<1>1. TypeOK'
  <2>1. callback' \in [asked : Nat, success : BOOLEAN]
    BY DEF Inv, TypeOK
  <2>2. QED
    BY <2>1 DEF Inv, TypeOK, endOf
<1>2. Requested' /\ Listing' /\ ListCovers'
  BY DEF Requested, Listing, ListCovers
<1>3. Reported' /\ ReportedWhole'
  <2>1. pc = "cursor" /\ callback = none
    BY DEF Inv, Reported, exhausted
  <2>2. QED
    BY <2>1 DEF Inv, Reported, ReportedWhole
<1>4. QED
  BY <1>1, <1>2, <1>3 DEF Inv

(* A request that is completed is answered with all of its bytes or none.  *)
LEMMA CompleteStep ==
  ASSUME Inv, complete
  PROVE  Inv'
<1> USE DEF complete, GateFree, packet
<1>1. PICK success \in BOOLEAN : completed(success)
  OBVIOUS
<1>2. callback' = [asked |-> asked, success |-> success] \/ callback' = none
  BY <1>1 DEF completed
<1>3. TypeOK'
  <2>1. callback' \in [asked : Nat, success : BOOLEAN]
    <3>1. none \in [asked : Nat, success : BOOLEAN]
      BY DEF none
    <3>2. [asked |-> asked, success |-> success] \in [asked : Nat, success : BOOLEAN]
      BY DEF Inv, TypeOK
    <3>3. QED
      BY <1>2, <3>1, <3>2
  <2>2. pc' = "idle"
    BY <1>1 DEF completed
  <2>3. QED
    BY <2>1, <2>2 DEF Inv, TypeOK, endOf
<1>4. Requested' /\ Listing' /\ ListCovers'
  BY <1>1 DEF Requested, Listing, ListCovers, completed
<1>5. Reported'
  <2>1. client = "drive" => byteCount = asked * S
    BY DEF Inv, ListCovers, S
  <2>2. QED
    BY <1>1, <2>1 DEF completed, Reported
<1>6. ReportedWhole'
  BY DEF Inv, ReportedWhole
<1>7. QED
  BY <1>3, <1>4, <1>5, <1>6 DEF Inv

(* The byte count is still the request's when the completion says it.      *)
LEMMA InvokeCompletionStep ==
  ASSUME Inv, invokeCompletion
  PROVE  Inv'
<1> USE DEF invokeCompletion, packet
<1>1. TypeOK'
  <2>1. told' \in [asked : Nat, bytes : Nat]
    BY DEF Inv, TypeOK
  <2>2. callback' \in [asked : Nat, success : BOOLEAN]
    BY DEF none
  <2>3. QED
    BY <2>1, <2>2 DEF Inv, TypeOK, endOf
<1>2. Requested' /\ Listing' /\ ListCovers'
  BY DEF Inv, Requested, Listing, ListCovers, hasList
<1>3. Reported'
  BY DEF Reported
<1>4. ReportedWhole'
  BY DEF Inv, Reported, ReportedWhole, S
<1>5. QED
  BY <1>1, <1>2, <1>3, <1>4 DEF Inv

(* Every step keeps the invariant. *)
LEMMA StepInv == Inv /\ [Next]_vars => Inv'
<1> SUFFICES ASSUME Inv, [Next]_vars PROVE Inv'
  OBVIOUS
<1>1. CASE UNCHANGED vars
  BY <1>1 DEF Inv, vars, packet, TypeOK, Requested, Listing, ListCovers, Reported,
     ReportedWhole, endOf, hasList
<1>2. ASSUME NEW n \in 1 .. maxBlocks, makeReadWrite(n) PROVE Inv'
  BY <1>2, MakeReadWriteStep
<1>3. ASSUME NEW n \in 0 .. MaxUserSize, doCommand(n) PROVE Inv'
  BY <1>3, DoCommandStep
<1>4. ASSUME NEW location \in 0 .. TWE_ALIGNMENT - 1, NEW n \in 1 .. length - done,
             outputEscaladeSegment(location, n)
      PROVE  Inv'
  BY <1>4, SegmentStep
<1>5. CASE startCursor \/ prepare \/ prepareNoList \/ getCopyBuffer
  BY <1>5, StartCursorStep, PrepareStep, PrepareNoListStep, GetCopyBufferStep
<1>6. CASE refused \/ complete \/ invokeCompletion
  BY <1>6, RefusedStep, CompleteStep, InvokeCompletionStep
<1>7. QED
  BY <1>1, <1>2, <1>3, <1>4, <1>5, <1>6 DEF Next

(* The invariant holds in every reachable state. *)
THEOREM Invariance == Spec => []Inv
<1>1. Init => Inv
  BY InitInv
<1>2. Inv /\ [Next]_vars => Inv'
  BY StepInv
<1>3. QED
  BY <1>1, <1>2, PTL DEF Spec

(* Every reachable state is well typed: size and block_count keep their    *)
(* width, the list never has more entries than there is room for           *)
(* (getPhysicalSegments), and what is written of a read or write's is in   *)
(* its packet, but for the last word of the empty entry that goes behind a *)
(* full list (prepare).                                                    *)
THEOREM ListTypeCorrect == Spec => []TypeOK
<1>1. Inv => TypeOK
  BY DEF Inv
<1>2. QED
  BY Invariance, <1>1, PTL

(* What the controller is given of a read or write covers what was asked   *)
(* for, with the size and the block count that say so; a user client's     *)
(* list has as much of its buffer as it holds, whatever its packet says    *)
(* (prepare).                                                              *)
THEOREM PostedListCovers == Spec => []ListCovers
<1>1. Inv => ListCovers
  BY DEF Inv
<1>2. QED
  BY Invariance, <1>1, PTL

(* A read or write is reported with all of its bytes or none (complete).   *)
THEOREM WholeOrNothing == Spec => []ReportedWhole
<1>1. Inv => ReportedWhole
  BY DEF Inv
<1>2. QED
  BY Invariance, <1>1, PTL
=============================================================================
