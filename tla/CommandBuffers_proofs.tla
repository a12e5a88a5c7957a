----------------------- MODULE CommandBuffers_proofs -----------------------
(* Every reference to a buffer is accounted for and data goes to and comes *)
(* from the client's buffer, for any number of commands and buffers.       *)
EXTENDS CommandBuffers, FiniteSetTheorems, TLAPS

Pointers == [Fields -> Buffers \union {NULL}]
Memories ==
  [ptr : Pointers, refs : [Buffers -> Int], full : SUBSET Buffers, lost : SUBSET Buffers]

(* The four ways a command in use points to memory.                        *)
Direct(p) == p.data \in ClientBuffers /\ p.param = NULL /\ p.copy = NULL /\ p.real = NULL
Copying(p) ==
  p.copy \in DriverBuffers /\ p.data = p.copy /\ p.real \in ClientBuffers /\ p.param = NULL
Param(p) == p.param \in DriverBuffers /\ p.data = p.param /\ p.copy = NULL /\ p.real = NULL
Empty(p) == p.data = NULL /\ p.param = NULL /\ p.copy = NULL /\ p.real = NULL

(* Which of them it is depends on the use and on how far it has come.      *)
ShapeOf(c) ==
  /\ stage[c] = "done" => ~async(c)
  /\ \/ Direct(fields[c]) /\ use[c] \in {"read", "write", "user"}
     \/ Copying(fields[c]) /\ async(c) /\ stage[c] = "posted"
     \/ Param(fields[c]) /\ use[c] \in {"getParam", "setParam"}
        /\ (stage[c] = "done" => use[c] = "getParam")
     \/ Empty(fields[c]) /\ (use[c] = "plain" \/ (use[c] = "setParam" /\ stage[c] = "done"))
Shape == \A c \in Live : ShapeOf(c)

(* No buffer is pointed to by two commands in use.                         *)
Disjoint ==
  \A c, d \in Live : c /= d =>
    \A f, g \in Fields : fields[c][f] = fields[d][g] => fields[c][f] = NULL

(* A write that is made has its data; the emergency command is kept unless *)
(* it was returned twice; only what was refused is owed.                   *)
Written == \A c \in Commands : stage[c] = "made" /\ use[c] = "write" => fields[c].data \in full
Reserve == ~refused /\ emergencyCommand /= NULL => stage[emergencyCommand] = "kept"
Owing == owed /= {} => refused

(* What the count of a buffer is: its own reference, and those of the      *)
(* command in use that points to it, of which a copy has one and others    *)
(* two.                                                                    *)
Points(c, b) == c \in Live /\ \E f \in Fields : fields[c][f] = b
Counted(b) ==
  /\ idle(b) => refs[b] = own(b)
  /\ \A c \in Live : Points(c, b) =>
       b \notin lost /\ refs[b] = IF fields[c].copy = b THEN 1 ELSE 2
Counts == tidy => \A b \in Buffers : Counted(b)

Inv == TypeOK /\ Shape /\ Disjoint /\ Written /\ Reserve /\ Owing /\ Counts

(* The types of what a command's own steps change.                         *)
Typed ==
  /\ stage \in [Commands -> {"free", "kept", "made", "posted", "done"}]
  /\ use \in [Commands -> {"none", "read", "write", "plain", "getParam", "setParam", "user"}]
  /\ result \in [Commands -> BOOLEAN]
  /\ fields \in [Commands -> Pointers]
  /\ refs \in [Buffers -> Int]
  /\ full \subseteq Buffers /\ lost \subseteq DriverBuffers

(* Only command c changes.                                                 *)
Others(c) == \A d \in Commands \ {c} : stage'[d] = stage[d] /\ use'[d] = use[d]
                                       /\ fields'[d] = fields[d]
-----------------------------------------------------------------------------
(* The memory of a command.                                                *)

\* The four pointers of a command are all there is.
LEMMA FieldFacts ==
  ASSUME NEW p \in Pointers
  PROVE  /\ p["data"] = p.data /\ p["param"] = p.param
         /\ p["copy"] = p.copy /\ p["real"] = p.real
         /\ p.data \in Buffers \union {NULL} /\ p.param \in Buffers \union {NULL}
         /\ p.copy \in Buffers \union {NULL} /\ p.real \in Buffers \union {NULL}
         /\ \A q : (\E f \in Fields : p[f] = q)
                     <=> q = p.data \/ q = p.param \/ q = p.copy \/ q = p.real
BY DEF Pointers, Fields

\* A change of references, pointers and contents keeps the types.
LEMMA MemoryExcept ==
  ASSUME NEW m \in Memories, NEW p \in Pointers, NEW q \in [Buffers -> Int]
  PROVE  /\ [m EXCEPT !.refs = q, !.ptr = p] \in Memories
         /\ \A s \in SUBSET Buffers : [m EXCEPT !.refs = q, !.ptr = p, !.full = s] \in Memories
BY DEF Memories

\* The memory of a command in a state has its type.
LEMMA MemoryOfType ==
  ASSUME TypeOK, NEW c \in Commands
  PROVE  /\ memoryOf(c) \in Memories
         /\ memoryOf(c).ptr = fields[c] /\ memoryOf(c).refs = refs
         /\ memoryOf(c).full = full /\ memoryOf(c).lost = lost
<1>1. fields[c] \in Pointers /\ lost \subseteq Buffers
  BY DEF TypeOK, Pointers, Buffers
<1>2. QED
  BY <1>1 DEF TypeOK, memoryOf, Memories

\* What a step leaves of the memory of one command, and of the others.
LEMMA BecomesFacts ==
  ASSUME TypeOK, NEW c \in Commands, NEW m \in Memories, becomes(c, m)
  PROVE  /\ fields' \in [Commands -> Pointers] /\ fields'[c] = m.ptr
         /\ \A d \in Commands \ {c} : fields'[d] = fields[d]
         /\ refs' = m.refs /\ refs' \in [Buffers -> Int]
         /\ full' = m.full /\ full' \subseteq Buffers /\ lost' = m.lost
<1>1. fields \in [Commands -> Pointers]
  BY DEF TypeOK, Pointers
<1>2. m.ptr \in Pointers
  BY DEF Memories
<1>3. QED
  BY <1>1, <1>2 DEF becomes, Memories

\* release() lowers the count of one buffer, or does nothing.
LEMMA ReleaseFacts ==
  ASSUME NEW m \in Memories, NEW f \in Fields
  PROVE  /\ release(m, f) \in Memories
         /\ release(m, f).ptr = m.ptr /\ release(m, f).full = m.full
         /\ release(m, f).lost = m.lost
         /\ m.ptr[f] = NULL => release(m, f) = m
         /\ m.ptr[f] /= NULL => release(m, f).refs = [m.refs EXCEPT ![m.ptr[f]] = @ - 1]
BY DEF Memories, Pointers, release

\* setDataBuffer retains its buffer.
LEMMA SetDataBufferFacts ==
  ASSUME NEW m \in Memories, NEW b \in Buffers
  PROVE  LET r == setDataBuffer(m, b) IN
         /\ r \in Memories
         /\ r.ptr.data = b /\ r.ptr.param = m.ptr.param /\ r.ptr.copy = m.ptr.copy
         /\ r.ptr.real = m.ptr.real
         /\ r.refs = [m.refs EXCEPT ![b] = @ + 1] /\ r.full = m.full /\ r.lost = m.lost
<1> DEFINE r == setDataBuffer(m, b)
<1>1. r.full = m.full /\ r.lost = m.lost /\ r.refs = [m.refs EXCEPT ![b] = @ + 1]
      /\ r.ptr = [m.ptr EXCEPT !.data = b]
  BY DEF Memories, setDataBuffer
<1>2. r.ptr \in Pointers /\ r.ptr.data = b /\ r.ptr.param = m.ptr.param
      /\ r.ptr.copy = m.ptr.copy /\ r.ptr.real = m.ptr.real
  BY <1>1 DEF Memories, Pointers, Fields
<1>3. \A p, q : p = [m.ptr EXCEPT !.data = b] /\ q = [m.refs EXCEPT ![b] = @ + 1] =>
        r = [m EXCEPT !.refs = q, !.ptr = p]
  BY DEF Memories, setDataBuffer
<1>4. r.refs \in [Buffers -> Int]
  BY <1>1 DEF Memories
<1>5. r \in Memories
  <2>1. r = [m EXCEPT !.refs = r.refs, !.ptr = r.ptr]
    BY <1>1, <1>3
  <2>2. [m EXCEPT !.refs = r.refs, !.ptr = r.ptr] \in Memories
    BY <1>2, <1>4, MemoryExcept
  <2>3. QED
    BY <2>1, <2>2
<1>6. QED
  BY <1>1, <1>2, <1>5

\* A command that was gotten points to nothing.
LEMMA WasGottenFacts ==
  ASSUME NEW m \in Memories
  PROVE  LET r == wasGotten(m) IN
         /\ r \in Memories /\ Empty(r.ptr)
         /\ r.refs = m.refs /\ r.full = m.full /\ r.lost = m.lost
BY DEF Memories, Pointers, wasGotten, Fields, Empty

\* releaseDataBuffer gives one reference back and clears the pointer.
LEMMA ReleaseDataBufferFacts ==
  ASSUME NEW m \in Memories
  PROVE  LET r == releaseDataBuffer(m) IN
         /\ r \in Memories /\ r.ptr.data = NULL
         /\ r.ptr.param = m.ptr.param /\ r.ptr.copy = m.ptr.copy /\ r.ptr.real = m.ptr.real
         /\ r.full = m.full /\ r.lost = m.lost
         /\ m.ptr.data = NULL => r.refs = m.refs
         /\ m.ptr.data /= NULL => r.refs = [m.refs EXCEPT ![m.ptr.data] = @ - 1]
<1> DEFINE s == release(m, "data")
           r == releaseDataBuffer(m)
<1>1. "data" \in Fields /\ m.ptr["data"] = m.ptr.data
  BY FieldFacts DEF Fields, Memories
<1>2. s \in Memories /\ s.ptr = m.ptr /\ s.full = m.full /\ s.lost = m.lost
      /\ (m.ptr.data = NULL => s.refs = m.refs)
      /\ (m.ptr.data /= NULL => s.refs = [m.refs EXCEPT ![m.ptr.data] = @ - 1])
  BY <1>1, ReleaseFacts
<1>3. r = [s EXCEPT !.ptr.data = NULL]
  BY DEF releaseDataBuffer
<1>4. r.full = s.full /\ r.lost = s.lost /\ r.refs = s.refs /\ r.ptr = [s.ptr EXCEPT !.data = NULL]
  BY <1>2, <1>3 DEF Memories
<1>5. r.ptr \in Pointers /\ r.ptr.data = NULL /\ r.ptr.param = m.ptr.param
      /\ r.ptr.copy = m.ptr.copy /\ r.ptr.real = m.ptr.real
  BY <1>2, <1>4 DEF Memories, Pointers, Fields
<1>6. r \in Memories
  BY <1>2, <1>3, <1>5 DEF Memories
<1>7. QED
  BY <1>2, <1>4, <1>5, <1>6

\* A parameter buffer has two references.
LEMMA GetParamBufferFacts ==
  ASSUME NEW m \in Memories, Empty(m.ptr), NEW b \in DriverBuffers
  PROVE  LET r == getParamBuffer(m, b) IN
         /\ r \in Memories /\ Param(r.ptr) /\ r.ptr.data = b
         /\ r.refs = [m.refs EXCEPT ![b] = 2] /\ r.full = m.full /\ r.lost = m.lost
<1> DEFINE s == [m EXCEPT !.ptr.param = b, !.refs[b] = 1]
           r == getParamBuffer(m, b)
<1>1. s.full = m.full /\ s.lost = m.lost /\ s.refs = [m.refs EXCEPT ![b] = 1]
      /\ s.ptr = [m.ptr EXCEPT !.param = b]
  BY DEF Memories
<1>2. s.ptr \in Pointers /\ s.ptr.param = b /\ s.ptr.copy = NULL /\ s.ptr.real = NULL
  BY <1>1 DEF Memories, Pointers, Fields, Empty, Buffers
<1>3. s \in Memories
  <2>1. \A p, q : p = [m.ptr EXCEPT !.param = b] /\ q = [m.refs EXCEPT ![b] = 1] =>
          s = [m EXCEPT !.refs = q, !.ptr = p]
    BY DEF Memories
  <2>2. s = [m EXCEPT !.refs = s.refs, !.ptr = s.ptr]
    BY <1>1, <2>1
  <2>3. [m.refs EXCEPT ![b] = 1] \in [Buffers -> Int]
    BY DEF Memories, Buffers
  <2>4. s.refs \in [Buffers -> Int]
    BY <1>1, <2>3
  <2>5. QED
    BY <1>2, <2>2, <2>4, MemoryExcept
<1>4. r = setDataBuffer(s, b) /\ b \in Buffers
  BY DEF getParamBuffer, Buffers
<1>5. LET q == setDataBuffer(s, b) IN
      /\ q \in Memories /\ q.ptr.data = b /\ q.ptr.param = s.ptr.param
      /\ q.ptr.copy = s.ptr.copy /\ q.ptr.real = s.ptr.real
      /\ q.refs = [s.refs EXCEPT ![b] = @ + 1] /\ q.full = s.full /\ q.lost = s.lost
  <2> HIDE DEF s
  <2>1. QED
    BY <1>3, <1>4, SetDataBufferFacts
<1>6. r.refs = [m.refs EXCEPT ![b] = 2]
  BY <1>1, <1>4, <1>5 DEF Memories
<1>7. QED
  BY <1>1, <1>2, <1>4, <1>5, <1>6 DEF Param

\* releaseParamBuffer gives one of the two back and forgets the other.
LEMMA ReleaseParamBufferFacts ==
  ASSUME NEW m \in Memories, Param(m.ptr)
  PROVE  LET r == releaseParamBuffer(m) IN
         /\ r \in Memories /\ Empty(r.ptr)
         /\ r.refs = [m.refs EXCEPT ![m.ptr.param] = @ - 1]
         /\ r.full = m.full /\ r.lost = m.lost \union {m.ptr.param}
<1> DEFINE s == release(m, "param")
           r == releaseParamBuffer(m)
<1>1. "param" \in Fields /\ m.ptr["param"] = m.ptr.param
  BY FieldFacts DEF Fields, Memories
<1>2. m.ptr.param /= NULL /\ m.ptr.param \in Buffers
  BY BufferAssumption DEF Param, Buffers
<1>3. s \in Memories /\ s.ptr = m.ptr /\ s.full = m.full /\ s.lost = m.lost
      /\ s.refs = [m.refs EXCEPT ![m.ptr.param] = @ - 1]
  BY <1>1, <1>2, ReleaseFacts
<1>4. r = [s EXCEPT !.ptr.param = NULL, !.ptr.data = NULL, !.lost = @ \union {m.ptr.data}]
  BY <1>2 DEF releaseParamBuffer
<1>5. r.full = s.full /\ r.lost = s.lost \union {m.ptr.data} /\ r.refs = s.refs
      /\ r.ptr = [s.ptr EXCEPT !.param = NULL, !.data = NULL]
  BY <1>3, <1>4 DEF Memories
<1>6. r.ptr \in Pointers /\ Empty(r.ptr)
  <2>1. m.ptr \in Pointers /\ m.ptr.copy = NULL /\ m.ptr.real = NULL
    BY DEF Memories, Param
  <2>2. r.ptr = [m.ptr EXCEPT !.param = NULL, !.data = NULL]
    BY <1>3, <1>5
  <2>3. QED
    BY <2>1, <2>2 DEF Pointers, Fields, Empty
<1>7. r \in Memories
  BY <1>2, <1>3, <1>4, <1>5, <1>6 DEF Memories, Param
<1>8. QED
  BY <1>3, <1>5, <1>6, <1>7 DEF Param

\* The copy takes the place of the data buffer and has its contents.
LEMMA GetCopyBufferFacts ==
  ASSUME NEW c, NEW m \in Memories, Direct(m.ptr), NEW b \in DriverBuffers
  PROVE  LET r == getCopyBuffer(c, m, b) IN
         /\ r \in Memories /\ Copying(r.ptr) /\ r.ptr.copy = b /\ r.ptr.real = m.ptr.data
         /\ r.refs = [m.refs EXCEPT ![b] = 1] /\ r.lost = m.lost
         /\ m.full \ {b} \subseteq r.full
         /\ m.ptr.data \in m.full => b \in r.full
<1> DEFINE r == getCopyBuffer(c, m, b)
<1>1. r.lost = m.lost /\ r.refs = [m.refs EXCEPT ![b] = 1]
      /\ r.ptr = [m.ptr EXCEPT !.real = m.ptr.data, !.copy = b, !.data = b]
      /\ r.full = IF m.ptr.data \in m.full THEN m.full \union {b} ELSE m.full \ {b}
  BY DEF Memories, getCopyBuffer
<1>2. r.ptr \in Pointers /\ r.ptr.data = b /\ r.ptr.copy = b /\ r.ptr.real = m.ptr.data
      /\ r.ptr.param = NULL
  BY <1>1 DEF Memories, Pointers, Fields, Direct, Buffers
<1>3. r \in Memories
  <2>1. \A p, q, s :
          /\ p = [m.ptr EXCEPT !.real = m.ptr.data, !.copy = b, !.data = b]
          /\ q = [m.refs EXCEPT ![b] = 1]
          /\ s = (IF m.ptr.data \in m.full THEN m.full \union {b} ELSE m.full \ {b})
          => r = [m EXCEPT !.refs = q, !.ptr = p, !.full = s]
    BY DEF Memories, getCopyBuffer
  <2>a. r = [m EXCEPT !.refs = r.refs, !.ptr = r.ptr, !.full = r.full]
    BY <1>1, <2>1
  <2>2. r.refs \in [Buffers -> Int] /\ r.full \in SUBSET Buffers
    BY <1>1 DEF Memories, Buffers
  <2>3. [m EXCEPT !.refs = r.refs, !.ptr = r.ptr, !.full = r.full] \in Memories
    BY <1>2, <2>2, MemoryExcept
  <2>4. QED
    BY <2>a, <2>3
<1>4. QED
  BY <1>1, <1>2, <1>3 DEF Copying, Direct

\* Without a copy there is nothing to finish.
LEMMA FinishCopyBufferNone ==
  ASSUME NEW c, NEW m, m.ptr.copy = NULL
  PROVE  finishCopyBuffer(c, m) = m
BY DEF finishCopyBuffer

\* The copy is released, after a read of it is written back.
LEMMA FinishCopyBufferFacts ==
  ASSUME NEW c, NEW m \in Memories, Copying(m.ptr)
  PROVE  LET r == finishCopyBuffer(c, m) IN
         /\ r \in Memories /\ Direct(r.ptr) /\ r.ptr.data = m.ptr.real
         /\ r.refs = [m.refs EXCEPT ![m.ptr.copy] = @ - 1] /\ r.lost = m.lost
         /\ r.full = IF use[c] = "read" /\ m.ptr.copy \in m.full
                     THEN m.full \union {m.ptr.real} ELSE m.full
<1> DEFINE w == writtenBack(c, m)
           s == release(w, "copy")
           r == finishCopyBuffer(c, m)
<1>1. m.ptr.copy /= NULL /\ m.ptr.copy \in Buffers /\ m.ptr.real \in Buffers
  BY BufferAssumption DEF Copying, Buffers
<1>2. w \in Memories /\ w.ptr = m.ptr /\ w.refs = m.refs /\ w.lost = m.lost
      /\ w.full = IF use[c] = "read" /\ m.ptr.copy \in m.full
                  THEN m.full \union {m.ptr.real} ELSE m.full
  BY <1>1 DEF Memories, writtenBack
<1>3. "copy" \in Fields /\ w.ptr["copy"] = m.ptr.copy
  BY <1>2, FieldFacts DEF Fields, Memories
<1>4. s \in Memories /\ s.ptr = w.ptr /\ s.full = w.full /\ s.lost = w.lost
      /\ s.refs = [w.refs EXCEPT ![m.ptr.copy] = @ - 1]
  BY <1>1, <1>2, <1>3, ReleaseFacts
<1>5. r = [s EXCEPT !.ptr = [@ EXCEPT !.data = m.ptr.real, !.real = NULL, !.copy = NULL]]
  BY <1>1 DEF finishCopyBuffer
<1>6. r.full = s.full /\ r.lost = s.lost /\ r.refs = s.refs
      /\ r.ptr = [s.ptr EXCEPT !.data = m.ptr.real, !.real = NULL, !.copy = NULL]
  BY <1>4, <1>5 DEF Memories
<1>7. r.ptr \in Pointers /\ r.ptr.data = m.ptr.real /\ r.ptr.param = NULL
      /\ r.ptr.copy = NULL /\ r.ptr.real = NULL
  <2>1. m.ptr \in Pointers /\ m.ptr.param = NULL
    BY DEF Memories, Copying
  <2>2. r.ptr = [m.ptr EXCEPT !.data = m.ptr.real, !.real = NULL, !.copy = NULL]
    BY <1>2, <1>4, <1>6
  <2>3. QED
    BY <1>1, <2>1, <2>2 DEF Pointers, Fields
<1>8. r \in Memories
  BY <1>4, <1>5, <1>7 DEF Memories
<1>9. QED
  BY <1>2, <1>4, <1>6, <1>7, <1>8 DEF Direct, Copying

\* returnCommand releases what pointers are left.
LEMMA ReturnedFacts ==
  ASSUME NEW m \in Memories
  PROVE  LET r == returned(m) IN
         /\ r \in Memories /\ r.ptr = m.ptr /\ r.full = m.full /\ r.lost = m.lost
         /\ Empty(m.ptr) => r.refs = m.refs
         /\ Param(m.ptr) => r.refs = [m.refs EXCEPT ![m.ptr.param] = @ - 2]
<1> DEFINE s == release(m, "data")
           t == release(s, "param")
           u == release(t, "copy")
           r == returned(m)
<1>1. {"data", "param", "copy", "real"} \subseteq Fields /\ r = release(u, "real")
  BY DEF Fields, returned
<1>2. m.ptr["data"] = m.ptr.data /\ m.ptr["param"] = m.ptr.param
      /\ m.ptr["copy"] = m.ptr.copy /\ m.ptr["real"] = m.ptr.real
  BY FieldFacts DEF Memories
<1>3. /\ s \in Memories /\ s.ptr = m.ptr /\ s.full = m.full /\ s.lost = m.lost
      /\ m.ptr.data = NULL => s.refs = m.refs
      /\ m.ptr.data /= NULL => s.refs = [m.refs EXCEPT ![m.ptr.data] = @ - 1]
  BY <1>1, <1>2, ReleaseFacts
<1>4. /\ t \in Memories /\ t.ptr = m.ptr /\ t.full = m.full /\ t.lost = m.lost
      /\ m.ptr.param = NULL => t.refs = s.refs
      /\ m.ptr.param /= NULL => t.refs = [s.refs EXCEPT ![m.ptr.param] = @ - 1]
  BY <1>1, <1>2, <1>3, ReleaseFacts
<1>5. /\ u \in Memories /\ u.ptr = m.ptr /\ u.full = m.full /\ u.lost = m.lost
      /\ m.ptr.copy = NULL => u.refs = t.refs
  <2>1. t \in Memories /\ "copy" \in Fields /\ t.ptr["copy"] = m.ptr.copy
    BY <1>1, <1>2, <1>4
  <2>2. u \in Memories /\ u.ptr = t.ptr /\ u.full = t.full /\ u.lost = t.lost
    BY <2>1, ReleaseFacts
  <2>3. m.ptr.copy = NULL => u = t
    BY <2>1, ReleaseFacts
  <2>4. QED
    BY <1>4, <2>2, <2>3
<1>6. /\ r \in Memories /\ r.ptr = m.ptr /\ r.full = m.full /\ r.lost = m.lost
      /\ m.ptr.real = NULL => r.refs = u.refs
  <2>1. u \in Memories /\ "real" \in Fields /\ u.ptr["real"] = m.ptr.real
    BY <1>1, <1>2, <1>5
  <2>2. LET q == release(u, "real") IN
        q \in Memories /\ q.ptr = u.ptr /\ q.full = u.full /\ q.lost = u.lost
    BY <2>1, ReleaseFacts
  <2>3. m.ptr.real = NULL => release(u, "real") = u
    BY <2>1, ReleaseFacts
  <2>4. QED
    BY <1>1, <1>5, <2>2, <2>3
<1>7. Empty(m.ptr) => r.refs = m.refs
  BY <1>3, <1>4, <1>5, <1>6 DEF Empty
<1>8. ASSUME Param(m.ptr)
      PROVE  r.refs = [m.refs EXCEPT ![m.ptr.param] = @ - 2]
  <2>1. m.ptr.param /= NULL /\ m.ptr.param \in Buffers
    BY <1>8, BufferAssumption DEF Param, Buffers
  <2>2. r.refs = [[m.refs EXCEPT ![m.ptr.param] = @ - 1] EXCEPT ![m.ptr.param] = @ - 1]
    BY <1>3, <1>4, <1>5, <1>6, <1>8, <2>1 DEF Param
  <2>3. m.refs \in [Buffers -> Int]
    BY DEF Memories
  <2>4. QED
    BY <2>1, <2>2, <2>3
<1>9. QED
  BY <1>6, <1>7, <1>8
-----------------------------------------------------------------------------
(* What completing a command does to its memory.                           *)
completed(c, m) ==
  LET finished == finishCopyBuffer(c, m)
      keeps == IF use[c] = "setParam" THEN releaseParamBuffer(finished) ELSE finished
  IN IF async(c) THEN returned(releaseDataBuffer(keeps)) ELSE keeps

\* A transfer in place gives back the one reference it took.
LEMMA CompletedDirect ==
  ASSUME NEW c, NEW m \in Memories, Direct(m.ptr), async(c)
  PROVE  LET r == completed(c, m) IN
         /\ r \in Memories /\ Empty(r.ptr) /\ r.full = m.full /\ r.lost = m.lost
         /\ r.refs = [m.refs EXCEPT ![m.ptr.data] = @ - 1]
<1>1. m.ptr.data /= NULL
  BY BufferAssumption DEF Direct, Buffers
<1>2. completed(c, m) = returned(releaseDataBuffer(m))
  BY FinishCopyBufferNone DEF completed, Direct, async
<1>3. LET q == releaseDataBuffer(m) IN
      /\ q \in Memories /\ Empty(q.ptr) /\ q.full = m.full /\ q.lost = m.lost
      /\ q.refs = [m.refs EXCEPT ![m.ptr.data] = @ - 1]
  BY <1>1, ReleaseDataBufferFacts DEF Direct, Empty
<1>4. LET q == releaseDataBuffer(m)
          r == returned(q) IN
      /\ r \in Memories /\ r.ptr = q.ptr /\ r.full = q.full /\ r.lost = q.lost
      /\ r.refs = q.refs
  BY <1>3, ReturnedFacts
<1>5. QED
  BY <1>2, <1>3, <1>4

\* A transfer through a copy frees the copy and gives back the real buffer.
LEMMA CompletedCopying ==
  ASSUME NEW c, NEW m \in Memories, Copying(m.ptr), async(c)
  PROVE  LET r == completed(c, m) IN
         /\ r \in Memories /\ Empty(r.ptr) /\ r.lost = m.lost
         /\ r.full = IF use[c] = "read" /\ m.ptr.copy \in m.full
                     THEN m.full \union {m.ptr.real} ELSE m.full
         /\ r.refs = [m.refs EXCEPT ![m.ptr.copy] = @ - 1, ![m.ptr.real] = @ - 1]
<1> DEFINE s == finishCopyBuffer(c, m)
           q == releaseDataBuffer(s)
           r == returned(q)
<1>1. /\ s \in Memories /\ Direct(s.ptr) /\ s.ptr.data = m.ptr.real
      /\ s.refs = [m.refs EXCEPT ![m.ptr.copy] = @ - 1] /\ s.lost = m.lost
      /\ s.full = IF use[c] = "read" /\ m.ptr.copy \in m.full
                  THEN m.full \union {m.ptr.real} ELSE m.full
  BY FinishCopyBufferFacts
<1>2. completed(c, m) = r
  BY DEF completed, async
<1>3. m.ptr.real /= NULL
  BY BufferAssumption DEF Copying, Buffers
<1>4. /\ q \in Memories /\ Empty(q.ptr) /\ q.full = s.full /\ q.lost = s.lost
      /\ q.refs = [s.refs EXCEPT ![m.ptr.real] = @ - 1]
  <2> HIDE DEF s
  <2>1. QED
    BY <1>1, <1>3, ReleaseDataBufferFacts DEF Direct, Empty
<1>5. r \in Memories /\ r.ptr = q.ptr /\ r.full = q.full /\ r.lost = q.lost /\ r.refs = q.refs
  <2> HIDE DEF q
  <2>1. QED
    BY <1>4, ReturnedFacts
<1>6. QED
  BY <1>1, <1>2, <1>4, <1>5

\* A read or write that is refused, with the real buffer saved or not.
LEMMA CompletedType ==
  ASSUME NEW c, NEW m \in Memories, m.ptr.copy = NULL, async(c)
  PROVE  completed(c, m) \in Memories /\ completed(c, m).lost = m.lost
         /\ completed(c, m).full = m.full
<1>1. completed(c, m) = returned(releaseDataBuffer(m))
  BY FinishCopyBufferNone DEF completed, async
<1>2. LET q == releaseDataBuffer(m) IN q \in Memories /\ q.full = m.full /\ q.lost = m.lost
  BY ReleaseDataBufferFacts
<1>3. LET q == releaseDataBuffer(m)
          r == returned(q) IN r \in Memories /\ r.full = q.full /\ r.lost = q.lost
  BY <1>2, ReturnedFacts
<1>4. QED
  BY <1>1, <1>2, <1>3

\* A waiting owner finds its memory, but for the parameter of a SET PARAM.
LEMMA CompletedWaiting ==
  ASSUME NEW c, NEW m \in Memories, ~async(c), m.ptr.copy = NULL
  PROVE  /\ use[c] /= "setParam" => completed(c, m) = m
         /\ use[c] = "setParam" => completed(c, m) = releaseParamBuffer(m)
BY FinishCopyBufferNone DEF completed
-----------------------------------------------------------------------------
(* What a step of one command leaves of the invariant.                     *)

\* The shapes of the others are as they were.
LEMMA ShapeStep ==
  ASSUME Shape, NEW c \in Commands, Others(c), c \in Live' => ShapeOf(c)'
  PROVE  Shape'
<1>1. \A d \in Commands \ {c} : (d \in Live' <=> d \in Live) /\ (ShapeOf(d)' <=> ShapeOf(d))
  BY DEF Others, Live, ShapeOf, async
<1>2. Live' \subseteq Commands
  BY DEF Live
<1>3. QED
  BY <1>1, <1>2 DEF Shape

\* A write that another command is made for keeps its data.
LEMMA WrittenStep ==
  ASSUME Written, NEW c \in Commands, Others(c),
         stage'[c] = "made" /\ use'[c] = "write" => fields'[c].data \in full',
         \A d \in Live \ {c} : fields[d].data \in full => fields[d].data \in full'
  PROVE  Written'
BY DEF Written, Others, Live

\* A command that points to nobody else's buffers keeps them apart.
LEMMA DisjointStep ==
  ASSUME Disjoint, NEW c \in Commands, Others(c),
         c \in Live' => \A f \in Fields : fields'[c][f] /= NULL =>
                          \A d \in Live \ {c}, g \in Fields : fields[d][g] /= fields'[c][f]
  PROVE  Disjoint'
<1>1. \A d \in Commands \ {c} : (d \in Live' <=> d \in Live) /\ fields'[d] = fields[d]
  BY DEF Others, Live
<1>2. Live' \subseteq Commands
  BY DEF Live
<1>3. QED
  BY <1>1, <1>2 DEF Disjoint

\* A buffer the step does not touch stays counted.
LEMMA UninvolvedStep ==
  ASSUME NEW c \in Commands, Others(c), NEW b \in Buffers, Counted(b),
         refs'[b] = refs[b], b \in lost' <=> b \in lost,
         Points(c, b)' <=> Points(c, b),
         Points(c, b) => (fields'[c].copy = b <=> fields[c].copy = b)
  PROVE  Counted(b)'
<1>1. \A d \in Commands \ {c} : (d \in Live' <=> d \in Live) /\ fields'[d] = fields[d]
  BY DEF Others, Live
<1>2. Live' \subseteq Commands /\ Live \subseteq Commands
  BY DEF Live
<1>3. \A d \in Commands : Points(d, b)' <=> Points(d, b)
  BY <1>1 DEF Points
<1>4. idle(b)' <=> idle(b)
  BY <1>2, <1>3 DEF idle, Points
<1>5. own(b)' = own(b)
  BY DEF own
<1>6. \A d \in Live' : Points(d, b)' =>
        b \notin lost' /\ refs'[b] = IF fields'[d].copy = b THEN 1 ELSE 2
  BY <1>1, <1>2, <1>3 DEF Counted, Points
<1>7. QED
  BY <1>4, <1>5, <1>6 DEF Counted

\* A buffer of one command is counted if that command's references are.
LEMMA InvolvedStep ==
  ASSUME NEW c \in Commands, Others(c), NEW b \in Buffers,
         \A d \in Live \ {c} : ~Points(d, b),
         \/ Points(c, b)' /\ b \notin lost' /\ refs'[b] = IF fields'[c].copy = b THEN 1 ELSE 2
         \/ ~Points(c, b)' /\ refs'[b] = own(b)'
  PROVE  Counted(b)'
<1>1. \A d \in Commands \ {c} : (d \in Live' <=> d \in Live) /\ fields'[d] = fields[d]
  BY DEF Others, Live
<1>2. Live' \subseteq Commands
  BY DEF Live
<1>3. \A d \in Commands \ {c} : ~Points(d, b)'
  BY <1>1 DEF Points
<1>4. idle(b)' <=> ~Points(c, b)'
  BY <1>2, <1>3 DEF idle, Points
<1>5. QED
  BY <1>2, <1>3, <1>4 DEF Counted

\* A command that is not in use any more, or points to nothing.
LEMMA GoneStep ==
  ASSUME NEW c \in Live, Others(c), Disjoint, NULL \notin Buffers,
         \A b \in Buffers : Counted(b) /\ ~Points(c, b)',
         \A b \in Buffers : Points(c, b) => refs'[b] = own(b)',
         \A b \in Buffers : ~Points(c, b) => refs'[b] = refs[b] /\ (b \in lost' <=> b \in lost)
  PROVE  \A b \in Buffers : Counted(b)'
<1>1. TAKE b \in Buffers
<1>2. c \in Commands
  BY DEF Live
<1>3. CASE Points(c, b)
  <2>1. \A d \in Live \ {c} : ~Points(d, b)
    BY <1>3 DEF Disjoint, Points
  <2>2. QED
    BY <1>2, <1>3, <2>1, InvolvedStep
<1>4. CASE ~Points(c, b)
  BY <1>2, <1>4, UninvolvedStep
<1>5. QED
  BY <1>3, <1>4
-----------------------------------------------------------------------------
(* No command is in use.                                                   *)
LEMMA InitInv == Init => Inv
<1> SUFFICES ASSUME Init PROVE Inv
  OBVIOUS
<1> USE BufferAssumption DEF Init
<1>1. TypeOK
  <2>1. stage \in [Commands -> {"free", "kept", "made", "posted", "done"}]
        /\ use \in [Commands -> {"none", "read", "write", "plain", "getParam", "setParam", "user"}]
        /\ result \in [Commands -> BOOLEAN]
    OBVIOUS
  <2>2. fields \in [Commands -> [Fields -> Buffers \union {NULL}]]
    OBVIOUS
  <2>3. refs \in [Buffers -> Int]
    OBVIOUS
  <2>4. QED
    BY <2>1, <2>2, <2>3 DEF TypeOK
<1>2. Live = {}
  BY DEF Live
<1>3. Shape /\ Disjoint /\ Written /\ Owing /\ Reserve
  BY <1>2 DEF Shape, Disjoint, Written, Owing, Reserve, Commands
<1>4. Counts
  BY <1>2 DEF Counts, Counted, own, Buffers
<1>5. QED
  BY <1>1, <1>3, <1>4 DEF Inv

(* The buffer of the client, to whom nobody else in use points.            *)
LEMMA MakeWithDataStep ==
  ASSUME Inv, NEW c \in Commands, NEW b \in ClientBuffers, makeWithData(c, b)
  PROVE  Inv'
<1> TypeOK /\ Shape /\ Disjoint /\ Written /\ Reserve /\ Owing /\ Counts
  BY DEF Inv
<1> USE DEF reset
<1>1. PICK u \in {"read", "write", "user"} :
        idle(b) /\ make(c, u, setDataBuffer([wasGotten(memoryOf(c)) EXCEPT
                           !.full = IF u = "write" THEN @ \union {b} ELSE @ \ {b}], b))
  BY DEF makeWithData
<1> DEFINE g == wasGotten(memoryOf(c))
           f == IF u = "write" THEN full \union {b} ELSE full \ {b}
           s == [g EXCEPT !.full = f]
           m == setDataBuffer(s, b)
<1>b. b \in Buffers /\ b /= NULL /\ NULL \notin Buffers
  BY BufferAssumption DEF Buffers
<1>2. g \in Memories /\ Empty(g.ptr) /\ g.refs = refs /\ g.full = full /\ g.lost = lost
  <2>1. memoryOf(c) \in Memories /\ memoryOf(c).refs = refs /\ memoryOf(c).full = full
        /\ memoryOf(c).lost = lost
    BY MemoryOfType
  <2>2. QED
    BY <2>1, WasGottenFacts
<1>3. s \in Memories /\ Empty(s.ptr) /\ s.refs = refs /\ s.full = f /\ s.lost = lost
  <2>1. f \subseteq Buffers
    BY <1>b DEF TypeOK
  <2>2. s.ptr = g.ptr /\ s.refs = refs /\ s.full = f /\ s.lost = lost
    BY <1>2 DEF Memories
  <2>3. s \in Memories
    BY <1>2, <2>1 DEF Memories
  <2>4. QED
    BY <1>2, <2>2, <2>3
<1>4. /\ m \in Memories /\ Direct(m.ptr) /\ m.ptr.data = b
      /\ m.refs = [refs EXCEPT ![b] = @ + 1] /\ m.full = f /\ m.lost = lost
  <2> HIDE DEF s
  <2>1. QED
    BY <1>3, <1>b, SetDataBufferFacts DEF Empty, Direct
<1>5. /\ stage[c] = "free" /\ stage' = [stage EXCEPT ![c] = "made"]
      /\ use' = [use EXCEPT ![c] = u] /\ becomes(c, m)
      /\ UNCHANGED <<result, emergencyCommand, resetting, stale, owed, refused>>
  <2>1. make(c, u, m)
    BY <1>1, <1>2
  <2>2. QED
    BY <2>1 DEF make
<1> HIDE DEF m, f
<1>6. /\ fields' \in [Commands -> Pointers] /\ Direct(fields'[c]) /\ fields'[c].data = b
      /\ \A d \in Commands \ {c} : fields'[d] = fields[d]
      /\ refs' = [refs EXCEPT ![b] = @ + 1] /\ refs' \in [Buffers -> Int]
      /\ full' = f /\ full' \subseteq Buffers /\ lost' = lost
  BY <1>4, <1>5, BecomesFacts
<1>7. Others(c) /\ c \notin Live /\ c \in Live' /\ stage'[c] = "made" /\ use'[c] = u
  BY <1>5, <1>6 DEF Others, Live, TypeOK
<1>8. \A x : (\E h \in Fields : fields'[c][h] = x) <=> x = b \/ x = NULL
  <2>1. fields'[c] \in Pointers
    BY <1>6
  <2>2. QED
    BY <1>6, <2>1, FieldFacts DEF Direct
<1>9. TypeOK'
  BY <1>5, <1>6 DEF TypeOK, Pointers
<1>10. Shape'
  BY <1>6, <1>7, ShapeStep DEF ShapeOf
<1>11. Disjoint'
  BY <1>1, <1>7, <1>8, DisjointStep DEF idle
<1>12. Written'
  <2>1. fields'[c].data \in full' \/ u /= "write"
    BY <1>6 DEF f
  <2>2. \A d \in Live \ {c} : fields[d].data /= b
    <3>1. \A d \in Live : fields[d]["data"] /= b /\ fields[d] \in Pointers
      BY <1>1 DEF idle, Fields, TypeOK, Pointers, Live
    <3>2. QED
      BY <3>1, FieldFacts
  <2>3. QED
    BY <1>6, <1>7, <2>1, <2>2, WrittenStep DEF f
<1>13. Reserve' /\ Owing'
  BY <1>5 DEF Reserve, Owing, TypeOK, Commands
<1>14. Counts'
  <2> SUFFICES ASSUME tidy', NEW x \in Buffers
               PROVE  Counted(x)'
    BY DEF Counts
  <2>1. Counted(x) /\ Counted(b)
    BY <1>5, <1>b DEF Counts, tidy
  <2>2. CASE x = b
    <3>1. Points(c, b)' /\ \A d \in Live \ {c} : ~Points(d, b)
      BY <1>1, <1>7, <1>8 DEF Points, idle
    <3>2. b \notin lost'
      BY <1>6, BufferAssumption DEF TypeOK
    <3>3. refs[b] = 1
      BY <1>1, <2>1 DEF Counted, own
    <3>4. refs'[b] = 2 /\ fields'[c].copy = NULL
      BY <1>6, <1>b, <3>3 DEF Direct, TypeOK
    <3>5. QED
      BY <1>7, <1>b, <2>2, <3>1, <3>2, <3>4, InvolvedStep
  <2>3. CASE x /= b
    <3>1. ~Points(c, x)' /\ ~Points(c, x)
      BY <1>7, <1>8, <1>b, <2>3 DEF Points
    <3>2. refs'[x] = refs[x] /\ (x \in lost' <=> x \in lost)
      BY <1>6, <2>3 DEF TypeOK
    <3>3. QED
      BY <1>7, <2>1, <3>1, <3>2, UninvolvedStep
  <2>4. QED
    BY <2>2, <2>3
<1>15. QED
  BY <1>9, <1>10, <1>11, <1>12, <1>13, <1>14 DEF Inv

(* The new buffer has a reference as the parameter and one as the data.    *)
LEMMA MakeParamStep ==
  ASSUME Inv, NEW c \in Commands, NEW b \in DriverBuffers, makeParam(c, b)
  PROVE  Inv'
<1> TypeOK /\ Shape /\ Disjoint /\ Written /\ Reserve /\ Owing /\ Counts
  BY DEF Inv
<1> USE DEF reset
<1> DEFINE g == wasGotten(memoryOf(c))
           m == getParamBuffer(g, b)
<1>1. PICK u \in {"getParam", "setParam"} : fresh(b) /\ make(c, u, m)
  BY DEF makeParam
<1>b. b \in Buffers /\ b /= NULL /\ NULL \notin Buffers
  BY BufferAssumption DEF Buffers
<1>2. g \in Memories /\ Empty(g.ptr) /\ g.refs = refs /\ g.full = full /\ g.lost = lost
  <2>1. memoryOf(c) \in Memories /\ memoryOf(c).refs = refs /\ memoryOf(c).full = full
        /\ memoryOf(c).lost = lost
    BY MemoryOfType
  <2>2. QED
    BY <2>1, WasGottenFacts
<1>4. /\ m \in Memories /\ Param(m.ptr) /\ m.ptr.data = b
      /\ m.refs = [refs EXCEPT ![b] = 2] /\ m.full = full /\ m.lost = lost
  <2> HIDE DEF g
  <2>1. QED
    BY <1>2, GetParamBufferFacts
<1>5. /\ stage[c] = "free" /\ stage' = [stage EXCEPT ![c] = "made"]
      /\ use' = [use EXCEPT ![c] = u] /\ becomes(c, m)
      /\ UNCHANGED <<result, emergencyCommand, resetting, stale, owed, refused>>
  BY <1>1 DEF make
<1> HIDE DEF m
<1>6. /\ fields' \in [Commands -> Pointers] /\ Param(fields'[c]) /\ fields'[c].data = b
      /\ \A d \in Commands \ {c} : fields'[d] = fields[d]
      /\ refs' = [refs EXCEPT ![b] = 2] /\ refs' \in [Buffers -> Int]
      /\ full' = full /\ lost' = lost
  BY <1>4, <1>5, BecomesFacts
<1>7. Others(c) /\ c \notin Live /\ c \in Live' /\ stage'[c] = "made" /\ use'[c] = u
  BY <1>5, <1>6 DEF Others, Live, TypeOK
<1>8. \A x : (\E h \in Fields : fields'[c][h] = x) <=> x = b \/ x = NULL
  <2>1. fields'[c] \in Pointers
    BY <1>6
  <2>2. fields'[c].data = b /\ fields'[c].param = b /\ fields'[c].copy = NULL
        /\ fields'[c].real = NULL
    BY <1>6 DEF Param
  <2>3. QED
    BY <2>1, <2>2, FieldFacts
<1>a. idle(b) /\ refs[b] = 0
  BY <1>1 DEF idle, fresh, Live
<1>9. TypeOK'
  BY <1>5, <1>6 DEF TypeOK, Pointers
<1>10. Shape'
  BY <1>6, <1>7, ShapeStep DEF ShapeOf
<1>11. Disjoint'
  BY <1>a, <1>7, <1>8, DisjointStep DEF idle
<1>12. Written'
  BY <1>6, <1>7, WrittenStep
<1>13. Reserve' /\ Owing'
  BY <1>5 DEF Reserve, Owing, TypeOK, Commands
<1>14. Counts'
  <2> SUFFICES ASSUME tidy', NEW x \in Buffers
               PROVE  Counted(x)'
    BY DEF Counts
  <2>1. Counted(x) /\ Counted(b)
    BY <1>5, <1>b DEF Counts, tidy
  <2>2. CASE x = b
    <3>1. Points(c, b)' /\ \A d \in Live \ {c} : ~Points(d, b)
      BY <1>a, <1>7, <1>8 DEF Points, idle
    <3>2. b \notin lost'
      BY <1>a, <1>6, <2>1 DEF Counted, own
    <3>4. refs'[b] = 2 /\ fields'[c].copy = NULL
      BY <1>6, <1>b DEF Param, TypeOK
    <3>5. QED
      BY <1>7, <1>b, <2>2, <3>1, <3>2, <3>4, InvolvedStep
  <2>3. CASE x /= b
    <3>1. ~Points(c, x)' /\ ~Points(c, x)
      BY <1>7, <1>8, <1>b, <2>3 DEF Points
    <3>2. refs'[x] = refs[x] /\ (x \in lost' <=> x \in lost)
      BY <1>6, <2>3 DEF TypeOK
    <3>3. QED
      BY <1>7, <2>1, <3>1, <3>2, UninvolvedStep
  <2>4. QED
    BY <2>2, <2>3
<1>15. QED
  BY <1>9, <1>10, <1>11, <1>12, <1>13, <1>14 DEF Inv

(* A command without memory.                                               *)
LEMMA MakePlainStep ==
  ASSUME Inv, NEW c \in Commands, makePlain(c)
  PROVE  Inv'
<1> TypeOK /\ Shape /\ Disjoint /\ Written /\ Reserve /\ Owing /\ Counts
  BY DEF Inv
<1> USE DEF reset
<1> DEFINE m == wasGotten(memoryOf(c))
<1>1. NULL \notin Buffers
  BY BufferAssumption DEF Buffers
<1>2. m \in Memories /\ Empty(m.ptr) /\ m.refs = refs /\ m.full = full /\ m.lost = lost
  <2>1. memoryOf(c) \in Memories /\ memoryOf(c).refs = refs /\ memoryOf(c).full = full
        /\ memoryOf(c).lost = lost
    BY MemoryOfType
  <2>2. QED
    BY <2>1, WasGottenFacts
<1>5. /\ stage[c] = "free" /\ stage' = [stage EXCEPT ![c] = "made"]
      /\ use' = [use EXCEPT ![c] = "plain"] /\ becomes(c, m)
      /\ UNCHANGED <<result, emergencyCommand, resetting, stale, owed, refused>>
  BY DEF make, makePlain
<1> HIDE DEF m
<1>6. /\ fields' \in [Commands -> Pointers] /\ Empty(fields'[c])
      /\ \A d \in Commands \ {c} : fields'[d] = fields[d]
      /\ UNCHANGED <<refs, full, lost>>
  BY <1>2, <1>5, BecomesFacts
<1>7. Others(c) /\ c \notin Live /\ stage'[c] = "made" /\ use'[c] = "plain"
  BY <1>5, <1>6 DEF Others, Live, TypeOK
<1>8. \A x : (\E h \in Fields : fields'[c][h] = x) <=> x = NULL
  <2>1. fields'[c] \in Pointers
    BY <1>6
  <2>2. QED
    BY <1>6, <2>1, FieldFacts DEF Empty
<1>9. TypeOK'
  BY <1>5, <1>6 DEF TypeOK, Pointers
<1>10. Shape'
  BY <1>6, <1>7, ShapeStep DEF ShapeOf
<1>11. Disjoint'
  BY <1>7, <1>8, DisjointStep
<1>12. Written'
  BY <1>6, <1>7, WrittenStep
<1>13. Reserve' /\ Owing'
  BY <1>5 DEF Reserve, Owing, TypeOK, Commands
<1>14. Counts'
  <2> SUFFICES ASSUME tidy', NEW x \in Buffers
               PROVE  Counted(x)'
    BY DEF Counts
  <2>1. Counted(x)
    BY <1>5 DEF Counts, tidy
  <2>2. ~Points(c, x)' /\ ~Points(c, x)
    BY <1>1, <1>7, <1>8 DEF Points
  <2>3. QED
    BY <1>6, <1>7, <2>1, <2>2, UninvolvedStep
<1>15. QED
  BY <1>9, <1>10, <1>11, <1>12, <1>13, <1>14 DEF Inv

(* The command is posted as it is.                                         *)
LEMMA PostInPlaceStep ==
  ASSUME Inv, NEW c \in Commands, postInPlace(c)
  PROVE  Inv'
<1> TypeOK /\ Shape /\ Disjoint /\ Written /\ Reserve /\ Owing /\ Counts
  BY DEF Inv
<1> USE DEF postInPlace, reset, memory
<1>1. Live' = Live /\ c \in Live /\ stage'[c] = "posted"
  BY DEF Live, TypeOK
<1>2. Others(c)
  BY DEF Others, TypeOK
<1>3. TypeOK'
  BY DEF TypeOK
<1>4. Shape'
  <2>1. ShapeOf(c)
    BY <1>1 DEF Shape
  <2>2. ShapeOf(c)'
    BY <1>1, <2>1 DEF ShapeOf, async
  <2>3. QED
    BY <1>2, <2>2, ShapeStep
<1>5. Disjoint'
  BY <1>1 DEF Disjoint
<1>6. Written' /\ Owing'
  BY DEF Written, Owing, TypeOK
<1>7. Reserve'
  BY DEF Reserve, TypeOK, Commands
<1>8. Counts'
  BY <1>1 DEF Counts, tidy, Counted, Points, idle, own
<1>9. QED
  BY <1>3, <1>4, <1>5, <1>6, <1>7, <1>8 DEF Inv

(* The copy takes the place of the client's buffer, which is real now.     *)
LEMMA PostCopyStep ==
  ASSUME Inv, NEW c \in Commands, postCopy(c)
  PROVE  Inv'
<1> TypeOK /\ Shape /\ Disjoint /\ Written /\ Reserve /\ Owing /\ Counts
  BY DEF Inv
<1> USE DEF reset
<1>1. PICK b \in DriverBuffers :
        fresh(b) /\ becomes(c, getCopyBuffer(c, memoryOf(c), b))
  BY DEF postCopy
<1>2. /\ stage[c] = "made" /\ async(c) /\ stage' = [stage EXCEPT ![c] = "posted"]
      /\ UNCHANGED <<use, result, emergencyCommand, resetting, stale, owed, refused>>
  BY DEF postCopy
<1>b. b \in Buffers /\ b \notin ClientBuffers /\ NULL \notin Buffers
  BY BufferAssumption DEF Buffers
<1>3. c \in Live /\ Direct(fields[c])
  <2>1. c \in Live
    BY <1>2 DEF Live
  <2>2. QED
    BY <1>2, <2>1 DEF Shape, ShapeOf, async
<1> DEFINE k == fields[c].data
           m == getCopyBuffer(c, memoryOf(c), b)
<1>4. k \in ClientBuffers /\ k \in Buffers /\ k /= b
  BY <1>3, <1>b DEF Direct, Buffers
<1>5. /\ m \in Memories /\ Copying(m.ptr) /\ m.ptr.copy = b /\ m.ptr.real = k
      /\ m.refs = [refs EXCEPT ![b] = 1] /\ m.lost = lost
      /\ full \ {b} \subseteq m.full /\ (k \in full => b \in m.full)
  <2>1. memoryOf(c) \in Memories /\ memoryOf(c).ptr = fields[c] /\ memoryOf(c).refs = refs
        /\ memoryOf(c).full = full /\ memoryOf(c).lost = lost
    BY MemoryOfType
  <2>2. Direct(memoryOf(c).ptr) /\ memoryOf(c).ptr.data = k
    BY <1>3, <2>1
  <2> DEFINE s == memoryOf(c)
  <2>3. s \in Memories /\ Direct(s.ptr)
    BY <2>1, <2>2
  <2> HIDE DEF s
  <2>4. LET r == getCopyBuffer(c, s, b) IN
        /\ r \in Memories /\ Copying(r.ptr) /\ r.ptr.copy = b /\ r.ptr.real = s.ptr.data
        /\ r.refs = [s.refs EXCEPT ![b] = 1] /\ r.lost = s.lost
        /\ s.full \ {b} \subseteq r.full /\ (s.ptr.data \in s.full => b \in r.full)
    BY <2>3, GetCopyBufferFacts
  <2>5. QED
    BY <2>1, <2>2, <2>4 DEF s
<1> HIDE DEF m, k
<1>6. /\ fields' \in [Commands -> Pointers] /\ Copying(fields'[c]) /\ fields'[c].copy = b
      /\ fields'[c].real = k
      /\ \A d \in Commands \ {c} : fields'[d] = fields[d]
      /\ refs' = [refs EXCEPT ![b] = 1] /\ refs' \in [Buffers -> Int]
      /\ full \ {b} \subseteq full' /\ (k \in full => b \in full') /\ full' \subseteq Buffers
      /\ lost' = lost
  BY <1>1, <1>5, BecomesFacts DEF m
<1>7. Others(c) /\ c \in Live' /\ stage'[c] = "posted" /\ use'[c] = use[c]
  BY <1>2, <1>6 DEF Others, Live, TypeOK
<1>8. /\ \A x : (\E h \in Fields : fields'[c][h] = x) <=> x = b \/ x = k \/ x = NULL
      /\ \A x : (\E h \in Fields : fields[c][h] = x) <=> x = k \/ x = NULL
  <2>1. fields'[c] \in Pointers /\ fields[c] \in Pointers
    BY <1>6 DEF TypeOK, Pointers
  <2>2. fields'[c].data = b /\ fields'[c].copy = b /\ fields'[c].real = k /\ fields'[c].param = NULL
    BY <1>6 DEF Copying
  <2>3. fields[c].data = k /\ fields[c].copy = NULL /\ fields[c].real = NULL
        /\ fields[c].param = NULL
    BY <1>3 DEF Direct, k
  <2>4. \A x : (\E h \in Fields : fields'[c][h] = x) <=> x = b \/ x = k \/ x = NULL
    BY <2>1, <2>2, FieldFacts
  <2>5. \A x : (\E h \in Fields : fields[c][h] = x) <=> x = k \/ x = NULL
    BY <2>1, <2>3, FieldFacts
  <2>6. QED
    BY <2>4, <2>5
<1>9. \A d \in Live, f \in Fields : fields[d][f] /= b
  BY <1>1 DEF fresh, Live
<1>10. TypeOK'
  BY <1>2, <1>6 DEF TypeOK, Pointers
<1>11. Shape'
  <2>1. ShapeOf(c)'
    BY <1>2, <1>6, <1>7 DEF ShapeOf, async
  <2>2. QED
    BY <1>7, <2>1, ShapeStep
<1>12. Disjoint'
  <2>1. \A d \in Live \ {c}, g \in Fields : fields[d][g] /= k
    BY <1>3, <1>4, <1>8, <1>b DEF Disjoint
  <2>2. QED
    BY <1>7, <1>8, <1>9, <2>1, DisjointStep
<1>13. Written'
  <2>1. \A d \in Live : fields[d].data /= b
    <3>1. \A d \in Live : fields[d] \in Pointers
      BY DEF Live, TypeOK, Pointers
    <3>2. QED
      BY <1>9, <3>1, FieldFacts
  <2>2. QED
    BY <1>6, <1>7, <2>1, WrittenStep
<1>14. Reserve' /\ Owing'
  BY <1>2 DEF Reserve, Owing, TypeOK, Commands
<1>15. Counts'
  <2> SUFFICES ASSUME tidy', NEW x \in Buffers
               PROVE  Counted(x)'
    BY DEF Counts
  <2>1. Counted(x) /\ Counted(b)
    BY <1>2, <1>b DEF Counts, tidy
  <2>2. CASE x = b
    <3>1. Points(c, b)' /\ \A d \in Live \ {c} : ~Points(d, b)
      BY <1>7, <1>8, <1>9 DEF Points
    <3>2. refs[b] = 0
      BY <1>1 DEF fresh
    <3>3. b \notin lost'
      BY <1>6, <1>9, <2>1, <3>2 DEF Counted, own, idle
    <3>4. refs'[b] = 1 /\ fields'[c].copy = b
      BY <1>6, <1>b DEF TypeOK
    <3>5. QED
      BY <1>7, <1>b, <2>2, <3>1, <3>3, <3>4, InvolvedStep
  <2>3. CASE x /= b
    <3>1. Points(c, x)' <=> Points(c, x)
      BY <1>3, <1>7, <1>8, <1>b, <2>3 DEF Points
    <3>2. refs'[x] = refs[x] /\ (x \in lost' <=> x \in lost)
      BY <1>6, <2>3 DEF TypeOK
    <3>3. fields'[c].copy /= x /\ fields[c].copy /= x
      BY <1>3, <1>6, <1>b, <2>3 DEF Direct
    <3>4. QED
      BY <1>7, <2>1, <3>1, <3>2, <3>3, UninvolvedStep
  <2>4. QED
    BY <2>2, <2>3
<1>16. QED
  BY <1>10, <1>11, <1>12, <1>13, <1>14, <1>15 DEF Inv

(* A command that is not in use any more leaves the rest as it is.         *)
LEMMA FreedStep ==
  ASSUME Shape, Disjoint, Written, NEW c \in Commands, Others(c), stage'[c] = "free",
         \A d \in Live \ {c} : fields[d].data \in full => fields[d].data \in full'
  PROVE  Shape' /\ Disjoint' /\ Written'
<1>1. c \notin Live'
  BY DEF Live
<1>2. QED
  BY <1>1, ShapeStep, DisjointStep, WrittenStep

(* complete(): waiting owners have their command again, others' commands   *)
(* have no memory any more.                                                *)
LEMMA CompleteStep ==
  ASSUME Inv, NEW c \in Commands, stage[c] \in {"made", "posted"},
         NEW m \in Memories, m.ptr = fields[c], m.refs = refs, m.lost = lost, full \subseteq m.full,
         NEW success \in BOOLEAN, complete(c, m, success)
  PROVE  /\ Typed' /\ Shape' /\ Disjoint' /\ Written'
         /\ tidy => \A b \in Buffers : Counted(b)'
<1> DEFINE Goal == /\ Typed' /\ Shape' /\ Disjoint' /\ Written'
                   /\ tidy => \A b \in Buffers : Counted(b)'
<1> SUFFICES Goal
  OBVIOUS
<1> TypeOK /\ Shape /\ Disjoint /\ Written /\ Reserve /\ Owing /\ Counts
  BY DEF Inv
<1> DEFINE p == fields[c]
           r == completed(c, m)
<1>b. NULL \notin Buffers /\ ClientBuffers \intersect DriverBuffers = {}
      /\ ClientBuffers \subseteq Buffers /\ DriverBuffers \subseteq Buffers
  BY BufferAssumption DEF Buffers
<1>1. /\ becomes(c, r)
      /\ stage' = [stage EXCEPT ![c] = IF async(c) THEN "free" ELSE "done"]
      /\ use' = [use EXCEPT ![c] = IF async(c) THEN "none" ELSE @]
      /\ result' = [result EXCEPT ![c] = success]
  BY DEF complete, completed
<1>2. c \in Live /\ stage[c] /= "done"
  BY DEF Live
<1>3. \/ Direct(p) /\ async(c)
      \/ Copying(p) /\ async(c)
      \/ Direct(p) /\ use[c] = "user"
      \/ Param(p) /\ use[c] = "getParam"
      \/ Param(p) /\ use[c] = "setParam"
      \/ Empty(p) /\ use[c] = "plain"
  BY <1>2 DEF Shape, ShapeOf, async
<1>4. p \in Pointers
  BY DEF TypeOK, Pointers
<1>5. \A d \in Live \ {c} : ~ \E b \in Buffers : Points(c, b) /\ Points(d, b)
  BY <1>b DEF Disjoint, Points
<1>6. CASE r = m /\ ~async(c)
  <2>1. /\ fields' = fields /\ refs' = refs /\ lost' = lost /\ full \subseteq full'
        /\ full' \subseteq Buffers
    <3>1. /\ fields' \in [Commands -> Pointers] /\ fields'[c] = fields[c]
          /\ \A d \in Commands \ {c} : fields'[d] = fields[d]
          /\ refs' = refs /\ lost' = lost /\ full' = m.full /\ full' \subseteq Buffers
      BY <1>1, <1>6, BecomesFacts
    <3>2. fields \in [Commands -> Pointers]
      BY DEF TypeOK, Pointers
    <3>3. fields' = fields
      BY <3>1, <3>2
    <3>4. QED
      BY <3>1, <3>3
  <2>2. Others(c) /\ stage'[c] = "done" /\ use' = use /\ Live' = Live
    BY <1>1, <1>2, <1>6, <2>1 DEF Others, Live, TypeOK
  <2>3. Typed'
    BY <1>1, <2>1 DEF TypeOK, Typed, Pointers
  <2>4. ShapeOf(c)'
    <3>1. use[c] /= "setParam"
      <4>1. ASSUME use[c] = "setParam" PROVE FALSE
        <5>1. Param(p) /\ r = releaseParamBuffer(m) /\ Param(m.ptr)
          BY <1>3, <1>6, <4>1, CompletedWaiting DEF async, Param
        <5>2. Empty(r.ptr)
          BY <5>1, ReleaseParamBufferFacts
        <5>3. QED
          BY <1>6, <1>b, <5>1, <5>2 DEF Empty, Param
      <4>2. QED
        BY <4>1
    <3>2. QED
      BY <1>3, <1>6, <2>1, <2>2, <3>1 DEF ShapeOf, async
  <2>5. Shape' /\ Disjoint' /\ Written'
    BY <2>1, <2>2, <2>4, ShapeStep, WrittenStep DEF Disjoint
  <2>6. ASSUME tidy, NEW b \in Buffers PROVE Counted(b)'
    BY <2>1, <2>2, <2>6 DEF Counts, Counted, Points, idle, own
  <2>7. QED
    BY <2>3, <2>5, <2>6
<1>7. ASSUME r \in Memories, Empty(r.ptr), m.full \subseteq r.full, r.lost \subseteq DriverBuffers,
             async(c) \/ use[c] = "setParam",
             tidy => /\ \A b \in Buffers : Points(c, b) =>
                          r.refs[b] = IF b \in ClientBuffers \union r.lost THEN 1 ELSE 0
                     /\ \A b \in Buffers : ~Points(c, b) =>
                          r.refs[b] = refs[b] /\ (b \in r.lost <=> b \in lost)
      PROVE  Goal
  <2>1. /\ fields' \in [Commands -> Pointers] /\ Empty(fields'[c])
        /\ \A d \in Commands \ {c} : fields'[d] = fields[d]
        /\ refs' = r.refs /\ refs' \in [Buffers -> Int] /\ lost' = r.lost
        /\ full \subseteq full' /\ full' \subseteq Buffers
    BY <1>1, <1>7, BecomesFacts
  <2>2. Others(c) /\ (stage'[c] = "free" \/ (stage'[c] = "done" /\ use'[c] = "setParam"))
    BY <1>1, <1>7, <2>1 DEF Others, TypeOK, async
  <2>3. Typed'
    BY <1>1, <1>7, <2>1 DEF TypeOK, Typed, Pointers
  <2>4. \A x : (\E h \in Fields : fields'[c][h] = x) <=> x = NULL
    <3>1. fields'[c] \in Pointers
      BY <2>1
    <3>2. QED
      BY <2>1, <3>1, FieldFacts DEF Empty
  <2>5. Shape'
    <3>1. c \in Live' => ShapeOf(c)'
      BY <2>1, <2>2 DEF Live, ShapeOf, async
    <3>2. QED
      BY <2>2, <3>1, ShapeStep
  <2>6. Disjoint'
    BY <2>2, <2>4, DisjointStep
  <2>7. Written'
    BY <2>1, <2>2, WrittenStep
  <2>8. ASSUME tidy PROVE \A b \in Buffers : Counted(b)'
    <3>1. \A b \in Buffers : Counted(b) /\ ~Points(c, b)'
      BY <1>b, <2>4, <2>8 DEF Counts, Points
    <3>2. \A b \in Buffers : Points(c, b) => refs'[b] = own(b)'
      BY <1>7, <2>1, <2>8 DEF own
    <3>3. \A b \in Buffers : ~Points(c, b) => refs'[b] = refs[b] /\ (b \in lost' <=> b \in lost)
      BY <1>7, <2>1, <2>8
    <3>4. QED
      BY <1>2, <1>b, <2>2, <3>1, <3>2, <3>3, GoneStep
  <2>9. QED
    BY <2>3, <2>5, <2>6, <2>7, <2>8

<1>8. \A x : (\E h \in Fields : p[h] = x) <=> x = p.data \/ x = p.param \/ x = p.copy \/ x = p.real
  BY <1>4, FieldFacts
<1>9. tidy => \A b \in Buffers : Points(c, b) =>
                b \notin lost /\ refs[b] = IF p.copy = b THEN 1 ELSE 2
  BY <1>2 DEF Counts, Counted
<1>10. CASE Direct(p) /\ async(c)
  <2>1. /\ r \in Memories /\ Empty(r.ptr) /\ r.full = m.full /\ r.lost = lost
        /\ r.refs = [refs EXCEPT ![p.data] = @ - 1]
    BY <1>10, CompletedDirect
  <2>2. \A b \in Buffers : Points(c, b) <=> b = p.data
    BY <1>2, <1>8, <1>10, <1>b DEF Points, Direct
  <2>3. tidy => \A b \in Buffers : Points(c, b) => r.refs[b] = 1 /\ b \in ClientBuffers
    BY <1>9, <1>10, <1>b, <2>1, <2>2 DEF Direct, TypeOK
  <2>4. \A b \in Buffers : ~Points(c, b) => r.refs[b] = refs[b]
    BY <2>1, <2>2 DEF TypeOK
  <2>5. QED
    BY <1>7, <1>10, <2>1, <2>3, <2>4 DEF TypeOK
<1>11. CASE Copying(p) /\ async(c)
  <2>1. /\ r \in Memories /\ Empty(r.ptr) /\ r.lost = lost /\ m.full \subseteq r.full
        /\ r.refs = [refs EXCEPT ![p.copy] = @ - 1, ![p.real] = @ - 1]
    BY <1>11, CompletedCopying
  <2>2. \A b \in Buffers : Points(c, b) <=> b = p.copy \/ b = p.real
    BY <1>2, <1>8, <1>11, <1>b DEF Points, Copying
  <2>3. p.copy \in Buffers /\ p.real \in Buffers /\ p.copy /= p.real /\ p.real \in ClientBuffers
        /\ p.copy \notin ClientBuffers
    BY <1>11, <1>b DEF Copying
  <2>4. /\ r.refs[p.copy] = refs[p.copy] - 1 /\ r.refs[p.real] = refs[p.real] - 1
        /\ \A b \in Buffers : ~Points(c, b) => r.refs[b] = refs[b]
    BY <2>1, <2>2, <2>3 DEF TypeOK
  <2>5. tidy => r.refs[p.copy] = 0 /\ p.copy \notin r.lost /\ r.refs[p.real] = 1
    BY <1>9, <2>1, <2>2, <2>3, <2>4 DEF TypeOK
  <2>6. QED
    BY <1>7, <1>11, <2>1, <2>2, <2>3, <2>4, <2>5 DEF TypeOK
<1>12. CASE Param(p) /\ use[c] = "setParam"
  <2>1. r = releaseParamBuffer(m)
    BY <1>12, CompletedWaiting DEF Param, async
  <2>2. /\ r \in Memories /\ Empty(r.ptr) /\ r.full = m.full
        /\ r.lost = lost \union {p.param} /\ r.refs = [refs EXCEPT ![p.param] = @ - 1]
    BY <1>12, <2>1, ReleaseParamBufferFacts
  <2>3. \A b \in Buffers : Points(c, b) <=> b = p.param
    BY <1>2, <1>8, <1>12, <1>b DEF Points, Param
  <2>4. tidy => \A b \in Buffers : Points(c, b) => r.refs[b] = 1 /\ b \in r.lost
    BY <1>9, <1>12, <1>b, <2>2, <2>3 DEF Param, TypeOK
  <2>5. \A b \in Buffers : ~Points(c, b) => r.refs[b] = refs[b] /\ (b \in r.lost <=> b \in lost)
    BY <2>2, <2>3 DEF TypeOK
  <2>6. r.lost \subseteq DriverBuffers
    BY <1>12, <2>2 DEF Param, TypeOK
  <2>7. QED
    BY <1>7, <1>12, <2>2, <2>4, <2>5, <2>6
<1>13. CASE use[c] \notin {"read", "write", "setParam"}
  <2>1. m.ptr.copy = NULL
    BY <1>3, <1>13 DEF Direct, Param, Empty, async
  <2>2. r = m
    BY <1>13, <2>1, CompletedWaiting DEF async
  <2>3. QED
    BY <1>6, <1>13, <2>2 DEF async
<1>14. QED
  BY <1>3, <1>10, <1>11, <1>12, <1>13 DEF async

(* The controller, or a failed resubmission, completes the command.        *)
LEMMA HandleInterruptStep ==
  ASSUME Inv, NEW c \in Commands, handleInterrupt(c)
  PROVE  Inv'
<1> TypeOK /\ Shape /\ Disjoint /\ Written /\ Reserve /\ Owing /\ Counts
  BY DEF Inv
<1>1. PICK success \in BOOLEAN : complete(c, transferred(c, success), success)
  BY DEF handleInterrupt
<1>2. stage[c] = "posted" /\ UNCHANGED <<emergencyCommand, resetting, stale, owed, refused>>
  BY DEF handleInterrupt, reset
<1> DEFINE m == transferred(c, success)
<1>3. m \in Memories /\ m.ptr = fields[c] /\ m.refs = refs /\ m.lost = lost /\ full \subseteq m.full
  <2>1. memoryOf(c) \in Memories /\ memoryOf(c).ptr = fields[c] /\ memoryOf(c).refs = refs
        /\ memoryOf(c).full = full /\ memoryOf(c).lost = lost
    BY MemoryOfType
  <2>2. CASE use[c] = "read" /\ success
    <3>1. m = [memoryOf(c) EXCEPT !.full = full \union {fields[c].data}]
      BY <2>1, <2>2 DEF transferred, Memories
    <3>2. fields[c].data \in Buffers
      <4>1. ShapeOf(c)
        BY <1>2 DEF Shape, Live
      <4>2. QED
        BY <1>2, <2>2, <4>1, BufferAssumption DEF ShapeOf, Direct, Copying, Buffers
    <3>3. full \union {fields[c].data} \in SUBSET Buffers
      BY <3>2 DEF TypeOK
    <3>4. QED
      BY <2>1, <3>1, <3>3 DEF Memories
  <2>3. CASE ~(use[c] = "read" /\ success)
    BY <2>1, <2>3 DEF transferred
  <2>4. QED
    BY <2>2, <2>3
<1>4. /\ Typed' /\ Shape' /\ Disjoint' /\ Written'
      /\ tidy => \A b \in Buffers : Counted(b)'
  <2> HIDE DEF m
  <2>1. complete(c, m, success)
    BY <1>1 DEF m
  <2>2. QED
    BY <1>2, <1>3, <2>1, CompleteStep
<1>5. TypeOK'
  <2>1. Typed' /\ UNCHANGED <<emergencyCommand, resetting, stale, owed, refused>>
    BY <1>2, <1>4
  <2>2. QED
    BY <2>1 DEF TypeOK, Typed, Pointers
<1>6. Reserve' /\ Owing'
  BY <1>1, <1>2 DEF complete, Reserve, Owing, TypeOK, Commands
<1>7. Counts'
  BY <1>2, <1>4 DEF Counts, tidy
<1>8. QED
  BY <1>4, <1>5, <1>6, <1>7 DEF Inv

(* A waiting owner has its command back; another's is untidy.              *)
LEMMA RefuseStep ==
  ASSUME Inv, NEW c \in Commands, refuse(c)
  PROVE  Inv'
<1> TypeOK /\ Shape /\ Disjoint /\ Written /\ Reserve /\ Owing /\ Counts
  BY DEF Inv
<1>1. /\ stage[c] = "made" /\ UNCHANGED <<emergencyCommand, resetting, stale>>
      /\ refused' = (refused \/ async(c))
      /\ owed' = IF async(c) THEN owed \union {c} ELSE owed
  BY DEF refuse, reset
<1>2. c \in Live
  BY <1>1 DEF Live
<1>3. memoryOf(c) \in Memories /\ memoryOf(c).ptr = fields[c] /\ memoryOf(c).refs = refs
      /\ memoryOf(c).full = full /\ memoryOf(c).lost = lost
  BY MemoryOfType
<1> DEFINE Goal == Typed' /\ Shape' /\ Disjoint' /\ Written' /\ Reserve' /\ Counts'
<1>4. ASSUME complete(c, memoryOf(c), FALSE) PROVE Goal
  <2>1. /\ Typed' /\ Shape' /\ Disjoint' /\ Written'
        /\ tidy => \A b \in Buffers : Counted(b)'
    BY <1>1, <1>3, <1>4, CompleteStep
  <2>2. Reserve'
    BY <1>1, <1>4 DEF complete, Reserve, TypeOK, Commands
  <2>3. Counts'
    BY <1>1, <2>1 DEF Counts, tidy
  <2>4. QED
    BY <2>1, <2>2, <2>3
<1>5. ASSUME async(c), NEW m \in Memories, m.lost = lost, complete(c, m, FALSE),
             completed(c, m) \in Memories, completed(c, m).lost = lost,
             \A d \in Live \ {c} : fields[d].data \in full =>
                                     fields[d].data \in completed(c, m).full
      PROVE  Goal
  <2>1. /\ stage' = [stage EXCEPT ![c] = "free"] /\ use' = [use EXCEPT ![c] = "none"]
        /\ result' = [result EXCEPT ![c] = FALSE] /\ becomes(c, completed(c, m))
    BY <1>5 DEF complete, completed
  <2>2. /\ fields' \in [Commands -> Pointers]
        /\ \A d \in Commands \ {c} : fields'[d] = fields[d]
        /\ refs' \in [Buffers -> Int] /\ full' \subseteq Buffers /\ lost' = lost
        /\ full' = completed(c, m).full
    BY <1>5, <2>1, BecomesFacts
  <2>3. Typed'
    BY <2>1, <2>2 DEF TypeOK, Typed, Pointers
  <2>4. Others(c) /\ stage'[c] = "free"
    BY <2>1, <2>2 DEF Others, TypeOK
  <2>5. Shape' /\ Disjoint' /\ Written'
    BY <1>5, <2>2, <2>4, FreedStep
  <2>6. Reserve' /\ Counts'
    BY <1>1, <1>5, <2>1 DEF Reserve, TypeOK, Commands, Counts, tidy
  <2>7. QED
    BY <2>3, <2>5, <2>6
<1>6. ASSUME async(c) PROVE Direct(fields[c]) /\ Direct(memoryOf(c).ptr)
  BY <1>1, <1>2, <1>3, <1>6 DEF Shape, ShapeOf, async
<1>7. ASSUME async(c), NEW b \in DriverBuffers, fresh(b),
             complete(c, getCopyBuffer(c, memoryOf(c), b), FALSE)
      PROVE  Goal
  <2> DEFINE m == getCopyBuffer(c, memoryOf(c), b)
  <2>1. m \in Memories /\ Copying(m.ptr) /\ m.lost = lost /\ full \ {b} \subseteq m.full
    <3> DEFINE s == memoryOf(c)
    <3>1. s \in Memories /\ Direct(s.ptr) /\ s.lost = lost /\ s.full = full
      BY <1>3, <1>6, <1>7
    <3> HIDE DEF s
    <3>2. LET r == getCopyBuffer(c, s, b) IN
          /\ r \in Memories /\ Copying(r.ptr) /\ r.ptr.copy = b /\ r.ptr.real = s.ptr.data
          /\ r.refs = [s.refs EXCEPT ![b] = 1] /\ r.lost = s.lost
          /\ s.full \ {b} \subseteq r.full
          /\ s.ptr.data \in s.full => b \in r.full
      BY <3>1, GetCopyBufferFacts
    <3>3. QED
      BY <3>1, <3>2 DEF s
  <2>2. complete(c, m, FALSE)
    BY <1>7
  <2> HIDE DEF m
  <2>3. completed(c, m) \in Memories /\ completed(c, m).lost = lost
        /\ m.full \subseteq completed(c, m).full
    BY <1>7, <2>1, CompletedCopying
  <2>4. \A d \in Live : fields[d].data /= b
    <3>1. \A d \in Live : fields[d] \in Pointers
      BY DEF Live, TypeOK, Pointers
    <3>2. QED
      BY <1>7, <3>1, FieldFacts DEF fresh, Live
  <2>5. QED
    BY <1>5, <1>7, <2>1, <2>2, <2>3, <2>4
<1>8. ASSUME async(c), complete(c, [memoryOf(c) EXCEPT !.ptr.real = fields[c].data], FALSE)
      PROVE  Goal
  <2> DEFINE m == [memoryOf(c) EXCEPT !.ptr.real = fields[c].data]
  <2>1. m.ptr = [fields[c] EXCEPT !.real = fields[c].data] /\ m.lost = lost /\ m.full = full
    BY <1>3 DEF Memories
  <2>2. m.ptr \in Pointers /\ m.ptr.copy = NULL
    <3>1. fields[c] \in Pointers /\ fields[c].data \in Buffers \union {NULL}
      BY FieldFacts DEF TypeOK, Pointers
    <3>2. QED
      BY <1>6, <1>8, <2>1, <3>1 DEF Pointers, Fields, Direct
  <2>3. m \in Memories
    BY <1>3, <2>1, <2>2 DEF Memories
  <2>4. complete(c, m, FALSE)
    BY <1>8
  <2> HIDE DEF m
  <2>5. completed(c, m) \in Memories /\ completed(c, m).lost = lost /\ completed(c, m).full = full
    BY <1>8, <2>1, <2>2, <2>3, CompletedType
  <2>6. QED
    BY <1>5, <1>8, <2>1, <2>3, <2>4, <2>5
<1>9. Goal
  <2>1. \/ complete(c, memoryOf(c), FALSE)
        \/ async(c) /\ \E b \in DriverBuffers :
             fresh(b) /\ complete(c, getCopyBuffer(c, memoryOf(c), b), FALSE)
        \/ async(c) /\ complete(c, [memoryOf(c) EXCEPT !.ptr.real = fields[c].data], FALSE)
    BY DEF refuse
  <2> HIDE DEF Goal
  <2>2. QED
    BY <1>4, <1>7, <1>8, <2>1 DEF Goal
<1>10. TypeOK' /\ Owing'
  <2>1. Owing'
    BY <1>1 DEF Owing
  <2>2. refused' \in BOOLEAN
    BY <1>1 DEF async
  <2>3. owed' \subseteq Commands
    BY <1>1 DEF TypeOK
  <2>4. emergencyCommand' \in AdminCommands \union {NULL} /\ resetting' \in BOOLEAN
        /\ stale' \in BOOLEAN
    BY <1>1 DEF TypeOK
  <2>5. QED
    BY <1>9, <2>1, <2>2, <2>3, <2>4 DEF TypeOK, Typed, Pointers
<1>11. QED
  BY <1>9, <1>10 DEF Inv

(* Returned twice: what the command points to is released again.           *)
LEMMA ReturnAgainStep ==
  ASSUME Inv, NEW c \in Commands, returnAgain(c)
  PROVE  Inv'
<1> TypeOK /\ Shape /\ Disjoint /\ Written /\ Reserve /\ Owing /\ Counts
  BY DEF Inv
<1> DEFINE m == memoryOf(c)
           r == returned(m)
<1>1. /\ c \in owed /\ owed' = owed \ {c}
      /\ stage' = [stage EXCEPT ![c] = "free"] /\ use' = [use EXCEPT ![c] = "none"]
      /\ becomes(c, r)
      /\ UNCHANGED <<result, emergencyCommand, resetting, stale, refused>>
  BY DEF returnAgain, reset
<1>2. m \in Memories /\ m.full = full /\ m.lost = lost
  BY MemoryOfType
<1>3. r \in Memories /\ r.full = full /\ r.lost = lost
  <2> HIDE DEF m
  <2>1. QED
    BY <1>2, ReturnedFacts
<1> HIDE DEF r
<1>4. /\ fields' \in [Commands -> Pointers] /\ refs' \in [Buffers -> Int]
      /\ \A d \in Commands \ {c} : fields'[d] = fields[d]
      /\ full' = full /\ lost' = lost
  BY <1>1, <1>3, BecomesFacts
<1>5. Others(c) /\ stage'[c] = "free"
  BY <1>1, <1>4 DEF Others, TypeOK
<1>6. TypeOK'
  BY <1>1, <1>4 DEF TypeOK, Pointers
<1>7. Shape' /\ Disjoint' /\ Written'
  BY <1>4, <1>5, FreedStep
<1>8. Reserve' /\ Owing' /\ ~tidy'
  BY <1>1 DEF Reserve, Owing, TypeOK, Commands, tidy
<1>9. QED
  BY <1>6, <1>7, <1>8 DEF Inv, Counts

(* The owner gives its command back: whatever it pointed to has only its   *)
(* own reference left.                                                     *)
LEMMA ReturnCommandStep ==
  ASSUME Inv, NEW c \in Commands, returnCommand(c)
  PROVE  Inv'
<1> TypeOK /\ Shape /\ Disjoint /\ Written /\ Reserve /\ Owing /\ Counts
  BY DEF Inv
<1> DEFINE p == fields[c]
           m == memoryOf(c)
           q == IF use[c] = "getParam" /\ result[c] THEN releaseParamBuffer(m)
                ELSE IF use[c] = "user" THEN releaseDataBuffer(m)
                ELSE m
           r == returned(q)
<1>1. /\ stage[c] = "done"
      /\ stage' = [stage EXCEPT ![c] = "free"] /\ use' = [use EXCEPT ![c] = "none"]
      /\ result' = [result EXCEPT ![c] = FALSE]
      /\ becomes(c, r)
      /\ UNCHANGED <<emergencyCommand, resetting, stale, owed, refused>>
  BY DEF returnCommand, reset
<1>b. NULL \notin Buffers /\ ClientBuffers \intersect DriverBuffers = {}
      /\ ClientBuffers \subseteq Buffers /\ DriverBuffers \subseteq Buffers
  BY BufferAssumption DEF Buffers
<1>2. c \in Live
  BY <1>1 DEF Live
<1>3. \/ Direct(p) /\ use[c] = "user"
      \/ Param(p) /\ use[c] = "getParam"
      \/ Empty(p) /\ use[c] \in {"plain", "setParam"}
  BY <1>1, <1>2 DEF Shape, ShapeOf, async
<1>4. m \in Memories /\ m.ptr = p /\ m.refs = refs /\ m.full = full /\ m.lost = lost
  BY MemoryOfType
<1> HIDE DEF m
<1>5. p \in Pointers
  BY DEF TypeOK, Pointers
<1>6. \A x : (\E h \in Fields : p[h] = x) <=> x = p.data \/ x = p.param \/ x = p.copy \/ x = p.real
  BY <1>5, FieldFacts
<1>7. tidy => \A b \in Buffers : Points(c, b) =>
                b \notin lost /\ refs[b] = IF p.copy = b THEN 1 ELSE 2
  BY <1>2 DEF Counts, Counted
<1> DEFINE Settled ==
      /\ r \in Memories /\ r.full = full /\ r.lost \subseteq DriverBuffers
      /\ tidy => /\ \A b \in Buffers : Points(c, b) =>
                      r.refs[b] = IF b \in ClientBuffers \union r.lost THEN 1 ELSE 0
                 /\ \A b \in Buffers : ~Points(c, b) =>
                      r.refs[b] = refs[b] /\ (b \in r.lost <=> b \in lost)
<1>8. ASSUME Direct(p), use[c] = "user" PROVE Settled
  <2>1. p.data /= NULL /\ p.data \in ClientBuffers /\ p.data \in Buffers
    BY <1>8, <1>b DEF Direct
  <2>2. /\ q \in Memories /\ Empty(q.ptr) /\ q.full = full /\ q.lost = lost
        /\ q.refs = [refs EXCEPT ![p.data] = @ - 1]
    <3>1. q = releaseDataBuffer(m)
      BY <1>8
    <3>2. LET s == releaseDataBuffer(m) IN
          /\ s \in Memories /\ s.ptr.data = NULL
          /\ s.ptr.param = m.ptr.param /\ s.ptr.copy = m.ptr.copy /\ s.ptr.real = m.ptr.real
          /\ s.full = m.full /\ s.lost = m.lost
          /\ s.refs = [m.refs EXCEPT ![m.ptr.data] = @ - 1]
      BY <1>4, <2>1, ReleaseDataBufferFacts
    <3>3. QED
      BY <1>4, <1>8, <3>1, <3>2 DEF Direct, Empty
  <2>3. r \in Memories /\ r.full = q.full /\ r.lost = q.lost /\ r.refs = q.refs
    <3> HIDE DEF q
    <3>1. QED
      BY <2>2, ReturnedFacts
  <2>4. \A b \in Buffers : Points(c, b) <=> b = p.data
    BY <1>2, <1>6, <1>8, <1>b DEF Points, Direct
  <2> HIDE DEF q, r
  <2>5. r.refs = [refs EXCEPT ![p.data] = @ - 1] /\ r.lost = lost /\ lost \subseteq DriverBuffers
    BY <2>2, <2>3 DEF TypeOK
  <2>6. tidy => r.refs[p.data] = 1
    BY <1>7, <1>8, <2>1, <2>4, <2>5 DEF Direct, TypeOK
  <2>7. \A b \in Buffers : ~Points(c, b) => r.refs[b] = refs[b]
    BY <2>4, <2>5 DEF TypeOK
  <2>8. QED
    BY <2>1, <2>2, <2>3, <2>4, <2>5, <2>6, <2>7
<1>9. ASSUME Param(p), result[c], use[c] = "getParam" PROVE Settled
  <2>1. /\ q \in Memories /\ Empty(q.ptr) /\ q.full = full /\ q.lost = lost \union {p.param}
        /\ q.refs = [refs EXCEPT ![p.param] = @ - 1]
    <3>1. q = releaseParamBuffer(m) /\ Param(m.ptr)
      BY <1>4, <1>9
    <3>2. LET s == releaseParamBuffer(m) IN
          /\ s \in Memories /\ Empty(s.ptr)
          /\ s.refs = [m.refs EXCEPT ![m.ptr.param] = @ - 1]
          /\ s.full = m.full /\ s.lost = m.lost \union {m.ptr.param}
      BY <1>4, <3>1, ReleaseParamBufferFacts
    <3>3. QED
      BY <1>4, <3>1, <3>2
  <2>2. r \in Memories /\ r.full = q.full /\ r.lost = q.lost /\ r.refs = q.refs
    <3> HIDE DEF q
    <3>1. QED
      BY <2>1, ReturnedFacts
  <2>3. \A b \in Buffers : Points(c, b) <=> b = p.param
    BY <1>2, <1>6, <1>9, <1>b DEF Points, Param
  <2>4. p.param \in DriverBuffers /\ p.param \in Buffers /\ p.copy /= p.param
    BY <1>9, <1>b DEF Param
  <2> HIDE DEF q, r
  <2>5. r.refs = [refs EXCEPT ![p.param] = @ - 1] /\ r.lost = lost \union {p.param}
        /\ r.lost \subseteq DriverBuffers
    BY <2>1, <2>2, <2>4 DEF TypeOK
  <2>6. tidy => r.refs[p.param] = 1
    BY <1>7, <2>3, <2>4, <2>5 DEF TypeOK
  <2>7. \A b \in Buffers : ~Points(c, b) => r.refs[b] = refs[b] /\ (b \in r.lost <=> b \in lost)
    BY <2>3, <2>5 DEF TypeOK
  <2>8. QED
    BY <2>1, <2>2, <2>3, <2>5, <2>6, <2>7
<1>10. ASSUME Param(p), ~result[c], use[c] = "getParam" PROVE Settled
  <2>1. q = m
    BY <1>10
  <2>2. /\ r \in Memories /\ r.full = full /\ r.lost = lost
        /\ r.refs = [refs EXCEPT ![p.param] = @ - 2]
    <3> HIDE DEF q
    <3>1. LET s == returned(m) IN
          /\ s \in Memories /\ s.ptr = m.ptr /\ s.full = m.full /\ s.lost = m.lost
          /\ Empty(m.ptr) => s.refs = m.refs
          /\ Param(m.ptr) => s.refs = [m.refs EXCEPT ![m.ptr.param] = @ - 2]
      BY <1>4, ReturnedFacts
    <3>2. QED
      BY <1>4, <1>10, <2>1, <3>1
  <2>3. \A b \in Buffers : Points(c, b) <=> b = p.param
    BY <1>2, <1>6, <1>10, <1>b DEF Points, Param
  <2>4. p.param \in DriverBuffers /\ p.param \in Buffers /\ p.copy /= p.param
        /\ p.param \notin ClientBuffers
    BY <1>10, <1>b DEF Param
  <2> HIDE DEF q, r
  <2>6. tidy => r.refs[p.param] = 0 /\ p.param \notin r.lost
    BY <1>7, <2>2, <2>3, <2>4 DEF TypeOK
  <2>7. \A b \in Buffers : ~Points(c, b) => r.refs[b] = refs[b] /\ (b \in r.lost <=> b \in lost)
    BY <2>2, <2>3 DEF TypeOK
  <2>8. QED
    BY <2>2, <2>3, <2>4, <2>6, <2>7 DEF TypeOK
<1>11. ASSUME Empty(p), use[c] \in {"plain", "setParam"} PROVE Settled
  <2>1. q = m
    BY <1>11
  <2>2. r \in Memories /\ r.full = full /\ r.lost = lost /\ r.refs = refs
    <3> HIDE DEF q
    <3>1. LET s == returned(m) IN
          /\ s \in Memories /\ s.ptr = m.ptr /\ s.full = m.full /\ s.lost = m.lost
          /\ Empty(m.ptr) => s.refs = m.refs
          /\ Param(m.ptr) => s.refs = [m.refs EXCEPT ![m.ptr.param] = @ - 2]
      BY <1>4, ReturnedFacts
    <3>2. QED
      BY <1>4, <1>11, <2>1, <3>1
  <2>3. \A b \in Buffers : ~Points(c, b)
    BY <1>2, <1>6, <1>11, <1>b DEF Points, Empty
  <2> HIDE DEF q, r
  <2>4. QED
    BY <2>2, <2>3 DEF TypeOK
<1> HIDE DEF q, r
<1>12. Settled
  <2> HIDE DEF Settled
  <2>1. result[c] \/ ~result[c]
    OBVIOUS
  <2>2. QED
    BY <1>3, <1>8, <1>9, <1>10, <1>11, <2>1
<1>13. /\ fields' \in [Commands -> Pointers] /\ refs' \in [Buffers -> Int]
       /\ \A d \in Commands \ {c} : fields'[d] = fields[d]
       /\ refs' = r.refs /\ full' = full /\ lost' = r.lost /\ lost' \subseteq DriverBuffers
  BY <1>1, <1>12, BecomesFacts
<1>14. Others(c) /\ stage'[c] = "free" /\ c \notin Live'
  BY <1>1, <1>13 DEF Others, TypeOK, Live
<1>15. TypeOK'
  BY <1>1, <1>13 DEF TypeOK, Pointers
<1>16. Shape' /\ Disjoint' /\ Written'
  BY <1>13, <1>14, FreedStep
<1>17. Reserve' /\ Owing'
  BY <1>1 DEF Reserve, Owing, TypeOK, Commands
<1>18. Counts'
  <2> SUFFICES ASSUME tidy PROVE \A b \in Buffers : Counted(b)'
    BY <1>1 DEF Counts, tidy
  <2>1. \A b \in Buffers : Counted(b) /\ ~Points(c, b)'
    BY <1>14 DEF Counts, Points
  <2>2. \A b \in Buffers : Points(c, b) => refs'[b] = own(b)'
    BY <1>12, <1>13 DEF own
  <2>3. \A b \in Buffers : ~Points(c, b) => refs'[b] = refs[b] /\ (b \in lost' <=> b \in lost)
    BY <1>12, <1>13
  <2>4. QED
    BY <1>2, <1>b, <1>14, <2>1, <2>2, <2>3, GoneStep
<1>19. QED
  BY <1>15, <1>16, <1>17, <1>18 DEF Inv

(* A reset takes a command that nobody uses: its references are gone before *)
(* unless its pointers were left over, which is untidy.                    *)
LEMMA SupplyStep == Inv /\ supply => Inv'
<1> SUFFICES ASSUME Inv, supply PROVE Inv'
  OBVIOUS
<1> TypeOK /\ Shape /\ Disjoint /\ Written /\ Reserve /\ Owing /\ Counts
  BY DEF Inv
<1>1. PICK c \in IF pooled /= {} THEN pooled ELSE {emergencyCommand} \ {NULL} :
        /\ stage' = [stage EXCEPT ![c] = "free"]
        /\ becomes(c, returned(memoryOf(c)))
        /\ stale' = (stale \/ dangling(c))
  BY DEF supply
<1>2. /\ resetting' = TRUE /\ emergencyCommand' = NULL
      /\ UNCHANGED <<use, result, owed, refused>>
  BY DEF supply
<1>3. c \in Commands /\ (~refused => stage[c] \in {"free", "kept"})
  BY <1>1 DEF pooled, Commands, Reserve, TypeOK
<1> DEFINE m == memoryOf(c)
           r == returned(m)
<1>4. m \in Memories /\ m.ptr = fields[c] /\ m.refs = refs /\ m.full = full /\ m.lost = lost
  BY <1>3, MemoryOfType
<1>5. /\ r \in Memories /\ r.full = full /\ r.lost = lost
      /\ Empty(fields[c]) => r.refs = refs
  <2> HIDE DEF m
  <2>1. LET s == returned(m) IN
        /\ s \in Memories /\ s.ptr = m.ptr /\ s.full = m.full /\ s.lost = m.lost
        /\ Empty(m.ptr) => s.refs = m.refs
        /\ Param(m.ptr) => s.refs = [m.refs EXCEPT ![m.ptr.param] = @ - 2]
    BY <1>4, ReturnedFacts
  <2>2. QED
    BY <1>4, <2>1
<1> HIDE DEF r
<1>6. /\ fields' \in [Commands -> Pointers] /\ refs' \in [Buffers -> Int]
      /\ \A d \in Commands \ {c} : fields'[d] = fields[d]
      /\ refs' = r.refs /\ full' = full /\ lost' = lost
  <2>1. becomes(c, r)
    BY <1>1 DEF r
  <2>2. QED
    BY <1>3, <1>5, <2>1, BecomesFacts
<1>7. Others(c) /\ stage'[c] = "free"
  BY <1>1, <1>2, <1>3, <1>6 DEF Others, TypeOK
<1>8. stale' \in BOOLEAN
  BY <1>1 DEF TypeOK, dangling
<1>9. TypeOK'
  <2>1. stage' \in [Commands -> {"free", "kept", "made", "posted", "done"}]
    BY <1>1, <1>3 DEF TypeOK
  <2>2. QED
    BY <1>2, <1>6, <1>8, <2>1 DEF TypeOK, Pointers
<1>10. Shape' /\ Disjoint' /\ Written'
  BY <1>3, <1>6, <1>7, FreedStep
<1>11. Reserve' /\ Owing'
  BY <1>2 DEF Reserve, Owing
<1>12. Counts'
  <2> SUFFICES ASSUME tidy', NEW b \in Buffers PROVE Counted(b)'
    BY DEF Counts
  <2>1. tidy /\ ~refused /\ ~dangling(c)
    BY <1>1, <1>2, <1>8 DEF tidy, TypeOK
  <2>2. Empty(fields[c])
    BY <2>1, <1>3 DEF dangling, Empty, Fields, TypeOK
  <2>3. ~Points(c, b) /\ ~Points(c, b)' /\ Counted(b)
    BY <1>3, <1>7, <2>1 DEF Points, Live, Counts
  <2>4. QED
    BY <1>3, <1>5, <1>6, <1>7, <2>2, <2>3, UninvolvedStep
<1>13. QED
  BY <1>9, <1>10, <1>11, <1>12 DEF Inv

(* Nobody uses the command that is put aside.                              *)
LEMMA RecoverStep == Inv /\ recover => Inv'
<1> SUFFICES ASSUME Inv, recover PROVE Inv'
  OBVIOUS
<1> TypeOK /\ Shape /\ Disjoint /\ Written /\ Reserve /\ Owing /\ Counts
  BY DEF Inv
<1>1. /\ resetting' = FALSE
      /\ UNCHANGED <<use, result, fields, refs, full, lost, owed, refused, stale>>
  BY DEF recover, memory
<1>2. \/ emergencyCommand' = NULL /\ stage' = stage
      \/ \E c \in pooled : emergencyCommand' = c /\ stage' = [stage EXCEPT ![c] = "kept"]
  BY DEF recover
<1>3. pooled \subseteq AdminCommands /\ AdminCommands \subseteq Commands
      /\ \A c \in pooled : stage[c] = "free"
  BY DEF pooled, Commands
<1>4. stage' \in [Commands -> {"free", "kept", "made", "posted", "done"}]
      /\ \A d \in Commands : d \in Live \/ d \in Live' => stage'[d] = stage[d]
  BY <1>2, <1>3 DEF TypeOK, Live
<1>5. TypeOK'
  <2>1. emergencyCommand' \in AdminCommands \union {NULL}
    BY <1>2, <1>3 DEF TypeOK
  <2>2. QED
    BY <1>1, <1>4, <2>1 DEF TypeOK
<1>6. Live' = Live /\ \A d \in Commands : stage[d] = "made" <=> stage'[d] = "made"
  BY <1>4 DEF Live, TypeOK
<1>7. Shape' /\ Disjoint'
  BY <1>1, <1>4, <1>6 DEF Shape, ShapeOf, async, Disjoint, Live
<1>8. Written' /\ Owing'
  BY <1>1, <1>6 DEF Written, Owing
<1>9. Reserve'
  BY <1>2, <1>3 DEF Reserve, TypeOK
<1>10. Counts'
  BY <1>1, <1>6 DEF Counts, tidy, Counted, Points, idle, own
<1>11. QED
  BY <1>5, <1>7, <1>8, <1>9, <1>10 DEF Inv

(* Every step keeps the invariant.                                         *)
LEMMA StepInv == Inv /\ [Next]_vars => Inv'
<1> SUFFICES ASSUME Inv, [Next]_vars PROVE Inv'
  OBVIOUS
<1>1. CASE UNCHANGED vars
  BY <1>1 DEF vars, memory, reset, Inv, TypeOK, Shape, ShapeOf, async, Disjoint, Written, Reserve,
              Owing, Counts, Counted, tidy, Points, idle, own, Live
<1>2. ASSUME NEW c \in Commands, CommandStep(c) PROVE Inv'
  BY <1>2, MakeWithDataStep, MakeParamStep, MakePlainStep, PostInPlaceStep, PostCopyStep,
     RefuseStep, ReturnAgainStep, HandleInterruptStep, ReturnCommandStep DEF CommandStep
<1>3. QED
  BY <1>1, <1>2, SupplyStep, RecoverStep DEF Next
-----------------------------------------------------------------------------
(* A buffer nobody uses has its own reference; one that is in use has the  *)
(* references its only user holds.                                         *)
LEMMA InvAccounts == Inv => RefsAccounted
<1> SUFFICES ASSUME Inv, tidy, NEW b \in Buffers
             PROVE  refs[b] = Cardinality(held(b)) + own(b)
  BY DEF RefsAccounted
<1> TypeOK /\ Shape /\ Disjoint /\ Counts
  BY DEF Inv
<1>1. Counted(b)
  BY DEF Counts
<1>b. b /= NULL /\ ClientBuffers \intersect DriverBuffers = {}
  BY BufferAssumption DEF Buffers
<1>2. CASE idle(b)
  <2>1. held(b) = {}
    BY <1>2 DEF held, owns, idle
  <2>2. Cardinality(held(b)) = 0
    BY <2>1, FS_EmptySet
  <2>3. QED
    BY <1>1, <1>2, <2>2 DEF Counted, own
<1>3. CASE ~idle(b)
  <2>1. PICK c \in Live, f \in Fields : fields[c][f] = b
    BY <1>3 DEF idle
  <2> DEFINE p == fields[c]
             mine == {g \in Fields : p[g] = b /\ (g = "data" => p.copy = NULL)}
  <2>2. Points(c, b) /\ c \in Commands
    BY <2>1 DEF Points, Live
  <2>3. b \notin lost /\ refs[b] = IF p.copy = b THEN 1 ELSE 2
    BY <1>1, <2>2 DEF Counted
  <2>4. held(b) = {<<c, g>> : g \in mine}
    <3>1. \A d \in Live, g \in Fields : fields[d][g] = b => d = c
      BY <1>b, <2>1 DEF Disjoint
    <3>2. ASSUME NEW x \in held(b) PROVE x \in {<<c, g>> : g \in mine}
      <4>1. /\ x \in Commands \X Fields /\ x = <<x[1], x[2]>> /\ x[2] \in Fields
            /\ x[1] \in Live /\ fields[x[1]][x[2]] = b
            /\ (x[2] = "data" => fields[x[1]].copy = NULL)
        BY <3>2 DEF held, owns
      <4>2. x[1] = c
        BY <3>1, <4>1
      <4>3. QED
        BY <4>1, <4>2
    <3>3. ASSUME NEW g \in mine PROVE <<c, g>> \in held(b)
      BY <2>1, <2>2, <3>3 DEF held, owns
    <3>4. QED
      BY <3>2, <3>3
  <2>5. p \in Pointers
    BY <2>2 DEF TypeOK, Pointers
  <2>6. /\ \A g \in Fields : g = "data" \/ g = "param" \/ g = "copy" \/ g = "real"
        /\ {"data", "param", "copy", "real"} \subseteq Fields
        /\ p["data"] = p.data /\ p["param"] = p.param /\ p["copy"] = p.copy /\ p["real"] = p.real
    BY <2>5, FieldFacts DEF Fields
  <2>7. Direct(p) \/ Copying(p) \/ Param(p) \/ Empty(p)
    BY <2>1 DEF Shape, ShapeOf
  <2> DEFINE P == p.data = b
             Q == p.copy = b
  <2>8. CASE Direct(p)
    <3>1. mine = {"data"} /\ b \in ClientBuffers /\ p.copy /= b
      BY <1>b, <2>1, <2>6, <2>8 DEF Direct
    <3>2. held(b) = {<<c, "data">>}
      BY <2>4, <3>1
    <3>3. Cardinality(held(b)) = 1
      BY <3>2, FS_Singleton
    <3>4. QED
      BY <2>3, <3>1, <3>3 DEF own
  <2>9. CASE Copying(p) /\ p.copy = b
    <3>1. mine = {"copy"} /\ b \notin ClientBuffers
      BY <1>b, <2>6, <2>9 DEF Copying
    <3>2. held(b) = {<<c, "copy">>}
      BY <2>4, <3>1
    <3>3. Cardinality(held(b)) = 1
      BY <3>2, FS_Singleton
    <3>4. QED
      BY <2>3, <2>9, <3>1, <3>3 DEF own
  <2>10. CASE Copying(p) /\ p.copy /= b
    <3>1. mine = {"real"} /\ b \in ClientBuffers
      BY <1>b, <2>1, <2>6, <2>10 DEF Copying
    <3>2. held(b) = {<<c, "real">>}
      BY <2>4, <3>1
    <3>3. Cardinality(held(b)) = 1
      BY <3>2, FS_Singleton
    <3>4. QED
      BY <2>3, <2>10, <3>1, <3>3 DEF own
  <2>11. CASE Param(p)
    <3>1. mine = {"data", "param"} /\ b \notin ClientBuffers /\ p.copy /= b
      BY <1>b, <2>1, <2>6, <2>11 DEF Param
    <3>2. held(b) = {<<c, "data">>} \union {<<c, "param">>}
      BY <2>4, <3>1
    <3>3. IsFiniteSet({<<c, "data">>}) /\ Cardinality({<<c, "data">>}) = 1
      BY FS_Singleton
    <3>4. <<c, "param">> \notin {<<c, "data">>}
      OBVIOUS
    <3>5. Cardinality(held(b)) = 2
      <4> DEFINE s == {<<c, "data">>}
                 x == <<c, "param">>
      <4>1. IsFiniteSet(s) /\ Cardinality(s) = 1 /\ x \notin s /\ held(b) = s \union {x}
        BY <3>2, <3>3, <3>4
      <4> HIDE DEF s, x
      <4>2. Cardinality(s \union {x}) = IF x \in s THEN Cardinality(s) ELSE Cardinality(s) + 1
        BY ONLY <4>1, FS_AddElement, Zenon
      <4>3. QED
        BY <4>1, <4>2
    <3>6. QED
      BY <2>3, <3>1, <3>5 DEF own
  <2>12. CASE Empty(p)
    BY <1>b, <2>1, <2>6, <2>12 DEF Empty
  <2>13. QED
    BY <2>7, <2>8, <2>9, <2>10, <2>11, <2>12
<1>4. QED
  BY <1>2, <1>3

(* The types of the variables.                                             *)
THEOREM BuffersTypeCorrect == Spec => []TypeOK
<1>1. Inv => TypeOK
  BY DEF Inv
<1>2. QED
  BY <1>1, InitInv, StepInv, PTL DEF Spec

(* Every reference to a buffer is held by a command in use, by the client, *)
(* or is the one releaseParamBuffer forgets, as long as no read or write   *)
(* was refused and no reset returned a command with pointers left over.    *)
THEOREM ReferencesAccounted == Spec => []RefsAccounted
BY InitInv, StepInv, InvAccounts, PTL DEF Spec

(* While the module is tidy, only a completion takes a posted command to   *)
(* free, and only the two ways to post one take a made command to posted.  *)
LEMMA OnlyStep ==
  ASSUME Inv, Next, tidy, NEW c \in Commands
  PROVE  /\ stage[c] = "posted" /\ stage'[c] = "free" => handleInterrupt(c)
         /\ stage[c] = "made" /\ stage'[c] = "posted" => postInPlace(c) \/ postCopy(c)
<1> TypeOK /\ Reserve /\ Owing
  BY DEF Inv
<1> DEFINE Goal == /\ stage[c] = "posted" /\ stage'[c] = "free" => handleInterrupt(c)
                   /\ stage[c] = "made" /\ stage'[c] = "posted" => postInPlace(c) \/ postCopy(c)
<1> SUFFICES Goal
  OBVIOUS
<1>s. stage \in [Commands -> {"free", "kept", "made", "posted", "done"}]
  BY DEF TypeOK
<1>1. ASSUME NEW d \in Commands,
             \/ stage[d] = "free" /\ stage' = [stage EXCEPT ![d] = "made"]
             \/ stage[d] = "done" /\ stage' = [stage EXCEPT ![d] = "free"]
      PROVE  Goal
  BY <1>1, <1>s
<1>2. ASSUME NEW d \in Commands, postInPlace(d) \/ postCopy(d) PROVE Goal
  <2>1. stage[d] = "made" /\ stage' = [stage EXCEPT ![d] = "posted"]
    BY <1>2 DEF postInPlace, postCopy
  <2>2. stage'[c] /= stage[c] => c = d
    BY <2>1, <1>s
  <2>3. QED
    BY <1>2, <2>1, <2>2, <1>s
<1>3. ASSUME NEW d \in Commands, refuse(d) PROVE Goal
  <2>1. stage[d] = "made" /\ stage' = [stage EXCEPT ![d] = IF async(d) THEN "free" ELSE "done"]
    BY <1>3 DEF refuse, complete
  <2>2. QED
    BY <2>1, <1>s
<1>4. ASSUME NEW d \in Commands, handleInterrupt(d) PROVE Goal
  <2>1. /\ stage[d] = "posted"
        /\ stage' = [stage EXCEPT ![d] = IF async(d) THEN "free" ELSE "done"]
    BY <1>4 DEF handleInterrupt, complete
  <2>2. stage'[c] /= stage[c] => c = d
    BY <2>1, <1>s
  <2>3. QED
    BY <1>4, <2>1, <2>2, <1>s
<1>5. ASSUME NEW d \in Commands, CommandStep(d) PROVE Goal
  <2>1. CASE \/ \E b \in ClientBuffers : makeWithData(d, b)
             \/ \E b \in DriverBuffers : makeParam(d, b)
             \/ makePlain(d)
    <3>1. stage[d] = "free" /\ stage' = [stage EXCEPT ![d] = "made"]
      BY <2>1 DEF makeWithData, makeParam, makePlain, make
    <3>2. QED
      BY <1>1, <3>1
  <2>2. CASE returnCommand(d)
    <3>1. stage[d] = "done" /\ stage' = [stage EXCEPT ![d] = "free"]
      BY <2>2 DEF returnCommand
    <3>2. QED
      BY <1>1, <3>1
  <2>3. ~returnAgain(d)
    BY DEF returnAgain, Owing, tidy
  <2> HIDE DEF Goal
  <2>4. QED
    BY <1>2, <1>3, <1>4, <1>5, <2>1, <2>2, <2>3 DEF CommandStep
<1>6. CASE supply
  <2>1. PICK e \in IF pooled /= {} THEN pooled ELSE {emergencyCommand} \ {NULL} :
          stage' = [stage EXCEPT ![e] = "free"]
    BY <1>6 DEF supply
  <2>2. e \in Commands /\ stage[e] \in {"free", "kept"}
    BY <2>1 DEF pooled, Commands, Reserve, TypeOK, tidy
  <2>3. QED
    BY <2>1, <2>2, <1>s
<1>7. CASE recover
  <2>1. \/ stage' = stage
        \/ \E e \in Commands : stage[e] = "free" /\ stage' = [stage EXCEPT ![e] = "kept"]
    BY <1>7 DEF recover, pooled, Commands
  <2>2. QED
    BY <2>1, <1>s
<1> HIDE DEF Goal
<1>8. QED
  BY <1>5, <1>6, <1>7 DEF Next

(* A read that succeeds fills the buffer it was asked for.                 *)
LEMMA ReadDelivers ==
  ASSUME Inv, NEW c \in Commands, handleInterrupt(c), use[c] = "read", result'[c]
  PROVE  asked(c) \in ClientBuffers /\ asked(c) \in full'
<1> TypeOK /\ Shape
  BY DEF Inv
<1>1. PICK success \in BOOLEAN : complete(c, transferred(c, success), success)
  BY DEF handleInterrupt
<1>2. stage[c] = "posted" /\ c \in Live /\ async(c)
  BY DEF handleInterrupt, Live, async
<1> DEFINE p == fields[c]
           m == transferred(c, success)
           r == completed(c, m)
<1>3. becomes(c, r) /\ result' = [result EXCEPT ![c] = success]
  BY <1>1, <1>2 DEF complete, completed
<1>4. success
  BY <1>3 DEF TypeOK
<1>5. Direct(p) \/ Copying(p)
  BY <1>2 DEF Shape, ShapeOf, async
<1>6. p.data \in Buffers /\ p.copy \in Buffers \union {NULL} /\ NULL \notin Buffers
  BY <1>5, BufferAssumption DEF Direct, Copying, Buffers
<1>7. m \in Memories /\ m.ptr = p /\ m.full = full \union {p.data}
  <2>1. memoryOf(c) \in Memories /\ memoryOf(c).ptr = p /\ memoryOf(c).full = full
    BY MemoryOfType
  <2>2. m = [memoryOf(c) EXCEPT !.full = full \union {p.data}]
    BY <1>4, <2>1 DEF transferred, Memories
  <2>3. full \union {p.data} \in SUBSET Buffers
    BY <1>6 DEF TypeOK
  <2>4. QED
    BY <2>1, <2>2, <2>3 DEF Memories
<1> HIDE DEF m
<1>8. CASE Direct(p)
  <2>1. r \in Memories /\ r.full = m.full
    BY <1>2, <1>7, <1>8, CompletedDirect
  <2>2. full' = r.full
    BY <1>3, <2>1, BecomesFacts
  <2>3. asked(c) = p.data
    BY <1>8 DEF asked, Direct
  <2>4. QED
    BY <1>7, <1>8, <2>1, <2>2, <2>3 DEF Direct
<1>9. CASE Copying(p)
  <2>1. /\ r \in Memories
        /\ r.full = IF use[c] = "read" /\ m.ptr.copy \in m.full
                    THEN m.full \union {m.ptr.real} ELSE m.full
    BY <1>2, <1>7, <1>9, CompletedCopying
  <2>2. full' = r.full
    BY <1>3, <2>1, BecomesFacts
  <2>3. p.copy = p.data /\ p.copy \in m.full
    BY <1>7, <1>9 DEF Copying
  <2>4. asked(c) = p.real /\ p.real \in ClientBuffers
    BY <1>6, <1>9 DEF asked, Copying
  <2>5. QED
    BY <1>7, <2>1, <2>2, <2>3, <2>4
<1>10. QED
  BY <1>5, <1>8, <1>9

(* A write gives the controller a buffer with the client's data.           *)
LEMMA WriteDelivers ==
  ASSUME Inv, NEW c \in Commands, stage[c] = "made", use[c] = "write",
         postInPlace(c) \/ postCopy(c)
  PROVE  fields'[c].data \in full'
<1> TypeOK /\ Shape /\ Written
  BY DEF Inv
<1>1. fields[c].data \in full
  BY DEF Written
<1>2. CASE postInPlace(c)
  BY <1>1, <1>2 DEF postInPlace, memory
<1>3. CASE postCopy(c)
  <2>1. PICK b \in DriverBuffers : becomes(c, getCopyBuffer(c, memoryOf(c), b))
    BY <1>3 DEF postCopy
  <2> DEFINE s == memoryOf(c)
             m == getCopyBuffer(c, s, b)
  <2>2. Direct(fields[c])
    BY DEF Shape, ShapeOf, Live, async
  <2>3. s \in Memories /\ s.ptr = fields[c] /\ s.full = full
    BY MemoryOfType
  <2>4. s \in Memories /\ Direct(s.ptr) /\ s.ptr.data \in s.full
    BY <1>1, <2>2, <2>3
  <2> HIDE DEF s
  <2>5. LET r == getCopyBuffer(c, s, b) IN
        /\ r \in Memories /\ Copying(r.ptr) /\ r.ptr.copy = b /\ r.ptr.real = s.ptr.data
        /\ r.refs = [s.refs EXCEPT ![b] = 1] /\ r.lost = s.lost
        /\ s.full \ {b} \subseteq r.full
        /\ s.ptr.data \in s.full => b \in r.full
    BY <2>4, GetCopyBufferFacts
  <2>6. m \in Memories /\ m.ptr.data = b /\ b \in m.full
    BY <2>4, <2>5 DEF Copying
  <2>7. becomes(c, m)
    BY <2>1 DEF s
  <2> HIDE DEF m
  <2>8. fields'[c] = m.ptr /\ full' = m.full
    BY <2>6, <2>7, BecomesFacts
  <2>9. QED
    BY <2>6, <2>8
<1>4. QED
  BY <1>2, <1>3

(* A successful read has put its data in the client's buffer, and a write  *)
(* gives the controller the client's data, under the same condition.       *)
THEOREM DataIsDelivered == Spec => DataDelivered
<1> DEFINE A == tidy => \A c \in Commands :
                  /\ stage[c] = "posted" /\ use[c] = "read" /\ stage'[c] = "free" /\ result'[c] =>
                       asked(c) \in ClientBuffers /\ asked(c) \in full'
                  /\ stage[c] = "made" /\ use[c] = "write" /\ stage'[c] = "posted" =>
                       fields'[c].data \in full'
<1>1. Inv /\ [Next]_vars => [A]_vars
  BY OnlyStep, ReadDelivers, WriteDelivers
<1> HIDE DEF A
<1>2. Spec => [][A]_vars
  BY <1>1, InitInv, StepInv, PTL DEF Spec
<1>3. QED
  BY <1>2 DEF DataDelivered, A
=============================================================================
