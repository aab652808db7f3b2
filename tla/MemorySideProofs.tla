-------------------------- MODULE MemorySideProofs --------------------------
(***************************************************************************)
(* Proofs about MemorySide, for every number of ways, assignment of lines  *)
(* to sets, delay of memory, set of accesses and both store policies.      *)
(*                                                                         *)
(* The invariant says of each state machine what its state promises: what  *)
(* is being asked, for whom, and that the line asked for is not cached     *)
(* meanwhile.  Memory is only ever written with the cached copy of a line  *)
(* (MemoryTakesCopies), so that what the stores have made of a line        *)
(* changes with the data cache alone.                                      *)
(***************************************************************************)
EXTENDS MemorySide, FiniteSetTheorems, TLAPS

-----------------------------------------------------------------------------
(* What the two ways of writing a set do to the lines of a cache.          *)

(* OneCopyEach without counting.                                           *)
OneWay(sets) == \A l \in Lines : \A v, w \in hits(sets, l) : v = w

(* A line is only in the set of its index.                                 *)
InPlace(sets) ==
  \A s \in Sets : \A w \in Ways :
    sets[s].ways[w].valid => SetOf[sets[s].ways[w].line] = s

Sound(sets) == OneWay(sets) /\ InPlace(sets)

(* The properties count; the proofs compare.                               *)
LEMMA OneWayIsOneCopy ==
  ASSUME NEW sets, OneWay(sets)
  PROVE  OneCopyEach(sets)
<1> SUFFICES ASSUME NEW l \in Lines
             PROVE  Cardinality(hits(sets, l)) <= 1
  BY DEF OneCopyEach
<1>1. CASE hits(sets, l) = {}
  BY <1>1, FS_EmptySet
<1>2. CASE hits(sets, l) # {}
  <2>1. PICK w : hits(sets, l) = {w}
    BY <1>2 DEF OneWay
  <2>2. Cardinality({w}) = 1
    BY FS_Singleton
  <2> QED
    BY <2>1, <2>2
<1> QED
  BY <1>1, <1>2

LEMMA EmptySetsSound ==
  ASSUME NEW D
  PROVE  /\ EmptySets \in SetsType(D) /\ Sound(EmptySets)
         /\ \A l \in Lines : ~Cached(EmptySets, l)
<1>1. \A s \in Sets : \A w \in Ways : EmptySets[s].ways[w] = EmptyWay
  BY DEF EmptySets
<1>2. EmptySets \in SetsType(D)
  BY WaysAssumption DEF EmptySets, SetsType, WayType, Ways
<1>3. \A l \in Lines : hits(EmptySets, l) = {}
  BY <1>1 DEF hits, WaysFor, EmptyWay, Sets
<1> QED
  BY <1>1, <1>2, <1>3 DEF Sound, OneWay, InPlace, Cached, EmptyWay

(* The way of a hit is the way of the line.                                *)
LEMMA HitIs ==
  ASSUME NEW sets, OneWay(sets), NEW l \in Lines, NEW w \in hits(sets, l)
  PROVE  HitIdx(sets, l) = w
BY DEF HitIdx, OneWay

LEMMA HitType ==
  ASSUME NEW D, NEW sets \in SetsType(D), NEW l \in Lines, Cached(sets, l)
  PROVE  /\ HitIdx(sets, l) \in Ways /\ HitIdx(sets, l) \in hits(sets, l)
         /\ WaysFor(sets, l)[HitIdx(sets, l)].valid
         /\ WaysFor(sets, l)[HitIdx(sets, l)].line = l
         /\ Copy(sets, l) \in D /\ Dirty(sets, l) \in BOOLEAN
<1>1. HitIdx(sets, l) \in hits(sets, l)
  BY DEF HitIdx, Cached
<1>2. WaysFor(sets, l)[HitIdx(sets, l)] \in WayType(D)
  BY <1>1 DEF hits, WaysFor, SetsType, Sets
<1> QED
  BY <1>1, <1>2 DEF hits, WayType, EmptyWay, Copy, Dirty

(* A valid victim is the cached copy of its line.                          *)
LEMMA VictimIs ==
  ASSUME NEW D, NEW sets \in SetsType(D), Sound(sets), NEW l \in Lines,
         NEW v, v = Victim(sets, l), v.valid
  PROVE  /\ v.line \in Lines /\ v.data \in D /\ v.dirty \in BOOLEAN
         /\ SetOf[v.line] = SetOf[l] /\ ReplaceIdx(sets, l) \in hits(sets, v.line)
         /\ Cached(sets, v.line)
         /\ Copy(sets, v.line) = v.data /\ Dirty(sets, v.line) = v.dirty
<1>1. SetOf[l] \in Sets /\ ReplaceIdx(sets, l) \in Ways
  BY DEF Sets, SetsType, ReplaceIdx
<1>2. v \in WayType(D) /\ v = sets[SetOf[l]].ways[ReplaceIdx(sets, l)]
  BY <1>1 DEF Victim, WaysFor, SetsType
<1>3. v.line \in Lines /\ v.data \in D /\ v.dirty \in BOOLEAN
  BY <1>2 DEF WayType, EmptyWay
<1>4. SetOf[v.line] = SetOf[l]
  BY <1>1, <1>2 DEF Sound, InPlace
<1>5. ReplaceIdx(sets, l) \in hits(sets, v.line)
  BY <1>1, <1>2, <1>4 DEF hits, WaysFor
<1>6. HitIdx(sets, v.line) = ReplaceIdx(sets, l)
  BY <1>3, <1>5, HitIs DEF Sound
<1> QED
  BY <1>2, <1>3, <1>4, <1>5, <1>6 DEF Cached, Copy, Dirty, WaysFor

(* Writing a way changes that way.                                         *)
LEMMA WithWayIs ==
  ASSUME NEW D, NEW sets \in SetsType(D), NEW l \in Lines, NEW w \in Ways,
         NEW way \in WayType(D), NEW new, new = WithWay(sets, l, w, way)
  PROVE  /\ new \in SetsType(D)
         /\ \A s \in Sets : \A v \in Ways :
              new[s].ways[v] = IF s = SetOf[l] /\ v = w THEN way
                               ELSE sets[s].ways[v]
<1>1. SetOf[l] \in Sets
  BY DEF Sets
<1> QED
  BY <1>1 DEF WithWay, SetsType

(* A way rewritten with the line it has.                                   *)
LEMMA Rewritten ==
  ASSUME NEW D, NEW sets \in SetsType(D), Sound(sets), NEW l \in Lines,
         NEW k \in Lines, SetOf[k] = SetOf[l], NEW w \in hits(sets, k),
         NEW way \in WayType(D), way.valid, way.line = k,
         NEW new, new = WithWay(sets, l, w, way)
  PROVE  /\ new \in SetsType(D) /\ Sound(new)
         /\ \A j \in Lines :
              /\ Cached(new, j) <=> Cached(sets, j)
              /\ Cached(sets, j) =>
                   /\ Copy(new, j) = IF j = k THEN way.data ELSE Copy(sets, j)
                   /\ Dirty(new, j) = IF j = k THEN way.dirty ELSE Dirty(sets, j)
<1>1. /\ w \in Ways /\ SetOf[l] \in Sets
      /\ sets[SetOf[k]].ways[w].valid /\ sets[SetOf[k]].ways[w].line = k
  BY DEF hits, Sets, WaysFor
<1>2. /\ new \in SetsType(D)
      /\ \A s \in Sets : \A v \in Ways :
           new[s].ways[v] = IF s = SetOf[l] /\ v = w THEN way
                            ELSE sets[s].ways[v]
  BY <1>1, WithWayIs
<1>3. \A j \in Lines : hits(new, j) = hits(sets, j)
  BY <1>1, <1>2 DEF hits, WaysFor, Sets
<1>4. Sound(new)
  BY <1>1, <1>2, <1>3 DEF Sound, OneWay, InPlace
<1>5. ASSUME NEW j \in Lines, Cached(sets, j)
      PROVE  /\ Copy(new, j) = IF j = k THEN way.data ELSE Copy(sets, j)
             /\ Dirty(new, j) = IF j = k THEN way.dirty ELSE Dirty(sets, j)
  <2>1. HitIdx(new, j) = HitIdx(sets, j)
    BY <1>3 DEF HitIdx
  <2>2. HitIdx(sets, j) \in Ways /\ sets[SetOf[j]].ways[HitIdx(sets, j)].line = j
    BY <1>5, HitType DEF WaysFor
  <2>3. j = k => HitIdx(sets, j) = w
    BY HitIs DEF Sound
  <2>4. SetOf[j] = SetOf[l] /\ HitIdx(sets, j) = w => j = k
    BY <1>1, <2>2
  <2> QED
    BY <1>2, <2>1, <2>2, <2>3, <2>4 DEF Copy, Dirty, WaysFor, Sets
<1> QED
  BY <1>2, <1>3, <1>4, <1>5 DEF Cached

(* A refill of a line that is not there: it is there, the line whose way   *)
(* it takes is not, and the others are as they were.                       *)
LEMMA RefillIs ==
  ASSUME NEW D, NEW sets \in SetsType(D), Sound(sets), NEW l \in Lines,
         ~Cached(sets, l), NEW dirty \in BOOLEAN, NEW data \in D,
         NEW new, new = Refilled(sets, l, dirty, data)
  PROVE  /\ new \in SetsType(D) /\ Sound(new)
         /\ Cached(new, l) /\ Copy(new, l) = data /\ Dirty(new, l) = dirty
         /\ \A j \in Lines \ {l} :
              LET dropped == Victim(sets, l).valid /\ Victim(sets, l).line = j
              IN /\ Cached(new, j) <=> Cached(sets, j) /\ ~dropped
                 /\ Cached(new, j) => /\ Copy(new, j) = Copy(sets, j)
                                      /\ Dirty(new, j) = Dirty(sets, j)
<1> DEFINE way == [valid |-> TRUE, dirty |-> dirty, line |-> l, data |-> data]
           w == ReplaceIdx(sets, l)
           mid == WithWay(sets, l, w, way)
<1>1. /\ w \in Ways /\ SetOf[l] \in Sets
      /\ way \in WayType(D) /\ way.valid /\ way.line = l
      /\ way.data = data /\ way.dirty = dirty
  BY DEF ReplaceIdx, SetsType, Sets, WayType
<1>2. mid = WithWay(sets, l, w, way)
  OBVIOUS
<1>3. new = [mid EXCEPT ![SetOf[l]].replace_idx = (@ + 1) % WAYS]
  BY DEF Refilled
<1>4. Victim(sets, l) = sets[SetOf[l]].ways[w]
  BY DEF Victim, WaysFor
<1> HIDE DEF mid, w, way
<1>5. /\ mid \in SetsType(D)
      /\ \A s \in Sets : \A v \in Ways :
           mid[s].ways[v] = IF s = SetOf[l] /\ v = w THEN way
                            ELSE sets[s].ways[v]
  BY <1>1, <1>2, WithWayIs
<1>6. new \in SetsType(D)
  <2>1. \A i \in Ways : (i + 1) % WAYS \in Ways
    BY WaysAssumption DEF Ways
  <2>2. mid[SetOf[l]].replace_idx \in Ways
    BY <1>1, <1>5 DEF SetsType
  <2> DEFINE i == (mid[SetOf[l]].replace_idx + 1) % WAYS
  <2>3. i \in Ways /\ new = [mid EXCEPT ![SetOf[l]].replace_idx = i]
    BY <1>3, <2>1, <2>2
  <2> HIDE DEF i
  <2> QED
    BY <1>1, <1>5, <2>3 DEF SetsType
<1>7. \A s \in Sets : \A v \in Ways :
        new[s].ways[v] = IF s = SetOf[l] /\ v = w THEN way ELSE sets[s].ways[v]
  BY <1>1, <1>5, <1>3 DEF SetsType
<1>8. hits(new, l) = {w}
  BY <1>1, <1>7 DEF hits, WaysFor, Cached
<1>9. ASSUME NEW j \in Lines \ {l}
      PROVE  hits(new, j) = hits(sets, j) \ (IF SetOf[j] = SetOf[l] THEN {w} ELSE {})
  <2>1. SetOf[j] \in Sets
    BY DEF Sets
  <2>2. \A v \in Ways :
          new[SetOf[j]].ways[v] = IF SetOf[j] = SetOf[l] /\ v = w THEN way
                                  ELSE sets[SetOf[j]].ways[v]
    BY <1>7, <2>1
  <2> QED
    BY <1>1, <2>2 DEF hits, WaysFor
<1>10. Sound(new)
  BY <1>1, <1>7, <1>8, <1>9 DEF Sound, OneWay, InPlace
<1>11. Cached(new, l) /\ Copy(new, l) = data /\ Dirty(new, l) = dirty
  BY <1>1, <1>7, <1>8, <1>10, HitIs DEF Cached, Copy, Dirty, WaysFor, Sound
<1>12. ASSUME NEW j \in Lines \ {l}
       PROVE  LET dropped == Victim(sets, l).valid /\ Victim(sets, l).line = j
              IN /\ Cached(new, j) <=> Cached(sets, j) /\ ~dropped
                 /\ Cached(new, j) => /\ Copy(new, j) = Copy(sets, j)
                                      /\ Dirty(new, j) = Dirty(sets, j)
  <2> DEFINE dropped == Victim(sets, l).valid /\ Victim(sets, l).line = j
  <2>2. dropped <=> SetOf[j] = SetOf[l] /\ w \in hits(sets, j)
    BY <1>1, <1>4 DEF Sound, InPlace, hits, WaysFor
  <2>3. Cached(new, j) <=> Cached(sets, j) /\ ~dropped
    BY <1>9, <2>2 DEF Cached, Sound, OneWay
  <2>4. ASSUME Cached(new, j)
        PROVE  Copy(new, j) = Copy(sets, j) /\ Dirty(new, j) = Dirty(sets, j)
    <3>1. PICK v \in hits(new, j) : TRUE
      BY <2>4 DEF Cached
    <3>2. v \in hits(sets, j) /\ v \in Ways /\ ~(SetOf[j] = SetOf[l] /\ v = w)
      BY <1>9, <3>1 DEF hits
    <3>3. HitIdx(new, j) = v /\ HitIdx(sets, j) = v
      BY <1>10, <3>1, <3>2, HitIs DEF Sound
    <3> QED
      BY <1>7, <3>2, <3>3 DEF Copy, Dirty, WaysFor, Sets
  <2> QED
    BY <2>3, <2>4
<1> QED
  BY <1>6, <1>10, <1>11, <1>12

-----------------------------------------------------------------------------
(* The inductive invariant.                                                *)

(* What the data cache has asked for.                                      *)
DataAsks ==
  /\ dstate = "IDLE" => dfreq = NoFreq
  /\ dstate \in {"READ", "READ4WRITE"} =>
       dfreq = ReadOf(dreq.line) /\ ~Cached(dsets, dreq.line)
  /\ dstate = "EVICT" =>
       LET v == Victim(dsets, dreq.line)
       IN /\ ~Cached(dsets, dreq.line)
          /\ v.valid /\ v.dirty /\ dfreq = WriteOf(v.line, v.data)
  /\ dstate = "WRITE" =>
       /\ Cached(dsets, dreq.line)
       /\ dfreq = WriteOf(dreq.line, Copy(dsets, dreq.line))

(* The request it works on, and what is known of it by then: the victim is *)
(* clean before the refill, the store is in the copy before it is written. *)
DataWorks ==
  /\ dstate # "IDLE" => dreq # NoReq
  /\ dstate \in {"READ4WRITE", "WRITE"} => policy = "wt" /\ dreq.we
  /\ dstate = "READ" /\ policy = "wt" => ~dreq.we
  /\ dstate = "EVICT" => policy = "wb"
  /\ dstate \in {"READ", "READ4WRITE"} =>
       LET v == Victim(dsets, dreq.line) IN v.valid => ~v.dirty
  /\ dstate = "WRITE" => Copy(dsets, dreq.line)[dreq.off] = dreq.val

FetchAsks ==
  IF istate = "IDLE" THEN ifreq = NoFreq
  ELSE ifreq = ReadOf(ireq) /\ ~Cached(isets, ireq)

(* The port serves whom it has begun to serve, and only he has asked.      *)
PortInv ==
  /\ arb = "SERVING_D" => dfreq.valid
  /\ arb = "SERVING_I" => ifreq.valid
  /\ arb = "IDLE" <=> delay = 0

(* Only stores make a line dirty, and only under write-back.               *)
DirtyInv ==
  \A l \in Lines : Cached(dsets, l) /\ Dirty(dsets, l) =>
    policy = "wb" /\ l \notin CodeLines

CodeInv ==
  \A c \in CodeLines :
    /\ mem[c] = Initial[c]
    /\ Cached(isets, c) => Copy(isets, c) = Initial[c]

IInv ==
  /\ TypeOK /\ Sound(dsets) /\ Sound(isets)
  /\ DataAsks /\ DataWorks /\ FetchAsks /\ PortInv
  /\ CleanIsMemory /\ DirtyInv /\ CodeInv

LEMMA InitIInv == Init => IInv
<1> SUFFICES ASSUME Init PROVE IInv
  OBVIOUS
<1> USE DEF Init, DataCacheInit, InstrCacheInit, PortInit
<1>1. /\ dsets \in SetsType(Data) /\ Sound(dsets)
      /\ isets \in SetsType(Data) /\ Sound(isets)
      /\ \A l \in Lines : ~Cached(dsets, l) /\ ~Cached(isets, l)
  BY EmptySetsSound
<1>2. TypeOK
  BY <1>1, AccessAssumption, DelayAssumption DEF TypeOK, NoFreq
<1>3. DataAsks /\ DataWorks /\ FetchAsks /\ PortInv
  BY DEF DataAsks, DataWorks, FetchAsks, PortInv
<1>4. CleanIsMemory /\ DirtyInv /\ CodeInv
  BY <1>1, AccessAssumption DEF CleanIsMemory, DirtyInv, CodeInv
<1> QED
  BY <1>1, <1>2, <1>3, <1>4 DEF IInv

-----------------------------------------------------------------------------
(* The port and memory.                                                    *)

LEMMA RequestType ==
  ASSUME IInv, dreq # NoReq
  PROVE  /\ dreq.line \in Lines /\ dreq.off \in Offs /\ dreq.we \in BOOLEAN
         /\ dreq.val \in Values /\ (dreq.we => dreq.line \notin CodeLines)
BY AccessAssumption DEF IInv, TypeOK, Requests

(* The data cache writes to memory only the copy it has of a line.         *)
LEMMA WritesCopies ==
  ASSUME IInv, dfreq.we
  PROVE  /\ dfreq.line \in Lines \ CodeLines /\ Cached(dsets, dfreq.line)
         /\ dfreq.data = Copy(dsets, dfreq.line) /\ dfreq.data \in Data
<1>1. CASE dstate = "WRITE"
  BY <1>1, RequestType, HitType
     DEF IInv, TypeOK, DataAsks, DataWorks, WriteOf
<1>2. CASE dstate = "EVICT"
  <2> DEFINE v == Victim(dsets, dreq.line)
  <2>1. /\ dreq.line \in Lines /\ dsets \in SetsType(Data) /\ Sound(dsets)
        /\ v.valid /\ v.dirty /\ dfreq.line = v.line /\ dfreq.data = v.data
    BY <1>2, RequestType DEF IInv, TypeOK, DataWorks, DataAsks, WriteOf
  <2>2. /\ v.line \in Lines /\ v.data \in Data /\ Cached(dsets, v.line)
        /\ Copy(dsets, v.line) = v.data /\ Dirty(dsets, v.line) = v.dirty
    BY <2>1, VictimIs
  <2> QED
    BY <2>1, <2>2 DEF IInv, DirtyInv
<1>3. CASE dstate \notin {"WRITE", "EVICT"}
  BY <1>3 DEF IInv, TypeOK, DataAsks, NoFreq, ReadOf
<1> QED
  BY <1>1, <1>2, <1>3

LEMMA FetchReads ==
  ASSUME IInv
  PROVE  ~ifreq.we /\ ireq \in Lines /\ (istate = "WAIT_READ" <=> ifreq.valid)
BY AccessAssumption DEF IInv, TypeOK, FetchAsks, NoFreq, ReadOf

LEMMA DataAsksIffBusy ==
  ASSUME IInv
  PROVE  /\ dstate = "IDLE" <=> ~dfreq.valid
         /\ dfreq.we <=> dstate \in {"EVICT", "WRITE"}
BY DEF IInv, TypeOK, DataAsks, NoFreq, ReadOf, WriteOf

(* In a clock cycle memory takes over a copy from the data cache or stays  *)
(* as it is.                                                               *)
LEMMA MemoryTakesCopies ==
  ASSUME IInv, Next
  PROVE  /\ mem' \in [Lines -> Data]
         /\ \A l \in Lines :
              \/ mem'[l] = mem[l]
              \/ /\ l \notin CodeLines /\ Cached(dsets, l)
                 /\ mem'[l] = Copy(dsets, l)
         /\ d_valid /\ dfreq.we => mem'[dfreq.line] = dfreq.data
         /\ ~dfreq.we => mem' = mem
<1> DEFINE writes == serves_d(dfreq) /\ dfreq.we
<1>1. mem' = IF writes THEN [mem EXCEPT ![dfreq.line] = dfreq.data] ELSE mem
  BY FetchReads DEF Next, PortStep, MemStep, mem_req, mem_valid_o
<1>2. mem \in [Lines -> Data]
  BY DEF IInv, TypeOK
<1>3. dfreq.we => /\ dfreq.line \in Lines \ CodeLines
                  /\ Cached(dsets, dfreq.line)
                  /\ dfreq.data = Copy(dsets, dfreq.line) /\ dfreq.data \in Data
  BY WritesCopies
<1>4. d_valid => serves_d(dfreq)
  BY DEF d_valid, dc_frsp_valid
<1> QED
  BY <1>1, <1>2, <1>3, <1>4

(* What memory returns to each cache is the line it asked for.             *)
LEMMA PortAnswers ==
  ASSUME IInv
  PROVE  /\ d_valid => dstate # "IDLE" /\ rdata = mem[dfreq.line]
         /\ i_valid => istate # "IDLE" /\ rdata = mem[ireq]
         /\ ~(d_valid /\ i_valid)
<1>1. d_valid => dfreq.valid /\ rdata = mem[dfreq.line]
  BY DEF IInv, PortInv, d_valid, dc_frsp_valid, serves_d, rdata, mem_data_i, mem_req
<1>2. i_valid => ifreq.valid /\ ~d_valid /\ rdata = mem[ifreq.line]
  BY DEF IInv, PortInv, TypeOK, i_valid, ic_frsp_valid, d_valid, dc_frsp_valid,
         serves_d, serves_i, rdata, mem_data_i, mem_req
<1>3. ifreq.valid => istate # "IDLE" /\ ifreq.line = ireq
  BY DEF IInv, FetchAsks, NoFreq, ReadOf
<1> QED
  BY <1>1, <1>2, <1>3, DataAsksIffBusy
-----------------------------------------------------------------------------
(* The data cache.                                                         *)

(* What the stores have made of line l, and what a request makes of it.    *)
ImageAt(l) == IF Cached(dsets, l) THEN Copy(dsets, l) ELSE mem[l]
After(l)   == IF dreq # NoReq /\ l = dreq.line THEN Merged(ImageAt(l), dreq)
                                               ELSE ImageAt(l)

(* What a cycle has to keep of the data cache, and what it may do to the   *)
(* lines: nothing, unless the request takes effect.                        *)
DataInv ==
  /\ policy \in {"wb", "wt"} /\ dsets \in SetsType(Data) /\ Sound(dsets)
  /\ dstate \in {"IDLE", "READ", "EVICT", "READ4WRITE", "WRITE"}
  /\ dfreq.valid => dfreq.line \in Lines /\ (dfreq.we => dfreq.data \in Data)
  /\ DataAsks /\ DataWorks /\ CleanIsMemory /\ DirtyInv

DataGoal ==
  /\ DataInv'
  /\ \/ ~d_ready /\ \A l \in Lines : ImageAt(l)' = ImageAt(l)
     \/ \A l \in Lines : ImageAt(l)' = After(l)

(* The core holds a request that is not answered, and the cache is idle    *)
(* after an answer.                                                        *)
LEMMA RequestHeld ==
  ASSUME IInv, Next
  PROVE  dstate' # "IDLE" => ~d_ready /\ UNCHANGED dreq
BY DEF Next, DataCacheStep, Waits, WbIdle, WbRead, WbEvict, WtIdle, WtRead,
       WtRead4Write, WtWrite, d_ready, dreq_ready, miss, hit, IInv, TypeOK

(* A cycle that leaves the sets leaves what is known of every line, but    *)
(* for the one that has been written through.                              *)
LEMMA SetsStay ==
  ASSUME IInv, Next, UNCHANGED dsets
  PROVE  /\ DirtyInv'
         /\ \A l \in Lines : ImageAt(l)' = ImageAt(l)
         /\ \A l \in Lines : Cached(dsets, l) /\ ~Dirty(dsets, l) =>
              \/ Copy(dsets, l) = mem'[l]
              \/ dstate = "WRITE" /\ dreq.line = l
<1>1. DirtyInv'
  BY DEF IInv, DirtyInv, Next, DataCacheStep
<1>2. \A l \in Lines : ImageAt(l)' = ImageAt(l)
  BY MemoryTakesCopies DEF ImageAt
<1>3. \A l \in Lines : Cached(dsets, l) /\ ~Dirty(dsets, l) =>
        \/ Copy(dsets, l) = mem'[l]
        \/ dstate = "WRITE" /\ dreq.line = l
  BY MemoryTakesCopies DEF IInv, CleanIsMemory
<1> QED
  BY <1>1, <1>2, <1>3

LEMMA WaitsGoal ==
  ASSUME IInv, Next, Waits(d_valid)
  PROVE  DataGoal
<1>1. UNCHANGED <<policy, dsets, dstate, dfreq, dreq>> /\ dstate # "IDLE"
  BY RequestHeld DEF Waits, Next, DataCacheStep
<1>2. ~d_ready
  BY <1>1, RequestHeld
<1>3. DataAsks' /\ DataWorks'
  BY <1>1 DEF IInv, DataAsks, DataWorks
<1>4. DirtyInv' /\ CleanIsMemory' /\ \A l \in Lines : ImageAt(l)' = ImageAt(l)
  BY <1>1, SetsStay DEF CleanIsMemory
<1> QED
  BY <1>1, <1>2, <1>3, <1>4 DEF IInv, TypeOK, DataGoal, DataInv

(* A miss: the request is only passed on.                                  *)
LEMMA MissGoal ==
  ASSUME IInv, Next, dstate = "IDLE", miss(dreq),
         \/ policy = "wb" /\ WbIdle(dreq)
         \/ policy = "wt" /\ WtIdle(dreq)
  PROVE  DataGoal
<1> DEFINE v == Victim(dsets, dreq.line)
<1>1. /\ dreq # NoReq /\ ~Cached(dsets, dreq.line) /\ UNCHANGED <<policy, dsets>>
      /\ dstate' \in {"READ", "READ4WRITE", "EVICT"}
      /\ dstate' = "READ" => policy = "wb" \/ ~dreq.we
      /\ dstate' = "READ4WRITE" => policy = "wt" /\ dreq.we
      /\ dstate' = "EVICT" =>
           policy = "wb" /\ v.valid /\ v.dirty /\ dfreq' = WriteOf(v.line, v.data)
      /\ dstate' # "EVICT" => dfreq' = ReadOf(dreq.line)
      /\ dstate' = "READ" /\ policy = "wb" => ~(v.valid /\ v.dirty)
  BY RequestType
     DEF Next, DataCacheStep, WbIdle, WtIdle, miss, hit, current_valid_and_dirty
<1>2. dreq' = dreq /\ ~d_ready /\ dreq.line \in Lines
  BY <1>1, RequestHeld, RequestType
<1>3. v.valid => /\ v.line \in Lines /\ v.data \in Data
                 /\ policy = "wt" => ~v.dirty
  <2>1. v.valid => /\ v.line \in Lines /\ v.data \in Data /\ Cached(dsets, v.line)
                   /\ Dirty(dsets, v.line) = v.dirty
    BY <1>2, VictimIs DEF IInv, TypeOK
  <2> QED
    BY <2>1 DEF IInv, DirtyInv
<1>4. DataAsks' /\ DataWorks'
  BY <1>1, <1>2, <1>3 DEF DataAsks, DataWorks
<1>5. /\ DirtyInv' /\ CleanIsMemory' /\ \A l \in Lines : ImageAt(l)' = ImageAt(l)
  BY <1>1, SetsStay DEF CleanIsMemory
<1>6. dfreq'.valid => dfreq'.line \in Lines /\ (dfreq'.we => dfreq'.data \in Data)
  BY <1>1, <1>2, <1>3 DEF WriteOf, ReadOf
<1> QED
  BY <1>1, <1>2, <1>4, <1>5, <1>6 DEF IInv, TypeOK, DataGoal, DataInv

(* Nothing to do: no request, a load that hits, a store that has been      *)
(* written through.                                                        *)
LEMMA NothingToDoGoal ==
  ASSUME IInv, Next, UNCHANGED dsets, dstate' = "IDLE", dfreq' = NoFreq,
         \/ dstate = "IDLE" /\ ~miss(dreq) /\ (dreq # NoReq => ~dreq.we)
         \/ dstate = "WRITE" /\ d_valid
  PROVE  DataGoal
<1>1. policy' = policy
  BY DEF Next, DataCacheStep
<1>2. DirtyInv' /\ \A l \in Lines : ImageAt(l)' = ImageAt(l)
  BY SetsStay
<1>3. CleanIsMemory'
  <2>1. dstate = "WRITE" => mem'[dreq.line] = Copy(dsets, dreq.line)
    BY MemoryTakesCopies, DataAsksIffBusy DEF IInv, DataAsks, WriteOf
  <2> QED
    BY <2>1, SetsStay DEF CleanIsMemory
<1>4. DataAsks' /\ DataWorks'
  BY DEF DataAsks, DataWorks
<1>5. \A l \in Lines : ImageAt(l) = After(l)
  <2>1. dstate = "WRITE" =>
          /\ dreq # NoReq /\ dreq.we /\ Cached(dsets, dreq.line)
          /\ Copy(dsets, dreq.line)[dreq.off] = dreq.val
          /\ Copy(dsets, dreq.line) \in Data
    BY RequestType, HitType DEF IInv, TypeOK, DataWorks, DataAsks
  <2>2. dstate = "IDLE" => dreq = NoReq \/ ~dreq.we
    OBVIOUS
  <2> QED
    BY <2>1, <2>2 DEF After, Merged, ImageAt, Data
<1> QED
  BY <1>1, <1>2, <1>3, <1>4, <1>5 DEF IInv, TypeOK, DataGoal, DataInv, NoFreq

(* A store that hits: the copy takes the store's part.                     *)
LEMMA StoreHitGoal ==
  ASSUME IInv, Next, dstate = "IDLE", hit(dreq), dreq.we,
         \/ policy = "wb" /\ WbIdle(dreq)
         \/ policy = "wt" /\ WtIdle(dreq)
  PROVE  DataGoal
<1> DEFINE w    == HitIdx(dsets, dreq.line)
           data == Merged(Copy(dsets, dreq.line), dreq)
           way  == [valid |-> TRUE, dirty |-> (policy = "wb"),
                    line |-> dreq.line, data |-> data]
<1>1. dreq # NoReq /\ Cached(dsets, dreq.line) /\ policy' = policy /\ dfreq = NoFreq
  BY DEF hit, Next, DataCacheStep, IInv, DataAsks
<1>2. /\ dreq.line \in Lines /\ dreq.off \in Offs /\ dreq.val \in Values
      /\ dreq.line \notin CodeLines
  BY <1>1, RequestType
<1>3. Copy(dsets, dreq.line) \in Data /\ w \in hits(dsets, dreq.line)
  BY <1>1, <1>2, HitType DEF IInv, TypeOK
<1>4. /\ data = [Copy(dsets, dreq.line) EXCEPT ![dreq.off] = dreq.val]
      /\ data \in Data /\ data[dreq.off] = dreq.val
  BY <1>2, <1>3 DEF Merged, Data
<1>5. dsets' = WithWay(dsets, dreq.line, w, way)
  BY <1>1, <1>3 DEF WbIdle, WtIdle, miss, hit
<1>6. IF policy = "wb" THEN dstate' = "IDLE" /\ dfreq' = NoFreq
      ELSE dstate' = "WRITE" /\ dfreq' = WriteOf(dreq.line, data)
  BY <1>1, <1>3 DEF WbIdle, WtIdle, miss, hit
<1>7. /\ way \in WayType(Data) /\ way.valid /\ way.line = dreq.line
      /\ way.data = data /\ way.dirty = (policy = "wb")
  BY <1>2, <1>4 DEF WayType
<1> HIDE DEF w, data, way
<1>8. /\ dsets' \in SetsType(Data) /\ Sound(dsets')
      /\ \A j \in Lines :
           /\ Cached(dsets', j) <=> Cached(dsets, j)
           /\ Cached(dsets, j) =>
                /\ Copy(dsets', j) = IF j = dreq.line THEN way.data
                                     ELSE Copy(dsets, j)
                /\ Dirty(dsets', j) = IF j = dreq.line THEN way.dirty
                                      ELSE Dirty(dsets, j)
  BY <1>2, <1>3, <1>5, <1>7, Rewritten DEF IInv, TypeOK
<1>9. mem' = mem
  BY <1>1, MemoryTakesCopies DEF NoFreq
<1>10. dstate' # "IDLE" => dreq' = dreq
  BY RequestHeld
<1>11. DataAsks' /\ DataWorks'
  BY <1>1, <1>2, <1>4, <1>6, <1>7, <1>8, <1>10 DEF DataAsks, DataWorks
<1>12. DirtyInv'
  BY <1>1, <1>2, <1>7, <1>8 DEF DirtyInv, IInv
<1>13. CleanIsMemory'
  <2>1. \A l \in Lines : Cached(dsets, l) /\ ~Dirty(dsets, l) =>
          Copy(dsets, l) = mem[l]
    BY DEF IInv, CleanIsMemory
  <2>2. policy = "wt" => dstate' = "WRITE" /\ dreq' = dreq
    BY <1>6, <1>10
  <2>3. policy # "wt" => policy = "wb"
    BY DEF IInv, TypeOK
  <2> QED
    BY <1>7, <1>8, <1>9, <2>1, <2>2, <2>3 DEF CleanIsMemory
<1>14. \A l \in Lines : ImageAt(l)' = After(l)
  BY <1>1, <1>7, <1>8, <1>9 DEF ImageAt, After, data
<1>15. dfreq'.valid => dfreq'.line \in Lines /\ (dfreq'.we => dfreq'.data \in Data)
  BY <1>2, <1>4, <1>6 DEF NoFreq, WriteOf
<1> QED
  BY <1>1, <1>6, <1>8, <1>11, <1>12, <1>13, <1>14, <1>15
     DEF IInv, TypeOK, DataGoal, DataInv

(* An evicted way has reached memory and is clean.                         *)
LEMMA EvictGoal ==
  ASSUME IInv, Next, policy = "wb", WbEvict(dreq, d_valid)
  PROVE  DataGoal
<1> DEFINE v   == Victim(dsets, dreq.line)
           way == [v EXCEPT !.dirty = FALSE]
<1>1. /\ dstate = "EVICT" /\ d_valid /\ dstate' = "READ"
      /\ dfreq' = ReadOf(dreq.line)
      /\ dsets' = WithWay(dsets, dreq.line, ReplaceIdx(dsets, dreq.line), way)
      /\ policy' = policy
  BY DEF WbEvict, Next, DataCacheStep
<1>2. /\ dreq # NoReq /\ ~Cached(dsets, dreq.line) /\ v.valid /\ v.dirty
      /\ dfreq = WriteOf(v.line, v.data)
  BY <1>1 DEF IInv, DataAsks, DataWorks
<1>3. dreq.line \in Lines /\ dreq' = dreq /\ ~d_ready
  BY <1>1, <1>2, RequestType, RequestHeld
<1>4. /\ v.line \in Lines /\ v.data \in Data
      /\ SetOf[v.line] = SetOf[dreq.line]
      /\ ReplaceIdx(dsets, dreq.line) \in hits(dsets, v.line)
      /\ Cached(dsets, v.line) /\ Copy(dsets, v.line) = v.data
  BY <1>2, <1>3, VictimIs DEF IInv, TypeOK
<1>5. v \in WayType(Data)
  BY <1>3 DEF IInv, TypeOK, SetsType, Sets, Victim, WaysFor, ReplaceIdx
<1>6. /\ way \in WayType(Data) /\ way.valid /\ way.line = v.line
      /\ way.data = v.data /\ ~way.dirty
  <2>1. v \in [valid : BOOLEAN, dirty : BOOLEAN, line : Lines, data : Data]
    BY <1>2, <1>5 DEF WayType, EmptyWay
  <2> HIDE DEF v
  <2> QED
    BY <1>2, <2>1 DEF WayType
<1> HIDE DEF v, way
<1>7. /\ dsets' \in SetsType(Data) /\ Sound(dsets')
      /\ \A j \in Lines :
           /\ Cached(dsets', j) <=> Cached(dsets, j)
           /\ Cached(dsets, j) =>
                /\ Copy(dsets', j) = IF j = v.line THEN way.data
                                     ELSE Copy(dsets, j)
                /\ Dirty(dsets', j) = IF j = v.line THEN way.dirty
                                      ELSE Dirty(dsets, j)
  BY <1>1, <1>3, <1>4, <1>6, Rewritten DEF IInv, TypeOK
<1>8. mem'[v.line] = v.data
  BY <1>1, <1>2, MemoryTakesCopies DEF WriteOf
<1>9. Victim(dsets', dreq.line) = way
  <2>1. \A s \in Sets : \A u \in Ways :
          dsets'[s].ways[u] = IF s = SetOf[dreq.line] /\ u = ReplaceIdx(dsets, dreq.line)
                             THEN way ELSE dsets[s].ways[u]
    BY <1>1, <1>3, <1>4, <1>6, WithWayIs DEF hits, IInv, TypeOK
  <2>2. /\ SetOf[dreq.line] \in Sets /\ ReplaceIdx(dsets, dreq.line) \in Ways
        /\ ReplaceIdx(dsets', dreq.line) = ReplaceIdx(dsets, dreq.line)
    BY <1>1, <1>3, <1>4 DEF Sets, hits, ReplaceIdx, WithWay, IInv, TypeOK, SetsType
  <2> QED
    BY <2>1, <2>2 DEF Victim, WaysFor
<1>10. DataAsks' /\ DataWorks'
  BY <1>1, <1>2, <1>3, <1>6, <1>7, <1>9 DEF DataAsks, DataWorks
<1>11. DirtyInv'
  BY <1>1, <1>6, <1>7 DEF DirtyInv, IInv
<1>12. CleanIsMemory'
  <2>1. \A l \in Lines : Cached(dsets, l) /\ ~Dirty(dsets, l) =>
          Copy(dsets, l) = mem'[l]
    BY <1>1, MemoryTakesCopies DEF IInv, CleanIsMemory
  <2> QED
    BY <1>6, <1>7, <1>8, <2>1 DEF CleanIsMemory
<1>13. \A l \in Lines : ImageAt(l)' = ImageAt(l)
  BY <1>4, <1>6, <1>7, MemoryTakesCopies DEF ImageAt
<1> QED
  BY <1>1, <1>3, <1>7, <1>10, <1>11, <1>12, <1>13
     DEF IInv, TypeOK, DataGoal, DataInv, ReadOf

(* A refill: the line it drops is clean, so memory has it.                 *)
LEMMA RefillGoal ==
  ASSUME IInv, Next, d_valid,
         \/ policy = "wb" /\ WbRead(dreq, d_valid, rdata)
         \/ policy = "wt" /\ WtRead(dreq, d_valid, rdata)
         \/ policy = "wt" /\ WtRead4Write(dreq, d_valid, rdata)
  PROVE  DataGoal
<1> DEFINE v     == Victim(dsets, dreq.line)
           data  == Merged(rdata, dreq)
           dirty == policy = "wb" /\ dreq.we
<1>1. /\ dstate \in {"READ", "READ4WRITE"} /\ policy' = policy
      /\ dreq # NoReq /\ ~Cached(dsets, dreq.line)
      /\ dfreq = ReadOf(dreq.line) /\ (v.valid => ~v.dirty)
  BY DEF WbRead, WtRead, WtRead4Write, IInv, DataAsks, DataWorks, Next, DataCacheStep
<1>2. /\ dreq.line \in Lines /\ dreq.off \in Offs /\ dreq.val \in Values
      /\ dreq.we \in BOOLEAN /\ (dreq.we => dreq.line \notin CodeLines)
  BY <1>1, RequestType
<1>3. rdata = mem[dreq.line] /\ rdata \in Data /\ mem' = mem
  BY <1>1, <1>2, PortAnswers, MemoryTakesCopies DEF IInv, TypeOK, ReadOf
<1>4. data \in Data /\ (dreq.we => data[dreq.off] = dreq.val)
  BY <1>2, <1>3 DEF Merged, Data
<1>5. dirty \in BOOLEAN /\ dsets' = Refilled(dsets, dreq.line, dirty, data)
  BY <1>1, <1>2 DEF WbRead, WtRead, WtRead4Write, IInv, DataWorks, Merged
<1>6. IF dstate = "READ4WRITE"
      THEN dstate' = "WRITE" /\ dfreq' = WriteOf(dreq.line, data) /\ policy = "wt"
           /\ dreq.we
      ELSE dstate' = "IDLE" /\ dfreq' = NoFreq
  BY DEF WbRead, WtRead, WtRead4Write, IInv, DataWorks
<1>7. v.valid => /\ v.line \in Lines /\ Cached(dsets, v.line)
                 /\ Copy(dsets, v.line) = v.data /\ ~Dirty(dsets, v.line)
  BY <1>1, <1>2, VictimIs DEF IInv, TypeOK
<1> HIDE DEF data, dirty
<1>8. /\ dsets' \in SetsType(Data) /\ Sound(dsets')
      /\ Cached(dsets', dreq.line) /\ Copy(dsets', dreq.line) = data
      /\ Dirty(dsets', dreq.line) = dirty
      /\ \A j \in Lines \ {dreq.line} :
           LET dropped == v.valid /\ v.line = j
           IN /\ Cached(dsets', j) <=> Cached(dsets, j) /\ ~dropped
              /\ Cached(dsets', j) => /\ Copy(dsets', j) = Copy(dsets, j)
                                      /\ Dirty(dsets', j) = Dirty(dsets, j)
  BY <1>1, <1>2, <1>4, <1>5, RefillIs DEF IInv, TypeOK
<1> HIDE DEF v
<1>9. dstate' # "IDLE" => dreq' = dreq
  BY RequestHeld
<1>10. DataAsks' /\ DataWorks'
  BY <1>1, <1>4, <1>6, <1>8, <1>9 DEF DataAsks, DataWorks
<1>11. DirtyInv'
  BY <1>1, <1>2, <1>8 DEF DirtyInv, IInv, dirty
<1>12. \A l \in Lines : Cached(dsets, l) /\ ~Dirty(dsets, l) =>
         Copy(dsets, l) = mem[l]
  BY <1>1 DEF IInv, CleanIsMemory
<1>13. CleanIsMemory'
  <2>1. ~dirty => data = mem[dreq.line] \/ (dstate' = "WRITE" /\ dreq' = dreq)
    <3>1. CASE dstate = "READ"
      <4>1. ~dirty => ~dreq.we
        BY <1>2, <3>1 DEF dirty, IInv, TypeOK, DataWorks
      <4> QED
        BY <1>3, <4>1 DEF data, Merged
    <3>2. CASE dstate = "READ4WRITE"
      BY <1>6, <1>9, <3>2
    <3> QED
      BY <1>1, <3>1, <3>2
  <2> QED
    BY <1>3, <1>8, <1>12, <2>1 DEF CleanIsMemory
<1>14. \A l \in Lines : ImageAt(l)' = After(l)
  BY <1>1, <1>3, <1>7, <1>8, <1>12 DEF ImageAt, After, data
<1>15. dfreq'.valid => dfreq'.line \in Lines /\ (dfreq'.we => dfreq'.data \in Data)
  BY <1>2, <1>4, <1>6 DEF NoFreq, WriteOf
<1> QED
  BY <1>1, <1>6, <1>8, <1>10, <1>11, <1>13, <1>14, <1>15
     DEF IInv, TypeOK, DataGoal, DataInv

LEMMA DataStep ==
  ASSUME IInv, Next
  PROVE  DataGoal
<1>1. DataCacheStep(dreq, d_valid, rdata)
  BY DEF Next
<1>2. CASE Waits(d_valid)
  BY <1>2, WaitsGoal
<1>3. CASE policy = "wb" /\ WbIdle(dreq)
  <2> dstate = "IDLE"
    BY <1>3 DEF WbIdle
  <2>1. CASE miss(dreq)
    BY <1>3, <2>1, MissGoal
  <2>2. CASE ~miss(dreq) /\ dreq # NoReq /\ dreq.we
    <3>1. hit(dreq)
      BY <2>2 DEF miss, hit
    <3> QED
      BY <1>3, <2>2, <3>1, StoreHitGoal
  <2>3. CASE ~miss(dreq) /\ (dreq # NoReq => ~dreq.we)
    BY <1>3, <2>3, NothingToDoGoal DEF WbIdle
  <2> QED
    BY <2>1, <2>2, <2>3
<1>4. CASE policy = "wt" /\ WtIdle(dreq)
  <2> dstate = "IDLE"
    BY <1>4 DEF WtIdle
  <2>1. CASE miss(dreq)
    BY <1>4, <2>1, MissGoal
  <2>2. CASE hit(dreq) /\ dreq.we
    BY <1>4, <2>2, StoreHitGoal
  <2>3. CASE dreq = NoReq \/ (hit(dreq) /\ ~dreq.we)
    BY <1>4, <2>3, NothingToDoGoal DEF WtIdle, miss, hit
  <2> QED
    BY <2>1, <2>2, <2>3 DEF miss, hit
<1>5. CASE policy = "wb" /\ WbEvict(dreq, d_valid)
  BY <1>5, EvictGoal
<1>6. CASE \/ policy = "wb" /\ WbRead(dreq, d_valid, rdata)
           \/ policy = "wt" /\ WtRead(dreq, d_valid, rdata)
           \/ policy = "wt" /\ WtRead4Write(dreq, d_valid, rdata)
  BY <1>6, RefillGoal DEF WbRead, WtRead, WtRead4Write
<1>7. CASE policy = "wt" /\ WtWrite(d_valid)
  BY <1>7, NothingToDoGoal DEF WtWrite
<1> QED
  BY <1>1, <1>2, <1>3, <1>4, <1>5, <1>6, <1>7 DEF DataCacheStep

-----------------------------------------------------------------------------
(* The instruction cache and the port.                                     *)

LEMMA FetchStep ==
  ASSUME IInv, Next
  PROVE  /\ isets' \in SetsType(Data) /\ Sound(isets')
         /\ istate' \in {"IDLE", "WAIT_READ"} /\ ireq' \in CodeLines
         /\ FetchAsks' /\ CodeInv'
<1>1. ireq \in Lines /\ ireq \in CodeLines /\ mem[ireq] = Initial[ireq]
  BY AccessAssumption DEF IInv, TypeOK, CodeInv
<1>2. /\ ireq' \in CodeLines
      /\ istate' # "IDLE" => ireq' = ireq
  BY <1>1 DEF Next, i_ready, icache_ready, InstrCacheStep, IcIdle, IcRead, IcWaits,
          icvars
<1>3. \A c \in CodeLines : mem'[c] = Initial[c]
  BY MemoryTakesCopies, AccessAssumption DEF IInv, CodeInv
<1>4. CASE UNCHANGED isets
  <2>1. istate' \in {"IDLE", "WAIT_READ"} /\ FetchAsks'
    BY <1>2, <1>4 DEF Next, InstrCacheStep, IcIdle, IcRead, IcWaits, icvars, IInv,
                      TypeOK, FetchAsks
  <2> QED
    BY <1>2, <1>3, <1>4, <2>1 DEF IInv, TypeOK, CodeInv
<1>5. CASE IcRead(ireq, i_valid, rdata)
  <2>1. /\ istate = "WAIT_READ" /\ istate' = "IDLE" /\ ifreq' = NoFreq
        /\ isets' = Refilled(isets, ireq, FALSE, rdata) /\ rdata = mem[ireq]
        /\ ~Cached(isets, ireq)
    BY <1>5, PortAnswers DEF IcRead, IInv, FetchAsks
  <2>2. rdata \in Data /\ rdata = Initial[ireq]
    BY <1>1, <2>1 DEF IInv, TypeOK
  <2>3. /\ isets' \in SetsType(Data) /\ Sound(isets')
        /\ Copy(isets', ireq) = rdata
        /\ \A j \in Lines \ {ireq} : Cached(isets', j) =>
             Cached(isets, j) /\ Copy(isets', j) = Copy(isets, j)
    <3>1. PICK dirty \in BOOLEAN : dirty = FALSE
      OBVIOUS
    <3>2. isets' = Refilled(isets, ireq, dirty, rdata)
      BY <2>1, <3>1
    <3>3. isets \in SetsType(Data) /\ Sound(isets)
      BY DEF IInv, TypeOK
    <3>4. ~Cached(isets, ireq)
      BY <2>1
    <3> QED
      BY <1>1, <2>2, <3>2, <3>3, <3>4, RefillIs
  <2>4. CodeInv'
    BY <1>3, <2>2, <2>3, AccessAssumption DEF CodeInv, IInv
  <2> QED
    BY <1>2, <2>1, <2>3, <2>4 DEF FetchAsks
<1> QED
  BY <1>4, <1>5 DEF Next, InstrCacheStep, IcIdle, IcWaits, icvars

(* A cache that is being served and has no answer yet goes on asking for   *)
(* the same.                                                               *)
LEMMA AsksOn ==
  ASSUME IInv, Next
  PROVE  /\ dfreq.valid /\ ~d_valid => UNCHANGED <<dfreq, dstate>>
         /\ ifreq.valid /\ ~i_valid => UNCHANGED <<ifreq, istate>>
<1>1. dfreq.valid /\ ~d_valid => UNCHANGED <<dfreq, dstate>>
  BY DataAsksIffBusy DEF Next, DataCacheStep, Waits, WbIdle, WtIdle, WbRead, WbEvict,
                         WtRead, WtRead4Write, WtWrite
<1>2. ifreq.valid /\ ~i_valid => UNCHANGED <<ifreq, istate>>
  BY FetchReads DEF Next, InstrCacheStep, IcIdle, IcRead, IcWaits, icvars
<1> QED
  BY <1>1, <1>2

LEMMA PortStepInv ==
  ASSUME IInv, Next
  PROVE  /\ arb' \in {"IDLE", "SERVING_D", "SERVING_I"}
         /\ delay' \in 0 .. DELAYER_LEN /\ PortInv'
<1> USE DEF mem_valid_i, serves_d, serves_i, mem_valid_o
<1>1. PortStep(dfreq, ifreq) /\ PortInv
  BY DEF Next, IInv
<1>2. arb \in {"IDLE", "SERVING_D", "SERVING_I"} /\ delay \in 0 .. DELAYER_LEN
  BY DEF IInv, TypeOK
<1>3. arb' \in {"IDLE", "SERVING_D", "SERVING_I"} /\ delay' \in 0 .. DELAYER_LEN
  BY <1>1, <1>2, DelayAssumption DEF PortStep, ArbStep, DelayStep
<1>4. arb' = "IDLE" <=> delay' = 0
  BY <1>1, <1>2, DelayAssumption DEF PortStep, ArbStep, DelayStep, PortInv
<1>5. arb' = "SERVING_D" => dfreq'.valid
  <2>1. arb' = "SERVING_D" => dfreq.valid /\ ~d_valid
    BY <1>1, <1>2, DelayAssumption
       DEF PortStep, ArbStep, PortInv, d_valid, dc_frsp_valid
  <2> QED
    BY <2>1, AsksOn
<1>6. arb' = "SERVING_I" => ifreq'.valid
  <2>1. arb' = "SERVING_I" => ifreq.valid /\ ~i_valid
    BY <1>1, <1>2, DelayAssumption
       DEF PortStep, ArbStep, PortInv, i_valid, ic_frsp_valid
  <2> QED
    BY <2>1, AsksOn
<1> QED
  BY <1>3, <1>4, <1>5, <1>6 DEF PortInv

LEMMA NextIInv ==
  ASSUME IInv, [Next]_msvars
  PROVE  IInv'
<1>1. CASE Next
  <2>1. DataInv'
    BY <1>1, DataStep DEF DataGoal
  <2>2. dreq' \in Accesses \cup {NoReq}
    BY <1>1 DEF Next, IInv, TypeOK
  <2>3. mem' \in [Lines -> Data]
    BY <1>1, MemoryTakesCopies
  <2> QED
    BY <1>1, <2>1, <2>2, <2>3, FetchStep, PortStepInv DEF IInv, TypeOK, DataInv
<1>2. CASE UNCHANGED msvars
  BY <1>2 DEF msvars, dcvars, icvars, portvars, IInv, TypeOK, DataAsks, DataWorks,
              FetchAsks, PortInv, CleanIsMemory, DirtyInv, CodeInv
<1> QED
  BY <1>1, <1>2

-----------------------------------------------------------------------------
(* Invariants.                                                             *)

LEMMA Invariance == Spec => []IInv
<1> QED
  BY InitIInv, NextIInv, PTL DEF Spec

(* Every variable keeps its type.                                          *)
THEOREM TypeCorrect == Spec => []TypeOK
<1>1. IInv => TypeOK
  BY DEF IInv
<1> QED
  BY <1>1, Invariance, PTL

(* A refill never brings a line that one of the ways has already: the line *)
(* is still missing when its answer comes, however long that takes         *)
(* (dcache_engine_wb.sv:113-175, icache.sv).                               *)
THEOREM OneCopyInvariant == Spec => []OneCopy
<1>1. IInv => OneCopy
  BY OneWayIsOneCopy DEF IInv, OneCopy, Sound
<1> QED
  BY <1>1, Invariance, PTL

(* What is not dirty can be dropped.                                       *)
THEOREM CleanIsMemoryInvariant == Spec => []CleanIsMemory
<1>1. IInv => CleanIsMemory
  BY DEF IInv
<1> QED
  BY <1>1, Invariance, PTL

(* A load is answered with what the stores before it left.                 *)
THEOREM LoadReturnsImageInvariant == Spec => []LoadReturnsImage
<1>1. ASSUME IInv, d_ready, dreq # NoReq, ~dreq.we
      PROVE  drsp_data(dreq, rdata) = Image[dreq.line][dreq.off]
  <2>1. dreq.line \in Lines
    BY <1>1, RequestType
  <2>2. CASE dstate = "IDLE"
    <3>1. Cached(dsets, dreq.line)
      BY <1>1, <2>2, PortAnswers DEF d_ready, dreq_ready, miss
    <3> QED
      BY <2>1, <2>2, <3>1 DEF drsp_data, Image
  <2>3. CASE dstate = "READ"
    <3>1. ~Cached(dsets, dreq.line) /\ rdata = mem[dreq.line]
      BY <1>1, <2>3, PortAnswers DEF d_ready, dreq_ready, IInv, DataAsks, ReadOf
    <3> QED
      BY <2>1, <2>3, <3>1 DEF drsp_data, Image
  <2>4. dstate \in {"IDLE", "READ"}
    BY <1>1 DEF d_ready, dreq_ready, IInv, DataWorks
  <2> QED
    BY <2>2, <2>3, <2>4
<1>2. IInv => LoadReturnsImage
  BY <1>1 DEF LoadReturnsImage
<1> QED
  BY <1>2, Invariance, PTL

(* Fetch is answered with the line it asked for, unchanged since reset.    *)
THEOREM FetchReturnsCodeInvariant == Spec => []FetchReturnsCode
<1>1. IInv => FetchReturnsCode
  <2> SUFFICES ASSUME IInv, i_ready
               PROVE  icache_data(ireq, rdata) = Initial[ireq]
    BY DEF FetchReturnsCode
  <2>1. ireq \in CodeLines
    BY DEF IInv, TypeOK
  <2> QED
    BY <2>1, PortAnswers DEF i_ready, icache_ready, icache_data, IInv, CodeInv
<1> QED
  BY <1>1, Invariance, PTL

-----------------------------------------------------------------------------
(* Steps.                                                                  *)

(* Memory works on one request from its first cycle, before the arbiter's  *)
(* state says whom it serves, to its answer (memory_arbitrer.sv:56-90).    *)
THEOREM PortServesOneTheorem == Spec => PortServesOne
<1> DEFINE Req  == mem_req(dfreq, ifreq)
           Kept == mem_valid_o(dfreq, ifreq) /\ ~mem_valid_i => Req' = Req
<1>1. ASSUME IInv, Next, mem_valid_o(dfreq, ifreq), ~mem_valid_i
      PROVE  Req' = Req
  <2>1. ArbStep(dfreq, ifreq) /\ ~d_valid /\ ~i_valid
    BY <1>1 DEF Next, PortStep, d_valid, i_valid, dc_frsp_valid, ic_frsp_valid
  <2>2. arb \in {"IDLE", "SERVING_D", "SERVING_I"} /\ PortInv
    BY <1>1 DEF IInv, TypeOK
  <2>3. CASE serves_d(dfreq)
    <3>1. dfreq.valid /\ arb' = "SERVING_D"
      BY <1>1, <2>1, <2>2, <2>3 DEF serves_d, PortInv, ArbStep
    <3> QED
      BY <1>1, <2>1, <2>3, <3>1, AsksOn DEF mem_req, serves_d
  <2>4. CASE ~serves_d(dfreq) /\ serves_i(dfreq, ifreq)
    <3>1. ifreq.valid /\ arb' = "SERVING_I"
      BY <1>1, <2>1, <2>2, <2>4 DEF serves_i, serves_d, PortInv, ArbStep
    <3> QED
      BY <1>1, <2>1, <2>4, <3>1, AsksOn DEF mem_req, serves_d
  <2> QED
    BY <1>1, <2>3, <2>4 DEF mem_valid_o
<1>2. IInv /\ [Next]_msvars => [Kept]_msvars
  BY <1>1
<1> QED
  BY <1>2, Invariance, PTL DEF Spec, PortServesOne

-----------------------------------------------------------------------------
(* Refinement: the data cache is a memory.                                 *)

(* A cycle in which the request takes effect leaves the image a step of    *)
(* the memory makes.                                                       *)
LEMMA EffectIsAfter ==
  ASSUME IInv, \A l \in Lines : ImageAt(l)' = After(l)
  PROVE  Image' = DM!Effect(dreq)
<1>1. Image' = [l \in Lines |-> After(l)]
  BY DEF Image, ImageAt
<1>2. Image = [l \in Lines |-> ImageAt(l)]
  BY DEF Image, ImageAt
<1>3. CASE dreq # NoReq /\ dreq.we
  <2>1. dreq.line \in Lines
    BY <1>3, RequestType
  <2>2. DM!Effect(dreq) =
          [Image EXCEPT ![dreq.line] = [@ EXCEPT ![dreq.off] = dreq.val]]
    BY <1>3 DEF DM!Effect
  <2> QED
    BY <1>1, <1>2, <1>3, <2>1, <2>2 DEF After, Merged
<1>4. CASE ~(dreq # NoReq /\ dreq.we)
  BY <1>1, <1>2, <1>4 DEF DM!Effect, After, Merged
<1> QED
  BY <1>3, <1>4

(* The data cache behind the shared port implements DataMemory: every      *)
(* cycle is a stutter, the store of the request, or its answer.            *)
THEOREM Implementation == Spec => ImplementsDataMemory
<1>1. Init => DM!Init
  BY DEF Init, DM!Init
<1>2. ASSUME IInv, [Next]_msvars
      PROVE  [DM!Next]_DM!dmvars
  <2>1. CASE Next
    <3>1. d_ready => dreq' \in Requests \cup {NoReq}
      BY <2>1, AccessAssumption DEF Next
    <3>2. ~d_ready => dreq' = dreq
      BY <2>1 DEF Next
    <3>3. CASE ~d_ready /\ \A l \in Lines : ImageAt(l)' = ImageAt(l)
      <4>1. Image' = Image
        BY <3>3 DEF Image, ImageAt
      <4> QED
        BY <3>2, <3>3, <4>1 DEF DM!dmvars
    <3>4. CASE \A l \in Lines : ImageAt(l)' = After(l)
      <4>1. Image' = DM!Effect(dreq)
        BY <1>2, <3>4, EffectIsAfter
      <4> QED
        BY <3>1, <3>2, <4>1 DEF DM!Next, DM!Apply, DM!Answer
    <3> QED
      BY <1>2, <2>1, <3>3, <3>4, DataStep DEF DataGoal
  <2>2. CASE UNCHANGED msvars
    BY <2>2 DEF msvars, dcvars, icvars, portvars, DM!dmvars, Image
  <2> QED
    BY <1>2, <2>1, <2>2
<1> QED
  BY <1>1, <1>2, Invariance, PTL DEF Spec, ImplementsDataMemory, DM!Spec

-----------------------------------------------------------------------------
(* Waiting.                                                                *)

(* How far a transaction has got.                                          *)
LEMMA BusyBounds ==
  ASSUME IInv
  PROVE  PortBusy \in 0 .. DELAYER_LEN + 1
BY DelayAssumption DEF IInv, TypeOK, PortBusy

(* A transaction without an answer gets on.                                *)
LEMMA BusyFalls ==
  ASSUME IInv, Next, mem_valid_o(dfreq, ifreq), ~mem_valid_i
  PROVE  /\ arb' = IF serves_d(dfreq) THEN "SERVING_D" ELSE "SERVING_I"
         /\ PortBusy' < PortBusy
<1>1. /\ arb \in {"IDLE", "SERVING_D", "SERVING_I"} /\ delay \in 0 .. DELAYER_LEN
      /\ PortInv /\ PortStep(dfreq, ifreq)
  BY DEF IInv, TypeOK, Next
<1>2. arb' = IF serves_d(dfreq) THEN "SERVING_D" ELSE "SERVING_I"
  BY <1>1 DEF PortStep, ArbStep, mem_valid_o, serves_d, serves_i
<1>3. delay' = delay + 1
  BY <1>1, DelayAssumption DEF PortStep, DelayStep, mem_valid_i
<1>4. mem_valid_o(dfreq, ifreq)'
  BY <1>2 DEF mem_valid_o, serves_d, serves_i
<1> QED
  BY <1>1, <1>2, <1>3, <1>4, DelayAssumption DEF PortBusy

LEMMA AnswerFreesPort ==
  ASSUME IInv, Next, mem_valid_o(dfreq, ifreq), mem_valid_i
  PROVE  arb' = "IDLE"
BY DelayAssumption
   DEF IInv, TypeOK, PortInv, Next, PortStep, ArbStep, mem_valid_i

(* A turn outweighs what is left of a transaction.                         *)
LEMMA TurnsOutweigh ==
  ASSUME NEW a \in 0 .. 4, NEW b \in 0 .. 4,
         NEW p \in 0 .. DELAYER_LEN + 1, NEW q \in 0 .. DELAYER_LEN + 1,
         b < a \/ (b = a /\ q < p)
  PROVE  b * Transaction + q < a * Transaction + p
<1> DEFINE T == Transaction
<1>1. T \in Nat /\ T > DELAYER_LEN + 1
  BY DelayAssumption DEF Transaction
<1> HIDE DEF T
<1>2. /\ \/ a = 0 /\ a * T = 0
         \/ a = 1 /\ a * T = T
         \/ a = 2 /\ a * T = T + T
         \/ a = 3 /\ a * T = T + T + T
         \/ a = 4 /\ a * T = T + T + T + T
      /\ \/ b = 0 /\ b * T = 0
         \/ b = 1 /\ b * T = T
         \/ b = 2 /\ b * T = T + T
         \/ b = 3 /\ b * T = T + T + T
         \/ b = 4 /\ b * T = T + T + T + T
  BY <1>1
<1> DEFINE aT == a * T
           bT == b * T
<1> HIDE DEF aT, bT
<1>3. /\ \/ a = 0 /\ aT = 0
         \/ a = 1 /\ aT = T
         \/ a = 2 /\ aT = T + T
         \/ a = 3 /\ aT = T + T + T
         \/ a = 4 /\ aT = T + T + T + T
      /\ \/ b = 0 /\ bT = 0
         \/ b = 1 /\ bT = T
         \/ b = 2 /\ bT = T + T
         \/ b = 3 /\ bT = T + T + T
         \/ b = 4 /\ bT = T + T + T + T
  BY <1>2 DEF aT, bT
<1>4. bT + q < aT + p
  BY <1>1, <1>3, DelayAssumption
<1> QED
  BY <1>4 DEF aT, bT, T

(* A data request that is not answered has fewer transactions to wait for  *)
(* after the cycle, or as many of which the first has got on.              *)
LEMMA DataTurnsFall ==
  ASSUME IInv, IInv', Next, ~d_ready
  PROVE  DataTurns' < DataTurns \/ (DataTurns' = DataTurns /\ PortBusy' < PortBusy)
<1>1. /\ dstate \in {"IDLE", "READ", "EVICT", "READ4WRITE", "WRITE"}
      /\ arb \in {"IDLE", "SERVING_D", "SERVING_I"} /\ PortInv
  BY DEF IInv, TypeOK
<1>2. CASE dstate = "IDLE"
  <2>1. dstate' # "IDLE"
    BY <1>2 DEF Next, DataCacheStep, Waits, WbIdle, WbRead, WbEvict, WtIdle, WtRead,
                WtRead4Write, WtWrite, d_ready, dreq_ready, miss, hit
  <2> QED
    BY <1>2, <2>1 DEF DataTurns
<1>3. CASE dstate # "IDLE" /\ d_valid
  <2>1. dstate \in {"EVICT", "READ4WRITE"} /\ dstate' \in {"READ", "WRITE"}
    BY <1>1, <1>3
       DEF Next, DataCacheStep, Waits, WbIdle, WbRead, WbEvict, WtIdle, WtRead,
           WtRead4Write, WtWrite, d_ready, dreq_ready, IInv, DataWorks
  <2>2. arb' = "IDLE"
    BY <1>3, AnswerFreesPort DEF d_valid, dc_frsp_valid, mem_valid_o
  <2> QED
    BY <2>1, <2>2 DEF DataTurns
<1>4. CASE dstate # "IDLE" /\ ~d_valid
  <2>1. dstate' = dstate /\ dfreq.valid /\ mem_valid_o(dfreq, ifreq)
    BY <1>1, <1>4, AsksOn, DataAsksIffBusy DEF mem_valid_o, serves_d, serves_i
  <2>2. CASE mem_valid_i
    <3>1. arb = "SERVING_I" /\ arb' = "IDLE"
      BY <1>1, <1>4, <2>1, <2>2, AnswerFreesPort DEF d_valid, dc_frsp_valid, serves_d
    <3> QED
      BY <1>1, <1>4, <2>1, <3>1 DEF DataTurns
  <2>3. CASE ~mem_valid_i
    <3>1. /\ (arb' = "SERVING_I") <=> (arb = "SERVING_I")
          /\ PortBusy' < PortBusy
      BY <1>1, <2>1, <2>3, BusyFalls DEF serves_d
    <3> QED
      BY <2>1, <3>1 DEF DataTurns
  <2> QED
    BY <2>2, <2>3
<1> QED
  BY <1>2, <1>3, <1>4

LEMMA FetchTurnsFall ==
  ASSUME IInv, IInv', Next, ~i_ready
  PROVE  \/ FetchTurns' < FetchTurns
         \/ FetchTurns' = FetchTurns /\ PortBusy' < PortBusy
<1>1. /\ dstate \in {"IDLE", "READ", "EVICT", "READ4WRITE", "WRITE"}
      /\ istate \in {"IDLE", "WAIT_READ"}
      /\ arb \in {"IDLE", "SERVING_D", "SERVING_I"} /\ PortInv
  BY DEF IInv, TypeOK
<1>2. istate' = "WAIT_READ"
  BY <1>1 DEF Next, InstrCacheStep, IcIdle, IcRead, IcWaits, icvars, i_ready,
              icache_ready
<1>3. CASE istate = "IDLE"
  BY <1>2, <1>3 DEF FetchTurns
<1>4. CASE istate = "WAIT_READ" /\ serves_d(dfreq)
  <2>1. mem_valid_o(dfreq, ifreq) /\ dfreq.valid /\ dstate # "IDLE"
        /\ arb # "SERVING_I"
    BY <1>1, <1>4, DataAsksIffBusy DEF mem_valid_o, PortInv, serves_d
  <2>2. CASE d_valid
    <3>1. arb' = "IDLE"
      BY <2>1, <2>2, AnswerFreesPort DEF d_valid, dc_frsp_valid
    <3>2. dstate \in {"EVICT", "READ4WRITE"} => dstate' \in {"READ", "WRITE"}
      BY <2>2 DEF Next, DataCacheStep, Waits, WbIdle, WbRead, WbEvict, WtIdle, WtRead,
                  WtRead4Write, WtWrite
    <3>3. dstate \in {"READ", "WRITE"} => dstate' = "IDLE"
      BY <2>2 DEF Next, DataCacheStep, Waits, WbIdle, WbRead, WbEvict, WtIdle, WtRead,
                  WtRead4Write, WtWrite
    <3>4. dstate' = "IDLE" => ~dfreq'.valid
      BY DEF IInv, DataAsks, NoFreq
    <3> QED
      BY <1>1, <1>2, <1>4, <2>1, <3>1, <3>2, <3>3, <3>4 DEF FetchTurns, serves_d
  <2>3. CASE ~d_valid
    <3>1. dstate' = dstate /\ ~mem_valid_i
      BY <1>4, <2>1, <2>3, AsksOn DEF d_valid, dc_frsp_valid
    <3>2. arb' = "SERVING_D" /\ PortBusy' < PortBusy
      BY <1>4, <2>1, <3>1, BusyFalls
    <3> QED
      BY <1>2, <1>4, <2>1, <3>1, <3>2 DEF FetchTurns, serves_d
  <2> QED
    BY <2>2, <2>3
<1>5. CASE istate = "WAIT_READ" /\ ~serves_d(dfreq)
  <2>1. ~mem_valid_i /\ mem_valid_o(dfreq, ifreq)
    BY <1>1, <1>5, FetchReads
       DEF i_ready, icache_ready, i_valid, ic_frsp_valid, serves_i, serves_d,
           mem_valid_o
  <2>2. arb' = "SERVING_I" /\ PortBusy' < PortBusy
    BY <1>5, <2>1, BusyFalls
  <2> QED
    BY <1>1, <1>2, <1>5, <2>2 DEF FetchTurns
<1> QED
  BY <1>1, <1>3, <1>4, <1>5

LEMMA WaitsFall ==
  ASSUME IInv, IInv', Next
  PROVE  /\ ~d_ready => DataWait' < DataWait
         /\ ~i_ready => FetchWait' < FetchWait
<1>1. /\ DataTurns \in 0 .. 4 /\ FetchTurns \in 0 .. 4
      /\ DataTurns' \in 0 .. 4 /\ FetchTurns' \in 0 .. 4
  BY DEF DataTurns, FetchTurns
<1>2. PortBusy \in 0 .. DELAYER_LEN + 1
  BY BusyBounds
<1>3. PortBusy' \in 0 .. DELAYER_LEN + 1
  <2>1. delay' \in 0 .. DELAYER_LEN
    BY DEF IInv, TypeOK
  <2>2. \/ PortBusy' = DELAYER_LEN - delay' + 1
        \/ PortBusy' = 0
    BY DEF PortBusy
  <2> QED
    BY <2>1, <2>2, DelayAssumption
<1>4. ASSUME ~d_ready PROVE DataWait' < DataWait
  <2>1. DataTurns' < DataTurns \/ (DataTurns' = DataTurns /\ PortBusy' < PortBusy)
    BY <1>4, DataTurnsFall
  <2>2. DataTurns' * Transaction + PortBusy' < DataTurns * Transaction + PortBusy
    BY <1>1, <1>2, <1>3, <2>1, TurnsOutweigh
  <2> QED
    BY <2>2 DEF DataWait, Transaction
<1>5. ASSUME ~i_ready PROVE FetchWait' < FetchWait
  <2>1. \/ FetchTurns' < FetchTurns
        \/ FetchTurns' = FetchTurns /\ PortBusy' < PortBusy
    BY <1>5, FetchTurnsFall
  <2>2. FetchTurns' * Transaction + PortBusy' < FetchTurns * Transaction + PortBusy
    BY <1>1, <1>2, <1>3, <2>1, TurnsOutweigh
  <2> QED
    BY <2>2 DEF FetchWait, Transaction
<1> QED
  BY <1>4, <1>5

(* Every request is answered, at the latest after DataWait or FetchWait    *)
(* cycles, for every delay of memory.                                      *)
THEOREM RequestsAnsweredTheorem == Spec => RequestsAnswered
<1>1. IInv /\ IInv' /\ [Next]_msvars => [~d_ready => DataWait' < DataWait]_msvars
  BY WaitsFall
<1>2. IInv /\ IInv' /\ [Next]_msvars => [~i_ready => FetchWait' < FetchWait]_msvars
  BY WaitsFall
<1> QED
  BY <1>1, <1>2, Invariance, PTL
     DEF Spec, RequestsAnswered, DataAnswered, FetchAnswered
=============================================================================
