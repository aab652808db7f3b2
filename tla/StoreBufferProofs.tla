------------------------- MODULE StoreBufferProofs -------------------------
(***************************************************************************)
(* Proofs about StoreBuffer, for every depth, threshold and payload.       *)
(*                                                                         *)
(* Ring is inductive together with TypeOK, provided that a flush never     *)
(* finds all DEPTH slots committed (FULL_FLUSH = FALSE): head_ptr and      *)
(* commit_ptr are then equal, as they are in a buffer with no committed    *)
(* slot, and the flush takes the one for the other.                        *)
(*                                                                         *)
(* The argument looks at the slot j places after the head: AfterCycle says *)
(* what a clock cycle makes of it, from what Ring says of it before.  A    *)
(* pop then only renumbers the slots.                                      *)
(***************************************************************************)
EXTENDS StoreBuffer, FiniteSetTheorems, FunctionTheorems, TLAPS

-----------------------------------------------------------------------------
(* Arithmetic of the pointers.                                             *)

(* Counting from a slot stays in the buffer.                               *)
LEMMA WrapType ==
  ASSUME NEW h \in Slots, NEW k \in 0 .. DEPTH
  PROVE  Wrap(h + k) \in Slots
BY DepthAssumption DEF Wrap, Slots

(* The DEPTH slots counted from a slot are all different.                  *)
LEMMA WrapInjective ==
  ASSUME NEW h \in Slots, NEW j \in 0 .. DEPTH-1, NEW k \in 0 .. DEPTH-1,
         Wrap(h + j) = Wrap(h + k)
  PROVE  j = k
BY DepthAssumption DEF Wrap, Slots

(* Incrementing the pointer to the slot k places on gives the next one.    *)
LEMMA SuccWrap ==
  ASSUME NEW h \in Slots, NEW k \in 0 .. DEPTH-1
  PROVE  Succ(Wrap(h + k)) = Wrap(h + (k + 1))
BY DepthAssumption DEF Wrap, Slots, Succ

(* Incrementing the head renumbers the slots: its own becomes the last.    *)
LEMMA WrapSucc ==
  ASSUME NEW h \in Slots, NEW k \in 0 .. DEPTH-1
  PROVE  /\ Succ(h) \in Slots
         /\ Wrap(Succ(h) + k) = Wrap(h + (k + 1))
         /\ Wrap(Succ(h) + (DEPTH - 1)) = h
         /\ Wrap(h + DEPTH) = h /\ Wrap(h + 0) = h
BY DepthAssumption DEF Wrap, Slots, Succ

(* A pointer n places after the head that may be incremented while the     *)
(* head may be, too.                                                       *)
LEMMA PointersAdvance ==
  ASSUME NEW h \in Slots, NEW n \in 0 .. DEPTH,
         NEW push \in {0, 1}, NEW pop \in {0, 1},
         push = 1 => n < DEPTH, pop = 1 => n > 0
  PROVE  (IF push = 1 THEN Succ(Wrap(h + n)) ELSE Wrap(h + n))
           = Wrap((IF pop = 1 THEN Succ(h) ELSE h) + (n + push - pop))
<1>1. CASE push = 0 /\ pop = 0
  BY <1>1, DepthAssumption DEF Slots
<1>2. CASE push = 1 /\ pop = 0
  BY <1>2, SuccWrap, DepthAssumption DEF Slots
<1>3. CASE push = 0 /\ pop = 1
  BY <1>3, DepthAssumption DEF Wrap, Succ, Slots
<1>4. CASE push = 1 /\ pop = 1
  BY <1>4, DepthAssumption DEF Wrap, Succ, Slots
<1> QED
  BY <1>1, <1>2, <1>3, <1>4

(* The age check (store_buffer.sv:207-214), for a tag that is n places     *)
(* after the head and n < DEPTH, selects the n oldest slots.               *)
THEOREM AgeCheck ==
  ASSUME head_ptr \in Slots, NEW n \in 0 .. DEPTH-1, NEW i \in Slots
  PROVE  IsOlder(i, Slot(n)) <=> \E k \in 0 .. n-1 : i = Slot(k)
<1> DEFINE off == IF i >= head_ptr THEN i - head_ptr ELSE i + DEPTH - head_ptr
<1>1. off \in 0 .. DEPTH-1 /\ i = Slot(off)
  BY DepthAssumption DEF Slots, Slot, Wrap
<1>2. IsOlder(i, Slot(n)) <=> off < n
  BY DepthAssumption DEF Slots, Slot, Wrap, IsOlder
<1>3. \A k \in 0 .. n-1 : i = Slot(k) => off = k
  BY <1>1, WrapInjective, DepthAssumption DEF Slot
<1> QED
  BY <1>1, <1>2, <1>3, DepthAssumption

-----------------------------------------------------------------------------
(* Types.                                                                  *)

LEMMA ResetStoreType == ResetStore \in Stores
<1>1. {0} \in ByteEnables
  <2> DEFINE p == [off |-> 0, width |-> 1]
  <2>1. /\ p \in [off : Lanes, width : {1, 2, 4}]
        /\ p.off % p.width = 0 /\ p.off + p.width <= LANES
    BY PayloadAssumption DEF Lanes
  <2>2. p.off .. p.off + p.width - 1 = {0}
    OBVIOUS
  <2> QED
    BY <2>1, <2>2 DEF ByteEnables
<1> QED
  BY <1>1, PayloadAssumption DEF ResetStore, Stores, Accesses

(* What the environment may present on the execution and commit ports.     *)
LEMMA RequestTypes ==
  ASSUME TypeOK, NEW creq \in ExecRequests, NEW commit \in CommitRequests
  PROVE  /\ creq.en \in BOOLEAN /\ commit.en \in BOOLEAN
         /\ creq.en => /\ creq.idx \in Slots /\ creq.store \in Stores
                       /\ Executable(creq.idx)
         /\ commit.en => commit.idx = commit_ptr /\ Committable(commit_ptr)
<1>1. /\ creq.en \in BOOLEAN
      /\ creq.en => /\ creq.idx \in Slots /\ creq.store \in Stores
                    /\ Executable(creq.idx)
  <2>1. CASE creq = NoExec
    BY <2>1 DEF NoExec
  <2>2. CASE creq \in [en : {TRUE}, idx : {i \in Slots : Executable(i)},
                      store : Stores]
    BY <2>2
  <2> QED
    BY <2>1, <2>2 DEF ExecRequests
<1>2. /\ commit.en \in BOOLEAN
      /\ commit.en => commit.idx = commit_ptr /\ Committable(commit_ptr)
  <2>1. CASE commit = NoCommit
    BY <2>1 DEF NoCommit
  <2>2. CASE commit \in [en : {TRUE}, idx : {i \in Slots :
                                        i = commit_ptr /\ Committable(i)}]
    BY <2>2
  <2> QED
    BY <2>1, <2>2 DEF CommitRequests
<1> QED
  BY <1>1, <1>2

LEMMA UpdatedType ==
  ASSUME TypeOK, NEW i \in Slots, NEW alloc \in BOOLEAN, NEW pop \in BOOLEAN,
         NEW creq \in ExecRequests, NEW commit \in CommitRequests
  PROVE  Updated(i, alloc, creq, commit, pop) \in Entry
<1>1. buffer[i] \in Entry
  BY DEF TypeOK
<1>2. (creq.en => creq.store \in Stores) /\ creq.en \in BOOLEAN /\ commit.en \in BOOLEAN
  BY RequestTypes
<1> QED
  BY <1>1, <1>2 DEF Entry, Updated

-----------------------------------------------------------------------------
(* The inductive invariant, and what a clock cycle does to a slot.         *)

IInv == TypeOK /\ Ring

LEMMA InitRingOf == Init => TypeOK /\ RingOf(0) /\ count = 0
<1> SUFFICES ASSUME Init PROVE TypeOK /\ RingOf(0)
  BY DEF Init
<1>1. TypeOK
  BY ResetStoreType, DepthAssumption DEF Init, TypeOK, ResetEntry, Entry, Slots
<1>2. RingOf(0)
  <2>1. \A i \in Slots : FreeSlot(i)
    BY DEF Init, FreeSlot, ResetEntry
  <2>2. \A k \in 0 .. DEPTH-1 : Slot(k) \in Slots
    BY WrapType, <1>1, DepthAssumption DEF TypeOK, Slot
  <2>3. Slot(0) = 0
    BY WrapSucc, <1>1, DepthAssumption DEF Init, TypeOK, Slot
  <2> QED
    BY <2>1, <2>2, <2>3, DepthAssumption DEF Init, RingOf
<1> QED
  BY <1>1, <1>2

LEMMA InitIInv == Init => IInv
BY InitRingOf DEF IInv, Ring

(* A store is committed only while a speculative slot is left, and the     *)
(* slot is the first of them.                                              *)
LEMMA CommitsFirstSpeculative ==
  ASSUME TypeOK, NEW nc \in 0 .. count, RingOf(nc), Committable(commit_ptr)
  PROVE  nc < count
<1> SUFFICES ASSUME nc = count PROVE FALSE
  BY DEF TypeOK
<1>1. CASE count < DEPTH
  <2>1. FreeSlot(Slot(nc))
    BY <1>1, DepthAssumption DEF RingOf, TypeOK
  <2> QED
    BY <2>1 DEF RingOf, FreeSlot, Committable
<1>2. CASE count = DEPTH
  <2>1. CommittedSlot(Slot(0))
    BY <1>2, DepthAssumption DEF RingOf
  <2>2. Slot(0) = head_ptr /\ commit_ptr = head_ptr
    BY <1>2, WrapSucc, DepthAssumption DEF RingOf, TypeOK, Slot
  <2> QED
    BY <2>1, <2>2 DEF CommittedSlot, ReadyToDrain, Committable
<1> QED
  BY <1>1, <1>2, DepthAssumption DEF TypeOK

(* The slot that was i = Slot(j) before the cycle, when a is 1 if a slot   *)
(* is allocated, c if a store is committed, and the oldest may be popped.  *)
LEMMA AfterCycle ==
  ASSUME TypeOK, NEW nc \in 0 .. count, RingOf(nc),
         NEW alloc \in BOOLEAN, alloc => count < DEPTH,
         NEW creq \in ExecRequests, NEW commit \in CommitRequests,
         NEW pop \in BOOLEAN, pop => nc > 0,
         DataPath(alloc, creq, commit, pop),
         NEW j \in 0 .. DEPTH-1, NEW i \in Slots, i = Slot(j)
  PROVE  LET c == IF commit.en THEN 1 ELSE 0
             a == IF alloc THEN 1 ELSE 0
         IN /\ pop /\ j = 0 => FreeSlot(i)'
            /\ ~(pop /\ j = 0) /\ j < nc + c => CommittedSlot(i)'
            /\ nc + c <= j /\ j < count + a => SpeculativeSlot(i)'
            /\ count + a <= j => FreeSlot(i)'
<1> DEFINE c == IF commit.en THEN 1 ELSE 0
           a == IF alloc THEN 1 ELSE 0
<1>1. buffer'[i] = Updated(i, alloc, creq, commit, pop)
  BY DEF DataPath
<1>2. pop => (i = head_ptr <=> j = 0)
  BY WrapInjective, WrapSucc, DepthAssumption DEF TypeOK, Slot
<1>3. alloc => (i = tail_ptr <=> j = count)
  BY WrapInjective, DepthAssumption DEF TypeOK, Slot, RingOf
<1>4. commit.en => /\ nc < count
                   /\ Committable(commit_ptr) /\ commit.idx = commit_ptr
                   /\ (i = commit.idx <=> j = nc)
  BY RequestTypes, CommitsFirstSpeculative, WrapInjective, DepthAssumption
     DEF TypeOK, Slot, RingOf
<1>5. creq.en => Executable(creq.idx)
  BY RequestTypes
<1>6. /\ j < nc => CommittedSlot(i)
      /\ nc <= j /\ j < count => SpeculativeSlot(i)
      /\ count <= j => FreeSlot(i)
  BY DEF RingOf
<1>7. buffer[i] \in Entry /\ creq.en \in BOOLEAN /\ commit.en \in BOOLEAN
  BY RequestTypes DEF TypeOK
<1> QED
  BY <1>1, <1>2, <1>3, <1>4, <1>5, <1>6, <1>7, DepthAssumption
     DEF Updated, FreeSlot, CommittedSlot, SpeculativeSlot, ReadyToDrain,
         Executable, Committable, TypeOK, Entry

-----------------------------------------------------------------------------
(* A clock cycle without a flush preserves the invariant.                  *)

LEMMA CycleTypeOK ==
  ASSUME IInv, Cycle
  PROVE  TypeOK'
<1> PICK alloc_en \in BOOLEAN, creq \in ExecRequests, commit \in CommitRequests,
         urgent \in BOOLEAN, dreq_ready \in BOOLEAN :
           CycleStep(alloc_en, creq, commit, urgent, dreq_ready)
  BY DEF Cycle
<1> DEFINE alloc == alloc_en /\ ~sb_full
           pop   == dreq_valid /\ dreq_ready
<1>1. DataPath(alloc, creq, commit, pop) /\ Fsm(urgent, dreq_ready)
  BY DEF CycleStep
<1>2. buffer' \in [Slots -> Entry]
  <2>1. \A i \in Slots : Updated(i, alloc, creq, commit, pop) \in Entry
    BY UpdatedType DEF IInv
  <2> QED
    BY <1>1, <2>1 DEF DataPath
<1>3. head_ptr' \in Slots /\ tail_ptr' \in Slots /\ commit_ptr' \in Slots
  BY <1>1, DepthAssumption DEF DataPath, IInv, TypeOK, Succ, Slots
<1>4. count' \in 0 .. DEPTH
  <2>1. pop => count > 0
    BY DEF IInv, Ring, RingOf, dreq_valid, TypeOK
  <2>2. alloc => count < DEPTH
    BY DepthAssumption DEF sb_full, IInv, TypeOK
  <2> QED
    BY <1>1, <2>1, <2>2, DepthAssumption DEF DataPath, IInv, TypeOK
<1>5. state' \in {"IDLE", "DRAIN"}
  BY <1>1 DEF Fsm, IInv, TypeOK
<1> QED
  BY <1>2, <1>3, <1>4, <1>5 DEF TypeOK

(* The number of committed slots grows by a commit and shrinks by a pop.   *)
LEMMA CycleRingOf ==
  ASSUME TypeOK, NEW nc \in 0 .. count, RingOf(nc),
         NEW alloc_en \in BOOLEAN, NEW creq \in ExecRequests,
         NEW commit \in CommitRequests, NEW urgent \in BOOLEAN,
         NEW dreq_ready \in BOOLEAN,
         CycleStep(alloc_en, creq, commit, urgent, dreq_ready),
         NEW n, n = nc + (IF commit.en THEN 1 ELSE 0)
                       - (IF dreq_valid /\ dreq_ready THEN 1 ELSE 0)
  PROVE  n \in 0 .. count' /\ RingOf(n)'
<1> DEFINE alloc == alloc_en /\ ~sb_full
           pop   == dreq_valid /\ dreq_ready
           c == IF commit.en THEN 1 ELSE 0
           a == IF alloc THEN 1 ELSE 0
           p == IF pop THEN 1 ELSE 0
<1>1. DataPath(alloc, creq, commit, pop) /\ Fsm(urgent, dreq_ready)
  BY DEF CycleStep
<1>2. TypeOK /\ TypeOK'
  BY CycleTypeOK DEF IInv, Ring, Cycle
<1>3. /\ pop => nc > 0
      /\ alloc => count < DEPTH
      /\ commit.en => nc < count
  <2>1. alloc => count < DEPTH
    BY <1>2, DepthAssumption DEF sb_full, TypeOK
  <2>2. pop => nc > 0
    BY DEF RingOf, dreq_valid
  <2>3. commit.en => nc < count
    BY <1>2, RequestTypes, CommitsFirstSpeculative
  <2> QED
    BY <2>1, <2>2, <2>3
<1>4. count' = count + a - p /\ nc + c - p \in 0 .. count'
  BY <1>1, <1>2, <1>3 DEF DataPath, TypeOK
<1>5. \A k \in 0 .. DEPTH-1 :
        Slot(k)' = IF pop THEN IF k = DEPTH-1 THEN Slot(0) ELSE Slot(k+1)
                          ELSE Slot(k)
  BY <1>1, <1>2, WrapSucc, DepthAssumption DEF DataPath, TypeOK, Slot
<1>0. n \in 0 .. DEPTH /\ n = nc + c - p
  BY <1>2, <1>4, DepthAssumption DEF TypeOK
<1>6. commit_ptr' = Slot(n)'
  <2>1. head_ptr' = IF p = 1 THEN Succ(head_ptr) ELSE head_ptr
    BY <1>1 DEF DataPath
  <2>2. commit_ptr' = IF c = 1 THEN Succ(Wrap(head_ptr + nc))
                               ELSE Wrap(head_ptr + nc)
    BY <1>1 DEF DataPath, RingOf, Slot
  <2>0. n = nc + c - p
    BY <1>0
  <2> HIDE DEF c, p
  <2>3. c \in {0, 1} /\ p \in {0, 1} /\ (c = 1 => nc < DEPTH) /\ (p = 1 => nc > 0)
    BY <1>2, <1>3, DepthAssumption DEF c, p, TypeOK
  <2> QED
    BY <2>0, <2>1, <2>2, <2>3, <1>2, PointersAdvance, DepthAssumption DEF Slot, TypeOK
<1>7. tail_ptr' = Slot(count)'
  <2>1. head_ptr' = IF p = 1 THEN Succ(head_ptr) ELSE head_ptr
    BY <1>1 DEF DataPath
  <2>2. tail_ptr' = IF a = 1 THEN Succ(Wrap(head_ptr + count))
                             ELSE Wrap(head_ptr + count)
    BY <1>1 DEF DataPath, RingOf, Slot
  <2> HIDE DEF a, p
  <2>3. a \in {0, 1} /\ p \in {0, 1} /\ (a = 1 => count < DEPTH) /\ (p = 1 => count > 0)
    BY <1>2, <1>3, DepthAssumption DEF a, p, TypeOK
  <2> QED
    BY <2>1, <2>2, <2>3, <1>2, <1>4, PointersAdvance, DepthAssumption
       DEF Slot, TypeOK
<1>8. ASSUME NEW j \in 0 .. DEPTH-1, NEW i \in Slots, i = Slot(j)
      PROVE  /\ pop /\ j = 0 => FreeSlot(i)'
             /\ ~(pop /\ j = 0) /\ j < nc + c => CommittedSlot(i)'
             /\ nc + c <= j /\ j < count + a => SpeculativeSlot(i)'
             /\ count + a <= j => FreeSlot(i)'
  BY <1>1, <1>2, <1>3, <1>8, AfterCycle
<1>9. ASSUME NEW k \in 0 .. DEPTH-1, NEW i \in Slots, i = Slot(k)'
      PROVE  /\ k < n => CommittedSlot(i)'
             /\ n <= k /\ k < count' => SpeculativeSlot(i)'
             /\ count' <= k => FreeSlot(i)'
  <2>1. CASE ~pop
    BY <2>1, <1>4, <1>5, <1>8, <1>9
  <2>2. CASE pop /\ k = DEPTH-1
    <3>1. i = Slot(0) /\ FreeSlot(i)'
      BY <2>2, <1>5, <1>8, <1>9, DepthAssumption
    <3>2. count' <= k /\ n <= k
      BY <2>2, <1>2, <1>3, <1>4, DepthAssumption DEF TypeOK
    <3> QED
      BY <3>1, <3>2, <1>2, DepthAssumption DEF TypeOK
  <2>3. CASE pop /\ k # DEPTH-1
    <3>1. i = Slot(k+1) /\ k+1 \in 0 .. DEPTH-1
      BY <2>3, <1>5, <1>9, DepthAssumption
    <3>2. /\ k+1 < nc + c => CommittedSlot(i)'
          /\ nc + c <= k+1 /\ k+1 < count + a => SpeculativeSlot(i)'
          /\ count + a <= k+1 => FreeSlot(i)'
      BY <3>1, <1>8, DepthAssumption
    <3> QED
      BY <3>2, <2>3, <1>2, <1>4, DepthAssumption DEF TypeOK
  <2> QED
    BY <2>1, <2>2, <2>3
<1>10. state' = "DRAIN" => n > 0
  <2>1. ASSUME NEW k \in 0 .. DEPTH-1, ReadyToDrain(Slot(k))
        PROVE  k < nc
    BY <2>1, <1>2, DepthAssumption
       DEF RingOf, ReadyToDrain, SpeculativeSlot, FreeSlot, TypeOK
  <2>2. Slot(0) = head_ptr /\ Slot(1) = Succ(head_ptr)
    BY <1>2, WrapSucc, SuccWrap, DepthAssumption DEF Slot, TypeOK
  <2>3. CASE state = "IDLE"
    BY <2>1, <2>2, <2>3, <1>1, <1>2, DepthAssumption DEF Fsm, dreq_valid, TypeOK
  <2>4. CASE state = "DRAIN" /\ ~dreq_ready
    BY <2>4, <1>2 DEF RingOf, dreq_valid, TypeOK
  <2>5. CASE state = "DRAIN" /\ dreq_ready
    BY <2>1, <2>2, <2>5, <1>1, <1>2, DepthAssumption DEF Fsm, dreq_valid, TypeOK
  <2> QED
    BY <2>3, <2>4, <2>5, <1>2 DEF TypeOK
<1>11. RingOf(n)'
  <2>1. \A k \in 0 .. DEPTH-1 : Slot(k)' \in Slots
    BY WrapType, <1>2, DepthAssumption DEF Slot, TypeOK
  <2> QED
    BY <2>1, <1>6, <1>7, <1>9, <1>10 DEF RingOf
<1> QED
  BY <1>0, <1>4, <1>11

LEMMA CycleRing ==
  ASSUME IInv, Cycle
  PROVE  Ring'
BY CycleRingOf DEF IInv, Ring, Cycle

-----------------------------------------------------------------------------
(* A flush preserves the invariant, unless every slot is committed.        *)

LEMMA FlushTypeOK ==
  ASSUME TypeOK, FlushStep
  PROVE  TypeOK'
<1>1. \A i \in Slots : [buffer[i] EXCEPT !.allocated = FALSE, !.valid = FALSE] \in Entry
  BY DEF TypeOK, Entry
<1>2. buffer' \in [Slots -> Entry]
  BY <1>1 DEF FlushStep, TypeOK
<1>3. count' \in 0 .. DEPTH
  <2>1. head_ptr \in 0 .. DEPTH-1 /\ commit_ptr \in 0 .. DEPTH-1 /\ DEPTH \in Nat
    BY DepthAssumption DEF TypeOK, Slots
  <2>2. count' = IF commit_ptr >= head_ptr THEN commit_ptr - head_ptr
                                           ELSE DEPTH - (head_ptr - commit_ptr)
    BY DEF FlushStep
  <2>3. CASE commit_ptr >= head_ptr
    BY <2>1, <2>2, <2>3
  <2>4. CASE ~(commit_ptr >= head_ptr)
    BY <2>1, <2>2, <2>4
  <2> QED
    BY <2>3, <2>4
<1> QED
  BY <1>2, <1>3 DEF FlushStep, TypeOK

LEMMA FlushRingOf ==
  ASSUME TypeOK, NEW nc \in 0 .. count, RingOf(nc), FlushStep, ~AllCommitted
  PROVE  TypeOK' /\ count' = nc /\ RingOf(nc)'
<1>1. TypeOK /\ nc \in Nat
  BY DepthAssumption DEF TypeOK
<1>2. nc < DEPTH
  <2> SUFFICES ASSUME nc = DEPTH PROVE FALSE
    BY <1>1, DepthAssumption DEF TypeOK
  <2> PICK i \in Slots : ~buffer[i].committed
    BY DEF AllCommitted
  <2> DEFINE off == IF i >= head_ptr THEN i - head_ptr ELSE i + DEPTH - head_ptr
  <2>1. off \in 0 .. DEPTH-1 /\ i = Slot(off)
    BY <1>1, DepthAssumption DEF TypeOK, Slots, Slot, Wrap
  <2> HIDE DEF off
  <2>2. CommittedSlot(Slot(off))
    BY <2>1, DepthAssumption DEF RingOf
  <2> QED
    BY <2>1, <2>2 DEF CommittedSlot, ReadyToDrain
<1>3. /\ head_ptr' = head_ptr /\ commit_ptr' = commit_ptr
      /\ tail_ptr' = commit_ptr /\ state' = "IDLE"
  BY DEF FlushStep
<1>4. count' = nc
  <2>1. commit_ptr = Wrap(head_ptr + nc)
    BY DEF RingOf, Slot
  <2>2. nc = IF commit_ptr >= head_ptr THEN commit_ptr - head_ptr
                                       ELSE DEPTH - (head_ptr - commit_ptr)
    BY <2>1, <1>1, <1>2, DepthAssumption DEF TypeOK, Wrap, Slots
  <2> QED
    BY <2>2 DEF FlushStep
<1>5. TypeOK'
  BY FlushTypeOK
<1>6. \A k \in 0 .. DEPTH : Slot(k)' = Slot(k)
  BY DEF FlushStep, Slot
<1>7. ASSUME NEW k \in 0 .. DEPTH-1, NEW i \in Slots, i = Slot(k)
      PROVE  /\ k < nc => CommittedSlot(i)'
             /\ nc <= k => FreeSlot(i)'
  <2>1. buffer[i] \in Entry
    BY <1>1 DEF TypeOK
  <2>2. buffer'[i] = IF buffer[i].committed THEN buffer[i]
                     ELSE [buffer[i] EXCEPT !.allocated = FALSE, !.valid = FALSE]
    BY DEF FlushStep
  <2>3. /\ k < nc => CommittedSlot(i)
        /\ nc <= k => ~buffer[i].committed
    BY <1>1, <1>7, DepthAssumption
       DEF RingOf, SpeculativeSlot, FreeSlot, TypeOK
  <2> QED
    BY <2>1, <2>2, <2>3
       DEF CommittedSlot, ReadyToDrain, FreeSlot, Entry
<1>8. RingOf(nc)'
  <2>1. \A k \in 0 .. DEPTH-1 : Slot(k)' \in Slots /\ Slot(k)' = Slot(k)
    BY WrapType, <1>1, <1>6, DepthAssumption DEF Slot, TypeOK
  <2>2. commit_ptr' = Slot(nc)' /\ tail_ptr' = Slot(count)'
    BY <1>3, <1>4 DEF RingOf, Slot
  <2> QED
    BY <2>1, <2>2, <1>1, <1>3, <1>4, <1>7, DepthAssumption DEF RingOf
<1> QED
  BY <1>4, <1>5, <1>8

LEMMA FlushIInv ==
  ASSUME IInv, FlushStep, ~AllCommitted
  PROVE  IInv'
<1> PICK nc \in 0 .. count : RingOf(nc)
  BY DEF IInv, Ring
<1>1. TypeOK' /\ count' = nc /\ RingOf(nc)' /\ nc \in Nat
  BY FlushRingOf, DepthAssumption DEF IInv, TypeOK
<1> QED
  BY <1>1 DEF IInv, Ring

LEMMA StutterIInv ==
  ASSUME IInv, UNCHANGED sbvars
  PROVE  IInv'
BY DEF IInv, TypeOK, Ring, RingOf, Slot, CommittedSlot, ReadyToDrain,
       SpeculativeSlot, FreeSlot, sbvars

LEMMA NextIInv ==
  ASSUME ~FULL_FLUSH, IInv, [Next]_sbvars
  PROVE  IInv'
<1>1. CASE Cycle
  BY <1>1, CycleTypeOK, CycleRing DEF IInv
<1>2. CASE Flush
  BY <1>2, FlushIInv DEF Flush
<1>3. CASE UNCHANGED sbvars
  BY <1>3, StutterIInv
<1> QED
  BY <1>1, <1>2, <1>3 DEF Next

-----------------------------------------------------------------------------
(* Counting slots.                                                         *)

(* Every slot is some number of places after the head.                     *)
LEMMA SlotIsSlot ==
  ASSUME head_ptr \in Slots, NEW i \in Slots
  PROVE  \E k \in 0 .. DEPTH-1 : i = Slot(k)
<1> DEFINE off == IF i >= head_ptr THEN i - head_ptr ELSE i + DEPTH - head_ptr
<1>1. off \in 0 .. DEPTH-1 /\ i = Slot(off)
  BY DepthAssumption DEF Slots, Slot, Wrap
<1> QED
  BY <1>1

(* The committed slots of the ring are its first nc.                       *)
LEMMA CommittedCount ==
  ASSUME TypeOK, NEW nc \in 0 .. count, RingOf(nc)
  PROVE  /\ Cardinality({s \in Slots : buffer[s].committed}) = nc
         /\ \A s \in Slots : buffer[s].committed => buffer[s].allocated
<1> DEFINE C == {s \in Slots : buffer[s].committed}
           f == [k \in 1 .. nc |-> Slot(k-1)]
<1>1. head_ptr \in Slots /\ nc \in Nat /\ nc <= DEPTH /\ DEPTH \in Nat
      /\ count \in Nat /\ nc <= count
  BY DepthAssumption DEF TypeOK
<1>2. ASSUME NEW k \in 0 .. DEPTH-1
      PROVE  /\ buffer[Slot(k)].committed <=> k < nc
             /\ k < nc => buffer[Slot(k)].allocated
             /\ Slot(k) \in Slots
  <2>1. /\ k < nc => CommittedSlot(Slot(k))
        /\ nc <= k /\ k < count => SpeculativeSlot(Slot(k))
        /\ count <= k => FreeSlot(Slot(k))
    BY <1>1 DEF RingOf
  <2>2. Slot(k) \in Slots
    BY <1>1, WrapType DEF Slot
  <2> QED
    BY <1>1, <2>1, <2>2
       DEF CommittedSlot, ReadyToDrain, SpeculativeSlot, FreeSlot
<1>3. f \in [1 .. nc -> C]
  <2>1. \A k \in 1 .. nc : k-1 \in 0 .. DEPTH-1 /\ k-1 < nc
    BY <1>1
  <2> QED
    BY <1>2, <2>1
<1>4. \A a, b \in 1 .. nc : f[a] = f[b] => a = b
  <2> SUFFICES ASSUME NEW a \in 1 .. nc, NEW b \in 1 .. nc, Slot(a-1) = Slot(b-1)
               PROVE  a = b
    OBVIOUS
  <2>1. a-1 \in 0 .. DEPTH-1 /\ b-1 \in 0 .. DEPTH-1
    BY <1>1
  <2>2. a-1 = b-1
    BY <1>1, <2>1, WrapInjective DEF Slot
  <2> QED
    BY <2>2
<1>5. ASSUME NEW s \in C
      PROVE  (\E k \in 1 .. nc : f[k] = s) /\ buffer[s].allocated
  <2> PICK k \in 0 .. DEPTH-1 : s = Slot(k)
    BY <1>1, SlotIsSlot
  <2>1. k < nc /\ buffer[s].allocated
    BY <1>2
  <2>2. k+1 \in 1 .. nc /\ (k+1)-1 = k
    BY <1>1, <2>1
  <2>3. f[k+1] = s
    BY <2>2
  <2> QED
    BY <2>1, <2>2, <2>3
<1> HIDE DEF f
<1>6. f \in Bijection(1 .. nc, C)
  BY <1>3, <1>4, <1>5, Fun_IsBij
<1>7. ExistsBijection(1 .. nc, C)
  BY <1>6, Fun_ExistsBij
<1>8. Cardinality(C) = nc
  BY <1>1, <1>7, FS_CountingElements
<1> QED
  BY <1>5, <1>8

-----------------------------------------------------------------------------
(* Theorems.                                                               *)

(* Every variable keeps its type, and the pointers, the counter, the flags *)
(* of the slots and the state machine agree in every reachable state.      *)
THEOREM RingInvariant ==
  ASSUME ~FULL_FLUSH
  PROVE  Spec => [](TypeOK /\ Ring)
<1>1. IInv /\ [Next]_sbvars => IInv'
  BY NextIInv
<1> QED
  BY InitIInv, <1>1, PTL DEF Spec, IInv

(* What the buffer shows the cache has executed and is committed.          *)
THEOREM OnlyCommittedDrainInvariant ==
  ASSUME ~FULL_FLUSH
  PROVE  Spec => []OnlyCommittedDrain
<1>1. TypeOK /\ Ring => OnlyCommittedDrain
  <2> SUFFICES ASSUME TypeOK, Ring, dreq_valid PROVE ReadyToDrain(head_ptr)
    BY DEF OnlyCommittedDrain
  <2> PICK nc \in 0 .. count : RingOf(nc)
    BY DEF Ring
  <2>1. CommittedSlot(Slot(0))
    BY DepthAssumption DEF RingOf, dreq_valid, TypeOK
  <2>2. Slot(0) = head_ptr
    BY WrapSucc, DepthAssumption DEF Slot, TypeOK
  <2> QED
    BY <2>1, <2>2 DEF CommittedSlot
<1> QED
  BY <1>1, RingInvariant, PTL

(* Allocation, execution and commit never touch a committed slot, and no   *)
(* slot but the head is popped.                                            *)
LEMMA CommittedSlotKept ==
  ASSUME IInv, Next, NEW i \in Slots, buffer[i].committed, i # head_ptr
  PROVE  buffer'[i] = buffer[i]
<1>1. CASE Flush
  BY <1>1 DEF Flush, FlushStep
<1>2. CASE Cycle
  <2> PICK alloc_en \in BOOLEAN, creq \in ExecRequests,
           commit \in CommitRequests, urgent \in BOOLEAN, dreq_ready \in BOOLEAN :
             CycleStep(alloc_en, creq, commit, urgent, dreq_ready)
    BY <1>2 DEF Cycle
  <2> DEFINE alloc == alloc_en /\ ~sb_full
             pop   == dreq_valid /\ dreq_ready
  <2>1. buffer'[i] = Updated(i, alloc, creq, commit, pop)
    BY DEF CycleStep, DataPath
  <2>2. alloc => i # tail_ptr
    <3> SUFFICES ASSUME alloc, i = tail_ptr PROVE FALSE
      OBVIOUS
    <3> PICK nc \in 0 .. count : RingOf(nc)
      BY DEF IInv, Ring
    <3>1. FreeSlot(Slot(count))
      BY DepthAssumption DEF RingOf, sb_full, IInv, TypeOK
    <3> QED
      BY <3>1 DEF RingOf, FreeSlot
  <2>3. creq.en => i # creq.idx
    BY RequestTypes DEF IInv, Executable
  <2>4. commit.en => i # commit.idx
    BY RequestTypes DEF IInv, Committable
  <2>5. buffer[i] \in Entry
    BY DEF IInv, TypeOK
  <2> QED
    BY <2>1, <2>2, <2>3, <2>4, <2>5 DEF Updated, Entry
<1> QED
  BY <1>1, <1>2 DEF Next

(* A committed store keeps its slot, its address and its data until it is  *)
(* the oldest and is drained.                                              *)
THEOREM CommittedStoresStayTheorem ==
  ASSUME ~FULL_FLUSH
  PROVE  Spec => CommittedStoresStay
<1> DEFINE Kept == \A i \in Slots : buffer[i].committed /\ i # head_ptr =>
                                     buffer'[i] = buffer[i]
<1>1. TypeOK /\ Ring /\ [Next]_sbvars => [Kept]_sbvars
  BY CommittedSlotKept DEF IInv
<1> QED
  BY <1>1, RingInvariant, PTL DEF Spec, CommittedStoresStay
=============================================================================
