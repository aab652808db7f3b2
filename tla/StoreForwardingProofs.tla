----------------------- MODULE StoreForwardingProofs -----------------------
(***************************************************************************)
(* Proofs about StoreForwarding, for every depth, threshold and payload:   *)
(* what loads return and when they wait, and that the ring of slots        *)
(* implements the queue of StoreQueue.  Like the proofs about the ring     *)
(* they need FULL_FLUSH = FALSE.                                           *)
(*                                                                         *)
(* The invariant adds to the ring that a load's tag is still the slot      *)
(* load.older places after the head, and that the arbiter serves the       *)
(* buffer only while it holds a committed store.                           *)
(***************************************************************************)
EXTENDS StoreForwarding, StoreBufferProofs, SequenceTheorems

-----------------------------------------------------------------------------
(* The inductive invariant.                                                *)

(* The committed stores all precede the load, which precedes the others.   *)
LoadPlaced(nc) ==
  LoadPresent =>
    /\ nc <= load.older /\ load.older <= count
    /\ load.tag = Slot(load.older)

FInv ==
  /\ TypeOK
  /\ load \in Loads \cup {NoLoad}
  /\ cache \in Q!Memory
  /\ serving \in BOOLEAN
  /\ \E nc \in 0 .. count :
       /\ RingOf(nc)
       /\ LoadPlaced(nc)
       /\ serving => nc > 0

-----------------------------------------------------------------------------
(* What a cycle does to the ring: a slots are allocated, c stores are      *)
(* committed and p stores leave.  Slots keep their place, from the head    *)
(* one less.                                                               *)
Moves(nc, a, c, p) ==
  /\ TypeOK' /\ count' = count + a - p
  /\ nc + c - p \in 0 .. count' /\ RingOf(nc + c - p)'
  /\ a = 1 => count < DEPTH
  /\ c = 1 => nc < count
  /\ p = 1 => nc > 0
  /\ \A k \in 0 .. DEPTH : k >= p => Slot(k - p)' = Slot(k)

(* The a, c and p of a cycle with these inputs.                            *)
MovesFor(alloc_en, commit, ready, a, c, p) ==
  /\ a = 1 <=> alloc_en /\ ~sb_full
  /\ c = 1 <=> commit.en
  /\ p = 1 <=> dreq_valid /\ ready

LEMMA CycleMoves ==
  ASSUME TypeOK, NEW nc \in 0 .. count, RingOf(nc),
         NEW alloc_en \in BOOLEAN, NEW creq \in ExecRequests,
         NEW commit \in CommitRequests, NEW urgent \in BOOLEAN,
         NEW ready \in BOOLEAN,
         CycleStep(alloc_en, creq, commit, urgent, ready)
  PROVE  \E a, c, p \in {0, 1} :
           /\ Moves(nc, a, c, p)
           /\ MovesFor(alloc_en, commit, ready, a, c, p)
<1> PICK a \in {0, 1} : a = IF alloc_en /\ ~sb_full THEN 1 ELSE 0
  OBVIOUS
<1> PICK c \in {0, 1} : c = IF commit.en THEN 1 ELSE 0
  OBVIOUS
<1> PICK p \in {0, 1} : p = IF dreq_valid /\ ready THEN 1 ELSE 0
  OBVIOUS
<1> DEFINE alloc == alloc_en /\ ~sb_full
           pop   == dreq_valid /\ ready
<1>1. DataPath(alloc, creq, commit, pop)
  BY DEF CycleStep
<1>2. /\ a \in {0, 1} /\ c \in {0, 1} /\ p \in {0, 1}
      /\ a = 1 <=> alloc
      /\ p = 1 <=> pop
  OBVIOUS
<1>3. TypeOK'
  BY CycleTypeOK DEF IInv, Ring, Cycle
<1>4. a = 1 => count < DEPTH
  BY <1>2, DepthAssumption DEF sb_full, TypeOK
<1>5. p = 1 => nc > 0
  BY <1>2 DEF RingOf, dreq_valid
<1>6. c = 1 => nc < count
  BY RequestTypes, CommitsFirstSpeculative
<1>7. count' = count + a - p
  BY <1>1, <1>2, <1>5 DEF DataPath, TypeOK
<1>8. nc + c - p \in 0 .. count' /\ RingOf(nc + c - p)'
  <2> PICK n : n = nc + c - p
    OBVIOUS
  <2>1. n = nc + (IF commit.en THEN 1 ELSE 0)
               - (IF dreq_valid /\ ready THEN 1 ELSE 0)
    OBVIOUS
  <2>2. n \in 0 .. count' /\ RingOf(n)'
    BY <2>1, CycleRingOf
  <2> QED
    BY <2>2
<1>9. ASSUME NEW k \in 0 .. DEPTH, k >= p
      PROVE  Slot(k - p)' = Slot(k)
  <2>1. head_ptr' = IF p = 1 THEN Succ(head_ptr) ELSE head_ptr
    BY <1>1, <1>2 DEF DataPath
  <2>2. head_ptr \in Slots
    BY DEF TypeOK
  <2>3. Wrap(head_ptr + k) = Wrap((IF p = 1 THEN Succ(head_ptr) ELSE head_ptr)
                                    + (k + 0 - p))
    BY <1>2, <1>9, <2>2, PointersAdvance
  <2>4. k + 0 - p = k - p
    BY <1>2, DepthAssumption
  <2> QED
    BY <2>1, <2>3, <2>4 DEF Slot
<1>10. Moves(nc, a, c, p)
  BY <1>3, <1>4, <1>5, <1>6, <1>7, <1>8, <1>9 DEF Moves
<1>11. MovesFor(alloc_en, commit, ready, a, c, p)
  BY DEF MovesFor
<1> QED
  BY <1>10, <1>11

(* A clock cycle of StoreForwarding, with its inputs named.                *)
CycleWith(alloc_en, creq, commit, urgent, grant) ==
  /\ commit.en /\ LoadPresent => NCommitted < load.older
  /\ CycleStep(alloc_en, creq, commit, urgent, grant = "done")
  /\ CacheWrite(grant)
  /\ LET pop == dreq_valid /\ grant = "done"
     IN \/ ~alloc_en /\ Dispatch(pop)
        \/ InFlight(pop)
        \/ Answer

(* A cycle is one with some inputs.                                        *)
LEMMA LoadCycleIs ==
  ASSUME LoadCycle
  PROVE  \E alloc_en \in BOOLEAN, creq \in ExecRequests,
            commit \in CommitRequests, urgent \in BOOLEAN, grant \in Grants :
           CycleWith(alloc_en, creq, commit, urgent, grant)
<1>1. Urgencies \subseteq BOOLEAN
  BY DEF Urgencies, ld_stall
<1> QED
  BY <1>1 DEF LoadCycle, CycleWith

(* NCommitted is the number of committed slots the ring speaks of.         *)
LEMMA NCommittedIs ==
  ASSUME TypeOK, NEW nc \in 0 .. count, RingOf(nc)
  PROVE  NCommitted = nc
BY CommittedCount DEF NCommitted

(* The oldest slot, when the buffer or the arbiter speaks of it.           *)
LEMMA HeadIsCommitted ==
  ASSUME FInv, NEW grant \in Grants, grant \in {"wait", "done"}
  PROVE  /\ ReadyToDrain(head_ptr) /\ dreq_store \in Stores
         /\ \A nc \in 0 .. count : RingOf(nc) => nc > 0
<1> PICK nc \in 0 .. count : RingOf(nc) /\ (serving => nc > 0)
  BY DEF FInv
<1>1. serving \/ dreq_valid
  BY DEF Grants
<1>2. nc > 0
  BY <1>1 DEF RingOf, dreq_valid
<1>3. CommittedSlot(Slot(0))
  BY <1>2, DepthAssumption DEF RingOf, FInv, TypeOK
<1>4. Slot(0) = head_ptr /\ head_ptr \in Slots
  BY WrapSucc, DepthAssumption DEF Slot, FInv, TypeOK
<1>5. dreq_store \in Stores
  BY <1>4 DEF dreq_store, FInv, TypeOK, Entry
<1>6. ASSUME NEW n \in 0 .. count, RingOf(n)
      PROVE  n > 0
  <2>1. NCommitted = nc /\ NCommitted = n
    BY <1>6, NCommittedIs DEF FInv
  <2> QED
    BY <1>2, <2>1
<1> QED
  BY <1>3, <1>4, <1>5, <1>6 DEF CommittedSlot

(* The cache stays a memory.                                               *)
LEMMA CacheType ==
  ASSUME FInv, NEW grant \in Grants, CacheWrite(grant)
  PROVE  cache' \in Q!Memory /\ serving' \in BOOLEAN
<1>1. serving' \in BOOLEAN
  BY DEF CacheWrite
<1>2. CASE grant = "done"
  <2>1. dreq_store.data \in Data
    BY <1>2, HeadIsCommitted DEF Stores, Data
  <2>2. Q!Written(cache, dreq_store) \in Q!Memory
    BY <2>1 DEF Q!Written, Q!Memory, FInv
  <2> QED
    BY <1>1, <1>2, <2>2 DEF CacheWrite
<1>3. CASE grant # "done"
  BY <1>1, <1>3 DEF CacheWrite, FInv
<1> QED
  BY <1>2, <1>3

(* A load in a cycle: dispatched with the tail as its tag, in flight, or   *)
(* answered.                                                               *)
LEMMA LoadAfterCycle ==
  ASSUME FInv, NEW nc \in 0 .. count, RingOf(nc), LoadPlaced(nc),
         NEW alloc_en \in BOOLEAN, NEW creq \in ExecRequests,
         NEW commit \in CommitRequests, NEW urgent \in BOOLEAN,
         NEW grant \in Grants,
         CycleWith(alloc_en, creq, commit, urgent, grant),
         NEW a \in {0, 1}, NEW c \in {0, 1}, NEW p \in {0, 1},
         Moves(nc, a, c, p), a = 1 => alloc_en,
         c = 1 <=> commit.en, p = 1 <=> dreq_valid /\ grant = "done"
  PROVE  /\ load' \in Loads \cup {NoLoad}
         /\ LoadPlaced(nc + c - p)'
<1> DEFINE pop == dreq_valid /\ grant = "done"
<1>1. /\ TypeOK /\ count' = count + a - p
      /\ c = 1 => nc < count
      /\ p = 1 => nc > 0
      /\ \A k \in 0 .. DEPTH : k >= p => Slot(k - p)' = Slot(k)
  BY DEF FInv, Moves
<1>2. /\ count \in Nat /\ count <= DEPTH /\ nc \in Nat /\ nc <= count
      /\ DEPTH \in Nat /\ c \in Nat /\ p \in Nat /\ a \in Nat
  BY <1>1, DepthAssumption DEF TypeOK
<1>3. p = 1 <=> pop
  OBVIOUS
<1>4. CASE ~alloc_en /\ Dispatch(pop)
  <2> PICK acc \in Accesses :
        load' = [tag |-> alloc_idx, acc |-> acc,
                 older |-> IF pop THEN count-1 ELSE count]
    BY <1>4 DEF Dispatch
  <2>1. load' = [tag |-> tail_ptr, acc |-> acc, older |-> count - p]
    BY <1>1, <1>2, <1>3 DEF alloc_idx
  <2>2. a = 0 /\ count - p \in 0 .. DEPTH /\ tail_ptr \in Slots
    BY <1>1, <1>2, <1>4 DEF TypeOK
  <2>3. load' \in Loads
    BY <2>1, <2>2 DEF Loads
  <2> PICK k \in 0 .. DEPTH : k = count - p
    BY <2>2
  <2>4. Slot(k)' = Slot(count) /\ tail_ptr = Slot(count)
    <3> PICK n \in 0 .. DEPTH : n = count
      BY <1>2
    <3>1. n >= p /\ k = n - p
      BY <1>1, <1>2, <2>2
    <3>2. Slot(n - p)' = Slot(n)
      BY <1>1, <3>1
    <3> QED
      BY <3>1, <3>2 DEF RingOf
  <2>5. load'.older = k /\ load'.tag = tail_ptr
    BY <2>1
  <2>6. nc + c - p <= k /\ k <= count'
    BY <1>1, <1>2, <2>2
  <2>7. Slot(load.older)' = Slot(k)'
    BY <2>5 DEF Slot
  <2> QED
    BY <2>3, <2>4, <2>5, <2>6, <2>7 DEF LoadPlaced
<1>5. CASE InFlight(pop)
  <2>1. CASE load = NoLoad
    BY <1>5, <2>1 DEF InFlight, LoadPresent, LoadPlaced
  <2>2. CASE load # NoLoad
    <3>1. load \in Loads /\ LoadPresent
      BY <2>2 DEF FInv, LoadPresent
    <3>2. /\ nc <= load.older /\ load.older <= count /\ load.older \in 0 .. DEPTH
          /\ load.tag = Slot(load.older)
      BY <3>1 DEF LoadPlaced, Loads
    <3>3. c = 1 => nc < load.older
      BY <3>1, NCommittedIs DEF CycleWith, FInv
    <3>4. load' = [load EXCEPT !.older = load.older - p]
      <4>1. CASE pop
        BY <1>3, <1>5, <3>1, <4>1 DEF InFlight
      <4>2. CASE ~pop
        <5>1. load' = load /\ load.older - p = load.older
          BY <1>1, <1>3, <1>5, <3>2, <4>2 DEF InFlight
        <5> QED
          BY <3>1, <5>1 DEF Loads
      <4> QED
        BY <4>1, <4>2
    <3>5. load.older - p \in 0 .. DEPTH
      BY <1>1, <1>2, <3>2
    <3> PICK n \in 0 .. DEPTH : n = load.older
      BY <3>2
    <3> PICK k \in 0 .. DEPTH : k = n - p
      BY <3>5
    <3>6. load' \in Loads /\ load'.older = k /\ load'.tag = load.tag
      BY <3>1, <3>4, <3>5 DEF Loads
    <3>7. Slot(k)' = Slot(n)
      <4>1. n >= p
        BY <1>1, <1>2
      <4>2. Slot(n - p)' = Slot(n)
        BY <1>1, <4>1
      <4> QED
        BY <4>2
    <3>8. nc + c - p <= k /\ k <= count'
      BY <1>1, <1>2, <3>2, <3>3
    <3>9. Slot(load.older)' = Slot(k)'
      BY <3>6 DEF Slot
    <3> QED
      BY <3>2, <3>6, <3>7, <3>8, <3>9 DEF LoadPlaced
  <2> QED
    BY <2>1, <2>2
<1>6. CASE Answer
  BY <1>6 DEF Answer, LoadPlaced, LoadPresent
<1> QED
  BY <1>4, <1>5, <1>6 DEF CycleWith

(* A clock cycle preserves the invariant.                                  *)
LEMMA FInvCycle ==
  ASSUME FInv, LoadCycle
  PROVE  FInv'
<1> PICK alloc_en \in BOOLEAN, creq \in ExecRequests,
         commit \in CommitRequests, urgent \in BOOLEAN, grant \in Grants :
           CycleWith(alloc_en, creq, commit, urgent, grant)
  BY LoadCycleIs
<1> PICK nc \in 0 .. count :
      RingOf(nc) /\ LoadPlaced(nc) /\ (serving => nc > 0)
  BY DEF FInv
<1>r. PICK ready \in BOOLEAN : ready = (grant = "done")
  OBVIOUS
<1>0. CycleStep(alloc_en, creq, commit, urgent, ready)
  BY <1>r DEF CycleWith
<1>t. TypeOK /\ RingOf(nc)
  BY DEF FInv
<1>a. \E a, c, p \in {0, 1} :
        Moves(nc, a, c, p) /\ MovesFor(alloc_en, commit, ready, a, c, p)
  BY <1>0, <1>t, CycleMoves
<1>b. PICK a \in {0, 1}, c \in {0, 1}, p \in {0, 1} :
        Moves(nc, a, c, p) /\ MovesFor(alloc_en, commit, ready, a, c, p)
  BY <1>a
<1>c. /\ a = 1 => alloc_en
      /\ c = 1 <=> commit.en
      /\ p = 1 <=> dreq_valid /\ grant = "done"
  BY <1>b, <1>r DEF MovesFor
<1>1. TypeOK' /\ nc + c - p \in 0 .. count' /\ RingOf(nc + c - p)'
  BY <1>b DEF Moves
<1>2. load' \in Loads \cup {NoLoad} /\ LoadPlaced(nc + c - p)'
  BY <1>b, <1>c, LoadAfterCycle
<1>3. cache' \in Q!Memory /\ serving' \in BOOLEAN
  BY CacheType DEF CycleWith
<1>4. serving' => nc + c - p > 0
  <2> SUFFICES ASSUME serving' PROVE nc + c - p > 0
    OBVIOUS
  <2>1. grant = "wait"
    BY DEF CycleWith, CacheWrite
  <2>2. nc > 0
    BY <2>1, HeadIsCommitted
  <2>3. p = 0 /\ c \in Nat /\ nc \in Nat
    <3>1. grant # "done"
      BY <2>1
    <3>2. nc \in Nat
      BY <1>t, DepthAssumption DEF TypeOK
    <3> QED
      BY <1>c, <3>1, <3>2
  <2> QED
    BY <2>2, <2>3
<1> QED
  BY <1>1, <1>2, <1>3, <1>4 DEF FInv

(* A flush preserves the invariant: it drops the load and the slots that   *)
(* are not committed, not the one that the arbiter serves.                 *)
LEMMA FInvFlush ==
  ASSUME ~FULL_FLUSH, FInv, LoadFlush
  PROVE  FInv'
<1> PICK nc \in 0 .. count : RingOf(nc) /\ (serving => nc > 0)
  BY DEF FInv
<1> PICK grant \in Grants : CacheWrite(grant)
  BY DEF LoadFlush
<1>1. FlushStep /\ ~AllCommitted /\ load' = NoLoad
  BY DEF LoadFlush, Flush
<1>2. TypeOK' /\ count' = nc /\ RingOf(nc)'
  BY <1>1, FlushRingOf DEF FInv
<1>3. cache' \in Q!Memory /\ serving' \in BOOLEAN
  BY CacheType
<1>4. serving' => nc > 0
  BY HeadIsCommitted DEF CacheWrite
<1>5. LoadPlaced(nc)'
  BY <1>1 DEF LoadPlaced, LoadPresent
<1>6. nc \in 0 .. count'
  BY <1>2, DepthAssumption DEF FInv, TypeOK
<1> QED
  BY <1>1, <1>2, <1>3, <1>4, <1>5, <1>6 DEF FInv

(* The invariant holds initially.                                          *)
LEMMA FInvInit == FInit => FInv
<1> SUFFICES ASSUME FInit PROVE FInv
  OBVIOUS
<1>1. TypeOK /\ RingOf(0) /\ count = 0
  BY InitRingOf DEF FInit
<1>2. load = NoLoad /\ serving = FALSE /\ cache \in Q!Memory
  BY DEF FInit
<1>3. LoadPlaced(0) /\ 0 \in 0 .. count /\ ~serving
  BY <1>1, <1>2 DEF LoadPlaced, LoadPresent
<1> QED
  BY <1>1, <1>2, <1>3 DEF FInv

(* Every step preserves the invariant.                                     *)
LEMMA FInvNext ==
  ASSUME ~FULL_FLUSH, FInv, [FNext]_fwvars
  PROVE  FInv'
<1>1. CASE LoadCycle
  BY <1>1, FInvCycle
<1>2. CASE LoadFlush
  BY <1>2, FInvFlush
<1>3. CASE UNCHANGED fwvars
  BY <1>3 DEF FInv, TypeOK, RingOf, LoadPlaced, LoadPresent, Slot,
              CommittedSlot, ReadyToDrain, SpeculativeSlot, FreeSlot,
              fwvars, sbvars
<1> QED
  BY <1>1, <1>2, <1>3 DEF FNext

(* So it holds in every reachable state.                                   *)
LEMMA FInvariance ==
  ASSUME ~FULL_FLUSH
  PROVE  FSpec => []FInv
<1>1. FInv /\ [FNext]_fwvars => FInv'
  BY FInvNext
<1> QED
  BY <1>1, FInvInit, PTL DEF FSpec

-----------------------------------------------------------------------------
(* Greatest and least.                                                     *)

(* Among subsets of a finite set, some contain no smaller one: strict      *)
(* inclusion is well-founded.                                              *)
HasMinimal(F) == \E A \in F : \A B \in F : B \subseteq A => B = A

LEMMA MinimalSubset ==
  ASSUME NEW n \in Nat, NEW F \in SUBSET (SUBSET (1 .. n)), F # {}
  PROVE  HasMinimal(F)
<1> DEFINE S == 1 .. n
<1>0. IsFiniteSet(S)
  BY FS_Interval
<1> HIDE DEF S
<1>1. IsWellFoundedOn(StrictSubsetOrdering(S), FiniteSubsetsOf(S))
  BY FS_StrictSubsetOrderingWellFounded
<1>2. F \subseteq FiniteSubsetsOf(S)
  BY <1>0, FS_FiniteSubsetsOfFinite DEF S
<1>3. \E A \in F : \A B \in F : ~(<<B, A>> \in StrictSubsetOrdering(S))
  BY <1>1, <1>2, WFMin
<1>4. PICK A \in F : \A B \in F : ~(<<B, A>> \in StrictSubsetOrdering(S))
  BY <1>3
<1>5. ASSUME NEW B \in F, B \subseteq A PROVE B = A
  <2>1. A \in SUBSET S /\ B \in SUBSET S
    BY DEF S
  <2>2. ~(<<B, A>> \in StrictSubsetOrdering(S))
    BY <1>4
  <2> QED
    BY <1>5, <2>1, <2>2 DEF StrictSubsetOrdering
<1> QED
  BY <1>5 DEF HasMinimal

(* So a nonempty set of numbers up to n has a greatest and a least one.    *)
LEMMA MaxIs ==
  ASSUME NEW n \in Nat, NEW T, T \subseteq 1 .. n, T # {}
  PROVE  Max(T) \in T /\ \A y \in T : y <= Max(T)
<1> DEFINE Up(x) == {y \in T : x <= y}
           F == {Up(x) : x \in T}
<1>2. F \in SUBSET (SUBSET (1 .. n)) /\ F # {}
  OBVIOUS
<1>3. HasMinimal(F)
  <2> HIDE DEF F
  <2> QED
    BY <1>2, MinimalSubset
<1>b. PICK A \in F : \A B \in F : B \subseteq A => B = A
  BY <1>3 DEF HasMinimal
<1>a. PICK x \in T : A = Up(x)
  BY <1>b
<1>4. \A z \in T : Up(z) \subseteq Up(x) => Up(z) = Up(x)
  <2> TAKE z \in T
  <2>1. Up(z) \in F
    OBVIOUS
  <2> QED
    BY <1>b, <1>a, <2>1
<1>5. \A y \in T : x >= y
  <2> SUFFICES ASSUME NEW y \in T, x < y PROVE FALSE
    OBVIOUS
  <2>1. T \subseteq Int /\ x \in Int /\ y \in Int
    OBVIOUS
  <2>2. ASSUME NEW z \in T, y <= z PROVE x <= z
    BY <2>1, <2>2
  <2>3. x \in Up(x) /\ x \notin Up(y)
    BY <2>1
  <2> QED
    BY <1>4, <2>2, <2>3
<1>6. Max(T) \in T /\ \A y \in T : Max(T) >= y
  BY <1>5 DEF Max
<1> QED
  BY <1>6

(* The least one, by counting down from n.                                 *)
LEMMA MinIs ==
  ASSUME NEW n \in Nat, NEW T, T \subseteq 1 .. n, T # {}
  PROVE  Min(T) \in T /\ \A y \in T : Min(T) <= y
<1> DEFINE R == {n + 1 - y : y \in T}
<1>1. R \subseteq 1 .. n /\ R # {}
  <2>1. \A y \in T : n + 1 - y \in 1 .. n
    OBVIOUS
  <2> QED
    BY <2>1
<1>2. Max(R) \in R /\ \A y \in R : y <= Max(R)
  <2> HIDE DEF R
  <2> QED BY <1>1, MaxIs
<1>3. PICK x \in T : Max(R) = n + 1 - x
  BY <1>2
<1>4. \A y \in T : x <= y
  <2> TAKE y \in T
  <2>1. n + 1 - y \in R /\ n + 1 - y <= Max(R)
    BY <1>2
  <2> QED BY <2>1, <1>3
<1> QED
  BY <1>4 DEF Min

(* An element above all others is the greatest.                            *)
LEMMA MaxIsThat ==
  ASSUME NEW n \in Nat, NEW T, T \subseteq 1 .. n, NEW x \in T,
         \A y \in T : y <= x
  PROVE  Max(T) = x
<1>1. Max(T) \in T /\ x <= Max(T)
  BY MaxIs
<1> PICK m \in T : m = Max(T) /\ x <= m
  BY <1>1
<1>2. m \in Int /\ x \in Int
  OBVIOUS
<1> QED
  BY <1>2

-----------------------------------------------------------------------------
(* The search of a load.                                                   *)

(* d slots back from the one n places after the head.                      *)
LEMMA BackSlot ==
  ASSUME head_ptr \in Slots, NEW n \in 0 .. DEPTH-1, NEW d \in 1 .. DEPTH
  PROVE  Back(Slot(n), d) = Slot(IF d <= n THEN n - d ELSE n - d + DEPTH)
BY DepthAssumption DEF Back, Slot, Wrap, Slots

(* Back from the age tag, the search meets the older stores in turn, and   *)
(* then only slots that the age check passes over.                         *)
LEMMA SearchOrder ==
  ASSUME head_ptr \in Slots, NEW n \in 0 .. DEPTH-1, NEW d \in 1 .. DEPTH
  PROVE  /\ d <= n => Back(Slot(n), d) = Slot(n - d)
         /\ IsOlder(Back(Slot(n), d), Slot(n)) <=> d <= n
<1> PICK j : j = IF d <= n THEN n - d ELSE n - d + DEPTH
  OBVIOUS
<1>1. j \in 0 .. DEPTH-1 /\ (j < n <=> d <= n)
  BY DepthAssumption
<1>2. Back(Slot(n), d) = Slot(j)
  BY BackSlot
<1>3. Slot(j) \in Slots
  BY <1>1, WrapType, DepthAssumption DEF Slot
<1>4. IsOlder(Slot(j), Slot(n)) <=> \E k \in 0 .. n-1 : Slot(j) = Slot(k)
  BY <1>3, AgeCheck
<1>5. (\E k \in 0 .. n-1 : Slot(j) = Slot(k)) <=> j < n
  <2>1. ASSUME NEW k \in 0 .. n-1, Slot(j) = Slot(k)
        PROVE  j = k
    BY <1>1, <2>1, WrapInjective, DepthAssumption DEF Slot
  <2>2. j < n => j \in 0 .. n-1
    BY <1>1
  <2> QED
    BY <2>1, <2>2
<1>6. d <= n => j = n - d
  OBVIOUS
<1> QED
  BY <1>1, <1>2, <1>4, <1>5, <1>6

(* The older stores, once the load asks: they are in the slots from the    *)
(* head, allocated and executed.                                           *)
LEMMA OlderAre ==
  ASSUME FInv, LoadAsks, load.older < DEPTH
  PROVE  /\ head_ptr \in Slots /\ load.older \in 0 .. DEPTH-1
         /\ load.tag = Slot(load.older) /\ load.acc \in Accesses
         /\ DOMAIN OlderStores = 1 .. load.older
         /\ \A k \in 1 .. load.older :
              /\ OlderStores[k] = buffer[Slot(k-1)].store
              /\ buffer[Slot(k-1)].valid /\ buffer[Slot(k-1)].allocated
              /\ OlderStores[k] \in Stores
<1> PICK nc \in 0 .. count : RingOf(nc) /\ LoadPlaced(nc)
  BY DEF FInv
<1>1. load \in Loads /\ LoadPresent
  BY DEF FInv, LoadAsks, LoadPresent
<1>2. /\ head_ptr \in Slots /\ load.older \in 0 .. DEPTH-1
      /\ load.tag = Slot(load.older) /\ load.acc \in Accesses
      /\ load.older <= count /\ count \in 0 .. DEPTH
      /\ buffer \in [Slots -> Entry]
  BY <1>1, DepthAssumption DEF FInv, TypeOK, LoadPlaced, Loads
<1> DEFINE S == {Queue[k] : k \in 1 .. count}
<1>3. /\ OlderStores \in Seq(S) /\ Len(OlderStores) = load.older
      /\ \A k \in 1 .. load.older : OlderStores[k] = Queue[k]
  <2>1. \A k \in 1 .. load.older : Queue[k] \in S
    BY <1>2, DepthAssumption
  <2> HIDE DEF S
  <2>2. /\ SubSeq(Queue, 1, load.older) \in Seq(S)
        /\ Len(SubSeq(Queue, 1, load.older))
             = IF 1 <= load.older THEN load.older - 1 + 1 ELSE 0
        /\ \A k \in 1 .. load.older - 1 + 1 :
             SubSeq(Queue, 1, load.older)[k] = Queue[1 + k - 1]
    BY <1>2, <2>1, SubSeqProperties, DepthAssumption
  <2> QED
    BY <1>2, <2>2, DepthAssumption DEF OlderStores
<1>4. DOMAIN OlderStores = 1 .. load.older
  BY <1>3
<1>5. ASSUME NEW k \in 1 .. load.older
      PROVE  /\ OlderStores[k] = buffer[Slot(k-1)].store
             /\ buffer[Slot(k-1)].valid /\ buffer[Slot(k-1)].allocated
             /\ OlderStores[k] \in Stores
  <2> PICK j \in 0 .. DEPTH-1 : j = k - 1 /\ j < count
    BY <1>2, DepthAssumption
  <2>1. SlotAt(k) = Slot(j) /\ Slot(j) \in Slots
    BY <1>2, WrapType, DepthAssumption DEF SlotAt, Slot, Wrap, Slots
  <2>2. buffer[Slot(j)].allocated
    <3>1. \/ CommittedSlot(Slot(j))
          \/ SpeculativeSlot(Slot(j))
      BY <1>2, DepthAssumption DEF RingOf
    <3> QED
      BY <3>1 DEF CommittedSlot, ReadyToDrain, SpeculativeSlot
  <2>3. Queue[k] = IF buffer[Slot(j)].valid THEN buffer[Slot(j)].store
                                            ELSE Pending
    BY <1>2, <2>1, DepthAssumption DEF Queue
  <2>4. OlderStores[k] = Queue[k] /\ OlderStores[k] # Pending
    BY <1>3 DEF LoadAsks
  <2>5. buffer[Slot(j)].store \in Stores
    BY <1>2, <2>1 DEF Entry
  <2> QED
    BY <2>2, <2>3, <2>4, <2>5
<1> QED
  BY <1>2, <1>4, <1>5

(* The older stores that touch a byte of the load, by their place.         *)
Touching ==
  {k \in 1 .. load.older :
     /\ OlderStores[k].acc.word = load.acc.word
     /\ OlderStores[k].acc.be \cap load.acc.be # {}}

(* The distances at which the search finds an overlap are those of the     *)
(* older stores that touch the load.                                       *)
LEMMA MatchesAre ==
  ASSUME FInv, LoadAsks, load.older < DEPTH
  PROVE  Matches(load.tag, load.acc)
           = {d \in 1 .. load.older : load.older + 1 - d \in Touching}
<1> PICK n : n = load.older
  OBVIOUS
<1>1. /\ head_ptr \in Slots /\ n \in 0 .. DEPTH-1 /\ load.tag = Slot(n)
      /\ \A k \in 1 .. n :
           /\ OlderStores[k] = buffer[Slot(k-1)].store
           /\ buffer[Slot(k-1)].valid /\ buffer[Slot(k-1)].allocated
  BY OlderAre
<1>2. ASSUME NEW d \in 1 .. DEPTH
      PROVE  d \in Matches(load.tag, load.acc)
               <=> d \in 1 .. n /\ n + 1 - d \in Touching
  <2> PICK i : i = Back(Slot(n), d)
    OBVIOUS
  <2>1. d \in Matches(load.tag, load.acc) <=>
          /\ buffer[i].allocated /\ buffer[i].valid /\ IsOlder(i, Slot(n))
          /\ Overlaps(i, load.acc)
    BY <1>1 DEF Matches
  <2>2. (IsOlder(i, Slot(n)) <=> d <= n) /\ (d <= n => i = Slot(n - d))
    BY <1>1, SearchOrder
  <2>3. CASE d <= n
    <3> PICK k \in 1 .. n : k = n + 1 - d /\ k - 1 = n - d
      BY <1>1, <2>3
    <3>1. /\ OlderStores[k] = buffer[i].store
          /\ buffer[i].valid /\ buffer[i].allocated
      BY <1>1, <2>2, <2>3
    <3>2. k \in Touching <=> Overlaps(i, load.acc)
      BY <3>1 DEF Touching, Overlaps
    <3>3. d \in 1 .. n
      BY <1>1, <2>3
    <3> QED
      BY <2>1, <2>2, <2>3, <3>1, <3>2, <3>3
  <2>4. CASE ~(d <= n)
    BY <1>1, <2>1, <2>2, <2>4
  <2> QED
    BY <2>3, <2>4
<1>3. 1 .. n \subseteq 1 .. DEPTH
  BY <1>1, DepthAssumption
<1>4. Matches(load.tag, load.acc) \subseteq 1 .. DEPTH
  BY DEF Matches
<1> QED
  BY <1>2, <1>3, <1>4

(* The first match back from the tag is the youngest store that touches    *)
(* the load.                                                               *)
LEMMA MatchIs ==
  ASSUME FInv, LoadAsks, load.older < DEPTH
  PROVE  /\ Touching \subseteq 1 .. load.older
         /\ Matches(load.tag, load.acc) # {} <=> Touching # {}
         /\ Touching # {} =>
              /\ Match(load.tag, load.acc) = OlderStores[Max(Touching)]
              /\ Max(Touching) \in Touching
              /\ \A k \in Touching : k <= Max(Touching)
<1> PICK n : n = load.older
  OBVIOUS
<1> PICK M : M = Matches(load.tag, load.acc)
  OBVIOUS
<1>1. M = {d \in 1 .. n : n + 1 - d \in Touching}
  BY MatchesAre
<1>2. /\ head_ptr \in Slots /\ n \in 0 .. DEPTH-1 /\ load.tag = Slot(n)
      /\ n \in Nat
      /\ \A k \in 1 .. n : OlderStores[k] = buffer[Slot(k-1)].store
  BY OlderAre, DepthAssumption
<1>3. Touching \subseteq 1 .. n
  BY DEF Touching
<1>4. \A k \in Touching : n + 1 - k \in M
  BY <1>1, <1>2, <1>3
<1>5. M # {} <=> Touching # {}
  BY <1>1, <1>4
<1>6. ASSUME Touching # {}
      PROVE  /\ Match(load.tag, load.acc) = OlderStores[Max(Touching)]
             /\ Max(Touching) \in Touching
             /\ \A k \in Touching : k <= Max(Touching)
  <2>1. Min(M) \in M /\ \A d \in M : Min(M) <= d
    <3>1. M \subseteq 1 .. n /\ M # {}
      BY <1>1, <1>5, <1>6
    <3> QED
      BY <1>2, <3>1, MinIs
  <2> PICK d \in M : d = Min(M) /\ d \in 1 .. n /\ n + 1 - d \in Touching
    BY <1>1, <2>1
  <2> PICK k \in 1 .. n : k = n + 1 - d /\ k - 1 = n - d /\ k \in Touching
    BY <1>2
  <2>2. \A j \in Touching : j <= k
    <3> TAKE j \in Touching
    <3>1. n + 1 - j \in M /\ j \in 1 .. n
      BY <1>3, <1>4
    <3>2. d <= n + 1 - j
      BY <2>1, <3>1
    <3> QED
      BY <1>2, <3>1, <3>2
  <2>3. Max(Touching) = k
    BY <1>2, <1>3, <2>2, MaxIsThat
  <2>4. Back(Slot(n), d) = Slot(n - d)
    BY <1>2, SearchOrder, DepthAssumption
  <2>5. Match(load.tag, load.acc) = buffer[Slot(n - d)].store
    BY <1>2, <2>4 DEF Match
  <2> QED
    BY <1>2, <2>2, <2>3, <2>5
<1> QED
  BY <1>3, <1>5, <1>6

-----------------------------------------------------------------------------
(* What a load returns, and when it waits.                                 *)

(* The invariant says when a load waits.                                   *)
LEMMA LoadWaitsInFInv == FInv => LoadWaitsOnlyForPartialOverlap
<1> SUFFICES ASSUME FInv, LoadAsks, load.older < DEPTH
             PROVE  ld_stall(load.tag, load.acc) <=>
                      /\ Touching # {}
                      /\ ~ (load.acc.be \subseteq
                               OlderStores[Max(Touching)].acc.be)
  BY DEF LoadWaitsOnlyForPartialOverlap, Touching
<1> QED
  BY MatchIs DEF ld_stall

(* A byte enable names lanes of the word.                                  *)
LEMMA EnabledLanes == \A be \in ByteEnables : be \subseteq Lanes
<1> SUFFICES ASSUME NEW p \in [off : Lanes, width : {1, 2, 4}],
                    p.off + p.width <= LANES,
                    NEW l \in p.off .. p.off + p.width - 1
             PROVE  l \in Lanes
  BY DEF ByteEnables
<1> QED
  BY PayloadAssumption DEF Lanes

(* StoreQueue speaks of the same Max.                                      *)
LEMMA MaxOfQueue == \A S : Q!Max(S) = Max(S)
BY DEF Q!Max, Max

(* The invariant says what a load returns: the youngest store that touches *)
(* the load has all of its bytes, or no store touches any.                 *)
LEMMA LoadSeesInFInv == FInv => LoadSeesProgramOrder
<1> SUFFICES ASSUME FInv, LoadAnswered, load.older < DEPTH,
                    NEW l \in load.acc.be
             PROVE  LoadedLane(l)
                      = Q!WrittenAll(cache, OlderStores)[<<load.acc.word, l>>]
  BY DEF LoadSeesProgramOrder
<1> DEFINE b == <<load.acc.word, l>>
           W == Q!Writers(OlderStores, b)
<1>1. LoadAsks /\ ~ld_stall(load.tag, load.acc)
  BY DEF LoadAnswered
<1>2. /\ load.acc \in Accesses /\ load.older \in 0 .. DEPTH-1
      /\ DOMAIN OlderStores = 1 .. load.older
  BY <1>1, OlderAre
<1>3. b \in Words \X Lanes
  BY <1>2, EnabledLanes DEF Accesses, Words
<1>4. W = {k \in 1 .. load.older :
             /\ load.acc.word = OlderStores[k].acc.word
             /\ l \in OlderStores[k].acc.be}
  BY <1>2 DEF Q!Writers
<1>5. W \subseteq Touching
  BY <1>4 DEF Touching
<1>6. Q!WrittenAll(cache, OlderStores)[b]
        = IF W = {} THEN cache[b] ELSE OlderStores[Max(W)].data
  BY <1>3, MaxOfQueue DEF Q!WrittenAll
<1>7. CASE Touching = {}
  <2>1. ~ld_hit(load.tag, load.acc)
    BY <1>1, <1>7, MatchIs DEF ld_hit
  <2> QED
    BY <1>5, <1>6, <1>7, <2>1 DEF LoadedLane
<1>8. CASE Touching # {}
  <2> PICK m : m = Max(Touching)
    OBVIOUS
  <2>1. /\ Match(load.tag, load.acc) = OlderStores[m]
        /\ m \in Touching /\ \A k \in Touching : k <= m
        /\ Touching \subseteq 1 .. load.older
        /\ Matches(load.tag, load.acc) # {}
    BY <1>1, <1>8, MatchIs
  <2>2. load.acc.be \subseteq OlderStores[m].acc.be
    BY <1>1, <2>1 DEF ld_stall
  <2>3. m \in W
    BY <1>4, <2>1, <2>2 DEF Touching
  <2>4. Max(W) = m
    <3> HIDE DEF W
    <3>1. load.older \in Nat /\ W \subseteq 1 .. load.older
      BY <1>2, <1>5, <2>1, DepthAssumption
    <3>2. \A k \in W : k <= m
      BY <1>5, <2>1
    <3> QED
      BY <2>3, <3>1, <3>2, MaxIsThat
  <2>5. LoadedLane(l) = OlderStores[m].data
    BY <2>1, <2>2 DEF LoadedLane, ld_hit, ld_data
  <2> QED
    BY <1>6, <2>3, <2>4, <2>5
<1> QED
  BY <1>7, <1>8

(* Writing a sequence of stores is writing them one by one, oldest first.  *)
THEOREM WrittenOneByOne ==
  ASSUME NEW m \in Q!Memory, NEW sts \in Seq(Stores), NEW st \in Stores
  PROVE  /\ Q!WrittenAll(m, <<>>) = m
         /\ Q!WrittenAll(m, Append(sts, st))
              = Q!Written(Q!WrittenAll(m, sts), st)
<1>1. Q!WrittenAll(m, <<>>) = m
  BY DEF Q!WrittenAll, Q!Writers, Q!Memory
<1> PICK n \in Nat : n = Len(sts)
  OBVIOUS
<1> PICK all : all = Append(sts, st)
  OBVIOUS
<1>2. /\ DOMAIN sts = 1 .. n /\ DOMAIN all = 1 .. n+1
      /\ all[n+1] = st /\ \A k \in 1 .. n : all[k] = sts[k]
  BY AppendProperties, LenProperties
<1>3. ASSUME NEW b \in Words \X Lanes
      PROVE  Q!WrittenAll(m, all)[b] = Q!Written(Q!WrittenAll(m, sts), st)[b]
  <2> DEFINE V == Q!Writers(all, b)
             W == Q!Writers(sts, b)
  <2>1. V \subseteq 1 .. n+1 /\ W \subseteq 1 .. n
    BY <1>2 DEF Q!Writers
  <2>2. \A k \in 1 .. n : k \in V <=> k \in W
    BY <1>2 DEF Q!Writers
  <2>3. n+1 \in V <=> b[1] = st.acc.word /\ b[2] \in st.acc.be
    BY <1>2 DEF Q!Writers
  <2>4. /\ Q!WrittenAll(m, all)[b] = IF V = {} THEN m[b] ELSE all[Max(V)].data
        /\ Q!WrittenAll(m, sts)[b] = IF W = {} THEN m[b] ELSE sts[Max(W)].data
    BY MaxOfQueue DEF Q!WrittenAll
  <2>5. Q!Written(Q!WrittenAll(m, sts), st)[b]
          = IF n+1 \in V THEN st.data ELSE Q!WrittenAll(m, sts)[b]
    BY <2>3 DEF Q!Written
  <2> HIDE DEF V, W
  <2>6. CASE n+1 \in V
    <3>1. \A k \in V : k <= n+1
      BY <2>1
    <3>2. Max(V) = n+1
      <4> PICK x \in Nat : x = n+1
        OBVIOUS
      <4>1. x \in V /\ V \subseteq 1 .. x /\ \A k \in V : k <= x
        BY <2>1, <2>6, <3>1
      <4> QED
        BY <4>1, MaxIsThat
    <3> QED
      BY <1>2, <2>4, <2>5, <2>6, <3>2
  <2>7. CASE n+1 \notin V
    <3>1. V = W
      <4>1. \A k \in 1 .. n+1 : k = n+1 \/ k \in 1 .. n
        OBVIOUS
      <4> QED
        BY <2>1, <2>2, <2>7, <4>1
    <3>2. W # {} => Max(W) \in 1 .. n
      BY <2>1, MaxIs
    <3> QED
      BY <1>2, <2>4, <2>5, <2>7, <3>1, <3>2
  <2> QED
    BY <2>6, <2>7
<1>4. Q!WrittenAll(m, all) = Q!Written(Q!WrittenAll(m, sts), st)
  BY <1>3 DEF Q!WrittenAll, Q!Written
<1> QED
  BY <1>1, <1>4

(* A load is made to wait exactly when the youngest older store that       *)
(* touches its bytes has only some of them (store_buffer.sv:231-240).      *)
THEOREM LoadWaitsTheorem ==
  ASSUME ~FULL_FLUSH
  PROVE  FSpec => []LoadWaitsOnlyForPartialOverlap
BY FInvariance, LoadWaitsInFInv, PTL

(* Whatever the buffer's depth, and however the pointers wrap around,      *)
(* stores leave and flushes come between: a load that is answered returns, *)
(* byte by byte, what the stores before it in program order left there     *)
(* (store_buffer.sv:184-247).                                              *)
THEOREM LoadSeesTheorem ==
  ASSUME ~FULL_FLUSH
  PROVE  FSpec => []LoadSeesProgramOrder
BY FInvariance, LoadSeesInFInv, PTL

-----------------------------------------------------------------------------
(* The ring implements the queue of stores.                                *)

(* The number of committed stores, before and after a step.                *)
CountsCommitted ==
  \A nc \in 0 .. count : TypeOK /\ RingOf(nc) => NCommitted = nc

(* NCommittedIs, before and after a step.                                  *)
LEMMA NCommittedAfter == CountsCommitted /\ CountsCommitted'
<1>1. CountsCommitted
  BY NCommittedIs DEF CountsCommitted
<1> QED
  BY <1>1, PTL

(* What the queue shows of a slot.                                         *)
Content(i) == IF buffer[i].valid THEN buffer[i].store ELSE Pending

QueueIs ==
  TypeOK =>
    /\ Queue \in Seq(Stores \cup {Pending}) /\ Len(Queue) = count
    /\ \A k \in 0 .. DEPTH-1 : k < count => Queue[k+1] = Content(Slot(k))

(* The queue shows the slots from the head, in their order.                *)
LEMMA QueueIsThat == QueueIs
<1> SUFFICES ASSUME TypeOK
             PROVE  /\ Queue \in Seq(Stores \cup {Pending})
                    /\ Len(Queue) = count
                    /\ \A k \in 0 .. DEPTH-1 :
                         k < count => Queue[k+1] = Content(Slot(k))
  BY DEF QueueIs
<1>1. /\ head_ptr \in Slots /\ count \in Nat /\ count <= DEPTH
      /\ DEPTH \in Nat /\ buffer \in [Slots -> Entry]
  BY DepthAssumption DEF TypeOK
<1>2. ASSUME NEW k \in 1 .. count
      PROVE  /\ Queue[k] = Content(Slot(k-1))
             /\ Queue[k] \in Stores \cup {Pending}
  <2>1. SlotAt(k) = Slot(k-1) /\ Slot(k-1) \in Slots
    BY <1>1, DepthAssumption DEF SlotAt, Slot, Wrap, Slots
  <2> QED
    BY <1>1, <2>1 DEF Queue, Content, Entry
<1>3. Queue \in [1 .. count -> Stores \cup {Pending}]
  BY <1>2 DEF Queue
<1>4. Queue \in Seq(Stores \cup {Pending}) /\ Len(Queue) = count
  <2> PICK q : q = Queue
    OBVIOUS
  <2> PICK S : S = Stores \cup {Pending}
    OBVIOUS
  <2>1. q \in [1 .. count -> S]
    BY <1>3
  <2>2. q \in Seq(S) /\ Len(q) = count
    BY <1>1, <2>1
  <2> QED
    BY <2>2
<1>5. \A k \in 0 .. DEPTH-1 : k < count => Queue[k+1] = Content(Slot(k))
  <2> SUFFICES ASSUME NEW k \in 0 .. DEPTH-1, k < count
               PROVE  Queue[k+1] = Content(Slot(k))
    OBVIOUS
  <2> PICK j \in 1 .. count : j = k + 1 /\ j - 1 = k
    BY <1>1
  <2> QED
    BY <1>2
<1> QED
  BY <1>4, <1>5

(* The same before and after a step.                                       *)
LEMMA QueueAfter == QueueIs /\ QueueIs'
BY QueueIsThat, PTL

(* What a cycle makes of the slot j places after the head.                 *)
LEMMA ContentAfterCycle ==
  ASSUME TypeOK, NEW nc \in 0 .. count, RingOf(nc),
         NEW alloc_en \in BOOLEAN, NEW creq \in ExecRequests,
         NEW commit \in CommitRequests, NEW urgent \in BOOLEAN,
         NEW ready \in BOOLEAN,
         CycleStep(alloc_en, creq, commit, urgent, ready),
         NEW a \in {0, 1}, NEW c \in {0, 1}, NEW p \in {0, 1},
         MovesFor(alloc_en, commit, ready, a, c, p),
         NEW j \in 0 .. DEPTH-1, p <= j, j < count + a,
         NEW i \in Slots, i = Slot(j)
  PROVE  Content(i)' =
           IF j = count THEN Pending
           ELSE IF creq.en /\ creq.idx = i THEN creq.store ELSE Content(i)
<1>0. PICK alloc \in BOOLEAN, pop \in BOOLEAN :
        alloc = (alloc_en /\ ~sb_full) /\ pop = (dreq_valid /\ ready)
  OBVIOUS
<1>1. buffer'[i] = Updated(i, alloc, creq, commit, pop)
  BY <1>0 DEF CycleStep, DataPath
<1>2. /\ head_ptr \in Slots /\ count \in 0 .. DEPTH /\ DEPTH \in Nat
      /\ buffer[i] \in Entry /\ creq.en \in BOOLEAN
  BY RequestTypes, DepthAssumption DEF TypeOK
<1>3. (a = 1 <=> alloc) /\ (p = 1 <=> pop) /\ (alloc => ~sb_full)
  BY <1>0 DEF MovesFor
<1>4. pop => i # head_ptr
  <2>1. Slot(0) = head_ptr
    BY <1>2, WrapSucc DEF Slot
  <2>2. pop => j # 0
    BY <1>3
  <2> QED
    BY <1>2, <2>1, <2>2, WrapInjective DEF Slot
<1>5. CASE j = count
  <2>1. alloc /\ i = tail_ptr
    BY <1>2, <1>3, <1>5 DEF RingOf
  <2>2. FreeSlot(i)
    BY <1>2, <1>5 DEF RingOf
  <2>3. ~(creq.en /\ i = creq.idx)
    BY <2>2, RequestTypes DEF FreeSlot, Executable
  <2>4. ~buffer'[i].valid
    <3>1. buffer'[i].valid <=> creq.en /\ i = creq.idx
      <4>1. alloc = TRUE /\ (pop /\ i = head_ptr) = FALSE
        BY <1>4, <2>1
      <4>2. PICK v \in BOOLEAN : v = (creq.en /\ i = creq.idx)
        OBVIOUS
      <4>3. Updated(i, alloc, creq, commit, pop).valid = v
        BY <1>2, <2>1, <4>1, <4>2, RequestTypes DEF Updated, Entry
      <4> QED
        BY <1>1, <4>2, <4>3
    <3> QED
      BY <2>3, <3>1
  <2> QED
    BY <1>5, <2>4 DEF Content
<1>6. CASE j # count
  <2>1. j < count
    BY <1>2, <1>6
  <2>2. ~(alloc /\ i = tail_ptr)
    <3> SUFFICES ASSUME alloc, i = tail_ptr PROVE FALSE
      OBVIOUS
    <3>1. count < DEPTH
      BY <1>2, <1>3 DEF sb_full
    <3>2. Slot(j) = Slot(count)
      BY DEF RingOf
    <3> QED
      BY <1>2, <2>1, <3>1, <3>2, WrapInjective DEF Slot
  <2>3. /\ buffer'[i].store = IF creq.en /\ i = creq.idx THEN creq.store
                                                        ELSE buffer[i].store
        /\ buffer'[i].valid <=> (creq.en /\ i = creq.idx) \/ buffer[i].valid
    BY <1>1, <1>2, <1>4, <2>2 DEF Updated, Entry
  <2> QED
    BY <1>6, <2>3 DEF Content
<1> QED
  BY <1>5, <1>6

(* The queue after a cycle, place by place.                                *)
LEMMA QueueAfterCycle ==
  ASSUME TypeOK, NEW nc \in 0 .. count, RingOf(nc),
         NEW alloc_en \in BOOLEAN, NEW creq \in ExecRequests,
         NEW commit \in CommitRequests, NEW urgent \in BOOLEAN,
         NEW ready \in BOOLEAN,
         CycleStep(alloc_en, creq, commit, urgent, ready),
         NEW a \in {0, 1}, NEW c \in {0, 1}, NEW p \in {0, 1},
         Moves(nc, a, c, p), MovesFor(alloc_en, commit, ready, a, c, p)
  PROVE  /\ Queue' \in Seq(Stores \cup {Pending})
         /\ Len(Queue') = count + a - p
         /\ \A j \in 0 .. DEPTH-1 :
              p <= j /\ j < count + a =>
                Queue'[j+1-p] =
                  IF j = count THEN Pending
                  ELSE IF creq.en /\ creq.idx = Slot(j) THEN creq.store
                  ELSE Queue[j+1]
<1>1. /\ head_ptr \in Slots /\ count \in 0 .. DEPTH /\ DEPTH \in Nat
  BY DepthAssumption DEF TypeOK
<1>2. TypeOK' /\ count' = count + a - p
  BY DEF Moves
<1>3. Queue' \in Seq(Stores \cup {Pending}) /\ Len(Queue') = count + a - p
  BY <1>2, QueueAfter DEF QueueIs
<1>4. ASSUME NEW j \in 0 .. DEPTH-1, p <= j, j < count + a
      PROVE  Queue'[j+1-p] =
                IF j = count THEN Pending
                ELSE IF creq.en /\ creq.idx = Slot(j) THEN creq.store
                ELSE Queue[j+1]
  <2> PICK i \in Slots : i = Slot(j)
    BY <1>1, WrapType DEF Slot
  <2> PICK k \in 0 .. DEPTH-1 : k = j - p /\ k < count' /\ k + 1 = j + 1 - p
    BY <1>1, <1>2, <1>4
  <2>1. Content(i)' = IF j = count THEN Pending
           ELSE IF creq.en /\ creq.idx = i THEN creq.store ELSE Content(i)
    BY <1>4, ContentAfterCycle
  <2>2. Slot(k)' = i
    <3>1. j \in 0 .. DEPTH
      BY <1>1
    <3>2. Slot(j - p)' = Slot(j)
      BY <1>4, <3>1 DEF Moves
    <3> QED
      BY <3>2
  <2>3. Queue'[k+1] = Content(Slot(k))'
    BY <1>2, QueueAfter DEF QueueIs
  <2>4. Content(Slot(k))' = Content(i)'
    BY <2>2 DEF Content
  <2>5. j # count => Queue[j+1] = Content(i)
    BY <1>1, <1>4, QueueAfter DEF QueueIs
  <2> QED
    BY <2>1, <2>3, <2>4, <2>5
<1> QED
  BY <1>3, <1>4

(* A sequence is what StoreQueue's step makes of another if it is so place *)
(* by place.                                                               *)
StepsTo(q, r, x, st, enter, leave) ==
  r = Q!Left(Q!Entered(IF x = 0 THEN q ELSE [q EXCEPT ![x] = st], enter),
             leave)
StepsByPlaces(q, r, x, st, a, p) ==
  /\ Len(r) = Len(q) + a - p
  /\ \A j \in 0 .. Len(q) + a - 1 :
       p <= j => r[j+1-p] = IF j = Len(q) THEN Pending
                            ELSE IF x = j+1 THEN st ELSE q[j+1]

(* The place-by-place form is enough.                                      *)
LEMMA SequenceStep ==
  ASSUME NEW S, Pending \in S, NEW q \in Seq(S), NEW r \in Seq(S),
         NEW x \in 0 .. Len(q), NEW st \in S,
         NEW enter \in BOOLEAN, NEW leave \in BOOLEAN,
         NEW a \in {0, 1}, NEW p \in {0, 1},
         a = 1 <=> enter, p = 1 <=> leave, leave => Len(q) > 0,
         StepsByPlaces(q, r, x, st, a, p)
  PROVE  StepsTo(q, r, x, st, enter, leave)
<1> PICK n \in Nat : n = Len(q)
  OBVIOUS
<1>1. PICK m : m = IF x = 0 THEN q ELSE [q EXCEPT ![x] = st]
  OBVIOUS
<1>2. /\ m \in Seq(S) /\ Len(m) = n
      /\ \A j \in 1 .. n : m[j] = IF x = j THEN st ELSE q[j]
  <2>1. CASE x = 0
    BY <1>1, <2>1
  <2>2. CASE x # 0
    <3>1. x \in 1 .. Len(q)
      BY <2>2
    <3> QED
      BY <1>1, <2>2, <3>1, ExceptSeq
  <2> QED
    BY <2>1, <2>2
<1>3. PICK e : e = Q!Entered(m, enter)
  OBVIOUS
<1>4. /\ e \in Seq(S) /\ Len(e) = n + a
      /\ \A j \in 1 .. n + a : e[j] = IF j = n + 1 THEN Pending ELSE m[j]
  <2>1. CASE enter
    <3>1. e = Append(m, Pending) /\ a = 1
      BY <1>3, <2>1 DEF Q!Entered
    <3>2. /\ e \in Seq(S) /\ Len(e) = n + 1
          /\ \A j \in 1 .. n : e[j] = m[j]
          /\ e[n+1] = Pending
      BY <1>2, <3>1, AppendProperties
    <3> QED
      BY <3>1, <3>2
  <2>2. CASE ~enter
    <3>1. e = m /\ a = 0
      BY <1>3, <2>2 DEF Q!Entered
    <3> QED
      BY <1>2, <3>1
  <2> QED
    BY <2>1, <2>2
<1>5. PICK t : t = Q!Left(e, leave)
  OBVIOUS
<1>6. /\ t \in Seq(S) /\ Len(t) = n + a - p
      /\ \A k \in 1 .. n + a - p : t[k] = e[k+p]
  <2>1. CASE leave
    <3>1. t = Tail(e) /\ p = 1 /\ n > 0 /\ e # <<>>
      BY <1>4, <1>5, <2>1 DEF Q!Left
    <3>2. /\ t \in Seq(S) /\ Len(t) = Len(e) - 1
          /\ \A k \in 1 .. Len(t) : t[k] = e[k+1]
      BY <1>4, <3>1, HeadTailProperties
    <3> QED
      BY <1>4, <3>1, <3>2
  <2>2. CASE ~leave
    <3>1. t = e /\ p = 0
      BY <1>5, <2>2 DEF Q!Left
    <3> QED
      BY <1>4, <3>1
  <2> QED
    BY <2>1, <2>2
<1>7. ASSUME NEW k \in 1 .. n + a - p
      PROVE  r[k] = t[k]
  <2> PICK j \in 0 .. n + a - 1 : j = k + p - 1 /\ p <= j /\ j + 1 - p = k
                                /\ j + 1 = k + p /\ j + 1 \in 1 .. n + a
    OBVIOUS
  <2>1. r[k] = IF j = n THEN Pending ELSE IF x = j+1 THEN st ELSE q[j+1]
    BY DEF StepsByPlaces
  <2>2. t[k] = IF j + 1 = n + 1 THEN Pending ELSE m[j+1]
    BY <1>4, <1>6
  <2>3. j # n => j + 1 \in 1 .. n
    OBVIOUS
  <2> QED
    BY <1>2, <2>1, <2>2, <2>3
<1>8. r = t
  BY <1>6, <1>7, SeqEqual DEF StepsByPlaces
<1> QED
  BY <1>1, <1>3, <1>5, <1>8 DEF StepsTo

(* The cache port writes the first store of the queue, when it writes.     *)
LEMMA WriteWritesFirst ==
  ASSUME FInv, NEW grant \in Grants, CacheWrite(grant),
         NEW ready \in BOOLEAN, ready = (grant = "done")
  PROVE  Q!MemoryWrite(ready)
<1> PICK nc \in 0 .. count : RingOf(nc)
  BY DEF FInv
<1>1. TypeOK /\ NCommitted = nc
  BY NCommittedIs DEF FInv
<1>2. CASE ready
  <2>1. grant = "done"
    BY <1>2
  <2>2. ReadyToDrain(head_ptr) /\ nc > 0
    BY <2>1, HeadIsCommitted
  <2>3. /\ Queue \in Seq(Stores \cup {Pending}) /\ Len(Queue) = count
        /\ \A k \in 0 .. DEPTH-1 : k < count => Queue[k+1] = Content(Slot(k))
    BY <1>1, QueueAfter DEF QueueIs
  <2>4. Slot(0) = head_ptr /\ 0 \in 0 .. DEPTH-1 /\ 0 < count
    BY <1>1, <2>2, WrapSucc, DepthAssumption DEF Slot, TypeOK
  <2>5. Queue[1] = dreq_store
    <3>1. Queue[0+1] = Content(head_ptr)
      BY <2>3, <2>4
    <3> QED
      BY <2>2, <3>1 DEF Content, ReadyToDrain, dreq_store
  <2>6. Head(Queue) = dreq_store
    BY <2>5 DEF Head
  <2>7. cache' = Q!Written(cache, dreq_store)
    BY <2>1 DEF CacheWrite
  <2> QED
    BY <1>1, <1>2, <2>2, <2>6, <2>7 DEF Q!MemoryWrite
<1>3. CASE ~ready
  BY <1>3 DEF Q!MemoryWrite, CacheWrite
<1> QED
  BY <1>2, <1>3

(* A clock cycle is a step of the queue: the executing store is x places   *)
(* from the front, or there is none.                                       *)
LEMMA CycleStepsQueue ==
  ASSUME FInv, LoadCycle
  PROVE  Q!Next
<1> PICK alloc_en \in BOOLEAN, creq \in ExecRequests,
         commit \in CommitRequests, urgent \in BOOLEAN, grant \in Grants :
           CycleWith(alloc_en, creq, commit, urgent, grant)
  BY LoadCycleIs
<1> PICK nc \in 0 .. count : RingOf(nc)
  BY DEF FInv
<1>r. PICK ready \in BOOLEAN : ready = (grant = "done")
  OBVIOUS
<1>0. CycleStep(alloc_en, creq, commit, urgent, ready)
  BY <1>r DEF CycleWith
<1>t. TypeOK /\ RingOf(nc)
  BY DEF FInv
<1>a. \E a, c, p \in {0, 1} :
        Moves(nc, a, c, p) /\ MovesFor(alloc_en, commit, ready, a, c, p)
  BY <1>0, <1>t, CycleMoves
<1>b. PICK a \in {0, 1}, c \in {0, 1}, p \in {0, 1} :
        Moves(nc, a, c, p) /\ MovesFor(alloc_en, commit, ready, a, c, p)
  BY <1>a
<1>1. PICK enter \in BOOLEAN, leave \in BOOLEAN :
        /\ enter = (alloc_en /\ ~sb_full)
        /\ leave = (dreq_valid /\ ready)
  OBVIOUS
<1>2. /\ a = 1 <=> enter
      /\ c = 1 <=> commit.en
      /\ p = 1 <=> leave
      /\ commit.en \in BOOLEAN /\ creq.en \in BOOLEAN
  BY <1>b, <1>1, <1>t, RequestTypes DEF MovesFor
<1>3. /\ count \in Nat /\ count <= DEPTH /\ DEPTH \in Nat /\ nc \in Nat
      /\ nc <= count /\ head_ptr \in Slots /\ count + a - p \in Nat
      /\ a = 1 => count < DEPTH
      /\ c = 1 => nc < count
      /\ p = 1 => nc > 0
  BY <1>b, <1>t, DepthAssumption DEF Moves, TypeOK
<1>4. NCommitted = nc /\ NCommitted' = nc + c - p
  <2>1. NCommitted = nc
    BY <1>t, NCommittedAfter DEF CountsCommitted
  <2>2. TypeOK' /\ nc + c - p \in 0 .. count' /\ RingOf(nc + c - p)'
    BY <1>b DEF Moves
  <2> PICK n : n = nc + c - p
    OBVIOUS
  <2>3. TypeOK' /\ n \in 0 .. count' /\ RingOf(n)'
    BY <2>2
  <2>4. NCommitted' = n
    BY <2>3, NCommittedAfter DEF CountsCommitted
  <2> QED
    BY <2>1, <2>4
<1>5. /\ Queue \in Seq(Stores \cup {Pending}) /\ Len(Queue) = count
      /\ \A k \in 0 .. DEPTH-1 : k < count => Queue[k+1] = Content(Slot(k))
  BY <1>t, QueueAfter DEF QueueIs
<1>6. enter => Len(Queue) < DEPTH
  BY <1>2, <1>3, <1>5
<1>7. commit.en => NCommitted < Len(Queue) /\ Queue[NCommitted+1] # Pending
  <2> SUFFICES ASSUME commit.en
               PROVE  nc < count /\ Queue[nc+1] # Pending
    BY <1>4, <1>5
  <2>1. nc < count /\ nc \in 0 .. DEPTH-1
    BY <1>2, <1>3
  <2>2. Committable(Slot(nc)) /\ Slot(nc) \in Slots
    BY <1>t, RequestTypes DEF RingOf, TypeOK
  <2>3. Queue[nc+1] \in Stores
    BY <1>t, <1>5, <2>1, <2>2 DEF Content, Committable, TypeOK, Entry
  <2> QED
    BY <2>1, <2>3, PendingAssumption
<1>8. NCommitted' = NCommitted + (IF commit.en THEN 1 ELSE 0)
                               - (IF leave THEN 1 ELSE 0)
  BY <1>2, <1>3, <1>4
<1>9. Q!MemoryWrite(ready)
  BY <1>r, WriteWritesFirst DEF CycleWith
<1>10. \E x \in 0 .. Len(Queue), st \in Stores :
        /\ x # 0 => x > NCommitted /\ Queue[x] = Pending
        /\ StepsTo(Queue, Queue', x, st, enter, leave)
  <2> PICK q \in Seq(Stores \cup {Pending}) : q = Queue
    BY <1>5
  <2>1. /\ Queue' \in Seq(Stores \cup {Pending})
        /\ Len(Queue') = count + a - p
        /\ \A j \in 0 .. DEPTH-1 :
             p <= j /\ j < count + a =>
               Queue'[j+1-p] =
                 IF j = count THEN Pending
                 ELSE IF creq.en /\ creq.idx = Slot(j) THEN creq.store
                 ELSE Queue[j+1]
    BY <1>0, <1>t, <1>b, QueueAfterCycle
  <2> PICK r \in Seq(Stores \cup {Pending}) : r = Queue'
    BY <2>1
  <2>2. ASSUME NEW x \in 0 .. count, NEW st \in Stores,
               \A j \in 0 .. DEPTH-1 :
                 j < count => (x = j+1 <=> creq.en /\ creq.idx = Slot(j)),
               x # 0 => st = creq.store
        PROVE  StepsTo(q, r, x, st, enter, leave)
    <3> PICK S : S = Stores \cup {Pending}
      OBVIOUS
    <3>1. ASSUME NEW j \in 0 .. count + a - 1, p <= j
          PROVE  r[j+1-p] = IF j = count THEN Pending
                            ELSE IF x = j+1 THEN st ELSE q[j+1]
      <4>1. j \in 0 .. DEPTH-1 /\ j < count + a
        BY <1>3
      <4>2. r[j+1-p] = IF j = count THEN Pending
                       ELSE IF creq.en /\ creq.idx = Slot(j) THEN creq.store
                       ELSE q[j+1]
        BY <2>1, <3>1, <4>1
      <4>3. CASE j = count
        BY <4>2, <4>3
      <4>4. CASE j # count
        <5>1. j < count /\ (x = j+1 => x # 0)
          BY <1>3, <4>1, <4>4
        <5>2. x = j+1 <=> creq.en /\ creq.idx = Slot(j)
          BY <2>2, <4>1, <5>1
        <5> QED
          BY <2>2, <4>2, <4>4, <5>1, <5>2
      <4> QED
        BY <4>3, <4>4
    <3>2. /\ q \in Seq(S) /\ r \in Seq(S) /\ Pending \in S /\ st \in S
          /\ x \in 0 .. Len(q)
          /\ leave => Len(q) > 0
      BY <1>2, <1>3, <1>5, <2>1
    <3>3. StepsByPlaces(q, r, x, st, a, p)
      BY <1>5, <2>1, <3>1 DEF StepsByPlaces
    <3> QED
      BY <1>2, <3>2, <3>3, SequenceStep
  <2>3. CASE ~creq.en
    <3> PICK st \in Stores : TRUE
      BY ResetStoreType
    <3>1. StepsTo(q, r, 0, st, enter, leave)
      <4>1. 0 \in 0 .. count /\ \A j \in 0 .. DEPTH-1 : ~(0 = j+1)
        BY <1>3
      <4> QED
        BY <2>2, <2>3, <4>1
    <3> QED
      BY <1>3, <1>5, <3>1
  <2>4. CASE creq.en
    <3>1. creq.idx \in Slots /\ creq.store \in Stores /\ Executable(creq.idx)
      BY <1>t, <2>4, RequestTypes
    <3>2. PICK k \in 0 .. DEPTH-1 : creq.idx = Slot(k)
      BY <1>3, <3>1, SlotIsSlot
    <3>3. nc <= k /\ k < count
      BY <1>t, <1>3, <3>1, <3>2
         DEF RingOf, Executable, CommittedSlot, ReadyToDrain, FreeSlot
    <3>4. PICK x \in 0 .. count : x = k + 1 /\ x # 0 /\ x > nc
      BY <1>3, <3>3
    <3>5. Queue[x] = Pending
      BY <1>5, <3>1, <3>2, <3>3, <3>4 DEF Content, Executable
    <3>6. \A j \in 0 .. DEPTH-1 :
            j < count => (x = j+1 <=> creq.en /\ creq.idx = Slot(j))
      <4> SUFFICES ASSUME NEW j \in 0 .. DEPTH-1
                   PROVE  x = j+1 <=> creq.idx = Slot(j)
        BY <2>4
      <4>1. creq.idx = Slot(j) => j = k
        BY <1>3, <3>2, WrapInjective DEF Slot
      <4> QED
        BY <1>3, <3>2, <3>4, <4>1
    <3>7. StepsTo(q, r, x, creq.store, enter, leave)
      BY <2>2, <3>1, <3>6
    <3> QED
      BY <1>4, <1>5, <3>1, <3>4, <3>5, <3>7
  <2> QED
    BY <2>3, <2>4
<1>11. Q!Stores = Stores
  BY DEF Q!Stores, Q!Accesses, Stores, Accesses, Words, Data
<1>12. leave => ready
  BY <1>1
<1>13. Q!Step(enter, commit.en, ready, leave)
  BY <1>6, <1>7, <1>8, <1>9, <1>10, <1>11, <1>12 DEF Q!Step, StepsTo
<1> QED
  BY <1>2, <1>13 DEF Q!Next

(* A flush discards what is not committed.                                 *)
LEMMA FlushDiscards ==
  ASSUME ~FULL_FLUSH, FInv, LoadFlush
  PROVE  Q!Next
<1> PICK nc \in 0 .. count : RingOf(nc)
  BY DEF FInv
<1> PICK grant \in Grants : CacheWrite(grant)
  BY DEF LoadFlush
<1> PICK ready \in BOOLEAN : ready = (grant = "done")
  OBVIOUS
<1>1. FlushStep /\ ~AllCommitted /\ TypeOK
  BY DEF LoadFlush, Flush, FInv
<1>2. TypeOK' /\ count' = nc /\ RingOf(nc)'
  BY <1>1, FlushRingOf
<1>3. /\ count \in Nat /\ count <= DEPTH /\ DEPTH \in Nat /\ nc \in Nat
      /\ nc <= count /\ head_ptr \in Slots
  BY <1>1, DepthAssumption DEF TypeOK
<1>4. NCommitted = nc /\ NCommitted' = nc
  <2>1. NCommitted = nc
    BY <1>1, NCommittedAfter DEF CountsCommitted
  <2>2. nc \in 0 .. count'
    BY <1>2, <1>3
  <2>3. NCommitted' = nc
    BY <1>2, <2>2, NCommittedAfter DEF CountsCommitted
  <2> QED
    BY <2>1, <2>3
<1>5. /\ Queue \in Seq(Stores \cup {Pending}) /\ Len(Queue) = count
      /\ \A k \in 0 .. DEPTH-1 : k < count => Queue[k+1] = Content(Slot(k))
  BY <1>1, QueueAfter DEF QueueIs
<1>6. /\ Queue' \in Seq(Stores \cup {Pending}) /\ Len(Queue') = nc
      /\ \A k \in 0 .. DEPTH-1 : k < nc => Queue'[k+1] = Content(Slot(k))'
  BY <1>2, QueueAfter DEF QueueIs
<1>7. \A k \in 1 .. nc : Queue'[k] = Queue[k]
  <2> TAKE k \in 1 .. nc
  <2> PICK j \in 0 .. DEPTH-1 : j = k - 1 /\ k = j + 1 /\ j < nc /\ j < count
    BY <1>3
  <2> PICK i \in Slots : i = Slot(j)
    BY <1>3, WrapType DEF Slot
  <2>1. buffer[i].committed
    BY DEF RingOf, CommittedSlot, ReadyToDrain
  <2>2. buffer'[i] = buffer[i] /\ Slot(j)' = i
    BY <1>1, <2>1 DEF FlushStep, Slot
  <2>3. Content(Slot(j))' = Content(i)
    BY <2>2 DEF Content
  <2> QED
    BY <1>5, <1>6, <2>3
<1>8. Queue' = SubSeq(Queue, 1, nc)
  <2> PICK S : S = Stores \cup {Pending}
    OBVIOUS
  <2> PICK q \in Seq(S), r \in Seq(S) : q = Queue /\ r = Queue'
    BY <1>5, <1>6
  <2>1. Len(q) = count /\ Len(r) = nc /\ \A k \in 1 .. nc : r[k] = q[k]
    BY <1>5, <1>6, <1>7
  <2>2. \A k \in 1 .. nc : q[k] \in S
    BY <1>3, <2>1, ElementOfSeq
  <2>3. /\ SubSeq(q, 1, nc) \in Seq(S)
        /\ Len(SubSeq(q, 1, nc)) = IF 1 <= nc THEN nc - 1 + 1 ELSE 0
        /\ \A k \in 1 .. nc - 1 + 1 : SubSeq(q, 1, nc)[k] = q[1 + k - 1]
    BY <1>3, <2>2, SubSeqProperties
  <2>4. Len(SubSeq(q, 1, nc)) = nc /\ \A k \in 1 .. nc : SubSeq(q, 1, nc)[k] = q[k]
    BY <1>3, <2>3
  <2> QED
    BY <2>1, <2>3, <2>4, SeqEqual
<1>9. Q!MemoryWrite(ready)
  BY WriteWritesFirst
<1> QED
  BY <1>4, <1>8, <1>9 DEF Q!Next, Q!Discard

(* Initially the queue is empty.                                           *)
LEMMA QueueInit == FInit => Q!Init
<1> SUFFICES ASSUME FInit PROVE Q!Init
  OBVIOUS
<1>1. TypeOK /\ RingOf(0) /\ count = 0
  BY InitRingOf DEF FInit
<1>2. NCommitted = 0
  BY <1>1, NCommittedIs
<1>3. Queue \in Seq(Stores \cup {Pending}) /\ Len(Queue) = 0
  BY <1>1, QueueIsThat DEF QueueIs
<1>4. Queue = <<>>
  BY <1>3, EmptySeq
<1> QED
  BY <1>2, <1>4 DEF Q!Init, FInit

(* The ring of slots, with its pointers, its counter and its draining      *)
(* state machine, implements the queue of stores: a store never overtakes  *)
(* another on its way to memory, none is lost or written twice, and a      *)
(* flush takes away exactly those that were not committed                  *)
(* (store_buffer.sv:89-182).                                               *)
THEOREM ImplementsQueue ==
  ASSUME ~FULL_FLUSH
  PROVE  FSpec => ImplementsStoreQueue
<1>1. FInv /\ [FNext]_fwvars => [Q!Next]_(Q!qvars)
  <2> SUFFICES ASSUME FInv, [FNext]_fwvars
               PROVE  Q!Next \/ UNCHANGED <<Queue, NCommitted, cache>>
    BY DEF Q!qvars
  <2>1. CASE LoadCycle
    BY <2>1, CycleStepsQueue
  <2>2. CASE LoadFlush
    BY <2>2, FlushDiscards
  <2>3. CASE UNCHANGED fwvars
    BY <2>3 DEF fwvars, sbvars, Queue, SlotAt, NCommitted
  <2> QED
    BY <2>1, <2>2, <2>3 DEF FNext
<1> QED
  BY <1>1, QueueInit, FInvariance, PTL DEF FSpec, Q!Spec, ImplementsStoreQueue

=============================================================================
