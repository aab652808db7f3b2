------------------------- MODULE BackendSlotProofs -------------------------
(***************************************************************************)
(* Proofs about Backend, about the store buffer inside it.                 *)
(*                                                                         *)
(* A store's slot is given at decode, carried by its token, named when it  *)
(* completes and used when it is committed.  The invariant says which slot *)
(* that is at each of these times: the one that is Rank places after       *)
(* commit_ptr, where Rank counts the older stores in the reorder buffer.   *)
(* From an instruction on that is known to except this fails, and does not *)
(* matter: what follows it is doomed, and the trap frees its slots.        *)
(*                                                                         *)
(* The safety properties of Backend and the step simulation of StoreBuffer *)
(* follow from it.  The last, about the loads, needs an invariant of its   *)
(* own (LoadInv).                                                          *)
(***************************************************************************)
EXTENDS BackendProofs

-----------------------------------------------------------------------------
(* Stores in the reorder buffer, and how many of them precede an entry.    *)

OlderStores(i) == {j \in RobStores : Age(j) < Age(i)}
Rank(i) == Cardinality(OlderStores(i))

(* An instruction that is known to except.                                 *)
KnownAt(j) ==
  \/ entries[j].complete /\ entries[j].xcpt
  \/ s_4m_q.valid /\ s_4m_q.robid = j /\ Excepts(s_4m_q.ins)
Known == \E j \in LiveIds : KnownAt(j)

(* The entries that a slot may have been given to: stores, and             *)
(* instructions that except.                                               *)
Holders ==
  {i \in LiveIds : entries[i].is_st \/ (entries[i].complete /\ entries[i].xcpt)}

(* An instruction is doomed when an older one is known to except.          *)
LEMMA DoomedIs ==
  ASSUME NEW i
  PROVE  Doomed(i) <=> \E j \in LiveIds : Age(j) < Age(i) /\ KnownAt(j)
BY DEF Doomed, KnownAt

LEMMA DoomedIsNext ==
  ASSUME NEW i
  PROVE  Doomed(i)' <=> \E j \in LiveIds' : Age(j)' < Age(i)' /\ KnownAt(j)'
BY DEF Doomed, KnownAt

LEMMA SetsFinite ==
  /\ IsFiniteSet(LiveIds) /\ IsFiniteSet(RobStores) /\ IsFiniteSet(Holders)
  /\ \A i : IsFiniteSet(OlderStores(i))
BY RobIdsFinite, FS_Subset DEF LiveIds, RobStores, Holders, OlderStores

LEMMA RankType ==
  /\ \A i : Rank(i) \in Nat
  /\ Cardinality(RobStores) \in Nat /\ Cardinality(Holders) \in Nat
BY SetsFinite, FS_CardinalityType DEF Rank

LEMMA RankOfOldest ==
  ASSUME PtrsOK, NEW i \in R!RobIds, Age(i) = 0
  PROVE  Rank(i) = 0
<1>1. OlderStores(i) = {}
  BY AgeFacts DEF OlderStores, RobStores, LiveIds
<1> QED
  BY <1>1, FS_EmptySet DEF Rank

(* The next instruction comes after all stores.                            *)
LEMMA RankOfTail ==
  ASSUME PtrsOK, NEW i \in R!RobIds, i = tail_q
  PROVE  /\ OlderStores(i) = RobStores
         /\ Rank(i) = Cardinality(RobStores)
         /\ Doomed(i) <=> Known
<1>1. \A j \in LiveIds : Age(j) < Age(i)
  BY AgeFacts DEF LiveIds
<1>2. OlderStores(i) = RobStores
  BY <1>1 DEF OlderStores, RobStores
<1> QED
  BY <1>1, <1>2, DoomedIs DEF Rank, Known

(* Of two stores the younger has the greater rank.                         *)
LEMMA RankMonotone ==
  ASSUME PtrsOK, NEW i \in RobStores, NEW j \in R!RobIds, Age(i) < Age(j)
  PROVE  Rank(i) < Rank(j)
<1>1. \A k \in RobStores : Age(k) \in Int
  BY AgeFacts DEF RobStores, LiveIds
<1>2. Age(j) \in Int /\ Age(i) \in Int
  BY <1>1, AgeFacts
<1>3. OlderStores(i) \cup {i} \subseteq OlderStores(j) /\ i \notin OlderStores(i)
  BY <1>1, <1>2 DEF OlderStores
<1>4. Cardinality(OlderStores(i) \cup {i}) = Rank(i) + 1
  BY <1>3, SetsFinite, FS_AddElement DEF Rank
<1>5. Cardinality(OlderStores(i) \cup {i}) <= Rank(j)
  BY <1>3, SetsFinite, FS_Subset DEF Rank
<1> QED
  BY <1>4, <1>5, RankType

-----------------------------------------------------------------------------
(* What a cycle without a trap does to them.                               *)

CommitsStore(dc_ready) == Commits(dc_ready) /\ entries[head_q].is_st

(* Entries in use stay stores or not; complete entries do not change.      *)
LEMMA IsStAfter ==
  ASSUME PipeInv, NEW dec \in Decs, NEW dc_ready \in BOOLEAN,
         RobCycle(dec, dc_ready), ~rob_trap_valid(dc_ready),
         NEW i \in R!RobIds, R!Live(i)
  PROVE  /\ entries'[i].is_st <=> entries[i].is_st
         /\ entries[i].complete => entries'[i] = entries[i]
<1>1. CASE \A k \in Outs : ~(Units[k].valid /\ Units[k].robid = i)
  <2>1. entries'[i] = entries[i]
    BY <1>1, EntryAfter DEF PipeInv
  <2> QED
    BY <2>1
<1>2. CASE \E k \in Outs : Units[k].valid /\ Units[k].robid = i
  <2> PICK k \in Outs : Units[k].valid /\ Units[k].robid = i
    BY <1>2
  <2>1. entries'[i].is_st = entries[i].is_st
    BY EntryAfter DEF PipeInv
  <2>2. ~entries[i].complete
    BY PlaceArithmetic DEF PipeInv, OwnerInv, TokensOwned
  <2> QED
    BY <2>1, <2>2
<1> QED
  BY <1>1, <1>2

(* The entry of the instruction that is issued.                            *)
LEMMA NewEntry ==
  ASSUME PipeInv, NEW dec \in Decs, NEW dc_ready \in BOOLEAN,
         RobCycle(dec, dc_ready), ~rob_trap_valid(dc_ready),
         Issues(dec, dc_ready), NEW i \in R!RobIds, i = tail_q
  PROVE  /\ entries'[i].is_st <=> IssueReq(dec, dc_ready).is_st
         /\ entries'[i].complete <=> IssueReq(dec, dc_ready).xcpt
         /\ entries'[i].xcpt <=> IssueReq(dec, dc_ready).xcpt
         /\ ~R!Live(i) /\ R!Live(i)'
<1>1. entries'[i] = R!Issued(IssueReq(dec, dc_ready))
  BY EntryAfter DEF PipeInv
<1>2. ~R!Live(i) /\ R!Live(i)'
  BY LiveAfter, OccupancyFacts DEF PipeInv, PipeTypeOK
<1> QED
  BY <1>1, <1>2 DEF R!Issued

(* The stores that precede an instruction that stays are those that did,   *)
(* without the one that is committed; those that precede a new instruction *)
(* are all.                                                                *)
LEMMA OlderAfter ==
  ASSUME PipeInv, NEW dec \in Decs, NEW dc_ready \in BOOLEAN,
         RobCycle(dec, dc_ready), ~rob_trap_valid(dc_ready),
         NEW i \in R!RobIds, R!Live(i)'
  PROVE  OlderStores(i)' = IF Commits(dc_ready) THEN OlderStores(i) \ {head_q}
                                                ELSE OlderStores(i)
<1>1. PtrsOK
  BY DEF PipeInv, PipeTypeOK
<1>2. OlderStores(i)' =
        {j \in R!RobIds : R!Live(j)' /\ entries'[j].is_st /\ Age(j)' < Age(i)'}
  BY DEF OlderStores, RobStores, LiveIds
<1>3. OlderStores(i) =
        {j \in R!RobIds : R!Live(j) /\ entries[j].is_st /\ Age(j) < Age(i)}
  BY DEF OlderStores, RobStores, LiveIds
<1>4. ASSUME NEW j \in R!RobIds
      PROVE  R!Live(j)' /\ entries'[j].is_st /\ Age(j)' < Age(i)' <=>
             /\ R!Live(j) /\ entries[j].is_st /\ Age(j) < Age(i)
             /\ ~(Commits(dc_ready) /\ j = head_q)
  <2>1. R!Live(j)' <=> \/ R!Live(j) /\ ~(Commits(dc_ready) /\ j = head_q)
                       \/ Issues(dec, dc_ready) /\ j = tail_q
    BY <1>1, LiveAfter
  <2>2. R!Live(j) => (entries'[j].is_st <=> entries[j].is_st)
    BY IsStAfter
  <2>3. R!Live(j)' => (Age(j)' < Age(i)' <=> Age(j) < Age(i))
    BY <1>1, OrderAfter
  <2>4. j = tail_q => ~R!Live(j) /\ ~(Age(j) < Age(i))
    BY <1>1, LiveAfter, AgeFacts, OccupancyFacts DEF PtrsOK
  <2> QED
    BY <2>1, <2>2, <2>3, <2>4
<1> QED
  BY <1>2, <1>3, <1>4

(* Ranks drop by one when a store is committed, else not.                  *)
LEMMA RankAfter ==
  ASSUME PipeInv, NEW dec \in Decs, NEW dc_ready \in BOOLEAN,
         RobCycle(dec, dc_ready), ~rob_trap_valid(dc_ready),
         NEW i \in R!RobIds, R!Live(i)'
  PROVE  /\ Rank(i)' = Rank(i) - (IF CommitsStore(dc_ready) THEN 1 ELSE 0)
         /\ Rank(i)' \in Nat
<1>1. PtrsOK
  BY DEF PipeInv, PipeTypeOK
<1>2. IsFiniteSet(OlderStores(i)) /\ Rank(i) \in Nat
  BY SetsFinite, RankType
<1>3. Rank(i)' = Cardinality(OlderStores(i)')
  BY DEF Rank
<1>4. CASE ~Commits(dc_ready)
  BY <1>2, <1>3, <1>4, OlderAfter DEF Rank, CommitsStore
<1>5. CASE Commits(dc_ready)
  <2>1. head_q \in OlderStores(i) <=> entries[head_q].is_st
    <3>1. R!Live(head_q) /\ head_q \in R!RobIds
      BY <1>1, <1>5, CommitFacts, OccupancyFacts DEF PtrsOK
    <3>2. i # head_q
      BY <1>1, <1>5, LiveAfter, CommitFacts DEF R!empty
    <3>3. Age(head_q) = 0 /\ Age(i) > 0
      BY <1>1, <3>1, <3>2, AgeFacts
    <3> QED
      BY <3>1, <3>3 DEF OlderStores, RobStores, LiveIds
  <2>2. OlderStores(i)' = OlderStores(i) \ {head_q}
    BY <1>5, OlderAfter
  <2>3. Cardinality(OlderStores(i) \ {head_q}) =
          IF head_q \in OlderStores(i) THEN Rank(i) - 1 ELSE Rank(i)
    BY <1>2, FS_RemoveElement DEF Rank
  <2>4. Cardinality(OlderStores(i) \ {head_q}) \in Nat
    BY <1>2, FS_RemoveElement, FS_CardinalityType
  <2> QED
    BY <1>2, <1>3, <1>5, <2>1, <2>2, <2>3, <2>4 DEF CommitsStore
<1> QED
  BY <1>4, <1>5

(* A set that may lose one element and gain another.                       *)
LEMMA Exchange ==
  ASSUME NEW S, IsFiniteSet(S), NEW x, NEW y, y \notin S,
         NEW drop \in BOOLEAN, NEW add \in BOOLEAN, NEW T,
         T = (IF drop THEN S \ {x} ELSE S) \cup (IF add THEN {y} ELSE {})
  PROVE  /\ IsFiniteSet(T)
         /\ Cardinality(T) = Cardinality(S)
              - (IF drop /\ x \in S THEN 1 ELSE 0) + (IF add THEN 1 ELSE 0)
<1> DEFINE U == IF drop THEN S \ {x} ELSE S
<1>1. /\ IsFiniteSet(U) /\ y \notin U
      /\ Cardinality(U) = Cardinality(S)
                            - (IF drop /\ x \in S THEN 1 ELSE 0)
  BY FS_RemoveElement, FS_CardinalityType
<1>2. T = IF add THEN U \cup {y} ELSE U
  OBVIOUS
<1> HIDE DEF U
<1>3. IsFiniteSet(U \cup {y}) /\ Cardinality(U \cup {y}) = Cardinality(U) + 1
  BY <1>1, FS_AddElement
<1>4. Cardinality(S) \in Nat /\ Cardinality(U) \in Nat
  BY <1>1, FS_CardinalityType
<1>5. IsFiniteSet(T) /\ Cardinality(T) = IF add THEN Cardinality(U) + 1
                                               ELSE Cardinality(U)
  BY <1>1, <1>2, <1>3
<1> QED
  BY <1>1, <1>4, <1>5

(* How the number of stores changes ...                                    *)
LEMMA StoresAfter ==
  ASSUME PipeInv, NEW dec \in Decs, NEW dc_ready \in BOOLEAN,
         RobCycle(dec, dc_ready), ~rob_trap_valid(dc_ready)
  PROVE  Cardinality(RobStores)' = Cardinality(RobStores)
           - (IF CommitsStore(dc_ready) THEN 1 ELSE 0)
           + (IF IssueReq(dec, dc_ready).is_st THEN 1 ELSE 0)
<1> DEFINE drop == Commits(dc_ready)
           add  == IssueReq(dec, dc_ready).is_st
<1>1. PtrsOK /\ drop \in BOOLEAN /\ add \in BOOLEAN
  BY DEF PipeInv, PipeTypeOK, Commits, R!committing_head_q, IssueReq
<1>2. add => Issues(dec, dc_ready)
  BY DispatchFacts
<1>3. RobStores' = {j \in R!RobIds : R!Live(j)' /\ entries'[j].is_st}
  BY DEF RobStores, LiveIds
<1>4. RobStores = {j \in R!RobIds : R!Live(j) /\ entries[j].is_st}
  BY DEF RobStores, LiveIds
<1>5. ASSUME NEW j \in R!RobIds
      PROVE  R!Live(j)' /\ entries'[j].is_st <=>
             \/ R!Live(j) /\ entries[j].is_st /\ ~(drop /\ j = head_q)
             \/ add /\ j = tail_q
  <2>1. R!Live(j)' <=> \/ R!Live(j) /\ ~(Commits(dc_ready) /\ j = head_q)
                       \/ Issues(dec, dc_ready) /\ j = tail_q
    BY <1>1, LiveAfter
  <2>2. R!Live(j) => (entries'[j].is_st <=> entries[j].is_st)
    BY IsStAfter
  <2>3. Issues(dec, dc_ready) /\ j = tail_q =>
          (entries'[j].is_st <=> add) /\ ~R!Live(j)
    BY NewEntry
  <2> QED
    BY <1>2, <2>1, <2>2, <2>3
<1>6. tail_q \in R!RobIds /\ tail_q \notin RobStores
  BY <1>1, <1>4, OccupancyFacts DEF PtrsOK
<1> HIDE DEF drop, add
<1>7. RobStores' = (IF drop THEN RobStores \ {head_q} ELSE RobStores)
                     \cup (IF add THEN {tail_q} ELSE {})
  BY <1>3, <1>4, <1>5, <1>6
<1>8. Cardinality(RobStores') = Cardinality(RobStores)
        - (IF drop /\ head_q \in RobStores THEN 1 ELSE 0)
        + (IF add THEN 1 ELSE 0)
  BY <1>1, <1>6, <1>7, SetsFinite, Exchange
<1>9. drop /\ head_q \in RobStores <=> CommitsStore(dc_ready)
  <2>1. drop => R!Live(head_q) /\ head_q \in R!RobIds
    BY <1>1, CommitFacts, OccupancyFacts DEF PtrsOK, drop
  <2> QED
    BY <1>4, <2>1 DEF CommitsStore, drop
<1> QED
  BY <1>8, <1>9 DEF drop, add

(* ... and that of the entries that may hold slots.                        *)
LEMMA HoldersAfter ==
  ASSUME PipeInv, NEW dec \in Decs, NEW dc_ready \in BOOLEAN,
         RobCycle(dec, dc_ready), ~rob_trap_valid(dc_ready),
         NEW add \in BOOLEAN,
         add => /\ Issues(dec, dc_ready)
                /\ IssueReq(dec, dc_ready).is_st \/ IssueReq(dec, dc_ready).xcpt
  PROVE  Cardinality(Holders)' >= Cardinality(Holders)
           - (IF CommitsStore(dc_ready) THEN 1 ELSE 0)
           + (IF add THEN 1 ELSE 0)
<1> DEFINE drop == Commits(dc_ready)
           T == (IF drop THEN Holders \ {head_q} ELSE Holders)
                  \cup (IF add THEN {tail_q} ELSE {})
<1>1. PtrsOK /\ drop \in BOOLEAN
  BY DEF PipeInv, PipeTypeOK, Commits, R!committing_head_q
<1>2. tail_q \in R!RobIds /\ tail_q \notin Holders
  BY <1>1, OccupancyFacts DEF PtrsOK, Holders, LiveIds
<1>3. ASSUME NEW j \in T
      PROVE  j \in Holders'
  <2>1. j \in R!RobIds
    BY <1>2 DEF Holders, LiveIds
  <2>2. CASE add /\ j = tail_q
    <3>1. /\ entries'[j].is_st \/ (entries'[j].complete /\ entries'[j].xcpt)
          /\ R!Live(j)'
      BY <2>1, <2>2, NewEntry
    <3> QED
      BY <2>1, <3>1 DEF Holders, LiveIds
  <2>3. CASE j \in Holders /\ ~(drop /\ j = head_q)
    <3>1. R!Live(j) /\ (entries[j].is_st \/ (entries[j].complete /\ entries[j].xcpt))
      BY <2>3 DEF Holders, LiveIds
    <3>2. R!Live(j)'
      BY <1>1, <2>1, <2>3, <3>1, LiveAfter
    <3>3. entries'[j].is_st \/ (entries'[j].complete /\ entries'[j].xcpt)
      BY <2>1, <3>1, IsStAfter
    <3> QED
      BY <2>1, <3>2, <3>3 DEF Holders, LiveIds
  <2> QED
    BY <2>2, <2>3
<1>4. drop /\ head_q \in Holders <=> CommitsStore(dc_ready)
  <2>1. drop => R!Live(head_q) /\ head_q \in R!RobIds
    BY <1>1, CommitFacts, OccupancyFacts DEF PtrsOK
  <2>2. drop => ~entries[head_q].xcpt
    BY CommitFacts
  <2> QED
    BY <2>1, <2>2 DEF CommitsStore, Holders, LiveIds
<1>5. IsFiniteSet(T) /\ Cardinality(T) = Cardinality(Holders)
        - (IF drop /\ head_q \in Holders THEN 1 ELSE 0)
        + (IF add THEN 1 ELSE 0)
  <2> HIDE DEF drop
  <2> QED
    BY <1>1, <1>2, SetsFinite, Exchange
<1>6. IsFiniteSet(Holders') /\ Cardinality(Holders') \in Nat
  <2>1. Holders' \subseteq R!RobIds
    BY DEF Holders, LiveIds
  <2> QED
    BY <2>1, RobIdsFinite, FS_Subset, FS_CardinalityType
<1>7. Cardinality(T) <= Cardinality(Holders')
  <2>1. T \in SUBSET (Holders')
    BY <1>3
  <2> QED
    BY <1>6, <2>1, FS_Subset
<1> QED
  BY <1>4, <1>5, <1>6, <1>7, FS_CardinalityType

(* A known exception stays known until it traps.                           *)
LEMMA KnownAfter ==
  ASSUME PipeInv, NEW dec \in Decs, NEW dc_ready \in BOOLEAN,
         RobCycle(dec, dc_ready), ~rob_trap_valid(dc_ready),
         NEW j \in LiveIds, KnownAt(j)
  PROVE  j \in LiveIds' /\ KnownAt(j)'
<1>1. PtrsOK /\ j \in R!RobIds /\ R!Live(j)
  BY DEF PipeInv, PipeTypeOK, LiveIds
<1>2. CASE entries[j].complete /\ entries[j].xcpt
  <2>1. entries'[j] = entries[j]
    BY <1>1, <1>2, IsStAfter
  <2>2. ~(Commits(dc_ready) /\ j = head_q)
    BY <1>2, CommitFacts
  <2> QED
    BY <1>1, <1>2, <2>1, <2>2, LiveAfter DEF LiveIds, KnownAt
<1>3. CASE s_4m_q.valid /\ s_4m_q.robid = j /\ Excepts(s_4m_q.ins)
  <2>1. 3 \in Outs /\ 3 \in 1 .. NUnits /\ Units[3] = s_4m_q
    BY PlaceArithmetic, UnitsAre DEF PipeInv
  <2>2. entries'[j].complete /\ entries'[j].xcpt
    BY <1>1, <1>3, <2>1, EntryAfter DEF PipeInv
  <2>3. ~entries[j].complete
    BY <1>1, <1>3, <2>1 DEF PipeInv, OwnerInv, TokensOwned
  <2>4. ~(Commits(dc_ready) /\ j = head_q)
    BY <2>3, CommitFacts
  <2> QED
    BY <1>1, <2>2, <2>4, LiveAfter DEF LiveIds, KnownAt
<1> QED
  BY <1>2, <1>3 DEF KnownAt

(* What is doomed stays so until the trap.                                 *)
LEMMA DoomedAfter ==
  ASSUME PipeInv, NEW dec \in Decs, NEW dc_ready \in BOOLEAN,
         RobCycle(dec, dc_ready), ~rob_trap_valid(dc_ready),
         NEW i \in R!RobIds, R!Live(i)', Doomed(i)
  PROVE  Doomed(i)'
<1>1. PtrsOK
  BY DEF PipeInv, PipeTypeOK
<1> PICK j \in LiveIds : Age(j) < Age(i) /\ KnownAt(j)
  BY DoomedIs
<1>2. j \in LiveIds' /\ KnownAt(j)'
  BY KnownAfter
<1>3. Age(j)' < Age(i)'
  BY <1>1, <1>2, OrderAfter DEF LiveIds
<1> QED
  BY <1>2, <1>3, DoomedIsNext

LEMMA KnownGrows ==
  ASSUME PipeInv, NEW dec \in Decs, NEW dc_ready \in BOOLEAN,
         RobCycle(dec, dc_ready), ~rob_trap_valid(dc_ready),
         \/ Known
         \/ Issues(dec, dc_ready) /\ IssueReq(dec, dc_ready).xcpt
  PROVE  Known'
<1>1. CASE Known
  BY <1>1, KnownAfter DEF Known
<1>2. CASE Issues(dec, dc_ready) /\ IssueReq(dec, dc_ready).xcpt
  <2> PICK i \in R!RobIds : i = tail_q
    BY DEF PipeInv, PipeTypeOK, PtrsOK
  <2>1. entries'[i].complete /\ entries'[i].xcpt /\ R!Live(i)'
    BY <1>2, NewEntry
  <2> QED
    BY <2>1 DEF Known, KnownAt, LiveIds
<1> QED
  BY <1>1, <1>2

-----------------------------------------------------------------------------
(* The inductive invariant.                                                *)

IsStore(t) == t.valid /\ t.ins.op = "st"
IsLoad(t)  == t.valid /\ t.ins.op = "ld"

(* The slot k places after the first that is not committed.                *)
SlotAt(k) == Wrap(commit_ptr + k)

(* The stores that have not executed wait for slots of their own.          *)
StoreTokens ==
  /\ IsStore(s_2d_q) => Executable(s_2d_q.sbid)
  /\ IsStore(s_3e_q) => Executable(s_3e_q.sbid)
  /\ IsStore(s_2d_q) /\ IsStore(s_3e_q) => s_2d_q.sbid # s_3e_q.sbid

(* Older instructions are further down the alumem pipeline.                *)
PipeOrder ==
  \A k, l \in 1 .. 3 :
    k < l /\ Units[k].valid /\ Units[l].valid =>
      Age(Units[l].robid) < Age(Units[k].robid)

(* The stores that no exception is known to squash hold, in program order, *)
(* the n slots that are not committed; a token names the slot that its     *)
(* place in program order gives it.                                        *)
AllStoresCounted(n) == ~Known => Cardinality(RobStores) = n

TokensTagged(n) ==
  \A k \in 1 .. 3, i \in R!RobIds :
    Units[k].valid /\ Units[k].robid = i /\ ~Doomed(i) =>
      Rank(i) <= n /\ Units[k].sbid = SlotAt(Rank(i))

StoresPlaced(n) ==
  \A i \in RobStores : ~Doomed(i) =>
    /\ Rank(i) < n
    /\ entries[i].complete /\ ~entries[i].xcpt =>
         entries[i].sbid = SlotAt(Rank(i)) /\ buffer[SlotAt(Rank(i))].valid

Executed ==
  IsStore(s_4m_q) /\ ~Excepts(s_4m_q.ins) => buffer[s_4m_q.sbid].valid

SlotOrder(n) ==
  /\ AllStoresCounted(n)
  /\ TokensTagged(n)
  /\ StoresPlaced(n)
  /\ n <= Cardinality(Holders)

Slotted == \E nc \in 0 .. count : RingOf(nc) /\ SlotOrder(count - nc)

(* The arbiter serves a request that is still made.                        *)
ArbInv ==
  /\ arb = "SERVING_LD" => ld_req_valid
  /\ arb = "SERVING_SB" => ReadyToDrain(head_ptr)

SlotInv ==
  /\ PipeInv
  /\ BTypeOK
  /\ PipeOrder
  /\ ~overrun => StoreTokens /\ Executed /\ Slotted /\ ArbInv

-----------------------------------------------------------------------------
(* The places of slots in the ring.                                        *)

(* A slot counted from commit_ptr is one counted from head_ptr.            *)
LEMMA SlotAtIs ==
  ASSUME TypeOK, NEW nc \in 0 .. count, RingOf(nc), NEW k \in 0 .. count - nc
  PROVE  /\ SlotAt(k) = Slot(nc + k) /\ SlotAt(k) \in Slots
         /\ SlotAt(count - nc) = tail_ptr
         /\ SlotAt(0) = commit_ptr
<1>1. /\ commit_ptr = Wrap(head_ptr + nc) /\ tail_ptr = Wrap(head_ptr + count)
      /\ head_ptr \in 0 .. DEPTH-1 /\ count \in 0 .. DEPTH
  BY DEF RingOf, Slot, TypeOK, Slots
<1> QED
  BY <1>1, DepthAssumption DEF SlotAt, Slot, Wrap, Slots

(* Slots from commit_ptr up to tail_ptr are speculative.                   *)
LEMMA SpeculativeAt ==
  ASSUME TypeOK, NEW nc \in 0 .. count, RingOf(nc),
         NEW k \in Nat, k < count - nc
  PROVE  /\ SpeculativeSlot(SlotAt(k)) /\ SlotAt(k) \in Slots
         /\ nc > 0 => SlotAt(k) # head_ptr
<1>1. count \in Nat /\ count <= DEPTH /\ nc \in Nat /\ k \in 0 .. count - nc
  BY DepthAssumption DEF TypeOK
<1>2. SlotAt(k) = Slot(nc + k) /\ SlotAt(k) \in Slots
  BY <1>1, SlotAtIs
<1>3. SpeculativeSlot(Slot(nc + k))
  BY <1>1, DepthAssumption DEF RingOf
<1>4. nc > 0 => CommittedSlot(Slot(0)) /\ Slot(0) = head_ptr
  BY <1>1, WrapSucc, DepthAssumption DEF RingOf, Slot, TypeOK
<1> QED
  BY <1>2, <1>3, <1>4 DEF SpeculativeSlot, CommittedSlot, ReadyToDrain

(* The flags of the slots at the pointers.                                 *)
LEMMA EndsOfRing ==
  ASSUME TypeOK, NEW nc \in 0 .. count, RingOf(nc)
  PROVE  /\ nc > 0 => ReadyToDrain(head_ptr)
         /\ ReadyToDrain(head_ptr) => nc > 0
         /\ dreq_valid => nc > 0
         /\ count < DEPTH => FreeSlot(tail_ptr)
<1>1. Slot(0) = head_ptr
  BY WrapSucc, DepthAssumption DEF Slot, TypeOK
<1>2. nc > 0 => ReadyToDrain(head_ptr)
  BY <1>1, DepthAssumption DEF RingOf, CommittedSlot, TypeOK
<1>3. nc = 0 => ~ReadyToDrain(head_ptr)
  BY <1>1, DepthAssumption
     DEF RingOf, SpeculativeSlot, FreeSlot, ReadyToDrain, TypeOK
<1>4. count < DEPTH => FreeSlot(tail_ptr)
  BY DepthAssumption DEF RingOf, TypeOK
<1> QED
  BY <1>2, <1>3, <1>4 DEF RingOf, dreq_valid, TypeOK

-----------------------------------------------------------------------------
(* The back end presents legal requests to the store buffer.               *)

(* A slot is taken only when one is free, and then by an instruction that  *)
(* is issued: a store, or one that excepts (stage_2d.sv).                  *)
LEMMA AllocFacts ==
  ASSUME NEW dec \in Decs, NEW dc_ready \in BOOLEAN
  PROVE  /\ sb_alloc_en(dec, dc_ready) \in BOOLEAN
         /\ sb_alloc_en(dec, dc_ready) =>
              /\ ~sb_full /\ ~waiting_for_memory(dc_ready)
              /\ Issues(dec, dc_ready)
              /\ \/ IssueReq(dec, dc_ready).is_st
                 \/ IssueReq(dec, dc_ready).xcpt
         /\ IssueReq(dec, dc_ready).is_st => sb_alloc_en(dec, dc_ready)
         /\ IssueReq(dec, dc_ready).is_st \in BOOLEAN
BY DEF sb_alloc_en, Issuable, stall_2d, stall_for_sb_full, Issues, IssueReq,
       Dispatches

LEMMA ExecReqIs ==
  ASSUME NEW dc_ready \in BOOLEAN
  PROVE  /\ ExecReq(dc_ready).en <=>
              /\ IsStore(s_3e_q) /\ ~waiting_for_memory(dc_ready)
              /\ ~Excepts(s_3e_q.ins)
         /\ ExecReq(dc_ready).en => ExecReq(dc_ready).idx = s_3e_q.sbid
         /\ ExecReq(dc_ready).en \in BOOLEAN
BY DEF ExecReq, NoExec, store_4m, IsStore, addr_misaligned

(* Stage 4m executes stores into slots that wait for one.                  *)
LEMMA ExecLegal ==
  ASSUME BTypeOK, StoreTokens, NEW dc_ready \in BOOLEAN
  PROVE  ExecReq(dc_ready) \in ExecRequests
<1>1. CASE ~ExecReq(dc_ready).en
  BY <1>1 DEF ExecReq, NoExec, ExecRequests
<1>2. CASE ExecReq(dc_ready).en
  <2> DEFINE store == [acc |-> s_3e_q.ins.acc, data |-> 0]
  <2>1. ExecReq(dc_ready) = [en |-> TRUE, idx |-> s_3e_q.sbid, store |-> store]
    BY <1>2 DEF ExecReq, NoExec
  <2>2. s_3e_q \in Token /\ IsStore(s_3e_q)
    BY <1>2, ExecReqIs DEF BTypeOK
  <2>3. s_3e_q.sbid \in Slots /\ Executable(s_3e_q.sbid)
    BY <2>2 DEF StoreTokens, Token
  <2>4. s_3e_q.ins.acc \in Accesses
    BY <2>2, ResetStoreType DEF Token, Instr, NoInstr, IsStore, Stores
  <2>5. store \in Stores
    BY <2>4, PayloadAssumption DEF Stores
  <2> QED
    BY <2>1, <2>3, <2>5 DEF ExecRequests
<1> QED
  BY <1>1, <1>2

(* The reorder buffer commits the slot at commit_ptr: the head, if it is a *)
(* store, has rank 0 (rob.sv:193-195).                                     *)
LEMMA CommitLegal ==
  ASSUME PipeInv, TypeOK, NEW nc \in 0 .. count, RingOf(nc),
         SlotOrder(count - nc), NEW dc_ready \in BOOLEAN,
         ~rob_trap_valid(dc_ready)
  PROVE  /\ commit_sb(dc_ready) \in CommitRequests
         /\ commit_sb(dc_ready).en <=> CommitsStore(dc_ready)
         /\ CommitsStore(dc_ready) => nc < count
<1>1. commit_sb(dc_ready) =
        IF CommitsStore(dc_ready) THEN [en |-> TRUE, idx |-> entries[head_q].sbid]
                                  ELSE NoCommit
  <2>1. Commits(dc_ready) => ~entries[head_q].xcpt
    BY CommitFacts
  <2>2. entries[head_q].is_st \in BOOLEAN /\ entries[head_q].xcpt \in BOOLEAN
    BY DEF PipeInv, PipeTypeOK, PtrsOK, R!RobEntry
  <2> QED
    BY <2>1, <2>2 DEF commit_sb, R!commit_sb, CommitsStore, Commits, NoCommit,
                      R!Head, R!committing_head_q
<1>2. CASE ~CommitsStore(dc_ready)
  BY <1>1, <1>2 DEF NoCommit, CommitRequests
<1>3. CASE CommitsStore(dc_ready)
  <2>1. /\ head_q \in R!RobIds /\ PtrsOK
        /\ R!Live(head_q) /\ entries[head_q].complete
        /\ ~entries[head_q].xcpt /\ entries[head_q].is_st
    BY <1>3, CommitFacts, OccupancyFacts
       DEF CommitsStore, PipeInv, PipeTypeOK, PtrsOK
  <2>2. Age(head_q) = 0
    BY <2>1, AgeFacts
  <2>3. ~Doomed(head_q)
    BY <2>1, <2>2, AgeFacts, DoomedIs DEF LiveIds
  <2>4. Rank(head_q) = 0
    BY <2>1, <2>2, RankOfOldest
  <2>5. head_q \in RobStores
    BY <2>1 DEF RobStores, LiveIds
  <2>6. /\ 0 < count - nc
        /\ entries[head_q].sbid = SlotAt(0) /\ buffer[SlotAt(0)].valid
    BY <2>1, <2>3, <2>4, <2>5 DEF SlotOrder, StoresPlaced
  <2>7. /\ SlotAt(0) = commit_ptr /\ commit_ptr \in Slots
        /\ SpeculativeSlot(commit_ptr)
    <3>1. nc \in Nat /\ count \in Nat
      BY DEF TypeOK
    <3>2. SlotAt(0) = commit_ptr
      BY <2>6, <3>1, SlotAtIs
    <3>3. SpeculativeSlot(SlotAt(0)) /\ SlotAt(0) \in Slots
      BY <2>6, <3>1, SpeculativeAt
    <3> QED
      BY <3>2, <3>3
  <2>8. Committable(commit_ptr)
    BY <2>6, <2>7 DEF Committable, SpeculativeSlot
  <2>9. nc < count
    BY <2>6 DEF TypeOK
  <2> QED
    BY <1>1, <1>3, <2>6, <2>7, <2>8, <2>9 DEF CommitRequests
<1> QED
  BY <1>2, <1>3

LEMMA SbCycleIs ==
  ASSUME NEW dec \in Decs, NEW dc_ready \in BOOLEAN, SbCycle(dec, dc_ready)
  PROVE  /\ sb_req_ready(dc_ready) \in BOOLEAN
         /\ \E urgent \in BOOLEAN :
              CycleStep(sb_alloc_en(dec, dc_ready), ExecReq(dc_ready),
                        commit_sb(dc_ready), urgent, sb_req_ready(dc_ready))
BY DEF SbCycle, Urgencies, sb_stall, ld_stall, sb_req_ready

-----------------------------------------------------------------------------
(* What a cycle without a trap does to the slots.                          *)

(* Slots that nothing is done to keep what is said of them.                *)
LEMMA SlotKept ==
  ASSUME TypeOK, NEW nc \in 0 .. count, RingOf(nc),
         NEW alloc \in BOOLEAN, alloc => count < DEPTH,
         NEW creq \in ExecRequests, NEW commit \in CommitRequests,
         NEW pop \in BOOLEAN, pop => nc > 0,
         DataPath(alloc, creq, commit, pop), NEW i \in Slots
  PROVE  /\ Executable(i) /\ ~(creq.en /\ creq.idx = i) => Executable(i)'
         /\ buffer[i].valid /\ ~(pop /\ i = head_ptr) => buffer'[i].valid
         /\ ReadyToDrain(i) /\ ~(pop /\ i = head_ptr) => ReadyToDrain(i)'
         /\ ReadyToDrain(i) => buffer'[i].store = buffer[i].store
         /\ creq.en /\ i = creq.idx => buffer'[i].valid
         /\ alloc /\ i = tail_ptr => Executable(i)'
         /\ buffer'[i].valid /\ ~(creq.en /\ creq.idx = i) =>
              /\ buffer[i].valid
              /\ buffer'[i].allocated => buffer[i].allocated
              /\ buffer'[i].store = buffer[i].store
<1>1. buffer'[i] = Updated(i, alloc, creq, commit, pop)
  BY DEF DataPath
<1>2. alloc => FreeSlot(tail_ptr)
  BY EndsOfRing
<1>3. pop => ReadyToDrain(head_ptr)
  BY EndsOfRing
<1>4. /\ creq.en \in BOOLEAN /\ commit.en \in BOOLEAN
      /\ creq.en => Executable(creq.idx)
      /\ commit.en => commit.idx = commit_ptr /\ Committable(commit_ptr)
  BY RequestTypes
<1>5. buffer[i] \in Entry
  BY DEF TypeOK
<1> QED
  BY <1>1, <1>2, <1>3, <1>4, <1>5
     DEF Updated, Executable, Committable, ReadyToDrain, FreeSlot, Entry

(* The ring after a cycle: c stores are committed, a slots allocated and p *)
(* stores leave.                                                           *)
LEMMA RingAfter ==
  ASSUME SlotInv, ~overrun, NEW dec \in Decs, NEW dc_ready \in BOOLEAN,
         BCycle(dec, dc_ready), ~rob_trap_valid(dc_ready),
         NEW nc \in 0 .. count, RingOf(nc), SlotOrder(count - nc),
         NEW c, c = IF CommitsStore(dc_ready) THEN 1 ELSE 0,
         NEW a, a = IF sb_alloc_en(dec, dc_ready) THEN 1 ELSE 0,
         NEW p, p = IF dreq_valid /\ sb_req_ready(dc_ready) THEN 1 ELSE 0
  PROVE  /\ TypeOK' /\ count' = count + a - p
         /\ nc + c - p \in 0 .. count' /\ RingOf(nc + c - p)'
         /\ commit_ptr' = IF c = 1 THEN Succ(commit_ptr) ELSE commit_ptr
         /\ c = 1 => nc < count
         /\ a = 1 => count < DEPTH
         /\ c \in {0, 1} /\ a \in {0, 1} /\ p \in {0, 1}
         /\ \A k \in Nat : k + c <= DEPTH => SlotAt(k)' = SlotAt(k + c)
<1>1. TypeOK /\ StoreTokens /\ PipeInv /\ BTypeOK
  BY DEF SlotInv, BTypeOK
<1>2. ExecReq(dc_ready) \in ExecRequests
  BY <1>1, ExecLegal
<1>3. /\ commit_sb(dc_ready) \in CommitRequests
      /\ commit_sb(dc_ready).en <=> CommitsStore(dc_ready)
      /\ CommitsStore(dc_ready) => nc < count
  BY <1>1, CommitLegal
<1>4. /\ sb_alloc_en(dec, dc_ready) \in BOOLEAN
      /\ sb_alloc_en(dec, dc_ready) => ~sb_full
  BY AllocFacts
<1>5. SbCycle(dec, dc_ready)
  BY <1>1, PipeAfter DEF PipeInv
<1> PICK urgent \in BOOLEAN :
      CycleStep(sb_alloc_en(dec, dc_ready), ExecReq(dc_ready),
                commit_sb(dc_ready), urgent, sb_req_ready(dc_ready))
  BY <1>5, SbCycleIs
<1>6. sb_req_ready(dc_ready) \in BOOLEAN
  BY <1>5, SbCycleIs
<1>7. TypeOK'
  <2>1. IInv /\ Cycle
    BY <1>1, <1>2, <1>3, <1>4, <1>6 DEF IInv, Ring, Cycle
  <2> QED
    BY <2>1, CycleTypeOK
<1> PICK n : n = nc + c - p
  OBVIOUS
<1>8. n \in 0 .. count' /\ RingOf(n)'
  <2>1. n = nc + (IF commit_sb(dc_ready).en THEN 1 ELSE 0)
               - (IF dreq_valid /\ sb_req_ready(dc_ready) THEN 1 ELSE 0)
    BY <1>3
  <2> QED
    BY <1>1, <1>2, <1>3, <1>4, <1>6, <2>1, CycleRingOf
<1>9. count' = count + a - p
  <2>1. dreq_valid => count > 0
    BY <1>1, EndsOfRing DEF TypeOK
  <2> QED
    BY <1>1, <1>4, <2>1 DEF CycleStep, DataPath, TypeOK
<1>10. commit_ptr' = IF c = 1 THEN Succ(commit_ptr) ELSE commit_ptr
  BY <1>3 DEF CycleStep, DataPath
<1>11. a = 1 => count < DEPTH
  BY <1>1, <1>4, DepthAssumption DEF sb_full, TypeOK
<1>12. ASSUME NEW k \in Nat, k + c <= DEPTH
       PROVE  SlotAt(k)' = SlotAt(k + c)
  <2>1. SlotAt(k)' = Wrap(commit_ptr' + k)
    BY DEF SlotAt, Wrap
  <2>2. commit_ptr \in Slots
    BY <1>1 DEF TypeOK
  <2>3. CASE c = 1
    <3>1. k \in 0 .. DEPTH-1
      BY <1>12, <2>3, DepthAssumption
    <3> QED
      BY <1>10, <2>1, <2>2, <2>3, <3>1, WrapSucc DEF SlotAt
  <2>4. CASE c = 0
    BY <1>10, <2>1, <2>2, <2>4 DEF SlotAt, Slots
  <2> QED
    BY <2>3, <2>4
<1> QED
  BY <1>3, <1>7, <1>8, <1>9, <1>10, <1>11, <1>12

(* Facts about slots in a cycle, with the requests of the back end.        *)
LEMMA SlotAfter ==
  ASSUME SlotInv, ~overrun, NEW dec \in Decs, NEW dc_ready \in BOOLEAN,
         BCycle(dec, dc_ready), ~rob_trap_valid(dc_ready), NEW i \in Slots
  PROVE  LET executes == /\ IsStore(s_3e_q) /\ ~waiting_for_memory(dc_ready)
                         /\ ~Excepts(s_3e_q.ins) /\ s_3e_q.sbid = i
             leaves   == dreq_valid /\ sb_req_ready(dc_ready) /\ i = head_ptr
         IN /\ Executable(i) /\ ~executes => Executable(i)'
            /\ buffer[i].valid /\ ~leaves => buffer'[i].valid
            /\ ReadyToDrain(i) /\ ~leaves => ReadyToDrain(i)'
            /\ ReadyToDrain(i) => buffer'[i].store = buffer[i].store
            /\ executes => buffer'[i].valid
            /\ sb_alloc_en(dec, dc_ready) /\ i = tail_ptr => Executable(i)'
            /\ sb_alloc_en(dec, dc_ready) => FreeSlot(tail_ptr)
            /\ buffer'[i].valid /\ ~executes =>
                 /\ buffer[i].valid
                 /\ buffer'[i].allocated => buffer[i].allocated
                 /\ buffer'[i].store = buffer[i].store
            /\ head_ptr' = IF dreq_valid /\ sb_req_ready(dc_ready)
                           THEN Succ(head_ptr) ELSE head_ptr
<1>1. TypeOK /\ StoreTokens /\ PipeInv /\ BTypeOK /\ Slotted
  BY DEF SlotInv, BTypeOK
<1> PICK nc \in 0 .. count : RingOf(nc) /\ SlotOrder(count - nc)
  BY <1>1 DEF Slotted
<1>2. ExecReq(dc_ready) \in ExecRequests
  BY <1>1, ExecLegal
<1>3. commit_sb(dc_ready) \in CommitRequests
  BY <1>1, CommitLegal
<1>4. /\ sb_alloc_en(dec, dc_ready) \in BOOLEAN
      /\ sb_alloc_en(dec, dc_ready) => ~sb_full
  BY AllocFacts
<1>5. SbCycle(dec, dc_ready)
  BY <1>1, PipeAfter DEF PipeInv
<1> PICK urgent \in BOOLEAN :
      CycleStep(sb_alloc_en(dec, dc_ready), ExecReq(dc_ready),
                commit_sb(dc_ready), urgent, sb_req_ready(dc_ready))
  BY <1>5, SbCycleIs
<1>6. sb_req_ready(dc_ready) \in BOOLEAN
  BY <1>5, SbCycleIs
<1> DEFINE creq == ExecReq(dc_ready)
           leaves == dreq_valid /\ sb_req_ready(dc_ready) /\ i = head_ptr
<1>7. /\ Executable(i) /\ ~(creq.en /\ creq.idx = i) => Executable(i)'
      /\ buffer[i].valid /\ ~leaves => buffer'[i].valid
      /\ ReadyToDrain(i) /\ ~leaves => ReadyToDrain(i)'
      /\ ReadyToDrain(i) => buffer'[i].store = buffer[i].store
      /\ creq.en /\ i = creq.idx => buffer'[i].valid
      /\ sb_alloc_en(dec, dc_ready) /\ i = tail_ptr => Executable(i)'
      /\ buffer'[i].valid /\ ~(creq.en /\ creq.idx = i) =>
           /\ buffer[i].valid
           /\ buffer'[i].allocated => buffer[i].allocated
           /\ buffer'[i].store = buffer[i].store
  <2> DEFINE alloc == sb_alloc_en(dec, dc_ready) /\ ~sb_full
             pop   == dreq_valid /\ sb_req_ready(dc_ready)
  <2>1. /\ DataPath(alloc, creq, commit_sb(dc_ready), pop)
        /\ alloc \in BOOLEAN /\ pop \in BOOLEAN
    BY <1>4, <1>6 DEF CycleStep, dreq_valid
  <2>2. alloc => count < DEPTH
    BY <1>1, DepthAssumption DEF sb_full, TypeOK
  <2>3. pop => nc > 0
    BY <1>1, EndsOfRing
  <2>4. alloc <=> sb_alloc_en(dec, dc_ready)
    BY <1>4
  <2> HIDE DEF alloc, pop, creq
  <2>5. /\ Executable(i) /\ ~(creq.en /\ creq.idx = i) => Executable(i)'
        /\ buffer[i].valid /\ ~(pop /\ i = head_ptr) => buffer'[i].valid
        /\ ReadyToDrain(i) /\ ~(pop /\ i = head_ptr) => ReadyToDrain(i)'
        /\ ReadyToDrain(i) => buffer'[i].store = buffer[i].store
        /\ creq.en /\ i = creq.idx => buffer'[i].valid
        /\ alloc /\ i = tail_ptr => Executable(i)'
        /\ buffer'[i].valid /\ ~(creq.en /\ creq.idx = i) =>
             /\ buffer[i].valid
             /\ buffer'[i].allocated => buffer[i].allocated
             /\ buffer'[i].store = buffer[i].store
    BY <1>1, <1>2, <1>3, <2>1, <2>2, <2>3, SlotKept DEF creq
  <2> QED
    BY <2>4, <2>5 DEF pop
<1>8. sb_alloc_en(dec, dc_ready) => FreeSlot(tail_ptr)
  BY <1>1, <1>4, EndsOfRing, DepthAssumption DEF sb_full, TypeOK
<1>9. head_ptr' = IF dreq_valid /\ sb_req_ready(dc_ready)
                  THEN Succ(head_ptr) ELSE head_ptr
  BY DEF CycleStep, DataPath
<1> QED
  BY <1>4, <1>7, <1>8, <1>9, ExecReqIs

-----------------------------------------------------------------------------
(* Cycles preserve the invariant, part by part.                            *)

(* Stores that have not executed keep their slots: a stall keeps the       *)
(* tokens, an executing store is the older of the two.                     *)
LEMMA StoreTokensAfter ==
  ASSUME SlotInv, ~overrun, NEW dec \in Decs, NEW dc_ready \in BOOLEAN,
         BCycle(dec, dc_ready), ~rob_trap_valid(dc_ready)
  PROVE  StoreTokens'
<1>1. /\ StoreTokens /\ PipeTypeOK /\ tail_ptr \in Slots
      /\ s_2d_q \in Token /\ s_3e_q \in Token
  BY DEF SlotInv, PipeInv, PipeTypeOK
<1>2. CASE waiting_for_memory(dc_ready)
  <2>1. s_2d_q' = s_2d_q /\ s_3e_q' = s_3e_q
    BY <1>1, <1>2, PipeAfter
  <2>2. \A i \in Slots : Executable(i) => Executable(i)'
    BY <1>2, SlotAfter
  <2>3. s_2d_q.sbid \in Slots /\ s_3e_q.sbid \in Slots
    BY <1>1 DEF Token
  <2> QED
    BY <1>1, <2>1, <2>2, <2>3 DEF StoreTokens, IsStore, Executable
<1>3. CASE ~waiting_for_memory(dc_ready)
  <2>1. /\ s_2d_q' = Dispatched(dec, dc_ready, AluMemOps)
        /\ s_3e_q' = s_2d_q
    BY <1>1, <1>3, PipeAfter
  <2>2. ASSUME IsStore(s_2d_q')
        PROVE  /\ s_2d_q'.sbid = tail_ptr
               /\ sb_alloc_en(dec, dc_ready)
    <3>1. /\ Dispatches(dec, dc_ready)
          /\ s_2d_q' = [valid |-> TRUE, ins |-> dec, robid |-> tail_q,
                        sbid |-> alloc_idx]
      BY <2>1, <2>2, DispatchedIs DEF IsStore
    <3>2. dec.op = "st"
      BY <2>2, <3>1 DEF IsStore
    <3> QED
      BY <3>1, <3>2, DispatchFacts, AllocFacts DEF alloc_idx
  <2>3. sb_alloc_en(dec, dc_ready) =>
          FreeSlot(tail_ptr) /\ (\A i \in Slots : i = tail_ptr => Executable(i)')
    BY <1>1, SlotAfter
  <2>4. ASSUME IsStore(s_2d_q)
        PROVE  \A i \in Slots : i = s_2d_q.sbid => Executable(i) /\ Executable(i)'
    BY <1>1, <2>4, SlotAfter DEF StoreTokens
  <2>5. s_2d_q.sbid \in Slots
    BY <1>1 DEF Token
  <2>6. IsStore(s_2d_q') => Executable(s_2d_q.sbid)'
    BY <1>1, <2>2, <2>3 DEF Executable
  <2>7. IsStore(s_3e_q') => Executable(s_3e_q.sbid)'
    BY <2>1, <2>4, <2>5 DEF Executable, IsStore
  <2>8. IsStore(s_2d_q') /\ IsStore(s_3e_q') => s_2d_q'.sbid # s_3e_q'.sbid
    BY <2>1, <2>2, <2>3, <2>4, <2>5 DEF Executable, FreeSlot
  <2> QED
    BY <2>6, <2>7, <2>8 DEF StoreTokens, IsStore
<1> QED
  BY <1>2, <1>3

(* A store that leaves stage 4m has been executed.                         *)
LEMMA ExecutedAfter ==
  ASSUME SlotInv, ~overrun, NEW dec \in Decs, NEW dc_ready \in BOOLEAN,
         BCycle(dec, dc_ready), ~rob_trap_valid(dc_ready)
  PROVE  Executed'
<1>1. PipeTypeOK /\ s_3e_q \in Token
  BY DEF SlotInv, PipeInv, PipeTypeOK
<1>2. CASE waiting_for_memory(dc_ready)
  <2>1. s_4m_q' = Bubble
    BY <1>1, <1>2, PipeAfter
  <2> QED
    BY <2>1, BubbleType DEF Executed, IsStore
<1>3. CASE ~waiting_for_memory(dc_ready)
  <2>1. s_4m_q' = s_3e_q
    BY <1>1, <1>3, PipeAfter
  <2>2. \A i \in Slots :
          IsStore(s_3e_q) /\ ~Excepts(s_3e_q.ins) /\ s_3e_q.sbid = i =>
            buffer'[i].valid
    BY <1>3, SlotAfter
  <2>3. s_3e_q.sbid \in Slots
    BY <1>1 DEF Token
  <2> QED
    BY <2>1, <2>2, <2>3 DEF Executed, IsStore, Excepts
<1> QED
  BY <1>2, <1>3

(* Stages 2d to 4m stay in program order.                                  *)
LEMMA PipeOrderAfter ==
  ASSUME SlotInv, NEW dec \in Decs, NEW dc_ready \in BOOLEAN,
         BCycle(dec, dc_ready), ~rob_trap_valid(dc_ready)
  PROVE  PipeOrder'
<1>1. /\ PipeOrder /\ PipeInv /\ PipeTypeOK /\ PtrsOK /\ PipeInv'
      /\ RobCycle(dec, dc_ready)
  BY PipeInvCycle DEF SlotInv, PipeInv, PipeTypeOK, BCycle
<1> SUFFICES ASSUME NEW k \in 1 .. 3, NEW l \in 1 .. 3, k < l,
                    Units'[k].valid, Units'[l].valid,
                    NEW i \in R!RobIds, NEW j \in R!RobIds,
                    Units'[k].robid = i, Units'[l].robid = j
             PROVE  Age(j)' < Age(i)'
  <2>1. ASSUME NEW k \in 1 .. 3, Units'[k].valid
        PROVE  Units'[k].robid \in R!RobIds
    <3>1. Fresh(k, dec, dc_ready) => Units'[k].robid = tail_q
      BY DEF Fresh
    <3>2. Moved(k, dc_ready) => \E m \in 1 .. NUnits : Units'[k] = Units[m]
      BY DEF Moved
    <3>3. \A m \in 1 .. NUnits : Units[m].robid \in R!RobIds
      BY <1>1, UnitsAre DEF Token
    <3> QED
      BY <1>1, <2>1, <3>1, <3>2, <3>3, ComesFrom, PlaceArithmetic DEF PtrsOK
  <2> QED
    BY <2>1 DEF PipeOrder, Age
<1>2. k \in 1 .. NUnits /\ l \in 1 .. NUnits
  BY PlaceArithmetic
<1>3. R!Live(i)' /\ R!Live(j)'
  BY <1>1, <1>2 DEF PipeInv, OwnerInv, TokensOwned
<1>4. Age(j)' < Age(i)' <=> Age(j) < Age(i)
  BY <1>1, <1>3, OrderAfter
<1>5. Moved(l, dc_ready)
  <2>1. Fresh(l, dec, dc_ready) => l \in {1, 4, OP_DELAY+4}
    BY DEF Fresh, EntryPlace
  <2> QED
    BY <1>1, <1>2, <2>1, ComesFrom, PlaceArithmetic
<1> PICK m \in (1 .. NUnits) \ Outs : m = Source(l, dc_ready) /\ Units'[l] = Units[m]
  BY <1>5 DEF Moved
<1>6. CASE Fresh(k, dec, dc_ready)
  <2>1. i = tail_q
    BY <1>6 DEF Fresh
  <2>2. R!Live(j)
    BY <1>1, MovedOwner DEF PipeInv
  <2> QED
    BY <1>1, <1>4, <2>1, <2>2, AgeFacts
<1>7. CASE Moved(k, dc_ready)
  <2> PICK n \in (1 .. NUnits) \ Outs : n = Source(k, dc_ready) /\ Units'[k] = Units[n]
    BY <1>7 DEF Moved
  <2>1. n < m /\ n \in 1 .. 3 /\ m \in 1 .. 3
    BY <1>5, <1>7 DEF Source, Moved
  <2> QED
    BY <1>1, <1>4, <2>1 DEF PipeOrder
<1> QED
  BY <1>1, <1>2, <1>6, <1>7, ComesFrom

(* The parts of SlotOrder, with the numbers of RingAfter; n is the number  *)
(* of slots that are not committed after the cycle.                        *)
LEMMA AllStoresCountedAfter ==
  ASSUME PipeInv, NEW dec \in Decs, NEW dc_ready \in BOOLEAN,
         RobCycle(dec, dc_ready), ~rob_trap_valid(dc_ready),
         NEW n0 \in Nat, AllStoresCounted(n0),
         NEW n, n = n0 + (IF sb_alloc_en(dec, dc_ready) THEN 1 ELSE 0)
                       - (IF CommitsStore(dc_ready) THEN 1 ELSE 0)
  PROVE  AllStoresCounted(n)'
<1> SUFFICES ASSUME ~Known' PROVE Cardinality(RobStores)' = n
  BY DEF AllStoresCounted
<1>1. ~Known /\ ~(Issues(dec, dc_ready) /\ IssueReq(dec, dc_ready).xcpt)
  <2>1. \/ Known
        \/ Issues(dec, dc_ready) /\ IssueReq(dec, dc_ready).xcpt
        => Known'
    BY KnownGrows
  <2> QED
    BY <2>1, DispatchFacts
<1>2. Cardinality(RobStores) = n0
  BY <1>1 DEF AllStoresCounted
<1>3. IssueReq(dec, dc_ready).is_st <=> sb_alloc_en(dec, dc_ready)
  BY <1>1, AllocFacts
<1> QED
  BY <1>2, <1>3, StoresAfter

(* The slot of an instruction that stays does not change: when its rank    *)
(* drops the first slot that is not committed is one further.              *)
LEMMA RankSlotKept ==
  ASSUME SlotInv, ~overrun, NEW dec \in Decs, NEW dc_ready \in BOOLEAN,
         BCycle(dec, dc_ready), ~rob_trap_valid(dc_ready),
         NEW nc \in 0 .. count, RingOf(nc), SlotOrder(count - nc),
         NEW i \in R!RobIds, R!Live(i)', Rank(i) <= count - nc
  PROVE  SlotAt(Rank(i))' = SlotAt(Rank(i))
<1>1. PipeInv /\ RobCycle(dec, dc_ready)
  BY DEF SlotInv, BCycle
<1>2. count \in Nat /\ nc \in Nat /\ count <= DEPTH /\ DEPTH \in Nat
  BY DepthAssumption DEF SlotInv, BTypeOK, TypeOK
<1> PICK c \in {0, 1} : c = IF CommitsStore(dc_ready) THEN 1 ELSE 0
  OBVIOUS
<1>3. Rank(i)' = Rank(i) - c /\ Rank(i)' \in Nat /\ Rank(i) \in Nat
  BY <1>1, RankAfter, RankType
<1> PICK r \in Nat : r = Rank(i)'
  BY <1>3
<1>4. r + c = Rank(i) /\ r + c <= DEPTH
  BY <1>2, <1>3
<1>5. SlotAt(r)' = SlotAt(r + c)
  BY <1>4, RingAfter
<1>6. SlotAt(Rank(i))' = SlotAt(r)'
  BY DEF SlotAt
<1> QED
  BY <1>4, <1>5, <1>6

(* Tokens keep the slot of their rank; a new one takes tail_ptr, which is  *)
(* the slot of its rank.                                                   *)
LEMMA TokensTaggedAfter ==
  ASSUME SlotInv, ~overrun, NEW dec \in Decs, NEW dc_ready \in BOOLEAN,
         BCycle(dec, dc_ready), ~rob_trap_valid(dc_ready),
         NEW nc \in 0 .. count, RingOf(nc), SlotOrder(count - nc),
         NEW n, n = count - nc + (IF sb_alloc_en(dec, dc_ready) THEN 1 ELSE 0)
                               - (IF CommitsStore(dc_ready) THEN 1 ELSE 0)
  PROVE  TokensTagged(n)'
<1>1. /\ PipeInv /\ PipeTypeOK /\ OwnerInv /\ PtrsOK /\ PipeInv' /\ TypeOK
      /\ RobCycle(dec, dc_ready)
  BY PipeInvCycle DEF SlotInv, PipeInv, PipeTypeOK, BCycle, BTypeOK
<1>2. TokensTagged(count - nc) /\ AllStoresCounted(count - nc)
  BY DEF SlotOrder
<1>3. count \in Nat /\ nc \in Nat /\ nc <= count /\ count <= DEPTH
  BY <1>1, DepthAssumption DEF TypeOK
<1> SUFFICES ASSUME NEW k \in 1 .. 3, NEW i \in R!RobIds, Units'[k].valid,
                    Units'[k].robid = i, ~Doomed(i)'
             PROVE  Rank(i)' <= n /\ Units'[k].sbid = SlotAt(Rank(i))'
  BY DEF TokensTagged
<1>4. k \in 1 .. NUnits
  BY PlaceArithmetic
<1>5. R!Live(i)'
  BY <1>1, <1>4 DEF PipeInv, OwnerInv, TokensOwned
<1>6. ~Doomed(i)
  BY <1>1, <1>5, DoomedAfter
<1>7. Rank(i)' = Rank(i) - (IF CommitsStore(dc_ready) THEN 1 ELSE 0)
      /\ Rank(i)' \in Nat /\ Rank(i) \in Nat
  BY <1>1, <1>5, RankAfter, RankType
<1>8. Rank(i) <= count - nc /\ Units'[k].sbid = SlotAt(Rank(i))
  <2>1. CASE Fresh(k, dec, dc_ready)
    <3>1. i = tail_q /\ Units'[k].sbid = tail_ptr
      BY <2>1 DEF Fresh, alloc_idx
    <3>2. Rank(i) = count - nc
      BY <1>1, <1>2, <1>6, <3>1, RankOfTail DEF AllStoresCounted
    <3>3. SlotAt(count - nc) = tail_ptr
      BY <1>1, <1>3, SlotAtIs
    <3> QED
      BY <1>3, <3>1, <3>2, <3>3
  <2>2. CASE Moved(k, dc_ready)
    <3> PICK m \in (1 .. NUnits) \ Outs :
          m = Source(k, dc_ready) /\ Units'[k] = Units[m]
      BY <2>2 DEF Moved
    <3>1. m \in 1 .. 3
      BY DEF Source
    <3> QED
      BY <1>2, <1>6, <3>1 DEF TokensTagged
  <2> QED
    BY <1>1, <1>4, <2>1, <2>2, ComesFrom
<1>9. SlotAt(Rank(i))' = SlotAt(Rank(i))
  BY <1>5, <1>8, RankSlotKept
<1> QED
  BY <1>3, <1>7, <1>8, <1>9

(* A store completes with the slot its token names.                        *)
LEMMA StoresPlacedAfter ==
  ASSUME SlotInv, ~overrun, NEW dec \in Decs, NEW dc_ready \in BOOLEAN,
         BCycle(dec, dc_ready), ~rob_trap_valid(dc_ready),
         NEW nc \in 0 .. count, RingOf(nc), SlotOrder(count - nc),
         NEW n, n = count - nc + (IF sb_alloc_en(dec, dc_ready) THEN 1 ELSE 0)
                               - (IF CommitsStore(dc_ready) THEN 1 ELSE 0)
  PROVE  StoresPlaced(n)'
<1>1. /\ PipeInv /\ PipeTypeOK /\ OwnerInv /\ PtrsOK /\ TypeOK /\ Executed
      /\ RobCycle(dec, dc_ready)
  BY DEF SlotInv, PipeInv, PipeTypeOK, BCycle, BTypeOK
<1>2. /\ TokensTagged(count - nc) /\ AllStoresCounted(count - nc)
      /\ StoresPlaced(count - nc)
  BY DEF SlotOrder
<1>3. /\ count \in Nat /\ nc \in Nat /\ nc <= count /\ count <= DEPTH
      /\ DEPTH \in Nat
  BY <1>1, DepthAssumption DEF TypeOK
<1> SUFFICES ASSUME NEW i \in R!RobIds, R!Live(i)', entries'[i].is_st, ~Doomed(i)'
             PROVE  /\ Rank(i)' < n
                    /\ entries'[i].complete /\ ~entries'[i].xcpt =>
                         /\ entries'[i].sbid = SlotAt(Rank(i))'
                         /\ buffer'[SlotAt(Rank(i))'].valid
  BY DEF StoresPlaced, RobStores, LiveIds
<1>4. ~Doomed(i)
  BY <1>1, DoomedAfter
<1>5. /\ Rank(i)' = Rank(i) - (IF CommitsStore(dc_ready) THEN 1 ELSE 0)
      /\ Rank(i)' \in Nat /\ Rank(i) \in Nat
  BY <1>1, RankAfter, RankType
<1>6. CASE ~R!Live(i)
  <2>1. Issues(dec, dc_ready) /\ i = tail_q
    BY <1>1, <1>6, LiveAfter
  <2>2. /\ IssueReq(dec, dc_ready).is_st
        /\ entries'[i].complete <=> IssueReq(dec, dc_ready).xcpt
    BY <1>1, <2>1, NewEntry
  <2>3. sb_alloc_en(dec, dc_ready) /\ ~entries'[i].complete
    BY <2>2, AllocFacts, DispatchFacts
  <2>4. Rank(i) = count - nc
    BY <1>1, <1>2, <1>4, <2>1, RankOfTail DEF AllStoresCounted
  <2> QED
    BY <1>3, <1>5, <2>3, <2>4
<1>7. CASE R!Live(i)
  <2>1. i \in RobStores
    BY <1>1, <1>7, IsStAfter DEF RobStores, LiveIds
  <2>2. Rank(i) < count - nc
    BY <1>2, <1>4, <2>1 DEF StoresPlaced
  <2> PICK r \in Nat : r = Rank(i) /\ r < count - nc
    BY <1>5, <2>2
  <2> PICK s \in Slots : s = SlotAt(r) /\ (nc > 0 => s # head_ptr)
    BY <1>1, SpeculativeAt
  <2>3. SlotAt(Rank(i))' = s
    BY <1>3, <2>2, RankSlotKept
  <2>4. buffer[s].valid => buffer'[s].valid
    BY <1>1, EndsOfRing, SlotAfter
  <2>5. ASSUME entries[i].complete, ~entries'[i].xcpt
        PROVE  entries'[i].sbid = s /\ buffer[s].valid
    BY <1>1, <1>2, <1>4, <1>7, <2>1, <2>5, IsStAfter DEF StoresPlaced
  <2>6. ASSUME ~entries[i].complete, entries'[i].complete, ~entries'[i].xcpt
        PROVE  entries'[i].sbid = s /\ buffer[s].valid
    <3> PICK k \in Outs : Units[k].valid /\ Units[k].robid = i
      BY <1>1, <1>7, <2>6, EntryAfter
    <3>1. k \in 1 .. NUnits
      BY PlaceArithmetic
    <3>2. Units[k].ins.op = "st"
      BY <1>1, <2>1, <3>1 DEF OwnerInv, TokensOwned, KindsKept, RobStores
    <3>3. k = 3
      BY <1>1, <3>1, <3>2, PlaceArithmetic DEF OwnerInv, KindsKept
    <3>4. /\ entries'[i].sbid = s_4m_q.sbid
          /\ entries'[i].xcpt <=> Excepts(Units[k].ins)
      BY <1>1, <3>3, EntryAfter
    <3>5. Units[3] = s_4m_q
      BY <1>1, UnitsAre
    <3>6. Units[3].sbid = s
      BY <1>2, <1>4, <3>3 DEF TokensTagged
    <3> QED
      BY <1>1, <2>6, <3>2, <3>3, <3>4, <3>5, <3>6 DEF Executed, IsStore
  <2>7. Rank(i)' < n
    BY <1>3, <1>5, <2>2
  <2> QED
    BY <2>3, <2>4, <2>5, <2>6, <2>7
<1> QED
  BY <1>6, <1>7

(* The three parts together, with the ring of StoreBufferProofs.           *)
LEMMA SlottedAfter ==
  ASSUME SlotInv, ~overrun, NEW dec \in Decs, NEW dc_ready \in BOOLEAN,
         BCycle(dec, dc_ready), ~rob_trap_valid(dc_ready)
  PROVE  Slotted' /\ TypeOK'
<1>1. PipeInv /\ TypeOK /\ Slotted /\ RobCycle(dec, dc_ready)
  BY DEF SlotInv, BTypeOK, BCycle
<1> PICK nc \in 0 .. count : RingOf(nc) /\ SlotOrder(count - nc)
  BY <1>1 DEF Slotted
<1> PICK c \in {0, 1} : c = IF CommitsStore(dc_ready) THEN 1 ELSE 0
  OBVIOUS
<1> PICK a \in {0, 1} : a = IF sb_alloc_en(dec, dc_ready) THEN 1 ELSE 0
  OBVIOUS
<1> PICK p \in {0, 1} : p = IF dreq_valid /\ sb_req_ready(dc_ready) THEN 1 ELSE 0
  OBVIOUS
<1>2. /\ TypeOK' /\ count' = count + a - p
      /\ nc + c - p \in 0 .. count' /\ RingOf(nc + c - p)'
  BY RingAfter
<1> PICK m : m = nc + c - p
  OBVIOUS
<1> PICK n : n = count - nc + a - c
  OBVIOUS
<1>3. count \in Nat /\ nc \in Nat /\ nc <= count /\ n = count' - m
  BY <1>1, <1>2, DepthAssumption DEF TypeOK
<1>4. n = count - nc + (IF sb_alloc_en(dec, dc_ready) THEN 1 ELSE 0)
                     - (IF CommitsStore(dc_ready) THEN 1 ELSE 0)
  OBVIOUS
<1>5. AllStoresCounted(n)'
  <2>1. AllStoresCounted(count - nc) /\ count - nc \in Nat
    BY <1>3 DEF SlotOrder
  <2> QED
    BY <1>1, <1>4, <2>1, AllStoresCountedAfter
<1>6. TokensTagged(n)'
  BY <1>4, TokensTaggedAfter
<1>7. StoresPlaced(n)'
  BY <1>4, StoresPlacedAfter
<1>8. n <= Cardinality(Holders)'
  <2>1. Cardinality(Holders)' >= Cardinality(Holders)
           - (IF CommitsStore(dc_ready) THEN 1 ELSE 0)
           + (IF sb_alloc_en(dec, dc_ready) THEN 1 ELSE 0)
    BY <1>1, AllocFacts, HoldersAfter
  <2>2. count - nc <= Cardinality(Holders)
    BY DEF SlotOrder
  <2>3. Cardinality(Holders) \in Nat /\ Cardinality(Holders)' \in Nat
    <3>1. Holders' \subseteq R!RobIds
      BY DEF Holders, LiveIds
    <3> QED
      BY <3>1, RankType, RobIdsFinite, FS_Subset, FS_CardinalityType
  <2> QED
    BY <1>3, <2>1, <2>2, <2>3
<1>9. SlotOrder(n)'
  BY <1>5, <1>6, <1>7, <1>8 DEF SlotOrder
<1>10. RingOf(m)' /\ m \in 0 .. count'
  BY <1>2
<1> QED
  BY <1>2, <1>3, <1>9, <1>10 DEF Slotted

(* Who holds the port asks for it (dcache_arbitrer.sv:56-97).              *)
LEMMA OwnerAsks ==
  ASSUME SlotInv, ~overrun
  PROVE  /\ Owner = "ld" => ld_req_valid
         /\ Owner = "sb" => ReadyToDrain(head_ptr)
         /\ Owner \in {"ld", "sb", "none"}
<1>1. TypeOK /\ Slotted /\ ArbInv /\ arb \in {"IDLE", "SERVING_LD", "SERVING_SB"}
  BY DEF SlotInv, BTypeOK
<1>2. dreq_valid => ReadyToDrain(head_ptr)
  BY <1>1, EndsOfRing DEF Slotted
<1> QED
  BY <1>1, <1>2 DEF Owner, ArbInv

(* The arbiter serves on whom it has not answered.                         *)
LEMMA ServedIsWaiting ==
  ASSUME SlotInv, ~overrun, NEW dc_ready \in BOOLEAN, ArbStep(dc_ready)
  PROVE  /\ arb' \in {"IDLE", "SERVING_LD", "SERVING_SB"}
         /\ arb' = "SERVING_LD" => Owner = "ld" /\ ~dc_ready
         /\ arb' = "SERVING_SB" => Owner = "sb" /\ ~dc_ready
BY OwnerAsks DEF ArbStep

(* No cycle withdraws a request the arbiter serves: the load stays while   *)
(* it waits, the head while it is not popped, and a trap waits for the     *)
(* load (dcache_arbitrer.sv:78-96, gandul.sv:110).                         *)
LEMMA ArbInvAfter ==
  ASSUME SlotInv, ~overrun, NEW dec \in Decs, NEW dc_ready \in BOOLEAN,
         BCycle(dec, dc_ready)
  PROVE  ArbInv' /\ arb' \in {"IDLE", "SERVING_LD", "SERVING_SB"}
<1>1. /\ PipeTypeOK /\ TypeOK /\ Slotted /\ ArbInv /\ s_3e_q \in Token
      /\ arb \in {"IDLE", "SERVING_LD", "SERVING_SB"}
      /\ head_ptr \in Slots
  BY DEF SlotInv, BTypeOK, PipeInv, TypeOK
<1>2. /\ Owner = "ld" => ld_req_valid
      /\ Owner = "sb" => ReadyToDrain(head_ptr)
  BY OwnerAsks
<1>3. /\ arb' \in {"IDLE", "SERVING_LD", "SERVING_SB"}
      /\ arb' = "SERVING_LD" => Owner = "ld" /\ ~dc_ready
      /\ arb' = "SERVING_SB" => Owner = "sb" /\ ~dc_ready
  BY ServedIsWaiting DEF BCycle
<1>4. ASSUME arb' = "SERVING_LD"
      PROVE  ld_req_valid'
  <2>1. ld_req_valid /\ ~sb_req_ready(dc_ready) /\ waiting_for_memory(dc_ready)
    BY <1>2, <1>3, <1>4 DEF waiting_for_memory, ld_req_ready, sb_req_ready
  <2>2. ~rob_trap_valid(dc_ready)
    BY <2>1, CommitFacts
  <2>3. s_3e_q' = s_3e_q
    BY <1>1, <2>1, <2>2, PipeAfter
  <2>4. Matches(s_3e_q.sbid, s_3e_q.ins.acc) = {}
    BY <2>1 DEF ld_req_valid, sb_stall, sb_hit, ld_stall, ld_hit
  <2>5. \A i \in Slots : buffer'[i].valid /\ buffer'[i].allocated =>
          buffer[i].valid /\ buffer[i].allocated /\ buffer'[i].store = buffer[i].store
    BY <2>1, <2>2, SlotAfter
  <2>6. head_ptr' = head_ptr
    BY <1>1, <2>1, <2>2, SlotAfter
  <2>7. \A d \in 1 .. DEPTH : Back(s_3e_q.sbid, d) \in Slots
    BY <1>1, DepthAssumption DEF Back, Slots, Token
  <2>8. Matches(s_3e_q.sbid, s_3e_q.ins.acc)' = {}
    BY <2>3, <2>4, <2>5, <2>6, <2>7 DEF Matches, IsOlder, Overlaps
  <2> QED
    BY <2>1, <2>3, <2>8
       DEF ld_req_valid, sb_stall, sb_hit, ld_stall, ld_hit, load_4m, store_4m,
           addr_misaligned, Excepts
<1>5. ASSUME arb' = "SERVING_SB"
      PROVE  ReadyToDrain(head_ptr)'
  <2>1. ReadyToDrain(head_ptr) /\ ~sb_req_ready(dc_ready)
    BY <1>2, <1>3, <1>5 DEF sb_req_ready
  <2>2. CASE rob_trap_valid(dc_ready)
    <3>1. FlushStep
      BY <2>2, PipeAfterTrap
    <3> QED
      BY <1>1, <2>1, <3>1 DEF FlushStep, ReadyToDrain
  <2>3. CASE ~rob_trap_valid(dc_ready)
    <3> PICK h \in Slots : h = head_ptr
      BY <1>1
    <3>1. head_ptr' = h /\ ReadyToDrain(h)'
      BY <2>1, <2>3, SlotAfter
    <3> QED
      BY <3>1 DEF ReadyToDrain
  <2> QED
    BY <2>2, <2>3
<1> QED
  BY <1>3, <1>4, <1>5 DEF ArbInv

(* A trap leaves the committed slots, and no store in flight.              *)
LEMMA SlotInvAfterTrap ==
  ASSUME SlotInv, ~overrun, NEW dec \in Decs, NEW dc_ready \in BOOLEAN,
         BCycle(dec, dc_ready), rob_trap_valid(dc_ready)
  PROVE  /\ TypeOK' /\ PipeOrder'
         /\ ~overrun' => StoreTokens' /\ Executed' /\ Slotted'
<1>1. PipeTypeOK /\ TypeOK /\ Slotted
  BY DEF SlotInv, BTypeOK, PipeInv
<1>2. PipeTrap /\ FlushStep /\ overrun' = AllCommitted
  BY PipeAfterTrap
<1>3. /\ \A i \in R!RobIds : ~R!Live(i)'
      /\ \A k \in 1 .. NUnits : ~Units'[k].valid
  BY <1>1, AfterTrap, BubbleType
<1>4. LiveIds' = {} /\ RobStores' = {} /\ ~Known'
  BY <1>3 DEF LiveIds, RobStores, Known
<1>5. \A k \in 1 .. 3 : ~Units'[k].valid
  BY <1>3, PlaceArithmetic
<1>6. PipeOrder'
  BY <1>5 DEF PipeOrder
<1>7. StoreTokens' /\ Executed'
  BY <1>2, BubbleType DEF PipeTrap, StoreTokens, Executed, IsStore
<1>8. ASSUME ~overrun'
      PROVE  Slotted'
  <2> PICK nc \in 0 .. count : RingOf(nc)
    BY <1>1 DEF Slotted
  <2>1. count' = nc /\ RingOf(nc)' /\ nc \in Nat
    BY <1>1, <1>2, <1>8, FlushRingOf DEF TypeOK
  <2>2. AllStoresCounted(0)'
    BY <1>4, FS_EmptySet DEF AllStoresCounted
  <2>3. TokensTagged(0)' /\ StoresPlaced(0)'
    BY <1>4, <1>5 DEF TokensTagged, StoresPlaced
  <2>4. 0 <= Cardinality(Holders)'
    <3>1. Holders' = {}
      BY <1>4 DEF Holders
    <3> QED
      BY <3>1, FS_EmptySet
  <2>5. SlotOrder(0)'
    BY <2>2, <2>3, <2>4 DEF SlotOrder
  <2>6. count' - nc = 0 /\ nc \in 0 .. count'
    BY <2>1
  <2> QED
    BY <2>1, <2>5, <2>6 DEF Slotted
<1> QED
  BY <1>1, <1>2, <1>6, <1>7, <1>8, FlushTypeOK

LEMMA SlotInvInit == BInit => SlotInv
<1> SUFFICES ASSUME BInit PROVE SlotInv
  OBVIOUS
<1>1. PipeInv
  BY PipeInvInit
<1>2. TypeOK /\ RingOf(0) /\ count = 0
  BY InitRingOf DEF BInit
<1>3. BTypeOK
  BY <1>1, <1>2 DEF BInit, BTypeOK, PipeInv, PipeTypeOK, PtrsOK
<1>4. /\ s_2d_q = Bubble /\ s_3e_q = Bubble /\ s_4m_q = Bubble
      /\ arb = "IDLE"
  BY DEF BInit
<1>5. /\ \A i \in R!RobIds : ~R!Live(i)
      /\ \A k \in 1 .. 3 : ~Units[k].valid
  <2>1. head_q = 0 /\ tail_q = 0
    BY DEF BInit, R!Init
  <2>2. \A i \in R!RobIds : ~R!Live(i)
    <3>1. head_q <= tail_q
      BY <2>1
    <3>2. \A i \in R!RobIds : ~(i >= 0 /\ i < 0)
      BY EntriesAssumption DEF R!RobIds
    <3> QED
      BY <2>1, <3>1, <3>2 DEF R!Live
  <2>3. Units[1] = Bubble /\ Units[2] = Bubble /\ Units[3] = Bubble
    BY <1>1, <1>4, UnitsAre DEF PipeInv
  <2> QED
    BY <2>2, <2>3, BubbleType
<1>6. LiveIds = {} /\ RobStores = {} /\ ~Known
  BY <1>5 DEF LiveIds, RobStores, Known
<1>7. PipeOrder /\ StoreTokens /\ Executed /\ ArbInv
  BY <1>4, <1>5, BubbleType DEF PipeOrder, StoreTokens, Executed, ArbInv, IsStore
<1>8. SlotOrder(0)
  <2>1. AllStoresCounted(0) /\ TokensTagged(0) /\ StoresPlaced(0)
    BY <1>5, <1>6, FS_EmptySet DEF AllStoresCounted, TokensTagged, StoresPlaced
  <2>2. Holders = {}
    BY <1>6 DEF Holders
  <2> QED
    BY <2>1, <2>2, FS_EmptySet DEF SlotOrder
<1>9. count - 0 = 0 /\ 0 \in 0 .. count
  BY <1>2
<1>10. Slotted
  BY <1>2, <1>8, <1>9 DEF Slotted
<1> QED
  BY <1>1, <1>3, <1>7, <1>10 DEF SlotInv

LEMMA SlotInvCycle ==
  ASSUME SlotInv, ~overrun, NEW dec \in Decs, NEW dc_ready \in BOOLEAN,
         BCycle(dec, dc_ready)
  PROVE  SlotInv'
<1>1. PipeInv'
  BY PipeInvCycle DEF SlotInv
<1>2. ArbInv' /\ arb' \in {"IDLE", "SERVING_LD", "SERVING_SB"}
  BY ArbInvAfter
<1>3. /\ TypeOK' /\ PipeOrder'
      /\ ~overrun' => StoreTokens' /\ Executed' /\ Slotted'
  <2>1. CASE rob_trap_valid(dc_ready)
    BY <2>1, SlotInvAfterTrap
  <2>2. CASE ~rob_trap_valid(dc_ready)
    BY <2>2, SlottedAfter, PipeOrderAfter, StoreTokensAfter, ExecutedAfter
  <2> QED
    BY <2>1, <2>2
<1>4. BTypeOK'
  BY <1>1, <1>2, <1>3 DEF BTypeOK, PipeInv, PipeTypeOK, PtrsOK
<1> QED
  BY <1>1, <1>2, <1>3, <1>4 DEF SlotInv

LEMMA SlotInvStutter ==
  ASSUME SlotInv, UNCHANGED bevars
  PROVE  SlotInv'
<1>1. PipeInv'
  BY PipeInvStutter DEF SlotInv
<1>2. BTypeOK'
  BY DEF SlotInv, BTypeOK, TypeOK, bevars, sbvars, pipevars
<1>3. /\ buffer' = buffer /\ head_ptr' = head_ptr /\ tail_ptr' = tail_ptr
      /\ commit_ptr' = commit_ptr /\ count' = count /\ state' = state
      /\ entries' = entries /\ head_q' = head_q /\ tail_q' = tail_q
      /\ s_2d_q' = s_2d_q /\ s_3e_q' = s_3e_q /\ s_4m_q' = s_4m_q
      /\ arb' = arb /\ overrun' = overrun /\ Units' = Units
  BY DEF bevars, sbvars, pipevars, Units
<1>4. PipeOrder'
  BY <1>3 DEF SlotInv, PipeOrder, Age
<1>5. /\ StoreTokens => StoreTokens'
      /\ Executed => Executed'
  BY <1>3 DEF StoreTokens, Executed, IsStore, Executable, Excepts
<1>6. ArbInv => ArbInv'
  BY <1>3 DEF ArbInv, ld_req_valid, load_4m, store_4m, addr_misaligned, sb_stall,
     sb_hit, ld_stall, ld_hit, Matches, Match, IsOlder, Overlaps, ReadyToDrain,
     Excepts
<1>7. Slotted => Slotted'
  <2>1. /\ LiveIds' = LiveIds /\ RobStores' = RobStores /\ Holders' = Holders
        /\ \A i : OlderStores(i)' = OlderStores(i) /\ Rank(i)' = Rank(i)
    BY <1>3 DEF LiveIds, RobStores, Holders, OlderStores, Rank, R!Live, Age
  <2>2. (Known' <=> Known) /\ \A i : Doomed(i)' <=> Doomed(i)
    BY <1>3, <2>1 DEF Known, KnownAt, Doomed, Age
  <2>3. \A k : SlotAt(k)' = SlotAt(k)
    BY <1>3 DEF SlotAt
  <2>4. \A n : RingOf(n) => RingOf(n)'
    BY <1>3 DEF RingOf, Slot, CommittedSlot, SpeculativeSlot, FreeSlot,
                ReadyToDrain
  <2>5. \A n : AllStoresCounted(n) => AllStoresCounted(n)'
    BY <2>1, <2>2 DEF AllStoresCounted
  <2>6. \A n : TokensTagged(n) => TokensTagged(n)'
    BY <1>3, <2>1, <2>2, <2>3 DEF TokensTagged
  <2>7. \A n : StoresPlaced(n) => StoresPlaced(n)'
    BY <1>3, <2>1, <2>2, <2>3 DEF StoresPlaced
  <2>8. \A n : SlotOrder(n) => SlotOrder(n)'
    BY <2>1, <2>5, <2>6, <2>7 DEF SlotOrder
  <2> QED
    BY <1>3, <2>4, <2>8 DEF Slotted
<1> QED
  BY <1>1, <1>2, <1>3, <1>4, <1>5, <1>6, <1>7 DEF SlotInv

LEMMA SlotInvNext ==
  ASSUME SlotInv, [BNext]_bevars
  PROVE  SlotInv'
BY StepIsCycle, SlotInvCycle, SlotInvStutter

(* The back end and the store buffer agree on the slots, for any sizes of  *)
(* both: every store that no exception is known to squash has the slot of  *)
(* its place in program order, in decode, in the pipeline and in the       *)
(* reorder buffer, although slots are given at decode, named at completion *)
(* and freed by commits and traps (stage_2d.sv, stage_4m.sv, rob.sv:150,   *)
(* 193-195).                                                               *)
THEOREM SlotInvariant == BSpec => []SlotInv
BY SlotInvInit, SlotInvNext, PTL DEF BSpec

-----------------------------------------------------------------------------
(* What the invariant says of the properties.                              *)

(* Type correctness of the back end: pointers, tokens and slots keep their *)
(* ranges for any sizes (gandul.sv, rob.sv, store_buffer.sv).              *)
THEOREM BackendTypeCorrect == BSpec => []BTypeOK
<1>1. SlotInv => BTypeOK
  BY DEF SlotInv
<1> QED
  BY <1>1, SlotInvariant, PTL

(* The wrap of an index below 2 * DEPTH is its remainder.                  *)
LEMMA WrapIsMod ==
  ASSUME NEW p \in 0 .. 2 * DEPTH - 1
  PROVE  p % DEPTH = Wrap(p)
<1>1. DEPTH \in Nat /\ DEPTH > 0
  BY DepthAssumption
<1>2. CASE p < DEPTH
  BY <1>1, <1>2 DEF Wrap
<1>3. CASE p >= DEPTH
  <2>1. p % DEPTH = (p - DEPTH) % DEPTH
    BY <1>1, <1>3
  <2> QED
    BY <1>1, <1>3, <2>1 DEF Wrap
<1> QED
  BY <1>1, <1>2, <1>3

LEMMA SlotOfIs ==
  ASSUME TypeOK, NEW i, Rank(i) < DEPTH
  PROVE  SlotOf(i) = SlotAt(Rank(i))
<1>1. Rank(i) \in Nat
  BY RankType
<1>2. SlotOf(i) = (commit_ptr + Rank(i)) % DEPTH
  BY DEF SlotOf, Rank, OlderStores
<1>3. commit_ptr + Rank(i) \in 0 .. 2 * DEPTH - 1
  BY <1>1, DepthAssumption DEF TypeOK, Slots
<1> QED
  BY <1>2, <1>3, WrapIsMod DEF SlotAt

(* StoresPlaced is what the property says.                                 *)
LEMMA PlacedInOrder ==
  ASSUME SlotInv
  PROVE  StoresHoldSlotsInOrder
<1> SUFFICES ASSUME ~overrun, NEW i \in RobStores, ~Doomed(i)
             PROVE  /\ buffer[SlotOf(i)].allocated /\ ~buffer[SlotOf(i)].committed
                    /\ entries[i].complete /\ ~entries[i].xcpt =>
                         /\ buffer[SlotOf(i)].valid
                         /\ entries[i].sbid = SlotOf(i)
  BY DEF StoresHoldSlotsInOrder
<1>1. TypeOK /\ Slotted
  BY DEF SlotInv, BTypeOK
<1> PICK nc \in 0 .. count : RingOf(nc) /\ SlotOrder(count - nc)
  BY <1>1 DEF Slotted
<1>2. /\ Rank(i) < count - nc
      /\ entries[i].complete /\ ~entries[i].xcpt =>
           /\ entries[i].sbid = SlotAt(Rank(i))
           /\ buffer[SlotAt(Rank(i))].valid
  BY DEF SlotOrder, StoresPlaced
<1>3. /\ Rank(i) \in Nat /\ count \in Nat /\ nc \in Nat /\ count <= DEPTH
      /\ DEPTH \in Nat
  BY <1>1, RankType, DepthAssumption DEF TypeOK
<1>4. SlotOf(i) = SlotAt(Rank(i))
  BY <1>1, <1>2, <1>3, SlotOfIs
<1>5. SpeculativeSlot(SlotAt(Rank(i)))
  BY <1>1, <1>2, <1>3, SpeculativeAt
<1> QED
  BY <1>2, <1>4, <1>5 DEF SpeculativeSlot

(* The stores of the reorder buffer that no exception will squash hold the *)
(* uncommitted slots in program order, and their completions name them,    *)
(* for any number of slots and entries (rob.sv:150, 193-195).              *)
THEOREM SlotsInOrder == BSpec => []StoresHoldSlotsInOrder
BY SlotInvariant, PlacedInOrder, PTL

(* A step is a clock cycle or none.                                        *)
LEMMA StepKinds ==
  ASSUME SlotInv, [BNext]_bevars
  PROVE  \/ ~overrun /\ \E dec \in Decs, dc_ready \in BOOLEAN :
                           BCycle(dec, dc_ready)
         \/ UNCHANGED bevars
BY StepIsCycle

(* A load that is served and not answered: no trap can come, stage 4m      *)
(* waits, and no older store that it overlaps can appear.                  *)
LEMMA LoadRequestKept ==
  ASSUME SlotInv, [BNext]_bevars
  PROVE  [Owner = "ld" /\ arb' = "SERVING_LD" =>
            s_3e_q' = s_3e_q /\ ld_req_valid']_bevars
<1> SUFFICES ASSUME bevars' # bevars, Owner = "ld", arb' = "SERVING_LD"
             PROVE  s_3e_q' = s_3e_q /\ ld_req_valid'
  OBVIOUS
<1>0. ~overrun
  BY StepKinds
<1> PICK dec \in Decs, dc_ready \in BOOLEAN : BCycle(dec, dc_ready)
  BY StepKinds
<1>1. PipeTypeOK /\ ArbStep(dc_ready)
  BY <1>0 DEF SlotInv, PipeInv, BCycle
<1>2. waiting_for_memory(dc_ready)
  BY <1>0, <1>1, OwnerAsks, ServedIsWaiting DEF waiting_for_memory, ld_req_ready
<1>3. s_3e_q' = s_3e_q
  BY <1>1, <1>2, CommitFacts, PipeAfter
<1>4. ArbInv'
  BY <1>0, ArbInvAfter
<1> QED
  BY <1>3, <1>4 DEF ArbInv

(* A store that is served and not answered: a committed slot loses neither *)
(* its place nor its content, in a flush as little as in another cycle.    *)
LEMMA StoreRequestKept ==
  ASSUME SlotInv, [BNext]_bevars
  PROVE  [Owner = "sb" /\ arb' = "SERVING_SB" =>
            head_ptr' = head_ptr /\ dreq_store' = dreq_store]_bevars
<1> SUFFICES ASSUME bevars' # bevars, Owner = "sb", arb' = "SERVING_SB"
             PROVE  head_ptr' = head_ptr /\ dreq_store' = dreq_store
  OBVIOUS
<1>0. ~overrun
  BY StepKinds
<1> PICK dec \in Decs, dc_ready \in BOOLEAN : BCycle(dec, dc_ready)
  BY StepKinds
<1>1. TypeOK /\ ArbStep(dc_ready) /\ head_ptr \in Slots
  BY <1>0 DEF SlotInv, BTypeOK, TypeOK, BCycle
<1>2. ReadyToDrain(head_ptr) /\ ~sb_req_ready(dc_ready)
  BY <1>0, <1>1, OwnerAsks, ServedIsWaiting DEF sb_req_ready
<1>3. CASE rob_trap_valid(dc_ready)
  <2>1. FlushStep
    BY <1>3, PipeAfterTrap
  <2> QED
    BY <1>1, <1>2, <2>1 DEF FlushStep, ReadyToDrain, dreq_store
<1>4. CASE ~rob_trap_valid(dc_ready)
  <2> PICK h \in Slots : h = head_ptr
    BY <1>1
  <2>1. head_ptr' = h /\ buffer'[h].store = buffer[h].store
    BY <1>0, <1>2, <1>4, SlotAfter
  <2> QED
    BY <2>1 DEF dreq_store
<1> QED
  BY <1>3, <1>4

(* A load the cache has not answered is asked for on, with its address,    *)
(* not even a trap takes it back (dcache_arbitrer.sv:56-86,                *)
(* gandul.sv:110).                                                         *)
THEOREM LoadRequestsStable == BSpec => LoadRequestStable
BY SlotInvariant, LoadRequestKept, PTL DEF BSpec, LoadRequestStable

(* A store the cache has not answered stays what and where it is, flushes  *)
(* included (dcache_arbitrer.sv:56-97, store_buffer.sv:101-122).           *)
THEOREM StoreRequestsStable == BSpec => StoreRequestStable
BY SlotInvariant, StoreRequestKept, PTL DEF BSpec, StoreRequestStable

(* A cycle of the back end is one of StoreBuffer, with legal requests.     *)
LEMMA ImplementsStep ==
  ASSUME SlotInv, [BNext]_bevars
  PROVE  [Next]_sbvars
<1>1. CASE UNCHANGED bevars
  BY <1>1 DEF bevars
<1>2. CASE ~overrun /\ \E dec \in Decs, dc_ready \in BOOLEAN :
                           BCycle(dec, dc_ready)
  <2> PICK dec \in Decs, dc_ready \in BOOLEAN : BCycle(dec, dc_ready)
    BY <1>2
  <2>1. PipeInv /\ PipeTypeOK /\ BTypeOK /\ TypeOK /\ StoreTokens /\ Slotted
    BY <1>2 DEF SlotInv, BTypeOK, PipeInv
  <2>2. CASE rob_trap_valid(dc_ready)
    BY <2>2, PipeAfterTrap, FlushAssumption DEF Next, Flush
  <2>3. CASE ~rob_trap_valid(dc_ready)
    <3>1. SbCycle(dec, dc_ready)
      BY <2>1, <2>3, PipeAfter
    <3>2. ExecReq(dc_ready) \in ExecRequests
      BY <2>1, ExecLegal
    <3>3. commit_sb(dc_ready) \in CommitRequests
      BY <2>1, <2>3, CommitLegal DEF Slotted
    <3>4. sb_alloc_en(dec, dc_ready) \in BOOLEAN
      BY AllocFacts
    <3>5. Cycle
      BY <3>1, <3>2, <3>3, <3>4, SbCycleIs DEF Cycle
    <3> QED
      BY <3>5 DEF Next
  <2> QED
    BY <2>2, <2>3
<1> QED
  BY <1>1, <1>2, StepKinds

(* The back end drives the store buffer as StoreBuffer's environment may:  *)
(* it allocates only free slots, executes each slot once and commits in    *)
(* order, so that what is proved of the ring holds in the core             *)
(* (gandul.sv:436-583, stage_4m.sv:90-218).                                *)
THEOREM ImplementsBuffer == BSpec => ImplementsStoreBuffer
<1>1. BInit => Init
  BY DEF BInit
<1> QED
  BY <1>1, SlotInvariant, ImplementsStep, PTL
     DEF BSpec, ImplementsStoreBuffer, Spec

(* A fence is committed with an empty buffer, and so with no slot in use   *)
(* and no drain under way.                                                 *)
LEMMA FenceAfterStores ==
  ASSUME SlotInv, [BNext]_bevars, Retires, R!commit_fence
  PROVE  /\ \A s \in Slots : ~buffer[s].allocated
         /\ arb # "SERVING_SB"
<1>1. ~UNCHANGED bevars
  BY DEF Retires, bevars
<1>2. ~overrun /\ \E dec \in Decs, dc_ready \in BOOLEAN : BCycle(dec, dc_ready)
  BY <1>1, StepKinds
<1> PICK dec \in Decs, dc_ready \in BOOLEAN : BCycle(dec, dc_ready)
  BY <1>2
<1>3. TypeOK /\ Slotted /\ ArbInv /\ PtrsOK
  BY <1>2 DEF SlotInv, BTypeOK, PtrsOK
<1>4. Commits(dc_ready)
  BY <1>3, PointersAfter DEF Retires, BCycle
<1>5. count = 0
  BY <1>4 DEF Commits, R!committing_head_q, rob_can_commit, sb_empty
<1> PICK nc \in 0 .. count : RingOf(nc)
  BY <1>3 DEF Slotted
<1>6. nc = 0
  BY <1>5
<1>7. \A s \in Slots : ~buffer[s].allocated
  <2> SUFFICES ASSUME NEW s \in Slots PROVE ~buffer[s].allocated
    OBVIOUS
  <2> PICK k \in 0 .. DEPTH-1 : s = Slot(k)
    BY <1>3, SlotIsSlot DEF TypeOK
  <2> QED
    BY <1>5, DepthAssumption DEF RingOf, FreeSlot
<1>8. arb # "SERVING_SB"
  BY <1>3, <1>6, EndsOfRing DEF ArbInv
<1> QED
  BY <1>7, <1>8

(* When a fence is committed every store before it has been taken by the   *)
(* cache, for any sizes (gandul.sv:109, stage_4m.sv:212-218).              *)
THEOREM FencesFollowStores == BSpec => FenceFollowsStores
BY SlotInvariant, FenceAfterStores, PTL DEF BSpec, FenceFollowsStores

(* A trap from a state of the invariant is precise.                        *)
LEMMA PreciseTrap ==
  ASSUME SlotInv, [BNext]_bevars, Traps
  PROVE  /\ head_q' = tail_q'
         /\ \A k \in DOMAIN Units' : ~Units'[k].valid
         /\ \A s \in Slots : buffer'[s].allocated = buffer[s].committed
         /\ overrun' \/ count' = Cardinality({s \in Slots : buffer[s].committed})
<1>1. ~UNCHANGED bevars
  BY DEF Traps, Retires, bevars
<1>2. ~overrun /\ \E dec \in Decs, dc_ready \in BOOLEAN : BCycle(dec, dc_ready)
  BY <1>1, StepKinds
<1> PICK dec \in Decs, dc_ready \in BOOLEAN : BCycle(dec, dc_ready)
  BY <1>2
<1>3. TypeOK /\ Slotted /\ PipeTypeOK /\ PtrsOK
  BY <1>2 DEF SlotInv, BTypeOK, PipeInv, PipeTypeOK
<1>4. rob_trap_valid(dc_ready)
  <2>1. Commits(dc_ready)
    BY <1>3, PointersAfter DEF Traps, Retires, BCycle
  <2> QED
    BY <2>1, CommitFacts DEF Traps
<1>5. /\ head_q' = tail_q'
      /\ \A k \in 1 .. NUnits : ~Units'[k].valid
  BY <1>3, <1>4, AfterTrap, BubbleType
<1>6. DOMAIN Units' = 1 .. NUnits
  BY DEF Units, NUnits
<1>7. FlushStep /\ overrun' = AllCommitted
  BY <1>4, PipeAfterTrap
<1> PICK nc \in 0 .. count : RingOf(nc)
  BY <1>3 DEF Slotted
<1>8. /\ Cardinality({s \in Slots : buffer[s].committed}) = nc
      /\ \A s \in Slots : buffer[s].committed => buffer[s].allocated
  BY <1>3, CommittedCount
<1>9. ASSUME NEW s \in Slots
      PROVE  buffer'[s].allocated = buffer[s].committed
  <2>1. buffer[s] \in Entry
    BY <1>3 DEF TypeOK
  <2>2. buffer'[s] = IF buffer[s].committed THEN buffer[s]
                     ELSE [buffer[s] EXCEPT !.allocated = FALSE, !.valid = FALSE]
    BY <1>7 DEF FlushStep
  <2> QED
    BY <1>8, <2>1, <2>2 DEF Entry
<1>10. ~overrun' => count' = nc
  BY <1>3, <1>7, FlushRingOf
<1> QED
  BY <1>5, <1>6, <1>8, <1>9, <1>10

(* A trap leaves nothing in flight, an empty reorder buffer and exactly    *)
(* the stores that were committed before it, unless it found every slot    *)
(* committed (gandul.sv:91-103, rob.sv:115-116, store_buffer.sv:101-122).  *)
THEOREM TrapsArePrecise == BSpec => TrapIsPrecise
BY SlotInvariant, PreciseTrap, PTL DEF BSpec, TrapIsPrecise

-----------------------------------------------------------------------------
(* A load whose age tag is the head.                                       *)

FewEntries == DEPTH >= N_ENTRIES

(* The age tag of the load that stage 3e will receive is not old.          *)
TagIsTail == IsLoad(s_2d_q) => s_2d_q.sbid = tail_ptr

(* While the buffer is full it drains, before any load that was dispatched *)
(* since.                                                                  *)
LoadsBehindDrain ==
  count = DEPTH /\ IsLoad(s_2d_q) =>
    state = "DRAIN" /\ (load_4m => arb = "SERVING_SB")

AmbiguousTagWaits ==
  count = DEPTH /\ load_4m /\ s_3e_q.sbid = head_ptr =>
    state = "DRAIN" /\ arb = "SERVING_SB"

LoadInv ==
  /\ SlotInv
  /\ ~overrun => TagIsTail /\ LoadsBehindDrain /\ AmbiguousTagWaits

(* At most N_ENTRIES-1 instructions are in flight.                         *)
LEMMA HoldersBound ==
  ASSUME PtrsOK
  PROVE  Cardinality(Holders) <= N_ENTRIES - 1
<1>1. tail_q \in R!RobIds /\ ~R!Live(tail_q)
  BY OccupancyFacts DEF PtrsOK
<1>2. Holders \in SUBSET (R!RobIds \ {tail_q})
  BY <1>1 DEF Holders, LiveIds
<1>3. Cardinality(R!RobIds) = N_ENTRIES
  BY FS_Interval, EntriesAssumption DEF R!RobIds
<1>4. /\ IsFiniteSet(R!RobIds \ {tail_q})
      /\ Cardinality(R!RobIds \ {tail_q}) = N_ENTRIES - 1
  BY <1>1, <1>3, RobIdsFinite, FS_RemoveElement
<1>5. Cardinality(Holders) <= Cardinality(R!RobIds \ {tail_q})
  BY <1>2, <1>4, FS_Subset
<1> QED
  BY <1>4, <1>5

(* A full buffer holds a committed store.                                  *)
LEMMA FullHoldsCommitted ==
  ASSUME FewEntries, PtrsOK, TypeOK, NEW nc \in 0 .. count,
         SlotOrder(count - nc), count = DEPTH
  PROVE  nc > 0
<1>1. count - nc <= Cardinality(Holders) /\ Cardinality(Holders) <= N_ENTRIES - 1
  BY HoldersBound DEF SlotOrder
<1>2. Cardinality(Holders) \in Nat /\ DEPTH \in Nat /\ N_ENTRIES \in Nat /\ nc \in Nat
  BY RankType, DepthAssumption, EntriesAssumption DEF TypeOK
<1> QED
  BY <1>1, <1>2 DEF FewEntries

(* What a cycle without a trap does to the counter, the pointers and the   *)
(* state machine of a buffer that is full after it.                        *)
LEMMA FullAfter ==
  ASSUME FewEntries, SlotInv, ~overrun, NEW dec \in Decs,
         NEW dc_ready \in BOOLEAN,
         BCycle(dec, dc_ready), ~rob_trap_valid(dc_ready), count' = DEPTH
  PROVE  \/ /\ sb_alloc_en(dec, dc_ready) /\ count = DEPTH - 1
            /\ head_ptr' = head_ptr /\ tail_ptr # head_ptr
         \/ /\ ~sb_alloc_en(dec, dc_ready) /\ count = DEPTH
            /\ head_ptr' = head_ptr /\ tail_ptr' = tail_ptr
            /\ state' = "DRAIN"
            /\ ~(dreq_valid /\ sb_req_ready(dc_ready))
<1>1. /\ PipeInv /\ TypeOK /\ Slotted /\ RobCycle(dec, dc_ready) /\ PtrsOK
      /\ PipeTypeOK
  BY DEF SlotInv, BTypeOK, BCycle, PipeInv, PipeTypeOK
<1> PICK nc \in 0 .. count : RingOf(nc) /\ SlotOrder(count - nc)
  BY <1>1 DEF Slotted
<1> PICK c \in {0, 1} : c = IF CommitsStore(dc_ready) THEN 1 ELSE 0
  OBVIOUS
<1> PICK a \in {0, 1} : a = IF sb_alloc_en(dec, dc_ready) THEN 1 ELSE 0
  OBVIOUS
<1> PICK p \in {0, 1} : p = IF dreq_valid /\ sb_req_ready(dc_ready) THEN 1 ELSE 0
  OBVIOUS
<1>2. count' = count + a - p /\ (a = 1 => count < DEPTH)
  BY RingAfter
<1>3. count \in Nat /\ count <= DEPTH /\ DEPTH \in Nat /\ DEPTH >= 2
  BY <1>1, DepthAssumption DEF TypeOK
<1>4. p = 0 /\ (a = 1 => count = DEPTH - 1) /\ (a = 0 => count = DEPTH)
  BY <1>2, <1>3
<1>5. SbCycle(dec, dc_ready)
  BY <1>1, PipeAfter
<1> PICK urgent \in BOOLEAN :
      CycleStep(sb_alloc_en(dec, dc_ready), ExecReq(dc_ready),
                commit_sb(dc_ready), urgent, sb_req_ready(dc_ready))
  BY <1>5, SbCycleIs
<1>6. head_ptr' = head_ptr /\ (a = 0 => tail_ptr' = tail_ptr)
  BY <1>4 DEF CycleStep, DataPath
<1>7. ASSUME a = 1
      PROVE  tail_ptr # head_ptr
  <2>1. /\ tail_ptr = Wrap(head_ptr + count) /\ head_ptr \in 0 .. DEPTH-1
        /\ count = DEPTH - 1
    BY <1>1, <1>4, <1>7 DEF RingOf, Slot, TypeOK, Slots
  <2> QED
    BY <1>3, <2>1 DEF Wrap
<1>8. ASSUME a = 0
      PROVE  state' = "DRAIN"
  <2>1. nc > 0
    BY <1>1, <1>4, <1>8, FullHoldsCommitted
  <2>2. ReadyToDrain(head_ptr)
    BY <1>1, <2>1, EndsOfRing
  <2>3. drain_needed(urgent)
    BY <1>3, <1>4, <1>8, ThresholdAssumption DEF drain_needed
  <2> QED
    BY <1>4, <2>2, <2>3 DEF CycleStep, Fsm, dreq_valid
<1> QED
  BY <1>4, <1>6, <1>7, <1>8

(* The store buffer keeps the cache port.                                  *)
LEMMA BufferKeepsPort ==
  ASSUME SlotInv, ~overrun, NEW dc_ready \in BOOLEAN, ArbStep(dc_ready),
         ~(dreq_valid /\ sb_req_ready(dc_ready)), dreq_valid,
         load_4m => arb = "SERVING_SB"
  PROVE  arb' = "SERVING_SB"
<1>1. ArbInv /\ arb \in {"IDLE", "SERVING_LD", "SERVING_SB"}
  BY DEF SlotInv, BTypeOK
<1>2. ~load_4m => ~ld_req_valid
  BY DEF ld_req_valid
<1>3. Owner = "sb"
  BY <1>1, <1>2 DEF Owner, ArbInv
<1>4. ~dc_ready
  BY <1>3 DEF sb_req_ready
<1> QED
  BY <1>3, <1>4 DEF ArbStep

(* A load dispatched with the buffer full took tail_ptr = head_ptr as its  *)
(* tag; it reaches stage 4m only after the buffer has begun to drain, and  *)
(* the drain holds the port until a store has left.                        *)
LEMMA LoadInvAfter ==
  ASSUME FewEntries, LoadInv, ~overrun, NEW dec \in Decs,
         NEW dc_ready \in BOOLEAN,
         BCycle(dec, dc_ready), ~rob_trap_valid(dc_ready)
  PROVE  TagIsTail' /\ LoadsBehindDrain' /\ AmbiguousTagWaits'
<1>1. /\ SlotInv /\ TagIsTail /\ LoadsBehindDrain /\ AmbiguousTagWaits
      /\ PipeTypeOK /\ TypeOK /\ ArbStep(dc_ready)
  BY DEF LoadInv, SlotInv, BTypeOK, PipeInv, BCycle
<1>2. SbCycle(dec, dc_ready)
  BY <1>1, PipeAfter
<1>3. ~sb_alloc_en(dec, dc_ready) => tail_ptr' = tail_ptr
  BY <1>2 DEF SbCycle, CycleStep, DataPath
<1>4. CASE waiting_for_memory(dc_ready)
  <2>1. s_2d_q' = s_2d_q /\ s_3e_q' = s_3e_q
    BY <1>1, <1>4, PipeAfter
  <2>2. ~sb_alloc_en(dec, dc_ready)
    BY <1>4, AllocFacts
  <2>3. TagIsTail'
    BY <1>1, <1>3, <2>1, <2>2 DEF TagIsTail, IsLoad
  <2>4. count' = DEPTH => /\ count = DEPTH /\ head_ptr' = head_ptr
                          /\ state' = "DRAIN"
                          /\ ~(dreq_valid /\ sb_req_ready(dc_ready))
    BY <1>1, <2>2, FullAfter
  <2>5. LoadsBehindDrain'
    <3> SUFFICES ASSUME count' = DEPTH, IsLoad(s_2d_q)
                 PROVE  state' = "DRAIN" /\ (load_4m => arb' = "SERVING_SB")
      BY <2>1 DEF LoadsBehindDrain, IsLoad, load_4m
    <3>1. state = "DRAIN" /\ (load_4m => arb = "SERVING_SB")
      BY <1>1, <2>4 DEF LoadsBehindDrain
    <3> QED
      BY <1>1, <2>4, <3>1, BufferKeepsPort DEF dreq_valid
  <2>6. AmbiguousTagWaits'
    <3> SUFFICES ASSUME count' = DEPTH, load_4m, s_3e_q.sbid = head_ptr'
                 PROVE  state' = "DRAIN" /\ arb' = "SERVING_SB"
      BY <2>1 DEF AmbiguousTagWaits, load_4m
    <3>1. state = "DRAIN" /\ arb = "SERVING_SB"
      BY <1>1, <2>4 DEF AmbiguousTagWaits
    <3> QED
      BY <1>1, <2>4, <3>1, BufferKeepsPort DEF dreq_valid
  <2> QED
    BY <2>3, <2>5, <2>6
<1>5. CASE ~waiting_for_memory(dc_ready)
  <2>1. s_2d_q' = Dispatched(dec, dc_ready, AluMemOps) /\ s_3e_q' = s_2d_q
    BY <1>1, <1>5, PipeAfter
  <2>2. ASSUME IsLoad(s_2d_q')
        PROVE  s_2d_q'.sbid = tail_ptr /\ ~sb_alloc_en(dec, dc_ready)
    <3>1. s_2d_q' = [valid |-> TRUE, ins |-> dec, robid |-> tail_q,
                     sbid |-> alloc_idx]
      BY <2>1, <2>2, DispatchedIs DEF IsLoad
    <3>2. dec.op = "ld"
      BY <2>2, <3>1 DEF IsLoad
    <3> QED
      BY <3>1, <3>2 DEF sb_alloc_en, alloc_idx
  <2>3. TagIsTail'
    BY <1>3, <2>2 DEF TagIsTail, IsLoad
  <2>4. ASSUME count' = DEPTH, count = DEPTH, IsLoad(s_2d_q)
        PROVE  arb' = "SERVING_SB"
    <3>1. state = "DRAIN" /\ (load_4m => arb = "SERVING_SB")
      BY <1>1, <2>4 DEF LoadsBehindDrain
    <3>2. ~(dreq_valid /\ sb_req_ready(dc_ready))
      BY <1>1, <2>4, FullAfter, DepthAssumption
    <3> QED
      BY <1>1, <3>1, <3>2, BufferKeepsPort DEF dreq_valid
  <2>5. LoadsBehindDrain'
    <3> SUFFICES ASSUME count' = DEPTH, IsLoad(s_2d_q')
                 PROVE  state' = "DRAIN" /\ (load_4m' => arb' = "SERVING_SB")
      BY DEF LoadsBehindDrain, IsLoad
    <3>1. count = DEPTH /\ state' = "DRAIN"
      BY <1>1, <2>2, FullAfter
    <3> QED
      BY <2>1, <2>4, <3>1 DEF load_4m, IsLoad
  <2>6. AmbiguousTagWaits'
    <3> SUFFICES ASSUME count' = DEPTH, IsLoad(s_2d_q), s_2d_q.sbid = head_ptr'
                 PROVE  state' = "DRAIN" /\ arb' = "SERVING_SB"
      BY <2>1 DEF AmbiguousTagWaits, load_4m, IsLoad
    <3>1. s_2d_q.sbid = tail_ptr
      BY <1>1 DEF TagIsTail
    <3>2. count = DEPTH /\ state' = "DRAIN"
      BY <1>1, <3>1, FullAfter
    <3> QED
      BY <2>4, <3>2
  <2> QED
    BY <2>3, <2>5, <2>6
<1> QED
  BY <1>4, <1>5

LEMMA LoadInvInit == BInit => LoadInv
BY SlotInvInit, BubbleType
   DEF BInit, LoadInv, TagIsTail, LoadsBehindDrain, AmbiguousTagWaits, IsLoad,
       load_4m

LEMMA LoadInvNext ==
  ASSUME FewEntries, LoadInv, [BNext]_bevars
  PROVE  LoadInv'
<1>1. SlotInv /\ SlotInv'
  BY SlotInvNext DEF LoadInv
<1>2. CASE UNCHANGED bevars
  BY <1>1, <1>2 DEF LoadInv, TagIsTail, LoadsBehindDrain, AmbiguousTagWaits,
     IsLoad, load_4m, bevars, sbvars, pipevars
<1>3. CASE ~overrun /\ \E dec \in Decs, dc_ready \in BOOLEAN :
                           BCycle(dec, dc_ready)
  <2> PICK dec \in Decs, dc_ready \in BOOLEAN : BCycle(dec, dc_ready)
    BY <1>3
  <2>1. CASE rob_trap_valid(dc_ready)
    <3>1. PipeTrap
      BY <2>1, PipeAfterTrap
    <3> QED
      BY <1>1, <3>1, BubbleType DEF PipeTrap, LoadInv, TagIsTail,
         LoadsBehindDrain, AmbiguousTagWaits, IsLoad, load_4m
  <2>2. CASE ~rob_trap_valid(dc_ready)
    BY <1>1, <1>3, <2>2, LoadInvAfter DEF LoadInv
  <2> QED
    BY <2>1, <2>2
<1> QED
  BY <1>1, <1>2, <1>3, StepKinds

(* Every rank below that of an instruction is that of an older store.      *)
LEMMA RankOnto ==
  ASSUME PtrsOK, NEW i \in R!RobIds, NEW m \in Nat, m < Rank(i)
  PROVE  \E j \in OlderStores(i) : Rank(j) = m
<1> DEFINE S == OlderStores(i)
           T == 0 .. Rank(i) - 1
           f == [j \in S |-> Rank(j)]
<1>1. IsFiniteSet(S) /\ Rank(i) \in Nat /\ Rank(i) = Cardinality(S)
  BY SetsFinite, RankType DEF Rank
<1>2. IsFiniteSet(T) /\ Cardinality(T) = Rank(i)
  <2>1. 0 \in Int /\ Rank(i) - 1 \in Int
    BY <1>1
  <2>2. IsFiniteSet(T) /\ Cardinality(T) =
          IF 0 > Rank(i) - 1 THEN 0 ELSE (Rank(i) - 1) - 0 + 1
    BY <2>1, FS_Interval
  <2> QED
    BY <1>1, <2>2
<1>3. \A j \in S : j \in RobStores /\ j \in R!RobIds /\ Age(j) < Age(i)
  BY DEF OlderStores, RobStores, LiveIds
<1>4. \A j \in S : Rank(j) \in T
  <2>1. \A j \in S : Rank(j) < Rank(i) /\ Rank(j) \in Nat
    BY <1>3, RankMonotone, RankType
  <2> QED
    BY <1>1, <2>1
<1>5. \A j, k \in S : Rank(j) = Rank(k) => j = k
  <2> SUFFICES ASSUME NEW j \in S, NEW k \in S, Rank(j) = Rank(k)
               PROVE  j = k
    OBVIOUS
  <2>1. Age(j) \in Int /\ Age(k) \in Int
    BY <1>3, AgeFacts
  <2>2. ~(Age(j) < Age(k)) /\ ~(Age(k) < Age(j))
    <3>1. Rank(j) \in Nat /\ Rank(k) \in Nat
      BY RankType
    <3>2. Age(j) < Age(k) => Rank(j) < Rank(k)
      BY <1>3, RankMonotone
    <3>3. Age(k) < Age(j) => Rank(k) < Rank(j)
      BY <1>3, RankMonotone
    <3> QED
      BY <3>1, <3>2, <3>3
  <2> QED
    BY <1>3, <2>1, <2>2, AgeInjective
<1>6. f \in [S -> T] /\ \A j, k \in S : f[j] = f[k] => j = k
  BY <1>4, <1>5
<1>7. m \in T
  BY <1>1
<1> HIDE DEF S, T, f
<1>8. f \in Injection(S, T)
  BY <1>6, Fun_IsInj
<1>9. f \in Surjection(S, T)
  BY <1>1, <1>2, <1>8, FS_Injection
<1>10. \E j \in S : f[j] = m
  BY <1>7, <1>9 DEF Surjection
<1> QED
  BY <1>10 DEF S, f

(* A store that precedes a load in stage 3e has executed, unless an        *)
(* exception is known to squash them.                                      *)
LEMMA OlderExecuted ==
  ASSUME SlotInv, ~overrun, load_4m, NEW nc \in 0 .. count, RingOf(nc),
         SlotOrder(count - nc), NEW i \in R!RobIds, i = s_3e_q.robid,
         ~Doomed(i), NEW j \in OlderStores(i)
  PROVE  /\ ~Doomed(j) /\ Rank(j) < count - nc
         /\ buffer[SlotAt(Rank(j))].valid
<1>1. PtrsOK /\ PipeTypeOK /\ OwnerInv /\ PipeOrder /\ Executed
  BY DEF SlotInv, PipeInv, PipeTypeOK
<1>2. j \in RobStores /\ j \in LiveIds /\ j \in R!RobIds /\ Age(j) < Age(i)
  BY DEF OlderStores, RobStores, LiveIds
<1>3. ~Doomed(j) /\ ~KnownAt(j)
  <2>1. \A k \in LiveIds : Age(k) \in Int
    BY <1>1, AgeFacts DEF LiveIds
  <2>2. Age(i) \in Int
    BY <1>1, AgeFacts
  <2> QED
    BY <1>2, <2>1, <2>2, DoomedIs
<1>4. TokensTagged(count - nc) /\ StoresPlaced(count - nc)
  BY DEF SlotOrder
<1>5. Rank(j) < count - nc
  BY <1>2, <1>3, <1>4 DEF StoresPlaced
<1>6. CASE entries[j].complete
  BY <1>2, <1>3, <1>4, <1>6 DEF StoresPlaced, KnownAt
<1>7. CASE ~entries[j].complete
  <2> PICK k \in 1 .. NUnits : Units[k].valid /\ Units[k].robid = j
    BY <1>1, <1>2, <1>7 DEF OwnerInv, NoneForgotten
  <2>1. Units[k].ins.op = "st"
    BY <1>1, <1>2 DEF OwnerInv, TokensOwned, KindsKept, RobStores
  <2>2. k \in 1 .. 3
    BY <1>1, <2>1, PlaceArithmetic DEF OwnerInv, KindsKept
  <2>3. Units[2] = s_3e_q /\ Units[3] = s_4m_q /\ Units[2].valid
    BY <1>1, UnitsAre DEF load_4m
  <2>4. Age(i) \in Int /\ Age(j) \in Int
    BY <1>1, <1>2, AgeFacts
  <2>5. k # 1
    BY <1>1, <1>2, <2>3, <2>4 DEF PipeOrder
  <2>6. k = 3
    BY <1>2, <2>2, <2>3, <2>4, <2>5
  <2>7. s_4m_q.sbid = SlotAt(Rank(j))
    BY <1>2, <1>3, <1>4, <2>2, <2>3, <2>6 DEF TokensTagged
  <2>8. buffer[s_4m_q.sbid].valid
    BY <1>1, <1>3, <2>1, <2>3, <2>6 DEF Executed, IsStore, KnownAt
  <2> QED
    BY <1>3, <1>5, <2>7, <2>8
<1> QED
  BY <1>3, <1>5, <1>6, <1>7

(* What the age check selects is, by AgeCheck, the slots before the tag;   *)
(* by rank these are the committed stores and the older ones.              *)
LEMMA SearchesOlder ==
  ASSUME LoadInv
  PROVE  LoadSearchesOlderStores
<1> DEFINE i   == s_3e_q.robid
           tag == s_3e_q.sbid
           searched == {s \in Slots : IsOlder(s, tag) /\ buffer[s].allocated}
           older == {s \in Slots : buffer[s].committed} \cup
                      {SlotOf(j) : j \in OlderStores(i)}
<1> SUFFICES ASSUME ~overrun, load_4m, ~Doomed(i), sb_hit \/ Owner = "ld"
             PROVE  searched = older /\ \A s \in older : buffer[s].valid
  BY DEF LoadSearchesOlderStores, OlderStores
<1>1. /\ SlotInv /\ TypeOK /\ PtrsOK /\ PipeTypeOK /\ Slotted
      /\ head_ptr \in Slots /\ AmbiguousTagWaits
  BY DEF LoadInv, SlotInv, BTypeOK, PipeInv, PipeTypeOK, TypeOK
<1> PICK nc \in 0 .. count : RingOf(nc) /\ SlotOrder(count - nc)
  BY <1>1 DEF Slotted
<1>2. /\ count \in Nat /\ nc \in Nat /\ nc <= count /\ count <= DEPTH
      /\ DEPTH \in Nat
  BY <1>1, DepthAssumption DEF TypeOK
<1>3. i \in R!RobIds
  BY <1>1 DEF PipeTypeOK, Token
<1>4. Rank(i) <= count - nc /\ tag = SlotAt(Rank(i)) /\ Rank(i) \in Nat
  <2>1. Units[2] = s_3e_q /\ s_3e_q.valid
    BY <1>1, UnitsAre DEF load_4m
  <2> QED
    BY <1>3, <2>1, RankType DEF SlotOrder, TokensTagged
<1> PICK n \in Nat : n = nc + Rank(i)
  BY <1>2, <1>4
<1>5. tag = Slot(n) /\ n <= count
  BY <1>1, <1>2, <1>4, SlotAtIs
<1>6. n < DEPTH
  <2> SUFFICES ASSUME n = DEPTH PROVE FALSE
    BY <1>2, <1>5
  <2>1. count = DEPTH
    BY <1>2, <1>5
  <2>2. tag = head_ptr
    BY <1>1, <1>5, WrapSucc, DepthAssumption DEF Slot
  <2>3. arb = "SERVING_SB"
    BY <1>1, <2>1, <2>2 DEF AmbiguousTagWaits
  <2>4. Owner # "ld"
    BY <2>3 DEF Owner
  <2>5. Matches(s_3e_q.sbid, s_3e_q.ins.acc) = {}
    <3>1. \A s \in Slots : ~IsOlder(s, tag)
      BY <1>1, <2>2, DepthAssumption DEF IsOlder, Slots
    <3>2. \A d \in 1 .. DEPTH : Back(tag, d) \in Slots
      BY <1>1, <2>2, DepthAssumption DEF Back, Slots
    <3> QED
      BY <3>1, <3>2 DEF Matches
  <2> QED
    BY <2>4, <2>5 DEF sb_hit, ld_hit
<1>7. \A s \in Slots : IsOlder(s, tag) <=> \E k \in 0 .. n-1 : s = Slot(k)
  BY <1>1, <1>2, <1>5, <1>6, AgeCheck
<1>8. \A j \in OlderStores(i) :
        /\ SlotOf(j) = Slot(nc + Rank(j)) /\ Rank(j) \in Nat /\ Rank(j) < Rank(i)
        /\ buffer[SlotOf(j)].valid
  <2> SUFFICES ASSUME NEW j \in OlderStores(i)
               PROVE  /\ SlotOf(j) = Slot(nc + Rank(j))
                      /\ Rank(j) \in Nat /\ Rank(j) < Rank(i)
                      /\ buffer[SlotOf(j)].valid
    OBVIOUS
  <2>1. Rank(j) < count - nc /\ buffer[SlotAt(Rank(j))].valid
    BY <1>1, <1>3, OlderExecuted
  <2>2. Rank(j) \in Nat
    BY RankType
  <2>3. Rank(j) < Rank(i)
    BY <1>1, <1>3, RankMonotone DEF OlderStores
  <2>4. Rank(j) \in 0 .. count - nc /\ Rank(j) < DEPTH
    BY <1>2, <2>1, <2>2
  <2>5. SlotOf(j) = SlotAt(Rank(j)) /\ SlotAt(Rank(j)) = Slot(nc + Rank(j))
    BY <1>1, <2>4, SlotOfIs, SlotAtIs
  <2> QED
    BY <2>1, <2>2, <2>3, <2>5
<1>9. ASSUME NEW k \in 0 .. DEPTH-1
      PROVE  /\ Slot(k) \in Slots
             /\ buffer[Slot(k)].committed <=> k < nc
             /\ k < nc => buffer[Slot(k)].valid
             /\ k < count => buffer[Slot(k)].allocated
  <2>1. /\ k < nc => CommittedSlot(Slot(k))
        /\ nc <= k /\ k < count => SpeculativeSlot(Slot(k))
        /\ count <= k => FreeSlot(Slot(k))
    BY <1>2 DEF RingOf
  <2>2. Slot(k) \in Slots
    BY <1>1, <1>2, WrapType DEF Slot
  <2> QED
    BY <1>2, <2>1, <2>2
       DEF CommittedSlot, ReadyToDrain, SpeculativeSlot, FreeSlot
<1>10. \A s \in older : s \in searched /\ buffer[s].valid
  <2> SUFFICES ASSUME NEW s \in older
               PROVE  s \in searched /\ buffer[s].valid
    OBVIOUS
  <2>1. \E k \in 0 .. n-1 : s = Slot(k) /\ buffer[s].valid
    <3>1. CASE s \in Slots /\ buffer[s].committed
      <4> PICK k \in 0 .. DEPTH-1 : s = Slot(k)
        BY <1>1, <3>1, SlotIsSlot
      <4>1. k < nc /\ buffer[s].valid
        BY <1>9, <3>1
      <4>2. k \in 0 .. n-1
        BY <1>2, <1>4, <4>1
      <4> QED
        BY <4>1, <4>2
    <3>2. CASE \E j \in OlderStores(i) : s = SlotOf(j)
      <4> PICK j \in OlderStores(i) : s = SlotOf(j)
        BY <3>2
      <4>1. /\ s = Slot(nc + Rank(j)) /\ Rank(j) \in Nat /\ Rank(j) < Rank(i)
            /\ buffer[s].valid
        BY <1>8
      <4>2. nc + Rank(j) \in 0 .. n-1
        BY <1>2, <1>4, <4>1
      <4> QED
        BY <4>1, <4>2
    <3> QED
      BY <3>1, <3>2
  <2> PICK k \in 0 .. n-1 : s = Slot(k) /\ buffer[s].valid
    BY <2>1
  <2>2. k \in 0 .. DEPTH-1 /\ k < count
    BY <1>2, <1>5, <1>6
  <2> QED
    BY <1>7, <1>9, <2>2
<1>11. \A s \in searched : s \in older
  <2> SUFFICES ASSUME NEW s \in searched
               PROVE  s \in older
    OBVIOUS
  <2> PICK k \in 0 .. n-1 : s = Slot(k)
    BY <1>7
  <2>1. k \in 0 .. DEPTH-1
    BY <1>2, <1>6
  <2>2. CASE k < nc
    BY <1>9, <2>1, <2>2
  <2>3. CASE k >= nc
    <3>1. k - nc \in Nat /\ k - nc < Rank(i) /\ nc + (k - nc) = k
      BY <1>2, <1>4, <2>3
    <3> PICK j \in OlderStores(i) : Rank(j) = k - nc
      BY <1>1, <1>3, <3>1, RankOnto
    <3>2. s = SlotOf(j)
      BY <1>8, <3>1
    <3> QED
      BY <3>2
  <2> QED
    BY <1>2, <2>2, <2>3
<1> QED
  BY <1>10, <1>11

(* A load that is answered has searched exactly the buffered stores before *)
(* it, and all of them have executed, for any sizes with as many slots as  *)
(* entries of the reorder buffer (harness.lua:284-288): the tag taken at   *)
(* decode is never ambiguous when it is used (store_buffer.sv:207-214,     *)
(* stage_4m.sv:123-126). With fewer slots than entries it fails.           *)
THEOREM LoadsSearchOlderStores ==
  ASSUME FewEntries
  PROVE  BSpec => []LoadSearchesOlderStores
<1>1. BSpec => []LoadInv
  BY LoadInvInit, LoadInvNext, PTL DEF BSpec
<1> QED
  BY <1>1, SearchesOlder, PTL
=============================================================================
