--------------------------- MODULE BackendProofs ---------------------------
(***************************************************************************)
(* Proofs about Backend, for every number of entries and slots, every      *)
(* delay of the muldiv unit and every set of instructions, about the       *)
(* reorder buffer and the units.                                           *)
(*                                                                         *)
(* The invariant is about ownership: entries that wait to complete and     *)
(* tokens in the units correspond one to one.  Entries are counted from    *)
(* the head (Age), tokens by the place they are at (Units); a cycle brings *)
(* at most one new token (Fresh) and moves the others by one place         *)
(* (Moved).                                                                *)
(*                                                                         *)
(* The reorder buffer is then shown to be the window of CommitWindow.      *)
(***************************************************************************)
EXTENDS Backend, StoreBufferProofs, SequenceTheorems

-----------------------------------------------------------------------------
(* The ring of the reorder buffer: ages.                                   *)

USE DEF R!RobIds, R!Next1

PtrsOK == head_q \in R!RobIds /\ tail_q \in R!RobIds

(* The RTL tells entries in use from free ones by comparing indices around *)
(* the wrap (rob.sv); by distance from the head they are those before the  *)
(* tail.                                                                   *)
LEMMA AgeFacts ==
  ASSUME PtrsOK, NEW i \in R!RobIds
  PROVE  /\ Age(i) \in 0 .. N_ENTRIES-1
         /\ Age(i) = 0 <=> i = head_q
         /\ R!Live(i) <=> Age(i) < Age(tail_q)
BY EntriesAssumption DEF PtrsOK, Age, R!Live

(* The same in the next state, for a tail that is named.                   *)
LEMMA AgeFactsNext ==
  ASSUME PtrsOK', NEW i \in R!RobIds, NEW t \in R!RobIds, tail_q' = t
  PROVE  /\ R!Live(i)' <=> Age(i)' < Age(t)'
         /\ Age(i)' \in 0 .. N_ENTRIES-1
<1>1. R!Live(i)' <=> /\ head_q' <= tail_q' => i >= head_q' /\ i < tail_q'
                     /\ ~(head_q' <= tail_q') => i >= head_q' \/ i < tail_q'
  BY DEF R!Live
<1>2. \A k \in R!RobIds : Age(k)' = IF k >= head_q' THEN k - head_q' ELSE k + N_ENTRIES - head_q'
  BY DEF Age
<1>3. head_q' \in R!RobIds
  BY DEF PtrsOK
<1> QED
  BY <1>1, <1>2, <1>3, EntriesAssumption

(* No two entries are equally far from the head.                           *)
LEMMA AgeInjective ==
  ASSUME PtrsOK, NEW i \in R!RobIds, NEW j \in R!RobIds, Age(i) = Age(j)
  PROVE  i = j
BY EntriesAssumption DEF PtrsOK, Age

(* Full, empty and the step of the tail, as distances.                     *)
LEMMA OccupancyFacts ==
  ASSUME PtrsOK
  PROVE  /\ R!full <=> Age(tail_q) = N_ENTRIES-1
         /\ R!empty <=> Age(tail_q) = 0
         /\ ~R!full => Age(R!Next1(tail_q)) = Age(tail_q) + 1
         /\ R!Next1(tail_q) \in R!RobIds /\ R!Next1(head_q) \in R!RobIds
         /\ R!Next1(head_q) # head_q
         /\ ~R!Live(tail_q)
         /\ ~R!empty => R!Live(head_q)
BY EntriesAssumption DEF PtrsOK, Age, R!Live, R!full, R!empty

(* When the head leaves, each entry is one nearer to the new head.         *)
LEMMA AgeAfterRetire ==
  ASSUME PtrsOK, NEW i \in R!RobIds, head_q' = R!Next1(head_q)
  PROVE  Age(i)' = IF Age(i) = 0 THEN N_ENTRIES-1 ELSE Age(i) - 1
BY EntriesAssumption DEF PtrsOK, Age

LEMMA AgeKept ==
  ASSUME NEW i \in R!RobIds, head_q' = head_q
  PROVE  Age(i)' = Age(i)
BY DEF Age

-----------------------------------------------------------------------------
(* A clock cycle of the reorder buffer: does the head leave, does an       *)
(* instruction enter?                                                      *)

Commits(dc_ready) ==
  R!committing_head_q(rob_can_commit, rob_can_commit_xcpt(dc_ready))

Issues(dec, dc_ready) ==
  ~rob_trap_valid(dc_ready) /\ IssueReq(dec, dc_ready).valid /\ ~R!full

(* Only a complete head is committed; a trap is the commit of a head that  *)
(* excepts, and waits until nothing waits for memory (gandul.sv:110).      *)
LEMMA CommitFacts ==
  ASSUME NEW dc_ready \in BOOLEAN
  PROVE  /\ Commits(dc_ready) => ~R!empty /\ entries[head_q].complete
         /\ rob_trap_valid(dc_ready) <=> Commits(dc_ready) /\ entries[head_q].xcpt
         /\ rob_trap_valid(dc_ready) => ~waiting_for_memory(dc_ready)
BY DEF Commits, rob_trap_valid, R!committing_xcpt, R!committing_head_q, R!Head,
       rob_can_commit_xcpt

(* Head and tail after a cycle: a trap empties the buffer                  *)
(* (rob.sv:115-116).                                                       *)
LEMMA PointersAfter ==
  ASSUME PtrsOK, NEW dec, NEW dc_ready \in BOOLEAN, RobCycle(dec, dc_ready)
  PROVE  /\ head_q' = IF Commits(dc_ready) THEN R!Next1(head_q) ELSE head_q
         /\ tail_q' = IF rob_trap_valid(dc_ready) THEN head_q'
                      ELSE IF Issues(dec, dc_ready) THEN R!Next1(tail_q)
                      ELSE tail_q
         /\ PtrsOK'
<1>1. /\ head_q' = IF Commits(dc_ready) THEN R!Next1(head_q) ELSE head_q
      /\ tail_q' = IF rob_trap_valid(dc_ready) THEN head_q'
                   ELSE IF Issues(dec, dc_ready) THEN R!Next1(tail_q)
                   ELSE tail_q
  BY DEF RobCycle, R!RobStep, Commits, Issues, rob_trap_valid
<1> QED
  BY <1>1, OccupancyFacts DEF PtrsOK

(* The entries in use after a cycle without a trap, and their order.       *)
LEMMA LiveAfter ==
  ASSUME PtrsOK, NEW dec, NEW dc_ready \in BOOLEAN, RobCycle(dec, dc_ready),
         ~rob_trap_valid(dc_ready), NEW i \in R!RobIds
  PROVE  R!Live(i)' <=>
           \/ R!Live(i) /\ ~(Commits(dc_ready) /\ i = head_q)
           \/ Issues(dec, dc_ready) /\ i = tail_q
<1>1. PtrsOK'
  BY PointersAfter
<1>2. Age(i)' = IF Commits(dc_ready)
                THEN IF Age(i) = 0 THEN N_ENTRIES-1 ELSE Age(i) - 1 ELSE Age(i)
  BY PointersAfter, AgeAfterRetire, AgeKept
<1>3. tail_q' = IF Issues(dec, dc_ready) THEN R!Next1(tail_q) ELSE tail_q
  BY PointersAfter
<1> PICK t \in R!RobIds :
      t = IF Issues(dec, dc_ready) THEN R!Next1(tail_q) ELSE tail_q
  BY OccupancyFacts DEF PtrsOK
<1>4. Age(t) = IF Issues(dec, dc_ready) THEN Age(tail_q)+1 ELSE Age(tail_q)
  BY OccupancyFacts DEF Issues
<1>5. Age(t)' = IF Commits(dc_ready)
                THEN IF Age(t) = 0 THEN N_ENTRIES-1 ELSE Age(t) - 1 ELSE Age(t)
  BY PointersAfter, AgeAfterRetire, AgeKept
<1>6. R!Live(i)' <=> Age(i)' < Age(t)'
  <2>1. tail_q' = t
    BY <1>3
  <2> QED
    BY <1>1, <2>1, AgeFactsNext
<1>7. Commits(dc_ready) => Age(tail_q) > 0
  BY CommitFacts, OccupancyFacts, AgeFacts DEF PtrsOK
<1>8. /\ Age(i) \in 0 .. N_ENTRIES-1 /\ Age(tail_q) \in 0 .. N_ENTRIES-1
      /\ Age(i) = 0 <=> i = head_q
      /\ R!Live(i) <=> Age(i) < Age(tail_q)
      /\ Age(i) = Age(tail_q) <=> i = tail_q
  BY AgeFacts, AgeInjective DEF PtrsOK
<1> QED
  BY <1>2, <1>4, <1>5, <1>6, <1>7, <1>8, EntriesAssumption

(* A cycle keeps the order of the entries that are in use after it.        *)
LEMMA OrderAfter ==
  ASSUME PtrsOK, NEW dec, NEW dc_ready \in BOOLEAN, RobCycle(dec, dc_ready),
         ~rob_trap_valid(dc_ready),
         NEW i \in R!RobIds, R!Live(i)', NEW j \in R!RobIds, R!Live(j)'
  PROVE  /\ Age(i)' < Age(j)' <=> Age(i) < Age(j)
         /\ Age(i) # 0 \/ ~Commits(dc_ready)
         /\ Age(i)' = IF Commits(dc_ready) THEN Age(i) - 1 ELSE Age(i)
<1>2. \A k \in R!RobIds : Age(k)' = IF Commits(dc_ready)
                THEN IF Age(k) = 0 THEN N_ENTRIES-1 ELSE Age(k) - 1 ELSE Age(k)
  BY PointersAfter, AgeAfterRetire, AgeKept
<1>3. Commits(dc_ready) => i # head_q /\ j # head_q
  BY LiveAfter, CommitFacts, OccupancyFacts
<1> QED
  BY <1>2, <1>3, AgeFacts, EntriesAssumption

-----------------------------------------------------------------------------
(* The pipeline: where tokens are, and where a cycle moves them.           *)

PipeTypeOK ==
  /\ entries \in [R!RobIds -> R!RobEntry]
  /\ PtrsOK
  /\ {s_2d_q, s_3e_q, s_4m_q} \subseteq Token
  /\ muldiv \in [1 .. OP_DELAY -> Token] /\ csr \in [1 .. 2 -> Token]
  /\ tail_ptr \in Slots /\ commit_ptr \in Slots
  /\ overrun \in BOOLEAN

NUnits == OP_DELAY + 5

(* The stages of a unit are a sequence.                                    *)
LEMMA FunctionsAreSequences ==
  ASSUME NEW S, NEW n \in Nat, NEW f \in [1 .. n -> S]
  PROVE  f \in Seq(S) /\ Len(f) = n
<1>1. f \in Seq(S)
  BY SeqDef
<1>2. DOMAIN f = 1 .. n /\ DOMAIN f = 1 .. Len(f) /\ Len(f) \in Nat
  BY <1>1, LenProperties
<1> QED
  BY <1>1, <1>2

(* Which pipeline register each place is.                                  *)
LEMMA UnitsAre ==
  ASSUME PipeTypeOK
  PROVE  /\ Units \in [1 .. NUnits -> Token] /\ DOMAIN Units = 1 .. NUnits
         /\ Units[1] = s_2d_q /\ Units[2] = s_3e_q /\ Units[3] = s_4m_q
         /\ \A k \in 4 .. OP_DELAY+3 : Units[k] = muldiv[k-3]
         /\ \A k \in OP_DELAY+4 .. NUnits : Units[k] = csr[k - (OP_DELAY+3)]
BY DelayAssumption DEF PipeTypeOK, Units, NUnits

(* The stages of a unit.                                                   *)
Stages(n) == [1 .. n -> Token]

(* A delay line moves on by one.                                           *)
LEMMA AdvanceIs ==
  ASSUME NEW n \in Nat, NEW u \in Stages(n), NEW tok
  PROVE  Advance(u, tok) = [k \in 1 .. n |-> IF k = 1 THEN tok ELSE u[k-1]]
BY FunctionsAreSequences DEF Advance, Stages

-----------------------------------------------------------------------------
(* Types.                                                                  *)

Decs == Instrs \cup {NoInstr}

LEMMA DecTypes ==
  ASSUME NEW dec \in Decs
  PROVE  /\ dec \in Instr \cup {NoInstr}
         /\ dec.op \in Ops \cup {"none"}
         /\ dec # NoInstr => dec \in Instr /\ dec.op \in Ops
         /\ NoInstr.op = "none"
BY InstrsAssumption DEF Decs, Instr, NoInstr, Ops

LEMMA BubbleType == Bubble \in Token /\ ~Bubble.valid
BY EntriesAssumption, DepthAssumption DEF Bubble, Token, Slots

LEMMA DispatchedType ==
  ASSUME PipeTypeOK, NEW dec \in Decs, NEW dc_ready \in BOOLEAN, NEW ops
  PROVE  Dispatched(dec, dc_ready, ops) \in Token
BY DecTypes, BubbleType DEF Dispatched, Token, PipeTypeOK, PtrsOK, alloc_idx

LEMMA IssueReqType ==
  ASSUME NEW dec \in Decs, NEW dc_ready \in BOOLEAN
  PROVE  /\ R!Issued(IssueReq(dec, dc_ready)) \in R!RobEntry
         /\ IssueReq(dec, dc_ready).valid \in BOOLEAN
<1>1. 0 \in Slots
  BY DepthAssumption DEF Slots
<1>2. xcpt_2d(dec, dc_ready) \in BOOLEAN
  BY DEF xcpt_2d
<1> QED
  BY <1>1, <1>2, DecTypes DEF R!Issued, IssueReq, R!RobEntry

(* The completion port of a unit: one of its token, or none.               *)
LEMMA CompletionType ==
  ASSUME NEW tok \in Token, NEW squash \in BOOLEAN
  PROVE  /\ Completion(tok, squash).valid \in BOOLEAN
         /\ Completion(tok, squash).robid \in R!RobIds
         /\ Completion(tok, squash).xcpt \in BOOLEAN
         /\ Completion(tok, squash).sbid \in Slots
<1>1. 0 \in Slots /\ 0 \in R!RobIds
  BY DepthAssumption, EntriesAssumption DEF Slots
<1> QED
  BY <1>1 DEF Completion, Token, Excepts, R!NoCompletion

(* An entry keeps its type through issue and completions.                  *)
LEMMA NextEntryType ==
  ASSUME PipeTypeOK, NEW i \in R!RobIds, NEW issuing \in BOOLEAN, NEW issue,
         R!Issued(issue) \in R!RobEntry,
         NEW a, a.sbid \in Slots, a.xcpt \in BOOLEAN,
         NEW m, m.sbid \in Slots, m.xcpt \in BOOLEAN,
         NEW c, c.xcpt \in BOOLEAN
  PROVE  R!NextEntry(i, issuing, issue, a, m, c) \in R!RobEntry
<1>1. \A e \in R!RobEntry : /\ R!Completed(e, a) \in R!RobEntry
                            /\ R!Completed(e, m) \in R!RobEntry
                            /\ R!CompletedCsr(e, c) \in R!RobEntry
  BY DEF R!Completed, R!CompletedCsr, R!RobEntry
<1>2. entries[i] \in R!RobEntry
  BY DEF PipeTypeOK
<1> QED
  BY <1>1, <1>2 DEF R!NextEntry

-----------------------------------------------------------------------------
(* What a clock cycle does to the pipeline and to the reorder buffer.      *)

(* While something waits for memory, decode hands out nothing.             *)
LEMMA WaitingDispatchesNothing ==
  ASSUME NEW dec, NEW dc_ready, NEW ops, waiting_for_memory(dc_ready)
  PROVE  Dispatched(dec, dc_ready, ops) = Bubble
BY DEF Dispatched, Dispatches, Issuable, stall_2d

(* What the shape of a cycle is when there is a trap ...                   *)
LEMMA PipeAfterTrap ==
  ASSUME NEW dec, NEW dc_ready \in BOOLEAN, BCycle(dec, dc_ready),
         rob_trap_valid(dc_ready)
  PROVE  PipeTrap /\ FlushStep /\ overrun' = AllCommitted
BY CommitFacts DEF BCycle, TrapCycle, StallCycle, FlowCycle

(* ... and when there is none: stages 2d and 3e move or stay together, the *)
(* others always move.                                                     *)
LEMMA PipeAfter ==
  ASSUME PipeTypeOK, NEW dec \in Decs, NEW dc_ready \in BOOLEAN,
         BCycle(dec, dc_ready), ~rob_trap_valid(dc_ready)
  PROVE  /\ s_2d_q' = IF waiting_for_memory(dc_ready) THEN s_2d_q
                      ELSE Dispatched(dec, dc_ready, AluMemOps)
         /\ s_3e_q' = IF waiting_for_memory(dc_ready) THEN s_3e_q ELSE s_2d_q
         /\ s_4m_q' = IF waiting_for_memory(dc_ready) THEN Bubble ELSE s_3e_q
         /\ muldiv' = [k \in 1 .. OP_DELAY |->
                         IF k = 1 THEN Dispatched(dec, dc_ready, {"mul"})
                                  ELSE muldiv[k-1]]
         /\ csr' = [k \in 1 .. 2 |->
                      IF k = 1 THEN Dispatched(dec, dc_ready, {"csr"})
                               ELSE csr[k-1]]
         /\ SbCycle(dec, dc_ready)
         /\ overrun' = overrun
<1>1. \/ waiting_for_memory(dc_ready) /\ PipeStall /\ SbCycle(dec, dc_ready)
           /\ overrun' = overrun
      \/ ~waiting_for_memory(dc_ready) /\ PipeFlow(dec, dc_ready)
           /\ SbCycle(dec, dc_ready) /\ overrun' = overrun
  BY DEF BCycle, TrapCycle, StallCycle, FlowCycle
<1>2. /\ \A ops : Dispatched(dec, dc_ready, ops) \in Token
      /\ Bubble \in Token
  BY DispatchedType, BubbleType
<1>3. \A tok \in Token :
        /\ Advance(muldiv, tok) = [k \in 1 .. OP_DELAY |-> IF k = 1 THEN tok ELSE muldiv[k-1]]
        /\ Advance(csr, tok) = [k \in 1 .. 2 |-> IF k = 1 THEN tok ELSE csr[k-1]]
  <2>1. muldiv \in Stages(OP_DELAY) /\ csr \in Stages(2) /\ OP_DELAY \in Nat /\ 2 \in Nat
    BY DelayAssumption DEF Stages, PipeTypeOK
  <2>2. \A tok : Advance(muldiv, tok) =
                   [k \in 1 .. OP_DELAY |-> IF k = 1 THEN tok ELSE muldiv[k-1]]
    BY <2>1, AdvanceIs
  <2>3. \A tok : Advance(csr, tok) =
                   [k \in 1 .. 2 |-> IF k = 1 THEN tok ELSE csr[k-1]]
    BY <2>1, AdvanceIs
  <2> QED
    BY <2>2, <2>3
<1>4. CASE waiting_for_memory(dc_ready)
  BY <1>1, <1>2, <1>3, <1>4, WaitingDispatchesNothing DEF PipeStall
<1>5. CASE ~waiting_for_memory(dc_ready)
  BY <1>1, <1>2, <1>3, <1>5 DEF PipeFlow
<1> QED
  BY <1>4, <1>5

(* The pointers of the store buffer stay in range, whatever is asked of    *)
(* it.                                                                     *)
LEMMA CyclePointers ==
  ASSUME tail_ptr \in Slots, commit_ptr \in Slots,
         NEW alloc_en, NEW creq, NEW commit, NEW urgent, NEW dreq_ready,
         CycleStep(alloc_en, creq, commit, urgent, dreq_ready)
  PROVE  tail_ptr' \in Slots /\ commit_ptr' \in Slots
BY DepthAssumption DEF CycleStep, DataPath, Succ, Slots

LEMMA EntriesType ==
  ASSUME PipeTypeOK, NEW dec \in Decs, NEW dc_ready \in BOOLEAN,
         RobCycle(dec, dc_ready)
  PROVE  entries' \in [R!RobIds -> R!RobEntry]
<1> DEFINE trap == rob_trap_valid(dc_ready)
           a == Completion(s_4m_q, trap)
           m == Completion(muldiv[OP_DELAY], trap)
           c == Completion(csr[2], trap)
           issue == IssueReq(dec, dc_ready)
           issuing == Issues(dec, dc_ready)
<1>1. entries' = [i \in R!RobIds |-> R!NextEntry(i, issuing, issue, a, m, c)]
  BY DEF RobCycle, R!RobStep, Issues, rob_trap_valid
<1>2. /\ trap \in BOOLEAN /\ issuing \in BOOLEAN
      /\ s_4m_q \in Token /\ muldiv[OP_DELAY] \in Token /\ csr[2] \in Token
  BY DelayAssumption DEF PipeTypeOK, Issues, rob_trap_valid, R!committing_xcpt,
        R!committing_head_q
<1> HIDE DEF trap
<1>3. /\ a.sbid \in Slots /\ a.xcpt \in BOOLEAN
      /\ m.sbid \in Slots /\ m.xcpt \in BOOLEAN
      /\ c.xcpt \in BOOLEAN
  BY <1>2, CompletionType
<1>4. R!Issued(issue) \in R!RobEntry
  BY IssueReqType
<1> HIDE DEF a, m, c, issue, issuing
<1>5. \A i \in R!RobIds : R!NextEntry(i, issuing, issue, a, m, c) \in R!RobEntry
  BY <1>2, <1>3, <1>4, NextEntryType
<1> QED
  BY <1>1, <1>5

LEMMA PipeTypeAfter ==
  ASSUME PipeTypeOK, NEW dec \in Decs, NEW dc_ready \in BOOLEAN,
         BCycle(dec, dc_ready)
  PROVE  PipeTypeOK'
<1>1. RobCycle(dec, dc_ready)
  BY DEF BCycle
<1>2. entries' \in [R!RobIds -> R!RobEntry] /\ PtrsOK'
  BY <1>1, EntriesType, PointersAfter DEF PipeTypeOK
<1>3. CASE rob_trap_valid(dc_ready)
  <2>1. PipeTrap /\ FlushStep /\ overrun' = AllCommitted
    BY <1>3, PipeAfterTrap
  <2>2. muldiv' \in [1 .. OP_DELAY -> Token] /\ csr' \in [1 .. 2 -> Token]
    BY <2>1, BubbleType DEF PipeTrap
  <2>3. {s_2d_q, s_3e_q, s_4m_q}' \subseteq Token
    BY <2>1, BubbleType DEF PipeTrap
  <2>4. tail_ptr' \in Slots /\ commit_ptr' \in Slots /\ overrun' \in BOOLEAN
    BY <2>1 DEF FlushStep, AllCommitted, PipeTypeOK
  <2> QED
    BY <1>2, <2>2, <2>3, <2>4 DEF PipeTypeOK
<1>4. CASE ~rob_trap_valid(dc_ready)
  <2>1. tail_ptr' \in Slots /\ commit_ptr' \in Slots
    BY <1>4, PipeAfter, CyclePointers DEF SbCycle, PipeTypeOK
  <2>2. \A ops : Dispatched(dec, dc_ready, ops) \in Token
    BY DispatchedType
  <2>3. {s_2d_q, s_3e_q, s_4m_q}' \subseteq Token
    BY <1>4, <2>2, PipeAfter, BubbleType DEF PipeTypeOK
  <2>4. muldiv' \in [1 .. OP_DELAY -> Token] /\ csr' \in [1 .. 2 -> Token]
    <3>1. muldiv \in [1 .. OP_DELAY -> Token] /\ csr \in [1 .. 2 -> Token]
      BY DEF PipeTypeOK
    <3>2. \A tok \in Token :
            [k \in 1 .. OP_DELAY |-> IF k = 1 THEN tok ELSE muldiv[k-1]]
              \in [1 .. OP_DELAY -> Token]
      BY <3>1, DelayAssumption
    <3>3. \A tok \in Token :
            [k \in 1 .. 2 |-> IF k = 1 THEN tok ELSE csr[k-1]] \in [1 .. 2 -> Token]
      BY <3>1
    <3>4. /\ muldiv' = [k \in 1 .. OP_DELAY |->
                          IF k = 1 THEN Dispatched(dec, dc_ready, {"mul"})
                                   ELSE muldiv[k-1]]
          /\ csr' = [k \in 1 .. 2 |->
                       IF k = 1 THEN Dispatched(dec, dc_ready, {"csr"})
                                ELSE csr[k-1]]
      BY <1>4, PipeAfter
    <3> QED
      BY <2>2, <3>2, <3>3, <3>4
  <2> QED
    BY <1>2, <1>4, <2>1, <2>3, <2>4, PipeAfter DEF PipeTypeOK
<1> QED
  BY <1>3, <1>4

(* The same as PipeAfter, by place.                                        *)
LEMMA UnitsAfter ==
  ASSUME PipeTypeOK, NEW dec \in Decs, NEW dc_ready \in BOOLEAN,
         BCycle(dec, dc_ready), ~rob_trap_valid(dc_ready),
         NEW k \in 1 .. NUnits
  PROVE  /\ k = 1 => Units'[k] = IF waiting_for_memory(dc_ready) THEN Units[1]
                                 ELSE Dispatched(dec, dc_ready, AluMemOps)
         /\ k = 2 => Units'[k] = IF waiting_for_memory(dc_ready)
                                 THEN Units[2] ELSE Units[1]
         /\ k = 3 => Units'[k] = IF waiting_for_memory(dc_ready)
                                 THEN Bubble ELSE Units[2]
         /\ k = 4 => Units'[k] = Dispatched(dec, dc_ready, {"mul"})
         /\ k = OP_DELAY+4 => Units'[k] = Dispatched(dec, dc_ready, {"csr"})
         /\ k > 4 /\ k # OP_DELAY+4 => Units'[k] = Units[k-1]
<1>1. Units'[k] =
        IF k = 1 THEN s_2d_q' ELSE IF k = 2 THEN s_3e_q' ELSE IF k = 3 THEN s_4m_q'
        ELSE IF k <= OP_DELAY+3 THEN muldiv'[k-3] ELSE csr'[k - (OP_DELAY+3)]
  BY DEF Units, NUnits
<1>2. OP_DELAY \in Nat /\ OP_DELAY >= 1 /\ NUnits = OP_DELAY + 5
  BY DelayAssumption DEF NUnits
<1>3. CASE k <= 3
  BY <1>1, <1>2, <1>3, PipeAfter, UnitsAre
<1>4. CASE k > 3 /\ k <= OP_DELAY+3
  <2>1. Units'[k] = muldiv'[k-3]
    BY <1>1, <1>2, <1>4
  <2>2. muldiv'[k-3] = IF k-3 = 1 THEN Dispatched(dec, dc_ready, {"mul"})
                                  ELSE muldiv[(k-3)-1]
    BY <1>2, <1>4, PipeAfter
  <2>3. k > 4 => Units[k-1] = muldiv[(k-1)-3]
    BY <1>2, <1>4, UnitsAre
  <2>4. (k-1)-3 = (k-3)-1
    BY <1>2
  <2> QED
    BY <1>2, <1>4, <2>1, <2>2, <2>3, <2>4
<1>5. CASE k > OP_DELAY+3
  <2>1. Units'[k] = csr'[k - (OP_DELAY+3)]
    BY <1>1, <1>2, <1>5
  <2>2. csr'[k - (OP_DELAY+3)] =
          IF k - (OP_DELAY+3) = 1 THEN Dispatched(dec, dc_ready, {"csr"})
                                  ELSE csr[(k - (OP_DELAY+3)) - 1]
    BY <1>2, <1>5, PipeAfter
  <2>3. k > OP_DELAY+4 => Units[k-1] = csr[(k-1) - (OP_DELAY+3)]
    BY <1>2, <1>5, UnitsAre
  <2>4. (k-1) - (OP_DELAY+3) = (k - (OP_DELAY+3)) - 1
    BY <1>2
  <2> QED
    BY <1>2, <1>5, <2>1, <2>2, <2>3, <2>4
<1> QED
  BY <1>2, <1>3, <1>4, <1>5

-----------------------------------------------------------------------------
(* Ownership.                                                              *)

(* Every token is of an entry that waits for it, which no other token is   *)
(* of, and every entry that waits has its token.                           *)
TokensOwned ==
  \A k \in 1 .. NUnits, i \in R!RobIds :
    Units[k].valid /\ Units[k].robid = i =>
      R!Live(i) /\ ~entries[i].complete /\ entries[i].ins = Units[k].ins.op

OneTokenEach ==
  \A k, l \in 1 .. NUnits :
    Units[k].valid /\ Units[l].valid /\ Units[k].robid = Units[l].robid => k = l

NoneForgotten ==
  \A i \in LiveIds : ~entries[i].complete =>
    \E k \in 1 .. NUnits : Units[k].valid /\ Units[k].robid = i

(* Operations go to the unit that executes them.                           *)
KindsKept ==
  /\ \A k \in 1 .. NUnits : Units[k].valid =>
       Units[k].ins.op \in IF k <= 3 THEN AluMemOps
                           ELSE IF k <= OP_DELAY+3 THEN {"mul"} ELSE {"csr"}
  /\ \A i \in LiveIds : /\ entries[i].is_st => entries[i].ins = "st"
                        /\ ~entries[i].complete /\ entries[i].ins = "st" =>
                             entries[i].is_st

OwnerInv == TokensOwned /\ OneTokenEach /\ NoneForgotten /\ KindsKept

(* The last stages of the three units.                                     *)
Outs == {3, OP_DELAY+3, NUnits}

(* An entry after a cycle without a trap: issued, untouched, or completed  *)
(* by the one token in the last stage of a unit that is its own. That two  *)
(* ports never write one entry follows from OneTokenEach (rob.sv:118-160). *)
LEMMA EntryAfter ==
  ASSUME PipeTypeOK, OwnerInv, NEW dec \in Decs, NEW dc_ready \in BOOLEAN,
         RobCycle(dec, dc_ready), ~rob_trap_valid(dc_ready), NEW i \in R!RobIds
  PROVE  /\ Issues(dec, dc_ready) /\ i = tail_q =>
              entries'[i] = R!Issued(IssueReq(dec, dc_ready))
         /\ R!Live(i) /\ (\A k \in Outs : ~(Units[k].valid /\ Units[k].robid = i))
              => entries'[i] = entries[i]
         /\ \A k \in Outs : Units[k].valid /\ Units[k].robid = i =>
              /\ entries'[i].complete
              /\ entries'[i].xcpt <=> Excepts(Units[k].ins)
              /\ entries'[i].ins = entries[i].ins
              /\ entries'[i].is_st = entries[i].is_st
              /\ entries'[i] = [entries[i] EXCEPT !.complete = TRUE,
                                                  !.xcpt = entries'[i].xcpt,
                                                  !.sbid = entries'[i].sbid]
              /\ k = 3 => entries'[i].sbid = s_4m_q.sbid
<1> DEFINE trap == rob_trap_valid(dc_ready)
           a == Completion(s_4m_q, trap)
           m == Completion(muldiv[OP_DELAY], trap)
           c == Completion(csr[2], trap)
           issue == IssueReq(dec, dc_ready)
           issuing == Issues(dec, dc_ready)
<1>1. entries'[i] = R!NextEntry(i, issuing, issue, a, m, c)
  BY DEF RobCycle, R!RobStep, Issues, rob_trap_valid
<1>2. /\ Outs \subseteq 1 .. NUnits
      /\ Units[3] = s_4m_q /\ Units[OP_DELAY+3] = muldiv[OP_DELAY]
      /\ Units[NUnits] = csr[2]
  <2>1. muldiv[(OP_DELAY+3)-3] = muldiv[OP_DELAY] /\ csr[NUnits - (OP_DELAY+3)] = csr[2]
    BY DelayAssumption DEF NUnits
  <2>2. OP_DELAY+3 \in 4 .. OP_DELAY+3 /\ NUnits \in OP_DELAY+4 .. NUnits
    BY DelayAssumption DEF NUnits
  <2>3. Outs \subseteq 1 .. NUnits
    BY DelayAssumption DEF Outs, NUnits
  <2> QED
    BY <2>1, <2>2, <2>3, UnitsAre
<1>3. Units[3] \in Token /\ Units[OP_DELAY+3] \in Token /\ Units[NUnits] \in Token
  BY <1>2, UnitsAre DEF Outs
<1> DEFINE Ends(k) == Units[k].valid /\ Units[k].robid = i
<1>4. /\ R!Selects(a, i) <=> Ends(3)
      /\ R!Selects(m, i) <=> Ends(OP_DELAY+3)
      /\ R!Selects(c, i) <=> Ends(NUnits)
  BY <1>2, <1>3 DEF R!Selects, Completion, R!NoCompletion
<1>5. /\ Ends(3) => a.xcpt = Excepts(Units[3].ins) /\ a.sbid = s_4m_q.sbid
      /\ Ends(OP_DELAY+3) => m.xcpt = Excepts(Units[OP_DELAY+3].ins)
      /\ Ends(NUnits) => c.xcpt = Excepts(Units[NUnits].ins)
  <2>1. \A tok : tok.valid => Completion(tok, trap) =
               [valid |-> TRUE, robid |-> tok.robid, xcpt |-> Excepts(tok.ins),
                sbid |-> IF tok.ins.op \in AluMemOps THEN tok.sbid ELSE 0]
    BY DEF Completion
  <2>2. Ends(3) => Units[3].ins.op \in AluMemOps
    BY <1>2, DelayAssumption DEF OwnerInv, KindsKept, Outs, NUnits
  <2> QED
    BY <1>2, <1>3, <2>1, <2>2 DEF Excepts, Token
<1>6. \A k, l \in Outs : Ends(k) /\ Ends(l) => k = l
  BY <1>2 DEF OwnerInv, OneTokenEach
<1>7. \A k \in Outs : Ends(k) => R!Live(i)
  BY <1>2 DEF OwnerInv, TokensOwned
<1>8. ~R!Live(tail_q)
  BY OccupancyFacts DEF PipeTypeOK
<1>9. 3 # OP_DELAY+3 /\ 3 # NUnits /\ OP_DELAY+3 # NUnits
  BY DelayAssumption DEF NUnits
<1>10. entries[i] \in R!RobEntry
  BY DEF PipeTypeOK
<1> HIDE DEF a, m, c, issue, issuing
<1>11. issuing /\ i = tail_q => entries'[i] = R!Issued(issue)
  BY <1>1, <1>4, <1>7, <1>8 DEF R!NextEntry, Outs
<1>12. R!Live(i) /\ (\A k \in Outs : ~Ends(k)) => entries'[i] = entries[i]
  BY <1>1, <1>4, <1>8 DEF R!NextEntry, Outs
<1>13. ASSUME Ends(3)
       PROVE  entries'[i] = [entries[i] EXCEPT !.complete = TRUE,
                                !.xcpt = Excepts(Units[3].ins), !.sbid = s_4m_q.sbid]
  BY <1>1, <1>4, <1>5, <1>6, <1>7, <1>8, <1>9, <1>13 DEF R!NextEntry, Outs, R!Completed
<1>14. ASSUME Ends(OP_DELAY+3)
       PROVE  entries'[i] = [entries[i] EXCEPT !.complete = TRUE,
                                !.xcpt = Excepts(Units[OP_DELAY+3].ins), !.sbid = m.sbid]
  BY <1>1, <1>4, <1>5, <1>6, <1>7, <1>8, <1>9, <1>14 DEF R!NextEntry, Outs, R!Completed
<1>15. ASSUME Ends(NUnits)
       PROVE  entries'[i] = [entries[i] EXCEPT !.complete = TRUE,
                                !.xcpt = Excepts(Units[NUnits].ins)]
  BY <1>1, <1>4, <1>5, <1>6, <1>7, <1>8, <1>9, <1>15 DEF R!NextEntry, Outs, R!CompletedCsr
<1>16. ASSUME NEW k \in Outs, Ends(k)
       PROVE  /\ entries'[i].complete
              /\ entries'[i].xcpt <=> Excepts(Units[k].ins)
              /\ entries'[i].ins = entries[i].ins
              /\ entries'[i].is_st = entries[i].is_st
              /\ entries'[i] = [entries[i] EXCEPT !.complete = TRUE,
                                                  !.xcpt = entries'[i].xcpt,
                                                  !.sbid = entries'[i].sbid]
              /\ k = 3 => entries'[i].sbid = s_4m_q.sbid
  <2>1. CASE k = 3
    BY <1>10, <1>13, <1>16, <2>1 DEF R!RobEntry
  <2>2. CASE k = OP_DELAY+3
    BY <1>9, <1>10, <1>14, <1>16, <2>2 DEF R!RobEntry
  <2>3. CASE k = NUnits
    BY <1>9, <1>10, <1>15, <1>16, <2>3 DEF R!RobEntry
  <2> QED
    BY <1>16, <2>1, <2>2, <2>3 DEF Outs
<1> QED
  BY <1>11, <1>12, <1>16 DEF issuing, issue

-----------------------------------------------------------------------------
(* Where the token of a place comes from: a new instruction enters at the  *)
(* first stage of its unit, and the others move on or wait.                *)

EntryPlace(op) ==
  IF op \in AluMemOps THEN 1 ELSE IF op = "mul" THEN 4 ELSE OP_DELAY+4

Source(k, dc_ready) ==
  IF waiting_for_memory(dc_ready) /\ k <= 2 THEN k ELSE k-1

Fresh(k, dec, dc_ready) ==
  /\ Dispatches(dec, dc_ready) /\ k = EntryPlace(dec.op)
  /\ Units'[k] = [valid |-> TRUE, ins |-> dec, robid |-> tail_q,
                  sbid |-> alloc_idx]

Moved(k, dc_ready) ==
  /\ Source(k, dc_ready) \in (1 .. NUnits) \ Outs
  /\ Units'[k] = Units[Source(k, dc_ready)]
  /\ k # 4 /\ k # OP_DELAY+4 /\ (k = 3 => ~waiting_for_memory(dc_ready))

(* An instruction enters the reorder buffer either with a token in a unit, *)
(* or complete with an exception and without one (stage_2d.sv).            *)
LEMMA DispatchFacts ==
  ASSUME NEW dec \in Decs, NEW dc_ready \in BOOLEAN
  PROVE  /\ Dispatches(dec, dc_ready) =>
              /\ Issues(dec, dc_ready)
              /\ ~waiting_for_memory(dc_ready)
              /\ dec \in Instr
              /\ ~IssueReq(dec, dc_ready).xcpt
         /\ Issues(dec, dc_ready) /\ ~Dispatches(dec, dc_ready) =>
              IssueReq(dec, dc_ready).xcpt
         /\ IssueReq(dec, dc_ready).xcpt \in BOOLEAN
         /\ IssueReq(dec, dc_ready).ins = dec.op
         /\ IssueReq(dec, dc_ready).is_st <=>
              Dispatches(dec, dc_ready) /\ dec.op = "st"
BY DecTypes DEF Dispatches, Issuable, Issues, IssueReq, stall_2d, xcpt_2d

LEMMA DispatchedIs ==
  ASSUME NEW dec \in Decs, NEW dc_ready \in BOOLEAN, NEW ops,
         Dispatched(dec, dc_ready, ops).valid
  PROVE  /\ Dispatches(dec, dc_ready) /\ dec.op \in ops
         /\ Dispatched(dec, dc_ready, ops) =
              [valid |-> TRUE, ins |-> dec, robid |-> tail_q, sbid |-> alloc_idx]
BY BubbleType DEF Dispatched

LEMMA PlaceArithmetic ==
  /\ OP_DELAY \in Nat /\ OP_DELAY >= 1 /\ NUnits = OP_DELAY + 5
  /\ Outs = {3, OP_DELAY+3, OP_DELAY+5}
BY DelayAssumption DEF NUnits, Outs

LEMMA EntryPlaces ==
  /\ \A op \in AluMemOps : EntryPlace(op) = 1
  /\ EntryPlace("mul") = 4 /\ EntryPlace("csr") = OP_DELAY+4
BY DEF EntryPlace, AluMemOps

(* Each token of the next state is a new one or has moved one place ...    *)
LEMMA ComesFrom ==
  ASSUME PipeTypeOK, NEW dec \in Decs, NEW dc_ready \in BOOLEAN,
         BCycle(dec, dc_ready), ~rob_trap_valid(dc_ready),
         NEW k \in 1 .. NUnits, Units'[k].valid
  PROVE  Fresh(k, dec, dc_ready) \/ Moved(k, dc_ready)
<1> DEFINE wait == waiting_for_memory(dc_ready)
<1>1. CASE k = 1
  <2>1. CASE wait
    <3>1. Units'[k] = Units[1]
      BY <1>1, <2>1, UnitsAfter
    <3>2. Source(k, dc_ready) = 1
      BY <1>1, <2>1 DEF Source
    <3> QED
      BY <1>1, <3>1, <3>2, PlaceArithmetic DEF Moved
  <2>2. CASE ~wait
    <3>1. Units'[k] = Dispatched(dec, dc_ready, AluMemOps)
      BY <1>1, <2>2, UnitsAfter
    <3> QED
      BY <1>1, <3>1, DispatchedIs DEF Fresh, EntryPlace
  <2> QED
    BY <2>1, <2>2
<1>2. CASE k = 2 \/ k = 3
  <2>1. Units'[k] = Units[Source(k, dc_ready)] /\ (k = 3 => ~wait)
    BY <1>2, UnitsAfter, BubbleType DEF Source
  <2>2. Source(k, dc_ready) \in {1, 2}
    BY <1>2, <2>1 DEF Source
  <2> QED
    BY <1>2, <2>1, <2>2, PlaceArithmetic DEF Moved
<1>3. CASE k = 4
  <2>1. Units'[k] = Dispatched(dec, dc_ready, {"mul"})
    BY <1>3, UnitsAfter
  <2>2. /\ Dispatches(dec, dc_ready) /\ dec.op = "mul"
        /\ Units'[k] = [valid |-> TRUE, ins |-> dec, robid |-> tail_q,
                        sbid |-> alloc_idx]
    BY <2>1, BubbleType DEF Dispatched
  <2> QED
    BY <1>3, <2>2, EntryPlaces DEF Fresh
<1>4. CASE k = OP_DELAY+4
  <2>1. Units'[k] = Dispatched(dec, dc_ready, {"csr"})
    BY <1>4, UnitsAfter
  <2>2. /\ Dispatches(dec, dc_ready) /\ dec.op = "csr"
        /\ Units'[k] = [valid |-> TRUE, ins |-> dec, robid |-> tail_q,
                        sbid |-> alloc_idx]
    BY <2>1, BubbleType DEF Dispatched
  <2> QED
    BY <1>4, <2>2, EntryPlaces DEF Fresh
<1>5. CASE k > 4 /\ k # OP_DELAY+4
  <2>1. Units'[k] = Units[k-1]
    BY <1>5, UnitsAfter
  <2>2. Source(k, dc_ready) = k-1
    BY <1>5 DEF Source
  <2> QED
    BY <1>5, <2>1, <2>2, PlaceArithmetic DEF Moved
<1> QED
  BY <1>1, <1>2, <1>3, <1>4, <1>5

(* ... each token that is not in a last stage is somewhere after the cycle *)
(* ...                                                                     *)
LEMMA GoesTo ==
  ASSUME PipeTypeOK, NEW dec \in Decs, NEW dc_ready \in BOOLEAN,
         BCycle(dec, dc_ready), ~rob_trap_valid(dc_ready),
         NEW l \in (1 .. NUnits) \ Outs
  PROVE  \E k \in 1 .. NUnits : Units'[k] = Units[l]
<1> DEFINE wait == waiting_for_memory(dc_ready)
<1>1. CASE wait /\ l <= 2
  <2>1. Units'[l] = Units[l]
    BY <1>1, UnitsAfter, PlaceArithmetic
  <2> QED
    BY <2>1
<1>2. CASE ~(wait /\ l <= 2)
  <2>1. l+1 \in 1 .. NUnits /\ l # 3 /\ l # OP_DELAY+3 /\ (l+1)-1 = l
    BY PlaceArithmetic
  <2>2. CASE l = 1
    BY <1>2, <2>1, <2>2, UnitsAfter
  <2>3. CASE l = 2
    BY <1>2, <2>1, <2>3, UnitsAfter
  <2>4. CASE l > 3
    <3>1. l+1 > 4 /\ l+1 # OP_DELAY+4
      BY <2>1, <2>4, PlaceArithmetic
    <3>2. Units'[l+1] = Units[(l+1)-1]
      BY <2>1, <3>1, UnitsAfter
    <3> QED
      BY <2>1, <3>2
  <2> QED
    BY <2>1, <2>2, <2>3, <2>4
<1> QED
  BY <1>1, <1>2

(* ... a dispatched instruction has its token ...                          *)
LEMMA NewcomerPlaced ==
  ASSUME PipeTypeOK, NEW dec \in Decs, NEW dc_ready \in BOOLEAN,
         BCycle(dec, dc_ready), ~rob_trap_valid(dc_ready),
         Dispatches(dec, dc_ready)
  PROVE  \E k \in 1 .. NUnits : Fresh(k, dec, dc_ready)
<1>1. dec.op \in AluMemOps \cup {"mul", "csr"} /\ ~waiting_for_memory(dc_ready)
  BY DispatchFacts, DecTypes DEF AluMemOps, Ops, Instr
<1>2. \A ops : dec.op \in ops => Dispatched(dec, dc_ready, ops) =
              [valid |-> TRUE, ins |-> dec, robid |-> tail_q, sbid |-> alloc_idx]
  BY DEF Dispatched
<1>3. 1 \in 1 .. NUnits /\ 4 \in 1 .. NUnits /\ OP_DELAY+4 \in 1 .. NUnits
  BY PlaceArithmetic
<1>7. /\ Units'[1] = Dispatched(dec, dc_ready, AluMemOps)
      /\ Units'[4] = Dispatched(dec, dc_ready, {"mul"})
      /\ Units'[OP_DELAY+4] = Dispatched(dec, dc_ready, {"csr"})
  BY <1>1, <1>3, UnitsAfter
<1>4. CASE dec.op \in AluMemOps
  BY <1>1, <1>2, <1>3, <1>4, <1>7, EntryPlaces DEF Fresh
<1>5. CASE dec.op = "mul"
  BY <1>2, <1>3, <1>5, <1>7, EntryPlaces DEF Fresh
<1>6. CASE dec.op = "csr"
  BY <1>2, <1>3, <1>6, <1>7, EntryPlaces DEF Fresh
<1> QED
  BY <1>1, <1>4, <1>5, <1>6

(* ... and no token becomes two.                                           *)
LEMMA SourceInjective ==
  ASSUME NEW dc_ready, NEW k \in 1 .. NUnits, NEW l \in 1 .. NUnits,
         Moved(k, dc_ready), Moved(l, dc_ready),
         Source(k, dc_ready) = Source(l, dc_ready)
  PROVE  k = l
BY PlaceArithmetic DEF Moved, Source

(* A token that moved on is of an entry that nothing happened to.          *)
LEMMA MovedOwner ==
  ASSUME PipeTypeOK, OwnerInv, NEW dec \in Decs, NEW dc_ready \in BOOLEAN,
         RobCycle(dec, dc_ready), ~rob_trap_valid(dc_ready),
         NEW l \in (1 .. NUnits) \ Outs, Units[l].valid,
         NEW i \in R!RobIds, Units[l].robid = i
  PROVE  /\ R!Live(i) /\ R!Live(i)' /\ i # tail_q
         /\ entries'[i] = entries[i]
<1>1. R!Live(i) /\ ~entries[i].complete
  BY DEF OwnerInv, TokensOwned
<1>2. R!Live(i)'
  BY <1>1, CommitFacts, LiveAfter DEF PipeTypeOK
<1>3. \A k \in Outs : ~(Units[k].valid /\ Units[k].robid = i)
  BY PlaceArithmetic DEF OwnerInv, OneTokenEach
<1>4. entries'[i] = entries[i]
  BY <1>1, <1>3, EntryAfter
<1>5. i # tail_q
  BY <1>1, OccupancyFacts DEF PipeTypeOK
<1> QED
  BY <1>1, <1>2, <1>4, <1>5

(* A new token is of the entry at the tail, which was free.                *)
LEMMA FreshOwner ==
  ASSUME PipeTypeOK, OwnerInv, NEW dec \in Decs, NEW dc_ready \in BOOLEAN,
         RobCycle(dec, dc_ready), ~rob_trap_valid(dc_ready),
         Dispatches(dec, dc_ready), NEW i \in R!RobIds, i = tail_q
  PROVE  /\ R!Live(i)' /\ ~R!Live(i)
         /\ ~entries'[i].complete
         /\ entries'[i].ins = dec.op
         /\ entries'[i].is_st <=> dec.op = "st"
<1>2. Issues(dec, dc_ready)
  BY DispatchFacts
<1>3. entries'[i] = R!Issued(IssueReq(dec, dc_ready))
  BY <1>2, EntryAfter
<1>4. R!Live(i)' /\ ~R!Live(i)
  BY <1>2, LiveAfter, OccupancyFacts DEF PipeTypeOK
<1> QED
  BY <1>3, <1>4, DispatchFacts DEF R!Issued

(* The parts of OwnerInv after a cycle without a trap.                     *)
LEMMA TokensOwnedAfter ==
  ASSUME PipeTypeOK, OwnerInv, NEW dec \in Decs, NEW dc_ready \in BOOLEAN,
         BCycle(dec, dc_ready), ~rob_trap_valid(dc_ready)
  PROVE  TokensOwned'
<1>0. RobCycle(dec, dc_ready)
  BY DEF BCycle
<1> SUFFICES ASSUME NEW k \in 1 .. NUnits, NEW i \in R!RobIds,
                    Units'[k].valid, Units'[k].robid = i
             PROVE  /\ R!Live(i)'
                    /\ ~entries'[i].complete
                    /\ entries'[i].ins = Units'[k].ins.op
  BY DEF TokensOwned
<1>1. CASE Fresh(k, dec, dc_ready)
  <2>1. Units'[k].robid = tail_q /\ Units'[k].ins = dec /\ Dispatches(dec, dc_ready)
    BY <1>1 DEF Fresh
  <2> QED
    BY <1>0, <2>1, FreshOwner
<1>2. CASE Moved(k, dc_ready)
  <2> PICK l \in (1 .. NUnits) \ Outs : Units'[k] = Units[l]
    BY <1>2 DEF Moved
  <2>1. R!Live(i)' /\ entries'[i] = entries[i]
    BY <1>0, MovedOwner
  <2>2. ~entries[i].complete /\ entries[i].ins = Units[l].ins.op
    BY DEF OwnerInv, TokensOwned
  <2> QED
    BY <2>1, <2>2
<1> QED
  BY <1>1, <1>2, ComesFrom

LEMMA OneTokenEachAfter ==
  ASSUME PipeTypeOK, OwnerInv, NEW dec \in Decs, NEW dc_ready \in BOOLEAN,
         BCycle(dec, dc_ready), ~rob_trap_valid(dc_ready)
  PROVE  OneTokenEach'
<1>0. RobCycle(dec, dc_ready)
  BY DEF BCycle
<1> SUFFICES ASSUME NEW k \in 1 .. NUnits, NEW l \in 1 .. NUnits,
                    Units'[k].valid, Units'[l].valid,
                    Units'[k].robid = Units'[l].robid
             PROVE  k = l
  BY DEF OneTokenEach
<1>1. \A n \in 1 .. NUnits : Units'[n].valid /\ Moved(n, dc_ready) =>
                               Units'[n].robid # tail_q
  <2> SUFFICES ASSUME NEW n \in 1 .. NUnits, Units'[n].valid, Moved(n, dc_ready)
               PROVE  Units'[n].robid # tail_q
    OBVIOUS
  <2> PICK m \in (1 .. NUnits) \ Outs : Units'[n] = Units[m]
    BY DEF Moved
  <2> PICK i \in R!RobIds : Units[m].robid = i
    BY UnitsAre DEF Token
  <2> QED
    BY <1>0, MovedOwner
<1>2. CASE Fresh(k, dec, dc_ready) /\ Fresh(l, dec, dc_ready)
  BY <1>2 DEF Fresh
<1>3. CASE Moved(k, dc_ready) /\ Moved(l, dc_ready)
  <2>1. Source(k, dc_ready) = Source(l, dc_ready)
    BY <1>3 DEF Moved, OwnerInv, OneTokenEach
  <2> QED
    BY <1>3, <2>1, SourceInjective
<1>4. \A n \in 1 .. NUnits : Fresh(n, dec, dc_ready) => Units'[n].robid = tail_q
  BY DEF Fresh
<1> QED
  BY <1>1, <1>2, <1>3, <1>4, ComesFrom

LEMMA NoneForgottenAfter ==
  ASSUME PipeTypeOK, OwnerInv, NEW dec \in Decs, NEW dc_ready \in BOOLEAN,
         BCycle(dec, dc_ready), ~rob_trap_valid(dc_ready)
  PROVE  NoneForgotten'
<1>0. RobCycle(dec, dc_ready)
  BY DEF BCycle
<1> SUFFICES ASSUME NEW i \in R!RobIds, R!Live(i)', ~entries'[i].complete
             PROVE  \E k \in 1 .. NUnits : Units'[k].valid /\ Units'[k].robid = i
  BY DEF NoneForgotten, LiveIds
<1>1. CASE Issues(dec, dc_ready) /\ i = tail_q
  <2>1. entries'[i] = R!Issued(IssueReq(dec, dc_ready))
    BY <1>0, <1>1, EntryAfter
  <2>2. Dispatches(dec, dc_ready)
    BY <1>1, <2>1, DispatchFacts DEF R!Issued
  <2> PICK k \in 1 .. NUnits : Fresh(k, dec, dc_ready)
    BY <2>2, NewcomerPlaced
  <2> QED
    BY <1>1 DEF Fresh
<1>2. CASE R!Live(i)
  <2>1. \A k \in Outs : ~(Units[k].valid /\ Units[k].robid = i)
    BY <1>0, EntryAfter
  <2>2. ~entries[i].complete
    BY <1>0, <1>2, <2>1, EntryAfter
  <2> PICK l \in 1 .. NUnits : Units[l].valid /\ Units[l].robid = i
    BY <1>2, <2>2 DEF OwnerInv, NoneForgotten, LiveIds
  <2> PICK k \in 1 .. NUnits : Units'[k] = Units[l]
    BY <2>1, GoesTo
  <2> QED
    OBVIOUS
<1> QED
  BY <1>0, <1>1, <1>2, LiveAfter DEF PipeTypeOK

LEMMA KindsKeptAfter ==
  ASSUME PipeTypeOK, OwnerInv, NEW dec \in Decs, NEW dc_ready \in BOOLEAN,
         BCycle(dec, dc_ready), ~rob_trap_valid(dc_ready)
  PROVE  KindsKept'
<1>0. RobCycle(dec, dc_ready)
  BY DEF BCycle
<1> DEFINE OpsAt(k) == IF k <= 3 THEN AluMemOps
                       ELSE IF k <= OP_DELAY+3 THEN {"mul"} ELSE {"csr"}
<1>1. ASSUME NEW k \in 1 .. NUnits, Units'[k].valid
      PROVE  Units'[k].ins.op \in OpsAt(k)
  <2>1. CASE Fresh(k, dec, dc_ready)
    <3>1. Units'[k].ins = dec /\ k = EntryPlace(dec.op) /\ Dispatches(dec, dc_ready)
      BY <2>1 DEF Fresh
    <3>2. dec.op \in AluMemOps \cup {"mul", "csr"}
      BY <3>1, DispatchFacts, DecTypes DEF AluMemOps, Ops, Instr
    <3> QED
      BY <3>1, <3>2, EntryPlaces, PlaceArithmetic
  <2>2. CASE Moved(k, dc_ready)
    <3> PICK l \in (1 .. NUnits) \ Outs : l = Source(k, dc_ready) /\ Units'[k] = Units[l]
      BY <2>2 DEF Moved
    <3>1. Units[l].ins.op \in OpsAt(l)
      BY <1>1 DEF OwnerInv, KindsKept
    <3>2. OpsAt(l) = OpsAt(k)
      BY <2>2, PlaceArithmetic DEF Moved, Source
    <3> QED
      BY <3>1, <3>2
  <2> QED
    BY <1>1, <2>1, <2>2, ComesFrom
<1>2. ASSUME NEW i \in R!RobIds, R!Live(i)'
      PROVE  /\ entries'[i].is_st => entries'[i].ins = "st"
             /\ ~entries'[i].complete /\ entries'[i].ins = "st" => entries'[i].is_st
  <2>1. CASE Issues(dec, dc_ready) /\ i = tail_q
    <3>1. entries'[i] = R!Issued(IssueReq(dec, dc_ready))
      BY <1>0, <2>1, EntryAfter
    <3> QED
      BY <2>1, <3>1, DispatchFacts DEF R!Issued
  <2>2. CASE R!Live(i)
    <3>1. /\ entries[i].is_st => entries[i].ins = "st"
          /\ ~entries[i].complete /\ entries[i].ins = "st" => entries[i].is_st
      BY <2>2 DEF OwnerInv, KindsKept, LiveIds
    <3>2. CASE \A k \in Outs : ~(Units[k].valid /\ Units[k].robid = i)
      BY <1>0, <2>2, <3>1, <3>2, EntryAfter
    <3>3. CASE \E k \in Outs : Units[k].valid /\ Units[k].robid = i
      BY <1>0, <3>1, <3>3, EntryAfter
    <3> QED
      BY <3>2, <3>3
  <2> QED
    BY <1>0, <1>2, <2>1, <2>2, LiveAfter DEF PipeTypeOK
<1> QED
  BY <1>1, <1>2 DEF KindsKept, LiveIds

(* A trap leaves no token and no entry in use (gandul.sv:91-103).          *)
LEMMA AfterTrap ==
  ASSUME PipeTypeOK, NEW dec \in Decs, NEW dc_ready \in BOOLEAN,
         BCycle(dec, dc_ready), rob_trap_valid(dc_ready)
  PROVE  /\ head_q' = tail_q'
         /\ \A i \in R!RobIds : ~R!Live(i)'
         /\ \A k \in 1 .. NUnits : Units'[k] = Bubble
<1>1. head_q' = tail_q' /\ PtrsOK'
  BY PointersAfter DEF BCycle, PipeTypeOK
<1>2. \A i \in R!RobIds : ~R!Live(i)'
  BY <1>1, EntriesAssumption DEF R!Live, PtrsOK
<1>3. PipeTrap
  BY PipeAfterTrap
<1>4. ASSUME NEW k \in 1 .. NUnits
      PROVE  Units'[k] = Bubble
  <2>1. Units'[k] =
          IF k = 1 THEN s_2d_q' ELSE IF k = 2 THEN s_3e_q' ELSE IF k = 3 THEN s_4m_q'
          ELSE IF k <= OP_DELAY+3 THEN muldiv'[k-3] ELSE csr'[k - (OP_DELAY+3)]
    BY DEF Units, NUnits
  <2>2. /\ s_2d_q' = Bubble /\ s_3e_q' = Bubble /\ s_4m_q' = Bubble
        /\ \A j \in 1 .. OP_DELAY : muldiv'[j] = Bubble
        /\ csr'[1] = Bubble /\ csr'[2] = Bubble
    BY <1>3 DEF PipeTrap
  <2>3. CASE k <= OP_DELAY+3
    BY <2>1, <2>2, <2>3, PlaceArithmetic
  <2>4. CASE k > OP_DELAY+3
    <3>1. k - (OP_DELAY+3) \in {1, 2}
      BY <2>4, PlaceArithmetic
    <3>2. Units'[k] = csr'[k - (OP_DELAY+3)]
      BY <2>1, <2>4, PlaceArithmetic
    <3> QED
      BY <2>2, <3>1, <3>2
  <2> QED
    BY <2>3, <2>4, PlaceArithmetic
<1> QED
  BY <1>1, <1>2, <1>4

LEMMA OwnerAfterTrap ==
  ASSUME PipeTypeOK, NEW dec \in Decs, NEW dc_ready \in BOOLEAN,
         BCycle(dec, dc_ready), rob_trap_valid(dc_ready)
  PROVE  OwnerInv'
<1>1. /\ \A i \in R!RobIds : ~R!Live(i)'
      /\ \A k \in 1 .. NUnits : ~Units'[k].valid
  BY AfterTrap, BubbleType
<1>2. LiveIds' = {}
  BY <1>1 DEF LiveIds
<1> QED
  BY <1>1, <1>2 DEF OwnerInv, TokensOwned, OneTokenEach, NoneForgotten, KindsKept

PipeInv == PipeTypeOK /\ OwnerInv

LEMMA PipeInvInit == BInit => PipeInv
<1> SUFFICES ASSUME BInit PROVE PipeInv
  OBVIOUS
<1>1. PipeTypeOK
  <2>1. R!EmptyEntry \in R!RobEntry
    BY DepthAssumption DEF R!EmptyEntry, R!RobEntry, Slots
  <2>2. csr \in [1 .. 2 -> Token] /\ muldiv \in [1 .. OP_DELAY -> Token]
    BY BubbleType DEF BInit
  <2>3. entries \in [R!RobIds -> R!RobEntry]
    BY <2>1 DEF BInit, R!Init
  <2>4. PtrsOK
    BY EntriesAssumption DEF BInit, R!Init, PtrsOK
  <2>5. tail_ptr \in Slots /\ commit_ptr \in Slots
    BY DepthAssumption DEF BInit, Init, Slots
  <2>7. overrun \in BOOLEAN
    BY DEF BInit
  <2>6. {s_2d_q, s_3e_q, s_4m_q} \subseteq Token
    BY BubbleType DEF BInit
  <2> QED
    BY <2>2, <2>3, <2>4, <2>5, <2>6, <2>7 DEF PipeTypeOK
<1>2. \A k \in 1 .. NUnits : ~Units[k].valid
  <2>1. csr[1] = Bubble /\ csr[2] = Bubble /\ \A j \in 1 .. OP_DELAY : muldiv[j] = Bubble
    BY DEF BInit
  <2> SUFFICES ASSUME NEW k \in 1 .. NUnits PROVE Units[k] = Bubble
    BY BubbleType
  <2>2. CASE k <= 3
    BY <1>1, <2>2, UnitsAre DEF BInit
  <2>3. CASE k \in 4 .. OP_DELAY+3
    <3>1. k-3 \in 1 .. OP_DELAY
      BY <2>3, PlaceArithmetic
    <3> QED
      BY <1>1, <2>1, <2>3, <3>1, UnitsAre
  <2>4. CASE k \in OP_DELAY+4 .. NUnits
    <3>1. k - (OP_DELAY+3) \in {1, 2}
      BY <2>4, PlaceArithmetic
    <3> QED
      BY <1>1, <2>1, <2>4, <3>1, UnitsAre
  <2> QED
    BY <2>2, <2>3, <2>4, PlaceArithmetic
<1>3. LiveIds = {}
  BY EntriesAssumption DEF BInit, R!Init, LiveIds, R!Live
<1> QED
  BY <1>1, <1>2, <1>3
     DEF PipeInv, OwnerInv, TokensOwned, OneTokenEach, NoneForgotten, KindsKept,
         LiveIds

(* Every cycle preserves the invariant.                                    *)
LEMMA PipeInvCycle ==
  ASSUME PipeInv, NEW dec \in Decs, NEW dc_ready \in BOOLEAN,
         BCycle(dec, dc_ready)
  PROVE  PipeInv'
<1>1. PipeTypeOK'
  BY PipeTypeAfter DEF PipeInv
<1>2. CASE rob_trap_valid(dc_ready)
  BY <1>1, <1>2, OwnerAfterTrap DEF PipeInv
<1>3. CASE ~rob_trap_valid(dc_ready)
  BY <1>1, <1>3, TokensOwnedAfter, OneTokenEachAfter, NoneForgottenAfter,
     KindsKeptAfter DEF PipeInv, OwnerInv
<1> QED
  BY <1>2, <1>3

LEMMA StepIsCycle ==
  ASSUME BNext
  PROVE  \/ ~overrun /\ \E dec \in Decs, dc_ready \in BOOLEAN :
                           dc_ready \in DcReady /\ BCycle(dec, dc_ready)
         \/ overrun /\ UNCHANGED bevars
BY DEF BNext, Running, Halted, Decs, DcReady

LEMMA PipeInvStutter ==
  ASSUME PipeInv, UNCHANGED bevars
  PROVE  PipeInv'
<1>1. PipeTypeOK' /\ Units' = Units
  BY DEF PipeInv, PipeTypeOK, PtrsOK, bevars, sbvars, pipevars, Units
<1>2. entries' = entries /\ LiveIds' = LiveIds /\ \A i : R!Live(i)' = R!Live(i)
  BY DEF bevars, LiveIds, R!Live
<1> QED
  BY <1>1, <1>2 DEF PipeInv, OwnerInv, TokensOwned, OneTokenEach, NoneForgotten,
                    KindsKept

LEMMA PipeInvNext ==
  ASSUME PipeInv, [BNext]_bevars
  PROVE  PipeInv'
BY StepIsCycle, PipeInvCycle, PipeInvStutter

(* Whatever the program, the answers of the cache and the sizes of the     *)
(* buffer and of the muldiv unit: types, and the one-to-one correspondence *)
(* of tokens in the units with entries that wait (gandul.sv:88-120,        *)
(* rob.sv:84-167).                                                         *)
THEOREM PipeInvariant == BSpec => []PipeInv
BY PipeInvInit, PipeInvNext, PTL DEF BSpec

-----------------------------------------------------------------------------

LEMMA RobIdsFinite == IsFiniteSet(R!RobIds)
BY FS_Interval, EntriesAssumption

(* With one token each, exactly one token: the set of them is a singleton. *)
LEMMA OneOwner ==
  ASSUME PipeInv
  PROVE  OneOwnerEach
<1>1. DOMAIN Units = 1 .. NUnits /\ \A k \in 1 .. NUnits : Units[k].robid \in R!RobIds
  BY UnitsAre DEF PipeInv, Token
<1>2. \A k \in DOMAIN Units : Units[k].valid =>
        /\ R!Live(Units[k].robid) /\ ~entries[Units[k].robid].complete
        /\ entries[Units[k].robid].ins = Units[k].ins.op
  BY <1>1 DEF PipeInv, OwnerInv, TokensOwned
<1>3. ASSUME NEW i \in LiveIds, ~entries[i].complete
      PROVE  Cardinality({k \in DOMAIN Units :
                            Units[k].valid /\ Units[k].robid = i}) = 1
  <2> PICK k \in 1 .. NUnits : Units[k].valid /\ Units[k].robid = i
    BY <1>3 DEF PipeInv, OwnerInv, NoneForgotten
  <2>1. {l \in DOMAIN Units : Units[l].valid /\ Units[l].robid = i} = {k}
    BY <1>1 DEF PipeInv, OwnerInv, OneTokenEach
  <2> QED
    BY <2>1, FS_Singleton
<1> QED
  BY <1>2, <1>3 DEF OneOwnerEach

(* Every instruction that waits to complete is in exactly one unit, and    *)
(* every instruction in a unit is the one its robid names, for any number  *)
(* of entries and any delay: no squashed result reaches an entry given to  *)
(* another instruction, though robids are reused (the squashes of          *)
(* stage_2d, stage_3e, stage_4m, muldiv_fu and csr_fu, gandul.sv:88-120).  *)
THEOREM OneOwnerEachInvariant == BSpec => []OneOwnerEach
BY PipeInvariant, OneOwner, PTL

-----------------------------------------------------------------------------
(* The reorder buffer implements the commit window.                        *)

OccupancyOf(h, t) == IF t >= h THEN t - h ELSE t + N_ENTRIES - h
IdOf(h, k) == LET i == h + k - 1 IN IF i >= N_ENTRIES THEN i - N_ENTRIES ELSE i
WindowOf(h, t, e) == [k \in 1 .. OccupancyOf(h, t) |-> e[IdOf(h, k)]]

EntryTables == [R!RobIds -> R!RobEntry]

(* The window is a sequence of entries.                                    *)
LEMMA WindowOfIs ==
  ASSUME NEW h \in R!RobIds, NEW t \in R!RobIds, NEW e \in EntryTables
  PROVE  /\ OccupancyOf(h, t) \in 0 .. N_ENTRIES-1
         /\ WindowOf(h, t, e) \in Seq(R!RobEntry)
         /\ Len(WindowOf(h, t, e)) = OccupancyOf(h, t)
         /\ \A k \in 1 .. OccupancyOf(h, t) : WindowOf(h, t, e)[k] = e[IdOf(h, k)]
<1> DEFINE n == OccupancyOf(h, t)
<1>1. n \in Nat /\ n <= N_ENTRIES-1
  BY EntriesAssumption DEF OccupancyOf
<1>2. WindowOf(h, t, e) = [k \in 1 .. n |-> e[IdOf(h, k)]]
  BY DEF WindowOf
<1>3. \A k \in 1 .. n : IdOf(h, k) \in R!RobIds
  BY <1>1, EntriesAssumption DEF IdOf
<1>4. n \in 0 .. N_ENTRIES-1
  BY <1>1, EntriesAssumption
<1> HIDE DEF n
<1>5. WindowOf(h, t, e) \in [1 .. n -> R!RobEntry]
  BY <1>2, <1>3 DEF EntryTables
<1> QED
  BY <1>1, <1>2, <1>4, <1>5, FunctionsAreSequences DEF n

(* w is the window of the pointers h and t into the table e.               *)
Windows(w, h, t, e) ==
  /\ OccupancyOf(h, t) \in 0 .. N_ENTRIES-1
  /\ w \in Seq(R!RobEntry)
  /\ Len(w) = OccupancyOf(h, t)
  /\ \A k \in 1 .. OccupancyOf(h, t) : w[k] = e[IdOf(h, k)]

LEMMA WindowOfWindows ==
  ASSUME NEW h \in R!RobIds, NEW t \in R!RobIds, NEW e \in EntryTables,
         NEW w, w = WindowOf(h, t, e)
  PROVE  Windows(w, h, t, e)
BY WindowOfIs DEF Windows

LEMMA WindowIs ==
  /\ R!Window = WindowOf(head_q, tail_q, entries)
  /\ R!Window' = WindowOf(head_q', tail_q', entries')
BY DEF R!Window, R!Occupancy, WindowOf, OccupancyOf, IdOf

LEMMA OccupancyIsAge ==
  ASSUME PtrsOK
  PROVE  OccupancyOf(head_q, tail_q) = Age(tail_q)
BY EntriesAssumption DEF PtrsOK, OccupancyOf, Age

(* The k-th entry of the window is k-1 places from the head.               *)
LEMMA IdOfFacts ==
  ASSUME PtrsOK, NEW k \in 1 .. N_ENTRIES
  PROVE  IdOf(head_q, k) \in R!RobIds /\ Age(IdOf(head_q, k)) = k-1
BY EntriesAssumption DEF PtrsOK, IdOf, Age

LEMMA WindowInit == BInit => R!W!Init
<1> SUFFICES ASSUME BInit PROVE R!Window = <<>>
  BY DEF R!W!Init
<1> DEFINE w == WindowOf(head_q, tail_q, entries)
<1>1. PipeTypeOK
  BY PipeInvInit DEF PipeInv
<1>2. OccupancyOf(head_q, tail_q) = 0
  BY DEF BInit, R!Init, OccupancyOf
<1>3. w \in Seq(R!RobEntry) /\ Len(w) = 0
  <2>1. entries \in EntryTables /\ head_q \in R!RobIds /\ tail_q \in R!RobIds
    BY <1>1 DEF PipeTypeOK, PtrsOK, EntryTables
  <2> QED
    BY <1>2, <2>1, WindowOfIs
<1> QED
  BY <1>3, WindowIs, EmptySeq

(* The window after a cycle, in terms of places: kept is the number of     *)
(* instructions that stay.                                                 *)
LEMMA IdsAfter ==
  ASSUME PtrsOK, NEW dec, NEW dc_ready \in BOOLEAN, RobCycle(dec, dc_ready),
         ~rob_trap_valid(dc_ready), NEW n, NEW a,
         n = IF Commits(dc_ready) THEN 1 ELSE 0,
         a = IF Issues(dec, dc_ready) THEN 1 ELSE 0
  PROVE  /\ OccupancyOf(head_q', tail_q') = OccupancyOf(head_q, tail_q) - n + a
         /\ n = 1 => OccupancyOf(head_q, tail_q) > 0
         /\ \A k \in 1 .. N_ENTRIES-1 : IdOf(head_q', k) = IdOf(head_q, k+n)
         /\ IdOf(head_q, OccupancyOf(head_q, tail_q) + 1) = tail_q
         /\ IdOf(head_q, 1) = head_q
         /\ ~rob_trap_valid(dc_ready)
<1>1. /\ head_q' = IF n = 1 THEN R!Next1(head_q) ELSE head_q
      /\ tail_q' = IF a = 1 THEN R!Next1(tail_q) ELSE tail_q
      /\ n \in {0, 1} /\ a \in {0, 1}
  BY PointersAfter
<1>2. /\ n = 1 => head_q # tail_q
      /\ a = 1 => R!Next1(tail_q) # head_q
  BY CommitFacts DEF Issues, R!full, R!empty
<1> HIDE DEF R!Next1
<1>3. /\ R!Next1(head_q) = IF head_q = N_ENTRIES-1 THEN 0 ELSE head_q+1
      /\ R!Next1(tail_q) = IF tail_q = N_ENTRIES-1 THEN 0 ELSE tail_q+1
  BY DEF R!Next1
<1>4. head_q \in R!RobIds /\ tail_q \in R!RobIds
  BY DEF PtrsOK
<1>5. OccupancyOf(head_q', tail_q') = OccupancyOf(head_q, tail_q) - n + a
  BY <1>1, <1>2, <1>3, <1>4, EntriesAssumption DEF OccupancyOf
<1>6. n = 1 => OccupancyOf(head_q, tail_q) > 0
  BY <1>2, <1>4, EntriesAssumption DEF OccupancyOf
<1>7. \A k \in 1 .. N_ENTRIES-1 : IdOf(head_q', k) = IdOf(head_q, k+n)
  BY <1>1, <1>3, <1>4, EntriesAssumption DEF IdOf
<1>8. /\ IdOf(head_q, OccupancyOf(head_q, tail_q) + 1) = tail_q
      /\ IdOf(head_q, 1) = head_q
  BY <1>4, EntriesAssumption DEF IdOf, OccupancyOf
<1> QED
  BY <1>5, <1>6, <1>7, <1>8

(* What a cycle does to an entry in use is what CommitWindow allows.       *)
LEMMA EntryMayComplete ==
  ASSUME PipeInv, NEW dec \in Decs, NEW dc_ready \in BOOLEAN,
         RobCycle(dec, dc_ready), ~rob_trap_valid(dc_ready),
         NEW i \in R!RobIds, R!Live(i)
  PROVE  R!W!MayComplete(entries[i], entries'[i])
<1>1. CASE \A k \in Outs : ~(Units[k].valid /\ Units[k].robid = i)
  <2>1. entries'[i] = entries[i]
    BY <1>1, EntryAfter DEF PipeInv
  <2> QED
    BY <2>1 DEF R!W!MayComplete
<1>2. CASE \E k \in Outs : Units[k].valid /\ Units[k].robid = i
  <2> PICK k \in Outs : Units[k].valid /\ Units[k].robid = i
    BY <1>2
  <2>1. ~entries[i].complete
    BY PlaceArithmetic DEF PipeInv, OwnerInv, TokensOwned
  <2>2. entries'[i] = [entries[i] EXCEPT !.complete = TRUE,
                                         !.xcpt = entries'[i].xcpt,
                                         !.sbid = entries'[i].sbid]
    BY EntryAfter DEF PipeInv
  <2> QED
    BY <2>1, <2>2 DEF R!W!MayComplete
<1> QED
  BY <1>1, <1>2

(* A cycle without a trap takes at most the oldest instruction from the    *)
(* window and adds at most one at its end.                                 *)
LEMMA WindowRetire ==
  ASSUME PipeInv, NEW dec \in Decs, NEW dc_ready \in BOOLEAN,
         BCycle(dec, dc_ready), ~rob_trap_valid(dc_ready)
  PROVE  \E n \in {0, 1} : R!W!Retire(n, R!Window, R!Window')
<1> PICK n \in {0, 1} : n = IF Commits(dc_ready) THEN 1 ELSE 0
  OBVIOUS
<1> PICK a \in {0, 1} : a = IF Issues(dec, dc_ready) THEN 1 ELSE 0
  OBVIOUS
<1> PICK w, w1 : w = R!Window /\ w1 = R!Window'
  OBVIOUS
<1> PICK occ \in 0 .. N_ENTRIES-1, occ1 \in 0 .. N_ENTRIES-1 :
      /\ occ = OccupancyOf(head_q, tail_q)
      /\ occ1 = OccupancyOf(head_q', tail_q')
      /\ Len(w) = occ /\ w \in Seq(R!RobEntry)
      /\ \A k \in 1 .. occ : w[k] = entries[IdOf(head_q, k)]
      /\ Len(w1) = occ1
      /\ \A k \in 1 .. occ1 : w1[k] = entries'[IdOf(head_q', k)]
  <2>1. PipeTypeOK /\ PipeTypeOK'
    BY PipeTypeAfter DEF PipeInv
  <2>2. /\ head_q \in R!RobIds /\ tail_q \in R!RobIds
        /\ head_q' \in R!RobIds /\ tail_q' \in R!RobIds
        /\ entries \in EntryTables /\ entries' \in EntryTables
    BY <2>1 DEF PipeTypeOK, PtrsOK, EntryTables
  <2>3. w = WindowOf(head_q, tail_q, entries)
    BY WindowIs
  <2>4. w1 = WindowOf(head_q', tail_q', entries')
    BY WindowIs
  <2>5. Windows(w, head_q, tail_q, entries)
    BY <2>2, <2>3, WindowOfWindows
  <2>6. Windows(w1, head_q', tail_q', entries')
    BY <2>2, <2>4, WindowOfWindows
  <2> QED
    BY <2>5, <2>6 DEF Windows
<1>0. RobCycle(dec, dc_ready) /\ PtrsOK
  BY DEF BCycle, PipeInv, PipeTypeOK
<1>1. /\ occ1 = occ - n + a
      /\ n = 1 => occ > 0
      /\ \A k \in 1 .. N_ENTRIES-1 : IdOf(head_q', k) = IdOf(head_q, k+n)
      /\ IdOf(head_q, occ + 1) = tail_q
      /\ IdOf(head_q, 1) = head_q
  BY <1>0, IdsAfter
<1>2. n = 1 => w # <<>> /\ Head(w).complete /\ ~Head(w).xcpt
  <2> SUFFICES ASSUME n = 1
               PROVE  w # <<>> /\ Head(w).complete /\ ~Head(w).xcpt
    OBVIOUS
  <2>1. w # <<>> /\ Head(w) = w[1]
    BY <1>1
  <2>2. w[1] = entries[head_q]
    BY <1>1
  <2>3. entries[head_q].complete /\ ~entries[head_q].xcpt
    BY CommitFacts
  <2> QED
    BY <2>1, <2>2, <2>3
<1>3. ASSUME NEW k \in 1 .. occ - n
      PROVE  R!W!MayComplete(w[k+n], w1[k])
  <2>0. k+n \in 1 .. N_ENTRIES
    BY EntriesAssumption
  <2> PICK i \in R!RobIds : i = IdOf(head_q, k+n) /\ Age(i) = k+n-1
    BY <1>0, <2>0, IdOfFacts
  <2>1. R!Live(i)
    <3>1. R!Live(i) <=> Age(i) < Age(tail_q)
      BY <1>0, AgeFacts
    <3>2. occ = Age(tail_q)
      BY <1>0, OccupancyIsAge
    <3>3. k+n-1 < occ
      OBVIOUS
    <3> QED
      BY <3>1, <3>2, <3>3
  <2>2. w[k+n] = entries[i]
    BY <1>1
  <2>3. w1[k] = entries'[i]
    BY <1>1, EntriesAssumption
  <2> QED
    BY <1>0, <2>1, <2>2, <2>3, EntryMayComplete
<1>4. a = 1 => R!W!Enters(w1[occ - n + 1])
  <2> SUFFICES ASSUME a = 1 PROVE R!W!Enters(w1[occ - n + 1])
    OBVIOUS
  <2>1. w1[occ - n + 1] = entries'[tail_q]
    <3>1. occ - n + 1 \in 1 .. occ1 /\ occ - n + 1 \in 1 .. N_ENTRIES-1
      BY <1>1
    <3>2. IdOf(head_q', occ - n + 1) = IdOf(head_q, (occ - n + 1) + n)
      BY <1>1, <3>1
    <3>3. (occ - n + 1) + n = occ + 1
      OBVIOUS
    <3> QED
      BY <1>1, <3>1, <3>2, <3>3
  <2>2. entries'[tail_q] = R!Issued(IssueReq(dec, dc_ready))
    <3>1. tail_q \in R!RobIds /\ PipeTypeOK /\ OwnerInv
      BY DEF PipeInv, PipeTypeOK, PtrsOK
    <3>2. Issues(dec, dc_ready)
      OBVIOUS
    <3> QED
      BY <1>0, <3>1, <3>2, EntryAfter
  <2> QED
    BY <2>1, <2>2 DEF R!W!Enters, R!Issued
<1> QED
  BY <1>1, <1>2, <1>3, <1>4 DEF R!W!Retire

(* A trap takes the oldest and leaves nothing.                             *)
LEMMA WindowTrap ==
  ASSUME PipeInv, NEW dec \in Decs, NEW dc_ready \in BOOLEAN,
         BCycle(dec, dc_ready), rob_trap_valid(dc_ready)
  PROVE  R!W!Trap(R!Window, R!Window')
<1> PICK w, w1 : w = R!Window /\ w1 = R!Window'
  OBVIOUS
<1>1. PipeTypeOK /\ PipeTypeOK'
  BY PipeTypeAfter DEF PipeInv
<1>2. /\ head_q \in R!RobIds /\ tail_q \in R!RobIds
      /\ head_q' \in R!RobIds /\ tail_q' \in R!RobIds
      /\ entries \in EntryTables /\ entries' \in EntryTables
  BY <1>1 DEF PipeTypeOK, PtrsOK, EntryTables
<1>3. w1 = <<>>
  <2>1. w1 = WindowOf(head_q', tail_q', entries')
    BY WindowIs
  <2>0. head_q' = tail_q'
    BY <1>1, AfterTrap
  <2>2. \A p \in R!RobIds : OccupancyOf(p, p) = 0
    BY EntriesAssumption DEF OccupancyOf
  <2>3. Windows(w1, head_q', tail_q', entries')
    BY <1>2, <2>1, WindowOfWindows
  <2>4. w1 \in Seq(R!RobEntry) /\ Len(w1) = 0
    BY <1>2, <2>0, <2>2, <2>3 DEF Windows
  <2> QED
    BY <2>4, EmptySeq
<1>4. w # <<>> /\ Head(w) = entries[head_q]
  <2>1. w = WindowOf(head_q, tail_q, entries)
    BY WindowIs
  <2>2. OccupancyOf(head_q, tail_q) > 0
    BY <1>2, CommitFacts, EntriesAssumption DEF OccupancyOf, R!empty
  <2>3. /\ w \in Seq(R!RobEntry) /\ Len(w) > 0
        /\ w[1] = entries[IdOf(head_q, 1)]
    <3>1. Windows(w, head_q, tail_q, entries)
      BY <1>2, <2>1, WindowOfWindows
    <3> QED
      BY <2>2, <3>1 DEF Windows
  <2>4. IdOf(head_q, 1) = head_q
    BY <1>2, EntriesAssumption DEF IdOf
  <2> QED
    BY <2>3, <2>4
<1>5. entries[head_q].complete /\ entries[head_q].xcpt
  BY CommitFacts
<1> QED
  BY <1>3, <1>4, <1>5 DEF R!W!Trap

LEMMA WindowNext ==
  ASSUME PipeInv, [BNext]_bevars
  PROVE  [R!W!Next]_R!Window
<1>1. ASSUME NEW dec \in Decs, NEW dc_ready \in BOOLEAN, BCycle(dec, dc_ready)
      PROVE  R!W!Next
  BY <1>1, WindowTrap, WindowRetire DEF R!W!Next
<1>2. CASE UNCHANGED bevars
  <2>1. R!Window' = R!Window
    BY <1>2, WindowIs DEF bevars
  <2> QED
    BY <2>1
<1> QED
  BY <1>1, <1>2, StepIsCycle

(* The reorder buffer, driven by the back end, is the in-order window of   *)
(* CommitWindow: for any number of entries, any delay of the muldiv unit   *)
(* and any program (rob.sv:84-167, gandul.sv:88-120).                      *)
THEOREM ImplementsWindow == BSpec => ImplementsCommitWindow
<1>1. BInit => R!W!Init
  BY WindowInit
<1>2. PipeInv /\ [BNext]_bevars => [R!W!Next]_R!Window
  BY WindowNext
<1> QED
  BY <1>1, <1>2, PipeInvariant, PTL
     DEF BSpec, ImplementsCommitWindow, R!ImplementsCommitWindow, R!W!Spec
=============================================================================
