------------------------------ MODULE Backend ------------------------------
(***************************************************************************)
(* The out-of-order back end of Gandul (rtl/gandul/gandul.sv): the reorder *)
(* buffer, the store buffer, the alumem pipeline (stages 3e, 4m and 5w),   *)
(* the muldiv and CSR units, the arbiter of the data cache port, and the   *)
(* stall, squash and commit-permission logic that ties them together.      *)
(*                                                                         *)
(* One step is one clock cycle of all of them.  The front end is an input: *)
(* in each cycle stage 2d holds any instruction of Instrs or a bubble (an  *)
(* icache miss, an operand hazard, a squashed instruction).  The cache is  *)
(* an input too: it answers the request it is shown, or not yet.           *)
(***************************************************************************)
EXTENDS StoreBuffer, Sequences

CONSTANTS  \* beside the store buffer's
  N_ENTRIES,  \* of the reorder buffer
  OP_DELAY,   \* MULDIV_OP_DELAY
  Instrs      \* what stage 2d may hold

VARIABLES  \* beside the store buffer's
  entries, head_q, tail_q,  \* reorder buffer
  s_2d_q, s_3e_q, s_4m_q,   \* pipeline registers into 3e, 4m and 5w
  muldiv, csr,              \* the stages of the two other units
  arb,                      \* the arbiter's state
  overrun                   \* history: a flush found every slot committed

pipevars == <<s_2d_q, s_3e_q, s_4m_q, muldiv, csr>>
bevars == <<sbvars, entries, head_q, tail_q, pipevars, arb, overrun>>

(* An instruction: its operation; its access, if it loads or stores; and   *)
(* where it excepts: never, at fetch, at decode, or late, in its unit (a   *)
(* misaligned access, a division by zero).                                 *)
Ops == {"alu", "ld", "st", "fence", "mul", "csr"}

R == INSTANCE Rob WITH SBIDS <- Slots, INSTRS <- Ops, NOINSTR <- "none"

Instr == [op : Ops, acc : Accesses, xc : {"no", "fetch", "illegal", "late"}]

(* A trap may find every slot of the store buffer committed.               *)
ASSUME FlushAssumption == FULL_FLUSH = TRUE
ASSUME InstrsAssumption == Instrs \subseteq Instr
ASSUME DelayAssumption == OP_DELAY \in Nat \ {0}
ASSUME EntriesAssumption == N_ENTRIES \in Nat /\ N_ENTRIES >= 2

NoInstr == [op |-> "none", acc |-> ResetStore.acc, xc |-> "no"]
Bubble  == [valid |-> FALSE, ins |-> NoInstr, robid |-> 0, sbid |-> 0]
Token   == [valid : BOOLEAN, ins : Instr \cup {NoInstr},
            robid : R!RobIds, sbid : Slots]

-----------------------------------------------------------------------------
(* Stage 4m and the arbiter.                                               *)

load_4m  == s_3e_q.valid /\ s_3e_q.ins.op = "ld"
store_4m == s_3e_q.valid /\ s_3e_q.ins.op = "st"

(* Excepts in stage 4m or in the muldiv unit.                              *)
Excepts(ins) == ins.xc = "late"

addr_misaligned == (load_4m \/ store_4m) /\ Excepts(s_3e_q.ins)

sb_stall == ld_stall(s_3e_q.sbid, s_3e_q.ins.acc)
sb_hit   == ld_hit(s_3e_q.sbid, s_3e_q.ins.acc)

ld_req_valid == load_4m /\ ~addr_misaligned /\ ~sb_stall /\ ~sb_hit

(* Who holds the cache port in this cycle: loads go first.                 *)
Owner ==
  CASE arb = "SERVING_LD" -> "ld"
    [] arb = "SERVING_SB" -> "sb"
    [] arb = "IDLE" -> IF ld_req_valid THEN "ld"
                       ELSE IF dreq_valid THEN "sb" ELSE "none"

ld_req_ready(dc_ready) == Owner = "ld" /\ dc_ready
sb_req_ready(dc_ready) == Owner = "sb" /\ dc_ready

ArbStep(dc_ready) ==
  arb' = IF dc_ready THEN "IDLE"
         ELSE CASE Owner = "ld" -> "SERVING_LD"
                [] Owner = "sb" -> "SERVING_SB"
                [] OTHER -> "IDLE"

(* The cache answers a request when it likes; it is ready when idle.       *)
DcReady == IF Owner = "none" THEN {TRUE} ELSE BOOLEAN

waiting_for_memory(dc_ready) ==
  \/ load_4m /\ ~addr_misaligned /\ sb_stall
  \/ ld_req_valid /\ ~ld_req_ready(dc_ready)
  \/ R!commit_fence /\ ~sb_empty

(* Mutant: a fence does not force the buffer to drain.                     *)
UrgentOnlyForLoads ==
  IF load_4m /\ ~addr_misaligned THEN {sb_stall} ELSE {FALSE}

(* ld_stall_o is not qualified: unless a load asks, any value.             *)
Urgencies ==
  IF R!commit_fence THEN {TRUE}
  ELSE IF load_4m /\ ~addr_misaligned THEN {sb_stall} ELSE BOOLEAN

-----------------------------------------------------------------------------
(* Commit permission and traps.                                            *)

(* Mutants: fences commit at once; exceptions do not wait for memory.      *)
AlwaysCommit == TRUE
TrapsWhileWaiting(dc_ready) == ~R!full

rob_can_commit == R!commit_fence => sb_empty
rob_can_commit_xcpt(dc_ready) == ~waiting_for_memory(dc_ready) /\ ~R!full

rob_trap_valid(dc_ready) ==
  R!committing_xcpt(rob_can_commit, rob_can_commit_xcpt(dc_ready))

commit_sb(dc_ready) ==
  R!commit_sb(rob_can_commit, rob_can_commit_xcpt(dc_ready))

-----------------------------------------------------------------------------
(* Stage 2d: dec is the instruction it holds, NoInstr for a bubble.        *)

(* Mutant: stores are dispatched without a slot.                           *)
NeverStallsForSb(dec) == FALSE

stall_for_sb_full(dec) == dec.op = "st" /\ sb_full

stall_2d(dec, dc_ready) ==
  waiting_for_memory(dc_ready) \/ R!full \/ stall_for_sb_full(dec)

Issuable(dec, dc_ready) ==
  dec # NoInstr /\ ~stall_2d(dec, dc_ready) /\ ~rob_trap_valid(dc_ready)

(* A fetch exception is raised even while the stage is stalled.            *)
xcpt_2d(dec, dc_ready) ==
  \/ dec.xc = "illegal" /\ Issuable(dec, dc_ready)
  \/ dec.xc = "fetch"

Dispatches(dec, dc_ready) ==
  Issuable(dec, dc_ready) /\ ~xcpt_2d(dec, dc_ready)

IssueReq(dec, dc_ready) ==
  LET xcpt == xcpt_2d(dec, dc_ready)
  IN [valid    |-> (xcpt \/ Issuable(dec, dc_ready)) /\ ~stall_for_sb_full(dec),
      ins      |-> dec.op,
      is_st    |-> dec.op = "st" /\ Dispatches(dec, dc_ready),
      is_fence |-> dec.op = "fence",
      xcpt     |-> xcpt]

sb_alloc_en(dec, dc_ready) == dec.op = "st" /\ Issuable(dec, dc_ready)

(* Mutant: the age tag is the occupancy, not the tail.                     *)
TagsWithCount(dec, dc_ready, ops) ==
  IF Dispatches(dec, dc_ready) /\ dec.op \in ops
  THEN [valid |-> TRUE, ins |-> dec, robid |-> tail_q, sbid |-> count]
  ELSE Bubble

(* What the decode stage hands to the unit for the operations in ops.      *)
Dispatched(dec, dc_ready, ops) ==
  IF Dispatches(dec, dc_ready) /\ dec.op \in ops
  THEN [valid |-> TRUE, ins |-> dec, robid |-> tail_q, sbid |-> alloc_idx]
  ELSE Bubble

AluMemOps == {"alu", "ld", "st", "fence"}

-----------------------------------------------------------------------------
(* Completions.                                                            *)

(* Mutant: a completion does not name its store buffer slot.               *)
CompletesSlotZero(tok, squash) ==
  IF tok.valid /\ ~squash
  THEN [valid |-> TRUE, robid |-> tok.robid, xcpt |-> Excepts(tok.ins),
        sbid |-> 0]
  ELSE R!NoCompletion

Completion(tok, squash) ==
  IF tok.valid /\ ~squash
  THEN [valid |-> TRUE, robid |-> tok.robid, xcpt |-> Excepts(tok.ins),
        sbid |-> IF tok.ins.op \in AluMemOps THEN tok.sbid ELSE 0]
  ELSE R!NoCompletion

ExecReq(dc_ready) ==
  IF store_4m /\ ~waiting_for_memory(dc_ready) /\ ~addr_misaligned
  THEN [en |-> TRUE, idx |-> s_3e_q.sbid,
        store |-> [acc |-> s_3e_q.ins.acc, data |-> 0]]
  ELSE NoExec

-----------------------------------------------------------------------------
(* The clock cycle of the pipeline registers and units.                    *)

Advance(units, tok) ==
  [k \in 1 .. Len(units) |-> IF k = 1 THEN tok ELSE units[k-1]]

(* Mutant: a trap forgets the muldiv unit.                                 *)
TrapKeepsMuldiv ==
  /\ s_2d_q' = Bubble /\ s_3e_q' = Bubble /\ s_4m_q' = Bubble
  /\ muldiv' = Advance(muldiv, Bubble)
  /\ csr' = <<Bubble, Bubble>>

(* A trap turns everything in flight into bubbles.                         *)
PipeTrap ==
  /\ s_2d_q' = Bubble /\ s_3e_q' = Bubble /\ s_4m_q' = Bubble
  /\ muldiv' = [i \in 1 .. OP_DELAY |-> Bubble]
  /\ csr' = <<Bubble, Bubble>>

(* Stages 3e and 4m stall; stages 5w, muldiv and CSR never do.             *)
PipeStall ==
  /\ s_4m_q' = Bubble
  /\ muldiv' = Advance(muldiv, Bubble)
  /\ csr' = Advance(csr, Bubble)
  /\ UNCHANGED <<s_2d_q, s_3e_q>>

PipeFlow(dec, dc_ready) ==
  /\ s_2d_q' = Dispatched(dec, dc_ready, AluMemOps)
  /\ s_3e_q' = s_2d_q
  /\ s_4m_q' = s_3e_q
  /\ muldiv' = Advance(muldiv, Dispatched(dec, dc_ready, {"mul"}))
  /\ csr' = Advance(csr, Dispatched(dec, dc_ready, {"csr"}))

RobCycle(dec, dc_ready) ==
  LET trap == rob_trap_valid(dc_ready)
  IN R!RobStep(IssueReq(dec, dc_ready), Completion(s_4m_q, trap),
               Completion(muldiv[OP_DELAY], trap), Completion(csr[2], trap),
               rob_can_commit, rob_can_commit_xcpt(dc_ready))

TrapCycle(dec, dc_ready) ==
  /\ rob_trap_valid(dc_ready)
  /\ PipeTrap
  /\ FlushStep
  /\ overrun' = AllCommitted

StallCycle(dc_ready) ==
  /\ waiting_for_memory(dc_ready)
  /\ PipeStall
  /\ UNCHANGED overrun

FlowCycle(dec, dc_ready) ==
  /\ ~waiting_for_memory(dc_ready) /\ ~rob_trap_valid(dc_ready)
  /\ PipeFlow(dec, dc_ready)
  /\ UNCHANGED overrun

SbCycle(dec, dc_ready) ==
  \E urgent \in Urgencies :
    CycleStep(sb_alloc_en(dec, dc_ready), ExecReq(dc_ready),
                 commit_sb(dc_ready), urgent, sb_req_ready(dc_ready))

BCycle(dec, dc_ready) ==
  /\ RobCycle(dec, dc_ready)
  /\ ArbStep(dc_ready)
  /\ \/ TrapCycle(dec, dc_ready)
     \/ StallCycle(dc_ready) /\ SbCycle(dec, dc_ready)
     \/ FlowCycle(dec, dc_ready) /\ SbCycle(dec, dc_ready)

-----------------------------------------------------------------------------
BInit ==
  /\ Init
  /\ R!Init
  /\ s_2d_q = Bubble /\ s_3e_q = Bubble /\ s_4m_q = Bubble
  /\ muldiv = [i \in 1 .. OP_DELAY |-> Bubble]
  /\ csr = <<Bubble, Bubble>>
  /\ arb = "IDLE"
  /\ overrun = FALSE

(* What follows an overrun is not followed: the stores it loses make every *)
(* later state meaningless.                                                *)
Running == ~overrun /\ \E dec \in Instrs \cup {NoInstr}, dc_ready \in DcReady :
                          BCycle(dec, dc_ready)
Halted == overrun /\ UNCHANGED bevars

BNext == Running \/ Halted

(* The clock ticks for ever, and the cache answers infinitely often.       *)
CacheAnswers == ~overrun /\ \E dec \in Instrs \cup {NoInstr} : BCycle(dec, TRUE)

BSpec == BInit /\ [][BNext]_bevars
FairSpec == BSpec /\ WF_bevars(Running) /\ WF_bevars(CacheAnswers)

-----------------------------------------------------------------------------
(* Properties.                                                             *)

(* Every place an instruction in flight can be.                            *)
Units ==
  [k \in 1 .. OP_DELAY+5 |->
     IF k = 1 THEN s_2d_q ELSE IF k = 2 THEN s_3e_q ELSE IF k = 3 THEN s_4m_q
     ELSE IF k <= OP_DELAY+3 THEN muldiv[k-3] ELSE csr[k - (OP_DELAY+3)]]

LiveIds == {i \in R!RobIds : R!Live(i)}
Age(i) == IF i >= head_q THEN i - head_q ELSE i + N_ENTRIES - head_q

(* An older instruction is known to except, so i will be squashed.         *)
Doomed(i) ==
  \E j \in LiveIds :
    /\ Age(j) < Age(i)
    /\ \/ entries[j].complete /\ entries[j].xcpt
       \/ s_4m_q.valid /\ s_4m_q.robid = j /\ Excepts(s_4m_q.ins)

RobStores == {i \in LiveIds : entries[i].is_st}

(* The slot a store in the reorder buffer should have, counting in program *)
(* order from the first slot that is not committed.                        *)
SlotOf(i) ==
  (commit_ptr + Cardinality({j \in RobStores : Age(j) < Age(i)})) % DEPTH

BTypeOK ==
  /\ TypeOK
  /\ entries \in [R!RobIds -> R!RobEntry]
  /\ {head_q, tail_q} \subseteq R!RobIds
  /\ {s_2d_q, s_3e_q, s_4m_q} \subseteq Token
  /\ muldiv \in [1 .. OP_DELAY -> Token] /\ csr \in [1 .. 2 -> Token]
  /\ arb \in {"IDLE", "SERVING_LD", "SERVING_SB"}
  /\ overrun \in BOOLEAN

(* Every instruction that is waiting to complete is in exactly one unit,   *)
(* and every instruction in a unit is the one its robid names: no result   *)
(* of a squashed instruction reaches an entry given to another, and no     *)
(* instruction is dropped between decode and completion (gandul.sv:88-120, *)
(* the squashes of stage_2d, stage_3e, stage_4m, muldiv_fu and csr_fu).    *)
OneOwnerEach ==
  /\ \A k \in DOMAIN Units : Units[k].valid =>
       LET i == Units[k].robid
       IN R!Live(i) /\ ~entries[i].complete /\ entries[i].ins = Units[k].ins.op
  /\ \A i \in LiveIds : ~entries[i].complete =>
       Cardinality({k \in DOMAIN Units :
                      Units[k].valid /\ Units[k].robid = i}) = 1

(* The stores of the reorder buffer that no exception will squash hold the *)
(* uncommitted slots of the store buffer in program order, although slots  *)
(* are given at decode and named at completion (rob.sv:150, 193-195).      *)
StoresHoldSlotsInOrder ==
  ~overrun => \A i \in RobStores : ~Doomed(i) =>
    LET e == buffer[SlotOf(i)]
    IN /\ e.allocated /\ ~e.committed
       /\ entries[i].complete /\ ~entries[i].xcpt =>
            e.valid /\ entries[i].sbid = SlotOf(i)

(* A load about to be answered searches exactly the buffered stores that   *)
(* precede it in program order, and all of them have executed: the age tag *)
(* taken at decode is never ambiguous when it is used, not even when the   *)
(* buffer was full (store_buffer.sv:207-214, stage_4m.sv:123-126).         *)
LoadSearchesOlderStores ==
  LET tag      == s_3e_q.sbid
      searched == {s \in Slots : IsOlder(s, tag) /\ buffer[s].allocated}
      older    == {s \in Slots : buffer[s].committed} \cup
                  {SlotOf(j) : j \in {j \in RobStores :
                                       Age(j) < Age(s_3e_q.robid)}}
  IN /\ ~overrun /\ load_4m /\ ~addr_misaligned /\ ~Doomed(s_3e_q.robid)
     /\ sb_hit \/ Owner = "ld"
     => searched = older /\ \A s \in older : buffer[s].valid

(* Action properties.                                                      *)

Retires == head_q' # head_q
Traps   == Retires /\ entries[head_q].xcpt

(* A trap leaves nothing in flight, an empty reorder buffer, and in the    *)
(* store buffer the stores that were committed before it, no more and no   *)
(* less (gandul.sv:91-103, rob.sv:115-116, store_buffer.sv:101-122).       *)
TrapIsPrecise ==
  [][Traps =>
       /\ head_q' = tail_q'
       /\ \A k \in DOMAIN Units' : ~Units'[k].valid
       /\ \A s \in Slots : buffer'[s].allocated = buffer[s].committed
       /\ overrun' \/ count' = Cardinality({s \in Slots : buffer[s].committed})
    ]_bevars

(* The same of the number of stores left, with no exemption: it fails when *)
(* all DEPTH slots are committed at the trap (store_buffer.sv:101-118).    *)
TrapKeepsCommittedStores ==
  [][Traps => count' = Cardinality({s \in Slots : buffer[s].committed})
    ]_bevars

(* When a fence is committed every store before it has left the buffer and *)
(* been taken by the cache (gandul.sv:109, stage_4m.sv:212-218).           *)
FenceFollowsStores ==
  [][Retires /\ R!commit_fence =>
       /\ \A s \in Slots : ~buffer[s].allocated
       /\ arb # "SERVING_SB"]_bevars

(* A load the cache has not answered is still asked for in the next cycle, *)
(* with the same address, whatever traps or drains meanwhile: the arbiter  *)
(* shows the cache what stage 4m holds (dcache_arbitrer.sv:56-86,          *)
(* gandul.sv:110).                                                         *)
LoadRequestStable ==
  [][Owner = "ld" /\ arb' = "SERVING_LD" =>
       s_3e_q' = s_3e_q /\ ld_req_valid']_bevars

(* A store the cache has not answered stays at the head, with its address  *)
(* and data, also when a flush takes the buffer's request away under the   *)
(* arbiter (dcache_arbitrer.sv:56-97, store_buffer.sv:101-122).            *)
StoreRequestStable ==
  [][Owner = "sb" /\ arb' = "SERVING_SB" =>
       head_ptr' = head_ptr /\ dreq_store' = dreq_store]_bevars

(* The back end presents to the store buffer only inputs its specification *)
(* allows: so what is shown of StoreBuffer holds of it here.               *)
ImplementsStoreBuffer == Spec

(* The reorder buffer, driven by this back end, is an in-order window:     *)
(* instructions leave in the order they were issued, each completes once,  *)
(* a committed exception leaves nothing behind it, and no entry is         *)
(* overwritten while in use (rob.sv:84-167).                               *)
ImplementsCommitWindow == R!ImplementsCommitWindow

(* Liveness.                                                               *)

(* The oldest instruction always leaves the reorder buffer.                *)
HeadRetires ==
  \A i \in R!RobIds : (~R!empty /\ head_q = i) ~> (head_q # i \/ overrun)

(* A store buffer that has reached its threshold drains, unless loads that *)
(* miss the buffer follow each other without a gap for ever: the arbiter   *)
(* lets them go first (store_buffer.sv:147-172, dcache_arbitrer.sv:61-69). *)
LoadsPause == []<>(arb = "IDLE" /\ ~ld_req_valid)

ThresholdDrains ==
  LoadsPause =>
    \A p \in Slots :
      (head_ptr = p /\ count >= DRAIN_THRESHOLD) ~>
        (head_ptr # p \/ count < DRAIN_THRESHOLD \/ overrun)
=============================================================================
