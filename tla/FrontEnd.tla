------------------------------ MODULE FrontEnd ------------------------------
(***************************************************************************)
(* The in-order front end of Gandul (rtl/gandul/gandul.sv): the program    *)
(* counter, the branch predictor (rtl/common/branch_predictor.sv), the     *)
(* jump buffered while the instruction cache is busy, the pipeline         *)
(* registers into decode (s_1f_q) and execute (s_2d_q), and the squashing  *)
(* of instructions fetched from a path that is not taken.                  *)
(*                                                                         *)
(* One step is one clock cycle.  Inputs of a cycle: whether the            *)
(* instruction cache answers, how the instruction in stage 3e resolves,    *)
(* why the pipeline stalls, and whether the reorder buffer commits an      *)
(* exception.  A pc counts instructions: 0 .. N_PC-1 are aligned addresses,*)
(* N_PC + p is the misaligned address half an instruction after p.         *)
(***************************************************************************)
EXTENDS Integers

CONSTANTS
  N_PC,            \* the program's instructions are at 0 .. N_PC-1
  RESET, MTVEC,    \* where execution starts, and where it traps to
  Targets,         \* [pc -> where its jump or branch may go, {} if neither]
  Conditional,     \* the control instructions that may fall through
  OtherUnit,       \* instructions for the muldiv and CSR units
  Illegal,         \* instructions decode refuses
  BP_N_ENTRIES,    \* branch predictor entries
  TRAP_ON_ANSWER   \* TRUE: a trap may meet the answer a buffered jump awaits

PCs == 0 .. 2*N_PC-1

IsMisaligned(p) == p >= N_PC
Word(p) == p % N_PC

Succ(p) == IF IsMisaligned(p) THEN N_PC + Word(p + 1) ELSE Word(p + 1)

ASSUME ProgramAssumption ==
  /\ N_PC \in Nat \ {0} /\ {RESET, MTVEC} \subseteq PCs
  /\ Targets \in [PCs -> SUBSET PCs]
  /\ \A p \in Conditional : p \in PCs /\ Targets[p] # {}
  /\ {OtherUnit, Illegal} \subseteq SUBSET (0 .. N_PC-1)
  /\ \A p \in OtherUnit : Targets[p] = {}
  /\ BP_N_ENTRIES \in Nat \ {0}
ASSUME TrapAssumption == TRAP_ON_ANSWER \in BOOLEAN

VARIABLES
  pc, pending_jump_valid, pending_jump_target,
  s_1f_q, noop_q,   \* stage 2d's input, and that it has been squashed
  s_2d_q,           \* stage 3e's input
  entries,          \* the branch predictor's
  doomed,           \* an instruction in the back end excepts
  due,              \* history: see below
  raised            \* history: the last illegal instruction refused

fevars == <<pc, pending_jump_valid, pending_jump_target, s_1f_q, noop_q,
            s_2d_q, entries, doomed, due, raised>>

(* due is what the program executes: the instruction stage 3e should hold, *)
(* or, if it holds none, the next it should get.  After stage 2d has       *)
(* raised an exception nothing is, until the trap squashes what follows.   *)
Nothing == 2*N_PC

Fetched == [valid : BOOLEAN, nop : BOOLEAN, pc : PCs, xcpt : BOOLEAN,
            pred_taken : BOOLEAN, pred_target : PCs]
Decoded == [valid : BOOLEAN, other : BOOLEAN, nop : BOOLEAN, pc : PCs,
            pred_taken : BOOLEAN, pred_target : PCs]

NothingFetched == [valid |-> FALSE, nop |-> FALSE, pc |-> 0, xcpt |-> FALSE,
                   pred_taken |-> FALSE, pred_target |-> 0]
NothingDecoded == [valid |-> FALSE, other |-> FALSE, nop |-> FALSE, pc |-> 0,
                   pred_taken |-> FALSE, pred_target |-> 0]
NoException == [pc |-> 0, due |-> 0]

-----------------------------------------------------------------------------
(* The branch predictor: a table indexed by the low bits of the pc and     *)
(* tagged with the others, but for the two lowest; a target and a two-bit  *)
(* counter per entry.                                                      *)

BpIdx(p) == Word(p) % BP_N_ENTRIES
BpTag(p) == Word(p) \div BP_N_ENTRIES

BpEntry == [valid : BOOLEAN, tag : 0 .. N_PC \div BP_N_ENTRIES, target : PCs,
            cnt : 0 .. 3]

(* Mutant: the tag is not compared.                                        *)
HitUntagged(p) == entries[BpIdx(p)].valid
BpHit(p) == entries[BpIdx(p)].valid /\ entries[BpIdx(p)].tag = BpTag(p)

bp_pred_taken  == BpHit(pc) /\ entries[BpIdx(pc)].cnt >= 2
bp_pred_target == IF bp_pred_taken THEN entries[BpIdx(pc)].target ELSE Succ(pc)

next_cnt(cnt, taken) ==
  IF taken THEN IF cnt < 3 THEN cnt + 1 ELSE 3
           ELSE IF cnt > 0 THEN cnt - 1 ELSE 0

(* Mutant: the counter does not saturate.                                  *)
CountsPastTop(p, taken, target) ==
  LET old == entries[BpIdx(p)]
  IN [entries EXCEPT ![BpIdx(p)] =
        [valid |-> TRUE, tag |-> BpTag(p), target |-> target,
         cnt |-> IF BpHit(p) /\ taken THEN old.cnt + 1 ELSE 2]]

(* An entry is made only for a control instruction that was taken; the     *)
(* target is rewritten, with the next pc, when it is not.                  *)
BpUpdated(p, taken, target) ==
  LET old == entries[BpIdx(p)]
  IN IF BpHit(p)
     THEN [entries EXCEPT ![BpIdx(p)] =
             [old EXCEPT !.cnt = next_cnt(old.cnt, taken), !.target = target]]
     ELSE IF taken
     THEN [entries EXCEPT ![BpIdx(p)] =
             [valid |-> TRUE, tag |-> BpTag(p), target |-> target,
              cnt |-> IF p \in Conditional THEN 2 ELSE 3]]
     ELSE entries

-----------------------------------------------------------------------------
(* A cycle's inputs: in is [ready, waiting, hazard, trap, taken, target].  *)
(* hazard says whether decode stalls, for an operand or a place in the     *)
(* store buffer, or because the reorder buffer is full.                    *)

is_control_3e == s_2d_q.valid /\ ~s_2d_q.nop /\ Targets[s_2d_q.pc] # {}

(* How the instruction in stage 3e may resolve.                            *)
Resolutions ==
  IF ~is_control_3e THEN {[taken |-> FALSE, target |-> Succ(s_2d_q.pc)]}
  ELSE [taken : {TRUE}, target : Targets[s_2d_q.pc]] \cup
       (IF s_2d_q.pc \in Conditional
        THEN {[taken |-> FALSE, target |-> Succ(s_2d_q.pc)]} ELSE {})

valid_3e(in) == s_2d_q.valid /\ ~in.trap /\ ~in.waiting

misprediction(in) ==
  /\ valid_3e(in)
  /\ IF is_control_3e
     THEN \/ s_2d_q.pred_taken # in.taken
          \/ s_2d_q.pred_taken /\ s_2d_q.pred_target # in.target
     ELSE s_2d_q.pred_taken

BpStep(in) ==
  entries' = IF is_control_3e /\ valid_3e(in)
             THEN BpUpdated(s_2d_q.pc, in.taken, in.target) ELSE entries

req_jump_valid(in)  == in.trap \/ misprediction(in)
req_jump_target(in) == IF in.trap THEN MTVEC ELSE in.target

stall_2d(in) == in.waiting \/ ~in.ready \/ in.hazard # "none"  \* stall_1f too
noop_2d(in)  == misprediction(in) \/ in.trap \/ pending_jump_valid
                                                          \* noop_1f too

-----------------------------------------------------------------------------
(* Stage 1f.                                                               *)

PendingJump(in) ==
  /\ pending_jump_valid' = (~in.ready /\ (req_jump_valid(in) \/ pending_jump_valid))
  /\ pending_jump_target' =
       IF ~in.ready /\ req_jump_valid(in) THEN req_jump_target(in)
                                          ELSE pending_jump_target

NextPc(in) ==
  pc' = CASE ~in.ready -> pc
          [] in.ready /\ pending_jump_valid -> pending_jump_target
          [] in.ready /\ ~pending_jump_valid /\ req_jump_valid(in) ->
               req_jump_target(in)
          [] OTHER -> IF stall_2d(in) THEN pc
                      ELSE IF bp_pred_taken THEN bp_pred_target ELSE Succ(pc)

trap_valid_1f(in) ==
  IsMisaligned(pc) /\ in.ready /\ ~misprediction(in) /\ ~pending_jump_valid

s_1f_d(in) ==
  [valid |-> in.ready, nop |-> noop_2d(in), pc |-> pc,
   xcpt |-> trap_valid_1f(in),
   pred_taken |-> bp_pred_taken /\ ~noop_2d(in),
   pred_target |-> bp_pred_target]

-----------------------------------------------------------------------------
(* Stage 2d.                                                               *)

Squashed(in) == noop_2d(in) \/ noop_q

(* Mutant: a squash is never lifted.                                       *)
SquashesForEver(in) == noop_q' = (noop_q \/ (stall_2d(in) /\ noop_2d(in)))

Noop2d(in) ==
  noop_q' = IF stall_2d(in) THEN noop_q \/ noop_2d(in) ELSE FALSE

Decodes(in) == s_1f_q.valid /\ ~Squashed(in) /\ ~stall_2d(in)

(* Mutant: a squashed illegal instruction excepts.                         *)
IllegalWhileSquashed(in) ==
  \/ s_1f_q.valid /\ ~stall_2d(in) /\ ~s_1f_q.nop /\ s_1f_q.pc \in Illegal
  \/ s_1f_q.xcpt

xcpt_2d(in) ==
  \/ Decodes(in) /\ ~s_1f_q.nop /\ s_1f_q.pc \in Illegal
  \/ s_1f_q.xcpt

(* An instruction for another unit leaves a bubble in stage 3e's input;    *)
(* other records that decode has dispatched it.                            *)
s_2d_d(in) ==
  LET other == ~s_1f_q.nop /\ s_1f_q.pc \in OtherUnit
  IN
  IF Decodes(in) /\ ~xcpt_2d(in)
  THEN [valid |-> ~other, other |-> other, nop |-> s_1f_q.nop, pc |-> s_1f_q.pc,
        pred_taken |-> s_1f_q.pred_taken, pred_target |-> s_1f_q.pred_target]
  ELSE NothingDecoded

-----------------------------------------------------------------------------
(* The program's own order.                                                *)

InOrder3e == s_2d_q.other \/ (s_2d_q.valid /\ ~s_2d_q.nop)

(* What follows the instruction in stage 3e, once that is known.           *)
NextDue(in) ==
  IF InOrder3e /\ ~in.trap /\ ~in.waiting /\ due # Nothing
  THEN in.target ELSE due

Raises(in) == xcpt_2d(in) /\ in.hazard # "rob_full" /\ ~in.trap

History(in) ==
  /\ due' = IF in.trap THEN MTVEC
            ELSE IF Raises(in) THEN Nothing ELSE NextDue(in)
  /\ raised' = IF Raises(in) /\ ~s_1f_q.xcpt
               THEN [pc |-> s_1f_q.pc, due |-> NextDue(in)] ELSE raised

(* Any instruction the back end receives may turn out to except there.     *)
Dooms(in) ==
  doomed' \in IF in.trap THEN {FALSE}
              ELSE IF Raises(in) THEN {TRUE}
              ELSE IF Decodes(in) /\ ~xcpt_2d(in) /\ ~s_1f_q.nop
              THEN {doomed, TRUE}
              ELSE {doomed}

-----------------------------------------------------------------------------
Init ==
  /\ pc = RESET
  /\ pending_jump_valid = FALSE /\ pending_jump_target = 0
  /\ s_1f_q = NothingFetched /\ noop_q = FALSE
  /\ s_2d_q = NothingDecoded
  /\ entries = [i \in 0 .. BP_N_ENTRIES-1 |->
                  [valid |-> FALSE, tag |-> 0, target |-> 0, cnt |-> 0]]
  /\ doomed = FALSE /\ due = RESET /\ raised = NoException

Step(in) ==
  /\ PendingJump(in)
  /\ NextPc(in)
  /\ s_1f_q' = IF stall_2d(in) THEN s_1f_q ELSE s_1f_d(in)
  /\ Noop2d(in)
  /\ s_2d_q' = IF in.waiting THEN s_2d_q ELSE s_2d_d(in)
  /\ BpStep(in)
  /\ History(in)
  /\ Dooms(in)

(* The reorder buffer traps on an instruction it holds, and not while      *)
(* stage 4m waits for memory.  A misaligned request needs no answer.       *)
Cycle(ready, stalled, trap) ==
  \E waiting \in BOOLEAN, hazard \in {"none", "decode", "rob_full"},
     r \in Resolutions :
    /\ IsMisaligned(pc) => ready
    /\ (waiting \/ hazard # "none") = stalled
    /\ trap => doomed /\ ~waiting /\ hazard # "rob_full"
    /\ trap /\ ready /\ pending_jump_valid => TRAP_ON_ANSWER
    /\ Step([ready |-> ready, waiting |-> waiting, hazard |-> hazard,
             trap |-> trap, taken |-> r.taken, target |-> r.target])

Next == \E ready, stalled, trap \in BOOLEAN : Cycle(ready, stalled, trap)

(* The instruction cache answers, and nothing stalls, infinitely often in  *)
(* the same cycle: the back end does not depend on the front end to drain. *)
(* An instruction that excepts is the oldest sooner or later.              *)
Unhindered == \E trap \in BOOLEAN : Cycle(TRUE, FALSE, trap)
Traps      == \E ready, stalled \in BOOLEAN : Cycle(ready, stalled, TRUE)

Spec == Init /\ [][Next]_fevars
FairSpec == Spec /\ WF_fevars(Unhindered) /\ WF_fevars(Traps)

-----------------------------------------------------------------------------
(* Properties.                                                             *)

TypeOK ==
  /\ pc \in PCs
  /\ pending_jump_valid \in BOOLEAN /\ pending_jump_target \in PCs
  /\ s_1f_q \in Fetched /\ noop_q \in BOOLEAN
  /\ s_2d_q \in Decoded
  /\ entries \in [0 .. BP_N_ENTRIES-1 -> BpEntry]
  /\ doomed \in BOOLEAN /\ due \in PCs \cup {Nothing}
  /\ raised \in [pc : PCs, due : PCs \cup {Nothing}]

(* The execute stages receive exactly the instructions of the path the     *)
(* program takes, in order: none skipped, none twice, none of an abandoned *)
(* path, the trap handler after a trap, whatever was predicted and however *)
(* long the instruction cache takes (gandul.sv:93-98, 278-323, 689-706).   *)
ExecutesProgram == InOrder3e /\ due # Nothing => s_2d_q.pc = due

(* Decode refuses only an illegal instruction that is due, never one of an *)
(* abandoned path (stage_2d.sv:76; an exception of fetch does not wait to  *)
(* be told, see the README).                                               *)
RaisesInOrder == raised.due # Nothing => raised.pc = raised.due

(* The front end never squashes itself for ever: instructions of the       *)
(* program keep reaching stage 3e.                                         *)
FetchProgresses == []<>InOrder3e
=============================================================================
