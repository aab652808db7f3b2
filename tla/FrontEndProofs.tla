--------------------------- MODULE FrontEndProofs ---------------------------
(***************************************************************************)
(* Proofs about FrontEnd, for every program, predictor size and choice of  *)
(* inputs.  The invariant follows the path of the program backwards from   *)
(* stage 3e: what decode will hand over next is what is due, or what the   *)
(* instruction in stage 3e is predicted to go on with, and fetch goes on   *)
(* with what the instruction in decode is predicted to go on with.         *)
(***************************************************************************)
EXTENDS FrontEnd, TLAPS

-----------------------------------------------------------------------------
(* The inductive invariant.                                                *)

(* A buffered jump squashes decode, and nothing is in flight ahead of it.  *)
PendingInv == pending_jump_valid => noop_q /\ ~InOrder3e

(* Predictor entries are those of control instructions.                    *)
BpInv == \A p \in 0 .. N_PC-1 : BpHit(p) => Targets[p] # {}

(* What the pipeline registers say of the instructions they hold.          *)
MarkInv ==
  /\ s_1f_q.nop => ~s_1f_q.pred_taken
  /\ s_1f_q.pred_taken => Targets[Word(s_1f_q.pc)] # {}
  /\ s_1f_q.valid /\ ~s_1f_q.nop /\ ~s_1f_q.xcpt => ~IsMisaligned(s_1f_q.pc)
  /\ s_2d_q.nop => ~s_2d_q.pred_taken
  /\ s_2d_q.other => ~s_2d_q.valid /\ ~s_2d_q.pred_taken
  /\ s_2d_q.valid /\ ~s_2d_q.nop => ~IsMisaligned(s_2d_q.pc)

(* Where fetch stands, where the prediction goes on after an instruction,  *)
(* and what leaves decode next.                                            *)
Front         == IF pending_jump_valid THEN pending_jump_target ELSE pc
FollowedBy(x) == IF x.pred_taken THEN x.pred_target ELSE Succ(x.pc)
Live2d        == s_1f_q.valid /\ ~s_1f_q.nop /\ ~noop_q
NextDecoded   == IF Live2d THEN s_1f_q.pc ELSE Front

FlowInv ==
  due # Nothing =>
    /\ Live2d => Front = FollowedBy(s_1f_q)
    /\ NextDecoded = IF InOrder3e THEN FollowedBy(s_2d_q) ELSE due
    /\ ExecutesProgram

IInv == TypeOK /\ PendingInv /\ BpInv /\ MarkInv /\ FlowInv /\ RaisesInOrder

-----------------------------------------------------------------------------
(* Program counters and the predictor's table.                             *)

LEMMA PcType ==
  /\ RESET \in PCs /\ MTVEC \in PCs /\ 0 \in PCs
  /\ \A p \in PCs : /\ Word(p) \in 0 .. N_PC-1 /\ Succ(p) \in PCs
                    /\ ~IsMisaligned(p) => Word(p) = p
                    /\ Targets[p] \subseteq PCs
BY ProgramAssumption DEF PCs, Word, Succ, IsMisaligned

LEMMA WordIsAligned ==
  ASSUME NEW p \in 0 .. N_PC-1
  PROVE  p \in PCs /\ Word(p) = p
<1>1. p \in PCs /\ ~IsMisaligned(p)
  BY ProgramAssumption DEF PCs, IsMisaligned
<1> QED
  BY <1>1, PcType

LEMMA BpPlace ==
  ASSUME NEW p \in PCs
  PROVE  BpIdx(p) \in 0 .. BP_N_ENTRIES-1 /\ BpTag(p) \in 0 .. N_PC \div BP_N_ENTRIES
<1>1. Word(p) \in 0 .. N_PC-1 /\ N_PC \in Nat
  BY PcType, ProgramAssumption
<1>2. BP_N_ENTRIES \in Nat \ {0}
  BY ProgramAssumption
<1>3. Word(p) \div BP_N_ENTRIES \in 0 .. N_PC \div BP_N_ENTRIES
  BY <1>1, <1>2
<1>4. Word(p) % BP_N_ENTRIES \in 0 .. BP_N_ENTRIES-1
  BY <1>1, <1>2
<1> QED
  BY <1>3, <1>4 DEF BpIdx, BpTag

LEMMA ZeroIsTag == 0 \in 0 .. N_PC \div BP_N_ENTRIES
<1>1. N_PC \in Nat /\ BP_N_ENTRIES \in Nat \ {0}
  BY ProgramAssumption
<1>2. \A n \in Nat : n \div BP_N_ENTRIES \in Nat
  BY <1>1
<1> QED
  BY <1>1, <1>2

(* Index and tag together are the address.                                 *)
LEMMA BpPlaceIsWord ==
  ASSUME NEW p \in PCs, NEW q \in PCs, BpIdx(p) = BpIdx(q), BpTag(p) = BpTag(q)
  PROVE  Word(p) = Word(q)
<1>1. Word(p) \in Nat /\ Word(q) \in Nat /\ BP_N_ENTRIES \in Nat \ {0}
  BY PcType, ProgramAssumption
<1>2. /\ Word(p) % BP_N_ENTRIES = Word(q) % BP_N_ENTRIES
      /\ Word(p) \div BP_N_ENTRIES = Word(q) \div BP_N_ENTRIES
  BY DEF BpIdx, BpTag
<1> HIDE DEF Word
<1> QED
  BY <1>1, <1>2

-----------------------------------------------------------------------------
(* The inputs of a cycle.                                                  *)

Inputs == [ready : BOOLEAN, waiting : BOOLEAN,
           hazard : {"none", "decode", "rob_full"}, trap : BOOLEAN,
           taken : BOOLEAN, target : PCs]

Possible(in) ==
  /\ ~in.taken => in.target = Succ(s_2d_q.pc)
  /\ ~is_control_3e => ~in.taken
  /\ in.trap => ~in.waiting /\ in.hazard # "rob_full"
  /\ in.trap /\ in.ready /\ pending_jump_valid => TRAP_ON_ANSWER

LEMMA NextIsStep ==
  ASSUME TypeOK, Next
  PROVE  \E in \in Inputs : Possible(in) /\ Step(in)
<1>1. PICK ready, stalled, trap \in BOOLEAN : Cycle(ready, stalled, trap)
  BY DEF Next
<1>2. PICK waiting \in BOOLEAN, hazard \in {"none", "decode", "rob_full"},
           r \in Resolutions :
        /\ trap => ~waiting /\ hazard # "rob_full"
        /\ trap /\ ready /\ pending_jump_valid => TRAP_ON_ANSWER
        /\ Step([ready |-> ready, waiting |-> waiting, hazard |-> hazard,
                 trap |-> trap, taken |-> r.taken, target |-> r.target])
  BY <1>1 DEF Cycle
<1>3. s_2d_q.pc \in PCs
  BY DEF TypeOK, Decoded
<1>4. /\ r.taken \in BOOLEAN /\ r.target \in PCs
      /\ ~r.taken => r.target = Succ(s_2d_q.pc)
      /\ ~is_control_3e => ~r.taken
  <2> DEFINE falls == [taken |-> FALSE, target |-> Succ(s_2d_q.pc)]
             goes  == [taken : {TRUE}, target : Targets[s_2d_q.pc]]
  <2>1. r = falls \/ (is_control_3e /\ r \in goes)
    BY DEF Resolutions
  <2>2. CASE r = falls
    BY <1>3, <2>2, PcType
  <2>3. CASE is_control_3e /\ r \in goes
    BY <1>3, <2>3, PcType
  <2> QED
    BY <2>1, <2>2, <2>3
<1> DEFINE in == [ready |-> ready, waiting |-> waiting, hazard |-> hazard,
                  trap |-> trap, taken |-> r.taken, target |-> r.target]
<1>5. in \in Inputs
  BY <1>4 DEF Inputs
<1>6. Possible(in)
  BY <1>2, <1>4 DEF Possible
<1> QED
  BY <1>2, <1>5, <1>6

-----------------------------------------------------------------------------
(* Types.                                                                  *)

LEMMA InitIInv == Init => IInv
<1> SUFFICES ASSUME Init PROVE IInv
  OBVIOUS
<1> USE DEF Init, NothingFetched, NothingDecoded, NoException, InOrder3e
<1>1. entries \in [0 .. BP_N_ENTRIES-1 -> BpEntry]
  <2>1. 0 \in 0 .. N_PC \div BP_N_ENTRIES
    BY ZeroIsTag
  <2> QED
    BY <2>1, PcType DEF BpEntry
<1>2. TypeOK
  BY <1>1, PcType DEF TypeOK, Fetched, Decoded
<1>3. BpInv
  BY BpPlace, ProgramAssumption DEF BpInv, BpHit, PCs
<1>4. PendingInv /\ MarkInv /\ FlowInv /\ RaisesInOrder
  BY DEF PendingInv, MarkInv, FlowInv, RaisesInOrder, NextDecoded, Live2d, Front,
         ExecutesProgram
<1> QED
  BY <1>2, <1>3, <1>4 DEF IInv

(* The predictor changes the entry of the control instruction it is told   *)
(* of, or none.                                                            *)
LEMMA BpStepIs ==
  ASSUME TypeOK, NEW in \in Inputs, BpStep(in), entries' # entries
  PROVE  /\ is_control_3e
         /\ \E e \in BpEntry :
              /\ e.tag = BpTag(s_2d_q.pc)
              /\ entries' = [entries EXCEPT ![BpIdx(s_2d_q.pc)] = e]
<1> DEFINE p == s_2d_q.pc
<1>1. p \in PCs /\ entries \in [0 .. BP_N_ENTRIES-1 -> BpEntry]
      /\ in.taken \in BOOLEAN /\ in.target \in PCs
  BY DEF TypeOK, Decoded, Inputs
<1>2. BpIdx(p) \in 0 .. BP_N_ENTRIES-1 /\ BpTag(p) \in 0 .. N_PC \div BP_N_ENTRIES
  BY <1>1, BpPlace
<1> DEFINE old  == entries[BpIdx(p)]
           new1 == [old EXCEPT !.cnt = next_cnt(old.cnt, in.taken),
                               !.target = in.target]
           new2 == [valid |-> TRUE, tag |-> BpTag(p), target |-> in.target,
                    cnt |-> IF p \in Conditional THEN 2 ELSE 3]
<1>3. old \in BpEntry
  BY <1>1, <1>2
<1>4. old.cnt \in 0 .. 3
  BY <1>3 DEF BpEntry
<1>5. next_cnt(old.cnt, in.taken) \in 0 .. 3
  BY <1>4 DEF next_cnt
<1>6. new1 \in BpEntry /\ new1.tag = old.tag
  BY <1>1, <1>3, <1>5 DEF BpEntry
<1>7. new2 \in BpEntry /\ new2.tag = BpTag(p)
  BY <1>1, <1>2 DEF BpEntry
<1>8. /\ is_control_3e
      /\ \/ BpHit(p) /\ entries' = [entries EXCEPT ![BpIdx(p)] = new1]
         \/ entries' = [entries EXCEPT ![BpIdx(p)] = new2]
  BY DEF BpStep, BpUpdated
<1>9. BpHit(p) => old.tag = BpTag(p)
  BY DEF BpHit
<1> HIDE DEF new1, new2, old, p
<1> QED
  BY <1>6, <1>7, <1>8, <1>9 DEF p

LEMMA StepType ==
  ASSUME TypeOK, NEW in \in Inputs, Step(in)
  PROVE  TypeOK'
<1>1. /\ pc \in PCs /\ pending_jump_target \in PCs /\ s_1f_q \in Fetched
      /\ s_2d_q \in Decoded /\ due \in PCs \cup {Nothing}
      /\ entries \in [0 .. BP_N_ENTRIES-1 -> BpEntry]
      /\ raised \in [pc : PCs, due : PCs \cup {Nothing}]
  BY DEF TypeOK
<1>2. in.target \in PCs /\ MTVEC \in PCs
  BY PcType DEF Inputs
<1>3. req_jump_target(in) \in PCs
  BY <1>2 DEF req_jump_target
<1>4. bp_pred_target \in PCs
  BY <1>1, PcType, BpPlace DEF bp_pred_target, bp_pred_taken, BpHit, BpEntry
<1>5. pending_jump_valid' \in BOOLEAN /\ pending_jump_target' \in PCs
  BY <1>1, <1>3 DEF Step, PendingJump
<1>6. pc' \in PCs
  BY <1>1, <1>3, <1>4, PcType DEF Step, NextPc
<1>7. noop_q' \in BOOLEAN
  BY DEF Step, Noop2d, TypeOK
<1>8. s_1f_q' \in Fetched
  <2>1. s_1f_d(in) \in Fetched
    BY <1>1, <1>4 DEF s_1f_d, Fetched, Inputs, trap_valid_1f, noop_2d, bp_pred_taken
  <2> QED
    BY <1>1, <2>1 DEF Step
<1>9. s_2d_q' \in Decoded
  <2>1. s_2d_d(in) \in Decoded
    BY <1>1, PcType DEF s_2d_d, Decoded, Fetched, NothingDecoded
  <2> QED
    BY <1>1, <2>1 DEF Step
<1>10. doomed' \in BOOLEAN
  BY DEF Step, Dooms, TypeOK
<1>11. NextDue(in) \in PCs \cup {Nothing}
  BY <1>1, <1>2 DEF NextDue
<1>12. due' \in PCs \cup {Nothing} /\ raised' \in [pc : PCs, due : PCs \cup {Nothing}]
  BY <1>1, <1>2, <1>11 DEF Step, History, Fetched
<1>13. entries' \in [0 .. BP_N_ENTRIES-1 -> BpEntry]
  BY <1>1, BpStepIs DEF Step
<1> QED
  BY <1>5, <1>6, <1>7, <1>8, <1>9, <1>10, <1>12, <1>13 DEF TypeOK

-----------------------------------------------------------------------------
(* The predictor, and what the registers say.                              *)

LEMMA BpStepInv ==
  ASSUME IInv, NEW in \in Inputs, BpStep(in)
  PROVE  BpInv'
<1> DEFINE p == s_2d_q.pc
<1>1. p \in PCs /\ entries \in [0 .. BP_N_ENTRIES-1 -> BpEntry]
  BY DEF IInv, TypeOK, Decoded
<1>2. CASE entries' = entries
  BY <1>2 DEF IInv, BpInv, BpHit
<1>3. CASE entries' # entries
  <2>1. /\ is_control_3e
        /\ \E e \in BpEntry : /\ e.tag = BpTag(p)
                             /\ entries' = [entries EXCEPT ![BpIdx(p)] = e]
    BY <1>3, BpStepIs DEF IInv
  <2>2. Targets[p] # {} /\ Word(p) = p /\ p \in 0 .. N_PC-1
    BY <1>1, <2>1, PcType DEF is_control_3e, IInv, MarkInv, IsMisaligned, PCs
  <2> SUFFICES ASSUME NEW q \in 0 .. N_PC-1, BpHit(q)'
               PROVE  Targets[q] # {}
    BY DEF BpInv
  <2>3. q \in PCs /\ Word(q) = q
    BY WordIsAligned
  <2>4. CASE BpIdx(q) = BpIdx(p)
    <3>1. BpTag(q) = BpTag(p)
      BY <1>1, <2>1, <2>3, <2>4, BpPlace DEF BpHit
    <3> QED
      BY <1>1, <2>2, <2>3, <2>4, <3>1, BpPlaceIsWord
  <2>5. CASE BpIdx(q) # BpIdx(p)
    <3>1. BpHit(q)
      BY <1>1, <2>1, <2>3, <2>5, BpPlace DEF BpHit
    <3> QED
      BY <3>1 DEF IInv, BpInv
  <2> QED
    BY <2>4, <2>5
<1> QED
  BY <1>2, <1>3

(* A prediction to jump is for a control instruction.                      *)
LEMMA PredictsControl ==
  ASSUME IInv, bp_pred_taken
  PROVE  Targets[Word(pc)] # {}
<1>1. Word(pc) \in 0 .. N_PC-1 /\ Word(Word(pc)) = Word(pc)
  BY PcType, WordIsAligned DEF IInv, TypeOK
<1>2. BpHit(Word(pc))
  BY <1>1 DEF bp_pred_taken, BpHit, BpIdx, BpTag
<1> QED
  BY <1>1, <1>2 DEF IInv, BpInv

LEMMA StepMarks ==
  ASSUME IInv, NEW in \in Inputs, Possible(in), Step(in)
  PROVE  MarkInv' /\ PendingInv'
<1>1. /\ s_1f_q' = IF stall_2d(in) THEN s_1f_q ELSE s_1f_d(in)
      /\ s_2d_q' = IF in.waiting THEN s_2d_q ELSE s_2d_d(in)
      /\ Noop2d(in) /\ PendingJump(in)
  BY DEF Step
<1>2. MarkInv /\ PendingInv /\ s_1f_q.pc \in PCs
  BY DEF IInv, TypeOK, Fetched
<1>3. /\ s_1f_q'.nop => ~s_1f_q'.pred_taken
      /\ s_1f_q'.pred_taken => Targets[Word(s_1f_q'.pc)] # {}
      /\ s_1f_q'.valid /\ ~s_1f_q'.nop /\ ~s_1f_q'.xcpt => ~IsMisaligned(s_1f_q'.pc)
  <2>1. CASE stall_2d(in)
    BY <1>1, <1>2, <2>1 DEF MarkInv
  <2>2. CASE ~stall_2d(in)
    BY <1>1, <2>2, PredictsControl DEF s_1f_d, noop_2d, trap_valid_1f
  <2> QED
    BY <2>1, <2>2
<1>4. /\ s_2d_q'.nop => ~s_2d_q'.pred_taken
      /\ s_2d_q'.other => ~s_2d_q'.valid /\ ~s_2d_q'.pred_taken
      /\ s_2d_q'.valid /\ ~s_2d_q'.nop => ~IsMisaligned(s_2d_q'.pc)
  <2>1. CASE in.waiting
    BY <1>1, <1>2, <2>1 DEF MarkInv
  <2>2. CASE ~in.waiting /\ Decodes(in) /\ ~xcpt_2d(in)
    <3> DEFINE other == ~s_1f_q.nop /\ s_1f_q.pc \in OtherUnit
    <3>1. s_2d_q' = [valid |-> ~other, other |-> other, nop |-> s_1f_q.nop,
                     pc |-> s_1f_q.pc, pred_taken |-> s_1f_q.pred_taken,
                     pred_target |-> s_1f_q.pred_target]
      BY <1>1, <2>2 DEF s_2d_d
    <3>2. s_1f_q.valid /\ ~s_1f_q.xcpt
      BY <2>2 DEF Decodes, xcpt_2d
    <3>3. other => ~s_1f_q.pred_taken
      BY <1>2, <3>2, PcType, ProgramAssumption DEF MarkInv
    <3> QED
      BY <1>2, <3>1, <3>2, <3>3 DEF MarkInv
  <2>3. CASE ~in.waiting /\ ~(Decodes(in) /\ ~xcpt_2d(in))
    BY <1>1, <2>3 DEF s_2d_d, NothingDecoded
  <2> QED
    BY <2>1, <2>2, <2>3
<1>5. PendingInv'
  <2> SUFFICES ASSUME pending_jump_valid' PROVE noop_q' /\ ~InOrder3e'
    BY DEF PendingInv
  <2>1. ~in.ready /\ stall_2d(in) /\ (req_jump_valid(in) \/ pending_jump_valid)
    BY <1>1 DEF PendingJump, stall_2d
  <2>2. noop_q'
    BY <1>1, <2>1 DEF Noop2d, noop_2d, req_jump_valid
  <2>3. ~InOrder3e'
    <3>1. CASE in.waiting
      <4>1. pending_jump_valid
        BY <2>1, <3>1 DEF req_jump_valid, misprediction, valid_3e, Possible
      <4> QED
        BY <1>1, <1>2, <3>1, <4>1 DEF InOrder3e, PendingInv
    <3>2. CASE ~in.waiting
      <4>1. s_2d_q' = NothingDecoded
        BY <1>1, <2>1, <3>2 DEF s_2d_d, Decodes
      <4> QED
        BY <4>1 DEF NothingDecoded, InOrder3e
    <3> QED
      BY <3>1, <3>2
  <2> QED
    BY <2>2, <2>3
<1> QED
  BY <1>3, <1>4, <1>5 DEF MarkInv

-----------------------------------------------------------------------------
(* The path of the program.                                                *)

(* A jump that is asked for squashes what is in flight, and fetch goes on  *)
(* at its target, now or when the cache has answered.                      *)
LEMMA JumpTaken ==
  ASSUME IInv, ~TRAP_ON_ANSWER, NEW in \in Inputs, Possible(in), Step(in),
         req_jump_valid(in)
  PROVE  ~Live2d' /\ ~InOrder3e' /\ Front' = req_jump_target(in)
<1>1. ~in.waiting /\ noop_2d(in) /\ ~(pending_jump_valid /\ in.ready)
  BY DEF req_jump_valid, Possible, misprediction, valid_3e, noop_2d, IInv, PendingInv,
         InOrder3e, is_control_3e, MarkInv
<1>2. s_2d_q' = NothingDecoded
  BY <1>1 DEF Step, s_2d_d, Decodes, Squashed
<1>3. ~Live2d'
  BY <1>1 DEF Live2d, Step, Noop2d, s_1f_d
<1>4. Front' = req_jump_target(in)
  BY <1>1 DEF Front, Step, PendingJump, NextPc
<1> QED
  BY <1>2, <1>3, <1>4 DEF NothingDecoded, InOrder3e

(* Without a jump, a stalled front end stands still.                       *)
LEMMA StallKeeps ==
  ASSUME IInv, NEW in \in Inputs, Step(in), ~req_jump_valid(in), stall_2d(in)
  PROVE  /\ s_1f_q' = s_1f_q /\ (Live2d' <=> Live2d)
         /\ Front' = Front /\ NextDecoded' = NextDecoded
<1>1. s_1f_q' = s_1f_q
  BY DEF Step
<1>2. noop_q' <=> noop_q
  BY DEF Step, Noop2d, noop_2d, req_jump_valid, IInv, PendingInv
<1>3. Front' = Front
  BY DEF Front, Step, PendingJump, NextPc
<1> QED
  BY <1>1, <1>2, <1>3 DEF Live2d, NextDecoded

(* What is due after the instruction in stage 3e, once it has resolved.    *)
LEMMA Resolves ==
  ASSUME IInv, NEW in \in Inputs, Possible(in), due # Nothing, ~in.trap, ~in.waiting
  PROVE  NextDue(in) = IF misprediction(in) THEN in.target ELSE NextDecoded
<1>1. FlowInv /\ MarkInv
  BY DEF IInv
<1>2. CASE misprediction(in)
  BY <1>1, <1>2
     DEF misprediction, valid_3e, NextDue, InOrder3e, MarkInv, is_control_3e
<1>3. CASE ~misprediction(in) /\ ~InOrder3e
  BY <1>1, <1>3 DEF NextDue, FlowInv
<1>4. CASE ~misprediction(in) /\ InOrder3e
  <2>1. in.target = FollowedBy(s_2d_q)
    <3>1. CASE s_2d_q.pred_taken
      BY <1>1, <1>4, <3>1 DEF InOrder3e, MarkInv, misprediction, valid_3e, FollowedBy
    <3>2. CASE ~s_2d_q.pred_taken
      <4>1. ~in.taken
        BY <1>1, <1>4, <3>2
           DEF InOrder3e, MarkInv, misprediction, valid_3e, Possible, is_control_3e,
               Inputs
      <4> QED
        BY <3>2, <4>1 DEF Possible, FollowedBy
    <3> QED
      BY <3>1, <3>2
  <2> QED
    BY <1>1, <1>4, <2>1 DEF NextDue, FlowInv
<1> QED
  BY <1>2, <1>3, <1>4

LEMMA StepRaises ==
  ASSUME IInv, NEW in \in Inputs, Possible(in), Step(in)
  PROVE  RaisesInOrder'
<1>1. CASE raised' = raised
  BY <1>1 DEF IInv, RaisesInOrder
<1>2. CASE raised' # raised
  <2>1. /\ raised' = [pc |-> s_1f_q.pc, due |-> NextDue(in)]
        /\ Raises(in) /\ ~s_1f_q.xcpt
    BY <1>2 DEF Step, History
  <2>2. Decodes(in) /\ ~s_1f_q.nop
    BY <2>1 DEF Raises, xcpt_2d
  <2>3. Live2d /\ ~misprediction(in) /\ ~in.waiting /\ ~in.trap
    BY <2>2 DEF Decodes, Squashed, noop_2d, stall_2d, Live2d
  <2>4. due # Nothing => NextDue(in) = s_1f_q.pc
    BY <2>3, Resolves DEF NextDecoded
  <2>5. due = Nothing => NextDue(in) = Nothing
    BY DEF NextDue
  <2> QED
    BY <2>1, <2>4, <2>5 DEF RaisesInOrder
<1> QED
  BY <1>1, <1>2

LEMMA StepFlow ==
  ASSUME IInv, ~TRAP_ON_ANSWER, NEW in \in Inputs, Possible(in), Step(in)
  PROVE  FlowInv'
<1> SUFFICES ASSUME due' # Nothing PROVE FlowInv'
  BY DEF FlowInv
<1> USE DEF ExecutesProgram
<1>1. in.trap \/ (~Raises(in) /\ due # Nothing /\ due' = NextDue(in))
  BY DEF Step, History, NextDue
<1>2. CASE req_jump_valid(in)
  <2>1. due' = req_jump_target(in)
    <3>1. CASE in.trap
      BY <3>1 DEF Step, History, req_jump_target
    <3>2. CASE ~in.trap
      <4>1. misprediction(in) /\ ~in.waiting
        BY <1>2, <3>2 DEF req_jump_valid, misprediction, valid_3e
      <4> QED
        BY <1>1, <3>2, <4>1, Resolves DEF req_jump_target
    <3> QED
      BY <3>1, <3>2
  <2> QED
    BY <1>2, <2>1, JumpTaken DEF FlowInv, NextDecoded
<1>3. CASE ~req_jump_valid(in) /\ in.waiting
  <2>1. due' = due /\ s_2d_q' = s_2d_q
    BY <1>1, <1>3 DEF NextDue, req_jump_valid, Step
  <2>2. stall_2d(in)
    BY <1>3 DEF stall_2d
  <2> QED
    BY <1>1, <1>3, <2>1, <2>2, StallKeeps
       DEF IInv, FlowInv, InOrder3e, req_jump_valid, FollowedBy
<1>4. ~req_jump_valid(in) /\ ~in.waiting =>
        due # Nothing /\ ~Raises(in) /\ due' = NextDecoded
  BY <1>1, Resolves DEF req_jump_valid
<1>5. CASE ~req_jump_valid(in) /\ ~in.waiting /\ stall_2d(in)
  <2>1. ~InOrder3e'
    <3>1. s_2d_q' = NothingDecoded
      BY <1>5 DEF Step, s_2d_d, Decodes
    <3> QED
      BY <3>1 DEF NothingDecoded, InOrder3e
  <2> QED
    BY <1>4, <1>5, <2>1, StallKeeps DEF IInv, FlowInv, FollowedBy
<1>6. CASE ~req_jump_valid(in) /\ ~stall_2d(in)
  <2>1. /\ in.ready /\ ~in.waiting /\ in.hazard = "none" /\ ~in.trap
        /\ ~misprediction(in)
    BY <1>6 DEF stall_2d, req_jump_valid
  <2>2. /\ s_1f_q' = s_1f_d(in) /\ ~noop_q' /\ ~pending_jump_valid'
        /\ s_2d_q' = s_2d_d(in)
    BY <1>6, <2>1 DEF Step, Noop2d, PendingJump
  <2>3. CASE pending_jump_valid
    <3>1. noop_2d(in) /\ ~Live2d
      BY <2>3 DEF noop_2d, IInv, PendingInv, Live2d
    <3>2. ~Live2d'
      BY <2>2, <3>1 DEF Live2d, s_1f_d
    <3>3. ~InOrder3e'
      BY <2>2, <3>1 DEF s_2d_d, Decodes, Squashed, NothingDecoded, InOrder3e
    <3>4. Front' = Front
      BY <2>1, <2>2, <2>3 DEF Front, Step, NextPc
    <3> QED
      BY <1>4, <1>6, <2>1, <3>1, <3>2, <3>3, <3>4 DEF FlowInv, NextDecoded
  <2>4. CASE ~pending_jump_valid
    <3>1. ~noop_2d(in) /\ Front = pc
      BY <2>1, <2>4 DEF noop_2d, Front
    <3>2. /\ Live2d' /\ s_1f_q'.pc = pc /\ NextDecoded' = pc
          /\ s_1f_q'.pred_taken <=> bp_pred_taken
          /\ s_1f_q'.pred_target = bp_pred_target
      <4>1. /\ s_1f_q'.valid /\ ~s_1f_q'.nop /\ s_1f_q'.pc = pc
            /\ s_1f_q'.pred_taken <=> bp_pred_taken
            /\ s_1f_q'.pred_target = bp_pred_target
        BY <2>1, <2>2, <3>1 DEF s_1f_d
      <4> QED
        BY <2>2, <4>1 DEF Live2d, NextDecoded
    <3>3. Front' = FollowedBy(s_1f_q')
      BY <1>6, <2>1, <2>2, <2>4, <3>2 DEF Front, FollowedBy, Step, NextPc
    <3>4. CASE Live2d
      <4>1. Decodes(in) /\ ~xcpt_2d(in) /\ ~s_1f_q.nop
        BY <1>4, <1>6, <2>1, <3>1, <3>4 DEF Live2d, Decodes, Squashed, Raises
      <4>2. /\ InOrder3e' /\ s_2d_q'.pc = s_1f_q.pc
            /\ s_2d_q'.pred_taken = s_1f_q.pred_taken
            /\ s_2d_q'.pred_target = s_1f_q.pred_target
        BY <2>2, <4>1 DEF s_2d_d, InOrder3e
      <4>3. pc = FollowedBy(s_1f_q)
        BY <1>4, <1>6, <2>1, <3>1, <3>4 DEF IInv, FlowInv
      <4> QED
        BY <1>4, <1>6, <2>1, <3>2, <3>3, <3>4, <4>2, <4>3
           DEF FlowInv, NextDecoded, FollowedBy
    <3>5. CASE ~Live2d
      <4>1. ~InOrder3e'
        BY <2>2, <3>1, <3>5
           DEF s_2d_d, Decodes, Squashed, Live2d, NothingDecoded, InOrder3e
      <4> QED
        BY <1>4, <1>6, <2>1, <3>1, <3>2, <3>3, <3>5, <4>1 DEF FlowInv, NextDecoded
    <3> QED
      BY <3>4, <3>5
  <2> QED
    BY <2>3, <2>4
<1> QED
  BY <1>2, <1>3, <1>5, <1>6

-----------------------------------------------------------------------------
(* Theorems.                                                               *)

(* Every variable keeps its type: the predictor's counters saturate, and   *)
(* no step leaves the program.                                             *)
THEOREM TypeCorrect == Spec => []TypeOK
<1>1. Init => TypeOK
  BY InitIInv DEF IInv
<1>2. TypeOK /\ [Next]_fevars => TypeOK'
  <2>1. TypeOK /\ Next => TypeOK'
    BY NextIsStep, StepType
  <2>2. TypeOK /\ UNCHANGED fevars => TypeOK'
    BY DEF TypeOK, fevars
  <2> QED
    BY <2>1, <2>2
<1> QED
  BY <1>1, <1>2, PTL DEF Spec

LEMMA NextIInv ==
  ASSUME ~TRAP_ON_ANSWER, IInv, [Next]_fevars
  PROVE  IInv'
<1>1. CASE Next
  <2>1. PICK in \in Inputs : Possible(in) /\ Step(in)
    BY <1>1, NextIsStep DEF IInv
  <2>2. TypeOK'
    BY <2>1, StepType DEF IInv
  <2>3. BpInv'
    BY <2>1, BpStepInv DEF Step
  <2>4. MarkInv' /\ PendingInv'
    BY <2>1, StepMarks
  <2>5. FlowInv' /\ RaisesInOrder'
    BY <2>1, StepFlow, StepRaises
  <2> QED
    BY <2>2, <2>3, <2>4, <2>5 DEF IInv
<1>2. CASE UNCHANGED fevars
  BY <1>2 DEF fevars, IInv, TypeOK, PendingInv, BpInv, BpHit, MarkInv, FlowInv,
              RaisesInOrder, NextDecoded, Live2d, Front, FollowedBy, ExecutesProgram,
              InOrder3e
<1> QED
  BY <1>1, <1>2

LEMMA Invariance == ~TRAP_ON_ANSWER => (Spec => []IInv)
<1> SUFFICES ASSUME ~TRAP_ON_ANSWER PROVE Spec => []IInv
  OBVIOUS
<1>1. IInv /\ [Next]_fevars => IInv'
  BY NextIInv
<1> QED
  BY <1>1, InitIInv, PTL DEF Spec

(* Without a trap in the cycle in which the answer a buffered jump waits   *)
(* for arrives (stage_1f keeps the jump and drops the trap then, as the    *)
(* run lost_trap shows), the execute stages receive the program's path.  *)
THEOREM ExecutesProgramInvariant == ~TRAP_ON_ANSWER => (Spec => []ExecutesProgram)
<1> SUFFICES ASSUME ~TRAP_ON_ANSWER PROVE Spec => []ExecutesProgram
  OBVIOUS
<1>1. IInv => ExecutesProgram
  BY DEF IInv, FlowInv, ExecutesProgram
<1> QED
  BY <1>1, Invariance, PTL

(* Under the same condition, decode refuses only an instruction that the   *)
(* program has come to.                                                    *)
THEOREM RaisesInOrderInvariant == ~TRAP_ON_ANSWER => (Spec => []RaisesInOrder)
<1> SUFFICES ASSUME ~TRAP_ON_ANSWER PROVE Spec => []RaisesInOrder
  OBVIOUS
<1>1. IInv => RaisesInOrder
  BY DEF IInv
<1> QED
  BY <1>1, Invariance, PTL
=============================================================================
