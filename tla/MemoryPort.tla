----------------------------- MODULE MemoryPort -----------------------------
(***************************************************************************)
(* The one memory port of the core: the arbiter between the two caches     *)
(* (rtl/common/memory_arbitrer.sv), the delay line that says when memory   *)
(* has answered (valid_delayer.sv) and the memory (sram.sv), as the test   *)
(* bench connects them (tb/gandul/tb_anyrom.sv:33-51).  An answer carries  *)
(* no owner: it goes to whom the arbiter serves when it comes.             *)
(***************************************************************************)
EXTENDS Integers

CONSTANT DELAYER_LEN

ASSUME DelayAssumption == DELAYER_LEN \in Nat \ {0}

VARIABLES
  arb,     \* the arbiter's state
  delay,   \* the place of the one set bit of valid_queue, 0 for none
  mem      \* line -> data

portvars == <<arb, delay, mem>>

PortInit == arb = "IDLE" /\ delay = 0

(* Mutant: the data cache may interrupt the instruction cache.             *)
serves_d_always(dfreq) == dfreq.valid
serves_d(dfreq) == arb = "SERVING_D" \/ (arb = "IDLE" /\ dfreq.valid)
serves_i(dfreq, ifreq) ==
  arb = "SERVING_I" \/ (arb = "IDLE" /\ ~dfreq.valid /\ ifreq.valid)

mem_valid_o(dfreq, ifreq) == serves_d(dfreq) \/ serves_i(dfreq, ifreq)
mem_valid_i == delay = DELAYER_LEN

(* Mutants: an answer goes to whoever has asked.                           *)
AnswersBothD(dfreq)        == dfreq.valid /\ mem_valid_i
AnswersBothI(dfreq, ifreq) == ifreq.valid /\ mem_valid_i

dc_frsp_valid(dfreq)        == serves_d(dfreq) /\ mem_valid_i
ic_frsp_valid(dfreq, ifreq) == serves_i(dfreq, ifreq) /\ mem_valid_i

(* What is asked of memory, and what memory returns.                       *)
mem_req(dfreq, ifreq) == IF serves_d(dfreq) THEN dfreq ELSE ifreq
mem_data_i(dfreq, ifreq) == mem[mem_req(dfreq, ifreq).line]

ArbStep(dfreq, ifreq) ==
  arb' = CASE arb = "IDLE" /\ dfreq.valid -> "SERVING_D"
           [] arb = "IDLE" /\ ~dfreq.valid /\ ifreq.valid -> "SERVING_I"
           [] arb # "IDLE" /\ mem_valid_i -> "IDLE"
           [] OTHER -> arb

DelayStep(valid) ==
  delay' = CASE delay = 0 /\ valid -> 1
             [] delay > 0 /\ ~mem_valid_i -> delay + 1
             [] OTHER -> 0

MemStep(req, valid) ==
  mem' = IF valid /\ req.we THEN [mem EXCEPT ![req.line] = req.data] ELSE mem

PortStep(dfreq, ifreq) ==
  /\ ArbStep(dfreq, ifreq)
  /\ DelayStep(mem_valid_o(dfreq, ifreq))
  /\ MemStep(mem_req(dfreq, ifreq), mem_valid_o(dfreq, ifreq))
=============================================================================
