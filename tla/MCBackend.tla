----------------------------- MODULE MCBackend -----------------------------
(* Instruction mixes for model checking Backend.                           *)
EXTENDS Backend

Byte(lane) == [word |-> 0, be |-> {lane}]
Half       == [word |-> 0, be |-> {0, 1}]

Ins(op, acc, xc) == [op |-> op, acc |-> acc, xc |-> xc]
Plain(op, xc)    == Ins(op, Byte(0), xc)

(* Loads and stores of one word, which is not the one that slots hold at  *)
(* reset; exceptions at decode and at fetch.                               *)
Word1  == [word |-> 1, be |-> {0}]
MemMix == { Ins("ld", Word1, "no"), Ins("st", Word1, "no"),
            Plain("st", "illegal"), Plain("alu", "fetch") }

(* Stores around fences, the three units, exceptions raised in muldiv and  *)
(* in 4m.                                                                  *)
UnitMix == { Plain("st", "no"), Plain("fence", "no"), Plain("csr", "no"),
             Plain("mul", "late"), Plain("st", "late") }

(* Loads that overlap a store only partly, fences, exceptions at fetch.    *)
OverlapMix == { Ins("ld", Half, "no"), Ins("st", Byte(1), "no"),
                Plain("fence", "no"), Plain("alu", "fetch") }

(* Stores and fences.                                                      *)
StoreAndFence == { Plain("st", "no"), Plain("fence", "no") }

(* Stores and an exception raised at decode.                               *)
StoreAndTrap == { Plain("st", "no"), Plain("alu", "illegal") }

(* A division by zero with anything behind it.                             *)
DivideByZero == { Plain("alu", "no"), Plain("mul", "late") }

(* A view for model checking: the payload of a slot is read only while its *)
(* store is valid, and overwritten when the next store executes.           *)
Significant ==
  <<[i \in Slots |->
       IF buffer[i].valid THEN buffer[i]
                          ELSE [buffer[i] EXCEPT !.store = ResetStore]],
    head_ptr, tail_ptr, commit_ptr, count, state,
    entries, head_q, tail_q, pipevars, arb, overrun>>

-----------------------------------------------------------------------------
(* Programs in which no store is decoded while a fence is in flight.       *)
StoresAfterFencesWait ==
  \A i, j \in LiveIds :
    entries[i].is_fence /\ entries[j].is_st => Age(j) < Age(i)

Spaced(A) == A /\ StoresAfterFencesWait'

SpacedSpec ==
  /\ BInit /\ [][Spaced(BNext)]_bevars
  /\ WF_bevars(Spaced(Running)) /\ WF_bevars(Spaced(CacheAnswers))
=============================================================================
