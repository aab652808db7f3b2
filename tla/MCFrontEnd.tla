----------------------------- MODULE MCFrontEnd -----------------------------
(* A program for model checking FrontEnd: branches, a jump with several    *)
(* targets, a trap handler that may run into an illegal instruction.  With *)
(* two predictor entries the control instructions at 1, 3, 5 and 7 compete *)
(* for one, and the plain instructions share the other with the branch     *)
(* at 6.                                                                   *)
EXTENDS FrontEnd

(*   0  plain          1  branch to 5    2  for another unit               *)
(*   3  branch to 0    4  illegal        5  jump to 0, 2 or 6              *)
(*   6  branch to 1    7  jump to the middle of 2                          *)
Program ==
  [p \in 0 .. 15 |-> CASE p = 1 -> {5}
                      [] p = 3 -> {0}
                      [] p = 5 -> {0, 2, 6}
                      [] p = 6 -> {1}
                      [] p = 7 -> {10}
                      [] OTHER -> {}]
=============================================================================
