---------------------------- MODULE CommitWindow ----------------------------
(***************************************************************************)
(* What the reorder buffer promises, without pointers or entries to reuse: *)
(* a window of instructions in program order.  Instructions enter at the   *)
(* back, complete once and in any order, and leave from the front, one a   *)
(* cycle and only when complete.  An exception leaves only from the front, *)
(* and takes everything behind it, entering instructions included, along.  *)
(***************************************************************************)
EXTENDS Integers, Sequences

CONSTANT Size  \* number of instructions the window can hold

VARIABLE window

(* An instruction that is still waiting completes, perhaps excepting, or   *)
(* nothing happens to it; a complete one no longer changes.                *)
MayComplete(before, after) ==
  \/ after = before
  \/ /\ ~before.complete
     /\ after = [before EXCEPT !.complete = TRUE, !.xcpt = after.xcpt,
                               !.sbid = after.sbid]

(* Decode enters an instruction as complete only if it already excepts.    *)
Enters(ins) == ins.complete = ins.xcpt

(* A cycle in which the oldest n instructions (none or one) leave.         *)
Retire(n, before, after) ==
  LET kept == Len(before) - n
  IN /\ n = 1 => before # <<>> /\ Head(before).complete /\ ~Head(before).xcpt
     /\ Len(after) \in {kept, kept + 1}
     /\ Len(after) <= Size
     /\ \A k \in 1 .. kept : MayComplete(before[k+n], after[k])
     /\ Len(after) = kept + 1 => Enters(after[kept + 1])

Trap(before, after) ==
  before # <<>> /\ Head(before).complete /\ Head(before).xcpt /\ after = <<>>

Init == window = <<>>
Next == \/ Trap(window, window')
        \/ \E n \in {0, 1} : Retire(n, window, window')
Spec == Init /\ [][Next]_window
=============================================================================
