---------------------------- MODULE MCMemorySide ----------------------------
(* Lines for model checking MemorySide.  One data line is told apart in    *)
(* full: two parts, two values.  The others are there to evict it, are     *)
(* written with the value they have, and are interchangeable, as are the   *)
(* lines of code.  E0 is in the other set.                                 *)
EXTENDS MemorySide, TLC

CONSTANTS D0, D1, D2, E0, C0, C1, C2, New

DataLines == {D0, D1, D2, E0}
AllLines  == DataLines \cup {C0, C1, C2}
Code      == {C0, C1, C2}
TwoSets   == [l \in AllLines |-> IF l = E0 THEN 1 ELSE 0]
Contents  == AllLines \cup {New}
AtReset   == [l \in AllLines |-> [o \in {0, 1} |-> l]]

Access(l, o, we, v) == [line |-> l, off |-> o, we |-> we, val |-> v]

SomeAccesses ==
  {Access(D0, o, TRUE, v) : o \in {0, 1}, v \in {D0, New}} \cup
  {Access(D0, o, FALSE, D0) : o \in {0, 1}} \cup
  {Access(l, 0, we, l) : l \in {D1, D2}, we \in BOOLEAN} \cup
  {Access(E0, 0, TRUE, E0)}

Interchangeable == Permutations({D1, D2}) \cup Permutations(Code)
=============================================================================
