------------------------------ MODULE CacheSets ------------------------------
(***************************************************************************)
(* What the three cache engines of rtl/common share (dcache_engine_wb.sv,  *)
(* dcache_engine_wt.sv, icache.sv): sets of ways, found by tag, replaced   *)
(* in turn.  A line stands for an address without its byte offset; SetOf   *)
(* is its index, and a tag together with the set it is in is a line.       *)
(***************************************************************************)
EXTENDS Integers, FiniteSets

CONSTANTS Lines, SetOf, WAYS, None

(* A power of two, so that replace_idx wraps by itself.                    *)
ASSUME WaysAssumption == WAYS \in Nat /\ WAYS >= 2 /\ None \notin Lines

Ways == 0 .. WAYS-1
Sets == {SetOf[l] : l \in Lines}

(* A way of valid = FALSE: its other fields are not reset, and not read.   *)
EmptyWay == [valid |-> FALSE, dirty |-> FALSE, line |-> None, data |-> None]

EmptySets ==
  [s \in Sets |-> [replace_idx |-> 0, ways |-> [w \in Ways |-> EmptyWay]]]

WaysFor(sets, l) == sets[SetOf[l]].ways

hits(sets, l) ==
  {w \in Ways : WaysFor(sets, l)[w].valid /\ WaysFor(sets, l)[w].line = l}

Cached(sets, l) == hits(sets, l) # {}

(* $clog2(hits) is the index of the hit as long as there is only one.      *)
HitIdx(sets, l) == CHOOSE w \in hits(sets, l) : TRUE
Copy(sets, l)   == WaysFor(sets, l)[HitIdx(sets, l)].data
Dirty(sets, l)  == WaysFor(sets, l)[HitIdx(sets, l)].dirty

ReplaceIdx(sets, l) == sets[SetOf[l]].replace_idx
Victim(sets, l)     == WaysFor(sets, l)[ReplaceIdx(sets, l)]

(* The way of index w in l's set becomes way.                              *)
WithWay(sets, l, w, way) == [sets EXCEPT ![SetOf[l]].ways[w] = way]

(* Mutant: replace_idx does not wrap.                                      *)
RefilledNoWrap(sets, l, dirty, data) ==
  [WithWay(sets, l, ReplaceIdx(sets, l),
           [valid |-> TRUE, dirty |-> dirty, line |-> l, data |-> data])
     EXCEPT ![SetOf[l]].replace_idx = @ + 1]

(* A refill takes the way whose turn it is.                                *)
Refilled(sets, l, dirty, data) ==
  [WithWay(sets, l, ReplaceIdx(sets, l),
           [valid |-> TRUE, dirty |-> dirty, line |-> l, data |-> data])
     EXCEPT ![SetOf[l]].replace_idx = (@ + 1) % WAYS]

(* Where the next level is asked: nothing, to read l, to write l.          *)
NoFreq == [valid |-> FALSE, we |-> FALSE, line |-> None, data |-> None]
ReadOf(l) == [valid |-> TRUE, we |-> FALSE, line |-> l, data |-> None]
WriteOf(l, data) == [valid |-> TRUE, we |-> TRUE, line |-> l, data |-> data]

-----------------------------------------------------------------------------
(* The sets of a cache whose lines hold data in D.                         *)
WayType(D) ==
  [valid : BOOLEAN, dirty : BOOLEAN, line : Lines, data : D] \cup {EmptyWay}
SetsType(D) == [Sets -> [replace_idx : Ways, ways : [Ways -> WayType(D)]]]

(* No line is in two ways at once: a second copy would answer with the     *)
(* wrong way, and could write an old copy back.                            *)
OneCopyEach(sets) == \A l \in Lines : Cardinality(hits(sets, l)) <= 1
=============================================================================
