-------------------------------- MODULE Rob --------------------------------
(***************************************************************************)
(* The reorder buffer of Gandul (rtl/common/rob.sv).  Instructions are     *)
(* issued at the tail in program order, completed out of order by three    *)
(* functional units, and committed one per cycle at the head; committing   *)
(* an instruction that excepts empties the buffer.                         *)
(*                                                                         *)
(* One step is one clock cycle: RobStep is the module's always_ff blocks   *)
(* as a function of its input ports, which Backend drives.  Results and    *)
(* CSR values are not modelled here: the order of events is.               *)
(***************************************************************************)
EXTENDS Integers

CONSTANTS
  N_ENTRIES,  \* ROB_N_ENTRIES, at least 2
  SBIDS,      \* store buffer slots (sbid_t), 0 among them
  INSTRS,     \* what dbg_ins can tell apart
  NOINSTR     \* dbg_ins of an entry never issued

VARIABLES entries, head_q, tail_q

RobIds == 0 .. N_ENTRIES-1
Next1(p) == IF p = N_ENTRIES-1 THEN 0 ELSE p+1

RobEntry == [ins : INSTRS \cup {NOINSTR}, is_st : BOOLEAN, is_fence : BOOLEAN,
             sbid : SBIDS, complete : BOOLEAN, xcpt : BOOLEAN]

EmptyEntry == [ins |-> NOINSTR, is_st |-> FALSE, is_fence |-> FALSE,
               sbid |-> 0, complete |-> FALSE, xcpt |-> FALSE]

-----------------------------------------------------------------------------
(* Combinational outputs.                                                  *)

empty == tail_q = head_q

full  == Next1(tail_q) = head_q

Head == entries[head_q]

committing_head_q(can_commit, can_commit_xcpt) ==
  Head.complete /\ ~empty /\ can_commit /\ (Head.xcpt => can_commit_xcpt)

committing_xcpt(can_commit, can_commit_xcpt) ==
  committing_head_q(can_commit, can_commit_xcpt) /\ Head.xcpt

(* A fence is at the head and has completed.                               *)
commit_fence == ~empty /\ Head.complete /\ ~Head.xcpt /\ Head.is_fence

(* commit_sb_o                                                             *)
commit_sb(can_commit, can_commit_xcpt) ==
  [en  |-> committing_head_q(can_commit, can_commit_xcpt)
             /\ ~Head.xcpt /\ Head.is_st,
   idx |-> IF committing_head_q(can_commit, can_commit_xcpt)
                /\ ~Head.xcpt /\ Head.is_st
           THEN Head.sbid ELSE 0]

-----------------------------------------------------------------------------
(* The clock cycle.  issue is the issue port [valid, ins, is_st, is_fence, *)
(* xcpt]; alumem, muldiv and csr the completion ports [valid, robid, xcpt, *)
(* sbid], of which the last does not write sbid.  Assignments to an entry  *)
(* take effect in the order issue, alumem, muldiv, csr.                    *)

Issued(issue) ==
  [ins |-> issue.ins, is_st |-> issue.is_st, is_fence |-> issue.is_fence,
   sbid |-> 0, complete |-> issue.xcpt, xcpt |-> issue.xcpt]

Completed(e, port) ==
  [e EXCEPT !.complete = TRUE, !.xcpt = port.xcpt, !.sbid = port.sbid]
CompletedCsr(e, port) ==
  [e EXCEPT !.complete = TRUE, !.xcpt = port.xcpt]

Selects(port, i) == port.valid /\ port.robid = i

NextEntry(i, issuing, issue, alumem, muldiv, csr) ==
  LET e0 == IF issuing /\ i = tail_q THEN Issued(issue)
                                     ELSE entries[i]
      e1 == IF Selects(alumem, i) THEN Completed(e0, alumem) ELSE e0
      e2 == IF Selects(muldiv, i) THEN Completed(e1, muldiv) ELSE e1
  IN IF Selects(csr, i) THEN CompletedCsr(e2, csr) ELSE e2

(* Mutants: a trap pops the head only; an instruction issued in the cycle  *)
(* of a trap survives it.                                                  *)
TrapPopsHead(issue, alumem, muldiv, csr, can_commit, can_commit_xcpt) ==
  LET committing == committing_head_q(can_commit, can_commit_xcpt)
      trapping   == committing_xcpt(can_commit, can_commit_xcpt)
      issuing    == ~trapping /\ issue.valid /\ ~full
  IN /\ entries' = [i \in RobIds |->
                      NextEntry(i, issuing, issue, alumem, muldiv, csr)]
     /\ head_q' = IF committing THEN Next1(head_q) ELSE head_q
     /\ tail_q' = IF issuing THEN Next1(tail_q) ELSE tail_q

IssueOutlivesTrap(issue, alumem, muldiv, csr, can_commit, can_commit_xcpt) ==
  LET committing == committing_head_q(can_commit, can_commit_xcpt)
      trapping   == committing_xcpt(can_commit, can_commit_xcpt)
      issuing    == issue.valid /\ ~full
      head_d     == IF committing THEN Next1(head_q) ELSE head_q
  IN /\ entries' = [i \in RobIds |->
                      NextEntry(i, issuing, issue, alumem, muldiv, csr)]
     /\ head_q' = head_d
     /\ tail_q' = IF issuing THEN Next1(tail_q)
                  ELSE IF trapping THEN head_d ELSE tail_q

RobStep(issue, alumem, muldiv, csr, can_commit, can_commit_xcpt) ==
  LET committing == committing_head_q(can_commit, can_commit_xcpt)
      trapping   == committing_xcpt(can_commit, can_commit_xcpt)
      issuing    == ~trapping /\ issue.valid /\ ~full
      head_d     == IF committing THEN Next1(head_q) ELSE head_q
  IN /\ entries' = [i \in RobIds |->
                      NextEntry(i, issuing, issue, alumem, muldiv, csr)]
     /\ head_q' = head_d
     /\ tail_q' = IF trapping THEN head_d
                  ELSE IF issuing THEN Next1(tail_q) ELSE tail_q

-----------------------------------------------------------------------------
(* An entry that is in use.                                                *)
Live(i) == IF head_q <= tail_q THEN i >= head_q /\ i < tail_q
                               ELSE i >= head_q \/ i < tail_q

NoCompletion == [valid |-> FALSE, robid |-> 0, xcpt |-> FALSE, sbid |-> 0]

Init ==
  /\ entries = [i \in RobIds |-> EmptyEntry]
  /\ head_q = 0
  /\ tail_q = 0

-----------------------------------------------------------------------------
(* Properties.                                                             *)

Occupancy == IF tail_q >= head_q THEN tail_q - head_q
                                 ELSE tail_q + N_ENTRIES - head_q

(* The entries from head_q, oldest first.                                  *)
Window ==
  [k \in 1 .. Occupancy |->
     LET i == head_q + k - 1
     IN entries[IF i >= N_ENTRIES THEN i - N_ENTRIES ELSE i]]

W == INSTANCE CommitWindow WITH Size <- N_ENTRIES-1, window <- Window

(* The circular buffer implements the window: instructions leave in the    *)
(* order they were issued, each completes once, a committed exception      *)
(* leaves nothing behind it, and no entry is overwritten while in use      *)
(* (rob.sv:84-167).                                                        *)
ImplementsCommitWindow == W!Spec
=============================================================================
