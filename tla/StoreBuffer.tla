---------------------------- MODULE StoreBuffer ----------------------------
(***************************************************************************)
(* The store buffer of Gandul (rtl/common/store_buffer.sv): a circular     *)
(* buffer of DEPTH stores.  A slot is allocated when its store is decoded, *)
(* receives its address and data when the store executes, is committed by  *)
(* the reorder buffer, and leaves through the data cache port.             *)
(*                                                                         *)
(* One step is one clock cycle.  CycleStep and FlushStep are the two       *)
(* branches of the module's always_ff block, as functions of its input     *)
(* ports; Backend conjoins them with the cycles of the other components.   *)
(* Next closes the module with every input its environment may present.    *)
(***************************************************************************)
EXTENDS Integers, FiniteSetsExt

CONSTANTS
  DEPTH,            \* SB_N_ENTRIES
  DRAIN_THRESHOLD,  \* SB_DRAIN_THRESHOLD
  LANES,            \* bytes in a word (4 in the RTL)
  NWORDS, NDATA,    \* number of distinct word addresses and data values
  FULL_FLUSH        \* TRUE: a flush may find all DEPTH slots committed

ASSUME DepthAssumption == DEPTH \in Nat /\ DEPTH >= 2
ASSUME ThresholdAssumption == DRAIN_THRESHOLD \in 1..DEPTH
ASSUME PayloadAssumption ==
  LANES \in Nat \ {0} /\ NWORDS \in Nat \ {0} /\ NDATA \in Nat \ {0}
ASSUME FullFlushAssumption == FULL_FLUSH \in BOOLEAN

VARIABLES buffer, head_ptr, tail_ptr, commit_ptr, count, state

sbvars == <<buffer, head_ptr, tail_ptr, commit_ptr, count, state>>

-----------------------------------------------------------------------------
(* Addresses: a word and the byte lanes the access enables in it.          *)

Slots == 0 .. DEPTH-1
Lanes == 0 .. LANES-1

(* The naturally aligned power-of-two runs of lanes: SB, SH and SW.        *)
ByteEnables ==
  { a.off .. a.off + a.width - 1 : a \in
      { p \in [off : Lanes, width : {1, 2, 4}] :
          p.off % p.width = 0 /\ p.off + p.width <= LANES } }

Accesses == [word : 0 .. NWORDS-1, be : ByteEnables]
Stores   == [acc : Accesses, data : 0 .. NDATA-1]
Entry    == [store : Stores, allocated : BOOLEAN, valid : BOOLEAN,
             committed : BOOLEAN]

(* '0: word 0, MEMOP_WIDTH_8 at offset 0, data 0.                          *)
ResetStore == [acc |-> [word |-> 0, be |-> {0}], data |-> 0]
ResetEntry == [store |-> ResetStore, allocated |-> FALSE, valid |-> FALSE,
               committed |-> FALSE]

(* A pointer of $clog2(DEPTH) bits, incremented, and taken i slots back.   *)
Succ(p)    == IF p = DEPTH-1 THEN 0 ELSE p+1
Back(p, i) == IF p >= i THEN p-i ELSE p+DEPTH-i

-----------------------------------------------------------------------------
(* Combinational outputs.                                                  *)

sb_full     == count = DEPTH
sb_empty    == count = 0
alloc_idx   == tail_ptr
dreq_valid  == state = "DRAIN"
dreq_store  == buffer[head_ptr].store

ReadyToDrain(i) ==
  buffer[i].allocated /\ buffer[i].valid /\ buffer[i].committed

(* Mutant: the threshold is ignored.                                       *)
DrainsOnlyWhenUrgent(urgent) == urgent

drain_needed(urgent) == count >= DRAIN_THRESHOLD \/ urgent

(* Mutant: the age check takes in the tag.                                 *)
IsOlderOrEqual(i, tag) ==
  IF head_ptr <= tag THEN i >= head_ptr /\ i <= tag
                     ELSE i >= head_ptr \/ i <= tag

(* The age check: is slot i older than the load whose age tag is tag?      *)
IsOlder(i, tag) ==
  IF head_ptr <= tag THEN i >= head_ptr /\ i < tag
                     ELSE i >= head_ptr \/ i < tag

Overlaps(i, acc) ==
  /\ buffer[i].store.acc.word = acc.word
  /\ buffer[i].store.acc.be \cap acc.be # {}

(* Distances back from the tag at which the search finds an overlap; the   *)
(* loop stops at the first, the least.                                     *)
Matches(tag, acc) ==
  { d \in 1 .. DEPTH :
      LET i == Back(tag, d)
      IN /\ buffer[i].allocated /\ buffer[i].valid /\ IsOlder(i, tag)
         /\ Overlaps(i, acc) }

(* Mutant: the oldest match is taken.                                      *)
OldestMatch(tag, acc) == buffer[Back(tag, Max(Matches(tag, acc)))].store

Match(tag, acc) == buffer[Back(tag, Min(Matches(tag, acc)))].store

ld_hit(tag, acc) ==
  Matches(tag, acc) # {} /\ acc.be \subseteq Match(tag, acc).acc.be
(* Mutant: any older store that overlaps partly stalls the load.           *)
StallsOnAny(tag, acc) ==
  \E d \in Matches(tag, acc) :
    ~ (acc.be \subseteq buffer[Back(tag, d)].store.acc.be)

ld_stall(tag, acc) ==
  Matches(tag, acc) # {} /\ ~ (acc.be \subseteq Match(tag, acc).acc.be)
ld_data(tag, acc) == Match(tag, acc).data

-----------------------------------------------------------------------------
(* The clock cycle without a flush.  alloc is alloc_en_i && !sb_full_o,    *)
(* creq the execution port [en, idx, store], commit the commit port        *)
(* [en, idx], pop is dreq_valid_o && dreq_ready_i.  The assignments to a   *)
(* slot take effect in the order allocate, execute, commit, deallocate.    *)

(* Mutants: a pop clears the slot after the head; a pop leaves the slot    *)
(* committed.                                                              *)
PopsNextSlot(i, alloc, creq, commit, pop) ==
  LET allocates   == alloc /\ i = tail_ptr
      executes    == creq.en /\ i = creq.idx
      commits     == commit.en /\ i = commit.idx
      deallocates == pop /\ i = Succ(head_ptr)
  IN [store     |-> IF executes THEN creq.store ELSE buffer[i].store,
      allocated |-> ~deallocates /\ (allocates \/ buffer[i].allocated),
      valid     |-> ~deallocates /\ (executes \/ (~allocates /\ buffer[i].valid)),
      committed |-> ~deallocates /\ (commits \/ (~allocates /\ buffer[i].committed))]
PopKeepsCommitted(i, alloc, creq, commit, pop) ==
  LET executes == creq.en /\ i = creq.idx
  IN [store     |-> IF executes THEN creq.store ELSE buffer[i].store,
      allocated |-> ~(pop /\ i = head_ptr) /\
                      ((alloc /\ i = tail_ptr) \/ buffer[i].allocated),
      valid     |-> ~(pop /\ i = head_ptr) /\ (executes \/ buffer[i].valid),
      committed |-> (commit.en /\ i = commit.idx) \/ buffer[i].committed]

Updated(i, alloc, creq, commit, pop) ==
  LET allocates   == alloc /\ i = tail_ptr
      executes    == creq.en /\ i = creq.idx
      commits     == commit.en /\ i = commit.idx
      deallocates == pop /\ i = head_ptr
  IN [store     |-> IF executes THEN creq.store ELSE buffer[i].store,
      allocated |-> ~deallocates /\ (allocates \/ buffer[i].allocated),
      valid     |-> ~deallocates /\ (executes \/ (~allocates /\ buffer[i].valid)),
      committed |-> ~deallocates /\ (commits \/ (~allocates /\ buffer[i].committed))]

(* Mutant: an allocation hides a simultaneous pop from the counter.        *)
CountIgnoresPop(alloc, creq, commit, pop) ==
  /\ buffer' = [i \in Slots |-> Updated(i, alloc, creq, commit, pop)]
  /\ tail_ptr' = IF alloc THEN Succ(tail_ptr) ELSE tail_ptr
  /\ commit_ptr' = IF commit.en THEN Succ(commit_ptr) ELSE commit_ptr
  /\ head_ptr' = IF pop THEN Succ(head_ptr) ELSE head_ptr
  /\ count' = IF alloc THEN count + 1 ELSE IF pop THEN count - 1 ELSE count

DataPath(alloc, creq, commit, pop) ==
  /\ buffer' = [i \in Slots |-> Updated(i, alloc, creq, commit, pop)]
  /\ tail_ptr' = IF alloc THEN Succ(tail_ptr) ELSE tail_ptr
  /\ commit_ptr' = IF commit.en THEN Succ(commit_ptr) ELSE commit_ptr
  /\ head_ptr' = IF pop THEN Succ(head_ptr) ELSE head_ptr
  /\ count' = CASE alloc /\ ~pop -> count + 1
                [] pop /\ ~alloc -> count - 1
                [] OTHER         -> count

(* The draining state machine.                                             *)
Fsm(urgent, dreq_ready) ==
  \/ /\ state = "IDLE"
     /\ state' = IF ReadyToDrain(head_ptr) /\ drain_needed(urgent)
                 THEN "DRAIN" ELSE "IDLE"
  \/ /\ state = "DRAIN" /\ ~dreq_ready
     /\ UNCHANGED state
  \/ /\ state = "DRAIN" /\ dreq_ready
     /\ state' = IF ReadyToDrain(Succ(head_ptr)) /\ drain_needed(urgent)
                 THEN "DRAIN" ELSE "IDLE"

CycleStep(alloc_en, creq, commit, urgent, dreq_ready) ==
  /\ DataPath(alloc_en /\ ~sb_full, creq, commit, dreq_valid /\ dreq_ready)
  /\ Fsm(urgent, dreq_ready)

(* Mutant: a flush is a reset.                                             *)
FlushResets ==
  /\ buffer' = [i \in Slots |-> ResetEntry]
  /\ head_ptr' = 0 /\ tail_ptr' = 0 /\ commit_ptr' = 0 /\ count' = 0
  /\ state' = "IDLE"

(* The clock cycle of a flush: uncommitted slots are discarded, the tail   *)
(* returns to commit_ptr, count is recomputed from the pointers and the    *)
(* state machine is forced to IDLE; the other ports are ignored.           *)
FlushStep ==
  /\ tail_ptr' = commit_ptr
  /\ buffer' = [i \in Slots |->
                  IF buffer[i].committed THEN buffer[i]
                  ELSE [buffer[i] EXCEPT !.allocated = FALSE, !.valid = FALSE]]
  /\ count' = IF commit_ptr >= head_ptr THEN commit_ptr - head_ptr
                                        ELSE DEPTH - (head_ptr - commit_ptr)
  /\ state' = "IDLE"
  /\ UNCHANGED <<head_ptr, commit_ptr>>

-----------------------------------------------------------------------------
(* The environment.  A store executes once, into a slot that is still      *)
(* speculative; the reorder buffer commits an executed store, and the slot *)
(* it names is the one at commit_ptr.  Backend is checked to present no    *)
(* other input.                                                            *)

NoExec   == [en |-> FALSE, idx |-> 0, store |-> ResetStore]
NoCommit == [en |-> FALSE, idx |-> 0]

Executable(i) ==
  buffer[i].allocated /\ ~buffer[i].valid /\ ~buffer[i].committed
Committable(i) ==
  buffer[i].allocated /\ buffer[i].valid /\ ~buffer[i].committed

ExecRequests ==
  {NoExec} \cup
  [en : {TRUE}, idx : {i \in Slots : Executable(i)}, store : Stores]
CommitRequests ==
  {NoCommit} \cup
  [en : {TRUE}, idx : {i \in Slots : i = commit_ptr /\ Committable(i)}]

AllCommitted == \A i \in Slots : buffer[i].committed

Init ==
  /\ buffer = [i \in Slots |-> ResetEntry]
  /\ head_ptr = 0 /\ tail_ptr = 0 /\ commit_ptr = 0
  /\ count = 0
  /\ state = "IDLE"

Cycle ==
  \E alloc_en \in BOOLEAN, creq \in ExecRequests, commit \in CommitRequests,
     urgent \in BOOLEAN, dreq_ready \in BOOLEAN :
    CycleStep(alloc_en, creq, commit, urgent, dreq_ready)

Flush == (FULL_FLUSH \/ ~AllCommitted) /\ FlushStep

Next == Cycle \/ Flush

Spec == Init /\ [][Next]_sbvars

-----------------------------------------------------------------------------
(* Properties.                                                             *)

TypeOK ==
  /\ buffer \in [Slots -> Entry]
  /\ head_ptr \in Slots /\ tail_ptr \in Slots /\ commit_ptr \in Slots
  /\ count \in 0 .. DEPTH
  /\ state \in {"IDLE", "DRAIN"}

(* The slot k places after the head; DEPTH places after it is the head.    *)
Wrap(p) == IF p >= DEPTH THEN p - DEPTH ELSE p
Slot(k) == Wrap(head_ptr + k)

CommittedSlot(i)   == ReadyToDrain(i)
SpeculativeSlot(i) == buffer[i].allocated /\ ~buffer[i].committed
FreeSlot(i) ==
  ~buffer[i].allocated /\ ~buffer[i].valid /\ ~buffer[i].committed

(* The ring from its head: ncommitted committed slots up to commit_ptr,    *)
(* speculative slots up to tail_ptr, and free slots up to the head.  The   *)
(* state machine asks for the cache only when a slot is committed.         *)
RingOf(ncommitted) ==
  /\ commit_ptr = Slot(ncommitted)
  /\ tail_ptr = Slot(count)
  /\ \A k \in 0 .. DEPTH-1 :
       /\ k < ncommitted => CommittedSlot(Slot(k))
       /\ ncommitted <= k /\ k < count => SpeculativeSlot(Slot(k))
       /\ count <= k => FreeSlot(Slot(k))
  /\ state = "DRAIN" => ncommitted > 0

(* The three pointers, the counter, the flags of all slots and the state   *)
(* machine always tell one story, across wrap-around, simultaneous         *)
(* allocation, commit and pop, and flushes that leave a slot to spare      *)
(* (store_buffer.sv:89-182).                                               *)
Ring == \E ncommitted \in 0 .. count : RingOf(ncommitted)

(* The store shown to the cache has executed and is committed, and it is   *)
(* the oldest in the buffer: nothing speculative reaches memory.           *)
OnlyCommittedDrain == dreq_valid => ReadyToDrain(head_ptr)

(* A slot is given up only by being drained or, while speculative, by a    *)
(* flush; a committed slot leaves only from the head.                      *)
CommittedStoresStay ==
  [][\A i \in Slots : buffer[i].committed /\ i # head_ptr =>
       buffer'[i] = buffer[i]]_sbvars
=============================================================================
