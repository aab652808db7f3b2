--------------------------- MODULE StoreForwarding ---------------------------
(***************************************************************************)
(* The store buffer between the pipeline's loads and the data cache, as    *)
(* stage_4m.sv wires it: one load in flight searches the buffer by its age *)
(* tag, and the drain port writes the cache.  One load is enough: loads    *)
(* only read the buffer, so each sees what it would see alone.             *)
(*                                                                         *)
(* cache is the memory the load and drain ports both reach (its misses,    *)
(* evictions and refills are invisible to them).  serving says that the    *)
(* arbiter is in SERVING_SB, committed to the buffer's head until the      *)
(* cache answers, whatever the buffer's own state machine does.            *)
(***************************************************************************)
EXTENDS StoreBuffer, Sequences

CONSTANTS NoLoad, Pending

VARIABLES load, cache, serving

fwvars == <<sbvars, load, cache, serving>>

Words == 0 .. NWORDS-1
Data  == 0 .. NDATA-1

-----------------------------------------------------------------------------
(* The abstract queue: the slots from head_ptr, oldest first.              *)

SlotAt(k) ==
  LET p == head_ptr + k - 1 IN IF p >= DEPTH THEN p - DEPTH ELSE p

NCommitted == Cardinality({i \in Slots : buffer[i].committed})

Queue ==
  [k \in 1 .. count |->
     IF buffer[SlotAt(k)].valid THEN buffer[SlotAt(k)].store ELSE Pending]

Q == INSTANCE StoreQueue
       WITH Capacity <- DEPTH, queue <- Queue, ncommitted <- NCommitted,
            mem <- cache

-----------------------------------------------------------------------------
(* The load port.  A load takes as its tag the slot the next store would   *)
(* get; older counts the stores in the buffer that precede it.             *)

Loads == [tag : Slots, acc : Accesses, older : 0 .. DEPTH]

LoadPresent == load # NoLoad

ASSUME NoLoadAssumption  == NoLoad \notin Loads
ASSUME PendingAssumption == Pending \notin Stores

(* drain_needed's other inputs: a fence, or ld_stall, which is meaningless *)
(* (any value) while no load is in stage 4m.                               *)
Urgencies ==
  IF LoadPresent THEN {ld_stall(load.tag, load.acc), TRUE} ELSE BOOLEAN

(* A load dispatched now, or the one in flight after a possible pop.       *)
Dispatch(pop) ==
  /\ ~LoadPresent
  /\ \E acc \in Accesses :
       load' = [tag |-> alloc_idx, acc |-> acc,
                older |-> IF pop THEN count-1 ELSE count]
InFlight(pop) ==
  /\ load' = IF LoadPresent /\ pop THEN [load EXCEPT !.older = @ - 1] ELSE load
Answer == LoadPresent /\ load' = NoLoad

(* What the cache port does for the buffer in a cycle: nothing, because it *)
(* asks for nothing or a load goes first; keep it waiting; or take the     *)
(* store at the head.                                                      *)
Grants ==
  IF serving THEN {"wait", "done"}
  ELSE IF dreq_valid THEN {"none", "wait", "done"} ELSE {"none"}

CacheWrite(grant) ==
  /\ cache' = IF grant = "done" THEN Q!Written(cache, dreq_store) ELSE cache
  /\ serving' = (grant = "wait")

FInit ==
  /\ Init
  /\ load = NoLoad
  /\ cache \in Q!Memory
  /\ serving = FALSE

(* A store younger than the load cannot be committed before it leaves, and *)
(* decode dispatches either a store or a load in a cycle.                  *)
LoadCycle ==
  \E alloc_en \in BOOLEAN, creq \in ExecRequests, commit \in CommitRequests,
     urgent \in Urgencies, grant \in Grants :
    LET pop == dreq_valid /\ grant = "done"
    IN /\ commit.en /\ LoadPresent => NCommitted < load.older
       /\ CycleStep(alloc_en, creq, commit, urgent, grant = "done")
       /\ CacheWrite(grant)
       /\ \/ ~alloc_en /\ Dispatch(pop)
          \/ InFlight(pop)
          \/ Answer

LoadFlush ==
  /\ Flush
  /\ load' = NoLoad
  /\ \E grant \in Grants : CacheWrite(grant)

FNext == LoadCycle \/ LoadFlush

FSpec == FInit /\ [][FNext]_fwvars

-----------------------------------------------------------------------------
(* Properties.                                                             *)

(* The stores before the load in program order that are still buffered.    *)
OlderStores == SubSeq(Queue, 1, load.older)

(* All stores older than the load have executed (stage 4m handles memory   *)
(* instructions in program order).                                         *)
LoadAsks ==
  LoadPresent /\ \A k \in 1 .. load.older : OlderStores[k] # Pending

LoadAnswered == LoadAsks /\ ~ld_stall(load.tag, load.acc)

LoadedLane(l) ==
  IF ld_hit(load.tag, load.acc) THEN ld_data(load.tag, load.acc)
                                ELSE cache[<<load.acc.word, l>>]

(* A load that is answered, from the buffer or from the cache, returns for *)
(* every byte what the stores before it in program order left there, while *)
(* at least one slot is not older than it (store_buffer.sv:184-247).       *)
LoadSeesProgramOrder ==
  LoadAnswered /\ load.older < DEPTH =>
    \A l \in load.acc.be :
      LoadedLane(l) =
        Q!WrittenAll(cache, OlderStores)[<<load.acc.word, l>>]

(* A load is made to wait exactly when the youngest older store that       *)
(* touches its bytes has only some of them (store_buffer.sv:231-240).      *)
LoadWaitsOnlyForPartialOverlap ==
  LoadAsks /\ load.older < DEPTH =>
    LET touching == {k \in 1 .. load.older :
                       /\ OlderStores[k].acc.word = load.acc.word
                       /\ OlderStores[k].acc.be \cap load.acc.be # {}}
    IN ld_stall(load.tag, load.acc) <=>
         /\ touching # {}
         /\ ~ (load.acc.be \subseteq OlderStores[Max(touching)].acc.be)

(* The buffer implements the queue of stores.                              *)
ImplementsStoreQueue == Q!Spec
=============================================================================
