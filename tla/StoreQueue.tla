----------------------------- MODULE StoreQueue -----------------------------
(***************************************************************************)
(* What the store buffer promises, without slots, pointers or a state      *)
(* machine: a queue of stores in program order, of which the first         *)
(* ncommitted are committed, in front of a memory.  Stores enter at the    *)
(* back, execute in any order, are committed from the front and reach      *)
(* memory from the front.  An exception discards exactly the stores that   *)
(* are not committed.                                                      *)
(***************************************************************************)
EXTENDS Integers, Sequences, FiniteSetsExt

CONSTANTS
  Capacity,  \* number of stores the queue can hold
  Words, Lanes, ByteEnables, Data,
  Pending    \* a store that has not executed

VARIABLES queue, ncommitted, mem

qvars == <<queue, ncommitted, mem>>

Accesses == [word : Words, be : ByteEnables]
Stores   == [acc : Accesses, data : Data]
Memory   == [Words \X Lanes -> Data]

(* Memory after a store: each enabled lane takes the store's data.         *)
Written(m, st) ==
  [b \in Words \X Lanes |->
     IF b[1] = st.acc.word /\ b[2] \in st.acc.be THEN st.data ELSE m[b]]

(* Memory after a sequence of stores, oldest first: each lane has what the *)
(* last store that enables it wrote.                                       *)
Writers(sts, b) ==
  {k \in DOMAIN sts : b[1] = sts[k].acc.word /\ b[2] \in sts[k].acc.be}
WrittenAll(m, sts) ==
  [b \in Words \X Lanes |->
     IF Writers(sts, b) = {} THEN m[b] ELSE sts[Max(Writers(sts, b))].data]

-----------------------------------------------------------------------------
Init ==
  /\ queue = <<>>
  /\ ncommitted = 0
  /\ mem \in Memory

(* A store entering at the back; the oldest leaving.                       *)
Entered(q, enter) == IF enter THEN Append(q, Pending) ELSE q
Left(q, leave) == IF leave THEN Tail(q) ELSE q

(* The oldest committed store reaches memory.                              *)
MemoryWrite(write) ==
  /\ write => ncommitted > 0
  /\ mem' = IF write THEN Written(mem, Head(queue)) ELSE mem

(* One clock cycle: any combination of a store entering, one executing,    *)
(* one being committed, the oldest committed store being written to memory *)
(* and, once written, leaving.                                             *)
Step(enter, commit, write, leave) ==
  /\ enter => Len(queue) < Capacity
  /\ commit => ncommitted < Len(queue) /\ queue[ncommitted+1] # Pending
  /\ leave => write
  /\ ncommitted' =
       ncommitted + (IF commit THEN 1 ELSE 0) - (IF leave THEN 1 ELSE 0)
  /\ MemoryWrite(write)
  /\ \E x \in 0 .. Len(queue), st \in Stores :
       /\ x # 0 => x > ncommitted /\ queue[x] = Pending
       /\ queue' = Left(Entered(IF x = 0 THEN queue ELSE [queue EXCEPT ![x] = st],
                                enter), leave)

(* An exception; the oldest committed store may be written meanwhile.      *)
Discard(write) ==
  /\ queue' = SubSeq(queue, 1, ncommitted)
  /\ MemoryWrite(write)
  /\ UNCHANGED ncommitted

Next ==
  \/ \E enter, commit, write, leave \in BOOLEAN :
       Step(enter, commit, write, leave)
  \/ \E write \in BOOLEAN : Discard(write)

Spec == Init /\ [][Next]_qvars
=============================================================================
