----------------------------- MODULE MemorySide -----------------------------
(***************************************************************************)
(* Both caches on the one memory port, as gandul.sv and soc.sv wire them,  *)
(* with a core that holds each request until it is answered: the data      *)
(* request because stage 4m and the store buffer do (LoadRequestStable and *)
(* StoreRequestStable of Backend), the fetch because pc does not move      *)
(* until the instruction cache is ready (FrontEnd's NextPc).  Programs do  *)
(* not store to their own code.                                            *)
(***************************************************************************)
EXTENDS DataCache, InstrCache, MemoryPort

CONSTANTS
  Accesses,    \* the data requests the core may make, among Requests
  CodeLines,   \* the lines it fetches
  Initial      \* line -> data, the memory at reset

ASSUME AccessAssumption ==
  /\ Accesses \subseteq Requests /\ CodeLines \subseteq Lines
  /\ \A a \in Accesses : a.we => a.line \notin CodeLines
  /\ Initial \in [Lines -> Data]

VARIABLES dreq, ireq

msvars == <<dcvars, icvars, portvars, dreq, ireq>>

-----------------------------------------------------------------------------
d_valid == dc_frsp_valid(dfreq)
i_valid == ic_frsp_valid(dfreq, ifreq)
rdata   == mem_data_i(dfreq, ifreq)

d_ready == dreq_ready(dreq, d_valid)
i_ready == icache_ready(ireq, i_valid)

Init ==
  /\ DataCacheInit /\ InstrCacheInit
  /\ PortInit /\ mem = Initial
  /\ dreq = NoReq /\ ireq \in CodeLines

Next ==
  /\ DataCacheStep(dreq, d_valid, rdata)
  /\ InstrCacheStep(ireq, i_valid, rdata)
  /\ PortStep(dfreq, ifreq)
  /\ IF d_ready THEN dreq' \in Accesses \cup {NoReq} ELSE UNCHANGED dreq
  /\ IF i_ready THEN ireq' \in CodeLines ELSE UNCHANGED ireq

Spec == Init /\ [][Next]_msvars

-----------------------------------------------------------------------------
(* Properties.                                                             *)

TypeOK ==
  /\ policy \in {"wb", "wt"}
  /\ dsets \in SetsType(Data) /\ isets \in SetsType(Data)
  /\ dstate \in {"IDLE", "READ", "EVICT", "READ4WRITE", "WRITE"}
  /\ istate \in {"IDLE", "WAIT_READ"}
  /\ dfreq.valid => dfreq.line \in Lines /\ (dfreq.we => dfreq.data \in Data)
  /\ arb \in {"IDLE", "SERVING_D", "SERVING_I"}
  /\ delay \in 0 .. DELAYER_LEN
  /\ mem \in [Lines -> Data]
  /\ dreq \in Accesses \cup {NoReq} /\ ireq \in CodeLines

(* Neither cache ever holds a line twice.                                  *)
OneCopy == OneCopyEach(dsets) /\ OneCopyEach(isets)

(* What the program's stores have made of a line: the cached copy if there *)
(* is one, and memory otherwise.                                           *)
Image ==
  [l \in Lines |-> IF Cached(dsets, l) THEN Copy(dsets, l) ELSE mem[l]]

(* With either policy, through misses, evictions and refills that compete  *)
(* with instruction fetches, the data cache is a memory.                   *)
DM == INSTANCE DataMemory WITH image <- Image, request <- dreq
ImplementsDataMemory == DM!Spec

(* A load is answered with what the stores before it left                  *)
(* (dcache_engine_wb.sv:185-194, dcache_engine_wt.sv:187-196).             *)
LoadReturnsImage ==
  d_ready /\ dreq # NoReq /\ ~dreq.we =>
    drsp_data(dreq, rdata) = Image[dreq.line][dreq.off]

(* Fetch is answered with the line it asked for, never with data memory    *)
(* returned to the other cache (memory_arbitrer.sv:56-90).                 *)
FetchReturnsCode == i_ready => icache_data(ireq, rdata) = Initial[ireq]

(* A copy that is not dirty, and not being written through, is what memory *)
(* holds: dropping it loses nothing.                                       *)
CleanIsMemory ==
  \A l \in Lines :
    Cached(dsets, l) /\ ~Dirty(dsets, l) =>
      Copy(dsets, l) = mem[l] \/ (dstate = "WRITE" /\ dreq.line = l)

(* From its first cycle, in which the arbiter still decides, to its answer *)
(* memory works on one request: the delay line counts for the request it   *)
(* was started by (memory_arbitrer.sv:56-90, valid_delayer.sv:15).         *)
PortServesOne ==
  [][mem_valid_o(dfreq, ifreq) /\ ~mem_valid_i =>
       (mem_req(dfreq, ifreq))' = mem_req(dfreq, ifreq)]_msvars

-----------------------------------------------------------------------------
(* How long an answer can take.  A transaction is DELAYER_LEN + 1 cycles   *)
(* on the port, and there is a cycle before and after it.                  *)

Transaction == DELAYER_LEN + 3

(* Cycles until the transaction on the port, if any, is over.              *)
PortBusy ==
  IF mem_valid_o(dfreq, ifreq) THEN DELAYER_LEN - delay + 1 ELSE 0

(* A data request makes at most two transactions (eviction and refill, or  *)
(* refill and write) and waits for at most one of the other cache's.       *)
DataTurns ==
  CASE dstate = "IDLE" -> 3
    [] dstate \in {"EVICT", "READ4WRITE"} -> IF arb = "SERVING_I" THEN 2 ELSE 1
    [] OTHER -> IF arb = "SERVING_I" THEN 1 ELSE 0

(* A fetch waits for a data request to finish, two transactions at most,   *)
(* and then goes before the next.                                          *)
FetchTurns ==
  CASE istate = "IDLE" -> 4
    [] istate = "WAIT_READ" /\ arb = "SERVING_I" -> 0
    [] istate = "WAIT_READ" /\ serves_d(dfreq) ->
         IF dstate \in {"EVICT", "READ4WRITE"} THEN 3 ELSE 2
    [] OTHER -> 1

DataWait  == DataTurns * Transaction + PortBusy
FetchWait == FetchTurns * Transaction + PortBusy

(* Each client's part of it.                                               *)
DataAnswered  == [][~d_ready => DataWait' < DataWait]_msvars
FetchAnswered == [][~i_ready => FetchWait' < FetchWait]_msvars

(* A request that is not answered in a cycle is nearer to its answer after *)
(* it: no request starves, whatever the other cache asks for               *)
(* (memory_arbitrer.sv:56-90, dcache_engine_wb.sv:113-160).                *)
RequestsAnswered == DataAnswered /\ FetchAnswered
=============================================================================
