------------------------------ MODULE DataCache ------------------------------
(***************************************************************************)
(* The data cache engines: write-back (rtl/common/dcache_engine_wb.sv) and *)
(* write-through (dcache_engine_wt.sv), as DCACHE_STORE_POLICY chooses in  *)
(* dcache_wrapper.sv.  One step of an engine is one clock cycle; its       *)
(* inputs are the core's request and the answer of the next level.         *)
(*                                                                         *)
(* A request is [line, off, we, val]: a load or a store of one part of a   *)
(* line, or NoReq.  The word and byte offsets of dcache_controller.sv are  *)
(* off, its data and mask say that a store changes that part only.         *)
(***************************************************************************)
EXTENDS CacheSets

CONSTANTS Offs, Values, NoReq

VARIABLES
  policy,   \* "wb" or "wt", fixed when the design is built
  dsets,    \* the sets
  dstate,   \* fsm_state
  dfreq     \* freq_*_o, the request to the next level

dcvars == <<policy, dsets, dstate, dfreq>>

Data     == [Offs -> Values]
Requests == [line : Lines, off : Offs, we : BOOLEAN, val : Values]

Merged(data, req) == IF req.we THEN [data EXCEPT ![req.off] = req.val] ELSE data

-----------------------------------------------------------------------------
DataCacheInit ==
  /\ policy \in {"wb", "wt"}
  /\ dsets = EmptySets /\ dstate = "IDLE" /\ dfreq = NoFreq

(* Mutant: only the first way is looked at.                                *)
LooksInFirstWay(req) ==
  req # NoReq /\ 0 \notin hits(dsets, req.line)

miss(req) == req # NoReq /\ ~Cached(dsets, req.line)
hit(req)  == req # NoReq /\ Cached(dsets, req.line)

(* Write-back.                                                             *)

(* Mutant: a dirty victim is not written.                                  *)
NeverDirty(req) == FALSE

current_valid_and_dirty(req) ==
  Victim(dsets, req.line).valid /\ Victim(dsets, req.line).dirty


WbIdle(req) ==
  /\ dstate = "IDLE"
  /\ \/ /\ miss(req) /\ ~current_valid_and_dirty(req)
        /\ dstate' = "READ" /\ dfreq' = ReadOf(req.line) /\ UNCHANGED dsets
     \/ /\ miss(req) /\ current_valid_and_dirty(req)
        /\ dstate' = "EVICT"
        /\ dfreq' = WriteOf(Victim(dsets, req.line).line,
                            Victim(dsets, req.line).data)
        /\ UNCHANGED dsets
     \/ /\ ~miss(req)
        /\ dstate' = "IDLE" /\ dfreq' = NoFreq
        /\ dsets' = IF req # NoReq /\ req.we
                    THEN WithWay(dsets, req.line, HitIdx(dsets, req.line),
                           [valid |-> TRUE, dirty |-> TRUE, line |-> req.line,
                            data |-> Merged(Copy(dsets, req.line), req)])
                    ELSE dsets

(* Mutant: a store's refill is clean.                                      *)
WbReadClean(req, frsp_valid, frsp_data) ==
  /\ dstate = "READ" /\ frsp_valid
  /\ dstate' = "IDLE" /\ dfreq' = NoFreq
  /\ dsets' = Refilled(dsets, req.line, FALSE, Merged(frsp_data, req))

WbRead(req, frsp_valid, frsp_data) ==
  /\ dstate = "READ" /\ frsp_valid
  /\ dstate' = "IDLE" /\ dfreq' = NoFreq
  /\ dsets' = Refilled(dsets, req.line, req.we, Merged(frsp_data, req))

(* Mutant: the request starts again after an eviction.                     *)
WbEvictToIdle(req, frsp_valid) ==
  /\ dstate = "EVICT" /\ frsp_valid
  /\ dstate' = "IDLE" /\ dfreq' = NoFreq
  /\ dsets' = WithWay(dsets, req.line, ReplaceIdx(dsets, req.line),
                      [Victim(dsets, req.line) EXCEPT !.dirty = FALSE])

WbEvict(req, frsp_valid) ==
  /\ dstate = "EVICT" /\ frsp_valid
  /\ dstate' = "READ" /\ dfreq' = ReadOf(req.line)
  /\ dsets' = WithWay(dsets, req.line, ReplaceIdx(dsets, req.line),
                      [Victim(dsets, req.line) EXCEPT !.dirty = FALSE])

(* Write-through.                                                          *)

WtIdle(req) ==
  /\ dstate = "IDLE"
  /\ \/ /\ miss(req)
        /\ dstate' = IF req.we THEN "READ4WRITE" ELSE "READ"
        /\ dfreq' = ReadOf(req.line) /\ UNCHANGED dsets
     \/ /\ hit(req) /\ req.we
        /\ LET data == Merged(Copy(dsets, req.line), req)
           IN /\ dstate' = "WRITE" /\ dfreq' = WriteOf(req.line, data)
              /\ dsets' = WithWay(dsets, req.line, HitIdx(dsets, req.line),
                            [valid |-> TRUE, dirty |-> FALSE,
                             line |-> req.line, data |-> data])
     \/ /\ req = NoReq \/ (hit(req) /\ ~req.we)
        /\ dstate' = "IDLE" /\ dfreq' = NoFreq /\ UNCHANGED dsets

WtRead(req, frsp_valid, frsp_data) ==
  /\ dstate = "READ" /\ frsp_valid
  /\ dstate' = "IDLE" /\ dfreq' = NoFreq
  /\ dsets' = Refilled(dsets, req.line, FALSE, frsp_data)

WtRead4Write(req, frsp_valid, frsp_data) ==
  /\ dstate = "READ4WRITE" /\ frsp_valid
  /\ dstate' = "WRITE" /\ dfreq' = WriteOf(req.line, Merged(frsp_data, req))
  /\ dsets' = Refilled(dsets, req.line, FALSE, Merged(frsp_data, req))

WtWrite(frsp_valid) ==
  /\ dstate = "WRITE" /\ frsp_valid
  /\ dstate' = "IDLE" /\ dfreq' = NoFreq /\ UNCHANGED dsets

Waits(frsp_valid) ==
  /\ dstate # "IDLE" /\ ~frsp_valid
  /\ UNCHANGED <<dsets, dstate, dfreq>>

DataCacheStep(req, frsp_valid, frsp_data) ==
  /\ UNCHANGED policy
  /\ \/ Waits(frsp_valid)
     \/ /\ policy = "wb"
        /\ \/ WbIdle(req)
           \/ WbRead(req, frsp_valid, frsp_data)
           \/ WbEvict(req, frsp_valid)
     \/ /\ policy = "wt"
        /\ \/ WtIdle(req)
           \/ WtRead(req, frsp_valid, frsp_data)
           \/ WtRead4Write(req, frsp_valid, frsp_data)
           \/ WtWrite(frsp_valid)

-----------------------------------------------------------------------------
(* To the core.                                                            *)

dreq_ready(req, frsp_valid) ==
  \/ dstate = "IDLE" /\ ~miss(req) /\ ~(policy = "wt" /\ hit(req) /\ req.we)
  \/ dstate = "READ" /\ frsp_valid
  \/ dstate = "WRITE" /\ frsp_valid

(* The answer to a load: the refill is bypassed, or the copy is read.      *)
drsp_data(req, frsp_data) ==
  IF dstate = "READ" THEN frsp_data[req.off] ELSE Copy(dsets, req.line)[req.off]

=============================================================================
