----------------------------- MODULE InstrCache -----------------------------
(***************************************************************************)
(* The instruction cache engine (rtl/common/icache.sv).  Fetch asks for a  *)
(* line in every cycle: dreq_valid_i is tied to reset_n (gandul.sv:341).   *)
(***************************************************************************)
EXTENDS CacheSets

VARIABLES isets, istate, ifreq

icvars == <<isets, istate, ifreq>>

InstrCacheInit == isets = EmptySets /\ istate = "IDLE" /\ ifreq = NoFreq

IcIdle(line) ==
  /\ istate = "IDLE"
  /\ UNCHANGED isets
  /\ IF Cached(isets, line)
     THEN istate' = "IDLE" /\ ifreq' = NoFreq
     ELSE istate' = "WAIT_READ" /\ ifreq' = ReadOf(line)

IcRead(line, frsp_valid, frsp_data) ==
  /\ istate = "WAIT_READ" /\ frsp_valid
  /\ istate' = "IDLE" /\ ifreq' = NoFreq
  /\ isets' = Refilled(isets, line, FALSE, frsp_data)

IcWaits(frsp_valid) == istate = "WAIT_READ" /\ ~frsp_valid /\ UNCHANGED icvars

InstrCacheStep(line, frsp_valid, frsp_data) ==
  IcIdle(line) \/ IcRead(line, frsp_valid, frsp_data) \/ IcWaits(frsp_valid)

icache_ready(line, frsp_valid) ==
  \/ istate = "IDLE" /\ Cached(isets, line)
  \/ istate = "WAIT_READ" /\ frsp_valid

icache_data(line, frsp_data) ==
  IF istate = "WAIT_READ" THEN frsp_data ELSE Copy(isets, line)
=============================================================================
