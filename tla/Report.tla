------------------------------- MODULE Report -------------------------------
(***************************************************************************)
(* What run_analysis (analysis.rs) makes of the logs it is pointed at.     *)
(***************************************************************************)
EXTENDS Sequences, SequencesExt, FiniteSets

CONSTANT Within     \* pairs of strings, the first part of the second

(* str::contains, for a path or an identifier that is a sequence of parts. *)
Matches(part, path) == \E i \in DOMAIN path : part = path[i] \/ <<part, path[i]>> \in Within

SimStatus(result) ==
  CASE result = "0" -> "Pass"
    [] result = "1" -> "Fail"
    [] result = "2" -> "Timeout"
    [] OTHER        -> "Crash"

(* Fields of the report that are read off the log's path.                  *)
experiment(log) == log[3]
hw_id(log)      == <<log[4], log[5]>>
program(log)    == SubSeq(log, 7, Len(log) - 1)

is_standalone(log) == \E i \in 2 .. Len(log) - 1 : log[i] = "standalone"

(* Targets without a log are left out, as are paths that are too short.    *)
Analysed(targets, logs) == {t \in ToSet(targets) \cap logs : Len(t) >= 8}

(* Mutant: timeouts and crashes are no failures.                           *)
FailsOnly(results, name) ==
  Cardinality({t \in DOMAIN results : experiment(t) = name /\ results[t] = "Fail"})

Fails(results, name) ==
  Cardinality({t \in DOMAIN results : experiment(t) = name /\ results[t] # "Pass"})

(* The line below an experiment's tables; there is none for one that ran   *)
(* without software.                                                       *)
Banner(results, name) ==
  IF \A t \in DOMAIN results : experiment(t) = name => is_standalone(t) THEN "none"
  ELSE IF Fails(results, name) = 0 THEN "ALL TESTS PASSED!" ELSE "TESTS FAILED"

(* Mutant: the last that holds the name.                                   *)
LastBaselineOf(logs, prog, baseline) ==
  LET runs == SelectSeq(logs, LAMBDA t : program(t) = prog /\ Matches(baseline, hw_id(t)))
  IN IF runs = <<>> THEN <<>> ELSE hw_id(runs[Len(runs)])

(* The hardware a program's runs are compared with: the first that holds   *)
(* the name asked for, or the first of all.                                *)
BaselineOf(logs, prog, baseline) ==
  LET runs == SelectSeq(logs, LAMBDA t : program(t) = prog /\ ~is_standalone(t))
      held == SelectSeq(runs, LAMBDA t : Matches(baseline, hw_id(t)))
  IN IF runs = <<>> \/ (Len(runs) < 2 /\ baseline = "") THEN <<>>
     ELSE IF held # <<>> THEN hw_id(held[1]) ELSE hw_id(runs[1])
=============================================================================
