-------------------------------- MODULE Silo --------------------------------
(***************************************************************************)
(* The directories of the harness (harness/src/silo.rs).  A path is the    *)
(* sequence of its components; root is the build directory.                *)
(***************************************************************************)
EXTENDS Sequences

hw_common_dir(root, tb, ps) == root \o <<"hw", tb, ps>>

(* Mutant: parameter sets share a directory.                               *)
shared_hw_dir(root, tb, ps, sim) == root \o <<"hw", tb, sim>>

(* One directory per test bench, parameter set and simulator.              *)
hw_dir(root, tb, ps, sim) == root \o <<"hw", tb, ps, sim>>

(* rel_path is the path of the program inside its suite.                   *)
sw_dir(root, suite, rel_path) == root \o <<"sw", suite>> \o rel_path

sim_dir(root, bind_name, tb, ps, sim, suite, rel_path) ==
  root \o <<"sim", bind_name, tb, ps, sim, suite>> \o rel_path

(* A simulation without software (sim.rs).                                 *)
standalone_dir(root, bind_name, tb, ps, sim) ==
  root \o <<"sim", bind_name, tb, ps, sim, "standalone">>

task_dir(root, namespace, name) == root \o <<"tasks", namespace, name>>
=============================================================================
