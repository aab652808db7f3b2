---------------------------- MODULE HarnessJobs ----------------------------
(***************************************************************************)
(* From a configuration to jobs: hw.rs, sw.rs, sim.rs and resolve_all_jobs *)
(* of main.rs.  The operators say which jobs there are and which files     *)
(* resolving them writes; Harness writes them.                             *)
(*                                                                         *)
(* A generated file's content is what distinguishes it: the defines for    *)
(* harness_params.svh, the file list for resolved.f, the directory it      *)
(* includes for top.f, the command line for run.sh.                        *)
(***************************************************************************)
EXTENDS HarnessConfig

CONSTANTS
  FileLists,  \* path of a file list -> [plain, nested]: the sources it names
              \* on lines of their own, and those it reaches through "-f"
  Programs    \* name of a suite -> the programs its glob finds, each a
              \* [entry, rel_path, id]

-----------------------------------------------------------------------------
(* hw.rs                                                                   *)

params_svh(dir) == Append(dir, "harness_params.svh")
resolved_f(dir) == Append(dir, "resolved.f")
top_f(dir)      == Append(dir, "top.f")

(* The parameter sets of an experiment are resolved in order, up to the    *)
(* first that is unknown, whose hook fails or whose file list is missing.  *)
ParamSetResolves(c, exp, ps_name) ==
  /\ exp.testbench \in DOMAIN c.testbenches
  /\ ps_name \in DOMAIN c.param_sets
  /\ exp.testbench \in DOMAIN c.hooks => c.hooks[exp.testbench] = "succeeds"
  /\ c.testbenches[exp.testbench].filelist \in DOMAIN FileLists

Resolved(c, exp) ==
  {exp.param_sets[i] : i \in {k \in DOMAIN exp.param_sets :
     \A j \in 1..k : ParamSetResolves(c, exp, exp.param_sets[j])}}

HardwareFails(c, exp) ==
  \/ exp.testbench \notin DOMAIN c.testbenches
  \/ Resolved(c, exp) # ToSet(exp.param_sets)

(* Lines of the file list that start with "-" are not looked into.         *)
rtl_inputs(c, tb, dir) ==
  {params_svh(dir), resolved_f(dir)} \cup FileLists[c.testbenches[tb].filelist].plain

artifact_paths(artifacts, dir) ==
  [name \in {a.name : a \in ToSet(artifacts)} |->
     Append(dir, (CHOOSE a \in ToSet(artifacts) : a.name = name).filename)]

HardwareJob(c, tb, ps, sim) ==
  LET dir == hw_dir(c.build_dir, tb, ps, sim)
  IN [testbench |-> tb, param_set |-> ps, simulator |-> sim, silo_dir |-> dir,
      artifact_paths |-> artifact_paths(c.simulators[sim].outputs, dir),
      external_deps |-> c.testbenches[tb].sw_deps,
      rtl_inputs |-> rtl_inputs(c, tb, hw_common_dir(c.build_dir, tb, ps))]

(* The jobs of an experiment, in the order they are resolved.              *)
resolve_hardware(c, exp) ==
  FlattenSeq([i \in DOMAIN exp.param_sets |->
    [j \in DOMAIN exp.simulators |->
       HardwareJob(c, exp.testbench, exp.param_sets[i], exp.simulators[j])]])

(* The files this writes, all of them every time.                          *)
HardwareFiles(c, exp) ==
  LET tb == exp.testbench
      common(ps) == hw_common_dir(c.build_dir, tb, ps)
      dir(ps, sim) == hw_dir(c.build_dir, tb, ps, sim)
  IN UNION {
       {<<params_svh(common(ps)), <<"defines", c.param_sets[ps].defines>>>>,
        <<resolved_f(common(ps)), <<"filelist", c.testbenches[tb].filelist>>>>}
       \cup {<<top_f(dir(ps, sim)), <<"top", common(ps)>>>> : sim \in ToSet(exp.simulators)}
       : ps \in Resolved(c, exp)}

-----------------------------------------------------------------------------
(* sw.rs                                                                   *)

(* Variables a command mentions; an artifact's name hides a variable of    *)
(* the suite, and that one "in" and "out_dir".                             *)
ActionVariables(action, entry, dir, context, artifacts) ==
  LET all == Over(artifacts, Over(context, [in |-> entry, out_dir |-> dir]))
  IN Restrict(all, action.command.uses \cap DOMAIN all)

(* Mutant: every action is an edge from the source.                        *)
InputsOnlyEntry(suite, action, entry, artifacts) ==
  {entry} \cup (IF action.name = "link" THEN suite.sw_deps ELSE {})

(* sw_deps are added to the inputs of the action called "link".            *)
ActionInputs(suite, action, entry, artifacts) ==
  (IF action.inputs = <<>> THEN {entry}
                           ELSE {artifacts[n] : n \in ToSet(action.inputs)})
  \cup (IF action.name = "link" THEN suite.sw_deps ELSE {})

SoftwareJob(c, name, prog) ==
  LET suite     == c.suites[name]
      tool      == c.tools[suite.tool]
      dir       == sw_dir(c.build_dir, name, prog.rel_path)
      overrides == suite.program_overrides
      context   == IF prog.id \in DOMAIN overrides THEN Over(overrides[prog.id].vars, suite.vars)
                                                   ELSE suite.vars
      artifacts == artifact_paths(
                     FlattenSeq([i \in DOMAIN tool.actions |-> tool.actions[i].outputs]), dir)
  IN [suite_name |-> name, rel_path |-> prog.rel_path, silo_dir |-> dir,
      artifacts |-> artifacts,
      actions |-> [i \in DOMAIN tool.actions |->
        LET action == tool.actions[i]
        IN [rule_name |-> <<tool.name, action.name>>,
            inputs |-> ActionInputs(suite, action, prog.entry, artifacts),
            outputs |-> {artifacts[a.name] : a \in ToSet(action.outputs)},
            variables |-> ActionVariables(action, prog.entry, dir, context, artifacts)]]]

(* One job per program, in the order of the glob.                          *)
resolve_suite(c, name) ==
  [i \in DOMAIN Programs[name] |-> SoftwareJob(c, name, Programs[name][i])]

-----------------------------------------------------------------------------
(* sim.rs                                                                  *)

(* A suite the configuration does not know counts for nothing.             *)
SoftwareOf(c, exp) ==
  FlattenSeq([i \in DOMAIN exp.suites |->
    IF exp.suites[i] \in DOMAIN c.suites THEN resolve_suite(c, exp.suites[i])
                                         ELSE <<>>])

run_template(c, hw) ==
  LET tb == c.testbenches[hw.testbench]
      ps == c.param_sets[hw.param_set]
  IN IF hw.simulator \in DOMAIN ps.sim_templates THEN ps.sim_templates[hw.simulator]
     ELSE IF tb.run_template.text # "" THEN tb.run_template
     ELSE c.simulators[hw.simulator].default_run_rule

(* Variables without a value are erased from the command line.             *)
RunScript(c, hw, artifacts, suite_plusargs) ==
  LET template == run_template(c, hw)
  IN [text |-> template.text,
      args |-> Restrict(artifacts, template.uses \cap DOMAIN artifacts),
      plusargs |-> IF "plusargs" \in template.uses
                   THEN c.param_sets[hw.param_set].plusargs \o suite_plusargs
                   ELSE <<>>]

(* Mutant: a simulation depends on its hardware only.                      *)
SimJobOfHardware(c, exp, hw, dir, artifacts, suite_plusargs) ==
  [experiment |-> exp.name, hw_id |-> <<hw.testbench, hw.param_set>>, silo_dir |-> dir,
   dependencies |-> Range(hw.artifact_paths),
   run_sh |-> RunScript(c, hw, artifacts, suite_plusargs)]

SimJob(c, exp, hw, dir, artifacts, suite_plusargs) ==
  [experiment |-> exp.name, hw_id |-> <<hw.testbench, hw.param_set>>, silo_dir |-> dir,
   dependencies |-> {artifacts[n] : n \in DOMAIN artifacts},
   run_sh |-> RunScript(c, hw, artifacts, suite_plusargs)]

SoftwareSim(c, exp, hw, sw) ==
  SimJob(c, exp, hw,
         sim_dir(c.build_dir, exp.name, hw.testbench, hw.param_set, hw.simulator,
                 sw.suite_name, sw.rel_path),
         Over(hw.artifact_paths, sw.artifacts), c.suites[sw.suite_name].plusargs)

StandaloneSim(c, exp, hw) ==
  SimJob(c, exp, hw,
         standalone_dir(c.build_dir, exp.name, hw.testbench, hw.param_set, hw.simulator),
         hw.artifact_paths, <<>>)

(* One per piece of hardware and program, or per piece of hardware if the  *)
(* experiment runs no program.                                             *)
resolve_simulations(c, exp, hws, sws) ==
  FlattenSeq([i \in DOMAIN hws |->
    IF sws = <<>> THEN <<StandaloneSim(c, exp, hws[i])>>
    ELSE [j \in DOMAIN sws |-> SoftwareSim(c, exp, hws[i], sws[j])]])

(* Those of an experiment, as resolve_all_jobs asks for them.              *)
SimulationsOf(c, exp) ==
  resolve_simulations(c, exp, resolve_hardware(c, exp), SoftwareOf(c, exp))

run_sh(dir) == Append(dir, "run.sh")

SimulationFiles(c, exp) ==
  {<<run_sh(s.silo_dir), <<"script", s.run_sh>>>> :
     s \in ToSet(SimulationsOf(c, exp))}

-----------------------------------------------------------------------------
(* resolve_all_jobs of main.rs                                             *)

(* An experiment that does not resolve ends the command, and so leaves the *)
(* ones behind it alone.                                                   *)
ResolutionFails(c) == \E i \in DOMAIN c.experiments : HardwareFails(c, c.experiments[i])

(* Experiments share hardware: one job per directory.                      *)
AllHardware(c) ==
  UNION {ToSet(resolve_hardware(c, c.experiments[i])) : i \in DOMAIN c.experiments}

AllSoftware(c) == UNION {ToSet(resolve_suite(c, n)) : n \in DOMAIN c.suites}

AllSimulations(c) ==
  FlattenSeq([i \in DOMAIN c.experiments |-> SimulationsOf(c, c.experiments[i])])
=============================================================================
