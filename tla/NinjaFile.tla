----------------------------- MODULE NinjaFile -----------------------------
(***************************************************************************)
(* The build graph: what ninja.rs writes into build.ninja.  An edge is     *)
(* named by the set of its outputs.  Beside what build.ninja says of it,   *)
(* it has the files its command opens: those are what ninja would have to  *)
(* know.                                                                   *)
(***************************************************************************)
EXTENDS HarnessJobs

CONSTANT Lua    \* name of a version of harness.lua -> its calls

NoLua    == "no harness.lua"
Versions == DOMAIN Lua \cup {NoLua}

(* Which configuration main works on.                                      *)
Config == [s \in Versions |-> IF s = NoLua THEN setup_config ELSE load_config(Lua[s])]

(* Those whose experiments all resolve.                                    *)
Sound == {s \in Versions : ~ResolutionFails(Config[s])}

(* Directories and the vectors of core.rs are sequences.                   *)
IsSeq(x) == x \in Seq(Range(x))

ASSUME ConfigAssumption ==
  \A s \in Sound :
    /\ IsSeq(Config[s].build_dir) /\ IsSeq(Config[s].experiments)
    /\ \A i \in DOMAIN Config[s].experiments : LET exp == Config[s].experiments[i] IN
         IsSeq(exp.param_sets) /\ IsSeq(exp.simulators) /\ IsSeq(exp.suites)
    /\ \A n \in DOMAIN Config[s].suites :
         /\ n \in DOMAIN Programs /\ IsSeq(Programs[n])
         /\ \A i \in DOMAIN Programs[n] : IsSeq(Programs[n][i].rel_path)
         /\ LET tool == Config[s].tools[Config[s].suites[n].tool] IN
              IsSeq(tool.actions) /\ \A i \in DOMAIN tool.actions : IsSeq(tool.actions[i].outputs)

-----------------------------------------------------------------------------
(* Rules.  A rule is the command of the simulator, tool action or task it  *)
(* is named after; of two actions of a tool that share a name the first    *)
(* makes it.                                                               *)

SimulatorRules(c) ==
  [r \in {<<s, "compile">> : s \in DOMAIN c.simulators} |-> c.simulators[r[1]].compile_rule]

ToolRules(c) ==
  [r \in UNION {{<<t, a.name>> : a \in ToSet(c.tools[t].actions)} : t \in DOMAIN c.tools} |->
     SelectSeq(c.tools[r[1]].actions, LAMBDA a : a.name = r[2])[1].command]

TaskRules(c) ==
  [r \in {<<"task", t.name>> : t \in ToSet(c.tasks)} |->
     (CHOOSE t \in ToSet(c.tasks) : <<"task", t.name>> = r).command]

run_sim_script == <<"run_sim_script">>

rules(c) ==
  SimulatorRules(c) @@ ToolRules(c) @@ TaskRules(c)
  @@ (run_sim_script :> Cmd("./run.sh > sim.log", {"dir"}))

(* What ninja compares to see whether a command changed.                   *)
ExpandedCommand(rule, vars) == <<<<rule.text>>, Restrict(vars, rule.uses \cap DOMAIN vars)>>

-----------------------------------------------------------------------------
(* Edges.                                                                  *)

TaskEdge(t) ==
  [rule |-> <<"task", t.name>>, outs |-> t.outputs, ins |-> t.inputs,
   vars |-> t.vars, opens |-> t.inputs]

(* A simulator follows top.f to resolved.f, and that to every source.      *)
HardwareEdge(c, h) ==
  LET filelist == FileLists[c.testbenches[h.testbench].filelist]
      common   == hw_common_dir(c.build_dir, h.testbench, h.param_set)
      top      == top_f(h.silo_dir)
  IN [rule |-> <<h.simulator, "compile">>, outs |-> Range(h.artifact_paths),
      ins |-> {top} \cup h.rtl_inputs \cup h.external_deps,
      vars |-> [filelist |-> top, out_dir |-> h.silo_dir],
      opens |-> {top, params_svh(common), resolved_f(common)}
                \cup filelist.plain \cup filelist.nested \cup h.external_deps]

(* The command opens the files its variables name.                         *)
SoftwareEdge(a) ==
  [rule |-> a.rule_name, outs |-> a.outputs, ins |-> a.inputs,
   vars |-> a.variables, opens |-> (a.inputs \cup Range(a.variables)) \ a.outputs]

sim_log(s) == Append(s.silo_dir, "sim.log")

SimulationEdge(s) ==
  [rule |-> run_sim_script, outs |-> {sim_log(s)}, ins |-> s.dependencies,
   vars |-> [dir |-> s.silo_dir],
   opens |-> {run_sh(s.silo_dir)} \cup Range(s.run_sh.args)]

(* Ninja takes a file only if every rule has one declaration, every output *)
(* one edge and every edge an output.  Only the rules of simulators and    *)
(* tools are checked for that before they are written.  Of programs with   *)
(* one path, of actions and of simulations each has an edge, also if the   *)
(* edges are the same.                                                     *)
Accepts(c, sw, sims, edges) ==
  /\ \A i, j \in DOMAIN c.tasks : i # j => c.tasks[i].name # c.tasks[j].name
  /\ DOMAIN TaskRules(c) \cap (DOMAIN SimulatorRules(c) \cup DOMAIN ToolRules(c)) = {}
  /\ \A n \in DOMAIN c.suites : \A i, j \in DOMAIN Programs[n] :
       i # j => Programs[n][i].rel_path # Programs[n][j].rel_path
  /\ \A job \in sw : \A i, j \in DOMAIN job.actions :
       i # j => job.actions[i].outputs \cap job.actions[j].outputs = {}
  /\ \A i, j \in DOMAIN sims : i # j => sim_log(sims[i]) # sim_log(sims[j])
  /\ \A e, f \in edges : e # f => e.outs \cap f.outs = {}
  /\ \A e \in edges : e.outs # {}

(* The build lines, whatever their order.                                  *)
EdgesOf(c, hw, sw, sims) ==
  {TaskEdge(t) : t \in ToSet(c.tasks)}
  \cup {HardwareEdge(c, h) : h \in hw}
  \cup {SoftwareEdge(a) : a \in UNION {ToSet(j.actions) : j \in sw}}
  \cup {SimulationEdge(s) : s \in ToSet(sims)}

(* What ninja loads.                                                       *)
Graph(c, edges) == [o \in {e.outs : e \in edges} |->
  LET e == CHOOSE x \in edges : x.outs = o
  IN [ins |-> e.ins, opens |-> e.opens, simulates |-> e.rule = run_sim_script,
      command |-> ExpandedCommand(rules(c)[e.rule], e.vars)]]

generate(c, hw, sw, sims) ==
  LET edges == EdgesOf(c, hw, sw, sims)
  IN [accepted |-> Accepts(c, sw, sims, edges), edges |-> Graph(c, edges)]
=============================================================================
