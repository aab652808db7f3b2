--------------------------- MODULE HarnessConfig ---------------------------
(***************************************************************************)
(* The configuration of the harness: what core.rs declares, and how the    *)
(* calls of harness.lua build it (lua_engine.rs).                          *)
(*                                                                         *)
(* A script is a sequence of calls, records with a field "call" and the    *)
(* fields of the Lua table.  A command or a run template is a record of    *)
(* its text and of the variables ($name) that occur in it.  Values of      *)
(* variables are paths, a word being a path of one component.              *)
(***************************************************************************)
EXTENDS Silo, SequencesExt

NoEntries == <<>>       \* a map without keys

(* new, and old where new says nothing.                                    *)
Over(new, old) == [p \in DOMAIN new \cup DOMAIN old |->
  IF p \in DOMAIN new THEN new[p] ELSE old[p]]

Insert(map, name, x) == Over(name :> x, map)

(* Config::new                                                             *)
NewConfig ==
  [build_dir |-> <<"build">>, tools |-> NoEntries, simulators |-> NoEntries,
   suites |-> NoEntries, testbenches |-> NoEntries, param_sets |-> NoEntries,
   experiments |-> <<>>, tasks |-> <<>>, hooks |-> NoEntries]

-----------------------------------------------------------------------------
(* The calls.  Maps keep the last entry of a name; experiments and tasks   *)
(* are lists.                                                              *)

(* The directory of a task is fixed when the task is added, under the      *)
(* build directory known at that time.                                     *)
AddTask(c, t) ==
  LET dir == task_dir(c.build_dir, t.namespace, t.name)
  IN [c EXCEPT !.tasks = Append(@,
       [namespace |-> t.namespace, name |-> t.name, command |-> t.command,
        inputs |-> t.inputs, outputs |-> {Append(dir, f) : f \in t.outputs},
        vars |-> Over("out_dir" :> dir, t.vars)])]

(* The hook of an earlier test bench of that name stays if this one brings *)
(* none.                                                                   *)
AddTestbench(c, tb) ==
  [c EXCEPT !.testbenches = Insert(@, tb.name, tb),
            !.hooks = IF tb.pre_compile = "none" THEN @
                      ELSE Insert(@, tb.name, tb.pre_compile)]

AddTool(c, tool)    == [c EXCEPT !.tools = Insert(@, tool.name, tool)]
AddSimulator(c, s)  == [c EXCEPT !.simulators = Insert(@, s.name, s)]
AddSuite(c, s)      == [c EXCEPT !.suites = Insert(@, s.name, s)]
AddParamSet(c, ps)  == [c EXCEPT !.param_sets = Insert(@, ps.name, ps)]
AddExperiment(c, e) == [c EXCEPT !.experiments = Append(@, e)]
SetBuildDir(c, dir) == [c EXCEPT !.build_dir = dir]

Call(c, x) ==
  CASE x.call = "add_task"       -> AddTask(c, x)
    [] x.call = "add_testbench"  -> AddTestbench(c, x)
    [] x.call = "add_tool"       -> AddTool(c, x)
    [] x.call = "add_simulator"  -> AddSimulator(c, x)
    [] x.call = "add_suite"      -> AddSuite(c, x)
    [] x.call = "add_param_set"  -> AddParamSet(c, x)
    [] x.call = "add_experiment" -> AddExperiment(c, x)
    [] x.call = "set_build_dir"  -> SetBuildDir(c, x.dir)

load_config(script) == FoldLeft(Call, NewConfig, script)

-----------------------------------------------------------------------------
(* setup_config of main.rs, the configuration without a harness.lua.  The  *)
(* build directory is the one its SiloResolver is given.                   *)

Cmd(text, uses)    == [text |-> text, uses |-> uses]
File(name, file)   == [name |-> name, filename |-> file]
Step(name, command, inputs, outputs) ==
  [name |-> name, command |-> command, inputs |-> inputs, outputs |-> outputs]

RiscvGcc ==
  [name |-> "riscv_gcc", actions |-> <<
    Step("compile", Cmd("gcc -c", {"flags", "in", "obj"}), <<>>, <<File("obj", "prog.o")>>),
    Step("link", Cmd("gcc -T", {"flags", "ld", "map", "obj", "elf"}), <<"obj">>,
         <<File("elf", "prog.elf"), File("map", "prog.map")>>),
    Step("rom", Cmd("objcopy .text", {"elf", "out_dir", "rom"}), <<"elf">>,
         <<File("rom", "rom.hex")>>),
    Step("sram", Cmd("objcopy .data", {"elf", "out_dir", "sram"}), <<"elf">>,
         <<File("sram", "sram.hex")>>)>>]

SimpleTestbench(name, filelist, uses) ==
  [name |-> name, filelist |-> filelist, run_template |-> Cmd(name, uses),
   sw_deps |-> {}, pre_compile |-> "none"]

SimpleParamSet(name, defines) ==
  [name |-> name, defines |-> defines, plusargs |-> <<>>, sim_templates |-> NoEntries]

SimpleExperiment(name, tb, param_sets, suites) ==
  [name |-> name, testbench |-> tb, param_sets |-> param_sets, suites |-> suites,
   simulators |-> <<"verilator">>]

setup_config ==
  [NewConfig EXCEPT
    !.tools = "riscv_gcc" :> RiscvGcc,
    !.suites = "isa" :>
      [name |-> "isa", tool |-> "riscv_gcc", plusargs |-> <<>>,
       vars |-> [flags |-> <<"rv32i">>, ld |-> <<"programs", "link.ld">>],
       program_overrides |-> NoEntries, sw_deps |-> {}],
    !.simulators = "verilator" :>
      [name |-> "verilator", compile_rule |-> Cmd("verilator", {"filelist", "out_dir"}),
       outputs |-> <<File("bin", "Vtop")>>, default_run_rule |-> Cmd("run", {"bin", "plusargs"})],
    !.testbenches =
      ("rv_pa3.anyrom" :> SimpleTestbench("rv_pa3.anyrom",
         <<"sim", "rv_pa3", "anyrom", "filelist.f">>, {"bin", "plusargs", "rom", "sram"}))
      @@ ("common.rob" :> SimpleTestbench("common.rob",
         <<"sim", "common", "rob", "filelist.f">>, {"bin", "plusargs"})),
    !.param_sets = ("base" :> SimpleParamSet("base", "UNIFIED=0"))
                   @@ ("unified" :> SimpleParamSet("unified", "UNIFIED=1")),
    !.experiments =
      <<SimpleExperiment("regression", "rv_pa3.anyrom", <<"base", "unified">>, <<"isa">>),
        SimpleExperiment("regression2", "rv_pa3.anyrom", <<"unified">>, <<"isa">>),
        SimpleExperiment("rob", "common.rob", <<"base">>, <<>>)>>,
    !.build_dir = <<"build_test">>]
=============================================================================
