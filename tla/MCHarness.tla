----------------------------- MODULE MCHarness -----------------------------
(* A small harness.lua in several versions, with one of each thing: a task *)
(* whose output is linked, a tool of two actions, a suite, a test bench    *)
(* with a nested file list, two parameter sets whose names nest.  The file *)
(* may also be absent; the experiment rob is one of setup_config's.        *)
EXTENDS HarnessReportProofs

Crt     == <<"programs", "crt.s">>
Prog    == <<"programs", "add.s">>
Top     == <<"tb", "top.sv">>
Core    == <<"rtl", "core.sv">>
FileF   == <<"sim", "filelist.f">>

(* The last two are the file lists of setup_config.                        *)
SmallFileLists ==
  (FileF :> [plain |-> {Top}, nested |-> {Core}])
  @@ (<<"sim", "rv_pa3", "anyrom", "filelist.f">> :> [plain |-> {Top}, nested |-> {Core}])
  @@ (<<"sim", "common", "rob", "filelist.f">> :> [plain |-> {Top}, nested |-> {Core}])

SmallPrograms  == "isa" :> <<[entry |-> Prog, rel_path |-> <<"add">>, id |-> "add"]>>
SmallSources   == {Crt, Prog, Top, Core}
SmallEditable  == {Crt, Prog, Core}

CrtObj == task_dir(<<"build">>, "env", "crt") \o <<"crt.o">>

Task == [call |-> "add_task", namespace |-> "env", name |-> "crt",
         command |-> Cmd("gcc crt", {"out_dir"}), inputs |-> {Crt}, outputs |-> {"crt.o"},
         vars |-> NoEntries]

GccTool ==
  [call |-> "add_tool", name |-> "gcc", actions |-> <<
    Step("compile", Cmd("gcc -c", {"cflags", "in", "obj"}), <<>>, <<File("obj", "prog.o")>>),
    Step("link", Cmd("gcc -T", {"crt_obj", "obj", "elf"}), <<"obj">>, <<File("elf", "prog.elf")>>)>>]

IsaSuite(flags) ==
  [call |-> "add_suite", name |-> "isa", tool |-> "gcc", plusargs |-> <<>>,
   vars |-> [cflags |-> <<flags>>, crt_obj |-> CrtObj],
   program_overrides |-> NoEntries, sw_deps |-> {CrtObj}]

Verilator ==
  [call |-> "add_simulator", name |-> "verilator",
   compile_rule |-> Cmd("verilator", {"filelist", "out_dir"}),
   outputs |-> <<File("bin", "Vtop")>>, default_run_rule |-> Cmd("run", {"bin", "plusargs"})]

Anyrom(hook) ==
  [call |-> "add_testbench", name |-> "anyrom", filelist |-> FileF,
   run_template |-> Cmd("run elf", {"bin", "elf", "plusargs"}), sw_deps |-> {},
   pre_compile |-> hook]

ParamSet(name, defines, plusargs) ==
  [call |-> "add_param_set", name |-> name, defines |-> defines, plusargs |-> plusargs,
   sim_templates |-> NoEntries]

Exp(name, param_sets, suites) ==
  [call |-> "add_experiment", name |-> name, testbench |-> "anyrom",
   param_sets |-> param_sets, suites |-> suites, simulators |-> <<"verilator">>]

Script(flags, defines, plusargs, hook, others) ==
  <<[call |-> "set_build_dir", dir |-> <<"build">>], Task, GccTool, IsaSuite(flags), Verilator,
    Anyrom(hook), ParamSet("base", defines, plusargs), ParamSet("base_wt", "WT", <<>>),
    Exp("gandul", <<"base", "base_wt">>, <<"isa">>), Exp("smoke", others, <<>>)>>

(* Another version changes what is compiled, how, and how it is run; in a  *)
(* broken one the second experiment does not resolve.                      *)
SmallLua ==
  [first  |-> Script("-O0", "WB", <<>>, "none", <<"base">>),
   second |-> Script("-O1", "WB4", <<"+trace">>, "succeeds", <<"base">>),
   broken |-> Script("-O1", "WB4", <<>>, "none", <<"missing">>)]

SmallWithin == {<<"base", "base_wt">>}

Simple(command, name) == CommandLine(command, name, "", "", "", "")

SmallCommands ==
  {Simple(c, "gandul") : c \in {"simulate", "compile", "clean"}}
  \cup {Simple(c, "") : c \in {"clean", "gen", "list"}}
  \cup {CommandLine("simulate", "gandul", "base_wt", "", "", "base"),
        CommandLine("analyze", "gandul", "", "", "", "base"),
        Simple("simulate", "smoke"), Simple("simulate", "rob"),
        CommandLine("simulate", "gandul", "none", "", "", ""),
        CommandLine("clean", "", "", "add", "", "")}
=============================================================================
