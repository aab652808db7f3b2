------------------------------ MODULE Harness ------------------------------
(***************************************************************************)
(* The harness (main.rs, cli.rs): one command at a time loads the          *)
(* configuration, resolves every experiment, and then builds, simulates,   *)
(* analyses or cleans.  Sources and harness.lua are edited at any moment,  *)
(* and a command may be interrupted.                                       *)
(***************************************************************************)
EXTENDS Ninja, Report, Naturals

CONSTANTS
  Sources,        \* the files of the repository that commands open
  FirstLua,       \* the versions of harness.lua it may begin with
  Editable,       \* those that are edited
  CommandLines,   \* the commands given
  MaxEvents       \* bound: commands given, and mishaps: edits, of sources
                  \* and of harness.lua, commands that ninja runs and that
                  \* fail, and interrupts

ASSUME ScriptsAssumption == FirstLua \subseteq Versions

(* No source is in a build directory: clean would take it away.            *)
ASSUME SourcesAssumption ==
  /\ Editable \subseteq Sources
  /\ \A p \in Sources : IsSeq(p) /\ \A s \in Versions : ~IsPrefix(Config[s].build_dir, p)

VARIABLES
  harness_lua,  \* the version of harness.lua on disk
  pc,           \* how far the command has come
  cmd,          \* the command line
  config,       \* the version of harness.lua it loaded
  targets,      \* what it asks ninja for, and the logs it analyses
  report,       \* log -> status, from its analysis
  outcome,      \* how it ended
  quiet,        \* nothing was edited since it began
  budget        \* events left

hvars == <<harness_lua, pc, cmd, config, targets, report, outcome, quiet, budget>>
vars  == <<nvars, hvars>>

(* cli.rs: a command with its arguments, "" for one that is not given.     *)
CommandLine(command, name, hw, sw, sim, baseline) ==
  [command |-> command, experiment |-> name, hw |-> hw, sw |-> sw, sim |-> sim,
   baseline |-> baseline]

TypeOK ==
  /\ harness_lua \in Versions /\ config \in Versions
  /\ build_ninja \in Sound \cup {NoFile}
  /\ pc \in {"idle", "loaded", "resolved", "plan", "ninja", "analyse"}
  /\ quiet \in BOOLEAN /\ keep_going \in BOOLEAN
  /\ outcome \in {"none", "done", "error", "interrupted"}
  /\ Sources \subseteq DOMAIN disk
  /\ \A p \in DOMAIN ninja_log : ninja_log[p].changed \subseteq InputsOf[p]
  /\ pc # "ninja" => DOMAIN running = {}
  /\ DOMAIN running \cap (todo \cup failed) = {} /\ todo \cap failed = {}
  /\ DOMAIN report \subseteq ToSet(targets) \cap DOMAIN disk

-----------------------------------------------------------------------------
(* Resolving.  All experiments are resolved, whatever the command.         *)

C == Config[config]

(* The files that resolving writes, up to the first experiment that fails. *)
FilesOf(c) ==
  LET fine(i) == ~HardwareFails(c, c.experiments[i])
      hw   == {i \in DOMAIN c.experiments : \A j \in 1 .. i - 1 : fine(j)}
      sims == {i \in hw : fine(i)}
  IN (UNION {HardwareFiles(c, c.experiments[i]) : i \in hw})
     \cup UNION {SimulationFiles(c, c.experiments[i]) : i \in sims}

ContentsIn(written) ==
  [p \in {w[1] : w \in written} |-> (CHOOSE w \in written : w[1] = p)[2]]

Files == [s \in Versions |-> ContentsIn(FilesOf(Config[s]))]

Sims == [s \in Sound |-> AllSimulations(Config[s])]

(* Mutant: a file that has the content already is left alone.              *)
WritesChanged(s) == {p \in DOMAIN Files[s] : p \in DOMAIN disk =>
                       disk[p].from # {<<p, Files[s][p]>>}}

(* Each file is written again, also with the content it has.               *)
Writes(s) == DOMAIN Files[s]

Rewritten(s) ==
  Over([p \in Writes(s) |-> [from |-> {<<p, Files[s][p]>>}, result |-> NoResult]], disk)

-----------------------------------------------------------------------------
Init ==
  /\ harness_lua \in FirstLua
  /\ disk = [p \in Sources |-> [from |-> {<<p, 0>>}, result |-> NoResult]]
  /\ build_ninja = NoFile /\ ninja_log = << >>
  /\ todo = {} /\ running = << >> /\ failed = {} /\ keep_going = FALSE
  /\ pc = "idle" /\ cmd = (CHOOSE x \in CommandLines : TRUE) /\ config = harness_lua
  /\ targets = <<>> /\ report = << >> /\ outcome = "none" /\ quiet = FALSE
  /\ budget = MaxEvents

Ends(how) == pc' = "idle" /\ outcome' = how

Stays == UNCHANGED <<harness_lua, cmd, config, quiet, budget>>

Event == budget > 0 /\ budget' = budget - 1

(* Mutant: the failures of the command before stay.                        *)
LoadKeepsFailed ==
  /\ pc = "idle" /\ Event
  /\ pc' = "loaded" /\ cmd' \in CommandLines /\ config' = harness_lua
  /\ targets' = <<>> /\ report' = << >> /\ outcome' = "none" /\ quiet' = TRUE
  /\ todo' = {} /\ keep_going' = FALSE
  /\ UNCHANGED <<disk, build_ninja, ninja_log, running, failed, harness_lua>>

Load ==
  /\ pc = "idle" /\ Event
  /\ pc' = "loaded" /\ cmd' \in CommandLines /\ config' = harness_lua
  /\ targets' = <<>> /\ report' = << >> /\ outcome' = "none" /\ quiet' = TRUE
  /\ todo' = {} /\ failed' = {} /\ keep_going' = FALSE
  /\ UNCHANGED <<disk, build_ninja, ninja_log, running, harness_lua>>

(* clean without arguments.                                                *)
FullClean == /\ cmd.command = "clean"
             /\ cmd.experiment = "" /\ cmd.hw = "" /\ cmd.sw = "" /\ cmd.sim = ""

Without(dirs) ==
  Restrict(disk, {p \in DOMAIN disk : \A d \in dirs : ~IsPrefix(d, p)})

CleanAll ==
  /\ pc = "loaded" /\ FullClean
  /\ disk' = Without({C.build_dir}) /\ build_ninja' = NoFile
  /\ Ends("done")
  /\ UNCHANGED <<ninja_log, todo, running, failed, keep_going, targets, report>> /\ Stays

(* Mutant: the files keep their times.                                     *)
ResolveKeepsTimes ==
  /\ pc = "loaded" /\ ~FullClean
  /\ disk' = Rewritten(config) /\ UNCHANGED ninja_log
  /\ IF config \in Sound THEN pc' = "resolved" /\ UNCHANGED outcome ELSE Ends("error")
  /\ UNCHANGED <<build_ninja, todo, running, failed, keep_going, targets, report>> /\ Stays

resolve_all_jobs ==
  /\ pc = "loaded" /\ ~FullClean
  /\ disk' = Rewritten(config) /\ ninja_log' = Stamped(ninja_log, Writes(config))
  /\ IF config \in Sound THEN pc' = "resolved" /\ UNCHANGED outcome ELSE Ends("error")
  /\ UNCHANGED <<build_ninja, todo, running, failed, keep_going, targets, report>> /\ Stays

-----------------------------------------------------------------------------
(* The commands, once everything is resolved.                              *)

Gen ==
  /\ pc = "resolved" /\ cmd.command = "gen"
  /\ build_ninja' = config /\ Ends("done")
  /\ UNCHANGED <<disk, ninja_log, todo, running, failed, keep_going, targets, report>> /\ Stays

ForExperiment == cmd.command \in {"simulate", "compile", "analyze"}

(* list, and a command that names no experiment.                           *)
List ==
  /\ pc = "resolved"
  /\ cmd.command = "list" \/ (ForExperiment /\ cmd.experiment = "")
  /\ Ends("done")
  /\ UNCHANGED <<nvars, targets, report>> /\ Stays

Named == {i \in DOMAIN C.experiments : C.experiments[i].name = cmd.experiment}

NotFound ==
  /\ pc = "resolved" /\ ForExperiment /\ cmd.experiment # "" /\ Named = {}
  /\ Ends("error")
  /\ UNCHANGED <<nvars, targets, report>> /\ Stays

(* A filter that is not given lets everything through.  Some are compared  *)
(* with a name, some are looked for in a path; --sw is a pattern, here a   *)
(* plain piece of text.                                                    *)
Is(filter, name) == filter \in {"", name}
In(filter, path) == filter = "" \/ Matches(filter, path)

SimulationTargets ==
  LET sims == Sims[config]
      chosen(s) == /\ s.experiment = cmd.experiment
                   /\ In(cmd.hw, s.hw_id) /\ In(cmd.sim, s.silo_dir) /\ In(cmd.sw, s.silo_dir)
  IN FlattenSeq([i \in DOMAIN sims |->
       IF chosen(sims[i]) THEN <<sim_log(sims[i])>> ELSE <<>>])

(* Mutant: the programs of the experiment are left to simulate.            *)
CompilesHardware ==
  UNION {Range(h.artifact_paths) : h \in {j \in AllHardware(C) :
           \E i \in Named : /\ j.testbench = C.experiments[i].testbench
                           /\ j.param_set \in ToSet(C.experiments[i].param_sets)}}

CompileTargets ==
  LET exp == C.experiments[CHOOSE i \in Named : \A j \in Named : i <= j]
      hw  == {h \in AllHardware(C) :
                /\ h.testbench = exp.testbench /\ h.param_set \in ToSet(exp.param_sets)
                /\ Is(cmd.hw, h.param_set) /\ Is(cmd.sim, h.simulator)}
      sw  == {j \in AllSoftware(C) :
                j.suite_name \in ToSet(exp.suites) /\ In(cmd.sw, j.rel_path)}
  IN UNION ({Range(h.artifact_paths) : h \in hw} \cup {Range(j.artifacts) : j \in sw})

(* build.ninja is written for all jobs, whatever is asked of it.           *)
AskNinja(files, keep) ==
  /\ targets' = files /\ build_ninja' = config /\ keep_going' = keep /\ pc' = "plan"
  /\ UNCHANGED <<disk, ninja_log, todo, running, failed, report, outcome>>

(* Mutant: without -k 0.                                                   *)
SimulateStops ==
  /\ pc = "resolved" /\ cmd.command = "simulate" /\ Named # {}
  /\ SimulationTargets # <<>> /\ AskNinja(SimulationTargets, FALSE) /\ Stays

Simulate ==
  /\ pc = "resolved" /\ cmd.command = "simulate" /\ Named # {}
  /\ SimulationTargets # <<>> /\ AskNinja(SimulationTargets, TRUE) /\ Stays

Compile ==
  /\ pc = "resolved" /\ cmd.command = "compile" /\ Named # {}
  /\ CompileTargets # {} /\ AskNinja(SetToSeq(CompileTargets), FALSE) /\ Stays

Analyze ==
  /\ pc = "resolved" /\ cmd.command = "analyze" /\ Named # {}
  /\ targets' = SimulationTargets /\ pc' = "analyse"
  /\ UNCHANGED <<nvars, report, outcome>> /\ Stays

(* No file passes the filters.                                             *)
NothingToDo ==
  /\ pc = "resolved" /\ Named # {}
  /\ \/ cmd.command = "simulate" /\ SimulationTargets = <<>>
     \/ cmd.command = "compile" /\ CompileTargets = {}
  /\ Ends("done") /\ UNCHANGED <<nvars, targets, report>> /\ Stays

(* Mutant: simulations are not looked at for their experiment either.      *)
CleansEveryExperiment ==
  {s.silo_dir : s \in {x \in ToSet(Sims[config]) :
                         In(cmd.sw, x.silo_dir) /\ In(cmd.hw, x.silo_dir)}}

(* Directories that clean removes.  Hardware is not looked at for its      *)
(* experiment, nor a simulation for its simulator.                         *)
CleanedDirs ==
  LET sims   == {s \in ToSet(Sims[config]) :
                   /\ Is(cmd.experiment, s.experiment)
                   /\ In(cmd.sw, s.silo_dir) /\ In(cmd.hw, s.silo_dir)}
      hw     == {h \in AllHardware(C) : Is(cmd.hw, h.param_set) /\ Is(cmd.sim, h.simulator)}
      suites == {n \in DOMAIN C.suites : cmd.sw # "" /\ In(cmd.sw, <<n>>)}
      sw     == {j \in AllSoftware(C) : cmd.sw # "" /\ In(cmd.sw, j.rel_path)}
  IN {s.silo_dir : s \in sims} \cup {h.silo_dir : h \in hw}
     \cup {sw_dir(C.build_dir, n, <<>>) : n \in suites}
     \cup {sw_dir(C.build_dir, j.suite_name, j.rel_path) : j \in sw}

Clean ==
  /\ pc = "resolved" /\ cmd.command = "clean"
  /\ disk' = Without(CleanedDirs) /\ Ends("done")
  /\ UNCHANGED <<build_ninja, ninja_log, todo, running, failed, keep_going, targets, report>>
  /\ Stays

-----------------------------------------------------------------------------
(* run_ninja, whose result no command looks at, and run_analysis.          *)

NinjaBegins ==
  /\ pc = "plan" /\ pc' = "ninja" /\ todo' = Plan(ToSet(targets))
  /\ UNCHANGED <<disk, build_ninja, ninja_log, running, failed, keep_going, targets,
                 report, outcome>> /\ Stays

NinjaWorks ==
  /\ pc = "ninja"
  /\ \/ \E o \in todo : EdgeStart(o)
     \/ \E o \in DOMAIN running, r \in Results \cup {NoResult} : EdgeSucceeds(o, r)
  /\ UNCHANGED hvars

NinjaFails ==
  /\ pc = "ninja" /\ Event
  /\ \E o \in DOMAIN running : EdgeFails(o)
  /\ UNCHANGED <<harness_lua, pc, cmd, config, targets, report, outcome, quiet>>

NinjaEnds ==
  /\ pc = "ninja" /\ Finished
  /\ IF cmd.command = "simulate" THEN pc' = "analyse" /\ UNCHANGED outcome ELSE Ends("done")
  /\ UNCHANGED <<nvars, targets, report>> /\ Stays

Logs == Analysed(targets, DOMAIN disk)

run_analysis ==
  /\ pc = "analyse"
  /\ report' = [t \in Logs |-> SimStatus(disk[t].result)]
  /\ Ends("done") /\ UNCHANGED <<nvars, targets>> /\ Stays

-----------------------------------------------------------------------------
(* The user.                                                               *)

EditSource(p) ==
  /\ quiet' = FALSE
  /\ disk' = [disk EXCEPT ![p].from = {<<p, v[2] + 1>> : v \in @}]
  /\ ninja_log' = Stamped(ninja_log, {p}) /\ running' = Overtaken(running, {p})
  /\ UNCHANGED <<build_ninja, todo, failed, keep_going,
                 harness_lua, pc, cmd, config, targets, report, outcome>>

EditScript(s) ==
  /\ quiet' = FALSE
  /\ s # harness_lua /\ harness_lua' = s
  /\ UNCHANGED <<nvars, pc, cmd, config, targets, report, outcome>>

Interrupt ==
  /\ pc # "idle"
  /\ Killed /\ Ends("interrupted")
  /\ UNCHANGED <<harness_lua, cmd, config, targets, report, quiet>>

Command ==
  \/ Load \/ CleanAll \/ resolve_all_jobs
  \/ Gen \/ List \/ NotFound \/ Simulate \/ Compile \/ Analyze \/ NothingToDo \/ Clean
  \/ NinjaBegins \/ NinjaWorks \/ NinjaFails \/ NinjaEnds \/ run_analysis

User ==
  /\ Event
  /\ \/ \E p \in Editable : EditSource(p)
     \/ \E s \in Versions : EditScript(s)
     \/ Interrupt

Next == Command \/ User

Spec == Init /\ [][Next]_vars

-----------------------------------------------------------------------------
(* Properties.                                                             *)

(* What a file would hold if it were made now, from nothing.               *)
Origin == [s \in Sound |-> [o \in DOMAIN Generated[s].edges |->
  Upstream([q \in DOMAIN Generated[s].edges |-> [ins |-> Generated[s].edges[q].opens]], o)]]

Opened == [s \in Sound |-> [o \in DOMAIN Origin[s] |->
  UNION {Generated[s].edges[q].opens : q \in Origin[s][o]}]]

Configured == [s \in Sound |-> [o \in DOMAIN Origin[s] |->
  {Generated[s].edges[q].command : q \in Origin[s][o]}
  \cup {<<p, Files[s][p]>> : p \in Opened[s][o] \cap DOMAIN Files[s]}]]

Expected(s, o) ==
  Configured[s][o] \cup UNION {disk[p].from : p \in Opened[s][o] \cap Sources}

Current(p) == \A o \in DOMAIN Origin[config] : p \in o => disk[p].from = Expected(config, o)

(* A command has run to its end, and nothing was edited since it began.    *)
Settled(command) == pc = "idle" /\ outcome = "done" /\ cmd.command = command /\ quiet

(* Edges of the last run of ninja that failed or wait for one that did.    *)
Unmade == failed \cup todo

(* Whatever the history of edits, failed builds, interrupts and cleans:    *)
(* each result that simulate reports, except of simulations ninja could    *)
(* not run, comes from the present sources and configuration.  ninja is    *)
(* told of fewer files than the commands open (hw.rs:75, sim.rs:61), and   *)
(* this holds because resolving writes files it is told of.                *)
ReportIsCurrent ==
  Settled("simulate") => \A t \in ToSet(targets) : {t} \notin Unmade =>
    t \in DOMAIN report /\ Current(t)

(* A compile that nothing failed in leaves every file current that a       *)
(* simulation of the experiment opens, so that one can be run by hand      *)
(* (main.rs:101).                                                          *)
CompileIsEnough ==
  Settled("compile") /\ failed = {} /\ cmd.hw = "" /\ cmd.sw = "" /\ cmd.sim = "" =>
    \A i \in DOMAIN Sims[config] : Sims[config][i].experiment = cmd.experiment =>
      \A p \in Range(Sims[config][i].run_sh.args) : p \in DOMAIN disk /\ Current(p)

(* The configurations of which the next property holds.                    *)
OrderTold == [s \in Sound |->
  Generated[s].accepted =>
    \A o, q \in DOMAIN Generated[s].edges : o # q =>
      /\ o \cap q = {}
      /\ o \cap Generated[s].edges[q].opens # {} => o \in UpstreamOf[s][q]]

(* build.ninja tells ninja enough: of what a command opens, whatever       *)
(* another command makes comes first (hw.rs:90, sw.rs:92, sim.rs:44).      *)
TellsOrder == build_ninja \in Sound => OrderTold[build_ninja]

(* The commands that run at once do not disturb each other: none writes a  *)
(* file that another writes or opens (ninja.rs:52-95).                     *)
NoReadWhileWritten ==
  \A o, q \in DOMAIN running : o # q => o \cap (q \cup EdgeOf(q).opens) = {}

(* ninja takes the file it is given (ninja.rs:7).                          *)
NinjaAccepts == build_ninja # NoFile => Generated[build_ninja].accepted

(* After a simulation, what was not made is what failed and what needs     *)
(* that: one broken piece of hardware or software takes no other result    *)
(* with it (main.rs:232).                                                  *)
KeepsGoing == Settled("simulate") => \A o \in todo : Blocked(o)

(* If ninja made all it was asked for, "ALL TESTS PASSED!" means that      *)
(* every simulation asked for ran on the present sources and printed       *)
(* res=0 (analysis.rs:110).                                                *)
GreenMeansPassed ==
  Settled("simulate") /\ failed = {} /\ Banner(report, cmd.experiment) = "ALL TESTS PASSED!"
  => \A t \in ToSet(targets) : t \in DOMAIN disk /\ disk[t].result = "0" /\ Current(t)

(* The speedups of a program are against the parameter set asked for, if   *)
(* its log is there (analysis.rs:186); it is looked for inside the names,  *)
(* and found because an experiment lists it before longer ones.            *)
BaselineIsTheAsked ==
  pc = "idle" /\ outcome = "done" /\ cmd.baseline # "" =>
    \A t \in DOMAIN report : ~is_standalone(t) /\ hw_id(t)[2] = cmd.baseline =>
      BaselineOf(SelectSeq(targets, LAMBDA x : x \in DOMAIN report), program(t), cmd.baseline)
        = hw_id(t)

(* Cleaning one experiment leaves the logs of the others (main.rs:156).    *)
CleanKeepsOthers ==
  [][Clean /\ cmd.experiment # "" =>
       \A i \in DOMAIN Sims[config] : Sims[config][i].experiment # cmd.experiment =>
         (sim_log(Sims[config][i]) \in DOMAIN disk => sim_log(Sims[config][i]) \in DOMAIN disk')
    ]_vars
-----------------------------------------------------------------------------
(* What a harness.lua must tell ninja for the results to be current, the   *)
(* hypothesis of the proofs about them.  The runs evaluate it.             *)

EdgesIn(s) == DOMAIN Generated[s].edges

WrittenFiles == UNION {Writes(s) : s \in Versions}
MadeFiles    == UNION {UNION EdgesIn(s) : s \in Sound}
LogFiles     == UNION {UNION {o \in EdgesIn(s) : Generated[s].edges[o].simulates} : s \in Sound}
Makeable     == Sources \cup WrittenFiles \cup MadeFiles

(* ninja is told of every file the edge's command opens; and whatever      *)
(* version the output was made under, the same command opened the same     *)
(* files.                                                                  *)
Tracks(s, o) ==
  LET e == Generated[s].edges[o] IN
  /\ e.opens \cap Makeable \subseteq e.ins
  /\ (o \cup e.opens) \cap LogFiles = {}
  /\ \A r \in Sound : \A q \in EdgesIn(r) : LET f == Generated[r].edges[q] IN
       o \cap q # {} /\ e.command = f.command => e.opens = f.opens

(* Resolving writes an input of it, or of an edge that it needs.           *)
Remakes(s, o) ==
  \E q \in UpstreamOf[s][o] : q # {} /\ Generated[s].edges[q].ins \cap Writes(s) # {}

(* A file is a source, or resolving writes it, or a command makes it.      *)
FilesApart ==
  /\ Sources \cap (WrittenFiles \cup MadeFiles) = {}
  /\ WrittenFiles \cap MadeFiles = {}

(* The edges whose commands harness.lua itself gives: of tasks and of the  *)
(* actions of tools.                                                       *)
Scripted(s) ==
  {t.outputs : t \in ToSet(Config[s].tasks)}
  \cup {a.outputs : a \in UNION {ToSet(j.actions) : j \in AllSoftware(Config[s])}}

TraceableIn(s) ==
  /\ Generated[s].accepted /\ OrderTold[s]
  /\ Config[s].build_dir # <<>>
  /\ \A o, q \in EdgesIn(s) : q \cap Generated[s].edges[o].ins # {} => o \notin UpstreamOf[s][q]
  /\ \A o \in EdgesIn(s) : LET opens == Generated[s].edges[o].opens IN
       /\ opens \cap o = {}
       /\ opens \cap (WrittenFiles \cup MadeFiles) \subseteq Writes(s) \cup UNION EdgesIn(s)
  /\ \A o \in Scripted(s) : Tracks(s, o) \/ Remakes(s, o)

Traceable == FilesApart /\ \A s \in Sound : TraceableIn(s)

(* Experiments have names, each its own: of those that share one only the  *)
(* first is compiled.                                                      *)
NamesDiffer == \A s \in Sound : LET exps == Config[s].experiments IN
  \A i \in DOMAIN exps : /\ exps[i].name # ""
                         /\ \A j \in DOMAIN exps : exps[i].name = exps[j].name => i = j

(* run_analysis counts the parts of a log's path from the front.           *)
BuildDirIsOne == \A s \in Sound : Len(Config[s].build_dir) = 1

(* What tasks make is not where jobs are made.                             *)
TasksApart(c) ==
  \A t \in ToSet(c.tasks) : \A p \in t.outputs :
    \A kind \in {"hw", "sw", "sim"} : ~IsPrefix(Append(c.build_dir, kind), p)

(* Names that make a directory, or a file in it, are given once; whatever  *)
(* makes something says what.                                              *)
NamedApart(c) ==
  /\ TasksApart(c)
  /\ \A i, j \in DOMAIN c.tasks : i # j =>
       c.tasks[i].name # c.tasks[j].name /\ c.tasks[i].outputs \cap c.tasks[j].outputs = {}
  /\ \A t \in ToSet(c.tasks) : t.outputs # {}
  /\ DOMAIN TaskRules(c) \cap (DOMAIN SimulatorRules(c) \cup DOMAIN ToolRules(c)) = {}
  /\ \A i \in DOMAIN c.experiments : LET exp == c.experiments[i] IN
       /\ \A j \in DOMAIN c.experiments : exp.name = c.experiments[j].name => i = j
       /\ IsInjective(exp.param_sets) /\ IsInjective(exp.simulators) /\ IsInjective(exp.suites)
       /\ \A sim \in ToSet(exp.simulators) : ToSet(c.simulators[sim].outputs) # {}
  /\ \A n \in DOMAIN c.suites : LET actions == c.tools[c.suites[n].tool].actions IN
       /\ \A i, j \in DOMAIN Programs[n] :
            Programs[n][i].rel_path = Programs[n][j].rel_path => i = j
       /\ \A i \in DOMAIN actions : ToSet(actions[i].outputs) # {}
       /\ \A i, j \in DOMAIN actions : i # j =>
            \A a \in ToSet(actions[i].outputs), b \in ToSet(actions[j].outputs) :
              a.name # b.name /\ a.filename # b.filename

(* No file list names what a command makes behind "-f", and the variables  *)
(* of an action name of such files only its inputs and outputs.            *)
OpensTold(s) ==
  /\ \A h \in AllHardware(Config[s]) :
       FileLists[Config[s].testbenches[h.testbench].filelist].nested \cap UNION EdgesIn(s) = {}
  /\ \A j \in AllSoftware(Config[s]) : \A a \in ToSet(j.actions) :
       Range(a.variables) \cap UNION EdgesIn(s) \subseteq a.inputs \cup a.outputs

(* All that is asked of a harness.lua.                                     *)
Scripts ==
  /\ Traceable /\ NamesDiffer /\ BuildDirIsOne
  /\ \A s \in Sound : NamedApart(Config[s]) /\ OpensTold(s)
=============================================================================
