------------------------ MODULE HarnessReportProofs ------------------------
(***************************************************************************)
(* Proofs that the harness reports what is current, whatever the history   *)
(* of edits, failed and interrupted builds and cleans: of every            *)
(* harness.lua that tells ninja enough (Traceable).                        *)
(*                                                                         *)
(* ninja is told of fewer files than the commands open.  What it is told   *)
(* keeps true is Faithful: a file that ninja's log calls up to date holds  *)
(* what its command would write now, if the command's files are tracked.   *)
(* The others are made again by every command, because resolving writes    *)
(* one of their inputs, or of the inputs of what they need (StaleInv).     *)
(* While ninja works, what it was asked for and is not left to make is     *)
(* Fresh (MadeInv); when it is done, by following the commands upstream,   *)
(* that is what would be made from nothing.                                *)
(***************************************************************************)
EXTENDS HarnessProofs

DiskInv == DOMAIN disk \subseteq Makeable

(* What the command of an edge would write now.                            *)
Held(s, q) == {EdgeIn(s, q).command} \cup UNION {ContentOf(f) : f \in EdgeIn(s, q).opens}

Opens(s, q) == EdgeIn(s, q).opens \cap Makeable

(* By its log, ninja would not make p, an output of q, again.              *)
Recorded(s, q, p) ==
  /\ p \in DOMAIN disk /\ p \in DOMAIN ninja_log
  /\ ninja_log[p].command = EdgeIn(s, q).command
  /\ ninja_log[p].changed \cap EdgeIn(s, q).ins = {}

(* Nor would it, once the running command o has ended.                     *)
Repeats(s, q, o) ==
  /\ o \cap q # {} /\ EdgeOf(o).command = EdgeIn(s, q).command
  /\ running[o].changed \cap EdgeIn(s, q).ins = {}

Faithful(s, q) ==
  Tracks(s, q) /\ Opens(s, q) \subseteq DOMAIN disk =>
    /\ \A p \in q : Recorded(s, q, p) => disk[p].from = Held(s, q)
    /\ \A o \in DOMAIN running : Repeats(s, q, o) => running[o].from = Held(s, q)

(* What ninja's log calls up to date holds what its command would write    *)
(* now, whatever harness.lua it was made under, if ninja is told of every  *)
(* file the command opens (ninja.rs:41-85); and no running command will    *)
(* leave a record of which that is not true.  The log outlives the         *)
(* build.ninja that each command writes anew (main.rs:94-96).              *)
FaithfulInv == \A s \in Sound : \A q \in EdgesIn(s) : Faithful(s, q)

(* Nothing has been removed since resolving.                               *)
Untouched ==
  \/ pc \in {"resolved", "plan", "ninja", "analyse"}
  \/ pc = "idle" /\ outcome = "done" /\ cmd.command # "clean"

FilesInv ==
  Untouched => config \in Sound /\ \A p \in Writes(config) :
    p \in DOMAIN disk /\ disk[p].from = {<<p, Files[config][p]>>}

StaleInv ==
  pc \in {"resolved", "plan"} => \A q \in EdgesIn(config) :
    EdgeIn(config, q).ins \cap Writes(config) # {} =>
      \A p \in q : p \in DOMAIN ninja_log =>
        ninja_log[p].changed \cap EdgeIn(config, q).ins # {}

(* What ninja is asked for, with all that this needs.                      *)
Wanted(s) ==
  UNION {UpstreamOf[s][o] : o \in {q \in EdgesIn(s) : q \cap ToSet(targets) # {}}}

Left == todo \cup DOMAIN running \cup failed

Fresh(s, q) == \A p \in q : p \in DOMAIN disk /\ disk[p].from = Held(s, q)

(* From when ninja begins to the next command.                             *)
Working ==
  \/ pc = "ninja"
  \/ pc = "analyse" /\ cmd.command # "analyze"
  \/ pc = "idle" /\ outcome = "done" /\ cmd.command \in {"simulate", "compile"}

(* Nothing that is made waits for what is left.                            *)
Made(s) ==
  \A q \in Wanted(s) \ Left : UpstreamOf[s][q] \cap Left = {} /\ (quiet => Fresh(s, q))

(* A running command has read what is there.                               *)
RunsOnPresent(o) == Needs(o) \cap Left = {o} /\ (quiet => running[o].from = Reads(o))

(* From when ninja begins (main.rs:238), whatever was asked for and is not *)
(* left to make was made after all that it needs, and holds what its       *)
(* command would write now, if nothing was edited since; what runs has     *)
(* read that.  Hardware built over a file list that resolving rewrites in  *)
(* the next command (hw.rs:60-98) is thus made again, sources behind the   *)
(* list, which ninja is not told of, included.                             *)
MadeInv ==
  /\ Working => Made(config) /\ (targets # <<>> => build_ninja = config)
  /\ pc = "ninja" => \A o \in DOMAIN running : RunsOnPresent(o)

(* The logs of the experiment.                                             *)
LogsAsked == {sim_log(x) : x \in {y \in ToSet(Sims[config]) : y.experiment = cmd.experiment}}

TargetsInv ==
  /\ pc \in {"loaded", "resolved"} => targets = <<>>
  /\ cmd.command = "simulate" /\ (pc \in {"plan", "ninja", "analyse"} \/ (pc = "idle" /\ outcome = "done"))
       => ToSet(targets) \subseteq LogsAsked

AnalysedInv ==
  pc = "idle" /\ outcome = "done" /\ cmd.command = "simulate" =>
    \A t \in ToSet(targets) : t \in DOMAIN disk /\ Len(t) >= 8 =>
      t \in DOMAIN report /\ report[t] = SimStatus(disk[t].result)

-----------------------------------------------------------------------------
(* What resolving makes ninja run again.                                   *)

(* top.f of a hardware job is written whenever everything is resolved.     *)
LEMMA TopIsWritten ==
  ASSUME NEW s \in Sound, NEW h \in AllHardware(Config[s])
  PROVE  top_f(h.silo_dir) \in Writes(s)
<1> PICK c : c = Config[s]
  OBVIOUS
<1>1. WellFormed(c) /\ ~ResolutionFails(c)
  BY SoundWellFormed DEF Sound
<1>2. PICK i \in DOMAIN c.experiments : h \in ToSet(resolve_hardware(c, c.experiments[i]))
  BY DEF AllHardware
<1> PICK exp : exp = c.experiments[i]
  OBVIOUS
<1>3. PICK ps \in Range(exp.param_sets), sim \in Range(exp.simulators) :
        h = HardwareJob(c, exp.testbench, ps, sim)
  <2>1. resolve_hardware(c, exp) \in Seq(HardwareJobs(c, exp))
    BY <1>1, HardwareSeq DEF WellFormed
  <2>2. h \in HardwareJobs(c, exp)
    BY <1>2, <2>1 DEF ToSet
  <2> QED
    BY <2>2 DEF HardwareJobs
<1>4. h.silo_dir = hw_dir(c.build_dir, exp.testbench, ps, sim)
  BY <1>3 DEF HardwareJob
<1>5. ps \in Resolved(c, exp) /\ sim \in ToSet(exp.simulators)
  <2>1. ~HardwareFails(c, exp)
    BY <1>1 DEF ResolutionFails
  <2>2. Resolved(c, exp) = ToSet(exp.param_sets)
    BY <2>1 DEF HardwareFails
  <2> QED
    BY <2>2 DEF Range, ToSet
<1> DEFINE w == <<top_f(h.silo_dir), <<"top", hw_common_dir(c.build_dir, exp.testbench, ps)>>>>
<1>6. w \in HardwareFiles(c, exp)
  BY <1>4, <1>5 DEF HardwareFiles
<1>7. HardwareFiles(c, exp) \subseteq FilesOf(c)
  <2>1. \A j \in 1 .. i - 1 : ~HardwareFails(c, c.experiments[j])
    <3>1. PICK m \in Nat : DOMAIN c.experiments = 1 .. m
      BY <1>1, IsSeqDomain DEF WellFormed
    <3>2. 1 .. i - 1 \subseteq DOMAIN c.experiments
      BY <3>1
    <3> QED
      BY <1>1, <3>2 DEF ResolutionFails
  <2> QED
    BY <2>1 DEF FilesOf
<1>8. w[1] = top_f(h.silo_dir)
  OBVIOUS
<1> HIDE DEF w
<1>9. w \in FilesOf(c) /\ s \in Versions
  BY <1>6, <1>7 DEF Sound
<1> QED
  BY <1>8, <1>9 DEF Writes, Files, ContentsIn

LEMMA HardwareRemade ==
  ASSUME NEW s \in Sound, Generated[s].accepted, NEW h \in AllHardware(Config[s]),
         NEW o \in EdgesIn(s), Range(h.artifact_paths) \in UpstreamOf[s][o]
  PROVE  Remakes(s, o)
<1> PICK e \in EdgeSet(Config[s]) : e = HardwareEdge(Config[s], h)
  BY DEF EdgeSet, EdgesOf
<1>1. e.outs = Range(h.artifact_paths) /\ top_f(h.silo_dir) \in e.ins
  BY DEF HardwareEdge
<1>2. e.outs # {} /\ top_f(h.silo_dir) \in EdgeIn(s, e.outs).ins \cap Writes(s)
  BY <1>1, EdgeInIs, TopIsWritten
<1> QED
  BY <1>1, <1>2 DEF Remakes, EdgeIn

(* Each simulation needs the hardware it runs.                             *)
LEMMA SimulationNeeds ==
  ASSUME NEW s \in Sound, Generated[s].accepted, NEW x \in ToSet(Sims[s])
  PROVE  \E h \in AllHardware(Config[s]) :
           Range(h.artifact_paths) \in UpstreamOf[s][{sim_log(x)}]
<1> PICK c : c = Config[s]
  OBVIOUS
<1>1. x \in SimsOfAll(c)
  <2>1. AllSimulations(c) \in Seq(SimsOfAll(c)) /\ Sims[s] = AllSimulations(c)
    BY SoundWellFormed, AllSimulationsSeq DEF Sims
  <2> QED
    BY <2>1 DEF ToSet
<1>2. PICK i \in DOMAIN c.experiments : x \in SimsOf(c, c.experiments[i])
  BY <1>1 DEF SimsOfAll
<1> PICK exp : exp = c.experiments[i]
  OBVIOUS
<1>3. \A h \in ToSet(resolve_hardware(c, exp)) : h \in AllHardware(c)
  BY DEF AllHardware
<1>4. PICK h \in AllHardware(c) : Range(h.artifact_paths) \subseteq x.dependencies
  <2>1. ASSUME NEW h \in AllHardware(c), x = StandaloneSim(c, exp, h)
        PROVE  Range(h.artifact_paths) \subseteq x.dependencies
    BY <2>1 DEF StandaloneSim, SimJob, Range
  <2>2. ASSUME NEW h \in AllHardware(c), NEW sw, x = SoftwareSim(c, exp, h, sw)
        PROVE  Range(h.artifact_paths) \subseteq x.dependencies
    <3>1. x.dependencies = Range(Over(h.artifact_paths, sw.artifacts))
      BY <2>2 DEF SoftwareSim, SimJob, Range
    <3> QED
      BY <3>1 DEF Over, Range
  <2>3. \/ \E h \in AllHardware(c) : x = StandaloneSim(c, exp, h)
        \/ \E h \in AllHardware(c) : \E sw : x = SoftwareSim(c, exp, h, sw)
    BY <1>2, <1>3 DEF SimsOf
  <2> QED
    BY <2>1, <2>2, <2>3
<1> PICK e \in EdgeSet(c) : e = SimulationEdge(x)
  BY DEF EdgeSet, EdgesOf, Sims
<1>5. e.outs = {sim_log(x)} /\ e.ins = x.dependencies
  BY DEF SimulationEdge
<1>6. {sim_log(x)} \in EdgesIn(s) /\ EdgeIn(s, {sim_log(x)}).ins = x.dependencies
  BY <1>5, EdgeInIs
<1>7. Range(h.artifact_paths) # {} /\ Range(h.artifact_paths) \in EdgesIn(s)
  <2>1. HardwareEdge(c, h) \in EdgeSet(c) /\ HardwareEdge(c, h).outs = Range(h.artifact_paths)
    BY DEF EdgeSet, EdgesOf, HardwareEdge
  <2> QED
    BY <2>1, EdgeInIs
<1>8. /\ {sim_log(x)} \in UpstreamOf[s][{sim_log(x)}]
      /\ \A r \in EdgesIn(s) : r \cap x.dependencies # {} => r \in UpstreamOf[s][{sim_log(x)}]
  BY <1>6, UpstreamIs
<1> QED
  BY <1>4, <1>7, <1>8

(* Why a simulator that opens more files than ninja is told of (hw.rs:75,  *)
(* sim.rs:61) does no harm: if ninja takes build.ninja, resolving makes it *)
(* run every edge of hardware and of simulations again.  What is left of   *)
(* the hypothesis about the edges of a harness.lua concerns its tasks and  *)
(* programs.                                                               *)
THEOREM ResolvingRemakes ==
  \A s \in Sound :
    Generated[s].accepted =>
      /\ \A h \in AllHardware(Config[s]) : Remakes(s, Range(h.artifact_paths))
      /\ \A x \in ToSet(Sims[s]) : Remakes(s, {sim_log(x)})
<1> SUFFICES ASSUME NEW s \in Sound, Generated[s].accepted
             PROVE  /\ \A h \in AllHardware(Config[s]) : Remakes(s, Range(h.artifact_paths))
                    /\ \A x \in ToSet(Sims[s]) : Remakes(s, {sim_log(x)})
  OBVIOUS
<1>1. ASSUME NEW h \in AllHardware(Config[s])
      PROVE  Remakes(s, Range(h.artifact_paths))
  <2>1. Range(h.artifact_paths) \in EdgesIn(s)
    BY ArtifactEdge
  <2>2. Range(h.artifact_paths) \in UpstreamOf[s][Range(h.artifact_paths)]
    BY <2>1, UpstreamIs
  <2> QED
    BY <2>1, <2>2, HardwareRemade
<1>2. ASSUME NEW x \in ToSet(Sims[s])
      PROVE  Remakes(s, {sim_log(x)})
  <2>1. {sim_log(x)} \in EdgesIn(s)
    BY LogIsEdge
  <2>2. PICK h \in AllHardware(Config[s]) : Range(h.artifact_paths) \in UpstreamOf[s][{sim_log(x)}]
    BY SimulationNeeds
  <2> QED
    BY <2>1, <2>2, HardwareRemade
<1> QED
  BY <1>1, <1>2

LEMMA TracksOrRemakes ==
  ASSUME Traceable, NEW s \in Sound, NEW o \in EdgesIn(s)
  PROVE  Tracks(s, o) \/ Remakes(s, o)
<1> PICK c : c = Config[s]
  OBVIOUS
<1>1. /\ \A h \in AllHardware(c) : Remakes(s, Range(h.artifact_paths))
      /\ \A x \in ToSet(AllSimulations(c)) : Remakes(s, {sim_log(x)})
  BY ResolvingRemakes DEF Traceable, TraceableIn, Sims
<1>2. PICK e \in EdgeSet(c) : o = e.outs
  BY EdgesAre
<1>3. CASE \E t \in ToSet(c.tasks) : e = TaskEdge(t)
  <2>1. o \in Scripted(s)
    BY <1>2, <1>3 DEF TaskEdge, Scripted
  <2> QED
    BY <2>1 DEF Traceable, TraceableIn
<1>4. CASE \E a \in UNION {ToSet(j.actions) : j \in AllSoftware(c)} : e = SoftwareEdge(a)
  <2>1. o \in Scripted(s)
    BY <1>2, <1>4 DEF SoftwareEdge, Scripted
  <2> QED
    BY <2>1 DEF Traceable, TraceableIn
<1>5. CASE \E h \in AllHardware(c) : e = HardwareEdge(c, h)
  <2>1. PICK h \in AllHardware(c) : e = HardwareEdge(c, h)
    BY <1>5
  <2>2. o = Range(h.artifact_paths)
    BY <1>2, <2>1 DEF HardwareEdge
  <2> QED
    BY <1>1, <2>2
<1>6. CASE \E x \in ToSet(AllSimulations(c)) : e = SimulationEdge(x)
  BY <1>1, <1>2, <1>6 DEF SimulationEdge
<1> QED
  BY <1>3, <1>4, <1>5, <1>6 DEF EdgeSet, EdgesOf

-----------------------------------------------------------------------------
(* Files and what is remembered of them.                                   *)

(* The steps that leave files, ninja's log and the running commands alone. *)
LEMMA OtherSteps ==
  ASSUME [Next]_vars, ~CleanAll, ~Clean, ~resolve_all_jobs, ~NinjaWorks, ~NinjaFails, ~Interrupt,
         \A p \in Editable : ~EditSource(p)
  PROVE  /\ UNCHANGED <<disk, ninja_log, running>>
         /\ pc = "ninja" => UNCHANGED build_ninja
<1> USE DEF nvars
<1>1. CASE Load \/ Gen \/ List \/ NotFound \/ Analyze \/ NothingToDo
  BY <1>1 DEF Load, Gen, List, NotFound, Analyze, NothingToDo
<1>2. CASE Simulate \/ Compile \/ NinjaBegins \/ NinjaEnds \/ run_analysis
  BY <1>2 DEF Simulate, Compile, AskNinja, NinjaBegins, NinjaEnds, run_analysis
<1>3. CASE (\E s \in Versions : EditScript(s)) \/ UNCHANGED vars
  BY <1>3 DEF EditScript, vars
<1> QED
  BY <1>1, <1>2, <1>3 DEF Next, Command, User

LEMMA OverIs ==
  ASSUME NEW new, NEW old
  PROVE  /\ DOMAIN Over(new, old) = DOMAIN new \cup DOMAIN old
         /\ \A p \in DOMAIN new : Over(new, old)[p] = new[p]
         /\ \A p \in DOMAIN old : p \notin DOMAIN new => Over(new, old)[p] = old[p]
  BY DEF Over

LEMMA RewrittenIs ==
  ASSUME NEW s
  PROVE  /\ DOMAIN Rewritten(s) = Writes(s) \cup DOMAIN disk
         /\ \A p \in Writes(s) : Rewritten(s)[p].from = {<<p, Files[s][p]>>}
         /\ \A p \in DOMAIN disk : p \notin Writes(s) => Rewritten(s)[p] = disk[p]
<1> DEFINE new == [p \in Writes(s) |-> [from |-> {<<p, Files[s][p]>>}, result |-> NoResult]]
<1>1. Rewritten(s) = Over(new, disk) /\ DOMAIN new = Writes(s)
  BY DEF Rewritten
<1>2. \A p \in Writes(s) : new[p].from = {<<p, Files[s][p]>>}
  OBVIOUS
<1> HIDE DEF new
<1>3. /\ DOMAIN Over(new, disk) = DOMAIN new \cup DOMAIN disk
      /\ \A p \in DOMAIN new : Over(new, disk)[p] = new[p]
      /\ \A p \in DOMAIN disk : p \notin DOMAIN new => Over(new, disk)[p] = disk[p]
  BY OverIs
<1> QED
  BY <1>1, <1>2, <1>3

(* A running command is one of the graph of build.ninja.                   *)
LEMMA RunningEdge ==
  ASSUME IInv, NEW o \in todo \cup DOMAIN running, pc = "ninja"
  PROVE  /\ build_ninja \in Sound /\ build_ninja = config
         /\ o \in EdgesIn(build_ninja) /\ o \subseteq MadeFiles
         /\ EdgeOf(o) = EdgeIn(build_ninja, o)
<1>1. build_ninja \in Sound /\ build_ninja = config /\ o \in EdgesIn(build_ninja)
  BY DEF IInv, ConfigInv, EdgesInv, EdgesIn
<1>2. o \subseteq MadeFiles
  BY <1>1 DEF MadeFiles
<1> QED
  BY <1>1, <1>2 DEF EdgeOf, EdgeIn

LEMMA StepDiskInv ==
  ASSUME IInv, ControlOK, SourcesKept, DiskInv, [Next]_vars
  PROVE  DiskInv'
<1>1. CASE CleanAll \/ Clean \/ Interrupt
  <2>1. DOMAIN disk' \subseteq DOMAIN disk
    BY <1>1 DEF CleanAll, Clean, Interrupt, Killed, Without, Restrict
  <2> QED
    BY <2>1 DEF DiskInv
<1>2. CASE resolve_all_jobs
  <2>1. DOMAIN disk' = Writes(config) \cup DOMAIN disk
    BY <1>2, RewrittenIs DEF resolve_all_jobs
  <2>2. Writes(config) \subseteq WrittenFiles
    BY DEF WrittenFiles, ControlOK
  <2> QED
    BY <2>1, <2>2 DEF DiskInv, Makeable
<1>3. CASE NinjaWorks
  <2>1. PICK o \in todo \cup DOMAIN running : EdgeStart(o) \/ \E r : EdgeSucceeds(o, r)
    BY <1>3 DEF NinjaWorks
  <2>2. o \subseteq MadeFiles
    BY <1>3, RunningEdge DEF NinjaWorks
  <2>3. DOMAIN disk' \subseteq o \cup DOMAIN disk
    <3>1. \/ disk' = disk
          \/ \E from, result : disk' = Written(o, from, result)
      BY <2>1 DEF EdgeStart, EdgeSucceeds
    <3> QED
      BY <3>1 DEF Written, Over
  <2> QED
    BY <2>2, <2>3 DEF DiskInv, Makeable
<1>4. CASE NinjaFails
  BY <1>4 DEF NinjaFails, EdgeFails, DiskInv
<1>5. ASSUME NEW p \in Editable, EditSource(p)
      PROVE  DiskInv'
  BY <1>5 DEF EditSource, DiskInv
<1>6. CASE UNCHANGED <<disk, ninja_log, running>>
  BY <1>6 DEF DiskInv
<1> QED
  BY <1>1, <1>2, <1>3, <1>4, <1>5, <1>6, OtherSteps

(* What a command would write depends on the files it opens.               *)
LEMMA HeldStays ==
  ASSUME DiskInv, DiskInv', NEW s, NEW q,
         \A f \in Opens(s, q) : /\ f \in DOMAIN disk <=> f \in DOMAIN disk'
                                /\ f \in DOMAIN disk => disk'[f].from = disk[f].from
  PROVE  Held(s, q)' = Held(s, q)
<1>1. ASSUME NEW f \in EdgeIn(s, q).opens PROVE ContentOf(f)' = ContentOf(f)
  <2>1. CASE f \in Opens(s, q)
    BY <2>1 DEF ContentOf
  <2>2. CASE f \notin Opens(s, q)
    <3>1. f \notin DOMAIN disk /\ f \notin DOMAIN disk'
      BY <2>2 DEF Opens, DiskInv
    <3> QED
      BY <3>1 DEF ContentOf
  <2> QED
    BY <2>1, <2>2
<1> QED
  BY <1>1 DEF Held, EdgeIn

(* A step that records nothing new, and changes nothing that is opened.    *)
LEMMA FaithfulStays ==
  ASSUME NEW s, NEW q, Faithful(s, q), DiskInv, DiskInv',
         Tracks(s, q) /\ Opens(s, q) \subseteq DOMAIN disk' =>
           /\ \A f \in Opens(s, q) : f \in DOMAIN disk /\ disk'[f].from = disk[f].from
           /\ \A p \in q : Recorded(s, q, p)' =>
                Recorded(s, q, p) /\ disk'[p].from = disk[p].from
           /\ \A o \in DOMAIN running' : Repeats(s, q, o)' =>
                /\ o \in DOMAIN running /\ Repeats(s, q, o)
                /\ running'[o].from = running[o].from
  PROVE  Faithful(s, q)'
<1>1. Tracks(s, q)' <=> Tracks(s, q)
  BY DEF Tracks
<1>2. Opens(s, q)' = Opens(s, q)
  BY DEF Opens, EdgeIn
<1> SUFFICES ASSUME Tracks(s, q), Opens(s, q) \subseteq DOMAIN disk'
             PROVE  /\ \A p \in q : Recorded(s, q, p)' => disk'[p].from = Held(s, q)'
                    /\ \A o \in DOMAIN running' : Repeats(s, q, o)' =>
                         running'[o].from = Held(s, q)'
  BY <1>1, <1>2 DEF Faithful
<1>3. Held(s, q)' = Held(s, q)
  BY HeldStays
<1>4. Opens(s, q) \subseteq DOMAIN disk
  OBVIOUS
<1> QED
  BY <1>3, <1>4 DEF Faithful

LEMMA FaithfulRemoves ==
  ASSUME NEW s, NEW q, Faithful(s, q), DiskInv, DiskInv', UNCHANGED ninja_log,
         DOMAIN running' = {}, DOMAIN disk' \subseteq DOMAIN disk,
         \A p \in DOMAIN disk' : disk'[p] = disk[p]
  PROVE  Faithful(s, q)'
<1>1. \A p \in q : Recorded(s, q, p)' => Recorded(s, q, p) /\ disk'[p].from = disk[p].from
  BY DEF Recorded, EdgeIn
<1> QED
  BY <1>1, FaithfulStays

(* The inputs of an edge are inputs of its outputs.                        *)
LEMMA InputsKnown ==
  ASSUME NEW s \in Sound, NEW q \in EdgesIn(s), NEW p \in q
  PROVE  p \in DOMAIN InputsOf /\ EdgeIn(s, q).ins \subseteq InputsOf[p]
<1>1. p \in UNION {UNION DOMAIN Generated[r].edges : r \in Sound}
  BY DEF EdgesIn
<1>2. EdgeIn(s, q).ins \subseteq
        UNION {UNION {Generated[r].edges[o].ins : o \in {x \in DOMAIN Generated[r].edges : p \in x}}
               : r \in Sound}
  BY DEF EdgesIn, EdgeIn
<1> QED
  BY <1>1, <1>2 DEF InputsOf, InputsIn

(* Changed files are stamped in the log and on the running commands, where *)
(* an edge has them as inputs.                                             *)
LEMMA StampedIs ==
  ASSUME NEW s \in Sound, NEW q \in EdgesIn(s), NEW paths
  PROVE  /\ \A p \in q \cap DOMAIN ninja_log :
              /\ Stamped(ninja_log, paths)[p].command = ninja_log[p].command
              /\ ninja_log[p].changed \subseteq Stamped(ninja_log, paths)[p].changed
              /\ paths \cap EdgeIn(s, q).ins \subseteq Stamped(ninja_log, paths)[p].changed
         /\ DOMAIN Stamped(ninja_log, paths) = DOMAIN ninja_log
<1>1. ASSUME NEW p \in q \cap DOMAIN ninja_log
      PROVE  /\ Stamped(ninja_log, paths)[p].command = ninja_log[p].command
             /\ ninja_log[p].changed \subseteq Stamped(ninja_log, paths)[p].changed
             /\ paths \cap EdgeIn(s, q).ins \subseteq Stamped(ninja_log, paths)[p].changed
  <2>1. EdgeIn(s, q).ins \subseteq InputsOf[p]
    BY InputsKnown
  <2>2. Stamped(ninja_log, paths)[p] =
          [command |-> ninja_log[p].command,
           changed |-> ninja_log[p].changed \cup (paths \cap InputsOf[p])]
    BY DEF Stamped
  <2> QED
    BY <2>1, <2>2
<1> QED
  BY <1>1 DEF Stamped

LEMMA OvertakenIs ==
  ASSUME NEW s \in Sound, NEW q \in EdgesIn(s), NEW paths, NEW commands,
         NEW o \in DOMAIN commands, o \cap q # {}
  PROVE  /\ Overtaken(commands, paths)[o].from = commands[o].from
         /\ commands[o].changed \subseteq Overtaken(commands, paths)[o].changed
         /\ paths \cap EdgeIn(s, q).ins \subseteq Overtaken(commands, paths)[o].changed
<1>1. PICK p \in o : p \in q
  OBVIOUS
<1>2. EdgeIn(s, q).ins \subseteq UNION {InputsOf[x] : x \in o}
  BY <1>1, InputsKnown
<1>3. Overtaken(commands, paths)[o] =
        [from |-> commands[o].from,
         changed |-> commands[o].changed \cup (paths \cap UNION {InputsOf[x] : x \in o})]
  BY DEF Overtaken
<1> QED
  BY <1>2, <1>3


(* Sources are edited, or resolving writes files: ninja knows by the times *)
(* whichever of them a tracked edge opens.                                 *)
LEMMA FaithfulChanges ==
  ASSUME NEW s \in Sound, NEW q \in EdgesIn(s), Faithful(s, q), FilesApart, DiskInv, DiskInv',
         NEW paths, paths \subseteq Sources \cup WrittenFiles, UNCHANGED build_ninja,
         ninja_log' = Stamped(ninja_log, paths),
         DOMAIN running' = {} \/ running' = Overtaken(running, paths),
         DOMAIN disk \subseteq DOMAIN disk', DOMAIN disk' \subseteq DOMAIN disk \cup paths,
         \A f \in DOMAIN disk : f \notin paths => disk'[f] = disk[f]
  PROVE  Faithful(s, q)'
<1>1. q \subseteq MadeFiles
  BY DEF MadeFiles
<1>2. q \cap paths = {} /\ paths \subseteq Makeable
  BY <1>1 DEF FilesApart, Makeable
<1>3. ASSUME Tracks(s, q), paths \cap EdgeIn(s, q).ins = {}
      PROVE  paths \cap Opens(s, q) = {}
  BY <1>2, <1>3 DEF Tracks, Opens, EdgeIn
<1>4. CASE Tracks(s, q) /\ paths \cap EdgeIn(s, q).ins = {} /\ Opens(s, q) \subseteq DOMAIN disk'
  <2>1. \A f \in Opens(s, q) : f \in DOMAIN disk /\ disk'[f].from = disk[f].from
    BY <1>3, <1>4
  <2>2. ASSUME NEW p \in q, Recorded(s, q, p)'
        PROVE  Recorded(s, q, p) /\ disk'[p].from = disk[p].from
    <3>1. /\ p \in DOMAIN disk' /\ p \in DOMAIN ninja_log'
          /\ ninja_log'[p].command = EdgeIn(s, q).command
          /\ ninja_log'[p].changed \cap EdgeIn(s, q).ins = {}
      BY <2>2 DEF Recorded, EdgeIn
    <3>2. p \in DOMAIN disk /\ disk'[p] = disk[p]
      BY <1>2, <3>1
    <3>3. /\ p \in DOMAIN ninja_log
          /\ ninja_log'[p].command = ninja_log[p].command
          /\ ninja_log[p].changed \subseteq ninja_log'[p].changed
      BY <3>1, StampedIs
    <3> QED
      BY <3>1, <3>2, <3>3 DEF Recorded
  <2>3. ASSUME NEW o \in DOMAIN running', Repeats(s, q, o)'
        PROVE  /\ o \in DOMAIN running /\ Repeats(s, q, o)
               /\ running'[o].from = running[o].from
    <3>1. running' = Overtaken(running, paths) /\ o \in DOMAIN running
      BY DEF Overtaken
    <3>2. /\ o \cap q # {} /\ EdgeOf(o).command = EdgeIn(s, q).command
          /\ running'[o].changed \cap EdgeIn(s, q).ins = {}
      BY <2>3 DEF Repeats, EdgeIn, EdgeOf
    <3>3. /\ running'[o].from = running[o].from
          /\ running[o].changed \subseteq running'[o].changed
      BY <3>1, <3>2, OvertakenIs
    <3> QED
      BY <3>1, <3>2, <3>3 DEF Repeats
  <2> QED
    BY <2>1, <2>2, <2>3, FaithfulStays
<1>5. CASE paths \cap EdgeIn(s, q).ins # {}
  <2>1. ASSUME NEW p \in q, Recorded(s, q, p)'
        PROVE  FALSE
    <3>1. p \in DOMAIN ninja_log' /\ ninja_log'[p].changed \cap EdgeIn(s, q).ins = {}
      BY <2>1 DEF Recorded, EdgeIn
    <3>2. paths \cap EdgeIn(s, q).ins \subseteq ninja_log'[p].changed
      BY <3>1, StampedIs
    <3> QED
      BY <1>5, <3>1, <3>2
  <2>2. ASSUME NEW o \in DOMAIN running', Repeats(s, q, o)'
        PROVE  FALSE
    <3>1. running' = Overtaken(running, paths) /\ o \in DOMAIN running
      BY DEF Overtaken
    <3>2. o \cap q # {} /\ running'[o].changed \cap EdgeIn(s, q).ins = {}
      BY <2>2 DEF Repeats, EdgeIn
    <3>3. paths \cap EdgeIn(s, q).ins \subseteq running'[o].changed
      BY <3>1, <3>2, OvertakenIs
    <3> QED
      BY <1>5, <3>2, <3>3
  <2> QED
    BY <2>1, <2>2 DEF Faithful
<1>6. CASE ~Tracks(s, q) \/ ~(Opens(s, q) \subseteq DOMAIN disk')
  BY <1>6 DEF Faithful, Tracks, Opens, EdgeIn
<1> QED
  BY <1>4, <1>5, <1>6


(* A command starts: what it reads is what it would write now.  Only logs  *)
(* change.                                                                 *)
LEMMA FaithfulStart ==
  ASSUME IInv, pc = "ninja", NEW o \in todo, EdgeStart(o), DiskInv, DiskInv',
         NEW s \in Sound, NEW q \in EdgesIn(s), Faithful(s, q)
  PROVE  Faithful(s, q)'
<1>0. /\ build_ninja \in Sound /\ o \in EdgesIn(build_ninja)
      /\ EdgeOf(o) = EdgeIn(build_ninja, o)
  BY RunningEdge
<1>1. /\ ninja_log' = ninja_log /\ build_ninja' = build_ninja
      /\ running' = [x \in DOMAIN running \cup {o} |->
                       IF x = o THEN [from |-> Reads(o), changed |-> {}] ELSE running[x]]
  BY DEF EdgeStart
<1>2. \A f \in Makeable : f \notin LogFiles =>
        /\ f \in DOMAIN disk <=> f \in DOMAIN disk'
        /\ f \in DOMAIN disk => disk'[f] = disk[f]
  <2>1. CASE EdgeOf(o).simulates
    <3>1. o \subseteq LogFiles
      BY <1>0, <2>1 DEF LogFiles, EdgeIn
    <3>2. disk' = Written(o, {}, NoResult)
      BY <2>1 DEF EdgeStart
    <3>3. /\ DOMAIN disk' = o \cup DOMAIN disk
          /\ \A p \in DOMAIN disk : p \notin o => disk'[p] = disk[p]
      BY <3>2 DEF Written, Over
    <3> QED
      BY <3>1, <3>3
  <2>2. CASE ~EdgeOf(o).simulates
    BY <2>2 DEF EdgeStart
  <2> QED
    BY <2>1, <2>2
<1> SUFFICES ASSUME Tracks(s, q), Opens(s, q) \subseteq DOMAIN disk'
             PROVE  /\ \A p \in q : Recorded(s, q, p)' => disk'[p].from = Held(s, q)'
                    /\ \A x \in DOMAIN running' : Repeats(s, q, x)' =>
                         running'[x].from = Held(s, q)'
  BY DEF Faithful, Tracks, Opens, EdgeIn
<1>3. q \cap LogFiles = {} /\ Opens(s, q) \cap LogFiles = {} /\ q \subseteq Makeable
  BY DEF Tracks, Opens, EdgeIn, Makeable, MadeFiles
<1>4. \A f \in Opens(s, q) : /\ f \in DOMAIN disk <=> f \in DOMAIN disk'
                             /\ f \in DOMAIN disk => disk'[f] = disk[f]
  BY <1>2, <1>3 DEF Opens
<1>5. Held(s, q)' = Held(s, q)
  BY <1>4, HeldStays
<1>6. /\ \A p \in q : Recorded(s, q, p) => disk[p].from = Held(s, q)
      /\ \A x \in DOMAIN running : Repeats(s, q, x) => running[x].from = Held(s, q)
  BY <1>4 DEF Faithful
<1>7. ASSUME NEW p \in q, Recorded(s, q, p)'
      PROVE  disk'[p].from = Held(s, q)'
  <2>1. p \in DOMAIN disk' /\ p \in Makeable /\ p \notin LogFiles
    BY <1>3, <1>7 DEF Recorded
  <2>2. p \in DOMAIN disk /\ disk'[p] = disk[p]
    BY <1>2, <2>1
  <2>3. Recorded(s, q, p)
    BY <1>1, <1>7, <2>2 DEF Recorded, EdgeIn
  <2> QED
    BY <1>5, <1>6, <2>2, <2>3
<1>8. ASSUME NEW x \in DOMAIN running', Repeats(s, q, x)'
      PROVE  running'[x].from = Held(s, q)'
  <2>0. /\ x \cap q # {} /\ EdgeOf(x).command = EdgeIn(s, q).command
        /\ running'[x].changed \cap EdgeIn(s, q).ins = {}
    BY <1>1, <1>8 DEF Repeats, EdgeIn, EdgeOf
  <2>1. CASE x = o
    <3>1. EdgeIn(s, q).opens = EdgeIn(build_ninja, o).opens
      BY <1>0, <2>0, <2>1 DEF Tracks, EdgeIn
    <3>2. Reads(o) = Held(s, q)
      BY <1>0, <2>0, <2>1, <3>1 DEF Reads, Held
    <3>3. running'[o].from = Reads(o)
      BY <1>1
    <3> QED
      BY <1>5, <2>1, <3>2, <3>3
  <2>2. CASE x # o
    <3>1. x \in DOMAIN running /\ running'[x] = running[x]
      BY <1>1, <1>8, <2>2
    <3> QED
      BY <1>5, <1>6, <2>0, <3>1 DEF Repeats
  <2> QED
    BY <2>1, <2>2
<1> QED
  BY <1>7, <1>8


(* A command ends.  Its output is recorded with the inputs that changed    *)
(* while it ran; all that opens the output is stamped.                     *)
LEMMA FaithfulEnds ==
  ASSUME IInv, pc = "ninja", NEW o \in DOMAIN running, NEW r, EdgeSucceeds(o, r),
         DiskInv, DiskInv', NEW s \in Sound, NEW q \in EdgesIn(s), Faithful(s, q),
         EdgeIn(build_ninja, o).opens \cap o = {}, EdgeIn(s, q).opens \cap q = {}
  PROVE  Faithful(s, q)'
<1>0. /\ build_ninja \in Sound /\ o \in EdgesIn(build_ninja) /\ o \subseteq MadeFiles
      /\ EdgeOf(o) = EdgeIn(build_ninja, o)
  BY RunningEdge
<1> DEFINE others == Restrict(running, DOMAIN running \ {o})
           stamped == Stamped(ninja_log, o)
<1>1. /\ build_ninja' = build_ninja
      /\ running' = Overtaken(others, o) /\ disk' = Written(o, running[o].from, r)
      /\ ninja_log' = Over([p \in o |-> [command |-> EdgeOf(o).command,
                                         changed |-> running[o].changed \cap InputsOf[p]]],
                           stamped)
  BY DEF EdgeSucceeds
<1>2. /\ DOMAIN disk' = o \cup DOMAIN disk
      /\ \A p \in o : disk'[p].from = running[o].from
      /\ \A p \in DOMAIN disk : p \notin o => disk'[p] = disk[p]
  BY <1>1 DEF Written, Over
<1>3. /\ \A p \in o : /\ ninja_log'[p].command = EdgeOf(o).command
                      /\ ninja_log'[p].changed = running[o].changed \cap InputsOf[p]
      /\ \A p \in DOMAIN ninja_log' : p \notin o =>
           p \in DOMAIN ninja_log /\ ninja_log'[p] = stamped[p]
  <2> DEFINE made == [p \in o |-> [command |-> EdgeOf(o).command,
                                   changed |-> running[o].changed \cap InputsOf[p]]]
  <2>1. DOMAIN stamped = DOMAIN ninja_log
    BY DEF Stamped
  <2>2. /\ DOMAIN made = o
        /\ \A p \in o : /\ made[p].command = EdgeOf(o).command
                        /\ made[p].changed = running[o].changed \cap InputsOf[p]
    OBVIOUS
  <2>3. ninja_log' = Over(made, stamped)
    BY <1>1
  <2> HIDE DEF made, stamped
  <2>4. /\ DOMAIN Over(made, stamped) = DOMAIN made \cup DOMAIN stamped
        /\ \A p \in DOMAIN made : Over(made, stamped)[p] = made[p]
        /\ \A p \in DOMAIN stamped : p \notin DOMAIN made => Over(made, stamped)[p] = stamped[p]
    BY OverIs
  <2> QED
    BY <2>1, <2>2, <2>3, <2>4
<1> HIDE DEF stamped
<1> SUFFICES ASSUME Tracks(s, q), Opens(s, q) \subseteq DOMAIN disk'
             PROVE  /\ \A p \in q : Recorded(s, q, p)' => disk'[p].from = Held(s, q)'
                    /\ \A x \in DOMAIN running' : Repeats(s, q, x)' =>
                         running'[x].from = Held(s, q)'
  BY DEF Faithful, Tracks, Opens, EdgeIn
<1>4. ASSUME o \cap EdgeIn(s, q).opens = {}
      PROVE  /\ Held(s, q)' = Held(s, q)
             /\ \A p \in q : Recorded(s, q, p) => disk[p].from = Held(s, q)
             /\ \A x \in DOMAIN running : Repeats(s, q, x) => running[x].from = Held(s, q)
  <2>1. \A f \in Opens(s, q) : f \in DOMAIN disk /\ f \notin o /\ disk'[f] = disk[f]
    BY <1>2, <1>4 DEF Opens
  <2>2. Held(s, q)' = Held(s, q)
    BY <1>2, <2>1, HeldStays
  <2> QED
    BY <2>1, <2>2 DEF Faithful
<1>5. ASSUME o \cap EdgeIn(s, q).ins = {}
      PROVE  o \cap EdgeIn(s, q).opens = {}
  BY <1>0, <1>5 DEF Tracks, EdgeIn, Makeable
<1>6. ASSUME o \cap q # {}, EdgeOf(o).command = EdgeIn(s, q).command
      PROVE  o \cap EdgeIn(s, q).opens = {}
  BY <1>0, <1>6 DEF Tracks, EdgeIn
<1>7. ASSUME NEW p \in q, Recorded(s, q, p)'
      PROVE  disk'[p].from = Held(s, q)'
  <2>0. /\ p \in DOMAIN disk' /\ p \in DOMAIN ninja_log'
        /\ ninja_log'[p].command = EdgeIn(s, q).command
        /\ ninja_log'[p].changed \cap EdgeIn(s, q).ins = {}
    BY <1>7 DEF Recorded, EdgeIn
  <2>1. CASE p \in o
    <3>1. /\ o \cap q # {} /\ EdgeOf(o).command = EdgeIn(s, q).command
          /\ running[o].changed \cap EdgeIn(s, q).ins = {}
      <4>1. EdgeIn(s, q).ins \subseteq InputsOf[p]
        BY InputsKnown
      <4> QED
        BY <1>3, <2>0, <2>1, <4>1
    <3>2. running[o].from = Held(s, q) /\ Held(s, q)' = Held(s, q)
      BY <1>4, <1>6, <3>1 DEF Repeats
    <3> QED
      BY <1>2, <2>1, <3>2
  <2>2. CASE p \notin o
    <3>1. p \in DOMAIN ninja_log /\ ninja_log'[p] = stamped[p]
      BY <1>3, <2>0, <2>2
    <3>2. /\ stamped[p].command = ninja_log[p].command
          /\ ninja_log[p].changed \subseteq stamped[p].changed
          /\ o \cap EdgeIn(s, q).ins \subseteq stamped[p].changed
      BY <3>1, StampedIs DEF stamped
    <3>3. o \cap EdgeIn(s, q).ins = {}
      BY <2>0, <3>1, <3>2
    <3>4. p \in DOMAIN disk /\ disk'[p] = disk[p]
      BY <1>2, <2>0, <2>2
    <3>5. Recorded(s, q, p)
      BY <2>0, <3>1, <3>2, <3>4 DEF Recorded
    <3> QED
      BY <1>4, <1>5, <3>3, <3>4, <3>5
  <2> QED
    BY <2>1, <2>2
<1>8. ASSUME NEW x \in DOMAIN running', Repeats(s, q, x)'
      PROVE  running'[x].from = Held(s, q)'
  <2>0. /\ x \cap q # {} /\ EdgeOf(x).command = EdgeIn(s, q).command
        /\ running'[x].changed \cap EdgeIn(s, q).ins = {}
    BY <1>1, <1>8 DEF Repeats, EdgeIn, EdgeOf
  <2>1. x \in DOMAIN others /\ x \in DOMAIN running /\ others[x] = running[x]
    BY <1>1 DEF Overtaken, Restrict
  <2> HIDE DEF others
  <2>2. /\ Overtaken(others, o)[x].from = others[x].from
        /\ others[x].changed \subseteq Overtaken(others, o)[x].changed
        /\ o \cap EdgeIn(s, q).ins \subseteq Overtaken(others, o)[x].changed
    BY <2>0, <2>1, OvertakenIs
  <2>3. o \cap EdgeIn(s, q).ins = {} /\ running[x].changed \cap EdgeIn(s, q).ins = {}
    BY <1>1, <2>0, <2>1, <2>2
  <2>4. Repeats(s, q, x)
    BY <2>0, <2>3 DEF Repeats
  <2> QED
    BY <1>1, <1>4, <1>5, <2>1, <2>2, <2>3, <2>4
<1> QED
  BY <1>7, <1>8


LEMMA OpensApart ==
  ASSUME Traceable, NEW s \in Sound, NEW q \in EdgesIn(s)
  PROVE  EdgeIn(s, q).opens \cap q = {}
  BY DEF Traceable, TraceableIn, EdgeIn

LEMMA InitFaithfulInv == Init => DiskInv /\ FaithfulInv
<1> SUFFICES ASSUME Init PROVE DiskInv /\ FaithfulInv
  OBVIOUS
<1>1. DOMAIN disk = Sources /\ DOMAIN ninja_log = {} /\ DOMAIN running = {}
  BY DEF Init
<1> QED
  BY <1>1 DEF DiskInv, FaithfulInv, Faithful, Recorded, Makeable

LEMMA StepFaithfulInv ==
  ASSUME Traceable, IInv, ControlOK, SourcesKept, DiskInv, FaithfulInv, [Next]_vars
  PROVE  FaithfulInv'
<1>0. DiskInv' /\ FilesApart
  BY StepDiskInv DEF Traceable
<1> SUFFICES ASSUME NEW s \in Sound, NEW q \in EdgesIn(s)
             PROVE  Faithful(s, q)'
  BY DEF FaithfulInv, EdgesIn
<1>1. Faithful(s, q)
  BY DEF FaithfulInv
<1>2. CASE CleanAll \/ Clean \/ Interrupt
  <2>1. /\ UNCHANGED ninja_log /\ DOMAIN running' = {}
        /\ DOMAIN disk' \subseteq DOMAIN disk /\ \A p \in DOMAIN disk' : disk'[p] = disk[p]
    BY <1>2 DEF CleanAll, Clean, Interrupt, Killed, Without, Restrict, IInv, IdleInv
  <2> QED
    BY <1>0, <1>1, <2>1, FaithfulRemoves
<1>3. CASE resolve_all_jobs
  <2>1. /\ disk' = Rewritten(config) /\ ninja_log' = Stamped(ninja_log, Writes(config))
        /\ UNCHANGED build_ninja /\ DOMAIN running' = {}
    BY <1>3 DEF resolve_all_jobs, IInv, IdleInv
  <2>2. Writes(config) \subseteq Sources \cup WrittenFiles
    BY DEF WrittenFiles, ControlOK
  <2>3. /\ DOMAIN disk \subseteq DOMAIN disk' /\ DOMAIN disk' \subseteq DOMAIN disk \cup Writes(config)
        /\ \A f \in DOMAIN disk : f \notin Writes(config) => disk'[f] = disk[f]
    BY <2>1, RewrittenIs
  <2> QED
    BY <1>0, <1>1, <2>1, <2>2, <2>3, FaithfulChanges
<1>4. CASE NinjaWorks
  <2>1. pc = "ninja"
    BY <1>4 DEF NinjaWorks
  <2>2. ASSUME NEW o \in todo, EdgeStart(o)
        PROVE  Faithful(s, q)'
    BY <1>0, <1>1, <2>1, <2>2, FaithfulStart
  <2>3. ASSUME NEW o \in DOMAIN running, NEW r, EdgeSucceeds(o, r)
        PROVE  Faithful(s, q)'
    <3>1. build_ninja \in Sound /\ o \in EdgesIn(build_ninja)
      BY <2>1, RunningEdge
    <3>2. EdgeIn(build_ninja, o).opens \cap o = {} /\ EdgeIn(s, q).opens \cap q = {}
      BY <3>1, OpensApart
    <3> QED
      BY <1>0, <1>1, <2>1, <2>3, <3>2, FaithfulEnds
  <2> QED
    BY <1>4, <2>2, <2>3 DEF NinjaWorks
<1>5. CASE NinjaFails
  <2>1. PICK o \in DOMAIN running : EdgeFails(o)
    BY <1>5 DEF NinjaFails
  <2>2. UNCHANGED <<disk, build_ninja, ninja_log>>
    BY <2>1 DEF EdgeFails
  <2>3. \A x \in DOMAIN running' : x \in DOMAIN running /\ running'[x] = running[x]
    BY <2>1 DEF EdgeFails, Restrict
  <2>4. \A p \in q : Recorded(s, q, p)' => Recorded(s, q, p) /\ disk'[p].from = disk[p].from
    BY <2>2 DEF Recorded, EdgeIn
  <2>5. \A x \in DOMAIN running' : Repeats(s, q, x)' =>
          x \in DOMAIN running /\ Repeats(s, q, x) /\ running'[x].from = running[x].from
    BY <2>2, <2>3 DEF Repeats, EdgeIn, EdgeOf
  <2> QED
    BY <1>0, <1>1, <2>2, <2>4, <2>5, FaithfulStays
<1>6. ASSUME NEW p \in Editable, EditSource(p)
      PROVE  Faithful(s, q)'
  <2>1. /\ ninja_log' = Stamped(ninja_log, {p}) /\ running' = Overtaken(running, {p})
        /\ UNCHANGED build_ninja
        /\ DOMAIN disk' = DOMAIN disk /\ \A f \in DOMAIN disk : f # p => disk'[f] = disk[f]
    BY <1>6 DEF EditSource
  <2>2. {p} \subseteq Sources \cup WrittenFiles
    BY SourcesAssumption
  <2> QED
    BY <1>0, <1>1, <2>1, <2>2, FaithfulChanges
<1>7. CASE UNCHANGED <<disk, ninja_log, running>> /\ (pc = "ninja" => UNCHANGED build_ninja)
  <2>1. \A x \in DOMAIN running : build_ninja' = build_ninja
    <3> SUFFICES ASSUME NEW x \in DOMAIN running, build_ninja' # build_ninja PROVE FALSE
      OBVIOUS
    <3>1. pc = "ninja"
      BY DEF IInv, IdleInv
    <3> QED
      BY <1>7, <3>1
  <2> QED
    BY <1>0, <1>1, <1>7, <2>1, FaithfulStays DEF Recorded, Repeats, EdgeIn, EdgeOf
<1> QED
  BY <1>2, <1>3, <1>4, <1>5, <1>6, <1>7, OtherSteps


-----------------------------------------------------------------------------
(* What resolving writes.                                                  *)

LEMMA FilesKept ==
  ASSUME FilesInv, Untouched, UNCHANGED config,
         \A p \in Writes(config) : p \in DOMAIN disk => p \in DOMAIN disk' /\ disk'[p] = disk[p]
  PROVE  FilesInv'
<1>1. config \in Sound /\ \A p \in Writes(config) :
        p \in DOMAIN disk /\ disk[p].from = {<<p, Files[config][p]>>}
  BY DEF FilesInv
<1> QED
  BY <1>1 DEF FilesInv, Writes

LEMMA StepFilesInv ==
  ASSUME Traceable, IInv, ControlOK, FilesInv, [Next]_vars
  PROVE  FilesInv'
<1> USE DEF Stays, Ends, nvars, hvars, vars
<1>0. FilesApart /\ Writes(config) \subseteq WrittenFiles
  BY DEF Traceable, WrittenFiles, ControlOK
<1>1. CASE Load \/ CleanAll \/ Clean \/ NotFound \/ Interrupt
  <2>1. ~Untouched'
    BY <1>1 DEF Load, CleanAll, FullClean, Clean, NotFound, Interrupt, Untouched
  <2> QED
    BY <2>1 DEF FilesInv
<1>2. CASE resolve_all_jobs
  <2>1. disk' = Rewritten(config) /\ config' = config
    BY <1>2 DEF resolve_all_jobs
  <2>2. \A p \in Writes(config) : p \in DOMAIN disk' /\ disk'[p].from = {<<p, Files[config][p]>>}
    BY <2>1, RewrittenIs
  <2>3. config \notin Sound => ~Untouched'
    BY <1>2 DEF resolve_all_jobs, Untouched
  <2> QED
    BY <2>1, <2>2, <2>3 DEF FilesInv, Writes
<1>3. CASE Gen \/ List \/ Analyze \/ NothingToDo
  BY <1>3, FilesKept DEF Gen, List, Analyze, NothingToDo, Untouched
<1>4. CASE Simulate \/ Compile \/ NinjaBegins \/ NinjaFails \/ NinjaEnds \/ run_analysis
  BY <1>4, FilesKept DEF Simulate, Compile, AskNinja, NinjaBegins, NinjaFails, EdgeFails,
     NinjaEnds, run_analysis, Untouched
<1>5. CASE NinjaWorks
  <2>1. PICK o \in todo \cup DOMAIN running : EdgeStart(o) \/ \E r : EdgeSucceeds(o, r)
    BY <1>5 DEF NinjaWorks
  <2>2. o \subseteq MadeFiles
    BY <1>5, RunningEdge DEF NinjaWorks
  <2>3. \A p \in DOMAIN disk : p \notin o => p \in DOMAIN disk' /\ disk'[p] = disk[p]
    <3>1. \/ disk' = disk
          \/ \E from, result : disk' = Written(o, from, result)
      BY <2>1 DEF EdgeStart, EdgeSucceeds
    <3> QED
      BY <3>1 DEF Written, Over
  <2>4. \A p \in Writes(config) : p \notin o
    BY <1>0, <2>2 DEF FilesApart
  <2> QED
    BY <1>5, <2>3, <2>4, FilesKept DEF NinjaWorks, Untouched
<1>6. ASSUME NEW p \in Editable, EditSource(p)
      PROVE  FilesInv'
  <2>1. /\ UNCHANGED <<config, pc, outcome, cmd>>
        /\ DOMAIN disk' = DOMAIN disk /\ \A f \in DOMAIN disk : f # p => disk'[f] = disk[f]
    BY <1>6 DEF EditSource
  <2>2. p \notin Writes(config)
    BY <1>0, SourcesAssumption DEF FilesApart
  <2>3. CASE Untouched
    BY <2>1, <2>2, <2>3, FilesKept
  <2>4. CASE ~Untouched
    BY <2>1, <2>4 DEF Untouched, FilesInv
  <2> QED
    BY <2>3, <2>4
<1>7. ASSUME UNCHANGED <<disk, config, pc, outcome, cmd>>
      PROVE  FilesInv'
  BY <1>7 DEF FilesInv, Untouched, Writes
<1>8. CASE (\E s \in Versions : EditScript(s)) \/ UNCHANGED vars
  BY <1>7, <1>8 DEF EditScript
<1> QED
  BY <1>1, <1>2, <1>3, <1>4, <1>5, <1>6, <1>8 DEF Next, Command, User

(* Resolving makes what has an input among its files out of date, though   *)
(* their content may be what it was.                                       *)
LEMMA StepStaleInv ==
  ASSUME IInv, ControlOK, StaleInv, [Next]_vars
  PROVE  StaleInv'
<1> USE DEF Stays, Ends, nvars, hvars, vars
<1>1. CASE pc' \notin {"resolved", "plan"}
  BY <1>1 DEF StaleInv
<1>2. CASE resolve_all_jobs /\ config \in Sound
  <2>1. config' = config /\ ninja_log' = Stamped(ninja_log, Writes(config))
    BY <1>2 DEF resolve_all_jobs
  <2>2. ASSUME NEW q \in EdgesIn(config), EdgeIn(config, q).ins \cap Writes(config) # {},
               NEW p \in q, p \in DOMAIN ninja_log'
        PROVE  ninja_log'[p].changed \cap EdgeIn(config, q).ins # {}
    <3>1. p \in DOMAIN ninja_log
      BY <2>1, <2>2 DEF Stamped
    <3>2. Writes(config) \cap EdgeIn(config, q).ins \subseteq
            Stamped(ninja_log, Writes(config))[p].changed
      BY <1>2, <3>1, StampedIs
    <3> QED
      BY <2>1, <2>2, <3>2
  <2> QED
    BY <2>1, <2>2 DEF StaleInv, EdgesIn, EdgeIn, Writes
<1>3. CASE pc \in {"resolved", "plan"} /\ UNCHANGED <<config, ninja_log>>
  BY <1>3 DEF StaleInv, EdgesIn, EdgeIn, Writes
<1>4. CASE Simulate \/ Compile
  BY <1>3, <1>4 DEF Simulate, Compile, AskNinja
<1>5. ASSUME NEW p \in Editable, EditSource(p), pc \in {"resolved", "plan"}
      PROVE  StaleInv'
  <2>1. UNCHANGED <<pc, config>> /\ ninja_log' = Stamped(ninja_log, {p})
    BY <1>5 DEF EditSource
  <2>2. config \in Sound
    BY <1>5 DEF IInv, ConfigInv
  <2>3. ASSUME NEW q \in EdgesIn(config), EdgeIn(config, q).ins \cap Writes(config) # {},
               NEW x \in q, x \in DOMAIN ninja_log'
        PROVE  ninja_log'[x].changed \cap EdgeIn(config, q).ins # {}
    <3>1. x \in DOMAIN ninja_log
      BY <2>1, <2>3 DEF Stamped
    <3>2. ninja_log[x].changed \cap EdgeIn(config, q).ins # {}
      BY <1>5, <2>3, <3>1 DEF StaleInv
    <3>3. ninja_log[x].changed \subseteq Stamped(ninja_log, {p})[x].changed
      BY <2>2, <3>1, StampedIs
    <3> QED
      BY <2>1, <3>2, <3>3
  <2> QED
    BY <2>1, <2>3 DEF StaleInv, EdgesIn, EdgeIn, Writes
<1>6. CASE (\E s \in Versions : EditScript(s)) \/ UNCHANGED vars
  BY <1>1, <1>3, <1>6 DEF EditScript
<1>7. CASE Load \/ CleanAll \/ (resolve_all_jobs /\ config \notin Sound) \/ Gen \/ List \/ NotFound
           \/ Analyze \/ NothingToDo \/ Clean \/ NinjaBegins \/ NinjaWorks \/ NinjaFails
           \/ NinjaEnds \/ run_analysis \/ Interrupt
  BY <1>1, <1>7 DEF Load, CleanAll, resolve_all_jobs, Gen, List, NotFound, Analyze, NothingToDo,
     Clean, NinjaBegins, NinjaWorks, NinjaFails, NinjaEnds, run_analysis, Interrupt
<1>8. ASSUME NEW p \in Editable, EditSource(p), pc \notin {"resolved", "plan"}
      PROVE  StaleInv'
  BY <1>1, <1>8 DEF EditSource
<1> QED
  BY <1>2, <1>4, <1>5, <1>6, <1>7, <1>8 DEF Next, Command, User


-----------------------------------------------------------------------------
(* What ninja has made, or left because it is current.                     *)

LEMMA NotCircular ==
  ASSUME Traceable, build_ninja \in Sound, NEW o \in EdgesIn(build_ninja)
  PROVE  ~Circular(o)
  BY DEF Traceable, TraceableIn, Circular, EdgesIn, EdgeOf, Needs

(* What an edge does not need it does not open.                            *)
LEMMA ReadsApart ==
  ASSUME Traceable, NEW s \in Sound, build_ninja = s,
         NEW o \in EdgesIn(s), NEW q \in EdgesIn(s), o \notin Needs(q)
  PROVE  o \cap EdgeIn(s, q).opens = {} /\ o \cap q = {}
<1>1. OrderTold[s] /\ Generated[s].accepted
  BY DEF Traceable, TraceableIn
<1>2. o # q
  BY NeedsFacts DEF EdgesIn, Edges
<1> QED
  BY <1>1, <1>2 DEF OrderTold, Needs, EdgesIn, EdgeIn

(* What ninja finds up to date when it begins is what would be made now:   *)
(* resolving has written no input of it or of what it needs.               *)
LEMMA UpToDateIsFresh ==
  ASSUME Traceable, ConfigInv, SourcesKept, FaithfulInv, FilesInv, StaleInv, pc = "plan",
         NEW q \in EdgesIn(config), \A r \in Needs(q) : ~OutOfDate(r)
  PROVE  Fresh(config, q)
<1> PICK s : s = config
  OBVIOUS
<1>0. s \in Sound /\ build_ninja = s /\ TraceableIn(s) /\ Needs(q) = UpstreamOf[s][q]
  BY DEF ConfigInv, Traceable, Needs
<1>1. q \in Needs(q) /\ Needs(q) \subseteq EdgesIn(s)
  BY <1>0, NeedsFacts DEF Edges, EdgesIn
<1>2. \A r \in Needs(q) : \A p \in r :
        /\ p \in DOMAIN disk /\ p \in DOMAIN ninja_log
        /\ ninja_log[p].command = EdgeIn(s, r).command
        /\ ninja_log[p].changed \cap EdgeIn(s, r).ins = {}
  BY <1>0 DEF OutOfDate, EdgeIn, EdgeOf
<1>3. ~Remakes(s, q)
  <2> SUFFICES ASSUME NEW r \in Needs(q), r # {}, EdgeIn(s, r).ins \cap Writes(s) # {}
               PROVE  FALSE
    BY <1>0 DEF Remakes, EdgeIn
  <2>1. PICK p \in r : TRUE
    OBVIOUS
  <2>2. p \in DOMAIN ninja_log => ninja_log[p].changed \cap EdgeIn(s, r).ins # {}
    BY <1>1, <2>1 DEF StaleInv
  <2> QED
    BY <1>2, <2>1, <2>2
<1>4. Tracks(s, q)
  BY <1>0, <1>3, TracksOrRemakes DEF EdgesIn
<1>5. Opens(s, q) \subseteq DOMAIN disk
  <2> SUFFICES ASSUME NEW f \in Opens(s, q) PROVE f \in DOMAIN disk
    OBVIOUS
  <2>0. f \in EdgeIn(s, q).opens /\ f \in Makeable
    BY DEF Opens
  <2>1. CASE f \in Sources
    BY <2>1 DEF SourcesKept
  <2>2. CASE f \in Writes(s)
    BY <2>2 DEF FilesInv, Untouched
  <2>3. CASE f \in UNION EdgesIn(s)
    <3>1. PICK r \in EdgesIn(s) : f \in r
      BY <2>3
    <3>2. r \in Needs(q)
      BY <1>0, <2>0, <3>1, ReadsApart
    <3> QED
      BY <1>2, <3>1, <3>2
  <2>4. f \in Sources \cup Writes(s) \cup UNION EdgesIn(s)
    BY <1>0, <2>0 DEF TraceableIn, Makeable, EdgeIn
  <2> QED
    BY <2>1, <2>2, <2>3, <2>4
<1>6. \A p \in q : Recorded(s, q, p)
  BY <1>1, <1>2 DEF Recorded
<1> QED
  BY <1>0, <1>4, <1>5, <1>6 DEF FaithfulInv, Faithful, Fresh, Recorded

(* Of what is wanted, ninja leaves alone what needs nothing out of date.   *)
LEMMA BeginsMade ==
  ASSUME Traceable, IInv, SourcesKept, FaithfulInv, FilesInv, StaleInv, RunOK, NinjaBegins
  PROVE  MadeInv'
<1> USE DEF Stays
<1> PICK s : s = config
  OBVIOUS
<1>0. /\ pc = "plan" /\ s \in Sound /\ build_ninja = s
      /\ UNCHANGED <<disk, config, targets, build_ninja, running, failed>>
      /\ DOMAIN running = {} /\ failed = {} /\ todo' = Plan(ToSet(targets)) /\ pc' = "ninja"
  BY DEF NinjaBegins, IInv, ConfigInv, IdleInv, RunOK
<1>1. Left' = Plan(ToSet(targets)) /\ Wanted(s)' = Wanted(s)
  BY <1>0 DEF Left, Wanted
<1>2. Wanted(s) \subseteq EdgesIn(s)
  BY <1>0, NeedsFacts DEF Wanted, Needs, EdgesIn, Edges
<1>3. \A q \in EdgesIn(s) : ~Circular(q)
  BY <1>0, NotCircular
<1>4. \A q \in Wanted(s) : Needs(q) \subseteq Wanted(s)
  <2> TAKE q \in Wanted(s)
  <2>1. PICK o \in EdgesIn(s) : o \cap ToSet(targets) # {} /\ q \in UpstreamOf[s][o]
    BY DEF Wanted
  <2>2. Needs(q) \subseteq Needs(o)
    BY <1>0, <2>1, NeedsFacts DEF Needs, Edges, EdgesIn
  <2> QED
    BY <1>0, <2>1, <2>2 DEF Wanted, Needs
<1> DEFINE stale == {o \in Wanted(s) : OutOfDate(o)}
<1>5. Plan(ToSet(targets)) = {o \in EdgesIn(s) : o \in Wanted(s) /\ Needs(o) \cap stale # {}}
  <2>1. Wanted(s) = UNION {Needs(o) : o \in {q \in EdgesIn(s) : q \cap ToSet(targets) # {}}}
    BY <1>0 DEF Wanted, Needs
  <2>2. Generated[s].accepted
    BY <1>0 DEF Traceable, TraceableIn
  <2> QED
    BY <1>0, <1>2, <1>3, <2>1, <2>2 DEF Plan, EdgesIn
<1>6. ASSUME NEW q \in Wanted(s), q \notin Plan(ToSet(targets))
      PROVE  UpstreamOf[s][q] \cap Plan(ToSet(targets)) = {} /\ Fresh(s, q)
  <2>1. Needs(q) \cap stale = {}
    BY <1>2, <1>5, <1>6
  <2>2. \A r \in Needs(q) : ~OutOfDate(r)
    BY <1>4, <2>1
  <2>3. Fresh(s, q)
    BY <1>0, <1>2, <2>2, UpToDateIsFresh DEF IInv
  <2>4. \A r \in Needs(q) : Needs(r) \subseteq Needs(q)
    BY <1>0, <1>2, NeedsFacts DEF Edges, EdgesIn
  <2> QED
    BY <1>0, <1>5, <2>1, <2>3, <2>4 DEF Needs
<1>7. \A q : Fresh(s, q)' <=> Fresh(s, q)
  BY <1>0 DEF Fresh, Held, ContentOf, EdgeIn
<1>8. Made(s)'
  BY <1>1, <1>6, <1>7 DEF Made
<1> QED
  BY <1>0, <1>8 DEF MadeInv


(* Only files that an edge does not open change.                           *)
LEMMA HeldApart ==
  ASSUME DiskInv, DiskInv', NEW s, NEW q, NEW o, o \cap EdgeIn(s, q).opens = {},
         \A f : f \notin o => /\ f \in DOMAIN disk <=> f \in DOMAIN disk'
                              /\ f \in DOMAIN disk => disk'[f] = disk[f]
  PROVE  Held(s, q)' = Held(s, q)
<1>1. \A f \in Opens(s, q) : /\ f \in DOMAIN disk <=> f \in DOMAIN disk'
                             /\ f \in DOMAIN disk => disk'[f].from = disk[f].from
  BY DEF Opens
<1> QED
  BY <1>1, HeldStays

LEMMA FreshApart ==
  ASSUME DiskInv, DiskInv', NEW s, NEW q, NEW o, o \cap EdgeIn(s, q).opens = {}, o \cap q = {},
         \A f : f \notin o => /\ f \in DOMAIN disk <=> f \in DOMAIN disk'
                              /\ f \in DOMAIN disk => disk'[f] = disk[f],
         Fresh(s, q)
  PROVE  Fresh(s, q)'
<1>1. Held(s, q)' = Held(s, q)
  BY HeldApart
<1>2. \A p \in q : p \in DOMAIN disk' /\ disk'[p] = disk[p]
  BY DEF Fresh
<1> QED
  BY <1>1, <1>2 DEF Fresh

LEMMA StartMade ==
  ASSUME Traceable, IInv, DiskInv, DiskInv', MadeInv, RunOK, pc = "ninja",
         NEW o \in todo, EdgeStart(o), UNCHANGED hvars
  PROVE  MadeInv'
<1> USE DEF hvars
<1> PICK s : s = config
  OBVIOUS
<1>0. /\ s \in Sound /\ build_ninja = s /\ o \in EdgesIn(s)
      /\ DOMAIN running \subseteq EdgesIn(s)
  BY RunningEdge
<1>1. /\ UNCHANGED <<config, build_ninja, targets, quiet, pc>> /\ todo' = todo \ {o}
      /\ failed' = failed /\ DOMAIN running' = DOMAIN running \cup {o}
      /\ running'[o].from = Reads(o)
      /\ \A q \in DOMAIN running : q # o => running'[q] = running[q]
  BY DEF EdgeStart
<1>2. Left' = Left /\ Wanted(s)' = Wanted(s) /\ o \in Left
  BY <1>1 DEF Left, Wanted
<1>3. \A f : f \notin o => /\ f \in DOMAIN disk <=> f \in DOMAIN disk'
                           /\ f \in DOMAIN disk => disk'[f] = disk[f]
  BY DEF EdgeStart, Written, Over
<1>4. Needs(o) \cap Left = {o}
  BY DEF EdgeStart, Ready, Left
<1>5. ASSUME NEW q \in EdgesIn(s), q # o, Needs(q) \cap Left \subseteq {q}
      PROVE  o \cap EdgeIn(s, q).opens = {} /\ o \cap q = {}
  BY <1>0, <1>2, <1>5, ReadsApart
<1>6. Wanted(s) \subseteq EdgesIn(s)
  BY <1>0, NeedsFacts DEF Wanted, Needs, EdgesIn, Edges
<1>7. ASSUME NEW q \in Wanted(s) \ Left
      PROVE  /\ UpstreamOf[s][q] \cap Left = {}
             /\ quiet => Fresh(s, q)'
  <2>1. UpstreamOf[s][q] \cap Left = {} /\ (quiet => Fresh(s, q))
    BY DEF MadeInv, Working, Made
  <2>2. o \cap EdgeIn(s, q).opens = {} /\ o \cap q = {}
    BY <1>0, <1>2, <1>5, <1>6, <2>1 DEF Needs
  <2> QED
    BY <1>3, <2>1, <2>2, FreshApart
<1>8. ASSUME NEW q \in DOMAIN running'
      PROVE  RunsOnPresent(q)'
  <2>1. CASE q = o
    <3>1. Held(s, o)' = Held(s, o)
      <4>1. o \cap EdgeIn(s, o).opens = {}
        BY <1>0, OpensApart
      <4> QED
        BY <1>3, <4>1, HeldApart
    <3>2. Reads(o)' = Reads(o)
      BY <1>0, <1>1, <3>1 DEF Reads, Held, EdgeOf, EdgeIn
    <3> QED
      BY <1>1, <1>2, <1>4, <2>1, <3>2, NeedsStay DEF RunsOnPresent
  <2>2. CASE q # o
    <3>1. q \in DOMAIN running /\ RunsOnPresent(q) /\ q \in EdgesIn(s)
      BY <1>0, <1>1, <2>2 DEF MadeInv
    <3>2. o \cap EdgeIn(s, q).opens = {}
      BY <1>5, <2>2, <3>1 DEF RunsOnPresent
    <3>3. Held(s, q)' = Held(s, q)
      BY <1>3, <3>2, HeldApart
    <3>4. Reads(q)' = Reads(q)
      BY <1>0, <1>1, <3>3 DEF Reads, Held, EdgeOf, EdgeIn
    <3> QED
      BY <1>1, <1>2, <2>2, <3>1, <3>4, NeedsStay DEF RunsOnPresent
  <2> QED
    BY <2>1, <2>2
<1>9. Made(s)'
  BY <1>1, <1>2, <1>7 DEF Made
<1> QED
  BY <1>0, <1>1, <1>8, <1>9 DEF MadeInv

LEMMA EndMade ==
  ASSUME Traceable, IInv, DiskInv, DiskInv', MadeInv, RunOK, pc = "ninja",
         NEW o \in DOMAIN running, NEW r, EdgeSucceeds(o, r), UNCHANGED hvars
  PROVE  MadeInv'
<1> USE DEF hvars
<1> PICK s : s = config
  OBVIOUS
<1>0. /\ s \in Sound /\ build_ninja = s /\ o \in EdgesIn(s)
      /\ DOMAIN running \subseteq EdgesIn(s)
  BY RunningEdge
<1>1. /\ UNCHANGED <<config, build_ninja, targets, quiet, pc, todo, failed>>
      /\ DOMAIN running' = DOMAIN running \ {o}
      /\ \A q \in DOMAIN running' : running'[q].from = running[q].from
  BY DEF EdgeSucceeds, Overtaken, Restrict
<1>2. Left' = Left \ {o} /\ Wanted(s)' = Wanted(s) /\ o \in Left
  BY <1>1 DEF Left, Wanted, RunOK
<1>3. /\ \A f : f \notin o => /\ f \in DOMAIN disk <=> f \in DOMAIN disk'
                              /\ f \in DOMAIN disk => disk'[f] = disk[f]
      /\ \A p \in o : p \in DOMAIN disk' /\ disk'[p].from = running[o].from
  BY DEF EdgeSucceeds, Written, Over
<1>4. RunsOnPresent(o)
  BY DEF MadeInv
<1>5. ASSUME NEW q \in EdgesIn(s), q # o, Needs(q) \cap Left \subseteq {q}
      PROVE  o \cap EdgeIn(s, q).opens = {} /\ o \cap q = {}
  BY <1>0, <1>2, <1>5, ReadsApart
<1>6. Wanted(s) \subseteq EdgesIn(s)
  BY <1>0, NeedsFacts DEF Wanted, Needs, EdgesIn, Edges
<1>7. ASSUME NEW q \in Wanted(s) \ Left'
      PROVE  /\ UpstreamOf[s][q] \cap Left' = {}
             /\ quiet => Fresh(s, q)'
  <2>1. CASE q = o
    <3>1. UpstreamOf[s][o] \cap Left' = {}
      BY <1>0, <1>2, <1>4 DEF RunsOnPresent, Needs
    <3>2. Held(s, o)' = Held(s, o)
      <4>1. o \cap EdgeIn(s, o).opens = {}
        BY <1>0, OpensApart
      <4> QED
        BY <1>3, <4>1, HeldApart
    <3>3. quiet => running[o].from = Held(s, o)
      BY <1>0, <1>4 DEF RunsOnPresent, Reads, Held, EdgeOf, EdgeIn
    <3> QED
      BY <1>3, <2>1, <3>1, <3>2, <3>3 DEF Fresh
  <2>2. CASE q # o
    <3>1. UpstreamOf[s][q] \cap Left = {} /\ (quiet => Fresh(s, q))
      BY <1>2, <2>2 DEF MadeInv, Working, Made
    <3>2. o \cap EdgeIn(s, q).opens = {} /\ o \cap q = {}
      BY <1>0, <1>2, <1>5, <1>6, <2>2, <3>1 DEF Needs
    <3> QED
      BY <1>2, <1>3, <3>1, <3>2, FreshApart
  <2> QED
    BY <2>1, <2>2
<1>8. ASSUME NEW q \in DOMAIN running'
      PROVE  RunsOnPresent(q)'
  <2>1. q \in DOMAIN running /\ RunsOnPresent(q) /\ q \in EdgesIn(s) /\ q # o
    BY <1>0, <1>1 DEF MadeInv
  <2>2. o \cap EdgeIn(s, q).opens = {}
    BY <1>5, <2>1 DEF RunsOnPresent
  <2>3. Held(s, q)' = Held(s, q)
    BY <1>3, <2>2, HeldApart
  <2>4. Reads(q)' = Reads(q)
    BY <1>0, <1>1, <2>3 DEF Reads, Held, EdgeOf, EdgeIn
  <2>5. Needs(q)' \cap Left' = {q}
    BY <1>1, <1>2, <2>1, NeedsStay DEF RunsOnPresent
  <2> QED
    BY <1>1, <2>1, <2>4, <2>5 DEF RunsOnPresent
<1>9. Made(s)'
  BY <1>1, <1>2, <1>7 DEF Made
<1> QED
  BY <1>0, <1>1, <1>8, <1>9 DEF MadeInv


(* A simulation asks for logs of its experiment.                           *)
LEMMA TargetsAre ==
  ASSUME config \in Sound
  PROVE  ToSet(SimulationTargets) \subseteq LogsAsked
<1> PICK sims : sims = Sims[config]
  OBVIOUS
<1>1. \E S : sims \in Seq(S)
  BY SoundWellFormed, AllSimulationsSeq DEF Sims
<1>2. PICK n \in Nat : DOMAIN sims = 1 .. n
  BY <1>1
<1> DEFINE row(x) == IF /\ x.experiment = cmd.experiment
                        /\ In(cmd.hw, x.hw_id) /\ In(cmd.sim, x.silo_dir) /\ In(cmd.sw, x.silo_dir)
                     THEN <<sim_log(x)>> ELSE <<>>
           rows == [i \in DOMAIN sims |-> row(sims[i])]
<1>3. ASSUME NEW i \in DOMAIN sims PROVE row(sims[i]) \in Seq(LogsAsked)
  <2>1. sims[i] \in ToSet(Sims[config])
    BY DEF ToSet
  <2>2. sims[i].experiment = cmd.experiment => sim_log(sims[i]) \in LogsAsked
    BY <2>1 DEF LogsAsked
  <2>3. \A x : x \in LogsAsked => <<x>> \in Seq(LogsAsked)
    OBVIOUS
  <2>4. <<>> \in Seq(LogsAsked)
    OBVIOUS
  <2> QED
    BY <2>2, <2>3, <2>4
<1> HIDE DEF row
<1>4. rows \in Seq(Seq(LogsAsked))
  BY <1>2, <1>3
<1>5. SimulationTargets = FlattenSeq(rows)
  BY DEF SimulationTargets, rows, row
<1>6. FlattenSeq(rows) \in Seq(LogsAsked)
  <2> HIDE DEF rows
  <2> QED
    BY <1>4, FlattenFacts
<1> QED
  BY <1>5, <1>6 DEF ToSet

LEMMA StepTargetsInv ==
  ASSUME IInv, TargetsInv, [Next]_vars
  PROVE  TargetsInv'
<1> USE DEF Stays, Ends, nvars, hvars, vars
<1>0. LogsAsked' = LogsAsked \/ ~UNCHANGED <<config, cmd>>
  BY DEF LogsAsked
<1>1. CASE Load \/ CleanAll \/ resolve_all_jobs \/ Interrupt
  BY <1>0, <1>1 DEF Load, CleanAll, FullClean, resolve_all_jobs, Interrupt, TargetsInv
<1>2. CASE Gen \/ List \/ NotFound \/ NothingToDo \/ Clean \/ Compile
  <2>1. ToSet(<<>>) = {}
    BY DEF ToSet
  <2>2. CASE Compile
    BY <2>2 DEF Compile, AskNinja, TargetsInv
  <2> QED
    BY <1>2, <2>1, <2>2 DEF Gen, List, NotFound, NothingToDo, Clean, TargetsInv
<1>3. CASE Simulate \/ Analyze
  <2>1. config \in Sound
    BY <1>3 DEF Simulate, Analyze, IInv, ConfigInv
  <2>2. /\ targets' = SimulationTargets /\ pc' \in {"plan", "analyse"}
        /\ UNCHANGED <<config, cmd>>
    BY <1>3 DEF Simulate, Analyze, AskNinja
  <2> QED
    BY <1>0, <2>1, <2>2, TargetsAre DEF TargetsInv, ToSet
<1>4. CASE NinjaBegins \/ NinjaWorks \/ NinjaFails \/ NinjaEnds \/ run_analysis
  <2>1. /\ pc \in {"plan", "ninja", "analyse"} /\ pc' \notin {"loaded", "resolved"}
        /\ UNCHANGED <<targets, config, cmd>>
    BY <1>4 DEF NinjaBegins, NinjaWorks, NinjaFails, NinjaEnds, run_analysis
  <2> QED
    BY <1>0, <2>1 DEF TargetsInv
<1>5. CASE (\E p \in Editable : EditSource(p)) \/ (\E s \in Versions : EditScript(s)) \/ UNCHANGED vars
  BY <1>0, <1>5 DEF EditSource, EditScript, TargetsInv
<1> QED
  BY <1>1, <1>2, <1>3, <1>4, <1>5 DEF Next, Command, User

(* A step of a command that has nothing of ninja's to keep.                *)
LEMMA NothingMade ==
  ASSUME pc' # "ninja", Working' => targets' = <<>>
  PROVE  MadeInv'
<1>1. ToSet(<<>>) = {}
  BY DEF ToSet
<1>2. targets' = <<>> => Made(config)'
  BY <1>1 DEF Made, Wanted
<1> QED
  BY <1>2 DEF MadeInv

LEMMA MadeStays ==
  ASSUME MadeInv, Working' => Working, pc' = "ninja" => pc = "ninja",
         UNCHANGED <<config, targets, build_ninja, todo, failed>>, DOMAIN running' = DOMAIN running,
         quiet' => quiet /\ UNCHANGED <<disk, running>>
  PROVE  MadeInv'
<1>1. Left' = Left /\ Wanted(config)' = Wanted(config)
  BY DEF Left, Wanted
<1>2. \A q : quiet' => (Fresh(config, q)' <=> Fresh(config, q))
  BY DEF Fresh, Held, ContentOf, EdgeIn
<1>3. Made(config) => Made(config)'
  BY <1>1, <1>2 DEF Made
<1>4. \A o \in DOMAIN running : RunsOnPresent(o) => RunsOnPresent(o)'
  BY <1>1, NeedsStay DEF RunsOnPresent, Reads, ContentOf, EdgeOf
<1> QED
  BY <1>3, <1>4 DEF MadeInv

LEMMA StepMadeInv ==
  ASSUME Traceable, IInv, ControlOK, SourcesKept, RunOK, DiskInv, FaithfulInv, FilesInv, StaleInv,
         TargetsInv, MadeInv, [Next]_vars
  PROVE  MadeInv'
<1> USE DEF Stays, Ends, nvars, hvars, vars
<1>0. DiskInv'
  BY StepDiskInv
<1>1. CASE Load \/ CleanAll \/ resolve_all_jobs \/ Gen \/ NotFound \/ Simulate \/ Compile
           \/ Analyze \/ Clean \/ Interrupt
  <2>1. pc' # "ninja" /\ ~Working'
    BY <1>1 DEF Load, CleanAll, FullClean, resolve_all_jobs, Gen, NotFound, Simulate, Compile,
       AskNinja, Analyze, Clean, Interrupt, Working
  <2> QED
    BY <2>1, NothingMade
<1>2. CASE List \/ NothingToDo
  BY <1>2, NothingMade DEF List, NothingToDo, TargetsInv
<1>3. CASE NinjaBegins
  BY <1>3, BeginsMade
<1>4. CASE NinjaWorks
  BY <1>0, <1>4, StartMade, EndMade DEF NinjaWorks
<1>5. CASE NinjaFails
  <2>1. PICK o \in DOMAIN running : EdgeFails(o)
    BY <1>5 DEF NinjaFails
  <2>2. /\ UNCHANGED <<pc, config, targets, build_ninja, disk, quiet, cmd, outcome>> /\ pc = "ninja"
        /\ DOMAIN running' \subseteq DOMAIN running
        /\ \A q \in DOMAIN running' : running'[q] = running[q]
        /\ todo' \cup DOMAIN running' \cup failed' = todo \cup DOMAIN running \cup failed
    BY <1>5, <2>1 DEF NinjaFails, EdgeFails, Restrict
  <2>3. Left' = Left /\ Wanted(config)' = Wanted(config)
    BY <2>2 DEF Left, Wanted
  <2>4. \A q : Fresh(config, q)' <=> Fresh(config, q)
    BY <2>2 DEF Fresh, Held, ContentOf, EdgeIn
  <2>5. Made(config)'
    BY <2>2, <2>3, <2>4 DEF MadeInv, Working, Made
  <2>6. \A q \in DOMAIN running' : RunsOnPresent(q)'
    BY <2>2, <2>3, NeedsStay DEF MadeInv, RunsOnPresent, Reads, ContentOf, EdgeOf
  <2> QED
    BY <2>2, <2>5, <2>6 DEF MadeInv, Working
<1>6. CASE NinjaEnds \/ run_analysis
  BY <1>6, MadeStays DEF NinjaEnds, run_analysis, Working
<1>7. ASSUME NEW p \in Editable, EditSource(p)
      PROVE  MadeInv'
  <2>1. DOMAIN running' = DOMAIN running
    BY <1>7 DEF EditSource, Overtaken
  <2> QED
    BY <1>7, <2>1, MadeStays DEF EditSource, Working
<1>8. CASE (\E s \in Versions : EditScript(s)) \/ UNCHANGED vars
  BY <1>8, MadeStays DEF EditScript, Working
<1> QED
  BY <1>1, <1>2, <1>3, <1>4, <1>5, <1>6, <1>7, <1>8 DEF Next, Command, User

-----------------------------------------------------------------------------
(* What would be made from nothing, told by the commands that are opened.  *)

Openers(s, q) == {r \in EdgesIn(s) : r \cap EdgeIn(s, q).opens # {}}

(* Where a file comes from: its edge, and where what this opens comes      *)
(* from.                                                                   *)
LEMMA OriginIs ==
  ASSUME NEW s \in Sound, NEW q \in EdgesIn(s)
  PROVE  /\ Origin[s][q] = {q} \cup UNION {Origin[s][r] : r \in Openers(s, q)}
         /\ Origin[s][q] \subseteq EdgesIn(s)
<1> DEFINE graph == [r \in EdgesIn(s) |-> [ins |-> EdgeIn(s, r).opens]]
<1>1. \A r \in EdgesIn(s) : Origin[s][r] = Upstream(graph, r)
  BY DEF Origin, EdgesIn, EdgeIn
<1>2. DOMAIN graph = EdgesIn(s) /\ IsFiniteSet(EdgesIn(s))
  BY GraphsAssumption DEF EdgesIn
<1>3. \A r \in EdgesIn(s) : Producers(graph, r) = Openers(s, r)
  BY DEF Producers, Openers
<1> HIDE DEF graph
<1>4. \A r \in EdgesIn(s) : /\ r \in Origin[s][r] /\ Origin[s][r] \subseteq EdgesIn(s)
                            /\ \A p \in Origin[s][r] : Openers(s, p) \subseteq Origin[s][r]
  <2> TAKE r \in EdgesIn(s)
  <2>1. /\ r \in Upstream(graph, r) /\ Upstream(graph, r) \subseteq DOMAIN graph
        /\ \A p \in Upstream(graph, r) : Producers(graph, p) \subseteq Upstream(graph, r)
    BY <1>2, UpstreamClosed
  <2> QED
    BY <1>1, <1>2, <1>3, <2>1
<1>5. ASSUME NEW r \in Openers(s, q)
      PROVE  Origin[s][r] \subseteq Origin[s][q]
  <2>1. r \in DOMAIN graph /\ r \in Origin[s][q]
    BY <1>2, <1>4 DEF Openers
  <2>2. \A p \in Origin[s][q] \cap DOMAIN graph : Producers(graph, p) \subseteq Origin[s][q]
    BY <1>2, <1>3, <1>4
  <2>3. Upstream(graph, r) \subseteq Origin[s][q]
    BY <1>2, <2>1, <2>2, UpstreamLeast
  <2> QED
    BY <1>1, <1>2, <2>1, <2>3
<1> DEFINE X == {q} \cup UNION {Origin[s][r] : r \in Openers(s, q)}
<1>6. \A p \in X \cap DOMAIN graph : Producers(graph, p) \subseteq X
  <2> TAKE p \in X \cap DOMAIN graph
  <2>1. CASE p = q
    <3>1. \A r \in Openers(s, q) : r \in Origin[s][r]
      BY <1>4 DEF Openers
    <3> QED
      BY <1>2, <1>3, <2>1, <3>1
  <2>2. CASE \E r \in Openers(s, q) : p \in Origin[s][r]
    <3>1. PICK r \in Openers(s, q) : p \in Origin[s][r]
      BY <2>2
    <3>2. Openers(s, p) \subseteq Origin[s][r]
      BY <1>4, <3>1 DEF Openers
    <3> QED
      BY <1>2, <1>3, <3>2
  <2> QED
    BY <2>1, <2>2
<1>7. Origin[s][q] \subseteq X
  <2>1. q \in X /\ q \in DOMAIN graph
    BY <1>2
  <2> HIDE DEF X
  <2>2. Upstream(graph, q) \subseteq X
    BY <1>2, <1>6, <2>1, UpstreamLeast
  <2> QED
    BY <1>1, <2>2
<1> QED
  BY <1>4, <1>5, <1>7

(* What an edge itself adds to what its outputs would hold.                *)
Part(s, q) ==
  {EdgeIn(s, q).command}
  \cup {<<f, Files[s][f]>> : f \in EdgeIn(s, q).opens \cap Writes(s)}
  \cup UNION {disk[f].from : f \in EdgeIn(s, q).opens \cap Sources}

LEMMA ExpectedParts ==
  ASSUME NEW s \in Sound, NEW q \in EdgesIn(s)
  PROVE  Expected(s, q) = UNION {Part(s, r) : r \in Origin[s][q]}
<1> DEFINE orig == Origin[s][q]
           opened == UNION {EdgeIn(s, r).opens : r \in orig}
<1>1. q \in DOMAIN Origin[s] /\ orig \subseteq EdgesIn(s)
  BY OriginIs DEF Origin, EdgesIn
<1>2. Opened[s][q] = opened
  BY <1>1 DEF Opened, EdgeIn
<1>3. Configured[s][q] = {EdgeIn(s, r).command : r \in orig}
                         \cup {<<p, Files[s][p]>> : p \in opened \cap Writes(s)}
  BY <1>1, <1>2 DEF Configured, EdgeIn, Writes
<1>4. Expected(s, q) = {EdgeIn(s, r).command : r \in orig}
                       \cup {<<p, Files[s][p]>> : p \in opened \cap Writes(s)}
                       \cup UNION {disk[p].from : p \in opened \cap Sources}
  BY <1>2, <1>3 DEF Expected
<1> HIDE DEF orig
<1>5. \A x : x \in Expected(s, q) <=> \E r \in orig : x \in Part(s, r)
  BY <1>4 DEF Part
<1> QED
  BY <1>5 DEF orig

LEMMA ExpectedIs ==
  ASSUME NEW s \in Sound, NEW q \in EdgesIn(s)
  PROVE  Expected(s, q) = Part(s, q) \cup UNION {Expected(s, r) : r \in Openers(s, q)}
<1>1. Expected(s, q) = UNION {Part(s, r) : r \in Origin[s][q]}
  BY ExpectedParts
<1>2. \A r \in Openers(s, q) : Expected(s, r) = UNION {Part(s, p) : p \in Origin[s][r]}
  BY ExpectedParts DEF Openers
<1>3. Origin[s][q] = {q} \cup UNION {Origin[s][r] : r \in Openers(s, q)}
  BY OriginIs
<1> QED
  BY <1>1, <1>2, <1>3

(* If all that an edge needs holds what its command would write, it holds  *)
(* what would be made from nothing.                                        *)
LEMMA FreshIsExpected ==
  ASSUME Traceable, DiskInv, SourcesKept, NEW s \in Sound, build_ninja = s,
         \A p \in Writes(s) : p \in DOMAIN disk /\ disk[p].from = {<<p, Files[s][p]>>},
         NEW o \in EdgesIn(s), \A q \in Needs(o) : Fresh(s, q)
  PROVE  \A p \in o : disk[p].from = Expected(s, o)
<1> DEFINE U == {q \in Needs(o) : \E p \in q : disk[p].from # Expected(s, q)}
<1>1. o \in Needs(o) /\ Needs(o) \subseteq EdgesIn(s) /\ Edges = EdgesIn(s)
  BY NeedsFacts DEF Edges, EdgesIn
<1> SUFFICES ASSUME U # {} PROVE FALSE
  BY <1>1
<1>2. PICK q \in U : Needs(q) \cap U = {q}
  <2>1. U \subseteq Edges /\ \A r \in U : ~Circular(r)
    BY <1>1, NotCircular
  <2> HIDE DEF U
  <2> QED
    BY <2>1, FirstOfEdges
<1>3. q \in Needs(o) /\ q \in EdgesIn(s) /\ Needs(q) \subseteq Needs(o)
  BY <1>1, NeedsFacts
<1>4. \A r \in Openers(s, q) : r # q /\ r \in Needs(q)
  BY <1>3, OpensApart, ReadsApart DEF Openers
<1>5. ASSUME NEW r \in Openers(s, q), NEW p \in r
      PROVE  p \in DOMAIN disk /\ disk[p].from = Expected(s, r)
  BY <1>2, <1>3, <1>4, <1>5 DEF Fresh
<1>6. ASSUME NEW f \in EdgeIn(s, q).opens
      PROVE  ContentOf(f) \subseteq Part(s, q) \cup UNION {Expected(s, r) : r \in Openers(s, q)}
  <2>1. CASE f \in Sources
    BY <2>1 DEF Part, ContentOf, SourcesKept
  <2>2. CASE f \in Writes(s)
    BY <2>2 DEF Part, ContentOf
  <2>3. CASE f \in UNION EdgesIn(s)
    <3>1. PICK r \in EdgesIn(s) : f \in r
      BY <2>3
    <3>2. r \in Openers(s, q)
      BY <3>1 DEF Openers
    <3> QED
      BY <1>5, <3>1, <3>2 DEF ContentOf
  <2>4. CASE f \notin Makeable
    BY <2>4 DEF ContentOf, DiskInv
  <2>5. f \in Makeable => f \in Sources \cup Writes(s) \cup UNION EdgesIn(s)
    BY <1>3 DEF Traceable, TraceableIn, Makeable, EdgeIn
  <2> QED
    BY <2>1, <2>2, <2>3, <2>4, <2>5
<1>7. Part(s, q) \subseteq Held(s, q)
  <2>1. \A f \in EdgeIn(s, q).opens : ContentOf(f) \subseteq Held(s, q)
    BY DEF Held
  <2>2. \A f \in EdgeIn(s, q).opens \cap Writes(s) : <<f, Files[s][f]>> \in Held(s, q)
    <3>1. \A f \in Writes(s) : <<f, Files[s][f]>> \in ContentOf(f)
      BY DEF ContentOf
    <3> QED
      BY <2>1, <3>1
  <2>3. \A f \in EdgeIn(s, q).opens \cap Sources : disk[f].from \subseteq Held(s, q)
    <3>1. \A f \in Sources : disk[f].from = ContentOf(f)
      BY DEF ContentOf, SourcesKept
    <3> QED
      BY <2>1, <3>1
  <2>4. EdgeIn(s, q).command \in Held(s, q)
    BY DEF Held
  <2> QED
    BY <2>2, <2>3, <2>4 DEF Part
<1>8. ASSUME NEW r \in Openers(s, q) PROVE Expected(s, r) \subseteq Held(s, q)
  <2>1. PICK f \in r : f \in EdgeIn(s, q).opens
    BY DEF Openers
  <2>2. ContentOf(f) = Expected(s, r)
    BY <1>5 DEF ContentOf
  <2> QED
    BY <2>1, <2>2 DEF Held
<1>9. Held(s, q) = Part(s, q) \cup UNION {Expected(s, r) : r \in Openers(s, q)}
  <2> DEFINE X == Part(s, q) \cup UNION {Expected(s, r) : r \in Openers(s, q)}
  <2>1. EdgeIn(s, q).command \in X
    BY DEF Part
  <2>2. \A f \in EdgeIn(s, q).opens : ContentOf(f) \subseteq X
    BY <1>6
  <2>3. X \subseteq Held(s, q)
    BY <1>7, <1>8
  <2> HIDE DEF X
  <2>4. Held(s, q) \subseteq X
    BY <2>1, <2>2 DEF Held
  <2>5. Held(s, q) = X
    BY <2>3, <2>4
  <2> QED
    BY <2>5 DEF X
<1>10. Expected(s, q) = Held(s, q)
  BY <1>3, <1>9, ExpectedIs
<1> QED
  BY <1>3, <1>10 DEF Fresh

-----------------------------------------------------------------------------
(* The logs of a simulation.                                               *)

(* Its path has at least eight parts if the build directory has a name,    *)
(* and the third is the experiment if that is the only one.                *)
LEMMA LogPath ==
  ASSUME NEW s \in Sound, NEW x \in ToSet(Sims[s]), Config[s].build_dir # <<>>
  PROVE  /\ Len(sim_log(x)) >= 8
         /\ Len(Config[s].build_dir) = 1 => experiment(sim_log(x)) = x.experiment
<1> PICK c : c = Config[s]
  OBVIOUS
<1> PICK root : root = c.build_dir
  OBVIOUS
<1>1. WellFormed(c) /\ x \in ToSet(AllSimulations(c))
  BY SoundWellFormed DEF Sims
<1>2. PICK dirs, rest : SimulationDir(x, root, dirs, rest)
  BY <1>1, SimulationsInDirs
<1>3. /\ IsSeq(root) /\ IsSeq(dirs) /\ IsSeq(rest) /\ Len(dirs) = 6
      /\ x.silo_dir = (root \o dirs) \o rest
  BY <1>1, <1>2 DEF SimulationDir, WellFormed
<1>4. /\ Len(root) \in Nat /\ Len(rest) \in Nat
      /\ IsSeq(x.silo_dir) /\ Len(x.silo_dir) = (Len(root) + 6) + Len(rest)
  <2>1. IsSeq(root \o dirs) /\ Len(root \o dirs) = Len(root) + Len(dirs) /\ Len(root) \in Nat
    BY <1>3, IsSeqFacts
  <2>2. /\ IsSeq((root \o dirs) \o rest) /\ Len(rest) \in Nat
        /\ Len((root \o dirs) \o rest) = Len(root \o dirs) + Len(rest)
    BY <1>3, <2>1, IsSeqFacts
  <2> QED
    BY <1>3, <2>1, <2>2
<1>5. Len(root) # 0
  BY <1>3, <1>4 DEF IsSeq
<1>6. Len(sim_log(x)) = Len(x.silo_dir) + 1
  BY <1>4 DEF sim_log, IsSeq
<1>7. Len(root) = 1 => experiment(sim_log(x)) = x.experiment
  <2>1. Below(sim_log(x), root, "sim", x.experiment)
    BY <1>1, <1>3, SimulationBelow, FileBelow DEF sim_log
  <2> QED
    BY <2>1 DEF Below, experiment
<1> QED
  BY <1>3, <1>4, <1>5, <1>6, <1>7

LEMMA AskedIs ==
  ASSUME Traceable, config \in Sound, NEW t \in LogsAsked
  PROVE  /\ {t} \in EdgesIn(config) /\ t \in MadeFiles /\ Len(t) >= 8
         /\ Len(Config[config].build_dir) = 1 => experiment(t) = cmd.experiment
<1> PICK s : s = config
  OBVIOUS
<1>1. PICK x \in ToSet(Sims[s]) : t = sim_log(x) /\ x.experiment = cmd.experiment
  BY DEF LogsAsked
<1>2. {t} \in EdgesIn(s)
  BY <1>1, LogIsEdge
<1>3. t \in MadeFiles
  BY <1>2 DEF MadeFiles
<1>4. Config[s].build_dir # <<>>
  BY DEF Traceable, TraceableIn
<1> QED
  BY <1>1, <1>2, <1>3, <1>4, LogPath

(* A source is not a log that is asked for.                                *)
LEMMA StepAnalysedInv ==
  ASSUME Traceable, IInv, FilesInv, TargetsInv, AnalysedInv, [Next]_vars
  PROVE  AnalysedInv'
<1> USE DEF Stays, Ends, nvars, hvars, vars
<1>1. CASE pc' # "idle" \/ outcome' # "done" \/ cmd'.command # "simulate"
  BY <1>1 DEF AnalysedInv
<1>2. CASE Load \/ CleanAll \/ resolve_all_jobs \/ Gen \/ NotFound \/ Simulate \/ Compile
           \/ Analyze \/ Clean \/ NinjaBegins \/ NinjaWorks \/ NinjaFails \/ NinjaEnds \/ Interrupt
  BY <1>1, <1>2 DEF Load, CleanAll, FullClean, resolve_all_jobs, Gen, NotFound, Simulate, Compile,
     AskNinja, Analyze, Clean, NinjaBegins, NinjaWorks, NinjaFails, NinjaEnds, Interrupt
<1>3. CASE List \/ NothingToDo
  <2>1. targets' = <<>>
    BY <1>3 DEF List, NothingToDo, TargetsInv
  <2> QED
    BY <2>1 DEF AnalysedInv, ToSet
<1>4. CASE run_analysis
  <2>1. report' = [t \in Logs |-> SimStatus(disk[t].result)] /\ UNCHANGED <<disk, targets>>
    BY <1>4 DEF run_analysis
  <2>2. \A t \in ToSet(targets) : t \in DOMAIN disk /\ Len(t) >= 8 => t \in Logs
    BY DEF Logs, Analysed
  <2>3. \A t \in Logs : t \in DOMAIN report' /\ report'[t] = SimStatus(disk[t].result)
    BY <2>1
  <2> QED
    BY <2>1, <2>2, <2>3 DEF AnalysedInv, ToSet, SimStatus
<1>5. ASSUME NEW p \in Editable, EditSource(p),
             pc = "idle", outcome = "done", cmd.command = "simulate"
      PROVE  AnalysedInv'
  <2>1. /\ UNCHANGED <<pc, outcome, cmd, targets, report>> /\ DOMAIN disk' = DOMAIN disk
        /\ \A t \in DOMAIN disk : t # p => disk'[t] = disk[t]
    BY <1>5 DEF EditSource
  <2>2. config \in Sound
    BY <1>5 DEF FilesInv, Untouched
  <2>3. \A t \in ToSet(targets) : t \in LogsAsked
    BY <1>5 DEF TargetsInv
  <2>4. \A t \in ToSet(targets) : t # p
    BY <2>2, <2>3, AskedIs, SourcesAssumption DEF Traceable, FilesApart
  <2> QED
    BY <1>5, <2>1, <2>4 DEF AnalysedInv, ToSet, SimStatus
<1>6. ASSUME UNCHANGED <<pc, outcome, cmd, targets, report, disk>>
      PROVE  AnalysedInv'
  BY <1>6 DEF AnalysedInv, ToSet, SimStatus
<1>7. ASSUME NEW p \in Editable, EditSource(p),
             ~(pc = "idle" /\ outcome = "done" /\ cmd.command = "simulate")
      PROVE  AnalysedInv'
  BY <1>1, <1>7 DEF EditSource
<1>8. CASE (\E s \in Versions : EditScript(s)) \/ UNCHANGED vars
  BY <1>6, <1>8 DEF EditScript
<1> QED
  BY <1>2, <1>3, <1>4, <1>5, <1>7, <1>8 DEF Next, Command, User

-----------------------------------------------------------------------------
(* What a simulation reports.                                              *)

ReportInv ==
  /\ IInv /\ ControlOK /\ SourcesKept /\ RunOK /\ ReportOK /\ KeepInv
  /\ DiskInv /\ FaithfulInv /\ FilesInv /\ StaleInv /\ TargetsInv /\ MadeInv /\ AnalysedInv

LEMMA InitReportInv == Init => ReportInv
<1> SUFFICES ASSUME Init PROVE ReportInv
  OBVIOUS
<1>1. FilesInv /\ StaleInv /\ MadeInv /\ AnalysedInv
  BY DEF Init, FilesInv, Untouched, StaleInv, MadeInv, Working, AnalysedInv
<1>2. TargetsInv
  BY DEF Init, TargetsInv
<1> QED
  BY <1>1, <1>2, InitIInv, InitTypes, InitKeepInv, InitFaithfulInv DEF ReportInv

LEMMA StepReportInv ==
  ASSUME Traceable, ReportInv, [Next]_vars
  PROVE  ReportInv'
<1> USE DEF ReportInv
<1>1. IInv' /\ ControlOK' /\ SourcesKept' /\ RunOK' /\ ReportOK' /\ KeepInv'
  BY StepIInv, StepControlOK, StepSourcesKept, StepRunOK, StepReportOK, StepKeepInv
<1>2. DiskInv' /\ FaithfulInv' /\ FilesInv' /\ StaleInv'
  BY StepDiskInv, StepFaithfulInv, StepFilesInv, StepStaleInv
<1>3. TargetsInv' /\ MadeInv' /\ AnalysedInv'
  BY StepTargetsInv, StepMadeInv, StepAnalysedInv
<1> QED
  BY <1>1, <1>2, <1>3

(* ninja's log never calls up to date what is not, although it outlives    *)
(* build.ninja, which every command writes anew (main.rs:94-96): of every  *)
(* history and every harness.lua that tells ninja enough.                  *)
THEOREM LogIsFaithful == Traceable => (Spec => []FaithfulInv)
<1> SUFFICES ASSUME Traceable PROVE Spec => []FaithfulInv
  OBVIOUS
<1>1. Init => ReportInv
  BY InitReportInv
<1>2. ReportInv /\ [Next]_vars => ReportInv'
  BY StepReportInv
<1>3. ReportInv => FaithfulInv
  BY DEF ReportInv
<1> QED
  BY <1>1, <1>2, <1>3, PTL DEF Spec

(* While ninja works (main.rs:238) and until the next command, what was    *)
(* asked for and is not left to make holds what its command would write    *)
(* now, if nothing was edited since.                                       *)
THEOREM MadeIsFresh == Traceable => (Spec => []MadeInv)
<1> SUFFICES ASSUME Traceable PROVE Spec => []MadeInv
  OBVIOUS
<1>1. Init => ReportInv
  BY InitReportInv
<1>2. ReportInv /\ [Next]_vars => ReportInv'
  BY StepReportInv
<1>3. ReportInv => MadeInv
  BY DEF ReportInv
<1> QED
  BY <1>1, <1>2, <1>3, PTL DEF Spec

(* What ninja was asked for and has not left is current.                   *)
LEMMA AskedIsCurrent ==
  ASSUME Traceable, ReportInv, Working, pc = "idle", quiet, config \in Sound,
         NEW o \in EdgesIn(config), o \cap ToSet(targets) # {}, o \notin Unmade
  PROVE  \A p \in o : p \in DOMAIN disk /\ Current(p)
<1> PICK s : s = config
  OBVIOUS
<1> USE DEF ReportInv
<1>1. build_ninja = s /\ Left = Unmade
  <2>1. targets # <<>>
    BY DEF ToSet
  <2> QED
    BY <2>1 DEF MadeInv, IInv, IdleInv, Left, Unmade
<1>2. o \in Needs(o) /\ Needs(o) \subseteq EdgesIn(s)
  BY <1>1, NeedsFacts DEF Edges, EdgesIn
<1>3. Needs(o) \subseteq Wanted(s)
  BY <1>1 DEF Wanted, Needs
<1>4. Needs(o) \cap Left = {}
  BY <1>1, <1>2, <1>3 DEF MadeInv, Made, Needs
<1>5. \A q \in Needs(o) : Fresh(s, q)
  BY <1>3, <1>4 DEF MadeInv, Made
<1>6. \A p \in Writes(s) : p \in DOMAIN disk /\ disk[p].from = {<<p, Files[s][p]>>}
  BY DEF Working, FilesInv, Untouched
<1>7. \A p \in o : disk[p].from = Expected(s, o)
  BY <1>1, <1>5, <1>6, FreshIsExpected
<1>8. ASSUME NEW p \in o, NEW q \in DOMAIN Origin[s], p \in q
      PROVE  q = o
  <2>1. q \in EdgesIn(s) /\ OrderTold[s] /\ Generated[s].accepted
    BY DEF Origin, EdgesIn, Traceable, TraceableIn
  <2> QED
    BY <1>8, <2>1 DEF OrderTold, EdgesIn
<1> QED
  BY <1>2, <1>5, <1>7, <1>8 DEF Current, Fresh

LEMMA ReportComes ==
  ASSUME Traceable, ReportInv
  PROVE  ReportIsCurrent
<1> SUFFICES ASSUME Settled("simulate"), NEW t \in ToSet(targets), {t} \notin Unmade
             PROVE  t \in DOMAIN report /\ Current(t)
  BY DEF ReportIsCurrent
<1>1. pc = "idle" /\ outcome = "done" /\ cmd.command = "simulate" /\ quiet
  BY DEF Settled
<1>2. config \in Sound
  BY <1>1 DEF ReportInv, FilesInv, Untouched
<1>3. t \in LogsAsked
  BY <1>1 DEF ReportInv, TargetsInv
<1>4. {t} \in EdgesIn(config) /\ Len(t) >= 8
  BY <1>2, <1>3, AskedIs
<1>5. t \in DOMAIN disk /\ Current(t)
  BY <1>1, <1>2, <1>4, AskedIsCurrent DEF Working
<1>6. t \in DOMAIN report
  BY <1>1, <1>4, <1>5 DEF ReportInv, AnalysedInv
<1> QED
  BY <1>5, <1>6

(* Whatever was edited, failed, was interrupted or cleaned before: each    *)
(* result that simulate reports, except of simulations that ninja could    *)
(* not run, comes from the present sources and configuration, of every     *)
(* harness.lua that tells ninja enough (main.rs:232, ninja.rs:52).         *)
THEOREM ReportsAreCurrent == Traceable => (Spec => []ReportIsCurrent)
<1> SUFFICES ASSUME Traceable PROVE Spec => []ReportIsCurrent
  OBVIOUS
<1>1. Init => ReportInv
  BY InitReportInv
<1>2. ReportInv /\ [Next]_vars => ReportInv'
  BY StepReportInv
<1>3. ReportInv => ReportIsCurrent
  BY ReportComes
<1> QED
  BY <1>1, <1>2, <1>3, PTL DEF Spec

-----------------------------------------------------------------------------
(* "ALL TESTS PASSED!"                                                     *)

LEMMA FilesFinite ==
  ASSUME NEW s \in Sound
  PROVE  IsFiniteSet(UNION EdgesIn(s))
BY GraphsAssumption, FS_UNION DEF EdgesIn

(* No status but a pass counts as none failed, and only "0" is a pass.     *)
LEMMA NoneFails ==
  ASSUME NEW results, NEW name, IsFiniteSet(DOMAIN results),
         Banner(results, name) = "ALL TESTS PASSED!"
  PROVE  \A t \in DOMAIN results : experiment(t) = name => results[t] = "Pass"
<1> DEFINE F == {t \in DOMAIN results : experiment(t) = name /\ results[t] # "Pass"}
<1>1. Cardinality(F) = 0
  BY DEF Banner, Fails
<1>2. IsFiniteSet(F)
  BY FS_Subset
<1>3. F = {}
  <2> HIDE DEF F
  <2> QED
    BY <1>1, <1>2, FS_EmptySet
<1> QED
  BY <1>3

LEMMA PassIsZero ==
  ASSUME NEW result, SimStatus(result) = "Pass"
  PROVE  result = "0"
BY DEF SimStatus

LEMMA GreenComes ==
  ASSUME Traceable, \A s \in Sound : Len(Config[s].build_dir) = 1, ReportInv
  PROVE  GreenMeansPassed
<1> SUFFICES ASSUME Settled("simulate"), failed = {},
                    Banner(report, cmd.experiment) = "ALL TESTS PASSED!",
                    NEW t \in ToSet(targets)
             PROVE  t \in DOMAIN disk /\ disk[t].result = "0" /\ Current(t)
  BY DEF GreenMeansPassed
<1>1. pc = "idle" /\ outcome = "done" /\ cmd.command = "simulate" /\ quiet
  BY DEF Settled
<1>2. config \in Sound
  BY <1>1 DEF ReportInv, FilesInv, Untouched
<1>3. Unmade = {}
  BY <1>1 DEF ReportInv, KeepInv, Blocked, Unmade
<1>4. t \in DOMAIN report /\ Current(t)
  BY <1>3, ReportComes DEF ReportIsCurrent
<1>5. \A x \in ToSet(targets) : /\ {x} \in EdgesIn(config) /\ Len(x) >= 8
                                /\ experiment(x) = cmd.experiment
  BY <1>1, <1>2, AskedIs DEF ReportInv, TargetsInv
<1>6. IsFiniteSet(DOMAIN report)
  <2>1. DOMAIN report \subseteq UNION EdgesIn(config)
    BY <1>5 DEF ReportInv, ReportOK
  <2> QED
    BY <1>2, <2>1, FilesFinite, FS_Subset
<1>7. report[t] = "Pass" /\ t \in DOMAIN disk
  BY <1>4, <1>5, <1>6, NoneFails DEF ReportInv, ReportOK
<1>8. report[t] = SimStatus(disk[t].result)
  BY <1>1, <1>5, <1>7 DEF ReportInv, AnalysedInv
<1> QED
  BY <1>4, <1>7, <1>8, PassIsZero

(* If ninja made all it was asked for, "ALL TESTS PASSED!" is true of the  *)
(* present sources: every simulation asked for printed res=0               *)
(* (analysis.rs:110).  The report tells experiments by the third part of a *)
(* log's path, so the build directory must be a single one.                *)
THEOREM GreenIsTrue ==
  Traceable /\ BuildDirIsOne => (Spec => []GreenMeansPassed)
<1> SUFFICES ASSUME Traceable, BuildDirIsOne
             PROVE  Spec => []GreenMeansPassed
  OBVIOUS
<1>1. Init => ReportInv
  BY InitReportInv
<1>2. ReportInv /\ [Next]_vars => ReportInv'
  BY StepReportInv
<1>3. ReportInv => GreenMeansPassed
  BY GreenComes DEF BuildDirIsOne
<1> QED
  BY <1>1, <1>2, <1>3, PTL DEF Spec

-----------------------------------------------------------------------------
(* What compile asks for, and what the simulations open of it.             *)

LEMMA HardwareOf ==
  ASSUME NEW c, NEW exp, IsSeq(exp.param_sets), IsSeq(exp.simulators),
         NEW h \in ToSet(resolve_hardware(c, exp))
  PROVE  h.testbench = exp.testbench /\ h.param_set \in ToSet(exp.param_sets)
<1>1. resolve_hardware(c, exp) \in Seq(HardwareJobs(c, exp))
  BY HardwareSeq
<1>2. h \in HardwareJobs(c, exp)
  BY <1>1 DEF ToSet
<1>3. PICK ps \in Range(exp.param_sets), sim \in Range(exp.simulators) :
        h = HardwareJob(c, exp.testbench, ps, sim)
  BY <1>2 DEF HardwareJobs
<1> QED
  BY <1>3 DEF HardwareJob, Range, ToSet

LEMMA TargetIsMade ==
  ASSUME config \in Sound
  PROVE  CompileTargets \subseteq UNION EdgesIn(config) /\ IsFiniteSet(CompileTargets)
<1>1. CompileTargets \subseteq UNION EdgesIn(config)
  BY ArtifactEdge DEF CompileTargets, C
<1> QED
  BY <1>1, FilesFinite, FS_Subset

LEMMA SetToSeqIs ==
  ASSUME NEW S, IsFiniteSet(S)
  PROVE  ToSet(SetToSeq(S)) = S
<1> PICK n \in Nat : n = Cardinality(S)
  BY FS_CardinalityType
<1>1. \E f \in [1 .. n -> S] : IsInjective(f)
  <2>1. PICK f \in Bijection(1 .. n, S) : TRUE
    BY FS_CardinalityType DEF ExistsBijection
  <2> QED
    BY <2>1 DEF Bijection, Injection, Surjection, IsInjective
<1>2. SetToSeq(S) \in [1 .. n -> S] /\ IsInjective(SetToSeq(S))
  BY <1>1 DEF SetToSeq
<1> PICK f \in [1 .. n -> S] : f = SetToSeq(S) /\ IsInjective(f)
  BY <1>2
<1>3. f \in Surjection(1 .. n, S)
  <2>1. IsFiniteSet(1 .. n) /\ Cardinality(1 .. n) = n
    BY FS_Interval
  <2>2. f \in Injection(1 .. n, S)
    BY DEF Injection, IsInjective
  <2> QED
    BY <2>1, <2>2, FS_Injection
<1> QED
  BY <1>3 DEF Surjection, ToSet

Unfiltered == cmd.hw = "" /\ cmd.sw = "" /\ cmd.sim = ""

(* Every file that a simulation of the experiment opens is asked for.      *)
LEMMA SimulationOpens ==
  ASSUME NamesDiffer, config \in Sound, Unfiltered,
         NEW x \in ToSet(Sims[config]), x.experiment = cmd.experiment,
         NEW p \in Range(x.run_sh.args)
  PROVE  cmd.experiment # "" /\ p \in CompileTargets
<1> PICK c : c = Config[config]
  OBVIOUS
<1>1. WellFormed(c)
  BY SoundWellFormed
<1>2. x \in SimsOfAll(c)
  <2>1. AllSimulations(c) \in Seq(SimsOfAll(c)) /\ Sims[config] = AllSimulations(c)
    BY <1>1, AllSimulationsSeq DEF Sims
  <2> QED
    BY <2>1 DEF ToSet
<1>3. PICK k \in DOMAIN c.experiments : x \in SimsOf(c, c.experiments[k])
  BY <1>2 DEF SimsOfAll
<1> PICK exp : exp = c.experiments[k]
  OBVIOUS
<1>4. /\ IsSeq(exp.param_sets) /\ IsSeq(exp.simulators) /\ k \in Nat
  <2>1. PICK m \in Nat : DOMAIN c.experiments = 1 .. m
    BY <1>1, IsSeqDomain DEF WellFormed
  <2>2. k \in Nat
    BY <2>1
  <2> QED
    BY <1>1, <2>2 DEF WellFormed
<1>5. \/ \E h \in ToSet(resolve_hardware(c, exp)) : x = StandaloneSim(c, exp, h)
      \/ \E h \in ToSet(resolve_hardware(c, exp)), j \in SoftwareJobs(c, exp) :
           x = SoftwareSim(c, exp, h, j)
  BY <1>3 DEF SimsOf
<1>6. exp.name = cmd.experiment /\ cmd.experiment # ""
  <2>1. x.experiment = exp.name
    BY <1>5 DEF StandaloneSim, SoftwareSim, SimJob
  <2> QED
    BY <2>1 DEF NamesDiffer
<1>7. (CHOOSE i \in Named : \A j \in Named : i <= j) = k /\ C = c
  <2>1. Named = {k}
    BY <1>6 DEF Named, NamesDiffer, C
  <2>2. k <= k
    BY <1>4
  <2> QED
    BY <2>1, <2>2 DEF C
<1>8. \A h \in AllHardware(c) :
        h.testbench = exp.testbench /\ h.param_set \in ToSet(exp.param_sets)
          => Range(h.artifact_paths) \subseteq CompileTargets
  BY <1>7 DEF CompileTargets, Is, Unfiltered
<1>9. \A j \in AllSoftware(c) :
        j.suite_name \in ToSet(exp.suites) => Range(j.artifacts) \subseteq CompileTargets
  BY <1>7 DEF CompileTargets, In, Unfiltered
<1>10. ASSUME NEW h \in ToSet(resolve_hardware(c, exp))
       PROVE  Range(h.artifact_paths) \subseteq CompileTargets
  <2>1. h \in AllHardware(c)
    BY DEF AllHardware
  <2>2. h.testbench = exp.testbench /\ h.param_set \in ToSet(exp.param_sets)
    BY <1>4, HardwareOf
  <2> QED
    BY <1>8, <2>1, <2>2
<1>11. ASSUME NEW j \in SoftwareJobs(c, exp)
       PROVE  Range(j.artifacts) \subseteq CompileTargets
  <2>1. j.suite_name \in ToSet(exp.suites)
    <3>1. PICK n \in Range(exp.suites) \cap DOMAIN c.suites :
            j \in {SoftwareJob(c, n, prog) : prog \in Range(Programs[n])}
      BY DEF SoftwareJobs
    <3>2. PICK prog : j = SoftwareJob(c, n, prog)
      BY <3>1
    <3>3. j.suite_name = n
      BY <3>2 DEF SoftwareJob
    <3> QED
      BY <3>3 DEF Range, ToSet
  <2> QED
    BY <1>9, <2>1, SoftwareKnown
<1>12. ASSUME NEW h \in ToSet(resolve_hardware(c, exp)), x = StandaloneSim(c, exp, h)
       PROVE  p \in CompileTargets
  <2>1. p \in Range(h.artifact_paths)
    BY <1>12 DEF StandaloneSim, SimJob, RunScript, Restrict, Range
  <2> QED
    BY <1>10, <2>1
<1>13. ASSUME NEW h \in ToSet(resolve_hardware(c, exp)), NEW j \in SoftwareJobs(c, exp),
              x = SoftwareSim(c, exp, h, j)
       PROVE  p \in CompileTargets
  <2>1. p \in Range(Over(h.artifact_paths, j.artifacts))
    BY <1>13 DEF SoftwareSim, SimJob, RunScript, Restrict, Range
  <2>2. p \in Range(h.artifact_paths) \cup Range(j.artifacts)
    BY <2>1 DEF Over, Range
  <2> QED
    BY <1>10, <1>11, <2>2
<1> QED
  BY <1>5, <1>6, <1>12, <1>13

-----------------------------------------------------------------------------
(* Whatever compile was given, ninja is asked for all it says.             *)
CompileInv ==
  cmd.command = "compile" =>
    /\ pc # "analyse"
    /\ pc \in {"plan", "ninja"} \/ (pc = "idle" /\ outcome = "done") =>
         (cmd.experiment # "" => CompileTargets \subseteq ToSet(targets))

LEMMA InitCompileInv == Init => CompileInv
  BY DEF Init, CompileInv

LEMMA StepCompileInv ==
  ASSUME IInv, CompileInv, [Next]_vars
  PROVE  CompileInv'
<1> USE DEF Stays, Ends, nvars, hvars, vars
<1>0. CompileTargets' = CompileTargets \/ ~UNCHANGED <<config, cmd>>
  BY DEF CompileTargets, Named, C
<1>1. CASE Load \/ CleanAll \/ resolve_all_jobs \/ Gen \/ List \/ NotFound \/ Simulate \/ Analyze
           \/ Clean \/ Interrupt
  BY <1>1 DEF Load, CleanAll, FullClean, resolve_all_jobs, Gen, List, NotFound, Simulate, AskNinja,
     Analyze, Clean, Interrupt, CompileInv
<1>2. CASE Compile
  <2>1. targets' = SetToSeq(CompileTargets) /\ pc' = "plan" /\ UNCHANGED <<config, cmd>>
    BY <1>2 DEF Compile, AskNinja
  <2>2. config \in Sound
    BY <1>2 DEF Compile, IInv, ConfigInv
  <2>3. ToSet(targets') = CompileTargets
    BY <2>1, <2>2, TargetIsMade, SetToSeqIs
  <2> QED
    BY <1>0, <2>1, <2>3 DEF CompileInv, ToSet
<1>3. CASE NothingToDo
  <2>1. cmd.command = "compile" => CompileTargets' = {}
    BY <1>0, <1>3 DEF NothingToDo
  <2> QED
    BY <1>3, <2>1 DEF NothingToDo, CompileInv
<1>4. CASE NinjaBegins \/ NinjaWorks \/ NinjaFails \/ NinjaEnds \/ run_analysis
  <2>1. /\ pc \in {"plan", "ninja", "analyse"} /\ UNCHANGED <<targets, config, cmd>>
        /\ pc = "analyse" \/ pc' # "analyse" \/ cmd.command = "simulate"
    BY <1>4 DEF NinjaBegins, NinjaWorks, NinjaFails, NinjaEnds, run_analysis
  <2> QED
    BY <1>0, <2>1 DEF CompileInv
<1>5. CASE (\E p \in Editable : EditSource(p)) \/ (\E s \in Versions : EditScript(s)) \/ UNCHANGED vars
  BY <1>0, <1>5 DEF EditSource, EditScript, CompileInv
<1> QED
  BY <1>1, <1>2, <1>3, <1>4, <1>5 DEF Next, Command, User

LEMMA CompileComes ==
  ASSUME Traceable, NamesDiffer, ReportInv, CompileInv
  PROVE  CompileIsEnough
<1> SUFFICES ASSUME Settled("compile"), failed = {}, Unfiltered,
                    NEW i \in DOMAIN Sims[config], Sims[config][i].experiment = cmd.experiment,
                    NEW p \in Range(Sims[config][i].run_sh.args)
             PROVE  p \in DOMAIN disk /\ Current(p)
  BY DEF CompileIsEnough, Unfiltered
<1>1. pc = "idle" /\ outcome = "done" /\ cmd.command = "compile" /\ quiet
  BY DEF Settled
<1>2. config \in Sound
  BY <1>1 DEF ReportInv, FilesInv, Untouched
<1> PICK x \in ToSet(Sims[config]) : x = Sims[config][i]
  BY DEF ToSet
<1>3. cmd.experiment # "" /\ p \in CompileTargets
  BY <1>2, SimulationOpens
<1>4. p \in ToSet(targets)
  BY <1>1, <1>3 DEF CompileInv
<1>5. PICK o \in EdgesIn(config) : p \in o
  BY <1>2, <1>3, TargetIsMade
<1>6. Unmade = {}
  BY <1>1 DEF ReportInv, KeepInv, Blocked, Unmade
<1> QED
  BY <1>1, <1>2, <1>4, <1>5, <1>6, AskedIsCurrent DEF Working

(* A compile without filters in which nothing failed leaves every file     *)
(* that a simulation of the experiment opens current, so that run.sh can   *)
(* be run by hand (main.rs:101), of every harness.lua that tells ninja     *)
(* enough and whose experiments have names of their own.                   *)
THEOREM CompiledIsCurrent == Traceable /\ NamesDiffer => (Spec => []CompileIsEnough)
<1> SUFFICES ASSUME Traceable, NamesDiffer PROVE Spec => []CompileIsEnough
  OBVIOUS
<1>1. Init => ReportInv /\ CompileInv
  BY InitReportInv, InitCompileInv
<1>2. ReportInv /\ CompileInv /\ [Next]_vars => ReportInv' /\ CompileInv'
  BY StepReportInv, StepCompileInv DEF ReportInv
<1>3. ReportInv /\ CompileInv => CompileIsEnough
  BY CompileComes
<1> QED
  BY <1>1, <1>2, <1>3, PTL DEF Spec

(* All that the above rests on, together: harness.lua tells ninja what it  *)
(* must (Scripts); and in every state, whatever was edited, failed, was    *)
(* interrupted or cleaned, ninja's log is to be believed (FaithfulInv),    *)
(* what resolving wrote is there and what is made from it is older         *)
(* (FilesInv, StaleInv; hw.rs:60-98, sim.rs:76-111), what ninja made while *)
(* it works is current (MadeInv), the analysis reads that (AnalysedInv),   *)
(* and a compile has asked for all it says (CompileInv).                   *)
ResultsInv == Scripts /\ ReportInv /\ CompileInv

THEOREM ResultsInvariant == Scripts => (Spec => []ResultsInv)
<1> SUFFICES ASSUME Scripts PROVE Spec => []ResultsInv
  OBVIOUS
<1>1. Traceable /\ NamesDiffer
  BY DEF Scripts
<1>2. Init => ReportInv /\ CompileInv
  BY <1>1, InitReportInv, InitCompileInv
<1>3. ReportInv /\ CompileInv /\ [Next]_vars => ReportInv' /\ CompileInv'
  BY <1>1, StepReportInv, StepCompileInv DEF ReportInv
<1>4. ReportInv /\ CompileInv => ResultsInv
  BY DEF ResultsInv
<1> QED
  BY <1>2, <1>3, <1>4, PTL DEF Spec
=============================================================================
